---------------------------- MODULE I2cAsyncProofs ----------------------------
(***************************************************************************)
(* The I2C task and its clients, proved for any number of tasks, any       *)
(* operations, any length of the queue and any number of retries: the      *)
(* types, CallbacksInOrder, OpsAlive and AnswerAfterWork, and that the     *)
(* humidity is never measured.                                             *)
(*                                                                         *)
(* The invariant has three parts that build on each other.  What the task  *)
(* has reported of the request in hand (Reported) gives the order of the   *)
(* callbacks; with it, how many callbacks the present call of a caller has *)
(* had (HeardOfPresent); and with that, where the request of a caller that *)
(* has the bus to itself can be (OneCaller).                               *)
(***************************************************************************)
EXTENDS I2cAsync, FiniteSetTheorems, TLAPS

Pcs == {"receive", "op", "read", "decide", "finish", "signal"}

Workers == [pc : Pcs, req : Requests, op : Nat, cur : Ops,
            fail_count : 0 .. MAX_RETRY, result : {ESP_OK, ESP_FAIL}]

Clients == [pc : {"idle", "send", "wait", "return"}, call : CallNumbers,
            res : {ESP_OK, ESP_FAIL, ESP_ERR_TIMEOUT}]

Reports == [op : Nat, res : {ESP_OK, ESP_FAIL, ESP_ERR_INVALID_ARG},
            attempts : Nat]

\* What TypeOK says, but for the bound on heard, and the types it leaves out.
Types ==
  /\ i2c_queue \in Seq(Requests) /\ Len(i2c_queue) <= QueueLen
  /\ bits \subseteq {"CPLT", "ERR"}
  /\ worker \in Workers
  /\ worker.op <= worker.req.first + worker.req.count
  /\ worker.op > 0
  /\ client \in [SyncTasks -> Clients]
  /\ notified \in Seq(Reports)
  /\ attempts \in Nat
  /\ heard \in [SyncTasks -> Nat]
  /\ alone \in BOOLEAN

\* Each call of hdc1080_polling_handler sends the same request, of one
\* operation that is not the reading of the humidity.
HasShape(req) ==
  req.first = 1 /\ req.count = IF req.client = Hdc THEN 1 ELSE Len(SyncOps)

FirstOperationOnly ==
  /\ hdc = [is_init |-> FALSE, first |-> 1, count |-> 1]
  /\ HasShape(worker.req)
  /\ \A i \in 1 .. Len(i2c_queue) : HasShape(i2c_queue[i])
  /\ humidity = FALSE

Busy == worker.pc \in {"op", "read", "decide"}

\* The operations before the one in hand have been reported, none of them as
\* failed, and each failure of the one in hand has been counted.
Reported ==
  /\ Len(notified) <= worker.req.count
  /\ Busy =>
       /\ Len(notified) = worker.op - worker.req.first
       /\ \A i \in 1 .. Len(notified) : notified[i].res # ESP_FAIL
       /\ attempts = worker.fail_count + IF worker.pc = "op" THEN 0 ELSE 1
  /\ worker.pc \in {"read", "decide"} => OpsLeft

Carries(req, c) == req.client = c /\ req.call = client[c].call

\* The present call of a task is in the queue at most once, or it is the last
\* one the I2C task has taken, and it has heard what was reported of it.
HeardOfPresent ==
  \A c \in SyncTasks :
    /\ heard[c] <= Len(SyncOps)
    /\ \A i, j \in 1 .. Len(i2c_queue) :
         Carries(i2c_queue[i], c) /\ Carries(i2c_queue[j], c) => i = j
    /\ \A i \in 1 .. Len(i2c_queue) :
         Carries(i2c_queue[i], c) => heard[c] = 0 /\ ~Carries(worker.req, c)
    /\ client[c].pc = "send" =>
         /\ heard[c] = 0 /\ ~Carries(worker.req, c)
         /\ \A i \in 1 .. Len(i2c_queue) : ~Carries(i2c_queue[i], c)
    /\ Carries(worker.req, c) => heard[c] = Len(notified)

Resting == i2c_queue = <<>> /\ worker.pc = "receive"

\* The three places where the request of a caller that waits can be.
Queued(c) ==
  /\ i2c_queue = <<Request(c, client[c].call, 1, Len(SyncOps))>>
  /\ worker.pc = "receive" /\ "CPLT" \notin bits

InHand(c) ==
  /\ i2c_queue = <<>> /\ worker.pc # "receive"
  /\ Carries(worker.req, c) /\ "CPLT" \notin bits

Answered(c) ==
  /\ Resting /\ Carries(worker.req, c)
  /\ heard[c] > 0 /\ "CPLT" \in bits

OneCaller ==
  alone =>
    /\ \A c, d \in SyncTasks :
         client[c].pc # "idle" /\ client[d].pc # "idle" => c = d
    /\ (\A c \in SyncTasks : client[c].pc = "idle") => Resting
    /\ \A c \in SyncTasks :
         /\ client[c].pc = "send" => Resting /\ "CPLT" \notin bits
         /\ client[c].pc = "wait" => Queued(c) \/ InHand(c) \/ Answered(c)
         /\ client[c].pc = "return" => client[c].res = ESP_OK /\ Answered(c)

IInv ==
  /\ Types /\ FirstOperationOnly
  /\ Reported /\ CallbacksInOrder
  /\ HeardOfPresent /\ OneCaller

-----------------------------------------------------------------------------
(***************************************************************************)
(* Lemmas about the data.                                                  *)
(***************************************************************************)
\* Tasks of i2c_send_sync are not the sensor, and every request has a shape.
LEMMA ShapeType ==
  ASSUME NEW c \in SyncTasks \union {Hdc}, NEW n \in CallNumbers,
         NEW k \in {1, 2, Len(SyncOps)}
  PROVE  Request(c, n, 1, k) \in Requests
BY I2cAssumption DEF Request, Requests

LEMMA HdcOpsType == HdcOps[1] \in Ops
BY DEF HdcOps, Op, Ops

LEMMA IdleWorkerType == IdleWorker \in Workers
<1>1. NoRequest \in Requests
  BY ShapeType, I2cAssumption DEF NoRequest, CallNumbers
<1> QED
  BY <1>1, HdcOpsType, I2cAssumption DEF IdleWorker, Workers, Pcs

\* The operation that the task reads while the caller waits is one of the
\* caller's operations.
LEMMA FoundType == Types /\ FirstOperationOnly /\ OpsLeft => Found \subseteq Ops
<1> SUFFICES ASSUME Types, FirstOperationOnly, OpsLeft PROVE Found \subseteq Ops
  OBVIOUS
<1>1. worker.req \in Requests /\ worker.op \in Nat /\ worker.op > 0
  BY DEF Types, Workers
<1>2. HasShape(worker.req) /\ worker.op < worker.req.first + worker.req.count
  BY DEF FirstOperationOnly, OpsLeft
<1>3. CASE worker.req.client = Hdc
  <2>1. worker.op = 1
    BY <1>1, <1>2, <1>3 DEF HasShape
  <2> QED
    BY <1>3, <2>1, HdcOpsType DEF Found, OpsOf
<1>4. CASE worker.req.client # Hdc
  <2>1. worker.op \in 1 .. Len(SyncOps)
    BY <1>1, <1>2, <1>4, I2cAssumption DEF HasShape
  <2>2. SyncOps[worker.op] \in Ops
    BY <2>1, I2cAssumption
  <2> QED
    BY <1>4, <2>2 DEF Found, OpsOf
<1> QED BY <1>3, <1>4

\* The queue and the request in hand carry at most QueueLen + 1 numbers, one
\* less than there are: there is always one that no request carries.
LEMMA FreshCallExists ==
  ASSUME Types, NEW c \in SyncTasks
  PROVE  /\ FreshCall(c) \in CallNumbers
         /\ \A i \in 1 .. Len(i2c_queue) :
              i2c_queue[i].client = c => i2c_queue[i].call # FreshCall(c)
         /\ worker.req.client = c => worker.req.call # FreshCall(c)
<1> DEFINE Holders == 0 .. Len(i2c_queue)
           CallOf(i) == IF i = 0 THEN worker.req.call ELSE i2c_queue[i].call
           Free(n) == \A i \in Holders : CallOf(i) # n
<1>1. Len(i2c_queue) \in Nat /\ Len(i2c_queue) <= QueueLen /\ QueueLen \in Nat
  BY I2cAssumption DEF Types
<1>2. IsFiniteSet(Holders) /\ Cardinality(Holders) = Len(i2c_queue) + 1
  BY <1>1, FS_Interval
<1>3. IsFiniteSet(CallNumbers) /\ Cardinality(CallNumbers) = QueueLen + 2
  BY <1>1, FS_Interval DEF CallNumbers
<1>4. \E n \in CallNumbers : Free(n)
  <2> SUFFICES ASSUME \A n \in CallNumbers : ~Free(n) PROVE FALSE
    OBVIOUS
  <2> DEFINE f == [n \in CallNumbers |-> CHOOSE i \in Holders : CallOf(i) = n]
  <2>1. \A n \in CallNumbers : f[n] \in Holders /\ CallOf(f[n]) = n
    OBVIOUS
  <2>2. f \in [CallNumbers -> Holders]
    BY <2>1
  <2>3. Cardinality(Holders) < Cardinality(CallNumbers)
    BY <1>1, <1>2, <1>3
  <2> HIDE DEF f, Holders, CallOf
  <2>4. \E m, n \in CallNumbers : m # n /\ f[m] = f[n]
    BY <1>2, <1>3, <2>2, <2>3, FS_PigeonHole
  <2> QED BY <2>1, <2>4
<1>5. PICK n \in CallNumbers : Free(n)
  BY <1>4
<1>6. /\ \A i \in 1 .. Len(i2c_queue) :
           i2c_queue[i].client = c => i2c_queue[i].call # n
      /\ worker.req.client = c => worker.req.call # n
  <2>1. 0 \in Holders /\ \A i \in 1 .. Len(i2c_queue) : i \in Holders /\ i # 0
    BY <1>1
  <2> QED BY <1>5, <2>1
<1> QED BY <1>6 DEF FreshCall

LEMMA EmptyQueue == \A S : <<>> \in Seq(S) /\ Len(<<>>) = 0
OBVIOUS

LEMMA InitInv == Init => IInv
<1> SUFFICES ASSUME Init PROVE IInv
  OBVIOUS
<1>1. /\ worker.pc = "receive" /\ worker.op = 1 /\ worker.fail_count = 0
      /\ worker.req = NoRequest
      /\ NoRequest.first = 1 /\ NoRequest.count = 1 /\ NoRequest.client = Hdc
  BY DEF Init, IdleWorker, NoRequest, Request
<1>2. worker \in Workers
  BY IdleWorkerType DEF Init
<1>3. Types
  <2>1. 0 \in CallNumbers
    BY I2cAssumption DEF CallNumbers
  <2>2. client \in [SyncTasks -> Clients]
    BY <2>1 DEF Init, Clients
  <2> QED
    BY <1>1, <1>2, <2>2, EmptyQueue, I2cAssumption DEF Types, Init
<1>4. FirstOperationOnly
  BY <1>1 DEF FirstOperationOnly, HasShape, Init
<1>5. Reported /\ CallbacksInOrder
  BY <1>1 DEF Reported, CallbacksInOrder, Busy, Init
<1>6. HeardOfPresent
  BY <1>1, I2cAssumption DEF HeardOfPresent, Carries, Init
<1>7. OneCaller
  BY <1>1 DEF OneCaller, Resting, Init
<1> QED BY <1>3, <1>4, <1>5, <1>6, <1>7 DEF IInv

-----------------------------------------------------------------------------
(***************************************************************************)
(* What several actions have in common.                                    *)
(***************************************************************************)
\* Callers and polls change nothing of what the I2C task keeps for itself.
LEMMA ReportedStays ==
  ASSUME IInv, UNCHANGED <<worker, notified, attempts>>
  PROVE  Reported' /\ CallbacksInOrder'
BY DEF IInv, Reported, CallbacksInOrder, Busy, OpsLeft

\* Steps of the I2C task that call nobody back.
LEMMA HeardStays ==
  ASSUME IInv, UNCHANGED <<i2c_queue, client, heard, notified>>,
         worker'.req = worker.req
  PROVE  HeardOfPresent'
BY DEF IInv, HeardOfPresent, Carries

\* While the I2C task works for a caller that is alone, that caller waits.
LEMMA OneCallerWorks ==
  ASSUME IInv, UNCHANGED <<i2c_queue, client, alone>>,
         worker.pc # "receive", worker'.pc # "receive",
         worker'.req = worker.req, "CPLT" \in bits' <=> "CPLT" \in bits
  PROVE  OneCaller'
BY DEF IInv, OneCaller, Resting, Queued, InHand, Answered, Carries

\* The callback of one operation: its report goes to the end of what has been
\* reported, and the caller hears it when the call is its present one.
LEMMA NotifyEffect ==
  ASSUME IInv, NEW res \in {ESP_OK, ESP_FAIL, ESP_ERR_INVALID_ARG},
         Notify(res), OpsLeft, Busy,
         worker'.req = worker.req, UNCHANGED <<i2c_queue, client>>
  PROVE  /\ notified' \in Seq(Reports)
         /\ Len(notified') = Len(notified) + 1
         /\ Len(notified') <= worker.req.count
         /\ \A i \in 1 .. Len(notified) : notified'[i] = notified[i]
         /\ notified'[Len(notified')] =
              [op |-> worker.op, res |-> res, attempts |-> attempts]
         /\ heard' \in [SyncTasks -> Nat]
         /\ humidity' = FALSE
         /\ HeardOfPresent'
<1> DEFINE r == [op |-> worker.op, res |-> res, attempts |-> attempts]
<1>1. worker.op \in Nat /\ worker.req \in Requests /\ attempts \in Nat
        /\ notified \in Seq(Reports)
  BY DEF IInv, Types, Workers
<1>2. r \in Reports
  BY <1>1 DEF Reports
<1>3. notified' = Append(notified, r)
  BY DEF Notify
<1> HIDE DEF r
<1>4. /\ notified' \in Seq(Reports) /\ Len(notified') = Len(notified) + 1
      /\ \A i \in 1 .. Len(notified) : notified'[i] = notified[i]
      /\ notified'[Len(notified')] = r
  BY <1>1, <1>2, <1>3
<1>5. HasShape(worker.req) /\ worker.op < worker.req.first + worker.req.count
  BY DEF IInv, FirstOperationOnly, OpsLeft
<1>6. worker.req.count \in Nat
  BY <1>5, I2cAssumption DEF HasShape
<1>7. Len(notified) = worker.op - 1
  BY <1>5 DEF IInv, Reported, HasShape
<1>8. Len(notified') <= worker.req.count
  BY <1>1, <1>4, <1>5, <1>6, <1>7 DEF HasShape
<1>9. humidity' = FALSE
  <2>1. worker.req.client = Hdc => worker.op = 1
    BY <1>1, <1>5, <1>7 DEF HasShape
  <2>2. ~(worker.req.client = Hdc /\ worker.op = HumidityOp /\ res = ESP_OK)
    BY <2>1 DEF HumidityOp
  <2>3. /\ humidity = FALSE
        /\ humidity' = (humidity \/ (/\ worker.req.client = Hdc
                                     /\ worker.op = HumidityOp
                                     /\ res = ESP_OK))
    BY DEF Notify, IInv, FirstOperationOnly
  <2> QED
    BY <2>2, <2>3, Zenon
<1>10. \A c \in SyncTasks :
         heard'[c] = IF Carries(worker.req, c) THEN heard[c] + 1 ELSE heard[c]
  <2>1. heard \in [SyncTasks -> Nat]
    BY DEF IInv, Types
  <2> QED
    BY <2>1, I2cAssumption DEF Notify, Carries
<1>11. heard' \in [SyncTasks -> Nat]
  BY DEF Notify, IInv, Types
<1>12. HeardOfPresent'
  <2> SUFFICES ASSUME NEW c \in SyncTasks
               PROVE  /\ heard'[c] <= Len(SyncOps)
                      /\ \A i, j \in 1 .. Len(i2c_queue) :
                           Carries(i2c_queue[i], c) /\ Carries(i2c_queue[j], c)
                             => i = j
                      /\ \A i \in 1 .. Len(i2c_queue) :
                           Carries(i2c_queue[i], c) =>
                             heard'[c] = 0 /\ ~Carries(worker.req, c)
                      /\ client[c].pc = "send" =>
                           /\ heard'[c] = 0 /\ ~Carries(worker.req, c)
                           /\ \A i \in 1 .. Len(i2c_queue) :
                                ~Carries(i2c_queue[i], c)
                      /\ Carries(worker.req, c) => heard'[c] = Len(notified')
    BY DEF HeardOfPresent, Carries
  <2>1. CASE Carries(worker.req, c)
    <3>1. heard'[c] = Len(notified')
      BY <2>1, <1>1, <1>4, <1>10 DEF IInv, HeardOfPresent
    <3>2. worker.req.count = Len(SyncOps)
      BY <2>1, <1>5, I2cAssumption DEF HasShape, Carries
    <3> QED
      BY <2>1, <3>1, <3>2, <1>8 DEF IInv, HeardOfPresent
  <2>2. CASE ~Carries(worker.req, c)
    BY <2>2, <1>10 DEF IInv, HeardOfPresent
  <2> QED BY <2>1, <2>2
<1> QED BY <1>4, <1>8, <1>9, <1>11, <1>12 DEF r

-----------------------------------------------------------------------------
(***************************************************************************)
(* The steps of the I2C task.                                              *)
(***************************************************************************)
LEMMA ReceiveInv == ASSUME IInv, Receive PROVE IInv'
<1> DEFINE req == Head(i2c_queue)
<1>1. /\ worker.pc = "receive" /\ i2c_queue # <<>>
      /\ worker' = [IdleWorker EXCEPT !.pc = "op", !.req = req, !.op = req.first]
      /\ i2c_queue' = Tail(i2c_queue) /\ notified' = <<>> /\ attempts' = 0
      /\ UNCHANGED <<bits, client, hdc, humidity, heard, alone>>
  BY DEF Receive
<1>2. i2c_queue \in Seq(Requests) /\ Len(i2c_queue) > 0
        /\ Len(i2c_queue) <= QueueLen
  BY <1>1 DEF IInv, Types
<1>3. /\ req = i2c_queue[1] /\ req \in Requests
      /\ i2c_queue' \in Seq(Requests) /\ Len(i2c_queue') = Len(i2c_queue) - 1
      /\ \A i \in 1 .. Len(i2c_queue') :
           i2c_queue'[i] = i2c_queue[i + 1] /\ i + 1 \in 1 .. Len(i2c_queue)
  BY <1>1, <1>2
<1>4. HasShape(req) /\ req.first = 1 /\ req.count \in Nat \ {0}
  BY <1>2, <1>3, I2cAssumption DEF IInv, FirstOperationOnly, HasShape
<1> HIDE DEF req
<1>5. /\ worker'.pc = "op" /\ worker'.req = req /\ worker'.op = 1
      /\ worker'.fail_count = 0 /\ worker'.result = ESP_OK
      /\ worker'.cur = HdcOps[1]
      /\ worker' \in Workers
  <2>1. worker' = [pc |-> "op", req |-> req, op |-> 1, cur |-> HdcOps[1],
                   fail_count |-> 0, result |-> ESP_OK]
    BY <1>1, <1>4 DEF IdleWorker
  <2>2. 0 \in 0 .. MAX_RETRY
    BY I2cAssumption
  <2>3. worker' \in Workers
    BY <2>1, <2>2, <1>3, HdcOpsType DEF Workers, Pcs
  <2> QED
    BY <2>1, <2>3
<1>6. Types'
  BY <1>1, <1>2, <1>3, <1>4, <1>5, EmptyQueue, I2cAssumption DEF IInv, Types
<1>7. FirstOperationOnly'
  <2>1. HasShape(worker.req)'
    BY <1>4, <1>5 DEF HasShape
  <2>2. \A i \in 1 .. Len(i2c_queue') : HasShape(i2c_queue'[i])
    BY <1>3 DEF IInv, FirstOperationOnly
  <2> QED
    BY <1>1, <2>1, <2>2 DEF IInv, FirstOperationOnly, HasShape
<1>8. Reported' /\ CallbacksInOrder'
  BY <1>1, <1>4, <1>5, EmptyQueue DEF Reported, CallbacksInOrder, Busy
<1>9. HeardOfPresent'
  <2> SUFFICES ASSUME NEW c \in SyncTasks
               PROVE  /\ heard[c] <= Len(SyncOps)
                      /\ \A i, j \in 1 .. Len(i2c_queue') :
                           Carries(i2c_queue'[i], c) /\ Carries(i2c_queue'[j], c)
                             => i = j
                      /\ \A i \in 1 .. Len(i2c_queue') :
                           Carries(i2c_queue'[i], c) =>
                             heard[c] = 0 /\ ~Carries(req, c)
                      /\ client[c].pc = "send" =>
                           /\ heard[c] = 0 /\ ~Carries(req, c)
                           /\ \A i \in 1 .. Len(i2c_queue') :
                                ~Carries(i2c_queue'[i], c)
                      /\ Carries(req, c) => heard[c] = 0
    BY <1>1, <1>5, EmptyQueue DEF HeardOfPresent, Carries
  <2>1. 1 \in 1 .. Len(i2c_queue)
    BY <1>2
  <2>2. \A i \in 1 .. Len(i2c_queue') : i + 1 # 1
    BY <1>3
  <2>3. \A i, j \in 1 .. Len(i2c_queue') : i + 1 = j + 1 => i = j
    OBVIOUS
  <2>4. HeardOfPresent
    BY DEF IInv
  <2>5. \A i, j \in 1 .. Len(i2c_queue') :
          Carries(i2c_queue'[i], c) /\ Carries(i2c_queue'[j], c) => i = j
    BY <1>3, <2>3, <2>4 DEF HeardOfPresent
  <2>6. \A i \in 1 .. Len(i2c_queue') :
          Carries(i2c_queue'[i], c) => heard[c] = 0 /\ ~Carries(req, c)
    <3> SUFFICES ASSUME NEW i \in 1 .. Len(i2c_queue'),
                        Carries(i2c_queue'[i], c)
                 PROVE  heard[c] = 0 /\ ~Carries(req, c)
      OBVIOUS
    <3>1. i + 1 \in 1 .. Len(i2c_queue) /\ Carries(i2c_queue[i + 1], c)
      BY <1>3
    <3>2. heard[c] = 0
      BY <2>4, <3>1 DEF HeardOfPresent
    <3>3. ~Carries(i2c_queue[1], c)
      BY <2>1, <2>2, <2>4, <3>1 DEF HeardOfPresent
    <3> QED BY <3>2, <3>3, <1>3
  <2>7. client[c].pc = "send" =>
          /\ heard[c] = 0 /\ ~Carries(i2c_queue[1], c)
          /\ \A i \in 1 .. Len(i2c_queue') : ~Carries(i2c_queue'[i], c)
    BY <1>3, <2>1, <2>4 DEF HeardOfPresent
  <2>8. heard[c] <= Len(SyncOps) /\ (Carries(i2c_queue[1], c) => heard[c] = 0)
    BY <2>1, <2>4 DEF HeardOfPresent
  <2> QED
    BY <1>3, <2>5, <2>6, <2>7, <2>8
<1>10. OneCaller'
  <2> SUFFICES ASSUME alone PROVE OneCaller'
    BY <1>1 DEF OneCaller
  <2>1. OneCaller /\ ~Resting
    BY <1>1 DEF IInv, Resting
  <2>2. PICK c \in SyncTasks : client[c].pc # "idle"
    BY <2>1 DEF OneCaller
  <2>3. \A d \in SyncTasks \ {c} : client[d].pc = "idle"
    BY <2>1, <2>2 DEF OneCaller
  <2>4. client[c].pc = "wait" /\ Queued(c)
    <3>1. client[c].pc \in {"send", "wait", "return"}
      BY <2>2 DEF IInv, Types, Clients
    <3> QED
      BY <1>1, <2>1, <3>1 DEF OneCaller, Answered, InHand
  <2>5. InHand(c)'
    <3>1. i2c_queue = <<Request(c, client[c].call, 1, Len(SyncOps))>>
            /\ "CPLT" \notin bits
      BY <2>4 DEF Queued
    <3>2. req = Request(c, client[c].call, 1, Len(SyncOps)) /\ i2c_queue' = <<>>
      BY <1>1, <3>1 DEF req
    <3>3. req.client = c /\ req.call = client[c].call
      BY <3>2 DEF Request
    <3> QED
      BY <1>1, <1>5, <3>1, <3>2, <3>3 DEF InHand, Carries
  <2> QED
    BY <1>1, <2>2, <2>3, <2>4, <2>5 DEF OneCaller
<1> QED BY <1>6, <1>7, <1>8, <1>9, <1>10 DEF IInv

\* The steps within one operation: nothing is reported, only the place in the
\* operation and the count of attempts move.
LEMMA WithinOperation ==
  ASSUME IInv, Busy,
         UNCHANGED <<i2c_queue, bits, client, hdc, humidity, notified, heard,
                     alone>>,
         worker' \in Workers, worker'.req = worker.req, worker'.op = worker.op,
         attempts' \in Nat, OpsLeft,
         worker'.pc \in {"op", "read", "decide"},
         attempts' = worker'.fail_count + IF worker'.pc = "op" THEN 0 ELSE 1
  PROVE  IInv'
<1>1. Types'
  BY DEF IInv, Types
<1>2. FirstOperationOnly'
  BY DEF IInv, FirstOperationOnly, HasShape
<1>3. Reported' /\ CallbacksInOrder'
  BY DEF IInv, Reported, CallbacksInOrder, Busy, OpsLeft
<1>4. HeardOfPresent'
  BY HeardStays
<1>5. OneCaller'
  BY OneCallerWorks DEF Busy
<1> QED BY <1>1, <1>2, <1>3, <1>4, <1>5 DEF IInv

LEMMA OpWriteInv == ASSUME IInv, OpWrite PROVE IInv'
<1>0. worker.pc = "op" /\ OpsLeft
  BY Zenon DEF OpWrite
<1>1. Types /\ worker.pc = "op" /\ OpsLeft /\ Busy
  BY <1>0 DEF IInv, Busy
<1>2. PICK op \in Found :
        \E res \in IF TwoStepReading(op) \/ op.write
                   THEN Outcomes ELSE {worker.result} :
          worker' = [worker EXCEPT !.pc = "read", !.result = res, !.cur = op]
  BY DEF OpWrite
<1>8. PICK res \in Outcomes \union {worker.result} :
        worker' = [worker EXCEPT !.pc = "read", !.result = res, !.cur = op]
  BY <1>2
<1>3. op \in Ops /\ res \in {ESP_OK, ESP_FAIL}
  BY <1>1, FoundType DEF IInv, Types, Workers, Outcomes
<1>4. /\ worker' \in Workers /\ worker'.pc = "read" /\ worker'.req = worker.req
      /\ worker'.op = worker.op /\ worker'.fail_count = worker.fail_count
  BY <1>1, <1>8, <1>3 DEF Types, Workers, Pcs
<1>5. attempts = worker.fail_count /\ worker.fail_count \in 0 .. MAX_RETRY
  BY <1>1 DEF IInv, Types, Reported, Workers
<1>6. attempts' = attempts + 1
  BY <1>5, I2cAssumption DEF OpWrite
<1>7. UNCHANGED <<i2c_queue, bits, client, hdc, humidity, notified, heard, alone>>
  BY DEF OpWrite
<1> QED
  BY <1>1, <1>4, <1>5, <1>6, <1>7, WithinOperation

LEMMA OpReadInv == ASSUME IInv, OpRead PROVE IInv'
<1>1. Types /\ worker.pc = "read" /\ OpsLeft /\ Busy
  BY DEF IInv, OpRead, Busy, Reported
<1>2. PICK res \in IF worker.cur.read THEN Outcomes ELSE {worker.result} :
        worker' = [worker EXCEPT !.pc = "decide", !.result = res,
                                 !.cur = HdcOps[1]]
  BY DEF OpRead
<1>3. res \in {ESP_OK, ESP_FAIL}
  BY <1>1, <1>2 DEF Types, Workers, Outcomes
<1>4. /\ worker' \in Workers /\ worker'.pc = "decide" /\ worker'.req = worker.req
      /\ worker'.op = worker.op /\ worker'.fail_count = worker.fail_count
  BY <1>1, <1>2, <1>3, HdcOpsType DEF Types, Workers, Pcs
<1>5. UNCHANGED <<i2c_queue, bits, client, hdc, humidity, notified, attempts,
                  heard, alone>>
  BY DEF OpRead
<1>6. attempts' = worker'.fail_count + 1 /\ attempts' \in Nat
  BY <1>1, <1>4, <1>5 DEF IInv, Reported, Types
<1> QED
  BY <1>1, <1>4, <1>5, <1>6, WithinOperation

LEMMA OpRetryInv == ASSUME IInv, OpRetry PROVE IInv'
<1>1. Types /\ worker.pc = "decide" /\ OpsLeft /\ Busy
        /\ worker.fail_count < MAX_RETRY
        /\ worker' = [worker EXCEPT !.pc = "op", !.fail_count = @ + 1]
  BY DEF IInv, OpRetry, Busy, Reported
<1>2. /\ worker' \in Workers /\ worker'.pc = "op" /\ worker'.req = worker.req
      /\ worker'.op = worker.op /\ worker'.fail_count = worker.fail_count + 1
  <2>1. worker \in Workers /\ worker.fail_count + 1 \in 0 .. MAX_RETRY
    BY <1>1, I2cAssumption DEF Types, Workers
  <2> QED
    BY <1>1, <2>1 DEF Workers, Pcs
<1>3. UNCHANGED <<i2c_queue, bits, client, hdc, humidity, notified, attempts,
                  heard, alone>>
  BY DEF OpRetry
<1>4. attempts' = worker'.fail_count + 0 /\ attempts' \in Nat
  <2>1. worker.fail_count \in Nat /\ attempts \in Nat
    BY <1>1, I2cAssumption DEF Types, Workers
  <2> QED
    BY <1>1, <1>2, <1>3, <2>1 DEF IInv, Reported
<1> QED
  BY <1>1, <1>2, <1>3, <1>4, WithinOperation

\* What is reported, and that the next operation is taken up, with nothing
\* counted against it, or what was counted before the caller went away.
LEMMA NextOperation ==
  ASSUME IInv, Busy, OpsLeft,
         NEW res \in {ESP_OK, ESP_ERR_INVALID_ARG}, Notify(res),
         UNCHANGED <<i2c_queue, client, hdc, alone>>,
         bits' \in {bits, bits \union {"ERR"}},
         worker' \in Workers, worker'.req = worker.req,
         worker'.op = worker.op + 1, worker'.pc = "op",
         attempts' \in Nat, attempts' = worker'.fail_count
  PROVE  IInv'
<1>1. /\ notified' \in Seq(Reports)
      /\ Len(notified') = Len(notified) + 1
      /\ Len(notified') <= worker.req.count
      /\ \A i \in 1 .. Len(notified) : notified'[i] = notified[i]
      /\ notified'[Len(notified')] =
           [op |-> worker.op, res |-> res, attempts |-> attempts]
      /\ heard' \in [SyncTasks -> Nat]
      /\ humidity' = FALSE
      /\ HeardOfPresent'
  BY NotifyEffect
<1>2. /\ worker.op \in Nat /\ worker.req.first = 1 /\ worker.req.count \in Nat
      /\ worker.op < worker.req.first + worker.req.count
      /\ Len(notified) = worker.op - worker.req.first
      /\ notified \in Seq(Reports)
  BY I2cAssumption DEF IInv, Types, Workers, OpsLeft, FirstOperationOnly,
    HasShape, Reported
<1>3. Types'
  <2>1. Types
    BY DEF IInv
  <2>2. worker'.op > 0 /\ worker'.op <= worker'.req.first + worker'.req.count
    BY <1>2
  <2>3. bits' \subseteq {"CPLT", "ERR"}
    BY <2>1 DEF Types
  <2> QED
    BY <1>1, <2>1, <2>2, <2>3 DEF Types
<1>4. FirstOperationOnly'
  BY <1>1 DEF IInv, FirstOperationOnly, HasShape
<1>5. Len(notified) \in Nat /\ Len(notified') \in Nat
  BY <1>1, <1>2
<1>6. \A i \in 1 .. Len(notified') : i \in 1 .. Len(notified) \/ i = Len(notified')
  BY <1>1, <1>5
<1>7. res # ESP_FAIL
  BY DEF ESP_OK, ESP_FAIL, ESP_ERR_INVALID_ARG
<1>8. \A i \in 1 .. Len(notified) : notified[i].res # ESP_FAIL
  BY DEF IInv, Reported
<1>9. \A i \in 1 .. Len(notified') : notified'[i].res # ESP_FAIL
  BY <1>1, <1>6, <1>7, <1>8
<1>10. Reported'
  BY <1>1, <1>2, <1>5, <1>9 DEF Reported, Busy
<1>11. CallbacksInOrder'
  <2>1. \A i \in 1 .. Len(notified') :
          notified'[i].op = worker.req.first + i - 1
    <3> SUFFICES ASSUME NEW i \in 1 .. Len(notified')
                 PROVE  notified'[i].op = worker.req.first + i - 1
      OBVIOUS
    <3>1. CASE i \in 1 .. Len(notified)
      BY <1>1, <3>1 DEF IInv, CallbacksInOrder
    <3>2. CASE i = Len(notified')
      <4>1. notified'[i].op = worker.op
        BY <1>1, <3>2
      <4> QED
        BY <1>1, <1>2, <1>5, <3>2, <4>1
    <3> QED BY <1>6, <3>1, <3>2
  <2> QED
    BY <1>9, <2>1 DEF CallbacksInOrder
<1>12. OneCaller'
  BY OneCallerWorks DEF Busy
<1> QED BY <1>1, <1>3, <1>4, <1>10, <1>11, <1>12 DEF IInv

LEMMA OpInvalidInv == ASSUME IInv, OpInvalid PROVE IInv'
<1>1. /\ worker.pc = "op" /\ OpsLeft /\ Notify(ESP_ERR_INVALID_ARG)
      /\ bits' = bits \union {"ERR"}
      /\ worker' = [worker EXCEPT !.op = @ + 1]
      /\ UNCHANGED <<i2c_queue, client, hdc, attempts, alone>>
  BY DEF OpInvalid
<1>2. /\ worker' \in Workers /\ worker'.req = worker.req
      /\ worker'.op = worker.op + 1 /\ worker'.pc = "op"
      /\ worker'.fail_count = worker.fail_count
  <2>1. worker \in Workers /\ worker.op + 1 \in Nat
    BY DEF IInv, Types, Workers
  <2> QED
    BY <1>1, <2>1 DEF Workers
<1>3. attempts' \in Nat /\ attempts' = worker'.fail_count /\ Busy
  <2>1. attempts \in Nat /\ worker.fail_count \in Nat
    BY I2cAssumption DEF IInv, Types, Workers
  <2> QED
    BY <1>1, <1>2, <2>1 DEF IInv, Busy, Reported
<1> QED
  BY <1>1, <1>2, <1>3, NextOperation

LEMMA OpSucceededInv == ASSUME IInv, OpSucceeded PROVE IInv'
<1>1. /\ worker.pc = "decide" /\ Notify(ESP_OK) /\ attempts' = 0
      /\ worker' = [worker EXCEPT !.pc = "op", !.op = @ + 1, !.fail_count = 0]
      /\ UNCHANGED <<i2c_queue, bits, client, hdc, alone>>
  BY DEF OpSucceeded
<1>2. /\ worker' \in Workers /\ worker'.req = worker.req
      /\ worker'.op = worker.op + 1 /\ worker'.pc = "op"
      /\ worker'.fail_count = 0
  <2>1. worker \in Workers /\ worker.op + 1 \in Nat /\ 0 \in 0 .. MAX_RETRY
    BY I2cAssumption DEF IInv, Types, Workers
  <2> QED
    BY <1>1, <2>1 DEF Workers, Pcs
<1>3. OpsLeft /\ Busy
  BY <1>1 DEF IInv, Reported, Busy
<1> QED
  BY <1>1, <1>2, <1>3, NextOperation

\* What ends a request: it has been reported as far as it got.
LEMMA FinishedStays ==
  ASSUME IInv,
         UNCHANGED <<i2c_queue, client, hdc, humidity, notified, attempts,
                     heard, alone>>,
         worker.pc # "receive", worker'.pc \in {"finish", "signal"},
         worker' \in Workers, worker'.req = worker.req, worker'.op = worker.op,
         worker.pc \in {"finish", "signal"}
           \/ (worker.pc = "op" /\ ~OpsLeft),
         UNCHANGED bits
  PROVE  IInv'
<1>1. Types'
  BY DEF IInv, Types
<1>2. FirstOperationOnly'
  BY DEF IInv, FirstOperationOnly, HasShape
<1>3. Reported'
  BY DEF IInv, Reported, Busy, OpsLeft
<1>4. worker.pc = "op" => Len(notified) = worker.req.count
  BY I2cAssumption DEF IInv, Reported, Busy, OpsLeft, Types, Workers,
    FirstOperationOnly, HasShape
<1>5. CallbacksInOrder'
  BY <1>4 DEF IInv, CallbacksInOrder
<1>6. HeardOfPresent' /\ OneCaller'
  BY HeardStays, OneCallerWorks
<1> QED BY <1>1, <1>2, <1>3, <1>5, <1>6 DEF IInv

LEMMA OpsDoneInv == ASSUME IInv, OpsDone PROVE IInv'
<1>1. /\ worker.pc = "op" /\ ~OpsLeft
      /\ worker' = [worker EXCEPT !.pc = "finish"]
      /\ UNCHANGED <<i2c_queue, bits, client, hdc, humidity, notified, attempts,
                     heard, alone>>
  BY DEF OpsDone
<1>2. /\ worker' \in Workers /\ worker'.req = worker.req
      /\ worker'.op = worker.op /\ worker'.pc = "finish"
  BY <1>1 DEF IInv, Types, Workers, Pcs
<1> QED
  BY <1>1, <1>2, FinishedStays

LEMMA FinishInv == ASSUME IInv, Finish PROVE IInv'
<1>1. PICK pc \in {"signal", "receive"} :
        /\ worker.pc = "finish" /\ worker' = [worker EXCEPT !.pc = pc]
        /\ pc = "signal" <=> i2c_queue = <<>>
        /\ UNCHANGED <<i2c_queue, bits, client, hdc, humidity, notified,
                       attempts, heard, alone>>
  BY DEF Finish
<1>2. /\ worker' \in Workers /\ worker'.req = worker.req
      /\ worker'.op = worker.op /\ worker'.pc = pc
  BY <1>1 DEF IInv, Types, Workers, Pcs
<1>3. CASE pc = "signal"
  BY <1>1, <1>2, <1>3, FinishedStays
<1>4. CASE pc = "receive"
  <2>1. Types' /\ FirstOperationOnly'
    BY <1>1, <1>2 DEF IInv, Types, FirstOperationOnly, HasShape
  <2>2. Reported' /\ CallbacksInOrder'
    BY <1>1, <1>2, <1>4 DEF IInv, Reported, CallbacksInOrder, Busy
  <2>3. HeardOfPresent'
    BY <1>1, <1>2, HeardStays
  <2>4. OneCaller'
    <3> SUFFICES ASSUME alone PROVE FALSE
      BY <1>1 DEF OneCaller
    <3>1. PICK c \in SyncTasks : client[c].pc # "idle"
      BY <1>1 DEF IInv, OneCaller, Resting
    <3>2. client[c].pc \in {"send", "wait", "return"}
      BY <3>1 DEF IInv, Types, Clients
    <3> QED
      BY <1>1, <1>4, <3>2
      DEF IInv, OneCaller, Resting, Queued, InHand, Answered
  <2> QED BY <2>1, <2>2, <2>3, <2>4 DEF IInv
<1> QED BY <1>3, <1>4

\* The bit that all callers share is set when the I2C task has found the queue
\* empty: a caller that is alone has heard of its operations by then.
LEMMA SignalInv == ASSUME IInv, Signal PROVE IInv'
<1>1. /\ worker.pc = "signal" /\ bits' = bits \union {"CPLT"}
      /\ worker' = [worker EXCEPT !.pc = "receive"]
      /\ UNCHANGED <<i2c_queue, client, hdc, humidity, notified, attempts, heard,
                     alone>>
  BY DEF Signal
<1>2. /\ worker' \in Workers /\ worker'.req = worker.req
      /\ worker'.op = worker.op /\ worker'.pc = "receive"
  BY <1>1 DEF IInv, Types, Workers, Pcs
<1>3. Types' /\ FirstOperationOnly'
  BY <1>1, <1>2 DEF IInv, Types, FirstOperationOnly, HasShape
<1>4. Reported' /\ CallbacksInOrder'
  BY <1>1, <1>2 DEF IInv, Reported, CallbacksInOrder, Busy
<1>5. HeardOfPresent'
  BY <1>1, <1>2, HeardStays
<1>6. OneCaller'
  <2> SUFFICES ASSUME alone PROVE OneCaller'
    BY <1>1 DEF OneCaller
  <2>1. OneCaller /\ ~Resting
    BY <1>1 DEF IInv, Resting
  <2>2. PICK c \in SyncTasks : client[c].pc # "idle"
    BY <2>1 DEF OneCaller
  <2>3. \A d \in SyncTasks \ {c} : client[d].pc = "idle"
    BY <2>1, <2>2 DEF OneCaller
  <2>4. client[c].pc = "wait" /\ InHand(c)
    <3>1. client[c].pc \in {"send", "wait", "return"}
      BY <2>2 DEF IInv, Types, Clients
    <3> QED
      BY <1>1, <2>1, <3>1 DEF OneCaller, Queued, Answered, Resting
  <2>5. heard[c] > 0
    <3>1. worker.req.count > 0 /\ Len(notified) \in Nat
      BY I2cAssumption DEF IInv, FirstOperationOnly, HasShape, Types
    <3>2. Len(notified) > 0
      BY <1>1, <3>1 DEF IInv, CallbacksInOrder, Types
    <3> QED
      BY <2>4, <3>2 DEF IInv, HeardOfPresent, InHand
  <2>6. Answered(c)'
    BY <1>1, <1>2, <2>4, <2>5 DEF InHand, Answered, Resting, Carries
  <2> QED
    BY <1>1, <2>2, <2>3, <2>4, <2>6 DEF OneCaller
<1> QED BY <1>3, <1>4, <1>5, <1>6 DEF IInv

\* The last attempt has failed: one report more, which is the last.
LEMMA OpFailedInv == ASSUME IInv, OpFailed PROVE IInv'
<1>1. /\ worker.pc = "decide" /\ worker.result # ESP_OK
      /\ worker.fail_count >= MAX_RETRY /\ Notify(worker.result)
      /\ worker' = [worker EXCEPT !.pc = "finish"]
      /\ UNCHANGED <<i2c_queue, bits, client, hdc, attempts, alone>>
  BY DEF OpFailed
<1>2. /\ worker' \in Workers /\ worker'.req = worker.req
      /\ worker'.op = worker.op /\ worker'.pc = "finish"
  BY <1>1 DEF IInv, Types, Workers, Pcs
<1>3. OpsLeft /\ Busy /\ worker.result = ESP_FAIL
  BY <1>1 DEF IInv, Reported, Busy, Types, Workers
<1>4. attempts = MAX_RETRY + 1
  <2>1. worker.fail_count = MAX_RETRY
    BY <1>1, I2cAssumption DEF IInv, Types, Workers
  <2> QED
    BY <1>1, <1>3, <2>1 DEF IInv, Reported
<1>5. /\ notified' \in Seq(Reports)
      /\ Len(notified') = Len(notified) + 1
      /\ Len(notified') <= worker.req.count
      /\ \A i \in 1 .. Len(notified) : notified'[i] = notified[i]
      /\ notified'[Len(notified')] =
           [op |-> worker.op, res |-> ESP_FAIL, attempts |-> attempts]
      /\ heard' \in [SyncTasks -> Nat]
      /\ humidity' = FALSE
      /\ HeardOfPresent'
  BY <1>1, <1>2, <1>3, NotifyEffect
<1>6. Types'
  BY <1>1, <1>2, <1>5 DEF IInv, Types
<1>7. FirstOperationOnly'
  BY <1>1, <1>2, <1>5 DEF IInv, FirstOperationOnly, HasShape
<1>8. Reported'
  BY <1>1, <1>2, <1>5 DEF Reported, Busy
<1>9. /\ notified \in Seq(Reports) /\ Len(notified) \in Nat
      /\ Len(notified') \in Nat
      /\ \A i \in 1 .. Len(notified') :
           i \in 1 .. Len(notified) \/ i = Len(notified')
  BY <1>5 DEF IInv, Types
<1>10. \A i \in 1 .. Len(notified') : notified'[i].op = worker.req.first + i - 1
  <2> SUFFICES ASSUME NEW i \in 1 .. Len(notified')
               PROVE  notified'[i].op = worker.req.first + i - 1
    OBVIOUS
  <2>1. CASE i \in 1 .. Len(notified)
    BY <1>5, <2>1 DEF IInv, CallbacksInOrder
  <2>2. CASE i = Len(notified')
    <3>1. notified'[i].op = worker.op
      BY <1>5, <2>2
    <3>2. Len(notified) = worker.op - worker.req.first /\ worker.op \in Nat
            /\ worker.req.first = 1
      BY <1>3 DEF IInv, Reported, Types, Workers, FirstOperationOnly, HasShape
    <3> QED
      BY <1>5, <1>9, <2>2, <3>1, <3>2
  <2> QED BY <1>9, <2>1, <2>2
<1>11. \A i \in 1 .. Len(notified') :
         notified'[i].res = ESP_FAIL =>
           i = Len(notified') /\ notified'[i].attempts = MAX_RETRY + 1
  <2> SUFFICES ASSUME NEW i \in 1 .. Len(notified'),
                      notified'[i].res = ESP_FAIL
               PROVE  i = Len(notified')
                        /\ notified'[i].attempts = MAX_RETRY + 1
    OBVIOUS
  <2>1. i = Len(notified')
    BY <1>3, <1>5, <1>9 DEF IInv, Reported
  <2> QED
    BY <1>4, <1>5, <2>1
<1>12. CallbacksInOrder'
  <2>1. notified' # <<>> /\ notified'[Len(notified')].res = ESP_FAIL
    BY <1>5, <1>9
  <2> QED
    BY <1>2, <1>10, <1>11, <2>1 DEF CallbacksInOrder
<1>13. OneCaller'
  BY <1>1, <1>2, OneCallerWorks
<1> QED BY <1>5, <1>6, <1>7, <1>8, <1>12, <1>13 DEF IInv

-----------------------------------------------------------------------------
(***************************************************************************)
(* The steps of the callers and of the sensor's polling handler.           *)
(***************************************************************************)
LEMMA AppendedRequest ==
  ASSUME Types, Accepts, NEW r \in Requests,
         i2c_queue' = Append(i2c_queue, r)
  PROVE  /\ i2c_queue' \in Seq(Requests)
         /\ Len(i2c_queue') = Len(i2c_queue) + 1 /\ Len(i2c_queue') <= QueueLen
         /\ Len(i2c_queue) \in Nat
         /\ \A i \in 1 .. Len(i2c_queue) : i2c_queue'[i] = i2c_queue[i]
         /\ i2c_queue'[Len(i2c_queue')] = r
         /\ \A i \in 1 .. Len(i2c_queue') :
              i \in 1 .. Len(i2c_queue) \/ i = Len(i2c_queue')
BY I2cAssumption DEF Types, Accepts

\* A new call: its number is carried by no request, so nothing has been heard
\* of it.
LEMMA SyncClearBitsInv ==
  ASSUME IInv, NEW c \in SyncTasks, SyncClearBits(c)
  PROVE  IInv'
<1> DEFINE n == FreshCall(c)
<1>1. /\ client[c].pc = "idle" /\ bits' = bits \ {"CPLT", "ERR"}
      /\ client' = [client EXCEPT ![c] =
           [pc |-> "send", call |-> n, res |-> ESP_OK]]
      /\ heard' = [heard EXCEPT ![c] = 0]
      /\ alone' = (alone /\ OthersIdle(c))
      /\ UNCHANGED <<i2c_queue, worker, hdc, humidity, notified, attempts>>
  BY DEF SyncClearBits
<1>2. /\ n \in CallNumbers
      /\ \A i \in 1 .. Len(i2c_queue) :
           i2c_queue[i].client = c => i2c_queue[i].call # n
      /\ worker.req.client = c => worker.req.call # n
  BY FreshCallExists DEF IInv
<1> HIDE DEF n
<1>3. [pc |-> "send", call |-> n, res |-> ESP_OK] \in Clients
  BY <1>2 DEF Clients
<1>4. /\ client' \in [SyncTasks -> Clients]
      /\ client'[c].pc = "send" /\ client'[c].call = n
      /\ \A d \in SyncTasks \ {c} : client'[d] = client[d] /\ heard'[d] = heard[d]
      /\ heard'[c] = 0 /\ heard' \in [SyncTasks -> Nat]
  BY <1>1, <1>3 DEF IInv, Types
<1>5. alone' \in BOOLEAN
  BY <1>1
<1>6. Types'
  BY <1>1, <1>4, <1>5 DEF IInv, Types
<1>7. FirstOperationOnly' /\ Reported' /\ CallbacksInOrder'
  BY <1>1, ReportedStays DEF IInv, FirstOperationOnly, HasShape
<1>8. HeardOfPresent'
  <2> SUFFICES ASSUME NEW d \in SyncTasks
               PROVE  /\ heard'[d] <= Len(SyncOps)
                      /\ \A i, j \in 1 .. Len(i2c_queue) :
                           Carries(i2c_queue[i], d)' /\ Carries(i2c_queue[j], d)'
                             => i = j
                      /\ \A i \in 1 .. Len(i2c_queue) :
                           Carries(i2c_queue[i], d)' =>
                             heard'[d] = 0 /\ ~Carries(worker.req, d)'
                      /\ client'[d].pc = "send" =>
                           /\ heard'[d] = 0 /\ ~Carries(worker.req, d)'
                           /\ \A i \in 1 .. Len(i2c_queue) :
                                ~Carries(i2c_queue[i], d)'
                      /\ Carries(worker.req, d)' => heard'[d] = Len(notified)
    BY <1>1 DEF HeardOfPresent, Carries
  <2>1. CASE d = c
    BY <1>1, <1>2, <1>4, <2>1, I2cAssumption DEF Carries
  <2>2. CASE d # c
    BY <1>1, <1>4, <2>2 DEF IInv, HeardOfPresent, Carries
  <2> QED BY <2>1, <2>2
<1>9. OneCaller'
  <2> SUFFICES ASSUME alone' PROVE OneCaller'
    BY DEF OneCaller
  <2>1. alone /\ \A d \in SyncTasks \ {c} : client[d].pc = "idle"
    BY <1>1 DEF OthersIdle
  <2>2. Resting
    BY <1>1, <2>1 DEF IInv, OneCaller
  <2>3. Resting' /\ "CPLT" \notin bits'
    BY <1>1, <2>2 DEF Resting
  <2> QED
    BY <1>4, <2>1, <2>3 DEF OneCaller
<1> QED BY <1>6, <1>7, <1>8, <1>9 DEF IInv

\* The steps of a call that leave its number, the queue and the bits alone.
LEMMA SameCall ==
  ASSUME IInv, NEW c \in SyncTasks, NEW r \in Clients,
         client' = [client EXCEPT ![c] = r], r.call = client[c].call,
         r.pc # "send", alone' \in BOOLEAN,
         UNCHANGED <<i2c_queue, bits, worker, hdc, humidity, notified, attempts,
                     heard>>
  PROVE  /\ Types' /\ FirstOperationOnly'
         /\ Reported' /\ CallbacksInOrder' /\ HeardOfPresent'
         /\ client'[c] = r
         /\ \A d \in SyncTasks \ {c} : client'[d] = client[d]
<1>1. /\ client' \in [SyncTasks -> Clients] /\ client'[c] = r
      /\ \A d \in SyncTasks \ {c} : client'[d] = client[d]
      /\ \A d \in SyncTasks :
           /\ client'[d].call = client[d].call
           /\ client'[d].pc = "send" => client[d].pc = "send"
  BY DEF IInv, Types
<1>2. Types' /\ FirstOperationOnly'
  BY <1>1 DEF IInv, Types, FirstOperationOnly, HasShape
<1>3. HeardOfPresent'
  BY <1>1 DEF IInv, HeardOfPresent, Carries
<1> QED BY <1>1, <1>2, <1>3, ReportedStays

LEMMA SyncWakeInv ==
  ASSUME IInv, NEW c \in SyncTasks, SyncWake(c)
  PROVE  IInv'
<1>1. /\ client[c].pc = "wait" /\ "CPLT" \in bits
      /\ client' = [client EXCEPT ![c].pc = "return", ![c].res = ESP_OK]
      /\ UNCHANGED <<i2c_queue, bits, worker, hdc, humidity, notified, attempts,
                     heard, alone>>
  BY DEF SyncWake
<1>2. client[c] \in Clients /\ alone \in BOOLEAN
  BY DEF IInv, Types
<1>4. PICK r : /\ r = [client[c] EXCEPT !.pc = "return", !.res = ESP_OK]
               /\ client' = [client EXCEPT ![c] = r]
  BY <1>1 DEF IInv, Types
<1>3. r \in Clients /\ r.pc = "return" /\ r.call = client[c].call
        /\ r.res = ESP_OK
  BY <1>2, <1>4 DEF Clients
<1>5. /\ Types' /\ FirstOperationOnly'
      /\ Reported' /\ CallbacksInOrder' /\ HeardOfPresent'
      /\ client'[c] = r
      /\ \A d \in SyncTasks \ {c} : client'[d] = client[d]
  BY <1>1, <1>2, <1>3, <1>4, SameCall
<1>6. OneCaller'
  <2> SUFFICES ASSUME alone PROVE OneCaller'
    BY <1>1 DEF OneCaller
  <2>1. Answered(c) /\ \A d \in SyncTasks \ {c} : client[d].pc = "idle"
    BY <1>1 DEF IInv, OneCaller, Queued, InHand
  <2>2. Answered(c)'
    BY <1>1, <1>3, <1>5, <2>1 DEF Answered, Resting, Carries
  <2> QED
    BY <1>3, <1>5, <2>1, <2>2 DEF OneCaller
<1> QED BY <1>5, <1>6 DEF IInv

LEMMA SyncTimeoutInv ==
  ASSUME IInv, NEW c \in SyncTasks, SyncTimeout(c)
  PROVE  IInv'
<1>1. /\ client' = [client EXCEPT ![c].pc = "return", ![c].res = ESP_ERR_TIMEOUT]
      /\ alone' = FALSE
      /\ UNCHANGED <<i2c_queue, bits, worker, hdc, humidity, notified, attempts,
                     heard>>
  BY DEF SyncTimeout
<1>2. client[c] \in Clients
  BY DEF IInv, Types
<1>4. PICK r : /\ r = [client[c] EXCEPT !.pc = "return",
                                         !.res = ESP_ERR_TIMEOUT]
               /\ client' = [client EXCEPT ![c] = r]
  BY <1>1 DEF IInv, Types
<1>3. r \in Clients /\ r.pc = "return" /\ r.call = client[c].call
  BY <1>2, <1>4 DEF Clients
<1>5. /\ Types' /\ FirstOperationOnly'
      /\ Reported' /\ CallbacksInOrder' /\ HeardOfPresent'
  BY <1>1, <1>2, <1>3, <1>4, SameCall
<1>6. OneCaller'
  BY <1>1 DEF OneCaller
<1> QED BY <1>5, <1>6 DEF IInv

LEMMA SyncReturnInv ==
  ASSUME IInv, NEW c \in SyncTasks, SyncReturn(c)
  PROVE  IInv'
<1>1. /\ client[c].pc = "return"
      /\ client' = [client EXCEPT ![c].pc = "idle"]
      /\ UNCHANGED <<i2c_queue, bits, worker, hdc, humidity, notified, attempts,
                     heard, alone>>
  BY DEF SyncReturn
<1>2. client[c] \in Clients /\ alone \in BOOLEAN
  BY DEF IInv, Types
<1> DEFINE r == [pc |-> "idle", call |-> client[c].call, res |-> client[c].res]
<1>3. r \in Clients
  BY <1>2 DEF Clients
<1>4. client' = [client EXCEPT ![c] = r]
  <2>1. [client[c] EXCEPT !.pc = "idle"] = r
    BY <1>2 DEF Clients
  <2> QED
    BY <1>1, <2>1 DEF IInv, Types
<1>5. /\ Types' /\ FirstOperationOnly'
      /\ Reported' /\ CallbacksInOrder' /\ HeardOfPresent'
      /\ client'[c] = r
      /\ \A d \in SyncTasks \ {c} : client'[d] = client[d]
  BY <1>1, <1>2, <1>3, <1>4, SameCall
<1>6. OneCaller'
  <2> SUFFICES ASSUME alone PROVE OneCaller'
    BY <1>1 DEF OneCaller
  <2>1. Resting /\ \A d \in SyncTasks \ {c} : client[d].pc = "idle"
    BY <1>1 DEF IInv, OneCaller, Answered
  <2>2. Resting' /\ \A d \in SyncTasks : client'[d].pc = "idle"
    BY <1>1, <1>5, <2>1 DEF Resting
  <2> QED
    BY <2>2 DEF OneCaller
<1> QED BY <1>5, <1>6 DEF IInv

LEMMA SyncSendInv ==
  ASSUME IInv, NEW c \in SyncTasks, SyncSend(c)
  PROVE  IInv'
<1>1. /\ client[c].pc = "send" /\ client[c] \in Clients /\ alone \in BOOLEAN
      /\ UNCHANGED <<bits, worker, hdc, humidity, notified, attempts, heard,
                     alone>>
  BY DEF SyncSend, IInv, Types
<1>2. CASE ~Accepts
  <2> DEFINE r == [pc |-> "return", call |-> client[c].call, res |-> ESP_FAIL]
  <2>1. r \in Clients
    BY <1>1 DEF Clients
  <2>2. client' = [client EXCEPT ![c] = r] /\ UNCHANGED i2c_queue
    BY <1>1, <1>2 DEF SyncSend, IInv, Types, Clients
  <2>3. /\ Types' /\ FirstOperationOnly'
        /\ Reported' /\ CallbacksInOrder' /\ HeardOfPresent'
    BY <1>1, <2>1, <2>2, SameCall
  <2>4. ~alone
    <3>1. i2c_queue # <<>>
      BY <1>2, EmptyQueue, I2cAssumption DEF Accepts
    <3> QED
      BY <1>1, <3>1 DEF IInv, OneCaller, Resting
  <2>5. OneCaller'
    BY <1>1, <2>4 DEF OneCaller
  <2> QED BY <2>3, <2>5 DEF IInv
<1>3. CASE Accepts
  <2> DEFINE r == [pc |-> "wait", call |-> client[c].call, res |-> client[c].res]
             q == Request(c, client[c].call, 1, Len(SyncOps))
  <2>1. r \in Clients /\ q \in Requests
    BY <1>1, ShapeType DEF Clients
  <2>2. client' = [client EXCEPT ![c] = r] /\ i2c_queue' = Append(i2c_queue, q)
    BY <1>1, <1>3 DEF SyncSend, IInv, Types, Clients
  <2>3. /\ client' \in [SyncTasks -> Clients] /\ client'[c] = r
        /\ \A d \in SyncTasks \ {c} : client'[d] = client[d]
        /\ \A d \in SyncTasks :
             /\ client'[d].call = client[d].call
             /\ client'[d].pc = "send" => client[d].pc = "send" /\ d # c
    BY <2>1, <2>2 DEF IInv, Types
  <2>4. /\ q.client = c /\ q.call = client[c].call /\ HasShape(q)
    BY I2cAssumption DEF Request, HasShape
  <2>5. /\ i2c_queue' \in Seq(Requests)
        /\ Len(i2c_queue') = Len(i2c_queue) + 1 /\ Len(i2c_queue') <= QueueLen
        /\ Len(i2c_queue) \in Nat
        /\ \A i \in 1 .. Len(i2c_queue) : i2c_queue'[i] = i2c_queue[i]
        /\ i2c_queue'[Len(i2c_queue')] = q
        /\ \A i \in 1 .. Len(i2c_queue') :
             i \in 1 .. Len(i2c_queue) \/ i = Len(i2c_queue')
    BY <1>3, <2>1, <2>2, AppendedRequest DEF IInv
  <2>12. alone => i2c_queue' = <<q>>
    <3> SUFFICES ASSUME alone PROVE i2c_queue' = <<q>>
      OBVIOUS
    <3>1. i2c_queue = <<>>
      BY <1>1 DEF IInv, OneCaller, Resting
    <3> QED BY <2>2, <3>1
  <2> HIDE DEF q
  <2>6. Types'
    BY <1>1, <2>3, <2>5 DEF IInv, Types
  <2>7. FirstOperationOnly'
    BY <1>1, <2>4, <2>5 DEF IInv, FirstOperationOnly, HasShape
  <2>8. Reported' /\ CallbacksInOrder'
    BY <1>1, ReportedStays
  <2>9. HeardOfPresent'
    <3> SUFFICES ASSUME NEW d \in SyncTasks
                 PROVE  /\ heard[d] <= Len(SyncOps)
                        /\ \A i, j \in 1 .. Len(i2c_queue') :
                             Carries(i2c_queue'[i], d) /\ Carries(i2c_queue'[j], d)
                               => i = j
                        /\ \A i \in 1 .. Len(i2c_queue') :
                             Carries(i2c_queue'[i], d) =>
                               heard[d] = 0 /\ ~Carries(worker.req, d)
                        /\ client'[d].pc = "send" =>
                             /\ heard[d] = 0 /\ ~Carries(worker.req, d)
                             /\ \A i \in 1 .. Len(i2c_queue') :
                                  ~Carries(i2c_queue'[i], d)
                        /\ Carries(worker.req, d) => heard[d] = Len(notified)
      BY <1>1, <2>3 DEF HeardOfPresent, Carries
    <3>1. CASE d = c
      <4>1. /\ heard[c] = 0 /\ ~Carries(worker.req, c)
            /\ \A i \in 1 .. Len(i2c_queue) : ~Carries(i2c_queue[i], c)
        BY <1>1 DEF IInv, HeardOfPresent
      <4>2. \A i \in 1 .. Len(i2c_queue') :
              Carries(i2c_queue'[i], c) => i = Len(i2c_queue')
        BY <2>5, <4>1
      <4> QED
        <5>1. client'[c].pc # "send" /\ 0 <= Len(SyncOps)
          BY <2>3, I2cAssumption
        <5>2. \A i, j \in 1 .. Len(i2c_queue') :
                Carries(i2c_queue'[i], c) /\ Carries(i2c_queue'[j], c) => i = j
          BY <4>2
        <5> QED
          BY <3>1, <4>1, <5>1, <5>2
    <3>2. CASE d # c
      <4>1. ~Carries(q, d)
        BY <2>4, <3>2 DEF Carries
      <4>2. \A i \in 1 .. Len(i2c_queue') : Carries(i2c_queue'[i], d) =>
              i \in 1 .. Len(i2c_queue) /\ Carries(i2c_queue[i], d)
        BY <2>5, <4>1
      <4>3. HeardOfPresent /\ client'[d].pc = client[d].pc
        BY <2>3, <3>2 DEF IInv
      <4>4. \A i, j \in 1 .. Len(i2c_queue') :
              Carries(i2c_queue'[i], d) /\ Carries(i2c_queue'[j], d) => i = j
        BY <4>2, <4>3 DEF HeardOfPresent
      <4>5. \A i \in 1 .. Len(i2c_queue') : Carries(i2c_queue'[i], d) =>
              heard[d] = 0 /\ ~Carries(worker.req, d)
        BY <4>2, <4>3 DEF HeardOfPresent
      <4>6. client[d].pc = "send" =>
              /\ heard[d] = 0 /\ ~Carries(worker.req, d)
              /\ \A i \in 1 .. Len(i2c_queue') : ~Carries(i2c_queue'[i], d)
        BY <4>2, <4>3 DEF HeardOfPresent
      <4>7. heard[d] <= Len(SyncOps)
              /\ (Carries(worker.req, d) => heard[d] = Len(notified))
        BY <4>3 DEF HeardOfPresent
      <4> QED
        BY <4>3, <4>4, <4>5, <4>6, <4>7
    <3> QED BY <3>1, <3>2
  <2>10. OneCaller'
    <3> SUFFICES ASSUME alone PROVE OneCaller'
      BY <1>1 DEF OneCaller
    <3>1. /\ worker.pc = "receive" /\ "CPLT" \notin bits
          /\ \A d \in SyncTasks \ {c} : client[d].pc = "idle"
      BY <1>1 DEF IInv, OneCaller, Resting
    <3>2. Queued(c)'
      BY <1>1, <2>3, <2>12, <3>1 DEF Queued, q
    <3> QED
      BY <2>3, <3>1, <3>2 DEF OneCaller
  <2> QED BY <2>6, <2>7, <2>8, <2>9, <2>10 DEF IInv
<1> QED BY <1>2, <1>3

\* The polling handler: its branch under is_init is not reached.
LEMMA HdcPollInv == ASSUME IInv, HdcPoll PROVE IInv'
<1> DEFINE q == Request(Hdc, 0, 1, 1)
<1>1. Advanced(hdc) = hdc /\ hdc.first = 1 /\ hdc.count = 1
  BY DEF IInv, FirstOperationOnly, Advanced
<1>2. /\ hdc' = hdc /\ alone' = FALSE
      /\ i2c_queue' = IF Accepts THEN Append(i2c_queue, q) ELSE i2c_queue
      /\ UNCHANGED <<bits, worker, client, humidity, notified, attempts, heard>>
  BY <1>1 DEF HdcPoll
<1>3. q \in Requests
  BY ShapeType, I2cAssumption DEF CallNumbers
<1>4. q.client = Hdc /\ HasShape(q)
  BY DEF Request, HasShape
<1> HIDE DEF q
<1>5. Reported' /\ CallbacksInOrder' /\ OneCaller'
  BY <1>2, ReportedStays DEF OneCaller
<1>6. CASE ~Accepts
  <2>1. UNCHANGED <<i2c_queue, bits, worker, client, hdc, humidity, notified,
                    attempts, heard>> /\ alone' = FALSE
    BY <1>2, <1>6
  <2>2. Types' /\ FirstOperationOnly'
    BY <2>1 DEF IInv, Types, FirstOperationOnly, HasShape
  <2>3. HeardOfPresent'
    BY <2>1, HeardStays
  <2> QED BY <1>5, <2>2, <2>3 DEF IInv
<1>7. CASE Accepts
  <2>1. /\ i2c_queue' \in Seq(Requests)
        /\ Len(i2c_queue') = Len(i2c_queue) + 1 /\ Len(i2c_queue') <= QueueLen
        /\ Len(i2c_queue) \in Nat
        /\ \A i \in 1 .. Len(i2c_queue) : i2c_queue'[i] = i2c_queue[i]
        /\ i2c_queue'[Len(i2c_queue')] = q
        /\ \A i \in 1 .. Len(i2c_queue') :
             i \in 1 .. Len(i2c_queue) \/ i = Len(i2c_queue')
    BY <1>2, <1>3, <1>7, AppendedRequest DEF IInv
  <2>2. Types' /\ FirstOperationOnly'
    BY <1>2, <1>4, <2>1 DEF IInv, Types, FirstOperationOnly, HasShape
  <2>3. \A d \in SyncTasks, i \in 1 .. Len(i2c_queue') :
          Carries(i2c_queue'[i], d) =>
            i \in 1 .. Len(i2c_queue) /\ Carries(i2c_queue[i], d)
    BY <1>4, <2>1, I2cAssumption DEF Carries
  <2>4. HeardOfPresent'
    BY <1>2, <2>3 DEF IInv, HeardOfPresent, Carries
  <2> QED BY <1>5, <2>2, <2>4 DEF IInv
<1> QED BY <1>6, <1>7

LEMMA NextInv == IInv /\ [Next]_vars => IInv'
<1> SUFFICES ASSUME IInv, [Next]_vars PROVE IInv'
  OBVIOUS
<1>1. CASE UNCHANGED vars
  <2>1. UNCHANGED <<i2c_queue, bits, worker, client, hdc, humidity, notified,
                    attempts, heard, alone>>
    BY <1>1 DEF vars
  <2>2. Types' /\ FirstOperationOnly'
    BY <2>1 DEF IInv, Types, FirstOperationOnly, HasShape
  <2>3. Reported' /\ CallbacksInOrder' /\ HeardOfPresent'
    BY <2>1, ReportedStays, HeardStays
  <2>4. OneCaller'
    BY <2>1 DEF IInv, OneCaller, Resting, Queued, InHand, Answered, Carries
  <2> QED BY <2>2, <2>3, <2>4 DEF IInv
<1>2. CASE WorkerStep
  BY <1>2, ReceiveInv, OpInvalidInv, OpWriteInv, OpReadInv, OpSucceededInv,
    OpRetryInv, OpFailedInv, OpsDoneInv, FinishInv, SignalInv DEF WorkerStep
<1>3. CASE HdcPoll
  BY <1>3, HdcPollInv
<1>4. ASSUME NEW c \in SyncTasks, SyncClearBits(c) \/ ClientStep(c)
      PROVE  IInv'
  BY <1>4, SyncClearBitsInv, SyncSendInv, SyncWakeInv, SyncTimeoutInv,
    SyncReturnInv DEF ClientStep
<1> QED BY <1>1, <1>2, <1>3, <1>4 DEF Next

LEMMA SpecIInv == Spec => []IInv
BY InitInv, NextInv, PTL DEF Spec

-----------------------------------------------------------------------------
(***************************************************************************)
(* The theorems.                                                           *)
(***************************************************************************)
\* Type correctness; the queue keeps its capacity, whatever is polled and sent.
THEOREM TypeCorrect == Spec => []TypeOK
<1>1. IInv => TypeOK
  <2> SUFFICES ASSUME IInv PROVE TypeOK
    OBVIOUS
  <2>1. worker.req \in Requests /\ worker.op \in Nat
          /\ worker.req.first \in Nat /\ worker.req.count \in Nat
    BY I2cAssumption DEF IInv, Types, Workers, Requests
  <2>2. worker.op \in 1 .. worker.req.first + worker.req.count
    BY <2>1 DEF IInv, Types
  <2>3. heard \in [SyncTasks -> 0 .. Len(SyncOps)]
    <3>1. \A c \in SyncTasks : heard[c] \in 0 .. Len(SyncOps)
      BY I2cAssumption DEF IInv, Types, HeardOfPresent
    <3> QED
      BY <3>1 DEF IInv, Types
  <2>4. hdc \in [is_init : BOOLEAN, first : {1, 2}, count : {1, 2}]
    BY DEF IInv, FirstOperationOnly
  <2> QED
    BY <2>1, <2>2, <2>3, <2>4
    DEF TypeOK, IInv, Types, FirstOperationOnly, Workers, Pcs, Clients
<1> QED BY SpecIInv, <1>1, PTL

\* The callbacks of a request come in the order of its operations and end with
\* the first failure, which is reported after exactly MAX_RETRY + 1 attempts.
THEOREM CallbacksAlwaysInOrder == Spec => []CallbacksInOrder
<1>1. IInv => CallbacksInOrder
  BY DEF IInv
<1> QED BY SpecIInv, <1>1, PTL

\* The I2C task reads the operations of a caller that is alone only while that
\* caller still waits.
THEOREM OpsAlwaysAlive == Spec => []OpsAlive
<1>1. IInv => OpsAlive
  <2> SUFFICES ASSUME IInv, alone, worker.pc \in {"op", "read", "decide"}
               PROVE  Alive(worker.req)
    BY DEF OpsAlive
  <2>1. ~Resting
    BY DEF Resting
  <2>2. PICK c \in SyncTasks : client[c].pc # "idle"
    BY <2>1 DEF IInv, OneCaller
  <2>3. client[c].pc \in {"send", "wait", "return"}
    BY <2>2 DEF IInv, Types, Clients
  <2>4. client[c].pc = "wait" /\ InHand(c)
    BY <2>1, <2>3 DEF IInv, OneCaller, Queued, Answered, Resting
  <2> QED
    BY <2>4 DEF InHand, Carries, Alive
<1> QED BY SpecIInv, <1>1, PTL

\* A caller that is alone and is answered ESP_OK is answered about its own
\* request, of which something has been reported.
THEOREM AnswerAlwaysAfterWork == Spec => []AnswerAfterWork
<1>1. IInv => AnswerAfterWork
  BY DEF IInv, OneCaller, Answered, Resting, Carries, AnswerAfterWork
<1> QED BY SpecIInv, <1>1, PTL

\* hdc1080_polling_handler never gets beyond the first operation: no value of
\* the humidity is ever stored, on whatever bus and however long it polls.
THEOREM HumidityNeverMeasured == Spec => []~humidity
<1>1. IInv => ~humidity
  BY DEF IInv, FirstOperationOnly
<1> QED BY SpecIInv, <1>1, PTL
=============================================================================
