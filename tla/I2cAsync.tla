------------------------------- MODULE I2cAsync -------------------------------
(***************************************************************************)
(* The I2C task of components/device_i2c/i2c_async.c with its clients: the *)
(* tasks that call i2c_send_sync (the ST25DV driver, the tests) and the    *)
(* polling handler of the humidity sensor (hdc1080.c), which calls         *)
(* i2c_send_async from the event task once per second.                     *)
(*                                                                         *)
(* A request is copied into i2c_queue, its operations are not: the I2C     *)
(* task reads them where the caller keeps them.  All callers share one bit *)
(* of the device's event group, BIT_I2C_OPER_CPLT, to learn of completion. *)
(***************************************************************************)
EXTENDS Integers, Sequences, FiniteSets

CONSTANTS
  SyncTasks,    \* tasks that call i2c_send_sync
  SyncOps,      \* the operations of such a call
  HdcPolls,     \* whether the humidity sensor is polled
  QueueLen,     \* I2C_QUEUE_LEN
  MAX_RETRY,
  BusFails,     \* whether a transfer may fail
  MayTimeout    \* whether the limit of i2c_send_sync may pass before the end

\* An operation by what the task distinguishes: post_delay and the two sizes
\* against zero, and the test of its arguments.
Ops == [valid : BOOLEAN, write : BOOLEAN, delay : BOOLEAN, read : BOOLEAN]

Op(v, w, d, r) == [valid |-> v, write |-> w, delay |-> d, read |-> r]

\* ops[] of hdc1080.c: configuration, humidity, temperature.
HdcOps == << Op(TRUE, TRUE, TRUE, FALSE),
             Op(TRUE, FALSE, TRUE, TRUE),
             Op(TRUE, FALSE, TRUE, TRUE) >>

HumidityOp == 2

Hdc == "hdc1080"

ASSUME I2cAssumption ==
  /\ Hdc \notin SyncTasks
  /\ SyncOps \in Seq(Ops)
  /\ Len(SyncOps) > 0
  /\ QueueLen \in Nat \ {0} /\ MAX_RETRY \in Nat
  /\ HdcPolls \in BOOLEAN /\ BusFails \in BOOLEAN /\ MayTimeout \in BOOLEAN

\* Enough numbers to tell the calls of a task apart whose requests are in the
\* queue or in hand.
CallNumbers == 0 .. QueueLen + 1

Requests ==
  [client : SyncTasks \union {Hdc}, call : CallNumbers, first : {1, 2},
   count : {1, 2, Len(SyncOps)}]

VARIABLES
  i2c_queue,
  bits,     \* of the event group: "CPLT", "ERR"
  worker,   \* the local variables of i2c_task
  client,   \* where each caller of i2c_send_sync is
  hdc,      \* is_init and req of hdc1080.c
  humidity, \* whether hum_cplt_callback has ever stored a value
  notified, \* history: the callbacks made for the request in hand
  attempts, \* history: the attempts at the operation in hand, MAX_RETRY + 2
            \* standing for too many
  heard,    \* history: the callbacks made for each task's present call
  alone     \* history: no poll of the sensor, no limit and no other caller has
            \* come in between

vars == <<i2c_queue, bits, worker, client, hdc, humidity, notified, attempts,
          heard, alone>>

ESP_OK    == "OK"
ESP_FAIL  == "FAIL"
ESP_ERR_INVALID_ARG == "INVALID_ARG"
ESP_ERR_TIMEOUT == "TIMEOUT"

Outcomes == IF BusFails THEN {ESP_OK, ESP_FAIL} ELSE {ESP_OK}

Request(c, n, f, k) == [client |-> c, call |-> n, first |-> f, count |-> k]

NoRequest == Request(Hdc, 0, 1, 1)

OpsOf(c) == IF c = Hdc THEN HdcOps ELSE SyncOps

IdleWorker == [pc |-> "receive", req |-> NoRequest, op |-> 1,
               cur |-> HdcOps[1], fail_count |-> 0, result |-> ESP_OK]

Init ==
  /\ i2c_queue = <<>>
  /\ bits = {}
  /\ worker = IdleWorker
  /\ client = [c \in SyncTasks |-> [pc |-> "idle", call |-> 0, res |-> ESP_OK]]
  /\ hdc = [is_init |-> FALSE, first |-> 1, count |-> 1]
  /\ humidity = FALSE
  /\ notified = <<>>
  /\ attempts = 0
  /\ heard = [c \in SyncTasks |-> 0]
  /\ alone = TRUE

(***************************************************************************)
(* i2c_send_async: a full queue refuses the request at once.               *)
(***************************************************************************)
Accepts == Len(i2c_queue) < QueueLen

(***************************************************************************)
(* i2c_send_sync                                                           *)
(***************************************************************************)
\* A number that no request of the task still carries.
FreshCall(c) ==
  CHOOSE n \in CallNumbers :
    /\ \A i \in 1 .. Len(i2c_queue) :
         i2c_queue[i].client = c => i2c_queue[i].call # n
    /\ worker.req.client = c => worker.req.call # n

OthersIdle(c) == \A d \in SyncTasks \ {c} : client[d].pc = "idle"

\* Mutant of SyncClearBits: the bits of an earlier call stay.
SyncKeepsBits(c) ==
  /\ client[c].pc = "idle"
  /\ client' = [client EXCEPT ![c] =
       [pc |-> "send", call |-> FreshCall(c), res |-> ESP_OK]]
  /\ heard' = [heard EXCEPT ![c] = 0]
  /\ alone' = (alone /\ OthersIdle(c))
  /\ UNCHANGED <<i2c_queue, bits, worker, hdc, humidity, notified, attempts>>

SyncClearBits(c) ==
  /\ client[c].pc = "idle"
  /\ bits' = bits \ {"CPLT", "ERR"}
  /\ client' = [client EXCEPT ![c] =
       [pc |-> "send", call |-> FreshCall(c), res |-> ESP_OK]]
  /\ heard' = [heard EXCEPT ![c] = 0]
  /\ alone' = (alone /\ OthersIdle(c))
  /\ UNCHANGED <<i2c_queue, worker, hdc, humidity, notified, attempts>>

SyncSend(c) ==
  /\ client[c].pc = "send"
  /\ IF Accepts
     THEN /\ i2c_queue' = Append(i2c_queue, Request(c, client[c].call, 1,
                                                    Len(SyncOps)))
          /\ client' = [client EXCEPT ![c].pc = "wait"]
     ELSE /\ client' = [client EXCEPT ![c].pc = "return", ![c].res = ESP_FAIL]
          /\ UNCHANGED i2c_queue
  /\ UNCHANGED <<bits, worker, hdc, humidity, notified, attempts, heard,
                 alone>>

\* Mutant of SyncWake: the error bit ends the wait too.
SyncWakeOnError(c) ==
  /\ client[c].pc = "wait"
  /\ bits # {}
  /\ client' = [client EXCEPT ![c].pc = "return", ![c].res = ESP_OK]
  /\ UNCHANGED <<i2c_queue, bits, worker, hdc, humidity, notified, attempts,
                 heard, alone>>

\* device_wait_bits comes back with the bit.
SyncWake(c) ==
  /\ client[c].pc = "wait"
  /\ "CPLT" \in bits
  /\ client' = [client EXCEPT ![c].pc = "return", ![c].res = ESP_OK]
  /\ UNCHANGED <<i2c_queue, bits, worker, hdc, humidity, notified, attempts,
                 heard, alone>>

\* device_wait_bits comes back without it.
SyncTimeout(c) ==
  /\ MayTimeout
  /\ client[c].pc = "wait"
  /\ "CPLT" \notin bits
  /\ client' = [client EXCEPT ![c].pc = "return", ![c].res = ESP_ERR_TIMEOUT]
  /\ alone' = FALSE
  /\ UNCHANGED <<i2c_queue, bits, worker, hdc, humidity, notified, attempts,
                 heard>>

\* The caller has its answer and its operations go out of scope.
SyncReturn(c) ==
  /\ client[c].pc = "return"
  /\ client' = [client EXCEPT ![c].pc = "idle"]
  /\ UNCHANGED <<i2c_queue, bits, worker, hdc, humidity, notified, attempts,
                 heard, alone>>

(***************************************************************************)
(* hdc1080_polling_handler: the branch under is_init is never taken, as it *)
(* alone sets is_init.                                                     *)
(***************************************************************************)
Advanced(h) ==
  IF h.is_init THEN [is_init |-> TRUE, first |-> h.first + 1, count |-> 2] ELSE h

HdcPoll ==
  /\ HdcPolls
  /\ LET h == Advanced(hdc) IN
       /\ hdc' = h
       /\ i2c_queue' = IF Accepts
                       THEN Append(i2c_queue, Request(Hdc, 0, h.first, h.count))
                       ELSE i2c_queue
  /\ alone' = FALSE
  /\ UNCHANGED <<bits, worker, client, humidity, notified, attempts, heard>>

(***************************************************************************)
(* i2c_task                                                                *)
(***************************************************************************)
Alive(req) ==
  req.client \in SyncTasks =>
    client[req.client].pc = "wait" /\ client[req.client].call = req.call

\* What the task finds where the operation was: once the caller has returned,
\* whatever its stack holds by then.
Found == IF Alive(worker.req) THEN {OpsOf(worker.req.client)[worker.op]} ELSE Ops

TwoStepReading(op) == op.delay /\ op.read

Receive ==
  /\ worker.pc = "receive"
  /\ i2c_queue # <<>>
  /\ worker' = [IdleWorker EXCEPT !.pc = "op", !.req = Head(i2c_queue),
                                  !.op = Head(i2c_queue).first]
  /\ i2c_queue' = Tail(i2c_queue)
  /\ notified' = <<>>
  /\ attempts' = 0
  /\ UNCHANGED <<bits, client, hdc, humidity, heard, alone>>

\* notification_callback: the callbacks of the program store the value read
\* (hum_cplt_callback, copy_callback) when the result is ESP_OK.
Notify(res) ==
  LET c == worker.req.client IN
  /\ notified' = Append(notified, [op |-> worker.op, res |-> res,
                                   attempts |-> attempts])
  /\ heard' = IF c \in SyncTasks /\ client[c].call = worker.req.call
              THEN [heard EXCEPT ![c] = @ + 1] ELSE heard
  /\ humidity' = (humidity \/ (c = Hdc /\ worker.op = HumidityOp /\ res = ESP_OK))

OpsLeft == worker.op < worker.req.first + worker.req.count

\* An operation with wrong arguments is reported and left out.
OpInvalid ==
  /\ worker.pc = "op" /\ OpsLeft
  /\ \E op \in Found : ~op.valid
  /\ Notify(ESP_ERR_INVALID_ARG)
  /\ bits' = bits \union {"ERR"}
  /\ worker' = [worker EXCEPT !.op = @ + 1]
  /\ UNCHANGED <<i2c_queue, client, hdc, attempts, alone>>

OpWrite ==
  /\ worker.pc = "op" /\ OpsLeft
  /\ \E op \in Found :
       /\ op.valid
       /\ \E res \in IF TwoStepReading(op) \/ op.write
                     THEN Outcomes ELSE {worker.result} :
            worker' = [worker EXCEPT !.pc = "read", !.result = res, !.cur = op]
  /\ attempts' = IF attempts < MAX_RETRY + 2 THEN attempts + 1 ELSE attempts
  /\ UNCHANGED <<i2c_queue, bits, client, hdc, humidity, notified, heard,
                 alone>>

\* The result of the reading replaces the one of the writing.
OpRead ==
  /\ worker.pc = "read"
  /\ \E res \in IF worker.cur.read THEN Outcomes ELSE {worker.result} :
       worker' = [worker EXCEPT !.pc = "decide", !.result = res, !.cur = HdcOps[1]]
  /\ UNCHANGED <<i2c_queue, bits, client, hdc, humidity, notified, attempts,
                 heard, alone>>

OpSucceeded ==
  /\ worker.pc = "decide" /\ worker.result = ESP_OK
  /\ Notify(ESP_OK)
  /\ worker' = [worker EXCEPT !.pc = "op", !.op = @ + 1, !.fail_count = 0]
  /\ attempts' = 0
  /\ UNCHANGED <<i2c_queue, bits, client, hdc, alone>>

\* Mutant of OpRetry: the failures are not counted.
OpRetryForever ==
  /\ worker.pc = "decide" /\ worker.result # ESP_OK
  /\ worker.fail_count < MAX_RETRY
  /\ worker' = [worker EXCEPT !.pc = "op"]
  /\ UNCHANGED <<i2c_queue, bits, client, hdc, humidity, notified, attempts,
                 heard, alone>>

OpRetry ==
  /\ worker.pc = "decide" /\ worker.result # ESP_OK
  /\ worker.fail_count < MAX_RETRY
  /\ worker' = [worker EXCEPT !.pc = "op", !.fail_count = @ + 1]
  /\ UNCHANGED <<i2c_queue, bits, client, hdc, humidity, notified, attempts,
                 heard, alone>>

\* Mutant of OpFailed: the request goes on with the next operation.
OpFailedContinues ==
  /\ worker.pc = "decide" /\ worker.result # ESP_OK
  /\ worker.fail_count >= MAX_RETRY
  /\ Notify(worker.result)
  /\ worker' = [worker EXCEPT !.pc = "op", !.op = @ + 1, !.fail_count = 0]
  /\ attempts' = 0
  /\ UNCHANGED <<i2c_queue, bits, client, hdc, alone>>

\* The failure is reported and the rest of the request is given up.
OpFailed ==
  /\ worker.pc = "decide" /\ worker.result # ESP_OK
  /\ worker.fail_count >= MAX_RETRY
  /\ Notify(worker.result)
  /\ worker' = [worker EXCEPT !.pc = "finish"]
  /\ UNCHANGED <<i2c_queue, bits, client, hdc, attempts, alone>>

OpsDone ==
  /\ worker.pc = "op" /\ ~OpsLeft
  /\ worker' = [worker EXCEPT !.pc = "finish"]
  /\ UNCHANGED <<i2c_queue, bits, client, hdc, humidity, notified, attempts,
                 heard, alone>>

\* The test of the queue and the setting of the bit are two steps.
Finish ==
  /\ worker.pc = "finish"
  /\ worker' = [worker EXCEPT !.pc = IF i2c_queue = <<>> THEN "signal"
                                     ELSE "receive"]
  /\ UNCHANGED <<i2c_queue, bits, client, hdc, humidity, notified, attempts,
                 heard, alone>>

Signal ==
  /\ worker.pc = "signal"
  /\ bits' = bits \union {"CPLT"}
  /\ worker' = [worker EXCEPT !.pc = "receive"]
  /\ UNCHANGED <<i2c_queue, client, hdc, humidity, notified, attempts, heard,
                 alone>>

WorkerStep ==
  Receive \/ OpInvalid \/ OpWrite \/ OpRead \/ OpSucceeded \/ OpRetry \/ OpFailed
    \/ OpsDone \/ Finish \/ Signal

ClientStep(c) == SyncSend(c) \/ SyncWake(c) \/ SyncTimeout(c) \/ SyncReturn(c)

Next ==
  \/ WorkerStep
  \/ HdcPoll
  \/ \E c \in SyncTasks : SyncClearBits(c) \/ ClientStep(c)

Spec == Init /\ [][Next]_vars

\* Tasks get processor time; the limit of a wait passes; the sensor is polled
\* again and again by its periodic event.
FairSpec ==
  /\ Spec
  /\ WF_vars(WorkerStep) /\ WF_vars(HdcPoll)
  /\ \A c \in SyncTasks : WF_vars(ClientStep(c))

(***************************************************************************)
(* Properties.                                                             *)
(***************************************************************************)

\* Every variable keeps its type; the queue keeps its capacity.
TypeOK ==
  /\ i2c_queue \in Seq(Requests) /\ Len(i2c_queue) <= QueueLen
  /\ bits \subseteq {"CPLT", "ERR"}
  /\ worker.pc \in {"receive", "op", "read", "decide", "finish", "signal"}
  /\ worker.req \in Requests /\ worker.cur \in Ops
  /\ worker.op \in 1 .. worker.req.first + worker.req.count
  /\ worker.fail_count \in 0 .. MAX_RETRY
  /\ worker.result \in {ESP_OK, ESP_FAIL}
  /\ client \in [SyncTasks ->
                  [pc : {"idle", "send", "wait", "return"}, call : CallNumbers,
                   res : {ESP_OK, ESP_FAIL, ESP_ERR_TIMEOUT}]]
  /\ hdc \in [is_init : BOOLEAN, first : {1, 2}, count : {1, 2}]
  /\ humidity \in BOOLEAN
  /\ heard \in [SyncTasks -> 0 .. Len(SyncOps)]
  /\ alone \in BOOLEAN

\* The callbacks of a request come in the order of its operations, one for
\* each operation that was reached, and nothing follows a failure: what was
\* reported is always a prefix of the operations and only its last element
\* may have failed, after exactly MAX_RETRY + 1 attempts.  When the task is
\* done with a request it has reported every operation up to the failure.
CallbacksInOrder ==
  /\ \A i \in 1 .. Len(notified) : notified[i].op = worker.req.first + i - 1
  /\ \A i \in 1 .. Len(notified) :
       notified[i].res = ESP_FAIL =>
         /\ i = Len(notified)
         /\ notified[i].attempts = MAX_RETRY + 1
  /\ worker.pc \in {"finish", "signal"} =>
       \/ Len(notified) = worker.req.count
       \/ notified # <<>> /\ notified[Len(notified)].res = ESP_FAIL

\* The I2C task works only on operations whose caller still waits: those of
\* i2c_send_sync live on the stack of the caller.  This needs a caller that
\* has been alone on the bus and has always waited long enough.
OpsAlive ==
  alone /\ worker.pc \in {"op", "read", "decide"} => Alive(worker.req)

\* As long as the caller is alone and waits long enough it gets its answer only
\* after the task is done with its request: never by the completion of an
\* earlier one.
AnswerAfterWork ==
  alone => \A c \in SyncTasks :
    client[c].pc = "return" /\ client[c].res = ESP_OK =>
      /\ heard[c] > 0
      /\ worker.pc = "receive" /\ worker.req.client = c
      /\ worker.req.call = client[c].call

\* Requests do not stay in the queue for ever, whatever the bus does.
RequestsTaken == <>[](i2c_queue # <<>>) => []<><<Receive>>_vars

\* What the test "I2C read operation" asserts: i2c_send_sync returned ESP_OK,
\* and so the callbacks of all the operations have been made.
SyncOkMeansDone ==
  \A c \in SyncTasks :
    client[c].pc = "return" /\ client[c].res = ESP_OK => heard[c] = Len(SyncOps)

\* What the test "Start meassuring" and the header ask of hdc1080_init: the
\* humidity is measured.
HumidityMeasured == <>humidity
=============================================================================
