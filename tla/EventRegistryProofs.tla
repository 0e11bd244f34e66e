------------------------- MODULE EventRegistryProofs -------------------------
(***************************************************************************)
(* The handler registry and the event task, proved for any number of       *)
(* tasks, events, handlers and slots: the types and NoNullCall under every *)
(* interleaving of the calls; RegistrationHolds, UnregisterPreventsCall    *)
(* and ServedOnce for tasks that never overlap two calls that write the    *)
(* registry, which has no lock, while the event task dispatches beside     *)
(* them.                                                                   *)
(*                                                                         *)
(* The invariant says, for a call in progress, what its caller has found   *)
(* out so far and which fields of its slot are already stored; for the     *)
(* walk of the event task, which slots are behind it.                      *)
(***************************************************************************)
EXTENDS EventRegistry, TLAPS

Entry == [event_id : Ids \union {EVN_NO_ENTRY},
          handler : Handlers \union {NO_HANDLER}]

CallRecords ==
  [op : {"none", "register", "unregister", "set_event"},
   pc : {"none", "duplicate", "free", "store_id", "store_handler",
         "find", "clear_id", "clear_handler"},
   id : Ids \union {EVN_NO_ENTRY},
   handler : Handlers \union {NO_HANDLER}, i : 1 .. MaxHandlers + 1]

Dispatches ==
  [pc : {"receive", "scan", "check", "call", "handler", "crashed"},
   id : EventIds \union {EVN_NO_ENTRY}, i : 1 .. MaxHandlers + 1,
   handler : Handlers \union {NO_HANDLER}]

InHand == dispatch.pc \in {"scan", "check", "call", "handler"}

\* The arguments of a call are what its interface takes, and whoever is about
\* to store to a slot has found one.
CallShape ==
  \A t \in Tasks :
    /\ call[t].op = "register" =>
         /\ call[t].pc \in {"duplicate", "free", "store_id", "store_handler"}
         /\ call[t].id \in Ids /\ call[t].handler \in Handlers
         /\ call[t].pc \in {"store_id", "store_handler"} => call[t].i \in Slots
    /\ call[t].op = "unregister" =>
         /\ call[t].pc \in {"find", "clear_id", "clear_handler"}
         /\ call[t].id \in Ids
         /\ call[t].pc \in {"clear_id", "clear_handler"} => call[t].i \in Slots
    /\ call[t].op = "set_event" => call[t].id \in EventIds

DispatchShape ==
  /\ InHand => dispatch.id \in EventIds
  /\ dispatch.pc \in {"check", "call", "handler"} => dispatch.i \in Slots
  /\ dispatch.pc \in {"call", "handler"} => dispatch.handler \in Handlers

Types ==
  /\ registry \in [Slots -> Entry]
  /\ evn_queue \in Seq(EventIds) /\ Len(evn_queue) <= EvnQueueLen
  /\ call \in [Tasks -> CallRecords]
  /\ dispatch \in Dispatches
  /\ standing \subseteq Pairs
  /\ due \subseteq Handlers /\ barred \subseteq Handlers
  /\ served \in [Handlers -> 0 .. 2]
  /\ foreign \in BOOLEAN

TypeInv == Types /\ CallShape /\ DispatchShape

\* Handlers make their calls from inside; while none of the other tasks
\* unregisters, a slot that was found to have a handler keeps one.
NullInv ==
  /\ \A t \in Tasks : t = EvnTask /\ call[t].op # "none" => dispatch.pc = "handler"
  /\ dispatch.pc = "crashed" => \A t \in Tasks : call[t].op = "none"
  /\ ~foreign /\ dispatch.pc # "receive" =>
       \A t \in Tasks : call[t].op = "unregister" => t = EvnTask
  /\ ~foreign /\ dispatch.pc = "call" =>
       registry[dispatch.i].handler # NO_HANDLER
  /\ NoNullCall

Removes(c, p) == c.id \in {EVN_ANY, p[1]} /\ c.handler \in {NO_HANDLER, p[2]}

OneWriter == \A t, u \in Tasks : Writing(t) /\ Writing(u) => t = u

\* What the writer of the registry has found out and stored so far.
WriterKnows ==
  \A t \in Tasks :
    LET c == call[t] IN
    /\ c.op = "register" =>
         /\ \A s \in Slots :
              c.pc # "duplicate" \/ s < c.i => ~Match(s, c.id, c.handler)
         /\ c.pc = "store_id" => registry[c.i].event_id = EVN_NO_ENTRY
         /\ c.pc = "store_handler" => registry[c.i].event_id = c.id
         /\ c.pc \in {"store_id", "store_handler"} =>
              registry[c.i].handler = NO_HANDLER
    /\ c.op = "unregister" =>
         /\ \A p \in standing : ~Removes(c, p)
         /\ c.pc = "clear_id" => Match(c.i, c.id, c.handler)
         /\ c.pc = "clear_handler" => registry[c.i].event_id = EVN_NO_ENTRY

\* A slot without an identifier is empty, but for the one that is being cleared.
FreeIsEmpty ==
  dispatch.pc # "crashed" =>
    \A s \in Slots :
      registry[s].event_id = EVN_NO_ENTRY =>
        \/ registry[s].handler = NO_HANDLER
        \/ \E t \in Tasks : /\ call[t].op = "unregister"
                            /\ call[t].pc = "clear_handler" /\ call[t].i = s

\* Every pair in the registry stands, or is ahead of a call that removes it.
SlotsStand ==
  dispatch.pc # "crashed" =>
    \A s \in Slots :
      registry[s].event_id # EVN_NO_ENTRY /\ registry[s].handler # NO_HANDLER =>
        \/ <<registry[s].event_id, registry[s].handler>> \in standing
        \/ \E t \in Tasks :
             /\ call[t].op = "unregister" /\ call[t].i <= s
             /\ Removes(call[t], <<registry[s].event_id, registry[s].handler>>)

\* RegistrationHolds for what is stored on its own account.
StandingHolds ==
  /\ \A p \in standing :
       \E s \in Slots : registry[s] = [event_id |-> p[1], handler |-> p[2]]
  /\ \A s, t \in Slots :
       registry[s] = registry[t] /\ registry[s].handler # NO_HANDLER
       /\ registry[s].event_id # EVN_NO_ENTRY => s = t

RegistryInv ==
  OneWriter /\ WriterKnows /\ FreeIsEmpty /\ SlotsStand /\ StandingHolds

\* What another registration leans on stands.
LeaningInv == leaning \subseteq standing

LeaningType == leaning \subseteq (Ids \union {EVN_NO_ENTRY}) \X Handlers

\* No slot the event task may still call holds a barred handler.
BarredInv ==
  /\ \A t \in Tasks : call[t].op = "register" => call[t].handler \notin barred
  /\ InHand => \A s \in Slots :
       registry[s].event_id = dispatch.id => registry[s].handler \notin barred
  /\ dispatch.pc \in {"check", "call"} =>
       registry[dispatch.i].handler \notin barred
  /\ dispatch.pc = "call" => dispatch.handler \notin barred
  /\ UnregisterPreventsCall

\* A handler that is due has not been reached while its slot is still ahead.
DueInv ==
  /\ InHand => \A h \in due : <<dispatch.id, h>> \in standing
  /\ ~foreign =>
       /\ dispatch.pc \in {"check", "call"} =>
            registry[dispatch.i].event_id = dispatch.id
       /\ dispatch.pc = "call" =>
            registry[dispatch.i].handler = dispatch.handler
       /\ InHand => \A h \in due, s \in Slots :
            (/\ registry[s].event_id = dispatch.id /\ registry[s].handler = h
             /\ s > dispatch.i \/ (s = dispatch.i /\ dispatch.pc # "handler"))
            => served[h] = 0
  /\ ServedOnce

\* The slot of a handler that is due is still ahead, or it has been reached:
\* the slot cannot be given away while its pair stands.
ReachInv ==
  InHand => \A h \in due, s \in Slots :
    registry[s].event_id = dispatch.id /\ registry[s].handler = h =>
      /\ s < dispatch.i \/ (s = dispatch.i /\ dispatch.pc = "handler")
           => served[h] >= 1
      /\ s = dispatch.i /\ dispatch.pc = "call" => dispatch.handler = h

-----------------------------------------------------------------------------
(***************************************************************************)
(* What the operators of the model do to the variables.                    *)
(***************************************************************************)
CallPcs == {"none", "duplicate", "free", "store_id", "store_handler",
            "find", "clear_id", "clear_handler"}

\* A call goes on: its arguments and the calls of the others stay.
LEMMA GotoEffect ==
  ASSUME Types, NEW t \in Tasks, NEW p \in CallPcs,
         NEW n \in 1 .. MaxHandlers + 1, Goto(t, p, n)
  PROVE  /\ call' \in [Tasks -> CallRecords]
         /\ call'[t].pc = p /\ call'[t].i = n
         /\ call'[t].op = call[t].op /\ call'[t].id = call[t].id
         /\ call'[t].handler = call[t].handler
         /\ \A u \in Tasks \ {t} : call'[u] = call[u]
<1>1. PICK r : /\ r = [call[t] EXCEPT !.pc = p, !.i = n]
               /\ call' = [call EXCEPT ![t] = r]
  BY DEF Goto, Types
<1>2. call[t] \in CallRecords
  BY DEF Types
<1>3. /\ r \in CallRecords /\ r.pc = p /\ r.i = n /\ r.op = call[t].op
      /\ r.id = call[t].id /\ r.handler = call[t].handler
  BY <1>1, <1>2 DEF CallRecords, CallPcs
<1> QED
  BY <1>1, <1>3 DEF Types

LEMMA NoCallType ==
  NoCall \in CallRecords /\ NoCall.op = "none"
BY RegistryLengths DEF NoCall, CallRecords

\* A call that begins or ends.
LEMMA CallEffect ==
  ASSUME Types, NEW t \in Tasks, NEW r \in CallRecords,
         call' = [call EXCEPT ![t] = r]
  PROVE  /\ call' \in [Tasks -> CallRecords] /\ call'[t] = r
         /\ \A u \in Tasks \ {t} : call'[u] = call[u]
BY DEF Types

\* One of the two stores to a slot.
LEMMA StoreIdEffect ==
  ASSUME Types, NEW s \in Slots, NEW id \in Ids \union {EVN_NO_ENTRY},
         registry' = [registry EXCEPT ![s].event_id = id]
  PROVE  /\ registry' \in [Slots -> Entry]
         /\ registry'[s].event_id = id
         /\ registry'[s].handler = registry[s].handler
         /\ \A u \in Slots \ {s} : registry'[u] = registry[u]
<1>1. registry[s] \in Entry
  BY DEF Types
<1> QED
  BY <1>1 DEF Types, Entry

LEMMA StoreHandlerEffect ==
  ASSUME Types, NEW s \in Slots, NEW h \in Handlers \union {NO_HANDLER},
         registry' = [registry EXCEPT ![s].handler = h]
  PROVE  /\ registry' \in [Slots -> Entry]
         /\ registry'[s].handler = h
         /\ registry'[s].event_id = registry[s].event_id
         /\ \A u \in Slots \ {s} : registry'[u] = registry[u]
<1>1. registry[s] \in Entry
  BY DEF Types
<1> QED
  BY <1>1 DEF Types, Entry

LEMMA EmptyQueue == \A S : <<>> \in Seq(S) /\ Len(<<>>) = 0
OBVIOUS

LEMMA EmptyRegistryType == EmptyRegistry \in [Slots -> Entry]
BY DEF EmptyRegistry, Entry

LEMMA WaitingType == Waiting \in Dispatches /\ Waiting.pc = "receive"
BY RegistryLengths DEF Waiting, Dispatches

LEMMA SlotsBound == \A n \in 1 .. MaxHandlers + 1 :
  /\ n > MaxHandlers \/ (n \in Slots /\ n + 1 \in 1 .. MaxHandlers + 1)
  /\ n > MaxHandlers => \A s \in Slots : s < n
BY RegistryLengths DEF Slots

-----------------------------------------------------------------------------
(***************************************************************************)
(* Types.                                                                  *)
(***************************************************************************)
LEMMA InitType == Init => TypeInv
<1> SUFFICES ASSUME Init PROVE TypeInv
  OBVIOUS
<1>1. call \in [Tasks -> CallRecords] /\ \A t \in Tasks : call[t].op = "none"
  BY NoCallType DEF Init
<1>2. dispatch \in Dispatches /\ dispatch.pc = "receive"
  BY WaitingType DEF Init
<1>3. served \in [Handlers -> 0 .. 2]
  BY DEF Init
<1>4. evn_queue \in Seq(EventIds) /\ Len(evn_queue) <= EvnQueueLen
  BY EmptyQueue, RegistryLengths DEF Init
<1>5. /\ registry \in [Slots -> Entry] /\ standing \subseteq Pairs
      /\ due \subseteq Handlers /\ barred \subseteq Handlers
      /\ foreign \in BOOLEAN
  BY EmptyRegistryType DEF Init
<1>6. CallShape /\ DispatchShape
  BY <1>1, <1>2 DEF CallShape, DispatchShape, InHand
<1> QED
  BY <1>1, <1>2, <1>3, <1>4, <1>5, <1>6 DEF TypeInv, Types

\* The steps of a call that go on with it.
LEMMA GotoType ==
  ASSUME TypeInv, NEW t \in Tasks, NEW p \in CallPcs,
         NEW n \in 1 .. MaxHandlers + 1, Goto(t, p, n),
         call[t].op = "register" =>
           /\ p \in {"duplicate", "free", "store_id", "store_handler"}
           /\ p \in {"store_id", "store_handler"} => n \in Slots,
         call[t].op = "unregister" =>
           /\ p \in {"find", "clear_id", "clear_handler"}
           /\ p \in {"clear_id", "clear_handler"} => n \in Slots,
         call[t].op # "set_event"
  PROVE  call' \in [Tasks -> CallRecords] /\ CallShape'
<1>1. Types /\ CallShape
  BY DEF TypeInv
<1>2. /\ call' \in [Tasks -> CallRecords]
      /\ call'[t].pc = p /\ call'[t].i = n
      /\ call'[t].op = call[t].op /\ call'[t].id = call[t].id
      /\ call'[t].handler = call[t].handler
      /\ \A u \in Tasks \ {t} : call'[u] = call[u]
  BY <1>1, GotoEffect
<1> QED
  BY <1>1, <1>2 DEF CallShape

LEMMA ReturnType ==
  ASSUME TypeInv, NEW t \in Tasks, Return(t)
  PROVE  call' \in [Tasks -> CallRecords] /\ CallShape'
<1>1. /\ call' \in [Tasks -> CallRecords] /\ call'[t].op = "none"
      /\ \A u \in Tasks \ {t} : call'[u] = call[u]
  BY CallEffect, NoCallType DEF TypeInv, Return
<1> QED
  BY <1>1 DEF TypeInv, CallShape

LEMMA BeginType ==
  ASSUME TypeInv, NEW t \in Tasks, BeginCall(t)
  PROVE  TypeInv'
<1>1. ASSUME NEW id \in Ids, NEW h \in Handlers, BeginRegister(t, id, h)
      PROVE  TypeInv'
  <2> DEFINE r == [op |-> "register", pc |-> "duplicate", id |-> id,
                   handler |-> h, i |-> 1]
  <2>1. r \in CallRecords
    BY RegistryLengths DEF CallRecords
  <2>2. /\ call' \in [Tasks -> CallRecords] /\ call'[t] = r
        /\ \A u \in Tasks \ {t} : call'[u] = call[u]
    BY <1>1, <2>1, CallEffect DEF BeginRegister, TypeInv
  <2>3. CallShape'
    BY <2>2 DEF TypeInv, CallShape
  <2>4. /\ barred' \subseteq Handlers
        /\ UNCHANGED <<registry, evn_queue, dispatch, standing, due, served,
                       foreign>>
    BY <1>1 DEF BeginRegister, TypeInv, Types
  <2> QED
    BY <2>2, <2>3, <2>4 DEF TypeInv, Types, DispatchShape, InHand
<1>2. ASSUME NEW id \in Ids, NEW h \in Handlers \union {NO_HANDLER},
             BeginUnregister(t, id, h)
      PROVE  TypeInv'
  <2> DEFINE r == [op |-> "unregister", pc |-> "find", id |-> id,
                   handler |-> h, i |-> 1]
  <2>1. r \in CallRecords
    BY RegistryLengths DEF CallRecords
  <2>2. /\ call' \in [Tasks -> CallRecords] /\ call'[t] = r
        /\ \A u \in Tasks \ {t} : call'[u] = call[u]
    BY <1>2, <2>1, CallEffect DEF BeginUnregister, TypeInv
  <2>3. CallShape'
    BY <2>2 DEF TypeInv, CallShape
  <2>4. /\ standing' \subseteq Pairs /\ due' \subseteq Handlers
        /\ UNCHANGED <<registry, evn_queue, dispatch, barred, served>>
    BY <1>2 DEF BeginUnregister, TypeInv, Types
  <2>5. foreign' \in BOOLEAN
    BY <1>2 DEF BeginUnregister
  <2> QED
    BY <2>2, <2>3, <2>4, <2>5 DEF TypeInv, Types, DispatchShape, InHand
<1>3. ASSUME NEW id \in EventIds, BeginSetEvent(t, id)
      PROVE  TypeInv'
  <2>1. PICK r : /\ r = [NoCall EXCEPT !.op = "set_event", !.id = id]
                 /\ call' = [call EXCEPT ![t] = r]
    BY <1>3 DEF BeginSetEvent
  <2>2. r \in CallRecords /\ r.op = "set_event" /\ r.id = id
    <3>1. id \in Ids
      BY DEF Ids
    <3> QED
      BY <2>1, <3>1, NoCallType DEF CallRecords
  <2>3. /\ call' \in [Tasks -> CallRecords] /\ call'[t] = r
        /\ \A u \in Tasks \ {t} : call'[u] = call[u]
    BY <2>1, <2>2, CallEffect DEF TypeInv
  <2>4. CallShape'
    BY <2>2, <2>3 DEF TypeInv, CallShape
  <2>5. UNCHANGED <<registry, evn_queue, dispatch, standing, due, barred,
                    served, foreign>>
    BY <1>3 DEF BeginSetEvent
  <2> QED
    BY <2>3, <2>4, <2>5 DEF TypeInv, Types, DispatchShape, InHand
<1>4. EVN_ANY \in Ids
  BY DEF Ids
<1> QED
  BY <1>1, <1>2, <1>3, <1>4 DEF BeginCall

LEMMA TaskType ==
  ASSUME TypeInv, NEW t \in Tasks, TaskStep(t)
  PROVE  TypeInv'
<1> DEFINE c == call[t]
<1>1. /\ c \in CallRecords /\ c.i \in 1 .. MaxHandlers + 1
      /\ c.id \in Ids \union {EVN_NO_ENTRY}
      /\ c.handler \in Handlers \union {NO_HANDLER}
  BY DEF TypeInv, Types, CallRecords
<1>2. ASSUME UNCHANGED <<registry, evn_queue, dispatch, due, barred, served,
                         foreign>>,
             standing' \subseteq Pairs,
             call' \in [Tasks -> CallRecords] /\ CallShape'
      PROVE  TypeInv'
  BY <1>2 DEF TypeInv, Types, DispatchShape, InHand
<1>3. 1 \in 1 .. MaxHandlers + 1 /\ standing \subseteq Pairs
  BY RegistryLengths DEF TypeInv, Types
<1>4. Registered(t) /\ c.op = "register" => standing' \subseteq Pairs
  <2>1. c.op = "register" => <<c.id, c.handler>> \in Pairs
    BY DEF TypeInv, CallShape, Pairs
  <2> QED
    BY <1>3, <2>1 DEF Registered
<1>5. CASE RegisterDuplicate(t)
  <2>1. /\ c.op = "register"
        /\ \/ Return(t)
           \/ Goto(t, "free", 1)
           \/ c.i <= MaxHandlers /\ Goto(t, "duplicate", c.i + 1)
        /\ UNCHANGED standing \/ Registered(t)
        /\ UNCHANGED <<registry, evn_queue, dispatch, due, barred, served, foreign>>
    BY <1>1, <1>5, RegistryLengths DEF RegisterDuplicate
  <2>2. c.i <= MaxHandlers => c.i + 1 \in 1 .. MaxHandlers + 1
    BY <1>1, RegistryLengths
  <2>3. call' \in [Tasks -> CallRecords] /\ CallShape'
    BY <1>3, <2>1, <2>2, GotoType, ReturnType DEF CallPcs
  <2> QED BY <1>2, <1>3, <1>4, <2>1, <2>3
<1>6. CASE RegisterFree(t)
  <2>1. /\ c.op = "register"
        /\ \/ Return(t)
           \/ c.i <= MaxHandlers /\ Goto(t, "store_id", c.i)
           \/ c.i <= MaxHandlers /\ Goto(t, "free", c.i + 1)
        /\ UNCHANGED <<registry, evn_queue, dispatch, standing, due, barred,
                       served, foreign>>
    BY <1>1, <1>6, RegistryLengths DEF RegisterFree
  <2>2. c.i <= MaxHandlers => c.i + 1 \in 1 .. MaxHandlers + 1 /\ c.i \in Slots
    BY <1>1, RegistryLengths DEF Slots
  <2>3. call' \in [Tasks -> CallRecords] /\ CallShape'
    BY <1>1, <2>1, <2>2, GotoType, ReturnType DEF CallPcs
  <2> QED BY <1>2, <1>3, <2>1, <2>3
<1>7. CASE UnregisterFind(t)
  <2>1. /\ c.op = "unregister"
        /\ \/ Return(t)
           \/ c.i <= MaxHandlers /\ Goto(t, "clear_id", c.i)
           \/ c.i <= MaxHandlers /\ Goto(t, "find", c.i + 1)
        /\ UNCHANGED <<registry, evn_queue, dispatch, standing, due, barred,
                       served, foreign>>
    BY <1>1, <1>7, RegistryLengths DEF UnregisterFind
  <2>2. c.i <= MaxHandlers => c.i + 1 \in 1 .. MaxHandlers + 1 /\ c.i \in Slots
    BY <1>1, RegistryLengths DEF Slots
  <2>3. call' \in [Tasks -> CallRecords] /\ CallShape'
    BY <1>1, <2>1, <2>2, GotoType, ReturnType DEF CallPcs
  <2> QED BY <1>2, <1>3, <2>1, <2>3
<1>8. CASE RegisterStoreId(t)
  <2>1. /\ c.op = "register" /\ Goto(t, "store_handler", c.i) /\ c.i \in Slots
        /\ registry' = [registry EXCEPT ![c.i].event_id = c.id]
        /\ UNCHANGED <<evn_queue, dispatch, standing, due, barred, served, foreign>>
    BY <1>8 DEF RegisterStoreId, TypeInv, CallShape
  <2>2. registry' \in [Slots -> Entry]
    BY <1>1, <2>1, StoreIdEffect DEF TypeInv
  <2>3. call' \in [Tasks -> CallRecords] /\ CallShape'
    BY <1>1, <2>1, GotoType DEF CallPcs
  <2> QED
    BY <2>1, <2>2, <2>3 DEF TypeInv, Types, DispatchShape, InHand
<1>9. CASE RegisterStoreHandler(t)
  <2>1. /\ c.op = "register" /\ Return(t) /\ c.i \in Slots /\ Registered(t)
        /\ registry' = [registry EXCEPT ![c.i].handler = c.handler]
        /\ UNCHANGED <<evn_queue, dispatch, due, barred, served, foreign>>
    BY <1>9 DEF RegisterStoreHandler, TypeInv, CallShape
  <2>2. registry' \in [Slots -> Entry]
    BY <1>1, <2>1, StoreHandlerEffect DEF TypeInv
  <2>3. call' \in [Tasks -> CallRecords] /\ CallShape'
    BY <2>1, ReturnType
  <2> QED
    BY <1>4, <2>1, <2>2, <2>3 DEF TypeInv, Types, DispatchShape, InHand
<1>10. CASE UnregisterClearId(t)
  <2>1. /\ c.op = "unregister" /\ Goto(t, "clear_handler", c.i) /\ c.i \in Slots
        /\ registry' = [registry EXCEPT ![c.i].event_id = EVN_NO_ENTRY]
        /\ UNCHANGED <<evn_queue, dispatch, standing, due, barred, served, foreign>>
    BY <1>10 DEF UnregisterClearId, TypeInv, CallShape
  <2>2. registry' \in [Slots -> Entry]
    BY <1>1, <2>1, StoreIdEffect DEF TypeInv
  <2>3. call' \in [Tasks -> CallRecords] /\ CallShape'
    BY <1>1, <2>1, GotoType DEF CallPcs
  <2> QED
    BY <2>1, <2>2, <2>3 DEF TypeInv, Types, DispatchShape, InHand
<1>11. CASE UnregisterClearHandler(t)
  <2>1. /\ c.op = "unregister" /\ Goto(t, "find", c.i + 1) /\ c.i \in Slots
        /\ registry' = [registry EXCEPT ![c.i].handler = NO_HANDLER]
        /\ UNCHANGED <<evn_queue, dispatch, standing, due, barred, served, foreign>>
    BY <1>11 DEF UnregisterClearHandler, TypeInv, CallShape
  <2>2. registry' \in [Slots -> Entry]
    BY <1>1, <2>1, StoreHandlerEffect DEF TypeInv
  <2>4. c.i + 1 \in 1 .. MaxHandlers + 1
    BY <2>1, RegistryLengths DEF Slots
  <2>3. call' \in [Tasks -> CallRecords] /\ CallShape'
    BY <1>1, <2>1, <2>4, GotoType DEF CallPcs
  <2> QED
    BY <2>1, <2>2, <2>3 DEF TypeInv, Types, DispatchShape, InHand
<1>12. CASE SetEventSend(t) \/ SetEventTimeout(t)
  <2>1. /\ c.op = "set_event" /\ Return(t)
        /\ \/ UNCHANGED evn_queue
           \/ /\ Len(evn_queue) < EvnQueueLen
              /\ evn_queue' = Append(evn_queue, c.id)
        /\ UNCHANGED <<registry, dispatch, standing, due, barred, served, foreign>>
    BY <1>12 DEF SetEventSend, SetEventTimeout
  <2>2. c.id \in EventIds
    BY <2>1 DEF TypeInv, CallShape
  <2>3. evn_queue' \in Seq(EventIds) /\ Len(evn_queue') <= EvnQueueLen
    BY <2>1, <2>2, RegistryLengths DEF TypeInv, Types
  <2>4. call' \in [Tasks -> CallRecords] /\ CallShape'
    BY <2>1, ReturnType
  <2> QED
    BY <2>1, <2>3, <2>4 DEF TypeInv, Types, DispatchShape, InHand
<1> QED
  BY <1>5, <1>6, <1>7, <1>8, <1>9, <1>10, <1>11, <1>12 DEF TaskStep

LEMMA DispatchType ==
  ASSUME TypeInv, DispatchStep
  PROVE  TypeInv'
<1>1. /\ dispatch \in Dispatches /\ dispatch.i \in 1 .. MaxHandlers + 1
      /\ dispatch.id \in EventIds \union {EVN_NO_ENTRY}
  BY DEF TypeInv, Types, Dispatches
<1>2. ASSUME UNCHANGED <<registry, evn_queue, call, standing, due, barred,
                         foreign>>,
             served' \in [Handlers -> 0 .. 2],
             dispatch' \in Dispatches /\ DispatchShape'
      PROVE  TypeInv'
  BY <1>2 DEF TypeInv, Types, CallShape
<1>3. dispatch.i <= MaxHandlers =>
        dispatch.i \in Slots /\ dispatch.i + 1 \in 1 .. MaxHandlers + 1
  BY <1>1, RegistryLengths DEF Slots
<1>4. served \in [Handlers -> 0 .. 2] /\ registry \in [Slots -> Entry]
  BY DEF TypeInv, Types
<1>5. CASE Receive
  <2>1. Head(evn_queue) \in EventIds
        /\ evn_queue' \in Seq(EventIds) /\ Len(evn_queue') <= EvnQueueLen
    BY <1>5, RegistryLengths DEF Receive, TypeInv, Types
  <2>2. PICK r : /\ r = [Waiting EXCEPT !.pc = "scan", !.id = Head(evn_queue)]
                 /\ dispatch' = r
    BY <1>5 DEF Receive
  <2>3. r \in Dispatches /\ r.pc = "scan" /\ r.id = Head(evn_queue)
    BY <2>1, <2>2, WaitingType DEF Dispatches
  <2>4. /\ due' \subseteq Handlers /\ barred' \subseteq Handlers
        /\ served' \in [Handlers -> 0 .. 2]
    BY <1>5 DEF Receive
  <2>5. foreign' \in BOOLEAN
    BY <1>5 DEF Receive
  <2>6. UNCHANGED <<registry, call, standing>>
    BY <1>5 DEF Receive
  <2>7. DispatchShape'
    BY <2>1, <2>2, <2>3 DEF DispatchShape, InHand
  <2> QED
    BY <2>1, <2>2, <2>3, <2>4, <2>5, <2>6, <2>7 DEF TypeInv, Types, CallShape
<1>6. CASE ScanSlot
  <2>1. \/ dispatch' = Waiting
        \/ /\ dispatch.i <= MaxHandlers
           /\ \/ dispatch' = [dispatch EXCEPT !.pc = "check"]
              \/ dispatch' = [dispatch EXCEPT !.i = dispatch.i + 1]
    BY <1>1, <1>6, RegistryLengths DEF ScanSlot
  <2>2. dispatch.pc = "scan" /\ dispatch.id \in EventIds
    BY <1>6 DEF ScanSlot, TypeInv, DispatchShape, InHand
  <2>3. CASE dispatch' = Waiting
    BY <1>2, <1>4, <1>6, <2>3, WaitingType DEF ScanSlot, DispatchShape, InHand
  <2>4. CASE /\ dispatch.i <= MaxHandlers
             /\ dispatch' = [dispatch EXCEPT !.pc = "check"]
    <3>1. /\ dispatch' \in Dispatches /\ dispatch'.pc = "check"
          /\ dispatch'.i \in Slots /\ dispatch'.id \in EventIds
      BY <1>1, <1>3, <2>2, <2>4 DEF Dispatches
    <3> QED
      BY <1>2, <1>4, <1>6, <3>1 DEF ScanSlot, DispatchShape, InHand
  <2>5. CASE /\ dispatch.i <= MaxHandlers
             /\ dispatch' = [dispatch EXCEPT !.i = dispatch.i + 1]
    <3>1. /\ dispatch' \in Dispatches /\ dispatch'.pc = "scan"
          /\ dispatch'.id \in EventIds
      BY <1>1, <1>3, <2>2, <2>5 DEF Dispatches
    <3> QED
      BY <1>2, <1>4, <1>6, <3>1 DEF ScanSlot, DispatchShape, InHand
  <2> QED
    BY <2>1, <2>3, <2>4, <2>5
<1>7. CASE CheckHandler
  <2>1. /\ dispatch.i \in Slots /\ dispatch.pc = "check"
        /\ dispatch.id \in EventIds
    BY <1>7 DEF CheckHandler, TypeInv, DispatchShape, InHand
  <2>2. dispatch.i + 1 \in 1 .. MaxHandlers + 1
    BY <2>1, RegistryLengths DEF Slots
  <2>3. registry[dispatch.i].handler \in Handlers \union {NO_HANDLER}
    BY <1>4, <2>1 DEF Entry
  <2>4. CASE registry[dispatch.i].handler = NO_HANDLER
    <3>1. PICK r : /\ r = [dispatch EXCEPT !.pc = "scan", !.i = dispatch.i + 1]
                   /\ dispatch' = r
      BY <1>7, <2>4 DEF CheckHandler
    <3>2. r \in Dispatches /\ r.pc = "scan" /\ r.id \in EventIds
      BY <1>1, <2>1, <2>2, <3>1 DEF Dispatches
    <3> QED
      BY <1>2, <1>4, <1>7, <3>1, <3>2 DEF CheckHandler, DispatchShape, InHand
  <2>5. CASE registry[dispatch.i].handler # NO_HANDLER
    <3>1. PICK r : /\ r = [dispatch EXCEPT !.pc = "call",
                                     !.handler = registry[dispatch.i].handler]
                   /\ dispatch' = r
      BY <1>7, <2>5 DEF CheckHandler
    <3>2. /\ r \in Dispatches /\ r.pc = "call" /\ r.id \in EventIds
          /\ r.i \in Slots /\ r.handler \in Handlers
      BY <1>1, <2>1, <2>3, <2>5, <3>1 DEF Dispatches
    <3> QED
      BY <1>2, <1>4, <1>7, <3>1, <3>2 DEF CheckHandler, DispatchShape, InHand
  <2> QED BY <2>4, <2>5
<1>8. CASE CallHandler
  <2>1. /\ dispatch.i \in Slots /\ dispatch.pc = "call"
        /\ dispatch.id \in EventIds /\ dispatch.handler \in Handlers
    BY <1>8 DEF CallHandler, TypeInv, DispatchShape, InHand
  <2>2. registry[dispatch.i].handler \in Handlers \union {NO_HANDLER}
    BY <1>4, <2>1 DEF Entry
  <2>3. PICK h \in {dispatch.handler, registry[dispatch.i].handler} \ {NO_HANDLER} :
          /\ dispatch' = [dispatch EXCEPT !.handler = h, !.pc = "handler"]
          /\ served' = [served EXCEPT ![h] = IF @ < 2 THEN @ + 1 ELSE @]
    BY <1>8 DEF CallHandler
  <2>4. h \in Handlers
    BY <2>1, <2>2, <2>3
  <2>5. served' \in [Handlers -> 0 .. 2]
    <3>1. served[h] \in 0 .. 2
      BY <1>4, <2>4
    <3>2. (IF served[h] < 2 THEN served[h] + 1 ELSE served[h]) \in 0 .. 2
      BY <3>1
    <3> QED BY <1>4, <2>3, <2>4, <3>2
  <2>6. PICK r : r = [dispatch EXCEPT !.handler = h, !.pc = "handler"]
                 /\ dispatch' = r
    BY <2>3
  <2>7. /\ r \in Dispatches /\ r.pc = "handler" /\ r.id \in EventIds
        /\ r.i \in Slots /\ r.handler \in Handlers
    BY <1>1, <2>1, <2>4, <2>6 DEF Dispatches
  <2> QED
    BY <1>2, <1>8, <2>5, <2>6, <2>7 DEF CallHandler, DispatchShape, InHand
<1>9. CASE CallNull
  <2>1. dispatch' \in Dispatches /\ dispatch'.pc = "crashed"
    BY <1>9, WaitingType DEF CallNull, Dispatches
  <2>2. call' \in [Tasks -> CallRecords] /\ CallShape'
    BY <1>9, NoCallType DEF CallNull, CallShape
  <2>3. UNCHANGED <<registry, evn_queue, standing, due, barred, served, foreign>>
    BY <1>9 DEF CallNull
  <2> QED
    BY <2>1, <2>2, <2>3 DEF TypeInv, Types, DispatchShape, InHand
<1>10. CASE HandlerReturns
  <2>1. dispatch.i \in Slots /\ dispatch.id \in EventIds
    BY <1>10 DEF HandlerReturns, TypeInv, DispatchShape, InHand
  <2>2. dispatch.i + 1 \in 1 .. MaxHandlers + 1
    BY <2>1, RegistryLengths DEF Slots
  <2>3. PICK r : /\ r = [dispatch EXCEPT !.pc = "scan", !.i = dispatch.i + 1,
                                         !.handler = NO_HANDLER]
                 /\ dispatch' = r
    BY <1>10 DEF HandlerReturns
  <2>4. r \in Dispatches /\ r.pc = "scan" /\ r.id \in EventIds
    BY <1>1, <2>1, <2>2, <2>3 DEF Dispatches
  <2> QED
    BY <1>2, <1>4, <1>10, <2>3, <2>4 DEF HandlerReturns, DispatchShape, InHand
<1> QED
  BY <1>5, <1>6, <1>7, <1>8, <1>9, <1>10 DEF DispatchStep

LEMMA RestartType ==
  ASSUME TypeInv, Restart
  PROVE  TypeInv'
<1>1. dispatch' \in Dispatches /\ dispatch'.pc = "receive"
  BY WaitingType DEF Restart
<1>2. served' \in [Handlers -> 0 .. 2]
  BY DEF Restart
<1>3. evn_queue' \in Seq(EventIds) /\ Len(evn_queue') <= EvnQueueLen
  BY EmptyQueue, RegistryLengths DEF Restart
<1>4. /\ registry' \in [Slots -> Entry] /\ standing' \subseteq Pairs
      /\ due' \subseteq Handlers /\ barred' \subseteq Handlers
      /\ foreign' \in BOOLEAN /\ UNCHANGED call
  BY EmptyRegistryType DEF Restart
<1> QED
  BY <1>1, <1>2, <1>3, <1>4 DEF TypeInv, Types, CallShape, DispatchShape, InHand

LEMMA NextType == TypeInv /\ [Next]_vars => TypeInv'
<1>1. ASSUME TypeInv, UNCHANGED vars PROVE TypeInv'
  BY <1>1 DEF vars, TypeInv, Types, CallShape, DispatchShape, InHand
<1> QED
  BY <1>1, BeginType, TaskType, DispatchType, RestartType DEF Next

LEMMA TypesAlways == Spec => []TypeInv
BY InitType, NextType, PTL DEF Spec

\* What a step does to the registrations that others lean on.
LEMMA LeaningStep ==
  ASSUME TypeInv, [Next]_vars
  PROVE  \/ UNCHANGED leaning /\ standing \subseteq standing'
         \/ \E id, h : /\ leaning' = {p \in leaning : ~Covers(id, h, p)}
                       /\ standing' = {p \in standing : ~Covers(id, h, p)}
         \/ leaning' = {}
         \/ \E t \in Tasks :
              LET c == call[t] IN
              /\ c.op = "register" /\ c.i \in Slots
              /\ Match(c.i, c.id, c.handler) /\ UNCHANGED standing
              /\ leaning' = leaning
                   \union {<<registry[c.i].event_id, c.handler>>}
<1>1. ASSUME NEW t \in Tasks, BeginCall(t)
      PROVE  \/ UNCHANGED <<leaning, standing>>
             \/ \E id, h : /\ leaning' = {p \in leaning : ~Covers(id, h, p)}
                           /\ standing' = {p \in standing : ~Covers(id, h, p)}
  <2>1. ASSUME NEW id \in Ids, NEW h \in Handlers, BeginRegister(t, id, h)
        PROVE  UNCHANGED <<leaning, standing>>
    BY <2>1 DEF BeginRegister
  <2>2. ASSUME NEW id, NEW h, BeginUnregister(t, id, h)
        PROVE  /\ leaning' = {p \in leaning : ~Covers(id, h, p)}
               /\ standing' = {p \in standing : ~Covers(id, h, p)}
    BY <2>2 DEF BeginUnregister
  <2>3. ASSUME NEW id \in EventIds, BeginSetEvent(t, id)
        PROVE  UNCHANGED <<leaning, standing>>
    BY <2>3 DEF BeginSetEvent
  <2> QED
    BY <1>1, <2>1, <2>2, <2>3 DEF BeginCall
<1>2. ASSUME NEW t \in Tasks, RegisterDuplicate(t)
      PROVE  \/ UNCHANGED leaning /\ standing \subseteq standing'
             \/ LET c == call[t] IN
                  /\ c.op = "register" /\ c.i \in Slots
                  /\ Match(c.i, c.id, c.handler) /\ UNCHANGED standing
                  /\ leaning' = leaning
                       \union {<<registry[c.i].event_id, c.handler>>}
  <2>1. call[t].i \in 1 .. MaxHandlers + 1
    BY DEF TypeInv, Types, CallRecords
  <2>2. call[t].i > MaxHandlers \/ call[t].i \in Slots
    BY <2>1, RegistryLengths DEF Slots
  <2> QED
    BY <1>2, <2>2 DEF RegisterDuplicate, Registered, Leans
<1>3. ASSUME NEW t \in Tasks, TaskStep(t), ~RegisterDuplicate(t)
      PROVE  UNCHANGED leaning /\ standing \subseteq standing'
  BY <1>3 DEF TaskStep, RegisterFree, RegisterStoreId, RegisterStoreHandler,
    Registered, UnregisterFind, UnregisterClearId, UnregisterClearHandler,
    SetEventSend, SetEventTimeout
<1>4. ASSUME DispatchStep PROVE UNCHANGED <<leaning, standing>>
  BY <1>4 DEF DispatchStep, Receive, ScanSlot, CheckHandler, CallHandler,
    CallNull, HandlerReturns
<1>5. ASSUME Restart PROVE leaning' = {}
  BY <1>5 DEF Restart
<1>6. ASSUME UNCHANGED vars PROVE UNCHANGED <<leaning, standing>>
  BY <1>6 DEF vars
<1> QED
  BY <1>1, <1>2, <1>3, <1>4, <1>5, <1>6 DEF Next

LEMMA LeaningTypes == Spec => []LeaningType
<1>1. Init => LeaningType
  BY DEF Init, LeaningType
<1>2. ASSUME TypeInv, LeaningType, [Next]_vars PROVE LeaningType'
  <2>1. ASSUME NEW t \in Tasks, call[t].op = "register", call[t].i \in Slots
        PROVE  <<registry[call[t].i].event_id, call[t].handler>>
                 \in (Ids \union {EVN_NO_ENTRY}) \X Handlers
    BY <1>2, <2>1 DEF TypeInv, Types, CallShape, Entry
  <2> QED
    BY <1>2, <2>1, LeaningStep DEF LeaningType
<1> QED
  BY <1>1, <1>2, TypesAlways, PTL DEF Spec

\* Whatever calls the tasks and the handlers make, in whatever order their
\* loads and stores come, the registry, the queue, the local variables of
\* register_event_handler, unregister_event_handler and set_event and those of
\* event_manager_task keep their ranges; no index leaves the registry.
THEOREM TypeCorrect == Spec => []TypeOK
<1>1. TypeInv /\ LeaningType => TypeOK
  BY DEF TypeInv, LeaningType, Types, TypeOK, Entry, CallRecords, Dispatches
<1> QED
  BY <1>1, TypesAlways, LeaningTypes, PTL

-----------------------------------------------------------------------------
(***************************************************************************)
(* What a step of a task leaves alone.                                     *)
(***************************************************************************)
LEMMA BeginRegisterEffect ==
  ASSUME Types, NEW t \in Tasks, NEW id \in Ids, NEW h \in Handlers,
         BeginRegister(t, id, h)
  PROVE  /\ call'[t].op = "register" /\ call'[t].pc = "duplicate"
         /\ call'[t].id = id /\ call'[t].handler = h /\ call'[t].i = 1
         /\ \A u \in Tasks \ {t} : call'[u] = call[u]
BY DEF BeginRegister, Types

LEMMA BeginUnregisterEffect ==
  ASSUME Types, NEW t \in Tasks, NEW id \in Ids,
         NEW h \in Handlers \union {NO_HANDLER}, BeginUnregister(t, id, h)
  PROVE  /\ call'[t].op = "unregister" /\ call'[t].pc = "find"
         /\ call'[t].id = id /\ call'[t].handler = h /\ call'[t].i = 1
         /\ \A u \in Tasks \ {t} : call'[u] = call[u]
BY DEF BeginUnregister, Types

LEMMA BeginSetEventEffect ==
  ASSUME Types, NEW t \in Tasks, NEW id \in EventIds, BeginSetEvent(t, id)
  PROVE  /\ call'[t].op = "set_event"
         /\ \A u \in Tasks \ {t} : call'[u] = call[u]
<1>1. PICK r : /\ r = [NoCall EXCEPT !.op = "set_event", !.id = id]
               /\ call' = [call EXCEPT ![t] = r]
  BY DEF BeginSetEvent
<1>2. r.op = "set_event"
  BY <1>1, NoCallType DEF CallRecords
<1> QED
  BY <1>1, <1>2 DEF Types

LEMMA ReturnEffect ==
  ASSUME Types, NEW t \in Tasks, Return(t)
  PROVE  /\ call'[t].op = "none"
         /\ \A u \in Tasks \ {t} : call'[u] = call[u]
BY CallEffect, NoCallType DEF Return

\* Whatever a call does next, it is the same call or it has returned.
LEMMA TaskEffect ==
  ASSUME TypeInv, NEW t \in Tasks, TaskStep(t)
  PROVE  /\ UNCHANGED <<dispatch, due, barred, served, foreign>>
         /\ \A u \in Tasks \ {t} : call'[u] = call[u]
         /\ \/ call'[t].op = "none"
            \/ /\ call'[t].op = call[t].op /\ call'[t].id = call[t].id
               /\ call'[t].handler = call[t].handler
         /\ call[t].op # "none"
<1> DEFINE c == call[t]
<1>1. /\ Types /\ c.i \in 1 .. MaxHandlers + 1
      /\ 1 \in 1 .. MaxHandlers + 1
      /\ c.i \in Slots => c.i + 1 \in 1 .. MaxHandlers + 1
      /\ ~(c.i > MaxHandlers) => c.i + 1 \in 1 .. MaxHandlers + 1
  BY RegistryLengths DEF TypeInv, Types, CallRecords, Slots
<1>2. /\ UNCHANGED <<dispatch, due, barred, served, foreign>>
      /\ c.op \in {"register", "unregister", "set_event"}
  BY DEF TaskStep, RegisterDuplicate, RegisterFree, RegisterStoreId,
    RegisterStoreHandler, UnregisterFind, UnregisterClearId,
    UnregisterClearHandler, SetEventSend, SetEventTimeout
<1>3. \/ Return(t)
      \/ \E p \in CallPcs, n \in 1 .. MaxHandlers + 1 : Goto(t, p, n)
  <2>1. CASE RegisterDuplicate(t)
    BY <1>1, <2>1 DEF RegisterDuplicate, CallPcs
  <2>2. CASE RegisterFree(t)
    BY <1>1, <2>2 DEF RegisterFree, CallPcs
  <2>3. CASE RegisterStoreId(t)
    BY <1>1, <2>3 DEF RegisterStoreId, CallPcs
  <2>4. CASE RegisterStoreHandler(t)
    BY <2>4 DEF RegisterStoreHandler
  <2>5. CASE UnregisterFind(t)
    BY <1>1, <2>5 DEF UnregisterFind, CallPcs
  <2>6. CASE UnregisterClearId(t)
    BY <1>1, <2>6 DEF UnregisterClearId, CallPcs
  <2>7. CASE UnregisterClearHandler(t)
    <3>1. c.i \in Slots
      BY <2>7 DEF UnregisterClearHandler, TypeInv, CallShape
    <3> QED
      BY <1>1, <2>7, <3>1 DEF UnregisterClearHandler, CallPcs
  <2>8. CASE SetEventSend(t) \/ SetEventTimeout(t)
    BY <2>8 DEF SetEventSend, SetEventTimeout
  <2> QED
    BY <2>1, <2>2, <2>3, <2>4, <2>5, <2>6, <2>7, <2>8 DEF TaskStep
<1>4. CASE Return(t)
  BY <1>1, <1>2, <1>4, ReturnEffect
<1>5. CASE \E p \in CallPcs, n \in 1 .. MaxHandlers + 1 : Goto(t, p, n)
  BY <1>1, <1>2, <1>5, GotoEffect
<1> QED BY <1>3, <1>4, <1>5

\* The registry is written by four steps of the calls, a field at a time.
LEMMA TaskStores ==
  ASSUME TypeInv, NEW t \in Tasks, TaskStep(t)
  PROVE  \/ UNCHANGED registry
         \/ RegisterStoreId(t) \/ RegisterStoreHandler(t)
         \/ UnregisterClearId(t) \/ UnregisterClearHandler(t)
BY DEF TaskStep, RegisterDuplicate, RegisterFree, UnregisterFind,
  SetEventSend, SetEventTimeout

-----------------------------------------------------------------------------
(***************************************************************************)
(* NULL is not called while only handlers unregister.                      *)
(***************************************************************************)
LEMMA InitNull == Init => NullInv
BY WaitingType, NoCallType DEF Init, NullInv, NoNullCall

LEMMA TaskNull ==
  ASSUME TypeInv, NullInv, NEW t \in Tasks, TaskStep(t)
  PROVE  NullInv'
<1> DEFINE c == call[t]
<1>1. /\ UNCHANGED <<dispatch, foreign>>
      /\ \A u \in Tasks : call'[u].op \in {"none", call[u].op}
  BY TaskEffect
<1>2. ~foreign /\ dispatch.pc = "call" =>
        registry'[dispatch.i].handler # NO_HANDLER
  <2> SUFFICES ASSUME ~foreign, dispatch.pc = "call"
               PROVE  registry'[dispatch.i].handler # NO_HANDLER
    OBVIOUS
  <2>1. dispatch.i \in Slots /\ registry[dispatch.i].handler # NO_HANDLER
    BY DEF TypeInv, DispatchShape, NullInv
  <2>2. c.op # "unregister"
    BY DEF NullInv
  <2>3. CASE UNCHANGED registry
    BY <2>1, <2>3
  <2>4. CASE RegisterStoreId(t)
    <3>1. c.i \in Slots /\ c.id \in Ids
          /\ registry' = [registry EXCEPT ![c.i].event_id = c.id]
      BY <2>4 DEF RegisterStoreId, TypeInv, CallShape
    <3> QED
      BY <2>1, <3>1, StoreIdEffect DEF TypeInv
  <2>5. CASE RegisterStoreHandler(t)
    <3>1. c.i \in Slots /\ c.handler \in Handlers
          /\ registry' = [registry EXCEPT ![c.i].handler = c.handler]
      BY <2>5 DEF RegisterStoreHandler, TypeInv, CallShape
    <3> QED
      BY <2>1, <3>1, StoreHandlerEffect, RegistryHandlers DEF TypeInv
  <2> QED
    BY <2>2, <2>3, <2>4, <2>5, TaskStores
    DEF UnregisterClearId, UnregisterClearHandler
<1> QED
  BY <1>1, <1>2 DEF NullInv, NoNullCall

LEMMA BeginNull ==
  ASSUME TypeInv, NullInv, NEW t \in Tasks, BeginCall(t)
  PROVE  NullInv'
<1>1. Types
  BY DEF TypeInv
<1>2. ASSUME MayCall(t), UNCHANGED <<registry, dispatch, foreign>>,
             \A u \in Tasks \ {t} : call'[u] = call[u],
             call'[t].op # "unregister"
      PROVE  NullInv'
  BY <1>2 DEF NullInv, NoNullCall, MayCall
<1>3. ASSUME NEW id \in Ids, NEW h \in Handlers, BeginRegister(t, id, h)
      PROVE  NullInv'
  <2>1. call'[t].op = "register" /\ \A u \in Tasks \ {t} : call'[u] = call[u]
    BY <1>1, <1>3, BeginRegisterEffect
  <2> QED
    BY <1>2, <1>3, <2>1, Zenon DEF BeginRegister, MayWrite
<1>4. ASSUME NEW id \in Ids, NEW h \in Handlers \union {NO_HANDLER},
             BeginUnregister(t, id, h)
      PROVE  NullInv'
  <2>1. \A u \in Tasks \ {t} : call'[u] = call[u]
    BY <1>1, <1>4, BeginUnregisterEffect
  <2>2. foreign \in BOOLEAN /\ foreign' \in BOOLEAN
    BY <1>1, <1>4 DEF Types, BeginUnregister
  <2>3. /\ foreign => foreign'
        /\ ~foreign' /\ dispatch.pc # "receive" => t = EvnTask
    <3>1. foreign' = (foreign \/ (t # EvnTask /\ dispatch.pc # "receive"))
      BY <1>4 DEF BeginUnregister
    <3> QED
      BY <3>1, Zenon
  <2>4. MayCall(t) /\ UNCHANGED <<registry, dispatch>>
    BY <1>4 DEF BeginUnregister, MayWrite
  <2> QED
    BY <2>1, <2>2, <2>3, <2>4 DEF NullInv, NoNullCall, MayCall
<1>5. ASSUME NEW id \in EventIds, BeginSetEvent(t, id)
      PROVE  NullInv'
  <2>1. call'[t].op = "set_event" /\ \A u \in Tasks \ {t} : call'[u] = call[u]
    BY <1>1, <1>5, BeginSetEventEffect
  <2> QED
    BY <1>2, <1>5, <2>1, Zenon DEF BeginSetEvent
<1>6. EVN_ANY \in Ids
  BY DEF Ids
<1> QED
  BY <1>3, <1>4, <1>5, <1>6 DEF BeginCall

LEMMA DispatchNull ==
  ASSUME TypeInv, NullInv, DispatchStep
  PROVE  NullInv'
<1>1. dispatch \in Dispatches
  BY DEF TypeInv, Types
<1>2. CASE Receive
  <2>1. dispatch'.pc = "scan" /\ UNCHANGED call /\ dispatch.pc = "receive"
    BY <1>2 DEF Receive, Waiting
  <2>2. foreign' = \E t \in Tasks \ {EvnTask} : call[t].op = "unregister"
    BY <1>2 DEF Receive
  <2> QED
    BY <2>1, <2>2 DEF NullInv, NoNullCall
<1>3. CASE ScanSlot
  <2>1. /\ dispatch'.pc \in {"receive", "scan", "check"} /\ dispatch.pc = "scan"
        /\ UNCHANGED <<registry, call, foreign>>
    BY <1>1, <1>3 DEF ScanSlot, Waiting, Dispatches
  <2> QED
    BY <2>1 DEF NullInv, NoNullCall
<1>4. CASE CheckHandler
  <2>1. /\ dispatch.pc = "check" /\ UNCHANGED <<registry, call, foreign>>
        /\ \/ dispatch'.pc = "scan"
           \/ /\ dispatch'.pc = "call" /\ dispatch'.i = dispatch.i
              /\ registry[dispatch.i].handler # NO_HANDLER
    BY <1>1, <1>4 DEF CheckHandler, Dispatches
  <2> QED
    BY <2>1 DEF NullInv, NoNullCall
<1>5. CASE CallHandler
  <2>1. /\ dispatch.pc = "call" /\ UNCHANGED <<registry, call, foreign>>
        /\ dispatch'.pc = "handler"
    BY <1>1, <1>5 DEF CallHandler, Dispatches
  <2> QED
    BY <2>1 DEF NullInv, NoNullCall
<1>6. CASE CallNull
  <2>1. /\ dispatch.pc = "call" /\ registry[dispatch.i].handler = NO_HANDLER
        /\ dispatch'.pc = "crashed" /\ UNCHANGED foreign
        /\ \A t \in Tasks : call'[t].op = "none"
    BY <1>6, NoCallType DEF CallNull, Waiting
  <2> QED
    BY <2>1 DEF NullInv, NoNullCall
<1>7. CASE HandlerReturns
  <2>1. /\ dispatch.pc = "handler" /\ UNCHANGED <<registry, call, foreign>>
        /\ dispatch'.pc = "scan"
        /\ EvnTask \in Tasks => call[EvnTask].op = "none"
    BY <1>1, <1>7 DEF HandlerReturns, Dispatches
  <2> QED
    BY <2>1 DEF NullInv, NoNullCall
<1> QED
  BY <1>2, <1>3, <1>4, <1>5, <1>6, <1>7 DEF DispatchStep

LEMMA NextNull == TypeInv /\ NullInv /\ [Next]_vars => NullInv'
<1> SUFFICES ASSUME TypeInv, NullInv, [Next]_vars PROVE NullInv'
  OBVIOUS
<1>1. CASE Restart
  BY <1>1, WaitingType DEF Restart, NullInv, NoNullCall
<1>2. CASE UNCHANGED vars
  BY <1>2 DEF vars, NullInv, NoNullCall
<1> QED
  BY <1>1, <1>2, TaskNull, BeginNull, DispatchNull DEF Next

LEMMA NullAlways == Spec => []NullInv
<1>1. TypeInv /\ NullInv /\ [Next]_vars => NullInv'
  BY NextNull
<1> QED
  BY InitNull, TypesAlways, <1>1, PTL DEF Spec

\* event_manager_task compares the slot's handler with NULL and then calls what
\* the slot holds, which may be loaded again: under every interleaving with
\* register_event_handler and with the handlers' own calls this is never NULL,
\* unless a task has been inside an unregister call meanwhile.
THEOREM NullNeverCalled == Spec => []NoNullCall
<1>1. NullInv => NoNullCall
  BY DEF NullInv
<1> QED
  BY <1>1, NullAlways, PTL

-----------------------------------------------------------------------------
(***************************************************************************)
(* The registry, when the tasks take turns at writing it.                  *)
(***************************************************************************)
Holds(s) == <<registry[s].event_id, registry[s].handler>>

LEMMA MatchIsRemoves ==
  \A s, c : Match(s, c.id, c.handler) <=> Removes(c, Holds(s))
BY DEF Match, Removes, Holds

\* What the invariant says while a task registers: nobody else writes.
LEMMA WhileRegistering ==
  ASSUME TypeInv, NullInv, RegistryInv,
         NEW t \in Tasks, call[t].op = "register"
  PROVE  /\ dispatch.pc # "crashed"
         /\ \A u \in Tasks \ {t} : ~Writing(u)
         /\ \A s \in Slots :
              /\ registry[s].event_id = EVN_NO_ENTRY =>
                   registry[s].handler = NO_HANDLER
              /\ registry[s].event_id # EVN_NO_ENTRY
                 /\ registry[s].handler # NO_HANDLER => Holds(s) \in standing
<1>1. dispatch.pc # "crashed"
  BY DEF NullInv
<1>2. \A u \in Tasks \ {t} : ~Writing(u)
  BY DEF RegistryInv, OneWriter, Writing
<1>3. \A u \in Tasks : call[u].op # "unregister"
  BY <1>2 DEF Writing
<1> QED
  BY <1>1, <1>2, <1>3 DEF RegistryInv, FreeIsEmpty, SlotsStand, Holds

LEMMA WhileUnregistering ==
  ASSUME TypeInv, NullInv, RegistryInv,
         NEW t \in Tasks, call[t].op = "unregister"
  PROVE  /\ dispatch.pc # "crashed"
         /\ \A u \in Tasks \ {t} : ~Writing(u)
         /\ \A s \in Slots :
              /\ registry[s].event_id = EVN_NO_ENTRY =>
                   \/ registry[s].handler = NO_HANDLER
                   \/ call[t].pc = "clear_handler" /\ call[t].i = s
              /\ registry[s].event_id # EVN_NO_ENTRY
                 /\ registry[s].handler # NO_HANDLER =>
                   \/ Holds(s) \in standing
                   \/ call[t].i <= s /\ Removes(call[t], Holds(s))
<1>1. dispatch.pc # "crashed"
  BY DEF NullInv
<1>2. \A u \in Tasks \ {t} : ~Writing(u)
  BY DEF RegistryInv, OneWriter, Writing
<1>3. \A u \in Tasks : call[u].op = "unregister" => u = t
  BY <1>2 DEF Writing
<1> QED
  BY <1>1, <1>2, <1>3 DEF RegistryInv, FreeIsEmpty, SlotsStand, Holds

\* What is left to show when the writer has returned, registers or unregisters.
LEMMA AfterReturn ==
  ASSUME \A u \in Tasks : call'[u].op \notin {"register", "unregister"},
         \A s \in Slots :
           /\ registry'[s].event_id = EVN_NO_ENTRY =>
                registry'[s].handler = NO_HANDLER
           /\ registry'[s].event_id # EVN_NO_ENTRY
              /\ registry'[s].handler # NO_HANDLER => Holds(s)' \in standing',
         StandingHolds'
  PROVE  RegistryInv'
BY DEF RegistryInv, OneWriter, Writing, WriterKnows, FreeIsEmpty, SlotsStand,
  Holds

LEMMA AfterRegister ==
  ASSUME NEW t \in Tasks, call'[t].op = "register",
         \A u \in Tasks \ {t} : call'[u].op \notin {"register", "unregister"},
         \A s \in Slots :
           /\ call'[t].pc # "duplicate" \/ s < call'[t].i =>
                ~Match(s, call[t].id, call[t].handler)'
           /\ registry'[s].event_id = EVN_NO_ENTRY =>
                registry'[s].handler = NO_HANDLER
           /\ registry'[s].event_id # EVN_NO_ENTRY
              /\ registry'[s].handler # NO_HANDLER => Holds(s)' \in standing',
         call'[t].pc = "store_id" =>
           registry'[call'[t].i].event_id = EVN_NO_ENTRY,
         call'[t].pc = "store_handler" =>
           registry'[call'[t].i].event_id = call'[t].id,
         call'[t].pc \in {"store_id", "store_handler"} =>
           registry'[call'[t].i].handler = NO_HANDLER,
         StandingHolds'
  PROVE  RegistryInv'
BY DEF RegistryInv, OneWriter, Writing, WriterKnows, FreeIsEmpty, SlotsStand,
  Holds

LEMMA AfterUnregister ==
  ASSUME NEW t \in Tasks, call'[t].op = "unregister",
         \A u \in Tasks \ {t} : call'[u].op \notin {"register", "unregister"},
         \A s \in Slots :
           /\ registry'[s].event_id = EVN_NO_ENTRY =>
                \/ registry'[s].handler = NO_HANDLER
                \/ call'[t].pc = "clear_handler" /\ call'[t].i = s
           /\ registry'[s].event_id # EVN_NO_ENTRY
              /\ registry'[s].handler # NO_HANDLER =>
                \/ Holds(s)' \in standing'
                \/ call'[t].i <= s /\ Removes(call[t], Holds(s))',
         \A p \in standing' : ~Removes(call[t], p)',
         call'[t].pc = "clear_id" =>
           Match(call[t].i, call[t].id, call[t].handler)',
         call'[t].pc = "clear_handler" =>
           registry'[call'[t].i].event_id = EVN_NO_ENTRY,
         StandingHolds'
  PROVE  RegistryInv'
BY DEF RegistryInv, OneWriter, Writing, WriterKnows, FreeIsEmpty, SlotsStand,
  Holds

\* Steps that write neither the registry nor a writer's local variables.
LEMMA RegistryQuiet ==
  ASSUME RegistryInv, UNCHANGED <<registry, standing>>,
         dispatch.pc # "crashed" \/ dispatch'.pc = "crashed",
         \A u \in Tasks :
           call'[u] = call[u] \/ (~Writing(u) /\ ~Writing(u)')
  PROVE  RegistryInv'
<1>1. OneWriter'
  BY DEF RegistryInv, OneWriter, Writing
<1>2. WriterKnows'
  BY DEF RegistryInv, WriterKnows, Writing, Match, Removes
<1>3. FreeIsEmpty'
  BY DEF RegistryInv, FreeIsEmpty, Writing
<1>4. SlotsStand'
  BY DEF RegistryInv, SlotsStand, Writing, Removes
<1>5. StandingHolds'
  BY DEF RegistryInv, StandingHolds
<1> QED
  BY <1>1, <1>2, <1>3, <1>4, <1>5 DEF RegistryInv

LEMMA BeginRegistry ==
  ASSUME Serialised, TypeInv, NullInv, RegistryInv,
         NEW t \in Tasks, BeginCall(t)
  PROVE  RegistryInv'
<1>1. Types
  BY DEF TypeInv
<1>2. ASSUME MayWrite(t)
      PROVE  /\ dispatch.pc # "crashed"
             /\ \A u \in Tasks : call[u].op \notin {"register", "unregister"}
             /\ \A s \in Slots :
                  /\ registry[s].event_id = EVN_NO_ENTRY =>
                       registry[s].handler = NO_HANDLER
                  /\ registry[s].event_id # EVN_NO_ENTRY
                     /\ registry[s].handler # NO_HANDLER => Holds(s) \in standing
  <2>1. /\ dispatch.pc # "crashed"
        /\ \A u \in Tasks : call[u].op \notin {"register", "unregister"}
    BY <1>2 DEF MayWrite, MayCall, Writing
  <2> QED
    BY <2>1 DEF RegistryInv, FreeIsEmpty, SlotsStand, Holds
<1>3. ASSUME NEW id \in Ids, NEW h \in Handlers, BeginRegister(t, id, h)
      PROVE  RegistryInv'
  <2>1. /\ call'[t].op = "register" /\ call'[t].pc = "duplicate"
        /\ call'[t].i = 1
        /\ \A u \in Tasks \ {t} : call'[u] = call[u]
    BY <1>1, <1>3, BeginRegisterEffect
  <2>2. MayWrite(t) /\ UNCHANGED <<registry, standing>>
    BY <1>3 DEF BeginRegister
  <2>3. \A s \in Slots : ~(s < 1)
    BY RegistryLengths DEF Slots
  <2>4. StandingHolds'
    BY <2>2 DEF RegistryInv, StandingHolds
  <2> QED
    BY <1>2, <2>1, <2>2, <2>3, <2>4, AfterRegister DEF Holds
<1>4. ASSUME NEW id \in Ids, NEW h \in Handlers \union {NO_HANDLER},
             BeginUnregister(t, id, h)
      PROVE  RegistryInv'
  <2>1. /\ call'[t].op = "unregister" /\ call'[t].pc = "find"
        /\ call'[t].id = id /\ call'[t].handler = h /\ call'[t].i = 1
        /\ \A u \in Tasks \ {t} : call'[u] = call[u]
    BY <1>1, <1>4, BeginUnregisterEffect
  <2>2. /\ MayWrite(t) /\ UNCHANGED registry
        /\ standing' = {p \in standing : ~ /\ id \in {EVN_ANY, p[1]}
                                           /\ h \in {NO_HANDLER, p[2]}}
    BY <1>4 DEF BeginUnregister, Covers
  <2>3. standing' = {p \in standing : ~Removes(call[t], p)'}
    BY <2>1, <2>2 DEF Removes
  <2>4. \A s \in Slots :
          /\ registry'[s].event_id = EVN_NO_ENTRY =>
               registry'[s].handler = NO_HANDLER
          /\ registry'[s].event_id # EVN_NO_ENTRY
             /\ registry'[s].handler # NO_HANDLER =>
               \/ Holds(s)' \in standing'
               \/ call'[t].i <= s /\ Removes(call[t], Holds(s))'
    <3>1. \A s \in Slots : 1 <= s
      BY RegistryLengths DEF Slots
    <3>2. \A s \in Slots : Holds(s)' = Holds(s)
      BY <2>2 DEF Holds
    <3> QED
      BY <1>2, <2>1, <2>2, <2>3, <3>1, <3>2 DEF Removes
  <2>5. StandingHolds'
    BY <2>2, <2>3 DEF RegistryInv, StandingHolds
  <2>6. \A u \in Tasks \ {t} : call'[u].op \notin {"register", "unregister"}
    BY <1>2, <2>1, <2>2
  <2>7. \A p \in standing' : ~Removes(call[t], p)'
    BY <2>3
  <2> QED
    BY <2>1, <2>4, <2>5, <2>6, <2>7, AfterUnregister
<1>5. ASSUME NEW id \in EventIds, BeginSetEvent(t, id)
      PROVE  RegistryInv'
  <2>1. call'[t].op = "set_event" /\ \A u \in Tasks \ {t} : call'[u] = call[u]
    BY <1>1, <1>5, BeginSetEventEffect
  <2>2. UNCHANGED <<registry, dispatch, standing>> /\ MayCall(t)
    BY <1>5 DEF BeginSetEvent
  <2> QED
    BY <2>1, <2>2, RegistryQuiet DEF MayCall, Writing
<1>6. EVN_ANY \in Ids
  BY DEF Ids
<1> QED
  BY <1>3, <1>4, <1>5, <1>6 DEF BeginCall

\* The steps of register_event_handler.
LEMMA RegisterRegistry ==
  ASSUME TypeInv, NullInv, RegistryInv, NEW t \in Tasks,
         \/ RegisterDuplicate(t) \/ RegisterFree(t)
         \/ RegisterStoreId(t) \/ RegisterStoreHandler(t)
  PROVE  RegistryInv'
<1> DEFINE c == call[t]
<1>1. /\ c.op = "register" /\ c.id \in Ids /\ c.handler \in Handlers
      /\ c.i \in 1 .. MaxHandlers + 1 /\ c.id # EVN_NO_ENTRY
      /\ c.handler # NO_HANDLER
      /\ c.pc \in {"store_id", "store_handler"} => c.i \in Slots
  <2>1. c.op = "register"
    BY DEF RegisterDuplicate, RegisterFree, RegisterStoreId, RegisterStoreHandler
  <2>2. c.i \in 1 .. MaxHandlers + 1
    BY DEF TypeInv, Types, CallRecords
  <2> QED
    BY <2>1, <2>2, RegistryHandlers, RegistryIds DEF TypeInv, CallShape, Ids
<1>2. /\ Types /\ StandingHolds
      /\ 1 \in 1 .. MaxHandlers + 1
      /\ \A s \in Slots : s \in Nat /\ s <= MaxHandlers
  BY RegistryLengths DEF TypeInv, RegistryInv, Slots
<1>3. /\ \A u \in Tasks \ {t} : call[u].op \notin {"register", "unregister"}
      /\ \A s \in Slots :
           /\ registry[s].event_id = EVN_NO_ENTRY =>
                registry[s].handler = NO_HANDLER
           /\ registry[s].event_id # EVN_NO_ENTRY
              /\ registry[s].handler # NO_HANDLER => Holds(s) \in standing
  BY <1>1, WhileRegistering DEF Writing
<1>4. /\ \A s \in Slots :
           c.pc # "duplicate" \/ s < c.i => ~Match(s, c.id, c.handler)
      /\ c.pc = "store_id" => registry[c.i].event_id = EVN_NO_ENTRY
      /\ c.pc = "store_handler" => registry[c.i].event_id = c.id
      /\ c.pc \in {"store_id", "store_handler"} =>
           registry[c.i].handler = NO_HANDLER
  BY <1>1 DEF RegistryInv, WriterKnows
<1>5. ASSUME UNCHANGED <<registry, standing>>
      PROVE  /\ StandingHolds'
             /\ \A s \in Slots : Holds(s)' = Holds(s)
  BY <1>2, <1>5 DEF StandingHolds, Holds
<1>6. CASE RegisterDuplicate(t)
  <2>1. CASE /\ c.i > MaxHandlers /\ Goto(t, "free", 1)
             /\ UNCHANGED <<registry, standing>>
    <3>1. /\ call'[t].op = "register" /\ call'[t].pc = "free" /\ call'[t].i = 1
          /\ call'[t].id = c.id /\ call'[t].handler = c.handler
          /\ \A u \in Tasks \ {t} : call'[u] = call[u]
      BY <1>1, <1>2, <2>1, GotoEffect DEF CallPcs
    <3>2. \A s \in Slots : ~Match(s, call[t].id, call[t].handler)'
      BY <1>1, <1>2, <1>4, <2>1, <3>1, RegistryLengths DEF Match
    <3> QED
      BY <1>3, <1>5, <2>1, <3>1, <3>2, AfterRegister
  <2>2. CASE /\ ~(c.i > MaxHandlers) /\ ~Match(c.i, c.id, c.handler)
             /\ Goto(t, "duplicate", c.i + 1)
             /\ UNCHANGED <<registry, standing>>
    <3>0. c.i + 1 \in 1 .. MaxHandlers + 1
      BY <1>1, <2>2, RegistryLengths
    <3>1. /\ call'[t].op = "register" /\ call'[t].pc = "duplicate"
          /\ call'[t].i = c.i + 1
          /\ call'[t].id = c.id /\ call'[t].handler = c.handler
          /\ \A u \in Tasks \ {t} : call'[u] = call[u]
      BY <1>1, <1>2, <2>2, <3>0, GotoEffect DEF CallPcs
    <3>2. \A s \in Slots : s < c.i + 1 => ~Match(s, c.id, c.handler)
      BY <1>1, <1>2, <1>4, <2>2
    <3>3. \A s \in Slots :
            s < call'[t].i => ~Match(s, call[t].id, call[t].handler)'
      BY <2>2, <3>1, <3>2 DEF Match
    <3> QED
      BY <1>3, <1>5, <2>2, <3>1, <3>3, AfterRegister
  <2>3. CASE /\ ~(c.i > MaxHandlers) /\ Match(c.i, c.id, c.handler)
             /\ Return(t) /\ UNCHANGED registry
             /\ IF registry[c.i].event_id = c.id
                THEN Registered(t) ELSE UNCHANGED standing
    <3>1. \A u \in Tasks : call'[u].op \notin {"register", "unregister"}
      BY <1>2, <1>3, <2>3, ReturnEffect
    <3>2. \A s \in Slots : Holds(s)' = Holds(s)
      BY <2>3 DEF Holds
    <3>3. standing \subseteq standing'
      BY <2>3 DEF Registered
    <3>4. StandingHolds'
      <4>1. CASE UNCHANGED standing
        BY <1>5, <2>3, <4>1
      <4>2. CASE registry[c.i].event_id = c.id /\ Registered(t)
        <5>1. c.i \in Slots /\ registry[c.i] \in Entry
          BY <1>1, <1>2, <2>3, RegistryLengths DEF Slots, Types
        <5>2. registry[c.i] = [event_id |-> c.id, handler |-> c.handler]
          BY <1>1, <2>3, <4>2, <5>1 DEF Match, Entry
        <5>3. standing' = standing \union {<<c.id, c.handler>>}
          BY <4>2 DEF Registered
        <5> QED
          BY <1>2, <2>3, <5>1, <5>2, <5>3 DEF StandingHolds
      <4> QED BY <2>3, <4>1, <4>2
    <3> QED
      BY <1>3, <2>3, <3>1, <3>2, <3>3, <3>4, AfterReturn
  <2> QED
    BY <1>6, <2>1, <2>2, <2>3 DEF RegisterDuplicate
<1>7. CASE RegisterFree(t)
  <2>0. c.pc = "free" /\ UNCHANGED <<registry, standing>>
    BY <1>7 DEF RegisterFree
  <2>1. CASE c.i > MaxHandlers /\ Return(t)
    <3>1. \A u \in Tasks : call'[u].op \notin {"register", "unregister"}
      BY <1>2, <1>3, <2>1, ReturnEffect
    <3> QED
      BY <1>3, <1>5, <2>0, <3>1, AfterReturn
  <2>2. CASE /\ ~(c.i > MaxHandlers) /\ Match(c.i, EVN_NO_ENTRY, NO_HANDLER)
             /\ Goto(t, "store_id", c.i)
    <3>1. /\ call'[t].op = "register" /\ call'[t].pc = "store_id"
          /\ call'[t].i = c.i
          /\ call'[t].id = c.id /\ call'[t].handler = c.handler
          /\ \A u \in Tasks \ {t} : call'[u] = call[u]
      BY <1>1, <1>2, <2>2, GotoEffect DEF CallPcs
    <3>2. c.i \in Slots
      BY <1>1, <2>2, RegistryLengths DEF Slots
    <3>3. registry[c.i].event_id = EVN_NO_ENTRY /\ registry[c.i].handler = NO_HANDLER
      BY <1>3, <2>2, <3>2, RegistryIds DEF Match
    <3>4. \A s \in Slots : ~Match(s, call[t].id, call[t].handler)'
      BY <1>4, <2>0, <3>1 DEF Match
    <3> QED
      BY <1>3, <1>5, <2>0, <3>1, <3>3, <3>4, AfterRegister
  <2>3. CASE ~(c.i > MaxHandlers) /\ Goto(t, "free", c.i + 1)
    <3>0. c.i + 1 \in 1 .. MaxHandlers + 1
      BY <1>1, <2>3, RegistryLengths
    <3>1. /\ call'[t].op = "register" /\ call'[t].pc = "free"
          /\ call'[t].id = c.id /\ call'[t].handler = c.handler
          /\ \A u \in Tasks \ {t} : call'[u] = call[u]
      BY <1>1, <1>2, <2>3, <3>0, GotoEffect DEF CallPcs
    <3>4. \A s \in Slots : ~Match(s, call[t].id, call[t].handler)'
      BY <1>4, <2>0, <3>1 DEF Match
    <3> QED
      BY <1>3, <1>5, <2>0, <3>1, <3>4, AfterRegister
  <2> QED
    BY <1>7, <2>1, <2>2, <2>3 DEF RegisterFree
<1>8. CASE RegisterStoreId(t)
  <2>1. /\ c.pc = "store_id" /\ c.i \in Slots
        /\ registry' = [registry EXCEPT ![c.i].event_id = c.id]
        /\ Goto(t, "store_handler", c.i) /\ UNCHANGED standing
    BY <1>1, <1>8 DEF RegisterStoreId
  <2>2. /\ registry'[c.i].event_id = c.id
        /\ registry'[c.i].handler = NO_HANDLER
        /\ \A u \in Slots \ {c.i} : registry'[u] = registry[u]
    BY <1>1, <1>2, <1>4, <2>1, StoreIdEffect
  <2>3. /\ call'[t].op = "register" /\ call'[t].pc = "store_handler"
        /\ call'[t].i = c.i
        /\ call'[t].id = c.id /\ call'[t].handler = c.handler
        /\ \A u \in Tasks \ {t} : call'[u] = call[u]
    BY <1>1, <1>2, <2>1, GotoEffect DEF CallPcs
  <2>4. \A s \in Slots :
          /\ ~Match(s, call[t].id, call[t].handler)'
          /\ registry'[s].event_id = EVN_NO_ENTRY =>
               registry'[s].handler = NO_HANDLER
          /\ registry'[s].event_id # EVN_NO_ENTRY
             /\ registry'[s].handler # NO_HANDLER => Holds(s)' \in standing'
    <3>1. ASSUME NEW s \in Slots, s # c.i
          PROVE  /\ ~Match(s, call[t].id, call[t].handler)'
                 /\ Holds(s)' = Holds(s) /\ registry'[s] = registry[s]
      BY <1>4, <2>1, <2>2, <2>3, <3>1 DEF Match, Holds
    <3>2. ~Match(c.i, c.id, c.handler)' /\ registry'[c.i].handler = NO_HANDLER
      BY <1>1, <2>2, <2>3 DEF Match
    <3> QED
      BY <1>1, <1>3, <2>1, <2>2, <2>3, <3>1, <3>2 DEF Match
  <2>5. StandingHolds'
    <3>1. \A p \in standing : \E s \in Slots :
            registry'[s] = [event_id |-> p[1], handler |-> p[2]]
      <4>1. \A p \in standing : p[2] # NO_HANDLER
        BY <1>2, RegistryHandlers DEF Types, Pairs
      <4> QED
        BY <1>2, <1>4, <2>1, <2>2, <4>1 DEF StandingHolds
    <3>2. ASSUME NEW s \in Slots, NEW u \in Slots,
                 registry'[s] = registry'[u], registry'[s].handler # NO_HANDLER,
                 registry'[s].event_id # EVN_NO_ENTRY
          PROVE  s = u
      <4>1. s # c.i /\ u # c.i
        BY <2>2, <3>2
      <4> QED
        BY <1>2, <2>2, <3>2, <4>1 DEF StandingHolds
    <3> QED
      BY <2>1, <3>1, <3>2 DEF StandingHolds
  <2> QED
    BY <1>3, <2>2, <2>3, <2>4, <2>5, AfterRegister
<1>9. CASE RegisterStoreHandler(t)
  <2>1. /\ c.pc = "store_handler" /\ c.i \in Slots
        /\ registry' = [registry EXCEPT ![c.i].handler = c.handler]
        /\ Return(t) /\ standing' = standing \union {<<c.id, c.handler>>}
    BY <1>1, <1>9 DEF RegisterStoreHandler, Registered
  <2>2. /\ registry' \in [Slots -> Entry]
        /\ registry'[c.i].event_id = c.id
        /\ registry'[c.i].handler = c.handler
        /\ \A u \in Slots \ {c.i} : registry'[u] = registry[u]
    BY <1>1, <1>2, <1>4, <2>1, StoreHandlerEffect
  <2>3. \A u \in Tasks : call'[u].op \notin {"register", "unregister"}
    BY <1>2, <1>3, <2>1, ReturnEffect
  <2>4. \A s \in Slots :
          /\ registry'[s].event_id = EVN_NO_ENTRY =>
               registry'[s].handler = NO_HANDLER
          /\ registry'[s].event_id # EVN_NO_ENTRY
             /\ registry'[s].handler # NO_HANDLER => Holds(s)' \in standing'
    BY <1>1, <1>3, <2>1, <2>2 DEF Holds
  <2>5. registry'[c.i] = [event_id |-> c.id, handler |-> c.handler]
    BY <2>1, <2>2 DEF Entry
  <2>6. StandingHolds'
    <3>1. \A p \in standing : p[2] # NO_HANDLER
      BY <1>2, RegistryHandlers DEF Types, Pairs
    <3>2. \A p \in standing' : \E s \in Slots :
            registry'[s] = [event_id |-> p[1], handler |-> p[2]]
      BY <1>2, <1>4, <2>1, <2>2, <2>5, <3>1 DEF StandingHolds
    <3>3. \A s \in Slots \ {c.i} : registry'[s] # registry'[c.i]
      BY <1>4, <2>1, <2>2 DEF Match
    <3> QED
      BY <1>2, <2>2, <3>2, <3>3 DEF StandingHolds
  <2> QED
    BY <2>3, <2>4, <2>6, AfterReturn
<1> QED
  BY <1>6, <1>7, <1>8, <1>9

\* The steps of unregister_event_handler and unregister_event_id.
LEMMA UnregisterRegistry ==
  ASSUME TypeInv, NullInv, RegistryInv, NEW t \in Tasks,
         \/ UnregisterFind(t) \/ UnregisterClearId(t)
         \/ UnregisterClearHandler(t)
  PROVE  RegistryInv'
<1> DEFINE c == call[t]
<1>1. /\ c.op = "unregister" /\ c.i \in 1 .. MaxHandlers + 1
      /\ c.pc \in {"clear_id", "clear_handler"} => c.i \in Slots
  <2>1. c.op = "unregister"
    BY DEF UnregisterFind, UnregisterClearId, UnregisterClearHandler
  <2>2. c.i \in 1 .. MaxHandlers + 1
    BY DEF TypeInv, Types, CallRecords
  <2> QED
    BY <2>1, <2>2 DEF TypeInv, CallShape
<1>2. /\ Types /\ StandingHolds
      /\ \A s \in Slots : s \in Nat /\ s <= MaxHandlers
      /\ \A p \in standing : p[1] # EVN_NO_ENTRY /\ p[2] # NO_HANDLER
      /\ UNCHANGED standing
  <2>1. \A p \in standing : p[1] # EVN_NO_ENTRY /\ p[2] # NO_HANDLER
    BY RegistryIds, RegistryHandlers DEF TypeInv, Types, Pairs, Ids
  <2> QED
    BY <2>1, RegistryLengths
    DEF TypeInv, RegistryInv, Slots, UnregisterFind, UnregisterClearId,
      UnregisterClearHandler
<1>3. /\ \A u \in Tasks \ {t} : call[u].op \notin {"register", "unregister"}
      /\ \A s \in Slots :
           /\ registry[s].event_id = EVN_NO_ENTRY =>
                \/ registry[s].handler = NO_HANDLER
                \/ c.pc = "clear_handler" /\ c.i = s
           /\ registry[s].event_id # EVN_NO_ENTRY
              /\ registry[s].handler # NO_HANDLER =>
                \/ Holds(s) \in standing
                \/ c.i <= s /\ Removes(c, Holds(s))
  BY <1>1, WhileUnregistering DEF Writing
<1>4. /\ \A p \in standing : ~Removes(c, p)
      /\ c.pc = "clear_id" => Match(c.i, c.id, c.handler)
      /\ c.pc = "clear_handler" => registry[c.i].event_id = EVN_NO_ENTRY
  BY <1>1 DEF RegistryInv, WriterKnows
<1>5. ASSUME NEW p \in CallPcs, NEW n \in 1 .. MaxHandlers + 1, Goto(t, p, n)
      PROVE  /\ call'[t].op = "unregister" /\ call'[t].pc = p /\ call'[t].i = n
             /\ \A u \in Tasks \ {t} :
                  call'[u].op \notin {"register", "unregister"}
             /\ \A q : Removes(call[t], q)' <=> Removes(c, q)
             /\ \A q \in standing' : ~Removes(call[t], q)'
  <2>1. /\ call'[t].op = "unregister" /\ call'[t].pc = p /\ call'[t].i = n
        /\ call'[t].id = c.id /\ call'[t].handler = c.handler
        /\ \A u \in Tasks \ {t} : call'[u] = call[u]
    BY <1>1, <1>2, <1>5, GotoEffect
  <2> QED
    BY <1>2, <1>3, <1>4, <2>1 DEF Removes
<1>6. CASE UnregisterFind(t)
  <2>0. /\ c.pc = "find" /\ UNCHANGED <<registry, standing>>
        /\ \A s \in Slots : Holds(s)' = Holds(s)
    BY <1>6 DEF UnregisterFind, Holds
  <2>00. StandingHolds'
    BY <1>2, <2>0 DEF StandingHolds
  <2>1. CASE c.i > MaxHandlers /\ Return(t)
    <3>1. \A u \in Tasks : call'[u].op \notin {"register", "unregister"}
      BY <1>2, <1>3, <2>1, ReturnEffect
    <3>2. \A s \in Slots : ~(c.i <= s)
      BY <1>1, <1>2, <2>1, RegistryLengths
    <3> QED
      BY <1>3, <2>0, <2>00, <3>1, <3>2, AfterReturn
  <2>2. CASE /\ ~(c.i > MaxHandlers) /\ Match(c.i, c.id, c.handler)
             /\ Goto(t, "clear_id", c.i)
    <3>1. /\ call'[t].op = "unregister" /\ call'[t].pc = "clear_id"
          /\ call'[t].i = c.i
          /\ \A u \in Tasks \ {t} :
               call'[u].op \notin {"register", "unregister"}
          /\ \A q : Removes(call[t], q)' <=> Removes(c, q)
          /\ \A q \in standing' : ~Removes(call[t], q)'
      BY <1>1, <1>5, <2>2 DEF CallPcs
    <3>2. call'[t].id = c.id /\ call'[t].handler = c.handler
      BY <1>1, <1>2, <2>2, GotoEffect DEF CallPcs
    <3>3. Match(call[t].i, call[t].id, call[t].handler)'
      BY <2>0, <2>2, <3>1, <3>2 DEF Match
    <3>4. \A s \in Slots :
           /\ registry'[s].event_id = EVN_NO_ENTRY =>
                registry'[s].handler = NO_HANDLER
           /\ registry'[s].event_id # EVN_NO_ENTRY
              /\ registry'[s].handler # NO_HANDLER =>
                \/ Holds(s)' \in standing'
                \/ call'[t].i <= s /\ Removes(call[t], Holds(s))'
      <4>1. \A s \in Slots : Removes(call[t], Holds(s))' <=> Removes(c, Holds(s))
        BY <2>0, <3>2 DEF Removes
      <4> QED
        BY <1>3, <2>0, <3>1, <4>1
    <3> QED
      BY <2>00, <3>1, <3>3, <3>4, AfterUnregister
  <2>3. CASE /\ ~(c.i > MaxHandlers) /\ ~Match(c.i, c.id, c.handler)
             /\ Goto(t, "find", c.i + 1)
    <3>0. c.i + 1 \in 1 .. MaxHandlers + 1
      BY <1>1, <2>3, RegistryLengths
    <3>1. /\ call'[t].op = "unregister" /\ call'[t].pc = "find"
          /\ call'[t].i = c.i + 1
          /\ \A u \in Tasks \ {t} :
               call'[u].op \notin {"register", "unregister"}
          /\ \A q \in standing' : ~Removes(call[t], q)'
      BY <1>5, <2>3, <3>0 DEF CallPcs
    <3>2. call'[t].id = c.id /\ call'[t].handler = c.handler
      BY <1>1, <1>2, <2>3, <3>0, GotoEffect DEF CallPcs
    <3>4. \A s \in Slots :
           /\ registry'[s].event_id = EVN_NO_ENTRY =>
                registry'[s].handler = NO_HANDLER
           /\ registry'[s].event_id # EVN_NO_ENTRY
              /\ registry'[s].handler # NO_HANDLER =>
                \/ Holds(s)' \in standing'
                \/ call'[t].i <= s /\ Removes(call[t], Holds(s))'
      <4>1. \A s \in Slots : Removes(call[t], Holds(s))' <=> Removes(c, Holds(s))
        BY <2>0, <3>2 DEF Removes
      <4>2. \A s \in Slots : c.i <= s /\ Removes(c, Holds(s)) => c.i + 1 <= s
        BY <1>1, <1>2, <2>3, MatchIsRemoves
      <4> QED
        BY <1>3, <2>0, <3>1, <4>1, <4>2
    <3> QED
      BY <2>00, <3>1, <3>4, AfterUnregister
  <2> QED
    BY <1>6, <2>1, <2>2, <2>3 DEF UnregisterFind
<1>7. CASE UnregisterClearId(t)
  <2>1. /\ c.pc = "clear_id" /\ c.i \in Slots
        /\ registry' = [registry EXCEPT ![c.i].event_id = EVN_NO_ENTRY]
        /\ Goto(t, "clear_handler", c.i)
    BY <1>1, <1>7 DEF UnregisterClearId
  <2>2. /\ registry'[c.i].event_id = EVN_NO_ENTRY
        /\ \A u \in Slots \ {c.i} : registry'[u] = registry[u]
    BY <1>2, <2>1, StoreIdEffect
  <2>3. /\ call'[t].op = "unregister" /\ call'[t].pc = "clear_handler"
        /\ call'[t].i = c.i
        /\ \A u \in Tasks \ {t} : call'[u].op \notin {"register", "unregister"}
        /\ \A q \in standing' : ~Removes(call[t], q)'
    BY <1>1, <1>5, <2>1 DEF CallPcs
  <2>4. call'[t].id = c.id /\ call'[t].handler = c.handler
    BY <1>1, <1>2, <2>1, GotoEffect DEF CallPcs
  <2>5. \A s \in Slots :
           /\ registry'[s].event_id = EVN_NO_ENTRY =>
                \/ registry'[s].handler = NO_HANDLER
                \/ call'[t].pc = "clear_handler" /\ call'[t].i = s
           /\ registry'[s].event_id # EVN_NO_ENTRY
              /\ registry'[s].handler # NO_HANDLER =>
                \/ Holds(s)' \in standing'
                \/ call'[t].i <= s /\ Removes(call[t], Holds(s))'
    <3>1. ASSUME NEW s \in Slots, s # c.i
          PROVE  /\ registry'[s] = registry[s] /\ Holds(s)' = Holds(s)
                 /\ Removes(call[t], Holds(s))' <=> Removes(c, Holds(s))
      BY <2>2, <2>4, <3>1 DEF Holds, Removes
    <3> QED
      BY <1>2, <1>3, <2>1, <2>2, <2>3, <3>1
  <2>6. StandingHolds'
    <3>1. \A p \in standing : \E s \in Slots :
            registry'[s] = [event_id |-> p[1], handler |-> p[2]]
      <4>1. ASSUME NEW p \in standing, NEW s \in Slots,
                   registry[s] = [event_id |-> p[1], handler |-> p[2]]
            PROVE  s # c.i
        <5>1. Match(s, c.id, c.handler) <=> Removes(c, p)
          BY <4>1 DEF Match, Removes
        <5> QED
          BY <1>4, <2>1, <4>1, <5>1
      <4> QED
        BY <1>2, <2>2, <4>1 DEF StandingHolds
    <3>2. ASSUME NEW s \in Slots, NEW u \in Slots,
                 registry'[s] = registry'[u], registry'[s].handler # NO_HANDLER,
                 registry'[s].event_id # EVN_NO_ENTRY
          PROVE  s = u
      <4>1. s # c.i /\ u # c.i
        BY <2>2, <3>2
      <4> QED
        BY <1>2, <2>2, <3>2, <4>1 DEF StandingHolds
    <3> QED
      BY <1>2, <3>1, <3>2 DEF StandingHolds
  <2> QED
    BY <2>2, <2>3, <2>5, <2>6, AfterUnregister
<1>8. CASE UnregisterClearHandler(t)
  <2>1. /\ c.pc = "clear_handler" /\ c.i \in Slots
        /\ registry[c.i].event_id = EVN_NO_ENTRY
        /\ registry' = [registry EXCEPT ![c.i].handler = NO_HANDLER]
        /\ Goto(t, "find", c.i + 1)
        /\ c.i + 1 \in 1 .. MaxHandlers + 1
    BY <1>1, <1>4, <1>8, RegistryLengths DEF UnregisterClearHandler, Slots
  <2>2. /\ registry'[c.i].event_id = EVN_NO_ENTRY
        /\ registry'[c.i].handler = NO_HANDLER
        /\ \A u \in Slots \ {c.i} : registry'[u] = registry[u]
    BY <1>2, <2>1, StoreHandlerEffect
  <2>3. /\ call'[t].op = "unregister" /\ call'[t].pc = "find"
        /\ call'[t].i = c.i + 1
        /\ \A u \in Tasks \ {t} : call'[u].op \notin {"register", "unregister"}
        /\ \A q \in standing' : ~Removes(call[t], q)'
    BY <1>5, <2>1 DEF CallPcs
  <2>4. call'[t].id = c.id /\ call'[t].handler = c.handler
    BY <1>1, <1>2, <2>1, GotoEffect DEF CallPcs
  <2>5. \A s \in Slots :
           /\ registry'[s].event_id = EVN_NO_ENTRY =>
                registry'[s].handler = NO_HANDLER
           /\ registry'[s].event_id # EVN_NO_ENTRY
              /\ registry'[s].handler # NO_HANDLER =>
                \/ Holds(s)' \in standing'
                \/ call'[t].i <= s /\ Removes(call[t], Holds(s))'
    <3>1. ASSUME NEW s \in Slots, s # c.i
          PROVE  /\ registry'[s] = registry[s] /\ Holds(s)' = Holds(s)
                 /\ Removes(call[t], Holds(s))' <=> Removes(c, Holds(s))
                 /\ c.i <= s => c.i + 1 <= s
      BY <1>1, <1>2, <2>2, <2>4, <3>1 DEF Holds, Removes
    <3> QED
      BY <1>2, <1>3, <2>1, <2>2, <2>3, <3>1
  <2>6. StandingHolds'
    <3>1. \A p \in standing : \E s \in Slots :
            registry'[s] = [event_id |-> p[1], handler |-> p[2]]
      BY <1>2, <2>1, <2>2 DEF StandingHolds
    <3>2. ASSUME NEW s \in Slots, NEW u \in Slots,
                 registry'[s] = registry'[u], registry'[s].handler # NO_HANDLER,
                 registry'[s].event_id # EVN_NO_ENTRY
          PROVE  s = u
      <4>1. s # c.i /\ u # c.i
        BY <2>2, <3>2
      <4> QED
        BY <1>2, <2>2, <3>2, <4>1 DEF StandingHolds
    <3> QED
      BY <1>2, <3>1, <3>2 DEF StandingHolds
  <2> QED
    BY <2>3, <2>5, <2>6, AfterUnregister
<1> QED
  BY <1>6, <1>7, <1>8

LEMMA NextRegistry ==
  Serialised /\ TypeInv /\ NullInv /\ RegistryInv /\ [Next]_vars => RegistryInv'
<1> SUFFICES ASSUME Serialised, TypeInv, NullInv, RegistryInv, [Next]_vars
             PROVE  RegistryInv'
  OBVIOUS
<1>1. ASSUME NEW t \in Tasks, TaskStep(t) PROVE RegistryInv'
  <2>1. CASE SetEventSend(t) \/ SetEventTimeout(t)
    <3>1. /\ call[t].op = "set_event" /\ Return(t)
          /\ UNCHANGED <<registry, dispatch, standing>>
      BY <2>1 DEF SetEventSend, SetEventTimeout
    <3>2. dispatch.pc # "crashed"
      BY <3>1 DEF NullInv
    <3>3. call'[t].op = "none" /\ \A u \in Tasks \ {t} : call'[u] = call[u]
      BY <3>1, ReturnEffect DEF TypeInv
    <3> QED
      BY <3>1, <3>2, <3>3, RegistryQuiet DEF Writing
  <2> QED
    BY <1>1, <2>1, RegisterRegistry, UnregisterRegistry DEF TaskStep
<1>2. CASE Receive \/ ScanSlot \/ CheckHandler \/ CallHandler \/ HandlerReturns
  <2>1. dispatch.pc # "crashed" /\ UNCHANGED <<registry, call, standing>>
    BY <1>2 DEF Receive, ScanSlot, CheckHandler, CallHandler, HandlerReturns
  <2> QED
    BY <2>1, RegistryQuiet
<1>3. CASE CallNull
  <2>1. /\ UNCHANGED <<registry, standing>> /\ dispatch'.pc = "crashed"
        /\ \A u \in Tasks : call'[u].op = "none"
    BY <1>3, NoCallType DEF CallNull, Waiting
  <2> QED
    BY <2>1 DEF RegistryInv, OneWriter, Writing, WriterKnows, FreeIsEmpty,
      SlotsStand, StandingHolds
<1>4. CASE Restart
  <2>1. /\ registry' = EmptyRegistry /\ standing' = {}
        /\ \A u \in Tasks : call'[u].op = "none"
    BY <1>4 DEF Restart, NullInv
  <2>2. \A s \in Slots : /\ registry'[s].event_id = EVN_NO_ENTRY
                         /\ registry'[s].handler = NO_HANDLER
    BY <2>1 DEF EmptyRegistry
  <2>3. StandingHolds'
    BY <2>1, <2>2 DEF StandingHolds
  <2> QED
    BY <2>1, <2>2, <2>3, AfterReturn
<1>5. CASE UNCHANGED vars
  <2>1. UNCHANGED <<registry, dispatch, call, standing>>
    BY <1>5 DEF vars
  <2> QED
    BY <2>1, RegistryQuiet
<1> QED
  BY <1>1, <1>2, <1>3, <1>4, <1>5, BeginRegistry DEF Next, DispatchStep

LEMMA InitRegistry == Init => RegistryInv
<1> SUFFICES ASSUME Init PROVE RegistryInv
  OBVIOUS
<1>1. \A s \in Slots : /\ registry[s].event_id = EVN_NO_ENTRY
                       /\ registry[s].handler = NO_HANDLER
  BY DEF Init, EmptyRegistry
<1>2. standing = {} /\ \A u \in Tasks : call[u].op = "none"
  BY NoCallType DEF Init
<1> QED
  BY <1>1, <1>2 DEF RegistryInv, OneWriter, Writing, WriterKnows, FreeIsEmpty,
    SlotsStand, StandingHolds

LEMMA RegistryAlways == Serialised => (Spec => []RegistryInv)
<1> SUFFICES ASSUME Serialised PROVE Spec => []RegistryInv
  OBVIOUS
<1>1. TypeInv /\ NullInv /\ RegistryInv /\ [Next]_vars => RegistryInv'
  BY NextRegistry
<1> QED
  BY InitRegistry, TypesAlways, NullAlways, <1>1, PTL DEF Spec

\* A registration under EVN_ANY leans on one that stands: the task that searches
\* is the only writer, so what it finds is not about to be taken away.
LEMMA LeaningAlways == Serialised => (Spec => []LeaningInv)
<1> SUFFICES ASSUME Serialised PROVE Spec => []LeaningInv
  OBVIOUS
<1>1. Init => LeaningInv
  BY DEF Init, LeaningInv
<1>2. ASSUME TypeInv, NullInv, RegistryInv, LeaningInv, [Next]_vars
      PROVE  LeaningInv'
  <2>1. ASSUME NEW t \in Tasks, call[t].op = "register", call[t].i \in Slots,
               Match(call[t].i, call[t].id, call[t].handler)
        PROVE  <<registry[call[t].i].event_id, call[t].handler>> \in standing
    <3>1. call[t].handler \in Handlers /\ call[t].id # EVN_NO_ENTRY
      BY <1>2, <2>1, RegistryIds DEF TypeInv, CallShape, Ids
    <3>2. registry[call[t].i].handler = call[t].handler
      BY <2>1, <3>1, RegistryHandlers DEF Match
    <3>3. registry[call[t].i].event_id # EVN_NO_ENTRY
      BY <1>2, <2>1, <3>1, <3>2, RegistryHandlers, WhileRegistering
    <3> QED
      BY <1>2, <2>1, <3>1, <3>2, <3>3, RegistryHandlers, WhileRegistering
      DEF Holds
  <2> QED
    BY <1>2, <2>1, LeaningStep DEF LeaningInv
<1> QED
  BY <1>1, <1>2, TypesAlways, NullAlways, RegistryAlways, PTL DEF Spec

\* register_event_handler answers true only for what is in the registry, in one
\* slot, and it stays there until it is unregistered, if the tasks take turns at
\* registering and unregistering; handlers of the event task may do both too.
THEOREM RegistrationsHold == Serialised => (Spec => []RegistrationHolds)
<1> SUFFICES ASSUME Serialised PROVE Spec => []RegistrationHolds
  OBVIOUS
<1>1. RegistryInv /\ LeaningInv => RegistrationHolds
  BY DEF RegistryInv, StandingHolds, LeaningInv, RegistrationHolds
<1> QED
  BY <1>1, RegistryAlways, LeaningAlways, PTL

-----------------------------------------------------------------------------
(***************************************************************************)
(* What the calls do to the slots the event task has yet to look at.       *)
(***************************************************************************)

\* A step of a call changes one slot: the new pair appears by the store of the
\* handler, into a slot that had none; all the other stores only take away.
LEMMA SlotChanges ==
  ASSUME TypeInv, NullInv, RegistryInv, NEW t \in Tasks, TaskStep(t)
  PROVE  /\ standing \subseteq standing'
         /\ \/ UNCHANGED registry
            \/ \E k \in Slots :
                 /\ \A s \in Slots \ {k} : registry'[s] = registry[s]
                 /\ \/ /\ call[t].op = "register"
                       /\ registry[k].handler = NO_HANDLER
                       /\ registry[k].event_id = EVN_NO_ENTRY
                       /\ registry'[k].handler = NO_HANDLER
                    \/ /\ call[t].op = "register"
                       /\ registry[k].handler = NO_HANDLER
                       /\ registry'[k].event_id = registry[k].event_id
                       /\ registry'[k].event_id = call[t].id
                       /\ registry'[k].handler = call[t].handler
                       /\ <<call[t].id, call[t].handler>> \notin standing
                    \/ /\ call[t].op = "unregister"
                       /\ registry'[k].event_id = EVN_NO_ENTRY
                       /\ registry'[k].handler \in
                            {NO_HANDLER, registry[k].handler}
<1> DEFINE c == call[t]
<1>2. Types
  BY DEF TypeInv
<1>3. standing \subseteq standing'
  BY DEF TaskStep, RegisterDuplicate, RegisterFree, RegisterStoreId,
    RegisterStoreHandler, UnregisterFind, UnregisterClearId,
    UnregisterClearHandler, SetEventSend, SetEventTimeout, Registered
<1>4. CASE RegisterStoreId(t)
  <2>1. /\ c.op = "register" /\ c.pc = "store_id" /\ c.i \in Slots /\ c.id \in Ids
        /\ registry' = [registry EXCEPT ![c.i].event_id = c.id]
    BY <1>4 DEF RegisterStoreId, TypeInv, CallShape
  <2>2. /\ registry[c.i].event_id = EVN_NO_ENTRY
        /\ registry[c.i].handler = NO_HANDLER
    BY <2>1 DEF RegistryInv, WriterKnows
  <2>3. /\ registry'[c.i].handler = registry[c.i].handler
        /\ \A s \in Slots \ {c.i} : registry'[s] = registry[s]
    BY <1>2, <2>1, StoreIdEffect
  <2> QED
    BY <1>3, <2>1, <2>2, <2>3
<1>5. CASE RegisterStoreHandler(t)
  <2>1. /\ c.op = "register" /\ c.pc = "store_handler" /\ c.i \in Slots
        /\ c.id \in Ids /\ c.handler \in Handlers
        /\ registry' = [registry EXCEPT ![c.i].handler = c.handler]
    BY <1>5 DEF RegisterStoreHandler, TypeInv, CallShape
  <2>2. /\ registry[c.i].event_id = c.id
        /\ registry[c.i].handler = NO_HANDLER
        /\ \A s \in Slots : ~Match(s, c.id, c.handler)
    BY <2>1 DEF RegistryInv, WriterKnows
  <2>3. /\ registry'[c.i].event_id = registry[c.i].event_id
        /\ registry'[c.i].handler = c.handler
        /\ \A s \in Slots \ {c.i} : registry'[s] = registry[s]
    BY <1>2, <2>1, StoreHandlerEffect
  <2>4. <<c.id, c.handler>> \notin standing
    <3>1. <<c.id, c.handler>> \in standing => \E s \in Slots :
            registry[s] = [event_id |-> c.id, handler |-> c.handler]
      BY DEF RegistryInv, StandingHolds
    <3> QED
      BY <2>2, <3>1 DEF Match
  <2> QED
    BY <1>3, <2>1, <2>2, <2>3, <2>4
<1>6. CASE UnregisterClearId(t)
  <2>1. /\ c.op = "unregister" /\ c.pc = "clear_id" /\ c.i \in Slots
        /\ registry' = [registry EXCEPT ![c.i].event_id = EVN_NO_ENTRY]
    BY <1>6 DEF UnregisterClearId, TypeInv, CallShape
  <2>2. /\ registry'[c.i].event_id = EVN_NO_ENTRY
        /\ registry'[c.i].handler = registry[c.i].handler
        /\ \A s \in Slots \ {c.i} : registry'[s] = registry[s]
    BY <1>2, <2>1, StoreIdEffect
  <2> QED
    BY <1>3, <2>1, <2>2
<1>7. CASE UnregisterClearHandler(t)
  <2>1. /\ c.op = "unregister" /\ c.pc = "clear_handler" /\ c.i \in Slots
        /\ registry' = [registry EXCEPT ![c.i].handler = NO_HANDLER]
    BY <1>7 DEF UnregisterClearHandler, TypeInv, CallShape
  <2>2. registry[c.i].event_id = EVN_NO_ENTRY
    BY <2>1 DEF RegistryInv, WriterKnows
  <2>3. /\ registry'[c.i].event_id = registry[c.i].event_id
        /\ registry'[c.i].handler = NO_HANDLER
        /\ \A s \in Slots \ {c.i} : registry'[s] = registry[s]
    BY <1>2, <2>1, StoreHandlerEffect
  <2> QED
    BY <1>3, <2>1, <2>2, <2>3
<1> QED
  BY <1>3, <1>4, <1>5, <1>6, <1>7, TaskStores

\* What a call that begins means for the event in hand.
LEMMA BeginLeaves ==
  ASSUME TypeInv, NEW t \in Tasks, BeginCall(t)
  PROVE  /\ UNCHANGED <<registry, dispatch, served>>
         /\ due' \subseteq due /\ barred' \subseteq barred
         /\ \A h \in due' : <<dispatch.id, h>> \in standing
                             => <<dispatch.id, h>> \in standing'
         /\ foreign => foreign'
         /\ \A u \in Tasks : call'[u].op = "register" =>
              \/ call[u].op = "register" /\ call'[u].handler = call[u].handler
              \/ call'[u].handler \notin barred'
<1>1. Types
  BY DEF TypeInv
<1>2. ASSUME NEW id \in Ids, NEW h \in Handlers, BeginRegister(t, id, h)
      PROVE  /\ UNCHANGED <<registry, dispatch, served, standing, foreign, due>>
             /\ barred' = barred \ {h} /\ call'[t].handler = h
             /\ \A u \in Tasks \ {t} : call'[u] = call[u]
  BY <1>1, <1>2, BeginRegisterEffect DEF BeginRegister
<1>3. ASSUME NEW id \in Ids, NEW h \in Handlers \union {NO_HANDLER},
             BeginUnregister(t, id, h)
      PROVE  /\ UNCHANGED <<registry, dispatch, served, barred>>
             /\ due' = {g \in due : <<dispatch.id, g>> \in standing'}
             /\ foreign' = (foreign \/ (t # EvnTask /\ dispatch.pc # "receive"))
             /\ call'[t].op = "unregister"
             /\ \A u \in Tasks \ {t} : call'[u] = call[u]
  BY <1>1, <1>3, BeginUnregisterEffect DEF BeginUnregister
<1>4. ASSUME NEW id \in EventIds, BeginSetEvent(t, id)
      PROVE  /\ UNCHANGED <<registry, dispatch, served, standing, due, barred,
                            foreign>>
             /\ call'[t].op = "set_event"
             /\ \A u \in Tasks \ {t} : call'[u] = call[u]
  BY <1>1, <1>4, BeginSetEventEffect DEF BeginSetEvent
<1>5. EVN_ANY \in Ids
  BY DEF Ids
<1>6. CASE \E id \in Ids, h \in Handlers : BeginRegister(t, id, h)
  BY <1>2, <1>6
<1>7. CASE \E id \in Ids, h \in Handlers \union {NO_HANDLER} :
             BeginUnregister(t, id, h)
  <2>1. foreign => foreign'
    BY <1>3, <1>7, Zenon
  <2> QED
    BY <1>3, <1>7, <2>1
<1>8. CASE \E id \in EventIds : BeginSetEvent(t, id)
  BY <1>4, <1>8
<1> QED
  BY <1>5, <1>6, <1>7, <1>8 DEF BeginCall

-----------------------------------------------------------------------------
(***************************************************************************)
(* A handler that is not registered when the event is taken.               *)
(***************************************************************************)
LEMMA NextBarred ==
  Serialised /\ TypeInv /\ NullInv /\ RegistryInv /\ BarredInv /\ [Next]_vars
    => BarredInv'
<1> SUFFICES ASSUME Serialised, TypeInv, NullInv, RegistryInv, BarredInv,
                    [Next]_vars
             PROVE  BarredInv'
  OBVIOUS
<1>1. /\ Types /\ DispatchShape /\ NO_HANDLER \notin barred
      /\ dispatch \in Dispatches /\ EVN_NO_ENTRY \notin EventIds
      /\ EVN_ANY \notin EventIds /\ EVN_NO_ENTRY \notin Ids
  BY RegistryHandlers, RegistryIds DEF TypeInv, Types, Ids
<1>2. ASSUME NEW t \in Tasks, TaskStep(t) PROVE BarredInv'
  <2>1. UNCHANGED <<dispatch, barred, served>>
    BY <1>2, TaskEffect
  <2>2. \A u \in Tasks : call'[u].op = "register" => call'[u].handler \notin barred
    BY <1>2, TaskEffect DEF BarredInv
  <2>3. call[t].op = "register" => call[t].handler \notin barred
    BY DEF BarredInv
  <2>4. /\ InHand => \A s \in Slots :
             registry'[s].event_id = dispatch.id => registry'[s].handler \notin barred
        /\ dispatch.pc \in {"check", "call"} =>
             registry'[dispatch.i].handler \notin barred
    <3>1. CASE UNCHANGED registry
      BY <3>1 DEF BarredInv
    <3>2. CASE ~UNCHANGED registry
      <4>1. PICK k \in Slots :
              /\ \A s \in Slots \ {k} : registry'[s] = registry[s]
              /\ \/ registry'[k].handler = NO_HANDLER
                 \/ call[t].op = "register" /\ registry'[k].handler = call[t].handler
                 \/ /\ registry'[k].event_id = EVN_NO_ENTRY
                    /\ registry'[k].handler = registry[k].handler
        BY <1>2, <3>2, SlotChanges
      <4>2. registry'[k].event_id = EVN_NO_ENTRY \/ registry'[k].handler \notin barred
        BY <1>1, <2>3, <4>1
      <4>3. dispatch.pc \in {"check", "call"} => dispatch.i \in Slots
        BY <1>1 DEF DispatchShape
      <4> QED
        BY <1>1, <2>3, <4>1, <4>2, <4>3 DEF BarredInv, DispatchShape
    <3> QED BY <3>1, <3>2
  <2> QED
    BY <2>1, <2>2, <2>4 DEF BarredInv, InHand, UnregisterPreventsCall
<1>3. ASSUME NEW t \in Tasks, BeginCall(t) PROVE BarredInv'
  BY <1>3, BeginLeaves DEF BarredInv, InHand, UnregisterPreventsCall
<1>4. CASE Receive
  <2>1. /\ dispatch'.pc = "scan" /\ dispatch'.id = Head(evn_queue)
        /\ UNCHANGED <<registry, call>> /\ dispatch.pc = "receive"
    BY <1>4 DEF Receive, Waiting
  <2>2. served' = [h \in Handlers |-> 0] /\ barred' \subseteq Handlers
    BY <1>4 DEF Receive
  <2>3. Head(evn_queue) \in EventIds
    BY <1>1, <1>4 DEF Receive, Types
  <2>4. ASSUME NEW h \in barred'
        PROVE  /\ <<Head(evn_queue), h>> \notin standing
               /\ \A t \in Tasks : /\ call[t].op # "unregister"
                                   /\ call[t].op = "register" => call[t].handler # h
    BY <1>4, <2>4 DEF Receive
  <2>5. \A s \in Slots :
          registry[s].event_id = Head(evn_queue) => registry[s].handler \notin barred'
    <3> SUFFICES ASSUME NEW s \in Slots,
                        registry[s].event_id = Head(evn_queue),
                        registry[s].handler \in barred'
                 PROVE  FALSE
      OBVIOUS
    <3>1. registry[s].event_id # EVN_NO_ENTRY /\ registry[s].handler # NO_HANDLER
      BY <1>1, <2>2, <2>3, RegistryHandlers
    <3> QED
      BY <2>1, <2>4, <3>1 DEF RegistryInv, SlotsStand
  <2> QED
    BY <2>1, <2>2, <2>4, <2>5 DEF BarredInv, InHand, UnregisterPreventsCall
<1>5. CASE ScanSlot
  <2>1. UNCHANGED <<registry, call, barred, served>> /\ dispatch.pc = "scan"
    BY <1>5 DEF ScanSlot
  <2>2. \/ dispatch'.pc = "receive"
        \/ dispatch'.pc = "scan" /\ dispatch'.id = dispatch.id
        \/ /\ dispatch'.pc = "check" /\ dispatch'.id = dispatch.id
           /\ dispatch'.i = dispatch.i /\ ~(dispatch.i > MaxHandlers)
           /\ Match(dispatch.i, dispatch.id, NO_HANDLER)
    BY <1>1, <1>5 DEF ScanSlot, Waiting, Dispatches
  <2>3. dispatch.id # EVN_ANY
    BY <1>1, <2>1 DEF DispatchShape, InHand
  <2>4. ~(dispatch.i > MaxHandlers) => dispatch.i \in Slots
    BY <1>1, RegistryLengths DEF Dispatches, Slots
  <2> QED
    BY <2>1, <2>2, <2>3, <2>4 DEF BarredInv, InHand, UnregisterPreventsCall, Match
<1>6. CASE CheckHandler
  <2>1. UNCHANGED <<registry, call, barred, served>> /\ dispatch.pc = "check"
    BY <1>6 DEF CheckHandler
  <2>2. /\ dispatch'.id = dispatch.id
        /\ \/ dispatch'.pc = "scan"
           \/ /\ dispatch'.pc = "call" /\ dispatch'.i = dispatch.i
              /\ dispatch'.handler = registry[dispatch.i].handler
    BY <1>1, <1>6 DEF CheckHandler, Dispatches
  <2> QED
    BY <2>1, <2>2 DEF BarredInv, InHand, UnregisterPreventsCall
<1>7. CASE CallHandler
  <2>1. PICK h \in {dispatch.handler, registry[dispatch.i].handler} \ {NO_HANDLER} :
          /\ dispatch' = [dispatch EXCEPT !.handler = h, !.pc = "handler"]
          /\ served' = [served EXCEPT ![h] = IF @ < 2 THEN @ + 1 ELSE @]
    BY <1>7 DEF CallHandler
  <2>2. UNCHANGED <<registry, call, barred>> /\ dispatch.pc = "call"
    BY <1>7 DEF CallHandler
  <2>3. h \notin barred
    BY <2>1, <2>2 DEF BarredInv
  <2>4. dispatch'.pc = "handler" /\ dispatch'.id = dispatch.id
    BY <1>1, <2>1 DEF Dispatches
  <2>5. \A g \in barred : served'[g] = served[g]
    BY <1>1, <2>1, <2>3 DEF Types
  <2> QED
    BY <2>2, <2>4, <2>5 DEF BarredInv, InHand, UnregisterPreventsCall
<1>8. CASE CallNull
  <2>1. /\ UNCHANGED <<registry, barred, served>> /\ dispatch'.pc = "crashed"
        /\ \A u \in Tasks : call'[u].op = "none"
    BY <1>8, NoCallType DEF CallNull, Waiting
  <2> QED
    BY <2>1 DEF BarredInv, InHand, UnregisterPreventsCall
<1>9. CASE HandlerReturns
  <2>1. UNCHANGED <<registry, call, barred, served>> /\ dispatch.pc = "handler"
    BY <1>9 DEF HandlerReturns
  <2>2. dispatch'.pc = "scan" /\ dispatch'.id = dispatch.id
    BY <1>1, <1>9 DEF HandlerReturns, Dispatches
  <2> QED
    BY <2>1, <2>2 DEF BarredInv, InHand, UnregisterPreventsCall
<1>10. CASE Restart
  BY <1>10, WaitingType DEF Restart, BarredInv, InHand, UnregisterPreventsCall
<1>11. CASE UNCHANGED vars
  BY <1>11 DEF vars, BarredInv, InHand, UnregisterPreventsCall
<1> QED
  BY <1>2, <1>3, <1>4, <1>5, <1>6, <1>7, <1>8, <1>9, <1>10, <1>11
  DEF Next, DispatchStep

\* An event that event_manager_task takes from the queue after
\* unregister_event_handler or unregister_event_id has returned does not reach
\* the handler, if the tasks take turns at registering and unregistering.
THEOREM UnregisteredNotCalled == Serialised => (Spec => []UnregisterPreventsCall)
<1> SUFFICES ASSUME Serialised PROVE Spec => []UnregisterPreventsCall
  OBVIOUS
<1>1. Init => BarredInv
  BY WaitingType, NoCallType DEF Init, BarredInv, InHand, UnregisterPreventsCall
<1>2. TypeInv /\ NullInv /\ RegistryInv /\ BarredInv /\ [Next]_vars => BarredInv'
  BY NextBarred
<1>3. BarredInv => UnregisterPreventsCall
  BY DEF BarredInv
<1> QED
  BY <1>1, <1>2, <1>3, TypesAlways, NullAlways, RegistryAlways, PTL DEF Spec

-----------------------------------------------------------------------------
(***************************************************************************)
(* A handler that is registered from the taking of the event on.           *)
(***************************************************************************)

\* The slot of a pair that stands is the same before and after a step of a call.
LEMMA DueSlotOld ==
  ASSUME TypeInv, NullInv, RegistryInv, NEW t \in Tasks, TaskStep(t),
         NEW s \in Slots, NEW id \in EventIds, NEW h \in Handlers,
         <<id, h>> \in standing,
         registry'[s].event_id = id, registry'[s].handler = h
  PROVE  registry[s].event_id = id /\ registry[s].handler = h
<1>1. CASE UNCHANGED registry
  BY <1>1
<1>2. CASE ~UNCHANGED registry
  <2>1. PICK k \in Slots :
          /\ \A u \in Slots \ {k} : registry'[u] = registry[u]
          /\ \/ registry'[k].handler = NO_HANDLER
             \/ /\ registry'[k].event_id = call[t].id
                /\ registry'[k].handler = call[t].handler
                /\ <<call[t].id, call[t].handler>> \notin standing
             \/ registry'[k].event_id = EVN_NO_ENTRY
    BY <1>2, SlotChanges
  <2>2. id # EVN_NO_ENTRY /\ h # NO_HANDLER
    BY RegistryIds, RegistryHandlers
  <2>3. s # k
    BY <2>1, <2>2
  <2> QED
    BY <2>1, <2>3
<1> QED BY <1>1, <1>2

\* While only handlers unregister, the slot that is being called stays.
LEMMA CalledSlotStays ==
  ASSUME TypeInv, NullInv, RegistryInv, NEW t \in Tasks, TaskStep(t),
         ~foreign, dispatch.pc \in {"check", "call"},
         registry[dispatch.i].event_id = dispatch.id
  PROVE  /\ registry'[dispatch.i].event_id = dispatch.id
         /\ dispatch.pc = "call" =>
              registry'[dispatch.i].handler = registry[dispatch.i].handler
<1>1. /\ dispatch.i \in Slots /\ dispatch.id \in EventIds
      /\ dispatch.id # EVN_NO_ENTRY
      /\ dispatch.pc = "call" => registry[dispatch.i].handler # NO_HANDLER
  BY RegistryIds DEF TypeInv, DispatchShape, InHand, NullInv
<1>2. call[t].op # "unregister"
  BY DEF NullInv
<1>3. CASE UNCHANGED registry
  BY <1>3
<1>4. CASE ~UNCHANGED registry
  <2>1. PICK k \in Slots :
          /\ \A u \in Slots \ {k} : registry'[u] = registry[u]
          /\ registry[k].handler = NO_HANDLER
          /\ \/ registry[k].event_id = EVN_NO_ENTRY
             \/ registry'[k].event_id = registry[k].event_id
    BY <1>2, <1>4, SlotChanges
  <2> QED
    BY <1>1, <2>1
<1> QED BY <1>3, <1>4

LEMMA NextDue ==
  Serialised /\ TypeInv /\ NullInv /\ RegistryInv /\ DueInv /\ [Next]_vars
    => DueInv'
<1> SUFFICES ASSUME Serialised, TypeInv, NullInv, RegistryInv, DueInv,
                    [Next]_vars
             PROVE  DueInv'
  OBVIOUS
<1>1. /\ Types /\ DispatchShape /\ dispatch \in Dispatches
      /\ EVN_NO_ENTRY \notin EventIds /\ EVN_ANY \notin EventIds
      /\ dispatch.i \in 1 .. MaxHandlers + 1
      /\ \A s \in Slots : s \in Nat
  <2>1. Types /\ DispatchShape /\ dispatch \in Dispatches
    BY DEF TypeInv, Types
  <2>2. dispatch.i \in 1 .. MaxHandlers + 1
    BY <2>1 DEF Dispatches
  <2>3. \A s \in Slots : s \in Nat
    BY RegistryLengths DEF Slots
  <2>4. EVN_NO_ENTRY \notin EventIds /\ EVN_ANY \notin EventIds
    BY RegistryIds
  <2> QED
    BY <2>1, <2>2, <2>3, <2>4
<1>2. /\ InHand => dispatch.id \in EventIds
      /\ dispatch.pc \in {"check", "call", "handler"} => dispatch.i \in Slots
  BY <1>1 DEF DispatchShape
<1>3. ASSUME NEW t \in Tasks, TaskStep(t) PROVE DueInv'
  <2>1. UNCHANGED <<dispatch, due, served, foreign>> /\ InHand' = InHand
    BY <1>3, TaskEffect DEF InHand
  <2>2. InHand => \A h \in due : <<dispatch.id, h>> \in standing /\ h \in Handlers
    BY <1>1 DEF DueInv, Types
  <2>3. standing \subseteq standing'
    BY <1>3, SlotChanges
  <2>4. ~foreign /\ dispatch.pc \in {"check", "call"} =>
          /\ registry'[dispatch.i].event_id = dispatch.id
          /\ dispatch.pc = "call" => registry'[dispatch.i].handler = dispatch.handler
    BY <1>3, CalledSlotStays DEF DueInv
  <2>5. InHand => \A h \in due, s \in Slots :
          registry'[s].event_id = dispatch.id /\ registry'[s].handler = h =>
            registry[s].event_id = dispatch.id /\ registry[s].handler = h
    BY <1>2, <1>3, <2>2, DueSlotOld
  <2>6. ~foreign /\ InHand => \A h \in due, s \in Slots :
          (/\ registry'[s].event_id = dispatch.id /\ registry'[s].handler = h
           /\ s > dispatch.i \/ (s = dispatch.i /\ dispatch.pc # "handler"))
          => served[h] = 0
    BY <2>5 DEF DueInv
  <2> QED
    BY <2>1, <2>2, <2>3, <2>4, <2>6 DEF DueInv, ServedOnce
<1>4. ASSUME NEW t \in Tasks, BeginCall(t) PROVE DueInv'
  <2>1. UNCHANGED <<registry, dispatch, served>> /\ due' \subseteq due
    BY <1>4, BeginLeaves
  <2>2. InHand' = InHand
    BY <2>1 DEF InHand
  <2>3. InHand => \A h \in due' : <<dispatch.id, h>> \in standing'
    BY <1>4, <2>1, BeginLeaves DEF DueInv
  <2>4. ~foreign' => ~foreign
    BY <1>4, BeginLeaves
  <2> QED
    BY <2>1, <2>2, <2>3, <2>4 DEF DueInv, ServedOnce
<1>5. CASE Receive
  <2>1. /\ dispatch'.pc = "scan" /\ dispatch'.id = Head(evn_queue)
        /\ UNCHANGED <<registry, standing>>
        /\ due' = {h \in Handlers : <<Head(evn_queue), h>> \in standing}
    BY <1>5 DEF Receive, Waiting
  <2>2. \A h \in due' : served'[h] = 0
    BY <1>5, <2>1 DEF Receive
  <2> QED
    BY <2>1, <2>2 DEF DueInv, ServedOnce
<1>6. CASE ScanSlot
  <2>1. UNCHANGED <<registry, standing, due, served, foreign>> /\ dispatch.pc = "scan"
    BY <1>6 DEF ScanSlot
  <2>2. \/ dispatch'.pc = "receive"
        \/ /\ dispatch'.pc = "scan" /\ dispatch'.id = dispatch.id
           /\ dispatch'.i = dispatch.i + 1
        \/ /\ dispatch'.pc = "check" /\ dispatch'.id = dispatch.id
           /\ dispatch'.i = dispatch.i
           /\ Match(dispatch.i, dispatch.id, NO_HANDLER)
    BY <1>1, <1>6 DEF ScanSlot, Waiting, Dispatches
  <2>3. dispatch.id # EVN_ANY /\ InHand
    BY <1>1, <1>2, <2>1 DEF InHand
  <2>4. CASE dispatch'.pc = "receive"
    BY <2>1, <2>4 DEF DueInv, InHand, ServedOnce
  <2>5. CASE /\ dispatch'.pc = "scan" /\ dispatch'.id = dispatch.id
             /\ dispatch'.i = dispatch.i + 1
    <3>1. \A s \in Slots : s > dispatch'.i \/ s = dispatch'.i => s > dispatch.i
      BY <1>1, <2>5
    <3> QED
      BY <2>1, <2>3, <2>5, <3>1 DEF DueInv, ServedOnce
  <2>6. CASE /\ dispatch'.pc = "check" /\ dispatch'.id = dispatch.id
             /\ dispatch'.i = dispatch.i
             /\ Match(dispatch.i, dispatch.id, NO_HANDLER)
    <3>1. registry[dispatch.i].event_id = dispatch.id
      BY <2>3, <2>6 DEF Match
    <3> QED
      BY <2>1, <2>3, <2>6, <3>1 DEF DueInv, ServedOnce
  <2> QED BY <2>2, <2>4, <2>5, <2>6
<1>7. CASE CheckHandler
  <2>1. /\ UNCHANGED <<registry, standing, due, served, foreign>>
        /\ dispatch.pc = "check" /\ InHand
    BY <1>7 DEF CheckHandler, InHand
  <2>2. \/ /\ dispatch'.pc = "scan" /\ dispatch'.id = dispatch.id
           /\ dispatch'.i = dispatch.i + 1
        \/ /\ dispatch'.pc = "call" /\ dispatch'.id = dispatch.id
           /\ dispatch'.i = dispatch.i
           /\ dispatch'.handler = registry[dispatch.i].handler
    BY <1>1, <1>7 DEF CheckHandler, Dispatches
  <2>3. CASE /\ dispatch'.pc = "scan" /\ dispatch'.id = dispatch.id
             /\ dispatch'.i = dispatch.i + 1
    <3>1. \A s \in Slots : s > dispatch'.i \/ s = dispatch'.i => s > dispatch.i
      BY <1>1, <2>3
    <3> QED
      BY <2>1, <2>3, <3>1 DEF DueInv, ServedOnce
  <2>4. CASE /\ dispatch'.pc = "call" /\ dispatch'.id = dispatch.id
             /\ dispatch'.i = dispatch.i
             /\ dispatch'.handler = registry[dispatch.i].handler
    BY <2>1, <2>4 DEF DueInv, ServedOnce
  <2> QED BY <2>2, <2>3, <2>4
<1>8. CASE CallHandler
  <2>1. PICK h \in {dispatch.handler, registry[dispatch.i].handler} \ {NO_HANDLER} :
          /\ dispatch' = [dispatch EXCEPT !.handler = h, !.pc = "handler"]
          /\ served' = [served EXCEPT ![h] = IF @ < 2 THEN @ + 1 ELSE @]
    BY <1>8 DEF CallHandler
  <2>2. /\ UNCHANGED <<registry, standing, due, foreign>>
        /\ dispatch.pc = "call" /\ InHand
    BY <1>8 DEF CallHandler, InHand
  <2>3. /\ dispatch'.pc = "handler" /\ dispatch'.id = dispatch.id
        /\ dispatch'.i = dispatch.i
    BY <1>1, <2>1 DEF Dispatches
  <2>4. InHand => \A g \in due : <<dispatch.id, g>> \in standing
    BY DEF DueInv
  <2>5. ASSUME ~foreign
        PROVE  /\ registry[dispatch.i].event_id = dispatch.id
               /\ registry[dispatch.i].handler = h
               /\ h \in due => served[h] = 0
               /\ h # NO_HANDLER /\ dispatch.id # EVN_NO_ENTRY
    BY <1>1, <1>2, <2>1, <2>2, <2>5 DEF DueInv
  <2>6. ASSUME ~foreign, NEW s \in Slots, s > dispatch.i
        PROVE  ~(registry[s].event_id = dispatch.id /\ registry[s].handler = h)
    <3>1. dispatch.i \in Slots /\ registry[s] \in Entry /\ registry[dispatch.i] \in Entry
      BY <1>1, <1>2, <2>2 DEF Types
    <3>2. registry[s].event_id = dispatch.id /\ registry[s].handler = h =>
            registry[s] = registry[dispatch.i]
      BY <2>5, <2>6, <3>1 DEF Entry
    <3>3. s # dispatch.i
      BY <1>1, <2>6
    <3> QED
      BY <2>5, <2>6, <3>1, <3>2, <3>3 DEF RegistryInv, StandingHolds
  <2>7. \A g \in due : g # h => served'[g] = served[g]
    BY <1>1, <2>1 DEF Types
  <2>8. h \in due /\ served[h] = 0 => served'[h] = 1
    BY <1>1, <2>1 DEF Types
  <2>9. ~foreign => \A g \in due : served'[g] <= 1
    BY <2>5, <2>7, <2>8 DEF DueInv, ServedOnce
  <2>10. ~foreign => \A g \in due, s \in Slots :
           registry[s].event_id = dispatch.id /\ registry[s].handler = g
             /\ s > dispatch.i => served'[g] = 0
    BY <2>2, <2>6, <2>7 DEF DueInv
  <2> QED
    BY <2>2, <2>3, <2>4, <2>9, <2>10 DEF DueInv, ServedOnce
<1>9. CASE CallNull
  <2>1. UNCHANGED <<due, served, foreign>> /\ dispatch'.pc = "crashed"
    BY <1>9 DEF CallNull, Waiting
  <2> QED
    BY <2>1 DEF DueInv, InHand, ServedOnce
<1>10. CASE HandlerReturns
  <2>1. /\ UNCHANGED <<registry, standing, due, served, foreign>>
        /\ dispatch.pc = "handler" /\ InHand
    BY <1>10 DEF HandlerReturns, InHand
  <2>2. /\ dispatch'.pc = "scan" /\ dispatch'.id = dispatch.id
        /\ dispatch'.i = dispatch.i + 1
    BY <1>1, <1>10 DEF HandlerReturns, Dispatches
  <2>3. \A s \in Slots : s > dispatch'.i \/ s = dispatch'.i => s > dispatch.i
    BY <1>1, <2>2
  <2> QED
    BY <2>1, <2>2, <2>3 DEF DueInv, ServedOnce
<1>11. CASE Restart
  BY <1>11, WaitingType DEF Restart, DueInv, InHand, ServedOnce
<1>12. CASE UNCHANGED vars
  BY <1>12 DEF vars, DueInv, InHand, ServedOnce
<1> QED
  BY <1>3, <1>4, <1>5, <1>6, <1>7, <1>8, <1>9, <1>10, <1>11, <1>12
  DEF Next, DispatchStep

LEMMA DueAlways == Serialised => (Spec => []DueInv)
<1> SUFFICES ASSUME Serialised PROVE Spec => []DueInv
  OBVIOUS
<1>1. Init => DueInv
  BY WaitingType DEF Init, DueInv, InHand, ServedOnce
<1>2. TypeInv /\ NullInv /\ RegistryInv /\ DueInv /\ [Next]_vars => DueInv'
  BY NextDue
<1> QED
  BY <1>1, <1>2, TypesAlways, NullAlways, RegistryAlways, PTL DEF Spec

\* event_manager_task calls a handler that stays registered for the event in
\* hand at most once, whatever the handlers register and unregister while it
\* walks the registry, unless another task has been inside an unregister call.
THEOREM HandlersServedOnce == Serialised => (Spec => []ServedOnce)
<1> SUFFICES ASSUME Serialised PROVE Spec => []ServedOnce
  OBVIOUS
<1>1. DueInv => ServedOnce
  BY DEF DueInv
<1> QED
  BY <1>1, DueAlways, PTL

\* No slot that is behind the event task holds a handler that is due and was
\* not reached.
LEMMA NextReach ==
  Serialised /\ TypeInv /\ NullInv /\ RegistryInv /\ DueInv /\ ReachInv
    /\ [Next]_vars => ReachInv'
<1> SUFFICES ASSUME Serialised, TypeInv, NullInv, RegistryInv, DueInv, ReachInv,
                    [Next]_vars
             PROVE  ReachInv'
  OBVIOUS
<1>1. /\ Types /\ DispatchShape /\ dispatch \in Dispatches
      /\ EVN_NO_ENTRY \notin EventIds /\ NO_HANDLER \notin due
      /\ dispatch.i \in 1 .. MaxHandlers + 1
      /\ \A s \in Slots : s \in Nat /\ s >= 1 /\ s <= MaxHandlers
  <2>1. Types /\ DispatchShape /\ dispatch \in Dispatches
    BY DEF TypeInv, Types
  <2>2. dispatch.i \in 1 .. MaxHandlers + 1
    BY <2>1 DEF Dispatches
  <2>3. NO_HANDLER \notin due
    BY <2>1, RegistryHandlers DEF Types
  <2>4. \A s \in Slots : s \in Nat /\ s >= 1 /\ s <= MaxHandlers
    BY RegistryLengths DEF Slots
  <2>5. EVN_NO_ENTRY \notin EventIds
    BY RegistryIds
  <2> QED
    BY <2>1, <2>2, <2>3, <2>4, <2>5
<1>2. /\ InHand => dispatch.id \in EventIds
      /\ dispatch.pc \in {"check", "call", "handler"} => dispatch.i \in Slots
  BY <1>1 DEF DispatchShape
<1>3. ASSUME NEW t \in Tasks, TaskStep(t) PROVE ReachInv'
  <2>1. UNCHANGED <<dispatch, due, served>> /\ InHand' = InHand
    BY <1>3, TaskEffect DEF InHand
  <2>2. InHand => \A h \in due : <<dispatch.id, h>> \in standing /\ h \in Handlers
    BY <1>1 DEF DueInv, Types
  <2>3. InHand => \A h \in due, s \in Slots :
          registry'[s].event_id = dispatch.id /\ registry'[s].handler = h =>
            registry[s].event_id = dispatch.id /\ registry[s].handler = h
    BY <1>2, <1>3, <2>2, DueSlotOld
  <2> QED
    BY <2>1, <2>3 DEF ReachInv
<1>4. ASSUME NEW t \in Tasks, BeginCall(t) PROVE ReachInv'
  <2>1. UNCHANGED <<registry, dispatch, served>> /\ due' \subseteq due
    BY <1>4, BeginLeaves
  <2> QED
    BY <2>1 DEF ReachInv, InHand
<1>5. CASE Receive
  <2>1. dispatch'.pc = "scan" /\ dispatch'.i = 1
    BY <1>5 DEF Receive, Waiting
  <2>2. \A s \in Slots : ~(s < 1)
    BY <1>1
  <2> QED
    BY <2>1, <2>2 DEF ReachInv
<1>6. CASE ScanSlot
  <2>1. UNCHANGED <<registry, due, served>> /\ dispatch.pc = "scan"
    BY <1>6 DEF ScanSlot
  <2>2. \/ dispatch'.pc = "receive"
        \/ /\ dispatch'.pc = "scan" /\ dispatch'.id = dispatch.id
           /\ dispatch'.i = dispatch.i + 1
           /\ ~Match(dispatch.i, dispatch.id, NO_HANDLER)
        \/ /\ dispatch'.pc = "check" /\ dispatch'.id = dispatch.id
           /\ dispatch'.i = dispatch.i
    BY <1>1, <1>6 DEF ScanSlot, Waiting, Dispatches
  <2>3. CASE dispatch'.pc = "receive"
    BY <2>3 DEF ReachInv, InHand
  <2>4. CASE /\ dispatch'.pc = "scan" /\ dispatch'.id = dispatch.id
             /\ dispatch'.i = dispatch.i + 1
             /\ ~Match(dispatch.i, dispatch.id, NO_HANDLER)
    <3>1. \A s \in Slots : s < dispatch'.i => s < dispatch.i \/ s = dispatch.i
      BY <1>1, <2>4
    <3>2. registry[dispatch.i].event_id # dispatch.id
      BY <2>4 DEF Match
    <3> QED
      BY <2>1, <2>4, <3>1, <3>2 DEF ReachInv, InHand
  <2>5. CASE /\ dispatch'.pc = "check" /\ dispatch'.id = dispatch.id
             /\ dispatch'.i = dispatch.i
    BY <2>1, <2>5 DEF ReachInv, InHand
  <2> QED BY <2>2, <2>3, <2>4, <2>5
<1>7. CASE CheckHandler
  <2>1. UNCHANGED <<registry, due, served>> /\ dispatch.pc = "check"
    BY <1>7 DEF CheckHandler
  <2>2. \/ /\ dispatch'.pc = "scan" /\ dispatch'.id = dispatch.id
           /\ dispatch'.i = dispatch.i + 1
           /\ registry[dispatch.i].handler = NO_HANDLER
        \/ /\ dispatch'.pc = "call" /\ dispatch'.id = dispatch.id
           /\ dispatch'.i = dispatch.i
           /\ dispatch'.handler = registry[dispatch.i].handler
    BY <1>1, <1>7 DEF CheckHandler, Dispatches
  <2>3. CASE /\ dispatch'.pc = "scan" /\ dispatch'.id = dispatch.id
             /\ dispatch'.i = dispatch.i + 1
             /\ registry[dispatch.i].handler = NO_HANDLER
    <3>1. \A s \in Slots : s < dispatch'.i => s < dispatch.i \/ s = dispatch.i
      BY <1>1, <2>3
    <3> QED
      BY <1>1, <2>1, <2>3, <3>1 DEF ReachInv, InHand
  <2>4. CASE /\ dispatch'.pc = "call" /\ dispatch'.id = dispatch.id
             /\ dispatch'.i = dispatch.i
             /\ dispatch'.handler = registry[dispatch.i].handler
    BY <2>1, <2>4 DEF ReachInv, InHand
  <2> QED BY <2>2, <2>3, <2>4
<1>8. CASE CallHandler
  <2>1. PICK h \in {dispatch.handler, registry[dispatch.i].handler} \ {NO_HANDLER} :
          /\ dispatch' = [dispatch EXCEPT !.handler = h, !.pc = "handler"]
          /\ served' = [served EXCEPT ![h] = IF @ < 2 THEN @ + 1 ELSE @]
    BY <1>8 DEF CallHandler
  <2>2. UNCHANGED <<registry, due>> /\ dispatch.pc = "call" /\ InHand
    BY <1>8 DEF CallHandler, InHand
  <2>3. /\ dispatch'.pc = "handler" /\ dispatch'.id = dispatch.id
        /\ dispatch'.i = dispatch.i
    BY <1>1, <2>1 DEF Dispatches
  <2>4. \A g \in due : g # h => served'[g] = served[g]
    BY <1>1, <2>1 DEF Types
  <2>5. h \in due => served'[h] >= 1
    <3> SUFFICES ASSUME h \in due PROVE served'[h] >= 1
      OBVIOUS
    <3>1. h \in Handlers /\ served[h] \in 0 .. 2
      BY <1>1 DEF Types
    <3>2. served'[h] = IF served[h] < 2 THEN served[h] + 1 ELSE served[h]
      BY <1>1, <2>1, <3>1 DEF Types
    <3> QED BY <3>1, <3>2
  <2>6. ASSUME NEW g \in due, NEW s \in Slots,
               registry[s].event_id = dispatch.id, registry[s].handler = g,
               s < dispatch.i \/ s = dispatch.i
        PROVE  served'[g] >= 1
    <3>1. CASE g = h
      BY <2>5, <3>1
    <3>2. CASE g # h
      <4>1. s # dispatch.i
        BY <1>1, <1>2, <2>1, <2>2, <2>6, <3>2 DEF ReachInv
      <4>2. served[g] >= 1
        BY <2>2, <2>6, <4>1 DEF ReachInv
      <4> QED BY <2>4, <3>2, <4>2
    <3> QED BY <3>1, <3>2
  <2> QED
    BY <2>2, <2>3, <2>6 DEF ReachInv
<1>9. CASE CallNull
  BY <1>9 DEF CallNull, Waiting, ReachInv, InHand
<1>10. CASE HandlerReturns
  <2>1. UNCHANGED <<registry, due, served>> /\ dispatch.pc = "handler"
    BY <1>10 DEF HandlerReturns
  <2>2. /\ dispatch'.pc = "scan" /\ dispatch'.id = dispatch.id
        /\ dispatch'.i = dispatch.i + 1
    BY <1>1, <1>10 DEF HandlerReturns, Dispatches
  <2>3. \A s \in Slots : s < dispatch'.i => s < dispatch.i \/ s = dispatch.i
    BY <1>1, <2>2
  <2> QED
    BY <2>1, <2>2, <2>3 DEF ReachInv, InHand
<1>11. CASE Restart
  BY <1>11, WaitingType DEF Restart, ReachInv, InHand
<1>12. CASE UNCHANGED vars
  BY <1>12 DEF vars, ReachInv, InHand
<1> QED
  BY <1>3, <1>4, <1>5, <1>6, <1>7, <1>8, <1>9, <1>10, <1>11, <1>12
  DEF Next, DispatchStep

\* The walk of event_manager_task ends only at the end of the registry, and by
\* then each handler that was registered for the event since it was taken has
\* been called, whoever registered or unregistered others meanwhile.
THEOREM EveryHandlerReached == Serialised => (Spec => ServedAll)
<1> SUFFICES ASSUME Serialised PROVE Spec => ServedAll
  OBVIOUS
<1>1. Init => ReachInv
  BY WaitingType DEF Init, ReachInv, InHand
<1>2. TypeInv /\ NullInv /\ RegistryInv /\ DueInv /\ ReachInv /\ [Next]_vars
        => ReachInv'
  BY NextReach
<1>3. TypeInv /\ RegistryInv /\ DueInv /\ ReachInv /\ [Next]_vars =>
        [dispatch.pc = "scan" /\ dispatch'.pc = "receive" =>
           \A h \in due : served[h] >= 1]_vars
  <2> SUFFICES ASSUME TypeInv, RegistryInv, DueInv, ReachInv, [Next]_vars,
                      dispatch.pc = "scan", dispatch'.pc = "receive",
                      NEW h \in due
               PROVE  served[h] >= 1
    OBVIOUS
  <2>1. dispatch' # dispatch
    OBVIOUS
  <2>2. ScanSlot
    <3>1. ~\E t \in Tasks : BeginCall(t) \/ TaskStep(t)
      BY <2>1, BeginLeaves, TaskEffect
    <3> QED
      BY <2>1, <3>1 DEF Next, vars, DispatchStep, Restart, Receive, CheckHandler,
        CallHandler, CallNull, HandlerReturns
  <2>3. dispatch \in Dispatches
    BY DEF TypeInv, Types
  <2>4. dispatch.i > MaxHandlers
    BY <2>2, <2>3 DEF ScanSlot, Dispatches
  <2>5. <<dispatch.id, h>> \in standing
    BY DEF DueInv, InHand
  <2>6. PICK s \in Slots :
          registry[s] = [event_id |-> dispatch.id, handler |-> h]
    BY <2>5 DEF RegistryInv, StandingHolds
  <2>7. s < dispatch.i
    BY <2>3, <2>4, RegistryLengths DEF Slots, Dispatches
  <2> QED
    BY <2>6, <2>7 DEF ReachInv, InHand
<1> QED
  BY <1>1, <1>2, <1>3, TypesAlways, NullAlways, RegistryAlways, DueAlways, PTL
  DEF Spec, ServedAll

=============================================================================
