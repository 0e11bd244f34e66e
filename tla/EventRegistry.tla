----------------------------- MODULE EventRegistry -----------------------------
(***************************************************************************)
(* The handler registry and the event task of                              *)
(* components/event_manager/event_manager.c.                               *)
(*                                                                         *)
(* register_event_handler, unregister_event_handler, unregister_event_id   *)
(* and set_event are called by tasks of both cores and by the handlers,    *)
(* that is by the event task itself while it is inside a handler.  Nothing *)
(* locks event_handler_registry: every slot that get_event_entry examines  *)
(* and every store to a slot is a step of its own, the identifier and the  *)
(* handler of a slot being stored one after the other.                     *)
(***************************************************************************)
EXTENDS Integers, Sequences, FiniteSets

CONSTANTS
  EventIds,       \* identifiers of events (EVN_NO_ENTRY and EVN_ANY excluded)
  EVN_ANY,        \* the wildcard
  Handlers,       \* handler functions
  NO_HANDLER,     \* NULL
  MaxHandlers,    \* MAX_EVENT_HANDLERS
  EvnQueueLen,    \* EVN_QUEUE_LEN
  Registrars,     \* tasks that call register_event_handler
  Unregistrars,   \* tasks that call unregister_event_handler and _id
  Senders,        \* tasks that call set_event
  EvnTask,        \* the event task
  Serialised      \* whether the tasks never overlap two of these calls

EVN_NO_ENTRY == 0

ASSUME RegistryIds ==
  EventIds \subseteq Nat \ {EVN_NO_ENTRY} /\ EVN_ANY \in Nat \ {EVN_NO_ENTRY}
    /\ EVN_ANY \notin EventIds
ASSUME RegistryHandlers == NO_HANDLER \notin Handlers
ASSUME RegistryLengths ==
  /\ MaxHandlers \in Nat /\ EvnQueueLen \in Nat \ {0}
  /\ Serialised \in BOOLEAN

VARIABLES
  registry,   \* event_handler_registry
  evn_queue,  \* identifiers of the events sent
  call,       \* the call each task is in, with its local variables
  dispatch,   \* the local variables of event_manager_task
  standing,   \* history: pairs whose registration returned true, not removed
  leaning,    \* history: pairs another registration of the same handler, one
              \* under EVN_ANY, was answered true for and that stand for both
  due,        \* history: handlers the event in hand must reach
  barred,     \* history: handlers the event in hand must not reach
  served,     \* history: how often the event in hand has reached each handler,
              \* 2 standing for more than once
  foreign     \* history: another task than the event task has been inside an
              \* unregister call since the event in hand was taken

vars == <<registry, evn_queue, call, dispatch, standing, due, barred, served,
          foreign, leaning>>

Tasks == Registrars \union Unregistrars \union Senders
Slots == 1 .. MaxHandlers
Ids   == EventIds \union {EVN_ANY}
Pairs == Ids \X Handlers

NoCall == [op |-> "none", pc |-> "none", id |-> EVN_NO_ENTRY,
           handler |-> NO_HANDLER, i |-> 1]

Waiting == [pc |-> "receive", id |-> EVN_NO_ENTRY, i |-> 1,
            handler |-> NO_HANDLER]

\* reset_event_list
EmptyRegistry ==
  [s \in Slots |-> [event_id |-> EVN_NO_ENTRY, handler |-> NO_HANDLER]]

Init ==
  /\ registry = EmptyRegistry
  /\ evn_queue = <<>>
  /\ call = [t \in Tasks |-> NoCall]
  /\ dispatch = Waiting
  /\ standing = {}
  /\ due = {}
  /\ barred = {}
  /\ served = [h \in Handlers |-> 0]
  /\ foreign = FALSE
  /\ leaning = {}

\* Mutant of Match: either of the two comparisons is enough.
MatchEither(s, id, h) ==
  \/ id = EVN_ANY \/ registry[s].event_id = id
  \/ h = NO_HANDLER \/ registry[s].handler = h

(***************************************************************************)
(* get_event_entry, one slot.  ANY_HANDLER is NULL.                        *)
(***************************************************************************)
Match(s, id, h) ==
  /\ id = EVN_ANY \/ registry[s].event_id = id
  /\ h = NO_HANDLER \/ registry[s].handler = h

\* A task may make a call; the event task does so from within a handler.
MayCall(t) ==
  /\ call[t].op = "none"
  /\ dispatch.pc # "crashed"
  /\ t = EvnTask => dispatch.pc = "handler"

Writing(t) == call[t].op \in {"register", "unregister"}

\* The registry has no lock; tasks may still take turns by their own design,
\* as at start-up, when one task registers everything.
MayWrite(t) == MayCall(t) /\ (Serialised => \A u \in Tasks : ~Writing(u))

Goto(t, pc, i) == call' = [call EXCEPT ![t].pc = pc, ![t].i = i]

Return(t) == call' = [call EXCEPT ![t] = NoCall]

(***************************************************************************)
(* register_event_handler                                                  *)
(***************************************************************************)
BeginRegister(t, id, h) ==
  /\ t \in Registrars /\ MayWrite(t)
  /\ call' = [call EXCEPT ![t] = [op |-> "register", pc |-> "duplicate",
                                  id |-> id, handler |-> h, i |-> 1]]
  /\ barred' = barred \ {h}
  /\ UNCHANGED <<registry, evn_queue, dispatch, standing, due, served,
                 foreign, leaning>>

\* The pair the caller may count on once its call has returned true.
Registered(t) ==
  standing' = standing \union {<<call[t].id, call[t].handler>>}

\* A registration under EVN_ANY finds any registration of the same handler, and
\* is answered true without being stored: it leans on the one it found.
Leans(t) ==
  leaning' = leaning \union {<<registry[call[t].i].event_id, call[t].handler>>}

\* The search for the pair; true is returned when it is there.
RegisterDuplicate(t) ==
  LET c == call[t] IN
  /\ c.op = "register" /\ c.pc = "duplicate"
  /\ IF c.i > MaxHandlers
     THEN Goto(t, "free", 1) /\ UNCHANGED <<standing, leaning>>
     ELSE IF Match(c.i, c.id, c.handler)
          THEN /\ Return(t)
               /\ IF registry[c.i].event_id = c.id
                  THEN Registered(t) /\ UNCHANGED leaning
                  ELSE Leans(t) /\ UNCHANGED standing
          ELSE Goto(t, "duplicate", c.i + 1) /\ UNCHANGED <<standing, leaning>>
  /\ UNCHANGED <<registry, evn_queue, dispatch, due, barred, served, foreign>>

\* Mutant of RegisterFree: a full registry is searched again and again.
RegisterFreeForever(t) ==
  LET c == call[t] IN
  /\ c.op = "register" /\ c.pc = "free"
  /\ IF c.i > MaxHandlers
     THEN Goto(t, "free", 1)
     ELSE IF Match(c.i, EVN_NO_ENTRY, NO_HANDLER)
          THEN Goto(t, "store_id", c.i)
          ELSE Goto(t, "free", c.i + 1)
  /\ UNCHANGED <<registry, evn_queue, dispatch, standing, due, barred, served,
                 foreign, leaning>>

\* The search for a free slot; false is returned when there is none.
RegisterFree(t) ==
  LET c == call[t] IN
  /\ c.op = "register" /\ c.pc = "free"
  /\ IF c.i > MaxHandlers
     THEN Return(t)
     ELSE IF Match(c.i, EVN_NO_ENTRY, NO_HANDLER)
          THEN Goto(t, "store_id", c.i)
          ELSE Goto(t, "free", c.i + 1)
  /\ UNCHANGED <<registry, evn_queue, dispatch, standing, due, barred, served,
                 foreign, leaning>>

RegisterStoreId(t) ==
  LET c == call[t] IN
  /\ c.op = "register" /\ c.pc = "store_id"
  /\ registry' = [registry EXCEPT ![c.i].event_id = c.id]
  /\ Goto(t, "store_handler", c.i)
  /\ UNCHANGED <<evn_queue, dispatch, standing, due, barred, served,
                 foreign, leaning>>

RegisterStoreHandler(t) ==
  LET c == call[t] IN
  /\ c.op = "register" /\ c.pc = "store_handler"
  /\ registry' = [registry EXCEPT ![c.i].handler = c.handler]
  /\ Return(t)
  /\ Registered(t)
  /\ UNCHANGED <<evn_queue, dispatch, due, barred, served, foreign, leaning>>

(***************************************************************************)
(* unregister_event_handler(h) is the call with EVN_ANY and h,             *)
(* unregister_event_id(id) the one with id and ANY_HANDLER.                *)
(***************************************************************************)
\* The registrations an unregister call takes away.
Covers(id, h, p) == id \in {EVN_ANY, p[1]} /\ h \in {NO_HANDLER, p[2]}

BeginUnregister(t, id, h) ==
  /\ t \in Unregistrars /\ MayWrite(t)
  /\ call' = [call EXCEPT ![t] = [op |-> "unregister", pc |-> "find",
                                  id |-> id, handler |-> h, i |-> 1]]
  /\ standing' = {p \in standing : ~Covers(id, h, p)}
  /\ leaning' = {p \in leaning : ~Covers(id, h, p)}
  /\ due' = {g \in due : <<dispatch.id, g>> \in standing'}
  /\ foreign' = (foreign \/ (t # EvnTask /\ dispatch.pc # "receive"))
  /\ UNCHANGED <<registry, evn_queue, dispatch, barred, served>>

UnregisterFind(t) ==
  LET c == call[t] IN
  /\ c.op = "unregister" /\ c.pc = "find"
  /\ IF c.i > MaxHandlers
     THEN Return(t)
     ELSE IF Match(c.i, c.id, c.handler)
          THEN Goto(t, "clear_id", c.i)
          ELSE Goto(t, "find", c.i + 1)
  /\ UNCHANGED <<registry, evn_queue, dispatch, standing, due, barred, served,
                 foreign, leaning>>

UnregisterClearId(t) ==
  LET c == call[t] IN
  /\ c.op = "unregister" /\ c.pc = "clear_id"
  /\ registry' = [registry EXCEPT ![c.i].event_id = EVN_NO_ENTRY]
  /\ Goto(t, "clear_handler", c.i)
  /\ UNCHANGED <<evn_queue, dispatch, standing, due, barred, served,
                 foreign, leaning>>

\* Mutant of UnregisterClearHandler: only the first match is cleared.
UnregisterFirstOnly(t) ==
  LET c == call[t] IN
  /\ c.op = "unregister" /\ c.pc = "clear_handler"
  /\ registry' = [registry EXCEPT ![c.i].handler = NO_HANDLER]
  /\ Return(t)
  /\ UNCHANGED <<evn_queue, dispatch, standing, due, barred, served,
                 foreign, leaning>>

UnregisterClearHandler(t) ==
  LET c == call[t] IN
  /\ c.op = "unregister" /\ c.pc = "clear_handler"
  /\ registry' = [registry EXCEPT ![c.i].handler = NO_HANDLER]
  /\ Goto(t, "find", c.i + 1)
  /\ UNCHANGED <<evn_queue, dispatch, standing, due, barred, served,
                 foreign, leaning>>

(***************************************************************************)
(* set_event waits for room for at most 100 ticks.                         *)
(***************************************************************************)
BeginSetEvent(t, id) ==
  /\ t \in Senders /\ MayCall(t)
  /\ call' = [call EXCEPT ![t] = [NoCall EXCEPT !.op = "set_event", !.id = id]]
  /\ UNCHANGED <<registry, evn_queue, dispatch, standing, due, barred, served,
                 foreign, leaning>>

SetEventSend(t) ==
  /\ call[t].op = "set_event"
  /\ Len(evn_queue) < EvnQueueLen
  /\ evn_queue' = Append(evn_queue, call[t].id)
  /\ Return(t)
  /\ UNCHANGED <<registry, dispatch, standing, due, barred, served,
                 foreign, leaning>>

\* The wait ran out and set_event returns false: the event is lost.
SetEventTimeout(t) ==
  /\ call[t].op = "set_event"
  /\ Len(evn_queue) = EvnQueueLen
  /\ Return(t)
  /\ UNCHANGED <<registry, evn_queue, dispatch, standing, due, barred, served,
                 foreign, leaning>>

(***************************************************************************)
(* event_manager_task                                                      *)
(***************************************************************************)
Receive ==
  /\ dispatch.pc = "receive"
  /\ evn_queue # <<>>
  /\ evn_queue' = Tail(evn_queue)
  /\ dispatch' = [Waiting EXCEPT !.pc = "scan", !.id = Head(evn_queue)]
  /\ due' = {h \in Handlers : <<Head(evn_queue), h>> \in standing}
  /\ barred' = {h \in Handlers :
                  /\ <<Head(evn_queue), h>> \notin standing
                  /\ \A t \in Tasks : /\ call[t].op # "unregister"
                                      /\ call[t].op = "register"
                                           => call[t].handler # h}
  /\ served' = [h \in Handlers |-> 0]
  /\ foreign' = \E t \in Tasks \ {EvnTask} : call[t].op = "unregister"
  /\ UNCHANGED <<registry, call, standing, leaning>>

\* Mutant of ScanSlot: the last slot is left out.
ScanSlotShort ==
  /\ dispatch.pc = "scan"
  /\ dispatch' = IF dispatch.i >= MaxHandlers
                 THEN Waiting
                 ELSE IF Match(dispatch.i, dispatch.id, NO_HANDLER)
                      THEN [dispatch EXCEPT !.pc = "check"]
                      ELSE [dispatch EXCEPT !.i = @ + 1]
  /\ UNCHANGED <<registry, evn_queue, call, standing, due, barred, served,
                 foreign, leaning>>

\* get_event_entry(&i, event_id, ANY_HANDLER), one slot.
ScanSlot ==
  /\ dispatch.pc = "scan"
  /\ dispatch' = IF dispatch.i > MaxHandlers
                 THEN Waiting
                 ELSE IF Match(dispatch.i, dispatch.id, NO_HANDLER)
                      THEN [dispatch EXCEPT !.pc = "check"]
                      ELSE [dispatch EXCEPT !.i = @ + 1]
  /\ UNCHANGED <<registry, evn_queue, call, standing, due, barred, served,
                 foreign, leaning>>

\* Mutant of CheckHandler: no test against NULL.
CheckNothing ==
  /\ dispatch.pc = "check"
  /\ dispatch' = [dispatch EXCEPT !.pc = "call",
                                  !.handler = registry[dispatch.i].handler]
  /\ UNCHANGED <<registry, evn_queue, call, standing, due, barred, served,
                 foreign, leaning>>

\* The load that is compared with NULL.
CheckHandler ==
  /\ dispatch.pc = "check"
  /\ dispatch' = IF registry[dispatch.i].handler = NO_HANDLER
                 THEN [dispatch EXCEPT !.pc = "scan", !.i = @ + 1]
                 ELSE [dispatch EXCEPT !.pc = "call",
                                       !.handler = registry[dispatch.i].handler]
  /\ UNCHANGED <<registry, evn_queue, call, standing, due, barred, served,
                 foreign, leaning>>

\* The call goes to the pointer that was checked or, as the field is not
\* volatile and may be loaded again, to what the slot holds by now.
CallHandler ==
  /\ dispatch.pc = "call"
  /\ \E h \in {dispatch.handler, registry[dispatch.i].handler} \ {NO_HANDLER} :
       /\ dispatch' = [dispatch EXCEPT !.handler = h, !.pc = "handler"]
       /\ served' = [served EXCEPT ![h] = IF @ < 2 THEN @ + 1 ELSE @]
  /\ UNCHANGED <<registry, evn_queue, call, standing, due, barred, foreign,
                 leaning>>

\* The second load finds NULL.  The call of NULL stops the program, and what
\* the tasks were doing is lost.
CallNull ==
  /\ dispatch.pc = "call"
  /\ registry[dispatch.i].handler = NO_HANDLER
  /\ dispatch' = [Waiting EXCEPT !.pc = "crashed"]
  /\ call' = [t \in Tasks |-> NoCall]
  /\ UNCHANGED <<registry, evn_queue, standing, due, barred, served,
                 foreign, leaning>>

\* Mutant of HandlerReturns: the walk looks at the same slot again.
HandlerReturnsStays ==
  /\ dispatch.pc = "handler"
  /\ EvnTask \in Tasks => call[EvnTask].op = "none"
  /\ dispatch' = [dispatch EXCEPT !.pc = "scan", !.handler = NO_HANDLER]
  /\ UNCHANGED <<registry, evn_queue, call, standing, due, barred, served,
                 foreign, leaning>>

HandlerReturns ==
  /\ dispatch.pc = "handler"
  /\ EvnTask \in Tasks => call[EvnTask].op = "none"
  /\ dispatch' = [dispatch EXCEPT !.pc = "scan", !.i = @ + 1,
                                  !.handler = NO_HANDLER]
  /\ UNCHANGED <<registry, evn_queue, call, standing, due, barred, served,
                 foreign, leaning>>

(***************************************************************************)
(* The specification.                                                      *)
(***************************************************************************)
BeginCall(t) ==
  \/ \E id \in Ids, h \in Handlers : BeginRegister(t, id, h)
  \/ \E h \in Handlers : BeginUnregister(t, EVN_ANY, h)
  \/ \E id \in Ids : BeginUnregister(t, id, NO_HANDLER)
  \/ \E id \in EventIds : BeginSetEvent(t, id)

TaskStep(t) ==
  \/ RegisterDuplicate(t) \/ RegisterFree(t)
  \/ RegisterStoreId(t) \/ RegisterStoreHandler(t)
  \/ UnregisterFind(t) \/ UnregisterClearId(t) \/ UnregisterClearHandler(t)
  \/ SetEventSend(t) \/ SetEventTimeout(t)

DispatchStep ==
  Receive \/ ScanSlot \/ CheckHandler \/ CallHandler \/ CallNull
    \/ HandlerReturns

\* Nothing runs after a crash until the panic handler has restarted the chip
\* and init_event_manager has emptied the registry.
Restart ==
  /\ dispatch.pc = "crashed"
  /\ registry' = EmptyRegistry
  /\ evn_queue' = <<>>
  /\ dispatch' = Waiting
  /\ standing' = {} /\ leaning' = {} /\ due' = {} /\ barred' = {}
  /\ served' = [h \in Handlers |-> 0]
  /\ foreign' = FALSE
  /\ UNCHANGED call

Next ==
  \/ DispatchStep
  \/ Restart
  \/ \E t \in Tasks : BeginCall(t) \/ TaskStep(t)

Spec == Init /\ [][Next]_vars

\* Every task gets processor time, and every handler returns in the end,
\* whatever calls it makes on the way (no handler of the program loops).
FairSpec ==
  /\ Spec
  /\ WF_vars(DispatchStep) /\ SF_vars(HandlerReturns)
  /\ \A t \in Tasks : WF_vars(TaskStep(t))

(***************************************************************************)
(* Properties.                                                             *)
(***************************************************************************)

\* Every variable keeps its type.
TypeOK ==
  /\ registry \in [Slots -> [event_id : Ids \union {EVN_NO_ENTRY},
                             handler : Handlers \union {NO_HANDLER}]]
  /\ evn_queue \in Seq(EventIds) /\ Len(evn_queue) <= EvnQueueLen
  /\ call \in [Tasks ->
       [op : {"none", "register", "unregister", "set_event"},
        pc : {"none", "duplicate", "free", "store_id", "store_handler",
              "find", "clear_id", "clear_handler"},
        id : Ids \union {EVN_NO_ENTRY},
        handler : Handlers \union {NO_HANDLER}, i : 1 .. MaxHandlers + 1]]
  /\ dispatch \in
       [pc : {"receive", "scan", "check", "call", "handler", "crashed"},
        id : EventIds \union {EVN_NO_ENTRY}, i : 1 .. MaxHandlers + 1,
        handler : Handlers \union {NO_HANDLER}]
  /\ standing \subseteq Pairs
  /\ due \subseteq Handlers /\ barred \subseteq Handlers
  /\ served \in [Handlers -> 0 .. 2]
  /\ foreign \in BOOLEAN
  /\ leaning \subseteq (Ids \union {EVN_NO_ENTRY}) \X Handlers

\* What register_event_handler answered true for is in the registry until it
\* is unregistered: no later store to the slot, by whatever call, loses it.
\* A registration under EVN_ANY that was answered true because the handler has
\* another registration is not stored: that other one is in the registry for
\* it, and unregister_event_id of the other one's event takes both away.  And no
\* pair of event and handler is ever in two slots.
RegistrationHolds ==
  /\ \A p \in standing \union leaning :
       \E s \in Slots : registry[s] = [event_id |-> p[1], handler |-> p[2]]
  /\ \A s, t \in Slots :
       registry[s] = registry[t] /\ registry[s].handler # NO_HANDLER
       /\ registry[s].event_id # EVN_NO_ENTRY => s = t

\* When the event task has gone through the registry, the event has reached
\* every handler that was registered for it all the time, whatever else was
\* registered and unregistered meanwhile.
ServedAll ==
  [][dispatch.pc = "scan" /\ dispatch'.pc = "receive" =>
       \A h \in due : served[h] >= 1]_vars

\* An event reaches no handler that was registered for it all the time twice,
\* whatever the handlers register and unregister while they run.  (A task that
\* unregisters while the event task is between the identifier and the handler
\* of a slot, and uses the slot for another handler, breaks this.)
ServedOnce == ~foreign => \A h \in due : served[h] <= 1

\* An event that is taken after unregister_event_handler (or _id) returned does
\* not reach the handler, wherever the event task was when it was called.
UnregisterPreventsCall == \A h \in barred : served[h] = 0

\* The test of the handler against NULL is enough as long as only handlers
\* unregister: NULL is then never called, even when another task is storing a
\* registration in the slot the event task looks at.
NoNullCall == dispatch.pc = "crashed" => foreign

\* Every call of the interface returns.
CallsReturn == \A t \in Tasks : (call[t].op # "none") ~> (call[t].op = "none")
=============================================================================
