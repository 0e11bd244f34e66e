---------------------------- MODULE PeriodicEvents ----------------------------
(***************************************************************************)
(* The periodic events of components/event_manager/event_time_manager.c.   *)
(*                                                                         *)
(* Any task calls start_periodic_event and stop_periodic_event, which only *)
(* append a request to periodic_evn_queue.  The esp_timer task calls       *)
(* periodic_event_timer_handler once per millisecond: it drains the        *)
(* requests into periodic_evn_list (push_periodic_event), then walks over  *)
(* the list and posts every event whose delay has elapsed to evn_queue.    *)
(* The event task empties evn_queue (modelled in EventRegistry).           *)
(*                                                                         *)
(* The handler runs in a task, and tasks of the other core run with it, so *)
(* every queue operation of the handler is an action of its own.           *)
(***************************************************************************)
EXTENDS Integers, Sequences, FiniteSets

CONSTANTS
  EventIds,       \* identifiers clients use, EVN_NO_ENTRY not among them
  Ctxs,           \* the ctx pointers handed to start_periodic_event
  NullCtx,        \* NULL
  Delays,         \* periods in ticks of the timer
  Invokes,        \* numbers of calls asked for; a negative one is FOREVER
  ListLen,        \* PERIODIC_EVN_LIST_LEN
  NewQueueLen,    \* NEW_EVN_QUEUE_LEN
  EvnQueueLen,    \* EVN_QUEUE_LEN
  MsModulus       \* 2^32: ms_counter is an unsigned int

EVN_NO_ENTRY == 0
NO_CALL      == 0
FOREVER      == -1

ASSUME IdsAssumption ==
  EventIds \subseteq Nat \ {EVN_NO_ENTRY} /\ IsFiniteSet(EventIds)
ASSUME DelaysAssumption == Delays \subseteq Nat
ASSUME InvokesAssumption == Invokes \subseteq Int \ {NO_CALL}
ASSUME LengthsAssumption ==
  /\ ListLen \in Nat /\ NewQueueLen \in Nat \ {0} /\ EvnQueueLen \in Nat \ {0}
  /\ MsModulus \in Nat \ {0}
\* The list has a slot for every identifier: 50 slots, 17 identifiers.
ASSUME CapacityAssumption == Cardinality(EventIds) <= ListLen

VARIABLES
  periodic_evn_list,   \* the slots, in list order
  periodic_evn_queue,  \* requests that the timer has not taken yet
  evn_queue,           \* events for the event task
  timer,               \* where the timer handler is: its loop and its slot
  ms_counter,
  granted,  \* history: the last request the timer took for an identifier
  shots,    \* history: events posted (or lost) under that request, if limited
  waited    \* history: ticks since the request was taken or last came due

vars == <<periodic_evn_list, periodic_evn_queue, evn_queue, timer, ms_counter,
          granted, shots, waited>>

Slots == 1 .. ListLen

(***************************************************************************)
(* Records.                                                                *)
(***************************************************************************)
DevEvn == [event_id : EventIds, ctx : Ctxs \union {NullCtx}]

Request == [event_id : EventIds, ctx : Ctxs \union {NullCtx},
            delay : Delays \union {0}, invoke : Invokes \union {NO_CALL}]

PeriodicEvent ==
  [event_id : EventIds \union {EVN_NO_ENTRY}, ctx : Ctxs \union {NullCtx},
   invoke : Int, init_delay : Nat, delay : Nat]

\* Zero-initialised static storage.
EmptySlot == [event_id |-> EVN_NO_ENTRY, ctx |-> NullCtx, invoke |-> NO_CALL,
              init_delay |-> 0, delay |-> 0]

NoRequest(id) ==
  [event_id |-> id, ctx |-> NullCtx, delay |-> 0, invoke |-> NO_CALL]

Init ==
  /\ periodic_evn_list = [s \in Slots |-> EmptySlot]
  /\ periodic_evn_queue = <<>>
  /\ evn_queue = <<>>
  /\ timer = [pc |-> "idle", slot |-> 1]
  /\ ms_counter = 0
  /\ granted = [id \in EventIds |-> NoRequest(id)]
  /\ shots = [id \in EventIds |-> 0]
  /\ waited = [id \in EventIds |-> 0]

(***************************************************************************)
(* The calls of the clients.  A full periodic_evn_queue makes the call     *)
(* return false at once, and stop_periodic_event drops that result.        *)
(***************************************************************************)
SendRequest(r) ==
  /\ periodic_evn_queue' = IF Len(periodic_evn_queue) < NewQueueLen
                           THEN Append(periodic_evn_queue, r)
                           ELSE periodic_evn_queue
  /\ UNCHANGED <<periodic_evn_list, evn_queue, timer, ms_counter, granted,
                 shots, waited>>

StartPeriodicEvent(id, c, d, n) ==
  SendRequest([event_id |-> id, ctx |-> c, delay |-> d, invoke |-> n])

StopPeriodicEvent(id) == SendRequest(NoRequest(id))

(***************************************************************************)
(* push_periodic_event.                                                    *)
(***************************************************************************)
First(S) == CHOOSE s \in S : \A t \in S : s <= t

SlotsOf(id) == {s \in Slots : periodic_evn_list[s].event_id = id}
FreeSlots   == {s \in Slots : periodic_evn_list[s].invoke = NO_CALL}

\* Mutant of Candidates: the free slots come first.
CandidatesFreeFirst(id) == IF FreeSlots # {} THEN FreeSlots ELSE SlotsOf(id)

\* The slots the request may go to; the code takes the first of them.  An
\* identifier keeps its slot, any other takes a slot that makes no call.
Candidates(id) == IF SlotsOf(id) # {} THEN SlotsOf(id) ELSE FreeSlots

Armed(r) == [event_id |-> r.event_id, ctx |-> r.ctx, invoke |-> r.invoke,
             init_delay |-> r.delay, delay |-> r.delay]

\* With no candidate the request is dropped without a trace.
Push(r) ==
  periodic_evn_list' =
    IF Candidates(r.event_id) = {}
    THEN periodic_evn_list
    ELSE [periodic_evn_list EXCEPT ![First(Candidates(r.event_id))] = Armed(r)]

(***************************************************************************)
(* periodic_event_timer_handler.                                           *)
(***************************************************************************)
TickBegin ==
  /\ timer.pc = "idle"
  /\ timer' = [pc |-> "drain", slot |-> 1]
  /\ UNCHANGED <<periodic_evn_list, periodic_evn_queue, evn_queue, ms_counter,
                 granted, shots, waited>>

TickDrain ==
  /\ timer.pc = "drain"
  /\ periodic_evn_queue # <<>>
  /\ LET r == Head(periodic_evn_queue) IN
       /\ Push(r)
       /\ granted' = [granted EXCEPT ![r.event_id] = r]
       /\ shots' = [shots EXCEPT ![r.event_id] = 0]
       /\ waited' = [waited EXCEPT ![r.event_id] = 0]
  /\ periodic_evn_queue' = Tail(periodic_evn_queue)
  /\ UNCHANGED <<evn_queue, timer, ms_counter>>

TickDrained ==
  /\ timer.pc = "drain"
  /\ periodic_evn_queue = <<>>
  /\ timer' = [pc |-> "scan", slot |-> 1]
  /\ UNCHANGED <<periodic_evn_list, periodic_evn_queue, evn_queue, ms_counter,
                 granted, shots, waited>>

Active(slot) == slot.invoke # NO_CALL

\* A tick of an active slot: what is left of its delay, and whether it is due.
CountDown(slot) == IF slot.delay > 0 THEN slot.delay - 1 ELSE 0

Due(slot) == CountDown(slot) = 0

\* Mutants of Elapse: a call is counted at every tick; FOREVER is used up like
\* a single call.
ElapseCountsTicks(slot) ==
  LET n == IF slot.invoke > 0 THEN slot.invoke - 1 ELSE slot.invoke
      d == IF Due(slot) /\ n # NO_CALL THEN slot.init_delay ELSE CountDown(slot)
  IN  [slot EXCEPT !.invoke = n, !.delay = d]

ElapseForeverOnce(slot) ==
  LET n == IF Due(slot) THEN (IF slot.invoke > 0 THEN slot.invoke - 1 ELSE NO_CALL)
           ELSE slot.invoke
      d == IF Due(slot) /\ n # NO_CALL THEN slot.init_delay ELSE CountDown(slot)
  IN  [slot EXCEPT !.invoke = n, !.delay = d]

Elapse(slot) ==
  LET n == IF Due(slot) /\ slot.invoke > 0 THEN slot.invoke - 1 ELSE slot.invoke
      d == IF Due(slot) /\ n # NO_CALL THEN slot.init_delay ELSE CountDown(slot)
  IN  [slot EXCEPT !.invoke = n, !.delay = d]

\* xQueueSendFromISR does not wait: a full queue loses the event.
Post(slot) ==
  evn_queue' = IF Len(evn_queue) < EvnQueueLen
               THEN Append(evn_queue, [event_id |-> slot.event_id,
                                       ctx |-> slot.ctx])
               ELSE evn_queue

\* One turn of the loop over the list.
TickSlot ==
  /\ timer.pc = "scan"
  /\ timer.slot <= ListLen
  /\ timer' = [timer EXCEPT !.slot = @ + 1]
  /\ LET slot == periodic_evn_list[timer.slot]
         id   == slot.event_id
     IN  IF Active(slot)
         THEN /\ periodic_evn_list' =
                   [periodic_evn_list EXCEPT ![timer.slot] = Elapse(slot)]
              /\ IF Due(slot) THEN Post(slot) ELSE UNCHANGED evn_queue
              /\ shots' = [shots EXCEPT ![id] =
                             IF Due(slot) /\ granted[id].invoke > 0
                             THEN @ + 1 ELSE @]
              /\ waited' = [waited EXCEPT ![id] = IF Due(slot) THEN 0 ELSE @ + 1]
         ELSE UNCHANGED <<periodic_evn_list, evn_queue, shots, waited>>
  /\ UNCHANGED <<periodic_evn_queue, ms_counter, granted>>

TickEnd ==
  /\ timer.pc = "scan"
  /\ timer.slot > ListLen
  /\ timer' = [pc |-> "idle", slot |-> 1]
  /\ ms_counter' = (ms_counter + 1) % MsModulus
  /\ UNCHANGED <<periodic_evn_list, periodic_evn_queue, evn_queue, granted,
                 shots, waited>>

Tick == TickBegin \/ TickDrain \/ TickDrained \/ TickSlot \/ TickEnd

(***************************************************************************)
(* The event task takes the oldest event.                                  *)
(***************************************************************************)
ReceiveEvent ==
  /\ evn_queue # <<>>
  /\ evn_queue' = Tail(evn_queue)
  /\ UNCHANGED <<periodic_evn_list, periodic_evn_queue, timer, ms_counter,
                 granted, shots, waited>>

Client ==
  \E id \in EventIds :
    \/ \E c \in Ctxs, d \in Delays, n \in Invokes :
         StartPeriodicEvent(id, c, d, n)
    \/ StopPeriodicEvent(id)

Next == Client \/ Tick \/ ReceiveEvent

Spec == Init /\ [][Next]_vars

\* The hardware timer keeps ticking and the event task is never starved
\* for ever: it sleeps 10 ms between two events and blocks on the queue.
FairSpec == Spec /\ WF_vars(Tick) /\ WF_vars(ReceiveEvent)

(***************************************************************************)
(* Properties.                                                             *)
(***************************************************************************)

\* Every variable keeps its type; the queues keep their capacity.
TypeOK ==
  /\ periodic_evn_list \in [Slots -> PeriodicEvent]
  /\ periodic_evn_queue \in Seq(Request)
  /\ Len(periodic_evn_queue) <= NewQueueLen
  /\ evn_queue \in Seq(DevEvn)
  /\ Len(evn_queue) <= EvnQueueLen
  /\ timer \in [pc : {"idle", "drain", "scan"}, slot : 1 .. ListLen + 1]
  /\ ms_counter \in 0 .. MsModulus - 1
  /\ granted \in [EventIds -> Request]
  /\ \A id \in EventIds : granted[id].event_id = id
  /\ shots \in [EventIds -> Nat]
  /\ waited \in [EventIds -> Nat]

\* Two slots never hold the same event: push_periodic_event looks for the
\* event before it takes a free slot, whatever slots came free meanwhile.
OneSlotPerEvent ==
  \A s, t \in Slots :
    /\ periodic_evn_list[s].event_id = periodic_evn_list[t].event_id
    /\ periodic_evn_list[s].event_id # EVN_NO_ENTRY
    => s = t

\* push_periodic_event always finds a slot: no request that was accepted is
\* dropped by the "full task list" branch, also after any number of starts,
\* stops and expiries of other events.
RequestFindsSlot == \A id \in EventIds : Candidates(id) # {}

\* The number of calls an event has left, over all the slots.
Remaining(id) ==
  IF \E s \in SlotsOf(id) : Active(periodic_evn_list[s])
  THEN periodic_evn_list[CHOOSE s \in SlotsOf(id) :
                           Active(periodic_evn_list[s])].invoke
  ELSE NO_CALL

\* The last request the timer took decides alone: an event asked for n calls
\* has come due exactly n minus the calls left, a stopped event makes none,
\* and one asked for FOREVER never expires.
LastRequestGoverns ==
  \A id \in EventIds :
    Remaining(id) = IF granted[id].invoke > 0
                    THEN granted[id].invoke - shots[id]
                    ELSE granted[id].invoke

\* The timer handler finds the event due.
ComesDue(id) ==
  /\ TickSlot
  /\ periodic_evn_list[timer.slot].event_id = id
  /\ Active(periodic_evn_list[timer.slot])
  /\ Due(periodic_evn_list[timer.slot])

\* An event comes due exactly one period after the request or after the time
\* before, never early and never late in ticks (a period of 0 is one tick).
DueOnTime ==
  [][\A id \in EventIds :
       ComesDue(id) => waited[id] + 1 = IF granted[id].delay = 0 THEN 1 ELSE granted[id].delay
    ]_vars

\* A stop whose request was taken is final: nothing posts the event again
\* until another request for it is taken, whatever the timer was doing.
StoppedStaysQuiet ==
  [][\A id \in EventIds :
       /\ granted[id].invoke = NO_CALL
       /\ Len(evn_queue') > Len(evn_queue)
       => evn_queue'[Len(evn_queue')].event_id # id]_vars

\* Once the clients are quiet, an event asked for FOREVER comes due again and
\* again.  (A client that refills the queue as fast as the handler drains it
\* would hold the handler in its first loop.)
ForeverComesDue ==
  <>[][~Client]_vars =>
    \A id \in EventIds :
      <>[](granted[id].invoke < 0) => []<><<ComesDue(id)>>_vars

(***************************************************************************)
(* What the list promises: one timer per event, with no slots.             *)
(***************************************************************************)
TimerOf(id) ==
  IF \E s \in SlotsOf(id) : Active(periodic_evn_list[s])
  THEN LET slot == periodic_evn_list[CHOOSE s \in SlotsOf(id) :
                                       Active(periodic_evn_list[s])]
       IN  [ctx |-> slot.ctx, invoke |-> slot.invoke,
            init_delay |-> slot.init_delay, delay |-> slot.delay]
  ELSE [ctx |-> NullCtx, invoke |-> NO_CALL, init_delay |-> 0, delay |-> 0]

\* The events whose timers the scan of this tick has not reached.
Ahead == {id \in EventIds : timer.pc = "scan" /\
            \E s \in SlotsOf(id) : s >= timer.slot /\ Active(periodic_evn_list[s])}

Timers == INSTANCE PeriodicTimers
            WITH timers <- [id \in EventIds |-> TimerOf(id)],
                 requests <- periodic_evn_queue,
                 phase <- timer.pc,
                 todo <- Ahead

\* The slot list implements the map from events to timers: the order of the
\* slots, their reuse and their number cannot be observed.
ImplementsTimers == Timers!Spec
=============================================================================
