------------------------- MODULE PeriodicEventsProofs -------------------------
(***************************************************************************)
(* Theorems about PeriodicEvents, for every number of events, slots and    *)
(* queue places.                                                           *)
(***************************************************************************)
EXTENDS PeriodicEvents, FiniteSetTheorems, WellFoundedInduction, TLAPS

(***************************************************************************)
(* Slots.                                                                  *)
(***************************************************************************)

\* push_periodic_event walks up the list: the slot it stops at is one of the
\* slots it looks for.
LEMMA FirstIsMember ==
  ASSUME NEW S, S \subseteq Slots, S # {}
  PROVE  First(S) \in S
<1>1. S \subseteq Nat
  BY LengthsAssumption DEF Slots
<1> DEFINE Less == {p \in Nat \X Nat : p[1] < p[2]}
<1>2. IsWellFoundedOn(Less, Nat)
  <2>1. OpToRel(<, Nat) = Less
    BY DEF OpToRel
  <2> QED BY <2>1, NatLessThanWellFounded
<1>3. \E x \in S : \A y \in S : ~ (<<y, x>> \in Less)
  <2> HIDE DEF Less
  <2> QED BY <1>1, <1>2, WFMin
<1>4. \E s \in S : \A t \in S : s <= t
  <2>1. ASSUME NEW a \in Nat, NEW b \in Nat, <<a, b>> \notin Less
        PROVE  b <= a
    BY <2>1
  <2> HIDE DEF Less
  <2> QED BY <1>1, <1>3, <2>1
<1> QED BY <1>4 DEF First

\* The candidates are slots of the list.
LEMMA CandidatesAreSlots ==
  ASSUME NEW id
  PROVE  Candidates(id) \subseteq Slots
BY DEF Candidates, SlotsOf, FreeSlots

\* An armed slot has the type of a slot.
LEMMA ArmedType ==
  ASSUME NEW r \in Request
  PROVE  Armed(r) \in PeriodicEvent
<1>1. ASSUME NEW x \in Delays \union {0} PROVE x \in Nat
  BY DelaysAssumption
<1>2. ASSUME NEW x \in Invokes \union {NO_CALL} PROVE x \in Int
  BY InvokesAssumption DEF NO_CALL
<1>3. /\ r.event_id \in EventIds /\ r.ctx \in Ctxs \union {NullCtx}
      /\ r.delay \in Delays \union {0} /\ r.invoke \in Invokes \union {NO_CALL}
  BY DEF Request
<1> QED BY <1>1, <1>2, <1>3 DEF Armed, PeriodicEvent

\* A tick of a slot keeps its type, its event, its context and its period.
LEMMA ElapseType ==
  ASSUME NEW slot \in PeriodicEvent
  PROVE  /\ Elapse(slot) \in PeriodicEvent
         /\ Elapse(slot).event_id = slot.event_id
         /\ Elapse(slot).init_delay = slot.init_delay
         /\ Elapse(slot).ctx = slot.ctx
<1>1. /\ slot.invoke \in Int /\ slot.init_delay \in Nat
      /\ CountDown(slot) \in Nat
  BY DEF PeriodicEvent, CountDown
<1> DEFINE n == IF Due(slot) /\ slot.invoke > 0 THEN slot.invoke - 1
                ELSE slot.invoke
           d == IF Due(slot) /\ n # NO_CALL THEN slot.init_delay
                ELSE CountDown(slot)
<1>2. n \in Int /\ d \in Nat
  BY <1>1
<1>3. Elapse(slot) = [slot EXCEPT !.invoke = n, !.delay = d]
  BY DEF Elapse
<1> HIDE DEF n, d
<1> QED BY <1>2, <1>3 DEF PeriodicEvent

\* Requests of the clients are requests.
LEMMA NoRequestType ==
  ASSUME NEW id \in EventIds
  PROVE  NoRequest(id) \in Request
BY DEF NoRequest, Request, NO_CALL

(***************************************************************************)
(* Type correctness.                                                       *)
(***************************************************************************)
LEMMA InitTypeOK == Init => TypeOK
BY LengthsAssumption, DelaysAssumption
   DEF Init, TypeOK, EmptySlot, PeriodicEvent, NoRequest, Request, NO_CALL,
       EVN_NO_ENTRY, Slots

LEMMA SendRequestTypeOK ==
  ASSUME TypeOK, NEW r \in Request, SendRequest(r)
  PROVE  TypeOK'
BY LengthsAssumption DEF TypeOK, SendRequest

LEMMA ClientTypeOK ==
  ASSUME TypeOK, Client
  PROVE  TypeOK'
<1>1. ASSUME NEW id \in EventIds, NEW c \in Ctxs, NEW d \in Delays,
             NEW n \in Invokes, StartPeriodicEvent(id, c, d, n)
      PROVE  TypeOK'
  BY <1>1, SendRequestTypeOK DEF StartPeriodicEvent, Request
<1>2. ASSUME NEW id \in EventIds, StopPeriodicEvent(id)
      PROVE  TypeOK'
  BY <1>2, SendRequestTypeOK, NoRequestType DEF StopPeriodicEvent
<1> QED BY <1>1, <1>2 DEF Client

LEMMA PushType ==
  ASSUME TypeOK, NEW r \in Request, Push(r)
  PROVE  periodic_evn_list' \in [Slots -> PeriodicEvent]
<1>1. CASE Candidates(r.event_id) = {}
  BY <1>1 DEF Push, TypeOK
<1>2. CASE Candidates(r.event_id) # {}
  BY <1>2, FirstIsMember, CandidatesAreSlots, ArmedType DEF Push, TypeOK
<1> QED BY <1>1, <1>2

LEMMA TickDrainTypeOK ==
  ASSUME TypeOK, TickDrain
  PROVE  TypeOK'
<1> DEFINE r == Head(periodic_evn_queue)
<1>1. /\ r \in Request
      /\ Tail(periodic_evn_queue) \in Seq(Request)
      /\ Len(Tail(periodic_evn_queue)) <= NewQueueLen
  BY LengthsAssumption DEF TypeOK, TickDrain
<1>2. periodic_evn_list' \in [Slots -> PeriodicEvent]
  BY <1>1, PushType DEF TickDrain
<1>3. r.event_id \in EventIds
  BY <1>1 DEF Request
<1> HIDE DEF r
<1>4. /\ granted' \in [EventIds -> Request]
      /\ \A id \in EventIds : granted'[id].event_id = id
  BY <1>1, <1>3 DEF TypeOK, TickDrain, r
<1>5. shots' \in [EventIds -> Nat] /\ waited' \in [EventIds -> Nat]
  BY <1>3, SMTT(30) DEF TypeOK, TickDrain, r
<1> QED BY <1>1, <1>2, <1>4, <1>5 DEF TypeOK, TickDrain

\* An active slot belongs to an event.  (The zeroed slots are inactive and
\* push_periodic_event stores an identifier before it activates a slot.)
ActiveHasEvent ==
  \A s \in Slots : Active(periodic_evn_list[s]) =>
                     periodic_evn_list[s].event_id \in EventIds

LEMMA TickSlotTypeOK ==
  ASSUME TypeOK, ActiveHasEvent, TickSlot
  PROVE  TypeOK'
<1> DEFINE s == timer.slot
           slot == periodic_evn_list[s]
<1>1. s \in Slots /\ slot \in PeriodicEvent
  BY LengthsAssumption DEF TypeOK, TickSlot, Slots
<1>2. timer' \in [pc : {"idle", "drain", "scan"}, slot : 1 .. ListLen + 1]
  <2>1. s + 1 \in 1 .. ListLen + 1
    BY <1>1, LengthsAssumption DEF Slots
  <2>2. timer' = [timer EXCEPT !.slot = s + 1]
    BY DEF TickSlot
  <2> QED BY <2>1, <2>2 DEF TypeOK
<1>3. CASE Active(slot)
  <2>1. slot.event_id \in EventIds
    BY <1>1, <1>3 DEF ActiveHasEvent
  <2>2. periodic_evn_list' \in [Slots -> PeriodicEvent]
    BY <1>1, <1>3, ElapseType DEF TypeOK, TickSlot
  <2>3. evn_queue' \in Seq(DevEvn) /\ Len(evn_queue') <= EvnQueueLen
    <3>1. [event_id |-> slot.event_id, ctx |-> slot.ctx] \in DevEvn
      BY <1>1, <2>1 DEF DevEvn, PeriodicEvent
    <3>2. CASE UNCHANGED evn_queue
      BY <3>2 DEF TypeOK
    <3>3. CASE Post(slot)
      BY <3>1, <3>3, LengthsAssumption DEF TypeOK, Post
    <3> QED BY <1>3, <3>2, <3>3 DEF TickSlot
  <2>4. shots' \in [EventIds -> Nat]
    <3>1. shots' = [shots EXCEPT ![slot.event_id] =
                      IF Due(slot) /\ granted[slot.event_id].invoke > 0
                      THEN @ + 1 ELSE @]
      BY <1>3 DEF TickSlot
    <3> QED BY <2>1, <3>1 DEF TypeOK
  <2>5. waited' \in [EventIds -> Nat]
    <3>1. waited' = [waited EXCEPT ![slot.event_id] =
                       IF Due(slot) THEN 0 ELSE @ + 1]
      BY <1>3 DEF TickSlot
    <3> QED BY <2>1, <3>1 DEF TypeOK
  <2> QED BY <1>2, <2>2, <2>3, <2>4, <2>5 DEF TypeOK, TickSlot
<1>4. CASE ~Active(slot)
  BY <1>2, <1>4 DEF TypeOK, TickSlot
<1> QED BY <1>3, <1>4

LEMMA NextTypeOK ==
  ASSUME TypeOK, ActiveHasEvent, [Next]_vars
  PROVE  TypeOK'
<1>1. CASE Client
  BY <1>1, ClientTypeOK
<1>2. CASE TickBegin
  BY <1>2, LengthsAssumption DEF TypeOK, TickBegin
<1>3. CASE TickDrain
  BY <1>3, TickDrainTypeOK
<1>4. CASE TickDrained
  BY <1>4, LengthsAssumption DEF TypeOK, TickDrained
<1>5. CASE TickSlot
  BY <1>5, TickSlotTypeOK
<1>6. CASE TickEnd
  BY <1>6, LengthsAssumption DEF TypeOK, TickEnd
<1>7. CASE ReceiveEvent
  BY <1>7, LengthsAssumption DEF TypeOK, ReceiveEvent
<1>8. CASE UNCHANGED vars
  BY <1>8 DEF TypeOK, vars
<1> QED BY <1>1, <1>2, <1>3, <1>4, <1>5, <1>6, <1>7, <1>8 DEF Next, Tick

(***************************************************************************)
(* One slot per event.                                                     *)
(***************************************************************************)

\* What push_periodic_event does to the list when it finds a slot.
LEMMA PushEffect ==
  ASSUME TypeOK, NEW r \in Request, Push(r), Candidates(r.event_id) # {}
  PROVE  \E k \in Candidates(r.event_id) :
           periodic_evn_list' = [periodic_evn_list EXCEPT ![k] = Armed(r)]
<1>1. First(Candidates(r.event_id)) \in Candidates(r.event_id)
  BY FirstIsMember, CandidatesAreSlots
<1> QED BY <1>1 DEF Push

\* What a turn of the scan does to the list.
LEMMA TickSlotEffect ==
  ASSUME TypeOK, TickSlot
  PROVE  LET slot == periodic_evn_list[timer.slot] IN
         /\ timer.slot \in Slots
         /\ slot \in PeriodicEvent
         /\ \/ /\ Active(slot)
               /\ periodic_evn_list' =
                    [periodic_evn_list EXCEPT ![timer.slot] = Elapse(slot)]
            \/ ~Active(slot) /\ UNCHANGED <<periodic_evn_list, shots, waited>>
<1>1. timer.slot \in Slots
  BY LengthsAssumption DEF TypeOK, TickSlot, Slots
<1> QED BY <1>1 DEF TypeOK, TickSlot

\* The steps that leave the list and its history alone.
LEMMA OtherStepsKeepList ==
  ASSUME [Next]_vars, ~TickDrain, ~TickSlot
  PROVE  UNCHANGED <<periodic_evn_list, granted, shots, waited>>
BY DEF Next, Client, Tick, TickBegin, TickDrained, TickEnd, ReceiveEvent,
       StartPeriodicEvent, StopPeriodicEvent, SendRequest, vars

LEMMA HeadIsRequest ==
  ASSUME TypeOK, TickDrain
  PROVE  /\ Head(periodic_evn_queue) \in Request
         /\ Head(periodic_evn_queue).event_id \in EventIds
<1>1. Head(periodic_evn_queue) \in Request
  BY DEF TypeOK, TickDrain
<1> QED BY <1>1 DEF Request

LEMMA NextActiveHasEvent ==
  ASSUME TypeOK, ActiveHasEvent, [Next]_vars
  PROVE  ActiveHasEvent'
<1>1. CASE TickDrain
  <2> DEFINE r == Head(periodic_evn_queue)
  <2>1. r \in Request /\ r.event_id \in EventIds /\ Push(r)
    BY <1>1, HeadIsRequest DEF TickDrain
  <2> HIDE DEF r
  <2>2. CASE Candidates(r.event_id) = {}
    BY <2>1, <2>2 DEF Push, ActiveHasEvent
  <2>3. CASE Candidates(r.event_id) # {}
    <3>1. PICK k \in Candidates(r.event_id) :
            periodic_evn_list' = [periodic_evn_list EXCEPT ![k] = Armed(r)]
      BY <2>1, <2>3, PushEffect
    <3>2. k \in Slots /\ Armed(r).event_id = r.event_id
      BY CandidatesAreSlots DEF Armed
    <3> QED BY <2>1, <3>1, <3>2 DEF ActiveHasEvent, TypeOK
  <2> QED BY <2>2, <2>3
<1>2. CASE TickSlot
  <2> DEFINE k == timer.slot
  <2>1. k \in Slots /\ periodic_evn_list[k] \in PeriodicEvent
    BY <1>2, TickSlotEffect
  <2>2. CASE ~Active(periodic_evn_list[k])
    BY <1>2, <2>2, TickSlotEffect DEF ActiveHasEvent
  <2>3. CASE Active(periodic_evn_list[k])
    <3>1. periodic_evn_list' =
            [periodic_evn_list EXCEPT ![k] = Elapse(periodic_evn_list[k])]
      BY <1>2, <2>3, TickSlotEffect
    <3>2. periodic_evn_list[k].event_id \in EventIds
      BY <2>1, <2>3 DEF ActiveHasEvent
    <3> QED BY <2>1, <3>1, <3>2, ElapseType DEF ActiveHasEvent, TypeOK
  <2> QED BY <2>2, <2>3
<1>3. CASE ~TickDrain /\ ~TickSlot
  BY <1>3, OtherStepsKeepList DEF ActiveHasEvent
<1> QED BY <1>1, <1>2, <1>3

LEMMA NextOneSlotPerEvent ==
  ASSUME TypeOK, OneSlotPerEvent, [Next]_vars
  PROVE  OneSlotPerEvent'
<1>1. CASE TickDrain
  <2> DEFINE r == Head(periodic_evn_queue)
  <2>1. r \in Request /\ r.event_id \in EventIds /\ Push(r)
    BY <1>1, HeadIsRequest DEF TickDrain
  <2> HIDE DEF r
  <2>2. CASE Candidates(r.event_id) = {}
    BY <2>1, <2>2 DEF Push, OneSlotPerEvent
  <2>3. CASE Candidates(r.event_id) # {}
    <3>1. PICK k \in Candidates(r.event_id) :
            periodic_evn_list' = [periodic_evn_list EXCEPT ![k] = Armed(r)]
      BY <2>1, <2>3, PushEffect
    <3>2. k \in Slots
      BY CandidatesAreSlots
    <3>3. \A s \in Slots : s # k => periodic_evn_list[s].event_id # r.event_id
      BY <3>1, <3>2, <2>1, IdsAssumption
         DEF Candidates, SlotsOf, FreeSlots, OneSlotPerEvent
    <3>4. \A s \in Slots : periodic_evn_list'[s].event_id =
            IF s = k THEN r.event_id ELSE periodic_evn_list[s].event_id
      BY <3>1, <3>2 DEF Armed, TypeOK
    <3> QED BY <3>2, <3>3, <3>4 DEF OneSlotPerEvent
  <2> QED BY <2>2, <2>3
<1>2. CASE TickSlot
  <2> DEFINE k == timer.slot
             slot == periodic_evn_list[k]
  <2>1. k \in Slots /\ slot \in PeriodicEvent
    BY <1>2, TickSlotEffect
  <2>2. \/ periodic_evn_list' = [periodic_evn_list EXCEPT ![k] = Elapse(slot)]
        \/ periodic_evn_list' = periodic_evn_list
    BY <1>2, TickSlotEffect
  <2>3. Elapse(slot).event_id = slot.event_id
    BY <2>1, ElapseType
  <2>4. DOMAIN periodic_evn_list = Slots
    BY DEF TypeOK
  <2> DEFINE e == Elapse(slot)
  <2> HIDE DEF e
  <2>5. \A s \in Slots : periodic_evn_list'[s].event_id =
                         periodic_evn_list[s].event_id
    <3>1. CASE periodic_evn_list' = periodic_evn_list
      BY <3>1
    <3>2. CASE periodic_evn_list' = [periodic_evn_list EXCEPT ![k] = e]
      <4>1. TAKE s \in Slots
      <4>2. CASE s = k
        BY <3>2, <4>2, <2>1, <2>3, <2>4 DEF e
      <4>3. CASE s # k
        BY <3>2, <4>3, <2>1, <2>4
      <4> QED BY <4>2, <4>3
    <3> QED BY <2>2, <3>1, <3>2 DEF e
  <2> QED BY <2>5 DEF OneSlotPerEvent
<1>3. CASE ~TickDrain /\ ~TickSlot
  BY <1>3, OtherStepsKeepList DEF OneSlotPerEvent
<1> QED BY <1>1, <1>2, <1>3

\* There are as many slots as events, so an event without a slot finds one
\* that makes no call: otherwise each slot would hold one of the other events.
LEMMA AlwaysACandidate ==
  ASSUME TypeOK, ActiveHasEvent, OneSlotPerEvent
  PROVE  RequestFindsSlot
<1> SUFFICES ASSUME NEW id \in EventIds, Candidates(id) = {}
             PROVE  FALSE
  BY DEF RequestFindsSlot
<1> DEFINE f == [s \in Slots |-> periodic_evn_list[s].event_id]
           Others == EventIds \ {id}
<1>1. \A s \in Slots : /\ periodic_evn_list[s].event_id # id
                       /\ Active(periodic_evn_list[s])
  BY DEF Candidates, SlotsOf, FreeSlots, Active
<1>2. f \in [Slots -> Others]
  BY <1>1 DEF ActiveHasEvent
<1>3. IsFiniteSet(Slots) /\ Cardinality(Slots) = ListLen
  BY FS_Interval, LengthsAssumption DEF Slots
<1>4. IsFiniteSet(Others) /\ Cardinality(Others) = Cardinality(EventIds) - 1
  BY FS_RemoveElement, IdsAssumption
<1>5. Cardinality(EventIds) \in Nat
  BY FS_CardinalityType, IdsAssumption
<1>6. Cardinality(Others) < Cardinality(Slots)
  BY <1>3, <1>4, <1>5, CapacityAssumption, LengthsAssumption
<1>7. PICK s, t \in Slots : s # t /\ f[s] = f[t]
  <2> HIDE DEF f, Others
  <2> QED BY <1>2, <1>3, <1>4, <1>6, FS_PigeonHole
<1>8. periodic_evn_list[s].event_id # EVN_NO_ENTRY
  BY <1>1, IdsAssumption DEF ActiveHasEvent
<1> QED BY <1>7, <1>8 DEF OneSlotPerEvent

(***************************************************************************)
(* The first three facts together.                                         *)
(***************************************************************************)
SlotInv == TypeOK /\ ActiveHasEvent /\ OneSlotPerEvent

LEMMA InitSlotInv == Init => SlotInv
<1> SUFFICES ASSUME Init PROVE SlotInv
  OBVIOUS
<1>1. TypeOK
  BY InitTypeOK
<1>2. ActiveHasEvent /\ OneSlotPerEvent
  BY DEF Init, ActiveHasEvent, OneSlotPerEvent, Active, EmptySlot
<1> QED BY <1>1, <1>2 DEF SlotInv

LEMMA SlotInvInvariant == Spec => []SlotInv
<1>1. SlotInv /\ [Next]_vars => SlotInv'
  BY NextTypeOK, NextActiveHasEvent, NextOneSlotPerEvent DEF SlotInv
<1> QED BY InitSlotInv, <1>1, PTL DEF Spec

\* Type correctness of the timer, its list and its queues.
THEOREM TypeCorrect == Spec => []TypeOK
<1>1. SlotInv => TypeOK
  BY DEF SlotInv
<1> QED BY SlotInvInvariant, <1>1, PTL

\* Whatever the clients ask for, no event is ever in two slots of
\* periodic_evn_list.
THEOREM OneSlotPerEventHolds == Spec => []OneSlotPerEvent
<1>1. SlotInv => OneSlotPerEvent
  BY DEF SlotInv
<1> QED BY SlotInvInvariant, <1>1, PTL

\* With no more events than slots, push_periodic_event never runs out of
\* slots, so an accepted request is never dropped.
THEOREM RequestAlwaysFindsSlot == Spec => []RequestFindsSlot
<1>1. SlotInv => RequestFindsSlot
  BY AlwaysACandidate DEF SlotInv
<1> QED BY SlotInvInvariant, <1>1, PTL

(***************************************************************************)
(* The last request governs.                                               *)
(***************************************************************************)

\* An active slot is what is left of the request that was taken last.
GrantedActive(id, slot) ==
  /\ slot.init_delay = granted[id].delay
  /\ waited[id] + slot.delay = granted[id].delay
  /\ slot.init_delay > 0 => slot.delay > 0
  /\ IF granted[id].invoke > 0
     THEN slot.invoke > 0 /\ slot.invoke = granted[id].invoke - shots[id]
     ELSE slot.invoke = granted[id].invoke

\* Without an active slot the request was a stop or has been used up.
GrantedOver(id) ==
  IF granted[id].invoke > 0 THEN shots[id] = granted[id].invoke
                            ELSE granted[id].invoke = NO_CALL

Inactive(id) ==
  \A s \in Slots : periodic_evn_list[s].event_id = id
                     => ~Active(periodic_evn_list[s])

GrantedInv ==
  \A id \in EventIds :
    /\ \A s \in Slots :
         periodic_evn_list[s].event_id = id /\ Active(periodic_evn_list[s])
           => GrantedActive(id, periodic_evn_list[s])
    /\ Inactive(id) => GrantedOver(id)

\* What a tick makes of an active slot.
LEMMA ElapseCases ==
  ASSUME NEW slot \in PeriodicEvent, Active(slot)
  PROVE  /\ ~Due(slot) => /\ slot.delay > 1
                          /\ Elapse(slot).invoke = slot.invoke
                          /\ Elapse(slot).delay = slot.delay - 1
         /\ Due(slot) =>
              /\ slot.delay \in {0, 1}
              /\ Elapse(slot).invoke = IF slot.invoke > 0 THEN slot.invoke - 1
                                       ELSE slot.invoke
              /\ Active(Elapse(slot)) => Elapse(slot).delay = slot.init_delay
<1>1. slot.invoke \in Int /\ slot.delay \in Nat /\ slot.init_delay \in Nat
  BY DEF PeriodicEvent
<1>2. ~Due(slot) => CountDown(slot) = slot.delay - 1 /\ slot.delay > 1
  BY <1>1 DEF Due, CountDown
<1>3. Due(slot) => slot.delay \in {0, 1}
  BY <1>1 DEF Due, CountDown
<1> DEFINE n == IF Due(slot) /\ slot.invoke > 0 THEN slot.invoke - 1
                ELSE slot.invoke
           d == IF Due(slot) /\ n # NO_CALL THEN slot.init_delay
                ELSE CountDown(slot)
<1>4. Elapse(slot) = [slot EXCEPT !.invoke = n, !.delay = d]
  BY DEF Elapse
<1>5. Elapse(slot).invoke = n /\ Elapse(slot).delay = d
  <2> HIDE DEF n, d
  <2> QED BY <1>4 DEF PeriodicEvent
<1> QED BY <1>2, <1>3, <1>5 DEF Active

LEMMA InvokeIsInt ==
  ASSUME NEW r \in Request
  PROVE  r.invoke \in Int /\ r.delay \in Nat
<1>1. ASSUME NEW x \in Delays \union {0} PROVE x \in Nat
  BY DelaysAssumption
<1>2. ASSUME NEW x \in Invokes \union {NO_CALL} PROVE x \in Int
  BY InvokesAssumption DEF NO_CALL
<1>3. r.delay \in Delays \union {0} /\ r.invoke \in Invokes \union {NO_CALL}
  BY DEF Request
<1> QED BY <1>1, <1>2, <1>3

LEMMA TickDrainGranted ==
  ASSUME SlotInv, SlotInv', GrantedInv, TickDrain
  PROVE  GrantedInv'
<1> DEFINE r == Head(periodic_evn_queue)
<1>1. r \in Request /\ r.event_id \in EventIds /\ Push(r)
  BY HeadIsRequest DEF TickDrain, SlotInv
<1>2. /\ granted' = [granted EXCEPT ![r.event_id] = r]
      /\ shots' = [shots EXCEPT ![r.event_id] = 0]
      /\ waited' = [waited EXCEPT ![r.event_id] = 0]
  BY DEF TickDrain
<1> HIDE DEF r
<1>3. PICK k \in Candidates(r.event_id) :
        periodic_evn_list' = [periodic_evn_list EXCEPT ![k] = Armed(r)]
  BY <1>1, PushEffect, AlwaysACandidate DEF SlotInv, RequestFindsSlot
<1>4. k \in Slots
  BY CandidatesAreSlots
<1>5. periodic_evn_list'[k] = Armed(r)
  BY <1>3, <1>4 DEF SlotInv, TypeOK
<1>6. \A s \in Slots : s # k => periodic_evn_list'[s] = periodic_evn_list[s]
  BY <1>3, <1>4 DEF SlotInv, TypeOK
<1>7. \A s \in Slots : periodic_evn_list'[s].event_id = r.event_id => s = k
  <2>1. periodic_evn_list'[k].event_id = r.event_id
    BY <1>5 DEF Armed
  <2>2. r.event_id # EVN_NO_ENTRY
    BY <1>1, IdsAssumption
  <2>3. OneSlotPerEvent'
    BY DEF SlotInv
  <2> QED BY <1>4, <2>1, <2>2, <2>3 DEF OneSlotPerEvent
<1> SUFFICES ASSUME NEW id \in EventIds
             PROVE  /\ \A s \in Slots :
                         periodic_evn_list'[s].event_id = id
                           /\ Active(periodic_evn_list'[s])
                           => GrantedActive(id, periodic_evn_list[s])'
                    /\ Inactive(id)' => GrantedOver(id)'
  BY DEF GrantedInv
<1>8. CASE id = r.event_id
  <2>1. granted'[id] = r /\ shots'[id] = 0 /\ waited'[id] = 0
    BY <1>1, <1>2, <1>8 DEF SlotInv, TypeOK
  <2>2. r.invoke \in Int /\ r.delay \in Nat
    BY <1>1, InvokeIsInt
  <2>3. Active(Armed(r)) => GrantedActive(id, periodic_evn_list[k])'
    BY <1>5, <2>1, <2>2 DEF GrantedActive, Armed, Active, NO_CALL
  <2>4. Inactive(id)' => GrantedOver(id)'
    BY <1>4, <1>5, <1>8, <2>1, <2>2
       DEF Inactive, GrantedOver, Armed, Active, NO_CALL
  <2> QED BY <1>5, <1>7, <1>8, <2>3, <2>4
<1>9. CASE id # r.event_id
  <2>1. granted'[id] = granted[id] /\ shots'[id] = shots[id]
        /\ waited'[id] = waited[id]
    BY <1>1, <1>2, <1>9 DEF SlotInv, TypeOK
  <2>2. periodic_evn_list'[k].event_id # id
    BY <1>5, <1>9 DEF Armed
  <2>3. periodic_evn_list[k].event_id = id => ~Active(periodic_evn_list[k])
    BY <1>3, <1>4, <1>9 DEF Candidates, SlotsOf, FreeSlots, Active
  <2>4. ASSUME NEW s \in Slots, periodic_evn_list'[s].event_id = id,
               Active(periodic_evn_list'[s])
        PROVE  GrantedActive(id, periodic_evn_list[s])'
    BY <1>6, <2>1, <2>2, <2>4 DEF GrantedInv, GrantedActive
  <2>5. Inactive(id)' => Inactive(id)
    BY <1>6, <2>3 DEF Inactive
  <2> QED BY <2>1, <2>4, <2>5 DEF GrantedInv, GrantedOver
<1> QED BY <1>8, <1>9

LEMMA TickSlotGranted ==
  ASSUME SlotInv, GrantedInv, TickSlot
  PROVE  GrantedInv'
<1>0. PICK k \in Slots, slot \in PeriodicEvent :
        k = timer.slot /\ slot = periodic_evn_list[k]
  BY TickSlotEffect DEF SlotInv
<1>1. TypeOK
  BY DEF SlotInv
<1>2. UNCHANGED granted
  BY DEF TickSlot
<1>3. CASE ~Active(slot)
  <2>1. UNCHANGED <<periodic_evn_list, shots, waited>>
    BY <1>0, <1>1, <1>3, TickSlotEffect
  <2> QED BY <1>2, <2>1 DEF GrantedInv, GrantedActive, GrantedOver, Inactive
<1>4. CASE Active(slot)
  <2>0. PICK e \in EventIds : e = slot.event_id
    BY <1>0, <1>4 DEF SlotInv, ActiveHasEvent
  <2>1. /\ periodic_evn_list' = [periodic_evn_list EXCEPT ![k] = Elapse(slot)]
        /\ shots' = [shots EXCEPT ![e] = IF Due(slot) /\ granted[e].invoke > 0
                                         THEN @ + 1 ELSE @]
        /\ waited' = [waited EXCEPT ![e] = IF Due(slot) THEN 0 ELSE @ + 1]
    BY <1>0, <1>4, <2>0 DEF TickSlot
  <2>2. e \in EventIds /\ e # EVN_NO_ENTRY
    BY IdsAssumption
  <2>3. \A s \in Slots : s # k => /\ periodic_evn_list[s].event_id # e
                                  /\ periodic_evn_list'[s] = periodic_evn_list[s]
    BY <1>0, <2>0, <2>1, <2>2 DEF SlotInv, OneSlotPerEvent, TypeOK
  <2>4. periodic_evn_list'[k] = Elapse(slot) /\ Elapse(slot).event_id = e
    BY <1>1, <2>0, <2>1, ElapseType DEF TypeOK
  <2>5. GrantedActive(e, slot)
    BY <1>0, <1>4, <2>0 DEF GrantedInv
  <2>6. /\ granted[e].invoke \in Int /\ granted[e].delay \in Nat
        /\ shots[e] \in Nat /\ waited[e] \in Nat
    BY <1>1, <2>2, InvokeIsInt DEF TypeOK
  <2>7. /\ slot.invoke \in Int /\ slot.delay \in Nat /\ slot.init_delay \in Nat
        /\ Elapse(slot).init_delay = slot.init_delay
    BY <1>1, ElapseType DEF PeriodicEvent
  <2>8. /\ shots'[e] = IF Due(slot) /\ granted[e].invoke > 0 THEN shots[e] + 1
                       ELSE shots[e]
        /\ waited'[e] = IF Due(slot) THEN 0 ELSE waited[e] + 1
    BY <1>1, <2>1, <2>2 DEF TypeOK
  <2>9. Active(Elapse(slot)) => GrantedActive(e, periodic_evn_list[k])'
    <3> SUFFICES ASSUME Active(Elapse(slot))
                 PROVE  GrantedActive(e, periodic_evn_list[k])'
      OBVIOUS
    <3>1. CASE Due(slot)
      BY <1>1, <1>2, <1>4, <2>4, <2>5, <2>6, <2>7, <2>8, <3>1, ElapseCases
         DEF GrantedActive, Active, NO_CALL
    <3>2. CASE ~Due(slot)
      BY <1>1, <1>2, <1>4, <2>4, <2>5, <2>6, <2>7, <2>8, <3>2, ElapseCases
         DEF GrantedActive, Active, NO_CALL
    <3> QED BY <3>1, <3>2
  <2>10. ~Active(Elapse(slot)) => GrantedOver(e)'
    <3> SUFFICES ASSUME ~Active(Elapse(slot))
                 PROVE  GrantedOver(e)'
      OBVIOUS
    <3>1. Due(slot) /\ slot.invoke = 1
      BY <1>1, <1>4, <2>7, ElapseCases DEF Active, NO_CALL
    <3> QED BY <1>2, <2>5, <2>6, <2>8, <3>1
            DEF GrantedActive, GrantedOver, NO_CALL
  <2> SUFFICES ASSUME NEW id \in EventIds
               PROVE  /\ \A s \in Slots :
                           periodic_evn_list'[s].event_id = id
                             /\ Active(periodic_evn_list'[s])
                             => GrantedActive(id, periodic_evn_list[s])'
                      /\ Inactive(id)' => GrantedOver(id)'
    BY DEF GrantedInv
  <2>11. CASE id = e
    BY <1>1, <2>3, <2>4, <2>9, <2>10, <2>11 DEF Inactive
  <2>12. CASE id # e
    <3>1. shots'[id] = shots[id] /\ waited'[id] = waited[id]
      BY <1>1, <2>1, <2>2, <2>12 DEF TypeOK
    <3>2. periodic_evn_list'[k].event_id # id
      BY <2>4, <2>12
    <3>3. ASSUME NEW s \in Slots, periodic_evn_list'[s].event_id = id,
                 Active(periodic_evn_list'[s])
          PROVE  GrantedActive(id, periodic_evn_list[s])'
      BY <1>2, <2>3, <3>1, <3>2, <3>3 DEF GrantedInv, GrantedActive
    <3>4. Inactive(id)' => Inactive(id)
      BY <1>0, <2>0, <2>3, <2>12 DEF Inactive
    <3> QED BY <1>2, <3>1, <3>3, <3>4 DEF GrantedInv, GrantedOver
  <2> QED BY <2>11, <2>12
<1> QED BY <1>3, <1>4

LEMMA NextGranted ==
  ASSUME SlotInv, SlotInv', GrantedInv, [Next]_vars
  PROVE  GrantedInv'
<1>1. CASE ~TickDrain /\ ~TickSlot
  <2>1. UNCHANGED <<periodic_evn_list, granted, shots, waited>>
    BY <1>1, OtherStepsKeepList
  <2> QED BY <2>1 DEF GrantedInv, GrantedActive, GrantedOver, Inactive
<1> QED BY <1>1, TickDrainGranted, TickSlotGranted

LEMMA InitGranted == Init => GrantedInv
BY DEF Init, GrantedInv, GrantedOver, Active, EmptySlot, NoRequest, NO_CALL

LEMMA GrantedInvariant == Spec => [](SlotInv /\ GrantedInv)
<1>1. SlotInv /\ SlotInv' /\ GrantedInv /\ [Next]_vars => GrantedInv'
  BY NextGranted
<1> QED BY SlotInvInvariant, InitGranted, <1>1, PTL DEF Spec

\* An event has come due exactly as often as the last request says: n-shot
\* events n times, a stopped event not at all, FOREVER without end.
THEOREM LastRequestGovernsHolds == Spec => []LastRequestGoverns
<1>1. SlotInv /\ GrantedInv => LastRequestGoverns
  <2> SUFFICES ASSUME SlotInv, GrantedInv, NEW id \in EventIds
               PROVE  Remaining(id) = IF granted[id].invoke > 0
                                      THEN granted[id].invoke - shots[id]
                                      ELSE granted[id].invoke
    BY DEF LastRequestGoverns
  <2>1. granted[id].invoke \in Int /\ shots[id] \in Nat
    BY InvokeIsInt DEF SlotInv, TypeOK
  <2>2. CASE \E s \in SlotsOf(id) : Active(periodic_evn_list[s])
    <3> DEFINE t == CHOOSE s \in SlotsOf(id) : Active(periodic_evn_list[s])
    <3>1. t \in SlotsOf(id) /\ Active(periodic_evn_list[t])
      BY <2>2
    <3>2. Remaining(id) = periodic_evn_list[t].invoke
      BY <2>2 DEF Remaining
    <3> HIDE DEF t
    <3>3. GrantedActive(id, periodic_evn_list[t])
      BY <3>1 DEF GrantedInv, SlotsOf
    <3> QED BY <3>2, <3>3 DEF GrantedActive
  <2>3. CASE ~ \E s \in SlotsOf(id) : Active(periodic_evn_list[s])
    <3>1. Remaining(id) = NO_CALL
      BY <2>3 DEF Remaining
    <3>2. GrantedOver(id)
      BY <2>3 DEF GrantedInv, Inactive, SlotsOf
    <3> QED BY <2>1, <3>1, <3>2 DEF GrantedOver, NO_CALL
  <2> QED BY <2>2, <2>3
<1> QED BY GrantedInvariant, <1>1, PTL

\* An event comes due exactly one period after the request was taken or after
\* it last came due.
THEOREM DueOnTimeHolds == Spec => DueOnTime
<1> DEFINE OnTime ==
      \A id \in EventIds :
        ComesDue(id) =>
          waited[id] + 1 = IF granted[id].delay = 0 THEN 1 ELSE granted[id].delay
<1>1. SlotInv /\ GrantedInv /\ [Next]_vars => [OnTime]_vars
  <2> SUFFICES ASSUME SlotInv, GrantedInv, NEW id \in EventIds, ComesDue(id)
               PROVE  waited[id] + 1 = IF granted[id].delay = 0 THEN 1
                                       ELSE granted[id].delay
    OBVIOUS
  <2> DEFINE slot == periodic_evn_list[timer.slot]
  <2>1. /\ timer.slot \in Slots /\ slot \in PeriodicEvent
        /\ slot.event_id = id /\ Active(slot) /\ Due(slot)
    BY TickSlotEffect DEF ComesDue, SlotInv
  <2>2. GrantedActive(id, slot)
    BY <2>1 DEF GrantedInv
  <2>3. slot.delay \in {0, 1} /\ slot.delay \in Nat
    BY <2>1, ElapseCases DEF PeriodicEvent
  <2>4. granted[id].delay \in Nat /\ waited[id] \in Nat
    BY InvokeIsInt DEF SlotInv, TypeOK
  <2>5. /\ waited[id] + slot.delay = granted[id].delay
        /\ granted[id].delay > 0 => slot.delay > 0
    BY <2>2 DEF GrantedActive
  <2>6. ASSUME NEW w \in Nat, NEW d \in {0, 1}, NEW p \in Nat, w + d = p,
               p > 0 => d > 0
        PROVE  w + 1 = IF p = 0 THEN 1 ELSE p
    BY <2>6
  <2> HIDE DEF slot
  <2> QED BY <2>3, <2>4, <2>5, <2>6
<1> QED BY GrantedInvariant, <1>1, PTL DEF Spec, DueOnTime

\* After a stop was taken the timer does not post the event again.
THEOREM StoppedStaysQuietHolds == Spec => StoppedStaysQuiet
<1> DEFINE Quiet ==
      \A id \in EventIds :
        /\ granted[id].invoke = NO_CALL
        /\ Len(evn_queue') > Len(evn_queue)
        => evn_queue'[Len(evn_queue')].event_id # id
<1>1. SlotInv /\ GrantedInv /\ [Next]_vars => [Quiet]_vars
  <2> SUFFICES ASSUME SlotInv, GrantedInv, [Next]_vars, NEW id \in EventIds,
                      granted[id].invoke = NO_CALL,
                      Len(evn_queue') > Len(evn_queue)
               PROVE  evn_queue'[Len(evn_queue')].event_id # id
    OBVIOUS
  <2>1. evn_queue \in Seq(DevEvn) /\ Len(evn_queue) \in Nat
    BY DEF SlotInv, TypeOK
  <2>2. CASE TickSlot
    <3> DEFINE slot == periodic_evn_list[timer.slot]
    <3>1. timer.slot \in Slots
      BY <2>2, TickSlotEffect DEF SlotInv
    <3>2. Active(slot) /\ Post(slot)
      BY <2>1, <2>2 DEF TickSlot
    <3>3. evn_queue' = Append(evn_queue, [event_id |-> slot.event_id,
                                          ctx |-> slot.ctx])
      BY <2>1, <3>2 DEF Post
    <3>4. evn_queue'[Len(evn_queue')].event_id = slot.event_id
      BY <2>1, <3>3
    <3>5. slot.event_id # id
      BY <3>1, <3>2 DEF GrantedInv, GrantedActive, Active, NO_CALL
    <3> QED BY <3>4, <3>5
  <2>3. CASE ReceiveEvent
    BY <2>1, <2>3 DEF ReceiveEvent
  <2>4. CASE UNCHANGED evn_queue
    BY <2>1, <2>4
  <2> QED BY <2>2, <2>3, <2>4
          DEF Next, Client, Tick, TickBegin, TickDrain, TickDrained, TickEnd,
              StartPeriodicEvent, StopPeriodicEvent, SendRequest, vars
<1> QED BY GrantedInvariant, <1>1, PTL DEF Spec, StoppedStaysQuiet

(***************************************************************************)
(* The list implements one timer for every event.                          *)
(***************************************************************************)

\* The timer that a slot implements, and the timer of an event in a list L.
Shape(slot) == [ctx |-> slot.ctx, invoke |-> slot.invoke,
                init_delay |-> slot.init_delay, delay |-> slot.delay]

Holds(L, id, s) == L[s].event_id = id /\ Active(L[s])

Timer(L, id) ==
  IF \E s \in Slots : Holds(L, id, s)
  THEN Shape(L[CHOOSE s \in Slots : Holds(L, id, s)])
  ELSE Timers!Stopped

\* No event is in two slots of L.
Single(L) ==
  \A s, t \in Slots :
    L[s].event_id = L[t].event_id /\ L[s].event_id # EVN_NO_ENTRY => s = t

LEMMA TimerHeld ==
  ASSUME NEW L, Single(L), NEW id \in EventIds, NEW s \in Slots, Holds(L, id, s)
  PROVE  Timer(L, id) = Shape(L[s])
<1>1. PICK t : t = CHOOSE u \in Slots : Holds(L, id, u)
  OBVIOUS
<1>2. t \in Slots /\ Holds(L, id, t)
  BY <1>1
<1>3. id # EVN_NO_ENTRY
  BY IdsAssumption
<1>4. t = s
  BY <1>2, <1>3 DEF Single, Holds
<1> QED BY <1>1, <1>4 DEF Timer

LEMMA TimerNotHeld ==
  ASSUME NEW L, NEW id, \A s \in Slots : ~Holds(L, id, s)
  PROVE  Timer(L, id) = Timers!Stopped
BY DEF Timer

\* Two lists in which the same slots hold an event, with the same contents.
LEMMA TimerSame ==
  ASSUME NEW L, NEW M, Single(L), Single(M), NEW id \in EventIds,
         \A s \in Slots : Holds(L, id, s) => Holds(M, id, s) /\ M[s] = L[s],
         \A s \in Slots : Holds(M, id, s) => Holds(L, id, s)
  PROVE  Timer(M, id) = Timer(L, id)
<1>1. CASE \E s \in Slots : Holds(L, id, s)
  <2>1. PICK s \in Slots : Holds(L, id, s)
    BY <1>1
  <2>2. Holds(M, id, s) /\ M[s] = L[s]
    BY <2>1
  <2>3. Timer(L, id) = Shape(L[s])
    BY <2>1, TimerHeld
  <2>4. Timer(M, id) = Shape(M[s])
    BY <2>2, TimerHeld
  <2> QED BY <2>2, <2>3, <2>4
<1>2. CASE \A s \in Slots : ~Holds(L, id, s)
  BY <1>2, TimerNotHeld
<1> QED BY <1>1, <1>2

LEMMA TimerOfList == \A id : TimerOf(id) = Timer(periodic_evn_list, id)
BY DEF TimerOf, Timer, Holds, SlotsOf, Shape, Timers!Stopped, NO_CALL

LEMMA TimerOfNextList == \A id : TimerOf(id)' = Timer(periodic_evn_list', id)
BY DEF TimerOf, Timer, Holds, SlotsOf, Shape, Timers!Stopped, NO_CALL

MapTimers == [id \in EventIds |-> TimerOf(id)]

LEMMA MapTimersValue ==
  /\ MapTimers = [id \in EventIds |-> Timer(periodic_evn_list, id)]
  /\ MapTimers' = [id \in EventIds |-> Timer(periodic_evn_list', id)]
BY TimerOfList, TimerOfNextList DEF MapTimers

\* No event waits for the scan between two scans.
LEMMA NobodyAhead ==
  /\ timer.pc # "scan" => Ahead = {}
  /\ timer'.pc # "scan" => Ahead' = {}
BY DEF Ahead

\* Steps of the clients, the event task and the timer that leave the list alone.
LEMMA ListKept ==
  ASSUME UNCHANGED periodic_evn_list
  PROVE  /\ MapTimers' = MapTimers
         /\ UNCHANGED timer => Ahead' = Ahead
BY DEF MapTimers, TimerOf, SlotsOf, Ahead

LEMMA InitImplements == Init => Timers!Init
<1> SUFFICES ASSUME Init PROVE Timers!Init
  OBVIOUS
<1>1. ASSUME NEW id \in EventIds PROVE TimerOf(id) = Timers!Stopped
  <2>1. \A s \in Slots : ~Holds(periodic_evn_list, id, s)
    BY DEF Init, Holds, Active, EmptySlot
  <2> QED BY <2>1, TimerNotHeld, TimerOfList
<1>2. MapTimers = [id \in EventIds |-> Timers!Stopped]
  BY <1>1 DEF MapTimers
<1>3. Ahead = {}
  BY NobodyAhead DEF Init
<1> QED BY <1>2, <1>3 DEF Init, Timers!Init, MapTimers

LEMMA SendImplements ==
  ASSUME NEW r \in Request, SendRequest(r)
  PROVE  [Timers!Next]_(Timers!vars)
<1>1. /\ UNCHANGED <<periodic_evn_list, evn_queue, timer, ms_counter>>
      /\ periodic_evn_queue' = IF Len(periodic_evn_queue) < NewQueueLen
                               THEN Append(periodic_evn_queue, r) ELSE periodic_evn_queue
  BY DEF SendRequest
<1>2. MapTimers' = MapTimers /\ Ahead' = Ahead
  BY <1>1, ListKept
<1>3. /\ r.event_id \in EventIds /\ r.ctx \in Ctxs \union {NullCtx}
      /\ r.delay \in Delays \union {0} /\ r.invoke \in Invokes \union {0}
      /\ r = [event_id |-> r.event_id, ctx |-> r.ctx, delay |-> r.delay, invoke |-> r.invoke]
  BY DEF Request, NO_CALL
<1>4. CASE Len(periodic_evn_queue) < NewQueueLen
  <2>1. Timers!Ask
    BY <1>1, <1>2, <1>3, <1>4 DEF Timers!Ask, MapTimers
  <2> QED BY <2>1 DEF Timers!Next
<1>5. CASE ~(Len(periodic_evn_queue) < NewQueueLen)
  BY <1>1, <1>2, <1>5 DEF Timers!vars, MapTimers
<1> QED BY <1>4, <1>5

LEMMA BeginImplements ==
  ASSUME TickBegin
  PROVE  Timers!Begin
<1>1. MapTimers' = MapTimers /\ Ahead = {} /\ Ahead' = {}
  BY ListKept, NobodyAhead DEF TickBegin
<1> QED BY <1>1 DEF TickBegin, Timers!Begin, MapTimers

LEMMA DrainImplements ==
  ASSUME SlotInv, SlotInv', TickDrain
  PROVE  Timers!Apply
<1>1. PICK r : r = Head(periodic_evn_queue)
  OBVIOUS
<1>2. r \in Request /\ r.event_id \in EventIds /\ Push(r)
  BY <1>1, HeadIsRequest DEF TickDrain, SlotInv
<1>3. PICK k \in Candidates(r.event_id) :
        periodic_evn_list' = [periodic_evn_list EXCEPT ![k] = Armed(r)]
  BY <1>2, PushEffect, AlwaysACandidate DEF SlotInv, RequestFindsSlot
<1>4. PICK L, M : L = periodic_evn_list /\ M = periodic_evn_list'
  OBVIOUS
<1>5. Single(L) /\ Single(M)
  BY <1>4 DEF SlotInv, OneSlotPerEvent, Single
<1>6. k \in Slots /\ M[k] = Armed(r) /\ \A s \in Slots : s # k => M[s] = L[s]
  BY <1>3, <1>4, CandidatesAreSlots DEF SlotInv, TypeOK
<1>7. M[k].event_id = r.event_id /\ r.event_id # EVN_NO_ENTRY
  <2>1. M[k].event_id = r.event_id
    BY <1>6 DEF Armed
  <2>2. r.event_id # EVN_NO_ENTRY
    BY <1>2, IdsAssumption
  <2> QED BY <2>1, <2>2
<1>8. PICK new : new = IF r.invoke = 0 THEN Timers!Stopped
                       ELSE [ctx |-> r.ctx, invoke |-> r.invoke,
                             init_delay |-> r.delay, delay |-> r.delay]
  OBVIOUS
<1>9. Timer(M, r.event_id) = new
  <2>1. CASE r.invoke = 0
    <3>1. \A s \in Slots : ~Holds(M, r.event_id, s)
      BY <1>5, <1>6, <1>7, <2>1 DEF Holds, Single, Active, Armed, NO_CALL
    <3> QED BY <1>8, <2>1, <3>1, TimerNotHeld
  <2>2. CASE r.invoke # 0
    <3>1. Holds(M, r.event_id, k)
      BY <1>6, <1>7, <2>2 DEF Holds, Active, Armed, NO_CALL
    <3>2. Timer(M, r.event_id) = Shape(M[k])
      BY <1>2, <1>5, <1>6, <3>1, TimerHeld
    <3> QED BY <1>6, <1>8, <2>2, <3>2 DEF Shape, Armed
  <2> QED BY <2>1, <2>2
<1>10. ASSUME NEW id \in EventIds, id # r.event_id
       PROVE  Timer(M, id) = Timer(L, id)
  <2>1. ~Holds(L, id, k)
    BY <1>3, <1>4, <1>10 DEF Holds, Candidates, SlotsOf, FreeSlots, Active
  <2>2. ~Holds(M, id, k)
    BY <1>7, <1>10 DEF Holds
  <2>3. \A s \in Slots : Holds(L, id, s) => Holds(M, id, s) /\ M[s] = L[s]
    BY <1>6, <2>1 DEF Holds
  <2>4. \A s \in Slots : Holds(M, id, s) => Holds(L, id, s)
    BY <1>6, <2>2 DEF Holds
  <2> QED BY <1>5, <2>3, <2>4, TimerSame
<1>11. MapTimers' = [MapTimers EXCEPT ![r.event_id] = new]
  <2>1. /\ MapTimers = [id \in EventIds |-> Timer(L, id)]
        /\ MapTimers' = [id \in EventIds |-> Timer(M, id)]
    BY <1>4, MapTimersValue
  <2> QED BY <1>2, <1>9, <1>10, <2>1
<1>12. Ahead = {} /\ Ahead' = {} /\ UNCHANGED <<evn_queue, timer, ms_counter>>
  BY NobodyAhead DEF TickDrain
<1>13. /\ timer.pc = "drain" /\ periodic_evn_queue # <<>>
       /\ periodic_evn_queue' = Tail(periodic_evn_queue)
  BY DEF TickDrain
<1> QED BY <1>1, <1>8, <1>11, <1>12, <1>13 DEF Timers!Apply, Timers!Stopped, MapTimers

LEMMA DrainedImplements ==
  ASSUME SlotInv, TickDrained
  PROVE  Timers!Applied
<1>1. PICK L : L = periodic_evn_list
  OBVIOUS
<1>2. Single(L)
  BY <1>1 DEF SlotInv, OneSlotPerEvent, Single
<1>3. /\ UNCHANGED <<periodic_evn_list, periodic_evn_queue, evn_queue, ms_counter>>
      /\ timer.pc = "drain" /\ periodic_evn_queue = <<>>
      /\ timer'.pc = "scan" /\ timer'.slot = 1
  BY DEF TickDrained
<1>4. MapTimers' = MapTimers
  BY <1>3, ListKept
<1>5. ASSUME NEW id \in EventIds
      PROVE  id \in Ahead' <=> MapTimers[id].invoke # 0
  <2>1. id \in Ahead' <=> \E s \in Slots : Holds(L, id, s)
    <3>1. \A s \in Slots : s >= 1
      BY LengthsAssumption DEF Slots
    <3> QED BY <1>1, <1>3, <3>1 DEF Ahead, SlotsOf, Holds
  <2>2. MapTimers[id] = Timer(L, id)
    BY <1>1, MapTimersValue
  <2>3. CASE \E s \in Slots : Holds(L, id, s)
    <3>1. PICK s \in Slots : Holds(L, id, s)
      BY <2>3
    <3>2. MapTimers[id] = Shape(L[s])
      BY <1>2, <2>2, <3>1, TimerHeld
    <3> QED BY <2>1, <3>1, <3>2 DEF Holds, Shape, Active, NO_CALL
  <2>4. CASE \A s \in Slots : ~Holds(L, id, s)
    <3>1. MapTimers[id] = Timers!Stopped
      BY <2>2, <2>4, TimerNotHeld
    <3> QED BY <2>1, <2>4, <3>1 DEF Timers!Stopped
  <2> QED BY <2>3, <2>4
<1>6. Ahead' = {id \in EventIds : MapTimers[id].invoke # 0}
  <2>1. Ahead' \subseteq EventIds
    BY DEF Ahead
  <2> QED BY <1>5, <2>1
<1> QED BY <1>3, <1>4, <1>6 DEF Timers!Applied, Timers!Running, MapTimers

\* The scan turns at a slot that makes no call.
LEMMA IdleSlotImplements ==
  ASSUME SlotInv, TickSlot, ~Active(periodic_evn_list[timer.slot])
  PROVE  UNCHANGED Timers!vars
<1>1. UNCHANGED <<periodic_evn_list, periodic_evn_queue, evn_queue, ms_counter>>
  BY DEF TickSlot
<1>2. /\ timer.slot \in Slots /\ timer \in [pc : {"idle", "drain", "scan"}, slot : 1 .. ListLen + 1]
      /\ timer' = [timer EXCEPT !.slot = timer.slot + 1]
  BY TickSlotEffect DEF SlotInv, TypeOK, TickSlot
<1>3. timer'.pc = timer.pc /\ timer'.slot = timer.slot + 1
  BY <1>2
<1>4. MapTimers' = MapTimers
  BY <1>1, ListKept
<1>5. Ahead' = Ahead
  <2>1. \A s \in Slots : Active(periodic_evn_list[s])
                         => (s >= timer.slot <=> s >= timer.slot + 1)
    BY <1>2, LengthsAssumption DEF Slots
  <2> QED BY <1>1, <1>3, <2>1 DEF Ahead, SlotsOf
<1> QED BY <1>1, <1>3, <1>4, <1>5 DEF Timers!vars, MapTimers

\* The scan advances the timer of an event.
LEMMA ActiveSlotImplements ==
  ASSUME SlotInv, SlotInv', TickSlot, Active(periodic_evn_list[timer.slot])
  PROVE  Timers!Advance
<1>1. PICK L, M, k : L = periodic_evn_list /\ M = periodic_evn_list' /\ k = timer.slot
  OBVIOUS
<1>2. PICK slot : slot = L[k]
  OBVIOUS
<1>3. /\ k \in Slots /\ slot \in PeriodicEvent /\ Active(slot)
      /\ M = [L EXCEPT ![k] = Elapse(slot)] /\ L \in [Slots -> PeriodicEvent]
  BY <1>1, <1>2, TickSlotEffect DEF SlotInv, TypeOK
<1>4. Single(L) /\ Single(M)
  BY <1>1 DEF SlotInv, OneSlotPerEvent, Single
<1>5. PICK id \in EventIds : id = slot.event_id
  BY <1>1, <1>2, <1>3 DEF SlotInv, ActiveHasEvent
<1>6. /\ timer.pc = "scan" /\ UNCHANGED <<periodic_evn_queue, ms_counter>>
      /\ timer'.pc = timer.pc /\ timer'.slot = k + 1
  <2>1. timer' = [timer EXCEPT !.slot = timer.slot + 1]
    BY DEF TickSlot
  <2>2. timer \in [pc : {"idle", "drain", "scan"}, slot : 1 .. ListLen + 1]
    BY DEF SlotInv, TypeOK
  <2>3. timer'.pc = timer.pc /\ timer'.slot = k + 1
    BY <1>1, <2>1, <2>2
  <2> QED BY <2>3 DEF TickSlot
<1>7. Holds(L, id, k) /\ id # EVN_NO_ENTRY
  BY <1>2, <1>3, <1>5, IdsAssumption DEF Holds
<1>8. M[k] = Elapse(slot) /\ M[k].event_id = id /\ \A s \in Slots : s # k => M[s] = L[s]
  BY <1>3, <1>5, ElapseType
<1>9. \A s \in Slots : s # k => L[s].event_id # id
  BY <1>3, <1>4, <1>7 DEF Holds, Single
<1>10. MapTimers[id] = Shape(slot)
  <2>1. Timer(L, id) = Shape(L[k])
    BY <1>3, <1>4, <1>7, TimerHeld
  <2> QED BY <1>1, <1>2, <2>1, MapTimersValue
<1>11. PICK new : new = IF Active(Elapse(slot)) THEN Shape(Elapse(slot)) ELSE Timers!Stopped
  OBVIOUS
<1>12. MapTimers' = [MapTimers EXCEPT ![id] = new]
  <2>1. Timer(M, id) = new
    <3>1. CASE Active(Elapse(slot))
      <4>1. Holds(M, id, k)
        BY <1>8, <3>1 DEF Holds
      <4> QED BY <1>3, <1>4, <1>8, <1>11, <3>1, <4>1, TimerHeld
    <3>2. CASE ~Active(Elapse(slot))
      <4>1. \A s \in Slots : ~Holds(M, id, s)
        BY <1>8, <1>9, <3>2 DEF Holds
      <4> QED BY <1>11, <3>2, <4>1, TimerNotHeld
    <3> QED BY <3>1, <3>2
  <2>2. ASSUME NEW other \in EventIds, other # id
        PROVE  Timer(M, other) = Timer(L, other)
    <3>1. ~Holds(L, other, k) /\ ~Holds(M, other, k)
      BY <1>7, <1>8, <2>2 DEF Holds
    <3>2. \A s \in Slots : Holds(L, other, s) => Holds(M, other, s) /\ M[s] = L[s]
      BY <1>8, <3>1 DEF Holds
    <3>3. \A s \in Slots : Holds(M, other, s) => Holds(L, other, s)
      BY <1>8, <3>1 DEF Holds
    <3> QED BY <1>4, <3>2, <3>3, TimerSame
  <2>3. /\ MapTimers = [e \in EventIds |-> Timer(L, e)]
        /\ MapTimers' = [e \in EventIds |-> Timer(M, e)]
    BY <1>1, MapTimersValue
  <2> QED BY <1>5, <2>1, <2>2, <2>3
<1>13. id \in Ahead /\ Ahead' = Ahead \ {id}
  <2>1. \A e \in EventIds : e \in Ahead <=> \E s \in Slots : s >= k /\ Holds(L, e, s)
    BY <1>1, <1>6 DEF Ahead, SlotsOf, Holds
  <2>2. \A e \in EventIds : e \in Ahead' <=> \E s \in Slots : s >= k + 1 /\ Holds(M, e, s)
    BY <1>1, <1>6 DEF Ahead, SlotsOf, Holds
  <2>3. \A s \in Slots : s >= k <=> s = k \/ s >= k + 1
    BY <1>3, LengthsAssumption DEF Slots
  <2>4. id \in Ahead
    BY <1>3, <1>7, <2>1, <2>3
  <2>5. \A s \in Slots : s >= k + 1 => s # k
    BY <1>3, LengthsAssumption DEF Slots
  <2>6. id \notin Ahead'
    BY <1>8, <1>9, <2>2, <2>5 DEF Holds
  <2>7. ASSUME NEW e \in EventIds, e # id PROVE e \in Ahead' <=> e \in Ahead
    <3>1. ~Holds(L, e, k)
      BY <1>7, <2>7 DEF Holds
    <3>2. \A s \in Slots : s # k => (Holds(M, e, s) <=> Holds(L, e, s))
      BY <1>8 DEF Holds
    <3> QED BY <2>1, <2>2, <2>3, <2>5, <3>1, <3>2
  <2>8. Ahead \subseteq EventIds /\ Ahead' \subseteq EventIds
    BY DEF Ahead
  <2> QED BY <2>4, <2>6, <2>7, <2>8
<1>14. /\ slot.invoke \in Int /\ slot.invoke # 0 /\ slot.delay \in Nat /\ slot.init_delay \in Nat
       /\ Elapse(slot).ctx = slot.ctx /\ Elapse(slot).init_delay = slot.init_delay
  BY <1>3, ElapseType DEF PeriodicEvent, Active, NO_CALL
<1>15. PICK old : old = MapTimers[id] /\ old = Shape(slot)
  BY <1>10
<1>16. Shape(slot).delay = slot.delay /\ Shape(slot).invoke = slot.invoke
       /\ Shape(slot).init_delay = slot.init_delay /\ Shape(slot).ctx = slot.ctx
  BY DEF Shape
<1>17. CASE ~Due(slot)
  <2>1. /\ slot.delay > 1 /\ Elapse(slot).invoke = slot.invoke
        /\ Elapse(slot).delay = slot.delay - 1
    BY <1>3, <1>17, ElapseCases
  <2>2. Active(Elapse(slot))
    BY <1>3, <2>1 DEF Active
  <2>3. new = [old EXCEPT !.delay = old.delay - 1]
    BY <1>11, <1>14, <1>15, <2>1, <2>2 DEF Shape
  <2>4. UNCHANGED evn_queue
    BY <1>1, <1>2, <1>3, <1>17 DEF TickSlot
  <2>5. Timers!Wait(id)
    BY <1>12, <1>15, <1>16, <2>1, <2>3, <2>4 DEF Timers!Wait, MapTimers
  <2> QED BY <1>6, <1>13, <2>5 DEF Timers!Advance
<1>18. CASE Due(slot)
  <2>1. /\ slot.delay <= 1
        /\ Elapse(slot).invoke = IF slot.invoke > 0 THEN slot.invoke - 1 ELSE slot.invoke
        /\ Active(Elapse(slot)) => Elapse(slot).delay = slot.init_delay
    BY <1>3, <1>18, ElapseCases
  <2>2. new = CASE old.invoke = 1 -> Timers!Stopped
                [] old.invoke > 1 -> [old EXCEPT !.invoke = old.invoke - 1, !.delay = old.init_delay]
                [] old.invoke < 0 -> [old EXCEPT !.delay = old.init_delay]
    <3>1. CASE slot.invoke = 1
      <4>1. ~Active(Elapse(slot))
        BY <2>1, <3>1 DEF Active, NO_CALL
      <4> QED BY <1>11, <1>15, <1>16, <3>1, <4>1
    <3>2. CASE slot.invoke > 1
      <4>1. Active(Elapse(slot)) /\ Elapse(slot).invoke = slot.invoke - 1
        BY <1>14, <2>1, <3>2 DEF Active, NO_CALL
      <4>2. new = [old EXCEPT !.invoke = old.invoke - 1, !.delay = old.init_delay]
        <5>1. new = [ctx |-> slot.ctx, invoke |-> slot.invoke - 1,
                     init_delay |-> slot.init_delay, delay |-> slot.init_delay]
          BY <1>11, <1>14, <2>1, <4>1 DEF Shape
        <5>2. old = [ctx |-> slot.ctx, invoke |-> slot.invoke,
                     init_delay |-> slot.init_delay, delay |-> slot.delay]
          BY <1>15 DEF Shape
        <5>3. PICK once : once = [old EXCEPT !.invoke = slot.invoke - 1]
          OBVIOUS
        <5>4. once = [ctx |-> slot.ctx, invoke |-> slot.invoke - 1,
                      init_delay |-> slot.init_delay, delay |-> slot.delay]
          BY <5>2, <5>3
        <5>5. new = [once EXCEPT !.delay = slot.init_delay]
          BY <5>1, <5>4
        <5>6. old.invoke = slot.invoke /\ old.init_delay = slot.init_delay
          BY <1>15, <1>16
        <5>7. \A x, y : [old EXCEPT !.invoke = x, !.delay = y]
                       = [[old EXCEPT !.invoke = x] EXCEPT !.delay = y]
          OBVIOUS
        <5> QED BY <5>3, <5>5, <5>6, <5>7
      <4>3. old.invoke > 1 /\ old.invoke # 1 /\ ~(old.invoke < 0)
        BY <1>14, <1>15, <1>16, <3>2
      <4> QED BY <4>2, <4>3
    <3>3. CASE slot.invoke < 0
      <4>1. Active(Elapse(slot)) /\ Elapse(slot).invoke = slot.invoke
        BY <1>14, <2>1, <3>3 DEF Active, NO_CALL
      <4>2. new = [old EXCEPT !.delay = old.init_delay]
        BY <1>11, <1>14, <1>15, <2>1, <4>1 DEF Shape
      <4>3. old.invoke < 0 /\ old.invoke # 1 /\ ~(old.invoke > 1)
        BY <1>14, <1>15, <1>16, <3>3
      <4> QED BY <4>2, <4>3
    <3>4. slot.invoke = 1 \/ slot.invoke > 1 \/ slot.invoke < 0
      BY <1>14
    <3> QED BY <3>1, <3>2, <3>3, <3>4, Zenon
  <2>3. evn_queue' = IF Len(evn_queue) < EvnQueueLen
                     THEN Append(evn_queue, [event_id |-> id, ctx |-> old.ctx])
                     ELSE evn_queue
    BY <1>1, <1>2, <1>3, <1>5, <1>15, <1>16, <1>18 DEF TickSlot, Post
  <2>4. Timers!Fire(id)
    <3>1. MapTimers[id].delay <= 1
      BY <1>15, <1>16, <2>1
    <3>2. MapTimers' =
            [MapTimers EXCEPT ![id] =
               CASE @.invoke = 1 -> Timers!Stopped
                 [] @.invoke > 1 -> [@ EXCEPT !.invoke = @ - 1,
                                              !.delay = MapTimers[id].init_delay]
                 [] @.invoke < 0 -> [@ EXCEPT !.delay = MapTimers[id].init_delay]]
      BY <1>12, <1>15, <2>2
    <3>3. evn_queue' = IF Len(evn_queue) < EvnQueueLen
                       THEN Append(evn_queue, [event_id |-> id, ctx |-> MapTimers[id].ctx])
                       ELSE evn_queue
      BY <1>15, <2>3
    <3> QED BY <3>1, <3>2, <3>3 DEF Timers!Fire, MapTimers
  <2> QED BY <1>6, <1>13, <2>4 DEF Timers!Advance
<1> QED BY <1>17, <1>18

LEMMA EndImplements ==
  ASSUME SlotInv, TickEnd
  PROVE  Timers!End
<1>1. MapTimers' = MapTimers
  BY ListKept DEF TickEnd
<1>2. Ahead = {} /\ Ahead' = {}
  <2>1. timer.slot > ListLen /\ timer.slot \in 1 .. ListLen + 1
    BY DEF TickEnd, SlotInv, TypeOK
  <2>2. \A s \in Slots : ~(s >= timer.slot)
    BY <2>1, LengthsAssumption DEF Slots
  <2>3. Ahead = {}
    BY <2>2 DEF Ahead, SlotsOf
  <2>4. Ahead' = {}
    BY NobodyAhead DEF TickEnd
  <2> QED BY <2>3, <2>4
<1> QED BY <1>1, <1>2 DEF TickEnd, Timers!End, MapTimers

LEMMA ReceiveImplements ==
  ASSUME ReceiveEvent
  PROVE  Timers!Receive
<1>1. MapTimers' = MapTimers /\ Ahead' = Ahead
  BY ListKept DEF ReceiveEvent
<1> QED BY <1>1 DEF ReceiveEvent, Timers!Receive, MapTimers

LEMMA NextImplements ==
  ASSUME SlotInv, SlotInv', [Next]_vars
  PROVE  [Timers!Next]_(Timers!vars)
<1>1. CASE Client
  <2>1. ASSUME NEW id \in EventIds, NEW c \in Ctxs, NEW d \in Delays, NEW n \in Invokes,
               StartPeriodicEvent(id, c, d, n)
        PROVE  [Timers!Next]_(Timers!vars)
    <3>1. [event_id |-> id, ctx |-> c, delay |-> d, invoke |-> n] \in Request
      BY DEF Request
    <3> QED BY <2>1, <3>1, SendImplements DEF StartPeriodicEvent
  <2>2. ASSUME NEW id \in EventIds, StopPeriodicEvent(id)
        PROVE  [Timers!Next]_(Timers!vars)
    BY <2>2, NoRequestType, SendImplements DEF StopPeriodicEvent
  <2> QED BY <1>1, <2>1, <2>2 DEF Client
<1>2. CASE TickBegin
  BY <1>2, BeginImplements DEF Timers!Next
<1>3. CASE TickDrain
  BY <1>3, DrainImplements DEF Timers!Next
<1>4. CASE TickDrained
  BY <1>4, DrainedImplements DEF Timers!Next
<1>5. CASE TickSlot
  <2>1. CASE Active(periodic_evn_list[timer.slot])
    BY <1>5, <2>1, ActiveSlotImplements DEF Timers!Next
  <2>2. CASE ~Active(periodic_evn_list[timer.slot])
    BY <1>5, <2>2, IdleSlotImplements
  <2> QED BY <2>1, <2>2
<1>6. CASE TickEnd
  BY <1>6, EndImplements DEF Timers!Next
<1>7. CASE ReceiveEvent
  BY <1>7, ReceiveImplements DEF Timers!Next
<1>8. CASE UNCHANGED vars
  <2>1. MapTimers' = MapTimers /\ Ahead' = Ahead
    BY <1>8, ListKept DEF vars
  <2> QED BY <1>8, <2>1 DEF vars, Timers!vars, MapTimers
<1> QED BY <1>1, <1>2, <1>3, <1>4, <1>5, <1>6, <1>7, <1>8 DEF Next, Tick

\* The list of slots, the reuse of slots that fell idle and the order of the
\* scan are nowhere to be seen: every behaviour of event_time_manager.c is one
\* of a timer for each event.
THEOREM ListImplementsTimers == Spec => ImplementsTimers
<1>1. SlotInv /\ SlotInv' /\ [Next]_vars => [Timers!Next]_(Timers!vars)
  BY NextImplements
<1> QED BY SlotInvInvariant, InitImplements, <1>1, PTL DEF Spec, ImplementsTimers, Timers!Spec
=============================================================================
