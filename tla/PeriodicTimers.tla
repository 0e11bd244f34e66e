---------------------------- MODULE PeriodicTimers ----------------------------
(***************************************************************************)
(* What the periodic events promise their clients: every event has one     *)
(* timer.  A tick applies the waiting requests in their order, each one    *)
(* replacing the timer of its event, and then advances every running timer *)
(* once.  PeriodicEvents implements this with a list of slots.             *)
(***************************************************************************)
EXTENDS Integers, Sequences

CONSTANTS EventIds, Ctxs, NullCtx, Delays, Invokes, NewQueueLen, EvnQueueLen,
          MsModulus

VARIABLES timers, requests, evn_queue, phase, todo, ms_counter

vars == <<timers, requests, evn_queue, phase, todo, ms_counter>>

Stopped == [ctx |-> NullCtx, invoke |-> 0, init_delay |-> 0, delay |-> 0]

Running(id) == timers[id].invoke # 0

Init ==
  /\ timers = [id \in EventIds |-> Stopped]
  /\ requests = <<>>
  /\ evn_queue = <<>>
  /\ phase = "idle"
  /\ todo = {}
  /\ ms_counter = 0

\* A request is accepted as long as there is room.
Ask ==
  /\ Len(requests) < NewQueueLen
  /\ \E id \in EventIds, c \in Ctxs \union {NullCtx}, d \in Delays \union {0},
        n \in Invokes \union {0} :
       requests' = Append(requests, [event_id |-> id, ctx |-> c, delay |-> d,
                                     invoke |-> n])
  /\ UNCHANGED <<timers, evn_queue, phase, todo, ms_counter>>

Begin ==
  /\ phase = "idle" /\ phase' = "drain"
  /\ UNCHANGED <<timers, requests, evn_queue, todo, ms_counter>>

Apply ==
  /\ phase = "drain" /\ requests # <<>>
  /\ LET r == Head(requests) IN
       timers' = [timers EXCEPT ![r.event_id] =
                    IF r.invoke = 0 THEN Stopped
                    ELSE [ctx |-> r.ctx, invoke |-> r.invoke,
                          init_delay |-> r.delay, delay |-> r.delay]]
  /\ requests' = Tail(requests)
  /\ UNCHANGED <<evn_queue, phase, todo, ms_counter>>

Applied ==
  /\ phase = "drain" /\ requests = <<>>
  /\ phase' = "scan"
  /\ todo' = {id \in EventIds : Running(id)}
  /\ UNCHANGED <<timers, requests, evn_queue, ms_counter>>

\* A timer that is not due waits one tick less.
Wait(id) ==
  /\ timers[id].delay > 1
  /\ timers' = [timers EXCEPT ![id].delay = @ - 1]
  /\ UNCHANGED evn_queue

\* A timer that is due posts its event, unless the queue is full, and starts
\* again or, after its last call, stops.
Fire(id) ==
  /\ timers[id].delay <= 1
  /\ evn_queue' = IF Len(evn_queue) < EvnQueueLen
                  THEN Append(evn_queue, [event_id |-> id, ctx |-> timers[id].ctx])
                  ELSE evn_queue
  /\ timers' = [timers EXCEPT ![id] =
                  CASE @.invoke = 1 -> Stopped
                    [] @.invoke > 1 -> [@ EXCEPT !.invoke = @ - 1,
                                                 !.delay = timers[id].init_delay]
                    [] @.invoke < 0 -> [@ EXCEPT !.delay = timers[id].init_delay]]

Advance ==
  \E id \in todo :
    /\ phase = "scan"
    /\ Wait(id) \/ Fire(id)
    /\ todo' = todo \ {id}
    /\ UNCHANGED <<requests, phase, ms_counter>>

End ==
  /\ phase = "scan" /\ todo = {}
  /\ phase' = "idle"
  /\ ms_counter' = (ms_counter + 1) % MsModulus
  /\ UNCHANGED <<timers, requests, evn_queue, todo>>

Receive ==
  /\ evn_queue # <<>>
  /\ evn_queue' = Tail(evn_queue)
  /\ UNCHANGED <<timers, requests, phase, todo, ms_counter>>

Next == Ask \/ Begin \/ Apply \/ Applied \/ Advance \/ End \/ Receive

Spec == Init /\ [][Next]_vars
=============================================================================
