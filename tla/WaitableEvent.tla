---------------------------- MODULE WaitableEvent ----------------------------
(***************************************************************************)
(* nbase::WaitableEvent where the system has no events of its own          *)
(* (base/synchronization/waitable_event_posix.cpp): a flag, a list of      *)
(* waiters and a lock for each event; a thread that waits, for one event   *)
(* or for several, has one SyncWaiter, with a lock and a condition         *)
(* variable.                                                               *)
(*                                                                         *)
(* A step holds the locks it names from beginning to end; a lock is a      *)
(* variable where the code keeps it while it takes another one.            *)
(***************************************************************************)
EXTENDS Integers, Sequences, FiniteSets, SequencesExt

CONSTANTS Threads, None,
          Events,   \* the events, each its address
          Manual,   \* those with manual_reset_
          Arrays    \* the arguments WaitMultiple is given

ASSUME EventsAssumption == Events \subseteq Nat /\ Manual \subseteq Events
ASSUME ThreadsAssumption == IsFiniteSet(Threads) /\ None \notin Threads \cup Events
ASSUME ArraysAssumption ==
    \A a \in Arrays : a \in Seq(Events) /\ a # << >> /\ IsInjective(a)

VARIABLES
    signaled,  \* signaled_ of each event
    waiters,   \* waiters_: the threads in its list
    lock,      \* lock_: who holds it
    fired,     \* fired_,
    by,        \*   signaling_event_
    swLock,    \*   and lock_ of each thread's SyncWaiter
    pc,        \* where each thread is
    call,      \* its arguments and local variables
    owed       \* history: signals given to an auto-reset event and not got yet

kernelVars == <<signaled, waiters, lock>>
waiterVars == <<fired, by, swLock>>
vars == <<kernelVars, waiterVars, pc, call, owed>>

(* A call: its event or array of events (what is left of it, once a waiter  *)
(* takes itself out of their lists), the events EnqueueMultiple has not     *)
(* locked yet, whether it is WaitMultiple, has a timeout, and its answer.   *)
NoCall == [events |-> << >>, left |-> {}, many |-> FALSE, timed |-> FALSE, result |-> FALSE]

Init ==
    /\ signaled \in [Events -> BOOLEAN]      \* initially_signaled
    /\ waiters = [e \in Events |-> << >>]
    /\ lock = [e \in Events |-> None]
    /\ fired = [t \in Threads |-> FALSE] /\ by = [t \in Threads |-> None]
    /\ swLock = [t \in Threads |-> None]
    /\ pc = [t \in Threads |-> "idle"] /\ call = [t \in Threads |-> NoCall]
    /\ owed = [e \in Events |-> IF signaled[e] /\ e \notin Manual THEN 1 ELSE 0]

Go(t, where) == pc' = [pc EXCEPT ![t] = where]
Return(t)    == Go(t, "idle") /\ call' = [call EXCEPT ![t] = NoCall]
Free(e)      == lock[e] = None
Without(q, t) ==
    IF t \in ToSet(q)
    THEN RemoveAt(q, CHOOSE k \in DOMAIN q : q[k] = t /\ \A j \in 1..k - 1 : q[j] # t)
    ELSE q

(* A wait that finds the event signaled resets it, unless it is manual.     *)
Take(e) == /\ signaled' = [signaled EXCEPT ![e] = e \in Manual]
           /\ owed' = [owed EXCEPT ![e] = IF e \in Manual THEN @ ELSE @ - 1]

-----------------------------------------------------------------------------
Reset(t, e) ==
    /\ pc[t] = "idle" /\ Free(e) /\ signaled[e]
    /\ signaled' = [signaled EXCEPT ![e] = FALSE]
    /\ owed' = [owed EXCEPT ![e] = IF e \in Manual THEN @ ELSE @ - 1]
    /\ UNCHANGED <<waiters, lock, waiterVars, pc, call>>

IsSignaled(t, e) ==
    /\ pc[t] = "idle" /\ Free(e) /\ signaled[e]
    /\ Take(e)
    /\ UNCHANGED <<waiters, lock, waiterVars, pc, call>>

(* Signal, of an event that is not signaled: SignalAll or SignalOne begins. *)
Signal(t, e) ==
    /\ pc[t] = "idle" /\ Free(e) /\ ~ signaled[e]
    /\ lock' = [lock EXCEPT ![e] = t]
    /\ owed' = [owed EXCEPT ![e] = IF e \in Manual THEN @ ELSE @ + 1]
    /\ Go(t, "fire")
    /\ call' = [call EXCEPT ![t].events = <<e>>]
    /\ UNCHANGED <<signaled, waiters, waiterVars>>

(* Fire the first waiter of the list, which refuses when it has fired       *)
(* already.  SignalOne stops at the first that accepts.  (SignalAll clears  *)
(* the list at the end: under the lock there is no difference.)             *)
Fire(t) ==
    /\ pc[t] = "fire"
    /\ LET e == Head(call[t].events) IN
       /\ waiters[e] # << >>
       /\ LET w == Head(waiters[e]) IN
          /\ swLock[w] = None
          /\ waiters' = [waiters EXCEPT ![e] = Tail(@)]
          /\ IF fired[w]
             THEN UNCHANGED <<fired, by, lock, pc, call>>
             ELSE /\ fired' = [fired EXCEPT ![w] = TRUE]
                  /\ by' = [by EXCEPT ![w] = e]
                  /\ IF e \in Manual
                     THEN UNCHANGED <<lock, pc, call>>
                     ELSE lock' = [lock EXCEPT ![e] = None] /\ Return(t)
    /\ UNCHANGED <<signaled, swLock, owed>>

(* The list is empty: signaled_ = true.                                     *)
NobodyLeft(t) ==
    /\ pc[t] = "fire"
    /\ LET e == Head(call[t].events) IN
       /\ waiters[e] = << >>
       /\ signaled' = [signaled EXCEPT ![e] = TRUE]
       /\ lock' = [lock EXCEPT ![e] = None]
    /\ Return(t)
    /\ UNCHANGED <<waiters, waiterVars, owed>>

-----------------------------------------------------------------------------
(* Mutant: the waiter is put at the front of the lists.                     *)
Enqueue_First(t, es) ==
    /\ waiters' = [e \in Events |-> IF e \in es THEN <<t>> \o waiters[e] ELSE waiters[e]]
    /\ fired' = [fired EXCEPT ![t] = FALSE]
    /\ by' = [by EXCEPT ![t] = None]
    /\ swLock' = [swLock EXCEPT ![t] = t]
    /\ Go(t, "test")

(* The SyncWaiter comes into being, and its lock is taken while the locks   *)
(* of the events in es, whose lists it joins, are held.                     *)
Enqueue(t, es) ==
    /\ waiters' = [e \in Events |-> IF e \in es THEN Append(waiters[e], t) ELSE waiters[e]]
    /\ fired' = [fired EXCEPT ![t] = FALSE]
    /\ by' = [by EXCEPT ![t] = None]
    /\ swLock' = [swLock EXCEPT ![t] = t]
    /\ Go(t, "test")

(* Mutant: the flag is not looked at under the lock the list is joined in.  *)
WaitTimeout_Late(t, e, timed) ==
    /\ pc[t] = "idle" /\ Free(e)
    /\ Enqueue(t, {e})
    /\ call' = [call EXCEPT ![t].events = <<e>>, ![t].timed = timed]
    /\ UNCHANGED <<signaled, owed, lock>>

(* WaitTimeout; Wait is the same with timed FALSE.                          *)
WaitTimeout(t, e, timed) ==
    /\ pc[t] = "idle" /\ Free(e)
    /\ \/ signaled[e] /\ Take(e) /\ UNCHANGED <<waiters, waiterVars, pc, call>>
       \/ /\ ~ signaled[e]
          /\ Enqueue(t, {e})
          /\ call' = [call EXCEPT ![t].events = <<e>>, ![t].timed = timed]
          /\ UNCHANGED <<signaled, owed>>
    /\ UNCHANGED lock

(* The loop of both waits, with the SyncWaiter's lock.  A wait for one      *)
(* event that has fired or come to its end is disabled before it is         *)
(* dequeued.                                                                *)
Test(t) ==
    /\ pc[t] = "test" /\ ~ fired[t]
    /\ Go(t, "sleep") /\ swLock' = [swLock EXCEPT ![t] = None]
    /\ UNCHANGED <<kernelVars, fired, by, call, owed>>

(* A condition variable may wake a thread for no reason.                    *)
Wake(t) ==
    /\ pc[t] = "sleep" /\ swLock[t] = None
    /\ Go(t, "test") /\ swLock' = [swLock EXCEPT ![t] = t]
    /\ UNCHANGED <<kernelVars, fired, by, call, owed>>

Single(t) == ~ call[t].many

(* Mutant: Disable is forgotten.                                            *)
Leave_Enabled(t) ==
    /\ pc[t] = "test" /\ Single(t) /\ (fired[t] \/ call[t].timed)
    /\ call' = [call EXCEPT ![t].result = fired[t]]
    /\ swLock' = [swLock EXCEPT ![t] = None]
    /\ Go(t, "dequeue")
    /\ UNCHANGED <<kernelVars, fired, by, owed>>

(* Mutant: only a timeout ends the loop.                                    *)
Leave_Timed(t) ==
    /\ pc[t] = "test" /\ Single(t) /\ call[t].timed
    /\ call' = [call EXCEPT ![t].result = fired[t]]
    /\ fired' = [fired EXCEPT ![t] = TRUE]
    /\ swLock' = [swLock EXCEPT ![t] = None]
    /\ Go(t, "dequeue")
    /\ UNCHANGED <<kernelVars, by, owed>>

Leave(t) ==
    /\ pc[t] = "test" /\ Single(t) /\ (fired[t] \/ call[t].timed)
    /\ call' = [call EXCEPT ![t].result = fired[t]]
    /\ fired' = [fired EXCEPT ![t] = TRUE]
    /\ swLock' = [swLock EXCEPT ![t] = None]
    /\ Go(t, "dequeue")
    /\ UNCHANGED <<kernelVars, by, owed>>

(* The wait for e is over.                                                  *)
Got(e) == owed' = [owed EXCEPT ![e] = IF e \in Manual THEN @ ELSE @ - 1]

Dequeue(t) ==
    /\ pc[t] = "dequeue"
    /\ LET e == Head(call[t].events) IN
       /\ Free(e)
       /\ waiters' = [waiters EXCEPT ![e] = Without(@, t)]
       /\ IF call[t].result THEN Got(e) ELSE UNCHANGED owed
    /\ Return(t)
    /\ UNCHANGED <<signaled, lock, waiterVars>>

-----------------------------------------------------------------------------
(* WaitMultiple.                                                            *)

WaitMultiple(t, a) ==
    /\ pc[t] = "idle"
    /\ Go(t, "many")
    /\ call' = [call EXCEPT ![t].events = a, ![t].left = ToSet(a), ![t].many = TRUE]
    /\ UNCHANGED <<kernelVars, waiterVars, owed>>

(* Mutant: the locks are taken in the order of the array.                   *)
NextLock_AsGiven(t) ==
    call[t].events[Len(call[t].events) - Cardinality(call[t].left) + 1]

(* The array is sorted by address.                                          *)
NextLock(t) == CHOOSE e \in call[t].left : \A f \in call[t].left : e <= f

(* The locks EnqueueMultiple holds so far are given back.                   *)
Released(t) == [e \in Events |-> IF lock[e] = t THEN None ELSE lock[e]]

(* EnqueueMultiple takes the lock of the next event: one that is signaled   *)
(* ends the wait; the last one that is not lets the waiter join all lists.  *)
EnqueueMultiple(t) ==
    /\ pc[t] = "many"
    /\ LET e == NextLock(t) IN
       /\ Free(e)
       /\ \/ /\ signaled[e]
             /\ Take(e) /\ lock' = Released(t) /\ Return(t)
             /\ UNCHANGED <<waiters, waiterVars>>
          \/ /\ ~ signaled[e] /\ call[t].left # {e}
             /\ lock' = [lock EXCEPT ![e] = t]
             /\ call' = [call EXCEPT ![t].left = @ \ {e}]
             /\ UNCHANGED <<signaled, owed, waiters, waiterVars, pc>>
          \/ /\ ~ signaled[e] /\ call[t].left = {e}
             /\ Enqueue(t, ToSet(call[t].events))
             /\ lock' = Released(t)
             /\ call' = [call EXCEPT ![t].left = {}]
             /\ UNCHANGED <<signaled, owed>>

Woken(t) ==
    /\ pc[t] = "test" /\ ~ Single(t) /\ fired[t]
    /\ swLock' = [swLock EXCEPT ![t] = None]
    /\ Go(t, "undo")
    /\ UNCHANGED <<kernelVars, fired, by, call, owed>>

(* The waiter leaves the list of each event but the one that fired it.      *)
Undo(t) ==
    /\ pc[t] = "undo"
    /\ LET e    == Head(call[t].events)
           rest == Tail(call[t].events) IN
       /\ e # by[t] => Free(e)
       /\ waiters' = IF e = by[t] THEN waiters ELSE [waiters EXCEPT ![e] = Without(@, t)]
       /\ IF rest # << >>
          THEN call' = [call EXCEPT ![t].events = rest] /\ UNCHANGED <<pc, owed>>
          ELSE Return(t) /\ Got(by[t])
    /\ UNCHANGED <<signaled, lock, waiterVars>>

-----------------------------------------------------------------------------
Begin(t) ==
    \/ \E e \in Events : \/ Reset(t, e) \/ IsSignaled(t, e) \/ Signal(t, e)
                         \/ \E timed \in BOOLEAN : WaitTimeout(t, e, timed)
    \/ \E a \in Arrays : WaitMultiple(t, a)

Continue(t) ==
    \/ Fire(t) \/ NobodyLeft(t)
    \/ Test(t) \/ Leave(t) \/ Dequeue(t)
    \/ EnqueueMultiple(t) \/ Woken(t) \/ Undo(t)

Next == \E t \in Threads : Begin(t) \/ Continue(t) \/ Wake(t)

Spec == Init /\ [][Next]_vars
-----------------------------------------------------------------------------
(* Every variable has its type.                                             *)
TypeOK ==
    /\ signaled \in [Events -> BOOLEAN]
    /\ waiters \in [Events -> Seq(Threads)]
    /\ lock \in [Events -> Threads \cup {None}]
    /\ fired \in [Threads -> BOOLEAN]
    /\ by \in [Threads -> Events \cup {None}]
    /\ swLock \in [Threads -> Threads \cup {None}]
    /\ pc \in [Threads -> {"idle", "fire", "test", "sleep", "dequeue", "many", "undo"}]
    /\ call \in [Threads -> [events : Seq(Events), left : SUBSET Events,
                             many : BOOLEAN, timed : BOOLEAN, result : BOOLEAN]]
    /\ owed \in [Events -> Nat]

(* e has fired t, and t's call will say so.                                 *)
Delivered(t, e) ==
    /\ by[t] = e
    /\ \/ pc[t] \in {"test", "sleep", "undo"} /\ fired[t]
       \/ pc[t] = "dequeue" /\ call[t].result

Firing(t, e) == pc[t] = "fire" /\ Head(call[t].events) = e

(* A signal of an auto-reset event is got once: it stays with the event, or *)
(* it is being delivered, or it is with one waiter whose wait will return   *)
(* it.  No timeout and no second event that fires the same waiter loses it  *)
(* (waitable_event_posix.cpp 211-217, waitable_event.h 73-83).              *)
SignalsConserved ==
    \A e \in Events \ Manual :
        owed[e] = (IF signaled[e] THEN 1 ELSE 0)
                  + Cardinality({t \in Threads : Delivered(t, e) \/ Firing(t, e)})

(* Nobody sleeps in the list of an event that is signaled.                  *)
SignaledMeansNoneWait ==
    \A e \in Events : signaled[e] /\ lock[e] = None =>
        \A t \in ToSet(waiters[e]) : fired[t]

(* A SyncWaiter lives on the stack of its thread: while it is in a list,    *)
(* where it is at most once, the thread is in a wait for that event.        *)
WaitersAlive ==
    \A e \in Events :
        /\ IsInjective(waiters[e])
        /\ \A t \in ToSet(waiters[e]) :
             /\ pc[t] \in {"test", "sleep", "dequeue", "undo"}
             /\ e \in ToSet(call[t].events)

(* The lists are true: a signaled event leaves nobody asleep in its list,   *)
(* and no list names a thread that is not in a wait for its event.          *)
ListsTrue == SignaledMeansNoneWait /\ WaitersAlive

(* t waits for a mutex that another thread has: that of a waiter it would   *)
(* fire, or of the event whose list or flag it would look at.               *)
Blocked(t) ==
    LET e == Head(call[t].events) IN
    \/ pc[t] = "fire" /\ waiters[e] # << >> /\ swLock[Head(waiters[e])] # None
    \/ pc[t] = "dequeue" /\ ~ Free(e)
    \/ pc[t] = "undo" /\ e # by[t] /\ ~ Free(e)
    \/ pc[t] = "many" /\ ~ Free(NextLock(t))

InCall(t) == pc[t] \notin {"idle", "sleep"}

(* While a thread is in a call and not asleep, one of them can go on: the   *)
(* locks are taken in the order of their addresses, and a waiter's last.    *)
SomeoneProceeds ==
    (\E t \in Threads : InCall(t)) => \E t \in Threads : InCall(t) /\ ~ Blocked(t)

(* Nothing but a mutex holds up a call that is not asleep: there is a way   *)
(* out of every wait, whether it was fired, ran out of time or neither.     *)
OnlyLocksBlock ==
    \A t \in Threads : InCall(t) => (Blocked(t) <=> ~ ENABLED Continue(t))

(* t waits, and no event has fired its waiter.                              *)
Waiting(t) == pc[t] \in {"test", "sleep"} /\ ~ fired[t]

(* u is before t in a list; in that of an event.                            *)
Precedes(q, u, t) == \E i, j \in DOMAIN q : i < j /\ q[i] = u /\ q[j] = t
Before(u, t)      == \E e \in Events : Precedes(waiters[e], u, t)

(* The events of a WaitMultiple that still looks at their flags.            *)
Asks      == [t \in Threads |-> IF pc[t] = "many" THEN ToSet(call[t].events) ELSE {}]
Signaling == {e \in Events : \E t \in Threads : Firing(t, e)}
Wants     == [t \in Threads |-> IF Waiting(t) THEN ToSet(call[t].events) ELSE {}]
Timed     == {t \in Threads : Waiting(t) /\ call[t].timed}
Ahead     == [t \in Threads |->
                {u \in Threads : Waiting(t) /\ Waiting(u) /\ Before(u, t)}]
Given     == [t \in Threads |-> IF \E e \in Events : Delivered(t, e) THEN by[t] ELSE None]

(* Seen from outside, events are EventSignals: a wait joins the lines of    *)
(* all its events at once, and only while none is signaled; else it takes   *)
(* the one with the least address of those that are; a signal goes          *)
(* to the thread that waited longest, whatever else that thread waits for,  *)
(* to no other if the event is auto-reset, and is returned by its wait; a   *)
(* thread without a timeout never gives up; and an event stays signaled     *)
(* only when nobody waits for it.                                           *)
Signals == INSTANCE EventSignals WITH
    signaling <- Signaling, asks <- Asks, wants <- Wants, timed <- Timed,
    ahead <- Ahead, got <- Given

ImplementsEventSignals == Signals!Spec
=============================================================================
