---------------------------- MODULE EventSignals ----------------------------
(***************************************************************************)
(* What nbase::WaitableEvent promises its users, with no lock, list,       *)
(* SyncWaiter or array in it: a thread waits for a set of events and is    *)
(* given one of them, or gives up.  WaitableEvent.tla implements this.     *)
(***************************************************************************)
EXTENDS Naturals

CONSTANTS Threads, None, Events, Manual

VARIABLES signaled,   \* the flag of each event
          signaling,  \* the events for which a Signal is under way
          asks,       \* the events each thread is about to wait for together
          wants,      \* the events each thread waits for, {} if it does not
          timed,      \* the threads whose wait has a timeout
          ahead,      \* the threads that already waited for one of its events
          got         \* the event each thread has been given, None if none

vars == <<signaled, signaling, asks, wants, timed, ahead, got>>

Init == /\ signaled \in [Events -> BOOLEAN]
        /\ signaling = {}
        /\ asks = [t \in Threads |-> {}]
        /\ wants = [t \in Threads |-> {}]
        /\ timed = {}
        /\ ahead = [t \in Threads |-> {}]
        /\ got = [t \in Threads |-> None]

Out(t) == wants[t] = {} /\ got[t] = None

(* A wait for several events does not see all of them at one time.          *)
Ask(t, S) ==
    /\ Out(t) /\ asks[t] = {} /\ S # {}
    /\ asks' = [asks EXCEPT ![t] = S]
    /\ UNCHANGED <<signaled, signaling, wants, timed, ahead, got>>

Answered(t) == asks' = [asks EXCEPT ![t] = {}]

(* A wait that finds its event signaled, or, of several, the one with the   *)
(* least address of those that are, takes it: it is reset if not manual.    *)
Take(t, e) ==
    /\ Out(t) /\ signaled[e]
    /\ asks[t] # {} => e \in asks[t] /\ \A f \in asks[t] : signaled[f] => e <= f
    /\ Answered(t)
    /\ signaled' = [signaled EXCEPT ![e] = e \in Manual]
    /\ UNCHANGED <<signaling, wants, timed, ahead, got>>

Reset(e) ==
    /\ signaled[e]
    /\ signaled' = [signaled EXCEPT ![e] = FALSE]
    /\ UNCHANGED <<signaling, asks, wants, timed, ahead, got>>

(* A wait that finds none of them signaled joins all lines in one step.     *)
(* Only a wait for one event may have a timeout.                            *)
Join(t, S, hasTimeout) ==
    /\ Out(t)
    /\ IF asks[t] = {} THEN \E e \in S : S = {e} ELSE S = asks[t] /\ ~ hasTimeout
    /\ Answered(t)
    /\ \A e \in S : ~ signaled[e] /\ e \notin signaling
    /\ wants' = [wants EXCEPT ![t] = S]
    /\ timed' = IF hasTimeout THEN timed \cup {t} ELSE timed
    /\ ahead' = [ahead EXCEPT ![t] = {u \in Threads : wants[u] \cap S # {}}]
    /\ UNCHANGED <<signaled, signaling, got>>

Leaves(t) ==
    /\ wants' = [wants EXCEPT ![t] = {}]
    /\ timed' = timed \ {t}
    /\ ahead' = [u \in Threads |-> IF u = t THEN {} ELSE ahead[u] \ {t}]

GiveUp(t) ==
    /\ wants[t] # {} /\ t \in timed
    /\ Leaves(t)
    /\ UNCHANGED <<signaled, signaling, asks, got>>

Return(t) ==
    /\ got[t] # None
    /\ got' = [got EXCEPT ![t] = None]
    /\ UNCHANGED <<signaled, signaling, asks, wants, timed, ahead>>

Signal(e) ==
    /\ e \notin signaling /\ ~ signaled[e]
    /\ signaling' = signaling \cup {e}
    /\ UNCHANGED <<signaled, asks, wants, timed, ahead, got>>

(* Signal gives the event to the thread that has waited longest for it; an  *)
(* auto-reset event to this one only.                                       *)
Give(e, t) ==
    /\ e \in signaling /\ e \in wants[t]
    /\ \A u \in ahead[t] : e \notin wants[u]
    /\ got' = [got EXCEPT ![t] = e]
    /\ Leaves(t)
    /\ signaling' = IF e \in Manual THEN signaling ELSE signaling \ {e}
    /\ UNCHANGED <<signaled, asks>>

(* The event becomes signaled when nobody is left who waits for it.         *)
Raise(e) ==
    /\ e \in signaling
    /\ \A t \in Threads : e \notin wants[t]
    /\ signaled' = [signaled EXCEPT ![e] = TRUE]
    /\ signaling' = signaling \ {e}
    /\ UNCHANGED <<asks, wants, timed, ahead, got>>

Next == \/ \E e \in Events : \/ Reset(e) \/ Signal(e) \/ Raise(e)
                             \/ \E t \in Threads : Take(t, e) \/ Give(e, t)
        \/ \E t \in Threads : \/ GiveUp(t) \/ Return(t)
                              \/ \E S \in SUBSET Events : Ask(t, S)
                              \/ \E S \in SUBSET Events, hasTimeout \in BOOLEAN :
                                    Join(t, S, hasTimeout)

Spec == Init /\ [][Next]_vars
=============================================================================
