----------------------------- MODULE TaskRunner -----------------------------
(***************************************************************************)
(* What nbase::MessageLoop promises its users, with no queue, lock, event  *)
(* or pump in it: closures handed to one thread are accepted in an order,  *)
(* started one at a time (a nested loop stacks them) and finished once.    *)
(* MessageLoop.tla implements this specification, and so does the loop of  *)
(* a thread with windows, WinUIMessagePump.tla.                            *)
(***************************************************************************)
EXTENDS Naturals, Sequences

CONSTANTS Tasks,        \* the closures that may be posted
          NonNestable,  \* those posted with PostNonNestable(Delayed)Task
          Delayed       \* those posted with a delay

VARIABLES accepted,  \* the tasks accepted so far, in order of acceptance
          due,       \* delayed_run_time of each accepted task, 0 for none
          running,   \* the tasks being executed, outermost first
          done,      \* the tasks that have returned
          now        \* the clock

vars == <<accepted, due, running, done, now>>

Elements(s) == {s[i] : i \in DOMAIN s}
Waiting     == Elements(accepted) \ (Elements(running) \cup done)
Plain       == Tasks \ (NonNestable \cup Delayed)

(* The order in which two accepted tasks must start: PostTask is first in   *)
(* first out, and of two delayed tasks the one posted first wins unless the *)
(* other one is due earlier.                                                *)
MustPrecede(t, u) ==
    /\ \E i, j \in DOMAIN accepted : i < j /\ accepted[i] = t /\ accepted[j] = u
    /\ \/ {t, u} \subseteq Plain
       \/ {t, u} \subseteq Delayed \ NonNestable /\ due[t] <= due[u]

Init == /\ accepted = << >>
        /\ due      = [t \in Tasks |-> 0]
        /\ running  = << >>
        /\ done     = {}
        /\ now      = 1

Accept(t) ==
    /\ t \notin Elements(accepted)
    /\ accepted' = Append(accepted, t)
    /\ due'[t] \in Nat /\ (t \in Delayed <=> due'[t] # 0)
    /\ due' = [due EXCEPT ![t] = due'[t]]
    /\ UNCHANGED <<running, done, now>>

Start(t) ==
    /\ t \in Waiting
    /\ t \in NonNestable => running = << >>
    /\ due[t] <= now
    /\ \A u \in Waiting : ~ MustPrecede(u, t)
    /\ running' = Append(running, t)
    /\ UNCHANGED <<accepted, due, done, now>>

Finish ==
    /\ running # << >>
    /\ done'    = done \cup {running[Len(running)]}
    /\ running' = SubSeq(running, 1, Len(running) - 1)
    /\ UNCHANGED <<accepted, due, now>>

Tick == now' = now + 1 /\ UNCHANGED <<accepted, due, running, done>>

Next == \/ \E t \in Tasks : Accept(t) \/ Start(t)
        \/ Finish
        \/ Tick

Spec == Init /\ [][Next]_vars
=============================================================================
