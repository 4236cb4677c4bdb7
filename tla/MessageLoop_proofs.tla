------------------------- MODULE MessageLoop_proofs -------------------------
(***************************************************************************)
(* MessageLoop's safety for every set of tasks and posters, every script,  *)
(* any nesting and any run time.                                           *)
(***************************************************************************)
EXTENDS MessageLoop, TLAPS, FiniteSetTheorems, SequenceTheorems, WellFoundedInduction

(* The owner is between DoWork's and the wait's, having found nothing to do. *)
FoundNothing(pcs) ==
    /\ depth > 0 /\ Top.task = NoTask /\ nestableAllowed
    /\ Top.pc \in pcs
    /\ Top.pc = "delayed" => ~ Top.did

(* Every activation of Run but the innermost is inside a task.              *)
OuterBusy == \A d \in Levels : d < depth => frame[d].task # NoTask

(* nestable_tasks_allowed_ is what the innermost task being executed last   *)
(* set it to, and TRUE when there is none.                                  *)
NestingInv ==
    /\ Innermost = 0 => nestableAllowed
    /\ Innermost > 0 => nestableAllowed = frame[Innermost].allows
    /\ \A d \in Levels : d < Innermost => frame[d].allows

(* A task that entered an empty incoming_queue_ is found or signaled.       *)
WakeInv ==
    FoundNothing({"delayed", "idle", "sleep", "wait", "timedwait"}) /\ incoming # << >>
        => signaled \/ \E p \in Posters : poster[p].pc = "schedule"

(* The work queue stays empty from DoWork to the wait.                      *)
DrainInv ==
    /\ FoundNothing({"delayed", "idle", "sleep", "wait", "timedwait"}) => work = << >>
    /\ FoundNothing({"sleep", "wait", "timedwait"})
         => (depth = 1 => deferred = << >>) /\ ~ Top.quit

(* From DoDelayedWork to the wait the pump's time bounds every delayed task.*)
TimerInv ==
    /\ \A e \in delayed : e.time # 0
    /\ FoundNothing({"idle", "sleep", "wait", "timedwait"})
         => \A e \in delayed : delayedWorkTime # 0 /\ delayedWorkTime <= e.time
    /\ FoundNothing({"wait"}) => delayedWorkTime = 0

(* should_quit_ is set only inside a task or on the way out of Run.         *)
QuitInv ==
    shouldQuit => depth > 0 /\ (InTask \/ Top.pc = "return")

IInv == /\ TypeOK
        /\ OuterBusy
        /\ NestingInv
        /\ WakeInv
        /\ DrainInv
        /\ TimerInv
        /\ QuitInv

-----------------------------------------------------------------------------
(* Facts about the operators.                                               *)

(* A non-empty set of naturals has a least element.                         *)
LEMMA LeastNatural ==
    ASSUME NEW S, S \subseteq Nat, S # {}
    PROVE  \E m \in S : \A n \in S : m <= n
<1>1. \E m \in S : \A n \in S : <<n, m>> \notin OpToRel(<, Nat)
  BY WFMin, NatLessThanWellFounded
<1>2. PICK m \in S : \A n \in S : <<n, m>> \notin OpToRel(<, Nat)
  BY <1>1
<1>3. \A n \in S : m <= n
  <2>1. ASSUME NEW n \in S PROVE m <= n
    <3>1. m \in Nat /\ n \in Nat
      OBVIOUS
    <3>2. ~ (n < m)
      BY <1>2, <3>1 DEF OpToRel
    <3>3. QED
      BY <3>1, <3>2
  <2>2. QED
    BY <2>1
<1>4. QED
  BY <1>2, <1>3

(* The priority queue's top is one of its elements, and no other runs       *)
(* before it (PendingTask::operator<).                                      *)
LEMMA EarliestIsFirst ==
    ASSUME NEW q, q \subseteq Entry, q # {}
    PROVE  /\ Earliest(q) \in q
           /\ \A f \in q : Earliest(q).time <= f.time
           /\ \A f \in q : ~ Before(f, Earliest(q))
<1> DEFINE Times == {e.time : e \in q}
<1>1. PICK t \in Times : \A n \in Times : t <= n
  <2>1. Times # {} /\ Times \subseteq Nat
    BY DEF Entry
  <2>2. QED
    BY <2>1, LeastNatural
<1> DEFINE Seqs == {e.seq : e \in {f \in q : f.time = t}}
<1>2. PICK n \in Seqs : \A k \in Seqs : n <= k
  <2>1. Seqs # {} /\ Seqs \subseteq Nat
    BY <1>1 DEF Entry
  <2>2. QED
    BY <2>1, LeastNatural
<1>3. PICK e \in q : e.time = t /\ e.seq = n
  OBVIOUS
<1>4. \A f \in q : ~ Before(f, e)
  <2>1. ASSUME NEW f \in q PROVE ~ Before(f, e)
    <3>1. /\ f.time \in Nat /\ f.seq \in Nat
          /\ e.time \in Nat /\ e.seq \in Nat
      BY DEF Entry
    <3>2. e.time <= f.time
      BY <1>1, <1>3
    <3>3. f.time = e.time => e.seq <= f.seq
      BY <1>2, <1>3
    <3>4. QED
      BY <3>1, <3>2, <3>3 DEF Before
  <2>2. QED
    BY <2>1
<1>5. Earliest(q) \in q /\ \A f \in q : ~ Before(f, Earliest(q))
  BY <1>4 DEF Earliest
<1>6. ASSUME NEW f \in q PROVE Earliest(q).time <= f.time
  BY <1>5 DEF Before, Entry
<1>7. QED
  BY <1>5, <1>6

(* Replacing the innermost activation keeps the type of the stack.          *)
LEMMA SetTopType ==
    ASSUME TypeOK, depth > 0, NEW f \in Frame, SetTop(f)
    PROVE  /\ frame' \in [Levels -> Frame]
           /\ frame'[depth] = f
           /\ \A d \in Levels : d # depth => frame'[d] = frame[d]
BY DEF TypeOK, SetTop, Levels

LEMMA TopType ==
    ASSUME TypeOK, depth > 0
    PROVE  depth \in Levels /\ Top \in Frame
BY BoundsAssumption DEF TypeOK, Top, Levels

-----------------------------------------------------------------------------
(* Every variable has its type in every reachable state.                    *)

LEMMA TypeInit == Init => TypeOK
<1>1. NewFrame(FALSE) \in Frame
  BY DEF NewFrame, Frame, PumpPc
<1>2. ASSUME Init PROVE frame \in [Levels -> Frame] /\ depth \in 0..MaxDepth
  <2>1. frame = [d \in Levels |-> NewFrame(FALSE)]
    BY <1>2 DEF Init
  <2>2. depth = 0
    BY <1>2 DEF Init
  <2>3. frame \in [Levels -> Frame]
    BY <1>1, <2>1
  <2>4. QED
    BY <2>2, <2>3, BoundsAssumption
<1>3. ASSUME Init
      PROVE  /\ poster \in [Posters -> [pc : {"idle", "enqueue", "schedule"},
                                        task : Tasks \cup {NoTask}]]
             /\ \A p \in Posters : poster[p].pc = "enqueue" => poster[p].task \in Tasks
  BY <1>3 DEF Init
<1>4. ASSUME Init
      PROVE  /\ incoming \in Seq(Tasks) /\ order \in Seq(Tasks)
             /\ work \in Seq(Tasks) /\ deferred \in Seq(Tasks)
             /\ delayed \subseteq Entry /\ done \subseteq Tasks
             /\ due \in [Tasks -> Nat]
  BY <1>4, EmptySeq DEF Init
<1>5. ASSUME Init PROVE TypeOK
  BY <1>2, <1>3, <1>4, <1>5 DEF Init, TypeOK
<1>6. QED
  BY <1>5

LEMMA StampDueType ==
    ASSUME TypeOK, NEW t \in Tasks, StampDue(t)
    PROVE  due' \in [Tasks -> Nat]
<1>1. Delay[t] \in Nat /\ now \in Nat /\ due \in [Tasks -> Nat]
  BY TasksAssumption DEF TypeOK
<1>2. (IF t \in Delayed THEN now + Delay[t] ELSE 0) \in Nat
  BY <1>1
<1>3. QED
  BY <1>1, <1>2 DEF StampDue

LEMMA StartTaskType ==
    ASSUME TypeOK, depth > 0, NEW t \in Tasks, StartTask(t)
    PROVE  frame' \in [Levels -> Frame] /\ nestableAllowed' \in BOOLEAN
<1>1. [Top EXCEPT !.task = t, !.ops = Script[t], !.allows = FALSE] \in Frame
  BY TopType, TasksAssumption DEF Frame
<1>2. QED
  BY <1>1, SetTopType DEF StartTask

LEMMA NoDelayedWorkType ==
    ASSUME TypeOK, depth > 0, NoDelayedWork
    PROVE  frame' \in [Levels -> Frame]
<1>1. [Top EXCEPT !.did = FALSE,
         !.pc = Onward(IF Top.did THEN "work" ELSE "idle")] \in Frame
  BY TopType DEF Frame, Onward, PumpPc
<1>2. QED
  BY <1>1, SetTopType DEF NoDelayedWork

LEMMA PosterType ==
    ASSUME TypeOK, NEW p \in Posters, PosterStep(p)
    PROVE  TypeOK'
<1>1. ASSUME NEW t \in Tasks, PostTask(p, t) PROVE TypeOK'
  <2>1. due' \in [Tasks -> Nat]
    BY <1>1, StampDueType DEF PostTask
  <2>2. QED
    BY <1>1, <2>1
       DEF PostTask, TypeOK, sharedVars, queueVars, timerVars, ghostVars
<1>2. ASSUME AddToIncomingQueue(p) PROVE TypeOK'
  <2>1. poster[p].task \in Tasks
    BY <1>2 DEF AddToIncomingQueue, TypeOK
  <2>2. incoming' \in Seq(Tasks) /\ order' \in Seq(Tasks)
    BY <1>2, <2>1, AppendProperties DEF AddToIncomingQueue, Push, TypeOK
  <2>3. QED
    BY <1>2, <2>2 DEF AddToIncomingQueue, TypeOK, queueVars, timerVars
<1>3. ASSUME ScheduleWork(p) PROVE TypeOK'
  BY <1>3 DEF ScheduleWork, TypeOK, queueVars, timerVars, ghostVars
<1>4. QED
  BY <1>1, <1>2, <1>3 DEF PosterStep

LEMMA ClientType ==
    ASSUME TypeOK, ClientCall
    PROVE  TypeOK'
<1>1. ASSUME NEW op, MayCall(op) PROVE depth > 0 /\ Called(op) \in Frame
  <2>1. depth > 0
    BY <1>1 DEF MayCall, InTask
  <2>2. QED
    BY <2>1, TopType DEF Called, Frame
<1>2. ASSUME NEW t \in Tasks, PostFromOwner(t) PROVE TypeOK'
  <2>1. due' \in [Tasks -> Nat]
    BY <1>2, StampDueType DEF PostFromOwner
  <2>2. incoming' \in Seq(Tasks) /\ order' \in Seq(Tasks)
    BY <1>2, AppendProperties DEF PostFromOwner, Push, TypeOK
  <2>3. frame' \in [Levels -> Frame]
    BY <1>1, <1>2, SetTopType DEF PostFromOwner, TypeOK
  <2>4. signaled' \in BOOLEAN
    BY <1>2 DEF PostFromOwner
  <2>5. QED
    BY <1>2, <2>1, <2>2, <2>3, <2>4
       DEF PostFromOwner, TypeOK, queueVars, timerVars
<1>3. ASSUME NEW op \in {"Run", "RunAllPending"}, Run(op) PROVE TypeOK'
  <2>1. NewFrame(op = "RunAllPending") \in Frame
    BY DEF NewFrame, Frame, PumpPc
  <2>2. depth > 0 => Called(op) \in Frame
    BY <1>1, <1>3 DEF Run, TypeOK
  <2>3. frame' \in [Levels -> Frame]
    BY <1>3, <2>1, <2>2 DEF Run, TypeOK, Levels
  <2>4. depth' \in 0..MaxDepth
    BY <1>3, BoundsAssumption DEF Run, TypeOK
  <2>5. QED
    BY <1>3, <2>3, <2>4
       DEF Run, TypeOK, sharedVars, queueVars, timerVars, ghostVars
<1>4. ASSUME Quit PROVE TypeOK'
  <2>1. [Called("Quit") EXCEPT !.quit = TRUE] \in Frame
    BY <1>1, <1>4 DEF Quit, Frame
  <2>2. frame' \in [Levels -> Frame]
    BY <1>1, <1>4, <2>1, SetTopType DEF Quit
  <2>3. QED
    BY <1>4, <2>2 DEF Quit, TypeOK, sharedVars, queueVars, timerVars, ghostVars
<1>5. ASSUME QuitNow PROVE TypeOK'
  <2>1. frame' \in [Levels -> Frame]
    BY <1>1, <1>5, SetTopType DEF QuitNow
  <2>2. QED
    BY <1>5, <2>1 DEF QuitNow, TypeOK, sharedVars, queueVars, timerVars, ghostVars
<1>6. ASSUME NEW allowed \in BOOLEAN, SetNestableTasksAllowed(allowed)
      PROVE  TypeOK'
  <2> DEFINE op == IF allowed THEN "Allow" ELSE "Forbid"
  <2>1. MayCall(op) /\ SetTop([Called(op) EXCEPT !.allows = allowed])
    BY <1>6 DEF SetNestableTasksAllowed
  <2>2. depth > 0 /\ [Called(op) EXCEPT !.allows = allowed] \in Frame
    BY <1>1, <2>1 DEF Frame
  <2>3. frame' \in [Levels -> Frame]
    BY <2>1, <2>2, SetTopType
  <2>4. signaled' \in BOOLEAN /\ nestableAllowed' \in BOOLEAN
    BY <1>6 DEF SetNestableTasksAllowed
  <2>5. QED
    BY <1>6, <2>3, <2>4
       DEF SetNestableTasksAllowed, TypeOK, queueVars, timerVars, ghostVars
<1>7. QED
  BY <1>2, <1>3, <1>4, <1>5, <1>6 DEF ClientCall

LEMMA LoopType ==
    ASSUME TypeOK, LoopStep
    PROVE  TypeOK'
<1>1. ASSUME ReloadWorkQueue PROVE TypeOK'
  <2>1. work' \in Seq(Tasks) /\ incoming' \in Seq(Tasks)
    BY <1>1, EmptySeq DEF ReloadWorkQueue, TypeOK
  <2>2. QED
    BY <1>1, <2>1 DEF ReloadWorkQueue, TypeOK, timerVars, ghostVars
<1>2. ASSUME AddToDelayedWorkQueue PROVE TypeOK'
  <2>1. Head(work) \in Tasks /\ work' \in Seq(Tasks)
    BY <1>2, HeadTailProperties DEF AddToDelayedWorkQueue, TypeOK
  <2>2. due[Head(work)] \in Nat
    BY <2>1 DEF TypeOK
  <2>3. delayed' \subseteq Entry
    BY <1>2, <2>1, <2>2 DEF AddToDelayedWorkQueue, TypeOK, Entry
  <2>4. delayedWorkTime' \in Nat
    BY <1>2, <2>2 DEF AddToDelayedWorkQueue, TypeOK
  <2>5. QED
    BY <1>2, <2>1, <2>3, <2>4
       DEF AddToDelayedWorkQueue, TypeOK, sharedVars, ghostVars
<1>3. ASSUME RunOrDeferWork PROVE TypeOK'
  <2>1. Head(work) \in Tasks /\ work' \in Seq(Tasks)
    BY <1>3, HeadTailProperties DEF RunOrDeferWork, TypeOK
  <2>2. deferred' \in Seq(Tasks)
    <3>1. Append(deferred, Head(work)) \in Seq(Tasks)
      BY <2>1, AppendProperties DEF TypeOK
    <3>2. QED
      BY <1>3, <3>1 DEF RunOrDeferWork, TypeOK
  <2>3. frame' \in [Levels -> Frame] /\ nestableAllowed' \in BOOLEAN
    <3>1. CASE StartTask(Head(work))
      BY <1>3, <2>1, <3>1, StartTaskType DEF RunOrDeferWork, AtPump
    <3>2. CASE UNCHANGED <<nestableAllowed, frame>>
      BY <3>2 DEF TypeOK
    <3>3. QED
      BY <1>3, <3>1, <3>2 DEF RunOrDeferWork
  <2>4. QED
    BY <1>3, <2>1, <2>2, <2>3
       DEF RunOrDeferWork, TypeOK, sharedVars, timerVars, ghostVars
<1>4. ASSUME EndDoWork PROVE TypeOK'
  <2>1. [Top EXCEPT !.did = FALSE, !.pc = Onward("delayed")] \in Frame
    BY <1>4, TopType DEF EndDoWork, AtPump, Frame, Onward, PumpPc
  <2>2. frame' \in [Levels -> Frame]
    BY <1>4, <2>1, SetTopType DEF EndDoWork, AtPump
  <2>3. QED
    BY <1>4, <2>2
       DEF EndDoWork, TypeOK, sharedVars, queueVars, timerVars, ghostVars
<1>5. ASSUME SkipDelayedWork PROVE TypeOK'
  <2>1. frame' \in [Levels -> Frame]
    BY <1>5, NoDelayedWorkType DEF SkipDelayedWork, AtPump
  <2>2. QED
    BY <1>5, <2>1 DEF SkipDelayedWork, TypeOK, sharedVars, queueVars, ghostVars
<1>6. ASSUME AwaitDelayedWork PROVE TypeOK'
  <2>1. frame' \in [Levels -> Frame]
    BY <1>6, NoDelayedWorkType DEF AwaitDelayedWork, AtPump
  <2>2. delayedWorkTime' \in Nat
    <3>1. Earliest(delayed) \in Entry
      BY <1>6, EarliestIsFirst DEF AwaitDelayedWork, TypeOK
    <3>2. QED
      BY <1>6, <3>1 DEF AwaitDelayedWork, Entry
  <2>3. QED
    BY <1>6, <2>1, <2>2
       DEF AwaitDelayedWork, TypeOK, sharedVars, queueVars, ghostVars
<1>7. ASSUME RunOrDeferDelayedWork PROVE TypeOK'
  <2> DEFINE e    == Earliest(delayed)
             rest == delayed \ {e}
  <2>1. e \in Entry /\ e.task \in Tasks
    <3>1. delayed \subseteq Entry /\ delayed # {}
      BY <1>7 DEF RunOrDeferDelayedWork, TypeOK
    <3>2. e \in delayed
      BY <3>1, EarliestIsFirst
    <3>3. QED
      BY <3>1, <3>2 DEF Entry
  <2>2. delayedWorkTime' \in Nat
    <3>1. rest # {} => Earliest(rest) \in Entry
      BY EarliestIsFirst DEF TypeOK
    <3>2. QED
      BY <1>7, <3>1 DEF RunOrDeferDelayedWork, TypeOK, Entry
  <2>3. deferred' \in Seq(Tasks)
    <3>1. Append(deferred, e.task) \in Seq(Tasks)
      BY <2>1, AppendProperties DEF TypeOK
    <3>2. QED
      BY <1>7, <3>1 DEF RunOrDeferDelayedWork, TypeOK
  <2>4. frame' \in [Levels -> Frame] /\ nestableAllowed' \in BOOLEAN
    <3>1. CASE StartTask(e.task)
      BY <1>7, <2>1, <3>1, StartTaskType DEF RunOrDeferDelayedWork, AtPump
    <3>2. CASE NoDelayedWork /\ UNCHANGED nestableAllowed
      BY <1>7, <3>2, NoDelayedWorkType DEF RunOrDeferDelayedWork, AtPump, TypeOK
    <3>3. QED
      BY <1>7, <3>1, <3>2 DEF RunOrDeferDelayedWork
  <2>5. recentTick' \in Nat /\ delayed' \subseteq Entry
    BY <1>7 DEF RunOrDeferDelayedWork, TypeOK
  <2>6. QED
    BY <1>7, <2>2, <2>3, <2>4, <2>5
       DEF RunOrDeferDelayedWork, TypeOK, sharedVars, ghostVars
<1>8. ASSUME ProcessNextDelayedNonNestableTask PROVE TypeOK'
  <2>1. Head(deferred) \in Tasks /\ deferred' \in Seq(Tasks)
    BY <1>8, HeadTailProperties DEF ProcessNextDelayedNonNestableTask, TypeOK
  <2>2. frame' \in [Levels -> Frame] /\ nestableAllowed' \in BOOLEAN
    BY <1>8, <2>1, StartTaskType DEF ProcessNextDelayedNonNestableTask, AtPump
  <2>3. QED
    BY <1>8, <2>1, <2>2
       DEF ProcessNextDelayedNonNestableTask, TypeOK, sharedVars, timerVars, ghostVars
<1>9. ASSUME DoIdleWork PROVE TypeOK'
  <2>1. shouldQuit' \in BOOLEAN
    BY <1>9, TopType DEF DoIdleWork, AtPump, TypeOK, Frame
  <2>2. [Top EXCEPT !.pc = IF shouldQuit' THEN "return" ELSE "sleep"] \in Frame
    BY <1>9, TopType DEF DoIdleWork, AtPump, Frame, PumpPc
  <2>3. frame' \in [Levels -> Frame]
    BY <1>9, <2>2, SetTopType DEF DoIdleWork, AtPump
  <2>4. QED
    BY <1>9, <2>1, <2>3
       DEF DoIdleWork, TypeOK, sharedVars, queueVars, timerVars, ghostVars
<1>10. ASSUME Sleep PROVE TypeOK'
  <2>1. \A pc \in PumpPc : [Top EXCEPT !.pc = pc] \in Frame
    BY <1>10, TopType DEF Sleep, AtPump, Frame
  <2>2. frame' \in [Levels -> Frame]
    BY <1>10, <2>1, SetTopType DEF Sleep, AtPump, PumpPc
  <2>3. delayedWorkTime' \in Nat
    BY <1>10 DEF Sleep, TypeOK
  <2>4. QED
    BY <1>10, <2>2, <2>3
       DEF Sleep, TypeOK, sharedVars, queueVars, ghostVars
<1>11. ASSUME Wake PROVE TypeOK'
  <2>1. [Top EXCEPT !.pc = "work"] \in Frame
    BY <1>11, TopType DEF Wake, AtPump, Frame, PumpPc
  <2>2. frame' \in [Levels -> Frame]
    BY <1>11, <2>1, SetTopType DEF Wake, AtPump
  <2>3. signaled' \in BOOLEAN
    BY <1>11 DEF Wake, TypeOK
  <2>4. QED
    BY <1>11, <2>2, <2>3 DEF Wake, TypeOK, queueVars, timerVars, ghostVars
<1>12. ASSUME ReturnFromRun PROVE TypeOK'
  <2>1. NewFrame(FALSE) \in Frame
    BY DEF NewFrame, Frame, PumpPc
  <2>2. frame' \in [Levels -> Frame]
    BY <1>12, <2>1, SetTopType DEF ReturnFromRun, AtPump
  <2>3. depth' \in 0..MaxDepth
    BY <1>12, BoundsAssumption DEF ReturnFromRun, AtPump, TypeOK
  <2>4. QED
    BY <1>12, <2>2, <2>3
       DEF ReturnFromRun, TypeOK, sharedVars, queueVars, timerVars, ghostVars
<1>13. ASSUME FinishTask PROVE TypeOK'
  <2>1. depth > 0 /\ Top.task \in Tasks
    BY <1>13, TopType DEF FinishTask, InTask, Frame
  <2>2. Onward(IF Top.pc = "work" THEN "delayed" ELSE "work") \in PumpPc
    BY DEF Onward, PumpPc
  <2>3. [Top EXCEPT !.task = NoTask, !.ops = {}, !.allows = FALSE,
           !.did = (Top.pc = "work"),
           !.pc = Onward(IF Top.pc = "work" THEN "delayed" ELSE "work")] \in Frame
    BY <2>1, <2>2, TopType DEF Frame
  <2>4. frame' \in [Levels -> Frame]
    BY <1>13, <2>1, <2>3, SetTopType DEF FinishTask
  <2>5. QED
    BY <1>13, <2>1, <2>4
       DEF FinishTask, TypeOK, sharedVars, queueVars, timerVars
<1>14. QED
  BY <1>1, <1>2, <1>3, <1>4, <1>5, <1>6, <1>7, <1>8, <1>9, <1>10, <1>11,
     <1>12, <1>13 DEF LoopStep

LEMMA TypeNext == TypeOK /\ [Next]_vars => TypeOK'
<1> SUFFICES ASSUME TypeOK, [Next]_vars PROVE TypeOK'
  OBVIOUS
<1>1. ASSUME NEW p \in Posters, PosterStep(p) PROVE TypeOK'
  BY <1>1, PosterType
<1>2. CASE ClientCall
  BY <1>2, ClientType
<1>3. CASE LoopStep
  BY <1>3, LoopType
<1>4. CASE Tick
  BY <1>4 DEF Tick, TypeOK, sharedVars, queueVars, timerVars, ghostVars
<1>5. CASE UNCHANGED vars
  BY <1>5 DEF vars, TypeOK, sharedVars, queueVars, timerVars, ghostVars
<1>6. QED
  BY <1>1, <1>2, <1>3, <1>4, <1>5 DEF Next

(* The type invariant holds for every value of the constants.               *)
THEOREM TypeCorrect == Spec => []TypeOK
<1>1. QED
  BY TypeInit, TypeNext, PTL DEF Spec

-----------------------------------------------------------------------------
(* What a step does to the stack of activations.                            *)

SameBelow(d) == \A c \in Levels : c < d => frame'[c] = frame[c]

Quiet == UNCHANGED <<depth, frame, nestableAllowed>>

(* The pump goes from one of its positions to another.                      *)
Moves == /\ depth > 0 /\ depth' = depth /\ SameBelow(depth)
         /\ Top.task = NoTask /\ Top'.task = NoTask
         /\ UNCHANGED nestableAllowed

Starts == /\ depth > 0 /\ depth' = depth /\ SameBelow(depth)
          /\ Top.task = NoTask /\ Top'.task \in Tasks /\ ~ Top'.allows
          /\ nestableAllowed \/ depth = 1
          /\ nestableAllowed' = FALSE

Finishes == /\ depth > 0 /\ depth' = depth /\ SameBelow(depth)
            /\ Top.task # NoTask /\ Top'.task = NoTask
            /\ nestableAllowed' = TRUE
            /\ Top'.pc \in {"delayed", "work", "return"}
            /\ Top'.pc = "delayed" => Top'.did

Calls == /\ depth > 0 /\ depth' = depth /\ SameBelow(depth)
         /\ Top.task # NoTask /\ Top'.task = Top.task
         /\ \/ Top'.allows = Top.allows /\ UNCHANGED nestableAllowed
            \/ nestableAllowed' = Top'.allows

Pushes == /\ depth' = depth + 1 /\ depth' \in Levels /\ SameBelow(depth)
          /\ depth > 0 => /\ Top.task # NoTask
                          /\ frame'[depth].task = Top.task
                          /\ frame'[depth].allows = Top.allows
          /\ frame'[depth'].task = NoTask /\ frame'[depth'].pc = "work"
          /\ UNCHANGED nestableAllowed

Pops == /\ depth > 0 /\ depth' = depth - 1 /\ SameBelow(depth)
        /\ Top.task = NoTask
        /\ UNCHANGED nestableAllowed

LEMMA TouchTop ==
    ASSUME TypeOK, depth > 0, depth' = depth, NEW f \in Frame, SetTop(f)
    PROVE  Top' = f /\ SameBelow(depth)
<1>1. /\ frame'[depth] = f
      /\ \A d \in Levels : d # depth => frame'[d] = frame[d]
  BY SetTopType
<1>2. Top' = f
  BY <1>1 DEF Top
<1>3. SameBelow(depth)
  BY <1>1, TopType DEF SameBelow, Levels
<1>4. QED
  BY <1>2, <1>3

LEMMA StartTaskShape ==
    ASSUME TypeOK, depth > 0, depth' = depth, Top.task = NoTask,
           nestableAllowed \/ depth = 1, NEW t \in Tasks, StartTask(t)
    PROVE  Starts
<1>1. [Top EXCEPT !.task = t, !.ops = Script[t], !.allows = FALSE] \in Frame
  BY TopType, TasksAssumption DEF Frame
<1>2. Top' = [Top EXCEPT !.task = t, !.ops = Script[t], !.allows = FALSE]
  BY <1>1, TouchTop DEF StartTask
<1>3. SameBelow(depth)
  BY <1>1, TouchTop DEF StartTask
<1>4. Top'.task = t /\ Top'.allows = FALSE
  BY <1>2, TopType DEF Frame
<1>5. QED
  BY <1>3, <1>4 DEF Starts, StartTask

LEMMA NoDelayedWorkShape ==
    ASSUME TypeOK, depth > 0, depth' = depth, Top.task = NoTask,
           UNCHANGED nestableAllowed, NoDelayedWork
    PROVE  /\ Moves
           /\ Top'.pc \in {"work", "idle", "return"}
           /\ ~ shouldQuit /\ ~ Top.did => Top'.pc = "idle"
           /\ Top.did => Top'.pc # "idle"
           /\ Top'.did = FALSE /\ Top'.quit = Top.quit
<1> DEFINE f == [Top EXCEPT !.did = FALSE,
                   !.pc = Onward(IF Top.did THEN "work" ELSE "idle")]
<1>1. f \in Frame
  BY TopType DEF Frame, Onward, PumpPc
<1>2. Top' = f /\ SameBelow(depth)
  BY <1>1, TouchTop DEF NoDelayedWork
<1>3. /\ f.task = Top.task /\ f.quit = Top.quit /\ f.did = FALSE
      /\ f.pc = Onward(IF Top.did THEN "work" ELSE "idle")
  BY TopType DEF Frame
<1>4. QED
  BY <1>2, <1>3 DEF Moves, Onward

LEMMA PosterShape ==
    ASSUME NEW p \in Posters, PosterStep(p)
    PROVE  Quiet
BY DEF PosterStep, PostTask, AddToIncomingQueue, ScheduleWork, Quiet

LEMMA CalledShape ==
    ASSUME TypeOK, NEW op, MayCall(op)
    PROVE  /\ depth > 0 /\ Top.task # NoTask
           /\ Called(op) \in Frame
           /\ Called(op).task = Top.task /\ Called(op).allows = Top.allows
BY TopType DEF MayCall, InTask, Called, Frame

LEMMA ClientShape ==
    ASSUME TypeOK, ClientCall
    PROVE  Quiet \/ Calls \/ Pushes
<1>1. ASSUME NEW t \in Tasks, PostFromOwner(t) PROVE Quiet \/ Calls
  <2>1. CASE UNCHANGED frame
    BY <1>1, <2>1 DEF PostFromOwner, Quiet
  <2>2. CASE MayCall("Post") /\ SetTop(Called("Post"))
    <3>1. depth' = depth /\ UNCHANGED nestableAllowed
      BY <1>1 DEF PostFromOwner
    <3>2. QED
      BY <2>2, <3>1, CalledShape, TouchTop DEF Calls
  <2>3. QED
    BY <1>1, <2>1, <2>2 DEF PostFromOwner
<1>2. ASSUME NEW op \in {"Run", "RunAllPending"}, Run(op) PROVE Pushes
  <2>1. depth' = depth + 1 /\ depth' \in Levels /\ UNCHANGED nestableAllowed
    BY <1>2, BoundsAssumption DEF Run, TypeOK, Levels
  <2>2. \A c \in Levels : c < depth => frame'[c] = frame[c]
    BY <1>2 DEF Run, TypeOK
  <2>3. frame'[depth + 1] = NewFrame(op = "RunAllPending")
    BY <1>2, <2>1 DEF Run, TypeOK
  <2>4. depth > 0 => frame'[depth] = Called(op) /\ MayCall(op)
    BY <1>2, TopType DEF Run, TypeOK
  <2>5. depth > 0 => /\ Top.task # NoTask
                     /\ frame'[depth].task = Top.task
                     /\ frame'[depth].allows = Top.allows
    BY <2>4, CalledShape
  <2>6. frame'[depth'].task = NoTask /\ frame'[depth'].pc = "work"
    BY <2>1, <2>3 DEF NewFrame
  <2>7. QED
    BY <2>1, <2>2, <2>5, <2>6 DEF Pushes, SameBelow
<1>3. ASSUME Quit PROVE Calls
  <2> DEFINE f == [Called("Quit") EXCEPT !.quit = TRUE]
  <2>1. MayCall("Quit") /\ SetTop(f) /\ depth' = depth /\ UNCHANGED nestableAllowed
    BY <1>3 DEF Quit
  <2>2. f \in Frame /\ f.task = Top.task /\ f.allows = Top.allows
    BY <2>1, CalledShape DEF Frame
  <2>3. QED
    BY <2>1, <2>2, CalledShape, TouchTop DEF Calls
<1>4. ASSUME QuitNow PROVE Calls
  <2>1. /\ MayCall("QuitNow") /\ SetTop(Called("QuitNow"))
        /\ depth' = depth /\ UNCHANGED nestableAllowed
    BY <1>4 DEF QuitNow
  <2>2. QED
    BY <2>1, CalledShape, TouchTop DEF Calls
<1>5. ASSUME NEW allowed \in BOOLEAN, SetNestableTasksAllowed(allowed) PROVE Calls
  <2> DEFINE op == IF allowed THEN "Allow" ELSE "Forbid"
             f  == [Called(op) EXCEPT !.allows = allowed]
  <2>1. MayCall(op) /\ SetTop(f) /\ depth' = depth /\ nestableAllowed' = allowed
    BY <1>5 DEF SetNestableTasksAllowed
  <2>2. f \in Frame /\ f.task = Top.task /\ f.allows = allowed
    BY <2>1, CalledShape DEF Frame
  <2>3. QED
    BY <2>1, <2>2, CalledShape, TouchTop DEF Calls
<1>6. QED
  BY <1>1, <1>2, <1>3, <1>4, <1>5 DEF ClientCall

LEMMA EndDoWorkShape ==
    ASSUME TypeOK, EndDoWork
    PROVE  Moves /\ Top'.pc \in {"delayed", "return"}
<1> DEFINE f == [Top EXCEPT !.did = FALSE, !.pc = Onward("delayed")]
<1>1. depth > 0 /\ depth' = depth /\ Top.task = NoTask /\ UNCHANGED nestableAllowed
  BY DEF EndDoWork, AtPump
<1>2. f \in Frame /\ f.task = NoTask /\ f.pc = Onward("delayed")
  BY <1>1, TopType DEF Frame, Onward, PumpPc
<1>3. Top' = f /\ SameBelow(depth)
  BY <1>1, <1>2, TouchTop DEF EndDoWork
<1>4. QED
  BY <1>1, <1>2, <1>3 DEF Moves, Onward

LEMMA DoIdleWorkShape ==
    ASSUME TypeOK, DoIdleWork
    PROVE  /\ Moves
           /\ Top'.pc = IF shouldQuit' THEN "return" ELSE "sleep"
           /\ Top'.quit = Top.quit
<1> DEFINE f == [Top EXCEPT !.pc = IF shouldQuit' THEN "return" ELSE "sleep"]
<1>1. depth > 0 /\ depth' = depth /\ Top.task = NoTask /\ UNCHANGED nestableAllowed
  BY DEF DoIdleWork, AtPump
<1>2. /\ f \in Frame /\ f.task = NoTask /\ f.quit = Top.quit
      /\ f.pc = IF shouldQuit' THEN "return" ELSE "sleep"
  BY <1>1, TopType DEF Frame, PumpPc
<1>3. Top' = f /\ SameBelow(depth)
  BY <1>1, <1>2, TouchTop DEF DoIdleWork
<1>4. QED
  BY <1>1, <1>2, <1>3 DEF Moves

LEMMA SleepShape ==
    ASSUME TypeOK, Sleep
    PROVE  /\ Moves
           /\ \/ Top'.pc = "wait" /\ delayedWorkTime = 0 /\ delayedWorkTime' = 0
              \/ Top'.pc = "timedwait" /\ UNCHANGED delayedWorkTime
              \/ Top'.pc = "work"
           /\ Top'.quit = Top.quit
<1>1. depth > 0 /\ depth' = depth /\ Top.task = NoTask /\ UNCHANGED nestableAllowed
  BY DEF Sleep, AtPump
<1>2. ASSUME NEW pc \in PumpPc, SetTop([Top EXCEPT !.pc = pc])
      PROVE  Moves /\ Top'.pc = pc /\ Top'.quit = Top.quit
  <2> DEFINE f == [Top EXCEPT !.pc = pc]
  <2>1. f \in Frame /\ f.task = NoTask /\ f.quit = Top.quit /\ f.pc = pc
    BY <1>1, TopType DEF Frame
  <2>2. Top' = f /\ SameBelow(depth)
    BY <1>1, <1>2, <2>1, TouchTop
  <2>3. QED
    BY <1>1, <2>1, <2>2 DEF Moves
<1>3. "wait" \in PumpPc /\ "timedwait" \in PumpPc /\ "work" \in PumpPc
  BY DEF PumpPc
<1>4. QED
  BY <1>2, <1>3 DEF Sleep

LEMMA WakeShape ==
    ASSUME TypeOK, Wake
    PROVE  Moves /\ Top'.pc = "work"
<1> DEFINE f == [Top EXCEPT !.pc = "work"]
<1>1. depth > 0 /\ depth' = depth /\ Top.task = NoTask /\ UNCHANGED nestableAllowed
  BY DEF Wake, AtPump
<1>2. f \in Frame /\ f.task = NoTask /\ f.pc = "work"
  BY <1>1, TopType DEF Frame, PumpPc
<1>3. Top' = f /\ SameBelow(depth)
  BY <1>1, <1>2, TouchTop DEF Wake
<1>4. QED
  BY <1>1, <1>2, <1>3 DEF Moves

(* The pump's steps that leave a trace on the stack, and where each goes.   *)
LEMMA LoopShape ==
    ASSUME TypeOK, LoopStep
    PROVE  Quiet \/ Moves \/ Starts \/ Finishes \/ Pops
<1>1. ASSUME ReloadWorkQueue \/ AddToDelayedWorkQueue PROVE Quiet
  BY <1>1 DEF ReloadWorkQueue, AddToDelayedWorkQueue, Quiet
<1>2. ASSUME RunOrDeferWork PROVE Quiet \/ Starts
  <2>1. Head(work) \in Tasks
    BY <1>2, HeadTailProperties DEF RunOrDeferWork, TypeOK
  <2>2. depth > 0 /\ Top.task = NoTask /\ nestableAllowed /\ depth' = depth
    BY <1>2 DEF RunOrDeferWork, AtPump
  <2>3. CASE StartTask(Head(work))
    BY <2>1, <2>2, <2>3, StartTaskShape
  <2>4. CASE UNCHANGED <<nestableAllowed, frame>>
    BY <2>2, <2>4 DEF Quiet
  <2>5. QED
    BY <1>2, <2>3, <2>4 DEF RunOrDeferWork
<1>3. ASSUME EndDoWork PROVE Moves
  BY <1>3, EndDoWorkShape
<1>4. ASSUME SkipDelayedWork \/ AwaitDelayedWork PROVE Moves
  BY <1>4, NoDelayedWorkShape DEF SkipDelayedWork, AwaitDelayedWork, AtPump
<1>5. ASSUME RunOrDeferDelayedWork PROVE Starts \/ Moves
  <2> DEFINE e == Earliest(delayed)
  <2>1. e.task \in Tasks
    <3>1. delayed \subseteq Entry /\ delayed # {}
      BY <1>5 DEF RunOrDeferDelayedWork, TypeOK
    <3>2. e \in delayed
      BY <3>1, EarliestIsFirst
    <3>3. QED
      BY <3>1, <3>2 DEF Entry
  <2>2. depth > 0 /\ Top.task = NoTask /\ nestableAllowed /\ depth' = depth
    BY <1>5 DEF RunOrDeferDelayedWork, AtPump
  <2>3. CASE StartTask(e.task)
    BY <2>1, <2>2, <2>3, StartTaskShape
  <2>4. CASE NoDelayedWork /\ UNCHANGED nestableAllowed
    BY <2>2, <2>4, NoDelayedWorkShape
  <2>5. QED
    BY <1>5, <2>3, <2>4 DEF RunOrDeferDelayedWork
<1>6. ASSUME ProcessNextDelayedNonNestableTask PROVE Starts
  <2>1. Head(deferred) \in Tasks
    BY <1>6, HeadTailProperties DEF ProcessNextDelayedNonNestableTask, TypeOK
  <2>2. QED
    BY <1>6, <2>1, StartTaskShape DEF ProcessNextDelayedNonNestableTask, AtPump
<1>7. ASSUME DoIdleWork PROVE Moves
  BY <1>7, DoIdleWorkShape
<1>8. ASSUME Sleep PROVE Moves
  BY <1>8, SleepShape
<1>9. ASSUME Wake PROVE Moves
  BY <1>9, WakeShape
<1>10. ASSUME ReturnFromRun PROVE Pops
  <2>1. NewFrame(FALSE) \in Frame
    BY DEF NewFrame, Frame, PumpPc
  <2>2. \A d \in Levels : d # depth => frame'[d] = frame[d]
    BY <1>10, <2>1, SetTopType DEF ReturnFromRun, AtPump
  <2>3. SameBelow(depth)
    BY <1>10, <2>2, TopType DEF SameBelow, Levels, ReturnFromRun, AtPump
  <2>4. QED
    BY <1>10, <2>3 DEF ReturnFromRun, AtPump, Pops
<1>11. ASSUME FinishTask PROVE Finishes
  <2> DEFINE f == [Top EXCEPT !.task = NoTask, !.ops = {}, !.allows = FALSE,
                     !.did = (Top.pc = "work"),
                     !.pc = Onward(IF Top.pc = "work" THEN "delayed" ELSE "work")]
  <2>1. depth > 0 /\ depth' = depth /\ Top.task # NoTask
    BY <1>11 DEF FinishTask, InTask
  <2>2. Onward(IF Top.pc = "work" THEN "delayed" ELSE "work") \in PumpPc
    BY DEF Onward, PumpPc
  <2>3. f \in Frame
    BY <2>1, <2>2, TopType DEF Frame
  <2>4. /\ f.task = NoTask /\ (Top.pc = "work" => f.did)
        /\ f.pc = Onward(IF Top.pc = "work" THEN "delayed" ELSE "work")
    BY <2>1, TopType DEF Frame
  <2>5. Top' = f /\ SameBelow(depth)
    BY <1>11, <2>1, <2>3, TouchTop DEF FinishTask
  <2>6. f.pc \in {"delayed", "work", "return"} /\ (f.pc = "delayed" => f.did)
    BY <2>4 DEF Onward
  <2>7. nestableAllowed' = TRUE
    BY <1>11 DEF FinishTask
  <2>8. QED
    BY <2>1, <2>4, <2>5, <2>6, <2>7 DEF Finishes
<1>12. QED
  BY <1>1, <1>2, <1>3, <1>4, <1>5, <1>6, <1>7, <1>8, <1>9, <1>10, <1>11
     DEF LoopStep

LEMMA StepShape ==
    ASSUME TypeOK, [Next]_vars
    PROVE  Quiet \/ Moves \/ Starts \/ Finishes \/ Calls \/ Pushes \/ Pops
<1>1. ASSUME Tick \/ UNCHANGED vars PROVE Quiet
  BY <1>1 DEF Tick, vars, Quiet
<1>2. QED
  BY <1>1, PosterShape, ClientShape, LoopShape DEF Next

-----------------------------------------------------------------------------
(* Tasks are re-entered only if they allow it.                              *)

LEMMA OuterBusyNext == TypeOK /\ OuterBusy /\ [Next]_vars => OuterBusy'
<1> SUFFICES ASSUME TypeOK, OuterBusy, [Next]_vars, NEW d \in Levels, d < depth'
             PROVE  frame'[d].task # NoTask
  BY DEF OuterBusy
<1>1. depth \in Nat /\ d \in Nat
  BY DEF TypeOK, Levels
<1>2. CASE Quiet
  BY <1>2 DEF Quiet, OuterBusy
<1>3. CASE Moves \/ Starts \/ Finishes \/ Calls
  BY <1>1, <1>3 DEF Moves, Starts, Finishes, Calls, SameBelow, OuterBusy
<1>4. CASE Pushes
  <2>1. CASE d = depth
    BY <1>1, <1>4, <2>1 DEF Pushes, Levels, Top
  <2>2. CASE d < depth
    BY <1>4, <2>2 DEF Pushes, SameBelow, OuterBusy
  <2>3. QED
    BY <1>1, <1>4, <2>1, <2>2 DEF Pushes
<1>5. CASE Pops
  BY <1>1, <1>5 DEF Pops, SameBelow, OuterBusy
<1>6. QED
  BY <1>2, <1>3, <1>4, <1>5, StepShape

LEMMA NestingNext ==
    TypeOK /\ OuterBusy /\ NestingInv /\ [Next]_vars => NestingInv'
<1> SUFFICES ASSUME TypeOK, OuterBusy, NestingInv, [Next]_vars
             PROVE  NestingInv'
  OBVIOUS
<1>1. depth \in Nat /\ depth' \in Nat /\ OuterBusy' /\ depth' \in 0..MaxDepth
  BY TypeNext, OuterBusyNext DEF TypeOK
<1>a. depth - 1 > 0 => depth - 1 \in Levels
  BY BoundsAssumption DEF TypeOK, Levels
<1>2. CASE Quiet
  BY <1>2 DEF Quiet, NestingInv, Innermost, InTask, Top
<1>3. CASE Moves
  <2>1. Innermost = depth - 1 /\ Innermost' = depth - 1
    BY <1>1, <1>3 DEF Moves, Innermost, InTask
  <2>2. \A d \in Levels : d <= depth - 1 => frame'[d] = frame[d]
    BY <1>1, <1>3 DEF Moves, SameBelow, Levels
  <2>3. depth - 1 > 0 => depth - 1 \in Levels
    BY <1>a
  <2>4. nestableAllowed' = nestableAllowed
    BY <1>3 DEF Moves
  <2>5. QED
    BY <1>1, <2>1, <2>2, <2>3, <2>4 DEF NestingInv, Levels
<1>4. CASE Starts
  <2>1. Innermost = depth - 1 /\ Innermost' = depth
    BY <1>1, <1>4, TasksAssumption DEF Starts, Innermost, InTask
  <2>2. \A d \in Levels : d < depth => frame'[d] = frame[d] /\ frame[d].allows
    <3>1. ASSUME NEW d \in Levels, d < depth PROVE frame[d].allows
      <4>1. CASE d = depth - 1
        BY <1>1, <1>4, <2>1, <3>1, <4>1 DEF Starts, NestingInv, Levels
      <4>2. CASE d < depth - 1
        BY <2>1, <3>1, <4>2 DEF NestingInv
      <4>3. QED
        BY <1>1, <3>1, <4>1, <4>2 DEF Levels
    <3>2. QED
      BY <1>4, <3>1 DEF Starts, SameBelow
  <2>3. nestableAllowed' = FALSE /\ frame'[depth].allows = FALSE
    <3>1. frame'[depth] \in Frame
      BY <1>4, TopType, TypeNext DEF TypeOK, Starts
    <3>2. ~ frame'[depth].allows
      BY <1>4 DEF Starts, Top
    <3>3. QED
      BY <1>4, <3>1, <3>2 DEF Starts, Frame
  <2>4. depth > 0
    BY <1>4 DEF Starts
  <2>5. \A d \in Levels : d < depth => frame'[d].allows
    BY <2>2
  <2>6. Innermost' > 0 => nestableAllowed' = frame'[Innermost'].allows
    BY <2>1, <2>3
  <2>7. \A d \in Levels : d < Innermost' => frame'[d].allows
    BY <2>1, <2>5
  <2>8. Innermost' # 0
    BY <1>1, <2>1, <2>4
  <2>9. QED
    BY <2>6, <2>7, <2>8 DEF NestingInv
<1>5. CASE Finishes
  <2>1. Innermost = depth /\ Innermost' = depth - 1
    BY <1>1, <1>5 DEF Finishes, Innermost, InTask
  <2>2. \A d \in Levels : d < depth => frame'[d] = frame[d] /\ frame[d].allows
    BY <1>5, <2>1 DEF Finishes, NestingInv, SameBelow
  <2>3. depth - 1 > 0 => depth - 1 \in Levels /\ frame[depth - 1] \in Frame
    BY <1>a DEF TypeOK
  <2>4. depth - 1 > 0 => frame'[depth - 1].allows = TRUE
    BY <1>1, <2>2, <2>3 DEF Frame
  <2>5. nestableAllowed' = TRUE
    BY <1>5 DEF Finishes
  <2>6. \A d \in Levels : d < depth - 1 => frame'[d].allows
    BY <1>1, <2>2 DEF Levels
  <2>7. QED
    BY <2>1, <2>4, <2>5, <2>6 DEF NestingInv
<1>6. CASE Calls
  <2>1. Innermost = depth /\ Innermost' = depth
    BY <1>1, <1>6 DEF Calls, Innermost, InTask
  <2>2. nestableAllowed' = frame'[depth].allows
    BY <1>1, <1>6, <2>1 DEF Calls, NestingInv, Top
  <2>3. QED
    BY <1>1, <1>6, <2>1, <2>2 DEF Calls, SameBelow, NestingInv
<1>7. CASE Pushes
  <2>1. Innermost = depth /\ Innermost' = depth
    BY <1>1, <1>7 DEF Pushes, Innermost, InTask, Top
  <2>2. \A d \in Levels : d < depth => frame'[d] = frame[d]
    BY <1>7 DEF Pushes, SameBelow
  <2>3. depth > 0 => frame'[depth].allows = frame[depth].allows
    BY <1>7 DEF Pushes, Top
  <2>4. nestableAllowed' = nestableAllowed
    BY <1>7 DEF Pushes
  <2>5. QED
    BY <1>1, <2>1, <2>2, <2>3, <2>4 DEF NestingInv
<1>8. CASE Pops
  <2>1. Innermost = depth - 1 /\ Innermost' = depth - 1
    <3>1. depth' > 0 => Top'.task # NoTask
      <4>1. QED
        BY <1>1, <1>8, <1>a DEF Pops, OuterBusy, SameBelow, Top
    <3>2. QED
      BY <1>1, <1>8, <3>1 DEF Pops, Innermost, InTask
  <2>2. \A d \in Levels : d <= depth - 1 => frame'[d] = frame[d]
    BY <1>1, <1>8 DEF Pops, SameBelow, Levels
  <2>3. depth - 1 > 0 => depth - 1 \in Levels
    BY <1>a
  <2>4. nestableAllowed' = nestableAllowed
    BY <1>8 DEF Pops
  <2>5. QED
    BY <1>1, <2>1, <2>2, <2>3, <2>4 DEF NestingInv, Levels
<1>9. QED
  BY <1>2, <1>3, <1>4, <1>5, <1>6, <1>7, <1>8, StepShape
-----------------------------------------------------------------------------
(* The owner's way from DoWork to the wait: the steps after which it still  *)
(* has found nothing to do.                                                 *)

Search == {"delayed", "idle", "sleep", "wait", "timedwait"}

Begins == /\ Moves /\ Top'.pc = "delayed"
          /\ incoming' = << >> /\ work' = << >>

Stays == /\ Quiet
         /\ UNCHANGED <<work, deferred, delayed, delayedWorkTime>>
         /\ (\E p \in Posters : PosterStep(p)) \/ UNCHANGED <<sharedVars, poster>>

Tries == /\ Moves /\ Top.pc = "delayed" /\ ~ Top.did /\ Top'.pc = "idle"
         /\ SkipDelayedWork \/ AwaitDelayedWork \/ RunOrDeferDelayedWork

Idles == /\ Moves /\ Top.pc = "idle" /\ Top'.pc = "sleep" /\ ~ Top'.quit
         /\ depth = 1 => deferred = << >>
         /\ DoIdleWork

Sleeps == /\ Moves /\ Top.pc = "sleep" /\ Top'.quit = Top.quit
          /\ \/ Top'.pc = "wait" /\ delayedWorkTime = 0 /\ delayedWorkTime' = 0
             \/ Top'.pc = "timedwait" /\ UNCHANGED delayedWorkTime
          /\ Sleep

LEMMA SearchShape ==
    ASSUME TypeOK, OuterBusy, [Next]_vars, FoundNothing(Search)'
    PROVE  Quiet \/ Moves
<1>1. depth \in Nat /\ depth' \in Nat
  BY TypeNext DEF TypeOK
<1>2. ~ Starts
  BY DEF Starts, FoundNothing
<1>3. ~ Finishes
  BY DEF Finishes, FoundNothing, Search
<1>4. ~ Calls
  BY DEF Calls, FoundNothing
<1>5. ~ Pushes
  BY DEF Pushes, FoundNothing, Search, Top
<1>6. ~ Pops
  <2>1. SUFFICES ASSUME Pops PROVE FALSE
    OBVIOUS
  <2>2. depth - 1 > 0 => depth - 1 \in Levels
    BY BoundsAssumption DEF TypeOK, Levels
  <2>3. QED
    BY <1>1, <2>1, <2>2 DEF Pops, FoundNothing, OuterBusy, SameBelow, Top
<1>7. QED
  BY <1>2, <1>3, <1>4, <1>5, <1>6, StepShape

LEMMA SearchStep ==
    ASSUME TypeOK, OuterBusy, [Next]_vars, FoundNothing(Search)'
    PROVE  Begins \/ Stays \/ Tries \/ Idles \/ Sleeps
<1>0. /\ depth' > 0 /\ Top'.task = NoTask /\ nestableAllowed'
      /\ Top'.pc \in Search
  BY DEF FoundNothing
<1>1. ASSUME Tick \/ UNCHANGED vars PROVE Stays
  BY <1>1 DEF Tick, vars, Stays, Quiet, queueVars, sharedVars, timerVars
<1>2. ASSUME NEW p \in Posters, PosterStep(p) PROVE Stays
  <2>1. Quiet
    BY <1>2, PosterShape
  <2>2. UNCHANGED <<work, deferred, delayed, delayedWorkTime>>
    BY <1>2 DEF PosterStep, PostTask, AddToIncomingQueue, ScheduleWork,
                queueVars, timerVars
  <2>3. QED
    BY <1>2, <2>1, <2>2 DEF Stays
<1>3. ASSUME ClientCall PROVE FALSE
  <2>1. Top'.task = NoTask /\ Top'.pc \in Search
    BY <1>0
  <2>2. depth = 0 \/ InTask
    BY <1>3 DEF ClientCall, PostFromOwner, Run, Quit, QuitNow,
                SetNestableTasksAllowed, MayCall
  <2>3. CASE Quiet
    BY <1>0, <2>2, <2>3 DEF Quiet, InTask, Top
  <2>4. CASE Calls
    BY <1>0, <2>4 DEF Calls
  <2>5. CASE Pushes
    BY <1>0, <2>5 DEF Pushes, Top, Search
  <2>6. QED
    BY <1>3, <2>3, <2>4, <2>5, ClientShape
<1>4. ASSUME ReloadWorkQueue \/ AddToDelayedWorkQueue PROVE FALSE
  BY <1>0, <1>4 DEF ReloadWorkQueue, AddToDelayedWorkQueue, AtPump, Top, Search
<1>5. ASSUME RunOrDeferWork PROVE FALSE
  <2>1. UNCHANGED <<nestableAllowed, frame>>
    BY <1>0, <1>5 DEF RunOrDeferWork, StartTask
  <2>2. QED
    BY <1>0, <1>5, <2>1 DEF RunOrDeferWork, AtPump, Top, Search
<1>6. ASSUME EndDoWork PROVE Begins
  <2>1. Moves /\ Top'.pc \in {"delayed", "return"}
    BY <1>6, EndDoWorkShape
  <2>2. nestableAllowed
    BY <1>0, <2>1 DEF Moves
  <2>3. incoming' = << >> /\ work' = << >>
    BY <1>6, <2>2 DEF EndDoWork, sharedVars, queueVars
  <2>4. QED
    BY <1>0, <2>1, <2>3 DEF Begins, Search
<1>7. ASSUME SkipDelayedWork \/ AwaitDelayedWork \/ RunOrDeferDelayedWork
      PROVE  Tries
  <2>1. /\ depth > 0 /\ depth' = depth /\ Top.task = NoTask /\ Top.pc = "delayed"
    BY <1>7 DEF SkipDelayedWork, AwaitDelayedWork, RunOrDeferDelayedWork, AtPump
  <2>2. NoDelayedWork /\ UNCHANGED nestableAllowed
    BY <1>0, <1>7 DEF SkipDelayedWork, AwaitDelayedWork, RunOrDeferDelayedWork,
                      StartTask
  <2>3. /\ Moves /\ Top'.pc \in {"work", "idle", "return"}
        /\ Top.did => Top'.pc # "idle"
    BY <2>1, <2>2, NoDelayedWorkShape
  <2>4. QED
    BY <1>0, <1>7, <2>1, <2>3 DEF Tries, Search
<1>8. ASSUME ProcessNextDelayedNonNestableTask PROVE FALSE
  BY <1>0, <1>8 DEF ProcessNextDelayedNonNestableTask, StartTask
<1>9. ASSUME DoIdleWork PROVE Idles
  <2>1. /\ Moves /\ Top'.pc = IF shouldQuit' THEN "return" ELSE "sleep"
        /\ Top'.quit = Top.quit
    BY <1>9, DoIdleWorkShape
  <2>2. ~ shouldQuit' /\ Top'.pc = "sleep"
    BY <1>0, <2>1 DEF Search
  <2>3. /\ Top.pc = "idle"
        /\ depth = 1 => deferred = << >>
        /\ shouldQuit' = (shouldQuit \/ Top.quit)
    BY <1>9 DEF DoIdleWork, AtPump
  <2>4. ~ Top.quit
    BY <2>2, <2>3
  <2>5. QED
    BY <1>9, <2>1, <2>2, <2>3, <2>4 DEF Idles
<1>10. ASSUME Sleep PROVE Sleeps
  BY <1>0, <1>10, SleepShape DEF Sleeps, Search, Sleep, AtPump
<1>11. ASSUME Wake PROVE FALSE
  BY <1>0, <1>11, WakeShape DEF Search
<1>12. ASSUME ReturnFromRun PROVE FALSE
  <2>1. ~ Quiet /\ ~ Moves
    BY <1>12, TypeNext DEF ReturnFromRun, Quiet, Moves, AtPump, TypeOK
  <2>2. QED
    BY <2>1, SearchShape
<1>13. ASSUME FinishTask PROVE FALSE
  <2>1. Top.task # NoTask
    BY <1>13 DEF FinishTask, InTask
  <2>2. Quiet \/ Moves
    BY SearchShape
  <2>3. QED
    BY <1>0, <2>1, <2>2 DEF Quiet, Moves, Top
<1>14. QED
  BY <1>1, <1>2, <1>3, <1>4, <1>5, <1>6, <1>7, <1>8, <1>9, <1>10, <1>11,
     <1>12, <1>13 DEF Next, LoopStep

LEMMA MovesFound ==
    ASSUME Moves, FoundNothing(Search)', Top.pc \in Search,
           Top.pc = "delayed" => ~ Top.did
    PROVE  FoundNothing(Search)
BY DEF Moves, FoundNothing

LEMMA StaysFound ==
    ASSUME Stays
    PROVE  \A pcs : FoundNothing(pcs)' <=> FoundNothing(pcs)
BY DEF Stays, Quiet, FoundNothing, Top

-----------------------------------------------------------------------------
(* No wakeup is lost.                                                       *)

LEMMA WakeNext == TypeOK /\ OuterBusy /\ WakeInv /\ [Next]_vars => WakeInv'
<1> SUFFICES ASSUME TypeOK, OuterBusy, WakeInv, [Next]_vars,
                    FoundNothing(Search)', incoming' # << >>
             PROVE  signaled' \/ \E q \in Posters : poster'[q].pc = "schedule"
  BY DEF WakeInv, Search
<1> DEFINE Woken == signaled \/ \E q \in Posters : poster[q].pc = "schedule"
<1>1. CASE Begins
  BY <1>1 DEF Begins
<1>2. CASE Stays
  <2>1. incoming # << >> => Woken
    BY <1>2, StaysFound DEF WakeInv, Search
  <2>2. ASSUME NEW p \in Posters, NEW t \in Tasks, PostTask(p, t)
        PROVE  Woken'
    <3>1. \A q \in Posters : poster[q].pc = "schedule" => poster'[q].pc = "schedule"
      BY <2>2 DEF PostTask, TypeOK
    <3>2. QED
      BY <2>1, <2>2, <3>1 DEF PostTask, sharedVars
  <2>3. ASSUME NEW p \in Posters, AddToIncomingQueue(p) PROVE Woken'
    <3>1. CASE incoming = << >>
      BY <2>3, <3>1 DEF AddToIncomingQueue, TypeOK
    <3>2. CASE incoming # << >>
      <4>1. \A q \in Posters : poster[q].pc = "schedule" => poster'[q].pc = "schedule"
        BY <2>3 DEF AddToIncomingQueue, TypeOK
      <4>2. QED
        BY <2>1, <2>3, <3>2, <4>1 DEF AddToIncomingQueue
    <3>3. QED
      BY <3>1, <3>2
  <2>4. ASSUME NEW p \in Posters, ScheduleWork(p) PROVE Woken'
    BY <2>4 DEF ScheduleWork
  <2>5. CASE UNCHANGED <<sharedVars, poster>>
    BY <2>1, <2>5 DEF sharedVars
  <2>6. QED
    BY <1>2, <2>2, <2>3, <2>4, <2>5 DEF Stays, PosterStep
<1>3. CASE Tries
  <2>1. UNCHANGED <<sharedVars, poster>>
    BY <1>3 DEF Tries, SkipDelayedWork, AwaitDelayedWork, RunOrDeferDelayedWork
  <2>2. FoundNothing(Search)
    BY <1>3, MovesFound DEF Tries, Search
  <2>3. QED
    BY <2>1, <2>2 DEF sharedVars, WakeInv, Search
<1>4. CASE Idles \/ Sleeps
  <2>1. UNCHANGED <<sharedVars, poster>>
    BY <1>4 DEF Idles, Sleeps, DoIdleWork, Sleep
  <2>2. FoundNothing(Search)
    BY <1>4, MovesFound DEF Idles, Sleeps, Search
  <2>3. QED
    BY <2>1, <2>2 DEF sharedVars, WakeInv, Search
<1>5. QED
  BY <1>1, <1>2, <1>3, <1>4, SearchStep

-----------------------------------------------------------------------------
(* The owner waits only when it has drained its queues.                     *)

LEMMA DrainNext == TypeOK /\ OuterBusy /\ DrainInv /\ [Next]_vars => DrainInv'
<1> SUFFICES ASSUME TypeOK, OuterBusy, DrainInv, [Next]_vars, FoundNothing(Search)'
             PROVE  /\ work' = << >>
                    /\ Top'.pc \in {"sleep", "wait", "timedwait"}
                         => (depth' = 1 => deferred' = << >>) /\ ~ Top'.quit
  BY DEF DrainInv, Search, FoundNothing
<1>1. CASE Begins
  BY <1>1 DEF Begins
<1>2. CASE Stays
  <2>1. FoundNothing(Search) /\ work' = work /\ deferred' = deferred
    BY <1>2, StaysFound DEF Stays
  <2>2. Top' = Top /\ depth' = depth
    BY <1>2 DEF Stays, Quiet, Top
  <2>3. QED
    BY <2>1, <2>2 DEF DrainInv, Search, FoundNothing
<1>3. CASE Tries
  <2>1. FoundNothing(Search) /\ Top'.pc = "idle"
    BY <1>3, MovesFound DEF Tries, Search
  <2>2. work' = work
    BY <1>3 DEF Tries, SkipDelayedWork, AwaitDelayedWork, RunOrDeferDelayedWork,
                queueVars
  <2>3. QED
    BY <2>1, <2>2 DEF DrainInv, Search
<1>4. CASE Idles
  <2>1. FoundNothing(Search)
    BY <1>4, MovesFound DEF Idles, Search
  <2>2. work' = work /\ deferred' = deferred /\ depth' = depth
    BY <1>4 DEF Idles, DoIdleWork, queueVars
  <2>3. ~ Top'.quit /\ (depth = 1 => deferred = << >>)
    BY <1>4 DEF Idles
  <2>4. QED
    BY <2>1, <2>2, <2>3 DEF DrainInv, Search
<1>5. CASE Sleeps
  <2>1. FoundNothing(Search) /\ Top.pc = "sleep" /\ Top'.quit = Top.quit
    BY <1>5, MovesFound DEF Sleeps, Search
  <2>2. work' = work /\ deferred' = deferred /\ depth' = depth
    BY <1>5 DEF Sleeps, Sleep, queueVars
  <2>3. QED
    BY <2>1, <2>2 DEF DrainInv, Search, FoundNothing
<1>6. QED
  BY <1>1, <1>2, <1>3, <1>4, <1>5, SearchStep

-----------------------------------------------------------------------------
(* The wait's timeout bounds every delayed task.                            *)

(* DoWork is the only way into the delayed queue, for tasks with a run time.*)
LEMMA DelayedOnward ==
    ASSUME TypeOK, [Next]_vars, NEW e \in delayed', e \notin delayed
    PROVE  e.time # 0
<1>1. ASSUME AddToDelayedWorkQueue PROVE e.time # 0
  BY <1>1 DEF AddToDelayedWorkQueue
<1>2. ASSUME \E p \in Posters : PosterStep(p) PROVE FALSE
  BY <1>2 DEF PosterStep, PostTask, AddToIncomingQueue, ScheduleWork, queueVars
<1>3. ASSUME ClientCall PROVE FALSE
  BY <1>3 DEF ClientCall, PostFromOwner, Run, Quit, QuitNow,
              SetNestableTasksAllowed, queueVars
<1>4. ASSUME LoopStep, ~ AddToDelayedWorkQueue PROVE FALSE
  BY <1>4 DEF LoopStep, ReloadWorkQueue, RunOrDeferWork, EndDoWork,
              SkipDelayedWork, AwaitDelayedWork, RunOrDeferDelayedWork,
              ProcessNextDelayedNonNestableTask, DoIdleWork, Sleep, Wake,
              ReturnFromRun, FinishTask, queueVars
<1>5. ASSUME Tick \/ UNCHANGED vars PROVE FALSE
  BY <1>5 DEF Tick, vars, queueVars
<1>6. QED
  BY <1>1, <1>2, <1>3, <1>4, <1>5 DEF Next

LEMMA TimerNext == TypeOK /\ OuterBusy /\ TimerInv /\ [Next]_vars => TimerInv'
<1> SUFFICES ASSUME TypeOK, OuterBusy, TimerInv, [Next]_vars PROVE TimerInv'
  OBVIOUS
<1>1. \A e \in delayed' : e.time # 0
  BY DelayedOnward DEF TimerInv
<1> DEFINE Bounded == \A e \in delayed : delayedWorkTime # 0 /\ delayedWorkTime <= e.time
<1>2. SUFFICES ASSUME FoundNothing(Search)'
               PROVE  /\ Top'.pc # "delayed" => Bounded'
                      /\ Top'.pc = "wait" => delayedWorkTime' = 0
  BY <1>1 DEF TimerInv, Search, FoundNothing
<1>3. CASE Begins
  BY <1>3 DEF Begins
<1>4. CASE Stays
  <2>1. /\ FoundNothing(Search) /\ Top' = Top
        /\ delayed' = delayed /\ delayedWorkTime' = delayedWorkTime
    BY <1>2, <1>4, StaysFound DEF Stays, Quiet, Top
  <2>2. QED
    BY <2>1 DEF TimerInv, Search, FoundNothing
<1>5. CASE Tries
  <2>1. nestableAllowed /\ Top'.pc = "idle"
    BY <1>2, <1>5 DEF Tries, Moves, FoundNothing
  <2>2. CASE SkipDelayedWork
    BY <2>1, <2>2 DEF SkipDelayedWork, queueVars
  <2>3. CASE AwaitDelayedWork
    <3>1. delayed \subseteq Entry /\ delayed # {} /\ delayed' = delayed
      BY <2>3 DEF AwaitDelayedWork, TypeOK, queueVars
    <3>2. delayedWorkTime' = Earliest(delayed).time
      BY <2>3 DEF AwaitDelayedWork
    <3>3. Earliest(delayed) \in delayed
      BY <3>1, EarliestIsFirst
    <3>4. \A e \in delayed : Earliest(delayed).time <= e.time
      BY <3>1, EarliestIsFirst
    <3>5. Earliest(delayed).time # 0
      BY <3>3 DEF TimerInv
    <3>6. QED
      BY <2>1, <3>1, <3>2, <3>4, <3>5
  <2>4. CASE RunOrDeferDelayedWork
    <3> DEFINE rest == delayed \ {Earliest(delayed)}
    <3>1. rest \subseteq Entry /\ delayed' = rest
      BY <2>4 DEF RunOrDeferDelayedWork, TypeOK
    <3>2. CASE rest = {}
      BY <2>1, <3>1, <3>2
    <3>3. CASE rest # {}
      <4>1. delayedWorkTime' = Earliest(rest).time
        BY <2>4, <3>3 DEF RunOrDeferDelayedWork
      <4>2. Earliest(rest) \in rest
        BY <3>1, <3>3, EarliestIsFirst
      <4>3. \A e \in rest : Earliest(rest).time <= e.time
        BY <3>1, <3>3, EarliestIsFirst
      <4>4. Earliest(rest).time # 0
        BY <4>2 DEF TimerInv
      <4>5. QED
        BY <2>1, <3>1, <4>1, <4>3, <4>4
    <3>4. QED
      BY <3>2, <3>3
  <2>5. QED
    BY <1>5, <2>2, <2>3, <2>4 DEF Tries
<1>6. CASE Idles
  <2>1. FoundNothing(Search) /\ Top.pc = "idle" /\ Top'.pc = "sleep"
    BY <1>2, <1>6, MovesFound DEF Idles, Search
  <2>2. delayed' = delayed /\ delayedWorkTime' = delayedWorkTime
    BY <1>6 DEF Idles, DoIdleWork, queueVars, timerVars
  <2>3. QED
    BY <2>1, <2>2 DEF TimerInv, FoundNothing
<1>7. CASE Sleeps
  <2>1. FoundNothing(Search) /\ Top.pc = "sleep"
    BY <1>2, <1>7, MovesFound DEF Sleeps, Search
  <2>2. delayed' = delayed
    BY <1>7 DEF Sleeps, Sleep, queueVars
  <2>3. /\ delayedWorkTime' = delayedWorkTime
        /\ Top'.pc = "wait" => delayedWorkTime' = 0
    BY <1>7 DEF Sleeps
  <2>4. QED
    BY <2>1, <2>2, <2>3 DEF TimerInv, FoundNothing
<1>8. QED
  BY <1>2, <1>3, <1>4, <1>5, <1>6, <1>7, SearchStep

-----------------------------------------------------------------------------
(* QuitNow.                                                                 *)

(* Where should_quit_ is set, the owner is in a task or leaving Run.        *)
LEMMA QuitNext == TypeOK /\ QuitInv /\ [Next]_vars => QuitInv'
<1> SUFFICES ASSUME TypeOK, QuitInv, [Next]_vars, shouldQuit'
             PROVE  depth' > 0 /\ (InTask' \/ Top'.pc = "return")
  BY DEF QuitInv
<1>1. ASSUME Quiet, UNCHANGED shouldQuit
      PROVE  depth' > 0 /\ (InTask' \/ Top'.pc = "return")
  BY <1>1 DEF Quiet, QuitInv, InTask, Top
<1>2. ASSUME NEW p \in Posters, PosterStep(p) PROVE UNCHANGED shouldQuit /\ Quiet
  BY <1>2, PosterShape DEF PosterStep, PostTask, AddToIncomingQueue, ScheduleWork
<1>3. ASSUME ClientCall PROVE depth' > 0 /\ (InTask' \/ Top'.pc = "return")
  <2>1. CASE Calls
    BY <2>1 DEF Calls, InTask
  <2>2. CASE Quiet
    <3>1. shouldQuit \/ InTask
      BY <1>3 DEF ClientCall, PostFromOwner, Run, Quit, QuitNow, MayCall,
                  SetNestableTasksAllowed
    <3>2. depth > 0 /\ (InTask \/ Top.pc = "return")
      BY <3>1 DEF QuitInv, InTask
    <3>3. QED
      BY <2>2, <3>2 DEF Quiet, InTask, Top
  <2>3. CASE Pushes
    <3>1. depth' # depth
      BY <2>3 DEF Pushes, TypeOK
    <3>2. PICK op \in {"Run", "RunAllPending"} : Run(op)
      BY <1>3, <3>1 DEF ClientCall, PostFromOwner, Quit, QuitNow,
                        SetNestableTasksAllowed
    <3>3. ~ shouldQuit'
      BY <3>2 DEF Run
    <3>4. QED
      BY <3>3
  <2>4. QED
    BY <1>3, <2>1, <2>2, <2>3, ClientShape
<1>4. ASSUME depth > 0, Top.task = NoTask, Top.pc # "return" PROVE ~ shouldQuit
  BY <1>4 DEF QuitInv, InTask
<1>5. ASSUME ReloadWorkQueue \/ AddToDelayedWorkQueue \/ RunOrDeferWork
             \/ EndDoWork \/ SkipDelayedWork \/ AwaitDelayedWork
             \/ RunOrDeferDelayedWork \/ ProcessNextDelayedNonNestableTask
             \/ Sleep \/ Wake
      PROVE  FALSE
  <2>1. depth > 0 /\ Top.task = NoTask /\ Top.pc # "return"
    BY <1>5 DEF ReloadWorkQueue, AddToDelayedWorkQueue, RunOrDeferWork,
           EndDoWork, SkipDelayedWork, AwaitDelayedWork, RunOrDeferDelayedWork,
           ProcessNextDelayedNonNestableTask, Sleep, Wake, AtPump
  <2>2. ASSUME ReloadWorkQueue \/ AddToDelayedWorkQueue \/ RunOrDeferWork
               \/ EndDoWork \/ SkipDelayedWork
        PROVE  shouldQuit' = shouldQuit
    BY <2>2 DEF ReloadWorkQueue, AddToDelayedWorkQueue, RunOrDeferWork,
                EndDoWork, SkipDelayedWork
  <2>3. ASSUME AwaitDelayedWork \/ RunOrDeferDelayedWork
               \/ ProcessNextDelayedNonNestableTask \/ Sleep \/ Wake
        PROVE  shouldQuit' = shouldQuit
    BY <2>3 DEF AwaitDelayedWork, RunOrDeferDelayedWork,
                ProcessNextDelayedNonNestableTask, Sleep, Wake
  <2>4. QED
    BY <1>4, <1>5, <2>1, <2>2, <2>3
<1>6. ASSUME DoIdleWork PROVE depth' > 0 /\ Top'.pc = "return"
  BY <1>6, DoIdleWorkShape DEF Moves
<1>7. ASSUME ReturnFromRun PROVE FALSE
  BY <1>7 DEF ReturnFromRun
<1>8. ASSUME FinishTask PROVE depth' > 0 /\ Top'.pc = "return"
  <2> DEFINE pc == Onward(IF Top.pc = "work" THEN "delayed" ELSE "work")
             f == [Top EXCEPT !.task = NoTask, !.ops = {}, !.allows = FALSE,
                     !.did = (Top.pc = "work"), !.pc = pc]
  <2>1. depth > 0 /\ depth' = depth /\ shouldQuit
    BY <1>8 DEF FinishTask, InTask
  <2>2. pc = "return" /\ pc \in PumpPc
    BY <2>1 DEF Onward, PumpPc
  <2>3. f \in Frame /\ f.pc = "return"
    BY <2>1, <2>2, TopType DEF Frame
  <2>4. Top' = f
    BY <1>8, <2>1, <2>3, TouchTop DEF FinishTask
  <2>5. QED
    BY <2>1, <2>3, <2>4
<1>9. ASSUME Tick \/ UNCHANGED vars PROVE UNCHANGED shouldQuit /\ Quiet
  BY <1>9 DEF Tick, vars, Quiet
<1>10. QED
  BY <1>1, <1>2, <1>3, <1>5, <1>6, <1>7, <1>8, <1>9 DEF Next, LoopStep

-----------------------------------------------------------------------------
(* The inductive invariant.                                                 *)

LEMMA IInvInit == Init => IInv
<1> SUFFICES ASSUME Init PROVE IInv
  OBVIOUS
<1>1. depth = 0 /\ delayed = {} /\ shouldQuit = FALSE /\ nestableAllowed = TRUE
  BY DEF Init
<1>2. OuterBusy
  BY <1>1 DEF OuterBusy, Levels
<1>3. NestingInv
  BY <1>1 DEF NestingInv, Innermost, Levels
<1>4. WakeInv /\ DrainInv /\ TimerInv /\ QuitInv
  BY <1>1 DEF WakeInv, DrainInv, TimerInv, QuitInv, FoundNothing
<1>5. QED
  BY TypeInit, <1>2, <1>3, <1>4 DEF IInv

LEMMA IInvNext == IInv /\ [Next]_vars => IInv'
BY TypeNext, OuterBusyNext, NestingNext, WakeNext, DrainNext, TimerNext,
   QuitNext DEF IInv

LEMMA IInvCorrect == Spec => []IInv
<1>1. QED
  BY IInvInit, IInvNext, PTL DEF Spec

(* A task in incoming_queue_ always finds the owner awake or about to wake. *)
THEOREM NoLostWakeupCorrect == Spec => []NoLostWakeup
<1>1. IInv => NoLostWakeup
  BY DEF IInv, WakeInv, NoLostWakeup, Asleep, FoundNothing
<1>2. QED
  BY <1>1, IInvCorrect, PTL

(* The owner waits only with its queues drained and no Quit to obey.        *)
THEOREM SleepsOnlyWhenDrainedCorrect == Spec => []SleepsOnlyWhenDrained
<1>1. IInv => SleepsOnlyWhenDrained
  BY DEF IInv, DrainInv, SleepsOnlyWhenDrained, Asleep, FoundNothing
<1>2. QED
  BY <1>1, IInvCorrect, PTL

(* The owner's wait ends at the earliest delayed task's time or before it.  *)
THEOREM NeverOversleepsCorrect == Spec => []NeverOversleeps
<1>1. ASSUME IInv, Asleep, nestableAllowed, delayed # {}
      PROVE  Top.pc = "timedwait" /\ delayedWorkTime <= Earliest(delayed).time
  <2>1. Earliest(delayed) \in delayed
    BY <1>1, EarliestIsFirst DEF IInv, TypeOK
  <2>2. delayedWorkTime # 0 /\ delayedWorkTime <= Earliest(delayed).time
    BY <1>1, <2>1 DEF IInv, TimerInv, Asleep, FoundNothing
  <2>3. Top.pc # "wait"
    BY <1>1, <2>2 DEF IInv, TimerInv, Asleep, FoundNothing
  <2>4. QED
    BY <1>1, <2>2, <2>3 DEF Asleep
<1>2. IInv => NeverOversleeps
  BY <1>1 DEF NeverOversleeps
<1>3. QED
  BY <1>2, IInvCorrect, PTL

(* A task is re-entered only after it has allowed it.                       *)
THEOREM NestedOnlyIfAllowedCorrect == Spec => []NestedOnlyIfAllowed
<1>1. ASSUME IInv, NEW c \in 1..depth, NEW d \in 1..depth,
             c < d, frame[d].task # NoTask
      PROVE  frame[c].allows
  <2>1. depth \in Nat /\ depth > 0 /\ c \in Levels /\ c < depth
    BY <1>1, BoundsAssumption DEF IInv, TypeOK, Levels
  <2>2. c < Innermost
    <3>1. CASE d = depth
      BY <1>1, <2>1, <3>1 DEF Innermost, InTask, Top
    <3>2. CASE d < depth
      BY <1>1, <2>1, <3>2 DEF Innermost
    <3>3. QED
      BY <2>1, <3>1, <3>2
  <2>3. QED
    BY <1>1, <2>1, <2>2 DEF IInv, NestingInv
<1>2. IInv => NestedOnlyIfAllowed
  BY <1>1 DEF NestedOnlyIfAllowed
<1>3. QED
  BY <1>2, IInvCorrect, PTL

(* The loop obeys Quit only when it has drained its work queues.            *)
THEOREM QuitDrainsCorrect == Spec => QuitDrains
<1>1. ASSUME IInv, [Next]_vars, ObeysQuit
      PROVE  work = << >> /\ (depth = 1 => deferred = << >>)
  <2>1. DoIdleWork
    BY <1>1 DEF ObeysQuit, Next, PosterStep, PostTask, AddToIncomingQueue,
           ScheduleWork, ClientCall, PostFromOwner, Run, Quit, QuitNow, MayCall,
           SetNestableTasksAllowed, LoopStep, ReloadWorkQueue,
           AddToDelayedWorkQueue, RunOrDeferWork, EndDoWork, SkipDelayedWork,
           AwaitDelayedWork, RunOrDeferDelayedWork,
           ProcessNextDelayedNonNestableTask, Sleep, Wake, ReturnFromRun,
           FinishTask, Tick, vars
  <2>2. FoundNothing(Search)
    BY <1>1, <2>1 DEF ObeysQuit, DoIdleWork, AtPump, FoundNothing, Search
  <2>3. work = << >>
    BY <1>1, <2>2 DEF IInv, DrainInv, Search
  <2>4. QED
    BY <2>1, <2>3 DEF DoIdleWork
<1>2. IInv /\ [Next]_vars
        => [ObeysQuit => work = << >> /\ (depth = 1 => deferred = << >>)]_vars
  BY <1>1
<1>3. QED
  BY <1>2, IInvCorrect, PTL DEF Spec, QuitDrains

-----------------------------------------------------------------------------
(* QuitNow ends the innermost Run, at once, and no other.                   *)

(* Only Run and its return change the nesting of loops.                     *)
LEMMA DepthSteps ==
    ASSUME TypeOK, [Next]_vars, depth' # depth
    PROVE  ReturnFromRun \/ \E op \in {"Run", "RunAllPending"} : Run(op)
BY DEF Next, PosterStep, PostTask, AddToIncomingQueue, ScheduleWork,
       ClientCall, PostFromOwner, Quit, QuitNow, SetNestableTasksAllowed,
       LoopStep, ReloadWorkQueue, AddToDelayedWorkQueue, RunOrDeferWork,
       EndDoWork, SkipDelayedWork, AwaitDelayedWork, RunOrDeferDelayedWork,
       ProcessNextDelayedNonNestableTask, DoIdleWork, Sleep, Wake, FinishTask,
       Tick, vars

(* No task is started from the position in which Run returns.               *)
LEMMA ReturnStartsNothing ==
    ASSUME TypeOK, [Next]_vars, depth > 0, Top.task = NoTask, Top.pc = "return"
    PROVE  UNCHANGED frame \/ depth' # depth
<1>1. ~ InTask /\ \A pc : AtPump(pc) => pc = "return"
  BY DEF InTask, AtPump
<1>2. CASE \E p \in Posters : PosterStep(p)
  BY <1>2, PosterShape DEF Quiet
<1>3. CASE ClientCall
  <2>1. depth # 0 /\ \A op : ~ MayCall(op)
    BY <1>1 DEF MayCall
  <2>2. QED
    BY <1>3, <2>1 DEF ClientCall, PostFromOwner, Run, Quit, QuitNow,
                      SetNestableTasksAllowed
<1>4. CASE LoopStep
  <2>1. ReturnFromRun
    BY <1>1, <1>4 DEF LoopStep, ReloadWorkQueue, AddToDelayedWorkQueue,
           RunOrDeferWork, EndDoWork, SkipDelayedWork, AwaitDelayedWork,
           RunOrDeferDelayedWork, ProcessNextDelayedNonNestableTask, DoIdleWork,
           Sleep, Wake, FinishTask
  <2>2. depth' = depth - 1 /\ depth \in Nat
    BY <2>1 DEF ReturnFromRun, TypeOK
  <2>3. QED
    BY <2>2
<1>5. CASE Tick \/ UNCHANGED vars
  BY <1>5 DEF Tick, vars
<1>6. QED
  BY <1>2, <1>3, <1>4, <1>5 DEF Next

LEMMA LengthOfFunction ==
    ASSUME NEW n \in Nat, NEW S, NEW s \in [1..n -> S]
    PROVE  Len(s) = n
OBVIOUS

(* The tasks being executed are counted by Innermost.                       *)
LEMMA RunningLength ==
    ASSUME TypeOK, TypeOK'
    PROVE  /\ Len(running) = Innermost /\ Innermost \in Nat
           /\ Len(running') = Innermost' /\ Innermost' \in Nat
<1>1. Innermost \in Nat /\ Innermost' \in Nat
  <2>1. depth \in Nat /\ depth' \in Nat
    BY DEF TypeOK
  <2>2. \A n \in Nat : n # 0 => n - 1 \in Nat
    OBVIOUS
  <2>3. Innermost \in {depth, depth - 1} /\ (depth = 0 => Innermost = depth)
    BY DEF Innermost
  <2>4. Innermost' \in {depth', depth' - 1} /\ (depth' = 0 => Innermost' = depth')
    BY DEF Innermost
  <2>5. QED
    BY <2>1, <2>2, <2>3, <2>4
<1> DEFINE S  == {frame[d].task : d \in 1..Innermost}
           S1 == {frame'[d].task : d \in 1..Innermost'}
<1>2. running \in [1..Innermost -> S]
  BY DEF running
<1>3. running' \in [1..Innermost' -> S1]
  BY DEF running
<1>4. QED
  BY <1>1, <1>2, <1>3, LengthOfFunction

(* After QuitNow no task is started until that Run has returned, and the    *)
(* Run around it goes on.                                                   *)
THEOREM QuitNowIsImmediateCorrect == Spec => QuitNowIsImmediate
<1>1. ASSUME IInv, IInv', [Next]_vars, shouldQuit
      PROVE  Len(running') <= Len(running)
  <2>1. TypeOK /\ TypeOK' /\ depth > 0 /\ (InTask \/ Top.pc = "return")
    BY <1>1 DEF IInv, QuitInv
  <2>2. depth \in Nat /\ depth' \in Nat
    BY <2>1 DEF TypeOK
  <2>3. Innermost' <= Innermost
    <3>1. CASE Quiet
      BY <2>2, <3>1 DEF Quiet, Innermost, InTask, Top
    <3>2. CASE Moves \/ Finishes \/ Calls
      <4>1. depth' = depth /\ depth > 0 /\ (InTask' => InTask)
        BY <3>2 DEF Moves, Finishes, Calls, InTask
      <4>2. QED
        BY <2>2, <4>1 DEF Innermost
    <3>3. CASE Pops
      BY <2>2, <3>3 DEF Pops, Innermost, InTask
    <3>4. CASE Starts
      <4>1. Top.pc = "return"
        BY <2>1, <3>4 DEF Starts, InTask
      <4>2. Top.task = NoTask /\ depth' = depth /\ Top'.task # NoTask
        BY <3>4, TasksAssumption DEF Starts
      <4>3. FALSE
        BY <1>1, <2>1, <4>1, <4>2, ReturnStartsNothing DEF Top
      <4>4. QED
        BY <4>3
    <3>5. CASE Pushes
      <4>1. depth' = depth + 1
        BY <3>5 DEF Pushes
      <4>2. ~ ReturnFromRun
        <5>1. ReturnFromRun => depth' = depth - 1
          BY DEF ReturnFromRun
        <5>2. QED
          BY <2>2, <4>1, <5>1
      <4>3. \E op \in {"Run", "RunAllPending"} : Run(op)
        BY <1>1, <2>1, <2>2, <4>1, <4>2, DepthSteps
      <4>4. QED
        BY <1>1, <4>3 DEF Run
    <3>6. QED
      BY <1>1, <2>1, <3>1, <3>2, <3>3, <3>4, <3>5, StepShape
  <2>4. QED
    BY <2>1, <2>3, RunningLength
<1>2. ASSUME IInv, [Next]_vars, depth' < depth PROVE ~ shouldQuit'
  <2>1. depth \in Nat /\ depth' # depth /\ TypeOK
    BY <1>2 DEF IInv, TypeOK
  <2>2. ReturnFromRun
    BY <1>2, <2>1, DepthSteps DEF Run
  <2>3. QED
    BY <2>2 DEF ReturnFromRun
<1>3. IInv /\ IInv' /\ [Next]_vars
        => [ /\ shouldQuit => Len(running') <= Len(running)
             /\ depth' < depth => ~ shouldQuit' ]_vars
  BY <1>1, <1>2
<1>4. QED
  BY <1>3, IInvCorrect, PTL DEF Spec, QuitNowIsImmediate

-----------------------------------------------------------------------------
(* Each task is in one place.                                               *)

(* A task is in the hands of one poster, before it is in the history.       *)
PostedInv ==
    /\ \A p \in Posters : poster[p].task \notin Elements(order)
    /\ \A p, q \in Posters :
          poster[p].task # NoTask /\ poster[q].task = poster[p].task => p = q
    /\ \A t \in Tasks : Count(order, t) <= 1

(* Entries of the delayed queue differ in their sequence numbers.           *)
DelayedInv == IsFiniteSet(delayed) /\ \A e \in delayed : e.seq < nextSeq

DelayedOf(t) == {e \in delayed : e.task = t}
FramesOf(t)  == {d \in 1..depth : frame[d].task = t}
DoneCount(t) == IF t \in done THEN 1 ELSE 0

LEMMA CountIs ==
    ASSUME NEW S, NEW q \in Seq(S), NEW t
    PROVE  /\ Count(q, t) \in Nat
           /\ Count(q, t) = 0 <=> t \notin Elements(q)
           /\ IsFiniteSet({i \in DOMAIN q : q[i] = t})
<1> DEFINE I == {i \in DOMAIN q : q[i] = t}
<1>1. DOMAIN q = 1..Len(q) /\ Len(q) \in Nat
  OBVIOUS
<1>2. IsFiniteSet(1..Len(q))
  BY <1>1, FS_Interval
<1>3. IsFiniteSet(I)
  BY <1>1, <1>2, FS_Subset
<1>4. I = {} <=> t \notin Elements(q)
  BY DEF Elements
<1>5. QED
  BY <1>3, <1>4, FS_EmptySet, FS_CardinalityType DEF Count

LEMMA CountEmpty == \A t : Count(<< >>, t) = 0
<1>1. SUFFICES ASSUME NEW t PROVE Count(<< >>, t) = 0
  OBVIOUS
<1>2. << >> \in Seq({}) /\ t \notin Elements(<< >>)
  BY DEF Elements
<1>3. QED
  BY <1>2, CountIs

LEMMA CountAppend ==
    ASSUME NEW S, NEW q \in Seq(S), NEW x \in S
    PROVE  /\ \A t : Count(Append(q, x), t) = Count(q, t) + (IF x = t THEN 1 ELSE 0)
           /\ Elements(Append(q, x)) = Elements(q) \cup {x}
<1> DEFINE r == Append(q, x)
           n == Len(q) + 1
<1>1. /\ DOMAIN q = 1..Len(q) /\ Len(q) \in Nat /\ DOMAIN r = 1..n
      /\ r[n] = x /\ \A i \in 1..Len(q) : r[i] = q[i]
  OBVIOUS
<1>2. DOMAIN r = DOMAIN q \cup {n} /\ n \notin DOMAIN q
  BY <1>1
<1>3. ASSUME NEW t PROVE Count(r, t) = Count(q, t) + (IF x = t THEN 1 ELSE 0)
  <2> DEFINE I == {i \in DOMAIN q : q[i] = t}
             J == {i \in DOMAIN r : r[i] = t}
  <2>1. J = IF x = t THEN I \cup {n} ELSE I
    BY <1>1, <1>2
  <2>2. n \notin I /\ IsFiniteSet(I) /\ Cardinality(I) \in Nat
    BY <1>2, CountIs DEF Count
  <2> HIDE DEF I, J, n
  <2>3. Cardinality(J) = Cardinality(I) + (IF x = t THEN 1 ELSE 0)
    <3>1. CASE x = t
      BY <2>1, <2>2, <3>1, FS_AddElement
    <3>2. CASE x # t
      BY <2>1, <2>2, <3>2
    <3>3. QED
      BY <3>1, <3>2
  <2>4. QED
    BY <2>3 DEF Count, I, J
<1>4. Elements(r) = Elements(q) \cup {x}
  BY <1>1, <1>2 DEF Elements
<1>5. QED
  BY <1>3, <1>4

LEMMA CountTail ==
    ASSUME NEW S, NEW q \in Seq(S), q # << >>, NEW t
    PROVE  Count(Tail(q), t) = Count(q, t) - (IF Head(q) = t THEN 1 ELSE 0)
<1> DEFINE r == Tail(q)
<1>1. /\ r \in Seq(S) /\ Len(r) \in Nat /\ Len(q) = Len(r) + 1 /\ Head(q) = q[1]
      /\ DOMAIN q = 1..Len(q) /\ DOMAIN r = 1..Len(r)
      /\ \A i \in 1..Len(r) : r[i] = q[i + 1]
  OBVIOUS
<1> HIDE DEF r
<1> DEFINE I == {i \in DOMAIN r : r[i] = t}
           J == {i \in DOMAIN q : q[i] = t} \ {1}
           f == [i \in I |-> i + 1]
<1>2. IsFiniteSet(I) /\ IsFiniteSet({i \in DOMAIN q : q[i] = t})
  BY <1>1, CountIs
<1>3. ExistsBijection(I, J)
  <2>1. PICK n \in Nat : n = Len(r) /\ Len(q) = n + 1
    BY <1>1
  <2>2. /\ \A i \in 1..n : i + 1 \in 1..n + 1 /\ i + 1 # 1
        /\ \A j \in 1..n + 1 : j # 1 => j - 1 \in 1..n /\ j - 1 + 1 = j
        /\ \A i, j \in 1..n : i + 1 = j + 1 => i = j
    OBVIOUS
  <2>3. \A i \in I : i \in 1..n /\ r[i] = t /\ f[i] = i + 1
    BY <1>1, <2>1
  <2>4. \A j : j \in J <=> j \in 1..n + 1 /\ q[j] = t /\ j # 1
    BY <1>1, <2>1
  <2>5. \A i \in I : f[i] \in J
    BY <1>1, <2>1, <2>2, <2>3, <2>4
  <2>6. f \in [I -> J]
    BY <2>5
  <2>7. \A i, j \in I : f[i] = f[j] => i = j
    BY <2>2, <2>3
  <2>8. \A j \in J : \E i \in I : f[i] = j
    <3>1. SUFFICES ASSUME NEW j \in J PROVE j - 1 \in I /\ f[j - 1] = j
      OBVIOUS
    <3>2. j - 1 \in 1..n /\ j - 1 + 1 = j /\ q[j] = t
      BY <2>2, <2>4
    <3>3. r[j - 1] = q[j]
      BY <1>1, <2>1, <3>2
    <3>4. QED
      BY <1>1, <2>1, <3>2, <3>3
  <2> HIDE DEF I, J, f
  <2>9. f \in Bijection(I, J)
    BY <2>6, <2>7, <2>8 DEF Bijection, Injection, Surjection, IsInjective
  <2>10. QED
    BY <2>9 DEF ExistsBijection
<1>4. Cardinality(J) = Cardinality(I)
  BY <1>2, <1>3, FS_Bijection
<1>5. Cardinality(J) = Cardinality({i \in DOMAIN q : q[i] = t}) - (IF q[1] = t THEN 1 ELSE 0)
  <2> DEFINE K == {i \in DOMAIN q : q[i] = t}
  <2>1. 1 \in K <=> q[1] = t
    BY <1>1
  <2>2. IsFiniteSet(K) /\ Cardinality(K) \in Nat
    BY <1>2, FS_CardinalityType
  <2> HIDE DEF K
  <2>3. Cardinality(K \ {1}) = IF 1 \in K THEN Cardinality(K) - 1 ELSE Cardinality(K)
    BY <2>2, FS_RemoveElement
  <2>4. QED
    BY <2>1, <2>2, <2>3 DEF K
<1>6. QED
  BY <1>1, <1>4, <1>5 DEF Count, r

(* The activations that execute a task.                                     *)
LEMMA FramesFinite == ASSUME TypeOK, NEW t PROVE IsFiniteSet(FramesOf(t))
<1>1. depth \in Nat
  BY DEF TypeOK
<1>2. IsFiniteSet(1..depth)
  BY <1>1, FS_Interval
<1>3. QED
  BY <1>2, FS_Subset DEF FramesOf

LEMMA FramesStay ==
    ASSUME TypeOK, Quiet \/ Moves \/ Calls \/ Pushes \/ Pops, NEW t \in Tasks
    PROVE  FramesOf(t)' = FramesOf(t)
<1>1. depth \in Nat /\ 1..depth \subseteq Levels /\ t # NoTask
  BY TasksAssumption, BoundsAssumption DEF TypeOK, Levels
<1>2. CASE Quiet
  BY <1>2 DEF Quiet, FramesOf
<1>3. CASE Moves \/ Calls
  <2>1. depth' = depth /\ frame'[depth].task = frame[depth].task
    BY <1>3 DEF Moves, Calls, Top
  <2>2. \A d \in 1..depth : d # depth => frame'[d] = frame[d]
    BY <1>1, <1>3 DEF Moves, Calls, SameBelow
  <2>3. QED
    BY <2>1, <2>2 DEF FramesOf
<1>4. CASE Pushes
  <2>1. /\ depth' = depth + 1 /\ frame'[depth + 1].task # t
        /\ depth > 0 => frame'[depth].task = frame[depth].task
    BY <1>1, <1>4 DEF Pushes, Top
  <2>2. \A d \in 1..depth : d # depth => frame'[d] = frame[d]
    BY <1>1, <1>4 DEF Pushes, SameBelow
  <2>3. \A d \in 1..depth : frame'[d].task = frame[d].task
    BY <1>1, <2>1, <2>2
  <2>4. 1..depth + 1 = 1..depth \cup {depth + 1}
    BY <1>1
  <2>5. QED
    BY <2>1, <2>3, <2>4 DEF FramesOf
<1>5. CASE Pops
  <2>1. depth > 0 /\ depth' = depth - 1 /\ frame[depth].task # t
    BY <1>1, <1>5 DEF Pops, Top
  <2>2. \A d \in 1..depth - 1 : frame'[d] = frame[d]
    BY <1>1, <1>5 DEF Pops, SameBelow
  <2>3. 1..depth = 1..depth - 1 \cup {depth}
    BY <1>1, <2>1
  <2>4. QED
    BY <2>1, <2>2, <2>3 DEF FramesOf
<1>6. QED
  BY <1>2, <1>3, <1>4, <1>5

LEMMA FramesStart ==
    ASSUME TypeOK, depth > 0, depth' = depth, Top.task = NoTask, NEW u \in Tasks, StartTask(u),
           NEW t \in Tasks
    PROVE  Cardinality(FramesOf(t)') = Cardinality(FramesOf(t)) + (IF u = t THEN 1 ELSE 0)
<1> DEFINE f == [Top EXCEPT !.task = u, !.ops = Script[u], !.allows = FALSE]
<1>1. f \in Frame /\ f.task = u
  BY TopType, TasksAssumption DEF Frame
<1>2. frame'[depth].task = u /\ \A d \in Levels : d # depth => frame'[d] = frame[d]
  BY <1>1, SetTopType DEF StartTask
<1>3. depth \in 1..depth /\ 1..depth \subseteq Levels /\ frame[depth].task # t
  BY TasksAssumption, BoundsAssumption DEF TypeOK, Levels, Top
<1>4. FramesOf(t)' = IF u = t THEN FramesOf(t) \cup {depth} ELSE FramesOf(t)
  BY <1>2, <1>3 DEF FramesOf
<1>5. depth \notin FramesOf(t)
  BY <1>3 DEF FramesOf
<1>6. IsFiniteSet(FramesOf(t)) /\ Cardinality(FramesOf(t)) \in Nat
  BY FramesFinite, FS_CardinalityType
<1>7. CASE u = t
  BY <1>4, <1>5, <1>6, <1>7, FS_AddElement
<1>8. CASE u # t
  BY <1>4, <1>6, <1>8
<1>9. QED
  BY <1>7, <1>8

LEMMA FinishShape ==
    ASSUME TypeOK, FinishTask
    PROVE  /\ depth > 0 /\ depth' = depth /\ Top.task # NoTask /\ Top.task \in Tasks
           /\ frame'[depth].task = NoTask
           /\ \A d \in Levels : d # depth => frame'[d] = frame[d]
<1> DEFINE f == [Top EXCEPT !.task = NoTask, !.ops = {}, !.allows = FALSE,
                   !.did = (Top.pc = "work"),
                   !.pc = Onward(IF Top.pc = "work" THEN "delayed" ELSE "work")]
<1>1. depth > 0 /\ depth' = depth /\ Top.task # NoTask
  BY DEF FinishTask, InTask
<1>2. Onward(IF Top.pc = "work" THEN "delayed" ELSE "work") \in PumpPc
  BY DEF Onward, PumpPc
<1>3. f \in Frame /\ f.task = NoTask /\ Top.task \in Tasks
  BY <1>1, <1>2, TopType DEF Frame
<1>4. SetTop(f)
  BY DEF FinishTask
<1> HIDE DEF f
<1>5. frame'[depth] = f /\ \A d \in Levels : d # depth => frame'[d] = frame[d]
  BY <1>1, <1>3, <1>4, SetTopType
<1>6. QED
  BY <1>1, <1>3, <1>5

LEMMA FramesFinish ==
    ASSUME TypeOK, FinishTask, NEW t \in Tasks
    PROVE  /\ Cardinality(FramesOf(t)') =
                  Cardinality(FramesOf(t)) - (IF Top.task = t THEN 1 ELSE 0)
           /\ Top.task = t => Cardinality(FramesOf(t)) > 0
<1>1. depth > 0 /\ depth' = depth /\ Top.task # NoTask
  BY FinishShape
<1>2. frame'[depth].task # t /\ \A d \in Levels : d < depth => frame'[d] = frame[d]
  <2>1. depth \in Nat /\ Levels \subseteq Nat
    BY BoundsAssumption DEF TypeOK, Levels
  <2>2. QED
    BY <2>1, FinishShape, TasksAssumption
<1>3. /\ depth \in 1..depth /\ 1..depth \subseteq Levels
      /\ \A d \in 1..depth : d # depth => d < depth
  BY <1>1, BoundsAssumption DEF TypeOK, Levels
<1>4. FramesOf(t)' = FramesOf(t) \ {depth}
  BY <1>1, <1>2, <1>3 DEF FramesOf
<1>5. depth \in FramesOf(t) <=> Top.task = t
  BY <1>3 DEF FramesOf, Top
<1>6. IsFiniteSet(FramesOf(t)) /\ Cardinality(FramesOf(t)) \in Nat
  BY FramesFinite, FS_CardinalityType
<1>7. Top.task = t => Cardinality(FramesOf(t)) # 0
  BY <1>5, <1>6, FS_EmptySet
<1>8. Cardinality(FramesOf(t)') = IF depth \in FramesOf(t) THEN Cardinality(FramesOf(t)) - 1
                                                      ELSE Cardinality(FramesOf(t))
  BY <1>4, <1>6, FS_RemoveElement
<1>9. QED
  BY <1>5, <1>6, <1>7, <1>8

(* Who holds a task that is not in the history yet.                         *)
LEMMA PostedNext ==
    ASSUME TypeOK, PostedInv, [Next]_vars
    PROVE  PostedInv'
<1>1. order \in Seq(Tasks) /\ NoTask \notin Tasks
  BY TasksAssumption DEF TypeOK
<1>2. \A t \in Tasks : Count(order, t) \in Nat /\ (Count(order, t) = 0 <=> t \notin Elements(order))
  BY <1>1, CountIs
<1>3. Elements(order) \subseteq Tasks
  BY <1>1 DEF Elements
<1>4. CASE UNCHANGED <<order, poster>>
  BY <1>4 DEF PostedInv
<1>5. ASSUME NEW u \in Tasks, u \notin Elements(order), order' = Append(order, u)
      PROVE  /\ Elements(order)' = Elements(order) \cup {u}
             /\ \A t \in Tasks : Count(order, t)' <= 1
  <2>1. /\ Elements(order') = Elements(order) \cup {u}
        /\ \A t : Count(order', t) = Count(order, t) + (IF u = t THEN 1 ELSE 0)
    BY <1>1, <1>5, CountAppend
  <2>2. Count(order, u) = 0
    BY <1>2, <1>5
  <2>3. \A t \in Tasks : Count(order', t) <= 1
    BY <1>2, <2>1, <2>2 DEF PostedInv
  <2>4. QED
    BY <2>1, <2>3
<1>6. ASSUME NEW p \in Posters, NEW t \in Tasks, PostTask(p, t) PROVE PostedInv'
  <2>1. /\ poster' = [poster EXCEPT ![p] = [pc |-> "enqueue", task |-> t]] /\ order' = order
        /\ t \notin Elements(order) /\ \A q \in Posters : poster[q].task # t
    BY <1>6 DEF PostTask, StampDue, Posted, ghostVars
  <2>2. \A q \in Posters : poster'[q].task = IF q = p THEN t ELSE poster[q].task
    BY <2>1 DEF TypeOK
  <2>3. QED
    BY <2>1, <2>2 DEF PostedInv
<1>7. ASSUME NEW p \in Posters, AddToIncomingQueue(p) PROVE PostedInv'
  <2>1. PICK u \in Tasks : u = poster[p].task
    BY <1>7 DEF AddToIncomingQueue, TypeOK
  <2>2. u \notin Elements(order) /\ order' = Append(order, u)
    BY <1>7, <2>1 DEF AddToIncomingQueue, Push, PostedInv
  <2>3. \A q \in Posters : poster'[q].task = IF q = p THEN NoTask ELSE poster[q].task
    BY <1>7 DEF AddToIncomingQueue, TypeOK
  <2>4. \A q \in Posters : q # p => poster[q].task # u
    BY <1>1, <2>1 DEF PostedInv
  <2>5. /\ Elements(order)' = Elements(order) \cup {u}
        /\ \A t \in Tasks : Count(order, t)' <= 1
    BY <1>5, <2>2
  <2>6. \A q \in Posters : poster'[q].task \notin Elements(order)'
    BY <1>1, <1>3, <2>1, <2>3, <2>4, <2>5 DEF PostedInv
  <2>7. QED
    BY <2>3, <2>5, <2>6 DEF PostedInv
<1>8. ASSUME NEW p \in Posters, ScheduleWork(p) PROVE PostedInv'
  <2>1. order' = order /\ \A q \in Posters : poster'[q].task = poster[q].task
    BY <1>8 DEF ScheduleWork, ghostVars, TypeOK
  <2>2. QED
    BY <2>1 DEF PostedInv
<1>9. ASSUME NEW u \in Tasks, PostFromOwner(u) PROVE PostedInv'
  <2>1. /\ u \notin Elements(order) /\ order' = Append(order, u) /\ poster' = poster
        /\ \A q \in Posters : poster[q].task # u
    BY <1>9 DEF PostFromOwner, StampDue, Posted, Push
  <2>2. /\ Elements(order)' = Elements(order) \cup {u}
        /\ \A t \in Tasks : Count(order, t)' <= 1
    BY <1>5, <2>1
  <2>3. \A q \in Posters : poster'[q].task \notin Elements(order)'
    BY <2>1, <2>2 DEF PostedInv
  <2>4. QED
    BY <2>1, <2>2, <2>3 DEF PostedInv
<1>10. CASE \/ \E op \in {"Run", "RunAllPending"} : Run(op)
            \/ Quit \/ QuitNow \/ \E allowed \in BOOLEAN : SetNestableTasksAllowed(allowed)
            \/ LoopStep \/ Tick \/ UNCHANGED vars
  BY <1>4, <1>10 DEF Run, Quit, QuitNow, SetNestableTasksAllowed, LoopStep, ReloadWorkQueue,
       AddToDelayedWorkQueue, RunOrDeferWork, EndDoWork, SkipDelayedWork, AwaitDelayedWork,
       RunOrDeferDelayedWork, ProcessNextDelayedNonNestableTask, DoIdleWork, Sleep, Wake,
       ReturnFromRun, FinishTask, Tick, vars, ghostVars
<1>11. QED
  BY <1>6, <1>7, <1>8, <1>9, <1>10 DEF Next, PosterStep, ClientCall

LEMMA DelayedNext ==
    ASSUME TypeOK, DelayedInv, [Next]_vars
    PROVE  DelayedInv'
<1>1. delayed \subseteq Entry /\ nextSeq \in Nat /\ \A e \in Entry : e.seq \in Nat
  BY DEF TypeOK, Entry
<1>2. CASE UNCHANGED <<delayed, nextSeq>>
  BY <1>2 DEF DelayedInv
<1>3. CASE AddToDelayedWorkQueue
  <2> DEFINE e == [task |-> Head(work), time |-> due[Head(work)], seq |-> nextSeq]
  <2>1. delayed' = delayed \cup {e} /\ nextSeq' = nextSeq + 1 /\ e.seq = nextSeq
    BY <1>3 DEF AddToDelayedWorkQueue
  <2> HIDE DEF e
  <2>2. IsFiniteSet(delayed')
    BY <2>1, FS_AddElement DEF DelayedInv
  <2>3. QED
    BY <1>1, <2>1, <2>2 DEF DelayedInv
<1>4. CASE RunOrDeferDelayedWork
  <2>1. nextSeq' = nextSeq /\ delayed' \subseteq delayed
    BY <1>4 DEF RunOrDeferDelayedWork
  <2>2. IsFiniteSet(delayed')
    BY <2>1, FS_Subset DEF DelayedInv
  <2>3. QED
    BY <2>1, <2>2 DEF DelayedInv
<1>5. QED
  BY <1>2, <1>3, <1>4 DEF Next, PosterStep, PostTask, AddToIncomingQueue, ScheduleWork, ClientCall,
       PostFromOwner, Run, Quit, QuitNow, SetNestableTasksAllowed, LoopStep, ReloadWorkQueue,
       RunOrDeferWork, EndDoWork, SkipDelayedWork, AwaitDelayedWork,
       ProcessNextDelayedNonNestableTask, DoIdleWork, Sleep, Wake,
       ReturnFromRun, FinishTask, Tick, vars, queueVars

PlaceOf(t) == Count(incoming, t) + Count(work, t) + Count(deferred, t)
              + Cardinality(DelayedOf(t)) + Cardinality(FramesOf(t)) + DoneCount(t)

LEMMA PlaceIs == EachTaskInOnePlace <=> \A t \in Tasks : PlaceOf(t) = Count(order, t)
BY DEF EachTaskInOnePlace, PlaceOf, DelayedOf, FramesOf, DoneCount

(* The step of a task from one place to the next.                           *)
LEMMA PlaceNext ==
    ASSUME TypeOK, PostedInv, DelayedInv, EachTaskInOnePlace, [Next]_vars
    PROVE  EachTaskInOnePlace'
<1>1. SUFFICES ASSUME NEW t \in Tasks PROVE PlaceOf(t)' = Count(order, t)'
  BY DEF EachTaskInOnePlace, PlaceOf, DelayedOf, FramesOf, DoneCount
<1>2. PlaceOf(t) = Count(order, t)
  BY PlaceIs
<1>3. /\ incoming \in Seq(Tasks) /\ work \in Seq(Tasks) /\ deferred \in Seq(Tasks)
      /\ order \in Seq(Tasks)
  BY DEF TypeOK
<1>4. /\ Count(incoming, t) \in Nat /\ Count(work, t) \in Nat /\ Count(deferred, t) \in Nat
      /\ Count(order, t) \in Nat /\ Count(order, t) <= 1
  BY <1>3, CountIs DEF PostedInv
<1>5. /\ IsFiniteSet(DelayedOf(t)) /\ Cardinality(DelayedOf(t)) \in Nat
      /\ Cardinality(FramesOf(t)) \in Nat
  BY FramesFinite, FS_Subset, FS_CardinalityType DEF DelayedOf, DelayedInv
<1>6. DoneCount(t) \in {0, 1}
  BY DEF DoneCount
<1> DEFINE One(u) == IF u = t THEN 1 ELSE 0
<1>7. \A q \in Seq(Tasks), u \in Tasks : Count(Append(q, u), t) = Count(q, t) + One(u)
  BY CountAppend
<1>8. ASSUME NEW q \in Seq(Tasks), q # << >>
      PROVE  Head(q) \in Tasks /\ Count(Tail(q), t) = Count(q, t) - One(Head(q))
  BY <1>8, CountTail
<1>9. \A u : One(u) \in {0, 1}
  OBVIOUS
<1> HIDE DEF One
<1>10. ASSUME Quiet \/ Moves \/ Calls \/ Pushes \/ Pops
       PROVE  Cardinality(FramesOf(t)') = Cardinality(FramesOf(t))
  BY <1>10, FramesStay
<1>11. ASSUME UNCHANGED delayed PROVE Cardinality(DelayedOf(t)') = Cardinality(DelayedOf(t))
  BY <1>11 DEF DelayedOf
<1>12. ASSUME UNCHANGED done PROVE DoneCount(t)' = DoneCount(t)
  BY <1>12 DEF DoneCount
<1>13. ASSUME UNCHANGED <<incoming, work, deferred, delayed, done, order>>,
              Quiet \/ Moves \/ Calls \/ Pushes \/ Pops
       PROVE  PlaceOf(t)' = Count(order, t)'
  BY <1>2, <1>10, <1>11, <1>12, <1>13 DEF PlaceOf
<1>14. ASSUME NEW u \in Tasks, incoming' = Append(incoming, u), order' = Append(order, u),
              UNCHANGED <<work, deferred, delayed, done>>, Quiet \/ Calls
       PROVE  PlaceOf(t)' = Count(order, t)'
  <2>1. /\ Count(incoming', t) = Count(incoming, t) + One(u)
        /\ Count(order', t) = Count(order, t) + One(u)
    BY <1>3, <1>7, <1>14
  <2>2. /\ Count(work', t) = Count(work, t) /\ Count(deferred', t) = Count(deferred, t)
        /\ Cardinality(DelayedOf(t)') = Cardinality(DelayedOf(t))
        /\ Cardinality(FramesOf(t)') = Cardinality(FramesOf(t)) /\ DoneCount(t)' = DoneCount(t)
    BY <1>10, <1>11, <1>12, <1>14
  <2>3. QED
    BY <1>2, <1>4, <1>5, <1>6, <1>9, <2>1, <2>2 DEF PlaceOf
<1> USE DEF sharedVars, queueVars, ghostVars
<1>15. ASSUME NEW p \in Posters, PosterStep(p) PROVE PlaceOf(t)' = Count(order, t)'
  <2>1. Quiet
    BY <1>15, PosterShape
  <2>2. CASE AddToIncomingQueue(p)
    BY <1>14, <2>1, <2>2 DEF AddToIncomingQueue, Push, TypeOK
  <2>3. CASE ScheduleWork(p) \/ \E u \in Tasks : PostTask(p, u)
    BY <1>13, <2>1, <2>3 DEF ScheduleWork, PostTask
  <2>4. QED
    BY <1>15, <2>2, <2>3 DEF PosterStep
<1>16. CASE ClientCall
  <2>1. ASSUME NEW u \in Tasks, PostFromOwner(u) PROVE PlaceOf(t)' = Count(order, t)'
    <3>1. depth' = depth
      BY <2>1 DEF PostFromOwner
    <3>2. ~ Pushes
      BY <3>1 DEF Pushes, TypeOK
    <3>3. Quiet \/ Calls
      BY <1>16, <3>2, ClientShape
    <3>4. QED
      BY <1>14, <2>1, <3>3 DEF PostFromOwner, Push
  <2>2. CASE \/ \E op \in {"Run", "RunAllPending"} : Run(op)
             \/ Quit \/ QuitNow \/ \E allowed \in BOOLEAN : SetNestableTasksAllowed(allowed)
    BY <1>13, <1>16, <2>2, ClientShape DEF Run, Quit, QuitNow, SetNestableTasksAllowed
  <2>3. QED
    BY <1>16, <2>1, <2>2 DEF ClientCall
<1>17. CASE Tick \/ UNCHANGED vars
  BY <1>13, <1>17 DEF Tick, vars, Quiet
<1>18. CASE ReloadWorkQueue
  <2>1. Quiet /\ work = << >> /\ work' = incoming /\ incoming' = << >>
        /\ UNCHANGED <<deferred, delayed, done, order>>
    BY <1>18 DEF ReloadWorkQueue, Quiet
  <2>2. Count(work, t) = 0 /\ Count(incoming', t) = 0
    BY <2>1, CountEmpty
  <2>3. QED
    BY <1>2, <1>4, <1>5, <1>6, <1>10, <1>11, <1>12, <2>1, <2>2 DEF PlaceOf
<1>19. CASE AddToDelayedWorkQueue
  <2>1. PICK u \in Tasks : u = Head(work) /\ Count(Tail(work), t) = Count(work, t) - One(u)
    BY <1>3, <1>8, <1>19 DEF AddToDelayedWorkQueue
  <2> DEFINE e == [task |-> u, time |-> due[u], seq |-> nextSeq]
  <2>2. /\ delayed' = delayed \cup {e} /\ work' = Tail(work) /\ Quiet
        /\ UNCHANGED <<incoming, deferred, done, order>>
    BY <1>19, <2>1 DEF AddToDelayedWorkQueue, Quiet
  <2>3. e.task = u /\ e \notin delayed
    BY DEF DelayedInv, TypeOK
  <2> HIDE DEF e
  <2>4. Cardinality(DelayedOf(t)') = Cardinality(DelayedOf(t)) + One(u)
    <3>1. CASE u = t
      <4>1. DelayedOf(t)' = DelayedOf(t) \cup {e} /\ e \notin DelayedOf(t)
        BY <2>2, <2>3, <3>1 DEF DelayedOf
      <4>2. QED
        BY <1>5, <3>1, <4>1, FS_AddElement DEF One
    <3>2. CASE u # t
      <4>1. DelayedOf(t)' = DelayedOf(t)
        BY <2>2, <2>3, <3>2 DEF DelayedOf
      <4>2. QED
        BY <1>5, <3>2, <4>1 DEF One
    <3>3. QED
      BY <3>1, <3>2
  <2>5. QED
    BY <1>2, <1>4, <1>5, <1>6, <1>9, <1>10, <1>12, <2>1, <2>2, <2>4 DEF PlaceOf
<1>20. ASSUME NEW u \in Tasks, StartTask(u), depth > 0, depth' = depth, Top.task = NoTask
       PROVE  Cardinality(FramesOf(t)') = Cardinality(FramesOf(t)) + One(u)
  BY <1>20, FramesStart DEF One
<1> DEFINE Passed(u) ==
        \/ /\ Count(deferred', t) = Count(deferred, t)
           /\ Cardinality(FramesOf(t)') = Cardinality(FramesOf(t)) + One(u)
        \/ /\ Count(deferred', t) = Count(deferred, t) + One(u)
           /\ Cardinality(FramesOf(t)') = Cardinality(FramesOf(t))
<1>21. ASSUME NEW u \in Tasks, depth > 0, depth' = depth, Top.task = NoTask,
               \/ StartTask(u) /\ UNCHANGED deferred
               \/ deferred' = Append(deferred, u) /\ (Quiet \/ Moves)
        PROVE  Passed(u)
  <2>1. CASE StartTask(u) /\ UNCHANGED deferred
    BY <1>20, <1>21, <2>1
  <2>2. CASE deferred' = Append(deferred, u) /\ (Quiet \/ Moves)
    <3>1. Count(deferred', t) = Count(deferred, t) + One(u)
      BY <1>3, <1>7, <2>2
    <3>2. Cardinality(FramesOf(t)') = Cardinality(FramesOf(t))
      BY <1>10, <2>2
    <3>3. QED
      BY <3>1, <3>2
  <2>3. QED
    BY <1>21, <2>1, <2>2
<1> HIDE DEF Passed
<1>22. CASE RunOrDeferWork
  <2>1. PICK u \in Tasks : u = Head(work) /\ Count(Tail(work), t) = Count(work, t) - One(u)
    BY <1>3, <1>8, <1>22 DEF RunOrDeferWork
  <2>2. /\ work' = Tail(work) /\ UNCHANGED <<incoming, delayed, done, order>>
        /\ depth > 0 /\ depth' = depth /\ Top.task = NoTask
        /\ \/ StartTask(u) /\ UNCHANGED deferred
           \/ deferred' = Append(deferred, u) /\ Quiet
    BY <1>22, <2>1 DEF RunOrDeferWork, AtPump, Quiet
  <2>3. Passed(u)
    BY <1>21, <2>2
  <2>4. Count(work', t) = Count(work, t) - One(u) /\ Count(incoming', t) = Count(incoming, t)
        /\ Count(order', t) = Count(order, t)
        /\ Cardinality(DelayedOf(t)') = Cardinality(DelayedOf(t)) /\ DoneCount(t)' = DoneCount(t)
    BY <1>11, <1>12, <2>1, <2>2
  <2>5. QED
    BY <1>2, <1>4, <1>5, <1>6, <1>9, <2>3, <2>4 DEF PlaceOf, Passed
<1>23. CASE EndDoWork \/ SkipDelayedWork \/ AwaitDelayedWork \/ DoIdleWork \/ Sleep \/ Wake
  <2>1. Moves
    BY <1>23, EndDoWorkShape, NoDelayedWorkShape, DoIdleWorkShape, SleepShape, WakeShape
       DEF SkipDelayedWork, AwaitDelayedWork, AtPump
  <2>2. QED
    BY <1>13, <1>23, <2>1 DEF EndDoWork, SkipDelayedWork, AwaitDelayedWork, DoIdleWork, Sleep, Wake
<1>24. CASE RunOrDeferDelayedWork
  <2>1. /\ delayed # {} /\ depth > 0 /\ depth' = depth /\ Top.task = NoTask
        /\ UNCHANGED <<incoming, work, done, order>>
    BY <1>24 DEF RunOrDeferDelayedWork, AtPump
  <2>2. PICK e \in delayed : e = Earliest(delayed)
    BY <2>1, EarliestIsFirst DEF TypeOK
  <2>3. PICK u \in Tasks : u = e.task
    BY DEF TypeOK, Entry
  <2>4. /\ delayed' = delayed \ {e}
        /\ \/ StartTask(u) /\ UNCHANGED deferred
           \/ deferred' = Append(deferred, u) /\ NoDelayedWork /\ UNCHANGED nestableAllowed
    BY <1>24, <2>2, <2>3 DEF RunOrDeferDelayedWork
  <2>5. Cardinality(DelayedOf(t)') = Cardinality(DelayedOf(t)) - One(u)
    <3>1. DelayedOf(t)' = DelayedOf(t) \ {e} /\ (e \in DelayedOf(t) <=> u = t)
      BY <2>3, <2>4 DEF DelayedOf
    <3>2. Cardinality(DelayedOf(t) \ {e}) = IF e \in DelayedOf(t) THEN Cardinality(DelayedOf(t)) - 1
                                                               ELSE Cardinality(DelayedOf(t))
      BY <1>5, FS_RemoveElement
    <3>3. QED
      BY <1>5, <3>1, <3>2 DEF One
  <2>6. Passed(u)
    <3>1. NoDelayedWork /\ UNCHANGED nestableAllowed => Moves
      BY <2>1, NoDelayedWorkShape
    <3>2. QED
      BY <1>21, <2>1, <2>4, <3>1
  <2>7. QED
    BY <1>2, <1>4, <1>5, <1>6, <1>9, <1>12, <2>1, <2>5, <2>6 DEF PlaceOf, Passed
<1>25. CASE ProcessNextDelayedNonNestableTask
  <2>1. PICK u \in Tasks : u = Head(deferred) /\ Count(Tail(deferred), t) = Count(deferred, t) - One(u)
    BY <1>3, <1>8, <1>25 DEF ProcessNextDelayedNonNestableTask
  <2>2. /\ deferred' = Tail(deferred) /\ UNCHANGED <<incoming, work, delayed, done, order>>
        /\ depth > 0 /\ depth' = depth /\ Top.task = NoTask /\ StartTask(u)
    BY <1>25, <2>1 DEF ProcessNextDelayedNonNestableTask, AtPump
  <2>3. Cardinality(FramesOf(t)') = Cardinality(FramesOf(t)) + One(u)
    BY <1>20, <2>2
  <2>4. QED
    BY <1>2, <1>4, <1>5, <1>6, <1>9, <1>11, <1>12, <2>1, <2>2, <2>3 DEF PlaceOf
<1>26. CASE ReturnFromRun
  <2>1. Pops \/ Quiet \/ Moves
    <3>1. LoopStep /\ Top.task = NoTask /\ depth' = depth - 1
      BY <1>26 DEF LoopStep, ReturnFromRun, AtPump
    <3>2. depth' # depth
      BY <3>1 DEF TypeOK
    <3>3. QED
      BY <3>1, <3>2, LoopShape DEF Starts, Finishes
  <2>2. QED
    BY <1>13, <1>26, <2>1 DEF ReturnFromRun
<1>27. CASE FinishTask
  <2>1. /\ Cardinality(FramesOf(t)') = Cardinality(FramesOf(t)) - One(Top.task)
        /\ One(Top.task) = 1 => Cardinality(FramesOf(t)) > 0
    BY <1>27, FramesFinish DEF One
  <2>2. done' = done \cup {Top.task} /\ UNCHANGED <<incoming, work, deferred, delayed, order>>
    BY <1>27 DEF FinishTask
  <2>3. DoneCount(t)' = DoneCount(t) + One(Top.task)
    <3>1. CASE Top.task = t
      <4>1. Cardinality(FramesOf(t)) > 0
        BY <2>1, <3>1 DEF One
      <4>2. DoneCount(t) = 0
        BY <1>2, <1>4, <1>5, <1>6, <4>1 DEF PlaceOf
      <4>3. QED
        BY <2>2, <3>1, <4>2 DEF DoneCount, One
    <3>2. CASE Top.task # t
      BY <2>2, <3>2 DEF DoneCount, One
    <3>3. QED
      BY <3>1, <3>2
  <2>4. QED
    BY <1>2, <1>4, <1>5, <1>6, <1>9, <1>11, <2>1, <2>2, <2>3 DEF PlaceOf
<1>28. CASE LoopStep
  BY <1>18, <1>19, <1>22, <1>23, <1>24, <1>25, <1>26, <1>27, <1>28 DEF LoopStep
<1>29. QED
  BY <1>15, <1>16, <1>17, <1>28 DEF Next

PlacesInv == PostedInv /\ DelayedInv /\ EachTaskInOnePlace

LEMMA PlacesInit == Init => PlacesInv
<1>1. SUFFICES ASSUME Init PROVE PlacesInv
  OBVIOUS
<1>2. \A u : u \notin Elements(<< >>)
  BY DEF Elements
<1>3. PostedInv
  BY <1>1, <1>2, CountEmpty DEF Init, PostedInv
<1>4. DelayedInv
  BY <1>1, FS_EmptySet DEF Init, DelayedInv
<1>5. ASSUME NEW t \in Tasks PROVE PlaceOf(t) = Count(order, t)
  <2>1. DelayedOf(t) = {} /\ FramesOf(t) = {} /\ DoneCount(t) = 0
    BY <1>1 DEF Init, DelayedOf, FramesOf, DoneCount
  <2>2. Cardinality(DelayedOf(t)) = 0 /\ Cardinality(FramesOf(t)) = 0
    BY <2>1, FS_EmptySet
  <2>3. Count(incoming, t) = 0 /\ Count(work, t) = 0 /\ Count(deferred, t) = 0 /\ Count(order, t) = 0
    BY <1>1, CountEmpty DEF Init
  <2>4. QED
    BY <2>1, <2>2, <2>3 DEF PlaceOf
<1>6. EachTaskInOnePlace
  BY <1>5, PlaceIs
<1>7. QED
  BY <1>3, <1>4, <1>6 DEF PlacesInv

LEMMA PlacesCorrect == Spec => []PlacesInv
<1>1. TypeOK /\ PlacesInv /\ [Next]_vars => PlacesInv'
  BY PostedNext, DelayedNext, PlaceNext DEF PlacesInv
<1>2. IInv => TypeOK
  BY DEF IInv
<1>3. QED
  BY PlacesInit, <1>1, <1>2, IInvCorrect, PTL DEF Spec

(* Moving between the queues, the deferral and nested loops neither loses   *)
(* nor duplicates a task, for any tasks and posters and any nesting.        *)
THEOREM EachTaskInOnePlaceCorrect == Spec => []EachTaskInOnePlace
<1>1. PlacesInv => EachTaskInOnePlace
  BY DEF PlacesInv
<1>2. QED
  BY <1>1, PlacesCorrect, PTL

-----------------------------------------------------------------------------
(* The loop implements TaskRunner.                                          *)

(* The tasks that have left incoming_queue_ and work_queue_ are the first   *)
(* ones of the history.                                                     *)
Taken == Len(order) - (Len(work) + Len(incoming))

LineInv ==
    /\ Taken \in Nat
    /\ \A i \in 1..Len(work) : order[Taken + i] = work[i]
    /\ \A i \in 1..Len(incoming) : order[Taken + Len(work) + i] = incoming[i]
    /\ \A i, j \in DOMAIN order : order[i] = order[j] => i = j

(* Sequence numbers follow the history; no due time changes after it.       *)
EntryInv ==
    /\ \A e \in delayed :
          /\ e.task \in Delayed /\ e.time = due[e.task]
          /\ \E i \in 1..Taken : order[i] = e.task
    /\ \A e, f \in delayed, i, j \in 1..Taken :
          order[i] = e.task /\ order[j] = f.task /\ i < j => e.seq < f.seq

DueInv ==
    /\ now >= 1 /\ recentTick <= now
    /\ \A t \in Tasks : Posted(t) => (t \in Delayed <=> due[t] # 0)
    /\ \A t \in Elements(deferred) : t \in NonNestable /\ due[t] <= now

RefInv == LineInv /\ EntryInv /\ DueInv

(* What a step does to the line of tasks still to be looked at.             *)
Keeps     == UNCHANGED <<incoming, work, order>>
Enters(t) == /\ t \notin Elements(order)
             /\ incoming' = Append(incoming, t) /\ order' = Append(order, t)
             /\ UNCHANGED work
Reloads   == /\ work = << >> /\ work' = incoming /\ incoming' = << >>
             /\ UNCHANGED order
Takes     == /\ work # << >> /\ work' = Tail(work)
             /\ UNCHANGED <<incoming, order>>

LEMMA LineShape ==
    ASSUME TypeOK, PostedInv, [Next]_vars
    PROVE  Keeps \/ (\E t \in Tasks : Enters(t)) \/ Reloads \/ Takes
<1> USE DEF sharedVars, queueVars, ghostVars
<1>1. ASSUME NEW p \in Posters, PosterStep(p) PROVE Keeps \/ \E t \in Tasks : Enters(t)
  <2>1. CASE AddToIncomingQueue(p)
    <3>1. poster[p].task \in Tasks /\ Enters(poster[p].task)
      BY <2>1 DEF AddToIncomingQueue, Push, Enters, TypeOK, PostedInv
    <3>2. QED
      BY <3>1
  <2>2. CASE ScheduleWork(p) \/ \E u \in Tasks : PostTask(p, u)
    BY <2>2 DEF ScheduleWork, PostTask, Keeps
  <2>3. QED
    BY <1>1, <2>1, <2>2 DEF PosterStep
<1>2. CASE ClientCall
  <2>1. ASSUME NEW u \in Tasks, PostFromOwner(u) PROVE Enters(u)
    BY <2>1 DEF PostFromOwner, StampDue, Posted, Push, Enters
  <2>2. CASE \/ \E op \in {"Run", "RunAllPending"} : Run(op)
             \/ Quit \/ QuitNow \/ \E allowed \in BOOLEAN : SetNestableTasksAllowed(allowed)
    BY <2>2 DEF Run, Quit, QuitNow, SetNestableTasksAllowed, Keeps
  <2>3. QED
    BY <1>2, <2>1, <2>2 DEF ClientCall
<1>3. CASE ReloadWorkQueue
  BY <1>3 DEF ReloadWorkQueue, Reloads
<1>4. CASE AddToDelayedWorkQueue \/ RunOrDeferWork
  BY <1>4 DEF AddToDelayedWorkQueue, RunOrDeferWork, Takes
<1>5. CASE \/ EndDoWork \/ SkipDelayedWork \/ AwaitDelayedWork \/ RunOrDeferDelayedWork
           \/ ProcessNextDelayedNonNestableTask \/ DoIdleWork \/ Sleep \/ Wake
           \/ ReturnFromRun \/ FinishTask \/ Tick \/ UNCHANGED vars
  BY <1>5 DEF EndDoWork, SkipDelayedWork, AwaitDelayedWork, RunOrDeferDelayedWork,
     ProcessNextDelayedNonNestableTask, DoIdleWork, Sleep, Wake, ReturnFromRun,
     FinishTask, Tick, vars, Keeps
<1>6. QED
  BY <1>1, <1>2, <1>3, <1>4, <1>5 DEF Next, LoopStep

(* What has been looked at stays, and the next one is the head of the work  *)
(* queue.                                                                   *)
LineStep == /\ LineInv'
            /\ Taken <= Len(order) /\ Taken' <= Len(order')
            /\ \A i \in 1..Taken : order'[i] = order[i]
            /\ Taken' = IF Takes THEN Taken + 1 ELSE Taken
            /\ Takes => order'[Taken'] = Head(work)

LEMMA LineNext ==
    ASSUME TypeOK, PostedInv, LineInv, [Next]_vars
    PROVE  LineStep
<1>1. /\ incoming \in Seq(Tasks) /\ work \in Seq(Tasks) /\ order \in Seq(Tasks)
      /\ Len(incoming) \in Nat /\ Len(work) \in Nat /\ Len(order) \in Nat
      /\ Taken \in Nat /\ Taken + Len(work) + Len(incoming) = Len(order)
      /\ DOMAIN order = 1..Len(order)
  BY DEF TypeOK, LineInv, Taken
<1>2. Takes => Len(work) > 0 /\ Len(work') = Len(work) - 1
  <2>1. Takes => Len(work) # 0
    BY <1>1, EmptySeq DEF Takes
  <2>2. QED
    BY <1>1, <2>1, HeadTailProperties DEF Takes
<1>3. CASE Keeps
  <2>1. ~ Takes
    BY <1>1, <1>2, <1>3 DEF Keeps
  <2>2. QED
    BY <1>1, <1>3, <2>1 DEF Keeps, LineInv, Taken, LineStep
<1>4. ASSUME NEW t \in Tasks, Enters(t) PROVE LineStep
  <2>1. ~ Takes
    BY <1>1, <1>2, <1>4 DEF Enters
  <2>2. /\ Len(order') = Len(order) + 1 /\ DOMAIN order' = 1..(Len(order) + 1)
        /\ order'[Len(order) + 1] = t /\ \A i \in 1..Len(order) : order'[i] = order[i]
        /\ Len(incoming') = Len(incoming) + 1 /\ incoming'[Len(incoming) + 1] = t
        /\ \A i \in 1..Len(incoming) : incoming'[i] = incoming[i]
        /\ work' = work
    BY <1>1, <1>4 DEF Enters
  <2>3. Taken' = Taken
    BY <1>1, <2>2 DEF Taken
  <2>4. ASSUME NEW i \in 1..Len(work) PROVE order'[Taken' + i] = work'[i]
    <3>1. Taken + i \in 1..Len(order) /\ order[Taken + i] = work[i]
      BY <1>1 DEF LineInv
    <3>2. QED
      BY <2>2, <2>3, <3>1
  <2>5. ASSUME NEW i \in 1..Len(incoming') PROVE order'[Taken' + Len(work') + i] = incoming'[i]
    <3>1. CASE i = Len(incoming) + 1
      <4>1. Taken + Len(work) + (Len(incoming) + 1) = Len(order) + 1
        BY <1>1
      <4>2. Taken' + Len(work') + i = Len(order) + 1
        BY <2>2, <2>3, <3>1, <4>1
      <4>3. QED
        BY <2>2, <3>1, <4>2
    <3>2. CASE i # Len(incoming) + 1
      <4>1. i \in 1..Len(incoming) /\ Taken + Len(work) + i \in 1..Len(order)
        BY <1>1, <2>2, <3>2
      <4>2. QED
        BY <2>2, <2>3, <4>1 DEF LineInv
    <3>3. QED
      BY <3>1, <3>2
  <2>6. ASSUME NEW i \in DOMAIN order', NEW j \in DOMAIN order', order'[i] = order'[j] PROVE i = j
    <3>1. \A k \in 1..Len(order) : order'[k] # t
      BY <1>1, <1>4, <2>2 DEF Enters, Elements
    <3>2. QED
      BY <1>1, <2>2, <2>6, <3>1 DEF LineInv
  <2>7. LineInv'
    BY <1>1, <2>2, <2>3, <2>4, <2>5, <2>6 DEF LineInv
  <2>8. QED
    BY <1>1, <2>1, <2>2, <2>3, <2>7 DEF LineStep
<1>5. CASE Reloads
  <2>1. ~ Takes
    BY <1>5 DEF Takes, Reloads
  <2>2. Len(work) = 0 /\ Len(incoming') = 0 /\ work' = incoming /\ order' = order
    BY <1>5 DEF Reloads
  <2>3. Taken' = Taken
    BY <1>1, <2>2 DEF Taken
  <2>4. \A i \in 1..Len(work') : order'[Taken' + i] = work'[i]
    BY <1>1, <2>2, <2>3 DEF LineInv
  <2>5. LineInv'
    BY <1>1, <2>2, <2>3, <2>4 DEF LineInv
  <2>6. QED
    BY <1>1, <2>1, <2>2, <2>3, <2>5 DEF LineStep
<1>6. CASE Takes
  <2>1. /\ incoming' = incoming /\ order' = order /\ Len(work') = Len(work) - 1
        /\ \A i \in 1..Len(work') : work'[i] = work[i + 1]
        /\ Head(work) = work[1]
    BY <1>1, <1>6, HeadTailProperties DEF Takes
  <2>2. Taken' = Taken + 1 /\ Taken' \in Nat
    BY <1>1, <1>2, <1>6, <2>1 DEF Taken
  <2>3. ASSUME NEW i \in 1..Len(work') PROVE order'[Taken' + i] = work'[i]
    <3>1. i \in 1..(Len(work) - 1) /\ work'[i] = work[i + 1]
      BY <2>1
    <3>2. i + 1 \in 1..Len(work) /\ Taken' + i = Taken + (i + 1)
      BY <1>1, <2>2, <3>1
    <3>3. order[Taken + (i + 1)] = work[i + 1]
      BY <3>2 DEF LineInv
    <3>4. QED
      BY <2>1, <3>1, <3>2, <3>3
  <2>4. ASSUME NEW i \in 1..Len(incoming') PROVE order'[Taken' + Len(work') + i] = incoming'[i]
    <3>1. Taken' + Len(work') + i = Taken + Len(work) + i
      BY <1>1, <2>1, <2>2
    <3>2. QED
      BY <2>1, <3>1 DEF LineInv
  <2>5. LineInv'
    BY <2>1, <2>2, <2>3, <2>4 DEF LineInv
  <2>6. order'[Taken'] = Head(work) /\ Taken' <= Len(order')
    <3>1. 1 \in 1..Len(work)
      BY <1>1, <1>2, <1>6
    <3>2. order[Taken + 1] = work[1]
      BY <3>1 DEF LineInv
    <3>3. QED
      BY <1>1, <1>2, <1>6, <2>1, <2>2, <3>2
  <2>7. QED
    BY <1>1, <1>6, <2>1, <2>2, <2>5, <2>6 DEF LineStep
<1>7. QED
  BY <1>3, <1>4, <1>5, <1>6, LineShape

(* A due time is set once, when the task is posted.                         *)
LEMMA DueStays ==
    ASSUME TypeOK, [Next]_vars
    PROVE  \A t \in Tasks : /\ Posted(t) => due'[t] = due[t]
                            /\ Posted(t)' => Posted(t) \/ StampDue(t)
<1> USE DEF sharedVars, queueVars, ghostVars
<1>1. \A u \in Tasks : StampDue(u) => \A t \in Tasks : Posted(t) => due'[t] = due[t]
  BY DEF StampDue, TypeOK
<1>2. \A u \in Tasks : Elements(Append(order, u)) = Elements(order) \cup {u}
  BY CountAppend DEF TypeOK
<1>3. poster \in [Posters -> [pc : {"idle", "enqueue", "schedule"}, task : Tasks \cup {NoTask}]]
      /\ NoTask \notin Tasks
  BY TasksAssumption DEF TypeOK
<1>4. CASE UNCHANGED <<due, order, poster>>
  BY <1>4 DEF Posted
<1>5. ASSUME NEW p \in Posters, PosterStep(p)
      PROVE  \A t \in Tasks : /\ Posted(t) => due'[t] = due[t]
                              /\ Posted(t)' => Posted(t) \/ StampDue(t)
  <2>1. ASSUME NEW u \in Tasks, PostTask(p, u), NEW t \in Tasks, Posted(t)'
        PROVE  Posted(t) \/ StampDue(t)
    <3>1. StampDue(u) /\ order' = order /\ poster' = [poster EXCEPT ![p] = [pc |-> "enqueue", task |-> u]]
      BY <2>1 DEF PostTask
    <3>2. \A q \in Posters : poster'[q].task = poster[q].task \/ poster'[q].task = u
      BY <1>3, <3>1
    <3>3. QED
      BY <2>1, <3>1, <3>2 DEF Posted
  <2>2. CASE AddToIncomingQueue(p)
    <3>1. poster[p].task \in Tasks /\ order' = Append(order, poster[p].task) /\ due' = due
      BY <2>2 DEF AddToIncomingQueue, Push, TypeOK
    <3>2. \A q \in Posters : poster'[q].task = poster[q].task \/ poster'[q].task = NoTask
      BY <1>3, <2>2 DEF AddToIncomingQueue
    <3>3. QED
      BY <1>2, <1>3, <3>1, <3>2 DEF Posted
  <2>3. CASE ScheduleWork(p)
    <3>1. \A q \in Posters : poster'[q].task = poster[q].task
      BY <1>3, <2>3 DEF ScheduleWork
    <3>2. QED
      BY <2>3, <3>1 DEF ScheduleWork, Posted
  <2>4. ASSUME NEW u \in Tasks, PostTask(p, u), NEW t \in Tasks, Posted(t) PROVE due'[t] = due[t]
    BY <1>1, <2>4 DEF PostTask
  <2>5. QED
    BY <1>5, <2>1, <2>2, <2>3, <2>4 DEF PosterStep
<1>6. ASSUME NEW u \in Tasks, PostFromOwner(u)
      PROVE  \A t \in Tasks : /\ Posted(t) => due'[t] = due[t]
                              /\ Posted(t)' => Posted(t) \/ StampDue(t)
  BY <1>1, <1>2, <1>6 DEF PostFromOwner, Push, Posted
<1>7. CASE \/ \E op \in {"Run", "RunAllPending"} : Run(op)
           \/ Quit \/ QuitNow \/ \E allowed \in BOOLEAN : SetNestableTasksAllowed(allowed)
  BY <1>4, <1>7 DEF Run, Quit, QuitNow, SetNestableTasksAllowed
<1>8. CASE LoopStep \/ Tick \/ UNCHANGED vars
  BY <1>4, <1>8 DEF LoopStep, ReloadWorkQueue, AddToDelayedWorkQueue, RunOrDeferWork,
     EndDoWork, SkipDelayedWork, AwaitDelayedWork, RunOrDeferDelayedWork,
     ProcessNextDelayedNonNestableTask, DoIdleWork, Sleep, Wake, ReturnFromRun,
     FinishTask, Tick, vars
<1>9. QED
  BY <1>5, <1>6, <1>7, <1>8 DEF Next, ClientCall

(* A task that waits is in a queue, and one in a queue waits.               *)
Queued(t) == \/ t \in Elements(incoming) \cup Elements(work) \cup Elements(deferred)
             \/ \E e \in delayed : e.task = t

LEMMA QueuedWaits ==
    ASSUME TypeOK, PlacesInv, NEW t \in Tasks
    PROVE  Queued(t) <=> t \in Elements(order) /\ FramesOf(t) = {} /\ t \notin done
<1>1. PlaceOf(t) = Count(order, t)
  BY PlaceIs DEF PlacesInv
<1>2. /\ Count(incoming, t) \in Nat /\ (Count(incoming, t) = 0 <=> t \notin Elements(incoming))
      /\ Count(work, t) \in Nat /\ (Count(work, t) = 0 <=> t \notin Elements(work))
      /\ Count(deferred, t) \in Nat /\ (Count(deferred, t) = 0 <=> t \notin Elements(deferred))
      /\ Count(order, t) \in Nat /\ (Count(order, t) = 0 <=> t \notin Elements(order))
      /\ Count(order, t) <= 1
  BY CountIs DEF TypeOK, PlacesInv, PostedInv
<1>3. IsFiniteSet(DelayedOf(t)) /\ IsFiniteSet(FramesOf(t))
  BY FramesFinite, FS_Subset DEF DelayedOf, DelayedInv, PlacesInv
<1>4. /\ Cardinality(DelayedOf(t)) \in Nat /\ (Cardinality(DelayedOf(t)) = 0 <=> DelayedOf(t) = {})
      /\ Cardinality(FramesOf(t)) \in Nat /\ (Cardinality(FramesOf(t)) = 0 <=> FramesOf(t) = {})
  BY <1>3, FS_CardinalityType, FS_EmptySet
<1>5. DelayedOf(t) = {} <=> ~ \E e \in delayed : e.task = t
  BY DEF DelayedOf
<1>6. DoneCount(t) \in {0, 1} /\ (DoneCount(t) = 0 <=> t \notin done)
  BY DEF DoneCount
<1>7. Queued(t) <=> ~ /\ Count(incoming, t) = 0 /\ Count(work, t) = 0
                      /\ Count(deferred, t) = 0 /\ Cardinality(DelayedOf(t)) = 0
  BY <1>2, <1>4, <1>5 DEF Queued
<1>8. \A a, b, c, d, f, g, n \in Nat :
         a + b + c + d + f + g = n /\ n <= 1
           => (~ (a = 0 /\ b = 0 /\ c = 0 /\ d = 0) <=> n # 0 /\ f = 0 /\ g = 0)
  OBVIOUS
<1>9. ~ (/\ Count(incoming, t) = 0 /\ Count(work, t) = 0
         /\ Count(deferred, t) = 0 /\ Cardinality(DelayedOf(t)) = 0)
      <=> /\ Count(order, t) # 0
          /\ Cardinality(FramesOf(t)) = 0 /\ DoneCount(t) = 0
  <2>1. DoneCount(t) \in Nat
    BY <1>6
  <2>2. Count(incoming, t) + Count(work, t) + Count(deferred, t) + Cardinality(DelayedOf(t))
          + Cardinality(FramesOf(t)) + DoneCount(t) = Count(order, t)
    BY <1>1 DEF PlaceOf
  <2>3. /\ Count(incoming, t) \in Nat /\ Count(work, t) \in Nat /\ Count(deferred, t) \in Nat
        /\ Count(order, t) \in Nat /\ Count(order, t) <= 1
        /\ Cardinality(DelayedOf(t)) \in Nat /\ Cardinality(FramesOf(t)) \in Nat
    BY <1>2, <1>4
  <2>4. QED
    BY ONLY <1>8, <2>1, <2>2, <2>3
<1>10. QED
  BY <1>2, <1>4, <1>6, <1>7, <1>9

LEMMA EntryNext ==
    ASSUME TypeOK, PostedInv, DelayedInv, LineInv, EntryInv, DueInv, [Next]_vars
    PROVE  EntryInv'
<1>1. LineStep /\ TypeOK'
  BY LineNext, TypeNext
<1>2. /\ Len(order) \in Nat /\ DOMAIN order = 1..Len(order)
      /\ Len(order') \in Nat /\ DOMAIN order' = 1..Len(order')
  BY <1>1 DEF TypeOK
<1>3. /\ Taken \in Nat /\ Taken' \in Nat /\ Taken <= Taken'
      /\ Taken <= Len(order) /\ Taken' <= Len(order')
  BY <1>1 DEF LineStep, LineInv
<1>4. /\ \A i \in 1..Taken : i \in 1..Taken' /\ i \in DOMAIN order /\ order'[i] = order[i]
      /\ \A i \in 1..Taken' : i \in DOMAIN order'
  BY <1>1, <1>2, <1>3 DEF LineStep
<1>5. \A i, j \in DOMAIN order' : order'[i] = order'[j] => i = j
  BY <1>1 DEF LineStep, LineInv
<1>6. ASSUME NEW e \in delayed
      PROVE  /\ e.task \in Delayed /\ e.time = due'[e.task]
             /\ \E i \in 1..Taken : order[i] = e.task /\ order'[i] = e.task
  <2>1. PICK i \in 1..Taken : order[i] = e.task
    BY DEF EntryInv
  <2>2. e.task \in Tasks /\ Posted(e.task)
    BY <1>4, <2>1 DEF TypeOK, Entry, Posted, Elements
  <2>3. due'[e.task] = due[e.task]
    BY <2>2, DueStays
  <2>4. QED
    BY <1>4, <2>1, <2>3 DEF EntryInv
<1>7. ASSUME NEW e \in delayed, NEW i \in 1..Taken', order'[i] = e.task
      PROVE  i \in 1..Taken /\ order[i] = e.task
  <2>1. PICK k \in 1..Taken : order[k] = e.task /\ order'[k] = e.task
    BY <1>6
  <2>2. i = k
    BY <1>4, <1>5, <1>7, <2>1
  <2>3. QED
    BY <2>1, <2>2
<1>8. ASSUME NEW e \in delayed, NEW f \in delayed, NEW i \in 1..Taken', NEW j \in 1..Taken',
             order'[i] = e.task, order'[j] = f.task, i < j
      PROVE  e.seq < f.seq
  BY <1>7, <1>8 DEF EntryInv
<1>9. CASE delayed' \subseteq delayed
  BY <1>4, <1>6, <1>8, <1>9 DEF EntryInv
<1>10. CASE AddToDelayedWorkQueue
  <2> DEFINE t == Head(work)
             n == [task |-> t, time |-> due[t], seq |-> nextSeq]
  <2>1. delayed' = delayed \cup {n} /\ Takes /\ due[t] # 0 /\ due' = due /\ order' = order
    BY <1>10 DEF AddToDelayedWorkQueue, Takes, sharedVars, ghostVars
  <2>2. Taken' = Taken + 1 /\ Taken' \in 1..Taken' /\ order'[Taken'] = t
    BY <1>1, <1>3, <2>1 DEF LineStep
  <2>3. t \in Tasks /\ Posted(t)
    <3>1. Taken' \in DOMAIN order /\ order[Taken'] = t
      BY <1>4, <2>1, <2>2
    <3>2. QED
      BY <3>1 DEF Posted, Elements, TypeOK
  <2>4. n.task = t /\ n.task \in Delayed /\ n.time = due'[n.task]
    BY <2>1, <2>3 DEF DueInv
  <2>5. \A i \in 1..Taken' : order'[i] = t => i = Taken'
    BY <1>4, <1>5, <2>2
  <2>6. \A e \in delayed : e.seq < n.seq
    BY DEF DelayedInv
  <2> HIDE DEF n, t
  <2>7. ASSUME NEW e \in delayed', NEW f \in delayed', NEW i \in 1..Taken', NEW j \in 1..Taken',
               order'[i] = e.task, order'[j] = f.task, i < j
        PROVE  e.seq < f.seq
    <3>1. CASE e = n
      BY <1>3, <2>4, <2>5, <2>7, <3>1
    <3>2. CASE e \in delayed /\ f = n
      BY <2>6, <3>2
    <3>3. CASE e \in delayed /\ f \in delayed
      BY <1>8, <2>7, <3>3
    <3>4. QED
      BY <2>1, <3>1, <3>2, <3>3
  <2>8. \A e \in delayed' : /\ e.task \in Delayed /\ e.time = due'[e.task]
                            /\ \E i \in 1..Taken' : order'[i] = e.task
    BY <1>4, <1>6, <2>1, <2>2, <2>4
  <2>9. QED
    BY <2>7, <2>8 DEF EntryInv
<1>11. AddToDelayedWorkQueue \/ delayed' \subseteq delayed
  BY DEF Next, PosterStep, PostTask, AddToIncomingQueue, ScheduleWork,
     ClientCall, PostFromOwner, Run, Quit, QuitNow, SetNestableTasksAllowed,
     LoopStep, ReloadWorkQueue, RunOrDeferWork,
     EndDoWork, SkipDelayedWork, AwaitDelayedWork, RunOrDeferDelayedWork,
     ProcessNextDelayedNonNestableTask, DoIdleWork, Sleep, Wake, ReturnFromRun, FinishTask,
     Tick, vars, queueVars
<1>12. QED
  BY <1>9, <1>10, <1>11

LEMMA DueNext ==
    ASSUME TypeOK, PlacesInv, EntryInv, DueInv, [Next]_vars
    PROVE  DueInv'
<1> USE DEF sharedVars, queueVars, ghostVars, timerVars
<1>1. now \in Nat /\ now >= 1 /\ recentTick \in Nat /\ recentTick <= now /\ TypeOK'
  BY TypeNext DEF TypeOK, DueInv
<1>2. /\ now' = now \/ now' = now + 1
      /\ recentTick' = 0 \/ recentTick' = now \/ recentTick' = recentTick
  BY DEF Next, PosterStep, PostTask, AddToIncomingQueue, ScheduleWork,
     ClientCall, PostFromOwner, Run, Quit, QuitNow, SetNestableTasksAllowed,
     LoopStep, ReloadWorkQueue, AddToDelayedWorkQueue, RunOrDeferWork,
     EndDoWork, SkipDelayedWork, AwaitDelayedWork, RunOrDeferDelayedWork,
     ProcessNextDelayedNonNestableTask, DoIdleWork, Sleep, Wake, ReturnFromRun, FinishTask,
     Tick, vars
<1>3. now <= now' /\ now' >= 1 /\ recentTick' <= now'
  BY <1>1, <1>2
<1>4. ASSUME NEW t \in Tasks, Posted(t)' PROVE t \in Delayed <=> due'[t] # 0
  <2>1. CASE Posted(t)
    BY <2>1, DueStays DEF DueInv
  <2>2. CASE StampDue(t)
    <3>1. due'[t] = IF t \in Delayed THEN now + Delay[t] ELSE 0
      BY <2>2 DEF StampDue, TypeOK
    <3>2. now + Delay[t] # 0
      BY <1>1, TasksAssumption
    <3>3. QED
      BY <3>1, <3>2
  <2>3. QED
    BY <1>4, <2>1, <2>2, DueStays
<1>5. ASSUME NEW t \in Elements(deferred)
      PROVE  t \in NonNestable /\ due'[t] <= now'
  <2>1. t \in Tasks
    BY DEF Elements, TypeOK
  <2>2. Posted(t)
    BY <2>1, QueuedWaits DEF Queued, Posted
  <2>3. due'[t] = due[t] /\ due[t] \in Nat
    BY <2>1, <2>2, DueStays DEF TypeOK
  <2>4. QED
    BY <1>1, <1>2, <2>3 DEF DueInv
<1>6. CASE UNCHANGED deferred
  BY <1>3, <1>4, <1>5, <1>6 DEF DueInv
<1>7. ASSUME NEW u \in Tasks, deferred' = Append(deferred, u), u \in NonNestable, due[u] <= now,
             due' = due, now' = now
      PROVE  DueInv'
  <2>1. Elements(deferred') = Elements(deferred) \cup {u}
    BY <1>7, CountAppend DEF TypeOK
  <2>2. QED
    BY <1>3, <1>4, <1>5, <1>7, <2>1 DEF DueInv
<1>8. CASE RunOrDeferWork
  <2>1. CASE UNCHANGED deferred
    BY <1>6, <2>1
  <2>2. CASE ~ UNCHANGED deferred
    <3>1. Head(work) \in Tasks
      BY <1>8, HeadTailProperties DEF RunOrDeferWork, TypeOK
    <3>2. /\ deferred' = Append(deferred, Head(work)) /\ Head(work) \in NonNestable
          /\ due[Head(work)] = 0 /\ due' = due /\ now' = now
      BY <1>8, <2>2 DEF RunOrDeferWork, RunsHere
    <3>3. QED
      BY <1>1, <1>7, <3>1, <3>2
  <2>3. QED
    BY <2>1, <2>2
<1>9. CASE RunOrDeferDelayedWork
  <2>1. CASE UNCHANGED deferred
    BY <1>6, <2>1
  <2>2. CASE ~ UNCHANGED deferred
    <3> DEFINE e == Earliest(delayed)
    <3>1. e \in delayed
      BY <1>9, EarliestIsFirst DEF RunOrDeferDelayedWork, TypeOK
    <3>2. e.task \in Tasks /\ e.time \in Nat /\ e.time = due[e.task]
      BY <3>1 DEF TypeOK, Entry, EntryInv
    <3>3. /\ deferred' = Append(deferred, e.task) /\ e.task \in NonNestable
          /\ e.time <= recentTick \/ e.time <= now
          /\ due' = due /\ now' = now
      BY <1>9, <2>2 DEF RunOrDeferDelayedWork, RunsHere
    <3>4. due[e.task] <= now
      BY <1>1, <3>2, <3>3
    <3>5. QED
      BY <1>7, <3>2, <3>3, <3>4
  <2>3. QED
    BY <2>1, <2>2
<1>10. CASE ProcessNextDelayedNonNestableTask
  <2>1. /\ deferred \in Seq(Tasks) /\ deferred # << >> /\ deferred' = Tail(deferred)
    BY <1>10 DEF ProcessNextDelayedNonNestableTask, TypeOK
  <2>2. Elements(deferred') \subseteq Elements(deferred)
    <3>1. /\ Len(deferred') = Len(deferred) - 1 /\ DOMAIN deferred' = 1..Len(deferred')
          /\ DOMAIN deferred = 1..Len(deferred) /\ Len(deferred) \in Nat
          /\ \A i \in 1..Len(deferred') : deferred'[i] = deferred[i + 1]
      BY <2>1, HeadTailProperties
    <3>2. \A i \in DOMAIN deferred' : i + 1 \in DOMAIN deferred /\ deferred'[i] = deferred[i + 1]
      BY <3>1
    <3>3. QED
      BY <3>2 DEF Elements
  <2>3. QED
    BY <1>3, <1>4, <1>5, <2>2 DEF DueInv
<1>11. UNCHANGED deferred \/ RunOrDeferWork \/ RunOrDeferDelayedWork \/ ProcessNextDelayedNonNestableTask
  BY DEF Next, PosterStep, PostTask, AddToIncomingQueue, ScheduleWork,
     ClientCall, PostFromOwner, Run, Quit, QuitNow, SetNestableTasksAllowed,
     LoopStep, ReloadWorkQueue, AddToDelayedWorkQueue,
     EndDoWork, SkipDelayedWork, AwaitDelayedWork,
     DoIdleWork, Sleep, Wake, ReturnFromRun, FinishTask,
     Tick, vars
<1>12. QED
  BY <1>6, <1>8, <1>9, <1>10, <1>11

(* running lists the closures of the stack.                                 *)
RunningShape ==
    /\ Innermost \in Nat /\ 1..Innermost \subseteq 1..depth
    /\ running \in Seq(Tasks) /\ Len(running) = Innermost
    /\ \A d \in 1..Innermost : running[d] = frame[d].task
    /\ \A t \in Tasks : t \in Elements(running) <=> FramesOf(t) # {}

LEMMA FunctionIsSeq ==
    ASSUME NEW n \in Nat, NEW S, NEW s \in [1..n -> S]
    PROVE  s \in Seq(S) /\ Len(s) = n /\ DOMAIN s = 1..n
OBVIOUS

LEMMA RunningIs == TypeOK /\ OuterBusy => RunningShape
<1>1. SUFFICES ASSUME TypeOK, OuterBusy PROVE RunningShape
  OBVIOUS
<1>2. depth \in Nat /\ 1..depth \subseteq Levels
  BY <1>1, BoundsAssumption DEF TypeOK, Levels
<1>3. /\ Innermost \in Nat /\ 1..Innermost \subseteq 1..depth
      /\ \A d \in 1..depth : d \in 1..Innermost <=> frame[d].task # NoTask
  <2>1. CASE depth = 0
    BY <2>1 DEF Innermost
  <2>2. CASE depth > 0
    <3>1. \A d \in 1..depth : d # depth => d < depth /\ d \in Levels /\ frame[d].task # NoTask
      BY <1>1, <1>2 DEF OuterBusy
    <3>2. CASE Top.task # NoTask
      <4>1. Innermost = depth
        BY <2>2, <3>2 DEF Innermost, InTask
      <4>2. QED
        BY <1>2, <3>1, <3>2, <4>1 DEF Top
    <3>3. CASE Top.task = NoTask
      <4>1. Innermost = depth - 1
        BY <1>2, <2>2, <3>3 DEF Innermost, InTask
      <4>2. \A d \in 1..depth : d \in 1..(depth - 1) <=> d # depth
        BY <1>2, <2>2
      <4>3. depth - 1 \in Nat /\ 1..(depth - 1) \subseteq 1..depth
        BY <1>2, <2>2
      <4>4. QED
        BY <3>1, <3>3, <4>1, <4>2, <4>3 DEF Top
    <3>4. QED
      BY <3>2, <3>3
  <2>3. QED
    BY <1>2, <2>1, <2>2
<1>4. \A d \in 1..depth : frame[d].task \in Tasks \cup {NoTask}
  BY <1>1, <1>2 DEF TypeOK, Frame
<1>5. /\ DOMAIN running = 1..Innermost
      /\ \A d \in 1..Innermost : running[d] = frame[d].task
  BY DEF running
<1>6. running \in [1..Innermost -> Tasks]
  BY <1>3, <1>4 DEF running
<1>7. running \in Seq(Tasks) /\ Len(running) = Innermost
  BY <1>3, <1>6, FunctionIsSeq
<1>8. ASSUME NEW t \in Tasks PROVE t \in Elements(running) <=> FramesOf(t) # {}
  <2>1. t # NoTask
    BY TasksAssumption
  <2>2. t \in Elements(running) <=> \E d \in 1..Innermost : frame[d].task = t
    BY <1>5 DEF Elements
  <2>3. QED
    BY <1>3, <2>1, <2>2 DEF FramesOf
<1>9. QED
  BY <1>3, <1>5, <1>7, <1>8 DEF RunningShape

LEMMA RunningStays ==
    ASSUME TypeOK, OuterBusy, RunningShape, RunningShape',
           Quiet \/ Moves \/ Calls \/ Pushes \/ Pops
    PROVE  running' = running
<1>1. depth \in Nat /\ 1..depth \subseteq Levels /\ NoTask \notin Tasks
  BY TasksAssumption, BoundsAssumption DEF TypeOK, Levels
<1>2. /\ Innermost' = Innermost
      /\ \A d \in 1..Innermost : frame'[d].task = frame[d].task
  <2>1. CASE Quiet
    BY <2>1 DEF Quiet, Innermost, InTask, Top
  <2>2. CASE Moves \/ Calls
    <3>1. depth' = depth /\ frame'[depth].task = frame[depth].task
      BY <2>2 DEF Moves, Calls, Top
    <3>2. \A d \in 1..depth : d # depth => frame'[d] = frame[d]
      BY <1>1, <2>2 DEF Moves, Calls, SameBelow
    <3>3. QED
      BY <3>1, <3>2 DEF RunningShape, Innermost, InTask, Top
  <2>3. CASE Pushes
    <3>1. /\ depth' = depth + 1 /\ frame'[depth + 1].task = NoTask
          /\ depth > 0 => frame'[depth].task = frame[depth].task /\ frame[depth].task # NoTask
      BY <1>1, <2>3 DEF Pushes, Top
    <3>2. \A d \in 1..depth : d # depth => frame'[d] = frame[d]
      BY <1>1, <2>3 DEF Pushes, SameBelow
    <3>3. Innermost' = depth' - 1 /\ depth' - 1 = depth
      BY <1>1, <3>1 DEF Innermost, InTask, Top
    <3>4. Innermost = depth
      BY <1>1, <3>1 DEF Innermost, InTask, Top
    <3>5. QED
      BY <1>1, <3>1, <3>2, <3>3, <3>4
  <2>4. CASE Pops
    <3>1. depth > 0 /\ depth' = depth - 1 /\ frame[depth].task = NoTask
      BY <2>4 DEF Pops, Top
    <3>2. \A d \in 1..depth - 1 : frame'[d] = frame[d]
      BY <1>1, <2>4 DEF Pops, SameBelow
    <3>3. Innermost = depth - 1
      BY <1>1, <3>1 DEF Innermost, InTask, Top
    <3>4. depth' > 0 => frame'[depth'].task # NoTask
      <4>1. depth' > 0 => depth' \in 1..depth - 1 /\ depth' < depth /\ depth' \in Levels
        BY <1>1, <3>1
      <4>2. QED
        BY <3>2, <4>1 DEF OuterBusy
    <3>5. Innermost' = depth'
      BY <1>1, <3>1, <3>4 DEF Innermost, InTask, Top
    <3>6. QED
      BY <3>1, <3>2, <3>3, <3>5
  <2>5. QED
    BY <2>1, <2>2, <2>3, <2>4
<1>3. /\ running \in Seq(Tasks) /\ running' \in Seq(Tasks) /\ Len(running) = Len(running')
      /\ \A d \in 1..Len(running) : running[d] = running'[d]
  BY <1>2 DEF RunningShape
<1>4. QED
  BY <1>3, SeqEqual

LEMMA RunningStarts ==
    ASSUME TypeOK, RunningShape, RunningShape', depth > 0, depth' = depth,
           Top.task = NoTask, NEW u \in Tasks, StartTask(u)
    PROVE  running' = Append(running, u)
<1> DEFINE f == [Top EXCEPT !.task = u, !.ops = Script[u], !.allows = FALSE]
<1>1. f \in Frame /\ f.task = u
  BY TopType, TasksAssumption DEF Frame
<1>2. frame'[depth].task = u /\ \A d \in Levels : d # depth => frame'[d] = frame[d]
  BY <1>1, SetTopType DEF StartTask
<1>3. depth \in Nat /\ 1..depth \subseteq Levels /\ u # NoTask
  BY TasksAssumption, BoundsAssumption DEF TypeOK, Levels
<1>4. Innermost = depth - 1 /\ Innermost' = depth
  BY <1>2, <1>3, TasksAssumption DEF Innermost, InTask, Top
<1>5. /\ Append(running, u) \in Seq(Tasks) /\ Len(Append(running, u)) = depth
      /\ \A d \in 1..depth : Append(running, u)[d] = IF d = depth THEN u ELSE running[d]
  BY <1>3, <1>4 DEF RunningShape
<1>6. ASSUME NEW d \in 1..depth PROVE running'[d] = Append(running, u)[d]
  <2>1. running'[d] = frame'[d].task
    BY <1>4, <1>6 DEF RunningShape
  <2>2. d # depth => d \in 1..Innermost /\ running[d] = frame[d].task /\ frame'[d] = frame[d]
    <3>1. d # depth => d \in 1..Innermost
      BY <1>3, <1>4
    <3>2. QED
      BY <1>2, <1>3, <3>1 DEF RunningShape
  <2>3. QED
    BY <1>2, <1>5, <2>1, <2>2
<1>7. running' \in Seq(Tasks) /\ Len(running') = depth
  BY <1>4 DEF RunningShape
<1>8. QED
  BY <1>5, <1>6, <1>7, SeqEqual

LEMMA RunningFinishes ==
    ASSUME TypeOK, RunningShape, RunningShape', FinishTask
    PROVE  /\ running # << >> /\ running[Len(running)] = Top.task
           /\ running' = SubSeq(running, 1, Len(running) - 1)
<1>1. depth \in Nat /\ 1..depth \subseteq Levels
  BY BoundsAssumption DEF TypeOK, Levels
<1>2. depth > 0 /\ depth' = depth /\ frame[depth].task # NoTask /\ frame'[depth].task = NoTask
  BY FinishShape DEF Top
<1>3. Innermost = depth /\ Innermost' = depth - 1
  BY <1>1, <1>2 DEF Innermost, InTask, Top
<1>4. depth \in 1..Innermost /\ Len(running) = depth /\ running[depth] = Top.task
  BY <1>1, <1>2, <1>3 DEF RunningShape, Top
<1>5. running # << >>
  BY <1>2, <1>4
<1>6. running \in Seq(Tasks) /\ running' \in Seq(Tasks) /\ Len(running') = depth - 1
  BY <1>3 DEF RunningShape
<1>7. \A d \in 1..(depth - 1) : d \in 1..depth /\ d # depth
  BY <1>1
<1>8. ASSUME NEW d \in 1..(depth - 1) PROVE running'[d] = running[d]
  <2>1. d \in 1..Innermost /\ d \in 1..Innermost' /\ frame'[d] = frame[d]
    BY <1>1, <1>3, <1>7, FinishShape
  <2>2. QED
    BY <2>1 DEF RunningShape
<1>9. /\ SubSeq(running, 1, depth - 1) \in Seq(Tasks)
      /\ Len(SubSeq(running, 1, depth - 1)) = depth - 1
      /\ \A d \in 1..(depth - 1) : SubSeq(running, 1, depth - 1)[d] = running[d]
  BY <1>1, <1>2, <1>4, <1>6
<1>10. running' = SubSeq(running, 1, depth - 1)
  BY <1>6, <1>8, <1>9, SeqEqual
<1>11. QED
  BY <1>4, <1>5, <1>10

(* The due times TaskRunner sees.                                           *)
DueOf == [t \in Tasks |-> IF t \in Elements(order) THEN due[t] ELSE 0]

LEMMA DueOfStays ==
    ASSUME TypeOK, [Next]_vars, order' = order
    PROVE  DueOf' = DueOf
<1>1. \A t \in Tasks : t \in Elements(order) => due'[t] = due[t]
  BY DueStays DEF Posted
<1>2. QED
  BY <1>1 DEF DueOf

LEMMA RunnerInit == Init => Runner!Init
<1>1. SUFFICES ASSUME Init PROVE Runner!Init
  OBVIOUS
<1>2. RunningShape
  BY <1>1, IInvInit, RunningIs DEF IInv
<1>3. running = << >>
  <2>1. Len(running) = 0 /\ running \in Seq(Tasks)
    BY <1>1, <1>2 DEF RunningShape, Init, Innermost
  <2>2. QED
    BY <2>1, EmptySeq
<1>4. \A t : t \notin Elements(order)
  BY <1>1 DEF Init, Elements
<1>5. QED
  BY <1>1, <1>3, <1>4 DEF Init, Runner!Init

LEMMA WaitingIs ==
    ASSUME TypeOK, PlacesInv, RunningShape
    PROVE  \A t : t \in Runner!Waiting <=> t \in Tasks /\ Queued(t)
<1>1. Elements(order) \subseteq Tasks
  BY DEF Elements, TypeOK
<1>2. \A t : t \in Runner!Waiting <=> /\ t \in Elements(order)
                                      /\ t \notin Elements(running) /\ t \notin done
  BY DEF Runner!Waiting, Runner!Elements, Elements
<1>3. QED
  BY <1>1, <1>2, QueuedWaits DEF RunningShape

(* A task in the line is after those that have been looked at.              *)
LEMMA InLine ==
    ASSUME TypeOK, LineInv, NEW u \in Elements(incoming) \cup Elements(work),
           NEW i \in DOMAIN order, order[i] = u
    PROVE  i > Taken
<1>1. /\ Len(incoming) \in Nat /\ Len(work) \in Nat /\ Len(order) \in Nat
      /\ Taken \in Nat /\ Taken + Len(work) + Len(incoming) = Len(order)
      /\ DOMAIN order = 1..Len(order) /\ DOMAIN work = 1..Len(work)
      /\ DOMAIN incoming = 1..Len(incoming)
  BY DEF TypeOK, LineInv, Taken
<1>2. CASE u \in Elements(work)
  <2>1. PICK k \in 1..Len(work) : work[k] = u
    BY <1>1, <1>2 DEF Elements
  <2>2. Taken + k \in DOMAIN order /\ order[Taken + k] = u
    BY <1>1, <2>1 DEF LineInv
  <2>3. i = Taken + k
    BY <2>2 DEF LineInv
  <2>4. QED
    BY <1>1, <2>3
<1>3. CASE u \in Elements(incoming)
  <2>1. PICK k \in 1..Len(incoming) : incoming[k] = u
    BY <1>1, <1>3 DEF Elements
  <2>2. Taken + Len(work) + k \in DOMAIN order /\ order[Taken + Len(work) + k] = u
    BY <1>1, <2>1 DEF LineInv
  <2>3. i = Taken + Len(work) + k
    BY <2>2 DEF LineInv
  <2>4. QED
    BY <1>1, <2>3
<1>4. QED
  BY <1>2, <1>3

(* The owner starts a task in the order TaskRunner asks for.                *)
Preceded(t) == \E u \in Tasks : Queued(u) /\ Runner!MustPrecede(u, t)

LEMMA PrecedeIs ==
    \A u, t \in Tasks :
        Runner!MustPrecede(u, t)
          => /\ \E i, j \in DOMAIN order : i < j /\ order[i] = u /\ order[j] = t
             /\ u \notin NonNestable /\ t \notin NonNestable
             /\ \/ u \notin Delayed /\ t \notin Delayed
                \/ u \in Delayed /\ t \in Delayed /\ DueOf[u] <= DueOf[t]
BY DEF Runner!MustPrecede, Runner!Plain, DueOf

LEMMA WorkInOrder ==
    ASSUME TypeOK, PlacesInv, RefInv, work # << >>, due[Head(work)] = 0
    PROVE  ~ Preceded(Head(work))
<1> DEFINE t == Head(work)
<1>1. /\ t \in Tasks /\ work[1] = t /\ 1 \in 1..Len(work) /\ 1 \in DOMAIN work
      /\ Len(work) \in Nat /\ Len(incoming) \in Nat /\ Len(order) \in Nat
      /\ DOMAIN order = 1..Len(order)
  BY HeadTailProperties, EmptySeq DEF TypeOK
<1>2. Taken \in Nat /\ Taken + Len(work) + Len(incoming) = Len(order)
  BY <1>1 DEF RefInv, LineInv, Taken
<1>3. Taken + 1 \in DOMAIN order /\ order[Taken + 1] = t
  BY <1>1, <1>2 DEF RefInv, LineInv
<1>4. t \notin Delayed
  <2>1. Posted(t)
    BY <1>3 DEF Posted, Elements
  <2>2. QED
    BY <1>1, <2>1 DEF RefInv, DueInv
<1>5. SUFFICES ASSUME NEW u \in Tasks, Queued(u), Runner!MustPrecede(u, t) PROVE FALSE
  BY DEF Preceded
<1> HIDE DEF t
<1>6. u \notin NonNestable /\ u \notin Delayed
  BY <1>1, <1>4, <1>5, PrecedeIs
<1>7. PICK i, j \in DOMAIN order : i < j /\ order[i] = u /\ order[j] = t
  BY <1>1, <1>5, PrecedeIs
<1>8. j = Taken + 1 /\ i <= Taken
  <2>1. j = Taken + 1
    BY <1>3, <1>7 DEF RefInv, LineInv
  <2>2. QED
    BY <1>1, <1>2, <1>7, <2>1
<1>9. u \notin Elements(incoming) \cup Elements(work)
  <2>1. ~ (i > Taken)
    BY <1>1, <1>2, <1>8
  <2>2. QED
    BY <1>7, <2>1, InLine DEF RefInv
<1>10. u \notin Elements(deferred)
  BY <1>6 DEF RefInv, DueInv
<1>11. \A e \in delayed : e.task # u
  BY <1>6 DEF RefInv, EntryInv
<1>12. QED
  BY <1>5, <1>9, <1>10, <1>11 DEF Queued

LEMMA DelayedInOrder ==
    ASSUME TypeOK, PlacesInv, RefInv, delayed # {}
    PROVE  ~ Preceded(Earliest(delayed).task)
<1> DEFINE e == Earliest(delayed)
<1>1. /\ e \in delayed /\ e.task \in Tasks /\ \A f \in delayed : ~ Before(f, e)
      /\ \A f \in delayed : f.time \in Nat /\ f.seq \in Nat
  <2>1. delayed \subseteq Entry
    BY DEF TypeOK
  <2>2. e \in delayed /\ \A f \in delayed : ~ Before(f, e)
    BY <2>1, EarliestIsFirst
  <2>3. \A f \in delayed : f.task \in Tasks /\ f.time \in Nat /\ f.seq \in Nat
    BY <2>1 DEF Entry
  <2>4. QED
    BY <2>2, <2>3
<1> HIDE DEF e
<1>2. SUFFICES ASSUME NEW u \in Tasks, Queued(u), Runner!MustPrecede(u, e.task) PROVE FALSE
  BY DEF Preceded, e
<1>3. e.task \in Delayed /\ e.time = due[e.task]
  BY <1>1 DEF RefInv, EntryInv
<1>4. u \notin NonNestable /\ u \in Delayed /\ DueOf[u] <= DueOf[e.task]
  BY <1>1, <1>2, <1>3, PrecedeIs
<1>5. PICK i, j \in DOMAIN order : i < j /\ order[i] = u /\ order[j] = e.task
  BY <1>1, <1>2, PrecedeIs
<1>6. DueOf[u] = due[u] /\ DueOf[e.task] = e.time
  BY <1>1, <1>3, <1>5 DEF DueOf, Elements
<1>7. /\ Taken \in Nat /\ Len(order) \in Nat /\ DOMAIN order = 1..Len(order)
      /\ Taken <= Len(order)
  BY DEF RefInv, LineInv, TypeOK, Taken
<1>8. j \in 1..Taken /\ i \in 1..Taken
  <2>1. PICK k \in 1..Taken : order[k] = e.task
    BY <1>1 DEF RefInv, EntryInv
  <2>2. k \in DOMAIN order
    BY <1>7
  <2>3. j = k
    BY <1>5, <2>1, <2>2 DEF RefInv, LineInv
  <2>4. QED
    BY <1>5, <1>7, <2>1, <2>3
<1>9. u \notin Elements(incoming) \cup Elements(work)
  <2>1. ~ (i > Taken)
    BY <1>7, <1>8
  <2>2. QED
    BY <1>5, <2>1, InLine DEF RefInv
<1>10. u \notin Elements(deferred)
  BY <1>4 DEF RefInv, DueInv
<1>11. PICK f \in delayed : f.task = u
  BY <1>2, <1>9, <1>10 DEF Queued
<1>12. f.time = due[u] /\ f.seq < e.seq
  BY <1>1, <1>5, <1>8, <1>11 DEF RefInv, EntryInv
<1>13. Before(f, e)
  <2>1. f.time <= e.time
    BY <1>4, <1>6, <1>12
  <2>2. QED
    BY <1>1, <1>11, <1>12, <2>1 DEF Before
<1>14. QED
  BY <1>1, <1>13

(* A step that starts u is TaskRunner's.                                    *)
LEMMA StartIs ==
    ASSUME TypeOK, PlacesInv, RunningShape, RunningShape', depth > 0, depth' = depth,
           Top.task = NoTask, NEW u \in Tasks, StartTask(u),
           u \in NonNestable => depth = 1, due[u] <= now, Queued(u), ~ Preceded(u),
           UNCHANGED <<order, due, done, now>>
    PROVE  Runner!Start(u)
<1>1. running' = Append(running, u)
  BY RunningStarts
<1>2. u \in NonNestable => running = << >>
  <2>1. SUFFICES ASSUME depth = 1 PROVE running = << >>
    OBVIOUS
  <2>2. Innermost = 0
    BY <2>1 DEF Innermost, InTask
  <2>3. running \in Seq(Tasks) /\ Len(running) = 0
    BY <2>2 DEF RunningShape
  <2>4. QED
    BY <2>3, EmptySeq
<1>3. u \in Runner!Waiting /\ \A v \in Runner!Waiting : ~ Runner!MustPrecede(v, u)
  BY WaitingIs DEF Preceded
<1>4. u \in Elements(order)
  BY QueuedWaits
<1>5. DueOf[u] <= now /\ DueOf' = DueOf
  BY <1>4 DEF DueOf
<1>6. QED
  BY <1>1, <1>2, <1>3, <1>5 DEF Runner!Start, DueOf

LEMMA AcceptIs ==
    ASSUME TypeOK, RefInv', [Next]_vars, running' = running, UNCHANGED <<done, now>>,
           NEW u \in Tasks, Enters(u)
    PROVE  Runner!Accept(u)
<1>1. Elements(order') = Elements(order) \cup {u} /\ TypeOK'
  BY CountAppend, TypeNext DEF Enters, TypeOK
<1>2. \A t \in Tasks : t \in Elements(order) => due'[t] = due[t]
  BY DueStays DEF Posted
<1>3. DueOf' = [DueOf EXCEPT ![u] = DueOf'[u]]
  BY <1>1, <1>2 DEF DueOf
<1>4. DueOf'[u] \in Nat /\ (u \in Delayed <=> DueOf'[u] # 0)
  <2>1. Posted(u)'
    BY <1>1 DEF Posted
  <2>2. DueOf'[u] = due'[u]
    BY <1>1 DEF DueOf
  <2>3. QED
    BY <1>1, <2>1, <2>2 DEF RefInv, DueInv, TypeOK
<1>5. u \notin Runner!Elements(order)
  BY DEF Enters, Elements, Runner!Elements
<1>6. QED
  BY <1>3, <1>4, <1>5 DEF Runner!Accept, Enters, DueOf

(* Every step is a step of TaskRunner, or none.                             *)
LEMMA RunnerNext ==
    ASSUME TypeOK, OuterBusy, PlacesInv, RefInv, RefInv', RunningShape, RunningShape',
           [Next]_vars
    PROVE  Runner!Next \/ UNCHANGED Runner!vars
<1> USE DEF sharedVars, queueVars, ghostVars
<1>1. ASSUME UNCHANGED <<order, done, now>>, Quiet \/ Moves \/ Calls \/ Pushes \/ Pops
      PROVE  UNCHANGED Runner!vars
  <2>1. running' = running /\ DueOf' = DueOf
    BY <1>1, RunningStays, DueOfStays
  <2>2. QED
    BY <1>1, <2>1 DEF Runner!vars, DueOf
<1>2. ASSUME NEW u \in Tasks, Enters(u), Quiet \/ Calls, UNCHANGED <<done, now>>
      PROVE  Runner!Next
  <2>1. running' = running
    BY <1>2, RunningStays
  <2>2. QED
    BY <1>2, <2>1, AcceptIs DEF Runner!Next
<1>3. ASSUME NEW u \in Tasks, Queued(u), StartTask(u), u \in NonNestable => depth = 1,
             due[u] <= now, ~ Preceded(u), depth > 0, depth' = depth, Top.task = NoTask,
             UNCHANGED <<order, due, done, now>>
      PROVE  Runner!Next
  BY <1>3, StartIs DEF Runner!Next
<1>4. ASSUME NEW p \in Posters, PosterStep(p) PROVE Runner!Next \/ UNCHANGED Runner!vars
  <2>1. Quiet
    BY <1>4, PosterShape
  <2>2. CASE AddToIncomingQueue(p)
    <3>1. poster[p].task \in Tasks /\ Enters(poster[p].task) /\ UNCHANGED <<done, now>>
      BY <2>2 DEF AddToIncomingQueue, Push, Enters, TypeOK, PlacesInv, PostedInv
    <3>2. QED
      BY <1>2, <2>1, <3>1
  <2>3. CASE ScheduleWork(p) \/ \E u \in Tasks : PostTask(p, u)
    BY <1>1, <2>1, <2>3 DEF ScheduleWork, PostTask
  <2>4. QED
    BY <1>4, <2>2, <2>3 DEF PosterStep
<1>5. CASE ClientCall
  <2>1. ASSUME NEW u \in Tasks, PostFromOwner(u) PROVE Runner!Next
    <3>1. depth' = depth
      BY <2>1 DEF PostFromOwner
    <3>2. Quiet \/ Calls
      BY <1>5, <3>1, ClientShape DEF Pushes, TypeOK
    <3>3. QED
      BY <1>2, <2>1, <3>2 DEF PostFromOwner, StampDue, Posted, Push, Enters
  <2>2. CASE \/ \E op \in {"Run", "RunAllPending"} : Run(op)
             \/ Quit \/ QuitNow \/ \E allowed \in BOOLEAN : SetNestableTasksAllowed(allowed)
    BY <1>1, <1>5, <2>2, ClientShape DEF Run, Quit, QuitNow, SetNestableTasksAllowed
  <2>3. QED
    BY <1>5, <2>1, <2>2 DEF ClientCall
<1>6. CASE Tick
  <2>1. UNCHANGED <<order, done>> /\ Quiet /\ now' = now + 1
    BY <1>6 DEF Tick, Quiet
  <2>2. running' = running /\ DueOf' = DueOf
    BY <2>1, RunningStays, DueOfStays
  <2>3. Runner!Tick
    BY <2>1, <2>2 DEF Runner!Tick, DueOf
  <2>4. QED
    BY <2>3 DEF Runner!Next
<1>7. CASE UNCHANGED vars
  BY <1>1, <1>7 DEF vars, Quiet
<1>8. CASE ReloadWorkQueue \/ AddToDelayedWorkQueue
  BY <1>1, <1>8 DEF ReloadWorkQueue, AddToDelayedWorkQueue, Quiet
<1>9. CASE RunOrDeferWork
  <2>1. /\ Head(work) \in Tasks /\ Queued(Head(work))
    <3>1. Head(work) \in Tasks /\ Head(work) = work[1] /\ 1 \in DOMAIN work
      BY <1>9, HeadTailProperties, EmptySeq DEF RunOrDeferWork, TypeOK
    <3>2. QED
      BY <3>1 DEF Queued, Elements
  <2>2. /\ depth > 0 /\ depth' = depth /\ Top.task = NoTask
        /\ work # << >> /\ due[Head(work)] = 0 /\ UNCHANGED <<order, due, done, now>>
    BY <1>9 DEF RunOrDeferWork, AtPump
  <2>3. CASE RunsHere(Head(work)) /\ StartTask(Head(work))
    <3>1. due[Head(work)] <= now
      BY <2>2 DEF TypeOK
    <3>2. QED
      BY <1>3, <2>1, <2>2, <2>3, <3>1, WorkInOrder DEF RunsHere
  <2>4. CASE UNCHANGED <<nestableAllowed, frame>>
    BY <1>1, <2>2, <2>4 DEF Quiet
  <2>5. QED
    BY <1>9, <2>3, <2>4 DEF RunOrDeferWork
<1>10. CASE EndDoWork \/ SkipDelayedWork \/ AwaitDelayedWork \/ DoIdleWork \/ Sleep \/ Wake
  <2>1. Moves
    BY <1>10, EndDoWorkShape, NoDelayedWorkShape, DoIdleWorkShape, SleepShape, WakeShape
       DEF SkipDelayedWork, AwaitDelayedWork, AtPump
  <2>2. QED
    BY <1>1, <1>10, <2>1 DEF EndDoWork, SkipDelayedWork, AwaitDelayedWork, DoIdleWork, Sleep, Wake
<1>11. CASE RunOrDeferDelayedWork
  <2> DEFINE e == Earliest(delayed)
  <2>1. /\ delayed # {} /\ depth > 0 /\ depth' = depth /\ Top.task = NoTask
        /\ e.time <= recentTick \/ e.time <= now
        /\ UNCHANGED <<order, due, done, now>>
    BY <1>11 DEF RunOrDeferDelayedWork, AtPump
  <2>2. e \in delayed
    BY <2>1, EarliestIsFirst DEF TypeOK
  <2>3. ~ Preceded(e.task)
    BY <2>1, DelayedInOrder
  <2>4. \/ RunsHere(e.task) /\ StartTask(e.task)
        \/ NoDelayedWork /\ UNCHANGED nestableAllowed
    BY <1>11 DEF RunOrDeferDelayedWork
  <2> HIDE DEF e
  <2>5. e.task \in Tasks /\ e.time \in Nat /\ e.time = due[e.task] /\ Queued(e.task)
    BY <2>2 DEF TypeOK, Entry, RefInv, EntryInv, Queued
  <2>6. due[e.task] <= now
    BY <2>1, <2>5 DEF TypeOK, RefInv, DueInv
  <2>7. CASE RunsHere(e.task) /\ StartTask(e.task)
    BY <1>3, <2>1, <2>3, <2>5, <2>6, <2>7 DEF RunsHere
  <2>8. CASE NoDelayedWork /\ UNCHANGED nestableAllowed
    BY <1>1, <2>1, <2>8, NoDelayedWorkShape
  <2>9. QED
    BY <2>4, <2>7, <2>8
<1>12. CASE ProcessNextDelayedNonNestableTask
  <2> DEFINE u == Head(deferred)
  <2>1. /\ depth > 0 /\ depth' = depth /\ depth = 1 /\ Top.task = NoTask /\ StartTask(u)
        /\ UNCHANGED <<order, due, done, now>>
    BY <1>12 DEF ProcessNextDelayedNonNestableTask, AtPump
  <2>2. u \in Tasks /\ u \in Elements(deferred)
    <3>1. u \in Tasks /\ u = deferred[1] /\ 1 \in DOMAIN deferred
      BY <1>12, HeadTailProperties, EmptySeq DEF ProcessNextDelayedNonNestableTask, TypeOK
    <3>2. QED
      BY <3>1 DEF Elements
  <2> HIDE DEF u
  <2>3. u \in NonNestable /\ due[u] <= now /\ Queued(u)
    BY <2>2 DEF RefInv, DueInv, Queued
  <2>4. ~ Preceded(u)
    BY <2>2, <2>3, PrecedeIs DEF Preceded
  <2>5. QED
    BY <1>3, <2>1, <2>2, <2>3, <2>4
<1>13. CASE ReturnFromRun
  <2>1. LoopStep /\ Top.task = NoTask /\ depth' = depth - 1
    BY <1>13 DEF LoopStep, ReturnFromRun, AtPump
  <2>2. depth' # depth
    BY <2>1 DEF TypeOK
  <2>3. Pops \/ Quiet \/ Moves
    BY <2>1, <2>2, LoopShape DEF Starts, Finishes
  <2>4. QED
    BY <1>1, <1>13, <2>3 DEF ReturnFromRun
<1>14. CASE FinishTask
  <2>1. done' = done \cup {Top.task} /\ UNCHANGED <<order, now>>
    BY <1>14 DEF FinishTask
  <2>2. DueOf' = DueOf
    BY <2>1, DueOfStays
  <2>3. Runner!Finish
    BY <1>14, <2>1, <2>2, RunningFinishes DEF Runner!Finish, DueOf
  <2>4. QED
    BY <2>3 DEF Runner!Next
<1>15. QED
  BY <1>4, <1>5, <1>6, <1>7, <1>8, <1>9, <1>10, <1>11, <1>12, <1>13, <1>14 DEF Next, LoopStep

LEMMA RefInit == Init => RefInv
<1>1. SUFFICES ASSUME Init PROVE RefInv
  OBVIOUS
<1>2. /\ Len(order) = 0 /\ Len(work) = 0 /\ Len(incoming) = 0 /\ Taken = 0
      /\ \A t : t \notin Elements(order) /\ t \notin Elements(deferred)
  <2>1. order = << >> /\ work = << >> /\ incoming = << >> /\ deferred = << >>
    BY <1>1 DEF Init
  <2>2. \A t : t \notin Elements(<< >>)
    BY DEF Elements
  <2>3. Len(order) = 0 /\ Len(work) = 0 /\ Len(incoming) = 0
    BY <2>1
  <2>4. Taken = 0
    BY <2>3 DEF Taken
  <2>5. QED
    BY <2>1, <2>2, <2>3, <2>4
<1>3. LineInv
  BY <1>1, <1>2 DEF LineInv, Init
<1>4. DueInv
  BY <1>1, <1>2, TasksAssumption DEF DueInv, Init, Posted
<1>5. QED
  BY <1>1, <1>3, <1>4 DEF Init, RefInv, EntryInv

(* MessageLoop implements TaskRunner: for any tasks, posters, scripts and   *)
(* nesting, plain tasks start in posting order, delayed ones when due and   *)
(* never out of order, non-nestable ones with no other task around them,    *)
(* and each is started and finished once.                                   *)
THEOREM ImplementsTaskRunnerCorrect == Spec => ImplementsTaskRunner
<1>1. TypeOK /\ PlacesInv /\ RefInv /\ [Next]_vars => RefInv'
  BY LineNext, EntryNext, DueNext DEF LineStep, PlacesInv, RefInv
<1>2. IInv => TypeOK /\ OuterBusy /\ RunningShape
  BY RunningIs DEF IInv
<1>3. /\ TypeOK /\ OuterBusy /\ PlacesInv /\ RefInv /\ RefInv' /\ RunningShape /\ RunningShape'
      /\ [Next]_vars
      => [Runner!Next]_(Runner!vars)
  BY RunnerNext
<1>4. QED
  BY RunnerInit, RefInit, <1>1, <1>2, <1>3, IInvCorrect, PlacesCorrect, PTL
     DEF Spec, ImplementsTaskRunner, Runner!Spec

-----------------------------------------------------------------------------
(* Due tasks and Quit.                                                      *)

(* The outermost loop defers nothing, and without delayed non-nestable      *)
(* tasks no loop defers from the delayed queue.                             *)
DefersNoDelayed == depth = 1 \/ NonNestable \cap Delayed = {}

(* A loop that comes to DoIdleWork, having found nothing to do, has found   *)
(* no delayed task due.                                                     *)
ClockInv ==
    FoundNothing({"idle"}) /\ DefersNoDelayed => \A e \in delayed : e.time > recentTick

LEMMA TriesClock ==
    ASSUME TypeOK, EntryInv, nestableAllowed, DefersNoDelayed, Tries
    PROVE  \A e \in delayed' : e.time > recentTick'
<1>1. CASE SkipDelayedWork
  BY <1>1 DEF SkipDelayedWork, queueVars
<1>2. CASE AwaitDelayedWork
  <2>1. /\ delayed \subseteq Entry /\ delayed # {} /\ delayed' = delayed
        /\ now \in Nat /\ recentTick' = now /\ Earliest(delayed).time > now
    BY <1>2 DEF AwaitDelayedWork, TypeOK, queueVars
  <2>2. Earliest(delayed) \in delayed /\ \A e \in delayed : Earliest(delayed).time <= e.time
    BY <2>1, EarliestIsFirst
  <2>3. \A e \in delayed : e.time \in Nat
    BY <2>1 DEF Entry
  <2>4. QED
    BY <2>1, <2>2, <2>3
<1>3. CASE RunOrDeferDelayedWork
  <2> DEFINE e == Earliest(delayed)
  <2>1. e \in delayed
    BY <1>3, EarliestIsFirst DEF RunOrDeferDelayedWork, TypeOK
  <2>2. RunsHere(e.task)
    BY <2>1 DEF RunsHere, DefersNoDelayed, EntryInv
  <2>3. StartTask(e.task) /\ e.task \in Tasks
    BY <1>3, <2>1, <2>2 DEF RunOrDeferDelayedWork, TypeOK, Entry
  <2>4. depth > 0 /\ depth' = depth /\ Top.task = NoTask
    BY <1>3 DEF RunOrDeferDelayedWork, AtPump
  <2>5. Starts
    BY <2>3, <2>4, StartTaskShape
  <2>6. QED
    BY <2>5, TasksAssumption DEF Tries, Moves, Starts
<1>4. QED
  BY <1>1, <1>2, <1>3 DEF Tries

(* Only DoDelayedWork reads the clock into recent_tick_.                    *)
LEMMA ClockStays ==
    ASSUME [Next]_vars, ~ SkipDelayedWork, ~ AwaitDelayedWork, ~ RunOrDeferDelayedWork
    PROVE  UNCHANGED recentTick
BY DEF Next, PosterStep, PostTask, AddToIncomingQueue, ScheduleWork,
   ClientCall, PostFromOwner, Run, Quit, QuitNow, SetNestableTasksAllowed,
   LoopStep, ReloadWorkQueue, AddToDelayedWorkQueue, RunOrDeferWork, EndDoWork,
   ProcessNextDelayedNonNestableTask, DoIdleWork, Sleep, Wake, ReturnFromRun,
   FinishTask, Tick, vars, timerVars

LEMMA ClockNext ==
    ASSUME TypeOK, OuterBusy, EntryInv, ClockInv, [Next]_vars
    PROVE  ClockInv'
<1>1. SUFFICES ASSUME FoundNothing({"idle"})', DefersNoDelayed'
               PROVE  \A e \in delayed' : e.time > recentTick'
  BY DEF ClockInv
<1>2. FoundNothing(Search)' /\ Top'.pc = "idle"
  BY <1>1 DEF FoundNothing, Search
<1>3. CASE Stays
  <2>1. FoundNothing({"idle"}) /\ DefersNoDelayed /\ Top.pc = "idle"
    BY <1>1, <1>3 DEF Stays, Quiet, FoundNothing, DefersNoDelayed, Top
  <2>2. UNCHANGED recentTick
    BY <2>1, ClockStays DEF SkipDelayedWork, AwaitDelayedWork, RunOrDeferDelayedWork, AtPump
  <2>3. QED
    BY <1>3, <2>1, <2>2 DEF ClockInv, Stays
<1>4. CASE Tries
  <2>1. nestableAllowed /\ DefersNoDelayed
    BY <1>1, <1>4 DEF Tries, Moves, FoundNothing, DefersNoDelayed
  <2>2. QED
    BY <1>4, <2>1, TriesClock
<1>5. QED
  BY <1>2, <1>3, <1>4, SearchStep DEF Begins, Idles, Sleeps

LEMMA ClockCorrect == Spec => [](IInv /\ ClockInv)
<1>1. Init => ClockInv
  BY DEF Init, ClockInv, FoundNothing
<1>2. TypeOK /\ PlacesInv /\ RefInv /\ [Next]_vars => RefInv'
  BY LineNext, EntryNext, DueNext DEF LineStep, PlacesInv, RefInv
<1>3. IInv /\ RefInv /\ ClockInv /\ [Next]_vars => ClockInv'
  BY ClockNext DEF IInv, RefInv
<1>4. IInv => TypeOK
  BY DEF IInv
<1>5. QED
  BY RefInit, <1>1, <1>2, <1>3, <1>4, IInvCorrect, PlacesCorrect, PTL DEF Spec

(* A loop that obeys Quit, in DoIdleWork, leaves no task that was due.      *)
LEMMA QuitsWithoutDue ==
    ASSUME IInv, ClockInv, [Next]_vars, ObeysQuit, DefersNoDelayed
    PROVE  \A e \in delayed : RunsHere(e.task) => e.time > recentTick
<1>1. DoIdleWork
  BY DEF ObeysQuit, Next, PosterStep, PostTask, AddToIncomingQueue,
         ScheduleWork, ClientCall, PostFromOwner, Run, Quit, QuitNow, MayCall,
         SetNestableTasksAllowed, LoopStep, ReloadWorkQueue,
         AddToDelayedWorkQueue, RunOrDeferWork, EndDoWork, SkipDelayedWork,
         AwaitDelayedWork, RunOrDeferDelayedWork,
         ProcessNextDelayedNonNestableTask, Sleep, Wake, ReturnFromRun,
         FinishTask, Tick, vars
<1>2. FoundNothing({"idle"})
  BY <1>1 DEF ObeysQuit, DoIdleWork, AtPump, FoundNothing
<1>3. QED
  BY <1>2 DEF ClockInv

(* Quit and RunAllPending leave the outermost Run only when every delayed   *)
(* task that was due has run, whatever is posted and however it nests.      *)
OutermostQuitRunsDueTasks ==
    [][ ObeysQuit /\ depth = 1 => \A e \in delayed : e.time > recentTick ]_vars

THEOREM OutermostQuitRunsDueTasksCorrect == Spec => OutermostQuitRunsDueTasks
<1>1. IInv /\ ClockInv /\ [Next]_vars
        => [ObeysQuit /\ depth = 1 => \A e \in delayed : e.time > recentTick]_vars
  BY QuitsWithoutDue DEF DefersNoDelayed, RunsHere
<1>2. QED
  BY <1>1, ClockCorrect, PTL DEF Spec, OutermostQuitRunsDueTasks

(* A nested Run does so as well where no delayed task is non-nestable: only *)
(* the deferral of one, after which DoDelayedWork answers false, makes the  *)
(* loop obey Quit with due tasks left.                                      *)
THEOREM QuitRunsDueTasksCorrect ==
    ASSUME NonNestable \cap Delayed = {}
    PROVE  Spec => QuitRunsDueTasks
<1>1. IInv /\ ClockInv /\ [Next]_vars
        => [ObeysQuit => \A e \in delayed : RunsHere(e.task) => e.time > recentTick]_vars
  BY QuitsWithoutDue DEF DefersNoDelayed
<1>2. QED
  BY <1>1, ClockCorrect, PTL DEF Spec, QuitRunsDueTasks
=============================================================================
