---------------------- MODULE WinUIMessagePump_proofs ----------------------
(***************************************************************************)
(* WinUIMessagePump's safety for every set of tasks and posters, every     *)
(* script, any nesting of modal loops, any input and any run time, and     *)
(* that a loop with this pump implements TaskRunner.                       *)
(***************************************************************************)
EXTENDS WinUIMessagePump, TLAPS, FiniteSetTheorems, SequenceTheorems, WellFoundedInduction

Ops   == {"Allow", "Modal", "Quit"}
Frames == [at : At, task : Tasks \cup {NoTask}, ops : SUBSET Ops, more : BOOLEAN]
Entry == [task : Tasks, time : Nat]
DelayedEntry == [task : Tasks, time : Nat, seq : Nat]

(* Frame i of s is one that can be on top of frame i - 1: only the loop is  *)
(* outermost and goes on while nothing runs above it, except where it calls *)
(* a handler or a closure; only a closure or a handler opens a modal loop;  *)
(* a closure runs where DoWork or DoDelayedWork is going to return true.    *)
FrameOk(s, i) ==
    /\ s[i].ops # {} => s[i].at \in {"task", "dispatch"}
    /\ s[i].at \in LoopAt => i = 1
    /\ s[i].at \notin {"modal", "dispatch"} => s[1].at \in LoopAt
    /\ i # 1 =>
         /\ s[i - 1].at # "replace"
         /\ s[i - 1].at = "task" => s[i].at = "modal"
         /\ s[i - 1].at \in LoopAt => \/ s[i - 1].at = "work"
                                      \/ s[i - 1].at \in {"delayed", "delayed end"}
                                         /\ s[i - 1].more
    /\ s[i].at = "task" =>
         /\ i # 1 /\ s[i].task \in Tasks /\ s[i].ops \subseteq Script[s[i].task]
         /\ s[i - 1].at \in {"delayed", "delayed end", "have work end", "timer end"}
         /\ s[i - 1].at = "timer end" => s[i].task \in Delayed
    /\ s[i].at = "replace" => i # 1 /\ s[i - 1].at \in {"work", "have work"}

StackOk(s) == s \in Seq(Frames) /\ \A i \in 1..Len(s) : FrameOk(s, i)

(* nestable_tasks_allowed_ is false only while a closure executes.          *)
NestingInv == nestableAllowed \/ \E i \in 1..Depth : stack[i].at = "task"

(* Tasks with a time are those posted with a delay, and time is not null.   *)
TimesInv ==
    /\ now # 0
    /\ \A i \in 1..Len(incoming) : incoming[i].time # 0 => incoming[i].task \in Delayed
    /\ \A i \in 1..Len(work) : work[i].time # 0 => work[i].task \in Delayed
    /\ \A e \in delayed : e.time # 0 /\ e.task \in Delayed

(* kMsgHaveWork in a queue.                                                 *)
None(q) == \A i \in 1..Len(q) : q[i] # "have work"
One(q)  == \E i \in 1..Len(q) :
              q[i] = "have work" /\ \A j \in 1..Len(q) : q[j] = "have work" => j = i

NoneSends == \A p \in Posters : poster[p] # "post"
OneSends  == \E p \in Posters :
                poster[p] = "post" /\ \A o \in Posters : poster[o] = "post" => o = p

(* The one message is in the queue, with a poster, or taken.                *)
MessageInv ==
    \/ ~ haveWork /\ None(queue) /\ NoneSends /\ ~ AtTop("replace")
    \/ haveWork /\ One(queue) /\ NoneSends /\ ~ AtTop("replace")
    \/ haveWork /\ None(queue) /\ OneSends /\ ~ AtTop("replace")
    \/ haveWork /\ None(queue) /\ NoneSends /\ AtTop("replace")

(* DoRunLoop, in stack s, has found nothing to do so far and goes on to its *)
(* wait.                                                                    *)
AfterDelayed == {"delayed end", "idle", "wait"}
ToWait       == {"delayed"} \cup AfterDelayed
Nothing(s, ats) ==
    /\ Len(s) = 1 /\ s[1].at \in ats
    /\ s[1].at \in {"delayed", "delayed end"} => ~ s[1].more
FoundNothing(ats) == Nothing(stack, ats)

Scheduling == \E p \in Posters : poster[p] = "schedule"

(* From DoWork to the wait, a task that comes is told of.                   *)
WaitInv ==
    FoundNothing(ToWait) =>
        work = << >> /\ (incoming # << >> => haveWork \/ Scheduling)

(* From DoDelayedWork to the wait the pump's time bounds every delayed task.*)
TimerInv ==
    FoundNothing(AfterDelayed) =>
        \A e \in delayed : delayedWorkTime # 0 /\ delayedWorkTime <= e.time

IInv == TypeOK /\ StackOk(stack) /\ NestingInv /\ TimesInv /\ MessageInv /\ WaitInv /\ TimerInv

-----------------------------------------------------------------------------
(* Work in modal loops, when no delayed task opens one.  A closure that     *)
(* WM_TIMER runs is on top of the stack then (TimersOnTop); the closures    *)
(* below it are told of work as if it was not there (Base).                 *)
TimersOpenNoModal == \A t \in Delayed : "Modal" \notin Script[t]

IsTask(f)  == f.at = "task"
Tells(f)   == f.at \in {"have work", "have work end"}
Marked(f)  == IsTask(f) \/ Tells(f)
TimerRuns(s, i) == IsTask(s[i]) /\ s[i - 1].at = "timer end"
OnTimer(s) == Len(s) > 1 /\ TimerRuns(s, Len(s))
Base(s)    == IF OnTimer(s) THEN Len(s) - 1 ELSE Len(s)
TimersOnTop(s) == \A i \in 2..Len(s) : TimerRuns(s, i) => i = Len(s)

(* Among the n outermost frames of s, no HandleWorkMessage that is going to *)
(* look at the queues is above the innermost closure.                       *)
OwedUpTo(s, n) ==
    \E k \in 1..n : IsTask(s[k]) /\ \A j \in 1..n : j > k => ~ Marked(s[j])
Owed(s) == OwedUpTo(s, Base(s))

HasWork == incoming # << >> \/ work # << >>

(* A modal loop of a closure that allows nested tasks, or will once a task  *)
(* of WM_TIMER has returned, is told of tasks.                              *)
NoticeInv ==
    /\ TimersOnTop(stack)
    /\ (nestableAllowed \/ OnTimer(stack)) /\ HasWork /\ Owed(stack) => haveWork \/ Scheduling

-----------------------------------------------------------------------------
(* The stack.                                                               *)

LEMMA Push ==
    ASSUME NEW s \in Seq(Frames), NEW f \in Frames
    PROVE  /\ Append(s, f) \in Seq(Frames) /\ Len(Append(s, f)) = Len(s) + 1
           /\ Append(s, f)[Len(s) + 1] = f
           /\ \A i \in 1..Len(s) : Append(s, f)[i] = s[i]
           /\ Len(s) \in Nat
  OBVIOUS

LEMMA PushOk ==
    ASSUME NEW s, StackOk(s), NEW f \in Frames, FrameOk(Append(s, f), Len(s) + 1)
    PROVE  StackOk(Append(s, f))
<1>1. s \in Seq(Frames)
  BY DEF StackOk
<1>2. ASSUME NEW i \in 1..Len(s) PROVE FrameOk(Append(s, f), i)
  <2>1. FrameOk(s, i)
    BY DEF StackOk
  <2>2. Append(s, f)[i] = s[i] /\ Append(s, f)[1] = s[1]
        /\ (i # 1 => Append(s, f)[i - 1] = s[i - 1])
    BY <1>1, Push
  <2>3. QED
    BY <2>1, <2>2 DEF FrameOk
<1>3. QED
  BY <1>1, <1>2, Push DEF StackOk

LEMMA Cut ==
    ASSUME NEW s \in Seq(Frames), Len(s) > 0
    PROVE  /\ SubSeq(s, 1, Len(s) - 1) \in Seq(Frames)
           /\ Len(SubSeq(s, 1, Len(s) - 1)) = Len(s) - 1
           /\ \A i \in 1..Len(s) - 1 : SubSeq(s, 1, Len(s) - 1)[i] = s[i]
           /\ Len(s) \in Nat /\ s[Len(s)] \in Frames
<1>1. Len(s) \in Nat /\ s[Len(s)] \in Frames
  OBVIOUS
<1>2. PICK n \in Nat : n = Len(s) - 1
  BY <1>1
<1>3. \A i \in 1..n : s[i] \in Frames
  BY <1>1, <1>2
<1>4. n \in Int /\ 1 \in Int /\ n - 1 + 1 = n /\ \A i \in 1..n : 1 + i - 1 = i
  BY ONLY <1>2
<1>5. /\ SubSeq(s, 1, n) \in Seq(Frames)
      /\ Len(SubSeq(s, 1, n)) = IF 1 <= n THEN n - 1 + 1 ELSE 0
      /\ \A i \in 1..n - 1 + 1 : SubSeq(s, 1, n)[i] = s[1 + i - 1]
  BY ONLY <1>3, <1>4, SubSeqProperties
<1>6. Len(SubSeq(s, 1, n)) = n
  BY <1>2, <1>4, <1>5
<1>7. QED
  BY <1>1, <1>2, <1>4, <1>5, <1>6

LEMMA CutOk ==
    ASSUME NEW s, StackOk(s), Len(s) > 0
    PROVE  StackOk(SubSeq(s, 1, Len(s) - 1))
<1> DEFINE p == SubSeq(s, 1, Len(s) - 1)
<1>1. /\ s \in Seq(Frames) /\ p \in Seq(Frames) /\ Len(p) = Len(s) - 1 /\ Len(s) \in Nat
      /\ \A i \in 1..Len(s) - 1 : p[i] = s[i]
  BY Cut DEF StackOk
<1> HIDE DEF p
<1>2. ASSUME NEW i \in 1..Len(p) PROVE FrameOk(p, i)
  <2>1. FrameOk(s, i)
    BY <1>1 DEF StackOk
  <2>2. p[i] = s[i] /\ p[1] = s[1] /\ (i # 1 => p[i - 1] = s[i - 1])
    BY <1>1
  <2>3. QED
    BY <2>1, <2>2 DEF FrameOk
<1>3. StackOk(p)
  BY <1>1, <1>2 DEF StackOk
<1>4. QED
  BY <1>3 DEF p

LEMMA Pop ==
    ASSUME StackOk(stack), Depth > 0
    PROVE  /\ StackOk(Popped) /\ Len(Popped) = Depth - 1 /\ Depth \in Nat
           /\ \A i \in 1..Depth - 1 : Popped[i] = stack[i]
           /\ Top \in Frames /\ FrameOk(stack, Depth) /\ Depth \in 1..Depth
<1>1. stack \in Seq(Frames)
  BY DEF StackOk
<1>2. /\ Len(Popped) = Depth - 1 /\ \A i \in 1..Depth - 1 : Popped[i] = stack[i]
      /\ Depth \in Nat /\ Top \in Frames
  BY <1>1, Cut DEF Popped, Depth, Top
<1>3. Depth \in 1..Depth
  BY <1>2
<1>4. FrameOk(stack, Depth)
  BY <1>3 DEF StackOk, Depth
<1>5. QED
  BY <1>2, <1>3, <1>4, CutOk DEF Popped, Depth

(* The top frame is replaced by f.                                          *)
LEMMA Becomes ==
    ASSUME StackOk(stack), Depth > 0, NEW f \in Frames
    PROVE  /\ Become(f) \in Seq(Frames) /\ Len(Become(f)) = Depth /\ Become(f)[Depth] = f
           /\ \A i \in 1..Depth - 1 : Become(f)[i] = stack[i]
           /\ FrameOk(Become(f), Depth) => StackOk(Become(f))
<1>1. Popped \in Seq(Frames) /\ Len(Popped) = Depth - 1 /\ Depth \in Nat
      /\ \A i \in 1..Depth - 1 : Popped[i] = stack[i]
  BY Pop DEF StackOk
<1>2. Len(Popped) + 1 = Depth
  BY <1>1
<1>3. FrameOk(Become(f), Depth) => StackOk(Become(f))
  BY <1>2, Pop, PushOk DEF Become
<1>4. QED
  BY <1>1, <1>2, <1>3, Push DEF Become

(* What the top frame is says where the loop is.                            *)
LEMMA TopFacts ==
    ASSUME StackOk(stack), Depth > 0
    PROVE  /\ Top.at \in LoopAt => Depth = 1 /\ InRun
           /\ Top.at \notin {"modal", "dispatch"} => InRun
           /\ Top.ops # {} => Top.at \in {"task", "dispatch"}
           /\ Depth > 1 => stack[Depth - 1] \in Frames /\ FrameOk(stack, Depth - 1)
<1>1. FrameOk(stack, Depth) /\ Depth \in Nat /\ Top = stack[Depth]
  BY Pop DEF Top
<1>2. Depth > 1 => stack[Depth - 1] \in Frames /\ FrameOk(stack, Depth - 1)
  <2>1. SUFFICES ASSUME Depth > 1 PROVE stack[Depth - 1] \in Frames /\ FrameOk(stack, Depth - 1)
    OBVIOUS
  <2>2. Depth - 1 \in 1..Len(stack) /\ stack \in Seq(Frames)
    BY <1>1, <2>1 DEF Depth, StackOk
  <2>3. QED
    BY <2>2 DEF StackOk
<1>3. QED
  BY <1>1, <1>2 DEF FrameOk, InRun

(* A new frame on top of s.                                                 *)
Fits(f, t, bottom) ==
    /\ f.at \in {"dispatch", "timer", "modal", "replace", "have work"}
    /\ f.ops # {} => f.at = "dispatch"
    /\ f.at \in {"dispatch", "modal"} \/ bottom.at \in LoopAt
    /\ f.at = "replace" => t.at \in {"work", "have work"}
    /\ t.at # "replace" /\ (t.at = "task" => f.at = "modal")
    /\ t.at \in LoopAt => t.at = "work"

LEMMA FitsOk ==
    ASSUME NEW a, NEW n \in Nat, n > 1, Fits(a[n], a[n - 1], a[1])
    PROVE  FrameOk(a, n)
<1>1. a[n].at \notin LoopAt /\ a[n].at # "task"
  BY DEF LoopAt, Fits
<1>2. QED
  BY <1>1 DEF FrameOk, Fits

LEMMA PushTop ==
    ASSUME NEW s, StackOk(s), Len(s) > 0, NEW f \in Frames, Fits(f, s[Len(s)], s[1])
    PROVE  StackOk(Append(s, f))
<1>1. s \in Seq(Frames)
  BY DEF StackOk
<1>2. Len(s) \in Nat /\ 1 \in 1..Len(s) /\ Len(s) \in 1..Len(s)
      /\ Len(s) + 1 - 1 = Len(s) /\ Len(s) + 1 > 1 /\ Len(s) + 1 # 1
  BY <1>1
<1>3. /\ Append(s, f)[Len(s) + 1] = f /\ Append(s, f)[Len(s)] = s[Len(s)]
      /\ Append(s, f)[1] = s[1]
  BY <1>1, <1>2, Push
<1>4. PICK n \in Nat : n = Len(s) + 1 /\ n > 1
  BY <1>2
<1>5. n - 1 = Len(s)
  BY <1>2, <1>4
<1>6. Append(s, f)[n] = f /\ Append(s, f)[n - 1] = s[Len(s)]
  BY <1>3, <1>4, <1>5
<1>7. Fits(Append(s, f)[n], Append(s, f)[n - 1], Append(s, f)[1])
  BY <1>3, <1>6
<1>8. FrameOk(Append(s, f), n)
  BY <1>4, <1>7, FitsOk
<1>9. QED
  BY <1>4, <1>8, PushOk

-----------------------------------------------------------------------------
(* What the actions do to the stack.                                        *)

Shorter(s)     == Len(s) = Depth - 1 /\ \A i \in 1..Depth - 1 : s[i] = stack[i]
Replaced(s, f) == Len(s) = Depth /\ s[Depth] = f /\ \A i \in 1..Depth - 1 : s[i] = stack[i]

LEMMA Positions ==
    ASSUME NEW d \in Nat, d > 0
    PROVE  /\ d + 1 \in Nat /\ d - 1 \in Nat /\ d + 1 - 1 = d /\ d - 1 + 1 = d
           /\ d + 1 > 1 /\ d + 1 # 1 /\ d \in 1..d /\ 1 \in 1..d /\ (d > 1 <=> d # 1)
           /\ d > 1 => d - 1 \in 1..d - 1 /\ 1 \in 1..d - 1
  OBVIOUS

LEMMA FrameTypes ==
    /\ \A at \in At : Frame(at) \in Frames
    /\ \A t \in Tasks : TaskFrame(t) \in Frames
    /\ HandlerFrame \in Frames
<1>1. \A at \in At : Frame(at) \in Frames
  BY DEF Frame, Frames
<1>2. \A t \in Tasks : TaskFrame(t) \in Frames
  BY TasksAssumption DEF TaskFrame, Frame, Frames, Ops, At
<1>3. HandlerFrame \in Frames
  BY DEF HandlerFrame, Frame, Frames, Ops, At
<1>4. QED
  BY <1>1, <1>2, <1>3

(* The activation on top goes on to its next position, or makes a call.     *)
GoesOn(f) ==
    /\ f.task = Top.task /\ f.ops \subseteq Top.ops
    /\ \/ f.at = Top.at /\ f.more = Top.more
       \/ Top.at \in LoopAt /\ f.at \in LoopAt
       \/ Top.at = "timer" /\ f.at = "timer end"

LEMMA GotoStep ==
    ASSUME StackOk(stack), Depth > 0, NEW f \in Frames, GoesOn(f)
    PROVE  StackOk(Become(f)) /\ Replaced(Become(f), f)
<1>1. /\ Replaced(Become(f), f)
      /\ FrameOk(Become(f), Depth) => StackOk(Become(f))
  BY Becomes DEF Replaced
<1>2. FrameOk(stack, Depth) /\ Depth \in Nat /\ Top = stack[Depth]
  BY Pop DEF Top
<1>3. FrameOk(Become(f), Depth)
  <2> DEFINE s == Become(f)
  <2>1. s[Depth] = f /\ (Depth # 1 => s[Depth - 1] = stack[Depth - 1] /\ s[1] = stack[1])
        /\ (Depth = 1 => s[1] = f)
    BY <1>1, <1>2, Positions DEF Replaced
  <2> HIDE DEF s
  <2>2. Top.at \in LoopAt => Depth = 1
    BY TopFacts
  <2>3. FrameOk(s, Depth)
    BY <1>2, <2>1, <2>2 DEF FrameOk, GoesOn, LoopAt
  <2>4. QED
    BY <2>3 DEF s
<1>4. QED
  BY <1>1, <1>3

(* DoWork or DoDelayedWork runs a task.                                     *)
LEMMA RunTaskStep ==
    ASSUME StackOk(stack), Depth > 0, AtDoWork \/ AtDoDelayedWork,
           NEW t \in Tasks, Top.at = "timer" => t \in Delayed, RunTask(t)
    PROVE  /\ StackOk(stack') /\ Len(stack') = Depth + 1 /\ DidWork \in Frames
           /\ stack'[Depth + 1] = TaskFrame(t) /\ stack'[Depth] = DidWork
           /\ \A i \in 1..Depth - 1 : stack'[i] = stack[i]
<1>1. Depth \in Nat /\ Top \in Frames /\ FrameOk(stack, Depth) /\ Top = stack[Depth]
  BY Pop DEF Top
<1>2. /\ DidWork \in Frames /\ DidWork.more /\ DidWork.ops = Top.ops
      /\ DidWork.task = Top.task
      /\ Top.at = "work" => DidWork.at = "delayed"
      /\ Top.at = "delayed" => DidWork.at = "delayed end"
      /\ Top.at = "have work" => DidWork.at = "have work end"
      /\ Top.at = "timer" => DidWork.at = "timer end"
  BY <1>1 DEF DidWork, Frames, At, LoopAt, AtDoWork, AtDoDelayedWork, AtTop
<1>3. /\ Become(DidWork) \in Seq(Frames) /\ Len(Become(DidWork)) = Depth
      /\ Become(DidWork)[Depth] = DidWork
      /\ \A i \in 1..Depth - 1 : Become(DidWork)[i] = stack[i]
      /\ FrameOk(Become(DidWork), Depth) => StackOk(Become(DidWork))
  BY <1>2, Becomes
<1> DEFINE s == Become(DidWork)
<1>4. s[Depth] = DidWork /\ (Depth # 1 => s[Depth - 1] = stack[Depth - 1] /\ s[1] = stack[1])
      /\ (Depth = 1 => s[1] = DidWork) /\ s \in Seq(Frames) /\ Len(s) = Depth
      /\ \A i \in 1..Depth - 1 : s[i] = stack[i]
  BY <1>1, <1>3, Positions
<1>5. FrameOk(s, Depth) => StackOk(s)
  BY <1>3
<1>6. stack' = Append(s, TaskFrame(t)) /\ TaskFrame(t) \in Frames
  BY FrameTypes DEF RunTask
<1> HIDE DEF s
<1>7. StackOk(s)
  <2>1. FrameOk(s, Depth)
    <3>1. Top.at \in LoopAt => Depth = 1
      BY TopFacts
    <3>2. Top.at \in {"work", "have work", "delayed", "timer"}
      BY DEF AtDoWork, AtDoDelayedWork, AtTop
    <3>3. QED
      BY <1>1, <1>2, <1>4, <3>1, <3>2 DEF FrameOk, LoopAt
  <2>2. QED
    BY <1>5, <2>1
<1>8. /\ Len(stack') = Depth + 1 /\ stack'[Depth + 1] = TaskFrame(t)
      /\ \A i \in 1..Depth : stack'[i] = s[i]
  BY <1>1, <1>4, <1>6, Push
<1>9. Depth + 1 - 1 = Depth /\ Depth + 1 > 1 /\ Depth \in 1..Depth /\ 1 \in 1..Depth
  BY <1>1, Positions
<1>10. FrameOk(stack', Depth + 1)
  <2>1. stack'[1].at \in LoopAt
    <3>1. stack[1].at \in LoopAt
      BY TopFacts DEF InRun, AtDoWork, AtDoDelayedWork, AtTop
    <3>2. stack'[1] = s[1] /\ DidWork.at \in {"delayed", "delayed end", "have work end", "timer end"}
      BY <1>2, <1>8, <1>9 DEF AtDoWork, AtDoDelayedWork, AtTop
    <3>3. Depth = 1 => DidWork.at \in LoopAt
      BY <1>1, <1>2, <3>1 DEF LoopAt, AtDoWork, AtDoDelayedWork, AtTop
    <3>4. Depth # 1 => 1 \in 1..Depth - 1
      BY <1>1, Positions
    <3>5. QED
      BY <1>4, <3>1, <3>2, <3>3, <3>4
  <2>2. PICK n \in Nat : n = Depth + 1 /\ n - 1 = Depth /\ n # 1
    BY <1>1, <1>9, Positions
  <2>3. stack'[n] = TaskFrame(t) /\ stack'[n - 1] = DidWork
    BY <1>4, <1>8, <1>9, <2>2
  <2>4. TaskFrame(t).at = "task" /\ TaskFrame(t).task = t /\ TaskFrame(t).ops = Script[t]
    BY DEF TaskFrame, Frame
  <2>5. /\ DidWork.at \in {"delayed", "delayed end", "have work end", "timer end"}
        /\ DidWork.more /\ (DidWork.at = "timer end" => t \in Delayed)
    BY <1>2 DEF AtDoWork, AtDoDelayedWork, AtTop
  <2>6. FrameOk(stack', n)
    BY <2>1, <2>2, <2>3, <2>4, <2>5 DEF FrameOk, LoopAt
  <2>7. QED
    BY <2>2, <2>6
<1>11. StackOk(stack')
  BY <1>4, <1>6, <1>7, <1>10, PushOk
<1>12. stack'[Depth] = DidWork /\ \A i \in 1..Depth - 1 : stack'[i] = stack[i]
  <2>1. \A i \in 1..Depth - 1 : i \in 1..Depth
    BY <1>1
  <2>2. QED
    BY <1>4, <1>8, <1>9, <2>1
<1>13. QED
  BY <1>2, <1>8, <1>11, <1>12

(* A message that was taken.                                                *)
LEMMA MessageFacts ==
    ASSUME TypeOK, NEW m \in AnyMessage \cup TimerMessage
    PROVE  /\ m.msg \in {"input", "timer", "have work"} /\ m.timer \in Nat
           /\ m.queue \in Seq({"have work", "input"})
           /\ \/ m.msg = "timer" /\ m.queue = queue
              \/ queue # << >> /\ m.msg = Head(queue) /\ m.queue = Tail(queue)
<1>1. queue \in Seq({"have work", "input"}) /\ timer \in Nat
  BY DEF TypeOK
<1>2. CASE m \in TimerMessage
  <2>1. m = [msg |-> "timer", queue |-> queue, timer |-> 0]
    BY <1>2 DEF TimerMessage
  <2>2. QED
    BY <1>1, <2>1
<1>3. CASE queue # << >> /\ m = [msg |-> Head(queue), queue |-> Tail(queue), timer |-> timer]
  <2>1. Head(queue) \in {"have work", "input"} /\ Tail(queue) \in Seq({"have work", "input"})
    BY <1>1, <1>3, HeadTailProperties
  <2>2. QED
    BY <1>1, <1>3, <2>1
<1>4. QED
  BY <1>2, <1>3 DEF AnyMessage

(* A handler can run on top of s.                                           *)
Handles(s, msg) ==
    /\ msg \in {"input", "timer", "have work"}
    /\ InRun <=> s[1].at \in LoopAt
    /\ s[Len(s)].at \notin {"replace", "task"}
    /\ s[Len(s)].at \in LoopAt => s[Len(s)].at = "work"
    /\ msg = "have work" => s[Len(s)].at \in {"work", "have work"} /\ InRun

(* r is s with the handler of msg on top, if there is one.                  *)
HandlerOf(h, msg) == /\ h.at \in {"dispatch", "timer", "replace"}
                     /\ h.at = "replace" <=> msg = "have work"
Handled(r, s, msg) ==
    \/ r = s /\ msg = "timer" /\ ~ InRun
    \/ \E h \in Frames : r = Append(s, h) /\ HandlerOf(h, msg)

LEMMA HandlingStep ==
    ASSUME NEW s, StackOk(s), Len(s) > 0, NEW msg, Handles(s, msg)
    PROVE  StackOk(Handling(s, msg)) /\ Handled(Handling(s, msg), s, msg)
<1>1. CASE msg = "input"
  <2>1. Handling(s, msg) = Append(s, HandlerFrame)
    BY <1>1 DEF Handling
  <2>2. HandlerFrame \in Frames /\ HandlerFrame.at = "dispatch" /\ HandlerFrame.ops = {"Modal"}
    BY FrameTypes DEF HandlerFrame, Frame
  <2>3. Fits(HandlerFrame, s[Len(s)], s[1])
    BY <2>2 DEF Fits, Handles
  <2>4. QED
    BY <1>1, <2>1, <2>2, <2>3, PushTop DEF Handled, HandlerOf
<1>2. CASE msg = "timer" /\ ~ InRun
  <2>1. Handling(s, msg) = s
    BY <1>2 DEF Handling
  <2>2. QED
    BY <1>2, <2>1 DEF Handled
<1>3. CASE msg = "timer" /\ InRun
  <2>1. Handling(s, msg) = Append(s, Frame("timer"))
    BY <1>3 DEF Handling
  <2>2. Frame("timer") \in Frames /\ Frame("timer").at = "timer" /\ Frame("timer").ops = {}
    BY FrameTypes DEF Frame, At
  <2>3. Fits(Frame("timer"), s[Len(s)], s[1])
    BY <1>3, <2>2 DEF Fits, Handles
  <2>4. QED
    BY <1>3, <2>1, <2>2, <2>3, PushTop DEF Handled, HandlerOf
<1>4. CASE msg = "have work"
  <2>1. Handling(s, msg) = Append(s, Frame("replace"))
    BY <1>4 DEF Handling
  <2>2. Frame("replace") \in Frames /\ Frame("replace").at = "replace" /\ Frame("replace").ops = {}
    BY FrameTypes DEF Frame, At
  <2>3. Fits(Frame("replace"), s[Len(s)], s[1])
    BY <1>4, <2>2 DEF Fits, Handles
  <2>4. QED
    BY <1>4, <2>1, <2>2, <2>3, PushTop DEF Handled, HandlerOf
<1>5. QED
  BY <1>1, <1>2, <1>3, <1>4 DEF Handles

(* DoRunLoop takes a message, or finds none.                                *)
LEMMA ProcessNextStep ==
    ASSUME TypeOK, StackOk(stack), ProcessNextWindowsMessage
    PROVE  /\ Depth = 1 /\ stack[1].at = "message" /\ StackOk(stack')
           /\ stack'[1].at = "work"
           /\ \/ Len(stack') = 1
              \/ Len(stack') = 2 /\ stack'[2].at \in {"dispatch", "timer", "replace"}
           /\ \/ UNCHANGED <<queue, timer>> /\ Len(stack') = 1
              \/ \E m \in AnyMessage :
                    /\ queue' = m.queue /\ timer' = m.timer /\ Len(stack') = 2
                    /\ stack'[2].at = "replace" <=> m.msg = "have work"
<1>1. Depth > 0 /\ Depth \in Nat /\ Top.at = "message" /\ Top \in Frames /\ Top = stack[Depth]
  BY Pop DEF ProcessNextWindowsMessage, AtTop, Top
<1>2. Depth = 1 /\ InRun
  BY <1>1, TopFacts DEF LoopAt
<1> DEFINE f(b) == [Top EXCEPT !.at = "work", !.more = b]
<1>3. ASSUME NEW b \in BOOLEAN
      PROVE  /\ f(b) \in Frames /\ f(b).at = "work" /\ StackOk(Become(f(b)))
             /\ Len(Become(f(b))) = 1 /\ Become(f(b))[1] = f(b)
  <2>1. f(b) \in Frames /\ f(b).at = "work" /\ GoesOn(f(b))
    BY <1>1 DEF Frames, At, LoopAt, GoesOn
  <2>2. QED
    BY <1>1, <1>2, <2>1, GotoStep DEF Replaced
<1> HIDE DEF f
<1>4. CASE /\ stack' = Become(f(FALSE)) /\ UNCHANGED <<queue, timer>>
  BY <1>1, <1>2, <1>3, <1>4
<1>5. ASSUME NEW m \in AnyMessage, queue' = m.queue, timer' = m.timer,
             stack' = Handling(Become(f(m.msg # "have work")), m.msg)
      PROVE  /\ StackOk(stack') /\ stack'[1].at = "work" /\ Len(stack') = 2
             /\ stack'[2].at \in {"dispatch", "timer", "replace"}
             /\ stack'[2].at = "replace" <=> m.msg = "have work"
  <2> DEFINE s == Become(f(m.msg # "have work"))
  <2>1. StackOk(s) /\ Len(s) = 1 /\ s[1].at = "work" /\ s \in Seq(Frames)
    BY <1>3 DEF StackOk
  <2> HIDE DEF s
  <2>2. Handles(s, m.msg)
    BY <1>2, <2>1, MessageFacts DEF Handles, LoopAt
  <2>3. stack' = Handling(s, m.msg)
    BY <1>5 DEF s
  <2>4. StackOk(stack') /\ Handled(stack', s, m.msg)
    <3>1. Len(s) > 0
      BY <2>1
    <3>2. QED
      BY ONLY <2>1, <2>2, <2>3, <3>1, HandlingStep
  <2>5. PICK h \in Frames : stack' = Append(s, h) /\ HandlerOf(h, m.msg)
    BY <1>2, <2>4 DEF Handled
  <2>6. Len(stack') = 2 /\ stack'[1] = s[1] /\ stack'[2] = h
    <3>1. s \in Seq(Frames) /\ Len(s) = 1 /\ stack' = Append(s, h)
      BY <2>1, <2>5
    <3>2. /\ Len(Append(s, h)) = Len(s) + 1 /\ Append(s, h)[Len(s) + 1] = h
          /\ \A i \in 1..Len(s) : Append(s, h)[i] = s[i]
      BY <3>1, Push
    <3>3. 1 \in 1..1 /\ 1 + 1 = 2
      OBVIOUS
    <3>4. QED
      BY ONLY <3>1, <3>2, <3>3
  <2>7. QED
    BY <2>1, <2>4, <2>5, <2>6 DEF HandlerOf
<1>6. QED
  BY <1>1, <1>2, <1>4, <1>5 DEF ProcessNextWindowsMessage, f

-----------------------------------------------------------------------------
(* What a step leaves in the stack for the invariants to notice.            *)
TopIs(s, at) == Len(s) > 0 /\ s[Len(s)].at = at
KeepsTasks(s) == \A i \in 1..Depth :
                    stack[i].at = "task" => i \in 1..Len(s) /\ s[i].at = "task"
Busy(s) == ~ TopIs(s, "replace") /\ ~ Nothing(s, ToWait)

LEMMA PopEffect ==
    ASSUME StackOk(stack), Depth > 0
    PROVE  /\ StackOk(Popped) /\ Busy(Popped)
           /\ Top.at # "task" => KeepsTasks(Popped)
<1>1. /\ StackOk(Popped) /\ Len(Popped) = Depth - 1 /\ Depth \in Nat
      /\ \A i \in 1..Depth - 1 : Popped[i] = stack[i]
      /\ FrameOk(stack, Depth) /\ Top = stack[Depth]
  BY Pop DEF Top
<1>2. Top.at # "task" => KeepsTasks(Popped)
  <2>1. SUFFICES ASSUME Top.at # "task", NEW i \in 1..Depth, stack[i].at = "task"
                 PROVE  i \in 1..Len(Popped) /\ Popped[i].at = "task"
    BY DEF KeepsTasks
  <2>2. i # Depth
    BY <1>1, <2>1
  <2>3. i \in 1..Depth - 1
    BY <1>1, <2>2
  <2>4. QED
    BY <1>1, <2>1, <2>3
<1>3. ASSUME Depth # 1
      PROVE  stack[Depth - 1].at # "replace" /\ ~ Nothing(<<stack[Depth - 1]>>, ToWait)
  BY <1>1, <1>3, TopFacts DEF FrameOk, Nothing, ToWait, AfterDelayed, LoopAt
<1>4. ~ TopIs(Popped, "replace")
  <2>1. SUFFICES ASSUME Len(Popped) > 0 PROVE Popped[Len(Popped)].at # "replace"
    BY DEF TopIs
  <2>2. Depth # 1 /\ Popped[Len(Popped)] = stack[Depth - 1]
    BY <1>1, <2>1
  <2>3. QED
    BY <1>3, <2>2
<1>5. ~ Nothing(Popped, ToWait)
  <2>1. SUFFICES ASSUME Len(Popped) = 1 PROVE ~ Nothing(Popped, ToWait)
    BY DEF Nothing
  <2>2. Depth # 1 /\ Depth - 1 = 1 /\ 1 \in 1..Depth - 1
    <3>1. Depth \in Nat /\ Depth - 1 = 1
      BY <1>1, <2>1
    <3>2. QED
      BY ONLY <3>1
  <2>3. Popped[1] = stack[Depth - 1]
    BY <1>1, <2>2
  <2>4. QED
    BY <1>3, <2>1, <2>2, <2>3 DEF Nothing
<1>6. QED
  BY <1>1, <1>2, <1>4, <1>5 DEF Busy

(* The activation on top goes on.                                           *)
LEMMA GotoEffect ==
    ASSUME StackOk(stack), Depth > 0, NEW f \in Frames, GoesOn(f), f.at # "replace"
    PROVE  /\ StackOk(Become(f)) /\ KeepsTasks(Become(f)) /\ ~ TopIs(Become(f), "replace")
           /\ \A ats \in SUBSET ToWait :
                 Nothing(Become(f), ats) <=> Depth = 1 /\ Nothing(<<f>>, ats)
<1>1. StackOk(Become(f)) /\ Replaced(Become(f), f) /\ Depth \in Nat /\ Top = stack[Depth]
  BY GotoStep, Pop DEF Top
<1> DEFINE s == Become(f)
<1>2. Len(s) = Depth /\ s[Depth] = f /\ \A i \in 1..Depth - 1 : s[i] = stack[i]
  BY <1>1 DEF Replaced
<1> HIDE DEF s
<1>3. ~ TopIs(s, "replace")
  BY <1>2 DEF TopIs
<1>4. KeepsTasks(s)
  <2>1. SUFFICES ASSUME NEW i \in 1..Depth, stack[i].at = "task"
                 PROVE  i \in 1..Len(s) /\ s[i].at = "task"
    BY DEF KeepsTasks
  <2>2. CASE i = Depth
    BY <1>1, <1>2, <2>1, <2>2 DEF GoesOn, LoopAt
  <2>3. CASE i # Depth
    <3>1. i \in 1..Depth - 1
      BY <1>1, <2>3
    <3>2. QED
      BY <1>2, <2>1, <3>1
  <2>4. QED
    BY <2>2, <2>3
<1>5. \A ats \in SUBSET ToWait : Nothing(s, ats) <=> Depth = 1 /\ Nothing(<<f>>, ats)
  <2>1. Depth = 1 => s[1] = f
    BY <1>2
  <2>2. QED
    BY <1>2, <2>1 DEF Nothing
<1>6. QED
  BY <1>1, <1>3, <1>4, <1>5 DEF s

LEMMA RunTaskEffect ==
    ASSUME StackOk(stack), Depth > 0, AtDoWork \/ AtDoDelayedWork,
           NEW t \in Tasks, Top.at = "timer" => t \in Delayed, RunTask(t)
    PROVE  StackOk(stack') /\ Busy(stack') /\ \E i \in 1..Len(stack') : stack'[i].at = "task"
<1>1. /\ StackOk(stack') /\ Len(stack') = Depth + 1
      /\ stack'[Depth + 1] = TaskFrame(t) /\ Depth \in Nat
  BY RunTaskStep, Pop
<1>2. TaskFrame(t).at = "task"
  BY DEF TaskFrame, Frame
<1>3. ~ TopIs(stack', "replace")
  BY <1>1, <1>2 DEF TopIs
<1>4. Len(stack') # 1 /\ Depth + 1 \in 1..Len(stack')
  BY <1>1
<1>5. QED
  BY <1>1, <1>2, <1>3, <1>4 DEF Busy, Nothing

(* More activations on top.                                                 *)
Grown(s, n) == Len(s) = Depth + n /\ \A i \in 1..Depth : s[i] = stack[i]
Longer(s)   == Len(s) \in Nat /\ Len(s) >= Depth /\ \A i \in 1..Depth : s[i] = stack[i]

LEMMA GrownEffect ==
    ASSUME StackOk(stack), Depth > 0, NEW s, NEW n \in Nat \ {0}, Grown(s, n)
    PROVE  KeepsTasks(s) /\ ~ Nothing(s, ToWait) /\ Longer(s)
<1>1. Len(s) = Depth + n /\ Depth \in Nat /\ \A i \in 1..Depth : s[i] = stack[i]
  BY Pop DEF Grown
<1>2. Len(s) # 1 /\ (\A i \in 1..Depth : i \in 1..Len(s)) /\ Longer(s)
  BY <1>1 DEF Longer
<1>3. QED
  BY <1>1, <1>2 DEF KeepsTasks, Nothing

HandlerOn(r, msg) == /\ HandlerOf(r[Len(r)], msg)
                     /\ TopIs(r, "replace") <=> msg = "have work"

LEMMA HandledEffect ==
    ASSUME NEW s, StackOk(s), Len(s) > 0, NEW r, NEW msg, Handled(r, s, msg)
    PROVE  \/ r = s /\ msg = "timer" /\ ~ InRun
           \/ /\ Len(r) = Len(s) + 1 /\ \A i \in 1..Len(s) : r[i] = s[i]
              /\ HandlerOn(r, msg)
<1>1. SUFFICES ASSUME NEW h \in Frames, r = Append(s, h), HandlerOf(h, msg)
               PROVE  /\ Len(r) = Len(s) + 1 /\ \A i \in 1..Len(s) : r[i] = s[i]
                      /\ HandlerOn(r, msg)
  BY DEF Handled
<1>2. s \in Seq(Frames)
  BY DEF StackOk
<1>3. /\ Len(r) = Len(s) + 1 /\ r[Len(s) + 1] = h /\ \A i \in 1..Len(s) : r[i] = s[i]
      /\ Len(s) \in Nat
  BY <1>1, <1>2, Push
<1>4. Len(r) > 0 /\ r[Len(r)] = h
  BY <1>3
<1>5. QED
  BY <1>1, <1>3, <1>4 DEF TopIs, HandlerOf, HandlerOn

(* A modal loop dispatches a message.                                       *)
Dispatched(m) ==
    /\ queue' = m.queue /\ timer' = m.timer
    /\ haveWork' = (haveWork /\ (m.msg = "have work" => InRun))
    /\ TopIs(stack', "replace") <=> m.msg = "have work" /\ InRun
    /\ \/ stack' = stack
       \/ Grown(stack', 1) /\ HandlerOf(stack'[Len(stack')], m.msg)
       \/ Grown(stack', 2) /\ stack'[Depth + 1].at = "have work" /\ m.msg = "have work"

LEMMA DispatchStep ==
    ASSUME TypeOK, StackOk(stack), DispatchInModalLoop
    PROVE  /\ StackOk(stack') /\ KeepsTasks(stack') /\ ~ Nothing(stack', ToWait)
           /\ Longer(stack') /\ \E m \in AnyMessage : Dispatched(m)
<1>1. Depth > 0 /\ Depth \in Nat /\ Top = stack[Depth] /\ Top.at = "modal" /\ Depth = Len(stack)
  BY Pop DEF DispatchInModalLoop, AtTop, Top, Depth
<1>2. PICK m \in AnyMessage :
         /\ queue' = m.queue /\ timer' = m.timer
         /\ haveWork' = (haveWork /\ (m.msg = "have work" => InRun))
         /\ stack' = IF m.msg # "have work" THEN Handling(stack, m.msg)
                     ELSE IF InRun THEN Handling(Append(stack, Frame("have work")), m.msg)
                     ELSE stack
  BY DEF DispatchInModalLoop
<1>3. stack[1].at \in LoopAt <=> InRun
  BY <1>1 DEF InRun
<1>4. ~ TopIs(stack, "replace") /\ KeepsTasks(stack) /\ ~ Nothing(stack, ToWait) /\ Longer(stack)
  <2>1. Longer(stack)
    BY ONLY <1>1 DEF Longer
  <2>2. QED
    BY <1>1, <2>1 DEF TopIs, KeepsTasks, Nothing, ToWait, AfterDelayed
<1>5. m.msg \in {"input", "timer", "have work"}
  BY MessageFacts
<1>6. CASE m.msg # "have work"
  <2>1. stack' = Handling(stack, m.msg)
    BY <1>2, <1>6
  <2>2. Handles(stack, m.msg)
    BY <1>1, <1>3, <1>5, <1>6 DEF Handles, LoopAt
  <2>3. StackOk(stack') /\ Handled(stack', stack, m.msg)
    BY <1>1, <2>1, <2>2, HandlingStep
  <2>4. \/ stack' = stack
        \/ Grown(stack', 1) /\ HandlerOf(stack'[Len(stack')], m.msg) /\ ~ TopIs(stack', "replace")
    BY <1>1, <1>6, <2>3, HandledEffect DEF Grown, HandlerOn
  <2>5. KeepsTasks(stack') /\ ~ Nothing(stack', ToWait) /\ Longer(stack')
    <3>1. 1 \in Nat \ {0}
      OBVIOUS
    <3>2. QED
      BY <1>1, <1>4, <2>4, <3>1, GrownEffect
  <2>6. Dispatched(m)
    BY <1>2, <1>4, <1>6, <2>4 DEF Dispatched
  <2>7. QED
    BY <2>3, <2>5, <2>6
<1>7. CASE m.msg = "have work" /\ ~ InRun
  <2>1. stack' = stack
    BY <1>2, <1>7
  <2>2. Dispatched(m)
    BY <1>2, <1>4, <1>7, <2>1 DEF Dispatched
  <2>3. QED
    BY <1>4, <2>1, <2>2
<1>8. CASE m.msg = "have work" /\ InRun
  <2> DEFINE s == Append(stack, Frame("have work"))
  <2>1. stack' = Handling(s, m.msg)
    BY <1>2, <1>8
  <2>2. Frame("have work") \in Frames /\ Frame("have work").at = "have work"
        /\ Frame("have work").ops = {}
    BY FrameTypes DEF Frame, At
  <2>3. Fits(Frame("have work"), stack[Len(stack)], stack[1])
    BY <1>1, <1>3, <1>8, <2>2 DEF Fits, LoopAt
  <2>4. StackOk(s)
    BY <1>1, <2>2, <2>3, PushTop
  <2>5. stack \in Seq(Frames)
    BY DEF StackOk
  <2>6. /\ Len(s) = Depth + 1 /\ s[Depth + 1] = Frame("have work")
        /\ \A i \in 1..Depth : s[i] = stack[i]
    BY <1>1, <2>2, <2>5, Push
  <2> HIDE DEF s
  <2>7. Len(s) > 0 /\ s[Len(s)] = Frame("have work") /\ s[1] = stack[1] /\ Depth + 1 \in 1..Depth + 1
    <3>1. Depth \in Nat /\ Depth > 0 /\ Len(s) = Depth + 1
      BY <1>1, <2>6
    <3>2. Len(s) > 0 /\ 1 \in 1..Depth /\ Depth + 1 \in 1..Depth + 1
      BY ONLY <3>1
    <3>3. QED
      BY <2>6, <3>1, <3>2
  <2>8. Handles(s, m.msg)
    BY <1>3, <1>8, <2>2, <2>7 DEF Handles, LoopAt
  <2>9. StackOk(stack') /\ Handled(stack', s, m.msg)
    BY <2>1, <2>4, <2>7, <2>8, HandlingStep
  <2>10. /\ Len(stack') = Len(s) + 1 /\ \A i \in 1..Len(s) : stack'[i] = s[i]
         /\ TopIs(stack', "replace")
    BY <1>8, <2>4, <2>7, <2>9, HandledEffect DEF HandlerOn
  <2>11. Grown(stack', 2) /\ stack'[Depth + 1] = Frame("have work")
    <3>1. /\ Len(stack') = Depth + 1 + 1 /\ \A i \in 1..Depth + 1 : stack'[i] = s[i]
          /\ Depth \in Nat
      BY <1>1, <2>6, <2>10
    <3>2. Len(stack') = Depth + 2 /\ \A i \in 1..Depth : i \in 1..Depth + 1
      BY ONLY <3>1
    <3>3. QED
      BY <2>6, <2>7, <3>1, <3>2 DEF Grown
  <2>12. KeepsTasks(stack') /\ ~ Nothing(stack', ToWait) /\ Longer(stack')
    <3>1. 2 \in Nat \ {0}
      OBVIOUS
    <3>2. QED
      BY <1>1, <2>11, <3>1, GrownEffect
  <2>13. Dispatched(m)
    BY <1>2, <1>8, <2>2, <2>10, <2>11 DEF Dispatched
  <2>14. QED
    BY <2>9, <2>12, <2>13
<1>9. QED
  BY <1>6, <1>7, <1>8

(* The caller of ProcessPumpReplacementMessage remembers whether there was  *)
(* a message.                                                               *)
CallsPump(f) == f.at \in {"work", "have work"}
Remembers(r, s, b) == r = [s EXCEPT ![Len(s)].more = b]

LEMMA Remember ==
    ASSUME NEW s, StackOk(s), Len(s) > 0, CallsPump(s[Len(s)]), NEW b \in BOOLEAN,
           NEW r, Remembers(r, s, b)
    PROVE  StackOk(r) /\ Len(r) = Len(s) /\ \A i \in 1..Len(s) : r[i].at = s[i].at
<1> DEFINE n == Len(s)
           f == [s[n] EXCEPT !.more = b]
<1>1. s \in Seq(Frames) /\ n \in Nat /\ n \in 1..n /\ n > 0 /\ s[n] \in Frames
  BY DEF StackOk
<1>2. f \in Frames /\ f.at = s[n].at /\ f.task = s[n].task /\ f.ops = s[n].ops
  BY <1>1 DEF Frames
<1>3. r \in Seq(Frames) /\ Len(r) = n /\ r[n] = f /\ \A i \in 1..n : i # n => r[i] = s[i]
  BY <1>1, <1>2 DEF Remembers
<1> HIDE DEF f
<1>4. \A i \in 1..n : r[i].at = s[i].at /\ r[i].task = s[i].task /\ r[i].ops = s[i].ops
  BY <1>2, <1>3
<1>5. ASSUME NEW i \in 1..n PROVE FrameOk(r, i)
  <2>1. FrameOk(s, i) /\ 1 \in 1..n
    BY <1>1 DEF StackOk
  <2>2. CASE i = 1
    BY <1>4, <2>1, <2>2 DEF FrameOk, CallsPump
  <2>3. CASE i # 1
    <3>1. i - 1 \in 1..n /\ i - 1 # n
      BY <1>1, <2>3
    <3>2. r[i - 1] = s[i - 1]
      BY <1>3, <3>1
    <3>3. QED
      BY <1>4, <2>1, <2>3, <3>2 DEF FrameOk
  <2>4. QED
    BY <2>2, <2>3
<1>6. StackOk(r)
  BY <1>3, <1>5 DEF StackOk
<1>7. QED
  BY <1>3, <1>4, <1>6

Replacing(m) ==
    /\ haveWork' = TRUE /\ queue' = Append(m.queue, "have work") /\ timer' = m.timer
    /\ Len(stack') = Depth /\ HandlerOf(stack'[Depth], m.msg)
    /\ TopIs(stack', "replace") <=> m.msg = "have work"
    /\ \A i \in 1..Depth - 1 : stack'[i].at = stack[i].at

LEMMA ReplacementStep ==
    ASSUME TypeOK, StackOk(stack), ProcessPumpReplacementMessage
    PROVE  /\ StackOk(stack') /\ KeepsTasks(stack') /\ ~ Nothing(stack', ToWait)
           /\ Depth > 1 /\ CallsPump(stack[Depth - 1])
           /\ \/ /\ haveWork' = FALSE /\ stack' = Popped /\ ~ TopIs(stack', "replace")
                 /\ UNCHANGED <<queue, timer>>
              \/ \E m \in AnyMessage \cup TimerMessage : Replacing(m)
<1>1. Depth > 0 /\ Depth \in Nat /\ Top = stack[Depth] /\ Top.at = "replace" /\ Depth = Len(stack)
      /\ FrameOk(stack, Depth)
  BY Pop DEF ProcessPumpReplacementMessage, AtTop, Top, Depth
<1>2. InRun /\ Depth # 1 /\ CallsPump(stack[Depth - 1])
  BY <1>1, TopFacts DEF FrameOk, CallsPump
<1>3. Depth > 1
  BY <1>1, <1>2, Positions
<1>4. /\ StackOk(Popped) /\ Len(Popped) = Depth - 1 /\ Busy(Popped) /\ KeepsTasks(Popped)
      /\ \A i \in 1..Depth - 1 : Popped[i] = stack[i]
  BY <1>1, Pop, PopEffect
<1>5. CASE haveWork' = FALSE /\ stack' = Popped /\ UNCHANGED <<queue, timer>>
  BY <1>2, <1>3, <1>4, <1>5 DEF Busy
<1>6. ASSUME NEW m \in AnyMessage \cup TimerMessage,
             haveWork' = TRUE, queue' = Append(m.queue, "have work"), timer' = m.timer,
             stack' = Handling([Popped EXCEPT ![Depth - 1].more = m.msg # "have work"], m.msg)
      PROVE  StackOk(stack') /\ KeepsTasks(stack') /\ ~ Nothing(stack', ToWait) /\ Replacing(m)
  <2> DEFINE s == [Popped EXCEPT ![Depth - 1].more = m.msg # "have work"]
  <2>1. PICK n \in Nat : n = Len(Popped) /\ n = Depth - 1 /\ n > 0 /\ n \in 1..n /\ 1 \in 1..n
    <3>1. Depth \in Nat /\ Depth > 1 /\ Len(Popped) = Depth - 1
      BY <1>1, <1>3, <1>4
    <3>2. QED
      BY ONLY <3>1
  <2>2. CallsPump(Popped[n])
    BY <1>2, <1>4, <2>1
  <2>3. s = [Popped EXCEPT ![Len(Popped)].more = m.msg # "have work"] /\ (m.msg # "have work") \in BOOLEAN
    BY <2>1
  <2>4. stack' = Handling(s, m.msg)
    BY <1>6
  <2> HIDE DEF s
  <2>5. /\ StackOk(s) /\ Len(s) = n /\ \A i \in 1..n : s[i].at = Popped[i].at
    <3>1. Len(Popped) > 0 /\ CallsPump(Popped[Len(Popped)]) /\ StackOk(Popped)
      BY <1>4, <2>1, <2>2
    <3>2. PICK b \in BOOLEAN : Remembers(s, Popped, b)
      BY <2>3 DEF Remembers
    <3>3. StackOk(s) /\ Len(s) = Len(Popped) /\ \A i \in 1..Len(Popped) : s[i].at = Popped[i].at
      BY ONLY <3>1, <3>2, Remember
    <3>4. QED
      BY <2>1, <3>3
  <2>6. \A i \in 1..n : s[i].at = stack[i].at
    BY <1>4, <2>1, <2>5
  <2>7. Handles(s, m.msg)
    BY <1>2, <2>1, <2>2, <2>5, <2>6, MessageFacts DEF Handles, LoopAt, InRun, CallsPump
  <2>8. StackOk(stack') /\ Handled(stack', s, m.msg)
    BY <2>1, <2>5, <2>4, <2>7, HandlingStep
  <2>9. /\ Len(stack') = n + 1 /\ \A i \in 1..n : stack'[i] = s[i]
        /\ HandlerOn(stack', m.msg)
    <3>1. InRun /\ Handled(stack', s, m.msg) /\ StackOk(s) /\ Len(s) > 0
      BY <1>2, <2>1, <2>5, <2>8
    <3>2. /\ Len(stack') = Len(s) + 1 /\ \A i \in 1..Len(s) : stack'[i] = s[i]
          /\ HandlerOn(stack', m.msg)
      BY ONLY <3>1, HandledEffect
    <3>3. QED
      BY <2>5, <3>2
  <2>10. Len(stack') = Depth /\ Depth # 1 /\ \A i \in 1..Depth - 1 : i \in 1..n
    <3>1. Depth \in Nat /\ n = Depth - 1 /\ Len(stack') = n + 1
      BY <1>1, <2>1, <2>9
    <3>2. n + 1 = Depth
      BY ONLY <3>1
    <3>3. QED
      BY <1>2, <2>1, <3>1, <3>2
  <2>11. Replacing(m)
    BY <1>6, <2>6, <2>9, <2>10 DEF Replacing, HandlerOn
  <2>12. ~ Nothing(stack', ToWait)
    BY <2>10 DEF Nothing
  <2>13. KeepsTasks(stack')
    <3>1. SUFFICES ASSUME NEW i \in 1..Depth, stack[i].at = "task"
                   PROVE  i \in 1..Len(stack') /\ stack'[i].at = "task"
      BY DEF KeepsTasks
    <3>2. i # Depth
      BY <1>1, <3>1
    <3>3. i \in 1..Depth - 1
      BY <1>1, <3>2
    <3>4. QED
      BY <2>6, <2>9, <2>10, <3>1, <3>3
  <2>14. QED
    BY <2>8, <2>11, <2>12, <2>13
<1>7. QED
  <2>1. \/ haveWork' = FALSE /\ stack' = Popped /\ UNCHANGED <<queue, timer>>
        \/ \E m \in AnyMessage \cup TimerMessage :
              /\ haveWork' = TRUE /\ queue' = Append(m.queue, "have work") /\ timer' = m.timer
              /\ stack' = Handling([Popped EXCEPT ![Depth - 1].more = m.msg # "have work"], m.msg)
    BY DEF ProcessPumpReplacementMessage, Replacement
  <2>2. QED
    BY <1>2, <1>3, <1>5, <1>6, <2>1

-----------------------------------------------------------------------------
(* The steps that go on in the activation on top, call from it or end it.   *)
Keeps == StackOk(stack') /\ KeepsTasks(stack') /\ ~ TopIs(stack', "replace")

(* Goto(at) from a position of DoRunLoop or of HandleTimerMessage.          *)
Next2(from, at) == \/ from \in LoopAt /\ at \in LoopAt
                   \/ from = "timer" /\ at = "timer end"

LEMMA GoesTo ==
    ASSUME StackOk(stack), Depth > 0, NEW at, Next2(Top.at, at), stack' = Goto(at)
    PROVE  /\ Keeps
           /\ \A ats \in SUBSET ToWait :
                 Nothing(stack', ats) <=>
                     /\ Depth = 1 /\ at \in ats
                     /\ at \in {"delayed", "delayed end"} => ~ Top.more
<1> DEFINE f == [Top EXCEPT !.at = at]
<1>1. Top \in Frames /\ at \in At /\ at # "replace"
  BY Pop DEF Next2, LoopAt, At
<1>2. /\ f \in Frames /\ f.at = at /\ f.more = Top.more /\ f.ops = Top.ops
      /\ f.task = Top.task
  BY <1>1 DEF Frames
<1>3. stack' = Become(f)
  BY DEF Goto
<1> HIDE DEF f
<1>4. GoesOn(f)
  BY <1>2 DEF GoesOn, Next2
<1>5. \A ats \in SUBSET ToWait : Nothing(<<f>>, ats) <=>
        at \in ats /\ (at \in {"delayed", "delayed end"} => ~ Top.more)
  BY <1>2 DEF Nothing
<1>6. QED
  BY <1>1, <1>2, <1>3, <1>4, <1>5, GotoEffect DEF Keeps

(* A call of a closure or handler.                                          *)
LEMMA CallEffect ==
    ASSUME StackOk(stack), NEW op, CanCall(op)
    PROVE  /\ Depth > 0 /\ Top.at \in {"task", "dispatch"} /\ Top \in Frames
           /\ StackOk(Called(op)) /\ KeepsTasks(Called(op)) /\ ~ TopIs(Called(op), "replace")
           /\ ~ Nothing(Called(op), ToWait) /\ Len(Called(op)) = Depth
           /\ Called(op)[Depth].at = Top.at /\ \A i \in 1..Depth - 1 : Called(op)[i] = stack[i]
<1> DEFINE f == [Top EXCEPT !.ops = @ \ {op}]
<1>1. Depth > 0 /\ Top.at \in {"task", "dispatch"} /\ Top \in Frames
  BY Pop, TopFacts DEF CanCall
<1>2. /\ f \in Frames /\ f.at = Top.at /\ f.more = Top.more /\ f.ops = Top.ops \ {op}
      /\ f.task = Top.task
  BY <1>1 DEF Frames
<1>3. Called(op) = Become(f)
  BY DEF Called
<1> HIDE DEF f
<1>4. GoesOn(f) /\ f.at # "replace"
  BY <1>1, <1>2 DEF GoesOn
<1>5. ~ Nothing(<<f>>, ToWait)
  BY <1>1, <1>2 DEF Nothing, ToWait, AfterDelayed
<1>6. ToWait \in SUBSET ToWait
  OBVIOUS
<1>7. Replaced(Become(f), f)
  BY <1>1, <1>2, <1>4, GotoStep
<1>8. QED
  BY <1>1, <1>2, <1>3, <1>4, <1>5, <1>6, <1>7, GotoEffect DEF Replaced

LEMMA EndDoWorkStep ==
    ASSUME StackOk(stack), NestingInv, EndDoWork
    PROVE  /\ Keeps /\ ~ Nothing(stack', AfterDelayed)
           /\ Nothing(stack', ToWait) => Entries = << >>
<1>1. Depth > 0 /\ Top.at \in {"work", "have work"} /\ Top = stack[Depth]
  BY DEF EndDoWork, AtDoWork, AtTop, Top
<1>2. CASE Top.at = "work"
  <2>1. stack' = Goto("delayed")
    BY <1>2 DEF EndDoWork
  <2>2. Next2(Top.at, "delayed")
    BY <1>2 DEF Next2, LoopAt
  <2>3. Keeps /\ ~ Nothing(stack', AfterDelayed)
    <3>1. AfterDelayed \in SUBSET ToWait /\ "delayed" \notin AfterDelayed
      BY DEF ToWait, AfterDelayed
    <3>2. QED
      BY <1>1, <2>1, <2>2, <3>1, GoesTo
  <2>4. nestableAllowed
    BY <1>1, <1>2, TopFacts DEF NestingInv, LoopAt
  <2>5. QED
    BY <2>3, <2>4 DEF EndDoWork
<1>3. CASE Top.at # "work"
  <2>1. stack' = Popped
    BY <1>3 DEF EndDoWork
  <2>2. Keeps /\ ~ Nothing(stack', ToWait)
    BY <1>1, <2>1, PopEffect DEF Keeps, Busy
  <2>3. QED
    BY <2>2 DEF Nothing, ToWait
<1>4. QED
  BY <1>2, <1>3

(* DoDelayedWork returns without having run a task.                         *)
LEMMA NoDelayedWorkStep ==
    ASSUME StackOk(stack), NestingInv, AtDoDelayedWork, NoDelayedWork
    PROVE  Keeps /\ (Nothing(stack', ToWait) => FoundNothing({"delayed"}) /\ nestableAllowed)
<1>1. Depth > 0 /\ Top.at \in {"delayed", "timer"} /\ Top = stack[Depth]
  BY DEF AtDoDelayedWork, AtTop, Top
<1>2. CASE Top.at = "timer"
  <2>1. stack' = Goto("timer end") /\ Next2(Top.at, "timer end") /\ ToWait \in SUBSET ToWait
    BY <1>2 DEF NoDelayedWork, Next2
  <2>2. "timer end" \notin ToWait
    BY DEF ToWait, AfterDelayed
  <2>3. QED
    BY <1>1, <2>1, <2>2, GoesTo
<1>3. CASE Top.at = "delayed"
  <2>1. stack' = Goto("delayed end") /\ Next2(Top.at, "delayed end") /\ ToWait \in SUBSET ToWait
    BY <1>3 DEF NoDelayedWork, Next2, LoopAt
  <2>2. Keeps /\ (Nothing(stack', ToWait) => ~ Top.more)
    BY <1>1, <2>1, GoesTo
  <2>3. Depth = 1
    BY <1>1, <1>3, TopFacts DEF LoopAt
  <2>4. nestableAllowed
    BY <1>1, <1>3, <2>3 DEF NestingInv
  <2>5. ~ Top.more => FoundNothing({"delayed"})
    BY <1>1, <1>3, <2>3 DEF FoundNothing, Nothing, Depth
  <2>6. QED
    BY <2>2, <2>4, <2>5
<1>4. QED
  BY <1>1, <1>2, <1>3

LEMMA EndDoDelayedWorkStep ==
    ASSUME StackOk(stack), EndDoDelayedWork
    PROVE  Keeps /\ (Nothing(stack', ToWait) => FoundNothing({"delayed end"}))
<1>1. Depth > 0 /\ Top.at = "delayed end" /\ Top = stack[Depth] /\ ToWait \in SUBSET ToWait
  BY DEF EndDoDelayedWork, AtTop, Top
<1>2. Depth = 1
  BY <1>1, TopFacts DEF LoopAt
<1>3. CASE Top.more
  <2>1. stack' = Goto("message") /\ Next2(Top.at, "message")
    BY <1>1, <1>3 DEF EndDoDelayedWork, Next2, LoopAt
  <2>2. "message" \notin ToWait
    BY DEF ToWait, AfterDelayed
  <2>3. QED
    BY <1>1, <2>1, <2>2, GoesTo
<1>4. CASE ~ Top.more
  <2>1. stack' = Goto("idle") /\ Next2(Top.at, "idle")
    BY <1>1, <1>4 DEF EndDoDelayedWork, Next2, LoopAt
  <2>2. FoundNothing({"delayed end"})
    BY <1>1, <1>2, <1>4 DEF FoundNothing, Nothing, Depth
  <2>3. QED
    BY <1>1, <2>1, <2>2, GoesTo
<1>5. QED
  BY <1>3, <1>4

LEMMA DoIdleWorkStep ==
    ASSUME StackOk(stack), DoIdleWork
    PROVE  Keeps /\ (Nothing(stack', ToWait) => FoundNothing({"idle"}))
<1>1. Depth > 0 /\ Top.at = "idle" /\ Top = stack[Depth] /\ ToWait \in SUBSET ToWait
  BY DEF DoIdleWork, AtTop, Top
<1>2. Depth = 1
  BY <1>1, TopFacts DEF LoopAt
<1>3. CASE stack' = Popped
  BY <1>1, <1>3, PopEffect DEF Keeps, Busy
<1>4. CASE stack' = Goto("wait")
  <2>1. Next2(Top.at, "wait")
    BY <1>1 DEF Next2, LoopAt
  <2>2. FoundNothing({"idle"})
    BY <1>1, <1>2 DEF FoundNothing, Nothing, Depth
  <2>3. QED
    BY <1>1, <1>4, <2>1, <2>2, GoesTo
<1>5. QED
  BY <1>3, <1>4 DEF DoIdleWork

LEMMA WaitForWorkStep ==
    ASSUME StackOk(stack), WaitForWork \/ MouseElsewhere \/ WaitMessage
    PROVE  Keeps /\ ~ Nothing(stack', ToWait)
<1>1. /\ Depth > 0 /\ Top.at \in {"wait", "wait message"} /\ ToWait \in SUBSET ToWait
      /\ \E at \in {"message", "wait message"} : stack' = Goto(at)
  BY DEF WaitForWork, MouseElsewhere, WaitMessage, AtTop
<1>2. PICK at \in {"message", "wait message"} : stack' = Goto(at)
  BY <1>1
<1>3. Next2(Top.at, at) /\ at \notin ToWait
  BY <1>1 DEF Next2, LoopAt, ToWait, AfterDelayed
<1>4. QED
  BY <1>1, <1>2, <1>3, GoesTo

LEMMA RunStep ==
    ASSUME Run
    PROVE  Keeps /\ ~ Nothing(stack', ToWait)
<1>1. Depth = 0 /\ stack' = << Frame("message") >>
  BY DEF Run
<1>2. Frame("message") \in Frames /\ Frame("message").at = "message" /\ Frame("message").ops = {}
  BY FrameTypes DEF Frame, At, LoopAt
<1> DEFINE s == << Frame("message") >>
<1>3. s \in Seq(Frames) /\ Len(s) = 1 /\ s[1] = Frame("message")
  BY <1>2
<1> HIDE DEF s
<1>4. StackOk(s)
  <2>1. FrameOk(s, 1)
    BY <1>2, <1>3 DEF FrameOk, LoopAt
  <2>2. \A i \in 1..1 : i = 1
    OBVIOUS
  <2>3. QED
    BY <1>3, <2>1, <2>2 DEF StackOk
<1>5. ~ TopIs(s, "replace") /\ ~ Nothing(s, ToWait)
  BY <1>2, <1>3 DEF TopIs, Nothing, ToWait, AfterDelayed
<1>6. KeepsTasks(s)
  BY <1>1 DEF KeepsTasks
<1>7. QED
  BY <1>1, <1>4, <1>5, <1>6 DEF Keeps, s

LEMMA EnterModalLoopStep ==
    ASSUME StackOk(stack), NEW told \in BOOLEAN, EnterModalLoop(told)
    PROVE  Keeps /\ ~ Nothing(stack', ToWait)
<1>1. Frame("modal") \in Frames /\ Frame("modal").at = "modal" /\ Frame("modal").ops = {}
  BY FrameTypes DEF Frame, At
<1>2. CASE Depth = 0 /\ stack' = << Frame("modal") >>
  <2> DEFINE s == << Frame("modal") >>
  <2>1. s \in Seq(Frames) /\ Len(s) = 1 /\ s[1] = Frame("modal")
    BY <1>1
  <2> HIDE DEF s
  <2>2. StackOk(s)
    <3>1. FrameOk(s, 1)
      BY <1>1, <2>1 DEF FrameOk, LoopAt
    <3>2. \A i \in 1..1 : i = 1
      OBVIOUS
    <3>3. QED
      BY <2>1, <3>1, <3>2 DEF StackOk
  <2>3. ~ TopIs(s, "replace") /\ ~ Nothing(s, ToWait)
    BY <1>1, <2>1 DEF TopIs, Nothing, ToWait, AfterDelayed
  <2>4. KeepsTasks(s)
    BY <1>2 DEF KeepsTasks
  <2>5. QED
    BY <1>2, <2>2, <2>3, <2>4 DEF Keeps, s
<1>3. CASE CanCall("Modal") /\ stack' = Append(Called("Modal"), Frame("modal"))
  <2> DEFINE s == Called("Modal")
  <2>1. /\ Depth > 0 /\ Top.at \in {"task", "dispatch"} /\ StackOk(s) /\ KeepsTasks(s)
        /\ Len(s) = Depth /\ s[Depth].at = Top.at
    BY <1>3, CallEffect
  <2>2. stack' = Append(s, Frame("modal"))
    BY <1>3
  <2> HIDE DEF s
  <2>3. StackOk(s) /\ Len(s) > 0 /\ s[Len(s)].at = Top.at
    BY <2>1
  <2>4. Fits(Frame("modal"), s[Len(s)], s[1])
    BY <1>1, <2>1, <2>3 DEF Fits, LoopAt
  <2>5. StackOk(stack')
    BY <1>1, <2>2, <2>3, <2>4, PushTop
  <2>6. s \in Seq(Frames)
    BY <2>3 DEF StackOk
  <2>7. /\ Len(stack') = Len(s) + 1 /\ stack'[Len(s) + 1] = Frame("modal") /\ Len(s) \in Nat
        /\ \A i \in 1..Len(s) : stack'[i] = s[i]
    BY <1>1, <2>2, <2>6, Push
  <2>8. ~ TopIs(stack', "replace")
    BY <1>1, <2>7 DEF TopIs
  <2>9. Len(stack') # 1 /\ \A i \in 1..Len(s) : i \in 1..Len(stack')
    BY <2>3, <2>7
  <2>10. KeepsTasks(stack')
    BY <2>1, <2>7, <2>9 DEF KeepsTasks
  <2>11. QED
    BY <2>5, <2>8, <2>9, <2>10 DEF Keeps, Nothing
<1>4. QED
  BY <1>2, <1>3 DEF EnterModalLoop

LEMMA ProcessNextEffect ==
    ASSUME TypeOK, StackOk(stack), ProcessNextWindowsMessage
    PROVE  /\ StackOk(stack') /\ KeepsTasks(stack') /\ ~ Nothing(stack', ToWait)
           /\ \/ UNCHANGED <<queue, timer>> /\ ~ TopIs(stack', "replace")
              \/ \E m \in AnyMessage :
                    /\ queue' = m.queue /\ timer' = m.timer
                    /\ TopIs(stack', "replace") <=> m.msg = "have work"
<1>1. /\ Depth = 1 /\ stack[1].at = "message" /\ StackOk(stack') /\ stack'[1].at = "work"
      /\ \/ UNCHANGED <<queue, timer>> /\ Len(stack') = 1
         \/ \E m \in AnyMessage :
               /\ queue' = m.queue /\ timer' = m.timer /\ Len(stack') = 2
               /\ stack'[2].at = "replace" <=> m.msg = "have work"
  BY ProcessNextStep
<1>2. KeepsTasks(stack') /\ ~ Nothing(stack', ToWait)
  <2>1. ~ Nothing(stack', ToWait)
    BY <1>1 DEF Nothing, ToWait, AfterDelayed
  <2>2. \A i \in 1..Depth : i = 1
    <3>1. Depth = 1
      BY <1>1
    <3>2. QED
      BY ONLY <3>1
  <2>3. QED
    BY <1>1, <2>1, <2>2 DEF KeepsTasks
<1>3. CASE UNCHANGED <<queue, timer>> /\ Len(stack') = 1
  <2>1. ~ TopIs(stack', "replace")
    BY <1>1, <1>3 DEF TopIs
  <2>2. QED
    BY <1>1, <1>2, <1>3, <2>1
<1>4. ASSUME NEW m \in AnyMessage, queue' = m.queue, timer' = m.timer, Len(stack') = 2,
             stack'[2].at = "replace" <=> m.msg = "have work"
      PROVE  TopIs(stack', "replace") <=> m.msg = "have work"
  <2>1. Len(stack') > 0 /\ stack'[Len(stack')] = stack'[2]
    <3>1. Len(stack') = 2
      BY <1>4
    <3>2. QED
      BY ONLY <3>1
  <2>2. QED
    BY <1>4, <2>1 DEF TopIs
<1>5. QED
  BY <1>1, <1>2, <1>3, <1>4

-----------------------------------------------------------------------------
(* Queues of messages.                                                      *)
Messages == {"have work", "input"}

LEMMA TakenFirst ==
    ASSUME NEW q \in Seq(Messages), q # << >>
    PROVE  /\ None(q) => Head(q) # "have work" /\ None(Tail(q))
           /\ One(q) => IF Head(q) = "have work" THEN None(Tail(q)) ELSE One(Tail(q))
<1>1. /\ Len(q) \in Nat /\ 1 \in 1..Len(q) /\ Head(q) = q[1] /\ Len(Tail(q)) = Len(q) - 1
      /\ \A i \in 1..Len(Tail(q)) : Tail(q)[i] = q[i + 1]
      /\ \A i \in 1..Len(Tail(q)) : i + 1 \in 1..Len(q) /\ i + 1 # 1
  OBVIOUS
<1>2. None(q) => Head(q) # "have work" /\ None(Tail(q))
  BY <1>1 DEF None
<1>3. ASSUME NEW i \in 1..Len(q), q[i] = "have work",
             \A j \in 1..Len(q) : q[j] = "have work" => j = i
      PROVE  IF Head(q) = "have work" THEN None(Tail(q)) ELSE One(Tail(q))
  <2>1. CASE Head(q) = "have work"
    <3>1. i = 1
      BY <1>1, <1>3, <2>1
    <3>2. None(Tail(q))
      BY <1>1, <1>3, <3>1 DEF None
    <3>3. QED
      BY <2>1, <3>2
  <2>2. CASE Head(q) # "have work"
    <3>1. i # 1
      BY <1>1, <1>3, <2>2
    <3>2. i - 1 \in 1..Len(Tail(q)) /\ i - 1 + 1 = i
      BY <1>1, <3>1
    <3>3. \A j \in 1..Len(Tail(q)) : j + 1 = i => j = i - 1
      BY <1>1
    <3>4. /\ Tail(q)[i - 1] = "have work"
          /\ \A j \in 1..Len(Tail(q)) : Tail(q)[j] = "have work" => j = i - 1
      <4>1. Tail(q)[i - 1] = q[i]
        BY <1>1, <3>2
      <4>2. ASSUME NEW j \in 1..Len(Tail(q)), Tail(q)[j] = "have work" PROVE j = i - 1
        <5>1. q[j + 1] = "have work" /\ j + 1 \in 1..Len(q)
          BY <1>1, <4>2
        <5>2. j + 1 = i
          BY <1>3, <5>1
        <5>3. QED
          BY <3>3, <5>2
      <4>3. QED
        BY <1>3, <4>1, <4>2
    <3>5. One(Tail(q))
      BY <3>2, <3>4 DEF One
    <3>6. QED
      BY <2>2, <3>5
  <2>3. QED
    BY <2>1, <2>2
<1>4. QED
  BY <1>2, <1>3 DEF One

LEMMA Posted1 ==
    ASSUME NEW q \in Seq(Messages)
    PROVE  /\ None(q) => One(Append(q, "have work")) /\ None(Append(q, "input"))
           /\ One(q) => One(Append(q, "input"))
<1>1. ASSUME NEW e \in Messages
      PROVE  /\ Len(Append(q, e)) = Len(q) + 1 /\ Append(q, e)[Len(q) + 1] = e
             /\ \A i \in 1..Len(q) : Append(q, e)[i] = q[i] /\ i \in 1..Len(q) + 1
             /\ \A i \in 1..Len(q) + 1 : i = Len(q) + 1 \/ i \in 1..Len(q)
             /\ Len(q) + 1 \in 1..Len(q) + 1
  OBVIOUS
<1>2. "have work" \in Messages /\ "input" \in Messages
  BY DEF Messages
<1>3. None(q) => One(Append(q, "have work"))
  <2>1. SUFFICES ASSUME None(q) PROVE One(Append(q, "have work"))
    OBVIOUS
  <2>2. PICK n : n = Len(q) + 1
    OBVIOUS
  <2>3. /\ Len(Append(q, "have work")) = n /\ n \in 1..n /\ Append(q, "have work")[n] = "have work"
        /\ \A i \in 1..n : i # n => Append(q, "have work")[i] = q[i] /\ i \in 1..Len(q)
    BY <1>1, <1>2, <2>2
  <2>4. \A i \in 1..n : Append(q, "have work")[i] = "have work" => i = n
    BY <2>1, <2>3 DEF None
  <2>5. QED
    BY <2>3, <2>4 DEF One
<1>4. None(q) => None(Append(q, "input"))
  BY <1>1, <1>2 DEF None
<1>5. One(q) => One(Append(q, "input"))
  <2>1. SUFFICES ASSUME NEW i \in 1..Len(q), q[i] = "have work",
                        \A j \in 1..Len(q) : q[j] = "have work" => j = i
                 PROVE  One(Append(q, "input"))
    BY DEF One
  <2>2. PICK n : n = Len(q) + 1
    OBVIOUS
  <2>3. /\ Len(Append(q, "input")) = n /\ Append(q, "input")[n] = "input"
        /\ \A j \in 1..n : j # n => Append(q, "input")[j] = q[j] /\ j \in 1..Len(q)
        /\ i \in 1..n /\ Append(q, "input")[i] = q[i]
    BY <1>1, <1>2, <2>2
  <2>4. \A j \in 1..n : Append(q, "input")[j] = "have work" => j = i
    BY <2>1, <2>3
  <2>5. QED
    BY <2>1, <2>3, <2>4 DEF One
<1>6. QED
  BY <1>3, <1>4, <1>5

LEMMA Taken ==
    ASSUME TypeOK, NEW m \in AnyMessage \cup TimerMessage
    PROVE  /\ m.queue \in Seq(Messages)
           /\ None(queue) => m.msg # "have work" /\ None(m.queue)
           /\ One(queue) => IF m.msg = "have work" THEN None(m.queue) ELSE One(m.queue)
<1>1. queue \in Seq(Messages)
  BY DEF TypeOK, Messages
<1>2. CASE m.msg = "timer" /\ m.queue = queue
  BY <1>1, <1>2
<1>3. CASE queue # << >> /\ m.msg = Head(queue) /\ m.queue = Tail(queue)
  BY <1>1, <1>3, TakenFirst, MessageFacts DEF Messages
<1>4. QED
  BY <1>2, <1>3, MessageFacts

LEMMA SendsSame ==
    ASSUME poster \in [Posters -> {"idle", "schedule", "post"}],
           NEW p \in Posters, poster[p] # "post", NEW w, w # "post",
           poster' = [poster EXCEPT ![p] = w]
    PROVE  (NoneSends' <=> NoneSends) /\ (OneSends' <=> OneSends)
<1>1. \A o \in Posters : poster'[o] = "post" <=> poster[o] = "post"
  OBVIOUS
<1>2. QED
  BY <1>1 DEF NoneSends, OneSends

-----------------------------------------------------------------------------
(* One message at a time.                                                   *)

LEMMA MessageSame ==
    ASSUME MessageInv, UNCHANGED <<haveWork, queue, poster>>, ~ AtTop("replace"),
           ~ TopIs(stack', "replace")
    PROVE  MessageInv'
BY DEF MessageInv, NoneSends, OneSends, AtTop, TopIs, Depth, Top

LEMMA MessageScheduled ==
    ASSUME TypeOK, MessageInv, ScheduleWork(queue), UNCHANGED poster, ~ AtTop("replace"),
           ~ TopIs(stack', "replace")
    PROVE  MessageInv'
<1>1. queue \in Seq(Messages)
  BY DEF TypeOK, Messages
<1>2. ~ AtTop("replace")'
  BY DEF AtTop, TopIs, Depth, Top
<1>3. (NoneSends' <=> NoneSends) /\ (OneSends' <=> OneSends)
  BY DEF NoneSends, OneSends
<1>4. haveWork' /\ queue' = IF haveWork THEN queue ELSE Append(queue, "have work")
  BY DEF ScheduleWork
<1>5. CASE haveWork
  <2>1. queue' = queue
    BY <1>4, <1>5
  <2>2. QED
    BY <1>2, <1>3, <1>4, <1>5, <2>1 DEF MessageInv
<1>6. CASE ~ haveWork
  <2>1. queue' = Append(queue, "have work") /\ None(queue) /\ NoneSends
    BY <1>4, <1>6 DEF MessageInv
  <2>2. One(queue')
    BY <1>1, <2>1, Posted1
  <2>3. QED
    BY <1>2, <1>3, <1>4, <2>1, <2>2 DEF MessageInv
<1>7. QED
  BY <1>5, <1>6

LEMMA MessageDispatched ==
    ASSUME TypeOK, MessageInv, NEW m \in AnyMessage, ~ AtTop("replace"), UNCHANGED poster,
           queue' = m.queue, NEW run \in BOOLEAN,
           haveWork' = (haveWork /\ (m.msg = "have work" => run)),
           TopIs(stack', "replace") <=> m.msg = "have work" /\ run
    PROVE  MessageInv'
<1>1. AtTop("replace")' <=> m.msg = "have work" /\ run
  BY DEF AtTop, TopIs, Depth, Top
<1>2. (NoneSends' <=> NoneSends) /\ (OneSends' <=> OneSends)
  BY DEF NoneSends, OneSends
<1>3. /\ None(queue) => m.msg # "have work" /\ None(queue')
      /\ One(queue) => IF m.msg = "have work" THEN None(queue') ELSE One(queue')
  BY Taken
<1>4. haveWork \in BOOLEAN
  BY DEF TypeOK
<1>5. QED
  BY <1>1, <1>2, <1>3, <1>4 DEF MessageInv

-----------------------------------------------------------------------------
(* The top of the delayed queue.                                            *)

LEMMA LeastNatural ==
    ASSUME NEW S, S \subseteq Nat, S # {}
    PROVE  \E m \in S : \A n \in S : m <= n
<1>1. PICK m \in S : \A n \in S : <<n, m>> \notin OpToRel(<, Nat)
  BY WFMin, NatLessThanWellFounded
<1>2. ASSUME NEW n \in S PROVE m <= n
  <2>1. m \in Nat /\ n \in Nat
    OBVIOUS
  <2>2. ~ (n < m)
    BY <1>1, <2>1 DEF OpToRel
  <2>3. QED
    BY <2>1, <2>2
<1>3. QED
  BY <1>2

LEMMA EarliestIsFirst ==
    ASSUME NEW q, q \subseteq DelayedEntry, q # {}
    PROVE  /\ Earliest(q) \in q /\ \A f \in q : Earliest(q).time <= f.time
           /\ \A f \in q : Earliest(q).time = f.time => Earliest(q).seq <= f.seq
<1> DEFINE Times == {e.time : e \in q}
<1>1. PICK t \in Times : \A n \in Times : t <= n
  <2>1. Times # {} /\ Times \subseteq Nat
    BY DEF DelayedEntry
  <2>2. QED
    BY <2>1, LeastNatural
<1> DEFINE Seqs == {e.seq : e \in {f \in q : f.time = t}}
<1>2. PICK n \in Seqs : \A k \in Seqs : n <= k
  <2>1. Seqs # {} /\ Seqs \subseteq Nat
    BY <1>1 DEF DelayedEntry
  <2>2. QED
    BY <2>1, LeastNatural
<1>3. PICK e \in q : e.time = t /\ e.seq = n
  OBVIOUS
<1>4. ASSUME NEW f \in q
      PROVE  e.time < f.time \/ (e.time = f.time /\ e.seq <= f.seq)
  <2>1. f.time \in Nat /\ e.time \in Nat /\ e.time <= f.time
    BY <1>1, <1>3 DEF DelayedEntry
  <2>2. f.time = e.time => e.seq <= f.seq
    BY <1>2, <1>3
  <2>3. QED
    BY <2>1, <2>2
<1>5. Earliest(q) \in q /\ \A f \in q : \/ Earliest(q).time < f.time
                                        \/ Earliest(q).time = f.time /\ Earliest(q).seq <= f.seq
  BY <1>4 DEF Earliest
<1>6. ASSUME NEW f \in q PROVE Earliest(q).time <= f.time
  <2>1. Earliest(q).time \in Nat /\ f.time \in Nat
    BY <1>5 DEF DelayedEntry
  <2>2. QED
    BY <1>5, <2>1
<1>7. ASSUME NEW f \in q, Earliest(q).time = f.time PROVE Earliest(q).seq <= f.seq
  <2>1. Earliest(q).time \in Nat /\ f.time \in Nat
    BY <1>5 DEF DelayedEntry
  <2>2. QED
    BY <1>5, <1>7, <2>1
<1>8. QED
  BY <1>5, <1>6, <1>7

LEMMA Types ==
    ASSUME TypeOK
    PROVE  /\ incoming \in Seq(Entry) /\ work \in Seq(Entry) /\ delayed \subseteq DelayedEntry
           /\ nextSeq \in Nat /\ now \in Nat /\ timer \in Nat /\ delayedWorkTime \in Nat
           /\ nestableAllowed \in BOOLEAN /\ quitReceived \in BOOLEAN
           /\ osModal \in BOOLEAN /\ haveWork \in BOOLEAN
           /\ stack \in Seq(Frames) /\ queue \in Seq(Messages)
           /\ poster \in [Posters -> {"idle", "schedule", "post"}]
           /\ work # << >> => Head(work) \in Entry /\ Tail(work) \in Seq(Entry)
           /\ delayed # {} => Earliest(delayed) \in delayed
<1>1. work \in Seq(Entry) /\ delayed \subseteq DelayedEntry
  BY DEF TypeOK, Entry, DelayedEntry
<1>2. work # << >> => Head(work) \in Entry /\ Tail(work) \in Seq(Entry)
  BY <1>1, HeadTailProperties
<1>3. delayed # {} => Earliest(delayed) \in delayed
  BY <1>1, EarliestIsFirst
<1>4. QED
  BY <1>1, <1>2, <1>3 DEF TypeOK, Entry, Frames, Ops, Messages

-----------------------------------------------------------------------------
(* What every step leaves of the stack.                                     *)

LEMMA RunWorkStep ==
    ASSUME TypeOK, StackOk(stack), RunWork
    PROVE  StackOk(stack') /\ Busy(stack') /\ \E i \in 1..Len(stack') : stack'[i].at = "task"
<1>1. Depth > 0 /\ Top.at # "timer" /\ work # << >> /\ RunTask(Head(work).task) /\ AtDoWork
  BY DEF RunWork, AtDoWork, AtTop
<1>2. Head(work).task \in Tasks
  BY <1>1, Types DEF Entry
<1>3. QED
  BY <1>1, <1>2, RunTaskEffect

LEMMA RunDelayedWorkStep ==
    ASSUME TypeOK, TimesInv, StackOk(stack), RunDelayedWork
    PROVE  StackOk(stack') /\ Busy(stack') /\ \E i \in 1..Len(stack') : stack'[i].at = "task"
<1>1. Depth > 0 /\ delayed # {} /\ RunTask(Earliest(delayed).task) /\ AtDoDelayedWork
  BY DEF RunDelayedWork, AtDoDelayedWork, AtTop
<1>2. Earliest(delayed) \in delayed
  BY <1>1, Types
<1>3. Earliest(delayed).task \in Delayed /\ Earliest(delayed).task \in Tasks
  BY <1>2, TasksAssumption DEF TimesInv
<1>4. QED
  BY <1>1, <1>3, RunTaskEffect

LEMMA StackInductive ==
    ASSUME IInv, Next
    PROVE  StackOk(stack')
<1>1. TypeOK /\ StackOk(stack) /\ NestingInv /\ TimesInv
  BY DEF IInv
<1>2. ASSUME NEW p \in Posters, PosterStep(p) PROVE StackOk(stack')
  BY <1>1, <1>2 DEF PosterStep, PostTask, ExchangeHaveWork, PostHaveWork
<1>3. CASE UserInput \/ Tick \/ ReloadWorkQueue \/ AddToDelayedWorkQueue
  BY <1>1, <1>3 DEF UserInput, Tick, ReloadWorkQueue, AddToDelayedWorkQueue
<1>4. CASE Run
  BY <1>4, RunStep DEF Keeps
<1>5. ASSUME NEW told \in BOOLEAN, EnterModalLoop(told) PROVE StackOk(stack')
  BY <1>1, <1>5, EnterModalLoopStep DEF Keeps
<1>6. CASE AllowNestableTasks \/ Quit
  BY <1>1, <1>6, CallEffect DEF AllowNestableTasks, Quit
<1>7. CASE ProcessNextWindowsMessage
  BY <1>1, <1>7, ProcessNextEffect
<1>8. CASE DispatchInModalLoop
  BY <1>1, <1>8, DispatchStep
<1>9. CASE ProcessPumpReplacementMessage
  BY <1>1, <1>9, ReplacementStep
<1>10. CASE FinishDispatch \/ EndHandleWorkMessage \/ EndHandleTimerMessage
            \/ LeaveModalLoop \/ FinishTask
  BY <1>1, <1>10, PopEffect
     DEF FinishDispatch, EndHandleWorkMessage, EndHandleTimerMessage, LeaveModalLoop,
         FinishTask, AtTop
<1>11. CASE RunWork
  BY <1>1, <1>11, RunWorkStep
<1>12. CASE RunDelayedWork
  BY <1>1, <1>12, RunDelayedWorkStep
<1>13. CASE EndDoWork
  BY <1>1, <1>13, EndDoWorkStep DEF Keeps
<1>14. CASE SkipDelayedWork \/ AwaitDelayedWork
  BY <1>1, <1>14, NoDelayedWorkStep DEF Keeps, SkipDelayedWork, AwaitDelayedWork
<1>15. CASE EndDoDelayedWork
  BY <1>1, <1>15, EndDoDelayedWorkStep DEF Keeps
<1>16. CASE DoIdleWork
  BY <1>1, <1>16, DoIdleWorkStep DEF Keeps
<1>17. CASE WaitForWork \/ MouseElsewhere \/ WaitMessage
  BY <1>1, <1>17, WaitForWorkStep DEF Keeps
<1>18. QED
  BY <1>2, <1>3, <1>4, <1>5, <1>6, <1>7, <1>8, <1>9, <1>10, <1>11, <1>12, <1>13, <1>14, <1>15,
     <1>16, <1>17 DEF Next, ProgramCall, LoopStep

-----------------------------------------------------------------------------
(* Types.                                                                   *)

LEMMA AppendType ==
    ASSUME NEW S, NEW q \in Seq(S), NEW e \in S
    PROVE  Append(q, e) \in Seq(S)
  OBVIOUS

LEMMA TypeInductive ==
    ASSUME IInv, Next, StackOk(stack')
    PROVE  TypeOK'
<1>1. TypeOK /\ StackOk(stack) /\ TimesInv
  BY DEF IInv
<1> DEFINE StackType == Seq([at : At, task : Tasks \cup {NoTask},
                             ops : SUBSET {"Allow", "Modal", "Quit"}, more : BOOLEAN])
<1>2. stack' \in StackType
  BY DEF StackOk, Frames, Ops
<1> HIDE DEF StackType
<1>3. Delay \in [Tasks -> Nat] /\ MaxInput \in Nat
  BY TasksAssumption, BoundsAssumption
<1>4. \A m \in AnyMessage \cup TimerMessage :
         m.timer \in Nat /\ m.queue \in Seq({"have work", "input"})
  BY <1>1, MessageFacts
<1>5. \A q \in Seq({"have work", "input"}) :
         /\ Append(q, "have work") \in Seq({"have work", "input"})
         /\ Append(q, "input") \in Seq({"have work", "input"})
  <2>1. "have work" \in {"have work", "input"} /\ "input" \in {"have work", "input"}
    OBVIOUS
  <2>2. QED
    BY <2>1, AppendType
<1>6. /\ work # << >> => Head(work) \in Entry /\ Tail(work) \in Seq(Entry)
      /\ delayed # {} => Earliest(delayed) \in DelayedEntry
      /\ delayed \subseteq DelayedEntry
  BY <1>1, Types
<1>7. ScheduleWork(queue) => haveWork' \in BOOLEAN /\ queue' \in Seq({"have work", "input"})
  <2>1. queue \in Seq({"have work", "input"})
    BY <1>1 DEF TypeOK
  <2>2. Append(queue, "have work") \in Seq({"have work", "input"})
    BY ONLY <1>5, <2>1
  <2>3. QED
    BY <2>1, <2>2 DEF ScheduleWork
<1>8. \A time \in Nat : ScheduleDelayedWork(time) => delayedWorkTime' \in Nat /\ timer' \in Nat
  BY <1>1 DEF ScheduleDelayedWork, TypeOK
<1>9. ASSUME NEW p \in Posters, PosterStep(p) PROVE TypeOK'
  <2>1. ASSUME NEW t \in Tasks, PostTask(p, t) PROVE TypeOK'
    <3>1. PICK e : /\ incoming' = Append(incoming, e) /\ order' = Append(order, e)
                   /\ e = [task |-> t, time |-> IF t \in Delayed THEN now + Delay[t] ELSE 0]
      BY <2>1 DEF PostTask
    <3>2. now \in Nat /\ Delay[t] \in Nat
      BY <1>1, <1>3 DEF TypeOK
    <3>3. e \in [task : Tasks, time : Nat]
      BY ONLY <3>1, <3>2
    <3>4. incoming \in Seq([task : Tasks, time : Nat]) /\ order \in Seq([task : Tasks, time : Nat])
      BY <1>1 DEF TypeOK
    <3>5. incoming' \in Seq([task : Tasks, time : Nat]) /\ order' \in Seq([task : Tasks, time : Nat])
      BY ONLY <3>1, <3>3, <3>4, AppendType
    <3>6. QED
      BY <1>1, <1>2, <2>1, <3>5 DEF PostTask, TypeOK, loopVars, modeVars, timeVars, StackType
  <2>2. CASE ExchangeHaveWork(p)
    BY <1>1, <2>2 DEF ExchangeHaveWork, TypeOK, loopVars, modeVars, timeVars
  <2>3. CASE PostHaveWork(p)
    <3>1. queue \in Seq({"have work", "input"}) /\ queue' = Append(queue, "have work")
      BY <1>1, <2>3 DEF PostHaveWork, TypeOK
    <3>2. queue' \in Seq({"have work", "input"})
      BY ONLY <1>5, <3>1
    <3>3. QED
      BY <1>1, <2>3, <3>2 DEF PostHaveWork, TypeOK, loopVars, modeVars, timeVars
  <2>4. QED
    BY <1>9, <2>1, <2>2, <2>3 DEF PosterStep
<1>10. CASE UserInput
  <2>1. inputs' \in 0..MaxInput /\ queue' \in Seq({"have work", "input"})
    <3>1. queue \in Seq({"have work", "input"}) /\ queue' = Append(queue, "input")
      BY <1>1, <1>10 DEF UserInput, TypeOK
    <3>2. queue' \in Seq({"have work", "input"})
      BY ONLY <1>5, <3>1
    <3>3. inputs \in 0..MaxInput /\ inputs < MaxInput /\ inputs' = inputs + 1 /\ MaxInput \in Nat
      BY <1>1, <1>3, <1>10 DEF UserInput, TypeOK
    <3>4. inputs' \in 0..MaxInput
      BY ONLY <3>3
    <3>5. QED
      BY <3>2, <3>4
  <2>2. QED
    BY <1>1, <1>10, <2>1 DEF UserInput, TypeOK, loopVars, modeVars, timeVars
<1>11. CASE Tick
  <2>1. now' \in Nat
    <3>1. now \in Nat /\ now' = now + 1
      BY <1>1, <1>11 DEF Tick, TypeOK
    <3>2. QED
      BY ONLY <3>1
  <2>2. QED
    BY <1>1, <1>11, <2>1 DEF Tick, TypeOK, loopVars, modeVars, timeVars
<1>12. CASE \/ Run \/ LeaveModalLoop \/ FinishDispatch \/ EndDoWork \/ DoIdleWork
            \/ WaitForWork \/ MouseElsewhere \/ WaitMessage \/ Quit
  <2>1. /\ UNCHANGED <<loopVars, nestableAllowed, haveWork, timeVars, queue, worldVars, done>>
        /\ quitReceived' \in BOOLEAN /\ osModal' \in BOOLEAN
    BY <1>1, <1>12 DEF Run, LeaveModalLoop, FinishDispatch, EndDoWork, DoIdleWork, WaitForWork,
                       MouseElsewhere, WaitMessage, Quit, modeVars, TypeOK
  <2>2. QED
    BY <1>1, <1>2, <2>1 DEF TypeOK, loopVars, timeVars, worldVars, StackType
<1>13. ASSUME NEW told \in BOOLEAN, EnterModalLoop(told) PROVE TypeOK'
  <2>1. /\ UNCHANGED <<loopVars, nestableAllowed, quitReceived, haveWork, timeVars, queue, worldVars, done>>
        /\ osModal' \in BOOLEAN
    BY <1>13 DEF EnterModalLoop
  <2>2. QED
    BY <1>1, <1>2, <2>1 DEF TypeOK, loopVars, timeVars, worldVars, StackType
<1>14. CASE AllowNestableTasks
  <2>1. /\ UNCHANGED <<loopVars, quitReceived, osModal, timeVars, worldVars, done>>
        /\ nestableAllowed' = TRUE
        /\ haveWork' \in BOOLEAN /\ queue' \in Seq({"have work", "input"})
    BY <1>1, <1>7, <1>14 DEF AllowNestableTasks, TypeOK
  <2>2. QED
    BY <1>1, <1>2, <2>1 DEF TypeOK, loopVars, timeVars, worldVars, StackType
<1>15. CASE ProcessNextWindowsMessage
  <2>1. /\ UNCHANGED <<loopVars, modeVars, haveWork, delayedWorkTime, worldVars, done>>
        /\ timer' \in Nat /\ queue' \in Seq({"have work", "input"})
    BY <1>1, <1>4, <1>15 DEF ProcessNextWindowsMessage, TypeOK
  <2>2. QED
    BY <1>1, <1>2, <2>1 DEF TypeOK, loopVars, modeVars, worldVars, StackType
<1>16. CASE DispatchInModalLoop
  <2>1. /\ UNCHANGED <<loopVars, modeVars, delayedWorkTime, worldVars, done>>
        /\ timer' \in Nat /\ queue' \in Seq({"have work", "input"}) /\ haveWork' \in BOOLEAN
    BY <1>1, <1>4, <1>16 DEF DispatchInModalLoop, TypeOK
  <2>2. QED
    BY <1>1, <1>2, <2>1 DEF TypeOK, loopVars, modeVars, worldVars, StackType
<1>17. CASE ProcessPumpReplacementMessage
  <2>1. /\ UNCHANGED <<loopVars, modeVars, delayedWorkTime, worldVars, done>>
        /\ timer' \in Nat /\ queue' \in Seq({"have work", "input"}) /\ haveWork' \in BOOLEAN
    <3>1. \A m \in AnyMessage \cup TimerMessage : Append(m.queue, "have work") \in Seq({"have work", "input"})
      BY ONLY <1>4, <1>5
    <3>2. QED
      BY <1>1, <1>4, <1>17, <3>1 DEF ProcessPumpReplacementMessage, Replacement, TypeOK
  <2>2. QED
    BY <1>1, <1>2, <2>1 DEF TypeOK, loopVars, modeVars, worldVars, StackType
<1>18. CASE ReloadWorkQueue
  <2>1. /\ UNCHANGED <<delayed, nextSeq, modeVars, haveWork, timeVars, stack, queue, worldVars, done>>
        /\ work' = incoming /\ incoming' = << >>
    BY <1>18 DEF ReloadWorkQueue
  <2>2. {incoming', work'} \subseteq Seq([task : Tasks, time : Nat])
    <3>1. incoming \in Seq([task : Tasks, time : Nat])
      BY <1>1 DEF TypeOK
    <3>2. << >> \in Seq([task : Tasks, time : Nat])
      OBVIOUS
    <3>3. QED
      BY ONLY <2>1, <3>1, <3>2
  <2>3. QED
    BY <1>1, <1>2, <2>1, <2>2 DEF TypeOK, modeVars, timeVars, worldVars, StackType
<1>19. CASE AddToDelayedWorkQueue
  <2>1. /\ UNCHANGED <<incoming, modeVars, haveWork, stack, queue, worldVars, done>>
        /\ work' = Tail(work) /\ nextSeq' = nextSeq + 1 /\ work # << >>
    BY <1>19 DEF AddToDelayedWorkQueue
  <2>2. PICK e : /\ e = [task |-> Head(work).task, time |-> Head(work).time, seq |-> nextSeq]
                 /\ delayed' = delayed \cup {e}
                 /\ ScheduleDelayedWork(e.time) \/ UNCHANGED timeVars
    BY <1>19 DEF AddToDelayedWorkQueue
  <2>3. Head(work) \in Entry /\ work' \in Seq([task : Tasks, time : Nat])
    BY <1>6, <2>1 DEF Entry
  <2>4. nextSeq \in Nat /\ nextSeq' \in Nat
    <3>1. nextSeq \in Nat /\ nextSeq' = nextSeq + 1
      BY <1>1, <2>1 DEF TypeOK
    <3>2. QED
      BY ONLY <3>1
  <2>5. e \in [task : Tasks, time : Nat, seq : Nat] /\ e.time \in Nat
    BY <2>2, <2>3, <2>4 DEF Entry
  <2>6. delayedWorkTime' \in Nat /\ timer' \in Nat
    BY <1>1, <1>8, <2>2, <2>5 DEF timeVars, TypeOK
  <2>7. delayed' \subseteq [task : Tasks, time : Nat, seq : Nat]
    BY <1>1, <2>2, <2>5 DEF TypeOK
  <2>8. QED
    BY <1>1, <1>2, <2>1, <2>3, <2>4, <2>6, <2>7 DEF TypeOK, modeVars, worldVars, StackType
<1>20. CASE RunWork
  <2>1. /\ UNCHANGED <<incoming, delayed, nextSeq, quitReceived, osModal, haveWork,
                       timeVars, queue, worldVars, done>>
        /\ work' = Tail(work) /\ work # << >> /\ nestableAllowed' = FALSE
    BY <1>20 DEF RunWork, RunTask
  <2>2. work' \in Seq([task : Tasks, time : Nat])
    BY <1>6, <2>1 DEF Entry
  <2>3. QED
    BY <1>1, <1>2, <2>1, <2>2 DEF TypeOK, timeVars, worldVars, StackType
<1>21. CASE EndHandleWorkMessage
  <2>1. /\ UNCHANGED <<loopVars, modeVars, timeVars, worldVars, done>>
        /\ haveWork' \in BOOLEAN /\ queue' \in Seq({"have work", "input"})
    BY <1>7, <1>21 DEF EndHandleWorkMessage
  <2>2. QED
    BY <1>1, <1>2, <2>1 DEF TypeOK, loopVars, modeVars, timeVars, worldVars, StackType
<1>22. CASE SkipDelayedWork \/ AwaitDelayedWork \/ EndDoDelayedWork
  <2>1. /\ UNCHANGED <<loopVars, modeVars, haveWork, queue, worldVars, done>>
        /\ delayedWorkTime' \in Nat /\ timer' \in Nat
    <3>1. /\ \/ delayedWorkTime' = 0 \/ delayedWorkTime' = delayedWorkTime
             \/ delayed # {} /\ delayedWorkTime' = Earliest(delayed).time
          /\ timer' = 0 \/ timer' = timer
      BY <1>22 DEF SkipDelayedWork, AwaitDelayedWork, EndDoDelayedWork
    <3>2. delayed # {} => Earliest(delayed).time \in Nat
      BY <1>6 DEF DelayedEntry
    <3>3. delayedWorkTime \in Nat /\ timer \in Nat
      BY <1>1 DEF TypeOK
    <3>4. delayedWorkTime' \in Nat /\ timer' \in Nat
      BY ONLY <3>1, <3>2, <3>3
    <3>5. QED
      BY <1>22, <3>4 DEF SkipDelayedWork, AwaitDelayedWork, EndDoDelayedWork
  <2>2. QED
    BY <1>1, <1>2, <2>1 DEF TypeOK, loopVars, modeVars, worldVars, StackType
<1>23. CASE RunDelayedWork
  <2>1. /\ UNCHANGED <<incoming, work, nextSeq, quitReceived, osModal, haveWork, timer,
                       queue, worldVars, done>>
        /\ delayed' = delayed \ {Earliest(delayed)} /\ nestableAllowed' = FALSE
        /\ delayedWorkTime' = IF delayed' = {} THEN delayedWorkTime ELSE Earliest(delayed').time
    BY <1>23 DEF RunDelayedWork, RunTask
  <2>2. delayed' \subseteq [task : Tasks, time : Nat, seq : Nat]
    BY <1>1, <2>1 DEF TypeOK
  <2>3. delayed' # {} => Earliest(delayed').time \in Nat
    <3>1. delayed' # {} => Earliest(delayed') \in delayed'
      BY <2>2, EarliestIsFirst DEF DelayedEntry
    <3>2. QED
      BY <2>2, <3>1
  <2>4. delayedWorkTime' \in Nat
    BY <1>1, <2>1, <2>3 DEF TypeOK
  <2>5. QED
    BY <1>1, <1>2, <2>1, <2>2, <2>4 DEF TypeOK, worldVars, StackType
<1>24. CASE EndHandleTimerMessage
  <2>1. /\ UNCHANGED <<loopVars, modeVars, haveWork, queue, worldVars, done>>
        /\ delayedWorkTime' \in Nat /\ timer' \in Nat
    BY <1>1, <1>8, <1>24 DEF EndHandleTimerMessage, TypeOK, timeVars
  <2>2. QED
    BY <1>1, <1>2, <2>1 DEF TypeOK, loopVars, modeVars, worldVars, StackType
<1>25. CASE FinishTask
  <2>1. /\ UNCHANGED <<loopVars, quitReceived, osModal, haveWork, timeVars, queue, worldVars>>
        /\ nestableAllowed' = TRUE /\ done' = done \cup {Top.task}
    BY <1>25 DEF FinishTask
  <2>2. Top.task \in Tasks
    BY <1>1, <1>25, Pop DEF FinishTask, AtTop, FrameOk, Top
  <2>3. QED
    BY <1>1, <1>2, <2>1, <2>2 DEF TypeOK, loopVars, timeVars, worldVars, StackType
<1>26. QED
  BY <1>9, <1>10, <1>11, <1>12, <1>13, <1>14, <1>15, <1>16, <1>17, <1>18, <1>19, <1>20, <1>21, <1>22,
     <1>23, <1>24, <1>25 DEF Next, ProgramCall, LoopStep

-----------------------------------------------------------------------------
(* Nesting.                                                                 *)

LEMMA NestingKept ==
    ASSUME NestingInv, UNCHANGED nestableAllowed, KeepsTasks(stack')
    PROVE  NestingInv'
BY DEF NestingInv, KeepsTasks, Depth

LEMMA NestingInductive ==
    ASSUME IInv, Next
    PROVE  NestingInv'
<1>1. TypeOK /\ StackOk(stack) /\ NestingInv /\ TimesInv
  BY DEF IInv
<1>2. KeepsTasks(stack)
  BY DEF KeepsTasks, Depth
<1>3. ASSUME NEW p \in Posters, PosterStep(p) PROVE NestingInv'
  BY <1>1, <1>2, <1>3, NestingKept DEF PosterStep, PostTask, ExchangeHaveWork, PostHaveWork, modeVars
<1>4. CASE UserInput \/ Tick \/ ReloadWorkQueue \/ AddToDelayedWorkQueue
  BY <1>1, <1>2, <1>4, NestingKept
     DEF UserInput, Tick, ReloadWorkQueue, AddToDelayedWorkQueue, modeVars
<1>5. CASE Run
  BY <1>1, <1>5, RunStep, NestingKept DEF Keeps, Run, modeVars
<1>6. ASSUME NEW told \in BOOLEAN, EnterModalLoop(told) PROVE NestingInv'
  BY <1>1, <1>6, EnterModalLoopStep, NestingKept DEF Keeps, EnterModalLoop
<1>7. CASE AllowNestableTasks \/ FinishTask
  BY <1>7 DEF AllowNestableTasks, FinishTask, NestingInv
<1>8. CASE Quit
  BY <1>1, <1>8, CallEffect, NestingKept DEF Quit
<1>9. CASE ProcessNextWindowsMessage
  BY <1>1, <1>9, ProcessNextEffect, NestingKept DEF ProcessNextWindowsMessage, modeVars
<1>10. CASE DispatchInModalLoop
  BY <1>1, <1>10, DispatchStep, NestingKept DEF DispatchInModalLoop, modeVars
<1>11. CASE ProcessPumpReplacementMessage
  BY <1>1, <1>11, ReplacementStep, NestingKept DEF ProcessPumpReplacementMessage, modeVars
<1>12. CASE FinishDispatch \/ EndHandleWorkMessage \/ EndHandleTimerMessage \/ LeaveModalLoop
  <2>1. Depth > 0 /\ Top.at # "task" /\ stack' = Popped /\ UNCHANGED nestableAllowed
    BY <1>12 DEF FinishDispatch, EndHandleWorkMessage, EndHandleTimerMessage, LeaveModalLoop,
                 AtTop, modeVars
  <2>2. QED
    BY <1>1, <2>1, PopEffect, NestingKept
<1>13. CASE RunWork
  BY <1>1, <1>13, RunWorkStep DEF NestingInv, Depth
<1>14. CASE RunDelayedWork
  BY <1>1, <1>14, RunDelayedWorkStep DEF NestingInv, Depth
<1>15. CASE EndDoWork
  BY <1>1, <1>15, EndDoWorkStep, NestingKept DEF Keeps, EndDoWork, modeVars
<1>16. CASE SkipDelayedWork \/ AwaitDelayedWork
  BY <1>1, <1>16, NoDelayedWorkStep, NestingKept
     DEF Keeps, SkipDelayedWork, AwaitDelayedWork, modeVars
<1>17. CASE EndDoDelayedWork
  BY <1>1, <1>17, EndDoDelayedWorkStep, NestingKept DEF Keeps, EndDoDelayedWork, modeVars
<1>18. CASE DoIdleWork
  BY <1>1, <1>18, DoIdleWorkStep, NestingKept DEF Keeps, DoIdleWork
<1>19. CASE WaitForWork \/ MouseElsewhere \/ WaitMessage
  BY <1>1, <1>19, WaitForWorkStep, NestingKept
     DEF Keeps, WaitForWork, MouseElsewhere, WaitMessage, modeVars
<1>20. QED
  BY <1>3, <1>4, <1>5, <1>6, <1>7, <1>8, <1>9, <1>10, <1>11, <1>12, <1>13, <1>14, <1>15, <1>16,
     <1>17, <1>18, <1>19 DEF Next, ProgramCall, LoopStep

-----------------------------------------------------------------------------
(* Times.                                                                   *)
Timely(e) == e.time # 0 => e.task \in Delayed
AllTimely(q) == \A i \in 1..Len(q) : Timely(q[i])

LEMMA TimelyQueues ==
    ASSUME NEW q \in Seq(Entry), AllTimely(q)
    PROVE  /\ q # << >> => Timely(Head(q)) /\ AllTimely(Tail(q))
           /\ \A e \in Entry : Timely(e) => AllTimely(Append(q, e))
<1>1. ASSUME q # << >> PROVE Timely(Head(q)) /\ AllTimely(Tail(q))
  <2>1. /\ 1 \in 1..Len(q) /\ Head(q) = q[1]
        /\ \A i \in 1..Len(Tail(q)) : Tail(q)[i] = q[i + 1] /\ i + 1 \in 1..Len(q)
    BY <1>1
  <2>2. QED
    BY <2>1 DEF AllTimely
<1>2. ASSUME NEW e \in Entry, Timely(e) PROVE AllTimely(Append(q, e))
  <2>1. \A i \in 1..Len(Append(q, e)) :
           \/ Append(q, e)[i] = e
           \/ i \in 1..Len(q) /\ Append(q, e)[i] = q[i]
    OBVIOUS
  <2>2. QED
    BY <1>2, <2>1 DEF AllTimely
<1>3. QED
  BY <1>1, <1>2

LEMMA TimesInductive ==
    ASSUME IInv, Next
    PROVE  TimesInv'
<1>1. TypeOK /\ now # 0 /\ AllTimely(incoming) /\ AllTimely(work)
      /\ \A e \in delayed : e.time # 0 /\ e.task \in Delayed
  BY DEF IInv, TimesInv, AllTimely, Timely
<1>2. incoming \in Seq(Entry) /\ work \in Seq(Entry) /\ now \in Nat
  BY <1>1, Types
<1>3. SUFFICES /\ now' # 0 /\ AllTimely(incoming') /\ AllTimely(work')
               /\ \A e \in delayed' : e.time # 0 /\ e.task \in Delayed
  BY DEF TimesInv, AllTimely, Timely
<1>4. ASSUME NEW p \in Posters, NEW t \in Tasks, PostTask(p, t)
      PROVE  AllTimely(incoming') /\ UNCHANGED <<work, delayed, now>>
  <2>1. PICK e : /\ incoming' = Append(incoming, e)
                 /\ e = [task |-> t, time |-> IF t \in Delayed THEN now + Delay[t] ELSE 0]
    BY <1>4 DEF PostTask
  <2>2. Delay[t] \in Nat
    BY TasksAssumption
  <2>3. e \in Entry /\ Timely(e)
    <3>1. now \in Nat
      BY <1>2
    <3>2. QED
      BY ONLY <2>1, <2>2, <3>1 DEF Entry, Timely
  <2>4. QED
    BY <1>1, <1>2, <1>4, <2>1, <2>3, TimelyQueues DEF PostTask
<1>5. CASE Tick
  <2>1. now' # 0 /\ UNCHANGED loopVars
    <3>1. now \in Nat /\ now' = now + 1 /\ UNCHANGED loopVars
      BY <1>2, <1>5 DEF Tick
    <3>2. now' # 0
      BY ONLY <3>1
    <3>3. QED
      BY <3>1, <3>2
  <2>2. QED
    BY <1>1, <2>1 DEF loopVars
<1>6. CASE ReloadWorkQueue
  <2>1. work' = incoming /\ incoming' = << >> /\ UNCHANGED <<delayed, now>>
    BY <1>6 DEF ReloadWorkQueue, worldVars
  <2>2. AllTimely(<< >>)
    BY DEF AllTimely
  <2>3. QED
    BY <1>1, <2>1, <2>2
<1>7. CASE AddToDelayedWorkQueue
  <2>1. /\ UNCHANGED <<incoming, now>> /\ work' = Tail(work) /\ work # << >> /\ Head(work).time # 0
        /\ delayed' = delayed \cup
              {[task |-> Head(work).task, time |-> Head(work).time, seq |-> nextSeq]}
    BY <1>7 DEF AddToDelayedWorkQueue, worldVars
  <2>2. Timely(Head(work)) /\ AllTimely(work')
    BY <1>1, <1>2, <2>1, TimelyQueues
  <2>3. QED
    BY <1>1, <2>1, <2>2 DEF Timely
<1>8. CASE RunWork
  <2>1. UNCHANGED <<incoming, delayed, now>> /\ work' = Tail(work) /\ work # << >>
    BY <1>8 DEF RunWork, worldVars
  <2>2. QED
    BY <1>1, <1>2, <2>1, TimelyQueues
<1>9. CASE RunDelayedWork
  <2>1. UNCHANGED <<incoming, work, now>> /\ delayed' \subseteq delayed
    BY <1>9 DEF RunDelayedWork, worldVars
  <2>2. QED
    BY <1>1, <2>1
<1>10. CASE UNCHANGED <<loopVars, now>>
  BY <1>1, <1>10 DEF loopVars
<1>11. ASSUME NEW p \in Posters, PosterStep(p)
       PROVE  UNCHANGED <<loopVars, now>> \/ \E t \in Tasks : PostTask(p, t)
  BY <1>11 DEF PosterStep, ExchangeHaveWork, PostHaveWork
<1>12. CASE ProgramCall \/ LeaveModalLoop \/ UserInput
  <2>1. UNCHANGED <<loopVars, now>>
    BY <1>12 DEF ProgramCall, Run, EnterModalLoop, AllowNestableTasks, Quit, LeaveModalLoop,
                 UserInput, worldVars
  <2>2. QED
    BY <1>10, <2>1
<1>13. CASE \/ ProcessNextWindowsMessage \/ DispatchInModalLoop \/ ProcessPumpReplacementMessage
            \/ FinishDispatch \/ EndDoWork \/ EndHandleWorkMessage
  <2>1. UNCHANGED <<loopVars, now>>
    BY <1>13 DEF ProcessNextWindowsMessage, DispatchInModalLoop, ProcessPumpReplacementMessage,
                 FinishDispatch, EndDoWork, EndHandleWorkMessage, worldVars
  <2>2. QED
    BY <1>10, <2>1
<1>14. CASE \/ SkipDelayedWork \/ AwaitDelayedWork \/ EndDoDelayedWork \/ EndHandleTimerMessage
            \/ DoIdleWork \/ WaitForWork \/ MouseElsewhere \/ WaitMessage \/ FinishTask
  <2>1. UNCHANGED <<loopVars, now>>
    BY <1>14 DEF SkipDelayedWork, AwaitDelayedWork, EndDoDelayedWork, EndHandleTimerMessage,
                 DoIdleWork, WaitForWork, MouseElsewhere, WaitMessage, FinishTask, worldVars
  <2>2. QED
    BY <1>10, <2>1
<1>15. QED
  BY <1>1, <1>4, <1>5, <1>6, <1>7, <1>8, <1>9, <1>10, <1>11, <1>12, <1>13, <1>14
     DEF Next, LoopStep

-----------------------------------------------------------------------------
(* One message at a time, in every step.                                    *)

LEMMA MessageStackOnly ==
    ASSUME MessageInv, UNCHANGED <<haveWork, queue, poster, stack>>
    PROVE  MessageInv'
BY DEF MessageInv, NoneSends, OneSends, AtTop, Depth, Top

LEMMA MessagePosted ==
    ASSUME TypeOK, MessageInv, NEW p \in Posters, PosterStep(p)
    PROVE  MessageInv'
<1>1. poster \in [Posters -> {"idle", "schedule", "post"}] /\ haveWork \in BOOLEAN
      /\ queue \in Seq(Messages)
  BY Types
<1>2. UNCHANGED stack
  BY DEF PosterStep, PostTask, ExchangeHaveWork, PostHaveWork
<1>3. AtTop("replace")' <=> AtTop("replace")
  BY <1>2 DEF AtTop, Depth, Top
<1>4. CASE poster[p] # "post" /\ UNCHANGED <<haveWork, queue>>
           /\ \E w \in {"idle", "schedule"} : poster' = [poster EXCEPT ![p] = w]
  <2>1. (NoneSends' <=> NoneSends) /\ (OneSends' <=> OneSends)
    BY <1>1, <1>4, SendsSame
  <2>2. QED
    BY <1>3, <1>4, <2>1 DEF MessageInv
<1>5. ASSUME NEW t \in Tasks, PostTask(p, t) PROVE MessageInv'
  BY <1>4, <1>5 DEF PostTask
<1>6. CASE ExchangeHaveWork(p) /\ haveWork
  <2>1. /\ poster[p] # "post" /\ haveWork' = haveWork /\ queue' = queue
        /\ poster' = [poster EXCEPT ![p] = "idle"]
    BY <1>1, <1>6 DEF ExchangeHaveWork
  <2>2. QED
    BY <1>4, <2>1
<1>7. CASE ExchangeHaveWork(p) /\ ~ haveWork
  <2>1. /\ haveWork' = TRUE /\ queue' = queue /\ poster' = [poster EXCEPT ![p] = "post"]
    BY <1>7 DEF ExchangeHaveWork
  <2>2. None(queue) /\ NoneSends /\ ~ AtTop("replace")
    BY <1>7 DEF MessageInv
  <2>3. OneSends'
    BY <1>1, <2>1, <2>2 DEF NoneSends, OneSends
  <2>4. QED
    BY <1>3, <2>1, <2>2, <2>3 DEF MessageInv
<1>8. CASE PostHaveWork(p)
  <2>1. /\ poster[p] = "post" /\ haveWork' = haveWork /\ queue' = Append(queue, "have work")
        /\ poster' = [poster EXCEPT ![p] = "idle"]
    BY <1>8 DEF PostHaveWork
  <2>2. haveWork /\ None(queue) /\ OneSends /\ ~ AtTop("replace")
    BY <2>1 DEF MessageInv, NoneSends
  <2>3. NoneSends'
    BY <1>1, <2>1, <2>2 DEF NoneSends, OneSends
  <2>4. One(queue')
    BY <1>1, <2>1, <2>2, Posted1
  <2>5. QED
    BY <1>3, <2>1, <2>2, <2>3, <2>4 DEF MessageInv
<1>9. QED
  BY <1>5, <1>6, <1>7, <1>8 DEF PosterStep

LEMMA MessageReplaced ==
    ASSUME TypeOK, MessageInv, AtTop("replace"), UNCHANGED poster,
           NEW m \in AnyMessage \cup TimerMessage, Replacing(m)
    PROVE  MessageInv'
<1>1. haveWork /\ None(queue) /\ NoneSends
  BY DEF MessageInv
<1>2. m.queue \in Seq(Messages) /\ None(m.queue) /\ m.msg # "have work"
  BY <1>1, Taken
<1>3. haveWork' = TRUE /\ queue' = Append(m.queue, "have work") /\ ~ TopIs(stack', "replace")
  BY <1>2 DEF Replacing
<1>4. One(queue') /\ NoneSends'
  BY <1>1, <1>2, <1>3, Posted1 DEF NoneSends
<1>5. ~ AtTop("replace")'
  BY <1>3 DEF AtTop, TopIs, Depth, Top
<1>6. QED
  BY <1>3, <1>4, <1>5 DEF MessageInv

LEMMA MessageInductive ==
    ASSUME IInv, Next
    PROVE  MessageInv'
<1>1. TypeOK /\ StackOk(stack) /\ NestingInv /\ TimesInv /\ MessageInv
  BY DEF IInv
<1>2. ASSUME NEW p \in Posters, PosterStep(p) PROVE MessageInv'
  BY <1>1, <1>2, MessagePosted
<1>3. CASE Tick \/ ReloadWorkQueue \/ AddToDelayedWorkQueue
  BY <1>1, <1>3, MessageStackOnly DEF Tick, ReloadWorkQueue, AddToDelayedWorkQueue, worldVars
<1>4. CASE UserInput
  <2>1. /\ UNCHANGED <<haveWork, poster, stack>> /\ queue' = Append(queue, "input")
        /\ queue \in Seq(Messages)
    BY <1>1, <1>4, Types DEF UserInput
  <2>2. (None(queue) => None(queue')) /\ (One(queue) => One(queue'))
    BY <2>1, Posted1
  <2>3. /\ NoneSends' <=> NoneSends
        /\ OneSends' <=> OneSends
        /\ AtTop("replace")' <=> AtTop("replace")
    BY <2>1 DEF NoneSends, OneSends, AtTop, Depth, Top
  <2>4. QED
    BY <1>1, <2>1, <2>2, <2>3 DEF MessageInv
<1>5. CASE Run
  <2>1. UNCHANGED <<haveWork, queue, poster>> /\ ~ AtTop("replace")
    BY <1>5 DEF Run, worldVars, AtTop
  <2>2. QED
    BY <1>1, <1>5, <2>1, RunStep, MessageSame DEF Keeps
<1>6. ASSUME NEW told \in BOOLEAN, EnterModalLoop(told) PROVE MessageInv'
  <2>1. UNCHANGED <<haveWork, queue, poster>>
    BY <1>6 DEF EnterModalLoop, worldVars
  <2>2. ~ AtTop("replace")
    BY <1>1, <1>6, CallEffect DEF EnterModalLoop, AtTop
  <2>3. QED
    BY <1>1, <1>6, <2>1, <2>2, EnterModalLoopStep, MessageSame DEF Keeps
<1>7. CASE AllowNestableTasks
  <2>1. ~ AtTop("replace") /\ ~ TopIs(stack', "replace") /\ UNCHANGED poster
    BY <1>1, <1>7, CallEffect DEF AllowNestableTasks, AtTop, worldVars
  <2>2. CASE UNCHANGED <<haveWork, queue>>
    BY <1>1, <2>1, <2>2, MessageSame
  <2>3. CASE ScheduleWork(queue)
    BY <1>1, <2>1, <2>3, MessageScheduled
  <2>4. QED
    BY <1>7, <2>2, <2>3 DEF AllowNestableTasks
<1>8. CASE Quit
  <2>1. ~ AtTop("replace") /\ ~ TopIs(stack', "replace") /\ UNCHANGED <<haveWork, queue, poster>>
    BY <1>1, <1>8, CallEffect DEF Quit, AtTop, worldVars
  <2>2. QED
    BY <1>1, <2>1, MessageSame
<1>9. CASE ProcessNextWindowsMessage
  <2>1. ~ AtTop("replace") /\ UNCHANGED <<haveWork, poster>>
    BY <1>9 DEF ProcessNextWindowsMessage, AtTop, worldVars
  <2>2. CASE UNCHANGED <<queue, timer>> /\ ~ TopIs(stack', "replace")
    BY <1>1, <2>1, <2>2, MessageSame
  <2>3. ASSUME NEW m \in AnyMessage, queue' = m.queue,
               TopIs(stack', "replace") <=> m.msg = "have work"
        PROVE  MessageInv'
    <3>1. haveWork' = (haveWork /\ (m.msg = "have work" => TRUE)) /\ TRUE \in BOOLEAN
          /\ (TopIs(stack', "replace") <=> m.msg = "have work" /\ TRUE)
      BY <1>1, <2>1, <2>3, Types
    <3>2. QED
      BY <1>1, <2>1, <2>3, <3>1, MessageDispatched
  <2>4. QED
    BY <1>1, <1>9, <2>2, <2>3, ProcessNextEffect
<1>10. CASE DispatchInModalLoop
  <2>1. ~ AtTop("replace") /\ UNCHANGED poster
    BY <1>10 DEF DispatchInModalLoop, AtTop, worldVars
  <2>2. PICK m \in AnyMessage : Dispatched(m)
    BY <1>1, <1>10, DispatchStep
  <2>3. InRun \in BOOLEAN
    BY DEF InRun
  <2>4. QED
    BY <1>1, <2>1, <2>2, <2>3, MessageDispatched DEF Dispatched
<1>11. CASE ProcessPumpReplacementMessage
  <2>1. AtTop("replace") /\ UNCHANGED poster
    BY <1>11 DEF ProcessPumpReplacementMessage, worldVars
  <2>2. CASE haveWork' = FALSE /\ ~ TopIs(stack', "replace") /\ UNCHANGED <<queue, timer>>
    BY <1>1, <2>1, <2>2 DEF MessageInv, NoneSends, OneSends, AtTop, TopIs, Depth, Top
  <2>3. ASSUME NEW m \in AnyMessage \cup TimerMessage, Replacing(m) PROVE MessageInv'
    BY <1>1, <2>1, <2>3, MessageReplaced
  <2>4. QED
    BY <1>1, <1>11, <2>2, <2>3, ReplacementStep
<1>12. CASE FinishDispatch \/ EndHandleTimerMessage \/ LeaveModalLoop \/ FinishTask
  <2>1. /\ Depth > 0 /\ stack' = Popped /\ ~ AtTop("replace")
        /\ UNCHANGED <<haveWork, queue, poster>>
    BY <1>12 DEF FinishDispatch, EndHandleTimerMessage, LeaveModalLoop, FinishTask, AtTop, worldVars
  <2>2. QED
    BY <1>1, <2>1, PopEffect, MessageSame DEF Busy
<1>13. CASE EndHandleWorkMessage
  <2>1. Depth > 0 /\ stack' = Popped /\ ~ AtTop("replace") /\ ScheduleWork(queue) /\ UNCHANGED poster
    BY <1>13 DEF EndHandleWorkMessage, AtTop, worldVars
  <2>2. QED
    BY <1>1, <2>1, PopEffect, MessageScheduled DEF Busy
<1>14. CASE RunWork
  <2>1. UNCHANGED <<haveWork, queue, poster>> /\ ~ AtTop("replace")
    BY <1>14 DEF RunWork, AtDoWork, AtTop, worldVars
  <2>2. QED
    BY <1>1, <1>14, <2>1, RunWorkStep, MessageSame DEF Busy
<1>15. CASE RunDelayedWork
  <2>1. UNCHANGED <<haveWork, queue, poster>> /\ ~ AtTop("replace")
    BY <1>15 DEF RunDelayedWork, AtDoDelayedWork, AtTop, worldVars
  <2>2. QED
    BY <1>1, <1>15, <2>1, RunDelayedWorkStep, MessageSame DEF Busy
<1>16. CASE EndDoWork
  <2>1. UNCHANGED <<haveWork, queue, poster>> /\ ~ AtTop("replace")
    BY <1>16 DEF EndDoWork, AtDoWork, AtTop, worldVars
  <2>2. QED
    BY <1>1, <1>16, <2>1, EndDoWorkStep, MessageSame DEF Keeps
<1>17. CASE SkipDelayedWork \/ AwaitDelayedWork
  <2>1. UNCHANGED <<haveWork, queue, poster>> /\ ~ AtTop("replace") /\ AtDoDelayedWork /\ NoDelayedWork
    BY <1>17 DEF SkipDelayedWork, AwaitDelayedWork, AtDoDelayedWork, AtTop, worldVars
  <2>2. QED
    BY <1>1, <2>1, NoDelayedWorkStep, MessageSame DEF Keeps
<1>18. CASE EndDoDelayedWork
  <2>1. UNCHANGED <<haveWork, queue, poster>> /\ ~ AtTop("replace")
    BY <1>18 DEF EndDoDelayedWork, AtTop, worldVars
  <2>2. QED
    BY <1>1, <1>18, <2>1, EndDoDelayedWorkStep, MessageSame DEF Keeps
<1>19. CASE DoIdleWork
  <2>1. UNCHANGED <<haveWork, queue, poster>> /\ ~ AtTop("replace")
    BY <1>19 DEF DoIdleWork, AtTop, worldVars
  <2>2. QED
    BY <1>1, <1>19, <2>1, DoIdleWorkStep, MessageSame DEF Keeps
<1>20. CASE WaitForWork \/ MouseElsewhere \/ WaitMessage
  <2>1. UNCHANGED <<haveWork, queue, poster>> /\ ~ AtTop("replace")
    BY <1>20 DEF WaitForWork, MouseElsewhere, WaitMessage, AtTop, worldVars
  <2>2. QED
    BY <1>1, <1>20, <2>1, WaitForWorkStep, MessageSame DEF Keeps
<1>21. QED
  BY <1>2, <1>3, <1>4, <1>5, <1>6, <1>7, <1>8, <1>9, <1>10, <1>11, <1>12, <1>13, <1>14, <1>15, <1>16,
     <1>17, <1>18, <1>19, <1>20 DEF Next, ProgramCall, LoopStep

-----------------------------------------------------------------------------
(* From DoWork to the wait.                                                 *)

LEMMA NothingMore ==
    ASSUME NEW s, NEW b, NEW a \in SUBSET b, Nothing(s, a)
    PROVE  Nothing(s, b)
BY DEF Nothing

LEMMA BusyWaits ==
    ASSUME ~ Nothing(stack', ToWait)
    PROVE  WaitInv' /\ TimerInv'
BY NothingMore DEF WaitInv, TimerInv, FoundNothing, ToWait

(* DoRunLoop goes on towards its wait.                                      *)
LEMMA IdleWaits ==
    ASSUME WaitInv, TimerInv, Nothing(stack', ToWait) => FoundNothing(AfterDelayed),
           UNCHANGED <<loopVars, haveWork, poster, delayedWorkTime>>
    PROVE  WaitInv' /\ TimerInv'
<1>1. SUFFICES ASSUME Nothing(stack', ToWait) PROVE WaitInv' /\ TimerInv'
  BY BusyWaits
<1>2. FoundNothing(AfterDelayed) /\ FoundNothing(ToWait)
  BY <1>1, NothingMore DEF FoundNothing, ToWait
<1>3. Scheduling' = Scheduling
  BY DEF Scheduling
<1>4. QED
  BY <1>2, <1>3 DEF WaitInv, TimerInv, loopVars

LEMMA SameWaits ==
    ASSUME WaitInv, TimerInv, UNCHANGED <<stack, loopVars, haveWork, poster, delayedWorkTime>>
    PROVE  WaitInv' /\ TimerInv'
BY DEF WaitInv, TimerInv, FoundNothing, Scheduling, loopVars

(* A task is posted, or the pump told of one.                               *)
LEMMA PosterWaits ==
    ASSUME TypeOK, WaitInv, TimerInv, NEW p \in Posters, PosterStep(p)
    PROVE  WaitInv' /\ TimerInv'
<1>1. poster \in [Posters -> {"idle", "schedule", "post"}] /\ haveWork \in BOOLEAN
  BY Types
<1>2. UNCHANGED <<stack, work, delayed, delayedWorkTime>>
  BY DEF PosterStep, PostTask, ExchangeHaveWork, PostHaveWork, loopVars, timeVars
<1>3. TimerInv'
  BY <1>2 DEF TimerInv, FoundNothing
<1>4. SUFFICES ASSUME work = << >>, incoming # << >> => haveWork \/ Scheduling
               PROVE  incoming' # << >> => haveWork' \/ Scheduling'
  BY <1>2, <1>3 DEF WaitInv, FoundNothing
<1>5. ASSUME NEW t \in Tasks, PostTask(p, t) PROVE haveWork' \/ Scheduling'
  <2>1. /\ poster[p] = "idle" /\ haveWork' = haveWork
        /\ poster' = [poster EXCEPT ![p] = IF incoming = << >> THEN "schedule" ELSE "idle"]
    BY <1>5 DEF PostTask
  <2>2. CASE incoming = << >>
    BY <1>1, <2>1, <2>2 DEF Scheduling
  <2>3. CASE incoming # << >>
    BY <1>1, <1>4, <2>1, <2>3 DEF Scheduling
  <2>4. QED
    BY <2>2, <2>3
<1>6. CASE ExchangeHaveWork(p)
  BY <1>6 DEF ExchangeHaveWork
<1>7. CASE PostHaveWork(p)
  <2>1. /\ poster[p] = "post" /\ haveWork' = haveWork /\ incoming' = incoming
        /\ poster' = [poster EXCEPT ![p] = "idle"]
    BY <1>7 DEF PostHaveWork, loopVars
  <2>2. QED
    BY <1>1, <1>4, <2>1 DEF Scheduling
<1>8. QED
  BY <1>5, <1>6, <1>7 DEF PosterStep

LEMMA BothEmpty ==
    ASSUME NEW a \in Seq(Entry), NEW b \in Seq(Entry), a \o b = << >>
    PROVE  a = << >> /\ b = << >>
<1>1. Len(a) \in Nat /\ Len(b) \in Nat /\ Len(a \o b) = Len(a) + Len(b) /\ Len(a \o b) = 0
  OBVIOUS
<1>2. Len(a) = 0 /\ Len(b) = 0
  BY ONLY <1>1
<1>3. QED
  BY <1>2

LEMMA WaitInductive ==
    ASSUME IInv, Next
    PROVE  WaitInv' /\ TimerInv'
<1>1. TypeOK /\ StackOk(stack) /\ NestingInv /\ TimesInv /\ WaitInv /\ TimerInv
  BY DEF IInv
<1>2. ASSUME NEW p \in Posters, PosterStep(p) PROVE WaitInv' /\ TimerInv'
  BY <1>1, <1>2, PosterWaits
<1>3. CASE UserInput \/ Tick
  BY <1>1, <1>3, SameWaits DEF UserInput, Tick, timeVars
<1>4. CASE ReloadWorkQueue \/ AddToDelayedWorkQueue
  <2>1. AtDoWork /\ UNCHANGED stack
    BY <1>4 DEF ReloadWorkQueue, AddToDelayedWorkQueue
  <2>2. ~ Nothing(stack, ToWait)
    BY <2>1 DEF AtDoWork, AtTop, Top, Depth, Nothing, ToWait, AfterDelayed
  <2>3. QED
    BY <2>1, <2>2, BusyWaits
<1>5. CASE Run
  BY <1>5, RunStep, BusyWaits
<1>6. ASSUME NEW told \in BOOLEAN, EnterModalLoop(told) PROVE WaitInv' /\ TimerInv'
  BY <1>1, <1>6, EnterModalLoopStep, BusyWaits
<1>7. CASE AllowNestableTasks \/ Quit
  BY <1>1, <1>7, CallEffect, BusyWaits DEF AllowNestableTasks, Quit
<1>8. CASE ProcessNextWindowsMessage
  BY <1>1, <1>8, ProcessNextEffect, BusyWaits
<1>9. CASE DispatchInModalLoop
  BY <1>1, <1>9, DispatchStep, BusyWaits
<1>10. CASE ProcessPumpReplacementMessage
  BY <1>1, <1>10, ReplacementStep, BusyWaits
<1>11. CASE FinishDispatch \/ EndHandleWorkMessage \/ EndHandleTimerMessage
            \/ LeaveModalLoop \/ FinishTask
  <2>1. Depth > 0 /\ stack' = Popped
    BY <1>11 DEF FinishDispatch, EndHandleWorkMessage, EndHandleTimerMessage, LeaveModalLoop,
                 FinishTask, AtTop
  <2>2. QED
    BY <1>1, <2>1, PopEffect, BusyWaits DEF Busy
<1>12. CASE RunWork
  BY <1>1, <1>12, RunWorkStep, BusyWaits DEF Busy
<1>13. CASE RunDelayedWork
  BY <1>1, <1>13, RunDelayedWorkStep, BusyWaits DEF Busy
<1>14. CASE EndDoWork
  <2>1. /\ ~ Nothing(stack', AfterDelayed) /\ UNCHANGED loopVars
        /\ Nothing(stack', ToWait) => Entries = << >>
    BY <1>1, <1>14, EndDoWorkStep DEF EndDoWork
  <2>2. Entries = << >> => incoming = << >> /\ work = << >>
    BY <1>1, Types, BothEmpty DEF Entries
  <2>3. QED
    BY <2>1, <2>2 DEF WaitInv, TimerInv, FoundNothing, loopVars
<1>15. CASE SkipDelayedWork \/ AwaitDelayedWork
  <2>1. /\ UNCHANGED <<loopVars, haveWork, poster>> /\ AtDoDelayedWork /\ NoDelayedWork
        /\ nestableAllowed =>
              delayed = {} \/ (delayed # {} /\ delayedWorkTime' = Earliest(delayed).time)
    BY <1>15 DEF SkipDelayedWork, AwaitDelayedWork, worldVars
  <2>2. Nothing(stack', ToWait) => FoundNothing({"delayed"}) /\ nestableAllowed
    BY <1>1, <2>1, NoDelayedWorkStep
  <2>3. FoundNothing({"delayed"}) => FoundNothing(ToWait)
    BY DEF FoundNothing, Nothing, ToWait
  <2>4. Scheduling' = Scheduling
    BY <2>1 DEF Scheduling
  <2>5. WaitInv'
    BY <1>1, <2>1, <2>2, <2>3, <2>4 DEF WaitInv, FoundNothing, loopVars
  <2>6. ASSUME Nothing(stack', AfterDelayed)
        PROVE  \A e \in delayed : delayedWorkTime' # 0 /\ delayedWorkTime' <= e.time
    <3>1. nestableAllowed
      BY <2>2, <2>6 DEF Nothing, ToWait
    <3>2. delayed \subseteq DelayedEntry
      BY <1>1, Types
    <3>3. SUFFICES ASSUME delayed # {}
                   PROVE  /\ delayedWorkTime' = Earliest(delayed).time
                          /\ Earliest(delayed).time # 0
                          /\ \A e \in delayed : Earliest(delayed).time <= e.time
      OBVIOUS
    <3>4. Earliest(delayed) \in delayed /\ \A e \in delayed : Earliest(delayed).time <= e.time
      BY <3>2, <3>3, EarliestIsFirst
    <3>5. QED
      BY <1>1, <2>1, <3>1, <3>3, <3>4 DEF TimesInv
  <2>7. TimerInv'
    BY <2>1, <2>6 DEF TimerInv, FoundNothing, loopVars
  <2>8. QED
    BY <2>5, <2>7
<1>16. CASE EndDoDelayedWork
  <2>1. UNCHANGED <<loopVars, haveWork, poster, delayedWorkTime>>
    BY <1>16 DEF EndDoDelayedWork, worldVars
  <2>2. FoundNothing({"delayed end"}) => FoundNothing(AfterDelayed)
    BY DEF FoundNothing, Nothing, AfterDelayed
  <2>3. QED
    BY <1>1, <1>16, <2>1, <2>2, EndDoDelayedWorkStep, IdleWaits
<1>17. CASE DoIdleWork
  <2>1. UNCHANGED <<loopVars, haveWork, poster, delayedWorkTime>>
    BY <1>17 DEF DoIdleWork, worldVars, timeVars
  <2>2. FoundNothing({"idle"}) => FoundNothing(AfterDelayed)
    BY DEF FoundNothing, Nothing, AfterDelayed
  <2>3. QED
    BY <1>1, <1>17, <2>1, <2>2, DoIdleWorkStep, IdleWaits
<1>18. CASE WaitForWork \/ MouseElsewhere \/ WaitMessage
  BY <1>1, <1>18, WaitForWorkStep, BusyWaits
<1>19. QED
  BY <1>2, <1>3, <1>4, <1>5, <1>6, <1>7, <1>8, <1>9, <1>10, <1>11, <1>12, <1>13, <1>14, <1>15, <1>16,
     <1>17, <1>18 DEF Next, ProgramCall, LoopStep

-----------------------------------------------------------------------------
(* The invariant.                                                           *)

LEMMA InitInv == Init => IInv
<1>1. SUFFICES ASSUME Init PROVE IInv
  OBVIOUS
<1>2. TypeOK
  <2>1. /\ incoming = << >> /\ work = << >> /\ delayed = {} /\ nextSeq = 0 /\ delayedWorkTime = 0
        /\ timer = 0 /\ now = 1 /\ done = {} /\ inputs = 0 /\ stack = << >> /\ queue = << >>
    BY <1>1 DEF Init
  <2>2. /\ order = << >> /\ nestableAllowed \in BOOLEAN /\ quitReceived \in BOOLEAN /\ osModal \in BOOLEAN
        /\ haveWork \in BOOLEAN /\ poster \in [Posters -> {"idle", "schedule", "post"}]
    BY <1>1 DEF Init
  <2>3. inputs \in 0..MaxInput
    BY <2>1, BoundsAssumption
  <2>4. \A S : << >> \in Seq(S)
    OBVIOUS
  <2>5. QED
    BY <2>1, <2>2, <2>3, <2>4 DEF TypeOK
<1>3. StackOk(stack)
  BY <1>1 DEF Init, StackOk
<1>4. NestingInv /\ TimesInv
  BY <1>1 DEF Init, NestingInv, TimesInv
<1>5. MessageInv
  BY <1>1 DEF Init, MessageInv, None, NoneSends, AtTop, Depth
<1>6. WaitInv /\ TimerInv
  BY <1>1 DEF Init, WaitInv, TimerInv, FoundNothing, Nothing
<1>7. QED
  BY <1>2, <1>3, <1>4, <1>5, <1>6 DEF IInv

LEMMA IInvInductive == IInv /\ [Next]_vars => IInv'
<1>1. SUFFICES ASSUME IInv, [Next]_vars PROVE IInv'
  OBVIOUS
<1>2. CASE Next
  <2>1. StackOk(stack')
    BY <1>1, <1>2, StackInductive
  <2>2. StackOk(stack)'
    BY <2>1 DEF StackOk, FrameOk
  <2>3. QED
    BY <1>1, <1>2, <2>1, <2>2, TypeInductive, NestingInductive, TimesInductive, MessageInductive,
       WaitInductive DEF IInv
<1>3. CASE UNCHANGED vars
  <2>1. /\ UNCHANGED <<incoming, work, delayed, nextSeq, nestableAllowed, quitReceived, osModal>>
        /\ UNCHANGED <<haveWork, delayedWorkTime, timer, stack, queue, poster, order, inputs, now,
                     done>>
    BY <1>3 DEF vars, loopVars, modeVars, timeVars, worldVars
  <2>2. TypeOK' = TypeOK
    BY <2>1 DEF TypeOK
  <2>3. StackOk(stack)' = StackOk(stack)
    BY <2>1 DEF StackOk, FrameOk
  <2>4. NestingInv' = NestingInv /\ TimesInv' = TimesInv
    BY <2>1 DEF NestingInv, TimesInv, Depth
  <2>5. MessageInv' = MessageInv
    BY <2>1 DEF MessageInv, NoneSends, OneSends, AtTop, Depth, Top
  <2>6. WaitInv' = WaitInv /\ TimerInv' = TimerInv
    BY <2>1 DEF WaitInv, TimerInv, FoundNothing, Scheduling
  <2>7. QED
    BY <1>1, <2>2, <2>3, <2>4, <2>5, <2>6 DEF IInv
<1>4. QED
  BY <1>1, <1>2, <1>3

LEMMA IInvariant == Spec => []IInv
<1>1. Init => IInv
  BY InitInv
<1>2. IInv /\ [Next]_vars => IInv'
  BY IInvInductive
<1>3. QED
  BY <1>1, <1>2, PTL DEF Spec

-----------------------------------------------------------------------------
(* What follows from it.                                                    *)

LEMMA CountMessages ==
    ASSUME NEW q \in Seq(Messages)
    PROVE  /\ None(q) => Cardinality({i \in DOMAIN q : q[i] = "have work"}) = 0
           /\ One(q) => Cardinality({i \in DOMAIN q : q[i] = "have work"}) = 1
<1>1. DOMAIN q = 1..Len(q)
  OBVIOUS
<1>2. None(q) => {i \in DOMAIN q : q[i] = "have work"} = {}
  BY <1>1 DEF None
<1>3. One(q) => \E j : {i \in DOMAIN q : q[i] = "have work"} = {j}
  BY <1>1 DEF One
<1>4. QED
  BY <1>2, <1>3, FS_EmptySet, FS_Singleton

LEMMA CountSends ==
    /\ NoneSends => Cardinality({p \in Posters : poster[p] = "post"}) = 0
    /\ OneSends => Cardinality({p \in Posters : poster[p] = "post"}) = 1
<1>1. NoneSends => {p \in Posters : poster[p] = "post"} = {}
  BY DEF NoneSends
<1>2. OneSends => \E o : {p \in Posters : poster[p] = "post"} = {o}
  BY DEF OneSends
<1>3. QED
  BY <1>1, <1>2, FS_EmptySet, FS_Singleton

LEMMA CountReplacements ==
    ASSUME StackOk(stack)
    PROVE  /\ AtTop("replace") => Cardinality({i \in 1..Depth : stack[i].at = "replace"}) = 1
           /\ ~ AtTop("replace") => Cardinality({i \in 1..Depth : stack[i].at = "replace"}) = 0
<1>1. Depth \in Nat /\ Depth = Len(stack)
  BY DEF Depth, StackOk
<1>2. ASSUME NEW i \in 1..Depth, i # Depth PROVE stack[i].at # "replace"
  <2>1. i + 1 \in 1..Depth /\ i + 1 # 1 /\ i + 1 - 1 = i
    BY <1>1, <1>2
  <2>2. PICK n \in 1..Depth : n = i + 1
    BY <2>1
  <2>3. FrameOk(stack, n) /\ n # 1 /\ n - 1 = i
    BY <1>1, <2>1, <2>2 DEF StackOk
  <2>4. QED
    BY <2>3 DEF FrameOk
<1>3. AtTop("replace") => {i \in 1..Depth : stack[i].at = "replace"} = {Depth}
  <2>1. SUFFICES ASSUME AtTop("replace")
                 PROVE  {i \in 1..Depth : stack[i].at = "replace"} = {Depth}
    OBVIOUS
  <2>2. Depth \in 1..Depth /\ stack[Depth].at = "replace"
    BY <1>1, <2>1, Positions DEF AtTop, Top
  <2>3. QED
    BY <1>2, <2>2
<1>4. ~ AtTop("replace") => {i \in 1..Depth : stack[i].at = "replace"} = {}
  <2>1. SUFFICES ASSUME ~ AtTop("replace"), NEW i \in 1..Depth
                 PROVE  stack[i].at # "replace"
    OBVIOUS
  <2>2. Depth > 0
    BY <1>1
  <2>3. QED
    BY <1>2, <2>1, <2>2 DEF AtTop, Top
<1>5. QED
  BY <1>3, <1>4, FS_EmptySet, FS_Singleton

LEMMA OneMessage ==
    IInv => HaveWorkMeansOneMessage
<1>1. SUFFICES ASSUME IInv PROVE HaveWorkMeansOneMessage
  OBVIOUS
<1>2. TypeOK /\ StackOk(stack) /\ MessageInv /\ queue \in Seq(Messages)
  BY <1>1, Types DEF IInv
<1> DEFINE a == Cardinality({i \in DOMAIN queue : queue[i] = "have work"})
           b == Cardinality({p \in Posters : poster[p] = "post"})
           c == Cardinality({i \in 1..Depth : stack[i].at = "replace"})
<1>3. \/ ~ haveWork /\ a = 0 /\ b = 0 /\ c = 0
      \/ haveWork /\ a = 1 /\ b = 0 /\ c = 0
      \/ haveWork /\ a = 0 /\ b = 1 /\ c = 0
      \/ haveWork /\ a = 0 /\ b = 0 /\ c = 1
  BY <1>2, CountMessages, CountSends, CountReplacements DEF MessageInv
<1> HIDE DEF a, b, c
<1>4. a + b + c = IF haveWork THEN 1 ELSE 0
  BY ONLY <1>3
<1>5. QED
  BY <1>4 DEF HaveWorkMeansOneMessage, a, b, c

LEMMA TimeIsKept ==
    IInv => WaitsUntilDue
<1>1. SUFFICES ASSUME IInv, AtTop("wait"), delayed # {}
               PROVE  delayedWorkTime # 0 /\ delayedWorkTime <= Earliest(delayed).time
  BY DEF WaitsUntilDue
<1>2. TypeOK /\ StackOk(stack) /\ TimerInv
  BY <1>1 DEF IInv
<1>3. Depth = 1 /\ stack[1].at = "wait" /\ Depth = Len(stack)
  BY <1>1, <1>2, TopFacts DEF AtTop, Top, LoopAt, Depth
<1>4. FoundNothing(AfterDelayed)
  BY <1>3 DEF FoundNothing, Nothing, AfterDelayed
<1>5. Earliest(delayed) \in delayed
  BY <1>1, <1>2, Types
<1>6. QED
  BY <1>2, <1>4, <1>5 DEF TimerInv

-----------------------------------------------------------------------------
(* Who is owed a message.                                                   *)

SameMarks(s, t, n) ==
    \A i \in 1..n : (IsTask(s[i]) <=> IsTask(t[i])) /\ (Tells(s[i]) <=> Tells(t[i]))

(* Frames with no mark on top of the same frames change nothing.            *)
LEMMA OwedSame ==
    ASSUME NEW s, NEW t, NEW m \in Nat, NEW n \in Nat, m <= n, SameMarks(s, t, m),
           \A i \in 1..n : i > m => ~ Marked(s[i])
    PROVE  OwedUpTo(s, n) <=> OwedUpTo(t, m)
<1>1. \A i \in 1..m : (IsTask(s[i]) <=> IsTask(t[i])) /\ (Marked(s[i]) <=> Marked(t[i]))
  BY DEF SameMarks, Marked
<1>2. \A i \in 1..n : IsTask(s[i]) => Marked(s[i])
  BY DEF Marked
<1>3. \A i \in 1..n : i > m \/ i \in 1..m
  OBVIOUS
<1>4. ASSUME OwedUpTo(s, n) PROVE OwedUpTo(t, m)
  <2>1. PICK k \in 1..n : IsTask(s[k]) /\ \A j \in 1..n : j > k => ~ Marked(s[j])
    BY <1>4 DEF OwedUpTo
  <2>2. k \in 1..m /\ IsTask(t[k])
    BY <1>1, <1>2, <1>3, <2>1
  <2>3. \A j \in 1..m : j \in 1..n
    OBVIOUS
  <2>4. \A j \in 1..m : j > k => ~ Marked(t[j])
    BY <1>1, <2>1, <2>3
  <2>5. QED
    BY <2>2, <2>4 DEF OwedUpTo
<1>5. ASSUME OwedUpTo(t, m) PROVE OwedUpTo(s, n)
  <2>1. PICK k \in 1..m : IsTask(t[k]) /\ \A j \in 1..m : j > k => ~ Marked(t[j])
    BY <1>5 DEF OwedUpTo
  <2>2. k \in 1..n /\ IsTask(s[k])
    BY <1>1, <2>1
  <2>3. \A j \in 1..n : j > k => ~ Marked(s[j])
    BY <1>1, <1>3, <2>1
  <2>4. QED
    BY <2>2, <2>3 DEF OwedUpTo
<1>6. QED
  BY <1>4, <1>5

(* No closure is above frame j, or there is none at all.                    *)
LEMMA NotOwed ==
    ASSUME NEW s, NEW n \in Nat, NEW j \in Nat, j > 0 => Marked(s[j]) /\ j <= n,
           \A i \in 1..n : i >= j => ~ IsTask(s[i])
    PROVE  ~ OwedUpTo(s, n)
<1>1. SUFFICES ASSUME NEW k \in 1..n, IsTask(s[k]), \A i \in 1..n : i > k => ~ Marked(s[i])
               PROVE  FALSE
  BY DEF OwedUpTo
<1>2. k < j
  BY <1>1
<1>3. j > 0 /\ j \in 1..n
  BY <1>2
<1>4. QED
  BY <1>1, <1>2, <1>3

LEMMA NoTasks ==
    ASSUME NEW s, Len(s) \in Nat, \A i \in 1..Len(s) : ~ IsTask(s[i])
    PROVE  TimersOnTop(s) /\ ~ Owed(s)
<1>1. Len(s) > 1 => Len(s) \in 1..Len(s)
  OBVIOUS
<1>2. ~ OnTimer(s) /\ Base(s) = Len(s)
  BY <1>1 DEF OnTimer, Base, TimerRuns
<1>3. TimersOnTop(s)
  <2>1. \A i \in 2..Len(s) : i \in 1..Len(s)
    OBVIOUS
  <2>2. QED
    BY <2>1 DEF TimersOnTop, TimerRuns
<1>4. ~ OwedUpTo(s, Len(s))
  <2>1. PICK j \in Nat : j = 0
    OBVIOUS
  <2>2. j > 0 => Marked(s[j]) /\ j <= Len(s)
    BY <2>1
  <2>3. QED
    BY <2>2, NotOwed
<1>5. QED
  BY <1>2, <1>3, <1>4 DEF Owed

(* The closure that runs at WM_TIMER stays on top.                          *)
LEMMA TimersStay ==
    ASSUME NEW t, TimersOnTop(t), NEW s, NEW d \in Nat, Len(s) \in Nat, Len(t) \in Nat, d <= Len(t),
           \A i \in 1..Len(s) : i < d => s[i].at = t[i].at,
           \A i \in 1..Len(s) : i >= d /\ TimerRuns(s, i) => i = Len(s)
    PROVE  TimersOnTop(s)
<1>1. SUFFICES ASSUME NEW i \in 2..Len(s), TimerRuns(s, i), i < d PROVE FALSE
  BY DEF TimersOnTop
<1>2. i \in 1..Len(s) /\ i - 1 \in 1..Len(s) /\ i - 1 < d /\ i \in 2..Len(t) /\ i # Len(t)
  BY <1>1
<1>3. s[i].at = t[i].at /\ s[i - 1].at = t[i - 1].at
  BY <1>1, <1>2
<1>4. TimerRuns(t, i)
  BY <1>1, <1>3 DEF TimerRuns, IsTask
<1>5. QED
  BY <1>2, <1>4 DEF TimersOnTop

(* The activation on top returns, and the one below it goes on.             *)
LEMMA PopMarks ==
    ASSUME StackOk(stack), TimersOnTop(stack), Depth > 0
    PROVE  /\ TimersOnTop(Popped) /\ ~ OnTimer(Popped)
           /\ Owed(Popped) <=> OwedUpTo(stack, Depth - 1)
<1>1. /\ Len(Popped) = Depth - 1 /\ Depth \in Nat /\ Depth = Len(stack)
      /\ \A i \in 1..Depth - 1 : Popped[i] = stack[i]
  BY Pop DEF Depth
<1> DEFINE s == Popped
<1> HIDE DEF s
<1>2. Len(s) = Depth - 1 /\ \A i \in 1..Depth - 1 : s[i] = stack[i]
  BY <1>1 DEF s
<1>3. TimersOnTop(s)
  <2>1. Len(s) \in Nat /\ \A i \in 1..Len(s) : i < Depth /\ i \in 1..Depth - 1
    BY <1>1, <1>2
  <2>2. (\A i \in 1..Len(s) : i < Depth => s[i].at = stack[i].at) /\ Depth <= Len(stack)
    BY <1>1, <1>2, <2>1
  <2>3. \A i \in 1..Len(s) : i >= Depth /\ TimerRuns(s, i) => i = Len(s)
    <3>1. \A i \in 1..Len(s) : ~ (i >= Depth)
      BY <1>1, <2>1
    <3>2. QED
      BY <3>1
  <2>4. QED
    BY <1>1, <2>1, <2>2, <2>3, TimersStay
<1>4. ~ OnTimer(s)
  <2>1. SUFFICES ASSUME Len(s) > 1, TimerRuns(s, Len(s)) PROVE FALSE
    BY DEF OnTimer
  <2>2. PICK n \in 2..Len(stack) : n = Len(s) /\ n \in 1..Depth - 1 /\ n - 1 \in 1..Depth - 1
                                   /\ n # Len(stack)
    BY <1>1, <1>2, <2>1
  <2>3. TimerRuns(stack, n)
    BY <1>2, <2>1, <2>2 DEF TimerRuns
  <2>4. QED
    BY <2>2, <2>3 DEF TimersOnTop
<1>5. Owed(s) <=> OwedUpTo(stack, Depth - 1)
  <2>1. PICK n \in Nat : n = Depth - 1 /\ n <= n
    BY <1>1
  <2>2. SameMarks(s, stack, n) /\ \A i \in 1..n : i > n => ~ Marked(s[i])
    BY <1>2, <2>1 DEF SameMarks
  <2>3. OwedUpTo(s, n) <=> OwedUpTo(stack, n)
    BY <2>1, <2>2, OwedSame
  <2>4. Base(s) = n
    BY <1>2, <1>4, <2>1 DEF Base
  <2>5. QED
    BY <2>1, <2>3, <2>4 DEF Owed
<1>6. QED
  BY <1>3, <1>4, <1>5 DEF s

LEMMA PopUnmarked ==
    ASSUME StackOk(stack), TimersOnTop(stack), Depth > 0, ~ Marked(Top)
    PROVE  TimersOnTop(Popped) /\ ~ OnTimer(Popped) /\ (Owed(Popped) <=> Owed(stack))
<1>1. Depth \in Nat /\ Top = stack[Depth] /\ Depth = Len(stack)
  BY Pop DEF Top, Depth
<1>2. PICK n \in Nat : n = Depth - 1 /\ n <= Depth /\ \A i \in 1..Depth : i > n => i = Depth
  BY <1>1
<1>3. SameMarks(stack, stack, n) /\ \A i \in 1..Depth : i > n => ~ Marked(stack[i])
  BY <1>1, <1>2 DEF SameMarks
<1>4. OwedUpTo(stack, Depth) <=> OwedUpTo(stack, n)
  BY <1>1, <1>2, <1>3, OwedSame
<1>5. Base(stack) = Depth
  BY <1>1 DEF Base, OnTimer, TimerRuns, Marked
<1>6. QED
  BY <1>2, <1>4, <1>5, PopMarks DEF Owed

(* The activation on top goes on, or makes a call.                          *)
LEMMA TopMarks ==
    ASSUME StackOk(stack), TimersOnTop(stack), Depth > 0, NEW s, Len(s) = Depth,
           \A i \in 1..Depth - 1 : s[i].at = stack[i].at,
           IsTask(s[Depth]) <=> IsTask(Top), Tells(s[Depth]) <=> Tells(Top)
    PROVE  /\ TimersOnTop(s) /\ (OnTimer(s) <=> OnTimer(stack)) /\ (Owed(s) <=> Owed(stack))
           /\ SameMarks(s, stack, Depth)
<1>1. Depth \in Nat /\ Top = stack[Depth] /\ Depth = Len(stack)
  BY Pop DEF Top, Depth
<1>2. \A i \in 1..Depth : i < Depth => i \in 1..Depth - 1
  BY <1>1
<1>3. \A i \in 1..Depth : i < Depth => s[i].at = stack[i].at
  BY <1>2
<1>4. \A i \in 1..Depth : i >= Depth /\ TimerRuns(s, i) => i = Depth
  BY <1>1
<1>5. TimersOnTop(s)
  BY <1>1, <1>3, <1>4, TimersStay
<1>6. OnTimer(s) <=> OnTimer(stack)
  <2>1. Depth > 1 => s[Depth - 1].at = stack[Depth - 1].at
    BY <1>1
  <2>2. QED
    BY <1>1, <2>1 DEF OnTimer, TimerRuns
<1>7. SameMarks(s, stack, Depth)
  <2>1. \A i \in 1..Depth : i < Depth \/ i = Depth
    BY <1>1
  <2>2. QED
    BY <1>1, <1>3, <2>1 DEF SameMarks, IsTask, Tells
<1>8. PICK n \in Nat : n = Base(s) /\ n = Base(stack) /\ n <= n /\ n <= Depth
  <2>1. Base(s) = Base(stack) /\ (Base(stack) = Depth \/ Base(stack) = Depth - 1)
    BY <1>1, <1>6 DEF Base
  <2>2. Depth - 1 \in Nat /\ Depth - 1 <= Depth - 1 /\ Depth - 1 <= Depth /\ Depth <= Depth
    BY <1>1
  <2>3. QED
    BY <1>1, <2>1, <2>2
<1>9. SameMarks(s, stack, n) /\ \A i \in 1..n : i > n => ~ Marked(s[i])
  <2>1. \A i \in 1..n : i \in 1..Depth /\ ~ (i > n)
    BY <1>1, <1>8
  <2>2. QED
    BY <1>7, <2>1 DEF SameMarks
<1>10. OwedUpTo(s, n) <=> OwedUpTo(stack, n)
  BY <1>8, <1>9, OwedSame
<1>11. QED
  BY <1>5, <1>6, <1>7, <1>8, <1>10 DEF Owed

(* A new activation on top.                                                 *)
LEMMA PushMarks ==
    ASSUME StackOk(stack), TimersOnTop(stack), Depth > 0, ~ OnTimer(stack),
           NEW s, Len(s) = Depth + 1, SameMarks(s, stack, Depth), \A i \in 1..Depth - 1 :
           s[i].at = stack[i].at, ~ Marked(s[Depth + 1])
    PROVE  TimersOnTop(s) /\ ~ OnTimer(s) /\ (Owed(s) <=> Owed(stack))
<1>1. Depth \in Nat /\ Top = stack[Depth] /\ Depth = Len(stack)
  BY Pop DEF Top, Depth
<1>2. PICK n \in Nat : n = Depth + 1 /\ Depth <= n /\ \A i \in 1..n : i > Depth => i = n
  BY <1>1
<1>3. ~ IsTask(s[n]) /\ ~ Marked(s[n])
  BY <1>2 DEF Marked
<1>4. \A i \in 1..n : i < Depth => s[i].at = stack[i].at
  BY <1>1
<1>5. ~ TimerRuns(s, Depth) \/ Depth = 1
  <2>1. SUFFICES ASSUME Depth # 1, TimerRuns(s, Depth) PROVE FALSE
    OBVIOUS
  <2>2. Depth > 1 /\ Depth - 1 \in 1..Depth - 1 /\ Depth \in 1..Depth
    BY <1>1, <2>1
  <2>3. TimerRuns(stack, Depth)
    BY <2>1, <2>2 DEF TimerRuns, SameMarks
  <2>4. QED
    BY <1>1, <2>2, <2>3 DEF OnTimer
<1>6. TimersOnTop(s)
  <2>1. SUFFICES ASSUME NEW i \in 2..n, TimerRuns(s, i) PROVE i = n
    BY <1>2 DEF TimersOnTop
  <2>2. i # n /\ i # Depth
    <3>1. i # n
      BY <1>3, <2>1 DEF TimerRuns
    <3>2. i # 1
      OBVIOUS
    <3>3. QED
      BY <1>5, <2>1, <3>1, <3>2
  <2>3. i < Depth /\ i \in 1..n /\ i - 1 \in 1..n /\ i - 1 < Depth /\ i \in 2..Depth
    BY <1>1, <1>2, <2>2
  <2>4. TimerRuns(stack, i)
    BY <1>4, <2>1, <2>3 DEF TimerRuns, IsTask
  <2>5. QED
    BY <1>1, <2>2, <2>3, <2>4 DEF TimersOnTop
<1>7. ~ OnTimer(s) /\ Base(s) = n
  BY <1>2, <1>3 DEF OnTimer, TimerRuns, Base
<1>8. \A i \in 1..n : i > Depth => ~ Marked(s[i])
  BY <1>2, <1>3
<1>9. OwedUpTo(s, n) <=> OwedUpTo(stack, Depth)
  BY <1>1, <1>2, <1>8, OwedSame
<1>10. QED
  BY <1>1, <1>6, <1>7, <1>9 DEF Owed, Base

(* Outside of Run there is no closure, and none at the loop's positions.    *)
LEMMA OutsideRun ==
    ASSUME NEW s, StackOk(s), \/ Len(s) > 0 /\ s[1].at \notin LoopAt
                              \/ Len(s) = 1
                              \/ Len(s) = 0
    PROVE  TimersOnTop(s) /\ ~ Owed(s)
<1>1. Len(s) \in Nat /\ \A i \in 1..Len(s) : FrameOk(s, i)
  BY DEF StackOk
<1>2. ASSUME NEW i \in 1..Len(s), IsTask(s[i]) PROVE FALSE
  <2>1. s[i].at = "task" /\ FrameOk(s, i)
    BY <1>1, <1>2 DEF IsTask
  <2>2. i # 1 /\ s[1].at \in LoopAt
    BY <2>1 DEF FrameOk
  <2>3. Len(s) # 0 /\ Len(s) # 1
    <3>1. \A j \in 1..1 : j = 1
      OBVIOUS
    <3>2. 1..0 = {}
      OBVIOUS
    <3>3. i \in 1..Len(s) /\ i # 1
      BY <2>2
    <3>4. QED
      BY ONLY <3>1, <3>2, <3>3
  <2>4. QED
    BY <2>2, <2>3
<1>3. QED
  BY <1>1, <1>2, NoTasks

(* A task starts, above the position where DoWork or DoDelayedWork returns. *)
LEMMA RunMarks ==
    ASSUME StackOk(stack), TimersOnTop(stack), Depth > 0, AtDoWork \/ AtDoDelayedWork,
           NEW t \in Tasks, Top.at = "timer" => t \in Delayed, RunTask(t)
    PROVE  /\ TimersOnTop(stack')
           /\ Top.at # "timer" => ~ OnTimer(stack')
           /\ Top.at = "timer" => (Owed(stack') <=> Owed(stack))
<1>1. Depth \in Nat /\ Top = stack[Depth] /\ Depth = Len(stack)
  BY Pop DEF Top, Depth
<1> DEFINE s == stack'
<1>2. /\ Len(s) = Depth + 1 /\ s[Depth + 1] = TaskFrame(t) /\ s[Depth] = DidWork
      /\ \A i \in 1..Depth - 1 : s[i] = stack[i]
  BY RunTaskStep
<1> HIDE DEF s
<1>3. DidWork.at = CASE Top.at = "work"      -> "delayed"
                     [] Top.at = "have work" -> "have work end"
                     [] Top.at = "delayed"   -> "delayed end"
                     [] Top.at = "timer"     -> "timer end"
  <2>1. Top \in Frames
    BY Pop
  <2>2. QED
    BY <2>1 DEF DidWork, Frames
<1>4. /\ ~ IsTask(s[Depth]) /\ (Top.at = "timer" <=> s[Depth].at = "timer end")
      /\ Top.at = "timer" => ~ Tells(s[Depth]) /\ ~ Marked(Top)
  BY <1>2, <1>3 DEF IsTask, Tells, Marked, AtDoWork, AtDoDelayedWork, AtTop
<1>5. PICK n \in Nat : n = Depth + 1 /\ n - 1 = Depth /\ n > 1 /\ Len(s) = n
                       /\ \A i \in 1..n : i >= Depth => i = n \/ i = Depth
  BY <1>1, <1>2
<1>6. IsTask(s[n])
  BY <1>2, <1>5 DEF IsTask, TaskFrame, Frame
<1>7. \A i \in 1..n : i < Depth => s[i].at = stack[i].at
  BY <1>1, <1>2
<1>8. TimersOnTop(s)
  <2>1. \A i \in 1..n : i >= Depth /\ TimerRuns(s, i) => i = n
    BY <1>4, <1>5 DEF TimerRuns
  <2>2. Len(s) \in Nat /\ Len(stack) \in Nat /\ Depth <= Len(stack)
    BY <1>1, <1>5
  <2>3. /\ \A i \in 1..Len(s) : i < Depth => s[i].at = stack[i].at
        /\ \A i \in 1..Len(s) : i >= Depth /\ TimerRuns(s, i) => i = Len(s)
    BY <1>5, <1>7, <2>1
  <2>4. QED
    BY <1>1, <2>2, <2>3, TimersStay
<1>9. OnTimer(s) <=> Top.at = "timer"
  BY <1>4, <1>5, <1>6 DEF OnTimer, TimerRuns
<1>10. ASSUME Top.at = "timer" PROVE Owed(s) <=> Owed(stack)
  <2>1. Base(s) = Depth /\ Base(stack) = Depth
    BY <1>1, <1>4, <1>5, <1>9, <1>10 DEF Base, OnTimer, TimerRuns, Marked
  <2>2. ~ IsTask(Top) /\ ~ Tells(Top) /\ ~ Tells(s[Depth])
    BY <1>4, <1>10 DEF Marked
  <2>3. SameMarks(s, stack, Depth)
    <3>1. \A i \in 1..Depth : i = Depth \/ i \in 1..Depth - 1
      BY <1>1
    <3>2. QED
      BY <1>1, <1>2, <1>4, <2>2, <3>1 DEF SameMarks
  <2>4. Depth <= Depth /\ \A i \in 1..Depth : ~ (i > Depth)
    BY <1>1
  <2>5. OwedUpTo(s, Depth) <=> OwedUpTo(stack, Depth)
    BY <1>1, <2>3, <2>4, OwedSame
  <2>6. QED
    BY <2>1, <2>5 DEF Owed
<1>11. QED
  BY <1>8, <1>9, <1>10 DEF s

-----------------------------------------------------------------------------
(* Every step keeps NoticeInv.                                              *)

LEMMA NoticeNext ==
    ASSUME TimersOnTop(stack'),
           (nestableAllowed' \/ OnTimer(stack')) /\ HasWork' /\ Owed(stack') => haveWork' \/ Scheduling'
    PROVE  NoticeInv'
<1>1. TimersOnTop(stack)' = TimersOnTop(stack')
  BY DEF TimersOnTop, TimerRuns, IsTask
<1>2. OnTimer(stack)' = OnTimer(stack') /\ Base(stack)' = Base(stack')
  BY DEF Base, OnTimer, TimerRuns, IsTask
<1>3. Owed(stack)' = Owed(stack')
  BY <1>2 DEF Owed, OwedUpTo, Marked, IsTask, Tells
<1>4. QED
  BY <1>1, <1>2, <1>3 DEF NoticeInv

LEMMA NoticeKept ==
    ASSUME NoticeInv, TimersOnTop(stack'), UNCHANGED <<haveWork, poster>>, HasWork' => HasWork,
           (nestableAllowed' \/ OnTimer(stack')) /\ Owed(stack') =>
               (nestableAllowed \/ OnTimer(stack)) /\ Owed(stack)
    PROVE  NoticeInv'
<1>1. Scheduling' = Scheduling
  BY DEF Scheduling
<1>2. QED
  BY <1>1, NoticeNext DEF NoticeInv

LEMMA NoticeStack ==
    ASSUME NoticeInv, UNCHANGED <<haveWork, poster, stack, nestableAllowed>>, HasWork' => HasWork
    PROVE  NoticeInv'
BY NoticeKept DEF NoticeInv

LEMMA NoticeOutside ==
    ASSUME StackOk(stack'), Len(stack') = 0 \/ Len(stack') = 1
    PROVE  NoticeInv'
BY OutsideRun, NoticeNext

LEMMA NoticePosted ==
    ASSUME TypeOK, NoticeInv, NEW p \in Posters, PosterStep(p)
    PROVE  NoticeInv'
<1>1. poster \in [Posters -> {"idle", "schedule", "post"}] /\ haveWork \in BOOLEAN
  BY Types
<1>2. UNCHANGED <<stack, work, nestableAllowed>>
  BY DEF PosterStep, PostTask, ExchangeHaveWork, PostHaveWork, loopVars, modeVars
<1>3. SUFFICES ASSUME (nestableAllowed \/ OnTimer(stack)) /\ Owed(stack), HasWork'
               PROVE  haveWork' \/ Scheduling'
  BY <1>2, NoticeNext DEF NoticeInv
<1>4. HasWork => haveWork \/ Scheduling
  BY <1>3 DEF NoticeInv
<1>5. ASSUME NEW t \in Tasks, PostTask(p, t) PROVE haveWork' \/ Scheduling'
  <2>1. /\ poster[p] = "idle" /\ haveWork' = haveWork
        /\ poster' = [poster EXCEPT ![p] = IF incoming = << >> THEN "schedule" ELSE "idle"]
    BY <1>5 DEF PostTask
  <2>2. CASE incoming = << >>
    BY <1>1, <2>1, <2>2 DEF Scheduling
  <2>3. CASE incoming # << >>
    BY <1>1, <1>4, <2>1, <2>3 DEF Scheduling, HasWork
  <2>4. QED
    BY <2>2, <2>3
<1>6. CASE ExchangeHaveWork(p)
  BY <1>6 DEF ExchangeHaveWork
<1>7. CASE PostHaveWork(p)
  <2>1. /\ poster[p] = "post" /\ haveWork' = haveWork /\ incoming' = incoming
        /\ poster' = [poster EXCEPT ![p] = "idle"]
    BY <1>7 DEF PostHaveWork, loopVars
  <2>2. haveWork \/ Scheduling
    BY <1>2, <1>3, <1>4, <2>1 DEF HasWork
  <2>3. QED
    BY <1>1, <2>1, <2>2 DEF Scheduling
<1>8. QED
  BY <1>5, <1>6, <1>7 DEF PosterStep

LEMMA GotoFrames ==
    ASSUME StackOk(stack), Depth > 0, NEW at \in At
    PROVE  /\ Len(Goto(at)) = Depth /\ Goto(at)[Depth].at = at
           /\ \A i \in 1..Depth - 1 : Goto(at)[i] = stack[i]
<1>1. [Top EXCEPT !.at = at] \in Frames /\ [Top EXCEPT !.at = at].at = at
  BY Pop DEF Frames
<1>2. QED
  BY <1>1, Becomes DEF Goto

(* Where the loop goes on by itself.                                        *)
LEMMA NoticeLoop ==
    ASSUME StackOk(stack), StackOk(stack'), Depth > 0, Top.at \in LoopAt, NEW at \in At,
           stack' = Goto(at) \/ stack' = Popped
    PROVE  NoticeInv'
<1>1. Depth = 1
  BY TopFacts
<1>2. Len(Goto(at)) = 1 /\ Len(Popped) = 0
  BY <1>1, GotoFrames, Pop
<1>3. QED
  BY <1>2, NoticeOutside

LEMMA NoticeTaken ==
    ASSUME TypeOK, StackOk(stack), ProcessNextWindowsMessage
    PROVE  NoticeInv'
<1>1. /\ stack'[1].at = "work"
      /\ \/ Len(stack') = 1
         \/ Len(stack') = 2 /\ stack'[2].at \in {"dispatch", "timer", "replace"}
  BY ProcessNextStep
<1>2. Len(stack') \in Nat /\ \A i \in 1..Len(stack') : i = 1 \/ (i = 2 /\ Len(stack') = 2)
  <2>1. Len(stack') = 1 \/ Len(stack') = 2
    BY <1>1
  <2>2. (\A i \in 1..1 : i = 1) /\ (\A i \in 1..2 : i = 1 \/ i = 2)
    OBVIOUS
  <2>3. CASE Len(stack') = 1
    BY ONLY <2>2, <2>3
  <2>4. CASE Len(stack') = 2
    BY ONLY <2>2, <2>4
  <2>5. QED
    BY <2>1, <2>3, <2>4
<1>3. \A i \in 1..Len(stack') : ~ IsTask(stack'[i])
  BY <1>1, <1>2 DEF IsTask
<1>4. QED
  BY <1>2, <1>3, NoTasks, NoticeNext

LEMMA NoticeDispatched ==
    ASSUME TypeOK, StackOk(stack), NoticeInv, DispatchInModalLoop
    PROVE  NoticeInv'
<1>1. /\ Depth > 0 /\ Depth \in Nat /\ Top = stack[Depth] /\ Top.at = "modal"
      /\ Depth = Len(stack) /\ TimersOnTop(stack)
      /\ UNCHANGED <<incoming, work, nestableAllowed, poster>>
  BY Pop DEF DispatchInModalLoop, AtTop, Top, Depth, NoticeInv, loopVars, modeVars, worldVars
<1>2. StackOk(stack') /\ \E m \in AnyMessage : Dispatched(m)
  BY DispatchStep
<1>3. PICK m \in AnyMessage : Dispatched(m)
  BY <1>2
<1>4. ~ IsTask(Top) /\ ~ OnTimer(stack)
  BY <1>1 DEF IsTask, OnTimer, TimerRuns
<1>5. CASE ~ InRun /\ stack' = stack
  <2>1. TimersOnTop(stack) /\ ~ Owed(stack)
    BY <1>1, <1>5, OutsideRun DEF InRun
  <2>2. QED
    BY <1>5, <2>1, NoticeNext
<1>6. CASE InRun /\ stack' = stack
  <2>1. haveWork' = haveWork
    BY <1>3, <1>6, Types DEF Dispatched
  <2>2. QED
    BY <1>1, <1>6, <2>1, NoticeStack DEF HasWork
<1>7. CASE Grown(stack', 1) /\ HandlerOf(stack'[Len(stack')], m.msg)
  <2>1. Len(stack') = Depth + 1 /\ \A i \in 1..Depth : stack'[i] = stack[i]
    BY <1>7 DEF Grown
  <2>2. ~ Marked(stack'[Depth + 1])
    BY <1>7, <2>1 DEF Marked, IsTask, Tells, HandlerOf
  <2>3. SameMarks(stack', stack, Depth) /\ \A i \in 1..Depth - 1 : stack'[i].at = stack[i].at
    BY <1>1, <2>1 DEF SameMarks
  <2>4. TimersOnTop(stack') /\ ~ OnTimer(stack') /\ (Owed(stack') <=> Owed(stack))
    BY <1>1, <1>4, <2>1, <2>2, <2>3, PushMarks
  <2>5. (m.msg = "have work" => InRun) => haveWork' = haveWork
    BY <1>3, Types DEF Dispatched
  <2>6. CASE m.msg = "have work" => InRun
    BY <1>1, <2>4, <2>5, <2>6, NoticeKept DEF HasWork
  <2>7. CASE ~ InRun
    <3>1. ~ Owed(stack)
      BY <1>1, <2>7, OutsideRun DEF InRun
    <3>2. QED
      BY <2>4, <3>1, NoticeNext
  <2>8. QED
    BY <2>6, <2>7
<1>8. CASE Grown(stack', 2) /\ stack'[Depth + 1].at = "have work"
  <2>1. Len(stack') = Depth + 2 /\ \A i \in 1..Depth : stack'[i] = stack[i]
    BY <1>8 DEF Grown
  <2>2. PICK n \in Nat : n = Depth + 2 /\ n - 1 = Depth + 1 /\ n > 1 /\ n \in 1..Len(stack')
                         /\ Depth + 1 \in Nat /\ Depth + 1 > 0 /\ Depth + 1 <= n
                         /\ \A i \in 1..n : i >= Depth => i = n \/ i = Depth + 1 \/ i = Depth
    BY <1>1, <2>1
  <2>3. FrameOk(stack', n) /\ stack'[n - 1].at = "have work"
    BY <1>2, <1>8, <2>2 DEF StackOk
  <2>4. ~ IsTask(stack'[n]) /\ ~ IsTask(stack'[Depth + 1]) /\ Marked(stack'[Depth + 1])
        /\ ~ IsTask(stack'[Depth])
    <3>1. ~ IsTask(stack'[Depth])
      BY <1>1, <1>4, <2>1, Positions
    <3>2. ~ IsTask(stack'[n])
      BY <2>3 DEF FrameOk, IsTask
    <3>3. ~ IsTask(stack'[Depth + 1]) /\ Marked(stack'[Depth + 1])
      BY <1>8 DEF IsTask, Tells, Marked
    <3>4. QED
      BY <3>1, <3>2, <3>3
  <2>5. /\ \A i \in 1..n : i >= Depth => ~ IsTask(stack'[i])
        /\ \A i \in 1..n : i >= Depth + 1 => i >= Depth
    BY <1>1, <2>2, <2>4
  <2>6. TimersOnTop(stack')
    <3>1. /\ Len(stack') \in Nat /\ Len(stack) \in Nat /\ Depth <= Len(stack)
          /\ \A i \in 1..Len(stack') : i < Depth => stack'[i].at = stack[i].at
      BY <1>1, <2>1
    <3>2. \A i \in 1..Len(stack') : i >= Depth /\ TimerRuns(stack', i) => i = Len(stack')
      BY <2>1, <2>2, <2>5 DEF TimerRuns
    <3>3. QED
      BY <1>1, <3>1, <3>2, TimersStay
  <2>7. ~ OwedUpTo(stack', n)
    BY <2>2, <2>4, <2>5, NotOwed
  <2>8. ~ Owed(stack')
    <3>1. Len(stack') = n
      BY <2>1, <2>2
    <3>2. Base(stack') = n
      BY <2>4, <3>1 DEF Base, OnTimer, TimerRuns
    <3>3. QED
      BY <2>7, <3>2 DEF Owed
  <2>9. QED
    BY <2>6, <2>8, NoticeNext
<1>9. QED
  BY <1>3, <1>5, <1>6, <1>7, <1>8 DEF Dispatched

(* HandleWorkMessage takes another message, or none and goes on to DoWork.  *)
LEMMA NoticeReplaced ==
    ASSUME TypeOK, StackOk(stack), NoticeInv, ProcessPumpReplacementMessage
    PROVE  NoticeInv'
<1>1. /\ Depth > 0 /\ Depth \in Nat /\ Depth = Len(stack) /\ TimersOnTop(stack)
      /\ Top.at = "replace" /\ Top = stack[Depth]
  BY Pop DEF ProcessPumpReplacementMessage, AtTop, Depth, NoticeInv, Top
<1>2. /\ StackOk(stack') /\ Depth > 1 /\ CallsPump(stack[Depth - 1])
      /\ \/ haveWork' = FALSE /\ stack' = Popped
         \/ \E m \in AnyMessage \cup TimerMessage : Replacing(m)
  BY ReplacementStep
<1>3. PICK n \in Nat : n = Depth - 1 /\ n > 0 /\ n \in 1..Depth /\ n <= n
  BY <1>1, <1>2
<1>4. CASE stack' = Popped
  <2>1. TimersOnTop(stack') /\ (Owed(stack') <=> OwedUpTo(stack, n))
    BY <1>1, <1>3, <1>4, PopMarks
  <2>2. CASE stack[n].at = "work"
    <3>1. FrameOk(stack, n)
      BY <1>1, <1>3 DEF StackOk
    <3>2. n = 1
      BY <2>2, <3>1 DEF FrameOk, LoopAt
    <3>3. Len(stack') = 1
      BY <1>1, <1>3, <1>4, <3>2, Pop
    <3>4. QED
      BY <1>2, <3>3, NoticeOutside
  <2>3. CASE stack[n].at = "have work"
    <3>1. Marked(stack[n]) /\ ~ IsTask(stack[n])
      BY <2>3 DEF Marked, Tells, IsTask
    <3>2. \A i \in 1..n : i >= n => i = n
      OBVIOUS
    <3>3. ~ OwedUpTo(stack, n)
      BY <1>3, <3>1, <3>2, NotOwed
    <3>4. QED
      BY <2>1, <3>3, NoticeNext
  <2>4. QED
    BY <1>2, <1>3, <2>2, <2>3 DEF CallsPump
<1>5. ASSUME NEW m \in AnyMessage \cup TimerMessage, Replacing(m) PROVE NoticeInv'
  <2>1. /\ haveWork' = TRUE /\ Len(stack') = Depth
        /\ stack'[Depth].at \in {"dispatch", "timer", "replace"}
        /\ \A i \in 1..Depth - 1 : stack'[i].at = stack[i].at
    BY <1>5 DEF Replacing, HandlerOf
  <2>2. \A i \in 1..Depth : i < Depth => i \in 1..Depth - 1
    BY <1>1
  <2>3. ~ IsTask(stack'[Depth]) /\ \A i \in 1..Depth : i >= Depth => i = Depth
    BY <1>1, <2>1 DEF IsTask
  <2>4. TimersOnTop(stack')
    <3>1. \A i \in 1..Len(stack') : i < Depth => stack'[i].at = stack[i].at
      BY <2>1, <2>2
    <3>2. \A i \in 1..Len(stack') : i >= Depth /\ TimerRuns(stack', i) => i = Len(stack')
      BY <2>1, <2>3
    <3>3. Len(stack') \in Nat /\ Len(stack) \in Nat /\ Depth <= Len(stack)
      BY <1>1, <2>1
    <3>4. QED
      BY <1>1, <3>1, <3>2, <3>3, TimersStay
  <2>5. QED
    BY <2>1, <2>4, NoticeNext
<1>6. QED
  BY <1>2, <1>4, <1>5

(* The program's calls.                                                     *)
LEMMA CallMarks ==
    ASSUME StackOk(stack), TimersOnTop(stack), NEW op, CanCall(op)
    PROVE  /\ TimersOnTop(Called(op)) /\ (OnTimer(Called(op)) <=> OnTimer(stack))
           /\ Owed(Called(op)) <=> Owed(stack)
           /\ SameMarks(Called(op), stack, Depth)
           /\ Depth > 0 /\ Called(op) \in Seq(Frames) /\ Len(Called(op)) = Depth
           /\ \A i \in 1..Depth - 1 : Called(op)[i] = stack[i]
<1>1. /\ Depth > 0 /\ Len(Called(op)) = Depth /\ Called(op)[Depth].at = Top.at
      /\ \A i \in 1..Depth - 1 : Called(op)[i] = stack[i]
      /\ Called(op) \in Seq(Frames)
  BY CallEffect DEF StackOk
<1>2. (IsTask(Called(op)[Depth]) <=> IsTask(Top)) /\ (Tells(Called(op)[Depth]) <=> Tells(Top))
  BY <1>1 DEF IsTask, Tells
<1>3. QED
  BY <1>1, <1>2, TopMarks

LEMMA NoticeCalled ==
    ASSUME StackOk(stack), NoticeInv, AllowNestableTasks \/ Quit
    PROVE  NoticeInv'
<1>1. TimersOnTop(stack)
  BY DEF NoticeInv
<1>2. CASE Quit
  <2>1. CanCall("Quit") /\ stack' = Called("Quit")
        /\ UNCHANGED <<incoming, work, haveWork, poster, nestableAllowed>>
    BY <1>2 DEF Quit, loopVars, worldVars
  <2>2. QED
    BY <1>1, <2>1, CallMarks, NoticeKept DEF HasWork
<1>3. CASE AllowNestableTasks
  <2>1. CanCall("Allow") /\ stack' = Called("Allow") /\ UNCHANGED <<incoming, work, poster>>
        /\ IF nestableAllowed THEN haveWork' = haveWork ELSE haveWork' = TRUE
    BY <1>3 DEF AllowNestableTasks, ScheduleWork, loopVars, worldVars
  <2>2. TimersOnTop(stack') /\ (Owed(stack') <=> Owed(stack))
    BY <1>1, <2>1, CallMarks
  <2>3. CASE nestableAllowed
    BY <2>1, <2>2, <2>3, NoticeKept DEF HasWork
  <2>4. CASE ~ nestableAllowed
    BY <2>1, <2>2, <2>4, NoticeNext
  <2>5. QED
    BY <2>3, <2>4
<1>4. QED
  BY <1>2, <1>3

LEMMA NoticeModal ==
    ASSUME TimersOpenNoModal, StackOk(stack), NoticeInv, NEW told \in BOOLEAN, EnterModalLoop(told)
    PROVE  NoticeInv'
<1>1. /\ TimersOnTop(stack) /\ Frame("modal") \in Frames /\ Frame("modal").at = "modal"
      /\ UNCHANGED <<incoming, work, haveWork, poster, nestableAllowed>>
  BY FrameTypes DEF NoticeInv, Frame, At, EnterModalLoop, loopVars, worldVars
<1>2. CASE stack' = << Frame("modal") >>
  <2>1. StackOk(stack')
    BY EnterModalLoopStep DEF Keeps
  <2>2. Len(stack') = 1
    BY <1>2
  <2>3. QED
    BY <2>1, <2>2, NoticeOutside
<1>3. CASE CanCall("Modal") /\ stack' = Append(Called("Modal"), Frame("modal"))
  <2> DEFINE c == Called("Modal")
  <2>1. /\ SameMarks(c, stack, Depth) /\ Depth > 0 /\ c \in Seq(Frames) /\ Len(c) = Depth
        /\ \A i \in 1..Depth - 1 : c[i] = stack[i]
    BY <1>1, <1>3, CallMarks
  <2> HIDE DEF c
  <2>2. Len(stack') = Depth + 1 /\ stack'[Depth + 1] = Frame("modal")
        /\ \A i \in 1..Depth : stack'[i] = c[i]
    <3>1. stack' = Append(c, Frame("modal"))
      BY <1>3 DEF c
    <3>2. QED
      BY <1>1, <2>1, <3>1, Push
  <2>3. Depth \in Nat /\ FrameOk(stack, Depth) /\ Top = stack[Depth] /\ Depth = Len(stack)
    BY <2>1, Pop DEF Top, Depth
  <2>4. /\ SameMarks(stack', stack, Depth) /\ \A i \in 1..Depth - 1 : stack'[i].at = stack[i].at
    <3>1. SameMarks(stack', stack, Depth)
      BY <2>1, <2>2 DEF SameMarks
    <3>2. \A i \in 1..Depth - 1 : i \in 1..Depth
      BY <2>3
    <3>3. QED
      BY <2>1, <2>2, <3>1, <3>2
  <2>5. ~ Marked(stack'[Depth + 1])
    BY <1>1, <2>2 DEF Marked, IsTask, Tells
  <2>6. ~ OnTimer(stack)
    <3>1. SUFFICES ASSUME IsTask(Top), stack[Depth - 1].at = "timer end" PROVE FALSE
      BY <2>3 DEF OnTimer, TimerRuns
    <3>2. Top.task \in Delayed /\ Top.ops \subseteq Script[Top.task]
      BY <2>3, <3>1 DEF FrameOk, IsTask
    <3>3. QED
      BY <1>3, <3>2 DEF CanCall, TimersOpenNoModal
  <2>7. TimersOnTop(stack') /\ ~ OnTimer(stack') /\ (Owed(stack') <=> Owed(stack))
    BY <1>1, <2>1, <2>2, <2>4, <2>5, <2>6, PushMarks
  <2>8. QED
    BY <1>1, <2>7, NoticeKept DEF HasWork
<1>4. QED
  BY <1>2, <1>3 DEF EnterModalLoop

(* A handler returns.                                                       *)
LEMMA NoticeReturned ==
    ASSUME StackOk(stack), NoticeInv, FinishDispatch \/ EndHandleTimerMessage \/ LeaveModalLoop
    PROVE  NoticeInv'
<1>1. /\ Depth > 0 /\ ~ Marked(Top) /\ stack' = Popped /\ TimersOnTop(stack)
      /\ UNCHANGED <<incoming, work, haveWork, poster, nestableAllowed>>
  BY DEF FinishDispatch, EndHandleTimerMessage, LeaveModalLoop, AtTop, Marked, IsTask, Tells,
         NoticeInv, loopVars, worldVars, modeVars
<1>2. QED
  BY <1>1, PopUnmarked, NoticeKept DEF HasWork

LEMMA NoticeHandled ==
    ASSUME StackOk(stack), NoticeInv, EndHandleWorkMessage
    PROVE  NoticeInv'
<1>1. Depth > 0 /\ stack' = Popped /\ TimersOnTop(stack) /\ haveWork' = TRUE
  BY DEF EndHandleWorkMessage, ScheduleWork, AtTop, NoticeInv
<1>2. QED
  BY <1>1, PopMarks, NoticeNext

(* A task starts.                                                           *)
LEMMA NoticeRun ==
    ASSUME TypeOK, StackOk(stack), TimesInv, NoticeInv, RunWork \/ RunDelayedWork
    PROVE  NoticeInv'
<1>1. TimersOnTop(stack) /\ UNCHANGED <<haveWork, poster>> /\ nestableAllowed' = FALSE
      /\ nestableAllowed /\ Depth > 0
  BY DEF NoticeInv, RunWork, RunDelayedWork, RunTask, AtDoWork, AtDoDelayedWork, AtTop, worldVars
<1>2. CASE RunWork
  <2>1. AtDoWork /\ Top.at # "timer" /\ work # << >> /\ RunTask(Head(work).task)
    BY <1>2 DEF RunWork, AtDoWork, AtTop
  <2>2. Head(work).task \in Tasks
    BY <2>1, Types DEF Entry
  <2>3. TimersOnTop(stack') /\ ~ OnTimer(stack')
    BY <1>1, <2>1, <2>2, RunMarks
  <2>4. QED
    BY <1>1, <2>3, NoticeNext
<1>3. CASE RunDelayedWork
  <2>1. AtDoDelayedWork /\ delayed # {} /\ RunTask(Earliest(delayed).task)
        /\ UNCHANGED <<incoming, work>>
    BY <1>3 DEF RunDelayedWork
  <2>2. Earliest(delayed) \in delayed
    BY <2>1, Types
  <2>3. Earliest(delayed).task \in Delayed /\ Earliest(delayed).task \in Tasks
    BY <2>2, TasksAssumption DEF TimesInv
  <2>4. /\ TimersOnTop(stack') /\ (Top.at # "timer" => ~ OnTimer(stack'))
        /\ Top.at = "timer" => (Owed(stack') <=> Owed(stack))
    BY <1>1, <2>1, <2>3, RunMarks
  <2>5. CASE Top.at = "timer"
    BY <1>1, <2>1, <2>4, <2>5, NoticeKept DEF HasWork
  <2>6. CASE Top.at # "timer"
    BY <1>1, <2>4, <2>6, NoticeNext
  <2>7. QED
    BY <2>5, <2>6
<1>4. QED
  BY <1>2, <1>3

(* DoWork and DoDelayedWork find nothing to do.                             *)
LEMMA NoticeDoWork ==
    ASSUME TypeOK, StackOk(stack), StackOk(stack'), NoticeInv, EndDoWork
    PROVE  NoticeInv'
<1>1. /\ Depth > 0 /\ Depth \in Nat /\ Depth = Len(stack) /\ Top = stack[Depth]
      /\ TimersOnTop(stack) /\ Top.at \in {"work", "have work"}
      /\ UNCHANGED <<incoming, work, haveWork, poster, nestableAllowed>>
  BY Pop DEF EndDoWork, AtDoWork, AtTop, Top, Depth, NoticeInv, loopVars, modeVars, worldVars
<1>2. CASE Top.at = "work"
  <2>1. stack' = Goto("delayed") /\ "delayed" \in At /\ Top.at \in LoopAt
    BY <1>2 DEF EndDoWork, At, LoopAt
  <2>2. QED
    BY <1>1, <2>1, NoticeLoop
<1>3. CASE Top.at = "have work"
  <2>1. stack' = Popped /\ (~ nestableAllowed \/ Entries = << >>)
    BY <1>3 DEF EndDoWork
  <2>2. TimersOnTop(stack') /\ ~ OnTimer(stack')
    BY <1>1, <2>1, PopMarks
  <2>3. Entries = << >> => ~ HasWork'
    BY <1>1, Types, BothEmpty DEF Entries, HasWork
  <2>4. QED
    BY <1>1, <2>1, <2>2, <2>3, NoticeNext
<1>4. QED
  BY <1>1, <1>2, <1>3

LEMMA NoticeNoDelayedWork ==
    ASSUME StackOk(stack), StackOk(stack'), NoticeInv, SkipDelayedWork \/ AwaitDelayedWork
    PROVE  NoticeInv'
<1>1. /\ Depth > 0 /\ Top.at \in {"delayed", "timer"} /\ NoDelayedWork /\ TimersOnTop(stack)
      /\ UNCHANGED <<incoming, work, haveWork, poster, nestableAllowed>>
  BY DEF SkipDelayedWork, AwaitDelayedWork, AtDoDelayedWork, AtTop, NoticeInv, loopVars, modeVars,
         worldVars
<1>2. CASE Top.at = "delayed"
  <2>1. stack' = Goto("delayed end") /\ "delayed end" \in At /\ Top.at \in LoopAt
    BY <1>1, <1>2 DEF NoDelayedWork, At, LoopAt
  <2>2. QED
    BY <1>1, <2>1, NoticeLoop
<1>3. CASE Top.at = "timer"
  <2>1. stack' = Goto("timer end") /\ "timer end" \in At
    BY <1>1, <1>3 DEF NoDelayedWork, At
  <2>2. /\ Len(stack') = Depth /\ stack'[Depth].at = "timer end"
        /\ \A i \in 1..Depth - 1 : stack'[i].at = stack[i].at
    BY <1>1, <2>1, GotoFrames
  <2>3. (IsTask(stack'[Depth]) <=> IsTask(Top)) /\ (Tells(stack'[Depth]) <=> Tells(Top))
    BY <1>3, <2>2 DEF IsTask, Tells
  <2>4. TimersOnTop(stack') /\ (OnTimer(stack') <=> OnTimer(stack)) /\ (Owed(stack') <=> Owed(stack))
    BY <1>1, <2>2, <2>3, TopMarks
  <2>5. QED
    BY <1>1, <2>4, NoticeKept DEF HasWork
<1>4. QED
  BY <1>1, <1>2, <1>3

(* A task returns to the loop, to HandleWorkMessage, which is going to look *)
(* at the queues, or to HandleTimerMessage.                                 *)
LEMMA NoticeFinished ==
    ASSUME StackOk(stack), StackOk(stack'), NoticeInv, FinishTask
    PROVE  NoticeInv'
<1>1. /\ Depth > 0 /\ Depth \in Nat /\ Depth = Len(stack) /\ Top = stack[Depth]
      /\ TimersOnTop(stack) /\ Top.at = "task" /\ stack' = Popped /\ FrameOk(stack, Depth)
      /\ UNCHANGED <<incoming, work, haveWork, poster>>
  BY Pop DEF FinishTask, AtTop, Top, Depth, NoticeInv, loopVars, worldVars
<1>2. PICK n \in Nat : n = Depth - 1 /\ n <= n
  BY <1>1
<1>3. /\ TimersOnTop(stack') /\ ~ OnTimer(stack') /\ (Owed(stack') <=> OwedUpTo(stack, n))
      /\ Len(stack') = n
  BY <1>1, <1>2, PopMarks, Pop
<1>4. stack[n].at \in {"delayed", "delayed end", "have work end", "timer end"} /\ Depth # 1
  BY <1>1, <1>2 DEF FrameOk
<1>5. n > 0 /\ n \in 1..Len(stack)
  <2>1. Depth # 1
    BY <1>4
  <2>2. QED
    BY ONLY <1>1, <1>2, <2>1
<1>6. CASE stack[n].at \in {"delayed", "delayed end"}
  <2>1. FrameOk(stack, n)
    BY <1>5 DEF StackOk
  <2>2. n = 1
    BY <1>6, <2>1 DEF FrameOk, LoopAt
  <2>3. QED
    BY <1>3, <2>2, NoticeOutside
<1>7. CASE stack[n].at = "have work end"
  <2>1. Marked(stack[n]) /\ ~ IsTask(stack[n])
    BY <1>7 DEF Marked, Tells, IsTask
  <2>2. \A i \in 1..n : i >= n => i = n
    BY <1>2
  <2>3. ~ OwedUpTo(stack, n)
    BY <1>2, <1>5, <2>1, <2>2, NotOwed
  <2>4. QED
    BY <1>3, <2>3, NoticeNext
<1>8. CASE stack[n].at = "timer end"
  <2>1. OnTimer(stack)
    <3>1. Depth > 1
      BY ONLY <1>1, <1>2, <1>5
    <3>2. QED
      BY <1>1, <1>2, <1>8, <3>1 DEF OnTimer, TimerRuns, IsTask
  <2>2. Owed(stack) <=> OwedUpTo(stack, n)
    BY <1>1, <1>2, <2>1 DEF Owed, Base
  <2>3. QED
    BY <1>1, <1>3, <2>1, <2>2, NoticeKept DEF HasWork
<1>9. QED
  BY <1>4, <1>6, <1>7, <1>8

LEMMA NoticeInductive ==
    ASSUME TimersOpenNoModal, IInv, NoticeInv, Next
    PROVE  NoticeInv'
<1>1. TypeOK /\ StackOk(stack) /\ TimesInv /\ StackOk(stack')
  BY StackInductive DEF IInv
<1>2. ASSUME NEW p \in Posters, PosterStep(p) PROVE NoticeInv'
  BY <1>1, <1>2, NoticePosted
<1>3. CASE UserInput \/ Tick \/ ReloadWorkQueue \/ AddToDelayedWorkQueue
  <2>1. UNCHANGED <<haveWork, poster, stack, nestableAllowed>>
    BY <1>3 DEF UserInput, Tick, ReloadWorkQueue, AddToDelayedWorkQueue, modeVars, worldVars
  <2>2. HasWork' => HasWork
    BY <1>3 DEF UserInput, Tick, ReloadWorkQueue, AddToDelayedWorkQueue, HasWork, loopVars
  <2>3. QED
    BY <2>1, <2>2, NoticeStack
<1>4. CASE Run
  <2>1. Len(stack') = 1
    BY <1>4 DEF Run
  <2>2. QED
    BY <1>1, <2>1, NoticeOutside
<1>5. ASSUME NEW told \in BOOLEAN, EnterModalLoop(told) PROVE NoticeInv'
  BY <1>1, <1>5, NoticeModal
<1>6. CASE AllowNestableTasks \/ Quit
  BY <1>1, <1>6, NoticeCalled
<1>7. CASE ProcessNextWindowsMessage
  BY <1>1, <1>7, NoticeTaken
<1>8. CASE DispatchInModalLoop
  BY <1>1, <1>8, NoticeDispatched
<1>9. CASE ProcessPumpReplacementMessage
  BY <1>1, <1>9, NoticeReplaced
<1>10. CASE FinishDispatch \/ EndHandleTimerMessage \/ LeaveModalLoop
  BY <1>1, <1>10, NoticeReturned
<1>11. CASE EndHandleWorkMessage
  BY <1>1, <1>11, NoticeHandled
<1>12. CASE FinishTask
  BY <1>1, <1>12, NoticeFinished
<1>13. CASE RunWork \/ RunDelayedWork
  BY <1>1, <1>13, NoticeRun
<1>14. CASE EndDoWork
  BY <1>1, <1>14, NoticeDoWork
<1>15. CASE SkipDelayedWork \/ AwaitDelayedWork
  BY <1>1, <1>15, NoticeNoDelayedWork
<1>16. CASE EndDoDelayedWork \/ DoIdleWork \/ WaitForWork \/ MouseElsewhere \/ WaitMessage
  <2>1. /\ Depth > 0 /\ Top.at \in LoopAt
        /\ \E at \in At : stack' = Goto(at) \/ stack' = Popped
    BY <1>16 DEF EndDoDelayedWork, DoIdleWork, WaitForWork, MouseElsewhere, WaitMessage, AtTop,
                 At, LoopAt
  <2>2. QED
    BY <1>1, <2>1, NoticeLoop
<1>17. QED
  BY <1>2, <1>3, <1>4, <1>5, <1>6, <1>7, <1>8, <1>9, <1>10, <1>11, <1>12, <1>13, <1>14, <1>15, <1>16
     DEF Next, ProgramCall, LoopStep

LEMMA NoticeStutters ==
    ASSUME NoticeInv, UNCHANGED vars
    PROVE  NoticeInv'
BY NoticeStack DEF vars, loopVars, modeVars, worldVars, HasWork

LEMMA NoticeInit ==
    ASSUME Init
    PROVE  NoticeInv
<1>1. Len(stack) = 0 /\ StackOk(stack)
  BY InitInv DEF Init, IInv
<1>2. QED
  BY <1>1, OutsideRun DEF NoticeInv

(* No message is left in the queue of a UI thread that blocks, so the one   *)
(* of have_work_ is with a poster.                                          *)
LEMMA Noticed ==
    IInv /\ NoticeInv => WorkIsNoticed
<1>1. SUFFICES ASSUME IInv, NoticeInv, Blocked, Entries # << >>,
                      AtTop("modal") => stack[Depth - 1].at = "task"
               PROVE  OnTheWay
  BY DEF WorkIsNoticed
<1>2. /\ TypeOK /\ StackOk(stack) /\ MessageInv /\ WaitInv
      /\ Depth > 0 /\ Depth \in Nat /\ Top = stack[Depth] /\ Depth = Len(stack)
  BY <1>1, Pop DEF IInv, Blocked, InRun, Top, Depth
<1>3. haveWork \/ Scheduling
  <2>1. HasWork
    <3>1. << >> \o << >> = << >>
      OBVIOUS
    <3>2. QED
      BY <1>1, <3>1 DEF HasWork, Entries
  <2>2. CASE Top.at = "wait"
    <3>1. Depth = 1
      BY <1>2, <2>2, TopFacts DEF LoopAt
    <3>2. FoundNothing(ToWait)
      BY <1>2, <2>2, <3>1 DEF FoundNothing, Nothing, ToWait, AfterDelayed
    <3>3. QED
      BY <1>2, <2>1, <3>2 DEF WaitInv, HasWork
  <2>3. CASE Top.at = "modal"
    <3>1. IsTask(stack[Depth - 1]) /\ ~ Marked(Top) /\ Depth # 1
      BY <1>1, <1>2, <2>3 DEF AtTop, IsTask, Marked, Tells, Blocked, InRun, LoopAt
    <3>2. Base(stack) = Depth
      BY <1>2, <3>1 DEF Base, OnTimer, TimerRuns, Marked
    <3>3. /\ Depth - 1 \in 1..Depth
          /\ \A j \in 1..Depth : j > Depth - 1 => j = Depth
      BY <1>2, <3>1
    <3>4. OwedUpTo(stack, Depth)
      BY <1>2, <3>1, <3>3 DEF OwedUpTo
    <3>5. QED
      BY <1>1, <2>1, <3>2, <3>4 DEF NoticeInv, Owed, Blocked
  <2>4. QED
    BY <1>1, <2>2, <2>3 DEF Blocked
<1>4. queue = << >>
  BY <1>1 DEF Blocked, AnyMessage
<1>5. ~ One(queue)
  BY <1>4 DEF One
<1>6. ~ AtTop("replace")
  BY <1>1 DEF AtTop, Blocked
<1>7. Scheduling \/ OneSends
  BY <1>2, <1>3, <1>5, <1>6 DEF MessageInv
<1>8. QED
  BY <1>7 DEF Scheduling, OneSends, OnTheWay

-----------------------------------------------------------------------------
(* The theorems.                                                            *)

(* Every variable keeps its type.                                           *)
THEOREM TypeCorrect == Spec => []TypeOK
<1>1. IInv => TypeOK
  BY DEF IInv
<1>2. QED
  BY <1>1, IInvariant, PTL

(* have_work_ is set exactly while one kMsgHaveWork is queued, about to be  *)
(* posted or taken and not yet replaced.                                    *)
THEOREM HaveWorkMeansOneMessageCorrect == Spec => []HaveWorkMeansOneMessage
BY OneMessage, IInvariant, PTL

(* The timed wait is not told to last past the earliest delayed task.       *)
THEOREM WaitsUntilDueCorrect == Spec => []WaitsUntilDue
BY TimeIsKept, IInvariant, PTL

(* The UI thread does not block on tasks it may run unless a poster is      *)
(* about to tell it, when no delayed task opens a modal loop.               *)
THEOREM WorkIsNoticedCorrect ==
    ASSUME TimersOpenNoModal
    PROVE  Spec => []WorkIsNoticed
<1>1. Init => NoticeInv
  BY NoticeInit
<1>2. IInv /\ NoticeInv /\ [Next]_vars => NoticeInv'
  BY NoticeInductive, NoticeStutters
<1>3. QED
  BY <1>1, <1>2, Noticed, IInvariant, PTL DEF Spec

-----------------------------------------------------------------------------
(* The pump implements TaskRunner.  First the closures on the stack.        *)

Exec(s)         == {i \in 1..Len(s) : IsTask(s[i])}
RankIn(s, i)    == Cardinality({j \in Exec(s) : j <= i})
Ranked(s)       == \A n \in 1..Cardinality(Exec(s)) : \E i \in Exec(s) : RankIn(s, i) = n
ClosuresOf(s)   == [n \in 1..Cardinality(Exec(s)) |->
                       s[CHOOSE i \in Exec(s) : RankIn(s, i) = n].task]
SameTasks(r, s) == Exec(r) = Exec(s) /\ \A i \in Exec(s) : r[i].task = s[i].task

(* r executes closure t in its last frame, above the closures of s.         *)
OneMore(r, s, t) ==
    /\ Len(r) \notin Exec(s) /\ Exec(r) = Exec(s) \cup {Len(r)} /\ r[Len(r)].task = t
    /\ \A i \in Exec(s) : r[i].task = s[i].task

LEMMA ClosuresIs == /\ Executing = Exec(stack) /\ \A i : Rank(i) = RankIn(stack, i)
                    /\ Closures = ClosuresOf(stack) /\ Closures' = ClosuresOf(stack')
BY DEF Executing, Rank, Closures, Depth, Exec, RankIn, ClosuresOf, IsTask

LEMMA FunctionIsSeq ==
    ASSUME NEW n \in Nat, NEW S, NEW s \in [1..n -> S]
    PROVE  s \in Seq(S) /\ Len(s) = n /\ DOMAIN s = 1..n
OBVIOUS

LEMMA ExecFinite ==
    ASSUME NEW s \in Seq(Frames)
    PROVE  /\ Exec(s) \subseteq Nat /\ IsFiniteSet(Exec(s)) /\ Cardinality(Exec(s)) \in Nat
           /\ \A i \in Exec(s) : i <= Len(s)
           /\ \A i : IsFiniteSet({j \in Exec(s) : j <= i}) /\ RankIn(s, i) \in Nat
<1>1. Exec(s) \subseteq 1..Len(s) /\ Len(s) \in Nat
  BY DEF Exec
<1>2. IsFiniteSet(1..Len(s))
  BY <1>1, FS_Interval
<1>3. IsFiniteSet(Exec(s))
  BY <1>1, <1>2, FS_Subset
<1>4. \A i : IsFiniteSet({j \in Exec(s) : j <= i})
  BY <1>3, FS_Subset
<1>5. (\A i : RankIn(s, i) \in Nat) /\ Cardinality(Exec(s)) \in Nat
  BY <1>3, <1>4, FS_CardinalityType DEF RankIn
<1>6. Exec(s) \subseteq Nat /\ \A i \in Exec(s) : i <= Len(s)
  BY <1>1
<1>7. QED
  BY <1>3, <1>4, <1>5, <1>6

(* No two closures have the same rank.                                      *)
LEMMA RanksDiffer ==
    ASSUME NEW s \in Seq(Frames), NEW i \in Exec(s), NEW j \in Exec(s), RankIn(s, i) = RankIn(s, j)
    PROVE  i = j
<1>1. ASSUME NEW a \in Exec(s), NEW b \in Exec(s), a < b PROVE RankIn(s, a) < RankIn(s, b)
  <2> DEFINE A == {k \in Exec(s) : k <= a}
             B == {k \in Exec(s) : k <= b}
  <2>1. a \in Nat /\ b \in Nat /\ \A k \in Exec(s) : k \in Nat
    BY ExecFinite
  <2>2. b \notin A /\ A \cup {b} \subseteq B
    <3>1. ~ (b <= a) /\ b <= b /\ \A k \in Exec(s) : k <= a => k <= b
      BY <1>1, <2>1
    <3>2. QED
      BY <3>1
  <2>3. IsFiniteSet(A) /\ IsFiniteSet(B) /\ Cardinality(A) = RankIn(s, a)
        /\ Cardinality(B) = RankIn(s, b)
    BY ExecFinite DEF RankIn
  <2> HIDE DEF A, B
  <2>4. Cardinality(A \cup {b}) = Cardinality(A) + 1
    BY <2>2, <2>3, FS_AddElement
  <2>5. Cardinality(A \cup {b}) <= Cardinality(B)
    BY <2>2, <2>3, FS_Subset
  <2>6. Cardinality(A) \in Nat /\ Cardinality(B) \in Nat
    BY <2>3, FS_CardinalityType
  <2>7. QED
    BY <2>3, <2>4, <2>5, <2>6
<1>2. i \in Nat /\ j \in Nat /\ RankIn(s, i) \in Nat
  BY ExecFinite
<1>3. ~ (i < j) /\ ~ (j < i)
  BY <1>1, <1>2
<1>4. QED
  BY <1>2, <1>3

(* The closures of s, by their ranks.                                       *)
LEMMA ClosuresAre ==
    ASSUME NEW s, StackOk(s), Ranked(s)
    PROVE  /\ ClosuresOf(s) \in Seq(Tasks) /\ Len(ClosuresOf(s)) = Cardinality(Exec(s))
           /\ DOMAIN ClosuresOf(s) = 1..Cardinality(Exec(s))
           /\ \A i \in Exec(s) : /\ RankIn(s, i) \in 1..Cardinality(Exec(s))
                                 /\ ClosuresOf(s)[RankIn(s, i)] = s[i].task
           /\ \A t : t \in Elements(ClosuresOf(s)) <=> \E i \in Exec(s) : s[i].task = t
<1> DEFINE c == Cardinality(Exec(s))
<1>1. s \in Seq(Frames)
  BY DEF StackOk
<1>2. c \in Nat /\ IsFiniteSet(Exec(s))
  BY <1>1, ExecFinite
<1>3. ASSUME NEW i \in Exec(s) PROVE RankIn(s, i) \in 1..c /\ s[i].task \in Tasks
  <2>1. FrameOk(s, i) /\ s[i].at = "task"
    BY <1>3 DEF StackOk, Exec, IsTask
  <2>2. IsFiniteSet({j \in Exec(s) : j <= i}) /\ RankIn(s, i) \in Nat /\ i \in Nat
    BY <1>1, <1>3, ExecFinite
  <2>3. RankIn(s, i) <= c
    BY <1>2, FS_Subset DEF RankIn
  <2>4. RankIn(s, i) # 0
    <3>1. i \in {j \in Exec(s) : j <= i}
      BY <2>2
    <3>2. QED
      BY <2>2, <3>1, FS_EmptySet DEF RankIn
  <2>5. s[i].task \in Tasks
    BY <2>1 DEF FrameOk
  <2>6. RankIn(s, i) \in 1..c
    BY ONLY <1>2, <2>2, <2>3, <2>4
  <2>7. QED
    BY <2>5, <2>6
<1>4. ASSUME NEW n \in 1..c
      PROVE  \E i \in Exec(s) : RankIn(s, i) = n /\ ClosuresOf(s)[n] = s[i].task
  <2>1. PICK i \in Exec(s) : i = (CHOOSE k \in Exec(s) : RankIn(s, k) = n) /\ RankIn(s, i) = n
    BY DEF Ranked
  <2>2. QED
    BY <2>1 DEF ClosuresOf
<1>5. DOMAIN ClosuresOf(s) = 1..c
  BY DEF ClosuresOf
<1>6. ASSUME NEW i \in Exec(s) PROVE ClosuresOf(s)[RankIn(s, i)] = s[i].task
  BY <1>1, <1>3, <1>4, RanksDiffer
<1>7. ClosuresOf(s) \in Seq(Tasks) /\ Len(ClosuresOf(s)) = c
  <2>1. \A n \in 1..c : ClosuresOf(s)[n] \in Tasks
    BY <1>3, <1>4
  <2>2. ClosuresOf(s) \in [1..c -> Tasks]
    BY <2>1 DEF ClosuresOf
  <2>3. QED
    BY ONLY <1>2, <2>2, FunctionIsSeq
<1>8. \A t : t \in Elements(ClosuresOf(s)) <=> \E n \in 1..c : ClosuresOf(s)[n] = t
  BY <1>5 DEF Elements
<1>9. QED
  BY <1>3, <1>4, <1>5, <1>6, <1>7, <1>8

(* Frames without closures on top, or none: the closures are the same.      *)
LEMMA SameClosures ==
    ASSUME NEW r, StackOk(r), NEW s, StackOk(s), Ranked(s), SameTasks(r, s)
    PROVE  Ranked(r) /\ ClosuresOf(r) = ClosuresOf(s)
<1>1. Exec(r) = Exec(s) /\ \A i \in Exec(s) : r[i].task = s[i].task
  BY DEF SameTasks
<1>2. \A i : RankIn(r, i) = RankIn(s, i)
  BY <1>1 DEF RankIn
<1>3. Ranked(r)
  BY <1>1, <1>2 DEF Ranked
<1>4. PICK c \in Nat : c = Cardinality(Exec(s))
  BY ExecFinite DEF StackOk
<1>5. /\ ClosuresOf(s) \in Seq(Tasks) /\ Len(ClosuresOf(s)) = c
      /\ \A i \in Exec(s) : ClosuresOf(s)[RankIn(s, i)] = s[i].task
  BY <1>4, ClosuresAre
<1>6. /\ ClosuresOf(r) \in Seq(Tasks) /\ Len(ClosuresOf(r)) = c
      /\ \A i \in Exec(s) : ClosuresOf(r)[RankIn(s, i)] = s[i].task
  <2>1. /\ ClosuresOf(r) \in Seq(Tasks) /\ Len(ClosuresOf(r)) = Cardinality(Exec(r))
        /\ \A i \in Exec(r) : ClosuresOf(r)[RankIn(r, i)] = r[i].task
    BY <1>3, ClosuresAre
  <2>2. QED
    BY <1>1, <1>2, <1>4, <2>1
<1>7. ASSUME NEW n \in 1..c PROVE ClosuresOf(r)[n] = ClosuresOf(s)[n]
  <2>1. PICK i \in Exec(s) : RankIn(s, i) = n
    BY <1>4 DEF Ranked
  <2>2. QED
    BY <1>5, <1>6, <2>1
<1>8. ClosuresOf(r) = ClosuresOf(s)
  BY ONLY <1>4, <1>5, <1>6, <1>7, SeqEqual
<1>9. QED
  BY <1>3, <1>8

(* One closure more on top.                                                 *)
LEMMA OneMoreRanks ==
    ASSUME NEW r, StackOk(r), NEW s, StackOk(s), NEW t, OneMore(r, s, t)
    PROVE  /\ Cardinality(Exec(r)) = Cardinality(Exec(s)) + 1 /\ Len(r) \in Exec(r)
           /\ RankIn(r, Len(r)) = Cardinality(Exec(s)) + 1
           /\ \A i \in Exec(s) : i \in Exec(r) /\ RankIn(r, i) = RankIn(s, i)
<1>1. /\ Len(r) \notin Exec(s) /\ Exec(r) = Exec(s) \cup {Len(r)}
  BY DEF OneMore
<1>2. r \in Seq(Frames) /\ s \in Seq(Frames) /\ IsFiniteSet(Exec(s)) /\ Len(r) \in Nat
  BY ExecFinite DEF StackOk
<1>3. Cardinality(Exec(r)) = Cardinality(Exec(s)) + 1
  BY <1>1, <1>2, FS_AddElement
<1>4. ASSUME NEW i \in Exec(s) PROVE i < Len(r)
  <2>1. i \in Nat /\ i <= Len(r) /\ i # Len(r)
    BY <1>1, <1>2, ExecFinite
  <2>2. QED
    BY <1>2, <2>1
<1>5. {j \in Exec(r) : j <= Len(r)} = Exec(r)
  BY <1>2, ExecFinite
<1>6. ASSUME NEW i \in Exec(s) PROVE {j \in Exec(r) : j <= i} = {j \in Exec(s) : j <= i}
  <2>1. ~ (Len(r) <= i)
    <3>1. i \in Nat
      BY <1>2, ExecFinite
    <3>2. QED
      BY <1>2, <1>4, <3>1
  <2>2. QED
    BY <1>1, <2>1
<1>7. \A i \in Exec(s) : RankIn(r, i) = RankIn(s, i)
  BY <1>6 DEF RankIn
<1>8. RankIn(r, Len(r)) = Cardinality(Exec(s)) + 1
  BY <1>3, <1>5 DEF RankIn
<1>9. QED
  BY <1>1, <1>3, <1>7, <1>8

LEMMA OneMoreRanked ==
    ASSUME NEW r, StackOk(r), NEW s, StackOk(s), NEW t, OneMore(r, s, t)
    PROVE  Ranked(r) <=> Ranked(s)
<1>1. PICK c \in Nat : c = Cardinality(Exec(s))
  BY ExecFinite DEF StackOk
<1>2. /\ Cardinality(Exec(r)) = c + 1 /\ Exec(r) = Exec(s) \cup {Len(r)}
      /\ RankIn(r, Len(r)) = c + 1
      /\ \A i \in Exec(s) : i \in Exec(r) /\ RankIn(r, i) = RankIn(s, i)
  BY <1>1, OneMoreRanks DEF OneMore
<1>3. ASSUME Ranked(s), NEW n \in 1..c + 1 PROVE \E i \in Exec(r) : RankIn(r, i) = n
  <2>1. CASE n = c + 1
    BY <1>2, <2>1
  <2>2. CASE n # c + 1
    <3>1. n \in 1..c
      BY <1>1, <2>2
    <3>2. PICK i \in Exec(s) : RankIn(s, i) = n
      BY <1>1, <1>3, <3>1 DEF Ranked
    <3>3. QED
      BY <1>2, <3>2
  <2>3. QED
    BY <2>1, <2>2
<1>4. ASSUME Ranked(r), NEW n \in 1..c PROVE \E i \in Exec(s) : RankIn(s, i) = n
  <2>1. n \in 1..c + 1 /\ n # c + 1
    BY <1>1
  <2>2. PICK i \in Exec(r) : RankIn(r, i) = n
    BY <1>2, <1>4, <2>1 DEF Ranked
  <2>3. QED
    BY <1>2, <2>1, <2>2
<1>5. QED
  BY <1>1, <1>2, <1>3, <1>4 DEF Ranked

LEMMA OneMoreClosure ==
    ASSUME NEW r, StackOk(r), NEW s, StackOk(s), Ranked(s), NEW t \in Tasks, OneMore(r, s, t)
    PROVE  ClosuresOf(r) = Append(ClosuresOf(s), t)
<1>1. PICK c \in Nat : c = Cardinality(Exec(s))
  BY ExecFinite DEF StackOk
<1>2. /\ Cardinality(Exec(r)) = c + 1 /\ Len(r) \in Exec(r) /\ RankIn(r, Len(r)) = c + 1
      /\ \A i \in Exec(s) : i \in Exec(r) /\ RankIn(r, i) = RankIn(s, i)
  BY <1>1, OneMoreRanks
<1>3. /\ ClosuresOf(s) \in Seq(Tasks) /\ Len(ClosuresOf(s)) = c
      /\ \A i \in Exec(s) : ClosuresOf(s)[RankIn(s, i)] = s[i].task
  BY <1>1, ClosuresAre
<1>4. /\ ClosuresOf(r) \in Seq(Tasks) /\ Len(ClosuresOf(r)) = c + 1
      /\ \A i \in Exec(r) : ClosuresOf(r)[RankIn(r, i)] = r[i].task
  BY <1>2, OneMoreRanked, ClosuresAre
<1>5. /\ Append(ClosuresOf(s), t) \in Seq(Tasks) /\ Len(Append(ClosuresOf(s), t)) = c + 1
      /\ Append(ClosuresOf(s), t)[c + 1] = t
      /\ \A n \in 1..c : Append(ClosuresOf(s), t)[n] = ClosuresOf(s)[n]
  BY <1>3
<1>6. ASSUME NEW n \in 1..c + 1 PROVE ClosuresOf(r)[n] = Append(ClosuresOf(s), t)[n]
  <2>1. CASE n = c + 1
    BY <1>2, <1>4, <1>5, <2>1 DEF OneMore
  <2>2. CASE n # c + 1
    <3>1. n \in 1..c
      BY <1>1, <2>2
    <3>2. PICK i \in Exec(s) : RankIn(s, i) = n
      BY <1>1, <3>1 DEF Ranked
    <3>3. ClosuresOf(r)[n] = r[i].task /\ r[i].task = s[i].task
      BY <1>2, <1>4, <3>2 DEF OneMore
    <3>4. QED
      BY <1>3, <1>5, <3>1, <3>2, <3>3
  <2>3. QED
    BY <2>1, <2>2
<1>7. QED
  BY ONLY <1>1, <1>4, <1>5, <1>6, SeqEqual

-----------------------------------------------------------------------------
(* What the actions do to the closures.                                     *)

(* Above the first n frames there is no closure.                            *)
LEMMA SameBelow ==
    ASSUME NEW r \in Seq(Frames), NEW s \in Seq(Frames), NEW n \in Nat, n <= Len(r), n <= Len(s),
           \A i \in 1..n : (IsTask(r[i]) <=> IsTask(s[i])) /\ r[i].task = s[i].task,
           \A i \in 1..Len(r) : i > n => ~ IsTask(r[i]),
           \A i \in 1..Len(s) : i > n => ~ IsTask(s[i])
    PROVE  SameTasks(r, s)
<1>1. \A i : i \in 1..Len(r) /\ i <= n => i \in 1..n
  OBVIOUS
<1>2. \A i : i \in 1..Len(s) /\ i <= n => i \in 1..n
  OBVIOUS
<1>3. \A i \in Exec(s) : i \in 1..n
  BY <1>2 DEF Exec
<1>4. \A i \in Exec(r) : i \in 1..n
  BY <1>1 DEF Exec
<1>5. \A i \in 1..n : i \in 1..Len(r) /\ i \in 1..Len(s)
  OBVIOUS
<1>6. Exec(r) = Exec(s)
  BY <1>3, <1>4, <1>5 DEF Exec
<1>7. QED
  BY <1>3, <1>6 DEF SameTasks

LEMMA SamePush ==
    ASSUME NEW s \in Seq(Frames), NEW f \in Frames, ~ IsTask(f)
    PROVE  SameTasks(Append(s, f), s)
<1>1. /\ Append(s, f) \in Seq(Frames) /\ Len(Append(s, f)) = Len(s) + 1
      /\ Append(s, f)[Len(s) + 1] = f /\ Len(s) \in Nat
      /\ \A i \in 1..Len(s) : Append(s, f)[i] = s[i]
  BY Push
<1>2. \A i \in 1..Len(s) + 1 : i > Len(s) => i = Len(s) + 1
  BY <1>1
<1>3. Len(s) <= Len(s) + 1 /\ Len(s) <= Len(s) /\ \A i \in 1..Len(s) : ~ (i > Len(s))
  BY <1>1
<1>4. QED
  BY <1>1, <1>2, <1>3, SameBelow

LEMMA SameThenSame ==
    ASSUME NEW a, NEW b, NEW c, SameTasks(a, b), SameTasks(b, c)
    PROVE  SameTasks(a, c)
BY DEF SameTasks

LEMMA SamePop ==
    ASSUME StackOk(stack), Depth > 0, ~ IsTask(Top)
    PROVE  SameTasks(Popped, stack)
<1>1. /\ Popped \in Seq(Frames) /\ stack \in Seq(Frames) /\ Len(Popped) = Depth - 1
      /\ Depth \in Nat /\ Depth = Len(stack) /\ Top = stack[Depth]
      /\ \A i \in 1..Depth - 1 : Popped[i] = stack[i]
  BY Pop DEF StackOk, Depth, Top
<1>2. PICK n \in Nat : n = Depth - 1 /\ n <= n /\ n <= Depth
  BY <1>1
<1>3. (\A i \in 1..n : ~ (i > n)) /\ \A i \in 1..Depth : i > n => i = Depth
  BY <1>1, <1>2
<1>4. QED
  BY <1>1, <1>2, <1>3, SameBelow

LEMMA SameBecome ==
    ASSUME StackOk(stack), Depth > 0, NEW f \in Frames, IsTask(f) <=> IsTask(Top),
           f.task = Top.task
    PROVE  SameTasks(Become(f), stack)
<1>1. /\ Become(f) \in Seq(Frames) /\ stack \in Seq(Frames) /\ Len(Become(f)) = Depth
      /\ Become(f)[Depth] = f /\ Depth \in Nat /\ Depth = Len(stack) /\ Top = stack[Depth]
      /\ \A i \in 1..Depth - 1 : Become(f)[i] = stack[i]
  BY Becomes, Pop DEF StackOk, Depth, Top
<1>2. /\ Depth <= Depth /\ \A i \in 1..Depth : ~ (i > Depth) /\ (i # Depth => i \in 1..Depth - 1)
  BY <1>1
<1>3. \A i \in 1..Depth : (IsTask(Become(f)[i]) <=> IsTask(stack[i]))
                           /\ Become(f)[i].task = stack[i].task
  BY <1>1, <1>2
<1>4. QED
  BY <1>1, <1>2, <1>3, SameBelow

LEMMA SameHandling ==
    ASSUME NEW s \in Seq(Frames), NEW msg \in {"input", "timer", "have work"}
    PROVE  SameTasks(Handling(s, msg), s)
<1>1. /\ \A at \in {"timer", "replace"} : Frame(at) \in Frames /\ ~ IsTask(Frame(at))
      /\ HandlerFrame \in Frames /\ ~ IsTask(HandlerFrame)
  BY FrameTypes DEF IsTask, Frame, HandlerFrame, At
<1>2. SameTasks(s, s)
  BY DEF SameTasks
<1>3. CASE msg = "input"
  BY <1>1, <1>3, SamePush DEF Handling
<1>4. CASE msg = "timer"
  BY <1>1, <1>2, <1>4, SamePush DEF Handling
<1>5. CASE msg = "have work"
  BY <1>1, <1>5, SamePush DEF Handling
<1>6. QED
  BY <1>3, <1>4, <1>5

LEMMA SameGoto ==
    ASSUME StackOk(stack), Depth > 0, ~ IsTask(Top), NEW at \in At \ {"task"}, NEW b \in BOOLEAN
    PROVE  /\ SameTasks(Goto(at), stack)
           /\ SameTasks(Become([Top EXCEPT !.at = at, !.more = b]), stack)
           /\ Become([Top EXCEPT !.at = at, !.more = b]) \in Seq(Frames)
<1>1. Top \in Frames
  BY Pop
<1>2. /\ [Top EXCEPT !.at = at] \in Frames /\ [Top EXCEPT !.at = at].task = Top.task
      /\ ~ IsTask([Top EXCEPT !.at = at])
  BY <1>1 DEF Frames, IsTask
<1>3. /\ [Top EXCEPT !.at = at, !.more = b] \in Frames
      /\ [Top EXCEPT !.at = at, !.more = b].task = Top.task
      /\ ~ IsTask([Top EXCEPT !.at = at, !.more = b])
  BY <1>1 DEF Frames, IsTask
<1>4. QED
  BY <1>2, <1>3, SameBecome, Becomes DEF Goto

LEMMA SameCalled ==
    ASSUME StackOk(stack), Depth > 0, NEW op
    PROVE  SameTasks(Called(op), stack) /\ Called(op) \in Seq(Frames)
<1> DEFINE f == [Top EXCEPT !.ops = @ \ {op}]
<1>1. Top \in Frames
  BY Pop
<1>2. f \in Frames /\ f.task = Top.task /\ f.at = Top.at
  BY <1>1 DEF Frames
<1>3. Called(op) = Become(f)
  BY DEF Called
<1> HIDE DEF f
<1>4. QED
  BY <1>2, <1>3, SameBecome, Becomes DEF IsTask

(* One frame alone, that is no closure.                                     *)
LEMMA SameAlone ==
    ASSUME TypeOK, Depth = 0, NEW f \in Frames, ~ IsTask(f)
    PROVE  SameTasks(<< f >>, stack)
<1>1. stack \in Seq(Frames) /\ << f >> \in Seq(Frames) /\ Len(<< f >>) = 1 /\ Len(stack) = 0
      /\ << f >>[1] = f
  BY Types DEF Depth
<1>2. 0 \in Nat /\ 0 <= 1 /\ 0 <= 0 /\ \A i \in 1..1 : i = 1
  OBVIOUS
<1>3. \A i \in 1..0 : FALSE
  OBVIOUS
<1>4. QED
  BY <1>1, <1>2, <1>3, SameBelow

LEMMA SameProcessNext ==
    ASSUME TypeOK, StackOk(stack), ProcessNextWindowsMessage
    PROVE  SameTasks(stack', stack)
<1>1. Depth > 0 /\ ~ IsTask(Top) /\ "work" \in At \ {"task"}
  BY DEF ProcessNextWindowsMessage, AtTop, IsTask, At, LoopAt
<1>2. ASSUME NEW m \in AnyMessage,
             stack' = Handling(Become([Top EXCEPT !.at = "work", !.more = m.msg # "have work"]), m.msg)
      PROVE  SameTasks(stack', stack)
  <2>1. PICK b \in BOOLEAN : b = (m.msg # "have work")
    OBVIOUS
  <2>2. stack' = Handling(Become([Top EXCEPT !.at = "work", !.more = b]), m.msg)
    BY <1>2, <2>1
  <2> DEFINE s == Become([Top EXCEPT !.at = "work", !.more = b])
  <2>3. SameTasks(s, stack) /\ s \in Seq(Frames)
    BY <1>1, SameGoto
  <2>4. stack' = Handling(s, m.msg)
    BY <2>2
  <2> HIDE DEF s
  <2>5. m.msg \in {"input", "timer", "have work"}
    BY MessageFacts
  <2>6. SameTasks(Handling(s, m.msg), s)
    BY <2>3, <2>5, SameHandling
  <2>7. QED
    BY <2>3, <2>4, <2>6, SameThenSame
<1>3. CASE stack' = Become([Top EXCEPT !.at = "work", !.more = FALSE])
  BY <1>1, <1>3, SameGoto
<1>4. QED
  BY <1>2, <1>3 DEF ProcessNextWindowsMessage

LEMMA SameDispatch ==
    ASSUME TypeOK, StackOk(stack), DispatchInModalLoop
    PROVE  SameTasks(stack', stack)
<1>1. stack \in Seq(Frames) /\ SameTasks(stack, stack)
  BY DEF StackOk, SameTasks
<1>2. PICK m \in AnyMessage :
         stack' = IF m.msg # "have work" THEN Handling(stack, m.msg)
                  ELSE IF InRun THEN Handling(Append(stack, Frame("have work")), m.msg)
                  ELSE stack
  BY DEF DispatchInModalLoop
<1>3. m.msg \in {"input", "timer", "have work"}
  BY MessageFacts
<1>4. CASE m.msg # "have work"
  BY <1>1, <1>2, <1>3, <1>4, SameHandling
<1>5. CASE m.msg = "have work" /\ InRun
  <2> DEFINE s == Append(stack, Frame("have work"))
  <2>1. Frame("have work") \in Frames /\ ~ IsTask(Frame("have work"))
    BY FrameTypes DEF IsTask, Frame, At
  <2>2. s \in Seq(Frames) /\ SameTasks(s, stack)
    BY <1>1, <2>1, Push, SamePush
  <2>3. stack' = Handling(s, m.msg)
    BY <1>2, <1>5
  <2> HIDE DEF s
  <2>4. SameTasks(Handling(s, m.msg), s)
    BY <1>3, <2>2, SameHandling
  <2>5. QED
    BY <2>2, <2>3, <2>4, SameThenSame
<1>6. CASE m.msg = "have work" /\ ~ InRun
  BY <1>1, <1>2, <1>6
<1>7. QED
  BY <1>4, <1>5, <1>6

LEMMA SameReplacement ==
    ASSUME TypeOK, StackOk(stack), ProcessPumpReplacementMessage
    PROVE  SameTasks(stack', stack)
<1>1. /\ Depth > 0 /\ ~ IsTask(Top) /\ Depth \in Nat /\ Top = stack[Depth] /\ Depth = Len(stack)
      /\ Popped \in Seq(Frames) /\ Len(Popped) = Depth - 1 /\ stack \in Seq(Frames)
      /\ \A i \in 1..Depth - 1 : Popped[i] = stack[i]
  BY Pop DEF ProcessPumpReplacementMessage, AtTop, IsTask, Top, Depth, StackOk
<1>2. Depth > 1
  BY ReplacementStep
<1>3. CASE stack' = Popped
  BY <1>1, <1>3, SamePop
<1>4. ASSUME NEW m \in AnyMessage \cup TimerMessage,
             stack' = Handling([Popped EXCEPT ![Depth - 1].more = m.msg # "have work"], m.msg)
      PROVE  SameTasks(stack', stack)
  <2>1. PICK b \in BOOLEAN : b = (m.msg # "have work")
    OBVIOUS
  <2>2. PICK n \in Nat : n = Depth - 1 /\ n > 0 /\ n \in 1..n /\ n <= n /\ n <= Depth
    BY <1>1, <1>2
  <2> DEFINE s == [Popped EXCEPT ![n].more = b]
             f == [Popped[n] EXCEPT !.more = b]
  <2>3. stack' = Handling(s, m.msg)
    BY <1>4, <2>1, <2>2
  <2>4. Popped[n] \in Frames /\ DOMAIN Popped = 1..n
    BY <1>1, <2>2
  <2>5. f \in Frames /\ f.at = Popped[n].at /\ f.task = Popped[n].task
    BY <2>4 DEF Frames
  <2>6. s = [Popped EXCEPT ![n] = f]
    OBVIOUS
  <2> HIDE DEF f, s
  <2>7. s \in Seq(Frames) /\ Len(s) = n /\ s[n] = f /\ \A i \in 1..n : i # n => s[i] = Popped[i]
    BY <1>1, <2>2, <2>4, <2>5, <2>6
  <2>8. \A i \in 1..n : (IsTask(s[i]) <=> IsTask(stack[i])) /\ s[i].task = stack[i].task
    BY <1>1, <2>2, <2>5, <2>7 DEF IsTask
  <2>9. (\A i \in 1..n : ~ (i > n)) /\ \A i \in 1..Depth : i > n => i = Depth
    BY <1>1, <2>2
  <2>10. SameTasks(s, stack)
    BY <1>1, <2>2, <2>7, <2>8, <2>9, SameBelow
  <2>11. m.msg \in {"input", "timer", "have work"}
    BY MessageFacts
  <2>12. SameTasks(Handling(s, m.msg), s)
    BY <2>7, <2>11, SameHandling
  <2>13. QED
    BY <2>3, <2>10, <2>12, SameThenSame
<1>5. QED
  BY <1>3, <1>4 DEF ProcessPumpReplacementMessage, Replacement

(* Only DoWork and DoDelayedWork call closures, and only they return.       *)
LEMMA TasksStay ==
    ASSUME TypeOK, StackOk(stack), [Next]_vars
    PROVE  SameTasks(stack', stack) \/ RunWork \/ RunDelayedWork \/ FinishTask
<1>1. SameTasks(stack, stack)
  BY DEF SameTasks
<1>2. ASSUME NEW p \in Posters, PosterStep(p) PROVE SameTasks(stack', stack)
  BY <1>1, <1>2 DEF PosterStep, PostTask, ExchangeHaveWork, PostHaveWork
<1>3. CASE UserInput \/ Tick \/ ReloadWorkQueue \/ AddToDelayedWorkQueue \/ UNCHANGED vars
  BY <1>1, <1>3 DEF UserInput, Tick, ReloadWorkQueue, AddToDelayedWorkQueue, vars
<1>4. CASE Run
  <2>1. Frame("message") \in Frames /\ ~ IsTask(Frame("message"))
    BY FrameTypes DEF IsTask, Frame, At, LoopAt
  <2>2. QED
    BY <1>4, <2>1, SameAlone DEF Run
<1>5. ASSUME NEW told \in BOOLEAN, EnterModalLoop(told) PROVE SameTasks(stack', stack)
  <2>1. Frame("modal") \in Frames /\ ~ IsTask(Frame("modal"))
    BY FrameTypes DEF IsTask, Frame, At, LoopAt
  <2>2. CASE Depth = 0 /\ stack' = << Frame("modal") >>
    BY <2>1, <2>2, SameAlone
  <2>3. CASE CanCall("Modal") /\ stack' = Append(Called("Modal"), Frame("modal"))
    <3>1. SameTasks(Called("Modal"), stack) /\ Called("Modal") \in Seq(Frames)
      BY <2>3, SameCalled DEF CanCall
    <3>2. SameTasks(Append(Called("Modal"), Frame("modal")), Called("Modal"))
      BY <2>1, <3>1, SamePush
    <3>3. QED
      BY <2>3, <3>1, <3>2, SameThenSame
  <2>4. QED
    BY <1>5, <2>2, <2>3 DEF EnterModalLoop
<1>6. CASE AllowNestableTasks \/ Quit
  BY <1>6, SameCalled DEF AllowNestableTasks, Quit, CanCall
<1>7. CASE ProcessNextWindowsMessage
  BY <1>7, SameProcessNext
<1>8. CASE DispatchInModalLoop
  BY <1>8, SameDispatch
<1>9. CASE ProcessPumpReplacementMessage
  BY <1>9, SameReplacement
<1>10. CASE FinishDispatch \/ EndHandleWorkMessage \/ EndHandleTimerMessage \/ LeaveModalLoop
  BY <1>10, SamePop
     DEF FinishDispatch, EndHandleWorkMessage, EndHandleTimerMessage, LeaveModalLoop, AtTop, IsTask
<1>11. CASE EndDoWork
  <2>1. Depth > 0 /\ ~ IsTask(Top) /\ "delayed" \in At \ {"task"}
    BY <1>11 DEF EndDoWork, AtDoWork, AtTop, IsTask, At, LoopAt
  <2>2. QED
    BY <1>11, <2>1, SameGoto, SamePop DEF EndDoWork
<1>12. CASE SkipDelayedWork \/ AwaitDelayedWork
  <2>1. Depth > 0 /\ ~ IsTask(Top) /\ {"delayed end", "timer end"} \subseteq At \ {"task"}
    BY <1>12 DEF SkipDelayedWork, AwaitDelayedWork, AtDoDelayedWork, AtTop, IsTask, At, LoopAt
  <2>2. NoDelayedWork
    BY <1>12 DEF SkipDelayedWork, AwaitDelayedWork
  <2>3. QED
    BY <2>1, <2>2, SameGoto DEF NoDelayedWork
<1>13. CASE EndDoDelayedWork \/ DoIdleWork \/ WaitForWork \/ MouseElsewhere \/ WaitMessage
  <2>1. /\ Depth > 0 /\ ~ IsTask(Top)
        /\ {"message", "idle", "wait", "wait message"} \subseteq At \ {"task"}
    BY <1>13 DEF EndDoDelayedWork, DoIdleWork, WaitForWork, MouseElsewhere, WaitMessage, AtTop,
                 IsTask, At, LoopAt
  <2>2. \/ stack' = Popped
        \/ \E at \in {"message", "idle", "wait", "wait message"} : stack' = Goto(at)
    BY <1>13 DEF EndDoDelayedWork, DoIdleWork, WaitForWork, MouseElsewhere, WaitMessage
  <2>3. QED
    BY <2>1, <2>2, SameGoto, SamePop
<1>14. QED
  BY <1>2, <1>3, <1>4, <1>5, <1>6, <1>7, <1>8, <1>9, <1>10, <1>11, <1>12, <1>13
     DEF Next, ProgramCall, LoopStep

(* A closure starts.                                                        *)
LEMMA TaskStarts ==
    ASSUME StackOk(stack), Depth > 0, AtDoWork \/ AtDoDelayedWork,
           NEW t \in Tasks, Top.at = "timer" => t \in Delayed, RunTask(t)
    PROVE  StackOk(stack') /\ OneMore(stack', stack, t)
<1>1. /\ StackOk(stack') /\ Len(stack') = Depth + 1
      /\ stack'[Depth + 1] = TaskFrame(t) /\ stack'[Depth] = DidWork
      /\ \A i \in 1..Depth - 1 : stack'[i] = stack[i]
  BY RunTaskStep
<1>2. Depth \in Nat /\ Depth = Len(stack) /\ Top = stack[Depth]
  BY Pop DEF Depth, Top
<1>3. TaskFrame(t).at = "task" /\ TaskFrame(t).task = t
  BY DEF TaskFrame, Frame
<1>4. ~ IsTask(Top) /\ ~ IsTask(DidWork)
  <2>1. Top \in Frames
    BY Pop
  <2>2. QED
    BY <2>1 DEF AtDoWork, AtDoDelayedWork, AtTop, IsTask, DidWork, Frames
<1>5. \A i \in 1..Depth : i # Depth => i \in 1..Depth - 1
  BY <1>2
<1>6. /\ Depth + 1 \notin 1..Depth /\ 1..(Depth + 1) = (1..Depth) \cup {Depth + 1}
      /\ \A i \in 1..Depth : i # Depth + 1
  BY <1>2
<1>7. \A i \in Exec(stack) : i \in 1..Depth /\ i # Depth
  BY <1>2, <1>4 DEF Exec
<1>8. Exec(stack') = Exec(stack) \cup {Depth + 1}
  <2>1. \A i \in 1..Depth : IsTask(stack'[i]) <=> IsTask(stack[i])
    BY <1>1, <1>2, <1>4, <1>5
  <2>2. IsTask(stack'[Depth + 1])
    BY <1>1, <1>3 DEF IsTask
  <2>3. QED
    BY <1>1, <1>2, <1>6, <2>1, <2>2 DEF Exec
<1>9. QED
  BY <1>1, <1>3, <1>5, <1>6, <1>7, <1>8 DEF OneMore

(* The closure on top returns.                                              *)
LEMMA TaskFinishes ==
    ASSUME StackOk(stack), FinishTask
    PROVE  StackOk(stack') /\ Top.task \in Tasks /\ OneMore(stack, stack', Top.task)
<1>1. Depth > 0 /\ Top.at = "task" /\ stack' = Popped
  BY DEF FinishTask, AtTop
<1>2. /\ StackOk(stack') /\ Len(stack') = Depth - 1 /\ FrameOk(stack, Depth)
      /\ \A i \in 1..Depth - 1 : stack'[i] = stack[i]
      /\ Depth \in Nat /\ Depth = Len(stack) /\ Top = stack[Depth]
  BY <1>1, Pop DEF Depth, Top
<1>3. /\ Depth \notin 1..Depth - 1 /\ 1..Depth = (1..Depth - 1) \cup {Depth}
      /\ \A i \in 1..Depth - 1 : i # Depth
  BY <1>1, <1>2
<1>4. Exec(stack') \subseteq 1..Depth - 1
  BY <1>2 DEF Exec
<1>5. Exec(stack) = Exec(stack') \cup {Depth}
  BY <1>1, <1>2, <1>3 DEF Exec, IsTask
<1>6. Top.task \in Tasks
  BY <1>1, <1>2 DEF FrameOk
<1>7. QED
  BY <1>2, <1>3, <1>4, <1>5, <1>6 DEF OneMore

-----------------------------------------------------------------------------
(* Where the tasks of the history are.                                      *)

(* The tasks that have left the incoming and the work queue are the first   *)
(* ones of the history.                                                     *)
Past == Len(order) - (Len(work) + Len(incoming))

LineInv ==
    /\ Past \in Nat
    /\ \A i \in 1..Len(work) : order[Past + i] = work[i]
    /\ \A i \in 1..Len(incoming) : order[Past + Len(work) + i] = incoming[i]
    /\ \A i, j \in DOMAIN order : order[i].task = order[j].task => i = j
    /\ \A i \in DOMAIN order : order[i].time # 0 <=> order[i].task \in Delayed

(* With stack s and history d, t has been started.                          *)
Started(s, d, t) == t \in d \/ \E i \in Exec(s) : s[i].task = t

(* Entry e of the delayed queue is the task at position i of the history.   *)
IsAt(e, i) == order[i].task = e.task /\ order[i].time = e.time

(* The delayed queue holds tasks not yet started; its sequence numbers      *)
(* follow the history.                                                      *)
EntryInv ==
    /\ \A e \in delayed : /\ e.time # 0 /\ e.seq < nextSeq /\ ~ Started(stack, done, e.task)
                          /\ \E i \in 1..Past : IsAt(e, i)
    /\ \A e, f \in delayed, i, j \in 1..Past : IsAt(e, i) /\ IsAt(f, j) /\ i < j => e.seq < f.seq
    /\ \A e, f \in delayed : e.task = f.task => e = f

StartInv ==
    /\ \A i \in 1..Past : \/ Started(stack, done, order[i].task)
                          \/ \E e \in delayed : e.task = order[i].task
    /\ \A i \in DOMAIN order : Started(stack, done, order[i].task) => i <= Past

RefInv == Ranked(stack) /\ LineInv /\ EntryInv /\ StartInv

(* What a step does to the line of tasks still to be looked at.             *)
Line      == <<incoming, work, order>>
Enters(e) == /\ \A i \in DOMAIN order : order[i].task # e.task
             /\ e.time # 0 <=> e.task \in Delayed
             /\ incoming' = Append(incoming, e) /\ order' = Append(order, e)
             /\ UNCHANGED work
Reloads   == /\ work = << >> /\ work' = incoming /\ incoming' = << >>
             /\ UNCHANGED order
Takes     == /\ work # << >> /\ work' = Tail(work)
             /\ UNCHANGED <<incoming, order>>

LEMMA LineTypes ==
    ASSUME TypeOK, LineInv
    PROVE  /\ incoming \in Seq(Entry) /\ work \in Seq(Entry) /\ order \in Seq(Entry)
           /\ Len(incoming) \in Nat /\ Len(work) \in Nat /\ Len(order) \in Nat /\ Past \in Nat
           /\ Past + Len(work) + Len(incoming) = Len(order) /\ Past <= Len(order)
           /\ DOMAIN order = 1..Len(order)
           /\ \A i \in 1..Past : i \in DOMAIN order
           /\ \A i \in DOMAIN order : /\ order[i] \in Entry /\ order[i].task \in Tasks
                                      /\ order[i].time \in Nat /\ i \in Nat
<1>1. /\ incoming \in Seq(Entry) /\ work \in Seq(Entry) /\ order \in Seq(Entry)
      /\ Len(incoming) \in Nat /\ Len(work) \in Nat /\ Len(order) \in Nat /\ Past \in Nat
      /\ DOMAIN order = 1..Len(order)
  <2>1. order \in Seq(Entry) /\ Past \in Nat
    BY DEF TypeOK, LineInv, Entry
  <2>2. QED
    BY <2>1, Types
<1>2. Past + Len(work) + Len(incoming) = Len(order) /\ Past <= Len(order)
  BY <1>1 DEF Past
<1>3. \A i \in 1..Past : i \in DOMAIN order
  BY <1>1, <1>2
<1>4. ASSUME NEW i \in DOMAIN order
      PROVE  order[i] \in Entry /\ order[i].task \in Tasks /\ order[i].time \in Nat /\ i \in Nat
  <2>1. order[i] \in Entry /\ i \in Nat
    BY <1>1
  <2>2. QED
    BY <2>1 DEF Entry
<1>5. QED
  BY <1>1, <1>2, <1>3, <1>4

LEMMA LineEnters ==
    ASSUME TypeOK, LineInv, NEW e \in Entry, Enters(e)
    PROVE  /\ LineInv' /\ Past' = Past /\ Len(order') = Len(order) + 1
           /\ order'[Len(order) + 1] = e /\ \A i \in 1..Len(order) : order'[i] = order[i]
<1>1. /\ incoming \in Seq(Entry) /\ order \in Seq(Entry)
      /\ Len(incoming) \in Nat /\ Len(work) \in Nat /\ Len(order) \in Nat
      /\ Past \in Nat /\ Past + Len(work) + Len(incoming) = Len(order)
      /\ DOMAIN order = 1..Len(order)
  BY LineTypes
<1>2. /\ Len(order') = Len(order) + 1 /\ DOMAIN order' = 1..(Len(order) + 1)
      /\ order'[Len(order) + 1] = e /\ \A i \in 1..Len(order) : order'[i] = order[i]
      /\ Len(incoming') = Len(incoming) + 1 /\ incoming'[Len(incoming) + 1] = e
      /\ \A i \in 1..Len(incoming) : incoming'[i] = incoming[i]
      /\ work' = work
  BY <1>1 DEF Enters
<1>3. Past' = Past
  BY <1>1, <1>2 DEF Past
<1>4. ASSUME NEW i \in 1..Len(work) PROVE order'[Past' + i] = work'[i]
  <2>1. Past + i \in 1..Len(order) /\ order[Past + i] = work[i]
    BY <1>1 DEF LineInv
  <2>2. QED
    BY <1>2, <1>3, <2>1
<1>5. ASSUME NEW i \in 1..Len(incoming') PROVE order'[Past' + Len(work') + i] = incoming'[i]
  <2>1. CASE i = Len(incoming) + 1
    <3>1. Past + Len(work) + (Len(incoming) + 1) = Len(order) + 1
      BY <1>1
    <3>2. Past' + Len(work') + i = Len(order) + 1
      BY <1>2, <1>3, <2>1, <3>1
    <3>3. QED
      BY <1>2, <2>1, <3>2
  <2>2. CASE i # Len(incoming) + 1
    <3>1. i \in 1..Len(incoming) /\ Past + Len(work) + i \in 1..Len(order)
      BY <1>1, <1>2, <2>2
    <3>2. QED
      BY <1>2, <1>3, <3>1 DEF LineInv
  <2>3. QED
    BY <2>1, <2>2
<1>6. \A i \in DOMAIN order' : i \in DOMAIN order \/ i = Len(order) + 1
  BY <1>1, <1>2
<1>7. ASSUME NEW i \in DOMAIN order', NEW j \in DOMAIN order', order'[i].task = order'[j].task
      PROVE  i = j
  <2>1. \A k \in 1..Len(order) : order'[k].task # e.task
    BY <1>1, <1>2 DEF Enters
  <2>2. QED
    BY <1>1, <1>2, <1>6, <1>7, <2>1 DEF LineInv
<1>8. \A i \in DOMAIN order' : order'[i].time # 0 <=> order'[i].task \in Delayed
  BY <1>1, <1>2, <1>6 DEF LineInv, Enters
<1>9. Past' \in Nat
  BY <1>1, <1>3
<1>10. LineInv'
  BY <1>2, <1>4, <1>5, <1>7, <1>8, <1>9 DEF LineInv
<1>11. QED
  BY <1>2, <1>3, <1>10

LEMMA LineReloads ==
    ASSUME TypeOK, LineInv, Reloads
    PROVE  LineInv' /\ Past' = Past
<1>1. /\ Len(incoming) \in Nat /\ Len(order) \in Nat /\ Past \in Nat /\ incoming \in Seq(Entry)
  BY LineTypes
<1>2. Len(work) = 0 /\ Len(incoming') = 0 /\ work' = incoming /\ order' = order
  BY DEF Reloads
<1>3. Past' = Past
  BY <1>1, <1>2 DEF Past
<1>4. \A i \in 1..Len(work') : order'[Past' + i] = work'[i]
  <2>1. \A i \in 1..Len(incoming) : order[Past + 0 + i] = incoming[i]
    BY <1>2 DEF LineInv
  <2>2. Past + 0 = Past
    BY <1>1
  <2>3. QED
    BY <1>2, <1>3, <2>1, <2>2
<1>5. \A i \in 1..Len(incoming') : FALSE
  BY <1>2
<1>6. QED
  BY <1>1, <1>2, <1>3, <1>4, <1>5 DEF LineInv

LEMMA LineTakes ==
    ASSUME TypeOK, LineInv, Takes
    PROVE  /\ LineInv' /\ Past' = Past + 1 /\ Past' \in DOMAIN order /\ order[Past'] = Head(work)
           /\ order' = order
<1>1. /\ incoming \in Seq(Entry) /\ work \in Seq(Entry)
      /\ Len(incoming) \in Nat /\ Len(work) \in Nat /\ Len(order) \in Nat
      /\ Past \in Nat /\ Past + Len(work) + Len(incoming) = Len(order)
      /\ DOMAIN order = 1..Len(order)
  BY LineTypes
<1>2. Len(work) > 0 /\ 1 \in 1..Len(work)
  <2>1. Len(work) # 0
    BY <1>1, EmptySeq DEF Takes
  <2>2. QED
    BY <1>1, <2>1
<1>3. /\ incoming' = incoming /\ order' = order /\ Len(work') = Len(work) - 1
      /\ \A i \in 1..Len(work') : work'[i] = work[i + 1]
      /\ Head(work) = work[1]
  BY <1>1, HeadTailProperties DEF Takes
<1>4. Past' = Past + 1 /\ Past' \in Nat
  BY <1>1, <1>2, <1>3 DEF Past
<1>5. ASSUME NEW i \in 1..Len(work') PROVE order'[Past' + i] = work'[i]
  <2>1. i \in 1..(Len(work) - 1) /\ work'[i] = work[i + 1]
    BY <1>3
  <2>2. i + 1 \in 1..Len(work) /\ Past' + i = Past + (i + 1)
    BY <1>1, <1>4, <2>1
  <2>3. order[Past + (i + 1)] = work[i + 1]
    BY <2>2 DEF LineInv
  <2>4. QED
    BY <1>3, <2>1, <2>2, <2>3
<1>6. ASSUME NEW i \in 1..Len(incoming') PROVE order'[Past' + Len(work') + i] = incoming'[i]
  <2>1. Past' + Len(work') + i = Past + Len(work) + i
    BY <1>1, <1>3, <1>4
  <2>2. QED
    BY <1>3, <2>1 DEF LineInv
<1>7. LineInv'
  BY <1>3, <1>4, <1>5, <1>6 DEF LineInv
<1>8. order[Past'] = Head(work) /\ Past' \in DOMAIN order
  <2>1. order[Past + 1] = work[1]
    BY <1>2 DEF LineInv
  <2>2. QED
    BY <1>1, <1>2, <1>3, <1>4, <2>1
<1>9. QED
  BY <1>3, <1>4, <1>7, <1>8

(* A task in the line is after those that have been looked at.              *)
LEMMA InLine ==
    ASSUME TypeOK, LineInv, NEW i \in DOMAIN order, i > Past
    PROVE  Posted(order[i].task)
<1>1. /\ incoming \in Seq(Entry) /\ work \in Seq(Entry)
      /\ Len(incoming) \in Nat /\ Len(work) \in Nat /\ Len(order) \in Nat
      /\ Past \in Nat /\ Past + Len(work) + Len(incoming) = Len(order)
      /\ i \in 1..Len(order)
  BY LineTypes
<1>2. /\ DOMAIN Entries = 1..(Len(incoming) + Len(work))
      /\ \A k \in 1..Len(incoming) : Entries[k] = incoming[k]
      /\ \A k \in 1..Len(work) : Entries[Len(incoming) + k] = work[k]
  <2>1. /\ Entries \in Seq(Entry) /\ Len(Entries) = Len(incoming) + Len(work)
        /\ \A k \in 1..Len(Entries) : Entries[k] = IF k <= Len(incoming) THEN incoming[k]
                                                   ELSE work[k - Len(incoming)]
    BY <1>1, ConcatProperties DEF Entries
  <2>2. \A k \in 1..Len(incoming) : k \in 1..Len(Entries) /\ k <= Len(incoming)
    BY <1>1, <2>1
  <2>3. \A k \in 1..Len(work) : /\ Len(incoming) + k \in 1..Len(Entries)
                                /\ ~ (Len(incoming) + k <= Len(incoming))
                                /\ Len(incoming) + k - Len(incoming) = k
    BY <1>1, <2>1
  <2>4. QED
    BY <2>1, <2>2, <2>3
<1>3. CASE i <= Past + Len(work)
  <2>1. i - Past \in 1..Len(work) /\ Past + (i - Past) = i
    BY <1>1, <1>3
  <2>2. PICK k \in 1..Len(work) : Past + k = i
    BY <2>1
  <2>3. order[i] = work[k] /\ Len(incoming) + k \in DOMAIN Entries
    BY <1>1, <1>2, <2>2 DEF LineInv
  <2>4. QED
    BY <1>2, <2>2, <2>3 DEF Posted
<1>4. CASE ~ (i <= Past + Len(work))
  <2>1. /\ i - Past - Len(work) \in 1..Len(incoming)
        /\ Past + Len(work) + (i - Past - Len(work)) = i
    BY <1>1, <1>4
  <2>2. PICK k \in 1..Len(incoming) : Past + Len(work) + k = i
    BY <2>1
  <2>3. order[i] = incoming[k] /\ k \in DOMAIN Entries
    BY <1>1, <1>2, <2>2 DEF LineInv
  <2>4. QED
    BY <1>2, <2>2, <2>3 DEF Posted
<1>5. QED
  BY <1>3, <1>4

(* A task that was not posted is not in the history.                        *)
LEMMA Fresh ==
    ASSUME TypeOK, LineInv, StartInv, NEW t \in Tasks, ~ Posted(t)
    PROVE  \A i \in DOMAIN order : order[i].task # t
<1>1. SUFFICES ASSUME NEW i \in DOMAIN order PROVE Posted(order[i].task)
  OBVIOUS
<1>2. CASE i > Past
  BY <1>2, InLine
<1>3. CASE ~ (i > Past)
  <2>1. i \in 1..Past
    BY <1>3, LineTypes
  <2>2. CASE \E e \in delayed : e.task = order[i].task
    BY <2>2 DEF Posted
  <2>3. CASE Started(stack, done, order[i].task)
    <3>1. \A k \in Exec(stack) : k \in 1..Depth
      BY DEF Exec, Depth
    <3>2. QED
      BY <2>3, <3>1 DEF Started, Posted
  <2>4. QED
    BY <2>1, <2>2, <2>3 DEF StartInv
<1>4. QED
  BY <1>2, <1>3

-----------------------------------------------------------------------------
(* The history's invariant is inductive.                                    *)

LEMMA StartedIs ==
    /\ SameTasks(stack', stack) /\ done' = done
         => \A t : Started(stack', done', t) <=> Started(stack, done, t)
    /\ \A u : OneMore(stack', stack, u) /\ done' = done
                => \A t : Started(stack', done', t) <=> Started(stack, done, t) \/ t = u
    /\ \A u : OneMore(stack, stack', u) /\ done' = done \cup {u}
                => \A t : Started(stack', done', t) <=> Started(stack, done, t)
<1>1. ASSUME SameTasks(stack', stack), done' = done, NEW t
      PROVE  Started(stack', done', t) <=> Started(stack, done, t)
  BY <1>1 DEF SameTasks, Started
<1>2. ASSUME NEW u, OneMore(stack', stack, u), done' = done, NEW t
      PROVE  Started(stack', done', t) <=> Started(stack, done, t) \/ t = u
  BY <1>2 DEF OneMore, Started
<1>3. ASSUME NEW u, OneMore(stack, stack', u), done' = done \cup {u}, NEW t
      PROVE  Started(stack', done', t) <=> Started(stack, done, t)
  BY <1>3 DEF OneMore, Started
<1>4. QED
  BY <1>1, <1>2, <1>3

SameStarted == \A t : Started(stack', done', t) <=> Started(stack, done, t)

(* A position of the history stands for one task only.                      *)
LEMMA OneSeat ==
    ASSUME LineInv
    PROVE  \A i, j \in DOMAIN order : order[i].task = order[j].task => i = j
BY DEF LineInv

(* The seat of an entry of the delayed queue.                               *)
LEMMA Seat ==
    ASSUME TypeOK, LineInv, EntryInv, NEW e \in delayed
    PROVE  \E k \in 1..Past : /\ k \in DOMAIN order /\ IsAt(e, k)
                              /\ \A i \in DOMAIN order : order[i].task = e.task => i = k
<1>1. PICK k \in 1..Past : IsAt(e, k)
  BY DEF EntryInv
<1>2. k \in DOMAIN order
  BY LineTypes
<1>3. QED
  BY <1>1, <1>2, OneSeat DEF IsAt

LEMMA RestKept ==
    ASSUME TypeOK, LineInv, EntryInv, StartInv, Past' = Past, SameStarted,
           UNCHANGED <<order, delayed, nextSeq>>
    PROVE  EntryInv' /\ StartInv'
<1>1. EntryInv'
  BY DEF EntryInv, SameStarted, IsAt
<1>2. StartInv'
  BY DEF StartInv, SameStarted
<1>3. QED
  BY <1>1, <1>2

LEMMA RestEnters ==
    ASSUME TypeOK, LineInv, EntryInv, StartInv, NEW e \in Entry, Enters(e),
           ~ Started(stack, done, e.task), SameStarted, UNCHANGED <<delayed, nextSeq>>
    PROVE  EntryInv' /\ StartInv'
<1>1. /\ Past' = Past /\ Len(order') = Len(order) + 1
      /\ order'[Len(order) + 1] = e /\ \A i \in 1..Len(order) : order'[i] = order[i]
  BY LineEnters
<1>2. /\ Len(order) \in Nat /\ Past \in Nat /\ DOMAIN order = 1..Len(order)
      /\ \A i \in 1..Past : i \in 1..Len(order)
  BY LineTypes
<1>3. order' \in Seq(Entry)
  BY LineTypes, AppendType DEF Enters
<1>4. \A i \in DOMAIN order' : i \in DOMAIN order \/ i = Len(order) + 1
  BY <1>1, <1>2, <1>3
<1>5. \A i \in 1..Past : order'[i] = order[i]
  BY <1>1, <1>2
<1>6. EntryInv'
  BY <1>1, <1>5 DEF EntryInv, SameStarted, IsAt
<1>7. \A i \in DOMAIN order' : Started(stack', done', order'[i].task) => i <= Past'
  BY <1>1, <1>2, <1>4 DEF StartInv, SameStarted
<1>8. StartInv'
  BY <1>1, <1>5, <1>7 DEF StartInv, SameStarted
<1>9. QED
  BY <1>6, <1>8

LEMMA RestDelays ==
    ASSUME TypeOK, LineInv, EntryInv, StartInv, Takes, Head(work).time # 0, SameStarted,
           delayed' = delayed \cup {[task |-> Head(work).task, time |-> Head(work).time,
                                     seq |-> nextSeq]},
           nextSeq' = nextSeq + 1
    PROVE  EntryInv' /\ StartInv'
<1> DEFINE n == [task |-> Head(work).task, time |-> Head(work).time, seq |-> nextSeq]
<1>1. /\ Past' = Past + 1 /\ Past' \in DOMAIN order /\ order[Past'] = Head(work)
      /\ order' = order /\ Past \in Nat /\ DOMAIN order = 1..Len(order) /\ nextSeq \in Nat
  BY LineTakes, LineTypes, Types
<1>2. /\ n.task = Head(work).task /\ n.time = Head(work).time /\ n.seq = nextSeq
      /\ delayed' = delayed \cup {n}
  OBVIOUS
<1> HIDE DEF n
<1>3. (\A i \in 1..Past' : i \in 1..Past \/ i = Past') /\ (\A i \in 1..Past : i \in 1..Past')
      /\ Past' \in 1..Past' /\ ~ (Past' <= Past) /\ \A i \in 1..Past' : ~ (Past' < i)
  BY <1>1
<1>4. \A i \in 1..Past' : i \in DOMAIN order
  BY <1>1
<1>5. \A e \in delayed : \A i \in 1..Past' : order[i].task = e.task => i \in 1..Past
  BY <1>4, Seat
<1>6. \A e \in delayed : e.task # n.task
  <2>1. Past' \notin 1..Past
    BY <1>1
  <2>2. QED
    BY <1>1, <1>2, <1>3, <1>5, <2>1
<1>7. \A i \in 1..Past' : order[i].task = n.task => i = Past'
  BY <1>1, <1>2, <1>4, OneSeat
<1>8. ~ Started(stack, done, n.task)
  BY <1>1, <1>2, <1>3 DEF StartInv
<1>9. \A e \in delayed : e.seq < nextSeq /\ e.seq < nextSeq + 1
  <2>1. \A e \in delayed : e.seq \in Nat /\ e.seq < nextSeq
    BY Types DEF EntryInv, DelayedEntry
  <2>2. QED
    BY <1>1, <2>1
<1>10. ASSUME NEW e \in delayed'
       PROVE  /\ e.time # 0 /\ e.seq < nextSeq' /\ ~ Started(stack', done', e.task)
              /\ \E i \in 1..Past' : IsAt(e, i)'
  <2>1. CASE e \in delayed
    BY <1>1, <1>3, <1>9, <2>1 DEF EntryInv, SameStarted, IsAt
  <2>2. CASE e = n
    BY <1>1, <1>2, <1>3, <1>8, <2>2 DEF SameStarted, IsAt
  <2>3. QED
    BY <1>2, <2>1, <2>2
<1>11. ASSUME NEW e \in delayed', NEW f \in delayed', NEW i \in 1..Past', NEW j \in 1..Past',
              order[i].task = e.task, order[i].time = e.time,
              order[j].task = f.task, order[j].time = f.time, i < j
       PROVE  e.seq < f.seq
  <2>1. e # n
    BY <1>3, <1>7, <1>11
  <2>2. CASE f = n
    BY <1>2, <1>9, <2>1, <2>2
  <2>3. CASE f # n
    BY <1>2, <1>5, <1>11, <2>1, <2>3 DEF EntryInv, IsAt
  <2>4. QED
    BY <2>2, <2>3
<1>12. \A e, f \in delayed' : e.task = f.task => e = f
  BY <1>2, <1>6 DEF EntryInv
<1>13. EntryInv'
  BY <1>1, <1>10, <1>11, <1>12 DEF EntryInv, IsAt
<1>14. StartInv'
  <2>1. \A i \in DOMAIN order : i <= Past => i <= Past'
    BY <1>1
  <2>2. \A i \in 1..Past' : \/ Started(stack', done', order'[i].task)
                            \/ \E e \in delayed' : e.task = order'[i].task
    BY <1>1, <1>2, <1>3 DEF StartInv, SameStarted
  <2>3. QED
    BY <1>1, <2>1, <2>2 DEF StartInv, SameStarted
<1>15. QED
  BY <1>13, <1>14

(* A task of the work queue starts.                                         *)
LEMMA RestRuns ==
    ASSUME TypeOK, LineInv, EntryInv, StartInv, Takes,
           \A t : Started(stack', done', t) <=> Started(stack, done, t) \/ t = Head(work).task,
           UNCHANGED <<delayed, nextSeq>>
    PROVE  EntryInv' /\ StartInv'
<1>1. /\ Past' = Past + 1 /\ Past' \in DOMAIN order /\ order[Past'] = Head(work)
      /\ order' = order /\ Past \in Nat /\ DOMAIN order = 1..Len(order)
  BY LineTakes, LineTypes
<1>2. (\A i \in 1..Past' : i \in 1..Past \/ i = Past') /\ (\A i \in 1..Past : i \in 1..Past')
      /\ Past' \notin 1..Past
  BY <1>1
<1>3. \A i \in 1..Past' : i \in DOMAIN order
  BY <1>1
<1>4. \A e \in delayed : \A i \in 1..Past' : order[i].task = e.task => i \in 1..Past
  BY <1>3, Seat
<1>5. Past' \in 1..Past'
  BY <1>1
<1>6. \A e \in delayed : e.task # Head(work).task
  BY <1>1, <1>2, <1>4, <1>5
<1>7. ASSUME NEW e \in delayed'
      PROVE  /\ e.time # 0 /\ e.seq < nextSeq' /\ ~ Started(stack', done', e.task)
             /\ \E i \in 1..Past' : IsAt(e, i)'
  BY <1>1, <1>2, <1>6 DEF EntryInv, IsAt
<1>8. ASSUME NEW e \in delayed', NEW f \in delayed', NEW i \in 1..Past', NEW j \in 1..Past',
             order[i].task = e.task, order[i].time = e.time,
             order[j].task = f.task, order[j].time = f.time, i < j
      PROVE  e.seq < f.seq
  BY <1>4, <1>8 DEF EntryInv, IsAt
<1>9. EntryInv'
  <2>1. \A e, f \in delayed' : e.task = f.task => e = f
    BY DEF EntryInv
  <2>2. QED
    BY <1>1, <1>7, <1>8, <2>1 DEF EntryInv, IsAt
<1>10. StartInv'
  <2>1. \A i \in DOMAIN order : i <= Past => i <= Past'
    BY <1>1
  <2>2. \A i \in DOMAIN order : order[i].task = Head(work).task => i <= Past'
    <3>1. \A i \in DOMAIN order : order[i].task = Head(work).task => i = Past'
      BY <1>1, OneSeat
    <3>2. QED
      BY <1>1, <3>1
  <2>3. \A i \in 1..Past' : \/ Started(stack', done', order'[i].task)
                            \/ \E e \in delayed' : e.task = order'[i].task
    BY <1>1, <1>2 DEF StartInv
  <2>4. QED
    BY <1>1, <2>1, <2>2, <2>3 DEF StartInv
<1>11. QED
  BY <1>9, <1>10

(* A task of the delayed queue starts.                                      *)
LEMMA RestRunsDelayed ==
    ASSUME TypeOK, LineInv, EntryInv, StartInv, NEW e \in delayed, delayed' = delayed \ {e},
           \A t : Started(stack', done', t) <=> Started(stack, done, t) \/ t = e.task,
           Past' = Past, UNCHANGED <<order, nextSeq>>
    PROVE  EntryInv' /\ StartInv'
<1>1. \A f \in delayed' : f \in delayed /\ f.task # e.task
  BY DEF EntryInv
<1>2. EntryInv'
  BY <1>1 DEF EntryInv, IsAt
<1>3. \A i \in DOMAIN order : order[i].task = e.task => i <= Past
  <2>1. PICK k \in 1..Past : \A i \in DOMAIN order : order[i].task = e.task => i = k
    BY Seat
  <2>2. k <= Past
    BY LineTypes
  <2>3. QED
    BY <2>1, <2>2
<1>4. \A i \in 1..Past' : \/ Started(stack', done', order'[i].task)
                          \/ \E f \in delayed' : f.task = order'[i].task
  BY DEF StartInv
<1>5. StartInv'
  BY <1>3, <1>4 DEF StartInv
<1>6. QED
  BY <1>2, <1>5

(* What each step is to the history.                                        *)
Quiet == /\ SameTasks(stack', stack)
         /\ UNCHANGED <<incoming, work, order, delayed, nextSeq, done>>

LEMMA PostTaskEnters ==
    ASSUME TypeOK, TimesInv, LineInv, StartInv, NEW p \in Posters, NEW t \in Tasks, PostTask(p, t)
    PROVE  \E e \in Entry : /\ e.task = t /\ Enters(e) /\ ~ Started(stack, done, t)
                            /\ SameTasks(stack', stack)
                            /\ UNCHANGED <<delayed, nextSeq, done, now>>
<1> DEFINE e == [task |-> t, time |-> IF t \in Delayed THEN now + Delay[t] ELSE 0]
<1>1. ~ Posted(t) /\ incoming' = Append(incoming, e) /\ order' = Append(order, e)
      /\ UNCHANGED <<work, delayed, nextSeq, stack, done, now>>
  BY DEF PostTask
<1>2. now \in Nat /\ now # 0 /\ (t \in Delayed => Delay[t] \in Nat)
  BY Types, TasksAssumption DEF TimesInv
<1>3. e \in Entry /\ e.task = t /\ (e.time # 0 <=> t \in Delayed)
  <2>1. t \in Delayed => now + Delay[t] \in Nat /\ now + Delay[t] # 0
    BY <1>2
  <2>2. QED
    BY <2>1 DEF Entry
<1> HIDE DEF e
<1>4. \A i \in DOMAIN order : order[i].task # t
  BY <1>1, Fresh
<1>5. ~ Started(stack, done, t)
  <2>1. \A k \in Exec(stack) : k \in 1..Depth
    BY DEF Exec, Depth
  <2>2. QED
    BY <1>1, <2>1 DEF Started, Posted
<1>6. SameTasks(stack', stack)
  BY <1>1 DEF SameTasks
<1>7. QED
  BY <1>1, <1>3, <1>4, <1>5, <1>6 DEF Enters

(* DoWork runs the first task of the work queue, ...                        *)
LEMMA RunWorkStarts ==
    ASSUME TypeOK, StackOk(stack), RunWork
    PROVE  /\ Takes /\ Head(work).task \in Tasks /\ Head(work).time = 0
           /\ StackOk(stack') /\ OneMore(stack', stack, Head(work).task)
           /\ UNCHANGED <<delayed, nextSeq, done, now, order>>
<1>1. Depth > 0 /\ Top.at # "timer" /\ work # << >> /\ RunTask(Head(work).task) /\ AtDoWork
  BY DEF RunWork, AtDoWork, AtTop
<1>2. Head(work).task \in Tasks
  BY <1>1, Types DEF Entry
<1>3. StackOk(stack') /\ OneMore(stack', stack, Head(work).task)
  BY <1>1, <1>2, TaskStarts
<1>4. QED
  BY <1>2, <1>3 DEF RunWork, Takes, worldVars

(* ... DoDelayedWork the first one of the delayed queue.                    *)
LEMMA RunDelayedWorkStarts ==
    ASSUME TypeOK, TimesInv, StackOk(stack), RunDelayedWork
    PROVE  /\ Earliest(delayed) \in delayed /\ Earliest(delayed).task \in Tasks
           /\ delayed' = delayed \ {Earliest(delayed)} /\ Earliest(delayed).time <= now
           /\ StackOk(stack') /\ OneMore(stack', stack, Earliest(delayed).task)
           /\ UNCHANGED <<incoming, work, order, nextSeq, done, now>>
<1>1. Depth > 0 /\ delayed # {} /\ RunTask(Earliest(delayed).task) /\ AtDoDelayedWork
  BY DEF RunDelayedWork, AtDoDelayedWork, AtTop
<1>2. Earliest(delayed) \in delayed
  BY <1>1, Types
<1>3. Earliest(delayed).task \in Delayed /\ Earliest(delayed).task \in Tasks
  BY <1>2, TasksAssumption DEF TimesInv
<1>4. StackOk(stack') /\ OneMore(stack', stack, Earliest(delayed).task)
  BY <1>1, <1>3, TaskStarts
<1>5. QED
  BY <1>2, <1>3, <1>4 DEF RunDelayedWork, worldVars

(* The other steps leave the history's tasks where they are.                *)
LEMMA Others ==
    ASSUME TypeOK, StackOk(stack), [Next]_vars
    PROVE  \/ \E p \in Posters : \E t \in Tasks : PostTask(p, t)
           \/ ReloadWorkQueue \/ AddToDelayedWorkQueue \/ RunWork \/ RunDelayedWork
           \/ FinishTask
           \/ Tick /\ Quiet
           \/ Quiet /\ UNCHANGED now
<1> USE DEF loopVars, modeVars, timeVars, worldVars
<1>1. SameTasks(stack', stack) \/ RunWork \/ RunDelayedWork \/ FinishTask
  BY TasksStay
<1>2. ASSUME NEW p \in Posters, PosterStep(p)
      PROVE  (\E t \in Tasks : PostTask(p, t))
             \/ UNCHANGED <<incoming, work, order, delayed, nextSeq, done, now>>
  BY <1>2 DEF PosterStep, ExchangeHaveWork, PostHaveWork
<1>3. CASE \/ ProgramCall \/ LeaveModalLoop \/ UserInput
  BY <1>1, <1>3 DEF ProgramCall, Run, EnterModalLoop, AllowNestableTasks, Quit, LeaveModalLoop,
     UserInput, Quiet
<1>4. CASE Tick
  BY <1>1, <1>4 DEF Tick, Quiet
<1>5. CASE LoopStep
  BY <1>1, <1>5 DEF LoopStep, ProcessNextWindowsMessage, DispatchInModalLoop,
     ProcessPumpReplacementMessage, FinishDispatch, EndDoWork, EndHandleWorkMessage,
     SkipDelayedWork, AwaitDelayedWork, EndDoDelayedWork, EndHandleTimerMessage,
     DoIdleWork, WaitForWork, MouseElsewhere, WaitMessage, Quiet
<1>6. CASE UNCHANGED vars
  BY <1>1, <1>6 DEF vars, Quiet
<1>7. QED
  BY <1>1, <1>2, <1>3, <1>4, <1>5, <1>6 DEF Next, Quiet

LEMMA QuietKeeps ==
    ASSUME TypeOK, StackOk(stack), StackOk(stack'), RefInv, Quiet
    PROVE  RefInv'
<1>1. LineInv' /\ Past' = Past
  BY DEF Quiet, RefInv, LineInv, Past
<1>2. SameStarted
  BY StartedIs DEF Quiet, SameStarted
<1>3. EntryInv' /\ StartInv'
  BY <1>1, <1>2, RestKept DEF RefInv, Quiet
<1>4. Ranked(stack')
  BY SameClosures DEF RefInv, Quiet
<1>5. QED
  BY <1>1, <1>3, <1>4 DEF RefInv

LEMMA RefInductive ==
    ASSUME IInv, RefInv, IInv', [Next]_vars
    PROVE  RefInv'
<1>1. /\ TypeOK /\ StackOk(stack) /\ StackOk(stack') /\ TimesInv
      /\ Ranked(stack) /\ LineInv /\ EntryInv /\ StartInv
  BY DEF IInv, RefInv
<1>2. SameTasks(stack', stack) /\ done' = done => SameStarted /\ Ranked(stack')
  BY <1>1, StartedIs, SameClosures DEF SameStarted
<1>3. ASSUME NEW p \in Posters, NEW t \in Tasks, PostTask(p, t) PROVE RefInv'
  <2>1. PICK e \in Entry : /\ e.task = t /\ Enters(e) /\ ~ Started(stack, done, t)
                           /\ SameTasks(stack', stack) /\ UNCHANGED <<delayed, nextSeq, done, now>>
    BY <1>1, <1>3, PostTaskEnters
  <2>2. LineInv' /\ EntryInv' /\ StartInv'
    BY <1>1, <1>2, <2>1, LineEnters, RestEnters
  <2>3. QED
    BY <1>2, <2>1, <2>2 DEF RefInv
<1>4. CASE ReloadWorkQueue
  <2>1. /\ Reloads /\ SameTasks(stack', stack) /\ UNCHANGED <<delayed, nextSeq, done, order>>
    BY <1>4 DEF ReloadWorkQueue, Reloads, worldVars, SameTasks
  <2>2. LineInv' /\ EntryInv' /\ StartInv'
    BY <1>1, <1>2, <2>1, LineReloads, RestKept
  <2>3. QED
    BY <1>2, <2>1, <2>2 DEF RefInv
<1>5. CASE AddToDelayedWorkQueue
  <2>1. /\ Takes /\ SameTasks(stack', stack) /\ done' = done /\ Head(work).time # 0
        /\ delayed' = delayed \cup {[task |-> Head(work).task, time |-> Head(work).time,
                                     seq |-> nextSeq]}
        /\ nextSeq' = nextSeq + 1
    BY <1>5 DEF AddToDelayedWorkQueue, Takes, worldVars, SameTasks
  <2>2. LineInv' /\ EntryInv' /\ StartInv'
    BY <1>1, <1>2, <2>1, LineTakes, RestDelays
  <2>3. QED
    BY <1>2, <2>1, <2>2 DEF RefInv
<1>6. CASE RunWork
  <2>1. /\ Takes /\ OneMore(stack', stack, Head(work).task)
        /\ UNCHANGED <<delayed, nextSeq, done>>
    BY <1>1, <1>6, RunWorkStarts
  <2>2. \A t : Started(stack', done', t) <=> Started(stack, done, t) \/ t = Head(work).task
    BY <2>1, StartedIs
  <2>3. LineInv' /\ EntryInv' /\ StartInv'
    BY <1>1, <2>1, <2>2, LineTakes, RestRuns
  <2>4. Ranked(stack')
    BY <1>1, <2>1, OneMoreRanked
  <2>5. QED
    BY <2>3, <2>4 DEF RefInv
<1>7. CASE RunDelayedWork
  <2>1. PICK e \in delayed :
           /\ delayed' = delayed \ {e} /\ OneMore(stack', stack, e.task)
           /\ UNCHANGED <<incoming, work, order, nextSeq, done>>
    BY <1>1, <1>7, RunDelayedWorkStarts
  <2>2. \A t : Started(stack', done', t) <=> Started(stack, done, t) \/ t = e.task
    BY <2>1, StartedIs
  <2>3. LineInv' /\ Past' = Past
    BY <1>1, <2>1 DEF LineInv, Past
  <2>4. EntryInv' /\ StartInv'
    BY <1>1, <2>1, <2>2, <2>3, RestRunsDelayed
  <2>5. Ranked(stack')
    BY <1>1, <2>1, OneMoreRanked
  <2>6. QED
    BY <2>3, <2>4, <2>5 DEF RefInv
<1>8. CASE FinishTask
  <2>1. /\ OneMore(stack, stack', Top.task) /\ done' = done \cup {Top.task}
        /\ UNCHANGED <<incoming, work, order, delayed, nextSeq>>
    BY <1>1, <1>8, TaskFinishes DEF FinishTask, loopVars, worldVars
  <2>2. SameStarted
    BY <2>1, StartedIs DEF SameStarted
  <2>3. LineInv' /\ Past' = Past
    BY <1>1, <2>1 DEF LineInv, Past
  <2>4. EntryInv' /\ StartInv'
    BY <1>1, <2>1, <2>2, <2>3, RestKept
  <2>5. Ranked(stack')
    BY <1>1, <2>1, OneMoreRanked
  <2>6. QED
    BY <2>3, <2>4, <2>5 DEF RefInv
<1>9. CASE Quiet
  BY <1>1, <1>9, QuietKeeps
<1>10. QED
  BY <1>1, <1>3, <1>4, <1>5, <1>6, <1>7, <1>8, <1>9, Others

LEMMA RefInit == Init => RefInv
<1>1. SUFFICES ASSUME Init PROVE RefInv
  OBVIOUS
<1>2. /\ order = << >> /\ work = << >> /\ incoming = << >> /\ delayed = {} /\ stack = << >>
  BY <1>1 DEF Init
<1>3. Past = 0
  <2>1. Len(order) = 0 /\ Len(work) = 0 /\ Len(incoming) = 0
    BY <1>2
  <2>2. QED
    BY <2>1 DEF Past
<1>4. /\ \A i \in 1..Len(work) : FALSE
      /\ \A i \in 1..Len(incoming) : FALSE
      /\ \A i \in DOMAIN order : FALSE
      /\ \A i \in 1..Past : FALSE
  BY <1>2, <1>3
<1>5. LineInv
  BY <1>3, <1>4 DEF LineInv
<1>6. EntryInv /\ StartInv
  BY <1>2, <1>4 DEF EntryInv, StartInv
<1>7. Ranked(stack)
  <2>1. Exec(stack) = {}
    BY <1>2 DEF Exec
  <2>2. Cardinality(Exec(stack)) = 0
    BY <2>1, FS_EmptySet
  <2>3. \A n \in 1..0 : FALSE
    OBVIOUS
  <2>4. QED
    BY <2>2, <2>3 DEF Ranked
<1>8. QED
  BY <1>5, <1>6, <1>7 DEF RefInv

-----------------------------------------------------------------------------
(* Every step is a step of TaskRunner, or none.                             *)

NamesOf(q)  == [i \in DOMAIN q |-> q[i].task]
DueIn(q, t) == IF \E i \in DOMAIN q : q[i].task = t
               THEN q[CHOOSE i \in DOMAIN q : q[i].task = t].time
               ELSE 0
Names == NamesOf(order)
Dues  == [t \in Tasks |-> DueOf(t)]

LEMMA NamesOfAre ==
    ASSUME NEW q \in Seq(Entry)
    PROVE  /\ NamesOf(q) \in Seq(Tasks) /\ Len(NamesOf(q)) = Len(q) /\ DOMAIN NamesOf(q) = DOMAIN q
           /\ \A i \in DOMAIN q : NamesOf(q)[i] = q[i].task
<1>1. PICK n \in Nat : n = Len(q) /\ DOMAIN q = 1..n
  OBVIOUS
<1>2. \A i \in 1..n : q[i].task \in Tasks
  <2>1. \A i \in 1..n : q[i] \in Entry
    BY <1>1
  <2>2. QED
    BY <2>1 DEF Entry
<1>3. NamesOf(q) \in [1..n -> Tasks]
  BY <1>1, <1>2 DEF NamesOf
<1>4. NamesOf(q) \in Seq(Tasks) /\ Len(NamesOf(q)) = n
  BY <1>3, FunctionIsSeq
<1>5. QED
  BY <1>1, <1>4 DEF NamesOf

LEMMA NamesAre ==
    ASSUME TypeOK, LineInv
    PROVE  /\ Names \in Seq(Tasks) /\ Len(Names) = Len(order) /\ DOMAIN Names = DOMAIN order
           /\ \A i \in DOMAIN order : Names[i] = order[i].task
  BY LineTypes, NamesOfAre DEF Names

LEMMA DueInIs ==
    ASSUME NEW q, \A i, j \in DOMAIN q : q[i].task = q[j].task => i = j
    PROVE  /\ \A i \in DOMAIN q : DueIn(q, q[i].task) = q[i].time
           /\ \A t : (\A i \in DOMAIN q : q[i].task # t) => DueIn(q, t) = 0
<1>1. ASSUME NEW i \in DOMAIN q PROVE DueIn(q, q[i].task) = q[i].time
  <2>1. PICK k \in DOMAIN q : /\ k = (CHOOSE j \in DOMAIN q : q[j].task = q[i].task)
                              /\ q[k].task = q[i].task
    OBVIOUS
  <2>2. k = i
    BY <2>1
  <2>3. QED
    BY <2>1, <2>2 DEF DueIn
<1>2. ASSUME NEW t, \A i \in DOMAIN q : q[i].task # t PROVE DueIn(q, t) = 0
  BY <1>2 DEF DueIn
<1>3. QED
  BY <1>1, <1>2

LEMMA DuesAre == /\ Dues = [t \in Tasks |-> DueIn(order, t)]
                 /\ Dues' = [t \in Tasks |-> DueIn(order', t)]
BY DEF Dues, DueOf, DueIn

LEMMA DueIs ==
    ASSUME TypeOK, LineInv, NEW i \in DOMAIN order
    PROVE  Dues[order[i].task] = order[i].time
BY LineTypes, DueInIs, DuesAre DEF LineInv

(* The tasks that wait are those of the history that have not started.      *)
LEMMA WaitingIs ==
    ASSUME TypeOK, StackOk(stack), Ranked(stack), LineInv
    PROVE  \A u : u \in Runner!Waiting
                    <=> /\ \E i \in DOMAIN order : order[i].task = u
                        /\ ~ Started(stack, done, u)
<1>1. \A u : u \in Runner!Elements(Names) <=> \E i \in DOMAIN order : order[i].task = u
  BY NamesAre DEF Runner!Elements
<1>2. \A u : u \in Elements(Closures) <=> \E i \in Exec(stack) : stack[i].task = u
  BY ClosuresIs, ClosuresAre
<1>3. Runner!Elements(Closures) = Elements(Closures)
  BY DEF Runner!Elements, Elements
<1>4. QED
  BY <1>1, <1>2, <1>3 DEF Runner!Waiting, Names, NamesOf, Started

LEMMA PrecedeIs ==
    ASSUME TypeOK, LineInv, NEW k \in DOMAIN order, NEW v, Runner!MustPrecede(v, order[k].task)
    PROVE  \E i \in DOMAIN order :
              /\ i < k /\ order[i].task = v
              /\ \/ order[i].time = 0 /\ order[k].time = 0
                 \/ order[i].time # 0 /\ order[k].time # 0 /\ order[i].time <= order[k].time
<1>1. PICK i \in DOMAIN order, j \in DOMAIN order :
         i < j /\ order[i].task = v /\ order[j].task = order[k].task
  BY NamesAre DEF Runner!MustPrecede, Names, NamesOf
<1>2. j = k
  BY <1>1, OneSeat
<1>3. /\ order[i].task \in Tasks /\ order[k].task \in Tasks
      /\ order[i].time # 0 <=> order[i].task \in Delayed
      /\ order[k].time # 0 <=> order[k].task \in Delayed
  BY LineTypes DEF LineInv
<1>4. \/ v \notin Delayed /\ order[k].task \notin Delayed
      \/ v \in Delayed /\ order[k].task \in Delayed /\ Dues[v] <= Dues[order[k].task]
  BY DEF Runner!MustPrecede, Runner!Plain, Dues
<1>5. Dues[order[i].task] = order[i].time /\ Dues[order[k].task] = order[k].time
  BY DueIs
<1>6. QED
  BY <1>1, <1>2, <1>3, <1>4, <1>5

(* A step that starts the task at position k is TaskRunner's.               *)
LEMMA StartIs ==
    ASSUME IInv, RefInv, StackOk(stack'), NEW k \in DOMAIN order,
           OneMore(stack', stack, order[k].task), ~ Started(stack, done, order[k].task),
           order[k].time <= now, UNCHANGED <<order, done, now>>,
           \A i \in DOMAIN order :
              i < k /\ (\/ order[i].time = 0 /\ order[k].time = 0
                        \/ order[i].time # 0 /\ order[k].time # 0 /\ order[i].time <= order[k].time)
                => Started(stack, done, order[i].task)
    PROVE  Runner!Next
<1> DEFINE u == order[k].task
<1>1. /\ TypeOK /\ StackOk(stack) /\ Ranked(stack) /\ LineInv /\ u \in Tasks
  BY LineTypes DEF IInv, RefInv
<1>2. Closures' = Append(Closures, u)
  BY <1>1, OneMoreClosure, ClosuresIs
<1>3. u \in Runner!Waiting
  BY <1>1, WaitingIs
<1>4. Dues[u] <= now
  BY <1>1, DueIs
<1>5. ASSUME NEW v \in Runner!Waiting, Runner!MustPrecede(v, u) PROVE FALSE
  <2>1. ~ Started(stack, done, v)
    BY <1>1, WaitingIs
  <2>2. PICK i \in DOMAIN order :
           /\ i < k /\ order[i].task = v
           /\ \/ order[i].time = 0 /\ order[k].time = 0
              \/ order[i].time # 0 /\ order[k].time # 0 /\ order[i].time <= order[k].time
    BY <1>1, <1>5, PrecedeIs
  <2>3. QED
    BY <2>1, <2>2
<1>6. Names' = Names /\ Dues' = Dues
  BY DEF Names, NamesOf, Dues, DueOf
<1>7. Runner!Start(u)
  <2> HIDE DEF u
  <2>1. QED
    BY <1>2, <1>3, <1>4, <1>5, <1>6 DEF Runner!Start, Names, NamesOf, Dues
<1>8. QED
  BY <1>1, <1>7 DEF Runner!Next

(* DoWork takes the task that comes next; of the plain ones all before it   *)
(* have started.                                                            *)
LEMMA RunWorkIs ==
    ASSUME IInv, RefInv, RunWork
    PROVE  Runner!Next
<1>1. /\ TypeOK /\ StackOk(stack) /\ LineInv /\ EntryInv /\ StartInv
  BY DEF IInv, RefInv
<1>2. /\ Takes /\ Head(work).time = 0 /\ StackOk(stack')
      /\ OneMore(stack', stack, Head(work).task) /\ UNCHANGED <<order, done, now>>
  BY <1>1, RunWorkStarts
<1>3. PICK k \in DOMAIN order : k = Past + 1 /\ order[k] = Head(work)
  BY <1>1, <1>2, LineTakes
<1>4. Past \in Nat /\ now \in Nat /\ \A i \in DOMAIN order : i < k => i \in 1..Past
  BY <1>1, <1>3, LineTypes, Types
<1>5. ~ Started(stack, done, order[k].task)
  BY <1>1, <1>3, <1>4 DEF StartInv
<1>6. ASSUME NEW i \in DOMAIN order, i < k, order[i].time = 0
      PROVE  Started(stack, done, order[i].task)
  <2>1. ASSUME NEW e \in delayed, e.task = order[i].task PROVE FALSE
    <3>1. PICK j \in DOMAIN order : IsAt(e, j) /\ i = j
      BY <1>1, <2>1, Seat
    <3>2. QED
      BY <1>1, <1>6, <3>1 DEF EntryInv, IsAt
  <2>2. QED
    BY <1>1, <1>4, <1>6, <2>1 DEF StartInv
<1>7. order[k].time = 0 /\ order[k].time <= now
  BY <1>2, <1>3, <1>4
<1>8. QED
  BY <1>2, <1>3, <1>5, <1>6, <1>7, StartIs

(* DoDelayedWork takes the earliest task, the first of those due together.  *)
LEMMA RunDelayedWorkIs ==
    ASSUME IInv, RefInv, RunDelayedWork
    PROVE  Runner!Next
<1> DEFINE e == Earliest(delayed)
<1>1. /\ TypeOK /\ TimesInv /\ StackOk(stack) /\ LineInv /\ EntryInv /\ StartInv
  BY DEF IInv, RefInv
<1>2. /\ e \in delayed /\ e.time <= now /\ StackOk(stack')
      /\ OneMore(stack', stack, e.task) /\ UNCHANGED <<order, done, now>>
  BY <1>1, RunDelayedWorkStarts
<1>3. /\ \A f \in delayed : e.time <= f.time /\ (e.time = f.time => e.seq <= f.seq)
      /\ \A f \in delayed : f.time \in Nat /\ f.seq \in Nat
  <2>1. delayed \subseteq DelayedEntry /\ delayed # {}
    BY <1>1, <1>2, Types
  <2>2. QED
    BY <2>1, EarliestIsFirst DEF DelayedEntry
<1> HIDE DEF e
<1>4. PICK k \in 1..Past : k \in DOMAIN order /\ IsAt(e, k)
  BY <1>1, <1>2, Seat
<1>5. order[k].task = e.task /\ order[k].time = e.time
  BY <1>4 DEF IsAt
<1>6. e.time # 0 /\ ~ Started(stack, done, e.task)
  BY <1>1, <1>2 DEF EntryInv
<1>7. ASSUME NEW i \in DOMAIN order, i < k, order[i].time <= e.time,
             ~ Started(stack, done, order[i].task)
      PROVE  FALSE
  <2>1. i \in 1..Past
    BY <1>1, <1>4, <1>7, LineTypes
  <2>2. PICK f \in delayed : f.task = order[i].task
    BY <1>1, <1>7, <2>1 DEF StartInv
  <2>3. IsAt(f, i)
    <3>1. PICK j \in DOMAIN order : IsAt(f, j) /\ i = j
      BY <1>1, <2>2, Seat
    <3>2. QED
      BY <3>1
  <2>4. f.seq < e.seq
    BY <1>1, <1>2, <1>4, <1>7, <2>1, <2>2, <2>3 DEF EntryInv
  <2>5. f.time <= e.time /\ e.time <= f.time /\ (e.time = f.time => e.seq <= f.seq)
        /\ f.time \in Nat /\ e.time \in Nat /\ f.seq \in Nat /\ e.seq \in Nat
    BY <1>2, <1>3, <1>7, <2>2, <2>3 DEF IsAt
  <2>6. QED
    BY ONLY <2>4, <2>5
<1>8. QED
  BY <1>2, <1>4, <1>5, <1>6, <1>7, StartIs

(* What comes in at the end of the queue is accepted.                       *)
LEMMA PostTaskIs ==
    ASSUME IInv, IInv', RefInv, RefInv', NEW p \in Posters, NEW t \in Tasks, PostTask(p, t)
    PROVE  Runner!Next
<1>1. /\ TypeOK /\ StackOk(stack) /\ StackOk(stack') /\ TimesInv /\ Ranked(stack)
      /\ LineInv /\ StartInv /\ LineInv'
  BY DEF IInv, RefInv
<1>2. PICK e \in Entry : /\ e.task = t /\ Enters(e) /\ SameTasks(stack', stack)
                         /\ UNCHANGED <<done, now>>
  BY <1>1, PostTaskEnters
<1>3. /\ Len(order') = Len(order) + 1 /\ order'[Len(order) + 1] = e
      /\ \A i \in 1..Len(order) : order'[i] = order[i]
  BY <1>1, <1>2, LineEnters
<1>4. /\ Len(order) \in Nat /\ DOMAIN order = 1..Len(order)
      /\ DOMAIN order' = 1..Len(order') /\ order' \in Seq(Entry)
  <2>1. order' \in Seq(Entry)
    BY <1>1, <1>2, LineTypes, AppendType DEF Enters
  <2>2. QED
    BY <1>1, <2>1, LineTypes
<1>5. /\ Len(order) + 1 \in DOMAIN order'
      /\ \A i \in DOMAIN order : i \in DOMAIN order'
      /\ \A i \in DOMAIN order' : i \in DOMAIN order \/ i = Len(order) + 1
  BY <1>3, <1>4
<1>6. \A i \in DOMAIN order : order[i].task # t
  BY <1>2 DEF Enters
<1>7. Names' = Append(Names, t)
  <2>1. Names \in Seq(Tasks) /\ Len(Names) = Len(order) /\ \A i \in DOMAIN order : Names[i] = order[i].task
    BY <1>1, NamesAre
  <2>2. /\ Append(Names, t) \in Seq(Tasks) /\ Len(Append(Names, t)) = Len(order) + 1
        /\ Append(Names, t)[Len(order) + 1] = t
        /\ \A i \in 1..Len(order) : Append(Names, t)[i] = order[i].task
    BY <1>4, <2>1
  <2>3. /\ Names' \in Seq(Tasks) /\ Len(Names') = Len(order')
        /\ \A i \in DOMAIN order' : Names'[i] = order'[i].task
    BY <1>4, NamesOfAre DEF Names
  <2>4. ASSUME NEW i \in 1..Len(order) + 1 PROVE Names'[i] = Append(Names, t)[i]
    BY <1>2, <1>3, <1>4, <1>5, <2>2, <2>3
  <2>5. QED
    BY <1>3, <1>4, <2>2, <2>3, <2>4, SeqEqual
<1>8. t \notin Runner!Elements(Names)
  <2>1. DOMAIN Names = DOMAIN order /\ \A i \in DOMAIN order : Names[i] = order[i].task
    BY <1>1, NamesAre
  <2>2. QED
    BY <1>6, <2>1 DEF Runner!Elements
<1>9. /\ \A i, j \in DOMAIN order : order[i].task = order[j].task => i = j
      /\ \A i, j \in DOMAIN order' : order'[i].task = order'[j].task => i = j
      /\ \A i \in DOMAIN order' : order'[i].time # 0 <=> order'[i].task \in Delayed
  BY <1>1 DEF LineInv
<1>10. DueIn(order', t) = e.time /\ e.time \in Nat /\ (t \in Delayed <=> e.time # 0)
  <2>1. DueIn(order', order'[Len(order) + 1].task) = order'[Len(order) + 1].time
    BY <1>5, <1>9, DueInIs
  <2>2. e.time \in Nat
    BY DEF Entry
  <2>3. QED
    BY <1>2, <1>3, <1>5, <1>9, <2>1, <2>2
<1>11. ASSUME NEW u \in Tasks, u # t PROVE DueIn(order', u) = DueIn(order, u)
  <2>1. CASE \E i \in DOMAIN order : order[i].task = u
    <3>1. PICK i \in DOMAIN order : order[i].task = u
      BY <2>1
    <3>2. DueIn(order, order[i].task) = order[i].time
      BY <1>9, DueInIs
    <3>3. i \in DOMAIN order' /\ order'[i] = order[i]
      BY <1>3, <1>4, <1>5
    <3>4. DueIn(order', order'[i].task) = order'[i].time
      BY <1>9, <3>3, DueInIs
    <3>5. QED
      BY <3>1, <3>2, <3>3, <3>4
  <2>2. CASE \A i \in DOMAIN order : order[i].task # u
    <3>1. \A i \in DOMAIN order' : order'[i].task # u
      BY <1>2, <1>3, <1>4, <1>5, <1>11, <2>2
    <3>2. QED
      BY <1>9, <2>2, <3>1, DueInIs
  <2>3. QED
    BY <2>1, <2>2
<1>12. /\ Dues'[t] \in Nat /\ (t \in Delayed <=> Dues'[t] # 0)
       /\ Dues' = [Dues EXCEPT ![t] = Dues'[t]]
  <2>1. Dues'[t] = e.time
    BY <1>10, DuesAre
  <2>2. Dues' = [Dues EXCEPT ![t] = Dues'[t]]
    BY <1>11, DuesAre
  <2>3. QED
    BY <1>10, <2>1, <2>2
<1>13. Closures' = Closures
  BY <1>1, <1>2, SameClosures, ClosuresIs
<1>14. Runner!Accept(t)
  BY <1>2, <1>7, <1>8, <1>12, <1>13 DEF Runner!Accept, Names, NamesOf, Dues
<1>15. QED
  BY <1>14 DEF Runner!Next

LEMMA FinishTaskIs ==
    ASSUME IInv, RefInv, RefInv', FinishTask
    PROVE  Runner!Next
<1>1. TypeOK /\ StackOk(stack) /\ Ranked(stack')
  BY DEF IInv, RefInv
<1>2. StackOk(stack') /\ Top.task \in Tasks /\ OneMore(stack, stack', Top.task)
  BY <1>1, TaskFinishes
<1>3. Closures = Append(Closures', Top.task) /\ Closures' \in Seq(Tasks)
  BY <1>1, <1>2, OneMoreClosure, ClosuresAre, ClosuresIs
<1>4. /\ Closures # << >> /\ Closures[Len(Closures)] = Top.task
      /\ Closures' = SubSeq(Closures, 1, Len(Closures) - 1)
  <2>1. ASSUME NEW s \in Seq(Tasks), NEW u \in Tasks
        PROVE  /\ Append(s, u) # << >> /\ Append(s, u)[Len(Append(s, u))] = u
               /\ s = SubSeq(Append(s, u), 1, Len(Append(s, u)) - 1)
    <3>1. /\ Len(Append(s, u)) = Len(s) + 1 /\ Len(s) \in Nat /\ Append(s, u)[Len(s) + 1] = u
          /\ Len(s) + 1 - 1 = Len(s) /\ Append(s, u) # << >>
      OBVIOUS
    <3>2. s = SubSeq(Append(s, u), 1, Len(s))
      BY AppendProperties
    <3>3. QED
      BY <3>1, <3>2
  <2>2. QED
    BY <1>2, <1>3, <2>1
<1>5. done' = done \cup {Top.task} /\ order' = order /\ now' = now
  BY DEF FinishTask, worldVars
<1>6. Names' = Names /\ Dues' = Dues
  BY <1>5 DEF Names, NamesOf, Dues, DueOf
<1>7. Runner!Finish
  BY <1>4, <1>5, <1>6 DEF Runner!Finish, Names, NamesOf, Dues
<1>8. QED
  BY <1>7 DEF Runner!Next

LEMMA QuietIs ==
    ASSUME IInv, IInv', RefInv, SameTasks(stack', stack), UNCHANGED <<order, done>>
    PROVE  /\ now' = now => UNCHANGED Runner!vars
           /\ now' = now + 1 => Runner!Next
<1>1. StackOk(stack) /\ StackOk(stack') /\ Ranked(stack)
  BY DEF IInv, RefInv
<1>2. Closures' = Closures
  BY <1>1, SameClosures, ClosuresIs
<1>3. Names' = Names /\ Dues' = Dues
  BY DEF Names, NamesOf, Dues, DueOf
<1>4. now' = now => UNCHANGED Runner!vars
  BY <1>2, <1>3 DEF Runner!vars, Names, NamesOf, Dues
<1>5. now' = now + 1 => Runner!Next
  BY <1>2, <1>3 DEF Runner!Next, Runner!Tick, Names, NamesOf, Dues
<1>6. QED
  BY <1>4, <1>5

LEMMA RunnerNext ==
    ASSUME IInv, IInv', RefInv, RefInv', [Next]_vars
    PROVE  Runner!Next \/ UNCHANGED Runner!vars
<1>1. TypeOK /\ StackOk(stack)
  BY DEF IInv
<1>2. CASE ReloadWorkQueue \/ AddToDelayedWorkQueue
  <2>1. SameTasks(stack', stack) /\ UNCHANGED <<order, done, now>>
    BY <1>2 DEF ReloadWorkQueue, AddToDelayedWorkQueue, worldVars, SameTasks
  <2>2. QED
    BY <2>1, QuietIs
<1>3. CASE Quiet /\ UNCHANGED now
  BY <1>3, QuietIs DEF Quiet
<1>4. CASE Tick /\ Quiet
  BY <1>4, QuietIs DEF Quiet, Tick
<1>5. QED
  BY <1>1, <1>2, <1>3, <1>4, Others, PostTaskIs, RunWorkIs, RunDelayedWorkIs, FinishTaskIs

LEMMA RunnerInit == Init => Runner!Init
<1>1. SUFFICES ASSUME Init PROVE Runner!Init
  OBVIOUS
<1>2. order = << >> /\ stack = << >> /\ done = {} /\ now = 1
  BY <1>1 DEF Init
<1>3. Names = << >>
  BY <1>2 DEF Names, NamesOf
<1>4. Dues = [t \in Tasks |-> 0]
  BY <1>2 DEF Dues, DueOf
<1>5. Closures = << >>
  <2>1. Executing = {}
    BY <1>2 DEF Executing, Depth
  <2>2. Cardinality(Executing) = 0
    BY <2>1, FS_EmptySet
  <2>3. QED
    BY <2>2 DEF Closures
<1>6. QED
  BY <1>2, <1>3, <1>4, <1>5 DEF Runner!Init, Names, NamesOf, Dues

LEMMA RefInvariant == Spec => [](IInv /\ RefInv)
<1>1. Init => RefInv
  BY RefInit
<1>2. IInv /\ IInv' /\ RefInv /\ [Next]_vars => RefInv'
  BY RefInductive
<1>3. QED
  BY <1>1, <1>2, IInvariant, PTL DEF Spec

(* The loop with this pump implements TaskRunner: for any tasks, posters,   *)
(* scripts, input and nesting of modal loops, plain tasks start in posting  *)
(* order, delayed ones when due and never out of order, whether DoRunLoop,  *)
(* HandleWorkMessage or HandleTimerMessage calls the delegate, and each is  *)
(* started and finished once.                                               *)
THEOREM ImplementsTaskRunnerCorrect == Spec => ImplementsTaskRunner
<1>1. Init => Runner!Init
  BY RunnerInit
<1>2. IInv /\ IInv' /\ RefInv /\ RefInv' /\ [Next]_vars => [Runner!Next]_(Runner!vars)
  BY RunnerNext
<1>3. QED
  BY <1>1, <1>2, RefInvariant, PTL DEF Spec, ImplementsTaskRunner, Runner!Spec
=============================================================================
