----------------------------- MODULE MessageLoop -----------------------------
(***************************************************************************)
(* nbase::MessageLoop driven by nbase::DefaultMessagePump                  *)
(* (base/framework/message_loop.cpp, default_message_pump.cpp).            *)
(*                                                                         *)
(* One thread, the owner, runs the loop; Posters are other threads that    *)
(* post closures to it.  An owner step ends where the code next touches    *)
(* what posters share with it (incoming_queue_ under its lock, the pump's  *)
(* event_) or where a closure of the program runs.  A closure is a task    *)
(* with a Script: the calls it may make on the loop, in any order, each at *)
(* most once.  Tasks also stand for PendingTask records: a task is posted  *)
(* at most once.                                                           *)
(***************************************************************************)
EXTENDS Naturals, Sequences, FiniteSets

CONSTANTS Tasks, NoTask,
          NonNestable,  \* tasks posted by PostNonNestable(Delayed)Task
          Delayed,      \* tasks posted by Post(NonNestable)DelayedTask
          Delay,        \* their TimeDelta
          Script,       \* Script[t]: the loop calls the body of t may make
          Posters,
          MaxDepth,     \* bound on the nesting of Run
          MaxTime       \* bound on the clock

Ops == {"Post", "Quit", "QuitNow", "Allow", "Forbid", "Run", "RunAllPending"}

ASSUME TasksAssumption == /\ NoTask \notin Tasks
                          /\ NonNestable \subseteq Tasks
                          /\ Delayed \subseteq Tasks
                          /\ Delay \in [Tasks -> Nat]
                          /\ Script \in [Tasks -> SUBSET Ops]
ASSUME BoundsAssumption == MaxDepth \in Nat \ {0} /\ MaxTime \in Nat

VARIABLES
    incoming,         \* incoming_queue_
    work,             \* work_queue_
    deferred,         \* deferred_non_nestable_work_queue_
    delayed,          \* delayed_work_queue_: its PendingTasks
    nextSeq,          \* next_delayed_task_sequence_num_
    due,              \* delayed_run_time of each posted task, 0 if is_null()
    nestableAllowed,  \* nestable_tasks_allowed_
    recentTick,       \* recent_tick_
    delayedWorkTime,  \* DefaultMessagePump::delayed_work_time_, 0 if is_null()
    signaled,         \* DefaultMessagePump::event_, an auto-reset event
    shouldQuit,       \* DefaultMessagePump::should_quit_
    depth,            \* state_->run_depth, 0 when state_ is NULL
    frame,            \* the activations of Run, by run_depth
    poster,           \* where each poster is in PostTask
    now,              \* TimeTicks::Now(); a null TimeTicks is 0
    order,            \* history: tasks in the order they entered incoming_queue_
    done              \* history: tasks that have returned

sharedVars == <<incoming, signaled>>
queueVars  == <<work, deferred, delayed, nextSeq>>
timerVars  == <<recentTick, delayedWorkTime>>
ghostVars  == <<order, done>>
vars == <<sharedVars, queueVars, due, nestableAllowed, timerVars, shouldQuit,
          depth, frame, poster, now, ghostVars>>

-----------------------------------------------------------------------------
Levels == 1..MaxDepth
PumpPc == {"work", "delayed", "idle", "sleep", "wait", "timedwait", "return"}

(* An activation of MessageLoop::Run: the position in the pump's Run, the   *)
(* closure it is executing there, the calls that closure may still make,    *)
(* whether its last SetNestableTasksAllowed was (true), RunState's          *)
(* quit_received, and the pump's did_work.                                  *)
Frame == [pc : PumpPc, task : Tasks \cup {NoTask}, ops : SUBSET Ops,
          allows : BOOLEAN, quit : BOOLEAN, did : BOOLEAN]
NewFrame(quit) == [pc |-> "work", task |-> NoTask, ops |-> {},
                   allows |-> FALSE, quit |-> quit, did |-> FALSE]

Entry == [task : Tasks, time : Nat, seq : Nat]

Elements(s) == {s[i] : i \in DOMAIN s}
Top        == frame[depth]
AtPump(pc) == depth > 0 /\ Top.pc = pc /\ Top.task = NoTask
InTask     == depth > 0 /\ Top.task # NoTask
MayCall(op) == InTask /\ op \in Top.ops
Called(op) == [Top EXCEPT !.ops = @ \ {op}]
SetTop(f)  == frame' = [frame EXCEPT ![depth] = f]

(* Mutant: the inverted comparison of sequence numbers is forgotten.        *)
Before_Lifo(e, f) == e.time < f.time \/ (e.time = f.time /\ e.seq > f.seq)

(* PendingTask::operator<, read as "runs before".                           *)
Before(e, f) == e.time < f.time \/ (e.time = f.time /\ e.seq < f.seq)
Earliest(q)  == CHOOSE e \in q : \A f \in q : ~ Before(f, e)

(* Mutant: the pump checks should_quit_ only after DoIdleWork.              *)
Onward_Unchecked(pc) == pc

(* The pump's `if (should_quit_) break` after each call to the delegate.    *)
Onward(pc) == IF shouldQuit THEN "return" ELSE pc

Posted(t) == t \in Elements(order) \/ \E p \in Posters : poster[p].task = t

Init ==
    /\ incoming = << >> /\ signaled = FALSE
    /\ work = << >> /\ deferred = << >> /\ delayed = {} /\ nextSeq = 0
    /\ due = [t \in Tasks |-> 0]
    /\ nestableAllowed = TRUE
    /\ recentTick = 0 /\ delayedWorkTime = 0
    /\ shouldQuit = FALSE
    /\ depth = 0
    /\ frame = [d \in Levels |-> NewFrame(FALSE)]
    /\ poster = [p \in Posters |-> [pc |-> "idle", task |-> NoTask]]
    /\ now = 1
    /\ order = << >> /\ done = {}

-----------------------------------------------------------------------------
(* Posting.                                                                 *)

(* The Post*Task family evaluates TimeTicks::Now() + delay before it takes  *)
(* incoming_queue_lock_.  The guard on MaxTime keeps due times on the clock.*)
StampDue(t) ==
    /\ ~ Posted(t)
    /\ t \in Delayed => now + Delay[t] <= MaxTime
    /\ due' = [due EXCEPT ![t] = IF t \in Delayed THEN now + Delay[t] ELSE 0]

PostTask(p, t) ==
    /\ poster[p].pc = "idle"
    /\ StampDue(t)
    /\ poster' = [poster EXCEPT ![p] = [pc |-> "enqueue", task |-> t]]
    /\ UNCHANGED <<sharedVars, queueVars, nestableAllowed, timerVars,
                   shouldQuit, depth, frame, now, ghostVars>>

Push(t) == incoming' = Append(incoming, t) /\ order' = Append(order, t)

(* Mutant: was_empty is read after the push, so nobody wakes the pump.      *)
AddToIncomingQueue_NeverWakes(p) ==
    /\ poster[p].pc = "enqueue"
    /\ Push(poster[p].task)
    /\ poster' = [poster EXCEPT ![p] = [pc |-> "idle", task |-> NoTask]]
    /\ UNCHANGED <<signaled, queueVars, due, nestableAllowed, timerVars,
                   shouldQuit, depth, frame, now, done>>

(* AddToIncomingQueue under the lock: only the poster that found the queue  *)
(* empty goes on to wake the pump, after it has released the lock.          *)
AddToIncomingQueue(p) ==
    /\ poster[p].pc = "enqueue"
    /\ Push(poster[p].task)
    /\ poster' = [poster EXCEPT ![p] =
                    [pc |-> IF incoming = << >> THEN "schedule" ELSE "idle",
                     task |-> NoTask]]
    /\ UNCHANGED <<signaled, queueVars, due, nestableAllowed, timerVars,
                   shouldQuit, depth, frame, now, done>>

ScheduleWork(p) ==
    /\ poster[p].pc = "schedule"
    /\ signaled' = TRUE
    /\ poster' = [poster EXCEPT ![p].pc = "idle"]
    /\ UNCHANGED <<incoming, queueVars, due, nestableAllowed, timerVars,
                   shouldQuit, depth, frame, now, ghostVars>>

(* The owner posts to its own loop, before Run or from a closure.  Only the *)
(* owner waits on event_, so push and ScheduleWork are one step here.       *)
PostFromOwner(t) ==
    /\ \/ depth = 0 /\ UNCHANGED frame
       \/ MayCall("Post") /\ SetTop(Called("Post"))
    /\ StampDue(t)
    /\ Push(t)
    /\ signaled' = (signaled \/ incoming = << >>)
    /\ UNCHANGED <<queueVars, nestableAllowed, timerVars, shouldQuit, depth,
                   poster, now, done>>

-----------------------------------------------------------------------------
(* Calls of the owner's code on the loop.                                   *)

(* Run and RunAllPending, which is Run with quit_received already set.  The *)
(* guard ~shouldQuit is DefaultMessagePump::Run's assertion: a closure that *)
(* has called QuitNow does not start a nested loop.                         *)
Run(op) ==
    /\ depth < MaxDepth
    /\ ~ shouldQuit
    /\ depth = 0 \/ MayCall(op)
    /\ depth' = depth + 1
    /\ frame' = [d \in Levels |->
                   IF d = depth THEN Called(op)
                   ELSE IF d = depth + 1 THEN NewFrame(op = "RunAllPending")
                   ELSE frame[d]]
    /\ UNCHANGED <<sharedVars, queueVars, due, nestableAllowed, timerVars,
                   shouldQuit, poster, now, ghostVars>>

Quit ==
    /\ MayCall("Quit")
    /\ SetTop([Called("Quit") EXCEPT !.quit = TRUE])
    /\ UNCHANGED <<sharedVars, queueVars, due, nestableAllowed, timerVars,
                   shouldQuit, depth, poster, now, ghostVars>>

QuitNow ==
    /\ MayCall("QuitNow")
    /\ SetTop(Called("QuitNow"))
    /\ shouldQuit' = TRUE
    /\ UNCHANGED <<sharedVars, queueVars, due, nestableAllowed, timerVars,
                   depth, poster, now, ghostVars>>

SetNestableTasksAllowed(allowed) ==
    LET op == IF allowed THEN "Allow" ELSE "Forbid" IN
    /\ MayCall(op)
    /\ SetTop([Called(op) EXCEPT !.allows = allowed])
    /\ nestableAllowed' = allowed
    /\ signaled' = (signaled \/ (allowed /\ ~ nestableAllowed))
    /\ UNCHANGED <<incoming, queueVars, due, timerVars, shouldQuit, depth,
                   poster, now, ghostVars>>

-----------------------------------------------------------------------------
(* RunTask, in two steps: the closure runs between them.                    *)

(* Mutant: RunTask does not forbid nesting while the closure runs.          *)
StartTask_KeepsNesting(t) ==
    /\ UNCHANGED nestableAllowed
    /\ SetTop([Top EXCEPT !.task = t, !.ops = Script[t], !.allows = FALSE])

StartTask(t) ==
    /\ nestableAllowed' = FALSE
    /\ SetTop([Top EXCEPT !.task = t, !.ops = Script[t], !.allows = FALSE])

(* The closure returns: RunTask allows nesting again, whatever the closure  *)
(* set, and DoWork, DoDelayedWork or DoIdleWork returns true.               *)
FinishTask ==
    /\ InTask
    /\ nestableAllowed' = TRUE
    /\ SetTop([Top EXCEPT !.task = NoTask, !.ops = {}, !.allows = FALSE,
                 !.did = (Top.pc = "work"),
                 !.pc = Onward(IF Top.pc = "work" THEN "delayed" ELSE "work")])
    /\ done' = done \cup {Top.task}
    /\ UNCHANGED <<sharedVars, queueVars, due, timerVars, shouldQuit, depth,
                   poster, now, order>>

(* DeferOrRunPendingTask's condition.                                       *)
RunsHere(t) == t \notin NonNestable \/ depth = 1

-----------------------------------------------------------------------------
(* DoWork.                                                                  *)

(* Mutant: incoming_queue_ is copied instead of swapped.                    *)
ReloadWorkQueue_Copy ==
    /\ AtPump("work") /\ nestableAllowed
    /\ work = << >> /\ incoming # << >>
    /\ work' = incoming
    /\ UNCHANGED <<sharedVars, deferred, delayed, nextSeq, due, nestableAllowed,
                   timerVars, shouldQuit, depth, frame, poster, now, ghostVars>>

ReloadWorkQueue ==
    /\ AtPump("work") /\ nestableAllowed
    /\ work = << >> /\ incoming # << >>
    /\ work' = incoming
    /\ incoming' = << >>
    /\ UNCHANGED <<signaled, deferred, delayed, nextSeq, due, nestableAllowed,
                   timerVars, shouldQuit, depth, frame, poster, now, ghostVars>>

(* The entry gets its sequence number on a copy: the caller goes on to      *)
(* compare the top's number with 0, the number every posted task has.       *)
AddToDelayedWorkQueue ==
    /\ AtPump("work") /\ nestableAllowed
    /\ work # << >> /\ due[Head(work)] # 0
    /\ LET t == Head(work)
           q == delayed \cup {[task |-> t, time |-> due[t], seq |-> nextSeq]}
       IN  /\ delayed' = q
           /\ delayedWorkTime' = IF Earliest(q).seq = 0 THEN due[t]
                                                        ELSE delayedWorkTime
    /\ work' = Tail(work)
    /\ nextSeq' = nextSeq + 1
    /\ UNCHANGED <<sharedVars, deferred, due, nestableAllowed, recentTick,
                   shouldQuit, depth, frame, poster, now, ghostVars>>

RunOrDeferWork ==
    /\ AtPump("work") /\ nestableAllowed
    /\ work # << >> /\ due[Head(work)] = 0
    /\ work' = Tail(work)
    /\ \/ /\ RunsHere(Head(work))
          /\ StartTask(Head(work))
          /\ UNCHANGED deferred
       \/ /\ ~ RunsHere(Head(work))
          /\ deferred' = Append(deferred, Head(work))
          /\ UNCHANGED <<nestableAllowed, frame>>
    /\ UNCHANGED <<sharedVars, delayed, nextSeq, due, timerVars, shouldQuit,
                   depth, poster, now, ghostVars>>

(* DoWork returns false: nesting is not allowed, or both queues are empty.  *)
EndDoWork ==
    /\ AtPump("work")
    /\ ~ nestableAllowed \/ (work = << >> /\ incoming = << >>)
    /\ SetTop([Top EXCEPT !.did = FALSE, !.pc = Onward("delayed")])
    /\ UNCHANGED <<sharedVars, queueVars, due, nestableAllowed, timerVars,
                   shouldQuit, depth, poster, now, ghostVars>>

-----------------------------------------------------------------------------
(* DoDelayedWork.                                                           *)

(* Mutant: did_work = DoDelayedWork() instead of did_work |= ...            *)
NoDelayedWork_Assigned ==
    SetTop([Top EXCEPT !.did = FALSE, !.pc = Onward("idle")])

(* It returns false: the pump goes on from `if (did_work) continue`.        *)
NoDelayedWork ==
    SetTop([Top EXCEPT !.did = FALSE,
              !.pc = Onward(IF Top.did THEN "work" ELSE "idle")])

SkipDelayedWork ==
    /\ AtPump("delayed")
    /\ ~ nestableAllowed \/ delayed = {}
    /\ delayedWorkTime' = 0 /\ recentTick' = 0
    /\ NoDelayedWork
    /\ UNCHANGED <<sharedVars, queueVars, due, nestableAllowed, shouldQuit,
                   depth, poster, now, ghostVars>>

(* Mutant: the time of the top task is not handed to the pump.              *)
AwaitDelayedWork_NoTime ==
    /\ AtPump("delayed")
    /\ nestableAllowed /\ delayed # {}
    /\ Earliest(delayed).time > recentTick /\ Earliest(delayed).time > now
    /\ recentTick' = now
    /\ UNCHANGED delayedWorkTime
    /\ NoDelayedWork
    /\ UNCHANGED <<sharedVars, queueVars, due, nestableAllowed, shouldQuit,
                   depth, poster, now, ghostVars>>

AwaitDelayedWork ==
    /\ AtPump("delayed")
    /\ nestableAllowed /\ delayed # {}
    /\ Earliest(delayed).time > recentTick /\ Earliest(delayed).time > now
    /\ recentTick' = now
    /\ delayedWorkTime' = Earliest(delayed).time
    /\ NoDelayedWork
    /\ UNCHANGED <<sharedVars, queueVars, due, nestableAllowed, shouldQuit,
                   depth, poster, now, ghostVars>>

RunOrDeferDelayedWork ==
    /\ AtPump("delayed")
    /\ nestableAllowed /\ delayed # {}
    /\ LET e    == Earliest(delayed)
           rest == delayed \ {e}
       IN  /\ e.time <= recentTick \/ e.time <= now
           /\ recentTick' = IF e.time > recentTick THEN now ELSE recentTick
           /\ delayed' = rest
           /\ delayedWorkTime' = IF rest = {} THEN delayedWorkTime
                                              ELSE Earliest(rest).time
           /\ \/ /\ RunsHere(e.task)
                 /\ StartTask(e.task)
                 /\ UNCHANGED deferred
              \/ /\ ~ RunsHere(e.task)
                 /\ deferred' = Append(deferred, e.task)
                 /\ NoDelayedWork
                 /\ UNCHANGED nestableAllowed
    /\ UNCHANGED <<sharedVars, work, nextSeq, due, shouldQuit, depth, poster,
                   now, ghostVars>>

-----------------------------------------------------------------------------
(* DoIdleWork, then the pump's wait.                                        *)

ProcessNextDelayedNonNestableTask ==
    /\ AtPump("idle")
    /\ depth = 1 /\ deferred # << >>
    /\ StartTask(Head(deferred))
    /\ deferred' = Tail(deferred)
    /\ UNCHANGED <<sharedVars, work, delayed, nextSeq, due, timerVars,
                   shouldQuit, depth, poster, now, ghostVars>>

(* Mutant: quit_received is obeyed before the deferred tasks are looked at. *)
DoIdleWork_QuitFirst ==
    /\ AtPump("idle")
    /\ Top.quit \/ depth # 1 \/ deferred = << >>
    /\ shouldQuit' = (shouldQuit \/ Top.quit)
    /\ SetTop([Top EXCEPT !.pc = IF shouldQuit' THEN "return" ELSE "sleep"])
    /\ UNCHANGED <<sharedVars, queueVars, due, nestableAllowed, timerVars,
                   depth, poster, now, ghostVars>>

(* Mutant: quit_received is obeyed in the outermost loop only.              *)
DoIdleWork_OutermostOnly ==
    /\ AtPump("idle")
    /\ depth # 1 \/ deferred = << >>
    /\ shouldQuit' = (shouldQuit \/ (depth = 1 /\ Top.quit))
    /\ SetTop([Top EXCEPT !.pc = IF shouldQuit' THEN "return" ELSE "sleep"])
    /\ UNCHANGED <<sharedVars, queueVars, due, nestableAllowed, timerVars,
                   depth, poster, now, ghostVars>>

(* No deferred task to run: obey quit_received, else go on to wait.         *)
DoIdleWork ==
    /\ AtPump("idle")
    /\ depth # 1 \/ deferred = << >>
    /\ shouldQuit' = (shouldQuit \/ Top.quit)
    /\ SetTop([Top EXCEPT !.pc = IF shouldQuit' THEN "return" ELSE "sleep"])
    /\ UNCHANGED <<sharedVars, queueVars, due, nestableAllowed, timerVars,
                   depth, poster, now, ghostVars>>

(* Mutant: the event is reset before the wait.                              *)
Sleep_Resets ==
    /\ AtPump("sleep")
    /\ \/ /\ delayedWorkTime = 0
          /\ SetTop([Top EXCEPT !.pc = "wait"])
          /\ UNCHANGED delayedWorkTime
       \/ /\ delayedWorkTime > now
          /\ SetTop([Top EXCEPT !.pc = "timedwait"])
          /\ UNCHANGED delayedWorkTime
       \/ /\ delayedWorkTime # 0 /\ delayedWorkTime <= now
          /\ SetTop([Top EXCEPT !.pc = "work"])
          /\ delayedWorkTime' = 0
    /\ signaled' = FALSE
    /\ UNCHANGED <<incoming, queueVars, due, nestableAllowed, recentTick,
                   shouldQuit, depth, poster, now, ghostVars>>

Sleep ==
    /\ AtPump("sleep")
    /\ \/ /\ delayedWorkTime = 0
          /\ SetTop([Top EXCEPT !.pc = "wait"])
          /\ UNCHANGED delayedWorkTime
       \/ /\ delayedWorkTime > now
          /\ SetTop([Top EXCEPT !.pc = "timedwait"])
          /\ UNCHANGED delayedWorkTime
       \/ /\ delayedWorkTime # 0 /\ delayedWorkTime <= now
          /\ SetTop([Top EXCEPT !.pc = "work"])
          /\ delayedWorkTime' = 0
    /\ UNCHANGED <<sharedVars, queueVars, due, nestableAllowed, recentTick,
                   shouldQuit, depth, poster, now, ghostVars>>

(* event_.Wait() and WaitTimeout() return; the event is auto-reset.         *)
Wake ==
    /\ AtPump("wait") \/ AtPump("timedwait")
    /\ \/ signaled /\ signaled' = FALSE
       \/ Top.pc = "timedwait" /\ now >= delayedWorkTime /\ UNCHANGED signaled
    /\ SetTop([Top EXCEPT !.pc = "work"])
    /\ UNCHANGED <<incoming, queueVars, due, nestableAllowed, timerVars,
                   shouldQuit, depth, poster, now, ghostVars>>

(* The pump's Run clears should_quit_ and ~AutoRunState restores state_.    *)
ReturnFromRun ==
    /\ AtPump("return")
    /\ shouldQuit' = FALSE
    /\ SetTop(NewFrame(FALSE))
    /\ depth' = depth - 1
    /\ UNCHANGED <<sharedVars, queueVars, due, nestableAllowed, timerVars,
                   poster, now, ghostVars>>

Tick ==
    /\ now < MaxTime
    /\ now' = now + 1
    /\ UNCHANGED <<sharedVars, queueVars, due, nestableAllowed, timerVars,
                   shouldQuit, depth, frame, poster, ghostVars>>

-----------------------------------------------------------------------------
PosterStep(p) ==
    \/ \E t \in Tasks : PostTask(p, t)
    \/ AddToIncomingQueue(p)
    \/ ScheduleWork(p)

ClientCall ==
    \/ \E t \in Tasks : PostFromOwner(t)
    \/ \E op \in {"Run", "RunAllPending"} : Run(op)
    \/ Quit
    \/ QuitNow
    \/ \E allowed \in BOOLEAN : SetNestableTasksAllowed(allowed)

LoopStep ==
    \/ ReloadWorkQueue
    \/ AddToDelayedWorkQueue
    \/ RunOrDeferWork
    \/ EndDoWork
    \/ SkipDelayedWork
    \/ AwaitDelayedWork
    \/ RunOrDeferDelayedWork
    \/ ProcessNextDelayedNonNestableTask
    \/ DoIdleWork
    \/ Sleep
    \/ Wake
    \/ ReturnFromRun
    \/ FinishTask

Next ==
    \/ \E p \in Posters : PosterStep(p)
    \/ ClientCall
    \/ LoopStep
    \/ Tick

Spec == Init /\ [][Next]_vars

(* The owner and the clock do not stop, closures return, and a poster that  *)
(* has entered PostTask leaves it.  Nobody has to post or to call Quit.     *)
Fairness ==
    /\ WF_vars(LoopStep)
    /\ WF_vars(Tick)
    /\ \A p \in Posters : WF_vars(AddToIncomingQueue(p) \/ ScheduleWork(p))

FairSpec == Spec /\ Fairness
-----------------------------------------------------------------------------
(* Every variable has its type.                                             *)
TypeOK ==
    /\ incoming \in Seq(Tasks) /\ signaled \in BOOLEAN
    /\ work \in Seq(Tasks) /\ deferred \in Seq(Tasks)
    /\ delayed \subseteq Entry /\ nextSeq \in Nat
    /\ due \in [Tasks -> Nat]
    /\ nestableAllowed \in BOOLEAN
    /\ recentTick \in Nat /\ delayedWorkTime \in Nat
    /\ shouldQuit \in BOOLEAN
    /\ depth \in 0..MaxDepth
    /\ frame \in [Levels -> Frame]
    /\ poster \in [Posters -> [pc : {"idle", "enqueue", "schedule"},
                               task : Tasks \cup {NoTask}]]
    /\ \A p \in Posters : poster[p].pc = "enqueue" => poster[p].task \in Tasks
    /\ now \in Nat
    /\ order \in Seq(Tasks) /\ done \subseteq Tasks

Asleep == depth > 0 /\ Top.task = NoTask /\ Top.pc \in {"wait", "timedwait"}

(* No wakeup is lost: while the owner waits in the pump, able to run tasks, *)
(* and a task is in incoming_queue_, the event is set or a poster that has  *)
(* left the lock is about to set it (message_loop.cpp 207-225: a poster     *)
(* that finds the queue non-empty does not wake the pump).                  *)
NoLostWakeup ==
    Asleep /\ nestableAllowed /\ incoming # << >>
        => signaled \/ \E p \in Posters : poster[p].pc = "schedule"

(* The owner never waits on work it could do: not with a task in the work   *)
(* queue, with a deferred task at the top level, or after Quit.             *)
SleepsOnlyWhenDrained ==
    Asleep /\ nestableAllowed => /\ work = << >>
                                 /\ depth = 1 => deferred = << >>
                                 /\ ~ Top.quit

(* Nor past the time of the earliest delayed task: its wait is timed, and   *)
(* the timeout was computed from that task or an earlier time.              *)
NeverOversleeps ==
    Asleep /\ nestableAllowed /\ delayed # {}
        => Top.pc = "timedwait" /\ delayedWorkTime <= Earliest(delayed).time

Count(s, t) == Cardinality({i \in DOMAIN s : s[i] = t})

(* Moving between five queues, the deferral and nested loops neither loses  *)
(* nor duplicates a task: one that was posted is in exactly one queue, or   *)
(* being executed, or has returned.                                         *)
EachTaskInOnePlace ==
    \A t \in Tasks :
        Count(incoming, t) + Count(work, t) + Count(deferred, t)
            + Cardinality({e \in delayed : e.task = t})
            + Cardinality({d \in 1..depth : frame[d].task = t})
            + (IF t \in done THEN 1 ELSE 0)
        = Count(order, t)

(* A task starts inside another one's Run only if each task it is nested in *)
(* has called SetNestableTasksAllowed(true) (message_loop.h 113-122): tasks *)
(* may assume they are not re-entered.                                      *)
NestedOnlyIfAllowed ==
    \A c, d \in 1..depth : c < d /\ frame[d].task # NoTask => frame[c].allows

(* Every activation but the innermost is inside a task; it may be in one.   *)
Innermost == IF InTask \/ depth = 0 THEN depth ELSE depth - 1
running   == [d \in 1..Innermost |-> frame[d].task]

(* The loop, not a closure, tells the pump to quit: it obeys Quit.           *)
ObeysQuit == ~ InTask /\ shouldQuit' /\ ~ shouldQuit /\ nestableAllowed

(* Quit leaves Run only when the posted tasks have been processed           *)
(* (message_loop.h 88): the loop obeys Quit with the work queue empty and,  *)
(* at the top level, no deferred task.                                      *)
QuitDrains ==
    [][ ObeysQuit => work = << >> /\ (depth = 1 => deferred = << >>) ]_vars

(* RunAllPending and Quit leave Run when "all pending tasks" have been      *)
(* processed (message_loop.h 84-88): no delayed task that may run in this   *)
(* loop was due when the loop last read the clock.                          *)
QuitRunsDueTasks ==
    [][ ObeysQuit => \A e \in delayed : RunsHere(e.task) => e.time > recentTick ]_vars

(* QuitNow leaves Run without processing another task (message_loop.h 93),  *)
(* and ends no Run but the innermost.                                       *)
QuitNowIsImmediate ==
    [][ /\ shouldQuit => Len(running') <= Len(running)
        /\ depth' < depth => ~ shouldQuit' ]_vars

(* Seen from outside, the loop is TaskRunner: it starts plain tasks in      *)
(* posting order, delayed ones when due and never out of order, and         *)
(* non-nestable ones only when no other task is being executed.             *)
Runner == INSTANCE TaskRunner WITH
    accepted <- order,
    due      <- [t \in Tasks |-> IF t \in Elements(order) THEN due[t] ELSE 0]

ImplementsTaskRunner == Runner!Spec

(* A task in the hands of a running loop is eventually executed, unless Run *)
(* returns to its caller first, or a nested Run never does.                 *)
PendingEventuallyRuns ==
    []<>(depth < 2) =>
        \A t \in Tasks :
            (t \in Elements(order) /\ depth > 0) ~> (t \in done \/ depth = 0)

(* A Run that was told to quit eventually returns, however many nested      *)
(* loops and pending tasks are in the way, if these loops return.           *)
QuitEventuallyReturns ==
    \A d \in Levels :
        []<>(depth <= d) => ((depth >= d /\ frame[d].quit) ~> (depth < d))
=============================================================================
