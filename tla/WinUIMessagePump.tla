-------------------------- MODULE WinUIMessagePump --------------------------
(***************************************************************************)
(* nbase::WinUIMessagePump (base/framework/win_ui_message_pump.cpp), the   *)
(* pump of a thread with windows.  Tasks must run in the pump's own loop   *)
(* and also in the modal loops of Windows (MessageBox, menus), which only  *)
(* dispatch messages: the pump is told of work by kMsgHaveWork, a message  *)
(* to a window of its own, and of time by WM_TIMER.                        *)
(*                                                                         *)
(* The delegate is the MessageLoop of MessageLoop.tla without nested Runs  *)
(* and non-nestable tasks.  The UI thread is a stack of what it is in: the *)
(* pump's loop, handlers, closures and modal loops.  Each task is posted   *)
(* at most once; a closure makes the calls of its Script, each at most     *)
(* once.  PostMessage succeeds.  recent_tick_ only saves calls of Now.     *)
(***************************************************************************)
EXTENDS Naturals, Sequences, FiniteSets

CONSTANTS Tasks, NoTask,
          Delayed,     \* tasks posted with a delay
          Delay,       \* their TimeDelta
          Script,      \* Script[t]: what the body of t may do
          Posters,
          MaxModal,    \* bound on the nesting of modal loops
          MaxInput,    \* bound on the messages for the program's windows
          MaxTime      \* bound on the clock

ASSUME TasksAssumption == /\ NoTask \notin Tasks
                          /\ Delayed \subseteq Tasks
                          /\ Delay \in [Tasks -> Nat]
                          /\ Script \in [Tasks -> SUBSET {"Allow", "Modal", "Quit"}]
ASSUME BoundsAssumption == {MaxModal, MaxInput, MaxTime} \subseteq Nat

VARIABLES
    incoming, work, delayed, nextSeq,  \* the loop's queues
    nestableAllowed,  \* its nestable_tasks_allowed_
    quitReceived,     \* its state_->quit_received
    osModal,          \* its os_modal_loop_
    haveWork,         \* have_work_
    delayedWorkTime,  \* delayed_work_time_, 0 if is_null()
    stack,            \* what the UI thread is in, outermost first
    queue,            \* the posted messages of the UI thread
    timer,            \* when WM_TIMER fires, 0 if no timer is set
    poster,           \* where each poster is in PostTask
    order,            \* history: the entries of incoming, in the order they got there
    inputs,           \* messages sent to the program's windows so far
    now,              \* TimeTicks::Now(); a null TimeTicks is 0
    done              \* history: tasks that have returned

loopVars  == <<incoming, work, delayed, nextSeq>>
modeVars  == <<nestableAllowed, quitReceived, osModal>>
timeVars  == <<delayedWorkTime, timer>>
worldVars == <<poster, order, inputs, now>>
vars == <<loopVars, modeVars, haveWork, timeVars, stack, queue, worldVars, done>>

Elements(s) == {s[i] : i \in DOMAIN s}
(* Mutant: of two tasks due together the one posted last.                   *)
Earliest_Last(q) == CHOOSE e \in q : \A f \in q :
                       e.time < f.time \/ (e.time = f.time /\ e.seq >= f.seq)

Earliest(q) == CHOOSE e \in q : \A f \in q :
                  e.time < f.time \/ (e.time = f.time /\ e.seq <= f.seq)

-----------------------------------------------------------------------------
(* The stack.  A frame is an activation: the position in it, the closure    *)
(* executing there, what that closure or handler may still do, and          *)
(* more_work_is_plausible.                                                  *)
LoopAt == {"message", "work", "delayed", "delayed end", "idle", "wait", "wait message"}
At     == LoopAt \cup {"task", "dispatch", "modal", "replace", "have work",
                       "have work end", "timer", "timer end"}
Frame(at) == [at |-> at, task |-> NoTask, ops |-> {}, more |-> FALSE]
TaskFrame(t) == [Frame("task") EXCEPT !.task = t, !.ops = Script[t]]
HandlerFrame == [Frame("dispatch") EXCEPT !.ops = {"Modal"}]

Depth      == Len(stack)
Top        == stack[Depth]
AtTop(at)  == Depth > 0 /\ Top.at = at
InRun      == Depth > 0 /\ stack[1].at \in LoopAt  \* state_ is not NULL
Popped     == SubSeq(stack, 1, Depth - 1)
Become(f)  == Append(Popped, f)
Goto(at)   == Become([Top EXCEPT !.at = at])
CanCall(op) == Depth > 0 /\ op \in Top.ops
Called(op) == Become([Top EXCEPT !.ops = @ \ {op}])
Modals     == {i \in 1..Depth : stack[i].at = "modal"}

Entries == incoming \o work
Posted(t) == \/ \E i \in DOMAIN Entries : Entries[i].task = t
             \/ \E e \in delayed : e.task = t
             \/ \E i \in 1..Depth : stack[i].task = t
             \/ t \in done

Init ==
    /\ incoming = << >> /\ work = << >> /\ delayed = {} /\ nextSeq = 0
    /\ nestableAllowed = TRUE /\ quitReceived = FALSE /\ osModal = FALSE
    /\ haveWork = FALSE /\ delayedWorkTime = 0
    /\ stack = << >> /\ queue = << >> /\ timer = 0
    /\ poster = [p \in Posters |-> "idle"] /\ order = << >>
    /\ inputs = 0 /\ now = 1 /\ done = {}

-----------------------------------------------------------------------------
(* Telling the pump.                                                        *)

(* AddToIncomingQueue, which calls ScheduleWork if the queue was empty.     *)
PostTask(p, t) ==
    /\ poster[p] = "idle" /\ ~ Posted(t)
    /\ t \in Delayed => now + Delay[t] <= MaxTime
    /\ LET e == [task |-> t, time |-> IF t \in Delayed THEN now + Delay[t] ELSE 0]
       IN  incoming' = Append(incoming, e) /\ order' = Append(order, e)
    /\ poster' = [poster EXCEPT ![p] = IF incoming = << >> THEN "schedule" ELSE "idle"]
    /\ UNCHANGED <<work, delayed, nextSeq, modeVars, haveWork, timeVars, stack,
                   queue, inputs, now, done>>

(* ScheduleWork on a poster's thread: the interlocked exchange ...          *)
ExchangeHaveWork(p) ==
    /\ poster[p] = "schedule"
    /\ haveWork' = TRUE
    /\ poster' = [poster EXCEPT ![p] = IF haveWork THEN "idle" ELSE "post"]
    /\ UNCHANGED <<loopVars, modeVars, timeVars, stack, queue, order, inputs, now, done>>

(* ... then PostMessageW.                                                   *)
PostHaveWork(p) ==
    /\ poster[p] = "post"
    /\ queue' = Append(queue, "have work")
    /\ poster' = [poster EXCEPT ![p] = "idle"]
    /\ UNCHANGED <<loopVars, modeVars, haveWork, timeVars, stack, order, inputs, now, done>>

(* ScheduleWork on the UI thread, which alone takes messages from q.        *)
ScheduleWork(q) ==
    /\ haveWork' = TRUE
    /\ queue' = IF haveWork THEN q ELSE Append(q, "have work")

(* SetTimer, for a time in the past as soon as possible.                    *)
ScheduleDelayedWork(time) ==
    /\ delayedWorkTime' = time
    /\ timer' = IF time > now THEN time ELSE now

UserInput ==
    /\ inputs < MaxInput
    /\ inputs' = inputs + 1
    /\ queue' = Append(queue, "input")
    /\ UNCHANGED <<loopVars, modeVars, haveWork, timeVars, stack, poster, order, now, done>>

Tick ==
    /\ now < MaxTime
    /\ now' = now + 1
    /\ UNCHANGED <<loopVars, modeVars, haveWork, timeVars, stack, queue, poster,
                   order, inputs, done>>

-----------------------------------------------------------------------------
(* Messages.                                                                *)

Expired == timer # 0 /\ now >= timer

(* What PeekMessageW may remove: posted messages come before WM_TIMER.      *)
(* HandleTimerMessage kills the timer first thing, so that is done here.    *)
TimerMessage == IF Expired THEN {[msg |-> "timer", queue |-> queue, timer |-> 0]} ELSE {}
AnyMessage   == IF queue = << >> THEN TimerMessage
                ELSE {[msg |-> Head(queue), queue |-> Tail(queue), timer |-> timer]}

(* The stack when msg is handled on top of base.                            *)
Handling(base, msg) ==
    CASE msg = "input"     -> Append(base, HandlerFrame)
      [] msg = "timer"     -> IF InRun THEN Append(base, Frame("timer")) ELSE base
      [] msg = "have work" -> Append(base, Frame("replace"))

(* ProcessMessageHelper reports more work for all but the pump's message.   *)
ProcessNextWindowsMessage ==
    /\ AtTop("message")
    /\ \/ \E m \in AnyMessage :
            /\ queue' = m.queue /\ timer' = m.timer
            /\ stack' = Handling(
                 Become([Top EXCEPT !.at = "work", !.more = m.msg # "have work"]), m.msg)
       \/ /\ AnyMessage = {}
          /\ stack' = Become([Top EXCEPT !.at = "work", !.more = FALSE])
          /\ UNCHANGED <<queue, timer>>
    /\ UNCHANGED <<loopVars, modeVars, haveWork, delayedWorkTime, worldVars, done>>

(* Mutant: outside of Run the flag is left set.                             *)
DispatchInModalLoop_KeepsFlag ==
    /\ AtTop("modal")
    /\ \E m \in AnyMessage :
         /\ queue' = m.queue /\ timer' = m.timer
         /\ stack' = IF m.msg # "have work" THEN Handling(stack, m.msg)
                     ELSE IF InRun THEN Handling(Append(stack, Frame("have work")), m.msg)
                     ELSE stack
    /\ UNCHANGED <<loopVars, modeVars, haveWork, delayedWorkTime, worldVars, done>>

(* A modal loop of Windows dispatches a message.  HandleWorkMessage does    *)
(* nothing outside of Run but to reset the flag.                            *)
DispatchInModalLoop ==
    /\ AtTop("modal")
    /\ \E m \in AnyMessage :
         /\ queue' = m.queue /\ timer' = m.timer
         /\ haveWork' = (haveWork /\ (m.msg = "have work" => InRun))
         /\ stack' = IF m.msg # "have work" THEN Handling(stack, m.msg)
                     ELSE IF InRun THEN Handling(Append(stack, Frame("have work")), m.msg)
                     ELSE stack
    /\ UNCHANGED <<loopVars, modeVars, delayedWorkTime, worldVars, done>>

(* ProcessPumpReplacementMessage, once kMsgHaveWork is out of the queue: it *)
(* takes another message to handle in its place, and only then resets       *)
(* have_work_.  In a loop marked by set_os_modal_loop only WM_TIMER will do.*)
(* With a message to handle it calls ScheduleWork at once: the reset and    *)
(* this call are one step here.  A poster that came between the two would   *)
(* set the flag and post the message in the place of ScheduleWork.          *)
Replacement == IF osModal THEN TimerMessage ELSE AnyMessage

ProcessPumpReplacementMessage ==
    /\ AtTop("replace")
    /\ \/ \E m \in Replacement :
            /\ haveWork' = TRUE
            /\ queue' = Append(m.queue, "have work") /\ timer' = m.timer
            /\ stack' = Handling(
                 [Popped EXCEPT ![Depth - 1].more = m.msg # "have work"], m.msg)
       \/ /\ Replacement = {}
          /\ haveWork' = FALSE
          /\ stack' = Popped
          /\ UNCHANGED <<queue, timer>>
    /\ UNCHANGED <<loopVars, modeVars, delayedWorkTime, worldVars, done>>

(* A message handler of the program returns.                                *)
FinishDispatch ==
    /\ AtTop("dispatch")
    /\ stack' = Popped
    /\ UNCHANGED <<loopVars, modeVars, haveWork, timeVars, queue, worldVars, done>>

-----------------------------------------------------------------------------
(* The delegate's DoWork, called by the loop and by HandleWorkMessage.      *)
AtDoWork == AtTop("work") \/ AtTop("have work")

(* Where the caller goes on when DoWork or DoDelayedWork returns true.      *)
DidWork == [Top EXCEPT !.more = TRUE,
              !.at = CASE Top.at = "work"      -> "delayed"
                       [] Top.at = "have work" -> "have work end"
                       [] Top.at = "delayed"   -> "delayed end"
                       [] Top.at = "timer"     -> "timer end"]
RunTask(t) ==
    /\ nestableAllowed' = FALSE
    /\ stack' = Append(Become(DidWork), TaskFrame(t))

ReloadWorkQueue ==
    /\ AtDoWork /\ nestableAllowed
    /\ work = << >> /\ incoming # << >>
    /\ work' = incoming /\ incoming' = << >>
    /\ UNCHANGED <<delayed, nextSeq, modeVars, haveWork, timeVars, stack, queue,
                   worldVars, done>>

(* As in MessageLoop.tla the pump is told only while the first delayed task *)
(* ever posted is on top.                                                   *)
AddToDelayedWorkQueue ==
    /\ AtDoWork /\ nestableAllowed
    /\ work # << >> /\ Head(work).time # 0
    /\ LET e == [task |-> Head(work).task, time |-> Head(work).time, seq |-> nextSeq]
       IN  /\ delayed' = delayed \cup {e}
           /\ IF Earliest(delayed').seq = 0 THEN ScheduleDelayedWork(e.time)
                                            ELSE UNCHANGED timeVars
    /\ nextSeq' = nextSeq + 1
    /\ work' = Tail(work)
    /\ UNCHANGED <<incoming, modeVars, haveWork, stack, queue, worldVars, done>>

RunWork ==
    /\ AtDoWork /\ nestableAllowed
    /\ work # << >> /\ Head(work).time = 0
    /\ work' = Tail(work)
    /\ RunTask(Head(work).task)
    /\ UNCHANGED <<incoming, delayed, nextSeq, quitReceived, osModal, haveWork,
                   timeVars, queue, worldVars, done>>

EndDoWork ==
    /\ AtDoWork
    /\ ~ nestableAllowed \/ Entries = << >>
    /\ stack' = IF Top.at = "work" THEN Goto("delayed") ELSE Popped
    /\ UNCHANGED <<loopVars, modeVars, haveWork, timeVars, queue, worldVars, done>>

(* Mutant: HandleWorkMessage does not ask for another time slice.           *)
EndHandleWorkMessage_Once ==
    /\ AtTop("have work end")
    /\ stack' = Popped
    /\ UNCHANGED <<loopVars, modeVars, haveWork, timeVars, queue, worldVars, done>>

EndHandleWorkMessage ==
    /\ AtTop("have work end")
    /\ ScheduleWork(queue)
    /\ stack' = Popped
    /\ UNCHANGED <<loopVars, modeVars, timeVars, worldVars, done>>

-----------------------------------------------------------------------------
(* The delegate's DoDelayedWork, called by the loop and HandleTimerMessage. *)
AtDoDelayedWork == AtTop("delayed") \/ AtTop("timer")
NoDelayedWork   == stack' = Goto(IF Top.at = "timer" THEN "timer end" ELSE "delayed end")

SkipDelayedWork ==
    /\ AtDoDelayedWork
    /\ ~ nestableAllowed \/ delayed = {}
    /\ delayedWorkTime' = 0
    /\ NoDelayedWork
    /\ UNCHANGED <<loopVars, modeVars, haveWork, timer, queue, worldVars, done>>

(* Mutant: the time of the top task is not handed to the pump.              *)
AwaitDelayedWork_NoTime ==
    /\ AtDoDelayedWork
    /\ nestableAllowed /\ delayed # {} /\ Earliest(delayed).time > now
    /\ NoDelayedWork
    /\ UNCHANGED <<loopVars, modeVars, haveWork, timeVars, queue, worldVars, done>>

AwaitDelayedWork ==
    /\ AtDoDelayedWork
    /\ nestableAllowed /\ delayed # {} /\ Earliest(delayed).time > now
    /\ delayedWorkTime' = Earliest(delayed).time
    /\ NoDelayedWork
    /\ UNCHANGED <<loopVars, modeVars, haveWork, timer, queue, worldVars, done>>

RunDelayedWork ==
    /\ AtDoDelayedWork
    /\ nestableAllowed /\ delayed # {} /\ Earliest(delayed).time <= now
    /\ delayed' = delayed \ {Earliest(delayed)}
    /\ delayedWorkTime' = IF delayed' = {} THEN delayedWorkTime
                                           ELSE Earliest(delayed').time
    /\ RunTask(Earliest(delayed).task)
    /\ UNCHANGED <<incoming, work, nextSeq, quitReceived, osModal, haveWork,
                   timer, queue, worldVars, done>>

EndDoDelayedWork ==
    /\ AtTop("delayed end")
    /\ timer' = IF Top.more /\ delayedWorkTime = 0 THEN 0 ELSE timer
    /\ stack' = Goto(IF Top.more THEN "message" ELSE "idle")
    /\ UNCHANGED <<loopVars, modeVars, haveWork, delayedWorkTime, queue,
                   worldVars, done>>

EndHandleTimerMessage ==
    /\ AtTop("timer end")
    /\ IF delayedWorkTime # 0 THEN ScheduleDelayedWork(delayedWorkTime)
                              ELSE UNCHANGED timeVars
    /\ stack' = Popped
    /\ UNCHANGED <<loopVars, modeVars, haveWork, queue, worldVars, done>>

-----------------------------------------------------------------------------
(* The rest of DoRunLoop.                                                   *)

(* Quit breaks out of the loop; the next Run starts with a new RunState.    *)
DoIdleWork ==
    /\ AtTop("idle")
    /\ stack' = IF quitReceived THEN Popped ELSE Goto("wait")
    /\ quitReceived' = FALSE
    /\ UNCHANGED <<loopVars, nestableAllowed, osModal, haveWork, timeVars, queue,
                   worldVars, done>>

(* MsgWaitForMultipleObjectsEx, which waits no longer than GetCurrentDelay. *)
WaitForWork ==
    /\ AtTop("wait")
    /\ AnyMessage # {} \/ (delayedWorkTime # 0 /\ now >= delayedWorkTime)
    /\ stack' = Goto("message")
    /\ UNCHANGED <<loopVars, modeVars, haveWork, timeVars, queue, worldVars, done>>

(* It also returns for a mouse message of another thread whose input is     *)
(* attached to this one.  No mouse message being here, WaitForWork then     *)
(* calls WaitMessage, "to give the child window sometime".                  *)
MouseElsewhere ==
    /\ AtTop("wait")
    /\ stack' = Goto("wait message")
    /\ UNCHANGED <<loopVars, modeVars, haveWork, timeVars, queue, worldVars, done>>

(* WaitMessage has no timeout: only a message ends it.                      *)
WaitMessage ==
    /\ AtTop("wait message") /\ AnyMessage # {}
    /\ stack' = Goto("message")
    /\ UNCHANGED <<loopVars, modeVars, haveWork, timeVars, queue, worldVars, done>>

-----------------------------------------------------------------------------
(* The program on the UI thread.                                            *)

Run ==
    /\ Depth = 0
    /\ stack' = << Frame("message") >>
    /\ UNCHANGED <<loopVars, modeVars, haveWork, timeVars, queue, worldVars, done>>

(* MessageBox and its like, before Run or in a closure or handler; the      *)
(* program may tell the loop about it.                                      *)
EnterModalLoop(told) ==
    /\ Cardinality(Modals) < MaxModal
    /\ \/ Depth = 0 /\ stack' = << Frame("modal") >>
       \/ CanCall("Modal") /\ stack' = Append(Called("Modal"), Frame("modal"))
    /\ osModal' = told
    /\ UNCHANGED <<loopVars, nestableAllowed, quitReceived, haveWork, timeVars,
                   queue, worldVars, done>>

LeaveModalLoop ==
    /\ AtTop("modal")
    /\ stack' = Popped
    /\ osModal' = FALSE
    /\ UNCHANGED <<loopVars, nestableAllowed, quitReceived, haveWork, timeVars,
                   queue, worldVars, done>>

AllowNestableTasks ==
    /\ CanCall("Allow")
    /\ stack' = Called("Allow")
    /\ nestableAllowed' = TRUE
    /\ IF nestableAllowed THEN UNCHANGED <<haveWork, queue>> ELSE ScheduleWork(queue)
    /\ UNCHANGED <<loopVars, quitReceived, osModal, timeVars, worldVars, done>>

Quit ==
    /\ CanCall("Quit")
    /\ stack' = Called("Quit")
    /\ quitReceived' = TRUE
    /\ UNCHANGED <<loopVars, nestableAllowed, osModal, haveWork, timeVars, queue,
                   worldVars, done>>

FinishTask ==
    /\ AtTop("task")
    /\ nestableAllowed' = TRUE
    /\ stack' = Popped
    /\ done' = done \cup {Top.task}
    /\ UNCHANGED <<loopVars, quitReceived, osModal, haveWork, timeVars, queue,
                   worldVars>>

-----------------------------------------------------------------------------
PosterStep(p) == (\E t \in Tasks : PostTask(p, t)) \/ ExchangeHaveWork(p) \/ PostHaveWork(p)

ProgramCall == Run \/ (\E told \in BOOLEAN : EnterModalLoop(told)) \/ AllowNestableTasks \/ Quit

LoopStep ==
    \/ ProcessNextWindowsMessage \/ DispatchInModalLoop
    \/ ProcessPumpReplacementMessage \/ FinishDispatch
    \/ ReloadWorkQueue \/ AddToDelayedWorkQueue \/ RunWork \/ EndDoWork
    \/ EndHandleWorkMessage
    \/ SkipDelayedWork \/ AwaitDelayedWork \/ RunDelayedWork
    \/ EndDoDelayedWork \/ EndHandleTimerMessage
    \/ DoIdleWork \/ WaitForWork \/ MouseElsewhere \/ WaitMessage \/ FinishTask

Next ==
    \/ \E p \in Posters : PosterStep(p)
    \/ ProgramCall
    \/ LoopStep
    \/ LeaveModalLoop
    \/ UserInput
    \/ Tick

Spec == Init /\ [][Next]_vars
-----------------------------------------------------------------------------
(* Every variable has its type.                                             *)
TypeOK ==
    /\ {incoming, work} \subseteq Seq([task : Tasks, time : Nat])
    /\ delayed \subseteq [task : Tasks, time : Nat, seq : Nat] /\ nextSeq \in Nat
    /\ {nestableAllowed, quitReceived, osModal, haveWork} \subseteq BOOLEAN
    /\ delayedWorkTime \in Nat /\ timer \in Nat
    /\ stack \in Seq([at : At, task : Tasks \cup {NoTask},
                      ops : SUBSET {"Allow", "Modal", "Quit"}, more : BOOLEAN])
    /\ queue \in Seq({"have work", "input"})
    /\ poster \in [Posters -> {"idle", "schedule", "post"}]
    /\ order \in Seq([task : Tasks, time : Nat])
    /\ inputs \in 0..MaxInput /\ now \in Nat /\ done \subseteq Tasks

OnTheWay == \E p \in Posters : poster[p] # "idle"

(* have_work_ is set exactly while one kMsgHaveWork is about: in the queue, *)
(* about to be posted, or taken and not yet replaced (win_ui_message_pump   *)
(* 35-39, 333-353).  Without it every task posts a message, or none does.   *)
HaveWorkMeansOneMessage ==
    Cardinality({i \in DOMAIN queue : queue[i] = "have work"})
        + Cardinality({p \in Posters : poster[p] = "post"})
        + Cardinality({i \in 1..Depth : stack[i].at = "replace"})
    = (IF haveWork THEN 1 ELSE 0)

Blocked == InRun /\ Top.at \in {"wait", "modal"} /\ nestableAllowed /\ AnyMessage = {}

(* The UI thread blocks with tasks to run, in the pump's timed wait or in a *)
(* modal loop opened by a closure that allowed nested tasks: then a poster  *)
(* is about to send kMsgHaveWork.  (A message handler called by DoRunLoop   *)
(* may open a modal loop when the message is gone and tasks are left.)  It  *)
(* is so while no delayed task opens a modal loop: "if nestable tasks are   *)
(* enabled, Task #2 will be executed at once" (message_loop.h 113-121).     *)
WorkIsNoticed ==
    Blocked /\ Entries # << >> /\ (AtTop("modal") => stack[Depth - 1].at = "task")
        => OnTheWay

(* MsgWaitForMultipleObjectsEx is not told to wait past the time of the     *)
(* earliest delayed task, whatever happened to delayed_work_time_ in modal  *)
(* loops and handlers (win_ui_message_pump.cpp 195-206).  This is about the *)
(* timed wait alone: WaitMessage, which may follow it, has no such bound.   *)
WaitsUntilDue ==
    AtTop("wait") /\ delayed # {}
        => delayedWorkTime # 0 /\ delayedWorkTime <= Earliest(delayed).time

OnlyAMessageWakes == \/ AtTop("wait message") /\ AnyMessage = {}
                     \/ Blocked /\ AtTop("modal")

(* "Wait until a message is available, up to the time needed by the timer   *)
(* manager to fire the next set of timers" (win_ui_message_pump.cpp         *)
(* 195-196).  Where only a message ends the wait, in WaitMessage (224) and  *)
(* in a modal loop that may run tasks, that message must be WM_TIMER: "we   *)
(* use a single SetTimer corresponding to the timer that will expire        *)
(* soonest.  As new timers are created and destroyed, we update SetTimer"   *)
(* (48-60).  So a timer is set for the earliest delayed task or before.     *)
TimerIsSet ==
    OnlyAMessageWakes /\ delayed # {}
        => timer # 0 /\ timer <= Earliest(delayed).time

(* The closures being executed, outermost first.                            *)
Executing == {i \in 1..Depth : stack[i].at = "task"}
Rank(i)   == Cardinality({j \in Executing : j <= i})
Closures  == [n \in 1..Cardinality(Executing) |->
                 stack[CHOOSE i \in Executing : Rank(i) = n].task]

(* delayed_run_time of a task.                                              *)
DueOf(t) == IF \E i \in DOMAIN order : order[i].task = t
            THEN order[CHOOSE i \in DOMAIN order : order[i].task = t].time
            ELSE 0

(* Seen from outside, a loop with this pump is TaskRunner too: whichever of *)
(* DoRunLoop, HandleWorkMessage and HandleTimerMessage calls the delegate,  *)
(* and however modal loops nest them, plain tasks start in posting order,   *)
(* delayed ones when due and never out of order, and each of them once.     *)
Runner == INSTANCE TaskRunner WITH
    NonNestable <- {},
    accepted    <- [i \in DOMAIN order |-> order[i].task],
    due         <- [t \in Tasks |-> DueOf(t)],
    running     <- Closures

ImplementsTaskRunner == Runner!Spec
=============================================================================
