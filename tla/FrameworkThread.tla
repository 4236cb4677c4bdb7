--------------------------- MODULE FrameworkThread ---------------------------
(***************************************************************************)
(* nbase::FrameworkThread (base/thread/framework_thread.cpp): a thread     *)
(* with a message loop on it, and the object through which another thread, *)
(* the controller, starts and stops it.  Clients post to the loop through  *)
(* its MessageLoopProxy (base/framework/message_loop_proxy.cpp).           *)
(*                                                                         *)
(* The loop is reduced to what MessageLoop.tla shows of it: tasks run in   *)
(* posting order, delayed ones some time later, and Quit is obeyed when    *)
(* DoWork has found the queues empty.  Each task is posted at most once.   *)
(***************************************************************************)
EXTENDS Naturals, Sequences

CONSTANTS Tasks,
          Delayed,    \* tasks posted with a delay
          DoStopSoon, \* the closure that StopSoon posts
          Clients,
          MaxStarts,  \* bound on the loops one object creates
          MixedUse    \* whether an object that hosted a loop may be Start()ed

ASSUME TasksAssumption == Delayed \subseteq Tasks /\ DoStopSoon \notin Tasks
ASSUME BoundsAssumption == MaxStarts \in Nat \ {0} /\ MixedUse \in BOOLEAN

VARIABLES
    controller,   \* where the controller is in the object's methods
    started,      \* started_
    stopping,     \* stopping_
    messageLoop,  \* message_loop_: the number of the loop, 0 for NULL
    event,        \* event_, auto-reset
    handle,       \* thread_handle_ # 0
    threadId,     \* thread_id() is valid
    pc,           \* where the thread is in Run, "none" if there is none
    loops,        \* how many loops have been created
    target,       \* the loop whose proxy has a target_message_loop_, 0 if none
    queue,        \* the loop's incoming and work queues
    delayed,      \* the loop's delayed queue
    quit,         \* its quit_received
    proxy,        \* the loop whose proxy each client holds, 0 if none
    posted,       \* history: tasks handed to Post*Task
    ran,          \* history: tasks executed
    dropped,      \* history: tasks destroyed with the loop, unexecuted
    owed,         \* history: plain tasks pending when the loop was told to stop
    hosted        \* history: RunOnCurrentThreadWithLoop has been called

objectVars  == <<started, stopping, handle>>
loopVars    == <<queue, delayed, quit>>
historyVars == <<posted, ran, dropped, owed, hosted>>
vars == <<controller, objectVars, messageLoop, event, threadId, pc, loops,
          target, loopVars, proxy, historyVars>>

Elements(s) == {s[i] : i \in DOMAIN s}
Plain       == Tasks \ Delayed

Init ==
    /\ controller = "idle"
    /\ started = FALSE /\ stopping = FALSE /\ messageLoop = 0
    /\ event = FALSE /\ handle = FALSE /\ threadId = FALSE
    /\ pc = "none" /\ loops = 0 /\ target = 0
    /\ queue = << >> /\ delayed = {} /\ quit = FALSE
    /\ proxy = [c \in Clients |-> 0]
    /\ posted = {} /\ ran = {} /\ dropped = {} /\ owed = {} /\ hosted = FALSE

-----------------------------------------------------------------------------
(* The controller.  It keeps to framework_thread.h 109-111: an object that  *)
(* was started is reset by Stop before it is started again.                 *)

(* StartWithLoop: create the thread, then wait for it.                      *)
Start ==
    /\ controller = "idle" /\ ~ started
    /\ messageLoop = 0 /\ loops < MaxStarts
    /\ hosted => MixedUse
    /\ handle' = TRUE
    /\ pc' = "begin"
    /\ controller' = "wait"
    /\ UNCHANGED <<started, stopping, messageLoop, event, threadId, loops,
                   target, loopVars, proxy, historyVars>>

StartReturns ==
    /\ controller = "wait" /\ event
    /\ event' = FALSE
    /\ started' = TRUE
    /\ controller' = "idle"
    /\ UNCHANGED <<stopping, messageLoop, handle, threadId, pc, loops, target,
                   loopVars, proxy, historyVars>>

RunOnCurrentThreadWithLoop ==
    /\ controller = "idle" /\ ~ started /\ loops < MaxStarts
    /\ started' = TRUE
    /\ pc' = "begin"
    /\ controller' = "host"
    /\ hosted' = TRUE
    /\ UNCHANGED <<stopping, handle, messageLoop, event, threadId, loops,
                   target, loopVars, proxy, posted, ran, dropped, owed>>

Push(t) == queue' = Append(queue, t)
Owe     == owed' = owed \cup (Elements(queue) \cap Plain)

(* The controller posts through message_loop().                             *)
PostFromController(t) ==
    /\ controller = "idle" /\ started /\ ~ stopping /\ messageLoop # 0
    /\ t \notin posted
    /\ posted' = posted \cup {t}
    /\ Push(t)
    /\ UNCHANGED <<controller, objectVars, messageLoop, event, threadId, pc,
                   loops, target, delayed, quit, proxy, ran, dropped, owed,
                   hosted>>

(* Mutant: stopping_ is not looked at.                                      *)
BeginStopSoon_Again(next, posting) ==
    \/ /\ messageLoop = 0
       /\ controller' = next
       /\ UNCHANGED stopping
    \/ /\ messageLoop # 0
       /\ stopping' = TRUE
       /\ controller' = posting

(* StopSoon up to its post, on behalf of next: nothing to do if the loop    *)
(* was told to stop before or is gone.                                      *)
BeginStopSoon(next, posting) ==
    \/ /\ stopping \/ messageLoop = 0
       /\ controller' = next
       /\ UNCHANGED stopping
    \/ /\ ~ stopping /\ messageLoop # 0
       /\ stopping' = TRUE
       /\ controller' = posting

StopSoon ==
    /\ controller = "idle"
    /\ BeginStopSoon("idle", "post")
    /\ UNCHANGED <<started, messageLoop, event, handle, threadId, pc, loops,
                   target, loopVars, proxy, historyVars>>

Stop ==
    /\ controller = "idle" /\ started
    /\ BeginStopSoon("close", "post then close")
    /\ UNCHANGED <<started, messageLoop, event, handle, threadId, pc, loops,
                   target, loopVars, proxy, historyVars>>

(* Mutant: StopSoon calls message_loop_->Quit() instead of posting it.      *)
PostDoStopSoon_Quits ==
    /\ controller \in {"post", "post then close"}
    /\ quit' = TRUE
    /\ Owe
    /\ controller' = IF controller = "post" THEN "idle" ELSE "close"
    /\ UNCHANGED <<objectVars, messageLoop, event, threadId, pc, loops, target,
                   queue, delayed, proxy, posted, ran, dropped, hosted>>

(* message_loop_->PostNonNestableTask(DoStopSoon).                          *)
PostDoStopSoon ==
    /\ controller \in {"post", "post then close"}
    /\ Push(DoStopSoon)
    /\ Owe
    /\ controller' = IF controller = "post" THEN "idle" ELSE "close"
    /\ UNCHANGED <<objectVars, messageLoop, event, threadId, pc, loops, target,
                   delayed, quit, proxy, posted, ran, dropped, hosted>>

(* A closure of a loop that runs on the controller's own thread stops it.   *)
StopSoonFromTask ==
    /\ controller = "host" /\ pc = "run"
    /\ ~ stopping /\ messageLoop # 0
    /\ stopping' = TRUE
    /\ Push(DoStopSoon)
    /\ Owe
    /\ UNCHANGED <<controller, started, handle, messageLoop, event, threadId,
                   pc, loops, target, delayed, quit, proxy, posted, ran,
                   dropped, hosted>>

(* Mutant: Stop does not wait for the thread.                               *)
Close_NoJoin ==
    /\ controller = "close"
    /\ handle' = FALSE /\ started' = FALSE /\ stopping' = FALSE
    /\ controller' = "idle"
    /\ UNCHANGED <<messageLoop, event, threadId, pc, loops, target, loopVars,
                   proxy, historyVars>>

(* Mutant: Stop leaves stopping_ set.                                       *)
Close_KeepsStopping ==
    /\ controller = "close"
    /\ handle => pc = "none"
    /\ handle' = FALSE /\ started' = FALSE
    /\ controller' = "idle"
    /\ UNCHANGED <<stopping, messageLoop, event, threadId, pc, loops, target,
                   loopVars, proxy, historyVars>>

(* Close joins the thread, if there is one; then Stop resets the object.    *)
Close ==
    /\ controller = "close"
    /\ handle => pc = "none"
    /\ handle' = FALSE /\ started' = FALSE /\ stopping' = FALSE
    /\ controller' = "idle"
    /\ UNCHANGED <<messageLoop, event, threadId, pc, loops, target, loopVars,
                   proxy, historyVars>>

-----------------------------------------------------------------------------
(* The thread, in Run.                                                      *)

(* Mutant: the controller is woken before Init().                           *)
CreateLoop_Signals ==
    /\ pc = "begin"
    /\ threadId' = TRUE
    /\ loops' = loops + 1
    /\ target' = loops' /\ messageLoop' = loops'
    /\ queue' = << >> /\ delayed' = {} /\ quit' = FALSE
    /\ event' = TRUE
    /\ pc' = "init"
    /\ UNCHANGED <<controller, objectVars, proxy, historyVars>>

CreateLoop ==
    /\ pc = "begin"
    /\ threadId' = TRUE
    /\ loops' = loops + 1
    /\ target' = loops' /\ messageLoop' = loops'
    /\ queue' = << >> /\ delayed' = {} /\ quit' = FALSE
    /\ pc' = "init"
    /\ UNCHANGED <<controller, objectVars, event, proxy, historyVars>>

SignalStarted ==
    /\ pc = "init"
    /\ event' = TRUE
    /\ pc' = "run"
    /\ UNCHANGED <<controller, objectVars, messageLoop, threadId, loops, target,
                   loopVars, proxy, historyVars>>

RunTask ==
    /\ pc = "run" /\ queue # << >>
    /\ LET t == Head(queue) IN
        /\ quit'    = (quit \/ t = DoStopSoon)
        /\ delayed' = delayed \cup ({t} \cap Delayed)
        /\ ran'     = ran \cup ({t} \cap Plain)
    /\ queue' = Tail(queue)
    /\ UNCHANGED <<controller, objectVars, messageLoop, event, threadId, pc,
                   loops, target, proxy, posted, dropped, owed, hosted>>

RunDelayedTask(t) ==
    /\ pc = "run" /\ t \in delayed
    /\ delayed' = delayed \ {t}
    /\ ran' = ran \cup {t}
    /\ UNCHANGED <<controller, objectVars, messageLoop, event, threadId, pc,
                   loops, target, queue, quit, proxy, posted, dropped, owed,
                   hosted>>

EndDoWork ==
    /\ pc = "run" /\ queue = << >>
    /\ pc' = "idle"
    /\ UNCHANGED <<controller, objectVars, messageLoop, event, threadId, loops,
                   target, loopVars, proxy, historyVars>>

DoIdleWork ==
    /\ pc = "idle"
    /\ pc' = IF quit THEN "cleanup" ELSE "run"
    /\ UNCHANGED <<controller, objectVars, messageLoop, event, threadId, loops,
                   target, loopVars, proxy, historyVars>>

Drop == dropped' = dropped \cup ((Elements(queue) \cap Tasks) \cup delayed)

(* Cleanup(), then ~MessageLoop destroys the tasks it finds.                *)
DeletePendingTasks ==
    /\ pc = "cleanup"
    /\ Drop
    /\ queue' = << >> /\ delayed' = {}
    /\ pc' = "detach"
    /\ UNCHANGED <<controller, objectVars, messageLoop, event, threadId, loops,
                   target, quit, proxy, posted, ran, owed, hosted>>

(* Mutant: the proxy is not told.                                           *)
WillDestroyCurrentMessageLoop_Untold ==
    /\ pc = "detach"
    /\ Drop
    /\ queue' = << >>
    /\ pc' = "clear"
    /\ UNCHANGED <<controller, objectVars, messageLoop, event, threadId, loops,
                   target, delayed, quit, proxy, posted, ran, owed, hosted>>

(* The proxy forgets the loop, which then goes with its members, the tasks  *)
(* posted since included.                                                   *)
WillDestroyCurrentMessageLoop ==
    /\ pc = "detach"
    /\ target' = 0
    /\ Drop
    /\ queue' = << >>
    /\ pc' = "clear"
    /\ UNCHANGED <<controller, objectVars, messageLoop, event, threadId, loops,
                   delayed, quit, proxy, posted, ran, owed, hosted>>

ClearMessageLoop ==
    /\ pc = "clear"
    /\ messageLoop' = 0
    /\ pc' = "exit"
    /\ UNCHANGED <<controller, objectVars, event, threadId, loops, target,
                   loopVars, proxy, historyVars>>

Exit ==
    /\ pc = "exit"
    /\ threadId' = FALSE
    /\ pc' = "none"
    /\ controller' = IF controller = "host" THEN "idle" ELSE controller
    /\ UNCHANGED <<objectVars, messageLoop, event, loops, target, loopVars,
                   proxy, historyVars>>

-----------------------------------------------------------------------------
(* The clients.                                                             *)

(* A client gets the proxy from the loop while the loop is in use.          *)
GetProxy(c) ==
    /\ pc \in {"run", "idle"}
    /\ proxy' = [proxy EXCEPT ![c] = messageLoop]
    /\ UNCHANGED <<controller, objectVars, messageLoop, event, threadId, pc,
                   loops, target, loopVars, historyVars>>

(* PostTaskHelper, under message_loop_lock_: refused if the loop is gone.   *)
PostTaskHelper(c, t) ==
    /\ proxy[c] # 0 /\ t \notin posted
    /\ \/ proxy[c] = target /\ Push(t) /\ posted' = posted \cup {t}
       \/ proxy[c] # target /\ UNCHANGED <<queue, posted>>
    /\ UNCHANGED <<controller, objectVars, messageLoop, event, threadId, pc,
                   loops, target, delayed, quit, proxy, ran, dropped, owed,
                   hosted>>

-----------------------------------------------------------------------------
ControllerStep ==
    \/ Start \/ StartReturns \/ RunOnCurrentThreadWithLoop
    \/ \E t \in Tasks : PostFromController(t)
    \/ StopSoon \/ Stop \/ PostDoStopSoon \/ StopSoonFromTask \/ Close

ThreadStep ==
    \/ CreateLoop \/ SignalStarted
    \/ RunTask \/ (\E t \in Tasks : RunDelayedTask(t)) \/ EndDoWork \/ DoIdleWork
    \/ DeletePendingTasks \/ WillDestroyCurrentMessageLoop
    \/ ClearMessageLoop \/ Exit

ClientStep == \E c \in Clients : GetProxy(c) \/ \E t \in Tasks : PostTaskHelper(c, t)

Next == ControllerStep \/ ThreadStep \/ ClientStep

Spec == Init /\ [][Next]_vars

(* The thread is scheduled, and the controller goes on with the method it   *)
(* is in.  Nobody has to call anything.                                     *)
Fairness ==
    /\ WF_vars(ThreadStep)
    /\ WF_vars(StartReturns \/ PostDoStopSoon \/ Close)

FairSpec == Spec /\ Fairness
-----------------------------------------------------------------------------
(* Every variable has its type.                                             *)
TypeOK ==
    /\ controller \in {"idle", "wait", "host", "post", "post then close", "close"}
    /\ started \in BOOLEAN /\ stopping \in BOOLEAN /\ handle \in BOOLEAN
    /\ event \in BOOLEAN /\ threadId \in BOOLEAN
    /\ pc \in {"none", "begin", "init", "run", "idle", "cleanup", "detach",
               "clear", "exit"}
    /\ loops \in 0..MaxStarts
    /\ messageLoop \in {0, loops} /\ target \in {0, loops}
    /\ queue \in Seq(Tasks \cup {DoStopSoon})
    /\ delayed \subseteq Delayed /\ quit \in BOOLEAN
    /\ proxy \in [Clients -> 0..loops]
    /\ posted \subseteq Tasks /\ ran \subseteq Tasks /\ dropped \subseteq Tasks
    /\ owed \subseteq Plain /\ hosted \in BOOLEAN

(* When Start has returned, and until the object is told to stop, the loop  *)
(* exists and Init() is over (framework_thread.h 57-59: "Upon successful    *)
(* return, the message_loop() getter will return non-null").                *)
StartedMeansReady ==
    controller = "idle" /\ started /\ ~ stopping
        => /\ messageLoop # 0 /\ target = messageLoop /\ threadId
           /\ pc \in {"run", "idle"}

(* After Stop the object is as new (framework_thread.h 88-90): no thread is *)
(* left, no loop, and no signal that would let the next Start go early.     *)
StopResets ==
    controller = "idle" /\ ~ started
        => /\ pc = "none" /\ messageLoop = 0 /\ target = 0 /\ ~ threadId
           /\ ~ handle /\ ~ stopping
           /\ ~ event \/ hosted

(* StopSoon reads message_loop_ with no lock and posts to what it read: the *)
(* loop is still there, whatever the thread does meanwhile.                 *)
NoPostToDeletedLoop ==
    controller \in {"post", "post then close"} => target # 0 /\ target = messageLoop

(* A plain task that was pending when the object was told to stop is not    *)
(* destroyed with the loop but executed.  ("All pending tasks queued on the *)
(* thread's message loop will run to completion", framework_thread.h 26-28, *)
(* is not true of delayed tasks, nor of those posted later.)                *)
StopDrains == owed \cap dropped = {}

(* A task is executed or destroyed or still pending, and only one of them.  *)
TasksAccountedFor ==
    /\ posted = (Elements(queue) \cap Tasks) \cup delayed \cup ran \cup dropped
    /\ ran \cap dropped = {}

(* Stop returns: the thread it joins is on its way out.                     *)
StopReturns ==
    controller \in {"post then close", "close"} ~> controller = "idle"
=============================================================================
