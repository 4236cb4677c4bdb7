---------------------------- MODULE ObjectWatcher ----------------------------
(***************************************************************************)
(* ObjectWatcher of base/win32/object_watcher.cpp: one watcher, used on    *)
(* one thread with, in turn, several MessageLoops, and the thread of the   *)
(* system that waits for the object and calls DoneWaiting.  The watches    *)
(* are numbered in the order they are started; a weak callback is the      *)
(* number of its watch, and Cancel cancels all up to the latest.           *)
(*                                                                         *)
(* External: RegisterWaitForSingleObject with WT_EXECUTEONLYONCE, and      *)
(* UnregisterWaitEx, which returns when no callback is in flight and is    *)
(* assumed to succeed: StopWatching's return in the middle (65-67), with   *)
(* the watch still registered, is not modelled.  Objects stay signaled.    *)
(***************************************************************************)
EXTENDS Naturals, Sequences

CONSTANTS Objects,
          NULL,
          MaxStarts,   \* bound on StartWatching
          MaxLoops,    \* bound on the loops of the thread
          MaxQueue     \* bound on the queue of a loop

ASSUME WatcherAssumption ==
    /\ NULL \notin Objects
    /\ {MaxStarts, MaxLoops, MaxQueue} \subseteq Nat

Watches == 1..MaxStarts
Task    == 0            \* a task of the program, which may call the watcher

VARIABLES
    \* the watcher
    callback_,      \* the watch whose Signal it will post
    object_,
    wait_object_,   \* whether it is not NULL
    origin_loop_,
    cancelled,      \* the watches cancelled by signal_weakflag_
    destroyed,
    \* the thread
    thread,         \* what it does
    current,        \* its loop, 0 when it has none
    loops,          \* how many it has had
    queue,
    observing,      \* whether the watcher observes the loop's destruction
    \* the system
    signaled,       \* objects
    wait,           \* the registered wait
    pool,           \* how far the wait thread is in DoneWaiting
    \* history
    asked,          \* what each watch was started for
    told,           \* watches whose delegate was called, with the object
    stopped         \* watches stopped before that

watcher == <<callback_, object_, wait_object_, origin_loop_, cancelled, destroyed>>
system  == <<signaled, wait, pool>>
vars    == <<watcher, thread, current, loops, queue, observing, system, asked, told,
             stopped>>

latest == Len(asked)

Init ==
    /\ callback_ = NULL /\ object_ = NULL /\ wait_object_ = FALSE
    /\ origin_loop_ = 0 /\ cancelled = 0 /\ destroyed = FALSE
    /\ thread = "none" /\ current = 0 /\ loops = 0 /\ queue = << >> /\ observing = FALSE
    /\ signaled = {} /\ wait = "none" /\ pool = "idle"
    /\ asked = << >> /\ told = << >> /\ stopped = {}

-----------------------------------------------------------------------------
(* The system.                                                              *)

SetObject(o) ==
    /\ o \notin signaled
    /\ signaled' = signaled \cup {o}
    /\ UNCHANGED <<watcher, thread, current, loops, queue, observing, wait, pool,
                   asked, told, stopped>>

(* The wait is over: DoneWaiting is called.                                 *)
Fire ==
    /\ wait = "armed" /\ pool = "idle"
    /\ asked[latest] \in signaled
    /\ wait' = "fired" /\ pool' = "post"
    /\ UNCHANGED <<watcher, thread, current, loops, queue, observing, signaled,
                   asked, told, stopped>>

(* DoneWaiting posts callback_ ...                                          *)
PostCallback ==
    /\ pool = "post"
    /\ queue' = Append(queue, callback_)
    /\ pool' = "clear"
    /\ UNCHANGED <<watcher, thread, current, loops, observing, signaled, wait, asked,
                   told, stopped>>

(* ... and clears it.                                                       *)
ClearCallback ==
    /\ pool = "clear"
    /\ callback_' = NULL
    /\ pool' = "idle"
    /\ UNCHANGED <<object_, wait_object_, origin_loop_, cancelled, destroyed, thread,
                   current, loops, queue, observing, signaled, wait, asked, told,
                   stopped>>

-----------------------------------------------------------------------------
(* The watcher.                                                             *)

(* StartWatching up to the registration of the wait ...                     *)
StartWatching(o) ==
    /\ thread = "program"
    /\ ~ destroyed /\ ~ wait_object_
    /\ latest < MaxStarts
    /\ callback_' = latest + 1
    /\ object_' = o
    /\ origin_loop_' = current
    /\ asked' = Append(asked, o)
    /\ thread' = "register"
    /\ UNCHANGED <<wait_object_, cancelled, destroyed, current, loops, queue,
                   observing, system, told, stopped>>

(* ... which may fail ...                                                   *)
RegisterFails ==
    /\ thread = "register"
    /\ object_' = NULL
    /\ thread' = "program"
    /\ stopped' = stopped \cup {latest}
    /\ UNCHANGED <<callback_, wait_object_, origin_loop_, cancelled, destroyed,
                   current, loops, queue, observing, system, asked, told>>

(* ... or be over before the call returns.                                  *)
Register ==
    /\ thread = "register"
    /\ wait' = "armed"
    /\ thread' = "registered"
    /\ UNCHANGED <<watcher, current, loops, queue, observing, signaled, pool, asked,
                   told, stopped>>

(* Mutant: earlier callbacks are cancelled only now.                        *)
Registered_Cancels ==
    /\ thread = "registered"
    /\ wait_object_' = TRUE
    /\ observing' = TRUE
    /\ cancelled' = latest
    /\ thread' = "program"
    /\ UNCHANGED <<callback_, object_, origin_loop_, destroyed, current, loops, queue,
                   system, asked, told, stopped>>

Registered ==
    /\ thread = "registered"
    /\ wait_object_' = TRUE
    /\ observing' = TRUE
    /\ thread' = "program"
    /\ UNCHANGED <<callback_, object_, origin_loop_, cancelled, destroyed, current,
                   loops, queue, system, asked, told, stopped>>

(* Mutant: a callback in flight is not waited for.                          *)
StopWatching_Hasty ==
    IF wait_object_
    THEN /\ wait' = "none"
         /\ cancelled' = latest
         /\ object_' = NULL
         /\ wait_object_' = FALSE
         /\ observing' = FALSE
    ELSE UNCHANGED <<wait, cancelled, object_, wait_object_, observing>>

(* StopWatching.                                                            *)
StopWatching ==
    IF wait_object_
    THEN /\ pool = "idle"
         /\ wait' = "none"
         /\ cancelled' = latest
         /\ object_' = NULL
         /\ wait_object_' = FALSE
         /\ observing' = FALSE
    ELSE UNCHANGED <<wait, cancelled, object_, wait_object_, observing>>

(* StopWatching called by anyone but Signal.                                *)
Interrupted == stopped' = IF wait_object_ THEN stopped \cup {latest} ELSE stopped

Stop ==
    /\ thread = "program" /\ ~ destroyed
    /\ wait_object_
    /\ StopWatching /\ Interrupted
    /\ UNCHANGED <<callback_, origin_loop_, destroyed, thread, current, loops, queue,
                   signaled, pool, asked, told>>

(* ~ObjectWatcher, in a task or the delegate, or after the loop.            *)
Destroy ==
    /\ thread \in {"program", "none"} /\ ~ destroyed
    /\ StopWatching /\ Interrupted
    /\ destroyed' = TRUE
    /\ UNCHANGED <<callback_, origin_loop_, thread, current, loops, queue, signaled,
                   pool, asked, told>>

-----------------------------------------------------------------------------
(* The loop.                                                                *)

MakeLoop ==
    /\ thread = "none" /\ loops < MaxLoops
    /\ loops' = loops + 1 /\ current' = loops + 1
    /\ thread' = "idle"
    /\ UNCHANGED <<watcher, queue, observing, system, asked, told, stopped>>

(* Somebody posts a task that uses the watcher.                             *)
PostTask ==
    /\ current # 0 /\ Len(queue) < MaxQueue
    /\ queue' = Append(queue, Task)
    /\ UNCHANGED <<watcher, thread, current, loops, observing, system, asked, told,
                   stopped>>

RunTask ==
    /\ thread = "idle"
    /\ queue # << >> /\ Head(queue) = Task
    /\ queue' = Tail(queue)
    /\ thread' = "program"
    /\ UNCHANGED <<watcher, current, loops, observing, system, asked, told, stopped>>

DropSignal ==
    /\ thread = "idle"
    /\ queue # << >> /\ Head(queue) \in 1..cancelled
    /\ queue' = Tail(queue)
    /\ UNCHANGED <<watcher, thread, current, loops, observing, system, asked, told,
                   stopped>>

(* Mutant: the object is read after StopWatching.                           *)
Signal_Late ==
    /\ thread = "idle"
    /\ queue # << >> /\ Head(queue) > cancelled
    /\ StopWatching
    /\ told' = Append(told, <<Head(queue), object_'>>)
    /\ queue' = Tail(queue)
    /\ thread' = "program"
    /\ UNCHANGED <<callback_, origin_loop_, destroyed, current, loops, signaled,
                   pool, asked, stopped>>

(* Signal: StopWatching, then the delegate.                                 *)
Signal ==
    /\ thread = "idle"
    /\ queue # << >> /\ Head(queue) > cancelled
    /\ StopWatching
    /\ told' = Append(told, <<Head(queue), object_>>)
    /\ queue' = Tail(queue)
    /\ thread' = "program"
    /\ UNCHANGED <<callback_, origin_loop_, destroyed, current, loops, signaled,
                   pool, asked, stopped>>

(* A task, or the delegate, returns.                                        *)
Return ==
    /\ thread = "program"
    /\ thread' = "idle"
    /\ UNCHANGED <<watcher, current, loops, queue, observing, system, asked, told,
                   stopped>>

(* ~MessageLoop deletes the tasks that wait ...                             *)
DeletePendingTasks ==
    /\ thread = "idle"
    /\ queue' = << >>
    /\ thread' = "closing"
    /\ UNCHANGED <<watcher, current, loops, observing, system, asked, told, stopped>>

(* ... and tells its observers before it is gone, with the tasks posted     *)
(* since.                                                                   *)
PreDestruct ==
    /\ thread = "closing"
    /\ IF observing THEN StopWatching /\ Interrupted
       ELSE UNCHANGED <<wait, cancelled, object_, wait_object_, observing, stopped>>
    /\ current' = 0 /\ queue' = << >>
    /\ thread' = "none"
    /\ UNCHANGED <<callback_, origin_loop_, destroyed, loops, signaled, pool, asked,
                   told>>

-----------------------------------------------------------------------------
WaitThread == Fire \/ PostCallback \/ ClearCallback

LoopThread ==
    \/ RegisterFails \/ Register \/ Registered
    \/ RunTask \/ DropSignal \/ Signal \/ Return \/ PreDestruct

Next ==
    \/ \E o \in Objects : SetObject(o) \/ StartWatching(o)
    \/ Stop \/ Destroy
    \/ MakeLoop \/ PostTask \/ DeletePendingTasks
    \/ WaitThread \/ LoopThread

(* The wait thread runs, and the loop its tasks, which return.              *)
Fairness == WF_vars(WaitThread) /\ WF_vars(LoopThread)

Spec == Init /\ [][Next]_vars /\ Fairness
-----------------------------------------------------------------------------
(* Every variable has its type; only callbacks and tasks are posted.        *)
TypeOK ==
    /\ callback_ \in Watches \cup {NULL}
    /\ object_ \in Objects \cup {NULL}
    /\ {wait_object_, observing, destroyed} \subseteq BOOLEAN
    /\ {origin_loop_, current, loops} \subseteq 0..MaxLoops
    /\ cancelled \in 0..MaxStarts
    /\ thread \in {"none", "idle", "program", "register", "registered", "closing"}
    /\ queue \in Seq({Task} \cup Watches)
    /\ signaled \subseteq Objects
    /\ wait \in {"none", "armed", "fired"}
    /\ pool \in {"idle", "post", "clear"}
    /\ asked \in Seq(Objects)
    /\ told \in Seq(Watches \X (Objects \cup {NULL}))
    /\ stopped \subseteq Watches

(* A wait that is registered is known to the watcher, which then observes   *)
(* its loop: nothing else would stop it.                                    *)
WaitIsKnown ==
    wait # "none" => \/ wait_object_ /\ observing /\ origin_loop_ = current
                     \/ thread = "registered"

(* DoneWaiting finds the watcher, and when it posts the loop of             *)
(* StartWatching: neither is destroyed under it, nor forgets the wait.      *)
NothingGone ==
    /\ pool # "idle" => ~ destroyed
    /\ pool = "post" => origin_loop_ = current
    /\ WaitIsKnown

(* What DoneWaiting posts is the callback of the latest watch.              *)
PostsTheLatest ==
    \A i \in 1..Len(queue) : queue[i] \notin {Task} \cup 1..cancelled => queue[i] = latest

(* A delegate is called at most once for a watch, with its object, which is *)
(* signaled, and not after the watch was stopped.                           *)
ToldOnce ==
    \A i \in 1..Len(told) :
        LET n == told[i][1]
        IN  /\ told[i][2] = asked[n] /\ asked[n] \in signaled
            /\ n \notin stopped
            /\ \A j \in 1..Len(told) : told[j][1] = n => j = i

(* A watch on an object that is signaled ends, by the delegate or by a      *)
(* stop: no wake-up is lost between the wait thread and the loop.           *)
SignalArrives ==
    \A n \in Watches :
        (n = latest /\ wait_object_ /\ asked[n] \in signaled)
            ~> (n \in stopped \/ \E i \in 1..Len(told) : told[i][1] = n)
=============================================================================
