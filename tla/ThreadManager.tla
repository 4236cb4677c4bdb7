---------------------------- MODULE ThreadManager ----------------------------
(***************************************************************************)
(* nbase::ThreadManager (base/thread/thread_manager.cpp): a map from       *)
(* identifiers to framework threads, with which the threads post to each   *)
(* other's loops; Await, whose closures travel in a PostTaskAndReplyRelay  *)
(* (base/framework/message_loop_proxy.h) to another loop and back; and     *)
(* PostRepeatedTask, whose callback is weak (base/callback/callback.h).    *)
(*                                                                         *)
(* Each thread is a FrameworkThread, with the life FrameworkThread.tla     *)
(* gives it.  What it does between two steps of the loop is the choice of  *)
(* the closures that run there.                                            *)
(***************************************************************************)
EXTENDS Integers, Sequences

CONSTANTS Threads, Ids, None,
          Relays,      \* one for each call of Await
          Times,       \* the counts PostRepeatedTask is given, -1 for TIMES_FOREVER
          MaxManaged,  \* bound on nested RegisterThread calls
          MaxStarts,   \* bound on the loops of each thread
          MaxRuns      \* where the count of a repeated task's runs saturates

ASSUME NoneAssumption ==
    None \notin Threads \cup Ids \cup Relays /\ "repeat" \notin Relays \cup {None}
ASSUME TimesAssumption == Times \subseteq Int /\ \A n \in Times : n >= -1 /\ n < MaxRuns
ASSUME BoundsAssumption ==
    MaxManaged \in Nat \ {0} /\ MaxStarts \in [Threads -> Nat] /\ MaxRuns \in Nat

VARIABLES
    threads,    \* threads_: the thread of each identifier, or None
    managed,    \* managed and
    managedId,  \*   managed_thread_id of each thread's TLS data
    life,       \* where each thread is in FrameworkThread::Run
    starts,     \* how many loops each thread has had: the number of its loop
    queue,      \* the relays that wait in each thread's loop
    pc,         \* where each thread is in a call
    call,       \* the arguments and locals of that call
    relay,      \* the relays
    repeat,     \* the repeated task; late: the entries after its cancellation
    flag,       \* its weak flag: who cancelled it, None if it is alive
    crashed,    \* a deleted loop has been used
    mixed       \* history: threads registered under two identifiers at once

threadVars == <<life, starts>>
mapVars    == <<threads, managed, managedId, mixed>>
vars == <<mapVars, threadVars, queue, pc, call, relay, repeat, flag, crashed>>

Idle    == [for |-> None, id |-> None, found |-> None, loop |-> 0]
Running(t) == ~ crashed /\ life[t] = "run" /\ pc[t] = "idle"

(* Loop n of thread t exists, and its proxy knows it.                       *)
Alive(t, n) == life[t] \in {"run", "cleanup"} /\ starts[t] = n

Init ==
    /\ threads = [i \in Ids |-> None]
    /\ managed = [t \in Threads |-> 0] /\ managedId = [t \in Threads |-> None]
    /\ life = [t \in Threads |-> "none"] /\ starts = [t \in Threads |-> 0]
    /\ queue = [t \in Threads |-> << >>]
    /\ pc = [t \in Threads |-> "idle"] /\ call = [t \in Threads |-> Idle]
    /\ relay = [r \in Relays |-> [at |-> "none", origin |-> None, home |-> 0,
                                  target |-> None, away |-> 0, task |-> FALSE]]
    /\ repeat = [at |-> None, id |-> None, left |-> 0, asked |-> 0, runs |-> 0,
                 late |-> << >>]
    /\ flag = None /\ crashed = FALSE
    /\ mixed = {}

-----------------------------------------------------------------------------
(* The thread's life.                                                       *)

Start(t) ==
    /\ ~ crashed /\ life[t] = "none" /\ starts[t] < MaxStarts[t]
    /\ life' = [life EXCEPT ![t] = "run"]
    /\ starts' = [starts EXCEPT ![t] = @ + 1]
    /\ UNCHANGED <<mapVars, queue, pc, call, relay, repeat, flag, crashed>>

(* The loop leaves Run when its queue is empty; Cleanup() comes next.       *)
Quit(t) ==
    /\ Running(t) /\ queue[t] = << >>
    /\ life' = [life EXCEPT ![t] = "cleanup"]
    /\ UNCHANGED <<mapVars, starts, queue, pc, call, relay, repeat, flag, crashed>>

(* delete message_loop_: the tasks it still holds go with it.  The thread   *)
(* has kept to thread_manager.h 46 and is no longer managed.                *)
DeleteLoop(t) ==
    /\ ~ crashed /\ life[t] = "cleanup" /\ managed[t] = 0
    /\ life' = [life EXCEPT ![t] = "deleted"]
    /\ queue' = [queue EXCEPT ![t] = << >>]
    /\ repeat' = IF repeat.at = t THEN [repeat EXCEPT !.at = None] ELSE repeat
    /\ UNCHANGED <<mapVars, starts, pc, call, relay, flag, crashed>>

(* message_loop_ = NULL, and the TLS data are freed.                        *)
Exit(t) ==
    /\ ~ crashed /\ life[t] = "deleted"
    /\ life' = [life EXCEPT ![t] = "none"]
    /\ UNCHANGED <<mapVars, starts, queue, pc, call, relay, repeat, flag, crashed>>

-----------------------------------------------------------------------------
(* Registration.                                                            *)

(* Mutant: an identifier that is taken is given to the caller.              *)
RegisterThread_Steals(t, i) ==
    /\ Running(t) /\ managed[t] < MaxManaged
    /\ threads'   = [threads EXCEPT ![i] = t]
    /\ managed'   = [managed EXCEPT ![t] = @ + 1]
    /\ managedId' = [managedId EXCEPT ![t] = i]
    /\ mixed'     = IF managedId[t] \in {None, i} THEN mixed ELSE mixed \cup {t}
    /\ UNCHANGED <<threadVars, queue, pc, call, relay, repeat, flag, crashed>>

(* Refused when the identifier belongs to another thread.                   *)
RegisterThread(t, i) ==
    /\ Running(t) /\ managed[t] < MaxManaged
    /\ threads[i] \in {None, t}
    /\ threads'   = [threads EXCEPT ![i] = t]
    /\ managed'   = [managed EXCEPT ![t] = @ + 1]
    /\ managedId' = [managedId EXCEPT ![t] = i]
    /\ mixed'     = IF managedId[t] \in {None, i} THEN mixed ELSE mixed \cup {t}
    /\ UNCHANGED <<threadVars, queue, pc, call, relay, repeat, flag, crashed>>

(* The entry goes with the outermost registration.                          *)
UnregisterThread(t) ==
    /\ ~ crashed /\ life[t] \in {"run", "cleanup"} /\ pc[t] = "idle" /\ managed[t] > 0
    /\ managed' = [managed EXCEPT ![t] = @ - 1]
    /\ IF managed[t] = 1
       THEN /\ threads'   = [threads EXCEPT ![managedId[t]] = None]
            /\ managedId' = [managedId EXCEPT ![t] = None]
       ELSE UNCHANGED <<threads, managedId>>
    /\ UNCHANGED <<mixed, threadVars, queue, pc, call, relay, repeat, flag,
                   crashed>>

-----------------------------------------------------------------------------
(* GetMessageLoop: three reads with no lock between them.  Its caller goes  *)
(* on at "post" with the proxy, or gives up when there is none.             *)

Go(t, where)  == pc' = [pc EXCEPT ![t] = where]
Return(t)     == Go(t, "idle") /\ call' = [call EXCEPT ![t] = Idle]

GetMessageLoop(t, for, i) ==
    /\ Go(t, "query")
    /\ call' = [call EXCEPT ![t] = [Idle EXCEPT !.for = for, !.id = i]]

QueryThreadInternal(t) ==
    /\ ~ crashed /\ pc[t] = "query"
    /\ LET s == threads[call[t].id] IN
        \/ s = None /\ Return(t)
        \/ s # None /\ Go(t, "read") /\ call' = [call EXCEPT ![t].found = s]
    /\ UNCHANGED <<mapVars, threadVars, queue, relay, repeat, flag, crashed>>

(* thread->message_loop(): NULL once the thread has cleared it.             *)
ReadMessageLoop(t) ==
    /\ ~ crashed /\ pc[t] = "read"
    /\ LET s == call[t].found IN
        \/ life[s] = "none" /\ Return(t)
        \/ life[s] # "none" /\ Go(t, "use") /\ call' = [call EXCEPT ![t].loop = starts[s]]
    /\ UNCHANGED <<mapVars, threadVars, queue, relay, repeat, flag, crashed>>

(* message_loop->message_loop_proxy().  When the loop is deleted, the       *)
(* memory may still hold the proxy, or the program goes wrong.              *)
ReadProxy(t) ==
    /\ ~ crashed /\ pc[t] = "use"
    /\ \/ Go(t, "post") /\ UNCHANGED crashed
       \/ ~ Alive(call[t].found, call[t].loop) /\ crashed' = TRUE /\ UNCHANGED pc
    /\ UNCHANGED <<mapVars, threadVars, queue, call, relay, repeat, flag>>

-----------------------------------------------------------------------------
(* Await and its relay.                                                     *)

Await(t, r, i) ==
    /\ Running(t) /\ relay[r].at = "none"
    /\ \A s \in Threads : call[s].for # r
    /\ GetMessageLoop(t, r, i)
    /\ UNCHANGED <<mapVars, threadVars, queue, relay, repeat, flag, crashed>>

(* PostTaskAndReply: a relay whose Run the loop refuses is deleted at once. *)
PostTaskAndReply(t) ==
    /\ ~ crashed /\ pc[t] = "post" /\ call[t].for \in Relays
    /\ LET r == call[t].for
           s == call[t].found IN
        \/ /\ Alive(s, call[t].loop)
           /\ queue' = [queue EXCEPT ![s] = Append(@, r)]
           /\ relay' = [relay EXCEPT ![r] =
                          [at |-> "posted", origin |-> t, home |-> starts[t],
                           target |-> s, away |-> call[t].loop, task |-> TRUE]]
        \/ /\ ~ Alive(s, call[t].loop)
           /\ relay' = [relay EXCEPT ![r].at = "freed"]
           /\ UNCHANGED queue
    /\ Return(t)
    /\ UNCHANGED <<mapVars, threadVars, repeat, flag, crashed>>

Front(t) == Head(queue[t])
Pop(t)   == [queue EXCEPT ![t] = Tail(@)]

(* Mutant: the reply is posted to the loop the task ran on.                 *)
RunRelay_Here(t) ==
    /\ Running(t) /\ queue[t] # << >> /\ relay[Front(t)].at = "posted"
    /\ LET r == Front(t) IN
        /\ relay' = [relay EXCEPT ![r].at = "ran"]
        /\ queue' = [Pop(t) EXCEPT ![t] = Append(@, r)]
    /\ UNCHANGED <<mapVars, threadVars, pc, call, repeat, flag, crashed>>

(* Run, on the loop it was posted to: the task, and then                    *)
(* origin_loop_->PostTask(RunReplyAndSelfDestruct), whose answer is not     *)
(* looked at.                                                               *)
RunRelay(t) ==
    /\ Running(t) /\ queue[t] # << >> /\ relay[Front(t)].at = "posted"
    /\ LET r == Front(t)
           o == relay[r].origin IN
        /\ relay' = [relay EXCEPT ![r].at = "ran"]
        /\ queue' = IF Alive(o, relay[r].home)
                    THEN [Pop(t) EXCEPT ![o] = Append(@, r)] ELSE Pop(t)
    /\ UNCHANGED <<mapVars, threadVars, pc, call, repeat, flag, crashed>>

(* RunReplyAndSelfDestruct: the task is released, and the reply called.     *)
BeginReply(t) ==
    /\ Running(t) /\ queue[t] # << >> /\ relay[Front(t)].at = "ran"
    /\ relay' = [relay EXCEPT ![Front(t)].at = "reply", ![Front(t)].task = FALSE]
    /\ queue' = Pop(t)
    /\ Go(t, "reply")
    /\ call' = [call EXCEPT ![t] = [Idle EXCEPT !.for = Front(t)]]
    /\ UNCHANGED <<mapVars, threadVars, repeat, flag, crashed>>

(* delete this.                                                             *)
EndReply(t) ==
    /\ ~ crashed /\ pc[t] = "reply"
    /\ relay' = [relay EXCEPT ![call[t].for].at = "freed"]
    /\ Return(t)
    /\ UNCHANGED <<mapVars, threadVars, queue, repeat, flag, crashed>>

-----------------------------------------------------------------------------
(* PostRepeatedTask(thread_id, ...) and RunRepeatedly2.                     *)

PostRepeatedTask(t, i, n) ==
    /\ Running(t) /\ repeat.id = None
    /\ repeat' = [repeat EXCEPT !.id = i, !.left = n, !.asked = n]
    /\ GetMessageLoop(t, "repeat", i)
    /\ UNCHANGED <<mapVars, threadVars, queue, relay, flag, crashed>>

(* PostDelayedTask(thread_id, closure, delay).                              *)
PostClosure(t) ==
    /\ ~ crashed /\ pc[t] = "post" /\ call[t].for = "repeat"
    /\ repeat' = IF Alive(call[t].found, call[t].loop)
                 THEN [repeat EXCEPT !.at = call[t].found] ELSE repeat
    /\ Return(t)
    /\ UNCHANGED <<mapVars, threadVars, queue, relay, flag, crashed>>

(* Mutant: the closure's copy of the callback keeps a flag of its own.      *)
Expired_Never == FALSE

(* WeakCallback::Expired.                                                   *)
Expired == flag # None

(* The delay is over, and the closure tests task.Expired().                 *)
RunRepeatedly(t) ==
    /\ Running(t) /\ repeat.at = t
    /\ repeat' = [repeat EXCEPT !.at = None]
    /\ IF Expired THEN UNCHANGED pc ELSE Go(t, "call")
    /\ UNCHANGED <<mapVars, threadVars, queue, call, relay, flag, crashed>>

(* WeakCallback::operator() tests the flag again ...                        *)
TestFlag(t) ==
    /\ ~ crashed /\ pc[t] = "call"
    /\ Go(t, IF Expired THEN "return" ELSE "enter")
    /\ UNCHANGED <<mapVars, threadVars, queue, call, relay, repeat, flag, crashed>>

(* ... and calls what it guards.                                            *)
EnterCallback(t) ==
    /\ ~ crashed /\ pc[t] = "enter"
    /\ Go(t, "callback")
    /\ repeat' = [repeat EXCEPT !.runs = IF @ < MaxRuns THEN @ + 1 ELSE @,
                                !.late = IF flag = None THEN @ ELSE Append(@, t)]
    /\ UNCHANGED <<mapVars, threadVars, queue, call, relay, flag, crashed>>

LeaveCallback(t) ==
    /\ ~ crashed /\ pc[t] = "callback"
    /\ Go(t, "return")
    /\ UNCHANGED <<mapVars, threadVars, queue, call, relay, repeat, flag, crashed>>

(* Mutant: the count is tested before it is lowered.                        *)
PostAgain_Late(t) ==
    /\ ~ crashed /\ pc[t] = "return"
    /\ LET left == IF repeat.left = -1 THEN -1 ELSE repeat.left - 1 IN
        IF Expired \/ repeat.left = 0
        THEN Return(t) /\ UNCHANGED repeat
        ELSE /\ repeat' = [repeat EXCEPT !.left = left]
             /\ GetMessageLoop(t, "repeat", repeat.id)
    /\ UNCHANGED <<mapVars, threadVars, queue, relay, flag, crashed>>

(* Expired() again, the count, and the next PostRepeatedTask.               *)
PostAgain(t) ==
    /\ ~ crashed /\ pc[t] = "return"
    /\ LET left == IF repeat.left = -1 THEN -1 ELSE repeat.left - 1 IN
        IF Expired \/ left = 0
        THEN Return(t) /\ UNCHANGED repeat
        ELSE /\ repeat' = [repeat EXCEPT !.left = left]
             /\ GetMessageLoop(t, "repeat", repeat.id)
    /\ UNCHANGED <<mapVars, threadVars, queue, relay, flag, crashed>>

(* WeakCallbackFlag::Cancel, or the end of the object the callback is for.  *)
Cancel(t) ==
    /\ ~ crashed /\ life[t] = "run" /\ pc[t] \in {"idle", "callback"}
    /\ repeat.id # None /\ flag = None
    /\ flag' = t
    /\ UNCHANGED <<mapVars, threadVars, queue, pc, call, relay, repeat, crashed>>

-----------------------------------------------------------------------------
InCall(t) ==
    \/ QueryThreadInternal(t) \/ ReadMessageLoop(t) \/ ReadProxy(t)
    \/ PostTaskAndReply(t) \/ EndReply(t) \/ PostClosure(t)
    \/ TestFlag(t) \/ EnterCallback(t) \/ LeaveCallback(t) \/ PostAgain(t)

RunQueued(t) == RunRelay(t) \/ BeginReply(t)

Closures(t) ==
    \/ \E i \in Ids : RegisterThread(t, i)
    \/ UnregisterThread(t)
    \/ \E r \in Relays, i \in Ids : Await(t, r, i)
    \/ \E i \in Ids, n \in Times : PostRepeatedTask(t, i, n)
    \/ Cancel(t)

Life(t) == Start(t) \/ Quit(t) \/ DeleteLoop(t) \/ Exit(t)

Next == \E t \in Threads : InCall(t) \/ RunQueued(t) \/ RunRepeatedly(t)
                           \/ Closures(t) \/ Life(t)

Spec == Init /\ [][Next]_vars
-----------------------------------------------------------------------------
(* Every variable has its type.                                             *)
TypeOK ==
    /\ threads \in [Ids -> Threads \cup {None}]
    /\ managed \in [Threads -> 0..MaxManaged]
    /\ managedId \in [Threads -> Ids \cup {None}]
    /\ mixed \subseteq Threads
    /\ life \in [Threads -> {"none", "run", "cleanup", "deleted"}]
    /\ starts \in [Threads -> Nat]
    /\ queue \in [Threads -> Seq(Relays)]
    /\ pc \in [Threads -> {"idle", "query", "read", "use", "post", "reply",
                           "call", "enter", "callback", "return"}]
    /\ call \in [Threads -> [for   : Relays \cup {"repeat", None},
                             id    : Ids \cup {None},
                             found : Threads \cup {None},
                             loop  : Nat]]
    /\ relay \in [Relays -> [at      : {"none", "posted", "ran", "reply", "freed"},
                             origin  : Threads \cup {None},
                             home    : Nat,
                             target  : Threads \cup {None},
                             away    : Nat,
                             task    : BOOLEAN]]
    /\ repeat \in [at : Threads \cup {None}, id : Ids \cup {None}, left : Int,
                   asked : Times \cup {0}, runs : 0..MaxRuns, late : Seq(Threads)]
    /\ flag \in Threads \cup {None}
    /\ crashed \in BOOLEAN

OneId(t) == t \notin mixed

(* A thread that registers under one identifier at a time is in the map     *)
(* exactly while it is managed; above all it has no entry when it ends.     *)
(* (A thread with two loses track of the first: managed_thread_id is one.)  *)
RegistryExact ==
    \A t \in Threads : OneId(t) =>
        \A i \in Ids : threads[i] = t <=> managed[t] > 0 /\ managedId[t] = i

(* No loop is used after its deletion.  GetMessageLoop reads the map, the   *)
(* thread and its loop without a lock (thread_manager.cpp 86-118), and any  *)
(* thread may post (thread_manager.h 36).  The threads of this model keep   *)
(* to all that is asked of them: they unregister before they end ("before a *)
(* thread's run ends UnregisterThread must be called", thread_manager.h 46).*)
LookupSafe == ~ crashed

InQueue(t, r) == \E k \in DOMAIN queue[t] : queue[t][k] = r

(* A relay that is not finished is in one place: its Run on the loop it was *)
(* posted to, then its reply, once, on the loop of the thread that made it, *)
(* where it is deleted; and its task is released before its reply runs      *)
(* (message_loop_proxy.h 76-79).  It is lost only with one of these loops.  *)
RelayInPlace ==
    \A r \in Relays :
        LET y == relay[r] IN
        /\ y.at = "posted" =>
              \A s \in Threads : InQueue(s, r) = (s = y.target /\ Alive(s, y.away))
        /\ y.at = "ran" =>
              \A s \in Threads : InQueue(s, r) = (s = y.origin /\ Alive(s, y.home))
        /\ y.at = "reply" => pc[y.origin] = "reply" /\ call[y.origin].for = r
        /\ y.at \in {"none", "reply", "freed"} => \A s \in Threads : ~ InQueue(s, r)
        /\ y.at \in {"reply", "freed"} => ~ y.task

(* A repeated task runs no more often than it was asked to.  (Asked for no  *)
(* time at all it runs for ever: the count passes 0 on its way to -1.)      *)
RepeatBound == repeat.asked >= 1 => repeat.runs <= repeat.asked

(* After Cancel the callback is not entered again on the thread that        *)
(* cancelled it, and once at most in all: on another thread, which had      *)
(* tested the flag before (callback.h 50, thread_manager.cpp 238-255).      *)
CancelStops ==
    /\ \A k \in DOMAIN repeat.late : repeat.late[k] # flag
    /\ Len(repeat.late) <= 1
=============================================================================
