------------------------ MODULE ObjectWatcher_proofs ------------------------
(***************************************************************************)
(* ObjectWatcher for any objects, watches, loops and queues: the wait      *)
(* thread finds the watcher and the loop, and a delegate is called once.   *)
(***************************************************************************)
EXTENDS ObjectWatcher, TLAPS

(* What TypeOK says, and the order of the watches.                         *)
Typed ==
    /\ callback_ \in Watches \cup {NULL}
    /\ object_ \in Objects \cup {NULL}
    /\ wait_object_ \in BOOLEAN /\ observing \in BOOLEAN /\ destroyed \in BOOLEAN
    /\ origin_loop_ \in 0..MaxLoops /\ current \in 0..MaxLoops /\ loops \in 0..MaxLoops
    /\ asked \in Seq(Objects) /\ Len(asked) \in 0..MaxStarts
    /\ cancelled \in 0..Len(asked)
    /\ thread \in {"none", "idle", "program", "register", "registered", "closing"}
    /\ queue \in Seq({Task} \cup Watches)
    /\ signaled \subseteq Objects
    /\ wait \in {"none", "armed", "fired"}
    /\ pool \in {"idle", "post", "clear"}
    /\ told \in Seq(Watches \X (Objects \cup {NULL}))
    /\ stopped \subseteq 1..Len(asked)

(* The latest watch is under way.                                          *)
Watching ==
    /\ latest > cancelled /\ latest \notin stopped
    /\ object_ = asked[latest]
    /\ origin_loop_ = current /\ ~ destroyed

(* The watcher, its observation of the loop and the registered wait agree. *)
WatchInv ==
    /\ thread = "none" <=> current = 0
    /\ observing <=> wait_object_
    /\ wait_object_ => wait # "none"
    /\ wait # "none" => Watching /\ thread # "register" /\ thread # "none"
                        /\ (wait_object_ \/ thread = "registered")
    /\ wait = "armed" => callback_ = latest
    /\ thread = "register" => Watching /\ callback_ = latest
    /\ thread \in {"register", "registered"} => ~ wait_object_
    /\ thread = "registered" => wait # "none"

(* DoneWaiting is called once, when the object is signaled.                *)
PoolInv ==
    /\ pool # "idle" => wait = "fired"
    /\ pool = "post" => callback_ = latest /\ asked[latest] \in signaled

(* The callback of the latest watch is posted once, when the wait is over; *)
(* all others are cancelled.                                               *)
QueueInv ==
    \A k \in 1..Len(queue) : queue[k] > cancelled =>
        /\ queue[k] = latest /\ wait = "fired" /\ pool # "post"
        /\ asked[latest] \in signaled
        /\ \A l \in 1..Len(queue) : queue[l] = queue[k] => l = k

(* The watches whose delegate was called are over.                         *)
ToldInv == \A i \in 1..Len(told) : told[i][1] \in 1..cancelled

IInv == Typed /\ WatchInv /\ PoolInv /\ QueueInv /\ ToldInv /\ ToldOnce

-----------------------------------------------------------------------------
LEMMA Bounds == MaxStarts \in Nat /\ MaxLoops \in Nat /\ NULL \notin Objects
  BY WatcherAssumption

LEMMA InitIInv == Init => IInv
<1> SUFFICES ASSUME Init PROVE IInv
  OBVIOUS
<1> USE Bounds DEF Init, latest
<1>0. /\ Len(asked) = 0 /\ Len(told) = 0 /\ Len(queue) = 0
      /\ asked \in Seq(Objects) /\ queue \in Seq({Task} \cup Watches)
      /\ told \in Seq(Watches \X (Objects \cup {NULL}))
  OBVIOUS
<1>1. Typed
  <2>1. callback_ \in Watches \cup {NULL} /\ object_ \in Objects \cup {NULL}
    OBVIOUS
  <2>2. wait_object_ \in BOOLEAN /\ observing \in BOOLEAN /\ destroyed \in BOOLEAN
    OBVIOUS
  <2>3. origin_loop_ \in 0..MaxLoops /\ current \in 0..MaxLoops /\ loops \in 0..MaxLoops
    OBVIOUS
  <2>4. Len(asked) \in 0..MaxStarts /\ cancelled \in 0..Len(asked)
    BY <1>0
  <2>5. /\ thread \in {"none", "idle", "program", "register", "registered", "closing"}
        /\ signaled \subseteq Objects
        /\ wait \in {"none", "armed", "fired"}
        /\ pool \in {"idle", "post", "clear"}
        /\ stopped \subseteq 1..Len(asked)
    OBVIOUS
  <2> QED BY <1>0, <2>1, <2>2, <2>3, <2>4, <2>5 DEF Typed
<1>2. WatchInv /\ PoolInv
  BY <1>0 DEF WatchInv, PoolInv
<1>3. QueueInv /\ ToldInv /\ ToldOnce
  BY <1>0 DEF QueueInv, ToldInv, ToldOnce
<1> QED BY <1>1, <1>2, <1>3 DEF IInv

LEMMA QueueOfNumbers == ASSUME IInv PROVE \A k \in 1..Len(queue) : queue[k] \in Nat
<1>1. queue \in Seq({Task} \cup Watches)
  BY DEF IInv, Typed
<1>2. {Task} \cup Watches \subseteq Nat
  BY Bounds DEF Task, Watches
<1> QED BY <1>1, <1>2

(* The system.                                                             *)
LEMMA SetObjectIInv == ASSUME NEW o \in Objects PROVE IInv /\ SetObject(o) => IInv'
  BY DEF IInv, SetObject, Typed, WatchInv, Watching, PoolInv, QueueInv, ToldInv, ToldOnce, latest,
     watcher

LEMMA FireIInv == IInv /\ Fire => IInv'
  BY DEF IInv, Fire, Typed, WatchInv, Watching, PoolInv, QueueInv, ToldInv, ToldOnce, latest,
     Watches, Task, watcher, system

LEMMA ClearIInv == IInv /\ ClearCallback => IInv'
  BY DEF IInv, ClearCallback, Typed, WatchInv, Watching, PoolInv, QueueInv, ToldInv, ToldOnce, latest,
     Watches, Task, watcher, system

(* The thread of the watcher.                                              *)
LEMMA RegisterFailsIInv == IInv /\ RegisterFails => IInv'
<1> SUFFICES ASSUME IInv, RegisterFails PROVE IInv'
  OBVIOUS
<1> USE DEF IInv, RegisterFails, latest
<1>0. latest \in Nat /\ cancelled \in Nat /\ cancelled <= latest
      /\ \A i \in 1..Len(told) : told[i][1] \in Nat /\ told[i][1] <= cancelled
  BY DEF Typed, ToldInv
<1>1. latest > cancelled
  BY DEF WatchInv, Watching
<1>2. Typed'
  <2>1. /\ callback_' \in Watches \cup {NULL} /\ object_' \in Objects \cup {NULL}
        /\ wait_object_' \in BOOLEAN /\ observing' \in BOOLEAN /\ destroyed' \in BOOLEAN
    BY <1>1 DEF Typed
  <2>2. /\ origin_loop_' \in 0..MaxLoops /\ current' \in 0..MaxLoops /\ loops' \in 0..MaxLoops
        /\ asked' \in Seq(Objects) /\ Len(asked') \in 0..MaxStarts
    BY <1>1, Bounds DEF Typed
  <2>3. /\ thread' \in {"none", "idle", "program", "register", "registered", "closing"}
        /\ wait' \in {"none", "armed", "fired"} /\ pool' \in {"idle", "post", "clear"}
        /\ queue' \in Seq({Task} \cup Watches)
        /\ signaled' \subseteq Objects
        /\ told' \in Seq(Watches \X (Objects \cup {NULL}))
    BY <1>1 DEF Typed, system
  <2>4. cancelled' \in 0..Len(asked') /\ stopped' \subseteq 1..Len(asked')
    <3>1. /\ asked' = asked /\ stopped \subseteq 1..latest
          /\ cancelled' = cancelled \/ cancelled' = latest
          /\ stopped' = stopped \/ (stopped' = stopped \cup {latest} /\ latest > cancelled)
      BY <1>1 DEF Typed
    <3>2. latest > cancelled => latest \in 1..latest
      BY <1>0
    <3>3. stopped' \subseteq 1..latest
      BY <3>1, <3>2
    <3>4. cancelled' \in 0..latest
      BY <1>0, <3>1
    <3> QED BY <3>1, <3>3, <3>4
  <2> QED BY <2>1, <2>2, <2>3, <2>4 DEF Typed
<1>3. WatchInv' /\ PoolInv'
  BY <1>0, <1>1 DEF Typed, WatchInv, Watching, PoolInv, system
<1>4. QueueInv' /\ ToldInv'
  BY <1>0, <1>1 DEF Typed, WatchInv, PoolInv, QueueInv, ToldInv, system, Task, Watches
<1>5. ToldOnce'
  BY <1>0, <1>1 DEF ToldOnce, Typed, system
<1> QED BY <1>2, <1>3, <1>4, <1>5

LEMMA RegisterIInv == IInv /\ Register => IInv'
  BY DEF IInv, Register, Typed, WatchInv, Watching, PoolInv, QueueInv, ToldInv, ToldOnce, latest,
     Watches, Task, watcher, system

LEMMA RegisteredIInv == IInv /\ Registered => IInv'
  BY DEF IInv, Registered, Typed, WatchInv, Watching, PoolInv, QueueInv, ToldInv, ToldOnce, latest,
     Watches, Task, watcher, system

LEMMA StopIInv == IInv /\ Stop => IInv'
<1> SUFFICES ASSUME IInv, Stop PROVE IInv'
  OBVIOUS
<1> USE DEF IInv, Stop, StopWatching, Interrupted, latest
<1>0. latest \in Nat /\ cancelled \in Nat /\ cancelled <= latest
      /\ \A i \in 1..Len(told) : told[i][1] \in Nat /\ told[i][1] <= cancelled
  BY DEF Typed, ToldInv
<1>1. latest > cancelled /\ pool = "idle" /\ wait' = "none" /\ cancelled' = latest
      /\ stopped' = stopped \cup {latest} /\ thread # "register" /\ thread # "registered"
  BY DEF WatchInv, Watching
<1>2. Typed'
  <2>1. /\ callback_' \in Watches \cup {NULL} /\ object_' \in Objects \cup {NULL}
        /\ wait_object_' \in BOOLEAN /\ observing' \in BOOLEAN /\ destroyed' \in BOOLEAN
    BY <1>1 DEF Typed
  <2>2. /\ origin_loop_' \in 0..MaxLoops /\ current' \in 0..MaxLoops /\ loops' \in 0..MaxLoops
        /\ asked' \in Seq(Objects) /\ Len(asked') \in 0..MaxStarts
    BY <1>1, Bounds DEF Typed
  <2>3. /\ thread' \in {"none", "idle", "program", "register", "registered", "closing"}
        /\ wait' \in {"none", "armed", "fired"} /\ pool' \in {"idle", "post", "clear"}
        /\ queue' \in Seq({Task} \cup Watches)
        /\ signaled' \subseteq Objects
        /\ told' \in Seq(Watches \X (Objects \cup {NULL}))
    BY <1>1 DEF Typed, system
  <2>4. cancelled' \in 0..Len(asked') /\ stopped' \subseteq 1..Len(asked')
    <3>1. /\ asked' = asked /\ stopped \subseteq 1..latest
          /\ cancelled' = cancelled \/ cancelled' = latest
          /\ stopped' = stopped \/ (stopped' = stopped \cup {latest} /\ latest > cancelled)
      BY <1>1 DEF Typed
    <3>2. latest > cancelled => latest \in 1..latest
      BY <1>0
    <3>3. stopped' \subseteq 1..latest
      BY <3>1, <3>2
    <3>4. cancelled' \in 0..latest
      BY <1>0, <3>1
    <3> QED BY <3>1, <3>3, <3>4
  <2> QED BY <2>1, <2>2, <2>3, <2>4 DEF Typed
<1>3. WatchInv' /\ PoolInv'
  BY <1>0, <1>1 DEF Typed, WatchInv, Watching, PoolInv, system
<1>4. QueueInv' /\ ToldInv'
  BY <1>0, <1>1 DEF Typed, WatchInv, PoolInv, QueueInv, ToldInv, system, Task, Watches
<1>5. ToldOnce'
  BY <1>0, <1>1 DEF ToldOnce, Typed, system
<1> QED BY <1>2, <1>3, <1>4, <1>5

LEMMA DestroyIInv == IInv /\ Destroy => IInv'
<1> SUFFICES ASSUME IInv, Destroy PROVE IInv'
  OBVIOUS
<1> USE DEF IInv, Destroy, StopWatching, Interrupted, latest
<1>0. latest \in Nat /\ cancelled \in Nat /\ cancelled <= latest
      /\ \A i \in 1..Len(told) : told[i][1] \in Nat /\ told[i][1] <= cancelled
  BY DEF Typed, ToldInv
<1>1. \/ latest > cancelled /\ pool = "idle" /\ wait' = "none" /\ cancelled' = latest
         /\ stopped' = stopped \cup {latest} /\ thread # "register" /\ thread # "registered"
         /\ object_' = NULL /\ wait_object_' = FALSE /\ observing' = FALSE
      \/ ~ wait_object_ /\ wait = "none" /\ thread # "register" /\ thread # "registered"
         /\ UNCHANGED <<wait, cancelled, object_, wait_object_, observing, stopped>>
  BY DEF WatchInv, Watching
<1>2. Typed'
  <2>1. /\ callback_' \in Watches \cup {NULL} /\ object_' \in Objects \cup {NULL}
        /\ wait_object_' \in BOOLEAN /\ observing' \in BOOLEAN /\ destroyed' \in BOOLEAN
    BY <1>1 DEF Typed
  <2>2. /\ origin_loop_' \in 0..MaxLoops /\ current' \in 0..MaxLoops /\ loops' \in 0..MaxLoops
        /\ asked' \in Seq(Objects) /\ Len(asked') \in 0..MaxStarts
    BY <1>1, Bounds DEF Typed
  <2>3. /\ thread' \in {"none", "idle", "program", "register", "registered", "closing"}
        /\ wait' \in {"none", "armed", "fired"} /\ pool' \in {"idle", "post", "clear"}
        /\ queue' \in Seq({Task} \cup Watches)
        /\ signaled' \subseteq Objects
        /\ told' \in Seq(Watches \X (Objects \cup {NULL}))
    BY <1>1 DEF Typed, system
  <2>4. cancelled' \in 0..Len(asked') /\ stopped' \subseteq 1..Len(asked')
    <3>1. /\ asked' = asked /\ stopped \subseteq 1..latest
          /\ cancelled' = cancelled \/ cancelled' = latest
          /\ stopped' = stopped \/ (stopped' = stopped \cup {latest} /\ latest > cancelled)
      BY <1>1 DEF Typed
    <3>2. latest > cancelled => latest \in 1..latest
      BY <1>0
    <3>3. stopped' \subseteq 1..latest
      BY <3>1, <3>2
    <3>4. cancelled' \in 0..latest
      BY <1>0, <3>1
    <3> QED BY <3>1, <3>3, <3>4
  <2> QED BY <2>1, <2>2, <2>3, <2>4 DEF Typed
<1>3. WatchInv' /\ PoolInv'
  BY <1>0, <1>1 DEF Typed, WatchInv, Watching, PoolInv, system
<1>4. QueueInv' /\ ToldInv' /\ ToldOnce'
  <2>1. CASE wait_object_
    <3>1. latest > cancelled /\ cancelled' = latest /\ stopped' = stopped \cup {latest}
      BY <1>1, <2>1
    <3>2. QueueInv' /\ ToldInv'
      <4>1. \A k \in 1..Len(queue) : queue[k] \in Nat
        BY QueueOfNumbers
      <4>2. \A k \in 1..Len(queue) : ~ (queue[k] > latest)
        BY <1>0, <3>1, <4>1 DEF QueueInv
      <4>3. queue' = queue /\ told' = told
        OBVIOUS
      <4>4. QueueInv'
        BY <3>1, <4>2, <4>3 DEF QueueInv
      <4>5. ToldInv'
        BY <1>0, <3>1, <4>3 DEF ToldInv
      <4> QED BY <4>4, <4>5
    <3>3. ToldOnce'
      BY <1>0, <3>1 DEF ToldOnce
    <3> QED BY <3>2, <3>3
  <2>2. CASE ~ wait_object_
    <3>1. UNCHANGED <<wait, cancelled, stopped>>
      BY <1>1, <2>2
    <3> QED BY <3>1 DEF QueueInv, ToldInv, ToldOnce
  <2> QED BY <2>1, <2>2
<1> QED BY <1>2, <1>3, <1>4

LEMMA MakeLoopIInv == IInv /\ MakeLoop => IInv'
<1> SUFFICES ASSUME IInv, MakeLoop PROVE IInv'
  OBVIOUS
<1> USE Bounds DEF IInv, MakeLoop, latest, watcher, system
<1>1. loops' \in 0..MaxLoops /\ current' \in 0..MaxLoops /\ current' # 0
  BY DEF Typed
<1>2. Typed'
  BY <1>1 DEF Typed
<1>3. WatchInv' /\ PoolInv' /\ QueueInv' /\ ToldInv' /\ ToldOnce'
  BY <1>1 DEF WatchInv, PoolInv, QueueInv, ToldInv, ToldOnce
<1> QED BY <1>2, <1>3

LEMMA ReturnIInv == IInv /\ Return => IInv'
  BY DEF IInv, Return, Typed, WatchInv, Watching, PoolInv, QueueInv, ToldInv, ToldOnce, latest,
     Watches, Task, watcher, system

LEMMA DeleteIInv == IInv /\ DeletePendingTasks => IInv'
  BY DEF IInv, DeletePendingTasks, Typed, WatchInv, Watching, PoolInv, QueueInv, ToldInv, ToldOnce, latest,
     Watches, Task, watcher, system

LEMMA PreDestructIInv == IInv /\ PreDestruct => IInv'
<1> SUFFICES ASSUME IInv, PreDestruct PROVE IInv'
  OBVIOUS
<1> USE DEF IInv, PreDestruct, StopWatching, Interrupted, latest
<1>0. latest \in Nat /\ cancelled \in Nat /\ cancelled <= latest
      /\ \A i \in 1..Len(told) : told[i][1] \in Nat /\ told[i][1] <= cancelled
  BY DEF Typed, ToldInv
<1>1. \/ latest > cancelled /\ pool = "idle" /\ wait' = "none" /\ cancelled' = latest
         /\ stopped' = stopped \cup {latest} /\ thread # "register" /\ thread # "registered"
         /\ object_' = NULL /\ wait_object_' = FALSE /\ observing' = FALSE
      \/ ~ wait_object_ /\ wait = "none" /\ thread # "register" /\ thread # "registered"
         /\ UNCHANGED <<wait, cancelled, object_, wait_object_, observing, stopped>>
  BY DEF WatchInv, Watching
<1>2. Typed'
  <2>1. /\ callback_' \in Watches \cup {NULL} /\ object_' \in Objects \cup {NULL}
        /\ wait_object_' \in BOOLEAN /\ observing' \in BOOLEAN /\ destroyed' \in BOOLEAN
    BY <1>1 DEF Typed
  <2>2. /\ origin_loop_' \in 0..MaxLoops /\ current' \in 0..MaxLoops /\ loops' \in 0..MaxLoops
        /\ asked' \in Seq(Objects) /\ Len(asked') \in 0..MaxStarts
    BY <1>1, Bounds DEF Typed
  <2>3. /\ thread' \in {"none", "idle", "program", "register", "registered", "closing"}
        /\ wait' \in {"none", "armed", "fired"} /\ pool' \in {"idle", "post", "clear"}
        /\ queue' \in Seq({Task} \cup Watches)
        /\ signaled' \subseteq Objects
        /\ told' \in Seq(Watches \X (Objects \cup {NULL}))
    BY <1>1 DEF Typed, system
  <2>4. cancelled' \in 0..Len(asked') /\ stopped' \subseteq 1..Len(asked')
    <3>1. /\ asked' = asked /\ stopped \subseteq 1..latest
          /\ cancelled' = cancelled \/ cancelled' = latest
          /\ stopped' = stopped \/ (stopped' = stopped \cup {latest} /\ latest > cancelled)
      BY <1>1 DEF Typed
    <3>2. latest > cancelled => latest \in 1..latest
      BY <1>0
    <3>3. stopped' \subseteq 1..latest
      BY <3>1, <3>2
    <3>4. cancelled' \in 0..latest
      BY <1>0, <3>1
    <3> QED BY <3>1, <3>3, <3>4
  <2> QED BY <2>1, <2>2, <2>3, <2>4 DEF Typed
<1>3. WatchInv' /\ PoolInv'
  BY <1>0, <1>1 DEF Typed, WatchInv, Watching, PoolInv, system
<1>4. QueueInv' /\ ToldInv'
  BY <1>0, <1>1 DEF Typed, WatchInv, PoolInv, QueueInv, ToldInv, system, Task, Watches
<1>5. ToldOnce'
  <2>1. told' = told /\ asked' = asked /\ signaled' = signaled
    OBVIOUS
  <2>2. ASSUME NEW i \in 1..Len(told) PROVE told[i][1] \notin stopped'
    <3>1. told[i][1] \notin stopped
      BY DEF ToldOnce
    <3>2. latest > cancelled => told[i][1] # latest
      BY <1>0
    <3> HIDE DEF PreDestruct, IInv
    <3> QED BY <1>1, <3>1, <3>2
  <2>3. ToldOnce
    OBVIOUS
  <2> HIDE DEF PreDestruct, IInv
  <2> QED BY <2>1, <2>2, <2>3 DEF ToldOnce
<1> QED BY <1>2, <1>3, <1>4, <1>5

-----------------------------------------------------------------------------
(* DoneWaiting posts the one callback that is not cancelled.               *)
LEMMA PostCallbackIInv == IInv /\ PostCallback => IInv'
<1> SUFFICES ASSUME IInv, PostCallback PROVE IInv'
  OBVIOUS
<1> USE DEF PostCallback, latest
<1>1. /\ callback_ = latest /\ latest > cancelled /\ asked[latest] \in signaled
      /\ wait = "fired" /\ latest \in 1..MaxStarts
  BY Bounds DEF IInv, PoolInv, WatchInv, Watching, Typed
<1>2. /\ queue \in Seq({Task} \cup Watches) /\ queue' = Append(queue, latest)
      /\ latest \in {Task} \cup Watches
  BY <1>1 DEF IInv, Typed, Watches
<1>3. /\ queue' \in Seq({Task} \cup Watches) /\ Len(queue) \in Nat
      /\ Len(queue') = Len(queue) + 1 /\ queue'[Len(queue) + 1] = latest
      /\ \A k \in 1..Len(queue) : queue'[k] = queue[k] /\ ~ (queue[k] > cancelled)
  BY <1>2 DEF IInv, QueueInv
<1>4. Typed' /\ WatchInv' /\ PoolInv' /\ ToldInv' /\ ToldOnce'
  BY <1>1, <1>3 DEF IInv, Typed, WatchInv, Watching, PoolInv, ToldInv, ToldOnce, watcher
<1>5. QueueInv'
  <2>1. \A k \in 1..Len(queue') : queue'[k] > cancelled => k = Len(queue) + 1
    BY <1>3
  <2> QED BY <1>1, <1>3, <2>1 DEF QueueInv, watcher
<1> QED BY <1>4, <1>5 DEF IInv

LEMMA PostTaskIInv == IInv /\ PostTask => IInv'
<1> SUFFICES ASSUME IInv, PostTask PROVE IInv'
  OBVIOUS
<1> USE DEF PostTask, latest
<1>1. queue \in Seq({Task} \cup Watches) /\ queue' = Append(queue, Task) /\ cancelled \in Nat
  BY DEF IInv, Typed
<1>2. /\ queue' \in Seq({Task} \cup Watches) /\ Len(queue) \in Nat
      /\ Len(queue') = Len(queue) + 1 /\ queue'[Len(queue) + 1] = 0
      /\ \A k \in 1..Len(queue) : queue'[k] = queue[k]
  BY <1>1 DEF Task
<1>3. Typed' /\ WatchInv' /\ PoolInv' /\ ToldInv' /\ ToldOnce'
  BY <1>2 DEF IInv, Typed, WatchInv, Watching, PoolInv, ToldInv, ToldOnce, watcher, system
<1>4. QueueInv'
  <2>1. \A k \in 1..Len(queue') : queue'[k] > cancelled => k \in 1..Len(queue)
    BY <1>1, <1>2
  <2> QED BY <1>1, <1>2, <2>1 DEF IInv, QueueInv, watcher, system
<1> QED BY <1>3, <1>4 DEF IInv

(* The queue loses its first task.                                         *)
LEMMA QueueTail ==
    ASSUME IInv, queue # << >>, queue' = Tail(queue)
    PROVE  /\ queue' \in Seq({Task} \cup Watches)
           /\ Len(queue) \in Nat /\ Len(queue') \in Nat /\ Len(queue') = Len(queue) - 1
           /\ \A k \in 1..Len(queue') : k + 1 \in 1..Len(queue) /\ queue'[k] = queue[k + 1]
           /\ 1 \in 1..Len(queue) /\ Head(queue) = queue[1] /\ queue[1] \in Nat
<1>1. queue \in Seq({Task} \cup Watches)
  BY DEF IInv, Typed
<1>2. 1 \in 1..Len(queue)
  BY <1>1
<1> QED BY <1>1, <1>2, QueueOfNumbers

LEMMA RunTaskIInv == IInv /\ (RunTask \/ DropSignal) => IInv'
<1> SUFFICES ASSUME IInv, RunTask \/ DropSignal PROVE IInv'
  OBVIOUS
<1> USE DEF RunTask, DropSignal, latest
<1>1. queue # << >> /\ queue' = Tail(queue)
  OBVIOUS
<1>2. /\ thread = "idle" /\ thread' \in {"idle", "program"}
      /\ UNCHANGED <<watcher, current, loops, observing, system, asked, told, stopped>>
  OBVIOUS
<1>3. Typed' /\ WatchInv' /\ PoolInv' /\ ToldInv' /\ ToldOnce'
  BY <1>1, <1>2, QueueTail
  DEF IInv, Typed, WatchInv, Watching, PoolInv, ToldInv, ToldOnce, watcher, system
<1>4. QueueInv'
  <2> SUFFICES ASSUME NEW k \in 1..Len(queue'), queue'[k] > cancelled
               PROVE  /\ queue'[k] = latest /\ wait = "fired" /\ pool # "post"
                      /\ asked[latest] \in signaled
                      /\ \A l \in 1..Len(queue') : queue'[l] = queue'[k] => l = k
    BY <1>2 DEF QueueInv, watcher, system
  <2>1. k + 1 \in 1..Len(queue) /\ queue'[k] = queue[k + 1]
    BY <1>1, QueueTail
  <2>2. /\ queue[k + 1] = latest /\ wait = "fired" /\ pool # "post"
        /\ asked[latest] \in signaled
        /\ \A l \in 1..Len(queue) : queue[l] = queue[k + 1] => l = k + 1
    BY <2>1 DEF IInv, QueueInv
  <2>3. ASSUME NEW l \in 1..Len(queue'), queue'[l] = queue'[k] PROVE l = k
    <3>1. l + 1 \in 1..Len(queue) /\ queue'[l] = queue[l + 1]
      BY <1>1, QueueTail
    <3>2. l + 1 = k + 1
      BY <2>1, <2>2, <2>3, <3>1
    <3> QED BY <3>2
  <2> QED BY <2>1, <2>2, <2>3
<1> QED BY <1>3, <1>4 DEF IInv

(* The delegate is told of the latest watch, which then is over.           *)
LEMMA SignalIInv == IInv /\ Signal => IInv'
<1> SUFFICES ASSUME IInv, Signal PROVE IInv'
  OBVIOUS
<1> USE DEF Signal, latest
<1>1. queue # << >> /\ queue' = Tail(queue) /\ queue[1] > cancelled /\ thread = "idle"
  BY QueueTail
<1>2. Head(queue) = latest /\ wait = "fired" /\ asked[latest] \in signaled
  BY <1>1, QueueTail DEF IInv, QueueInv
<1>3. /\ wait_object_ /\ latest > cancelled /\ latest \notin stopped
      /\ object_ = asked[latest] /\ latest \in Nat /\ cancelled \in Nat
      /\ latest \in 1..latest /\ latest \in Watches
  BY <1>1, <1>2, Bounds DEF IInv, WatchInv, Watching, Typed, Watches
<1>4. /\ pool = "idle" /\ wait' = "none" /\ cancelled' = latest /\ object_' = NULL
      /\ wait_object_' = FALSE /\ observing' = FALSE
      /\ told' = Append(told, <<latest, asked[latest]>>) /\ thread' = "program"
      /\ UNCHANGED <<callback_, origin_loop_, destroyed, current, loops, signaled, pool,
                     asked, stopped>>
  BY <1>2, <1>3 DEF StopWatching
<1>5. /\ told \in Seq(Watches \X (Objects \cup {NULL}))
      /\ <<latest, asked[latest]>> \in Watches \X (Objects \cup {NULL})
  BY <1>3 DEF IInv, Typed
<1>6. /\ told' \in Seq(Watches \X (Objects \cup {NULL}))
      /\ Len(told) \in Nat /\ Len(told') = Len(told) + 1
      /\ \A i \in 1..Len(told) : told'[i] = told[i]
      /\ told'[Len(told) + 1] = <<latest, asked[latest]>>
  BY <1>4, <1>5
<1>7. \A i \in 1..Len(told) : told[i][1] \in 1..cancelled
  BY DEF IInv, ToldInv
<1>8. queue' \in Seq({Task} \cup Watches) /\ Len(asked) \in 0..MaxStarts
  BY <1>1, QueueTail DEF IInv, Typed
<1>9. Typed'
  <2>1. /\ callback_' \in Watches \cup {NULL} /\ object_' \in Objects \cup {NULL}
        /\ wait_object_' \in BOOLEAN /\ observing' \in BOOLEAN /\ destroyed' \in BOOLEAN
    BY <1>4 DEF IInv, Typed
  <2>2. /\ origin_loop_' \in 0..MaxLoops /\ current' \in 0..MaxLoops /\ loops' \in 0..MaxLoops
        /\ asked' \in Seq(Objects) /\ Len(asked') \in 0..MaxStarts
    BY <1>4 DEF IInv, Typed
  <2>3. /\ thread' \in {"none", "idle", "program", "register", "registered", "closing"}
        /\ wait' \in {"none", "armed", "fired"} /\ pool' \in {"idle", "post", "clear"}
        /\ signaled' \subseteq Objects /\ stopped' \subseteq 1..Len(asked')
    BY <1>4 DEF IInv, Typed
  <2>4. cancelled' \in 0..Len(asked')
    BY <1>3, <1>4
  <2> QED BY <1>6, <1>8, <2>1, <2>2, <2>3, <2>4 DEF Typed
<1>10. WatchInv' /\ PoolInv'
  BY <1>1, <1>4 DEF IInv, WatchInv, PoolInv
<1>11. QueueInv'
  <2>1. \A k \in 1..Len(queue') : ~ (queue'[k] > latest)
    <3> SUFFICES ASSUME NEW k \in 1..Len(queue') PROVE ~ (queue'[k] > latest)
      OBVIOUS
    <3>1. k + 1 \in 1..Len(queue) /\ queue'[k] = queue[k + 1]
      BY <1>1, QueueTail
    <3>2. queue[k + 1] \in Nat
      BY <3>1, QueueOfNumbers
    <3> QED BY <1>3, <3>1, <3>2 DEF IInv, QueueInv
  <2> QED BY <1>4, <2>1 DEF QueueInv
<1>12. ToldInv'
  <2>1. \A i \in 1..Len(told') : i \in 1..Len(told) \/ i = Len(told) + 1
    BY <1>6
  <2>2. \A x \in 1..cancelled : x \in 1..latest
    BY <1>3
  <2> QED BY <1>3, <1>4, <1>6, <1>7, <2>1, <2>2 DEF ToldInv
<1>13. ToldOnce'
  <2> SUFFICES ASSUME NEW i \in 1..Len(told')
               PROVE  /\ told'[i][2] = asked[told'[i][1]] /\ asked[told'[i][1]] \in signaled
                      /\ told'[i][1] \notin stopped
                      /\ \A j \in 1..Len(told') : told'[j][1] = told'[i][1] => j = i
    BY <1>4 DEF ToldOnce
  <2>1. CASE i = Len(told) + 1
    <3>1. \A j \in 1..Len(told) : told'[j][1] # latest
      BY <1>3, <1>6, <1>7
    <3> QED BY <1>2, <1>3, <1>6, <2>1, <3>1
  <2>2. CASE i \in 1..Len(told)
    <3>1. /\ told[i][2] = asked[told[i][1]] /\ asked[told[i][1]] \in signaled
          /\ told[i][1] \notin stopped
          /\ \A j \in 1..Len(told) : told[j][1] = told[i][1] => j = i
      BY <2>2 DEF IInv, ToldOnce
    <3>2. told[i][1] # latest
      BY <1>3, <1>7, <2>2
    <3>3. told'[i] = told[i]
      BY <1>6, <2>2
    <3>4. ASSUME NEW j \in 1..Len(told'), told'[j][1] = told[i][1] PROVE j = i
      <4>1. j # Len(told) + 1
        BY <1>6, <3>2, <3>4
      <4>2. j \in 1..Len(told)
        BY <1>6, <4>1
      <4> QED BY <1>6, <3>1, <3>4, <4>2
    <3> QED BY <3>1, <3>3, <3>4
  <2> QED BY <1>6, <2>1, <2>2
<1> QED BY <1>9, <1>10, <1>11, <1>12, <1>13 DEF IInv

(* A new watch is later than all that was posted or told.                  *)
LEMMA StartIInv == ASSUME NEW o \in Objects PROVE IInv /\ StartWatching(o) => IInv'
<1> SUFFICES ASSUME IInv, StartWatching(o) PROVE IInv'
  OBVIOUS
<1> USE DEF StartWatching
<1>1. /\ asked \in Seq(Objects) /\ Len(asked) \in Nat /\ asked' = Append(asked, o)
      /\ Len(asked) < MaxStarts /\ MaxStarts \in Nat
      /\ cancelled \in 0..Len(asked) /\ stopped \subseteq 1..Len(asked)
  BY Bounds DEF IInv, Typed, latest
<1>2. /\ asked' \in Seq(Objects) /\ Len(asked') = Len(asked) + 1
      /\ asked'[Len(asked) + 1] = o
      /\ \A n \in 1..Len(asked) : asked'[n] = asked[n]
  BY <1>1
<1>3. wait = "none" /\ pool = "idle" /\ current # 0 /\ thread = "program" /\ ~ observing
  BY DEF IInv, WatchInv, PoolInv
<1>4. /\ callback_' = Len(asked) + 1 /\ object_' = o /\ origin_loop_' = current
      /\ thread' = "register" /\ ~ destroyed /\ ~ wait_object_
      /\ UNCHANGED <<wait_object_, cancelled, destroyed, current, loops, queue, observing,
                     signaled, wait, pool, told, stopped>>
  BY DEF latest, system
<1>5. Typed'
  <2>1. Len(asked) + 1 \in Watches /\ Len(asked') \in 0..MaxStarts
        /\ cancelled \in 0..Len(asked') /\ stopped \subseteq 1..Len(asked')
    BY <1>1, <1>2 DEF Watches
  <2> QED BY <1>2, <1>4, <2>1 DEF IInv, Typed
<1>6. WatchInv' /\ PoolInv'
  BY <1>1, <1>2, <1>3, <1>4 DEF WatchInv, Watching, PoolInv, latest
<1>7. QueueInv'
  BY <1>3, <1>4 DEF IInv, QueueInv
<1>8. ToldInv' /\ ToldOnce'
  <2>1. \A i \in 1..Len(told) : asked'[told[i][1]] = asked[told[i][1]]
    BY <1>1, <1>2 DEF IInv, ToldInv
  <2> QED BY <1>4, <2>1 DEF IInv, ToldInv, ToldOnce
<1> QED BY <1>5, <1>6, <1>7, <1>8 DEF IInv

-----------------------------------------------------------------------------
(* Every step keeps the invariant.                                         *)
LEMMA NextIInv == IInv /\ [Next]_vars => IInv'
<1> SUFFICES ASSUME IInv, [Next]_vars PROVE IInv'
  OBVIOUS
<1>1. CASE UNCHANGED vars
  BY <1>1 DEF vars, watcher, system, IInv, Typed, WatchInv, Watching, PoolInv, QueueInv, ToldInv,
     ToldOnce, latest
<1>2. CASE WaitThread
  BY <1>2, FireIInv, PostCallbackIInv, ClearIInv DEF WaitThread
<1>3. CASE LoopThread
  BY <1>3, RegisterFailsIInv, RegisterIInv, RegisteredIInv, RunTaskIInv, SignalIInv, ReturnIInv,
     PreDestructIInv DEF LoopThread
<1>4. CASE Stop \/ Destroy \/ MakeLoop \/ PostTask \/ DeletePendingTasks
  BY <1>4, StopIInv, DestroyIInv, MakeLoopIInv, PostTaskIInv, DeleteIInv
<1> QED BY <1>1, <1>2, <1>3, <1>4, SetObjectIInv, StartIInv DEF Next

LEMMA Invariance == Spec => []IInv
  BY InitIInv, NextIInv, PTL DEF Spec

-----------------------------------------------------------------------------
(* ObjectWatcher keeps its state in range.                                 *)
THEOREM TypeCorrect == Spec => []TypeOK
<1>1. IInv => TypeOK
  BY Bounds DEF IInv, Typed, TypeOK, Watches
<1> QED BY <1>1, Invariance, PTL

(* DoneWaiting uses neither a watcher nor a loop that is gone, and no wait *)
(* is registered that StopWatching or the loop would forget.               *)
THEOREM NothingGoneCorrect == Spec => []NothingGone
<1>1. IInv => NothingGone
  BY DEF IInv, WatchInv, Watching, PoolInv, NothingGone, WaitIsKnown
<1> QED BY <1>1, Invariance, PTL

(* Only the callback of the latest watch can still call the delegate.      *)
THEOREM PostsTheLatestCorrect == Spec => []PostsTheLatest
<1>1. IInv => PostsTheLatest
  <2> SUFFICES ASSUME IInv, NEW k \in 1..Len(queue), queue[k] \notin {Task} \cup 1..cancelled
               PROVE  queue[k] = latest
    BY DEF PostsTheLatest
  <2>1. queue[k] \in Nat /\ cancelled \in Nat
    BY QueueOfNumbers DEF IInv, Typed
  <2>2. queue[k] > cancelled
    BY <2>1 DEF Task
  <2> QED BY <2>2 DEF IInv, QueueInv
<1> QED BY <1>1, Invariance, PTL

(* A delegate is called once for a watch, with its object, and not after a *)
(* stop.                                                                   *)
THEOREM ToldOnceCorrect == Spec => []ToldOnce
<1>1. IInv => ToldOnce
  BY DEF IInv
<1> QED BY <1>1, Invariance, PTL
=============================================================================
