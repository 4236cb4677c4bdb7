----------------------- MODULE FrameworkThread_proofs -----------------------
(***************************************************************************)
(* FrameworkThread's safety for every set of tasks and clients and any     *)
(* number of restarts, of an object that is used in one way only: its loop *)
(* runs on a thread of its own, or on the caller's.                        *)
(***************************************************************************)
EXTENDS FrameworkThread, TLAPS

(* What the thread's position says of the loop.                             *)
ThreadInv ==
    /\ threadId <=> pc \notin {"none", "begin"}
    /\ pc \in {"none", "begin", "exit"} => messageLoop = 0
    /\ pc \notin {"none", "begin", "exit"} => messageLoop = loops /\ loops # 0
    /\ target = IF pc \in {"init", "run", "idle", "cleanup", "detach"} THEN loops ELSE 0
    /\ pc = "begin" => loops < MaxStarts
    /\ pc \in {"none", "begin", "clear", "exit"} => queue = << >>
    /\ pc \in {"none", "begin", "detach", "clear", "exit"} => delayed = {}

(* Where the thread may be while the controller is in a method.             *)
ControlInv ==
    /\ controller = "wait" => /\ ~ started /\ ~ stopping /\ handle /\ ~ hosted
                              /\ pc \in {"begin", "init", "run", "idle"}
                              /\ event => pc \in {"run", "idle"}
    /\ controller = "host" => started /\ ~ handle /\ hosted /\ pc # "none"
    /\ controller \in {"post", "post then close"} =>
            started /\ stopping /\ handle /\ pc \in {"run", "idle"}
    /\ controller = "close" => started /\ stopping /\ (~ handle => pc = "none")
    /\ controller = "idle" /\ started =>
            /\ ~ handle => pc = "none" /\ stopping
            /\ ~ stopping => pc \in {"run", "idle"}
    /\ controller = "idle" /\ ~ started => pc = "none" /\ ~ handle /\ ~ stopping
    /\ pc \in {"begin", "init"} => controller \in {"wait", "host"} /\ ~ stopping
    /\ event => controller = "wait" \/ hosted

Ending == pc \in {"cleanup", "detach", "clear", "exit"}
Leaving == (pc \in {"init", "run", "idle"} /\ quit) \/ Ending

(* The loop comes to its end only when it was told to: once, and by a task  *)
(* that is no longer in the queue when quit_received is set.                *)
QuitInv ==
    Leaving \/ DoStopSoon \in Elements(queue)
        => stopping /\ controller \notin {"post", "post then close"}

(* A task is in one place, and there once.                                  *)
PlaceInv ==
    /\ posted = (Elements(queue) \cap Tasks) \cup delayed \cup ran \cup dropped
    /\ Elements(queue) \cap delayed = {}
    /\ Elements(queue) \cap ran = {} /\ Elements(queue) \cap dropped = {}
    /\ delayed \cap ran = {} /\ delayed \cap dropped = {} /\ ran \cap dropped = {}
    /\ \A i, j \in DOMAIN queue : queue[i] = queue[j] /\ queue[i] \in Tasks => i = j

(* t is in the queue, before every DoStopSoon.                              *)
Ahead(t) == \E i \in DOMAIN queue :
                /\ queue[i] = t
                /\ \A j \in DOMAIN queue : queue[j] = DoStopSoon => i < j

(* What is owed has run, or waits ahead of the task that ends the loop.     *)
OwedInv ==
    /\ \A t \in owed : t \in ran \/ Ahead(t)
    /\ Leaving => owed \subseteq ran

(* TypeOK in three parts.                                                   *)
MemberTypes ==
    /\ controller \in {"idle", "wait", "host", "post", "post then close", "close"}
    /\ started \in BOOLEAN /\ stopping \in BOOLEAN /\ handle \in BOOLEAN
    /\ event \in BOOLEAN /\ threadId \in BOOLEAN
    /\ pc \in {"none", "begin", "init", "run", "idle", "cleanup", "detach",
               "clear", "exit"}
    /\ quit \in BOOLEAN /\ hosted \in BOOLEAN

LoopTypes ==
    /\ loops \in 0..MaxStarts
    /\ messageLoop \in {0, loops} /\ target \in {0, loops}
    /\ proxy \in [Clients -> 0..loops]

TaskTypes ==
    /\ queue \in Seq(Tasks \cup {DoStopSoon})
    /\ delayed \subseteq Delayed
    /\ posted \subseteq Tasks /\ ran \subseteq Tasks /\ dropped \subseteq Tasks
    /\ owed \subseteq Plain

IInv == TypeOK /\ ThreadInv /\ ControlInv /\ QuitInv /\ PlaceInv /\ OwedInv

-----------------------------------------------------------------------------
(* Facts about Elements.                                                    *)

LEMMA ElementsAppend ==
    ASSUME NEW S, NEW q \in Seq(S), NEW x \in S
    PROVE  Elements(Append(q, x)) = Elements(q) \cup {x}
<1>1. \A i \in DOMAIN q : i \in DOMAIN Append(q, x) /\ Append(q, x)[i] = q[i]
  OBVIOUS
<1>2. Len(q) + 1 \in DOMAIN Append(q, x) /\ Append(q, x)[Len(q) + 1] = x
  OBVIOUS
<1>3. \A i \in DOMAIN Append(q, x) : i \in DOMAIN q \/ i = Len(q) + 1
  OBVIOUS
<1> QED
  BY <1>1, <1>2, <1>3 DEF Elements

LEMMA ElementsTail ==
    ASSUME NEW S, NEW q \in Seq(S), q # << >>
    PROVE  /\ Elements(q) = {Head(q)} \cup Elements(Tail(q))
           /\ Elements(q) \subseteq S
<1>1. \A i \in DOMAIN q : i = 1 \/ (i - 1 \in DOMAIN Tail(q) /\ Tail(q)[i - 1] = q[i])
  OBVIOUS
<1>2. \A i \in DOMAIN Tail(q) : i + 1 \in DOMAIN q /\ q[i + 1] = Tail(q)[i]
  OBVIOUS
<1>3. 1 \in DOMAIN q /\ q[1] = Head(q)
  OBVIOUS
<1>4. Elements(q) \subseteq S
  BY DEF Elements
<1>5. Elements(q) \subseteq {Head(q)} \cup Elements(Tail(q))
  BY <1>1, <1>3 DEF Elements
<1>6. {Head(q)} \cup Elements(Tail(q)) \subseteq Elements(q)
  BY <1>2, <1>3 DEF Elements
<1> QED
  BY <1>4, <1>5, <1>6

LEMMA LoopsBound == TypeOK => loops \in Nat /\ loops <= MaxStarts
<1>1. TypeOK => loops \in 0..MaxStarts
  BY DEF TypeOK
<1> QED
  BY <1>1, BoundsAssumption

LEMMA LoopCreated == TypeOK /\ CreateLoop => loops' = loops + 1 /\ loops' # 0
<1>1. CreateLoop => loops' = loops + 1
  BY DEF CreateLoop
<1> QED
  BY <1>1, LoopsBound

LEMMA TypeParts == TypeOK <=> MemberTypes /\ LoopTypes /\ TaskTypes
  BY Zenon DEF TypeOK, MemberTypes, LoopTypes, TaskTypes

LEMMA PushElements ==
    ASSUME TaskTypes, NEW x \in Tasks \cup {DoStopSoon}, Push(x)
    PROVE  Elements(queue') = Elements(queue) \cup {x} /\ Elements(queue) \subseteq Tasks \cup {DoStopSoon}
<1>1. queue \in Seq(Tasks \cup {DoStopSoon}) /\ queue' = Append(queue, x)
  BY DEF TaskTypes, Push
<1>2. Elements(queue) \subseteq Tasks \cup {DoStopSoon}
  BY <1>1 DEF Elements
<1> QED
  BY <1>1, <1>2, ElementsAppend

LEMMA PopElements ==
    ASSUME TaskTypes, queue # << >>, queue' = Tail(queue)
    PROVE  /\ Elements(queue) = {Head(queue)} \cup Elements(queue')
           /\ Elements(queue) \subseteq Tasks \cup {DoStopSoon}
<1>1. queue \in Seq(Tasks \cup {DoStopSoon})
  BY DEF TaskTypes
<1> QED
  BY <1>1, ElementsTail

LEMMA ElementsEmpty == Elements(<< >>) = {}
  BY DEF Elements

-----------------------------------------------------------------------------
LEMMA ThreadNext == IInv /\ ~ MixedUse /\ [Next]_vars => ThreadInv'
<1> SUFFICES ASSUME TypeOK, ThreadInv, ControlInv, ~ MixedUse, [Next]_vars PROVE ThreadInv'
  BY DEF IInv
<1> USE TasksAssumption, BoundsAssumption DEF TypeOK, ThreadInv, ControlInv
<1>1. CASE Start
  BY <1>1 DEF Start, objectVars, loopVars, historyVars
<1>2. CASE StartReturns
  BY <1>2 DEF StartReturns, objectVars, loopVars, historyVars
<1>3. CASE RunOnCurrentThreadWithLoop
  BY <1>3 DEF RunOnCurrentThreadWithLoop, objectVars, loopVars, historyVars
<1>4. ASSUME NEW t \in Tasks, PostFromController(t) PROVE ThreadInv'
  BY <1>4 DEF PostFromController, Push, objectVars, loopVars, historyVars
<1>5. CASE StopSoon
  BY <1>5 DEF StopSoon, BeginStopSoon, objectVars, loopVars, historyVars
<1>6. CASE Stop
  BY <1>6 DEF Stop, BeginStopSoon, objectVars, loopVars, historyVars
<1>7. CASE PostDoStopSoon
  BY <1>7 DEF PostDoStopSoon, Push, Owe, objectVars, loopVars, historyVars
<1>8. CASE StopSoonFromTask
  BY <1>8 DEF StopSoonFromTask, Push, Owe, objectVars, loopVars, historyVars
<1>9. CASE Close
  BY <1>9 DEF Close, objectVars, loopVars, historyVars
<1>10. CASE CreateLoop
  <2>2. loops' = loops + 1 /\ loops' # 0
    BY <1>10, LoopCreated
  <2> QED
    BY <1>10, <2>2 DEF CreateLoop, objectVars, loopVars, historyVars
<1>11. CASE SignalStarted
  BY <1>11 DEF SignalStarted, objectVars, loopVars, historyVars
<1>12. CASE RunTask
  BY <1>12 DEF RunTask, objectVars, loopVars, historyVars
<1>13. ASSUME NEW t \in Tasks, RunDelayedTask(t) PROVE ThreadInv'
  BY <1>13 DEF RunDelayedTask, objectVars, loopVars, historyVars
<1>14. CASE EndDoWork
  BY <1>14 DEF EndDoWork, objectVars, loopVars, historyVars
<1>15. CASE DoIdleWork
  BY <1>15 DEF DoIdleWork, objectVars, loopVars, historyVars
<1>16. CASE DeletePendingTasks
  BY <1>16 DEF DeletePendingTasks, Drop, objectVars, loopVars, historyVars
<1>17. CASE WillDestroyCurrentMessageLoop
  BY <1>17 DEF WillDestroyCurrentMessageLoop, Drop, objectVars, loopVars, historyVars
<1>18. CASE ClearMessageLoop
  BY <1>18 DEF ClearMessageLoop, objectVars, loopVars, historyVars
<1>19. CASE Exit
  BY <1>19 DEF Exit, objectVars, loopVars, historyVars
<1>20. ASSUME NEW c \in Clients, GetProxy(c) PROVE ThreadInv'
  BY <1>20 DEF GetProxy, objectVars, loopVars, historyVars
<1>21. ASSUME NEW c \in Clients, NEW t \in Tasks, PostTaskHelper(c, t) PROVE ThreadInv'
  BY <1>21 DEF PostTaskHelper, Push, objectVars, loopVars, historyVars
<1>22. CASE UNCHANGED vars
  BY <1>22 DEF vars, objectVars, loopVars, historyVars
<1> QED
  BY <1>1, <1>2, <1>3, <1>4, <1>5, <1>6, <1>7, <1>8, <1>9, <1>10, <1>11, <1>12, <1>13, <1>14, <1>15, <1>16, <1>17, <1>18, <1>19, <1>20, <1>21, <1>22 DEF Next, ControllerStep, ThreadStep, ClientStep

LEMMA ControlNext == IInv /\ ~ MixedUse /\ [Next]_vars => ControlInv'
<1> SUFFICES ASSUME TypeOK, ThreadInv, ControlInv, QuitInv, ~ MixedUse, [Next]_vars PROVE ControlInv'
  BY DEF IInv
<1> USE TasksAssumption, BoundsAssumption DEF TypeOK, ThreadInv, ControlInv, QuitInv, Leaving, Ending
<1>1. CASE Start
  BY <1>1 DEF Start, objectVars, loopVars, historyVars
<1>2. CASE StartReturns
  BY <1>2 DEF StartReturns, objectVars, loopVars, historyVars
<1>3. CASE RunOnCurrentThreadWithLoop
  BY <1>3 DEF RunOnCurrentThreadWithLoop, objectVars, loopVars, historyVars
<1>4. ASSUME NEW t \in Tasks, PostFromController(t) PROVE ControlInv'
  BY <1>4 DEF PostFromController, Push, objectVars, loopVars, historyVars
<1>5. CASE StopSoon
  <2>1. CASE stopping \/ messageLoop = 0
    <3>1. controller' = "idle" /\ UNCHANGED <<stopping, started, handle, hosted, pc, event>>
      BY <1>5, <2>1 DEF StopSoon, BeginStopSoon, objectVars, historyVars
    <3>2. controller = "idle"
      BY <1>5 DEF StopSoon
    <3> QED
      BY <2>1, <3>1, <3>2
  <2>2. CASE ~ stopping /\ messageLoop # 0
    <3>1. controller = "idle" /\ started /\ handle /\ pc \in {"run", "idle"}
      BY <1>5, <2>2 DEF StopSoon
    <3> QED
      BY <1>5, <2>2, <3>1 DEF StopSoon, BeginStopSoon, objectVars, loopVars, historyVars
  <2> QED
    BY <2>1, <2>2
<1>6. CASE Stop
  <2>1. CASE stopping \/ messageLoop = 0
    <3>1. controller' = "close" /\ UNCHANGED <<stopping, started, handle, hosted, pc, event>>
      BY <1>6, <2>1 DEF Stop, BeginStopSoon, objectVars, historyVars
    <3>2. controller = "idle" /\ started
      BY <1>6 DEF Stop
    <3> QED
      BY <2>1, <3>1, <3>2
  <2>2. CASE ~ stopping /\ messageLoop # 0
    <3>1. controller = "idle" /\ started /\ handle /\ pc \in {"run", "idle"}
      BY <1>6, <2>2 DEF Stop
    <3> QED
      BY <1>6, <2>2, <3>1 DEF Stop, BeginStopSoon, objectVars, loopVars, historyVars
  <2> QED
    BY <2>1, <2>2
<1>7. CASE PostDoStopSoon
  BY <1>7 DEF PostDoStopSoon, Push, Owe, objectVars, loopVars, historyVars
<1>8. CASE StopSoonFromTask
  BY <1>8 DEF StopSoonFromTask, Push, Owe, objectVars, loopVars, historyVars
<1>9. CASE Close
  BY <1>9 DEF Close, objectVars, loopVars, historyVars
<1>10. CASE CreateLoop
  BY <1>10 DEF CreateLoop, objectVars, loopVars, historyVars
<1>11. CASE SignalStarted
  BY <1>11 DEF SignalStarted, objectVars, loopVars, historyVars
<1>12. CASE RunTask
  BY <1>12 DEF RunTask, objectVars, loopVars, historyVars
<1>13. ASSUME NEW t \in Tasks, RunDelayedTask(t) PROVE ControlInv'
  BY <1>13 DEF RunDelayedTask, objectVars, loopVars, historyVars
<1>14. CASE EndDoWork
  BY <1>14 DEF EndDoWork, objectVars, loopVars, historyVars
<1>15. CASE DoIdleWork
  BY <1>15 DEF DoIdleWork, objectVars, loopVars, historyVars
<1>16. CASE DeletePendingTasks
  BY <1>16 DEF DeletePendingTasks, Drop, objectVars, loopVars, historyVars
<1>17. CASE WillDestroyCurrentMessageLoop
  BY <1>17 DEF WillDestroyCurrentMessageLoop, Drop, objectVars, loopVars, historyVars
<1>18. CASE ClearMessageLoop
  BY <1>18 DEF ClearMessageLoop, objectVars, loopVars, historyVars
<1>19. CASE Exit
  BY <1>19 DEF Exit, objectVars, loopVars, historyVars
<1>20. ASSUME NEW c \in Clients, GetProxy(c) PROVE ControlInv'
  BY <1>20 DEF GetProxy, objectVars, loopVars, historyVars
<1>21. ASSUME NEW c \in Clients, NEW t \in Tasks, PostTaskHelper(c, t) PROVE ControlInv'
  BY <1>21 DEF PostTaskHelper, Push, objectVars, loopVars, historyVars
<1>22. CASE UNCHANGED vars
  BY <1>22 DEF vars, objectVars, loopVars, historyVars
<1> QED
  BY <1>1, <1>2, <1>3, <1>4, <1>5, <1>6, <1>7, <1>8, <1>9, <1>10, <1>11, <1>12, <1>13, <1>14, <1>15, <1>16, <1>17, <1>18, <1>19, <1>20, <1>21, <1>22 DEF Next, ControllerStep, ThreadStep, ClientStep

LEMMA MemberTypesNext == IInv /\ ~ MixedUse /\ [Next]_vars => MemberTypes'
<1> SUFFICES ASSUME MemberTypes, ~ MixedUse, [Next]_vars PROVE MemberTypes'
  BY TypeParts DEF IInv
<1> USE TasksAssumption, BoundsAssumption DEF MemberTypes
<1>1. CASE Start
  BY <1>1 DEF Start, objectVars, loopVars, historyVars
<1>2. CASE StartReturns
  BY <1>2 DEF StartReturns, objectVars, loopVars, historyVars
<1>3. CASE RunOnCurrentThreadWithLoop
  BY <1>3 DEF RunOnCurrentThreadWithLoop, objectVars, loopVars, historyVars
<1>4. ASSUME NEW t \in Tasks, PostFromController(t) PROVE MemberTypes'
  BY <1>4 DEF PostFromController, Push, objectVars, loopVars, historyVars
<1>5. CASE StopSoon
  BY <1>5 DEF StopSoon, BeginStopSoon, objectVars, loopVars, historyVars
<1>6. CASE Stop
  BY <1>6 DEF Stop, BeginStopSoon, objectVars, loopVars, historyVars
<1>7. CASE PostDoStopSoon
  BY <1>7 DEF PostDoStopSoon, Push, Owe, objectVars, loopVars, historyVars
<1>8. CASE StopSoonFromTask
  BY <1>8 DEF StopSoonFromTask, Push, Owe, objectVars, loopVars, historyVars
<1>9. CASE Close
  BY <1>9 DEF Close, objectVars, loopVars, historyVars
<1>10. CASE CreateLoop
  BY <1>10 DEF CreateLoop, objectVars, loopVars, historyVars
<1>11. CASE SignalStarted
  BY <1>11 DEF SignalStarted, objectVars, loopVars, historyVars
<1>12. CASE RunTask
  BY <1>12 DEF RunTask, objectVars, loopVars, historyVars
<1>13. ASSUME NEW t \in Tasks, RunDelayedTask(t) PROVE MemberTypes'
  BY <1>13 DEF RunDelayedTask, objectVars, loopVars, historyVars
<1>14. CASE EndDoWork
  BY <1>14 DEF EndDoWork, objectVars, loopVars, historyVars
<1>15. CASE DoIdleWork
  BY <1>15 DEF DoIdleWork, objectVars, loopVars, historyVars
<1>16. CASE DeletePendingTasks
  BY <1>16 DEF DeletePendingTasks, Drop, objectVars, loopVars, historyVars
<1>17. CASE WillDestroyCurrentMessageLoop
  BY <1>17 DEF WillDestroyCurrentMessageLoop, Drop, objectVars, loopVars, historyVars
<1>18. CASE ClearMessageLoop
  BY <1>18 DEF ClearMessageLoop, objectVars, loopVars, historyVars
<1>19. CASE Exit
  BY <1>19 DEF Exit, objectVars, loopVars, historyVars
<1>20. ASSUME NEW c \in Clients, GetProxy(c) PROVE MemberTypes'
  BY <1>20 DEF GetProxy, objectVars, loopVars, historyVars
<1>21. ASSUME NEW c \in Clients, NEW t \in Tasks, PostTaskHelper(c, t) PROVE MemberTypes'
  BY <1>21 DEF PostTaskHelper, Push, objectVars, loopVars, historyVars
<1>22. CASE UNCHANGED vars
  BY <1>22 DEF vars, objectVars, loopVars, historyVars
<1> QED
  BY <1>1, <1>2, <1>3, <1>4, <1>5, <1>6, <1>7, <1>8, <1>9, <1>10, <1>11, <1>12, <1>13, <1>14, <1>15, <1>16, <1>17, <1>18, <1>19, <1>20, <1>21, <1>22 DEF Next, ControllerStep, ThreadStep, ClientStep

LEMMA LoopTypesNext == IInv /\ ~ MixedUse /\ [Next]_vars => LoopTypes'
<1> SUFFICES ASSUME LoopTypes, TypeOK, ThreadInv, ~ MixedUse, [Next]_vars PROVE LoopTypes'
  BY TypeParts DEF IInv
<1> USE TasksAssumption, BoundsAssumption DEF LoopTypes, ThreadInv
<1>1. CASE Start
  BY <1>1 DEF Start, objectVars, loopVars, historyVars
<1>2. CASE StartReturns
  BY <1>2 DEF StartReturns, objectVars, loopVars, historyVars
<1>3. CASE RunOnCurrentThreadWithLoop
  BY <1>3 DEF RunOnCurrentThreadWithLoop, objectVars, loopVars, historyVars
<1>4. ASSUME NEW t \in Tasks, PostFromController(t) PROVE LoopTypes'
  BY <1>4 DEF PostFromController, Push, objectVars, loopVars, historyVars
<1>5. CASE StopSoon
  BY <1>5 DEF StopSoon, BeginStopSoon, objectVars, loopVars, historyVars
<1>6. CASE Stop
  BY <1>6 DEF Stop, BeginStopSoon, objectVars, loopVars, historyVars
<1>7. CASE PostDoStopSoon
  BY <1>7 DEF PostDoStopSoon, Push, Owe, objectVars, loopVars, historyVars
<1>8. CASE StopSoonFromTask
  BY <1>8 DEF StopSoonFromTask, Push, Owe, objectVars, loopVars, historyVars
<1>9. CASE Close
  BY <1>9 DEF Close, objectVars, loopVars, historyVars
<1>10. CASE CreateLoop
  <2>1. loops' = loops + 1 /\ loops \in Nat /\ loops < MaxStarts
    BY <1>10, LoopCreated, LoopsBound DEF CreateLoop
  <2> QED
    BY <1>10, <2>1 DEF CreateLoop, objectVars, loopVars, historyVars
<1>11. CASE SignalStarted
  BY <1>11 DEF SignalStarted, objectVars, loopVars, historyVars
<1>12. CASE RunTask
  BY <1>12 DEF RunTask, objectVars, loopVars, historyVars
<1>13. ASSUME NEW t \in Tasks, RunDelayedTask(t) PROVE LoopTypes'
  BY <1>13 DEF RunDelayedTask, objectVars, loopVars, historyVars
<1>14. CASE EndDoWork
  BY <1>14 DEF EndDoWork, objectVars, loopVars, historyVars
<1>15. CASE DoIdleWork
  BY <1>15 DEF DoIdleWork, objectVars, loopVars, historyVars
<1>16. CASE DeletePendingTasks
  BY <1>16 DEF DeletePendingTasks, Drop, objectVars, loopVars, historyVars
<1>17. CASE WillDestroyCurrentMessageLoop
  BY <1>17 DEF WillDestroyCurrentMessageLoop, Drop, objectVars, loopVars, historyVars
<1>18. CASE ClearMessageLoop
  BY <1>18 DEF ClearMessageLoop, objectVars, loopVars, historyVars
<1>19. CASE Exit
  BY <1>19 DEF Exit, objectVars, loopVars, historyVars
<1>20. ASSUME NEW c \in Clients, GetProxy(c) PROVE LoopTypes'
  BY <1>20 DEF GetProxy, objectVars, loopVars, historyVars
<1>21. ASSUME NEW c \in Clients, NEW t \in Tasks, PostTaskHelper(c, t) PROVE LoopTypes'
  BY <1>21 DEF PostTaskHelper, Push, objectVars, loopVars, historyVars
<1>22. CASE UNCHANGED vars
  BY <1>22 DEF vars, objectVars, loopVars, historyVars
<1> QED
  BY <1>1, <1>2, <1>3, <1>4, <1>5, <1>6, <1>7, <1>8, <1>9, <1>10, <1>11, <1>12, <1>13, <1>14, <1>15, <1>16, <1>17, <1>18, <1>19, <1>20, <1>21, <1>22 DEF Next, ControllerStep, ThreadStep, ClientStep

LEMMA TaskTypesNext == IInv /\ ~ MixedUse /\ [Next]_vars => TaskTypes'
<1> SUFFICES ASSUME TaskTypes, ~ MixedUse, [Next]_vars PROVE TaskTypes'
  BY TypeParts DEF IInv
<1> USE TasksAssumption, BoundsAssumption DEF TaskTypes, Plain
<1>1. CASE Start
  BY <1>1 DEF Start, objectVars, loopVars, historyVars
<1>2. CASE StartReturns
  BY <1>2 DEF StartReturns, objectVars, loopVars, historyVars
<1>3. CASE RunOnCurrentThreadWithLoop
  BY <1>3 DEF RunOnCurrentThreadWithLoop, objectVars, loopVars, historyVars
<1>4. ASSUME NEW t \in Tasks, PostFromController(t) PROVE TaskTypes'
  BY <1>4 DEF PostFromController, Push, objectVars, loopVars, historyVars
<1>5. CASE StopSoon
  BY <1>5 DEF StopSoon, BeginStopSoon, objectVars, loopVars, historyVars
<1>6. CASE Stop
  BY <1>6 DEF Stop, BeginStopSoon, objectVars, loopVars, historyVars
<1>7. CASE PostDoStopSoon
  <2>1. queue' \in Seq(Tasks \cup {DoStopSoon})
    <3>1. queue \in Seq(Tasks \cup {DoStopSoon}) /\ queue' = Append(queue, DoStopSoon)
      BY <1>7 DEF PostDoStopSoon, Push
    <3> QED
      BY <3>1
  <2> QED
    BY <1>7, <2>1 DEF PostDoStopSoon, Owe, objectVars, loopVars, historyVars
<1>8. CASE StopSoonFromTask
  BY <1>8, PushElements DEF StopSoonFromTask, Push, Owe, objectVars, loopVars, historyVars
<1>9. CASE Close
  BY <1>9 DEF Close, objectVars, loopVars, historyVars
<1>10. CASE CreateLoop
  BY <1>10 DEF CreateLoop, objectVars, loopVars, historyVars
<1>11. CASE SignalStarted
  BY <1>11 DEF SignalStarted, objectVars, loopVars, historyVars
<1>12. CASE RunTask
  BY <1>12, PopElements DEF RunTask, objectVars, loopVars, historyVars
<1>13. ASSUME NEW t \in Tasks, RunDelayedTask(t) PROVE TaskTypes'
  BY <1>13 DEF RunDelayedTask, objectVars, loopVars, historyVars
<1>14. CASE EndDoWork
  BY <1>14 DEF EndDoWork, objectVars, loopVars, historyVars
<1>15. CASE DoIdleWork
  BY <1>15 DEF DoIdleWork, objectVars, loopVars, historyVars
<1>16. CASE DeletePendingTasks
  BY <1>16 DEF DeletePendingTasks, Drop, objectVars, loopVars, historyVars
<1>17. CASE WillDestroyCurrentMessageLoop
  BY <1>17 DEF WillDestroyCurrentMessageLoop, Drop, objectVars, loopVars, historyVars
<1>18. CASE ClearMessageLoop
  BY <1>18 DEF ClearMessageLoop, objectVars, loopVars, historyVars
<1>19. CASE Exit
  BY <1>19 DEF Exit, objectVars, loopVars, historyVars
<1>20. ASSUME NEW c \in Clients, GetProxy(c) PROVE TaskTypes'
  BY <1>20 DEF GetProxy, objectVars, loopVars, historyVars
<1>21. ASSUME NEW c \in Clients, NEW t \in Tasks, PostTaskHelper(c, t) PROVE TaskTypes'
  BY <1>21 DEF PostTaskHelper, Push, objectVars, loopVars, historyVars
<1>22. CASE UNCHANGED vars
  BY <1>22 DEF vars, objectVars, loopVars, historyVars
<1> QED
  BY <1>1, <1>2, <1>3, <1>4, <1>5, <1>6, <1>7, <1>8, <1>9, <1>10, <1>11, <1>12, <1>13, <1>14, <1>15, <1>16, <1>17, <1>18, <1>19, <1>20, <1>21, <1>22 DEF Next, ControllerStep, ThreadStep, ClientStep

LEMMA QuitNext == IInv /\ ~ MixedUse /\ [Next]_vars => QuitInv'
<1> SUFFICES ASSUME MemberTypes, TaskTypes, ThreadInv, ControlInv, QuitInv, ~ MixedUse, [Next]_vars PROVE QuitInv'
  BY TypeParts DEF IInv
<1> USE TasksAssumption, BoundsAssumption DEF MemberTypes, ThreadInv, ControlInv, QuitInv, Leaving, Ending
<1>1. CASE Start
  BY <1>1 DEF Start, objectVars, loopVars, historyVars
<1>2. CASE StartReturns
  BY <1>2 DEF StartReturns, objectVars, loopVars, historyVars
<1>3. CASE RunOnCurrentThreadWithLoop
  BY <1>3 DEF RunOnCurrentThreadWithLoop, objectVars, loopVars, historyVars
<1>4. ASSUME NEW t \in Tasks, PostFromController(t) PROVE QuitInv'
  <2>1. Elements(queue') = Elements(queue) \cup {t}
    BY <1>4, PushElements DEF PostFromController
  <2> QED
    BY <1>4, <2>1 DEF PostFromController, objectVars, loopVars, historyVars
<1>5. CASE StopSoon
  BY <1>5 DEF StopSoon, BeginStopSoon, objectVars, loopVars, historyVars
<1>6. CASE Stop
  <2>1. CASE stopping \/ messageLoop = 0
    <3>1. controller = "idle" /\ started /\ controller' = "close"
      BY <1>6, <2>1 DEF Stop, BeginStopSoon
    <3>2. UNCHANGED <<stopping, pc, quit, queue>>
      BY <1>6, <2>1 DEF Stop, BeginStopSoon, loopVars
    <3>3. Elements(queue') = Elements(queue)
      BY <3>2
    <3> QED
      BY <3>1, <3>2, <3>3
  <2>2. CASE ~ stopping /\ messageLoop # 0
    BY <1>6, <2>2 DEF Stop, BeginStopSoon, objectVars, loopVars, historyVars
  <2> QED
    BY <2>1, <2>2
<1>7. CASE PostDoStopSoon
  BY <1>7 DEF PostDoStopSoon, Push, Owe, objectVars, loopVars, historyVars
<1>8. CASE StopSoonFromTask
  BY <1>8 DEF StopSoonFromTask, Push, Owe, objectVars, loopVars, historyVars
<1>9. CASE Close
  BY <1>9, ElementsEmpty DEF Close, objectVars, loopVars, historyVars
<1>10. CASE CreateLoop
  BY <1>10, ElementsEmpty DEF CreateLoop, objectVars, loopVars, historyVars
<1>11. CASE SignalStarted
  BY <1>11 DEF SignalStarted, objectVars, loopVars, historyVars
<1>12. CASE RunTask
  <2>1. Elements(queue) = {Head(queue)} \cup Elements(queue')
    BY <1>12, PopElements DEF RunTask
  <2> QED
    BY <1>12, <2>1 DEF RunTask, objectVars, loopVars, historyVars
<1>13. ASSUME NEW t \in Tasks, RunDelayedTask(t) PROVE QuitInv'
  BY <1>13 DEF RunDelayedTask, objectVars, loopVars, historyVars
<1>14. CASE EndDoWork
  BY <1>14 DEF EndDoWork, objectVars, loopVars, historyVars
<1>15. CASE DoIdleWork
  BY <1>15 DEF DoIdleWork, objectVars, loopVars, historyVars
<1>16. CASE DeletePendingTasks
  BY <1>16, ElementsEmpty DEF DeletePendingTasks, Drop, objectVars, loopVars, historyVars
<1>17. CASE WillDestroyCurrentMessageLoop
  BY <1>17, ElementsEmpty DEF WillDestroyCurrentMessageLoop, Drop, objectVars, loopVars, historyVars
<1>18. CASE ClearMessageLoop
  BY <1>18 DEF ClearMessageLoop, objectVars, loopVars, historyVars
<1>19. CASE Exit
  BY <1>19 DEF Exit, objectVars, loopVars, historyVars
<1>20. ASSUME NEW c \in Clients, GetProxy(c) PROVE QuitInv'
  BY <1>20 DEF GetProxy, objectVars, loopVars, historyVars
<1>21. ASSUME NEW c \in Clients, NEW t \in Tasks, PostTaskHelper(c, t) PROVE QuitInv'
  <2>1. CASE UNCHANGED queue
    BY <1>21, <2>1 DEF PostTaskHelper, objectVars, loopVars, historyVars
  <2>2. CASE Push(t)
    <3>1. Elements(queue') = Elements(queue) \cup {t}
      BY <2>2, PushElements
    <3> QED
      BY <1>21, <3>1 DEF PostTaskHelper, objectVars, loopVars, historyVars
  <2> QED
    BY <1>21, <2>1, <2>2 DEF PostTaskHelper
<1>22. CASE UNCHANGED vars
  BY <1>22 DEF vars, objectVars, loopVars, historyVars
<1> QED
  BY <1>1, <1>2, <1>3, <1>4, <1>5, <1>6, <1>7, <1>8, <1>9, <1>10, <1>11, <1>12, <1>13, <1>14, <1>15, <1>16, <1>17, <1>18, <1>19, <1>20, <1>21, <1>22 DEF Next, ControllerStep, ThreadStep, ClientStep

-----------------------------------------------------------------------------
(* The actions that leave the tasks where they are.                         *)
Elsewhere == UNCHANGED <<queue, delayed, posted, ran, dropped, owed>>

LEMMA MostActions ==
    [Next]_vars =>
        \/ Elsewhere
        \/ \E t \in Tasks : Push(t) /\ t \notin posted /\ posted' = posted \cup {t}
                            /\ UNCHANGED <<delayed, ran, dropped, owed>>
        \/ PostDoStopSoon \/ StopSoonFromTask
        \/ CreateLoop \/ RunTask \/ (\E t \in Tasks : RunDelayedTask(t))
        \/ DeletePendingTasks \/ WillDestroyCurrentMessageLoop
<1> USE DEF Elsewhere, objectVars, loopVars, historyVars
<1>1. UNCHANGED vars => Elsewhere
  BY DEF vars
<1>2. Start \/ StartReturns \/ RunOnCurrentThreadWithLoop \/ StopSoon \/ Stop \/ Close => Elsewhere
  BY DEF Start, StartReturns, RunOnCurrentThreadWithLoop, StopSoon, Stop, Close
<1>3. SignalStarted \/ EndDoWork \/ DoIdleWork \/ ClearMessageLoop \/ Exit => Elsewhere
  BY DEF SignalStarted, EndDoWork, DoIdleWork, ClearMessageLoop, Exit
<1>4. ASSUME NEW c \in Clients, GetProxy(c) PROVE Elsewhere
  BY <1>4 DEF GetProxy
<1>5. ASSUME NEW t \in Tasks, PostFromController(t)
      PROVE  Push(t) /\ t \notin posted /\ posted' = posted \cup {t}
             /\ UNCHANGED <<delayed, ran, dropped, owed>>
  BY <1>5 DEF PostFromController
<1>6. ASSUME NEW c \in Clients, NEW t \in Tasks, PostTaskHelper(c, t)
      PROVE  \/ Elsewhere
             \/ Push(t) /\ t \notin posted /\ posted' = posted \cup {t}
                /\ UNCHANGED <<delayed, ran, dropped, owed>>
  BY <1>6 DEF PostTaskHelper
<1> QED
  BY <1>1, <1>2, <1>3, <1>4, <1>5, <1>6 DEF Next, ControllerStep, ThreadStep, ClientStep

LEMMA PlaceNext == IInv /\ [Next]_vars => PlaceInv'
<1> SUFFICES ASSUME TypeOK, TaskTypes, ThreadInv, PlaceInv, [Next]_vars PROVE PlaceInv'
  BY TypeParts DEF IInv
<1> USE TasksAssumption
<1>1. CASE Elsewhere
  BY <1>1 DEF Elsewhere, PlaceInv, Elements
<1>2. ASSUME NEW t \in Tasks, Push(t), t \notin posted, posted' = posted \cup {t},
             UNCHANGED <<delayed, ran, dropped>>
      PROVE  PlaceInv'
  <2>1. Elements(queue') = Elements(queue) \cup {t}
    BY <1>2, PushElements
  <2>2. queue' = Append(queue, t) /\ queue \in Seq(Tasks \cup {DoStopSoon}) /\ t \notin Elements(queue)
    BY <1>2 DEF Push, TaskTypes, PlaceInv
  <2>3. \A i, j \in DOMAIN queue' : queue'[i] = queue'[j] /\ queue'[i] \in Tasks => i = j
    BY <2>2 DEF PlaceInv, Elements
  <2> QED
    BY <1>2, <2>1, <2>2, <2>3 DEF PlaceInv
<1>3. CASE PostDoStopSoon \/ StopSoonFromTask
  <2>1. Push(DoStopSoon) /\ UNCHANGED <<delayed, posted, ran, dropped>>
    BY <1>3 DEF PostDoStopSoon, StopSoonFromTask
  <2>2. Elements(queue') = Elements(queue) \cup {DoStopSoon}
    BY <2>1, PushElements
  <2>3. queue' = Append(queue, DoStopSoon) /\ queue \in Seq(Tasks \cup {DoStopSoon})
    BY <2>1 DEF Push, TaskTypes
  <2>4. \A i, j \in DOMAIN queue' : queue'[i] = queue'[j] /\ queue'[i] \in Tasks => i = j
    BY <2>3 DEF PlaceInv
  <2>5. DoStopSoon \notin delayed \cup ran \cup dropped
    BY DEF TaskTypes
  <2> QED
    BY <2>1, <2>2, <2>4, <2>5 DEF PlaceInv
<1>4. CASE CreateLoop
  <2>1. queue = << >> /\ delayed = {} /\ UNCHANGED <<queue, delayed, posted, ran, dropped>>
    BY <1>4 DEF CreateLoop, ThreadInv, historyVars
  <2> QED
    BY <2>1 DEF PlaceInv
<1>5. CASE RunTask
  <2>1. /\ queue # << >> /\ queue' = Tail(queue)
        /\ delayed' = delayed \cup ({Head(queue)} \cap Delayed)
        /\ ran' = ran \cup ({Head(queue)} \cap Plain)
        /\ UNCHANGED <<posted, dropped>>
    BY <1>5 DEF RunTask
  <2>2. Elements(queue) = {Head(queue)} \cup Elements(queue')
    BY <2>1, PopElements
  <2>3. queue \in Seq(Tasks \cup {DoStopSoon})
    BY DEF TaskTypes
  <2>4. /\ \A i \in DOMAIN queue' : i + 1 \in DOMAIN queue /\ queue'[i] = queue[i + 1] /\ i + 1 # 1
        /\ DOMAIN queue' \subseteq Nat
        /\ 1 \in DOMAIN queue /\ Head(queue) = queue[1]
    BY <2>1, <2>3
  <2>5. Head(queue) \in Tasks => Head(queue) \notin Elements(queue')
    BY <2>4 DEF PlaceInv, Elements
  <2>6. \A i, j \in DOMAIN queue' : queue'[i] = queue'[j] /\ queue'[i] \in Tasks => i = j
    BY <2>4 DEF PlaceInv
  <2> QED
    BY <2>1, <2>2, <2>5, <2>6 DEF PlaceInv, Plain
<1>6. ASSUME NEW t \in Tasks, RunDelayedTask(t) PROVE PlaceInv'
  BY <1>6 DEF RunDelayedTask, PlaceInv
<1>7. CASE DeletePendingTasks
  BY <1>7, ElementsEmpty DEF DeletePendingTasks, Drop, PlaceInv
<1>8. CASE WillDestroyCurrentMessageLoop
  BY <1>8, ElementsEmpty DEF WillDestroyCurrentMessageLoop, Drop, PlaceInv, ThreadInv
<1> QED
  BY MostActions, <1>1, <1>2, <1>3, <1>4, <1>5, <1>6, <1>7, <1>8

-----------------------------------------------------------------------------
(* What the end of the loop leaves undone.                                  *)
Undone == \A t \in owed : t \in ran \/ Ahead(t)

LEMMA UndoneNext == IInv /\ [Next]_vars => Undone'
<1> SUFFICES ASSUME TypeOK, TaskTypes, ThreadInv, QuitInv, PlaceInv, OwedInv, [Next]_vars
             PROVE  Undone'
  BY TypeParts DEF IInv
<1> USE TasksAssumption
<1>0. Undone /\ queue \in Seq(Tasks \cup {DoStopSoon}) /\ owed \subseteq Plain
  BY DEF Undone, OwedInv, TaskTypes
<1>1. CASE Elsewhere
  BY <1>0, <1>1 DEF Elsewhere, Undone, Ahead
<1>2. ASSUME NEW t \in Tasks, Push(t), UNCHANGED <<ran, owed>>
      PROVE  Undone'
  <2>1. queue' = Append(queue, t) /\ t # DoStopSoon
    BY <1>2 DEF Push
  <2>2. ASSUME NEW u, Ahead(u) PROVE Ahead(u)'
    BY <1>0, <2>1, <2>2 DEF Ahead
  <2> QED
    BY <1>0, <1>2, <2>2 DEF Undone
<1>3. CASE PostDoStopSoon \/ StopSoonFromTask
  <2>1. queue' = Append(queue, DoStopSoon) /\ ran' = ran /\ owed' = owed \cup (Elements(queue) \cap Plain)
    BY <1>3 DEF PostDoStopSoon, StopSoonFromTask, Push, Owe
  <2>2. ASSUME NEW u, Ahead(u) PROVE Ahead(u)'
    BY <1>0, <2>1, <2>2 DEF Ahead
  <2>3. DoStopSoon \notin Elements(queue)
    BY <1>3 DEF PostDoStopSoon, StopSoonFromTask, QuitInv
  <2>4. ASSUME NEW u \in Elements(queue) PROVE Ahead(u)'
    <3>1. PICK i \in DOMAIN queue : queue[i] = u
      BY DEF Elements
    <3>2. i \in DOMAIN queue' /\ queue'[i] = u
      BY <1>0, <2>1, <3>1
    <3>3. ASSUME NEW j \in DOMAIN queue', queue'[j] = DoStopSoon PROVE i < j
      <4>1. j \in DOMAIN queue => queue[j] = queue'[j]
        BY <1>0, <2>1
      <4>2. j \notin DOMAIN queue
        BY <2>3, <3>3, <4>1 DEF Elements
      <4> QED
        BY <1>0, <2>1, <3>1, <4>2
    <3> QED
      BY <3>2, <3>3 DEF Ahead
  <2> QED
    BY <1>0, <2>1, <2>2, <2>4 DEF Undone
<1>4. CASE CreateLoop
  <2>1. queue = << >> /\ UNCHANGED <<queue, ran, owed>>
    BY <1>4 DEF CreateLoop, ThreadInv, historyVars
  <2> QED
    BY <1>0, <2>1 DEF Undone, Ahead
<1>5. CASE RunTask
  <2>1. /\ queue # << >> /\ queue' = Tail(queue) /\ UNCHANGED owed
        /\ ran' = ran \cup ({Head(queue)} \cap Plain)
    BY <1>5 DEF RunTask
  <2>2. ASSUME NEW t \in owed, Ahead(t), t \notin ran' PROVE Ahead(t)'
    <3>1. PICK i \in DOMAIN queue :
               queue[i] = t /\ \A j \in DOMAIN queue : queue[j] = DoStopSoon => i < j
      BY <2>2 DEF Ahead
    <3>2. i # 1
      BY <1>0, <2>1, <2>2, <3>1
    <3>3. /\ i - 1 \in DOMAIN queue' /\ queue'[i - 1] = queue[i]
          /\ \A j \in DOMAIN queue' : j \in Nat /\ j + 1 \in DOMAIN queue /\ queue'[j] = queue[j + 1]
      BY <1>0, <2>1, <3>2
    <3>4. i \in Nat /\ \A j \in DOMAIN queue' : queue'[j] = DoStopSoon => i - 1 < j
      BY <1>0, <3>1, <3>3
    <3> QED
      BY <3>1, <3>3, <3>4 DEF Ahead
  <2> QED
    BY <1>0, <2>1, <2>2 DEF Undone
<1>6. ASSUME NEW t \in Tasks, RunDelayedTask(t) PROVE Undone'
  BY <1>0, <1>6 DEF RunDelayedTask, Undone, Ahead
<1>7. CASE DeletePendingTasks \/ WillDestroyCurrentMessageLoop
  <2>1. owed \subseteq ran /\ UNCHANGED <<owed, ran>>
    BY <1>7 DEF DeletePendingTasks, WillDestroyCurrentMessageLoop, OwedInv, Leaving, Ending
  <2> QED
    BY <2>1 DEF Undone
<1> QED
  BY MostActions, <1>1, <1>2, <1>3, <1>4, <1>5, <1>6, <1>7

(* A loop on its way out has nothing left that is owed: quit_received is set*)
(* by the task nothing owed was behind.                                     *)
LEMMA NothingOwedNext == IInv /\ [Next]_vars => (Leaving => owed \subseteq ran)'
<1> SUFFICES ASSUME TypeOK, MemberTypes, TaskTypes, ThreadInv, QuitInv, OwedInv,
                    [Next]_vars, Leaving'
             PROVE  (owed \subseteq ran)'
  BY TypeParts DEF IInv
<1> USE TasksAssumption DEF Leaving, Ending
<1>1. CASE ~ Leaving
  <2>1. pc = "run" /\ RunTask /\ Head(queue) = DoStopSoon
    <3> USE DEF objectVars, loopVars, historyVars
    <3>1. UNCHANGED vars => FALSE
      BY <1>1 DEF vars
    <3>2. ControllerStep => FALSE
      <4>1. Start \/ RunOnCurrentThreadWithLoop => FALSE
        BY <1>1 DEF Start, RunOnCurrentThreadWithLoop
      <4>2. StartReturns \/ Close => FALSE
        BY <1>1 DEF StartReturns, Close
      <4>3. StopSoon \/ Stop \/ PostDoStopSoon \/ StopSoonFromTask => UNCHANGED <<pc, quit>>
        BY DEF StopSoon, Stop, PostDoStopSoon, StopSoonFromTask
      <4>4. UNCHANGED <<pc, quit>> => FALSE
        BY <1>1
      <4>5. (\E t \in Tasks : PostFromController(t)) => FALSE
        BY <1>1 DEF PostFromController
      <4> QED
        BY <4>1, <4>2, <4>3, <4>4, <4>5 DEF ControllerStep
    <3>3. ClientStep => FALSE
      BY <1>1 DEF ClientStep, GetProxy, PostTaskHelper
    <3>4. CreateLoop \/ SignalStarted \/ (\E t \in Tasks : RunDelayedTask(t)) \/ EndDoWork
          \/ DoIdleWork => FALSE
      BY <1>1 DEF CreateLoop, SignalStarted, RunDelayedTask, EndDoWork, DoIdleWork
    <3>5. DeletePendingTasks \/ WillDestroyCurrentMessageLoop \/ ClearMessageLoop \/ Exit => FALSE
      BY <1>1 DEF DeletePendingTasks, WillDestroyCurrentMessageLoop, ClearMessageLoop, Exit
    <3>6. RunTask => pc = "run" /\ Head(queue) = DoStopSoon
      BY <1>1 DEF RunTask
    <3> QED
      BY <3>1, <3>2, <3>3, <3>4, <3>5, <3>6 DEF Next, ThreadStep
  <2>2. queue \in Seq(Tasks \cup {DoStopSoon}) /\ queue # << >>
    BY <2>1 DEF RunTask, TaskTypes
  <2>3. \A t \in owed : ~ Ahead(t)
    <3>1. 1 \in DOMAIN queue /\ queue[1] = DoStopSoon /\ \A i \in DOMAIN queue : ~ (i < 1)
      BY <2>1, <2>2
    <3> QED
      BY <3>1 DEF Ahead
  <2> QED
    BY <2>1, <2>3 DEF OwedInv, RunTask
<1>2. CASE Leaving
  <2>1. owed \subseteq ran
    BY <1>2 DEF OwedInv
  <2>2. ~ PostDoStopSoon /\ ~ StopSoonFromTask
    BY <1>2 DEF PostDoStopSoon, StopSoonFromTask, QuitInv
  <2>3. owed' = owed /\ ran \subseteq ran'
    <3>1. CreateLoop \/ RunTask \/ (\E t \in Tasks : RunDelayedTask(t))
          \/ DeletePendingTasks \/ WillDestroyCurrentMessageLoop => owed' = owed /\ ran \subseteq ran'
      BY DEF CreateLoop, RunTask, RunDelayedTask, DeletePendingTasks,
             WillDestroyCurrentMessageLoop, historyVars
    <3> QED
      BY <2>2, <3>1, MostActions DEF Elsewhere
  <2> QED
    BY <2>1, <2>3
<1> QED
  BY <1>1, <1>2

-----------------------------------------------------------------------------
LEMMA IInvInit == Init => IInv
<1> SUFFICES ASSUME Init PROVE IInv
  OBVIOUS
<1> USE TasksAssumption, BoundsAssumption, ElementsEmpty DEF Init
<1>1. MemberTypes /\ LoopTypes /\ TaskTypes
  <2>1. MemberTypes
    BY DEF MemberTypes
  <2>2. LoopTypes
    BY DEF LoopTypes
  <2>3. TaskTypes
    BY DEF TaskTypes
  <2> QED
    BY <2>1, <2>2, <2>3
<1>2. ThreadInv /\ ControlInv
  BY DEF ThreadInv, ControlInv
<1>3. QuitInv /\ PlaceInv /\ OwedInv
  BY DEF QuitInv, PlaceInv, OwedInv, Leaving, Ending
<1> QED
  BY <1>1, <1>2, <1>3, TypeParts DEF IInv

LEMMA IInvNext == IInv /\ ~ MixedUse /\ [Next]_vars => IInv'
<1> SUFFICES ASSUME IInv, ~ MixedUse, [Next]_vars PROVE IInv'
  OBVIOUS
<1>1. TypeOK'
  BY MemberTypesNext, LoopTypesNext, TaskTypesNext, TypeParts
     DEF TypeOK, MemberTypes, LoopTypes, TaskTypes
<1>2. ThreadInv' /\ ControlInv' /\ QuitInv' /\ PlaceInv'
  BY ThreadNext, ControlNext, QuitNext, PlaceNext
<1>3. OwedInv'
  BY UndoneNext, NothingOwedNext DEF OwedInv, Undone
<1> QED
  BY <1>1, <1>2, <1>3 DEF IInv

-----------------------------------------------------------------------------
LEMMA Inductive == ASSUME ~ MixedUse PROVE Spec => []IInv
<1>1. IInv /\ [Next]_vars => IInv'
  BY IInvNext
<1> QED
  BY IInvInit, <1>1, PTL DEF Spec

(* Every variable has its type, in every state.                             *)
THEOREM TypeCorrect == ASSUME ~ MixedUse PROVE Spec => []TypeOK
<1>1. IInv => TypeOK
  BY DEF IInv
<1> QED
  BY Inductive, <1>1, PTL

(* Start hands out a live loop, and the object keeps it until it is told to *)
(* stop.  (An object used in both ways breaks this: TLC finds it violated   *)
(* with MixedUse = TRUE, see README.md.)                                    *)
THEOREM StartedMeansReadyCorrect == ASSUME ~ MixedUse PROVE Spec => []StartedMeansReady
<1>1. IInv => StartedMeansReady
  BY DEF IInv, ThreadInv, ControlInv, StartedMeansReady
<1> QED
  BY Inductive, <1>1, PTL

(* Stop leaves no thread, no loop and no signal.                            *)
THEOREM StopResetsCorrect == ASSUME ~ MixedUse PROVE Spec => []StopResets
<1>1. IInv => StopResets
  BY DEF IInv, ThreadInv, ControlInv, StopResets
<1> QED
  BY Inductive, <1>1, PTL

(* The loop that StopSoon read is not deleted before StopSoon has posted to *)
(* it, although nothing is locked.                                          *)
THEOREM NoPostToDeletedLoopCorrect == ASSUME ~ MixedUse PROVE Spec => []NoPostToDeletedLoop
<1>1. IInv => NoPostToDeletedLoop
  BY DEF IInv, ThreadInv, ControlInv, NoPostToDeletedLoop
<1> QED
  BY Inductive, <1>1, PTL

(* What was pending when the object was told to stop is executed, not       *)
(* destroyed.                                                               *)
THEOREM StopDrainsCorrect == ASSUME ~ MixedUse PROVE Spec => []StopDrains
<1>1. IInv => StopDrains
  <2> SUFFICES ASSUME IInv, NEW t \in owed, t \in dropped PROVE FALSE
    BY DEF StopDrains
  <2>1. t \notin ran /\ t \notin Elements(queue)
    BY DEF IInv, PlaceInv
  <2>2. ~ Ahead(t)
    BY <2>1 DEF Ahead, Elements
  <2> QED
    BY <2>1, <2>2 DEF IInv, OwedInv
<1> QED
  BY Inductive, <1>1, PTL

(* No task is lost or has two fates, whatever clients post meanwhile.       *)
THEOREM TasksAccountedForCorrect == ASSUME ~ MixedUse PROVE Spec => []TasksAccountedFor
<1>1. IInv => TasksAccountedFor
  BY DEF IInv, PlaceInv, TasksAccountedFor
<1> QED
  BY Inductive, <1>1, PTL
=============================================================================
