-------------------------- MODULE ThreadManager_proofs --------------------------
(***************************************************************************)
(* ThreadManager's safety for every set of threads, identifiers and calls  *)
(* of Await, and any count a repeated task is given.                       *)
(***************************************************************************)
EXTENDS ThreadManager, TLAPS

(* TypeOK in parts.                                                         *)
MapTypes ==
    /\ threads \in [Ids -> Threads \cup {None}]
    /\ managed \in [Threads -> 0..MaxManaged]
    /\ managedId \in [Threads -> Ids \cup {None}]
    /\ mixed \subseteq Threads

LifeTypes ==
    /\ life \in [Threads -> {"none", "run", "cleanup", "deleted"}]
    /\ starts \in [Threads -> Nat]

Places == {"idle", "query", "read", "use", "post", "reply", "call", "enter",
           "callback", "return"}
CallRecord == [for   : Relays \cup {"repeat", None},
               id    : Ids \cup {None},
               found : Threads \cup {None},
               loop  : Nat]

CallTypes == pc \in [Threads -> Places] /\ call \in [Threads -> CallRecord]

RelayRecord == [at     : {"none", "posted", "ran", "reply", "freed"},
                origin : Threads \cup {None},
                home   : Nat,
                target : Threads \cup {None},
                away   : Nat,
                task   : BOOLEAN]

RelayTypes == relay \in [Relays -> RelayRecord] /\ queue \in [Threads -> Seq(Relays)]

RepeatTypes ==
    /\ repeat \in [at : Threads \cup {None}, id : Ids \cup {None}, left : Int,
                   asked : Times \cup {0}, runs : 0..MaxRuns, late : Seq(Threads)]
    /\ flag \in Threads \cup {None}
    /\ crashed \in BOOLEAN

(* A managed thread is in the map, and its loop has not been deleted.       *)
MapInv ==
    \A t \in Threads :
        /\ managed[t] > 0 => /\ managedId[t] \in Ids /\ threads[managedId[t]] = t
                             /\ life[t] \in {"run", "cleanup"}
        /\ managed[t] = 0 => managedId[t] = None

(* What a thread holds at each point of a call.                             *)
Looking == {"query", "read", "use", "post"}
Calling == {"call", "enter", "callback", "return"}

CallInv ==
    \A t \in Threads :
        /\ pc[t] \in Looking => call[t].for \in Relays \cup {"repeat"} /\ call[t].id \in Ids
        /\ pc[t] \in {"read", "use", "post"} => call[t].found \in Threads
        /\ pc[t] \in {"use", "post"} => call[t].loop <= starts[call[t].found]
        /\ pc[t] = "reply" => call[t].for \in Relays
        /\ pc[t] \in Calling \cup {"idle"} => call[t].for = None

(* A relay belongs to one call until it is posted, and to one place of one  *)
(* queue until its reply; its loops have existed.                           *)
Holding(q, x) == \E k \in DOMAIN q : q[k] = x
Once(q)       == \A j, k \in DOMAIN q : q[j] = q[k] => j = k
Waits(s, r)   == Holding(queue[s], r)

RelayOk(r) ==
    LET y == relay[r] IN
    /\ y.at = "posted" =>
          \A s \in Threads : Waits(s, r) <=> s = y.target /\ Alive(s, y.away)
    /\ y.at = "ran" =>
          \A s \in Threads : Waits(s, r) <=> s = y.origin /\ Alive(s, y.home)
    /\ y.at = "reply" => pc[y.origin] = "reply" /\ call[y.origin].for = r
    /\ y.at \in {"none", "reply", "freed"} => \A s \in Threads : ~ Waits(s, r)
    /\ y.at \in {"none", "reply", "freed"} => ~ y.task
    /\ y.at \in {"posted", "ran", "reply"} =>
          /\ y.origin \in Threads /\ y.home <= starts[y.origin]
          /\ y.target \in Threads /\ y.away <= starts[y.target]

NoCopies == \A t \in Threads : Once(queue[t])

RelayCalls ==
    /\ \A s, t \in Threads : call[s].for = call[t].for /\ call[s].for \in Relays => s = t
    /\ \A t \in Threads :
         /\ pc[t] \in Looking /\ call[t].for \in Relays => relay[call[t].for].at = "none"
         /\ pc[t] = "reply" => /\ relay[call[t].for].at = "reply"
                               /\ relay[call[t].for].origin = t

RelayInv == (\A r \in Relays : RelayOk(r)) /\ NoCopies /\ RelayCalls

(* The repeated task is in one place: a loop's delayed queue, a thread that *)
(* runs it, or a thread that is posting it again.                           *)
Posting(t) == call[t].for = "repeat"
Holds(t)   == pc[t] \in Calling \/ Posting(t)
Ahead      == repeat.at # None \/ \E t \in Threads : pc[t] \in {"call", "enter"} \/ Posting(t)

TokenInv ==
    /\ \A s, t \in Threads : Holds(s) /\ Holds(t) => s = t
    /\ repeat.at # None => \A t \in Threads : ~ Holds(t)
    /\ repeat.id = None => /\ repeat.at = None /\ flag = None /\ repeat.late = << >>
                           /\ repeat.asked = 0 /\ repeat.runs = 0
                           /\ \A t \in Threads : ~ Holds(t)
    /\ repeat.asked >= 1 =>
         /\ repeat.left >= 1 /\ repeat.left <= repeat.asked
         /\ repeat.runs <= repeat.asked - repeat.left + 1
         /\ Ahead => repeat.runs <= repeat.asked - repeat.left
    /\ flag # None => pc[flag] \notin {"call", "enter"}
    /\ repeat.late # << >> => flag # None /\ ~ Ahead

IInv == TypeOK /\ MapInv /\ CallInv /\ RegistryExact /\ RelayInv /\ TokenInv /\ CancelStops

LEMMA Parts == IInv => MapTypes /\ LifeTypes /\ CallTypes /\ RelayTypes /\ RepeatTypes
<1> SUFFICES ASSUME TypeOK PROVE MapTypes /\ LifeTypes /\ CallTypes /\ RelayTypes /\ RepeatTypes
  BY DEF IInv
<1>1. MapTypes /\ LifeTypes
  BY DEF TypeOK, MapTypes, LifeTypes
<1>2. CallTypes
  BY DEF TypeOK, CallTypes, Places, CallRecord
<1>3. RelayTypes
  BY DEF TypeOK, RelayTypes, RelayRecord
<1>4. RepeatTypes
  BY DEF TypeOK, RepeatTypes
<1> QED
  BY <1>1, <1>2, <1>3, <1>4

-----------------------------------------------------------------------------
(* The actions by what they change.                                         *)
LEMMA MapActions ==
    Next => \/ UNCHANGED mapVars
            \/ \E t \in Threads : UnregisterThread(t) \/ \E i \in Ids : RegisterThread(t, i)
<1> SUFFICES ASSUME NEW t \in Threads,
                    InCall(t) \/ RunQueued(t) \/ RunRepeatedly(t) \/ Closures(t) \/ Life(t)
             PROVE  \/ UNCHANGED mapVars
                    \/ UnregisterThread(t) \/ \E i \in Ids : RegisterThread(t, i)
  BY DEF Next
<1>1. InCall(t) => UNCHANGED mapVars
  BY DEF InCall, QueryThreadInternal, ReadMessageLoop, ReadProxy, PostTaskAndReply, EndReply,
         PostClosure, TestFlag, EnterCallback, LeaveCallback, PostAgain
<1>2. RunQueued(t) \/ RunRepeatedly(t) \/ Life(t) => UNCHANGED mapVars
  BY DEF RunQueued, RunRelay, BeginReply, RunRepeatedly, Life, Start, Quit, DeleteLoop, Exit
<1>3. Closures(t) => \/ UNCHANGED mapVars
                     \/ UnregisterThread(t) \/ \E i \in Ids : RegisterThread(t, i)
  BY DEF Closures, Await, PostRepeatedTask, Cancel
<1> QED
  BY <1>1, <1>2, <1>3

LEMMA LifeActions == Next => UNCHANGED threadVars \/ \E t \in Threads : Life(t)
<1> SUFFICES ASSUME NEW t \in Threads,
                    InCall(t) \/ RunQueued(t) \/ RunRepeatedly(t) \/ Closures(t) \/ Life(t)
             PROVE  UNCHANGED threadVars \/ Life(t)
  BY DEF Next
<1>1. InCall(t) => UNCHANGED threadVars
  BY DEF InCall, QueryThreadInternal, ReadMessageLoop, ReadProxy, PostTaskAndReply, EndReply,
         PostClosure, TestFlag, EnterCallback, LeaveCallback, PostAgain
<1>2. RunQueued(t) \/ RunRepeatedly(t) => UNCHANGED threadVars
  BY DEF RunQueued, RunRelay, BeginReply, RunRepeatedly
<1>3. Closures(t) => UNCHANGED threadVars
  BY DEF Closures, RegisterThread, UnregisterThread, Await, PostRepeatedTask, Cancel
<1> QED
  BY <1>1, <1>2, <1>3

LEMMA RelayActions ==
    Next => \/ UNCHANGED <<relay, queue>>
            \/ \E t \in Threads : \/ DeleteLoop(t) \/ PostTaskAndReply(t) \/ RunRelay(t)
                                  \/ BeginReply(t) \/ EndReply(t)
<1> SUFFICES ASSUME NEW t \in Threads,
                    InCall(t) \/ RunQueued(t) \/ RunRepeatedly(t) \/ Closures(t) \/ Life(t)
             PROVE  \/ UNCHANGED <<relay, queue>>
                    \/ DeleteLoop(t) \/ PostTaskAndReply(t) \/ RunRelay(t)
                    \/ BeginReply(t) \/ EndReply(t)
  BY DEF Next
<1>1. InCall(t) => UNCHANGED <<relay, queue>> \/ PostTaskAndReply(t) \/ EndReply(t)
  BY DEF InCall, QueryThreadInternal, ReadMessageLoop, ReadProxy, PostClosure, TestFlag,
         EnterCallback, LeaveCallback, PostAgain
<1>2. RunQueued(t) => RunRelay(t) \/ BeginReply(t)
  BY DEF RunQueued
<1>3. RunRepeatedly(t) => UNCHANGED <<relay, queue>>
  BY DEF RunRepeatedly
<1>4. Life(t) => UNCHANGED <<relay, queue>> \/ DeleteLoop(t)
  BY DEF Life, Start, Quit, Exit
<1>5. Closures(t) => UNCHANGED <<relay, queue>>
  BY DEF Closures, RegisterThread, UnregisterThread, Await, PostRepeatedTask, Cancel
<1> QED
  BY <1>1, <1>2, <1>3, <1>4, <1>5

LEMMA CallActions ==
    Next => \/ UNCHANGED <<pc, call>>
            \/ \E t \in Threads :
                 \/ InCall(t) \/ BeginReply(t) \/ RunRepeatedly(t)
                 \/ \E r \in Relays, i \in Ids : Await(t, r, i)
                 \/ \E i \in Ids, n \in Times : PostRepeatedTask(t, i, n)
<1> SUFFICES ASSUME NEW t \in Threads, RunQueued(t) \/ Closures(t) \/ Life(t)
             PROVE  \/ UNCHANGED <<pc, call>> \/ BeginReply(t)
                    \/ \E r \in Relays, i \in Ids : Await(t, r, i)
                    \/ \E i \in Ids, n \in Times : PostRepeatedTask(t, i, n)
  BY DEF Next
<1>1. RunQueued(t) => UNCHANGED <<pc, call>> \/ BeginReply(t)
  BY DEF RunQueued, RunRelay
<1>2. Life(t) => UNCHANGED <<pc, call>>
  BY DEF Life, Start, Quit, DeleteLoop, Exit
<1>3. Closures(t) => \/ UNCHANGED <<pc, call>>
                     \/ \E r \in Relays, i \in Ids : Await(t, r, i)
                     \/ \E i \in Ids, n \in Times : PostRepeatedTask(t, i, n)
  BY DEF Closures, RegisterThread, UnregisterThread, Cancel
<1> QED
  BY <1>1, <1>2, <1>3

LEMMA RepeatActions ==
    Next => \/ UNCHANGED <<repeat, flag>>
            \/ \E t \in Threads :
                 \/ DeleteLoop(t) \/ PostClosure(t) \/ RunRepeatedly(t) \/ EnterCallback(t)
                 \/ PostAgain(t) \/ Cancel(t)
                 \/ \E i \in Ids, n \in Times : PostRepeatedTask(t, i, n)
<1> SUFFICES ASSUME NEW t \in Threads,
                    InCall(t) \/ RunQueued(t) \/ RunRepeatedly(t) \/ Closures(t) \/ Life(t)
             PROVE  \/ UNCHANGED <<repeat, flag>>
                    \/ DeleteLoop(t) \/ PostClosure(t) \/ RunRepeatedly(t) \/ EnterCallback(t)
                    \/ PostAgain(t) \/ Cancel(t)
                    \/ \E i \in Ids, n \in Times : PostRepeatedTask(t, i, n)
  BY DEF Next
<1>1. InCall(t) => \/ UNCHANGED <<repeat, flag>>
                   \/ PostClosure(t) \/ EnterCallback(t) \/ PostAgain(t)
  BY DEF InCall, QueryThreadInternal, ReadMessageLoop, ReadProxy, PostTaskAndReply, EndReply,
         TestFlag, LeaveCallback
<1>2. RunQueued(t) => UNCHANGED <<repeat, flag>>
  BY DEF RunQueued, RunRelay, BeginReply
<1>3. Life(t) => UNCHANGED <<repeat, flag>> \/ DeleteLoop(t)
  BY DEF Life, Start, Quit, Exit
<1>4. Closures(t) => \/ UNCHANGED <<repeat, flag>> \/ Cancel(t)
                     \/ \E i \in Ids, n \in Times : PostRepeatedTask(t, i, n)
  BY DEF Closures, RegisterThread, UnregisterThread, Await
<1> QED
  BY <1>1, <1>2, <1>3, <1>4

-----------------------------------------------------------------------------
(* The registry.                                                            *)
LEMMA LifeNext == LifeTypes /\ Next => LifeTypes'
<1>1. LifeTypes /\ UNCHANGED threadVars => LifeTypes'
  BY DEF LifeTypes, threadVars
<1>2. ASSUME LifeTypes, NEW t \in Threads, Life(t) PROVE LifeTypes'
  BY <1>2 DEF LifeTypes, Life, Start, Quit, DeleteLoop, Exit
<1> QED
  BY LifeActions, <1>1, <1>2

LEMMA MapNext ==
    ASSUME MapTypes, LifeTypes, MapInv, RegistryExact, Next
    PROVE  MapTypes' /\ MapInv' /\ RegistryExact'
<1> USE NoneAssumption, BoundsAssumption
<1>1. CASE UNCHANGED mapVars
  <2>1. UNCHANGED <<threads, managed, managedId, mixed>>
    BY <1>1 DEF mapVars
  <2>2. \A t \in Threads : managed[t] > 0 => life'[t] \in {"run", "cleanup"}
    <3>1. CASE UNCHANGED threadVars
      BY <3>1 DEF threadVars, MapInv
    <3>2. ASSUME NEW t \in Threads, Life(t)
          PROVE  \A s \in Threads : managed[s] > 0 => life'[s] \in {"run", "cleanup"}
      <4>1. \A s \in Threads : managed[s] > 0 => life[s] \in {"run", "cleanup"}
        BY DEF MapInv
      <4>2. CASE Start(t) \/ Quit(t)
        BY <4>1, <4>2 DEF Start, Quit, LifeTypes
      <4>3. CASE DeleteLoop(t)
        BY <4>1, <4>3 DEF DeleteLoop, LifeTypes
      <4>4. CASE Exit(t)
        BY <4>1, <4>4 DEF Exit, LifeTypes
      <4> QED
        BY <3>2, <4>2, <4>3, <4>4 DEF Life
    <3> QED
      BY LifeActions, <3>1, <3>2
  <2> QED
    BY <2>1, <2>2 DEF MapTypes, MapInv, RegistryExact, OneId
<1>2. ASSUME NEW t \in Threads, NEW i \in Ids, RegisterThread(t, i)
      PROVE  MapTypes' /\ MapInv' /\ RegistryExact'
  <2>1. /\ threads[i] \in {None, t} /\ managed[t] < MaxManaged /\ life[t] = "run"
        /\ threads' = [threads EXCEPT ![i] = t]
        /\ managed' = [managed EXCEPT ![t] = @ + 1]
        /\ managedId' = [managedId EXCEPT ![t] = i]
        /\ mixed' = IF managedId[t] \in {None, i} THEN mixed ELSE mixed \cup {t}
        /\ life' = life
    BY <1>2 DEF RegisterThread, Running, threadVars
  <2>2. MapTypes'
    BY <2>1 DEF MapTypes
  <2>3. MapInv'
    <3> SUFFICES ASSUME NEW s \in Threads
                 PROVE  /\ managed'[s] > 0 => /\ managedId'[s] \in Ids
                                              /\ threads'[managedId'[s]] = s
                                              /\ life'[s] \in {"run", "cleanup"}
                        /\ managed'[s] = 0 => managedId'[s] = None
      BY DEF MapInv
    <3>1. CASE s = t
      BY <2>1, <3>1 DEF MapTypes
    <3>2. CASE s # t
      <4>1. managed'[s] = managed[s] /\ managedId'[s] = managedId[s]
        BY <2>1, <3>2 DEF MapTypes
      <4>2. managed[s] > 0 => managedId[s] # i
        BY <2>1, <3>2 DEF MapInv
      <4> QED
        BY <2>1, <4>1, <4>2 DEF MapInv, MapTypes
    <3> QED
      BY <3>1, <3>2
  <2>4. RegistryExact'
    <3> SUFFICES ASSUME NEW s \in Threads, OneId(s)', NEW j \in Ids
                 PROVE  threads'[j] = s <=> managed'[s] > 0 /\ managedId'[s] = j
      BY DEF RegistryExact
    <3>1. OneId(s)
      BY <2>1 DEF OneId
    <3>2. CASE s = t
      <4>1. managedId[t] \in {None, i} /\ managed'[t] > 0 /\ managedId'[t] = i
        BY <2>1, <3>2 DEF OneId, MapTypes
      <4>2. ASSUME j # i PROVE threads[j] # t
        BY <3>1, <3>2, <4>1, <4>2 DEF RegistryExact, MapInv
      <4> QED
        BY <2>1, <3>2, <4>1, <4>2 DEF MapTypes
    <3>3. CASE s # t
      <4>1. managed'[s] = managed[s] /\ managedId'[s] = managedId[s]
        BY <2>1, <3>3 DEF MapTypes
      <4>2. threads'[j] = s <=> threads[j] = s
        BY <2>1, <3>3 DEF MapTypes
      <4> QED
        BY <3>1, <4>1, <4>2 DEF RegistryExact
    <3> QED
      BY <3>2, <3>3
  <2> QED
    BY <2>2, <2>3, <2>4
<1>3. ASSUME NEW t \in Threads, UnregisterThread(t)
      PROVE  MapTypes' /\ MapInv' /\ RegistryExact'
  <2>1. /\ managed[t] > 0 /\ managed' = [managed EXCEPT ![t] = @ - 1]
        /\ life' = life /\ mixed' = mixed
        /\ managedId[t] \in Ids /\ threads[managedId[t]] = t
    BY <1>3 DEF UnregisterThread, threadVars, MapInv
  <2>2. CASE managed[t] = 1
    <3>1. /\ threads' = [threads EXCEPT ![managedId[t]] = None]
          /\ managedId' = [managedId EXCEPT ![t] = None]
      BY <1>3, <2>2 DEF UnregisterThread
    <3>2. MapTypes'
      BY <2>1, <3>1 DEF MapTypes
    <3>3. MapInv'
      <4> SUFFICES ASSUME NEW s \in Threads
                   PROVE  /\ managed'[s] > 0 => /\ managedId'[s] \in Ids
                                                /\ threads'[managedId'[s]] = s
                                                /\ life'[s] \in {"run", "cleanup"}
                          /\ managed'[s] = 0 => managedId'[s] = None
        BY DEF MapInv
      <4>1. CASE s = t
        BY <2>1, <2>2, <3>1, <4>1 DEF MapTypes
      <4>2. CASE s # t
        <5>1. managed'[s] = managed[s] /\ managedId'[s] = managedId[s]
          BY <2>1, <3>1, <4>2 DEF MapTypes
        <5>2. managed[s] > 0 => managedId[s] # managedId[t]
          BY <2>1, <4>2 DEF MapInv
        <5> QED
          BY <2>1, <3>1, <5>1, <5>2 DEF MapInv, MapTypes
      <4> QED
        BY <4>1, <4>2
    <3>4. RegistryExact'
      <4> SUFFICES ASSUME NEW s \in Threads, OneId(s)', NEW j \in Ids
                   PROVE  threads'[j] = s <=> managed'[s] > 0 /\ managedId'[s] = j
        BY DEF RegistryExact
      <4>1. OneId(s)
        BY <2>1 DEF OneId
      <4>2. CASE s = t
        BY <2>1, <2>2, <3>1, <4>1, <4>2 DEF RegistryExact, MapTypes
      <4>3. CASE s # t
        <5>1. managed'[s] = managed[s] /\ managedId'[s] = managedId[s]
          BY <2>1, <3>1, <4>3 DEF MapTypes
        <5>2. threads'[j] = s <=> threads[j] = s
          BY <2>1, <3>1, <4>3 DEF MapTypes
        <5> QED
          BY <4>1, <5>1, <5>2 DEF RegistryExact
      <4> QED
        BY <4>2, <4>3
    <3> QED
      BY <3>2, <3>3, <3>4
  <2>3. CASE managed[t] # 1
    <3>1. UNCHANGED <<threads, managedId>>
      BY <1>3, <2>3 DEF UnregisterThread
    <3>2. managed'[t] > 0 /\ \A s \in Threads : managed'[s] > 0 <=> managed[s] > 0
      BY <2>1, <2>3 DEF MapTypes
    <3>3. MapTypes'
      BY <2>1, <3>1 DEF MapTypes
    <3>4. \A s \in Threads : managed'[s] = 0 <=> managed[s] = 0
      BY <2>1, <2>3 DEF MapTypes
    <3> QED
      BY <2>1, <3>1, <3>2, <3>3, <3>4 DEF MapInv, RegistryExact, OneId
  <2> QED
    BY <2>2, <2>3
<1> QED
  BY MapActions, <1>1, <1>2, <1>3

-----------------------------------------------------------------------------
(* The calls.  A thread goes to a place of the call with new arguments; the *)
(* others stay where they are.                                              *)
Moves(t, place, record) ==
    pc' = [pc EXCEPT ![t] = place] /\ call' = [call EXCEPT ![t] = record]

CallOk(place, record, counts) ==
    /\ place \in Places /\ record \in CallRecord
    /\ place \in Looking => record.for \in Relays \cup {"repeat"} /\ record.id \in Ids
    /\ place \in {"read", "use", "post"} => record.found \in Threads
    /\ place \in {"use", "post"} => record.loop <= counts[record.found]
    /\ place = "reply" => record.for \in Relays
    /\ place \in Calling \cup {"idle"} => record.for = None

LEMMA CallsAreOk == CallTypes => (CallInv <=> \A t \in Threads : CallOk(pc[t], call[t], starts))
  BY DEF CallTypes, CallInv, CallOk

LEMMA MoveOk ==
    ASSUME LifeTypes, CallTypes, CallInv, NEW t \in Threads, NEW place, NEW record,
           Moves(t, place, record), CallOk(place, record, starts), starts' = starts
    PROVE  CallTypes' /\ CallInv'
<1>1. CallTypes'
  BY DEF CallTypes, Moves, CallOk
<1>2. \A s \in Threads : CallOk(pc[s], call[s], starts)
  BY CallsAreOk
<1>3. \A s \in Threads : CallOk(pc'[s], call'[s], starts)
  BY <1>2 DEF Moves, CallTypes
<1> QED
  BY <1>1, <1>3 DEF CallInv, CallOk

LEMMA IdleOk == CallOk("idle", Idle, starts) /\ Idle \in CallRecord
  BY DEF CallOk, Idle, Places, Looking, Calling, CallRecord

LEMMA StayOk ==
    ASSUME CallTypes, NEW t \in Threads, NEW place, pc' = [pc EXCEPT ![t] = place],
           UNCHANGED call
    PROVE  Moves(t, place, call[t])
  BY DEF Moves, CallTypes

LEMMA LookupOk ==
    ASSUME NEW for \in Relays \cup {"repeat"}, NEW i \in Ids
    PROVE  CallOk("query", [Idle EXCEPT !.for = for, !.id = i], starts)
  BY DEF CallOk, Idle, Places, Looking, Calling, CallRecord

LEMMA InCallMoves ==
    ASSUME MapTypes, LifeTypes, CallTypes, CallInv, RelayTypes, RepeatTypes, TokenInv,
           NEW t \in Threads, InCall(t)
    PROVE  \/ \E place, record : Moves(t, place, record) /\ CallOk(place, record, starts)
           \/ UNCHANGED <<pc, call>>
<1> USE DEF Go, Return
<1>0. CallOk(pc[t], call[t], starts)
  BY CallsAreOk
<1>1. ASSUME Return(t) PROVE \E place, record : Moves(t, place, record) /\ CallOk(place, record, starts)
  BY <1>1, IdleOk DEF Moves
<1>2. CASE QueryThreadInternal(t)
  <2>1. CASE Return(t)
    BY <1>1, <2>1
  <2>2. CASE ~ Return(t)
    <3> DEFINE s == threads[call[t].id]
               record == [call[t] EXCEPT !.found = s]
    <3>1. pc[t] = "query" /\ s # None /\ Moves(t, "read", record)
      BY <1>2, <2>2 DEF QueryThreadInternal, Moves
    <3>2. s \in Threads
      BY <1>0, <3>1 DEF CallOk, Looking, MapTypes
    <3>3. /\ record \in CallRecord /\ record.for = call[t].for /\ record.id = call[t].id
          /\ record.found = s
      BY <1>0, <3>2 DEF CallOk, CallRecord
    <3> HIDE DEF record, s
    <3>4. CallOk("read", record, starts)
      BY <1>0, <3>1, <3>2, <3>3 DEF CallOk, Places, Looking, Calling
    <3> QED
      BY <3>1, <3>4
  <2> QED
    BY <2>1, <2>2
<1>3. CASE ReadMessageLoop(t)
  <2>1. CASE Return(t)
    BY <1>1, <2>1
  <2>2. CASE ~ Return(t)
    <3> DEFINE s == call[t].found
               record == [call[t] EXCEPT !.loop = starts[s]]
    <3>1. pc[t] = "read" /\ Moves(t, "use", record)
      BY <1>3, <2>2 DEF ReadMessageLoop, Moves
    <3>2. s \in Threads /\ starts[s] \in Nat
      BY <1>0, <3>1 DEF CallOk, LifeTypes
    <3>3. /\ record \in CallRecord /\ record.for = call[t].for /\ record.id = call[t].id
          /\ record.found = s /\ record.loop = starts[s]
      BY <1>0, <3>2 DEF CallOk, CallRecord
    <3> HIDE DEF record, s
    <3>4. CallOk("use", record, starts)
      BY <1>0, <3>1, <3>2, <3>3 DEF CallOk, Places, Looking, Calling
    <3> QED
      BY <3>1, <3>4
  <2> QED
    BY <2>1, <2>2
<1>4. CASE ReadProxy(t)
  <2>1. CASE UNCHANGED pc
    BY <1>4, <2>1 DEF ReadProxy
  <2>2. CASE ~ UNCHANGED pc
    <3>1. pc[t] = "use" /\ pc' = [pc EXCEPT ![t] = "post"] /\ UNCHANGED call
      BY <1>4, <2>2 DEF ReadProxy
    <3>2. Moves(t, "post", call[t])
      BY <3>1, StayOk
    <3>3. CallOk("post", call[t], starts)
      BY <1>0, <3>1 DEF CallOk, Places, Looking, Calling
    <3> QED
      BY <3>2, <3>3
  <2> QED
    BY <2>1, <2>2
<1>5. CASE PostTaskAndReply(t) \/ EndReply(t) \/ PostClosure(t)
  BY <1>1, <1>5 DEF PostTaskAndReply, EndReply, PostClosure
<1>6. CASE TestFlag(t) \/ EnterCallback(t) \/ LeaveCallback(t)
  <2>1. PICK place \in Calling : pc' = [pc EXCEPT ![t] = place] /\ UNCHANGED call /\ pc[t] \in Calling
    BY <1>6 DEF TestFlag, EnterCallback, LeaveCallback, Calling
  <2>2. CallOk(place, call[t], starts)
    BY <1>0, <2>1 DEF CallOk, Calling, Places, Looking
  <2> QED
    BY <2>1, <2>2, StayOk
<1>7. CASE PostAgain(t)
  <2>1. CASE Return(t)
    BY <1>1, <2>1
  <2>2. CASE ~ Return(t)
    <3>1. pc[t] = "return" /\ GetMessageLoop(t, "repeat", repeat.id)
      BY <1>7, <2>2 DEF PostAgain
    <3>2. repeat.id \in Ids
      BY <3>1 DEF TokenInv, Holds, Calling, RepeatTypes
    <3> QED
      BY <3>1, <3>2, LookupOk DEF GetMessageLoop, Moves
  <2> QED
    BY <2>1, <2>2
<1> QED
  BY <1>2, <1>3, <1>4, <1>5, <1>6, <1>7 DEF InCall

LEMMA CallNext ==
    ASSUME MapTypes, LifeTypes, CallTypes, CallInv, RelayTypes, RepeatTypes, TokenInv, Next
    PROVE  CallTypes' /\ CallInv'
<1>1. CASE UNCHANGED <<pc, call>>
  <2>1. \A t \in Threads : starts[t] \in Nat /\ starts'[t] \in Nat /\ starts[t] <= starts'[t]
    <3>1. CASE UNCHANGED threadVars
      BY <3>1 DEF threadVars, LifeTypes
    <3>2. ASSUME NEW t \in Threads, Life(t)
          PROVE  \A s \in Threads : starts[s] \in Nat /\ starts'[s] \in Nat /\ starts[s] <= starts'[s]
      BY <3>2 DEF Life, Start, Quit, DeleteLoop, Exit, LifeTypes
    <3> QED
      BY LifeActions, <3>1, <3>2
  <2>2. ASSUME NEW t \in Threads, pc[t] \in {"use", "post"}
        PROVE  call[t].loop <= starts'[call[t].found]
    <3>1. /\ call[t].found \in Threads /\ call[t].loop <= starts[call[t].found]
          /\ call[t].loop \in Nat
      BY <2>2 DEF CallInv, CallTypes, CallRecord
    <3> QED
      BY <2>1, <3>1
  <2> QED
    BY <1>1, <2>2 DEF CallTypes, CallInv
<1>2. ASSUME NEW t \in Threads, NEW place, NEW record,
             Moves(t, place, record), CallOk(place, record, starts), starts' = starts
      PROVE  CallTypes' /\ CallInv'
  BY <1>2, MoveOk
<1>3. ASSUME NEW t \in Threads, InCall(t) PROVE CallTypes' /\ CallInv'
  <2>1. starts' = starts
    BY <1>3 DEF InCall, QueryThreadInternal, ReadMessageLoop, ReadProxy, PostTaskAndReply,
                EndReply, PostClosure, TestFlag, EnterCallback, LeaveCallback, PostAgain, threadVars
  <2> QED
    BY <1>1, <1>2, <1>3, <2>1, InCallMoves
<1>4. ASSUME NEW t \in Threads, BeginReply(t) PROVE CallTypes' /\ CallInv'
  <2>1. queue[t] \in Seq(Relays) /\ queue[t] # << >>
    BY <1>4 DEF BeginReply, RelayTypes
  <2>2. Front(t) \in Relays
    BY <2>1 DEF Front
  <2> DEFINE record == [Idle EXCEPT !.for = Front(t)]
  <2>3. CallOk("reply", record, starts)
    BY <2>2 DEF CallOk, Idle, Places, Looking, Calling, CallRecord
  <2>4. Moves(t, "reply", record) /\ starts' = starts
    BY <1>4 DEF BeginReply, Go, Moves, threadVars
  <2> QED
    BY <1>2, <2>3, <2>4
<1>5. ASSUME NEW t \in Threads, RunRepeatedly(t) PROVE CallTypes' /\ CallInv'
  <2>1. CASE UNCHANGED pc
    BY <1>1, <1>5, <2>1 DEF RunRepeatedly
  <2>2. CASE ~ UNCHANGED pc
    <3>1. /\ pc[t] = "idle" /\ pc' = [pc EXCEPT ![t] = "call"] /\ UNCHANGED call
          /\ starts' = starts
      BY <1>5, <2>2 DEF RunRepeatedly, Go, Running, threadVars
    <3>2. CallOk(pc[t], call[t], starts)
      BY CallsAreOk
    <3>3. CallOk("call", call[t], starts)
      BY <3>1, <3>2 DEF CallOk, Places, Looking, Calling
    <3> QED
      BY <1>2, <3>1, <3>3, StayOk
  <2> QED
    BY <2>1, <2>2
<1>6. ASSUME NEW t \in Threads, NEW r \in Relays, NEW i \in Ids, Await(t, r, i)
      PROVE  CallTypes' /\ CallInv'
  BY <1>2, <1>6, LookupOk DEF Await, GetMessageLoop, Moves, Go, threadVars
<1>7. ASSUME NEW t \in Threads, NEW n \in Times, NEW i \in Ids, PostRepeatedTask(t, i, n)
      PROVE  CallTypes' /\ CallInv'
  BY <1>2, <1>7, LookupOk DEF PostRepeatedTask, GetMessageLoop, Moves, Go, threadVars
<1> QED
  BY CallActions, <1>1, <1>3, <1>4, <1>5, <1>6, <1>7

-----------------------------------------------------------------------------
(* Queues.                                                                  *)
LEMMA AppendFacts ==
    ASSUME NEW q \in Seq(Relays), NEW r \in Relays
    PROVE  /\ Append(q, r) \in Seq(Relays)
           /\ \A x : Holding(Append(q, r), x) <=> Holding(q, x) \/ x = r
           /\ Once(q) /\ ~ Holding(q, r) => Once(Append(q, r))
<1> DEFINE a == Append(q, r)
<1>1. a \in Seq(Relays) /\ Len(a) = Len(q) + 1 /\ a[Len(q) + 1] = r
  OBVIOUS
<1>2. \A k \in 1..Len(q) : a[k] = q[k]
  OBVIOUS
<1>3. DOMAIN a = 1..Len(q) + 1 /\ DOMAIN q = 1..Len(q) /\ Len(q) \in Nat
  BY <1>1
<1> HIDE DEF a
<1>4. \A x : Holding(a, x) <=> Holding(q, x) \/ x = r
  BY <1>1, <1>2, <1>3 DEF Holding
<1>5. Once(q) /\ ~ Holding(q, r) => Once(a)
  BY <1>1, <1>2, <1>3 DEF Holding, Once
<1> QED
  BY <1>1, <1>4, <1>5 DEF a

LEMMA TailFacts ==
    ASSUME NEW q \in Seq(Relays), q # << >>
    PROVE  /\ Tail(q) \in Seq(Relays) /\ Head(q) \in Relays /\ Holding(q, Head(q))
           /\ Once(q) => /\ Once(Tail(q))
                         /\ \A x : Holding(Tail(q), x) <=> Holding(q, x) /\ x # Head(q)
<1> DEFINE a == Tail(q)
<1>1. a \in Seq(Relays) /\ Len(a) = Len(q) - 1 /\ Head(q) = q[1] /\ Len(q) \in Nat /\ Len(q) >= 1
  OBVIOUS
<1>2. \A k \in 1..Len(q) - 1 : a[k] = q[k + 1]
  OBVIOUS
<1>3. DOMAIN a = 1..Len(q) - 1 /\ DOMAIN q = 1..Len(q)
  BY <1>1
<1>4. Head(q) \in Relays /\ Holding(q, Head(q))
  BY <1>1, <1>3 DEF Holding
<1> HIDE DEF a
<1>5. ASSUME Once(q) PROVE Once(a)
  <2> SUFFICES ASSUME NEW j \in 1..Len(q) - 1, NEW k \in 1..Len(q) - 1, a[j] = a[k] PROVE j = k
    BY <1>3 DEF Once
  <2>1. q[j + 1] = q[k + 1] /\ j + 1 \in DOMAIN q /\ k + 1 \in DOMAIN q
    BY <1>1, <1>2, <1>3
  <2>2. j + 1 = k + 1
    BY <1>5, <2>1 DEF Once
  <2> QED
    BY <1>1, <2>2
<1>6. ASSUME Once(q), NEW x PROVE Holding(a, x) <=> Holding(q, x) /\ x # Head(q)
  <2>1. ASSUME NEW k \in DOMAIN a, a[k] = x PROVE Holding(q, x) /\ x # Head(q)
    <3>1. k + 1 \in DOMAIN q /\ q[k + 1] = x /\ k + 1 # 1 /\ 1 \in DOMAIN q
      BY <1>1, <1>2, <1>3, <2>1
    <3> QED
      BY <1>1, <1>6, <3>1 DEF Holding, Once
  <2>2. ASSUME NEW k \in DOMAIN q, q[k] = x, x # Head(q) PROVE Holding(a, x)
    <3>1. k # 1
      BY <1>1, <2>2
    <3>2. k - 1 \in DOMAIN a /\ a[k - 1] = q[(k - 1) + 1] /\ (k - 1) + 1 = k
      BY <1>1, <1>2, <1>3, <3>1
    <3> QED
      BY <2>2, <3>2 DEF Holding
  <2> QED
    BY <2>1, <2>2 DEF Holding
<1> QED
  BY <1>1, <1>4, <1>5, <1>6 DEF a

-----------------------------------------------------------------------------
(* The relays.                                                              *)
LEMMA InPlace == RelayInv => RelayInPlace
<1> SUFFICES ASSUME NEW r \in Relays, RelayOk(r)
             PROVE  LET y == relay[r] IN
        /\ y.at = "posted" =>
              \A s \in Threads : InQueue(s, r) = (s = y.target /\ Alive(s, y.away))
        /\ y.at = "ran" =>
              \A s \in Threads : InQueue(s, r) = (s = y.origin /\ Alive(s, y.home))
        /\ y.at = "reply" => pc[y.origin] = "reply" /\ call[y.origin].for = r
        /\ y.at \in {"none", "reply", "freed"} => \A s \in Threads : ~ InQueue(s, r)
        /\ y.at \in {"reply", "freed"} => ~ y.task
  BY DEF RelayInv, RelayInPlace
<1>1. \A s \in Threads : InQueue(s, r) <=> Waits(s, r)
  BY DEF InQueue, Waits, Holding
<1>2. ASSUME relay[r].at = "posted", NEW s \in Threads
      PROVE  InQueue(s, r) = (s = relay[r].target /\ Alive(s, relay[r].away))
  <2>1. InQueue(s, r) <=> s = relay[r].target /\ Alive(s, relay[r].away)
    BY <1>1, <1>2 DEF RelayOk
  <2> QED
    BY <2>1, Zenon DEF InQueue, Alive
<1>3. ASSUME relay[r].at = "ran", NEW s \in Threads
      PROVE  InQueue(s, r) = (s = relay[r].origin /\ Alive(s, relay[r].home))
  <2>1. InQueue(s, r) <=> s = relay[r].origin /\ Alive(s, relay[r].home)
    BY <1>1, <1>3 DEF RelayOk
  <2> QED
    BY <2>1, Zenon DEF InQueue, Alive
<1> QED
  BY <1>1, <1>2, <1>3 DEF RelayOk

(* A loop's identity changes only when it is deleted.                       *)
LEMMA AliveStable ==
    ASSUME LifeTypes, Next, ~ (\E t \in Threads : DeleteLoop(t)),
           NEW s \in Threads, NEW n \in Nat, n <= starts[s]
    PROVE  (Alive(s, n)' <=> Alive(s, n)) /\ starts[s] <= starts'[s]
<1>0. starts[s] \in Nat
  BY DEF LifeTypes
<1>1. CASE UNCHANGED threadVars
  BY <1>0, <1>1 DEF threadVars, Alive
<1>2. ASSUME NEW t \in Threads, Start(t)
      PROVE  (Alive(s, n)' <=> Alive(s, n)) /\ starts[s] <= starts'[s]
  <2>1. /\ life[t] = "none" /\ life' = [life EXCEPT ![t] = "run"]
        /\ starts' = [starts EXCEPT ![t] = @ + 1]
    BY <1>2 DEF Start
  <2>2. CASE s = t
    <3>1. life[s] = "none" /\ starts'[s] = starts[s] + 1
      BY <2>1, <2>2 DEF LifeTypes
    <3> QED
      BY <1>0, <3>1 DEF Alive
  <2>3. CASE s # t
    <3>1. life'[s] = life[s] /\ starts'[s] = starts[s]
      BY <2>1, <2>3 DEF LifeTypes
    <3> QED
      BY <1>0, <3>1 DEF Alive
  <2> QED
    BY <2>2, <2>3
<1>3. ASSUME NEW t \in Threads, Quit(t) \/ Exit(t)
      PROVE  (Alive(s, n)' <=> Alive(s, n)) /\ starts[s] <= starts'[s]
  <2>1. starts'[s] = starts[s] /\ (life'[s] \in {"run", "cleanup"} <=> life[s] \in {"run", "cleanup"})
    BY <1>3 DEF Quit, Exit, Running, LifeTypes
  <2> QED
    BY <1>0, <2>1 DEF Alive
<1> QED
  BY LifeActions, <1>1, <1>2, <1>3 DEF Life

(* Nothing but r moves.                                                     *)
LEMMA OthersOk ==
    ASSUME RelayTypes, \A x \in Relays : RelayOk(x), NEW r,
           UNCHANGED <<life, starts>>,
           \A x \in Relays : x # r =>
              relay'[x] = relay[x] /\ \A s \in Threads : Waits(s, x)' <=> Waits(s, x),
           \A s \in Threads : pc[s] = "reply" /\ call[s].for # r =>
              pc'[s] = "reply" /\ call'[s] = call[s],
           r \in Relays => RelayOk(r)'
    PROVE  (\A x \in Relays : RelayOk(x))'
<1> SUFFICES ASSUME NEW x \in Relays, x # r PROVE RelayOk(x)'
  OBVIOUS
<1>1. relay'[x] = relay[x] /\ \A s \in Threads : Waits(s, x)' <=> Waits(s, x)
  OBVIOUS
<1>2. RelayOk(x)
  OBVIOUS
<1>3. \A s \in Threads, n \in Nat : Alive(s, n)' <=> Alive(s, n)
  BY DEF Alive
<1>4. relay[x].home \in Nat /\ relay[x].away \in Nat
  BY DEF RelayTypes, RelayRecord
<1> QED
  BY <1>1, <1>2, <1>3, <1>4 DEF RelayOk

(* A call's arguments belong to a relay only while nobody else has it.      *)
LEMMA RelayInCall ==
    ASSUME CallTypes, CallInv, RelayCalls, NEW t \in Threads, call[t].for \in Relays
    PROVE  relay[call[t].for].at = IF pc[t] = "reply" THEN "reply" ELSE "none"
<1>1. pc[t] \in Places /\ call[t].for # None
  BY NoneAssumption DEF CallTypes
<1>2. pc[t] \in Looking \cup {"reply"}
  BY <1>1 DEF CallInv, Places, Looking, Calling
<1> QED
  BY <1>2 DEF RelayCalls, Looking

(* A move that takes no relay, and is not the end of a reply.               *)
Quiet(t, place, record) ==
    \/ /\ record.for = call[t].for
       /\ place \in Looking => pc[t] \in Looking
       /\ place = "reply" <=> pc[t] = "reply"
    \/ record.for \notin Relays /\ place # "reply" /\ pc[t] # "reply"

LEMMA QuietMoves ==
    ASSUME CallTypes, CallInv, NEW t \in Threads,
           \/ InCall(t) /\ ~ PostTaskAndReply(t) /\ ~ EndReply(t)
           \/ RunRepeatedly(t)
           \/ \E i \in Ids, n \in Times : PostRepeatedTask(t, i, n)
    PROVE  \/ UNCHANGED <<pc, call>>
           \/ \E place, record : Moves(t, place, record) /\ Quiet(t, place, record)
<1> USE NoneAssumption DEF Go, Return
<1>1. ASSUME Return(t), pc[t] # "reply"
      PROVE  \E place, record : Moves(t, place, record) /\ Quiet(t, place, record)
  <2>1. Moves(t, "idle", Idle) /\ Idle.for \notin Relays
    BY <1>1 DEF Moves, Idle
  <2> QED
    BY <1>1, <2>1 DEF Quiet
<1>2. ASSUME NEW i, GetMessageLoop(t, "repeat", i), pc[t] # "reply"
      PROVE  \E place, record : Moves(t, place, record) /\ Quiet(t, place, record)
  <2> DEFINE record == [Idle EXCEPT !.for = "repeat", !.id = i]
  <2>1. Moves(t, "query", record) /\ record.for = "repeat"
    BY <1>2 DEF Moves, Idle, GetMessageLoop
  <2> HIDE DEF record
  <2> QED
    BY <1>2, <2>1 DEF Quiet
<1>3. ASSUME NEW place, pc' = [pc EXCEPT ![t] = place], UNCHANGED call,
             place \in Looking => pc[t] \in Looking, place # "reply", pc[t] # "reply"
      PROVE  Moves(t, place, call[t]) /\ Quiet(t, place, call[t])
  BY <1>3, StayOk DEF Quiet
<1>4. CASE QueryThreadInternal(t)
  <2>1. CASE Return(t)
    BY <1>1, <1>4, <2>1 DEF QueryThreadInternal
  <2>2. CASE ~ Return(t)
    <3> DEFINE record == [call[t] EXCEPT !.found = threads[call[t].id]]
    <3>1. pc[t] = "query" /\ Moves(t, "read", record)
      BY <1>4, <2>2 DEF QueryThreadInternal, Moves
    <3>2. record.for = call[t].for
      BY DEF CallTypes, CallRecord
    <3> HIDE DEF record
    <3> QED
      BY <3>1, <3>2 DEF Quiet, Looking
  <2> QED
    BY <2>1, <2>2
<1>5. CASE ReadMessageLoop(t)
  <2>1. CASE Return(t)
    BY <1>1, <1>5, <2>1 DEF ReadMessageLoop
  <2>2. CASE ~ Return(t)
    <3> DEFINE record == [call[t] EXCEPT !.loop = starts[call[t].found]]
    <3>1. pc[t] = "read" /\ Moves(t, "use", record)
      BY <1>5, <2>2 DEF ReadMessageLoop, Moves
    <3>2. record.for = call[t].for
      BY DEF CallTypes, CallRecord
    <3> HIDE DEF record
    <3> QED
      BY <3>1, <3>2 DEF Quiet, Looking
  <2> QED
    BY <2>1, <2>2
<1>6. CASE ReadProxy(t)
  BY <1>3, <1>6 DEF ReadProxy, Looking
<1>7. CASE PostClosure(t)
  BY <1>1, <1>7 DEF PostClosure
<1>8. CASE TestFlag(t)
  BY <1>3, <1>8 DEF TestFlag, Looking
<1>9. CASE EnterCallback(t) \/ LeaveCallback(t)
  BY <1>3, <1>9 DEF EnterCallback, LeaveCallback, Looking
<1>10. CASE PostAgain(t)
  <2>1. CASE Return(t)
    BY <1>1, <1>10, <2>1 DEF PostAgain
  <2>2. CASE ~ Return(t)
    BY <1>2, <1>10, <2>2 DEF PostAgain
  <2> QED
    BY <2>1, <2>2
<1>11. CASE RunRepeatedly(t)
  BY <1>3, <1>11 DEF RunRepeatedly, Running, Looking
<1>12. ASSUME NEW i \in Ids, NEW n \in Times, PostRepeatedTask(t, i, n)
       PROVE  \E place, record : Moves(t, place, record) /\ Quiet(t, place, record)
  BY <1>2, <1>12 DEF PostRepeatedTask, Running
<1> QED
  BY <1>4, <1>5, <1>6, <1>7, <1>8, <1>9, <1>10, <1>11, <1>12 DEF InCall

LEMMA QuietKeeps ==
    ASSUME CallTypes, RelayCalls, NEW t \in Threads, NEW place, NEW record,
           Moves(t, place, record), Quiet(t, place, record), UNCHANGED relay
    PROVE  /\ RelayCalls'
           /\ \A s \in Threads : pc[s] = "reply" => pc'[s] = "reply" /\ call'[s].for = call[s].for
<1>1. /\ pc'[t] = place /\ call'[t] = record
      /\ \A s \in Threads : s # t => pc'[s] = pc[s] /\ call'[s] = call[s]
  BY DEF Moves, CallTypes
<1>2. \A s \in Threads :
         \/ /\ call'[s].for = call[s].for /\ (pc'[s] \in Looking => pc[s] \in Looking)
            /\ pc'[s] = "reply" <=> pc[s] = "reply"
         \/ call'[s].for \notin Relays /\ pc'[s] # "reply" /\ pc[s] # "reply"
  BY <1>1 DEF Quiet
<1> QED
  BY <1>2 DEF RelayCalls

(* The queue's first relay leaves it.                                       *)
LEMMA PopFacts ==
    ASSUME RelayTypes, NoCopies, NEW t \in Threads, queue[t] # << >>
    PROVE  /\ Front(t) \in Relays /\ Waits(t, Front(t))
           /\ Pop(t) \in [Threads -> Seq(Relays)]
           /\ \A s \in Threads : Once(Pop(t)[s])
           /\ \A s \in Threads, x \in Relays :
                Holding(Pop(t)[s], x) <=> Waits(s, x) /\ ~ (s = t /\ x = Front(t))
<1>1. queue[t] \in Seq(Relays) /\ Once(queue[t]) /\ \A s \in Threads : queue[s] \in Seq(Relays)
  BY DEF RelayTypes, NoCopies
<1>2. /\ Tail(queue[t]) \in Seq(Relays) /\ Front(t) \in Relays /\ Waits(t, Front(t))
      /\ Once(Tail(queue[t]))
      /\ \A x : Holding(Tail(queue[t]), x) <=> Holding(queue[t], x) /\ x # Front(t)
  BY <1>1, TailFacts DEF Front, Waits
<1>3. /\ Pop(t)[t] = Tail(queue[t]) /\ Pop(t) \in [Threads -> Seq(Relays)]
      /\ \A s \in Threads : s # t => Pop(t)[s] = queue[s]
  BY <1>1, <1>2 DEF Pop, RelayTypes
<1>4. \A s \in Threads : Once(Pop(t)[s])
  BY <1>2, <1>3 DEF NoCopies
<1>5. ASSUME NEW s \in Threads, NEW x \in Relays
      PROVE  Holding(Pop(t)[s], x) <=> Waits(s, x) /\ ~ (s = t /\ x = Front(t))
  BY <1>2, <1>3 DEF Waits
<1> QED
  BY <1>2, <1>3, <1>4, <1>5

(* A relay that waits nowhere goes to the end of a queue.                   *)
Pushed(q, s, r) == [q EXCEPT ![s] = Append(@, r)]

LEMMA PushFacts ==
    ASSUME NEW q \in [Threads -> Seq(Relays)], NEW s \in Threads, NEW r \in Relays,
           \A t \in Threads : Once(q[t]), ~ Holding(q[s], r)
    PROVE  /\ Pushed(q, s, r) \in [Threads -> Seq(Relays)]
           /\ \A t \in Threads : Once(Pushed(q, s, r)[t])
           /\ \A t \in Threads : \A x :
                Holding(Pushed(q, s, r)[t], x) <=> Holding(q[t], x) \/ (t = s /\ x = r)
<1> DEFINE p == Pushed(q, s, r)
<1>1. /\ Append(q[s], r) \in Seq(Relays) /\ Once(Append(q[s], r))
      /\ \A x : Holding(Append(q[s], r), x) <=> Holding(q[s], x) \/ x = r
  BY AppendFacts
<1>2. /\ p[s] = Append(q[s], r) /\ p \in [Threads -> Seq(Relays)]
      /\ \A t \in Threads : t # s => p[t] = q[t]
  BY <1>1 DEF Pushed
<1> HIDE DEF p
<1>3. \A t \in Threads : Once(p[t])
  BY <1>1, <1>2
<1>4. ASSUME NEW t \in Threads, NEW x
      PROVE  Holding(p[t], x) <=> Holding(q[t], x) \/ (t = s /\ x = r)
  BY <1>1, <1>2
<1> QED
  BY <1>2, <1>3, <1>4 DEF p

(* Only a call, or the thread's life, moves.                                *)
LEMMA StillOk ==
    ASSUME LifeTypes, RelayTypes, \A r \in Relays : RelayOk(r), Next,
           ~ (\E t \in Threads : DeleteLoop(t)), UNCHANGED <<relay, queue>>,
           \A s \in Threads : pc[s] = "reply" => pc'[s] = "reply" /\ call'[s].for = call[s].for
    PROVE  (\A r \in Relays : RelayOk(r))'
<1> SUFFICES ASSUME NEW r \in Relays PROVE RelayOk(r)'
  OBVIOUS
<1> DEFINE y == relay[r]
<1>1. RelayOk(r) /\ y' = y /\ \A s \in Threads : Waits(s, r)' <=> Waits(s, r)
  BY DEF Waits
<1>2. y.home \in Nat /\ y.away \in Nat
  BY DEF RelayTypes, RelayRecord
<1> HIDE DEF y
<1>3. \A s \in Threads : starts[s] \in Nat /\ starts'[s] \in Nat
  BY LifeNext DEF LifeTypes
<1>4. ASSUME NEW s \in Threads, NEW n \in Nat, n <= starts[s]
      PROVE  (Alive(s, n)' <=> Alive(s, n)) /\ n <= starts'[s]
  BY <1>3, <1>4, AliveStable
<1>5. ASSUME y.at \in {"posted", "ran", "reply"}
      PROVE  /\ y.origin \in Threads /\ y.home <= starts'[y.origin]
             /\ y.target \in Threads /\ y.away <= starts'[y.target]
             /\ Alive(y.origin, y.home)' <=> Alive(y.origin, y.home)
             /\ Alive(y.target, y.away)' <=> Alive(y.target, y.away)
  BY <1>1, <1>2, <1>4, <1>5 DEF RelayOk, y
<1>6. y.at = "reply" => pc'[y.origin] = "reply" /\ call'[y.origin].for = r
  BY <1>1, <1>5 DEF RelayOk, y
<1> QED
  BY <1>1, <1>5, <1>6 DEF RelayOk, y

LEMMA DeleteLoopRelays ==
    ASSUME LifeTypes, RelayTypes, RelayInv, NEW t \in Threads, DeleteLoop(t)
    PROVE  RelayTypes' /\ RelayInv'
<1>1. /\ life[t] = "cleanup" /\ life' = [life EXCEPT ![t] = "deleted"]
      /\ queue' = [queue EXCEPT ![t] = << >>] /\ UNCHANGED <<starts, pc, call, relay>>
  BY DEF DeleteLoop
<1>2. RelayTypes'
  BY <1>1 DEF RelayTypes
<1>3. /\ queue'[t] = << >> /\ \A s \in Threads : s # t => queue'[s] = queue[s]
      /\ life'[t] = "deleted" /\ \A s \in Threads : s # t => life'[s] = life[s]
  BY <1>1 DEF RelayTypes, LifeTypes
<1>4. NoCopies'
  BY <1>3 DEF RelayInv, NoCopies, Once
<1>5. RelayCalls'
  BY <1>1 DEF RelayInv, RelayCalls
<1>6. ASSUME NEW r \in Relays PROVE RelayOk(r)'
  <2>1. RelayOk(r)
    BY DEF RelayInv
  <2>2. \A s \in Threads : Waits(s, r)' <=> Waits(s, r) /\ s # t
    BY <1>3 DEF Waits, Holding
  <2>3. \A s \in Threads, n \in Nat : Alive(s, n)' <=> Alive(s, n) /\ s # t
    BY <1>1, <1>3 DEF Alive
  <2>4. relay[r].home \in Nat /\ relay[r].away \in Nat
    BY DEF RelayTypes, RelayRecord
  <2> QED
    BY <1>1, <2>1, <2>2, <2>3, <2>4 DEF RelayOk
<1> QED
  BY <1>2, <1>4, <1>5, <1>6 DEF RelayInv

LEMMA RunRelayRelays ==
    ASSUME LifeTypes, CallTypes, CallInv, RelayTypes, RelayInv, NEW t \in Threads, RunRelay(t)
    PROVE  RelayTypes' /\ RelayInv'
<1>0. PICK r, y, o : r = Front(t) /\ y = relay[r] /\ o = y.origin
  OBVIOUS
<1>1. /\ queue[t] # << >> /\ y.at = "posted" /\ relay' = [relay EXCEPT ![r].at = "ran"]
      /\ queue' = IF Alive(o, y.home) THEN [Pop(t) EXCEPT ![o] = Append(@, r)] ELSE Pop(t)
      /\ UNCHANGED <<life, starts, pc, call>>
  BY <1>0 DEF RunRelay, threadVars
<1>2. /\ r \in Relays /\ Waits(t, r) /\ Pop(t) \in [Threads -> Seq(Relays)]
      /\ \A s \in Threads : Once(Pop(t)[s])
      /\ \A s \in Threads, x \in Relays :
           Holding(Pop(t)[s], x) <=> Waits(s, x) /\ ~ (s = t /\ x = r)
  BY <1>0, <1>1, PopFacts DEF RelayInv
<1>3. y \in RelayRecord /\ RelayOk(r) /\ o \in Threads
  BY <1>0, <1>1, <1>2 DEF RelayTypes, RelayInv, RelayOk
<1>4. \A s \in Threads : Waits(s, r) => s = t
  BY <1>0, <1>1, <1>2, <1>3 DEF RelayOk
<1>5. \A s \in Threads : ~ Holding(Pop(t)[s], r)
  BY <1>2, <1>4
<1>6. /\ queue' \in [Threads -> Seq(Relays)] /\ NoCopies'
      /\ \A s \in Threads, x \in Relays :
           Waits(s, x)' <=> (Waits(s, x) /\ x # r) \/ (s = o /\ x = r /\ Alive(o, y.home))
  <2>1. CASE Alive(o, y.home)
    <3> DEFINE q == Pop(t)
    <3>1. queue' = [q EXCEPT ![o] = Append(@, r)]
      BY <1>1, <2>1
    <3>2. /\ queue' \in [Threads -> Seq(Relays)] /\ \A s \in Threads : Once(queue'[s])
          /\ \A s \in Threads : \A x :
               Holding(queue'[s], x) <=> Holding(q[s], x) \/ (s = o /\ x = r)
      <4>1. /\ q \in [Threads -> Seq(Relays)] /\ o \in Threads /\ r \in Relays
            /\ \A s \in Threads : Once(q[s])
            /\ ~ Holding(q[o], r)
        BY <1>2, <1>3, <1>5
      <4>2. queue' = Pushed(q, o, r)
        BY <3>1 DEF Pushed
      <4> HIDE DEF q
      <4>3. /\ Pushed(q, o, r) \in [Threads -> Seq(Relays)]
            /\ \A u \in Threads : Once(Pushed(q, o, r)[u])
            /\ \A u \in Threads : \A x :
                 Holding(Pushed(q, o, r)[u], x) <=> Holding(q[u], x) \/ (u = o /\ x = r)
        BY <4>1, PushFacts, Zenon
      <4> QED
        BY <4>2, <4>3, Zenon
    <3> QED
      BY <1>2, <1>4, <2>1, <3>2 DEF NoCopies, Waits
  <2>2. CASE ~ Alive(o, y.home)
    BY <1>1, <1>2, <1>4, <2>2 DEF NoCopies, Waits
  <2> QED
    BY <2>1, <2>2
<1>7. /\ relay'[r] = [y EXCEPT !.at = "ran"] /\ relay' \in [Relays -> RelayRecord]
      /\ \A x \in Relays : x # r => relay'[x] = relay[x]
  <2>1. [y EXCEPT !.at = "ran"] \in RelayRecord
    BY <1>3 DEF RelayRecord
  <2> QED
    BY <1>0, <1>1, <1>2, <2>1 DEF RelayTypes
<1>8. RelayTypes'
  BY <1>6, <1>7 DEF RelayTypes
<1>9. RelayCalls'
  <2>1. \A s \in Threads : call[s].for \in Relays => call[s].for # r
    BY <1>0, <1>1, RelayInCall DEF RelayInv
  <2>2. \A s \in Threads : pc[s] = "reply" => call[s].for \in Relays
    BY DEF CallInv
  <2> QED
    BY <1>1, <1>7, <2>1, <2>2 DEF RelayInv, RelayCalls
<1>10. RelayOk(r)'
  <2>1. /\ relay'[r].at = "ran" /\ relay'[r].origin = o /\ relay'[r].home = y.home
        /\ relay'[r].target = y.target /\ relay'[r].away = y.away
    BY <1>0, <1>3, <1>7 DEF RelayRecord
  <2>2. Alive(o, y.home)' <=> Alive(o, y.home)
    BY <1>1 DEF Alive
  <2>3. \A s \in Threads : Waits(s, r)' <=> s = o /\ Alive(o, y.home)
    BY <1>2, <1>6
  <2>4. /\ o \in Threads /\ y.home <= starts'[o] /\ y.target \in Threads
        /\ y.away <= starts'[y.target]
    BY <1>0, <1>1, <1>3 DEF RelayOk
  <2> QED
    BY <2>1, <2>2, <2>3, <2>4 DEF RelayOk
<1>11. (\A x \in Relays : RelayOk(x))'
  BY <1>1, <1>6, <1>7, <1>10, OthersOk DEF RelayInv
<1> QED
  BY <1>6, <1>8, <1>9, <1>11 DEF RelayInv

LEMMA BeginReplyRelays ==
    ASSUME LifeTypes, CallTypes, CallInv, RelayTypes, RelayInv, NEW t \in Threads, BeginReply(t)
    PROVE  RelayTypes' /\ RelayInv'
<1>0. PICK r, y : r = Front(t) /\ y = relay[r]
  OBVIOUS
<1>1. /\ queue[t] # << >> /\ y.at = "ran" /\ pc[t] = "idle"
      /\ relay' = [relay EXCEPT ![r].at = "reply", ![r].task = FALSE]
      /\ queue' = Pop(t) /\ Moves(t, "reply", [Idle EXCEPT !.for = r])
      /\ UNCHANGED <<life, starts>>
  BY <1>0 DEF BeginReply, Running, threadVars, Go, Moves
<1>2. /\ r \in Relays /\ Waits(t, r) /\ queue' \in [Threads -> Seq(Relays)] /\ NoCopies'
      /\ \A s \in Threads, x \in Relays : Waits(s, x)' <=> Waits(s, x) /\ ~ (s = t /\ x = r)
  BY <1>0, <1>1, PopFacts DEF RelayInv, NoCopies, Waits
<1>3. y \in RelayRecord /\ RelayOk(r) /\ y.origin = t
  BY <1>0, <1>1, <1>2 DEF RelayTypes, RelayInv, RelayOk
<1>4. \A s \in Threads : Waits(s, r) => s = t
  BY <1>0, <1>1, <1>2, <1>3 DEF RelayOk
<1>5. /\ relay'[r] = [y EXCEPT !.at = "reply", !.task = FALSE]
      /\ relay' \in [Relays -> RelayRecord] /\ \A x \in Relays : x # r => relay'[x] = relay[x]
  <2>1. [y EXCEPT !.at = "reply", !.task = FALSE] \in RelayRecord
    BY <1>3 DEF RelayRecord
  <2> QED
    BY <1>0, <1>1, <1>2, <2>1 DEF RelayTypes
<1>6. RelayTypes'
  BY <1>2, <1>5 DEF RelayTypes
<1>7. /\ pc'[t] = "reply" /\ call'[t].for = r
      /\ \A s \in Threads : s # t => pc'[s] = pc[s] /\ call'[s] = call[s]
  BY <1>1 DEF Moves, CallTypes, Idle
<1>8. \A s \in Threads : call[s].for \in Relays => call[s].for # r
  BY <1>0, <1>1, RelayInCall DEF RelayInv
<1>9. /\ relay'[r].at = "reply" /\ ~ relay'[r].task /\ relay'[r].origin = y.origin
      /\ relay'[r].home = y.home /\ relay'[r].target = y.target /\ relay'[r].away = y.away
  BY <1>3, <1>5 DEF RelayRecord
<1>10. RelayCalls'
  <2>1. \A s \in Threads : pc[s] = "reply" => call[s].for \in Relays
    BY DEF CallInv
  <2>2. \A s, u \in Threads : call'[s].for = call'[u].for /\ call'[s].for \in Relays => s = u
    BY <1>7, <1>8 DEF RelayInv, RelayCalls
  <2>3. ASSUME NEW s \in Threads
        PROVE  /\ pc'[s] \in Looking /\ call'[s].for \in Relays => relay'[call'[s].for].at = "none"
               /\ pc'[s] = "reply" => /\ relay'[call'[s].for].at = "reply"
                                      /\ relay'[call'[s].for].origin = s
    <3>1. CASE s = t
      BY <1>3, <1>7, <1>9, <3>1 DEF Looking
    <3>2. CASE s # t
      BY <1>5, <1>7, <1>8, <2>1, <3>2 DEF RelayInv, RelayCalls
    <3> QED
      BY <3>1, <3>2
  <2> QED
    BY <2>2, <2>3 DEF RelayCalls
<1>11. RelayOk(r)'
  <2>1. \A s \in Threads : ~ Waits(s, r)'
    BY <1>2, <1>4
  <2>2. /\ y.origin \in Threads /\ y.home <= starts'[y.origin] /\ y.target \in Threads
        /\ y.away <= starts'[y.target]
    BY <1>0, <1>1, <1>3 DEF RelayOk
  <2>3. pc'[y.origin] = "reply" /\ call'[y.origin].for = r
    BY <1>3, <1>7
  <2> QED
    BY <1>9, <2>1, <2>2, <2>3 DEF RelayOk
<1>12. (\A x \in Relays : RelayOk(x))'
  <2>1. \A s \in Threads : pc[s] = "reply" => pc'[s] = "reply" /\ call'[s] = call[s]
    BY <1>1, <1>7
  <2>2. \A x \in Relays : x # r =>
           relay'[x] = relay[x] /\ \A s \in Threads : Waits(s, x)' <=> Waits(s, x)
    BY <1>2, <1>5
  <2> QED
    BY <1>1, <1>11, <2>1, <2>2, OthersOk DEF RelayInv
<1> QED
  BY <1>2, <1>6, <1>10, <1>12 DEF RelayInv

(* A thread's call ends, and with it the call's hold of relay r, which goes *)
(* to another state.                                                        *)
LEMMA ReturnCalls ==
    ASSUME CallTypes, CallInv, RelayCalls, NEW t \in Threads, call[t].for \in Relays,
           Return(t), \A x \in Relays : x # call[t].for => relay'[x] = relay[x]
    PROVE  /\ RelayCalls'
           /\ \A s \in Threads : pc[s] = "reply" /\ call[s].for # call[t].for =>
                 pc'[s] = "reply" /\ call'[s] = call[s]
<1>1. /\ pc'[t] = "idle" /\ call'[t] = Idle
      /\ \A s \in Threads : s # t => pc'[s] = pc[s] /\ call'[s] = call[s]
  BY DEF Return, Go, CallTypes
<1>2. Idle.for \notin Relays
  BY NoneAssumption DEF Idle
<1>3. \A s \in Threads : s # t => call[s].for # call[t].for
  BY DEF RelayCalls
<1>4. \A s \in Threads : pc[s] = "reply" => call[s].for \in Relays
  BY DEF CallInv
<1>5. \A s, u \in Threads : call'[s].for = call'[u].for /\ call'[s].for \in Relays => s = u
  BY <1>1, <1>2 DEF RelayCalls
<1>6. ASSUME NEW s \in Threads
      PROVE  /\ pc'[s] \in Looking /\ call'[s].for \in Relays => relay'[call'[s].for].at = "none"
             /\ pc'[s] = "reply" => /\ relay'[call'[s].for].at = "reply"
                                    /\ relay'[call'[s].for].origin = s
  <2>1. CASE s = t
    BY <1>1, <1>2, <2>1
  <2>2. CASE s # t
    BY <1>1, <1>3, <1>4, <2>2 DEF RelayCalls
  <2> QED
    BY <2>1, <2>2
<1>7. \A s \in Threads : pc[s] = "reply" /\ call[s].for # call[t].for =>
         pc'[s] = "reply" /\ call'[s] = call[s]
  BY <1>1
<1> QED
  BY <1>5, <1>6, <1>7 DEF RelayCalls

LEMMA PostRelays ==
    ASSUME LifeTypes, CallTypes, CallInv, RelayTypes, RelayInv, NEW t \in Threads,
           PostTaskAndReply(t)
    PROVE  RelayTypes' /\ RelayInv'
<1>0. PICK r, s, n : r = call[t].for /\ s = call[t].found /\ n = call[t].loop
  OBVIOUS
<1>1. /\ r \in Relays /\ pc[t] = "post" /\ Return(t) /\ UNCHANGED <<life, starts>>
      /\ \/ /\ Alive(s, n) /\ queue' = [queue EXCEPT ![s] = Append(@, r)]
            /\ relay' = [relay EXCEPT ![r] =
                 [at |-> "posted", origin |-> t, home |-> starts[t], target |-> s, away |-> n,
                  task |-> TRUE]]
         \/ ~ Alive(s, n) /\ relay' = [relay EXCEPT ![r].at = "freed"] /\ UNCHANGED queue
  BY <1>0 DEF PostTaskAndReply, threadVars
<1>2. relay[r].at = "none" /\ RelayOk(r) /\ relay[r] \in RelayRecord
  BY <1>0, <1>1 DEF RelayInv, RelayCalls, Looking, RelayTypes
<1>3. s \in Threads /\ n \in Nat /\ n <= starts[s] /\ \A u \in Threads : starts[u] \in Nat
  BY <1>0, <1>1 DEF CallInv, CallTypes, CallRecord, LifeTypes
<1>4. \A u \in Threads : ~ Holding(queue[u], r)
  BY <1>2 DEF RelayOk, Waits
<1>5. CASE Alive(s, n) /\ queue' = [queue EXCEPT ![s] = Append(@, r)]
  <2> PICK record : record = [at |-> "posted", origin |-> t, home |-> starts[t],
                              target |-> s, away |-> n, task |-> TRUE]
    OBVIOUS
  <2>1. record \in RelayRecord /\ relay' = [relay EXCEPT ![r] = record]
    <3>1. record \in RelayRecord
      BY <1>3 DEF RelayRecord
    <3> QED
      BY <1>1, <1>5, <3>1
  <2>2. relay' \in [Relays -> RelayRecord] /\ relay'[r] = record
        /\ \A x \in Relays : x # r => relay'[x] = relay[x]
    BY <1>1, <2>1 DEF RelayTypes
  <2>3. /\ queue' \in [Threads -> Seq(Relays)] /\ \A u \in Threads : Once(queue'[u])
        /\ \A u \in Threads : \A x :
             Holding(queue'[u], x) <=> Holding(queue[u], x) \/ (u = s /\ x = r)
    <3>1. /\ queue \in [Threads -> Seq(Relays)] /\ \A u \in Threads : Once(queue[u])
          /\ s \in Threads /\ r \in Relays /\ ~ Holding(queue[s], r)
      BY <1>1, <1>3, <1>4 DEF RelayTypes, RelayInv, NoCopies
    <3>2. queue' = [queue EXCEPT ![s] = Append(@, r)]
      BY <1>5
    <3>3. queue' = Pushed(queue, s, r)
      BY <3>2 DEF Pushed
    <3>4. /\ Pushed(queue, s, r) \in [Threads -> Seq(Relays)]
          /\ \A u \in Threads : Once(Pushed(queue, s, r)[u])
          /\ \A u \in Threads : \A x :
               Holding(Pushed(queue, s, r)[u], x) <=> Holding(queue[u], x) \/ (u = s /\ x = r)
      BY <3>1, PushFacts, Zenon
    <3> QED
      BY <3>3, <3>4, Zenon
  <2>4. RelayCalls' /\ \A u \in Threads : pc[u] = "reply" /\ call[u].for # r =>
                          pc'[u] = "reply" /\ call'[u] = call[u]
    BY <1>0, <1>1, <2>2, ReturnCalls DEF RelayInv
  <2>5. RelayOk(r)'
    <3>1. Alive(s, n)'
      BY <1>1, <1>5 DEF Alive
    <3>2. \A u \in Threads : Waits(u, r)' <=> u = s
      BY <1>4, <2>3 DEF Waits
    <3>3. t \in Threads /\ starts'[t] = starts[t] /\ n <= starts'[s]
      BY <1>1, <1>3
    <3>4. /\ relay'[r].at = "posted" /\ relay'[r].origin = t /\ relay'[r].home = starts[t]
          /\ relay'[r].target = s /\ relay'[r].away = n
      BY <2>2
    <3>5. starts[t] <= starts'[t]
      BY <1>3, <3>3
    <3> QED
      BY <1>3, <3>1, <3>2, <3>3, <3>4, <3>5 DEF RelayOk
  <2>6. \A x \in Relays : x # r =>
           relay'[x] = relay[x] /\ \A u \in Threads : Waits(u, x)' <=> Waits(u, x)
    BY <2>2, <2>3 DEF Waits
  <2>7. (\A x \in Relays : RelayOk(x))'
    BY <1>1, <2>4, <2>5, <2>6, OthersOk DEF RelayInv
  <2>8. NoCopies' /\ RelayTypes'
    BY <2>2, <2>3 DEF NoCopies, RelayTypes
  <2> QED
    BY <2>4, <2>7, <2>8 DEF RelayInv
<1>6. CASE ~ Alive(s, n) /\ relay' = [relay EXCEPT ![r].at = "freed"] /\ UNCHANGED queue
  <2>1. [relay[r] EXCEPT !.at = "freed"] \in RelayRecord
    BY <1>2 DEF RelayRecord
  <2>2. /\ relay' \in [Relays -> RelayRecord] /\ relay'[r] = [relay[r] EXCEPT !.at = "freed"]
        /\ \A x \in Relays : x # r => relay'[x] = relay[x]
    BY <1>1, <1>6, <2>1 DEF RelayTypes
  <2>3. relay'[r].at = "freed" /\ relay'[r].task = relay[r].task
    BY <1>2, <2>2 DEF RelayRecord
  <2>4. RelayCalls' /\ \A u \in Threads : pc[u] = "reply" /\ call[u].for # r =>
                          pc'[u] = "reply" /\ call'[u] = call[u]
    BY <1>0, <1>1, <2>2, ReturnCalls DEF RelayInv
  <2>5. RelayOk(r)'
    BY <1>2, <1>6, <2>3 DEF RelayOk, Waits
  <2>6. \A x \in Relays : x # r =>
           relay'[x] = relay[x] /\ \A u \in Threads : Waits(u, x)' <=> Waits(u, x)
    BY <1>6, <2>2 DEF Waits
  <2>7. (\A x \in Relays : RelayOk(x))'
    BY <1>1, <2>4, <2>5, <2>6, OthersOk DEF RelayInv
  <2>8. NoCopies' /\ RelayTypes'
    BY <1>6, <2>2 DEF RelayInv, NoCopies, RelayTypes
  <2> QED
    BY <2>4, <2>7, <2>8 DEF RelayInv
<1> QED
  BY <1>1, <1>5, <1>6

LEMMA EndReplyRelays ==
    ASSUME LifeTypes, CallTypes, CallInv, RelayTypes, RelayInv, NEW t \in Threads, EndReply(t)
    PROVE  RelayTypes' /\ RelayInv'
<1>0. PICK r : r = call[t].for
  OBVIOUS
<1>1. /\ r \in Relays /\ pc[t] = "reply" /\ Return(t) /\ UNCHANGED <<life, starts, queue>>
      /\ relay' = [relay EXCEPT ![r].at = "freed"]
  BY <1>0 DEF EndReply, threadVars, CallInv
<1>2. relay[r].at = "reply" /\ RelayOk(r) /\ relay[r] \in RelayRecord
  BY <1>0, <1>1 DEF RelayInv, RelayCalls, RelayTypes
<1>3. [relay[r] EXCEPT !.at = "freed"] \in RelayRecord
  BY <1>2 DEF RelayRecord
<1>4. /\ relay' \in [Relays -> RelayRecord] /\ relay'[r] = [relay[r] EXCEPT !.at = "freed"]
      /\ \A x \in Relays : x # r => relay'[x] = relay[x]
  BY <1>1, <1>3 DEF RelayTypes
<1>5. relay'[r].at = "freed" /\ relay'[r].task = relay[r].task
  BY <1>2, <1>4 DEF RelayRecord
<1>6. RelayCalls' /\ \A u \in Threads : pc[u] = "reply" /\ call[u].for # r =>
                        pc'[u] = "reply" /\ call'[u] = call[u]
  BY <1>0, <1>1, <1>4, ReturnCalls DEF RelayInv
<1>7. RelayOk(r)'
  BY <1>1, <1>2, <1>5 DEF RelayOk, Waits
<1>8. \A x \in Relays : x # r =>
         relay'[x] = relay[x] /\ \A u \in Threads : Waits(u, x)' <=> Waits(u, x)
  BY <1>1, <1>4 DEF Waits
<1>9. (\A x \in Relays : RelayOk(x))'
  BY <1>1, <1>6, <1>7, <1>8, OthersOk DEF RelayInv
<1>10. NoCopies' /\ RelayTypes'
  BY <1>1, <1>4 DEF RelayInv, NoCopies, RelayTypes
<1> QED
  BY <1>6, <1>9, <1>10 DEF RelayInv

(* A new call of Await holds a relay nobody has.                            *)
LEMMA AwaitCalls ==
    ASSUME CallTypes, CallInv, RelayCalls, NEW t \in Threads, NEW r \in Relays, NEW i \in Ids,
           Await(t, r, i)
    PROVE  /\ RelayCalls' /\ UNCHANGED <<relay, queue>>
           /\ \A s \in Threads : pc[s] = "reply" => pc'[s] = "reply" /\ call'[s].for = call[s].for
<1>1. /\ relay[r].at = "none" /\ \A s \in Threads : call[s].for # r
      /\ pc[t] = "idle" /\ UNCHANGED <<relay, queue>>
      /\ Moves(t, "query", [Idle EXCEPT !.for = r, !.id = i])
  BY DEF Await, Running, GetMessageLoop, Go, Moves
<1>2. /\ pc'[t] = "query" /\ call'[t].for = r
      /\ \A s \in Threads : s # t => pc'[s] = pc[s] /\ call'[s] = call[s]
  BY <1>1 DEF Moves, CallTypes, Idle
<1>3. \A s \in Threads : pc[s] = "reply" => pc'[s] = "reply" /\ call'[s].for = call[s].for
  BY <1>1, <1>2
<1>4. RelayCalls'
  BY <1>1, <1>2 DEF RelayCalls
<1> QED
  BY <1>1, <1>3, <1>4

LEMMA RelayNext ==
    ASSUME LifeTypes, CallTypes, CallInv, RelayTypes, RelayInv, Next
    PROVE  RelayTypes' /\ RelayInv'
<1>1. CASE \E t \in Threads : \/ DeleteLoop(t) \/ PostTaskAndReply(t) \/ RunRelay(t)
                              \/ BeginReply(t) \/ EndReply(t)
  BY <1>1, DeleteLoopRelays, PostRelays, RunRelayRelays, BeginReplyRelays, EndReplyRelays
<1>2. CASE ~ \E t \in Threads : \/ DeleteLoop(t) \/ PostTaskAndReply(t) \/ RunRelay(t)
                                \/ BeginReply(t) \/ EndReply(t)
  <2>1. UNCHANGED <<relay, queue>>
    BY <1>2, RelayActions
  <2>2. /\ RelayCalls'
        /\ \A s \in Threads : pc[s] = "reply" => pc'[s] = "reply" /\ call'[s].for = call[s].for
    <3>1. CASE UNCHANGED <<pc, call>>
      BY <2>1, <3>1 DEF RelayInv, RelayCalls
    <3>2. ASSUME NEW t \in Threads, NEW r \in Relays, NEW i \in Ids, Await(t, r, i)
          PROVE  /\ RelayCalls'
                 /\ \A s \in Threads : pc[s] = "reply" =>
                       pc'[s] = "reply" /\ call'[s].for = call[s].for
      BY <3>2, AwaitCalls DEF RelayInv
    <3>3. ASSUME NEW t \in Threads,
                 \/ InCall(t) \/ RunRepeatedly(t)
                 \/ \E i \in Ids, n \in Times : PostRepeatedTask(t, i, n)
          PROVE  /\ RelayCalls'
                 /\ \A s \in Threads : pc[s] = "reply" =>
                       pc'[s] = "reply" /\ call'[s].for = call[s].for
      <4>1. \/ UNCHANGED <<pc, call>>
            \/ \E place, record : Moves(t, place, record) /\ Quiet(t, place, record)
        BY <1>2, <3>3, QuietMoves
      <4> QED
        BY <2>1, <3>1, <4>1, QuietKeeps DEF RelayInv
    <3> QED
      BY <1>2, <3>1, <3>2, <3>3, CallActions
  <2>3. (\A r \in Relays : RelayOk(r))'
    BY <1>2, <2>1, <2>2, StillOk DEF RelayInv
  <2>4. RelayTypes' /\ NoCopies'
    BY <2>1 DEF RelayTypes, RelayInv, NoCopies
  <2> QED
    BY <2>2, <2>3, <2>4 DEF RelayInv
<1> QED
  BY <1>1, <1>2

-----------------------------------------------------------------------------
(* The repeated task.  A move that does not bring a thread to it.           *)
Keeps(t, place, record) ==
    /\ record.for = "repeat" => Posting(t)
    /\ place \in Calling => pc[t] \in Calling
    /\ place \in {"call", "enter"} => pc[t] \in {"call", "enter"}

LEMMA MoveFacts ==
    ASSUME CallTypes, NEW t \in Threads, NEW place, NEW record, Moves(t, place, record)
    PROVE  /\ pc'[t] = place /\ call'[t] = record
           /\ \A s \in Threads : s # t => pc'[s] = pc[s] /\ call'[s] = call[s]
  BY DEF Moves, CallTypes

LEMMA ReturnFacts ==
    ASSUME CallTypes, NEW t \in Threads, Return(t)
    PROVE  /\ Moves(t, "idle", Idle) /\ ~ Holds(t)'
           /\ \A s \in Threads : s # t => pc'[s] = pc[s] /\ call'[s] = call[s]
<1>1. Moves(t, "idle", Idle)
  BY DEF Moves, Return, Go
<1>2. Idle.for # "repeat" /\ "idle" \notin Calling
  BY NoneAssumption DEF Idle, Calling
<1> QED
  BY <1>1, <1>2, MoveFacts DEF Holds, Posting

LEMMA KeepsToken ==
    ASSUME CallTypes, RepeatTypes, TokenInv, CancelStops, UNCHANGED <<repeat, flag>>,
           \/ UNCHANGED <<pc, call>>
           \/ \E t \in Threads : \E place, record : Moves(t, place, record) /\ Keeps(t, place, record)
    PROVE  TokenInv' /\ CancelStops'
<1>1. \A s \in Threads :
         /\ Holds(s)' => Holds(s)
         /\ Posting(s)' => Posting(s)
         /\ pc'[s] \in {"call", "enter"} => pc[s] \in {"call", "enter"}
  <2>1. CASE UNCHANGED <<pc, call>>
    BY <2>1 DEF Holds, Posting
  <2>2. ASSUME NEW t \in Threads, NEW place, NEW record,
               Moves(t, place, record), Keeps(t, place, record)
        PROVE  \A s \in Threads :
                 /\ Holds(s)' => Holds(s)
                 /\ Posting(s)' => Posting(s)
                 /\ pc'[s] \in {"call", "enter"} => pc[s] \in {"call", "enter"}
    BY <2>2, MoveFacts DEF Keeps, Holds, Posting
  <2> QED
    BY <2>1, <2>2
<1>2. Ahead' => Ahead
  BY <1>1 DEF Ahead
<1>3. flag # None => pc'[flag] \notin {"call", "enter"}
  BY <1>1 DEF TokenInv, RepeatTypes
<1>4. CancelStops'
  BY DEF CancelStops
<1> QED
  BY <1>1, <1>2, <1>3, <1>4 DEF TokenInv

LEMMA KeepsMoves ==
    ASSUME CallTypes, CallInv, RelayTypes, NEW t \in Threads,
           \/ QueryThreadInternal(t) \/ ReadMessageLoop(t) \/ ReadProxy(t)
           \/ PostTaskAndReply(t) \/ EndReply(t) \/ TestFlag(t) \/ LeaveCallback(t)
           \/ BeginReply(t) \/ \E r \in Relays, i \in Ids : Await(t, r, i)
    PROVE  \/ UNCHANGED <<pc, call>>
           \/ \E place, record : Moves(t, place, record) /\ Keeps(t, place, record)
<1> USE NoneAssumption DEF Go
<1>1. ASSUME Return(t) PROVE \E place, record : Moves(t, place, record) /\ Keeps(t, place, record)
  <2>1. Idle.for # "repeat" /\ "idle" \notin Calling
    BY DEF Idle, Calling
  <2> QED
    BY <1>1, <2>1, ReturnFacts DEF Keeps
<1>2. ASSUME NEW place, pc' = [pc EXCEPT ![t] = place], UNCHANGED call,
             place \in Calling => pc[t] \in Calling,
             place \in {"call", "enter"} => pc[t] \in {"call", "enter"}
      PROVE  Moves(t, place, call[t]) /\ Keeps(t, place, call[t])
  BY <1>2, StayOk DEF Keeps, Posting
<1>3. CASE QueryThreadInternal(t)
  <2>1. CASE Return(t)
    BY <1>1, <2>1
  <2>2. CASE ~ Return(t)
    <3> DEFINE record == [call[t] EXCEPT !.found = threads[call[t].id]]
    <3>1. Moves(t, "read", record)
      BY <1>3, <2>2 DEF QueryThreadInternal, Moves
    <3>2. record.for = call[t].for
      BY DEF CallTypes, CallRecord
    <3> HIDE DEF record
    <3> QED
      BY <3>1, <3>2 DEF Keeps, Posting, Calling
  <2> QED
    BY <2>1, <2>2
<1>4. CASE ReadMessageLoop(t)
  <2>1. CASE Return(t)
    BY <1>1, <2>1
  <2>2. CASE ~ Return(t)
    <3> DEFINE record == [call[t] EXCEPT !.loop = starts[call[t].found]]
    <3>1. Moves(t, "use", record)
      BY <1>4, <2>2 DEF ReadMessageLoop, Moves
    <3>2. record.for = call[t].for
      BY DEF CallTypes, CallRecord
    <3> HIDE DEF record
    <3> QED
      BY <3>1, <3>2 DEF Keeps, Posting, Calling
  <2> QED
    BY <2>1, <2>2
<1>5. CASE ReadProxy(t)
  BY <1>2, <1>5 DEF ReadProxy, Calling
<1>6. CASE PostTaskAndReply(t) \/ EndReply(t)
  BY <1>1, <1>6 DEF PostTaskAndReply, EndReply
<1>7. CASE TestFlag(t)
  BY <1>2, <1>7 DEF TestFlag, Calling
<1>8. CASE LeaveCallback(t)
  BY <1>2, <1>8 DEF LeaveCallback, Calling
<1>9. CASE BeginReply(t)
  <2> DEFINE record == [Idle EXCEPT !.for = Front(t)]
  <2>1. Moves(t, "reply", record) /\ record.for = Front(t)
    BY <1>9 DEF BeginReply, Moves, Idle
  <2>2. queue[t] \in Seq(Relays) /\ queue[t] # << >>
    BY <1>9 DEF BeginReply, RelayTypes
  <2>3. Front(t) \in Relays
    BY <2>2 DEF Front
  <2> HIDE DEF record
  <2> QED
    BY <2>1, <2>3 DEF Keeps, Calling
<1>10. ASSUME NEW r \in Relays, NEW i \in Ids, Await(t, r, i)
       PROVE  \E place, record : Moves(t, place, record) /\ Keeps(t, place, record)
  <2> DEFINE record == [Idle EXCEPT !.for = r, !.id = i]
  <2>1. Moves(t, "query", record) /\ record.for = r
    BY <1>10 DEF Await, GetMessageLoop, Moves, Idle
  <2> HIDE DEF record
  <2> QED
    BY <2>1 DEF Keeps, Calling
<1> QED
  BY <1>3, <1>4, <1>5, <1>6, <1>7, <1>8, <1>9, <1>10

LEMMA RepeatNumbers ==
    RepeatTypes => /\ repeat.runs \in 0..MaxRuns /\ repeat.runs \in Int
                   /\ repeat.asked \in Int /\ repeat.left \in Int
<1> SUFFICES ASSUME RepeatTypes PROVE /\ repeat.runs \in 0..MaxRuns /\ repeat.runs \in Int
                                      /\ repeat.asked \in Int /\ repeat.left \in Int
  OBVIOUS
<1>1. repeat.runs \in 0..MaxRuns /\ repeat.asked \in Times \cup {0} /\ repeat.left \in Int
  BY DEF RepeatTypes
<1>2. ASSUME NEW n \in Times PROVE n \in Int
  BY TimesAssumption
<1>3. repeat.asked \in Int
  <2>1. CASE repeat.asked \in Times
    BY <1>2, <2>1
  <2>2. CASE repeat.asked = 0
    BY <2>2
  <2> QED
    BY <1>1, <2>1, <2>2
<1>4. repeat.runs \in Int
  BY <1>1, BoundsAssumption
<1> QED
  BY <1>1, <1>3, <1>4

LEMMA RepeatTypesNext ==
    ASSUME MapTypes, LifeTypes, CallTypes, CallInv, RepeatTypes, Next
    PROVE  RepeatTypes'
<1> USE TimesAssumption, BoundsAssumption, NoneAssumption
<1>0. crashed' \in BOOLEAN
  <2> SUFFICES ASSUME NEW t \in Threads,
                      InCall(t) \/ RunQueued(t) \/ RunRepeatedly(t) \/ Closures(t) \/ Life(t)
               PROVE  crashed' \in BOOLEAN
    BY DEF Next
  <2>1. CASE InCall(t)
    BY <2>1 DEF InCall, QueryThreadInternal, ReadMessageLoop, ReadProxy, PostTaskAndReply,
                EndReply, PostClosure, TestFlag, EnterCallback, LeaveCallback, PostAgain, RepeatTypes
  <2>2. CASE RunQueued(t) \/ RunRepeatedly(t) \/ Life(t)
    BY <2>2 DEF RunQueued, RunRelay, BeginReply, RunRepeatedly, Life, Start, Quit, DeleteLoop,
                Exit, RepeatTypes
  <2>3. CASE Closures(t)
    BY <2>3 DEF Closures, RegisterThread, UnregisterThread, Await, PostRepeatedTask, Cancel,
                RepeatTypes
  <2> QED
    BY <2>1, <2>2, <2>3
<1>1. ASSUME NEW t \in Threads, DeleteLoop(t)
      PROVE  RepeatTypes'
  BY <1>0, <1>1 DEF DeleteLoop, RepeatTypes
<1>2. ASSUME NEW t \in Threads, PostClosure(t)
      PROVE  RepeatTypes'
  <2>1. call[t].found \in Threads
    BY <1>2 DEF PostClosure, CallInv
  <2> QED
    BY <1>0, <1>2, <2>1 DEF PostClosure, RepeatTypes
<1>3. ASSUME NEW t \in Threads, RunRepeatedly(t) \/ Cancel(t)
      PROVE  RepeatTypes'
  BY <1>0, <1>3 DEF RunRepeatedly, Cancel, RepeatTypes
<1>4. ASSUME NEW t \in Threads, EnterCallback(t)
      PROVE  RepeatTypes'
  <2>1. repeat.runs \in 0..MaxRuns /\ repeat.late \in Seq(Threads)
    BY DEF RepeatTypes
  <2>2. (IF repeat.runs < MaxRuns THEN repeat.runs + 1 ELSE repeat.runs) \in 0..MaxRuns
    BY <2>1
  <2>3. (IF flag = None THEN repeat.late ELSE Append(repeat.late, t)) \in Seq(Threads)
    BY <2>1
  <2> QED
    BY <1>0, <1>4, <2>2, <2>3 DEF EnterCallback, RepeatTypes
<1>5. ASSUME NEW t \in Threads, PostAgain(t)
      PROVE  RepeatTypes'
  <2>1. repeat.left \in Int
    BY DEF RepeatTypes
  <2> QED
    BY <1>0, <1>5, <2>1 DEF PostAgain, RepeatTypes
<1>6. ASSUME NEW t \in Threads, NEW n \in Times, NEW i \in Ids, PostRepeatedTask(t, i, n)
      PROVE  RepeatTypes'
  BY <1>0, <1>6 DEF PostRepeatedTask, RepeatTypes
<1>7. CASE UNCHANGED <<repeat, flag>>
  BY <1>0, <1>7 DEF RepeatTypes
<1> QED
  BY <1>1, <1>2, <1>3, <1>4, <1>5, <1>6, <1>7, RepeatActions

LEMMA DeleteLoopToken ==
    ASSUME RepeatTypes, TokenInv, CancelStops, NEW t \in Threads, DeleteLoop(t)
    PROVE  TokenInv' /\ CancelStops'
<1>1. /\ UNCHANGED <<pc, call, flag>>
      /\ repeat' = [repeat EXCEPT !.at = None] \/ repeat' = repeat
  BY DEF DeleteLoop
<1>2. /\ repeat'.id = repeat.id /\ repeat'.left = repeat.left /\ repeat'.asked = repeat.asked
      /\ repeat'.runs = repeat.runs /\ repeat'.late = repeat.late
      /\ repeat'.at \in {None, repeat.at}
  BY <1>1 DEF RepeatTypes
<1>3. (\A s \in Threads : Holds(s)' <=> Holds(s)) /\ (Ahead' => Ahead)
  BY <1>1, <1>2 DEF Holds, Ahead, Posting
<1>4. CancelStops'
  BY <1>1, <1>2 DEF CancelStops
<1> QED
  BY <1>1, <1>2, <1>3, <1>4 DEF TokenInv

LEMMA PostClosureToken ==
    ASSUME CallTypes, CallInv, RepeatTypes, TokenInv, CancelStops, NEW t \in Threads, PostClosure(t)
    PROVE  TokenInv' /\ CancelStops'
<1>1. /\ pc[t] = "post" /\ Posting(t) /\ Return(t) /\ UNCHANGED flag
      /\ repeat' = [repeat EXCEPT !.at = call[t].found] \/ repeat' = repeat
  BY DEF PostClosure, Posting
<1>2. /\ repeat'.id = repeat.id /\ repeat'.left = repeat.left /\ repeat'.asked = repeat.asked
      /\ repeat'.runs = repeat.runs /\ repeat'.late = repeat.late
  BY <1>1 DEF RepeatTypes
<1>3. Holds(t) /\ Ahead /\ repeat.id # None /\ repeat.late = << >> /\ \A s \in Threads : s # t => ~ Holds(s)
  BY <1>1 DEF TokenInv, Holds, Ahead
<1>4. /\ ~ Holds(t)' /\ pc'[t] = "idle"
      /\ \A s \in Threads : s # t => pc'[s] = pc[s] /\ call'[s] = call[s]
  BY <1>1, ReturnFacts, MoveFacts
<1>5. \A s \in Threads : ~ Holds(s)'
  BY <1>3, <1>4 DEF Holds, Posting
<1>6. flag # None => pc'[flag] \notin {"call", "enter"}
  BY <1>4, <1>5 DEF RepeatTypes, Holds, Calling
<1>7. CancelStops'
  BY <1>1, <1>2 DEF CancelStops
<1> QED
  BY <1>1, <1>2, <1>3, <1>5, <1>6, <1>7 DEF TokenInv

LEMMA RunRepeatedlyToken ==
    ASSUME CallTypes, CallInv, RepeatTypes, TokenInv, CancelStops, NEW t \in Threads,
           RunRepeatedly(t)
    PROVE  TokenInv' /\ CancelStops'
<1> USE NoneAssumption
<1>1. /\ repeat.at = t /\ repeat' = [repeat EXCEPT !.at = None] /\ UNCHANGED <<call, flag>>
      /\ (flag # None /\ UNCHANGED pc) \/ (flag = None /\ pc' = [pc EXCEPT ![t] = "call"])
  BY DEF RunRepeatedly, Expired, Go
<1>2. /\ repeat'.id = repeat.id /\ repeat'.left = repeat.left /\ repeat'.asked = repeat.asked
      /\ repeat'.runs = repeat.runs /\ repeat'.late = repeat.late /\ repeat'.at = None
  BY <1>1 DEF RepeatTypes
<1>3. Ahead /\ repeat.id # None /\ repeat.late = << >> /\ \A s \in Threads : ~ Holds(s)
  BY <1>1 DEF TokenInv, Ahead
<1>4. \A s \in Threads : s # t => ~ Holds(s)'
  BY <1>1, <1>3 DEF Holds, Posting, CallTypes
<1>5. flag # None => pc'[flag] \notin {"call", "enter"}
  BY <1>1 DEF TokenInv
<1>6. CancelStops'
  BY <1>1, <1>2 DEF CancelStops
<1> QED
  BY <1>1, <1>2, <1>3, <1>4, <1>5, <1>6 DEF TokenInv

LEMMA EnterCallbackToken ==
    ASSUME CallTypes, CallInv, RepeatTypes, TokenInv, CancelStops, NEW t \in Threads,
           EnterCallback(t)
    PROVE  TokenInv' /\ CancelStops'
<1> USE NoneAssumption, BoundsAssumption, TimesAssumption
<1>1. /\ pc[t] = "enter" /\ pc' = [pc EXCEPT ![t] = "callback"] /\ UNCHANGED <<call, flag>>
      /\ repeat' = [repeat EXCEPT !.runs = IF @ < MaxRuns THEN @ + 1 ELSE @,
                                  !.late = IF flag = None THEN @ ELSE Append(@, t)]
  BY DEF EnterCallback, Go
<1>2. /\ repeat'.id = repeat.id /\ repeat'.left = repeat.left /\ repeat'.asked = repeat.asked
      /\ repeat'.at = repeat.at
      /\ repeat'.runs = IF repeat.runs < MaxRuns THEN repeat.runs + 1 ELSE repeat.runs
      /\ repeat'.late = IF flag = None THEN repeat.late ELSE Append(repeat.late, t)
  BY <1>1 DEF RepeatTypes
<1>3. Holds(t) /\ Ahead
  BY <1>1 DEF Holds, Ahead, Calling
<1>4. /\ repeat.id # None /\ repeat.late = << >> /\ repeat.at = None /\ flag # t
      /\ \A s \in Threads : s # t => ~ Holds(s)
  BY <1>1, <1>3 DEF TokenInv
<1>5. /\ pc'[t] = "callback" /\ ~ Posting(t)
      /\ \A s \in Threads : s # t => pc'[s] = pc[s]
  BY <1>1 DEF CallTypes, CallInv, Posting, Calling
<1>6. (\A s \in Threads : s # t => ~ Holds(s)') /\ ~ Ahead'
  <2>1. \A s \in Threads : s # t => ~ Holds(s)'
    BY <1>1, <1>4, <1>5 DEF Holds, Posting
  <2>2. \A s \in Threads : pc'[s] \notin {"call", "enter"} /\ ~ Posting(s)'
    BY <1>1, <1>5, <2>1 DEF Holds, Posting, Calling
  <2> QED
    BY <1>2, <1>4, <2>1, <2>2 DEF Ahead
<1>7. flag # None => pc'[flag] \notin {"call", "enter"}
  BY <1>4, <1>5 DEF TokenInv, RepeatTypes
<1>8. repeat.asked >= 1 => /\ repeat'.left >= 1 /\ repeat'.left <= repeat'.asked
                           /\ repeat'.runs <= repeat'.asked - repeat'.left + 1
  <2>1. repeat.runs \in 0..MaxRuns /\ repeat.asked \in Int /\ repeat.left \in Int
    BY RepeatNumbers
  <2> QED
    BY <1>2, <1>3, <2>1 DEF TokenInv
<1>9. CancelStops'
  <2>1. Append(<< >>, t) = << t >> /\ Len(<< t >>) = 1 /\ << t >>[1] = t /\ DOMAIN << t >> = {1}
        /\ Len(<< >>) = 0 /\ DOMAIN << >> = {}
    OBVIOUS
  <2>2. repeat'.late \in {<< >>, << t >>}
    BY <1>2, <1>4, <2>1
  <2> QED
    BY <1>1, <1>4, <2>1, <2>2 DEF CancelStops
<1>10. repeat'.late # << >> => flag # None
  BY <1>2, <1>4
<1> QED
  BY <1>1, <1>2, <1>4, <1>6, <1>7, <1>8, <1>9, <1>10 DEF TokenInv

LEMMA PostAgainToken ==
    ASSUME CallTypes, CallInv, RepeatTypes, TokenInv, CancelStops, NEW t \in Threads, PostAgain(t)
    PROVE  TokenInv' /\ CancelStops'
<1> USE NoneAssumption, TimesAssumption
<1>1. pc[t] = "return" /\ UNCHANGED flag
  BY DEF PostAgain
<1>2. Holds(t) /\ repeat.id # None /\ repeat.at = None /\ \A s \in Threads : s # t => ~ Holds(s)
  BY <1>1 DEF TokenInv, Holds, Calling
<1>3. CASE Return(t) /\ UNCHANGED repeat
  <2>1. \E place, record : Moves(t, place, record) /\ Keeps(t, place, record)
    <3>1. Moves(t, "idle", Idle)
      BY <1>3, ReturnFacts
    <3>2. Idle.for # "repeat" /\ "idle" \notin Calling
      BY DEF Idle, Calling
    <3> QED
      BY <3>1, <3>2 DEF Keeps
  <2> QED
    BY <1>1, <1>3, <2>1, KeepsToken
<1>4. CASE ~ (Return(t) /\ UNCHANGED repeat)
  <2> DEFINE left == IF repeat.left = -1 THEN -1 ELSE repeat.left - 1
  <2>1. /\ flag = None /\ left # 0 /\ repeat' = [repeat EXCEPT !.left = left]
        /\ GetMessageLoop(t, "repeat", repeat.id)
    BY <1>4 DEF PostAgain, Expired
  <2>2. /\ repeat'.id = repeat.id /\ repeat'.left = left /\ repeat'.asked = repeat.asked
        /\ repeat'.at = repeat.at /\ repeat'.runs = repeat.runs /\ repeat'.late = repeat.late
    BY <2>1 DEF RepeatTypes
  <2>3. repeat.late = << >>
    BY <2>1 DEF TokenInv
  <2>4. \A s \in Threads : s # t => ~ Holds(s)'
    BY <1>2, <2>1 DEF GetMessageLoop, Go, Holds, Posting, CallTypes
  <2>5. repeat.asked >= 1 => /\ left >= 1 /\ left <= repeat.asked
                             /\ repeat.runs <= repeat.asked - left
                             /\ repeat.runs <= repeat.asked - left + 1
    <3>1. repeat.runs \in Int /\ repeat.asked \in Int /\ repeat.left \in Int
      BY RepeatNumbers
    <3> QED
      BY <2>1, <3>1 DEF TokenInv
  <2>6. CancelStops'
    BY <1>1, <2>2 DEF CancelStops
  <2> HIDE DEF left
  <2> QED
    BY <1>1, <1>2, <2>1, <2>2, <2>3, <2>4, <2>5, <2>6 DEF TokenInv
<1> QED
  BY <1>3, <1>4

LEMMA CancelToken ==
    ASSUME RepeatTypes, TokenInv, CancelStops, NEW t \in Threads, Cancel(t)
    PROVE  TokenInv' /\ CancelStops'
<1>1. /\ pc[t] \in {"idle", "callback"} /\ repeat.id # None /\ flag = None /\ flag' = t
      /\ UNCHANGED <<pc, call, repeat>>
  BY DEF Cancel
<1>2. (\A s \in Threads : Holds(s)' <=> Holds(s)) /\ (Ahead' <=> Ahead) /\ repeat.late = << >>
  BY <1>1 DEF Holds, Posting, Ahead, TokenInv
<1> QED
  BY <1>1, <1>2 DEF TokenInv, CancelStops

LEMMA PostRepeatedToken ==
    ASSUME CallTypes, RepeatTypes, TokenInv, CancelStops, NEW t \in Threads, NEW i \in Ids,
           NEW n \in Times, PostRepeatedTask(t, i, n)
    PROVE  TokenInv' /\ CancelStops'
<1> USE NoneAssumption, TimesAssumption
<1>1. /\ repeat.id = None /\ repeat' = [repeat EXCEPT !.id = i, !.left = n, !.asked = n]
      /\ UNCHANGED flag
      /\ pc' = [pc EXCEPT ![t] = "query"]
      /\ call' = [call EXCEPT ![t] = [Idle EXCEPT !.for = "repeat", !.id = i]]
  BY DEF PostRepeatedTask, GetMessageLoop, Go
<1>2. /\ repeat'.id = i /\ repeat'.left = n /\ repeat'.asked = n
      /\ repeat'.at = repeat.at /\ repeat'.runs = repeat.runs /\ repeat'.late = repeat.late
  BY <1>1 DEF RepeatTypes
<1>3. /\ repeat.at = None /\ flag = None /\ repeat.late = << >> /\ repeat.runs = 0
      /\ \A s \in Threads : ~ Holds(s)
  BY <1>1 DEF TokenInv
<1>4. \A s \in Threads : s # t => ~ Holds(s)'
  BY <1>1, <1>3 DEF Holds, Posting, CallTypes
<1>5. CancelStops'
  BY <1>1, <1>2 DEF CancelStops
<1>6. i # None /\ n \in Int
  OBVIOUS
<1> QED
  BY <1>1, <1>2, <1>3, <1>4, <1>5, <1>6 DEF TokenInv

LEMMA TokenNext ==
    ASSUME CallTypes, CallInv, RelayTypes, RepeatTypes, TokenInv, CancelStops, Next
    PROVE  TokenInv' /\ CancelStops'
<1>1. CASE \E t \in Threads :
             \/ DeleteLoop(t) \/ PostClosure(t) \/ RunRepeatedly(t) \/ EnterCallback(t)
             \/ PostAgain(t) \/ Cancel(t)
             \/ \E i \in Ids, n \in Times : PostRepeatedTask(t, i, n)
  BY <1>1, DeleteLoopToken, PostClosureToken, RunRepeatedlyToken, EnterCallbackToken,
     PostAgainToken, CancelToken, PostRepeatedToken
<1>2. CASE ~ \E t \in Threads :
             \/ DeleteLoop(t) \/ PostClosure(t) \/ RunRepeatedly(t) \/ EnterCallback(t)
             \/ PostAgain(t) \/ Cancel(t)
             \/ \E i \in Ids, n \in Times : PostRepeatedTask(t, i, n)
  <2>1. UNCHANGED <<repeat, flag>>
    BY <1>2, RepeatActions
  <2>2. \/ UNCHANGED <<pc, call>>
        \/ \E t \in Threads :
             \/ QueryThreadInternal(t) \/ ReadMessageLoop(t) \/ ReadProxy(t)
             \/ PostTaskAndReply(t) \/ EndReply(t) \/ TestFlag(t) \/ LeaveCallback(t)
             \/ BeginReply(t) \/ \E r \in Relays, i \in Ids : Await(t, r, i)
    BY <1>2, CallActions DEF InCall
  <2>3. \/ UNCHANGED <<pc, call>>
        \/ \E t \in Threads : \E place, record : Moves(t, place, record) /\ Keeps(t, place, record)
    BY <2>2, KeepsMoves
  <2> QED
    BY <2>1, <2>3, KeepsToken
<1> QED
  BY <1>1, <1>2

-----------------------------------------------------------------------------
(* The theorems.                                                            *)
LEMMA Whole == MapTypes /\ LifeTypes /\ CallTypes /\ RelayTypes /\ RepeatTypes => TypeOK
<1> SUFFICES ASSUME MapTypes, LifeTypes, CallTypes, RelayTypes, RepeatTypes PROVE TypeOK
  OBVIOUS
<1>1. /\ threads \in [Ids -> Threads \cup {None}] /\ managed \in [Threads -> 0..MaxManaged]
      /\ managedId \in [Threads -> Ids \cup {None}] /\ mixed \subseteq Threads
  BY DEF MapTypes
<1>2. /\ life \in [Threads -> {"none", "run", "cleanup", "deleted"}]
      /\ starts \in [Threads -> Nat]
  BY DEF LifeTypes
<1>3. pc \in [Threads -> Places] /\ call \in [Threads -> CallRecord]
  BY DEF CallTypes
<1>4. relay \in [Relays -> RelayRecord] /\ queue \in [Threads -> Seq(Relays)]
  BY DEF RelayTypes
<1> QED
  BY <1>1, <1>2, <1>3, <1>4 DEF TypeOK, RepeatTypes, Places, CallRecord, RelayRecord

LEMMA IInvInit == Init => IInv
<1> SUFFICES ASSUME Init PROVE IInv
  OBVIOUS
<1> USE NoneAssumption, BoundsAssumption, TimesAssumption
<1>1. MapTypes /\ LifeTypes
  BY DEF Init, MapTypes, LifeTypes
<1>2. Idle \in CallRecord /\ Idle.for = None
  BY DEF Idle, CallRecord
<1>3. CallTypes
  BY <1>2 DEF Init, CallTypes, Places
<1>4. RelayTypes
  <2>1. [at |-> "none", origin |-> None, home |-> 0, target |-> None, away |-> 0,
         task |-> FALSE] \in RelayRecord
    BY DEF RelayRecord
  <2>2. << >> \in Seq(Relays)
    OBVIOUS
  <2> QED
    BY <2>1, <2>2 DEF Init, RelayTypes
<1>5. RepeatTypes
  <2>1. 0 \in 0..MaxRuns /\ 0 \in Int /\ 0 \in Times \cup {0}
    OBVIOUS
  <2>2. repeat = [at |-> None, id |-> None, left |-> 0, asked |-> 0, runs |-> 0, late |-> << >>]
    BY DEF Init
  <2>3. repeat \in [at : Threads \cup {None}, id : Ids \cup {None}, left : Int,
                   asked : Times \cup {0}, runs : 0..MaxRuns, late : Seq(Threads)]
    BY <2>1, <2>2
  <2> QED
    BY <2>3 DEF Init, RepeatTypes
<1>6. MapInv /\ RegistryExact
  BY DEF Init, MapInv, RegistryExact
<1>7. CallInv
  BY <1>2 DEF Init, CallInv, Looking, Calling
<1>8. RelayInv
  <2>1. \A r \in Relays : RelayOk(r)
    BY DEF Init, RelayOk, Waits, Holding
  <2>2. NoCopies
    BY DEF Init, NoCopies, Once
  <2>3. RelayCalls
    BY <1>2 DEF Init, RelayCalls, Looking
  <2> QED
    BY <2>1, <2>2, <2>3 DEF RelayInv
<1>9. TokenInv
  <2>1. \A t \in Threads : ~ Holds(t)
    BY <1>2 DEF Init, Holds, Posting, Calling
  <2> QED
    BY <2>1 DEF Init, TokenInv
<1>10. CancelStops
  BY DEF Init, CancelStops
<1> QED
  BY <1>1, <1>3, <1>4, <1>5, <1>6, <1>7, <1>8, <1>9, <1>10, Whole DEF IInv

LEMMA IInvNext == IInv /\ [Next]_vars => IInv'
<1> SUFFICES ASSUME IInv, [Next]_vars PROVE IInv'
  OBVIOUS
<1>1. CASE Next
  <2>1. /\ MapTypes /\ LifeTypes /\ CallTypes /\ RelayTypes /\ RepeatTypes
        /\ MapInv /\ CallInv /\ RegistryExact /\ RelayInv /\ TokenInv /\ CancelStops
    BY Parts DEF IInv
  <2>2. LifeTypes' /\ MapTypes' /\ MapInv' /\ RegistryExact'
    BY <1>1, <2>1, LifeNext, MapNext
  <2>3. CallTypes' /\ CallInv'
    BY <1>1, <2>1, CallNext
  <2>4. RelayTypes' /\ RelayInv'
    BY <1>1, <2>1, RelayNext
  <2>5. RepeatTypes' /\ TokenInv' /\ CancelStops'
    BY <1>1, <2>1, RepeatTypesNext, TokenNext
  <2>6. TypeOK'
    BY <2>2, <2>3, <2>4, <2>5, Whole, PTL
  <2> QED
    BY <2>2, <2>3, <2>4, <2>5, <2>6 DEF IInv
<1>2. CASE UNCHANGED vars
  <2>1. /\ UNCHANGED <<threads, managed, managedId, mixed, life, starts, queue>>
        /\ UNCHANGED <<pc, call, relay, repeat, flag, crashed>>
    BY <1>2 DEF vars, mapVars, threadVars
  <2>2. TypeOK'
    BY <2>1 DEF IInv, TypeOK
  <2>3. MapInv' /\ RegistryExact' /\ CancelStops'
    BY <2>1 DEF IInv, MapInv, RegistryExact, OneId, CancelStops
  <2>4. CallInv'
    BY <2>1 DEF IInv, CallInv
  <2>5. RelayInv'
    BY <2>1 DEF IInv, RelayInv, RelayOk, Waits, Alive, NoCopies, RelayCalls
  <2>6. TokenInv'
    BY <2>1 DEF IInv, TokenInv, Holds, Posting, Ahead
  <2> QED
    BY <2>2, <2>3, <2>4, <2>5, <2>6 DEF IInv
<1> QED
  BY <1>1, <1>2

LEMMA Inductive == Spec => []IInv
  BY IInvInit, IInvNext, PTL DEF Spec

(* Every variable keeps its type; so, for one, a loop's queue holds relays. *)
THEOREM TypeCorrect == Spec => []TypeOK
<1>1. IInv => TypeOK
  BY DEF IInv
<1> QED
  BY <1>1, Inductive, PTL

(* Registration and its undoing, nested or not, by any threads in any       *)
(* order, keep the map exact for a thread with one identifier.              *)
THEOREM RegistryExactCorrect == Spec => []RegistryExact
<1>1. IInv => RegistryExact
  BY DEF IInv
<1> QED
  BY <1>1, Inductive, PTL

(* The outermost UnregisterThread of a thread that another one has found    *)
(* and whose loop it has yet to ask for the proxy.                          *)
Overtakes ==
    \E s, t \in Threads : /\ managed[s] > 0 /\ managed'[s] = 0
                          /\ pc[t] \in {"read", "use"} /\ call[t].found = s

OneIdEach == mixed = {}

(* What the thread looked up has not changed since.                         *)
Found(t) ==
    /\ pc[t] \in {"read", "use"} => managed[call[t].found] > 0
    /\ pc[t] = "use" => call[t].loop = starts[call[t].found]

FoundInv == ~ crashed /\ \A t \in Threads : Found(t)

LEMMA FoundStays ==
    ASSUME IInv, FoundInv, Next, ~ Overtakes, NEW t \in Threads, pc[t] \in {"read", "use"}
    PROVE  /\ call[t].found \in Threads /\ life[call[t].found] \in {"run", "cleanup"}
           /\ managed'[call[t].found] > 0 /\ starts'[call[t].found] = starts[call[t].found]
<1> DEFINE f == call[t].found
<1>1. MapTypes /\ LifeTypes /\ MapInv /\ f \in Threads /\ managed[f] > 0
  BY Parts DEF IInv, CallInv, FoundInv, Found
<1>2. life[f] \in {"run", "cleanup"}
  BY <1>1 DEF MapInv
<1>3. managed'[f] > 0
  <2>1. CASE UNCHANGED mapVars
    BY <1>1, <2>1 DEF mapVars
  <2>2. ASSUME NEW s \in Threads, NEW i \in Ids, RegisterThread(s, i)
        PROVE  managed'[f] > 0
    <3>1. managed' = [managed EXCEPT ![s] = @ + 1] /\ managed \in [Threads -> 0..MaxManaged]
      BY <1>1, <2>2 DEF RegisterThread, MapTypes
    <3> QED
      BY <1>1, <3>1, BoundsAssumption
  <2>3. ASSUME NEW s \in Threads, UnregisterThread(s)
        PROVE  managed'[f] > 0
    <3>1. /\ managed' = [managed EXCEPT ![s] = @ - 1] /\ managed \in [Threads -> 0..MaxManaged]
          /\ managed'[f] # 0
      BY <1>1, <2>3 DEF UnregisterThread, MapTypes, Overtakes
    <3> HIDE DEF f
    <3> QED
      BY <1>1, <3>1, BoundsAssumption
  <2> QED
    BY <2>1, <2>2, <2>3, MapActions
<1>4. starts'[f] = starts[f]
  <2>1. CASE UNCHANGED threadVars
    BY <2>1 DEF threadVars
  <2>2. ASSUME NEW s \in Threads, Life(s)
        PROVE  starts'[f] = starts[f]
    BY <1>1, <1>2, <2>2 DEF Life, Start, Quit, DeleteLoop, Exit, LifeTypes
  <2> QED
    BY <2>1, <2>2, LifeActions
<1> QED
  BY <1>1, <1>2, <1>3, <1>4

(* Who begins to look a thread up finds one that is managed.                *)
LEMMA FoundMoves ==
    ASSUME IInv, OneIdEach, FoundInv, Next, ~ Overtakes, NEW t \in Threads
    PROVE  Found(t)'
<1> USE NoneAssumption
<1>1. MapTypes /\ CallTypes /\ CallInv /\ RegistryExact
  BY Parts DEF IInv
<1>2. CASE pc'[t] = pc[t] /\ call'[t] = call[t]
  BY <1>2, FoundStays DEF Found, FoundInv
<1>3. CASE pc'[t] \notin {"read", "use"}
  BY <1>3 DEF Found
<1>4. CASE QueryThreadInternal(t)
  <2>1. CASE pc'[t] = "read"
    <3>1. /\ call'[t].found = threads[call[t].id] /\ threads[call[t].id] # None
          /\ call[t].id \in Ids /\ managed' = managed
      BY <1>1, <1>4, <2>1 DEF QueryThreadInternal, Return, Go, CallTypes, CallRecord, CallInv,
                              Looking, mapVars
    <3>2. managed[threads[call[t].id]] > 0
      BY <1>1, <3>1 DEF RegistryExact, OneId, OneIdEach, MapTypes
    <3> QED
      BY <2>1, <3>1, <3>2 DEF Found
  <2>2. pc'[t] \in {"read", "idle"}
    BY <1>1, <1>4 DEF QueryThreadInternal, Return, Go, CallTypes
  <2> QED
    BY <1>3, <2>1, <2>2
<1>5. CASE ReadMessageLoop(t)
  <2>1. CASE pc'[t] = "use"
    <3>1. /\ pc[t] = "read" /\ call'[t].found = call[t].found
          /\ call'[t].loop = starts[call[t].found]
      BY <1>1, <1>5, <2>1 DEF ReadMessageLoop, Return, Go, CallTypes, CallRecord
    <3> QED
      BY <2>1, <3>1, FoundStays DEF Found
  <2>2. pc'[t] \in {"use", "idle"}
    BY <1>1, <1>5 DEF ReadMessageLoop, Return, Go, CallTypes
  <2> QED
    BY <1>3, <2>1, <2>2
<1>6. ASSUME NEW s \in Threads, InCall(s), ~ QueryThreadInternal(t), ~ ReadMessageLoop(t)
      PROVE  \/ pc'[t] = pc[t] /\ call'[t] = call[t]
             \/ pc'[t] \notin {"read", "use"}
  BY <1>1, <1>6 DEF InCall, QueryThreadInternal, ReadMessageLoop, ReadProxy, PostTaskAndReply,
     EndReply, PostClosure, TestFlag, EnterCallback, LeaveCallback, PostAgain, Return, Go,
     GetMessageLoop, CallTypes
<1>7. ASSUME NEW s \in Threads,
             \/ BeginReply(s) \/ RunRepeatedly(s)
             \/ \E r \in Relays, i \in Ids : Await(s, r, i)
             \/ \E i \in Ids, n \in Times : PostRepeatedTask(s, i, n)
      PROVE  \/ pc'[t] = pc[t] /\ call'[t] = call[t]
             \/ pc'[t] \notin {"read", "use"}
  BY <1>1, <1>7 DEF BeginReply, RunRepeatedly, Await, PostRepeatedTask, GetMessageLoop, Go, CallTypes
<1> QED
  BY <1>2, <1>3, <1>4, <1>5, <1>6, <1>7, CallActions

LEMMA FoundNext ==
    ASSUME IInv, OneIdEach, FoundInv, [Next]_vars, [~ Overtakes]_vars
    PROVE  FoundInv'
<1>1. CASE Next /\ ~ Overtakes
  <2>1. \A t \in Threads : Found(t)'
    BY <1>1, FoundMoves
  <2>2. ASSUME NEW t \in Threads, ReadProxy(t) PROVE ~ crashed'
    BY <1>1, <2>2, FoundStays DEF ReadProxy, FoundInv, Found, Alive
  <2>3. crashed' = crashed \/ \E t \in Threads : ReadProxy(t)
    BY <1>1 DEF Next, InCall, RunQueued, Closures, Life, QueryThreadInternal, ReadMessageLoop,
       PostTaskAndReply, EndReply, PostClosure, TestFlag, EnterCallback, LeaveCallback, PostAgain,
       RunRelay, BeginReply, RunRepeatedly, RegisterThread, UnregisterThread, Await,
       PostRepeatedTask, Cancel, Start, Quit, DeleteLoop, Exit
  <2> QED
    BY <2>1, <2>2, <2>3 DEF FoundInv
<1>2. CASE UNCHANGED vars
  BY <1>2 DEF vars, mapVars, threadVars, FoundInv, Found
<1> QED
  BY <1>1, <1>2

(* GetMessageLoop takes no lock.  All that makes it use a deleted loop is   *)
(* the last UnregisterThread of the thread it has found: if none ever came  *)
(* between the lookup and the use, for instance because UnregisterThread    *)
(* waited for the lookups under way, no loop would be used after its        *)
(* deletion, however threads end, start again and post to each other.       *)
THEOREM LookupSafeUnlessOvertaken ==
    Spec /\ []OneIdEach /\ [][~ Overtakes]_vars => []LookupSafe
<1>1. Init => FoundInv
  BY DEF Init, FoundInv, Found
<1>2. FoundInv => LookupSafe
  BY DEF FoundInv, LookupSafe
<1> QED
  BY <1>1, <1>2, FoundNext, Inductive, PTL DEF Spec

(* Await's task and its reply are in one place each, in their order, for    *)
(* every interleaving of the two loops with the end of either.              *)
THEOREM RelayInPlaceCorrect == Spec => []RelayInPlace
<1>1. IInv => RelayInPlace
  BY InPlace DEF IInv
<1> QED
  BY <1>1, Inductive, PTL

(* A repeated task asked for n times runs n times at most, whichever        *)
(* threads its repetitions go to.                                           *)
THEOREM RepeatBoundCorrect == Spec => []RepeatBound
<1>1. IInv => RepeatBound
  <2> SUFFICES ASSUME IInv, repeat.asked >= 1 PROVE repeat.runs <= repeat.asked
    BY DEF RepeatBound
  <2>1. /\ repeat.left >= 1 /\ repeat.runs <= repeat.asked - repeat.left + 1
    BY DEF IInv, TokenInv
  <2>2. repeat.runs \in Int /\ repeat.asked \in Int /\ repeat.left \in Int
    BY Parts, RepeatNumbers
  <2> QED
    BY <2>1, <2>2
<1> QED
  BY <1>1, Inductive, PTL

(* A cancelled callback is not entered again by the thread that cancelled   *)
(* it, and at most once by one other, which had already tested the flag.    *)
THEOREM CancelStopsCorrect == Spec => []CancelStops
<1>1. IInv => CancelStops
  BY DEF IInv
<1> QED
  BY <1>1, Inductive, PTL

=============================================================================
