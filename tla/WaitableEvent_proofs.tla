------------------------ MODULE WaitableEvent_proofs ------------------------
(***************************************************************************)
(* WaitableEvent's safety for any events, any number of threads and any    *)
(* arrays WaitMultiple may be given.                                       *)
(***************************************************************************)
EXTENDS WaitableEvent, TLAPS, FiniteSetTheorems, SequenceTheorems, WellFoundedInduction

Waits == {"test", "sleep", "dequeue", "undo"}
PCs   == {"idle", "fire", "many"} \cup Waits
Calls == [events : Seq(Events), left : SUBSET Events, many : BOOLEAN, timed : BOOLEAN,
          result : BOOLEAN]

(* While a lock is held from one step to another its event is not signaled. *)
LockInv == \A e \in Events : lock[e] # None => ~ signaled[e]

(* Who holds which locks: Signal that of its event, EnqueueMultiple those   *)
(* of the events it has passed.                                             *)
HoldsInv == \A t \in Threads :
    /\ pc[t] = "fire" => lock[Head(call[t].events)] = t
    /\ pc[t] = "many" => /\ call[t].left \subseteq ToSet(call[t].events) /\ call[t].left # {}
                         /\ \A e \in ToSet(call[t].events) : e \in call[t].left \/ lock[e] = t

(* Calls of a single event have just that; an array is undone to its end.   *)
CallInv == \A t \in Threads :
    /\ pc[t] # "idle" => call[t].events # << >>
    /\ pc[t] = "fire" \/ (pc[t] \in Waits /\ Single(t)) =>
           \E e \in Events : call[t].events = << e >>
    /\ pc[t] = "many" => ~ Single(t)
    /\ pc[t] = "undo" => ~ Single(t) /\ fired[t]
    /\ pc[t] = "dequeue" => Single(t) /\ fired[t]

(* A waiter is in the lists of events its call is about, at most once, and  *)
(* not in that of the event that fired it.                                  *)
ListInv ==
    /\ \A e \in Events : IsInjective(waiters[e])
    /\ \A e \in Events : \A t \in ToSet(waiters[e]) :
          pc[t] \in Waits /\ e \in ToSet(call[t].events)
    /\ \A t \in Threads : by[t] # None => t \notin ToSet(waiters[by[t]])

(* A waiter that fired, but by its own timeout, was fired by an event of    *)
(* its call.                                                                *)
FiredInv == \A t \in Threads :
    /\ by[t] # None /\ pc[t] \in Waits /\ Single(t) => call[t].events = << by[t] >>
    /\ pc[t] \in {"test", "sleep", "undo"} /\ fired[t] => by[t] # None
    /\ pc[t] = "dequeue" /\ call[t].result => by[t] # None

NoneWaits == \A e \in Events : signaled[e] => \A t \in ToSet(waiters[e]) : fired[t]

IInv == /\ TypeOK /\ LockInv /\ HoldsInv /\ CallInv /\ ListInv /\ FiredInv /\ NoneWaits
        /\ SignalsConserved

-----------------------------------------------------------------------------
(* Lists.                                                                   *)

LEMMA Members ==
    ASSUME NEW S, NEW q \in Seq(S)
    PROVE  /\ Len(q) \in Nat /\ DOMAIN q = 1..Len(q) /\ ToSet(q) \subseteq S
           /\ \A x : x \in ToSet(q) <=> \E k \in 1..Len(q) : q[k] = x
           /\ IsInjective(q) <=> \A i, j \in 1..Len(q) : q[i] = q[j] => i = j
           /\ q = << >> <=> Len(q) = 0
BY DEF ToSet, IsInjective

LEMMA AppendList ==
    ASSUME NEW S, NEW q \in Seq(S), NEW t \in S
    PROVE  /\ Append(q, t) \in Seq(S) /\ ToSet(Append(q, t)) = ToSet(q) \cup {t}
           /\ IsInjective(q) /\ t \notin ToSet(q) => IsInjective(Append(q, t))
<1> DEFINE r == Append(q, t)
<1>1. /\ r \in Seq(S) /\ Len(r) = Len(q) + 1 /\ r[Len(q) + 1] = t
      /\ \A k \in 1..Len(q) : r[k] = q[k]
  OBVIOUS
<1> HIDE DEF r
<1>2. Len(q) \in Nat /\ \A k \in 1..Len(q) + 1 : k \in 1..Len(q) \/ k = Len(q) + 1
  OBVIOUS
<1>3. ToSet(r) = ToSet(q) \cup {t}
  BY <1>1, <1>2, Members
<1>4. ASSUME IsInjective(q), t \notin ToSet(q) PROVE IsInjective(r)
  <2>1. \A i, j \in 1..Len(q) : q[i] = q[j] => i = j
    BY <1>4, Members
  <2>2. \A i \in 1..Len(q) : q[i] # t
    BY <1>4, Members
  <2>3. \A i, j \in 1..Len(q) + 1 : r[i] = r[j] => i = j
    BY <1>1, <1>2, <2>1, <2>2
  <2>4. QED
    BY <1>1, <2>3, Members
<1>5. QED
  BY <1>1, <1>3, <1>4 DEF r

LEMMA TailList ==
    ASSUME NEW S, NEW q \in Seq(S), q # << >>
    PROVE  /\ Head(q) \in ToSet(q) /\ Head(q) \in S /\ Tail(q) \in Seq(S)
           /\ ToSet(q) = ToSet(Tail(q)) \cup {Head(q)}
           /\ IsInjective(q) => IsInjective(Tail(q)) /\ Head(q) \notin ToSet(Tail(q))
<1> DEFINE r == Tail(q)
<1>1. /\ r \in Seq(S) /\ Len(r) = Len(q) - 1 /\ \A k \in 1..Len(r) : r[k] = q[k + 1]
      /\ Len(q) \in Nat /\ Len(q) > 0 /\ Head(q) = q[1]
  OBVIOUS
<1> HIDE DEF r
<1>2. PICK n \in Nat : n = Len(r) /\ Len(q) = n + 1
  BY <1>1
<1>3. /\ 1 \in 1..n + 1 /\ \A k \in 1..n : k + 1 \in 1..n + 1 /\ k + 1 # 1
      /\ \A k \in 1..n + 1 : k = 1 \/ (k - 1 \in 1..n /\ k - 1 + 1 = k)
  OBVIOUS
<1>4. Head(q) \in ToSet(q) /\ Head(q) \in S
  BY <1>1, <1>2, <1>3, Members
<1>5. ToSet(q) = ToSet(r) \cup {Head(q)}
  <2>1. \A x : x \in ToSet(r) => x \in ToSet(q)
    BY <1>1, <1>2, <1>3, Members
  <2>2. \A x : x \in ToSet(q) => x \in ToSet(r) \/ x = Head(q)
    <3>1. SUFFICES ASSUME NEW k \in 1..n + 1, k # 1 PROVE q[k] \in ToSet(r)
      BY <1>1, <1>2, Members
    <3>2. PICK j \in 1..n : j + 1 = k
      BY <1>3, <3>1
    <3>3. r[j] = q[k]
      BY <1>1, <1>2, <3>2
    <3>4. QED
      BY <1>1, <1>2, <3>3, Members
  <2>3. QED
    BY <1>4, <2>1, <2>2
<1>6. ASSUME IsInjective(q) PROVE IsInjective(r) /\ Head(q) \notin ToSet(r)
  <2>1. \A i, j \in 1..n + 1 : q[i] = q[j] => i = j
    BY <1>2, <1>6, Members
  <2>2. \A i, j \in 1..n : r[i] = r[j] => i = j
    BY <1>1, <1>2, <1>3, <2>1
  <2>3. \A i \in 1..n : r[i] # Head(q)
    BY <1>1, <1>2, <1>3, <2>1
  <2>4. QED
    BY <1>1, <1>2, <2>2, <2>3, Members
<1>7. QED
  BY <1>1, <1>4, <1>5, <1>6 DEF r

(* A list without its element at k.                                         *)
LEMMA RemovedAt ==
    ASSUME NEW S, NEW q \in Seq(S), NEW k \in 1..Len(q)
    PROVE  /\ RemoveAt(q, k) \in Seq(S) /\ Len(RemoveAt(q, k)) = Len(q) - 1
           /\ \A i \in 1..Len(q) - 1 : RemoveAt(q, k)[i] = IF i < k THEN q[i] ELSE q[i + 1]
<1>1. Len(q) \in Nat /\ k \in Nat /\ k > 0 /\ k <= Len(q)
  OBVIOUS
<1>2. PICK n \in Nat : n = Len(q)
  BY <1>1
<1> DEFINE a == SubSeq(q, 1, k - 1)
           b == SubSeq(q, k + 1, n)
<1>3. \A i \in 1..n : q[i] \in S
  BY <1>2
<1>4. a \in Seq(S) /\ Len(a) = k - 1 /\ \A i \in 1..k - 1 : a[i] = q[i]
  <2>1. /\ k - 1 \in Int /\ 1 \in Int /\ \A i \in 1..k - 1 : i \in 1..n /\ 1 + i - 1 = i
        /\ (IF 1 <= k - 1 THEN k - 1 - 1 + 1 ELSE 0) = k - 1
        /\ \A i \in 1..k - 1 : i \in 1..k - 1 - 1 + 1
    BY ONLY <1>1, <1>2
  <2>2. /\ a \in Seq(S) /\ Len(a) = IF 1 <= k - 1 THEN k - 1 - 1 + 1 ELSE 0
        /\ \A i \in 1..k - 1 - 1 + 1 : a[i] = q[1 + i - 1]
    BY <1>3, <2>1, SubSeqProperties
  <2>3. QED
    BY <2>1, <2>2
<1>5. b \in Seq(S) /\ Len(b) = n - k /\ \A i \in 1..n - k : b[i] = q[k + i]
  <2>1. /\ k + 1 \in Int /\ n \in Int /\ \A i \in k + 1..n : i \in 1..n
        /\ (IF k + 1 <= n THEN n - (k + 1) + 1 ELSE 0) = n - k
        /\ \A i \in 1..n - k : i \in 1..n - (k + 1) + 1 /\ k + 1 + i - 1 = k + i
    BY ONLY <1>1, <1>2
  <2>2. /\ b \in Seq(S) /\ Len(b) = IF k + 1 <= n THEN n - (k + 1) + 1 ELSE 0
        /\ \A i \in 1..n - (k + 1) + 1 : b[i] = q[k + 1 + i - 1]
    BY <1>3, <2>1, SubSeqProperties
  <2>3. QED
    BY <2>1, <2>2
<1>6. RemoveAt(q, k) = a \o b
  BY <1>2 DEF RemoveAt
<1> HIDE DEF a, b
<1>7. /\ a \o b \in Seq(S) /\ Len(a \o b) = Len(a) + Len(b)
      /\ \A i \in 1..Len(a) + Len(b) : (a \o b)[i] = IF i <= Len(a) THEN a[i] ELSE b[i - Len(a)]
  BY <1>4, <1>5, ConcatProperties
<1>8. k - 1 + (n - k) = n - 1
  BY <1>1, <1>2
<1>9. ASSUME NEW i \in 1..n - 1 PROVE (a \o b)[i] = IF i < k THEN q[i] ELSE q[i + 1]
  <2>1. (a \o b)[i] = IF i <= k - 1 THEN a[i] ELSE b[i - (k - 1)]
    BY <1>4, <1>5, <1>7, <1>8
  <2>2. CASE i < k
    BY <1>1, <1>4, <2>1, <2>2
  <2>3. CASE ~ (i < k)
    <3>1. i - (k - 1) \in 1..n - k /\ k + (i - (k - 1)) = i + 1 /\ ~ (i <= k - 1)
      BY <1>1, <1>2, <2>3
    <3>2. QED
      BY <1>5, <2>1, <2>3, <3>1
  <2>4. QED
    BY <2>2, <2>3
<1>10. QED
  BY <1>2, <1>4, <1>5, <1>6, <1>7, <1>8, <1>9

LEMMA WithoutList ==
    ASSUME NEW S, NEW q \in Seq(S), IsInjective(q), NEW t
    PROVE  /\ Without(q, t) \in Seq(S) /\ IsInjective(Without(q, t))
           /\ ToSet(Without(q, t)) = ToSet(q) \ {t}
<1>1. CASE t \notin ToSet(q)
  BY <1>1 DEF Without
<1>2. CASE t \in ToSet(q)
  <2> DEFINE P(k) == q[k] = t /\ \A j \in 1..k - 1 : q[j] # t
  <2>1. /\ Len(q) \in Nat /\ DOMAIN q = 1..Len(q)
        /\ \A i, j \in 1..Len(q) : q[i] = q[j] => i = j
    BY Members
  <2>2. PICK l \in 1..Len(q) : q[l] = t
    BY <1>2, Members
  <2>3. \A j \in 1..l - 1 : j \in 1..Len(q) /\ j # l
    BY <2>1
  <2>4. P(l)
    BY <2>1, <2>2, <2>3
  <2>5. PICK k \in DOMAIN q : k = (CHOOSE i \in DOMAIN q : P(i)) /\ P(k)
    BY <2>1, <2>2, <2>4
  <2> HIDE DEF P
  <2>6. k \in 1..Len(q) /\ q[k] = t
    BY <2>1, <2>5 DEF P
  <2>7. Without(q, t) = RemoveAt(q, k)
    BY <1>2, <2>5 DEF Without, P
  <2> DEFINE r == RemoveAt(q, k)
  <2>8. /\ r \in Seq(S) /\ Len(r) = Len(q) - 1
        /\ \A i \in 1..Len(q) - 1 : r[i] = IF i < k THEN q[i] ELSE q[i + 1]
    BY <2>6, RemovedAt
  <2> HIDE DEF r
  <2>9. PICK n \in Nat : n = Len(r) /\ Len(q) = n + 1
    <3>1. Len(q) - 1 \in Nat /\ Len(q) = Len(q) - 1 + 1
      BY ONLY <2>1, <2>6
    <3>2. Len(r) \in Nat /\ Len(q) = Len(r) + 1
      BY <2>8, <3>1
    <3>3. QED
      BY <3>2
  <2> DEFINE g(i) == IF i < k THEN i ELSE i + 1
  <2>10. /\ \A i \in 1..n : g(i) \in 1..n + 1 /\ g(i) # k
         /\ \A i, j \in 1..n : g(i) = g(j) => i = j
         /\ \A j \in 1..n + 1 : j # k => \E i \in 1..n : g(i) = j
    <3>1. \A i \in 1..n : g(i) \in 1..n + 1 /\ g(i) # k
      BY <2>6, <2>9
    <3>2. \A i, j \in 1..n : g(i) = g(j) => i = j
      BY <2>6, <2>9
    <3>3. ASSUME NEW j \in 1..n + 1, j # k PROVE \E i \in 1..n : g(i) = j
      <4>1. CASE j < k
        BY <2>6, <2>9, <4>1
      <4>2. CASE j > k
        <5>1. j - 1 \in 1..n /\ g(j - 1) = j
          BY <2>6, <2>9, <4>2
        <5>2. QED
          BY <5>1
      <4>3. QED
        BY <2>6, <2>9, <3>3, <4>1, <4>2
    <3>4. QED
      BY <3>1, <3>2, <3>3
  <2>11. \A i \in 1..n : r[i] = q[g(i)]
    BY <2>1, <2>8, <2>9
  <2> HIDE DEF g
  <2>12. IsInjective(r)
    <3>1. \A i, j \in 1..n : r[i] = r[j] => i = j
      BY <2>1, <2>9, <2>10, <2>11
    <3>2. QED
      BY <2>8, <2>9, <3>1, Members
  <2>13. ToSet(r) = ToSet(q) \ {t}
    <3>1. \A x : x \in ToSet(r) => x \in ToSet(q) /\ x # t
      <4>1. SUFFICES ASSUME NEW i \in 1..n PROVE r[i] \in ToSet(q) /\ r[i] # t
        BY <2>8, <2>9, Members
      <4>2. g(i) \in 1..Len(q) /\ g(i) # k /\ r[i] = q[g(i)]
        BY <2>9, <2>10, <2>11
      <4>3. QED
        BY <2>1, <2>6, <4>2, Members
    <3>2. \A x : x \in ToSet(q) /\ x # t => x \in ToSet(r)
      <4>1. SUFFICES ASSUME NEW j \in 1..n + 1, q[j] # t PROVE q[j] \in ToSet(r)
        BY <2>9, Members
      <4>2. PICK i \in 1..n : g(i) = j
        BY <2>6, <2>10, <4>1
      <4>3. QED
        BY <2>8, <2>9, <2>11, <4>2, Members
    <3>3. QED
      BY <3>1, <3>2
  <2>14. QED
    BY <2>7, <2>8, <2>12, <2>13 DEF r
<1>3. QED
  BY <1>1, <1>2

-----------------------------------------------------------------------------
(* The lock EnqueueMultiple takes next is one it has not.                   *)

LEMMA LeastNatural ==
    ASSUME NEW S, S \subseteq Nat, S # {}
    PROVE  \E n \in S : \A k \in S : n <= k
<1>1. PICK n \in S : \A k \in S : <<k, n>> \notin OpToRel(<, Nat)
  BY WFMin, NatLessThanWellFounded
<1>2. ASSUME NEW k \in S PROVE n <= k
  <2>1. n \in Nat /\ k \in Nat
    OBVIOUS
  <2>2. ~ (k < n)
    BY <1>1, <2>1 DEF OpToRel
  <2>3. QED
    BY <2>1, <2>2
<1>3. QED
  BY <1>2

LEMMA NextLockIsLeft ==
    ASSUME TypeOK, NEW t \in Threads, call[t].left # {}
    PROVE  /\ NextLock(t) \in call[t].left /\ NextLock(t) \in Events
           /\ \A f \in call[t].left : NextLock(t) <= f
<1>1. call[t].left \subseteq Events
  BY DEF TypeOK
<1>2. \E e \in call[t].left : \A f \in call[t].left : e <= f
  BY <1>1, LeastNatural, EventsAssumption
<1>3. QED
  BY <1>1, <1>2 DEF NextLock

(* What is got of an auto-reset event was owed.                             *)
Held(t, e) == Delivered(t, e) \/ Firing(t, e)
Holders(e) == {t \in Threads : Held(t, e)}

LEMMA HoldersFinite == \A e : IsFiniteSet(Holders(e)) /\ Cardinality(Holders(e)) \in Nat
<1>1. SUFFICES ASSUME NEW e PROVE IsFiniteSet(Holders(e)) /\ Cardinality(Holders(e)) \in Nat
  OBVIOUS
<1>2. IsFiniteSet(Holders(e))
  BY ThreadsAssumption, FS_Subset DEF Holders
<1>3. QED
  BY <1>2, FS_CardinalityType

LEMMA OwedIs ==
    SignalsConserved <=> \A e \in Events \ Manual :
        owed[e] = (IF signaled[e] THEN 1 ELSE 0) + Cardinality(Holders(e))
BY DEF SignalsConserved, Holders, Held

LEMMA Owing ==
    ASSUME TypeOK, SignalsConserved, NEW e \in Events \ Manual
    PROVE  /\ signaled[e] => owed[e] - 1 \in Nat
           /\ \A t \in Threads : Delivered(t, e) => owed[e] - 1 \in Nat
<1>1. owed[e] = (IF signaled[e] THEN 1 ELSE 0) + Cardinality(Holders(e))
  BY OwedIs
<1>2. IsFiniteSet(Holders(e)) /\ Cardinality(Holders(e)) \in Nat
  BY HoldersFinite
<1>3. ASSUME NEW t \in Threads, Delivered(t, e) PROVE Cardinality(Holders(e)) # 0
  BY <1>2, <1>3, FS_EmptySet DEF Holders, Held
<1>4. QED
  BY <1>1, <1>2, <1>3

-----------------------------------------------------------------------------
(* Types.                                                                   *)

(* The steps of a thread, one by one.                                       *)
Step(t) ==
    \/ \E e \in Events : Reset(t, e) \/ IsSignaled(t, e)
    \/ \E e \in Events : Signal(t, e)
    \/ \E e \in Events, timed \in BOOLEAN : WaitTimeout(t, e, timed)
    \/ \E a \in Arrays : WaitMultiple(t, a)
    \/ Fire(t) \/ NobodyLeft(t) \/ Test(t) \/ Leave(t) \/ Dequeue(t)
    \/ EnqueueMultiple(t) \/ Woken(t) \/ Undo(t) \/ Wake(t)

LEMMA Steps == ASSUME Next PROVE \E t \in Threads : Step(t)
BY DEF Next, Begin, Continue, Step

(* Taking a signal, or being got, leaves what is owed a natural number.     *)
LEMMA TakeType ==
    ASSUME TypeOK, SignalsConserved, NEW e \in Events, signaled[e]
    PROVE  /\ [signaled EXCEPT ![e] = e \in Manual] \in [Events -> BOOLEAN]
           /\ [owed EXCEPT ![e] = IF e \in Manual THEN @ ELSE @ - 1] \in [Events -> Nat]
<1>1. e \notin Manual => owed[e] - 1 \in Nat
  BY Owing
<1>2. QED
  BY <1>1 DEF TypeOK

LEMMA GotType ==
    ASSUME TypeOK, SignalsConserved, NEW t \in Threads, NEW e \in Events, Delivered(t, e)
    PROVE  [owed EXCEPT ![e] = IF e \in Manual THEN @ ELSE @ - 1] \in [Events -> Nat]
<1>1. e \notin Manual => owed[e] - 1 \in Nat
  BY Owing
<1>2. QED
  BY <1>1 DEF TypeOK

LEMMA EnqueueType ==
    ASSUME TypeOK, NEW t \in Threads, NEW es, Enqueue(t, es)
    PROVE  /\ waiters' \in [Events -> Seq(Threads)] /\ fired' \in [Threads -> BOOLEAN]
           /\ by' \in [Threads -> Events \cup {None}]
           /\ swLock' \in [Threads -> Threads \cup {None}]
           /\ pc' \in [Threads -> PCs]
<1>1. ASSUME NEW e \in Events
      PROVE  waiters[e] \in Seq(Threads) /\ Append(waiters[e], t) \in Seq(Threads)
  <2>1. waiters[e] \in Seq(Threads)
    BY DEF TypeOK
  <2>2. QED
    BY <2>1, AppendList
<1>2. waiters' \in [Events -> Seq(Threads)]
  BY <1>1 DEF Enqueue
<1>3. QED
  BY <1>2 DEF Enqueue, Go, TypeOK, PCs, Waits

(* The event a wait for one is about, or that fired a wait for many.        *)
LEMMA EventOf ==
    ASSUME TypeOK, CallInv, FiredInv, NEW t \in Threads
    PROVE  /\ pc[t] # "idle" => /\ Head(call[t].events) \in Events
                                /\ Head(call[t].events) \in ToSet(call[t].events)
                                /\ Tail(call[t].events) \in Seq(Events)
           /\ pc[t] = "fire" => call[t].events = << Head(call[t].events) >>
           /\ pc[t] = "dequeue" => call[t].events = << Head(call[t].events) >>
           /\ pc[t] = "dequeue" /\ call[t].result =>
                  by[t] = Head(call[t].events) /\ Delivered(t, by[t])
           /\ pc[t] = "undo" => by[t] \in Events /\ Delivered(t, by[t])
<1>1. call[t].events \in Seq(Events) /\ by[t] \in Events \cup {None}
  BY DEF TypeOK
<1>2. pc[t] # "idle" => /\ Head(call[t].events) \in Events
                        /\ Head(call[t].events) \in ToSet(call[t].events)
                        /\ Tail(call[t].events) \in Seq(Events)
  BY <1>1, TailList DEF CallInv
<1>3. \A e \in Events : Head(<< e >>) = e
  OBVIOUS
<1>4. pc[t] = "dequeue" => Single(t) /\ fired[t] /\ pc[t] \in Waits
  BY DEF CallInv, Waits
<1>5. /\ pc[t] = "fire" => call[t].events = << Head(call[t].events) >>
      /\ pc[t] = "dequeue" => call[t].events = << Head(call[t].events) >>
  BY <1>3, <1>4 DEF CallInv
<1>6. pc[t] = "dequeue" /\ call[t].result =>
          by[t] = Head(call[t].events) /\ Delivered(t, by[t])
  BY <1>1, <1>3, <1>4 DEF FiredInv, Delivered
<1>7. pc[t] = "undo" => by[t] \in Events /\ Delivered(t, by[t])
  BY <1>1 DEF FiredInv, CallInv, Delivered
<1>8. QED
  BY <1>2, <1>5, <1>6, <1>7

LEMMA TypeInductive == ASSUME IInv, Next PROVE TypeOK'
<1>1. PICK t \in Threads : Step(t)
  BY Steps
<1>2. /\ TypeOK /\ SignalsConserved /\ CallInv /\ FiredInv /\ HoldsInv
      /\ t \in Threads /\ None \notin Events
  BY ThreadsAssumption DEF IInv
<1>3. call[t] \in Calls /\ call[t].left \subseteq Events
  BY <1>2 DEF TypeOK, Calls
<1>4. \A e \in Events : waiters[e] \in Seq(Threads)
  BY <1>2 DEF TypeOK
<1>5. NoCall \in Calls
  BY DEF NoCall, Calls
<1>6. /\ \A q \in Seq(Events), l \in SUBSET Events :
            [call[t] EXCEPT !.events = q, !.left = l, !.many = TRUE] \in Calls
      /\ \A q \in Seq(Events), d \in BOOLEAN :
            [call[t] EXCEPT !.events = q, !.timed = d] \in Calls
      /\ \A q \in Seq(Events) : [call[t] EXCEPT !.events = q] \in Calls
      /\ \A l \in SUBSET Events : [call[t] EXCEPT !.left = l] \in Calls
      /\ \A b \in BOOLEAN : [call[t] EXCEPT !.result = b] \in Calls
  BY <1>3 DEF Calls
<1>7. ASSUME NEW c \in Calls PROVE [call EXCEPT ![t] = c] \in [Threads -> Calls]
  BY <1>2 DEF TypeOK, Calls
<1>8. ASSUME NEW p \in PCs PROVE [pc EXCEPT ![t] = p] \in [Threads -> PCs]
  BY <1>2 DEF TypeOK, PCs, Waits
<1> DEFINE Typed(c, p) == c \in [Threads -> Calls] /\ p \in [Threads -> PCs]
<1>9. Typed(call, pc)
  BY <1>2 DEF TypeOK, Calls, PCs, Waits
<1> USE DEF kernelVars, waiterVars
<1>10. ASSUME NEW e \in Events, Reset(t, e) \/ IsSignaled(t, e) PROVE TypeOK'
  <2>1. signaled[e] /\ UNCHANGED <<waiters, lock, fired, by, swLock, pc, call>>
    BY <1>10 DEF Reset, IsSignaled
  <2>2. owed' \in [Events -> Nat]
    BY <1>2, <1>10, <2>1, TakeType DEF Reset, IsSignaled, Take
  <2>3. signaled' \in [Events -> BOOLEAN]
    <3>1. CASE Reset(t, e)
      BY <1>2, <3>1 DEF Reset, TypeOK
    <3>2. CASE IsSignaled(t, e)
      BY <1>2, <2>1, <3>2, TakeType DEF IsSignaled, Take
    <3>3. QED
      BY <1>10, <3>1, <3>2
  <2>4. QED
    BY <1>2, <2>1, <2>2, <2>3 DEF TypeOK
<1>11. ASSUME NEW e \in Events, Signal(t, e) PROVE TypeOK'
  <2>1. Typed(call', pc')
    <3>1. << e >> \in Seq(Events) /\ "fire" \in PCs
      BY DEF PCs
    <3>2. call' = [call EXCEPT ![t] = [call[t] EXCEPT !.events = << e >>]]
      BY <1>11 DEF Signal
    <3>3. call' \in [Threads -> Calls]
      BY <1>6, <1>7, <3>1, <3>2
    <3>4. QED
      BY <1>8, <1>11, <3>1, <3>3 DEF Signal, Go
  <2>2. /\ owed' \in [Events -> Nat] /\ lock' \in [Events -> Threads \cup {None}]
        /\ UNCHANGED <<signaled, waiters, fired, by, swLock>>
    BY <1>2, <1>11 DEF Signal, TypeOK
  <2>3. QED
    BY <1>2, <2>1, <2>2 DEF TypeOK, Calls, PCs, Waits
<1>12. ASSUME NEW e \in Events, NEW timed \in BOOLEAN, WaitTimeout(t, e, timed) PROVE TypeOK'
  <2>1. CASE signaled[e] /\ Take(e) /\ UNCHANGED <<waiters, lock, waiterVars, pc, call>>
    BY <1>2, <2>1, TakeType DEF Take, TypeOK
  <2>2. CASE /\ Enqueue(t, {e}) /\ UNCHANGED <<signaled, owed, lock>>
             /\ call' = [call EXCEPT ![t].events = <<e>>, ![t].timed = timed]
    <3>1. << e >> \in Seq(Events)
      OBVIOUS
    <3>2. call' = [call EXCEPT ![t] = [call[t] EXCEPT !.events = << e >>, !.timed = timed]]
      BY <1>9, <2>2 DEF Calls
    <3>3. call' \in [Threads -> Calls]
      BY <1>6, <1>7, <3>1, <3>2
    <3>4. QED
      BY <1>2, <2>2, <3>3, EnqueueType DEF TypeOK, Calls, PCs, Waits
  <2>3. QED
    BY <1>12, <2>1, <2>2 DEF WaitTimeout
<1>13. ASSUME NEW a \in Arrays, WaitMultiple(t, a) PROVE TypeOK'
  <2>1. a \in Seq(Events) /\ ToSet(a) \in SUBSET Events /\ "many" \in PCs
    BY ArraysAssumption, Members DEF PCs
  <2>2. call' = [call EXCEPT ![t] = [call[t] EXCEPT !.events = a, !.left = ToSet(a), !.many = TRUE]]
    BY <1>9, <1>13 DEF WaitMultiple, Calls
  <2>3. Typed(call', pc')
    <3>1. call' \in [Threads -> Calls]
      BY <1>6, <1>7, <2>1, <2>2
    <3>2. pc' = [pc EXCEPT ![t] = "many"]
      BY <1>13 DEF WaitMultiple, Go
    <3>3. QED
      BY <1>8, <2>1, <3>1, <3>2
  <2>4. QED
    BY <1>2, <1>13, <2>3 DEF WaitMultiple, TypeOK, Calls, PCs, Waits
<1>14. CASE Fire(t)
  <2> DEFINE e == Head(call[t].events)
             w == Head(waiters[e])
  <2>1. e \in Events /\ waiters[e] # << >> /\ w \in Threads /\ Tail(waiters[e]) \in Seq(Threads)
    BY <1>2, <1>4, <1>14, EventOf, TailList DEF Fire
  <2>2. /\ waiters' = [waiters EXCEPT ![e] = Tail(@)] /\ UNCHANGED <<signaled, swLock, owed>>
        /\ \/ UNCHANGED <<fired, by, lock, pc, call>>
           \/ /\ fired' = [fired EXCEPT ![w] = TRUE] /\ by' = [by EXCEPT ![w] = e]
              /\ \/ UNCHANGED <<lock, pc, call>>
                 \/ lock' = [lock EXCEPT ![e] = None] /\ Return(t)
    BY <1>14 DEF Fire
  <2> HIDE DEF e, w
  <2>3. Typed(call', pc')
    BY <1>5, <1>7, <1>8, <1>9, <2>2 DEF Return, Go, PCs
  <2>4. fired' \in [Threads -> BOOLEAN] /\ by' \in [Threads -> Events \cup {None}]
    <3>1. CASE UNCHANGED <<fired, by>>
      BY <1>2, <3>1 DEF TypeOK
    <3>2. CASE fired' = [fired EXCEPT ![w] = TRUE] /\ by' = [by EXCEPT ![w] = e]
      <4>1. fired' \in [Threads -> BOOLEAN]
        BY <1>2, <3>2 DEF TypeOK
      <4>2. by' \in [Threads -> Events \cup {None}]
        BY <1>2, <2>1, <3>2 DEF TypeOK
      <4>3. QED
        BY <4>1, <4>2
    <3>3. QED
      BY <2>2, <3>1, <3>2
  <2>5. waiters' \in [Events -> Seq(Threads)]
    BY <1>2, <2>1, <2>2 DEF TypeOK
  <2>6. lock' \in [Events -> Threads \cup {None}]
    BY <1>2, <2>2 DEF TypeOK
  <2>7. QED
    BY <1>2, <2>2, <2>3, <2>4, <2>5, <2>6 DEF TypeOK, Calls, PCs, Waits
<1>15. CASE NobodyLeft(t)
  <2>1. Typed(call', pc')
    BY <1>5, <1>7, <1>8, <1>15 DEF NobodyLeft, Return, Go, PCs
  <2>2. QED
    BY <1>2, <1>15, <2>1, EventOf DEF NobodyLeft, TypeOK, Calls, PCs, Waits
<1>16. CASE Test(t) \/ Woken(t) \/ Wake(t)
  <2>1. PICK p \in PCs, l \in {None, t} :
            /\ pc' = [pc EXCEPT ![t] = p] /\ swLock' = [swLock EXCEPT ![t] = l]
            /\ UNCHANGED <<kernelVars, fired, by, call, owed>>
    BY <1>16 DEF Test, Woken, Wake, Go, PCs, Waits
  <2>2. swLock' \in [Threads -> Threads \cup {None}]
    BY <1>2, <2>1 DEF TypeOK
  <2>3. QED
    BY <1>2, <1>8, <2>1, <2>2 DEF TypeOK, PCs, Waits
<1>17. CASE Leave(t)
  <2>1. call' = [call EXCEPT ![t] = [call[t] EXCEPT !.result = fired[t]]] /\ fired[t] \in BOOLEAN
    BY <1>2, <1>17 DEF Leave, TypeOK
  <2>2. Typed(call', pc')
    <3>1. "dequeue" \in PCs /\ pc' = [pc EXCEPT ![t] = "dequeue"]
      BY <1>17 DEF Leave, Go, PCs, Waits
    <3>2. QED
      BY <1>6, <1>7, <1>8, <2>1, <3>1
  <2>3. QED
    BY <1>2, <1>17, <2>2 DEF Leave, TypeOK, Calls, PCs, Waits
<1>18. CASE Dequeue(t)
  <2> DEFINE e == Head(call[t].events)
  <2>1. e \in Events
    BY <1>2, <1>18, EventOf DEF Dequeue
  <2>2. Without(waiters[e], t) \in Seq(Threads)
    BY <1>4, <2>1, WithoutList DEF IInv, ListInv
  <2>3. /\ waiters' = [waiters EXCEPT ![e] = Without(@, t)]
        /\ IF call[t].result THEN Got(e) ELSE UNCHANGED owed
        /\ Return(t) /\ UNCHANGED <<signaled, lock, waiterVars>>
    BY <1>18 DEF Dequeue
  <2>4. owed' \in [Events -> Nat]
    BY <1>2, <1>18, <2>1, <2>3, EventOf, GotType DEF Got, Dequeue, TypeOK
  <2> HIDE DEF e
  <2>5. Typed(call', pc')
    BY <1>5, <1>7, <1>8, <2>3 DEF Return, Go, PCs
  <2>6. QED
    BY <1>2, <2>1, <2>2, <2>3, <2>4, <2>5 DEF TypeOK, Calls, PCs, Waits
<1>19. CASE EnqueueMultiple(t)
  <2>1. NextLock(t) \in Events
    BY <1>2, <1>19, NextLockIsLeft DEF HoldsInv, EnqueueMultiple
  <2>2. PICK e \in Events : e = NextLock(t)
    BY <2>1
  <2>3. Released(t) \in [Events -> Threads \cup {None}]
    BY <1>2 DEF Released, TypeOK
  <2>4. CASE /\ signaled[e] /\ Take(e) /\ lock' = Released(t) /\ Return(t)
             /\ UNCHANGED <<waiters, waiterVars>>
    <3>1. Typed(call', pc')
      BY <1>5, <1>7, <1>8, <2>4 DEF Return, Go, PCs
    <3>2. QED
      BY <1>2, <2>3, <2>4, <3>1, TakeType DEF Take, TypeOK, Calls, PCs, Waits
  <2>5. CASE /\ lock' = [lock EXCEPT ![e] = t]
             /\ call' = [call EXCEPT ![t].left = @ \ {e}]
             /\ UNCHANGED <<signaled, owed, waiters, waiterVars, pc>>
    <3>1. call' = [call EXCEPT ![t] = [call[t] EXCEPT !.left = call[t].left \ {e}]]
      BY <2>5
    <3>2. Typed(call', pc')
      <4>1. call[t].left \ {e} \in SUBSET Events
        BY <1>3
      <4>2. QED
        BY <1>6, <1>7, <1>9, <2>5, <3>1, <4>1
    <3>3. QED
      BY <1>2, <2>5, <3>2 DEF TypeOK, Calls, PCs, Waits
  <2>6. CASE /\ Enqueue(t, ToSet(call[t].events)) /\ lock' = Released(t)
             /\ call' = [call EXCEPT ![t].left = {}] /\ UNCHANGED <<signaled, owed>>
    <3>1. call' = [call EXCEPT ![t] = [call[t] EXCEPT !.left = {}]]
      BY <2>6
    <3>2. call' \in [Threads -> Calls]
      BY <1>6, <1>7, <3>1
    <3>3. QED
      BY <1>2, <2>3, <2>6, <3>2, EnqueueType DEF TypeOK, Calls, PCs, Waits
  <2>7. QED
    BY <1>19, <2>2, <2>4, <2>5, <2>6 DEF EnqueueMultiple
<1>20. CASE Undo(t)
  <2> DEFINE e == Head(call[t].events)
             rest == Tail(call[t].events)
  <2>1. e \in Events /\ rest \in Seq(Events) /\ by[t] \in Events /\ Delivered(t, by[t])
    BY <1>2, <1>20, EventOf DEF Undo
  <2>2. Without(waiters[e], t) \in Seq(Threads)
    BY <1>4, <2>1, WithoutList DEF IInv, ListInv
  <2>3. /\ waiters' = waiters \/ waiters' = [waiters EXCEPT ![e] = Without(@, t)]
        /\ \/ call' = [call EXCEPT ![t] = [call[t] EXCEPT !.events = rest]] /\ UNCHANGED <<pc, owed>>
           \/ Return(t) /\ Got(by[t])
        /\ UNCHANGED <<signaled, lock, waiterVars>>
    BY <1>20 DEF Undo
  <2> HIDE DEF e, rest
  <2>4. owed' \in [Events -> Nat]
    <3>1. CASE UNCHANGED owed
      BY <1>2, <3>1 DEF TypeOK
    <3>2. CASE Got(by[t])
      BY <1>2, <2>1, <3>2, GotType DEF Got
    <3>3. QED
      BY <2>3, <3>1, <3>2
  <2>5. Typed(call', pc')
    <3>1. [call[t] EXCEPT !.events = rest] \in Calls
      BY <1>6, <2>1
    <3>2. QED
      BY <1>5, <1>7, <1>8, <1>9, <2>3, <3>1 DEF Return, Go, PCs
  <2>6. waiters' \in [Events -> Seq(Threads)]
    BY <1>2, <2>2, <2>3 DEF TypeOK
  <2>7. QED
    BY <1>2, <2>3, <2>4, <2>5, <2>6 DEF TypeOK, Calls, PCs, Waits
<1>21. QED
  BY <1>1, <1>10, <1>11, <1>12, <1>13, <1>14, <1>15, <1>16, <1>17, <1>18, <1>19, <1>20 DEF Step

-----------------------------------------------------------------------------
(* Locks.                                                                   *)

(* A step of a thread moves no other one, and its locks stay its own.       *)
LEMMA Alone ==
    ASSUME IInv, NEW t \in Threads, Step(t), NEW u \in Threads, u # t
    PROVE  /\ pc'[u] = pc[u] /\ call'[u] = call[u]
           /\ \A e \in Events : lock'[e] = u <=> lock[e] = u
<1>1. TypeOK /\ HoldsInv /\ CallInv /\ FiredInv /\ u # None /\ t # None
  BY ThreadsAssumption DEF IInv
<1> DEFINE Moves == /\ pc'[u] = pc[u] /\ call'[u] = call[u]
                    /\ \/ lock' = lock
                       \/ \E e \in Events : Free(e) /\ lock' = [lock EXCEPT ![e] = t]
                       \/ \E e \in Events : lock[e] = t /\ lock' = [lock EXCEPT ![e] = None]
                       \/ lock' = Released(t)
<1>2. Moves
  <2> USE <1>1 DEF kernelVars, waiterVars, Return, Go, TypeOK
  <2>1. ASSUME NEW e \in Events, Reset(t, e) \/ IsSignaled(t, e) \/ Signal(t, e)
        PROVE  Moves
    BY <2>1 DEF Reset, IsSignaled, Signal
  <2>2. ASSUME NEW e \in Events, NEW timed \in BOOLEAN, WaitTimeout(t, e, timed) PROVE Moves
    BY <2>2 DEF WaitTimeout, Enqueue
  <2>3. ASSUME NEW a \in Arrays, WaitMultiple(t, a) PROVE Moves
    BY <2>3 DEF WaitMultiple
  <2>4. CASE Fire(t)
    <3>1. lock[Head(call[t].events)] = t /\ Head(call[t].events) \in Events
      BY <2>4, EventOf DEF Fire, HoldsInv
    <3>2. QED
      BY <2>4, <3>1 DEF Fire
  <2>5. CASE NobodyLeft(t)
    <3>1. lock[Head(call[t].events)] = t /\ Head(call[t].events) \in Events
      BY <2>5, EventOf DEF NobodyLeft, HoldsInv
    <3>2. QED
      BY <2>5, <3>1 DEF NobodyLeft
  <2>6. CASE Test(t) \/ Leave(t) \/ Woken(t) \/ Wake(t)
    BY <2>6 DEF Test, Leave, Woken, Wake
  <2>7. CASE Dequeue(t)
    BY <2>7 DEF Dequeue
  <2>8. CASE EnqueueMultiple(t)
    <3>1. NextLock(t) \in Events
      BY <2>8, NextLockIsLeft DEF HoldsInv, EnqueueMultiple
    <3>2. QED
      BY <2>8, <3>1 DEF EnqueueMultiple, Enqueue
  <2>9. CASE Undo(t)
    BY <2>9 DEF Undo
  <2>10. QED
    BY <2>1, <2>2, <2>3, <2>4, <2>5, <2>6, <2>7, <2>8, <2>9 DEF Step
<1>3. QED
  BY <1>1, <1>2 DEF Free, Released, TypeOK

LEMMA LocksInductive == ASSUME IInv, Next, TypeOK' PROVE LockInv' /\ HoldsInv'
<1>1. PICK t \in Threads : Step(t)
  BY Steps
<1>2. /\ TypeOK /\ LockInv /\ HoldsInv /\ CallInv /\ FiredInv
      /\ t # None /\ None \notin Events
  BY ThreadsAssumption DEF IInv
<1> DEFINE Holds(u) ==
        /\ pc[u] = "fire" => lock[Head(call[u].events)] = u
        /\ pc[u] = "many" => /\ call[u].left \subseteq ToSet(call[u].events) /\ call[u].left # {}
                             /\ \A e \in ToSet(call[u].events) : e \in call[u].left \/ lock[e] = u
<1>3. ASSUME NEW u \in Threads, u # t PROVE Holds(u)'
  <2>1. /\ pc'[u] = pc[u] /\ call'[u] = call[u]
        /\ \A e \in Events : lock'[e] = u <=> lock[e] = u
    BY <1>1, <1>3, Alone
  <2>2. Holds(u) /\ ToSet(call[u].events) \subseteq Events
    BY <1>2, Members DEF HoldsInv, TypeOK
  <2>3. pc[u] = "fire" => Head(call[u].events) \in Events
    BY <1>2, EventOf
  <2>4. QED
    BY <2>1, <2>2, <2>3
<1>4. LockInv' /\ Holds(t)'
  <2> USE <1>2 DEF kernelVars, waiterVars, Return, Go, Free
  <2>1. ASSUME NEW e \in Events, Reset(t, e) \/ IsSignaled(t, e) PROVE LockInv' /\ Holds(t)'
    BY <2>1 DEF Reset, IsSignaled, Take, LockInv, TypeOK
  <2>2. ASSUME NEW e \in Events, Signal(t, e) PROVE LockInv' /\ Holds(t)'
    <3>1. pc'[t] = "fire" /\ call'[t].events = << e >> /\ lock' = [lock EXCEPT ![e] = t]
          /\ signaled' = signaled /\ ~ signaled[e]
      BY <2>2 DEF Signal, TypeOK
    <3>2. QED
      BY <3>1 DEF LockInv, TypeOK
  <2>3. ASSUME NEW e \in Events, NEW timed \in BOOLEAN, WaitTimeout(t, e, timed)
        PROVE  LockInv' /\ Holds(t)'
    BY <2>3 DEF WaitTimeout, Enqueue, Take, LockInv, TypeOK
  <2>4. ASSUME NEW a \in Arrays, WaitMultiple(t, a) PROVE LockInv' /\ Holds(t)'
    <3>1. a \in Seq(Events) /\ a # << >>
      BY ArraysAssumption
    <3>2. Head(a) \in ToSet(a)
      BY <3>1, TailList
    <3>3. pc'[t] = "many" /\ call'[t].events = a /\ call'[t].left = ToSet(a)
          /\ UNCHANGED <<lock, signaled>>
      BY <2>4 DEF WaitMultiple, TypeOK
    <3>4. QED
      BY <3>2, <3>3 DEF LockInv
  <2>5. CASE Fire(t)
    <3> DEFINE e == Head(call[t].events)
    <3>1. e \in Events /\ lock[e] = t /\ pc[t] = "fire"
      BY <2>5, EventOf DEF Fire, HoldsInv
    <3>2. signaled' = signaled
          /\ (UNCHANGED <<lock, pc, call>> \/ (lock' = [lock EXCEPT ![e] = None] /\ Return(t)))
      BY <2>5 DEF Fire
    <3> HIDE DEF e
    <3>3. LockInv'
      BY <3>1, <3>2 DEF LockInv, TypeOK
    <3>4. CASE UNCHANGED <<lock, pc, call>>
      BY <3>3, <3>4 DEF HoldsInv
    <3>5. CASE Return(t)
      BY <3>3, <3>5 DEF TypeOK
    <3>6. QED
      BY <3>2, <3>4, <3>5
  <2>6. CASE NobodyLeft(t)
    BY <2>6, EventOf DEF NobodyLeft, LockInv, TypeOK
  <2>7. CASE Test(t) \/ Leave(t) \/ Woken(t) \/ Wake(t)
    BY <2>7 DEF Test, Leave, Woken, Wake, LockInv, TypeOK
  <2>8. CASE Dequeue(t)
    BY <2>8 DEF Dequeue, LockInv, TypeOK
  <2>9. CASE EnqueueMultiple(t)
    <3>1. /\ pc[t] = "many" /\ call[t].left \subseteq Events
          /\ call[t].left \subseteq ToSet(call[t].events) /\ call[t].left # {}
          /\ \A e \in ToSet(call[t].events) : e \in call[t].left \/ lock[e] = t
          /\ ToSet(call[t].events) \subseteq Events
      BY <2>9, Members DEF HoldsInv, EnqueueMultiple, TypeOK
    <3>2. PICK e \in Events : e = NextLock(t) /\ e \in call[t].left
      BY <3>1, NextLockIsLeft
    <3>3. CASE signaled[e] /\ Take(e) /\ lock' = Released(t) /\ Return(t)
      BY <3>3 DEF Take, Released, LockInv, TypeOK
    <3>4. CASE /\ ~ signaled[e] /\ call[t].left # {e}
               /\ lock' = [lock EXCEPT ![e] = t]
               /\ call' = [call EXCEPT ![t].left = @ \ {e}]
               /\ UNCHANGED <<signaled, pc>>
      <4>1. call'[t].left = call[t].left \ {e} /\ call'[t].events = call[t].events
        BY <3>4 DEF TypeOK
      <4>2. LockInv'
        BY <3>4 DEF LockInv, TypeOK
      <4>3. \A f \in ToSet(call'[t].events) : f \in call'[t].left \/ lock'[f] = t
        BY <3>1, <3>4, <4>1 DEF TypeOK
      <4>4. QED
        BY <3>1, <3>2, <3>4, <4>1, <4>2, <4>3
    <3>5. CASE Enqueue(t, ToSet(call[t].events)) /\ lock' = Released(t) /\ UNCHANGED signaled
      BY <3>5 DEF Enqueue, Released, LockInv, TypeOK
    <3>6. QED
      BY <2>9, <3>2, <3>3, <3>4, <3>5 DEF EnqueueMultiple
  <2>10. CASE Undo(t)
    BY <2>10 DEF Undo, LockInv, TypeOK
  <2>11. QED
    BY <1>1, <2>1, <2>2, <2>3, <2>4, <2>5, <2>6, <2>7, <2>8, <2>9, <2>10 DEF Step
<1>5. QED
  BY <1>3, <1>4 DEF HoldsInv

-----------------------------------------------------------------------------
(* Calls, and who fires whom.                                               *)

(* The waiter Fire takes off the list.                                      *)
LEMMA Popped ==
    ASSUME IInv, NEW t \in Threads, Fire(t), NEW e, e = Head(call[t].events),
           NEW w, w = Head(waiters[e])
    PROVE  /\ e \in Events /\ lock[e] = t /\ ~ signaled[e] /\ pc[t] = "fire"
           /\ call[t].events = << e >>
           /\ w \in Threads /\ w # t /\ pc[w] \in Waits /\ e \in ToSet(call[w].events)
           /\ ~ fired[w] => pc[w] \in {"test", "sleep"}
           /\ waiters[e] # << >> /\ Tail(waiters[e]) \in Seq(Threads)
           /\ IsInjective(Tail(waiters[e]))
           /\ ToSet(waiters[e]) = ToSet(Tail(waiters[e])) \cup {w}
           /\ w \notin ToSet(Tail(waiters[e]))
<1>1. /\ TypeOK /\ LockInv /\ HoldsInv /\ CallInv /\ ListInv /\ FiredInv
      /\ t # None /\ None \notin Events
  BY ThreadsAssumption DEF IInv
<1>2. pc[t] = "fire" /\ waiters[e] # << >>
  BY DEF Fire
<1>3. e \in Events /\ call[t].events = << e >> /\ lock[e] = t
  BY <1>1, <1>2, EventOf DEF HoldsInv
<1>4. ~ signaled[e]
  BY <1>1, <1>3 DEF LockInv
<1>5. waiters[e] \in Seq(Threads) /\ IsInjective(waiters[e])
  BY <1>1, <1>3 DEF TypeOK, ListInv
<1>6. /\ w \in Threads /\ w \in ToSet(waiters[e])
      /\ Tail(waiters[e]) \in Seq(Threads) /\ IsInjective(Tail(waiters[e]))
      /\ ToSet(waiters[e]) = ToSet(Tail(waiters[e])) \cup {w}
      /\ w \notin ToSet(Tail(waiters[e]))
  BY <1>2, <1>5, TailList
<1>7. pc[w] \in Waits /\ e \in ToSet(call[w].events)
  BY <1>1, <1>3, <1>6 DEF ListInv
<1>8. w # t
  BY <1>2, <1>7 DEF Waits
<1>9. ~ fired[w] => pc[w] \in {"test", "sleep"}
  BY <1>1, <1>6, <1>7 DEF Waits, CallInv
<1>10. QED
  BY <1>2, <1>3, <1>4, <1>6, <1>7, <1>8, <1>9

(* Another thread is fired by Fire alone, when it had not been.             *)
LEMMA Aside ==
    ASSUME IInv, NEW t \in Threads, Step(t), NEW u \in Threads, u # t
    PROVE  \/ fired'[u] = fired[u] /\ by'[u] = by[u]
           \/ \E e \in Events :
                 /\ Fire(t) /\ e = Head(call[t].events) /\ u = Head(waiters[e])
                 /\ ~ fired[u] /\ fired'[u] /\ by'[u] = e
<1> DEFINE Goal == \/ fired'[u] = fired[u] /\ by'[u] = by[u]
                   \/ \E e \in Events :
                         /\ Fire(t) /\ e = Head(call[t].events) /\ u = Head(waiters[e])
                         /\ ~ fired[u] /\ fired'[u] /\ by'[u] = e
<1>1. TypeOK
  BY DEF IInv
<1> USE DEF kernelVars, waiterVars
<1>2. CASE UNCHANGED <<fired, by>>
  BY <1>2
<1>3. ASSUME NEW e \in Events, Reset(t, e) \/ IsSignaled(t, e) \/ Signal(t, e) PROVE Goal
  BY <1>2, <1>3 DEF Reset, IsSignaled, Signal
<1>4. ASSUME NEW e \in Events, NEW timed \in BOOLEAN, WaitTimeout(t, e, timed) PROVE Goal
  BY <1>1, <1>4 DEF WaitTimeout, Enqueue, TypeOK
<1>5. ASSUME NEW a \in Arrays, WaitMultiple(t, a) PROVE Goal
  BY <1>2, <1>5 DEF WaitMultiple
<1>6. CASE Fire(t)
  <2> DEFINE e == Head(call[t].events)
             w == Head(waiters[e])
  <2>1. e \in Events /\ w \in Threads
    BY <1>6, Popped
  <2>2. CASE fired[w]
    BY <1>2, <1>6, <2>2 DEF Fire
  <2>3. CASE ~ fired[w]
    <3>1. fired' = [fired EXCEPT ![w] = TRUE] /\ by' = [by EXCEPT ![w] = e]
      BY <1>6, <2>3 DEF Fire
    <3> HIDE DEF e, w
    <3>2. CASE u = w
      <4>1. ~ fired[u] /\ fired'[u] /\ by'[u] = e
        BY <1>1, <2>3, <3>1, <3>2 DEF TypeOK
      <4>2. QED
        BY <1>6, <2>1, <3>2, <4>1 DEF e, w
    <3>3. CASE u # w
      BY <1>1, <2>1, <3>1, <3>3 DEF TypeOK
    <3>4. QED
      BY <3>2, <3>3
  <2>4. QED
    BY <2>2, <2>3
<1>7. CASE NobodyLeft(t) \/ Test(t) \/ Dequeue(t) \/ Woken(t) \/ Undo(t) \/ Wake(t)
  BY <1>2, <1>7 DEF NobodyLeft, Test, Dequeue, Woken, Undo, Wake
<1>8. CASE Leave(t)
  BY <1>1, <1>8 DEF Leave, TypeOK
<1>9. CASE EnqueueMultiple(t)
  BY <1>1, <1>9 DEF EnqueueMultiple, Enqueue, TypeOK
<1>10. QED
  BY <1>3, <1>4, <1>5, <1>6, <1>7, <1>8, <1>9 DEF Step

LEMMA CallsInductive == ASSUME IInv, Next, TypeOK' PROVE CallInv' /\ FiredInv'
<1>1. PICK t \in Threads : Step(t)
  BY Steps
<1>2. TypeOK /\ CallInv /\ FiredInv /\ ListInv /\ None \notin Events
  BY ThreadsAssumption DEF IInv
<1> DEFINE Called(u) ==
        /\ pc[u] # "idle" => call[u].events # << >>
        /\ pc[u] = "fire" \/ (pc[u] \in Waits /\ Single(u)) =>
               \E e \in Events : call[u].events = << e >>
        /\ pc[u] = "many" => ~ Single(u)
        /\ pc[u] = "undo" => ~ Single(u) /\ fired[u]
        /\ pc[u] = "dequeue" => Single(u) /\ fired[u]
    FiredBy(u) ==
        /\ by[u] # None /\ pc[u] \in Waits /\ Single(u) => call[u].events = << by[u] >>
        /\ pc[u] \in {"test", "sleep", "undo"} /\ fired[u] => by[u] # None
        /\ pc[u] = "dequeue" /\ call[u].result => by[u] # None
<1>3. \A u \in Threads : Called(u) /\ FiredBy(u)
  BY <1>2 DEF CallInv, FiredInv
<1>4. ASSUME NEW u \in Threads, u # t PROVE Called(u)' /\ FiredBy(u)'
  <2>1. pc'[u] = pc[u] /\ call'[u] = call[u] /\ Called(u) /\ FiredBy(u)
    BY <1>1, <1>3, <1>4, Alone
  <2>2. CASE fired'[u] = fired[u] /\ by'[u] = by[u]
    BY <2>1, <2>2 DEF Single
  <2>3. ASSUME NEW e \in Events, Fire(t), e = Head(call[t].events), u = Head(waiters[e]),
               fired'[u], by'[u] = e
        PROVE  Called(u)' /\ FiredBy(u)'
    <3>1. e \in ToSet(call[u].events)
      BY <2>3, Popped
    <3>2. pc[u] \in Waits /\ Single(u) => call[u].events = << e >>
      <4>1. \A f : call[u].events = << f >> => f = e
        BY <3>1 DEF ToSet
      <4>2. QED
        BY <2>1, <4>1
    <3>3. QED
      BY <1>2, <2>1, <2>3, <3>2 DEF Single
  <2>4. QED
    BY <1>1, <1>4, <2>2, <2>3, Aside
<1>5. Called(t)' /\ FiredBy(t)'
  <2>1. Called(t) /\ FiredBy(t)
    BY <1>3
  <2> USE <1>2 DEF kernelVars, waiterVars, Return, Go, Single, Waits
  <2>2. CASE UNCHANGED <<pc, call, fired, by>>
    BY <2>1, <2>2
  <2>3. CASE Return(t)
    BY <2>3 DEF TypeOK
  <2>4. ASSUME NEW e \in Events, Reset(t, e) \/ IsSignaled(t, e) PROVE Called(t)' /\ FiredBy(t)'
    BY <2>2, <2>4 DEF Reset, IsSignaled
  <2>5. ASSUME NEW e \in Events, Signal(t, e) PROVE Called(t)' /\ FiredBy(t)'
    BY <2>5 DEF Signal, TypeOK
  <2>6. ASSUME NEW e \in Events, NEW timed \in BOOLEAN, WaitTimeout(t, e, timed)
        PROVE  Called(t)' /\ FiredBy(t)'
    <3>1. CASE Enqueue(t, {e}) /\ call' = [call EXCEPT ![t].events = <<e>>, ![t].timed = timed]
      <4>1. call'[t].events = << e >> /\ pc'[t] = "test" /\ by'[t] = None /\ ~ fired'[t]
        BY <3>1 DEF Enqueue, TypeOK
      <4>2. QED
        BY <4>1
    <3>2. QED
      BY <2>2, <2>6, <3>1 DEF WaitTimeout
  <2>7. ASSUME NEW a \in Arrays, WaitMultiple(t, a) PROVE Called(t)' /\ FiredBy(t)'
    BY <2>7, ArraysAssumption DEF WaitMultiple, TypeOK
  <2>8. CASE Fire(t)
    <3>1. CASE Return(t)
      BY <2>3, <3>1
    <3>2. CASE UNCHANGED <<pc, call>>
      <4>1. pc'[t] = "fire" /\ call'[t].events = call[t].events
        BY <2>8, <3>2 DEF Fire
      <4>2. QED
        BY <2>1, <2>8, <4>1 DEF Fire
    <3>3. QED
      BY <2>8, <3>1, <3>2 DEF Fire
  <2>9. CASE NobodyLeft(t) \/ Dequeue(t)
    BY <2>3, <2>9 DEF NobodyLeft, Dequeue
  <2>10. CASE Test(t) \/ Wake(t)
    BY <2>1, <2>10 DEF Test, Wake, TypeOK
  <2>11. CASE Leave(t)
    <3>1. /\ call'[t].events = call[t].events /\ call'[t].many = call[t].many
          /\ call'[t].result = fired[t] /\ fired'[t] /\ by'[t] = by[t] /\ pc'[t] = "dequeue"
          /\ pc[t] = "test"
      BY <2>11 DEF Leave, TypeOK
    <3>2. QED
      BY <2>1, <2>11, <3>1 DEF Leave
  <2>12. CASE EnqueueMultiple(t)
    <3>1. pc[t] = "many" /\ call[t].events # << >> /\ call[t].many
      BY <2>1, <2>12 DEF EnqueueMultiple
    <3>2. CASE call' = [call EXCEPT ![t].left = @ \ {NextLock(t)}] /\ UNCHANGED pc
      BY <3>1, <3>2 DEF TypeOK
    <3>3. CASE Enqueue(t, ToSet(call[t].events)) /\ call' = [call EXCEPT ![t].left = {}]
      BY <3>1, <3>3 DEF Enqueue, TypeOK
    <3>4. QED
      BY <2>3, <2>12, <3>2, <3>3 DEF EnqueueMultiple
  <2>13. CASE Woken(t)
    BY <2>1, <2>13 DEF Woken, TypeOK
  <2>14. CASE Undo(t)
    <3>1. CASE /\ Tail(call[t].events) # << >> /\ UNCHANGED pc
               /\ call' = [call EXCEPT ![t].events = Tail(call[t].events)]
      <4>1. /\ call'[t].events # << >> /\ call'[t].many = call[t].many /\ pc'[t] = "undo"
            /\ UNCHANGED <<fired, by>>
        BY <2>14, <3>1 DEF Undo, TypeOK
      <4>2. QED
        BY <2>1, <2>14, <4>1 DEF Undo
    <3>2. QED
      BY <2>3, <2>14, <3>1 DEF Undo
  <2>15. QED
    BY <1>1, <2>4, <2>5, <2>6, <2>7, <2>8, <2>9, <2>10, <2>11, <2>12, <2>13, <2>14 DEF Step
<1>6. CallInv' /\ FiredInv'
  BY <1>4, <1>5 DEF CallInv, FiredInv
<1>7. QED
  BY <1>6

-----------------------------------------------------------------------------
(* Lists.                                                                   *)

(* What a step does to the lists: nothing, a waiter taken off one of them,  *)
(* or the thread put on those of its call.                                  *)
Shrinks(e, w) ==
    /\ e \in Events /\ \A f \in Events \ {e} : waiters'[f] = waiters[f]
    /\ ToSet(waiters'[e]) = ToSet(waiters[e]) \ {w} /\ IsInjective(waiters'[e])

LEMMA FireShrinks ==
    ASSUME IInv, NEW t \in Threads, Fire(t)
    PROVE  LET e == Head(call[t].events) IN Shrinks(e, Head(waiters[e]))
<1> DEFINE e == Head(call[t].events)
           w == Head(waiters[e])
<1>1. TypeOK
  BY DEF IInv
<1>2. waiters' = [waiters EXCEPT ![e] = Tail(@)]
  BY DEF Fire
<1>3. /\ e \in Events /\ IsInjective(Tail(waiters[e])) /\ w \notin ToSet(Tail(waiters[e]))
      /\ ToSet(waiters[e]) = ToSet(Tail(waiters[e])) \cup {w}
  BY Popped
<1> HIDE DEF e, w
<1>4. waiters'[e] = Tail(waiters[e]) /\ \A f \in Events \ {e} : waiters'[f] = waiters[f]
  BY <1>1, <1>2, <1>3 DEF TypeOK
<1>5. Shrinks(e, w)
  BY <1>3, <1>4 DEF Shrinks
<1>6. QED
  BY <1>5 DEF e, w

LEMMA WithoutShrinks ==
    ASSUME IInv, NEW t \in Threads, NEW e \in Events,
           waiters' = [waiters EXCEPT ![e] = Without(@, t)]
    PROVE  Shrinks(e, t)
<1>1. TypeOK /\ ListInv
  BY DEF IInv
<1>2. waiters[e] \in Seq(Threads) /\ IsInjective(waiters[e])
  BY <1>1 DEF TypeOK, ListInv
<1>3. /\ waiters'[e] = Without(waiters[e], t)
      /\ \A f \in Events \ {e} : waiters'[f] = waiters[f]
  BY <1>1 DEF TypeOK
<1>4. QED
  BY <1>2, <1>3, WithoutList DEF Shrinks

LEMMA EnqueueLists ==
    ASSUME IInv, NEW t \in Threads, pc[t] \notin Waits, NEW es, Enqueue(t, es), NEW e \in Events
    PROVE  /\ IsInjective(waiters'[e]) /\ t \notin ToSet(waiters[e])
           /\ ToSet(waiters'[e]) = IF e \in es THEN ToSet(waiters[e]) \cup {t} ELSE ToSet(waiters[e])
<1>1. /\ waiters[e] \in Seq(Threads) /\ IsInjective(waiters[e]) /\ t \notin ToSet(waiters[e])
  BY DEF IInv, TypeOK, ListInv
<1>2. waiters'[e] = IF e \in es THEN Append(waiters[e], t) ELSE waiters[e]
  BY DEF Enqueue
<1>3. CASE e \in es
  BY <1>1, <1>2, <1>3, AppendList
<1>4. CASE e \notin es
  BY <1>1, <1>2, <1>4
<1>5. QED
  BY <1>3, <1>4

(* A waiter that leaves the list of the last event of its call is in none.  *)
LEMMA LastLeft ==
    ASSUME IInv, NEW t \in Threads, NEW e \in Events, NEW f \in Events,
           t \in ToSet(waiters[f]), f # e, call[t].events # << >>, Head(call[t].events) = e
    PROVE  f \in ToSet(Tail(call[t].events)) /\ Tail(call[t].events) # << >>
<1>1. f \in ToSet(call[t].events) /\ call[t].events \in Seq(Events)
  BY DEF IInv, ListInv, TypeOK
<1>2. f \in ToSet(Tail(call[t].events)) /\ Tail(call[t].events) \in Seq(Events)
  BY <1>1, TailList
<1>3. ToSet(<< >>) = {}
  BY DEF ToSet
<1>4. QED
  BY <1>2, <1>3

LEMMA ListsInductive == ASSUME IInv, Next, TypeOK' PROVE ListInv' /\ NoneWaits'
<1>1. PICK t \in Threads : Step(t)
  BY Steps
<1>2. /\ TypeOK /\ LockInv /\ HoldsInv /\ CallInv /\ FiredInv /\ ListInv /\ NoneWaits
      /\ t # None /\ None \notin Events
  BY ThreadsAssumption DEF IInv
<1>3. \A u \in Threads : /\ call[u].events \in Seq(Events) /\ by[u] \in Events \cup {None}
                         /\ by'[u] \in Events \cup {None}
  BY <1>2 DEF TypeOK
<1> DEFINE Listed(e, u) == /\ pc[u] \in Waits /\ e \in ToSet(call[u].events)
                           /\ by[u] # e /\ (signaled[e] => fired[u])
           ListOf(e) == IsInjective(waiters[e]) /\ \A u \in ToSet(waiters[e]) : Listed(e, u)
           Lists == \A e \in Events : ListOf(e)
<1>4. \A e \in Events : ToSet(waiters[e]) \subseteq Threads /\ ToSet(waiters'[e]) \subseteq Threads
  BY <1>2, Members DEF TypeOK
<1>5. Lists
  BY <1>2, <1>4 DEF ListInv, NoneWaits
<1>6. SUFFICES Lists'
  BY <1>3, <1>4 DEF ListInv, NoneWaits
<1> USE DEF kernelVars, waiterVars
<1>7. ASSUME UNCHANGED <<waiters, pc, call, fired, by>>,
             \A e \in Events : signaled'[e] => signaled[e]
      PROVE  Lists'
  BY <1>5, <1>7
(* A thread in no list changes.                                             *)
<1>8. ASSUME \A e \in Events : t \notin ToSet(waiters[e]),
             UNCHANGED <<waiters, fired, by>>, \A e \in Events : signaled'[e] => signaled[e]
      PROVE  Lists'
  <2>1. \A u \in Threads : u # t => pc'[u] = pc[u] /\ call'[u] = call[u]
    BY <1>1, Alone
  <2>2. QED
    BY <1>4, <1>5, <1>8, <2>1
<1>9. ASSUME pc[t] \notin Waits PROVE \A e \in Events : t \notin ToSet(waiters[e])
  BY <1>5, <1>9
<1>10. ASSUME NEW e \in Events, Take(e), signaled[e]
       PROVE  \A f \in Events : signaled'[f] => signaled[f]
  BY <1>2, <1>10 DEF Take, TypeOK
(* A thread leaves the list of e, and every list that its call forgets.     *)
<1>11. ASSUME NEW e \in Events, waiters' = waiters \/ Shrinks(e, t),
              t \notin ToSet(waiters'[e]),
              \A f \in Events : t \in ToSet(waiters[f]) /\ f # e =>
                  pc'[t] \in Waits /\ f \in ToSet(call'[t].events),
              UNCHANGED <<signaled, fired, by>>
       PROVE  Lists'
  <2>1. \A u \in Threads : u # t => pc'[u] = pc[u] /\ call'[u] = call[u]
    BY <1>1, Alone
  <2>2. \A f \in Events : IsInjective(waiters'[f]) /\ ToSet(waiters'[f]) \subseteq ToSet(waiters[f])
    BY <1>5, <1>11 DEF Shrinks
  <2>3. QED
    BY <1>4, <1>5, <1>11, <2>1, <2>2
<1>12. ASSUME NEW es \in SUBSET Events, Enqueue(t, es), pc[t] \notin Waits,
              ToSet(call'[t].events) = es, UNCHANGED signaled,
              \A e \in es : ~ signaled[e]
       PROVE  Lists'
  <2>1. \A u \in Threads : u # t => /\ pc'[u] = pc[u] /\ call'[u] = call[u]
                                    /\ fired'[u] = fired[u] /\ by'[u] = by[u]
    BY <1>1, <1>2, <1>12, Alone DEF Enqueue, TypeOK
  <2>2. pc'[t] \in Waits /\ by'[t] = None
    BY <1>2, <1>12 DEF Enqueue, Go, Waits, TypeOK
  <2>3. ASSUME NEW e \in Events PROVE ListOf(e)'
    <3>1. /\ IsInjective(waiters'[e])
          /\ ToSet(waiters'[e]) = IF e \in es THEN ToSet(waiters[e]) \cup {t} ELSE ToSet(waiters[e])
          /\ t \notin ToSet(waiters[e])
      BY <1>12, EnqueueLists
    <3>2. ASSUME NEW u \in ToSet(waiters[e]) PROVE Listed(e, u)'
      BY <1>4, <1>5, <1>12, <2>1, <3>1, <3>2
    <3>3. ASSUME e \in es PROVE Listed(e, t)'
      BY <1>2, <1>12, <2>2, <3>3
    <3>4. QED
      BY <3>1, <3>2, <3>3
  <2>4. QED
    BY <2>3
<1>13. ASSUME NEW e \in Events, Reset(t, e) \/ IsSignaled(t, e) PROVE Lists'
  <2>1. \A f \in Events : signaled'[f] => signaled[f]
    BY <1>2, <1>10, <1>13 DEF Reset, IsSignaled, TypeOK
  <2>2. QED
    BY <1>7, <1>13, <2>1 DEF Reset, IsSignaled
<1>14. ASSUME NEW e \in Events, Signal(t, e) PROVE Lists'
  <2>1. pc[t] \notin Waits /\ UNCHANGED <<waiters, fired, by, signaled>>
    BY <1>14 DEF Signal, Waits
  <2>2. QED
    BY <1>8, <1>9, <2>1
<1>15. ASSUME NEW e \in Events, NEW timed \in BOOLEAN, WaitTimeout(t, e, timed) PROVE Lists'
  <2>1. CASE signaled[e] /\ Take(e) /\ UNCHANGED <<waiters, waiterVars, pc, call>>
    BY <1>7, <1>10, <2>1
  <2>2. CASE /\ ~ signaled[e] /\ Enqueue(t, {e}) /\ UNCHANGED signaled
             /\ call' = [call EXCEPT ![t].events = <<e>>, ![t].timed = timed]
    <3>1. pc[t] \notin Waits
      BY <1>15 DEF WaitTimeout, Waits
    <3>2. ToSet(call'[t].events) = {e}
      <4>1. call'[t].events = << e >>
        BY <1>2, <2>2 DEF TypeOK
      <4>2. QED
        BY <4>1 DEF ToSet
    <3>3. QED
      BY <1>12, <2>2, <3>1, <3>2
  <2>3. QED
    BY <1>15, <2>1, <2>2 DEF WaitTimeout
<1>16. ASSUME NEW a \in Arrays, WaitMultiple(t, a) PROVE Lists'
  <2>1. pc[t] \notin Waits /\ UNCHANGED <<waiters, fired, by, signaled>>
    BY <1>16 DEF WaitMultiple, Waits
  <2>2. QED
    BY <1>8, <1>9, <2>1
<1>17. CASE Fire(t)
  <2> DEFINE e == Head(call[t].events)
             w == Head(waiters[e])
  <2>1. e \in Events /\ Shrinks(e, w) /\ w # t /\ pc[t] = "fire"
    BY <1>17, FireShrinks, Popped
  <2>2. ASSUME NEW u \in Threads, u # w, u # t
        PROVE  pc'[u] = pc[u] /\ call'[u] = call[u] /\ fired'[u] = fired[u] /\ by'[u] = by[u]
    BY <1>1, <2>2, Alone, Aside
  <2>3. \A f \in Events : t \notin ToSet(waiters[f])
    BY <1>9, <2>1 DEF Waits
  <2>4. /\ pc'[w] = pc[w] /\ call'[w] = call[w] /\ (fired[w] => fired'[w])
        /\ by'[w] = by[w] \/ by'[w] = e
    <3>1. w \in Threads /\ w # t
      BY <1>17, Popped
    <3>2. QED
      BY <1>1, <3>1, Alone, Aside
  <2>5. signaled' = signaled
    BY <1>17 DEF Fire
  <2> HIDE DEF e, w
  <2>6. \A f \in Events : IsInjective(waiters'[f]) /\ ToSet(waiters'[f]) \subseteq ToSet(waiters[f])
    BY <1>5, <2>1 DEF Shrinks
  <2>7. w \notin ToSet(waiters'[e])
    BY <2>1 DEF Shrinks
  <2>8. QED
    BY <1>4, <1>5, <2>2, <2>3, <2>4, <2>5, <2>6, <2>7
<1>18. CASE NobodyLeft(t)
  <2> DEFINE e == Head(call[t].events)
  <2>1. e \in Events /\ pc[t] \notin Waits
    BY <1>2, <1>18, EventOf DEF NobodyLeft, Waits
  <2>2. /\ waiters[e] = << >> /\ signaled' = [signaled EXCEPT ![e] = TRUE]
        /\ UNCHANGED <<waiters, fired, by>>
    BY <1>18 DEF NobodyLeft
  <2> HIDE DEF e
  <2>3. ToSet(waiters[e]) = {}
    BY <2>2 DEF ToSet
  <2>4. \A u \in Threads : u # t => pc'[u] = pc[u] /\ call'[u] = call[u]
    BY <1>1, Alone
  <2>5. \A f \in Events : f # e => signaled'[f] = signaled[f]
    BY <1>2, <2>2 DEF TypeOK
  <2>6. \A f \in Events : t \notin ToSet(waiters[f])
    BY <1>9, <2>1
  <2>7. QED
    BY <1>4, <1>5, <2>2, <2>3, <2>4, <2>5, <2>6
<1>19. CASE Test(t) \/ Woken(t) \/ Wake(t) \/ Leave(t)
  <2>1. /\ pc'[t] \in Waits /\ call'[t].events = call[t].events /\ (fired[t] => fired'[t])
        /\ UNCHANGED <<waiters, by, signaled>>
        /\ \A u \in Threads : u # t => fired'[u] = fired[u]
    BY <1>2, <1>19 DEF Test, Woken, Wake, Leave, Go, Waits, TypeOK
  <2>2. \A u \in Threads : u # t => pc'[u] = pc[u] /\ call'[u] = call[u]
    BY <1>1, Alone
  <2>3. QED
    BY <1>4, <1>5, <2>1, <2>2
<1>20. CASE Dequeue(t)
  <2> DEFINE e == Head(call[t].events)
  <2>1. e \in Events /\ call[t].events = << e >>
    BY <1>2, <1>20, EventOf DEF Dequeue
  <2>2. waiters' = [waiters EXCEPT ![e] = Without(@, t)] /\ UNCHANGED <<signaled, fired, by>>
    BY <1>20 DEF Dequeue
  <2> HIDE DEF e
  <2>3. Shrinks(e, t)
    BY <2>1, <2>2, WithoutShrinks
  <2>4. \A f \in Events : t \in ToSet(waiters[f]) => f = e
    <3>1. ToSet(<< e >>) = {e}
      BY DEF ToSet
    <3>2. QED
      BY <1>5, <2>1, <3>1
  <2>5. t \notin ToSet(waiters'[e])
    BY <2>3 DEF Shrinks
  <2>6. QED
    BY <1>11, <2>1, <2>2, <2>3, <2>4, <2>5
<1>21. CASE EnqueueMultiple(t)
  <2>1. /\ pc[t] = "many" /\ call[t].left \subseteq Events
        /\ call[t].left \subseteq ToSet(call[t].events) /\ call[t].left # {}
        /\ \A e \in ToSet(call[t].events) : e \in call[t].left \/ lock[e] = t
        /\ ToSet(call[t].events) \subseteq Events
    BY <1>2, <1>21, Members DEF HoldsInv, EnqueueMultiple, TypeOK
  <2>2. PICK e \in Events : e = NextLock(t)
    BY <1>2, <2>1, NextLockIsLeft
  <2>3. \A f \in Events : t \notin ToSet(waiters[f])
    BY <1>9, <2>1 DEF Waits
  <2>4. CASE signaled[e] /\ Take(e) /\ UNCHANGED <<waiters, waiterVars>>
    BY <1>8, <1>10, <2>3, <2>4
  <2>5. CASE UNCHANGED <<signaled, waiters, waiterVars>>
    BY <1>8, <2>3, <2>5
  <2>6. CASE /\ ~ signaled[e] /\ call[t].left = {e} /\ Enqueue(t, ToSet(call[t].events))
             /\ call' = [call EXCEPT ![t].left = {}] /\ UNCHANGED signaled
    <3>1. call'[t].events = call[t].events
      BY <1>2, <2>6 DEF TypeOK
    <3>2. \A f \in ToSet(call[t].events) : ~ signaled[f]
      BY <1>2, <2>1, <2>6 DEF LockInv
    <3>3. pc[t] \notin Waits
      BY <2>1 DEF Waits
    <3>4. QED
      BY <1>12, <2>1, <2>6, <3>1, <3>2, <3>3
  <2>7. QED
    BY <1>21, <2>2, <2>4, <2>5, <2>6 DEF EnqueueMultiple
<1>22. CASE Undo(t)
  <2> DEFINE e == Head(call[t].events)
             rest == Tail(call[t].events)
  <2>1. e \in Events /\ pc[t] = "undo" /\ call[t].events # << >>
    BY <1>2, <1>22, EventOf DEF Undo, CallInv
  <2>2. /\ waiters' = IF e = by[t] THEN waiters ELSE [waiters EXCEPT ![e] = Without(@, t)]
        /\ rest # << >> => call' = [call EXCEPT ![t].events = rest] /\ UNCHANGED pc
        /\ UNCHANGED <<signaled, fired, by>>
    BY <1>22 DEF Undo
  <2>3. \A f \in Events : t \in ToSet(waiters[f]) /\ f # e => f \in ToSet(rest) /\ rest # << >>
    BY <2>1, LastLeft
  <2> HIDE DEF e, rest
  <2>4. ASSUME rest # << >> PROVE pc'[t] \in Waits /\ call'[t].events = rest
    BY <1>2, <2>1, <2>2, <2>4 DEF TypeOK, Waits
  <2>5. waiters' = waiters \/ Shrinks(e, t)
    BY <2>1, <2>2, WithoutShrinks
  <2>6. t \notin ToSet(waiters'[e])
    <3>1. CASE e = by[t]
      BY <1>2, <2>1, <2>2, <3>1 DEF ListInv
    <3>2. CASE e # by[t]
      <4>1. Shrinks(e, t)
        BY <2>1, <2>2, <3>2, WithoutShrinks
      <4>2. QED
        BY <4>1 DEF Shrinks
    <3>3. QED
      BY <3>1, <3>2
  <2>7. QED
    BY <1>11, <2>1, <2>2, <2>3, <2>4, <2>5, <2>6
<1>23. QED
  BY <1>1, <1>13, <1>14, <1>15, <1>16, <1>17, <1>18, <1>19, <1>20, <1>21, <1>22 DEF Step

-----------------------------------------------------------------------------
(* Signals.                                                                 *)

(* Counting the holders of an event when one thread joins or leaves them.   *)
LEMMA HoldersJoin ==
    ASSUME NEW e, NEW t \in Threads, \A u \in Threads : u # t => (Held(u, e)' <=> Held(u, e))
    PROVE  /\ (Held(t, e)' <=> Held(t, e)) => Cardinality(Holders(e)') = Cardinality(Holders(e))
           /\ ~ Held(t, e) /\ Held(t, e)' => Cardinality(Holders(e)') = Cardinality(Holders(e)) + 1
           /\ Held(t, e) /\ ~ Held(t, e)' => Cardinality(Holders(e)') = Cardinality(Holders(e)) - 1
<1>1. IsFiniteSet(Holders(e))
  BY HoldersFinite
<1>2. ASSUME Held(t, e)' <=> Held(t, e) PROVE Holders(e)' = Holders(e)
  BY <1>2 DEF Holders
<1>3. ASSUME ~ Held(t, e), Held(t, e)'
      PROVE  Cardinality(Holders(e)') = Cardinality(Holders(e)) + 1
  <2>1. Holders(e)' = Holders(e) \cup {t} /\ t \notin Holders(e)
    BY <1>3 DEF Holders
  <2>2. QED
    BY <1>1, <2>1, FS_AddElement
<1>4. ASSUME Held(t, e), ~ Held(t, e)'
      PROVE  Cardinality(Holders(e)') = Cardinality(Holders(e)) - 1
  <2>1. Holders(e)' = Holders(e) \ {t} /\ t \in Holders(e)
    BY <1>4 DEF Holders
  <2>2. QED
    BY <1>1, <2>1, FS_RemoveElement
<1>5. QED
  BY <1>2, <1>3, <1>4

(* One thread passes an event to another.                                   *)
LEMMA HoldersPass ==
    ASSUME NEW e, NEW t \in Threads, NEW w \in Threads, w # t,
           \A u \in Threads : u \notin {t, w} => (Held(u, e)' <=> Held(u, e)),
           Held(t, e), ~ Held(t, e)', ~ Held(w, e), Held(w, e)'
    PROVE  Cardinality(Holders(e)') = Cardinality(Holders(e))
<1> DEFINE H == Holders(e) \ {t}
<1>1. IsFiniteSet(Holders(e)) /\ Cardinality(Holders(e)) \in Nat
  BY HoldersFinite
<1>2. t \in Holders(e) /\ w \notin H /\ Holders(e)' = H \cup {w}
  BY DEF Holders
<1>3. IsFiniteSet(H) /\ Cardinality(H) = Cardinality(Holders(e)) - 1
  BY <1>1, <1>2, FS_RemoveElement
<1> HIDE DEF H
<1>4. Cardinality(H \cup {w}) = Cardinality(H) + 1
  BY <1>2, <1>3, FS_AddElement
<1>5. QED
  BY <1>1, <1>2, <1>3, <1>4

LEMMA SignalsInductive == ASSUME IInv, Next, TypeOK' PROVE SignalsConserved'
<1>1. PICK t \in Threads : Step(t)
  BY Steps
<1>2. /\ TypeOK /\ LockInv /\ HoldsInv /\ CallInv /\ FiredInv /\ SignalsConserved
      /\ t # None /\ None \notin Events
  BY ThreadsAssumption DEF IInv
<1> DEFINE InFlag(e) == IF signaled[e] THEN 1 ELSE 0
           Balance(e) == owed[e] = InFlag(e) + Cardinality(Holders(e))
<1>3. \A e \in Events \ Manual : Balance(e)
  BY <1>2, OwedIs
<1>4. SUFFICES ASSUME NEW f \in Events \ Manual PROVE Balance(f)'
  BY DEF SignalsConserved, Holders, Held
<1>5. Balance(f) /\ owed[f] \in Nat /\ Cardinality(Holders(f)) \in Nat
  BY <1>2, <1>3, HoldersFinite DEF TypeOK
<1> USE DEF kernelVars, waiterVars
<1>6. ASSUME NEW u \in Threads, u # t, fired'[u] = fired[u], by'[u] = by[u]
      PROVE  Held(u, f)' <=> Held(u, f)
  <2>1. pc'[u] = pc[u] /\ call'[u] = call[u]
    BY <1>1, <1>6, Alone
  <2>2. QED
    BY <1>6, <2>1 DEF Held, Delivered, Firing
<1> DEFINE Rest == \A u \in Threads : u # t => (Held(u, f)' <=> Held(u, f))
           Same == Held(t, f)' <=> Held(t, f)
<1>7. ASSUME \A u \in Threads : u # t => fired'[u] = fired[u] /\ by'[u] = by[u] PROVE Rest
  BY <1>6, <1>7
<1>8. ASSUME Rest, Same, owed'[f] - InFlag(f)' = owed[f] - InFlag(f), owed'[f] \in Int
      PROVE  Balance(f)'
  <2>1. Cardinality(Holders(f)') = Cardinality(Holders(f))
    BY <1>8, HoldersJoin
  <2>2. InFlag(f) \in Int /\ InFlag(f)' \in Int
    OBVIOUS
  <2> HIDE DEF InFlag
  <2>3. QED
    BY <1>5, <1>8, <2>1, <2>2
<1>9. owed'[f] \in Int
  BY <1>2 DEF TypeOK
<1>10. ASSUME UNCHANGED <<owed, signaled>> PROVE owed'[f] - InFlag(f)' = owed[f] - InFlag(f)
  BY <1>10
<1>11. ASSUME NEW e \in Events, Take(e), signaled[e]
       PROVE  owed'[f] - InFlag(f)' = owed[f] - InFlag(f)
  <2>1. CASE f = e
    <3>1. signaled'[f] = FALSE /\ owed'[f] = owed[f] - 1
      BY <1>2, <1>11, <2>1 DEF Take, TypeOK
    <3>2. QED
      BY <1>5, <1>11, <2>1, <3>1
  <2>2. CASE f # e
    BY <1>2, <1>11, <2>2 DEF Take, TypeOK
  <2>3. QED
    BY <2>1, <2>2
<1>12. ASSUME pc[t] \in {"idle", "many"} PROVE ~ Held(t, f)
  BY <1>12 DEF Held, Delivered, Firing
<1>13. ASSUME pc'[t] \in {"idle", "many"} PROVE ~ Held(t, f)'
  BY <1>13 DEF Held, Delivered, Firing
<1>14. ASSUME Return(t) PROVE pc'[t] = "idle"
  BY <1>2, <1>14 DEF Return, Go, TypeOK
<1>15. ASSUME NEW es, Enqueue(t, es) PROVE Rest /\ ~ Held(t, f)'
  <2>1. /\ \A u \in Threads : u # t => fired'[u] = fired[u] /\ by'[u] = by[u]
        /\ by'[t] = None /\ pc'[t] = "test"
    BY <1>2, <1>15 DEF Enqueue, Go, TypeOK
  <2>2. QED
    BY <1>2, <1>7, <2>1 DEF Held, Delivered, Firing
<1>16. ASSUME NEW e \in Events, Reset(t, e) \/ IsSignaled(t, e) PROVE Balance(f)'
  <2>1. Take(e) \/ Reset(t, e)
    BY <1>16 DEF IsSignaled
  <2>2. signaled[e] /\ UNCHANGED <<fired, by, pc, call>>
    BY <1>16 DEF Reset, IsSignaled
  <2>3. owed'[f] - InFlag(f)' = owed[f] - InFlag(f)
    <3>1. CASE Take(e)
      BY <1>11, <2>2, <3>1
    <3>2. CASE Reset(t, e) /\ f = e
      BY <1>2, <1>5, <2>2, <3>2 DEF Reset, TypeOK
    <3>3. CASE Reset(t, e) /\ f # e
      BY <1>2, <3>3 DEF Reset, TypeOK
    <3>4. QED
      BY <2>1, <3>1, <3>2, <3>3
  <2>4. Same
    BY <2>2 DEF Held, Delivered, Firing
  <2>5. QED
    BY <1>7, <1>8, <1>9, <2>2, <2>3, <2>4
<1>17. ASSUME NEW e \in Events, Signal(t, e) PROVE Balance(f)'
  <2>1. /\ pc[t] = "idle" /\ pc'[t] = "fire" /\ call'[t].events = << e >>
        /\ UNCHANGED <<signaled, fired, by>>
    BY <1>2, <1>17 DEF Signal, Go, TypeOK
  <2>2. Rest /\ ~ Held(t, f)
    BY <1>7, <1>12, <2>1
  <2>3. Held(t, f)' <=> e = f
    BY <2>1 DEF Held, Delivered, Firing
  <2>4. CASE e = f
    <3>1. Cardinality(Holders(f)') = Cardinality(Holders(f)) + 1
      BY <2>2, <2>3, <2>4, HoldersJoin
    <3>2. owed'[f] = owed[f] + 1
      BY <1>2, <1>17, <2>4 DEF Signal, TypeOK
    <3>3. InFlag(f)' = InFlag(f) /\ InFlag(f) \in Nat
      BY <2>1
    <3> HIDE DEF InFlag
    <3>4. QED
      BY <1>5, <3>1, <3>2, <3>3
  <2>5. CASE e # f
    <3>1. owed'[f] = owed[f]
      BY <1>2, <1>17, <2>5 DEF Signal, TypeOK
    <3>2. QED
      BY <1>8, <1>9, <2>1, <2>2, <2>3, <2>5, <3>1
  <2>6. QED
    BY <2>4, <2>5
<1>18. ASSUME NEW e \in Events, NEW timed \in BOOLEAN, WaitTimeout(t, e, timed) PROVE Balance(f)'
  <2>1. CASE signaled[e] /\ Take(e) /\ UNCHANGED <<waiterVars, pc, call>>
    <3>1. Same
      BY <2>1 DEF Held, Delivered, Firing
    <3>2. QED
      BY <1>7, <1>8, <1>9, <1>11, <2>1, <3>1
  <2>2. CASE Enqueue(t, {e}) /\ UNCHANGED <<signaled, owed>>
    <3>1. pc[t] = "idle"
      BY <1>18 DEF WaitTimeout
    <3>2. QED
      BY <1>8, <1>9, <1>10, <1>12, <1>15, <2>2, <3>1
  <2>3. QED
    BY <1>18, <2>1, <2>2 DEF WaitTimeout
<1>19. ASSUME NEW a \in Arrays, WaitMultiple(t, a) PROVE Balance(f)'
  <2>1. pc[t] = "idle" /\ pc'[t] = "many" /\ UNCHANGED <<fired, by, signaled, owed>>
    BY <1>2, <1>19 DEF WaitMultiple, Go, TypeOK
  <2>2. QED
    BY <1>7, <1>8, <1>9, <1>10, <1>12, <1>13, <2>1
<1>20. CASE Fire(t)
  <2>0. PICK e \in Events, w \in Threads : e = Head(call[t].events) /\ w = Head(waiters[e])
    BY <1>20, Popped
  <2>1. w # t /\ pc[t] = "fire" /\ (~ fired[w] => pc[w] \in {"test", "sleep"})
    BY <1>20, <2>0, Popped
  <2>2. Held(t, f) <=> e = f
    BY <2>0, <2>1 DEF Held, Delivered, Firing
  <2>3. UNCHANGED <<signaled, owed>>
    BY <1>20, <2>0 DEF Fire
  <2>4. CASE fired[w]
    <3>1. UNCHANGED <<fired, by, pc, call>>
      BY <1>20, <2>0, <2>4 DEF Fire
    <3>2. Same
      BY <3>1 DEF Held, Delivered, Firing
    <3>3. QED
      BY <1>7, <1>8, <1>9, <1>10, <2>3, <3>1, <3>2
  <2>5. CASE ~ fired[w]
    <3>1. /\ fired' = [fired EXCEPT ![w] = TRUE] /\ by' = [by EXCEPT ![w] = e]
          /\ IF e \in Manual THEN UNCHANGED <<pc, call>> ELSE Return(t)
      BY <1>20, <2>0, <2>5 DEF Fire
    <3>2. pc'[w] = pc[w] /\ call'[w] = call[w]
      BY <1>1, <2>1, Alone
    <3>3. /\ \A u \in Threads : u \notin {t, w} => (Held(u, f)' <=> Held(u, f))
          /\ fired'[w] /\ by'[w] = e
      BY <1>2, <1>6, <2>1, <3>1 DEF TypeOK
    <3>4. ~ Held(w, f) /\ (Held(w, f)' <=> e = f)
      BY <2>1, <2>5, <3>2, <3>3 DEF Held, Delivered, Firing, Waits
    <3>5. CASE e = f
      <4>1. ~ Held(t, f)' /\ Held(t, f)
        BY <1>13, <1>14, <2>2, <3>1, <3>5
      <4>2. Cardinality(Holders(f)') = Cardinality(Holders(f))
        BY <2>1, <3>3, <3>4, <3>5, <4>1, HoldersPass
      <4>3. QED
        BY <1>5, <2>3, <4>2
    <3>6. CASE e # f
      <4>1. Rest
        BY <3>3, <3>4, <3>6
      <4>2. CASE UNCHANGED <<pc, call>>
        <5>1. fired'[t] = fired[t] /\ by'[t] = by[t]
          BY <1>2, <2>1, <3>1 DEF TypeOK
        <5>2. Same
          BY <4>2, <5>1 DEF Held, Delivered, Firing
        <5>3. QED
          BY <1>8, <1>9, <1>10, <2>3, <4>1, <5>2
      <4>3. CASE Return(t)
        BY <1>8, <1>9, <1>10, <1>13, <1>14, <2>2, <2>3, <3>6, <4>1, <4>3
      <4>4. QED
        BY <3>1, <4>2, <4>3
    <3>7. QED
      BY <3>5, <3>6
  <2>6. QED
    BY <2>4, <2>5
<1>21. CASE NobodyLeft(t)
  <2> DEFINE e == Head(call[t].events)
  <2>1. pc[t] = "fire" /\ e \in Events /\ ~ signaled[e]
    BY <1>2, <1>21, EventOf DEF NobodyLeft, HoldsInv, LockInv
  <2>2. Held(t, f) <=> e = f
    BY <2>1 DEF Held, Delivered, Firing
  <2>3. /\ signaled' = [signaled EXCEPT ![e] = TRUE] /\ UNCHANGED <<owed, fired, by>>
        /\ Return(t)
    BY <1>21 DEF NobodyLeft
  <2> HIDE DEF e
  <2>4. Rest /\ ~ Held(t, f)'
    BY <1>7, <1>13, <1>14, <2>3
  <2>5. CASE e = f
    <3>1. Cardinality(Holders(f)') = Cardinality(Holders(f)) - 1
      BY <2>2, <2>4, <2>5, HoldersJoin
    <3>2. signaled'[f] = TRUE /\ signaled[f] = FALSE /\ owed'[f] = owed[f]
      BY <1>2, <2>1, <2>3, <2>5 DEF TypeOK
    <3>3. QED
      BY <1>5, <3>1, <3>2
  <2>6. CASE e # f
    <3>1. signaled'[f] = signaled[f] /\ owed'[f] = owed[f]
      BY <1>2, <2>3, <2>6 DEF TypeOK
    <3>2. QED
      BY <1>8, <1>9, <2>2, <2>4, <2>6, <3>1
  <2>7. QED
    BY <2>5, <2>6
<1>22. CASE Test(t) \/ Wake(t) \/ Woken(t)
  <2>1. /\ pc[t] \in {"test", "sleep"} /\ pc'[t] \in {"test", "sleep", "undo"}
        /\ UNCHANGED <<signaled, owed, fired, by, call>>
    BY <1>2, <1>22 DEF Test, Wake, Woken, Go, TypeOK
  <2>2. Same
    BY <2>1 DEF Held, Delivered, Firing
  <2>3. QED
    BY <1>7, <1>8, <1>9, <1>10, <2>1, <2>2
<1>23. CASE Leave(t)
  <2>1. /\ pc[t] = "test" /\ pc'[t] = "dequeue" /\ call'[t].result = fired[t]
        /\ UNCHANGED <<signaled, owed, by>>
        /\ \A u \in Threads : u # t => fired'[u] = fired[u]
    BY <1>2, <1>23 DEF Leave, Go, TypeOK
  <2>2. Same
    BY <2>1 DEF Held, Delivered, Firing
  <2>3. QED
    BY <1>7, <1>8, <1>9, <1>10, <2>1, <2>2
<1>24. CASE Dequeue(t)
  <2> DEFINE e == Head(call[t].events)
  <2>1. /\ pc[t] = "dequeue" /\ e \in Events
        /\ call[t].result => by[t] = e
        /\ ~ call[t].result => ~ Delivered(t, f)
    BY <1>2, <1>24, EventOf DEF Dequeue, Delivered
  <2>2. Held(t, f) <=> call[t].result /\ e = f
    BY <2>1 DEF Held, Delivered, Firing
  <2>3. Rest /\ ~ Held(t, f)' /\ signaled' = signaled
    BY <1>7, <1>13, <1>14, <1>24 DEF Dequeue
  <2>4. IF call[t].result THEN Got(e) ELSE UNCHANGED owed
    BY <1>24 DEF Dequeue
  <2> HIDE DEF e
  <2>5. CASE call[t].result /\ e = f
    <3>1. Cardinality(Holders(f)') = Cardinality(Holders(f)) - 1
      BY <2>2, <2>3, <2>5, HoldersJoin
    <3>2. owed'[f] = owed[f] - 1
      BY <1>2, <2>4, <2>5 DEF Got, TypeOK
    <3>3. QED
      BY <1>5, <2>3, <3>1, <3>2
  <2>6. CASE ~ (call[t].result /\ e = f)
    <3>1. owed'[f] = owed[f]
      BY <1>2, <2>1, <2>4, <2>6 DEF Got, TypeOK
    <3>2. QED
      BY <1>8, <1>9, <2>2, <2>3, <2>6, <3>1
  <2>7. QED
    BY <2>5, <2>6
<1>25. CASE EnqueueMultiple(t)
  <2>1. pc[t] = "many" /\ call[t].left # {}
    BY <1>2, <1>25 DEF HoldsInv, EnqueueMultiple
  <2>2. PICK e \in Events : e = NextLock(t)
    BY <1>2, <2>1, NextLockIsLeft
  <2>3. ~ Held(t, f)
    BY <1>12, <2>1
  <2>4. CASE signaled[e] /\ Take(e) /\ Return(t) /\ UNCHANGED waiterVars
    BY <1>7, <1>8, <1>9, <1>11, <1>13, <1>14, <2>3, <2>4
  <2>5. CASE UNCHANGED <<signaled, owed, waiterVars, pc>>
    <3>1. pc'[t] = "many"
      BY <2>1, <2>5
    <3>2. QED
      BY <1>7, <1>8, <1>9, <1>10, <1>13, <2>3, <2>5, <3>1
  <2>6. CASE Enqueue(t, ToSet(call[t].events)) /\ UNCHANGED <<signaled, owed>>
    BY <1>8, <1>9, <1>10, <1>15, <2>3, <2>6
  <2>7. QED
    BY <1>25, <2>2, <2>4, <2>5, <2>6 DEF EnqueueMultiple
<1>26. CASE Undo(t)
  <2>1. pc[t] = "undo" /\ by[t] \in Events /\ fired[t]
    BY <1>2, <1>26, EventOf DEF Undo, CallInv
  <2>2. Held(t, f) <=> by[t] = f
    BY <2>1 DEF Held, Delivered, Firing
  <2>3. Rest /\ UNCHANGED <<signaled, fired, by>>
    BY <1>7, <1>26 DEF Undo
  <2>4. CASE UNCHANGED <<pc, owed>>
    <3>1. Same
      BY <2>1, <2>2, <2>3, <2>4 DEF Held, Delivered, Firing
    <3>2. QED
      BY <1>8, <1>9, <1>10, <2>3, <2>4, <3>1
  <2>5. CASE Return(t) /\ Got(by[t])
    <3>1. ~ Held(t, f)'
      BY <1>13, <1>14, <2>5
    <3>2. CASE by[t] = f
      <4>1. Cardinality(Holders(f)') = Cardinality(Holders(f)) - 1
        BY <2>2, <2>3, <3>1, <3>2, HoldersJoin
      <4>2. owed'[f] = owed[f] - 1
        BY <1>2, <2>5, <3>2 DEF Got, TypeOK
      <4>3. QED
        BY <1>5, <2>3, <4>1, <4>2
    <3>3. CASE by[t] # f
      <4>1. owed'[f] = owed[f]
        BY <1>2, <2>1, <2>5, <3>3 DEF Got, TypeOK
      <4>2. QED
        BY <1>8, <1>9, <2>2, <2>3, <3>1, <3>3, <4>1
    <3>4. QED
      BY <3>2, <3>3
  <2>6. QED
    BY <1>26, <2>4, <2>5 DEF Undo
<1>27. QED
  BY <1>1, <1>16, <1>17, <1>18, <1>19, <1>20, <1>21, <1>22, <1>23, <1>24, <1>25, <1>26 DEF Step

-----------------------------------------------------------------------------
LEMMA InitIInv == ASSUME Init PROVE IInv
<1> USE ThreadsAssumption DEF Init
<1>1. TypeOK
  BY DEF TypeOK, NoCall
<1>2. /\ \A e \in Events : waiters[e] = << >> /\ lock[e] = None
      /\ \A t \in Threads : pc[t] = "idle" /\ by[t] = None
  OBVIOUS
<1>3. ToSet(<< >>) = {} /\ IsInjective(<< >>)
  BY DEF ToSet, IsInjective
<1>4. LockInv /\ HoldsInv /\ CallInv /\ ListInv /\ FiredInv /\ NoneWaits
  BY <1>2, <1>3 DEF LockInv, HoldsInv, CallInv, ListInv, FiredInv, NoneWaits, Waits
<1>5. SignalsConserved
  <2>1. SUFFICES ASSUME NEW e \in Events \ Manual
                 PROVE  owed[e] = (IF signaled[e] THEN 1 ELSE 0) + Cardinality(Holders(e))
    BY OwedIs
  <2>2. Holders(e) = {}
    BY <1>2 DEF Holders, Held, Delivered, Firing
  <2>3. Cardinality(Holders(e)) = 0
    BY <2>2, FS_EmptySet
  <2>4. owed[e] = IF signaled[e] THEN 1 ELSE 0
    OBVIOUS
  <2>5. QED
    BY <2>3, <2>4
<1>6. QED
  BY <1>1, <1>4, <1>5 DEF IInv

LEMMA Inductive == IInv /\ [Next]_vars => IInv'
<1>1. SUFFICES ASSUME IInv, [Next]_vars PROVE IInv'
  OBVIOUS
<1>2. CASE Next
  <2>1. TypeOK'
    BY <1>1, <1>2, TypeInductive
  <2>2. QED
    BY <1>1, <1>2, <2>1, LocksInductive, CallsInductive, ListsInductive, SignalsInductive DEF IInv
<1>3. CASE UNCHANGED vars
  <2>1. UNCHANGED <<signaled, waiters, lock, fired, by, swLock, pc, call, owed>>
    BY <1>3 DEF vars, kernelVars, waiterVars
  <2>2. QED
    BY <1>1, <2>1 DEF IInv, TypeOK, LockInv, HoldsInv, CallInv, ListInv, FiredInv, NoneWaits,
                      SignalsConserved, Delivered, Firing, Single
<1>4. QED
  BY <1>1, <1>2, <1>3

LEMMA Invariant == Spec => []IInv
BY InitIInv, Inductive, PTL DEF Spec

(* Every variable keeps its type, whatever threads, events and arrays there *)
(* are.                                                                     *)
THEOREM TypeCorrect == Spec => []TypeOK
<1>1. IInv => TypeOK
  BY DEF IInv
<1>2. QED
  BY <1>1, Invariant, PTL

(* A signal of an auto-reset event is got by one wait: no timeout and no    *)
(* second event that fires the same waiter loses it.                        *)
THEOREM SignalsConservedCorrect == Spec => []SignalsConserved
<1>1. IInv => SignalsConserved
  BY DEF IInv
<1>2. QED
  BY <1>1, Invariant, PTL

(* A signaled event leaves nobody asleep in its list, and no list names a   *)
(* thread that is not in a wait for its event.                              *)
THEOREM ListsTrueCorrect == Spec => []ListsTrue
<1>1. IInv => ListsTrue
  <2>1. SUFFICES ASSUME IInv PROVE SignaledMeansNoneWait /\ WaitersAlive
    BY DEF ListsTrue
  <2>2. SignaledMeansNoneWait
    BY <2>1 DEF IInv, NoneWaits, SignaledMeansNoneWait
  <2>3. WaitersAlive
    BY <2>1 DEF IInv, ListInv, WaitersAlive, Waits
  <2>4. QED
    BY <2>2, <2>3
<1>2. QED
  BY <1>1, Invariant, PTL
-----------------------------------------------------------------------------
(* Deadlock.  A waiter's lock is held by its thread alone, in the test; an  *)
(* event's by the thread that signals it, or by one that still waits only   *)
(* for locks of greater events.                                             *)
LockedEvents == {e \in Events : lock[e] # None}
Holding(t, e) ==
    \/ pc[t] = "fire" /\ e = Head(call[t].events)
    \/ pc[t] = "many" /\ \A f \in call[t].left : e < f
OrderInv == /\ \A w \in Threads : swLock[w] # None => pc[w] = "test"
            /\ \A e \in Events : lock[e] # None => Holding(lock[e], e)
            /\ IsFiniteSet(LockedEvents)

(* A finite set of naturals has a greatest: if one had none, take the      *)
(* smallest such set, and remove an element.                                *)
LEMMA GreatestNatural ==
    ASSUME NEW L, L \subseteq Nat, L # {}, IsFiniteSet(L)
    PROVE  \E m \in L : \A k \in L : k <= m
<1> DEFINE Bad(A) == /\ A \subseteq Nat /\ A # {} /\ IsFiniteSet(A)
                     /\ ~ \E m \in A : \A k \in A : k <= m
           S == {n \in Nat : \E A \in SUBSET Nat : Bad(A) /\ Cardinality(A) = n}
<1>1. SUFFICES ASSUME Bad(L) PROVE FALSE
  OBVIOUS
<1>2. S # {}
  <2>1. Cardinality(L) \in Nat
    BY FS_CardinalityType
  <2>2. L \in SUBSET Nat
    OBVIOUS
  <2>3. Cardinality(L) \in S
    BY <1>1, <2>1, <2>2
  <2>4. QED
    BY <2>3
<1>3. PICK n \in S : \A k \in S : n <= k
  <2>1. S \subseteq Nat
    OBVIOUS
  <2> HIDE DEF S
  <2>2. QED
    BY <1>2, <2>1, LeastNatural
<1>4. PICK A \in SUBSET Nat : Bad(A) /\ Cardinality(A) = n
  BY <1>3
<1>5. PICK x \in A : x \in Nat
  BY <1>4
<1> DEFINE B == A \ {x}
<1>6. IsFiniteSet(B) /\ Cardinality(B) = n - 1 /\ B \subseteq Nat
  BY <1>4, <1>5, FS_RemoveElement
<1>7. n \in Nat /\ n - 1 \in Nat /\ ~ (n <= n - 1)
  <2>1. n - 1 \in Nat
    BY <1>6, FS_CardinalityType
  <2>2. n \in Nat
    BY <1>3
  <2>3. QED
    BY <2>1, <2>2
<1>8. ~ Bad(B)
  <2>1. ASSUME Bad(B) PROVE n - 1 \in S
    BY <1>6, <1>7, <2>1
  <2>2. QED
    BY <1>3, <1>7, <2>1
<1>9. B # {}
  <2>1. SUFFICES ASSUME B = {} PROVE \A k \in A : k <= x
    BY <1>4, <1>5
  <2>2. \A k \in A : k = x
    BY <2>1
  <2>3. QED
    BY <1>5, <2>2
<1>10. PICK m \in B : \A k \in B : k <= m
  BY <1>6, <1>8, <1>9
<1>11. m \in A /\ m \in Nat /\ \A k \in A : k \in Nat /\ (k = x \/ k <= m)
  BY <1>4, <1>6, <1>10
<1> HIDE DEF Bad
<1>12. \E y \in A : \A k \in A : k <= y
  <2>1. CASE x <= m
    <3>1. \A k \in A : k <= m
      BY <1>11, <2>1
    <3>2. QED
      BY <1>11, <3>1
  <2>2. CASE ~ (x <= m)
    <3>1. \A k \in A : k <= x
      BY <1>5, <1>11, <2>2
    <3>2. QED
      BY <1>5, <3>1
  <2>3. QED
    BY <2>1, <2>2
<1>13. QED
  BY <1>4, <1>12 DEF Bad

LEMMA OrderInductive == ASSUME IInv, OrderInv, Next, TypeOK' PROVE OrderInv'
<1>1. PICK t \in Threads : Step(t)
  BY Steps
<1>2. TypeOK /\ HoldsInv /\ CallInv /\ FiredInv /\ t # None /\ None \notin Events
  BY ThreadsAssumption DEF IInv
<1>3. /\ \A w \in Threads : swLock[w] # None => pc[w] = "test"
      /\ \A e \in Events : lock[e] # None => Holding(lock[e], e)
      /\ IsFiniteSet(LockedEvents)
  BY DEF OrderInv
<1> DEFINE Mine == \A e \in Events : lock'[e] = t => Holding(t, e)'
           Sw == \A w \in Threads : swLock'[w] = IF w = t THEN swLock'[t] ELSE swLock[w]
           Tested == swLock'[t] # None => pc'[t] = "test"
           Locks == \E e : LockedEvents' \subseteq LockedEvents \cup {e}
<1>4. Mine /\ Sw /\ Tested /\ Locks
  <2> USE <1>2, <1>3 DEF kernelVars, waiterVars, Return, Go, TypeOK, LockedEvents, Holding
  <2>1. ASSUME NEW e \in Events, Reset(t, e) \/ IsSignaled(t, e)
        PROVE  Mine /\ Sw /\ Tested /\ Locks
    BY <2>1 DEF Reset, IsSignaled
  <2>2. ASSUME NEW e \in Events, Signal(t, e) PROVE Mine /\ Sw /\ Tested /\ Locks
    <3>1. /\ pc'[t] = "fire" /\ Head(call'[t].events) = e
          /\ lock' = [lock EXCEPT ![e] = t] /\ swLock' = swLock /\ pc[t] = "idle"
      BY <2>2 DEF Signal
    <3>2. \A f \in Events : lock[f] # t
      BY <3>1
    <3>3. QED
      BY <3>1, <3>2
  <2>3. ASSUME NEW e \in Events, NEW timed \in BOOLEAN, WaitTimeout(t, e, timed)
        PROVE  Mine /\ Sw /\ Tested /\ Locks
    BY <2>3 DEF WaitTimeout, Enqueue
  <2>4. ASSUME NEW a \in Arrays, WaitMultiple(t, a) PROVE Mine /\ Sw /\ Tested /\ Locks
    <3>1. pc[t] = "idle" /\ UNCHANGED <<lock, swLock>>
      BY <2>4 DEF WaitMultiple
    <3>2. \A f \in Events : lock[f] # t
      BY <3>1
    <3>3. QED
      BY <3>1, <3>2
  <2>5. CASE Fire(t) \/ NobodyLeft(t)
    <3> DEFINE e == Head(call[t].events)
    <3>1. /\ pc[t] = "fire" /\ swLock' = swLock /\ e \in Events
          /\ UNCHANGED <<lock, pc, call>>
             \/ lock' = [lock EXCEPT ![e] = None]
      BY <2>5, EventOf DEF Fire, NobodyLeft
    <3>2. \A f \in Events : lock[f] = t => f = e
      BY <3>1
    <3> HIDE DEF e
    <3>3. CASE UNCHANGED <<lock, pc, call>>
      BY <3>1, <3>3
    <3>4. CASE lock' = [lock EXCEPT ![e] = None]
      <4>1. \A f \in Events : lock'[f] # t
        BY <3>1, <3>2, <3>4
      <4>2. QED
        BY <3>1, <3>4, <4>1
    <3>5. QED
      BY <3>1, <3>3, <3>4
  <2>6. CASE Test(t) \/ Leave(t) \/ Woken(t) \/ Wake(t)
    <3>1. pc[t] \in {"test", "sleep"} /\ lock' = lock
      BY <2>6 DEF Test, Leave, Woken, Wake
    <3>2. \A f \in Events : lock[f] # t
      BY <3>1
    <3>3. swLock' = [swLock EXCEPT ![t] = None]
          \/ (swLock' = [swLock EXCEPT ![t] = t] /\ pc'[t] = "test")
      BY <2>6 DEF Test, Leave, Woken, Wake
    <3>4. QED
      BY <3>1, <3>2, <3>3
  <2>7. CASE Dequeue(t) \/ Undo(t)
    <3>1. pc[t] \in {"dequeue", "undo"} /\ UNCHANGED <<lock, swLock>>
      BY <2>7 DEF Dequeue, Undo
    <3>2. \A f \in Events : lock[f] # t
      BY <3>1
    <3>3. swLock[t] = None
      BY <3>1
    <3>4. QED
      BY <3>1, <3>2, <3>3
  <2>8. CASE EnqueueMultiple(t)
    <3>1. PICK e \in Events : /\ e = NextLock(t) /\ e \in call[t].left /\ pc[t] = "many"
                              /\ \A f \in call[t].left : e <= f
      BY <2>8, NextLockIsLeft DEF EnqueueMultiple, HoldsInv
    <3>2. CASE lock' = Released(t)
      <4>1. \A f \in Events : lock'[f] # t /\ (lock'[f] # None => lock[f] # None)
        BY <3>2 DEF Released
      <4>2. swLock' = swLock \/ (swLock' = [swLock EXCEPT ![t] = t] /\ pc'[t] = "test")
        BY <2>8 DEF EnqueueMultiple, Enqueue
      <4>3. QED
        BY <3>1, <4>1, <4>2
    <3>3. CASE /\ lock' = [lock EXCEPT ![e] = t]
               /\ call' = [call EXCEPT ![t].left = @ \ {e}]
               /\ UNCHANGED <<swLock, pc>>
      <4>1. call'[t].left = call[t].left \ {e} /\ pc'[t] = "many"
        BY <3>1, <3>3
      <4>2. \A f \in call[t].left : f \in Nat /\ e \in Nat /\ e <= f
        BY <3>1, EventsAssumption
      <4>3. \A f \in call'[t].left : e < f
        BY <4>1, <4>2
      <4>4. \A f \in Events : lock[f] = t => \A g \in call'[t].left : f < g
        BY <3>1, <4>1
      <4>5. \A f \in Events : lock'[f] = t => f = e \/ lock[f] = t
        BY <3>3
      <4>6. Mine
        BY <4>1, <4>3, <4>4, <4>5
      <4>7. QED
        BY <3>1, <3>3, <4>6
    <3>4. QED
      BY <2>8, <3>1, <3>2, <3>3 DEF EnqueueMultiple
  <2> HIDE DEF Mine, Sw, Tested, Locks
  <2>9. QED
    BY <1>1, <2>1, <2>2, <2>3, <2>4, <2>5, <2>6, <2>7, <2>8 DEF Step
<1>5. \A w \in Threads : swLock'[w] # None => pc'[w] = "test"
  BY <1>1, <1>3, <1>4, Alone
<1>6. ASSUME NEW e \in Events, lock'[e] # None PROVE Holding(lock[e], e)'
  <2>1. PICK u \in Threads : lock'[e] = u
    BY <1>6 DEF TypeOK
  <2>2. CASE u = t
    BY <1>4, <2>1, <2>2
  <2>3. CASE u # t
    <3>1. lock[e] = u /\ pc'[u] = pc[u] /\ call'[u] = call[u]
      BY <1>1, <2>1, <2>3, Alone
    <3>2. Holding(u, e)
      BY <1>2, <1>3, <3>1, ThreadsAssumption
    <3>3. Holding(u, e)'
      BY <3>1, <3>2 DEF Holding
    <3>4. QED
      BY <2>1, <3>3
  <2>4. QED
    BY <2>2, <2>3
<1>7. IsFiniteSet(LockedEvents')
  <2>1. PICK e : LockedEvents' \subseteq LockedEvents \cup {e}
    BY <1>4
  <2>2. IsFiniteSet(LockedEvents \cup {e})
    BY <1>3, FS_AddElement
  <2>3. QED
    BY <2>1, <2>2, FS_Subset
<1>8. QED
  BY <1>5, <1>6, <1>7 DEF OrderInv

(* Were all of them blocked, the holder of the greatest lock would wait for *)
(* a greater one.                                                           *)
LEMMA SomeoneFree == ASSUME IInv, OrderInv PROVE SomeoneProceeds
<1>1. SUFFICES ASSUME NEW t \in Threads, InCall(t),
                      \A u \in Threads : InCall(u) => Blocked(u)
               PROVE  FALSE
  BY DEF SomeoneProceeds
<1>2. TypeOK /\ HoldsInv /\ None \notin Threads \cup Events
  BY ThreadsAssumption DEF IInv
<1>3. \A w \in Threads : pc[w] # "test"
  BY <1>1 DEF InCall, Blocked
<1>4. \A w \in Threads : swLock[w] = None
  BY <1>3 DEF OrderInv
<1>5. ASSUME NEW u \in Threads PROVE pc[u] # "fire"
  <2>1. SUFFICES ASSUME pc[u] = "fire" PROVE FALSE
    OBVIOUS
  <2>2. LET e == Head(call[u].events) IN
        e \in Events /\ waiters[e] # << >> /\ swLock[Head(waiters[e])] # None
    BY <1>1, <1>2, <2>1, EventOf DEF InCall, Blocked, IInv
  <2>3. Head(waiters[Head(call[u].events)]) \in Threads
    BY <1>2, <2>2, TailList DEF TypeOK
  <2>4. QED
    BY <1>4, <2>2, <2>3
<1>6. LockedEvents # {}
  <2>1. pc[t] \in {"dequeue", "undo", "many"}
    BY <1>1, <1>2, <1>3, <1>5 DEF InCall, TypeOK
  <2>2. CASE pc[t] = "many"
    <3>1. NextLock(t) \in Events
      BY <1>2, <2>2, NextLockIsLeft DEF HoldsInv
    <3>2. QED
      BY <1>1, <2>2, <3>1 DEF InCall, Blocked, Free, LockedEvents
  <2>3. CASE pc[t] \in {"dequeue", "undo"}
    <3>1. Head(call[t].events) \in Events
      BY <2>3, <1>2, EventOf DEF IInv, CallInv, TypeOK, Waits
    <3>2. QED
      BY <1>1, <2>3, <3>1 DEF InCall, Blocked, Free, LockedEvents
  <2>4. QED
    BY <2>1, <2>2, <2>3
<1>7. PICK m \in LockedEvents : \A e \in LockedEvents : e <= m
  BY <1>6, GreatestNatural, EventsAssumption DEF OrderInv, LockedEvents
<1>8. PICK u \in Threads : lock[m] = u
  BY <1>2 DEF TypeOK, LockedEvents
<1>9. pc[u] = "many" /\ \A f \in call[u].left : m < f
  BY <1>2, <1>5, <1>8 DEF OrderInv, LockedEvents, Holding
<1>10. NextLock(u) \in call[u].left /\ NextLock(u) \in Events
  BY <1>2, <1>9, NextLockIsLeft DEF HoldsInv
<1>11. NextLock(u) \in LockedEvents
  BY <1>1, <1>9, <1>10 DEF InCall, Blocked, Free, LockedEvents
<1>12. NextLock(u) \in Nat /\ m \in Nat
  BY <1>10, EventsAssumption DEF LockedEvents
<1>13. QED
  BY <1>7, <1>9, <1>10, <1>11, <1>12

LEMMA InitOrder == ASSUME Init PROVE OrderInv
<1>1. LockedEvents = {}
  BY DEF Init, LockedEvents
<1>2. QED
  BY <1>1, FS_EmptySet DEF Init, OrderInv, LockedEvents

(* While a thread is in a call and not asleep, one of them is not held up   *)
(* by a mutex: whatever events two waits for several name, in whatever      *)
(* order, no circle of threads waits for one another's locks.               *)
THEOREM SomeoneProceedsCorrect == Spec => []SomeoneProceeds
<1>1. IInv /\ OrderInv /\ IInv' /\ [Next]_vars => OrderInv'
  <2>1. CASE UNCHANGED vars
    BY <2>1 DEF vars, kernelVars, waiterVars, OrderInv, LockedEvents, Holding
  <2>2. QED
    BY <2>1, OrderInductive DEF IInv
<1>2. IInv /\ OrderInv => SomeoneProceeds
  BY SomeoneFree
<1>3. QED
  BY <1>1, <1>2, InitOrder, Invariant, PTL DEF Spec
-----------------------------------------------------------------------------
(* Seen from outside, events are EventSignals.                              *)

(* Who is before whom when a list changes.                                  *)
LEMMA PrecedesIs ==
    ASSUME NEW S, NEW q \in Seq(S), NEW u, NEW v
    PROVE  /\ Precedes(q, u, v) <=> \E i, j \in 1..Len(q) : i < j /\ q[i] = u /\ q[j] = v
           /\ Precedes(q, u, v) => u \in ToSet(q) /\ v \in ToSet(q)
<1>1. Precedes(q, u, v) <=> \E i, j \in 1..Len(q) : i < j /\ q[i] = u /\ q[j] = v
  BY Members DEF Precedes
<1>2. QED
  BY <1>1, Members

LEMMA PrecedesAppend ==
    ASSUME NEW S, NEW q \in Seq(S), NEW t \in S, t \notin ToSet(q), NEW u, NEW v
    PROVE  Precedes(Append(q, t), u, v) <=> Precedes(q, u, v) \/ (v = t /\ u \in ToSet(q))
<1> DEFINE r == Append(q, t)
<1>1. /\ r \in Seq(S) /\ Len(r) = Len(q) + 1 /\ r[Len(q) + 1] = t
      /\ \A k \in 1..Len(q) : r[k] = q[k]
  OBVIOUS
<1> HIDE DEF r
<1>2. PICK n \in Nat : n = Len(q)
  OBVIOUS
<1>3. /\ \A k \in 1..n + 1 : k \in 1..n \/ k = n + 1
      /\ \A k \in 1..n : k \in 1..n + 1 /\ k < n + 1
      /\ n + 1 \in 1..n + 1 /\ \A i \in 1..n + 1 : ~ (n + 1 < i)
  OBVIOUS
<1>4. ASSUME NEW i \in 1..n + 1, NEW j \in 1..n + 1, i < j, r[i] = u, r[j] = v
      PROVE  Precedes(q, u, v) \/ (v = t /\ u \in ToSet(q))
  <2>1. i \in 1..n /\ q[i] = u
    BY <1>1, <1>2, <1>3, <1>4
  <2>2. CASE j \in 1..n
    BY <1>1, <1>2, <1>4, <2>1, <2>2, PrecedesIs
  <2>3. CASE j = n + 1
    BY <1>1, <1>2, <1>4, <2>1, <2>3, Members
  <2>4. QED
    BY <1>3, <2>2, <2>3
<1>5. ASSUME Precedes(q, u, v) PROVE \E i, j \in 1..n + 1 : i < j /\ r[i] = u /\ r[j] = v
  BY <1>1, <1>2, <1>3, <1>5, PrecedesIs
<1>6. ASSUME u \in ToSet(q) PROVE \E i, j \in 1..n + 1 : i < j /\ r[i] = u /\ r[j] = t
  BY <1>1, <1>2, <1>3, <1>6, Members
<1>7. Precedes(r, u, v) <=> \E i, j \in 1..n + 1 : i < j /\ r[i] = u /\ r[j] = v
  BY <1>1, <1>2, PrecedesIs
<1>8. QED
  BY <1>4, <1>5, <1>6, <1>7 DEF r

LEMMA PrecedesTail ==
    ASSUME NEW S, NEW q \in Seq(S), q # << >>, NEW u, NEW v
    PROVE  Precedes(q, u, v) <=>
               Precedes(Tail(q), u, v) \/ (u = Head(q) /\ v \in ToSet(Tail(q)))
<1> DEFINE r == Tail(q)
<1>1. /\ r \in Seq(S) /\ Len(r) = Len(q) - 1 /\ \A k \in 1..Len(r) : r[k] = q[k + 1]
      /\ Len(q) \in Nat /\ Len(q) > 0 /\ Head(q) = q[1]
  OBVIOUS
<1> HIDE DEF r
<1>2. PICK n \in Nat : n = Len(r) /\ Len(q) = n + 1
  BY <1>1
<1>3. /\ 1 \in 1..n + 1 /\ \A k \in 1..n : k + 1 \in 1..n + 1 /\ 1 < k + 1
      /\ \A i, j \in 1..n : i < j <=> i + 1 < j + 1
      /\ \A k \in 1..n + 1 : k = 1 \/ \E i \in 1..n : k = i + 1
      /\ \A i \in 1..n + 1 : ~ (i < 1)
  <2>1. \A k \in 1..n + 1 : k = 1 \/ (k - 1 \in 1..n /\ k = k - 1 + 1)
    OBVIOUS
  <2>2. QED
    BY <2>1
<1>4. ASSUME NEW i \in 1..n + 1, NEW j \in 1..n + 1, i < j, q[i] = u, q[j] = v
      PROVE  Precedes(r, u, v) \/ (u = Head(q) /\ v \in ToSet(r))
  <2>1. PICK l \in 1..n : j = l + 1
    BY <1>3, <1>4
  <2>2. r[l] = v
    BY <1>1, <1>2, <1>4, <2>1
  <2>3. CASE i = 1
    BY <1>1, <1>2, <1>4, <2>2, <2>3, Members
  <2>4. ASSUME NEW k \in 1..n, i = k + 1 PROVE Precedes(r, u, v)
    BY <1>1, <1>2, <1>3, <1>4, <2>1, <2>2, <2>4, PrecedesIs
  <2>5. QED
    BY <1>3, <2>3, <2>4
<1>5. ASSUME Precedes(r, u, v) PROVE \E i, j \in 1..n + 1 : i < j /\ q[i] = u /\ q[j] = v
  <2>1. PICK i, j \in 1..n : i < j /\ r[i] = u /\ r[j] = v
    BY <1>1, <1>2, <1>5, PrecedesIs
  <2>2. i + 1 < j + 1 /\ q[i + 1] = u /\ q[j + 1] = v
    BY <1>1, <1>2, <2>1
  <2>3. QED
    BY <1>3, <2>2
<1>6. ASSUME v \in ToSet(r) PROVE \E i, j \in 1..n + 1 : i < j /\ q[i] = Head(q) /\ q[j] = v
  <2>1. PICK j \in 1..n : r[j] = v
    BY <1>1, <1>2, <1>6, Members
  <2>2. QED
    BY <1>1, <1>2, <1>3, <2>1
<1>7. Precedes(q, u, v) <=> \E i, j \in 1..n + 1 : i < j /\ q[i] = u /\ q[j] = v
  BY <1>2, PrecedesIs
<1>8. QED
  BY <1>4, <1>5, <1>6, <1>7 DEF r

LEMMA PrecedesWithout ==
    ASSUME NEW S, NEW q \in Seq(S), IsInjective(q), NEW t, NEW u, NEW v
    PROVE  Precedes(Without(q, t), u, v) <=> Precedes(q, u, v) /\ u # t /\ v # t
<1>1. CASE t \notin ToSet(q)
  BY <1>1, PrecedesIs DEF Without
<1>2. CASE t \in ToSet(q)
  <2> DEFINE P(k) == q[k] = t /\ \A j \in 1..k - 1 : q[j] # t
  <2>1. /\ Len(q) \in Nat /\ DOMAIN q = 1..Len(q)
        /\ \A i, j \in 1..Len(q) : q[i] = q[j] => i = j
    BY Members
  <2>2. PICK l \in 1..Len(q) : q[l] = t
    BY <1>2, Members
  <2>3. \A j \in 1..l - 1 : j \in 1..Len(q) /\ j # l
    BY <2>1
  <2>4. P(l)
    BY <2>1, <2>2, <2>3
  <2>5. PICK k \in DOMAIN q : k = (CHOOSE i \in DOMAIN q : P(i)) /\ P(k)
    BY <2>1, <2>2, <2>4
  <2> HIDE DEF P
  <2>6. k \in 1..Len(q) /\ q[k] = t
    BY <2>1, <2>5 DEF P
  <2>7. Without(q, t) = RemoveAt(q, k)
    BY <1>2, <2>5 DEF Without, P
  <2> DEFINE r == RemoveAt(q, k)
  <2>8. /\ r \in Seq(S) /\ Len(r) = Len(q) - 1
        /\ \A i \in 1..Len(q) - 1 : r[i] = IF i < k THEN q[i] ELSE q[i + 1]
    BY <2>6, RemovedAt
  <2> HIDE DEF r
  <2>9. PICK n \in Nat : n = Len(r) /\ Len(q) = n + 1
    <3>1. Len(q) - 1 \in Nat /\ Len(q) = Len(q) - 1 + 1
      BY ONLY <2>1, <2>6
    <3>2. Len(r) \in Nat /\ Len(q) = Len(r) + 1
      BY <2>8, <3>1
    <3>3. QED
      BY <3>2
  <2> DEFINE g(i) == IF i < k THEN i ELSE i + 1
  <2>10. /\ \A i \in 1..n : g(i) \in 1..n + 1 /\ g(i) # k
         /\ \A i, j \in 1..n : i < j <=> g(i) < g(j)
         /\ \A j \in 1..n + 1 : j # k => \E i \in 1..n : g(i) = j
    <3>1. \A i \in 1..n : g(i) \in 1..n + 1 /\ g(i) # k
      BY <2>6, <2>9
    <3>2. \A i, j \in 1..n : i < j <=> g(i) < g(j)
      BY <2>6, <2>9
    <3>3. ASSUME NEW j \in 1..n + 1, j # k PROVE \E i \in 1..n : g(i) = j
      <4>1. CASE j < k
        BY <2>6, <2>9, <4>1
      <4>2. CASE j > k
        <5>1. j - 1 \in 1..n /\ g(j - 1) = j
          BY <2>6, <2>9, <4>2
        <5>2. QED
          BY <5>1
      <4>3. QED
        BY <2>6, <2>9, <3>3, <4>1, <4>2
    <3>4. QED
      BY <3>1, <3>2, <3>3
  <2>11. \A i \in 1..n : r[i] = q[g(i)]
    BY <2>1, <2>8, <2>9
  <2> HIDE DEF g
  <2>12. Precedes(r, u, v) <=> \E i, j \in 1..n : i < j /\ r[i] = u /\ r[j] = v
    BY <2>8, <2>9, PrecedesIs
  <2>13. Precedes(q, u, v) <=> \E i, j \in 1..n + 1 : i < j /\ q[i] = u /\ q[j] = v
    BY <2>9, PrecedesIs
  <2>14. ASSUME NEW i \in 1..n, NEW j \in 1..n, i < j, r[i] = u, r[j] = v
         PROVE  Precedes(q, u, v) /\ u # t /\ v # t
    <3>1. /\ g(i) \in 1..n + 1 /\ g(i) # k /\ g(j) \in 1..n + 1 /\ g(j) # k
          /\ g(i) < g(j) /\ q[g(i)] = u /\ q[g(j)] = v
      BY <2>10, <2>11, <2>14
    <3>2. u # t /\ v # t
      BY <2>1, <2>6, <2>9, <3>1
    <3>3. QED
      BY <2>13, <3>1, <3>2
  <2>15. ASSUME NEW i \in 1..n + 1, NEW j \in 1..n + 1, i < j, q[i] = u, q[j] = v, u # t, v # t
         PROVE  Precedes(r, u, v)
    <3>1. PICK a \in 1..n, b \in 1..n : g(a) = i /\ g(b) = j
      BY <2>6, <2>10, <2>15
    <3>2. a < b /\ r[a] = u /\ r[b] = v
      BY <2>10, <2>11, <2>15, <3>1
    <3>3. QED
      BY <2>12, <3>2
  <2>16. QED
    BY <2>7, <2>12, <2>13, <2>14, <2>15 DEF r
<1>3. QED
  BY <1>1, <1>2

(* A waiter taken off a list leaves the others in their order.              *)
OrderKept(w) == \A u, v : /\ Before(u, v)' => Before(u, v)
                          /\ u # w /\ v # w => (Before(u, v)' <=> Before(u, v))

LEMMA KeptFrom ==
    ASSUME NEW e \in Events, NEW w,
           \A f \in Events : f # e => waiters'[f] = waiters[f],
           \A u, v : /\ Precedes(waiters'[e], u, v) => Precedes(waiters[e], u, v)
                     /\ u # w /\ v # w /\ Precedes(waiters[e], u, v) => Precedes(waiters'[e], u, v)
    PROVE  OrderKept(w)
<1>1. ASSUME NEW u, NEW v, NEW f \in Events
      PROVE  /\ Precedes(waiters'[f], u, v) => Precedes(waiters[f], u, v)
             /\ u # w /\ v # w /\ Precedes(waiters[f], u, v) => Precedes(waiters'[f], u, v)
  <2>1. CASE f = e
    BY <2>1
  <2>2. CASE f # e
    BY <2>2
  <2>3. QED
    BY <2>1, <2>2
<1>2. \A u, v : (Before(u, v)' <=> \E f \in Events : Precedes(waiters'[f], u, v))
  BY DEF Before, Precedes
<1>3. QED
  BY <1>1, <1>2 DEF OrderKept, Before

LEMMA FireKeeps ==
    ASSUME IInv, NEW t \in Threads, Fire(t)
    PROVE  LET e == Head(call[t].events) IN OrderKept(Head(waiters[e]))
<1> DEFINE e == Head(call[t].events)
           w == Head(waiters[e])
<1>1. waiters \in [Events -> Seq(Threads)]
  BY DEF IInv, TypeOK
<1>2. waiters' = [waiters EXCEPT ![e] = Tail(@)] /\ waiters[e] # << >>
  BY DEF Fire
<1>3. e \in Events /\ Tail(waiters[e]) \in Seq(Threads)
  BY Popped
<1>4. \A u, v : Precedes(waiters[e], u, v) <=>
          Precedes(Tail(waiters[e]), u, v) \/ (u = w /\ v \in ToSet(Tail(waiters[e])))
  BY <1>1, <1>2, <1>3, PrecedesTail
<1> HIDE DEF e, w
<1>5. waiters'[e] = Tail(waiters[e]) /\ \A f \in Events : f # e => waiters'[f] = waiters[f]
  BY <1>1, <1>2, <1>3
<1>6. OrderKept(w)
  BY <1>3, <1>4, <1>5, KeptFrom
<1>7. QED
  BY <1>6 DEF e, w

LEMMA WithoutKeeps ==
    ASSUME IInv, NEW t \in Threads, NEW e \in Events,
           waiters' = [waiters EXCEPT ![e] = Without(@, t)]
    PROVE  OrderKept(t)
<1>1. waiters \in [Events -> Seq(Threads)] /\ IsInjective(waiters[e])
  BY DEF IInv, TypeOK, ListInv
<1>2. /\ waiters'[e] = Without(waiters[e], t)
      /\ \A f \in Events : f # e => waiters'[f] = waiters[f]
  BY <1>1
<1>3. \A u, v : Precedes(waiters'[e], u, v) <=> Precedes(waiters[e], u, v) /\ u # t /\ v # t
  BY <1>1, <1>2, PrecedesWithout
<1>4. QED
  BY <1>2, <1>3, KeptFrom

(* A waiter that joins lists is the last of each.                           *)
LEMMA EnqueueOrder ==
    ASSUME IInv, NEW t \in Threads, pc[t] \notin Waits, NEW es, Enqueue(t, es)
    PROVE  /\ \A u : ~ Before(t, u) /\ ~ Before(u, t) /\ ~ Before(t, u)'
           /\ \A u, v : v # t => (Before(u, v)' <=> Before(u, v))
           /\ \A u : Before(u, t)' <=> \E e \in Events : e \in es /\ u \in ToSet(waiters[e])
<1>1. ASSUME NEW e \in Events, NEW u, NEW v
      PROVE  /\ t \notin ToSet(waiters[e])
             /\ ~ Precedes(waiters[e], t, v) /\ ~ Precedes(waiters[e], u, t)
             /\ Precedes(waiters'[e], u, v) <=>
                    \/ Precedes(waiters[e], u, v)
                    \/ e \in es /\ v = t /\ u \in ToSet(waiters[e])
  <2>1. waiters[e] \in Seq(Threads) /\ t \notin ToSet(waiters[e])
    BY EnqueueLists DEF IInv, TypeOK
  <2>2. ~ Precedes(waiters[e], t, v) /\ ~ Precedes(waiters[e], u, t)
    BY <2>1, PrecedesIs
  <2>3. waiters'[e] = IF e \in es THEN Append(waiters[e], t) ELSE waiters[e]
    BY DEF Enqueue
  <2>4. CASE e \in es
    BY <2>1, <2>2, <2>3, <2>4, PrecedesAppend
  <2>5. CASE e \notin es
    BY <2>1, <2>2, <2>3, <2>5
  <2>6. QED
    BY <2>1, <2>2, <2>4, <2>5
<1>2. \A u, v : Before(u, v)' <=> \E e \in Events : Precedes(waiters'[e], u, v)
  BY DEF Before, Precedes
<1>3. \A u, v : Before(u, v) <=> \E e \in Events : Precedes(waiters[e], u, v)
  BY DEF Before
<1>4. \A u : ~ Before(t, u) /\ ~ Before(u, t)
  BY <1>1, <1>3
<1>5. \A u, v : Before(u, v)' <=>
          Before(u, v) \/ \E e \in Events : e \in es /\ v = t /\ u \in ToSet(waiters[e])
  BY <1>1, <1>2, <1>3
<1>6. \A u : ~ Before(t, u)'
  BY <1>1, <1>4, <1>5
<1>7. QED
  BY <1>4, <1>5, <1>6

(* Who waits is in the lists of all events of its call, and all lists have  *)
(* the threads in one order.                                                *)
InLines  == \A t \in Threads : Waiting(t) =>
                \A e \in ToSet(call[t].events) : t \in ToSet(waiters[e])
OneOrder == \A u, t \in Threads : ~ (Before(u, t) /\ Before(t, u))

(* What a step of t does to the lists: nothing, a waiter that no longer     *)
(* waits taken off one of them, or t put on those of its call.              *)
Thins(t, e, w) ==
    /\ w \in Threads /\ Shrinks(e, w) /\ OrderKept(w)
    /\ ~ Waiting(t)' /\ ~ Waiting(w)'
Joins(t, es) ==
    /\ pc[t] \notin Waits /\ Enqueue(t, es) /\ es \subseteq Events
    /\ ToSet(call'[t].events) = es

LEMMA ListMoves ==
    ASSUME IInv, NEW t \in Threads, Step(t)
    PROVE  \/ waiters' = waiters /\ (Waiting(t)' => Waiting(t) /\ call'[t].events = call[t].events)
           \/ \E e \in Events, w \in Threads : Thins(t, e, w)
           \/ \E es \in SUBSET Events : Joins(t, es)
<1> DEFINE Goal ==
        \/ waiters' = waiters /\ (Waiting(t)' => Waiting(t) /\ call'[t].events = call[t].events)
        \/ \E e \in Events, w \in Threads : Thins(t, e, w)
        \/ \E es \in SUBSET Events : Joins(t, es)
<1>1. TypeOK /\ CallInv /\ FiredInv /\ HoldsInv
  BY DEF IInv
<1>2. \A e : ToSet(<< e >>) = {e}
  BY DEF ToSet
<1> USE DEF kernelVars, waiterVars
<1>3. ASSUME UNCHANGED <<waiters, fired, pc, call>> PROVE Goal
  BY <1>3 DEF Waiting
<1>4. ASSUME waiters' = waiters, pc'[t] \notin {"test", "sleep"} PROVE Goal
  BY <1>4 DEF Waiting
<1>5. ASSUME NEW e \in Events, Reset(t, e) \/ IsSignaled(t, e) \/ Signal(t, e) PROVE Goal
  <2>1. CASE Reset(t, e) \/ IsSignaled(t, e)
    BY <1>3, <2>1 DEF Reset, IsSignaled
  <2>2. CASE Signal(t, e)
    BY <1>1, <1>4, <2>2 DEF Signal, Go, TypeOK
  <2>3. QED
    BY <1>5, <2>1, <2>2
<1>6. ASSUME NEW e \in Events, NEW timed \in BOOLEAN, WaitTimeout(t, e, timed) PROVE Goal
  <2>1. CASE UNCHANGED <<waiters, waiterVars, pc, call>>
    BY <1>3, <2>1
  <2>2. CASE Enqueue(t, {e}) /\ call' = [call EXCEPT ![t].events = <<e>>, ![t].timed = timed]
    <3>1. call'[t].events = << e >> /\ pc[t] \notin Waits
      BY <1>1, <1>6, <2>2 DEF WaitTimeout, TypeOK, Waits
    <3>2. Joins(t, {e})
      BY <1>2, <2>2, <3>1 DEF Joins
    <3>3. QED
      BY <3>2
  <2>3. QED
    BY <1>6, <2>1, <2>2 DEF WaitTimeout
<1>7. ASSUME NEW a \in Arrays, WaitMultiple(t, a) PROVE Goal
  BY <1>1, <1>4, <1>7 DEF WaitMultiple, Go, TypeOK
<1>8. CASE Fire(t)
  <2>1. PICK e \in Events, w \in Threads :
            /\ e = Head(call[t].events) /\ w = Head(waiters[e])
            /\ w # t /\ pc[t] = "fire" /\ Shrinks(e, w) /\ OrderKept(w)
    BY <1>8, FireShrinks, FireKeeps, Popped
  <2>2. fired'[w]
    BY <1>1, <1>8, <2>1 DEF Fire, TypeOK
  <2>3. pc' = pc \/ Return(t)
    BY <1>8 DEF Fire
  <2>4. ~ Waiting(t)'
    BY <1>1, <2>1, <2>3 DEF Waiting, Return, Go, TypeOK
  <2>5. Thins(t, e, w)
    BY <2>1, <2>2, <2>4 DEF Thins, Waiting
  <2>6. QED
    BY <2>5
<1>9. CASE NobodyLeft(t) \/ Woken(t)
  BY <1>1, <1>4, <1>9 DEF NobodyLeft, Woken, Return, Go, TypeOK
<1>10. CASE Test(t) \/ Wake(t)
  BY <1>1, <1>10 DEF Test, Wake, Go, Waiting, TypeOK
<1>11. CASE Leave(t)
  BY <1>1, <1>4, <1>11 DEF Leave, Go, TypeOK
<1>12. CASE Dequeue(t)
  <2> DEFINE e == Head(call[t].events)
  <2>1. e \in Events
    BY <1>1, <1>12, EventOf DEF Dequeue
  <2>2. waiters' = [waiters EXCEPT ![e] = Without(@, t)] /\ Return(t)
    BY <1>12 DEF Dequeue
  <2> HIDE DEF e
  <2>3. ~ Waiting(t)'
    BY <1>1, <2>2 DEF Waiting, Return, Go, TypeOK
  <2>4. Thins(t, e, t)
    BY <2>1, <2>2, <2>3, WithoutShrinks, WithoutKeeps DEF Thins
  <2>5. QED
    BY <2>1, <2>4
<1>13. CASE EnqueueMultiple(t)
  <2>1. CASE Return(t) /\ UNCHANGED waiters
    BY <1>1, <1>4, <2>1 DEF Return, Go, TypeOK
  <2>2. CASE UNCHANGED <<waiters, pc>>
    BY <1>4, <1>13, <2>2 DEF EnqueueMultiple
  <2>3. CASE /\ Enqueue(t, ToSet(call[t].events))
             /\ call' = [call EXCEPT ![t].left = {}]
    <3>1. /\ call'[t].events = call[t].events /\ ToSet(call[t].events) \subseteq Events
          /\ pc[t] \notin Waits
      BY <1>1, <1>13, <2>3, Members DEF EnqueueMultiple, TypeOK, Waits
    <3>2. Joins(t, ToSet(call[t].events))
      BY <2>3, <3>1 DEF Joins
    <3>3. QED
      BY <3>1, <3>2
  <2>4. QED
    BY <1>13, <2>1, <2>2, <2>3 DEF EnqueueMultiple
<1>14. CASE Undo(t)
  <2> DEFINE e == Head(call[t].events)
  <2>1. e \in Events /\ pc[t] = "undo"
    BY <1>1, <1>14, EventOf DEF Undo
  <2>2. /\ pc' = pc \/ Return(t)
        /\ \/ waiters' = waiters
           \/ waiters' = [waiters EXCEPT ![e] = Without(@, t)]
    BY <1>14 DEF Undo
  <2> HIDE DEF e
  <2>3. pc'[t] \notin {"test", "sleep"}
    BY <1>1, <2>1, <2>2 DEF Return, Go, TypeOK
  <2>4. CASE waiters' = waiters
    BY <1>4, <2>3, <2>4
  <2>5. CASE waiters' = [waiters EXCEPT ![e] = Without(@, t)]
    <3>1. Thins(t, e, t)
      BY <2>1, <2>3, <2>5, WithoutShrinks, WithoutKeeps DEF Thins, Waiting
    <3>2. QED
      BY <2>1, <3>1
  <2>6. QED
    BY <2>2, <2>4, <2>5
<1>15. QED
  BY <1>5, <1>6, <1>7, <1>8, <1>9, <1>10, <1>11, <1>12, <1>13, <1>14 DEF Step

LEMMA LinesInductive ==
    ASSUME IInv, InLines, OneOrder, Next, TypeOK' PROVE InLines' /\ OneOrder'
<1>1. PICK t \in Threads : Step(t)
  BY Steps
<1>2. TypeOK
  BY DEF IInv
<1>3. ASSUME NEW u \in Threads, u # t, Waiting(u)'
      PROVE  Waiting(u) /\ call'[u].events = call[u].events
  BY <1>1, <1>3, Alone, Aside DEF Waiting
<1>4. \A u \in Threads : ToSet(call[u].events) \subseteq Events
  BY <1>2, Members DEF TypeOK
<1>5. CASE waiters' = waiters /\ (Waiting(t)' => Waiting(t) /\ call'[t].events = call[t].events)
  <2>1. \A u, v : Before(u, v)' <=> Before(u, v)
    BY <1>5 DEF Before
  <2>2. InLines'
    BY <1>3, <1>5 DEF InLines
  <2>3. QED
    BY <2>1, <2>2 DEF OneOrder
<1>6. ASSUME NEW e \in Events, NEW w \in Threads, Thins(t, e, w) PROVE InLines' /\ OneOrder'
  <2>1. OneOrder'
    BY <1>6 DEF Thins, OrderKept, OneOrder
  <2>2. ASSUME NEW u \in Threads, Waiting(u)', NEW f \in ToSet(call'[u].events)
        PROVE  u \in ToSet(waiters'[f])
    <3>1. u # t /\ u # w
      BY <1>6, <2>2 DEF Thins
    <3>2. u \in ToSet(waiters[f]) /\ f \in Events
      BY <1>3, <1>4, <2>2, <3>1 DEF InLines
    <3>3. QED
      BY <1>6, <3>1, <3>2 DEF Thins, Shrinks
  <2>3. QED
    BY <2>1, <2>2 DEF InLines
<1>7. ASSUME NEW es \in SUBSET Events, Joins(t, es) PROVE InLines' /\ OneOrder'
  <2>1. /\ \A u : ~ Before(t, u)'
        /\ \A u, v : v # t => (Before(u, v)' <=> Before(u, v))
    BY <1>7, EnqueueOrder DEF Joins
  <2>2. OneOrder'
    BY <2>1 DEF OneOrder
  <2>3. \A f \in Events : ToSet(waiters'[f]) =
            IF f \in es THEN ToSet(waiters[f]) \cup {t} ELSE ToSet(waiters[f])
    BY <1>7, EnqueueLists DEF Joins
  <2>4. ASSUME NEW u \in Threads, Waiting(u)', NEW f \in ToSet(call'[u].events)
        PROVE  u \in ToSet(waiters'[f])
    <3>1. CASE u = t
      BY <1>7, <2>3, <2>4, <3>1 DEF Joins
    <3>2. CASE u # t
      <4>1. u \in ToSet(waiters[f]) /\ f \in Events
        BY <1>3, <1>4, <2>4, <3>2 DEF InLines
      <4>2. QED
        BY <2>3, <4>1
    <3>3. QED
      BY <3>1, <3>2
  <2>5. QED
    BY <2>2, <2>4 DEF InLines
<1>8. QED
  BY <1>1, <1>5, <1>6, <1>7, ListMoves

(* What the step of a thread can change of what is seen of a thread.        *)
SameWait(u) == /\ Waiting(u)' <=> Waiting(u)
               /\ Waiting(u) => /\ call'[u].events = call[u].events
                                /\ call'[u].timed = call[u].timed
SameGot(u)  == \A e \in Events : Delivered(u, e)' <=> Delivered(u, e)
SameOrder   == \A u, v \in Threads : Waiting(u)' /\ Waiting(v)' =>
                   (Before(u, v)' <=> Before(u, v))

LEMMA GivenIs ==
    ASSUME NEW t \in Threads
    PROVE  /\ \A e \in Events : Delivered(t, e) => Given[t] = e
           /\ (\A e \in Events : ~ Delivered(t, e)) => Given[t] = None
<1>1. \A e \in Events : Delivered(t, e) => by[t] = e
  BY DEF Delivered
<1>2. Given[t] = IF \E e \in Events : Delivered(t, e) THEN by[t] ELSE None
  BY DEF Given
<1>3. QED
  BY <1>1, <1>2

LEMMA GivenIsNext ==
    ASSUME NEW t \in Threads
    PROVE  /\ \A e \in Events : Delivered(t, e)' => Given'[t] = e
           /\ (\A e \in Events : ~ Delivered(t, e)') => Given'[t] = None
<1>1. \A e \in Events : Delivered(t, e)' => by'[t] = e
  BY DEF Delivered
<1>2. Given'[t] = IF \E e \in Events : Delivered(t, e)' THEN by'[t] ELSE None
  BY DEF Given
<1>3. QED
  BY <1>1, <1>2

LEMMA GotSeen ==
    /\ \A u \in Threads : SameGot(u) => Given'[u] = Given[u]
    /\ (\A u \in Threads : SameGot(u)) => Given' = Given
<1>1. \A u \in Threads : SameGot(u) => Given'[u] = Given[u]
  <2>1. SUFFICES ASSUME NEW u \in Threads, SameGot(u) PROVE Given'[u] = Given[u]
    OBVIOUS
  <2>2. CASE \E e \in Events : Delivered(u, e)
    <3>1. PICK e \in Events : Delivered(u, e)
      BY <2>2
    <3>2. Delivered(u, e)'
      BY <2>1, <3>1 DEF SameGot
    <3>3. QED
      BY <3>1, <3>2, GivenIs, GivenIsNext
  <2>3. CASE \A e \in Events : ~ Delivered(u, e)
    <3>1. \A e \in Events : ~ Delivered(u, e)'
      BY <2>1, <2>3 DEF SameGot
    <3>2. QED
      BY <2>3, <3>1, GivenIs, GivenIsNext
  <2>4. QED
    BY <2>2, <2>3
<1>2. ASSUME \A u \in Threads : SameGot(u) PROVE Given' = Given
  <2>1. /\ Given = [u \in Threads |-> Given[u]]
        /\ Given' = [u \in Threads |-> Given'[u]]
    BY DEF Given
  <2>2. \A u \in Threads : Given'[u] = Given[u]
    BY <1>1, <1>2
  <2>3. QED
    BY <2>1, <2>2
<1>3. QED
  BY <1>1, <1>2

LEMMA WaitsSeen ==
    ASSUME \A u \in Threads : SameWait(u), SameOrder
    PROVE  UNCHANGED <<Wants, Timed, Ahead>>
<1>1. \A u \in Threads : /\ Waiting(u)' <=> Waiting(u)
                         /\ Waiting(u) => /\ call'[u].events = call[u].events
                                          /\ call'[u].timed = call[u].timed
  BY DEF SameWait
<1>2. Wants' = [u \in Threads |-> IF Waiting(u)' THEN ToSet(call'[u].events) ELSE {}]
  BY DEF Wants, ToSet
<1>3. Wants' = Wants
  BY <1>1, <1>2 DEF Wants
<1>4. Timed' = {u \in Threads : Waiting(u)' /\ call'[u].timed}
  BY DEF Timed
<1>5. Timed' = Timed
  BY <1>1, <1>4 DEF Timed
<1>6. Ahead' = [v \in Threads |-> {u \in Threads : Waiting(v)' /\ Waiting(u)' /\ Before(u, v)'}]
  BY DEF Ahead
<1>7. ASSUME NEW v \in Threads
      PROVE  {u \in Threads : Waiting(v)' /\ Waiting(u)' /\ Before(u, v)'}
             = {u \in Threads : Waiting(v) /\ Waiting(u) /\ Before(u, v)}
  BY <1>1 DEF SameOrder
<1>8. Ahead' = Ahead
  BY <1>6, <1>7 DEF Ahead
<1>9. QED
  BY <1>3, <1>5, <1>8

(* A thread stops waiting, and the others keep their order.                 *)
LEMMA LeavesSeen ==
    ASSUME NEW w \in Threads, Waiting(w), ~ Waiting(w)',
           \A u \in Threads : u # w => SameWait(u),
           \A u, v \in Threads : u # w /\ v # w => (Before(u, v)' <=> Before(u, v))
    PROVE  Signals!Leaves(w)
<1>1. \A u \in Threads : u # w =>
          /\ Waiting(u)' <=> Waiting(u)
          /\ Waiting(u) => /\ call'[u].events = call[u].events
                           /\ call'[u].timed = call[u].timed
  BY DEF SameWait
<1>2. Wants' = [Wants EXCEPT ![w] = {}]
  <2>1. Wants' = [u \in Threads |-> IF Waiting(u)' THEN ToSet(call'[u].events) ELSE {}]
    BY DEF Wants, ToSet
  <2>2. QED
    BY <1>1, <2>1 DEF Wants
<1>3. Timed' = Timed \ {w}
  <2>1. Timed' = {u \in Threads : Waiting(u)' /\ call'[u].timed}
    BY DEF Timed
  <2>2. QED
    BY <1>1, <2>1 DEF Timed
<1>4. Ahead' = [u \in Threads |-> IF u = w THEN {} ELSE Ahead[u] \ {w}]
  <2>1. Ahead' = [v \in Threads |-> {u \in Threads : Waiting(v)' /\ Waiting(u)' /\ Before(u, v)'}]
    BY DEF Ahead
  <2>2. ASSUME NEW v \in Threads
        PROVE  {u \in Threads : Waiting(v)' /\ Waiting(u)' /\ Before(u, v)'}
               = IF v = w THEN {} ELSE Ahead[v] \ {w}
    <3>1. Ahead[v] = {u \in Threads : Waiting(v) /\ Waiting(u) /\ Before(u, v)}
      BY DEF Ahead
    <3>2. CASE v = w
      BY <3>2
    <3>3. CASE v # w
      <4>1. \A u \in Threads : u # w => (Before(u, v)' <=> Before(u, v))
        BY <3>3
      <4>2. QED
        BY <1>1, <3>1, <3>3, <4>1
    <3>4. QED
      BY <3>2, <3>3
  <2>3. QED
    BY <2>1, <2>2
<1>5. QED
  BY <1>2, <1>3, <1>4 DEF Signals!Leaves

(* Of another thread, only Fire changes what is seen.                       *)
LEMMA OtherSame ==
    ASSUME IInv, NEW t \in Threads, Step(t), NEW u \in Threads, u # t,
           fired'[u] = fired[u], by'[u] = by[u]
    PROVE  SameWait(u) /\ SameGot(u)
<1>1. pc'[u] = pc[u] /\ call'[u] = call[u]
  BY Alone
<1>2. QED
  BY <1>1 DEF SameWait, SameGot, Waiting, Delivered

LEMMA OthersSame ==
    ASSUME IInv, NEW t \in Threads, Step(t), ~ Fire(t), NEW u \in Threads, u # t
    PROVE  SameWait(u) /\ SameGot(u)
BY Aside, OtherSame

(* An event has one signal at a time, that of the thread with its lock.     *)
LEMMA SignalingMoves ==
    ASSUME IInv, NEW t \in Threads, Step(t), NEW e \in Events
    PROVE  /\ Firing(t, e) => e \in Signaling
           /\ Firing(t, e)' => e \in Signaling'
           /\ (Firing(t, e)' <=> Firing(t, e)) => (e \in Signaling' <=> e \in Signaling)
           /\ Firing(t, e) /\ ~ Firing(t, e)' => e \notin Signaling'
           /\ e \in Signaling => lock[e] # None /\ ~ signaled[e]
<1>1. HoldsInv /\ LockInv /\ None \notin Threads
  BY ThreadsAssumption DEF IInv
<1>2. ASSUME NEW u \in Threads, Firing(u, e) PROVE lock[e] = u
  BY <1>1, <1>2 DEF HoldsInv, Firing
<1>3. \A u \in Threads : u # t => (Firing(u, e)' <=> Firing(u, e))
  BY Alone DEF Firing
<1>4. /\ e \in Signaling <=> \E u \in Threads : Firing(u, e)
      /\ e \in Signaling' <=> \E u \in Threads : Firing(u, e)'
  BY DEF Signaling
<1>5. QED
  BY <1>1, <1>2, <1>3, <1>4 DEF LockInv

LEMMA SignalingSame ==
    ASSUME IInv, NEW t \in Threads, Step(t), pc[t] # "fire", pc'[t] # "fire"
    PROVE  Signaling' = Signaling
<1>1. \A e \in Events : e \in Signaling' <=> e \in Signaling
  BY SignalingMoves DEF Firing
<1>2. Signaling \subseteq Events /\ Signaling' \subseteq Events
  BY DEF Signaling
<1>3. QED
  BY <1>1, <1>2

LEMMA OrderSeen ==
    ASSUME \/ waiters' = waiters
           \/ \E w \in Threads : OrderKept(w) /\ ~ Waiting(w)'
    PROVE  SameOrder
<1>1. CASE waiters' = waiters
  BY <1>1 DEF SameOrder, Before
<1>2. ASSUME NEW w \in Threads, OrderKept(w), ~ Waiting(w)' PROVE SameOrder
  BY <1>2 DEF SameOrder, OrderKept
<1>3. QED
  BY <1>1, <1>2

(* A thread that neither waits nor leaves a wait.                           *)
Away == {"idle", "fire", "many"}

LEMMA AwaySame ==
    ASSUME NEW t \in Threads, pc[t] \in Away, pc'[t] \in Away
    PROVE  SameWait(t) /\ SameGot(t)
BY DEF Away, SameWait, SameGot, Waiting, Delivered

(* What WaitMultiple looks at stays, or changes for one thread.             *)
SameAsk(t) == /\ pc'[t] = "many" <=> pc[t] = "many"
              /\ pc'[t] = "many" => call'[t].events = call[t].events
Asked(t)   == IF pc[t] = "many" THEN ToSet(call[t].events) ELSE {}

LEMMA AskSeen ==
    ASSUME IInv, NEW t \in Threads, Step(t), NEW S, Asked(t)' = S
    PROVE  Asks' = [Asks EXCEPT ![t] = S]
<1>1. Asks' = [u \in Threads |-> IF pc'[u] = "many" THEN ToSet(call'[u].events) ELSE {}]
  BY DEF Asks, ToSet
<1>2. \A u \in Threads : u # t => pc'[u] = pc[u] /\ call'[u] = call[u]
  BY Alone
<1>3. S = IF pc'[t] = "many" THEN ToSet(call'[t].events) ELSE {}
  BY DEF Asked, ToSet
<1>4. QED
  BY <1>1, <1>2, <1>3 DEF Asks

LEMMA AsksSame ==
    ASSUME IInv, NEW t \in Threads, Step(t), SameAsk(t)
    PROVE  Asks' = Asks
<1>1. Asked(t)' = Asked(t)
  BY DEF Asked, SameAsk, ToSet
<1>2. Asks' = [Asks EXCEPT ![t] = Asks[t]]
  BY <1>1, AskSeen DEF Asks, Asked
<1>3. QED
  BY <1>2 DEF Asks

(* A thread that is not in a wait is out, and asks for what WaitMultiple    *)
(* was given.                                                               *)
LEMMA OutSeen ==
    ASSUME NEW t \in Threads, pc[t] \in {"idle", "many"}
    PROVE  /\ Signals!Out(t)
           /\ Asks[t] = IF pc[t] = "many" THEN ToSet(call[t].events) ELSE {}
<1>1. ~ Waiting(t) /\ \A e \in Events : ~ Delivered(t, e)
  BY DEF Waiting, Delivered
<1>2. Wants[t] = {} /\ Given[t] = None
  BY <1>1, GivenIs DEF Wants
<1>3. QED
  BY <1>2 DEF Signals!Out, Asks

(* WaitMultiple has no timeout.                                             *)
UntimedInv == \A t \in Threads : pc[t] \in {"idle", "many"} => ~ call[t].timed

LEMMA UntimedInductive ==
    ASSUME IInv, UntimedInv, Next
    PROVE  UntimedInv'
<1>1. PICK t \in Threads : Step(t)
  BY Steps
<1>2. TypeOK /\ \A u \in Threads : u # t => pc'[u] = pc[u] /\ call'[u] = call[u]
  BY <1>1, Alone DEF IInv
<1>3. SUFFICES ASSUME pc'[t] \in {"idle", "many"} PROVE ~ call'[t].timed
  BY <1>2 DEF UntimedInv
<1>4. CASE Return(t)
  BY <1>2, <1>4 DEF Return, Go, NoCall, TypeOK
<1>5. CASE ~ Return(t)
  <2> DEFINE Kept == pc[t] \in {"idle", "many"} /\ call'[t].timed = call[t].timed
  <2> SUFFICES Kept
    BY DEF UntimedInv
  <2> USE DEF kernelVars, waiterVars
  <2>1. ASSUME NEW e \in Events, Reset(t, e) \/ IsSignaled(t, e) PROVE Kept
    BY <2>1 DEF Reset, IsSignaled
  <2>2. ASSUME NEW e \in Events, Signal(t, e) PROVE Kept
    BY <1>2, <1>3, <2>2 DEF Signal, Go, TypeOK
  <2>3. ASSUME NEW e \in Events, NEW timed \in BOOLEAN, WaitTimeout(t, e, timed) PROVE Kept
    <3>1. CASE Enqueue(t, {e})
      BY <1>2, <1>3, <3>1 DEF Enqueue, Go, TypeOK
    <3>2. QED
      BY <2>3, <3>1 DEF WaitTimeout
  <2>4. ASSUME NEW a \in Arrays, WaitMultiple(t, a) PROVE Kept
    BY <1>2, <2>4 DEF WaitMultiple, Go, TypeOK
  <2>5. CASE EnqueueMultiple(t)
    <3>1. CASE Enqueue(t, ToSet(call[t].events))
      BY <1>2, <1>3, <3>1 DEF Enqueue, Go, TypeOK
    <3>2. pc[t] = "many"
      BY <2>5 DEF EnqueueMultiple
    <3>3. CASE call' = [call EXCEPT ![t].left = @ \ {NextLock(t)}]
      BY <1>2, <3>2, <3>3 DEF TypeOK
    <3>4. QED
      BY <1>5, <2>5, <3>1, <3>3 DEF EnqueueMultiple
  <2>6. CASE Test(t) \/ Leave(t) \/ Wake(t) \/ Woken(t)
    BY <1>2, <1>3, <2>6 DEF Test, Leave, Wake, Woken, Go, TypeOK
  <2>7. ~ NobodyLeft(t) /\ ~ Dequeue(t)
    BY <1>5 DEF NobodyLeft, Dequeue
  <2>8. ~ Undo(t)
    BY <1>2, <1>3, <1>5 DEF Undo, TypeOK
  <2>9. ~ Fire(t)
    BY <1>2, <1>3, <1>5 DEF Fire, TypeOK
  <2> HIDE DEF Kept
  <2>10. QED
    BY <1>1, <2>1, <2>2, <2>3, <2>4, <2>5, <2>6, <2>7, <2>8, <2>9 DEF Step
<1>6. QED
  BY <1>4, <1>5

LEMMA QuietStep ==
    ASSUME IInv, NEW t \in Threads, Step(t), ~ Fire(t), SameWait(t), SameOrder
    PROVE  /\ UNCHANGED <<Wants, Timed, Ahead>>
           /\ SameGot(t) => Given' = Given
<1>1. \A u \in Threads : SameWait(u) /\ (u # t => SameGot(u))
  BY OthersSame
<1>2. QED
  BY <1>1, WaitsSeen, GotSeen

LEMMA StutterStep ==
    ASSUME IInv, NEW t \in Threads, Step(t), pc[t] # "fire", pc'[t] # "fire",
           SameWait(t), SameGot(t), SameOrder, SameAsk(t), signaled' = signaled
    PROVE  UNCHANGED Signals!vars
<1>1. ~ Fire(t)
  BY DEF Fire
<1>2. QED
  BY <1>1, QuietStep, SignalingSame, AsksSame DEF Signals!vars

LEMMA TakeStep ==
    ASSUME IInv, NEW t \in Threads, Step(t), NEW e \in Events,
           signaled[e], Take(e), waiters' = waiters,
           pc[t] \in {"idle", "many"}, pc'[t] = "idle",
           pc[t] = "many" => /\ e \in ToSet(call[t].events)
                             /\ \A f \in ToSet(call[t].events) : signaled[f] => e <= f
    PROVE  Signals!Take(t, e)
<1>1. ~ Fire(t) /\ SameWait(t) /\ SameGot(t) /\ SameOrder
  BY AwaySame, OrderSeen DEF Fire, Away
<1>2. UNCHANGED <<Signaling, Wants, Timed, Ahead, Given>>
  BY <1>1, QuietStep, SignalingSame
<1>3. Asks' = [Asks EXCEPT ![t] = {}]
  BY AskSeen DEF Asked
<1>4. QED
  BY <1>2, <1>3, OutSeen DEF Signals!Take, Signals!Answered, Take

LEMMA ResetStep ==
    ASSUME IInv, NEW t \in Threads, NEW e \in Events, Reset(t, e)
    PROVE  Signals!Reset(e)
<1>1. Step(t)
  BY DEF Step
<1>2. /\ pc[t] = "idle" /\ pc' = pc /\ waiters' = waiters
      /\ signaled[e] /\ signaled' = [signaled EXCEPT ![e] = FALSE]
  BY DEF Reset
<1>3. ~ Fire(t) /\ SameWait(t) /\ SameGot(t) /\ SameOrder
  BY <1>2, AwaySame, OrderSeen DEF Fire, Away
<1>4. UNCHANGED <<Signaling, Wants, Timed, Ahead, Given>> /\ Asks' = Asks
  BY <1>1, <1>2, <1>3, QuietStep, SignalingSame, AsksSame DEF SameAsk
<1>5. QED
  BY <1>2, <1>4 DEF Signals!Reset

LEMMA SignalStep ==
    ASSUME IInv, NEW t \in Threads, NEW e \in Events, Signal(t, e)
    PROVE  Signals!Signal(e)
<1>1. Step(t) /\ TypeOK
  BY DEF Step, IInv
<1>2. /\ pc[t] = "idle" /\ pc'[t] = "fire" /\ call'[t].events = << e >>
      /\ UNCHANGED <<waiters, signaled>> /\ lock[e] = None /\ ~ signaled[e]
  BY <1>1 DEF Signal, Go, Free, TypeOK
<1>3. ~ Fire(t) /\ SameWait(t) /\ SameGot(t) /\ SameOrder
  BY <1>2, AwaySame, OrderSeen DEF Fire, Away
<1>4. UNCHANGED <<Asks, Wants, Timed, Ahead, Given>>
  BY <1>1, <1>2, <1>3, QuietStep, AsksSame DEF SameAsk
<1>5. \A f \in Events : ~ Firing(t, f) /\ (Firing(t, f)' <=> f = e)
  BY <1>2 DEF Firing
<1>6. e \notin Signaling /\ \A f \in Events : f \in Signaling' <=> f \in Signaling \/ f = e
  BY <1>1, <1>2, <1>5, SignalingMoves
<1>7. Signaling \subseteq Events /\ Signaling' \subseteq Events
  BY DEF Signaling
<1>8. Signaling' = Signaling \cup {e}
  BY <1>6, <1>7
<1>9. QED
  BY <1>2, <1>4, <1>6, <1>8 DEF Signals!Signal

(* A wait joins the lists of its events behind those who wait for one.      *)
LEMMA JoinStep ==
    ASSUME IInv, TypeOK', InLines, NEW t \in Threads, Step(t), pc[t] \in {"idle", "many"},
           NEW es \in SUBSET Events, es # {}, Joins(t, es), signaled' = signaled,
           \A e \in es : ~ signaled[e] /\ e \notin Signaling,
           IF pc[t] = "many" THEN es = ToSet(call[t].events) /\ ~ call'[t].timed
                             ELSE \E e \in es : es = {e}
    PROVE  \E hasTimeout \in BOOLEAN : Signals!Join(t, es, hasTimeout)
<1>1. TypeOK /\ ListInv
  BY DEF IInv
<1>2. /\ ~ Fire(t) /\ Enqueue(t, es) /\ pc[t] \notin Waits
      /\ ToSet(call'[t].events) = es /\ pc'[t] = "test" /\ ~ fired'[t] /\ by'[t] = None
  BY <1>1 DEF Joins, Enqueue, Go, Fire, TypeOK
<1>3. ~ Waiting(t) /\ Waiting(t)'
  BY <1>2 DEF Waiting
<1>4. SameGot(t)
  BY <1>1, <1>2, ThreadsAssumption DEF SameGot, Delivered
<1>5. \A u \in Threads : SameGot(u) /\ (u # t => SameWait(u))
  BY <1>2, <1>4, OthersSame
<1>6. Given' = Given /\ Signaling' = Signaling
  BY <1>2, <1>5, GotSeen, SignalingSame
<1>7. /\ \A u : ~ Before(t, u) /\ ~ Before(u, t) /\ ~ Before(t, u)'
      /\ \A u, v : v # t => (Before(u, v)' <=> Before(u, v))
      /\ \A u : Before(u, t)' <=> \E e \in Events : e \in es /\ u \in ToSet(waiters[e])
  BY <1>2, EnqueueOrder
<1>8. \A u \in Threads : u # t =>
          /\ Waiting(u)' <=> Waiting(u)
          /\ Waiting(u) => /\ call'[u].events = call[u].events
                           /\ call'[u].timed = call[u].timed
  BY <1>5 DEF SameWait
<1>9. Wants' = [Wants EXCEPT ![t] = es]
  <2>1. Wants' = [u \in Threads |-> IF Waiting(u)' THEN ToSet(call'[u].events) ELSE {}]
    BY DEF Wants, ToSet
  <2>2. QED
    BY <1>2, <1>3, <1>8, <2>1 DEF Wants
<1>10. PICK hasTimeout \in BOOLEAN : hasTimeout = call'[t].timed
  BY DEF TypeOK
<1>11. Timed' = IF hasTimeout THEN Timed \cup {t} ELSE Timed
  <2>1. Timed' = {u \in Threads : Waiting(u)' /\ call'[u].timed}
    BY DEF Timed
  <2>2. QED
    BY <1>3, <1>8, <1>10, <2>1 DEF Timed
<1>12. Ahead' = [Ahead EXCEPT ![t] = {u \in Threads : Wants[u] \cap es # {}}]
  <2>1. Ahead' = [v \in Threads |-> {u \in Threads : Waiting(v)' /\ Waiting(u)' /\ Before(u, v)'}]
    BY DEF Ahead
  <2>2. ASSUME NEW u \in Threads
        PROVE  Waiting(t)' /\ Waiting(u)' /\ Before(u, t)' <=> Wants[u] \cap es # {}
    <3>1. CASE u = t
      BY <1>3, <1>7, <3>1 DEF Wants
    <3>2. CASE ~ Waiting(u) /\ u # t
      BY <1>8, <3>2 DEF Wants
    <3>3. CASE Waiting(u) /\ u # t
      <4>1. Waiting(u)' /\ Wants[u] = ToSet(call[u].events)
        BY <1>8, <3>3 DEF Wants
      <4>2. ASSUME NEW e \in Events
            PROVE  u \in ToSet(waiters[e]) <=> e \in ToSet(call[u].events)
        BY <1>1, <3>3 DEF InLines, ListInv
      <4>3. Before(u, t)' <=> \E e \in Events : e \in es /\ e \in ToSet(call[u].events)
        BY <1>7, <4>2
      <4>4. QED
        BY <1>3, <4>1, <4>3
    <3>4. QED
      BY <3>1, <3>2, <3>3
  <2>3. ASSUME NEW v \in Threads, v # t
        PROVE  {u \in Threads : Waiting(v)' /\ Waiting(u)' /\ Before(u, v)'}
               = {u \in Threads : Waiting(v) /\ Waiting(u) /\ Before(u, v)}
    <3>1. ASSUME NEW u \in Threads
          PROVE  Waiting(v)' /\ Waiting(u)' /\ Before(u, v)' <=>
                     Waiting(v) /\ Waiting(u) /\ Before(u, v)
      BY <1>7, <1>8, <2>3
    <3>2. QED
      BY <3>1
  <2>4. {u \in Threads : Waiting(t)' /\ Waiting(u)' /\ Before(u, t)'}
        = {u \in Threads : Wants[u] \cap es # {}}
    BY <2>2
  <2>5. QED
    BY <2>1, <2>3, <2>4 DEF Ahead
<1>13. Asks' = [Asks EXCEPT ![t] = {}]
  BY <1>2, AskSeen DEF Asked
<1>14. Signals!Join(t, es, hasTimeout)
  BY <1>6, <1>9, <1>10, <1>11, <1>12, <1>13, OutSeen DEF Signals!Join, Signals!Answered
<1>15. QED
  BY <1>14

(* Fire gives the event to the first of its list, who waited longest: who   *)
(* waited for it before would be in this list, and before him.              *)
LEMMA FireStep ==
    ASSUME IInv, InLines, OneOrder, NEW t \in Threads, Fire(t)
    PROVE  \/ UNCHANGED Signals!vars
           \/ \E e \in Events, w \in Threads : Signals!Give(e, w)
<1>1. Step(t) /\ TypeOK /\ ListInv /\ HoldsInv
  BY DEF Step, IInv
<1>2. PICK e \in Events, w \in Threads :
          /\ e = Head(call[t].events) /\ w = Head(waiters[e]) /\ w # t /\ OrderKept(w)
          /\ e \in ToSet(call[w].events) /\ (~ fired[w] => pc[w] \in {"test", "sleep"})
          /\ waiters[e] # << >> /\ pc[t] = "fire" /\ call[t].events = << e >>
  BY Popped, FireKeeps
<1>3. /\ signaled' = signaled
      /\ IF fired[w]
         THEN UNCHANGED <<fired, by, lock, pc, call>>
         ELSE /\ fired' = [fired EXCEPT ![w] = TRUE]
              /\ by' = [by EXCEPT ![w] = e]
              /\ IF e \in Manual
                 THEN UNCHANGED <<lock, pc, call>>
                 ELSE lock' = [lock EXCEPT ![e] = None] /\ Return(t)
  BY <1>2 DEF Fire
<1>4. CASE fired[w]
  <2>1. UNCHANGED <<fired, by, pc, call>> /\ ~ Waiting(w)'
    BY <1>3, <1>4 DEF Waiting
  <2>2. \A u \in Threads : SameWait(u) /\ SameGot(u)
    BY <2>1 DEF SameWait, SameGot, Waiting, Delivered
  <2>3. SameOrder
    BY <1>2, <2>1, OrderSeen
  <2>4. Signaling' = Signaling
    BY <2>1 DEF Signaling, Firing
  <2>5. UNCHANGED Signals!vars
    BY <1>1, <1>3, <2>1, <2>2, <2>3, <2>4, WaitsSeen, GotSeen, AsksSame DEF Signals!vars, SameAsk
  <2>6. QED
    BY <2>5
<1>5. CASE ~ fired[w]
  <2>1. pc'[w] = pc[w] /\ pc[w] \in {"test", "sleep"}
    BY <1>1, <1>2, <1>5, Alone
  <2>2. fired'[w] /\ by'[w] = e
    BY <1>1, <1>3, <1>5 DEF TypeOK
  <2>3. Waiting(w) /\ ~ Waiting(w)' /\ Delivered(w, e)'
    BY <1>5, <2>1, <2>2 DEF Waiting, Delivered
  <2>4. pc'[t] \in {"idle", "fire"} /\ (pc'[t] = "fire" <=> e \in Manual)
        /\ (pc'[t] = "fire" => call'[t].events = call[t].events)
    BY <1>1, <1>2, <1>3, <1>5 DEF Return, Go, TypeOK
  <2>5. ASSUME NEW u \in Threads, u # w PROVE SameWait(u) /\ SameGot(u)
    <3>1. fired'[u] = fired[u] /\ by'[u] = by[u]
      BY <1>1, <1>3, <1>5, <2>5 DEF TypeOK
    <3>2. CASE u = t
      BY <1>2, <2>4, <3>2, AwaySame DEF Away
    <3>3. CASE u # t
      BY <1>1, <3>1, <3>3, OtherSame
    <3>4. QED
      BY <3>2, <3>3
  <2>6. \A u, v \in Threads : u # w /\ v # w => (Before(u, v)' <=> Before(u, v))
    BY <1>2 DEF OrderKept
  <2>7. Signals!Leaves(w)
    BY <2>3, <2>5, <2>6, LeavesSeen
  <2>8. Given' = [Given EXCEPT ![w] = e]
    <3>1. Given'[w] = e
      BY <2>3, GivenIsNext
    <3>2. \A u \in Threads : u # w => Given'[u] = Given[u]
      BY <2>5, GotSeen
    <3>3. /\ Given = [u \in Threads |-> Given[u]]
          /\ Given' = [u \in Threads |-> Given'[u]]
      BY DEF Given
    <3>4. QED
      BY <3>1, <3>2, <3>3
  <2>9. /\ \A f \in Events : Firing(t, f) <=> f = e
        /\ \A f \in Events : Firing(t, f)' <=> f = e /\ e \in Manual
    BY <1>2, <2>4 DEF Firing
  <2>10. Signaling' = IF e \in Manual THEN Signaling ELSE Signaling \ {e}
    <3>1. \A f \in Events : f \in Signaling' <=> f \in Signaling /\ (f = e => e \in Manual)
      BY <1>1, <2>9, SignalingMoves
    <3>2. Signaling \subseteq Events /\ Signaling' \subseteq Events
      BY DEF Signaling
    <3>3. QED
      BY <3>1, <3>2
  <2>11. e \in Signaling /\ e \in Wants[w]
    BY <1>1, <1>2, <2>3, <2>9, SignalingMoves DEF Wants
  <2>12. ASSUME NEW u \in Ahead[w] PROVE e \notin Wants[u]
    <3>1. u \in Threads /\ Waiting(u) /\ Before(u, w)
      BY <2>12 DEF Ahead
    <3>2. SUFFICES ASSUME e \in ToSet(call[u].events) PROVE FALSE
      BY <3>1 DEF Wants
    <3>3. u \in ToSet(waiters[e])
      BY <3>1, <3>2 DEF InLines
    <3>4. u # w
      BY <3>1 DEF OneOrder
    <3>5. u \in ToSet(Tail(waiters[e]))
      BY <1>1, <1>2, <3>3, <3>4, TailList DEF TypeOK
    <3>6. Precedes(waiters[e], w, u)
      BY <1>1, <1>2, <3>5, PrecedesTail DEF TypeOK
    <3>7. Before(w, u)
      BY <3>6 DEF Before
    <3>8. QED
      BY <3>1, <3>7 DEF OneOrder
  <2>13. Asks' = Asks
    BY <1>1, <1>2, <2>4, AsksSame DEF SameAsk
  <2>14. Signals!Give(e, w)
    BY <1>3, <2>7, <2>8, <2>10, <2>11, <2>12, <2>13 DEF Signals!Give
  <2>15. QED
    BY <2>14
<1>6. QED
  BY <1>4, <1>5

LEMMA RaiseStep ==
    ASSUME IInv, InLines, NEW t \in Threads, NobodyLeft(t)
    PROVE  \E e \in Events : Signals!Raise(e)
<1>1. Step(t) /\ TypeOK /\ CallInv /\ FiredInv
  BY DEF Step, IInv
<1>2. PICK e \in Events :
          /\ e = Head(call[t].events) /\ pc[t] = "fire" /\ pc'[t] = "idle"
          /\ waiters[e] = << >> /\ waiters' = waiters
          /\ signaled' = [signaled EXCEPT ![e] = TRUE]
  BY <1>1, EventOf DEF NobodyLeft, Return, Go, TypeOK
<1>3. ~ Fire(t) /\ SameWait(t) /\ SameGot(t) /\ SameOrder
  BY <1>2, AwaySame, OrderSeen DEF Fire, Away
<1>4. UNCHANGED <<Asks, Wants, Timed, Ahead, Given>>
  BY <1>1, <1>2, <1>3, QuietStep, AsksSame DEF SameAsk
<1>5. \A f \in Events : (Firing(t, f) <=> f = e) /\ ~ Firing(t, f)'
  BY <1>2 DEF Firing
<1>6. e \in Signaling /\ \A f \in Events : f \in Signaling' <=> f \in Signaling /\ f # e
  BY <1>1, <1>5, SignalingMoves
<1>7. Signaling' = Signaling \ {e}
  <2>1. Signaling \subseteq Events /\ Signaling' \subseteq Events
    BY DEF Signaling
  <2>2. QED
    BY <1>6, <2>1
<1>8. ASSUME NEW u \in Threads PROVE e \notin Wants[u]
  <2>1. ToSet(waiters[e]) = {}
    BY <1>2 DEF ToSet
  <2>2. QED
    BY <2>1 DEF Wants, InLines
<1>9. Signals!Raise(e)
  BY <1>2, <1>4, <1>6, <1>7, <1>8 DEF Signals!Raise
<1>10. QED
  BY <1>9

LEMMA LeaveStep ==
    ASSUME IInv, NEW t \in Threads, Leave(t)
    PROVE  UNCHANGED Signals!vars \/ Signals!GiveUp(t)
<1>1. Step(t) /\ TypeOK /\ CallInv /\ FiredInv
  BY DEF Step, IInv
<1>2. /\ pc[t] = "test" /\ pc'[t] = "dequeue" /\ (fired[t] \/ call[t].timed)
      /\ call'[t].result = fired[t] /\ UNCHANGED <<waiters, by, signaled>> /\ ~ Fire(t)
  BY <1>1 DEF Leave, Go, Fire, TypeOK, kernelVars
<1>3. ~ Waiting(t)' /\ (Waiting(t) <=> ~ fired[t]) /\ SameGot(t)
  BY <1>2 DEF Waiting, SameGot, Delivered
<1>4. Signaling' = Signaling /\ SameAsk(t) /\ Asks' = Asks
  BY <1>1, <1>2, SignalingSame, AsksSame DEF SameAsk
<1>5. CASE fired[t]
  <2>1. SameWait(t) /\ SameOrder
    BY <1>2, <1>3, <1>5, OrderSeen DEF SameWait
  <2>2. QED
    BY <1>1, <1>2, <1>3, <1>4, <2>1, StutterStep
<1>6. CASE ~ fired[t]
  <2>1. \A u \in Threads : SameGot(u) /\ (u # t => SameWait(u))
    BY <1>1, <1>2, <1>3, OthersSame
  <2>2. \A u, v \in Threads : Before(u, v)' <=> Before(u, v)
    BY <1>2 DEF Before
  <2>3. Signals!Leaves(t)
    BY <1>3, <1>6, <2>1, <2>2, LeavesSeen
  <2>4. Given' = Given
    BY <2>1, GotSeen
  <2>5. Head(call[t].events) \in ToSet(call[t].events)
    BY <1>1, <1>2, EventOf
  <2>6. Wants[t] # {} /\ t \in Timed
    BY <1>2, <1>3, <1>6, <2>5 DEF Wants, Timed
  <2>7. QED
    BY <1>2, <1>4, <2>3, <2>4, <2>6 DEF Signals!GiveUp
<1>7. QED
  BY <1>5, <1>6

(* A fired waiter is in no list that matters, and its wait returns the      *)
(* event.                                                                   *)
LEMMA ReturnStep ==
    ASSUME IInv, NEW t \in Threads, Step(t), pc[t] \in {"dequeue", "undo"},
           pc'[t] = "idle", OrderKept(t) \/ waiters' = waiters, signaled' = signaled
    PROVE  UNCHANGED Signals!vars \/ Signals!Return(t)
<1>1. ~ Fire(t) /\ ~ Waiting(t) /\ ~ Waiting(t)' /\ SameWait(t)
      /\ \A e \in Events : ~ Delivered(t, e)'
  BY DEF Fire, Waiting, SameWait, Delivered
<1>2. SameOrder
  BY <1>1, OrderSeen
<1>3. UNCHANGED <<Signaling, Asks, Wants, Timed, Ahead>> /\ SameAsk(t)
  BY <1>1, <1>2, QuietStep, SignalingSame, AsksSame DEF SameAsk
<1>4. CASE \E e \in Events : Delivered(t, e)
  <2>1. Given[t] # None /\ Given'[t] = None
    BY <1>1, <1>4, GivenIs, GivenIsNext, ThreadsAssumption
  <2>2. \A u \in Threads : u # t => Given'[u] = Given[u]
    BY <1>1, OthersSame, GotSeen
  <2>3. /\ Given = [u \in Threads |-> Given[u]]
        /\ Given' = [u \in Threads |-> Given'[u]]
    BY DEF Given
  <2>4. Given' = [Given EXCEPT ![t] = None]
    BY <2>1, <2>2, <2>3
  <2>5. QED
    BY <1>3, <2>1, <2>4 DEF Signals!Return
<1>5. CASE ~ \E e \in Events : Delivered(t, e)
  <2>1. SameGot(t)
    BY <1>1, <1>5 DEF SameGot
  <2>2. QED
    BY <1>1, <1>2, <1>3, <2>1, StutterStep
<1>6. QED
  BY <1>4, <1>5

LEMMA WaitStep ==
    ASSUME IInv, TypeOK', InLines, NEW t \in Threads, NEW e \in Events,
           NEW timed \in BOOLEAN, WaitTimeout(t, e, timed)
    PROVE  Signals!Next
<1>1. Step(t) /\ TypeOK
  BY DEF Step, IInv
<1>2. pc[t] = "idle" /\ lock[e] = None
  BY DEF WaitTimeout, Free
<1>3. CASE signaled[e] /\ Take(e) /\ UNCHANGED <<waiters, waiterVars, pc, call>>
  <2>1. Signals!Take(t, e)
    BY <1>1, <1>2, <1>3, TakeStep
  <2>2. QED
    BY <2>1 DEF Signals!Next
<1>4. CASE /\ ~ signaled[e] /\ Enqueue(t, {e}) /\ UNCHANGED <<signaled, owed>>
           /\ call' = [call EXCEPT ![t].events = <<e>>, ![t].timed = timed]
  <2>1. call'[t].events = << e >> /\ pc[t] \notin Waits
    BY <1>1, <1>2, <1>4 DEF TypeOK, Waits
  <2>2. Joins(t, {e})
    <3>1. ToSet(<< e >>) = {e}
      BY DEF ToSet
    <3>2. QED
      BY <1>4, <2>1, <3>1 DEF Joins
  <2>3. e \notin Signaling
    BY <1>1, <1>2, SignalingMoves
  <2>4. {e} \in SUBSET Events /\ {e} # {}
    OBVIOUS
  <2>5. \E hasTimeout \in BOOLEAN : Signals!Join(t, {e}, hasTimeout)
    BY <1>1, <1>2, <1>4, <2>2, <2>3, <2>4, JoinStep
  <2>6. QED
    BY <2>4, <2>5 DEF Signals!Next
<1>5. QED
  BY <1>3, <1>4 DEF WaitTimeout

(* The locks EnqueueMultiple has are those of the events of lower address,  *)
(* none of them signaled.                                                   *)
LEMMA EnqueueStep ==
    ASSUME IInv, TypeOK', InLines, UntimedInv, NEW t \in Threads, EnqueueMultiple(t)
    PROVE  Signals!Next \/ UNCHANGED Signals!vars
<1>1. Step(t) /\ TypeOK /\ LockInv /\ t # None
  BY ThreadsAssumption DEF Step, IInv
<1>2. /\ pc[t] = "many" /\ call[t].left \subseteq ToSet(call[t].events) /\ call[t].left # {}
      /\ \A f \in ToSet(call[t].events) : f \in call[t].left \/ lock[f] = t
      /\ ToSet(call[t].events) \subseteq Events
  BY <1>1, Members DEF IInv, HoldsInv, EnqueueMultiple, TypeOK
<1>3. PICK e \in Events : /\ e = NextLock(t) /\ e \in call[t].left
                          /\ \A f \in call[t].left : e <= f
  BY <1>1, <1>2, NextLockIsLeft
<1>4. PICK S \in SUBSET Events : S = ToSet(call[t].events)
  BY <1>2
<1>5. \A f \in S : f \notin call[t].left => lock[f] = t /\ ~ signaled[f]
  BY <1>1, <1>2, <1>4 DEF LockInv
<1>6. lock[e] = None
  BY <1>3 DEF EnqueueMultiple, Free
<1>7. CASE signaled[e] /\ Take(e) /\ Return(t) /\ UNCHANGED <<waiters, waiterVars>>
  <2>1. pc'[t] = "idle" /\ e \in S
    BY <1>1, <1>2, <1>3, <1>4, <1>7 DEF Return, Go, TypeOK
  <2>2. \A f \in S : signaled[f] => e <= f
    BY <1>3, <1>5
  <2>3. Signals!Take(t, e)
    BY <1>1, <1>2, <1>4, <1>7, <2>1, <2>2, TakeStep
  <2>4. QED
    BY <2>3 DEF Signals!Next
<1>8. CASE /\ UNCHANGED <<signaled, waiters, pc>>
           /\ call' = [call EXCEPT ![t].left = @ \ {e}]
  <2>1. SameWait(t) /\ SameGot(t) /\ SameOrder /\ SameAsk(t)
    BY <1>1, <1>2, <1>8, AwaySame, OrderSeen DEF Away, SameAsk, TypeOK
  <2>2. QED
    BY <1>1, <1>2, <1>8, <2>1, StutterStep
<1>9. CASE /\ ~ signaled[e] /\ call[t].left = {e}
           /\ Enqueue(t, ToSet(call[t].events))
           /\ call' = [call EXCEPT ![t].left = {}]
           /\ UNCHANGED <<signaled, owed>>
  <2>1. /\ call'[t].events = call[t].events /\ call'[t].timed = call[t].timed
        /\ pc[t] \notin Waits /\ ~ call[t].timed
    BY <1>1, <1>2, <1>9 DEF TypeOK, Waits, UntimedInv
  <2>2. Joins(t, S)
    BY <1>4, <1>9, <2>1 DEF Joins
  <2>3. S # {}
    BY <1>2, <1>4
  <2>4. ASSUME NEW f \in S PROVE ~ signaled[f] /\ f \notin Signaling
    <3>1. ~ signaled[f] /\ lock[f] \in {t, None}
      BY <1>5, <1>6, <1>9
    <3>2. \A u \in Threads : Firing(u, f) => lock[f] = u /\ u # t
      BY <1>2 DEF Firing, IInv, HoldsInv
    <3>3. QED
      BY <3>1, <3>2, ThreadsAssumption DEF Signaling
  <2>5. \E hasTimeout \in BOOLEAN : Signals!Join(t, S, hasTimeout)
    BY <1>1, <1>2, <1>4, <1>9, <2>1, <2>2, <2>3, <2>4, JoinStep
  <2>6. QED
    BY <2>5 DEF Signals!Next
<1>10. QED
  BY <1>3, <1>7, <1>8, <1>9 DEF EnqueueMultiple

(* Every step is a step of EventSignals, or cannot be seen.                 *)
LEMMA StepSeen ==
    ASSUME IInv, TypeOK', InLines, OneOrder, UntimedInv, Next
    PROVE  Signals!Next \/ UNCHANGED Signals!vars
<1>1. PICK t \in Threads : Step(t)
  BY Steps
<1>2. TypeOK /\ CallInv /\ FiredInv
  BY DEF IInv
<1> USE DEF kernelVars, waiterVars
<1>3. ASSUME NEW e \in Events, Reset(t, e) PROVE Signals!Next
  BY <1>3, ResetStep DEF Signals!Next
<1>4. ASSUME NEW e \in Events, IsSignaled(t, e) PROVE Signals!Next
  <2>1. pc[t] = "idle" /\ pc' = pc /\ waiters' = waiters /\ signaled[e] /\ Take(e)
    BY <1>4 DEF IsSignaled
  <2>2. Signals!Take(t, e)
    BY <1>1, <2>1, TakeStep
  <2>3. QED
    BY <2>2 DEF Signals!Next
<1>5. ASSUME NEW e \in Events, Signal(t, e) PROVE Signals!Next
  BY <1>5, SignalStep DEF Signals!Next
<1>6. ASSUME NEW e \in Events, NEW timed \in BOOLEAN, WaitTimeout(t, e, timed)
      PROVE  Signals!Next
  BY <1>6, WaitStep
<1>7. ASSUME NEW a \in Arrays, WaitMultiple(t, a) PROVE Signals!Next
  <2>1. /\ pc[t] = "idle" /\ pc'[t] = "many" /\ UNCHANGED <<waiters, signaled>>
        /\ call'[t].events = a /\ a \in Seq(Events) /\ a # << >>
    BY <1>2, <1>7, ArraysAssumption DEF WaitMultiple, Go, TypeOK
  <2>2. ~ Fire(t) /\ SameWait(t) /\ SameGot(t) /\ SameOrder
    BY <2>1, AwaySame, OrderSeen DEF Away, Fire
  <2>3. UNCHANGED <<Signaling, Wants, Timed, Ahead, Given>>
    BY <1>1, <2>1, <2>2, QuietStep, SignalingSame
  <2>4. ToSet(a) \in SUBSET Events /\ ToSet(a) # {}
    BY <2>1, Members, TailList
  <2>5. Asked(t)' = ToSet(a)
    BY <2>1 DEF Asked, ToSet
  <2>6. Asks' = [Asks EXCEPT ![t] = ToSet(a)]
    BY <1>1, <2>5, AskSeen
  <2>7. Signals!Ask(t, ToSet(a))
    BY <2>1, <2>3, <2>4, <2>6, OutSeen DEF Signals!Ask
  <2>8. QED
    BY <2>4, <2>7 DEF Signals!Next
<1>8. CASE Fire(t)
  BY <1>8, FireStep DEF Signals!Next
<1>9. CASE NobodyLeft(t)
  BY <1>9, RaiseStep DEF Signals!Next
(* The loop of a wait cannot be seen.                                       *)
<1>10. CASE Test(t) \/ Wake(t)
  <2>1. /\ pc[t] \in {"test", "sleep"} /\ pc'[t] \in {"test", "sleep"}
        /\ UNCHANGED <<waiters, signaled, fired, by, call>>
    BY <1>2, <1>10 DEF Test, Wake, Go, TypeOK
  <2>2. SameWait(t) /\ SameGot(t) /\ SameOrder
    BY <2>1, OrderSeen DEF SameWait, SameGot, Waiting, Delivered
  <2>3. SameAsk(t)
    BY <2>1 DEF SameAsk
  <2>4. QED
    BY <1>1, <2>1, <2>2, <2>3, StutterStep
<1>11. CASE Leave(t)
  BY <1>11, LeaveStep DEF Signals!Next
<1>12. CASE Dequeue(t)
  <2>1. pc[t] = "dequeue" /\ pc'[t] = "idle" /\ signaled' = signaled
    BY <1>2, <1>12 DEF Dequeue, Return, Go, TypeOK
  <2>2. OrderKept(t)
    BY <1>2, <1>12, EventOf, WithoutKeeps DEF Dequeue
  <2>3. QED
    BY <1>1, <2>1, <2>2, ReturnStep DEF Signals!Next
<1>13. CASE EnqueueMultiple(t)
  BY <1>13, EnqueueStep
<1>14. CASE Woken(t)
  <2>1. /\ pc[t] = "test" /\ pc'[t] = "undo" /\ fired[t]
        /\ UNCHANGED <<waiters, signaled, fired, by, call>>
    BY <1>2, <1>14 DEF Woken, Go, TypeOK
  <2>2. SameWait(t) /\ SameGot(t) /\ SameOrder
    BY <2>1, OrderSeen DEF SameWait, SameGot, Waiting, Delivered
  <2>3. SameAsk(t)
    BY <2>1 DEF SameAsk
  <2>4. QED
    BY <1>1, <2>1, <2>2, <2>3, StutterStep
<1>15. CASE Undo(t)
  <2>1. pc[t] = "undo" /\ UNCHANGED <<signaled, fired, by>>
    BY <1>15 DEF Undo
  <2>2. OrderKept(t) \/ waiters' = waiters
    <3>1. Head(call[t].events) \in Events
      BY <1>2, <2>1, EventOf
    <3>2. \/ waiters' = waiters
          \/ waiters' = [waiters EXCEPT ![Head(call[t].events)] = Without(@, t)]
      BY <1>15 DEF Undo
    <3>3. QED
      BY <3>1, <3>2, WithoutKeeps
  <2>3. CASE UNCHANGED pc
    <3>1. SameWait(t) /\ SameGot(t) /\ ~ Waiting(t)'
      BY <2>1, <2>3 DEF SameWait, SameGot, Waiting, Delivered
    <3>2. SameOrder /\ SameAsk(t)
      BY <2>1, <2>2, <2>3, <3>1, OrderSeen DEF SameAsk
    <3>3. QED
      BY <1>1, <2>1, <2>3, <3>1, <3>2, StutterStep
  <2>4. CASE Return(t)
    <3>1. pc'[t] = "idle"
      BY <1>2, <2>4 DEF Return, Go, TypeOK
    <3>2. QED
      BY <1>1, <2>1, <2>2, <3>1, ReturnStep DEF Signals!Next
  <2>5. QED
    BY <1>15, <2>3, <2>4 DEF Undo
<1>16. QED
  BY <1>1, <1>3, <1>4, <1>5, <1>6, <1>7, <1>8, <1>9, <1>10, <1>11, <1>12, <1>13, <1>14, <1>15
     DEF Step

LEMMA InitSeen == ASSUME Init PROVE InLines /\ OneOrder /\ UntimedInv /\ Signals!Init
<1>1. /\ signaled \in [Events -> BOOLEAN]
      /\ \A t \in Threads : pc[t] = "idle" /\ ~ call[t].timed
      /\ \A e \in Events : waiters[e] = << >>
  BY DEF Init, NoCall
<1>2. \A t \in Threads : ~ Waiting(t) /\ \A e : ~ Delivered(t, e) /\ ~ Firing(t, e)
  BY <1>1 DEF Waiting, Delivered, Firing
<1>3. \A u, t : ~ Before(u, t)
  <2>1. \A u, t : ~ Precedes(<< >>, u, t)
    BY DEF Precedes
  <2>2. QED
    BY <1>1, <2>1 DEF Before
<1>4. /\ Signaling = {} /\ Timed = {}
      /\ Wants = [t \in Threads |-> {}] /\ Ahead = [t \in Threads |-> {}]
      /\ Given = [t \in Threads |-> None] /\ Asks = [t \in Threads |-> {}]
  BY <1>1, <1>2 DEF Signaling, Timed, Wants, Ahead, Given, Asks
<1>5. QED
  BY <1>1, <1>2, <1>3, <1>4 DEF InLines, OneOrder, UntimedInv, Signals!Init

LEMMA Lines == Spec => [](InLines /\ OneOrder /\ UntimedInv)
<1>1. Init => InLines /\ OneOrder /\ UntimedInv
  BY InitSeen
<1>2. IInv /\ InLines /\ OneOrder /\ UntimedInv /\ [Next]_vars
        => (InLines /\ OneOrder /\ UntimedInv)'
  <2>1. SUFFICES ASSUME IInv, InLines, OneOrder, UntimedInv, [Next]_vars
                 PROVE  (InLines /\ OneOrder /\ UntimedInv)'
    OBVIOUS
  <2>2. CASE Next
    BY <2>1, <2>2, TypeInductive, LinesInductive, UntimedInductive
  <2>3. CASE UNCHANGED vars
    BY <2>1, <2>3 DEF vars, kernelVars, waiterVars, InLines, OneOrder, UntimedInv, Waiting, Before,
       Precedes
  <2>4. QED
    BY <2>1, <2>2, <2>3
<1>3. QED
  BY <1>1, <1>2, Invariant, PTL DEF Spec

(* The events implement EventSignals: each wait joins all its lines at      *)
(* once, in front of nobody; each signal goes to the thread that waited     *)
(* longest for the event, once, and to nobody else if it is auto-reset; and *)
(* no other step of the locks, lists and arrays can be seen.                *)
THEOREM ImplementsEventSignalsCorrect == Spec => ImplementsEventSignals
<1>1. Init => Signals!Init
  BY InitSeen
<1>2. IInv /\ InLines /\ OneOrder /\ UntimedInv /\ [Next]_vars
        => [Signals!Next]_(Signals!vars)
  <2>1. SUFFICES ASSUME IInv, InLines, OneOrder, UntimedInv, [Next]_vars
                 PROVE  Signals!Next \/ UNCHANGED Signals!vars
    OBVIOUS
  <2>2. CASE Next
    BY <2>1, <2>2, TypeInductive, StepSeen
  <2>3. CASE UNCHANGED vars
    BY <2>3 DEF vars, kernelVars, waiterVars, Signals!vars, Signaling, Asks, Wants, Timed, Ahead,
         Given, Waiting, Before, Precedes, Firing, Delivered, ToSet
  <2>4. QED
    BY <2>1, <2>2, <2>3
<1>3. QED
  BY <1>1, <1>2, Invariant, Lines, PTL DEF Spec, ImplementsEventSignals, Signals!Spec
=============================================================================
