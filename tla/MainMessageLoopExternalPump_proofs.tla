----------------- MODULE MainMessageLoopExternalPump_proofs -----------------
(***************************************************************************)
(* The pump of CEF's slices, for any delays, any number of requests and    *)
(* any depth of the queue: it never stalls, keeps what it was asked for    *)
(* and does not call CEF within CEF.  The inductive invariant is the       *)
(* conjunction of the properties themselves with SliceInv, the shape of    *)
(* the stack of slices.                                                    *)
(***************************************************************************)
EXTENDS MainMessageLoopExternalPump, SequenceTheorems, TLAPS

LEMMA DelaysFacts ==
  /\ kMaxTimerDelay \in Nat \ {0}
  /\ kTimerDelayPlaceholder \in Nat /\ kTimerDelayPlaceholder > kMaxTimerDelay
  /\ Delays \subseteq Nat \ {kTimerDelayPlaceholder}
  /\ WM_QUIT \notin Nat
  /\ Rounds \in Nat
BY DelaysAssumption

LEMMA HoldsAppend ==
  ASSUME NEW S, NEW q \in Seq(S), NEW x \in S, NEW m
  PROVE  /\ Append(q, x) \in Seq(S)
         /\ Holds(Append(q, x), m) <=> Holds(q, m) \/ x = m
<1>1. /\ Append(q, x) \in Seq(S)
      /\ Len(Append(q, x)) = Len(q) + 1
      /\ Append(q, x)[Len(q) + 1] = x
      /\ \A i \in 1 .. Len(q) : Append(q, x)[i] = q[i]
      /\ Len(q) \in Nat
  OBVIOUS
<1>2. 1 .. Len(q) + 1 = 1 .. Len(q) \cup {Len(q) + 1}
  BY <1>1
<1> QED
  BY <1>1, <1>2 DEF Holds

LEMMA HoldsTail ==
  ASSUME NEW S, NEW q \in Seq(S), q # <<>>, NEW m
  PROVE  /\ Tail(q) \in Seq(S)
         /\ Head(q) \in S
         /\ Holds(q, m) <=> Head(q) = m \/ Holds(Tail(q), m)
<1>1. /\ Tail(q) \in Seq(S) /\ Head(q) \in S
      /\ Head(q) = q[1]
      /\ Len(q) \in Nat /\ Len(q) >= 1
      /\ Len(Tail(q)) = Len(q) - 1
      /\ \A i \in 1 .. Len(q) - 1 : Tail(q)[i] = q[i + 1]
  OBVIOUS
<1>2. ASSUME Holds(q, m) PROVE Head(q) = m \/ Holds(Tail(q), m)
  <2>1. PICK i \in 1 .. Len(q) : q[i] = m
    BY <1>2 DEF Holds
  <2>2. CASE i = 1
    BY <1>1, <2>1, <2>2
  <2>3. CASE i # 1
    <3>1. i - 1 \in 1 .. Len(q) - 1 /\ (i - 1) + 1 = i
      BY <1>1, <2>1, <2>3
    <3>2. Tail(q)[i - 1] = m
      BY <1>1, <2>1, <3>1
    <3> QED
      BY <1>1, <3>1, <3>2 DEF Holds
  <2> QED
    BY <2>2, <2>3
<1>3. ASSUME Head(q) = m \/ Holds(Tail(q), m) PROVE Holds(q, m)
  <2>1. CASE Head(q) = m
    BY <1>1, <2>1 DEF Holds
  <2>2. CASE Holds(Tail(q), m)
    <3>1. PICK i \in 1 .. Len(q) - 1 : Tail(q)[i] = m
      BY <1>1, <2>2 DEF Holds
    <3>2. i + 1 \in 1 .. Len(q) /\ q[i + 1] = m
      BY <1>1, <3>1
    <3> QED
      BY <3>2 DEF Holds
  <2> QED
    BY <1>3, <2>1, <2>2
<1> QED
  BY <1>1, <1>2, <1>3

----------------------------------------------------------------------------
(* The slices that may be under way: one of DoWork, on its own or, at the   *)
(* end of Run, within a round.                                             *)
Stacks == {<<>>, <<"work">>, <<"round">>, <<"round", "work">>}

Top == slices[Len(slices)]

SliceInv ==
  /\ slices \in Stacks
  /\ is_active_ <=> slices # <<>> /\ Top = "work"
  /\ phase = "run" => slices \in {<<>>, <<"work">>}

(* The delay CEF asked for last is, of those in the queue, the last.        *)
InOrder(q, l) ==
  \A i \in 1 .. Len(q) :
    q[i] \in Delays \ {0, l} => \E j \in i + 1 .. Len(q) : q[j] = l

OrderInv == later > 0 => InOrder(queue, later)

IInv ==
  /\ TypeOK
  /\ OrderInv
  /\ SliceInv
  /\ NeverStalls
  /\ UrgentKept
  /\ DelayKept

LEMMA Pushes ==
  /\ \A s \in {"work", "round"} : Append(<<>>, s) = <<s>>
  /\ Append(<<"round">>, "work") = <<"round", "work">>
  /\ Len(<<>>) = 0
  /\ \A s \in {"work", "round"} : Len(<<s>>) = 1 /\ <<s>>[1] = s /\ <<s>> # <<>>
  /\ Len(<<"round", "work">>) = 2 /\ <<"round", "work">>[2] = "work"
  /\ <<"round", "work">>[1] = "round"
  /\ <<"round", "work">> # <<>> /\ <<"work">> # <<"round">>
  /\ <<"round", "work">> # <<"work">> /\ <<"round", "work">> # <<"round">>
  /\ \A s \in {"work", "round"} : SubSeq(<<s>>, 1, 1 - 1) = <<>>
  /\ SubSeq(<<"round", "work">>, 1, 2 - 1) = <<"round">>
  /\ Stacks \subseteq Seq({"work", "round"})
<1>1. \A s \in {"work", "round"} : Append(<<>>, s) = <<s>>
  OBVIOUS
<1>2. Append(<<"round">>, "work") = <<"round", "work">>
  <2>1. /\ Append(<<"round">>, "work") \in Seq({"work", "round"})
        /\ <<"round", "work">> \in Seq({"work", "round"})
        /\ Len(Append(<<"round">>, "work")) = 2 /\ Len(<<"round", "work">>) = 2
    OBVIOUS
  <2>2. \A i \in 1 .. 2 : Append(<<"round">>, "work")[i] = <<"round", "work">>[i]
    OBVIOUS
  <2> QED
    BY <2>1, <2>2, SeqEqual
<1>3. Len(<<>>) = 0 /\ \A s \in {"work", "round"} : Len(<<s>>) = 1 /\ <<s>>[1] = s /\ <<s>> # <<>>
  OBVIOUS
<1>4. /\ Len(<<"round", "work">>) = 2 /\ <<"round", "work">>[2] = "work"
      /\ <<"round", "work">>[1] = "round"
  OBVIOUS
<1>5. /\ <<"round", "work">> # <<>> /\ <<"work">> # <<"round">>
      /\ <<"round", "work">> # <<"work">> /\ <<"round", "work">> # <<"round">>
  OBVIOUS
<1>6. \A s \in {"work", "round"} : SubSeq(<<s>>, 1, 1 - 1) = <<>>
  OBVIOUS
<1>7. SubSeq(<<"round", "work">>, 1, 2 - 1) = <<"round">>
  <2>1. /\ SubSeq(<<"round", "work">>, 1, 1) \in Seq({"work", "round"})
        /\ <<"round">> \in Seq({"work", "round"})
        /\ Len(SubSeq(<<"round", "work">>, 1, 1)) = 1 /\ Len(<<"round">>) = 1
    OBVIOUS
  <2>2. \A i \in 1 .. 1 : SubSeq(<<"round", "work">>, 1, 1)[i] = <<"round">>[i]
    OBVIOUS
  <2>3. SubSeq(<<"round", "work">>, 1, 1) = <<"round">>
    BY <2>1, <2>2, SeqEqual
  <2> QED
    BY <2>3
<1>8. Stacks \subseteq Seq({"work", "round"})
  BY DEF Stacks
<1> QED
  BY <1>1, <1>2, <1>3, <1>4, <1>5, <1>6, <1>7, <1>8

LEMMA TailAt ==
  ASSUME NEW S, NEW q \in Seq(S), q # <<>>, NEW j \in 2 .. Len(q)
  PROVE  j - 1 \in 1 .. Len(Tail(q)) /\ Tail(q)[j - 1] = q[j]
OBVIOUS

LEMMA OrderTail ==
  ASSUME NEW S, NEW q \in Seq(S), q # <<>>, NEW l, InOrder(q, l)
  PROVE  InOrder(Tail(q), l)
<1>1. /\ Len(q) \in Nat /\ Len(Tail(q)) = Len(q) - 1
      /\ \A i \in 1 .. Len(q) - 1 : Tail(q)[i] = q[i + 1]
  OBVIOUS
<1> SUFFICES ASSUME NEW i \in 1 .. Len(q) - 1, q[i + 1] \in Delays \ {0, l}
             PROVE  \E j \in i + 1 .. Len(q) - 1 : Tail(q)[j] = l
  BY <1>1 DEF InOrder
<1>2. i + 1 \in 1 .. Len(q)
  BY <1>1
<1>3. PICK j \in (i + 1) + 1 .. Len(q) : q[j] = l
  BY <1>2 DEF InOrder
<1>4. j - 1 \in i + 1 .. Len(q) - 1 /\ j - 1 \in 1 .. Len(q) - 1 /\ (j - 1) + 1 = j
  BY <1>1, <1>3
<1> QED
  BY <1>1, <1>3, <1>4

(* A message that is no delay keeps the order, and the newest delay is last. *)
LEMMA OrderAppend ==
  ASSUME NEW S, NEW q \in Seq(S), NEW x \in S, NEW l,
         x = l \/ (x \notin Delays \ {0} /\ InOrder(q, l))
  PROVE  InOrder(Append(q, x), l)
<1>1. /\ Len(q) \in Nat /\ Len(Append(q, x)) = Len(q) + 1
      /\ Append(q, x)[Len(q) + 1] = x
      /\ \A i \in 1 .. Len(q) : Append(q, x)[i] = q[i]
  OBVIOUS
<1> SUFFICES ASSUME NEW i \in 1 .. Len(q) + 1, Append(q, x)[i] \in Delays \ {0, l}
             PROVE  \E j \in i + 1 .. Len(q) + 1 : Append(q, x)[j] = l
  BY <1>1 DEF InOrder
<1>2. i \in 1 .. Len(q)
  BY <1>1
<1>3. CASE x = l
  BY <1>1, <1>2, <1>3
<1>4. CASE InOrder(q, l)
  <2>1. PICK j \in i + 1 .. Len(q) : q[j] = l
    BY <1>1, <1>2, <1>4 DEF InOrder
  <2>2. j \in 1 .. Len(q) /\ j \in i + 1 .. Len(q) + 1
    BY <1>1, <1>2, <2>1
  <2> QED
    BY <1>1, <2>1, <2>2
<1> QED
  BY <1>3, <1>4

----------------------------------------------------------------------------
LEMMA InitIInv == Init => IInv
<1> SUFFICES ASSUME Init PROVE IInv
  OBVIOUS
<1>1. queue \in Seq(Messages) /\ slices \in Seq({"work", "round"}) /\ Len(queue) = 0
  BY EmptySeq DEF Init
<1>2. TypeOK
  <2>1. timer_pending_ \in 0 .. kMaxTimerDelay /\ rounds \in 0 .. Rounds
    BY DelaysFacts DEF Init
  <2> QED
    BY <1>1, <2>1 DEF Init, TypeOK
<1> QED
  BY <1>1, <1>2, Pushes DEF Init, IInv, OrderInv, SliceInv, Stacks, NeverStalls, UrgentKept, DelayKept

(* DoWork begins a slice, which is then under way, or notes that it could   *)
(* not: q is the queue less, at most, a message 0.                         *)
LEMMA DoWorkStep ==
  ASSUME IInv, NEW q \in Seq(Messages), DoWork(q), Dispatching,
         later > 0 => InOrder(q, later),
         expired' \in BOOLEAN, UNCHANGED <<phase, rounds, begun>>
  PROVE  IInv'
<1> USE DelaysFacts
<1>1. /\ 0 \in Messages /\ kTimerDelayPlaceholder \in Messages
      /\ timer_pending_' = 0
  BY DEF Messages, DoWork
<1>2. CASE Reenter(q)
  <2>1. /\ is_active_ /\ is_active_' /\ reentrancy_detected_'
        /\ queue' \in Seq(Messages)
        /\ UNCHANGED <<slices, urgent, later>>
    BY <1>1, <1>2, HoldsAppend DEF Reenter, IInv, TypeOK
  <2>2. TypeOK'
    BY <1>1, <2>1 DEF IInv, TypeOK
  <2>3. SliceInv'
    BY <2>1 DEF IInv, SliceInv, Top
  <2>4. OrderInv'
    BY <1>1, <1>2, <2>1, OrderAppend DEF OrderInv, Reenter
  <2> QED
    BY <2>1, <2>2, <2>3, <2>4 DEF IInv, NeverStalls, UrgentKept, DelayKept, Armed
<1>3. CASE Perform(q)
  <2>1. /\ ~ is_active_ /\ is_active_' = TRUE /\ reentrancy_detected_' = FALSE
        /\ queue' \in Seq(Messages)
        /\ slices' = Append(slices, "work")
        /\ urgent' = FALSE /\ later' = 0
    BY <1>3 DEF Perform, BeginSlice, IInv, TypeOK
  <2>2. slices \in {<<>>, <<"round">>} /\ (phase = "run" => slices = <<>>)
    BY <2>1, Pushes DEF IInv, SliceInv, Stacks, Top
  <2>3. slices' \in {<<"work">>, <<"round", "work">>} /\ (phase = "run" => slices' = <<"work">>)
    BY <2>1, <2>2, Pushes
  <2>4. TypeOK'
    <3>1. slices' \in Seq({"work", "round"})
      BY <2>3, Pushes DEF Stacks
    <3>2. timer_pending_' \in 0 .. kMaxTimerDelay /\ rounds' \in 0 .. Rounds
      BY <1>1 DEF IInv, TypeOK
    <3>3. phase' \in {"run", "drain", "done"} /\ begun' \in BOOLEAN
      BY DEF IInv, TypeOK
    <3> QED
      BY <2>1, <3>1, <3>2, <3>3 DEF TypeOK
  <2>5. SliceInv'
    BY <2>1, <2>3, Pushes DEF SliceInv, Stacks, Top
  <2> QED
    BY <2>1, <2>4, <2>5 DEF IInv, OrderInv, NeverStalls, UrgentKept, DelayKept, Armed
<1> QED
  BY <1>2, <1>3 DEF DoWork

LEMMA RequestStep ==
  ASSUME IInv, NEW d \in Delays, OnScheduleMessagePumpWork(d)
  PROVE  IInv'
<1> USE DelaysFacts
<1>1. d \in Messages \ {WM_QUIT} /\ d \in Nat
  BY DEF Messages
<1>2. /\ queue' \in Seq(Messages)
      /\ \A m : Posted(m)' <=> Posted(m) \/ d = m
  BY <1>1, HoldsAppend DEF OnScheduleMessagePumpWork, IInv, TypeOK, Posted
<1>3. TypeOK'
  BY <1>1, <1>2 DEF OnScheduleMessagePumpWork, IInv, TypeOK
<1>4. SliceInv'
  BY DEF OnScheduleMessagePumpWork, IInv, SliceInv, Top
<1>5. NeverStalls'
  BY <1>1, <1>2 DEF NeverStalls, Armed, Messages
<1>6. UrgentKept'
  BY <1>2 DEF OnScheduleMessagePumpWork, IInv, UrgentKept
<1>7. DelayKept'
  BY <1>2 DEF OnScheduleMessagePumpWork, IInv, DelayKept
<1>8. OrderInv'
  BY <1>1, OrderAppend DEF OnScheduleMessagePumpWork, IInv, TypeOK, OrderInv
<1> QED
  BY <1>3, <1>4, <1>5, <1>6, <1>7, <1>8 DEF IInv

LEMMA QuitStep == ASSUME IInv, Quit PROVE IInv'
<1>1. /\ queue' \in Seq(Messages)
      /\ \A m : Posted(m)' <=> Posted(m) \/ WM_QUIT = m
  BY HoldsAppend DEF Quit, IInv, TypeOK, Posted, Messages
<1>2. TypeOK'
  BY <1>1 DEF Quit, IInv, TypeOK
<1>3. SliceInv'
  BY DEF Quit, IInv, SliceInv, Top
<1>4. NeverStalls'
  BY <1>1 DEF Quit, IInv, NeverStalls, Armed, Messages
<1>5. UrgentKept' /\ DelayKept'
  BY <1>1 DEF Quit, IInv, UrgentKept, DelayKept
<1>6. OrderInv'
  <2>1. WM_QUIT \notin Delays /\ WM_QUIT \in Messages
    BY DelaysFacts DEF Messages
  <2> QED
    BY <2>1, OrderAppend DEF Quit, IInv, TypeOK, OrderInv
<1> QED
  BY <1>2, <1>3, <1>4, <1>5, <1>6 DEF IInv

LEMMA ScheduleStep == ASSUME IInv, OnScheduleWork PROVE IInv'
<1> USE DelaysFacts
<1> DEFINE d == Head(queue)
<1>1. /\ queue # <<>> /\ d # WM_QUIT /\ Dispatching
      /\ UNCHANGED <<phase, expired, rounds, begun>>
  BY DEF OnScheduleWork
<1>2. /\ Tail(queue) \in Seq(Messages) /\ d \in Messages
      /\ \A m : Posted(m) <=> d = m \/ Holds(Tail(queue), m)
  BY <1>1, HoldsTail DEF IInv, TypeOK, Posted
<1>3. d \in Nat /\ (d \notin {0, kTimerDelayPlaceholder} => d \in Delays)
  <2>1. d \in Delays \cup {0, kTimerDelayPlaceholder}
    BY <1>1, <1>2 DEF Messages
  <2> HIDE DEF d
  <2> QED
    BY <2>1
<1>4. CASE Drop(d)
  <2>1. /\ timer_pending_ > 0 /\ d = kTimerDelayPlaceholder
        /\ queue' = Tail(queue)
        /\ UNCHANGED <<timer_pending_, is_active_, reentrancy_detected_, slices,
                       urgent, later>>
    BY <1>4 DEF Drop, Superfluous
  <2>2. \A m : m # kTimerDelayPlaceholder => (Posted(m)' <=> Posted(m))
    BY <1>2, <2>1 DEF Posted
  <2>3. TypeOK'
    BY <1>1, <1>2, <2>1 DEF IInv, TypeOK
  <2>4. SliceInv'
    BY <1>1, <2>1 DEF IInv, SliceInv, Top
  <2>5. NeverStalls'
    BY <2>1 DEF NeverStalls, Armed
  <2>6. UrgentKept'
    BY <1>1, <2>1, <2>2 DEF IInv, UrgentKept
  <2>7. DelayKept'
    <3>1. later \in Delays \cup {0} /\ later # kTimerDelayPlaceholder
      BY DEF IInv, TypeOK
    <3> QED
      BY <1>1, <2>1, <2>2, <3>1 DEF IInv, DelayKept
  <2>8. OrderInv'
    BY <1>1, <1>2, <2>1, OrderTail DEF IInv, TypeOK, OrderInv
  <2> QED
    BY <2>3, <2>4, <2>5, <2>6, <2>7, <2>8 DEF IInv
<1>5. CASE SetTimer(d)
  <2>1. /\ d > 0
        /\ timer_pending_' \in 1 .. kMaxTimerDelay /\ timer_pending_' <= d
        /\ queue' = Tail(queue)
        /\ UNCHANGED <<is_active_, reentrancy_detected_, slices, urgent, later>>
    BY <1>3, <1>5 DEF SetTimer
  <2>2. \A m : m # d => (Posted(m)' <=> Posted(m))
    BY <1>2, <2>1 DEF Posted
  <2>3. TypeOK'
    BY <1>1, <1>2, <2>1 DEF IInv, TypeOK
  <2>4. SliceInv'
    BY <1>1, <2>1 DEF IInv, SliceInv, Top
  <2>5. NeverStalls'
    BY <2>1 DEF NeverStalls, Armed
  <2>6. UrgentKept'
    BY <1>1, <2>1, <2>2 DEF IInv, UrgentKept
  <2>7. DelayKept'
    <3>0. SUFFICES ASSUME phase = "run", later > 0
                   PROVE  DelayKept'
      BY <1>1, <2>1 DEF DelayKept
    <3>1. CASE d = later
      BY <1>1, <1>3, <2>1, <3>1 DEF DelayKept
    <3>2. CASE Posted(later) /\ d # later
      BY <1>1, <2>1, <2>2, <3>2 DEF DelayKept
    <3>3. CASE Posted(0) \/ (is_active_ /\ reentrancy_detected_)
      BY <1>1, <2>1, <2>2, <3>3 DEF DelayKept
    <3>4. CASE timer_pending_ \in 1 .. later /\ d # later
      <4>1. later \in Nat /\ timer_pending_ > 0
        BY <3>4 DEF IInv, TypeOK
      <4>2. d # kTimerDelayPlaceholder
        BY <1>5, <4>1 DEF SetTimer, Superfluous
      <4>3. queue[1] = d /\ d \in Delays \ {0, later}
        BY <1>1, <1>3, <2>1, <3>4, <4>2 DEF IInv, TypeOK
      <4>4. PICK j \in 2 .. Len(queue) : queue[j] = later
        BY <1>1, <3>0, <4>1, <4>3 DEF IInv, TypeOK, OrderInv, InOrder
      <4>5. Posted(later)'
        BY <1>1, <2>1, <4>4, TailAt DEF Posted, Holds, IInv, TypeOK
      <4> QED
        BY <4>5 DEF DelayKept
    <3> QED
      BY <3>0, <3>1, <3>2, <3>3, <3>4 DEF IInv, DelayKept
  <2>8. OrderInv'
    BY <1>1, <1>2, <2>1, OrderTail DEF IInv, TypeOK, OrderInv
  <2> QED
    BY <2>3, <2>4, <2>5, <2>6, <2>7, <2>8 DEF IInv
<1>6. CASE DoWork(Tail(queue))
  BY <1>1, <1>2, <1>6, OrderTail, DoWorkStep DEF IInv, TypeOK, OrderInv
<1> QED
  BY <1>4, <1>5, <1>6 DEF OnScheduleWork

LEMMA ElapseStep == ASSUME IInv, Elapse PROVE IInv'
<1>1. TypeOK'
  BY DEF Elapse, IInv, TypeOK
<1>2. /\ SliceInv' /\ OrderInv'
      /\ NeverStalls' /\ UrgentKept' /\ DelayKept'
  BY DEF Elapse, IInv, SliceInv, Top, OrderInv, NeverStalls, Armed, UrgentKept,
         DelayKept, Posted
<1> QED
  BY <1>1, <1>2 DEF IInv

LEMMA TimeoutStep == ASSUME IInv, OnTimerTimeout PROVE IInv'
<1>1. /\ DoWork(queue) /\ Dispatching /\ expired' = FALSE
      /\ UNCHANGED <<phase, rounds, begun>>
  BY DEF OnTimerTimeout
<1> QED
  BY <1>1, DoWorkStep DEF IInv, TypeOK, OrderInv

LEMMA EndSliceStep == ASSUME IInv, EndSlice PROVE IInv'
<1> USE DelaysFacts
<1>1. /\ slices # <<>> /\ Top = "work" /\ is_active_
      /\ is_active_' = FALSE
      /\ slices' = SubSeq(slices, 1, Len(slices) - 1)
      /\ UNCHANGED <<phase, timer_pending_, expired, reentrancy_detected_, rounds,
                     urgent, later, begun>>
  BY DEF EndSlice, IInv, SliceInv, Top
<1>2. slices' \in {<<>>, <<"round">>} /\ (phase = "run" => slices' = <<>>)
  BY <1>1, Pushes DEF IInv, SliceInv, Stacks, Top
<1>3. PICK x \in {0, kTimerDelayPlaceholder} :
        /\ queue' = Append(queue, x) \/ (queue' = queue /\ ~ reentrancy_detected_ /\ timer_pending_ # 0)
        /\ reentrancy_detected_ => x = 0
  BY DEF EndSlice
<1>4. 0 \in Messages /\ kTimerDelayPlaceholder \in Messages /\ WM_QUIT # 0
      /\ x \in Messages \ {WM_QUIT} /\ x \notin Delays \ {0}
  BY DEF Messages
<1>5. /\ queue' \in Seq(Messages)
      /\ \A m : Posted(m) => Posted(m)'
      /\ queue' # queue => Posted(x)'
      /\ reentrancy_detected_ => Posted(x)'
  <2>1. queue \in Seq(Messages) /\ x \in Messages
    BY <1>4 DEF IInv, TypeOK
  <2>2. CASE queue' = Append(queue, x)
    BY <2>1, <2>2, HoldsAppend DEF Posted
  <2>3. CASE queue' = queue /\ ~ reentrancy_detected_
    BY <2>1, <2>3 DEF Posted
  <2> QED
    BY <1>3, <2>2, <2>3
<1>6. TypeOK'
  <2>1. slices' \in Seq({"work", "round"})
    BY <1>2, Pushes DEF Stacks
  <2> QED
    BY <1>1, <1>5, <2>1 DEF IInv, TypeOK
<1>7. SliceInv'
  BY <1>1, <1>2, Pushes DEF SliceInv, Stacks, Top
<1>8. OrderInv'
  <2>1. queue \in Seq(Messages) /\ x \in Messages
    BY <1>4 DEF IInv, TypeOK
  <2>2. later > 0 => InOrder(Append(queue, x), later)
    BY <1>4, <2>1, OrderAppend DEF IInv, OrderInv
  <2> QED
    BY <1>1, <1>3, <2>2 DEF IInv, OrderInv
<1>9. NeverStalls'
  <2>1. CASE queue' = queue /\ ~ reentrancy_detected_ /\ timer_pending_ # 0
    BY <1>1, <2>1 DEF IInv, TypeOK, NeverStalls, Armed
  <2>2. CASE queue' = Append(queue, x)
    <3>1. Posted(x)'
      BY <1>4, <2>2, HoldsAppend DEF IInv, TypeOK, Posted
    <3> QED
      BY <1>4, <3>1 DEF NeverStalls, Armed
  <2> QED
    BY <1>3, <2>1, <2>2
<1>10. UrgentKept' /\ DelayKept'
  BY <1>1, <1>3, <1>5 DEF IInv, UrgentKept, DelayKept
<1> QED
  BY <1>6, <1>7, <1>8, <1>9, <1>10 DEF IInv

LEMMA LeaveStep == ASSUME IInv, Leave PROVE IInv'
<1>1. /\ queue' \in Seq(Messages)
      /\ queue' = Tail(queue) /\ queue # <<>>
      /\ timer_pending_' = 0 /\ phase' = "drain"
      /\ UNCHANGED <<expired, is_active_, reentrancy_detected_, slices, rounds,
                     urgent, later, begun>>
  BY HoldsTail DEF Leave, IInv, TypeOK
<1>2. TypeOK'
  BY <1>1, DelaysFacts DEF IInv, TypeOK
<1>3. SliceInv'
  BY <1>1 DEF IInv, SliceInv, Top
<1>4. OrderInv'
  BY <1>1, OrderTail DEF IInv, TypeOK, OrderInv
<1> QED
  BY <1>1, <1>2, <1>3, <1>4 DEF IInv, NeverStalls, UrgentKept, DelayKept

LEMMA BeginRoundStep == ASSUME IInv, BeginRound PROVE IInv'
<1>1. /\ phase = "drain" /\ slices = <<>> /\ rounds > 0
      /\ rounds' = rounds - 1
      /\ slices' = Append(<<>>, "round")
      /\ urgent' = FALSE /\ later' = 0
      /\ UNCHANGED <<phase, queue, timer_pending_, expired, is_active_,
                     reentrancy_detected_, begun>>
  BY DEF BeginRound, BeginSlice
<1>2. slices' = <<"round">>
  BY <1>1, Pushes
<1>3. TypeOK'
  <2>1. slices' \in Seq({"work", "round"})
    BY <1>2, Pushes DEF Stacks
  <2>2. rounds' \in 0 .. Rounds
    BY <1>1, DelaysFacts DEF IInv, TypeOK
  <2>3. urgent' \in BOOLEAN /\ later' \in Delays \cup {0}
    BY <1>1
  <2> QED
    BY <1>1, <2>1, <2>2, <2>3 DEF IInv, TypeOK
<1>4. SliceInv'
  BY <1>1, <1>2, Pushes DEF IInv, SliceInv, Stacks, Top
<1> QED
  BY <1>1, <1>3, <1>4 DEF IInv, OrderInv, NeverStalls, UrgentKept, DelayKept

LEMMA EndRoundStep == ASSUME IInv, EndRound PROVE IInv'
<1>1. /\ slices # <<>> /\ Top = "round"
      /\ slices' = SubSeq(slices, 1, Len(slices) - 1)
      /\ UNCHANGED <<phase, queue, timer_pending_, expired, is_active_,
                     reentrancy_detected_, rounds, urgent, later, begun>>
  BY DEF EndRound, Top
<1>2. slices = <<"round">> /\ slices' = <<>> /\ phase # "run" /\ ~ is_active_
  BY <1>1, Pushes DEF IInv, SliceInv, Stacks, Top
<1>3. TypeOK'
  <2>1. slices' \in Seq({"work", "round"})
    BY <1>2, Pushes DEF Stacks
  <2> QED
    BY <1>1, <2>1 DEF IInv, TypeOK
<1>4. SliceInv'
  BY <1>1, <1>2, Pushes DEF IInv, SliceInv, Stacks, Top
<1> QED
  BY <1>1, <1>2, <1>3, <1>4 DEF IInv, OrderInv, NeverStalls, UrgentKept, DelayKept

LEMMA ReturnStep == ASSUME IInv, Return PROVE IInv'
<1>1. TypeOK'
  BY DEF Return, IInv, TypeOK
<1>2. SliceInv' /\ OrderInv' /\ NeverStalls' /\ UrgentKept' /\ DelayKept'
  BY DEF Return, IInv, SliceInv, Top, OrderInv, NeverStalls, UrgentKept, DelayKept
<1> QED
  BY <1>1, <1>2 DEF IInv

LEMMA StutterStep == ASSUME IInv, UNCHANGED vars PROVE IInv'
<1>1. TypeOK'
  BY DEF vars, IInv, TypeOK
<1>2. SliceInv' /\ OrderInv'
  BY DEF vars, IInv, SliceInv, Top, OrderInv
<1>3. NeverStalls' /\ UrgentKept' /\ DelayKept'
  BY DEF vars, IInv, NeverStalls, Armed, UrgentKept, DelayKept, Posted
<1> QED
  BY <1>1, <1>2, <1>3 DEF IInv

LEMMA Inductive == IInv /\ [Next]_vars => IInv'
<1> SUFFICES ASSUME IInv, [Next]_vars PROVE IInv'
  OBVIOUS
<1> QED
  BY RequestStep, QuitStep, ElapseStep, ScheduleStep, TimeoutStep, EndSliceStep,
     LeaveStep, BeginRoundStep, EndRoundStep, ReturnStep, StutterStep DEF Next

LEMMA Invariance == Spec => []IInv
BY InitIInv, Inductive, PTL DEF Spec

----------------------------------------------------------------------------
(* Every variable has its type: the timer never waits longer than           *)
(* kMaxTimerDelay, and the queue holds delays and WM_QUIT.                 *)
THEOREM TypeCorrect == Spec => []TypeOK
<1>1. IInv => TypeOK
  BY DEF IInv
<1> QED
  BY <1>1, Invariance, PTL

(* Once asked, the pump always has a timer, a message or a running slice    *)
(* that leads to the next slice, until the application quits.              *)
THEOREM NeverStallsCorrect == Spec => []NeverStalls
<1>1. IInv => NeverStalls
  BY DEF IInv
<1> QED
  BY <1>1, Invariance, PTL

(* A request for a slice at once is not lost, even when its message is      *)
(* dispatched inside a slice that drops it.                                *)
THEOREM UrgentKeptCorrect == Spec => []UrgentKept
<1>1. IInv => UrgentKept
  BY DEF IInv
<1> QED
  BY <1>1, Invariance, PTL

(* The delay CEF asked for last is not exceeded by the timer, whatever was  *)
(* asked for before and whichever slices came in between.                  *)
THEOREM DelayKeptCorrect == Spec => []DelayKept
<1>1. IInv => DelayKept
  BY DEF IInv
<1> QED
  BY <1>1, Invariance, PTL

(* Both hold: no slice CEF has asked for is forgotten or put off.           *)
THEOREM RequestsKeptCorrect == Spec => []RequestsKept
<1>1. UrgentKept /\ DelayKept => RequestsKept
  BY DEF RequestsKept
<1> QED
  BY <1>1, UrgentKeptCorrect, DelayKeptCorrect, PTL

(* In the loop of Run CEF is never called within CEF, and at most once at   *)
(* its end.                                                                *)
THEOREM CefNotReenteredCorrect == Spec => []CefNotReentered
<1>1. IInv => CefNotReentered
  <2> SUFFICES ASSUME IInv PROVE CefNotReentered
    OBVIOUS
  <2>1. /\ slices \in Stacks
        /\ phase = "run" => slices \in {<<>>, <<"work">>}
    BY DEF IInv, SliceInv
  <2>2. phase = "run" => Len(slices) <= 1
    BY <2>1, Pushes
  <2>3. ASSUME NEW i \in 1 .. Len(slices), NEW j \in 1 .. Len(slices),
               slices[i] = "work", slices[j] = "work"
        PROVE  i = j
    <3>1. CASE Len(slices) = 0
      BY <3>1
    <3>2. CASE Len(slices) = 1
      BY <3>2
    <3>3. CASE slices = <<"round", "work">>
      <4>1. Len(slices) = 2 /\ slices[1] = "round"
        BY <3>3, Pushes
      <4>2. i \in 1 .. 2 /\ j \in 1 .. 2 /\ i # 1 /\ j # 1
        BY <2>3, <4>1
      <4> QED
        BY <4>2
    <3> QED
      BY <2>1, <3>1, <3>2, <3>3, Pushes DEF Stacks
  <2> QED
    BY <2>2, <2>3 DEF CefNotReentered
<1> QED
  BY <1>1, Invariance, PTL
=============================================================================
