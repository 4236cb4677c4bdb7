-------------------- MODULE MainMessageLoopExternalPump --------------------
(***************************************************************************)
(* The message loop of an application that embeds CEF and drives it from   *)
(* its own Windows messages (main_message_loop_external_pump.cc and        *)
(* _win.cc).  CEF asks, from any thread, for a time slice now or after a   *)
(* delay; each request is a message of a hidden window, a slice is a call  *)
(* of CefDoMessageLoopWork on the main thread, and a timer sees that no    *)
(* slice is further than kMaxTimerDelay away.  A slice may dispatch        *)
(* messages itself, and then meets the pump in the middle of its work.     *)
(*                                                                         *)
(* External: CEF, which requests slices and dispatches within them, and    *)
(* the message queue and the timers of Windows.                            *)
(***************************************************************************)
EXTENDS Naturals, Sequences

CONSTANTS Delays,           \* what CEF asks for, 0 for at once
          kMaxTimerDelay,
          kTimerDelayPlaceholder,
          WM_QUIT,          \* the message, which is no delay
          Rounds,           \* slices that Run makes after WM_QUIT
          MaxQueue          \* bound on the messages CEF's requests add to

ASSUME DelaysAssumption ==
  /\ kMaxTimerDelay \in Nat \ {0}
  /\ kTimerDelayPlaceholder \in Nat /\ kTimerDelayPlaceholder > kMaxTimerDelay
  /\ Delays \subseteq Nat \ {kTimerDelayPlaceholder}
  /\ WM_QUIT \notin Nat
  /\ Rounds \in Nat

VARIABLES phase,     \* "run", "drain" once WM_QUIT is taken, "done"
          queue,     \* posted messages: delays of kMsgHaveWork, or WM_QUIT
          timer_pending_, \* what ::SetTimer was last given, 0 without a timer
          expired,   \* WM_TIMER waits to be dispatched
          is_active_,
          reentrancy_detected_,
          slices,    \* calls of CefDoMessageLoopWork on the stack, the inner last:
                     \* "work" from DoWork, "round" from the end of Run
          rounds,    \* rounds left at the end of Run
          urgent,    \* history: a slice was asked for at once and none has begun
          later,     \* history: the delay last asked for since a slice began, 0 if none
          begun      \* history: CEF has asked for its first slice

vars == <<phase, queue, timer_pending_, expired, is_active_,
          reentrancy_detected_, slices, rounds, urgent, later, begun>>

Init ==
  /\ phase = "run"
  /\ queue = <<>>
  /\ timer_pending_ = 0
  /\ expired = FALSE
  /\ is_active_ = FALSE
  /\ reentrancy_detected_ = FALSE
  /\ slices = <<>>
  /\ rounds = Rounds
  /\ urgent = FALSE
  /\ later = 0
  /\ begun = FALSE

Messages == Delays \cup {0, kTimerDelayPlaceholder, WM_QUIT}

TypeOK ==
  /\ phase \in {"run", "drain", "done"}
  /\ queue \in Seq(Messages)
  /\ timer_pending_ \in 0 .. kMaxTimerDelay
  /\ expired \in BOOLEAN
  /\ is_active_ \in BOOLEAN
  /\ reentrancy_detected_ \in BOOLEAN
  /\ slices \in Seq({"work", "round"})
  /\ rounds \in 0 .. Rounds
  /\ urgent \in BOOLEAN
  /\ later \in Delays \cup {0}
  /\ begun \in BOOLEAN

Holds(q, m) == \E i \in 1 .. Len(q) : q[i] = m

Posted(m) == Holds(queue, m)

(* Messages are dispatched by Run, or by CEF within a slice. *)
Dispatching == phase = "run" \/ slices # <<>>

----------------------------------------------------------------------------
(* CEF and the application, on any thread. *)

(* OnScheduleMessagePumpWork, called by CEF. *)
OnScheduleMessagePumpWork(d) ==
  /\ phase # "done"
  /\ Len(queue) < MaxQueue
  /\ queue' = Append(queue, d)
  /\ urgent' = (urgent \/ d = 0)
  /\ later' = IF d = 0 THEN later ELSE d
  /\ begun' = TRUE
  /\ UNCHANGED <<phase, timer_pending_, expired, is_active_,
                 reentrancy_detected_, slices, rounds>>

Quit ==
  /\ phase = "run"
  /\ ~ Posted(WM_QUIT)
  /\ queue' = Append(queue, WM_QUIT)
  /\ UNCHANGED <<phase, timer_pending_, expired, is_active_, reentrancy_detected_,
                 slices, rounds, urgent, later, begun>>

(* Windows: the timer elapses, now and, until it is killed, again. *)
Elapse ==
  /\ timer_pending_ > 0
  /\ ~ expired
  /\ expired' = TRUE
  /\ UNCHANGED <<phase, queue, timer_pending_, is_active_, reentrancy_detected_,
                 slices, rounds, urgent, later, begun>>

----------------------------------------------------------------------------
(* The main thread. *)

(* A call of CefDoMessageLoopWork begins: it meets whatever was asked for. *)
BeginSlice(s) ==
  /\ slices' = Append(slices, s)
  /\ urgent' = FALSE
  /\ later' = 0

(* Mutant: the re-entrant call, too, clears is_active_ on its way out.      *)
Reenter_Clears(q) ==
  /\ is_active_
  /\ reentrancy_detected_' = TRUE
  /\ is_active_' = FALSE
  /\ queue' = Append(q, kTimerDelayPlaceholder)
  /\ UNCHANGED <<slices, urgent, later>>

(* Within a slice of DoWork the call is noted and dropped, and, the timer   *)
(* having been killed, another one asked for.  q is the queue by then.     *)
Reenter(q) ==
  /\ is_active_
  /\ reentrancy_detected_' = TRUE
  /\ queue' = Append(q, kTimerDelayPlaceholder)
  /\ UNCHANGED <<is_active_, slices, urgent, later>>

Perform(q) ==
  /\ ~ is_active_
  /\ reentrancy_detected_' = FALSE
  /\ is_active_' = TRUE
  /\ queue' = q
  /\ BeginSlice("work")

(* DoWork and PerformMessageLoopWork, up to CefDoMessageLoopWork; KillTimer  *)
(* has been called.                                                        *)
DoWork(q) ==
  /\ timer_pending_' = 0
  /\ Reenter(q) \/ Perform(q)

(* Mutant: a placeholder replaces a shorter timer.                          *)
Superfluous_Never(d) == FALSE /\ d = kTimerDelayPlaceholder

(* A placeholder is dropped when a timer will fire anyway. *)
Superfluous(d) == d = kTimerDelayPlaceholder /\ timer_pending_ > 0

Drop(d) ==
  /\ Superfluous(d)
  /\ queue' = Tail(queue)
  /\ UNCHANGED <<timer_pending_, is_active_, reentrancy_detected_, slices,
                 urgent, later>>

(* Mutant: a delay above the maximum sets no timer.                         *)
SetTimer_Refused(d) ==
  /\ d > 0
  /\ ~ Superfluous(d)
  /\ timer_pending_' = IF d > kMaxTimerDelay THEN 0 ELSE d
  /\ queue' = Tail(queue)
  /\ UNCHANGED <<is_active_, reentrancy_detected_, slices, urgent, later>>

SetTimer(d) ==
  /\ d > 0
  /\ ~ Superfluous(d)
  /\ timer_pending_' = IF d > kMaxTimerDelay THEN kMaxTimerDelay ELSE d
  /\ queue' = Tail(queue)
  /\ UNCHANGED <<is_active_, reentrancy_detected_, slices, urgent, later>>

(* kMsgHaveWork is dispatched: OnScheduleWork. *)
OnScheduleWork ==
  /\ Dispatching
  /\ queue # <<>>
  /\ Head(queue) # WM_QUIT
  /\ \/ Drop(Head(queue))
     \/ SetTimer(Head(queue))
     \/ Head(queue) = 0 /\ DoWork(Tail(queue))
  /\ UNCHANGED <<phase, expired, rounds, begun>>

(* WM_TIMER is dispatched, which Windows does when nothing is posted.       *)
(* KillTimer does not take back one that waits: it may come with no timer, *)
(* or in the place of a later one.                                         *)
OnTimerTimeout ==
  /\ Dispatching
  /\ expired
  /\ queue = <<>>
  /\ expired' = FALSE
  /\ DoWork(queue)
  /\ UNCHANGED <<phase, rounds, begun>>

(* Mutant: nothing is asked for at the end of an undisturbed slice.         *)
EndSlice_Idle ==
  /\ slices # <<>>
  /\ slices[Len(slices)] = "work"
  /\ slices' = SubSeq(slices, 1, Len(slices) - 1)
  /\ is_active_' = FALSE
  /\ queue' = IF reentrancy_detected_ THEN Append(queue, 0) ELSE queue
  /\ UNCHANGED <<phase, timer_pending_, expired, reentrancy_detected_, rounds,
                 urgent, later, begun>>

(* CefDoMessageLoopWork returns to PerformMessageLoopWork, and DoWork ends. *)
EndSlice ==
  /\ slices # <<>>
  /\ slices[Len(slices)] = "work"
  /\ slices' = SubSeq(slices, 1, Len(slices) - 1)
  /\ is_active_' = FALSE
  /\ queue' = IF reentrancy_detected_ THEN Append(queue, 0)
              ELSE IF timer_pending_ = 0 THEN Append(queue, kTimerDelayPlaceholder)
              ELSE queue
  /\ UNCHANGED <<phase, timer_pending_, expired, reentrancy_detected_, rounds,
                 urgent, later, begun>>

(* WM_QUIT: GetMessage returns 0 to Run, which kills the timer. *)
Leave ==
  /\ phase = "run"
  /\ slices = <<>>
  /\ queue # <<>> /\ Head(queue) = WM_QUIT
  /\ queue' = Tail(queue)
  /\ timer_pending_' = 0
  /\ phase' = "drain"
  /\ UNCHANGED <<expired, is_active_, reentrancy_detected_, slices, rounds,
                 urgent, later, begun>>

(* One of the slices "for a while", which do not set is_active_. *)
BeginRound ==
  /\ phase = "drain"
  /\ slices = <<>>
  /\ rounds > 0
  /\ rounds' = rounds - 1
  /\ BeginSlice("round")
  /\ UNCHANGED <<phase, queue, timer_pending_, expired, is_active_,
                 reentrancy_detected_, begun>>

EndRound ==
  /\ slices # <<>>
  /\ slices[Len(slices)] = "round"
  /\ slices' = SubSeq(slices, 1, Len(slices) - 1)
  /\ UNCHANGED <<phase, queue, timer_pending_, expired, is_active_,
                 reentrancy_detected_, rounds, urgent, later, begun>>

Return ==
  /\ phase = "drain"
  /\ slices = <<>>
  /\ rounds = 0
  /\ phase' = "done"
  /\ UNCHANGED <<queue, timer_pending_, expired, is_active_, reentrancy_detected_,
                 slices, rounds, urgent, later, begun>>

Next ==
  \/ \E d \in Delays : OnScheduleMessagePumpWork(d)
  \/ Quit
  \/ Elapse
  \/ OnScheduleWork
  \/ OnTimerTimeout
  \/ EndSlice
  \/ Leave
  \/ BeginRound
  \/ EndRound
  \/ Return

(* Run takes what its queue holds, a call of CefDoMessageLoopWork           *)
(* returns, and timers elapse; nothing makes CEF ask, or dispatch within a *)
(* slice.                                                                  *)
Fairness ==
  /\ WF_vars(slices = <<>> /\ OnScheduleWork)
  /\ WF_vars(slices = <<>> /\ OnTimerTimeout)
  /\ WF_vars(Elapse)
  /\ WF_vars(EndSlice)
  /\ WF_vars(Leave)

Spec == Init /\ [][Next]_vars /\ Fairness

----------------------------------------------------------------------------
(* What the pump promises. *)

(* What makes Run do another slice: a timer, a message, or the end of the   *)
(* slice it is in.                                                         *)
Armed ==
  \/ timer_pending_ > 0
  \/ is_active_
  \/ \E m \in Messages \ {WM_QUIT} : Posted(m)

(* Once CEF has asked for a slice the pump never falls asleep: there is     *)
(* always a timer, a request in the queue or a slice whose end asks for    *)
(* the next.                                                               *)
NeverStalls == phase = "run" /\ begun => Armed

(* A slice asked for at once is in the queue until it begins, or, if its    *)
(* message was dispatched inside another slice and dropped, that slice     *)
(* will ask for it again.                                                  *)
UrgentKept ==
  phase = "run" /\ urgent => Posted(0) \/ (is_active_ /\ reentrancy_detected_)

(* The delay CEF asked for last is kept: the timer is not set to more,      *)
(* although every request and every slice set it anew, unless a slice      *)
(* comes sooner.                                                           *)
DelayKept ==
  phase = "run" /\ later > 0 =>
    \/ timer_pending_ \in 1 .. later
    \/ Posted(later)
    \/ Posted(0)
    \/ is_active_ /\ reentrancy_detected_

(* So no slice CEF has asked for is forgotten or put off.                   *)
RequestsKept == UrgentKept /\ DelayKept

(* While Run is in its loop, CefDoMessageLoopWork is not called within      *)
(* itself; at its end, where is_active_ is not set, it may be, once.       *)
CefNotReentered ==
  /\ phase = "run" => Len(slices) <= 1
  /\ \A i, j \in 1 .. Len(slices) : slices[i] = "work" /\ slices[j] = "work" => i = j

(* CEF asks for delays for ever and gets no slice.  The pump cannot prevent *)
(* this: each such request kills the timer and sets it anew (53-64), and   *)
(* WM_TIMER comes only when nothing is posted; so kMaxTimerDelay is not    *)
(* "the maximum number of milliseconds we're willing to wait between calls *)
(* to DoWork()" (21-22) if the requests are closer to each other than that.*)
PutOffForEver ==
  /\ <>[](slices = <<>>)
  /\ []<><<\E d \in Delays \ {0} : OnScheduleMessagePumpWork(d)>>_vars

(* A slice asked for at once begins, or the application quits, whatever     *)
(* else CEF asks for.                                                      *)
UrgentIsServed == urgent ~> (~ urgent \/ phase # "run")

(* So does one asked for with a delay ...                                   *)
DelayIsServed == later > 0 ~> (later = 0 \/ phase # "run")

(* ... and, asked once, the pump makes slice after slice.                   *)
KeepsPumping == (begun /\ slices = <<>>) ~> (slices # <<>> \/ phase # "run")

(* Slice follows slice, and each request gets one: those for a slice at     *)
(* once always, the others unless CEF itself puts them off for ever.       *)
PumpsOn == UrgentIsServed /\ (PutOffForEver \/ (DelayIsServed /\ KeepsPumping))
=============================================================================
