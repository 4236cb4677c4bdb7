-------------------------- MODULE PaintManager_proofs --------------------------
(***************************************************************************)
(* PaintManager's safety for every set of controls and timers, any depth   *)
(* of handlers inside each other and any bound on timer identifiers.       *)
(***************************************************************************)
EXTENDS PaintManager, TLAPS

(* An activation holds a control that exists; a dialog to attach is not yet *)
(* there, and waits once.                                                   *)
Sound ==
    {f \in Frame : IF f.at = "attach" THEN f.c \in Controls \ Exists
                                      ELSE f.c \in Exists \cup {None}}

FrameInv ==
    /\ \A k \in DOMAIN stack : stack[k] \in Sound
    /\ \A j, k \in DOMAIN stack : stack[j].at = "attach" /\ stack[j] = stack[k] => j = k

(* While the control that loses the focus is told, nobody has it.           *)
Taking  == \E k \in DOMAIN stack : stack[k].at \in {"killed", "needed"}
Nobody  == \A c \in Controls : "focused" \notin flags[c]

FocusInv == FocusIsOne /\ (~ reentered /\ Taking => Nobody)

(* The identifiers used so far, as long as timer_id_ has not come round: a  *)
(* run that begins at the first one and goes on at 0 after Modulus - 1.     *)
First == 4097 % Modulus
UsedIds ==
    IF timerId >= First THEN First..timerId ELSE (0..timerId) \cup (First..Modulus - 1)
RunLength ==
    IF timerId >= First THEN timerId - First + 1 ELSE Modulus - First + timerId + 1

IdInv ==
    /\ allocated = 0 => timerId = 4096 /\ timers = {} /\ osTimers = {}
    /\ allocated > 0 /\ allocated <= Modulus =>
          /\ timerId \in 0..Modulus - 1
          /\ allocated = RunLength
          /\ \A y \in timers : y.id \in UsedIds
    /\ allocated > 0 => timerId \in 0..Modulus - 1

(* A message of the mouse that comes outside every handler is at the bottom *)
(* of the stack, and event_hover_ is free for it; so is WM_MOUSEWHEEL.      *)
HoverInv ==
    /\ inside \subseteq Exists
    /\ HoverPaired
    /\ ~ nested =>
         \A k \in DOMAIN stack :
            /\ stack[k].at \in {"left", "entered", "wheel"} => k = 1
            /\ stack[k].at = "left" => hover \notin inside
            /\ stack[k].at = "entered" => hover = None

IInv == TypeOK /\ PointersAlive /\ FrameInv /\ FocusInv /\ TimersAsAsked /\ IdInv /\ HoverInv

-----------------------------------------------------------------------------
(* TypeOK in parts.                                                         *)
ControlTypes ==
    /\ status \in [Controls -> {"none", "tree", "cleanup"}]
    /\ flags \in [Controls -> SUBSET (Fresh \cup {"focused"})]
    /\ nested \in BOOLEAN /\ reentered \in BOOLEAN

TimerEntry == [sender : Controls, local : Nat, id : 0..Modulus - 1, live : BOOLEAN]

TimerTypes ==
    /\ timers \subseteq TimerEntry
    /\ timerId \in (0..Modulus - 1) \cup {4096}
    /\ osTimers \subseteq 0..Modulus - 1
    /\ wants \subseteq Timers
    /\ allocated \in 0..MaxTimers

Pointers == {focus, hover, click, key} \subseteq Exists \cup {None}
Stack    == stack \in Seq(Frame) /\ \A k \in DOMAIN stack : stack[k] \in Sound

LEMMA Parts == IInv => ControlTypes /\ TimerTypes /\ Pointers /\ Stack
<1> SUFFICES ASSUME IInv PROVE ControlTypes /\ TimerTypes /\ Pointers /\ Stack
  OBVIOUS
<1>1. TypeOK /\ PointersAlive /\ FrameInv
  BY DEF IInv
<1>2. ControlTypes
  BY <1>1 DEF TypeOK, ControlTypes
<1>3. TimerTypes
  BY <1>1 DEF TypeOK, TimerTypes, TimerEntry
<1>4. Pointers
  BY <1>1 DEF PointersAlive, Pointers
<1>5. Stack
  BY <1>1 DEF TypeOK, FrameInv, Stack
<1> QED
  BY <1>2, <1>3, <1>4, <1>5

-----------------------------------------------------------------------------
(* A step pops at most the last activation, and pushes some of its own: s   *)
(* is such a stack, and F holds what was pushed.                            *)
Kept(s, F) ==
    /\ s \in Seq(Frame) /\ Len(s) >= Len(stack) - 1
    /\ \A k \in 1..Len(s) :
         \/ k \in 1..Len(stack) /\ s[k] = stack[k]
         \/ k >= Len(stack) /\ s[k] \in F

LEMMA KeptAll == ASSUME NEW F, stack \in Seq(Frame) PROVE Kept(stack, F)
  BY DEF Kept

LEMMA KeptRest == ASSUME NEW F, stack \in Seq(Frame), ~ Idle PROVE Kept(Rest, F)
  BY DEF Kept, Rest, Front, Idle

LEMMA RestFacts ==
    ASSUME stack \in Seq(Frame), ~ Idle
    PROVE  /\ Rest \in Seq(Frame) /\ Len(Rest) = Len(stack) - 1
           /\ \A k \in 1..Len(stack) - 1 : Rest[k] = stack[k]
  BY DEF Rest, Front, Idle

LEMMA KeptPush ==
    ASSUME NEW F, NEW s, Kept(s, F), NEW w, NEW c, [at |-> w, c |-> c] \in F \cap Frame
    PROVE  Kept(s \o At(w, c), F)
<1> DEFINE e == [at |-> w, c |-> c]
<1>1. At(w, c) = <<e>> /\ e \in F \cap Frame
  BY DEF At
<1> HIDE DEF e
<1> QED
  BY <1>1 DEF Kept

LEMMA KeptMore == ASSUME NEW F, NEW G, F \subseteq G, NEW s, Kept(s, F) PROVE Kept(s, G)
  BY DEF Kept

LEMMA LastSound ==
    ASSUME Stack, ~ Idle
    PROVE  /\ Last(stack) \in Sound /\ Last(stack) = stack[Len(stack)]
           /\ Len(stack) \in 1..Len(stack)
  BY DEF Stack, Idle, Last

(* What the messages push, apart from what has to do with the focus and     *)
(* with the mouse that moves.                                               *)
Quiet == {f \in Frame : /\ f.at \notin {"attach", "killed", "needed", "left", "entered", "wheel"}
                        /\ f.c \in Exists \cup {None}}
Killing == {f \in Frame : f.at = "killed" /\ f.c \in Exists \cup {None}}

LEMMA QuietFrames ==
    ASSUME NEW c \in Exists \cup {None},
           NEW w \in {"event", "down", "press", "unclick", "keydown", "keyup", "close",
                      "unfocus"}
    PROVE  [at |-> w, c |-> c] \in Quiet \cap Frame
  BY DEF Quiet, Frame, Exists

LEMMA KeptEvent ==
    ASSUME NEW F, Quiet \subseteq F, NEW s, Kept(s, F), Event(s) PROVE Kept(stack', F)
<1>1. [at |-> "event", c |-> None] \in F \cap Frame
  BY QuietFrames
<1> QED
  BY <1>1, KeptPush DEF Event

-----------------------------------------------------------------------------
(* The actions by what they push.                                           *)
NoPush ==
    \/ \E c \in Controls : Add(c) \/ BoxRemove(c) \/ Destroy(c) \/ SetVisible(c) \/ SetEnabled(c)
    \/ \E t \in Timers : SetTimer(t[1], t[2]) \/ KillTimer(t[1], t[2])

Pop == Needed \/ Press \/ Unclick \/ Keydown \/ Keyup \/ Attach \/ Return

Send ==
    \/ \E c \in FindControl : WM_LBUTTONDBLCLK(c) \/ WM_RBUTTONUP(c)
    \/ WM_LBUTTONUP \/ WM_CONTEXTMENU \/ WM_KEYDOWN \/ WM_KEYUP
    \/ \E c \in FindControl \cup {focus, hover} : Forward(c)
    \/ \E i \in osTimers : WM_TIMER(i)

ButtonDown == \E c \in FindControl : WM_LBUTTONDOWN(c) \/ WM_RBUTTONDOWN(c)

(* The mouse moves, or its wheel is turned.                                 *)
MouseMoved == \E c \in FindControl : WM_MOUSEMOVE(c) \/ Wheel(c)
Turned     == \E c \in FindControl : WM_MOUSEWHEEL(c)

FocusAction == ButtonDown \/ WM_CLOSE \/ Killed \/ Close \/ \E c \in Exists \cup {None} : MoveFocus(c)

LEMMA Actions ==
    Next => \/ NoPush \/ Pop \/ Send \/ FocusAction \/ Down \/ Entered \/ Left \/ SetFocusNeeded
            \/ MouseMoved \/ Turned
            \/ \E c \in Controls : AttachDialog(c) \/ SetInternVisible(c)
<1>1. Messages => Send \/ ButtonDown \/ WM_CLOSE \/ MouseMoved \/ Turned
  BY DEF Messages, Send, ButtonDown, MouseMoved, Turned
<1>2. Calls => NoPush \/ SetFocusNeeded \/ (\E c \in Exists \cup {None} : MoveFocus(c))
               \/ \E c \in Controls : AttachDialog(c) \/ SetInternVisible(c)
  BY DEF Calls, NoPush
<1>3. Resume => Pop \/ Killed \/ Close \/ Down \/ Entered \/ Left \/ MouseMoved
  BY DEF Resume, Pop, MouseMoved
<1> QED
  BY <1>1, <1>2, <1>3 DEF Next, FocusAction

LEMMA FindControlExists == FindControl \subseteq Exists \cup {None}
  BY DEF FindControl, InTree, Exists

(* What a move of the mouse over c makes of event_hover_ and of the stack.  *)
LEMMA MoveFacts ==
    ASSUME NEW s, NEW c, MouseMoves(s, c)
    PROVE  /\ \/ Event(s \o At("left", c)) \/ Event(s \o At("entered", c))
              \/ stack' = s \/ Event(s)
           /\ hover' = hover
  BY DEF MouseMoves, Enter, Move

(* Both messages that end in one find a stack to go on with.                *)
LEMMA MouseMovedFacts ==
    ASSUME MouseMoved
    PROVE  \E c \in Exists \cup {None}, s \in {stack, Rest} :
              /\ s = stack \/ ~ Idle
              /\ MouseMoves(s, c)
              /\ UNCHANGED <<status, flags, focusVars, click, key, timerVars>>
<1>1. PICK c \in FindControl : WM_MOUSEMOVE(c) \/ Wheel(c)
  BY DEF MouseMoved
<1>2. c \in Exists \cup {None}
  BY FindControlExists
<1>3. CASE WM_MOUSEMOVE(c)
  BY <1>2, <1>3 DEF WM_MOUSEMOVE
<1>4. CASE Wheel(c)
  BY <1>2, <1>4 DEF Wheel, Continue
<1> QED
  BY <1>1, <1>3, <1>4

LEMMA NoPushStack == NoPush => UNCHANGED stack
  BY DEF NoPush, Add, BoxRemove, Destroy, Reap, SetVisible, SetEnabled, SetTimer, KillTimer

LEMMA PopStack == Pop => ~ Idle /\ stack' = Rest
  BY DEF Pop, Needed, Press, Unclick, Keydown, Keyup, Attach, Return, Continue, Code

LEMMA SendStack == ASSUME Stack, Pointers, Send PROVE Kept(stack', Quiet)
<1>1. Kept(stack, Quiet)
  BY KeptAll DEF Stack
<1>2. CASE Event(stack) \/ UNCHANGED stack
  BY <1>1, <1>2, KeptEvent
<1>3. ASSUME NEW c \in Exists \cup {None}, Event(stack \o At("press", c))
      PROVE  Kept(stack', Quiet)
  BY <1>1, <1>3, QuietFrames, KeptPush, KeptEvent
<1>4. ASSUME NEW w \in {"unclick", "keydown", "keyup"}, Event(stack \o At(w, None))
      PROVE  Kept(stack', Quiet)
  BY <1>1, <1>4, QuietFrames, KeptPush, KeptEvent
<1>5. CASE \E c \in FindControl : WM_LBUTTONDBLCLK(c) \/ WM_RBUTTONUP(c)
  BY <1>2, <1>3, <1>5, FindControlExists DEF WM_LBUTTONDBLCLK, WM_RBUTTONUP
<1>6. CASE WM_CONTEXTMENU \/ WM_KEYDOWN \/ WM_KEYUP
  BY <1>4, <1>6 DEF WM_CONTEXTMENU, WM_KEYDOWN, WM_KEYUP
<1>7. CASE WM_LBUTTONUP \/ (\E c \in FindControl \cup {focus, hover} : Forward(c))
           \/ \E i \in osTimers : WM_TIMER(i)
  BY <1>2, <1>7 DEF WM_LBUTTONUP, Forward, WM_TIMER
<1> QED
  BY <1>5, <1>6, <1>7 DEF Send

-----------------------------------------------------------------------------
(* The focus.                                                               *)
Calm == {f \in Frame : f.at \notin {"killed", "needed"}}

FlagTypes == flags \in [Controls -> SUBSET (Fresh \cup {"focused"})]

LEMMA CalmTaking ==
    ASSUME NEW s, Kept(s, Calm), \E k \in DOMAIN s : s[k].at \in {"killed", "needed"}
    PROVE  Taking
<1>1. PICK k \in 1..Len(s) : s[k].at \in {"killed", "needed"}
  BY DEF Kept
<1>2. k \in 1..Len(stack) /\ s[k] = stack[k]
  BY <1>1 DEF Kept, Calm
<1> QED
  BY <1>1, <1>2 DEF Taking

LEMMA EventTaking ==
    ASSUME NEW s \in Seq(Frame), Event(s), Taking'
    PROVE  \E k \in DOMAIN s : s[k].at \in {"killed", "needed"}
<1> DEFINE e == [at |-> "event", c |-> None]
<1>1. stack' = s \o <<e>> /\ e.at = "event"
  BY DEF Event, At
<1> HIDE DEF e
<1>2. PICK k \in DOMAIN stack' : stack'[k].at \in {"killed", "needed"}
  BY DEF Taking
<1>3. k \in DOMAIN s /\ stack'[k] = s[k]
  BY <1>1, <1>2
<1> QED
  BY <1>2, <1>3

(* FocusOn(c), when nobody has the focus.                                   *)
LEMMA FocusOnStep ==
    ASSUME ControlTypes, NEW c \in Exists \cup {None}, NEW old \in Exists \cup {None},
           NEW F, Quiet \subseteq F, NEW below, Kept(below, F),
           ~ reentered => Nobody, FocusOn(below, c, old)
    PROVE  /\ focus' \in Exists \cup {None} /\ FlagTypes' /\ reentered' \in BOOLEAN
           /\ Kept(stack', F) /\ FocusInv'
<1> USE NoneAssumption
<1>1. CASE c \in Exists \cap Visible \cap Enabled
  <2>1. /\ focus' = c
        /\ flags' = [flags EXCEPT ![c] = @ \cup {"focused"}]
        /\ reentered' = (reentered \/ \E k \in DOMAIN below :
                                         below[k].at \in {"killed", "needed"})
        /\ Event(below)
    BY <1>1 DEF FocusOn
  <2>2. Kept(stack', F)
    BY <2>1, KeptEvent
  <2>3. FlagTypes' /\ reentered' \in BOOLEAN
    BY <2>1 DEF ControlTypes, FlagTypes
  <2>4. ASSUME ~ reentered' PROVE ~ Taking'
    BY <2>1, <2>4, EventTaking DEF Kept
  <2>5. ASSUME ~ reentered', NEW d \in Controls, "focused" \in flags'[d] PROVE focus' = d
    BY <2>1, <2>5, <1>1 DEF Nobody, ControlTypes, Exists
  <2> QED
    BY <2>1, <2>2, <2>3, <2>4, <2>5 DEF FocusInv, FocusIsOne
<1>2. CASE c \notin Exists \cap Visible \cap Enabled
  <2>1. focus' = old /\ stack' = below /\ UNCHANGED <<flags, reentered>>
    BY <1>2 DEF FocusOn
  <2>2. FocusInv'
    BY <2>1 DEF FocusInv, FocusIsOne, Nobody
  <2> QED
    BY <2>1, <2>2 DEF FlagTypes, ControlTypes
<1> QED
  BY <1>1, <1>2

LEMMA SetFocusStep ==
    ASSUME ControlTypes, FocusInv, Pointers, NEW c \in Exists \cup {None},
           NEW F, Quiet \cup Killing \subseteq F,
           NEW below, Kept(below, F), Kept(below, Calm), SetFocus(below, c)
    PROVE  /\ focus' \in Exists \cup {None} /\ FlagTypes' /\ reentered' \in BOOLEAN
           /\ Kept(stack', F) /\ FocusInv'
<1> USE NoneAssumption
<1>1. CASE c = focus
  <2>1. stack' = below /\ UNCHANGED <<focus, reentered, flags>>
    BY <1>1 DEF SetFocus, focusVars
  <2>2. Taking' => Taking
    BY <2>1, CalmTaking DEF Taking
  <2>3. FocusInv'
    BY <2>1, <2>2 DEF FocusInv, FocusIsOne, Nobody
  <2> QED
    BY <2>1, <2>3 DEF ControlTypes, FlagTypes, Pointers
<1>2. CASE c # focus /\ focus # None /\ "focused" \in flags[focus]
  <2>1. /\ flags' = [flags EXCEPT ![focus] = @ \ {"focused"}]
        /\ Event(below \o At("killed", c))
        /\ UNCHANGED <<focus, reentered>>
    BY <1>2 DEF SetFocus, focusVars
  <2>2. [at |-> "killed", c |-> c] \in F \cap Frame
    BY DEF Killing, Frame, Exists
  <2>3. Kept(stack', F)
    BY <2>1, <2>2, KeptPush, KeptEvent
  <2>4. FocusInv'
    BY <2>1, <1>2 DEF FocusInv, FocusIsOne, Nobody, ControlTypes
  <2> QED
    BY <2>1, <2>3, <2>4 DEF ControlTypes, FlagTypes, Pointers
<1>3. CASE c # focus /\ ~ (focus # None /\ "focused" \in flags[focus])
  <2>1. FocusOn(below, c, focus)
    BY <1>3 DEF SetFocus
  <2>2. ~ reentered => Nobody
    BY <1>3 DEF FocusInv, FocusIsOne, Nobody
  <2>3. focus \in Exists \cup {None}
    BY DEF Pointers
  <2> QED
    BY <2>1, <2>2, <2>3, FocusOnStep
<1> QED
  BY <1>1, <1>2, <1>3

Loud == Quiet \cup Killing

LEMMA QuietCalm == Quiet \subseteq Calm
  BY DEF Quiet, Calm

LEMMA FocusActionStep ==
    ASSUME ControlTypes, FocusInv, Pointers, Stack, FocusAction
    PROVE  /\ focus' \in Exists \cup {None} /\ FlagTypes' /\ reentered' \in BOOLEAN
           /\ Kept(stack', Loud) /\ FocusInv'
<1> DEFINE Goal == /\ focus' \in Exists \cup {None} /\ FlagTypes' /\ reentered' \in BOOLEAN
                   /\ Kept(stack', Loud) /\ FocusInv'
<1>1. Quiet \subseteq Loud /\ Quiet \subseteq Calm /\ Quiet \cup Killing \subseteq Loud
  BY QuietCalm DEF Loud
<1>2. Kept(stack, Loud) /\ Kept(stack, Calm)
  BY KeptAll DEF Stack
<1>3. ASSUME ~ Idle PROVE Kept(Rest, Loud) /\ Kept(Rest, Calm)
  BY <1>3, KeptRest DEF Stack
<1>4. ASSUME NEW s, Kept(s, Loud), Kept(s, Calm), NEW c \in Exists \cup {None},
             NEW w \in {"down", "press", "unfocus", "close"}
      PROVE  Kept(s \o At(w, c), Loud) /\ Kept(s \o At(w, c), Calm)
  BY <1>1, <1>4, QuietFrames, KeptPush
<1>5. ASSUME NEW s, Kept(s, Loud), Kept(s, Calm), NEW c \in Exists \cup {None}, SetFocus(s, c)
      PROVE  Goal
  BY <1>1, <1>5, SetFocusStep
<1>6. ASSUME NEW s, Kept(s, Loud), Kept(s, Calm), Event(s), UNCHANGED <<focusVars, flags>>
      PROVE  Goal
  <2>1. Kept(stack', Loud) /\ Kept(stack', Calm)
    BY <1>1, <1>6, KeptEvent
  <2>2. Taking' => Taking
    BY <2>1, CalmTaking DEF Taking
  <2>3. UNCHANGED <<focus, flags, reentered>>
    BY <1>6 DEF focusVars
  <2> QED
    BY <2>1, <2>2, <2>3 DEF FocusInv, FocusIsOne, Nobody, ControlTypes, FlagTypes, Pointers
<1> HIDE DEF Goal
<1>7. CASE ButtonDown
  <2>1. PICK c \in Exists \cup {None} : WM_LBUTTONDOWN(c) \/ WM_RBUTTONDOWN(c)
    BY <1>7, FindControlExists DEF ButtonDown
  <2>2. Kept(stack \o At("down", None), Loud) /\ Kept(stack \o At("down", None), Calm)
    BY <1>2, <1>4
  <2>3. /\ Kept(stack \o At("press", c) \o At("down", None), Loud)
        /\ Kept(stack \o At("press", c) \o At("down", None), Calm)
    <3>1. Kept(stack \o At("press", c), Loud) /\ Kept(stack \o At("press", c), Calm)
      BY <1>2, <1>4
    <3> QED
      BY <3>1, <1>4
  <2>4. \/ SetFocus(stack \o At("down", None), c)
        \/ SetFocus(stack \o At("press", c) \o At("down", None), c)
    BY <2>1 DEF WM_LBUTTONDOWN, WM_RBUTTONDOWN
  <2> QED
    BY <1>5, <2>2, <2>3, <2>4 DEF Goal
<1>8. CASE WM_CLOSE
  <2>1. \/ UNCHANGED <<focusVars, flags>> /\ \E w \in {"close", "unfocus"} : Event(stack \o At(w, None))
        \/ SetFocus(stack, None)
    BY <1>8 DEF WM_CLOSE
  <2> QED
    BY <1>2, <1>4, <1>5, <1>6, <2>1 DEF Goal
<1>9. CASE Close
  <2>1. ~ Idle
    BY <1>9 DEF Close, Continue
  <2>2. \/ UNCHANGED <<focusVars, flags>> /\ Event(Rest \o At("unfocus", None))
        \/ SetFocus(Rest, None)
    BY <1>9 DEF Close
  <2> QED
    BY <1>3, <1>4, <1>5, <1>6, <2>1, <2>2 DEF Goal
<1>10. CASE \E c \in Exists \cup {None} : MoveFocus(c)
  BY <1>2, <1>5, <1>10 DEF MoveFocus, Goal
<1>11. CASE Killed
  <2>1. ~ Idle /\ FocusOn(Rest, Local, None) /\ Last(stack).at = "killed"
    BY <1>11 DEF Killed, Continue
  <2>2. Taking /\ Local \in Exists \cup {None}
    BY <2>1, LastSound DEF Taking, Local, Sound, Stack
  <2>3. ~ reentered => Nobody
    BY <2>2 DEF FocusInv
  <2>4. Kept(Rest, Loud)
    BY <1>3, <2>1
  <2> QED
    BY <1>1, <2>1, <2>2, <2>3, <2>4, FocusOnStep DEF Goal
<1> QED
  BY <1>7, <1>8, <1>9, <1>10, <1>11 DEF FocusAction, Goal

LEMMA AttachDialogStep ==
    ASSUME ControlTypes, FocusInv, Pointers, Stack, NEW c \in Controls, AttachDialog(c)
    PROVE  /\ focus' \in Exists \cup {None} /\ FlagTypes' /\ reentered' \in BOOLEAN
           /\ Kept(stack', Loud \cup {[at |-> "attach", c |-> c]}) /\ FocusInv'
<1> DEFINE e == [at |-> "attach", c |-> c]
           F == Loud \cup {e}
<1>1. e \in F \cap Frame /\ e \in Calm
  BY DEF Frame, Calm
<1>2. Kept(stack, F) /\ Kept(stack, Calm)
  BY KeptAll DEF Stack
<1>3. Kept(stack \o At("attach", c), F) /\ Kept(stack \o At("attach", c), Calm)
  BY <1>1, <1>2, KeptPush
<1>4. SetFocus(stack \o At("attach", c), None)
  BY DEF AttachDialog
<1>5. Quiet \cup Killing \subseteq F
  BY DEF Loud
<1> HIDE DEF F
<1>6. /\ focus' \in Exists \cup {None} /\ FlagTypes' /\ reentered' \in BOOLEAN
      /\ Kept(stack', F) /\ FocusInv'
  BY <1>3, <1>4, <1>5, SetFocusStep
<1> QED
  BY <1>6 DEF F

-----------------------------------------------------------------------------
(* The stack.                                                               *)
Open == {f \in Frame : f.at # "attach" /\ f.c \in Exists \cup {None}}

Attaching == \E c \in Controls : AttachDialog(c)

LEMMA OpenFrames ==
    ASSUME NEW c \in Exists \cup {None}, NEW w \in {"killed", "needed", "left", "entered", "wheel"}
    PROVE  [at |-> w, c |-> c] \in Open \cap Frame
  BY DEF Open, Frame, Exists

LEMMA StackNext ==
    ASSUME ControlTypes, FocusInv, Pointers, Stack, Next, ~ Attaching
    PROVE  Kept(stack', Open)
<1>1. Quiet \subseteq Open /\ Loud \subseteq Open
  BY DEF Quiet, Loud, Killing, Open
<1>2. Kept(stack, Open)
  BY KeptAll DEF Stack
<1>3. ASSUME ~ Idle PROVE Kept(Rest, Open)
  BY <1>3, KeptRest DEF Stack
<1>4. ASSUME NEW s, Kept(s, Open), NEW c \in Exists \cup {None},
             NEW w \in {"killed", "needed", "left", "entered", "wheel"}
      PROVE  Kept(s \o At(w, c), Open)
  BY <1>4, OpenFrames, KeptPush
<1>5. ASSUME NEW s, Kept(s, Open), Event(s) PROVE Kept(stack', Open)
  BY <1>1, <1>5, KeptEvent
<1>6. ASSUME NEW s, Kept(s, Open), NEW c \in Exists \cup {None}, NEW old, Enter(s, c, old)
      PROVE  Kept(stack', Open)
  <2>1. \/ Event(s \o At("entered", c)) \/ Event(s) \/ stack' = s
    BY <1>6 DEF Enter, Move
  <2> QED
    BY <1>4, <1>5, <1>6, <2>1
<1>7. CASE NoPush
  BY <1>2, <1>7, NoPushStack
<1>8. CASE Pop
  BY <1>3, <1>8, PopStack
<1>9. CASE Send
  BY <1>1, <1>9, SendStack, KeptMore
<1>10. CASE FocusAction
  <2>1. Kept(stack', Loud)
    BY <1>10, FocusActionStep
  <2> QED
    BY <1>1, <2>1, KeptMore
<1>11. CASE Down
  BY <1>3, <1>5, <1>11 DEF Down, Continue
<1>12. CASE Entered
  BY <1>3, <1>5, <1>12 DEF Entered, Move, Continue
<1>13. CASE Left
  <2>1. ~ Idle /\ Enter(Rest, Local, None) /\ Last(stack).at = "left"
    BY <1>13 DEF Left, Continue
  <2>2. Local \in Exists \cup {None}
    BY <2>1, LastSound DEF Local, Sound
  <2> QED
    BY <1>3, <1>6, <2>1, <2>2
<1>14. CASE SetFocusNeeded
  <2>1. Event(stack \o At("needed", None)) \/ UNCHANGED stack
    BY <1>14 DEF SetFocusNeeded
  <2> QED
    BY <1>2, <1>4, <1>5, <2>1
<1>15. CASE MouseMoved
  <2>1. PICK c \in Exists \cup {None}, s \in {stack, Rest} :
             (s = stack \/ ~ Idle) /\ MouseMoves(s, c)
    BY <1>15, MouseMovedFacts
  <2>2. Kept(s, Open)
    BY <1>2, <1>3, <2>1
  <2> QED
    BY <1>4, <1>5, <2>1, <2>2, MoveFacts
<1>16. CASE \E c \in Controls : SetInternVisible(c)
  <2>1. Event(stack \o At("killed", None)) \/ UNCHANGED stack
    BY <1>16 DEF SetInternVisible
  <2> QED
    BY <1>2, <1>4, <1>5, <2>1
<1>17. CASE Turned
  <2>1. Event(stack \o At("wheel", None))
    BY <1>17 DEF Turned, WM_MOUSEWHEEL
  <2> QED
    BY <1>2, <1>4, <1>5, <2>1
<1> QED
  BY Actions, <1>7, <1>8, <1>9, <1>10, <1>11, <1>12, <1>13, <1>14, <1>15, <1>16, <1>17
     DEF Attaching

LEMMA AttachingStack ==
    ASSUME ControlTypes, Stack, NEW c \in Controls, AttachDialog(c)
    PROVE  \E s \in Seq({f \in Frame : f.at # "attach" /\ f.c = None}) :
              stack' = (stack \o At("attach", c)) \o s
<1> DEFINE below == stack \o At("attach", c)
           Fill  == {f \in Frame : f.at # "attach" /\ f.c = None}
<1>1. SetFocus(below, None)
  BY DEF AttachDialog
<1>2. below \in Seq(Frame)
  <2>1. [at |-> "attach", c |-> c] \in Frame
    BY DEF Frame
  <2> QED
    BY <2>1 DEF At, Stack
<1> HIDE DEF below
<1>3. \/ stack' = below
      \/ stack' = below \o At("event", None)
      \/ stack' = below \o At("killed", None) \o At("event", None)
  BY <1>1 DEF SetFocus, FocusOn, Event
<1>4. [at |-> "event", c |-> None] \in Fill /\ [at |-> "killed", c |-> None] \in Fill
  BY DEF Frame
<1> HIDE DEF Fill
<1>5. CASE stack' = below
  <2>1. << >> \in Seq(Fill) /\ stack' = below \o << >>
    BY <1>2, <1>5
  <2> QED
    BY <2>1 DEF below, Fill
<1>6. CASE stack' = below \o At("event", None)
  <2>1. At("event", None) \in Seq(Fill)
    BY <1>4 DEF At
  <2> QED
    BY <1>6, <2>1 DEF below, Fill
<1>7. CASE stack' = below \o At("killed", None) \o At("event", None)
  <2>1. At("event", None) \in Seq(Fill) /\ At("killed", None) \in Seq(Fill)
    BY <1>4 DEF At
  <2>2. At("killed", None) \o At("event", None) \in Seq(Fill)
    BY <2>1
  <2>3. \A s, t \in Seq(Fill) : (below \o s) \o t = below \o (s \o t)
    <3>1. \A s \in Seq(Fill) : s \in Seq(Frame)
      BY DEF Fill
    <3> QED
      BY <1>2, <3>1
  <2>4. stack' = below \o (At("killed", None) \o At("event", None))
    BY <1>7, <2>1, <2>3
  <2> QED
    BY <2>2, <2>4 DEF below, Fill
<1> QED
  BY <1>3, <1>5, <1>6, <1>7

-----------------------------------------------------------------------------
(* What is there.                                                           *)
StatusAction ==
    Attach \/ \E c \in Controls : Add(c) \/ BoxRemove(c) \/ Destroy(c)

LEMMA StatusNext == Next => StatusAction \/ UNCHANGED status
<1>1. Send => UNCHANGED status
  BY DEF Send, WM_LBUTTONDBLCLK, WM_RBUTTONUP, WM_LBUTTONUP, WM_CONTEXTMENU, WM_KEYDOWN,
         WM_KEYUP, Forward, WM_TIMER
<1>2. Pop => Attach \/ UNCHANGED status
  BY DEF Pop, Needed, Press, Unclick, Keydown, Keyup, Return
<1>3. NoPush => StatusAction \/ UNCHANGED status
  BY DEF NoPush, StatusAction, SetVisible, SetEnabled, SetTimer, KillTimer
<1>4. FocusAction => UNCHANGED status
  BY DEF FocusAction, ButtonDown, WM_LBUTTONDOWN, WM_RBUTTONDOWN, WM_CLOSE, Killed, Close, MoveFocus
<1>5. Down \/ Entered \/ Left \/ SetFocusNeeded => UNCHANGED status
  BY DEF Down, Entered, Left, SetFocusNeeded
<1>6. Turned \/ (\E c \in Controls : AttachDialog(c) \/ SetInternVisible(c)) => UNCHANGED status
  BY DEF Turned, WM_MOUSEWHEEL, AttachDialog, SetInternVisible
<1>7. MouseMoved => UNCHANGED status
  BY MouseMovedFacts
<1> QED
  BY Actions, <1>1, <1>2, <1>3, <1>4, <1>5, <1>6, <1>7 DEF StatusAction

(* Nothing but Destroy makes a control disappear, and then no activation    *)
(* holds it.                                                                *)
LEMMA AttachLocal ==
    ASSUME Stack, Attach
    PROVE  /\ ~ Idle /\ Last(stack).at = "attach" /\ Local \in Controls \ Exists
           /\ Last(stack) = [at |-> "attach", c |-> Local]
<1>1. ~ Idle /\ Last(stack).at = "attach"
  BY DEF Attach, Continue
<1>2. Last(stack) \in Sound
  BY <1>1, LastSound
<1> QED
  BY <1>1, <1>2 DEF Sound, Frame, Local

LEMMA StatusTypes == ControlTypes /\ Stack /\ Next
                     => status' \in [Controls -> {"none", "tree", "cleanup"}]
<1>1. ControlTypes /\ (\E c \in Controls : Add(c) \/ BoxRemove(c) \/ Destroy(c))
      => status' \in [Controls -> {"none", "tree", "cleanup"}]
  BY DEF ControlTypes, Add, BoxRemove, Destroy, Reap
<1>2. ControlTypes /\ Attach => status' \in [Controls -> {"none", "tree", "cleanup"}]
  BY DEF ControlTypes, Attach
<1> QED
  BY StatusNext, <1>1, <1>2 DEF ControlTypes, StatusAction

LEMMA ExistsGrows ==
    ASSUME ControlTypes, Stack, Next, ~ (\E c \in Controls : Destroy(c))
    PROVE  Exists \subseteq Exists'
<1>1. CASE UNCHANGED status
  BY <1>1 DEF Exists
<1>2. CASE \E c \in Controls : Add(c) \/ BoxRemove(c)
  BY <1>2 DEF Add, BoxRemove, Exists, ControlTypes
<1>3. CASE Attach
  BY <1>3 DEF Attach, Exists, ControlTypes
<1> QED
  BY StatusNext, <1>1, <1>2, <1>3 DEF StatusAction

LEMMA FrameNext ==
    ASSUME ControlTypes, FocusInv, Pointers, Stack, FrameInv, Next PROVE FrameInv' /\ Stack'
<1>0. stack \in Seq(Frame)
  BY DEF Stack
<1>1. CASE \E c \in Controls : Destroy(c)
  <2>1. stack = << >> /\ stack' = stack
    BY <1>1 DEF Destroy, Idle, Reap
  <2> QED
    BY <2>1, <1>0 DEF FrameInv, Stack
<1>2. ASSUME NEW c \in Controls, AttachDialog(c) PROVE FrameInv' /\ Stack'
  <2> DEFINE e    == [at |-> "attach", c |-> c]
             Fill == {f \in Frame : f.at # "attach" /\ f.c = None}
  <2>1. status' = status /\ New(c)
    BY <1>2 DEF AttachDialog
  <2>2. Exists' = Exists /\ c \notin Exists
    BY <2>1 DEF Exists, New
  <2>3. PICK s \in Seq(Fill) : stack' = (stack \o At("attach", c)) \o s
    BY <1>2, AttachingStack
  <2>4. e \in Frame /\ e \in Sound' /\ At("attach", c) = <<e>> /\ e.at = "attach"
    BY <2>2 DEF Frame, Sound, At
  <2>5. Fill \subseteq Frame /\ Fill \subseteq Sound' /\ \A f \in Fill : f.at # "attach"
    BY DEF Sound
  <2>6. \A k \in DOMAIN stack : stack[k] # e /\ stack[k] \in Sound'
    BY <2>1, <2>2, <2>4 DEF New, Stack, Sound
  <2>11. s \in Seq(Frame)
    OBVIOUS
  <2> HIDE DEF e, Fill
  <2>7. s \in Seq(Frame) /\ stack' = (stack \o <<e>>) \o s
    BY <2>3, <2>4, <2>11
  <2>8. \A k \in DOMAIN stack' :
          \/ k \in DOMAIN stack /\ stack'[k] = stack[k]
          \/ k = Len(stack) + 1 /\ stack'[k] = e
          \/ stack'[k] \in Fill
    BY <1>0, <2>4, <2>7, <2>3
  <2>9. stack' \in Seq(Frame) /\ \A k \in DOMAIN stack' : stack'[k] \in Sound'
    BY <1>0, <2>4, <2>5, <2>6, <2>7, <2>8
  <2>10. ASSUME NEW j \in DOMAIN stack', NEW k \in DOMAIN stack',
                stack'[j].at = "attach", stack'[j] = stack'[k]
         PROVE  j = k
    <3>1. stack'[j] \notin Fill /\ stack'[k] \notin Fill
      BY <2>5, <2>10
    <3> QED
      BY <2>6, <2>8, <2>10, <3>1 DEF FrameInv
  <2> QED
    BY <2>9, <2>10 DEF FrameInv, Stack
<1>3. CASE ~ Attaching /\ ~ (\E c \in Controls : Destroy(c))
  <2>1. Kept(stack', Open)
    BY <1>3, StackNext
  <2>2. stack' \in Seq(Frame)
    BY <2>1 DEF Kept
  <2>3. \A k \in DOMAIN stack' : \/ k \in DOMAIN stack /\ stack'[k] = stack[k]
                                 \/ stack'[k] \in Open
    BY <1>0, <2>1, <2>2 DEF Kept
  <2>4. Exists \subseteq Exists'
    BY <1>3, ExistsGrows
  <2>5. Open \subseteq Sound'
    BY <2>4 DEF Open, Sound
  <2>6. \A j, k \in DOMAIN stack' : stack'[j].at = "attach" /\ stack'[j] = stack'[k] => j = k
    BY <2>3 DEF FrameInv, Open
  <2>7. ASSUME NEW k \in DOMAIN stack', k \in DOMAIN stack, stack'[k] = stack[k]
        PROVE  stack'[k] \in Sound'
    <3>1. stack[k] \in Sound
      BY <2>7 DEF FrameInv
    <3>2. CASE stack[k].at # "attach"
      BY <2>4, <2>7, <3>1, <3>2 DEF Sound
    <3>3. CASE stack[k].at = "attach" /\ UNCHANGED status
      BY <2>7, <3>1, <3>3 DEF Sound, Exists
    <3>4. CASE stack[k].at = "attach" /\ \E c \in Controls : BoxRemove(c) \/ Add(c)
      <4>1. PICK c \in Controls : BoxRemove(c) \/ Add(c)
        BY <3>4
      <4>2. stack[k] = [at |-> "attach", c |-> stack[k].c]
        BY <3>1, <3>4 DEF Sound, Frame
      <4>3. CASE Add(c)
        <5>1. stack[k] # [at |-> "attach", c |-> c]
          BY <4>3, <2>7 DEF Add, New, At
        <5>2. stack[k].c # c
          BY <4>2, <5>1
        <5>3. Exists' = Exists \cup {c}
          BY <4>3 DEF Add, Exists, ControlTypes
        <5> QED
          BY <2>7, <3>1, <3>4, <5>2, <5>3 DEF Sound
      <4>4. CASE BoxRemove(c)
        <5>1. Exists' = Exists
          BY <4>4 DEF BoxRemove, Exists, ControlTypes
        <5> QED
          BY <2>7, <3>1, <5>1 DEF Sound
      <4> QED
        BY <4>1, <4>3, <4>4
    <3>5. CASE stack[k].at = "attach" /\ Attach
      <4>1. stack' = Rest /\ ~ Idle
        BY <3>5 DEF Attach, Continue
      <4>2. k # Len(stack)
        BY <1>0, <2>7, <4>1 DEF Rest, Front, Idle
      <4>3. stack[k] # stack[Len(stack)]
        BY <1>0, <2>7, <3>5, <4>1, <4>2 DEF FrameInv, Idle
      <4>4. stack[k] = [at |-> "attach", c |-> stack[k].c]
        BY <3>1, <3>5 DEF Sound, Frame
      <4>5. stack[k].c # Local
        BY <3>5, <4>3, <4>4, AttachLocal, LastSound
      <4>6. Exists' = Exists \cup {Local}
        BY <3>5, AttachLocal DEF Attach, Exists, InTree, ControlTypes
      <4> QED
        BY <2>7, <3>1, <3>5, <4>5, <4>6 DEF Sound
    <3> QED
      BY <1>3, StatusNext, <3>2, <3>3, <3>4, <3>5 DEF StatusAction
  <2>8. \A k \in DOMAIN stack' : stack'[k] \in Sound'
    BY <2>3, <2>5, <2>7
  <2> QED
    BY <2>2, <2>6, <2>8 DEF FrameInv, Stack
<1> QED
  BY <1>1, <1>2, <1>3 DEF Attaching

-----------------------------------------------------------------------------
(* The pointers.                                                            *)
LEMMA PointersNext ==
    ASSUME ControlTypes, FocusInv, Pointers, Stack, Next PROVE Pointers'
<1> USE DEF Pointers, pointers, focusVars, mouseVars
<1> DEFINE Goal == {focus', hover', click', key'} \subseteq Exists \cup {None}
<1>1. ASSUME ~ (\E c \in Controls : Destroy(c)), Goal PROVE Pointers'
  BY <1>1, ExistsGrows
<1>2. ASSUME NEW c \in Controls, Destroy(c) PROVE Pointers'
  <2>1. Exists' = Exists \ {c}
    BY <1>2 DEF Destroy, Reap, Exists, ControlTypes
  <2>2. \A p \in {focus', hover', click', key'} :
           p \in {focus, hover, click, key} \cup {None} /\ p # c
    BY <1>2, NoneAssumption DEF Destroy, Reap
  <2> QED
    BY <2>1, <2>2
<1>3. ASSUME NoPush, ~ (\E c \in Controls : Destroy(c)) PROVE Goal
  BY <1>3 DEF NoPush, Add, BoxRemove, SetVisible, SetEnabled, SetTimer, KillTimer
<1>4. ASSUME Pop PROVE Goal
  <2>1. CASE Keyup \/ Unclick \/ Keydown \/ Return \/ Attach
    BY <1>4, <2>1 DEF Keyup, Unclick, Keydown, Return, Attach
  <2>2. CASE Needed
    BY <2>2 DEF Needed, InTree, Exists
  <2>3. CASE Press
    <3>1. Local \in Exists \cup {None}
      BY <2>3, LastSound DEF Press, Continue, Local, Sound
    <3> QED
      BY <2>3, <3>1 DEF Press
  <2> QED
    BY <1>4, <2>1, <2>2, <2>3 DEF Pop
<1>5. ASSUME Send PROVE Goal
  BY <1>5, FindControlExists
     DEF Send, WM_LBUTTONDBLCLK, WM_RBUTTONUP, WM_LBUTTONUP, WM_CONTEXTMENU, WM_KEYDOWN,
         WM_KEYUP, Forward, WM_TIMER
<1>6. ASSUME FocusAction PROVE Goal
  <2>1. focus' \in Exists \cup {None}
    BY <1>6, FocusActionStep
  <2>2. {hover', click', key'} \subseteq Exists \cup {None}
    <3>1. CASE ButtonDown
      BY <3>1, FindControlExists DEF ButtonDown, WM_LBUTTONDOWN, WM_RBUTTONDOWN
    <3>2. CASE WM_CLOSE
      BY <3>2 DEF WM_CLOSE
    <3>3. CASE Killed \/ Close \/ \E c \in Exists \cup {None} : MoveFocus(c)
      BY <3>3 DEF Killed, Close, MoveFocus
    <3> QED
      BY <1>6, <3>1, <3>2, <3>3 DEF FocusAction
  <2> QED
    BY <2>1, <2>2
<1>7. ASSUME Down \/ Entered \/ Left PROVE Goal
  <2>1. CASE Down
    BY <2>1 DEF Down
  <2>2. CASE Entered
    <3>1. Local \in Exists \cup {None}
      BY <2>2, LastSound DEF Entered, Continue, Local, Sound
    <3> QED
      BY <2>2, <3>1 DEF Entered
  <2>3. CASE Left
    BY <2>3 DEF Left, Enter
  <2> QED
    BY <1>7, <2>1, <2>2, <2>3
<1>8. ASSUME SetFocusNeeded PROVE Goal
  BY <1>8 DEF SetFocusNeeded, InTree, Exists
<1>9. ASSUME MouseMoved \/ Turned PROVE Goal
  <2>1. CASE MouseMoved
    BY <2>1, MouseMovedFacts, MoveFacts
  <2>2. CASE Turned
    BY <2>2 DEF Turned, WM_MOUSEWHEEL
  <2> QED
    BY <1>9, <2>1, <2>2
<1>10. ASSUME NEW c \in Controls, AttachDialog(c) \/ SetInternVisible(c) PROVE Goal
  <2>1. CASE SetInternVisible(c)
    BY <2>1 DEF SetInternVisible
  <2>2. CASE AttachDialog(c)
    <3>1. focus' \in Exists \cup {None}
      BY <2>2, AttachDialogStep
    <3> QED
      BY <2>2, <3>1 DEF AttachDialog
  <2> QED
    BY <1>10, <2>1, <2>2
<1> HIDE DEF Goal
<1>11. Goal \/ \E c \in Controls : Destroy(c)
  BY Actions, <1>3, <1>4, <1>5, <1>6, <1>7, <1>8, <1>9, <1>10
<1> QED
  BY <1>1, <1>2, <1>11

LEMMA FlagNext ==
    ASSUME ControlTypes, FocusInv, Pointers, Stack, Next
    PROVE  FlagTypes' /\ reentered' \in BOOLEAN /\ nested' \in BOOLEAN
<1> USE DEF ControlTypes, FlagTypes, focusVars
<1>1. nested' \in BOOLEAN
  <2>1. Messages => nested' \in BOOLEAN
    BY DEF Messages, Receive, Dispatch, WM_MOUSEMOVE, WM_MOUSEWHEEL, WM_LBUTTONDOWN,
           WM_RBUTTONDOWN, WM_LBUTTONDBLCLK, WM_RBUTTONUP, WM_LBUTTONUP, WM_CONTEXTMENU,
           WM_KEYDOWN, WM_KEYUP, WM_CLOSE, Forward, WM_TIMER
  <2>2. Calls => UNCHANGED nested
    BY DEF Calls, SetFocusNeeded, MoveFocus, Add, BoxRemove, Destroy, Reap, AttachDialog,
           SetVisible, SetInternVisible, SetEnabled, SetTimer, KillTimer
  <2>3. Resume => UNCHANGED nested
    BY DEF Resume, Wheel, Killed, Needed, Left, Entered, Down, Press, Unclick, Keydown, Keyup,
           Close, Attach, Return
  <2> QED
    BY <2>1, <2>2, <2>3 DEF Next
<1>2. ASSUME FocusAction \/ \E c \in Controls : AttachDialog(c)
      PROVE  FlagTypes' /\ reentered' \in BOOLEAN
  BY <1>2, FocusActionStep, AttachDialogStep
<1>3. ASSUME NoPush PROVE FlagTypes' /\ reentered' \in BOOLEAN
  <2>1. CASE \E c \in Controls : Add(c) \/ BoxRemove(c)
    BY <2>1 DEF Add, BoxRemove, Fresh
  <2>2. CASE \E c \in Controls : Destroy(c)
    BY <2>2 DEF Destroy, Reap
  <2>3. CASE \E c \in Controls : SetVisible(c) \/ SetEnabled(c)
    BY <2>3 DEF SetVisible, SetEnabled, SymDiff, Fresh
  <2>4. CASE \E t \in Timers : SetTimer(t[1], t[2]) \/ KillTimer(t[1], t[2])
    BY <2>4 DEF SetTimer, KillTimer
  <2> QED
    BY <1>3, <2>1, <2>2, <2>3, <2>4 DEF NoPush
<1>4. ASSUME Pop \/ Down \/ Entered \/ Left PROVE FlagTypes' /\ reentered' \in BOOLEAN
  BY <1>4 DEF Pop, Needed, Press, Unclick, Keydown, Keyup, Attach, Return, Down, Entered, Left
<1>5. ASSUME Send PROVE FlagTypes' /\ reentered' \in BOOLEAN
  BY <1>5 DEF Send, WM_LBUTTONDBLCLK, WM_RBUTTONUP, WM_LBUTTONUP, WM_CONTEXTMENU, WM_KEYDOWN,
         WM_KEYUP, Forward, WM_TIMER
<1>6. ASSUME SetFocusNeeded \/ Turned \/ \E c \in Controls : SetInternVisible(c)
      PROVE  FlagTypes' /\ reentered' \in BOOLEAN
  BY <1>6 DEF SetFocusNeeded, Turned, WM_MOUSEWHEEL, SetInternVisible, SymDiff, Fresh
<1>7. ASSUME MouseMoved PROVE FlagTypes' /\ reentered' \in BOOLEAN
  BY <1>7, MouseMovedFacts
<1> HIDE DEF FlagTypes
<1> QED
  BY Actions, <1>1, <1>2, <1>3, <1>4, <1>5, <1>6, <1>7

-----------------------------------------------------------------------------
(* FocusInv.                                                                *)
LEMMA FocusKept ==
    ASSUME FocusInv, Kept(stack', Calm), reentered' = reentered,
           \A c \in Controls : "focused" \in flags'[c] =>
              "focused" \in flags[c] /\ (focus = c => focus' = c)
    PROVE  FocusInv'
<1>1. Taking' => Taking
  BY CalmTaking DEF Taking
<1> QED
  BY <1>1 DEF FocusInv, FocusIsOne, Nobody

LEMMA PushCalm ==
    ASSUME Stack, NEW s, Kept(s, Calm), Event(s) PROVE Kept(stack', Calm)
  BY QuietCalm, KeptEvent

LEMMA FocusNext ==
    ASSUME ControlTypes, FocusInv, Pointers, Stack, Next PROVE FocusInv'
<1>0. Kept(stack, Calm) /\ (~ Idle => Kept(Rest, Calm))
  BY KeptAll, KeptRest DEF Stack
<1>1. ASSUME NEW s, Kept(s, Calm), NEW w \in {"left", "entered", "wheel"},
             NEW c \in Exists \cup {None}
      PROVE  Kept(s \o At(w, c), Calm)
  <2>1. [at |-> w, c |-> c] \in Calm \cap Frame
    BY DEF Calm, Frame, Exists
  <2> QED
    BY <1>1, <2>1, KeptPush
<1>2. ASSUME Kept(stack', Calm), UNCHANGED <<flags, focusVars>> PROVE FocusInv'
  BY <1>2, FocusKept DEF focusVars
<1>3. CASE FocusAction \/ \E c \in Controls : AttachDialog(c)
  BY <1>3, FocusActionStep, AttachDialogStep
<1>4. CASE NoPush
  <2>1. Kept(stack', Calm)
    BY <1>0, <1>4, NoPushStack
  <2>2. reentered' = reentered
    BY <1>4 DEF NoPush, Add, BoxRemove, Destroy, Reap, SetVisible, SetEnabled, SetTimer,
                KillTimer, focusVars
  <2>3. ASSUME NEW d \in Controls, "focused" \in flags'[d]
        PROVE  "focused" \in flags[d] /\ (focus = d => focus' = d)
    <3> USE <2>3 DEF ControlTypes, focusVars
    <3>1. CASE \E c \in Controls : Add(c)
      BY <3>1 DEF Add, Fresh
    <3>2. CASE \E c \in Controls : Destroy(c)
      BY <3>2 DEF Destroy, Reap
    <3>3. CASE \E c \in Controls : SetVisible(c)
      BY <3>3 DEF SetVisible, SymDiff
    <3>4. CASE \E c \in Controls : SetEnabled(c)
      BY <3>4 DEF SetEnabled, SymDiff
    <3>5. CASE (\E c \in Controls : BoxRemove(c))
               \/ \E t \in Timers : SetTimer(t[1], t[2]) \/ KillTimer(t[1], t[2])
      BY <3>5 DEF BoxRemove, SetTimer, KillTimer
    <3> QED
      BY <1>4, <3>1, <3>2, <3>3, <3>4, <3>5 DEF NoPush
  <2> QED
    BY <2>1, <2>2, <2>3, FocusKept
<1>5. CASE Pop
  <2>1. Kept(stack', Calm)
    BY <1>0, <1>5, PopStack
  <2>2. CASE Press \/ Unclick \/ Keydown \/ Keyup \/ Return
    BY <1>2, <2>1, <2>2 DEF Press, Unclick, Keydown, Keyup, Return
  <2>3. CASE Needed
    <3>1. UNCHANGED <<flags, reentered>> /\ Last(stack).at = "needed" /\ ~ Idle
      BY <2>3 DEF Needed, Continue
    <3>2. Taking
      BY <3>1, LastSound DEF Taking, Stack
    <3> QED
      BY <3>1, <3>2 DEF FocusInv, FocusIsOne, Nobody
  <2>4. CASE Attach
    <3>1. reentered' = reentered
      BY <2>4 DEF Attach, focusVars
    <3>2. ASSUME NEW d \in Controls, "focused" \in flags'[d]
          PROVE  "focused" \in flags[d] /\ (focus = d => focus' = d)
      BY <2>4, <3>2 DEF Attach, focusVars, ControlTypes, Fresh
    <3> QED
      BY <2>1, <3>1, <3>2, FocusKept
  <2> QED
    BY <1>5, <2>2, <2>3, <2>4 DEF Pop
<1>6. CASE Send
  <2>1. Kept(stack', Calm)
    BY <1>6, SendStack, QuietCalm, KeptMore
  <2>2. UNCHANGED <<flags, focusVars>>
    BY <1>6 DEF Send, WM_LBUTTONDBLCLK, WM_RBUTTONUP, WM_LBUTTONUP, WM_CONTEXTMENU, WM_KEYDOWN,
                WM_KEYUP, Forward, WM_TIMER
  <2> QED
    BY <1>2, <2>1, <2>2
<1>7. CASE Down \/ Entered
  <2>1. stack' = Rest \/ Event(Rest)
    BY <1>7 DEF Down, Entered, Move
  <2>2. ~ Idle /\ UNCHANGED <<flags, focusVars>>
    BY <1>7 DEF Down, Entered, Continue
  <2> QED
    BY <1>0, <1>2, <2>1, <2>2, PushCalm
<1>8. CASE Left
  <2>1. ~ Idle /\ Last(stack).at = "left" /\ UNCHANGED <<flags, focusVars>>
    BY <1>8 DEF Left, Continue
  <2>2. Local \in Exists \cup {None}
    BY <2>1, LastSound DEF Local, Sound
  <2>3. stack' = Rest \/ Event(Rest) \/ Event(Rest \o At("entered", Local))
    BY <1>8 DEF Left, Enter, Move
  <2> QED
    BY <1>0, <1>1, <1>2, <2>1, <2>2, <2>3, PushCalm
<1>9. CASE MouseMoved
  <2>1. PICK c \in Exists \cup {None}, s \in {stack, Rest} :
             (s = stack \/ ~ Idle) /\ MouseMoves(s, c) /\ UNCHANGED <<flags, focusVars>>
    BY <1>9, MouseMovedFacts
  <2>2. Kept(s, Calm)
    BY <1>0, <2>1
  <2> QED
    BY <1>1, <1>2, <2>1, <2>2, MoveFacts, PushCalm
<1>12. CASE Turned
  <2>1. Event(stack \o At("wheel", None)) /\ UNCHANGED <<flags, focusVars>>
    BY <1>12 DEF Turned, WM_MOUSEWHEEL
  <2> QED
    BY <1>0, <1>1, <1>2, <2>1, PushCalm
<1>10. CASE SetFocusNeeded
  <2>1. reentered' = reentered
    BY <1>10 DEF SetFocusNeeded
  <2>2. CASE focus # None
    <3>1. flags' = [flags EXCEPT ![focus] = @ \ {"focused"}] /\ focus' = focus
      BY <1>10, <2>2 DEF SetFocusNeeded
    <3> QED
      BY <2>1, <3>1 DEF FocusInv, FocusIsOne, Nobody, ControlTypes
  <2>3. CASE focus = None
    <3>1. UNCHANGED <<flags, stack>>
      BY <1>10, <2>3 DEF SetFocusNeeded
    <3>2. ~ reentered => Nobody
      BY <2>3, NoneAssumption DEF FocusInv, FocusIsOne, Nobody
    <3> QED
      BY <2>1, <3>1, <3>2 DEF FocusInv, FocusIsOne, Nobody
  <2> QED
    BY <2>2, <2>3
<1>11. CASE \E c \in Controls : SetInternVisible(c)
  <2>1. PICK c \in Controls : SetInternVisible(c)
    BY <1>11
  <2>2. UNCHANGED <<focus, reentered>>
    BY <2>1 DEF SetInternVisible, focusVars
  <2>3. CASE {"intern", "focused"} \subseteq flags[c] /\ focus = c
    <3>1. flags' = [flags EXCEPT ![c] = @ \ {"intern", "focused"}]
      BY <2>1, <2>3 DEF SetInternVisible
    <3> QED
      BY <2>2, <2>3, <3>1 DEF FocusInv, FocusIsOne, Nobody, ControlTypes
  <2>4. CASE ~ ({"intern", "focused"} \subseteq flags[c] /\ focus = c)
    <3>1. flags' = [flags EXCEPT ![c] = SymDiff(@, {"intern"})] /\ stack' = stack
      BY <2>1, <2>4 DEF SetInternVisible
    <3>2. ASSUME NEW d \in Controls, "focused" \in flags'[d] PROVE "focused" \in flags[d]
      BY <3>1, <3>2 DEF SymDiff, ControlTypes
    <3> QED
      BY <1>0, <2>2, <3>1, <3>2, FocusKept
  <2> QED
    BY <2>3, <2>4
<1> QED
  BY Actions, <1>3, <1>4, <1>5, <1>6, <1>7, <1>8, <1>9, <1>10, <1>11, <1>12

-----------------------------------------------------------------------------
(* The timers.                                                              *)
TimerInv == TimersAsAsked /\ IdInv /\ \A y \in timers : y.sender \in Exists

LEMMA TimerActions ==
    Next => \/ UNCHANGED timerVars
            \/ \E c \in Controls : Destroy(c)
            \/ \E t \in Timers : SetTimer(t[1], t[2]) \/ KillTimer(t[1], t[2])
<1>1. Messages => UNCHANGED timerVars
  BY DEF Messages, WM_MOUSEMOVE, WM_MOUSEWHEEL, WM_LBUTTONDOWN, WM_RBUTTONDOWN,
         WM_LBUTTONDBLCLK, WM_RBUTTONUP, WM_LBUTTONUP, WM_CONTEXTMENU, WM_KEYDOWN, WM_KEYUP, WM_CLOSE, Forward,
         WM_TIMER
<1>2. Calls => \/ UNCHANGED timerVars
               \/ \E c \in Controls : Destroy(c)
               \/ \E t \in Timers : SetTimer(t[1], t[2]) \/ KillTimer(t[1], t[2])
  BY DEF Calls, SetFocusNeeded, MoveFocus, Add, BoxRemove, AttachDialog, SetVisible,
         SetInternVisible, SetEnabled
<1>3. Resume => UNCHANGED timerVars
  BY DEF Resume, Wheel, Killed, Needed, Left, Entered, Down, Press, Unclick, Keydown, Keyup,
         Close, Attach, Return
<1> QED
  BY <1>1, <1>2, <1>3 DEF Next

(* timer_id_ + 1, kept below Modulus.                                       *)
LEMMA NextIdFacts ==
    /\ First \in 0..Modulus - 1
    /\ timerId = 4096 => NextTimerId = First
    /\ timerId \in 0..Modulus - 1 =>
          NextTimerId = IF timerId + 1 = Modulus THEN 0 ELSE timerId + 1
<1> USE BoundsAssumption
<1>1. \A m \in Nat \ {0} : 4097 % m \in 0..m - 1
  OBVIOUS
<1>2. \A m \in Nat \ {0} : m % m = 0
  OBVIOUS
<1>3. \A m \in Nat \ {0}, a \in Nat : a < m => a % m = a
  OBVIOUS
<1>4. timerId \in 0..Modulus - 1 => timerId + 1 = Modulus \/ timerId + 1 \in 0..Modulus - 1
  OBVIOUS
<1> QED
  BY <1>1, <1>2, <1>3, <1>4 DEF First, NextTimerId

(* The identifier that comes next is not in use yet.                        *)
LEMMA NextIdFresh ==
    ASSUME TimerTypes, IdInv
    PROVE  /\ NextTimerId \in 0..Modulus - 1
           /\ allocated + 1 <= Modulus => \A y \in timers : y.id # NextTimerId
           /\ /\ timerId' = NextTimerId /\ allocated' = allocated + 1
              /\ \A y \in timers' : y \in timers \/ y.id = NextTimerId
              => IdInv'
<1> USE BoundsAssumption, NextIdFacts DEF TimerTypes
<1> DEFINE n == NextTimerId
           F == First
<1>1. n \in 0..Modulus - 1
  BY DEF IdInv
<1>2. ASSUME allocated + 1 <= Modulus PROVE \A y \in timers : y.id # n
  BY <1>2 DEF IdInv, UsedIds, RunLength
<1>3. ASSUME timerId' = n, allocated' = allocated + 1,
             \A y \in timers' : y \in timers \/ y.id = n
      PROVE  IdInv'
  <2>1. CASE allocated = 0
    <3>1. timerId' = F /\ F \in 0..Modulus - 1 /\ timers = {} /\ allocated' = 1
      BY <1>3, <2>1 DEF IdInv
    <3>2. RunLength' = 1 /\ UsedIds' = {F}
      BY <3>1 DEF RunLength, UsedIds, First
    <3> QED
      BY <1>3, <3>1, <3>2 DEF IdInv
  <2>2. CASE allocated > 0
    <3>1. timerId \in 0..Modulus - 1 /\ allocated' > 0 /\ timerId' \in 0..Modulus - 1
      BY <1>1, <1>3, <2>2 DEF IdInv
    <3>2. ASSUME allocated' <= Modulus
          PROVE  allocated' = RunLength' /\ \A y \in timers' : y.id \in UsedIds'
      <4>1. allocated <= Modulus /\ allocated = RunLength /\ \A y \in timers : y.id \in UsedIds
        BY <1>3, <2>2, <3>2 DEF IdInv
      <4>2. First' = First
        BY DEF First
      <4>3. CASE timerId >= First
        <5>1. UsedIds = First..timerId /\ allocated = timerId - First + 1
          BY <4>1, <4>3 DEF UsedIds, RunLength
        <5>2. CASE timerId + 1 = Modulus
          <6>1. timerId' = 0 /\ First > 0
            BY <1>3, <3>1, <3>2, <5>1, <5>2
          <6>2. RunLength' = Modulus - First + 1 /\ UsedIds' = (0..0) \cup (First..Modulus - 1)
            BY <4>2, <6>1 DEF RunLength, UsedIds
          <6> QED
            BY <1>3, <4>1, <5>1, <5>2, <6>1, <6>2
        <5>3. CASE timerId + 1 # Modulus
          <6>1. timerId' = timerId + 1
            BY <1>3, <3>1, <5>3
          <6>2. RunLength' = timerId + 1 - First + 1 /\ UsedIds' = First..timerId + 1
            BY <3>1, <4>2, <4>3, <6>1 DEF RunLength, UsedIds
          <6> QED
            BY <1>3, <3>1, <4>1, <5>1, <6>1, <6>2
        <5> QED
          BY <5>2, <5>3
      <4>4. CASE timerId < First
        <5>1. /\ UsedIds = (0..timerId) \cup (First..Modulus - 1)
              /\ allocated = Modulus - First + timerId + 1
          BY <3>1, <4>1, <4>4 DEF UsedIds, RunLength
        <5>2. timerId' = timerId + 1 /\ timerId + 1 < First
          BY <1>3, <3>1, <3>2, <4>4, <5>1
        <5>3. /\ RunLength' = Modulus - First + timerId + 1 + 1
              /\ UsedIds' = (0..timerId + 1) \cup (First..Modulus - 1)
          BY <3>1, <4>2, <5>2 DEF RunLength, UsedIds
        <5> QED
          BY <1>3, <3>1, <4>1, <5>1, <5>2, <5>3
      <4> QED
        BY <3>1, <4>3, <4>4
    <3> QED
      BY <2>2, <3>1, <3>2 DEF IdInv
  <2> QED
    BY <2>1, <2>2
<1> QED
  BY <1>1, <1>2, <1>3

LEMMA Switched ==
    ASSUME NEW y \in TimerEntry, NEW b \in BOOLEAN
    PROVE  LET z == [y EXCEPT !.live = b] IN
           /\ z \in TimerEntry
           /\ z.sender = y.sender /\ z.local = y.local /\ z.id = y.id /\ z.live = b
           /\ y.live \in BOOLEAN /\ y.sender \in Controls /\ y.id \in 0..Modulus - 1
  BY DEF TimerEntry

(* A timer that was killed is armed again, or one that lives is killed.     *)
LEMMA SwitchStep ==
    ASSUME TimerTypes, TimersAsAsked, NEW y \in timers, NEW b \in BOOLEAN,
           y.live # b, Switch(y, b),
           wants' = IF b THEN wants \cup {<<y.sender, y.local>>}
                         ELSE wants \ {<<y.sender, y.local>>},
           osTimers' = IF b THEN osTimers \cup {y.id} ELSE osTimers \ {y.id},
           allocated' = allocated
    PROVE  TimersAsAsked'
<1> DEFINE z == [y EXCEPT !.live = b]
<1>1. /\ y \in TimerEntry
      /\ z.sender = y.sender /\ z.local = y.local /\ z.id = y.id /\ z.live = b
      /\ y.live \in BOOLEAN
  <2>1. y \in TimerEntry
    BY DEF TimerTypes
  <2>2. /\ z.sender = y.sender /\ z.local = y.local /\ z.id = y.id /\ z.live = b
        /\ y.live \in BOOLEAN
    BY <2>1 DEF TimerEntry
  <2> QED
    BY <2>1, <2>2
<1>2. timers' = (timers \ {y}) \cup {z}
  BY DEF Switch
<1> HIDE DEF z
<1>3. \A u \in timers' : u = z \/ (u \in timers /\ u # y)
  BY <1>2
<1>4. \A u \in timers : u # y => ~ (u.sender = y.sender /\ u.local = y.local)
  BY DEF TimersAsAsked
<1>5. \A u, v \in timers' : u.sender = v.sender /\ u.local = v.local => u = v
  BY <1>1, <1>3, <1>4 DEF TimersAsAsked
<1>6. Live' = IF b THEN Live \cup {z} ELSE Live \ {y}
  BY <1>1, <1>2 DEF Live
<1>7. {<<u.sender, u.local>> : u \in Live'} = wants'
  <2>1. CASE b
    BY <1>1, <1>6, <2>1 DEF TimersAsAsked
  <2>2. CASE ~ b
    <3>1. y \in Live /\ Live' = Live \ {y}
      BY <1>1, <1>6, <2>2 DEF Live
    <3>2. \A u \in Live : u # y => <<u.sender, u.local>> # <<y.sender, y.local>>
      BY <1>4 DEF Live
    <3> QED
      BY <2>2, <3>1, <3>2 DEF TimersAsAsked
  <2> QED
    BY <2>1, <2>2
<1>8. ASSUME allocated' <= Modulus
      PROVE  /\ osTimers' = {u.id : u \in Live'}
             /\ \A u, v \in timers' : u.id = v.id => u = v
  <2>1. /\ osTimers = {u.id : u \in Live}
        /\ \A u, v \in timers : u.id = v.id => u = v
    BY <1>8 DEF TimersAsAsked
  <2>2. \A u, v \in timers' : u.id = v.id => u = v
    BY <1>1, <1>3, <2>1
  <2>3. CASE b
    <3>1. Live' = Live \cup {z} /\ osTimers' = osTimers \cup {z.id}
      BY <1>1, <1>6, <2>3
    <3>2. osTimers' = {u.id : u \in Live'}
      BY <2>1, <3>1
    <3> QED
      BY <2>2, <3>2
  <2>4. CASE ~ b
    <3>1. y \in Live /\ Live' = Live \ {y}
      BY <1>1, <1>6, <2>4 DEF Live
    <3>2. \A u \in Live : u # y => u.id # y.id
      BY <2>1 DEF Live
    <3>3. osTimers' = osTimers \ {y.id}
      BY <2>4
    <3>4. osTimers' = {u.id : u \in Live'}
      BY <2>1, <3>1, <3>2, <3>3
    <3> QED
      BY <2>2, <3>4
  <2> QED
    BY <2>2, <2>3, <2>4
<1> QED
  BY <1>5, <1>7, <1>8 DEF TimersAsAsked

(* A timer is allocated.                                                    *)
LEMMA AllocateStep ==
    ASSUME TimerTypes, TimersAsAsked, IdInv, NEW c \in Controls, NEW l \in Nat,
           Entry(c, l) = {}, allocated' = allocated + 1,
           timers' = timers \cup {[sender |-> c, local |-> l, id |-> NextTimerId,
                                   live |-> TRUE]},
           osTimers' = osTimers \cup {NextTimerId},
           wants' = wants \cup {<<c, l>>}
    PROVE  TimersAsAsked'
<1> DEFINE z == [sender |-> c, local |-> l, id |-> NextTimerId, live |-> TRUE]
<1>1. timers' = timers \cup {z} /\ z.sender = c /\ z.local = l /\ z.id = NextTimerId /\ z.live
  OBVIOUS
<1>2. allocated + 1 <= Modulus => \A y \in timers : y.id # z.id
  BY NextIdFresh
<1> HIDE DEF z
<1>3. \A y \in timers : ~ (y.sender = c /\ y.local = l)
  BY DEF Entry
<1>4. Live' = Live \cup {z}
  BY <1>1 DEF Live
<1>5. {<<u.sender, u.local>> : u \in Live'} = wants'
  BY <1>1, <1>4 DEF TimersAsAsked
<1>6. \A u, v \in timers' : u.sender = v.sender /\ u.local = v.local => u = v
  BY <1>1, <1>3 DEF TimersAsAsked
<1>7. ASSUME allocated' <= Modulus
      PROVE  /\ osTimers' = {u.id : u \in Live'}
             /\ \A u, v \in timers' : u.id = v.id => u = v
  <2>1. /\ osTimers = {u.id : u \in Live}
        /\ \A u, v \in timers : u.id = v.id => u = v
    BY <1>7, BoundsAssumption DEF TimersAsAsked, TimerTypes
  <2>2. \A u, v \in timers' : u.id = v.id => u = v
    BY <1>1, <1>2, <1>7, <2>1
  <2> QED
    BY <1>1, <1>4, <2>1, <2>2
<1> QED
  BY <1>5, <1>6, <1>7 DEF TimersAsAsked

LEMMA SetTimerStep ==
    ASSUME TimerTypes, TimerInv, NEW c \in Controls, NEW l \in Nat, <<c, l>> \in Timers,
           SetTimer(c, l)
    PROVE  TimersAsAsked' /\ IdInv' /\ TimerTypes' /\ \A y \in timers' : y.sender \in Exists'
<1>0. Exists' = Exists /\ c \in Exists
  BY DEF SetTimer, Exists
<1>1. CASE \E y \in Entry(c, l) \ Live :
              /\ Switch(y, TRUE)
              /\ osTimers' = osTimers \cup {y.id}
              /\ wants' = wants \cup {<<c, l>>}
              /\ UNCHANGED <<timerId, allocated>>
  <2>1. PICK y \in Entry(c, l) \ Live :
              /\ Switch(y, TRUE)
              /\ osTimers' = osTimers \cup {y.id}
              /\ wants' = wants \cup {<<c, l>>}
              /\ UNCHANGED <<timerId, allocated>>
    BY <1>1
  <2>2. /\ y \in timers /\ y.sender = c /\ y.local = l /\ y.live # TRUE
        /\ y \in TimerEntry /\ y.id \in 0..Modulus - 1
    <3>1. y \in timers /\ y.sender = c /\ y.local = l /\ y.live # TRUE
      BY DEF Entry, Live
    <3>2. y \in TimerEntry
      BY <3>1 DEF TimerTypes
    <3> QED
      BY <3>1, <3>2, Switched
  <2> DEFINE z == [y EXCEPT !.live = TRUE]
  <2>3. /\ timers' = (timers \ {y}) \cup {z} /\ z.id = y.id /\ z.sender = c
        /\ z \in TimerEntry
    BY <2>1, <2>2, Switched DEF Switch
  <2> HIDE DEF z
  <2>4. TimersAsAsked'
    BY <2>1, <2>2, SwitchStep DEF TimerInv
  <2>5. IdInv'
    BY <2>1, <2>2, <2>3 DEF TimerInv, IdInv, UsedIds, RunLength, First, TimerTypes
  <2>6. TimerTypes'
    <3>1. timers' \subseteq TimerEntry
      BY <2>2, <2>3 DEF TimerTypes
    <3>2. osTimers' \subseteq 0..Modulus - 1 /\ wants' \subseteq Timers
      <4>1. osTimers \subseteq 0..Modulus - 1
        BY DEF TimerTypes
      <4>2. wants \subseteq Timers
        BY DEF TimerTypes
      <4>3. osTimers' \subseteq 0..Modulus - 1
        BY <4>1, <2>1, <2>2
      <4> QED
        BY <4>2, <4>3, <2>1, <2>2
    <3> QED
      BY <2>1, <3>1, <3>2 DEF TimerTypes, TimerEntry
  <2> QED
    BY <1>0, <2>2, <2>3, <2>4, <2>5, <2>6 DEF TimerInv
<1>2. CASE /\ Entry(c, l) = {} /\ allocated < MaxTimers
           /\ timerId' = NextTimerId
           /\ allocated' = allocated + 1
           /\ timers' = timers \cup {[sender |-> c, local |-> l, id |-> NextTimerId,
                                      live |-> TRUE]}
           /\ osTimers' = osTimers \cup {NextTimerId}
           /\ wants' = wants \cup {<<c, l>>}
  <2>1. TimersAsAsked'
    BY <1>2, AllocateStep DEF TimerInv
  <2>2. IdInv' /\ NextTimerId \in 0..Modulus - 1
    BY <1>2, NextIdFresh DEF TimerInv
  <2>4. [sender |-> c, local |-> l, id |-> NextTimerId, live |-> TRUE] \in TimerEntry
    BY <2>2 DEF TimerEntry
  <2>3. TimerTypes'
    <3>4. timers \subseteq TimerEntry
      BY DEF TimerTypes
    <3>1. timers' \subseteq TimerEntry
      BY <1>2, <2>4, <3>4
    <3>2. osTimers' \subseteq 0..Modulus - 1 /\ wants' \subseteq Timers
      BY <1>2, <2>2 DEF TimerTypes
    <3>3. allocated' \in 0..MaxTimers /\ timerId' \in 0..Modulus - 1
      BY <1>2, <2>2, BoundsAssumption DEF TimerTypes
    <3> QED
      BY <3>1, <3>2, <3>3 DEF TimerTypes, TimerEntry
  <2> QED
    BY <1>0, <1>2, <2>1, <2>2, <2>3 DEF TimerInv
<1>3. CASE /\ Entry(c, l) = {} /\ allocated < MaxTimers
           /\ timerId' = NextTimerId
           /\ allocated' = allocated + 1
           /\ UNCHANGED <<timers, osTimers, wants>>
  <2>1. IdInv' /\ NextTimerId \in 0..Modulus - 1
    BY <1>3, NextIdFresh DEF TimerInv
  <2>2. allocated' <= Modulus => allocated <= Modulus
    BY <1>3, BoundsAssumption DEF TimerTypes
  <2>3. TimersAsAsked'
    BY <1>3, <2>2 DEF TimerInv, TimersAsAsked, Live
  <2>4. TimerTypes'
    BY <1>3, <2>1, BoundsAssumption DEF TimerTypes
  <2> QED
    BY <1>0, <1>3, <2>1, <2>3, <2>4 DEF TimerInv
<1> QED
  BY <1>1, <1>2, <1>3 DEF SetTimer

LEMMA KillTimerStep ==
    ASSUME TimerTypes, TimerInv, NEW c, NEW l, KillTimer(c, l)
    PROVE  TimersAsAsked' /\ IdInv' /\ TimerTypes' /\ \A y \in timers' : y.sender \in Exists'
<1>1. PICK y \in Entry(c, l) \cap Live : Switch(y, FALSE) /\ osTimers' = osTimers \ {y.id}
  BY DEF KillTimer
<1>2. Exists' = Exists /\ wants' = wants \ {<<c, l>>} /\ UNCHANGED <<timerId, allocated>>
  BY DEF KillTimer, Exists
<1>3. /\ y \in timers /\ y.sender = c /\ y.local = l /\ y.live # FALSE
      /\ y \in TimerEntry
  <2>1. y \in timers /\ y.sender = c /\ y.local = l /\ y.live # FALSE
    BY DEF Entry, Live
  <2>2. y \in TimerEntry
    BY <2>1 DEF TimerTypes
  <2> QED
    BY <2>1, <2>2
<1> DEFINE z == [y EXCEPT !.live = FALSE]
<1>4. /\ timers' = (timers \ {y}) \cup {z} /\ z.id = y.id /\ z.sender = c
      /\ z \in TimerEntry
  BY <1>1, <1>3, Switched DEF Switch
<1> HIDE DEF z
<1>5. TimersAsAsked'
  BY <1>1, <1>2, <1>3, SwitchStep DEF TimerInv
<1>6. IdInv'
  BY <1>1, <1>2, <1>3, <1>4 DEF TimerInv, IdInv, UsedIds, RunLength, First, TimerTypes
<1>7. TimerTypes'
  <2>1. timers' \subseteq TimerEntry
    BY <1>3, <1>4 DEF TimerTypes
  <2>2. osTimers' \subseteq 0..Modulus - 1 /\ wants' \subseteq Timers
    <3>1. osTimers \subseteq 0..Modulus - 1
      BY DEF TimerTypes
    <3>2. wants \subseteq Timers
      BY DEF TimerTypes
    <3>3. osTimers' \subseteq 0..Modulus - 1
      BY <3>1, <1>1, <1>2
    <3> QED
      BY <3>2, <3>3, <1>1, <1>2
  <2> QED
    BY <1>2, <2>1, <2>2 DEF TimerTypes, TimerEntry
<1> QED
  BY <1>2, <1>3, <1>4, <1>5, <1>6, <1>7 DEF TimerInv

LEMMA DestroyTimers ==
    ASSUME ControlTypes, TimerTypes, TimerInv, NEW c \in Controls, Destroy(c)
    PROVE  TimersAsAsked' /\ IdInv' /\ TimerTypes' /\ \A y \in timers' : y.sender \in Exists'
<1>1. /\ timers' = {y \in timers : y.sender \notin {c}}
      /\ osTimers' = osTimers \ {y.id : y \in {z \in Live : z.sender \in {c}}}
      /\ wants' = {w \in wants : w[1] \notin {c}}
      /\ UNCHANGED <<timerId, allocated>>
  BY DEF Destroy, Reap, KillTimers
<1>2. Exists' = Exists \ {c}
  BY DEF Destroy, Reap, Exists, ControlTypes
<1>3. TimerTypes'
  <2>1. timers' \subseteq TimerEntry
    BY <1>1 DEF TimerTypes
  <2>2. osTimers' \subseteq 0..Modulus - 1 /\ wants' \subseteq Timers
    <3>1. osTimers \subseteq 0..Modulus - 1
      BY DEF TimerTypes
    <3>2. wants \subseteq Timers
      BY DEF TimerTypes
    <3>3. osTimers' \subseteq 0..Modulus - 1
      BY <3>1, <1>1
    <3> QED
      BY <3>2, <3>3, <1>1
  <2> QED
    BY <1>1, <2>1, <2>2 DEF TimerTypes, TimerEntry
<1>4. IdInv'
  BY <1>1 DEF TimerInv, IdInv, UsedIds, RunLength, First
<1>5. Live' = {y \in Live : y.sender # c}
  BY <1>1 DEF Live
<1>6. {<<y.sender, y.local>> : y \in Live'} = wants'
  BY <1>1, <1>5 DEF TimerInv, TimersAsAsked
<1>7. ASSUME allocated' <= Modulus PROVE osTimers' = {y.id : y \in Live'}
  <2>1. osTimers = {y.id : y \in Live} /\ \A y, z \in timers : y.id = z.id => y = z
    BY <1>1, <1>7 DEF TimerInv, TimersAsAsked
  <2>2. \A y, z \in Live : y.id = z.id => y = z
    BY <2>1 DEF Live
  <2> QED
    BY <1>1, <1>5, <2>1, <2>2
<1>8. TimersAsAsked'
  BY <1>1, <1>6, <1>7 DEF TimerInv, TimersAsAsked
<1> QED
  BY <1>1, <1>2, <1>3, <1>4, <1>8 DEF TimerInv

LEMMA TimerNext ==
    ASSUME ControlTypes, TimerTypes, Stack, TimerInv, Next PROVE TimerInv' /\ TimerTypes'
<1>1. CASE UNCHANGED timerVars
  <2>1. UNCHANGED <<timers, timerId, osTimers, wants, allocated>>
    BY <1>1 DEF timerVars
  <2>2. TimerTypes' /\ IdInv' /\ TimersAsAsked'
    BY <2>1 DEF TimerTypes, TimerInv, IdInv, UsedIds, RunLength, First, TimersAsAsked, Live
  <2>3. CASE \E c \in Controls : Destroy(c)
    BY <2>2, <2>3, DestroyTimers DEF TimerInv
  <2>4. CASE ~ \E c \in Controls : Destroy(c)
    BY <2>1, <2>2, <2>4, ExistsGrows DEF TimerInv
  <2> QED
    BY <2>3, <2>4
<1>2. CASE \E c \in Controls : Destroy(c)
  BY <1>2, DestroyTimers DEF TimerInv
<1>3. CASE \E t \in Timers : SetTimer(t[1], t[2]) \/ KillTimer(t[1], t[2])
  <2>1. PICK t \in Timers : SetTimer(t[1], t[2]) \/ KillTimer(t[1], t[2])
    BY <1>3
  <2>2. t[1] \in Controls /\ t[2] \in Nat /\ <<t[1], t[2]>> \in Timers
    BY SubsetsAssumption
  <2> QED
    BY <2>1, <2>2, SetTimerStep, KillTimerStep DEF TimerInv
<1> QED
  BY TimerActions, <1>1, <1>2, <1>3

-----------------------------------------------------------------------------
(* The mouse.                                                               *)
Still == {f \in Frame : f.at \notin {"left", "entered", "wheel"}}

MouseAction ==
    \/ Entered \/ Left \/ Attach \/ MouseMoved \/ Turned
    \/ \E c \in Controls : Destroy(c)

LEMMA InsideAfter == ASSUME nested', inside' = {} PROVE HoverInv'
  BY DEF HoverInv, HoverPaired

LEMMA HoverKept ==
    ASSUME Stack, HoverInv, Exists \subseteq Exists', Kept(stack', Still), ~ Continue("entered"),
           hover' = hover, inside' \subseteq inside, nested' = nested,
           \A c \in Controls : status[c] = "cleanup" => status'[c] = "cleanup"
    PROVE  HoverInv'
<1> SUFFICES ASSUME ~ nested PROVE HoverInv'
  BY DEF HoverInv, HoverPaired
<1>1. stack \in Seq(Frame) /\ stack' \in Seq(Frame)
  BY DEF Stack, Kept
<1>2. ASSUME NEW k \in DOMAIN stack', stack'[k].at \in {"left", "entered", "wheel"}
      PROVE  k \in DOMAIN stack /\ stack'[k] = stack[k]
  BY <1>1, <1>2 DEF Kept, Still
<1>3. ASSUME NEW k \in DOMAIN stack, stack[k].at = "entered"
      PROVE  k \in DOMAIN stack' /\ stack'[k] = stack[k]
  <2>1. k = 1
    BY <1>3 DEF HoverInv
  <2>2. Len(stack) # 1
    BY <1>1, <1>3, <2>1 DEF Continue, Idle, Last
  <2>3. Len(stack) \in Nat /\ Len(stack) >= 2 /\ Len(stack') \in Nat
    BY <1>1, <1>3, <2>1, <2>2
  <2>4. 1 \in 1..Len(stack')
    BY <2>3 DEF Kept
  <2>5. stack'[1] = stack[1]
    BY <2>3, <2>4 DEF Kept
  <2>6. 1 \in DOMAIN stack'
    BY <1>1, <2>4
  <2> QED
    BY <2>1, <2>5, <2>6
<1>4. ASSUME NEW c \in inside'
      PROVE  \/ c = hover' \/ status'[c] = "cleanup"
             \/ \E k \in DOMAIN stack' : stack'[k] = At("entered", c)[1]
  <2>1. c \in Controls /\ c \in inside
    BY DEF HoverInv, Exists
  <2>2. ASSUME NEW k \in DOMAIN stack, stack[k] = At("entered", c)[1]
        PROVE  k \in DOMAIN stack' /\ stack'[k] = At("entered", c)[1]
    <3>1. stack[k].at = "entered"
      BY <2>2 DEF At
    <3> QED
      BY <1>3, <2>2, <3>1
  <2> QED
    BY <2>1, <2>2 DEF HoverInv, HoverPaired
<1>5. \A k \in DOMAIN stack' :
            /\ stack'[k].at \in {"left", "entered", "wheel"} => k = 1
            /\ stack'[k].at = "left" => hover' \notin inside'
            /\ stack'[k].at = "entered" => hover' = None
  BY <1>2 DEF HoverInv
<1> QED
  BY <1>4, <1>5 DEF HoverInv, HoverPaired

LEMMA RoomNotEntered == Room => ~ Continue("entered")
  BY DEF Room, Code, Continue

LEMMA NotEntered ==
    ASSUME Next, ~ Entered PROVE ~ Continue("entered")
<1>1. Messages => Room
  BY DEF Messages, Receive, Dispatch, WM_MOUSEMOVE, WM_MOUSEWHEEL, WM_LBUTTONDOWN,
         WM_RBUTTONDOWN, WM_LBUTTONDBLCLK, WM_RBUTTONUP, WM_LBUTTONUP, WM_CONTEXTMENU,
         WM_KEYDOWN, WM_KEYUP, WM_CLOSE, Forward, WM_TIMER
<1>2. Calls => Room \/ Idle
  BY DEF Calls, SetFocusNeeded, MoveFocus, Add, BoxRemove, Destroy, AttachDialog, SetVisible,
         SetInternVisible, SetEnabled, SetTimer, KillTimer
<1>3. Resume /\ ~ Entered => Code \/ ~ Continue("entered")
  BY DEF Resume, Wheel, Killed, Needed, Left, Down, Press, Unclick, Keydown, Keyup, Close,
         Attach, Return, Continue
<1>4. Code \/ Idle => ~ Continue("entered")
  BY DEF Code, Continue
<1> QED
  BY <1>1, <1>2, <1>3, <1>4, RoomNotEntered DEF Next

(* The mouse is followed until a message is handled in a handler.           *)
Follows == /\ hover' = hover
           /\ \/ nested' = nested /\ inside' \subseteq inside
              \/ nested' /\ inside' = {}

LEMMA OtherMouse ==
    ASSUME ControlTypes, FocusInv, Pointers, Stack, Next, ~ MouseAction
    PROVE  Follows /\ Kept(stack', Still)
<1> USE DEF mouseVars, pointers
<1>0. Kept(stack, Still) /\ (~ Idle => Kept(Rest, Still)) /\ Quiet \subseteq Still
      /\ Loud \subseteq Still
  <2>1. Quiet \subseteq Still /\ Loud \subseteq Still
    BY DEF Quiet, Loud, Killing, Still
  <2> QED
    BY <2>1, KeptAll, KeptRest DEF Stack
<1>1. ASSUME NEW set, Receive(set), set \subseteq inside
      PROVE  \/ nested' = nested /\ inside' \subseteq inside
             \/ nested' /\ inside' = {}
  BY <1>1 DEF Receive, Dispatch, Told, ControlTypes
<1>2. CASE NoPush
  <2>1. Kept(stack', Still)
    BY <1>0, <1>2, NoPushStack
  <2>2. Follows
    BY <1>2 DEF NoPush, Add, BoxRemove, SetVisible, SetEnabled, SetTimer, KillTimer, MouseAction,
                Follows
  <2> QED
    BY <2>1, <2>2
<1>3. CASE Pop
  <2>1. Kept(stack', Still)
    BY <1>0, <1>3, PopStack
  <2>2. Follows
    BY <1>3 DEF Pop, Needed, Press, Unclick, Keydown, Keyup, Return, MouseAction, Follows
  <2> QED
    BY <2>1, <2>2
<1>4. CASE Send
  <2>1. Kept(stack', Still)
    BY <1>0, <1>4, SendStack, KeptMore
  <2>2. Receive(inside) /\ hover' = hover
    BY <1>4 DEF Send, WM_LBUTTONDBLCLK, WM_RBUTTONUP, WM_LBUTTONUP, WM_CONTEXTMENU, WM_KEYDOWN,
                WM_KEYUP, Forward, WM_TIMER
  <2> QED
    BY <1>1, <2>1, <2>2 DEF Follows
<1>5. CASE FocusAction
  <2>1. Kept(stack', Still)
    <3>1. Kept(stack', Loud)
      BY <1>5, FocusActionStep
    <3> QED
      BY <1>0, <3>1, KeptMore
  <2>2. CASE ButtonDown \/ WM_CLOSE
    <3>1. (Receive(inside) \/ Receive(inside \ {hover})) /\ hover' = hover
      BY <2>2 DEF ButtonDown, WM_LBUTTONDOWN, WM_RBUTTONDOWN, WM_CLOSE
    <3> QED
      BY <1>1, <2>1, <3>1 DEF Follows
  <2>3. CASE Killed \/ Close \/ \E c \in Exists \cup {None} : MoveFocus(c)
    BY <2>1, <2>3 DEF Killed, Close, MoveFocus, Follows
  <2> QED
    BY <1>5, <2>2, <2>3 DEF FocusAction
<1>6. CASE Down
  <2>1. Kept(stack', Still)
    BY <1>0, <1>6, KeptEvent DEF Down, Continue
  <2> QED
    BY <1>6, <2>1 DEF Down, Follows
<1>7. CASE SetFocusNeeded
  <2>1. [at |-> "needed", c |-> None] \in Still \cap Frame
    BY DEF Still, Frame
  <2>2. Event(stack \o At("needed", None)) \/ stack' = stack
    BY <1>7 DEF SetFocusNeeded
  <2>3. Kept(stack', Still)
    BY <1>0, <2>1, <2>2, KeptPush, KeptEvent
  <2> QED
    BY <1>7, <2>3 DEF SetFocusNeeded, Follows
<1>8. CASE \E c \in Controls : SetInternVisible(c)
  <2>1. [at |-> "killed", c |-> None] \in Still \cap Frame
    BY DEF Still, Frame
  <2>2. Event(stack \o At("killed", None)) \/ stack' = stack
    BY <1>8 DEF SetInternVisible
  <2>3. Kept(stack', Still)
    BY <1>0, <2>1, <2>2, KeptPush, KeptEvent
  <2> QED
    BY <1>8, <2>3 DEF SetInternVisible, Follows
<1>9. CASE \E c \in Controls : AttachDialog(c)
  <2>1. PICK c \in Controls : AttachDialog(c)
    BY <1>9
  <2>2. Kept(stack', Loud \cup {[at |-> "attach", c |-> c]})
    BY <2>1, AttachDialogStep
  <2>3. Loud \cup {[at |-> "attach", c |-> c]} \subseteq Still
    BY <1>0 DEF Still, Frame
  <2>4. Kept(stack', Still)
    BY <2>2, <2>3, KeptMore
  <2> QED
    BY <2>1, <2>4 DEF AttachDialog, Follows
<1> QED
  BY Actions, <1>2, <1>3, <1>4, <1>5, <1>6, <1>7, <1>8, <1>9 DEF MouseAction

(* A step of the stack that pops one activation and pushes fixed ones.      *)
LEMMA OneFrame ==
    ASSUME Stack, HoverInv, ~ nested, NEW w \in {"left", "entered", "wheel"},
           Continue(w)
    PROVE  /\ Len(stack) = 1 /\ stack[1].at = w /\ stack[1] \in Sound /\ Local = stack[1].c
           /\ Rest = << >>
<1>1. ~ Idle /\ Last(stack).at = w
  BY DEF Continue
<1>2. Last(stack) = stack[Len(stack)] /\ Len(stack) \in DOMAIN stack /\ Last(stack) \in Sound
  BY <1>1, LastSound DEF Stack
<1>3. Len(stack) = 1
  BY <1>1, <1>2 DEF HoverInv
<1>4. Rest = << >>
  BY <1>3 DEF Rest, Front, Stack
<1> QED
  BY <1>1, <1>2, <1>3, <1>4 DEF Local

LEMMA EnteredStep ==
    ASSUME ControlTypes, Pointers, Stack, HoverInv, Entered PROVE HoverInv'
<1>0. /\ Exists' = Exists /\ inside' = inside /\ nested' = nested /\ status' = status
      /\ hover' = Local /\ (stack' = Rest \/ Event(Rest)) /\ Continue("entered")
  BY DEF Entered, Exists, Move
<1> SUFFICES ASSUME ~ nested PROVE HoverInv'
  BY <1>0 DEF HoverInv, HoverPaired
<1>1. /\ Len(stack) = 1 /\ stack[1].at = "entered" /\ Local = stack[1].c /\ Rest = << >>
      /\ stack[1] \in Sound
  BY <1>0, OneFrame
<1>2. stack' = << >> \/ stack' = << >> \o At("event", None)
  BY <1>0, <1>1 DEF Event
<1>3. \A k \in DOMAIN stack' : stack'[k].at \notin {"left", "entered", "wheel"}
  BY <1>2 DEF At
<1>4. DOMAIN stack = {1} /\ hover = None
  BY <1>1 DEF Stack, HoverInv
<1>5. ASSUME NEW c \in inside' PROVE c = hover' \/ status'[c] = "cleanup"
  <2>1. c \in Controls /\ c # hover
    BY <1>0, <1>4, NoneAssumption DEF HoverInv, Exists
  <2>2. stack[1] = At("entered", c)[1] => c = Local
    BY <1>1 DEF At
  <2> QED
    BY <1>0, <1>4, <2>1, <2>2 DEF HoverInv, HoverPaired
<1> QED
  BY <1>0, <1>3, <1>5 DEF HoverInv, HoverPaired

LEMMA TwoFrames ==
    ASSUME NEW w, NEW c, stack' = << >> \o At(w, c) \o At("event", None)
    PROVE  /\ DOMAIN stack' = {1, 2} /\ stack'[1] = At(w, c)[1]
           /\ stack'[1].at = w /\ stack'[2].at = "event"
<1> DEFINE e == [at |-> w, c |-> c]
           f == [at |-> "event", c |-> None]
<1>1. At(w, c) = <<e>> /\ At("event", None) = <<f>> /\ e.at = w /\ f.at = "event"
  BY DEF At
<1>2. At(w, c)[1] = e
  BY DEF At
<1> HIDE DEF e, f
<1>3. stack' = << >> \o <<e>> \o <<f>>
  BY <1>1
<1>4. << >> \o <<e>> \in Seq({e, f}) /\ Len(<< >> \o <<e>>) = 1 /\ (<< >> \o <<e>>)[1] = e
  OBVIOUS
<1> DEFINE s == << >> \o <<e>>
<1>5. s \in Seq({e, f}) /\ Len(s) = 1 /\ s[1] = e /\ stack' = s \o <<f>>
  BY <1>3, <1>4
<1> HIDE DEF s
<1>6. Len(stack') = 2 /\ stack' \in Seq({e, f}) /\ stack'[1] = e /\ stack'[2] = f
  <2>1. <<f>> \in Seq({e, f}) /\ Len(<<f>>) = 1 /\ <<f>>[1] = f
    OBVIOUS
  <2> DEFINE t == <<f>>
  <2>2. t \in Seq({e, f}) /\ Len(t) = 1 /\ t[1] = f /\ stack' = s \o t
    BY <1>5, <2>1
  <2> HIDE DEF t
  <2>3. stack' \in Seq({e, f}) /\ Len(stack') = 2
    <3>1. s \o t \in Seq({e, f})
      BY <1>5, <2>2
    <3>2. Len(s \o t) = Len(s) + Len(t)
      BY <1>5, <2>2
    <3>3. Len(s) = 1 /\ Len(t) = 1
      BY <1>5, <2>2
    <3>4. Len(s \o t) = 2
      BY <3>2, <3>3
    <3>5. stack' = s \o t
      BY <2>2
    <3> QED
      BY <3>1, <3>4, <3>5
  <2>4. stack'[1] = e
    BY <1>5, <2>2
  <2>5. stack'[2] = t[1]
    BY <1>5, <2>2
  <2> QED
    BY <2>2, <2>3, <2>4, <2>5
<1>7. DOMAIN stack' = 1..2 /\ 1..2 = {1, 2}
  BY <1>6
<1> QED
  BY <1>1, <1>2, <1>6, <1>7

LEMMA LeftStep ==
    ASSUME ControlTypes, Pointers, Stack, HoverInv, Left PROVE HoverInv'
<1>0. /\ Exists' = Exists /\ nested' = nested /\ status' = status /\ Continue("left")
      /\ Enter(Rest, Local, None) /\ Told(Entering(Local, None))
  BY DEF Left, Exists
<1>1. CASE nested
  BY <1>0, <1>1, InsideAfter DEF Told
<1>2. CASE ~ nested
  <2>1. /\ Len(stack) = 1 /\ stack[1].at = "left" /\ Local = stack[1].c /\ Rest = << >>
        /\ stack[1] \in Sound
    BY <1>0, <1>2, OneFrame
  <2>2. Local \in Exists \cup {None} /\ DOMAIN stack = {1} /\ hover \notin inside
    BY <1>2, <2>1 DEF Sound, HoverInv, Stack
  <2>3. /\ inside' = IF Local # None THEN inside \cup {Local} ELSE inside
        /\ hover' = None
    BY <1>0, <1>2 DEF Told, Entering, Enter
  <2>4. \A c \in inside : status[c] = "cleanup"
    BY <1>2, <2>1, <2>2 DEF HoverInv, HoverPaired, At
  <2>5. CASE Local # None
    <3>1. stack' = << >> \o At("entered", Local) \o At("event", None)
      BY <1>0, <2>1, <2>5 DEF Enter, Event
    <3>3. /\ DOMAIN stack' = {1, 2} /\ stack'[1] = At("entered", Local)[1]
          /\ stack'[1].at = "entered" /\ stack'[2].at = "event"
      BY <3>1, TwoFrames
    <3> QED
      BY <1>0, <2>2, <2>3, <2>4, <2>5, <3>3 DEF HoverInv, HoverPaired
  <2>6. CASE Local = None
    <3>1. stack' = << >> \/ stack' = << >> \o At("event", None)
      BY <1>0, <2>1, <2>6 DEF Enter, Move, Event
    <3>2. \A k \in DOMAIN stack' : stack'[k].at \notin {"left", "entered", "wheel"}
      BY <3>1 DEF At
    <3> QED
      BY <1>0, <2>3, <2>4, <2>6, <3>2 DEF HoverInv, HoverPaired
  <2> QED
    BY <2>5, <2>6
<1> QED
  BY <1>1, <1>2

LEMMA MouseMovesStep ==
    ASSUME ControlTypes, Pointers, Stack, HoverInv, NEW c \in Exists \cup {None}, NEW s,
           MouseMoves(s, c), UNCHANGED status,
           ~ nested' => /\ ~ nested /\ s = << >>
                        /\ \A k \in DOMAIN stack : stack[k].at # "entered"
    PROVE  HoverInv'
<1>0. Exists' = Exists /\ status' = status
  BY DEF Exists
<1>1. CASE nested'
  <2>1. inside' = {}
    BY <1>1 DEF MouseMoves, Told
  <2> QED
    BY <1>1, <2>1, InsideAfter
<1>2. CASE ~ nested'
  <2>1. ~ nested /\ s = << >> /\ \A k \in DOMAIN stack : stack[k].at # "entered"
    BY <1>2
  <2>2. \A d \in inside : d = hover \/ status[d] = "cleanup"
    BY <2>1 DEF HoverInv, HoverPaired, At
  <2>3. CASE hover \notin {c, None}
    <3>1. /\ inside' = inside \ {hover} /\ hover' = hover
          /\ stack' = << >> \o At("left", c) \o At("event", None)
      BY <1>2, <2>1, <2>3 DEF MouseMoves, Told, Event
    <3>3. DOMAIN stack' = {1, 2} /\ stack'[1].at = "left" /\ stack'[2].at = "event"
      BY <3>1, TwoFrames
    <3> QED
      BY <1>0, <2>2, <3>1, <3>3 DEF HoverInv, HoverPaired
  <2>4. CASE hover \in {c, None}
    <3>1. inside' = Entering(c, hover) /\ Enter(s, c, hover)
      BY <1>2, <2>4 DEF MouseMoves, Told
    <3>2. CASE c \notin {hover, None}
      <4>1. /\ inside' = inside \cup {c} /\ hover' = None /\ hover = None
            /\ stack' = << >> \o At("entered", c) \o At("event", None)
        BY <2>1, <2>4, <3>1, <3>2 DEF Enter, Entering, Event
      <4>3. /\ DOMAIN stack' = {1, 2} /\ stack'[1].at = "entered" /\ stack'[2].at = "event"
            /\ stack'[1] = At("entered", c)[1]
        BY <4>1, TwoFrames
      <4>4. ASSUME NEW d \in inside PROVE status'[d] = "cleanup"
        BY <1>0, <2>2, <4>1, NoneAssumption DEF HoverInv, Exists
      <4> QED
        BY <1>0, <3>2, <4>1, <4>3, <4>4 DEF HoverInv, HoverPaired
    <3>3. CASE c \in {hover, None}
      <4>1. inside' = inside /\ hover' = hover
        BY <3>1, <3>3 DEF Enter, Entering
      <4>2. stack' = << >> \/ stack' = << >> \o At("event", None)
        BY <2>1, <3>1, <3>3 DEF Enter, Move, Event
      <4>3. \A k \in DOMAIN stack' : stack'[k].at \notin {"left", "entered", "wheel"}
        BY <4>2 DEF At
      <4> QED
        BY <1>0, <2>2, <4>1, <4>3 DEF HoverInv, HoverPaired
    <3> QED
      BY <3>2, <3>3
  <2> QED
    BY <2>3, <2>4
<1> QED
  BY <1>1, <1>2

LEMMA MouseMovedStep ==
    ASSUME ControlTypes, Pointers, Stack, HoverInv, MouseMoved PROVE HoverInv'
<1>1. PICK c \in FindControl : WM_MOUSEMOVE(c) \/ Wheel(c)
  BY DEF MouseMoved
<1>2. c \in Exists \cup {None}
  BY FindControlExists
<1>3. CASE WM_MOUSEMOVE(c)
  <2>1. MouseMoves(stack, c) /\ UNCHANGED status /\ nested' = (nested \/ ~ Idle)
    BY <1>3 DEF WM_MOUSEMOVE, Dispatch
  <2>2. ASSUME ~ nested'
        PROVE  /\ ~ nested /\ stack = << >>
               /\ \A k \in DOMAIN stack : stack[k].at # "entered"
    <3>1. ~ nested /\ stack = << >>
      BY <2>1, <2>2 DEF Idle
    <3>2. DOMAIN stack = {}
      BY <3>1
    <3> QED
      BY <3>1, <3>2
  <2> QED
    BY <1>2, <2>1, <2>2, MouseMovesStep
<1>4. CASE Wheel(c)
  <2>1. MouseMoves(Rest, c) /\ UNCHANGED <<status, nested>> /\ Continue("wheel")
    BY <1>4 DEF Wheel
  <2>2. ASSUME ~ nested
        PROVE  Rest = << >> /\ \A k \in DOMAIN stack : stack[k].at # "entered"
    <3>1. Rest = << >> /\ Len(stack) = 1 /\ stack[1].at = "wheel"
      BY <2>1, <2>2, OneFrame
    <3>2. DOMAIN stack = {1}
      BY <3>1 DEF Stack
    <3> QED
      BY <3>1, <3>2
  <2> QED
    BY <1>2, <2>1, <2>2, MouseMovesStep
<1> QED
  BY <1>1, <1>3, <1>4

LEMMA TurnedStep ==
    ASSUME ControlTypes, Pointers, Stack, HoverInv, Turned PROVE HoverInv'
<1>1. /\ Exists' = Exists /\ nested' = (nested \/ ~ Idle) /\ Told(inside)
      /\ Event(stack \o At("wheel", None)) /\ UNCHANGED <<status, hover>>
  BY DEF Turned, WM_MOUSEWHEEL, Receive, Dispatch, Exists, pointers
<1>2. CASE nested'
  BY <1>1, <1>2, InsideAfter DEF Told
<1>3. CASE ~ nested'
  <2>1. ~ nested /\ stack = << >> /\ inside' = inside
    BY <1>1, <1>3 DEF Told, Idle
  <2>2. stack' = << >> \o At("wheel", None) \o At("event", None)
    BY <1>1, <2>1 DEF Event
  <2>3. DOMAIN stack' = {1, 2} /\ stack'[1].at = "wheel" /\ stack'[2].at = "event"
    BY <2>2, TwoFrames
  <2>4. \A c \in inside : c = hover \/ status[c] = "cleanup"
    BY <2>1 DEF HoverInv, HoverPaired
  <2> QED
    BY <1>1, <2>1, <2>3, <2>4 DEF HoverInv, HoverPaired
<1> QED
  BY <1>2, <1>3

LEMMA AttachStep ==
    ASSUME ControlTypes, Pointers, Stack, HoverInv, Attach PROVE HoverInv'
<1>0. /\ ~ Idle /\ Last(stack).at = "attach" /\ Local \in Controls \ Exists
      /\ stack' = Rest /\ hover' = None /\ UNCHANGED <<inside, nested>>
  BY AttachLocal DEF Attach
<1>1. /\ stack \in Seq(Frame) /\ Len(stack) \in Nat \ {0} /\ Last(stack) = stack[Len(stack)]
      /\ Len(stack') = Len(stack) - 1 /\ stack' \in Seq(Frame)
      /\ \A k \in DOMAIN stack' : k \in DOMAIN stack /\ stack'[k] = stack[k]
      /\ \A k \in DOMAIN stack : k # Len(stack) => k \in DOMAIN stack'
  <2>1. stack \in Seq(Frame) /\ Len(stack) \in Nat \ {0} /\ Last(stack) = stack[Len(stack)]
    BY <1>0 DEF Stack, Idle, Last
  <2>2. stack' = SubSeq(stack, 1, Len(stack) - 1)
    BY <1>0 DEF Rest, Front
  <2>5. stack' \in Seq(Frame) /\ Len(stack') = Len(stack) - 1
    BY <1>0, RestFacts DEF Stack
  <2>3. /\ stack' \in Seq(Frame) /\ Len(stack') = Len(stack) - 1
        /\ DOMAIN stack' = 1..Len(stack) - 1 /\ DOMAIN stack = 1..Len(stack)
    BY <2>1, <2>5
  <2>4. \A k \in 1..Len(stack) - 1 : stack'[k] = stack[k]
    BY <1>0, RestFacts DEF Stack
  <2> QED
    BY <2>1, <2>3, <2>4
<1>2. status' = [c \in Controls |-> IF c = Local THEN "tree"
                                    ELSE IF c \in InTree THEN "cleanup" ELSE status[c]]
  BY DEF Attach
<1>3. Exists \subseteq Exists'
  BY <1>2 DEF Exists, InTree
<1>4. ASSUME NEW c \in Exists, c \in InTree \/ status[c] = "cleanup"
      PROVE  status'[c] = "cleanup"
  BY <1>0, <1>2, <1>4 DEF Exists
<1>5. ASSUME ~ nested, NEW c \in inside'
      PROVE  status'[c] = "cleanup" \/ \E k \in DOMAIN stack' : stack'[k] = At("entered", c)[1]
  <2>1. c \in Exists /\ c \in inside
    BY <1>0 DEF HoverInv
  <2>2. CASE c = hover \/ status[c] = "cleanup"
    BY <1>4, <2>1, <2>2 DEF Exists, InTree, ControlTypes
  <2>3. ASSUME NEW k \in DOMAIN stack, stack[k] = At("entered", c)[1]
        PROVE  k \in DOMAIN stack' /\ stack'[k] = At("entered", c)[1]
    <3>1. stack[k].at = "entered"
      BY <2>3 DEF At
    <3>2. k # Len(stack)
      BY <1>0, <1>1, <3>1
    <3> QED
      BY <1>1, <2>3, <3>2
  <2> QED
    BY <1>5, <2>1, <2>2, <2>3 DEF HoverInv, HoverPaired
<1>6. inside' \subseteq Exists'
  BY <1>0, <1>3 DEF HoverInv
<1>7. ASSUME ~ nested, NEW k \in DOMAIN stack'
      PROVE  /\ stack'[k].at \in {"left", "entered", "wheel"} => k = 1
             /\ stack'[k].at = "left" => hover' \notin inside'
             /\ stack'[k].at = "entered" => hover' = None
  BY <1>0, <1>1, <1>6, <1>7, NoneAssumption DEF HoverInv, Exists
<1> QED
  BY <1>0, <1>5, <1>6, <1>7 DEF HoverInv, HoverPaired

LEMMA HoverNext ==
    ASSUME ControlTypes, FocusInv, Pointers, Stack, HoverInv, Next PROVE HoverInv'
<1>1. CASE Entered \/ Left \/ Attach \/ MouseMoved \/ Turned
  BY <1>1, EnteredStep, LeftStep, AttachStep, MouseMovedStep, TurnedStep
<1>2. CASE \E c \in Controls : Destroy(c)
  <2>1. PICK c \in Controls : Destroy(c)
    BY <1>2
  <2>2. /\ stack = << >> /\ stack' = stack /\ nested' = nested /\ inside' = inside \ {c}
        /\ hover' = IF hover \in {c} THEN None ELSE hover
        /\ status' = [d \in Controls |-> IF d \in {c} THEN "none" ELSE status[d]]
    BY <2>1 DEF Destroy, Reap, Idle
  <2>3. inside' \subseteq Exists'
    BY <2>2 DEF HoverInv, Exists
  <2>4. ASSUME ~ nested, NEW d \in inside' PROVE d = hover' \/ status'[d] = "cleanup"
    BY <2>2, <2>4 DEF HoverInv, HoverPaired, Exists
  <2> QED
    BY <2>2, <2>3, <2>4 DEF HoverInv, HoverPaired
<1>3. CASE ~ MouseAction
  <2>1. Follows /\ Kept(stack', Still)
    BY <1>3, OtherMouse
  <2>2. Exists \subseteq Exists'
    BY <1>3, ExistsGrows DEF MouseAction
  <2>3. ~ Continue("entered")
    BY <1>3, NotEntered DEF MouseAction
  <2>4. \A c \in Controls : status[c] = "cleanup" => status'[c] = "cleanup"
    BY <1>3, StatusNext DEF StatusAction, MouseAction, Add, New, BoxRemove, ControlTypes
  <2> QED
    BY <2>1, <2>2, <2>3, <2>4, HoverKept, InsideAfter DEF Follows
<1> QED
  BY <1>1, <1>2, <1>3 DEF MouseAction

-----------------------------------------------------------------------------
LEMMA Together ==
    IInv <=> /\ ControlTypes /\ TimerTypes /\ Pointers /\ Stack
             /\ FrameInv /\ FocusInv /\ TimerInv /\ HoverInv
<1>1. IInv => TimerInv /\ HoverInv /\ FocusInv /\ FrameInv
  BY DEF IInv, TimerInv, PointersAlive
<1>2. ASSUME ControlTypes, TimerTypes, Pointers, Stack, FrameInv, FocusInv, TimerInv, HoverInv
      PROVE  IInv
  <2>1. PointersAlive
    BY <1>2 DEF Pointers, TimerInv, PointersAlive
  <2>2. {focus, hover, click, key} \subseteq Controls \cup {None} /\ inside \subseteq Controls
    BY <1>2 DEF Pointers, HoverInv, Exists
  <2>3. TypeOK
    BY <1>2, <2>2 DEF ControlTypes, TimerTypes, TimerEntry, Stack, TypeOK
  <2> QED
    BY <1>2, <2>1, <2>3 DEF IInv, TimerInv
<1> QED
  BY Parts, <1>1, <1>2

LEMMA IInvInit == Init => IInv
<1> SUFFICES ASSUME Init PROVE IInv
  OBVIOUS
<1> USE BoundsAssumption, NoneAssumption DEF Init
<1>1. ControlTypes /\ Pointers
  BY DEF ControlTypes, Pointers
<1>2. TimerTypes
  BY DEF TimerTypes
<1>3. stack = << >> /\ DOMAIN stack = {} /\ stack \in Seq(Frame)
  OBVIOUS
<1>4. Stack /\ FrameInv
  BY <1>3 DEF Stack, FrameInv
<1>5. FocusInv
  BY DEF FocusInv, FocusIsOne, Nobody
<1>6. TimerInv
  <2>1. Live = {}
    BY DEF Live
  <2>2. TimersAsAsked
    BY <2>1 DEF TimersAsAsked
  <2> QED
    BY <2>2 DEF TimerInv, IdInv
<1>7. HoverInv
  BY <1>3 DEF HoverInv, HoverPaired
<1> QED
  BY <1>1, <1>2, <1>4, <1>5, <1>6, <1>7, Together

LEMMA IInvNext == IInv /\ [Next]_vars => IInv'
<1> SUFFICES ASSUME IInv, [Next]_vars PROVE IInv'
  OBVIOUS
<1>1. /\ ControlTypes /\ TimerTypes /\ Pointers /\ Stack
      /\ FrameInv /\ FocusInv /\ TimerInv /\ HoverInv
  BY Together
<1>2. CASE Next
  <2>1. ControlTypes'
    BY <1>1, <1>2, FlagNext, StatusTypes DEF ControlTypes, FlagTypes
  <2>2. TimerTypes' /\ TimerInv'
    BY <1>1, <1>2, TimerNext
  <2>3. Pointers' /\ FocusInv' /\ HoverInv'
    BY <1>1, <1>2, PointersNext, FocusNext, HoverNext
  <2>4. FrameInv' /\ Stack'
    BY <1>1, <1>2, FrameNext
  <2> QED
    BY <2>1, <2>2, <2>3, <2>4, Together, PTL
<1>3. CASE UNCHANGED vars
  <2>1. /\ UNCHANGED <<status, flags, focus, reentered, hover, click, key, inside>>
        /\ UNCHANGED <<timers, timerId, osTimers, wants, allocated, stack, nested>>
    BY <1>3 DEF vars, focusVars, mouseVars, pointers, timerVars
  <2>2. ControlTypes' /\ Pointers' /\ TimerTypes'
    BY <1>1, <2>1 DEF ControlTypes, Pointers, TimerTypes, TimerEntry, Exists
  <2>3. Stack' /\ FrameInv' /\ HoverInv'
    BY <1>1, <2>1 DEF Stack, FrameInv, Sound, HoverInv, HoverPaired, Exists
  <2>4. FocusInv' /\ TimerInv'
    BY <1>1, <2>1 DEF FocusInv, FocusIsOne, Nobody, Taking, TimerInv, TimersAsAsked, IdInv,
                      UsedIds, RunLength, First, Live, Exists
  <2> QED
    BY <2>2, <2>3, <2>4, Together, PTL
<1> QED
  BY <1>2, <1>3

-----------------------------------------------------------------------------
LEMMA Inductive == Spec => []IInv
  BY IInvInit, IInvNext, PTL DEF Spec

(* Every variable has its type; timer identifiers stay below 0xF0.          *)
THEOREM TypeCorrect == Spec => []TypeOK
<1>1. IInv => TypeOK
  BY DEF IInv
<1> QED
  BY Inductive, <1>1, PTL

(* No pointer and no timer of the manager outlives its control, however     *)
(* deep the handlers run inside each other.                                 *)
THEOREM PointersAliveCorrect == Spec => []PointersAlive
<1>1. IInv => PointersAlive
  BY DEF IInv
<1> QED
  BY Inductive, <1>1, PTL

(* A control believes it has the focus only if focus_ names it, unless the  *)
(* focus was moved while it was being taken away.                           *)
THEOREM FocusIsOneCorrect == Spec => []FocusIsOne
<1>1. IInv => FocusIsOne
  BY DEF IInv, FocusInv
<1> QED
  BY Inductive, <1>1, PTL

(* The system runs the timers the program wants, each under an identifier   *)
(* of its own until timer_id_ has come round, whatever Modulus is.          *)
THEOREM TimersAsAskedCorrect == Spec => []TimersAsAsked
<1>1. IInv => TimersAsAsked
  BY DEF IInv
<1> QED
  BY Inductive, <1>1, PTL

(* Whoever was told that the mouse came will be told that it left.          *)
THEOREM HoverPairedCorrect == Spec => []HoverPaired
<1>1. IInv => HoverPaired
  BY DEF IInv, HoverInv
<1> QED
  BY Inductive, <1>1, PTL
=============================================================================
