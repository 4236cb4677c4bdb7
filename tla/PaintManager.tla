---------------------------- MODULE PaintManager ----------------------------
(***************************************************************************)
(* ui::PaintManager (duilib/Core/PaintManager.cpp): the pointers with      *)
(* which a window sends the mouse and the keyboard to its controls, the    *)
(* timers it keeps for them, and the life of the controls (Core/box.cpp,   *)
(* Core/Control.cpp).                                                      *)
(*                                                                         *)
(* All of it runs on one thread, but every event calls the program's       *)
(* handlers, which call back: they move the focus, hide and remove         *)
(* controls, replace the dialog or open a modal loop, which dispatches     *)
(* further messages.  So a message is followed from one handler to the     *)
(* next: stack holds the activations, those in which a handler runs        *)
(* ("event") and those that wait for it and then go on where their name    *)
(* says, with the control they had in a local variable.                    *)
(***************************************************************************)
EXTENDS Integers, Sequences, FiniteSets, SequencesExt

CONSTANTS Controls, None,
          Hideable,   \* the controls the program may hide and disable
          Timers,     \* the timers it may set: pairs of a control and a number
          Modulus,    \* 0xF0: timer identifiers are below it
          MaxDepth,   \* bound on handlers that run inside each other
          MaxTimers   \* bound on the timers allocated

ASSUME NoneAssumption == None \notin Controls
ASSUME SubsetsAssumption == Hideable \subseteq Controls /\ Timers \subseteq Controls \X Nat
ASSUME BoundsAssumption ==
    Modulus \in Nat \ {0} /\ {MaxDepth, MaxTimers} \subseteq Nat

VARIABLES
    status,     \* of each control: not there, in the tree, or removed and in
                \*   delayed_cleanup_, where it stays as long as the manager
    flags,      \* visible_, internel_visible_, enabled_ and focused_ of each
    focus,      \* focus_
    hover,      \* event_hover_
    click,      \* event_click_
    key,        \* event_key_
    timers,     \* timers_, whose order is of no consequence
    timerId,    \* timer_id_
    osTimers,   \* the timers the system runs for the window
    stack,      \* the activations
    wants,      \* history: the timers the program has set and not killed
    allocated,  \* history: the timer identifiers used
    inside,     \* history: the controls told that the mouse entered, not that it left
    nested,     \* history: a message was handled inside a handler
    reentered   \* history: the focus was moved while it was being taken away

focusVars == <<focus, reentered>>
pointers  == <<hover, click, key>>
mouseVars == <<pointers, inside>>
timerVars == <<timers, timerId, osTimers, wants, allocated>>
vars == <<status, flags, focusVars, mouseVars, timerVars, stack, nested>>

Fresh == {"visible", "intern", "enabled"}  \* the flags of a new control

Init ==
    /\ status = [c \in Controls |-> "none"] /\ flags = [c \in Controls |-> {}]
    /\ focus = None /\ hover = None /\ click = None /\ key = None
    /\ timers = {} /\ timerId = 4096 /\ osTimers = {}
    /\ stack = << >>
    /\ wants = {} /\ allocated = 0
    /\ inside = {} /\ nested = FALSE /\ reentered = FALSE

Exists   == {c \in Controls : status[c] # "none"}
InTree   == {c \in Controls : status[c] = "tree"}
Visible  == {c \in Controls : {"visible", "intern"} \subseteq flags[c]}
Enabled  == {c \in Controls : "enabled" \in flags[c]}

(* FindControl(pt): what is under the mouse.                                *)
FindControl == (InTree \cap Visible) \cup {None}

Handlers == Cardinality({k \in DOMAIN stack : stack[k].at = "event"})
Idle     == stack = << >>

(* The program's code runs: a handler, or a task of the message loop.       *)
Code     == IF Idle THEN TRUE ELSE Last(stack).at = "event"
Room     == Code /\ Handlers < MaxDepth

(* An activation that waits for a handler, with its local variable.         *)
At(where, c)    == <<[at |-> where, c |-> c]>>
Continue(where) == ~ Idle /\ Last(stack).at = where
Local           == Last(stack).c
Rest            == Front(stack)

(* Control::Event: the handler runs, and then what below holds goes on.     *)
Event(below)    == stack' = below \o At("event", None)

(* A message is dispatched, within a handler if that runs a modal loop;     *)
(* what the controls are told of the mouse is followed up to then.          *)
Told(set)    == inside' = IF nested' THEN {} ELSE set
Dispatch     == Room /\ nested' = (nested \/ ~ Idle)
Receive(set) == Dispatch /\ Told(set)

-----------------------------------------------------------------------------
(* The focus.                                                               *)

(* The second half of SetFocus(c): focus_ = old if c cannot have it.        *)
FocusOn(below, c, old) ==
    IF c \in Exists \cap Visible \cap Enabled
    THEN /\ focus' = c
         /\ flags' = [flags EXCEPT ![c] = @ \cup {"focused"}]
         /\ reentered' = (reentered \/ \E k \in DOMAIN below :
                                          below[k].at \in {"killed", "needed"})
         /\ Event(below)
    ELSE focus' = old /\ stack' = below /\ UNCHANGED <<flags, reentered>>

(* Mutant: the control that had the focus is not told.                      *)
SetFocus_Silent(below, c) ==
    IF c = focus THEN stack' = below /\ UNCHANGED <<focusVars, flags>>
                 ELSE FocusOn(below, c, focus)

SetFocus(below, c) ==
    CASE c = focus -> stack' = below /\ UNCHANGED <<focusVars, flags>>
      [] c # focus /\ focus # None /\ "focused" \in flags[focus] ->
           /\ flags' = [flags EXCEPT ![focus] = @ \ {"focused"}]
           /\ Event(below \o At("killed", c))
           /\ UNCHANGED focusVars
      [] OTHER -> FocusOn(below, c, focus)

(* The handler of kEventKillFocus is back: focus_ = NULL whatever it did.   *)
Killed ==
    /\ Continue("killed") /\ FocusOn(Rest, Local, None)
    /\ UNCHANGED <<status, mouseVars, timerVars, nested>>

(* SetFocusNeeded: focus_ becomes the next control in the tab order, which  *)
(* is not told.                                                             *)
SetFocusNeeded ==
    /\ Room /\ InTree # {}
    /\ IF focus # None
       THEN /\ flags' = [flags EXCEPT ![focus] = @ \ {"focused"}]
            /\ Event(stack \o At("needed", None))
            /\ UNCHANGED focus
       ELSE /\ focus' \in (InTree \cap Visible \cap Enabled) \cup {None}
            /\ UNCHANGED <<flags, stack>>
    /\ UNCHANGED <<status, reentered, mouseVars, timerVars, nested>>

Needed ==
    /\ Continue("needed")
    /\ focus' \in (InTree \cap Visible \cap Enabled) \cup {None}
    /\ stack' = Rest
    /\ UNCHANGED <<status, flags, reentered, mouseVars, timerVars, nested>>

-----------------------------------------------------------------------------
(* The messages of the mouse.                                               *)

(* The end of WM_MOUSEMOVE: a control that is pressed has the mouse.        *)
Move(below, c) ==
    IF click # None \/ c # None THEN Event(below) ELSE stack' = below

(* The mouse is now over c; old is the control it was over.                 *)
Enter(below, c, old) ==
    /\ hover' = old
    /\ IF c \notin {old, None} THEN Event(below \o At("entered", c)) ELSE Move(below, c)

Entering(c, old) == IF c \notin {old, None} THEN inside \cup {c} ELSE inside

(* The mouse that was over event_hover_ is over c.                          *)
MouseMoves(below, c) ==
    \/ /\ hover \notin {c, None}
       /\ Told(inside \ {hover})
       /\ Event(below \o At("left", c))
       /\ UNCHANGED hover
    \/ /\ hover \in {c, None}
       /\ Told(Entering(c, hover)) /\ Enter(below, c, hover)

(* WM_MOUSEMOVE with c under the mouse; WM_MOUSELEAVE sends it with none.   *)
WM_MOUSEMOVE(c) ==
    /\ Dispatch /\ MouseMoves(stack, c)
    /\ UNCHANGED <<status, flags, focusVars, click, key, timerVars>>

(* WM_MOUSEWHEEL sends one after the event, with what the handler left      *)
(* under the mouse.                                                         *)
WM_MOUSEWHEEL(c) ==
    /\ Receive(inside) /\ c # None
    /\ Event(stack \o At("wheel", None))
    /\ UNCHANGED <<status, flags, focusVars, pointers, timerVars>>

Wheel(c) ==
    /\ Continue("wheel") /\ UNCHANGED nested
    /\ MouseMoves(Rest, c)
    /\ UNCHANGED <<status, flags, focusVars, click, key, timerVars>>

Left ==
    /\ Continue("left") /\ UNCHANGED nested
    /\ Enter(Rest, Local, None) /\ Told(Entering(Local, None))
    /\ UNCHANGED <<status, flags, focusVars, click, key, timerVars>>

(* Mutant: event_hover_ stays as it is.                                     *)
Entered_Lost ==
    /\ Continue("entered") /\ Move(Rest, Local)
    /\ UNCHANGED <<status, flags, focusVars, mouseVars, timerVars, nested>>

Entered ==
    /\ Continue("entered") /\ hover' = Local /\ Move(Rest, Local)
    /\ UNCHANGED <<status, flags, focusVars, click, key, inside, timerVars, nested>>

WM_LBUTTONDOWN(c) ==
    /\ Receive(inside) /\ c # None
    /\ click' = c
    /\ SetFocus(stack \o At("down", None), c)
    /\ UNCHANGED <<status, hover, key, timerVars>>

(* WM_RBUTTONDOWN and WM_MBUTTONDOWN set event_click_ after the event.      *)
WM_RBUTTONDOWN(c) ==
    /\ Receive(inside) /\ c # None
    /\ SetFocus(stack \o At("press", c) \o At("down", None), c)
    /\ UNCHANGED <<status, pointers, timerVars>>

Down ==
    /\ Continue("down") /\ Event(Rest)
    /\ UNCHANGED <<status, flags, focusVars, mouseVars, timerVars, nested>>

WM_LBUTTONDBLCLK(c) ==
    /\ Receive(inside) /\ c # None
    /\ Event(stack \o At("press", c))
    /\ UNCHANGED <<status, flags, focusVars, pointers, timerVars>>

Press ==
    /\ Continue("press") /\ click' = Local /\ stack' = Rest
    /\ UNCHANGED <<status, flags, focusVars, hover, key, inside, timerVars, nested>>

WM_LBUTTONUP ==
    /\ Receive(inside) /\ click # None
    /\ click' = None /\ Event(stack)
    /\ UNCHANGED <<status, flags, focusVars, hover, key, timerVars>>

(* WM_RBUTTONUP and WM_MBUTTONUP make what is under the mouse event_click_. *)
WM_RBUTTONUP(c) ==
    /\ Receive(inside)
    /\ click' = c
    /\ IF c # None THEN Event(stack) ELSE UNCHANGED stack
    /\ UNCHANGED <<status, flags, focusVars, hover, key, timerVars>>

WM_CONTEXTMENU ==
    /\ Receive(inside) /\ click # None
    /\ Event(stack \o At("unclick", None))
    /\ UNCHANGED <<status, flags, focusVars, pointers, timerVars>>

Unclick ==
    /\ Continue("unclick") /\ click' = None /\ stack' = Rest
    /\ UNCHANGED <<status, flags, focusVars, hover, key, inside, timerVars, nested>>

-----------------------------------------------------------------------------
(* The other messages.                                                      *)

WM_KEYDOWN ==
    /\ Receive(inside) /\ focus # None
    /\ Event(stack \o At("keydown", None))
    /\ UNCHANGED <<status, flags, focusVars, pointers, timerVars>>

Keydown ==
    /\ Continue("keydown") /\ key' = focus /\ stack' = Rest
    /\ UNCHANGED <<status, flags, focusVars, hover, click, inside, timerVars, nested>>

WM_KEYUP ==
    /\ Receive(inside) /\ key # None
    /\ Event(stack \o At("keyup", None))
    /\ UNCHANGED <<status, flags, focusVars, pointers, timerVars>>

Keyup ==
    /\ Continue("keyup") /\ key' = None /\ stack' = Rest
    /\ UNCHANGED <<status, flags, focusVars, hover, click, inside, timerVars, nested>>

(* WM_SIZE, WM_CHAR (focus_), WM_MOUSEHOVER (event_hover_) and WM_SETCURSOR *)
(* (what is under the mouse) send an event and no more.                     *)
Forward(c) ==
    /\ Receive(inside) /\ c # None
    /\ Event(stack)
    /\ UNCHANGED <<status, flags, focusVars, pointers, timerVars>>

(* WM_CLOSE: kEventMouseLeave, kEventMouseButtonUp, SetFocus(NULL).         *)
WM_CLOSE ==
    /\ Receive(inside \ {hover})
    /\ \/ /\ hover # None
          /\ Event(stack \o At("close", None))
          /\ UNCHANGED <<focusVars, flags>>
       \/ /\ hover = None /\ click # None
          /\ Event(stack \o At("unfocus", None))
          /\ UNCHANGED <<focusVars, flags>>
       \/ /\ hover = None /\ click = None
          /\ SetFocus(stack, None)
    /\ UNCHANGED <<status, hover, click, key, timerVars>>

Close ==
    /\ \/ /\ Continue("close") /\ click # None
          /\ Event(Rest \o At("unfocus", None))
          /\ UNCHANGED <<focusVars, flags>>
       \/ /\ Continue("unfocus") \/ (Continue("close") /\ click = None)
          /\ SetFocus(Rest, None)
    /\ UNCHANGED <<status, mouseVars, timerVars, nested>>

-----------------------------------------------------------------------------
(* The timers.                                                              *)

Entry(c, l)  == {y \in timers : y.sender = c /\ y.local = l}
Live         == {y \in timers : y.live}
Switch(y, b) == timers' = (timers \ {y}) \cup {[y EXCEPT !.live = b]}

NextTimerId  == (timerId + 1) % Modulus

(* A timer that was killed is armed again; ::SetTimer may fail.             *)
SetTimer(c, l) ==
    /\ Room /\ c \in Exists
    /\ \/ \E y \in Entry(c, l) \ Live :
            /\ Switch(y, TRUE)
            /\ osTimers' = osTimers \cup {y.id}
            /\ wants' = wants \cup {<<c, l>>}
            /\ UNCHANGED <<timerId, allocated>>
       \/ /\ Entry(c, l) = {} /\ allocated < MaxTimers
          /\ timerId' = NextTimerId
          /\ allocated' = allocated + 1
          /\ \/ /\ timers' = timers \cup {[sender |-> c, local |-> l,
                                          id |-> NextTimerId, live |-> TRUE]}
                /\ osTimers' = osTimers \cup {NextTimerId}
                /\ wants' = wants \cup {<<c, l>>}
             \/ UNCHANGED <<timers, osTimers, wants>>
    /\ UNCHANGED <<status, flags, focusVars, mouseVars, stack, nested>>

(* Mutant: the system goes on with the timer.                               *)
KillTimer_Soft(c, l) ==
    /\ Room
    /\ \E y \in Entry(c, l) \cap Live : Switch(y, FALSE)
    /\ wants' = wants \ {<<c, l>>}
    /\ UNCHANGED <<status, flags, focusVars, mouseVars, timerId, osTimers,
                   allocated, stack, nested>>

KillTimer(c, l) ==
    /\ Room
    /\ \E y \in Entry(c, l) \cap Live :
          Switch(y, FALSE) /\ osTimers' = osTimers \ {y.id}
    /\ wants' = wants \ {<<c, l>>}
    /\ UNCHANGED <<status, flags, focusVars, mouseVars, timerId, allocated,
                   stack, nested>>

(* KillTimer(c) for each control of cs: the entries go too.                 *)
KillTimers(cs) ==
    /\ timers' = {y \in timers : y.sender \notin cs}
    /\ osTimers' = osTimers \ {y.id : y \in {z \in Live : z.sender \in cs}}
    /\ wants' = {w \in wants : w[1] \notin cs}
    /\ UNCHANGED <<timerId, allocated>>

(* The event goes to an entry that is alive and has this identifier.        *)
WM_TIMER(i) ==
    /\ Receive(inside) /\ \E y \in Live : y.id = i
    /\ Event(stack)
    /\ UNCHANGED <<status, flags, focusVars, pointers, timerVars>>

-----------------------------------------------------------------------------
(* The controls.                                                            *)

(* Box::Remove, AddDelayedCleanup: the control keeps its manager.           *)
BoxRemove(c) ==
    /\ Room /\ status[c] = "tree"
    /\ status' = [status EXCEPT ![c] = "cleanup"]
    /\ UNCHANGED <<flags, focusVars, mouseVars, timerVars, stack, nested>>

(* Mutant: event_click_ is forgotten.                                       *)
Reap_NotClick(cs) ==
    LET Reaped(p) == IF p \in cs THEN None ELSE p IN
    /\ status' = [c \in Controls |-> IF c \in cs THEN "none" ELSE status[c]]
    /\ flags'  = [c \in Controls |-> IF c \in cs THEN {} ELSE flags[c]]
    /\ focus' = Reaped(focus) /\ hover' = Reaped(hover) /\ key' = Reaped(key)
    /\ inside' = inside \ cs
    /\ KillTimers(cs)
    /\ UNCHANGED <<click, stack, nested, reentered>>

(* ReapObjects for each control of cs, from their destructors.              *)
Reap(cs) ==
    LET Reaped(p) == IF p \in cs THEN None ELSE p IN
    /\ status' = [c \in Controls |-> IF c \in cs THEN "none" ELSE status[c]]
    /\ flags'  = [c \in Controls |-> IF c \in cs THEN {} ELSE flags[c]]
    /\ focus' = Reaped(focus) /\ hover' = Reaped(hover)
    /\ click' = Reaped(click) /\ key' = Reaped(key)
    /\ inside' = inside \ cs
    /\ KillTimers(cs)
    /\ UNCHANGED <<stack, nested, reentered>>

(* A control whose box deletes it at once (delayed_destroy_ is FALSE, or    *)
(* the program's delete), with no handler about.                            *)
Destroy(c) ==
    /\ Idle /\ c \in InTree
    /\ Reap({c})

(* SetVisible clears focused_ first, so that its SetFocus(NULL) finds       *)
(* nobody to tell and leaves focus_ alone.                                  *)
SetVisible(c) ==
    /\ Room /\ c \in Exists \cap Hideable
    /\ flags' = [flags EXCEPT ![c] = SymDiff(@, {"visible"}) \ {"focused"}]
    /\ UNCHANGED <<status, focusVars, mouseVars, timerVars, stack, nested>>

(* SetInternVisible, from the box c is in.                                  *)
SetInternVisible(c) ==
    /\ Room /\ c \in Exists \cap Hideable
    /\ IF {"intern", "focused"} \subseteq flags[c] /\ focus = c
       THEN /\ flags' = [flags EXCEPT ![c] = @ \ {"intern", "focused"}]
            /\ Event(stack \o At("killed", None))
       ELSE /\ flags' = [flags EXCEPT ![c] = SymDiff(@, {"intern"})]
            /\ UNCHANGED stack
    /\ UNCHANGED <<status, focusVars, mouseVars, timerVars, nested>>

SetEnabled(c) ==
    /\ Room /\ c \in Exists \cap Hideable
    /\ flags' = [flags EXCEPT ![c] = SymDiff(@, {"enabled"})]
    /\ UNCHANGED <<status, focusVars, mouseVars, timerVars, stack, nested>>

New(c) == status[c] = "none" /\ \A k \in DOMAIN stack : stack[k] # At("attach", c)[1]

(* Box::Add, which hides a control from a hidden box; SetManager.           *)
Add(c) ==
    /\ Room /\ New(c)
    /\ status' = [status EXCEPT ![c] = "tree"]
    /\ \E hidden \in SUBSET {"intern"} :
          /\ hidden # {} => c \in Hideable
          /\ flags' = [flags EXCEPT ![c] = Fresh \ hidden]
    /\ UNCHANGED <<focusVars, mouseVars, timerVars, stack, nested>>

(* AttachDialog(c): SetFocus(NULL) ...                                      *)
AttachDialog(c) ==
    /\ Room /\ New(c)
    /\ SetFocus(stack \o At("attach", c), None)
    /\ UNCHANGED <<status, mouseVars, timerVars, nested>>

(* ... and then the old tree goes to delayed_cleanup_.                      *)
Attach ==
    /\ Continue("attach")
    /\ hover' = None /\ click' = None /\ key' = None
    /\ status' = [c \in Controls |-> IF c = Local THEN "tree"
                                     ELSE IF c \in InTree THEN "cleanup" ELSE status[c]]
    /\ flags' = [flags EXCEPT ![Local] = Fresh]
    /\ stack' = Rest
    /\ UNCHANGED <<focusVars, inside, timerVars, nested>>

-----------------------------------------------------------------------------
(* The handler returns.                                                     *)
Return ==
    /\ ~ Idle /\ Code
    /\ stack' = Rest
    /\ UNCHANGED <<status, flags, focusVars, mouseVars, timerVars, nested>>

(* PaintManager::SetFocus, and Control::SetFocus and SetNextTabControl      *)
(* through it.                                                              *)
MoveFocus(c) ==
    /\ Room /\ SetFocus(stack, c)
    /\ UNCHANGED <<status, mouseVars, timerVars, nested>>

Messages ==
    \/ \E c \in FindControl :
         \/ WM_MOUSEMOVE(c) \/ WM_MOUSEWHEEL(c) \/ WM_LBUTTONDOWN(c)
         \/ WM_RBUTTONDOWN(c) \/ WM_LBUTTONDBLCLK(c) \/ WM_RBUTTONUP(c)
    \/ WM_LBUTTONUP \/ WM_CONTEXTMENU \/ WM_KEYDOWN \/ WM_KEYUP \/ WM_CLOSE
    \/ \E c \in FindControl \cup {focus, hover} : Forward(c)
    \/ \E i \in osTimers : WM_TIMER(i)

Calls ==
    \/ SetFocusNeeded \/ \E c \in Exists \cup {None} : MoveFocus(c)
    \/ \E c \in Controls :
         \/ Add(c) \/ BoxRemove(c) \/ Destroy(c) \/ AttachDialog(c)
         \/ SetVisible(c) \/ SetInternVisible(c) \/ SetEnabled(c)
    \/ \E t \in Timers : SetTimer(t[1], t[2]) \/ KillTimer(t[1], t[2])

Resume ==
    \/ \E c \in FindControl : Wheel(c)
    \/ Killed \/ Needed \/ Left \/ Entered \/ Down \/ Press \/ Unclick
    \/ Keydown \/ Keyup \/ Close \/ Attach \/ Return

Next == Messages \/ Calls \/ Resume

Spec == Init /\ [][Next]_vars
-----------------------------------------------------------------------------
Frame == [at : {"event", "killed", "needed", "left", "entered", "wheel", "down",
                "press", "unclick", "keydown", "keyup", "close", "unfocus",
                "attach"},
          c  : Controls \cup {None}]

(* Every variable has its type; timer identifiers are below 0xF0, where     *)
(* the window's own begin.                                                  *)
TypeOK ==
    /\ status \in [Controls -> {"none", "tree", "cleanup"}]
    /\ flags \in [Controls -> SUBSET (Fresh \cup {"focused"})]
    /\ {focus, hover, click, key} \subseteq Controls \cup {None}
    /\ timers \subseteq [sender : Controls, local : Nat, id : 0..Modulus - 1,
                        live : BOOLEAN]
    /\ timerId \in (0..Modulus - 1) \cup {4096}
    /\ osTimers \subseteq 0..Modulus - 1
    /\ stack \in Seq(Frame)
    /\ wants \subseteq Timers
    /\ allocated \in 0..MaxTimers
    /\ inside \subseteq Controls
    /\ nested \in BOOLEAN /\ reentered \in BOOLEAN

(* Events are sent to controls that exist: no pointer and no timer of the   *)
(* manager outlives its control, whatever the handlers did meanwhile.       *)
PointersAlive ==
    /\ {focus, hover, click, key} \ {None} \subseteq Exists
    /\ \A y \in timers : y.sender \in Exists

(* A control believes it has the focus only if the manager gave it to it,   *)
(* so no two do; unless a handler of kEventKillFocus moved the focus, which *)
(* SetFocus then takes away without telling (focus_ = NULL after the event).*)
FocusIsOne ==
    ~ reentered => \A c \in Controls : "focused" \in flags[c] => focus = c

(* The timers that run are those the program set and has not killed, one    *)
(* entry for each; and the system runs just these, under an identifier of   *)
(* their own as long as timer_id_ has not come round.                       *)
TimersAsAsked ==
    /\ {<<y.sender, y.local>> : y \in Live} = wants
    /\ \A y, z \in timers : y.sender = z.sender /\ y.local = z.local => y = z
    /\ allocated <= Modulus =>
         /\ osTimers = {y.id : y \in Live}
         /\ \A y, z \in timers : y.id = z.id => y = z

(* A control told that the mouse came is told that it left: it is the one   *)
(* event_hover_ names or is about to, or it was removed.  (A message        *)
(* handled in a modal loop that the handler of kEventMouseEnter opened may  *)
(* be overwritten.)                                                         *)
HoverPaired ==
    ~ nested =>
        \A c \in inside :
            \/ c = hover \/ status[c] = "cleanup"
            \/ \E k \in DOMAIN stack : stack[k] = At("entered", c)[1]
=============================================================================
