--------------------------- MODULE MCPaintManager ---------------------------
(***************************************************************************)
(* A small instance of PaintManager for TLC.                               *)
(***************************************************************************)
EXTENDS PaintManager

CONSTANTS button, edit  \* two controls

(* Two timers of the edit.                                                 *)
Blink == {<<edit, 1>>, <<edit, 2>>}

(* The timers and the mouse have only the life of a control in common:     *)
(* once there are timers, the mouse is elsewhere and handlers do not nest. *)
(* And once both histories have ended there is little left to follow.      *)
Small ==
    /\ ~ (nested /\ reentered)
    /\ allocated > 0 => /\ hover = None /\ click = None /\ key = None
                        /\ ~ nested /\ ~ reentered /\ Handlers <= 1
=============================================================================
