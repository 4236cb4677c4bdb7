--------------------------- MODULE MCThreadManager ---------------------------
(***************************************************************************)
(* Small instances of ThreadManager for TLC.                               *)
(***************************************************************************)
EXTENDS ThreadManager

CONSTANTS ui, misc  \* two threads

(* misc may be stopped and started again.                                   *)
Loops == [t \in {ui, misc} |-> IF t = misc THEN 2 ELSE 1]
=============================================================================
