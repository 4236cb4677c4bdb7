--------------------------- MODULE MCObjectWatcher ---------------------------
(***************************************************************************)
(* A small instance of ObjectWatcher for TLC.                              *)
(***************************************************************************)
EXTENDS ObjectWatcher

CONSTANTS process, event   \* two objects
=============================================================================
