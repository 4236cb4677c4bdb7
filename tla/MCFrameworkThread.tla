-------------------------- MODULE MCFrameworkThread --------------------------
(***************************************************************************)
(* Small instances of FrameworkThread for TLC.                             *)
(***************************************************************************)
EXTENDS FrameworkThread

CONSTANTS first, second,  \* two plain tasks
          late            \* a delayed one
=============================================================================
