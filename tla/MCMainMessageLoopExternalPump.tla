------------------- MODULE MCMainMessageLoopExternalPump -------------------
(***************************************************************************)
(* MainMessageLoopExternalPump for TLC: CEF asks for a slice at once, for  *)
(* one before kMaxTimerDelay and for one after it.                         *)
(***************************************************************************)
EXTENDS MainMessageLoopExternalPump

AtOnceSoonLate == {0, 1, 3}
============================================================================
