------------------------- MODULE MCWinUIMessagePump -------------------------
(***************************************************************************)
(* Small instances of WinUIMessagePump for TLC.                            *)
(***************************************************************************)
EXTENDS WinUIMessagePump, TLC

CONSTANTS box,    \* a task that opens a message box
          plain,  \* a task that does nothing
          late,   \* a delayed task
          later   \* one with twice the delay, which quits

MCDelay == [t \in Tasks |-> CASE t = late  -> 1
                              [] t = later -> 2
                              [] OTHER     -> 0]

MCScript == [t \in Tasks |->
    CASE t = box   -> {"Allow", "Modal"}
      [] t = later -> {"Quit"}
      [] OTHER     -> {}]

(* The first delayed task opens a message box.                              *)
MCModalTimerScript == [MCScript EXCEPT ![late] = {"Modal"}]

(* The posters are alike.                                                   *)
MCSymmetry == Permutations(Posters)
=============================================================================
