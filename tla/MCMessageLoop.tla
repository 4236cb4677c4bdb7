---------------------------- MODULE MCMessageLoop ----------------------------
(***************************************************************************)
(* Small instances of MessageLoop for TLC.                                 *)
(***************************************************************************)
EXTENDS MessageLoop

CONSTANTS outer,  \* a nestable task that starts nested loops
          plain,  \* a nestable task that quits
          only,   \* a non-nestable task
          late,   \* a delayed task that starts a nested loop
          soon    \* one that quits

(* In MCMessageLoop_loop.cfg plain is delayed too, by nothing: it is due at *)
(* once, but goes through the delayed work queue.                           *)
MCDelay == [t \in Tasks |-> IF t = late THEN 1 ELSE 0]

MCScript == [t \in Tasks |->
    CASE t = outer -> {"Allow", "Run"}
      [] t = plain -> {"Quit", "QuitNow"}
      [] t = only  -> {"Post"}
      [] t = late  -> {"RunAllPending"}
      [] OTHER     -> {"Quit"}]

(* Nested loops that end by themselves.                                     *)
MCLiveScript == [t \in Tasks |->
    CASE t = outer -> {"Allow", "RunAllPending"}
      [] t = plain -> {"Quit"}
      [] OTHER     -> {"Post", "RunAllPending"}]
=============================================================================
