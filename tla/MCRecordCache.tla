---------------------------- MODULE MCRecordCache ----------------------------
(* Instances of RecordCache for TLC.                                         *)
EXTENDS RecordCache

CONSTANT MaxResetLog   \* MaxLog where caches are cleared

\* Changes of every kind, or updates while caches are cleared by resets and logins.
VARIABLE world

InWorld ==
    CASE world = "writes" -> sync'.stage # "reset" /\ login' = NoLogin
      [] world = "resets" ->
            /\ Len(log') <= MaxResetLog
            /\ log' # log => log'[Len(log')].action = "update"

WorldsInit == Init /\ world \in {"writes", "resets"}
WorldsNext == Next /\ InWorld /\ UNCHANGED world
WorldsSpec == WorldsInit /\ [][WorldsNext]_<<vars, world>>
=============================================================================
