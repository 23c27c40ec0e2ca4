-------------------------------- MODULE MCSync -------------------------------
(* Instances of Sync for TLC.                                              *)
EXTENDS Sync

\* A client clock a tick behind the server's, in step with it, or a tick ahead.
ClockSkews == {-1, 0, 1}

\* One write of any kind, whose row may be lost; two updates; or one update, while
\* the user logs in with a clock of its own.
VARIABLE world

UpdatesLand ==
    /\ \A w \in writes' : w.action = "update"
    /\ \A w \in writes \ writes' : w.stage = "appending" => log' # log

InWorld ==
    CASE world = "write" -> login' = login /\ \A r \in log' : r.key = 1
      [] world = "pair" -> login' = login /\ UpdatesLand
      [] world = "login" -> UpdatesLand /\ \A r \in log' : r.key = 1

WorldsInit == Init /\ world \in {"write", "pair", "login"}
WorldsNext == Next /\ InWorld /\ UNCHANGED world
WorldsSpec == WorldsInit /\ [][WorldsNext]_<<vars, world>> /\ Fairness
=============================================================================
