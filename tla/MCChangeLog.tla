----------------------------- MODULE MCChangeLog -----------------------------
(***************************************************************************)
(* The write path for TLC: the documents and the log (module ChangeLog),   *)
(* or the numeric _ids of new documents (NumericIds).  The log is of       *)
(* documents that have their _id, so a behaviour has the steps of one of   *)
(* the two.                                                                *)
(***************************************************************************)
EXTENDS ChangeLog, NumericIds

VARIABLE part

WritePathInit == part \in {"log", "ids"} /\ LogInit /\ IdsInit

WritePathNext ==
    \/ part = "log" /\ ReplayableNext /\ UNCHANGED <<part, idVars>>
    \/ part = "ids" /\ IdsNext /\ UNCHANGED <<part, logVars>>

WritePathSpec == WritePathInit /\ [][WritePathNext]_<<part, logVars, idVars>>

AllTypeOK == LogTypeOK /\ IdsTypeOK
=============================================================================
