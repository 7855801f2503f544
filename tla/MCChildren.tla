----------------------------- MODULE MCChildren -----------------------------
(***************************************************************************)
(* Six characters a child.  Three children undisturbed; a file too short   *)
(* for a child; one a character short of two children and one that is      *)
(* longer than two; two or three children with SIGINT and with a fork that *)
(* fails.                                                                  *)
(***************************************************************************)
EXTENDS Children, TLC

Situation(length, disturbances) ==
    [length |-> length, disturbances |-> disturbances]

SixSituations ==
    {Situation(18, {}), Situation(4, {}), Situation(11, {}),
     Situation(14, {"CtrlC"}), Situation(12, {"parent"}),
     Situation(18, {"fork"})}
=============================================================================
