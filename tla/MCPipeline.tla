----------------------------- MODULE MCPipeline -----------------------------
(***************************************************************************)
(* TwoWorkers lets serverZ overwrite its slot and scan past a taken        *)
(* worker; OneWorker gives each pool one worker and a request too many,    *)
(* so that serverY finds both full.                                        *)
(***************************************************************************)
EXTENDS Pipeline, TLC

CONSTANTS c1, c2, c3

Situation(r, clients, disturbances) ==
    [poolSize |-> 1, poolSize2 |-> r, clients |-> clients,
     disturbances |-> disturbances]

TwoWorkers == Situation(2, {c1, c2, c3}, {})
OneWorker == Situation(1, {c1, c2, c3}, {})
Interrupt == Situation(1, {c1, c2}, {"SIGINT"})
KillClients == Situation(1, {c1, c2, c3}, {"killed"})
FourSituations == {TwoWorkers, OneWorker, Interrupt, KillClients}
=============================================================================
