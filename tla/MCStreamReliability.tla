-------------------------- MODULE MCStreamReliability --------------------------
(***************************************************************************)
(* Instances of StreamReliability for TLC.                                 *)
(***************************************************************************)
EXTENDS StreamReliability, TLC

CONSTANTS g1, g2, c1, c2

\* The deployment of the orchestrator and of the project pods (Recreate, one replica).
OneProcess == (c1 :> g1)

\* A rolling update of backend or ingress: two processes read for one group.
TwoProcesses == (c1 :> g1 @@ c2 :> g1)

\* orch:control with two projects: every control pod has a group of its own.
TwoGroups == (c1 :> g1 @@ c2 :> g2)

Processes == Permutations({c1, c2})

=============================================================================
