----------------------------- MODULE MCProjectInit -----------------------------
(* The instance of ProjectInit that TLC checks needs no definitions of its own: *)
(* one project, its bounds in the configurations.                               *)
EXTENDS ProjectInit
=============================================================================
