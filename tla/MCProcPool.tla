----------------------------- MODULE MCProcPool -----------------------------
(***************************************************************************)
(* ProcPool for TLC.  Jobs are interchangeable; processes are not, they    *)
(* are numbered by creation.                                               *)
(***************************************************************************)
EXTENDS ProcPool, TLC

Symmetry == Permutations(Jobs)
=============================================================================
