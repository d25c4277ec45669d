------------------------------ MODULE MCWorkspace ------------------------------
(***************************************************************************)
(* Three processes, one of them of an older build.                         *)
(***************************************************************************)
EXTENDS Workspace, TLC

CONSTANTS old, new1, new2

MCBuild == old :> 1 @@ new1 :> 2 @@ new2 :> 2

NewSymmetry == Permutations({new1, new2})
=============================================================================
