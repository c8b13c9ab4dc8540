----------------------------- MODULE MCRunFiles -----------------------------
(***************************************************************************)
(* The model-checking instances of CheckpointStore and AuthSessions, the   *)
(* two files of a run that outlive its scan.                               *)
(*                                                                         *)
(* Neither reads a variable of the other.  So each is explored while the   *)
(* other has not begun, the checkpoint beside any one kind of application, *)
(* and every behaviour of either one alone is a behaviour of FilesSpec.    *)
(***************************************************************************)
EXTENDS CheckpointStore, AuthSessions, TLC

FilesInit == Init /\ AuthInit
FilesNext ==
    \/ AuthInit /\ app = (CHOOSE a \in Apps : TRUE) /\ Next /\ UNCHANGED authVars
    \/ starts = 0 /\ requests = 0 /\ AuthNext /\ UNCHANGED vars
FilesSpec == FilesInit /\ [][FilesNext]_<<vars, authVars>>

RefreshSymmetry == Permutations(Refreshes)
=============================================================================
