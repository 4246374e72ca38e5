------------------------ MODULE MCRefreshCoordinator ------------------------
(***************************************************************************)
(* RefreshCoordinator for TLC.  Two callers over two workspaces and three  *)
(* calls let callers share a flight, a flight end while a caller is        *)
(* between its check of the context and the mutex, and a workspace be      *)
(* refreshed again after its flight ended.                                 *)
(***************************************************************************)
EXTENDS RefreshCoordinator
=============================================================================
