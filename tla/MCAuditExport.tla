---------------------------- MODULE MCAuditExport ---------------------------
(***************************************************************************)
(* One client, whose requests may overlap, and other requests of the hub.  *)
(***************************************************************************)
EXTENDS AuditExport, TLC

Symmetry == Permutations(Txs) \union Permutations(Workspaces)
=============================================================================
