---------------------------- MODULE MCAuditChain ----------------------------
(***************************************************************************)
(* AuditChain for TLC.  Three transactions over two workspaces: two that   *)
(* race for the first head row of a chain, a chain that is full before the *)
(* third, and writers of different workspaces that must not wait for each  *)
(* other.                                                                  *)
(***************************************************************************)
EXTENDS AuditChain
=============================================================================
