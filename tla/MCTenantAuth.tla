---------------------------- MODULE MCTenantAuth ----------------------------
(* Small instances of TenantAuth for TLC. *)
EXTENDS TenantAuth, TLC

Alike == Permutations(Request) \union Permutations(Kid)

=============================================================================
