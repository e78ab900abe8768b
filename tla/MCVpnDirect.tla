---------------------------- MODULE MCVpnDirect ----------------------------
(***************************************************************************)
(* Instance of VpnDirect for TLC: two processes, an address and a domain, *)
(* room for one of them.                                                   *)
(***************************************************************************)
EXTENDS VpnDirect, TLC

\* The processes cannot be told apart.
Symmetry == Permutations(Proc)

=============================================================================
