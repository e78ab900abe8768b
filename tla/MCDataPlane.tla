---------------------------- MODULE MCDataPlane ----------------------------
(***************************************************************************)
(* Instances of DataPlane for TLC: two to five connections to one          *)
(* destination at one port.                                                *)
(***************************************************************************)
EXTENDS DataPlane, TLC

CONSTANTS p1, a

\* Every connection addresses the same tuple.
OneTuple == [c \in Conn |-> <<p1, a>>]

\* Connections to one tuple are interchangeable.
Symmetry == Permutations(Conn)

=============================================================================
