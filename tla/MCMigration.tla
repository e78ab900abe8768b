---------------------------- MODULE MCMigration ----------------------------
(***************************************************************************)
(* Instances of Migration for TLC: HEALTH, or a second script that writes  *)
(* adaptive state, beside FAST; two versions.                              *)
(***************************************************************************)
EXTENDS Migration, TLC

TwoScripts == <<"health", "fast">>

\* Nothing distinguishes one version from another.
Symmetry == Permutations(Version)

=============================================================================
