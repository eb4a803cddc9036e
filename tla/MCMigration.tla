---------------------------- MODULE MCMigration ----------------------------
(* Two engines, three names of migrations and two schemas beside the empty  *)
(* one.                                                                     *)
EXTENDS Migration, TLC

CONSTANTS p1, p2, s1

MCProcs == {p1, p2}
MCIds == 1..3
MCSchemas == {Empty, s1}
MCSymmetry == Permutations(MCProcs) 
=============================================================================
