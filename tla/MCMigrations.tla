---------------------------- MODULE MCMigrations ----------------------------
(***************************************************************************)
(* Small instances of Migrations for TLC.                                  *)
(***************************************************************************)
EXTENDS Migrations, TLC

\* The file an earlier release with CURRENT_SCHEMA_VERSION v left behind.
Made(v, sessions) ==
  [version |-> v, base |-> v >= 1,
   grants |-> IF v < 2 THEN "none" ELSE IF v = 2 THEN "v2" ELSE IF v < 5 THEN "v3" ELSE "v5",
   replacements |-> {}, tool_call_id |-> v >= 4, writes |-> v >= 6,
   rows |-> IF v < 2 THEN {} ELSE sessions, recon |-> {},
   dup |-> FALSE, unfit |-> FALSE]

Released == {Made(v, S) : v \in 0..CURRENT_SCHEMA_VERSION, S \in SUBSET Sessions}
Unsafe ==
  {[Made(CURRENT_SCHEMA_VERSION, Sessions) EXCEPT !.version = CURRENT_SCHEMA_VERSION + 1],
   [Made(2, Sessions) EXCEPT !.dup = TRUE], [Made(2, Sessions) EXCEPT !.unfit = TRUE]}
AnyDatabase == Released \cup Unsafe

ConnSymmetry == Permutations(Conns)

=============================================================================
