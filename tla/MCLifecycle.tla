---------------------------- MODULE MCLifecycle ----------------------------
(***************************************************************************)
(* Small instances of Lifecycle for TLC.                                   *)
(***************************************************************************)
EXTENDS Lifecycle, MCMigrations

Durable ==
  [db_path |-> TRUE, configured |-> FALSE, token |-> TRUE, production_mode |-> FALSE,
   resolver |-> "none"]
\* With a path, without one, with one that only the configuration names, and refused.
SomeConfigs ==
  {Durable, [Durable EXCEPT !.db_path = FALSE],
   [Durable EXCEPT !.db_path = FALSE, !.configured = TRUE],
   [Durable EXCEPT !.production_mode = TRUE]}

=============================================================================
