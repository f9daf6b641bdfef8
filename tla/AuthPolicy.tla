----------------------------- MODULE AuthPolicy -----------------------------
(***************************************************************************)
(* The authorization gateway (auth.py) as the routes of the agent see it:  *)
(* a policy decides each operation by its kind alone.                      *)
(***************************************************************************)

\* WRITE stands for every kind that is not READ: no policy tells them apart.
Kinds == {"READ", "WRITE"}
Decisions == {"APPROVED", "DENIED", "PENDING"}

\* The gateway's policies: the one bootstrap.py installs, and the one under
\* which writes wait for a human.
ReadOnlyPolicy == [READ |-> "APPROVED", WRITE |-> "DENIED"]
RequireApprovalPolicy == [READ |-> "APPROVED", WRITE |-> "PENDING"]

=============================================================================
