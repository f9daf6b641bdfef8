------------------------- MODULE MCApprovalExecutor -------------------------
(***************************************************************************)
(* Small instances of ApprovalExecutor for TLC.                            *)
(***************************************************************************)
EXTENDS ApprovalExecutor, TLC

\* Requests are interchangeable: each is given its session and actor by Init.
RequestSymmetry == Permutations(Requests)

AnyPrior == IdempotencyStatus \cup {"NONE"}

=============================================================================
