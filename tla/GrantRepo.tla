----------------------------- MODULE GrantRepo -----------------------------
(***************************************************************************)
(* The approved_operation_grants table of GrantRepository (grant_repo.py). *)
(* Every status change is one conditional UPDATE, so each operator below   *)
(* is the effect of one atomic statement.                                  *)
(*                                                                         *)
(* The user, thread, run, tool, digest and key columns that atomic_consume *)
(* compares are copied by one /agent request into the session row and the  *)
(* grant row, and no statement updates them: that part of its WHERE clause *)
(* is always true and is left out.  The status, the approving actor and    *)
(* the expiry are what can differ.                                         *)
(***************************************************************************)
EXTENDS HITLStore

CONSTANTS Actors,   \* identities the actor resolver can return
          NoActor   \* resolve() returned None

ASSUME GrantRepoAssumption == NoActor \notin Actors

VARIABLE grant

GrantStatus ==
  {"PENDING", "APPROVED", "CONSUMING", "CONSUMED", "FAILED", "UNKNOWN",
   "REJECTED", "RECONCILIATION_REQUIRED"}

\* The statuses a grant has from the moment it is claimed on.
ClaimedStatus == {"CONSUMING", "CONSUMED", "FAILED", "UNKNOWN"}

GrantRecord ==
  [status : GrantStatus \cup {"NONE"}, approving_actor_id : Actors \cup {NoActor}]

NoGrant == [status |-> "NONE", approving_actor_id |-> NoActor]

GrantTypeOK == grant \in [Sessions -> GrantRecord]

GrantInit == grant = [s \in Sessions |-> NoGrant]

insert_pending(s) ==
  /\ grant[s].status = "NONE"
  /\ grant' = [grant EXCEPT ![s].status = "PENDING"]

\* Every mark_* statement: from a set of statuses to one status.
Mark(s, from, to) ==
  grant' = IF grant[s].status \in from
             THEN [grant EXCEPT ![s].status = to]
             ELSE grant

\* Mutant: approve_pending does not compare the status.
Approvable_NoStatusCheck(s) == grant[s].status # "NONE"

\* approve_pending's WHERE clause.  The version column of a grant is 1 forever.
Approvable(s) == grant[s].status = "PENDING"

approve_pending(s, actor) ==
  grant' = IF Approvable(s)
             THEN [grant EXCEPT ![s].status = "APPROVED",
                                ![s].approving_actor_id = actor]
             ELSE grant

\* Mutant: the claim forgets the expires_at column.
Claimable_IgnoresExpiry(s, actor) ==
  grant[s].status = "APPROVED" /\ grant[s].approving_actor_id \in {actor, NoActor}

\* atomic_consume's WHERE clause.
Claimable(s, actor) ==
  /\ grant[s].status = "APPROVED"
  /\ grant[s].approving_actor_id \in {actor, NoActor}
  /\ ~is_expired(s)

atomic_consume(s, actor) ==
  grant' = IF Claimable(s, actor)
             THEN [grant EXCEPT ![s].status = "CONSUMING"]
             ELSE grant

\* Mutant: the status of the idempotency record is written into the grant.
mark_consumed_RecordStatus(s) == Mark(s, {"CONSUMING"}, "SUCCEEDED")

mark_consumed(s) == Mark(s, {"CONSUMING"}, "CONSUMED")

grant_mark_failed(s) == Mark(s, {"CONSUMING"}, "FAILED")

grant_mark_unknown(s) == Mark(s, {"CONSUMING"}, "UNKNOWN")

\* Mutant: a rejection cancels the grant whatever its status.
mark_rejected_Always(s) == Mark(s, GrantStatus, "REJECTED")

mark_rejected(s) == Mark(s, {"PENDING", "APPROVED"}, "REJECTED")

mark_reconciliation_required(s) == Mark(s, {"PENDING"}, "RECONCILIATION_REQUIRED")

=============================================================================
