--------------------------- MODULE SingleUseGrant ---------------------------
(***************************************************************************)
(* What the approval workflow promises about one approved operation: it is *)
(* offered once, a human approves or voids it, an approved one is claimed  *)
(* at most once, the claimed operation is performed at most once and only  *)
(* while it is claimed, and a claim that is settled never reopens.         *)
(* ApprovalExecutor implements this.                                       *)
(***************************************************************************)
EXTENDS Naturals, Domain

VARIABLES phase,      \* session -> where its operation stands
          performed   \* key -> how often its tool call was sent

absVars == <<phase, performed>>

Phases == {"none", "offered", "approved", "claimed", "settled", "void"}

AbsTypeOK == phase \in [Sessions -> Phases] /\ performed \in [Keys -> {0, 1}]

AbsInit ==
  /\ phase = [s \in Sessions |-> "none"]
  /\ performed = [k \in Keys |-> 0]

Move(s, from, to) ==
  /\ phase[s] \in from
  /\ phase' = [phase EXCEPT ![s] = to]
  /\ UNCHANGED performed

Offer(s) == Move(s, {"none"}, "offered")
Approve(s) == Move(s, {"offered"}, "approved")
Void(s) == Move(s, {"offered", "approved"}, "void")
Claim(s) == Move(s, {"approved"}, "claimed")
Settle(s) == Move(s, {"claimed"}, "settled")

\* One tool call per session, and only one.
Perform(s, t) ==
  /\ phase[s] = "claimed"
  /\ \A u \in ToolIds : performed[<<s, u>>] = 0
  /\ performed' = [performed EXCEPT ![<<s, t>>] = 1]
  /\ UNCHANGED phase

AbsNext ==
  \E s \in Sessions :
    \/ Offer(s) \/ Approve(s) \/ Void(s) \/ Claim(s) \/ Settle(s)
    \/ \E t \in ToolIds : Perform(s, t)

AbsSpec == AbsInit /\ [][AbsNext]_absVars

=============================================================================
