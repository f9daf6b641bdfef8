---------------------------- MODULE MCHITLSystem ----------------------------
(***************************************************************************)
(* Small instances of HITLSystem for TLC.                                  *)
(***************************************************************************)
EXTENDS HITLSystem, TLC

CONSTANTS a, b, c   \* tool call ids

Read(t) == [id |-> t, kind |-> "READ", valid |-> TRUE]
Write(t) == [id |-> t, kind |-> "WRITE", valid |-> TRUE]
Malformed(t) == [id |-> t, kind |-> "WRITE", valid |-> FALSE]

\* A read and then a write; a read without an id, a malformed call, a repeated id.
MixedCalls == {<<Read(a), Write(b)>>, <<Read(NoId), Malformed(c), Read(a), Read(a)>>}
\* One write per answer: the same one, or different ones.
OneWrite == {<<Write(b)>>}
EitherWrite == {<<Write(b)>>, <<Write(c)>>}
\* A write after a read, or another write.
DifferentWrites == {<<Read(a), Write(b)>>, <<Write(c)>>}

Suspending == {RequireApprovalPolicy}
EitherPolicy == {ReadOnlyPolicy, RequireApprovalPolicy}

\* Hypotheses of the theorems, in every instance.
ASSUME HypothesesHold == IdNamesOneTool /\ ReadsDoNotWait

NoPrior == {"NONE"}
RequestSymmetry == Permutations(Requests)

=============================================================================
