----------------------------- MODULE EventStore -----------------------------
(***************************************************************************)
(* The events table of SqliteEventStore (persistence.py) for the run ids   *)
(* that are session ids.  (run_id, seq) is UNIQUE and every writer         *)
(* swallows the error of a failed insert: the first event stored under a   *)
(* sequence number keeps it and later ones are lost.                       *)
(***************************************************************************)
EXTENDS Naturals, Domain

VARIABLE events   \* session -> sequence number -> kind of the stored event

Seqs == 0..4

EventKind ==
  {"USER_MESSAGE", "INTENT_CLASSIFIED", "HITL_INTERRUPT", "AGENT_MESSAGE",
   "CHECKPOINT", "RECONCILIATION_REQUIRED",
   "APPROVAL_GRANTED", "APPROVAL_REJECTED", "GRANT_CLAIMED", "REPLAY_DENIED",
   "MCP_DISPATCH_STARTED", "MCP_EXECUTION_SUCCEEDED", "MCP_EXECUTION_FAILED",
   "MCP_EXECUTION_UNKNOWN"}

EmptyTrail == [q \in Seqs |-> "NONE"]

\* What AgentRuntime.run stores under the session id before it answers: without an
\* intent router, with one, and by the time the run is suspended.
RunTrail == [EmptyTrail EXCEPT ![0] = "USER_MESSAGE"]
RoutedTrail == [RunTrail EXCEPT ![1] = "INTENT_CLASSIFIED"]
SuspendedTrail == [RunTrail EXCEPT ![1] = "HITL_INTERRUPT"]

EventTypeOK == events \in [Sessions -> [Seqs -> EventKind \cup {"NONE"}]]

persist_event(s, seq, kind) ==
  events' = IF events[s][seq] = "NONE"
              THEN [events EXCEPT ![s] = [@ EXCEPT ![seq] = kind]]
              ELSE events

=============================================================================
