-------------------------- MODULE IdempotencyStore --------------------------
(***************************************************************************)
(* The idempotency_records table of SqliteIdempotencyStore                 *)
(* (idempotency_store.py), keyed by session id and tool call id, and the   *)
(* number of times each key's tool call has been sent to the MCP server.   *)
(* The approval executor and the graph's tool node share both.             *)
(***************************************************************************)
EXTENDS Naturals, Domain

VARIABLES idem,        \* key -> status of its record, "NONE" for no record
          dispatched   \* key -> number of call_tool calls made for it

IdempotencyStatus == {"RESERVED", "EXECUTING", "SUCCEEDED", "FAILED", "UNKNOWN"}

IdempotencyTypeOK ==
  /\ idem \in [Keys -> IdempotencyStatus \cup {"NONE"}]
  /\ dispatched \in [Keys -> Nat]

SetStatus(k, from, to) ==
  idem' = IF idem[k] \in from THEN [idem EXCEPT ![k] = to] ELSE idem

\* INSERT OR IGNORE
reserve(k) == SetStatus(k, {"NONE"}, "RESERVED")

mark_executing(k) == SetStatus(k, {"RESERVED"}, "EXECUTING")

mark_succeeded(k) == SetStatus(k, {"EXECUTING"}, "SUCCEEDED")

\* The only mark with no condition on the current status.
idem_mark_failed(k) == SetStatus(k, IdempotencyStatus, "FAILED")

idem_mark_unknown(k) == SetStatus(k, {"RESERVED", "EXECUTING"}, "UNKNOWN")

\* MCPClientAdapter.call_tool: the request leaves the process.
call_tool(k) == dispatched' = [dispatched EXCEPT ![k] = @ + 1]

=============================================================================
