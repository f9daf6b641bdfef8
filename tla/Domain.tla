------------------------------- MODULE Domain -------------------------------
(***************************************************************************)
(* The identifiers the durable tables are keyed by.  A session id names a  *)
(* conversation: it is the LangGraph thread id, the run id of its events   *)
(* and the primary key of its HITL session and of its grant.  A tool call  *)
(* id is chosen by the model provider and may be empty.                    *)
(***************************************************************************)

CONSTANTS Sessions,   \* session ids
          ToolIds,    \* non-empty tool call ids
          NoId        \* the empty tool call id

ASSUME NoIdAssumption == NoId \notin ToolIds

\* f"{session_id}:{tool_call_id}", the idempotency key of a tool call.
Keys == Sessions \X ToolIds

=============================================================================
