----------------------------- MODULE AgentGraph -----------------------------
(***************************************************************************)
(* The LangGraph loop of graph.py: agent_node asks the model, tool_node    *)
(* validates, authorises and executes the tool calls of its answer one by  *)
(* one, and an operation that needs a human suspends the thread.           *)
(*                                                                         *)
(* A driver is a coroutine that runs the graph on a thread: a POST /agent  *)
(* request (AgentRuntime.run) or an /agent/approve request that resumes    *)
(* the thread (AgentRuntime.resume).  Its state is in memory; ckpt is what *)
(* SqliteCheckpointSaver stored after the last completed node.  LangGraph  *)
(* itself is external: interrupt() abandons the node, a resumed thread     *)
(* re-executes the interrupted node from its first tool call, and the      *)
(* resume value answers the first interrupt() the driver then reaches.     *)
(***************************************************************************)
EXTENDS IdempotencyStore, AuthPolicy, Sequences

CONSTANTS Drivers,         \* coroutines that may run the graph
          Messages,        \* tool-call lists the model may answer with
          Policies,        \* policies the gateway may have been built with
          MaxAgentSteps    \* AgentConfig.max_agent_steps

ToolCall == [id : ToolIds \cup {NoId}, kind : Kinds, valid : BOOLEAN]

ASSUME GraphAssumption ==
  /\ Messages \subseteq Seq(ToolCall) \ {<<>>}
  /\ Policies \subseteq [Kinds -> Decisions]
  /\ MaxAgentSteps \in Nat

VARIABLES ckpt,     \* thread -> checkpoint: next node, step_count, message, executed ids
          at,       \* driver -> awaited call it makes next, or how it ended
          thread,   \* driver -> its thread
          policy,   \* operation kind -> decision of the gateway, fixed at start-up
          mem,      \* driver -> state channels in memory
          pos,      \* driver -> index of the tool call tool_node is at
          done,     \* driver -> tool_node's local executed_ids
          resume,   \* driver -> resume value not yet consumed by an interrupt
          canon,    \* driver -> call whose arguments the resume value carries
          args,     \* driver -> call whose arguments the call at pos is made with
          ok        \* driver -> ToolResult.success of the last call

argVars == <<canon, args>>
driverVars == <<at, thread, policy, mem, pos, done, resume, argVars, ok>>
graphVars == <<ckpt, driverVars>>

AgentState == [node : {"start", "agent_node", "tool_node", "end"}, step : Nat,
               msg : Messages \cup {<<>>}, ids : SUBSET ToolIds]

Blank == [node |-> "start", step |-> 0, msg |-> <<>>, ids |-> {}]

Ended == {"answered", "interrupted", "failed", "died"}
Labels == {"unused", "agent_node", "tool_call", "idem_get", "mark_executing", "idem_recheck",
           "reserve", "call_tool", "settle"} \cup Ended

GraphTypeOK ==
  /\ ckpt \in [Sessions -> AgentState]
  /\ at \in [Drivers -> Labels]
  /\ thread \in [Drivers -> Sessions]
  /\ policy \in Policies
  /\ mem \in [Drivers -> AgentState]
  /\ pos \in [Drivers -> Nat]
  /\ done \in [Drivers -> SUBSET ToolIds]
  /\ resume \in [Drivers -> {"none", "approved", "rejected"}]
  /\ canon \in [Drivers -> ToolIds \cup {NoId}]
  /\ args \in [Drivers -> ToolIds \cup {NoId}]
  /\ ok \in [Drivers -> BOOLEAN]

GraphInit ==
  /\ ckpt = [s \in Sessions |-> Blank]
  /\ at = [d \in Drivers |-> "unused"]
  /\ thread \in [Drivers -> Sessions]
  /\ policy \in Policies
  /\ mem = [d \in Drivers |-> Blank]
  /\ pos = [d \in Drivers |-> 0]
  /\ done = [d \in Drivers |-> {}]
  /\ resume = [d \in Drivers |-> "none"]
  /\ canon = [d \in Drivers |-> NoId]
  /\ args = [d \in Drivers |-> NoId]
  /\ ok = [d \in Drivers |-> FALSE]

Call(d) == mem[d].msg[pos[d]]
CallKey(d) == <<thread[d], Call(d).id>>
Move(d, label) == at' = [at EXCEPT ![d] = label]

\* tool_node is entered at its first call, with a copy of the executed ids.
EnterToolNode(d, state) ==
  /\ mem' = [mem EXCEPT ![d] = state]
  /\ pos' = [pos EXCEPT ![d] = 1]
  /\ done' = [done EXCEPT ![d] = state.ids]
  /\ Move(d, "tool_call")

\* The call is finished, with or without its id counting as executed.
Skip(d) == pos' = [pos EXCEPT ![d] = @ + 1] /\ Move(d, "tool_call") /\ UNCHANGED done

\* Mutant: the id of an executed call is not remembered.
Finish_Forgotten(d) == Skip(d)

Finish(d) ==
  /\ pos' = [pos EXCEPT ![d] = @ + 1]
  /\ done' = [done EXCEPT ![d] = @ \cup ({Call(d).id} \ {NoId})]
  /\ Move(d, "tool_call")

-----------------------------------------------------------------------------
(* Entry points                                                            *)

\* AgentRuntime.run on the plain graph route: a fresh state on the thread.
RunGraph(d) ==
  /\ at[d] = "unused"
  /\ mem' = [mem EXCEPT ![d] = [Blank EXCEPT !.node = "agent_node"]]
  /\ ckpt' = [ckpt EXCEPT ![thread[d]] = mem'[d]]
  /\ Move(d, "agent_node")
  /\ UNCHANGED <<thread, policy, pos, done, resume, argVars, ok, idem, dispatched>>

\* _execute_transfer_workflow: step_count starts at 1 and the executed ids of
\* the thread stay.
RunTransferWorkflow(d) ==
  /\ at[d] = "unused"
  /\ mem' = [mem EXCEPT ![d] = [Blank EXCEPT !.node = "agent_node", !.step = 1,
                                             !.ids = ckpt[thread[d]].ids]]
  /\ ckpt' = [ckpt EXCEPT ![thread[d]] = mem'[d]]
  /\ Move(d, "agent_node")
  /\ UNCHANGED <<thread, policy, pos, done, resume, argVars, ok, idem, dispatched>>

\* AgentRuntime.resume: Command(resume=...) on the thread's last checkpoint.  A
\* thread with no next node has nothing to run.
Resume(d, decision, canonical_args) ==
  LET state == ckpt[thread[d]]
  IN /\ at[d] = "unused"
     /\ resume' = [resume EXCEPT ![d] = decision]
     /\ canon' = [canon EXCEPT ![d] = canonical_args]
     /\ \/ state.node = "tool_node" /\ EnterToolNode(d, state)
        \/ /\ state.node = "agent_node"
           /\ mem' = [mem EXCEPT ![d] = state]
           /\ Move(d, "agent_node")
           /\ UNCHANGED <<pos, done>>
        \/ /\ state.node \in {"start", "end"}
           /\ Move(d, "answered")
           /\ UNCHANGED <<mem, pos, done>>
     /\ UNCHANGED <<ckpt, thread, policy, args, ok, idem, dispatched>>

-----------------------------------------------------------------------------
(* agent_node                                                              *)

\* Mutant: the step limit is compared after the increment is forgotten.
AgentNode_UncountedStep(d) ==
  /\ at[d] = "agent_node"
  /\ mem[d].step < MaxAgentSteps
  /\ \E m \in Messages :
       LET state == [mem[d] EXCEPT !.node = "tool_node", !.msg = m]
       IN EnterToolNode(d, state) /\ ckpt' = [ckpt EXCEPT ![thread[d]] = state]
  /\ UNCHANGED <<thread, policy, resume, argVars, ok, idem, dispatched>>

AgentNode(d) ==
  /\ at[d] = "agent_node"
  /\ mem[d].step < MaxAgentSteps
  /\ \E m \in Messages :
       LET state == [mem[d] EXCEPT !.node = "tool_node", !.msg = m, !.step = @ + 1]
       IN EnterToolNode(d, state) /\ ckpt' = [ckpt EXCEPT ![thread[d]] = state]
  /\ UNCHANGED <<thread, policy, resume, argVars, ok, idem, dispatched>>

FinalAnswer(d) ==
  /\ at[d] = "agent_node"
  /\ mem[d].step < MaxAgentSteps
  /\ mem' = [mem EXCEPT ![d] = [mem[d] EXCEPT !.node = "end", !.step = @ + 1, !.msg = <<>>]]
  /\ ckpt' = [ckpt EXCEPT ![thread[d]] = mem'[d]]
  /\ Move(d, "answered")
  /\ UNCHANGED <<thread, policy, pos, done, resume, argVars, ok, idem, dispatched>>

\* max_agent_steps is exceeded, or llm.invoke raises.
AgentNodeFails(d) ==
  /\ at[d] = "agent_node"
  /\ Move(d, "failed")
  /\ UNCHANGED <<ckpt, thread, policy, mem, pos, done, resume, argVars, ok, idem, dispatched>>

-----------------------------------------------------------------------------
(* tool_node                                                               *)

MoreCalls(d) == at[d] = "tool_call" /\ pos[d] <= Len(mem[d].msg)

AlreadyExecuted(d) == Call(d).id # NoId /\ Call(d).id \in done[d]

\* Rejected by validation, already executed, or denied by the gateway.
SkipCall(d) ==
  /\ MoreCalls(d)
  /\ \/ ~Call(d).valid
     \/ AlreadyExecuted(d)
     \/ policy[Call(d).kind] = "DENIED"
  /\ Skip(d)
  /\ UNCHANGED <<ckpt, thread, policy, mem, resume, argVars, ok, idem, dispatched>>

Considered(d, decision) ==
  /\ MoreCalls(d)
  /\ Call(d).valid /\ ~AlreadyExecuted(d)
  /\ policy[Call(d).kind] = decision

\* A call without an id has no idempotency key: it goes straight to the server.
Execute(d) == Move(d, IF Call(d).id = NoId THEN "call_tool" ELSE "idem_get")

AllowedCall(d) ==
  /\ Considered(d, "APPROVED")
  /\ Execute(d)
  /\ args' = [args EXCEPT ![d] = Call(d).id]
  /\ UNCHANGED <<ckpt, thread, policy, mem, pos, done, resume, canon, ok, idem, dispatched>>

\* interrupt() with no resume value left: the node's work so far is dropped.
Interrupt(d) ==
  /\ Considered(d, "PENDING")
  /\ resume[d] = "none"
  /\ Move(d, "interrupted")
  /\ UNCHANGED <<ckpt, thread, policy, mem, pos, done, resume, argVars, ok, idem, dispatched>>

\* Mutant: the call keeps the arguments the model gave it.
ResumedCall_ModelArgs(d) ==
  /\ Considered(d, "PENDING")
  /\ resume[d] # "none"
  /\ resume' = [resume EXCEPT ![d] = "none"]
  /\ \/ /\ resume[d] = "approved" /\ Execute(d) /\ UNCHANGED <<pos, done>>
        /\ args' = [args EXCEPT ![d] = Call(d).id]
     \/ resume[d] = "rejected" /\ Finish(d) /\ UNCHANGED args
  /\ UNCHANGED <<ckpt, thread, policy, mem, canon, ok, idem, dispatched>>

\* interrupt() returns the resume value: the call that is at pos goes ahead, whichever
\* it is, with the arguments of the call that was approved.
ResumedCall(d) ==
  /\ Considered(d, "PENDING")
  /\ resume[d] # "none"
  /\ resume' = [resume EXCEPT ![d] = "none"]
  /\ \/ /\ resume[d] = "approved" /\ Execute(d) /\ UNCHANGED <<pos, done>>
        /\ args' = [args EXCEPT ![d] = canon[d]]
     \/ resume[d] = "rejected" /\ Finish(d) /\ UNCHANGED args
  /\ UNCHANGED <<ckpt, thread, policy, mem, canon, ok, idem, dispatched>>

\* Step 5: the durable record decides.
CheckRecord(d) ==
  LET status == idem[CallKey(d)]
      blocked == \/ status = "SUCCEEDED"
                 \/ status \in {"EXECUTING", "UNKNOWN"} /\ Call(d).kind # "READ"
  IN /\ at[d] = "idem_get"
     /\ \/ blocked /\ Finish(d)
        \/ status \in {"FAILED", "RESERVED"} /\ Move(d, "mark_executing") /\ UNCHANGED <<pos, done>>
        \/ /\ ~blocked /\ status \notin {"FAILED", "RESERVED"}
           /\ Move(d, "idem_recheck") /\ UNCHANGED <<pos, done>>
     /\ UNCHANGED <<ckpt, thread, policy, mem, resume, argVars, ok, idem, dispatched>>

\* On a FAILED record mark_executing changes nothing.
MarkExecuting(d) ==
  /\ at[d] = "mark_executing"
  /\ mark_executing(CallKey(d))
  /\ Move(d, "idem_recheck")
  /\ UNCHANGED <<ckpt, thread, policy, mem, pos, done, resume, argVars, ok, dispatched>>

RecheckRecord(d) ==
  /\ at[d] = "idem_recheck"
  /\ Move(d, IF idem[CallKey(d)] = "NONE" THEN "reserve" ELSE "call_tool")
  /\ UNCHANGED <<ckpt, thread, policy, mem, pos, done, resume, argVars, ok, idem, dispatched>>

Reserve(d) ==
  /\ at[d] = "reserve"
  /\ reserve(CallKey(d))
  /\ Move(d, "call_tool")
  /\ UNCHANGED <<ckpt, thread, policy, mem, pos, done, resume, argVars, ok, dispatched>>

\* Mutant: a write that raised is called again.
CallTool_RetriesWrite(d) ==
  /\ at[d] = "call_tool"
  /\ IF Call(d).id = NoId THEN UNCHANGED dispatched ELSE call_tool(CallKey(d))
  /\ \/ /\ \E b \in BOOLEAN : ok' = [ok EXCEPT ![d] = b]
        /\ IF Call(d).id = NoId THEN Finish(d) ELSE Move(d, "settle") /\ UNCHANGED <<pos, done>>
     \/ /\ Move(d, IF Call(d).kind = "READ" THEN "failed" ELSE "call_tool")
        /\ UNCHANGED <<ok, pos, done>>
  /\ UNCHANGED <<ckpt, thread, policy, mem, resume, argVars, idem>>

\* The call returns success or an error result, or raises out of the graph.
CallTool(d) ==
  /\ at[d] = "call_tool"
  /\ IF Call(d).id = NoId THEN UNCHANGED dispatched ELSE call_tool(CallKey(d))
  /\ \/ /\ \E b \in BOOLEAN : ok' = [ok EXCEPT ![d] = b]
        /\ IF Call(d).id = NoId THEN Finish(d) ELSE Move(d, "settle") /\ UNCHANGED <<pos, done>>
     \/ Move(d, "failed") /\ UNCHANGED <<ok, pos, done>>
  /\ UNCHANGED <<ckpt, thread, policy, mem, resume, argVars, idem>>

\* A record that was only RESERVED stays RESERVED when the call succeeded.
SettleCall(d) ==
  /\ at[d] = "settle"
  /\ IF ok[d] THEN mark_succeeded(CallKey(d)) ELSE idem_mark_failed(CallKey(d))
  /\ Finish(d)
  /\ UNCHANGED <<ckpt, thread, policy, mem, resume, argVars, ok, dispatched>>

\* The node returns: executed ids become part of the state, which is saved.
ToolNodeReturns(d) ==
  /\ at[d] = "tool_call" /\ pos[d] > Len(mem[d].msg)
  /\ mem' = [mem EXCEPT ![d] = [@ EXCEPT !.node = "agent_node", !.ids = done[d]]]
  /\ ckpt' = [ckpt EXCEPT ![thread[d]] = mem'[d]]
  /\ Move(d, "agent_node")
  /\ UNCHANGED <<thread, policy, pos, done, resume, argVars, ok, idem, dispatched>>

\* The process dies; the thread keeps its last checkpoint.
Die(d) ==
  /\ at[d] \notin Ended \cup {"unused"}
  /\ Move(d, "died")
  /\ UNCHANGED <<ckpt, thread, policy, mem, pos, done, resume, argVars, ok, idem, dispatched>>

GraphStep(d) ==
  \/ AgentNode(d) \/ FinalAnswer(d) \/ AgentNodeFails(d)
  \/ SkipCall(d) \/ AllowedCall(d) \/ Interrupt(d) \/ ResumedCall(d)
  \/ CheckRecord(d) \/ MarkExecuting(d) \/ RecheckRecord(d) \/ Reserve(d)
  \/ CallTool(d) \/ SettleCall(d) \/ ToolNodeReturns(d)

=============================================================================
