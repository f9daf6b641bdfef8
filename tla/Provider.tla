------------------------------ MODULE Provider ------------------------------
(***************************************************************************)
(* DeepSeekProvider.invoke (providers/deepseek.py): one model call is a    *)
(* loop of HTTP requests with backoff between them.  A request returns a   *)
(* status or raises (timeout, connection error).  Messages, bodies and the *)
(* length of the pauses are left out.                                      *)
(***************************************************************************)
EXTENDS Naturals

CONSTANT ProviderRetries   \* ProviderConfig.max_retries

ASSUME ProviderAssumption == ProviderRetries \in Nat

RETRYABLE_STATUSES == {408, 429, 500, 502, 503}
NON_RETRYABLE_STATUSES == {400, 401, 403, 409}

\* One status of every kind the code tells apart: 404 and 504 are in neither list.
Statuses == {200, 404, 504} \cup RETRYABLE_STATUSES \cup NON_RETRYABLE_STATUSES

VARIABLES llm,      \* where invoke is
          tries,    \* attempt, counted from 0
          closed    \* close() was called

providerVars == <<llm, tries, closed>>

ProviderTypeOK ==
  /\ llm \in {"idle", "post", "backoff", "message", "error"}
  /\ tries \in Nat
  /\ closed \in BOOLEAN

ProviderInit == llm = "idle" /\ tries = 0 /\ closed = FALSE

\* A closed provider raises at once.
invoke ==
  /\ llm = "idle"
  /\ llm' = IF closed THEN "error" ELSE "post"
  /\ UNCHANGED <<tries, closed>>

close == ~closed /\ closed' = TRUE /\ UNCHANGED <<llm, tries>>

MayRetry == tries < ProviderRetries

Backoff == llm' = "backoff" /\ tries' = tries + 1 /\ UNCHANGED closed

Finish(outcome) == llm' = outcome /\ UNCHANGED <<tries, closed>>

Retries(s) == s \notin NON_RETRYABLE_STATUSES /\ s \in RETRYABLE_STATUSES /\ MayRetry

\* _parse_response raises for these; a body it cannot read is the other reason.
RaisedFor(s) == s \in {400, 401, 403, 429} \/ s >= 500

PostReturns(s) ==
  /\ llm = "post"
  /\ \/ Retries(s) /\ Backoff
     \/ ~Retries(s) /\ Finish("error")
     \/ ~Retries(s) /\ ~RaisedFor(s) /\ Finish("message")

PostRaises ==
  /\ llm = "post"
  /\ \/ MayRetry /\ Backoff
     \/ ~MayRetry /\ Finish("error")

WakeUp == llm = "backoff" /\ llm' = "post" /\ UNCHANGED <<tries, closed>>

\* The caller takes the message or the exception.
Returned(outcome) ==
  /\ llm = outcome
  /\ llm' = "idle" /\ tries' = 0 /\ UNCHANGED closed

=============================================================================
