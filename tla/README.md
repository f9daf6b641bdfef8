# A TLA+ model of the FXFill banking agent

The agent answers banking questions with a language model that calls tools. Reads run at once;
an operation that moves money is suspended until a human decides (human in the loop, HITL).
What makes this hard is spread over five SQLite tables, a LangGraph checkpoint, an in-memory bank
and any number of concurrent HTTP requests, each of which may die between two awaited calls. This
directory models that core together with what surrounds it (the request pipeline, the model
provider, start-up and shutdown, the banking tools, token verification), checks it with TLC on
small instances and proves its most important safety properties with TLAPS for all instances.

Paths below are relative to `src/fxfill_banking_agent/` in the repository.

## 1. Inventory

| Component | State | Operations | Hard because |
| --- | --- | --- | --- |
| HITL session store, `hitl_store.py` | session rows with status, version, deadline | insert, optimistic update, expiry sweep | the sweep ignores the version; RESUMED is not terminal |
| Grant repository, `grant_repo.py` | grant rows, `PENDING` → `APPROVED` → `CONSUMING` → final | conditional UPDATEs | three guards in a row have to leave one claimant |
| Idempotency store, `idempotency_store.py` | record per key | reserve, mark executing / succeeded / failed / unknown | two writers use it by different protocols |
| Event store, `persistence.py` | rows unique in (run, seq) | insert | callers swallow the failure |
| Approval executor, `approval_executor.py` | none of its own | approve, reject | up to thirteen awaited calls, other requests and crashes between any two |
| Agent graph, `graph.py`, `state.py` | messages, step count, executed ids; checkpoint per thread | agent_node, tool_node, interrupt, resume | an interrupted node is executed again from its start |
| Agent runtime, `agent.py` | none of its own | run by route (graph, transfer, planner, direct, RAG), resume | routes treat interrupts and decisions differently |
| HTTP API, `api.py` | request times per caller | rate limit, POST /agent, POST /agent/approve, threads, health | the session and the grant are two inserts; a decision is executed and then resumed; a sliding window |
| Checkpoint store, `checkpoint_store.py` | checkpoints per thread | put, get newest | two runs of one thread overwrite each other |
| Authorization policies, `auth.py` | the installed policy | authorize | PENDING has to be understood by every caller |
| Plan, execute, verify, `orchestration/` | plan, search colours, results | generate, validate, execute, verify | search over unordered sets; retries after success |
| Bank and its tools, `banking/`, `mcp/` | balances, drafts, keys, transactions | nine tools: create, submit, cancel, reads; expiry | several drafts are checked against one balance; a reply has to tell what happened |
| Migrations, `db.py` | schema of the shared file | init_database | statements outside transactions, several connections, crashes |
| Bootstrap and lifecycle, `bootstrap.py`, `lifecycle.py`, `server.py` | resources that are recorded and open, lazy connections | start, roll back, first use, close | a failure half-way, closes that raise, two first uses at once, a connection nobody records |
| Routing, `routing/` | none | classify, route, suggest tools | the route decides which checks a tool call meets |
| Model provider, `providers/deepseek.py` | closed flag, attempts of a call | invoke with retries and backoff, close | its retries multiply with the planner's and the graph's; it can be closed under a request |
| Identity, `security/`, `iam.py`, `auth_middleware.py` | key cache of the verifier | verify a token, authorize, resolve headers | stale keys, an endpoint that cannot be reached or answers something else |
| Threads, `conversation_service.py` | an index per service object | create, get, touch, archive, delete | none: every request has an object of its own |
| Reliability, `reliability.py`; memory; RAG; audit; governance; observability; evaluation; filters | small in-memory objects | | mostly stateless or unused |

How they interact: `/agent` drives the graph through the runtime. `tool_node` asks the policy,
consults the idempotency store and calls the MCP server (here the in-process bank). A suspended
call is stored by the handler as a session row and a grant row. `/agent/approve` runs the executor,
which decides, claims the grant, sends the call itself, settles the tables and then lets the
runtime resume the suspended graph. All stores are connections to one SQLite file, opened lazily
through `init_database`.

The correctness questions, by component:

- executor: one dispatch at most; only what an identified actor approved; a rejection wins; the
  tables do not contradict each other, however a request dies, but for a rejection or an expiry after
  the fact; late approvals have no effect; it
  implements a single-use grant;
- graph and API together: a write runs only as the call of a claimed grant and with its stored
  arguments; repetitions are bounded; unknown outcomes are not retried; runs end; approved sessions settle;
- bank: no overdraft (as long as no amount is NaN), money is accounted for, one key pays once, final drafts are final, and a
  reply tells the caller what happened;
- one request from its headers to its status code: it is always answered, whatever the model
  service does and when the provider is closed under it, at a bounded number of HTTP requests;
- routes: the direct route sends the caller's identity, never
  the model's; no denied write is executed; on the planner route validation is exact in every
  search order and failures stop the plan;
- start-up, shutdown and migrations: a clean-up leaves nothing open that can be closed, a store
  works only on a migrated file; no grant lost, a stamped file has every table and column, files
  found to be unsafe stay as they are;
- edge: a withdrawn key stops working and a published one starts to; a caller never exceeds its
  limit and is served again.

`PROJECT.json` lists under `hazards` the places in the code where each of these could go wrong.

## 2. Modules

| Module | Models | State |
| --- | --- | --- |
| `Domain` | session ids, tool-call ids, actors, idempotency keys | constants |
| `HITLStore` | `SqliteHITLStore` | `hitl`, `late` (sessions past their deadline) |
| `GrantRepo` | `GrantRepository` (extends `HITLStore`) | `grant` |
| `IdempotencyStore` | `SqliteIdempotencyStore` and the MCP call | `idem`, `dispatched` (calls that left the process, per key) |
| `EventStore` | `SqliteEventStore.insert` and the writers around it | `events` |
| `ApprovalExecutor` | `approve()`, `reject()`, the two inserts of `/agent`, the sweep, crashes | `pc`, `sid`, `actor`, `ver`, `out`, `creating` |
| `SingleUseGrant` | what the executor promises: offered, approved, claimed, performed once, settled or void | `phase`, `performed` |
| `AuthPolicy` | `ReadOnlyPolicy`, `RequireApprovalPolicy` | none |
| `AgentGraph` | `_agent_node`, `_tool_node`, interrupt, resume, checkpoints | `ckpt`, `at`, `mem`, `pos`, `done`, `resume`, `canon` and `args` (whose arguments a call is made with), ... |
| `HITLSystem` | `/agent` and `/agent/approve`: composes `ApprovalExecutor` and `AgentGraph` over the shared stores | `router`, `route`, `api` |
| `PlanRoute` | `_execute_planner` and `orchestration/` | `plan`, `color`, `path`, `todo`, `idx`, `calls`, `result` |
| `Routing` | the intents, the routing table, the suggested tools, the kinds of the registered tools | none |
| `AgentRoutes` | `AgentRuntime.run` with a router: classification, direct, RAG and transfer route; extends `PlanRoute` and `Routing` | `stage`, `tool`, `subject`, `sent`, `step_count` |
| `Provider` | `DeepSeekProvider`: invoke as a loop of HTTP requests, close | `llm`, `tries`, `closed` |
| `AgentService` | one POST /agent: `AuthMiddleware`, the checks of the handler, `AgentRoutes` and the `Provider` calls it waits for, the status code | `http`, `code`, `posts` |
| `Banking` | `BankingRepository` | `balance`, `drafts`, keys, transactions |
| `BankingTools` | the nine tools behind the MCP server, with their replies; extends `Banking` | `reply` |
| `Migrations` | `init_database` and the six migrations | `db`, `step`, `next`, `copied`, `writer` |
| `Lifecycle` | `bootstrap_app`, the lazy stores, `ApplicationResources.close`; its connections are those of `Migrations` | `app`, `registered`, `live`, `owner`, `held`, `lost`, `turn`, `stuck` |
| `OIDCVerifier` | `OIDCVerifier` and the issuer it asks | `published`, `cached`, `cache`, `age`, `gone`, `source`, `context` |
| `RateLimit` | `RateLimitMiddleware` | `counters`, `admitted` |
| `Edge` | verifier and limiter on one clock | |
| `ApprovalExecutorProofs`, `SettlementProofs` | theorems about the executor; the second extends the first | |
| `HITLSystemProofs` | theorems about `HITLSystem`; extends `ApprovalExecutorProofs` | |
| `BankingProofs` | theorems about the bank and its tools | |
| `EdgeProofs` | theorems about `Edge`: verifier and rate limiter | |
| `PlanProofs`, `ServiceProofs` | the inductive invariant of the planner route, and the theorems about `AgentService` that use it | |
| `LifecycleProofs` | theorems about `Lifecycle` and `Migrations` | |
| `MC...` | instances for TLC | |

Granularity. A coroutine can be interleaved only where it awaits, so one awaited call together
with the code up to the next await is one action; each awaited store call is one SQL statement and
its commit. `pc[r]` and `at[d]` name the call a coroutine makes next. In `Migrations` a step is one
statement or, for idempotent `CREATE ... IF NOT EXISTS` groups, one migration; Python's sqlite3
opens a transaction before the INSERT of the copy and never before DDL, so a replacement table and
a new column are durable at once while copy, DROP, RENAME and indexes commit together. In
`PlanRoute` a step of the depth-first search is an action, and the order of iteration over Python
sets is free.

Names follow the code (`update_status`, `atomic_consume`, `mark_reconciliation_required`,
`submit_transfer`, `migrate_v4`); actions that are a part of a method are named for the part.
`PROJECT.json` maps every definition to its lines. A definition whose name has a suffix after an
underscore and whose comment starts with "Mutant" is a plausible bug in the definition that follows
it; the specification never uses it, and substituting it makes the property named in
`PROJECT.json` fail.

### Abstractions to keep in mind

- Digests, messages, prompts and results are left out; a tool call is its id, its kind and whether
  its arguments validate. Of the arguments themselves the model keeps whose they are: a resumed call
  is made with the `canonical_args` of the approved session (`graph.py:220`), which need not be its
  own. `WRITE` stands for every kind that is not `READ`.
- `atomic_consume` compares columns that no statement changes after the insert; they are no part
  of its guard.
- The outcome of an MCP call is any of success, failure and an exception. The adapter turns
  transport errors into failures, so an exception is rarer than the model makes it.
- An event insert fails only on UNIQUE(run_id, seq).
- `router` says whether the runtime has an intent router. bootstrap always installs one, and then
  every transfer takes the transfer route, `INTENT_CLASSIFIED` has sequence number 1 and no request
  reaches the plain graph route; a runtime without a router (as the tests build it) takes the plain
  graph route only. Sessions are therefore created only without a router. `HITLSystem` starts in
  either configuration and keeps it.
- Which keywords occur in a message is left open: any intent of the rules may be the classifier's
  answer. Of the graph behind the transfer route `AgentRoutes` has the alternation of its two nodes, the
  step limit and the model calls; what `tool_node` does with a call is in `HITLSystem`.
- `/agent` never sets `expires_at` and nothing in the application calls the sweep: rows with a
  deadline appear only in the executor's own run, where other writers may have made them.
- LangGraph is external: `interrupt()` abandons the node, a resumed thread executes it again and
  the resume value answers the first interrupt reached. The SQLite saver does not give pending
  writes back, so there is one resume value.
- bootstrap installs `ReadOnlyPolicy`; suspension needs `RequireApprovalPolicy`. Both are checked.
- The bank is in memory; a restart of it is not modelled. An amount is what `float()` makes of the
  argument: a whole number or NaN, with which every comparison is false and every sum is NaN. Rounding
  of fractions is left out.
  A tool's reply is content or an error, whatever it says. Refusals that depend on nothing in the
  bank (unknown tool, missing argument, currency) are one action, `BadCall`.
- A response of the model service is its status and whether its body can be read; pauses have no
  length. An HTTP request returns or raises within its timeout.
- `create_app` installs `AuthMiddleware` without production mode, so `AgentService` takes the
  identity from the headers; the token verifier is a complete part that nothing calls yet and is
  checked by itself, in `Edge`.
- A token names a key and has been signed with one; all other things that may be wrong with its
  claims are one flag, and its roles and scopes, which are only copied, are left out. Ages and
  timestamps stop growing at the largest bound they are compared with.
- In `Lifecycle` the event store has a connection without migrations (it creates its own table).
  `ShutDown` waits for requests that are opening a connection, as uvicorn does. Whatever a process
  has open is closed by the operating system when it ends.
- On the planner route the second validation (step limit 20) cannot fail after the planner's own
  (15), and the planner sets neither `status` nor `max_retries`. The goal of a plan is the user's
  message, and a message without words is classified as unsupported and refused, so the validator's
  check for an empty goal (`orchestration/validator.py:88`) cannot fire on this route and is no part of
  `StructureOK`. Steps are given no arguments: every tool is called with `{}`. Completion criteria are
  strings, or other JSON on which `verify` raises (`VerifyRaises`).
- A grant file is described by what the rebuild can trip over: `dup`, duplicates that `_migrate_v3`
  looks for, and `unfit`, rows that only the constraints of the new table refuse (two empty keys, an
  unknown decision).

## 3. Runs

Every run takes less than a minute or two on two workers.

| Run | Instance | Question and answer |
| --- | --- | --- |
| `approval_race` | 1 session with a deadline, 3 interchangeable requests, any prior record, crashes everywhere | Can concurrent decisions dispatch twice, undo each other, or leave the tables in disagreement? No, but for a session rejected or expired after it was RESUMED; and the executor implements `SingleUseGrant`. Deadlock is checked. |
| `hitl_system` | 1 `/agent` request, 2 decisions, answers with a read before a write, a call without id, a malformed call and a repeated id; crashes | Does a write ever run that is not the call of a claimed grant, or more than twice? Is an unknown outcome retried, a read repeated? No. |
| `hitl_two_runs` | 2 `/agent` requests of one conversation that may propose different writes, 1 decision, either policy, no crashes, fairness | Two runs share one checkpoint: whichever write an approval lets through, it is sent with the arguments of the approved session, never with ones the model gave later; every run ends and an approved session settles. |
| `banking` | 3 drafts, 3 accounts (one closed), 2 users, 2 beneficiaries (one inactive), 1 key, amounts up to the limit and beyond and NaN, every tool | Overdraft of an account that has paid no NaN, unaccounted money, a key that pays twice, a final draft that changes, an error reply to a call that did something, a success reply to a submission that paid nothing? No. |
| `agent_service` | every header (absent, anonymous, a user), every intent, all 512 dependency graphs over 3 steps, malformed plans, criteria of each kind, either policy, 2 planner attempts, 3 steps of the graph, 1 provider retry, every status, shutdown of the provider | Every request gets a status code, with at most (retries + 1) times the model calls of its route in HTTP requests. The direct route sends the authenticated identity whatever the model extracts, and no route executes a write the policy denies. Validation accepts exactly the well-formed acyclic plans in every search order; a first failure stops the plan. |
| `app_lifecycle` | 2 connections, of the application's stores or of another process, every released version as the starting file, a later version, a file with duplicates and one with rows the new table refuses, 1 session, 4 configurations, failures at every step of start-up and shutdown, crashes between statements | After the clean-up nothing is open but what could not be closed, what a racing first use had overwritten and the connection of the checkpoint saver; stores hold migrated connections only; no grant row or reconciliation status is lost, a stamped file has every table and column, files of a later version or with duplicates that are looked for are untouched. |
| `edge` | 2 keys, a good token for each and one for each thing that can be wrong, a cache of 2 ticks; 1 caller with 2 requests in 3 ticks | A withdrawn key is accepted for less than the cache's lifetime unless the endpoint cannot be reached, a published one is learnt; the limit holds in every window and is lifted. Deadlock is checked. |
| `double_execution` | 1 run, 1 decision | Violated: the executor leaves its record RESERVED and the resumed graph sends the write again. |
| `other_call` | 2 runs that suspend on different writes | Violated: approving one sends the other's tool and id, with the first one's arguments. |
| `nan_amount` | as `banking` | Violated: NaN passes the limits and the balance check, makes the balance NaN and with that covers every later amount. |
| `suspended_session` | 1 run, either route | Violated: the transfer route drops the interrupt, no session is created. |
| `init_idempotent` | 1 connection, released versions | Violated: a crash inside a rebuild makes every later start fail. |

The five violated properties restate a sentence of the documentation or of a comment; the
`findings` of `PROJECT.json` quote it.

Bounds. Three requests give a claimant, a competitor and a decision in the other direction at the
same time; sessions do not share rows, so one session suffices (the proofs cover any number). Two
`/agent` runs are the least that share a checkpoint; `MaxAgentSteps = 2` lets the model answer once
more after the tools. In `agent_service` it is 3, more than the calls of any other route, so that
the bound on HTTP requests is met exactly on the transfer route. Three drafts are needed for two on one balance and a third under the same
key. Three steps are the least with a cycle that one search leaves GRAY and another reaches. One
provider retry lets every kind of status occur both where a retry follows and where none does. Two
connections are the least with a stale version, with two first uses of one store, and with a store
next to another process; the connections are interchangeable (symmetry). A cache of two ticks has
an age that is fresh and not new, a window of three has requests that leave it one at a time while
the limit is reached. Deadlock is not checked where the system may
simply be finished (all requests answered, all drafts settled).

Fairness. `SysLiveSpec` has weak fairness on every started run of the graph and every started
decision: the event loop resumes a coroutine whose awaited call returned, and all calls have
timeouts or are local. Starting a request is up to a client and has none. It is without crashes: after one there is no fairness to
speak of. `ServiceSpec` has weak fairness on the one coroutine of the request together with the
HTTP requests it awaits, which return or raise within their timeout. `EdgeSpec` lets time go on
(weak fairness of the clock) and assumes that a fetch which can happen again and again succeeds
now and then (strong fairness of `Refresh`): tokens keep arriving and the issuer's endpoint is not
down for ever; nothing is assumed about the limited caller, who may go on asking.
`ApprovedSessionSettles` needs that no record of an earlier success exists (below).

### Behaviour seen while modelling that no run is spent on

Where the code disagrees with its own text, the passing property names the disagreement as its
exception:

- A late rejection. RESUMED is not among the statuses `is_terminal()` lists (`hitl_store.py:51`):
  `reject()` accepts a session whose call has run and marks it REJECTED beside a CONSUMED grant, while
  `docs/hitl-transfer-flow.md:21` says "No banking side effects" (`SettlementAgrees`).
- A pending decision on the planner route. `execute_step` stops only when the decision is "denied"
  (`orchestration/executor.py:97`); a pending one falls through to the call, with the arguments `{}`,
  while `docs/banking-tool-policy.md:15` says of submit_transfer "Always requires approval"
  (`Callable`; `NoDeniedWrite` is about denials only).
- A failed repetition. The second verdict on a repeated step is not looked at (`agent.py:453`), and the
  steps that depend on it run, while `orchestration/executor.py:7` says "Never executes steps with
  failed dependencies" (`FailureStopsPlan`).
- A stale version. A connection that read the version before another one migrated the file (`db.py:85`)
  puts the v3 grant table back, whose CHECK refuses RECONCILIATION_REQUIRED, before it fails on v4; the
  file stays stamped 6 (`StampedComplete`).
- Empty keys. `_migrate_v3` does not count them as duplicates (`db.py:251`) while the new table has a
  UNIQUE key (`db.py:283`): two of them pass the check, and the copy fails after the replacement table was
  created, which every later start trips over. The docstring says "Duplicate rows are detected"
  (`UnsafeIsLeftAlone`, `CopyViolatesConstraint`).
- Connections that stay open. The checkpoint saver opens one (`agent.py:92`, `checkpoint_store.py:38`)
  that is in no resource, `close_all_connections` is called by tests only, and
  `tests/e2e/test_app_lifecycle.py:287` says "After application shutdown, no aiosqlite connections
  remain" (`StopLeavesNothing`).

And further:

- `APPROVAL_GRANTED` is inserted with sequence number 0, which `USER_MESSAGE` of the run has
  taken; `GRANT_CLAIMED` collides with 1. Both events are lost silently (`TrailSound` shows that
  what is stored is true, not that everything is stored). `PLAN_CREATED` collides in the same way.
- When the idempotency record says SUCCEEDED, `approve()` returns right after the claim: the grant
  stays CONSUMING and the session APPROVED.
- `path.index` raises ValueError for some orders of the search; the planner counts it as a failed
  attempt, which is why `ValidationExact` holds all the same.
- A `completion_criteria` list that holds something else than strings makes `verify` raise out of
  the planner route after the tool was called (`VerifyRaises`): the user gets a 500.
- On the direct route, extracted JSON that is no object makes the injection of the identity raise
  outside the handler's try (`InjectionRaises`); no tool is called.
- The transfer route asks the model once by itself and puts the reply before the graph, whose first
  node asks again: the tool calls of the first reply are never executed.
- Steps of a plan run in the order in which they are listed (`agent.py:446`), and neither the
  validator nor the executor compares it with the dependencies, which `orchestration/models.py:35`
  calls "Steps that must complete before this one". The planner route gets no trusted context.
- The stores open their connection lazily, with an await between the test of `_conn` and its
  assignment (`hitl_store.py:84` and alike): two concurrent first uses open two connections, and
  `ApplicationResources.close` knows only the later one. `StopLeavesNothing` names this exception
  (`lost`).
- A path in `agent_config` without the argument `db_path` makes `create_app` refuse (`WiringFails`).
  `server.py` passes no actor resolver, so with FXFILL_ENV=production it never starts.
- The provider takes 404, 408 after its retries, and 409 for an ordinary answer: `_parse_response`
  raises only for 400, 401, 403, 429 and 5xx.
- A request without X-User-Id is the user "default", not anonymous.
- The verifier refuses every token without `kid`, does not fetch again for an unknown `kid` within
  the cache's lifetime, and uses the old keys for as long as the endpoint cannot be reached. Any JSON
  the endpoint answers with is kept as a key set (`VerifyAfterForeignAnswer`).
- The rate limiter's key is tenant and path, not the tenant its docstring names, and its
  HTTPException is raised inside a BaseHTTPMiddleware, outside the handlers that turn one into a 429.
- `get_transfer_status` asks for no owner; `list_transactions` with limit 0 returns everything; a
  draft's currency is not compared with its account's.
- The thread endpoints make a new `ThreadService` per request, so a created thread is never found.
- `reliability.py:103` promises one probe in HALF_OPEN; `allow_request` admits every request.

## 4. Proofs

`ApprovalExecutorProofs` (any sets of sessions, tool calls, actors and requests, any prior
records; assumptions: the named ASSUMEs of the store modules, i.e. that the "none" values are
outside the sets they complete):

- `TypeCorrect`: `TypeOK` is inductive; one lemma per kind of table write.
- `ClaimIsExclusive`, `DispatchedAtMostOnce`: neither is inductive by itself. `ClaimInv` adds
  `HoldersHaveClaimed` (a request between claim and settlement has its grant in CONSUMING until it
  settles it) and `NothingSentBefore` (nothing has been sent for the session while its claimant has
  not reached the dispatch, nor while the grant is unclaimed). A claim needs APPROVED, which no
  statement restores, so a second claimant is impossible; a dispatch needs a claimant with nothing
  sent. `CalmStep` covers every step that touches neither grants nor dispatches.
- `DispatchOnlyWhatWasApproved`: `OriginInv` adds that a decided request works on a row with a
  tool-call id (`KnownOperation`), that an approved grant names an actor (`ApproverKnown`) and that
  what was sent is the call of the row (`SentIsRecorded`).
- `ExecutorImplementsSingleUseGrant`: under the mapping of grant statuses to phases every step of
  the executor is a step of `SingleUseGrant` or a stutter; `StepKinds` classifies the steps.

`BankingProofs` (any accounts, users, balances, limit, amounts, keys, beneficiaries and drafts):
`BankNeverOverdraws`, `BankKeyPaysOnce` and `BankDraftsAreFinal` from `BankInv`, which adds that
the key of a completed draft is remembered (`KeysRemembered`), without which the check on
submission would say nothing about earlier payments. `ToolsImplementBanking`: every tool call is a
step of `BankSpec` or leaves the repository alone (`ToolsStep`), so the tools inherit these
(`ToolsNeverOverdraw`, `ToolsKeyPaysOnce`). `ToolsReplyTellsTruth` is proved from `BankInv`, step
by step: that a draft which completes has the fields the debit is computed from needs its type.
`ToolsTypeCorrect` adds the types of books and replies.

`BankMoneyAccountedFor` (`MoneyAccountedFor`), and through the tools `ToolsMoneyAccountedFor`, need
what a sum over a set is. `MapThenSumSet` is a recursive function that takes the elements in an
order that nothing specifies, and a proof by induction is not available (below). The lemmas count
instead: a draft of amount n is n units (`Units`), a set of drafts with one more has the units of
that one more (`UnitsOfOneMore`, from the cardinality of products, intervals and disjoint unions),
so counting units satisfies the recursion; and it alone does, because in a smallest set on which
two solutions differ, taking one element away leaves a smaller one (`SumCountsUnits`, with the
library's well-foundedness of the subset order). `BookInv` then adds to `BankInv` that a draft has
a positive amount within the limit, or NaN (`AmountsValid`), and that an account has finitely many completed
drafts. A submission moves one draft into that set and its amount out of the balance
(`SubmitBooks`); no other operation touches either (`OtherStatusBooks`). Together with
`NoOverdraft` this gives `BankPaysWithinOpening`: the completed drafts of an account that has
paid no draft of NaN never add up to more than it was opened with. With one they may, as the run
`nan_amount` shows; the theorems name that case and prove what is left of the books in it (the balance
is NaN, every payment is still recorded once).

`EdgeProofs` (any keys, tokens and TTL, within `EdgeSpec`; assumption: TTL is positive):
`WithdrawnKeysStopWorking` (`WithdrawalTakesEffect`) and `OIDCTypeCorrect`. Acceptance looks only
at the cache, so the property says nothing about the next step by itself; `CacheInv` relates the
two clocks: a published key has not been gone, and a cached key that is no longer published has
been gone for at most the age of the cache. A fetch makes the second part hold trivially, a
withdrawal starts at 0, the clock moves both sides together, and a fresh cache is younger than TTL.
`UnlearntKeyIsDue` is the safety half of `PublishedKeyIsLearnt`: while a published key is unknown, no
step makes the key set younger, so nothing puts the next fetch off, with one exception: an expired
set may be replaced by an answer that is no key set.

`AdmissionsWithinLimit` (`WithinLimit`) and `RefusalIsJustified` are about the rate limiter
(assumption: the window is positive; the limit may be 0). The code cleans its list up only when it
lets a request through, while `admitted` follows the window at every tick; `RateInv` says that the
two agree all the same: what is recent in the code's list is what was let through within the
window. To be inductive it needs that the oldest entries come first (`OldestFirst`), which holds
because only the present is ever appended. Then what the comprehension keeps is what follows a cut
(`CutExists`, `RecentIsRest`, by a smallest position at which the recursion and the cut list
differ), cleaning up before or after time passes is the same (`RecentAfterAge`), and a new entry
stays (`RecentAfterAppend`). From it, a key never has more than the limit, and a request is refused
exactly when the limit is used up. `RefusalRunsOut` (limit not 0) is the safety half of
`LimitIsLifted`: while a key stays full its wait is positive, every tick shortens it and no request
lengthens it, refused ones included, because a refusal appends nothing.

`SettlementProofs` (the executor again, same assumptions): what the tables say after any
interleaving and any crash. `TablesInv` is `TypeOK`, `ClaimInv`, `OriginInv` and five layers, each
inductive relative to the ones before it:

- `VersionInv`: a row starts at version 1, every decision counts it up, and a request never holds a
  version the row has not had. This is what makes `update_status` a test for "nobody has decided
  since I loaded the row".
- `ApproverInv`: between `approve_pending` and the claim there is one approver, and its grant is
  APPROVED until it claims it or a rejection cancels it.
- `RowInv`: while a request owns a claimed grant its row is APPROVED at the version it expects
  (`RowIsApproved`), the outcome it is about to record is the one the grant will say
  (`BookedOutcome`), and settled row and settled grant agree (`RowsAgree`).
- `RecordInv`: the idempotency record and the number of dispatches that belong to each outcome.
- `TrailInv`: what each stored event says about row and grant.

`ApprovedSessionHasSettler` is the safety half of `ApprovedSessionSettles`: a session stays APPROVED
only while a request is settling it (`Settler`), or for one of three reasons: the process of that
request died, the deadline passed between its approval and its claim, or the record of the key
already said SUCCEEDED. The run that checks the liveness property starts without them: no crashes
(`SysLiveSpec`), no deadlines and no earlier records (`MCHITLTwoRuns.cfg`). Its invariant `RefusalInv` rules
every other refusal of the claim out: the grant carries the approver's own name, and a rejected
grant has a rejected session. Two more are ruled out by the layers before it: the version that
settles the row is the row's (`RowIsApproved`), and no other request takes the row away
(`SessionMoves`).

From it: `RejectionIsFinal`, `SettlementIsConsistent`, `TrailIsSound`, and the action properties
`NoLateClaim`, `DecisionsAreFinal` and `UnsettledKeyIsNotSent`. None of these properties is
inductive: each speaks of a settled state that a request reaches in several awaited steps, so the
invariant has to say what is true half-way through.

`PlanProofs` (any set of step ids, any plans, any retry limits): `PlanInv` for the planner route.
Its heart is `SearchInv`, the state of the depth-first search of `_detect_cycles` between any two
of its steps: the path is a chain of GRAY steps each of which depends on the next (`PathInv`), a
BLACK step has only BLACK dependencies (`BlackInv`), and an error has been found only on a cycle
(`ErrorInv`). When the search ends without an error every step is BLACK, and a cycle, being a set
of steps each with a dependency in the set, would have to leave BLACK through the step it was
coloured first: `VerdictIsExact`. `RunInv` ties the number of calls of each step to the position of
the loop (`CallsOf`), for `LoopStopsAtFailure`.

`ServiceProofs` (`AgentService` with everything it extends): `ServiceInv` is `PlanInv` together
with types, `RouteInv` (what each stage of a route knows about tool, identity and policy) and
`PostInv` (HTTP requests so far are at most those of the model calls that have ended, and of the
one under way). It gives `ServiceTypeCorrect`, `ModelRequestsAreBounded`,
`IdentityComesFromContext`, `DeniedWritesAreNotMade`, `PlanStopsAtFailure` and, as action
properties, `ValidatorIsExact` and `RequestMovesForward`. The latter is a lexicographic order on the
state of a request: the pipeline, the route, the attempts at planning, the phases of an attempt;
within the validation the white steps, the stack and the dependencies left to visit, within the loop
the position (`PlanForward`); on the transfer route the step count (`GraphForward`); and last the model
call under way with its counted pauses
(`CallForward`).

`LifecycleProofs` (any number of connections, sessions and starting files): `LifeInv` is the type
invariant and

- `MigInv`: the file has what the migrations of its version give it (`FileOK`); a connection that
  migrates with a version read earlier has all the migrations it has passed in the file, whoever
  made them, because no step takes a column or a table away for good (`ConnOK`);
- `HoldInv`: the connection a store holds is its own and ready, and a connection of the process is
  held or lost once no first use can be under way;
- `CloseInv`: everything open but the connection of the checkpoint saver is recorded before it is connected, and whatever the clean-up has
  passed is closed or stuck.

It gives `StampIsTrue`, `NothingDangles`, `HeldConnectionsAreCurrent`, `LifeTypeCorrect`, and the
action properties `RowsArePreserved` and `UnsafeFilesAreLeftAlone`. The assumption on the starting
file (`DatabasesAssumption`) is that a file of a known version was left by the release of that
version: its migrations have run, since the version row is written after the last of them, and it
has duplicate grants, or rows the table of version 3 refuses, only at version 2, since that table
has UNIQUE keys and a CHECK of the decision. TLC evaluates
it for the files of the runs, and a file a dead process leaves half-migrated is not covered by it
but reached by the steps of the model.

`HITLSystemProofs` (any number of conversations, `/agent` requests and decisions, any answers of the
model, any policy, crashes at every await): the graph and the executor together.
`SysTypeCorrect` needs nothing more than `RunInv`: where each run stands in the message it works on,
that only the run of an approved request gets to execute a call which the gateway does not let
through (`Guarded`), and that the call a session stores is one that waited. On top of it, again
layer by layer:

- `GrantInv`: one request per session has ever claimed and not failed, up to and including its
  answer "approved" (the executor's own `ClaimInv` stops at the answer, but the run it resumes does
  not), and `ClaimedKnown`: a claimed grant has a stored call.
- `SendInv`: a guarded key has been sent 0 times before the claim and before the claimant's
  dispatch, at most once while no approved run has used its approval up (`MayExecute`, `Used`), and
  at most twice. A run uses its approval when it sends the call; no step gives it back
  (`ApprovalUsedUp`).
- `UnknownInv`: a request that is about to book an unknown outcome has sent its call exactly once,
  and no request of an UNKNOWN grant answers "approved", so no run is resumed to repeat it.
- `SentIsStored`: the write that was sent is the stored one.
- `ArgsInv`: a run that carries an approval, or works on a call it has let through, carries the
  arguments of the stored session, whatever the checkpoint holds.
- `ReadInv`: the number of times a read was sent is at most the number of its `Senders`, the runs
  that note its id as executed, are about to, or have ended.

`RunsMoveForward` needs `RunInv` only. It is the safety half of `RunsEnd`: a step of a run ends it,
counts `step_count` towards its limit, goes on to the next call of the message or to a later await
of the same call, and nothing another actor does moves it at all.

| Theorem | Property | Hypotheses |
| --- | --- | --- |
| `SysTypeCorrect` | `SysTypeOK` | none |
| `WriteSentAtMostTwice` | `AtMostTwice` | `IdNamesOneTool`, `WritesWait` |
| `WriteNeedsClaim` | the first half of `OnlyApprovedCallRuns` | `IdNamesOneTool`, `WritesWait` |
| `UnknownStaysAtOne` | `UnknownIsNotRetried` | `IdNamesOneTool` |
| `RunsMoveForward` | the variant of `RunsEnd` | none |
| `ReadSentOncePerRun` | `ReadsOncePerRun` | `ReadsDoNotWait`, finitely many runs |
| `ApprovedCallRuns` | `OnlyApprovedCallRuns` | the first three, and `OneWriteId` |
| `ApprovedArgumentsOnly` | `ApprovedArguments` | `IdNamesOneTool`, `WritesWait` |

The hypotheses are conditions on what surrounds the code. `WritesWait` and `ReadsDoNotWait` hold for
`ReadOnlyPolicy` and `RequireApprovalPolicy`; the third policy of auth.py, `AutoApprovePolicy`, lets
writes through without a human; only the resume service, which is not modelled, builds a gateway
with it. `IdNamesOneTool` is a condition on the
model provider, which nothing in the code enforces: the idempotency key contains the tool-call id
and not the tool, so a provider that reuses the id of a write for a read would have the read counted
under the write's key. TLC evaluates `IdNamesOneTool` and `ReadsDoNotWait` for every instance
(`MCHITLSystem`); `GatewayPolicies` proves `WritesWait` and `ReadsDoNotWait` for the two policies of
`AuthPolicy`. `OneWriteId`
says that all runs propose one and the same write; it holds in the run that shows
`OnlyApprovedCallRuns` and fails in `other_call`, which shows that without it the property is false:
the run an approval resumes takes the first waiting call of the thread's last checkpoint, whichever
that is. `ApprovedArgumentsOnly` does not need it: the arguments are the approved ones all the same.

`TypeOK`, `SingleClaimant`, `ToolsTypeOK` and `OIDCTypeOK` are proved and not run again by TLC.

Only model-checked: liveness (`RunsEnd`, `ApprovedSessionSettles`, `RequestEnds`,
`PublishedKeyIsLearnt`, `LimitIsLifted`), which is outside the prover's reach. Every invariant and
every action property of a passing run is proved, under the hypotheses named above. Of each liveness
property the safety half is proved, for every value of the constants: what must not happen on the
way for the fair steps to get there. That the fair step is enabled, and that the descent ends, is
what only TLC checks.

| Liveness property | Safety half | What it says |
| --- | --- | --- |
| `RunsEnd` | `RunsMoveForward` | no step takes a run of the graph back |
| `ApprovedSessionSettles` | `ApprovedSessionHasSettler` | no approved session is without a settler, but for three reasons |
| `RequestEnds` | `RequestMovesForward` | every step of a request goes forward |
| `PublishedKeyIsLearnt` | `UnlearntKeyIsDue` | nothing puts the next fetch off |
| `LimitIsLifted` | `RefusalRunsOut` | nothing lengthens the wait of a full key |

The provers cannot instantiate an induction theorem, whose parameter is an operator. Where data is
recursive (`MapThenSumSet`, `Recent`) the proofs therefore give a closed form that satisfies the
recursion, and show that it is the only one with `WFMin`, which speaks of a minimal element of a
set; `SelectSeq` is not open to them at all, which is why `RateLimit` has the comprehension as a
recursive function of its own.

## 5. Plan

1. Done: stores, executor, single-use grant, graph, API composition, bank and its tools, all
   routes of the runtime, the request pipeline and the provider's retries, migrations, start-up and
   shutdown, token verification and rate limit; the proofs above.
2. What could follow: the resume service and the token verifier's middleware, once something calls
   them, and the memory of a conversation.

### Not modelled

Token cryptography, text filters, retrieval scores, prompts, observability, evaluation and the
parsing of configuration keep no state that a decision of the program depends on. The model
router's choice is only logged. The health, thread and audit endpoints read or make objects that
live for one request. Other code is called by nothing in the application: `resume_service.py`,
`reliability.py`, `postgres_backend.py`, `storage.py`, `memory/`, `governance/`, `runtime_factory.py`
(tests only), `GrantPolicy`, the access policies of `security/authorization.py` and the roles and maker-checker
records of `iam.py`; `GrantPolicy` in particular is
an earlier form of what `grant_repo.py` and the executor do.
