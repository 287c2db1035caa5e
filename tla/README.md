# A TLA+ model of the enterprise GenAI agent platform

The platform investigates questions about a fictional bank's customers,
payments and policies.  A FastAPI gateway identifies a caller and its tenant and
limits its request rate.  A supervisor classifies the question and routes it to
one specialist agent, or to human review; a specialist reaches tools through a
governed MCP gateway, documents through role-filtered retrieval and a language
model through a model gateway.  An answer that needs human approval is stored
as a pending *approval*, which a reviewer of the same tenant approves or rejects
later, maybe from another process, in SQLite, Redis or PostgreSQL.

This directory holds the TLA+ modules that model it, the TLC configurations
that check them on small instances, and theorems checked by TLAPS.  Paths below
are relative to `src/src/enterprise_genai_platform/`.

## 1. Inventory

| Component | State | Operations | Hard behaviour | What makes it correct |
|---|---|---|---|---|
| Approval store contract (`state/store.py` 15-60) | approvals of all tenants | `create_pending`, `decide`, `get`, `list_pending` | two reviewers decide at once; a call fails after it took effect | decided at most once; answers are true, and about the caller's tenant only |
| SQLite store (`state/store.py` 62-182) | one table, one file | the same | one connection shared under a lock; writing, reading back and counting are critical sections of their own | implements the contract |
| Redis store (`state/redis.py`) | a JSON record per approval, a set of pending ids per tenant | the same | record and index are two keys written by two commands (SET then SADD, the decide script then SREM); a list reads the index and then each record; lost replies and resent commands | implements the contract; each pending record a client knows is in the index, each list is complete |
| PostgreSQL store and pool (`state/postgres.py`) | table under Row-Level Security, a FIFO pool of connections and a lock per process | the same | connection reuse across tenants, raise paths before the `try`, lost connections and lost COMMIT replies, several processes | implements the contract; pooled connections carry no tenant; no connection or lock leaks; every call returns |
| HTTP rate limiter (`gateway/auth.py` 166-213) | a deque of admission times per subject | `check` | FastAPI runs it in a thread pool without a lock | allowance per window; a bound on what a race can admit |
| Governed MCP gateway (`mcp_boundary/gateway.py`) | limiter deques per (subject, tool), audit sink | `invoke` | asyncio interleaving, timeouts, retries, cancellation | only governed calls reach a handler; exactly one truthful audit record; every invocation ends |
| MCP servers, remote transport (`mcp_boundary/`) | none of their own | typed tools over the domain data | a tool raises, or its arguments name nothing | a tool is registered for the agent whose skills may name it |
| Model gateway (`model_gateway/`) | a ledger of reservations per tenant, telemetry | `generate`, `check_and_reserve` | one reservation for several attempts, timeouts, retries, guards on input and output | reservations of a window never exceed the ceiling; one telemetry event per call, which tells what happened |
| Application and request path (`gateway/app.py`, `gateway/middleware.py`) | the objects `create_app` builds; `HTTP_REQUESTS` | information, skills, route, investigate, generate, RAG answer, demo pages | the middleware answers 504 while the handler goes on; exceptions that nothing maps; store calls that block the event loop | an answer says what the store holds; every exchange is answered, and counted as what its client got |
| Settings, identity and tenancy (`gateway/config.py`, `gateway/auth.py`, `gateway/jwt_identity.py`, `tenancy/`) | settings and tenant registry, fixed at startup; cached signing keys | `validate_security_boundaries`, `get_principal`, `get_tenant_context`, `require_roles` | which of header and token counts; the order of a route's dependencies | deployed, subject, roles and tenant come from one verified token that names exactly one tenant |
| Orchestration and agents (`orchestration/`, `agents/`, `models/`) | the graph's state | classify, then one specialist or human review | the model, a tool or a specialist raises | a failure or a consequential action ends in human review, with no evidence shown |
| Retrieval (`rag/`, `scripts/ingest_azure_search.py`) | an index, in the process or in Azure; the run that fills it | parse, chunk, add, search, synthesise, evaluate | boundary arithmetic; ingestion that dies, loses writes or replaces what is searched | chunking ends and loses nothing; nobody is shown a chunk whose roles it lacks; what is called grounded cites what was shown |
| PII and content safety (`safety/`) | none | scan and mask, check | findings that overlap or touch; unknown severities | of a finding nothing but the tail after an overlapping one is sent on; nothing blocked is |
| Skills registry (`skills/`) | definitions, fixed at startup | validate, list | two tables kept by hand | no skill names a tool its agent may not call |
| Domain data (`domain/`) | constant records | look-ups | - | records are consistent |
| Evaluation, SDK, logging and tracing, scripts, infrastructure | write-only output, offline reports | - | - | - |

How they interact: `create_app` builds one store, one HTTP limiter, one MCP
gateway, one model gateway and one workflow per process.  FastAPI runs the
synchronous dependencies, the limiter among them, in a thread pool; the
handlers, the agents and both gateways are coroutines of one event loop.  The
stores are synchronous classes with locks or connections made for several
threads (their tests drive them so); the handlers call them from the event
loop, and operators' scripts from processes of their own.  Processes (two
replicas in the Helm chart) share nothing but the database.  The three stores
are interchangeable behind the `ApprovalStore` protocol; each updates the
process's `PENDING_APPROVALS` gauge itself.

## 2. Modules

```
ApprovalRecords            records, requests, what a write stores
 ├─ ApprovalStore          the contract              ── ApprovalStoreProofs
 ├─ SqliteApprovals   ─┐                             ── SqliteApprovalsProofs
 ├─ RedisApprovals    ─┼─  each: Contract ==         ── RedisApprovalsProofs
 └─ PostgresApprovals ─┘   INSTANCE ApprovalStore    ── PostgresApprovalsProofs
SlidingWindow              the limiter of one key    ── McpGatewayProofs
 ├─ RateLimiter            the same code, step by step, run by several threads
 └─ McpGateway             Limiter(k) == INSTANCE SlidingWindow WITH ... per key
                                                     ── McpGatewayProofs
PiiGuard                   masking, blocking, severities (operators)
 └─ ModelGateway           generations over the budget ledgers
                                                     ── ModelGatewayProofs
Identity                   who a request acts as (operators)
Workflow                   what an investigation calls and concludes (operators)
 └─ RequestPath            HTTP exchanges            ── RequestPathProofs
                           Store == INSTANCE ApprovalStore WITH Id <- Exchange ...
Knowledge                  ingestion, indexes, search ── KnowledgeProofs
```

`MC*` modules add the symmetry sets and operator constants a configuration
cannot write.

**ApprovalStore** is the abstract specification.  `approvals` is the durable
table, `call` the call each client has in progress (`request`, `answer`,
`row`), and `limbo` the writes whose caller was told of a failure and which may
still take effect: a COMMIT or a Redis command whose reply was lost.  `Invoke`,
`Succeed` (the instant a write takes effect), `Refuse`, `Read`, `Raise`, `Late`
(a request in limbo takes effect or is dropped) and `Return` are its actions.  `list_pending` is not
atomic in any backend, so the contract leaves it out; each backend states what
it guarantees itself.  The id of a record comes from `uuid4` and never repeats.

**SqliteApprovals**: one action per critical section of a method (`INSERT` and
commit, `UPDATE` with its row count and commit, `SELECT` to answer or to read
back), then the gauge, then the return.  `Fail` is any exception ("database is locked", a full
disk) at any of them.

**RedisApprovals**: one action per command, which the server runs one at a
time: `SET NX` and `SADD` of `create_pending`, the Lua script and `SREM` of
`decide`, `GET`, and `SMEMBERS` followed by one `GET` per id of `list_pending`.
A command whose reply does not come within the socket timeout stays in `late`,
where the server may still run it; the client library sends it again (`Resend`)
or raises.  `Timeout` and `Crash` (of a process, whose gauge starts again from
zero) are the faults.

**PostgresApprovals**: each process has a `lock`, a FIFO `pool` and threads.
A call takes the lock, a connection, sets the transaction's tenant, runs one
statement under the policy, commits or rolls back, gives both back, then
counts.  Every step may raise on a lost connection, and takes the path the code
gives it: `set_config` raises before the `try`, so nothing is rolled back, and
the `finally` still returns the connection; a failed rollback replaces the
original exception.  Dead connections are not replaced, as in the code: they
stay in the pool and fail each call that draws them.

**SlidingWindow** is the limiter of one key run without interruption: that is
what the event loop gives `_check_rate_limit`, and what one thread at a time
gives `InMemoryRateLimiter.check`.  **RateLimiter** runs the latter's
steps -- read the clock, test, pop, compare, append, in that order -- for threads that
interleave between them.  **McpGateway** is `invoke`: what precedes the first
`await` is one step, what follows an attempt is one step, and other tasks run
while a handler does.

**ModelGateway** is `generate` with the `TenantBudgetPolicy` it reserves from.
A generation is suspended while content safety checks the request, while the
provider runs, and while content safety checks the answer.  `Reject` is an
exception before the reservation, of which telemetry never hears; `Finish` is
any way out after it, through the `finally` that counts the call.  `outcome` is
the method's local variable, and keeps what an earlier attempt left in it when a
later one is cancelled or raises something the method does not catch.  Costs
are the preflight estimates as whole units (the code rounds them to 8 decimals).

**PiiGuard** has the pure parts of both guards: a text is what the analyzer and
the classifier find in it (spans with types and scores, severities), and the
operators say what is blocked and which positions are left after masking.
`ModelGateway` carries them: `prompt` is what its provider is sent.

**Identity** and **Workflow** are operators translated from the settings'
validator, the dependencies and the resolver, and from the classifier, the
agents and the local tool servers.  A query is reduced to what the classifier
and the agents test of it; the records of `domain/novabank.py` are constants.
`Routes` has human review beside the classifier's choice because
`SupervisorWorkflow` falls back to it on any exception.

**RequestPath** runs exchanges through the middleware, a route's dependencies,
its handler and the store contract.  `pc` is the await at which an exchange is
suspended, `reply` the response its handler has made, `status` what the client
got, `counted` what `HTTP_REQUESTS` has of it, `overdue` that the middleware's
timer has run out and its callback has not run.  Three facts of the runtime
shape it.  All exchanges share one event loop, and `create_pending` is
synchronous: while one exchange is in the store (`LoopFree` fails), no other
moves and no timer fires.  After a 504 the handler is not cancelled
(`BaseHTTPMiddleware` gives it a task of its own), so its approval may still be
created and its response is dropped.  And `dispatch` catches `TimeoutError`,
its own or a handler's (`Raised`).  The store may be any backend:
`Store!Succeed`, `Store!Raise` and `Store!Late` are the contract's, so a call
that raised may still take effect later.

**Knowledge** is ingestion and search.  The same steps (`Open`, `ChunkStep`,
`AddLocal` or `AddAzure`) are the startup of a process with the local index and
the script that fills Azure's; they differ in that the local index is new in
each process and not searched before it is whole, while Azure's is kept, is
searched meanwhile, and only ever written to.  A content is its length and the
positions of its blanks, and chunking is done with the code's arithmetic,
Python's negative slice bounds included.  `Crash` and the subset of writes that
succeed in `AddAzure` are its faults.

## 3. Runs

| Run | Instance | What it shows |
|---|---|---|
| `approval_contract` | 2 clients, 2 ids, 2 tenants, 2 verdicts | the contract itself: `HonestAnswers`, `DecidedOnce` |
| `redis` | 2 clients, 2 ids, 2 tenants, 1 fault, resending client | Redis implements the contract; a pending id that was given out is in the index (`PendingIsIndexed`), a list misses none and reads its own tenant's only (`ListIsCompleteAndOwn`), gauges add up (`GaugesAddUp`) |
| `sqlite` | 2 clients, 2 ids, 2 tenants | SQLite implements the contract, reading back included; `GaugeAtRest` |
| `postgres_threads` | 2 threads of one process, 2 connections, 2 tenants, 1 fault | no connection leaks, is shared or keeps a tenant (`PoolIsSound`); `EveryCallReturns` |
| `postgres_processes` | 2 processes of one thread and one connection, 2 faults | implements the contract across processes and their row locks; `GaugesAddUp` |
| `sliding_window` | limit 2, window 3, times 0..8 | `AllowanceHolds`, `DeniedOnlyWhenExhausted` |
| `rate_limiter_threads` | 3 threads, limit 2 | what the unlocked limiter does keep: `OvershootIsBounded` (at most one admission per other thread over the limit) |
| `rate_limiter_race` | 2 threads | expected **violation** of `AllowanceHolds`: two threads read the length before either appends |
| `mcp_gateway` | 3 tasks, 2 subjects, limit 1, window 2, 2 attempts | exactly one record, and a true one, on every path out of `invoke` (`AuditTellsTruth`); `OnlyGovernedCalls`, `EachKeyHasItsLimiter`, `AllowancesHold` of every key, `EveryInvocationEnds` |
| `model_gateway` | 2 tasks, 2 tenants with ceilings 3 and 2, costs 1 and 2, 2 attempts, window 2, 4 texts | `CeilingHolds`, `EventTellsTruth`, `EveryGenerationEnds`; of the text a provider is sent, `PromptIsScreened` |
| `request_path` | 2 exchanges, 17 requests for one and an investigation that stores an approval for the other, local, development and production settings | answers agree with the store, and an approval nobody knows of follows only a 504 or a 500 (`AnswersTellTheTruth`); each exchange is counted once and as what its client got (`CountsTellTheTruth`); `EveryExchangeIsAnswered` |
| `knowledge` | 5 releases of 2 documents, both indexes, crashes and lost writes in every run | `AnswersStayInScope`, what a finished run leaves (`IngestedIsComplete`), `ChunkingEnds` |

Each property of each passing run has a mutant: a plausible bug in one mapped
definition with which TLC finds the property violated.

### Bounds, and why they are enough

Two clients and two records are the smallest instance in which each hazard of
the stores happens: two decisions of one record, a list crossing a decision of
one of two records, a tenant's call on a connection another tenant used.  Two
tenants tell "own" from "other".  One fault reaches every
lost-reply state; the second of `postgres_processes` allows a lost connection
and a failed statement in one behaviour, or both connections lost.  The limiters need a window
longer than one tick (an admission can be half expired) and one more check than
the limit.  One attempt of `McpGateway` can be retried and the last one cannot:
`MaxAttempts = 2`, as in `ModelGateway`, where two reservations of unequal cost
are enough to pass or to exceed a ceiling.  The tasks of both make one call each, so the models stop when
all have ended (`CHECK_DEADLOCK FALSE`), as `RequestPath` does when its exchanges
have; `RateLimiter` and `SlidingWindow` stop, if at all, where their clock does.
`MaxFaults` and `Time` bound the faults and the clock and are constants;
`LimboBound` of `MCApprovalStore` keeps one request in limbo at a time.

In `RequestPath` exchanges interact through the loop alone, and one that can
block it is enough to delay another: the first exchange takes every way through
a route (refusals, every specialist, a mismatch, a consequential action, a
subject too long, a query too long, no entitlement), the second is an
investigation that ends in an approval or an answer.  One chunk of text is
enough to find or not to find evidence.  The texts of `ModelGateway` have
overlapping, touching and equal-start findings, a blocked one, and severities
below and without a threshold and missing.  The releases of `Knowledge` have a long
and a short edition of one policy for different roles, two files with the same
id, an unknown role, an unsafe file and a text that cannot be chunked;
`ChunkSize = 6` and `Overlap = 2` let a text of nine positions have a window
with a good boundary, one without and one whose boundary lies within the
overlap.  `MaxChunks` stops the chunking that does not end.

### Fairness

* `PostgresApprovals`: a thread that can take a step does (`WF` of `Work`: the
  database answers or the driver's 5 s timeout raises); the lock is handed to
  each waiting thread in the end (`SF` of `Lock`: an OS mutex gives no order,
  and no waiter starves for ever); the server ends the transaction of a lost
  connection (`WF` of `ServerEnds`: TCP keepalive).
* `McpGateway`: an attempt ends (`WF` of `AttemptEnds`: `asyncio.timeout`
  raises in a handler that hangs).  Nothing makes a task begin or be cancelled.

* `ModelGateway`: the checks and attempts end (`WF` of `Timed`), for the same
  reason: each is awaited inside `asyncio.timeout`.

* `RequestPath`: the timeout passes and its callback runs once the loop is free
  (`WF` of `Expire` and `TimeOut`); a call of the store ends, in an answer or an
  exception (`WF` of `StoreEnds`: the drivers' timeouts and
  `EveryCallReturns`), and the handler goes on (`WF` of `Resume`).  Nothing is
  assumed of handlers, tools and models: an exchange is answered although they
  hang.
* `Knowledge`: the chunking loop goes on (`WF` of `ChunkStep`: it awaits
  nothing).

The other specifications state no fairness: they have safety properties only.

## 4. Proofs

`McpGatewayProofs` proves the three properties of `SlidingWindow`, `TypeOK`,
`AllowanceHolds` and `DeniedOnlyWhenExhausted`, for every limit, window and set of
clock readings.  They are stated of `Limiter(k)`, the instance of `SlidingWindow`
with the components k of the gateway's variables, and for every k and every
behaviour of the instance, not only those of the gateway.  Neither of the latter
two is inductive: the deque alone says nothing of admissions it has forgotten.
The invariant (`WindowIsSound`) relates it to the history: the deque is the tail
of `admitted`, what was cut off has expired, times never decrease, and entries
`Limit` apart are at least `Window` apart.  Counting then reduces to an interval
of indices.  The assumptions are `LimitsArePositive` and `TimesAreNaturals`.  The
second is essential in one way only: time is discrete and does not run backwards,
as `time.monotonic()` promises.

`ApprovalStoreProofs` proves `TypeOK`, `HonestAnswers` and `DecidedOnce` of the
contract for every set of clients, ids, tenants and verdicts.  The argument:
only the creation of an absent record or the decision of a pending one ever
writes, in progress or from limbo; so a decided record is final, a tenant never
changes, and what was true when a call was answered stays true.  What is proved
of the contract holds of SQLite, Redis and PostgreSQL for every instance, since
each is proved to implement it: `SqliteKeepsTheContract`, `RedisKeepsTheContract`
and `PostgresKeepsTheContract` draw the conclusion for the behaviours of each
store, that none decides an approval twice or tells a client "ok" of what is not
so.  (The contract a store module instantiates and the one its proofs instantiate
with its theorems are two copies for the prover, which has to be shown that they
are the same, operator by operator.)

The module also has what the proofs about sums need, for any function and finite
set.  The library's `SumFunctionOnSet` adds a set up in an order that CHOOSE
picks and that its definition leaves open, so that one element may be taken out
of any sum (`SumRemove`) is itself a theorem.  It cannot be proved by the induction
theorems here; the argument takes a least subset of which it is false
(`LeastSubset`), which a finite set has.  `SumChanges`, that a change of one
summand changes the sum by as much, is all the gauges need.  The proof modules of Redis,
PostgreSQL and both gateways take these lemmas through an INSTANCE.

`SqliteApprovalsProofs` proves `ImplementsApprovalStore`, `TypeOK` and
`GaugeAtRest` for every number of threads, ids, tenants and faults.  A call
takes effect at its `INSERT`, `UPDATE` or `SELECT`; reading back and counting
are stutters of the contract, and an exception at any of them is its `Raise`.
For that the record a call reads back must still be the one it wrote, or one its
tenant's reviewers decided since, and an `INSERT` must find its id absent: the
invariant says both of each call (`CallIsSound`), the second because no other
call in progress has that id (`Unshared`).  `GaugeAtRest` speaks of quiet states
only and is far from inductive; between them the gauge is behind by the threads
that have written and not counted (`GaugeIsSound`), sets that have to be shown
finite to be counted.

`RedisApprovalsProofs` proves `ImplementsApprovalStore`, `TypeOK`,
`PendingIsIndexed`, `ListIsCompleteAndOwn` and `GaugesAddUp`, for every number of
processes, ids, tenants, timeouts, crashes and late commands.  Effect is at `SET NX`, the
script or `GET`.  A `SET` or script whose client gave up is in limbo for the
contract, and applied or dropped (`Late`) when the server gets to it; a late
`SADD` or `SREM` is a stutter.  No invariant of the calls in progress is enough,
since a late command outlives its call, so `LateIsSound` says of each command
what made its client send it: a `SADD` is for a record that exists and a `SREM`
for one that is decided for good, whenever the server runs it.  From that
follows that an index holds its tenant's ids only, and that an id somebody was
told of, or is about to read, is in the index while it is pending
(`ToldAreIndexed`).  A list then misses nothing because what it owes is among
the ids it has read or has still to read (`ListIsSound`).  The last clause of
`PendingIsIndexed`, that an index at rest is exact if nothing failed, needs a
part of the invariant that holds only as long as nothing has (`FaultFree`).
`GaugesAddUp` is about quiet states; in the others each gauge is behind by the
call its process is in, one record between `SET NX` and `SADD` or between the
script and `SREM` (`Due`), and with that the sum is right after every step until
something fails (`GaugesAreDue`).  A sum needs finitely many processes
(`ClientsAreFinite`).

`PostgresApprovalsProofs` proves `ImplementsApprovalStore`, `PoolIsSound`,
`GaugesAddUp` and `TypeOK`, for every number of processes, threads, ids and tenants, any finite
pools (`PoolsAreFinite`) and any number of failed statements and lost
connections.  `PoolIsSound` rests on where a connection is: in its pool, or with
the thread that has its process's lock (`LockIsSound`, `ConnIsSound`), and on
what its session holds by how far that thread has come, as long as the connection
is alive (`SessionIsSound`): it is as new whenever it can be given back.  The
contract's writes take effect at COMMIT, its reads and refusals at their
statement.  So between statement and COMMIT a write must stay applicable and its
id nobody else's, and it must stay so when its client has given the connection up
and the server commits later; hence `WriteIsSound` speaks of the session, not of
the call.  A decision has the row lock for that (`LockedFor`), a create an id
nobody else knows (`Unshared`).  A COMMIT whose reply is lost is the contract's
`Raise` with the request in limbo, its end at the server `Late`, and no two
sessions ever owe the same write, so that it is then out of limbo.
For `GaugesAddUp` there are two sums, of the gauges, which processes have, and of
what they are behind by, which their threads are: a write committed and not
counted yet (`Due`).  That only a write that was committed is ever counted holds
until something fails, and is part of the invariant (`Unfailed`).  Processes and
threads are finite (`ThreadsAreFinite`).

The same invariant shows that there is no deadlock.  A call waits in three places:
for its process's lock, for a connection in an empty pool, and at its statement for
the lock of a row.  Each wait is for a thread that has come further in its call
(`Depth`), or for the server to end the transaction of a lost connection, and
whoever has written a row never waits again before it commits or rolls back
(`WriterCommits`).  So there is no circle (`NoCircularWait`), and while a call is
in progress some thread or the server can go on (`NoDeadlock`), for any processes,
threads and lost connections.  Both assume a connection in every pool, which
`PostgresConnectionPool` insists on (`state/postgres.py` 74).  `CanGo` spells out
the guards of `Lock` and `Work`; that they are enabled where it says so is not
proved, ENABLED being out of reach, but the runs check for deadlock and
`EveryCallReturns`.

`McpGatewayProofs` also proves `AuditTellsTruth`, `OnlyGovernedCalls`,
`EachKeyHasItsLimiter` and `TypeOK` for every set of tasks, subjects, tools and
policies and every limit.  What the record says in the end depends on local
variables of `invoke` that several attempts have written, so the invariant says
what they mean while a handler runs: as many calls as attempts, no record yet,
and `outcome` is "timeout" only after an attempt that ended so
(`Attempting`).  `OnlyGovernedCalls` compares a count of running handlers with a
count of admissions; `KeyIsSound` says it of each key, and each action changes
one key by one.  `EachKeyHasItsLimiter` is a refinement: an admission or denial
of a key is `Check` of its `SlidingWindow`, where the entries the purge loop
drops are shown to be a prefix (`PurgedIsSuffix`), and every other step leaves
that key alone.  `EveryKeyHasItsAllowance` draws the conclusion for the gateway's
own behaviours: `AllowancesHold`, the allowance theorems of every key at once.
Two more facts about a trail somebody will rely on later: a handler is never called
more often than the retries allow (`HandlerCallsAreBounded`), and a record of the
audit, once written, stays, each by the step that ends its invocation
(`AuditIsAppendOnly`).

`RaceIsBounded`, in the same module, is about the limiter without a lock:
`OvershootIsBounded` and `TypeOK` of `RateLimiter`, for every limit, window, clock
and finite number of threads.  A thread that has passed the comparison and not yet
appended is counted with the entries of the deque (`HttpIsSound`).  At the
comparison there is room for one, and each other thread may be past it already.
In the first window of a key nothing has expired, so that every admission is
still in the deque.  `RateLimiter` has variables of its own, so the theorem is
stated of an instance of it, `Http`, and of all its behaviours.

`ModelGatewayProofs` proves `EventTellsTruth`, `PromptIsScreened`, `CeilingHolds` and `TypeOK`,
for every number of tasks, tenants, attempts and texts.  As in the tool gateway,
the event a generation leaves depends on `outcome` and `attempt`, which several
attempts have written: while it is suspended, `Attempting` says that each attempt
before the present one ended in a timeout or a failure of the provider, and that
nothing was counted.  `PromptIsScreened` rests on the masking (`SanitizedIsMasked`).
`Masked` is a CHOOSE, so that there is such a selection has to be shown first
(`MaskedIsSelected`): the findings are ranked in the order in which the code sorts
them, and `ScanGoesOn` extends a selection from one rank to the next, as the
code's loop does.  Every finding is then masked or overlapped by a masked one that
begins earlier, and its own start is gone in both cases.
`CeilingHolds` compares the costs of a history with a ceiling, and `reserve` sees
the ledger only.  `LedgersAreSound` says that the ledger is a tail of the
history, that what is missing has expired, and that no window up to now has
cost too much.  A reservation is then made from what is in the window that ends
now, which the ledger has all of (`TotalOfSuffix`); no earlier window gets it,
and when time passes the new windows hold no more than that one did
(`CostsGrow`).

`KnowledgeProofs` proves `AnswersStayInScope`, `IngestedIsComplete` and `TypeOK`.  Azure cannot ask whether a
chunk's roles are a subset of the caller's, so its filter excludes the known
roles the caller lacks: that is right only of chunks without unknown roles
(`FiltersAgree`), which is a fact about the index and not about the search.  The
inductive invariant follows a chunk's roles from the file it is cut from,
through the run's `chunks`, into the index and the hits; `Crash`, lost writes
and `Install` cannot break it because nothing but `AddLocal` and `AddAzure` puts
a chunk there.  `ChunkingAdvances` proves that each turn of the loop moves on, for every
size and overlap, in a text without a window whose only spaces lie within the
overlap; that the loop therefore ends is liveness, and left to `ChunkingEnds`.
Its assumption `ChunkingIsValid` is the code's own test.  For `IngestedIsComplete` the
invariant says of a run what its chunks have covered of the file at hand
(`RunIsSound`) and of the index what the files before it left there
(`IngestedSoFar`).  A chunk stored under a key may come from an earlier run of the
same document: it is the same chunk, because the loop's cuts are a function of
the text (`ChunkingIsAFunction`), while another edition's may only be left beyond
the last number of this one.  `ReleasesAreFiles` and `AbsentIsNoChunk` say what
the constants stand for.

`RequestPathProofs` proves `AnswersTellTheTruth`, `CountsTellTheTruth` and
`TypeOK` for every set of exchanges, requests and settings.  `AnswersTellTheTruth`
speaks of responses that were sent, and the timer may send one at any moment; so
the invariant follows the exchange from its admission: how far its handler has
come and with what result (`HandlingIsSound`), what both the response it has
made and the one its client got may claim (`MayTell`), and that whatever is in the
table, in progress or in limbo for an exchange is the approval its own result
asks for, in the tenant it was admitted for (`StoreIsSound`).  The last also
covers a handler whose client had a 504 long ago.  A lemma says that a step of an
exchange leaves the others theirs (`OneExchangeAtATime`), and one lemma for each
action does the rest.  `CountsTellTheTruth` is not inductive either: `Deliver` and `TimeOut` both count,
and what keeps them from counting twice is that an exchange that is not done has
no status but 504, and nothing counted without one (`Uncounted`).

`PathUsesTheContract` is the other side of the stores' refinements: whatever the
exchanges do with approvals, through the one call at a time that a handler makes
and the ones given up, is a behaviour of the contract, so the path may be put on
any store that implements it.  `NothingIsTakenBack` is about histories: the
approval an exchange has created, the status its client got and what was counted
of it stay as they are, also when a handler ends long after its client's 504.

`DeployedIdentityIsTheTokens`, `ReviewsShowNothing` and `SkillsNameOwnTools` are
theorems about the operators of `Identity` and `Workflow`; the last one compares
the skill registry's table with the tool gateway's.  They assume
`BundlesAreValid` (no role is called as a tenant, which the registry does not check but
the resolver relies on) and `NothingIsNoName`.

Of a constant set of requests `RequestPath` assumes that they are requests
(`RequestsAreRequests`), and `ConfigurationsAreAccepted` that settings passed the
validator, as the code enforces at startup.

Every invariant and every action property that a passing run checks is proved.
Only model-checked is liveness, which TLAPS does not prove here:
`EveryCallReturns`, `EveryInvocationEnds`, `EveryGenerationEnds`,
`EveryExchangeIsAnswered` and `ChunkingEnds`.  The part of them that is safety is
proved, as an action property with a measure of what is left:

| Theorem | At most | What remains for TLC |
|---|---|---|
| `CallsOnlyAdvance` | 9 steps of a call | that a thread that can go on does, the lock is handed on, the server ends lost sessions |
| `InvocationsOnlyAdvance` | `MaxAttempts` + 1 of an invocation | that timeouts run out |
| `GenerationsOnlyAdvance` | `MaxAttempts` + 3 of a generation | that timeouts run out |
| `ExchangesOnlyAdvance` | 10 of an exchange | that the timer and the store's calls end |
| `ChunkingAdvances` | each turn moves on | that turns are taken |

The first four say that a step of one's own brings the end nearer, whatever raises, times
out or is cancelled, and that a step of anybody else does not put it off.  With
them, and `NoDeadlock` for the stores' calls, what is left to model checking is
the fairness stated above and the enabledness of the steps.

### Assumptions of the models

`uuid4` does not repeat an id.  PostgreSQL runs READ COMMITTED, its role has
neither SUPERUSER nor BYPASSRLS, and `tenant_isolation` (`state/postgres.py`
128-132) is in force.  Redis
runs a command or script at a time, and does not lose acknowledged writes.  A
list attribute access or call of CPython is atomic; threads interleave between
them.  The event loop runs one callback at a time.  What the analyzer, the
classifier, the embedding and the language model return is anything.

## 5. Findings

`rate_limiter_race`: the limiter states an allowance per window which threads
of one process can exceed, because `check` runs in the thread pool and compares
the length of a deque it has not locked; `OvershootIsBounded` shows by how much.

What follows was met while modelling.  No text of the repository says otherwise,
so none of it is a finding; each is a path of a model that holds its properties.

* A 500 is never counted: the exception leaves `dispatch` before the counter
  (`middleware.py` 58-71), so the 5xx alerts (`observability/prometheus/alerts.yml`
  5) see 503 and 504 only.
* A `TimeoutError` that a handler raises itself is answered 504 at once.
* After a 504, or a 500 whose write took effect, an approval exists that its
  client has no id of; asking again creates another one.
* A subject longer than 128 characters gets 500 from a specialist's route, since
  `CallerContext` is built outside the `try` that leads to human review
  (`operations.py` 99-107).  The demo's RAG form answers 500 for a query over
  500 characters (`app.py` 473-479); the API's answers 422.
* A record may already be decided when `create_pending` returns it: another
  client can list and decide it before it is read back.
* When a generation's first attempt fails otherwise and its last one times out,
  the exception says that the provider timed out on every attempt (`gateway.py`
  120); telemetry has it right.
* The tail of a finding that starts inside a masked one is sent on.
* Azure's index keeps the chunks of an older, longer edition after a shorter one
  was ingested, with the text and roles they had.
* A text with a window of `chunk_size` whose only space lies in the first
  `overlap` positions after its start is chunked for ever; the bundled documents
  have none.

## 6. Not modelled, and the plan

Left out: opening and closing a store and creating its tables (start and stop of
the process); `/metrics` and the workflow series; response bodies, headers,
request ids and log records; embeddings, scores and ranking (a search may return
any admitted chunks); prices beyond the preflight estimate; the provider
adapters and their SDKs; the verification of token signatures and the transport
of remote tools, which libraries do; the evaluation runner, the SDK client and
the operators' scripts, which are clients of what is modelled; infrastructure.
None of them keeps state that others race for.

Of the plan one thing is left: a composition of `RequestPath` with a reviewer who
lists and decides, which only operators' scripts do.  The two sides meet in the
store alone, and both are clients of its contract (`PathUsesTheContract`).
