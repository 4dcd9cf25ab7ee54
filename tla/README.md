# A verification project for ai-vibe-coding-kit

TLA+ models of the parts of `src/ai_vibe_coding` whose correctness depends on
the order in which things happen, TLC configurations that check them on small
instances, and proofs, checked by TLAPS, of what holds for every size. Paths
below are relative to `src/ai_vibe_coding` unless they say otherwise.

`tlc -config X.cfg M` checks a run of the table in section 4, `tlapm M.tla` the
proofs of section 6. PROJECT.json holds the same facts for tools: components
and their status, runs, the lines each definition stands for, the hazards at
their lines with the properties that answer to them, findings and theorems.

## 1. The system and its parts

The kit is a library: most parts are objects that an application's threads
share, or rows of an SQLite file (or of a Redis) that its processes share. No
component runs a protocol over a network; what is hard is threads and
connections that interleave, calls that fail between two transactions, clocks
and timeouts, and state that outlives the call that read it.

| part | state | operations | talks to | what makes it correct |
|---|---|---|---|---|
| Circuit breaker (`resilience.py`) | a record per provider: state, two counters, `opened_at` | `record_failure`, `record_success`, `get_state`, `check` | the client, the fallback chain, the clock | the state agrees with the outcomes reported; OPEN is left on evidence, and is always left |
| Resilient client, response cache, observability (`resilience.py`) | cache entries with an age, an event log, a breaker | `chat_with_failover`, cache `get`/`set`/`invalidate` | breaker, provider SDKs | every request ends and accounts for every provider; calls to an OPEN circuit stay within what was admitted before; a recovered provider is used again |
| Fallback chain and health checker (`resilience.py`) | a window of samples per provider | `execute`, `record_call`, `check` | breaker | it disturbs no circuit; what becomes of an unhealthy provider |
| Retry policy, timeout budget (`resilience.py`) | none | delay, lookup, comparison | - | arithmetic |
| Agent runs and approvals (`control_plane.py`) | run state, a checkpoint row per step | create, complete, request, decide, resume | SQLite | separation of requester and reviewer; COMPLETED is earned; finished runs complete |
| Virtual keys (`control_plane.py`) | budget and total per key, spend ledger | `create_virtual_key`, `authorize`, `record_spend` | callers' model calls | total = ledger; a run is charged once; overspending is bounded |
| Trace ingestion (`control_plane.py`) | traces, idempotency keys | `start_trace` through `_idem` | HTTP clients that retry | one answer per key |
| Spans, findings, experiments, gates (`control_plane.py`) | parents with a state, children, scores | `add_span`, `record_finding`, readers, `record_score`, `evaluate_gate` | SQLite | marks and verdicts are backed by rows |
| Provider registry, listings, redaction (`control_plane.py`) | provider rows | upsert, list, render | SQLite | single statements and conversions |
| Control API and gateway (`control_api.py`, `app.py`) | none | HTTP routes | control plane | one call per route |
| Memory store, SQLite (`memory_store.py`, `memory_compaction.py`) | memory rows with status, importance and TTL; logs; counters | store, retrieve, search, forget, purge, evict, `compact`, `impact_decay` | embeddings, clock | the row budget; compaction loses nothing and returns nothing |
| Memory store, Redis (`memory_store.py`) | hashes, a sorted set of ids, metadata | the same without compaction | Redis and its expiry | the row budget; nothing half-written comes back |
| Memory embeddings (`memory_embedding.py`) | none | embed, cosine | - | numeric |
| Rate limiters (`rate_limiting.py`) | a bucket, a window, or a rate that follows a health score | consume, allow, refill, reset, `update_health` | clock | the limit holds over every stretch of time |
| Quotas (`rate_limiting.py`) | usage per provider and user | `check_quota`, allocations, `record_usage`, resets | callers' model calls, clock | overruns are bounded; resets come when they are due |
| Scheduler (`scheduled_scanning.py`) | tasks, a thread, two flags | add/remove, `run_due`, `run_all`, `start`/`stop`/`reset` | callbacks | a due task runs; stop stops; running means served |
| Scans: drift, regression, cost anomaly, SLA (`scheduled_scanning.py`) | scores, baselines, records with times | evaluate, detect, three compliance checks | clock | verdicts follow from the data they claim, within its window |
| Agent team and supervisor (`agent_team.py`, `agent_templates.py`) | workers, totals of a team | `run`, delegation, `add_worker`/`remove_worker` | LLM clients | cost limits |
| Message bus, publish-subscribe (`agent_templates.py`) | subscriptions, a queue per agent | subscribe, publish, dispatch | handlers | delivery and its order |
| Agent guards (`agent_templates.py`) | failures and a probe flag, a retry counter, dead letters | `AgentCircuitBreaker`, `AgentRetryPolicy`, `AgentFallback` | agents | one probe; a dead letter is final |
| Fan-out, pipeline, shared state (`agent_templates.py`) | a pool's futures | `run` | executors | timeouts, completeness |
| Chain templates (`chain_templates.py`) | steps that may be chains, a shared context, a status | `run` of five chains, human-in-the-loop step | callables | the status reflects the outcomes |
| Chaos engineering (`chaos_engineering.py`) | faults, snapshots, phase, counters | inject, observe, prepare, run, clean | calls of a provider | an experiment reports what it observed |
| Cost tracking (`cost_store.py`, `cost_tracker.py`) | cost rows, daily rollup, records in memory | record, query, roll up, export, reset | SQLite, clock, files | rollups lag but never overstate; a file lists what it counts |
| Budget alerts (`budget_alert.py`) | configurations, a history that only grows | check a given spend | - | comparisons |
| Cost calculation, Gemini sessions, LLM wrapper, metrics, MCP server, CLI, playground | none that is shared | conversions, input and output | SDKs, files | - |

How the parts meet: the client asks the breaker, then its cache, then a
provider, and tells the breaker the outcome; the fallback chain asks the health
checker and then the breaker. All of the control plane's methods share one
database, each on a connection of its own (`ControlPlane._db`); Python's
`sqlite3` opens a transaction at the first write only, so a method that reads
and then writes has a gap in the middle. The memory store's sessions
(`MemoryStore._session`) are the same, `compact` and `impact_decay` use two of
them, and the cost store's rollup reads before its first write. Most objects of
`rate_limiting.py`, `scheduled_scanning.py` and `agent_templates.py` have a
lock and take it once per method, but what a caller does spans two methods, or
a method takes it twice.

## 2. The modules

| module | models | builds on |
|---|---|---|
| `CircuitBreaker` | the breaker; operators on one record, actions on one provider | |
| `CircuitBreakerHistory` | the same beside the outcomes reported | `CircuitBreaker` |
| `FallbackChain` | `execute` by many callers, and the health checker | `CircuitBreakerHistory` |
| `ResilientClient` | concurrent requests on one breaker and one cache | instance of `CircuitBreaker` |
| `ResilientClientHistory` | the same beside the calls made to open circuits | `ResilientClient` |
| `AgentRuns`, `AgentRunsHistory` | runs, checkpoints and approvals | |
| `VirtualKeys` | keys, ledger and callers | |
| `TraceIngestion` | `start_trace` through `_idem` | refines `OneAnswer` |
| `OneAnswer` | what an idempotency key promises | |
| `Verdicts`, `VerdictsHistory` | traces with spans, scans with findings, gates with scores | |
| `MemoryStore`, `MemoryStoreHistory`, `MemoryRerun` | SQLite memories and their compaction | |
| `RedisMemory` | the Redis backend, command by command | |
| `CostLog` | cost rows and their rollup, the tracker and its exports | |
| `RateLimiters` | bucket, sliding window, adaptive limiter | |
| `Quotas` | quotas under concurrent callers | |
| `PromptRegression`, `Baselines`, `SlaChecks` | the scans | |
| `Scheduler` | tasks, the threads that run them, start, stop and reset | |
| `Chaos` | fault injection and experiments | |
| `AgentTeam`, `MessageBus`, `AgentGuards` | parts of the agents | |
| `FanOut` | `AgentFanOut` and `ParallelChain`, both on a thread pool | |
| `Chains` | the sequential chains, the approval step, the pipeline | |
| `Sums` | facts about sums over finite sets, for the proofs | |
| `FallbackChain_proofs`, `ResilientClient_proofs`, `Scheduler_proofs` | proofs about these and `CircuitBreaker` | |
| `Ingestion_proofs` | proofs: traces and keys, verdicts | |
| `Stores_proofs` | proofs: virtual keys, memories, costs | `Sums` |
| `Operations_proofs` | proofs: quotas, Redis, prompt regression, chaos, rate limiters, baselines | `Sums` |
| `Agents_proofs` | proofs: agent runs, team, guards, fan-out, bus, chains | |
| `MC...` | constants for TLC, and compositions | |

A `...History` module adds variables that record what happened without
influencing it, so that a property can compare what the program keeps with what
really took place; smaller modules declare such variables themselves, marked
"history". Definitions under the heading "Faulty variants", or introduced as
such, are used by no specification; each is a definition of the module with one
plausible slip, and a run must notice when it takes the place of the right one.

### Correspondence with the code

*CircuitBreaker.* One record per provider, as `_providers`. `opened_at` becomes
`age`, the time since, stopped at `OpenTimeout`: the code compares it with the
timeout and nothing else, so no bound on the clock is needed. `Close`, `Open`
and `HalfOpen` are `_transition`, with what it does not reset: `fail_count`
survives OPEN and HALF_OPEN, `success_count` survives the move to HALF_OPEN.
A success heard while OPEN leaves OPEN at once, without waiting for the
timeout, as `record_success` does; the class docstring speaks of the timeout
only. Every method is one step: the code has no lock, and its
`+= 1` on a shared record can lose an update (section 7).
Callbacks of state changes are observers and left out.

*FallbackChain.* A caller's `phase` is its place in the loop of `execute`: asking
the health checker, asking the breaker, calling. The chain reports nothing of a
call's outcome; the `provider_call` it is given does, to both, when it returns or
raises. An exception that is not in `fallback_on` leaves `execute` at once
(`CallEscapes`).
A health check is over the last `WindowSize` samples; latencies, which only make
a provider DEGRADED, gate nothing. The breaker's other users are its own
actions.

*ResilientClient.* A caller's `phase` is its place in `_execute_with_failover`,
`at` the provider of the loop, `attempt` the inner loop's counter, `event` what
it reported to `Observability` about each provider. Every use of breaker or
cache is a step of its own, so callers interleave between any two of them. The
breaker is asked once per provider, before the cache and all attempts. A
timeout goes off (`Expire`) but its exception reaches the caller only when the
provider's call is over (`ExpiredCallReturns`), because it is raised inside the
executor's `with`. Retries, refusals by a nested breaker
(`CircuitBreakerOpenError`), timeouts and other errors end as in the code's
`except` clauses. `ResilientClientHistory` counts, request by request, the calls
begun since a circuit opened.

*AgentRuns.* `run` and `checkpoint` are the two tables, for one run; `op` is
what a caller has read and not acted on. `decide_agent_approval` and
`resume_agent_run` are two actions each, a read and a transaction; the others
are one. Writes look at nothing again, as in the code. `Abort` is a lock
timeout or the end of the process: the transaction is rolled back.

*VirtualKeys.* `authorize` reserves nothing; `RecordSpend` is the transaction
of ledger row and total, and on a run id that is there already the
`IntegrityError` that the code swallows. Callers repeat a `record_spend` they
are not sure of, or die and record nothing. `Finish` is the environment: a model
call that cost no more than was authorized, under a fresh run id.

*TraceIngestion.* The three connections of `_idem` are three actions; a failure
may come in each of them; a caller repeats a failed call with its key.
`OneAnswer` has a settled id per key and the set of ids told: settle a key
once, then tell what is settled. Under the mapping, `settled` is the table of
keys and `told` the answers given; creating a trace is a stutter.

*Verdicts.* Adding a child marks the parent in one transaction; readers take two
SELECTs, `evaluate_gate` a read and an UPDATE.

*MemoryStore.* `memories` is the table; a memory `holds` the contents that went
into it, so that merging and distilling are unions. Ids stand for `created_at`.
Similarity is equality of topics, which makes it transitive: groups that only
the greedy order of `select_merges` decides do not arise, and merged contents
keep their topic. `Load` is the first session of `compact` with the planner,
`Apply` the second: distilled rows are inserted and their sources archived, then
keepers rewritten and made active, even those just archived, and the older ones
archived; updates of rows that are gone change nothing. `Drop` is a dry run or a
failure. A TTL is not chosen when a memory is stored but when it runs out.

*RedisMemory.* A client sends one command or one pipeline per step; `phase` is
the command it sends next, `ids` what its last one listed. Redis expires a hash
(`Vanish`) and leaves its id in `recency`. A hash that is gone when `retrieve`
writes `last_accessed_at` comes back with that field alone (`Touched`), which
the scans of purge and search then trip over. The first store pins mode and
dimension of the embeddings, in commands of their own. `Break` is a lost
connection between any two commands; `skipped` counts the stores that wrote
their row and broke before they evicted.

*CostLog.* `RecordRequest` is one INSERT; `run_daily_rollup` is two steps, the
SELECT of the totals (`RollupReads`) and the transaction that its first write
opens (`RollupWrites`). `export_json` is three: the summary under the tracker's
lock, the records under it again, the file; of both the number of calls is kept.
Dates are whole days: `created_at` is text with a blank between date and time, a
window's upper bound ends in `T23:59:59`, and the blank sorts before the T, so
that a window holds the whole of its last day and nothing of the next.

*RateLimiters.* One limiter, of some kind, under its lock: each method is a
step, the clock another. Amounts are whole units, `Unit` to a request. `grants`
and `gifts` record what was granted when and what operators put in by hand.
`Trimmed` is the loop that pops what has left the window. Nothing in the code
keeps an adaptive limiter's `min_rate` below its `max_rate`, so that its rate, and
the tokens it adds, may be negative; `TopRate` is the highest rate it can have. Time
is credited, and `last_refill` moved, only when tokens are added (`Credit`).

*Quotas.* A pair's `day` and `month` are the time since each began, stopped one
tick past its length. `CheckQuota` or `Allocate` lets a caller through and
`RecordUsage` charges it later, with tokens and a cost that are independent
arguments in the code and here; any of five methods may be the one that resets
the day. `AddQuota` on a pair that has a quota replaces its limits and keeps its
usage. `Allocate` ignores the monthly cost where `cost_per_token` is 0, the
default: the history variable `had` notes it, with the largest limits of a pair.
How much it allocates is only in its answer.

*PromptRegression, Baselines, SlaChecks.* `evaluate` is two steps, a read of the
last score and the append, each under the lock; a score keeps what it was judged
by. Means, deviations and z-scores are compared multiplied out, in whole
numbers. SLA records keep their age and are forgotten once too old for the
window, since the code only ever filters by it. The three checks change nothing
and nothing in the code calls them: they are operators, and what is said of
them is said of every state in which somebody might.

*Scheduler.* `registered` and `left` are `_tasks`, with the ticks until
`next_run`; `worker` is a thread in `run_due`, `run_all` or `_run_loop`, with the
tasks it took under the lock and has not run yet. `start` and `stop` are one
action for each read or write of `_running` and `_thread`, because nothing
guards these; the 5-second `join` waits for nothing the model could count on.

*Chaos.* `Call` is `inject_fault` in a provider's call: the expired faults go, and one
of the others may hit it, which counts an injection. `observe` reads
`injection_count` without a lock for the errors of its snapshot (`ReadErrors`) and
again for the requests (`CaptureSnapshot`); `clean` removes the faults
(`Unregister`) and reads it once more (`Report`). Calls, `clear` and the clock come
between any two of these. `injections` is cumulative over experiments, as in the
code; of the snapshots the totals are kept.

*AgentTeam.* `loop` is the place in `run`: the supervisor's turn or a worker's,
and the round. A supervisor answers, delegates, or does neither and is asked for
another round. A cost is added before the limits are looked at. A team is built
anew when workers changed, with fresh totals (`runs` counts those of the present
team). One caller at a time: neither
class locks.

*MessageBus.* `publish` takes the matching handlers under the lock, calls them
one by one without it, and queues under the lock again; `owed` and `called`
record who should see a message and who has. A handler that raises ends a
`publish` with the message in no queue; a coordinator's handlers are guarded and
go on. Types and filters are sequences of segments and `Matches` is the bus's own
comparison, wildcards and unequal lengths included.

*AgentGuards.* Each operation of `AgentCircuitBreaker` is under its lock. The
retry policy is one object whose `retry_count` every thread overwrites; a dead
letter is written from that field.

*FanOut, Chains.* Pool tasks start in order as workers come free, the caller
gathers them as they complete, and leaves the `with` when all have ended. The
caller of a `ParallelChain` writes each output into the context that its steps
share, and a running step may `Read` what is there at any time; `saw` records it.
A chain is a run over sections of steps; kinds differ in what a step that raises
does to the rest and to the status. A step that returns a `ChainStep` leaves that
as its record, with whatever status it has (`StepReturns`). A step of a conditional
chain may be another one (`Nest`): the outer run waits in `outer`, then takes over
all its records, and its status only if that is `failed` (`Resume`). `Nests` says at
which places, and `MaxDepth` bounds how deep. A record keeps the sections it lies
in, one for each run around it.

## 3. What is done, and what could come next

Everything in the table of section 1 that keeps shared state is modelled, at
least in part. In the order of what it would add:

1. The breaker's methods split into their reads and writes, for threads that
   share a breaker without the lock it lacks.
2. `impact_decay` with amounts, the counters of the `meta` table and
   `evicted_total`: what several purges count twice.
3. An account with bounded credit that `VirtualKeys` and `Quotas` both
   implement, and a set of findable contents that `MemoryStore` implements but
   for the cases named in section 5.

## 4. The runs

| run | instance | what it shows |
|---|---|---|
| `fallback` | chain of two providers, two callers, thresholds 2/2, timeout 1, a window of one sample, other users of the breaker | state and counters agree with the outcomes since the last opposite one; OPEN is left only on a success or a full quiet timeout; a quiet provider is offered again and again; an unhealthy one nobody is bound for is never called again |
| `client` | two callers, two providers, two attempts, TTL 0, thresholds 2/1, timeout 1 | a finished request accounts for each provider; while a circuit stays OPEN each request calls its provider no more often than one admission allows, and one of them less often; every request ends; a recovered provider's circuit closes for good |
| `ingestion` | two clients, two keys, four traces; one reader, two evaluators, one floor, one ceiling, values 0-2 | the refinement of `OneAnswer`; once stored, every client of a key gets its trace; marks have a child that explains them; PASSED was true once; stable scores settle the gate |
| `scheduler` | two controllers, two loops at a time, one caller, two tasks, interval 1 | a running scheduler is served; loops end after the last stop; a due task is run or removed |
| `stores` | two callers on two keys, three run ids, budgets 0 and 2; two compactors, two topics, two rows of budget, four rows ever; two jobs that roll up or export, two days, two rows, two records kept | overspending by at most one maximal estimate for each caller but one; total = ledger, each run charged once; see below for memories; rollups never overstate; an exported file lists what it counts unless the tracker was reset meanwhile |
| `operations` | a bucket of two requests over four ticks; a quota with two configurations, one of them without a price, for two callers; two evaluators; samples of up to five against a threshold of 1.5 deviations; an SLA window of one tick; two scenarios; two Redis clients, one row of budget, two stores | limits over every stretch of time; bounds of quota and row overruns; what verdicts on prompts, baselines, SLA windows and experiments rest on; a resurrected hash stays |
| `agents` | two workers, two users, two steps; two publishers, two messages; two team members, three runs; two threads; three tasks on two pool workers; all chains, one level of nesting in the branch and behind an additional gate | the decider is not the only requester; COMPLETED was earned; done runs complete; queued after handlers; overspending by one response per run; dead letters are final; steps see each other's outputs in no ring; a status tells the failures that count |
| `self_approval` | two workers, two users, one step | violated: `NoSelfApproval` |
| `duplicate_trace` | two clients, one key | violated: `OneTracePerKey` |
| `hung_call` | one caller, with a provider that may hang | violated: `TimeoutEnforced` |
| `memory_rerun` | one compactor, one topic, budget 2 | violated: `RerunDistillsNothing` |
| `redis_eviction` | that of `operations` | violated: `EvictsOnlyOverBudget` |

*Compositions.* Parts that share no state share a run: in `ingestion`, `stores`,
`operations` and `agents` the variable `part`, chosen in the initial state, says
which of them runs, and the others stay as they are. Such a run is the sum of
its parts' state spaces, not their product, and each property is about one part.
The parts that do interact are composed for real: breaker, health checker and
callers in `FallbackChain`, breaker, cache and requests in `ResilientClient`.

*Bounds.* Two actors are what a race between a read and a write needs; the third
party, where one is needed, is the environment's action. Three tasks are what a
ring of more than two needs, and what keeps one queued behind two workers.
A largest call, of 2, overruns a quota that has 1 left, so that what two callers
overrun it by differs from what one does; `MaxSpent` lets both be charged after an
allocation that passed by the cost. Of five samples at 1.5 deviations some
are drift, of four just none, which is the boundary that `OwnDriftNeedsSamples`
names. `MaxCounted` holds two observations of all injections. Every counter is compared
with a threshold, and the bounds reach each threshold and one less; ages stop at
the last value the code can tell apart. What must be finite is used up: ids, run
ids, memories (`MaxIds`), messages, runs of a team, records, scores, and the
clocks of limiters, experiments and Redis (`Horizon`, `MaxTime`, `LastTick`).
Deadlock is checked where somebody can always do something (`fallback`,
`client`, `ingestion`, `scheduler` and all violations but one); `stores`,
`operations`, `agents` and `duplicate_trace` stop when their bounds are used up,
and say `CHECK_DEADLOCK FALSE`. Symmetry is used in `stores` only, which has no
liveness property.

*Why the bounds of the clocks are enough.* `Horizon` 4 lets a bucket empty, fill
past its capacity if it could, and empty again; `Day` 1 and `Month` 2 reach the
boundary tick of each, and a month that ends inside a day; the SLA window needs
one tick at its far end and one beyond; a Redis TTL of 1 runs out at the first
tick and is seen at the second.

*Thresholds of the cache.* With TTL and SWR 0 an entry is served until the
next tick and then deleted; the branch that keeps an entry past its TTL for the
stale-while-revalidate window (`ResponseCache.get`) is modelled but not reached
with these values.

*What `stores` says of memories.* Originals stay within `max_rows` at all times,
although compaction inserts rows and evicts none: the next store makes up for
it. Unless another compactor applied its plan in between, applying a plan takes
no content out of the reach of search, except that of a group whose newest
member went away since the plan was loaded. What cannot be found comes back
only by a plan that was loaded before it went.

## 5. What the models found

The five violated properties are statements of the repository's docs, docstrings
or comments; PROJECT.json quotes them.

- `self_approval`: between `decide_agent_approval`'s read and its UPDATE the
  step's approval may be requested again, by the reviewer; the row ends with one
  user as both. What does hold is `DecidedBySomebodyElse`: somebody else asked.
- `duplicate_trace`: two callers with one idempotency key both make a trace. What
  does hold is `KeyIsPromise`: only one of them is ever returned.
- `hung_call`: the timeout of a provider's call goes off and its caller waits on.
- `memory_rerun`: `_compact_distill` does not tell `_compact_merge` what it
  archived, so the newest of a distilled group becomes active again, and the next
  `compact` distills it again.
- `redis_eviction`: `_evict_if_over_budget` counts ids, among them those of
  hashes that have expired or that another client has just deleted, and evicts
  live memories for them. What does hold is `RowsWithinBudget`.

Seen while modelling, and part of the models, not runs:

*Memories.* With two compactors a plan that was overtaken can archive the row
that another's merge has just made the only one to hold some content
(`overtaken` excludes this); when the keeper of a group is forgotten, evicted or
expired between `Load` and `Apply`, the group's content is archived and written
nowhere (`Orphaned`); a permanent memory merged into one with a TTL goes when
that expires; a forgotten memory comes back inside a merged row if a plan in
flight had loaded it. `docs/memory-guide.md:370` says that search excludes
distilled rows; `search` excludes archived ones only, and the model follows it.
In Redis a `retrieve` can bring back a hash without its fields, on which every
later purge, and with it every store, fails (`PoisonStays`).

*Scheduler.* When a `stop` clears `_thread` between the second and the last
line of a `start`, that `start` raises `AttributeError` and leaves `_running` set
with no loop: further starts return at once until somebody stops the scheduler.
`RunningIsServed` therefore speaks of starts that raised. Two loops can be alive
after a stop that gave up waiting and a start.

*Providers.* The health check comes before the call and only calls produce
samples, so a provider found UNHEALTHY is given up for good (`UnhealthyIsGivenUp`);
its circuit may be CLOSED all the while. `AgentCircuitBreaker` has
no operation that reports a success, so the "consecutive" failures of its docstring
are all failures ever; and once a probe is let through, the circuit is closed
whatever becomes of it, until the next failure opens it again.

*Limits.* At the very tick `time_until_next_slot` names, the sliding window still
refuses. `TokenBucket.refill` throws away the credit of the time since the last
refill. `AdaptiveRateLimiter.update_health` credits past time at the new rate; the
branch commented as scaling linearly yields `max_rate`; a rate below one, such as
that of the default `min_rate` of 0.5, admits nobody, since the capacity is the
rate; its state STOPPED is never reported. A quota is reset strictly after its day
or month, at the boundary not yet.

*Quotas.* `cost_aware_allocation` of a quota without a price lets callers pass by an
exhausted monthly cost, on which `check_quota` refuses them: the bound on the cost
in `OverrunBounded` holds only while it has not.

*Scans and experiments.* A window without samples is COMPLIANT, and an uptime check
that failed counts as an error-free request of the error rate. A baseline of
enough samples calls its own outlier drift (`OwnDriftNeedsSamples` says how many:
six at the default of two deviations). A later chaos experiment reports the
injections of an earlier one. An experiment that observed injections passes
when calls inject between the two reads of `observe` as often as it had found, for
instance once after one; or when the count is cleared there
(`PassedMissedWhatItSaw`).

*Costs.* `CostTracker` never writes to the store that `get_daily_cost` reads, and
`export_json` looks at its records twice: records that come in between are listed
and not counted, and after a reset in between a file has totals without rows
(`ExportsListWhatTheyCount`).

*Agents and chains.* An agent's answer that goes over the limit is paid for and
lost; a team over its limit still asks its supervisor once per run
(`OverspendBounded` has the exact bound). A fan-out's timeout loses all answers
and still waits for all tasks. Steps of `ParallelChain` that
start late see the outputs of earlier ones, where its docs speak of one shared
input (`SightIsOrdered`). Among the chains of `Chains` only the sequential and the
conditional ever return `failed`: others raise out of `run` or record the failure
under another status. A conditional one is `completed` over failed records that
come from behind an additional gate, its own or that of a chain nested in it, or
from a step that returned a failed `ChainStep`; and after a nested chain that
failed, the rest of its section still runs (`StatusTellsFailure`).

*The client.* The breaker is asked once per provider, so that a circuit that
opens is still called by all requests past that check, with all their retries
(`OpenLimitsCalls` has the bound).

## 6. Liveness and proofs

*Fairness.* `fallback`: callers ask for the state from time to time and time
passes. `client`: callers' threads run, callers keep coming, and a provider's
call ends sooner or later; the last is dropped in `hung_call`, because the client
adds no bound of its own. `agents` (runs) and `ingestion`: calls end (each
statement has SQLite's lock timeout), a caller whose call failed repeats it with
its key, the gate is evaluated again and again, and not every attempt finds the
database locked (strong fairness of the step that a lock can defeat).
`scheduler`: threads run and callbacks come to an end; nobody is assumed to start
or stop it, or time to pass. `operations` and `stores` have no liveness property
and assume no fairness.

*Proved by TLAPS*, for all values of the constants that the named assumptions
allow:

- `FallbackChain_proofs`, *the breaker* (from `BreakerAssumption`: positive
  thresholds): types, the three parts of `CircuitTellsEvidence`
  (`ClosedCountsConsecutiveFailures`, `HalfOpenCountsConsecutiveSuccesses`,
  `OpenSinceLastFailure`) and the action property `LeavesOpenOnEvidence`. The
  inductive invariant `IInv` says provider by provider what each state knows of
  the evidence (`Agree`). It adds that OPEN has no counted successes, without
  which a circuit that moves to HALF_OPEN could start with some. Lemmas show what
  each operation does to one pair of record and evidence.
- *The chain* (also from `ChainAssumption`: a chain of providers, not
  empty): every step of the chain is a step of the breaker beside its evidence or
  a stutter (`StepIsHStep`), so `FSpec` implements `HSpec` and all that is proved of
  the breaker holds here; and `UnhealthyIsGivenUp`. `FInv` adds to the types that
  a call that has not failed is at a place of the chain.
- `ResilientClient_proofs` (from `ClientAssumption`: a chain without repetition,
  at least one attempt, naturals for thresholds and times): types,
  `OutcomeAccountsForChain`, `OpenLimitsCalls`. The first speaks of requests that
  have ended; `Accounted` says of a request at every place of the loop what it
  must have reported of the providers behind it, the one it is at and those to
  come. The second is not inductive: `LateInv` bounds the calls made since a
  circuit opened *plus what a request may still make of its admission*
  (`Allowance`), which its failure has diminished before the circuit opens and
  which nothing renews while it is OPEN.
- `Agents_proofs`, *runs* (from `AgentAssumption`: NULL is no user): types,
  `ReviewerIffDecided`, `DecidedBySomebodyElse`, `CompletedOnceDone`. The
  properties speak of the tables, but what makes them true is what callers hold
  between read and write: `HeldReads` says that it stays true of the history
  whatever others write, `RequestersAsked` and `DoneNoted` that reads start true.
- *Team, guards, fan-out, bus* (from `TeamAssumption`, `GuardAssumption`,
  `FanOutAssumption`, `BusAssumption`): `OverspendBounded`, `OneProbePerOpening`,
  `DeadAfterAllAttempts`, `SightIsOrdered`, and
  `QueuedAfterHandlers`. For the team, `TeamInv` says that while the supervisor is
  asked only the runs before have overrun the limit, and that a worker is asked
  only below it. For the guards, `GuardInv` ties the number of
  calls of a run to its attempt. For the fan-out, `EndedFirst` says that what is
  in the context, and so what anybody has seen, has ended and reads no more: of any
  set of steps the first to have ended sees none of the others. For the bus, `BusInv` says that no two threads
  publish one message (`PublishersOwn`) and that what is queued was sent
  (`QueuedWereSent`): without these an `Enqueue` could queue a message twice.
- *Chains* (from its `ChainAssumption`: sections have steps, steps have tries):
  types and `StatusTellsFailure`. `StatusSoFar` says it of runs under way, which
  needs to know where a run can be (`Position`), and `Waiting` of every run that
  waits for a nested one, to any depth, so that what `Resume` merges is right on
  both sides.
- `Stores_proofs`, *keys* (from `KeyAssumption`: finitely many callers, at least
  one, budgets and estimates are naturals): types, `ChargedIsInLedger`,
  `OvershootBounded`. That bound is not inductive: `Reach` says that of the
  callers authorized and not yet charged on a key either one still saw the budget
  hold its own estimate, with the others able to add one maximal estimate each,
  or that one is done and its part is spent. Costs are assumed not to exceed
  estimates; nothing in the code enforces it. `ChargesMatchLedger` needs
  `KeysInUse`: callers hold keys that were created, and a key that was not has
  nothing spent, so that creating one moves no total.
- *Memories* (from `MemoryAssumption`: a positive row budget): types,
  `OriginalsWithinBudget`, `ReturnsOnlyFromPlans`, `CompactionKeepsContents`.
  `PlansHoldOriginals` says what may become of the rows of a plan until it is
  applied: they may go or change their status, but their ids are never given
  again and they never turn into distilled rows. The last property also needs
  that what the plan of a compactor that was not overtaken says of its rows is
  what the table says of them (`PlansAreCurrent`).
- *Costs* (from `CostAssumption`: at least one day, amounts are naturals): types,
  `RollupNeverOverstates`, `ExportsListWhatTheyCount`. A job writes what it read a
  while ago: `Truthful` says of a rollup that it was a total once, while days only
  grow, and of an export that what it counted is among what is kept, or was reset.
- `Ingestion_proofs`, *traces* (from `TraceAssumption`: None is no key and no id):
  types, `AnswersAgree`, and the refinement `KeyIsPromise`. `AnswersAgree` is not
  inductive: a caller that is about to store must have a trace that exists
  (`StoringHasTrace`), and so must every key (`StoredExists`).
- *Verdicts* (from `VerdictAssumption`: a metric is either a floor or a ceiling,
  values are naturals): types, `MarksAreExplained`, `PassedWasEarned`.
  `ReadingExplained` speaks of a reader between its two SELECTs: the mark it has
  seen has its reason in the other table already, and rows stay. For the gate,
  what an evaluator holds was true of the scores when it read them.
- `Operations_proofs`, *quotas* (from `QuotaAssumption`: limits, prices, charges and
  costs are naturals, 0 included; finitely many callers): types, `OverrunBounded`,
  `ExhaustedUntilReset`. `OverrunBounded` is
  inductive with the types, since its right-hand side counts the callers
  that are *not* under way on a pair: whoever is let through takes its room
  along, but finds the usage below the limit, and brings the room back with its
  charge; `QInv` states it pair by pair, beside that `had` bounds the limits of
  now. The lemmas count callers before and after one of them moves.
- *Redis* (from `RedisAssumption`: finitely many clients, positive `MaxRows`):
  types, `RowsWithinBudget`, `PoisonStays`. Evictions decide on a list read
  earlier and overlap, so that no count of rows alone is inductive:
  `EvictionsSuffice` says for *every set* of the evictions under way that the rows
  these leave are within the budget of the stores not among them.
  `CallsInOrder`, `PendingIsFresh` and `RowsAreRanked` say what a client between
  two commands knows; `SkippedOnce` that a store breaks at most once.
- *Prompt regression and chaos* (from `RegressionAssumption`, `ChaosAssumption`):
  types and `DeepFallsAreFlagged`, from `ScoresAreJudged`: a score, recorded or
  about to be, was judged by the last one there when it was read; and
  `PassedMissedWhatItSaw`, from `ObservationsKept`: unless the count was cleared
  meanwhile, the errors of the snapshots are what the observations set out from,
  and the requests these and what came between their reads, where the one under
  way has its part in hand.
- *Rate limiters* (from `LimiterAssumption`: positive rates, sizes and times):
  types and `NoStretchExceedsLimit`, for all limiters. For a pool
  `LimiterIInv` bounds what a stretch that ends now was granted *plus what the pool
  can still reach* (`PoolBound`); refills move the two together. Where a rate has
  become negative what it can reach is too, and `PoolGranted` bounds the grants
  alone. For a window it
  says that the list covers what was granted since it began (`EntriesCover`) and
  that no stretch within a window length exceeds the limit (`WindowsBounded`).
  Longer stretches follow by cutting off one window after another, as a smallest
  counterexample.
- *Baselines* (from `BaselineAssumption`): `OwnDriftNeedsSamples`, for any number of
  samples and any threshold. A sample lies at most `(n - 1) / sqrt(n)` deviations
  off the mean of `n`, which is Cauchy's inequality for the others (`SquareOfSum`,
  `SampleIsNear`), so one can be drift only if that exceeds the threshold.
- `Scheduler_proofs` (from `SchedulerAssumption`): types and `RunningIsServed`,
  which is inductive with the types: only a loop that sees the scheduler stopped
  ends, and whoever sets `_running` goes on to launch a loop or to raise.
- `Sums`: a sum over a finite set is that of its parts, grows with its terms and
  does not depend on the order the fold takes, for sums written with
  `SumFunctionOnSet`. Where a reader expects an induction on the set, the proofs
  take a smallest set for which the claim fails.

*Only model-checked*: what holds under fairness, liveness being out of the prover's
reach (`QuietProviderIsProbed`, `EveryRequestEnds`, `RecoveredProviderReturns`,
`StoredKeyAnswers`, `GateSettles`, `StoppedLoopsEnd`, `DueTaskRuns`,
`DoneRunCompletes`); `BreachesFollowRecords`; and the two
sides of each finding. Every other property of a passing run is proved.

## 7. Not modelled, and why

*Threads inside the breaker.* `CircuitBreaker` has no lock and its methods are
sequences of reads and writes; the models let calls overlap at method
boundaries only, as callers in one thread do. Lost updates of a counter are
listed as a hazard without a property.

*Numbers.* Amounts are whole and rounding of REAL columns is left out; so are
decay amounts (and with them that each run of `impact_decay` decays from
`created_at` what is decayed already), eviction scores (any rows may be evicted,
which includes the ones the scores would choose), the counters in the `meta`
table and `evicted_total` (two purges may both count the same rows). Embeddings,
cost arithmetic, back-off delays and timeout budgets are pure functions.

*Assumed of the environment.* No worker of a team is named `supervisor`, whose
costs would be added to the supervisor's. A model call costs no more than its
caller of a virtual key announced. A run id, once used, is used again only to repeat its
own call. Of a chain's steps the `ConditionalChain`s are known by their places, and they
do not nest in themselves.

*Left out of modelled parts.* Wording of messages, events, summaries, reports and
metadata; state-change callbacks; latencies of the health checker;
`cost_today` and `requests_today` of a quota, which only `get_usage` shows; the
supervisor's strategies that call one worker and record nothing; streaming and
token sums; kinds of fault; the cost queries by provider, model, user and session,
percentiles and CSV, which only read. `AgentFanIn` is a pure merge, `SharedState` a dictionary
under a lock, `ChainRunner` only calls chains.

*Not modelled at all.* The provider registry, listings and redaction (single
statements and conversions); `control_api.py` and `app.py` (one call per route);
retry policy and timeout budget, embeddings, cost calculation (pure functions);
budget alerts (comparisons of a spend they are given, with a history nothing reads);
Gemini sessions (each method one transaction, one writer per session); SDK calls,
metrics, benchmarks, the MCP server, the CLI and the playground (input and output
without shared state of interest). PROJECT.json gives a status and a note for each.
