# A TLA+ model of OM World

OM World has three programs. A Next.js server (`app/`, `lib/`, SQLite through
Prisma) matches intents to capabilities, queues their execution for compute
nodes, keeps credits and reusable patterns, and assigns pattern blobs to storage
nodes; the node client (`node-client/`) talks to it. A Python SDK (`sdk/`) runs
patterns locally, and a small event server (`server/`) and a set of tools
(`tools/`) collect and aggregate what it logs. A Python reference
(`reference/authorization_evidence/`) admits actions against signed
authorizations and shared budgets. The three share no state.

This directory models the parts where order, concurrency and failure decide
whether the program is right, checks the models with TLC and proves what
matters most about them with TLAPS.

1. [Inventory](#inventory)
2. [Modules](#modules)
3. [Runs](#runs)
4. [Fairness](#fairness)
5. [Proofs](#proofs)
6. [What the code does otherwise than it says](#what-the-code-does-otherwise-than-it-says)
7. [Not modelled](#not-modelled)
8. [What could follow](#what-could-follow)

## Inventory

| Component | State | Operations | Talks to | Hard behaviour | What makes it correct |
|---|---|---|---|---|---|
| Compute work queue: `lib/work.ts`, `api/executions`, `api/nodes/heartbeat`, `api/nodes/work` | rows of Execution, WorkAssignment, Intent | enqueue, claim, complete, inline run, fallback sweep | nodes by HTTP; credits and patterns by call; sweep by a fire-and-forget call | read-then-claim races, awaits between check and transaction, lost responses, crashes, repeated submissions, accounts opened by two completions at once, an unprotected call after the commit | one worker a job, rows that agree, rewards once, and missed only by a race for an account, completion final, no job queued for ever |
| Node client: `node-client/src` | what it computes, what it has to confirm, blobs on disk | heartbeat loop, compute, submit, store, prove | the two node routes and the proof route | lost requests and responses, restart, lost disk | works only on what it owns, confirms what it stored |
| Credits: `lib/credits.ts` | CreditAccount, CreditEvent | ensureAccount, recordEvent, one function for each kind of event | called by all routes | two requests that create one account, failure between creation and grant | balances add up, one grant a user |
| Patterns: `lib/patterns.ts` | Pattern rows with counters, window, cool-down, baseline | find, create, record a reuse, record a fresh run, deprecated increment | called by `completeWork`, the inline path and feedback | decisions on a row read before others wrote it; an absolute write beside increments | no reuse lost, rewards earned, none to the author, cool-down kept |
| Storage nodes: `lib/storage_assignment.ts`, `lib/nodes.ts`, `api/nodes/{register,heartbeat,proof}` | Node, StorageAssignment, Pattern.storageUri | register, assign, re-deliver, confirm, challenge, verify, strike, reward | nodes by HTTP | a blob rebuilt on each use, calls that overlap because the node gave one up | what is advertised is confirmed, strikes have a cause and an end, periods are not paid twice |
| Ledger: `reference/.../ledger.py` | accounts, nonces, reservations, bindings, signed log | reserve, finish, audit, export | called by admission | several accounts in one charge, reuse after settlement, an audit beside writers | ceilings, rows and log agree, settled is final |
| Admission and checkpoints: `persistent.py`, `admission.py`, `checkpoints.py`, `sources.py` | anchor file, flock, in-memory checkpoint, ledger | persistent_admit, recover, advance | ledger; operator, who restores | death between commit and anchor, old backups, clock and revision of receipts, `finish` without the lock | one hand-out an invocation, under its authority; the anchor never goes back |
| Evidence core, policy, offline verifier: `core.py`, `policy.py`, `verifier.py` | none | canonical encoding, predicates, verification of a bundle | pure | about 60 checks in order | a bundle is accepted only as a whole |
| Matching, capabilities, executors, LLM clients: `lib/{matching,capabilities,llm,openclaw*,deepseek}.ts`, `lib/executors` | none of their own | score, classify, call a model | external models | failing and malformed answers | handled by the callers, modelled there |
| SDK session and runtime: `sdk/{session,runtime}.py`, `sdk/executors` | the levels of steps in progress; a session's counters | run a workflow; check, judge, invoke, record an outcome | the backend, an LLM, a shell | guards, loops in loops and failing steps in every combination; a log call that raises; a callable that exits | events pair up, a failed step stops its run, success means every step ran, a run ends |
| Invocations and backends: `sdk/invocation.py`, `sdk/backends` | three appended files, or a server | enter, record an outcome, exit | files, git, event server | a write that raises in the middle; an outcome told twice | no step or operation has two outcomes, a child may |
| Event server and tools: `server/server.py`, `tools/{push_outbox,sync_server_metrics,aggregate_metrics}.py` | the invocations table, the outbox, copies of rows, SKILL.md | post, count; jobs that read, post and rewrite files | the backends' files, each other's files | events appended between read and rewrite, repeats after a crash, half-written copies | each invocation is counted once, no line is stuck |
| Evolution tools: `tools/{propose_evolutions,apply_evolutions,_apply_r_promote}.py` | pattern files, two git repositories, the server's copies, a log of changes | propose, revert, edit, commit, ship, log | metrics, an LLM, git, rsync | death or failure between edit, staging, commit, ship and log; commits that take the whole index; reverts of edits others are stacked on | one change of a file a day, what is marked reverted is gone, a fixed text is written once unless it was taken back |
| Reply monitor: `tools/check-replies.py` | crm.md, the bound of the last run | fetch, escalate rows, report, save the bound | GitHub; a founder who edits crm.md | posts, changes of state and edits while a run is on its way, failing fetches, death before the bound is saved | no reply is missed, a row is escalated for a cause |
| Pages, reports, scouts, migrations, deployment | none | show, fetch, copy | routes, other services | none of its own | - |

The components of the server meet in the database and in `completeWork`: it ends
a job (WorkQueue), records the reuse and pays (PatternEconomy). The heartbeat
route serves two components in one handler, compute and storage; it claims work
for a compute node and confirms, challenges or assigns for a storage node.

The hazards of the modelled parts, each at its line and with the properties that
catch it, are listed in `PROJECT.json`.

## Modules

The granularity is the same in all modules of the server: Node runs one handler
from one `await` to the next without interruption, so an action is the code
between two awaits, with at most one database call; a Prisma transaction is one
action, since SQLite runs transactions serially. The Python ledger is a set of
`BEGIN IMMEDIATE` transactions; an action is a transaction.

### WorkQueue and WorkContract

`WorkQueue` is `lib/work.ts` with the routes that drive it and the compute half
of the poll loop. A job is an execution with the work row made in the same
transaction (`PostExecution`). A request slot is a node's request in flight:
`Heartbeat` reads the oldest queued row the node runs, `Claim` is the
conditional `updateMany` (0 rows: answer without work), `Mark` the second write
that marks the execution running, `Reply` the response that reaches the node, or
does not. `Submit`, `CheckSubmit`, `ReadWork`, `Commit` and what follows are
`PUT /api/nodes/work` and `completeWork`: status check, reuse lookup,
transaction, the reward of each capability the execution hired, node reward,
reuse or creation of a pattern, its reward if there is a creator. A payment is
what `ensureAccount` makes of it: `Pay` when the payee has an account, else
`FindNone` and then `CreateAccount`, or `CreateCollides` when another handler or
`POST /api/capabilities` (`OpenAccount`) has created it in between: the unique
index throws and the reward is dropped. `due` are the capability rewards a handler
still owes. Jobs in `Instant` report no elapsed time and earn no compute reward;
intents in `Unclassified` make no pattern. `RefuseSubmit` is a PUT turned away
before `completeWork`, `LoadFails` a read of the sweep outside its `try`, which
leaves the job running. The sweep (`Scan`, `Inline`, `Claim`, `RunInline`, then the
same `completeWork`; `FailWork` and `FailExec` when it throws) is one handler,
because `sweepInFlight` lets one run. `MatchIntent` is the write of
`POST /api/intents/[id]/match` that may come at any time. Faults:
`Disconnect`, `NodeCrash`, `ServerCrash`, and failing calls
(`...Fails`), each bounded.

`WorkContract` says what the queue is for without handlers or rows: a job is
taken once, by one worker; only the server fails one; a finished job earns each
reward once and the compute reward only for a node's work. `KeepsContract` is
that the queue implements it, with rows mapped to stages.

### EvidenceLedger and SharedBudget

`EvidenceLedger` has the tables of `ledger.py` (accounts with their terms,
reserved and spent amounts, nonces, reservations, bindings, the log) and one
action for each transaction: `Reserve` and `Finish`, which audit the tables in
their own transaction before they write. A standalone `audit` is one deferred
transaction too, but a read that writers may overtake: its first SELECT pins the
snapshot that all later ones read (`AuditBegin`), and the verdict comes when others
may have committed (`AuditEnd`). A hash chain is a sequence and a checkpoint a
prefix of it. `Replay` reconstructs the tables from the log; `Audit` compares the
result with the tables of the same snapshot and then asks whether the checkpoint is
in the log, as `_audit_snapshot` does.

`SharedBudget` knows invocations and what they were granted, and no counters,
tables or log; `ImplementsBudget` is the refinement.

### AnchoredAdmission

`AnchoredAdmission` has an INSTANCE of the ledger and adds what `persistent_admit`
does around it: the flock (`Admit` takes it, `Return` gives it back), authentication
of receipts against the clock and the highest revision seen, binding, the
audit against the anchor, the observation written before the reservation, the
reservation, the advance of the anchor and the answer. `Recover` is
`CheckpointStore.recover`. `Act` is the caller who carries out what was handed to
him, `Consume` and `Release` his `finish`, which takes no flock. Mishaps: a
death at any step, a failing write of the anchor file, a database error.
`Backup` and `Restore` are an operator who puts an older ledger back.

### StorageNodes

`StorageNodes` has the node and assignment rows, the nodes' own disks, and
versions of blobs: `buildPatternBlob` runs anew on each use, so a blob is the
version the source has now. A call in flight is a heartbeat or a proof; the
heartbeat confirms, advertises, then draws for a challenge, re-delivers or
assigns; the proof route checks, and strikes, counts and demotes, or records,
sums and pays. `CallFails` is a node that gives up a call which the server goes on
with, so two calls of one node may run at once. `Restart` and `DiskLoss` are the
node's.

### PatternEconomy

`PatternEconomy` is `lib/credits.ts` and `lib/patterns.ts` with everything that
calls them, except what `WorkQueue` has: a job is an intent with its execution
and goes through `stage`s (submission charge, lookup, commit, rewards, pattern),
and a payment through `step`s (find the account, create it, grant, record).
`ReadPattern` and `WriteReuse` are the read and the write of
`recordPatternReuse`, between which others run; `Reuse` distinguishes the
counters that the database increments from the window and the cool-down that
are set to what was computed from the read. `IncrementReuse` is the inline path
of `POST /api/executions`, which uses the deprecated helper and always pays.
Feedback is two calls, `RecordFeedback` and `BumpGood`. A tick of the clock is a
matter of days, so no request is in flight while it passes. Amounts are those of
`OMC` in `lib/credits.ts`; times are one sample on each side of the
reward threshold (a fresh run takes 2, an adapted one 1).

### PatternRuntime

`PatternRuntime` is one run of `Runtime.run`, or one session. `stack` holds the
levels of `_execute_steps` in progress, because a `loop_until` step calls it
again for its body; the `pc` of a level is the place in the step: before it
(`OpenStep`, which also raises for a missing input or an unknown kind), the
pre-guards, the executor, the post-guards, and `CloseStep`, which logs the outcome
and stops the level or goes on. `Raise` is an exception leaving a level: it ends
the run, or the loop executor catches it. The executors are the sets of what
they may return (`ToolReturns`, `JudgmentReturns` and so on); `loop_until` is
`Iterate`, `EndLevel` and `Raise`. `Exits` is a `python_callable` that raises
SystemExit, and `Interrupted` a KeyboardInterrupt anywhere: neither is an
`Exception`, so no level catches it (`Unwinds`) and only the `finally` block of the
run is left, which logs the outcome of the run (`Finished` runs have ended by
themselves or so). `Severity` is the part of `guard_check` that
decides how bad a violation is. A session is `EnterSession`, operations
(`StartOp`, `EndOp`, and `EnterChild`, `RecordChild`, `LeaveChild` for the nested
invocations: a child logs an outcome each time it is told one, after its block has
ended too, and at the end of its block only if it was told none), `CloseSession` and
`ExitSession`, with the roll-up counters of `_sub_invoke_start` and `check`. The agent's metrics are
laid over those counters; `Overlaid` is a completion whose counters they replaced.
`StepLogFails` and `OpLogFails` are a backend
that raises, its event stored or not; `Dies` ends the process.

### EventDelivery

`EventDelivery` follows an event from `sdk/invocation.py` to SKILL.md. An agent's
`Write`s are those of `LocalBackend` (`runtime/invocations.jsonl` and the
pattern's own log in one step, since no modelled program reads the first; then
the outbox) or the request of `ServerBackend`. `ReadOutbox`, `Probe`, `Post` and
`Rewrite` are a run of the pusher, `Stored` the server's insert; launchd runs one
pusher at a time. `Dump`, `Truncate` and `Fill` are the sync tool, `AggregateOne`
the aggregator. `Overlaid` patterns are in two pattern directories: the SDK logs
to the last one, the aggregator reads the first (its comment at
`aggregate_metrics.py:241` says it does as the SDK does). `Lines(s, S)` are the
lines of a file at the places `S`, in order: what the rewrite keeps of the outbox
(`Keep`), and the rows of a pattern in the copy (`Fill`).

`PatternTools` holds what this module and the next declare in common: the patterns,
the bound on failures, and `Mishap`, the part of an action that only a failure or a
death takes. The initial state, the next-state relation and the specification of this
module have names of their own (`DeliveryInit`, `DeliveryNext`, `DeliverySpec`),
so that one module can extend both.

### PatternEvolution

`PatternEvolution` has the text of each target as the set of edits in the working
file, in the index, in the last commit and on the server, the table of applied changes
(`log`) and the proposals file. A run of `apply_evolutions.py` is `StartApply`
(which reads the rows that are old enough), `CheckRow` and the revert of each
(`GitRevert`, `LogRevert` or `RevertUnlogged`), `LoadProposals`, and for each
recipe `SkipRecipe`, or `WriteRecipe`, `Stage`, `Commit` (or `CommitFails` at either),
`Ship` and `LogApply`. `Stage` is `git add` of the target; `Commit` is `git commit
-m`, which names no path and takes what the index holds of any file of the
repository, also what an earlier run has left staged. A run may die between any two
of them. `Propose` writes a new file of proposals from whatever the metrics, the article signals and the violation
clusters may say. The order of rows and recipes within a run is free.

### ReplyMonitor

`ReplyMonitor` is `check-replies.py`: `Start` reads crm.md and the saved bound,
`CheckRow` fetches the threads of one row and decides on its escalation, `ListOwn` and
`Sweep` fetch the own threads that no row has named, `PrintReport` shows what was
found, `ReadCrm` reads the file again and rewrites the chosen rows of its text by their
line numbers, `WriteCrm` writes that text over whatever the file holds by then,
`SaveState` writes the bound. A thread is fetched by two calls, each of which may fail:
comments (`NewComments`) and changes of state (`NewEvents`). The latter show of a
discussion only the closing that still stands, and of an issue no closing when it
was merged. Beside it people `Post` (comment, close, reopen, merge; `shut` is the
post that a thread is closed by), the clock `Tick`s, and the founder edits, adds
or removes rows at any time. Threads and posts are members of small sets; the
parsing of the table is not modelled, and neither are the limits of the calls: a
page of 100 threads or comments, without a second one, and 100 timeline items.

### MC modules

`MC<module>` holds the values of constants that a `.cfg` cannot write, for each
of the modules that is run.

## Runs

| Run | Instance | Shows |
|---|---|---|
| `wq_race` | 2 executions of one intent that hire both capabilities of one provider, 2 nodes, the sweep, `POST /api/capabilities`, 1 crash or lost connection | no double claim, claims kept, rewards once and, while nothing is lost, missed only by the race for a new account, contract kept |
| `wq_served` | 2 kinds of which a node runs one, 2 overlapping requests of that node, 1 loss and 1 failing call, fairness | every job leaves the queue; while nothing fails every job ends and its rows agree |
| `wq_resubmit` (violation) | a PUT sent twice, for an intent that makes no pattern | `PaidOnce` fails |
| `ledger` | 3 invocations, 2 accounts, 6 payloads that clash in nonce, binding, ceiling or amount, an auditor | ceilings, agreement of rows, log and audit, refinement of SharedBudget |
| `anchor_race` | 2 processes, 2 invocations, 3 instants, conflicting and cancelling receipts, 1 mishap, 1 restore | one hand-out, under its authority; the anchor grows; real spending within budget |
| `storage_serial` | 1 node, one call at a time, 2 patterns whose blobs change, one of which outgrows the limit, clock, 1 mishap, fairness | no hour paid twice, assignments are confirmed |
| `storage_overlap` | 2 nodes, 2 patterns, 2 calls at once (of one node or of two), 2 strikes, 1 mishap | what is advertised is confirmed; strikes have a cause; the threshold demotes |
| `economy` | 2 jobs of either path whose author provides the capability, 1 posted pattern, 1 feedback request at a time, 1 tick, 1 crash or failing call | one grant, rewards earned and not to the author |
| `replies` | 2 rows that share an issue, an own discussion, a comment, a closing and a merge of the issue, a closing and a reopening of the discussion, 2 instants, a `--since`, 1 fetch, edit or death that interferes | nothing posted before a complete run is missed but for what the fetch no longer shows; escalations have a cause |
| `evolution` | 2 gaps of one pattern, the article pattern, the settings file, 1 cluster, 2 days, 3 edits, 1 failure or death | one change of a target a day, reverted is gone, fixed texts once unless taken back |
| `delivery` | 1 local and 1 remote agent, 1 plain and 1 overlaid pattern, batches of 1, 1 invocation with up to 2 outcomes, 2 faults, fairness of the tools | counted once, bounded overcount, only raced lines vanish, the outbox drains, local outcomes are counted |
| `runtime` | 3 workflows (guards, a loop in a loop, steps that cannot run), a callable that may exit, a session of 3 operations, 2 faults, fairness of the run | events pair up, failure stops, success of a run that ends by itself is whole, roll-up never too low, runs end |

Why these bounds are enough to meet the cases. The races of the queue are
between two claimants of one row; a third node or job adds no new pair. Two jobs
of one intent are needed for a reuse of a pattern the other job created. One fault is enough for each single failure, and it
may come at every step; two faults are met in `wq_served` (a loss and a
failing call), `delivery` and `runtime`. In `wq_race` three handlers pay one provider for
the two capabilities of two jobs, four rewards, while a fourth may open his account: each
handler can lose the race once, and a second loss of one would show. In the ledger, three invocations on two accounts let a nonce,
an account's terms and a binding be used by a second invocation while the
first is settled, and a third compete for what is left; amounts 0, 1 and 2 against
ceilings of 1 and 3 meet a full account and a zero charge, and a payload with a
ceiling of 4 tries to reopen an account on other terms. In admission, two processes
with one lock, one death and one restore cover each pair of an admission with
another, with `finish`, and with an older ledger; three instants put the clock
before, at and past the age limit and the end of the authorization. For storage,
two versions of a blob are one change, and two strikes reach the threshold.
In the economy two jobs race for an account, a grant or a pattern. In the reply
monitor two rows that share a thread put a post before,
during and after a run, and one mishap comes at every step of it; with two instants
a post of the second is in time for no complete run, so that those of the first are
what `NothingMissed` is about, and the five posts give them the changes that
overtake each other. Two edits of
one target, on one day or on two, are what the quota and a revert can confuse, and a
third is the one that a commit of another target may take along;
two gaps of one pattern give a run two recipes for one file. A batch of one line
puts a second event behind the limit; with one invocation of two outcomes the
outbox holds up to three lines of it, and two faults let a run die and
its successor lose a response. In the runtime, the workflows have the three ways
a step leaves its level (guard, executor, missing input) at both levels of a loop
with each `on_fail`; two faults let a backend fail in a body and again outside.

`CHECK_DEADLOCK FALSE` in `economy` (when all jobs are done and the clock is at its
bound, nothing is left to do) and in `runtime` (a run or a session is over). The
other models never stop: heartbeats, audits, admissions, or tools that run again
stay possible.

Every bound is a constant: `MaxSubmits`, `MaxLosses`, `MaxErrors`
(WorkQueue), `MaxNow`, `MaxMishaps`, `MaxRestores` (AnchoredAdmission),
`MaxVersion`, `MaxTime`, `MaxStrikes`, `MaxMishaps` (StorageNodes), `MaxBusy`,
`MaxTime`, `MaxMishaps` (PatternEconomy), `MaxTime`, `MaxMishaps` (ReplyMonitor),
`MaxDay`, `MaxEdits`, `MaxMishaps` (PatternEvolution), `MaxInv`, `MaxOutcomes`,
`MaxMishaps` (EventDelivery), `MaxOps`, `MaxMishaps` (PatternRuntime). `MaxSubmits = 1` is the shipped client,
which sends one PUT for a job; 2 is a client, or a proxy, that repeats it. So
`PaidOnce` in `wq_race` guards against a double claim, and the overlapping
submissions of one result are the matter of `wq_resubmit`.

Symmetry is used in `anchor_race` (processes) and `storage_overlap` (nodes,
patterns, calls), both with safety properties only.

## Fairness

WorkQueue: the event loop resumes a handler whose await is over (weak fairness of
each handler and of the sweep), time passes (a job grows old enough for the
sweep), and a node's loop sends its next request. Posting, matching, faults and
crashes are never owed. `QueuedIsServed` depends on heartbeats, since only they
(and new posts) start a sweep, which is the code's own design.

StorageNodes: a node registers and polls, a call in flight goes on and its
answer is taken. Re-delivery is strongly fair: each heartbeat draws anew whether
it is a challenge (`Math.random() < 0.3` in the heartbeat route), so the draw
does not fall on the same side for ever.

EventDelivery: launchd starts the pusher and the aggregator again and again, and
a run goes on; nothing is owed by an agent or by the sync tool.

PatternRuntime: a run goes on by itself; an agent owes its session nothing.

All other runs check safety only and assume no fairness.

## Proofs

TLC checks an instance; these theorems hold for every value of the constants
that satisfies the module's one named assumption.

`WorkQueue_proofs`: `TypeCorrect`, `OneWorkerCorrect`, `ClaimIsKeptCorrect`,
`PaidOnceCorrect`, `PaidInFullCorrect`, `KeepsContractCorrect`.
`TypeOK` alone is not inductive: a handler that is past its claim must be at a
job (`Located`). `OneWorker` needs to know where an owner comes from:
`ClientOwns` (a node computes only what its row says), `RequestOwns` (a request
past the claim is of the owner), `SweepHolds` (a job that the sweep runs has the
owner `local-fallback`, or none once `completeWork` has written NULL) and
`Unowned` (a queued job has no owner, so a claim takes it from nobody).
The rewards are proved for `MaxSubmits = 1`, a client that sends one PUT per job
as the shipped one does; `wq_resubmit` shows that two PUTs pay twice. The
invariant `PayInv` says that one handler carries the PUT of a job (`OnePut`), that
the status of a job tells where its handler is (`Staged`), that a job which is not
claimed or not submitted has no reward (`Fresh`), and that a reward which some
handler may still record has not been recorded (`OpenUnpaid`). `PaidInFull` says what
is missed while nothing fails, and needs a count (`Owed`): before a provider has an
account, nothing of his is missed; once he has, the rewards missed and the handlers that
are about to create the account he has by now (`Racing`) are together no more than
there are handlers, since whoever comes later finds it. So an account costs a provider
at most one reward for each handler that was under way, for any number of jobs and
capabilities, and a node's reward, which needs no new account, is never missed.
`KeepsContract` is a step simulation of `WorkContract` under
the same assumption and `MaxErrors = 0`: a `recordPatternReuse` that throws after
the commit turns a completed job into a failed one, which the contract forbids
(crashes and lost connections are allowed).

`EvidenceLedger_proofs`: `TypeCorrect`, `WithinCeilingCorrect`,
`RowsAgreeCorrect`, `LogTellsAllCorrect`, `SettledIsFinalCorrect`, from
`LedgerInv`: the types, that a reservation has a row when it has a state, the
ceilings, the agreement of the rows, and that each row is in the log exactly once
and in order. The properties rest on each other; the ceiling of an account needs
that all reservations on it agree on its terms. `ImplementsBudgetCorrect`: the
ledger refines `SharedBudget`. The counters of an account are the sum of what the rows
on it charge (`CountersAddUp`), so that `reserve`, which looks at two counters,
admits no more than the abstract grant, which adds up all charges. `AuditsPassCorrect`:
the replay of the log gives the stored tables and finds nothing wrong
(`LogGivesTables`), and so does the snapshot that a standalone audit has pinned
(`ReadsWell`). Each writer's event redoes on the replayed tables what the writer did
to the stored ones; the checks of the audit pass since the writer has made them.
Both rest on lemmas about folds over finite sets, the sum of charges and the replay
of the log: one element more, the same values, any order of choice. Induction over
data is replaced by smallest counterexamples: subsets of a finite set are well
founded under inclusion.

`AnchoredAdmission_proofs`: `TypeCorrect`, `HandedOnceCorrect`,
`AnchorOnlyGrowsCorrect`, `AdmittedUnderAuthorityCorrect`, `ActionsKeepBudgetCorrect`. The holder of the flock
has in memory what is in the anchor file, and its receipt is the anchored one once
`Observe` is past (`ProcOK`); a logged reservation has its row, in the ledger and in
the backup, and the ledger has every row of the backup (`RowsOK`); what was handed out
is in the anchored log (`HandedOK`). Then a first reservation, which finds no row, finds
none in the log either, nor in the anchored log that the audit has shown to be its
prefix, so nothing was handed out: this is how an old backup is caught. The same
facts give the growth of the anchor and the authority of a reservation; they need no
budget. The budget of what was handed out does: `ActionsKeepBudget` refines
`SharedBudget` a second time, with what actions really spent and not what the tables
say. The ledger and the backup are each a state of EvidenceLedger (instances `L` and `B` of
its proofs), and `BooksOK` ties them to the actions: a consumed row, wherever it is,
has the spend of its action, and a released one is of an action never handed out
(`Settled`), which stays so because it is anchored and nobody is about to hand it out
(`Past`). So on a log that has all that is anchored, the rows charge at least what
the actions hold (`RoomAtReserve`), and what a process has reserved still has room
when it is handed out (`HolderOK`), since nobody else hands out while it has
the flock.

`StorageNodes_proofs`: `TypeCorrect`, `UriIsConfirmedCorrect`,
`StruckOnlyByDriftCorrect`, `DemotedAtThresholdCorrect`.
`TypeOK` is not inductive, since a handler works on the row it found some steps
ago: `CallOK` says, by the point a call has reached, what it still may rely on (its
row exists, is confirmed, has its hash; a strike is due to drift; a demotion to
enough strikes). It stays true through the steps of other handlers because of
`Grows`: no step takes back a row, its hash or its confirmation, a strike or a
version. So each step is shown right only in what it changes (`Changes`), and
`Settles` does the rest. `NoHourPaidTwice` has no theorem: it is false of proofs that
overlap, which nothing in the code keeps from happening.

`PatternEconomy_proofs`: `TypeCorrect`, `GrantedOnceCorrect`,
`NoSelfRewardCorrect`, from `EconomyInv`, and `RewardsAreEarnedCorrect`. The grant
argument: a request that is about to grant has created the account (`PayeeKnown`), and
whoever creates it found no account, so no grant event to it and no other request about
to grant (`GrantsOpen`). The reward argument: creators never change, so the creator that
was read and compared with the author is the one that is paid later
(`PatternOfStage`), though everything else about the row may have changed. For the
earning, a job has a claim on its pattern from the write that counts the success until
the reward is paid or lost, and the claims on a pattern never outnumber its
successes (`EarnInv`).

`ReplyMonitor_proofs`: `TypeCorrect`, `NothingMissedCorrect`,
`EscalatedForCauseCorrect`. `WatchInv`: no bound lies in the
future (`Clocked`), a fetched thread has nothing due that is neither found nor
overtaken (`Looked`), each thread in scope was fetched or is ahead (`Ahead`), and
after the report nothing due is untold (`Shown`); so the saved bound is never past a
post nobody reported. What is overtaken stays so: a discussion's closing that was
undone does not come back, and a merged issue stays merged.
`CauseInv`: while no row was moved in a run, its jobs and updates name the rows they
came from, and the text about to be written has a cause for each row it engages
(`LinesStand`).

`PatternRuntime_proofs`: `EventsPairedCorrect`, `FailureStopsCorrect`, `SuccessIsWholeCorrect`,
`RollupNeverLowCorrect`, for all workflows, loops at any depth, guards, answers and
sessions of any length. A step of a run in progress is first put into one of five forms
by what it does to the levels and the log (`Moves`: a level turns, a body is entered, a step
opens, a step closes, a level ends), or it is a fault; the invariants then have a case for
each form; a run that exits has a few more. `PairInv` carries the pairing: invocations
are numbered by their loaded events (`Numbered`), outcomes follow them (`Preceded`),
whatever is in progress (the root, the steps of the levels, the open operation and the
children of a session) has a loaded event of its own (`Begun`), and, without a fault,
no outcome, but for a child (`Once`); what has begun has ended or is in progress
(`Accounted`), unless the run has exited, so that nothing is left without an outcome when
a run ends by itself. `EventsPaired` therefore lets a child have two outcomes and a run
that exits leave steps open: this is what the code does. `Stopped`
says that a failure that stops the run has ended the outermost level, `Progress` that
the log holds the outcomes of the steps before the one the outermost level is at, in
order, and of no later one, until the run ends or exits, and `Counts` that the counters
of a session are at least what its log shows. What these rest on is the assumption on the workflows: a step's id
is its own, loops contain parts of the workflow, a workflow is not the body of a loop.

`PatternTools_proofs`, on EventDelivery: `DeliveryTypeCorrect`,
`CountedOnceCorrect`, `OvercountBoundedCorrect`, `OnlyRacedVanishCorrect`, for any
agents, patterns, batch sizes and numbers of faults. The inductive invariant is `DInv`.
Its heart is `CountOK`: for every set of events, the rows of the server and the
lines it will still be sent (those of the outbox that the run of the pusher has not
posted) are at most the events that were handed over, plus a batch for each mishap.
The bound on the server's numbers alone is not inductive, since a line may be posted
at any later time. It is stated for every set of events, so that it gives the three
numbers of a pattern at once. An event is handed over when it is logged and no
agent has it on the way from the logs to the outbox (`Handed`), which each event is
once: agents have invocations of their own, and an event has a number that
none before it has (`AgentsOK`). A run of the pusher holds the beginning of the file,
and what it has pushed is within its batch and on the server (`PushOK`); so a run
that dies, or an answer that is lost, costs at most a batch, and the rewrite drops
only what the server has. A request that was stored and raised costs nothing: the event
is logged by it. Every line, row and copy is of a logged event (`SourcesOK`), so
that what `Aggregate` pairs in them, half-written or old as they may be, is an
invocation with an outcome. These rest on two facts about `Lines`, that it takes each place
once and no other, proved from the ranks of the places by counting.

`PatternTools_proofs`, on PatternEvolution: `TypeCorrect`, `OneChangeADayCorrect`,
`RevertedIsGoneCorrect`, `FixedTextsOnceCorrect`. The inductive invariant `IInv`
adds to the types and the three properties: `LogOK` (no row is of a later day), `ProposalsOK` (what the file of
proposals may hold), `RunOK` (what the locals of a run mean: the row being
reverted is due, and gone once git has answered; the newest edit is the one of the
recipe at hand, in the file, then the index, then the commit),
`FixedKept` (a fixed text is in its file, where the look for it finds it, or the commit
of a logged promotion has it, whose revert takes it along), `Placed` and `Apart` (an
edit is in no file but its target; no commit adds what it takes out), and
`Spaced` (a logged row's edit is the newest of its commit, which may hold others that
were staged before it, and is not younger than the row, and
every later edit of its target is of a later day). Without `RunOK` a step that logs
could name any edit; without `Spaced` the quota would hold for the row being
written and not for those before it.

Only model-checked: liveness (`QueuedIsServed`, `EveryJobEnds`,
`AssignedIsConfirmed`, `OutboxDrains`, `LocalIsCounted`, `Terminates`), which
needs fairness and ENABLED, and `NoHourPaidTwice` of calls served one at a time. Every
other safety and action property that a passing run
checks is proved, and so is the type invariant of every module that states one.
PatternRuntime states none: its types are `Types` of its proofs.

## What the code does otherwise than it says

One run ends in a counterexample; `PROJECT.json` quotes the line it contradicts.

- `wq_resubmit`: `completeWork` checks the status outside the transaction that
  writes it. Two PUTs of one result that overlap complete and pay twice, though the
  route calls itself idempotent.

Other behaviour that the models follow and no run states a property against, or
that a property leaves out on purpose:

- `ensureAccount` finds no account and creates one (`credits.ts:44`). Of two completions
  that open a provider's account, the loser's reward is dropped in a `catch`
  (`work.ts:319`), though nothing failed; `PaidInFull` bounds what is missed so;
- two overlapping proofs of one assignment are both paid from the last success that
  both have read (`proof/route.ts:82`); `NoHourPaidTwice` is checked of calls served one
  at a time;
- the inline path pays for every reuse, the creator's own included;
  `RewardsAreEarned` and `NoSelfReward` speak of queued reuses only;
- of two requests of a user that create one account, the second throws and drops its
  payment; a user whose first request fails between creation and grant is never
  granted;
- overlapping feedback on one execution counts its success twice, and `economy`
  therefore has one feedback slot;
- overlapping heartbeats of one node may exceed the assignment cap;
- a striked node is still challenged and paid, strikes are never taken back, and
  a claim has no lease: a job whose node or server dies stays claimed;
- `recordPatternReuse` (`work.ts:340`) runs after the commit outside any `try`;
  when it throws in a sweep, the completed job is overwritten with "failed";
- a database error in `_advance` leaves `persistent_admit` as an exception, where
  PERSISTENCE.md promises `WAITING_ANCHOR_NO_ACTION` on any failure;
- a blob that changed between assignment and re-delivery is never confirmed, since
  the row keeps the old hash (`storage_assignment.ts:84`), and is sent for ever;
- a completion that read the pattern earlier writes its stale window back and
  ends the cool-down that two others began (`patterns.ts:158`).

Of the tools:

- reply monitor: a discussion closed and reopened between two runs is never reported
  (`check-replies.py:344`), nor is the closing of an issue merged since (370);
  `NothingMissed` leaves out what was so overtaken; a comment made between the
  start of a run and its fetch is reported by that run and by the next; a row that was
  moved during a run has another escalated in its place (474); what the founder writes
  between `read_text` and `write_text` is overwritten (472, 475);
  the saved bound is exclusive and in whole seconds, so a comment
  of the second a run started in is seen by no run; a fetch that fails is an
  empty list and the bound still moves on (`NothingMissed` is stated for what
  lies before the bound, in scope, fetched and not overtaken); a row whose thread an
  earlier row has named is never escalated by it (`EscalatedForCause` leaves out runs
  under which a row was added or removed);
- evolution: a query that fails counts as a gap of 0 actions
  (`propose_evolutions.py:419`, 436, 452); the comment at line 495 says
  `apply_evolutions` allows one R-PROMOTE of a pattern in 14 days, but only the
  daily quota is enforced; a revert that conflicts leaves the repository in the middle
  of it, and later commits there are refused until the file is edited; a push that
  failed is not repeated for R-CONFIG; a revert is not shipped to the server; the
  target of the cluster recipe is a tuple and so never on the whitelist; the newest
  file of proposals is applied again each day; an edit left by a run that died
  before its commit is adopted by the next commit of the repository if it was staged,
  and of its target if it was not: `git commit -m` commits the whole index
  (`apply_evolutions.py:141`), so the edit of another pattern that a promotion took
  along is reverted with it, and an anti-pattern lost so is written again
  (`FixedTextsOnce` excepts what such a commit took along);
- delivery: a line appended between the pusher's read and its replace is lost;
  the server counts repeated rows; a first line that the server refuses for ever blocks
  the outbox (`push_outbox.py:168`; `OutboxDrains` rests on failures that pass); an overlaid pattern is logged in one directory
  and aggregated from the other; of two outcomes the one read last stands, so a
  retry out of order may bring an older one back;
- runtime: a `python_callable` that raises SystemExit leaves its step without an outcome
  and ends the run, whose `finally` logs success though steps never ran
  (`runtime.py:161`; `EventsPaired` and `SuccessIsWhole` leave out runs that exit); a
  `guard_check` step (not a guard) that finds a hard violation does not
  stop anything, where `guard_check.py:12` and PATTERN_SCHEMA.md say it does; a
  guard that raises blocks nothing; `escalate` or `break` in a loop's body ends
  the loop but not the run; a loop that broke on an error counts as having
  produced its output and one that finished does not, and neither does
  `python_module`, `pattern_apply` or `guard_check`, where the comment at
  `runtime.py:304` says a step without a value is marked produced; a log call that
  raises ends the run with `success` still true, as an interrupt does; a child logs an
  outcome each time it is told one, also after its block has ended; the agent's metrics replace
  the session's counters when they have their names (`RollupNeverLow` leaves those
  completions out).

## Not modelled

LLM calls, matching scores and prompts are choices of the models, not contents.
Manual credit events use the same `recordEvent`. `lib/metrics.ts` and the summary
only read. The three receipt roles of admission are one; the generation counter
is left out. Signatures and hashes are abstracted to what they vouch for. The
offline verifier is a pure function of one bundle: about 60 checks in a fixed
order, without state; an operator of the same checks would repeat it. The git
backend with its push thread is left out (a wake-up may be lost between the
thread's last look and its end, and a commit that was made and not pushed is not
tried again before the next event, though the module's text says it retries).
Server authentication and listings, loading of packs and patterns, variable
substitution and the command line are not modelled, nor are malformed lines of
the event files. Pages, reports, scouts, migration and deployment keep no state
that another part relies on.

## What could follow

The git backend's debouncer with its liveness; WorkQueue with PatternEconomy over one
`completeWork`, so that a repeated submission is seen in the pattern counters too.
