# TLA+ models of AI Agent Security Lab

Models of AI Agent Security Lab, from its job queue and API to its agents, detectors
and campaigns, the TLC runs that check them on small instances, and theorems that
TLAPS proves for every instance. Paths below are relative to `src/src/ai_agent_lab/` unless they start
with `docs/` or `tests/`.

## The system

The lab is a Python package with two halves.

*The commercial half* is a multi-tenant service: an HTTP API in front of a
SQL database (SQLite or PostgreSQL) and a directory of report files, and workers
that take evaluation runs from the database. *The laboratory half* is the
computation a run stands for: agents, attacks, detectors, an oracle and a judge,
metrics and reports, in one process and without shared state.

| Component | State | Operations | Interacts with |
|---|---|---|---|
| Evaluation runs (`storage/run_repository.py`, `domain/runs.py`) | a row per run: status, attempt, fencing token, lease owner and expiry | `create_idempotent`, `claim_next`, `heartbeat`, `transition`, `cancel`, `get` | workers and API handlers through one transaction per call; removed by the cascade of its project |
| Worker (`application/service.py`, `process_next`) | locals of a call: claim, stored keys | claim, benchmark, store, commit, clean up | run rows, report rows, file store |
| Report rows (`storage/artifact_repository.py`) | a row per report | `add`, `get_for_run`, `get`, `mark_deleted` | written by the worker, read by `read_report` |
| File store (`storage/artifact_store.py`) | files by object key | `put`, `read`, `delete` | worker, `read_report`; no transaction spans it and the database |
| Projects, tenants (`storage/repositories.py`) | rows; a version per project | `add`, `get`, `list`, `rename`, `delete` | `delete` cascades to runs and report rows |
| API keys, authentication (`auth.py`, `storage/auth_repository.py`) | a row per key: roles, expiry, revocation | issue, revoke, authenticate | every request |
| API (`api/app.py`, `application/authorized.py`) | none | one handler per route, run in a thread pool | all of the above |
| Observability (`observability.py`) | counters under a lock | observe, snapshot | the API middleware |
| Backup (`operations/backup.py`) | files | backup, verify, restore | the database file |
| Sandbox (`sandbox.py`) | a child process | run with a deadline | operating system |
| Laboratory (`runner.py`, `orchestrator.py`, `multi_agent.py`, `detector.py`, `judge.py`, `oracle.py`, `defender/`, `benchmark_metrics.py`, `metrics.py`, `atlas/`, `scenarios/`, `report/`, `scan.py`, `cli.py`) | none that outlives a call | pure functions and loops | LLM providers, when configured |

What is hard in the first half: workers, clients and clocks interleave
between any two SQL statements; a worker may die, or be slow enough to lose its
lease, between any two steps; and the files are outside of every transaction. In the
second half nothing is concurrent, but a process depends on language models that
answer anything or nothing, on plugins and on a disk, any of which may fail
halfway; and its verdicts come from rules that depend on each other's order.

What makes each part correct:

- run table: one effective owner per attempt, outcomes recorded once and never
  taken back, leases honoured until they expire, rows that can always be read
  back and always be claimed again;
- worker and report store: a completed run has all its reports and no other run
  has any; no file is lost track of; every submitted run ends;
- projects, idempotent creation, API: one run per idempotency key, no answer
  about another tenant, no lost rename, a revoked key stays out;
- file store, backup: no half-written file is visible, what exists is overwritten only
  by somebody who looked before it existed, an answer given stays true;
- sandbox: a call ends after its deadline; when it ends its child has ended, nobody holds
  the pipes and the directory is gone;
- laboratory: the rates of one benchmark agree with each other, one failing
  iteration costs one iteration, a model never silences the rules, the evidence of a
  run is written before the report that names it, and no answer names a torn file.

`PROJECT.json` lists every component with its status and every hazard with the
properties that cover it.

## Modules

| Module | Models |
|---|---|
| `RunStatus` | `RunStatus`, `_TRANSITIONS`, `require_transition` (`domain/runs.py`) |
| `RunTable` | one row of `evaluation_runs` and what each SQL statement makes of it |
| `RunLifecycle` | abstract specification: what the queue promises about a run |
| `RunLease` | workers and clients calling the repository, statement by statement |
| `RunLeaseProofs` | theorems about `RunLease` |
| `RunWorker` | `process_next` and `read_report`, with crashes, errors, overruns |
| `RunWorkerProofs` | theorems about `RunWorker` |
| `AccessControl` | roles, permissions and what each route requires (`auth.py`, `api/app.py`) |
| `TenantStore` | the requests of many tenants: authentication, projects, run creation and cancellation |
| `TenantStoreProofs` | theorems about `TenantStore` |
| `TenantService` | abstract specification: each request is served at one moment |
| `TenantServiceProofs` | `TenantStore` implements `TenantService` |
| `FileStore` | `put`, `delete`, `backup_sqlite`, `restore_sqlite_backup`, next to an application that writes |
| `FileStoreProofs` | theorems about `FileStore` |
| `SandboxRun` | `Sandbox.run_python` and the code it runs |
| `SandboxRunProofs` | theorems about `SandboxRun` |
| `Target` | the agents and their routing (`target.py`) |
| `Detection` | detectors and judges (`detector.py`, `judge.py`) |
| `Oracle` | the success oracle (`oracle.py`) |
| `Defender` | the four components of the pipeline (`defender/`) |
| `Corpus` | the scenarios, the benign samples, the payloads of `scan` |
| `LabProcess` | a process of the command line: records, errors, files |
| `Campaign` | the ATLAS registry, execution plans, `scan` with a tactic |
| `Benchmark` | task suites, records, rates, `benchmark` |
| `Scan` | provider choice, mission, `scan` with an attack |
| `Scores` | `run`, `metrics`, `defend` |
| `Lab` | the four above as one system, and its properties |
| `PoolProofs`, `LabProofs` | lemmas about the order of a campaign's payloads; theorems about `Lab` |
| `MCRunLease`, `MCRunWorker`, `MCTenantStore`, `MCFileStore`, `MCLab` | instances for TLC; `SandboxRun` needs none |

### RunTable

A row is `[status, owner, expires, token]`. `attempt` and `fencing_token` are
written by one statement only, which increments both, so one number stands for
the two. `version` and `updated_at` are set by every statement and tested by none;
they are left out. `absent` and `deleted` are the two ways a row may be missing.
`Claimable` and `HoldsLease` are the WHERE clauses of `claim_next` and of the two
fenced UPDATEs; `ClaimedRow`, `HeartbeatRow`, `TransitionedRow`, `CancelledRow` and
`FlushedRow` the SET clauses.

Operators called `Definition_Bug` are variants of a definition with a plausible
bug. No specification uses them; they document, and `PROJECT.json` lists under
`mutants`, which property notices which bug.

### RunLease

The repository must be safe whatever its callers do with a claim they once
obtained, so a worker here calls the methods in any order, any number of times,
with claims as stale as it likes. Every call is split at its statements:

| Action | Code (`storage/run_repository.py`) |
|---|---|
| `LockAndClaim` | `claim_next` on PostgreSQL: the SELECT locks the row until the commit |
| `SelectForClaim`, `FlushClaim` | `claim_next` on SQLite: no row lock, and the driver begins the transaction at the flush |
| `Heartbeat` | the single UPDATE of `heartbeat` |
| `BeginTransition`; `TransitionApplied`, `TransitionRejected` | SELECT and `require_transition`; the fenced UPDATE and its row count |
| `CancelAgain`, `BeginCancel`; `WriteCancel` | SELECT; UPDATE and its row count |
| `Create`, `Delete` | the insert; the cascade of `ProjectRepository.delete` |
| `Tick` | time |

`SKIP LOCKED` is in `Pickable`: an older claimable row may be passed over when
another transaction may hold it. Callers read the clock before they open their
statement, so the `now` they present may be up to `MaxLag` old (`Readings`). All
processes are assumed to share one clock that is never ahead of the true time: the
code compares timestamps of different hosts without any allowance.
`accepted` and `acked` record what callers were told, so that properties can
compare it with the table.

### RunWorker

One action per transaction or file operation of `process_next`:

| Action | Code (`application/service.py`) |
|---|---|
| `Claim` | 117-128, `claim_next` and the transition to running |
| `Evaluate` | 131-152, the benchmark and the transition to evaluating |
| `Put` | 154-183, one file per format |
| `Complete` | 185-193, report rows and outcome in one transaction |
| `ReadBack`, `ReadBackRaises` | 194 |
| `Raise` | any exception inside the `try` before the commit |
| `DeleteFile`, `MarkFailed`, `CleanupRaises` | 195-206 |
| `Crash` | death of the process, which is started again |
| `LookUpReport`, `ReadFile` | `read_report`, 208-222 |
| `ExpireAbandoned`, `Overrun` | the passing of 300 seconds |

Two reductions keep the model small; the module header gives the reasons. The
SELECT and UPDATE of a `transition` are one step, and time is only whether a
lease has expired. Because a claim is one step, an older row is never passed over
by `SKIP LOCKED` here, which differs from the code only when the locking
transaction is rolled back later; `RunLease` has that case. Readers of reports and
the order of the two `put`s are abstracted to sets.

### TenantStore

Each handler of `api/app.py` runs in a thread of its own, so the requests of
`Callers` interleave at every SQL statement; an `INSERT` is merged with its commit.

| Action | Code |
|---|---|
| `Issue`, `Revoke`, `Expire` | `APIKeyManager.issue` and `revoke` (`auth.py:121-164`), and time |
| `Send` | a request arrives; only ids and versions that were given out make sense |
| `LookUpKey`, `Authenticate` | `auth.py:187-188`; 189-200 and `require_permission` |
| `CreateProject`, `ListProjects` | `ProjectRepository.add`, `list` |
| `ReadForRename`, `Rename` | the SELECT and the versioned UPDATE of `rename` |
| `DeleteProject` | `delete` and the cascade to the runs |
| `FindReplay`, `FindProject`, `InsertRun` | the three statements of `create_idempotent` |
| `GetRun` | `get_run` |
| `ReadForCancel`, `CancelRun`, `RereadCancelled` | the SELECT and the UPDATE of `cancel`; the read in a second session that builds the answer |
| `Settle` | a worker's outcome |

A violated constraint is an `IntegrityError`, which no handler expects: the answer
is `internal_error`. `rename` and `delete` have no route; they are called through
`ProjectRepository`, the `Context` of a rename standing for the tenant the
repository is bound to. Row states the handlers do not tell apart are one: a run is
`active`, `settled` or `cancelled`. `told` and `renamed` record the answers of
`create_run` and `rename`. A finished request keeps only what a property asks of it.

### TenantService

What a client sees of `TenantStore`: the rows, the keys that were given out or have
ended, and a desk per caller that is free, asked, or answered. Every request takes
effect in one step, all of it under the conditions of that moment: a rename is a
compare-and-set, a creation finds its key free and its project there, or replays. `Because`
gives every refusal its reason, true at one moment between the arrival and the answer. Two
phases outlast a moment: `barred`, since the row of the key is read before it is judged, and
`cancelled`, since the answer of a cancellation is read in a second session.

`TenantStore` implements it (`ImplementsService`) under the mapping `Desk`. The effect is the
last statement that counts: the versioned UPDATE, the INSERT with its constraints, the
UPDATE of `cancel`. What the statements before it read may be stale by then, but nothing
that decides is taken from them, except the tenant of the project, which cannot change.
The specification also shows what the API does not promise: finding 3 and the
second of two concurrent cancellations are refusals that are true at their moment.

### RunLifecycle

A client's view: a run is unknown, waiting, working, settled or removed, with a
number of attempts. Attempts are numbered one after the other, an outcome is
recorded once. Both detailed specifications implement it (`ImplementsLifecycle`),
mapping `preparing`, `running` and `evaluating` to working.

### FileStore

`put`, `backup_sqlite` and `restore_sqlite_backup` do the same thing: look whether a
name is free, fill a temporary file beside it, `os.replace` it over the name. A call
is one record of `call`, each file operation a step, and steps of different calls
interleave (`AS` is `storage/artifact_store.py`, `BK` is `operations/backup.py`).

| Action | Code |
|---|---|
| `BeginPut` | AS 44-46, the check for an existing key |
| `BeginBackup` | BK 26-33 |
| `BeginRestore`; `CheckTarget` | BK 87, the verification; BK 88-92, the check of the target |
| `CreateTemporary` | AS 49-56; BK 38-40, 94-100 |
| `Fill` | AS 57-60; BK 42-54; BK 101 |
| `SourceUnfit`, `Fail`, `CleanUp` | an exception, at any step, then the `finally` clause of the function |
| `Place` | AS 61; BK 55, 104 |
| `Confirm` | BK 60, the checksum for the manifest; BK 109, the second verification |
| `Delete` | AS 75-81 |
| `Crash` | death of the process |
| `Write` | the application or an operator; not code of this repository |

A file is its content as a whole, a checksum the content it was computed from,
`Sound` the contents that pass `PRAGMA integrity_check`. `stale` and `overtaken`
record that somebody else wrote the source of a call before it was copied, or its target;
no action reads them. They let the properties say exactly when the check and the
replacement, being two steps, come apart. A backup or a restore that raises before its file
is in place ends `failed`; in `Confirm` the file is there and stays, whether it was found
faulty (`unverified`) or could not be read, an I/O error or a lock (`unconfirmed`). The
`unlink` of the `finally` clauses is assumed to succeed.

### SandboxRun

| Action | Code (`sandbox.py`) |
|---|---|
| `Start` | 140-193, directory, bootstrap, `Popen` |
| `Collect` | 194-212, `communicate(timeout=...)` returns, and the verdict |
| `Expire` | 195, the deadline |
| `Kill`, `Drain` | 196-197; 198-199, the second `communicate()` |
| `Leave` | the end of the `with` statement, on every way out |
| `Guarded`, `Refused` | 214-297, the guards of the bootstrap |
| `Spawn`, `KidExits`, `PrintMarker`, `Exit` | what the code that is run may do |

The guards cover what opens, renames, replaces or links files for writing, and
sockets; removing files and creating directories is not guarded, and neither is
anything a started process does. A refusal ends the code with a traceback, in which the caller
finds the marker, unless the code has closed or redirected its standard error before
(`refused_unseen`): then the refusal looks like any other exit. The removal of the directory
is assumed to succeed. Such a process inherits the pipes and may hand them
on, which is why the second `communicate()` can wait without end.

### The laboratory

All of it is deterministic given a text, the answers of a model and the disk. What a
regular expression says of a text is data: a text is the record of the tools it
routes to, the categories whose rules it matches, the marks that detector, oracle and
defender look for, and the tools whose arguments the defender refuses (`Target`). The
rows of `Corpus` are the results of the repository's own patterns on its own scenarios
and benign samples, so that the order of the rules, the escalation from suspicious to
malicious and the tests of the oracle run on real cases, and the patterns stay out.

`LabProcess` is one process running one command: `job` is the command and its
arguments, `pc` how far it is, `log` its records in order, `errors` what it put aside,
`disk` the report and the evidence, under whose names an earlier command may have left
files (`old`), and the temporary file of a benchmark. Every iteration, task, role and write
is a step.

| Actions | Command | Code |
|---|---|---|
| `LoadPlugin` | import of the package | `atlas/registry.py` |
| `PlanRefuse`, `Materialize` | none: `build_execution_plan`, `materialize` | `attack_contracts.py` |
| `AtlasRefuse`, `AtlasIterate`, `AtlasEvidence`, `AtlasReport` | `scan` with an ATLAS id | `runner.py`, `cli.py` |
| `DryRun`, `RunTask`, `BenchmarkEvidence`, `BenchmarkReport` | `benchmark` | `benchmark_metrics.py`, `task_suites.py`, `report/`, `cli.py` |
| `StartScan`, `Mission`, `Detect`, `Unresolved`, `Fallback` | `scan` with an attack | `scan.py`, `orchestrator.py`, `cli.py` |
| `RunScenario`, `RunReport`, `RunResults` | `run` | `runner.py`, `cli.py` |
| `Measure`, `MetricsReport`, `MetricsResults` | `metrics` | `metrics.py`, `cli.py` |
| `Defend` | `defend` | `metrics.py`, `defender/pipeline.py` |

`Fresh` is the choice of the next payload: a campaign appends whole shuffles of the
pool and cuts the last one, so the next payload is any that the current shuffle has not
used. A model's answer is one of its verdicts, an object without one, prose, JSON that
is not an object, or nothing (`Answers`).

A write may be refused, by `mkdir` or `open`, which leaves the files as they were, or break
off. `Path.write_text` truncates what is there, so that a part is left (`WriteText`). The
benchmark's writers fill a temporary file and replace atomically (`WriteAtomically`); they know
the temporary name only after the `fsync`, so a write that breaks off leaves the temporary
file, and one that fails before or after leaves nothing, as the `unlink` is assumed to
succeed. The evidence of a campaign holds what a live judge said, which may not be encodable:
that is a `ValueError`, which `scan` catches (`EvidenceUnencodable`). A command ends
`answered`, `refused` or `raised`.

What the defender refuses and what the heuristic says of the corpus is computed along with
the commands (`Measured`, `DefenseReport`), but no property is about it: it follows from the
rows of `Corpus`, which are put in.

## Runs

| Run | Instance | Shows |
|---|---|---|
| `run_lease` | PostgreSQL; 1 run, 2 workers with the same owner string, 1 client; leases of 1 or 2 ticks, clock to 4, lag 1, 3 attempts | all invariants of `RunLease` and the refinement |
| `run_lease_sqlite` | SQLite; 2 runs, 1 worker, deletions; clock to 3 | the queue's promise still holds when the claim is not atomic but nobody cancels |
| `run_lease_sqlite_cancel` | SQLite; 1 run, 1 worker, 1 client | **violated**: finding 1 |
| `run_worker` | 2 runs, 2 workers, 1 reader; 1 crash, 1 error, 1 overrun | safety of the worker and the refinement |
| `run_worker_live` | 2 runs, 2 workers, one format; as above and one failing read-back; fair | every submitted run ends |
| `run_worker_readback` | 1 run, 1 worker, 1 reader; 1 failing read-back | **violated**: finding 2 |
| `tenant_store` | 2 tenants with an administrator each, 2 handlers, 2 projects, 2 runs, 1 idempotency key | duplicates, tenants, cancellation; each request is served at one moment (`TenantService`) |
| `tenant_store_keys` | 1 administrator, 1 viewer whose key may be revoked or expire, 2 handlers, 2 projects, 2 names, versions to 3 | keys, permissions, renames |
| `tenant_store_duplicate` | as `tenant_store`, one tenant | **violated**: finding 3 |
| `files` | 2 calls, 1 key, 2 paths, 2 sound contents and a damaged one; 2 writes of the application, 1 failure or death | whole files, explained overwrites, left-overs and late failures, answers that hold |
| `sandbox` | 2 started processes; fair | answers come, are right, and leave nothing running with the pipes |
| `lab` | 5 payloads, 0, 7 or 101 iterations, 1 built-in and 2 foreign tactics, 2 plugins, at most 2 unexpected model answers; old files under either name, any write may fail | every command of the laboratory |

Bounds. The conflicts of the run table are between transactions on one row, so
one run and two workers show them; the clock reaches 4 so that a lease can expire,
be renewed and expire again, and three attempts let the first claim be stale
twice over. Two workers with one owner string are the hard case, because the owner
column then tells nothing. In `run_worker` one crash, error and overrun each
produce attempts that overlap and clean-ups that meet a new attempt; two runs make
a wrong run id visible. Instances with two mishaps of each kind on one run were
also explored without a new result. Deadlock is not checked: when all runs have
ended and the budget of mishaps is spent, the system rests.

In `TenantStore` a conflict is between two handlers; one idempotency key, two runs
and two tenants let a run be created twice, or for the wrong tenant. `Operations`
says which requests an instance sends, `Fleeting` which keys end in it: keys and
renames are explored apart from runs, since authentication is the same step for every
route and a rename touches no column that a statement about runs reads. With
`MaxVersion` 3 a project is renamed twice, so a rename can come a version late.
Project, run and handler ids
are symmetric. `ImplementsService` is checked for creations and cancellations and proved
for all routes; an instance with every route, a key that ends, one project and one run was also
explored without a new result. Deadlock is not checked, as ids are used up.

In `FileStore` a conflict is between two calls with one name, or a call and the
application; two paths let a backup and a restore chase each other, and two sound
contents tell a swapped file from the right one. In `SandboxRun` two processes are
enough to pass the pipes on to one that outlives its parent. In `Lab` seven iterations
over five payloads cut the second shuffle, 0 and 101 are the numbers next to the
limits, two plugins meet each other's and the built-in names, and two unexpected
answers fall in different iterations. The corpus and the agents are the real ones.
Deadlock is not checked in these three: calls and commands end.

Symmetry over workers is used in the runs of safety properties only; workers share
the owner string, and no definition chooses among them. Files, contents and payloads
are symmetric for the same reason; the sandbox, with its liveness property, uses none.

Fairness. In `RunWorker` (`FairSpec`), `WF` of `Proceed(w)`: statements of a Python function
follow one another. `WF` of `ExpireAbandoned(r)`: time passes. `WF` of `Claim(w)`:
*an assumption about the deployment*, that some process keeps calling
`process_next`; nothing in the repository does, apart from the tests. Crashes,
errors, overruns, cancellations and deletions are never required to happen; their
number is bounded (`MaxCrashes`, ...), without which a run could be retried
forever, as the code sets no limit on attempts. In `SandboxRun`, `WF` of `Caller` and
of `Expire`, for the same two reasons. The code that is run owes nothing, so
`AnsweredUnlessHeld` has its exception: a started process that keeps the pipes.

## Findings

1. **SQLite: a claim resurrects a cancelled run** (`storage/run_repository.py:85`).
   The claim's SELECT sees a queued run, a cancellation commits, the flush writes
   status and lease over it. `docs/commercial-spec.md:133` says that a terminal
   status cannot be left. PostgreSQL is safe: `CancellationsStand` is proved.
2. **A failing read-back deletes published reports** (`application/service.py:194`).
   The `get_run` after the commit is inside the `try`; when it raises, the clean-up
   deletes the files of a completed run. The passing run of the worker therefore
   excludes this one fault (`MaxReadBackErrors = 0`).
3. **Concurrent duplicates are answered with an error** (`storage/run_repository.py:53`).
   Both creations find nothing, one INSERT violates `uq_runs_tenant_idempotency` and
   its client gets a 500. `docs/threat-model.md:134` has the result reused under
   concurrent repetition. One run is made (`OneRunPerKeyHolds`), and a client that
   repeats the request gets it (`ReplaysAgreeHolds`).

Also known of the code, and part of the models without a run of its own:

- `process_next` never renews its lease (`application/service.py:120`), though
  `docs/adr/0004-database-leased-jobs.md:19` describes workers that do. A slow worker
  loses its run; the fence keeps this harmless for the data (`OnlyItsAttemptSettles`),
  the work is done twice.
- A plugin whose tactic is registered under another name ends the import
  (`atlas/registry.py:56`), in spite of the loader's intention that one bad plugin is not
  fatal; `DeathsExplained` lists it.
- Of two concurrent cancellations one is answered 409 (`storage/run_repository.py:170`, 184);
  `docs/commercial-spec.md:171` calls the route idempotent. `TenantService` allows the
  refusal, which is true of the run at its moment; no state is harmed.
- A database created between the look of `restore_sqlite_backup` and its rename is overwritten
  (`operations/backup.py:104`; the docstring says never); `OverwritesExplained` allows this.
- A report with the suffix `.json` gets the name of its own evidence or results and overwrites
  it: of a campaign (`cli.py:136`), of a benchmark without an evidence path (`cli.py:600`), and
  `run --output x.json --json` overwrites its report (`cli.py:394`). `EvidenceFirst` speaks of
  reports with a name of their own.
- A campaign on the path of an earlier one rewrites the evidence first, by truncation
  (`report/json_evidence.py:58`): if that breaks off, or the report cannot be written after it,
  the old report is left beside torn or new evidence. `EvidenceFirst` is about the report that
  the command itself writes.
- The text of a live judge with a lone surrogate cannot be encoded. The `ValueError` is caught
  as if the request had been wrong (`cli.py:152`): the answer is an envelope with no iterations,
  and a truncated evidence file stays. `LossesContained` lists it.
- A benchmark whose write breaks off leaves a half-written `.tmp` file
  (`report/benchmark_evidence.py:139`, `report/benchmark_markdown.py:48`), as `put` does
  (`storage/artifact_store.py:60`).
- A backup or a restore that fails to read what it has just put in place raises, and the file
  stays (`operations/backup.py:60`, 109); repeating the call is refused, since the name is
  taken. `LateFailuresExplained` says that the file is then the one that was asked for.
- The sandbox can wait for ever (`sandbox.py:198`), see `AnsweredUnlessHeld`.

## Proofs

`RunLeaseProofs` holds for every set of runs, workers and clients, every
assignment of owner strings, every lease time and every bound. It assumes only the
named assumptions of `RunTable` and `RunLease` (run ids are positive, NULL is not an
owner, lease times are positive) and, except for `TypeCorrect`, `Serial`: the database
locks rows, or one worker at most uses the table and nobody cancels. Both ways out are
needed. On SQLite a cancellation gets lost under a claim (finding 1), and two workers with
one owner string can claim one attempt.

The argument. `SingleHolder`, `NoEarlySteal`, `OneVerdict` and
`CompletedByOneAttempt` are not inductive. `IInv` adds

- `TokensIssued`, `TokensUnique`: claims are numbered from 1, never ahead of the
  row, and no two workers hold the same number. `SingleHolder` follows, since an
  effective claim has the number of the row;
- `ExpiryKnown`: an effective worker knows the expiry that is in the row. With it a
  reclaim, which needs `expires <= now`, cannot hit a worker whose lease is still
  in the future (`NoEarlySteal`);
- `StagesReached`: the attempt of a running or evaluating row was told so, hence a
  completion has its stages under one token;
- `TransitionsAllowed`, `HalfClaims`: what a call carries between its statements. A claim
  that has not been flushed yet exists on SQLite only. What it has read is still in the row,
  unless the run was deleted: its own worker is waiting for it, and there is nobody else.
  `FlushOverLoaded` concludes that the flush does to such a row what a locked claim does,
  and `ClaimEffect` states the two at once, so that no later proof tells the databases apart.

`TypeStep`, `StructureStep`, `HalfClaimsStep`, `TokensStep`, `ExpiryStep` and `VerdictStep`
show that each group is preserved, one case per action, from lemmas that state the effect of
the actions with hidden choices. `Refinement` maps every step to a step of
`RunLifecycle` or a stutter (`StepRefines`).

`RunWorkerProofs` holds for every set of runs, workers, readers and formats, every
assignment of owner strings and every bound, from the named assumptions of `RunTable`
and `RunWorker`. The invariant has two layers.

`Attempts`, with `TypeOK`, is about rows and claims and assumes nothing more:

- `Started`, `AttemptsApart`: a busy worker has a token from 1 up to that of its row, and no
  two workers have the same token of one run. A row a worker may rewrite is therefore never
  `queued` (`Unclaimed`), which is what `Refinement` needs;
- `InHand`: a worker on the latest attempt of an active run presents the owner in the row;
- `Paid`: a run in progress that may be claimed again, or that nobody works on, has no more
  attempts than there were troubles. `RetriesExplained` alone is not inductive: a claim adds
  an attempt, so the trouble has to be there before the claim. The case that matters is
  `MarkFailed`: a worker whose lease still runs passes the fence, hence it does not leave the
  run unfinished for nothing.

`Publications` is about reports and files. It assumes `MaxReadBackErrors = 0`, that the
`get_run` after the commit does not raise: finding 2 shows that `ReportsComplete` is false otherwise.

- `Published`: a key in a report row, or in the hand of a reader, has its file, and no worker
  with that run and token has a clean-up before it. Keys are told apart by the token, so
  `AttemptsApart` keeps the clean-up of one attempt away from the files of another;
- `ReportsExact`: the report rows are those of the last attempts of the completed runs;
- `Stored`: a worker that has not given up has all its files, one that has completed its run
  has published them, or the project is gone;
- `Accounted`: the reason each file is there.

`AttemptsStep` and `PublicationsStep` split on clients, claims and workers; `ClientRow`,
`ClaimEffect`, `MovedRow` and `WorkerStep` say what each of them does to a row.

`TenantStoreProofs` holds for every set of tenants, projects, runs, keys, names and
handlers, every assignment of roles and every bound, from the named assumptions of
`TenantStore` (keys have a tenant and some role; ids of different kinds differ). Its
`IInv` adds to the properties

- `AsksComplete`: a request in progress has the arguments its operation reads, which
  types need;
- `ToldKnown`: the run a client was told has its key and tenant for good; with
  `OneRunPerKey` it gives `ReplaysAgree`;
- `ProjectsOwned`, `RunsInProjects`: the project found by the second SELECT is of the
  tenant even if it is deleted before the INSERT, and the foreign key decides the rest;
- `RowsOwned`: rows that were shown never change hands;
- `LateKnown`: where a late request can be, and why it will be refused;
- `CancelledAtReread`: a run that is cancelled can only be deleted;
- `VersionsCounted`: the versions below the current one are those that were replaced.

`RequestStep` and `HandlerMoves` say whose step changes a request and how,
`RowsStep` what a step does to the rows; the lemma of each conjunct rests on these.

Type correctness (`TypeCorrect`) needs `AsksComplete` and nothing else.
`ViewersChangeNothingHolds` adds `Cleared`, that a request past the authentication has the permission of
its route, and a lemma about the table of roles.

`TenantServiceProofs` shows `Spec => ImplementsService` under the same assumptions. Each handler's
action has a lemma (`InsertRunServes`, ...) that names the step of `TenantService` it is, or
shows that the desk stays as it is (`DeskStays`). Of `IInv` the step needs most of all
`ProjectsOwned` (a project found by the second SELECT can only have been deleted since),
`CancelledAtReread` and `LateKnown`. `Cleared` and `Routed`, what has passed the
authentication and what goes through it, are carried along. `SameRows` and `SameTables`
say that both specifications look at rows and roles alike.

`FileStoreProofs` holds for every set of calls, names and contents and any number of
failures, deaths and writes, from the assumptions that artifact keys are not database paths and
that `Absent` and `Partial` are not contents. `IInv` is `TypeOK` with, for each call,

- `TempKnown`: what is in its temporary file where it is;
- `ContentVouched`: whose word its content rests on. A restore carries one that was
  verified, a backup one that was checked when it was copied;
- `FilesKnown`: what it relies on under the names of its source and target, unless
  somebody has written them since.

A call is disturbed by others only through files, so two lemmas carry the proof: a step
that writes none leaves a call as it was (`Untouched`), one that writes the file `n` is
noticed by every call that uses `n` (`OnlyNoticed`). `OwnStep` and `MoveStep` reduce a call's
own step to its conjuncts.

`SandboxRunProofs` holds for every set of processes, without assumptions.
`AnswerMeansQuiet` is about a state that must not become worse after the answer is
decided: `PipesStayClosed` shows that nobody can open the pipes again once nobody holds
them, since only a holder hands them on. `CallerKnows` adds what follows from
where the caller is: a refusal that is seen leaves its marker first, the kill spares no child.

`LabProofs` holds for every pool of payloads, every set of plugins and any number of
iterations, whatever models answer and whichever write fails; its only assumption is that the
pool is finite and not empty (`PoolAssumption`). Corpus, tasks and agents are the ones of
the source. Its `IInv` says for each command where its process can be and what it has
recorded and put aside by then, and `DiskOK` what it has written. Some properties rest on more:

- `PoolIsExhaustedFirst`: that no payload is two uses ahead of another is not inductive. The
  invariant is `EvenlyUsed`: the log is cut into blocks as long as the pool, and two entries
  of one block differ. `PoolProofs` counts: a full block uses each payload once, the block in
  progress at most once. Positions are split into quotient and remainder (`DivMod`,
  `NextDivMod`);
- `RatesDoFit`, `FailuresAreContained`: rates are counts of records. The sets of positions are
  finite and are taken apart (`TwoParts`, `FiveParts`), so that the confusion matrix, the
  agents' groups and the judge's agreement add up;
- `LossesAreContained`, `EvidenceComesFirst`: it says of a command at work which files it
  has written so far (`Written`) and that it has left the others as it found them. A step writes
  nothing (`QuietStep`), one whole file (`WrittenStep`), or fails (`LostStep`); `FilesStep` and
  `ScoresStep` find out which, in the order of the writes of each command.

Only model-checked: liveness (`EveryRunEnds`, `AnsweredUnlessHeld`), as TLAPS has no rules for
fairness that could be used here. Everything else that a passing run checks is a
theorem; the three violated properties are of course not.

## Not modelled

SQL isolation anomalies other than the ones above do not arise: every UPDATE
carries its guard in its WHERE clause, and both databases run it atomically.
OIDC tokens are verified by a library, without state. `SQLITE_BUSY` is not modelled.
`TenantRepository` only adds tenants and reads them; tenants are constants.
Column lengths, time zones, the wording of reports, headers and log records are
left out. What the benchmark computes is a black box to `RunWorker`, and a model of
its own in `Benchmark`.

Of the laboratory half: the regular expressions (their results are data);
`multi_agent.py`, a demonstration with fixed messages, and the commands that print it
and the fixed scenarios; `scenarios/`, rules of a rule engine from another library;
the rendering of reports and the keys of `report/correlation.py`; the adapters of LLM
vendors; latencies, token costs and the tables that group records by attack or strategy as
those by agent are grouped; `run` with one scenario or with output to the terminal. A default
report path has a resolution of one second (`report/markdown.py`), so two commands in
one second share it; processes do not share anything else, and `Lab` has one.
Of the service: `observability.py` holds its lock over each method, and `api/server.py` starts a
server; neither has an interleaving to check.

`PROJECT.json` lists every part with its status.

## Plan

The safety properties of all parts are proved. What is left: an abstract specification of the
file operations (a call replaces its file in one step, or leaves it alone) with the mapping
from `FileStore`, and one of a sandbox call. `Lab` should grow with the commands it models.
