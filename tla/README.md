# NextAds: a TLA+ model of its publication and ownership protocols

NextAds is a batch system on Databricks. Jobs written in Python and Spark compute
scores, advert candidates and page assignments for customers, and hand them to
delivery through Delta tables. Nothing locks: what keeps two runs, a retry and a
repair from spoiling each other's work is a handful of protocols over Delta
tables, MLflow and the model registry, written as guarded `MERGE` statements,
read-backs, commit receipts and an order of writes. This directory models those
protocols in TLA+, checks them with TLC on small instances and proves the central
invariants with TLAPS.

Paths below are relative to the repository; `next_ads/` stands for
`src/next_ads/`.

## 1. The system

### The daily flow

    scoring inputs (12:15)  ->  scoring foundation  ->  provider builds
                                                      (theme affinity; Markov 13:00)
       -> READY provider builds  ->  candidate foundation (16:00)
       -> candidate build (18:00): control sheets, audits, portfolio resolution
       -> page build V1 and V2: assignments  ->  delivery (MASID, PLP, payload, Cosmos)

    beside it: model research and training, AutoML discovery, model promotion,
    feature builds, realtime inputs, reporting, table maintenance

Each arrow is a Delta table. A stage finds the work of the stage before it by a
row that says READY (or by a `latest` table) and pins the Delta version it reads.
Jobs are scheduled one run at a time (`max_concurrent_runs: 1`, with a queue),
and a task that fails is executed again one or two times (`max_retries`); an
operator may repair an older run later.

### Components

| component | state it keeps | operations | what is hard | what makes it correct |
|---|---|---|---|---|
| Research claims (`next_ads/model_development/research_claims.py`) | one claim row for each logical build: owner, lease token, expiry, checkpoint, version, locked references | claim, renew, release, advance, fail | runs interleave between clock, read, MERGE and read-back; takeover; delayed writes | one holder at a time, no overwritten transition, resumable rows |
| Research run, store, selection (`research_runtime.py`, `research_store.py`, `research_selection.py`, the job `select_research_candidate.py`) | the claim, immutable frame, receipt, build, decision and model rows, MLflow runs and tags, model versions | frame, parent, candidates, review, lock, test, register, complete; resume and reuse | state over systems that share no transaction; overlap, death or an error between any two writes; a reviewer beside a research run | claim, stored build, decision and model tell one story; test data for one candidate; nothing created twice; every run ends |
| AutoML claims (`automl_claims.py`, the job `run_automl_discovery.py`) | a discovery claim and its receipt | insert, start, classify, record, store, complete, fail | external work that cannot be undone and may not be repeated | one experiment for a request; receipt and claim agree; evidence is delivered |
| Provider context and publication (`next_ads/ranking/provider_context.py`, `provider_publication.py`, the drivers `publish_theme_affinity.py` and `build_theme_scores.py`) | the context slot with its lease, the signals table, READY rows | prepare, claim, score, commit, publish, release | retries that adopt an attempt, serial takeover, a crash after the commit | one commit an attempt, READY names it, consumed implies READY |
| Provider selection, portfolio, scoring manifest (`provider_selection.py`, `portfolio_resolution.py`, `scoring_manifest.py`) | portfolio entries and headers over the READY rows | look, wait, fall back, bind, announce | rows that appear after the cutoff they predate; retries that select again | an announced portfolio is whole; fallback is the last resort; later looks agree |
| Scoring foundation context and publication (`foundation_context.py`, `foundation_publication.py`) | a second slot and manifest | the same | the same, and the provider build binds to it | a provider reads the foundation it is bound to |
| Candidate publication (`next_ads/candidates/`) | manifest and candidate tables | build, publish, select | selection races publication | the page build reads one accepted candidate set |
| Assignment publication (`next_ads/decisioning/assignment_publication.py`) | scope events, history, latest | find receipt, republish, compute, write | death between three transactions, changed inputs | latest is one recorded computation |
| Snapshot and Delta writes (`next_ads/common/snapshot_writes.py`, `delta_writes.py`) | history and latest tables | replace a scope, delete, replace all, retry on conflict | conflicts, two transactions for one replacement | latest follows history, no rows lost |
| Assignment and scoring algorithms, features, realtime, reporting, control sheets | frames in flight | Spark transformations | volume | numerical and tabular tests |
| Delivery, registry, monitoring | external services | input and output | external failures | outside these models |

`PROJECT.json` lists every component with its sources and status, and every
hazard with its line.

### How they interact

There are no calls between jobs: they interact through tables. A provider
build reads an accepted foundation, holds the context slot while it works, and
leaves a READY row; the portfolio resolution of each route reads READY rows while
publishers go on writing them; the page build reads what was selected and writes
assignments; delivery reads `latest`. Within a job, a driver calls the context, the
publication and the Delta writers in sequence, and its `except` clause releases
what it holds. A process may die between any two statements.

## 2. Modules

| module | models | kind |
|---|---|---|
| `ResearchCheckpoints` | checkpoints, their order, and the references each one locks | definitions |
| `ClaimLedger` | what the callers of a claim rely on: atomic transitions of one entry | abstract specification |
| `ResearchClaim` | `research_claims.py`, statement by statement | detailed, implements `ClaimLedger` |
| `ResearchRun` | `run_model_research` and `run_selection`, over the claim | composition: extends `ClaimLedger` with the stores, MLflow and the registry |
| `AutoMLDiscovery` | `automl_claims.py` and its driver | detailed |
| `OncePublished` | a table that takes one commit of an attempt, and READY rows that name it | abstract specification |
| `ProviderBuild` | a provider build from the slot to READY | detailed, implements `OncePublished` |
| `PortfolioSelection` | selection, wait and portfolio publication against the publishers | detailed |
| `AssignmentPublication` | `publish_bulk_assignment_build` | detailed |
| `SnapshotWrites` | `publish_history_and_latest` over `delta_writes.py` | detailed |
| `ResearchClaimProofs`, `ResearchRunProofs`, `ResearchRunAloneProofs`, `AutoMLDiscoveryProofs`, `ProviderBuildProofs`, `PortfolioSelectionProofs`, `AssignmentPublicationProofs`, `SnapshotWritesProofs` | theorems about the module of that name (`ResearchRunAloneProofs`: about `ResearchRun`, where executions do not overlap) | proofs |
| `MC...` | instances for TLC | |

The operators called "Mutant" in a module are plausible bugs. No specification
uses them; replacing the definition they follow by them breaks the property that
`PROJECT.json` names under "mutants".

### ResearchClaim

A run is a top-level job run (`_claim_owner_id`). Its executions follow one
another. Each operation of `research_claims.py` is split where another run can
interleave: capture the clock (`BeginX`), read the row (`Load`), the guarded MERGE
(`MergeAcquisition`, `Write`), and the read-back (`VerifyAcquisition`, `Confirm`).
`Abandon` is an exception, a cancellation or a lost driver at any point. The
variables `seen` and `at` hold the stale row and the stale clock that an operation
works with. A delayed transition is one that waits in `write` while the clock and
other runs move on. The MERGE conditions are `RestartsFailed`, `TakesOver` and
`Matches`. The identity columns other than `code_sha` are equal for one logical
build and are left out; JSON bindings and ids are values of `RefVals`; texts of
errors and log output are left out.

### ResearchRun

The claim appears here as `ClaimLedger` promises it, which is what the refinement
of `ResearchClaim` licenses: `Open` and `TakeOver` in `Acquire`, `Advance` in
`AdvanceTo`, `Fail` in `FailsClaim`; the lease is the flag `lapsed`. Around it are
the Delta rows (`lake`), the MLflow runs with their tags and the model versions
(`mlflow`), and, per attempt, the candidates whose test data was read (`exposed`).
An execution is a program counter, and each action is one read or one write of one
of these systems, in the order of `_run_model_research_impl`: every creation is a
search (`FindFrame`, `FindParent`, `FindChild`, `FindModel`, `FindVersion`) and,
later, a write. `Yield`, `Reload`, `Reuse`, `Settle` and `Check` are the paths of an
execution that finds earlier work. Training and evaluation have an outcome, READY
or FAILED, in `Train`; the ranking of `recommend_candidate` is a fixed order.
`Raise` is an exception: once the parent run is known, the handler marks it FAILED
(`Disown`). `Error` is an exception of a read or of a write that has succeeded,
`Crash` a lost driver, `Lapse` the end of a lease, which with `Overlap` may come
under an execution still at work. Under AUTO a research run selects and registers;
under REVIEW it ends with AWAITING_SELECTION and the `Reviewers`, which follow
`select_research_candidate.py`, select, each with a choice of its own.

### AutoMLDiscovery

A driver is an execution of `run_automl_discovery.py` for one request; it is run
again until it has returned. `LoadPrior` and `LoadClaim` are its two reads,
`Route` where they lead it; `Insert` and `Inserted` the insert-only MERGE and its
read-back; `Transition` and `Confirm` are `_owned_transition`. `Prepare`, `Classify`
and `Leaderboard` may fail, which leads to `FailClaim`; `Classify` starts the
external experiment whether or not it returns. `Store` is the immutable receipt, a
function of the claim as it was last read, `Complete` the end. `Fault` is a lost
driver or a call that raises outside the two handlers. A claim row carries the
driver that wrote it last in place of `updated_at`, since every write has its own
time.

### ProviderBuild

A run is an orchestration run; its task executes up to `MaxExecutions` times.
`Begin` and `LookUp` are `prepare_score_provider_context.main` (capture
`activated_at`, compute the build id, reuse the attempt of an earlier execution);
`Claim` and `Verify` are `activate_provider_context`; `Find` is the driver's receipt
lookup before it scores, `Compute` the one `stage_provider_signals` repeats after it;
`Commit` is the signals transaction and `Publish` the READY row; `Consume` and
`Confirm` are the two halves of `transition_provider_context`. `Fail` is the
driver's `except`, `Crash` everything that skips it. A build is a value: whatever
changes the output changes `ProviderBuildID`, so an execution may compute another
build than the one before. `TakesOver` is `ALLOW_SERIAL_RUN_TAKEOVER`;
`ThemeAffinity` says whose `except` and release are modelled. The theme affinity
driver logs a release that does not read back, and its `except` also makes the
foundation context of the run FAILED (`Withdraws`; `withdrawn` holds such runs): its
later executions raise before they look for a receipt (`Refuse`), until somebody
prepares the foundation again (`Repair`). The Markov driver does neither.
`provider_takeover` is about the theme affinity driver and `provider_progress` about the Markov
driver; progress does not carry over to theme affinity after a failure that its `except` handles,
since its retries are refused. The theorems hold for both drivers. The table is one slot, because slots do not interact.

### PortfolioSelection

Publishers are environment: `Stamp` reads the clock that becomes `CompletedAt`,
`Commit` writes the row, later, so a row may appear after the cutoff it predates, and
a publication that is repeated moves its row to a later time. `prompt` chooses, for a
whole behaviour, publishers that do neither. A route resolves its providers one
after the other: `Load` takes the rows of the window, `Judge` is the decision
(a build of the day; else wait while a serving provider has time; else the build of
yesterday; else fail, or skip an optional provider), with the clock read after the
load, `Wake` the poll. `Bind`
writes the entries of the portfolio, `Header` the READY header, `Values` the task
values. `Fail` is the task's retry with the next execution count, which selects
again, under an attempt of its own. `max_retries` is 1 for this task, hence
`MaxExecutions = 2`.

### AssignmentPublication

A run publishes one date. `FindHistory` and `Republish` are the repair branch of
`publish_bulk_assignment_build`; `Compute` the frame and its validations;
`WriteEvents`, `WriteHistory`, `WriteLatest` the three transactions. `Stop` is a
failure at any point. The job passes a new `task.run_id` and `execution_count` to
every execution, so its attempt ids never repeat; `RepeatsIdentity` is a caller
that does repeat them. Computing twice may give two `Contents`, because some
inputs are read at their latest version.

### SnapshotWrites

A task publishes one scope and one date. `plan`, chosen at the start, is the shape of
the dataset: its tasks, whether it publishes with a scope, whether tasks overlap.
Each statement starts at a version of its
table (`Start`) and then commits (`Execute`) or meets a concurrent commit
(`Conflict`) and is tried again by `_execute_with_delta_retry`. Delta serialises
transactions, so a statement that commits has the effect it would have if it had
started then. With a scope the latest table takes a DELETE and an INSERT REPLACE
WHERE; without one it takes one replacement. The content of a key is the
execution that computed it. `Begin` chooses whether the execution's frame has rows:
`validate_unique_non_null_keys` lets an empty one through, and the customer cells publish
an empty snapshot on purpose, so a publication may leave the history without rows of
its key, and latest without any. The quality audit of adverts is the scoped caller;
control sheets, customer cells, theme transitions and the payload are not scoped.

## 3. What is checked

| run | question | bounds |
|---|---|---|
| `research_claim` | do two runs, of two code versions, ever hold the claim together, overwrite each other or leave a row nobody can resume? Is the protocol the ledger of atomic transitions? | 2 runs, 2 codes, 2 values of each reference, lease of 1 tick, clock to 2, 3 tokens, version to 5 |
| `research_overlap` | when research runs and reviewers overlap and a lease lapses under its holder, do claim, build, decision and model tell one story, and does one candidate meet the test data? | 2 research runs, 2 codes, 2 reviewers, 2 candidates, 3 executions in all, both policies, 1 fault |
| `research_progress` | when runs do not overlap, do retries create nothing twice, keep the model of a COMPLETE claim and bring every run to an end? | 1 research run, 1 reviewer, 2 candidates, 6 executions in all, both policies, 2 faults |
| `research_parent` (violation) | is the parent run left honest? | 1 research run under REVIEW, 1 candidate, 1 fault |
| `automl` | is there one experiment for a request, do receipt and claim agree, is evidence delivered? | 3 drivers, 2 faults |
| `provider_takeover` | do overlapping runs with serial takeover and retries, with leases that expire, commit and publish once, and does the slot move forward? | 2 runs, 1 build, 3 executions each, lease of 3 ticks, clock to 3, 3 faults |
| `provider_progress` | when runs follow one another, does a run fail to publish only when all its executions die, and is finished work reused? | 2 runs, 3 executions each, 3 faults, a lease that outlives them all |
| `portfolio` | is an announced portfolio whole, is fallback the last resort, do later looks agree, does the wait end? | 1 route and its retry, 1 serving and 1 optional provider, cutoff 2, fallback age 1, poll 1, clock to 4, 2 rows written |
| `assignment_retry` | are latest, history and events one computation, does a repeated identity find its commit, and does every run reach delivery? | 3 runs on 2 dates, 3 executions, 2 faults, 2 contents |
| `assignment_repair` (violation) | does a repair recompute nothing? | the same, identities not repeated |
| `snapshot` | two routes and two dates one after the other, two routes of one date or of two at once with conflicts, and a dataset without a scope over three dates, frames with rows and without: one date in latest, nothing unrecorded, what is published is served as the history holds it until another date begins, nobody's rows taken, every task publishes | 3 attempts at a statement, 3 executions, 2 faults |
| `snapshot_scoped` (violation) | is a scoped replacement by rows atomic? | two routes and two dates, 3 executions, 3 faults |

**The bounds.** Two runs are the smallest number that interleave, and a third
meets the table as the second did: every guard compares a run with the one stored
row. A lease of one or two ticks can expire between any two steps. Three tokens
let a run lose the claim and take it back; version 5 reaches a restart after a
failure and a locked selection. In `research_overlap` three executions are those
two that overlap and one that finds what they left; in `research_progress` six
are two runs, each with its deaths, in either order. Executions
outnumber faults where a run must succeed, and faults reach every statement. The
portfolio's clock has a tick before, at and after the cutoff, in and out of the
fallback window, and one for the retry; two rows are enough for a build of today
and one of yesterday, two attempts of one build, or one row and its repetition. Three
assignment runs on two dates give the late repair of an older date and two runs of
one date. `MaxAttempts` is 5 in the code and 2 or 3 here: conflicts of two tasks
are few, and the bound is reached in neither or both.

**Symmetry** is used where runs, codes, builds or references are only compared
for equality, and never with a liveness property; research runs and reviewers are
permuted apart. `CHECK_DEADLOCK FALSE` is set because the runs end: executions and
clock are bounded.

**Fairness.** `FairSpec` asks that a run which can take a step of its own takes one
in the end. The jobs justify it: queued runs are started, a failed task is executed
again while retries are left, and a statement returns or raises. `ResearchRun` also
asks that a lease which nobody holds any more runs out, and `PortfolioSelection` that
time passes and that a prompt publisher ends what it has begun; nothing has to be
published. No fairness is assumed for faults. In the assignment and snapshot runs
faults are fewer than the executions of a run, so every run must succeed. In
`provider_progress` one run may lose all its executions and leave its lease behind;
the other must still publish. `EveryRunPublishes` is checked with
`Concurrent = FALSE`, the jobs' `max_concurrent_runs: 1`; with overlapping
runs it does not hold, since they may take the slot from one another. In the same
way `EveryRunSettles` and `NothingTwice` are checked with `Overlap = FALSE`.

**What the violations show.**
`assignment_repair`: an execution dies after the history commit; the next one has a
new attempt id, finds no receipt, computes again and commits a second history.
`docs/CICD/nextads_databricks_runtime_map.md:146` promises a repair without
recalculation. The published state stays consistent (`LatestIsRecorded`,
`SuccessAgreesWithHistory`); what is lost is the saving, and the equality of the
repaired result with the first one.
`snapshot_scoped`: `replace_and_update_scope_by_name` says it replaces atomically; it
deletes the other dates in one transaction and inserts in the next, and between
them, or after a crash between them, latest has no rows.
`research_parent`: under REVIEW, an error after AWAITING_SELECTION has been stored
marks the parent MLflow run FAILED; the retry finds the stored build and returns it
(`research_runtime.py:1347`) without touching the parent, which the docstring of
`run_model_research` promises to leave "terminally honest". The build itself can be
selected from, and the selection sets the parent right.

## 4. What is proved

All theorems hold for every value of the constants under the assumption that each
module names (`ClaimAssumption`, `DiscoveryAssumption`, `ProviderAssumption`,
`SelectionAssumption`, `PublicationAssumption`, `SnapshotAssumption`,
`RunAssumption`): bounds are natural numbers, a lease or a poll is a positive number of
ticks, the sets that stand for different things are disjoint, `None` is no data value
and no row, and a research plan declares at least one candidate
(`research_contracts.py:582`).

**ResearchClaimProofs** proves all properties that the claim run checks:
`TypeCorrect`, `Exclusion`, `VersionIdentifies`, `Resumable`, `MovesForward`,
`TakenAfterExpiry` and the refinement `Implementation`. The invariant `IInv` joins
to `TypeOK` what holds of the stored row (`RowSound`: its payload is complete, its
times are ordered, its token was drawn) and of each run (`TokenSound`: a token
identifies the execution that drew it; `ClockSound`: captured clocks are in the
past; `PendingSound`: a loaded row is an earlier version of the stored row, equal
to it when the versions are equal; `BeliefSound`: a run that believes in a lease
later than now is the owner of the stored row). `LeaseExclusion` is not inductive
alone: it needs that a belief in a running lease ties the run's token to the row,
which needs that the version identifies the row.

**ResearchRunProofs** proves `RunTypes`, `ClaimTellsStores` and `LockedAlone`: the
types, that the stores follow the claim, and that test data is read for one candidate.
They hold whether or not executions overlap and a lease lapses under its holder. The
invariant `IInv` says of each execution at work what it has behind it (`RunOK`):
`Holds` (its own copy of the claim is the claim, or an earlier one that no write of
its can match any more), `Follows` (the stage at which it works is locked in its copy),
`Casting` (a selection in progress names the decision it has written or found) and
`Reached` (what a stage relies on is in the stores). Two facts carry it across the
steps of other executions: a token is drawn once, so that a write fenced by an old
token finds another entry, and the receipts of an attempt that has them all never
change, so that what one execution has compared and locked is what every later one
reads. A claim goes forward, except that of an attempt that a newer one has replaced
(`Doomed`).

**ResearchRunAloneProofs** proves `NothingCreatedTwice` and `CompleteModelStays` on top
of it, under the premise `~Overlap`, with which `research_progress` also checks them: no
lease lapses under an execution that is still at work (it also leaves out executions
that another's lease or a failed choice would stop at once, `Welcome`). Executions of different runs may
still stand side by side there, and each may die at any write, which frees its lease.
With overlap neither property holds: two executions that have searched may both create.
The invariant `Neat` adds to `NothingTwice` that an execution at work knows the claim
as it is and holds it, unlapsed, until it is COMPLETE (`Alone`), and that what its
search has found, or has not found, is still so when it writes (`StillFound`). Two
executions at work have the claim COMPLETE (`NobodyElse`), so a step that creates is a
step of the only one (`CreateOK`), and no other step adds to what a search looks at
(`Kept`). What is COMPLETE has its model, so nothing is left to create.

**AutoMLDiscoveryProofs** proves `DiscoveryTypes`, `ExperimentOnce`,
`ReceiptAgrees` and `ClaimStaysFenced`. `OneExperiment` needs that one driver at most
can still reach `classify`. `HolderKnows` says so: the driver that made the claim is
the only one that moves it, and knows it exactly, as long as there is no evidence,
which rests on `Tokens` (a token is drawn once). `Started` says that an experiment
takes the last driver away from `classify`, and `Evidence` what the drivers act on
that come later: evidence that is locked, which no step changes. `DriverEnds`,
`StepsAside`, `HolderGoesOn` and `OthersKnow` show once what is common to the steps.

**ProviderBuildProofs** proves `TypeCorrect`, `ConsumedReady`, `MovesForward` and
the refinement `Implementation` of `OncePublished`. `IInv` adds: an attempt has one
commit (`OneCommit`), a READY row names its attempt's commit (`ReadySound`), the
slot belongs to the run that proposed its attempt (`SlotSound`), and for each run,
that its attempt is its own and not behind the slot (`AttemptSound`), that a
proposal is new or an unfinished attempt (`ProposalSound`, which the separate reads
of `LookUp` and `Claim` make necessary), and that at `commit` there is no commit of
its attempt (`ProgressSound`). `Others` shows once that a step of one run leaves
the others' part alone, and each action then needs only its own. `FinishedReused`
proves `FinishedWorkIsReused` for runs that follow one another (`OneAtATime`): its
invariant says that one run is at work (`Alone`), that past `verify` it holds the lease,
and that the slot keeps an attempt that is not finished for the next execution, which
adopts it (`Resumes`). The theorems cover what the runs do not repeat: no takeover (`TakesOver = FALSE`), and builds that
change from one execution to the next.

**PortfolioSelectionProofs** proves `SelectionTypes`, `HeadersBacked` and
`FallbackLast`, for any routes, providers and publishers. `HeaderHasEntries` needs
that the picks of an execution name exactly the providers it has left behind, once
each, and that nobody writes to the entries of a portfolio attempt again.
`FallbackIsLastResort` relates a pick to every later state of the manifest: a row
that a prompt publisher commits is not earlier than the look that missed it.
`LaterAgrees` proves `LaterLooksAgree` for any number of routes and their retries: under
prompt publishers the rows of an attempt have one time (`RowsOnce`), so a look has seen
exactly the rows that are earlier than it and that it may use (`SawBy`), each pick is
what its look selects (`Looked`), and of two looks the later has seen all that the
earlier had.

**AssignmentPublicationProofs** proves `TypeCorrect`, `Recorded` and `OneHistory`
by the argument of the provider; `IInv` adds that every history commit has its scope
events. `SuccessAgrees` proves the action property `SuccessAgreesWithHistory` from a
second invariant about runs that follow one another: one run is at work, and the last
commit of the history is the one it has made or found.

**SnapshotWritesProofs** proves `SnapshotTypes`, `HistoryFirst`, `DatesFollow`,
`RowsStay` and `ServedAsPublished`, for any plan and frames with rows or none. The
invariant says what a task at its statement has behind it: `Recorded` (the history is
what this execution publishes, and latest has none of its rows before it is done),
`Planned` (a task is at a statement its plan has), `Alone` (no other task is at work where tasks follow one another)
and `Cleared` (after the DELETE no other date is left).

**Model-checked only.** Liveness (`EveryRunSettles`, `EvidenceIsDelivered`,
`EveryRunPublishes`, `ExecutionsEnd`, `EveryRunGoesLive`, `EveryTaskPublishes`) is
beyond the prover, which has no fairness reasoning of this kind. Every safety
property of a passing run is proved. `NothingCreatedTwice` and `CompleteModelStays` have
the premise `~Overlap` besides the assumption of their module, which is that of the run.
Some properties state a premise of their own: `FinishedWorkIsReused` is about runs that
follow one another (`OneAtATime`), `LaterLooksAgree` about prompt publishers, `OneDate`
about plans whose tasks follow one another, `PublishedIsServed` about the time until
another date begins; runs reach each of them. The three violations are counterexamples, and need no
proof.

## 5. What is not modelled

Spark transformations, scoring mathematics, schema and key validation beyond "it
raises", file and service input and output, logging and texts. Checksums are
abstracted to the value they identify, so their construction is not checked.
Clock skew between drivers is left out: all executions read one clock. Delta is
taken as specified (serialisable single-table transactions); receipts are
looked up in an unlimited history, without maintenance commits.

Of the components that are modelled in part:

- research: the training and evaluation of a candidate are an outcome, artifacts and
  identity checksums have no content, `research_contracts.py` and
  `research_evaluation.py` are validation and numerics;
- provider selection: `select_current_input_snapshot_id`, the historical selection by
  run date, the policy resolution and the comparison of theme coverage;
- provider publication: the generic publish and finalize jobs;
- assignment publication: the per-scope path (`stage_assignment_scope`,
  `validate_and_publish_assignment_build`), whose jobs are in the repository but in no
  deployed job file;
- Delta writes: appends, the metadata of a commit as state of the session, the
  validators.

Most of the repository is Spark transformation, notebooks, experiments and
configuration without protocol state, so the models cover a small share of its lines.
The components that are still unmodelled, with reasons, are in `PROJECT.json`.

## 6. Plan

Done, in this order: claims (the most intricate protocol, and the one the others
resemble), provider builds, assignment publication, snapshot writes, the research run
over its claim, AutoML discovery, provider selection and the portfolio.

Next, by importance:

1. `FoundationBuild`: the foundation slot and its READY rows; composed with
   `ProviderBuild` so that a provider's binding names a published foundation.
2. `CandidatePublication`: the candidate foundation and its manifest; a page build
   reads one accepted set.
3. The per-scope path of `AssignmentPublication`, if a job is to run it.
4. `DeltaWrite`: commit metadata as session state, threads, maintenance commits and
   the limit of ten rows in the receipt lookup.

A module gets one run for safety and one for progress, or one for both. What is
left to prove comes with these modules: that `FoundationBuild` implements
`OncePublished`, as `ProviderBuild` does, and that a provider reads the foundation it is
bound to.
