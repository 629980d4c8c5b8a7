# AIOS lab: a TLA+ verification project

This directory models the AIOS lab (`src/src`, `src/workers`): a foreground
engine that takes a Task document through implement, review and approval with
external Worker processes, and the routing layer that chooses those Workers.
It holds specifications, TLC configurations that check them on small instances,
and proofs, checked by TLAPS, of theorems that hold for every value of the
constants. Everything is translated from the JavaScript; where a document of
the repository says something else than the code does, a run shows it.

Contents: [the system](#1-the-system) · [plan](#2-plan) ·
[modules](#3-modules-and-how-they-correspond-to-the-code) ·
[runs](#4-runs-bounds-and-what-they-show) · [fairness](#5-fairness) ·
[proofs](#6-proofs) · [disagreements](#7-where-code-and-documents-disagree) ·
[not modelled](#8-what-is-not-modelled) · [how to run](#9-how-to-run)

## 1. The system

One operator works in one repository. `aios run`, `aios progress` and
`aios route ...` are short-lived foreground processes; nothing runs between
them. All durable state is in files under `.aios/`, and every file call is an
`await`, so between any two of them a person may save a document, a signal may
arrive, the process may die, and another process may do any of its own calls.

```
   operator --edits--> .aios/tasks/*.md  .aios/approvals/*   routing config
      |                      ^   |              |                  |
   aios progress ----> LoopEngine.run ----> human approver         |
      (Task by Task)     |       |  ^                              |
                         |       |  '-- Result ---.                |
              resolve    v       v execute        |                v
        assignments or RoutedAssignmentResolver --+--> selectCandidate
                         |       |                |        ^
              record,    v       v                |        | history, cooldowns
              events   decision ledger     CommandWorker --'
                       cooldown store        |      |
                                    child process   session ledger
```

### Components

For each: the state it keeps, its operations, what is hard about it, and what
makes it correct.

**Loop Engine** (`engine.js`). Local to a run: the loaded document, what the
Worker answered, two capacity counters. `run` loads the Task, resolves and
executes the Worker of the Role its state asks for, compares the file with what
it loaded, records the Result as a new state, and goes round; it returns `done`,
`waiting`, `blocked` or `halted` with a category. Hard: each step of that list
is an await. Correct when: it never leaves a document it would itself refuse;
one Review is made per Attempt and one retry charged per Review that asks for
changes; the approval gate is passed by a decision for this Attempt only; a
Review written before a crash is picked up, not repeated; every run returns.

**Contracts** (`contracts.js`). No state. The rules of Task and Review metadata
and of Results. Hard: rules across fields that must survive several writes.

**Task and Review store** (`documents.js`). `.aios/tasks/*.md`,
`.aios/reviews/*.md`. `loadTask`, `taskIsUnchanged`, `writeTask` (compare, then
rename), `createReview` (look, allocate an id by scanning, link). Hard:
comparison and rename, and scan and link, are not atomic. Correct when: a save
is not lost; ids are unique; a Review exists once.

**Human approver** (`human-approver.mjs`). Reads `.aios/approvals/<task>`, which
the operator writes at any time.

**Worker transport** (`workers.js`). A child process, the flags `aborted`,
`timedOut`, `exceededLimit`, a timer, the output. `execute` spawns, watches,
kills the process tree once, and settles on `close`. Hard: abort, timer, output
limit, `exit` and `close` race, and descendants hold the pipes. Correct when: a
killed call is never reported as a Result; after a kill settles nothing of the
process group lives; a call that timed out settles; the session is recorded
before the Result is used.

**Session ledger** (`sessions.js`). `.aios/runtime/sessions.json`; `record` is
load, merge, replace. Correct when: a session has one owner, and its invocation
count is the number of recorded calls.

**Routing state file protocol** (`routing-ledger.js`, `routing-cooldown-store.js`,
the same code twice). A file and a lock file beside it. `load`; `#commit`: create
the lock exclusively, compare, replace, remove the lock. Hard: it may die or fail
at each call. Correct when: it is an atomic update, what it reports is what
happened, and somebody gets through.

**Routing decision ledger** (`routing-ledger.js`). Rows: one per decision, with
status, events, generation. `record`, `appendEvent`, `resetAction`; each
validates the *whole* file by replaying it. Hard: the replay recomputes for
every old row the window it was selected against, although rows were superseded
since. Correct when: the replay admits whatever the writer's guards admit; each
action has one chain of steps per generation; history is kept.

**Routing selection policy** (`routing-policy.js`). No state. `selectCandidate`
checks its input and the recorded history, applies gates and floors, ranks by
fitness and shares, and says why. Hard: floors come from several histories
(escalation, the Implementer's tier, rejected Reviews, overrides). Correct when:
no route gets weaker than its floors, a fallback follows the recovery order, and
no share is exceeded while another eligible provider is owed more.

**Routing configuration and workload** (`routing.js`). Parses the configuration
and derives the workload facts of an action from plan hints, Task and history.
It is derived once for a selection; correct when the selection's and the ledger's
own rules for a workload accept whatever is derived.

**Routed dispatch** (`routing-dispatch.js`). `RoutedAssignmentResolver.resolve`
selects or resumes a row; `RoutedWorker.execute` records a launch, runs the
child, and on failure records the failure, the fallback, the cooldown and the
next row (`#advance`); `accept` and `rejectResult` are called by the engine
around the Task write. Hard: one step is several commits to two files, each of
which may be refused, while the operator may reset the route. Correct when: no
Worker runs without its row; a route is one path over distinct candidates; a
Task's answer has its completed row; a completed row is final.

**Cooldown store** (`routing-cooldown-store.js`, `routing-cooldowns.js`).
Candidates not to be used before a time; `recordCooldown`, `clearCooldown`,
`activeCooldowns`. A failed record does not fail the dispatch.

**Progression** (`progression.js`). Local to a call: the position in the plan's
order and the Tasks it counts as done. `runProgression` walks the order, calling
`run` once per unfinished Task; `derivePlanProgressState` says the same read-only.
Hard: the two must agree; cancellation is checked at Task boundaries; the
documents change, and are damaged, while it walks. Correct when: nothing is run
before what it depends on is done; every stop says the reason and the Task that
the documents say; a call that is given again says the same; every call ends.

**Plans and adoption** (`plans.js`). `plans/<id>/`. `adoptPlan` allocates ids by
scanning, creates one Task per proposal, replaces `PLAN.md`, and on an error
removes what it created. Hard: two adoptions, a crash in the middle, a rollback
of a Task somebody already runs. Correct when: a plan names all of its Tasks or
none; a Task file is never overwritten, and removed only by who created it; what
a command reports is so.

**Planning brief** (`brief.js`). Allocates one id and links one Task file.

**Repository initialisation** (`init.js`). Exclusive creates in a new directory.

**Target inspection** (`targets.js`). Read-only; derives ids from text.

**Command line** (`cli.js`, `index.js`). Parses arguments; `progress`, and `run`
with capacity waiting, turn SIGINT into an abort signal; other commands just die.

**Dashboards** (`dashboard.js`, `plan-dashboard.js`). Render the files to HTML.

**Provider workers** (`claude-worker.mjs`, `codex-worker.mjs`, `worker-shared.mjs`,
`codex-capacity.mjs`). The children of the transport. Each runs one session of a
provider, reads its stream of events, and prints an execution: a Result, or a
deferral until an instant. Claude's session is killed at the first rejected rate
limit; a failed Codex turn is looked into with a probe of the app-server. Hard:
chunks, the kill, the session's end and its tools' race; the probe's two replies,
its timer and the server's end race, also with what the adapter writes to it;
resets are computed from two windows or from a sentence. Correct when: what is
printed depends on what the session said and not on that race; a deferral has
evidence; nothing works on after it; a failed session is recorded.

`PROJECT.json` lists the hazards of these components, each at its line and with
the properties that cover it.

## 2. Plan

What an operator relies on most comes first: the documents, then the processes
that answer for them, then the files routing keeps, then routing itself.

| Order | Modules | Composes | Abstract specification | State |
|---|---|---|---|---|
| 1 | `TaskContracts`, `TaskLoop`, `MCTaskLoop` | documents, engines, operator, `WorkerCall`'s call | `TaskLifecycle` | checked |
| 2 | `TaskLoopProofs` | | | type, documents, ids, cancellation proved; with no Task run twice at once also Reviews, approval, restarts and the refinement |
| 3 | `CommandWorker`, `WorkerReplies`, `ClaudeWorker`, `CodexWorker`, `WorkerProofs`, `MCWorkers` | children, helpers, pipes, session ledger; a provider's session, its tools, a probe | `WorkerCall` | checked and proved |
| 4 | `StateFile`, `StateFileProofs`, `MCStateFile` | any number of writers of one file | `AtomicUpdates` | checked and proved |
| 5 | `RouteEvents`, `RoutingDecisions`, `DecisionLedger`, `DecisionLedgerProofs`, `MCDecisionLedger` | the file's contents, taking #4's atomic update for granted | `ActionRoutes` | checked and proved |
| 6 | `RoutedDispatch`, `RoutedDispatchProofs`, `MCRoutedDispatch` | engine, Worker, ledger, cooldown write, operator | `ActionRoutes` | checked and proved |
| 7 | `RoutingWorkload`, `RoutingPolicy`, `RoutingSelection`, `RoutingSelectionProofs`, `MCRoutingSelection` | selection over histories of decisions | | checked and proved |
| 8 | `Progression`, `ProgressionProofs`, `MCProgression` | Tasks in order over `TaskLifecycle`, other engines, the operator, damage, signals | (uses `TaskLifecycle`) | checked and proved |
| 9 | `PlanAdoption`, `PlanAdoptionProofs`, `MCPlanAdoption` | concurrent adoptions and briefs, planners, editors, an engine | | checked and proved |

Every safety invariant and action property of a passing run is a theorem. Still worth
proving: `SelectionsAccepted` for edits that add candidates (section 6 says what the
theorem assumes of edits).

Further modelling: the precedence of command-line over configured overrides
(`routing-dispatch.js`), and two engines on one routed action, which
`README.md:1088-1093` of the repository excludes.

The abstract specifications connect the parts. `TaskLoop` abstracts a Worker to
`WorkerCall`, which `CommandWorker` is shown to implement. `DecisionLedger`,
`RoutedDispatch` and `RoutingSelection` take each write of a routing file as one
step, which `StateFile` is shown to implement (`AtomicUpdates`), with the refusal
and the error a caller may get. `RoutedDispatch` keeps the sequence of one action
only, and both it and the whole `DecisionLedger` implement `ActionRoutes`, so what
the dispatch relies on is what the ledger gives. `Progression` takes what an engine
does to a Task as a step of `TaskLifecycle`, which `TaskLoop` is shown to implement.

## 3. Modules and how they correspond to the code

`PROJECT.json` maps every definition to its lines. Here is how to read each
module. A definition `X_Name` just before `X` is a slip: the same definition with
a plausible bug. It is used by no specification; replacing `X` by it makes TLC
refute a property, which shows that the property says something.

**`TaskContracts`**: documents as records (`TaskDoc`, `Review`), the file text
reduced to one value per saved wording (`Texts`; `Unparsable` are those that the
parser refuses). `Loadable`, `Writable`, `EvidenceValid` are what `loadTask`, `writeTask`
and `validateTaskEvidence` accept. `RecordAttempt`, `transitionFromReview`,
`ApplyDecision` are the three document changes.

**`TaskLoop`**: `disk`, `reviews`, `approvals` are the files; everything indexed by
engine is the local state of one `run`. `pc[e]` names the await the run is at:

| `pc` | waiting for | actions |
|---|---|---|
| `idle` | no run | `Start` |
| `load` | `loadTask` and evidence | `LoadInvalid`, `LoadFinished`, `LoadActive` |
| `findReviews` | `findReviews` | `AttachOrphan`, `MultipleReviews`, `NoReviewYet` |
| `resolve` | `assignments.resolve` | `ResolveFails`, `Dispatch` |
| `running` | `worker.execute` | `WorkerSettles` |
| `checkExec` | `taskIsUnchanged` after it | `Exec*`, `Capacity*`, `ResultRefused`, `Accept*` |
| `sleep`, `checkSleep` | the capacity sleep, `taskIsUnchanged` | `Wake`, `SleepConflict`, `SleepCancelled`, `Resume` |
| `findExisting`, `allocate`, `link` | the three calls of `createReview` | `ReviewExists`, `FindNoReview`, `AllocateReviewId`, `LinkRefused`, `LinkReview` |
| `writeCheck`, `rename` | the two halves of `writeTask` | `WriteConflict`, `WriteChecked`, `Rename` |

`Edit` is a person saving a Task with another wording, possibly half written;
`Decide` writes the approval file, also badly, and corrects it, but does not take a
decision back; `Cancel` is SIGINT of a command that handles it (`Interruptible`);
`Crash` ends an engine anywhere. Edits change prose only: a person who sets the state or the counters
by hand takes over the engine's part, and nothing is promised about that.

**`CommandWorker`**: `phase` is the call's, `child` and `helper` are the process and
one descendant, `ties` whether the helper is in the process group and holds the
pipes. `CloseSettles`/`CloseRecords` are the `close` handler with and without a
session to record; `RecordRefused`/`RecordWritten` are `SessionLedger.record` after
its load. `Consume` is the engine taking the settlement, and the next call starts.

**`WorkerReplies`**: a reply is the sequence of its bracketed spans; what
`extractPayload`, `validatePayload` and `resultEnvelope` make of it. **`ClaudeWorker`**:
`written` and `tail` are the session's output, `arrived` how many lines the data
handler got, `kept` where `deferredStdout` ends. `Data` is the handler for a chunk of
any number of lines, `Close` the end, where `buildWorkerExecution` judges.
`EngineKills` is the transport's kill, which reaches the adapter and, as the
session is in a group of its own, not the session. **`CodexWorker`**: `SessionEnds`
gives any stream up to the bound; `Greet`, `ResumeReplies`, `RatesReply`,
`ServerFails` and `ProbeTimerFires` are what the probe may meet, each settling it
at most once. `ServerExits` leaves `server` gone with its last output perhaps unread:
an answer read after that is handled as any other, but what `Greet` then writes to it
ends the adapter (`SendFails`), as the pipe to the server has no error listener.
`Calendar` is any calendar, so that month ends, leap days and past
dates all occur within a few units. The three share nothing at run time, and
`MCWorkers` chooses one of them; it extends all three, so the two adapters'
specifications are called `ClaudeSpec` and `CodexSpec`.

**`StateFile`**: the contents are the set of updates they contain, since the code
replaces what it loaded by that plus its own update. `pc`: `loaded`, `locked` (the
lock was created), `same`/`changed` (the comparison), `replaced`/`failed`, then the
removal of the lock. `Fault` actions fail a call or end the process.

**`RouteEvents`**: statuses, kinds of events, and what an event does to a status.
**`RoutingDecisions`**: the rows of the ledger, generations, the distribution window
and `validateLedger`, the replay of the whole file. **`DecisionLedger`**: the three
writers over it, each one atomic update; `now` is the writer's clock, which may
tie with or fall behind what is recorded.

**`RoutedDispatch`**: one action. `route` holds the rows of its current generation,
`engine.at` the await of the running command (`resolve`, `decide`, `launch`,
`running`, the steps of `#advance` from `report` to `record`, `deferred`, `judge`,
`reject`, `accept`, `write`). `stale` says the Task file is no longer what the
run loaded, `asks` that the Task on disk still asks for the action. `WriteRefused`
is any commit that finds the file changed or locked; whether a candidate is eligible
is nondeterministic, as `RoutingSelection` decides that.

**`RoutingWorkload`**: `buildWorkloadContext` from facts (which hints exist, what the
plan says, the size of the Task, its history). **`RoutingPolicy`**: validation of
configuration and history, and `selectCandidate` part by part, from `GateFails` to
`chosenEntry`; fractions are compared as products. **`RoutingSelection`**: the
histories it is asked about: `Resolve`, `Advance` (a failure with its cooldown,
fallback or escalation, or none), `Complete` (a Review passes or asks for another
Attempt), `ResetAction`, `EditConfig`, `CooldownEnds`. Its rows carry the evidence the
ledger rechecks (`validateDecisionRecord`).

**`PlanAdoption`**: `tasks` and `plans` are the files; `pc[c]` names the await of command
`c`: `asked`, `listing` (`readdir` and the allocation), `stat` (a brief's look), `compare`
and `recompare` (the two readings of `PLAN.md`), `creating`, `replacing`,
`replaced`/`created` (about to report), `undoing` (the rollback, one `unlink` at a
time). `Fail` is the `catch` of `adoptPlan`. `EngineCompares` and `EngineRenames` are
`writeTask` of an engine on one of these Tasks; between the two a rollback may
unlink the file, which the rename then brings back.

**`Progression`**: `life` and `verdict` are the Tasks of `TaskLifecycle`, `decision` the
approval files, `broken` what cannot be read, `unsound` a Task whose evidence is
not valid. `pc`: `select` (`selectNextTask`), `boundary` (the top of the loop),
`load` and `role` (inside `engine.run`: the load before a Role, the Role), `skip`
(`skipDoneSuffix`), `stopped`, `rejected` (it threw). `OtherEngine`, `Decide`, `Damage`,
`Repair` and `Signal` are everybody else. `disturbed` is a history variable: when
others last changed something; so is `damaged`, the unreadable documents that somebody
damaged during the call. The other engines take whole steps of the lifecycle: a second
engine that overwrites the same Task with a stale rename (`documents.js:353-366`), which
`README.md:1088-1093` excludes, is not among them.

## 4. Runs, bounds and what they show

| Run | Distinct states | Expect |
|---|---|---|
| `one_engine` | 72 480 | pass |
| `two_engines` | 1 824 528 | pass |
| `worker` | 417 760 | pass |
| `state_file` | 69 887 | pass |
| `ledger` | 17 767 (up to symmetry) | pass |
| `dispatch` | 243 490 | pass |
| `selection` | 57 500 | pass |
| `adoption` | 1 377 690 (up to symmetry) | pass |
| `progression` | 381 072 | pass |
| `detached`, `rerun`, `catalog` | | violation, section 7 |

All runs say `CHECK_DEADLOCK FALSE`: once the bounded number of commands has
ended, nothing needs to happen, as in the program.

**`one_engine`** — the case the documents promise something about: one foreground
engine. One Task with retry limit 0 or 2, with and without approval; two values
of evidence (enough to repeat one and to give another); two crashes, so that one
may hit the recovery of the other; two capacity pauses of one unit with a total
of two, so that each limit is reached before and after the other; four Review
ids, one more than three Attempts can use. Invariants: `OneReviewPerAttempt`,
`NeverInvalid`, `AtMostOneLateWorker`. Action: `ApprovalGate`. Liveness:
`Termination` (no combination of capacity answers, retries and Roles keeps a run
going) and `OrphanAttached`. And `ImplementsLifecycle`: the files, at every moment,
are a Task in the abstract lifecycle, where a verdict is given once and acted on
once, so that a Review that asks for changes costs exactly one retry.

**`two_engines`** — what is left when two engines work on the same Task and people
save its file, also half written: `DiskSound` and `ReviewIdsUnique`. Limit 1, three
ids, one pause. The other invariants of `one_engine` do not hold here and are not
claimed by anybody (`README.md:1088-1093`).

**`worker`** — one of three workers. The transport: three calls one after another
with two owners and two sessions, so a session is created, resumed and claimed
by another owner; the child forks a helper that stays in or leaves the group,
and keeps or closes the pipes. One engine: with two, `SessionsCounted` is false,
since `record` neither locks nor compares (a hazard in `PROJECT.json`).
`SettledClean`, `SessionsCounted`, `TimeoutSettles` and `ImplementsCall`.
`TimeoutSettles` names its one exception: a helper that left the group and holds
the pipes can delay the settlement for ever. The Claude adapter: three lines and
an unfinished one of seven kinds (two sessions, a rejection that can be waited
for, one of another session, one that cannot, one reply and an ambiguous one),
cut into chunks in every way, with a tool: `FirstRejectionDecides`,
`RejectionEnds`. The Codex adapter: streams of up to three events of seven kinds,
five answers about the thread, eight about the limits (one or two windows, past,
too far, no number), two months over three years of which one is leap, anchors
before and after the dates; the server may exit at any moment, also before it is
sent what it is asked: `DefersOnEvidence`, `FailureRecorded`. The latter names its two
exceptions, a reset that no `Date` can hold and a server that is gone before the
adapter has written to it; its end at any later moment loses no record.

**`state_file`** — two engines and an operator's command, two updates each, so that
a client meets its own earlier update as well as others', with crashes and I/O
errors at every call. `OutcomesTrue`, `ImplementsUpdates`, and `SomeoneCommits`: when every client has begun an update,
one is made, unless a fault is reported or left the lock file behind. It is not
one for every round: the holder of an old snapshot may refuse all the others.

**`ledger`** — two actions, two revisions, a window of two and three rows: enough
that a reset of one action takes back a row which a later row of the other has
counted. The clock ties, steps on and is set back. `WritesCommit`, for records,
events and resets, compares two computations of the code: what a writer
counts now, and what every later load recounts for that position. One provider
is enough: the replay counts each provider's rows in the same window.
`ImplementsRoutes`.

**`dispatch`** — one action, three candidates (a failure, a fallback, and one more),
two revisions, one capacity pause, three commands of which one may crash, two
edits of Task or configuration, and resets at any time. `RecordedBeforeLaunch`,
`ContinuationSafe`, `AnswerHasRecord`, `OnePath`, `RunsEnd`, `ImplementsRoutes`.

**`selection`** — two Tasks, one with a cheap hint from its plan and one whose hint
contradicts its planning contract; five candidates of two providers and three
tiers; a configuration with shares 1:2 and a window of four, and an edit of it
with equal shares, a window of two and a candidate switched off; `capacity`, which
falls back and may pause, and `verification_failed`, which escalates and may fail the
action (any other reason does one of each); two Attempts, one cooldown at a time, two
overrides, three rows (a start, a fallback and an escalation; or two Tasks that share a
window). `SelectionsAccepted` relates three computations: what selection decides and
what the ledger recomputes from it; the workload that is derived, after any single
edit of the facts, and the rules by which selection and ledger examine it; and the
recorded history and its validation under the present configuration.
`RecoveryOrder`, `TierFloors` and
`SharesKept` are stated over the rows, without the operators of the policy. Three rows
leave room for two free choices in a row; longer runs of them are the theorem's, and
windows that slide or straddle a change of weights are in neither.

**`adoption`** — three commands, each an adoption of the drafted plan, a brief for
a second one, or an adoption of that; two proposals and four ids, so that two
adoptions can both succeed, collide on one id or on both, and find no ids left;
crashes, I/O errors at every call, one edit of each `PLAN.md`, and an engine that
advances one Task. `NamesItsTasks`, `AdoptionsTrue`, `OnlyItsMaker`. The commands are
interchangeable, which is the symmetry used.

**`progression`** — three Tasks in an order that is not that of their numbers; the
first may be sent back once, the second needs an approval; one document damaged
at a time; any number of calls, signals, other engines' steps and repairs.
`DependenciesDone`, `ReportAgrees`, `RerunSame`; `ReportLostByDamageOnly`: the one way
to lose a report is that the file of the Task the command comes to next was damaged
during that call, and nothing else that others do at whatever time; and
`CommandEnds`: other engines can only take a Task forward, so they do not keep
the command from its end either.

## 5. Fairness

Safety properties are checked and proved without fairness. Liveness uses weak
fairness of what the code or the operating system does by itself, and never of
a person, of a fault, or of a Worker that answers:

* `TaskLoop!FairSpec`: `WF(RunStep(e))` for each engine. A run waits only for file
  calls, a timer, or `worker.execute`; that one settles because `CommandWorker` kills
  the child after `timeoutMs`. With two engines this says that each goes on.
* `TaskLoop!RerunSpec` adds `WF(Start(e, t))`: the operator reruns a Task whose run
  returned. Only `OrphanAttached` uses it; `Termination` holds without.
* `CommandWorker!FairSpec`: the handlers that are due run, the timer fires, the kernel
  ends what got SIGKILL. No process ends or closes a pipe of its own accord, which
  is why `TimeoutSettles` has its exception.
* `StateFile!FairSpec`: an update that was begun goes on. A client may begin none.
* `ClaudeFairness`: the `data` and `close` handlers run when they are due. The
  session, its tools and the transport owe nothing: `RejectionEnds` holds because
  of the kill. `CodexFairness`: the probe's timer fires and the adapter goes on
  after it. Session and server may be silent for ever.
* `Progression!FairSpec`: a call goes on (its Roles come back, by `Termination` of
  `TaskLoop`). Nobody else need do anything; nobody repairs.
* `RoutedDispatch!FairSpec`: a command that was started goes on. `WF(Step)` is of the
  whole disjunction: what the step is, is not chosen fairly.

## 6. Proofs

Proved for all values of the constants, from the named assumptions about them
(`UnparsableAssumption`, `LoopAssumption`, `WorkerAssumption`, `StateFileAssumption`,
`CalendarAssumption`, `MessagesAssumption`, `AnswersAssumption`, `WindowAssumption`,
`LedgerAssumption`, `DispatchAssumption`, `AdoptionAssumption`,
`ProgressionAssumption`, and of `RoutingSelection` `ConfigsAssumption`,
`FactsAssumption`, `BoundsAssumption`, `RevisionsAssumption`, `HintsAssumption`,
`ReasonsAssumption`, `NoneAssumption`), which say that bounds are numbers (positive where the
command line demands it), that subsets are subsets, that some saved wording can
be parsed, that months follow each other and that a message or an answer has the fields
its kind has, that configurations passed `validateRoutingConfig`, that two of them
have different revisions (the revision is a digest of the configuration,
`routing-dispatch.js:66-72`), and that the absent value is no override, recovery or
decision; none of them fixes a size.

**`TaskLoopProofs`** — `TypeCorrect`, `DiskAlwaysSound`, `ReviewIdsAlwaysUnique`,
`OneLateWorker`: for any number of engines on any Tasks, with crashes, signals and
saves of prose. `DiskSound` is not inductive: whether a write is sound depends on
the document it was derived from several awaits ago. The invariant adds `Local(e)`:
between load and write, the loaded document is one the store would write and
whose evidence is on disk (`EvidenceMonotone`: Reviews only come, so what was
evidence stays evidence), in the state the point in `run` implies, and the
document about to be written is sound too. `TextIrrelevant` is why a person's edit
of prose does not disturb it. `OneLateWorker` has an invariant of its own: once
a Worker was started late, the run is at it or about to return its error.

Its second part is about what the operator owes the engine. `OneReviewEach`,
`GateKept` and `LifecycleKept` assume, as a condition on the behaviour and not on a
constant, that no Task is run twice at the same time (`[]OneRunPerTask`). The
repository asks that of its operator (`README.md`, "Limits", and
`plans/inter-task-progression/PLAN.md:94`), and without it each of them is false: two
engines can both find no Review and link two, since the comparison of `writeTask`
does not exclude the other. Any number of engines may still run any number of other
Tasks, crash at every await and be started again. `OneRunInv` adds `Knows(e)`: while a
run works, the file differs from its document in prose only (`SameTask`), a run
that has not found a Review has none to find, and the document about to be written
is one step from the one loaded (`Derived`); and `Judged`: an Attempt has at most
one Review, none is for a later Attempt than the Task's, and a Task to be
implemented has none for its Attempt. `Judged` is the part that is about crashes:
between `LinkReview` and `Rename` the Review is on disk and the Task does not know it.
`LifecycleKept` maps every link to a verdict and every rename to acting on it.
`AlwaysContinues` assumes one run at a time over all Tasks, and that nobody leaves a
file that cannot be parsed: ids are allocated over all Reviews, so an engine on
another Task can take the one that a run is about to link (`Unspoiled`).

**`StateFileProofs`** — `TypeCorrect`, `OnePasses`, `OutcomesAlwaysTrue`,
`NothingEverLost`, `Refinement`: for any number of clients. `Guarded`: the client
that created the lock is alone between lock and removal, and from its successful
comparison to the replacement the file is its snapshot. `Fresh`: an update is in
the file exactly from its replacement on, which is what makes the outcomes true.
That a crash leaves the lock behind keeps `Guarded`: then nobody is inside.

**`RoutedDispatchProofs`** — `TypeCorrect`, `LaunchesRecorded`, `ContinuationsSafe`,
`AnswersRecorded`, `RoutesArePaths`, `CompletedStays`, `Implementation`: for any
candidates and bounds. `Path` says what a route looks like: distinct candidates,
all superseded or all but the last failed. `Engaged` ties the command to it: the
row it works on is the last, of its candidate and revision, with a status
expected at that place (`Expected`), where `superseded` is always possible because the
operator may reset in between. `Answered` says that a Task that no longer asks has a
completed row and no command at work. `LedgerStep` describes every effect on
the rows once, and both `CompletedStays` and `Implementation` follow from it.

`OnePasses`, `NothingEverLost` and `CompletedStays` are lemmas of the design that no
run repeats.

**`WorkerProofs`**, the transport — `SettledCalls`, `Implementation`, `InvocationsCounted`: for
any number of engines, calls and sessions, with helpers inside and outside the
group. `Sound(e)`: once a call was killed no process of its group is alive and free
to go on, and while it records nobody has begun to kill it and nobody holds its
pipes; neither flag can be set after `close` was handled, which is what makes it
inductive. `Implementation` maps a call to the five places of `WorkerCall`; a step of
the transport is a step of that call or none. `InvocationsCounted` assumes `OneEngine`,
stated in the theorem, because it is false without: `Counted` says that the file
is the snapshot of the call that is recording.

**`WorkerProofs`**, the adapters — `FirstRejectionAlwaysDecides`: for any set of events, any
number of lines, and any chunks. The property says what a closed output is read as;
the invariant says what the handler has kept while it is still open (`KeptFirst`):
nothing as long as no rejection has arrived, and from the first one on exactly the
lines up to it, with the session dead, so that `written` grows no more (`KeptLines`).
That output has at most one rejection, its last line, so the *latest* rate limit,
which `buildWorkerExecution` looks at, is the *first* rejection (`LatestLimit`).
`CodexDefersOnEvidence`: for any stream, any answers, and any calendar whose years
have the same months, each ending before the next begins. The invariant is
`EvidenceSound`: from the moment the probe settles with a reset, the app-server's two
answers corroborate it (`ServerCorroborates`), and nothing that arrives later
changes them. Without evidence, `MessageAnnounces`: the reset read from the message
is the first instant after the anchor that the message can mean, for a time of day
by the division by the day's length (`ClockNearest`), for a month and day because
every date of a year comes before the next year (`DatesAre`, `DateNearest`); so a
date that the year lacks gives no reset rather than a later one.

**`DecisionLedgerProofs`** — `GuardsSuffice`, `RoutesImplemented`: for any actions,
providers, window, clock and length of the file. The invariant is only that the file
is valid (`Valid`): each write is validated as a whole, so nothing else can get in.
The work is in what a valid file implies. `GuardsSuffice`: for each writer its own
guards imply that validation, so none of its writes is refused by the replay. What
a row counts depends on the rows before it and on the generations whose closure it
sees (`SameReplay`). A new row sees every closure, as its selection did, because it
is later than every change (`RecordCommits`); an event changes no closed generation
(`EventCommits`); a reset closes one, but later than every recorded row, so no old
row sees it (`ResetCommits`). `RoutesImplemented`: in a valid file the current
generation of an action holds the steps 0 to n - 1, each once and in the order of
the file (`Ladder`, `StepRows`), so it is a route, and a record begins or extends it, an
event advances one step of it or none, and a reset ends all of it.

**`PlanAdoptionProofs`** — `PlansNameTheirTasks`, `ReportsTrue`, `TasksKept`: for any
number of commands, plans, proposals and edits. The invariant is about owners.
A command owns the files it has created and neither forgotten nor unlinked, and
a committed adoption owns them for ever (`Own`); no two commands own the same id
(`Owned`), although they allocate the same ones, because a file is created only
where none is. What is in an owned file is its owner's Task (`InPlace`) or one that
was taken back and that an engine, late, wrote again (`Late`). `Accounted` says that
a command has made no other file: it owns it, could not unlink it, or an engine
was writing it. `ActsLocal` reduces the ten steps of a command to three effects
on the files (`Quiet`, `Creates`, `Unlinks`), and every part of the invariant is
proved against those.

**`ProgressionProofs`** — `OrderKept`, `ReportsKept`, `RerunsAgree`, `ReadingsAgree`: for a
plan of any length, with any other engines, decisions, signals, damage and repairs.
`Walked`: the position and the list of completed Tasks agree, and those Tasks are
done; that nobody undoes "done" needs `Judged`, the types and verdicts of the
lifecycle. `Noticed`: a call that is under way found every document readable when it
began, so what is broken now was damaged during it; `ReportsKept` is the step from
that to the one load which nothing catches. `RerunsAgree` compares two calls, so its invariant has
two halves. `Quiet`: while nobody else has touched the repository since a call
began, its position and its reason are explained by the documents (`Explained`).
`Again`: as long as that lasts, the next call only reads, cannot be past the place
where the last one stopped, and finds there what held the last one (`Stands`,
`ComesTo`). `ReadingsAgree` is about `Counted`, the dashboard's own count, a recursive
function over the plan's positions; the report's list is a prefix of it
(`CountedFirst`).

**`RoutingSelectionProofs`** — `FloorsHold`, `OrderHolds`, `SharesHold`, `SelectionsHold`: for any Tasks,
configurations, catalogs, hints, overrides and bounds, with edits, cooldowns and resets
in any order. `SoundInput` is what `selectCandidate` is given; the lemmas about it say
that some candidate is best although fitness compares vectors (`BetterOrders`,
`BestExists`), that the winner's provider is owed most (`ChosenIn`), and that who is
chosen, a pinned candidate too, is at least at every floor (`Selected`). `HistoryIs` maps
the places of the projected history to the kept rows. The invariant: every row
names a candidate of the configuration it was selected under (`Agreed`), a workload of
a later Attempt has a rejection (`Graded`), a completed row is its action's last and
its Task is past it (`Ended`), and a superseded row has no standing row before it in
its action (`Closed`). `Ended` is what `FloorsHold` needs: the Implementer decision
that selection reads is the last row of the Attempt *whatever became of it*, and
only for that reason is it the one under review. For `OrderHolds`, the step the new row
followed is the one whose failure was reported, because two standing rows of an
action have different steps (`StepsDiffer`) and an unchanged revision means an
unchanged tier. `SharesHold` is about all rows before at once: while every choice is
free the deficits of the providers add up to nothing (`CountsTotal`, `TotalScales`), so the
provider that is owed most is not ahead (`SomeShareIsKept`); `Fair` keeps that for the
choice of every row, and the last row of a provider gives the bound. Sums over a
function are written as cardinalities (`Total`), which is what makes them provable.

`SelectionsHold` says that three modules which compute the same things agree, and holds
for edits that keep the candidates, with their providers, tiers and Roles, and the limit
of escalations (`CatalogKept`; the run's edit is such a one). Without it the statement
is false, which is the finding of `catalog`. Of the workload it needs no history:
the nine gates of `rejectionReasons` are those of `expectedRejections`, and that none fails
is `lowerTierConsistent`, which names three more conditions that the gates imply
(`RejectionsAgree`, `LowerTierAgrees`). The selection is rechecked from its own
evidence: the required floor is a tier and no eligible candidate is below it
(`FloorIsTier`), so no fitness exceeds 0, and the ledger finds the winner by the same
deficits (`WinnerAgrees`). For the recorded route two more invariants are needed.
`Routed`: the kept rows of an action are steps 0, 1, 2 and so on, under one revision,
over different candidates, and only step 0 has no reason; a reset keeps it because it
supersedes all live rows of an action at once (`BeforeStands`). `Escalated`: the kept rows
of a Task hold no more escalations than allowed, because what a selection counts in the
history is what the ledger holds (`EscalationsCounted`).

Induction over data is done with the least element that a nonempty set of naturals
has (`MinExists`, `Induction`, from the library's well-foundedness of `<`): a least
counterexample takes the place of the library's induction rules, whose operator
parameter the installed provers cannot instantiate.

Model-checked only: liveness (`Termination`, `OrphanAttached`, `TimeoutSettles`,
`SomeoneCommits`, `RunsEnd`, `RejectionEnds`, `FailureRecorded`, `CommandEnds`), since
fairness and ENABLED are out of the prover's reach.

## 7. Where code and documents disagree

Each is a run that finds a violation; the texts are quoted in `PROJECT.json`.

| Run | Says | Does |
|---|---|---|
| `detached` | cancellation stops the active Worker (`README.md:114-115`) | the transport kills the adapter's process group; the Claude session runs in a group of its own, and goes on working on the repository after the call was killed |
| `rerun` | after `waiting`, rerun progression | under routing, the run that waits leaves its row dispatched, and every rerun refuses it until the route is reset |
| `catalog` | a route reset remedies any change of the configuration | when a candidate used by a completed action is retired, every selection for every Task fails, and nothing can be reset |

Seen while modelling, without a run of their own (paths under `src/src`):

* After a cancellation `run` does not look at the signal before the next Role's
  Worker (`workers.js:191-208`, against `README.md:114-116`): it is spawned and killed at
  once. `OneLateWorker` proves that it is at most one.
* A save between `writeTask`'s comparison and its rename is overwritten and no
  conflict is reported (`documents.js:353-366`).
* Under routing, an edit or a crash between the completion event and the Task
  write (`engine.js:366-386`) leaves an action that can neither be rerun nor reset.
* Two adoptions of one plan can both find `PLAN.md` unchanged (`plans.js:387-390`). The
  plan then names the Tasks of the later one, all of them (`PlansNameTheirTasks`); the
  other has reported its mapping too, and its Tasks stay without a plan.
* `skipDoneSuffix` loads Tasks outside any `try` (`progression.js:374`): a Task that
  became unreadable makes the command throw away its report of the Tasks it
  completed. `ReportsKept` proves that only this does, and only when the file was
  damaged during that same call.
* A capacity wait longer than 2^31 - 1 ms makes Node's timer fire at once
  (`engine.js:304`); an engine whose `retry_at` has passed meanwhile halts as stale.
* Two engines that reuse a selected row both launch it (`routing-dispatch.js:440`): only
  `resolve` refuses a dispatched row. Two that record sessions at once lose a row.
* A child outlives an engine that dies (`workers.js:195`, detached); a helper outside
  the group that keeps the pipe open keeps a timed-out call from settling (the
  exception in `TimeoutSettles`).
* A lock file that a dead process left behind refuses every later update as a
  conflict, until someone removes it.
* A pinned override whose candidate fails only budget gates is refused when no
  other candidate is eligible (`routing-policy.js:1117-1123`, against `README.md:671-674`).
* `queryCodexCapacity` puts no `error` listener on `child.stdin`, as `workers.js:354` does.
  An app-server that answers `initialize` and exits, or is gone before that is
  written, makes the adapter's next write fail (`codex-capacity.mjs:367-369`, 390) and
  end it before it prints, though the failed session was parsed (against
  `README.md:956-959`, and against the fallback to the text in `README.md:984-986`).
* In the Codex adapter: a reset beyond the range of `Date` makes the handler of the
  app-server's reply throw; one after the year 9999 is refused as a time stamp; and
  "Feb 29" has no nearest date when neither usable year has it.
* The README's "re-reads the text captured from the app-server probe" is, in the
  code, the text of the session.

## 8. What is not modelled

* **Initialisation, target inspection, dashboards, argument parsing**: they read, or
  create files in a directory that nothing else uses; no interleaving matters and
  the rest is text.
* **Text**: Markdown and JSON parsing, schemas with exact keys, ids, time stamps and
  wording are reduced to what the properties distinguish. A value that a parser
  refuses is one member of a set (`Unparsable`, `planErrors`, `historyErrors`).
* **Provider workers**: their prompts and arguments, the sums of usage and cost, the
  temporary directories, and a probe's server that ignores SIGTERM. `codex-capacity.mjs`
  and the streams are modelled as far as they decide what is printed.
* **Plans**: the rules that make a plan or a brief's arguments valid, and the Task text
  rendered from a proposal.
* **Windows**: `taskkill` in place of the process group.
* **Time**: capacity delays and clocks are small numbers, in the Codex adapter days of
  two months over three years. The overflow of Node's timer is not modelled.
* **The ledger's `updateOutcome` and `attachOverride`**, which nothing in `src/src` calls.
* **Usage, cost and their sums** in session rows: they add up and decide nothing.

## 9. How to run

```
tlc -workers 2 -config one_engine.cfg  MCTaskLoop
tlc -workers 2 -config worker.cfg      MCWorkers
tlc -workers 2 -config state_file.cfg  MCStateFile
tlc -workers 2 -config ledger.cfg      MCDecisionLedger
tlc -workers 2 -config dispatch.cfg    MCRoutedDispatch
tlc -workers 2 -config selection.cfg   MCRoutingSelection
tlc -workers 2 -config adoption.cfg    MCPlanAdoption
tlc -workers 2 -config progression.cfg MCProgression
tlapm TaskLoopProofs.tla
tlapm WorkerProofs.tla
tlapm StateFileProofs.tla
tlapm DecisionLedgerProofs.tla
tlapm RoutedDispatchProofs.tla
tlapm PlanAdoptionProofs.tla
tlapm ProgressionProofs.tla
tlapm RoutingSelectionProofs.tla
```

`two_engines` uses `MCTaskLoop`, `detached` `MCWorkers`, `rerun` `MCRoutedDispatch` and
`catalog` `MCRoutingSelection`. Each run takes from a few seconds to four minutes.
