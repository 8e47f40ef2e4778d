# A TLA+ model of claude-bs-skill

This directory holds TLA+ specifications of the parts of claude-bs-skill that
keep state across processes, failures and retries, the TLC configurations that
check them on small instances, and proofs checked by TLAPS. Paths below are
relative to the root of the repository (`src/` in `PROJECT.json`).

| file | what it is |
|---|---|
| `Lease.tla` | the abstract lock: what `evolve-lock.py` promises |
| `EvolveLock.tla`, `MCEvolveLock.*` | `evolve-lock.py` step by step, with the turns and the staged runner that use it |
| `EvolveLockProofs.tla` | its invariants and the refinement of `Lease`, proved |
| `Delegation.tla` | the abstract delegation: what the caller of the driver may rely on |
| `CodexDriver.tla`, `MCCodexDriver*` | `runtime/codex_driver.py` and the app-server child it drives |
| `CodexDriverProofs.tla` | that it reaps what it started, that its success is earned and that it is a `Delegation`, proved |
| `FixRounds.tla` | the abstract fix loop: what `contract.md` says of the rounds |
| `FixLoop.tla`, `MCFixLoop*` | Grade, `reshape_fix_round.py` and `conduct.sh --fix-round` |
| `FixLoopProofs.tla` | its safety properties and that it implements `FixRounds`, proved |
| `StepEvents.tla`, `MCStepEvents*` | `step_events.jsonl`: its writers in `lib/events.py` and its three readers |
| `StepEventsProofs.tla` | that the readers agree, proved |
| `Backlog.tla`, `GradeLint.tla` | `lib/backlog.py`; what `grade_lint.py`, `grade_verify.py` and the merge gate make of a grade |
| `TaskBoard.tla` | the abstract board: what the commits on main say of the tasks |
| `TargetCycle.tla`, `MCTargetCycle.*` | a target repository under its turns: pin sync, start, merge, close and resume of a cycle |
| `TargetCycleProofs.tla` | that the close is atomic and the merge is earned and not forgotten, proved |
| `TargetFilesProofs.tla` | that pin and digest stay a pair, the marker follows the backlog, turns leave a clean tree and main is a `TaskBoard`, proved |
| `Closure.tla`, `ReleaseGates.tla` | `closure.py` and `skill-release-dedup.py`; the backtest and the gates of a release |
| `ReleaseHistory.tla` | the abstract history: what everybody sees of the skill's releases |
| `SkillRelease.tla`, `MCSkillRelease*` | the skill repository under the projects of a fleet: init, Stage 4, `release.sh`, `rollback.sh` |
| `SkillReleaseProofs.tla` | the safety of `SkillRelease`, proved: tags, fleet, items, backtests and closed ledgers, and the refinement of `ReleaseHistory` |
| `NaturalOrder.tla` | two lemmas on least and greatest elements, for the proofs |
| `PROJECT.json` | the runs, the mutants, the map from definitions to lines, the hazards |

## 1. Inventory

The repository is a skill: prose commands (`commands/bs.md`,
`commands/bs-evolve.md`) that a coding agent executes, and helper programs that
do whatever must not be left to prose. There are two subsystems. They meet in
the pinned version of the skill in a target repository, and in the turn of the loop
that starts a cycle there.

### A. The `/bs` cycle runtime

One `/bs` run takes a backlog task through shape, conduct, verify, grade, a
bounded fix loop, a pull request and the ledger. All state is files in a cycle
directory and a git worktree, because any process of a run can die and
`/bs resume` must go on from what is on disk.

| component | state | operations | should be true |
|---|---|---|---|
| `runtime/codex_driver.py` | child process group, two pipes and their buffers, requests, observation of the turn, `ACTIVE_CLEANUP` | launch with retries, JSON-RPC requests, wait for the turn, kill policies, nudge, oracle, signals, `kill_proc` | attempts never overlap; nobody outlives the driver; exit 0 is earned; it ends |
| `runtime/conduct.sh` | `PRE_HEAD`, evidence, result line | fix-round guard, driver run with one clean-home retry, alignment and uptake gates | no fix turn without a re-shaped capsule; a misaligned round is rejected |
| `runtime/reshape_fix_round.py` | `outcome.md`, `outcome.v<g>.md`, `fix_round_<R>_alignment.yaml`, grades | `reshape`, `check_alignment` | re-runnable after a death anywhere; no capsule lost; bounded, decreasing rounds |
| `lib/events.py`, `runtime/validate_events.py` | `step_events.jsonl` | append started/terminal/repair; `attempt_states`; `validate` | one end per attempt; the same reading for every reader |
| `runtime/preflight.sh` | none; reads events, git, backlog | startup gate, close-gap probe | refuses to start over an unfinished cycle; a merged PR is not forgotten |
| `runtime/sync_status_marker.py` | marker in a status file | replace the marker, run the hook | marker and hook agree after a failure |
| `lib/backlog.py`, `lib/binding.py` | backlog YAML | validate, next task | one task in progress, its dependencies completed |
| `runtime/grade_verify.py`, `runtime/grade_lint.py` | evidence files | run the binding's commands; lint a grade's text | an unearned grade is not merged |

Interactions: the session (`commands/bs.md`) writes grades, calls
`reshape_fix_round.py`, then `conduct.sh`, which runs `codex_driver.py`, which
drives a `codex app-server`; the turn changes the worktree; `conduct.sh` diffs it
and calls `reshape_fix_round.py` again to check alignment.

Hard: deaths between and inside the helper's three writes; retries; a child
that dies, answers late, floods or goes silent; several lines in one pipe chunk;
signals in the middle of the handshake; grandchildren outliving their leader; an
event log with holes, repaired after the fact, that three programs parse by rules
of their own; a close that is two file writes, a marker, a hook, a commit, a push and an
event, on a work tree and an index that another turn's pin sync commits from.

### B. The `/bs-evolve` harness (`harness/evolve-loop/bin`)

A self-rescheduling loop, one per target repository, that reviews, improves and
releases the skill itself. A turn of the loop is short-lived; the next wake starts
from files.

| component | state | operations | should be true |
|---|---|---|---|
| `evolve-lock.py` | `RUNNING.lock`/`SKILL.lock` and their `.guard` | acquire, heartbeat, release, status | one valid lease; recovery after deaths |
| `loop-guard.sh` | `STOP` file | STOP check in front of the lock | STOP stops |
| `loop-state.py` | loop state JSON | counters, cooldowns, should-stop | no lost update; the loop stops when due |
| `run-codex-staged.sh` | `inflight/<stage>.json`, a detached process group | spawn, record, poll, stall kill | a live stage has a record; a finished one has none |
| `closure.py`, `skill-release-dedup.py` | review directories, done marks | newest open review, claim and mark items | nothing released twice or starved |
| `release.sh`, `release-plan.py`, `release-gates.py`, `rollback.sh`, `verify-manifest.sh`, `backtest.py`, `grade-fixture-walker.py` | skill repository, remote main and tag | gate, commit, tag, push, roll back | a failed release can be retried or rolled back |
| `pin-sync.py`, `fleet-update.py`, `fleet-stop.py`, `skill-read-ref.py`, `adopt-cycle.py` | pin in each target | sync, push, stop | the pin reported as current is pushed |
| `migrate-inplace.sh`, `bs-evolve-init.py`, `bs-evolve-config.py`, `bs-evolve-gitignore.py`, `retry-jitter.py` | target tree | one-shot set-up | a failed set-up can be repeated |

Hard: the lock outlives its owner in both directions (the owner dies, or it is
slow and loses it); a staged codex run lives in its own process group and
survives turn and runner; git operations fail between steps; several projects share one
skill repository, each with a ledger that says what it has done there.

`PROJECT.json` lists the hazards, each at its line. Those with properties are
what the modules below check; the others have a note that says why no property covers
them.

## 2. Plan

Done, most important behaviour first:

1. `Lease`, `EvolveLock`: mutual exclusion of the loop. Proved.
2. `Delegation`, `CodexDriver`: process lifetime, protocol races, the success oracle and
   the meaning of the exit codes. Safety and refinement proved.
3. `FixRounds`, `FixLoop`: the crash-prone file protocol of the fix loop. Safety and
   refinement proved.
4. `StepEvents`: the log a cycle is resumed from, and the agreement of its
   readers. Proved.

5. `Backlog`, `GradeLint`, `TaskBoard`, `TargetCycle`: the cycle from pin sync to close as
   states of work tree, index, HEAD and origin, with the close-gap probe. Safety and
   refinement proved.
6. `Closure`, `ReleaseGates`, `ReleaseHistory`, `SkillRelease`: the releases of a fleet,
   their gates, ledgers, failures and retries, rollback and init. Safety and refinement
   proved.

Left, in this order:

7. The staged runner's poll loop and stall kill against a stage that completes, with
   `loop-state.py` and the STOP file, around `EvolveLock`.
8. `migrate-inplace.sh` and the remaining steps of `bs-evolve-init.py`, if the
   files they leave half-written turn out to matter to what runs later.

Bounds of what is left follow the same rule as below: two actors, two deaths or
failures, and one more retry or round than the code needs to reach its limit.

## 3. The modules and the code

### Lease and EvolveLock

`EvolveLock` models one lock file. A caller (`Proc`) is a turn of the loop; its
token is its own name, as tokens are random and never repeat. `pc[p]` says
between which two file-system operations its helper call stands:

    acquire    StartAcquire EnterGuard AcqCreate AcqWrite AcqReturn
               AcqStat AcqInflight AcqReplace AcqRecreate
    heartbeat  StartHeartbeat EnterGuard HbCheck HbReplace
    release    StartRelease EnterGuard RelCheck RelUnlink

`lock` is the file: absent, `Torn` (created but not yet written), or an owner's
token. `guard` is the flock on `<lock>.guard`; the kernel drops it when a helper
dies. `age` is the time since the mtime, `token`/`lease` what a turn believes
and when it last wrote the file. `stage` is the turn's staged codex run as the
lock can see it: no record yet, recorded, or left behind by a dead runner.
`Crash` ends a turn or a helper call at any point, `RunnerDies` the runner.

Time is relative and stops at `StaleSec`, past which `acquire` no longer tells
ages apart; this makes the state space finite without a bound on time.
`os.replace` and the write of the JSON payload into the new file are atomic steps;
the file is empty between create and write, which is what a death there leaves.
A clock set back, or an unwritable directory, is not modelled.
`acquire`'s `race_lost` answers need somebody to delete the file without the
guard; nobody does.

`Lease` says the same without files: a holder, who believes to be the holder,
and whether the lease has run out. `ImplementsLease` is `L!Spec` under the mapping
holder = token in the file, believers = turns with a token, expired = age at
the limit.

### CodexDriver

One run of `codex_driver.py`. `pc`/`req` are the control state: `launch`, `await`
(inside `read_response`, for request `req`), `wait` (inside
`wait_for_turn_completion`), `kill`, `exited`. `cur` is the launch attempt, with a
child `srv[cur]` and possibly other members of its process group `kids[cur]`.
Lines pass through `pipe` (what `select` sees) and `buf` (the `TextIOWrapper`'s
buffer, which it does not see). Timers are nondeterministic: `AwaitTimeout`, `Inferred`
and `PolicyKill(p)` may strike whenever the loop would test them. `seen` is the read
marker in the first turn's observation, the one that counts.

`readline` returns whole lines only. A line that the child has begun and not ended makes
the stream readable and holds the driver there: `stuck`, between `ReadBlocks` and `Unblocks`,
when no timer is tested, the child is not polled and nothing but a signal can happen to the
driver. The rest of the line comes when the child sends it, or the stream ends when nobody in
the group holds it open.

What comes out of a line may be no JSON object, or a line may be no text (`ReadRaises`), and
a response may lack what the driver takes from it: no `thread.id`, or a goal result that is
no object (`Serve`'s `nokey` and `badtype`). `launch_and_handshake` turns the first into a
launch failure; the others raise `AttributeError`, `TypeError` or `UnicodeDecodeError`, which
none of its except clauses names. In the handshake such an exception ends the driver with
exit 1 and the child alive, known to the handlers or not, since `main`'s `try` begins only
afterwards (`Raised`; the history variable `cut` remembers it, as it does a signal that finds
no handler for this child). Later `main`'s `finally` cleans up and kills the group, and
`cleanup_thread` catches what its own requests raise.

The child (`Serve`, `TurnShowsMarker`, `TurnAnswers`, `TurnEnds`, `AgentSetsGoal`,
`ChildForks`, `ChildExits`) is external: it answers each request or fails it,
emits notifications in order, may fork and may die. stderr, telemetry and
evidence files are left out, they decide nothing; so is the progress-suspect
logic, which is observe-only. A child that ignores SIGKILL is not modelled, nor one
that does not empty its stdin, nor an evidence file that cannot be written.

`Delegation` is what `contract.md:211` tells the caller: attempts that follow one another
until a turn is acknowledged, and an exit code that says how far the driver got.
`ImplementsDelegation` is its `Spec` under the mapping attempt = `cur`, writers = the
attempts whose group is alive, known = the handler holds the child of this attempt
(`active = cur`), code = the verdict once it is one, and a phase read off position and
verdict: `working` while a turn is waited for or checked, `ending` once there is a verdict,
`over` at the exit, else `launching`. Lines, queues and requests are gone. What the driver
leaves behind when it is cut short, by a signal or by an exception, is in the abstract
specification too (`CutShort`).

### FixLoop

The fix loop from the first Conduct to closure or escalation. `pc` follows the
session: `turn`, `gate`, `verify`, `decide`, then `reshape`, `archive`, `write`,
`sidecar` (the positions of `reshape_fix_round.py` between its writes) and
`conduct`. The capsule is its set of round markers, a grade its P0+P1 count, a
diff the set of its files. `Check` is everything `reshape` tests before it writes;
`Copy`, `Write` and `WriteSidecar` are its writes. `HelperDies` stops it at any of
them, leaving the file alone or cut short: `write_text` truncates and then writes
once, so a capsule cut short is an empty one and has no markers. `Launch` is
`conduct.sh`'s guard and its `PRE_HEAD`; `TurnChanges` and `TurnCommits` are what
codex does to the worktree; `Pass`, `Misaligned` and `ZeroUptake` are the two gates.
Whether the uptake gate finds a probe is data, so its verdict is nondeterministic.
`Again` and `Justify` are the session's answers to a failed or rejected round.

The session is an agent that follows `commands/bs.md`; it does not edit
archives or markers by hand. A new Grade is written at once.

`FixRounds` is the loop as its contract tells it: a round is judged once, closes at 0,
goes on only below the limit, and is worked on only with a capsule of its own, which is
re-shaped in one step, after counts that fall, and leaves every earlier capsule readable.
`FixLoop` implements it (`ImplementsFixRounds`): `Phase` reads the phase off `pc`, the
round is `fix`, `Counts` are the grades there are, and `Kept` the capsules that can be
read whole, in `outcome.md` or in an archive. `Write` is the step that re-shapes;
`Check`, `Copy`, `WriteSidecar` and every death are no step at all.

### StepEvents

One log. `append_event` does not look at the log it appends to, so any event may
follow any other: a helper failed, a session died, an attempt was taken up
again. `Append` and `Repair` write a line, and each of the three readers takes it
in at once. This loses nothing, since each reader is one pass over the lines in
order, and says of every log and of every prefix of it what the reader holds:

| | code | state |
|---|---|---|
| `Ev...` | `attempt_states` (resume) | `evStates`, `evOpen` (`open_lines`), `evOrphans` (`orphan_terminals`), `evErr` (has raised) |
| `Val...` | `validate` (the gate of Step 10) | `valStates`, `valOpen`, `valOrphans`, `valErr` |
| `Pre...` | `step_event_state` (the probe) | `pre`, `preErr` |

`EvAccepts` and `ValAccepts` are the checks at the end of the log, `ValAcceptsOpen`
the one with `--allow-open-current`. The code of the two strict readers differs and
so do the definitions: only `attempt_states` has an `in_progress` state, only
`validate` compares times (`Timing`: `back`, the clock has been set back since the
last append; `ahead`, the caller's `occurred_at` is later than the `recorded_at` that the
helper writes beside it; else `due`), and only `validate` reads the file line by line, while the others use
`splitlines`, which also cuts at separators that `json.dumps(ensure_ascii=False)` does
not escape (`split`: the event has one in a text). `genuine` is whether a repair
names the right hash. The fields of an event are data, except the attempt;
`starts`, `terms`, `repaired` and `mistimed` are history for the properties. The
helpers stop once both strict readers have raised: nothing further can matter.

### Backlog, GradeLint and TargetCycle

`TargetCycle` is the target repository of one project. The tracked files are a record
(`Files`): the backlog, the number of ledger rows per task, the task in the status
marker, the pin `.bootstrap/contract.sha256` and the digest in `.bootstrap.yaml`. There
are four copies: `work`, `index`, `head` and `origin`. `ahead` and `behind` say
which of HEAD and origin/main has commits the other lacks; a push needs `~behind`,
the pull after a merge fast-forwards unless both hold. The code changes of a PR are
left out: only that origin moved. `mirror` is what `post_sync_command` last
made of the marker, `contract` the version of the skill's `contract.md`, `verify` what
the binding's verify block says of code.

`pc[w]` takes a turn `w` through

    Step 0      Begin SyncCheck SyncWrite SyncBoot SyncAdd SyncCommit SyncClean
                SyncPush   (pin-sync.py, before the lock)
    lock        Acquire Release
    start       Select Refuse Resume StartEdit StartAdd StartCommit StartPush
    middle      Graded Escalate OpenPr Merge Pull
    Step 10     Close WriteLedger WriteBacklog SyncMarker Hook Stage Commit
                ClosePush Finish, or Revert

and `Die` ends it anywhere, `PushFails` fails its push, `GitFails` its `git add` or
`git commit`, `NewContract` changes the skill under it. When git fails it, `pin-sync.py`
raises (`check=True`, lines 100 and 103) and leaves what it wrote and staged, a start ends
with its edit in the tree, and a close goes to its `Revert`, with the marker written and the
hook called (`bs.md:68`, `contract.md:197`). `saw` and `kept` are pin-sync's memory: the contract it hashed and the two
files it would restore. `cycle[t]` is the cycle directory: whether `auto_merge_gate.yaml`
says merge, and the last word of `step_events.jsonl` (`open`, `step_7` started, `merged`,
`step_10` started, `failed`, `closed`); `StepEvents` checks how that word is read.
`merged`, `flaws` and `cut` serve the properties; `cut` names the phases that did not come
to their end, by a death (`sync`, `start`, `close`, `other`), a failed git command
(`syncGit`, `startGit`, `closeGit`), a failed hook or an overlap of two pin syncs.

Each guard is one of the code's: `CloseGap` is `preflight.sh`'s close-gap probe,
`Bound` is `binding.validate`, `MayStart` the preconditions of `commands/bs.md:9-20`,
`Checked` the early returns of `pin-sync.py`. A commit is always of the whole index,
because neither `pin-sync.py:103` nor the prose gives a pathspec. `Revert` puts ledger and
backlog back (`commands/bs.md:68`), the marker's file or not: `contract.md:197` says
"close-commit files", bs.md "those two files".

`Graded` takes any grade of a set and asks `GradeLint.Gate`. A grade is the verdict
rows of its blocks: for each acceptance id one row of the compliance matrix and of the
negative tests, for each adversarial id one check, the secret and dependency rows, the
counts. What is asked of it (`Required`) is the acceptance list of the outcome, or, where the
parser reads no id from that, the ids and severities of the Grade's own `acceptance_status`
(`grade_lint.py:2854`): `Graded` takes both readings. `Lint` is the rules of `grade_lint.py`
for code of medium or high risk. Some
fifteen of its rules look for words in a row's claim and evidence; they have one shape,
which is modelled once (`FacetsShown`), and whether the words are there is a fact of the
row. `VerifyStatus` is what `grade_verify.py` can answer for a verify block.

`TaskBoard` is what everybody else may rely on: the backlog and the ledger in the last
commit (`board`), in origin's last commit (`shown`) and the merged tasks. The rest, four
copies of five files and the steps of two turns, is gone. `ImplementsBoard` maps `board` and
`shown` to the two files in `head` and `origin`; a `SyncCommit` that takes along what the
turn in the cycle has staged is a `Start` or a `Finish` of the board.

Assumptions. A live turn's lock is not taken over (`EvolveLock` has the slow owner,
and what it may do). The steps of a helper call on the lock are one here. One cycle
directory per task, so a second cycle of an escalated task is not modelled. Nobody edits
tracked files by hand between the turns. The reverts of a failed close succeed, and
the validation after a close that is committed and pushed finds nothing.

### Closure, ReleaseGates and SkillRelease

`SkillRelease` is the skill repository under several projects. A history is the sequence
of commits behind a ref, and a commit says which items of a review it implements, which
it reverts, whether it brings a fixture and the version it bumps `skill.yaml` to. `main`
is origin/main, `canon` the canonical checkout's HEAD, `tags` the local tags, `published`
those on origin. Of the release tags every worktree of the repository sees all, so
there is one map. `ledger[p]` is project p's `closure.yaml` as `Closure` has it: which
stage keys are set, which items are done, covered or escalated. `plan`, `tree` and
`todo` belong to Stage 4: the frozen baseline and candidate, the private worktree
with its anchor and its uncommitted change, the items left by the dedup. Plan and items are
one turn's; worktree, ledger and `report[p]`, the cycle's `backtest_report.yaml`, stay where a
turn that ends, or dies, leaves them. So `Worktree` adds a fresh one, off main or off the
canonical checkout, or goes on in the old one with the items that are committed there
(`bs-evolve.md:235-236`), and `Gate` takes the report that is there.

`Seed FleetRead FleetReplace` is `bs-evolve-init.py` under SKILL.lock; `Open` and
`Advance` the ledger's other stages; `ReleasePlan Dedup Worktree Implement Bump RunBacktest
Gate Tag PushMain PushTag Record` is Stage 4 with `release.sh`; `Revert PushRevert` is
`rollback.sh`; `Pull` the operator's. `Implement` knows both commit models of
`release.sh`: everything uncommitted, or one commit per item, which is when an item can
be marked done. `ReleaseGates` has the report of `backtest.py` and the three checks of
`release-gates.py`. `RunBacktest` writes a report of the tree as it is, `Gate` reads one:
G4 compares its baseline with the plan's and nothing else of it with the tree, and wants
every misfire adjudicated as a true positive and verified; one that is a false positive, not
verified or not adjudicated refuses the release (`Adjudications`). Which commits the near-miss
check looks at depends on whether `--anchor` was given: since the anchor, or since the latest
tag that the worktree has (`InferredBase`). G1 to G3 and G2b are green or red (`GateFails`).

`holder` is SKILL.lock. It is taken with what `Lease` promises: `Acquire` finds it free
or its owner dead; `Overrun` is the slow owner, who goes on without its lease until it
notices (`LoseLock`); `overrun` remembers it, since some promises end there. `Die` ends an
actor anywhere; `DieSaving` ends it inside `closure.py`'s `write_text`, which leaves an
empty file, which loads as `{}` and says what a fresh ledger says (`torn` remembers that).
`Veterans` are the projects that have been initialised before, `Late` the actors whose lease
can run out: they tell the runs which part of the story to explore.

`ReleaseHistory` has `main`, `tags` and `published` and nothing else, and says what may become
of them: no lock, no project, no item. `ImplementsHistory` maps the three to themselves.

Assumptions. An anchor that is given to `release.sh` is where the worktree was branched off,
also by the turn that goes on in it; and no two projects share a worktree. A project walks one corpus cycle. What an item is (its id, whether it is
deterministic) does not change; that codex implements it as asked is data.

## 4. The runs

| run | checks | bounds |
|---|---|---|
| `evolve_lock` | `TypeOK`, `LeaseExclusive`, `RecordFencesTakeover`, `LockCallReturns`, `AbandonedLockRecovers`, `ImplementsLease` | two turns, stale after two ticks, two deaths |
| `driver_reap` | `Reaped`, `ImplementsDelegation` | one retry, one signal, three kill policies, a child that may fail, write nonsense or half a line |
| `driver_oracle` | `TypeOK`, `SuccessIsEarned`, `Terminates` | no retry, a nudge, wall-clock policy, a child that may fail or write half a line |
| `fix_loop` | `TypeOK`, `LaunchIsReshaped`, `MisalignedIsRejected`, `ImplementsFixRounds`, `ArchivesAreFinal`, `JustificationSticks` | three rounds (the code's limit), counts up to 3, two files, two deaths |
| `step_events` | `TypeOK`, `GateAgreesWithResume`, `ProbeAgreesWithGate`, `TerminalsAreAccounted` | two steps, two attempts of each, logs of up to four lines |
| `target_cycle` | `TypeOK`, `LedgerAndBacklogTogether`, `LedgerOnce`, `OneInProgress`, `MergedIsGraded`, `MarkerFollowsBacklog`, `CloseGapIsReported`, `QuietIsClean`, `PinPair`, `ImplementsBoard` | two turns, three tasks, two backlogs, two of new contracts, deaths, failed pushes and failed git commands |
| `skill_release` | `TypeOK`, `ItemsOnce`, `RuleIsBacktested`, `ClosedIsHandled`, `RuleCanPass` | two initialised projects, three items, two corpus cycles, versions up to 3, one death, torn ledger or failed push, one rollback |
| `skill_history` | `TagsAreOnMain`, `TaggedAsPushed`, `FleetKeepsAll`, `ImplementsHistory` | two new projects with an item each, versions up to 3, one death, torn ledger, failed push or lost lease, one rollback |

Why these are enough. Two turns suffice for the lock: every property relates at
most two, and the critical section admits one. Two ticks make "young", "in
between" and "stale" distinct; two deaths kill an owner and its runner, or an
owner and the one that takes over. The proofs confirm the safety part for all
values. For the driver one retry gives every pair of consecutive attempts; the
retry and the nudge do not interact (a nudge follows a launch that succeeded),
so they are checked in separate runs to keep each small; what is no JSON-RPC ends an attempt,
and is in the run with the retry. Three rounds with counts
up to 3 are the longest strictly decreasing sequence the limit allows, and two
files are one locus and one other. Four lines are an orphan, a start, a repair
and a second end of one attempt, or two attempts with a pair each; the proofs cover
longer logs. Of the two steps the probe reports one only. The lock has no other
bound than `MaxCrashes` (deaths), `FixLoop` that and `MaxBlocking` (largest count),
`StepEvents` has `MaxAttempt` and `MaxLines`, `CodexDriver` the retries and
`MaxSignals` (`BadShapes`, `PartialLines` and `ServerMayFail` switch a kind of child on). The cycle has `MaxEvents`, the release `MaxVersion`, `MaxFaults` and one rollback.
In `target_cycle` two turns are a close under RUNNING.lock and a pin sync outside it, or two
pin syncs, and the third wake of a story is one of the two again. Three tasks are one to
close, one that waits for it and one beside; two events are a new contract and a
death, a failed commit and another, or a death and a death of the recovery. The grades are a good one changed in one
row, check or count, and in the two rows and the stated severity of one id: a rule of the lint
looks at one id at a time, so one acceptance id is enough. In `skill_release` the projects
share one rule item, which also fires on a corpus cycle it is not meant for; the other
items are one that is no rule and one for a human. Versions up to 3 are one release of
each project, and a fault leaves a tag, an item, a worktree, a report or a ledger for a
second run of either to find. `SeedFails` and `GateFails` are no faults and may strike at
will. `skill_history` has the rest of the story, which multiplies with it: the inits, and
a lease that runs out under any actor, so that two are at it at once. Its items are no rules
and nobody backtests: its properties do not tell items apart, and more gates only refuse more.
The symmetry sets are `Files` in `fix_loop`, the turns in `target_cycle` and, in
`skill_history`, the two projects with their items: these runs check no liveness.

`CHECK_DEADLOCK FALSE` stands in all runs but the lock's: a driver exits, a fix loop
closes or escalates, a log reaches its bound, a backlog is worked off and the versions run
out; the lock runs on for ever.

What they show:

* `LeaseExclusive`: no two turns believe within the stale limit that the lock is
  theirs. A turn past the limit may, until its next heartbeat or release tells it
  otherwise: between heartbeats the protocol has no fencing of its own.
* `RecordFencesTakeover`: an inflight record written in time, while the owner's lease is
  valid, keeps the lock its owner's through any deaths. One that an owner past its lease
  writes between the taker's record check and its replace does not. Its price is in `AbandonedLockRecovers`: recovery
  is certain unless a dead runner's record is left, which must be resumed by hand.
* `LockCallReturns`: no call waits for ever on the flock, whoever dies.
* `Reaped`: nothing is left running, unless the handshake is cut short by a signal that
  finds no handler for this child, or by an exception that `launch_and_handshake` does not
  name: a line or a goal result that is no object, bytes that are no text.
* `ImplementsDelegation`: two attempts never share the worktree (`OneGroup` says that
  directly, and is proved); a turn that was acknowledged is never launched again, whatever
  fails in it; 3 means that all launches failed, 4 that the launch was refused, and neither
  can come of a turn, nor 0, 6, 7 or 8 of a launch. 1 can come of both: it is what an exception gives
  that nobody catches, in the handshake or in a turn. Likewise 2, of a failed turn or a signal. A turn
  whose acknowledgement was lost is launched again, but only when its group is dead.
* `SuccessIsEarned`: exit 0 means goal complete and the read marker in turn 1.
* `Terminates`: with `--on-wall-clock-limit fail` the driver ends even if the child never
  speaks, unless it waits in `readline` for the end of a line that a living child has begun.
* `LaunchIsReshaped`, `ArchivesAreFinal`: the order archive,
  capsule, sidecar and the partial-state errors make every re-run safe.
* `ImplementsFixRounds`: a death between or inside the helper's writes, and any number of
  re-runs after it, look like one atomic re-shape; at no moment is a capsule lost, so
  the one a death has cut short is in the archive (`CapsuleIsRecoverable` says that
  directly, and is proved). The mutant writes the marker before it archives.
* `MisalignedIsRejected`: the gate does what its code says; a lost sidecar opens it.
* `JustificationSticks`: a re-run never drops an author's justification.

* `GateAgreesWithResume`: what the gate lets through, resume reads without an error
  and to the same states, unless an event is cut in two by `splitlines`; the gate
  refuses more than resume only where the clock went back or a caller gave an
  `occurred_at` that is later than the append. Both exceptions are real:
  a reason that quotes U+2028 passes the gate and breaks resume, and a log with one
  line out of time, of either kind, can never be closed.
* `ProbeAgreesWithGate`: the probe's last-event reading is as good as strict pairing on
  every log the gate accepts, repairs and retries included.
* `TerminalsAreAccounted`: repairs and appends in any order account for every end.

* `LedgerAndBacklogTogether`: no commit has half a close, though pin-sync of another turn
  commits whatever is staged: the two files are staged by one `git add`.
* `LedgerOnce`: a failed close, retried, leaves one ledger row. A death between the ledger
  write and the commit leaves a row that the recovery writes a second time: the named
  exception.
* `OneInProgress`: one task at a time on main, dependencies first, for all
  interleavings of start, revert, death and resume.
* `MergedIsGraded`: no merge without a verified grade that covers every id and fails no
  P0 or P1, but for three ways the code leaves open: a row's own `severity_if_fail`
  overrides the outcome's severity (`grade_lint.py:954`, `lowered`), a failing
  `acceptance_status` is not compared with the counts (`overlooked`), and where the parser
  reads no id from the outcome the Grade's own list is all that is asked for, so an id it
  does not name, or names with a lower severity, is not (`unread`). An empty verify list, which
  `grade_verify.py` takes for a pass, never gets that far, because `binding.validate` refuses it.
* `MarkerFollowsBacklog`: what is committed names the next task; what the hook made
  of it agrees too, unless a hook failed or a close was cut short, by a death or by
  its commit. That exception is permanent: the retry finds the marker unchanged and skips
  the hook (`sync_status_marker.py:160-164`). After a failed close commit not even what is
  committed is sure: the marker may stay staged, and a pin sync commits it.
* `CloseGapIsReported`: wherever a turn dies after its merge, the probe finds it and no
  other cycle starts, until the work tree's backlog says otherwise.
* `QuietIsClean`: a turn that is not cut short, by a death, a failed git command or a
  failed hook, leaves nothing for the next to trip over, unless two pin syncs overlapped.
* `PinPair`: the committed pin and digest belong together unless two pin syncs overlap:
  Step 0 runs them before the lock.
* `ImplementsBoard`: no step of two turns, no death and no foreign commit shows main a task
  that is started but not next, finished but never shown as started, or finished without
  its row; nor does a close touch another task. What the probe, the merge gate and the
  next wake read off origin is therefore always a state of this board.
* `TagsAreOnMain`, `TaggedAsPushed`: with deaths, failed pushes and an overrun lease, what
  is on origin under a version is on main, under its own tag, and what a project put on main
  is below the tag of a version: no commit of a kept worktree comes there untagged. (The
  bump is taken for the release's last commit; `release.sh` with a commit per item asks
  only that HEAD's tree has it.)
* `ItemsOnce`: two projects that want an item get it on main once, unless it was rolled
  back or a lease ran out.
* `RuleIsBacktested`: no rule reaches main that was not in a tree whose backtest fired, though
  a turn may go on in an old worktree, do without `--anchor` and pass with an old report.
  What makes it so: a kept worktree keeps its anchor, so its rules count as changed, and a
  report of this baseline was made of a tree that had them, unless a truncated ledger had
  them left out (`torn`). No such thing can be said of the near-miss fixture: see below.
* `ClosedIsHandled`: a closed ledger has no item that is neither on main, nor with a
  human, nor marked done. The third is needed: an item is marked done when it is
  committed to the worktree, and if the release dies after that, the next run writes the
  `no_release` sentinel and closes, where `closure.py:7` has leftover work "impossible by
  construction".
* `RuleCanPass`: a rule that fires on its target passes G4 with a backtest of the worktree, if
  each of its misfires is adjudicated as a true positive and verified. Misfires that are not
  refuse it, as they should; beyond that it is refused, and for ever, in two cases:
  a local tag of a cut-short release holds the rule (`release-plan.py:32-38` reads local
  tags, `release.sh:119` tags before it pushes), or it was rolled back.
* `FleetKeepsAll`: no completed init is lost while leases are kept.
* `ImplementsHistory`: also with an overrun lease and two releases at once, versions are
  tagged in order, main moves forward only, and a pushed tag never changes. The abstract
  specification does not know the lock: git's refusals alone give all this.

Four runs find what the repository says of itself violated by the code:

* `driver_signal`: `contract.md:229` promises reaping on every exit path. The handlers
  are installed after `thread/start` has answered; a SIGTERM before that, or
  during a retry, leaves the child's group running. An exception in the handshake that
  none of `codex_driver.py:1012-1027` names does too.
* `driver_buffered`: `turn/completed` read into the text buffer with an earlier line
  is not seen by `select`; without a kill policy the driver waits for ever
  (`tests/test_codex_driver.py:574` expects exit 0). A driver fed both lines
  in one write hangs in the same way.
* `fix_own_diff`: `contract.md:97` says that the gate rejects a round whose diff
  touches none of its loci. The diff is of the whole worktree against
  `PRE_HEAD`, so uncommitted changes of earlier rounds count.
* `step_events_ends_once`: `contract.md:102` gives an attempt one end. An orphan
  `failed`, a redo's `started`, the repair of the orphan and `completed` pass both
  strict readers (running them on such a log confirms it): the repair branch asks
  whether the state is terminal, and `in_progress` is not.

Other things met while modelling, which no run is about. Where they matter to a module they
are in it.

* After an inferred completion the first turn's late `turn/completed` ends the wait for the
  nudge turn (`codex_driver.py:911-919` compares no turn id), so the goal is read again while
  that turn has not run; `codex_driver.py:1046` says that it is waited for. It costs a
  success that would have come: `SuccessIsEarned` holds all the same.
* The wall-clock limit is tested between two reads. A child that hangs in the middle of a line
  holds the driver in `readline` past it (`codex_driver.py:890-897`, and `576-578` past the
  deadline of a request), where `contract.md:65` has "hard wall-clock termination".
* `docs/bs-evolve-stage-b-remediation.md:33` has pin-sync restore its two files on any failure
  after the write; a failed validation does, a failed `git add` or `git commit` does not. The
  next pin-sync takes the two for current, and preflight refuses the dirty tree.
* Without `--anchor` a fixture that `bs-evolve-init` committed on the canonical checkout since
  the last tag passes for the near-miss fixture of a rule, if the worktree was branched off
  that checkout (`release.sh:106-107`), which is what
  `docs/bs-evolve-implementation-spec.md:88` excludes.
* A pin sync's commit can take along the close another turn has staged; that turn's own
  commit then has nothing to commit, and Step 10 fails over a close that is on main.
* A death between pin-sync's two writes leaves the pin current and the digest old. Step 0
  (`bs-evolve.md:102-104`) compares the pin alone and never calls pin-sync again;
  every later turn stops at the binding.
* A death after Step 10's backlog write and before its commit leaves no task in
  progress and a dirty tree: the probe counts none, `/bs` refuses the tree and
  `/bs-resume` finds nothing to resume.
* An unpushed pin commit makes the pull after the next merge diverge.
* `contract.md:193` has the stale-id guard fail before the file write; ledger and
  backlog are written by then.
* `rollback.sh:44` says "Push only the forward revert"; it pushes all of the canonical
  HEAD, with init's fixture commits, which nobody pushes and which make a later
  fast-forward of the canonical checkout fail.
* `release.sh:125` fast-forwards the worktree it runs in, where HEAD is the tag already;
  the canonical checkout stays where it was.
* Main and tag are two pushes: a failure between them leaves a version on main that
  is not on origin as a tag (the reverse cannot happen: `TagsAreOnMain`).
* The should-stop branch of Stage 7 (`bs-evolve.md:282`) ends without releasing the lock.

## 5. Fairness

`EvolveLock`: weak fairness of a call's steps (a running process runs), strong
fairness of `EnterGuard` (the kernel wakes every waiter of a flock in the end, and
holders let go again and again), weak fairness of `StartAcquire` and
`StartHeartbeat` (the lock-held retry wake and the heartbeat rule of
`commands/bs-evolve.md`), of the runner recording and ending its stage, and of the
clock. None of release, of a crash, or of an orphan's end. `CodexDriver`: weak
fairness of the driver's own steps and of the child answering, and strong fairness of the
timers: a timer that is due stays due, and a loop that comes round again and again tests it,
but a driver that waits in `readline` tests none. That wait ends for certain only when nobody
in the child's group is left to hold the stream open (weak fairness of `Unblocks` then): the
end of a line is not the driver's to promise. The child's turns
have none either: a turn may be silent for ever. `FixLoop` claims no liveness: whether an
agent goes on is not the code's to promise; nor do `StepEvents`, `TargetCycle` and
`SkillRelease`: there the wakes, an agent, a user and an operator decide whether anything
more happens, and several of the end states above are stuck until somebody acts.

## 6. Proofs

`EvolveLockProofs` proves, for every set of turns, stale limit and number of deaths,
`TypeOK`, `LeaseExclusive`, `RecordFencesTakeover` and `ImplementsLease`, from
`LockAssumption` alone (the special values are distinct and no turns, the limit is
positive). None of the properties is inductive. The strengthening `IInv` adds:

* `GuardInv`: who is in the critical section is exactly the holder of the flock;
* `CheckInv`: what a call has read there is still so when it writes;
* `BeliefInv`: only a turn without a token acquires;
* `LeaseInv`: a turn within its lease owns the file, which is no older than the
  lease, so that a takeover (age at the limit) finds no valid lease;
* `FenceInv`: a fencing record is on disk and nobody stands between the record
  check and the replace.

`LeaseExclusive` follows from `LeaseInv` because the file has one owner. The
refinement shows each file operation to be one step of `Lease` or a stutter:
`AcqWrite` grants, `AcqReturn` tells, `HbReplace` renews, `RelUnlink` releases,
`AcqReplace` evicts, `Tick` expires.

`CodexDriverProofs` proves `TypeOK`, `OneGroup`, `Reaped` and `SuccessIsEarned` for any
number of retries and signals and any set of policies, from `DriverAssumption`. The
queues are unbounded: `IInv` speaks of every line on its way and every request not yet
answered. It has these parts:

* `ControlInv`: until the cleanup there is no verdict;
* `GroupInv`: no attempt but the current one has a live process, nor has that one when
  the next launch is due or the driver has exited, unless it was cut short;
* `GoalInv`: `goal_set` is asked for once, before there is a goal, so a complete goal stays
  complete and a response read late that says so is still right;
* `MarkInv`: what the driver has seen, and every marker line it has yet to read, was shown
  by that turn; before the nudge only the first turn can have shown it;
* `EarnedInv`: verdict 0 is earned already in the cleanup.

What the driver does between `Launch` and `Kill` is the same for the invariant (lemma
`DriverMoves`): it reads, asks at most one thing more and leaves the child alone.

`DelegationIsKept` is the refinement of `Delegation`, step by step, from `IInv` and one
more invariant. `StageInv` ties what the handler knows, and whether there is a verdict, to
the position: the handler knows no child of this attempt before `thread/start` is answered,
and knows it from then on, so a signal in the turn can be concluded and not just cut short;
who kills has a verdict. An exception takes one of three ways, by position (lemma `RaisedInv`):
in the handshake it cuts the driver short, in a turn it concludes, in the cleanup it is caught.
What a failed request, a
signal, a kill policy and the end of a wait have in common is one lemma (`Concludes`).
`GroupInv` gives the rest: a launch finds nobody alive, and nobody is left after
`kill_proc`.

`FixLoopProofs` proves `TypeOK`, `LaunchIsReshaped`, `CapsuleIsRecoverable`,
`ArchivesAreFinal` and the refinement of `FixRounds` for any number of rounds, files and deaths, from
`FixLoopAssumption`. Its `IInv` says of each archive what it may hold given the
round (`ArchiveInv`), that the capsule is as before the round or else archived whole
(`CapsuleInv`), what each position may rely on (`PhaseInv`), and that a round with an
archive has passed the decrease check (`BoundsInv`): a re-run after a death
repeats the check, but a resume that skips it must be covered too. `SidecarInv` (a
legible sidecar has the newest grade's loci, and only a death leaves a launched round
without one) gives `MisalignedIsRejected`; `JustificationSticks` follows from the types.
`RoundsAreKept` needs one invariant more: a round that is not yet judged has no grade
(`RoundsInv`), so `WriteGrade` never changes a verdict. Its main lemma is `KeptIs`: under
`IInv` what can be read is `0..Version`, the capsules up to the newest that is whole, so
`Copy` and every death leave it alone (`SameKept`), and `Write` adds just the round's own.

`StepEventsProofs` proves `TypeOK`, `GateAgreesWithResume`, `ProbeAgreesWithGate` and
`TerminalsAreAccounted` for any steps, attempts and length of the log, from
`StepEventsAssumption`. Its `IInv` says that orphans lie behind the end of the log, one
per line (`LineInv`, so that a new orphan is not an old one); that the strict readers
hold the same as long as neither has raised, and part only over the times or a
separator (`SyncInv`); that the probe's last event is the gate's state where nothing is
pending, and is the orphan where one orphan is all there is (`ProbeInv`, the case a
repair turns into the first); and that starts, repairs and pending orphans together
make up the ends and the open attempt (`CountInv`).

`TargetCycleProofs` proves `TypeOK`, `LedgerAndBacklogTogether`, `LedgerOnce`,
`OneInProgress`, `MergedIsGraded` and `CloseGapIsReported` for any backlog, dependencies,
outcome, grades and number of turns and events, from `BacklogAssumption`,
`OutcomeAssumption` and `CycleAssumption`. Its `IInv` has these parts:

* `ExclusiveInv`: a turn in a cycle owns the lock, so there is one (`OneTurnAtATime`);
* `CycleInv`: what the position of that turn says of its task, the cycle directory and the
  work tree;
* `WorkInv`: whatever turn is there or died, a finished task has its ledger row in the work
  tree, a row is of a task in progress or finished, and one task at most is in progress,
  its dependencies completed;
* `StagedInv`: index, HEAD and origin have rows for exactly the finished tasks at every
  moment. This is the heart of `LedgerAndBacklogTogether`: `SyncCommit` may commit
  the index at any time;
* `GateInv`: a merged task has its gate, and the flaws of the open grade are the named three
  (lemma `GateFlaws`: what `Gate` lets through, for every grade);
* `OpenInv`: what `merged` says of work tree and cycle directory, in a turn and after
  its death, which is what the probe has to find;
* `OnceInv`: until a turn dies in a close, a task in progress has no row.

`TargetFilesProofs` goes on from there with `PinPair`, `QuietIsClean` and
`MarkerFollowsBacklog`, from the same assumptions. `PairInv` says that one turn at a time is
between reading the old pin and committing the new one, and that what is staged or committed
has a pin with its digest. `CleanPinInv` and `CleanCloseInv` name, for each position, the
files it has in hand; every other file is the same in work tree, index and HEAD. A pin sync
does not take the lock, so they have to hold when it commits between any two steps of the
turn in the cycle. `MarkerInv` says that index and HEAD name their backlog's task, and differ
in the marker only while no task is in progress; `MirrorInv` that the untracked mirror
follows except between the sync of the marker and the hook.

`BoardIsKept`, in the same module, is the refinement of `TaskBoard`. `DraftInv` compares the
four copies: what is staged is HEAD's board, or one start or one whole close ahead of it, and
the work tree alone can have a row without its end. So any commit, the turn's own or a pin
sync's, is a `Start`, a `Finish` or no step (lemma `HeadStep`). `ShownInv` says that a task
with a cycle directory has been on origin as started, and that what origin has as finished
stays finished; a merge and a close need the first, a push that is late the second.

`SkillReleaseProofs` proves the invariants of `skill_release` and `skill_history`, and the refinement, for any fleet, items,
corpus and number of versions and faults, from `ItemAssumption`, `MissingAssumption` (a
missing ledger is not an empty one), `GateAssumption` and `ReleaseAssumption`. Its
invariants build on each other:

* `TypeInv` adds to the types that every history begins with the first release, `LeaseInv`
  that without an overrun SKILL.lock has one holder, and the fleet file cannot change
  between an init's read and its replace (`FleetKeepsAll`);
* `TagInv`: what a project implemented or bumped in main or in the canonical checkout is below
  the tag of a version that this history has (`Covered`), and a release from its gates on
  ends in the bump of its candidate (`TagAt`). It holds with the lock or without: a tag is
  made once, and `git push` refuses a main that has moved (`TagsAreOnMain`, `TaggedAsPushed`);
* `TreeInv`: in a worktree, in use or left by a killed turn, nothing is reverted above the
  anchor, below it no item lies higher than main is long, and at the gates it has all that
  the turn had left to implement;
* `HandledInv`: what the dedup leaves out is handled, what it leaves to the turn is in what
  the turn pushes, and main keeps what it has (`ClosedIsHandled`). A ledger a death has
  truncated says nothing, so it starts over;
* `BacktestInv`: until a ledger is truncated, a project's report that fires has seen every rule
  that the project wants released, but those marked done, and so it speaks for the turns
  after it as well; what is above a worktree's anchor past the gates is backtested, and so is
  what is below (`RuleIsBacktested`);
* `OnceInv`: until a lease runs out, main has no item twice but after a rollback, nor has a
  worktree that main could be moved to, its uncommitted change included; and what a turn has
  to implement is not on main. With the push that only moves main forward this gives
  `ItemsOnce`.

`RuleCanPass` follows from `TagInv`, `TreeInv` and `OnceInv` together. It is
proved for projects that name a target cycle, as `backtest.py:61` requires
(`Targets[p] # {}` is the theorem's only further hypothesis).

`HistoryIsKept` is the refinement of `ReleaseHistory`, from these and `HistoryInv`, which says of
every release under way that its candidate follows a version that is tagged, that its tree
at the gates says it is the candidate, and that what it is pushing is on origin by nobody,
and being pushed by nobody else: `git tag` refuses a name that exists, in the
one tag map all worktrees share. That needs no lock either. A revert or a fixture on
main adds no item (`Amend`) by `TreeInv`'s comparison of the canonical checkout with main.

`NaturalOrder` has the existence of least and greatest elements by induction, for
`First` and `Latest`.

Only model-checked: all liveness (`LockCallReturns`, `AbandonedLockRecovers`, `Terminates`),
since TLAPS has no proof rules for fairness here. Every safety property of a passing run is proved.

## 7. Not modelled

* `grade_lint.py`: the text patterns that decide whether a row's words show a facet, the
  rules for an `outcome.md` and for tasks that are not code. They are pure functions of one
  file without a state to check; the rules over rows are in `GradeLint`.
* `conduct.sh`'s uptake probes (text matching) and its credential copy.
* `loop-state.py`: counters in one file. No program of the repository raises its failure
  counters or writes its stop reason, so its stop rule says only what the agent recorded.
* The poll loop, stall kill and suspect list of `run-codex-staged.sh`: they read a log's
  clock and decide only what is reported (plan, item 7).
* `migrate-inplace.sh`, `bs-evolve-config.py`, `bs-evolve-gitignore.py`, `retry-jitter.py`
  and the rest of `bs-evolve-init.py` (it writes the config before the fleet entry):
  one-shot generators and pure functions.
* `fleet-stop.py`, `adopt-cycle.py`, `skill-read-ref.py`: a STOP file, a copy, a read.
* The gates G1 to G3 in detail, and the events' field shapes.
* `/bs-park` and `/bs-unpark`: edits by hand, between cycles; a parked task can be in the
  initial backlog.
* What an agent writes into a capsule, a grade or a review. Prose commands are modelled
  where files, git or helpers depend on their order.
