----------------------------- MODULE TargetCycle -----------------------------
(***************************************************************************)
(* The target repository of one project, at the level of its git work      *)
(* tree, index, HEAD and origin, under the project's turns.  A turn syncs  *)
(* the contract pin (pin-sync.py) before it takes RUNNING.lock, then runs  *)
(* one /bs cycle: the pre-start gates, the start commit, Grade and the     *)
(* merge, and the Step 10 close with sync_status_marker.py.  /bs-resume    *)
(* picks up a cycle a dead turn left.  The skill's contract changes under  *)
(* all of this.  A turn can die anywhere, and a git command can fail.      *)
(***************************************************************************)
EXTENDS Backlog, GradeLint

CONSTANTS Wake,        \* turns that may be alive at the same time
          NoWake,      \* holder: RUNNING.lock is free
          Backlogs,    \* the backlogs to begin with
          Grades,      \* the grades a round can bring
          MaxEvents    \* bound: new contracts, deaths and failed git commands together

ASSUME CycleAssumption ==
    /\ NoWake \notin Wake
    /\ \A b \in Backlogs : /\ b \in [Task -> Status \ {"in_progress"}]
                           /\ NextTask(b) # NoTask
    /\ Grades \subseteq Grade
    /\ MaxEvents \in Nat

VARIABLES
    work, index, \* the tracked files as they are and as they are staged
    head, origin,
    ahead,    \* HEAD has commits that origin/main has not
    behind,   \* origin/main has a merge that HEAD has not
    mirror,   \* the task in what post_sync_command last made of the marker
    contract, \* the version of the skill's contract.md
    verify,   \* what the binding's verify says of code
    holder,   \* the owner in RUNNING.lock; its turn may be dead
    pc,       \* where each turn is
    saw,      \* saw[w]: the contract pin-sync read
    kept,     \* kept[w]: the pin and binding pin-sync would restore
    task,     \* task[w]: the task of w's cycle
    cycle,    \* cycle[t]: what t's cycle directory says
    merged,   \* the tasks whose PR is merged
    flaws,    \* history: what is wrong with the grade of the cycle that is merged
    cut,      \* history: the phases of a turn that did not come to their end
    faults

repo == <<work, index, head, origin, ahead, behind>>
syncVars == <<saw, kept>>
cycleVars == <<task, cycle, merged, flaws>>
steady == <<contract, verify>>
history == <<cut, faults>>
vars == <<repo, mirror, steady, holder, pc, syncVars, cycleVars, history>>

Files == [backlog : [Task -> Status],
          ledger : [Task -> Nat],
          marker : Task,
          pin : 0 .. MaxEvents,   \* .bootstrap/contract.sha256
          boot : 0 .. MaxEvents]  \* contract.source_sha256 in .bootstrap.yaml

\* The cycle directory: none, then its gate decision and its step events.
Cycle == [gated : BOOLEAN,
          at : {"none", "open", "step_7", "merged", "step_10", "failed", "closed"}]

Unlocked == {"idle", "syncCheck", "syncWrite", "syncBoot", "syncAdd",
             "syncCommit", "syncClean", "syncPush", "guard"}
Locked == {"ready", "start", "startAdd", "startCommit", "startPush", "grade",
           "pr", "merge", "pull", "close", "ledger", "backlog", "marker",
           "hook", "stage", "commit", "revert", "push", "finish", "release"}

Unkept == [pin |-> 0, boot |-> 0]

Init ==
    /\ \E b \in Backlogs :
          head = [backlog |-> b, ledger |-> [t \in Task |-> IF Terminal(b, t) THEN 1 ELSE 0],
                  marker |-> NextTask(b), pin |-> 0, boot |-> 0]
    /\ work = head /\ index = head /\ origin = head
    /\ ahead = FALSE /\ behind = FALSE
    /\ mirror = head.marker
    /\ contract = 0
    /\ verify \in Verify
    /\ holder = NoWake
    /\ pc = [w \in Wake |-> "idle"]
    /\ saw = [w \in Wake |-> 0] /\ kept = [w \in Wake |-> Unkept]
    /\ task = [w \in Wake |-> NoTask]
    /\ cycle = [t \in Task |-> [gated |-> FALSE, at |-> "none"]]
    /\ merged = {}
    /\ flaws = {}
    /\ cut = {} /\ faults = 0

At(w, l) == pc[w] = l

\* What a process knew goes with it.
Forget(w) == saw' = [saw EXCEPT ![w] = 0] /\ kept' = [kept EXCEPT ![w] = Unkept]
Goto(w, l) == pc' = [pc EXCEPT ![w] = l]

Dirty == work # head \/ index # head

\* git commit, of whatever is staged.
CommitIndex == head' = index /\ ahead' = TRUE

\* git push origin HEAD
Push == origin' = head /\ ahead' = FALSE

-----------------------------------------------------------------------------
(* pin-sync.py --commit --push, before the lock                            *)

\* Step 0 calls it when .bootstrap/contract.sha256 is not the contract's.
Begin(w) ==
    /\ At(w, "idle")
    /\ saw' = [saw EXCEPT ![w] = contract]
    /\ Goto(w, IF work.pin = contract THEN "guard" ELSE "syncCheck")
    /\ UNCHANGED <<repo, mirror, steady, holder, kept, cycleVars, history>>

\* Another turn is between its reading and its commit.
Syncing(w) ==
    \E v \in Wake \ {w} : pc[v] \in {"syncWrite", "syncBoot", "syncAdd", "syncCommit", "syncClean"}

\* Where pin-sync goes from its checks; "target tree dirty before pin
\* refresh" is exit 3.
Checked(w) ==
    CASE work.pin = saw[w] /\ work.boot = saw[w] -> "guard"
      [] Dirty -> "idle"
      [] OTHER -> "syncWrite"

SyncCheck(w) ==
    /\ At(w, "syncCheck")
    /\ Goto(w, Checked(w))
    /\ cut' = IF Checked(w) = "syncWrite" /\ Syncing(w) THEN cut \cup {"overlap"} ELSE cut
    /\ UNCHANGED <<repo, mirror, steady, holder, syncVars, cycleVars, faults>>

\* Both files are kept, the pin is written.
SyncWrite(w) ==
    /\ At(w, "syncWrite")
    /\ kept' = [kept EXCEPT ![w] = [pin |-> work.pin, boot |-> work.boot]]
    /\ work' = [work EXCEPT !.pin = saw[w]]
    /\ Goto(w, "syncBoot")
    /\ UNCHANGED <<index, head, origin, ahead, behind, mirror, steady, holder, saw, cycleVars, history>>

\* binding.validate: the two files and the contract agree, and a verify
\* list that is there is not empty.
Bound(files) == files.pin = files.boot /\ files.pin = contract /\ verify # "empty"

Rebound(w, restored) ==
    /\ At(w, "syncBoot")
    /\ LET new == [work EXCEPT !.boot = saw[w]]
       IN  IF Bound(new)
           THEN work' = new /\ Goto(w, "syncAdd")
           ELSE work' = restored /\ Goto(w, "idle")
    /\ UNCHANGED <<index, head, origin, ahead, behind, mirror, steady, holder, syncVars, cycleVars, history>>

\* mutant: the pin is left as it was written
SyncBootKeep(w) == Rebound(w, [work EXCEPT !.boot = kept[w].boot])

\* A binding that does not validate is put back: exit 4.
SyncBoot(w) == Rebound(w, [work EXCEPT !.pin = kept[w].pin, !.boot = kept[w].boot])

\* mutant: the pin alone is staged
SyncAddPin(w) ==
    /\ At(w, "syncAdd")
    /\ index' = [index EXCEPT !.pin = work.pin]
    /\ Goto(w, "syncCommit")
    /\ UNCHANGED <<work, head, origin, ahead, behind, mirror, steady, holder, syncVars, cycleVars, history>>

SyncAdd(w) ==
    /\ At(w, "syncAdd")
    /\ index' = [index EXCEPT !.pin = work.pin, !.boot = work.boot]
    /\ Goto(w, "syncCommit")
    /\ UNCHANGED <<work, head, origin, ahead, behind, mirror, steady, holder, syncVars, cycleVars, history>>

SyncCommit(w) ==
    /\ At(w, "syncCommit")
    /\ IF index # head THEN CommitIndex ELSE UNCHANGED <<head, ahead>>
    /\ Goto(w, "syncClean")
    /\ UNCHANGED <<work, index, origin, behind, mirror, steady, holder, syncVars, cycleVars, history>>

\* "target dirty after commit": exit 5, and the commit stays.
SyncClean(w) ==
    /\ At(w, "syncClean")
    /\ Goto(w, IF Dirty THEN "idle" ELSE "syncPush")
    /\ UNCHANGED <<repo, mirror, steady, holder, syncVars, cycleVars, history>>

SyncPush(w) ==
    /\ At(w, "syncPush")
    /\ IF behind
       THEN Goto(w, "idle") /\ UNCHANGED <<origin, ahead>>
       ELSE Push /\ Goto(w, "guard")
    /\ UNCHANGED <<work, index, head, behind, mirror, steady, holder, syncVars, cycleVars, history>>

-----------------------------------------------------------------------------
(* RUNNING.lock and the gates in front of a cycle                          *)

HolderLives == holder # NoWake /\ pc[holder] \in Locked

\* Locked by a live turn: the turn ends, with a retry wake.
Acquire(w) ==
    /\ At(w, "guard")
    /\ IF HolderLives
       THEN Goto(w, "idle") /\ UNCHANGED holder
       ELSE Goto(w, "ready") /\ holder' = w
    /\ Forget(w)
    /\ UNCHANGED <<repo, mirror, steady, cycleVars, history>>

\* mutant: the probe asks for an open step only
MergeEvidenceOpenStep(t) == cycle[t].at \in {"step_7", "step_10"}

\* An open step 7 or 10, or a step 7 that ended with a merge.
MergeEvidence(t) == cycle[t].at \in {"step_7", "merged", "step_10", "failed"}

\* preflight's close-gap probe: exit 2, "merged_pr_needs_step10_close".
CloseGap(t) ==
    /\ InProgress(work.backlog) = {t}
    /\ cycle[t].gated
    /\ MergeEvidence(t)

\* mutant: the backlog is not asked for a task in progress
MayStartAnother(t) ==
    ~Dirty /\ Bound(work) /\ t = NextTask(work.backlog)

\* The preconditions of /bs, with t the task it selects.
MayStart(t) ==
    /\ Bound(work)
    /\ \A u \in Task : ~CloseGap(u)
    /\ ~Dirty
    /\ InProgress(work.backlog) = {}
    /\ t = NextTask(work.backlog)

Select(w) ==
    /\ At(w, "ready")
    /\ \E t \in Task : MayStart(t) /\ task' = [task EXCEPT ![w] = t]
    /\ Goto(w, "start")
    /\ UNCHANGED <<repo, mirror, steady, holder, syncVars, cycle, merged, flaws, history>>

\* A gate is red, or there is nothing to do.
Refuse(w) ==
    /\ At(w, "ready")
    /\ \A t \in Task : ~MayStart(t)
    /\ Goto(w, "release")
    /\ UNCHANGED <<repo, mirror, steady, holder, syncVars, cycleVars, history>>

\* Where a cycle goes on, by its directory; a merge needs its own evidence.
ResumeAt(t) ==
    CASE t \in merged -> "pull"
      [] cycle[t].at = "step_7" -> "merge"
      [] cycle[t].gated -> "pr"
      [] cycle[t].at = "open" -> "grade"
      [] OTHER -> "close"

\* /bs-resume, the merged-PR recovery included, where a user asks for it.
Resume(w) ==
    /\ At(w, "ready")
    /\ Bound(work)
    /\ \E t \in Task :
          /\ InProgress(work.backlog) = {t} /\ cycle[t].at # "none"
          /\ task' = [task EXCEPT ![w] = t]
          /\ Goto(w, ResumeAt(t))
    /\ UNCHANGED <<repo, mirror, steady, holder, syncVars, cycle, merged, flaws, history>>

\* Compare-token release.
Release(w) ==
    /\ At(w, "release")
    /\ holder' = IF holder = w THEN NoWake ELSE holder
    /\ Goto(w, "idle")
    /\ task' = [task EXCEPT ![w] = NoTask]
    /\ UNCHANGED <<repo, mirror, steady, syncVars, cycle, merged, flaws, history>>

-----------------------------------------------------------------------------
(* The start commit                                                        *)

StartEdit(w) ==
    /\ At(w, "start")
    /\ work' = [work EXCEPT !.backlog[task[w]] = "in_progress"]
    /\ Goto(w, "startAdd")
    /\ UNCHANGED <<index, head, origin, ahead, behind, mirror, steady, holder, syncVars, cycleVars, history>>

StartAdd(w) ==
    /\ At(w, "startAdd")
    /\ index' = [index EXCEPT !.backlog = work.backlog]
    /\ Goto(w, "startCommit")
    /\ UNCHANGED <<work, head, origin, ahead, behind, mirror, steady, holder, syncVars, cycleVars, history>>

\* mutant: the cycle directory is made with the commit, before the push
StartCommitOpen(w) ==
    /\ At(w, "startCommit")
    /\ IF index # head
       THEN /\ CommitIndex /\ Goto(w, "startPush")
            /\ cycle' = [cycle EXCEPT ![task[w]].at = "open"]
       ELSE Goto(w, "release") /\ UNCHANGED <<head, ahead, cycle>>
    /\ UNCHANGED <<work, index, origin, behind, mirror, steady, holder, syncVars, task, merged, flaws, history>>

\* Nothing left to commit, where a pin commit took it along: a failure.
StartCommit(w) ==
    /\ At(w, "startCommit")
    /\ IF index # head
       THEN CommitIndex /\ Goto(w, "startPush")
       ELSE Goto(w, "release") /\ UNCHANGED <<head, ahead>>
    /\ UNCHANGED <<work, index, origin, behind, mirror, steady, holder, syncVars, cycleVars, history>>

\* HEAD = origin/main is verified, then the cycle directory is made.
StartPush(w) ==
    /\ At(w, "startPush")
    /\ IF behind
       THEN Goto(w, "release") /\ UNCHANGED <<origin, ahead, cycle>>
       ELSE /\ Push
            /\ cycle' = [cycle EXCEPT ![task[w]].at = "open"]
            /\ Goto(w, "grade")
    /\ UNCHANGED <<work, index, head, behind, mirror, steady, holder, syncVars, task, merged, flaws, history>>

-----------------------------------------------------------------------------
(* Grade, merge, pull                                                      *)

\* The grades that grade_lint.py clears, each with the ids the parser finds
\* in the outcome, as Shape has written it.
Cleared == {c \in [grade : Grades, read : SUBSET Acceptance] : Lint(c.grade, c.read)}

\* A round the gate lets through; any other leads to the next round.
Graded(w) ==
    /\ At(w, "grade")
    /\ \E c \in Cleared, s \in VerifyStatus(verify) :
          /\ Gate(c.grade, s)
          /\ flaws' = Flaws(c.grade, c.read, s)
    /\ cycle' = [cycle EXCEPT ![task[w]].gated = TRUE]
    /\ Goto(w, "pr")
    /\ UNCHANGED <<repo, mirror, steady, holder, syncVars, task, merged, history>>

\* After the last round, or on a user's decision, the task is escalated.
Escalate(w) ==
    /\ At(w, "grade")
    /\ Goto(w, "close")
    /\ UNCHANGED <<repo, mirror, steady, holder, syncVars, cycleVars, history>>

\* step_7 started
OpenPr(w) ==
    /\ At(w, "pr")
    /\ cycle' = [cycle EXCEPT ![task[w]].at = "step_7"]
    /\ Goto(w, "merge")
    /\ UNCHANGED <<repo, mirror, steady, holder, syncVars, task, merged, flaws, history>>

Merge(w) ==
    /\ At(w, "merge")
    /\ merged' = merged \cup {task[w]}
    /\ behind' = TRUE
    /\ Goto(w, "pull")
    /\ UNCHANGED <<work, index, head, origin, ahead, mirror, steady, holder, syncVars, task, cycle, flaws, history>>

\* step_7 completed, then main is pulled, unless it has moved on its own.
Pull(w) ==
    /\ At(w, "pull")
    /\ cycle' = [cycle EXCEPT ![task[w]].at = "merged"]
    /\ IF ahead /\ behind
       THEN Goto(w, "release") /\ UNCHANGED behind
       ELSE behind' = FALSE /\ Goto(w, "close")
    /\ UNCHANGED <<work, index, head, origin, ahead, mirror, steady, holder, syncVars, task, merged, flaws, history>>

-----------------------------------------------------------------------------
(* Step 10                                                                 *)

Fails10(w) ==
    /\ cycle' = [cycle EXCEPT ![task[w]].at = "failed"]
    /\ Goto(w, "release")

\* step_10 started; the task must still be in progress.
Close(w) ==
    /\ At(w, "close")
    /\ IF work.backlog[task[w]] = "in_progress"
       THEN cycle' = [cycle EXCEPT ![task[w]].at = "step_10"] /\ Goto(w, "ledger")
       ELSE Fails10(w)
    /\ flaws' = {}
    /\ UNCHANGED <<repo, mirror, steady, holder, syncVars, task, merged, history>>

WriteLedger(w) ==
    /\ At(w, "ledger")
    /\ work' = [work EXCEPT !.ledger[task[w]] = @ + 1]
    /\ Goto(w, "backlog")
    /\ UNCHANGED <<index, head, origin, ahead, behind, mirror, steady, holder, syncVars, cycleVars, history>>

WriteBacklog(w) ==
    /\ At(w, "backlog")
    /\ work' = [work EXCEPT !.backlog[task[w]] =
                   IF task[w] \in merged THEN "completed" ELSE "escalated"]
    /\ Goto(w, "marker")
    /\ UNCHANGED <<index, head, origin, ahead, behind, mirror, steady, holder, syncVars, cycleVars, history>>

Synced(w, same, target) ==
    /\ At(w, "marker")
    /\ \/ /\ same
          /\ Goto(w, "stage") /\ UNCHANGED work
       \/ /\ ~same
          /\ work' = [work EXCEPT !.marker = target]
          /\ Goto(w, "hook")
       \/ /\ ~same
          /\ Goto(w, "revert") /\ UNCHANGED work
    /\ UNCHANGED <<index, head, origin, ahead, behind, mirror, steady, holder, syncVars, cycleVars, history>>

\* mutant: an empty selection is written too
SyncMarkerBlank(w) ==
    LET target == TargetTask(work.backlog) IN Synced(w, target = work.marker, target)

\* mutant: the backlog is read as it was before the close
SyncMarkerEarly(w) ==
    LET target == TargetTask(head.backlog) IN Synced(w, target \in {NoTask, work.marker}, target)

\* sync_status_marker.py: nothing to select is a no-op; the stale-id guard
\* errs before the write; the hook is called when the write changed the file.
SyncMarker(w) ==
    LET target == TargetTask(work.backlog) IN Synced(w, target \in {NoTask, work.marker}, target)

\* post_sync_command; where it fails, exit 4.
Hook(w) ==
    /\ At(w, "hook")
    /\ \/ mirror' = work.marker /\ Goto(w, "stage") /\ UNCHANGED cut
       \/ UNCHANGED mirror /\ Goto(w, "revert") /\ cut' = cut \cup {"hook"}
    /\ UNCHANGED <<repo, steady, holder, syncVars, cycleVars, faults>>

\* mutant: the ledger is staged without the backlog
StageLedger(w) ==
    /\ At(w, "stage")
    /\ index' = [index EXCEPT !.ledger = work.ledger, !.marker = work.marker]
    /\ Goto(w, "commit")
    /\ UNCHANGED <<work, head, origin, ahead, behind, mirror, steady, holder, syncVars, cycleVars, history>>

\* The close files, in one git add.
Stage(w) ==
    /\ At(w, "stage")
    /\ index' = [index EXCEPT !.ledger = work.ledger, !.backlog = work.backlog,
                              !.marker = work.marker]
    /\ Goto(w, "commit")
    /\ UNCHANGED <<work, head, origin, ahead, behind, mirror, steady, holder, syncVars, cycleVars, history>>

Commit(w) ==
    /\ At(w, "commit")
    /\ IF index # head
       THEN CommitIndex /\ Goto(w, "push")
       ELSE Goto(w, "revert") /\ UNCHANGED <<head, ahead>>
    /\ UNCHANGED <<work, index, origin, behind, mirror, steady, holder, syncVars, cycleVars, history>>

Reverted(w, files, staged) ==
    /\ At(w, "revert")
    /\ \E m \in {work.marker, head.marker} : work' = [files EXCEPT !.marker = m]
    /\ \E m \in {index.marker, head.marker} : index' = [staged EXCEPT !.marker = m]
    /\ Fails10(w)
    /\ UNCHANGED <<head, origin, ahead, behind, mirror, steady, holder, syncVars, task, merged, flaws, history>>

\* mutant: the ledger is not put back
RevertBacklog(w) ==
    Reverted(w, [work EXCEPT !.backlog = head.backlog], [index EXCEPT !.backlog = head.backlog])

\* Ledger and backlog go back to HEAD; bs.md does not name the marker's file.
Revert(w) ==
    Reverted(w, [work EXCEPT !.ledger = head.ledger, !.backlog = head.backlog],
                [index EXCEPT !.ledger = head.ledger, !.backlog = head.backlog])

ClosePush(w) ==
    /\ At(w, "push")
    /\ IF behind
       THEN Fails10(w) /\ UNCHANGED <<origin, ahead>>
       ELSE Push /\ Goto(w, "finish") /\ UNCHANGED cycle
    /\ UNCHANGED <<work, index, head, behind, mirror, steady, holder, syncVars, task, merged, flaws, history>>

\* step_10 completed
Finish(w) ==
    /\ At(w, "finish")
    /\ cycle' = [cycle EXCEPT ![task[w]].at = "closed"]
    /\ Goto(w, "release")
    /\ UNCHANGED <<repo, mirror, steady, holder, syncVars, task, merged, flaws, history>>

-----------------------------------------------------------------------------
(* The skill's releases, failed git commands and deaths                    *)

NewContract ==
    /\ contract + faults < MaxEvents
    /\ contract' = contract + 1
    /\ UNCHANGED <<repo, mirror, verify, holder, pc, syncVars, cycleVars, history>>

Phase(l) ==
    CASE l \in Unlocked -> "sync"
      [] l \in {"start", "startAdd", "startCommit", "startPush"} -> "start"
      [] l \in {"ledger", "backlog", "marker", "hook", "stage", "commit", "revert"} -> "close"
      [] OTHER -> "other"

Fault(w) ==
    /\ contract + faults < MaxEvents /\ faults' = faults + 1
    /\ cut' = cut \cup {Phase(pc[w])}

PushFails(w) ==
    /\ pc[w] \in {"syncPush", "startPush", "push"}
    /\ Fault(w)
    /\ Goto(w, IF At(w, "syncPush") THEN "idle" ELSE "release")
    /\ UNCHANGED <<repo, mirror, steady, holder, syncVars, cycleVars>>

SyncGit == {"syncAdd", "syncCommit"}
StartGit == {"startAdd", "startCommit"}
CloseGit == {"stage", "commit"}

\* A git add or git commit fails, of a lock on the index or a hook: nothing
\* is restored by pin-sync.py, which raises; bs.md stops, or reverts the close.
GitFails(w) ==
    /\ pc[w] \in {"syncCommit", "startCommit", "commit"} => index # head
    /\ contract + faults < MaxEvents /\ faults' = faults + 1
    /\ \/ pc[w] \in SyncGit /\ Goto(w, "idle") /\ cut' = cut \cup {"syncGit"}
       \/ pc[w] \in StartGit /\ Goto(w, "release") /\ cut' = cut \cup {"startGit"}
       \/ pc[w] \in CloseGit /\ Goto(w, "revert") /\ cut' = cut \cup {"closeGit"}
    /\ UNCHANGED <<repo, mirror, steady, holder, syncVars, cycleVars>>

Die(w) ==
    /\ ~At(w, "idle")
    /\ Fault(w)
    /\ Goto(w, "idle") /\ Forget(w)
    /\ task' = [task EXCEPT ![w] = NoTask]
    /\ UNCHANGED <<repo, mirror, steady, holder, cycle, merged, flaws>>

-----------------------------------------------------------------------------
PinSync(w) ==
    \/ SyncCheck(w) \/ SyncWrite(w) \/ SyncBoot(w) \/ SyncAdd(w)
    \/ SyncCommit(w) \/ SyncClean(w) \/ SyncPush(w)

Start(w) == StartEdit(w) \/ StartAdd(w) \/ StartCommit(w) \/ StartPush(w)

Middle(w) == Graded(w) \/ Escalate(w) \/ OpenPr(w) \/ Merge(w) \/ Pull(w)

Step10(w) ==
    \/ Close(w) \/ WriteLedger(w) \/ WriteBacklog(w) \/ SyncMarker(w) \/ Hook(w)
    \/ Stage(w) \/ Commit(w) \/ Revert(w) \/ ClosePush(w) \/ Finish(w)

Turn(w) ==
    \/ Begin(w) \/ PinSync(w) \/ Acquire(w) \/ Select(w) \/ Refuse(w) \/ Resume(w)
    \/ Release(w) \/ Start(w) \/ Middle(w) \/ Step10(w)

Next ==
    \/ \E w \in Wake : Turn(w) \/ PushFails(w) \/ GitFails(w) \/ Die(w)
    \/ NewContract

Spec == Init /\ [][Next]_vars

-----------------------------------------------------------------------------
Quiet == \A w \in Wake : pc[w] = "idle"

-----------------------------------------------------------------------------
(* Properties                                                              *)

\* Type invariant.  The marker names a task once it has named one.
TypeOK ==
    /\ work \in Files /\ index \in Files /\ head \in Files /\ origin \in Files
    /\ ahead \in BOOLEAN /\ behind \in BOOLEAN
    /\ mirror \in Task
    /\ contract \in 0 .. MaxEvents
    /\ verify \in Verify
    /\ holder \in Wake \cup {NoWake}
    /\ pc \in [Wake -> Unlocked \cup Locked]
    /\ saw \in [Wake -> 0 .. MaxEvents]
    /\ kept \in [Wake -> [pin : 0 .. MaxEvents, boot : 0 .. MaxEvents]]
    /\ task \in [Wake -> Task \cup {NoTask}]
    /\ cycle \in [Task -> Cycle]
    /\ merged \subseteq Task
    /\ flaws \subseteq Flaw
    /\ cut \subseteq {"sync", "start", "close", "other", "hook", "overlap",
                     "syncGit", "startGit", "closeGit"}
    /\ faults \in 0 .. MaxEvents

\* The close is one atomic commit (contract.md, section 7): no commit, here
\* or on origin, has a ledger row without a finished task or the other way
\* round, though pin-sync of another turn commits whatever is staged, and a
\* turn can die between any two writes.
LedgerAndBacklogTogether ==
    \A f \in {head, origin} : \A t \in Task : f.ledger[t] > 0 <=> Terminal(f.backlog, t)

\* A task has one row in the ledger, after failed closes and failed close
\* commits too, unless a turn died in the middle of a close: the row it left
\* is committed with the row of the recovery.
LedgerOnce ==
    "close" \notin cut => \A t \in Task : head.ledger[t] =< 1

\* One cycle at a time, on main: a task is in progress alone, and what it
\* waits for is completed, whatever the order of turns, deaths and resumes.
OneInProgress ==
    \A t \in InProgress(head.backlog) :
        /\ InProgress(head.backlog) = {t}
        /\ \A d \in BlockedBy[t] : head.backlog[d] = "completed"

\* No PR is merged without a gate decision on a verified grade, in which
\* every P0 and P1 of the outcome is covered and none fails.  Three ways the
\* code lets one through are named: a row that lowers the severity of its
\* failing id, an acceptance status that the counts do not show, and an id
\* the parser does not read in the outcome: where it reads none, the Grade's
\* own ids and severities are what the Grade is held to.
MergedIsGraded ==
    /\ \A t \in merged : cycle[t].gated
    /\ flaws \subseteq {"lowered", "overlooked", "unread"}

\* The committed marker names the task that comes next, and what the hook
\* made of it agrees when no turn runs.  Nothing in the code makes up for
\* three failures.  The hook runs before the close commit: where it, or the
\* commit after it, fails, or the turn dies, the mirror is of a close that is
\* reverted, and the next call finds the marker as it should be and does not
\* call the hook.  And the revert names ledger and backlog: a marker that
\* was staged for the commit that failed may stay staged, for another
\* turn's pin commit to take along.
MarkerFollowsBacklog ==
    /\ "closeGit" \notin cut => TargetTask(head.backlog) \in {NoTask, head.marker}
    /\ Quiet /\ cut \cap {"hook", "close", "closeGit"} = {} => mirror = head.marker

\* A merged PR whose close is missing is found by the close-gap probe,
\* wherever its turn is or died, and no other cycle is started, until the
\* work tree's backlog says that the task is finished.
CloseGapIsReported ==
    \A t \in merged : CloseGap(t) \/ Terminal(work.backlog, t)

\* Turns leave the tree clean (bs-evolve.md, Step 0): with none running there
\* is nothing for the next one to trip over, unless one of them died, or a
\* git command or the hook failed it, between an edit and its commit, or two
\* were in pin-sync at once.
QuietIsClean == Quiet /\ cut \subseteq {"other"} => ~Dirty

\* The pin and the binding's digest are committed as a pair, unless two
\* turns were in pin-sync at once, which no lock prevents.
PinPair == \A f \in {head, origin} : f.pin # f.boot => "overlap" \in cut

-----------------------------------------------------------------------------
(* The abstract specification                                              *)

\* What a commit says of the tasks.
OnBoard(files) == [backlog |-> files.backlog, ledger |-> files.ledger]

B == INSTANCE TaskBoard WITH board <- OnBoard(head), shown <- OnBoard(origin)

\* Whatever is staged when a pin commit of another turn takes it along, and
\* wherever turns die, what main's commits say of the tasks changes only by
\* the start of the next task and the close of the one in progress, whole,
\* and no PR is merged, and no task closed, before origin shows it in
\* progress; a task closes as completed if and only if its PR is merged.
ImplementsBoard == B!Spec
=============================================================================
