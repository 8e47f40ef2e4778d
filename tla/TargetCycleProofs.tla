-------------------------- MODULE TargetCycleProofs --------------------------
(***************************************************************************)
(* What TargetCycle guarantees for every backlog, outcome, set of grades,  *)
(* set of turns and number of faults.  RUNNING.lock admits one live turn   *)
(* to a cycle (ExclusiveInv).  The work tree's backlog is then where that  *)
(* turn left it (CycleInv); the residue of a dead turn has no shape but    *)
(* that of a close cut short (WorkInv), and what is staged is whole at     *)
(* every moment (StagedInv), so the pin commit of a turn outside the lock, *)
(* which takes whatever is staged, commits nothing torn.                   *)
(***************************************************************************)
EXTENDS TargetCycle, NaturalOrder

-----------------------------------------------------------------------------
(* The inductive invariant                                                 *)

ExclusiveInv == \A w \in Wake : pc[w] \in Locked => holder = w

\* From the selection of a task on.
InCycle == Locked \ {"ready", "release"}

\* Where the work tree's backlog has the task in progress.
Ongoing == {"startAdd", "startCommit", "startPush", "grade", "pr", "merge",
            "pull", "close", "ledger", "backlog"}

CycleAt(w) ==
    /\ pc[w] \in InCycle => task[w] \in Task /\ verify # "empty"
    /\ pc[w] = "start" =>
          /\ work.backlog = index.backlog
          /\ InProgress(work.backlog) = {}
          /\ task[w] = NextTask(work.backlog)
    /\ pc[w] = "startAdd" =>
          /\ work.backlog = [index.backlog EXCEPT ![task[w]] = "in_progress"]
          /\ index.backlog[task[w]] = "pending"
    /\ pc[w] \in Ongoing => InProgress(work.backlog) = {task[w]}
    /\ pc[w] = "backlog" => work.ledger[task[w]] > 0
    /\ pc[w] \in {"marker", "hook", "stage"} => InProgress(work.backlog) = {}

CycleInv == \A w \in Wake : CycleAt(w)

\* One task in progress at most, with its dependencies completed.
Solo(b) == \A t \in InProgress(b) :
    InProgress(b) = {t} /\ \A d \in BlockedBy[t] : b[d] = "completed"

Whole(f) == \A t \in Task : f.ledger[t] > 0 <=> Terminal(f.backlog, t)

WorkInv ==
    /\ \A t \in Task : Terminal(work.backlog, t) => work.ledger[t] > 0
    /\ \A t \in Task : work.ledger[t] > 0 => work.backlog[t] \notin {"pending", "parked"}
    /\ Solo(work.backlog)

StagedInv ==
    /\ Whole(index) /\ Whole(head) /\ Whole(origin)
    /\ Solo(index.backlog) /\ Solo(head.backlog)

GateInv ==
    /\ \A t \in Task : cycle[t].at \in {"step_7", "merged"} => cycle[t].gated
    /\ \A t \in merged : cycle[t].gated
    /\ \A w \in Wake : /\ pc[w] \in {"pr", "merge"} => cycle[task[w]].gated
                       /\ pc[w] = "pull" => task[w] \in merged
    /\ flaws \subseteq {"lowered", "overlooked", "unread"}

\* Before the cycle has a directory.
Starting == {"start", "startAdd", "startCommit", "startPush"}

\* A task with a cycle directory waits no more, here and in
\* what is staged and committed; a closed one is finished in all three.
OpenTask(t) ==
    /\ cycle[t].at # "none" =>
          {work.backlog[t], index.backlog[t], head.backlog[t]} \cap {"pending", "parked"} = {}
    /\ cycle[t].at = "closed" =>
          Terminal(work.backlog, t) /\ Terminal(index.backlog, t) /\ Terminal(head.backlog, t)
    /\ t \in merged => cycle[t].at \in {"step_7", "merged", "step_10", "failed", "closed"}

OpenAt(w) ==
    /\ pc[w] \in Starting => task[w] \notin merged
    /\ pc[w] \in {"startCommit", "startPush"} => index.backlog[task[w]] \notin {"pending", "parked"}
    /\ pc[w] = "startPush" => head.backlog[task[w]] \notin {"pending", "parked"}
    /\ pc[w] \in InCycle \ Starting => cycle[task[w]].at # "none"
    /\ pc[w] = "merge" => cycle[task[w]].at = "step_7"
    /\ pc[w] \in {"marker", "hook", "stage", "commit", "push", "finish"} =>
          Terminal(work.backlog, task[w])
    /\ pc[w] \in {"commit", "push", "finish"} => Terminal(index.backlog, task[w])
    /\ pc[w] \in {"push", "finish"} => Terminal(head.backlog, task[w])

OpenInv == (\A t \in Task : OpenTask(t)) /\ (\A w \in Wake : OpenAt(w))

\* Until a turn dies in a close, a row of the ledger is that of a finished
\* task or of the close under way.
OnceInv == "close" \notin cut =>
    \A t \in Task :
        /\ work.ledger[t] =< 1 /\ index.ledger[t] =< 1 /\ head.ledger[t] =< 1
        /\ work.ledger[t] > 0 =>
              \/ Terminal(work.backlog, t)
              \/ \E w \in Wake : pc[w] = "backlog" /\ task[w] = t

IInv ==
    /\ TypeOK /\ ExclusiveInv /\ CycleInv /\ WorkInv /\ StagedInv /\ GateInv
    /\ OpenInv /\ OnceInv

-----------------------------------------------------------------------------
(* Lemmas about the operators                                              *)

\* First finds a member of every non-empty set of tasks.
LEMMA FirstIsMember ==
    ASSUME NEW ts \in SUBSET Task
    PROVE  /\ ts = {} => First(ts) = NoTask
           /\ ts # {} => First(ts) \in ts
<1>1. Task \in SUBSET Nat
  BY BacklogAssumption
<1>2. ASSUME ts # {} PROVE \E t \in ts : \A u \in ts : t =< u
  BY <1>1, <1>2, LeastExists
<1> QED BY <1>2 DEF First

\* next_task: a selected task is pending, with all it waits for completed.
LEMMA NextTaskIsFree ==
    ASSUME NEW b, NextTask(b) # NoTask
    PROVE  /\ NextTask(b) \in Task
           /\ b[NextTask(b)] = "pending"
           /\ \A d \in BlockedBy[NextTask(b)] : b[d] = "completed"
<1> DEFINE free == {t \in Task : b[t] = "pending" /\ \A d \in BlockedBy[t] : b[d] = "completed"}
<1>1. NextTask(b) = First(free)
  BY DEF NextTask
<1>2. free \in SUBSET Task
  OBVIOUS
<1>3. First(free) \in free
  <2> HIDE DEF free
  <2> QED BY <1>1, <1>2, FirstIsMember
<1> QED BY <1>1, <1>3

\* target_task: the marker is given a task of the backlog or none at all.
LEMMA TargetTaskIsTask ==
    ASSUME NEW b
    PROVE  TargetTask(b) \in Task \cup {NoTask}
<1>1. CASE InProgress(b) # {}
  <2>1. InProgress(b) \in SUBSET Task
    BY DEF InProgress
  <2>2. First(InProgress(b)) \in Task
    BY <1>1, <2>1, FirstIsMember
  <2> QED BY <1>1, <2>2 DEF TargetTask
<1>2. CASE InProgress(b) = {}
  <2>1. TargetTask(b) = NextTask(b)
    BY <1>2 DEF TargetTask
  <2> QED BY <2>1, NextTaskIsFree
<1> QED BY <1>1, <1>2

\* What the parser reads of the outcome is held against the Grade as it is
\* shaped.
LEMMA ReadIsRequired ==
    ASSUME NEW g, NEW read \in SUBSET Acceptance, NEW x \in read
    PROVE  /\ x \in DOMAIN Required(g, read)
           /\ Shaped[x] \in Blocking => x \in Heavy(Required(g, read))
           /\ \A row : Blocks(row, x, Required(g, read)) <=> Blocks(row, x, Shaped)
<1>1. Required(g, read) = [a \in read |-> Shaped[a]]
  BY DEF Required
<1>2. x \in DOMAIN Required(g, read) /\ Required(g, read)[x] = Shaped[x]
  BY <1>1
<1>3. x \in DOMAIN Shaped
  BY OutcomeAssumption
<1> QED BY <1>2, <1>3 DEF Heavy, Blocks, SeverityOf

\* /bs lets no grade through that lint, verify and the counts do not clear,
\* but for the three ways a row, a status or an outcome can hide a failure.
LEMMA GateFlaws ==
    ASSUME NEW g, NEW read \in SUBSET Acceptance, NEW s \in {"pass", "fail", "not_required"},
           Lint(g, read), Gate(g, s)
    PROVE  Flaws(g, read, s) \subseteq {"lowered", "overlooked", "unread"}
<1> DEFINE req == Required(g, read)
<1>1. s \in {"pass", "not_required"}
  BY DEF Gate
<1>2. SpecClean(g, req) /\ NegativesClean(g, req) /\ SecretClean(g) /\ AdversarialClean(g)
  BY DEF Lint, BaselineClean
<1>3. \A x \in read : x \in Acceptance /\ x \in DOMAIN req
                     /\ (Shaped[x] \in Blocking => x \in Heavy(req))
                     /\ \A row : Blocks(row, x, req) <=> Blocks(row, x, Shaped)
  BY ReadIsRequired
<1> HIDE DEF req
<1>4. "unverified" \notin Flaws(g, read, s)
  BY <1>1 DEF Flaws
<1>5. "uncovered" \notin Flaws(g, read, s)
  <2>1. \A x \in read : g.spec[x] # Missing
    BY <1>2, <1>3 DEF SpecClean
  <2>2. \A x \in read : Shaped[x] \in Blocking => g.neg[x] # Missing
    BY <1>2, <1>3 DEF NegativesClean
  <2>3. \A y \in Adversarial : g.checks[y] # Missing
    BY <1>2 DEF AdversarialClean
  <2> QED BY <2>1, <2>2, <2>3 DEF Flaws
<1>6. "failing" \notin Flaws(g, read, s)
  <2>1. \A x \in read : ~Blocks(g.spec[x], x, Shaped)
    BY <1>2, <1>3 DEF SpecClean, RowClean, Blocks, Fails
  <2>2. \A x \in read : ~Blocks(g.neg[x], x, Shaped)
    BY <1>2, <1>3 DEF NegativesClean, RowClean, Blocks, Fails
  <2>3. \A y \in Adversarial : ~Blocks(g.checks[y], y, Shaped)
    BY <1>2 DEF AdversarialClean
  <2> QED BY <2>1, <2>2, <2>3 DEF Flaws
<1>7. "leaking" \notin Flaws(g, read, s)
  BY <1>2 DEF Flaws, SecretClean
<1>8. Flaws(g, read, s) \subseteq Flaw
  BY DEF Flaws
<1> QED BY <1>4, <1>5, <1>6, <1>7, <1>8 DEF Flaw
-----------------------------------------------------------------------------
(* Induction                                                               *)

\* The invariant holds before the first turn.
LEMMA InitInv == Init => IInv
<1> SUFFICES ASSUME Init PROVE IInv
  OBVIOUS
<1> USE CycleAssumption, BacklogAssumption DEF Init
<1>1. PICK b \in Backlogs :
        head = [backlog |-> b, ledger |-> [t \in Task |-> IF Terminal(b, t) THEN 1 ELSE 0],
                marker |-> NextTask(b), pin |-> 0, boot |-> 0]
  OBVIOUS
<1>2. b \in [Task -> Status \ {"in_progress"}] /\ NextTask(b) \in Task
  BY NextTaskIsFree
<1>3. InProgress(b) = {}
  BY <1>2 DEF InProgress
<1>4. TypeOK
  <2>1. head \in Files
    BY <1>1, <1>2 DEF Files
  <2>2. mirror \in Task
    BY <1>1, <1>2
  <2>3. cycle \in [Task -> Cycle]
    BY DEF Cycle
  <2>4. pc \in [Wake -> Unlocked \cup Locked]
    BY DEF Unlocked
  <2>5. /\ saw \in [Wake -> 0 .. MaxEvents]
        /\ kept \in [Wake -> [pin : 0 .. MaxEvents, boot : 0 .. MaxEvents]]
    BY DEF Unkept
  <2>6. work \in Files /\ index \in Files /\ origin \in Files
    BY <2>1
  <2>7. task \in [Wake -> Task \cup {NoTask}] /\ verify \in Verify /\ holder = NoWake
    OBVIOUS
  <2>8. 0 \in 0 .. MaxEvents /\ contract = 0 /\ faults = 0
    OBVIOUS
  <2>9. merged = {} /\ flaws = {} /\ cut = {} /\ ahead = FALSE /\ behind = FALSE
    OBVIOUS
  <2> HIDE DEF Init
  <2> QED BY <2>1, <2>2, <2>3, <2>4, <2>5, <2>6, <2>7, <2>8, <2>9 DEF TypeOK
<1>5. ExclusiveInv /\ CycleInv
  BY DEF ExclusiveInv, CycleInv, CycleAt, InCycle, Ongoing, Locked
<1>6. WorkInv
  BY <1>1, <1>2, <1>3 DEF WorkInv, Solo, Terminal
<1>7. StagedInv
  BY <1>1, <1>2, <1>3 DEF StagedInv, Whole, Solo, Terminal
<1>8. GateInv
  BY DEF GateInv
<1>9. OpenInv
  BY DEF OpenInv, OpenTask, OpenAt, Starting, InCycle, Locked
<1>10. OnceInv
  <2>1. \A t \in Task : head.ledger[t] = IF Terminal(b, t) THEN 1 ELSE 0
    BY <1>1
  <2>2. work = head /\ index = head /\ head.backlog = b
    BY <1>1
  <2> HIDE DEF Init
  <2>3. ASSUME NEW t \in Task
        PROVE  head.ledger[t] =< 1 /\ (head.ledger[t] > 0 => Terminal(head.backlog, t))
    <3>1. head.ledger[t] = IF Terminal(b, t) THEN 1 ELSE 0
      BY <2>1
    <3> HIDE <1>1, <2>1
    <3> QED BY <2>2, <3>1
  <2> QED BY <2>2, <2>3 DEF OnceInv
<1> QED BY <1>4, <1>5, <1>6, <1>7, <1>8, <1>9, <1>10 DEF IInv

\* No step of a turn, no fault and no release of the skill breaks it.
LEMMA NextInv == IInv /\ [Next]_vars => IInv'
<1> SUFFICES ASSUME IInv, [Next]_vars PROVE IInv'
  OBVIOUS
<1> USE CycleAssumption, BacklogAssumption
    DEF IInv, Starting, CycleAt, OpenTask, OpenAt, At, Goto, repo, steady, syncVars, cycleVars, history, InCycle, Locked, Ongoing
<1>1. ASSUME NEW w \in Wake, Begin(w) PROVE IInv'
  <2> USE <1>1 DEF Begin
  <2>1. TypeOK' BY DEF TypeOK, Files, Cycle, Unlocked
  <2>2. ExclusiveInv' BY DEF TypeOK, ExclusiveInv
  <2>3. CycleInv' BY DEF TypeOK, ExclusiveInv, CycleInv, Files, InProgress
  <2>4. WorkInv' BY DEF WorkInv, Solo, InProgress, Terminal
  <2>5. StagedInv' BY DEF StagedInv, Whole, Solo, InProgress, Terminal
  <2>6. GateInv' BY DEF TypeOK, ExclusiveInv, GateInv, Cycle
  <2>7. OpenInv' BY DEF TypeOK, ExclusiveInv, CycleInv, OpenInv, Files, Cycle, InProgress, Terminal
  <2>8. OnceInv' BY DEF TypeOK, ExclusiveInv, CycleInv, WorkInv, OnceInv, Files, InProgress, Terminal
  <2> QED BY <2>1, <2>2, <2>3, <2>4, <2>5, <2>6, <2>7, <2>8
<1>2. ASSUME NEW w \in Wake, SyncCheck(w) PROVE IInv'
  <2> USE <1>2 DEF SyncCheck, Checked
  <2>1. TypeOK' BY DEF TypeOK, Files, Cycle, Unlocked
  <2>2. ExclusiveInv' BY DEF TypeOK, ExclusiveInv
  <2>3. CycleInv' BY DEF TypeOK, ExclusiveInv, CycleInv, Files, InProgress
  <2>4. WorkInv' BY DEF TypeOK, ExclusiveInv, CycleInv, WorkInv, StagedInv, Files, Whole, Solo, InProgress, Terminal
  <2>5. StagedInv' BY DEF TypeOK, CycleInv, WorkInv, StagedInv, Files, Whole, Solo, InProgress, Terminal
  <2>6. GateInv' BY DEF TypeOK, ExclusiveInv, GateInv, Cycle
  <2>7. OpenInv' BY DEF TypeOK, ExclusiveInv, CycleInv, OpenInv, Files, Cycle, InProgress, Terminal
  <2>8. OnceInv' BY DEF TypeOK, ExclusiveInv, CycleInv, WorkInv, OnceInv, Files, InProgress, Terminal
  <2> QED BY <2>1, <2>2, <2>3, <2>4, <2>5, <2>6, <2>7, <2>8
<1>3. ASSUME NEW w \in Wake, SyncWrite(w) PROVE IInv'
  <2> USE <1>3 DEF SyncWrite
  <2>1. TypeOK' BY DEF TypeOK, Files, Cycle, Unlocked
  <2>2. ExclusiveInv' BY DEF TypeOK, ExclusiveInv
  <2>3. CycleInv' BY DEF TypeOK, ExclusiveInv, CycleInv, Files, InProgress
  <2>4. WorkInv' BY DEF TypeOK, ExclusiveInv, CycleInv, WorkInv, StagedInv, Files, Whole, Solo, InProgress, Terminal
  <2>5. StagedInv' BY DEF TypeOK, CycleInv, WorkInv, StagedInv, Files, Whole, Solo, InProgress, Terminal
  <2>6. GateInv' BY DEF TypeOK, ExclusiveInv, GateInv, Cycle
  <2>7. OpenInv' BY DEF TypeOK, ExclusiveInv, CycleInv, OpenInv, Files, Cycle, InProgress, Terminal
  <2>8. OnceInv' BY DEF TypeOK, ExclusiveInv, CycleInv, WorkInv, OnceInv, Files, InProgress, Terminal
  <2> QED BY <2>1, <2>2, <2>3, <2>4, <2>5, <2>6, <2>7, <2>8
<1>4. ASSUME NEW w \in Wake, SyncBoot(w) PROVE IInv'
  <2> USE <1>4 DEF SyncBoot, Rebound, Bound
  <2>1. PICK pin \in 0 .. MaxEvents, boot \in 0 .. MaxEvents :
           work' = [work EXCEPT !.pin = pin, !.boot = boot]
    <3>1. CASE Bound([work EXCEPT !.boot = saw[w]])
      <4>1. work' = [work EXCEPT !.pin = work.pin, !.boot = saw[w]]
        BY <3>1 DEF TypeOK, Files
      <4> QED BY <4>1 DEF TypeOK, Files
    <3>2. CASE ~Bound([work EXCEPT !.boot = saw[w]])
      BY <3>2 DEF TypeOK
    <3> QED BY <3>1, <3>2
  <2>2. work' \in Files /\ work'.backlog = work.backlog /\ work'.ledger = work.ledger
    BY <2>1 DEF TypeOK, Files
  <2>3. pc' = [pc EXCEPT ![w] = "syncAdd"] \/ pc' = [pc EXCEPT ![w] = "idle"]
    OBVIOUS
  <2>4. UNCHANGED <<index, head, origin, ahead, behind, mirror, steady, holder, syncVars, cycleVars, history>>
    OBVIOUS
  <2>5. pc[w] = "syncBoot"
    OBVIOUS
  <2> HIDE <1>4 DEF SyncBoot, Rebound, Bound
  <2>6. TypeOK' BY <2>2, <2>3, <2>4 DEF TypeOK, Unlocked
  <2>7. ExclusiveInv' BY <2>3, <2>4 DEF TypeOK, ExclusiveInv
  <2>8. \A v \in Wake : IF v = w THEN pc'[v] \notin Locked ELSE pc'[v] = pc[v]
    BY <2>3 DEF TypeOK
  <2>9. CycleInv'
    <3> SUFFICES ASSUME NEW v \in Wake, pc'[v] = pc[v], v # w PROVE CycleAt(v)'
      BY <2>8 DEF CycleInv
    <3> QED BY <2>2, <2>4 DEF CycleInv, CycleAt, InProgress
  <2>10. WorkInv' BY <2>2 DEF WorkInv, Solo, InProgress, Terminal
  <2>11. StagedInv' BY <2>4 DEF StagedInv, Whole
  <2>12. GateInv' BY <2>3, <2>4 DEF TypeOK, GateInv
  <2>13. OpenInv'
    <3>1. ASSUME NEW t \in Task PROVE OpenTask(t)'
      BY <2>2, <2>4 DEF OpenInv, Terminal
    <3>2. ASSUME NEW v \in Wake PROVE OpenAt(v)'
      BY <2>2, <2>4, <2>8 DEF OpenInv, Terminal
    <3> QED BY <3>1, <3>2 DEF OpenInv
  <2>14. OnceInv' BY <2>2, <2>4, <2>5, <2>8 DEF OnceInv, Terminal
  <2> QED BY <2>6, <2>7, <2>9, <2>10, <2>11, <2>12, <2>13, <2>14
<1>5. ASSUME NEW w \in Wake, SyncAdd(w) PROVE IInv'
  <2> USE <1>5 DEF SyncAdd
  <2>1. TypeOK' BY DEF TypeOK, Files, Cycle, Unlocked
  <2>2. ExclusiveInv' BY DEF TypeOK, ExclusiveInv
  <2>3. CycleInv' BY DEF TypeOK, ExclusiveInv, CycleInv, Files, InProgress
  <2>4. WorkInv' BY DEF TypeOK, ExclusiveInv, CycleInv, WorkInv, StagedInv, Files, Whole, Solo, InProgress, Terminal
  <2>5. StagedInv' BY DEF TypeOK, CycleInv, WorkInv, StagedInv, Files, Whole, Solo, InProgress, Terminal
  <2>6. GateInv' BY DEF TypeOK, ExclusiveInv, GateInv, Cycle
  <2>7. OpenInv' BY DEF TypeOK, ExclusiveInv, CycleInv, OpenInv, Files, Cycle, InProgress, Terminal
  <2>8. OnceInv' BY DEF TypeOK, ExclusiveInv, CycleInv, WorkInv, OnceInv, Files, InProgress, Terminal
  <2> QED BY <2>1, <2>2, <2>3, <2>4, <2>5, <2>6, <2>7, <2>8
<1>6. ASSUME NEW w \in Wake, SyncCommit(w) PROVE IInv'
  <2> USE <1>6 DEF SyncCommit, CommitIndex
  <2>1. TypeOK' BY DEF TypeOK, Files, Cycle, Unlocked
  <2>2. ExclusiveInv' BY DEF TypeOK, ExclusiveInv
  <2>3. CycleInv' BY DEF TypeOK, ExclusiveInv, CycleInv, Files, InProgress
  <2>4. WorkInv' BY DEF TypeOK, ExclusiveInv, CycleInv, WorkInv, StagedInv, Files, Whole, Solo, InProgress, Terminal
  <2>5. StagedInv' BY DEF TypeOK, CycleInv, WorkInv, StagedInv, Files, Whole, Solo, InProgress, Terminal
  <2>6. GateInv' BY DEF TypeOK, ExclusiveInv, GateInv, Cycle
  <2>7. OpenInv' BY DEF TypeOK, ExclusiveInv, CycleInv, OpenInv, Files, Cycle, InProgress, Terminal
  <2>8. OnceInv' BY DEF TypeOK, ExclusiveInv, CycleInv, WorkInv, OnceInv, Files, InProgress, Terminal
  <2> QED BY <2>1, <2>2, <2>3, <2>4, <2>5, <2>6, <2>7, <2>8
<1>7. ASSUME NEW w \in Wake, SyncClean(w) PROVE IInv'
  <2> USE <1>7 DEF SyncClean
  <2>1. TypeOK' BY DEF TypeOK, Files, Cycle, Unlocked
  <2>2. ExclusiveInv' BY DEF TypeOK, ExclusiveInv
  <2>3. CycleInv' BY DEF TypeOK, ExclusiveInv, CycleInv, Files, InProgress
  <2>4. WorkInv' BY DEF TypeOK, ExclusiveInv, CycleInv, WorkInv, StagedInv, Files, Whole, Solo, InProgress, Terminal
  <2>5. StagedInv' BY DEF TypeOK, CycleInv, WorkInv, StagedInv, Files, Whole, Solo, InProgress, Terminal
  <2>6. GateInv' BY DEF TypeOK, ExclusiveInv, GateInv, Cycle
  <2>7. OpenInv' BY DEF TypeOK, ExclusiveInv, CycleInv, OpenInv, Files, Cycle, InProgress, Terminal
  <2>8. OnceInv' BY DEF TypeOK, ExclusiveInv, CycleInv, WorkInv, OnceInv, Files, InProgress, Terminal
  <2> QED BY <2>1, <2>2, <2>3, <2>4, <2>5, <2>6, <2>7, <2>8
<1>8. ASSUME NEW w \in Wake, SyncPush(w) PROVE IInv'
  <2> USE <1>8 DEF SyncPush, Push
  <2>1. TypeOK' BY ZenonT(60) DEF TypeOK, Files, Cycle, Unlocked
  <2>2. ExclusiveInv' BY DEF TypeOK, ExclusiveInv
  <2>3. CycleInv' BY DEF TypeOK, ExclusiveInv, CycleInv, Files, InProgress
  <2>4. WorkInv' BY DEF TypeOK, ExclusiveInv, CycleInv, WorkInv, StagedInv, Files, Whole, Solo, InProgress, Terminal
  <2>5. StagedInv' BY DEF TypeOK, CycleInv, WorkInv, StagedInv, Files, Whole, Solo, InProgress, Terminal
  <2>6. GateInv' BY DEF TypeOK, ExclusiveInv, GateInv, Cycle
  <2>7. OpenInv' BY DEF TypeOK, ExclusiveInv, CycleInv, OpenInv, Files, Cycle, InProgress, Terminal
  <2>8. OnceInv' BY DEF TypeOK, ExclusiveInv, CycleInv, WorkInv, OnceInv, Files, InProgress, Terminal
  <2> QED BY <2>1, <2>2, <2>3, <2>4, <2>5, <2>6, <2>7, <2>8
<1>9. ASSUME NEW w \in Wake, Acquire(w) PROVE IInv'
  <2> USE <1>9 DEF Acquire, Forget, HolderLives
  <2>1. TypeOK' BY DEF TypeOK, Files, Cycle, Unlocked, Unkept
  <2>2. ExclusiveInv' BY DEF TypeOK, ExclusiveInv
  <2>3. CycleInv' BY DEF TypeOK, ExclusiveInv, CycleInv, Files, InProgress
  <2>4. WorkInv' BY DEF WorkInv, Solo, InProgress, Terminal
  <2>5. StagedInv' BY DEF StagedInv, Whole, Solo, InProgress, Terminal
  <2>6. GateInv' BY DEF TypeOK, ExclusiveInv, GateInv, Cycle
  <2>7. OpenInv' BY DEF TypeOK, ExclusiveInv, CycleInv, OpenInv, Files, Cycle, InProgress, Terminal
  <2>8. OnceInv' BY DEF TypeOK, ExclusiveInv, CycleInv, WorkInv, OnceInv, Files, InProgress, Terminal
  <2> QED BY <2>1, <2>2, <2>3, <2>4, <2>5, <2>6, <2>7, <2>8
<1>10. ASSUME NEW w \in Wake, Select(w) PROVE IInv'
  <2> USE <1>10 DEF Select, MayStart, Bound, Dirty
  <2>1. TypeOK' BY DEF TypeOK, Files, Cycle, Unlocked
  <2>2. ExclusiveInv' BY DEF TypeOK, ExclusiveInv
  <2>3. CycleInv' BY DEF TypeOK, ExclusiveInv, CycleInv, Files, InProgress
  <2>4. WorkInv' BY DEF WorkInv, Solo, InProgress, Terminal
  <2>5. StagedInv' BY DEF StagedInv, Whole, Solo, InProgress, Terminal
  <2>6. GateInv' BY DEF TypeOK, ExclusiveInv, GateInv, Cycle
  <2>7. OpenInv'
    <3>1. PICK t \in Task : MayStart(t) /\ task' = [task EXCEPT ![w] = t]
      OBVIOUS
    <3>2. work.backlog[t] = "pending"
      BY <3>1, NextTaskIsFree
    <3>3. t \notin merged
      BY <3>2 DEF OpenInv
    <3>4. \A v \in Wake : /\ pc'[v] = IF v = w THEN "start" ELSE pc[v]
                         /\ task'[v] = IF v = w THEN t ELSE task[v]
      BY <3>1 DEF TypeOK
    <3>5. UNCHANGED <<work, index, head, cycle, merged>>
      OBVIOUS
    <3> HIDE <1>10 DEF Select
    <3>6. ASSUME NEW u \in Task PROVE OpenTask(u)'
      BY <3>5 DEF OpenInv, Terminal
    <3>7. ASSUME NEW v \in Wake PROVE OpenAt(v)'
      BY <3>3, <3>4, <3>5 DEF OpenInv, Terminal
    <3> QED BY <3>6, <3>7 DEF OpenInv
  <2>8. OnceInv'
    <3>1. UNCHANGED <<work, index, head, cut>>
      OBVIOUS
    <3>2. \A v \in Wake : pc[v] = "backlog" => pc'[v] = "backlog" /\ task'[v] = task[v]
      BY DEF TypeOK
    <3> HIDE <1>10 DEF Select
    <3> QED BY <3>1, <3>2 DEF OnceInv, Terminal
  <2> QED BY <2>1, <2>2, <2>3, <2>4, <2>5, <2>6, <2>7, <2>8
<1>11. ASSUME NEW w \in Wake, Refuse(w) PROVE IInv'
  <2> USE <1>11 DEF Refuse
  <2>1. TypeOK' BY DEF TypeOK, Files, Cycle, Unlocked
  <2>2. ExclusiveInv' BY DEF TypeOK, ExclusiveInv
  <2>3. CycleInv' BY DEF TypeOK, ExclusiveInv, CycleInv, Files, InProgress
  <2>4. WorkInv' BY DEF WorkInv, Solo, InProgress, Terminal
  <2>5. StagedInv' BY DEF StagedInv, Whole, Solo, InProgress, Terminal
  <2>6. GateInv' BY DEF TypeOK, ExclusiveInv, GateInv, Cycle
  <2>7. OpenInv' BY DEF TypeOK, ExclusiveInv, CycleInv, OpenInv, Files, Cycle, InProgress, Terminal
  <2>8. OnceInv' BY DEF TypeOK, ExclusiveInv, CycleInv, WorkInv, OnceInv, Files, InProgress, Terminal
  <2> QED BY <2>1, <2>2, <2>3, <2>4, <2>5, <2>6, <2>7, <2>8
<1>12. ASSUME NEW w \in Wake, Resume(w) PROVE IInv'
  <2> USE <1>12 DEF Resume, Bound, ResumeAt
  <2>1. TypeOK' BY DEF TypeOK, Files, Cycle, Unlocked
  <2>2. ExclusiveInv' BY DEF TypeOK, ExclusiveInv
  <2>3. CycleInv' BY DEF TypeOK, ExclusiveInv, CycleInv, Files, InProgress
  <2>4. WorkInv' BY DEF WorkInv, Solo, InProgress, Terminal
  <2>5. StagedInv' BY DEF StagedInv, Whole, Solo, InProgress, Terminal
  <2>6. GateInv' BY DEF TypeOK, ExclusiveInv, GateInv, Cycle
  <2>7. OpenInv' BY DEF TypeOK, ExclusiveInv, CycleInv, OpenInv, Files, Cycle, InProgress, Terminal
  <2>8. OnceInv' BY DEF TypeOK, ExclusiveInv, CycleInv, WorkInv, OnceInv, Files, InProgress, Terminal
  <2> QED BY <2>1, <2>2, <2>3, <2>4, <2>5, <2>6, <2>7, <2>8
<1>13. ASSUME NEW w \in Wake, Release(w) PROVE IInv'
  <2> USE <1>13 DEF Release
  <2>1. TypeOK' BY DEF TypeOK, Files, Cycle, Unlocked
  <2>2. ExclusiveInv' BY DEF TypeOK, ExclusiveInv
  <2>3. CycleInv' BY DEF TypeOK, ExclusiveInv, CycleInv, Files, InProgress
  <2>4. WorkInv' BY DEF WorkInv, Solo, InProgress, Terminal
  <2>5. StagedInv' BY DEF StagedInv, Whole, Solo, InProgress, Terminal
  <2>6. GateInv' BY DEF TypeOK, ExclusiveInv, GateInv, Cycle
  <2>7. OpenInv' BY DEF TypeOK, ExclusiveInv, CycleInv, OpenInv, Files, Cycle, InProgress, Terminal
  <2>8. OnceInv' BY DEF TypeOK, ExclusiveInv, CycleInv, WorkInv, OnceInv, Files, InProgress, Terminal
  <2> QED BY <2>1, <2>2, <2>3, <2>4, <2>5, <2>6, <2>7, <2>8
<1>14. ASSUME NEW w \in Wake, StartEdit(w) PROVE IInv'
  <2> USE <1>14 DEF StartEdit
  <2>1. task[w] \in Task BY DEF CycleInv
  <2>2. /\ work.backlog \in [Task -> Status] /\ work'.ledger = work.ledger
         /\ work'.backlog = [work.backlog EXCEPT ![task[w]] = "in_progress"]
         /\ work.backlog = index.backlog /\ InProgress(work.backlog) = {}
         /\ task[w] = NextTask(work.backlog)
    BY DEF TypeOK, Files, CycleInv
  <2>3. /\ work.backlog[task[w]] = "pending"
         /\ \A d \in BlockedBy[task[w]] : work.backlog[d] = "completed"
    BY <2>1, <2>2, NextTaskIsFree
  <2>4. InProgress(work'.backlog) = {task[w]}
    BY <2>1, <2>2 DEF InProgress
  <2>5. TypeOK' BY <2>1 DEF TypeOK, Files, Unlocked, Status
  <2>6. ExclusiveInv' BY DEF TypeOK, ExclusiveInv
  <2>7. \A v \in Wake : pc'[v] = IF v = w THEN "startAdd" ELSE pc[v]
    BY DEF TypeOK
  <2>8. \A v \in Wake : v # w => pc[v] \notin Locked
    BY DEF ExclusiveInv
  <2>9. verify # "empty" /\ UNCHANGED <<index, task, verify>>
    BY DEF CycleInv
  <2>10. work'.backlog = [index'.backlog EXCEPT ![task'[w]] = "in_progress"]
    BY <2>2, <2>9
  <2>11. index'.backlog[task'[w]] = "pending"
    BY <2>2, <2>3, <2>9
  <2>12. task[w] \notin BlockedBy[task[w]]
    BY <2>1, <2>3
  <2>13. \A d \in BlockedBy[task[w]] : d \in Task
    BY <2>1 DEF WellFormed
  <2>14. Solo(work'.backlog)
    BY <2>1, <2>2, <2>3, <2>4, <2>12, <2>13 DEF Solo
  <2>15. WorkInv' BY <2>1, <2>2, <2>14 DEF WorkInv, Terminal
  <2>16. StagedInv' BY DEF TypeOK, CycleInv, WorkInv, StagedInv, Files, Whole, Solo, InProgress, Terminal
  <2>17. GateInv' BY DEF TypeOK, ExclusiveInv, GateInv, Cycle
  <2>18. CycleInv'
    <3> HIDE <1>14 DEF StartEdit
    <3>1. CycleAt(w)'
      BY <2>1, <2>4, <2>7, <2>9, <2>10, <2>11
    <3>2. ASSUME NEW v \in Wake, v # w PROVE CycleAt(v)'
      BY <2>7, <2>8, <3>2
    <3> QED BY <3>1, <3>2 DEF CycleInv
  <2>19. OpenInv'
    <3>1. UNCHANGED <<head, cycle, merged>> /\ task[w] \notin merged
      BY DEF OpenInv
    <3> HIDE <1>14 DEF StartEdit
    <3>2. ASSUME NEW t \in Task PROVE OpenTask(t)'
      BY <2>1, <2>2, <2>3, <2>9, <3>1, ZenonT(60) DEF OpenInv, Terminal
    <3>3. ASSUME NEW v \in Wake PROVE OpenAt(v)'
      BY <2>7, <2>8, <2>9, <3>1
    <3> QED BY <3>2, <3>3 DEF OpenInv
  <2>20. OnceInv'
    <3>1. UNCHANGED <<head, cut>> /\ pc[w] = "start"
      OBVIOUS
    <3> HIDE <1>14 DEF StartEdit
    <3>2. \A t \in Task : Terminal(work.backlog, t) => Terminal(work'.backlog, t)
      BY <2>1, <2>2, <2>3 DEF Terminal
    <3>3. \A t \in Task, v \in Wake : pc[v] # "backlog" \/ v = w
      BY <2>8
    <3> QED BY <2>2, <2>9, <3>1, <3>2, <3>3 DEF OnceInv
  <2> QED BY <2>5, <2>6, <2>18, <2>15, <2>16, <2>17, <2>19, <2>20
<1>15. ASSUME NEW w \in Wake, StartAdd(w) PROVE IInv'
  <2> USE <1>15 DEF StartAdd
  <2>1. TypeOK' BY DEF TypeOK, Files, Cycle, Unlocked
  <2>2. ExclusiveInv' BY DEF TypeOK, ExclusiveInv
  <2>3. CycleInv' BY DEF TypeOK, ExclusiveInv, CycleInv, Files, InProgress
  <2>4. WorkInv' BY DEF TypeOK, ExclusiveInv, CycleInv, WorkInv, StagedInv, Files, Whole, Solo, InProgress, Terminal
  <2>5. StagedInv' BY DEF TypeOK, CycleInv, WorkInv, StagedInv, Files, Whole, Solo, InProgress, Terminal
  <2>6. GateInv' BY DEF TypeOK, ExclusiveInv, GateInv, Cycle
  <2>7. OpenInv' BY DEF TypeOK, ExclusiveInv, CycleInv, OpenInv, Files, Cycle, InProgress, Terminal
  <2>8. OnceInv' BY DEF TypeOK, ExclusiveInv, CycleInv, WorkInv, OnceInv, Files, InProgress, Terminal
  <2> QED BY <2>1, <2>2, <2>3, <2>4, <2>5, <2>6, <2>7, <2>8
<1>16. ASSUME NEW w \in Wake, StartCommit(w) PROVE IInv'
  <2> USE <1>16 DEF StartCommit, CommitIndex
  <2>1. TypeOK' BY ZenonT(60) DEF TypeOK, Files, Cycle, Unlocked
  <2>2. ExclusiveInv' BY DEF TypeOK, ExclusiveInv
  <2>3. CycleInv' BY DEF TypeOK, ExclusiveInv, CycleInv, Files, InProgress
  <2>4. WorkInv' BY DEF TypeOK, ExclusiveInv, CycleInv, WorkInv, StagedInv, Files, Whole, Solo, InProgress, Terminal
  <2>5. StagedInv' BY DEF TypeOK, CycleInv, WorkInv, StagedInv, Files, Whole, Solo, InProgress, Terminal
  <2>6. GateInv' BY DEF TypeOK, ExclusiveInv, GateInv, Cycle
  <2>7. OpenInv' BY DEF TypeOK, ExclusiveInv, CycleInv, OpenInv, Files, Cycle, InProgress, Terminal
  <2>8. OnceInv' BY DEF TypeOK, ExclusiveInv, CycleInv, WorkInv, OnceInv, Files, InProgress, Terminal
  <2> QED BY <2>1, <2>2, <2>3, <2>4, <2>5, <2>6, <2>7, <2>8
<1>17. ASSUME NEW w \in Wake, StartPush(w) PROVE IInv'
  <2> USE <1>17 DEF StartPush, Push
  <2>1. task[w] \in Task BY DEF CycleInv
  <2>2. cycle' \in [Task -> Cycle] BY <2>1 DEF TypeOK, Cycle
  <2>3. TypeOK' BY <2>1, <2>2 DEF TypeOK, Unlocked
  <2>4. ExclusiveInv' BY DEF TypeOK, ExclusiveInv
  <2>5. CycleInv' BY DEF TypeOK, ExclusiveInv, CycleInv, Files, InProgress
  <2>6. WorkInv' BY DEF TypeOK, ExclusiveInv, CycleInv, WorkInv, StagedInv, Files, Whole, Solo, InProgress, Terminal
  <2>7. StagedInv' BY DEF TypeOK, CycleInv, WorkInv, StagedInv, Files, Whole, Solo, InProgress, Terminal
  <2>8. GateInv'
    <3>1. \A t \in Task : cycle'[t].gated = cycle[t].gated /\ cycle'[t].at \in {cycle[t].at} \cup {"open"}
      BY <2>1 DEF TypeOK, Cycle
    <3>2. \A v \in Wake : pc'[v] \in {pc[v]} \cup {"release", "grade"}
      BY DEF TypeOK
    <3>3. UNCHANGED <<task, merged>> /\ flaws' \in {flaws, {}}
      OBVIOUS
    <3>4. \A v \in Wake : pc[v] \in Locked => task[v] \in Task \/ pc[v] \in {"ready", "release"}
      BY DEF CycleInv
    <3> HIDE <1>17 DEF StartPush
    <3> QED BY <3>1, <3>2, <3>3, <3>4 DEF GateInv, TypeOK
  <2>9. OpenInv'
    <3>1. \A t \in Task : cycle'[t].at =
             IF t = task[w] /\ pc'[w] = "grade" THEN "open" ELSE cycle[t].at
      BY DEF TypeOK, Cycle
    <3>2. UNCHANGED <<work, index, head, task, merged>>
      OBVIOUS
    <3>3. \A v \in Wake : IF v = w THEN pc'[v] \in {"release", "grade"} ELSE pc'[v] = pc[v]
      BY DEF TypeOK
    <3>4. \A v \in Wake : v # w => pc[v] \notin Locked
      BY DEF ExclusiveInv
    <3>5. OpenTask(task[w]) /\ OpenAt(w)
      BY <2>1 DEF OpenInv
    <3>6. /\ work.backlog[task[w]] = "in_progress"
          /\ {index.backlog[task[w]], head.backlog[task[w]]} \cap {"pending", "parked"} = {}
          /\ task[w] \notin merged
      BY <3>5 DEF CycleInv, InProgress
    <3> HIDE <1>17 DEF StartPush
    <3>7. ASSUME NEW t \in Task PROVE OpenTask(t)'
      BY <3>1, <3>2, <3>6 DEF OpenInv, Terminal
    <3>8. ASSUME NEW v \in Wake PROVE OpenAt(v)'
      BY <2>1, <3>1, <3>2, <3>3, <3>4
    <3> QED BY <3>7, <3>8 DEF OpenInv
  <2>10. OnceInv' BY DEF TypeOK, ExclusiveInv, CycleInv, WorkInv, OnceInv, Files, InProgress, Terminal
  <2> QED BY <2>3, <2>4, <2>5, <2>6, <2>7, <2>8, <2>9, <2>10
<1>18. ASSUME NEW w \in Wake, Graded(w) PROVE IInv'
  <2> USE <1>18 DEF Graded
  <2>1. task[w] \in Task BY DEF CycleInv
  <2>2. cycle' \in [Task -> Cycle]
    <3>1. cycle' = [cycle EXCEPT ![task[w]].gated = TRUE]
      OBVIOUS
    <3> HIDE <1>18
    <3> QED BY <2>1, <3>1, ZenonT(60) DEF TypeOK, Cycle
  <2>3. PICK g \in Grades, read \in SUBSET Acceptance, st \in VerifyStatus(verify) :
            Lint(g, read) /\ Gate(g, st) /\ flaws' = Flaws(g, read, st)
    <3>1. PICK c \in Cleared, st \in VerifyStatus(verify) :
              Gate(c.grade, st) /\ flaws' = Flaws(c.grade, c.read, st)
      OBVIOUS
    <3>2. c.grade \in Grades /\ c.read \in SUBSET Acceptance /\ Lint(c.grade, c.read)
      BY DEF Cleared
    <3> QED BY <3>1, <3>2
  <2>4. st \in {"pass", "fail", "not_required"}
    BY DEF CycleInv, TypeOK, Verify, VerifyStatus
  <2>5. flaws' \subseteq {"lowered", "overlooked", "unread"}
    BY <2>3, <2>4, GateFlaws
  <2>6. TypeOK' BY <2>1, <2>2, <2>5 DEF TypeOK, Unlocked, Flaw
  <2>7. ExclusiveInv' BY DEF TypeOK, ExclusiveInv
  <2>8. CycleInv' BY DEF TypeOK, ExclusiveInv, CycleInv, Files, InProgress
  <2>9. WorkInv' BY DEF TypeOK, ExclusiveInv, CycleInv, WorkInv, StagedInv, Files, Whole, Solo, InProgress, Terminal
  <2>10. StagedInv' BY DEF TypeOK, CycleInv, WorkInv, StagedInv, Files, Whole, Solo, InProgress, Terminal
  <2>11. GateInv' BY <2>1, <2>5 DEF TypeOK, ExclusiveInv, GateInv, Cycle
  <2>12. OpenInv'
    <3>1. \A t \in Task : cycle'[t].at = cycle[t].at
      BY <2>1 DEF TypeOK, Cycle
    <3>2. UNCHANGED <<work, index, head, task, merged>>
      OBVIOUS
    <3>3. \A v \in Wake : pc'[v] = IF v = w THEN "pr" ELSE pc[v]
      BY DEF TypeOK
    <3>4. \A v \in Wake : v # w => pc[v] \notin Locked
      BY DEF ExclusiveInv
    <3>5. OpenTask(task[w]) /\ OpenAt(w)
      BY <2>1 DEF OpenInv
    <3>6. pc[w] = "grade"
      OBVIOUS
    <3> HIDE <1>18 DEF Graded
    <3>7. ASSUME NEW t \in Task PROVE OpenTask(t)'
      BY <3>1, <3>2 DEF OpenInv, Terminal
    <3>8. ASSUME NEW v \in Wake PROVE OpenAt(v)'
      BY <2>1, <3>1, <3>2, <3>3, <3>4, <3>5, <3>6
    <3> QED BY <3>7, <3>8 DEF OpenInv
  <2>13. OnceInv' BY DEF TypeOK, ExclusiveInv, CycleInv, WorkInv, OnceInv, Files, InProgress, Terminal
  <2> QED BY <2>6, <2>7, <2>8, <2>9, <2>10, <2>11, <2>12, <2>13
<1>19. ASSUME NEW w \in Wake, Escalate(w) PROVE IInv'
  <2> USE <1>19 DEF Escalate
  <2>1. TypeOK' BY DEF TypeOK, Files, Cycle, Unlocked
  <2>2. ExclusiveInv' BY DEF TypeOK, ExclusiveInv
  <2>3. CycleInv' BY DEF TypeOK, ExclusiveInv, CycleInv, Files, InProgress
  <2>4. WorkInv' BY DEF TypeOK, ExclusiveInv, CycleInv, WorkInv, StagedInv, Files, Whole, Solo, InProgress, Terminal
  <2>5. StagedInv' BY DEF TypeOK, CycleInv, WorkInv, StagedInv, Files, Whole, Solo, InProgress, Terminal
  <2>6. GateInv' BY DEF TypeOK, ExclusiveInv, GateInv, Cycle
  <2>7. OpenInv' BY DEF TypeOK, ExclusiveInv, CycleInv, OpenInv, Files, Cycle, InProgress, Terminal
  <2>8. OnceInv' BY DEF TypeOK, ExclusiveInv, CycleInv, WorkInv, OnceInv, Files, InProgress, Terminal
  <2> QED BY <2>1, <2>2, <2>3, <2>4, <2>5, <2>6, <2>7, <2>8
<1>20. ASSUME NEW w \in Wake, OpenPr(w) PROVE IInv'
  <2> USE <1>20 DEF OpenPr
  <2>1. TypeOK' BY ZenonT(60) DEF TypeOK, Files, Cycle, Unlocked
  <2>2. ExclusiveInv' BY DEF TypeOK, ExclusiveInv
  <2>3. CycleInv' BY DEF TypeOK, ExclusiveInv, CycleInv, Files, InProgress
  <2>4. WorkInv' BY DEF TypeOK, ExclusiveInv, CycleInv, WorkInv, StagedInv, Files, Whole, Solo, InProgress, Terminal
  <2>5. StagedInv' BY DEF TypeOK, CycleInv, WorkInv, StagedInv, Files, Whole, Solo, InProgress, Terminal
  <2>6. GateInv' BY DEF TypeOK, ExclusiveInv, GateInv, Cycle
  <2>7. OpenInv' BY DEF TypeOK, ExclusiveInv, CycleInv, OpenInv, Files, Cycle, InProgress, Terminal
  <2>8. OnceInv' BY DEF TypeOK, ExclusiveInv, CycleInv, WorkInv, OnceInv, Files, InProgress, Terminal
  <2> QED BY <2>1, <2>2, <2>3, <2>4, <2>5, <2>6, <2>7, <2>8
<1>21. ASSUME NEW w \in Wake, Merge(w) PROVE IInv'
  <2> USE <1>21 DEF Merge
  <2>1. task[w] \in Task BY DEF CycleInv
  <2>2. TypeOK' BY <2>1 DEF TypeOK, Unlocked
  <2>3. ExclusiveInv' BY DEF TypeOK, ExclusiveInv
  <2>4. CycleInv' BY DEF TypeOK, ExclusiveInv, CycleInv, Files, InProgress
  <2>5. WorkInv' BY DEF TypeOK, ExclusiveInv, CycleInv, WorkInv, StagedInv, Files, Whole, Solo, InProgress, Terminal
  <2>6. StagedInv' BY DEF TypeOK, CycleInv, WorkInv, StagedInv, Files, Whole, Solo, InProgress, Terminal
  <2>7. GateInv' BY DEF TypeOK, ExclusiveInv, GateInv, Cycle
  <2>8. OpenInv' BY DEF TypeOK, ExclusiveInv, CycleInv, OpenInv, Files, Cycle, InProgress, Terminal
  <2>9. OnceInv' BY DEF TypeOK, ExclusiveInv, CycleInv, WorkInv, OnceInv, Files, InProgress, Terminal
  <2> QED BY <2>2, <2>3, <2>4, <2>5, <2>6, <2>7, <2>8, <2>9
<1>22. ASSUME NEW w \in Wake, Pull(w) PROVE IInv'
  <2> USE <1>22 DEF Pull
  <2>1. task[w] \in Task BY DEF CycleInv
  <2>2. cycle' \in [Task -> Cycle] BY <2>1 DEF TypeOK, Cycle
  <2>3. TypeOK' BY <2>1, <2>2 DEF TypeOK, Unlocked
  <2>4. ExclusiveInv' BY DEF TypeOK, ExclusiveInv
  <2>5. CycleInv' BY DEF TypeOK, ExclusiveInv, CycleInv, Files, InProgress
  <2>6. WorkInv' BY DEF TypeOK, ExclusiveInv, CycleInv, WorkInv, StagedInv, Files, Whole, Solo, InProgress, Terminal
  <2>7. StagedInv' BY DEF TypeOK, CycleInv, WorkInv, StagedInv, Files, Whole, Solo, InProgress, Terminal
  <2>8. GateInv' BY DEF TypeOK, ExclusiveInv, GateInv, Cycle
  <2>9. OpenInv' BY DEF TypeOK, ExclusiveInv, CycleInv, OpenInv, Files, Cycle, InProgress, Terminal
  <2>10. OnceInv' BY DEF TypeOK, ExclusiveInv, CycleInv, WorkInv, OnceInv, Files, InProgress, Terminal
  <2> QED BY <2>3, <2>4, <2>5, <2>6, <2>7, <2>8, <2>9, <2>10
<1>23. ASSUME NEW w \in Wake, Close(w) PROVE IInv'
  <2> USE <1>23 DEF Close, Fails10
  <2>1. task[w] \in Task BY DEF CycleInv
  <2>2. cycle' \in [Task -> Cycle]
    <3>1. PICK at \in {"step_10", "failed"} : cycle' = [cycle EXCEPT ![task[w]].at = at]
      OBVIOUS
    <3> HIDE <1>23
    <3> QED BY <2>1, <3>1 DEF TypeOK, Cycle
  <2>3. TypeOK' BY <2>1, <2>2 DEF TypeOK, Unlocked
  <2>4. ExclusiveInv' BY DEF TypeOK, ExclusiveInv
  <2>5. CycleInv' BY DEF TypeOK, ExclusiveInv, CycleInv, Files, InProgress
  <2>6. WorkInv' BY DEF TypeOK, ExclusiveInv, CycleInv, WorkInv, StagedInv, Files, Whole, Solo, InProgress, Terminal
  <2>7. StagedInv' BY DEF TypeOK, CycleInv, WorkInv, StagedInv, Files, Whole, Solo, InProgress, Terminal
  <2>8. GateInv'
    <3>1. \A t \in Task : cycle'[t].gated = cycle[t].gated /\ cycle'[t].at \in {cycle[t].at} \cup {"step_10", "failed"}
      BY <2>1 DEF TypeOK, Cycle
    <3>2. \A v \in Wake : pc'[v] \in {pc[v]} \cup {"release", "ledger"}
      BY DEF TypeOK
    <3>3. UNCHANGED <<task, merged>> /\ flaws' \in {flaws, {}}
      OBVIOUS
    <3>4. \A v \in Wake : pc[v] \in Locked => task[v] \in Task \/ pc[v] \in {"ready", "release"}
      BY DEF CycleInv
    <3> HIDE <1>23 DEF Close
    <3> QED BY <3>1, <3>2, <3>3, <3>4 DEF GateInv, TypeOK
  <2>9. OpenInv'
    <3>1. \A t \in Task : IF t = task[w] THEN cycle'[t].at \in {"step_10", "failed"}
                                         ELSE cycle'[t].at = cycle[t].at
      BY <2>1 DEF TypeOK, Cycle
    <3>2. UNCHANGED <<work, index, head, task, merged>>
      OBVIOUS
    <3>3. \A v \in Wake : IF v = w THEN pc'[v] \in {"ledger", "release"} ELSE pc'[v] = pc[v]
      BY DEF TypeOK
    <3>4. \A v \in Wake : v # w => pc[v] \notin Locked
      BY DEF ExclusiveInv
    <3>5. OpenTask(task[w]) /\ OpenAt(w)
      BY <2>1 DEF OpenInv
    <3>6. cycle[task[w]].at # "none"
      BY <3>5
    <3> HIDE <1>23 DEF Close
    <3>7. ASSUME NEW t \in Task PROVE OpenTask(t)'
      BY <3>1, <3>2, <3>6 DEF OpenInv, Terminal
    <3>8. ASSUME NEW v \in Wake PROVE OpenAt(v)'
      BY <2>1, <3>1, <3>2, <3>3, <3>4
    <3> QED BY <3>7, <3>8 DEF OpenInv
  <2>10. OnceInv' BY DEF TypeOK, ExclusiveInv, CycleInv, WorkInv, OnceInv, Files, InProgress, Terminal
  <2> QED BY <2>3, <2>4, <2>5, <2>6, <2>7, <2>8, <2>9, <2>10
<1>24. ASSUME NEW w \in Wake, WriteLedger(w) PROVE IInv'
  <2> USE <1>24 DEF WriteLedger
  <2>1. task[w] \in Task BY DEF CycleInv
  <2>2. work' \in Files BY <2>1, SMTT(30) DEF TypeOK, Files
  <2>3. TypeOK' BY <2>2 DEF TypeOK, Unlocked
  <2>4. ExclusiveInv' BY DEF TypeOK, ExclusiveInv
  <2>5. CycleInv' BY DEF TypeOK, ExclusiveInv, CycleInv, Files, InProgress
  <2>6. WorkInv' BY DEF TypeOK, ExclusiveInv, CycleInv, WorkInv, StagedInv, Files, Whole, Solo, InProgress, Terminal
  <2>7. StagedInv' BY DEF TypeOK, CycleInv, WorkInv, StagedInv, Files, Whole, Solo, InProgress, Terminal
  <2>8. GateInv' BY DEF TypeOK, ExclusiveInv, GateInv, Cycle
  <2>9. OpenInv' BY DEF TypeOK, ExclusiveInv, CycleInv, OpenInv, Files, Cycle, InProgress, Terminal
  <2>10. OnceInv' BY DEF TypeOK, ExclusiveInv, CycleInv, WorkInv, OnceInv, Files, InProgress, Terminal
  <2> QED BY <2>3, <2>4, <2>5, <2>6, <2>7, <2>8, <2>9, <2>10
<1>25. ASSUME NEW w \in Wake, WriteBacklog(w) PROVE IInv'
  <2> USE <1>25 DEF WriteBacklog
  <2>1. TypeOK' BY DEF TypeOK, Files, Cycle, Unlocked, CycleInv, Status
  <2>2. ExclusiveInv' BY DEF TypeOK, ExclusiveInv
  <2>3. CycleInv' BY DEF TypeOK, ExclusiveInv, CycleInv, Files, InProgress
  <2>4. WorkInv' BY DEF TypeOK, ExclusiveInv, CycleInv, WorkInv, StagedInv, Files, Whole, Solo, InProgress, Terminal
  <2>5. StagedInv' BY DEF TypeOK, CycleInv, WorkInv, StagedInv, Files, Whole, Solo, InProgress, Terminal
  <2>6. GateInv' BY DEF TypeOK, ExclusiveInv, GateInv, Cycle
  <2>7. OpenInv'
    <3>1. task[w] \in Task BY DEF CycleInv
    <3>2. /\ \A t \in Task : work'.backlog[t] = IF t = task[w] THEN work'.backlog[t] ELSE work.backlog[t]
          /\ work'.backlog[task[w]] \in {"completed", "escalated"}
      BY <3>1 DEF TypeOK, Files
    <3>3. UNCHANGED <<index, head, cycle, task, merged>>
      OBVIOUS
    <3>4. \A v \in Wake : pc'[v] = IF v = w THEN "marker" ELSE pc[v]
      BY DEF TypeOK
    <3>5. \A v \in Wake : v # w => pc[v] \notin Locked
      BY DEF ExclusiveInv
    <3>6. pc[w] = "backlog" /\ OpenAt(w)
      BY DEF OpenInv
    <3> HIDE <1>25 DEF WriteBacklog
    <3>7. ASSUME NEW t \in Task PROVE OpenTask(t)'
      <4>1. CASE t = task[w]
        BY <3>2, <3>3, <4>1 DEF OpenInv, OpenTask, Terminal
      <4>2. CASE t # task[w]
        BY <3>2, <3>3, <4>2 DEF OpenInv, OpenTask, Terminal
      <4> QED BY <4>1, <4>2
    <3>8. ASSUME NEW v \in Wake PROVE OpenAt(v)'
      <4>1. CASE v = w
        BY <3>2, <3>3, <3>4, <3>6, <4>1 DEF OpenAt, Terminal, Starting, InCycle, Locked
      <4>2. CASE v # w
        BY <3>3, <3>4, <3>5, <4>2 DEF OpenAt, Starting, InCycle, Locked
      <4> QED BY <4>1, <4>2
    <3> QED BY <3>7, <3>8 DEF OpenInv
  <2>8. OnceInv' BY DEF TypeOK, ExclusiveInv, CycleInv, WorkInv, OnceInv, Files, InProgress, Terminal
  <2> QED BY <2>1, <2>2, <2>3, <2>4, <2>5, <2>6, <2>7, <2>8
<1>26. ASSUME NEW w \in Wake, SyncMarker(w) PROVE IInv'
  <2> USE <1>26 DEF SyncMarker, Synced
  <2>1. TargetTask(work.backlog) \in Task \cup {NoTask} BY TargetTaskIsTask
  <2>2. work' \in Files BY <2>1 DEF TypeOK, Files
  <2>3. TypeOK' BY <2>2 DEF TypeOK, Unlocked
  <2>4. ExclusiveInv' BY DEF TypeOK, ExclusiveInv
  <2>5. CycleInv' BY DEF TypeOK, ExclusiveInv, CycleInv, Files, InProgress
  <2>6. WorkInv' BY DEF TypeOK, ExclusiveInv, CycleInv, WorkInv, StagedInv, Files, Whole, Solo, InProgress, Terminal
  <2>7. StagedInv' BY DEF TypeOK, CycleInv, WorkInv, StagedInv, Files, Whole, Solo, InProgress, Terminal
  <2>8. GateInv' BY DEF TypeOK, ExclusiveInv, GateInv, Cycle
  <2>9. OpenInv'
    <3>1. work'.backlog = work.backlog /\ UNCHANGED <<index, head, task, cycle, merged>>
      BY DEF TypeOK, Files
    <3>2. \A v \in Wake : IF v = w THEN pc'[v] \in {"stage", "hook", "revert"} ELSE pc'[v] = pc[v]
      BY DEF TypeOK
    <3>3. \A v \in Wake : v # w => pc[v] \notin Locked
      BY DEF ExclusiveInv
    <3>4. pc[w] = "marker" /\ OpenAt(w)
      BY DEF OpenInv
    <3> HIDE <1>26 DEF SyncMarker
    <3>5. ASSUME NEW t \in Task PROVE OpenTask(t)'
      BY <3>1 DEF OpenInv, Terminal
    <3>6. ASSUME NEW v \in Wake PROVE OpenAt(v)'
      BY <3>1, <3>2, <3>3, <3>4 DEF Terminal
    <3> QED BY <3>5, <3>6 DEF OpenInv
  <2>10. OnceInv' BY DEF TypeOK, ExclusiveInv, CycleInv, WorkInv, OnceInv, Files, InProgress, Terminal
  <2> QED BY <2>3, <2>4, <2>5, <2>6, <2>7, <2>8, <2>9, <2>10
<1>27. ASSUME NEW w \in Wake, Hook(w) PROVE IInv'
  <2> USE <1>27 DEF Hook
  <2>1. TypeOK' BY DEF TypeOK, Files, Cycle, Unlocked
  <2>2. ExclusiveInv' BY DEF TypeOK, ExclusiveInv
  <2>3. CycleInv' BY DEF TypeOK, ExclusiveInv, CycleInv, Files, InProgress
  <2>4. WorkInv' BY DEF TypeOK, ExclusiveInv, CycleInv, WorkInv, StagedInv, Files, Whole, Solo, InProgress, Terminal
  <2>5. StagedInv' BY DEF TypeOK, CycleInv, WorkInv, StagedInv, Files, Whole, Solo, InProgress, Terminal
  <2>6. GateInv' BY DEF TypeOK, ExclusiveInv, GateInv, Cycle
  <2>7. OpenInv' BY DEF TypeOK, ExclusiveInv, CycleInv, OpenInv, Files, Cycle, InProgress, Terminal
  <2>8. OnceInv' BY DEF TypeOK, ExclusiveInv, CycleInv, WorkInv, OnceInv, Files, InProgress, Terminal
  <2> QED BY <2>1, <2>2, <2>3, <2>4, <2>5, <2>6, <2>7, <2>8
<1>28. ASSUME NEW w \in Wake, Stage(w) PROVE IInv'
  <2> USE <1>28 DEF Stage
  <2>1. TypeOK' BY DEF TypeOK, Files, Cycle, Unlocked
  <2>2. ExclusiveInv' BY DEF TypeOK, ExclusiveInv
  <2>3. CycleInv' BY DEF TypeOK, ExclusiveInv, CycleInv, Files, InProgress
  <2>4. WorkInv' BY DEF TypeOK, ExclusiveInv, CycleInv, WorkInv, StagedInv, Files, Whole, Solo, InProgress, Terminal
  <2>5. InProgress(work.backlog) = {} BY DEF CycleInv
  <2>6. index'.backlog = work.backlog /\ index'.ledger = work.ledger BY DEF TypeOK, Files
  <2>7. \A t \in Task : work.backlog[t] # "in_progress" BY <2>5 DEF InProgress
  <2>8. work.backlog \in [Task -> Status] BY DEF TypeOK, Files
  <2>9. Whole(work) BY <2>7, <2>8 DEF WorkInv, Whole, Terminal, Status
  <2>10. StagedInv' BY <2>6, <2>9 DEF StagedInv, WorkInv, Whole
  <2>11. GateInv' BY DEF TypeOK, ExclusiveInv, GateInv, Cycle
  <2>12. OpenInv' BY DEF TypeOK, ExclusiveInv, CycleInv, OpenInv, Files, Cycle, InProgress, Terminal
  <2>13. OnceInv' BY DEF TypeOK, ExclusiveInv, CycleInv, WorkInv, OnceInv, Files, InProgress, Terminal
  <2> QED BY <2>1, <2>2, <2>3, <2>4, <2>10, <2>11, <2>12, <2>13
<1>29. ASSUME NEW w \in Wake, Commit(w) PROVE IInv'
  <2> USE <1>29 DEF Commit, CommitIndex
  <2>1. TypeOK' BY ZenonT(60) DEF TypeOK, Files, Cycle, Unlocked
  <2>2. ExclusiveInv' BY DEF TypeOK, ExclusiveInv
  <2>3. CycleInv' BY DEF TypeOK, ExclusiveInv, CycleInv, Files, InProgress
  <2>4. WorkInv' BY DEF TypeOK, ExclusiveInv, CycleInv, WorkInv, StagedInv, Files, Whole, Solo, InProgress, Terminal
  <2>5. StagedInv' BY DEF TypeOK, CycleInv, WorkInv, StagedInv, Files, Whole, Solo, InProgress, Terminal
  <2>6. GateInv' BY DEF TypeOK, ExclusiveInv, GateInv, Cycle
  <2>7. OpenInv' BY DEF TypeOK, ExclusiveInv, CycleInv, OpenInv, Files, Cycle, InProgress, Terminal
  <2>8. OnceInv' BY DEF TypeOK, ExclusiveInv, CycleInv, WorkInv, OnceInv, Files, InProgress, Terminal
  <2> QED BY <2>1, <2>2, <2>3, <2>4, <2>5, <2>6, <2>7, <2>8
<1>30. ASSUME NEW w \in Wake, Revert(w) PROVE IInv'
  <2> USE <1>30 DEF Revert, Reverted, Fails10
  <2>1. task[w] \in Task BY DEF CycleInv
  <2>2. cycle' \in [Task -> Cycle] BY <2>1 DEF TypeOK, Cycle
  <2>3. work' \in Files
    <3>1. PICK m \in Task :
            work' = [work EXCEPT !.ledger = head.ledger, !.backlog = head.backlog, !.marker = m]
      BY DEF TypeOK, Files
    <3> HIDE <1>30
    <3> QED BY <3>1 DEF TypeOK, Files
  <2>4. index' \in Files
    <3>1. PICK m \in Task :
            index' = [index EXCEPT !.ledger = head.ledger, !.backlog = head.backlog, !.marker = m]
      BY DEF TypeOK, Files
    <3> HIDE <1>30
    <3> QED BY <3>1 DEF TypeOK, Files
  <2>5. TypeOK' BY <2>2, <2>3, <2>4 DEF TypeOK, Unlocked
  <2>6. ExclusiveInv' BY DEF TypeOK, ExclusiveInv
  <2>7. CycleInv' BY DEF TypeOK, ExclusiveInv, CycleInv, Files, InProgress
  <2>8. WorkInv'
    <3>1. work'.ledger = head.ledger /\ work'.backlog = head.backlog
      BY DEF TypeOK, Files
    <3>2. Whole(head) /\ Solo(head.backlog)
      BY DEF StagedInv
    <3>3. \A t \in Task : head.ledger[t] > 0 => head.backlog[t] \notin {"pending", "parked"}
      BY <3>2 DEF Whole, Terminal
    <3> HIDE <1>30
    <3> QED BY <3>1, <3>2, <3>3 DEF WorkInv, Whole, Solo, Terminal, InProgress
  <2>9. StagedInv' BY DEF TypeOK, CycleInv, WorkInv, StagedInv, Files, Whole, Solo, InProgress, Terminal
  <2>10. GateInv' BY DEF TypeOK, ExclusiveInv, GateInv, Cycle
  <2>11. OpenInv' BY DEF TypeOK, ExclusiveInv, CycleInv, OpenInv, Files, Cycle, InProgress, Terminal
  <2>12. OnceInv'
    <3>1. /\ work'.ledger = head.ledger /\ work'.backlog = head.backlog
          /\ index'.ledger = head.ledger /\ UNCHANGED <<head, cut>>
      BY DEF TypeOK, Files
    <3>2. Whole(head)
      BY DEF StagedInv
    <3> HIDE <1>30 DEF Revert
    <3> QED BY <3>1, <3>2 DEF OnceInv, Whole, Terminal
  <2> QED BY <2>5, <2>6, <2>7, <2>8, <2>9, <2>10, <2>11, <2>12
<1>31. ASSUME NEW w \in Wake, ClosePush(w) PROVE IInv'
  <2> USE <1>31 DEF ClosePush, Push, Fails10
  <2>1. task[w] \in Task BY DEF CycleInv
  <2>2. cycle' \in [Task -> Cycle] BY <2>1, SMTT(30) DEF TypeOK, Cycle
  <2>3. TypeOK' BY <2>1, <2>2 DEF TypeOK, Unlocked
  <2>4. ExclusiveInv' BY DEF TypeOK, ExclusiveInv
  <2>5. CycleInv' BY DEF TypeOK, ExclusiveInv, CycleInv, Files, InProgress
  <2>6. WorkInv' BY DEF TypeOK, ExclusiveInv, CycleInv, WorkInv, StagedInv, Files, Whole, Solo, InProgress, Terminal
  <2>7. StagedInv' BY DEF TypeOK, CycleInv, WorkInv, StagedInv, Files, Whole, Solo, InProgress, Terminal
  <2>8. GateInv'
    <3>1. \A t \in Task : cycle'[t].gated = cycle[t].gated /\ cycle'[t].at \in {cycle[t].at} \cup {"failed"}
      BY <2>1 DEF TypeOK, Cycle
    <3>2. \A v \in Wake : pc'[v] \in {pc[v]} \cup {"release", "finish"}
      BY DEF TypeOK
    <3>3. UNCHANGED <<task, merged>> /\ flaws' \in {flaws, {}}
      OBVIOUS
    <3>4. \A v \in Wake : pc[v] \in Locked => task[v] \in Task \/ pc[v] \in {"ready", "release"}
      BY DEF CycleInv
    <3> HIDE <1>31 DEF ClosePush
    <3> QED BY <3>1, <3>2, <3>3, <3>4 DEF GateInv, TypeOK
  <2>9. OpenInv'
    <3>1. \A t \in Task : cycle'[t].at =
             IF t = task[w] /\ pc'[w] = "release" THEN "failed" ELSE cycle[t].at
      BY <2>1 DEF TypeOK, Cycle
    <3>2. UNCHANGED <<work, index, head, task, merged>>
      OBVIOUS
    <3>3. \A v \in Wake : IF v = w THEN pc'[v] \in {"release", "finish"} ELSE pc'[v] = pc[v]
      BY DEF TypeOK
    <3>4. \A v \in Wake : v # w => pc[v] \notin Locked
      BY DEF ExclusiveInv
    <3>5. OpenTask(task[w]) /\ OpenAt(w)
      BY <2>1 DEF OpenInv
    <3>6. pc[w] = "push" /\ cycle[task[w]].at # "none"
      BY <3>5
    <3> HIDE <1>31 DEF ClosePush
    <3>7. ASSUME NEW t \in Task PROVE OpenTask(t)'
      BY <3>1, <3>2, <3>6 DEF OpenInv, Terminal
    <3>8. ASSUME NEW v \in Wake PROVE OpenAt(v)'
      BY <2>1, <3>1, <3>2, <3>3, <3>4, <3>5, <3>6, ZenonT(60) DEF Terminal
    <3> QED BY <3>7, <3>8 DEF OpenInv
  <2>10. OnceInv' BY DEF TypeOK, ExclusiveInv, CycleInv, WorkInv, OnceInv, Files, InProgress, Terminal
  <2> QED BY <2>3, <2>4, <2>5, <2>6, <2>7, <2>8, <2>9, <2>10
<1>32. ASSUME NEW w \in Wake, Finish(w) PROVE IInv'
  <2> USE <1>32 DEF Finish
  <2>1. TypeOK' BY ZenonT(60) DEF TypeOK, Files, Cycle, Unlocked
  <2>2. ExclusiveInv' BY DEF TypeOK, ExclusiveInv
  <2>3. CycleInv' BY DEF TypeOK, ExclusiveInv, CycleInv, Files, InProgress
  <2>4. WorkInv' BY DEF TypeOK, ExclusiveInv, CycleInv, WorkInv, StagedInv, Files, Whole, Solo, InProgress, Terminal
  <2>5. StagedInv' BY DEF TypeOK, CycleInv, WorkInv, StagedInv, Files, Whole, Solo, InProgress, Terminal
  <2>6. GateInv' BY DEF TypeOK, ExclusiveInv, GateInv, Cycle
  <2>7. OpenInv' BY DEF TypeOK, ExclusiveInv, CycleInv, OpenInv, Files, Cycle, InProgress, Terminal
  <2>8. OnceInv' BY DEF TypeOK, ExclusiveInv, CycleInv, WorkInv, OnceInv, Files, InProgress, Terminal
  <2> QED BY <2>1, <2>2, <2>3, <2>4, <2>5, <2>6, <2>7, <2>8
<1>33. ASSUME NEW w \in Wake, PushFails(w) PROVE IInv'
  <2> USE <1>33 DEF PushFails, Fault, Phase
  <2>1. TypeOK' BY DEF TypeOK, Files, Cycle, Unlocked
  <2>2. ExclusiveInv' BY DEF TypeOK, ExclusiveInv
  <2>3. CycleInv' BY DEF TypeOK, ExclusiveInv, CycleInv, Files, InProgress
  <2>4. WorkInv' BY DEF TypeOK, ExclusiveInv, CycleInv, WorkInv, StagedInv, Files, Whole, Solo, InProgress, Terminal
  <2>5. StagedInv' BY DEF TypeOK, CycleInv, WorkInv, StagedInv, Files, Whole, Solo, InProgress, Terminal
  <2>6. GateInv' BY DEF TypeOK, ExclusiveInv, GateInv, Cycle
  <2>7. OpenInv' BY DEF TypeOK, ExclusiveInv, CycleInv, OpenInv, Files, Cycle, InProgress, Terminal
  <2>8. OnceInv' BY DEF TypeOK, ExclusiveInv, CycleInv, WorkInv, OnceInv, Files, InProgress, Terminal
  <2> QED BY <2>1, <2>2, <2>3, <2>4, <2>5, <2>6, <2>7, <2>8
<1>34. ASSUME NEW w \in Wake, Die(w) PROVE IInv'
  <2> USE <1>34 DEF Die, Fault, Phase, Forget
  <2>1. TypeOK' BY DEF TypeOK, Files, Cycle, Unlocked, Unkept
  <2>2. ExclusiveInv' BY DEF TypeOK, ExclusiveInv
  <2>3. CycleInv' BY DEF TypeOK, ExclusiveInv, CycleInv, Files, InProgress
  <2>4. WorkInv' BY DEF TypeOK, ExclusiveInv, CycleInv, WorkInv, StagedInv, Files, Whole, Solo, InProgress, Terminal
  <2>5. StagedInv' BY DEF TypeOK, CycleInv, WorkInv, StagedInv, Files, Whole, Solo, InProgress, Terminal
  <2>6. GateInv' BY DEF TypeOK, ExclusiveInv, GateInv, Cycle
  <2>7. OpenInv' BY DEF TypeOK, ExclusiveInv, CycleInv, OpenInv, Files, Cycle, InProgress, Terminal
  <2>8. OnceInv' BY DEF TypeOK, ExclusiveInv, CycleInv, WorkInv, OnceInv, Files, InProgress, Terminal
  <2> QED BY <2>1, <2>2, <2>3, <2>4, <2>5, <2>6, <2>7, <2>8
<1>35. ASSUME NewContract PROVE IInv'
  <2> USE <1>35 DEF NewContract
  <2>1. TypeOK' BY DEF TypeOK
  <2>2. ExclusiveInv' BY DEF ExclusiveInv
  <2>3. CycleInv' BY DEF CycleInv
  <2>4. WorkInv' BY DEF WorkInv
  <2>5. StagedInv' BY DEF StagedInv
  <2>6. GateInv' BY DEF GateInv
  <2>7. OpenInv' BY DEF TypeOK, ExclusiveInv, CycleInv, OpenInv, Files, Cycle, InProgress, Terminal
  <2>8. OnceInv' BY DEF TypeOK, ExclusiveInv, CycleInv, WorkInv, OnceInv, Files, InProgress, Terminal
  <2> QED BY <2>1, <2>2, <2>3, <2>4, <2>5, <2>6, <2>7, <2>8
<1>36. ASSUME UNCHANGED vars PROVE IInv'
  <2> USE <1>36 DEF vars
  <2>1. TypeOK' BY DEF TypeOK
  <2>2. ExclusiveInv' BY DEF ExclusiveInv
  <2>3. CycleInv' BY DEF CycleInv
  <2>4. WorkInv' BY DEF WorkInv
  <2>5. StagedInv' BY DEF StagedInv
  <2>6. GateInv' BY DEF GateInv
  <2>7. OpenInv' BY DEF TypeOK, ExclusiveInv, CycleInv, OpenInv, Files, Cycle, InProgress, Terminal
  <2>8. OnceInv' BY DEF TypeOK, ExclusiveInv, CycleInv, WorkInv, OnceInv, Files, InProgress, Terminal
  <2> QED BY <2>1, <2>2, <2>3, <2>4, <2>5, <2>6, <2>7, <2>8
<1>37. ASSUME NEW w \in Wake, GitFails(w) PROVE IInv'
  <2> USE <1>37 DEF GitFails, SyncGit, StartGit, CloseGit
  <2>1. TypeOK'
    <3>1. /\ UNCHANGED <<repo, mirror, steady, holder, syncVars, cycleVars>> /\ faults' \in 0 .. MaxEvents
          /\ cut' \in {cut \cup {"syncGit"}, cut \cup {"startGit"}, cut \cup {"closeGit"}}
          /\ \E l \in {"idle", "release", "revert"} : pc' = [pc EXCEPT ![w] = l]
      BY DEF TypeOK
    <3> HIDE <1>37
    <3> QED BY <3>1 DEF TypeOK, Unlocked, Locked
  <2>2. ExclusiveInv' BY DEF TypeOK, ExclusiveInv
  <2>3. CycleInv' BY DEF TypeOK, ExclusiveInv, CycleInv, Files, InProgress
  <2>4. WorkInv' BY DEF TypeOK, ExclusiveInv, CycleInv, WorkInv, StagedInv, Files, Whole, Solo, InProgress, Terminal
  <2>5. StagedInv' BY DEF TypeOK, CycleInv, WorkInv, StagedInv, Files, Whole, Solo, InProgress, Terminal
  <2>6. GateInv' BY DEF TypeOK, ExclusiveInv, GateInv, Cycle
  <2>7. OpenInv' BY DEF TypeOK, ExclusiveInv, CycleInv, OpenInv, Files, Cycle, InProgress, Terminal
  <2>8. OnceInv' BY DEF TypeOK, ExclusiveInv, CycleInv, WorkInv, OnceInv, Files, InProgress, Terminal
  <2> QED BY <2>1, <2>2, <2>3, <2>4, <2>5, <2>6, <2>7, <2>8
<1> QED
  BY <1>1, <1>2, <1>3, <1>4, <1>5, <1>6, <1>7, <1>8, <1>9, <1>10, <1>11, <1>12, <1>13, <1>14, <1>15,
     <1>16, <1>17, <1>18, <1>19, <1>20, <1>21, <1>22, <1>23, <1>24, <1>25, <1>26, <1>27, <1>28,
     <1>29, <1>30, <1>31, <1>32, <1>33, <1>34, <1>35, <1>36, <1>37
     DEF Next, Turn, PinSync, Start, Middle, Step10

\* The invariant holds in every behaviour.
THEOREM Invariance == Spec => []IInv
<1>1. Init => IInv
  BY InitInv
<1>2. IInv /\ [Next]_vars => IInv'
  BY NextInv
<1> QED BY <1>1, <1>2, PTL DEF Spec

-----------------------------------------------------------------------------
(* Theorems                                                                *)

\* Every variable keeps its type.
THEOREM TypeCorrect == Spec => []TypeOK
<1>1. IInv => TypeOK
  BY DEF IInv
<1> QED BY <1>1, Invariance, PTL

\* At most one live turn is in a cycle.
OneTurnInCycle == \A v, w \in Wake : pc[v] \in Locked /\ pc[w] \in Locked => v = w

\* RUNNING.lock: two live turns are never in a cycle together, whatever
\* dead turns left in the lock.
THEOREM OneTurnAtATime == Spec => []OneTurnInCycle
<1>1. IInv => OneTurnInCycle
  BY DEF IInv, ExclusiveInv, OneTurnInCycle
<1> QED BY <1>1, Invariance, PTL

\* No commit tears the close, here or on origin.
THEOREM CloseIsAtomic == Spec => []LedgerAndBacklogTogether
<1>1. IInv => LedgerAndBacklogTogether
  BY DEF IInv, StagedInv, Whole, LedgerAndBacklogTogether
<1> QED BY <1>1, Invariance, PTL

\* A task has at most one row, as long as no turn dies in a close.
THEOREM CloseIsOnce == Spec => []LedgerOnce
<1>1. IInv => LedgerOnce
  BY DEF IInv, OnceInv, LedgerOnce
<1> QED BY <1>1, Invariance, PTL

\* At most one task is in progress on main, with its dependencies completed.
THEOREM OneCycleAtATime == Spec => []OneInProgress
<1>1. IInv => OneInProgress
  BY DEF IInv, StagedInv, Solo, OneInProgress
<1> QED BY <1>1, Invariance, PTL

\* A merged task passed the gate on a verified grade, but for the two named
\* ways past it.
THEOREM MergeIsEarned == Spec => []MergedIsGraded
<1>1. IInv => MergedIsGraded
  BY DEF IInv, GateInv, MergedIsGraded
<1> QED BY <1>1, Invariance, PTL

\* A merged PR is seen by the close-gap probe until its task is finished.
THEOREM MergeIsClosed == Spec => []CloseGapIsReported
<1>1. IInv => CloseGapIsReported
  <2> SUFFICES ASSUME IInv, NEW t \in merged, ~Terminal(work.backlog, t) PROVE CloseGap(t)
    BY DEF CloseGapIsReported
  <2>1. t \in Task /\ work.backlog[t] \in Status
    BY DEF IInv, TypeOK, Files
  <2>2. cycle[t].at \in {"step_7", "merged", "step_10", "failed"} /\ work.backlog[t] \notin {"pending", "parked"}
    BY <2>1 DEF IInv, OpenInv, OpenTask
  <2>3. work.backlog[t] = "in_progress"
    BY <2>1, <2>2 DEF Terminal, Status
  <2>4. InProgress(work.backlog) = {t}
    BY <2>1, <2>3 DEF IInv, WorkInv, Solo, InProgress
  <2>5. cycle[t].gated
    BY DEF IInv, GateInv
  <2> QED BY <2>2, <2>4, <2>5 DEF CloseGap, MergeEvidence
<1> QED BY <1>1, Invariance, PTL
=============================================================================
