----------------------------- MODULE EvolveLock -----------------------------
(***************************************************************************)
(* harness/evolve-loop/bin/evolve-lock.py: the lock file of a target       *)
(* (RUNNING.lock) or of the skill repository (SKILL.lock), the orchestrator *)
(* turns that acquire, heartbeat and release it, and the staged runner     *)
(* (run-codex-staged.sh) whose inflight records keep a stale RUNNING.lock  *)
(* from being taken over.                                                  *)
(*                                                                         *)
(* Every helper call is split at each file-system operation, and a call    *)
(* can die between any two of them.  Time is the age of the file's mtime   *)
(* and, per caller, the age of its last successful write; both stop at     *)
(* StaleSec, past which the code no longer tells ages apart, so the model  *)
(* needs no bound on time.                                                 *)
(***************************************************************************)
EXTENDS Integers

CONSTANTS Proc,        \* orchestrator turns; one token each, see token
          NoProc,      \* guard: nobody holds the flock
          NoFile,      \* lock: there is no lock file
          Torn,        \* lock: the file exists and carries no token yet
          StaleSec,    \* --stale-sec, in ticks
          UseInflight, \* TRUE: --inflight-dir is given (RUNNING.lock)
          MaxCrashes   \* bound: deaths of turns and runners in a behaviour

ASSUME LockAssumption ==
    /\ NoProc \notin Proc /\ NoFile \notin Proc /\ Torn \notin Proc
    /\ NoFile # Torn
    /\ StaleSec \in Nat \ {0}
    /\ UseInflight \in BOOLEAN
    /\ MaxCrashes \in Nat

VARIABLES
    lock,    \* whose token is in the lock file, Torn, or NoFile
    age,     \* time since the file's mtime, up to StaleSec
    guard,   \* holder of the flock on <lock>.guard
    pc,      \* where each caller is in its helper call
    token,   \* token[p]: p was given a token and believes it holds the lock
    lease,   \* time since p last wrote the lock file, up to StaleSec
    stage,   \* p's staged codex run
    fenced,  \* history: p's record was written while its lease was good
    crashes

vars == <<lock, age, guard, pc, token, lease, stage, fenced, crashes>>

\* A turn's position between two file-system operations of evolve-lock.py.
AtGuard == {"acqGuard", "hbGuard", "relGuard"}
InGuard == {"acqCreate", "acqWrite", "acqDone", "acqStat", "acqInflight",
            "acqReplace", "acqRecreate",
            "hbCheck", "hbReplace", "relCheck", "relUnlink"}

\* "spawned": codex runs, no record yet; "recorded": the runner keeps the
\* record; "abandoned": the runner died, its record stays on disk;
\* "unrecorded": the runner died before it wrote one.
StageState == {"none", "spawned", "recorded", "abandoned", "unrecorded"}

\* mutant: the age is taken as mtime minus now
OlderSwapped(t) == IF t < StaleSec THEN t - 1 ELSE t

Older(t) == IF t < StaleSec THEN t + 1 ELSE t

Init ==
    /\ lock = NoFile
    /\ age = 0
    /\ guard = NoProc
    /\ pc = [p \in Proc |-> "idle"]
    /\ token = [p \in Proc |-> FALSE]
    /\ lease = [p \in Proc |-> StaleSec]
    /\ stage = [p \in Proc |-> "none"]
    /\ fenced = [p \in Proc |-> FALSE]
    /\ crashes = 0

-----------------------------------------------------------------------------
(* Positions of a call.                                                    *)

Goto(p, l) == pc' = [pc EXCEPT ![p] = l]

\* The call ends: the flock is dropped (lock_guard's finally).
Return(p) ==
    /\ Goto(p, "idle")
    /\ guard' = NoProc

\* The caller no longer believes it holds the lock.
DropToken(p) ==
    /\ token' = [token EXCEPT ![p] = FALSE]
    /\ lease' = [lease EXCEPT ![p] = StaleSec]

GuardEntry == [l \in AtGuard |->
    CASE l = "acqGuard" -> "acqCreate"
      [] l = "hbGuard"  -> "hbCheck"
      [] l = "relGuard" -> "relCheck"]

\* mutant: the flock is not waited for
EnterGuardNoFlock(p) ==
    /\ pc[p] \in AtGuard
    /\ guard' = p
    /\ Goto(p, GuardEntry[pc[p]])
    /\ UNCHANGED <<lock, age, token, lease, stage, fenced, crashes>>

EnterGuard(p) ==
    /\ pc[p] \in AtGuard
    /\ guard = NoProc
    /\ guard' = p
    /\ Goto(p, GuardEntry[pc[p]])
    /\ UNCHANGED <<lock, age, token, lease, stage, fenced, crashes>>

-----------------------------------------------------------------------------
(* acquire                                                                 *)

StartAcquire(p) ==
    /\ pc[p] = "idle"
    /\ ~token[p]
    /\ Goto(p, "acqGuard")
    /\ UNCHANGED <<lock, age, guard, token, lease, stage, fenced, crashes>>

\* os.open(O_CREAT | O_EXCL): the file appears empty.
CreateFile(p) ==
    /\ lock = NoFile
    /\ lock' = Torn
    /\ age' = 0
    /\ Goto(p, "acqWrite")
    /\ UNCHANGED guard

AcqCreate(p) ==
    /\ pc[p] = "acqCreate"
    /\ \/ CreateFile(p)
       \/ /\ lock # NoFile
          /\ Goto(p, "acqStat")
          /\ UNCHANGED <<lock, age, guard>>
    /\ UNCHANGED <<token, lease, stage, fenced, crashes>>

AcqWrite(p) ==
    /\ pc[p] = "acqWrite"
    /\ lock' = p
    /\ age' = 0
    /\ lease' = [lease EXCEPT ![p] = 0]
    /\ Goto(p, "acqDone")
    /\ UNCHANGED <<guard, token, stage, fenced, crashes>>

\* Exit 0: the caller reads the token off stdout.
AcqReturn(p) ==
    /\ pc[p] = "acqDone"
    /\ token' = [token EXCEPT ![p] = TRUE]
    /\ Return(p)
    /\ UNCHANGED <<lock, age, lease, stage, fenced, crashes>>

\* mutant: a file with no readable owner counts as locked for ever
AcqStatTornIsLocked(p) ==
    /\ pc[p] = "acqStat"
    /\ \/ (age < StaleSec \/ lock = Torn) /\ Return(p)
       \/ age = StaleSec /\ lock # Torn /\ Goto(p, "acqInflight") /\ UNCHANGED guard
    /\ UNCHANGED <<lock, age, token, lease, stage, fenced, crashes>>

\* Exit 11 while the file is young; otherwise look for inflight records.
AcqStat(p) ==
    /\ pc[p] = "acqStat"
    /\ \/ age < StaleSec /\ Return(p)
       \/ age = StaleSec /\ Goto(p, "acqInflight") /\ UNCHANGED guard
    /\ UNCHANGED <<lock, age, token, lease, stage, fenced, crashes>>

\* mutant: a record whose runner is gone does not count
LiveInflightOnly ==
    UseInflight /\ \E p \in Proc : stage[p] = "recorded"

\* Any record file answers TRUE, whether or not its process group is alive.
HasInflight ==
    UseInflight /\ \E p \in Proc : stage[p] \in {"recorded", "abandoned"}

AcqInflight(p) ==
    /\ pc[p] = "acqInflight"
    /\ \/ HasInflight /\ Return(p)
       \/ ~HasInflight /\ Goto(p, "acqReplace") /\ UNCHANGED guard
    /\ UNCHANGED <<lock, age, token, lease, stage, fenced, crashes>>

\* os.replace(path, stale_name)
AcqReplace(p) ==
    /\ pc[p] = "acqReplace"
    /\ lock' = NoFile
    /\ Goto(p, "acqRecreate")
    /\ UNCHANGED <<age, guard, token, lease, stage, fenced, crashes>>

\* The guard has been held since the replace, so the file is still absent
\* and the code's race_lost answer cannot happen.
AcqRecreate(p) ==
    /\ pc[p] = "acqRecreate"
    /\ CreateFile(p)
    /\ UNCHANGED <<token, lease, stage, fenced, crashes>>

-----------------------------------------------------------------------------
(* heartbeat                                                               *)

StartHeartbeat(p) ==
    /\ pc[p] = "idle"
    /\ token[p]
    /\ Goto(p, "hbGuard")
    /\ UNCHANGED <<lock, age, guard, token, lease, stage, fenced, crashes>>

\* Exit 12 on a foreign or missing token: the turn is blocked.
HbCheck(p) ==
    /\ pc[p] = "hbCheck"
    /\ \/ /\ lock = p
          /\ Goto(p, "hbReplace")
          /\ UNCHANGED <<guard, token, lease>>
       \/ /\ lock # p
          /\ Return(p)
          /\ DropToken(p)
    /\ UNCHANGED <<lock, age, stage, fenced, crashes>>

\* tmp.write_text; os.replace(tmp, path): same token, new mtime.
HbReplace(p) ==
    /\ pc[p] = "hbReplace"
    /\ lock' = p
    /\ age' = 0
    /\ lease' = [lease EXCEPT ![p] = 0]
    /\ Return(p)
    /\ UNCHANGED <<token, stage, fenced, crashes>>

-----------------------------------------------------------------------------
(* release                                                                 *)

\* A turn does not release under a stage it is still supervising.
StartRelease(p) ==
    /\ pc[p] = "idle"
    /\ token[p]
    /\ stage[p] \notin {"spawned", "recorded"}
    /\ Goto(p, "relGuard")
    /\ UNCHANGED <<lock, age, guard, token, lease, stage, fenced, crashes>>

\* mutant: the token is not compared
RelCheckAnyToken(p) ==
    /\ pc[p] = "relCheck"
    /\ \/ /\ lock # NoFile
          /\ Goto(p, "relUnlink")
          /\ UNCHANGED <<guard, token, lease>>
       \/ /\ lock = NoFile
          /\ Return(p)
          /\ DropToken(p)
    /\ UNCHANGED <<lock, age, stage, fenced, crashes>>

\* Exit 0 on a missing file, 12 on a foreign token: either way the turn
\* has nothing left to release.
RelCheck(p) ==
    /\ pc[p] = "relCheck"
    /\ \/ /\ lock = p
          /\ Goto(p, "relUnlink")
          /\ UNCHANGED <<guard, token, lease>>
       \/ /\ lock # p
          /\ Return(p)
          /\ DropToken(p)
    /\ UNCHANGED <<lock, age, stage, fenced, crashes>>

RelUnlink(p) ==
    /\ pc[p] = "relUnlink"
    /\ lock' = NoFile
    /\ Return(p)
    /\ DropToken(p)
    /\ fenced' = [fenced EXCEPT ![p] = FALSE]
    /\ UNCHANGED <<age, stage, crashes>>

-----------------------------------------------------------------------------
(* run-codex-staged.sh, as far as the lock can see it.  The runner is not  *)
(* given a token and never looks at the lock.                              *)

StageSpawn(p) ==
    /\ pc[p] = "idle"
    /\ token[p]
    /\ stage[p] = "none"
    /\ stage' = [stage EXCEPT ![p] = "spawned"]
    /\ UNCHANGED <<lock, age, guard, pc, token, lease, fenced, crashes>>

StageRecord(p) ==
    /\ stage[p] = "spawned"
    /\ stage' = [stage EXCEPT ![p] = "recorded"]
    /\ fenced' = [fenced EXCEPT ![p] = UseInflight /\ lock = p /\ age < StaleSec]
    /\ UNCHANGED <<lock, age, guard, pc, token, lease, crashes>>

\* codex ended or stalled and was killed: the record is removed.
StageEnd(p) ==
    /\ stage[p] = "recorded"
    /\ stage' = [stage EXCEPT ![p] = "none"]
    /\ fenced' = [fenced EXCEPT ![p] = FALSE]
    /\ UNCHANGED <<lock, age, guard, pc, token, lease, crashes>>

\* The runner is killed; codex, in its own process group, lives on.
RunnerDies(p) ==
    /\ crashes < MaxCrashes
    /\ stage[p] \in {"spawned", "recorded"}
    /\ stage' = [stage EXCEPT ![p] = IF @ = "spawned" THEN "unrecorded"
                                                      ELSE "abandoned"]
    /\ crashes' = crashes + 1
    /\ UNCHANGED <<lock, age, guard, pc, token, lease, fenced>>

UnrecordedEnds(p) ==
    /\ stage[p] = "unrecorded"
    /\ stage' = [stage EXCEPT ![p] = "none"]
    /\ UNCHANGED <<lock, age, guard, pc, token, lease, fenced, crashes>>

-----------------------------------------------------------------------------
(* Environment                                                             *)

Tick ==
    /\ age' = Older(age)
    /\ lease' = [p \in Proc |-> Older(lease[p])]
    /\ UNCHANGED <<lock, guard, pc, token, stage, fenced, crashes>>

\* mutant: the guard is a file that survives its owner
CrashKeepsGuard(p) ==
    /\ crashes < MaxCrashes
    /\ pc[p] # "idle" \/ token[p]
    /\ Goto(p, "idle")
    /\ DropToken(p)
    /\ crashes' = crashes + 1
    /\ UNCHANGED <<lock, age, guard, stage, fenced>>

\* A turn or its helper call ends without a release, at any point; the
\* token lives only in the turn, and the kernel drops a dead helper's flock.
Crash(p) ==
    /\ crashes < MaxCrashes
    /\ pc[p] # "idle" \/ token[p]
    /\ Goto(p, "idle")
    /\ guard' = IF guard = p THEN NoProc ELSE guard
    /\ DropToken(p)
    /\ crashes' = crashes + 1
    /\ UNCHANGED <<lock, age, stage, fenced>>

\* The steps of a helper call once it has the flock.
Body(p) ==
    \/ AcqCreate(p) \/ AcqWrite(p) \/ AcqReturn(p) \/ AcqStat(p)
    \/ AcqInflight(p) \/ AcqReplace(p) \/ AcqRecreate(p)
    \/ HbCheck(p) \/ HbReplace(p)
    \/ RelCheck(p) \/ RelUnlink(p)

Runner(p) ==
    StageSpawn(p) \/ StageRecord(p) \/ StageEnd(p) \/ UnrecordedEnds(p)

Next ==
    \/ \E p \in Proc :
          \/ StartAcquire(p) \/ StartHeartbeat(p) \/ StartRelease(p)
          \/ EnterGuard(p) \/ Body(p)
          \/ Runner(p) \/ RunnerDies(p) \/ Crash(p)
    \/ Tick

Spec == Init /\ [][Next]_vars

\* A call that has the flock runs on; a waiter on the flock is served in the
\* end (the kernel wakes waiters, and every holder lets go); turns keep
\* probing for the lock (the lock-held retry wake of commands/bs-evolve.md)
\* and heartbeat while they believe they hold it; a started stage is
\* recorded and ends.  Nothing obliges a turn to release.
Fairness ==
    /\ WF_vars(Tick)
    /\ \A p \in Proc :
          /\ WF_vars(Body(p))
          /\ SF_vars(EnterGuard(p))
          /\ WF_vars(StartAcquire(p))
          /\ WF_vars(StartHeartbeat(p))
          /\ WF_vars(StageRecord(p))
          /\ WF_vars(StageEnd(p))

FairSpec == Spec /\ Fairness

-----------------------------------------------------------------------------
(* Properties                                                              *)

TypeOK ==
    /\ lock \in Proc \cup {NoFile, Torn}
    /\ age \in 0..StaleSec
    /\ guard \in Proc \cup {NoProc}
    /\ pc \in [Proc -> {"idle"} \cup AtGuard \cup InGuard]
    /\ token \in [Proc -> BOOLEAN]
    /\ lease \in [Proc -> 0..StaleSec]
    /\ stage \in [Proc -> StageState]
    /\ fenced \in [Proc -> BOOLEAN]
    /\ crashes \in 0..MaxCrashes

\* p believes it holds the lock and wrote it less than StaleSec ago.
GoodLease(p) == token[p] /\ lease[p] < StaleSec

\* Two turns never both believe, within the stale limit, that the lock is
\* theirs, whatever the calls of others do between two of its steps.  A turn
\* past the limit may believe it wrongly: it learns so from exit 12 of its
\* next heartbeat or release (evolve-lock.py acquire, heartbeat, release).
LeaseExclusive ==
    \A p, q \in Proc : GoodLease(p) /\ GoodLease(q) => p = q

\* An inflight record written under a good lease keeps the lock its owner's
\* until the stage ends or the owner lets go: no takeover slips between the
\* record check and the replace, and the death of the turn, of the runner or
\* of both does not open the lock (has_live_or_unresolved_inflight).
RecordFencesTakeover ==
    \A p \in Proc : fenced[p] => lock = p

\* No helper call blocks for ever on the guard, even when the turns that
\* hold it die (lock_guard).
LockCallReturns ==
    \A p \in Proc : pc[p] # "idle" ~> pc[p] = "idle"

\* The file exists and no turn believes in the token it carries, if any.
AbandonedLock ==
    lock # NoFile /\ \A p \in Proc : ~(lock = p /\ token[p])

\* A lock left behind by a dead turn, an empty one included, does not stay
\* left behind, unless the record of a dead runner fences it: then acquire
\* fails closed until somebody resumes that stage (acquire's stale path).
AbandonedLockRecovers ==
    AbandonedLock ~> (~AbandonedLock \/ \E p \in Proc : stage[p] = "abandoned")

\* The lock file as the lease that the helper promises.
LeaseHolder == IF lock \in Proc THEN lock ELSE NoProc
LeaseExpired == lock \in Proc /\ age = StaleSec

Believers == {p \in Proc : token[p]}

L == INSTANCE Lease
       WITH holder <- LeaseHolder, believes <- Believers, expired <- LeaseExpired

\* The file operations of the helper implement the abstract lease: an owner
\* is displaced only by its own release or after its lease has run out, and
\* only the turn that was given a token renews or releases with it
\* (evolve-lock.py acquire, heartbeat, release).
ImplementsLease == L!Spec

-----------------------------------------------------------------------------
(* The inductive invariant behind the safety properties (EvolveLockProofs). *)

\* Exactly the holder of the flock is inside a helper's critical section.
GuardInv == \A p \in Proc : pc[p] \in InGuard <=> guard = p

\* What a call has established about the file still holds when it acts on it.
CheckInv ==
    \A p \in Proc :
        /\ pc[p] = "acqWrite" => lock = Torn
        /\ pc[p] = "acqDone" => lock = p /\ age <= lease[p]
        /\ pc[p] = "acqRecreate" => lock = NoFile
        /\ pc[p] \in {"acqStat", "acqInflight", "acqReplace"} => lock # NoFile
        /\ pc[p] \in {"acqInflight", "acqReplace"} => age = StaleSec
        /\ pc[p] \in {"hbReplace", "relUnlink"} => lock = p

\* Only a turn without a token acquires, only one with a token uses it.
BeliefInv ==
    \A p \in Proc :
        pc[p] # "idle" =>
            (token[p] <=> pc[p] \in {"hbGuard", "hbCheck", "hbReplace",
                                     "relGuard", "relCheck", "relUnlink"})

\* A turn within its lease owns the file, which is at least as young.
LeaseInv == \A p \in Proc : GoodLease(p) => lock = p /\ age <= lease[p]

\* A fencing record is on disk, and no takeover has already passed the check.
FenceInv ==
    \A p \in Proc :
        fenced[p] => /\ lock = p
                     /\ UseInflight
                     /\ stage[p] \in {"recorded", "abandoned"}
                     /\ \A q \in Proc : pc[q] # "acqReplace"

\* The strengthening of LeaseExclusive and RecordFencesTakeover that every
\* step preserves: mutual exclusion in the critical section of
\* evolve-lock.py keeps each check true until the write that relies on it.
IInv ==
    TypeOK /\ GuardInv /\ CheckInv /\ BeliefInv /\ LeaseInv /\ FenceInv
=============================================================================
