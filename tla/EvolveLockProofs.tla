-------------------------- MODULE EvolveLockProofs --------------------------
(***************************************************************************)
(* What EvolveLock guarantees for every set of turns, stale limit and      *)
(* number of deaths.  The argument is the inductive invariant IInv: the    *)
(* flock admits one turn at a time to the critical section (GuardInv), so  *)
(* what a call read there still holds when it writes (CheckInv); hence a   *)
(* turn within its lease owns the file (LeaseInv), and a record written    *)
(* under a lease keeps it (FenceInv).                                      *)
(***************************************************************************)
EXTENDS EvolveLock, TLAPS

\* The invariant holds before the first call.
LEMMA InitInv == Init => IInv
BY LockAssumption
   DEF Init, IInv, TypeOK, GuardInv, CheckInv, BeliefInv, LeaseInv, FenceInv,
       GoodLease, AtGuard, InGuard, StageState

\* No step of a call, a runner, the clock or a crash breaks the invariant.
LEMMA NextInv == IInv /\ [Next]_vars => IInv'
<1> SUFFICES ASSUME IInv, [Next]_vars PROVE IInv'
  OBVIOUS
<1> USE LockAssumption DEF IInv, AtGuard, InGuard, StageState, GoodLease
<1>1. ASSUME NEW p \in Proc, StartAcquire(p) PROVE IInv'
  <2> USE <1>1 DEF StartAcquire, Goto
  <2>1. TypeOK' BY DEF TypeOK
  <2>2. GuardInv' BY DEF GuardInv
  <2>3. CheckInv' BY DEF CheckInv
  <2>4. BeliefInv' BY DEF BeliefInv
  <2>5. LeaseInv' BY DEF LeaseInv
  <2>6. FenceInv' BY DEF FenceInv
  <2> QED BY <2>1, <2>2, <2>3, <2>4, <2>5, <2>6
<1>2. ASSUME NEW p \in Proc, StartHeartbeat(p) PROVE IInv'
  <2> USE <1>2 DEF StartHeartbeat, Goto
  <2>1. TypeOK' BY DEF TypeOK
  <2>2. GuardInv' BY DEF GuardInv
  <2>3. CheckInv' BY DEF CheckInv
  <2>4. BeliefInv' BY DEF BeliefInv
  <2>5. LeaseInv' BY DEF LeaseInv
  <2>6. FenceInv' BY DEF FenceInv
  <2> QED BY <2>1, <2>2, <2>3, <2>4, <2>5, <2>6
<1>3. ASSUME NEW p \in Proc, StartRelease(p) PROVE IInv'
  <2> USE <1>3 DEF StartRelease, Goto
  <2>1. TypeOK' BY DEF TypeOK
  <2>2. GuardInv' BY DEF GuardInv
  <2>3. CheckInv' BY DEF CheckInv
  <2>4. BeliefInv' BY DEF BeliefInv
  <2>5. LeaseInv' BY DEF LeaseInv
  <2>6. FenceInv' BY DEF FenceInv
  <2> QED BY <2>1, <2>2, <2>3, <2>4, <2>5, <2>6
<1>4. ASSUME NEW p \in Proc, EnterGuard(p) PROVE IInv'
  <2> USE <1>4 DEF EnterGuard, Goto, GuardEntry
  <2>1. TypeOK' BY DEF TypeOK
  <2>2. GuardInv' BY DEF TypeOK, GuardInv
  <2>3. CheckInv' BY DEF CheckInv
  <2>4. BeliefInv' BY DEF BeliefInv
  <2>5. LeaseInv' BY DEF LeaseInv
  <2>6. FenceInv' BY DEF FenceInv
  <2> QED BY <2>1, <2>2, <2>3, <2>4, <2>5, <2>6
<1>5. ASSUME NEW p \in Proc, AcqCreate(p) PROVE IInv'
  <2> USE <1>5 DEF AcqCreate, CreateFile, Goto
  <2>1. TypeOK' BY DEF TypeOK
  <2>2. GuardInv' BY DEF TypeOK, GuardInv
  <2>3. CheckInv' BY DEF TypeOK, GuardInv, CheckInv
  <2>4. BeliefInv' BY DEF TypeOK, BeliefInv
  <2>5. LeaseInv' BY DEF LeaseInv
  <2>6. FenceInv' BY DEF TypeOK, FenceInv
  <2> QED BY <2>1, <2>2, <2>3, <2>4, <2>5, <2>6
<1>6. ASSUME NEW p \in Proc, AcqWrite(p) PROVE IInv'
  <2> USE <1>6 DEF AcqWrite, Goto
  <2>1. TypeOK' BY DEF TypeOK
  <2>2. GuardInv' BY DEF GuardInv
  <2>3. CheckInv' BY DEF TypeOK, GuardInv, CheckInv
  <2>4. BeliefInv' BY DEF BeliefInv
  <2>5. LeaseInv' BY DEF CheckInv, LeaseInv
  <2>6. FenceInv' BY DEF CheckInv, FenceInv
  <2> QED BY <2>1, <2>2, <2>3, <2>4, <2>5, <2>6
<1>7. ASSUME NEW p \in Proc, AcqReturn(p) PROVE IInv'
  <2> USE <1>7 DEF AcqReturn, Return, Goto
  <2>1. TypeOK' BY DEF TypeOK
  <2>2. GuardInv' BY DEF TypeOK, GuardInv
  <2>3. CheckInv' BY DEF CheckInv
  <2>4. BeliefInv' BY DEF TypeOK, BeliefInv
  <2>5. LeaseInv' BY DEF CheckInv, LeaseInv
  <2>6. FenceInv' BY DEF FenceInv
  <2> QED BY <2>1, <2>2, <2>3, <2>4, <2>5, <2>6
<1>8. ASSUME NEW p \in Proc, AcqStat(p) PROVE IInv'
  <2> USE <1>8 DEF AcqStat, Return, Goto
  <2>1. TypeOK' BY DEF TypeOK
  <2>2. GuardInv' BY DEF TypeOK, GuardInv
  <2>3. CheckInv' BY DEF TypeOK, CheckInv
  <2>4. BeliefInv' BY DEF TypeOK, BeliefInv
  <2>5. LeaseInv' BY DEF LeaseInv
  <2>6. FenceInv' BY DEF TypeOK, FenceInv
  <2> QED BY <2>1, <2>2, <2>3, <2>4, <2>5, <2>6
<1>9. ASSUME NEW p \in Proc, AcqInflight(p) PROVE IInv'
  <2> USE <1>9 DEF AcqInflight, HasInflight, Return, Goto
  <2>1. TypeOK' BY DEF TypeOK
  <2>2. GuardInv' BY DEF TypeOK, GuardInv
  <2>3. CheckInv' BY DEF TypeOK, CheckInv
  <2>4. BeliefInv' BY DEF TypeOK, BeliefInv
  <2>5. LeaseInv' BY DEF LeaseInv
  <2>6. FenceInv' BY DEF TypeOK, FenceInv
  <2> QED BY <2>1, <2>2, <2>3, <2>4, <2>5, <2>6
<1>10. ASSUME NEW p \in Proc, AcqReplace(p) PROVE IInv'
  <2> USE <1>10 DEF AcqReplace, Goto
  <2>1. TypeOK' BY DEF TypeOK
  <2>2. GuardInv' BY DEF GuardInv
  <2>3. CheckInv' BY DEF TypeOK, GuardInv, CheckInv
  <2>4. BeliefInv' BY DEF BeliefInv
  <2>5. LeaseInv' BY DEF TypeOK, CheckInv, LeaseInv
  <2>6. FenceInv' BY DEF FenceInv
  <2> QED BY <2>1, <2>2, <2>3, <2>4, <2>5, <2>6
<1>11. ASSUME NEW p \in Proc, AcqRecreate(p) PROVE IInv'
  <2> USE <1>11 DEF AcqRecreate, CreateFile, Goto
  <2>1. TypeOK' BY DEF TypeOK
  <2>2. GuardInv' BY DEF GuardInv
  <2>3. CheckInv' BY DEF TypeOK, GuardInv, CheckInv
  <2>4. BeliefInv' BY DEF BeliefInv
  <2>5. LeaseInv' BY DEF LeaseInv
  <2>6. FenceInv' BY DEF FenceInv
  <2> QED BY <2>1, <2>2, <2>3, <2>4, <2>5, <2>6
<1>12. ASSUME NEW p \in Proc, HbCheck(p) PROVE IInv'
  <2> USE <1>12 DEF HbCheck, Return, Goto, DropToken
  <2>1. TypeOK'
    <3>1. pc' \in [Proc -> {"idle"} \cup AtGuard \cup InGuard] BY DEF TypeOK
    <3>2. guard' \in Proc \cup {NoProc} BY DEF TypeOK
    <3>3. token' \in [Proc -> BOOLEAN] BY DEF TypeOK
    <3>4. lease' \in [Proc -> 0..StaleSec] BY DEF TypeOK
    <3> QED BY <3>1, <3>2, <3>3, <3>4 DEF TypeOK
  <2>2. GuardInv' BY DEF TypeOK, GuardInv
  <2>3. CheckInv' BY DEF TypeOK, CheckInv
  <2>4. BeliefInv' BY DEF TypeOK, BeliefInv
  <2>5. LeaseInv' BY DEF TypeOK, LeaseInv
  <2>6. FenceInv' BY DEF TypeOK, FenceInv
  <2> QED BY <2>1, <2>2, <2>3, <2>4, <2>5, <2>6
<1>13. ASSUME NEW p \in Proc, HbReplace(p) PROVE IInv'
  <2> USE <1>13 DEF HbReplace, Return, Goto
  <2>1. TypeOK' BY DEF TypeOK
  <2>2. GuardInv' BY DEF TypeOK, GuardInv
  <2>3. CheckInv' BY DEF GuardInv, CheckInv
  <2>4. BeliefInv' BY DEF BeliefInv
  <2>5. LeaseInv' BY DEF TypeOK, CheckInv, LeaseInv
  <2>6. FenceInv' BY DEF CheckInv, FenceInv
  <2> QED BY <2>1, <2>2, <2>3, <2>4, <2>5, <2>6
<1>14. ASSUME NEW p \in Proc, RelCheck(p) PROVE IInv'
  <2> USE <1>14 DEF RelCheck, Return, Goto, DropToken
  <2>1. TypeOK'
    <3>1. pc' \in [Proc -> {"idle"} \cup AtGuard \cup InGuard] BY DEF TypeOK
    <3>2. guard' \in Proc \cup {NoProc} BY DEF TypeOK
    <3>3. token' \in [Proc -> BOOLEAN] BY DEF TypeOK
    <3>4. lease' \in [Proc -> 0..StaleSec] BY DEF TypeOK
    <3> QED BY <3>1, <3>2, <3>3, <3>4 DEF TypeOK
  <2>2. GuardInv' BY DEF TypeOK, GuardInv
  <2>3. CheckInv' BY DEF TypeOK, CheckInv
  <2>4. BeliefInv' BY DEF TypeOK, BeliefInv
  <2>5. LeaseInv' BY DEF TypeOK, LeaseInv
  <2>6. FenceInv' BY DEF TypeOK, FenceInv
  <2> QED BY <2>1, <2>2, <2>3, <2>4, <2>5, <2>6
<1>15. ASSUME NEW p \in Proc, RelUnlink(p) PROVE IInv'
  <2> USE <1>15 DEF RelUnlink, Return, Goto, DropToken
  <2>1. TypeOK' BY DEF TypeOK
  <2>2. GuardInv' BY DEF TypeOK, GuardInv
  <2>3. CheckInv' BY DEF TypeOK, GuardInv, CheckInv
  <2>4. BeliefInv' BY DEF TypeOK, BeliefInv
  <2>5. LeaseInv' BY DEF TypeOK, CheckInv, LeaseInv
  <2>6. FenceInv' BY DEF TypeOK, CheckInv, FenceInv
  <2> QED BY <2>1, <2>2, <2>3, <2>4, <2>5, <2>6
<1>16. ASSUME NEW p \in Proc, StageSpawn(p) PROVE IInv'
  <2> USE <1>16 DEF StageSpawn
  <2>1. TypeOK' BY DEF TypeOK
  <2>2. GuardInv' BY DEF GuardInv
  <2>3. CheckInv' BY DEF CheckInv
  <2>4. BeliefInv' BY DEF BeliefInv
  <2>5. LeaseInv' BY DEF LeaseInv
  <2>6. FenceInv' BY DEF FenceInv
  <2> QED BY <2>1, <2>2, <2>3, <2>4, <2>5, <2>6
<1>17. ASSUME NEW p \in Proc, StageRecord(p) PROVE IInv'
  <2> USE <1>17 DEF StageRecord
  <2>1. TypeOK' BY DEF TypeOK
  <2>2. GuardInv' BY DEF GuardInv
  <2>3. CheckInv' BY DEF CheckInv
  <2>4. BeliefInv' BY DEF BeliefInv
  <2>5. LeaseInv' BY DEF LeaseInv
  <2>6. FenceInv' BY DEF TypeOK, CheckInv, FenceInv
  <2> QED BY <2>1, <2>2, <2>3, <2>4, <2>5, <2>6
<1>18. ASSUME NEW p \in Proc, StageEnd(p) PROVE IInv'
  <2> USE <1>18 DEF StageEnd
  <2>1. TypeOK' BY DEF TypeOK
  <2>2. GuardInv' BY DEF GuardInv
  <2>3. CheckInv' BY DEF CheckInv
  <2>4. BeliefInv' BY DEF BeliefInv
  <2>5. LeaseInv' BY DEF LeaseInv
  <2>6. FenceInv' BY DEF TypeOK, FenceInv
  <2> QED BY <2>1, <2>2, <2>3, <2>4, <2>5, <2>6
<1>19. ASSUME NEW p \in Proc, UnrecordedEnds(p) PROVE IInv'
  <2> USE <1>19 DEF UnrecordedEnds
  <2>1. TypeOK' BY DEF TypeOK
  <2>2. GuardInv' BY DEF GuardInv
  <2>3. CheckInv' BY DEF CheckInv
  <2>4. BeliefInv' BY DEF BeliefInv
  <2>5. LeaseInv' BY DEF LeaseInv
  <2>6. FenceInv' BY DEF FenceInv
  <2> QED BY <2>1, <2>2, <2>3, <2>4, <2>5, <2>6
<1>20. ASSUME NEW p \in Proc, RunnerDies(p) PROVE IInv'
  <2> USE <1>20 DEF RunnerDies
  <2>1. TypeOK' BY DEF TypeOK
  <2>2. GuardInv' BY DEF GuardInv
  <2>3. CheckInv' BY DEF CheckInv
  <2>4. BeliefInv' BY DEF BeliefInv
  <2>5. LeaseInv' BY DEF LeaseInv
  <2>6. FenceInv' BY DEF FenceInv
  <2> QED BY <2>1, <2>2, <2>3, <2>4, <2>5, <2>6
<1>21. ASSUME NEW p \in Proc, Crash(p) PROVE IInv'
  <2> USE <1>21 DEF Crash, Goto, DropToken
  <2>1. TypeOK' BY DEF TypeOK
  <2>2. GuardInv' BY DEF TypeOK, GuardInv
  <2>3. CheckInv' BY DEF TypeOK, CheckInv
  <2>4. BeliefInv' BY DEF TypeOK, BeliefInv
  <2>5. LeaseInv' BY DEF LeaseInv
  <2>6. FenceInv' BY DEF FenceInv
  <2> QED BY <2>1, <2>2, <2>3, <2>4, <2>5, <2>6
<1>22. ASSUME Tick PROVE IInv'
  <2> USE <1>22 DEF Tick, Older
  <2>1. TypeOK' BY DEF TypeOK
  <2>2. GuardInv' BY DEF GuardInv
  <2>3. CheckInv' BY DEF TypeOK, CheckInv
  <2>4. BeliefInv' BY DEF BeliefInv
  <2>5. LeaseInv' BY DEF TypeOK, LeaseInv
  <2>6. FenceInv' BY DEF FenceInv
  <2> QED BY <2>1, <2>2, <2>3, <2>4, <2>5, <2>6
<1>23. CASE UNCHANGED vars
  BY <1>23 DEF vars, TypeOK, GuardInv, CheckInv, BeliefInv, LeaseInv, FenceInv
<1> QED
  BY <1>1, <1>2, <1>3, <1>4, <1>5, <1>6, <1>7, <1>8, <1>9, <1>10, <1>11, <1>12,
     <1>13, <1>14, <1>15, <1>16, <1>17, <1>18, <1>19, <1>20, <1>21, <1>22, <1>23
     DEF Next, Body, Runner

\* IInv is an invariant of every behaviour of the lock.
THEOREM Inductive == Spec => []IInv
<1>1. Init => IInv BY InitInv
<1>2. IInv /\ [Next]_vars => IInv' BY NextInv
<1> QED BY <1>1, <1>2, PTL DEF Spec

\* Every variable keeps its type; in particular ages never pass StaleSec.
THEOREM TypeCorrect == Spec => []TypeOK
<1>1. IInv => TypeOK BY DEF IInv
<1> QED BY <1>1, Inductive, PTL

\* For any number of turns and any stale limit, two turns never both hold a
\* good lease on the lock file (evolve-lock.py acquire, heartbeat, release).
THEOREM LeaseExclusiveAlways == Spec => []LeaseExclusive
<1>1. IInv => LeaseExclusive BY DEF IInv, LeaseInv, LeaseExclusive
<1> QED BY <1>1, Inductive, PTL

\* However many turns and runners die, a record written under a good lease
\* keeps the lock its owner's (has_live_or_unresolved_inflight).
THEOREM RecordFencesTakeoverAlways == Spec => []RecordFencesTakeover
<1>1. IInv => RecordFencesTakeover BY DEF IInv, FenceInv, RecordFencesTakeover
<1> QED BY <1>1, Inductive, PTL

-----------------------------------------------------------------------------
(* EvolveLock implements Lease.                                            *)

\* A step that leaves the file's owner, its expiry and the tokens alone is
\* invisible to the lease.
LEMMA Invisible ==
    ASSUME UNCHANGED token, LeaseHolder' = LeaseHolder, LeaseExpired' = LeaseExpired
    PROVE  UNCHANGED L!lvars
BY DEF L!lvars, Believers

\* Without a lock file there is no holder, and nobody believes there is.
LEMMA ImplementsInit == Init => L!Init
BY LockAssumption DEF Init, L!Init, LeaseHolder, LeaseExpired, Believers

\* Every step of the lock is a step of the lease or invisible to it.
LEMMA ImplementsNext == IInv /\ [Next]_vars => [L!Next]_(L!lvars)
<1> SUFFICES ASSUME IInv, [Next]_vars PROVE L!Next \/ UNCHANGED L!lvars
  OBVIOUS
<1> USE LockAssumption DEF IInv, TypeOK, LeaseHolder, LeaseExpired
<1>1. ASSUME NEW p \in Proc, StartAcquire(p) PROVE UNCHANGED L!lvars
  BY <1>1, Invisible DEF StartAcquire, Goto
<1>2. ASSUME NEW p \in Proc, StartHeartbeat(p) PROVE UNCHANGED L!lvars
  BY <1>2, Invisible DEF StartHeartbeat, Goto
<1>3. ASSUME NEW p \in Proc, StartRelease(p) PROVE UNCHANGED L!lvars
  BY <1>3, Invisible DEF StartRelease, Goto
<1>4. ASSUME NEW p \in Proc, EnterGuard(p) PROVE UNCHANGED L!lvars
  BY <1>4, Invisible DEF EnterGuard, Goto
<1>5. ASSUME NEW p \in Proc, AcqCreate(p) PROVE UNCHANGED L!lvars
  BY <1>5, Invisible DEF AcqCreate, CreateFile, Goto
<1>6. ASSUME NEW p \in Proc, AcqStat(p) PROVE UNCHANGED L!lvars
  BY <1>6, Invisible DEF AcqStat, Return, Goto
<1>7. ASSUME NEW p \in Proc, AcqInflight(p) PROVE UNCHANGED L!lvars
  BY <1>7, Invisible DEF AcqInflight, Return, Goto
<1>8. ASSUME NEW p \in Proc, AcqRecreate(p) PROVE UNCHANGED L!lvars
  BY <1>8, Invisible DEF AcqRecreate, CreateFile, Goto
<1>9. ASSUME NEW p \in Proc, StageSpawn(p) PROVE UNCHANGED L!lvars
  BY <1>9, Invisible DEF StageSpawn
<1>10. ASSUME NEW p \in Proc, StageRecord(p) PROVE UNCHANGED L!lvars
  BY <1>10, Invisible DEF StageRecord
<1>11. ASSUME NEW p \in Proc, StageEnd(p) PROVE UNCHANGED L!lvars
  BY <1>11, Invisible DEF StageEnd
<1>12. ASSUME NEW p \in Proc, UnrecordedEnds(p) PROVE UNCHANGED L!lvars
  BY <1>12, Invisible DEF UnrecordedEnds
<1>13. ASSUME NEW p \in Proc, RunnerDies(p) PROVE UNCHANGED L!lvars
  BY <1>13, Invisible DEF RunnerDies
<1>14. ASSUME NEW p \in Proc, AcqWrite(p) PROVE L!Grant(p)
  BY <1>14 DEF AcqWrite, L!Grant, CheckInv, Believers
<1>15. ASSUME NEW p \in Proc, AcqReturn(p) PROVE L!Tell(p)
  <2> USE <1>15 DEF AcqReturn
  <2>1. Believers' = Believers \cup {p} BY DEF Believers
  <2>2. LeaseHolder = p BY DEF CheckInv
  <2>3. LeaseHolder' = LeaseHolder /\ LeaseExpired' = LeaseExpired OBVIOUS
  <2> QED BY <2>1, <2>2, <2>3 DEF L!Tell
<1>16. ASSUME NEW p \in Proc, AcqReplace(p) PROVE L!Evict \/ UNCHANGED L!lvars
  <2> USE <1>16 DEF AcqReplace
  <2>1. CASE lock \in Proc
    BY <2>1 DEF L!Evict, CheckInv, Believers
  <2>2. CASE lock \notin Proc
    BY <2>2, Invisible
  <2> QED BY <2>1, <2>2
<1>17. ASSUME NEW p \in Proc, HbCheck(p) PROVE L!Forget(p) \/ UNCHANGED L!lvars
  <2> USE <1>17 DEF HbCheck
  <2>1. LeaseHolder' = LeaseHolder /\ LeaseExpired' = LeaseExpired OBVIOUS
  <2>2. CASE lock = p
    BY <2>1, <2>2, Invisible
  <2>3. CASE lock # p
    <3>1. Believers' = Believers \ {p} BY <2>3 DEF DropToken, Believers
    <3> QED BY <2>1, <3>1 DEF L!Forget
  <2> QED BY <2>2, <2>3
<1>18. ASSUME NEW p \in Proc, RelCheck(p) PROVE L!Forget(p) \/ UNCHANGED L!lvars
  <2> USE <1>18 DEF RelCheck
  <2>1. LeaseHolder' = LeaseHolder /\ LeaseExpired' = LeaseExpired OBVIOUS
  <2>2. CASE lock = p
    BY <2>1, <2>2, Invisible
  <2>3. CASE lock # p
    <3>1. Believers' = Believers \ {p} BY <2>3 DEF DropToken, Believers
    <3> QED BY <2>1, <3>1 DEF L!Forget
  <2> QED BY <2>2, <2>3
<1>19. ASSUME NEW p \in Proc, HbReplace(p) PROVE L!Renew(p)
  BY <1>19 DEF HbReplace, L!Renew, CheckInv, BeliefInv, Believers
<1>20. ASSUME NEW p \in Proc, RelUnlink(p) PROVE L!Release(p)
  <2> USE <1>20 DEF RelUnlink
  <2>1. LeaseHolder = p /\ p \in Believers BY DEF CheckInv, BeliefInv, Believers
  <2>2. LeaseHolder' = NoProc /\ LeaseExpired' = FALSE OBVIOUS
  <2>3. Believers' = Believers \ {p} BY DEF DropToken, Believers
  <2> QED BY <2>1, <2>2, <2>3 DEF L!Release
<1>21. ASSUME NEW p \in Proc, Crash(p) PROVE L!Forget(p)
  <2> USE <1>21 DEF Crash
  <2>1. LeaseHolder' = LeaseHolder /\ LeaseExpired' = LeaseExpired OBVIOUS
  <2>2. Believers' = Believers \ {p} BY DEF DropToken, Believers
  <2> QED BY <2>1, <2>2 DEF L!Forget
<1>22. ASSUME Tick PROVE L!Expire \/ UNCHANGED L!lvars
  <2> USE <1>22 DEF Tick, Older
  <2>1. CASE LeaseExpired'
    BY <2>1 DEF L!Expire, Believers
  <2>2. CASE ~LeaseExpired'
    BY <2>2, Invisible
  <2> QED BY <2>1, <2>2
<1>23. CASE UNCHANGED vars
  BY <1>23, Invisible DEF vars
<1> QED
  BY <1>1, <1>2, <1>3, <1>4, <1>5, <1>6, <1>7, <1>8, <1>9, <1>10, <1>11, <1>12,
     <1>13, <1>14, <1>15, <1>16, <1>17, <1>18, <1>19, <1>20, <1>21, <1>22, <1>23
     DEF Next, Body, Runner, L!Next

\* The helper implements the abstract lease, for any number of turns: an
\* owner loses the file only by its own release or after its lease ran out.
THEOREM LeaseImplemented == Spec => ImplementsLease
<1>1. Init => L!Init BY ImplementsInit
<1>2. IInv /\ [Next]_vars => [L!Next]_(L!lvars) BY ImplementsNext
<1> QED BY <1>1, <1>2, Inductive, PTL DEF Spec, L!Spec, ImplementsLease

=============================================================================
