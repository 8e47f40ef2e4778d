---------------------------- MODULE FixLoopProofs ----------------------------
(***************************************************************************)
(* Proofs about FixLoop, for any number of fix rounds, any set of files    *)
(* and any number of deaths: the helper of reshape_fix_round.py and the    *)
(* guard of conduct.sh together let a fix turn run only on a capsule that  *)
(* has been re-shaped completely, and never lose an earlier one.  Every    *)
(* step is one of FixRounds or none, and the helper's writes are one step. *)
(***************************************************************************)
EXTENDS FixLoop, TLAPS

\* Folding in the next round's marker extends an unbroken row of markers.
LEMMA OneMore ==
    ASSUME NEW n \in Nat \ {0}
    PROVE  (1..(n - 1)) \cup {n} = 1..n
OBVIOUS

\* A file cut short, or not there, is none of the capsules, and a row of
\* markers says how many there are.
LEMMA Distinct ==
    ASSUME NEW m \in GradeRounds, NEW n \in GradeRounds
    PROVE  /\ 1..m # NoFile /\ 1..m # Torn
           /\ m # n => 1..m # 1..n
<1>1. 1..m \in SUBSET Rounds
  BY FixLoopAssumption DEF GradeRounds, Rounds
<1>2. 1..m # NoFile /\ 1..m # Torn
  BY <1>1, FixLoopAssumption
<1>3. m < n => n \in 1..n /\ n \notin 1..m
  BY FixLoopAssumption DEF GradeRounds
<1>4. n < m => m \in 1..m /\ m \notin 1..n
  BY FixLoopAssumption DEF GradeRounds
<1> QED BY <1>2, <1>3, <1>4, FixLoopAssumption DEF GradeRounds

\* The invariant holds when the first Conduct is launched.
LEMMA InitInv == Init => IInv
<1> SUFFICES ASSUME Init PROVE IInv
  OBVIOUS
<1> USE FixLoopAssumption DEF Init, GradeRounds, Rounds
<1>1. TypeOK
  <2>1. findings \in Findings BY DEF Findings
  <2>2. grades \in [GradeRounds -> 0..MaxBlocking \cup {NoFile}] OBVIOUS
  <2>3. archive \in [GradeRounds -> (SUBSET Rounds) \cup {NoFile, Torn}] OBVIOUS
  <2>4. outcome \in (SUBSET Rounds) \cup {Torn} OBVIOUS
  <2>5. sidecar \in Sidecar \cup {NoFile, Torn} OBVIOUS
  <2>6. /\ fix \in GradeRounds
        /\ crashes \in 0..MaxCrashes
        /\ dirty \subseteq Files /\ delta \subseteq Files /\ own \subseteq Files
    OBVIOUS
  <2>7. rc \in DriverResult \cup {"none", "lost"} /\ retried \in BOOLEAN
    BY DEF DriverResult
  <2> HIDE DEF Init
  <2> QED BY <2>1, <2>2, <2>3, <2>4, <2>5, <2>6, <2>7 DEF TypeOK, Init
<1>2. ArchiveInv BY DEF ArchiveInv
<1>3. CapsuleInv BY DEF CapsuleInv, Prev
<1>4. PhaseInv BY DEF PhaseInv
<1>5. BoundsInv BY DEF BoundsInv
<1> QED BY <1>1, <1>2, <1>3, <1>4, <1>5 DEF IInv

\* No step of the session, the helper or Conduct breaks it, nor a death.
LEMMA NextInv == IInv /\ [Next]_vars => IInv'
<1> SUFFICES ASSUME IInv, [Next]_vars PROVE IInv'
  OBVIOUS
<1> USE FixLoopAssumption DEF IInv, GradeRounds, Rounds, Prev
<1>1. ASSUME WriteGrade PROVE IInv'
  <2> USE <1>1 DEF WriteGrade, Gradable, disk, tree
  <2>1. TypeOK' BY DEF TypeOK
  <2>2. ArchiveInv' BY DEF ArchiveInv
  <2>3. CapsuleInv' BY DEF CapsuleInv
  <2>4. PhaseInv' BY DEF PhaseInv
  <2>5. BoundsInv' BY DEF TypeOK, BoundsInv, Decreases
  <2> QED BY <2>1, <2>2, <2>3, <2>4, <2>5
<1>2. ASSUME NothingBlocks PROVE IInv'
  <2> USE <1>2 DEF NothingBlocks, disk, tree
  <2>1. TypeOK' BY DEF TypeOK
  <2>2. ArchiveInv' BY DEF ArchiveInv
  <2>3. CapsuleInv' BY DEF CapsuleInv
  <2>4. PhaseInv' BY DEF PhaseInv
  <2>5. BoundsInv' BY DEF BoundsInv, Decreases
  <2> QED BY <2>1, <2>2, <2>3, <2>4, <2>5
<1>3. ASSUME StartFixRound PROVE IInv'
  <2> USE <1>3 DEF StartFixRound, disk, tree
  <2>1. TypeOK' BY DEF TypeOK
  <2>2. ArchiveInv' BY DEF TypeOK, ArchiveInv, CapsuleInv, PhaseInv
  <2>3. CapsuleInv' BY DEF TypeOK, CapsuleInv, PhaseInv
  <2>4. PhaseInv' BY DEF TypeOK, PhaseInv
  <2>5. BoundsInv'
    <3>1. fix > 0 => grades[fix] > 0 /\ archive[Prev] = 1..Prev
      BY Distinct DEF TypeOK, CapsuleInv, PhaseInv
    <3>2. fix > 0 => Decreases
      BY <3>1, Distinct DEF TypeOK, BoundsInv
    <3>3. archive'[fix] = NoFile /\ pc' = "reshape"
      BY DEF TypeOK, ArchiveInv
    <3> QED BY <3>2, <3>3 DEF TypeOK, BoundsInv, Decreases
  <2> QED BY <2>1, <2>2, <2>3, <2>4, <2>5
<1>4. ASSUME Escalate PROVE IInv'
  <2> USE <1>4 DEF Escalate, disk, tree
  <2>1. TypeOK' BY DEF TypeOK
  <2>2. ArchiveInv' BY DEF ArchiveInv
  <2>3. CapsuleInv' BY DEF CapsuleInv
  <2>4. PhaseInv' BY DEF PhaseInv
  <2>5. BoundsInv' BY DEF BoundsInv, Decreases
  <2> QED BY <2>1, <2>2, <2>3, <2>4, <2>5
<1>5. ASSUME Check PROVE IInv'
  <2> USE <1>5 DEF Check, Admissible, Fresh, Reshaped, Decreases, Marks, disk, tree
  <2>1. TypeOK' BY DEF TypeOK
  <2>2. ArchiveInv' BY DEF ArchiveInv
  <2>3. CapsuleInv' BY DEF CapsuleInv
  <2>4. PhaseInv'
    <3>1. pc' = "archive" => fix > 0 /\ outcome = 1..Prev /\ archive[Prev] = NoFile
      BY Distinct DEF TypeOK, CapsuleInv, PhaseInv
    <3>2. pc' = "sidecar" => fix > 0 /\ outcome = 1..fix
      BY Distinct DEF TypeOK, CapsuleInv, PhaseInv
    <3> QED BY <3>1, <3>2 DEF TypeOK, PhaseInv
  <2>5. BoundsInv' BY DEF BoundsInv
  <2> QED BY <2>1, <2>2, <2>3, <2>4, <2>5
<1>6. ASSUME Copy PROVE IInv'
  <2> USE <1>6 DEF Copy, disk, tree
  <2>1. TypeOK' BY DEF TypeOK
  <2>2. ArchiveInv' BY DEF TypeOK, ArchiveInv, PhaseInv
  <2>3. CapsuleInv' BY DEF CapsuleInv, PhaseInv
  <2>4. PhaseInv' BY DEF TypeOK, PhaseInv
  <2>5. BoundsInv' BY DEF BoundsInv, Decreases
  <2> QED BY <2>1, <2>2, <2>3, <2>4, <2>5
<1>7. ASSUME Write PROVE IInv'
  <2> USE <1>7 DEF Write, Marks, disk, tree
  <2>1. TypeOK' BY DEF TypeOK, PhaseInv
  <2>2. ArchiveInv' BY DEF ArchiveInv
  <2> outcome' = 1..fix /\ archive[Prev] = 1..Prev /\ fix > 0
    BY OneMore, Distinct DEF TypeOK, PhaseInv
  <2>3. CapsuleInv' BY DEF CapsuleInv
  <2>4. PhaseInv' BY DEF PhaseInv
  <2>5. BoundsInv' BY DEF BoundsInv, Decreases
  <2> QED BY <2>1, <2>2, <2>3, <2>4, <2>5
<1>8. ASSUME WriteSidecar PROVE IInv'
  <2> USE <1>8 DEF WriteSidecar, Justified, Legible, disk, tree
  <2>1. TypeOK'
    <3>1. Justified \in BOOLEAN /\ findings.loci \in SUBSET Files
      BY DEF TypeOK, Sidecar, Findings
    <3>2. sidecar' \in Sidecar BY <3>1 DEF Sidecar
    <3> QED BY <3>2 DEF TypeOK
  <2>2. ArchiveInv' BY DEF ArchiveInv
  <2>3. CapsuleInv' BY DEF CapsuleInv
  <2>4. PhaseInv' BY DEF PhaseInv
  <2>5. BoundsInv' BY DEF BoundsInv, Decreases
  <2> QED BY <2>1, <2>2, <2>3, <2>4, <2>5
<1>9. ASSUME Launch PROVE IInv'
  <2> USE <1>9 DEF Launch, Guard, Marks, disk, tree
  <2>1. TypeOK' BY DEF TypeOK
  <2>2. ArchiveInv' BY DEF ArchiveInv
  <2>3. CapsuleInv' BY DEF CapsuleInv
  <2>4. PhaseInv' BY DEF TypeOK, CapsuleInv, PhaseInv
  <2>5. BoundsInv' BY DEF BoundsInv, Decreases
  <2> QED BY <2>1, <2>2, <2>3, <2>4, <2>5
<1>10. ASSUME NEW f \in Files, TurnChanges(f) PROVE IInv'
  <2> USE <1>10 DEF TurnChanges, disk, tree
  <2>1. TypeOK' BY DEF TypeOK
  <2>2. ArchiveInv' BY DEF ArchiveInv
  <2>3. CapsuleInv' BY DEF CapsuleInv
  <2>4. PhaseInv' BY DEF PhaseInv
  <2>5. BoundsInv' BY DEF BoundsInv, Decreases
  <2> QED BY <2>1, <2>2, <2>3, <2>4, <2>5
<1>11. ASSUME TurnCommits PROVE IInv'
  <2> USE <1>11 DEF TurnCommits, disk, tree
  <2>1. TypeOK' BY DEF TypeOK
  <2>2. ArchiveInv' BY DEF ArchiveInv
  <2>3. CapsuleInv' BY DEF CapsuleInv
  <2>4. PhaseInv' BY DEF PhaseInv
  <2>5. BoundsInv' BY DEF BoundsInv, Decreases
  <2> QED BY <2>1, <2>2, <2>3, <2>4, <2>5
<1>12. ASSUME NEW r \in DriverResult, TurnEnds(r) PROVE IInv'
  <2> USE <1>12 DEF TurnEnds, DriverResult, disk, tree
  <2>1. TypeOK' BY DEF TypeOK
  <2>2. ArchiveInv' BY DEF ArchiveInv
  <2>3. CapsuleInv' BY DEF CapsuleInv
  <2>4. PhaseInv' BY DEF PhaseInv
  <2>5. BoundsInv' BY DEF BoundsInv, Decreases
  <2> QED BY <2>1, <2>2, <2>3, <2>4, <2>5
<1>13. ASSUME Pass PROVE IInv'
  <2> USE <1>13 DEF Pass, disk, tree
  <2>1. TypeOK' BY DEF TypeOK
  <2>2. ArchiveInv' BY DEF ArchiveInv
  <2>3. CapsuleInv' BY DEF CapsuleInv
  <2>4. PhaseInv' BY DEF PhaseInv
  <2>5. BoundsInv' BY DEF BoundsInv, Decreases
  <2> QED BY <2>1, <2>2, <2>3, <2>4, <2>5
<1>14. ASSUME Misaligned PROVE IInv'
  <2> USE <1>14 DEF Misaligned, disk, tree
  <2>1. TypeOK' BY DEF TypeOK
  <2>2. ArchiveInv' BY DEF ArchiveInv
  <2>3. CapsuleInv' BY DEF CapsuleInv
  <2>4. PhaseInv' BY DEF PhaseInv
  <2>5. BoundsInv' BY DEF BoundsInv, Decreases
  <2> QED BY <2>1, <2>2, <2>3, <2>4, <2>5
<1>15. ASSUME ZeroUptake PROVE IInv'
  <2> USE <1>15 DEF ZeroUptake, disk, tree
  <2>1. TypeOK' BY DEF TypeOK
  <2>2. ArchiveInv' BY DEF ArchiveInv
  <2>3. CapsuleInv' BY DEF CapsuleInv
  <2>4. PhaseInv' BY DEF PhaseInv
  <2>5. BoundsInv' BY DEF BoundsInv, Decreases
  <2> QED BY <2>1, <2>2, <2>3, <2>4, <2>5
<1>16. ASSUME Again PROVE IInv'
  <2> USE <1>16 DEF Again, disk, tree
  <2>1. TypeOK' BY DEF TypeOK
  <2>2. ArchiveInv' BY DEF ArchiveInv
  <2>3. CapsuleInv' BY DEF CapsuleInv
  <2>4. PhaseInv' BY DEF PhaseInv
  <2>5. BoundsInv' BY DEF BoundsInv, Decreases
  <2> QED BY <2>1, <2>2, <2>3, <2>4, <2>5
<1>17. ASSUME Justify PROVE IInv'
  <2> USE <1>17 DEF Justify, Legible, disk, tree
  <2>1. TypeOK'
    <3>1. sidecar \in Sidecar BY DEF TypeOK
    <3>2. sidecar' \in Sidecar BY <3>1 DEF Sidecar
    <3> QED BY <3>2 DEF TypeOK
  <2>2. ArchiveInv' BY DEF ArchiveInv
  <2>3. CapsuleInv' BY DEF CapsuleInv
  <2>4. PhaseInv' BY DEF PhaseInv
  <2>5. BoundsInv' BY DEF BoundsInv, Decreases
  <2> QED BY <2>1, <2>2, <2>3, <2>4, <2>5
<1>18. ASSUME HelperDies PROVE IInv'
  <2> USE <1>18 DEF HelperDies, LeavesTorn, disk, tree
  <2>1. TypeOK' BY DEF TypeOK, CapsuleInv
  <2>2. ArchiveInv' BY DEF TypeOK, ArchiveInv
  <2>3. CapsuleInv' BY DEF CapsuleInv, PhaseInv
  <2>4. PhaseInv' BY DEF PhaseInv
  <2>5. BoundsInv' BY DEF BoundsInv, Decreases
  <2> QED BY <2>1, <2>2, <2>3, <2>4, <2>5
<1>19. ASSUME ConductDies PROVE IInv'
  <2> USE <1>19 DEF ConductDies, disk, tree
  <2>1. TypeOK' BY DEF TypeOK
  <2>2. ArchiveInv' BY DEF ArchiveInv
  <2>3. CapsuleInv' BY DEF CapsuleInv
  <2>4. PhaseInv' BY DEF PhaseInv
  <2>5. BoundsInv' BY DEF BoundsInv, Decreases
  <2> QED BY <2>1, <2>2, <2>3, <2>4, <2>5
<1>20. CASE UNCHANGED vars
  BY <1>20 DEF vars, disk, tree, TypeOK, ArchiveInv, CapsuleInv, PhaseInv, BoundsInv, Decreases
<1> QED
  BY <1>1, <1>2, <1>3, <1>4, <1>5, <1>6, <1>7, <1>8, <1>9, <1>10, <1>11, <1>12, <1>13, <1>14, <1>15,
     <1>16, <1>17, <1>18, <1>19, <1>20
     DEF Next

\* IInv is an invariant of every behaviour of the fix loop.
THEOREM Inductive == Spec => []IInv
<1>1. Init => IInv BY InitInv
<1>2. IInv /\ [Next]_vars => IInv' BY NextInv
<1> QED BY <1>1, <1>2, PTL DEF Spec

\* Every variable keeps its type; in particular the loop never goes past
\* MaxFixRounds.
THEOREM TypeCorrect == Spec => []TypeOK
<1>1. IInv => TypeOK BY DEF IInv
<1> QED BY <1>1, Inductive, PTL

\* However often the helper or the session dies, a fix turn runs only on a
\* capsule with all its markers, all earlier capsules archived whole and
\* strictly decreasing grades (reshape_fix_round.py, conduct.sh's guard).
THEOREM LaunchIsReshapedAlways == Spec => []LaunchIsReshaped
<1>1. IInv => LaunchIsReshaped
  <2> SUFFICES ASSUME IInv, pc = "turn", fix > 0
               PROVE  /\ outcome = 1..fix
                      /\ \A g \in 0..Prev : archive[g] = 1..g
                      /\ \A g \in 1..Prev : grades[g] < grades[g - 1]
    BY DEF LaunchIsReshaped
  <2> USE FixLoopAssumption DEF IInv, GradeRounds, Prev
  <2>1. outcome = 1..fix BY DEF PhaseInv
  <2>2. archive[Prev] = 1..Prev
    BY <2>1, Distinct DEF TypeOK, CapsuleInv
  <2>3. \A g \in 0..Prev : archive[g] = 1..g
    BY <2>2 DEF TypeOK, ArchiveInv
  <2>4. Decreases
    BY <2>2, Distinct DEF TypeOK, BoundsInv
  <2>5. \A g \in 1..Prev : grades[g] < grades[g - 1]
    <3> SUFFICES ASSUME NEW g \in 1..Prev PROVE grades[g] < grades[g - 1]
      OBVIOUS
    <3>1. CASE g = Prev BY <2>4, <3>1 DEF TypeOK, Decreases
    <3>2. CASE g # Prev BY <3>2 DEF TypeOK, BoundsInv
    <3> QED BY <3>1, <3>2
  <2> QED BY <2>1, <2>3, <2>5
<1> QED BY <1>1, Inductive, PTL

\* A capsule that a death has cut short is in the archive, whole.
THEOREM CapsuleIsRecoverableAlways == Spec => []CapsuleIsRecoverable
<1>1. IInv => CapsuleIsRecoverable
  <2> SUFFICES ASSUME IInv, outcome = Torn PROVE archive[Prev] = 1..Prev
    BY DEF CapsuleIsRecoverable
  <2>1. fix - 1 < 0 => 1..Prev = 1..0
    BY DEF IInv, TypeOK, GradeRounds, Prev
  <2> QED BY <2>1, Distinct, FixLoopAssumption
          DEF IInv, TypeOK, CapsuleInv, GradeRounds, Prev
<1> QED BY <1>1, Inductive, PTL

\* No step changes an archive that is whole.
THEOREM ArchivesAreFinalAlways == Spec => ArchivesAreFinal
<1> DEFINE Final == \A g \in GradeRounds :
                       archive[g] \notin {NoFile, Torn} => archive'[g] = archive[g]
<1>1. IInv /\ [Next]_vars => Final
  <2> SUFFICES ASSUME IInv, [Next]_vars,
                      NEW g \in GradeRounds, archive[g] \notin {NoFile, Torn}
               PROVE  archive'[g] = archive[g]
    OBVIOUS
  <2>1. UNCHANGED archive \/ Copy \/ HelperDies
    BY DEF Next, WriteGrade, NothingBlocks, StartFixRound, Escalate, Check,
           Write, WriteSidecar, Launch, TurnChanges, TurnCommits, TurnEnds,
           Pass, Misaligned, ZeroUptake, Again, Justify, ConductDies,
           vars, disk
  <2>2. CASE Copy
    BY <2>2 DEF Copy, IInv, TypeOK, PhaseInv, GradeRounds, Prev
  <2>3. CASE HelperDies
    BY <2>3 DEF HelperDies, LeavesTorn, IInv, TypeOK, PhaseInv, GradeRounds, Prev
  <2> QED BY <2>1, <2>2, <2>3
<1>2. IInv /\ [Next]_vars => [Final]_vars BY <1>1
<1> QED BY <1>2, Inductive, PTL DEF Spec, ArchivesAreFinal

-----------------------------------------------------------------------------
(* The alignment sidecar                                                   *)

\* A legible sidecar has the loci of the newest grade, and only a death
\* leaves a launched round without one.
SidecarInv ==
    /\ Legible /\ pc \notin {"decide", "closed", "escalated"}
          => sidecar.loci = findings.loci
    /\ pc \in {"conduct", "missing", "turn", "gate", "verify", "failed", "rejected"}
          /\ fix > 0 /\ ~Legible => crashes > 0

AlignInv == SidecarInv /\ MisalignedIsRejected

\* The gate has looked at the delta that goes on to be verified.
LEMMA AlignStep == TypeOK /\ AlignInv /\ [Next]_vars => AlignInv'
<1> SUFFICES ASSUME TypeOK, AlignInv, [Next]_vars PROVE AlignInv'
  OBVIOUS
<1>1. CASE WriteGrade \/ NothingBlocks \/ Escalate
  BY <1>1 DEF AlignInv, SidecarInv, MisalignedIsRejected, WriteGrade, NothingBlocks, Escalate,
              Legible, disk, tree
<1>2. CASE StartFixRound
  BY <1>2 DEF AlignInv, SidecarInv, MisalignedIsRejected, StartFixRound, Legible
<1>3. CASE Check \/ Copy \/ Write
  BY <1>3 DEF AlignInv, SidecarInv, MisalignedIsRejected, Check, Copy, Write, Legible, disk, tree
<1>4. CASE WriteSidecar
  <2>1. sidecar'.loci = findings.loci /\ sidecar' \in Sidecar
    BY <1>4 DEF WriteSidecar, Sidecar, Findings, TypeOK, Justified, Legible
  <2>2. Legible'
    BY <2>1, FixLoopAssumption DEF Legible
  <2> QED BY <1>4, <2>1, <2>2 DEF AlignInv, SidecarInv, MisalignedIsRejected, WriteSidecar
<1>5. CASE Launch \/ TurnCommits \/ Misaligned \/ ZeroUptake \/ Again
           \/ (\E f \in Files : TurnChanges(f)) \/ (\E r \in DriverResult : TurnEnds(r))
  BY <1>5 DEF AlignInv, SidecarInv, MisalignedIsRejected, Launch, TurnCommits, Misaligned,
              ZeroUptake, Again, TurnChanges, TurnEnds, Legible, disk, tree
<1>6. CASE Pass
  <2>1. SidecarInv'
    BY <1>6 DEF AlignInv, SidecarInv, Pass, Legible, disk, tree
  <2>2. pc' = "verify" /\ fix > 0 /\ delta # {} => Aligned
    BY <1>6 DEF Pass, Gated
  <2>3. UNCHANGED <<fix, delta, findings, sidecar, crashes>> /\ pc = "gate"
    BY <1>6 DEF Pass, disk, tree
  <2>4. MisalignedIsRejected'
    BY <2>2, <2>3 DEF AlignInv, SidecarInv, MisalignedIsRejected, Aligned, Required, Legible
  <2> QED BY <2>1, <2>4 DEF AlignInv
<1>7. CASE Justify
  <2>1. sidecar \in Sidecar /\ pc = "rejected"
    BY <1>7 DEF Justify, Legible, TypeOK
  <2>2. sidecar' \in Sidecar /\ sidecar'.loci = sidecar.loci
    BY <1>7, <2>1 DEF Justify, Sidecar
  <2>3. Legible'
    BY <2>2, FixLoopAssumption DEF Legible
  <2> QED BY <1>7, <2>2, <2>3 DEF AlignInv, SidecarInv, MisalignedIsRejected, Justify, tree
<1>8. CASE HelperDies
  <2>1. crashes' > 0 /\ pc' \in {"reshape", "conduct"}
    BY <1>8 DEF HelperDies, TypeOK
  <2>2. sidecar' = sidecar \/ sidecar' = Torn
    BY <1>8 DEF HelperDies, LeavesTorn
  <2> QED BY <1>8, <2>1, <2>2 DEF AlignInv, SidecarInv, MisalignedIsRejected, HelperDies, Legible
<1>9. CASE ConductDies
  BY <1>9 DEF AlignInv, SidecarInv, MisalignedIsRejected, ConductDies, Legible, TypeOK, disk, tree
<1>10. CASE UNCHANGED vars
  BY <1>10 DEF AlignInv, SidecarInv, MisalignedIsRejected, Legible, vars, disk, tree
<1> QED BY <1>1, <1>2, <1>3, <1>4, <1>5, <1>6, <1>7, <1>8, <1>9, <1>10 DEF Next

\* A delta goes on to be verified only if it touches a locus of the grade it
\* answers, or is justified, or a death has cost the round its sidecar
\* (run_fix_round_alignment_gate), for any files and any number of rounds.
THEOREM MisalignedIsRejectedAlways == Spec => []MisalignedIsRejected
<1>1. Init => AlignInv
  BY DEF Init, AlignInv, SidecarInv, MisalignedIsRejected, Legible
<1>2. AlignInv => MisalignedIsRejected
  BY DEF AlignInv
<1> QED BY <1>1, <1>2, AlignStep, TypeCorrect, PTL DEF Spec

\* A justification outlives every re-run of the helper in its round, unless
\* the helper dies writing the sidecar (write_alignment_sidecar).
THEOREM JustificationSticksAlways == Spec => JustificationSticks
<1> DEFINE Sticks == Legible /\ sidecar.alt /\ fix' = fix => sidecar' = Torn \/ sidecar'.alt
<1>1. TypeOK /\ [Next]_vars => Sticks
  <2> SUFFICES ASSUME TypeOK, [Next]_vars, Legible, sidecar.alt, fix' = fix
               PROVE  sidecar' = Torn \/ sidecar'.alt
    OBVIOUS
  <2>1. UNCHANGED sidecar \/ StartFixRound \/ WriteSidecar \/ Justify \/ HelperDies
    BY DEF Next, WriteGrade, NothingBlocks, Escalate, Check, Copy, Write, Launch, TurnChanges,
           TurnCommits, TurnEnds, Pass, Misaligned, ZeroUptake, Again, ConductDies, vars, disk
  <2>2. ~StartFixRound
    BY DEF StartFixRound, TypeOK, GradeRounds
  <2>3. CASE WriteSidecar
    BY <2>3 DEF WriteSidecar, Justified
  <2>4. CASE Justify
    BY <2>4 DEF Justify, Legible, TypeOK, Sidecar
  <2>5. CASE HelperDies
    BY <2>5 DEF HelperDies, LeavesTorn
  <2> QED BY <2>1, <2>2, <2>3, <2>4, <2>5
<1>2. TypeOK /\ [Next]_vars => [Sticks]_vars
  BY <1>1
<1> QED BY <1>2, TypeCorrect, PTL DEF Spec, JustificationSticks

-----------------------------------------------------------------------------
(* The rounds                                                              *)

\* A round that is not graded yet has no grade.
RoundsInv ==
    \A g \in GradeRounds :
        g > fix \/ (g = fix /\ pc \notin {"decide", "closed", "escalated"}) => grades[g] = NoFile

\* The newest capsule that can be read whole.
Version == IF outcome = 1..fix THEN fix ELSE Prev

\* A capsule and the archives as the helper leaves them in round f: v is the
\* newest capsule that can be read whole.
AsLeft(f, v, out, arch) ==
    /\ \A g \in GradeRounds : (g + 1 < f => arch[g] = 1..g) /\ (g >= f => arch[g] = NoFile)
    /\ \/ v = f /\ out = 1..f /\ (f > 0 => arch[f - 1] = 1..(f - 1))
       \/ /\ f > 0 /\ v = f - 1
          /\ \/ out = 1..v /\ arch[v] \in {NoFile, Torn, 1..v}
             \/ out = Torn /\ arch[v] = 1..v

\* What can then be read are the capsules up to that one.
LEMMA Readable ==
    ASSUME NEW f \in GradeRounds, NEW v \in GradeRounds, NEW out, NEW arch,
           AsLeft(f, v, out, arch)
    PROVE  {k \in GradeRounds : 1..k \in {out, arch[k]}} = 0..v
<1>1. v \in Nat /\ f \in Nat /\ v =< MaxFixRounds /\ (v = f \/ v = f - 1) /\ MaxFixRounds \in Nat
  BY FixLoopAssumption DEF GradeRounds, AsLeft
<1>2. ASSUME NEW k \in GradeRounds, k =< v PROVE 1..k \in {out, arch[k]}
  <2>1. k \in Nat /\ (k + 1 < f \/ k = f - 1 \/ k = f)
    BY <1>1, <1>2 DEF GradeRounds
  <2> QED BY <1>1, <1>2, <2>1 DEF AsLeft
<1>3. ASSUME NEW k \in GradeRounds, k > v PROVE 1..k \notin {out, arch[k]}
  <2>1. k \in Nat /\ k >= f
    BY <1>1, <1>3 DEF GradeRounds, AsLeft
  <2>2. arch[k] = NoFile
    BY <2>1 DEF AsLeft
  <2>3. 1..k # NoFile /\ 1..k # Torn /\ 1..k # 1..v
    BY <1>1, <1>3, Distinct
  <2> QED BY <1>1, <2>2, <2>3 DEF AsLeft
<1> DEFINE Whole == {k \in GradeRounds : 1..k \in {out, arch[k]}}
<1>4. \A k : k \in 0..v <=> k \in GradeRounds /\ k =< v
  BY <1>1 DEF GradeRounds
<1>5. \A k \in GradeRounds : k =< v \/ k > v
  BY <1>1 DEF GradeRounds
<1>6. \A k : k \in Whole <=> k \in 0..v
  BY <1>2, <1>3, <1>4, <1>5
<1> HIDE DEF Whole
<1>7. Whole = 0..v
  BY <1>6
<1> QED BY <1>7 DEF Whole

\* What is kept are the capsules up to the newest that is whole.
LEMMA KeptIs ==
    ASSUME IInv
    PROVE  Kept = 0..Version /\ Version \in GradeRounds
<1>1. /\ fix \in GradeRounds /\ fix \in Nat /\ fix =< MaxFixRounds
      /\ (fix > 0 => Prev \in GradeRounds) /\ Prev = fix - 1
  BY FixLoopAssumption DEF IInv, TypeOK, GradeRounds, Prev
<1>2. \A g \in GradeRounds : (g + 1 < fix => archive[g] = 1..g) /\ (g >= fix => archive[g] = NoFile)
  BY DEF IInv, ArchiveInv
<1>3. CASE outcome = 1..fix
  <2>1. fix > 0 => archive[fix - 1] = 1..(fix - 1)
    BY <1>1, <1>3, Distinct DEF IInv, CapsuleInv
  <2>2. AsLeft(fix, fix, outcome, archive)
    BY <1>2, <1>3, <2>1 DEF AsLeft
  <2>3. Kept = 0..fix
    BY <1>1, <2>2, Readable DEF Kept
  <2> QED BY <1>1, <1>3, <2>3 DEF Version
<1>4. CASE outcome # 1..fix
  <2>1. fix > 0
    BY <1>1, <1>4 DEF IInv, CapsuleInv
  <2>2. \/ outcome = 1..Prev /\ archive[Prev] \in {NoFile, Torn, 1..Prev}
        \/ outcome = Torn /\ archive[Prev] = 1..Prev
    BY <1>1, <1>4, <2>1 DEF IInv, CapsuleInv, ArchiveInv
  <2>3. AsLeft(fix, Prev, outcome, archive)
    BY <1>1, <1>2, <2>1, <2>2 DEF AsLeft
  <2>4. Kept = 0..Prev
    BY <1>1, <2>1, <2>3, Readable DEF Kept
  <2> QED BY <1>1, <1>4, <2>1, <2>4 DEF Version
<1> QED BY <1>3, <1>4

\* A write that dies, or the copy, changes nothing that is kept.
LEMMA SameKept ==
    ASSUME IInv, Copy \/ HelperDies
    PROVE  Kept' = Kept
<1>1. \A k \in GradeRounds : (1..k \in {outcome, archive[k]})' <=> 1..k \in {outcome, archive[k]}
  <2> SUFFICES ASSUME NEW k \in GradeRounds
               PROVE  1..k \in {outcome', archive'[k]} <=> 1..k \in {outcome, archive[k]}
    OBVIOUS
  <2>1. /\ Prev = fix - 1 /\ (fix > 0 => Prev \in GradeRounds)
        /\ archive \in [GradeRounds -> (SUBSET Rounds) \cup {NoFile, Torn}]
    BY FixLoopAssumption DEF IInv, TypeOK, GradeRounds, Prev
  <2>2. 1..k # NoFile /\ 1..k # Torn /\ (fix > 0 /\ k # Prev => 1..k # 1..Prev)
    BY <2>1, Distinct
  <2>3. CASE Copy
    BY <2>1, <2>2, <2>3 DEF Copy, IInv, PhaseInv
  <2>4. CASE HelperDies
    BY <2>1, <2>2, <2>4 DEF HelperDies, LeavesTorn, IInv, PhaseInv
  <2> QED BY <2>3, <2>4
<1> QED BY <1>1 DEF Kept

\* The rounds under way have the grades that say they are due.
LEMMA Graded ==
    ASSUME IInv, NEW g \in GradeRounds, g < fix \/ (pc = "decide" /\ g = fix)
    PROVE  g \in DOMAIN Counts /\ Counts[g] = grades[g] /\ grades[g] \in 0..MaxBlocking
<1>1. grades[g] \in 0..MaxBlocking
  BY DEF IInv, BoundsInv
<1>2. grades[g] # NoFile
  BY <1>1, FixLoopAssumption
<1> QED BY <1>1, <1>2 DEF Counts

\* A step that leaves fix round, grades and capsules alone.
LEMMA RoundsSame ==
    ASSUME RoundsInv, fix' = fix, grades' = grades, Phase' = Phase, Kept' = Kept,
           pc' \in {"decide", "closed", "escalated"} <=> pc \in {"decide", "closed", "escalated"}
    PROVE  RoundsInv' /\ [R!Next]_(R!rvars)
<1>1. RoundsInv'
  BY DEF RoundsInv
<1>2. Counts' = Counts
  BY DEF Counts
<1> QED BY <1>1, <1>2 DEF R!rvars

\* Every step of the session, the helper and Conduct is one of the rounds, or
\* none; so is every death.
LEMMA RoundsStep == IInv /\ RoundsInv /\ [Next]_vars => RoundsInv' /\ [R!Next]_(R!rvars)
<1> SUFFICES ASSUME IInv, RoundsInv, [Next]_vars PROVE RoundsInv' /\ [R!Next]_(R!rvars)
  OBVIOUS
<1> DEFINE Final == {"decide", "closed", "escalated"}
<1>1. /\ fix \in GradeRounds /\ fix \in Nat /\ MaxFixRounds \in Nat /\ fix =< MaxFixRounds
      /\ Prev = fix - 1
      /\ grades \in [GradeRounds -> 0..MaxBlocking \cup {NoFile}]
  BY FixLoopAssumption DEF IInv, TypeOK, GradeRounds, Prev
<1>2. UNCHANGED <<outcome, archive>> => Kept' = Kept
  BY DEF Kept
<1>3. UNCHANGED grades => Counts' = Counts
  BY DEF Counts
<1>4. CASE WriteGrade
  <2>1. PICK n \in 0..MaxBlocking : grades' = [grades EXCEPT ![fix] = n]
    BY <1>4 DEF WriteGrade
  <2>2. pc \in {"verify", "failed"} /\ pc' = "decide" /\ fix' = fix /\ Kept' = Kept
    BY <1>2, <1>4 DEF WriteGrade, Gradable
  <2>3. grades'[fix] = n /\ \A g \in GradeRounds \ {fix} : grades'[g] = grades[g]
    BY <1>1, <2>1
  <2>4. RoundsInv'
    BY <1>1, <2>2, <2>3 DEF RoundsInv
  <2>5. grades[fix] = NoFile /\ n # NoFile /\ n \in Nat
    BY <1>1, <2>2, FixLoopAssumption DEF RoundsInv
  <2>6. fix \notin DOMAIN Counts /\ DOMAIN Counts' = DOMAIN Counts \cup {fix}
    BY <1>1, <2>3, <2>5 DEF Counts
  <2>7. Counts'[fix] = n /\ \A g \in DOMAIN Counts : Counts'[g] = Counts[g]
    BY <1>1, <2>3, <2>5 DEF Counts
  <2>8. R!Judge
    BY <2>2, <2>5, <2>6, <2>7 DEF R!Judge, Phase
  <2> QED BY <2>4, <2>8 DEF R!Next
<1>5. CASE NothingBlocks
  <2>1. pc = "decide" /\ pc' = "closed" /\ grades[fix] = 0 /\ fix' = fix /\ grades' = grades
        /\ Kept' = Kept
    BY <1>2, <1>5 DEF NothingBlocks, disk
  <2>2. RoundsInv'
    BY <2>1 DEF RoundsInv
  <2>3. R!Close
    BY <1>1, <1>3, <2>1, Graded DEF R!Close, Phase
  <2> QED BY <2>2, <2>3 DEF R!Next
<1>6. CASE StartFixRound
  <2>1. pc = "decide" /\ pc' = "reshape" /\ grades[fix] > 0 /\ fix < MaxFixRounds /\ fix' = fix + 1
        /\ grades' = grades /\ Kept' = Kept
    BY <1>2, <1>6 DEF StartFixRound
  <2>2. RoundsInv'
    BY <1>1, <2>1 DEF RoundsInv, GradeRounds
  <2>3. R!Begin
    BY <1>1, <1>3, <2>1, Graded DEF R!Begin, Phase
  <2> QED BY <2>2, <2>3 DEF R!Next
<1>7. CASE Escalate
  <2>1. /\ pc' = "escalated" /\ fix' = fix /\ grades' = grades /\ Kept' = Kept
        /\ \/ pc = "decide" /\ grades[fix] > 0 /\ fix = MaxFixRounds
           \/ pc \in {"failed", "rejected", "refused", "missing"}
    BY <1>2, <1>7 DEF Escalate, disk
  <2>2. RoundsInv'
    BY <2>1 DEF RoundsInv
  <2>3. R!Escalate
    BY <1>1, <1>3, <2>1, Graded DEF R!Escalate, Phase
  <2> QED BY <2>2, <2>3 DEF R!Next
<1>8. CASE Write
  <2>1. /\ pc = "write" /\ pc' = "sidecar" /\ fix > 0 /\ outcome = 1..Prev /\ archive[Prev] = 1..Prev
        /\ UNCHANGED <<fix, grades, archive>> /\ outcome' = Marks(outcome) \cup {fix}
    BY <1>8 DEF Write, IInv, PhaseInv
  <2>2. RoundsInv'
    BY <2>1 DEF RoundsInv
  <2>3. Prev \in GradeRounds /\ 1..Prev # 1..fix /\ 1..Prev # Torn /\ 1..Prev # NoFile
    BY <1>1, <2>1, Distinct, FixLoopAssumption DEF GradeRounds
  <2>4. Kept = 0..fix - 1
    BY <1>1, <2>1, <2>3, KeptIs DEF Version
  <2>5. outcome' = 1..fix
    BY <1>1, <2>1, <2>3, OneMore DEF Marks
  <2>6. Kept' = 0..fix
    <3>1. \A g \in GradeRounds : (g + 1 < fix => archive'[g] = 1..g) /\ (g >= fix => archive'[g] = NoFile)
      BY <2>1 DEF IInv, ArchiveInv
    <3>2. archive'[fix - 1] = 1..(fix - 1)
      BY <1>1, <2>1
    <3>3. AsLeft(fix, fix, outcome', archive')
      BY <2>5, <3>1, <3>2 DEF AsLeft
    <3>4. {k \in GradeRounds : 1..k \in {outcome', archive'[k]}} = 0..fix
      BY <1>1, <3>3, Readable
    <3> QED BY <3>4 DEF Kept
  <2>7. \A g \in 1..fix - 1 : Counts[g] < Counts[g - 1]
    <3> SUFFICES ASSUME NEW g \in 1..fix - 1 PROVE Counts[g] < Counts[g - 1]
      OBVIOUS
    <3>1. g \in GradeRounds /\ g - 1 \in GradeRounds /\ g < fix /\ g - 1 < fix /\ g \in 1..MaxFixRounds
      BY <1>1 DEF GradeRounds
    <3>2. Counts[g] = grades[g] /\ Counts[g - 1] = grades[g - 1]
      BY <3>1, Graded
    <3>3. CASE g + 1 < fix
      BY <3>1, <3>2, <3>3 DEF IInv, BoundsInv
    <3>4. CASE g = Prev
      BY <1>1, <2>1, <2>3, <3>1, <3>2, <3>4 DEF IInv, BoundsInv, Decreases
    <3> QED BY <1>1, <3>3, <3>4
  <2>8. R!Reshape
    BY <1>1, <1>3, <2>1, <2>4, <2>6, <2>7 DEF R!Reshape, R!Falling, Phase
  <2> QED BY <2>2, <2>8 DEF R!Next
<1>9. CASE Launch
  <2>1. pc = "conduct" /\ UNCHANGED <<fix, grades, outcome, archive>>
    BY <1>9 DEF Launch, disk
  <2>2. CASE Guard
    <3>1. pc' = "turn"
      BY <1>9, <2>2 DEF Launch
    <3>2. RoundsInv'
      BY <2>1, <3>1 DEF RoundsInv
    <3>3. outcome = 1..fix
      BY <1>1, <2>2 DEF Guard, Marks, IInv, CapsuleInv
    <3>4. Kept = 0..fix
      BY <3>3, KeptIs DEF Version
    <3>5. R!Work
      BY <1>2, <1>3, <2>1, <3>1, <3>4 DEF R!Work, Phase
    <3> QED BY <3>2, <3>5 DEF R!Next
  <2>3. CASE ~Guard
    <3>1. pc' = "missing"
      BY <1>9, <2>3 DEF Launch
    <3> QED BY <1>2, <2>1, <3>1, RoundsSame DEF Phase
  <2> QED BY <2>2, <2>3
<1>10. CASE Again
  <2>1. pc \in {"verify", "failed", "rejected", "missing"} /\ UNCHANGED <<fix, grades, outcome, archive>>
    BY <1>10 DEF Again, disk
  <2>2. CASE fix > 0 /\ pc' \in {"reshape", "conduct"} /\ pc # "missing"
    <3>1. RoundsInv'
      BY <2>1, <2>2 DEF RoundsInv
    <3>2. R!Redo
      BY <1>2, <1>3, <2>1, <2>2 DEF R!Redo, Phase
    <3> QED BY <3>1, <3>2 DEF R!Next
  <2>3. CASE fix > 0 /\ pc' \in {"reshape", "conduct"} /\ pc = "missing"
    BY <1>2, <2>1, <2>3, RoundsSame DEF Phase
  <2>4. CASE fix = 0 /\ pc' = "turn"
    <3>1. pc # "missing"
      BY <2>4 DEF IInv, PhaseInv
    <3> QED BY <1>2, <2>1, <2>4, <3>1, RoundsSame DEF Phase
  <2> QED BY <1>10, <2>2, <2>3, <2>4 DEF Again
<1>11. CASE Copy \/ HelperDies
  <2>1. /\ UNCHANGED <<fix, grades>> /\ Kept' = Kept
        /\ pc \in {"reshape", "archive", "write", "sidecar"}
        /\ pc' \in {"reshape", "conduct", "write"}
    BY <1>11, SameKept DEF Copy, HelperDies
  <2> QED BY <2>1, RoundsSame DEF Phase
<1>12. CASE Check \/ WriteSidecar
  <2>1. /\ UNCHANGED <<fix, grades, outcome, archive>>
        /\ pc \in {"reshape", "sidecar"} /\ pc' \in {"refused", "archive", "sidecar", "conduct"}
    BY <1>12 DEF Check, WriteSidecar, disk
  <2> QED BY <1>2, <2>1, RoundsSame DEF Phase
<1>13. CASE \/ TurnCommits \/ Pass \/ Misaligned \/ ZeroUptake \/ Justify \/ ConductDies
            \/ (\E f \in Files : TurnChanges(f)) \/ (\E r \in DriverResult : TurnEnds(r))
  <2>1. /\ UNCHANGED <<fix, grades, outcome, archive>>
        /\ pc \in {"turn", "gate", "rejected"}
        /\ pc' \in {"turn", "gate", "verify", "failed", "rejected"}
    BY <1>13 DEF TurnCommits, Pass, Misaligned, ZeroUptake, Justify, ConductDies,
                 TurnChanges, TurnEnds, disk
  <2> QED BY <1>2, <2>1, RoundsSame DEF Phase
<1>14. CASE UNCHANGED vars
  <2>1. UNCHANGED <<pc, fix, grades, outcome, archive>>
    BY <1>14 DEF vars, disk
  <2> QED BY <1>2, <2>1, RoundsSame DEF Phase
<1> QED BY <1>4, <1>5, <1>6, <1>7, <1>8, <1>9, <1>10, <1>11, <1>12, <1>13, <1>14 DEF Next

\* The fix loop is bounded, its counts fall, and re-shaping is done or not
\* begun to whoever reads the files (contract.md, reshape_fix_round.py), for
\* any number of rounds, files and deaths.
THEOREM RoundsAreKept == Spec => ImplementsFixRounds
<1>1. Init => RoundsInv /\ R!Init
  <2> SUFFICES ASSUME Init PROVE RoundsInv /\ R!Init
    OBVIOUS
  <2>1. pc = "turn" /\ fix = 0 /\ \A g \in GradeRounds : grades[g] = NoFile
    BY DEF Init
  <2>2. RoundsInv /\ DOMAIN Counts = {} /\ Phase = "working"
    BY <2>1 DEF RoundsInv, Counts, Phase
  <2>3. Kept = {0}
    <3>1. 0..0 = {0} /\ 0 \in GradeRounds
      BY FixLoopAssumption DEF GradeRounds
    <3>2. Version = 0
      BY DEF Init, Version
    <3> QED BY <3>1, <3>2, InitInv, KeptIs
  <2> QED BY <2>1, <2>2, <2>3 DEF R!Init
<1>2. IInv /\ RoundsInv /\ [Next]_vars => RoundsInv' /\ [R!Next]_(R!rvars)
  BY RoundsStep
<1> QED BY <1>1, <1>2, Inductive, PTL DEF Spec, ImplementsFixRounds, R!Spec
=============================================================================
