------------------------------- MODULE FixLoop -------------------------------
(***************************************************************************)
(* The bounded fix loop of a /bs cycle: Grade, re-shape of the capsule     *)
(* (runtime/reshape_fix_round.py), the guarded and gated launch of the     *)
(* next Conduct turn (runtime/conduct.sh --fix-round R), Grade again.      *)
(*                                                                         *)
(* A file is abstracted to what the code reads of it: the capsule to its   *)
(* set of bs-fix-round markers, a grade to its blocking count, its failed  *)
(* rows and its production loci, a diff to the files it names.  The helper *)
(* can die before any of its three writes or in the middle of one, and the *)
(* session can die at any time; both leave only the files behind.          *)
(***************************************************************************)
EXTENDS Integers

CONSTANTS Files,        \* the files of the worktree that matter
          MaxFixRounds, \* MAX_FIX_ROUNDS
          MaxBlocking,  \* bound: P0+P1 of a grade
          MaxCrashes,   \* bound: deaths of the helper or the session
          Clean,        \* binding: --mcp-policy is clean
          NoFile,       \* a file that is not there
          Torn          \* a file cut short by a death in the middle of a write

Rounds == 1..MaxFixRounds
GradeRounds == 0..MaxFixRounds

\* fails: acceptance_status is well formed and has a failed row.
Findings == [fails : BOOLEAN, loci : SUBSET Files]
Sidecar == [loci : SUBSET Files, alt : BOOLEAN]

ASSUME FixLoopAssumption ==
    /\ MaxFixRounds \in Nat \ {0}
    /\ MaxBlocking \in Nat
    /\ MaxCrashes \in Nat
    /\ Clean \in BOOLEAN
    /\ NoFile # Torn
    /\ \A f \in {NoFile, Torn} :
          \A x \in (0..MaxBlocking) \cup (SUBSET Rounds) \cup Sidecar : x # f

VARIABLES
    pc,      \* where the session, its helper and its Conduct run are
    fix,     \* the fix round under way; 0: the first Conduct
    rc,      \* what conduct.sh made of its last driver run
    retried, \* the exit-7 retry of this conduct.sh has been used
    grades,  \* grade_round_<g>.md: its blocking count
    findings,\* what the newest grade finds
    outcome, \* outcome.md: its markers
    archive, \* outcome.v<g>.md
    sidecar, \* fix_round_<R>_alignment.yaml, R the round under way
    dirty,   \* files the worktree has changed since HEAD
    delta,   \* files it has changed since PRE_HEAD, the HEAD at launch
    own,     \* history: files the turns of this round changed themselves
    crashes

disk == <<grades, findings, outcome, archive, sidecar>>
tree == <<dirty, delta, own>>
vars == <<pc, fix, rc, retried, disk, tree, crashes>>

Init ==
    /\ pc = "turn" /\ fix = 0
    /\ rc = "none" /\ retried = FALSE
    /\ grades = [g \in GradeRounds |-> NoFile]
    /\ outcome = {}
    /\ archive = [g \in GradeRounds |-> NoFile]
    /\ findings = [fails |-> FALSE, loci |-> {}]
    /\ sidecar = NoFile
    /\ dirty = {} /\ delta = {} /\ own = {}
    /\ crashes = 0

-----------------------------------------------------------------------------
(* Grade, and the decision to fix.                                         *)

\* A completed turn is graded; any other one only if it left a delta that
\* passes grade_verify.py (verify-and-accept).  A rejected round is not.
Gradable ==
    \/ pc = "verify" /\ rc = "completed"
    \/ pc \in {"verify", "failed"} /\ dirty \cup delta # {}

WriteGrade ==
    /\ Gradable
    /\ \E count \in 0..MaxBlocking : grades' = [grades EXCEPT ![fix] = count]
    /\ findings' \in Findings
    /\ pc' = "decide"
    /\ UNCHANGED <<fix, rc, retried, outcome, archive, sidecar, tree, crashes>>

NothingBlocks ==
    /\ pc = "decide"
    /\ grades[fix] = 0
    /\ pc' = "closed"
    /\ UNCHANGED <<fix, rc, retried, disk, tree, crashes>>

\* mutant: one round too many
StartFixRoundPastLimit ==
    /\ pc = "decide"
    /\ grades[fix] > 0
    /\ fix <= MaxFixRounds
    /\ fix' = fix + 1
    /\ own' = {}
    /\ sidecar' = NoFile
    /\ pc' = "reshape"
    /\ UNCHANGED <<rc, retried, grades, findings, outcome, archive, dirty,
                   delta, crashes>>

StartFixRound ==
    /\ pc = "decide"
    /\ grades[fix] > 0
    /\ fix < MaxFixRounds
    /\ fix' = fix + 1
    /\ own' = {}
    /\ sidecar' = NoFile
    /\ pc' = "reshape"
    /\ UNCHANGED <<rc, retried, grades, findings, outcome, archive, dirty,
                   delta, crashes>>

\* After round MaxFixRounds, or when a run or the helper keeps failing.
Escalate ==
    /\ \/ pc = "decide" /\ grades[fix] > 0 /\ fix = MaxFixRounds
       \/ pc \in {"failed", "rejected", "refused", "missing"}
    /\ pc' = "escalated"
    /\ UNCHANGED <<fix, rc, retried, disk, tree, crashes>>

-----------------------------------------------------------------------------
(* reshape_fix_round.py --round fix                                        *)

Prev == fix - 1

Marks(capsule) == IF capsule = Torn THEN {} ELSE capsule

\* enforce_bounds
Decreases ==
    fix >= 2 => grades[Prev] < grades[fix - 2]

Admissible ==
    /\ Decreases
    /\ findings.fails
    /\ \A r \in Marks(outcome) : r <= fix

\* mutant: an archive that is already there is written again
FreshRewritesArchive == fix \notin Marks(outcome)

\* Neither the archive nor the marker is there yet.
Fresh == archive[Prev] = NoFile /\ fix \notin Marks(outcome)

\* Both are: a re-run.
Reshaped == archive[Prev] # NoFile /\ fix \in Marks(outcome)

\* Any other combination is an error, as are bad grades.
Check ==
    /\ pc = "reshape"
    /\ pc' = IF ~Admissible THEN "refused"
             ELSE IF Fresh THEN "archive"
             ELSE IF Reshaped THEN "sidecar"
             ELSE "refused"
    /\ UNCHANGED <<fix, rc, retried, disk, tree, crashes>>

\* mutant: the capsule is written before it is archived
CopyAfterWrite ==
    /\ pc = "archive"
    /\ outcome' = Marks(outcome) \cup {fix}
    /\ archive' = [archive EXCEPT ![Prev] = outcome']
    /\ pc' = "write"
    /\ UNCHANGED <<fix, rc, retried, grades, findings, sidecar, tree, crashes>>

Copy ==
    /\ pc = "archive"
    /\ archive' = [archive EXCEPT ![Prev] = outcome]
    /\ pc' = "write"
    /\ UNCHANGED <<fix, rc, retried, grades, findings, outcome, sidecar, tree, crashes>>

Write ==
    /\ pc = "write"
    /\ outcome' = Marks(outcome) \cup {fix}
    /\ pc' = "sidecar"
    /\ UNCHANGED <<fix, rc, retried, grades, findings, archive, sidecar, tree, crashes>>

Legible == sidecar \notin {NoFile, Torn}

\* mutant: the helper starts from an empty sidecar
JustifiedNever == FALSE

\* The justification of an earlier sidecar is carried over if it is legible.
Justified == Legible /\ sidecar.alt

WriteSidecar ==
    /\ pc = "sidecar"
    /\ sidecar' = [loci |-> findings.loci, alt |-> Justified]
    /\ pc' = "conduct"
    /\ UNCHANGED <<fix, rc, retried, grades, findings, outcome, archive, tree,
                   crashes>>

-----------------------------------------------------------------------------
(* conduct.sh --fix-round fix                                              *)

\* mutant: the marker is not looked for
GuardWithoutMarker ==
    archive[Prev] # NoFile /\ grades[Prev] # NoFile

Guard ==
    /\ archive[Prev] # NoFile /\ grades[Prev] # NoFile
    /\ fix \in Marks(outcome)

\* PRE_HEAD is taken: what earlier rounds left uncommitted counts as changed.
Launch ==
    /\ pc = "conduct"
    /\ pc' = IF Guard THEN "turn" ELSE "missing"
    /\ retried' = FALSE
    /\ delta' = IF Guard THEN dirty ELSE delta
    /\ UNCHANGED <<fix, rc, disk, dirty, own, crashes>>

\* The codex turn changes a file, or commits what has changed so far.
TurnChanges(f) ==
    /\ pc = "turn"
    /\ dirty' = dirty \cup {f}
    /\ delta' = delta \cup {f}
    /\ own' = own \cup {f}
    /\ UNCHANGED <<pc, fix, rc, retried, disk, crashes>>

TurnCommits ==
    /\ pc = "turn" /\ dirty # {}
    /\ dirty' = {}
    /\ UNCHANGED <<pc, fix, rc, retried, disk, delta, own, crashes>>

\* The driver exits with r; exit 7 is retried once under a clean home.
TurnEnds(r) ==
    /\ pc = "turn"
    /\ IF r = "noWork" /\ ~Clean /\ ~retried
         THEN retried' = TRUE /\ UNCHANGED <<pc, rc>>
         ELSE /\ rc' = r
              /\ pc' = "gate"
              /\ UNCHANGED retried
    /\ UNCHANGED <<fix, disk, tree, crashes>>

\* "partial": exits 6 and 8, which leave a delta worth gating.
Gated == fix > 0 /\ rc \in {"completed", "partial"} /\ delta # {}

\* The loci a gated round must touch: none if the sidecar is missing or
\* illegible, has no loci, or justifies a fix elsewhere.
Required == IF Legible /\ ~sidecar.alt THEN sidecar.loci ELSE {}

\* mutant: any changed file will do
AlignedAnyFile == Required # {} => delta # {}

\* run_fix_round_alignment_gate
Aligned == Required # {} => delta \cap Required # {}

Pass ==
    /\ pc = "gate"
    /\ Gated => Aligned
    /\ pc' = IF rc \in {"completed", "partial"} THEN "verify" ELSE "failed"
    /\ UNCHANGED <<fix, rc, retried, disk, tree, crashes>>

\* Exit 9.
Misaligned ==
    /\ pc = "gate"
    /\ Gated /\ ~Aligned
    /\ pc' = "rejected"
    /\ UNCHANGED <<fix, rc, retried, disk, tree, crashes>>

\* Exit 10: no changed file takes up a correction, which is up to the data.
ZeroUptake ==
    /\ pc = "gate"
    /\ Gated
    /\ pc' = "rejected"
    /\ UNCHANGED <<fix, rc, retried, disk, tree, crashes>>

-----------------------------------------------------------------------------
(* The session                                                             *)

\* A round that failed, was rejected or found nothing to launch is run again;
\* round 0 has neither a capsule to re-shape nor a guard.
Again ==
    /\ pc \in {"verify", "failed", "rejected", "missing"}
    /\ pc = "verify" => rc = "partial"
    /\ \/ /\ fix > 0
          /\ pc' \in {"reshape", "conduct"}
          /\ UNCHANGED <<retried, delta>>
       \/ /\ fix = 0
          /\ pc' = "turn"
          /\ retried' = FALSE
          /\ delta' = dirty
    /\ UNCHANGED <<fix, rc, disk, dirty, own, crashes>>

\* An author justifies a fix at another place in the sidecar.
Justify ==
    /\ pc = "rejected"
    /\ Legible
    /\ sidecar' = [sidecar EXCEPT !.alt = TRUE]
    /\ UNCHANGED <<pc, fix, rc, retried, grades, findings, outcome, archive,
                   tree, crashes>>

\* The file being written is left cut short, or the write has not begun.
LeavesTorn ==
    \/ /\ pc = "archive"
       /\ archive' = [archive EXCEPT ![Prev] = Torn]
       /\ UNCHANGED <<outcome, sidecar>>
    \/ /\ pc = "write"
       /\ outcome' = Torn
       /\ UNCHANGED <<archive, sidecar>>
    \/ /\ pc = "sidecar"
       /\ sidecar' = Torn
       /\ UNCHANGED <<outcome, archive>>
    \/ UNCHANGED <<outcome, archive, sidecar>>

\* The helper dies; whoever resumes runs it again, or believes it has run.
HelperDies ==
    /\ pc \in {"reshape", "archive", "write", "sidecar"}
    /\ crashes < MaxCrashes
    /\ LeavesTorn
    /\ pc' \in {"reshape", "conduct"}
    /\ crashes' = crashes + 1
    /\ UNCHANGED <<fix, rc, retried, grades, findings, tree>>

\* conduct.sh dies without a result line.
ConductDies ==
    /\ pc \in {"turn", "gate"}
    /\ crashes < MaxCrashes
    /\ rc' = "lost"
    /\ pc' = "failed"
    /\ crashes' = crashes + 1
    /\ UNCHANGED <<fix, retried, disk, tree>>

DriverResult == {"completed", "partial", "noWork", "failed"}

Next ==
    \/ WriteGrade \/ NothingBlocks \/ StartFixRound \/ Escalate
    \/ Check \/ Copy \/ Write \/ WriteSidecar
    \/ Launch
    \/ \E f \in Files : TurnChanges(f)
    \/ TurnCommits
    \/ \E r \in DriverResult : TurnEnds(r)
    \/ Pass \/ Misaligned \/ ZeroUptake
    \/ Again \/ Justify \/ HelperDies \/ ConductDies

Spec == Init /\ [][Next]_vars

-----------------------------------------------------------------------------
(* Properties                                                              *)

TypeOK ==
    /\ pc \in {"decide", "reshape", "archive", "write", "sidecar", "refused",
               "conduct", "missing", "turn", "gate", "verify", "failed",
               "rejected", "closed", "escalated"}
    /\ fix \in GradeRounds
    /\ rc \in DriverResult \cup {"none", "lost"}
    /\ retried \in BOOLEAN
    /\ grades \in [GradeRounds -> 0..MaxBlocking \cup {NoFile}]
    /\ findings \in Findings
    /\ outcome \in (SUBSET Rounds) \cup {Torn}
    /\ archive \in [GradeRounds -> (SUBSET Rounds) \cup {NoFile, Torn}]
    /\ sidecar \in Sidecar \cup {NoFile, Torn}
    /\ dirty \subseteq Files /\ delta \subseteq Files /\ own \subseteq Files
    /\ crashes \in 0..MaxCrashes

\* A fix turn runs on a capsule that carries the marker of every round so
\* far, with each earlier capsule archived whole, and only while P0+P1 has
\* decreased from grade to grade; a helper that died half way through, any
\* number of times, does not change that (conduct.sh's guard together with
\* the partial-state errors of reshape).
LaunchIsReshaped ==
    pc = "turn" /\ fix > 0 =>
        /\ outcome = 1..fix
        /\ \A g \in 0..Prev : archive[g] = 1..g
        /\ \A g \in 1..Prev : grades[g] < grades[g - 1]

\* The capsule is never lost: when a death leaves outcome.md cut short, the
\* archive has it as it was before the round (reshape archives first).
CapsuleIsRecoverable ==
    outcome = Torn => archive[Prev] = 1..Prev

\* An archive that is whole is never written again, whoever re-runs the
\* helper after whatever death (the partial-state errors of reshape).
ArchivesAreFinal ==
    [][\A g \in GradeRounds :
          archive[g] \notin {NoFile, Torn} => archive'[g] = archive[g]]_vars

\* A round that leaves a delta goes on only if it has changed, since the HEAD
\* of its launch, a locus its Grade found, or the fix is justified elsewhere;
\* otherwise a death has cost it its sidecar (write_alignment_sidecar and
\* run_fix_round_alignment_gate, which lets a round without one through).
MisalignedIsRejected ==
    pc = "verify" /\ fix > 0 /\ delta # {} =>
        \/ findings.loci = {} \/ delta \cap findings.loci # {}
        \/ Legible /\ sidecar.alt
        \/ ~Legible /\ crashes > 0

\* A justification stays through every re-run of the helper in its round,
\* unless the helper dies writing the sidecar (write_alignment_sidecar).
JustificationSticks ==
    [][Legible /\ sidecar.alt /\ fix' = fix =>
          sidecar' = Torn \/ sidecar'.alt]_vars

\* contract.md: the loop is bounded, P0+P1 falls from round to round, each
\* round works on a capsule re-shaped for it, and "every re-shape" leaves the
\* capsule before it archived.  The helper's three writes, cut short and
\* repeated at will, are one step of that (reshape_fix_round.py).
Phase ==
    CASE pc \in {"turn", "gate", "verify", "failed", "rejected"} -> "working"
      [] pc = "decide" -> "judged"
      [] pc \in {"closed", "escalated"} -> pc
      [] OTHER -> "preparing"

Counts == [g \in {k \in GradeRounds : grades[k] # NoFile} |-> grades[g]]

Kept == {k \in GradeRounds : 1..k \in {outcome, archive[k]}}

R == INSTANCE FixRounds WITH
         phase <- Phase, round <- fix, counts <- Counts, kept <- Kept

ImplementsFixRounds == R!Spec

\* contract.md: the gate rejects a successful fix round whose diff touches
\* none of the required loci.  The diff of the round is what its own turns
\* changed; a round that changed nothing is left out.
AlignedByOwnDiff ==
    pc = "verify" /\ rc = "completed" /\ fix > 0
        /\ own # {} /\ Required # {}
        => own \cap Required # {}

-----------------------------------------------------------------------------
(* The inductive invariant behind the safety properties (FixLoopProofs).   *)

\* Of the rounds before the one under way, every capsule is archived whole;
\* of that round, if anything; of later ones, nothing.
ArchiveInv ==
    \A g \in GradeRounds :
        /\ g + 1 < fix => archive[g] = 1..g
        /\ g + 1 = fix => archive[g] \in {NoFile, Torn, 1..g}
        /\ g >= fix => archive[g] = NoFile

\* The capsule is as it was before the round, or that is in the archive.
CapsuleInv ==
    \/ outcome = 1..Prev
    \/ fix > 0 /\ outcome \in {1..fix, Torn} /\ archive[Prev] = 1..Prev

\* What each phase may rely on.
PhaseInv ==
    /\ pc \in {"reshape", "refused", "conduct", "missing"} => fix > 0
    /\ pc = "archive" => fix > 0 /\ outcome = 1..Prev /\ archive[Prev] = NoFile
    /\ pc = "write" => fix > 0 /\ outcome = 1..Prev /\ archive[Prev] = 1..Prev
    /\ pc = "sidecar" => fix > 0 /\ outcome = 1..fix
    /\ pc \in {"turn", "gate", "verify", "failed", "rejected", "decide"}
          => outcome = 1..fix

\* A round with an archive, or about to make one, has passed enforce_bounds.
BoundsInv ==
    /\ \A g \in GradeRounds :
          g < fix \/ (pc = "decide" /\ g = fix) => grades[g] \in 0..MaxBlocking
    /\ \A g \in 1..MaxFixRounds : g + 1 < fix => grades[g] < grades[g - 1]
    /\ fix > 0 /\ (pc = "archive" \/ archive[Prev] # NoFile) => Decreases

\* A torn capsule can never be taken for a reshaped one, because each round's
\* archive is complete before its marker is written and is never rewritten.
IInv == TypeOK /\ ArchiveInv /\ CapsuleInv /\ PhaseInv /\ BoundsInv
=============================================================================
