-------------------------- MODULE StepEventsProofs --------------------------
(***************************************************************************)
(* Proofs about StepEvents, for any steps, attempts and length of the log: *)
(* the gate and the resume parser accept the same logs and read the same   *)
(* states from them, the preflight probe reports what they read, and an    *)
(* accepted log accounts for every terminal event.                         *)
(***************************************************************************)
EXTENDS StepEvents, FiniteSetTheorems, TLAPS

\* An empty log satisfies the invariant.
LEMMA InitInv == Init => IInv
<1> SUFFICES ASSUME Init PROVE IInv
  OBVIOUS
<1> USE StepEventsAssumption DEF Init, None, Zero
<1>1. TypeOK
  <2>1. /\ lines \in 0..MaxLines
        /\ evOpen \subseteq EventKey /\ valOpen \subseteq EventKey
        /\ evOrphans \subseteq Orphan /\ valOrphans \subseteq Orphan
    OBVIOUS
  <2>2. /\ evStates \in [EventKey -> {"none", "in_progress"} \cup Terminal]
        /\ valStates \in [EventKey -> {"none"} \cup Terminal]
        /\ pre \in [EventKey -> {"none"} \cup Event]
    OBVIOUS
  <2>3. /\ starts \in [EventKey -> Nat]
        /\ terms \in [EventKey -> Nat]
        /\ repaired \in [EventKey -> Nat]
    OBVIOUS
  <2>4. evErr \in BOOLEAN /\ valErr \in BOOLEAN /\ preErr \in BOOLEAN /\ mistimed \in BOOLEAN
    OBVIOUS
  <2> QED BY <2>1, <2>2, <2>3, <2>4 DEF TypeOK
<1>2. LineInv BY FS_EmptySet DEF LineInv
<1>3. SyncInv BY DEF SyncInv
<1>4. ProbeInv BY DEF ProbeInv
<1>5. CountInv
  <2>1. ASSUME NEW k \in EventKey PROVE Cardinality(OrphansOf(k)) = 0
    <3>1. OrphansOf(k) = {} BY DEF OrphansOf
    <3> QED BY <3>1, FS_EmptySet
  <2> QED BY <2>1 DEF CountInv
<1> QED BY <1>1, <1>2, <1>3, <1>4, <1>5 DEF IInv

\* How a new orphan and a mended one change the number of an attempt's.
LEMMA OrphanCount ==
    ASSUME TypeOK, LineInv, NEW k \in EventKey, NEW o
    PROVE  /\ IsFiniteSet(OrphansOf(k))
           /\ Cardinality(OrphansOf(k)) \in Nat
           /\ o.line > lines => o \notin OrphansOf(k)
           /\ o \notin OrphansOf(k) =>
                 Cardinality(OrphansOf(k) \cup {o}) = Cardinality(OrphansOf(k)) + 1
           /\ o \in OrphansOf(k) =>
                 Cardinality(OrphansOf(k) \ {o}) = Cardinality(OrphansOf(k)) - 1
<1>1. OrphansOf(k) \in SUBSET evOrphans BY DEF OrphansOf
<1>2. IsFiniteSet(OrphansOf(k)) BY <1>1, FS_Subset DEF LineInv
<1>3. o \in OrphansOf(k) => o.line <= lines /\ o.line \in Nat /\ lines \in Nat
  BY StepEventsAssumption DEF OrphansOf, LineInv, TypeOK, Orphan
<1> QED BY <1>2, <1>3, FS_CardinalityType, FS_AddElement, FS_RemoveElement

\* An appended event keeps the invariant.
LEMMA AppendInv ==
    ASSUME IInv, NEW k \in EventKey, NEW time \in Timing, NEW split \in BOOLEAN,
           NEW e \in Event, Append(e, k, time, split)
    PROVE  IInv'
<1> USE StepEventsAssumption DEF IInv
<1>a. NewOrphan(e, k).line = lines + 1 /\ NewOrphan(e, k).key = k /\ NewOrphan(e, k).kind = e
  BY DEF NewOrphan
<1>b. e = "started" \/ e \in Terminal
  BY DEF Event
<1>c. e = "started" => e \notin Terminal
  BY DEF Terminal
<1>d. lines' \in 0..MaxLines /\ lines' = lines + 1 /\ lines \in Nat
  BY DEF TypeOK, Append, Stamped
<1>e. e \in Terminal => NewOrphan(e, k) \in Orphan
  BY <1>d DEF NewOrphan, Orphan
<1>f. /\ evErr' = (evErr \/ split \/ EvRefuses(e, k))
      /\ valErr' = (valErr \/ time # "due" \/ ValRefuses(e, k))
      /\ preErr' = (preErr \/ split)
      /\ mistimed' = (mistimed \/ time # "due")
  BY DEF Append, Stamped, EvReads, ValReads, PreReads
<1>1. TypeOK'
  <2>1. evErr' \in BOOLEAN /\ valErr' \in BOOLEAN /\ preErr' \in BOOLEAN /\ mistimed' \in BOOLEAN
    BY <1>f
  <2>2. /\ evStates' \in [EventKey -> {"none", "in_progress"} \cup Terminal]
        /\ evOpen' \subseteq EventKey
        /\ evOrphans' \subseteq Orphan
    BY <1>e DEF TypeOK, Append, EvReads
  <2>3. /\ valStates' \in [EventKey -> {"none"} \cup Terminal]
        /\ valOpen' \subseteq EventKey
        /\ valOrphans' \subseteq Orphan
    BY <1>e DEF TypeOK, Append, ValReads
  <2>4. pre' \in [EventKey -> {"none"} \cup Event]
    BY DEF TypeOK, Append, PreReads
  <2>5. /\ starts' \in [EventKey -> Nat]
        /\ terms' \in [EventKey -> Nat]
        /\ repaired' \in [EventKey -> Nat]
    BY DEF TypeOK, Append, Bump
  <2> QED BY <1>d, <2>1, <2>2, <2>3, <2>4, <2>5 DEF TypeOK
<1>2. LineInv'
  <2>1. evOrphans' \subseteq evOrphans \cup {NewOrphan(e, k)}
    BY DEF Append, EvReads
  <2>2. valOrphans' \subseteq valOrphans \cup {NewOrphan(e, k)}
    BY DEF Append, ValReads
  <2>3. IsFiniteSet(evOrphans')
    BY <2>1, FS_AddElement, FS_Subset DEF LineInv
  <2>4. ASSUME NEW o \in evOrphans \cup valOrphans PROVE o.line <= lines'
    BY <1>d DEF LineInv, TypeOK, Orphan
  <2>5. ASSUME NEW o \in evOrphans PROVE o.line # NewOrphan(e, k).line
    BY <1>a, <1>d DEF LineInv, TypeOK, Orphan
  <2> QED BY <1>a, <1>d, <2>1, <2>2, <2>3, <2>4, <2>5 DEF LineInv
<1>3. SyncInv'
  BY <1>b, <1>c, <1>f DEF TypeOK, SyncInv, Append, EvReads, ValReads, EvRefuses, ValRefuses, Terminal
<1>4. ProbeInv'
  <2> SUFFICES ASSUME ~valErr', ~preErr', NEW j \in EventKey
               PROVE  /\ pre'[j] = "started" <=> j \in valOpen'
                      /\ j \notin valOpen' /\ (\A o \in valOrphans' : o.key # j)
                            => pre'[j] = valStates'[j]
                      /\ j \notin valOpen' /\ valStates'[j] = "none" =>
                            \A o \in valOrphans' :
                                o.key = j /\ (\A q \in valOrphans' : q.key = j => q = o)
                                    => pre'[j] = o.kind
    BY DEF ProbeInv
  <2>1. ~valErr /\ ~preErr /\ ~ValRefuses(e, k) /\ pre' = [pre EXCEPT ![k] = e]
    BY <1>f DEF Append, PreReads
  <2>2. CASE j # k
    BY <1>a, <2>1, <2>2 DEF TypeOK, ProbeInv, Append, ValReads
  <2>3. CASE j = k /\ e = "started"
    BY <1>c, <2>1, <2>3 DEF TypeOK, Append, ValReads
  <2>4. CASE j = k /\ e \in Terminal /\ k \in valOpen
    BY <1>c, <2>1, <2>4 DEF TypeOK, Append, ValReads, Terminal
  <2>5. CASE j = k /\ e \in Terminal /\ k \notin valOpen
    BY <1>a, <1>c, <2>1, <2>5 DEF TypeOK, Append, ValReads
  <2> QED BY <1>b, <2>2, <2>3, <2>4, <2>5
<1>5. CountInv'
  <2> SUFFICES ASSUME ~evErr', NEW j \in EventKey
               PROVE  starts'[j] + repaired'[j] + Cardinality(OrphansOf(j)')
                          = terms'[j] + (IF j \in evOpen' THEN 1 ELSE 0)
    BY DEF CountInv
  <2>1. /\ ~evErr /\ ~EvRefuses(e, k)
        /\ starts[j] + repaired[j] + Cardinality(OrphansOf(j))
               = terms[j] + (IF j \in evOpen THEN 1 ELSE 0)
    BY <1>f DEF CountInv
  <2>2. starts[j] \in Nat /\ repaired[j] \in Nat /\ terms[j] \in Nat
    BY DEF TypeOK
  <2>3. Cardinality(OrphansOf(j)) \in Nat
    BY OrphanCount
  <2>4. repaired'[j] = repaired[j]
    BY DEF Append
  <2>5. CASE j # k
    <3>1. OrphansOf(j)' = OrphansOf(j)
      BY <1>a, <2>5 DEF Append, EvReads, OrphansOf
    <3>2. /\ starts'[j] = starts[j] /\ terms'[j] = terms[j]
          /\ j \in evOpen' <=> j \in evOpen
      BY <2>5 DEF TypeOK, Append, EvReads, Bump
    <3> QED BY <2>1, <2>4, <3>1, <3>2
  <2>6. CASE j = k /\ e = "started"
    <3>1. OrphansOf(j)' = OrphansOf(j)
      BY <1>c, <2>6 DEF Append, EvReads, OrphansOf
    <3>2. /\ starts'[j] = starts[j] + 1 /\ terms'[j] = terms[j]
          /\ j \notin evOpen /\ j \in evOpen'
      BY <1>c, <2>1, <2>6 DEF TypeOK, Append, EvReads, EvRefuses, Bump
    <3> QED BY <2>1, <2>2, <2>3, <2>4, <3>1, <3>2
  <2>7. CASE j = k /\ e \in Terminal /\ k \in evOpen
    <3>1. OrphansOf(j)' = OrphansOf(j)
      BY <1>c, <2>7 DEF Append, EvReads, OrphansOf
    <3>2. /\ starts'[j] = starts[j] /\ terms'[j] = terms[j] + 1
          /\ j \in evOpen /\ j \notin evOpen'
      BY <1>c, <2>1, <2>7 DEF TypeOK, Append, EvReads, Bump
    <3> QED BY <2>1, <2>2, <2>3, <2>4, <3>1, <3>2
  <2>8. CASE j = k /\ e \in Terminal /\ k \notin evOpen
    <3>1. OrphansOf(j)' = OrphansOf(j) \cup {NewOrphan(e, k)}
      BY <1>a, <1>c, <2>8 DEF Append, EvReads, OrphansOf
    <3>2. /\ starts'[j] = starts[j] /\ terms'[j] = terms[j] + 1
          /\ j \notin evOpen /\ j \notin evOpen'
      BY <1>c, <2>8 DEF TypeOK, Append, EvReads, Bump
    <3>3. Cardinality(OrphansOf(j)') = Cardinality(OrphansOf(j)) + 1
      <4>1. NewOrphan(e, k).line > lines
        BY <1>a, <1>d
      <4> QED BY <3>1, <4>1, OrphanCount
    <3> QED BY <2>1, <2>2, <2>3, <2>4, <3>2, <3>3
  <2> QED BY <1>b, <2>5, <2>6, <2>7, <2>8
<1> QED BY <1>1, <1>2, <1>3, <1>4, <1>5

\* A repair keeps it, good or bad.
LEMMA RepairInv ==
    ASSUME IInv, NEW k \in EventKey, NEW time \in Timing, NEW split \in BOOLEAN,
           NEW line \in 1..lines, NEW genuine \in BOOLEAN,
           Repair(line, k, genuine, time, split)
    PROVE  IInv'
<1> USE StepEventsAssumption DEF IInv
<1>a. lines' \in 0..MaxLines /\ lines' = lines + 1 /\ lines \in Nat
  BY DEF TypeOK, Repair, Stamped
<1>b. /\ evErr' = (evErr \/ split \/ EvMends(line, k, genuine) = {})
      /\ valErr' = (valErr \/ time # "due" \/ ValMends(line, k, genuine) = {})
      /\ preErr' = (preErr \/ split)
      /\ mistimed' = (mistimed \/ time # "due")
  BY DEF Repair, Stamped, EvReadsRepair, ValReadsRepair, PreSkipsRepair
<1>c. ASSUME NEW o \in EvMends(line, k, genuine)
      PROVE  o \in evOrphans /\ o.key = k /\ o.line = line /\ genuine /\ evStates[k] \notin Terminal
  BY DEF EvMends
<1>d. ASSUME NEW o \in ValMends(line, k, genuine)
      PROVE  o \in valOrphans /\ o.key = k /\ o.line = line /\ genuine /\ valStates[k] \notin Terminal
  BY DEF ValMends
<1>e. /\ evErr' => evStates' = evStates /\ evOrphans' = evOrphans
      /\ ~evErr' => \E o \in EvMends(line, k, genuine) :
                       /\ evOrphans' = evOrphans \ {o}
                       /\ evStates' = [evStates EXCEPT ![k] = o.kind]
  BY <1>b DEF Repair, EvReadsRepair
<1>f. /\ valErr' => valStates' = valStates /\ valOrphans' = valOrphans
      /\ ~valErr' => \E o \in ValMends(line, k, genuine) :
                        /\ valOrphans' = valOrphans \ {o}
                        /\ valStates' = [valStates EXCEPT ![k] = o.kind]
  BY <1>b DEF Repair, ValReadsRepair
<1>g. UNCHANGED <<evOpen, valOpen, pre, starts, terms>>
  BY DEF Repair, EvReadsRepair, ValReadsRepair, PreSkipsRepair
<1>1. TypeOK'
  <2>1. evErr' \in BOOLEAN /\ valErr' \in BOOLEAN /\ preErr' \in BOOLEAN /\ mistimed' \in BOOLEAN
    BY <1>b
  <2>2. /\ evStates' \in [EventKey -> {"none", "in_progress"} \cup Terminal]
        /\ evOrphans' \subseteq Orphan
    BY <1>c, <1>e DEF TypeOK, Orphan
  <2>3. /\ valStates' \in [EventKey -> {"none"} \cup Terminal]
        /\ valOrphans' \subseteq Orphan
    BY <1>d, <1>f DEF TypeOK, Orphan
  <2>4. repaired' \in [EventKey -> Nat]
    BY DEF TypeOK, Repair, Bump
  <2> QED BY <1>a, <1>g, <2>1, <2>2, <2>3, <2>4 DEF TypeOK
<1>2. LineInv'
  <2>1. evOrphans' \subseteq evOrphans /\ valOrphans' \subseteq valOrphans
    BY <1>e, <1>f
  <2>2. IsFiniteSet(evOrphans')
    BY <2>1, FS_Subset DEF LineInv
  <2>3. ASSUME NEW o \in evOrphans \cup valOrphans PROVE o.line <= lines'
    BY <1>a DEF LineInv, TypeOK, Orphan
  <2> QED BY <2>1, <2>2, <2>3 DEF LineInv
<1>3. SyncInv'
  <2>1. ~evErr /\ ~valErr => EvMends(line, k, genuine) = ValMends(line, k, genuine)
    BY DEF TypeOK, SyncInv, EvMends, ValMends, Terminal
  <2>2. /\ valErr' /\ ~evErr' => mistimed'
        /\ evErr' /\ ~valErr' => preErr'
    BY <1>b, <2>1 DEF SyncInv
  <2>3. ASSUME ~evErr', ~valErr'
        PROVE  /\ valOpen' = evOpen'
               /\ valOrphans' = evOrphans'
               /\ \A j \in EventKey :
                     valStates'[j] = IF evStates'[j] = "in_progress" THEN "none"
                                                                   ELSE evStates'[j]
    <3>1. ~evErr /\ ~valErr
      BY <1>b, <2>3
    <3>2. PICK o \in EvMends(line, k, genuine) :
             /\ evOrphans' = evOrphans \ {o}
             /\ evStates' = [evStates EXCEPT ![k] = o.kind]
      BY <1>e, <2>3
    <3>3. PICK q \in EvMends(line, k, genuine) :
             /\ valOrphans' = valOrphans \ {q}
             /\ valStates' = [valStates EXCEPT ![k] = q.kind]
      BY <1>f, <2>1, <2>3, <3>1
    <3>4. o = q
      BY <1>c DEF LineInv
    <3>5. o.kind \in Terminal
      BY <1>c DEF TypeOK, Orphan
    <3> QED BY <1>g, <3>1, <3>2, <3>3, <3>4, <3>5 DEF TypeOK, SyncInv, Terminal
  <2>4. ~evErr' => \A j \in EventKey : evStates'[j] = "in_progress" => j \in evOpen'
    <3>1. ASSUME NEW o \in EvMends(line, k, genuine) PROVE o.kind # "in_progress"
      BY <1>c DEF TypeOK, Orphan, Terminal
    <3> QED BY <1>b, <1>e, <1>g, <3>1 DEF TypeOK, SyncInv
  <2> QED BY <2>2, <2>3, <2>4 DEF SyncInv
<1>4. ProbeInv'
  <2> SUFFICES ASSUME ~valErr', ~preErr', NEW j \in EventKey
               PROVE  /\ pre'[j] = "started" <=> j \in valOpen'
                      /\ j \notin valOpen' /\ (\A o \in valOrphans' : o.key # j)
                            => pre'[j] = valStates'[j]
                      /\ j \notin valOpen' /\ valStates'[j] = "none" =>
                            \A o \in valOrphans' :
                                o.key = j /\ (\A q \in valOrphans' : q.key = j => q = o)
                                    => pre'[j] = o.kind
    BY DEF ProbeInv
  <2>1. ~valErr /\ ~preErr
    BY <1>b
  <2>2. PICK o \in ValMends(line, k, genuine) :
           /\ valOrphans' = valOrphans \ {o}
           /\ valStates' = [valStates EXCEPT ![k] = o.kind]
    BY <1>f
  <2>3. /\ o \in valOrphans /\ o.key = k /\ o.kind \in Terminal
        /\ valStates[k] = "none"
    BY <1>d DEF TypeOK, Orphan
  <2>4. CASE j # k
    BY <1>g, <2>1, <2>2, <2>3, <2>4 DEF TypeOK, ProbeInv
  <2>5. CASE j = k
    <3>1. pre'[k] = "started" <=> k \in valOpen'
      BY <1>g, <2>1 DEF ProbeInv
    <3>2. (\A q \in valOrphans' : q.key # k) => \A q \in valOrphans : q.key = k => q = o
      BY <2>2
    <3>3. k \notin valOpen' /\ (\A q \in valOrphans' : q.key # k) => pre'[k] = o.kind
      BY <1>g, <2>1, <2>3, <3>2 DEF ProbeInv
    <3>4. valStates'[k] = o.kind /\ o.kind # "none"
      BY <2>2, <2>3 DEF TypeOK, Terminal
    <3> QED BY <2>5, <3>1, <3>3, <3>4
  <2> QED BY <2>4, <2>5
<1>5. CountInv'
  <2> SUFFICES ASSUME ~evErr', NEW j \in EventKey
               PROVE  starts'[j] + repaired'[j] + Cardinality(OrphansOf(j)')
                          = terms'[j] + (IF j \in evOpen' THEN 1 ELSE 0)
    BY DEF CountInv
  <2>1. starts[j] + repaired[j] + Cardinality(OrphansOf(j))
            = terms[j] + (IF j \in evOpen THEN 1 ELSE 0)
    BY <1>b DEF CountInv
  <2>2. starts[j] \in Nat /\ repaired[j] \in Nat /\ terms[j] \in Nat
    BY DEF TypeOK
  <2>3. Cardinality(OrphansOf(j)) \in Nat
    BY OrphanCount
  <2>4. PICK o \in EvMends(line, k, genuine) : evOrphans' = evOrphans \ {o}
    BY <1>e
  <2>5. OrphansOf(j)' = OrphansOf(j) \ {o} /\ (o \in OrphansOf(j) <=> j = k)
    BY <1>c, <2>4 DEF OrphansOf
  <2>6. Cardinality(OrphansOf(j)') = Cardinality(OrphansOf(j)) - (IF j = k THEN 1 ELSE 0)
    <3>1. CASE j = k
      BY <2>5, <3>1, OrphanCount
    <3>2. CASE j # k
      <4>1. OrphansOf(j)' = OrphansOf(j)
        BY <2>5, <3>2
      <4> QED BY <2>3, <3>2, <4>1
    <3> QED BY <3>1, <3>2
  <2>7. repaired'[j] = repaired[j] + (IF j = k THEN 1 ELSE 0)
    BY DEF TypeOK, Repair, Bump
  <2> QED BY <1>g, <2>1, <2>2, <2>3, <2>6, <2>7
<1> QED BY <1>1, <1>2, <1>3, <1>4, <1>5

\* No append and no repair breaks the invariant.
LEMMA NextInv == IInv /\ [Next]_vars => IInv'
<1> SUFFICES ASSUME IInv, [Next]_vars PROVE IInv'
  OBVIOUS
<1>1. CASE Next
  BY <1>1, AppendInv, RepairInv DEF Next
<1>2. CASE UNCHANGED vars
  BY <1>2 DEF vars, evVars, valVars, counts, IInv, TypeOK, LineInv, SyncInv,
              ProbeInv, CountInv, OrphansOf
<1> QED BY <1>1, <1>2

\* The invariant holds in every state (lib/events.py, validate_events.py and
\* preflight.sh reading one log).
THEOREM Inductive == Spec => []IInv
BY InitInv, NextInv, PTL DEF Spec

\* The variables keep their types, for any log.
THEOREM TypeCorrect == Spec => []TypeOK
<1>1. IInv => TypeOK
  BY DEF IInv
<1> QED BY <1>1, Inductive, PTL

\* The gate and the resume parser agree: what the gate accepts, resume reads
\* to the same states if no event is split, and what resume accepts, the gate
\* accepts unless a recorded_at has gone back or an occurred_at is after it.
THEOREM GateAgreesAlways == Spec => []GateAgreesWithResume
<1>1. ASSUME IInv PROVE GateAgreesWithResume
  <2>1. ASSUME ValAccepts, ~preErr PROVE EvAccepts /\ evStates = valStates
    <3>1. ~valErr /\ ~evErr
      BY <1>1, <2>1 DEF IInv, TypeOK, SyncInv, ValAccepts
    <3>2. EvAccepts
      BY <1>1, <2>1, <3>1 DEF IInv, SyncInv, ValAccepts, EvAccepts
    <3>3. \A k \in EventKey : evStates[k] = valStates[k]
      BY <1>1, <3>1, <3>2 DEF IInv, SyncInv, EvAccepts
    <3> QED BY <1>1, <3>2, <3>3 DEF IInv, TypeOK
  <2>2. ASSUME EvAccepts, ~mistimed PROVE ValAccepts
    BY <1>1, <2>2 DEF IInv, TypeOK, SyncInv, ValAccepts, EvAccepts
  <2> QED BY <2>1, <2>2 DEF GateAgreesWithResume
<1> QED BY <1>1, Inductive, PTL

\* The preflight probe agrees with the gate about open steps and about the
\* close, on every log the gate accepts and the probe can read.
THEOREM ProbeAgreesAlways == Spec => []ProbeAgreesWithGate
<1>1. ASSUME IInv PROVE ProbeAgreesWithGate
  <2> SUFFICES ASSUME NEW s \in Steps, ValAcceptsOpen(s), ~preErr
               PROVE  /\ OpenSteps = {t \in StepTargets : \E k \in valOpen : k.step = t}
                      /\ Step10Completed <=>
                            /\ \A k \in valOpen : k.step # Step10
                            /\ \E k \in EventKey : k.step = Step10 /\ valStates[k] = "completed"
    BY DEF ProbeAgreesWithGate
  <2>1. valOpen \subseteq EventKey
    BY <1>1 DEF IInv, TypeOK
  <2>2. \A k \in EventKey : /\ pre[k] = "started" <=> k \in valOpen
                            /\ k \notin valOpen => pre[k] = valStates[k]
    BY <1>1 DEF IInv, ProbeInv, ValAcceptsOpen
  <2>3. OpenSteps = {t \in StepTargets : \E k \in valOpen : k.step = t}
    BY <2>1, <2>2 DEF OpenSteps
  <2>4. Step10 \in OpenSteps <=> \E k \in valOpen : k.step = Step10
    BY <2>3, StepEventsAssumption
  <2>5. (\A k \in valOpen : k.step # Step10) =>
            \A k \in EventKey : k.step = Step10 => pre[k] = valStates[k]
    BY <2>2
  <2>6. Step10Completed <=>
            /\ \A k \in valOpen : k.step # Step10
            /\ \E k \in EventKey : k.step = Step10 /\ valStates[k] = "completed"
    BY <2>4, <2>5 DEF Step10Completed
  <2> QED BY <2>3, <2>6
<1> QED BY <1>1, Inductive, PTL

\* In an accepted log every terminal event has its own start or repair.
THEOREM TerminalsAreAccountedAlways == Spec => []TerminalsAreAccounted
<1>1. ASSUME IInv PROVE TerminalsAreAccounted
  <2> SUFFICES ASSUME EvAccepts, NEW k \in EventKey
               PROVE  terms[k] = starts[k] + repaired[k]
    BY DEF TerminalsAreAccounted
  <2>1. OrphansOf(k) = {} /\ k \notin evOpen /\ ~evErr
    BY DEF EvAccepts, OrphansOf
  <2>2. Cardinality(OrphansOf(k)) = 0
    BY <2>1, FS_EmptySet
  <2>3. terms[k] \in Nat /\ starts[k] \in Nat /\ repaired[k] \in Nat
    BY <1>1 DEF IInv, TypeOK
  <2>4. starts[k] + repaired[k] + 0 = terms[k] + 0
    BY <1>1, <2>1, <2>2 DEF IInv, CountInv
  <2> QED BY <2>3, <2>4
<1> QED BY <1>1, Inductive, PTL
=============================================================================
