----------------------------- MODULE StepEvents -----------------------------
(***************************************************************************)
(* step_events.jsonl, the log from which a /bs cycle is resumed, as its    *)
(* three readers see it: lib/events.py (attempt_states, strict pairing for *)
(* resume), runtime/validate_events.py (the gate of the Step-10 close) and *)
(* the probe of runtime/preflight.sh, which keeps the last event of every  *)
(* attempt.  Each is a single pass over the lines, so the state of a       *)
(* reader after n + 1 lines is one step from its state after n lines:      *)
(* every append here is read by all three.                                 *)
(*                                                                         *)
(* The writers are the append helpers of lib/events.py, called in any      *)
(* order: sessions die and resume, a helper can fail to append, and        *)
(* nothing in append_event looks at the log.                               *)
(***************************************************************************)
EXTENDS Naturals, FiniteSets

CONSTANTS Steps,        \* step names
          Step10,       \* the close, one of StepTargets
          StepTargets,  \* STEP_TARGETS: the steps the probe reports open
          MaxAttempt,   \* bound: retries of a step
          MaxLines      \* bound: lines of the log

ASSUME StepEventsAssumption ==
    /\ Step10 \in StepTargets
    /\ StepTargets \subseteq Steps
    /\ MaxAttempt \in Nat
    /\ MaxLines \in Nat

EventKey == [step : Steps, attempt : 0..MaxAttempt]
Terminal == {"completed", "failed"}
Event == {"started"} \cup Terminal

\* The times of a line: its recorded_at is before that of the line before it,
\* or its occurred_at is after its own recorded_at, or neither.
Timing == {"due", "back", "ahead"}

\* A terminal event without a started event before it.
Orphan == [line : 1..MaxLines, key : EventKey, kind : Terminal]

VARIABLES
    lines,                       \* lines of the log
    evStates, evOpen, evOrphans, \* attempt_states: its dictionaries,
    evErr,                       \* and whether it has raised
    valStates, valOpen, valOrphans, \* validate: likewise
    valErr,
    pre,                         \* step_event_state: its dictionary,
    preErr,                      \* and whether it has raised
    starts, terms, repaired,     \* history: events and good repairs, by attempt
    mistimed                     \* history: a line was not in time

evVars == <<evStates, evOpen, evOrphans, evErr>>
valVars == <<valStates, valOpen, valOrphans, valErr>>
counts == <<starts, terms, repaired>>
vars == <<lines, evVars, valVars, pre, preErr, counts, mistimed>>

None == [k \in EventKey |-> "none"]
Zero == [k \in EventKey |-> 0]

Init ==
    /\ lines = 0
    /\ evStates = None /\ evOpen = {} /\ evOrphans = {} /\ evErr = FALSE
    /\ valStates = None /\ valOpen = {} /\ valOrphans = {} /\ valErr = FALSE
    /\ pre = None /\ preErr = FALSE
    /\ starts = Zero /\ terms = Zero /\ repaired = Zero
    /\ mistimed = FALSE

Bump(f, k) == [f EXCEPT ![k] = @ + 1]

\* mutant: lines are counted from zero
NewOrphanFromZero(e, k) == [line |-> lines, key |-> k, kind |-> e]

\* A terminal event that the next line brings without its started event.
NewOrphan(e, k) == [line |-> lines + 1, key |-> k, kind |-> e]

-----------------------------------------------------------------------------
(* lib/events.py: attempt_states                                           *)

\* mutant: an open attempt may be started again
EvRefusesNoNested(e, k) ==
    evStates[k] \in Terminal /\ (e = "started" \/ k \notin evOpen)

EvRefuses(e, k) ==
    IF e = "started" THEN k \in evOpen \/ evStates[k] \in Terminal
                     ELSE k \notin evOpen /\ evStates[k] \in Terminal

\* A reader stops at the first event it refuses.  This one, and the probe,
\* split the text with splitlines, which knows separators that json.dumps with
\* ensure_ascii=False writes as they are: half an event is not JSON.
EvReads(e, k, split) ==
    /\ evErr' = (evErr \/ split \/ EvRefuses(e, k))
    /\ \/ /\ evErr'
          /\ UNCHANGED <<evStates, evOpen, evOrphans>>
       \/ /\ ~evErr' /\ e = "started"
          /\ evOpen' = evOpen \cup {k}
          /\ evStates' = [evStates EXCEPT ![k] = "in_progress"]
          /\ UNCHANGED evOrphans
       \/ /\ ~evErr' /\ e \in Terminal /\ k \in evOpen
          /\ evOpen' = evOpen \ {k}
          /\ evStates' = [evStates EXCEPT ![k] = e]
          /\ UNCHANGED evOrphans
       \/ /\ ~evErr' /\ e \in Terminal /\ k \notin evOpen
          /\ evOrphans' = evOrphans \cup {NewOrphan(e, k)}
          /\ UNCHANGED <<evStates, evOpen>>

\* The orphan that a repair of line mends: of the attempt it names, with the
\* hash it names, and not of an attempt that has a terminal event already.
EvMends(line, k, genuine) ==
    {o \in evOrphans : /\ o.line = line /\ o.key = k /\ genuine
                       /\ evStates[k] \notin Terminal}

EvReadsRepair(line, k, genuine, split) ==
    /\ evErr' = (evErr \/ split \/ EvMends(line, k, genuine) = {})
    /\ UNCHANGED evOpen
    /\ \/ /\ evErr'
          /\ UNCHANGED <<evStates, evOrphans>>
       \/ /\ ~evErr'
          /\ \E o \in EvMends(line, k, genuine) :
                /\ evOrphans' = evOrphans \ {o}
                /\ evStates' = [evStates EXCEPT ![k] = o.kind]

EvAccepts == ~evErr /\ evOrphans = {} /\ evOpen = {}

-----------------------------------------------------------------------------
(* runtime/validate_events.py: validate                                    *)

\* mutant: a second started event replaces the first
ValRefusesNoNested(e, k) ==
    valStates[k] \in Terminal /\ (e = "started" \/ k \notin valOpen)

ValRefuses(e, k) ==
    IF e = "started" THEN k \in valOpen \/ valStates[k] \in Terminal
                     ELSE k \notin valOpen /\ valStates[k] \in Terminal

ValReads(e, k, time) ==
    /\ valErr' = (valErr \/ time # "due" \/ ValRefuses(e, k))
    /\ \/ /\ valErr'
          /\ UNCHANGED <<valStates, valOpen, valOrphans>>
       \/ /\ ~valErr' /\ e = "started"
          /\ valOpen' = valOpen \cup {k}
          /\ UNCHANGED <<valStates, valOrphans>>
       \/ /\ ~valErr' /\ e \in Terminal /\ k \in valOpen
          /\ valOpen' = valOpen \ {k}
          /\ valStates' = [valStates EXCEPT ![k] = e]
          /\ UNCHANGED valOrphans
       \/ /\ ~valErr' /\ e \in Terminal /\ k \notin valOpen
          /\ valOrphans' = valOrphans \cup {NewOrphan(e, k)}
          /\ UNCHANGED <<valStates, valOpen>>

ValMends(line, k, genuine) ==
    {o \in valOrphans : /\ o.line = line /\ o.key = k /\ genuine
                        /\ valStates[k] \notin Terminal}

ValReadsRepair(line, k, genuine, time) ==
    /\ valErr' = (valErr \/ time # "due" \/ ValMends(line, k, genuine) = {})
    /\ UNCHANGED valOpen
    /\ \/ /\ valErr'
          /\ UNCHANGED <<valStates, valOrphans>>
       \/ /\ ~valErr'
          /\ \E o \in ValMends(line, k, genuine) :
                /\ valOrphans' = valOrphans \ {o}
                /\ valStates' = [valStates EXCEPT ![k] = o.kind]

\* The whole log; with --allow-open-current step, one open attempt of it.
ValAccepts == ~valErr /\ valOrphans = {} /\ valOpen = {}

ValAcceptsOpen(step) ==
    /\ ~valErr /\ valOrphans = {}
    /\ valOpen = {} \/ \E k \in EventKey : valOpen = {k} /\ k.step = step

-----------------------------------------------------------------------------
(* runtime/preflight.sh: step_event_state                                  *)

\* mutant: the first event of an attempt is kept
PreReadsFirst(e, k, split) ==
    /\ preErr' = (preErr \/ split)
    /\ pre' = IF preErr' \/ pre[k] # "none" THEN pre ELSE [pre EXCEPT ![k] = e]

PreReads(e, k, split) ==
    /\ preErr' = (preErr \/ split)
    /\ pre' = IF preErr' THEN pre ELSE [pre EXCEPT ![k] = e]

PreSkipsRepair(split) ==
    /\ preErr' = (preErr \/ split)
    /\ UNCHANGED pre

OpenSteps == {s \in StepTargets :
                 \E k \in EventKey : k.step = s /\ pre[k] = "started"}

Step10Completed ==
    /\ \E k \in EventKey : k.step = Step10 /\ pre[k] = "completed"
    /\ Step10 \notin OpenSteps

-----------------------------------------------------------------------------
(* append_started, append_completed, append_failed, append_repair          *)

\* back: the clock has been set back since the last append; ahead: the
\* caller gave a later occurred_at than the clock has.  Nothing is appended to
\* a log that both strict readers have given up.
Stamped(time) ==
    /\ lines < MaxLines
    /\ ~(evErr /\ valErr)
    /\ time = "back" => lines > 0
    /\ lines' = lines + 1
    /\ mistimed' = (mistimed \/ time # "due")

\* split: a text in the event holds a line separator other than a newline.
Append(e, k, time, split) ==
    /\ Stamped(time)
    /\ EvReads(e, k, split) /\ ValReads(e, k, time) /\ PreReads(e, k, split)
    /\ starts' = IF e = "started" THEN Bump(starts, k) ELSE starts
    /\ terms' = IF e \in Terminal THEN Bump(terms, k) ELSE terms
    /\ UNCHANGED repaired

\* genuine: target_event_hash is the hash of line.
Repair(line, k, genuine, time, split) ==
    /\ Stamped(time)
    /\ EvReadsRepair(line, k, genuine, split)
    /\ ValReadsRepair(line, k, genuine, time)
    /\ PreSkipsRepair(split)
    /\ repaired' = IF evErr' THEN repaired ELSE Bump(repaired, k)
    /\ UNCHANGED <<starts, terms>>

Next ==
    \E k \in EventKey, time \in Timing, split \in BOOLEAN :
        \/ \E e \in Event : Append(e, k, time, split)
        \/ \E line \in 1..lines, genuine \in BOOLEAN :
              Repair(line, k, genuine, time, split)

Spec == Init /\ [][Next]_vars

-----------------------------------------------------------------------------
(* Properties                                                              *)

TypeOK ==
    /\ lines \in 0..MaxLines
    /\ evStates \in [EventKey -> {"none", "in_progress"} \cup Terminal]
    /\ valStates \in [EventKey -> {"none"} \cup Terminal]
    /\ pre \in [EventKey -> {"none"} \cup Event]
    /\ evOpen \subseteq EventKey /\ valOpen \subseteq EventKey
    /\ evOrphans \subseteq Orphan /\ valOrphans \subseteq Orphan
    /\ evErr \in BOOLEAN /\ valErr \in BOOLEAN /\ preErr \in BOOLEAN
    /\ starts \in [EventKey -> Nat]
    /\ terms \in [EventKey -> Nat]
    /\ repaired \in [EventKey -> Nat]
    /\ mistimed \in BOOLEAN

\* The close gate and the resume parser are two programs for one rule: what
\* the gate lets through, resume reads without an error and to the same
\* states, unless an event is split in its eyes; and the gate refuses more
\* than resume only for its times: recorded_at has gone back, or occurred_at
\* is after it (validate_events.validate, lib.events.attempt_states).
GateAgreesWithResume ==
    /\ ValAccepts /\ ~preErr => EvAccepts /\ evStates = valStates
    /\ EvAccepts /\ ~mistimed => ValAccepts

\* On a log that passes the gate, whole or with its one open step allowed,
\* the preflight probe, which applies none of the pairing rules and skips
\* repairs, still takes the same steps for open, and Step 10 for completed
\* exactly when the gate's strict reading does, if it can read the log at all
\* (step_event_state against validate --allow-open-current).
ProbeAgreesWithGate ==
    (\E s \in Steps : ValAcceptsOpen(s)) /\ ~preErr =>
        /\ OpenSteps = {s \in StepTargets : \E k \in valOpen : k.step = s}
        /\ Step10Completed <=>
              /\ \A k \in valOpen : k.step # Step10
              /\ \E k \in EventKey : k.step = Step10 /\ valStates[k] = "completed"

\* An accepted log accounts for every terminal event: it has its own started
\* event or its own good repair, however appends and repairs are interleaved
\* (orphan_terminals in attempt_states).
TerminalsAreAccounted ==
    EvAccepts => \A k \in EventKey : terms[k] = starts[k] + repaired[k]

\* contract.md: an attempt emits started and then either completed or
\* failed; a log in which one attempt ends twice is not accepted.
AttemptEndsOnce ==
    EvAccepts => \A k \in EventKey : terms[k] <= 1

-----------------------------------------------------------------------------
(* The inductive invariant behind the safety properties (StepEventsProofs). *)

\* Every orphan lies behind, so a new one is never an old one, and a line
\* holds one.
LineInv ==
    /\ \A o \in evOrphans \cup valOrphans : o.line <= lines
    /\ \A o, q \in evOrphans : o.line = q.line => o = q
    /\ IsFiniteSet(evOrphans)

\* The strict readers part only over times or a separator.
SyncInv ==
    /\ valErr /\ ~evErr => mistimed
    /\ evErr /\ ~valErr => preErr
    /\ ~evErr /\ ~valErr =>
          /\ valOpen = evOpen
          /\ valOrphans = evOrphans
          /\ \A k \in EventKey :
                valStates[k] = IF evStates[k] = "in_progress" THEN "none"
                                                             ELSE evStates[k]
    /\ ~evErr => \A k \in EventKey : evStates[k] = "in_progress" => k \in evOpen

\* The probe's last event is the gate's state wherever nothing is pending; of
\* an attempt with one orphan and nothing else, the last event is the orphan.
ProbeInv ==
    ~valErr /\ ~preErr => \A k \in EventKey :
        /\ pre[k] = "started" <=> k \in valOpen
        /\ k \notin valOpen /\ (\A o \in valOrphans : o.key # k)
              => pre[k] = valStates[k]
        /\ k \notin valOpen /\ valStates[k] = "none" =>
              \A o \in valOrphans :
                  o.key = k /\ (\A q \in valOrphans : q.key = k => q = o)
                      => pre[k] = o.kind

OrphansOf(k) == {o \in evOrphans : o.key = k}

\* Every terminal event has a start, a repair or is an orphan; a start that
\* has none is open.
CountInv ==
    ~evErr => \A k \in EventKey :
        starts[k] + repaired[k] + Cardinality(OrphansOf(k))
            = terms[k] + (IF k \in evOpen THEN 1 ELSE 0)

IInv == TypeOK /\ LineInv /\ SyncInv /\ ProbeInv /\ CountInv
=============================================================================
