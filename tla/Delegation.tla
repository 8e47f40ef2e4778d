----------------------------- MODULE Delegation -----------------------------
(***************************************************************************)
(* One delegation of a capsule to codex, as its caller may rely on it.     *)
(* Attempts follow one another, each on its own: the next one starts when  *)
(* nobody of the one before is left, and only while no turn is under way.  *)
(* The exit code says how far it got: 3 when all attempts are used up, 4   *)
(* when the launch is refused, 0 and 6 to 8 only of a turn.  At the end    *)
(* nobody is left in the worktree, unless the launch was cut short: by a   *)
(* signal before the driver knew the process to kill, or by an exception.  *)
(* CodexDriver implements this.                                            *)
(***************************************************************************)
EXTENDS Naturals

CONSTANT LaunchRetries

VARIABLES phase,   \* launching, working, ending, over
          attempt,
          writers, \* the attempts whose process group is alive
          known,   \* the signal handler knows this attempt's process
          code     \* the exit code to come, 99 as long as there is none

dvars == <<phase, attempt, writers, known, code>>

Open == 99

Init ==
    /\ phase = "launching" /\ attempt = 1 /\ writers = {}
    /\ known = FALSE /\ code = Open

Start ==
    /\ phase = "launching" /\ ~known
    /\ writers = {} /\ writers' = {attempt}
    /\ UNCHANGED <<phase, attempt, known, code>>

Know ==
    /\ phase = "launching"
    /\ known' = TRUE
    /\ UNCHANGED <<phase, attempt, writers, code>>

Retry ==
    /\ phase = "launching" /\ attempt =< LaunchRetries
    /\ attempt' = attempt + 1 /\ known' = FALSE
    /\ writers' = {}
    /\ UNCHANGED <<phase, code>>

\* The turn is acknowledged: from here on there is no other attempt.
Work ==
    /\ phase = "launching" /\ known
    /\ phase' = "working"
    /\ UNCHANGED <<attempt, writers, known, code>>

\* Processes of a group end, or are killed.
Leave ==
    /\ phase # "over"
    /\ writers' \subseteq writers
    /\ UNCHANGED <<phase, attempt, known, code>>

\* What the driver ends with: 2 on a signal at any time.
Conclude(c) ==
    /\ \/ phase = "launching" /\ c = 4
       \/ phase = "working" /\ c \in {0, 1, 2, 6, 7, 8}
       \/ phase # "over" /\ known /\ c = 2
    /\ phase' = "ending" /\ code' = c
    /\ writers' \subseteq writers
    /\ UNCHANGED <<attempt, known>>

Finish ==
    /\ \/ phase = "ending" /\ code' = code
       \/ phase = "launching" /\ attempt > LaunchRetries /\ code' = 3
    /\ phase' = "over" /\ writers' = {}
    /\ UNCHANGED <<attempt, known>>

\* An exception that the launch does not catch, or a signal that finds no
\* handler for this process: whoever writes to the worktree goes on.
CutShort(c) ==
    /\ \/ phase = "launching" /\ c = 1
       \/ phase \in {"launching", "ending"} /\ ~known /\ c \in {2, 143}
    /\ phase' = "over" /\ code' = c
    /\ UNCHANGED <<attempt, writers, known>>

Next ==
    \/ Start \/ Know \/ Retry \/ Work \/ Leave \/ Finish
    \/ \E c \in 0 .. 143 : Conclude(c) \/ CutShort(c)

Spec == Init /\ [][Next]_dvars
=============================================================================
