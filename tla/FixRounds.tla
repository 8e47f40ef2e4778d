----------------------------- MODULE FixRounds -----------------------------
(***************************************************************************)
(* The fix loop of a cycle, as contract.md has it: "max_fix_rounds = 3",   *)
(* escalation if P0+P1 "does not strictly decrease across rounds", every   *)
(* round on a capsule re-shaped for it, every earlier capsule kept.        *)
(* Re-shaping is one step: whoever reads the files finds it done or not    *)
(* begun, wherever the helper or the session has died.  FixLoop implements *)
(* this.                                                                   *)
(***************************************************************************)
EXTENDS Integers

CONSTANT MaxFixRounds

VARIABLES phase,  \* working, judged, preparing, closed, escalated
          round,  \* the fix round under way; 0: the first delegation
          counts, \* P0+P1 of the rounds judged so far
          kept    \* the capsules that can be read, by their number of re-shapes

rvars == <<phase, round, counts, kept>>

Init ==
    /\ phase = "working" /\ round = 0
    /\ DOMAIN counts = {}
    /\ kept = {0}

\* A round is judged once, and no verdict is changed afterwards.
Judge ==
    /\ phase = "working" /\ round \notin DOMAIN counts
    /\ DOMAIN counts' = DOMAIN counts \cup {round}
    /\ counts'[round] \in Nat
    /\ \A g \in DOMAIN counts : counts'[g] = counts[g]
    /\ phase' = "judged"
    /\ UNCHANGED <<round, kept>>

Close ==
    /\ phase = "judged" /\ counts[round] = 0
    /\ phase' = "closed"
    /\ UNCHANGED <<round, counts, kept>>

Begin ==
    /\ phase = "judged" /\ counts[round] > 0
    /\ round < MaxFixRounds
    /\ phase' = "preparing" /\ round' = round + 1
    /\ UNCHANGED <<counts, kept>>

Falling == \A g \in 1 .. round - 1 : counts[g] < counts[g - 1]

Reshape ==
    /\ phase = "preparing" /\ Falling
    /\ kept = 0 .. round - 1
    /\ kept' = 0 .. round
    /\ UNCHANGED <<phase, round, counts>>

\* Codex works on the capsule of this round.
Work ==
    /\ phase = "preparing" /\ kept = 0 .. round
    /\ phase' = "working"
    /\ UNCHANGED <<round, counts, kept>>

\* What failed or was rejected is prepared again.
Redo ==
    /\ phase = "working" /\ round > 0
    /\ phase' = "preparing"
    /\ UNCHANGED <<round, counts, kept>>

Escalate ==
    /\ \/ phase \in {"working", "preparing"}
       \/ phase = "judged" /\ counts[round] > 0 /\ round = MaxFixRounds
    /\ phase' = "escalated"
    /\ UNCHANGED <<round, counts, kept>>

Next == Judge \/ Close \/ Begin \/ Reshape \/ Work \/ Redo \/ Escalate

Spec == Init /\ [][Next]_rvars
=============================================================================
