------------------------------ MODULE Closure ------------------------------
(***************************************************************************)
(* The closure ledger of one cycle: closure.py's stages, and what          *)
(* skill-release-dedup.py writes into the same file when Stage 4 is        *)
(* entered.  A ledger is a record of what its truthy keys say; a file that *)
(* a death truncated loads as {} and says what a fresh one says.           *)
(***************************************************************************)
EXTENDS Naturals, Sequences

CONSTANTS Item,       \* proposed changes an r2 review can list
          NeedsHuman, \* the items that are not deterministic
          NoLedger    \* load() of a missing file: None

ASSUME ItemAssumption == NeedsHuman \subseteq Item

Stages == <<"r1", "r2", "skill_release", "remediation">>

Flags == {Stages[k] : k \in DOMAIN Stages} \cup {"closed"}

Ledger == [set : SUBSET Flags, done : SUBSET Item,
           covered : SUBSET Item, escalated : SUBSET Item]

\* None is no ledger; an empty file is one.
ASSUME MissingAssumption == NoLedger \notin Ledger

Fresh == [set |-> {}, done |-> {}, covered |-> {}, escalated |-> {}]

SetKey(c, key) == [c EXCEPT !.set = @ \cup {key}]

NextStage(c) ==
    LET unset == {k \in DOMAIN Stages : Stages[k] \notin c.set}
    IN  IF unset # {}
        THEN Stages[CHOOSE k \in unset : \A j \in unset : k =< j]
        ELSE IF "closed" \notin c.set THEN "close" ELSE "done"

-----------------------------------------------------------------------------
(* skill-release-dedup.py                                                  *)

MarkDone(c, i) == [c EXCEPT !.done = @ \cup {i}]

\* mutant: what is on main already is not looked at
ToImplementUncovered(items, c, covered) == items \ (c.done \cup NeedsHuman)

\* The items left to implement: neither covered, nor done, nor for a human.
ToImplement(items, c, covered) == items \ (covered \cup c.done \cup NeedsHuman)

\* plan --write.  The four reasons a sentinel can give are wording.
\* mutant: the sentinel does not wait for the last item
PlanWriteEager(c, items, covered) ==
    [SetKey(c, "skill_release") EXCEPT
        !.covered = @ \cup (items \cap covered),
        !.escalated = @ \cup ((items \cap NeedsHuman) \ (covered \cup c.done))]

PlanWrite(c, items, covered) ==
    LET noted == [c EXCEPT
            !.covered = @ \cup (items \cap covered),
            !.escalated = @ \cup ((items \cap NeedsHuman) \ (covered \cup c.done))]
    IN  IF ToImplement(items, c, covered) = {}
        THEN SetKey(noted, "skill_release")
        ELSE noted
=============================================================================
