---------------------------- MODULE ReleaseGates ----------------------------
(***************************************************************************)
(* What lets a release through: backtest.py's report, release-gates.py's   *)
(* three checks and release-plan.py's version.  A history is the sequence  *)
(* of commits behind a ref; a commit says which items it implements, which *)
(* it reverts, whether it brings a fixture, and the version it bumps       *)
(* skill.yaml to (0: none).  A rule item changes runtime/grade_lint.py;    *)
(* Fires says on which corpus cycles its rule finds something.             *)
(***************************************************************************)
EXTENDS Closure, FiniteSets

CONSTANTS Actor,      \* who commits to the skill repository
          RuleItem,   \* items that change a grade_lint rule
          Cycle,      \* code cycles of the corpus, with a final grade
          Fires,      \* Fires[r]: the cycles rule r has errors on
          MaxVersion  \* bound: versions are 1..MaxVersion

ASSUME GateAssumption ==
    /\ RuleItem \subseteq Item
    /\ Fires \in [RuleItem -> SUBSET Cycle]
    /\ MaxVersion \in Nat \ {0}

Version == 1 .. MaxVersion

Commit == [by : Actor, adds : SUBSET Item, drops : SUBSET Item,
           fixture : BOOLEAN, bump : 0 .. MaxVersion]

\* g is an ancestor of h, or h itself.
Ancestor(g, h) ==
    /\ Len(g) =< Len(h)
    /\ \A k \in 1 .. Len(g) : g[k] = h[k]

\* The items in the tree of a history: implemented and not reverted since.
Contents(h) ==
    {i \in Item : \E k \in DOMAIN h :
        /\ i \in h[k].adds
        /\ \A j \in k + 1 .. Len(h) : i \notin h[j].drops}

\* The version in skill.yaml: that of the last bump.
Bumped(g) ==
    LET ks == {k \in DOMAIN g : g[k].bump # 0}
    IN  g[CHOOSE k \in ks : \A j \in ks : j =< k].bump

\* backtest.py: the errors of the rules that are new since the baseline.
\* mutant: new and baseline change places
DeltaSwapped(base, tree, c) == {r \in (base \ tree) \cap RuleItem : c \in Fires[r]}

Delta(base, tree, c) == {r \in (tree \ base) \cap RuleItem : c \in Fires[r]}

Backtest(ref, base, tree, targets) ==
    [baseline |-> ref,
     fires |-> targets # {} /\ \A c \in targets : Delta(base, tree, c) # {},
     misfires |-> {c \in Cycle \ targets : Delta(base, tree, c) # {}}]

\* g4: "ok" is an adjudication as a true positive with a fresh-verify pass.
Adjudications == [Cycle -> {"none", "ok", "false_positive", "unverified"}]

CheckG4(report, adjudged, plan) ==
    /\ report.fires
    /\ report.baseline = plan.baseline
    /\ \A c \in Cycle : adjudged[c] = IF c \in report.misfires THEN "ok" ELSE "none"

\* changed: what the diff from the base, the index and the work tree touch.
TouchesRule(changed) == (changed.adds \cup changed.drops) \cap RuleItem # {}

CheckNoBacktest(changed) == ~TouchesRule(changed) /\ ~changed.fixture

\* Any fixture will do, whoever brought it.
CheckNearMiss(changed) == TouchesRule(changed) => changed.fixture
=============================================================================
