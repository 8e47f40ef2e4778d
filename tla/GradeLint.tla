------------------------------ MODULE GradeLint ------------------------------
(***************************************************************************)
(* The verdict on one Grade round of a medium or high risk code task:      *)
(* grade_lint.py's structural rules, grade_verify.py's, and /bs's          *)
(* auto-merge gate over both.  A grade is what its blocks say of each      *)
(* shaped acceptance: one row per block and id, or none.  The rules that   *)
(* look for words in a row's text share one shape, and are one fact of the *)
(* row: whether its evidence shows every facet that the claim calls for.   *)
(***************************************************************************)
EXTENDS Naturals, FiniteSets

CONSTANTS Acceptance,   \* ids of the outcome's acceptance block
          Adversarial,  \* ids of its adversarial_acceptance block
          Shaped,       \* Shaped[x]: the severity the outcome gives x
          Claims,       \* the ids whose text calls for evidence of facets
          NeedsReview,  \* the ids whose text names a dependency or a version
          Missing       \* a block has no row for an id

Severity == {"P0", "P1", "P2"}
Blocking == {"P0", "P1"}

ASSUME OutcomeAssumption ==
    /\ Acceptance \cap Adversarial = {}
    /\ Shaped \in [Acceptance \cup Adversarial -> Severity]
    /\ Claims \subseteq Acceptance
    /\ NeedsReview \subseteq Acceptance

\* shown: the row has its evidence_ref, scenario, rationale or waiver,
\* whichever its status asks for.  "shaped": no severity_if_fail.  "none":
\* no severity at all.
Row == [status : {"pass", "fail", "unverified", "not_applicable"},
        severity : Severity \cup {"shaped"}, shown : BOOLEAN, facets : BOOLEAN]

Rows(ids) == [ids -> Row \cup {Missing}]

Grade == [p0 : Nat, p1 : Nat, adversarial : Nat,
          stated : [Acceptance -> Severity \cup {"none", Missing}], \* acceptance_status
          failed : SUBSET Acceptance,
          spec : Rows(Acceptance), neg : Rows(Acceptance), checks : Rows(Adversarial),
          secret : Row, dep : Row,
          unverified : SUBSET Severity, deferred : SUBSET Adversarial]

Fails(row) == row # Missing /\ row.status \in {"fail", "unverified"}

\* What the grade is held to: the rows that the parser reads of the outcome's
\* acceptance list, a fenced block or a table; where it reads none, the
\* Grade's own acceptance_status.
Required(g, read) ==
    IF read # {}
    THEN [x \in read |-> Shaped[x]]
    ELSE [x \in {a \in Acceptance : g.stated[a] # Missing} |-> g.stated[x]]

Heavy(req) == {x \in DOMAIN req : req[x] \in Blocking}

SeverityOf(row, x, req) ==
    IF row.severity # "shaped" THEN row.severity
    ELSE IF x \in DOMAIN req THEN req[x] ELSE "none"

Blocks(row, x, req) == Fails(row) /\ SeverityOf(row, x, req) \in Blocking

\* What a row of either block must be.
RowClean(row, x, req) == SeverityOf(row, x, req) # "none" /\ ~Blocks(row, x, req)

\* mutant: a P0 or P1 acceptance needs no negative test
NegativesOptional(g, req) ==
    \A x \in Acceptance : g.neg[x] # Missing =>
        /\ RowClean(g.neg[x], x, req)
        /\ g.neg[x].status \in {"pass", "not_applicable"} => g.neg[x].shown

NegativesClean(g, req) ==
    \A x \in Acceptance :
        /\ g.neg[x] = Missing => x \notin Heavy(req)
        /\ g.neg[x] # Missing =>
              /\ RowClean(g.neg[x], x, req)
              /\ g.neg[x].status = "pass" => g.neg[x].shown
              /\ g.neg[x].status = "not_applicable" /\ x \in Heavy(req) => g.neg[x].shown

SpecClean(g, req) ==
    \A x \in Acceptance :
        /\ g.spec[x] = Missing => x \notin DOMAIN req
        /\ g.spec[x] # Missing => RowClean(g.spec[x], x, req) /\ g.spec[x].shown

\* The rules of one facet each: a P0 or P1 claim in their scope needs the
\* facet in the evidence of its rows, unless a row is exempt.
FacetsShown(g, req) ==
    \A x \in Claims \cap Heavy(req) :
        \E row \in {g.spec[x], g.neg[x]} \ {Missing} :
            \/ row.status = "not_applicable" /\ row.shown
            \/ row.status = "pass" /\ row.facets

SecretClean(g) ==
    /\ ~Fails(g.secret)
    /\ g.secret.shown

DependenciesClean(g, req) ==
    /\ Fails(g.dep) => g.dep.severity = "P2"
    /\ g.dep.shown
    /\ NeedsReview \cap DOMAIN req # {} => g.dep.status # "not_applicable"

BaselineClean(g, req) ==
    /\ SpecClean(g, req) /\ NegativesClean(g, req) /\ FacetsShown(g, req)
    /\ SecretClean(g) /\ DependenciesClean(g, req)

AdversarialClean(g) ==
    /\ \A y \in Adversarial :
          /\ g.checks[y] # Missing
          /\ g.checks[y].severity # "shaped"
          /\ ~Blocks(g.checks[y], y, Shaped)
          /\ g.checks[y].status # "not_applicable" => g.checks[y].shown
          /\ y \in g.deferred => Shaped[y] \notin Blocking
    /\ g.adversarial = 0
    /\ g.unverified \cap Blocking = {}

Lint(g, read) == BaselineClean(g, Required(g, read)) /\ AdversarialClean(g)

-----------------------------------------------------------------------------
(* grade_verify.py, by what the binding's verify block says of code        *)

Verify == {"absent", "empty", "commands", "waived"}

\* The statuses a run can write; "none": pass, and no command ran.
VerifyStatus(v) ==
    CASE v = "absent" -> {"fail"}
      [] v = "waived" -> {"not_required"}
      [] v = "empty" -> {"none"}
      [] v = "commands" -> {"pass", "fail"}

\* /bs: what may be auto-merged, of the grades that lint clears.
Gate(g, status) == g.p0 = 0 /\ g.p1 = 0 /\ status # "fail"

-----------------------------------------------------------------------------
Flaw == {"unverified", "uncovered", "failing", "leaking", "lowered", "overlooked", "unread"}

\* What is wrong with a merged grade, to a reader of its outcome.
Flaws(g, read, status) ==
    {f \in Flaw :
        \/ f = "unverified" /\ status \notin {"pass", "not_required"}
        \/ /\ f = "uncovered"
           /\ \/ \E x \in read : /\ Shaped[x] \in Blocking
                                 /\ g.spec[x] = Missing \/ g.neg[x] = Missing
              \/ \E y \in Adversarial : g.checks[y] = Missing
        \/ /\ f = "failing"
           /\ \/ \E x \in read : Blocks(g.spec[x], x, Shaped) \/ Blocks(g.neg[x], x, Shaped)
              \/ \E y \in Adversarial : Blocks(g.checks[y], y, Shaped)
        \/ f = "leaking" /\ Fails(g.secret)
        \/ /\ f = "lowered"
           /\ \/ \E x \in read : /\ Shaped[x] \in Blocking
                                 /\ Fails(g.spec[x]) \/ Fails(g.neg[x])
              \/ \E y \in Adversarial : Shaped[y] \in Blocking /\ Fails(g.checks[y])
        \/ f = "overlooked" /\ \E x \in g.failed : Shaped[x] \in Blocking
        \/ /\ f = "unread"
           /\ \E x \in Acceptance \ read :
                 /\ Shaped[x] \in Blocking
                 /\ \/ g.spec[x] = Missing \/ g.neg[x] = Missing
                    \/ Fails(g.spec[x]) \/ Fails(g.neg[x])}
=============================================================================
