---------------------------- MODULE MCTargetCycle ----------------------------
(* TargetCycle with a task 2 that waits for task 1; either task 3 is        *)
(* parked, or task 1 is done and the other two are free.  The grades differ *)
(* from a good one in one row of the baseline, in one check, or in a count. *)
EXTENDS TargetCycle, TLC

CONSTANTS x, y

MCBlockedBy == 1 :> {} @@ 2 :> {1} @@ 3 :> {}
MCBacklogs == {<<"pending", "pending", "parked">>, <<"completed", "pending", "pending">>}
MCShaped == x :> "P0" @@ y :> "P1"

Good == [status |-> "pass", severity |-> "P1", shown |-> TRUE, facets |-> TRUE]

GoodGrade ==
    [p0 |-> 0, p1 |-> 0, adversarial |-> 0, stated |-> [i \in {x} |-> "P0"], failed |-> {},
     spec |-> [i \in {x} |-> Good], neg |-> [i \in {x} |-> Good], checks |-> [i \in {y} |-> Good],
     secret |-> Good, dep |-> Good, unverified |-> {}, deferred |-> {}]

Turns == Permutations(Wake)

MCRows == Row \cup {Missing}

MCGrades ==
    {[GoodGrade EXCEPT !.stated[x] = t, !.spec[x] = s, !.neg[x] = n] :
        t \in {"P0", "P2", "none", Missing}, s \in MCRows, n \in {Good, Missing}}
    \cup {[GoodGrade EXCEPT !.neg[x] = n] : n \in MCRows}
    \cup {[GoodGrade EXCEPT !.checks[y] = c, !.p0 = p, !.deferred = d] :
              c \in MCRows, p \in 0 .. 1, d \in SUBSET {y}}
    \cup {[GoodGrade EXCEPT !.secret = s] : s \in Row}
    \cup {[GoodGrade EXCEPT !.dep = d] : d \in Row}
    \cup {[GoodGrade EXCEPT !.p1 = p, !.adversarial = q, !.failed = f, !.unverified = u] :
              p \in 0 .. 1, q \in 0 .. 1, f \in SUBSET {x}, u \in SUBSET Severity}
=============================================================================
