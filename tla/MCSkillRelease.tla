--------------------------- MODULE MCSkillRelease ---------------------------
(* SkillRelease with two projects.  They share the rule item "r", which     *)
(* also fires on a cycle it is not meant for, and "h" is for a human; or    *)
(* each has an item of its own, no rule, and they are as good as swapped.   *)
EXTENDS SkillRelease, TLC

CONSTANTS p1, p2, op, a, b, r, h, target, other

MCActor == {p1, p2, op}
MCWants == (p1 :> {r}) @@ (p2 :> {a, h, r})
MCTargets == (p1 :> {target}) @@ (p2 :> {other})
MCFires == r :> {target, other}

MCWantsApart == (p1 :> {a}) @@ (p2 :> {b})
MCTargetsNone == [p \in {p1, p2} |-> {}]
MCFiresNone == [i \in {} |-> {}]
MCSwap == {(p1 :> p2) @@ (p2 :> p1) @@ (a :> b) @@ (b :> a)}
=============================================================================
