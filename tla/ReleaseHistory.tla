--------------------------- MODULE ReleaseHistory ---------------------------
(***************************************************************************)
(* What everybody else sees of the skill repository, whatever the turns of *)
(* a fleet do in their worktrees, with the lock or without it, wherever    *)
(* they die.  Versions are tagged one after another, each on a tree that   *)
(* says it is that version.  Main only moves forward: by a release, to a   *)
(* tag that is not on origin yet, or by an operator, who implements        *)
(* nothing.  A tag is pushed once, when main holds it, and a tag that is   *)
(* there stays what it is.  SkillRelease implements this.                  *)
(***************************************************************************)
EXTENDS ReleaseGates

VARIABLES main,      \* origin/main
          tags,      \* a history for each version, or <<>>
          published  \* the versions whose tag is on origin

hvars == <<main, tags, published>>

Init ==
    /\ main # <<>> /\ Bumped(main) = 1
    /\ tags = [v \in Version |-> IF v = 1 THEN main ELSE <<>>]
    /\ published = {1}

\* The next version is a tree that says so; where it comes from is open.
Tag(v) ==
    /\ v - 1 \in Version /\ tags[v - 1] # <<>>
    /\ tags[v] = <<>>
    /\ tags'[v] # <<>> /\ Bumped(tags'[v]) = v
    /\ tags' = [tags EXCEPT ![v] = tags'[v]]
    /\ UNCHANGED <<main, published>>

Release(v) ==
    /\ tags[v] # <<>> /\ v \notin published
    /\ Ancestor(main, tags[v])
    /\ main' = tags[v]
    /\ UNCHANGED <<tags, published>>

Publish(v) ==
    /\ tags[v] # <<>> /\ v \notin published
    /\ Ancestor(tags[v], main)
    /\ published' = published \cup {v}
    /\ UNCHANGED <<main, tags>>

\* What is new on main reverts items or prepares fixtures.
Amend ==
    /\ Ancestor(main, main')
    /\ \A k \in Len(main) + 1 .. Len(main') : main'[k].adds = {}
    /\ UNCHANGED <<tags, published>>

Next ==
    \/ \E v \in Version : Tag(v) \/ Release(v) \/ Publish(v)
    \/ Amend

Spec == Init /\ [][Next]_hvars
=============================================================================
