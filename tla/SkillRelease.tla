---------------------------- MODULE SkillRelease ----------------------------
(***************************************************************************)
(* The skill repository shared by the projects of a fleet.  Each project's *)
(* turns initialise it (bs-evolve-init.py), then walk one closure ledger   *)
(* from r1 to closed; Stage 4 releases the deterministic r2 items of the   *)
(* cycle under SKILL.lock: release-plan.py, skill-release-dedup.py, a      *)
(* private worktree, the gates and release.sh.  An operator may revert a   *)
(* commit (rollback.sh).  SKILL.lock is any lock that keeps Lease's        *)
(* promise.  A turn can die anywhere, also inside a write of its ledger;   *)
(* a push can fail; a live turn's lease can run out under it.              *)
(***************************************************************************)
EXTENDS ReleaseGates

CONSTANTS Project,     \* the fleet, by slug
          Operator,    \* who runs rollback.sh
          NoActor,     \* holder: SKILL.lock is free
          Veterans,    \* the projects that were initialised before
          Late,        \* the actors whose lease can run out under them
          Wants,       \* Wants[p]: the items of p's r2 review
          Targets,     \* Targets[p]: the --target-cycle arguments of p
          MaxFaults    \* bound: deaths, failed pushes and leases that run
                       \* out under a live holder, taken together

ASSUME ReleaseAssumption ==
    /\ Actor = Project \cup {Operator} /\ Operator \notin Project
    /\ NoActor \notin Actor
    /\ Veterans \subseteq Project /\ Late \subseteq Actor
    /\ Wants \in [Project -> SUBSET Item]
    /\ Targets \in [Project -> SUBSET Cycle]
    /\ MaxFaults \in Nat

VARIABLES
    main,      \* origin/main
    canon,     \* HEAD of the canonical checkout, where bs-evolve-init commits
    tags,      \* the local release tags: a history, or <<>> for no tag
    published, \* the versions whose tag is on origin
    holder,    \* the owner in SKILL.lock; its turn may be dead
    pc,        \* where each actor is
    ledger,    \* ledger[p]: p's closure.yaml
    plan,      \* plan[p]: p's release_plan.yaml; baseline 0: none yet
    tree,      \* p's private worktree: see NoTree
    todo,      \* the items the dedup left p to implement
    fleet,     \* the slugs in fleet.yaml
    read,      \* read[p]: the fleet.yaml p is about to replace
    enrolled,  \* history: the projects whose init came to its end
    report,    \* report[p]: the last backtest_report.yaml of p's cycle
    backtested, \* history: the rules in the trees that a backtest showed to fire
    overrun,   \* history: a lease ran out under a live holder
    torn,      \* history: a death truncated a ledger
    faults

skill == <<main, canon, tags, published>>
turnVars == <<plan, tree, todo>>
fleetVars == <<fleet, read, enrolled>>
evidence == <<report, backtested>>
excuses == <<overrun, torn>>
bounds == <<excuses, faults>>
vars == <<skill, holder, pc, ledger, turnVars, fleetVars, evidence, bounds>>

NoPlan == [baseline |-> 0, candidate |-> 0]

NoReport == [baseline |-> 0, fires |-> FALSE, misfires |-> {}]

\* The worktree's HEAD, how much of it was there when it was added (the
\* anchor of the release), and what is not committed yet.
Clean(p) == [by |-> p, adds |-> {}, drops |-> {}, fixture |-> FALSE, bump |-> 0]
NoTree(p) == [head |-> <<>>, anchor |-> 0, dirty |-> Clean(p)]

\* Where a turn believes it holds SKILL.lock.
Locked == {"seed", "fleetRead", "fleetReplace", "plan", "dedup", "worktree",
           "implement", "gate", "tag", "pushMain", "pushTag", "record",
           "revert", "pushRevert", "release"}
Position == Locked \cup {"new", "idle"}

Root == [by |-> Operator, adds |-> {}, drops |-> {}, fixture |-> FALSE, bump |-> 1]

Init ==
    /\ main = <<Root>> /\ canon = main
    /\ tags = [v \in Version |-> IF v = 1 THEN main ELSE <<>>]
    /\ published = {1}
    /\ holder = NoActor
    /\ pc = [a \in Actor |-> IF a \in Project \ Veterans THEN "new" ELSE "idle"]
    /\ ledger = [p \in Project |-> NoLedger]
    /\ plan = [p \in Project |-> NoPlan]
    /\ tree = [p \in Project |-> NoTree(p)]
    /\ todo = [p \in Project |-> {}]
    /\ fleet = Veterans /\ read = [p \in Project |-> {}] /\ enrolled = Veterans
    /\ report = [p \in Project |-> NoReport] /\ backtested = {}
    /\ overrun = FALSE /\ torn = FALSE /\ faults = 0

At(a, l) == pc[a] = l
Goto(a, l) == pc' = [pc EXCEPT ![a] = l]

Fault == faults < MaxFaults /\ faults' = faults + 1

\* The turn is over.  The next Stage 4 plans afresh; the worktree and the
\* report stay where they are.
Stop(a) ==
    /\ Goto(a, IF a \in Project \ enrolled THEN "new" ELSE "idle")
    /\ IF a \in Project
       THEN /\ plan' = [plan EXCEPT ![a] = NoPlan]
            /\ todo' = [todo EXCEPT ![a] = {}]
       ELSE UNCHANGED <<plan, todo>>
    /\ UNCHANGED tree

-----------------------------------------------------------------------------
(* SKILL.lock, as a turn sees evolve-lock.py: what Lease promises, with the *)
(* steps of one call taken together.                                       *)

\* The release commits a rollback can name; at most one is rolled back.
Revertible ==
    IF \E k \in DOMAIN canon : canon[k].drops # {}
    THEN {}
    ELSE {k \in DOMAIN canon : canon[k].adds # {}}

\* What an actor wants the lock for: the position it begins at.
MayStart(a, first) ==
    \/ first = "seed" /\ At(a, "new")
    \/ /\ first = "plan" /\ a \in Project /\ At(a, "idle")
       /\ ledger[a] # NoLedger /\ NextStage(ledger[a]) = "skill_release"
    \/ first = "revert" /\ a = Operator /\ At(a, "idle") /\ Revertible # {}

Begin(a) ==
    /\ \E first \in {"seed", "plan", "revert"} : MayStart(a, first) /\ Goto(a, first)
    /\ holder' = a
    /\ UNCHANGED <<skill, ledger, turnVars, fleetVars, evidence>>

HolderLives == holder # NoActor /\ pc[holder] \in Locked

\* mutant: acquire does not look at who holds the lock
AcquireAnyway(a) == Begin(a) /\ UNCHANGED bounds

\* The lock is free, or its holder is dead and the file goes stale.
Acquire(a) ==
    /\ ~HolderLives
    /\ Begin(a)
    /\ UNCHANGED bounds

\* The holder is alive, but did not renew the lock in time.
Overrun(a) ==
    /\ HolderLives /\ holder \in Late
    /\ overrun' = TRUE /\ Fault /\ UNCHANGED torn
    /\ Begin(a)

\* A heartbeat that exits 12, which is blocking.
LoseLock(a) ==
    /\ pc[a] \in Locked /\ holder # a
    /\ Stop(a)
    /\ UNCHANGED <<skill, holder, ledger, fleetVars, evidence, bounds>>

\* Compare-token release: another owner's lock stays.
Release(a) ==
    /\ At(a, "release")
    /\ holder' = IF holder = a THEN NoActor ELSE holder
    /\ Stop(a)
    /\ UNCHANGED <<skill, ledger, fleetVars, evidence, bounds>>

-----------------------------------------------------------------------------
(* bs-evolve-init.py: a fixture on the canonical checkout, a fleet entry.  *)

\* seed_fixture, with the commit that nobody pushes.
Seed(p) ==
    /\ At(p, "seed")
    /\ canon' = Append(canon, [Clean(p) EXCEPT !.fixture = TRUE])
    /\ Goto(p, "fleetRead")
    /\ UNCHANGED <<main, tags, published, holder, ledger, turnVars, fleetVars, evidence, bounds>>

\* No usable excerpt, an identifier left in it, or a red lint.
SeedFails(p) ==
    /\ At(p, "seed")
    /\ Goto(p, "release")
    /\ UNCHANGED <<skill, holder, ledger, turnVars, fleetVars, evidence, bounds>>

FleetRead(p) ==
    /\ At(p, "fleetRead")
    /\ read' = [read EXCEPT ![p] = fleet]
    /\ Goto(p, "fleetReplace")
    /\ UNCHANGED <<skill, holder, ledger, turnVars, fleet, enrolled, evidence, bounds>>

FleetReplace(p) ==
    /\ At(p, "fleetReplace")
    /\ fleet' = read[p] \cup {p}
    /\ enrolled' = enrolled \cup {p}
    /\ Goto(p, "release")
    /\ UNCHANGED <<skill, holder, ledger, turnVars, read, evidence, bounds>>

-----------------------------------------------------------------------------
(* The ledger's other stages, one turn each.                               *)

Open(p) ==
    /\ At(p, "idle") /\ p \in enrolled
    /\ ledger[p] = NoLedger
    /\ ledger' = [ledger EXCEPT ![p] = Fresh]
    /\ UNCHANGED <<skill, holder, pc, turnVars, fleetVars, evidence, bounds>>

\* mutant: the ledger is closed under the stage's name
AfterByName(p, stage) == SetKey(ledger[p], stage)

\* What a stage that needs no release leaves in the ledger.
After(p, stage) ==
    LET c == ledger[p]
    IN  CASE stage = "r2" ->
               [SetKey(c, "r2") EXCEPT !.escalated = @ \cup (Wants[p] \cap NeedsHuman)]
          [] stage = "close" -> SetKey(c, "closed")
          [] OTHER -> SetKey(c, stage)

Advance(p) ==
    /\ At(p, "idle") /\ ledger[p] # NoLedger
    /\ LET stage == NextStage(ledger[p])
       IN  /\ stage \notin {"skill_release", "done"}
           /\ ledger' = [ledger EXCEPT ![p] = After(p, stage)]
    /\ UNCHANGED <<skill, holder, pc, turnVars, fleetVars, evidence, bounds>>

-----------------------------------------------------------------------------
(* Stage 4, up to the gates.                                               *)

Latest == CHOOSE v \in Version :
    tags[v] # <<>> /\ \A w \in Version : tags[w] # <<>> => w =< v

ReleasePlan(p) ==
    /\ At(p, "plan")
    /\ Latest < MaxVersion
    /\ plan' = [plan EXCEPT ![p] = [baseline |-> Latest, candidate |-> Latest + 1]]
    /\ Goto(p, "dedup")
    /\ UNCHANGED <<skill, holder, ledger, tree, todo, fleetVars, evidence, bounds>>

\* Nothing to implement: the sentinel is in the ledger, the turn ends.
Dedup(p) ==
    LET covered == Contents(main)
        left == ToImplement(Wants[p], ledger[p], covered)
    IN  /\ At(p, "dedup")
        /\ ledger' = [ledger EXCEPT ![p] = PlanWrite(@, Wants[p], covered)]
        /\ todo' = [todo EXCEPT ![p] = left]
        /\ Goto(p, IF left = {} THEN "release" ELSE "worktree")
        /\ UNCHANGED <<skill, holder, plan, tree, fleetVars, evidence, bounds>>

Branch(p, g) == [head |-> g, anchor |-> Len(g), dirty |-> Clean(p)]

\* mutant: the anchor is taken where a killed turn left the worktree
WorktreeReanchored(p) ==
    /\ At(p, "worktree")
    /\ \/ \E g \in {main, canon} : tree' = [tree EXCEPT ![p] = Branch(p, g)]
       \/ /\ tree[p].head # <<>>
          /\ tree' = [tree EXCEPT ![p].anchor = Len(tree[p].head)]
    /\ Goto(p, "implement")
    /\ UNCHANGED <<skill, holder, ledger, plan, todo, fleetVars, evidence, bounds>>

\* A private worktree, off origin/main or off the canonical checkout, or the
\* one a killed turn left, with the items it did.
Worktree(p) ==
    /\ At(p, "worktree")
    /\ \/ \E g \in {main, canon} : tree' = [tree EXCEPT ![p] = Branch(p, g)]
       \/ tree[p].head # <<>> /\ UNCHANGED tree
    /\ Goto(p, "implement")
    /\ UNCHANGED <<skill, holder, ledger, plan, todo, fleetVars, evidence, bounds>>

\* A history with the uncommitted change on top.
WithDirty(t) == IF t.dirty.adds = {} /\ t.dirty.bump = 0 THEN t.head ELSE Append(t.head, t.dirty)

\* changed_files, by item: what is new since the base, the length of a
\* history.
Changed(t, base) ==
    LET new == {k \in DOMAIN WithDirty(t) : k > base}
    IN  [adds |-> UNION {WithDirty(t)[k].adds : k \in new},
         drops |-> UNION {WithDirty(t)[k].drops : k \in new},
         fixture |-> \E k \in new : WithDirty(t)[k].fixture]

\* What the turns of p have put into its worktree.
Done(t) == Changed(t, t.anchor).adds

\* codex adds an item to the worktree, maybe without the near-miss fixture.
Add(t, i, near) == [t EXCEPT !.dirty.adds = @ \cup {i}, !.dirty.fixture = @ \/ near]
Committed(t) == [t EXCEPT !.head = WithDirty(t), !.dirty = Clean(t.dirty.by)]

\* release.sh's two commit models: all items stay uncommitted, or each is a
\* commit of its own, which may be marked done.
Implement(p) ==
    /\ At(p, "implement")
    /\ \E i \in todo[p] \ Done(tree[p]), near \in BOOLEAN :
          /\ near => i \in RuleItem
          /\ \/ /\ Len(tree[p].head) = tree[p].anchor
                /\ tree' = [tree EXCEPT ![p] = Add(@, i, near)]
                /\ UNCHANGED ledger
             \/ /\ tree[p].dirty.adds = {}
                /\ tree' = [tree EXCEPT ![p] = Committed(Add(@, i, near))]
                /\ \/ ledger' = [ledger EXCEPT ![p] = MarkDone(@, i)]
                   \/ UNCHANGED ledger
    /\ UNCHANGED <<skill, holder, pc, plan, todo, fleetVars, evidence, bounds>>

\* The version strings and the manifest are brought up to the candidate.
Bump(p) ==
    /\ At(p, "implement")
    /\ todo[p] \subseteq Done(tree[p])
    /\ tree' = [tree EXCEPT ![p].dirty.bump =
                  IF Bumped(tree[p].head) = plan[p].candidate THEN 0 ELSE plan[p].candidate]
    /\ Goto(p, "gate")
    /\ UNCHANGED <<skill, holder, ledger, plan, todo, fleetVars, evidence, bounds>>

-----------------------------------------------------------------------------
(* release.sh                                                              *)

\* backtest.py on p's worktree as it is.
Replay(p) ==
    Backtest(plan[p].baseline, Contents(tags[plan[p].baseline]),
             Contents(WithDirty(tree[p])), Targets[p])

\* It has to be told a target.
RunBacktest(p) ==
    /\ At(p, "gate")
    /\ Targets[p] # {}
    /\ report' = [report EXCEPT ![p] = Replay(p)]
    /\ backtested' = IF Replay(p).fires
                     THEN backtested \cup (Contents(WithDirty(tree[p])) \cap RuleItem)
                     ELSE backtested
    /\ UNCHANGED <<skill, holder, pc, ledger, turnVars, fleetVars, bounds>>

\* infer_release_base: the latest tag that is merged into the worktree.
InferredBase(g) ==
    LET vs == {v \in Version : tags[v] # <<>> /\ Ancestor(tags[v], g)}
    IN  Len(tags[CHOOSE v \in vs : \A w \in vs : w =< v])

\* G4 takes the report that is there, maybe of an earlier turn, and the
\* near-miss check does without --anchor.
Gate(p) ==
    /\ At(p, "gate")
    /\ \/ CheckNoBacktest(Changed(tree[p], tree[p].anchor))
       \/ /\ \E adjudged \in Adjudications : CheckG4(report[p], adjudged, plan[p])
          /\ \E base \in {tree[p].anchor, InferredBase(tree[p].head)} :
                CheckNearMiss(Changed(tree[p], base))
    /\ Goto(p, "tag")
    /\ UNCHANGED <<skill, holder, ledger, turnVars, fleetVars, evidence, bounds>>

\* G1 to G4 red: exit 2.
GateFails(p) ==
    /\ At(p, "gate")
    /\ Goto(p, "release")
    /\ UNCHANGED <<skill, holder, ledger, turnVars, fleetVars, evidence, bounds>>

\* mutant: an existing tag is moved
TagForced(p) ==
    /\ At(p, "tag")
    /\ tree' = [tree EXCEPT ![p] = Committed(@)]
    /\ tags' = [tags EXCEPT ![plan[p].candidate] = WithDirty(tree[p])]
    /\ Goto(p, "pushMain")
    /\ UNCHANGED <<main, canon, published, holder, ledger, plan, todo, fleetVars, evidence, bounds>>

\* The dirty model's commit, then the tag; "tag exists" is exit 3.
Tag(p) ==
    /\ At(p, "tag")
    /\ tree' = [tree EXCEPT ![p] = Committed(@)]
    /\ IF tags[plan[p].candidate] = <<>>
       THEN /\ tags' = [tags EXCEPT ![plan[p].candidate] = WithDirty(tree[p])]
            /\ Goto(p, "pushMain")
       ELSE Goto(p, "release") /\ UNCHANGED tags
    /\ UNCHANGED <<main, canon, published, holder, ledger, plan, todo, fleetVars, evidence, bounds>>

\* mutant: the tag is pushed whether main took the candidate or not
PushMainForgiving(p) ==
    /\ At(p, "pushMain")
    /\ main' = IF Ancestor(main, tree[p].head) THEN tree[p].head ELSE main
    /\ Goto(p, "pushTag")
    /\ UNCHANGED <<canon, tags, published, holder, ledger, turnVars, fleetVars, evidence, bounds>>

\* git push origin HEAD:main moves main forward or not at all.
PushMain(p) ==
    /\ At(p, "pushMain")
    /\ IF Ancestor(main, tree[p].head)
       THEN main' = tree[p].head /\ Goto(p, "pushTag")
       ELSE Goto(p, "release") /\ UNCHANGED main
    /\ UNCHANGED <<canon, tags, published, holder, ledger, turnVars, fleetVars, evidence, bounds>>

\* Then fetch and merge --ff-only, where HEAD is the tag already.
PushTag(p) ==
    /\ At(p, "pushTag")
    /\ published' = published \cup {plan[p].candidate}
    /\ Goto(p, "record")
    /\ UNCHANGED <<main, canon, tags, holder, ledger, turnVars, fleetVars, evidence, bounds>>

\* The remote refuses or cannot be reached: exit 3, the local tag stays.
PushFails(a) ==
    /\ pc[a] \in {"pushMain", "pushTag", "pushRevert"}
    /\ Fault /\ UNCHANGED excuses
    /\ Goto(a, "release")
    /\ UNCHANGED <<skill, holder, ledger, turnVars, fleetVars, evidence>>

\* closure.py set skill_release <version>
Record(p) ==
    /\ At(p, "record")
    /\ ledger' = [ledger EXCEPT ![p] = SetKey(@, "skill_release")]
    /\ Goto(p, "release")
    /\ UNCHANGED <<skill, holder, turnVars, fleetVars, evidence, bounds>>

-----------------------------------------------------------------------------
(* rollback.sh, on the canonical checkout, and the operator's git pull.    *)

\* git revert takes the version string back with the rest, or conflicts
\* with a later bump: exit 1.
Revert ==
    /\ At(Operator, "revert")
    /\ \E k \in Revertible :
          LET back == SubSeq(canon, 1, k - 1)
              c == [Clean(Operator) EXCEPT
                       !.drops = canon[k].adds,
                       !.bump = IF canon[k].bump = 0 THEN 0 ELSE Bumped(back)]
          IN  IF canon[k].bump \in {0, Bumped(canon)}
              THEN canon' = Append(canon, c) /\ Goto(Operator, "pushRevert")
              ELSE Goto(Operator, "release") /\ UNCHANGED canon
    /\ UNCHANGED <<main, tags, published, holder, ledger, turnVars, fleetVars, evidence, bounds>>

\* mutant: origin's main is reset to the canonical checkout
PushRevertForced ==
    /\ At(Operator, "pushRevert")
    /\ main' = canon
    /\ Goto(Operator, "release")
    /\ UNCHANGED <<canon, tags, published, holder, ledger, turnVars, fleetVars, evidence, bounds>>

\* HEAD of the canonical checkout, with all that was never pushed from it.
PushRevert ==
    /\ At(Operator, "pushRevert")
    /\ main' = IF Ancestor(main, canon) THEN canon ELSE main
    /\ Goto(Operator, "release")
    /\ UNCHANGED <<canon, tags, published, holder, ledger, turnVars, fleetVars, evidence, bounds>>

Pull ==
    /\ canon # main /\ Ancestor(canon, main)
    /\ canon' = main
    /\ UNCHANGED <<main, tags, published, holder, pc, ledger, turnVars, fleetVars, evidence, bounds>>

-----------------------------------------------------------------------------
(* Deaths                                                                  *)

\* The turn is gone; what it wrote stays.
Dies(a) ==
    /\ Fault /\ UNCHANGED overrun
    /\ Stop(a)
    /\ UNCHANGED <<skill, holder, fleetVars, evidence>>

Die(a) ==
    /\ pc[a] \in Locked
    /\ Dies(a)
    /\ UNCHANGED <<ledger, torn>>

\* In the middle of save(): write_text has truncated the ledger.
DieSaving(p) ==
    /\ pc[p] \in {"idle", "dedup", "implement", "record"}
    /\ ledger[p] \notin {NoLedger, Fresh}
    /\ NextStage(ledger[p]) # "done"
    /\ Dies(p)
    /\ ledger' = [ledger EXCEPT ![p] = Fresh] /\ torn' = TRUE

-----------------------------------------------------------------------------
Stage4(p) ==
    \/ ReleasePlan(p) \/ Dedup(p) \/ Worktree(p) \/ Implement(p)
    \/ Bump(p) \/ RunBacktest(p) \/ Gate(p) \/ GateFails(p) \/ Tag(p) \/ PushMain(p) \/ PushTag(p)
    \/ Record(p)

Turn(p) ==
    \/ Seed(p) \/ SeedFails(p) \/ FleetRead(p) \/ FleetReplace(p)
    \/ Open(p) \/ Advance(p) \/ Stage4(p) \/ DieSaving(p)

Next ==
    \/ \E a \in Actor : \/ Acquire(a) \/ Overrun(a) \/ LoseLock(a) \/ Release(a)
                      \/ PushFails(a) \/ Die(a)
    \/ \E p \in Project : Turn(p)
    \/ Revert \/ PushRevert \/ Pull

Spec == Init /\ [][Next]_vars

-----------------------------------------------------------------------------
(* Properties                                                              *)

Tree == [head : Seq(Commit), anchor : Nat, dirty : Commit]

Report == [baseline : 0 .. MaxVersion, fires : BOOLEAN, misfires : SUBSET Cycle]

\* Type invariant: the histories are of commits, and versions are within
\* their bound.
TypeOK ==
    /\ main \in Seq(Commit) /\ canon \in Seq(Commit)
    /\ tags \in [Version -> Seq(Commit)]
    /\ published \in SUBSET Version
    /\ holder \in Actor \cup {NoActor}
    /\ pc \in [Actor -> Position]
    /\ ledger \in [Project -> Ledger \cup {NoLedger}]
    /\ plan \in [Project -> [baseline : 0 .. MaxVersion, candidate : 0 .. MaxVersion]]
    /\ tree \in [Project -> Tree]
    /\ todo \in [Project -> SUBSET Item]
    /\ fleet \in SUBSET Project /\ read \in [Project -> SUBSET Project]
    /\ enrolled \in SUBSET Project
    /\ report \in [Project -> Report]
    /\ backtested \in SUBSET RuleItem
    /\ overrun \in BOOLEAN /\ torn \in BOOLEAN
    /\ faults \in 0 .. MaxFaults

\* "it must never reset shared main ... never deletes a pushed tag"
\* (bs-evolve.md): whatever dies, fails or overlaps, a version that is on
\* origin is a tag whose commit is on origin/main.
TagsAreOnMain ==
    \A v \in published : tags[v] # <<>> /\ Ancestor(tags[v], main)

\* Two turns that planned the same candidate, one of them without its lease,
\* never both release it, and a worktree that a killed turn left brings none
\* of its commits to main untagged: what a project implemented or bumped on
\* main is below a version's tag, and no other turn moves that tag.
TaggedAsPushed ==
    \A k \in DOMAIN main :
        (main[k].by \in Project /\ (main[k].adds # {} \/ main[k].bump # 0)) =>
            \E v \in Version : /\ k =< Len(tags[v])
                               /\ Ancestor(tags[v], main)
                               /\ Bumped(tags[v]) = v

\* Stage 4's dedup: unless a live turn lost its lease, an item two projects
\* want is implemented on main once, and again only after a rollback.
ItemsOnce ==
    ~overrun =>
        \A j, k \in DOMAIN main : \A i \in main[j].adds \cap main[k].adds :
            j < k => \E l \in j .. k : i \in main[l].drops

\* No rule reaches main that no backtest showed to fire, though a turn can
\* go on in the worktree that a killed one left, can do without --anchor,
\* and G4 takes a report of an earlier turn as long as it is of the same
\* baseline.  A truncated ledger has forgotten what was marked done, and a
\* rule that comes back that way can pass with such a report.
RuleIsBacktested ==
    ~torn => \A k \in DOMAIN main : main[k].adds \cap RuleItem \subseteq backtested

\* A closed ledger has no leftover work but what mark-done promised: every
\* item is on main (or was, before a rollback), with a human, or marked.
ClosedIsHandled ==
    \A p \in Project : ledger[p] # NoLedger /\ "closed" \in ledger[p].set =>
        \A i \in Wants[p] :
            \/ \E k \in DOMAIN main : i \in main[k].adds
            \/ i \in ledger[p].escalated
            \/ i \in ledger[p].done

\* A rule that fires on its target can pass G4: run on the worktree, the
\* backtest gives a report that is accepted once each of its misfires is
\* adjudicated as a true positive and verified.  Apart from a misfire that
\* is not, what stands in the way is the baseline, as release-plan.py takes
\* any local tag: one of a release that was cut short before origin had it,
\* or one that holds a rule which was rolled back.
RuleCanPass ==
    \A p \in Project :
        (~overrun /\ At(p, "gate") /\ plan[p].baseline \in published) =>
            \A i \in todo[p] \cap RuleItem :
                \/ Targets[p] \subseteq Fires[i] =>
                       \E adjudged \in Adjudications : CheckG4(Replay(p), adjudged, plan[p])
                \/ \E k \in DOMAIN main : i \in main[k].drops

\* "concurrent init must not lose updates" (bs-evolve.md): no completed
\* init disappears from the fleet, unless an init outlived its lease.
FleetKeepsAll == ~overrun => enrolled \subseteq fleet

\* "it must never reset shared main ... and never deletes a pushed tag"
\* (bs-evolve.md), of every step and every actor: origin sees the history of
\* ReleaseHistory, where each version is tagged, released and pushed once
\* and nothing is implemented but by a release.
H == INSTANCE ReleaseHistory

ImplementsHistory == H!Spec
=============================================================================
