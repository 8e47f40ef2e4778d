------------------------- MODULE SkillReleaseProofs -------------------------
(***************************************************************************)
(* What SkillRelease guarantees for every fleet, set of items, corpus and  *)
(* number of faults.  The invariants: the types, with every history rooted *)
(* (TypeInv); SKILL.lock and what is done under it, up to the first lease  *)
(* that runs out (LeaseInv); the histories with their tags, for which no   *)
(* lock is needed, as a tag is written once and main only moves forward    *)
(* (TagInv); the worktrees, also the ones a killed turn left (TreeInv);    *)
(* and three on what becomes of an item: it is handled before its ledger   *)
(* is closed (HandledInv), backtested before it is on main (BacktestInv),  *)
(* and there once (OnceInv).  With what a release may push while it is     *)
(* under way (HistoryInv) the pipeline is a ReleaseHistory.                *)
(***************************************************************************)
EXTENDS SkillRelease, SequenceTheorems, NaturalOrder

-----------------------------------------------------------------------------
(* The invariants                                                          *)

Rooted(h) == Len(h) > 0 /\ h[1] = Root

\* From the worktree on.
Branched == {"implement", "gate", "tag", "pushMain"}

\* In Stage 4.
Releasing == Branched \cup {"plan", "dedup", "worktree", "pushTag", "record"}

\* From release-plan.py on.
Planned == Branched \cup {"dedup", "worktree", "pushTag"}

TypeInv ==
    /\ TypeOK
    /\ \A p \in Project : pc[p] \in Planned => plan[p].candidate \in Version
    /\ \A p \in Project : pc[p] \in Releasing => ledger[p] \in Ledger
    /\ Rooted(main) /\ Rooted(canon) /\ tags[1] # <<>>
    /\ \A p \in Project : tree[p].head = <<>> \/ Rooted(tree[p].head)
    /\ \A p \in Project : pc[p] \in Branched => Rooted(tree[p].head)

LeaseInv == ~overrun =>
    /\ \A a \in Actor : pc[a] \in Locked => holder = a
    /\ \A p \in Project : pc[p] = "fleetReplace" => read[p] = fleet
    /\ enrolled \subseteq fleet

\* What the projects implemented or bumped in a history is below the tag of
\* a version in it.
Covered(ts, h) == \A k \in DOMAIN h :
    h[k].by \in Project /\ (h[k].adds # {} \/ h[k].bump # 0) =>
        \E v \in Version : k =< Len(ts[v]) /\ Ancestor(ts[v], h) /\ Bumped(ts[v]) = v

TagAt(p) ==
    /\ pc[p] \in {"gate", "tag"} => Bumped(WithDirty(tree[p])) = plan[p].candidate
    /\ pc[p] = "pushMain" => /\ tags[plan[p].candidate] = tree[p].head
                             /\ Bumped(tree[p].head) = plan[p].candidate
    /\ pc[p] = "pushTag" => /\ tags[plan[p].candidate] # <<>>
                            /\ Ancestor(tags[plan[p].candidate], main)

TagInv ==
    /\ Covered(tags, main) /\ Covered(tags, canon)
    /\ TagsAreOnMain
    /\ \A p \in Project : TagAt(p)

\* From the dedup to the end of the release.
Releases == Branched \cup {"worktree", "pushTag", "record"}

Landed(h, i) == \E k \in DOMAIN h : i \in h[k].adds
Handled(p, i) == Landed(main, i) \/ i \in ledger[p].escalated \/ i \in ledger[p].done

\* An item the turn does not have to implement is handled; one it has to is,
\* from the gates on, in what goes to main.
HandledAt(p) ==
    /\ ledger[p] # NoLedger =>
          /\ "closed" \in ledger[p].set => "skill_release" \in ledger[p].set
          /\ "skill_release" \in ledger[p].set => \A i \in Wants[p] : Handled(p, i)
    /\ pc[p] \in Releases => \A i \in Wants[p] \ todo[p] : Handled(p, i)
    /\ pc[p] \in {"gate", "tag"} => \A i \in todo[p] : Landed(WithDirty(tree[p]), i)
    /\ pc[p] = "pushMain" => \A i \in todo[p] : Landed(tree[p].head, i)
    /\ pc[p] \in {"pushTag", "record"} => \A i \in todo[p] : Landed(main, i)

HandledInv == \A p \in Project : HandledAt(p)

\* What the turns have added on top of a worktree's anchor.
NewAdds(t) ==
    {i \in Item : \/ i \in t.dirty.adds
                 \/ \E k \in t.anchor + 1 .. Len(t.head) : i \in t.head[k].adds}

\* Up to its n-th commit, a history has no items but where main is as long.
Behind(h, n) == \A k \in 1 .. n : h[k].adds # {} => k =< Len(main)

\* A worktree, in use or left by a killed turn: below its anchor there are
\* no items that main could not have, above it nothing is reverted.
TreeAt(p) ==
    /\ tree[p].anchor =< Len(tree[p].head)
    /\ Behind(tree[p].head, tree[p].anchor)
    /\ \A k \in tree[p].anchor + 1 .. Len(tree[p].head) : tree[p].head[k].drops = {}
    /\ tree[p].dirty.drops = {}
    /\ pc[p] = "gate" => todo[p] \subseteq NewAdds(tree[p])

TreeInv ==
    /\ Behind(canon, Len(canon))
    /\ \A p \in Project : TreeAt(p)

\* From the dedup to the gates.
Working == {"worktree", "implement", "gate"}

\* Up to its n-th commit, a history has no rules but these.
Within(h, n, rules) == \A k \in 1 .. n : h[k].adds \cap RuleItem \subseteq rules

\* The rules a project wants released.
WantedRules(p) == (Wants[p] \ NeedsHuman) \cap RuleItem

\* A report that fires has seen every rule the project wants, but the ones
\* that were marked done; so it speaks for the turns after it as well.
BacktestAt(p) ==
    /\ Within(tree[p].head, tree[p].anchor, backtested)
    /\ report[p].fires =>
          /\ ledger[p] \in Ledger
          /\ NewAdds(tree[p]) \cap RuleItem \subseteq backtested
          /\ todo[p] \cap RuleItem \subseteq backtested
          /\ WantedRules(p) \subseteq backtested \cup ledger[p].done
    /\ pc[p] \in Working => WantedRules(p) \subseteq todo[p] \cup backtested \cup ledger[p].done
    /\ pc[p] \in {"tag", "pushMain"} => NewAdds(tree[p]) \cap RuleItem \subseteq backtested

BacktestInv == ~torn =>
    /\ Within(main, Len(main), backtested) /\ Within(canon, Len(canon), backtested)
    /\ \A p \in Project : BacktestAt(p)

\* A history implements an item once, and again only after it went back.
OnceIn(h) == \A j, k \in 1 .. Len(h) : \A i \in h[j].adds \cap h[k].adds :
    j < k => \E l \in j .. k : i \in h[l].drops

\* A worktree with its uncommitted change, also if there is none.
Whole(t) == Append(t.head, t.dirty)

\* A worktree that main would take has its items once.
OnceAt(p) ==
    /\ Ancestor(main, tree[p].head) => OnceIn(Whole(tree[p]))
    /\ pc[p] \in Working => todo[p] \cap Contents(main) = {}

OnceInv == ~overrun =>
    /\ OnceIn(main)
    /\ \A p \in Project : OnceAt(p)

\* What a release is pushing.
Pushing == {"pushMain", "pushTag"}

\* A release's candidate is the version after a tagged one, and what is
\* being pushed is not on origin yet and pushed by nobody else.
HistoryAt(p) ==
    /\ pc[p] \in Planned => /\ plan[p].baseline \in Version
                            /\ tags[plan[p].baseline] # <<>>
                            /\ plan[p].candidate = plan[p].baseline + 1
    /\ pc[p] \in Pushing =>
          /\ plan[p].candidate \notin published
          /\ \A q \in Project \ {p} :
                pc[q] \in Pushing => plan[q].candidate # plan[p].candidate

HistoryInv == \A p \in Project : HistoryAt(p)

-----------------------------------------------------------------------------
(* Histories                                                               *)

\* A history is its own ancestor (git merge-base --is-ancestor).
LEMMA AncestorReflexive ==
    ASSUME NEW h \in Seq(Commit)
    PROVE  Ancestor(h, h)
BY DEF Ancestor

\* An ancestor's ancestor is one.
LEMMA AncestorTransitive ==
    ASSUME NEW f \in Seq(Commit), NEW g \in Seq(Commit), NEW h \in Seq(Commit),
           Ancestor(f, g), Ancestor(g, h)
    PROVE  Ancestor(f, h)
BY DEF Ancestor

\* A rooted history has a version, that of its last bump (skill.yaml).
LEMMA BumpedIsVersion ==
    ASSUME NEW h \in Seq(Commit), Rooted(h)
    PROVE  Bumped(h) \in Version
<1> DEFINE ks == {k \in DOMAIN h : h[k].bump # 0}
<1>1. ks \in SUBSET (0 .. Len(h)) /\ Len(h) \in Nat
  OBVIOUS
<1>2. 1 \in ks
  BY DEF Rooted, Root
<1>3. \E k \in ks : \A j \in ks : j =< k
  <2> HIDE DEF ks
  <2> QED BY <1>1, <1>2, GreatestExists
<1>4. PICK k \in ks : Bumped(h) = h[k].bump
  BY <1>3 DEF Bumped
<1>5. h[k] \in Commit
  BY <1>4
<1> QED BY <1>4, <1>5 DEF Commit, Version

\* release-plan.py's baseline is a tagged version, as long as there is one.
LEMMA LatestIsVersion ==
    ASSUME tags[1] # <<>>
    PROVE  Latest \in Version /\ tags[Latest] # <<>>
<1> DEFINE vs == {v \in Version : tags[v] # <<>>}
<1>1. MaxVersion \in Nat /\ vs \in SUBSET (0 .. MaxVersion)
  BY GateAssumption DEF Version
<1>2. 1 \in vs
  BY GateAssumption DEF Version
<1>3. \E v \in vs : \A u \in vs : u =< v
  <2> HIDE DEF vs
  <2> QED BY <1>1, <1>2, GreatestExists
<1> QED BY <1>3 DEF Latest

-----------------------------------------------------------------------------
(* Types                                                                   *)

\* closure.py's ledger has the four stages and closed.
LEMMA FlagsAre == Flags = {"r1", "r2", "skill_release", "remediation", "closed"}
BY DEF Flags, Stages

\* closure.py next: a stage, "close" or "done".
LEMMA NextStageIs ==
    ASSUME NEW c
    PROVE  NextStage(c) \in {"r1", "r2", "skill_release", "remediation", "close", "done"}
<1> DEFINE unset == {k \in DOMAIN Stages : Stages[k] \notin c.set}
<1>1. DOMAIN Stages = 1 .. 4 /\ \A k \in 1 .. 4 : Stages[k] \in {"r1", "r2", "skill_release", "remediation"}
  BY DEF Stages
<1>2. CASE unset = {}
  BY <1>2 DEF NextStage
<1>3. CASE unset # {}
  <2>1. unset \in SUBSET Nat
    BY <1>1
  <2>2. PICK least \in unset : \A j \in unset : least =< j
    <3> HIDE DEF unset
    <3> QED BY <1>3, <2>1, LeastExists
  <2>3. (CHOOSE k \in unset : \A j \in unset : k =< j) \in unset
    BY <2>2
  <2>4. NextStage(c) = Stages[CHOOSE k \in unset : \A j \in unset : k =< j]
    BY <1>3 DEF NextStage
  <2> QED BY <1>1, <2>3, <2>4
<1> QED BY <1>2, <1>3

\* closure.py init, set, mark-done and close keep a ledger a ledger.
LEMMA LedgerTypes ==
    ASSUME NEW c \in Ledger
    PROVE  /\ \A f \in Flags : SetKey(c, f) \in Ledger
           /\ \A i \in Item : MarkDone(c, i) \in Ledger
           /\ \A items \in SUBSET Item, covered \in SUBSET Item : PlanWrite(c, items, covered) \in Ledger
<1>1. "skill_release" \in Flags
  BY FlagsAre
<1>2. \A f \in Flags : SetKey(c, f) \in Ledger
  BY DEF SetKey, Ledger
<1>3. \A i \in Item : MarkDone(c, i) \in Ledger
  BY DEF MarkDone, Ledger
<1>4. ASSUME NEW items \in SUBSET Item, NEW covered \in SUBSET Item
      PROVE  PlanWrite(c, items, covered) \in Ledger
  <2> DEFINE noted == [c EXCEPT
            !.covered = @ \cup (items \cap covered),
            !.escalated = @ \cup ((items \cap NeedsHuman) \ (covered \cup c.done))]
  <2>1. noted \in Ledger
    BY DEF Ledger
  <2>2. SetKey(noted, "skill_release") \in Ledger
    BY <1>1, <2>1 DEF SetKey, Ledger
  <2> QED BY <2>1, <2>2 DEF PlanWrite
<1> QED BY <1>2, <1>3, <1>4

\* So is one of which the review is done, with its items for a human.
LEMMA ReviewedTypes ==
    ASSUME NEW p \in Project, ledger[p] \in Ledger
    PROVE  After(p, "r2") \in Ledger
<1> DEFINE d == SetKey(ledger[p], "r2")
<1>1. d \in Ledger
  BY FlagsAre, LedgerTypes
<1>2. After(p, "r2") = [d EXCEPT !.escalated = @ \cup (Wants[p] \cap NeedsHuman)]
  BY DEF After
<1>3. Wants[p] \cap NeedsHuman \in SUBSET Item
  BY ReleaseAssumption
<1> HIDE DEF d
<1> QED BY <1>1, <1>2, <1>3 DEF Ledger

\* A worktree's HEAD with its uncommitted change on top.
LEMMA WithDirtyIs ==
    ASSUME NEW t \in Tree
    PROVE  /\ WithDirty(t) \in Seq(Commit)
           /\ WithDirty(t) = t.head \/ WithDirty(t) = Append(t.head, t.dirty)
           /\ Rooted(t.head) => Rooted(WithDirty(t))
<1>1. t.head \in Seq(Commit) /\ t.dirty \in Commit
  BY DEF Tree
<1> QED BY <1>1 DEF WithDirty, Rooted

\* A worktree is made of a commit's files.
LEMMA CleanIsCommit == \A a \in Actor : Clean(a) \in Commit
BY GateAssumption DEF Clean, Commit

\* The files of a commit have their types.
LEMMA CommitTypes ==
    ASSUME NEW c \in Commit
    PROVE  /\ [c EXCEPT !.fixture = TRUE] \in Commit
           /\ \A drops \in SUBSET Item, b \in 0 .. MaxVersion :
                 [c EXCEPT !.drops = drops, !.bump = b] \in Commit
BY DEF Commit

\* What the end of a turn leaves of its plan and items; the tree stays.
LEMMA StopTypes ==
    ASSUME TypeInv, NEW a \in Actor, Stop(a)
    PROVE  /\ pc' \in [Actor -> Position]
           /\ plan' \in [Project -> [baseline : 0 .. MaxVersion, candidate : 0 .. MaxVersion]]
           /\ tree' = tree
           /\ todo' \in [Project -> SUBSET Item]
           /\ pc'[a] \in {"new", "idle"}
           /\ \A b \in Actor \ {a} : pc'[b] = pc[b]
           /\ \A p \in Project \ {a} :
                 plan'[p] = plan[p] /\ todo'[p] = todo[p]
<1> USE DEF Stop, TypeInv, TypeOK, Goto
<1>1. pc' \in [Actor -> Position] /\ pc'[a] \in {"new", "idle"} /\ \A b \in Actor \ {a} : pc'[b] = pc[b]
  BY DEF Position
<1>2. CASE a \in Project
  <2>1. NoPlan \in [baseline : 0 .. MaxVersion, candidate : 0 .. MaxVersion]
    BY GateAssumption DEF NoPlan
  <2> QED BY ZenonT(60), <1>1, <1>2, <2>1
<1>3. CASE a \notin Project
  BY <1>1, <1>3
<1> QED BY <1>2, <1>3

\* The first state has its types, and a root under its history.
LEMMA TypeInit == Init => TypeInv
<1> SUFFICES ASSUME Init PROVE TypeInv
  OBVIOUS
<1> USE ReleaseAssumption, GateAssumption, ItemAssumption DEF Init
<1>1. Root \in Commit
  BY DEF Root, Commit
<1>2. main \in Seq(Commit) /\ canon \in Seq(Commit) /\ Rooted(main) /\ Rooted(canon)
  BY <1>1 DEF Rooted
<1>3. tags \in [Version -> Seq(Commit)] /\ 1 \in Version /\ tags[1] # <<>>
  BY <1>2 DEF Version, Rooted
<1>4. tree \in [Project -> Tree] /\ \A p \in Project : tree[p].head = <<>>
  BY CleanIsCommit DEF Tree, NoTree
<1>5. pc \in [Actor -> Position] /\ \A p \in Project : pc[p] \in {"new", "idle"}
  BY DEF Position
<1>6. plan \in [Project -> [baseline : 0 .. MaxVersion, candidate : 0 .. MaxVersion]]
  BY DEF NoPlan
<1>7. ledger \in [Project -> Ledger \cup {NoLedger}]
  OBVIOUS
<1>8. published \in SUBSET Version
  BY <1>3
<1>9. /\ holder = NoActor /\ todo \in [Project -> SUBSET Item]
      /\ fleet \in SUBSET Project /\ read \in [Project -> SUBSET Project]
      /\ enrolled \in SUBSET Project
      /\ backtested = {} /\ overrun = FALSE /\ torn = FALSE /\ faults \in 0 .. MaxFaults
  OBVIOUS
<1>11. report \in [Project -> Report]
  BY DEF NoReport, Report
<1> HIDE DEF Init
<1>10. TypeOK
  BY <1>2, <1>3, <1>4, <1>5, <1>6, <1>7, <1>8, <1>9, <1>11 DEF TypeOK
<1> QED BY <1>2, <1>3, <1>4, <1>5, <1>10 DEF TypeInv, Branched, Releasing, Planned

\* rollback.sh adds a commit of its own, or none.
LEMMA RevertIsCommit ==
    ASSUME TypeInv, Revert
    PROVE  \E c \in Commit : c.by \notin Project /\ c.adds = {} /\ canon' \in {canon, Append(canon, c)}
<1> USE ReleaseAssumption DEF TypeInv, TypeOK
<1>1. PICK k \in Revertible :
        canon' \in {canon, Append(canon, [Clean(Operator) EXCEPT
            !.drops = canon[k].adds,
            !.bump = IF canon[k].bump = 0 THEN 0 ELSE Bumped(SubSeq(canon, 1, k - 1))])}
  BY DEF Revert
<1>2. k \in 2 .. Len(canon) /\ canon[k] \in Commit
  BY DEF Revertible, Rooted, Root
<1>3. SubSeq(canon, 1, k - 1) \in Seq(Commit) /\ Rooted(SubSeq(canon, 1, k - 1))
  <2>1. \A j \in 1 .. k - 1 : canon[j] \in Commit
    BY <1>2
  <2> QED BY <1>2, <2>1, SubSeqProperties DEF Rooted
<1>4. Bumped(SubSeq(canon, 1, k - 1)) \in 0 .. MaxVersion
  <2>1. Bumped(SubSeq(canon, 1, k - 1)) \in Version
    BY <1>3, BumpedIsVersion
  <2> QED BY <2>1 DEF Version
<1> DEFINE c == [Clean(Operator) EXCEPT
            !.drops = canon[k].adds,
            !.bump = IF canon[k].bump = 0 THEN 0 ELSE Bumped(SubSeq(canon, 1, k - 1))]
<1>5. c \in Commit
  <2>1. canon[k].adds \in SUBSET Item
    BY <1>2 DEF Commit
  <2>2. Clean(Operator) \in Commit /\ 0 \in 0 .. MaxVersion
    BY GateAssumption, CleanIsCommit
  <2> QED BY <1>4, <2>1, <2>2, CommitTypes
<1>6. c.by \notin Project /\ c.adds = {}
  BY DEF Clean
<1> HIDE DEF c
<1> QED BY <1>1, <1>5, <1>6 DEF c

\* No step of the release, the fleet or a fault breaks the types.
LEMMA TypeNext == TypeInv /\ [Next]_vars => TypeInv'
<1> SUFFICES ASSUME TypeInv, [Next]_vars PROVE TypeInv'
  OBVIOUS
<1> USE ReleaseAssumption, GateAssumption, ItemAssumption
    DEF TypeInv, TypeOK, At, Goto, Position, Locked, Branched, Releasing, Planned, skill, turnVars, fleetVars, evidence, excuses, bounds
<1>1. ASSUME NEW a \in Actor, Acquire(a) PROVE TypeInv'
  BY <1>1 DEF Acquire, Begin, MayStart
<1>2. ASSUME NEW a \in Actor, Overrun(a) PROVE TypeInv'
  BY <1>2 DEF Overrun, Begin, MayStart, Fault
<1>3. ASSUME NEW a \in Actor, LoseLock(a) PROVE TypeInv'
  <2>1. Stop(a)
    BY <1>3 DEF LoseLock
  <2> QED BY <1>3, <2>1, StopTypes DEF LoseLock
<1>4. ASSUME NEW a \in Actor, Release(a) PROVE TypeInv'
  <2>1. Stop(a)
    BY <1>4 DEF Release
  <2> QED BY <1>4, <2>1, StopTypes DEF Release
<1>5. ASSUME NEW a \in Actor, PushFails(a) PROVE TypeInv'
  BY <1>5 DEF PushFails, Fault
<1>6. ASSUME NEW a \in Actor, Die(a) PROVE TypeInv'
  <2>1. Stop(a)
    BY <1>6 DEF Die, Dies
  <2>2. /\ UNCHANGED <<skill, holder, ledger, fleetVars, evidence, excuses>>
        /\ faults' \in 0 .. MaxFaults
    BY <1>6 DEF Die, Dies, Fault
  <2> QED BY <2>1, <2>2, StopTypes
<1>7. ASSUME NEW p \in Project, Seed(p) PROVE TypeInv'
  <2>1. [Clean(p) EXCEPT !.fixture = TRUE] \in Commit
    BY CleanIsCommit, CommitTypes
  <2>2. canon' \in Seq(Commit) /\ Rooted(canon')
    BY <1>7, <2>1 DEF Seed, Rooted
  <2> QED BY <1>7, <2>2 DEF Seed
<1>8. ASSUME NEW p \in Project, SeedFails(p) PROVE TypeInv'
  BY <1>8 DEF SeedFails
<1>9. ASSUME NEW p \in Project, FleetRead(p) PROVE TypeInv'
  BY <1>9 DEF FleetRead
<1>10. ASSUME NEW p \in Project, FleetReplace(p) PROVE TypeInv'
  BY <1>10 DEF FleetReplace
<1>11. ASSUME NEW p \in Project, Open(p) PROVE TypeInv'
  <2>1. Fresh \in Ledger
    BY DEF Fresh, Ledger
  <2> QED BY <1>11, <2>1 DEF Open
<1>12. ASSUME NEW p \in Project, Advance(p) PROVE TypeInv'
  <2>1. ledger[p] \in Ledger
    BY <1>12 DEF Advance
  <2>2. \A stage \in {"r1", "r2", "remediation", "close"} : After(p, stage) \in Ledger
    <3>1. SetKey(ledger[p], "r1") \in Ledger /\ SetKey(ledger[p], "remediation") \in Ledger
          /\ SetKey(ledger[p], "closed") \in Ledger
      BY <2>1, FlagsAre, LedgerTypes
    <3>2. After(p, "r2") \in Ledger
      BY <2>1, ReviewedTypes
    <3>3. After(p, "r1") = SetKey(ledger[p], "r1") /\ After(p, "remediation") = SetKey(ledger[p], "remediation")
          /\ After(p, "close") = SetKey(ledger[p], "closed")
      BY DEF After
    <3> QED BY <3>1, <3>2, <3>3
  <2>3. After(p, NextStage(ledger[p])) \in Ledger
    BY <1>12, <2>2, NextStageIs DEF Advance
  <2>4. ledger' = [ledger EXCEPT ![p] = After(p, NextStage(ledger[p]))] /\ pc[p] = "idle"
        /\ UNCHANGED <<skill, holder, pc, turnVars, fleetVars, evidence, bounds>>
    BY <1>12 DEF Advance
  <2> QED BY <2>3, <2>4
<1>13. ASSUME NEW p \in Project, ReleasePlan(p) PROVE TypeInv'
  <2>1. Latest \in 0 .. MaxVersion /\ Latest + 1 \in 0 .. MaxVersion /\ Latest + 1 \in Version
    BY <1>13, LatestIsVersion DEF ReleasePlan, Version
  <2> QED BY <1>13, <2>1 DEF ReleasePlan
<1>14. ASSUME NEW p \in Project, Dedup(p) PROVE TypeInv'
  <2>1. Contents(main) \in SUBSET Item /\ Wants[p] \in SUBSET Item
    BY DEF Contents
  <2>2. PlanWrite(ledger[p], Wants[p], Contents(main)) \in Ledger
    BY <1>14, <2>1, LedgerTypes DEF Dedup
  <2>3. ToImplement(Wants[p], ledger[p], Contents(main)) \in SUBSET Item
    BY <2>1 DEF ToImplement
  <2> QED BY <1>14, <2>2, <2>3 DEF Dedup
<1>15. ASSUME NEW p \in Project, Worktree(p) PROVE TypeInv'
  <2>1. \A g \in {main, canon} : Branch(p, g) \in Tree /\ Rooted(Branch(p, g).head)
    BY CleanIsCommit DEF Branch, Tree
  <2>2. /\ tree' \in [Project -> Tree]
        /\ \A q \in Project : pc[q] \in Branched \/ q = p => Rooted(tree'[q].head)
        /\ \A q \in Project : tree'[q].head = <<>> \/ Rooted(tree'[q].head)
    <3>1. /\ tree \in [Project -> Tree] /\ pc[p] \notin Branched
          /\ \A q \in Project : pc[q] \in Branched => Rooted(tree[q].head)
          /\ \A q \in Project : tree[q].head = <<>> \/ Rooted(tree[q].head)
      BY <1>15 DEF Worktree
    <3> HIDE DEF Rooted, TypeInv, TypeOK, Branched, Tree
    <3>2. CASE UNCHANGED tree /\ tree[p].head # <<>>
      BY <3>1, <3>2
    <3>3. CASE \E g \in {main, canon} : tree' = [tree EXCEPT ![p] = Branch(p, g)]
      <4>1. PICK u \in Tree : tree' = [tree EXCEPT ![p] = u] /\ Rooted(u.head)
        BY <2>1, <3>3
      <4> QED BY <3>1, <4>1
    <3> QED BY <1>15, <3>2, <3>3 DEF Worktree
  <2> QED BY <1>15, <2>2 DEF Worktree
<1>16. ASSUME NEW p \in Project, Implement(p) PROVE TypeInv'
  <2>1. PICK i \in todo[p], near \in BOOLEAN :
          \E u \in {Add(tree[p], i, near), Committed(Add(tree[p], i, near))} :
             /\ tree' = [tree EXCEPT ![p] = u]
             /\ ledger' = ledger \/ ledger' = [ledger EXCEPT ![p] = MarkDone(ledger[p], i)]
    BY <1>16 DEF Implement
  <2>2. i \in Item /\ tree[p] \in Tree /\ Rooted(tree[p].head) /\ pc[p] = "implement"
    BY <1>16 DEF Implement
  <2>3. Add(tree[p], i, near) \in Tree /\ Add(tree[p], i, near).head = tree[p].head
    BY <2>2 DEF Add, Tree, Commit
  <2>4. \A t \in Tree : Committed(t) \in Tree /\ Committed(t).head = WithDirty(t)
    BY WithDirtyIs, CleanIsCommit DEF Committed, Tree, Commit
  <2> HIDE DEF Tree
  <2>5. Committed(Add(tree[p], i, near)) \in Tree /\ Rooted(Committed(Add(tree[p], i, near)).head)
    BY <2>2, <2>3, <2>4, WithDirtyIs
  <2>6. /\ tree' \in [Project -> Tree]
        /\ \A q \in Project : pc[q] \in Branched => Rooted(tree'[q].head)
        /\ \A q \in Project : tree'[q].head = <<>> \/ Rooted(tree'[q].head)
    <3>1. \A u \in {Add(tree[p], i, near), Committed(Add(tree[p], i, near))} :
             u \in Tree /\ Rooted(u.head)
      BY <2>2, <2>3, <2>5
    <3> HIDE DEF Rooted
    <3> QED BY <2>1, <3>1
  <2>7. ledger' \in [Project -> Ledger \cup {NoLedger}] /\ \A q \in Project : pc[q] \in Releasing => ledger'[q] \in Ledger
    <3>1. ledger[p] \in Ledger
      BY <2>2
    <3>2. MarkDone(ledger[p], i) \in Ledger
      BY <2>2, <3>1, LedgerTypes
    <3>3. /\ ledger \in [Project -> Ledger \cup {NoLedger}]
          /\ \A q \in Project : pc[q] \in Releasing => ledger[q] \in Ledger
      OBVIOUS
    <3> HIDE DEF TypeInv, TypeOK, Releasing
    <3> QED BY <2>1, <3>1, <3>2, <3>3
  <2> QED BY <1>16, <2>6, <2>7 DEF Implement
<1>17. ASSUME NEW p \in Project, Bump(p) PROVE TypeInv'
  <2>1. PICK b \in 0 .. MaxVersion : tree' = [tree EXCEPT ![p].dirty.bump = b]
    <3>1. plan[p].candidate \in 0 .. MaxVersion /\ 0 \in 0 .. MaxVersion
      OBVIOUS
    <3> QED BY <1>17, <3>1 DEF Bump
  <2>2. tree[p] \in Tree
    OBVIOUS
  <2>3. tree' \in [Project -> Tree] /\ \A q \in Project : tree'[q].head = tree[q].head
    BY <2>1, <2>2 DEF Tree, Commit
  <2> QED BY <1>17, <2>3 DEF Bump
<1>18. ASSUME NEW p \in Project, Gate(p) PROVE TypeInv'
  BY <1>18 DEF Gate
<1>19. ASSUME NEW p \in Project, GateFails(p) PROVE TypeInv'
  BY <1>19 DEF GateFails
<1>20. ASSUME NEW p \in Project, Tag(p) PROVE TypeInv'
  <2>1. WithDirty(tree[p]) \in Seq(Commit) /\ Rooted(WithDirty(tree[p]))
    BY <1>20, WithDirtyIs DEF Tag
  <2>2. Committed(tree[p]) \in Tree /\ Committed(tree[p]).head = WithDirty(tree[p])
    <3>1. tree[p] \in Tree /\ tree[p].dirty.by \in Actor
      BY DEF Tree, Commit
    <3> QED BY <2>1, <3>1, CleanIsCommit DEF Committed, Tree
  <2>3. tags' \in [Version -> Seq(Commit)] /\ tags'[1] # <<>>
    <3>1. WithDirty(tree[p]) # <<>>
      BY <2>1 DEF Rooted
    <3>2. tags' = tags \/ tags' = [tags EXCEPT ![plan[p].candidate] = WithDirty(tree[p])]
      BY <1>20 DEF Tag
    <3>3. 1 \in Version
      BY DEF Version
    <3>4. tags \in [Version -> Seq(Commit)] /\ tags[1] # <<>>
      OBVIOUS
    <3> HIDE DEF TypeInv, TypeOK
    <3> QED BY <2>1, <3>1, <3>2, <3>3, <3>4
  <2> QED BY <1>20, <2>1, <2>2, <2>3 DEF Tag
<1>21. ASSUME NEW p \in Project, PushMain(p) PROVE TypeInv'
  <2>1. main' \in {main, tree[p].head} /\ Rooted(tree[p].head) /\ tree[p].head \in Seq(Commit)
    BY <1>21 DEF PushMain, Tree
  <2> QED BY <1>21, <2>1 DEF PushMain
<1>22. ASSUME NEW p \in Project, PushTag(p) PROVE TypeInv'
  <2>1. plan[p].candidate \in Version
    BY <1>22 DEF PushTag
  <2> QED BY <1>22, <2>1 DEF PushTag
<1>23. ASSUME NEW p \in Project, Record(p) PROVE TypeInv'
  <2>1. SetKey(ledger[p], "skill_release") \in Ledger
    BY <1>23, FlagsAre, LedgerTypes DEF Record
  <2> QED BY <1>23, <2>1 DEF Record
<1>24. ASSUME NEW p \in Project, DieSaving(p) PROVE TypeInv'
  <2>1. Stop(p) /\ Fresh \in Ledger
    BY <1>24 DEF DieSaving, Dies, Fresh, Ledger
  <2>2. /\ UNCHANGED <<skill, holder, fleetVars, evidence, overrun>> /\ torn' = TRUE
        /\ faults' \in 0 .. MaxFaults /\ ledger' = [ledger EXCEPT ![p] = Fresh]
    BY <1>24 DEF DieSaving, Dies, Fault
  <2> QED BY ZenonT(60), <2>1, <2>2, StopTypes
<1>25. ASSUME Revert PROVE TypeInv'
  <2>1. PICK c \in Commit : canon' \in {canon, Append(canon, c)}
    BY <1>25, RevertIsCommit
  <2>2. canon' \in Seq(Commit) /\ Rooted(canon')
    <3>1. canon \in Seq(Commit) /\ Rooted(canon)
      OBVIOUS
    <3>2. Append(canon, c) \in Seq(Commit) /\ Rooted(Append(canon, c))
      BY <3>1 DEF Rooted
    <3> HIDE DEF Rooted
    <3> QED BY <2>1, <3>1, <3>2
  <2> QED BY <1>25, <2>2 DEF Revert
<1>26. ASSUME PushRevert PROVE TypeInv'
  BY <1>26 DEF PushRevert
<1>27. ASSUME Pull PROVE TypeInv'
  BY <1>27 DEF Pull
<1>28. ASSUME UNCHANGED vars PROVE TypeInv'
  BY <1>28 DEF vars
<1>29. ASSUME NEW p \in Project, RunBacktest(p) PROVE TypeInv'
  <2>1. Replay(p) \in Report
    <3>1. plan[p].baseline \in 0 .. MaxVersion
      OBVIOUS
    <3> QED BY <3>1 DEF Replay, Backtest, Report
  <2>2. report' \in [Project -> Report] /\ backtested' \in SUBSET RuleItem
    BY <1>29, <2>1 DEF RunBacktest
  <2> QED BY <1>29, <2>2 DEF RunBacktest
<1> QED
  BY <1>1, <1>2, <1>3, <1>4, <1>5, <1>6, <1>7, <1>8, <1>9, <1>10, <1>11, <1>12, <1>13, <1>14, <1>15,
     <1>16, <1>17, <1>18, <1>19, <1>20, <1>21, <1>22, <1>23, <1>24, <1>25, <1>26, <1>27, <1>28, <1>29
     DEF Next, Turn, Stage4

-----------------------------------------------------------------------------
(* SKILL.lock                                                              *)

\* Nothing is held, nothing is lost, before the first init.
LEMMA LeaseInit == Init => LeaseInv
BY ReleaseAssumption DEF Init, LeaseInv, Locked

\* A step keeps the fleet's lease, and what its holder has read.
LEMMA LeaseNext == TypeInv /\ LeaseInv /\ [Next]_vars => LeaseInv'
<1> SUFFICES ASSUME TypeInv, LeaseInv, [Next]_vars PROVE LeaseInv'
  OBVIOUS
<1> USE ReleaseAssumption, GateAssumption
    DEF LeaseInv, TypeInv, TypeOK, At, Goto, Position, Locked, skill, turnVars, fleetVars, evidence, excuses, bounds
<1>1. ASSUME NEW a \in Actor, Acquire(a) PROVE LeaseInv'
  BY <1>1 DEF Acquire, Begin, MayStart, HolderLives
<1>2. ASSUME NEW a \in Actor, Overrun(a) PROVE LeaseInv'
  BY <1>2 DEF Overrun, Begin, MayStart, Fault
<1>3. ASSUME NEW a \in Actor, LoseLock(a) PROVE LeaseInv'
  <2>1. Stop(a)
    BY <1>3 DEF LoseLock
  <2> QED BY <1>3, <2>1, StopTypes DEF LoseLock
<1>4. ASSUME NEW a \in Actor, Release(a) PROVE LeaseInv'
  <2>1. pc'[a] \in {"new", "idle"} /\ \A b \in Actor \ {a} : pc'[b] = pc[b]
    <3>1. Stop(a)
      BY <1>4 DEF Release
    <3> QED BY <3>1, StopTypes
  <2>2. /\ UNCHANGED <<fleet, read, enrolled, overrun>>
        /\ holder' = IF holder = a THEN NoActor ELSE holder
    BY <1>4 DEF Release
  <2> QED BY <2>1, <2>2
<1>5. ASSUME NEW a \in Actor, PushFails(a) PROVE LeaseInv'
  BY <1>5 DEF PushFails, Fault
<1>6. ASSUME NEW a \in Actor, Die(a) PROVE LeaseInv'
  <2>1. Stop(a)
    BY <1>6 DEF Die, Dies
  <2> QED BY <1>6, <2>1, StopTypes, ZenonT(60) DEF Die, Dies, Fault
<1>7. ASSUME NEW p \in Project, Seed(p) PROVE LeaseInv'
  BY <1>7 DEF Seed
<1>8. ASSUME NEW p \in Project, SeedFails(p) PROVE LeaseInv'
  BY <1>8 DEF SeedFails
<1>9. ASSUME NEW p \in Project, FleetRead(p) PROVE LeaseInv'
  BY <1>9 DEF FleetRead
<1>10. ASSUME NEW p \in Project, FleetReplace(p) PROVE LeaseInv'
  BY <1>10 DEF FleetReplace
<1>11. ASSUME NEW p \in Project, Open(p) PROVE LeaseInv'
  BY <1>11 DEF Open
<1>12. ASSUME NEW p \in Project, Advance(p) PROVE LeaseInv'
  BY <1>12 DEF Advance
<1>13. ASSUME NEW p \in Project, ReleasePlan(p) PROVE LeaseInv'
  BY <1>13 DEF ReleasePlan
<1>14. ASSUME NEW p \in Project, Dedup(p) PROVE LeaseInv'
  BY <1>14 DEF Dedup
<1>15. ASSUME NEW p \in Project, Worktree(p) PROVE LeaseInv'
  BY <1>15 DEF Worktree
<1>16. ASSUME NEW p \in Project, Implement(p) PROVE LeaseInv'
  BY <1>16 DEF Implement
<1>17. ASSUME NEW p \in Project, Bump(p) PROVE LeaseInv'
  BY <1>17 DEF Bump
<1>18. ASSUME NEW p \in Project, Gate(p) PROVE LeaseInv'
  BY <1>18 DEF Gate
<1>19. ASSUME NEW p \in Project, GateFails(p) PROVE LeaseInv'
  BY <1>19 DEF GateFails
<1>20. ASSUME NEW p \in Project, Tag(p) PROVE LeaseInv'
  BY <1>20 DEF Tag
<1>21. ASSUME NEW p \in Project, PushMain(p) PROVE LeaseInv'
  BY <1>21 DEF PushMain
<1>22. ASSUME NEW p \in Project, PushTag(p) PROVE LeaseInv'
  BY <1>22 DEF PushTag
<1>23. ASSUME NEW p \in Project, Record(p) PROVE LeaseInv'
  BY <1>23 DEF Record
<1>24. ASSUME NEW p \in Project, DieSaving(p) PROVE LeaseInv'
  <2>1. Stop(p)
    BY <1>24 DEF DieSaving, Dies
  <2> QED BY <1>24, <2>1, StopTypes, ZenonT(60) DEF DieSaving, Dies, Fault
<1>25. ASSUME Revert PROVE LeaseInv'
  BY <1>25 DEF Revert
<1>26. ASSUME PushRevert PROVE LeaseInv'
  BY <1>26 DEF PushRevert
<1>27. ASSUME Pull PROVE LeaseInv'
  BY <1>27 DEF Pull
<1>28. ASSUME UNCHANGED vars PROVE LeaseInv'
  BY <1>28 DEF vars
<1>29. ASSUME NEW p \in Project, RunBacktest(p) PROVE LeaseInv'
  BY <1>29 DEF RunBacktest
<1> QED
  BY <1>1, <1>2, <1>3, <1>4, <1>5, <1>6, <1>7, <1>8, <1>9, <1>10, <1>11, <1>12, <1>13, <1>14, <1>15,
     <1>16, <1>17, <1>18, <1>19, <1>20, <1>21, <1>22, <1>23, <1>24, <1>25, <1>26, <1>27, <1>28, <1>29
     DEF Next, Turn, Stage4

-----------------------------------------------------------------------------
(* Tags                                                                    *)

\* A commit on top of a history decides the version in skill.yaml if it
\* bumps it, and leaves it if not.
LEMMA BumpedAppend ==
    ASSUME NEW h \in Seq(Commit), Rooted(h), NEW c \in Commit
    PROVE  Bumped(Append(h, c)) = IF c.bump = 0 THEN Bumped(h) ELSE c.bump
<1> DEFINE g == Append(h, c)
           old == {k \in DOMAIN h : h[k].bump # 0}
           new == {k \in DOMAIN g : g[k].bump # 0}
<1>1. /\ Len(h) \in Nat /\ DOMAIN h = 1 .. Len(h) /\ DOMAIN g = 1 .. Len(h) + 1
      /\ g[Len(h) + 1] = c /\ \A k \in 1 .. Len(h) : g[k] = h[k]
  OBVIOUS
<1>2. /\ Bumped(h) = h[CHOOSE k \in old : \A j \in old : j =< k].bump
      /\ Bumped(g) = g[CHOOSE k \in new : \A j \in new : j =< k].bump
  BY DEF Bumped
<1> HIDE DEF g
<1>3. CASE c.bump = 0
  <2>1. new = old /\ old \in SUBSET (0 .. Len(h)) /\ 1 \in old
    BY <1>1, <1>3 DEF Rooted, Root
  <2>2. \E k \in old : \A j \in old : j =< k
    <3> HIDE DEF old, new
    <3> QED BY <1>1, <2>1, GreatestExists
  <2>3. (CHOOSE k \in old : \A j \in old : j =< k) \in 1 .. Len(h)
    BY <1>1, <2>2
  <2> HIDE DEF old, new
  <2> QED BY <1>1, <1>2, <1>3, <2>1, <2>3 DEF g
<1>4. CASE c.bump # 0
  <2>1. Len(h) + 1 \in new /\ \A j \in new : j \in Nat /\ j =< Len(h) + 1
    BY <1>1, <1>4
  <2> HIDE DEF old, new
  <2>2. (CHOOSE k \in new : \A j \in new : j =< k) = Len(h) + 1
    BY <1>1, <2>1
  <2> QED BY <1>1, <1>2, <1>4, <2>2 DEF g
<1> QED BY <1>3, <1>4

\* What is at its gates says it is the candidate: Bump made it so.
LEMMA BumpedByBump ==
    ASSUME TypeInv, NEW p \in Project, Bump(p)
    PROVE  Bumped(WithDirty(tree'[p])) = plan[p].candidate
<1> DEFINE t == tree[p]
           b == IF Bumped(t.head) = plan[p].candidate THEN 0 ELSE plan[p].candidate
<1>1. /\ t \in Tree /\ Rooted(t.head) /\ plan[p].candidate \in Version
      /\ tree'[p] = [t EXCEPT !.dirty.bump = b]
  BY DEF TypeInv, TypeOK, Bump, At, Branched, Planned
<1>2. b \in 0 .. MaxVersion /\ plan[p].candidate # 0 /\ t.head \in Seq(Commit) /\ t.dirty \in Commit
  BY <1>1, GateAssumption DEF Version, Tree
<1> HIDE DEF t, b
<1>3. /\ tree'[p].head = t.head /\ tree'[p].dirty \in Commit /\ tree'[p].dirty.bump = b
  BY <1>1, <1>2 DEF Tree, Commit
<1>4. WithDirty(tree'[p]) \in {t.head, Append(t.head, tree'[p].dirty)}
      /\ (b # 0 => WithDirty(tree'[p]) = Append(t.head, tree'[p].dirty))
  BY <1>3 DEF WithDirty
<1>5. Bumped(Append(t.head, tree'[p].dirty)) = IF b = 0 THEN Bumped(t.head) ELSE b
  BY <1>1, <1>2, <1>3, BumpedAppend
<1>6. CASE b = 0
  BY <1>2, <1>4, <1>5, <1>6 DEF b
<1>7. CASE b # 0
  BY <1>4, <1>5, <1>7 DEF b
<1> QED BY <1>6, <1>7

\* A fixture or a revert on top of a history needs no tag.
LEMMA CoveredAppend ==
    ASSUME NEW ts \in [Version -> Seq(Commit)], NEW h \in Seq(Commit), NEW c \in Commit,
           Covered(ts, h), c.by \in Project => c.adds = {} /\ c.bump = 0
    PROVE  Covered(ts, Append(h, c))
<1> DEFINE g == Append(h, c)
<1>1. /\ DOMAIN g = 1 .. Len(h) + 1 /\ DOMAIN h = 1 .. Len(h) /\ Len(g) = Len(h) + 1
      /\ g[Len(h) + 1] = c /\ \A k \in 1 .. Len(h) : g[k] = h[k]
  OBVIOUS
<1>2. \A v \in Version : Ancestor(ts[v], h) => Ancestor(ts[v], g)
  BY <1>1 DEF Ancestor
<1> HIDE DEF g
<1>3. ASSUME NEW k \in DOMAIN g, g[k].by \in Project, g[k].adds # {} \/ g[k].bump # 0
      PROVE  \E v \in Version : k =< Len(ts[v]) /\ Ancestor(ts[v], g) /\ Bumped(ts[v]) = v
  <2>1. k \in DOMAIN h /\ g[k] = h[k]
    BY <1>1, <1>3
  <2> QED BY <1>2, <1>3, <2>1 DEF Covered
<1> QED BY <1>3 DEF Covered, g

\* New tags do not disturb the old ones.
LEMMA CoveredMore ==
    ASSUME NEW ts \in [Version -> Seq(Commit)], NEW us \in [Version -> Seq(Commit)],
           NEW h \in Seq(Commit), Covered(ts, h),
           \A v \in Version : ts[v] # <<>> => us[v] = ts[v]
    PROVE  Covered(us, h)
<1>1. ASSUME NEW k \in DOMAIN h, NEW v \in Version, k =< Len(ts[v]) PROVE us[v] = ts[v]
  <2>1. k > 0 /\ ts[v] \in Seq(Commit)
    OBVIOUS
  <2> QED BY <1>1, <2>1
<1> QED BY <1>1 DEF Covered

\* What is tagged as the version it says it is.
LEMMA CoveredByTag ==
    ASSUME NEW ts \in [Version -> Seq(Commit)], NEW v \in Version,
           Bumped(ts[v]) = v
    PROVE  Covered(ts, ts[v])
<1>1. \A k \in DOMAIN ts[v] : k =< Len(ts[v])
  OBVIOUS
<1>2. Ancestor(ts[v], ts[v])
  BY AncestorReflexive
<1> QED BY <1>1, <1>2 DEF Covered

\* The first release is tagged and on main.
LEMMA TagInit == Init => TagInv
<1> SUFFICES ASSUME Init PROVE TagInv
  OBVIOUS
<1> USE ReleaseAssumption, GateAssumption DEF Init
<1>1. Root \in Commit /\ Root.by \notin Project
  BY DEF Root, Commit
<1>2. main \in Seq(Commit) /\ Len(main) = 1 /\ main[1] = Root /\ canon = main
  BY <1>1
<1>3. Covered(tags, main) /\ Covered(tags, canon)
  BY <1>1, <1>2 DEF Covered
<1>4. TagsAreOnMain
  <2>1. tags[1] = main /\ main # <<>>
    BY <1>2 DEF Version
  <2> QED BY <1>2, <2>1, AncestorReflexive DEF TagsAreOnMain
<1>5. \A p \in Project : pc[p] \in {"new", "idle"}
  OBVIOUS
<1> QED BY <1>3, <1>4, <1>5 DEF TagInv, TagAt

\* A step keeps every history's tags.
LEMMA TagNext == TypeInv /\ TagInv /\ [Next]_vars => TagInv'
<1> SUFFICES ASSUME TypeInv, TypeInv', TagInv, [Next]_vars PROVE TagInv'
  BY TypeNext
<1> USE ReleaseAssumption DEF At, Goto, skill, turnVars, fleetVars, evidence, bounds
<1>1. /\ main \in Seq(Commit) /\ canon \in Seq(Commit) /\ tags \in [Version -> Seq(Commit)]
      /\ tags' \in [Version -> Seq(Commit)]
      /\ published \in SUBSET Version /\ TagsAreOnMain
      /\ Covered(tags, main) /\ Covered(tags, canon)
      /\ pc \in [Actor -> Position] /\ tree \in [Project -> Tree]
      /\ \A p \in Project : pc[p] \in Planned => plan[p].candidate \in Version
      /\ \A p \in Project : TagAt(p)
  BY DEF TypeInv, TypeOK, TagInv
\* a step that moves no ref
<1>2. ASSUME UNCHANGED <<main, tags, published>>, Covered(tags, canon'),
             \A p \in Project :
                 \/ pc'[p] \notin {"gate", "tag", "pushMain", "pushTag"}
                 \/ /\ plan'[p] = plan[p] /\ tree'[p] = tree[p]
                    /\ pc'[p] = pc[p] \/ (pc[p] = "gate" /\ pc'[p] = "tag")
                 \/ TagAt(p)'
      PROVE  TagInv'
  <2>1. ASSUME NEW p \in Project PROVE TagAt(p)'
    <3>1. WithDirty(tree[p])' = WithDirty(tree'[p])
      OBVIOUS
    <3>2. CASE pc'[p] \notin {"gate", "tag", "pushMain", "pushTag"}
      BY <3>2 DEF TagAt
    <3>3. CASE /\ plan'[p] = plan[p] /\ tree'[p] = tree[p]
               /\ pc'[p] = pc[p] \/ (pc[p] = "gate" /\ pc'[p] = "tag")
      BY <1>1, <1>2, <3>1, <3>3 DEF TagAt
    <3> QED BY <1>2, <3>2, <3>3
  <2> QED BY <1>1, <1>2, <2>1 DEF TagInv, TagsAreOnMain
<1>3. ASSUME NEW a \in Actor, Acquire(a) \/ Overrun(a) PROVE TagInv'
  BY <1>1, <1>2, <1>3 DEF Acquire, Overrun, Begin
<1>4. ASSUME NEW a \in Actor, Stop(a), UNCHANGED <<main, canon, tags, published>> PROVE TagInv'
  BY <1>1, <1>2, <1>4, StopTypes
<1>5. ASSUME NEW a \in Actor, LoseLock(a) \/ Release(a) \/ Die(a) PROVE TagInv'
  BY <1>4, <1>5 DEF LoseLock, Release, Die, Dies
<1>6. ASSUME NEW p \in Project, DieSaving(p) PROVE TagInv'
  BY <1>4, <1>6 DEF DieSaving, Dies
<1>7. ASSUME NEW a \in Actor, PushFails(a) PROVE TagInv'
  BY <1>1, <1>2, <1>7 DEF PushFails
<1>8. ASSUME NEW p \in Project,
             \/ SeedFails(p) \/ FleetRead(p) \/ FleetReplace(p) \/ Open(p) \/ Advance(p)
             \/ Dedup(p) \/ RunBacktest(p) \/ Gate(p) \/ GateFails(p) \/ Record(p)
      PROVE  TagInv'
  BY <1>1, <1>2, <1>8 DEF SeedFails, FleetRead, FleetReplace, Open, Advance, Dedup,
     RunBacktest, Gate, GateFails, Record
<1>9. ASSUME NEW p \in Project, ReleasePlan(p) \/ Worktree(p) \/ Implement(p) PROVE TagInv'
  <2>1. /\ UNCHANGED <<main, canon, tags, published>> /\ pc'[p] \in {"dedup", "implement"}
        /\ \A q \in Project \ {p} : pc'[q] = pc[q] /\ plan'[q] = plan[q] /\ tree'[q] = tree[q]
    BY <1>1, <1>9 DEF ReleasePlan, Worktree, Implement, TypeInv, TypeOK
  <2> QED BY <1>1, <1>2, <2>1
<1>10. ASSUME NEW p \in Project, Bump(p) PROVE TagInv'
  <2>1. /\ UNCHANGED <<main, canon, tags, published, plan>> /\ pc'[p] = "gate"
        /\ \A q \in Project \ {p} : pc'[q] = pc[q] /\ tree'[q] = tree[q]
    BY <1>1, <1>10 DEF Bump
  <2>2. TagAt(p)'
    BY <1>10, <2>1, BumpedByBump DEF TagAt
  <2> QED BY <1>1, <1>2, <2>1, <2>2
<1>11. ASSUME NEW p \in Project, Seed(p) PROVE TagInv'
  <2> DEFINE c == [Clean(p) EXCEPT !.fixture = TRUE]
  <2>1. c \in Commit /\ c.adds = {} /\ c.bump = 0
    BY CleanIsCommit, CommitTypes DEF Clean
  <2>2. /\ canon' = Append(canon, c) /\ UNCHANGED <<main, tags, published, plan, tree>>
        /\ pc'[p] = "fleetRead" /\ \A q \in Project \ {p} : pc'[q] = pc[q]
    BY <1>1, <1>11 DEF Seed
  <2> HIDE DEF c
  <2>3. Covered(tags, canon')
    BY <1>1, <2>1, <2>2, CoveredAppend
  <2> QED BY <1>1, <1>2, <2>2, <2>3
<1>12. ASSUME Revert PROVE TagInv'
  <2>1. UNCHANGED <<main, tags, published, plan, tree>> /\ \A q \in Project : pc'[q] = pc[q]
    BY <1>1, <1>12 DEF Revert
  <2>2. PICK c \in Commit : c.by \notin Project /\ canon' \in {canon, Append(canon, c)}
    BY <1>12, RevertIsCommit
  <2>3. Covered(tags, canon')
    <3>1. Covered(tags, Append(canon, c))
      BY <1>1, <2>2, CoveredAppend
    <3> QED BY <1>1, <2>2, <3>1
  <2> QED BY <1>1, <1>2, <2>1, <2>3
<1>13. ASSUME Pull \/ UNCHANGED vars PROVE TagInv'
  <2>1. UNCHANGED <<main, tags, published, plan, tree, pc>> /\ canon' \in {main, canon}
    BY <1>13 DEF Pull, vars
  <2> QED BY <1>1, <1>2, <2>1
\* main moves forward
<1>14. ASSUME NEW h \in Seq(Commit), main' = h, Ancestor(main, h), Covered(tags, h),
              UNCHANGED <<canon, tags, published, plan, tree>>,
              \A p \in Project :
                 \/ pc'[p] = pc[p]
                 \/ pc[p] = "pushMain" /\ pc'[p] = "pushTag" /\ h = tree[p].head
       PROVE  TagInv'
  <2>1. \A v \in Version : Ancestor(tags[v], main) => Ancestor(tags[v], h)
    BY <1>1, <1>14, AncestorTransitive
  <2>2. ASSUME NEW p \in Project PROVE TagAt(p)'
    <3>1. pc[p] \in {"pushMain", "pushTag"} => plan[p].candidate \in Version
      BY <1>1 DEF Planned, Branched
    <3>2. CASE pc'[p] = pc[p]
      BY <1>1, <1>14, <2>1, <3>1, <3>2 DEF TagAt
    <3>3. CASE pc[p] = "pushMain" /\ pc'[p] = "pushTag" /\ h = tree[p].head
      <4>1. tags[plan[p].candidate] = h /\ h # <<>>
        BY <1>1, <3>3 DEF TagAt, TypeInv, Branched, Rooted
      <4> QED BY <1>14, <3>3, <4>1, AncestorReflexive DEF TagAt
    <3> QED BY <1>14, <3>2, <3>3
  <2> QED BY <1>1, <1>14, <2>1, <2>2 DEF TagInv, TagsAreOnMain
<1>15. ASSUME NEW p \in Project, PushMain(p) PROVE TagInv'
  <2>1. CASE ~Ancestor(main, tree[p].head)
    BY <1>1, <1>2, <1>15, <2>1 DEF PushMain
  <2>2. CASE Ancestor(main, tree[p].head)
    <3>1. /\ main' = tree[p].head /\ UNCHANGED <<canon, tags, published, plan, tree>>
          /\ pc[p] = "pushMain" /\ pc'[p] = "pushTag" /\ \A q \in Project \ {p} : pc'[q] = pc[q]
      BY <1>1, <1>15, <2>2 DEF PushMain
    <3>2. plan[p].candidate \in Version /\ tree[p].head \in Seq(Commit)
      BY <1>1, <3>1 DEF Planned, Branched, Tree
    <3>3. Covered(tags, tree[p].head)
      <4> DEFINE v == plan[p].candidate
      <4>1. tags[v] = tree[p].head /\ Bumped(tags[v]) = v /\ v \in Version
        BY <1>1, <3>1, <3>2 DEF TagAt
      <4> HIDE DEF v
      <4>2. Covered(tags, tags[v])
        BY <1>1, <4>1, CoveredByTag
      <4> QED BY <4>1, <4>2
    <3> QED BY <1>14, <2>2, <3>1, <3>2, <3>3
  <2> QED BY <2>1, <2>2
<1>16. ASSUME PushRevert PROVE TagInv'
  <2>1. UNCHANGED <<canon, tags, published, plan, tree>> /\ \A q \in Project : pc'[q] = pc[q]
    BY <1>1, <1>16 DEF PushRevert
  <2>2. CASE Ancestor(main, canon)
    BY <1>1, <1>14, <1>16, <2>1, <2>2 DEF PushRevert
  <2>3. CASE ~Ancestor(main, canon)
    BY <1>1, <1>2, <1>16, <2>1, <2>3 DEF PushRevert
  <2> QED BY <2>2, <2>3
<1>17. ASSUME NEW p \in Project, PushTag(p) PROVE TagInv'
  <2>1. /\ UNCHANGED <<main, canon, tags, plan, tree>> /\ published' = published \cup {plan[p].candidate}
        /\ pc[p] = "pushTag" /\ pc'[p] = "record" /\ \A q \in Project \ {p} : pc'[q] = pc[q]
    BY <1>1, <1>17 DEF PushTag
  <2>2. ASSUME NEW q \in Project PROVE TagAt(q)'
    BY <1>1, <2>1 DEF TagAt
  <2> QED BY <1>1, <2>1, <2>2 DEF TagInv, TagAt, TagsAreOnMain
<1>18. ASSUME NEW p \in Project, Tag(p) PROVE TagInv'
  <2> DEFINE v == plan[p].candidate
             g == WithDirty(tree[p])
  <2>1. /\ UNCHANGED <<main, canon, published, plan>> /\ pc[p] = "tag" /\ v \in Version
        /\ tree'[p].head = g /\ g \in Seq(Commit) /\ g # <<>> /\ Bumped(g) = v
        /\ \A q \in Project \ {p} : pc'[q] = pc[q] /\ tree'[q] = tree[q]
        /\ \/ pc'[p] = "release" /\ tags' = tags
           \/ pc'[p] = "pushMain" /\ tags[v] = <<>> /\ tags' = [tags EXCEPT ![v] = g]
    <3>1. pc[p] = "tag" /\ v \in Version /\ tree[p] \in Tree /\ Rooted(tree[p].head)
      BY <1>1, <1>18 DEF Tag, Planned, Branched, TypeInv
    <3>2. g \in Seq(Commit) /\ g # <<>>
      BY <3>1, WithDirtyIs DEF Rooted
    <3>3. Bumped(g) = v
      BY <1>1, <3>1 DEF TagAt
    <3> HIDE DEF g
    <3> QED BY <1>1, <1>18, <3>1, <3>2, <3>3 DEF Tag, Committed, Tree, g
  <2> HIDE DEF g
  <2>2. CASE tags' = tags /\ pc'[p] = "release"
    BY <1>1, <1>2, <2>1, <2>2
  <2>3. CASE pc'[p] = "pushMain" /\ tags[v] = <<>> /\ tags' = [tags EXCEPT ![v] = g]
    <3>1. tags'[v] = g /\ \A w \in Version : tags[w] # <<>> => tags'[w] = tags[w]
      BY <1>1, <2>1, <2>3
    <3>2. Covered(tags', main') /\ Covered(tags', canon')
      BY <1>1, <2>1, <3>1, CoveredMore
    <3>3. TagsAreOnMain'
      BY <1>1, <2>1, <3>1 DEF TagsAreOnMain
    <3>4. ASSUME NEW q \in Project PROVE TagAt(q)'
      <4>1. CASE q = p
        BY <2>1, <2>3, <3>1, <4>1 DEF TagAt
      <4>2. CASE q # p
        <5>1. /\ pc'[q] = pc[q] /\ tree'[q] = tree[q] /\ UNCHANGED <<main, plan>>
              /\ WithDirty(tree[q])' = WithDirty(tree[q])
          BY <2>1, <4>2
        <5>2. pc[q] = "pushMain" => tree[q].head # <<>>
          BY DEF TypeInv, Branched, Rooted
        <5>3. pc[q] \in {"pushMain", "pushTag"} =>
                 tags[plan[q].candidate] # <<>> /\ tags'[plan[q].candidate] = tags[plan[q].candidate]
          BY <1>1, <3>1, <5>2 DEF TagAt, Planned, Branched
        <5> QED BY <1>1, <5>1, <5>3 DEF TagAt
      <4> QED BY <4>1, <4>2
    <3> QED BY <3>2, <3>3, <3>4 DEF TagInv
  <2> QED BY <2>1, <2>2, <2>3
<1> QED
  BY <1>3, <1>5, <1>6, <1>7, <1>8, <1>9, <1>10, <1>11, <1>12, <1>13, <1>15, <1>16, <1>17, <1>18
     DEF Next, Turn, Stage4

-----------------------------------------------------------------------------
(* The closure ledger                                                      *)

\* What a history holds, its descendants do.
LEMMA LandedForward ==
    ASSUME NEW g \in Seq(Commit), NEW h \in Seq(Commit), Ancestor(g, h), NEW i, Landed(g, i)
    PROVE  Landed(h, i)
BY DEF Landed, Ancestor

\* closure.py next offers to close only what has had its release.
LEMMA CloseIsLast ==
    ASSUME NEW c, NextStage(c) = "close"
    PROVE  "skill_release" \in c.set
<1> DEFINE unset == {k \in DOMAIN Stages : Stages[k] \notin c.set}
<1>1. DOMAIN Stages = 1 .. 4 /\ \A k \in 1 .. 4 : Stages[k] # "close"
  BY DEF Stages
<1>2. CASE unset = {}
  <2>1. Stages[3] = "skill_release" /\ 3 \in DOMAIN Stages
    BY DEF Stages
  <2> QED BY <1>2, <2>1
<1>3. CASE unset # {}
  <2>1. unset \in SUBSET Nat
    BY <1>1
  <2>2. PICK least \in unset : \A j \in unset : least =< j
    <3> HIDE DEF unset
    <3> QED BY <1>3, <2>1, LeastExists
  <2>3. (CHOOSE k \in unset : \A j \in unset : k =< j) \in unset
    BY <2>2
  <2>4. NextStage(c) = Stages[CHOOSE k \in unset : \A j \in unset : k =< j]
    BY <1>3 DEF NextStage
  <2> QED BY <1>1, <2>3, <2>4
<1> QED BY <1>2, <1>3

\* skill-release-dedup.py plan --write: what it leaves to nobody is on main,
\* done or with a human, and the sentinel says that nothing is left.
LEMMA PlanWriteHandles ==
    ASSUME NEW c \in Ledger, NEW items \in SUBSET Item, NEW covered \in SUBSET Item
    PROVE  LET d == PlanWrite(c, items, covered)
           IN  /\ \A i \in items \ ToImplement(items, c, covered) :
                     i \in covered \/ i \in d.escalated \/ i \in d.done
               /\ c.escalated \subseteq d.escalated /\ c.done \subseteq d.done
               /\ d.set # c.set => d.set = c.set \cup {"skill_release"} /\ ToImplement(items, c, covered) = {}
<1> DEFINE noted == [c EXCEPT
          !.covered = @ \cup (items \cap covered),
          !.escalated = @ \cup ((items \cap NeedsHuman) \ (covered \cup c.done))]
<1>1. noted \in Ledger /\ noted.set = c.set /\ noted.done = c.done
      /\ noted.escalated = c.escalated \cup ((items \cap NeedsHuman) \ (covered \cup c.done))
  BY DEF Ledger
<1>2. \A i \in items \ ToImplement(items, c, covered) :
         i \in covered \/ i \in noted.escalated \/ i \in noted.done
  BY <1>1 DEF ToImplement
<1> HIDE DEF noted
<1>3. CASE ToImplement(items, c, covered) = {}
  <2>1. PlanWrite(c, items, covered) = SetKey(noted, "skill_release")
    BY <1>3 DEF PlanWrite, noted
  <2>2. /\ SetKey(noted, "skill_release").set = c.set \cup {"skill_release"}
        /\ SetKey(noted, "skill_release").escalated = noted.escalated
        /\ SetKey(noted, "skill_release").done = noted.done
    BY <1>1 DEF SetKey, Ledger
  <2> QED BY <1>1, <1>2, <1>3, <2>1, <2>2
<1>4. CASE ToImplement(items, c, covered) # {}
  <2>1. PlanWrite(c, items, covered) = noted
    BY <1>4 DEF PlanWrite, noted
  <2> QED BY <1>1, <1>2, <2>1
<1> QED BY <1>3, <1>4

\* What other turns, pushes and rollbacks do to p's items: nothing.
LEMMA HandledKept ==
    ASSUME TypeInv, HandledInv, main' \in Seq(Commit), Ancestor(main, main'), NEW p \in Project,
           ledger'[p] = ledger[p],
           pc'[p] \in Releases => /\ pc'[p] = pc[p]
                                  /\ todo'[p] = todo[p] /\ tree'[p] = tree[p]
    PROVE  HandledAt(p)'
<1>1. HandledAt(p) /\ main \in Seq(Commit)
  BY DEF HandledInv, TypeInv, TypeOK
<1>2. \A i : Landed(main, i) => Landed(main', i)
  BY <1>1, LandedForward
<1>3. \A i : Handled(p, i) => Handled(p, i)'
  BY <1>2 DEF Handled, Landed
<1>4. ledger'[p] # NoLedger =>
          /\ "closed" \in ledger'[p].set => "skill_release" \in ledger'[p].set
          /\ "skill_release" \in ledger'[p].set => \A i \in Wants[p] : Handled(p, i)'
  BY <1>1, <1>3 DEF HandledAt
<1>5. CASE pc'[p] \notin Releases
  BY <1>4, <1>5 DEF HandledAt, Releases, Branched
<1>6. CASE pc'[p] \in Releases
  <2>1. pc'[p] = pc[p] /\ todo'[p] = todo[p] /\ tree'[p] = tree[p]
    BY <1>6
  <2>2. WithDirty(tree'[p]) = WithDirty(tree[p])
    BY <2>1
  <2> QED BY <1>1, <1>2, <1>3, <1>4, <2>1, <2>2 DEF HandledAt, Landed
<1> QED BY <1>5, <1>6

\* Before the first closure there is nothing to handle.
LEMMA HandledInit == Init => HandledInv
BY ReleaseAssumption DEF Init, HandledInv, HandledAt, Releases, Branched

\* A step of the turn, of another or of the operator leaves no item behind.
LEMMA HandledNext == TypeInv /\ HandledInv /\ [Next]_vars => HandledInv'
<1> SUFFICES ASSUME TypeInv, TypeInv', HandledInv, [Next]_vars PROVE HandledInv'
  BY TypeNext
<1> USE ReleaseAssumption DEF At, Goto, skill, turnVars, fleetVars, evidence, bounds
<1>1. main \in Seq(Commit) /\ main' \in Seq(Commit) /\ canon \in Seq(Commit) /\ Ancestor(main, main)
      /\ pc \in [Actor -> Position]
  BY AncestorReflexive DEF TypeInv, TypeOK
<1>2. ASSUME NEW a \in Actor, Begin(a) PROVE HandledInv'
  <2>1. /\ UNCHANGED <<main, ledger, todo, tree>>
        /\ \A q \in Project : pc'[q] = pc[q] \/ pc'[q] \notin Releases
    BY <1>1, <1>2 DEF Begin, Releases, Branched
  <2> QED BY <1>1, <2>1, HandledKept DEF HandledInv
<1>3. ASSUME NEW a \in Actor, Stop(a), UNCHANGED <<main, ledger>> PROVE HandledInv'
  <2>1. \A q \in Project : pc'[q] \in Releases =>
            pc'[q] = pc[q] /\ todo'[q] = todo[q] /\ tree'[q] = tree[q]
    BY <1>3, StopTypes DEF Releases, Branched
  <2> QED BY <1>1, <1>3, <2>1, HandledKept DEF HandledInv
<1>4. ASSUME NEW a \in Actor, PushFails(a) PROVE HandledInv'
  <2>1. /\ UNCHANGED <<main, ledger, todo, tree>>
        /\ \A q \in Project : pc'[q] = pc[q] \/ pc'[q] \notin Releases
    BY <1>1, <1>4 DEF PushFails, Releases, Branched
  <2> QED BY <1>1, <2>1, HandledKept DEF HandledInv
<1>5. ASSUME NEW p \in Project,
             Seed(p) \/ SeedFails(p) \/ FleetRead(p) \/ FleetReplace(p) \/ ReleasePlan(p)
             \/ RunBacktest(p) \/ GateFails(p)
      PROVE  HandledInv'
  <2>1. /\ UNCHANGED <<main, ledger, todo, tree>>
        /\ \A q \in Project : pc'[q] = pc[q] \/ pc'[q] \notin Releases
    BY <1>1, <1>5 DEF Seed, SeedFails, FleetRead, FleetReplace, ReleasePlan, RunBacktest, GateFails,
       Releases, Branched
  <2> QED BY <1>1, <2>1, HandledKept DEF HandledInv
<1>6. ASSUME Revert \/ Pull \/ UNCHANGED vars PROVE HandledInv'
  <2>1. /\ UNCHANGED <<main, ledger, todo, tree>>
        /\ \A q \in Project : pc'[q] = pc[q]
    BY <1>1, <1>6 DEF Revert, Pull, vars
  <2> QED BY <1>1, <2>1, HandledKept DEF HandledInv
<1>7. ASSUME PushRevert PROVE HandledInv'
  <2>1. /\ UNCHANGED <<ledger, todo, tree>> /\ Ancestor(main, main')
        /\ \A q \in Project : pc'[q] = pc[q]
    BY <1>1, <1>7 DEF PushRevert
  <2> QED BY <1>1, <2>1, HandledKept DEF HandledInv
<1>8. ASSUME NEW p \in Project, HandledAt(p)', Ancestor(main, main'),
             \A q \in Project \ {p} : /\ ledger'[q] = ledger[q] /\ pc'[q] = pc[q]
                                      /\ todo'[q] = todo[q] /\ tree'[q] = tree[q]
      PROVE  HandledInv'
  <2>1. \A q \in Project \ {p} : HandledAt(q)'
    BY <1>1, <1>8, HandledKept
  <2> QED BY <1>8, <2>1 DEF HandledInv
<1>9. ASSUME NEW p \in Project
      PROVE  /\ HandledAt(p) /\ ledger[p] \in Ledger \cup {NoLedger}
             /\ tree[p] \in Tree /\ todo[p] \in SUBSET Item /\ Wants[p] \in SUBSET Item
             /\ pc[p] \in Releasing => ledger[p] \in Ledger
             /\ DOMAIN ledger = Project /\ DOMAIN tree = Project /\ DOMAIN todo = Project /\ DOMAIN pc = Actor
  BY DEF HandledInv, TypeInv, TypeOK
<1>10. ASSUME NEW p \in Project, Open(p) PROVE HandledInv'
  <2>1. /\ UNCHANGED <<main, pc, todo, tree>> /\ ledger'[p] = Fresh /\ pc[p] = "idle"
        /\ \A q \in Project \ {p} : ledger'[q] = ledger[q]
    BY <1>9, <1>10 DEF Open
  <2>2. HandledAt(p)'
    BY <2>1 DEF HandledAt, Fresh, Releases, Branched
  <2> QED BY <1>1, <1>8, <2>1, <2>2
<1>11. ASSUME NEW p \in Project, Advance(p) PROVE HandledInv'
  <2> DEFINE stage == NextStage(ledger[p])
  <2>1. /\ UNCHANGED <<main, pc, todo, tree>> /\ ledger'[p] = After(p, stage) /\ pc[p] = "idle"
        /\ \A q \in Project \ {p} : ledger'[q] = ledger[q]
        /\ ledger[p] \in Ledger /\ ledger[p] # NoLedger
        /\ stage \in {"r1", "r2", "remediation", "close"}
    BY <1>9, <1>11, NextStageIs DEF Advance
  <2>2. stage = "close" => "skill_release" \in ledger[p].set
    BY CloseIsLast
  <2>3. /\ ledger'[p].done = ledger[p].done /\ ledger[p].escalated \subseteq ledger'[p].escalated
        /\ ledger'[p].set = ledger[p].set \cup {IF stage = "close" THEN "closed" ELSE stage}
    <3> HIDE DEF stage
    <3> QED BY <2>1 DEF After, SetKey, Ledger
  <2>4. HandledAt(p)
    BY <1>9
  <2>5. HandledAt(p)'
    <3> HIDE DEF stage
    <3>1. \A i \in Wants[p] : Handled(p, i) => Handled(p, i)'
      BY <2>1, <2>3 DEF Handled, Landed
    <3>2. "skill_release" \in ledger'[p].set => "skill_release" \in ledger[p].set
      BY <2>1, <2>3
    <3>3. "closed" \in ledger'[p].set => "skill_release" \in ledger'[p].set
      BY <2>1, <2>2, <2>3, <2>4 DEF HandledAt
    <3>4. "skill_release" \in ledger'[p].set => \A i \in Wants[p] : Handled(p, i)'
      BY <2>1, <2>4, <3>1, <3>2 DEF HandledAt
    <3> QED BY <2>1, <3>3, <3>4 DEF HandledAt, Releases, Branched
  <2> QED BY <1>1, <1>8, <2>1, <2>5
<1>12. ASSUME NEW p \in Project, Dedup(p) PROVE HandledInv'
  <2> DEFINE covered == Contents(main)
             left == ToImplement(Wants[p], ledger[p], covered)
             d == PlanWrite(ledger[p], Wants[p], covered)
  <2>1. /\ UNCHANGED <<main, tree>> /\ ledger'[p] = d /\ todo'[p] = left
        /\ pc'[p] = (IF left = {} THEN "release" ELSE "worktree")
        /\ \A q \in Project \ {p} : ledger'[q] = ledger[q] /\ todo'[q] = todo[q] /\ pc'[q] = pc[q]
    BY <1>9, <1>12 DEF Dedup
  <2>2. ledger[p] \in Ledger /\ covered \in SUBSET Item /\ Wants[p] \in SUBSET Item
    BY <1>9, <1>12 DEF Dedup, Releasing, Contents
  <2>3. /\ \A i \in Wants[p] \ left : i \in covered \/ i \in d.escalated \/ i \in d.done
        /\ ledger[p].escalated \subseteq d.escalated /\ ledger[p].done \subseteq d.done
        /\ d.set # ledger[p].set => d.set = ledger[p].set \cup {"skill_release"} /\ left = {}
    BY <2>2, PlanWriteHandles
  <2> HIDE DEF left, d
  <2>4. \A i \in Wants[p] \ left : Handled(p, i)'
    BY <2>1, <2>3 DEF Handled, Landed, Contents
  <2>5. HandledAt(p) /\ \A i \in Wants[p] : Handled(p, i) => Handled(p, i)'
    BY <1>9, <2>1, <2>3 DEF Handled, Landed
  <2>6. HandledAt(p)'
    <3>1. ledger[p] # NoLedger
      BY <2>2, MissingAssumption
    <3> QED BY <2>1, <2>3, <2>4, <2>5, <3>1 DEF HandledAt, Releases, Branched
  <2> QED BY <1>1, <1>8, <2>1, <2>6
<1>13. ASSUME NEW p \in Project, Worktree(p) PROVE HandledInv'
  <2>1. /\ UNCHANGED <<main, ledger, todo>> /\ pc[p] = "worktree" /\ pc'[p] = "implement"
        /\ \A q \in Project \ {p} : tree'[q] = tree[q] /\ pc'[q] = pc[q]
    BY <1>9, <1>13 DEF Worktree
  <2>2. HandledAt(p)'
    BY <1>9, <2>1 DEF HandledAt, Handled, Landed, Releases, Branched
  <2> QED BY <1>1, <1>8, <2>1, <2>2
<1>14. ASSUME NEW p \in Project, Implement(p) PROVE HandledInv'
  <2>1. /\ UNCHANGED <<main, todo, pc>> /\ pc[p] = "implement"
        /\ \A q \in Project \ {p} : tree'[q] = tree[q]
        /\ \E i \in Item : ledger' = [ledger EXCEPT ![p] = MarkDone(ledger[p], i)] \/ ledger' = ledger
        /\ ledger[p] \in Ledger
    BY <1>9, <1>14 DEF Implement, Releasing, Branched
  <2>2. /\ ledger'[p].set = ledger[p].set /\ ledger'[p].escalated = ledger[p].escalated
        /\ ledger[p].done \subseteq ledger'[p].done
        /\ \A q \in Project \ {p} : ledger'[q] = ledger[q]
    BY <1>9, <2>1 DEF MarkDone, Ledger
  <2>3. \A i \in Wants[p] : Handled(p, i) => Handled(p, i)'
    BY <2>1, <2>2 DEF Handled, Landed
  <2>4. HandledAt(p)'
    BY <1>9, <2>1, <2>2, <2>3, MissingAssumption DEF HandledAt, Releases, Branched
  <2> QED BY <1>1, <1>8, <2>1, <2>2, <2>4
<1>15. ASSUME NEW p \in Project, Bump(p) PROVE HandledInv'
  <2> DEFINE b == IF Bumped(tree[p].head) = plan[p].candidate THEN 0 ELSE plan[p].candidate
  <2>1. /\ UNCHANGED <<main, ledger, todo>> /\ pc[p] = "implement" /\ pc'[p] = "gate"
        /\ tree'[p] = [tree[p] EXCEPT !.dirty.bump = b]
        /\ \A q \in Project \ {p} : tree'[q] = tree[q] /\ pc'[q] = pc[q]
        /\ todo[p] \subseteq Done(tree[p])
    BY <1>9, <1>15 DEF Bump
  <2> HIDE DEF b
  <2>2. \A i \in todo[p] : Landed(WithDirty(tree[p]), i)
    BY <2>1 DEF Done, Changed, Landed
  <2>3. /\ tree'[p].head = tree[p].head /\ tree'[p].dirty.adds = tree[p].dirty.adds
        /\ tree[p].head \in Seq(Commit)
    <3>1. tree[p] \in Tree
      BY <1>9
    <3> QED BY <2>1, <3>1 DEF Tree, Commit
  <2>4. ASSUME NEW i \in Item, Landed(WithDirty(tree[p]), i) PROVE Landed(WithDirty(tree'[p]), i)
    <3>1. CASE Landed(tree[p].head, i)
      <4>1. WithDirty(tree'[p]) \in {tree[p].head, Append(tree[p].head, tree'[p].dirty)}
        BY <2>3 DEF WithDirty
      <4> QED BY <2>3, <3>1, <4>1, SMTT(30) DEF Landed
    <3>2. CASE i \in tree[p].dirty.adds
      <4>1. WithDirty(tree'[p]) = Append(tree[p].head, tree'[p].dirty)
        BY <2>3, <3>2 DEF WithDirty
      <4>2. /\ Len(tree[p].head) + 1 \in DOMAIN WithDirty(tree'[p])
            /\ WithDirty(tree'[p])[Len(tree[p].head) + 1] = tree'[p].dirty
        BY <2>3, <4>1
      <4> QED BY <2>3, <3>2, <4>2 DEF Landed
    <3>3. CASE ~Landed(tree[p].head, i) /\ i \notin tree[p].dirty.adds
      <4>1. CASE WithDirty(tree[p]) = tree[p].head
        BY <2>4, <3>3, <4>1
      <4>2. CASE WithDirty(tree[p]) = Append(tree[p].head, tree[p].dirty)
        BY <2>3, <2>4, <3>3, <4>2 DEF Landed
      <4> QED BY <4>1, <4>2 DEF WithDirty
    <3> QED BY <3>1, <3>2, <3>3
  <2>5. HandledAt(p)'
    <3>1. \A i \in todo[p] : Landed(WithDirty(tree'[p]), i)
      BY <1>9, <2>2, <2>4
    <3>2. \A i : Handled(p, i) => Handled(p, i)'
      BY <2>1 DEF Handled, Landed
    <3> QED BY <1>9, <2>1, <3>1, <3>2 DEF HandledAt, Releases, Branched
  <2> QED BY <1>1, <1>8, <2>1, <2>5
<1>16. ASSUME NEW p \in Project, Gate(p) PROVE HandledInv'
  <2>1. /\ UNCHANGED <<main, ledger, todo, tree>> /\ pc[p] = "gate" /\ pc'[p] = "tag"
        /\ \A q \in Project \ {p} : pc'[q] = pc[q]
    BY <1>9, <1>16 DEF Gate
  <2>2. WithDirty(tree'[p]) = WithDirty(tree[p]) /\ \A i : Handled(p, i) => Handled(p, i)'
    BY <2>1 DEF Handled, Landed
  <2>3. HandledAt(p)'
    BY <1>9, <2>1, <2>2 DEF HandledAt, Landed, Releases, Branched
  <2> QED BY <1>1, <1>8, <2>1, <2>3
<1>17. ASSUME NEW p \in Project, Tag(p) PROVE HandledInv'
  <2>1. /\ UNCHANGED <<main, ledger, todo>> /\ pc[p] = "tag" /\ pc'[p] \in {"pushMain", "release"}
        /\ tree'[p].head = WithDirty(tree[p])
        /\ \A q \in Project \ {p} : tree'[q] = tree[q] /\ pc'[q] = pc[q]
    BY <1>9, <1>17 DEF Tag, Committed, Tree
  <2>2. \A i : Handled(p, i) => Handled(p, i)'
    BY <2>1 DEF Handled, Landed
  <2>3. HandledAt(p)'
    BY <1>9, <2>1, <2>2 DEF HandledAt, Landed, Releases, Branched
  <2> QED BY <1>1, <1>8, <2>1, <2>3
<1>18. ASSUME NEW p \in Project, PushMain(p) PROVE HandledInv'
  <2>1. /\ UNCHANGED <<ledger, todo, tree>> /\ pc[p] = "pushMain"
        /\ \/ main' = tree[p].head /\ pc'[p] = "pushTag" /\ Ancestor(main, main')
           \/ main' = main /\ pc'[p] = "release"
        /\ \A q \in Project \ {p} : pc'[q] = pc[q]
    BY <1>9, <1>18 DEF PushMain
  <2>2. Ancestor(main, main') /\ \A i : Landed(main, i) => Landed(main', i)
    BY <1>1, <2>1, LandedForward
  <2>3. \A i : Handled(p, i) => Handled(p, i)'
    BY <2>1, <2>2 DEF Handled, Landed
  <2>4. HandledAt(p)'
    BY <1>9, <2>1, <2>3 DEF HandledAt, Landed, Releases, Branched
  <2> QED BY <1>1, <1>8, <2>1, <2>2, <2>4
<1>19. ASSUME NEW p \in Project, PushTag(p) PROVE HandledInv'
  <2>1. /\ UNCHANGED <<main, ledger, todo, tree>> /\ pc[p] = "pushTag" /\ pc'[p] = "record"
        /\ \A q \in Project \ {p} : pc'[q] = pc[q]
    BY <1>9, <1>19 DEF PushTag
  <2>2. \A i : Handled(p, i) => Handled(p, i)'
    BY <2>1 DEF Handled, Landed
  <2>3. HandledAt(p)'
    BY <1>9, <2>1, <2>2 DEF HandledAt, Landed, Releases, Branched
  <2> QED BY <1>1, <1>8, <2>1, <2>3
<1>20. ASSUME NEW p \in Project, Record(p) PROVE HandledInv'
  <2>1. /\ UNCHANGED <<main, todo, tree>> /\ pc[p] = "record" /\ pc'[p] = "release"
        /\ ledger'[p] = SetKey(ledger[p], "skill_release") /\ ledger[p] \in Ledger
        /\ \A q \in Project \ {p} : pc'[q] = pc[q] /\ ledger'[q] = ledger[q]
    BY <1>9, <1>20 DEF Record, Releasing
  <2>2. /\ ledger'[p].set = ledger[p].set \cup {"skill_release"}
        /\ ledger'[p].escalated = ledger[p].escalated /\ ledger'[p].done = ledger[p].done
    BY <2>1 DEF SetKey, Ledger
  <2>3. \A i : Handled(p, i) => Handled(p, i)'
    BY <2>1, <2>2 DEF Handled, Landed
  <2>4. \A i \in Wants[p] : Handled(p, i)'
    <3>1. \A i \in Wants[p] : Handled(p, i)
      BY <1>9, <2>1 DEF HandledAt, Handled, Releases
    <3> QED BY <2>3, <3>1
  <2>5. HandledAt(p)'
    BY <2>1, <2>2, <2>4 DEF HandledAt, Releases, Branched
  <2> QED BY <1>1, <1>8, <2>1, <2>5
<1>21. ASSUME NEW p \in Project, DieSaving(p) PROVE HandledInv'
  <2>1. /\ UNCHANGED main /\ ledger'[p] = Fresh /\ Stop(p)
        /\ \A q \in Project \ {p} : ledger'[q] = ledger[q]
    BY <1>9, <1>21 DEF DieSaving, Dies
  <2>2. pc'[p] \notin Releases /\ \A q \in Project \ {p} :
            pc'[q] = pc[q] /\ todo'[q] = todo[q] /\ tree'[q] = tree[q]
    BY <2>1, StopTypes DEF Releases, Branched
  <2>3. HandledAt(p)'
    BY <2>1, <2>2 DEF HandledAt, Fresh, Releases, Branched
  <2> QED BY <1>1, <1>8, <2>1, <2>2, <2>3
<1>22. ASSUME NEW a \in Actor, Acquire(a) \/ Overrun(a) PROVE HandledInv'
  BY <1>2, <1>22 DEF Acquire, Overrun
<1>23. ASSUME NEW a \in Actor, LoseLock(a) \/ Release(a) \/ Die(a) PROVE HandledInv'
  BY <1>3, <1>23 DEF LoseLock, Release, Die, Dies
<1> QED
  BY <1>4, <1>5, <1>6, <1>7, <1>10, <1>11, <1>12, <1>13, <1>14, <1>15, <1>16, <1>17, <1>18, <1>19,
     <1>20, <1>21, <1>22, <1>23
     DEF Next, Turn, Stage4

-----------------------------------------------------------------------------
(* What a step does to main, to the checkout and to the worktrees          *)

\* main moves forward: to what a turn pushes, or to a rollback.
LEMMA MainSteps ==
    ASSUME TypeInv, [Next]_vars
    PROVE  /\ Ancestor(main, main')
           /\ \/ main' = main
              \/ \E q \in Project : pc[q] = "pushMain" /\ main' = tree[q].head
              \/ pc[Operator] = "pushRevert" /\ main' = canon
<1>1. Ancestor(main, main)
  BY AncestorReflexive DEF TypeInv, TypeOK
<1>2. \/ main' = main
      \/ \E q \in Project : PushMain(q)
      \/ PushRevert
  BY DEF Next, Turn, Stage4, Acquire, Overrun, Begin, LoseLock, Release, PushFails, Die, Dies, Seed,
         SeedFails, FleetRead, FleetReplace, Open, Advance, ReleasePlan, Dedup, Worktree, Implement,
         Bump, RunBacktest, Gate, GateFails, Tag, PushTag, Record, DieSaving, Revert, Pull, vars, skill
<1> QED BY <1>1, <1>2 DEF PushMain, PushRevert, At

\* The canonical checkout: a fixture or a revert on top, or a pull.
LEMMA CanonSteps ==
    ASSUME TypeInv, [Next]_vars
    PROVE  \/ canon' = canon
           \/ canon' = main /\ main' = main
           \/ main' = main /\ \E c \in Commit : c.adds = {} /\ canon' = Append(canon, c)
<1>1. \/ canon' = canon
      \/ \E p \in Project : Seed(p)
      \/ Revert
      \/ Pull
  BY DEF Next, Turn, Stage4, Acquire, Overrun, Begin, LoseLock, Release, PushFails, Die, Dies,
         SeedFails, FleetRead, FleetReplace, Open, Advance, ReleasePlan, Dedup, Worktree, Implement,
         Bump, RunBacktest, Gate, GateFails, Tag, PushMain, PushTag, Record, DieSaving, PushRevert, vars, skill
<1>2. ASSUME NEW p \in Project, Seed(p)
      PROVE  main' = main /\ \E c \in Commit : c.adds = {} /\ canon' = Append(canon, c)
  <2>1. [Clean(p) EXCEPT !.fixture = TRUE] \in Commit /\ [Clean(p) EXCEPT !.fixture = TRUE].adds = {}
    BY ReleaseAssumption, CleanIsCommit, CommitTypes DEF Clean
  <2> QED BY <1>2, <2>1 DEF Seed
<1>3. ASSUME Revert
      PROVE  main' = main /\ (canon' = canon \/ \E c \in Commit : c.adds = {} /\ canon' = Append(canon, c))
  BY <1>3, RevertIsCommit DEF Revert
<1> QED BY <1>1, <1>2, <1>3 DEF Pull

\* A change that is not committed yet, with the items s: codex's or the bump.
Edits(t, u, s) ==
    /\ u.head = t.head /\ u.anchor = t.anchor
    /\ u.dirty.adds = t.dirty.adds \cup s /\ u.dirty.drops \in {{}, t.dirty.drops}

\* A commit in the worktree: the items s with the change, or release.sh's.
Commits(t, u, s) ==
    /\ \E c \in Commit : /\ u.head = Append(t.head, c)
                         /\ c.adds = t.dirty.adds \cup s /\ c.drops = t.dirty.drops
    /\ u.anchor = t.anchor /\ u.dirty.adds = {} /\ u.dirty.drops = {}

\* changed_files, from the anchor's diff, the index and the work tree.
LEMMA DoneIs ==
    ASSUME NEW t \in Tree, t.anchor =< Len(t.head)
    PROVE  Done(t) = NewAdds(t)
<1> DEFINE g == WithDirty(t)
           new == {k \in DOMAIN g : k > t.anchor}
<1>1. t.head \in Seq(Commit) /\ t.anchor \in Nat /\ t.dirty \in Commit
  BY DEF Tree
<1>2. Done(t) = UNION {g[k].adds : k \in new}
  BY DEF Done, Changed
<1>3. CASE t.dirty.adds = {} /\ t.dirty.bump = 0
  <2>1. g = t.head /\ new = t.anchor + 1 .. Len(t.head)
    BY <1>1, <1>3 DEF WithDirty
  <2>2. ASSUME NEW k \in t.anchor + 1 .. Len(t.head) PROVE t.head[k].adds \subseteq Item
    <3>1. k \in 1 .. Len(t.head)
      BY <1>1
    <3>2. t.head[k] \in Commit
      BY <1>1, <3>1
    <3> QED BY <3>2 DEF Commit
  <2> HIDE DEF g, new
  <2> QED BY <1>2, <1>3, <2>1, <2>2 DEF NewAdds
<1>4. CASE ~(t.dirty.adds = {} /\ t.dirty.bump = 0)
  <2>1. g = Append(t.head, t.dirty)
    BY <1>4 DEF WithDirty
  <2>2. /\ Len(t.head) \in Nat /\ g[Len(t.head) + 1] = t.dirty
        /\ \A k \in 1 .. Len(t.head) : g[k] = t.head[k]
        /\ new = t.anchor + 1 .. Len(t.head) + 1
    BY <1>1, <2>1
  <2> HIDE DEF g, new
  <2>3. ASSUME NEW i \in Done(t) PROVE i \in NewAdds(t)
    <3>1. PICK k \in t.anchor + 1 .. Len(t.head) + 1 : i \in g[k].adds
      BY <1>2, <2>2, <2>3
    <3>2. k # Len(t.head) + 1 => k \in t.anchor + 1 .. Len(t.head) /\ g[k] = t.head[k]
      BY <1>1, <2>2
    <3>3. g[k] \in Commit
      BY <1>1, <2>2, <3>1, <3>2
    <3> QED BY <2>2, <3>1, <3>2, <3>3 DEF NewAdds, Commit
  <2>4. ASSUME NEW i \in NewAdds(t) PROVE i \in Done(t)
    <3>1. CASE i \in t.dirty.adds
      <4>1. Len(t.head) + 1 \in new
        BY <1>1, <2>2
      <4> QED BY <1>2, <2>2, <3>1, <4>1
    <3>2. CASE i \notin t.dirty.adds
      <4>1. PICK k \in t.anchor + 1 .. Len(t.head) : i \in t.head[k].adds
        BY <2>4, <3>2 DEF NewAdds
      <4>2. k \in new /\ g[k] = t.head[k]
        BY <1>1, <2>2
      <4> QED BY <1>2, <4>1, <4>2
    <3> QED BY <3>1, <3>2
  <2> QED BY <2>3, <2>4
<1> QED BY <1>3, <1>4

\* What release.sh or codex commits is the change that was there.
LEMMA CommittedIs ==
    ASSUME NEW t \in Tree
    PROVE  Edits(t, Committed(t), {}) \/ Commits(t, Committed(t), {})
<1>1. /\ Committed(t).head = WithDirty(t) /\ Committed(t).anchor = t.anchor
      /\ Committed(t).dirty.adds = {} /\ Committed(t).dirty.drops = {} /\ t.dirty \in Commit
  BY DEF Committed, Clean, Tree
<1>2. CASE t.dirty.adds = {} /\ t.dirty.bump = 0
  BY <1>1, <1>2 DEF WithDirty, Edits
<1>3. CASE ~(t.dirty.adds = {} /\ t.dirty.bump = 0)
  <2>1. WithDirty(t) = Append(t.head, t.dirty)
    BY <1>3 DEF WithDirty
  <2> QED BY <1>1, <2>1 DEF Commits
<1> QED BY <1>2, <1>3

\* A worktree is what it was, a new one, or has one more change.
LEMMA TreeSteps ==
    ASSUME TypeInv, TypeInv', [Next]_vars, NEW p \in Project
    PROVE  \/ tree'[p] = tree[p]
           \/ /\ pc[p] = "worktree" /\ pc'[p] = "implement"
              /\ UNCHANGED <<main, canon, todo, ledger, evidence, bounds>>
              /\ \E g \in {main, canon} : tree'[p] = Branch(p, g)
           \/ /\ pc[p] \in {"implement", "tag"} /\ pc'[p] \in Branched \cup {"release"}
              /\ UNCHANGED <<main, canon, todo, evidence, bounds>>
              /\ pc'[p] = "gate" => todo[p] \subseteq Done(tree[p])
              /\ \E s \in SUBSET (todo[p] \ Done(tree[p])) :
                    /\ pc[p] = "tag" => s = {}
                    /\ Edits(tree[p], tree'[p], s) \/ Commits(tree[p], tree'[p], s)
<1> USE ReleaseAssumption
<1>1. /\ tree \in [Project -> Tree] /\ tree' \in [Project -> Tree] /\ todo \in [Project -> SUBSET Item]
      /\ pc \in [Actor -> Position]
  BY DEF TypeInv, TypeOK
<1>2. \/ UNCHANGED tree
      \/ \E q \in Project : Worktree(q) \/ Implement(q) \/ Bump(q) \/ Tag(q)
  BY DEF Next, Turn, Stage4, Acquire, Overrun, Begin, LoseLock, Release, PushFails, Die, Dies, Stop, Seed,
         SeedFails, FleetRead, FleetReplace, Open, Advance, ReleasePlan, Dedup,
         RunBacktest, Gate, GateFails, PushMain, PushTag, Record, DieSaving, Revert, PushRevert, Pull,
         vars, turnVars
<1>3. ASSUME NEW q \in Project, q # p, Worktree(q) \/ Implement(q) \/ Bump(q) \/ Tag(q)
      PROVE  tree'[p] = tree[p]
  BY <1>1, <1>3, ZenonT(60) DEF Worktree, Implement, Bump, Tag
<1>4. CASE Worktree(p)
  BY <1>1, <1>4 DEF Worktree, At, Goto, skill
<1>5. CASE Implement(p)
  <2>1. /\ pc[p] = "implement" /\ UNCHANGED <<pc, main, canon, todo, evidence, bounds>>
    BY <1>5 DEF Implement, At, skill
  <2>2. PICK i \in todo[p] \ Done(tree[p]), near \in BOOLEAN :
           \/ tree' = [tree EXCEPT ![p] = Add(tree[p], i, near)]
           \/ tree' = [tree EXCEPT ![p] = Committed(Add(tree[p], i, near))]
    BY <1>5 DEF Implement
  <2> DEFINE t == tree[p]
             u == Add(t, i, near)
  <2>3. t \in Tree /\ i \in Item
    BY <1>1
  <2>4. u \in Tree /\ u.head = t.head /\ u.anchor = t.anchor /\ u.dirty.drops = t.dirty.drops
        /\ u.dirty.adds = t.dirty.adds \cup {i}
    BY <2>3 DEF Add, Tree, Commit
  <2> HIDE DEF u, t
  <2>5. Edits(t, u, {i})
    BY <2>4 DEF Edits
  <2>6. Commits(t, Committed(u), {i})
    <3>1. /\ Committed(u).head = Append(u.head, u.dirty) /\ Committed(u).anchor = u.anchor
          /\ Committed(u).dirty.adds = {} /\ Committed(u).dirty.drops = {} /\ u.dirty \in Commit
      BY <2>4 DEF Committed, WithDirty, Clean, Tree
    <3> QED BY <2>4, <3>1 DEF Commits
  <2>7. tree'[p] \in {u, Committed(u)}
    BY <1>1, <2>2 DEF u, t
  <2> QED BY <2>1, <2>5, <2>6, <2>7 DEF t, Branched
<1>6. CASE Bump(p)
  <2> DEFINE b == IF Bumped(tree[p].head) = plan[p].candidate THEN 0 ELSE plan[p].candidate
  <2>1. /\ pc[p] = "implement" /\ pc'[p] = "gate" /\ UNCHANGED <<main, canon, todo, evidence, bounds>>
        /\ todo[p] \subseteq Done(tree[p]) /\ tree'[p] = [tree[p] EXCEPT !.dirty.bump = b]
    BY <1>1, <1>6 DEF Bump, At, Goto, skill
  <2> HIDE DEF b
  <2>2. Edits(tree[p], tree'[p], {})
    <3>1. tree[p] \in Tree
      BY <1>1
    <3> QED BY <2>1, <3>1 DEF Edits, Tree, Commit
  <2> QED BY <2>1, <2>2 DEF Branched
<1>7. CASE Tag(p)
  <2>1. /\ pc[p] = "tag" /\ pc'[p] \in {"pushMain", "release"}
        /\ UNCHANGED <<main, canon, todo, evidence, bounds>> /\ tree'[p] = Committed(tree[p])
    BY <1>1, <1>7 DEF Tag, At, Goto, skill
  <2>2. Edits(tree[p], tree'[p], {}) \/ Commits(tree[p], tree'[p], {})
    BY <1>1, <2>1, CommittedIs
  <2> QED BY <2>1, <2>2 DEF Branched
<1> QED BY <1>2, <1>3, <1>4, <1>5, <1>6, <1>7

\* One more change leaves what is below, and adds what it adds.
LEMMA GrownTree ==
    ASSUME NEW t \in Tree, NEW u \in Tree, t.anchor =< Len(t.head), NEW s \in SUBSET Item,
           Edits(t, u, s) \/ Commits(t, u, s)
    PROVE  /\ u.anchor = t.anchor /\ Len(t.head) =< Len(u.head)
           /\ \A k \in 1 .. t.anchor : u.head[k] = t.head[k]
           /\ NewAdds(u) = NewAdds(t) \cup s
           /\ (/\ t.dirty.drops = {}
               /\ \A k \in t.anchor + 1 .. Len(t.head) : t.head[k].drops = {}) =>
                 /\ u.dirty.drops = {}
                 /\ \A k \in u.anchor + 1 .. Len(u.head) : u.head[k].drops = {}
<1>1. /\ t.head \in Seq(Commit) /\ t.anchor \in Nat /\ t.dirty \in Commit
      /\ Len(t.head) \in Nat /\ t.dirty.adds \in SUBSET Item
  BY DEF Tree, Commit
<1>2. CASE Edits(t, u, s)
  <2>1. NewAdds(u) = NewAdds(t) \cup s
    BY <1>1, <1>2 DEF Edits, NewAdds
  <2> QED BY <1>1, <1>2, <2>1 DEF Edits
<1>3. CASE Commits(t, u, s)
  <2>1. PICK c \in Commit : /\ u.head = Append(t.head, c)
                            /\ c.adds = t.dirty.adds \cup s /\ c.drops = t.dirty.drops
    BY <1>3 DEF Commits
  <2>2. /\ u.anchor = t.anchor /\ u.dirty.adds = {} /\ u.dirty.drops = {}
        /\ Len(u.head) = Len(t.head) + 1 /\ u.head[Len(t.head) + 1] = c
        /\ \A k \in 1 .. Len(t.head) : u.head[k] = t.head[k]
    BY <1>1, <1>3, <2>1 DEF Commits
  <2>3. ASSUME NEW i \in NewAdds(u) PROVE i \in NewAdds(t) \cup s
    <3>1. PICK k \in t.anchor + 1 .. Len(t.head) + 1 : i \in Item /\ i \in u.head[k].adds
      BY <2>2, <2>3 DEF NewAdds
    <3>2. CASE k = Len(t.head) + 1
      BY <2>1, <2>2, <3>1, <3>2 DEF NewAdds
    <3>3. CASE k # Len(t.head) + 1
      <4>1. k \in t.anchor + 1 .. Len(t.head) /\ u.head[k] = t.head[k]
        BY <1>1, <2>2, <3>3
      <4> QED BY <3>1, <4>1 DEF NewAdds
    <3> QED BY <3>2, <3>3
  <2>4. ASSUME NEW i \in NewAdds(t) \cup s PROVE i \in NewAdds(u)
    <3>1. CASE i \in t.dirty.adds \cup s
      <4>1. Len(t.head) + 1 \in u.anchor + 1 .. Len(u.head)
        BY <1>1, <2>2
      <4> QED BY <1>1, <2>1, <2>2, <3>1, <4>1 DEF NewAdds
    <3>2. CASE i \notin t.dirty.adds \cup s
      <4>1. PICK k \in t.anchor + 1 .. Len(t.head) : i \in Item /\ i \in t.head[k].adds
        BY <2>4, <3>2 DEF NewAdds
      <4>2. k \in u.anchor + 1 .. Len(u.head) /\ u.head[k] = t.head[k]
        BY <1>1, <2>2
      <4> QED BY <4>1, <4>2 DEF NewAdds
    <3> QED BY <3>1, <3>2
  <2>5. NewAdds(u) = NewAdds(t) \cup s
    BY <2>3, <2>4
  <2>6. ASSUME t.dirty.drops = {}, \A k \in t.anchor + 1 .. Len(t.head) : t.head[k].drops = {},
               NEW k \in u.anchor + 1 .. Len(u.head)
        PROVE  u.head[k].drops = {}
    <3>1. k # Len(t.head) + 1 => k \in t.anchor + 1 .. Len(t.head) /\ u.head[k] = t.head[k]
      BY <1>1, <2>2
    <3> QED BY <2>1, <2>2, <2>6, <3>1
  <2> HIDE DEF NewAdds
  <2>7. \A k \in 1 .. t.anchor : u.head[k] = t.head[k]
    BY <1>1, <2>2
  <2> QED BY <1>1, <2>2, <2>5, <2>6, <2>7
<1> QED BY <1>2, <1>3

\* What a step does to p's turn: only the dedup starts it on its items, only
\* Bump takes it to its gates, and only a gate lets it through.
LEMMA TurnSteps ==
    ASSUME TypeInv, [Next]_vars, NEW p \in Project
    PROVE  /\ pc'[p] \in Working => Dedup(p) \/ (pc[p] \in Working /\ todo'[p] = todo[p])
           /\ todo'[p] \in {todo[p], {}} \/ Dedup(p)
           /\ pc'[p] = "gate" => Bump(p) \/ (pc[p] = "gate" /\ todo'[p] = todo[p])
           /\ pc'[p] \in {"tag", "pushMain"} => Gate(p) \/ pc[p] \in {"tag", "pushMain"}
           /\ report'[p] = report[p] \/ RunBacktest(p)
<1> DEFINE Goal == /\ pc'[p] \in Working => Dedup(p) \/ (pc[p] \in Working /\ todo'[p] = todo[p])
                   /\ todo'[p] \in {todo[p], {}} \/ Dedup(p)
                   /\ pc'[p] = "gate" => Bump(p) \/ (pc[p] = "gate" /\ todo'[p] = todo[p])
                   /\ pc'[p] \in {"tag", "pushMain"} => Gate(p) \/ pc[p] \in {"tag", "pushMain"}
                   /\ report'[p] = report[p] \/ RunBacktest(p)
<1>1. /\ pc \in [Actor -> Position] /\ todo \in [Project -> SUBSET Item] /\ Project \subseteq Actor
      /\ Operator \in Actor /\ Operator \notin Project /\ report \in [Project -> Report]
  BY ReleaseAssumption DEF TypeInv, TypeOK
<1>2. ASSUME NEW a \in Actor, Stop(a), UNCHANGED report PROVE Goal
  <2>1. /\ pc'[a] \in {"new", "idle"} /\ \A b \in Actor \ {a} : pc'[b] = pc[b]
        /\ \A q \in Project \ {a} : todo'[q] = todo[q]
    BY <1>2, StopTypes
  <2>2. a \in Project => todo'[a] = {}
    BY <1>1, <1>2 DEF Stop
  <2> QED BY <1>1, <1>2, <2>1, <2>2 DEF Working
<1>3. ASSUME NEW a \in Actor, LoseLock(a) \/ Release(a) \/ Die(a) PROVE Goal
  BY <1>2, <1>3 DEF LoseLock, Release, Die, Dies, evidence
<1>4. ASSUME NEW q \in Project, DieSaving(q) PROVE Goal
  BY <1>1, <1>2, <1>4 DEF DieSaving, Dies, evidence
<1>5. ASSUME NEW q \in Project, q # p, Dedup(q) \/ Bump(q) \/ Gate(q) \/ RunBacktest(q) PROVE Goal
  BY <1>1, <1>5 DEF Dedup, Bump, Gate, RunBacktest, Goto, turnVars, evidence
<1>6. CASE \/ \E a \in Actor : Acquire(a) \/ Overrun(a) \/ PushFails(a)
           \/ \E q \in Project :
                 \/ Seed(q) \/ SeedFails(q) \/ FleetRead(q) \/ FleetReplace(q) \/ Open(q) \/ Advance(q)
                 \/ ReleasePlan(q) \/ Worktree(q) \/ Implement(q)
                 \/ GateFails(q) \/ Tag(q) \/ PushMain(q) \/ PushTag(q) \/ Record(q)
           \/ Revert \/ PushRevert \/ Pull \/ UNCHANGED vars
  <2>1. UNCHANGED <<todo, report>>
    BY <1>6 DEF Acquire, Overrun, Begin, PushFails, Seed, SeedFails, FleetRead, FleetReplace,
     Open, Advance, ReleasePlan, Worktree, Implement, GateFails, Tag, PushMain,
     PushTag, Record, Revert, PushRevert, Pull, vars, turnVars, evidence
  <2>2. \/ pc'[p] = pc[p]
        \/ pc'[p] \notin Working \cup {"tag", "pushMain"}
        \/ pc[p] = "worktree" /\ pc'[p] = "implement"
        \/ pc[p] = "tag" /\ pc'[p] = "pushMain"
    BY <1>1, <1>6 DEF Acquire, Overrun, Begin, PushFails, Seed, SeedFails, FleetRead, FleetReplace,
     Open, Advance, ReleasePlan, Worktree, Implement, GateFails, Tag, PushMain, At,
     PushTag, Record, Revert, PushRevert, Pull, vars, Goto, Working
  <2> QED BY <2>1, <2>2 DEF Working
<1>7. CASE Dedup(p)
  BY <1>1, <1>7 DEF Dedup, Goto, evidence
<1>8. CASE Bump(p)
  BY <1>1, <1>8 DEF Bump, At, Goto, evidence, Working
<1>9. CASE Gate(p)
  BY <1>1, <1>9 DEF Gate, Goto, turnVars, evidence, Working
<1>10. CASE RunBacktest(p)
  BY <1>1, <1>10 DEF RunBacktest, turnVars
<1> QED BY <1>3, <1>4, <1>5, <1>6, <1>7, <1>8, <1>9, <1>10 DEF Next, Turn, Stage4

-----------------------------------------------------------------------------
(* Worktrees                                                               *)

\* No worktree yet.
LEMMA TreeInit == Init => TreeInv
<1> SUFFICES ASSUME Init PROVE TreeInv
  OBVIOUS
<1>1. Len(canon) = 1 /\ canon[1].adds = {}
  BY DEF Init, Root
<1>2. ASSUME NEW p \in Project PROVE TreeAt(p)
  <2>1. tree[p].head = <<>> /\ tree[p].anchor = 0 /\ tree[p].dirty.drops = {} /\ pc[p] # "gate"
    BY ReleaseAssumption DEF Init, NoTree, Clean
  <2> QED BY <2>1 DEF TreeAt, Behind
<1> QED BY <1>1, <1>2 DEF TreeInv, Behind

\* A step keeps what is below the anchors, and reverts nothing above.
LEMMA TreeNext == TypeInv /\ TreeInv /\ [Next]_vars => TreeInv'
<1> SUFFICES ASSUME TypeInv, TypeInv', TreeInv, [Next]_vars PROVE TreeInv'
  BY TypeNext
<1>1. /\ main \in Seq(Commit) /\ main' \in Seq(Commit) /\ canon \in Seq(Commit)
      /\ tree \in [Project -> Tree] /\ tree' \in [Project -> Tree] /\ todo \in [Project -> SUBSET Item]
      /\ Behind(canon, Len(canon)) /\ \A p \in Project : TreeAt(p)
  BY DEF TypeInv, TypeOK, TreeInv
<1>2. Len(main) =< Len(main')
  BY MainSteps DEF Ancestor
<1>3. ASSUME NEW h, NEW n \in Nat, Behind(h, n) PROVE Behind(h, n)'
  BY <1>1, <1>2, <1>3 DEF Behind
<1>4. Behind(canon, Len(canon))'
  <2>1. CASE canon' = canon
    BY <1>1, <1>2, <2>1 DEF Behind
  <2>2. CASE canon' = main /\ main' = main
    BY <1>1, <2>2 DEF Behind
  <2>3. CASE main' = main /\ \E c \in Commit : c.adds = {} /\ canon' = Append(canon, c)
    <3>1. PICK c \in Commit : c.adds = {} /\ canon' = Append(canon, c)
      BY <2>3
    <3>2. /\ Len(canon') = Len(canon) + 1 /\ canon'[Len(canon) + 1] = c
          /\ \A k \in 1 .. Len(canon) : canon'[k] = canon[k]
      BY <1>1, <3>1
    <3>3. ASSUME NEW k \in 1 .. Len(canon'), canon'[k].adds # {} PROVE k =< Len(main')
      <4>1. k \in 1 .. Len(canon) /\ canon'[k] = canon[k]
        BY <1>1, <3>1, <3>2, <3>3
      <4> QED BY <1>1, <2>3, <3>3, <4>1 DEF Behind
    <3> QED BY <3>3 DEF Behind
  <2> QED BY <2>1, <2>2, <2>3, CanonSteps
<1>5. ASSUME NEW p \in Project PROVE TreeAt(p)'
  <2>1. tree[p] \in Tree /\ TreeAt(p) /\ tree[p].anchor \in Nat /\ tree'[p] \in Tree
    BY <1>1 DEF Tree
  <2>2. CASE tree'[p] = tree[p]
    <3>1. pc'[p] = "gate" => todo'[p] \subseteq NewAdds(tree[p])
      <4>1. pc'[p] = "gate" => Bump(p) \/ (pc[p] = "gate" /\ todo'[p] = todo[p])
        BY TurnSteps
      <4>2. CASE Bump(p)
        <5>1. todo'[p] \subseteq Done(tree[p])
          BY <4>2 DEF Bump
        <5> QED BY <2>1, <5>1, DoneIs DEF TreeAt
      <4> QED BY <2>1, <4>1, <4>2 DEF TreeAt
    <3>2. NewAdds(tree[p])' = NewAdds(tree[p])
      BY <2>2 DEF NewAdds
    <3>3. Behind(tree[p].head, tree[p].anchor)'
      BY <1>1, <1>2, <2>1, <2>2 DEF TreeAt, Behind
    <3> QED BY <2>1, <2>2, <3>1, <3>2, <3>3 DEF TreeAt
  <2>3. CASE /\ pc[p] = "worktree" /\ pc'[p] = "implement"
             /\ UNCHANGED <<main, canon>>
             /\ \E g \in {main, canon} : tree'[p] = Branch(p, g)
    <3>1. PICK g \in {main, canon} : tree'[p] = Branch(p, g)
      BY <2>3
    <3>2. g \in Seq(Commit) /\ Len(g) \in Nat /\ Behind(g, Len(g))
      BY <1>1 DEF Behind
    <3>3. tree'[p].head = g /\ tree'[p].anchor = Len(g) /\ tree'[p].dirty.drops = {}
      BY <3>1 DEF Branch, Clean
    <3>4. Behind(tree[p].head, tree[p].anchor)'
      BY <1>3, <2>3, <3>2, <3>3 DEF Behind
    <3> QED BY <2>3, <3>2, <3>3, <3>4 DEF TreeAt
  <2>4. CASE /\ pc[p] \in {"implement", "tag"} /\ UNCHANGED <<main, todo>>
             /\ pc'[p] = "gate" => todo[p] \subseteq Done(tree[p])
             /\ \E s \in SUBSET (todo[p] \ Done(tree[p])) :
                   Edits(tree[p], tree'[p], s) \/ Commits(tree[p], tree'[p], s)
    <3>1. PICK s \in SUBSET todo[p] : Edits(tree[p], tree'[p], s) \/ Commits(tree[p], tree'[p], s)
      BY <2>4
    <3>2. s \in SUBSET Item /\ tree[p].anchor =< Len(tree[p].head) /\ Len(tree[p].head) \in Nat
      BY <1>1, <2>1 DEF TreeAt, Tree
    <3>3. /\ tree'[p].anchor = tree[p].anchor /\ Len(tree[p].head) =< Len(tree'[p].head)
          /\ \A k \in 1 .. tree[p].anchor : tree'[p].head[k] = tree[p].head[k]
          /\ NewAdds(tree'[p]) = NewAdds(tree[p]) \cup s
          /\ tree'[p].dirty.drops = {}
          /\ \A k \in tree'[p].anchor + 1 .. Len(tree'[p].head) : tree'[p].head[k].drops = {}
      <4>1. /\ tree[p] \in Tree /\ tree'[p] \in Tree /\ tree[p].dirty.drops = {}
            /\ \A k \in tree[p].anchor + 1 .. Len(tree[p].head) : tree[p].head[k].drops = {}
        BY <2>1 DEF TreeAt
      <4> QED BY <3>1, <3>2, <4>1, GrownTree
    <3>4. Behind(tree[p].head, tree[p].anchor)'
      BY <2>1, <2>4, <3>3 DEF TreeAt, Behind
    <3>5. pc'[p] = "gate" => todo'[p] \subseteq NewAdds(tree[p])'
      <4>1. pc'[p] = "gate" => todo[p] \subseteq NewAdds(tree[p])
        BY <2>1, <2>4, <3>2, DoneIs
      <4>2. NewAdds(tree[p])' = NewAdds(tree'[p])
        BY DEF NewAdds
      <4> QED BY <2>4, <3>3, <4>1, <4>2
    <3>6. tree'[p].anchor =< Len(tree'[p].head)
      BY <2>1, <3>2, <3>3 DEF Tree
    <3> QED BY <3>3, <3>4, <3>5, <3>6 DEF TreeAt
  <2> QED BY <2>2, <2>3, <2>4, TreeSteps
<1> QED BY <1>4, <1>5 DEF TreeInv

-----------------------------------------------------------------------------
(* Rules that were backtested                                              *)

\* What the turns added to a worktree is in its tree: backtest.py runs it.
LEMMA NewAddsAreIn ==
    ASSUME NEW t \in Tree, t.anchor =< Len(t.head), t.dirty.drops = {},
           \A k \in t.anchor + 1 .. Len(t.head) : t.head[k].drops = {}
    PROVE  NewAdds(t) \subseteq Contents(WithDirty(t))
<1> DEFINE g == WithDirty(t)
<1>1. t.head \in Seq(Commit) /\ t.anchor \in Nat /\ t.dirty \in Commit /\ Len(t.head) \in Nat
  BY DEF Tree
<1>2. /\ g \in Seq(Commit) /\ Len(g) \in Nat
      /\ \A k \in t.anchor + 1 .. Len(g) : g[k].drops = {}
  <2>1. CASE g = t.head
    BY <1>1, <2>1
  <2>2. CASE g = Append(t.head, t.dirty)
    <3>1. /\ g \in Seq(Commit) /\ Len(g) = Len(t.head) + 1 /\ g[Len(t.head) + 1] = t.dirty
          /\ \A k \in 1 .. Len(t.head) : g[k] = t.head[k]
      BY <1>1, <2>2
    <3> HIDE DEF g
    <3>2. ASSUME NEW k \in t.anchor + 1 .. Len(g) PROVE g[k].drops = {}
      <4>1. k # Len(t.head) + 1 => k \in t.anchor + 1 .. Len(t.head) /\ g[k] = t.head[k]
        BY <1>1, <3>1
      <4> QED BY <3>1, <4>1
    <3> QED BY <3>1, <3>2
  <2> QED BY <2>1, <2>2 DEF WithDirty
<1>3. ASSUME NEW i \in NewAdds(t) PROVE i \in Contents(g)
  <2>1. i \in Item /\ i \in Done(t)
    BY <1>3, DoneIs DEF NewAdds
  <2>2. PICK k \in DOMAIN g : k > t.anchor /\ i \in g[k].adds
    BY <2>1 DEF Done, Changed
  <2> HIDE DEF g
  <2>3. ASSUME NEW l \in k + 1 .. Len(g) PROVE i \notin g[l].drops
    <3>1. l \in t.anchor + 1 .. Len(g)
      BY <1>1, <1>2, <2>2
    <3> QED BY <1>2, <3>1
  <2> QED BY <2>1, <2>2, <2>3 DEF Contents
<1> QED BY <1>3

\* A worktree above its anchor has only what the turns added.
LEMMA WithinWhole ==
    ASSUME NEW t \in Tree, t.anchor =< Len(t.head), NEW rules, Within(t.head, t.anchor, rules),
           NewAdds(t) \cap RuleItem \subseteq rules
    PROVE  Within(t.head, Len(t.head), rules)
<1>1. t.head \in Seq(Commit) /\ t.anchor \in Nat /\ Len(t.head) \in Nat
  BY DEF Tree
<1>2. ASSUME NEW k \in 1 .. Len(t.head) PROVE t.head[k].adds \cap RuleItem \subseteq rules
  <2>1. CASE k \in 1 .. t.anchor
    BY <2>1 DEF Within
  <2>2. CASE k \in t.anchor + 1 .. Len(t.head)
    <3>1. t.head[k] \in Commit
      BY <1>1
    <3>2. t.head[k].adds \subseteq NewAdds(t)
      BY <2>2, <3>1 DEF NewAdds, Commit
    <3> QED BY <3>2
  <2> QED BY <1>1, <2>1, <2>2
<1> QED BY <1>2 DEF Within

\* A turn forgets nothing, unless its ledger is torn.
LEMMA MemorySteps ==
    ASSUME TypeInv, TypeInv', [Next]_vars
    PROVE  /\ backtested \subseteq backtested'
           /\ ~torn' => ~torn
           /\ ~overrun' => ~overrun
           /\ \A p \in Project : ~torn' /\ ledger[p] \in Ledger =>
                 ledger'[p] \in Ledger /\ ledger[p].done \subseteq ledger'[p].done
<1>1. backtested \subseteq backtested'
  BY DEF Next, Turn, Stage4, Acquire, Overrun, Begin, LoseLock, Release, PushFails, Die, Dies, Seed,
         SeedFails, FleetRead, FleetReplace, Open, Advance, ReleasePlan, Dedup, Worktree, Implement,
         Bump, RunBacktest, Gate, GateFails, Tag, PushMain, PushTag, Record, DieSaving, Revert,
         PushRevert, Pull, vars, evidence
<1>2. torn \in BOOLEAN /\ overrun \in BOOLEAN
  BY DEF TypeInv, TypeOK
<1>3. torn' = torn \/ torn' = TRUE
  BY DEF Next, Turn, Stage4, Acquire, Overrun, Begin, LoseLock, Release, PushFails, Die, Dies, Seed,
         SeedFails, FleetRead, FleetReplace, Open, Advance, ReleasePlan, Dedup, Worktree, Implement,
         Bump, RunBacktest, Gate, GateFails, Tag, PushMain, PushTag, Record, DieSaving, Revert,
         PushRevert, Pull, vars, bounds, excuses
<1>4. overrun' = overrun \/ overrun' = TRUE
  BY DEF Next, Turn, Stage4, Acquire, Overrun, Begin, LoseLock, Release, PushFails, Die, Dies, Seed,
         SeedFails, FleetRead, FleetReplace, Open, Advance, ReleasePlan, Dedup, Worktree, Implement,
         Bump, RunBacktest, Gate, GateFails, Tag, PushMain, PushTag, Record, DieSaving, Revert,
         PushRevert, Pull, vars, bounds, excuses
<1>5. ASSUME NEW p \in Project, ~torn', ledger[p] \in Ledger
      PROVE  ledger'[p] \in Ledger /\ ledger[p].done \subseteq ledger'[p].done
  <2>1. ledger \in [Project -> Ledger \cup {NoLedger}] /\ ledger[p] # NoLedger /\ Wants[p] \in SUBSET Item
    BY <1>5, MissingAssumption, ReleaseAssumption DEF TypeInv, TypeOK
  <2>2. \/ ledger' = ledger
        \/ \E q \in Project : Open(q) \/ Advance(q) \/ Dedup(q) \/ Implement(q) \/ Record(q) \/ DieSaving(q)
    BY DEF Next, Turn, Stage4, Acquire, Overrun, Begin, LoseLock, Release, PushFails, Die, Dies, Seed,
           SeedFails, FleetRead, FleetReplace, ReleasePlan, Worktree, Bump, RunBacktest, Gate, GateFails,
           Tag, PushMain, PushTag, Revert, PushRevert, Pull, vars
  <2>3. ASSUME NEW q \in Project, q # p,
               Open(q) \/ Advance(q) \/ Dedup(q) \/ Implement(q) \/ Record(q) \/ DieSaving(q)
        PROVE  ledger'[p] = ledger[p]
    BY <2>1, <2>3, ZenonT(60) DEF Open, Advance, Dedup, Implement, Record, DieSaving
  <2>4. ~Open(p) /\ ~DieSaving(p)
    BY <1>5, <2>1 DEF Open, DieSaving
  <2>5. CASE Advance(p)
    <3>1. ledger'[p] = After(p, NextStage(ledger[p]))
      BY <2>1, <2>5 DEF Advance
    <3>2. ASSUME NEW stage PROVE After(p, stage).done = ledger[p].done
      BY <1>5 DEF After, SetKey, Ledger
    <3>3. ledger'[p] \in Ledger
      <4>1. ledger'[p] \in Ledger \cup {NoLedger}
        BY DEF TypeInv, TypeOK
      <4>2. \A stage \in {"r1", "r2", "remediation", "close"} : After(p, stage) # NoLedger
        <5>1. SetKey(ledger[p], "r1") \in Ledger /\ SetKey(ledger[p], "remediation") \in Ledger
              /\ SetKey(ledger[p], "closed") \in Ledger
          BY <1>5, FlagsAre, LedgerTypes
        <5>2. After(p, "r2") \in Ledger
          <6> DEFINE d == SetKey(ledger[p], "r2")
          <6>1. d \in Ledger
            BY <1>5, FlagsAre, LedgerTypes
          <6>2. After(p, "r2") = [d EXCEPT !.escalated = @ \cup (Wants[p] \cap NeedsHuman)]
            BY DEF After
          <6>3. Wants[p] \cap NeedsHuman \in SUBSET Item
            BY <2>1
          <6> HIDE DEF d
          <6> QED BY <6>1, <6>2, <6>3, ZenonT(60) DEF Ledger
        <5> QED BY <5>1, <5>2, MissingAssumption DEF After
      <4>3. NextStage(ledger[p]) \in {"r1", "r2", "remediation", "close"}
        BY <2>5, NextStageIs DEF Advance
      <4> QED BY <3>1, <4>1, <4>2, <4>3
    <3> QED BY <3>1, <3>2, <3>3
  <2>6. CASE Dedup(p)
    <3>1. ledger'[p] = PlanWrite(ledger[p], Wants[p], Contents(main)) /\ Contents(main) \in SUBSET Item
      BY <2>1, <2>6 DEF Dedup, Contents
    <3>2. PlanWrite(ledger[p], Wants[p], Contents(main)) \in Ledger
      BY <1>5, <2>1, <3>1, LedgerTypes
    <3>3. ledger[p].done \subseteq PlanWrite(ledger[p], Wants[p], Contents(main)).done
      BY <1>5, <2>1, <3>1, PlanWriteHandles
    <3> QED BY <3>1, <3>2, <3>3
  <2>7. CASE Implement(p)
    <3>1. \/ ledger' = ledger
          \/ \E i \in Item : ledger' = [ledger EXCEPT ![p] = MarkDone(ledger[p], i)]
      BY <2>7 DEF Implement, TypeInv, TypeOK
    <3>2. \A i \in Item : MarkDone(ledger[p], i) \in Ledger /\ ledger[p].done \subseteq MarkDone(ledger[p], i).done
      BY <1>5, LedgerTypes DEF MarkDone, Ledger
    <3> QED BY <1>5, <2>1, <3>1, <3>2
  <2>8. CASE Record(p)
    <3>1. ledger'[p] = SetKey(ledger[p], "skill_release")
      BY <2>1, <2>8 DEF Record
    <3>2. SetKey(ledger[p], "skill_release").done = ledger[p].done
      BY <1>5 DEF SetKey, Ledger
    <3> QED BY <1>5, <3>1, <3>2, FlagsAre, LedgerTypes
  <2> QED BY <1>5, <2>2, <2>3, <2>4, <2>5, <2>6, <2>7, <2>8
<1> QED BY <1>1, <1>2, <1>3, <1>4, <1>5

\* The first release brings no rule, and no project has a report.
LEMMA BacktestInit == Init => BacktestInv
<1> SUFFICES ASSUME Init PROVE BacktestInv
  OBVIOUS
<1>1. Len(main) = 1 /\ main[1].adds = {} /\ canon = main
  BY DEF Init, Root
<1>2. ASSUME NEW p \in Project PROVE BacktestAt(p)
  <2>1. /\ tree[p].anchor = 0 /\ pc[p] \in {"new", "idle"} /\ ~report[p].fires
    BY ReleaseAssumption DEF Init, NoTree, NoReport
  <2> QED BY <2>1 DEF BacktestAt, Within, Working
<1> QED BY <1>1, <1>2 DEF BacktestInv, Within

\* A step brings no rule to a history that was not backtested.
LEMMA BacktestNext == TypeInv /\ TreeInv /\ BacktestInv /\ [Next]_vars => BacktestInv'
<1> SUFFICES ASSUME TypeInv, TypeInv', TreeInv, BacktestInv, [Next]_vars, ~torn' PROVE BacktestInv'
  BY TypeNext DEF BacktestInv
<1>1. /\ main \in Seq(Commit) /\ main' \in Seq(Commit) /\ canon \in Seq(Commit)
      /\ tree \in [Project -> Tree] /\ tree' \in [Project -> Tree] /\ todo \in [Project -> SUBSET Item]
      /\ \A p \in Project : TreeAt(p) /\ (pc[p] \in Releasing => ledger[p] \in Ledger)
  BY DEF TypeInv, TypeOK, TreeInv
<1>2. /\ backtested \subseteq backtested' /\ ~torn
      /\ \A p \in Project : ledger[p] \in Ledger =>
            ledger'[p] \in Ledger /\ ledger[p].done \subseteq ledger'[p].done
  BY MemorySteps
<1>3. /\ Within(main, Len(main), backtested) /\ Within(canon, Len(canon), backtested)
      /\ \A p \in Project : BacktestAt(p)
  BY <1>2 DEF BacktestInv
<1>4. ASSUME NEW h, NEW n, Within(h, n, backtested) PROVE Within(h, n, backtested')
  BY <1>2, <1>4 DEF Within
<1>5. Within(main', Len(main'), backtested')
  <2>1. CASE main' = main
    BY <1>3, <1>4, <2>1
  <2>2. CASE \E q \in Project : pc[q] = "pushMain" /\ main' = tree[q].head
    <3>1. PICK q \in Project : pc[q] = "pushMain" /\ main' = tree[q].head
      BY <2>2
    <3>2. Within(tree[q].head, Len(tree[q].head), backtested)
      BY <1>1, <1>3, <3>1, WithinWhole DEF BacktestAt, TreeAt
    <3> QED BY <1>4, <3>1, <3>2
  <2>3. CASE main' = canon
    BY <1>3, <1>4, <2>3
  <2> QED BY <2>1, <2>2, <2>3, MainSteps
<1>6. Within(canon', Len(canon'), backtested')
  <2>1. CASE canon' \in {canon, main}
    BY <1>3, <1>4, <2>1
  <2>2. CASE \E c \in Commit : c.adds = {} /\ canon' = Append(canon, c)
    <3>1. PICK c \in Commit : c.adds = {} /\ canon' = Append(canon, c)
      BY <2>2
    <3>2. /\ Len(canon') = Len(canon) + 1 /\ canon'[Len(canon) + 1] = c
          /\ \A k \in 1 .. Len(canon) : canon'[k] = canon[k]
      BY <1>1, <3>1
    <3>3. ASSUME NEW k \in 1 .. Len(canon') PROVE canon'[k].adds \cap RuleItem \subseteq backtested'
      <4>1. k # Len(canon) + 1 => k \in 1 .. Len(canon)
        BY <1>1, <3>2
      <4> QED BY <1>2, <1>3, <3>1, <3>2, <4>1 DEF Within
    <3> QED BY <3>3 DEF Within
  <2> QED BY <2>1, <2>2, CanonSteps
<1>7. ASSUME NEW p \in Project PROVE BacktestAt(p)'
  <2>1. /\ BacktestAt(p) /\ TreeAt(p) /\ tree[p] \in Tree /\ tree'[p] \in Tree
        /\ tree[p].anchor \in Nat /\ Len(tree[p].head) \in Nat
    BY <1>1, <1>3 DEF Tree
  \* the worktree
  <2>2. Within(tree'[p].head, tree'[p].anchor, backtested')
        /\ \/ NewAdds(tree'[p]) = NewAdds(tree[p])
           \/ NewAdds(tree'[p]) = {} /\ pc'[p] \notin {"tag", "pushMain"}
           \/ /\ report'[p] = report[p] /\ todo'[p] = todo[p]
              /\ pc'[p] \in {"tag", "pushMain"} => ~Gate(p)
              /\ \E s \in SUBSET todo[p] : /\ pc[p] \in {"tag", "pushMain"} => s = {}
                                           /\ NewAdds(tree'[p]) = NewAdds(tree[p]) \cup s
    <3>1. CASE tree'[p] = tree[p]
      BY <1>4, <2>1, <3>1 DEF BacktestAt
    <3>2. CASE pc'[p] = "implement" /\ \E g \in {main, canon} : tree'[p] = Branch(p, g)
      <4>1. PICK g \in {main, canon} : tree'[p] = Branch(p, g)
        BY <3>2
      <4>2. g \in Seq(Commit) /\ Within(g, Len(g), backtested')
        BY <1>1, <1>3, <1>4
      <4>3. tree'[p].head = g /\ tree'[p].anchor = Len(g) /\ tree'[p].dirty.adds = {}
        BY <4>1 DEF Branch, Clean
      <4>4. NewAdds(tree'[p]) = {}
        BY <4>2, <4>3 DEF NewAdds
      <4> QED BY <3>2, <4>2, <4>3, <4>4
    <3>3. CASE /\ pc[p] \in {"implement", "tag"}
               /\ UNCHANGED <<main, canon, todo, evidence, bounds>>
               /\ \E s \in SUBSET (todo[p] \ Done(tree[p])) :
                     /\ pc[p] = "tag" => s = {}
                     /\ Edits(tree[p], tree'[p], s) \/ Commits(tree[p], tree'[p], s)
      <4>1. PICK s \in SUBSET todo[p] : /\ pc[p] = "tag" => s = {}
                                        /\ Edits(tree[p], tree'[p], s) \/ Commits(tree[p], tree'[p], s)
        BY <3>3
      <4>2. s \in SUBSET Item /\ tree[p].anchor =< Len(tree[p].head)
        BY <1>1, <2>1 DEF TreeAt
      <4>3. /\ tree'[p].anchor = tree[p].anchor
            /\ \A k \in 1 .. tree[p].anchor : tree'[p].head[k] = tree[p].head[k]
            /\ NewAdds(tree'[p]) = NewAdds(tree[p]) \cup s
        BY <2>1, <4>1, <4>2, GrownTree
      <4>4. Within(tree'[p].head, tree'[p].anchor, backtested')
        BY <1>2, <2>1, <4>3 DEF BacktestAt, Within
      <4>5. ~Gate(p) /\ report'[p] = report[p] /\ todo'[p] = todo[p]
        BY <3>3 DEF Gate, At, evidence
      <4> QED BY <3>3, <4>1, <4>3, <4>4, <4>5
    <3> QED BY <3>1, <3>2, <3>3, TreeSteps
  <2>3. NewAdds(tree[p])' = NewAdds(tree'[p]) /\ WantedRules(p)' = WantedRules(p)
    BY DEF NewAdds, WantedRules
  \* the report
  <2>4. report'[p].fires =>
           /\ ledger'[p] \in Ledger
           /\ NewAdds(tree'[p]) \cap RuleItem \subseteq backtested'
           /\ todo'[p] \cap RuleItem \subseteq backtested'
           /\ WantedRules(p) \subseteq backtested' \cup ledger'[p].done
    <3> SUFFICES ASSUME report'[p].fires
                 PROVE  /\ ledger'[p] \in Ledger
                        /\ NewAdds(tree'[p]) \cap RuleItem \subseteq backtested'
                        /\ todo'[p] \cap RuleItem \subseteq backtested'
                        /\ WantedRules(p) \subseteq backtested' \cup ledger'[p].done
      OBVIOUS
    <3>1. CASE RunBacktest(p)
      <4>1. /\ pc[p] = "gate" /\ UNCHANGED <<tree, todo, ledger>> /\ report'[p] = Replay(p)
            /\ backtested' = backtested \cup (Contents(WithDirty(tree[p])) \cap RuleItem)
        BY <3>1 DEF RunBacktest, At, turnVars, TypeInv, TypeOK
      <4>2. NewAdds(tree[p]) \cap RuleItem \subseteq backtested' /\ todo[p] \subseteq NewAdds(tree[p])
        BY <2>1, <4>1, NewAddsAreIn DEF TreeAt
      <4>3. WantedRules(p) \subseteq todo[p] \cup backtested \cup ledger[p].done
        BY <2>1, <4>1 DEF BacktestAt, Working
      <4>4. WantedRules(p) \subseteq RuleItem /\ ledger[p] \in Ledger
        BY <1>1, <4>1 DEF WantedRules, Releasing, Branched
      <4> QED BY <1>2, <4>1, <4>2, <4>3, <4>4
    <3>2. CASE report'[p] = report[p]
      <4>1. /\ ledger[p] \in Ledger
            /\ NewAdds(tree[p]) \cap RuleItem \subseteq backtested
            /\ todo[p] \cap RuleItem \subseteq backtested
            /\ WantedRules(p) \subseteq backtested \cup ledger[p].done
        BY <2>1, <3>2 DEF BacktestAt
      <4>2. NewAdds(tree'[p]) \cap RuleItem \subseteq backtested'
        BY <1>2, <2>2, <4>1
      <4>3. todo'[p] \cap RuleItem \subseteq backtested'
        <5>1. CASE todo'[p] \in {todo[p], {}}
          BY <1>2, <4>1, <5>1
        <5>2. CASE Dedup(p)
          <6>1. todo'[p] = ToImplement(Wants[p], ledger[p], Contents(main))
            BY <1>1, <5>2 DEF Dedup
          <6> QED BY <1>2, <4>1, <6>1 DEF ToImplement, WantedRules
        <5> QED BY <5>1, <5>2, TurnSteps
      <4> QED BY <1>2, <4>1, <4>2, <4>3
    <3> QED BY <3>1, <3>2, TurnSteps
  \* the items
  <2>5. pc'[p] \in Working => WantedRules(p) \subseteq todo'[p] \cup backtested' \cup ledger'[p].done
    <3>1. CASE Dedup(p)
      <4>1. /\ todo'[p] = ToImplement(Wants[p], ledger[p], Contents(main))
            /\ ledger[p] \in Ledger
        BY <1>1, <3>1 DEF Dedup, At, Releasing
      <4>2. Contents(main) \cap RuleItem \subseteq backtested
        BY <1>1, <1>3 DEF Contents, Within
      <4> QED BY <1>2, <4>1, <4>2 DEF ToImplement, WantedRules
    <3>2. CASE pc[p] \in Working /\ todo'[p] = todo[p]
      <4>1. ledger[p] \in Ledger
        BY <1>1, <3>2 DEF Working, Releasing, Branched
      <4>2. WantedRules(p) \subseteq todo[p] \cup backtested \cup ledger[p].done
        BY <2>1, <3>2 DEF BacktestAt
      <4> QED BY <1>2, <3>2, <4>1, <4>2
    <3> QED BY <3>1, <3>2, TurnSteps
  \* the gates
  <2>6. pc'[p] \in {"tag", "pushMain"} => NewAdds(tree'[p]) \cap RuleItem \subseteq backtested'
    <3>1. CASE Gate(p)
      <4>1. UNCHANGED <<tree, report>>
        BY <3>1 DEF Gate, turnVars, evidence
      <4>2. CASE CheckNoBacktest(Changed(tree[p], tree[p].anchor))
        <5>1. Done(tree[p]) \cap RuleItem = {}
          BY <4>2 DEF CheckNoBacktest, TouchesRule, Done
        <5> QED BY <2>1, <4>1, <5>1, DoneIs DEF TreeAt
      <4>3. CASE \E adjudged \in Adjudications : CheckG4(report[p], adjudged, plan[p])
        <5>1. report'[p].fires
          BY <4>1, <4>3 DEF CheckG4
        <5> QED BY <2>4, <5>1
      <4> QED BY <3>1, <4>2, <4>3 DEF Gate
    <3>2. CASE pc[p] \in {"tag", "pushMain"}
      BY <1>2, <2>1, <2>2, <3>2 DEF BacktestAt
    <3> QED BY <3>1, <3>2, TurnSteps
  <2> QED BY <2>2, <2>3, <2>4, <2>5, <2>6 DEF BacktestAt, Within
<1> QED BY <1>5, <1>6, <1>7 DEF BacktestInv, Within

-----------------------------------------------------------------------------
(* Items that are released once                                            *)

\* What was added to a history and is not in its tree has been reverted.
LEMMA GoneIsDropped ==
    ASSUME NEW h \in Seq(Commit), NEW k \in 1 .. Len(h), NEW i \in Item, i \in h[k].adds,
           i \notin Contents(h)
    PROVE  \E l \in k + 1 .. Len(h) : i \in h[l].drops
BY DEF Contents

\* Commits without items on top of a history implement nothing twice.
LEMMA OnceExtended ==
    ASSUME NEW g \in Seq(Commit), NEW h \in Seq(Commit), OnceIn(g), Ancestor(g, h),
           \A k \in 1 .. Len(h) : h[k].adds # {} => k =< Len(g)
    PROVE  OnceIn(h)
<1> SUFFICES ASSUME NEW j \in 1 .. Len(h), NEW k \in 1 .. Len(h), NEW i \in h[j].adds \cap h[k].adds, j < k
             PROVE  \E l \in j .. k : i \in h[l].drops
  BY DEF OnceIn
<1>1. /\ j \in 1 .. Len(g) /\ k \in 1 .. Len(g) /\ \A l \in 1 .. Len(g) : h[l] = g[l]
      /\ \A l \in j .. k : l \in 1 .. Len(g)
  BY DEF Ancestor
<1>2. PICK l \in j .. k : i \in g[l].drops
  BY <1>1 DEF OnceIn
<1> QED BY <1>1, <1>2

\* What a history has above an ancestor does not take anything from it.
LEMMA OnceBelow ==
    ASSUME NEW h \in Seq(Commit), NEW c \in Commit, OnceIn(Append(h, c))
    PROVE  OnceIn(h)
<1> DEFINE g == Append(h, c)
<1>1. /\ Len(g) = Len(h) + 1 /\ Len(h) \in Nat
      /\ \A k \in 1 .. Len(h) : g[k] = h[k] /\ k \in 1 .. Len(g)
  OBVIOUS
<1>2. OnceIn(g)
  OBVIOUS
<1> HIDE DEF g
<1> SUFFICES ASSUME NEW j \in 1 .. Len(h), NEW k \in 1 .. Len(h), NEW i \in h[j].adds \cap h[k].adds, j < k
             PROVE  \E l \in j .. k : i \in h[l].drops
  BY DEF OnceIn
<1>3. \A l \in j .. k : l \in 1 .. Len(h)
  OBVIOUS
<1>4. PICK l \in j .. k : i \in g[l].drops
  BY <1>1, <1>2 DEF OnceIn
<1> QED BY <1>1, <1>3, <1>4

\* Items that went back, or never were, can be implemented (codex).
LEMMA OnceGrown ==
    ASSUME NEW h \in Seq(Commit), NEW c \in Commit, NEW d \in Commit,
           OnceIn(Append(h, c)), c.drops = {},
           \A i \in d.adds \ c.adds : \A j \in 1 .. Len(h) :
               i \in h[j].adds => \E l \in j + 1 .. Len(h) : i \in h[l].drops
    PROVE  OnceIn(Append(h, d))
<1> DEFINE g == Append(h, c)
           f == Append(h, d)
           m == Len(h) + 1
<1>1. /\ Len(h) \in Nat /\ Len(g) = m /\ Len(f) = m /\ g[m] = c /\ f[m] = d
      /\ \A k \in 1 .. Len(h) : g[k] = h[k] /\ f[k] = h[k]
      /\ \A k \in 1 .. m : k # m => k \in 1 .. Len(h)
  OBVIOUS
<1>2. OnceIn(g)
  OBVIOUS
<1> HIDE DEF g, f, m
<1>3. ASSUME NEW j \in 1 .. m, NEW k \in 1 .. m, NEW i, i \in g[j].adds, i \in g[k].adds, j < k
      PROVE  \E l \in j .. k : i \in f[l].drops
  <2>1. PICK l \in j .. k : i \in g[l].drops
    BY <1>1, <1>2, <1>3 DEF OnceIn
  <2>2. l # m
    BY <1>1, <2>1
  <2>3. l \in 1 .. Len(h)
    BY <1>1, <1>3, <2>2 DEF m
  <2> QED BY <1>1, <2>1, <2>3
<1>4. ASSUME NEW j \in 1 .. m, NEW k \in 1 .. m, NEW i \in f[j].adds \cap f[k].adds, j < k
      PROVE  \E l \in j .. k : i \in f[l].drops
  <2>1. j \in 1 .. Len(h) /\ f[j] = h[j] /\ g[j] = h[j]
    BY <1>1, <1>4 DEF m
  <2>2. CASE k # m
    <3>1. f[k] = g[k]
      BY <1>1, <2>2
    <3> QED BY <1>3, <1>4, <2>1, <3>1
  <2>3. CASE k = m /\ i \in c.adds
    BY <1>1, <1>3, <1>4, <2>1, <2>3
  <2>4. CASE k = m /\ i \notin c.adds
    <3>1. PICK l \in j + 1 .. Len(h) : i \in h[l].drops
      BY <1>1, <1>4, <2>1, <2>4
    <3>2. l \in j .. k /\ l \in 1 .. Len(h)
      BY <1>1, <2>4 DEF m
    <3> QED BY <1>1, <3>1, <3>2
  <2> QED BY <2>2, <2>3, <2>4
<1>5. OnceIn(f)
  BY <1>1, <1>4 DEF OnceIn
<1> QED BY <1>5 DEF f

\* The first release adds no item, and no worktree is there.
LEMMA OnceInit == Init => OnceInv
<1> SUFFICES ASSUME Init PROVE OnceInv
  OBVIOUS
<1>1. main = <<Root>> /\ Len(main) = 1 /\ main[1].adds = {}
  BY DEF Init, Root
<1>2. OnceIn(main)
  BY <1>1 DEF OnceIn
<1>3. ASSUME NEW p \in Project PROVE OnceAt(p)
  <2>1. tree[p].head = <<>> /\ pc[p] \in {"new", "idle"}
    BY ReleaseAssumption DEF Init, NoTree
  <2>2. ~Ancestor(main, tree[p].head)
    BY <1>1, <2>1 DEF Ancestor
  <2> QED BY <2>1, <2>2 DEF OnceAt, Working
<1> QED BY <1>2, <1>3 DEF OnceInv

\* One more change in a worktree that main would take implements no item
\* that main has.
LEMMA OnceInTree ==
    ASSUME TypeInv, TypeInv', TreeInv, OnceIn(main), NEW p \in Project, OnceAt(p),
           NEW s \in SUBSET (todo[p] \ Done(tree[p])),
           s # {} => todo[p] \cap Contents(main) = {},
           Edits(tree[p], tree'[p], s) \/ Commits(tree[p], tree'[p], s),
           Ancestor(main, tree'[p].head)
    PROVE  OnceIn(Whole(tree'[p]))
<1> DEFINE t == tree[p]
           u == tree'[p]
<1>1. /\ t \in Tree /\ u \in Tree /\ TreeAt(p) /\ main \in Seq(Commit) /\ todo[p] \in SUBSET Item
  BY DEF TypeInv, TypeOK, TreeInv
<1>2. /\ t.head \in Seq(Commit) /\ t.dirty \in Commit /\ t.anchor \in Nat /\ t.anchor =< Len(t.head)
      /\ u.head \in Seq(Commit) /\ u.dirty \in Commit
      /\ Behind(t.head, t.anchor) /\ t.dirty.drops = {}
  BY <1>1 DEF Tree, TreeAt
<1>3. s \subseteq Item /\ s \cap NewAdds(t) = {}
  BY <1>1, <1>2, DoneIs
<1>4. Ancestor(main, t.head) => OnceIn(Append(t.head, t.dirty))
  BY DEF OnceAt, Whole
<1>5. /\ Edits(t, u, s) \/ Commits(t, u, s)
      /\ Ancestor(main, u.head)
      /\ s # {} => s \cap Contents(main) = {}
      /\ Whole(u) = Append(u.head, u.dirty)
  BY DEF Whole
<1> HIDE DEF t, u
<1>6. ASSUME Ancestor(main, t.head), NEW d \in Commit, d.adds = t.dirty.adds \cup s
      PROVE  OnceIn(Append(t.head, d))
  <2>1. ASSUME NEW i \in s, NEW j \in 1 .. Len(t.head), i \in t.head[j].adds
        PROVE  \E l \in j + 1 .. Len(t.head) : i \in t.head[l].drops
    <3>1. ~(j \in t.anchor + 1 .. Len(t.head))
      BY <1>3, <2>1 DEF NewAdds
    <3>2. j \in 1 .. t.anchor
      BY <1>2, <3>1
    <3>3. j \in 1 .. Len(main)
      BY <1>1, <1>2, <2>1, <3>2 DEF Behind
    <3>4. /\ Len(main) =< Len(t.head) /\ main[j] = t.head[j]
          /\ \A l \in j + 1 .. Len(main) : l \in j + 1 .. Len(t.head) /\ main[l] = t.head[l]
      BY <1>1, <1>2, <1>6, <3>3 DEF Ancestor
    <3>5. i \in Item /\ i \notin Contents(main)
      BY <1>3, <1>5
    <3>6. \E l \in j + 1 .. Len(main) : i \in main[l].drops
      BY <1>1, <2>1, <3>3, <3>4, <3>5, GoneIsDropped
    <3> QED BY <3>4, <3>6
  <2> QED BY <1>2, <1>4, <1>6, <2>1, OnceGrown
<1>7. CASE Edits(t, u, s)
  <2>1. u.head = t.head /\ u.dirty.adds = t.dirty.adds \cup s
    BY <1>7 DEF Edits
  <2> QED BY <1>2, <1>5, <1>6, <2>1 DEF u
<1>8. CASE Commits(t, u, s)
  <2>1. /\ u.dirty.adds = {}
        /\ \E c \in Commit : u.head = Append(t.head, c) /\ c.adds = t.dirty.adds \cup s
    BY <1>8 DEF Commits
  <2>2. PICK c \in Commit : u.head = Append(t.head, c) /\ c.adds = t.dirty.adds \cup s
    BY <2>1
  <2>3. /\ Len(u.head) = Len(t.head) + 1 /\ Len(t.head) \in Nat
        /\ \A k \in 1 .. Len(t.head) : u.head[k] = t.head[k]
    BY <1>2, <2>2
  <2>4. OnceIn(u.head)
    <3>1. CASE Len(main) =< Len(t.head)
      <4>1. Ancestor(main, t.head)
        BY <1>1, <1>5, <2>3, <3>1 DEF Ancestor
      <4> QED BY <1>6, <2>2, <4>1
    <3>2. CASE Len(main) > Len(t.head)
      <4>1. \A k \in 1 .. Len(u.head) : k =< Len(main)
        BY <1>1, <2>3, <3>2
      <4> QED BY <1>1, <1>2, <1>5, <4>1, OnceExtended
    <3> QED BY <1>1, <2>3, <3>1, <3>2
  <2>5. /\ Append(u.head, u.dirty) \in Seq(Commit) /\ Ancestor(u.head, Append(u.head, u.dirty))
        /\ \A k \in 1 .. Len(Append(u.head, u.dirty)) :
              Append(u.head, u.dirty)[k].adds # {} => k =< Len(u.head)
    BY <1>2, <2>1 DEF Ancestor
  <2> QED BY <1>2, <1>5, <2>4, <2>5, OnceExtended DEF u
<1> QED BY <1>5, <1>7, <1>8

\* A step implements no item again but after a rollback.
LEMMA OnceNext == TypeInv /\ LeaseInv /\ TreeInv /\ OnceInv /\ [Next]_vars => OnceInv'
<1> SUFFICES ASSUME TypeInv, TypeInv', LeaseInv, TreeInv, OnceInv, [Next]_vars, ~overrun' PROVE OnceInv'
  BY TypeNext DEF OnceInv
<1>1. /\ main \in Seq(Commit) /\ main' \in Seq(Commit) /\ canon \in Seq(Commit)
      /\ tree \in [Project -> Tree] /\ tree' \in [Project -> Tree] /\ todo \in [Project -> SUBSET Item]
      /\ Behind(canon, Len(canon))
  BY DEF TypeInv, TypeOK, TreeInv
<1>2. OnceIn(main) /\ \A p \in Project : OnceAt(p)
  BY MemorySteps DEF OnceInv
<1>3. \A a \in Actor : pc[a] \in Locked => holder = a
  BY MemorySteps DEF LeaseInv
<1>4. Ancestor(main, main')
  BY MainSteps
<1>5. OnceIn(main')
  <2>1. CASE \E q \in Project : pc[q] = "pushMain" /\ main' = tree[q].head
    <3>1. PICK q \in Project : pc[q] = "pushMain" /\ main' = tree[q].head
      BY <2>1
    <3>2. OnceIn(Append(tree[q].head, tree[q].dirty)) /\ tree[q].dirty \in Commit
      BY <1>1, <1>2, <1>4, <3>1 DEF OnceAt, Whole, Tree
    <3> QED BY <1>1, <3>1, <3>2, OnceBelow
  <2>2. CASE main' = canon
    BY <1>1, <1>2, <1>4, <2>2, OnceExtended DEF Behind
  <2> QED BY <1>2, <2>1, <2>2, MainSteps
<1>6. ASSUME NEW p \in Project PROVE OnceAt(p)'
  <2>1. ASSUME pc'[p] \in Working PROVE todo'[p] \cap Contents(main') = {}
    <3>1. CASE Dedup(p)
      <4>1. todo'[p] = ToImplement(Wants[p], ledger[p], Contents(main)) /\ main' = main
        BY <1>1, <3>1 DEF Dedup, skill
      <4> QED BY <4>1 DEF ToImplement
    <3>2. CASE pc[p] \in Working /\ todo'[p] = todo[p]
      <4>1. p \in Actor /\ holder = p
        BY <1>3, <3>2, ReleaseAssumption DEF Working, Locked
      <4>2. \A q \in Project : pc[q] # "pushMain"
        BY <1>3, <3>2, <4>1, ReleaseAssumption DEF Working, Locked
      <4>3. pc[Operator] # "pushRevert"
        BY <1>3, <4>1, ReleaseAssumption DEF Locked
      <4>4. main' = main
        BY <4>2, <4>3, MainSteps
      <4> QED BY <1>2, <3>2, <4>4 DEF OnceAt
    <3> QED BY <2>1, <3>1, <3>2, TurnSteps
  <2>2. ASSUME Ancestor(main', tree'[p].head) PROVE OnceIn(Whole(tree'[p]))
    <3>1. tree[p] \in Tree /\ tree'[p] \in Tree /\ tree[p].head \in Seq(Commit) /\ tree'[p].head \in Seq(Commit)
      BY <1>1 DEF Tree
    <3>2. Ancestor(main, tree'[p].head)
      BY <1>1, <1>4, <2>2, <3>1, AncestorTransitive
    <3>3. CASE tree'[p] = tree[p]
      BY <1>2, <3>2, <3>3 DEF OnceAt
    <3>4. CASE \E g \in {main, canon} : tree'[p] = Branch(p, g)
      <4>1. PICK g \in {main, canon} : tree'[p] = Branch(p, g)
        BY <3>4
      <4> DEFINE c == Clean(p)
      <4>2. tree'[p].head = g /\ Whole(tree'[p]) = Append(g, c) /\ c.adds = {}
        BY <4>1 DEF Branch, Whole, Clean
      <4>3. g \in Seq(Commit) /\ c \in Commit /\ Behind(g, Len(g))
        BY <1>1, CleanIsCommit, ReleaseAssumption DEF Behind
      <4> HIDE DEF c
      <4>4. /\ Append(g, c) \in Seq(Commit) /\ Len(Append(g, c)) = Len(g) + 1
            /\ Append(g, c)[Len(g) + 1] = c /\ \A k \in 1 .. Len(g) : Append(g, c)[k] = g[k]
        BY <4>3
      <4>5. Ancestor(main, Append(g, c))
        BY <1>1, <3>2, <4>2, <4>3, <4>4 DEF Ancestor
      <4>6. ASSUME NEW k \in 1 .. Len(Append(g, c)), Append(g, c)[k].adds # {} PROVE k =< Len(main)
        BY <4>2, <4>3, <4>4, <4>6 DEF Behind
      <4> QED BY <1>1, <1>2, <4>2, <4>4, <4>5, <4>6, OnceExtended
    <3>5. CASE /\ pc[p] \in {"implement", "tag"}
               /\ \E s \in SUBSET (todo[p] \ Done(tree[p])) :
                     /\ pc[p] = "tag" => s = {}
                     /\ Edits(tree[p], tree'[p], s) \/ Commits(tree[p], tree'[p], s)
      <4>1. PICK s \in SUBSET (todo[p] \ Done(tree[p])) :
                     /\ pc[p] = "tag" => s = {}
                     /\ Edits(tree[p], tree'[p], s) \/ Commits(tree[p], tree'[p], s)
        BY <3>5
      <4>2. s # {} => todo[p] \cap Contents(main) = {}
        BY <1>2, <3>5, <4>1 DEF OnceAt, Working
      <4> QED BY <1>2, <3>2, <4>1, <4>2, OnceInTree
    <3> QED BY <3>3, <3>4, <3>5, TreeSteps
  <2>3. Contents(main)' = Contents(main') /\ Whole(tree[p])' = Whole(tree'[p])
    BY DEF Contents, Whole
  <2> QED BY <2>1, <2>2, <2>3 DEF OnceAt
<1> QED BY <1>5, <1>6 DEF OnceInv

-----------------------------------------------------------------------------
(* The history origin sees                                                 *)

\* Nobody releases in the first state.
LEMMA HistoryInit == Init => HistoryInv
<1> SUFFICES ASSUME Init PROVE HistoryInv
  OBVIOUS
<1>1. \A p \in Project : pc[p] \in {"new", "idle"}
  BY ReleaseAssumption DEF Init
<1> QED BY <1>1 DEF HistoryInv, HistoryAt, Planned, Branched, Pushing

\* A step keeps candidates apart, and what they are built on.
LEMMA HistoryNext == TypeInv /\ TagInv /\ HistoryInv /\ [Next]_vars => HistoryInv'
<1> SUFFICES ASSUME TypeInv, TagInv, HistoryInv, [Next]_vars PROVE HistoryInv'
  OBVIOUS
<1>1. /\ pc \in [Actor -> Position] /\ plan \in [Project -> [baseline : 0 .. MaxVersion, candidate : 0 .. MaxVersion]]
      /\ tree \in [Project -> Tree] /\ published \in SUBSET Version
      /\ tags \in [Version -> Seq(Commit)]
      /\ \A p \in Project : pc[p] \in Planned => plan[p].candidate \in Version
      /\ \A v \in published : tags[v] # <<>>
      /\ \A p \in Project : HistoryAt(p)
      /\ Operator \notin Project /\ Project \subseteq Actor /\ Operator \in Actor
  BY ReleaseAssumption DEF TypeInv, TypeOK, TagInv, TagsAreOnMain, HistoryInv
<1> USE DEF At, Goto, Position, Locked, Branched, Planned, Pushing, skill, turnVars, fleetVars, evidence, bounds
\* the end of a turn
<1>2. ASSUME NEW a \in Actor, Stop(a), UNCHANGED <<tags, published>> PROVE HistoryInv'
  <2>1. /\ pc'[a] \in {"new", "idle"}
        /\ \A b \in Actor \ {a} : pc'[b] = pc[b]
        /\ \A p \in Project \ {a} : plan'[p] = plan[p] /\ tree'[p] = tree[p]
    BY <1>2, StopTypes
  <2>2. ASSUME NEW p \in Project PROVE HistoryAt(p)'
    BY <1>1, <1>2, <2>1, ZenonT(60) DEF HistoryAt
  <2> QED BY <2>2 DEF HistoryInv
\* a step that starts no push
<1>3. ASSUME UNCHANGED <<tags, published, plan, tree>>,
             \A p \in Project : \/ pc'[p] = pc[p]
                                \/ pc'[p] \notin Planned
                                \/ pc[p] \in Planned /\ pc'[p] \in {"worktree", "implement"}
                                \/ pc[p] = "gate" /\ pc'[p] = "tag"
                                \/ pc[p] = "pushMain" /\ pc'[p] = "pushTag"
      PROVE  HistoryInv'
  <2>1. ASSUME NEW p \in Project PROVE HistoryAt(p)'
    <3>1. \A q \in Project : pc'[q] \in Pushing => pc[q] \in Pushing
      BY <1>3
    <3> QED BY <1>1, <1>3, <3>1 DEF HistoryAt
  <2> QED BY <2>1 DEF HistoryInv
<1>4. ASSUME NEW a \in Actor, Acquire(a) \/ Overrun(a) PROVE HistoryInv'
  BY <1>1, <1>3, <1>4 DEF Acquire, Overrun, Begin, MayStart
<1>5. ASSUME NEW a \in Actor, LoseLock(a) \/ Release(a) \/ Die(a) PROVE HistoryInv'
  BY <1>2, <1>5 DEF LoseLock, Release, Die, Dies
<1>6. ASSUME NEW a \in Actor, PushFails(a) PROVE HistoryInv'
  BY <1>1, <1>3, <1>6 DEF PushFails
<1>7. ASSUME NEW p \in Project,
             Seed(p) \/ SeedFails(p) \/ FleetRead(p) \/ FleetReplace(p) \/ Open(p) \/ Advance(p)
             \/ RunBacktest(p) \/ Gate(p) \/ GateFails(p) \/ PushMain(p) \/ Record(p) \/ Dedup(p)
      PROVE  HistoryInv'
  BY <1>1, <1>3, <1>7 DEF Seed, SeedFails, FleetRead, FleetReplace, Open, Advance, RunBacktest,
     Gate, GateFails,     PushMain, Record, Dedup
<1>8. ASSUME NEW p \in Project, DieSaving(p) PROVE HistoryInv'
  BY <1>1, <1>2, <1>8 DEF DieSaving, Dies
<1>9. ASSUME Revert \/ PushRevert \/ Pull \/ UNCHANGED vars PROVE HistoryInv'
  BY <1>1, <1>3, <1>9 DEF Revert, PushRevert, Pull, vars
<1>10. ASSUME NEW p \in Project, ReleasePlan(p) PROVE HistoryInv'
  <2>1. /\ UNCHANGED <<tags, published, tree>>
        /\ \A q \in Project \ {p} : pc'[q] = pc[q] /\ plan'[q] = plan[q]
        /\ pc'[p] = "dedup" /\ plan'[p] = [baseline |-> Latest, candidate |-> Latest + 1]
    BY <1>1, <1>10 DEF ReleasePlan
  <2>2. Latest \in Version /\ tags[Latest] # <<>>
    BY LatestIsVersion DEF TypeInv
  <2>3. ASSUME NEW q \in Project \ {p} PROVE HistoryAt(q)'
    BY <1>1, <2>1, ZenonT(60) DEF HistoryAt
  <2>4. HistoryAt(p)'
    BY <2>1, <2>2 DEF HistoryAt
  <2> QED BY <2>3, <2>4 DEF HistoryInv
<1>11. ASSUME NEW p \in Project, Worktree(p) \/ Implement(p) PROVE HistoryInv'
  <2>1. /\ UNCHANGED <<tags, published, plan>> /\ pc'[p] = "implement" /\ pc[p] \in Planned
        /\ \A q \in Project \ {p} : pc'[q] = pc[q] /\ tree'[q] = tree[q]
    BY <1>1, <1>11 DEF Worktree, Implement
  <2>2. ASSUME NEW q \in Project PROVE HistoryAt(q)'
    BY <1>1, <2>1 DEF HistoryAt
  <2> QED BY <2>2 DEF HistoryInv
<1>12. ASSUME NEW p \in Project, Bump(p) PROVE HistoryInv'
  <2>1. /\ UNCHANGED <<tags, published, plan>> /\ pc'[p] = "gate" /\ pc[p] = "implement"
        /\ \A q \in Project \ {p} : pc'[q] = pc[q] /\ tree'[q] = tree[q]
    BY <1>1, <1>12 DEF Bump
  <2>2. ASSUME NEW q \in Project PROVE HistoryAt(q)'
    BY <1>1, <2>1 DEF HistoryAt
  <2> QED BY <2>2 DEF HistoryInv
<1>13. ASSUME NEW p \in Project, Tag(p) PROVE HistoryInv'
  <2>1. /\ UNCHANGED <<published, plan>> /\ pc[p] = "tag"
        /\ \A q \in Project \ {p} : pc'[q] = pc[q] /\ tree'[q] = tree[q]
        /\ \/ pc'[p] = "release" /\ UNCHANGED tags
           \/ /\ pc'[p] = "pushMain" /\ tags[plan[p].candidate] = <<>>
              /\ tags' = [tags EXCEPT ![plan[p].candidate] = WithDirty(tree[p])]
    BY <1>1, <1>13 DEF Tag
  <2>2. \A v \in Version : tags[v] # <<>> => tags'[v] = tags[v]
    BY <1>1, <2>1
  <2>3. \A q \in Project : pc[q] \in Pushing => tags[plan[q].candidate] # <<>>
    BY DEF TypeInv, TagInv, TagAt, Rooted
  <2>4. ASSUME NEW q \in Project \ {p} PROVE HistoryAt(q)'
    <3>1. pc[q] \in Pushing /\ pc'[p] \in Pushing => plan[q].candidate # plan[p].candidate
      BY <2>1, <2>3
    <3>2. pc[q] \in Planned => tags'[plan[q].baseline] # <<>>
      BY <1>1, <2>2 DEF HistoryAt
    <3> QED BY <1>1, <2>1, <3>1, <3>2 DEF HistoryAt
  <2>5. HistoryAt(p)'
    BY <1>1, <2>1, <2>2, <2>3 DEF HistoryAt
  <2> QED BY <2>4, <2>5 DEF HistoryInv
<1>14. ASSUME NEW p \in Project, PushTag(p) PROVE HistoryInv'
  <2>1. /\ UNCHANGED <<tags, plan, tree>> /\ pc[p] = "pushTag" /\ pc'[p] = "record"
        /\ published' = published \cup {plan[p].candidate}
        /\ \A q \in Project \ {p} : pc'[q] = pc[q]
    BY <1>1, <1>14 DEF PushTag
  <2>2. ASSUME NEW q \in Project PROVE HistoryAt(q)'
    BY <1>1, <2>1 DEF HistoryAt
  <2> QED BY <2>2 DEF HistoryInv
<1> QED
  BY <1>4, <1>5, <1>6, <1>7, <1>8, <1>9, <1>10, <1>11, <1>12, <1>13, <1>14 DEF Next, Turn, Stage4

\* The first state is a history with its first version.
LEMMA HistoryStarts == Init => H!Init
<1> SUFFICES ASSUME Init PROVE H!Init
  OBVIOUS
<1>1. main = <<Root>> /\ Root.bump = 1
  BY DEF Init, Root
<1>2. main # <<>> /\ DOMAIN main = {1} /\ main[1] = Root
  BY <1>1
<1>3. H!Bumped(main) = 1
  <2>1. {k \in DOMAIN main : main[k].bump # 0} = {1}
    BY <1>1, <1>2
  <2>2. (CHOOSE k \in {1} : \A j \in {1} : j =< k) = 1
    OBVIOUS
  <2> QED BY <1>1, <1>2, <2>1, <2>2 DEF H!Bumped
<1> QED BY <1>2, <1>3 DEF Init, H!Init, H!Version, Version

\* A step of a turn is a step of the history, or none.
LEMMA HistoryStep ==
    TypeInv /\ TagInv /\ TreeInv /\ HistoryInv /\ [Next]_vars => [H!Next]_H!hvars
<1> SUFFICES ASSUME TypeInv, TagInv, TreeInv, HistoryInv, [Next]_vars,
                    ~UNCHANGED <<main, tags, published>>
             PROVE  H!Next
  BY DEF H!hvars
<1>1. /\ plan \in [Project -> [baseline : 0 .. MaxVersion, candidate : 0 .. MaxVersion]]
      /\ tree \in [Project -> Tree] /\ tags \in [Version -> Seq(Commit)]
      /\ main \in Seq(Commit) /\ canon \in Seq(Commit)
      /\ \A p \in Project : pc[p] \in Planned => plan[p].candidate \in Version
      /\ \A p \in Project : HistoryAt(p) /\ TagAt(p)
  BY DEF TypeInv, TypeOK, TagInv, HistoryInv
<1>2. H!Version = Version /\ \A g, h : H!Ancestor(g, h) <=> Ancestor(g, h)
  BY DEF H!Version, Version, H!Ancestor, Ancestor
<1>3. \A h : H!Bumped(h) = Bumped(h)
  BY DEF H!Bumped, Bumped
<1>4. \/ \E p \in Project : Tag(p) \/ PushMain(p) \/ PushTag(p)
      \/ PushRevert
  BY DEF Next, Turn, Stage4, Acquire, Overrun, Begin, LoseLock, Release, PushFails, Die, Dies, Seed,
         SeedFails, FleetRead, FleetReplace, Open, Advance, ReleasePlan, Dedup, Worktree, Implement,
         Bump, RunBacktest, Gate, GateFails, Record, DieSaving, Revert, Pull, vars, skill
<1>5. ASSUME NEW p \in Project, Tag(p) PROVE H!Next
  <2> DEFINE v == plan[p].candidate
  <2>1. pc[p] = "tag" /\ v \in Version /\ tree[p] \in Tree /\ Rooted(tree[p].head)
    BY <1>1, <1>5 DEF Tag, At, Planned, Branched, TypeInv
  <2>2. v - 1 = plan[p].baseline /\ v - 1 \in Version /\ tags[v - 1] # <<>>
        /\ Bumped(WithDirty(tree[p])) = v
    BY <1>1, <2>1, GateAssumption DEF HistoryAt, TagAt, Planned, Branched, Version
  <2>3. WithDirty(tree[p]) # <<>>
    BY <2>1, WithDirtyIs DEF Rooted
  <2>4. /\ tags[v] = <<>> /\ tags' = [tags EXCEPT ![v] = WithDirty(tree[p])]
        /\ UNCHANGED <<main, published>>
    BY <1>5 DEF Tag
  <2>5. tags'[v] = WithDirty(tree[p])
    BY <1>1, <2>1, <2>4
  <2>6. H!Tag(v)
    <3> HIDE DEF v
    <3> QED BY <1>2, <1>3, <2>2, <2>3, <2>4, <2>5 DEF H!Tag
  <2> QED BY <1>2, <2>1, <2>6 DEF H!Next
<1>6. ASSUME NEW p \in Project, PushMain(p) PROVE H!Next
  <2> DEFINE v == plan[p].candidate
  <2>1. pc[p] = "pushMain" /\ v \in Version /\ tags[v] = tree[p].head /\ v \notin published
        /\ Rooted(tree[p].head)
    BY <1>1, <1>6 DEF PushMain, At, Planned, Branched, Pushing, HistoryAt, TagAt, TypeInv
  <2>2. Ancestor(main, tree[p].head) /\ main' = tree[p].head /\ UNCHANGED <<tags, published>>
    BY <1>6 DEF PushMain
  <2>3. H!Release(v)
    <3> HIDE DEF v
    <3> QED BY <1>2, <2>1, <2>2 DEF H!Release, Rooted
  <2> QED BY <1>2, <2>1, <2>3 DEF H!Next
<1>7. ASSUME NEW p \in Project, PushTag(p) PROVE H!Next
  <2> DEFINE v == plan[p].candidate
  <2>1. pc[p] = "pushTag" /\ v \in Version /\ tags[v] # <<>> /\ Ancestor(tags[v], main) /\ v \notin published
    BY <1>1, <1>7 DEF PushTag, At, Planned, Branched, Pushing, HistoryAt, TagAt
  <2>2. published' = published \cup {v} /\ UNCHANGED <<main, tags>>
    BY <1>7 DEF PushTag
  <2>3. H!Publish(v)
    <3> HIDE DEF v
    <3> QED BY <1>2, <2>1, <2>2 DEF H!Publish
  <2> QED BY <1>2, <2>1, <2>3 DEF H!Next
<1>8. ASSUME PushRevert PROVE H!Next
  <2>1. Ancestor(main, canon) /\ main' = canon /\ UNCHANGED <<tags, published>>
    BY <1>8 DEF PushRevert
  <2>2. ASSUME NEW k \in Len(main) + 1 .. Len(canon) PROVE canon[k].adds = {}
    BY <1>1 DEF TreeInv, Behind
  <2>3. H!Amend
    BY <1>2, <2>1, <2>2 DEF H!Amend
  <2> QED BY <2>3 DEF H!Next
<1> QED BY <1>4, <1>5, <1>6, <1>7, <1>8

-----------------------------------------------------------------------------
(* Theorems                                                                *)

\* The types, and a root under every history.
THEOREM TypeInvariance == Spec => []TypeInv
BY TypeInit, TypeNext, PTL DEF Spec

\* Every variable keeps its type: a version that is planned, bumped, tagged
\* or gone back to is one there is.
THEOREM TypeCorrect == Spec => []TypeOK
<1>1. TypeInv => TypeOK
  BY DEF TypeInv
<1> QED BY <1>1, TypeInvariance, PTL

\* As long as no lease runs out, what is done under SKILL.lock is done by
\* its holder.
THEOREM LeaseInvariance == Spec => []LeaseInv
BY TypeInvariance, LeaseInit, LeaseNext, PTL DEF Spec

\* Concurrent inits lose no enrolment, as long as no lease runs out.
THEOREM FleetIsKept == Spec => []FleetKeepsAll
<1>1. LeaseInv => FleetKeepsAll
  BY DEF LeaseInv, FleetKeepsAll
<1> QED BY <1>1, LeaseInvariance, PTL

\* No lock needed: the histories keep their tags.
THEOREM TagInvariance == Spec => []TagInv
BY TypeInvariance, TagInit, TagNext, PTL DEF Spec

\* A version on origin has its tag, and the tag is on main.
THEOREM PublishedIsOnMain == Spec => []TagsAreOnMain
<1>1. TagInv => TagsAreOnMain
  BY DEF TagInv
<1> QED BY <1>1, TagInvariance, PTL

\* What a project brings to main, from whatever worktree, is part of a
\* version that is tagged, on main, and says it is that version.
THEOREM ReleaseIsItsTag == Spec => []TaggedAsPushed
<1>1. TagInv => TaggedAsPushed
  BY DEF TagInv, Covered, TaggedAsPushed
<1> QED BY <1>1, TagInvariance, PTL

\* A closed ledger leaves no item behind.
THEOREM NothingIsLeftBehind == Spec => []ClosedIsHandled
<1>1. HandledInv => ClosedIsHandled
  BY DEF HandledInv, HandledAt, Handled, Landed, ClosedIsHandled
<1>2. Spec => []HandledInv
  BY TypeInvariance, HandledInit, HandledNext, PTL DEF Spec
<1> QED BY <1>1, <1>2, PTL

\* The worktrees, in use or left behind, keep what is below their anchors.
THEOREM TreeInvariance == Spec => []TreeInv
BY TypeInvariance, TreeInit, TreeNext, PTL DEF Spec

\* Whatever dies, goes on in an old worktree, takes an old report or is
\* rolled back: no rule is on main that no backtest showed to fire, unless a
\* ledger was torn.
THEOREM RulesAreBacktested == Spec => []RuleIsBacktested
<1>1. TypeInv /\ BacktestInv => RuleIsBacktested
  <2>1. TypeInv => DOMAIN main = 1 .. Len(main)
    BY DEF TypeInv, TypeOK
  <2> QED BY <2>1 DEF BacktestInv, Within, RuleIsBacktested
<1>2. Spec => []BacktestInv
  BY TypeInvariance, TreeInvariance, BacktestInit, BacktestNext, PTL DEF Spec
<1> QED BY <1>1, <1>2, TypeInvariance, PTL

\* The items, in main and in the worktrees main would take.
THEOREM OnceInvariance == Spec => []OnceInv
BY TypeInvariance, LeaseInvariance, TreeInvariance, OnceInit, OnceNext, PTL DEF Spec

\* As long as no lease runs out, no item is on main twice but after a
\* rollback.
THEOREM ItemsAreOnce == Spec => []ItemsOnce
<1>1. TypeInv /\ OnceInv => ItemsOnce
  <2>1. TypeInv => DOMAIN main = 1 .. Len(main)
    BY DEF TypeInv, TypeOK
  <2> QED BY <2>1 DEF OnceInv, OnceIn, ItemsOnce
<1> QED BY <1>1, OnceInvariance, TypeInvariance, PTL

\* For projects that name their target cycles: a rule that fires on them can
\* pass G4, its misfires adjudicated, unless it was rolled back.
THEOREM RulesCanPass ==
    ASSUME \A p \in Project : Targets[p] # {}
    PROVE  Spec => []RuleCanPass
<1>1. TypeInv /\ TagInv /\ TreeInv /\ OnceInv => RuleCanPass
  <2> SUFFICES ASSUME TypeInv, TagInv, TreeInv, OnceInv,
                      NEW p \in Project, ~overrun, pc[p] = "gate", plan[p].baseline \in published,
                      NEW i \in todo[p] \cap RuleItem, Targets[p] \subseteq Fires[i],
                      \A k \in DOMAIN main : i \notin main[k].drops
               PROVE  \E adjudged \in Adjudications : CheckG4(Replay(p), adjudged, plan[p])
    BY DEF RuleCanPass, At
  <2> DEFINE t == tree[p]
             g == WithDirty(t)
             base == tags[plan[p].baseline]
  <2>1. /\ t \in Tree /\ main \in Seq(Commit) /\ base \in Seq(Commit) /\ i \in Item
        /\ Ancestor(base, main)
    BY DEF TypeInv, TypeOK, TagInv, TagsAreOnMain
  <2>2. /\ t.anchor =< Len(t.head) /\ i \in NewAdds(t) /\ i \notin Contents(main)
        /\ \A k \in t.anchor + 1 .. Len(t.head) : t.head[k].drops = {}
        /\ t.dirty.drops = {}
    BY DEF OnceInv, OnceAt, TreeInv, TreeAt, Working
  <2>3. i \notin Contents(base)
    <3> SUFFICES ASSUME NEW k \in DOMAIN base, i \in base[k].adds PROVE FALSE
      BY DEF Contents
    <3>1. k \in 1 .. Len(main) /\ i \in main[k].adds
      BY <2>1 DEF Ancestor
    <3>2. PICK l \in k + 1 .. Len(main) : i \in main[l].drops
      BY <2>1, <2>2, <3>1, GoneIsDropped
    <3> QED BY <2>1, <3>1, <3>2
  <2>4. i \in Contents(g)
    BY <2>1, <2>2, NewAddsAreIn
  <2> HIDE DEF t, g, base
  <2>5. \A c \in Targets[p] : i \in Delta(Contents(base), Contents(g), c)
    BY <2>3, <2>4 DEF Delta
  <2>6. Replay(p).fires /\ Replay(p).baseline = plan[p].baseline
    BY <2>5 DEF Replay, Backtest, base, g, t
  <2> DEFINE adjudged == [c \in Cycle |-> IF c \in Replay(p).misfires THEN "ok" ELSE "none"]
  <2>7. adjudged \in Adjudications
    BY DEF Adjudications
  <2>8. CheckG4(Replay(p), adjudged, plan[p])
    BY <2>6 DEF CheckG4
  <2> QED BY <2>7, <2>8
<1> QED BY <1>1, TypeInvariance, TagInvariance, TreeInvariance, OnceInvariance, PTL

\* Whatever overlaps, dies or fails, and whoever holds the lock: origin sees
\* versions tagged, released and pushed one by one, and main moves forward.
THEOREM HistoryIsKept == Spec => ImplementsHistory
<1>1. Spec => []HistoryInv
  BY TypeInvariance, TagInvariance, HistoryInit, HistoryNext, PTL DEF Spec
<1> QED
  BY <1>1, TypeInvariance, TagInvariance, TreeInvariance, HistoryStarts, HistoryStep, PTL
     DEF Spec, ImplementsHistory, H!Spec
=============================================================================
