-------------------------- MODULE TargetFilesProofs --------------------------
(***************************************************************************)
(* What the turns of TargetCycle leave in the tracked files, for every     *)
(* backlog, set of turns and number of faults: the pin and its digest are  *)
(* committed as a pair, the marker of every commit names the task its      *)
(* backlog names, and turns that come to their end leave the tree clean.   *)
(* A pin sync does not take RUNNING.lock: it may step between any two      *)
(* steps of the turn in the cycle, and may commit what that has staged.    *)
(* So what is staged is never more than one start or one whole close ahead *)
(* of HEAD (DraftInv), and what main says of its tasks is a TaskBoard.     *)
(***************************************************************************)
EXTENDS TargetCycleProofs

-----------------------------------------------------------------------------
(* The pin                                                                 *)

\* From reading the old files to the commit: only one turn at a time may
\* be here.
SyncWindow == {"syncWrite", "syncBoot", "syncAdd", "syncCommit", "syncClean"}

Paired(f) == f.pin = f.boot
SamePins(f, g) == f.pin = g.pin /\ f.boot = g.boot

PairInv == "overlap" \notin cut =>
    /\ \A v, w \in Wake : pc[v] \in SyncWindow /\ pc[w] \in SyncWindow => v = w
    /\ Paired(index) /\ Paired(head) /\ Paired(origin)
    /\ \A w \in Wake : pc[w] = "syncAdd" => Paired(work)

\* Where it may have the pin in hand.
PinInHand == {"syncBoot", "syncAdd", "syncCommit"}

\* What a step of a cycle, a fault or a release of the skill does to the pin.
Aside ==
    /\ SamePins(work', work) /\ SamePins(index', index)
    /\ head' = head \/ head' = index'
    /\ origin' = origin \/ origin' = head'
    /\ cut \subseteq cut'
    /\ \A v \in Wake : pc'[v] \in SyncWindow => pc'[v] = pc[v] /\ kept'[v] = kept[v]
    /\ cut' \subseteq {"other"} => \A v \in Wake : pc[v] \in PinInHand => pc'[v] = pc[v]

\* Only pin-sync.py writes the pin.
LEMMA OnlySyncPins ==
    ASSUME TypeOK, [Next]_vars, \A w \in Wake : ~PinSync(w)
    PROVE  Aside
<1> USE DEF TypeOK, Files, Aside, SamePins, SyncWindow, PinInHand, At, Goto, repo, steady,
           syncVars, cycleVars, history
<1>1. ASSUME NEW w \in Wake, Begin(w) \/ Acquire(w) \/ Select(w) \/ Refuse(w) \/ Release(w)
      PROVE  Aside
  BY <1>1 DEF Begin, Acquire, Select, Refuse, Release, Forget
<1>2. ASSUME NEW w \in Wake, Resume(w) PROVE Aside
  BY <1>2 DEF Resume, ResumeAt
<1>3. ASSUME NEW w \in Wake, Start(w) PROVE Aside
  BY <1>3 DEF Start, StartEdit, StartAdd, StartCommit, StartPush, CommitIndex, Push
<1>4. ASSUME NEW w \in Wake, Middle(w) PROVE Aside
  BY <1>4 DEF Middle, Graded, Escalate, OpenPr, Merge, Pull
<1>5. ASSUME NEW w \in Wake, Close(w) \/ WriteLedger(w) \/ WriteBacklog(w) PROVE Aside
  BY <1>5 DEF Close, Fails10, WriteLedger, WriteBacklog
<1>6. ASSUME NEW w \in Wake, SyncMarker(w) PROVE Aside
  BY <1>6 DEF SyncMarker, Synced
<1>7. ASSUME NEW w \in Wake, Hook(w) \/ Stage(w) \/ Commit(w) \/ ClosePush(w) \/ Finish(w) PROVE Aside
  BY <1>7, ZenonT(60) DEF Hook, Stage, Commit, ClosePush, Finish, Fails10, CommitIndex, Push
<1>8. ASSUME NEW w \in Wake, Revert(w) PROVE Aside
  BY <1>8 DEF Revert, Reverted, Fails10
<1>9. ASSUME NEW w \in Wake, PushFails(w) \/ Die(w) PROVE Aside
  BY <1>9 DEF PushFails, Die, Fault, Forget, Phase, Unlocked
<1>12. ASSUME NEW w \in Wake, GitFails(w) PROVE Aside
  <2>1. UNCHANGED <<work, index, head, origin, kept>>
    BY <1>12 DEF GitFails
  <2>2. \E l \in {"idle", "release", "revert"}, c \in {"syncGit", "startGit", "closeGit"} :
           pc' = [pc EXCEPT ![w] = l] /\ cut' = cut \cup {c}
    BY <1>12 DEF GitFails
  <2> QED BY <2>1, <2>2
<1>10. CASE NewContract
  BY <1>10 DEF NewContract
<1>11. CASE UNCHANGED vars
  BY <1>11 DEF vars
<1> QED BY <1>1, <1>2, <1>3, <1>4, <1>5, <1>6, <1>7, <1>8, <1>9, <1>10, <1>11, <1>12 DEF Next, Turn, Step10

\* No step parts the pin from its digest in what is staged or committed.
LEMMA PairStep == TypeOK /\ PairInv /\ [Next]_vars => PairInv'
<1> SUFFICES ASSUME TypeOK, PairInv, [Next]_vars PROVE PairInv'
  OBVIOUS
<1>1. CASE \A w \in Wake : ~PinSync(w)
  BY <1>1, OnlySyncPins DEF Aside, SamePins, Paired, PairInv, SyncWindow
<1> USE DEF TypeOK, Files, PairInv, Paired, SyncWindow, At, Goto, repo, steady, syncVars, cycleVars, history
<1>2. ASSUME NEW w \in Wake, SyncCheck(w) PROVE PairInv'
  BY <1>2 DEF SyncCheck, Checked, Syncing
<1>3. ASSUME NEW w \in Wake, SyncWrite(w) PROVE PairInv'
  BY <1>3 DEF SyncWrite
<1>4. ASSUME NEW w \in Wake, SyncBoot(w) PROVE PairInv'
  <2>1. /\ UNCHANGED <<index, head, origin, cut>> /\ pc[w] = "syncBoot"
        /\ \/ pc' = [pc EXCEPT ![w] = "syncAdd"]
              /\ work' = [work EXCEPT !.boot = saw[w]] /\ Bound([work EXCEPT !.boot = saw[w]])
           \/ pc' = [pc EXCEPT ![w] = "idle"]
    BY <1>4 DEF SyncBoot, Rebound
  <2>2. \A v \in Wake : pc'[v] \in SyncWindow => pc[v] \in SyncWindow /\ (v = w \/ pc'[v] = pc[v])
    BY <2>1
  <2>3. pc'[w] = "syncAdd" => Paired(work')
    BY <2>1 DEF Bound
  <2>4. "overlap" \notin cut => \A v \in Wake : pc'[v] = "syncAdd" => v = w
    BY <2>1, <2>2
  <2> QED BY <2>1, <2>2, <2>3, <2>4
<1>5. ASSUME NEW w \in Wake, SyncAdd(w) PROVE PairInv'
  BY <1>5 DEF SyncAdd
<1>6. ASSUME NEW w \in Wake, SyncCommit(w) PROVE PairInv'
  BY <1>6 DEF SyncCommit, CommitIndex
<1>7. ASSUME NEW w \in Wake, SyncClean(w) PROVE PairInv'
  BY <1>7 DEF SyncClean
<1>8. ASSUME NEW w \in Wake, SyncPush(w) PROVE PairInv'
  BY <1>8 DEF SyncPush, Push
<1> QED BY <1>1, <1>2, <1>3, <1>4, <1>5, <1>6, <1>7, <1>8 DEF PinSync

\* Contract pin and digest are committed together, here and on origin, unless
\* two turns were in pin-sync.py at once.
THEOREM PinPairAlways == Spec => []PinPair
<1>1. Init => PairInv
  BY DEF Init, PairInv, Paired, SyncWindow
<1>2. PairInv => PinPair
  BY DEF PairInv, Paired, PinPair
<1> QED BY <1>1, <1>2, PairStep, TypeCorrect, PTL DEF Spec

-----------------------------------------------------------------------------
(* The clean tree                                                          *)

CleanPinInv == cut \subseteq {"other"} =>
    /\ \A w \in Wake : pc[w] = "syncBoot" => SamePins(index, head) /\ SamePins(kept[w], head)
    /\ \A w \in Wake : pc[w] = "syncAdd" => SamePins(index, head)
    /\ \A w \in Wake : pc[w] = "syncCommit" => SamePins(index, work)
    /\ (\A w \in Wake : pc[w] \notin PinInHand) => SamePins(work, head) /\ SamePins(index, head)

\* Only a turn that has found another one at it, died or failed at it,
\* leaves a pin that is not committed.
LEMMA CleanPinStep ==
    TypeOK /\ PairInv /\ CleanPinInv /\ [Next]_vars => CleanPinInv'
<1> SUFFICES ASSUME TypeOK, PairInv, CleanPinInv, [Next]_vars, cut' \subseteq {"other"}
             PROVE  CleanPinInv'
  BY DEF CleanPinInv
<1>1. CASE \A w \in Wake : ~PinSync(w)
  <2>1. Aside /\ cut \subseteq {"other"}
    BY <1>1, OnlySyncPins DEF Aside
  <2> QED BY <2>1 DEF Aside, CleanPinInv, SamePins, SyncWindow, PinInHand
<1> USE DEF TypeOK, Files, PairInv, CleanPinInv, SamePins, SyncWindow, PinInHand, At, Goto, repo,
            steady, syncVars, cycleVars, history
<1>2. ASSUME NEW w \in Wake, SyncCheck(w) PROVE CleanPinInv'
  BY <1>2 DEF SyncCheck, Checked
<1>3. ASSUME NEW w \in Wake, SyncWrite(w) PROVE CleanPinInv'
  BY <1>3 DEF SyncWrite
<1>4. ASSUME NEW w \in Wake, SyncBoot(w) PROVE CleanPinInv'
  <2>1. /\ UNCHANGED <<index, head, kept, cut>> /\ pc[w] = "syncBoot"
        /\ \/ pc' = [pc EXCEPT ![w] = "syncAdd"]
           \/ /\ pc' = [pc EXCEPT ![w] = "idle"]
              /\ work' = [work EXCEPT !.pin = kept[w].pin, !.boot = kept[w].boot]
    BY <1>4 DEF SyncBoot, Rebound
  <2>2. \A v \in Wake : v # w => pc[v] \notin SyncWindow /\ pc'[v] = pc[v]
    BY <2>1
  <2>3. SamePins(index', head') /\ SamePins(kept[w], head')
    BY <2>1
  <2>4. pc'[w] = "idle" => SamePins(work', kept[w])
    BY <2>1
  <2> QED BY ZenonT(60), <2>1, <2>2, <2>3, <2>4
<1>5. ASSUME NEW w \in Wake, SyncAdd(w) PROVE CleanPinInv'
  BY <1>5 DEF SyncAdd
<1>6. ASSUME NEW w \in Wake, SyncCommit(w) PROVE CleanPinInv'
  BY <1>6 DEF SyncCommit, CommitIndex
<1>7. ASSUME NEW w \in Wake, SyncClean(w) PROVE CleanPinInv'
  BY <1>7 DEF SyncClean
<1>8. ASSUME NEW w \in Wake, SyncPush(w) PROVE CleanPinInv'
  BY <1>8 DEF SyncPush, Push
<1> QED BY <1>1, <1>2, <1>3, <1>4, <1>5, <1>6, <1>7, <1>8 DEF PinSync

\* The files of start commit and close.
SameClose(f, g) == f.backlog = g.backlog /\ f.ledger = g.ledger /\ f.marker = g.marker

\* Where a turn may have them in hand.
CloseInHand == {"startAdd", "startCommit", "backlog", "marker", "hook", "stage", "commit", "revert"}

CleanCloseInv == cut \subseteq {"other"} =>
    /\ (\A w \in Wake : pc[w] \notin CloseInHand) => SameClose(work, index) /\ SameClose(index, head)
    /\ \A w \in Wake :
          /\ pc[w] \in CloseInHand \ {"startCommit", "commit"} => SameClose(index, head)
          /\ pc[w] \in {"startCommit", "commit"} => SameClose(work, index)
          /\ pc[w] = "startAdd" => work.ledger = index.ledger /\ work.marker = index.marker
          /\ pc[w] \in {"backlog", "marker", "revert"} => work.marker = head.marker

\* What a step that neither edits, stages nor puts back those files does to
\* them: it may commit what is staged.
Beside ==
    /\ SameClose(work', work) /\ SameClose(index', index)
    /\ head' = head \/ head' = index'
    /\ mirror' = mirror
    /\ cut \subseteq cut'
    /\ \A v \in Wake : pc'[v] \in CloseInHand => pc'[v] = pc[v] /\ task'[v] = task[v]
    /\ \A v \in Wake : pc[v] \in CloseInHand => pc'[v] = pc[v]
    /\ \A v \in Wake : pc'[v] = "start" => pc[v] = "start" \/ index = head

\* A pin sync, for one, though it commits the whole index.
LEMMA SyncIsBeside == ASSUME TypeOK, NEW w \in Wake, PinSync(w) PROVE Beside
<1> USE DEF TypeOK, Files, Beside, SameClose, CloseInHand, At, Goto, repo, steady, syncVars, cycleVars, history
<1>1. CASE SyncCheck(w) \/ SyncClean(w) \/ SyncPush(w)
  BY <1>1 DEF SyncCheck, Checked, SyncClean, SyncPush, Push
<1>2. CASE SyncCommit(w)
  BY <1>2 DEF SyncCommit, CommitIndex
<1>3. CASE SyncWrite(w) \/ SyncAdd(w)
  <2>1. /\ UNCHANGED <<head, mirror, cut, task>> /\ pc[w] \in {"syncWrite", "syncAdd"}
        /\ \E l \in {"syncBoot", "syncCommit"} : pc' = [pc EXCEPT ![w] = l]
    BY <1>3 DEF SyncWrite, SyncAdd
  <2>2. SameClose(work', work) /\ SameClose(index', index)
    BY <1>3 DEF SyncWrite, SyncAdd
  <2> QED BY <2>1, <2>2
<1>4. CASE SyncBoot(w)
  <2>1. /\ UNCHANGED <<index, head, mirror, cut, task>> /\ pc[w] = "syncBoot"
        /\ \E l \in {"syncAdd", "idle"} : pc' = [pc EXCEPT ![w] = l]
        /\ SameClose(work', work)
    BY <1>4 DEF SyncBoot, Rebound
  <2> QED BY <2>1
<1> QED BY <1>1, <1>2, <1>3, <1>4 DEF PinSync

\* So are the turn's other steps.
LEMMA MiddleIsBeside ==
    ASSUME TypeOK, NEW w \in Wake,
           \/ Begin(w) \/ Acquire(w) \/ Select(w) \/ Refuse(w) \/ Resume(w) \/ Release(w)
           \/ StartPush(w) \/ Middle(w) \/ Close(w) \/ ClosePush(w) \/ Finish(w) \/ PushFails(w)
    PROVE  Beside
<1> USE DEF TypeOK, Files, Beside, SameClose, CloseInHand, At, Goto, repo, steady, syncVars, cycleVars, history
<1>1. CASE Begin(w) \/ Acquire(w) \/ Select(w) \/ Refuse(w) \/ Release(w)
  BY <1>1 DEF Begin, Acquire, Select, MayStart, Dirty, Refuse, Release
<1>2. CASE Resume(w)
  BY <1>2 DEF Resume, ResumeAt
<1>3. CASE StartPush(w) \/ Middle(w)
  BY <1>3 DEF StartPush, Push, Middle, Graded, Escalate, OpenPr, Merge, Pull
<1>4. CASE Close(w) \/ ClosePush(w) \/ Finish(w)
  BY <1>4 DEF Close, ClosePush, Push, Finish, Fails10
<1>5. CASE PushFails(w)
  BY <1>5 DEF PushFails, Fault
<1> QED BY <1>1, <1>2, <1>3, <1>4, <1>5

\* A step of the cycle that is beside nothing has the cycle for itself.
LEMMA StepIsBeside ==
    ASSUME TypeOK, [Next]_vars
    PROVE  \/ Beside
           \/ \E w \in Wake :
                 \/ StartEdit(w) \/ StartAdd(w) \/ StartCommit(w) \/ WriteLedger(w) \/ WriteBacklog(w)
                 \/ SyncMarker(w) \/ Hook(w) \/ Stage(w) \/ Commit(w) \/ Revert(w) \/ GitFails(w)
                 \/ Die(w)
<1>1. CASE NewContract
  BY <1>1 DEF NewContract, Beside, SameClose, repo, cycleVars, history
<1>2. CASE UNCHANGED vars
  BY <1>2 DEF vars, Beside, SameClose, repo, cycleVars, history
<1> QED BY <1>1, <1>2, SyncIsBeside, MiddleIsBeside DEF Next, Turn, Start, Step10

\* A turn that comes to its end leaves these files as they are in HEAD.
LEMMA CleanCloseStep == IInv /\ CleanCloseInv /\ [Next]_vars => CleanCloseInv'
<1> SUFFICES ASSUME IInv, CleanCloseInv, [Next]_vars, cut' \subseteq {"other"} PROVE CleanCloseInv'
  BY DEF CleanCloseInv
<1>1. TypeOK /\ \A v, w \in Wake : pc[v] \in Locked /\ pc[w] \in Locked => v = w
  BY DEF IInv, ExclusiveInv
<1>2. CASE Beside
  BY <1>2 DEF Beside, CleanCloseInv, SameClose, CloseInHand
<1>3. ASSUME NEW w \in Wake, pc[w] \in Locked
      PROVE  \A v \in Wake \ {w} : pc[v] \notin CloseInHand
  BY <1>1, <1>3 DEF Locked, CloseInHand
<1> USE DEF TypeOK, Files, SameClose, CloseInHand, Locked, At, Goto, repo, syncVars, cycleVars, history
<1>4. ASSUME NEW w \in Wake, StartEdit(w) \/ StartAdd(w) \/ StartCommit(w) PROVE CleanCloseInv'
  BY <1>1, <1>4, SMTT(30) DEF StartEdit, StartAdd, StartCommit, CommitIndex, CleanCloseInv
<1>5. ASSUME NEW w \in Wake, WriteLedger(w) PROVE CleanCloseInv'
  <2>1. /\ pc[w] = "ledger" /\ pc' = [pc EXCEPT ![w] = "backlog"]
        /\ UNCHANGED <<index, head, cut>>
    BY <1>5 DEF WriteLedger
  <2>2. work'.marker = work.marker
    BY <1>1, <1>5 DEF WriteLedger
  <2>3. SameClose(work, index) /\ SameClose(index, head)
    BY <1>3, <2>1 DEF CleanCloseInv
  <2> QED BY <1>1, <1>3, <2>1, <2>2, <2>3 DEF CleanCloseInv
<1>6. ASSUME NEW w \in Wake, WriteBacklog(w) PROVE CleanCloseInv'
  <2>1. /\ pc[w] = "backlog" /\ pc' = [pc EXCEPT ![w] = "marker"]
        /\ UNCHANGED <<index, head, cut>>
    BY <1>6 DEF WriteBacklog
  <2>2. work'.marker = work.marker
    BY <1>1, <1>6 DEF WriteBacklog
  <2> QED BY <1>1, <1>3, <2>1, <2>2 DEF CleanCloseInv
<1>7. ASSUME NEW w \in Wake, SyncMarker(w) PROVE CleanCloseInv'
  BY <1>1, <1>7 DEF SyncMarker, Synced, CleanCloseInv
<1>8. ASSUME NEW w \in Wake, Hook(w) PROVE CleanCloseInv'
  BY <1>1, <1>8 DEF Hook, CleanCloseInv
<1>9. ASSUME NEW w \in Wake, Stage(w) PROVE CleanCloseInv'
  <2>1. pc[w] = "stage" /\ pc' = [pc EXCEPT ![w] = "commit"]
    BY <1>9 DEF Stage
  <2>2. SameClose(work', index')
    BY <1>1, <1>9 DEF Stage
  <2> QED BY <1>1, <1>3, <2>1, <2>2 DEF CleanCloseInv
<1>10. ASSUME NEW w \in Wake, Commit(w) PROVE CleanCloseInv'
  <2>1. /\ pc[w] = "commit" /\ UNCHANGED <<work, index, cut>>
        /\ \E l \in {"push", "revert"} : pc' = [pc EXCEPT ![w] = l]
    BY <1>10 DEF Commit
  <2>2. head' = index
    BY <1>10 DEF Commit, CommitIndex
  <2> QED BY <1>1, <1>3, <2>1, <2>2 DEF CleanCloseInv
<1>11. ASSUME NEW w \in Wake, Revert(w) PROVE CleanCloseInv'
  BY <1>1, <1>11 DEF Revert, Reverted, Fails10, CleanCloseInv
<1>12. ASSUME NEW w \in Wake, Die(w) PROVE CleanCloseInv'
  <2>1. /\ UNCHANGED <<work, index, head>> /\ pc' = [pc EXCEPT ![w] = "idle"]
        /\ cut' = cut \cup {Phase(pc[w])}
    BY <1>12 DEF Die, Fault
  <2>2. Phase(pc[w]) = "other" /\ cut \subseteq {"other"}
    BY <2>1 DEF Phase
  <2>3. pc[w] \notin CloseInHand
    BY <2>2 DEF Phase, Unlocked
  <2> QED BY <1>1, <2>1, <2>2, <2>3 DEF CleanCloseInv
<1>13. ASSUME NEW w \in Wake, GitFails(w) PROVE FALSE
  BY <1>13 DEF GitFails
<1> QED BY <1>1, <1>2, <1>4, <1>5, <1>6, <1>7, <1>8, <1>9, <1>10, <1>11, <1>12, <1>13, StepIsBeside

\* With no turn running, the tree is clean, unless a turn died or failed
\* between an edit and its commit or two were in pin-sync: Step 0 of the
\* next turn has nothing to refuse (bs-evolve.md).
THEOREM QuietIsCleanAlways == Spec => []QuietIsClean
<1>1. Init => PairInv /\ CleanPinInv /\ CleanCloseInv
  BY DEF Init, PairInv, Paired, SyncWindow, CleanPinInv, SamePins, PinInHand, CleanCloseInv, SameClose,
         CloseInHand
<1>2. IInv /\ CleanPinInv /\ CleanCloseInv => QuietIsClean
  <2> SUFFICES ASSUME IInv, CleanPinInv, CleanCloseInv, Quiet, cut \subseteq {"other"} PROVE ~Dirty
    BY DEF QuietIsClean
  <2>1. SamePins(work, head) /\ SamePins(index, head)
    BY DEF CleanPinInv, Quiet, PinInHand
  <2>2. SameClose(work, index) /\ SameClose(index, head)
    BY DEF CleanCloseInv, Quiet, CloseInHand
  <2> QED BY <2>1, <2>2 DEF IInv, TypeOK, Files, SamePins, SameClose, Dirty
<1>3. IInv => TypeOK
  BY DEF IInv
<1> QED BY <1>1, <1>2, <1>3, PairStep, CleanPinStep, CleanCloseStep, Invariance, PTL DEF Spec

-----------------------------------------------------------------------------
(* The marker                                                              *)

\* The marker is of the task the backlog names, where it names one.
Marked(f) == TargetTask(f.backlog) \in {NoTask, f.marker}

\* A task in progress means that the marker staged is HEAD's: a close stages
\* its marker together with the end of its task.
MarkerInv ==
    /\ Marked(index) /\ Marked(head)
    /\ index.marker # head.marker => InProgress(work.backlog) = {}
    /\ \A w \in Wake :
          /\ pc[w] \in {"start", "marker", "hook", "stage", "revert"} => index.marker = head.marker
          /\ pc[w] \in {"hook", "stage"} => Marked(work)
          /\ pc[w] = "startAdd" => index.marker = task[w]

MirrorInv == cut \cap {"hook", "close", "closeGit"} = {} =>
    /\ (\A w \in Wake : pc[w] # "hook") => mirror = work.marker
    /\ (\A w \in Wake : pc[w] \notin {"hook", "stage"}) => work.marker = index.marker
    /\ (\A w \in Wake : pc[w] \notin {"hook", "stage", "commit"}) => index.marker = head.marker

\* The task a turn starts is the one the marker names already.
LEMMA StartIsMarked ==
    ASSUME IInv, MarkerInv, NEW w \in Wake, pc[w] = "start"
    PROVE  index.marker = task[w]
<1>1. /\ task[w] \in Task /\ work.backlog = index.backlog
      /\ InProgress(work.backlog) = {} /\ task[w] = NextTask(work.backlog)
  BY DEF IInv, CycleInv, CycleAt, InCycle, Locked
<1>2. TargetTask(index.backlog) = task[w]
  BY <1>1 DEF TargetTask
<1>3. task[w] # NoTask
  BY <1>1, BacklogAssumption
<1> QED BY <1>2, <1>3 DEF MarkerInv, Marked

\* So does the backlog that is staged with it.
LEMMA StartedIsMarked ==
    ASSUME IInv, NEW w \in Wake, pc[w] = "startAdd"
    PROVE  TargetTask(work.backlog) = task[w] /\ InProgress(work.backlog) # {}
<1>1. task[w] \in Task /\ InProgress(work.backlog) = {task[w]}
  BY DEF IInv, CycleInv, CycleAt, Ongoing, InCycle, Locked
<1>2. First({task[w]}) = task[w]
  BY <1>1, FirstIsMember
<1> QED BY <1>1, <1>2 DEF TargetTask

\* What is said of the turns that were cut short is not taken back.
LEMMA CutGrows == TypeOK /\ [Next]_vars => cut \subseteq cut'
<1> SUFFICES ASSUME TypeOK, [Next]_vars PROVE cut \subseteq cut'
  OBVIOUS
<1>1. CASE Beside
  BY <1>1 DEF Beside
<1>2. ASSUME NEW w \in Wake,
             \/ StartEdit(w) \/ StartAdd(w) \/ StartCommit(w) \/ WriteLedger(w) \/ WriteBacklog(w)
             \/ SyncMarker(w) \/ Stage(w) \/ Commit(w) \/ Revert(w)
      PROVE  cut' = cut
  BY <1>2 DEF StartEdit, StartAdd, StartCommit, WriteLedger, WriteBacklog, SyncMarker, Synced, Stage,
              Commit, Revert, Reverted, history
<1>3. ASSUME NEW w \in Wake, Hook(w) \/ GitFails(w) \/ Die(w) PROVE cut \subseteq cut'
  BY <1>3 DEF Hook, GitFails, Die, Fault
<1> QED BY <1>1, <1>2, <1>3, StepIsBeside

\* No step commits a marker that the backlog committed with it contradicts,
\* up to the failure of a close's git command.
LEMMA MarkerStep == IInv /\ MarkerInv /\ [Next]_vars => MarkerInv' \/ "closeGit" \in cut'
<1> SUFFICES ASSUME IInv, MarkerInv, [Next]_vars, "closeGit" \notin cut' PROVE MarkerInv'
  OBVIOUS
<1>1. TypeOK /\ \A v, w \in Wake : pc[v] \in Locked /\ pc[w] \in Locked => v = w
  BY DEF IInv, ExclusiveInv
<1>2. CASE Beside
  <2>1. work'.backlog = work.backlog /\ work'.marker = work.marker /\ index'.backlog = index.backlog
        /\ index'.marker = index.marker /\ (head' = head \/ head' = index')
    BY <1>2 DEF Beside, SameClose
  <2>2. Marked(index') /\ Marked(head') /\ (Marked(work) => Marked(work'))
    BY <2>1 DEF MarkerInv, Marked
  <2>3. InProgress(work'.backlog) = InProgress(work.backlog)
    BY <2>1
  <2>4. \A v \in Wake : pc'[v] \in CloseInHand => pc'[v] = pc[v] /\ task'[v] = task[v]
    BY <1>2 DEF Beside
  <2>5. \A v \in Wake : pc'[v] = "start" => pc[v] = "start" \/ index = head
    BY <1>2 DEF Beside
  <2> QED BY <2>1, <2>2, <2>3, <2>4, <2>5 DEF MarkerInv, CloseInHand
<1>3. ASSUME NEW w \in Wake, pc[w] \in Locked
      PROVE  \A v \in Wake \ {w} : pc[v] \notin CloseInHand \cup {"start"}
  BY <1>1, <1>3 DEF Locked, CloseInHand
<1> USE DEF CloseInHand, Locked, At, Goto, repo, syncVars, cycleVars, history
<1>4. ASSUME NEW w \in Wake, StartEdit(w) PROVE MarkerInv'
  <2>1. pc[w] = "start" /\ pc' = [pc EXCEPT ![w] = "startAdd"] /\ UNCHANGED <<index, head, task>>
    BY <1>4 DEF StartEdit
  <2>2. index.marker = task[w] /\ index.marker = head.marker
    BY <2>1, StartIsMarked DEF MarkerInv
  <2> QED BY <1>1, <1>3, <2>1, <2>2 DEF MarkerInv, TypeOK
<1>5. ASSUME NEW w \in Wake, StartAdd(w) PROVE MarkerInv'
  <2>1. /\ pc[w] = "startAdd" /\ pc' = [pc EXCEPT ![w] = "startCommit"] /\ UNCHANGED <<work, head, task>>
        /\ index' = [index EXCEPT !.backlog = work.backlog]
    BY <1>5 DEF StartAdd
  <2>2. index'.backlog = work.backlog /\ index'.marker = index.marker
    BY <1>1, <2>1 DEF TypeOK, Files
  <2>3. Marked(index') /\ index.marker = head.marker
    BY <2>1, <2>2, StartedIsMarked DEF MarkerInv, Marked
  <2> QED BY <1>1, <1>3, <2>1, <2>2, <2>3 DEF MarkerInv, TypeOK
<1>6. ASSUME NEW w \in Wake, StartCommit(w) \/ Commit(w) PROVE MarkerInv'
  <2>1. /\ pc[w] \in {"startCommit", "commit"} /\ UNCHANGED <<work, index, task>> /\ head' = index
        /\ \E l \in {"startPush", "release", "push", "revert"} : pc' = [pc EXCEPT ![w] = l]
    BY <1>6 DEF StartCommit, Commit, CommitIndex
  <2> QED BY <1>1, <1>3, <2>1 DEF MarkerInv, TypeOK
<1>7. ASSUME NEW w \in Wake, WriteLedger(w) PROVE MarkerInv'
  <2>1. /\ pc[w] = "ledger" /\ pc' = [pc EXCEPT ![w] = "backlog"] /\ UNCHANGED <<index, head, task>>
        /\ work'.backlog = work.backlog
    BY <1>1, <1>7 DEF WriteLedger, TypeOK, Files
  <2> QED BY <1>1, <1>3, <2>1 DEF MarkerInv, TypeOK
<1>8. ASSUME NEW w \in Wake, WriteBacklog(w) PROVE MarkerInv'
  <2>1. pc[w] = "backlog" /\ pc' = [pc EXCEPT ![w] = "marker"] /\ UNCHANGED <<index, head, task>>
    BY <1>8 DEF WriteBacklog
  <2>2. InProgress(work.backlog) = {task[w]}
    BY <2>1 DEF IInv, CycleInv, CycleAt, Ongoing
  <2>3. index.marker = head.marker
    BY <2>2 DEF MarkerInv
  <2> QED BY <1>1, <1>3, <2>1, <2>3 DEF MarkerInv, TypeOK
<1>9. ASSUME NEW w \in Wake, SyncMarker(w) PROVE MarkerInv'
  <2> DEFINE target == TargetTask(work.backlog)
  <2>1. /\ pc[w] = "marker" /\ UNCHANGED <<index, head, task>>
        /\ \/ pc' = [pc EXCEPT ![w] = "stage"] /\ work' = work /\ Marked(work)
           \/ pc' = [pc EXCEPT ![w] = "hook"] /\ work' = [work EXCEPT !.marker = target]
           \/ pc' = [pc EXCEPT ![w] = "revert"] /\ work' = work
    BY <1>9 DEF SyncMarker, Synced, Marked
  <2>2. work' = [work EXCEPT !.marker = target] => Marked(work') /\ work'.backlog = work.backlog
    BY <1>1 DEF TypeOK, Files, Marked
  <2> HIDE DEF target
  <2>3. work'.backlog = work.backlog /\ (pc'[w] \in {"stage", "hook"} => Marked(work'))
    BY <1>1, <2>1, <2>2 DEF TypeOK
  <2> QED BY <1>1, <1>3, <2>1, <2>3 DEF MarkerInv, TypeOK
<1>10. ASSUME NEW w \in Wake, Hook(w) PROVE MarkerInv'
  <2>1. /\ pc[w] = "hook" /\ UNCHANGED <<work, index, head, task>>
        /\ \E l \in {"stage", "revert"} : pc' = [pc EXCEPT ![w] = l]
    BY <1>10 DEF Hook
  <2> QED BY <1>1, <1>3, <2>1 DEF MarkerInv, TypeOK
<1>11. ASSUME NEW w \in Wake, Stage(w) PROVE MarkerInv'
  <2>1. pc[w] = "stage" /\ pc' = [pc EXCEPT ![w] = "commit"] /\ UNCHANGED <<work, head, task>>
    BY <1>11 DEF Stage
  <2>2. index'.backlog = work.backlog /\ index'.marker = work.marker
    BY <1>1, <1>11 DEF Stage, TypeOK, Files
  <2>3. InProgress(work.backlog) = {}
    BY <2>1 DEF IInv, CycleInv, CycleAt
  <2>4. Marked(index')
    BY <2>1, <2>2 DEF MarkerInv, Marked
  <2> QED BY <1>1, <1>3, <2>1, <2>2, <2>3, <2>4 DEF MarkerInv, TypeOK
<1>12. ASSUME NEW w \in Wake, Revert(w) PROVE MarkerInv'
  <2>1. pc[w] = "revert" /\ pc' = [pc EXCEPT ![w] = "release"] /\ UNCHANGED <<head, task>>
    BY <1>12 DEF Revert, Reverted, Fails10
  <2>3. index.marker = head.marker
    BY <2>1 DEF MarkerInv
  <2>2. index'.backlog = head.backlog /\ index'.marker = index.marker
    <3>1. PICK m \in {index.marker, head.marker} :
            index' = [index EXCEPT !.ledger = head.ledger, !.backlog = head.backlog, !.marker = m]
      BY <1>12 DEF Revert, Reverted
    <3> QED BY <1>1, <2>3, <3>1 DEF TypeOK, Files
  <2>4. Marked(index')
    BY <2>2, <2>3 DEF MarkerInv, Marked
  <2> QED BY <1>1, <1>3, <2>1, <2>2, <2>3, <2>4 DEF MarkerInv, TypeOK
<1>13. ASSUME NEW w \in Wake, Die(w) PROVE MarkerInv'
  <2>1. /\ UNCHANGED <<work, index, head>> /\ pc' = [pc EXCEPT ![w] = "idle"]
        /\ task' = [task EXCEPT ![w] = NoTask]
    BY <1>13 DEF Die
  <2> QED BY <1>1, <2>1 DEF MarkerInv, TypeOK
<1>14. ASSUME NEW w \in Wake, GitFails(w) PROVE MarkerInv'
  <2>1. /\ UNCHANGED <<work, index, head, task>>
        /\ \E l \in {"idle", "release"} : pc' = [pc EXCEPT ![w] = l]
    BY <1>14 DEF GitFails
  <2> QED BY <1>1, <2>1 DEF MarkerInv, TypeOK
<1> QED
  BY <1>1, <1>2, <1>4, <1>5, <1>6, <1>7, <1>8, <1>9, <1>10, <1>11, <1>12, <1>13, <1>14, StepIsBeside

\* Nor does a hook fall behind unless it failed or its turn died.
LEMMA MirrorStep == IInv /\ MirrorInv /\ [Next]_vars => MirrorInv'
<1> SUFFICES ASSUME IInv, MirrorInv, [Next]_vars, cut' \cap {"hook", "close", "closeGit"} = {} PROVE MirrorInv'
  BY DEF MirrorInv
<1>1. TypeOK /\ \A v, w \in Wake : pc[v] \in Locked /\ pc[w] \in Locked => v = w
  BY DEF IInv, ExclusiveInv
<1>2. CASE Beside
  BY <1>2 DEF Beside, MirrorInv, SameClose, CloseInHand
<1>3. ASSUME NEW w \in Wake, pc[w] \in Locked
      PROVE  \A v \in Wake \ {w} : pc[v] \notin CloseInHand
  BY <1>1, <1>3 DEF Locked, CloseInHand
<1> USE DEF CloseInHand, Locked, At, Goto, repo, syncVars, cycleVars, history
<1>4. ASSUME NEW w \in Wake,
             StartEdit(w) \/ StartAdd(w) \/ WriteLedger(w) \/ WriteBacklog(w)
      PROVE  MirrorInv'
  <2>1. /\ UNCHANGED <<mirror, head, cut>>
        /\ work'.marker = work.marker /\ index'.marker = index.marker
        /\ pc[w] \in {"start", "startAdd", "ledger", "backlog"}
        /\ \E l \in {"startAdd", "startCommit", "backlog", "marker"} : pc' = [pc EXCEPT ![w] = l]
    BY <1>1, <1>4 DEF StartEdit, StartAdd, WriteLedger, WriteBacklog, TypeOK, Files
  <2> QED BY <1>1, <1>3, <2>1 DEF MirrorInv, TypeOK
<1>5. ASSUME NEW w \in Wake, StartCommit(w) \/ Commit(w) PROVE MirrorInv'
  <2>1. /\ pc[w] \in {"startCommit", "commit"} /\ UNCHANGED <<work, index, mirror, cut>> /\ head' = index
        /\ \E l \in {"startPush", "release", "push", "revert"} : pc' = [pc EXCEPT ![w] = l]
    BY <1>5 DEF StartCommit, Commit, CommitIndex
  <2> QED BY <1>1, <1>3, <2>1 DEF MirrorInv, TypeOK
<1>6. ASSUME NEW w \in Wake, SyncMarker(w) PROVE MirrorInv'
  <2>1. /\ pc[w] = "marker" /\ UNCHANGED <<index, head, mirror, cut>>
        /\ \/ \E l \in {"stage", "revert"} : pc' = [pc EXCEPT ![w] = l] /\ work' = work
           \/ pc' = [pc EXCEPT ![w] = "hook"]
    BY <1>6 DEF SyncMarker, Synced
  <2> QED BY <1>1, <1>3, <2>1 DEF MirrorInv, TypeOK
<1>7. ASSUME NEW w \in Wake, Hook(w) PROVE MirrorInv'
  <2>1. /\ pc[w] = "hook" /\ UNCHANGED <<work, index, head>>
        /\ pc' = [pc EXCEPT ![w] = "stage"] /\ mirror' = work.marker /\ cut' = cut
    BY <1>7 DEF Hook
  <2> QED BY <1>1, <1>3, <2>1 DEF MirrorInv, TypeOK
<1>8. ASSUME NEW w \in Wake, Stage(w) PROVE MirrorInv'
  <2>1. pc[w] = "stage" /\ pc' = [pc EXCEPT ![w] = "commit"] /\ UNCHANGED <<work, head, mirror, cut>>
    BY <1>8 DEF Stage
  <2>2. index'.marker = work.marker
    BY <1>1, <1>8 DEF Stage, TypeOK, Files
  <2> QED BY <1>1, <1>3, <2>1, <2>2 DEF MirrorInv, TypeOK
<1>9. ASSUME NEW w \in Wake, Revert(w) PROVE MirrorInv'
  <2>1. pc[w] = "revert" /\ pc' = [pc EXCEPT ![w] = "release"] /\ UNCHANGED <<head, mirror, cut>>
    BY <1>9 DEF Revert, Reverted, Fails10
  <2>2. /\ work'.marker \in {work.marker, head.marker}
        /\ index'.marker \in {index.marker, head.marker}
    <3>1. PICK m \in {work.marker, head.marker} :
            work' = [work EXCEPT !.ledger = head.ledger, !.backlog = head.backlog, !.marker = m]
      BY <1>9 DEF Revert, Reverted
    <3>2. PICK n \in {index.marker, head.marker} :
            index' = [index EXCEPT !.ledger = head.ledger, !.backlog = head.backlog, !.marker = n]
      BY <1>9 DEF Revert, Reverted
    <3> HIDE <1>9
    <3> QED BY <1>1, <3>1, <3>2 DEF TypeOK, Files
  <2> QED BY <1>1, <1>3, <2>1, <2>2 DEF MirrorInv, TypeOK
<1>10. ASSUME NEW w \in Wake, Die(w) PROVE MirrorInv'
  <2>1. /\ UNCHANGED <<work, index, head, mirror>> /\ pc' = [pc EXCEPT ![w] = "idle"]
        /\ cut' = cut \cup {Phase(pc[w])}
    BY <1>10 DEF Die, Fault
  <2>2. pc[w] \notin {"hook", "stage", "commit"} /\ cut \subseteq cut'
    BY <2>1 DEF Phase, Unlocked
  <2> QED BY <1>1, <2>1, <2>2 DEF MirrorInv, TypeOK
<1>11. ASSUME NEW w \in Wake, GitFails(w) PROVE MirrorInv'
  <2>1. /\ UNCHANGED <<work, index, head, mirror>> /\ cut \subseteq cut'
        /\ pc[w] \in {"syncAdd", "syncCommit", "startAdd", "startCommit"}
        /\ \E l \in {"idle", "release"} : pc' = [pc EXCEPT ![w] = l]
    BY <1>11 DEF GitFails, SyncGit, StartGit
  <2> QED BY <1>1, <2>1 DEF MirrorInv, TypeOK
<1> QED BY <1>1, <1>2, <1>4, <1>5, <1>6, <1>7, <1>8, <1>9, <1>10, <1>11, StepIsBeside

\* Every commit's marker names the task its backlog names, and what the hook
\* mirrors is HEAD's when no turn is running, unless a hook or the git command
\* of a close failed or a turn died in one (sync_status_marker.py, bs.md).
THEOREM MarkerFollowsBacklogAlways == Spec => []MarkerFollowsBacklog
<1>1. Init => MarkerInv /\ MirrorInv
  <2> SUFFICES ASSUME Init PROVE MarkerInv /\ MirrorInv
    OBVIOUS
  <2>1. PICK b \in Backlogs : head.backlog = b /\ head.marker = NextTask(b)
    BY DEF Init
  <2>2. InProgress(b) = {}
    BY CycleAssumption DEF InProgress
  <2>3. Marked(head) /\ index = head /\ work = head
    BY <2>1, <2>2 DEF Init, Marked, TargetTask
  <2> QED BY <2>3 DEF Init, MarkerInv, MirrorInv
<1>2. ("closeGit" \in cut \/ MarkerInv) /\ MirrorInv => MarkerFollowsBacklog
  BY DEF MarkerInv, MirrorInv, Marked, MarkerFollowsBacklog, Quiet
<1>3. IInv /\ ("closeGit" \in cut \/ MarkerInv) /\ [Next]_vars =>
          ("closeGit" \in cut \/ MarkerInv)'
  BY MarkerStep, CutGrows DEF IInv
<1> QED BY <1>1, <1>2, <1>3, MirrorStep, Invariance, PTL DEF Spec

-----------------------------------------------------------------------------
(* The board                                                               *)

SameBoard(f, g) == f.backlog = g.backlog /\ f.ledger = g.ledger

\* g is f with the next task started.
Starts(f, g, t) ==
    /\ InProgress(f.backlog) = {} /\ t = NextTask(f.backlog)
    /\ g.backlog = [f.backlog EXCEPT ![t] = "in_progress"]
    /\ g.ledger = f.ledger

\* g is f with a row for the task that everybody sees in progress.
Logs(f, g, t) ==
    /\ f.backlog[t] = "in_progress" /\ origin.backlog[t] = "in_progress"
    /\ g.ledger[t] > f.ledger[t]
    /\ g.ledger = [f.ledger EXCEPT ![t] = g.ledger[t]]

\* And with its end.
Ends(f, g, t) == Logs(f, g, t) /\ g.backlog = [f.backlog EXCEPT ![t] = B!Ending(t)]

\* What is staged is at most one start, or one close as a whole, ahead of
\* HEAD; the work tree alone can have the row without the end.
DraftFiles ==
    /\ \/ SameBoard(head, work)
       \/ \E t \in Task : Starts(head, work, t) \/ Ends(head, work, t)
       \/ \E t \in Task : Logs(head, work, t) /\ work.backlog = head.backlog
    /\ \/ SameBoard(head, index)
       \/ SameBoard(work, index) /\ \E t \in Task : Starts(head, work, t) \/ Ends(head, work, t)

\* A turn that has the files in hand.
DraftAt(w) ==
    /\ pc[w] = "start" => SameBoard(head, work) /\ SameBoard(head, index)
    /\ pc[w] = "startAdd" => Starts(head, work, task[w]) /\ SameBoard(head, index)
    /\ pc[w] \in {"marker", "hook", "stage"} =>
          Ends(head, work, task[w]) /\ SameBoard(head, index)

DraftInv == DraftFiles /\ \A w \in Wake : DraftAt(w)

\* A task with a cycle directory is seen in progress, or finished.
ShownInv == \A t \in Task :
    /\ Terminal(origin.backlog, t) => Terminal(head.backlog, t)
    /\ cycle[t].at # "none" => origin.backlog[t] \notin {"pending", "parked"}

\* The board reads a backlog as the code does.
LEMMA BoardReads ==
    ASSUME NEW b
    PROVE  B!InProgress(b) = InProgress(b) /\ B!NextTask(b) = NextTask(b)
  BY DEF B!InProgress, InProgress, B!NextTask, NextTask, B!First, First

\* A pin commit, a start commit and a close commit move the board alike: by
\* what is staged, which is nothing, one start or one close.
LEMMA CommitMovesBoard ==
    ASSUME IInv, DraftInv, SameBoard(head', index), UNCHANGED <<origin, merged>>
    PROVE  [B!Next]_(B!bvars)
<1> DEFINE old == [backlog |-> head.backlog, ledger |-> head.ledger]
           new == [backlog |-> index.backlog, ledger |-> index.ledger]
<1>1. /\ OnBoard(head) = old /\ OnBoard(head)' = new
      /\ OnBoard(origin)' = OnBoard(origin) /\ merged' = merged
  BY DEF OnBoard, SameBoard
<1>2. CASE SameBoard(head, index)
  BY <1>1, <1>2 DEF SameBoard, B!bvars
<1>3. ASSUME NEW t \in Task, Starts(head, work, t), SameBoard(work, index)
      PROVE  B!Next
  <2>1. /\ InProgress(head.backlog) = {} /\ t = NextTask(head.backlog)
        /\ index.backlog = [head.backlog EXCEPT ![t] = "in_progress"]
        /\ index.ledger = head.ledger
    BY <1>3 DEF Starts, SameBoard
  <2>2. new = [old EXCEPT !.backlog[t] = "in_progress"]
    BY <2>1
  <2>3. InProgress(old.backlog) = {} /\ t = NextTask(old.backlog)
    BY <2>1
  <2> HIDE DEF old, new
  <2>4. B!Start(t)
    BY <1>1, <2>2, <2>3, BoardReads DEF B!Start, B!Started
  <2> QED BY <2>4 DEF B!Next
<1>4. ASSUME NEW t \in Task, Ends(head, work, t), SameBoard(work, index)
      PROVE  B!Next
  <2>1. /\ head.backlog[t] = "in_progress" /\ origin.backlog[t] = "in_progress"
        /\ index.ledger[t] > head.ledger[t]
        /\ index.backlog = [head.backlog EXCEPT ![t] = B!Ending(t)]
        /\ index.ledger = [head.ledger EXCEPT ![t] = index.ledger[t]]
    BY <1>4 DEF Ends, Logs, SameBoard
  <2>2. new = B!Finished(old, t, new.ledger[t])
    BY <2>1 DEF B!Finished
  <2>3. t \in InProgress(old.backlog) /\ t \in InProgress(OnBoard(origin).backlog)
    BY <2>1 DEF InProgress, OnBoard
  <2>4. new.ledger[t] > old.ledger[t]
    BY <2>1
  <2> HIDE DEF old, new
  <2>5. B!Finish(t)
    BY <1>1, <2>2, <2>3, <2>4, BoardReads DEF B!Finish, B!Open
  <2> QED BY <2>5 DEF B!Next
<1> QED BY <1>2, <1>3, <1>4 DEF DraftInv, DraftFiles

\* From the cycle directory to the end of the task, HEAD, the index and the
\* work tree have the task in progress, and so has origin.
LEMMA OngoingIsShown ==
    ASSUME IInv, DraftInv, ShownInv, NEW w \in Wake, pc[w] \in Ongoing \ Starting
    PROVE  /\ head.backlog[task[w]] = "in_progress"
           /\ origin.backlog[task[w]] = "in_progress"
           /\ SameBoard(head, index)
           /\ work.backlog = head.backlog
           /\ SameBoard(head, work) \/ Logs(head, work, task[w])
<1> DEFINE u == task[w]
<1>1. u \in Task /\ InProgress(work.backlog) = {u} /\ cycle[u].at # "none"
  BY DEF IInv, CycleInv, CycleAt, OpenInv, OpenAt, InCycle, Locked, Ongoing, Starting
<1>2. head.backlog[u] \notin {"pending", "parked"} /\ origin.backlog[u] \notin {"pending", "parked"}
  BY <1>1 DEF IInv, OpenInv, OpenTask, ShownInv
<1>3. ASSUME NEW t \in Task, Starts(head, work, t) PROVE FALSE
  <2>1. t = NextTask(head.backlog) /\ t # NoTask /\ work.backlog[t] = "in_progress"
    BY <1>3, BacklogAssumption DEF Starts, IInv, TypeOK, Files
  <2>2. head.backlog[t] = "pending"
    BY <2>1, NextTaskIsFree
  <2>3. t = u
    BY <1>1, <2>1 DEF InProgress
  <2> QED BY <1>2, <2>2, <2>3
<1>4. ASSUME NEW t \in Task, Ends(head, work, t) PROVE FALSE
  <2>1. work.backlog = [head.backlog EXCEPT ![t] = B!Ending(t)] /\ t \in InProgress(head.backlog)
    BY <1>4 DEF Ends, Logs, InProgress
  <2>2. B!Ending(t) # "in_progress"
    BY DEF B!Ending
  <2>3. u # t /\ head.backlog[u] = "in_progress"
    BY <1>1, <2>1, <2>2 DEF InProgress, IInv, TypeOK, Files
  <2>4. InProgress(head.backlog) = {t}
    BY <2>1, <1>4 DEF IInv, StagedInv, Solo
  <2> QED BY <1>1, <2>3, <2>4 DEF InProgress
<1>5. work.backlog = head.backlog /\ SameBoard(head, index)
  BY <1>3, <1>4 DEF DraftInv, DraftFiles, SameBoard
<1>6. head.backlog[u] = "in_progress"
  BY <1>1, <1>5 DEF InProgress
<1>7. origin.backlog[u] = "in_progress"
  BY <1>1, <1>2, <1>6 DEF ShownInv, Terminal, IInv, TypeOK, Files, Status
<1>8. SameBoard(head, work) \/ Logs(head, work, u)
  <2> SUFFICES ASSUME NEW t \in Task, Logs(head, work, t) PROVE t = u
    BY <1>3, <1>4 DEF DraftInv, DraftFiles
  <2> QED BY <1>1, <1>5 DEF Logs, InProgress
<1> QED BY <1>5, <1>6, <1>7, <1>8

\* What reaches origin is HEAD; only Merge merges; a cycle directory is made
\* after the push of its start.
LEMMA PushAndMerge ==
    ASSUME IInv, [Next]_vars
    PROVE  /\ origin' = origin \/ (origin' = head /\ head' = head)
           /\ merged' = merged \/ \E w \in Wake : Merge(w)
           /\ \A t \in Task : cycle'[t].at # "none" =>
                 \/ cycle[t].at # "none"
                 \/ \E w \in Wake : pc[w] = "startPush" /\ t = task[w] /\ origin' = head
<1> DEFINE Goal ==
        /\ origin' = origin \/ (origin' = head /\ head' = head)
        /\ merged' = merged \/ \E w \in Wake : Merge(w)
        /\ \A t \in Task : cycle'[t].at # "none" =>
              \/ cycle[t].at # "none"
              \/ \E w \in Wake : pc[w] = "startPush" /\ t = task[w] /\ origin' = head
<1> SUFFICES Goal
  OBVIOUS
<1>1. \A w \in Wake : pc[w] \in InCycle \ Starting => task[w] \in Task /\ cycle[task[w]].at # "none"
  BY DEF IInv, CycleInv, CycleAt, OpenInv, OpenAt
<1>2. cycle \in [Task -> Cycle] /\ pc \in [Wake -> Unlocked \cup Locked]
  BY DEF IInv, TypeOK
<1> USE DEF Cycle, InCycle, Starting, Locked, At, Goto, repo, steady, syncVars, cycleVars, history
<1>3. ASSUME NEW w \in Wake, Begin(w) \/ Acquire(w) \/ Select(w) \/ Refuse(w) \/ Resume(w) \/ Release(w)
      PROVE  Goal
  BY <1>3 DEF Begin, Acquire, Select, Refuse, Resume, Release
<1>4. ASSUME NEW w \in Wake, PinSync(w) PROVE Goal
  BY <1>4 DEF PinSync, SyncCheck, SyncWrite, SyncBoot, Rebound, SyncAdd, SyncCommit, SyncClean, SyncPush, Push
<1>5. ASSUME NEW w \in Wake, StartEdit(w) \/ StartAdd(w) \/ StartCommit(w) PROVE Goal
  BY <1>5 DEF StartEdit, StartAdd, StartCommit
<1>6. ASSUME NEW w \in Wake, StartPush(w) PROVE Goal
  BY <1>2, <1>6 DEF StartPush, Push
<1>7. ASSUME NEW w \in Wake, Graded(w) \/ OpenPr(w) \/ Pull(w) \/ Finish(w) PROVE Goal
  BY <1>1, <1>2, <1>7 DEF Graded, OpenPr, Pull, Finish
<1>8. ASSUME NEW w \in Wake, Merge(w) \/ Escalate(w) PROVE Goal
  BY <1>8 DEF Merge, Escalate
<1>9. ASSUME NEW w \in Wake, Close(w) \/ ClosePush(w) PROVE Goal
  BY <1>1, <1>2, <1>9 DEF Close, ClosePush, Push, Fails10
<1>10. ASSUME NEW w \in Wake, Revert(w) PROVE Goal
  <2>1. /\ UNCHANGED <<head, origin, merged>> /\ pc[w] = "revert"
        /\ cycle' = [cycle EXCEPT ![task[w]].at = "failed"]
    BY <1>10 DEF Revert, Reverted, Fails10
  <2> QED BY <1>1, <1>2, <2>1
<1>11. ASSUME NEW w \in Wake, WriteLedger(w) \/ WriteBacklog(w) \/ SyncMarker(w) \/ Hook(w) \/ Stage(w) \/ Commit(w)
       PROVE  Goal
  BY <1>11 DEF WriteLedger, WriteBacklog, SyncMarker, Synced, Hook, Stage, Commit
<1>12. ASSUME NEW w \in Wake, PushFails(w) \/ GitFails(w) \/ Die(w) PROVE Goal
  BY <1>12 DEF PushFails, GitFails, Die
<1>13. CASE NewContract
  BY <1>13 DEF NewContract
<1>14. CASE UNCHANGED vars
  BY <1>14 DEF vars
<1> HIDE DEF Goal
<1> QED BY <1>3, <1>4, <1>5, <1>6, <1>7, <1>8, <1>9, <1>10, <1>11, <1>12, <1>13, <1>14
        DEF Next, Turn, Start, Middle, Step10

\* A draft of HEAD is one still when neither changes, whatever is published.
LEMMA DraftKept ==
    ASSUME SameBoard(work', work), SameBoard(head', head),
           origin' = origin \/ origin' = head, merged' = merged, NEW t
    PROVE  /\ Starts(head, work, t) => Starts(head', work', t)
           /\ Logs(head, work, t) => Logs(head, work, t)'
           /\ Ends(head, work, t) => Ends(head, work, t)'
<1>1. Starts(head, work, t) => Starts(head', work', t)
  BY DEF SameBoard, Starts
<1>2. Logs(head, work, t) => Logs(head, work, t)'
  BY DEF SameBoard, Logs
<1>3. B!Ending(t)' = B!Ending(t)
  BY DEF B!Ending
<1> QED BY <1>1, <1>2, <1>3 DEF SameBoard, Ends

\* A pin sync, and whatever else is beside the files, may publish HEAD or
\* commit what is staged.
LEMMA DraftBeside ==
    ASSUME IInv, IInv', DraftInv, Beside, merged' = merged,
           origin' = origin \/ (origin' = head /\ head' = head)
    PROVE  DraftInv'
<1>1. DraftFiles /\ \A w \in Wake : DraftAt(w)
  BY DEF DraftInv
<1>2. SameBoard(work', work) /\ SameBoard(index', index)
  BY DEF Beside, SameClose, SameBoard
<1>3. CASE SameBoard(head, index)
  <2>1. SameBoard(head', head) /\ SameBoard(head', index')
    BY <1>2, <1>3 DEF Beside, SameBoard
  <2>2. DraftFiles'
    BY <1>1, <1>2, <2>1, DraftKept DEF DraftFiles, SameBoard
  <2>3. ASSUME NEW w \in Wake PROVE DraftAt(w)'
    <3>1. CASE pc'[w] \in {"startAdd", "marker", "hook", "stage"}
      <4>1. pc'[w] = pc[w] /\ task'[w] = task[w] /\ DraftAt(w)
        BY <1>1, <3>1 DEF Beside, CloseInHand
      <4> QED BY <1>2, <2>1, <3>1, <4>1, DraftKept DEF DraftAt
    <3>2. CASE pc'[w] = "start"
      <4>1. work'.backlog = index'.backlog /\ InProgress(work'.backlog) = {}
        BY <3>2 DEF IInv, CycleInv, CycleAt
      <4>2. ASSUME NEW t, Logs(head, work, t)' PROVE t \notin Task
        BY <2>1, <4>1, <4>2 DEF Logs, SameBoard, InProgress
      <4>3. ASSUME NEW t \in Task, Starts(head, work, t)' PROVE FALSE
        <5>1. work'.backlog[t] = "in_progress"
          BY <4>3 DEF Starts, IInv, TypeOK, Files
        <5> QED BY <4>1, <5>1 DEF InProgress
      <4>4. SameBoard(head, work)'
        BY <2>2, <4>2, <4>3 DEF DraftFiles, Ends
      <4> QED BY <2>1, <3>2, <4>4 DEF DraftAt
    <3> QED BY <3>1, <3>2 DEF DraftAt
  <2> QED BY <2>2, <2>3 DEF DraftInv
<1>4. CASE ~SameBoard(head, index)
  <2>1. SameBoard(work, index)
    BY <1>1, <1>4 DEF DraftFiles
  <2>2. ASSUME NEW w \in Wake PROVE pc'[w] \notin {"start", "startAdd", "marker", "hook", "stage"}
    <3>1. DraftAt(w) /\ index # head
      BY <1>1, <1>4 DEF SameBoard
    <3> QED BY <1>4, <3>1 DEF Beside, CloseInHand, DraftAt
  <2>3. CASE head' = head
    <3>1. SameBoard(head', head)
      BY <2>3 DEF SameBoard
    <3>2. DraftFiles'
      BY <1>1, <1>2, <2>1, <3>1, DraftKept DEF DraftFiles, SameBoard
    <3> QED BY <2>2, <3>2 DEF DraftInv, DraftAt
  <2>4. CASE head' = index'
    <3>1. DraftFiles'
      BY <1>2, <2>1, <2>4 DEF DraftFiles, SameBoard
    <3> QED BY <2>2, <3>1 DEF DraftInv, DraftAt
  <2> QED BY <2>3, <2>4 DEF Beside
<1> QED BY <1>3, <1>4

\* A turn in the lock moves alone: no other turn has the files in hand.
LEMMA DraftAlone ==
    ASSUME IInv, DraftInv, DraftFiles', NEW w \in Wake, pc[w] \in Locked,
           \E l : pc' = [pc EXCEPT ![w] = l], DraftAt(w)'
    PROVE  DraftInv'
<1> SUFFICES ASSUME NEW v \in Wake, v # w PROVE DraftAt(v)'
  BY DEF DraftInv
<1>1. pc'[v] = pc[v] /\ pc[v] \notin Locked
  BY DEF IInv, TypeOK, ExclusiveInv
<1> QED BY <1>1 DEF DraftAt, Locked

LEMMA DraftStep == ASSUME IInv, IInv', DraftInv, ShownInv, [Next]_vars PROVE DraftInv'
<1> USE DEF At, Goto, repo, steady, syncVars, cycleVars, history
<1>1. TypeOK /\ DraftFiles /\ \A w \in Wake : DraftAt(w)
  BY DEF IInv, DraftInv
<1>2. ASSUME NEW w \in Wake, Merge(w) PROVE DraftInv'
  <2>1. /\ UNCHANGED <<work, index, head, origin>>
        /\ pc[w] = "merge" /\ pc' = [pc EXCEPT ![w] = "pull"]
    BY <1>2 DEF Merge
  <2>2. SameBoard(head, index) /\ work.backlog = head.backlog /\ task[w] \in Task
    BY <2>1, OngoingIsShown DEF Ongoing, Starting, IInv, CycleInv, CycleAt, InCycle, Locked
  <2>3. SameBoard(head, work) \/ Logs(head, work, task[w])
    BY <2>1, OngoingIsShown DEF Ongoing, Starting
  <2>4. DraftFiles'
    BY <2>1, <2>2, <2>3 DEF DraftFiles, SameBoard, Logs
  <2>5. DraftAt(w)'
    BY <1>1, <2>1 DEF DraftAt, TypeOK
  <2> QED BY <2>1, <2>4, <2>5, DraftAlone DEF Locked
<1>3. ASSUME NEW w \in Wake, StartEdit(w) PROVE DraftInv'
  <2>1. /\ UNCHANGED <<index, head, origin, task, merged>>
        /\ pc[w] = "start" /\ pc' = [pc EXCEPT ![w] = "startAdd"]
    BY <1>3 DEF StartEdit
  <2>2. work' = [work EXCEPT !.backlog[task[w]] = "in_progress"]
    BY <1>3 DEF StartEdit
  <2>3. SameBoard(head, work) /\ SameBoard(head, index) /\ task[w] \in Task
        /\ InProgress(work.backlog) = {} /\ task[w] = NextTask(work.backlog)
    BY <1>1, <2>1 DEF DraftAt, IInv, CycleInv, CycleAt, InCycle, Locked
  <2>4. work'.backlog = [work.backlog EXCEPT ![task[w]] = "in_progress"] /\ work'.ledger = work.ledger
    BY <1>1, <2>2 DEF TypeOK, Files
  <2>5. Starts(head', work', task'[w]) /\ SameBoard(head, index)'
    BY <2>1, <2>3, <2>4 DEF Starts, SameBoard
  <2>6. DraftFiles' /\ DraftAt(w)'
    BY <1>1, <2>1, <2>3, <2>5 DEF DraftFiles, DraftAt, TypeOK
  <2> QED BY <2>1, <2>6, DraftAlone DEF Locked
<1>4. ASSUME NEW w \in Wake, StartAdd(w) PROVE DraftInv'
  <2>1. /\ UNCHANGED <<work, head, origin, task, merged>>
        /\ pc[w] = "startAdd" /\ pc' = [pc EXCEPT ![w] = "startCommit"]
    BY <1>4 DEF StartAdd
  <2>2. index'.backlog = work.backlog /\ index'.ledger = index.ledger
    BY <1>1, <1>4 DEF StartAdd, TypeOK, Files
  <2>3. Starts(head, work, task[w]) /\ SameBoard(head, index) /\ task[w] \in Task
    BY <1>1, <2>1 DEF DraftAt, IInv, CycleInv, CycleAt, InCycle, Locked
  <2>4. Starts(head', work', task[w]) /\ SameBoard(work, index)'
    BY <2>1, <2>2, <2>3 DEF Starts, SameBoard
  <2>5. DraftFiles' /\ DraftAt(w)'
    BY <1>1, <2>1, <2>3, <2>4 DEF DraftFiles, DraftAt, TypeOK
  <2> QED BY <2>1, <2>5, DraftAlone DEF Locked
<1>5. ASSUME NEW w \in Wake, StartCommit(w) \/ Commit(w) PROVE DraftInv'
  <2>1. /\ UNCHANGED <<work, index, origin, task, merged>>
        /\ pc[w] \in Locked /\ \E l \in {"startPush", "release", "push", "revert"} : pc' = [pc EXCEPT ![w] = l]
        /\ head' = head \/ head' = index
    BY <1>5 DEF StartCommit, Commit, CommitIndex, Locked
  <2>2. CASE head' = head
    <3>1. DraftFiles'
      BY <1>1, <2>1, <2>2, DraftKept DEF DraftFiles, SameBoard
    <3>2. DraftAt(w)'
      BY <1>1, <2>1 DEF DraftAt, TypeOK
    <3> QED BY <2>1, <3>1, <3>2, DraftAlone
  <2>3. CASE head' = index
    <3>1. DraftFiles'
      <4>1. SameBoard(work', work) /\ (SameBoard(head, index) => SameBoard(head', head))
        BY <2>1, <2>3 DEF SameBoard
      <4>2. CASE SameBoard(head, index)
        BY <1>1, <2>1, <2>3, <4>1, <4>2, DraftKept DEF DraftFiles, SameBoard
      <4>3. CASE SameBoard(work, index)
        BY <2>1, <2>3, <4>3 DEF DraftFiles, SameBoard
      <4> QED BY <1>1, <4>2, <4>3 DEF DraftFiles
    <3>2. DraftAt(w)'
      BY <1>1, <2>1 DEF DraftAt, TypeOK
    <3> QED BY <2>1, <3>1, <3>2, DraftAlone
  <2> QED BY <2>1, <2>2, <2>3
<1>6. ASSUME NEW w \in Wake, WriteLedger(w) PROVE DraftInv'
  <2>1. /\ UNCHANGED <<index, head, origin, task, merged>>
        /\ pc[w] = "ledger" /\ pc' = [pc EXCEPT ![w] = "backlog"]
    BY <1>6 DEF WriteLedger
  <2>2. work' = [work EXCEPT !.ledger[task[w]] = @ + 1]
    BY <1>6 DEF WriteLedger
  <2>3. task[w] \in Task
    BY <2>1 DEF IInv, CycleInv, CycleAt, InCycle, Locked
  <2>4. /\ work'.backlog = work.backlog
        /\ work'.ledger = [work.ledger EXCEPT ![task[w]] = work.ledger[task[w]] + 1]
    BY <1>1, <2>2, <2>3 DEF TypeOK, Files
  <2>5. /\ head.backlog[task[w]] = "in_progress" /\ origin.backlog[task[w]] = "in_progress"
        /\ SameBoard(head, index) /\ work.backlog = head.backlog
        /\ SameBoard(head, work) \/ Logs(head, work, task[w])
    BY <2>1, OngoingIsShown DEF Ongoing, Starting
  <2>6. head.ledger \in [Task -> Nat] /\ work.ledger \in [Task -> Nat]
    BY <1>1 DEF TypeOK, Files
  <2>7. /\ work.ledger[task[w]] >= head.ledger[task[w]]
        /\ work.ledger = [head.ledger EXCEPT ![task[w]] = work.ledger[task[w]]]
    BY <2>3, <2>5, <2>6 DEF SameBoard, Logs
  <2>8. Logs(head, work, task[w])'
    <3>1. work'.ledger[task[w]] > head.ledger[task[w]]
      BY <2>3, <2>4, <2>6, <2>7
    <3>2. work'.ledger = [head.ledger EXCEPT ![task[w]] = work'.ledger[task[w]]]
      BY <2>3, <2>4, <2>6, <2>7
    <3> QED BY <2>1, <2>5, <3>1, <3>2 DEF Logs
  <2>9. DraftFiles' /\ DraftAt(w)'
    BY <1>1, <2>1, <2>3, <2>4, <2>5, <2>8 DEF DraftFiles, DraftAt, TypeOK, SameBoard
  <2> QED BY <2>1, <2>9, DraftAlone DEF Locked
<1>7. ASSUME NEW w \in Wake, WriteBacklog(w) PROVE DraftInv'
  <2>1. /\ UNCHANGED <<index, head, origin, task, merged>>
        /\ pc[w] = "backlog" /\ pc' = [pc EXCEPT ![w] = "marker"]
    BY <1>7 DEF WriteBacklog
  <2>2. task[w] \in Task /\ work.ledger[task[w]] > 0
    BY <2>1 DEF IInv, CycleInv, CycleAt, InCycle, Locked
  <2>3. /\ work'.ledger = work.ledger
        /\ work'.backlog = [work.backlog EXCEPT ![task[w]] = B!Ending(task[w])]
    BY <1>1, <1>7 DEF WriteBacklog, TypeOK, Files, B!Ending
  <2>4. /\ head.backlog[task[w]] = "in_progress"
        /\ SameBoard(head, index) /\ work.backlog = head.backlog
        /\ SameBoard(head, work) \/ Logs(head, work, task[w])
    BY <2>1, OngoingIsShown DEF Ongoing, Starting
  <2>5. Logs(head, work, task[w])
    <3>1. ~(head.ledger[task[w]] > 0)
      BY <2>2, <2>4 DEF IInv, StagedInv, Whole, Terminal
    <3> QED BY <2>2, <2>4, <3>1 DEF SameBoard
  <2>6. B!Ending(task[w])' = B!Ending(task[w])
    BY <2>1 DEF B!Ending
  <2>7. Ends(head, work, task[w])'
    BY <2>1, <2>3, <2>4, <2>5, <2>6 DEF Ends, Logs
  <2>8. DraftFiles' /\ DraftAt(w)'
    BY <1>1, <2>1, <2>2, <2>4, <2>7 DEF DraftFiles, DraftAt, TypeOK, SameBoard
  <2> QED BY <2>1, <2>8, DraftAlone DEF Locked
<1>8. ASSUME NEW w \in Wake, SyncMarker(w) \/ Hook(w) PROVE DraftInv'
  <2>1. /\ UNCHANGED <<index, head, origin, task, merged>> /\ pc[w] \in {"marker", "hook"}
        /\ \E l \in {"stage", "hook", "revert"} : pc' = [pc EXCEPT ![w] = l]
    BY <1>8 DEF SyncMarker, Synced, Hook
  <2>2. SameBoard(work', work)
    BY <1>1, <1>8 DEF SyncMarker, Synced, Hook, SameBoard, TypeOK, Files
  <2>3. SameBoard(head', head) /\ Ends(head, work, task[w]) /\ SameBoard(head, index) /\ task[w] \in Task
    BY <1>1, <2>1 DEF DraftAt, IInv, CycleInv, CycleAt, InCycle, Locked, SameBoard
  <2>4. Ends(head, work, task[w])'
    <3>1. B!Ending(task[w])' = B!Ending(task[w])
      BY <2>1 DEF B!Ending
    <3> QED BY <2>1, <2>2, <2>3, <3>1 DEF Ends, Logs, SameBoard
  <2>5. DraftFiles' /\ DraftAt(w)'
    BY <1>1, <2>1, <2>3, <2>4 DEF DraftFiles, DraftAt, TypeOK, SameBoard
  <2> QED BY <2>1, <2>5, DraftAlone DEF Locked
<1>9. ASSUME NEW w \in Wake, Stage(w) PROVE DraftInv'
  <2>1. /\ UNCHANGED <<work, head, origin, task, merged>>
        /\ pc[w] = "stage" /\ pc' = [pc EXCEPT ![w] = "commit"]
    BY <1>9 DEF Stage
  <2>2. SameBoard(work', index')
    BY <1>1, <1>9 DEF Stage, SameBoard, TypeOK, Files
  <2>3. SameBoard(work', work) /\ SameBoard(head', head) /\ Ends(head, work, task[w]) /\ task[w] \in Task
    BY <1>1, <2>1 DEF DraftAt, IInv, CycleInv, CycleAt, InCycle, Locked, SameBoard
  <2>4. Ends(head, work, task[w])'
    BY <2>1, <2>3, DraftKept
  <2>5. DraftFiles' /\ DraftAt(w)'
    BY <1>1, <2>1, <2>2, <2>3, <2>4 DEF DraftFiles, DraftAt, TypeOK
  <2> QED BY <2>1, <2>5, DraftAlone DEF Locked
<1>10. ASSUME NEW w \in Wake, Revert(w) PROVE DraftInv'
  <2>1. /\ UNCHANGED <<head, origin>>
        /\ pc[w] = "revert" /\ pc' = [pc EXCEPT ![w] = "release"]
    BY <1>10 DEF Revert, Reverted, Fails10
  <2>2. SameBoard(head', work') /\ SameBoard(head', index')
    BY <1>1, <1>10 DEF Revert, Reverted, SameBoard, TypeOK, Files
  <2>3. DraftFiles' /\ DraftAt(w)'
    BY <1>1, <2>1, <2>2 DEF DraftFiles, DraftAt, TypeOK
  <2> QED BY <2>1, <2>3, DraftAlone DEF Locked
<1>11. ASSUME NEW w \in Wake, Die(w) PROVE DraftInv'
  <2>1. /\ UNCHANGED <<work, index, head, origin, merged>> /\ pc' = [pc EXCEPT ![w] = "idle"]
        /\ \A v \in Wake : v # w => task'[v] = task[v]
    BY <1>1, <1>11 DEF Die, TypeOK
  <2>2. SameBoard(work', work) /\ SameBoard(head', head) /\ SameBoard(index', index)
    BY <2>1 DEF SameBoard
  <2>3. DraftFiles'
    BY <1>1, <2>1, <2>2, DraftKept DEF DraftFiles, SameBoard
  <2>4. ASSUME NEW v \in Wake PROVE DraftAt(v)'
    <3>1. pc'[v] = "idle" \/ (pc'[v] = pc[v] /\ task'[v] = task[v] /\ DraftAt(v))
      BY <1>1, <2>1 DEF TypeOK
    <3> QED BY <2>1, <2>2, <3>1, DraftKept DEF DraftAt, SameBoard
  <2> QED BY <2>3, <2>4 DEF DraftInv
<1>12. CASE Beside /\ ~\E w \in Wake : Merge(w)
  BY <1>12, PushAndMerge, DraftBeside
<1>13. ASSUME NEW w \in Wake, GitFails(w) PROVE DraftInv'
  <2>1. /\ UNCHANGED <<work, index, head, origin, merged, task>>
        /\ \E l \in {"idle", "release", "revert"} : pc' = [pc EXCEPT ![w] = l]
    BY <1>13 DEF GitFails
  <2>2. SameBoard(work', work) /\ SameBoard(head', head) /\ SameBoard(index', index)
    BY <2>1 DEF SameBoard
  <2>3. DraftFiles'
    BY <1>1, <2>1, <2>2, DraftKept DEF DraftFiles, SameBoard
  <2>4. ASSUME NEW v \in Wake PROVE DraftAt(v)'
    <3>1. pc'[v] \in {"idle", "release", "revert"} \/ (pc'[v] = pc[v] /\ task'[v] = task[v] /\ DraftAt(v))
      BY <1>1, <2>1 DEF TypeOK
    <3> QED BY <2>1, <2>2, <3>1, DraftKept DEF DraftAt, SameBoard
  <2> QED BY <2>3, <2>4 DEF DraftInv
<1> QED
  BY <1>1, <1>2, <1>3, <1>4, <1>5, <1>6, <1>7, <1>8, <1>9, <1>10, <1>11, <1>12, <1>13, StepIsBeside

\* HEAD moves to what is staged, or says of the tasks what it said.
LEMMA HeadStep == ASSUME TypeOK, [Next]_vars PROVE SameBoard(head', head) \/ SameBoard(head', index)
<1>1. CASE Beside
  BY <1>1 DEF Beside, SameClose, SameBoard
<1>2. ASSUME NEW w \in Wake, StartCommit(w) \/ Commit(w) PROVE head' = head \/ head' = index
  BY <1>2 DEF StartCommit, Commit, CommitIndex
<1>3. ASSUME NEW w \in Wake,
             \/ StartEdit(w) \/ StartAdd(w) \/ WriteLedger(w) \/ WriteBacklog(w)
             \/ SyncMarker(w) \/ Hook(w) \/ Stage(w) \/ Revert(w) \/ GitFails(w) \/ Die(w)
      PROVE  head' = head
  BY <1>3 DEF StartEdit, StartAdd, WriteLedger, WriteBacklog, SyncMarker, Synced, Hook, Stage,
              Revert, Reverted, GitFails, Die, repo
<1> QED BY <1>1, <1>2, <1>3, StepIsBeside DEF SameBoard

\* A finished task stays finished in HEAD.
LEMMA TerminalStays ==
    ASSUME IInv, DraftInv, [Next]_vars, NEW t \in Task, Terminal(head.backlog, t)
    PROVE  Terminal(head'.backlog, t)
<1>1. CASE SameBoard(head', head) \/ SameBoard(head, index)
  BY <1>1, HeadStep DEF IInv, SameBoard
<1>2. ASSUME NEW u \in Task, Starts(head, index, u) \/ Ends(head, index, u)
      PROVE  Terminal(index.backlog, t)
  <2>1. head.backlog[u] \in {"pending", "in_progress"}
    BY <1>2, NextTaskIsFree, BacklogAssumption DEF Starts, Ends, Logs
  <2>2. u # t
    BY <2>1 DEF Terminal
  <2> QED BY <1>2, <2>2 DEF Starts, Ends, Terminal, IInv, TypeOK, Files
<1>3. CASE SameBoard(work, index) /\ \E u \in Task : Starts(head, work, u) \/ Ends(head, work, u)
  <2>1. \E u \in Task : Starts(head, index, u) \/ Ends(head, index, u)
    BY <1>3 DEF SameBoard, Starts, Ends, Logs
  <2> QED BY <1>1, <1>2, <2>1, HeadStep DEF IInv, SameBoard
<1> QED BY <1>1, <1>3 DEF DraftInv, DraftFiles

\* Origin follows HEAD, and a cycle's task is on origin before its cycle.
LEMMA ShownStep == IInv /\ DraftInv /\ ShownInv /\ [Next]_vars => ShownInv'
<1> SUFFICES ASSUME IInv, DraftInv, ShownInv, [Next]_vars, NEW t \in Task
             PROVE  /\ Terminal(origin'.backlog, t) => Terminal(head'.backlog, t)
                    /\ cycle'[t].at # "none" => origin'.backlog[t] \notin {"pending", "parked"}
  BY DEF ShownInv
<1>1. Terminal(origin'.backlog, t) => Terminal(head'.backlog, t)
  BY PushAndMerge, TerminalStays DEF ShownInv
<1>2. ASSUME cycle'[t].at # "none" PROVE origin'.backlog[t] \notin {"pending", "parked"}
  <2>1. CASE cycle[t].at # "none"
    BY <2>1, PushAndMerge DEF ShownInv, IInv, OpenInv, OpenTask
  <2>2. ASSUME NEW w \in Wake, pc[w] = "startPush", t = task[w], origin' = head
        PROVE  origin'.backlog[t] \notin {"pending", "parked"}
    BY <2>2 DEF IInv, OpenInv, OpenAt
  <2> QED BY <1>2, <2>1, <2>2, PushAndMerge
<1> QED BY <1>1, <1>2

\* Each step moves the board as TaskBoard does, or not at all.
LEMMA BoardStep == ASSUME IInv, DraftInv, ShownInv, [Next]_vars PROVE [B!Next]_(B!bvars)
<1>1. CASE SameBoard(head', head) /\ merged' = merged
  <2>1. OnBoard(head)' = OnBoard(head)
    BY <1>1 DEF SameBoard, OnBoard
  <2>2. CASE origin' = origin
    BY <1>1, <2>1, <2>2 DEF B!bvars, OnBoard
  <2>3. CASE origin' = head /\ head' = head
    BY <1>1, <2>1, <2>3 DEF B!Next, B!Publish, OnBoard
  <2> QED BY <2>2, <2>3, PushAndMerge
<1>2. ASSUME NEW w \in Wake, Merge(w) PROVE B!Next
  <2>1. /\ UNCHANGED <<head, origin>> /\ merged' = merged \cup {task[w]} /\ pc[w] = "merge"
    BY <1>2 DEF Merge, At
  <2>2. task[w] \in Task /\ head.backlog[task[w]] = "in_progress" /\ origin.backlog[task[w]] = "in_progress"
    BY <2>1, OngoingIsShown DEF Ongoing, Starting, IInv, CycleInv, CycleAt, InCycle, Locked
  <2>3. B!Open(task[w])
    BY <2>2, BoardReads DEF B!Open, OnBoard, InProgress
  <2>4. B!Merge(task[w])
    BY <2>1, <2>3 DEF B!Merge, OnBoard
  <2> QED BY <2>2, <2>4 DEF B!Next
<1>3. CASE ~SameBoard(head', head) /\ SameBoard(head', index) /\ merged' = merged
  <2>1. origin' = origin
    BY <1>3, PushAndMerge DEF SameBoard
  <2> QED BY <1>3, <2>1, CommitMovesBoard
<1> QED BY <1>1, <1>2, <1>3, HeadStep, PushAndMerge DEF IInv

\* What main says of the tasks changes by whole starts and closes alone, in
\* the order of TaskBoard, whatever pin commits take along, for every
\* backlog, set of turns and number of faults.
THEOREM BoardIsKept == Spec => ImplementsBoard
<1>1. Init => B!Init /\ DraftInv /\ ShownInv
  <2> SUFFICES ASSUME Init PROVE B!Init /\ DraftInv /\ ShownInv
    OBVIOUS
  <2>1. PICK b \in Backlogs :
          head = [backlog |-> b, ledger |-> [t \in Task |-> IF Terminal(b, t) THEN 1 ELSE 0],
                  marker |-> NextTask(b), pin |-> 0, boot |-> 0]
    BY DEF Init
  <2>2. InProgress(head.backlog) = {}
    BY <2>1, CycleAssumption DEF InProgress
  <2>3. ASSUME NEW t \in Task PROVE head.ledger[t] > 0 <=> Terminal(head.backlog, t)
    <3>1. head.ledger[t] = (IF Terminal(b, t) THEN 1 ELSE 0) /\ head.backlog = b
      BY <2>1
    <3> HIDE <2>1
    <3> QED BY <3>1
  <2>4. work = head /\ index = head /\ origin = head /\ merged = {}
    BY DEF Init
  <2>5. B!Init
    BY <2>2, <2>3, <2>4, BoardReads DEF B!Init, B!Terminal, Terminal, OnBoard
  <2>6. DraftInv
    BY <2>4 DEF Init, DraftInv, DraftFiles, DraftAt, SameBoard
  <2>7. ShownInv
    BY <2>4 DEF Init, ShownInv
  <2> QED BY <2>5, <2>6, <2>7
<1> QED BY <1>1, DraftStep, ShownStep, BoardStep, Invariance, PTL DEF Spec, ImplementsBoard, B!Spec

=============================================================================
