-------------------------- MODULE CodexDriverProofs --------------------------
(***************************************************************************)
(* CodexDriver's safety for any number of retries and signals, any set of  *)
(* kill policies, and any child.  Only the current attempt may be alive    *)
(* (GroupInv).  A goal that is complete stays so until the next launch,    *)
(* and a read marker counts in the first turn only (GoalInv, MarkInv), so  *)
(* that a line read late still says what is true (EarnedInv).  And the     *)
(* driver is a Delegation: where it stands in an attempt says what its     *)
(* signal handler knows and which verdicts it can come to (StageInv).      *)
(***************************************************************************)
EXTENDS CodexDriver, TLAPS

-----------------------------------------------------------------------------
(* The inductive invariant                                                 *)

\* The lines on their way, and the requests that wait for the child.
Lines == {pipe[i] : i \in DOMAIN pipe} \cup {buf[i] : i \in DOMAIN buf}
Asked(r) == \E i \in DOMAIN inbox : inbox[i] = r

\* There is a verdict from the cleanup on.
ControlInv ==
    /\ pc = "await" => req # "none"
    /\ pc \in {"launch", "wait"} => verdict = Undecided
    /\ pc = "wait" => req = "none"
    /\ pc = "await" /\ req \notin CleanupReqs => verdict = Undecided

GroupInv ==
    /\ \A a \in Attempts \ {cur} : ~Alive(a)
    /\ pc = "launch" => ~Alive(cur)
    /\ pc = "exited" /\ ~cut => ~Alive(cur)

\* Before the goal is asked for.
Early == {"initialize", "thread_start", "goal_get"}

\* goal_set is sent once, before there is a goal.
GoalInv ==
    /\ pc = "await" /\ req \in Early => goal = "none" /\ ~Asked("goal_set")
    /\ Asked("goal_set") => goal = "none"
    /\ \A i, j \in DOMAIN inbox : inbox[i] = "goal_set" /\ inbox[j] = "goal_set" => i = j
    /\ \A m \in Lines : m.goal = "complete" => goal = "complete"

\* No turn has been waited for yet in any attempt.
Launching ==
    \/ pc = "launch"
    \/ pc = "await" /\ req \in LaunchReqs
    \/ verdict = Retry

MarkInv ==
    /\ Launching => ~seen /\ ~nudged
    /\ seen => 1 \in marked
    /\ \A m \in Lines : m.kind = "marker" => m.turn \in marked
    /\ ~nudged => turns[2] = "none" /\ marked \subseteq {1} /\ ~Asked("nudge_start")

EarnedInv == verdict = 0 => goal = "complete" /\ 1 \in marked

IInv == TypeOK /\ ControlInv /\ GroupInv /\ GoalInv /\ MarkInv /\ EarnedInv

\* The handler knows the child from thread/start's answer on; who cleans up
\* or kills has a verdict, and who has exited has a code.
StageInv ==
    /\ active =< cur
    /\ pc = "launch" \/ (pc = "await" /\ req \in {"initialize", "thread_start"})
         => active < cur
    /\ InTurn \/ (pc = "await" /\ req \in {"goal_get", "goal_set", "turn_start"})
         => active = cur
    /\ pc = "kill" \/ (pc = "await" /\ req \in CleanupReqs) => verdict # Undecided
    /\ pc = "exited" => verdict \in Codes

-----------------------------------------------------------------------------
(* Lines and requests                                                      *)

\* What readline returns was on its way, and nothing else comes with it.
LEMMA ReadLines ==
    ASSUME TypeOK, ReadLine
    PROVE  /\ Line \in Lines /\ Line \in Message
           /\ Lines' \subseteq Lines
           /\ pipe' \in Seq(Message) /\ buf' \in Seq(Message)
<1> USE DEF ReadLine, Lines, Line, TypeOK
<1>1. CASE buf = <<>>
  <2>1. buf \o pipe = pipe /\ pipe \in Seq(Message) /\ pipe # <<>>
    BY <1>1
  <2>2. Line = pipe[1] /\ 1 \in DOMAIN pipe
    BY <2>1
  <2>3. buf' = Tail(pipe) /\ pipe' = <<>>
    BY <1>1
  <2>4. \A i \in DOMAIN buf' : i + 1 \in DOMAIN pipe /\ buf'[i] = pipe[i + 1]
    BY <2>1, <2>3
  <2> QED BY <2>1, <2>2, <2>3, <2>4
<1>2. CASE buf # <<>>
  <2>1. Line = buf[1] /\ 1 \in DOMAIN buf
    BY <1>2
  <2>2. buf' = Tail(buf) /\ pipe' = pipe
    BY <1>2
  <2>3. \A i \in DOMAIN buf' : i + 1 \in DOMAIN buf /\ buf'[i] = buf[i + 1]
    BY <1>2, <2>2
  <2> QED BY <2>1, <2>2, <2>3
<1> QED BY <1>1, <1>2

\* A line the child writes.
LEMMA WriteLine ==
    ASSUME TypeOK, NEW m \in Message, pipe' = Append(pipe, m), buf' = buf
    PROVE  /\ Lines' \subseteq Lines \cup {m}
           /\ pipe' \in Seq(Message)
<1>1. DOMAIN pipe' = 1 .. Len(pipe) + 1 /\ pipe'[Len(pipe) + 1] = m
      /\ \A i \in DOMAIN pipe : pipe'[i] = pipe[i]
  BY DEF TypeOK
<1>2. DOMAIN pipe = 1 .. Len(pipe) /\ Len(pipe) \in Nat
  BY DEF TypeOK
<1>3. \A i \in DOMAIN pipe' : i \in DOMAIN pipe \/ i = Len(pipe) + 1
  BY <1>1, <1>2
<1> QED BY <1>1, <1>3 DEF Lines, TypeOK

\* A chunk is read with its lines, or lost.
LEMMA ReadChunk ==
    ASSUME TypeOK,
           \/ UNCHANGED <<pipe, buf>>
           \/ buf = <<>> /\ buf' \in {pipe, <<>>} /\ pipe' = <<>>
    PROVE  pipe' \in Seq(Message) /\ buf' \in Seq(Message) /\ Lines' \subseteq Lines
BY DEF TypeOK, Lines

\* The driver asks for r, though a dead child does not hear it.
Asks(r) == pc' = "await" /\ req' = r /\ (inbox' = inbox \/ inbox' = Append(inbox, r))

\* A request more: nothing else is asked for by it.
LEMMA SendAsks ==
    ASSUME TypeOK, NEW r \in Reqs, Send(r)
    PROVE  Asks(r)
BY DEF Send, Asks

LEMMA AsksOne ==
    ASSUME TypeOK, NEW r \in Reqs, Asks(r)
    PROVE  /\ inbox' \in Seq(Reqs)
           /\ \A q \in Reqs : Asked(q)' => Asked(q) \/ q = r
           /\ (r # "goal_set" \/ ~Asked("goal_set")) =>
                ((\A i, j \in DOMAIN inbox : inbox[i] = "goal_set" /\ inbox[j] = "goal_set" => i = j)
                  => (\A i, j \in DOMAIN inbox' : inbox'[i] = "goal_set" /\ inbox'[j] = "goal_set" => i = j))
<1>1. CASE inbox' = inbox
  BY <1>1 DEF Asked, TypeOK
<1>2. CASE inbox' = Append(inbox, r)
  <2>1. DOMAIN inbox = 1 .. Len(inbox) /\ Len(inbox) \in Nat /\ inbox \in Seq(Reqs)
    BY DEF TypeOK
  <2>2. DOMAIN inbox' = 1 .. Len(inbox) + 1 /\ inbox'[Len(inbox) + 1] = r
        /\ \A i \in DOMAIN inbox : inbox'[i] = inbox[i]
    BY <1>2, <2>1
  <2>3. \A i \in DOMAIN inbox' : i \in DOMAIN inbox \/ i = Len(inbox) + 1
    BY <2>1, <2>2
  <2> QED BY <1>2, <2>1, <2>2, <2>3 DEF Asked
<1> QED BY <1>1, <1>2 DEF Asks

\* The child takes the oldest request.
LEMMA Taken ==
    ASSUME TypeOK, inbox # <<>>, inbox' = Tail(inbox)
    PROVE  /\ inbox' \in Seq(Reqs) /\ Head(inbox) \in Reqs /\ Asked(Head(inbox))
           /\ \A q \in Reqs : Asked(q)' => Asked(q)
           /\ (\A i, j \in DOMAIN inbox : inbox[i] = "goal_set" /\ inbox[j] = "goal_set" => i = j)
              => /\ \A i, j \in DOMAIN inbox' : inbox'[i] = "goal_set" /\ inbox'[j] = "goal_set" => i = j
                 /\ Head(inbox) = "goal_set" => ~Asked("goal_set")'
<1>1. inbox \in Seq(Reqs) /\ Len(inbox) \in Nat /\ Len(inbox) > 0 /\ DOMAIN inbox = 1 .. Len(inbox)
  BY DEF TypeOK
<1>2. Head(inbox) = inbox[1] /\ 1 \in DOMAIN inbox
  BY <1>1
<1>3. \A i \in DOMAIN inbox' : i + 1 \in DOMAIN inbox /\ i + 1 # 1 /\ inbox'[i] = inbox[i + 1] /\ i \in Nat
  BY <1>1
<1>4. inbox' \in Seq(Reqs)
  BY <1>1
<1> QED BY <1>1, <1>2, <1>3, <1>4 DEF Asked

-----------------------------------------------------------------------------
(* What the driver goes on with                                            *)

\* On the way to kill_proc.
Winds ==
    \/ \E r \in CleanupReqs : Asks(r)
    \/ pc' = "kill" /\ req' = "none" /\ inbox' = inbox

\* cleanup_thread sets the verdict and asks for no more than the cleanup.
LEMMA CleanupWinds ==
    ASSUME TypeOK, NEW v, Cleanup(v)
    PROVE  verdict' = v /\ Winds
<1>1. "goal_clear" \in CleanupReqs /\ "goal_clear" \in Reqs
  BY DEF CleanupReqs, Reqs
<1> QED BY <1>1, SendAsks DEF Cleanup, Winds

\* A request that fails is the end of the attempt: of the launch if it was
\* part of that.
LEMMA FailWinds ==
    ASSUME TypeOK, pc = "await", req # "none", NEW v, Fail(v)
    PROVE  /\ Winds
           /\ \/ verdict' = verdict /\ req \in CleanupReqs
              \/ verdict' \in {1, 6} /\ req \in TurnReqs
              \/ verdict' = v /\ req \in LaunchReqs
<1>1. CASE req \in LaunchReqs
  <2>1. Cleanup(v)
    BY <1>1 DEF Fail, LaunchReqs
  <2> QED BY <1>1, <2>1, CleanupWinds
<1>2. CASE req = "final_check"
  <2>1. Cleanup(1)
    BY <1>2 DEF Fail, LaunchReqs
  <2> QED BY <1>2, <2>1, CleanupWinds DEF TurnReqs
<1>3. CASE req \in {"nudge_start", "recheck"}
  <2>1. Cleanup(6)
    BY <1>3 DEF Fail, LaunchReqs
  <2> QED BY <1>3, <2>1, CleanupWinds DEF TurnReqs
<1>4. CASE req = "goal_clear"
  <2>1. Send("archive") /\ verdict' = verdict
    BY <1>4 DEF Fail, LaunchReqs
  <2> QED BY <1>4, <2>1, SendAsks DEF Winds, CleanupReqs, Reqs
<1>5. CASE req = "archive"
  BY <1>5 DEF Fail, LaunchReqs, Winds, CleanupReqs
<1> QED BY <1>1, <1>2, <1>3, <1>4, <1>5 DEF TypeOK, Reqs, TurnReqs, CleanupReqs

\* The request that follows an answered one.
Follows(q, r) ==
    \/ q = "initialize" /\ r = "thread_start"
    \/ q = "thread_start" /\ r = "goal_get"
    \/ q = "goal_get" /\ r = "goal_set"
    \/ q = "goal_set" /\ r = "turn_start"
    \/ q = "final_check" /\ r = "nudge_start"

\* An answer leads to the next request or to a verdict, which is 0 only on a
\* complete goal and a read marker.
LEMMA AnsweredAsks ==
    ASSUME TypeOK, pc = "await", req \notin {"none", "turn_start", "nudge_start"},
           NEW g, Answered(g)
    PROVE  \/ \E r \in Reqs : Follows(req, r) /\ Asks(r) /\ verdict' = verdict
           \/ /\ Winds
              /\ \/ verdict' = verdict /\ req \in CleanupReqs
                 \/ verdict' = 4 /\ req = "goal_get"
                 \/ verdict' = 6 /\ req \in TurnReqs
                 \/ verdict' = 0 /\ req \in TurnReqs /\ g = "complete" /\ seen
<1>1. CASE req = "initialize"
  BY <1>1, SendAsks DEF Answered, Follows, Reqs, LaunchReqs
<1>2. CASE req = "thread_start"
  BY <1>2, SendAsks DEF Answered, Follows, Reqs, LaunchReqs
<1>3. CASE req = "goal_get"
  <2>1. CASE g = "foreign"
    BY <1>3, <2>1, CleanupWinds DEF Answered
  <2>2. CASE g # "foreign"
    BY <1>3, <2>2, SendAsks DEF Answered, Follows, Reqs, LaunchReqs
  <2> QED BY <2>1, <2>2
<1>4. CASE req = "goal_set"
  BY <1>4, SendAsks DEF Answered, Follows, Reqs, LaunchReqs
<1>5. ASSUME req \in {"final_check", "recheck"}, Judge(g)
      PROVE  Winds /\ (verdict' = 6 \/ (verdict' = 0 /\ g = "complete" /\ seen))
  <2>1. CASE g = "complete" /\ seen
    <3>1. Cleanup(0)
      BY <1>5, <2>1, Zenon DEF Judge
    <3> QED BY <2>1, <3>1, CleanupWinds
  <2>2. CASE ~(g = "complete" /\ seen)
    <3>1. Cleanup(6)
      BY <1>5, <2>2, Zenon DEF Judge
    <3> QED BY <3>1, CleanupWinds
  <2> QED BY <2>1, <2>2
<1>6. CASE req = "final_check"
  <2>1. CASE g = "active" /\ Nudge
    BY <1>6, <2>1, SendAsks DEF Answered, Follows, Reqs, TurnReqs
  <2>2. CASE ~(g = "active" /\ Nudge)
    <3>1. Judge(g)
      BY <1>6, <2>2 DEF Answered
    <3> QED BY <1>5, <1>6, <3>1 DEF TurnReqs
  <2> QED BY <2>1, <2>2
<1>7. CASE req = "recheck"
  <2>1. Judge(g)
    BY <1>7 DEF Answered
  <2> QED BY <1>5, <1>7, <2>1 DEF TurnReqs
<1>8. CASE req \in CleanupReqs
  <2>1. Fail(Retry)
    BY <1>8 DEF Answered, CleanupReqs
  <2> QED BY <1>8, <2>1, FailWinds DEF CleanupReqs, LaunchReqs, TurnReqs
<1> QED BY <1>1, <1>2, <1>3, <1>4, <1>6, <1>7, <1>8
        DEF TypeOK, Reqs, LaunchReqs, TurnReqs, CleanupReqs

\* The end of a wait leads to a goal check or to a verdict, which is not 0.
LEMMA WaitAsks ==
    ASSUME TypeOK, NEW rc \in {0, 2}, WaitEnds(rc)
    PROVE  \/ (\E r \in {"final_check", "recheck"} : Asks(r)) /\ verdict' = verdict
           \/ Winds /\ verdict' \in {2, 6}
<1>1. {"final_check", "recheck"} \subseteq Reqs
  BY DEF Reqs, TurnReqs
<1>2. CASE Cleanup(6) \/ (rc = 2 /\ Cleanup(rc))
  BY <1>2, CleanupWinds
<1>3. CASE (Send("recheck") \/ Send("final_check")) /\ verdict' = verdict
  BY <1>1, <1>3, SendAsks
<1> QED BY <1>2, <1>3 DEF WaitEnds

-----------------------------------------------------------------------------
(* The steps                                                               *)

\* A driver in its starting position.
LEMMA InitInv == Init => IInv
<1> SUFFICES ASSUME Init PROVE IInv
  OBVIOUS
<1>1. TypeOK
  <2>1. 1 \in Attempts
    BY DriverAssumption DEF Attempts
  <2>2. pipe \in Seq(Message) /\ buf \in Seq(Message) /\ inbox \in Seq(Reqs)
    BY DEF Init
  <2>3. signals \in 0 .. MaxSignals
    BY DriverAssumption DEF Init
  <2>4. /\ srv \in [Attempts -> {"none", "up", "gone"}]
        /\ kids \in [Attempts -> BOOLEAN]
        /\ turns \in [1 .. 2 -> {"none", "running", "answered", "ended"}]
    BY DEF Init
  <2> QED BY <2>1, <2>2, <2>3, <2>4 DEF Init, TypeOK
<1>2. Lines = {} /\ \A r : ~Asked(r)
  BY DEF Init, Lines, Asked
<1>3. ControlInv
  BY DEF Init, ControlInv
<1>4. GroupInv
  <2>1. 1 \in Attempts
    BY DriverAssumption DEF Attempts
  <2> QED BY <2>1 DEF Init, GroupInv, Alive
<1>5. GoalInv /\ MarkInv /\ EarnedInv
  BY <1>2 DEF Init, GoalInv, MarkInv, EarnedInv, Undecided
<1> QED BY <1>1, <1>3, <1>4, <1>5 DEF IInv

\* What the driver does between launch and kill_proc: it reads, asks and
\* judges, and leaves the child to itself.
Moves(r) ==
    \/ Asks(r)
    \/ pc' = "kill" /\ req' \in Reqs \cup {"none"} /\ inbox' = inbox
    \/ pc' = "wait" /\ req' = "none" /\ inbox' = inbox

LEMMA DriverMoves ==
    ASSUME IInv, pc # "exited", pc # "launch" \/ pc' = "kill",
           NEW r \in Reqs, Moves(r),
           cur' = cur, UNCHANGED childRest,
           pipe' \in Seq(Message), buf' \in Seq(Message), Lines' \subseteq Lines,
           active' \in Attempts \cup {0}, signals' \in 0 .. MaxSignals,
           {seen', armed', nudged', cut', stuck'} \subseteq BOOLEAN,
           verdict' \in Codes \cup {Undecided, Retry},
           nudged => nudged',
           seen' => 1 \in marked,
           Launching' => ~seen' /\ ~nudged',
           verdict' = 0 => goal = "complete" /\ 1 \in marked,
           pc' = "wait" \/ (pc' = "await" /\ r \notin CleanupReqs) => verdict' = Undecided,
           r \in Early => goal = "none" /\ ~Asked("goal_set"),
           r = "goal_set" => inbox' = inbox \/ (goal = "none" /\ ~Asked("goal_set")),
           r = "nudge_start" => inbox' = inbox \/ nudged'
    PROVE  IInv'
<1> USE DEF IInv
<1>1. pc' \in {"await", "wait", "kill"} /\ req' \in Reqs \cup {"none"}
      /\ (pc' = "await" => req' = r) /\ (pc' = "wait" => req' = "none")
  BY DEF Moves, Asks
<1>2. /\ inbox' \in Seq(Reqs)
      /\ \A q \in Reqs : Asked(q)' => Asked(q) \/ (q = r /\ inbox' # inbox)
      /\ \A i, j \in DOMAIN inbox' : inbox'[i] = "goal_set" /\ inbox'[j] = "goal_set" => i = j
  <2>1. CASE inbox' = inbox
    BY <2>1 DEF TypeOK, GoalInv, Asked
  <2>2. CASE inbox' # inbox
    <3>1. Asks(r)
      BY <2>2 DEF Moves
    <3>2. r # "goal_set" \/ ~Asked("goal_set")
      BY <2>2
    <3>3. \A i, j \in DOMAIN inbox : inbox[i] = "goal_set" /\ inbox[j] = "goal_set" => i = j
      BY DEF GoalInv
    <3> QED BY <2>2, <3>1, <3>2, <3>3, AsksOne
  <2> QED BY <2>1, <2>2
<1>3. goal' = goal /\ turns' = turns /\ marked' = marked /\ srv' = srv /\ kids' = kids
  BY DEF childRest
<1>4. TypeOK'
  BY <1>1, <1>2, <1>3 DEF TypeOK
<1>5. ControlInv'
  BY <1>1 DEF ControlInv, Reqs, LaunchReqs, TurnReqs, CleanupReqs
<1>6. GroupInv'
  BY <1>1, <1>3 DEF GroupInv, Alive
<1>7. GoalInv'
  <2>1. "goal_set" \in Reqs
    BY DEF Reqs, LaunchReqs
  <2>2. pc' = "await" /\ req' \in Early => goal' = "none" /\ ~Asked("goal_set")'
    BY <1>1, <1>2, <1>3, <2>1 DEF Early
  <2>3. Asked("goal_set")' => goal' = "none"
    BY <1>2, <1>3, <2>1 DEF GoalInv
  <2>4. \A m \in Lines' : m.goal = "complete" => goal' = "complete"
    BY <1>3 DEF GoalInv
  <2> QED BY <1>2, <2>2, <2>3, <2>4 DEF GoalInv
<1>8. MarkInv'
  <2>1. "nudge_start" \in Reqs
    BY DEF Reqs, TurnReqs
  <2>2. ~nudged' => ~nudged /\ ~Asked("nudge_start")'
    BY <1>2, <2>1 DEF MarkInv
  <2>3. \A m \in Lines' : m.kind = "marker" => m.turn \in marked'
    BY <1>3 DEF MarkInv
  <2> QED BY <1>3, <2>2, <2>3 DEF MarkInv
<1>9. EarnedInv'
  BY <1>3 DEF EarnedInv
<1> QED BY <1>4, <1>5, <1>6, <1>7, <1>8, <1>9

\* A driver that winds up.
LEMMA WindMoves ==
    ASSUME IInv, pc # "exited", pc # "launch" \/ pc' = "kill", Winds,
           cur' = cur, UNCHANGED childRest,
           pipe' \in Seq(Message), buf' \in Seq(Message), Lines' \subseteq Lines,
           active' \in Attempts \cup {0}, signals' \in 0 .. MaxSignals,
           {seen', armed', nudged', cut', stuck'} \subseteq BOOLEAN,
           verdict' \in Codes \cup {Undecided, Retry},
           nudged => nudged',
           seen' => 1 \in marked,
           verdict' = Retry => ~seen' /\ ~nudged',
           verdict' = 0 => goal = "complete" /\ 1 \in marked
    PROVE  IInv'
<1>1. PICK r \in CleanupReqs : Moves(r) /\ (pc' = "kill" \/ (pc' = "await" /\ req' = r))
  BY DEF Winds, Moves, Asks, CleanupReqs
<1>2. r \in Reqs /\ r \notin LaunchReqs /\ r \notin Early /\ r \notin {"goal_set", "nudge_start"}
  BY DEF Reqs, CleanupReqs, LaunchReqs, Early
<1>3. Launching' => ~seen' /\ ~nudged'
  BY <1>1, <1>2 DEF Launching
<1>4. ~(pc' = "wait" \/ (pc' = "await" /\ r \notin CleanupReqs))
  BY <1>1
<1> QED BY <1>1, <1>2, <1>3, <1>4, DriverMoves

\* A child that the driver has not read from, or no more than a line.
LEMMA SameLines ==
    ASSUME TypeOK, UNCHANGED <<pipe, buf>>
    PROVE  pipe' \in Seq(Message) /\ buf' \in Seq(Message) /\ Lines' \subseteq Lines
BY DEF TypeOK, Lines

\* The launch fails, or the child does not answer in the end.
LEMMA AwaitTimeoutInv == ASSUME IInv, AwaitTimeout PROVE IInv'
<1>1. TypeOK /\ pc = "await" /\ req # "none" /\ Fail(Retry)
  BY DEF IInv, ControlInv, AwaitTimeout
<1>2. Winds /\ (\/ verdict' = verdict /\ req \in CleanupReqs
                \/ verdict' \in {1, 6}
                \/ verdict' = Retry /\ req \in LaunchReqs)
  BY <1>1, FailWinds
<1>3. verdict' \in Codes \cup {Undecided, Retry}
  BY <1>1, <1>2 DEF TypeOK, Codes
<1>4. verdict' = Retry => ~seen /\ ~nudged
  BY <1>1, <1>2 DEF IInv, MarkInv, Launching, Retry
<1>5. verdict' = 0 => goal = "complete" /\ 1 \in marked
  BY <1>2 DEF IInv, EarnedInv, Retry
<1>6. seen => 1 \in marked
  BY DEF IInv, MarkInv
<1>7. pipe' \in Seq(Message) /\ buf' \in Seq(Message) /\ Lines' \subseteq Lines
  BY <1>1, SameLines DEF AwaitTimeout
<1> QED BY <1>1, <1>2, <1>3, <1>4, <1>5, <1>6, <1>7, WindMoves DEF AwaitTimeout, TypeOK

\* An exception that is not a launch failure.
LEMMA RaisedInv ==
    ASSUME IInv, pc \in {"await", "wait"}, Raised,
           cur' = cur, UNCHANGED childRest,
           pipe' \in Seq(Message), buf' \in Seq(Message), Lines' \subseteq Lines,
           UNCHANGED <<active, seen, armed, nudged, signals, stuck>>
    PROVE  IInv'
<1>1. TypeOK /\ (seen => 1 \in marked)
  BY DEF IInv, MarkInv
<1>2. CASE req \in LaunchReqs /\ Exit(1) /\ cut' = TRUE /\ inbox' = inbox
  <2>1. pc' = "exited" /\ req' = "none" /\ verdict' = 1
    BY <1>2 DEF Exit
  <2>2. TypeOK'
    BY <1>1, <1>2, <2>1 DEF TypeOK, Codes, childRest
  <2>3. ControlInv' /\ GroupInv' /\ EarnedInv'
    BY <1>2, <2>1 DEF IInv, ControlInv, GroupInv, EarnedInv, Alive, childRest
  <2>4. GoalInv'
    BY <1>2, <2>1 DEF IInv, GoalInv, Asked, childRest
  <2>5. MarkInv'
    BY <1>2, <2>1 DEF IInv, MarkInv, Asked, childRest, Launching, Retry
  <2> QED BY <2>2, <2>3, <2>4, <2>5 DEF IInv
<1>3. CASE Cleanup(1) /\ cut' = cut
  <2>1. verdict' = 1 /\ Winds
    BY <1>1, <1>3, CleanupWinds
  <2>2. verdict' \in Codes /\ verdict' # 0 /\ verdict' # Retry
    BY <2>1 DEF Codes, Retry
  <2> QED BY <1>1, <1>3, <2>1, <2>2, WindMoves DEF TypeOK
<1>4. CASE req \in CleanupReqs /\ Fail(1) /\ cut' = cut
  <2>1. pc = "await" /\ req # "none"
    BY <1>4 DEF IInv, ControlInv, CleanupReqs
  <2>2. Winds /\ verdict' = verdict
    BY <1>1, <1>4, <2>1, FailWinds DEF CleanupReqs, TurnReqs, LaunchReqs
  <2>3. verdict' = Retry => ~seen /\ ~nudged
    BY <2>2 DEF IInv, MarkInv, Launching
  <2>4. verdict' = 0 => goal = "complete" /\ 1 \in marked
    BY <2>2 DEF IInv, EarnedInv
  <2>5. verdict' \in Codes \cup {Undecided, Retry}
    BY <1>1, <2>2 DEF TypeOK
  <2> QED BY <1>1, <1>4, <2>1, <2>2, <2>3, <2>4, <2>5, WindMoves DEF TypeOK
<1> QED BY <1>2, <1>3, <1>4 DEF Raised

\* The same, of a line that readline or its reader cannot take.
LEMMA ReadRaisesInv == ASSUME IInv, ReadRaises PROVE IInv'
<1>1. pipe' \in Seq(Message) /\ buf' \in Seq(Message) /\ Lines' \subseteq Lines
  BY ReadChunk DEF IInv, ReadRaises
<1> QED BY <1>1, RaisedInv DEF ReadRaises

\* A line is read while a response is awaited.
LEMMA AwaitReadInv == ASSUME IInv, AwaitRead PROVE IInv'
<1> DEFINE m == Line
<1>1. TypeOK /\ pc = "await" /\ req # "none" /\ req \in Reqs /\ ReadLine
  BY DEF IInv, ControlInv, AwaitRead, TypeOK
<1>2. /\ m \in Lines /\ m \in Message /\ Lines' \subseteq Lines
      /\ pipe' \in Seq(Message) /\ buf' \in Seq(Message)
  BY <1>1, ReadLines
<1>3. cur' = cur /\ seen' = seen /\ signals' = signals /\ stuck' = stuck /\ UNCHANGED childRest
  BY DEF AwaitRead
<1>4. seen => 1 \in marked
  BY DEF IInv, MarkInv
<1>5. req \notin CleanupReqs => verdict = Undecided
  BY <1>1 DEF IInv, ControlInv
<1>6. req \in LaunchReqs \/ verdict = Retry => ~seen /\ ~nudged
  BY <1>1 DEF IInv, MarkInv, Launching
<1>7. CASE m.req # req /\ UNCHANGED <<pc, req, verdict, inbox, active, nudged, armed, cut>>
  <2>1. Moves(req)
    BY <1>1, <1>7 DEF Moves, Asks
  <2>2. req \in Early => goal = "none" /\ ~Asked("goal_set")
    BY <1>1 DEF IInv, GoalInv
  <2>3. verdict = 0 => goal = "complete" /\ 1 \in marked
    BY DEF IInv, EarnedInv
  <2>4. Launching' => ~seen' /\ ~nudged'
    BY <1>1, <1>3, <1>6, <1>7 DEF Launching
  <2> QED BY <1>1, <1>2, <1>3, <1>4, <1>5, <1>7, <2>1, <2>2, <2>3, <2>4, DriverMoves
          DEF TypeOK
<1>8. CASE /\ m.req = req /\ m.kind = "resp"
           /\ IF req \in {"turn_start", "nudge_start"}
                THEN EnterWait /\ UNCHANGED <<verdict, inbox>>
                ELSE Answered(m.goal) /\ UNCHANGED armed
           /\ active' = IF req = "thread_start" THEN cur ELSE active
           /\ nudged' = (nudged \/ req' = "nudge_start")
           /\ UNCHANGED cut
  <2>1. active' \in Attempts \cup {0} /\ cut' = cut /\ nudged' \in BOOLEAN
    BY <1>1, <1>8 DEF TypeOK
  <2>2. CASE req \in {"turn_start", "nudge_start"}
    <3>1. pc' = "wait" /\ req' = "none" /\ armed' = FALSE /\ verdict' = verdict /\ inbox' = inbox
      BY <1>8, <2>2 DEF EnterWait
    <3>2. "archive" \in Reqs /\ "archive" \notin Early /\ Moves("archive")
      BY <3>1 DEF Reqs, CleanupReqs, Early, Moves
    <3>3. verdict' = Undecided
      BY <1>5, <2>2, <3>1 DEF CleanupReqs
    <3>4. ~Launching' /\ nudged' = nudged
      BY <1>1, <1>8, <3>1, <3>3 DEF Launching, Undecided, Retry, TypeOK
    <3>5. verdict' # 0 /\ verdict' \in Codes \cup {Undecided, Retry}
      BY <3>3 DEF Undecided
    <3> QED BY <1>1, <1>2, <1>3, <1>4, <2>1, <3>1, <3>2, <3>3, <3>4, <3>5, DriverMoves
            DEF TypeOK
  <2>3. CASE req \notin {"turn_start", "nudge_start"}
    <3>1. Answered(m.goal) /\ armed' = armed
      BY <1>8, <2>3
    <3>2. \/ \E r \in Reqs : Follows(req, r) /\ Asks(r) /\ verdict' = verdict
          \/ /\ Winds
             /\ \/ verdict' = verdict /\ req \in CleanupReqs
                \/ verdict' = 4 /\ req = "goal_get"
                \/ verdict' = 6 /\ req \in TurnReqs
                \/ verdict' = 0 /\ req \in TurnReqs /\ m.goal = "complete" /\ seen
      BY <1>1, <2>3, <3>1, AnsweredAsks
    <3>3. ASSUME NEW r \in Reqs, Follows(req, r), Asks(r), verdict' = verdict
          PROVE  IInv'
      <4>1. Moves(r) /\ pc' = "await" /\ req' = r
        BY <3>3 DEF Moves, Asks
      <4>2. verdict' = Undecided
        BY <1>5, <3>3 DEF Follows, CleanupReqs
      <4>3. Launching' => ~seen' /\ ~nudged'
        <5>1. r \in LaunchReqs => req \in LaunchReqs /\ r # "nudge_start"
          BY <3>3 DEF Follows, LaunchReqs
        <5>2. Launching' => r \in LaunchReqs
          BY <4>1, <4>2 DEF Launching, Undecided, Retry
        <5>3. nudged' = (nudged \/ r = "nudge_start")
          BY <1>8, <4>1
        <5> QED BY <1>3, <1>6, <5>1, <5>2, <5>3
      <4>4. r \in Early \/ r = "goal_set" => goal = "none" /\ ~Asked("goal_set")
        BY <1>1, <3>3 DEF IInv, GoalInv, Follows, Early
      <4>5. r = "nudge_start" => nudged'
        BY <1>8, <4>1
      <4>6. nudged => nudged'
        BY <1>8
      <4>7. verdict' # 0 /\ verdict' \in Codes \cup {Undecided, Retry}
        BY <4>2 DEF Undecided
      <4> QED BY <1>1, <1>2, <1>3, <1>4, <2>1, <3>1, <4>1, <4>2, <4>3, <4>4, <4>5, <4>6, <4>7,
                 DriverMoves DEF TypeOK
    <3>4. ASSUME Winds,
                 \/ verdict' = verdict /\ req \in CleanupReqs
                 \/ verdict' = 4 /\ req = "goal_get"
                 \/ verdict' = 6 /\ req \in TurnReqs
                 \/ verdict' = 0 /\ req \in TurnReqs /\ m.goal = "complete" /\ seen
          PROVE  IInv'
      <4>1. req' # "nudge_start" /\ nudged' = nudged
        BY <1>1, <1>8, <3>4 DEF Winds, Asks, CleanupReqs, TypeOK
      <4>2. verdict' = Retry => ~seen /\ ~nudged
        BY <1>6, <3>4 DEF Retry
      <4>3. verdict' = 0 => goal = "complete" /\ 1 \in marked
        BY <1>2, <1>4, <3>4 DEF IInv, EarnedInv, GoalInv
      <4>4. verdict' \in Codes \cup {Undecided, Retry}
        BY <1>1, <3>4 DEF Codes, TypeOK
      <4> QED BY <1>1, <1>2, <1>3, <1>4, <2>1, <3>1, <3>4, <4>1, <4>2, <4>3, <4>4, WindMoves
              DEF TypeOK
    <3> QED BY <3>2, <3>3, <3>4
  <2> QED BY <2>2, <2>3
<1>9. CASE Fail(4) /\ UNCHANGED <<active, nudged, armed, cut>>
  <2>1. Winds /\ (\/ verdict' = verdict /\ req \in CleanupReqs
                  \/ verdict' \in {1, 6}
                  \/ verdict' = 4 /\ req \in LaunchReqs)
    BY <1>1, <1>9, FailWinds
  <2>2. verdict' = Retry => ~seen /\ ~nudged
    BY <1>6, <2>1 DEF Retry
  <2>3. verdict' = 0 => goal = "complete" /\ 1 \in marked
    BY <2>1 DEF IInv, EarnedInv
  <2>4. verdict' \in Codes \cup {Undecided, Retry}
    BY <1>1, <2>1 DEF Codes, TypeOK
  <2> QED BY <1>1, <1>2, <1>3, <1>4, <1>9, <2>1, <2>2, <2>3, <2>4, WindMoves DEF TypeOK
<1>10. CASE Raised /\ UNCHANGED <<active, nudged, armed>>
  BY <1>1, <1>2, <1>3, <1>10, RaisedInv
<1> QED BY <1>7, <1>8, <1>9, <1>10 DEF AwaitRead

\* The wait is over: the goal is checked, or the driver winds up.
LEMMA WaitEndsInv ==
    ASSUME IInv, pc = "wait", NEW rc \in {0, 2}, WaitEnds(rc),
           cur' = cur, UNCHANGED childRest,
           pipe' \in Seq(Message), buf' \in Seq(Message), Lines' \subseteq Lines,
           UNCHANGED <<active, seen, nudged, signals, cut, stuck>>
    PROVE  IInv'
<1>1. TypeOK /\ armed' = armed /\ verdict = Undecided
  BY DEF IInv, WaitEnds, ControlInv
<1>2. seen => 1 \in marked
  BY DEF IInv, MarkInv
<1>3. ASSUME NEW r \in {"final_check", "recheck"}, Asks(r), verdict' = verdict
      PROVE  IInv'
  <2>1. r \in Reqs /\ r \notin LaunchReqs /\ r \notin Early /\ r \notin {"goal_set", "nudge_start"}
    BY DEF Reqs, TurnReqs, LaunchReqs, Early
  <2>2. Moves(r) /\ pc' = "await" /\ req' = r
    BY <1>3 DEF Moves, Asks
  <2>3. ~Launching' /\ verdict' # 0
    BY <1>1, <1>3, <2>1, <2>2 DEF Launching, Undecided, Retry
  <2> QED BY <1>1, <1>2, <1>3, <2>1, <2>2, <2>3, DriverMoves DEF TypeOK
<1>4. CASE Winds /\ verdict' \in {2, 6}
  <2>1. verdict' \in Codes /\ verdict' # 0 /\ verdict' # Retry
    BY <1>4 DEF Codes, Retry
  <2> QED BY <1>1, <1>2, <1>4, <2>1, WindMoves DEF TypeOK
<1> QED BY <1>1, <1>3, <1>4, WaitAsks

\* A line is read while a turn is waited for.
LEMMA WaitReadInv == ASSUME IInv, WaitRead PROVE IInv'
<1> DEFINE m == Line
<1>1. TypeOK /\ pc = "wait" /\ req = "none" /\ ReadLine /\ verdict = Undecided
  BY DEF IInv, ControlInv, WaitRead
<1>2. /\ m \in Lines /\ m \in Message /\ Lines' \subseteq Lines
      /\ pipe' \in Seq(Message) /\ buf' \in Seq(Message)
  BY <1>1, ReadLines
<1>3. UNCHANGED <<cur, active, nudged, signals, cut, stuck>> /\ UNCHANGED childRest
  BY DEF WaitRead
<1>4. CASE m.kind \in {"done", "failed"}
  <2>1. PICK rc \in {0, 2} : WaitEnds(rc) /\ seen' = seen
    BY <1>4 DEF WaitRead
  <2> QED BY <1>1, <1>2, <1>3, <2>1, WaitEndsInv
<1>5. CASE m.kind \notin {"done", "failed"}
  <2>1. /\ seen' = Observed(m)
        /\ armed' = (armed \/ m.kind = "final")
        /\ UNCHANGED <<pc, req, verdict, inbox>>
    BY <1>5 DEF WaitRead
  <2>2. {seen', armed'} \subseteq BOOLEAN
    BY <1>1, <2>1 DEF Observed, TypeOK
  <2>3. seen' => 1 \in marked
    <3>1. CASE seen
      BY <3>1 DEF IInv, MarkInv
    <3>2. CASE m.kind = "marker" /\ ~nudged
      BY <1>2, <3>2 DEF IInv, MarkInv
    <3> QED BY <2>1, <3>1, <3>2 DEF Observed
  <2>4. "archive" \in Reqs /\ "archive" \notin Early /\ Moves("archive")
    BY <1>1, <2>1 DEF Reqs, CleanupReqs, Early, Moves, TypeOK
  <2>5. ~Launching' /\ verdict' # 0 /\ verdict' = Undecided
    BY <1>1, <2>1 DEF Launching, Undecided, Retry
  <2> QED BY <1>1, <1>2, <1>3, <2>1, <2>2, <2>3, <2>4, <2>5, DriverMoves DEF TypeOK
<1> QED BY <1>4, <1>5

\* SIGINT or SIGTERM while the handler knows the child.
LEMMA SignalHeldInv == ASSUME IInv, SignalHeld PROVE IInv'
<1>1. TypeOK /\ pc # "exited" /\ Cleanup(2) /\ signals' \in 0 .. MaxSignals
  BY DriverAssumption DEF IInv, SignalHeld, TypeOK
<1>2. Winds /\ verdict' = 2
  BY <1>1, CleanupWinds
<1>3. pc # "launch" \/ pc' = "kill"
  BY <1>1 DEF IInv, GroupInv, Alive, Up, Cleanup
<1>4. seen => 1 \in marked
  BY DEF IInv, MarkInv
<1>5. pipe' \in Seq(Message) /\ buf' \in Seq(Message) /\ Lines' \subseteq Lines
  BY <1>1, SameLines DEF SignalHeld
<1>6. verdict' \in Codes /\ verdict' # 0 /\ verdict' # Retry
  BY <1>2 DEF Codes, Retry
<1> QED BY <1>1, <1>2, <1>3, <1>4, <1>5, <1>6, WindMoves DEF SignalHeld, TypeOK

\* A child starts with a thread of its own: what the driver knows of the
\* attempt before it is nothing.
LEMMA LaunchInv == ASSUME IInv, Launch PROVE IInv'
<1>1. TypeOK /\ pc = "launch" /\ verdict = Undecided /\ ~seen /\ ~nudged
  BY DEF IInv, Launch, ControlInv, MarkInv, Launching
<1>2. "initialize" \in Reqs /\ "initialize" \in LaunchReqs /\ "initialize" \notin CleanupReqs
  BY DEF Reqs, LaunchReqs, CleanupReqs
<1>3. Lines' = {} /\ \A q : Asked(q)' => q = "initialize"
  BY DEF Launch, Lines, Asked
<1>4. TypeOK'
  BY <1>1, <1>2 DEF Launch, TypeOK
<1>5. ControlInv'
  BY <1>1 DEF Launch, ControlInv
<1>6. GroupInv'
  BY <1>1 DEF IInv, Launch, GroupInv, Alive, TypeOK
<1>7. GoalInv'
  <2>1. goal' = "none" /\ ~Asked("goal_set")'
    BY <1>3 DEF Launch
  <2>2. \A i, j \in DOMAIN inbox' : inbox'[i] = "goal_set" /\ inbox'[j] = "goal_set" => i = j
    BY DEF Launch
  <2> QED BY <1>3, <2>1, <2>2 DEF GoalInv
<1>8. MarkInv'
  <2>1. ~seen' /\ ~nudged' /\ turns'[2] = "none" /\ marked' = {} /\ ~Asked("nudge_start")'
    BY <1>1, <1>3 DEF Launch
  <2> QED BY <1>3, <2>1 DEF MarkInv
<1>9. EarnedInv'
  BY <1>1 DEF Launch, EarnedInv, Undecided
<1> QED BY <1>4, <1>5, <1>6, <1>7, <1>8, <1>9 DEF IInv

\* kill_proc empties the pipes and the group of the current attempt.
LEMMA Reaps ==
    ASSUME TypeOK, ReapGroup(cur)
    PROVE  /\ srv' \in [Attempts -> {"none", "up", "gone"}] /\ kids' \in [Attempts -> BOOLEAN]
           /\ Lines' = {} /\ (\A q : ~Asked(q)') /\ inbox' = <<>> /\ pipe' = <<>> /\ buf' = <<>>
           /\ srv'[cur] # "up" /\ ~kids'[cur]
           /\ \A a \in Attempts \ {cur} : srv'[a] = srv[a] /\ kids'[a] = kids[a]
<1>1. inbox' = <<>> /\ pipe' = <<>> /\ buf' = <<>>
  BY DEF ReapGroup
<1>2. Lines' = {} /\ (\A q : ~Asked(q)')
  BY <1>1 DEF Lines, Asked
<1>3. /\ srv' \in [Attempts -> {"none", "up", "gone"}]
      /\ srv'[cur] # "up"
      /\ \A a \in Attempts \ {cur} : srv'[a] = srv[a]
  BY DEF ReapGroup, TypeOK
<1>4. /\ kids' \in [Attempts -> BOOLEAN] /\ ~kids'[cur]
      /\ \A a \in Attempts \ {cur} : kids'[a] = kids[a]
  BY DEF ReapGroup, TypeOK
<1> QED BY <1>1, <1>2, <1>3, <1>4

\* A driver that has reaped its child, and asks for nothing.
LEMMA ReapedMoves ==
    ASSUME IInv, ReapGroup(cur), UNCHANGED <<active, seen, armed, nudged, signals, cut, stuck>>,
           UNCHANGED <<goal, turns, marked>>,
           pc' \in {"launch", "kill", "exited"}, req' \in Reqs \cup {"none"},
           cur' \in Attempts,
           pc' = "launch" => verdict' = Undecided,
           Launching' => Launching,
           verdict' \in Codes \cup {Undecided, Retry},
           verdict' = 0 => verdict = 0
    PROVE  IInv'
<1>1. TypeOK
  BY DEF IInv
<1>2. /\ srv' \in [Attempts -> {"none", "up", "gone"}] /\ kids' \in [Attempts -> BOOLEAN]
      /\ Lines' = {} /\ (\A q : ~Asked(q)') /\ inbox' = <<>> /\ pipe' = <<>> /\ buf' = <<>>
      /\ srv'[cur] # "up" /\ ~kids'[cur]
      /\ \A a \in Attempts \ {cur} : srv'[a] = srv[a] /\ kids'[a] = kids[a]
  BY <1>1, Reaps
<1>3. TypeOK'
  BY <1>1, <1>2 DEF TypeOK
<1>4. \A a \in Attempts : ~Alive(a)'
  <2>1. cur \in Attempts
    BY <1>1 DEF TypeOK
  <2> QED BY <1>2, <2>1 DEF IInv, GroupInv, Alive
<1>5. ControlInv' /\ GroupInv' /\ EarnedInv'
  BY <1>3, <1>4 DEF IInv, ControlInv, GroupInv, EarnedInv, TypeOK
<1>6. GoalInv'
  BY <1>2 DEF GoalInv
<1>7. MarkInv'
  BY <1>2 DEF IInv, MarkInv
<1> QED BY <1>3, <1>5, <1>6, <1>7 DEF IInv

\* A kill policy strikes.
LEMMA PolicyKillInv == ASSUME IInv, NEW p \in Policies, PolicyKill(p) PROVE IInv'
<1>1. TypeOK /\ p \in {"wall", "idle", "no_work", "terminal"}
  BY DriverAssumption DEF IInv
<1>2. verdict' \in {2, 6, 7, 8}
  BY <1>1 DEF PolicyKill, PolicyCode
<1>3. pc' = "kill" /\ req' = req /\ cur' = cur
  BY DEF PolicyKill
<1>4. ~Launching' /\ verdict' # 0 /\ verdict' \in Codes
  BY <1>2, <1>3 DEF Launching, Retry, Codes
<1> QED BY <1>1, <1>3, <1>4, ReapedMoves DEF PolicyKill, TypeOK

\* kill_proc, and another attempt or the end.
LEMMA KillInv == ASSUME IInv, Kill PROVE IInv'
<1>1. TypeOK /\ ReapGroup(cur)
  BY DEF IInv, Kill, ReapCurrent
<1>2. /\ UNCHANGED <<active, seen, armed, nudged, signals, cut, stuck>>
      /\ UNCHANGED <<goal, turns, marked>>
  BY DEF Kill
<1>3. CASE verdict = Retry /\ RetriesLeft
  <2>1. pc' = "launch" /\ req' = "none" /\ cur' = cur + 1 /\ verdict' = Undecided
    BY <1>3 DEF Kill
  <2>2. cur' \in Attempts /\ Launching
    BY <1>1, <1>3, <2>1, DriverAssumption DEF RetriesLeft, Attempts, TypeOK, Launching
  <2>3. verdict' # 0
    BY <2>1 DEF Undecided
  <2> QED BY <1>1, <1>2, <2>1, <2>2, <2>3, ReapedMoves
<1>4. CASE ~(verdict = Retry /\ RetriesLeft)
  <2>1. pc' = "exited" /\ req' = "none" /\ cur' = cur
        /\ verdict' = IF verdict = Retry THEN 3 ELSE verdict
    BY <1>4 DEF Kill, Exit
  <2>2. ~Launching' /\ (verdict' = 0 => verdict = 0) /\ verdict' \in Codes \cup {Undecided, Retry}
    BY <1>1, <2>1 DEF Launching, Retry, Codes, TypeOK
  <2> QED BY <1>1, <1>2, <2>1, <2>2, ReapedMoves DEF TypeOK
<1> QED BY <1>3, <1>4

\* Popen fails: there is no child.
LEMMA SpawnFailsInv == ASSUME IInv, SpawnFails PROVE IInv'
<1>1. pc = "launch" /\ pc' = "kill" /\ verdict' = Retry
      /\ UNCHANGED <<req, cur, active, seen, armed, nudged,
                     signals, cut, stuck, pipe, buf, childVars>>
  BY DEF SpawnFails
<1>2. TypeOK' /\ ControlInv' /\ GroupInv' /\ GoalInv' /\ EarnedInv'
  BY <1>1 DEF IInv, TypeOK, ControlInv, GroupInv, GoalInv, EarnedInv, Alive, Lines, Asked,
              childVars, Retry
<1>3. MarkInv'
  BY <1>1 DEF IInv, MarkInv, Launching, Lines, Asked, childVars
<1> QED BY <1>2, <1>3 DEF IInv

\* SIGINT or SIGTERM while the handler does not know the child.
LEMMA SignalUnheldInv == ASSUME IInv, SignalUnheld PROVE IInv'
<1>1. /\ pc' = "exited" /\ req' = "none" /\ verdict' \in {2, 143}
      /\ cut' = TRUE /\ stuck' = FALSE
      /\ UNCHANGED <<cur, active, seen, armed, nudged, pipe, buf, childVars>>
  BY DEF SignalUnheld, Exit
<1>2. signals' \in 0 .. MaxSignals
  BY DriverAssumption DEF IInv, SignalUnheld, TypeOK
<1>3. TypeOK'
  BY <1>1, <1>2 DEF IInv, TypeOK, Codes, childVars
<1>4. ControlInv' /\ GroupInv' /\ GoalInv' /\ EarnedInv'
  BY <1>1 DEF IInv, ControlInv, GroupInv, GoalInv, EarnedInv, Alive, Lines, Asked, childVars
<1>5. MarkInv'
  BY <1>1 DEF IInv, MarkInv, Launching, Lines, Asked, childVars, Retry
<1> QED BY <1>3, <1>4, <1>5 DEF IInv

\* The child of the current attempt forks or exits.
LEMMA ChildMovesInv == ASSUME IInv, ChildForks \/ ChildExits PROVE IInv'
<1>1. /\ UNCHANGED <<driverVars, signals, cut, stuck, pipe, buf, inbox, goal, turns, marked>>
      /\ pc # "exited" /\ Up
      /\ \/ kids' = [kids EXCEPT ![cur] = TRUE] /\ srv' = srv
         \/ srv' = [srv EXCEPT ![cur] = "gone"] /\ kids' = kids
  BY DEF ChildForks, ChildExits
<1>2. TypeOK'
  BY <1>1 DEF IInv, TypeOK, driverVars
<1>3. ControlInv' /\ EarnedInv'
  BY <1>1 DEF IInv, ControlInv, EarnedInv, driverVars
<1>4. GroupInv'
  BY <1>1 DEF IInv, GroupInv, Alive, Up, driverVars, TypeOK
<1>5. GoalInv'
  BY <1>1 DEF IInv, GoalInv, Lines, Asked, driverVars
<1>6. MarkInv'
  BY <1>1 DEF IInv, MarkInv, Launching, Lines, Asked, driverVars
<1> QED BY <1>2, <1>3, <1>4, <1>5, <1>6 DEF IInv

\* The child writes a line, and that is true of it when it is written.
LEMMA ChildWrites ==
    ASSUME IInv, UNCHANGED <<driverVars, signals, cut, stuck, buf, srv, kids>>,
           NEW m \in Message, pipe' = Append(pipe, m),
           inbox' \in Seq(Reqs),
           \A q \in Reqs : Asked(q)' => Asked(q),
           \A i, j \in DOMAIN inbox' : inbox'[i] = "goal_set" /\ inbox'[j] = "goal_set" => i = j,
           goal' = goal \/ (goal' = "active" /\ goal = "none" /\ Asked("goal_set")),
           Asked("goal_set")' => goal' = goal,
           turns' \in [1 .. 2 -> {"none", "running", "answered", "ended"}],
           ~nudged => turns'[2] = turns[2],
           marked \subseteq marked', marked' \subseteq 1 .. 2, ~nudged => marked' \subseteq {1},
           m.goal = "complete" => goal = "complete",
           m.kind = "marker" => m.turn \in marked'
    PROVE  IInv'
<1>1. TypeOK
  BY DEF IInv
<1>2. Lines' \subseteq Lines \cup {m} /\ pipe' \in Seq(Message)
  BY <1>1, WriteLine
<1>3. "goal_set" \in Reqs /\ "nudge_start" \in Reqs
  BY DEF Reqs, LaunchReqs, TurnReqs
<1>4. TypeOK'
  BY <1>1, <1>2 DEF TypeOK, driverVars
<1>5. ControlInv' /\ GroupInv' /\ EarnedInv'
  BY DEF IInv, ControlInv, GroupInv, EarnedInv, Alive, driverVars
<1>6. GoalInv'
  <2>1. pc' = "await" /\ req' \in Early => goal' = "none" /\ ~Asked("goal_set")'
    BY <1>3 DEF IInv, GoalInv, driverVars
  <2>2. Asked("goal_set")' => goal' = "none"
    BY <1>3 DEF IInv, GoalInv
  <2>3. \A l \in Lines' : l.goal = "complete" => goal' = "complete"
    BY <1>2 DEF IInv, GoalInv
  <2> QED BY <2>1, <2>2, <2>3 DEF GoalInv
<1>7. MarkInv'
  <2>1. Launching' => ~seen' /\ ~nudged'
    BY DEF IInv, MarkInv, Launching, driverVars
  <2>2. seen' => 1 \in marked'
    BY DEF IInv, MarkInv, driverVars
  <2>3. \A l \in Lines' : l.kind = "marker" => l.turn \in marked'
    BY <1>2 DEF IInv, MarkInv
  <2>4. ~nudged' => turns'[2] = "none" /\ marked' \subseteq {1} /\ ~Asked("nudge_start")'
    BY <1>3 DEF IInv, MarkInv, driverVars
  <2> QED BY <2>1, <2>2, <2>3, <2>4 DEF MarkInv
<1> QED BY <1>4, <1>5, <1>6, <1>7 DEF IInv

\* The child answers the oldest request.
LEMMA ServeInv == ASSUME IInv, Serve PROVE IInv'
<1> DEFINE r == Head(inbox)
<1>1. /\ TypeOK /\ inbox # <<>> /\ inbox' = Tail(inbox)
      /\ UNCHANGED <<driverVars, signals, cut, stuck, buf, srv, kids, marked>>
  BY DEF IInv, Serve
<1>2. \A i, j \in DOMAIN inbox : inbox[i] = "goal_set" /\ inbox[j] = "goal_set" => i = j
  BY DEF IInv, GoalInv
<1>3. /\ inbox' \in Seq(Reqs) /\ r \in Reqs /\ Asked(r)
      /\ \A q \in Reqs : Asked(q)' => Asked(q)
      /\ \A i, j \in DOMAIN inbox' : inbox'[i] = "goal_set" /\ inbox'[j] = "goal_set" => i = j
      /\ r = "goal_set" => ~Asked("goal_set")'
  BY <1>1, <1>2, Taken
<1>4. ~nudged => marked \subseteq {1} /\ ~Asked("nudge_start")
  BY DEF IInv, MarkInv
<1>5. Asked("goal_set") => goal = "none"
  BY DEF IInv, GoalInv
<1>6. CASE ServeEffect(r) /\ pipe' = Append(pipe, Response("resp", r, goal))
  <2>1. Response("resp", r, goal) \in Message
    BY <1>1, <1>3 DEF Response, Message, TypeOK
  <2>2. turns' \in [1 .. 2 -> {"none", "running", "answered", "ended"}]
    BY <1>1, <1>6 DEF ServeEffect, TypeOK
  <2>3. ~nudged => turns'[2] = turns[2]
    BY <1>1, <1>3, <1>4, <1>6 DEF ServeEffect, TypeOK
  <2>4. /\ goal' = goal \/ (goal' = "active" /\ goal = "none" /\ Asked("goal_set"))
        /\ Asked("goal_set")' => goal' = goal
    BY <1>3, <1>5, <1>6 DEF ServeEffect
  <2>5. /\ Response("resp", r, goal).goal = goal
        /\ Response("resp", r, goal).kind # "marker"
    BY DEF Response
  <2> QED BY <1>1, <1>3, <1>4, <1>6, <2>1, <2>2, <2>3, <2>4, <2>5, ChildWrites DEF TypeOK
<1>7. ASSUME NEW m \in [kind : {"resp", "err", "nokey", "badtype"}, req : {r},
                        goal : {"none", "foreign"}, turn : {0}],
             pipe' = Append(pipe, m), UNCHANGED <<goal, turns>>
      PROVE  IInv'
  <2>1. m \in Message /\ m.goal # "complete" /\ m.kind # "marker"
    BY <1>3, <1>7 DEF Message
  <2> QED BY <1>1, <1>3, <1>4, <1>7, <2>1, ChildWrites DEF TypeOK
<1>8. CASE UNCHANGED <<goal, turns>>
           /\ \E k \in {"resp", "err", "nokey", "badtype"}, g \in {"none", "foreign"} :
                pipe' = Append(pipe, Response(k, r, g))
  <2>1. PICK k \in {"resp", "err", "nokey", "badtype"}, g \in {"none", "foreign"} :
          pipe' = Append(pipe, Response(k, r, g))
    BY <1>8
  <2>2. Response(k, r, g) \in [kind : {"resp", "err", "nokey", "badtype"}, req : {r},
                               goal : {"none", "foreign"}, turn : {0}]
    BY DEF Response
  <2> QED BY <1>7, <1>8, <2>1, <2>2
<1>9. \/ ServeEffect(r) /\ pipe' = Append(pipe, Response("resp", r, goal))
      \/ UNCHANGED <<goal, turns>>
         /\ \E k \in {"resp", "err", "nokey", "badtype"}, g \in {"none", "foreign"} :
              pipe' = Append(pipe, Response(k, r, g))
  BY DEF Serve
<1> QED BY <1>6, <1>8, <1>9

\* A turn shows the marker, answers or ends.
LEMMA TurnWritesInv ==
    ASSUME IInv, NEW t \in 1 .. 2, TurnShowsMarker(t) \/ TurnAnswers(t) \/ TurnEnds(t)
    PROVE  IInv'
<1>1. /\ TypeOK /\ AtWork(t)
      /\ UNCHANGED <<driverVars, signals, cut, stuck, buf, inbox, srv, kids, goal>>
  BY DEF IInv, TurnShowsMarker, TurnAnswers, TurnEnds
<1>2. PICK k \in {"marker", "final", "done", "failed"} :
        /\ pipe' = Append(pipe, Notification(k, t))
        /\ \/ k = "marker" /\ marked' = marked \cup {t} /\ turns' = turns
           \/ /\ k # "marker" /\ marked' = marked
              /\ \E x \in {"answered", "ended"} : turns' = [turns EXCEPT ![t] = x]
  BY DEF TurnShowsMarker, TurnAnswers, TurnEnds, Emit
<1>3. ~nudged => t = 1 /\ marked \subseteq {1}
  BY <1>1 DEF IInv, MarkInv, AtWork
<1>4. Notification(k, t) \in Message
  BY DEF Notification, Message
<1>5. /\ Notification(k, t).kind = k /\ Notification(k, t).goal = "none"
      /\ Notification(k, t).turn = t
  BY DEF Notification
<1>6. /\ turns' \in [1 .. 2 -> {"none", "running", "answered", "ended"}]
      /\ ~nudged => turns'[2] = turns[2]
  BY <1>1, <1>2, <1>3 DEF TypeOK
<1>7. /\ marked \subseteq marked' /\ marked' \subseteq 1 .. 2
      /\ ~nudged => marked' \subseteq {1}
      /\ k = "marker" => t \in marked'
  BY <1>1, <1>2, <1>3 DEF TypeOK
<1>8. /\ inbox' \in Seq(Reqs) /\ \A q \in Reqs : Asked(q)' => Asked(q)
      /\ \A i, j \in DOMAIN inbox' : inbox'[i] = "goal_set" /\ inbox'[j] = "goal_set" => i = j
  BY <1>1 DEF TypeOK, IInv, GoalInv, Asked
<1> QED BY <1>1, <1>2, <1>4, <1>5, <1>6, <1>7, <1>8, ChildWrites

\* The agent resolves its goal, which it has got by then.
LEMMA AgentSetsGoalInv == ASSUME IInv, NEW t \in 1 .. 2, AgentSetsGoal(t) PROVE IInv'
<1>1. /\ goal = "active" /\ goal' \in {"complete", "blocked"}
      /\ UNCHANGED <<driverVars, signals, cut, stuck, pipe, buf, inbox, srv, kids, turns, marked>>
  BY DEF AgentSetsGoal
<1>2. TypeOK'
  BY <1>1 DEF IInv, TypeOK, driverVars
<1>3. ControlInv' /\ GroupInv' /\ EarnedInv'
  BY <1>1 DEF IInv, ControlInv, GroupInv, EarnedInv, Alive, driverVars
<1>4. GoalInv'
  BY <1>1 DEF IInv, GoalInv, Lines, Asked, driverVars
<1>5. MarkInv'
  BY <1>1 DEF IInv, MarkInv, Launching, Lines, Asked, driverVars
<1> QED BY <1>2, <1>3, <1>4, <1>5 DEF IInv

\* The driver waits in readline, or comes back from it, or nothing happens.
LEMMA RestsInv == ASSUME IInv, ReadBlocks \/ Unblocks \/ UNCHANGED vars PROVE IInv'
<1>1. TypeOK /\ UNCHANGED <<driverVars, signals, cut, childVars>> /\ stuck' \in BOOLEAN
  BY DEF IInv, TypeOK, ReadBlocks, Unblocks, vars
<1>2. pipe' \in Seq(Message) /\ buf' \in Seq(Message) /\ Lines' \subseteq Lines
  BY <1>1, ReadChunk DEF ReadBlocks, Unblocks, vars
<1>3. TypeOK'
  BY <1>1, <1>2 DEF TypeOK, driverVars, childVars
<1>4. ControlInv' /\ GroupInv' /\ EarnedInv'
  BY <1>1 DEF IInv, ControlInv, GroupInv, EarnedInv, Alive, driverVars, childVars
<1>5. GoalInv'
  BY <1>1, <1>2 DEF IInv, GoalInv, Asked, driverVars, childVars
<1>6. MarkInv'
  BY <1>1, <1>2 DEF IInv, MarkInv, Launching, Asked, driverVars, childVars
<1> QED BY <1>3, <1>4, <1>5, <1>6 DEF IInv

\* Every step keeps the invariant.
LEMMA NextInv == IInv /\ [Next]_vars => IInv'
<1> SUFFICES ASSUME IInv, [Next]_vars PROVE IInv'
  OBVIOUS
<1>1. CASE Launch
  BY <1>1, LaunchInv
<1>2. CASE SpawnFails
  BY <1>2, SpawnFailsInv
<1>3. CASE AwaitRead
  BY <1>3, AwaitReadInv
<1>4. CASE AwaitTimeout
  BY <1>4, AwaitTimeoutInv
<1>5. CASE WaitGone
  <2>1. pipe' \in Seq(Message) /\ buf' \in Seq(Message) /\ Lines' \subseteq Lines
    BY <1>5, SameLines DEF IInv, WaitGone
  <2> QED BY <1>5, <2>1, WaitEndsInv DEF WaitGone
<1>6. CASE Inferred
  <2>1. pipe' \in Seq(Message) /\ buf' \in Seq(Message) /\ Lines' \subseteq Lines
    BY <1>6, SameLines DEF IInv, Inferred
  <2> QED BY <1>6, <2>1, WaitEndsInv DEF Inferred
<1>7. CASE WaitRead
  BY <1>7, WaitReadInv
<1>8. CASE Kill
  BY <1>8, KillInv
<1>9. CASE \E p \in Policies : PolicyKill(p)
  BY <1>9, PolicyKillInv
<1>10. CASE SignalHeld
  BY <1>10, SignalHeldInv
<1>11. CASE SignalUnheld
  BY <1>11, SignalUnheldInv
<1>12. CASE Serve
  BY <1>12, ServeInv
<1>13. CASE \E t \in 1 .. 2 : Turn(t)
  BY <1>13, TurnWritesInv, AgentSetsGoalInv DEF Turn
<1>14. CASE ChildForks \/ ChildExits
  BY <1>14, ChildMovesInv
<1>15. CASE ReadRaises
  BY <1>15, ReadRaisesInv
<1>16. CASE ReadBlocks \/ Unblocks \/ UNCHANGED vars
  BY <1>16, RestsInv
<1> QED BY <1>1, <1>2, <1>3, <1>4, <1>5, <1>6, <1>7, <1>8, <1>9, <1>10, <1>11, <1>12,
           <1>13, <1>14, <1>15, <1>16 DEF Next, Run

-----------------------------------------------------------------------------
(* The delegation                                                          *)

\* Where the driver stands, by its position and verdict.
LEMMA PhaseIs ==
    ASSUME verdict \in Codes \cup {Undecided, Retry}
    PROVE  /\ pc = "exited" => Phase = "over"
           /\ pc # "exited" /\ verdict \in Codes => Phase = "ending"
           /\ pc # "exited" /\ verdict \notin Codes /\ InTurn => Phase = "working"
           /\ pc # "exited" /\ verdict \notin Codes /\ ~InTurn => Phase = "launching"
           /\ verdict \in Codes => Code = verdict
           /\ verdict \notin Codes => Code = Undecided
BY DEF Phase, Code, Codes, Undecided, Retry

\* The child's side: nothing but processes that leave.
LEMMA ChildKeepsStage ==
    ASSUME StageInv, UNCHANGED driverVars, Writers' \subseteq Writers, Writers' # Writers => pc # "exited"
    PROVE  StageInv' /\ [D!Next]_(D!dvars)
<1>1. StageInv'
  BY DEF StageInv, InTurn, driverVars
<1>2. Phase' = Phase /\ Code' = Code /\ cur' = cur /\ (active = cur)' = (active = cur)
  BY DEF Phase, Code, InTurn, driverVars
<1>3. CASE Writers' = Writers
  BY <1>1, <1>2, <1>3 DEF D!dvars
<1>4. CASE Writers' # Writers
  <2>1. Phase # "over"
    BY <1>4 DEF Phase
  <2>2. D!Leave
    BY <1>2, <2>1 DEF D!Leave
  <2> QED BY <1>1, <2>2 DEF D!Next
<1> QED BY <1>3, <1>4

\* The driver comes to a verdict and begins to clean up or to kill.
LEMMA Concludes ==
    ASSUME TypeOK, StageInv, pc # "exited", cur' = cur, active' = active, NEW r \in CleanupReqs,
           pc' = "kill" \/ (pc' = "await" /\ req' = r),
           verdict' \in Codes, Writers' \subseteq Writers,
           \/ verdict \notin Codes /\ ~InTurn /\ verdict' = 4
           \/ verdict \notin Codes /\ InTurn /\ verdict' \in {0, 1, 2, 6, 7, 8}
           \/ active = cur /\ verdict' = 2
           \/ verdict \in Codes /\ verdict' = verdict
    PROVE  StageInv' /\ [D!Next]_(D!dvars)
<1>1. StageInv'
  BY DEF StageInv, InTurn, CleanupReqs, TurnReqs, Codes, Undecided
<1>2. Phase' = "ending" /\ Code' = verdict'
  BY DEF Phase, Code, Codes, Undecided, Retry
<1>3. /\ pc # "exited" /\ verdict \in Codes => Phase = "ending" /\ Code = verdict
      /\ pc # "exited" /\ verdict \notin Codes /\ InTurn => Phase = "working"
      /\ pc # "exited" /\ verdict \notin Codes /\ ~InTurn => Phase = "launching"
  BY PhaseIs DEF TypeOK
<1>4. CASE verdict \in Codes /\ verdict' = verdict
  <2>1. CASE Writers' = Writers
    BY <1>1, <1>2, <1>3, <1>4, <2>1 DEF D!dvars
  <2>2. CASE Writers' # Writers
    <3>1. D!Leave
      BY <1>2, <1>3, <1>4, <2>2 DEF D!Leave
    <3> QED BY <1>1, <3>1 DEF D!Next
  <2> QED BY <2>1, <2>2
<1>5. CASE ~(verdict \in Codes /\ verdict' = verdict)
  <2>1. verdict' \in 0 .. 143
    BY DEF Codes
  <2>2. D!Conclude(verdict')
    BY <1>2, <1>3, <1>5 DEF D!Conclude
  <2> QED BY <1>1, <2>1, <2>2 DEF D!Next
<1> QED BY <1>4, <1>5

\* A request fails: in the launch that is Retry or 4, in a turn 1 or 6, and in
\* the cleanup nothing.
LEMMA FailConcludes ==
    ASSUME IInv, StageInv, pc = "await", NEW v \in {Retry, 4, 1}, Fail(v),
           v = 1 => req \in CleanupReqs,
           cur' = cur, active' = active, UNCHANGED childRest
    PROVE  StageInv' /\ [D!Next]_(D!dvars)
<1>1. TypeOK /\ req # "none" /\ req \in Reqs /\ Writers' = Writers
  BY DEF IInv, ControlInv, TypeOK, Writers, Alive, childRest
<1>2. PICK r \in CleanupReqs : pc' = "kill" \/ (pc' = "await" /\ req' = r)
  BY <1>1, FailWinds DEF Winds, Asks, CleanupReqs
<1>3. \/ verdict' = verdict /\ req \in CleanupReqs
      \/ verdict' \in {1, 6} /\ req \in TurnReqs
      \/ verdict' = v /\ req \in LaunchReqs
  BY <1>1, FailWinds
<1>4. req \notin CleanupReqs => verdict = Undecided
  BY DEF IInv, ControlInv
<1>5. verdict \notin Codes <=> verdict \in {Undecided, Retry}
  BY <1>1 DEF TypeOK, Codes, Undecided, Retry
<1>6. CASE verdict' \in Codes
  <2>1. InTurn <=> req \in TurnReqs
    BY DEF InTurn
  <2>2. \/ verdict \notin Codes /\ ~InTurn /\ verdict' = 4
        \/ verdict \notin Codes /\ InTurn /\ verdict' \in {0, 1, 2, 6, 7, 8}
        \/ verdict \in Codes /\ verdict' = verdict
    BY <1>3, <1>4, <1>5, <1>6, <2>1 DEF LaunchReqs, TurnReqs, CleanupReqs, Retry, Codes
  <2> QED BY <1>1, <1>2, <1>6, <2>2, Concludes
<1>7. CASE verdict' \notin Codes
  <2>1. verdict' = Retry /\ verdict \in {Undecided, Retry} /\ req \notin TurnReqs
    BY <1>3, <1>4, <1>5, <1>7 DEF StageInv, Codes, CleanupReqs, TurnReqs, LaunchReqs
  <2>2. StageInv'
    BY <1>2, <2>1 DEF StageInv, InTurn, CleanupReqs, TurnReqs, Undecided, Retry
  <2>3. Phase' = "launching" /\ Code' = Undecided /\ Phase = "launching" /\ Code = Undecided
    BY <1>2, <2>1 DEF Phase, Code, InTurn, CleanupReqs, TurnReqs, Undecided, Retry
  <2> QED BY <1>1, <2>2, <2>3 DEF D!dvars
<1> QED BY <1>6, <1>7

\* An exception that is not a launch failure: the launch is cut short by it,
\* and a turn is over.
LEMMA RaisedDelegates ==
    ASSUME IInv, StageInv, pc \in {"await", "wait"}, Raised,
           cur' = cur, active' = active, UNCHANGED childRest
    PROVE  StageInv' /\ [D!Next]_(D!dvars)
<1>1. TypeOK /\ Writers' = Writers
  BY DEF IInv, Writers, Alive, childRest
<1>2. req \notin CleanupReqs => verdict = Undecided
  BY DEF IInv, ControlInv
<1>3. pc = "wait" <=> req = "none"
  BY DEF IInv, ControlInv
<1>4. CASE req \in LaunchReqs /\ Exit(1)
  <2>1. pc = "await" /\ pc' = "exited" /\ verdict' = 1 /\ verdict = Undecided
    BY <1>2, <1>3, <1>4 DEF Exit, LaunchReqs, CleanupReqs
  <2>2. StageInv'
    BY <2>1 DEF StageInv, InTurn, Codes
  <2>3. Phase = "launching" /\ Phase' = "over" /\ Code' = 1
    BY <1>4, <2>1 DEF Phase, Code, InTurn, LaunchReqs, TurnReqs, Undecided, Retry
  <2>4. D!CutShort(1)
    BY <1>1, <2>3 DEF D!CutShort
  <2> QED BY <2>2, <2>4 DEF D!Next
<1>5. CASE req \in TurnReqs \cup {"none"} /\ Cleanup(1)
  <2>1. InTurn /\ verdict = Undecided
    BY <1>2, <1>3, <1>5 DEF InTurn, TurnReqs, CleanupReqs
  <2>2. verdict' = 1 /\ Winds
    BY <1>1, <1>5, CleanupWinds
  <2>3. PICK r \in CleanupReqs : pc' = "kill" \/ (pc' = "await" /\ req' = r)
    BY <2>2 DEF Winds, Asks, CleanupReqs
  <2>4. verdict \notin Codes /\ verdict' \in Codes
    BY <2>1, <2>2 DEF Codes, Undecided
  <2> QED BY <1>1, <2>1, <2>2, <2>3, <2>4, Concludes
<1>6. CASE req \in CleanupReqs /\ Fail(1)
  <2>1. pc = "await"
    BY <1>3, <1>6 DEF CleanupReqs
  <2> QED BY <1>6, <2>1, FailConcludes
<1> QED BY <1>4, <1>5, <1>6 DEF Raised

\* A line is read while a response is awaited.
LEMMA AwaitReadDelegates ==
    ASSUME IInv, StageInv, AwaitRead
    PROVE  StageInv' /\ [D!Next]_(D!dvars)
<1> DEFINE m == Line
<1>1. TypeOK /\ pc = "await" /\ req # "none" /\ req \in Reqs /\ Writers' = Writers /\ cur' = cur
      /\ UNCHANGED childRest
  BY DEF IInv, ControlInv, AwaitRead, TypeOK, Writers, Alive, childRest
<1>2. req \notin CleanupReqs => verdict = Undecided
  BY <1>1 DEF IInv, ControlInv
<1>3. Undecided \notin Codes /\ cur \in Nat /\ active \in Nat
  BY <1>1, DriverAssumption DEF Undecided, Codes, TypeOK, Attempts
<1>4. CASE UNCHANGED <<pc, req, verdict, active>>
  <2>1. StageInv'
    BY <1>1, <1>4 DEF StageInv, InTurn
  <2>2. Phase' = Phase /\ Code' = Code
    BY <1>4 DEF Phase, Code, InTurn
  <2> QED BY <1>1, <1>4, <2>1, <2>2 DEF D!dvars
<1>5. CASE /\ IF req \in {"turn_start", "nudge_start"}
                THEN EnterWait /\ UNCHANGED <<verdict, inbox>>
                ELSE Answered(m.goal)
           /\ active' = IF req = "thread_start" THEN cur ELSE active
  <2>1. CASE req \in {"turn_start", "nudge_start"}
    <3>1. pc' = "wait" /\ verdict = Undecided /\ verdict' = Undecided /\ active' = active /\ active = cur
      BY <1>1, <1>2, <1>5, <2>1 DEF EnterWait, CleanupReqs, StageInv, InTurn, TurnReqs
    <3>2. StageInv'
      BY <1>1, <3>1 DEF StageInv, InTurn
    <3>3. Phase' = "working" /\ Code' = Undecided /\ Code = Undecided
          /\ Phase = IF req = "turn_start" THEN "launching" ELSE "working"
      BY <1>1, <2>1, <3>1 DEF Phase, Code, InTurn, TurnReqs, Undecided, Retry
    <3>4. CASE req = "turn_start"
      <4>1. D!Work
        BY <1>1, <3>1, <3>3, <3>4 DEF D!Work
      <4> QED BY <3>2, <4>1 DEF D!Next
    <3>5. CASE req = "nudge_start"
      BY <1>1, <3>1, <3>2, <3>3, <3>5 DEF D!dvars
    <3> QED BY <2>1, <3>4, <3>5
  <2>2. CASE req \notin {"turn_start", "nudge_start"}
    <3>1. \/ \E r \in Reqs : Follows(req, r) /\ Asks(r) /\ verdict' = verdict
          \/ /\ Winds
             /\ \/ verdict' = verdict /\ req \in CleanupReqs
                \/ verdict' = 4 /\ req = "goal_get"
                \/ verdict' = 6 /\ req \in TurnReqs
                \/ verdict' = 0 /\ req \in TurnReqs /\ m.goal = "complete" /\ seen
      <4>1. Answered(m.goal)
        BY <1>5, <2>2
      <4> QED BY <1>1, <2>2, <4>1, AnsweredAsks
    <3>2. ASSUME NEW r \in Reqs, Follows(req, r), Asks(r), verdict' = verdict
          PROVE  StageInv' /\ [D!Next]_(D!dvars)
      <4>1. pc' = "await" /\ req' = r /\ verdict = Undecided
        BY <1>2, <3>2 DEF Asks, Follows, CleanupReqs
      <4>2. StageInv'
        BY <1>1, <1>3, <1>5, <3>2, <4>1 DEF StageInv, InTurn, Follows, TurnReqs, CleanupReqs
      <4>3. /\ Phase' = Phase /\ Code' = Code
            /\ req # "final_check" => Phase = "launching"
        BY <1>1, <3>2, <4>1 DEF Phase, Code, InTurn, Follows, TurnReqs, Undecided, Retry
      <4>4. CASE req = "thread_start"
        <5>1. ~(active = cur) /\ (active = cur)' = TRUE /\ Phase = "launching"
          BY <1>1, <1>3, <1>5, <4>3, <4>4 DEF StageInv
        <5>2. D!Know
          BY <1>1, <4>3, <5>1 DEF D!Know
        <5> QED BY <4>2, <5>2 DEF D!Next
      <4>5. CASE req # "thread_start"
        <5>1. active' = active
          BY <1>5, <4>5
        <5> QED BY <1>1, <4>2, <4>3, <5>1 DEF D!dvars
      <4> QED BY <4>4, <4>5
    <3>3. ASSUME Winds,
                 \/ verdict' = verdict /\ req \in CleanupReqs
                 \/ verdict' = 4 /\ req = "goal_get"
                 \/ verdict' \in {0, 6} /\ req \in TurnReqs
          PROVE  StageInv' /\ [D!Next]_(D!dvars)
      <4>1. PICK r \in CleanupReqs : pc' = "kill" \/ (pc' = "await" /\ req' = r)
        BY <3>3 DEF Winds, Asks, CleanupReqs
      <4>2. active' = active
        BY <1>5, <3>3 DEF CleanupReqs, TurnReqs
      <4>3. CASE verdict' \in Codes
        <5>1. \/ verdict \notin Codes /\ ~InTurn /\ verdict' = 4
              \/ verdict \notin Codes /\ InTurn /\ verdict' \in {0, 1, 2, 6, 7, 8}
              \/ verdict \in Codes /\ verdict' = verdict
          BY <1>1, <1>2, <1>3, <3>3, <4>3 DEF InTurn, TurnReqs, CleanupReqs
        <5> QED BY <1>1, <4>1, <4>2, <4>3, <5>1, Concludes
      <4>4. CASE verdict' \notin Codes
        <5>1. verdict' = verdict /\ req \in CleanupReqs /\ verdict = Retry
          BY <1>1, <3>3, <4>4 DEF Codes, StageInv, TypeOK
        <5>2. StageInv'
          BY <1>1, <4>1, <4>2, <5>1 DEF StageInv, InTurn, CleanupReqs, TurnReqs, Undecided, Retry
        <5>3. Phase' = "launching" /\ Phase = "launching" /\ Code' = Code
          BY <1>1, <4>1, <5>1 DEF Phase, Code, InTurn, CleanupReqs, TurnReqs, Undecided, Retry
        <5> QED BY <1>1, <4>2, <5>2, <5>3 DEF D!dvars
      <4> QED BY <4>3, <4>4
    <3> QED BY <3>1, <3>2, <3>3
  <2> QED BY <2>1, <2>2
<1>6. CASE Fail(4) /\ active' = active
  BY <1>1, <1>6, FailConcludes
<1>7. CASE Raised /\ active' = active
  BY <1>1, <1>7, RaisedDelegates
<1> QED BY <1>4, <1>5, <1>6, <1>7 DEF AwaitRead

\* The wait ends: a goal check, or a verdict.
LEMMA WaitDelegates ==
    ASSUME IInv, StageInv, pc = "wait", NEW rc \in {0, 2}, WaitEnds(rc),
           cur' = cur, active' = active, UNCHANGED childRest
    PROVE  StageInv' /\ [D!Next]_(D!dvars)
<1>1. TypeOK /\ verdict = Undecided /\ active = cur /\ InTurn /\ Writers' = Writers
  BY DEF IInv, ControlInv, StageInv, InTurn, Writers, Alive, childRest
<1>2. CASE (\E r \in {"final_check", "recheck"} : Asks(r)) /\ verdict' = verdict
  <2>1. pc' = "await" /\ req' \in TurnReqs /\ req' \notin LaunchReqs /\ req' \notin CleanupReqs
    BY <1>2 DEF Asks, TurnReqs, LaunchReqs, CleanupReqs
  <2>2. StageInv'
    BY <1>1, <1>2, <2>1 DEF StageInv, InTurn, LaunchReqs
  <2>3. Phase' = "working" /\ Phase = "working" /\ Code' = Code
    BY <1>1, <1>2, <2>1 DEF Phase, Code, InTurn
  <2> QED BY <1>1, <2>2, <2>3 DEF D!dvars
<1>3. CASE Winds /\ verdict' \in {2, 6}
  <2>1. PICK r \in CleanupReqs : pc' = "kill" \/ (pc' = "await" /\ req' = r)
    BY <1>3 DEF Winds, Asks, CleanupReqs
  <2>2. verdict \notin Codes /\ verdict' \in Codes
    BY <1>1, <1>3 DEF Codes, Undecided
  <2> QED BY <1>1, <1>3, <2>1, <2>2, Concludes
<1> QED BY <1>1, <1>2, <1>3, WaitAsks

\* A kill policy strikes in a turn.
LEMMA PolicyKillDelegates ==
    ASSUME IInv, StageInv, NEW p \in Policies, PolicyKill(p)
    PROVE  StageInv' /\ [D!Next]_(D!dvars)
<1>1. TypeOK /\ pc = "wait" /\ pc' = "kill" /\ cur' = cur /\ active' = active /\ ReapGroup(cur)
      /\ verdict = Undecided /\ p \in {"wall", "idle", "no_work", "terminal"}
  BY DriverAssumption DEF IInv, ControlInv, PolicyKill
<1>2. verdict' \in {2, 6, 7, 8} /\ verdict' \in Codes /\ verdict \notin Codes
  BY <1>1 DEF PolicyKill, PolicyCode, Codes, Undecided
<1>3. Writers' \subseteq Writers
  BY <1>1, Reaps DEF Writers, Alive, TypeOK
<1>4. InTurn
  BY <1>1 DEF InTurn
<1>5. "archive" \in CleanupReqs
  BY DEF CleanupReqs
<1> QED BY <1>1, <1>2, <1>3, <1>4, <1>5, Concludes

\* kill_proc: nobody is left, and there is another attempt or an exit code.
LEMMA KillDelegates ==
    ASSUME IInv, StageInv, Kill
    PROVE  StageInv' /\ [D!Next]_(D!dvars)
<1>1. TypeOK /\ pc = "kill" /\ ReapGroup(cur) /\ active' = active /\ verdict # Undecided
      /\ cur \in Nat /\ active \in Nat /\ active =< cur
  BY DriverAssumption DEF IInv, Kill, ReapCurrent, StageInv, TypeOK, Attempts
<1>2. Writers' = {}
  <2>1. /\ srv'[cur] # "up" /\ ~kids'[cur]
        /\ \A a \in Attempts \ {cur} : srv'[a] = srv[a] /\ kids'[a] = kids[a]
    BY <1>1, Reaps
  <2>2. \A a \in Attempts : srv'[a] # "up" /\ ~kids'[a]
    BY <2>1 DEF IInv, GroupInv, Alive
  <2> QED BY <2>2 DEF Writers, Alive
<1>3. CASE verdict = Retry /\ RetriesLeft
  <2>1. pc' = "launch" /\ req' = "none" /\ cur' = cur + 1 /\ verdict' = Undecided
    BY <1>3 DEF Kill
  <2>2. active' < cur' /\ ~(active = cur)'
    BY <1>1, <2>1
  <2>3. StageInv'
    BY <1>1, <2>1, <2>2 DEF StageInv, InTurn
  <2>4. Phase = "launching" /\ Phase' = "launching" /\ Code' = Undecided /\ Code = Undecided
    BY <1>1, <1>3, <2>1 DEF Phase, Code, InTurn, Undecided, Retry
  <2>5. D!Retry
    BY <1>2, <1>3, <2>1, <2>2, <2>4 DEF D!Retry, RetriesLeft
  <2> QED BY <2>3, <2>5 DEF D!Next
<1>4. CASE ~(verdict = Retry /\ RetriesLeft)
  <2>1. pc' = "exited" /\ req' = "none" /\ cur' = cur
        /\ verdict' = IF verdict = Retry THEN 3 ELSE verdict
    BY <1>4 DEF Kill, Exit
  <2>2. verdict' \in Codes /\ (verdict # Retry => verdict \in Codes)
    BY <1>1, <2>1 DEF Codes, TypeOK
  <2>3. StageInv'
    BY <1>1, <2>1, <2>2 DEF StageInv, InTurn
  <2>4. Phase' = "over" /\ Code' = verdict'
    BY <2>1, <2>2 DEF Phase, Code, Codes, Retry
  <2>5. IF verdict = Retry THEN Phase = "launching" /\ cur > LaunchRetries
                           ELSE Phase = "ending" /\ Code = verdict
    BY <1>1, <1>4, <2>2, DriverAssumption DEF Phase, Code, InTurn, Codes, Undecided, Retry, RetriesLeft
  <2>6. D!Finish
    BY <1>1, <1>2, <2>1, <2>4, <2>5 DEF D!Finish
  <2> QED BY <2>3, <2>6 DEF D!Next
<1> QED BY <1>3, <1>4

\* A child is started where nobody is left.
LEMMA LaunchDelegates ==
    ASSUME IInv, StageInv, Launch
    PROVE  StageInv' /\ [D!Next]_(D!dvars)
<1>1. TypeOK /\ pc = "launch" /\ pc' = "await" /\ req' = "initialize" /\ verdict = Undecided
      /\ cur' = cur /\ active' = active /\ verdict' = verdict
      /\ cur \in Nat /\ active \in Nat /\ active < cur
  BY DriverAssumption DEF IInv, ControlInv, Launch, StageInv, TypeOK, Attempts
<1>2. Writers = {}
  BY <1>1 DEF IInv, GroupInv, Writers
<1>3. Writers' = {cur}
  <2>1. srv' = [srv EXCEPT ![cur] = "up"] /\ kids' = kids /\ cur \in Attempts
    BY <1>1 DEF Launch, TypeOK
  <2>2. \A a \in Attempts \ {cur} : srv'[a] = srv[a] /\ srv[a] # "up" /\ ~kids[a]
    BY <1>1, <2>1 DEF IInv, GroupInv, Alive, TypeOK
  <2>3. srv'[cur] = "up"
    BY <1>1, <2>1 DEF TypeOK
  <2> QED BY <2>1, <2>2, <2>3 DEF Writers, Alive
<1>4. StageInv'
  BY <1>1 DEF StageInv, InTurn, TurnReqs, CleanupReqs
<1>5. Phase = "launching" /\ Phase' = "launching" /\ Code' = Code
  BY <1>1 DEF Phase, Code, InTurn, TurnReqs
<1>6. D!Start
  BY <1>1, <1>2, <1>3, <1>5 DEF D!Start
<1> QED BY <1>4, <1>6 DEF D!Next

\* Popen fails: nobody has been started.
LEMMA SpawnFailsDelegates ==
    ASSUME IInv, StageInv, SpawnFails
    PROVE  StageInv' /\ [D!Next]_(D!dvars)
<1>1. pc = "launch" /\ pc' = "kill" /\ verdict = Undecided /\ verdict' = Retry
      /\ cur' = cur /\ active' = active /\ Writers' = Writers
  BY DEF IInv, ControlInv, SpawnFails, Writers, Alive, childVars
<1>2. StageInv'
  BY <1>1 DEF StageInv, InTurn, Undecided, Retry
<1>3. Phase = "launching" /\ Phase' = "launching" /\ Code' = Code
  BY <1>1 DEF Phase, Code, InTurn, Undecided, Retry
<1> QED BY <1>1, <1>2, <1>3 DEF D!dvars

\* A signal while the handler knows the child.
LEMMA SignalHeldDelegates ==
    ASSUME IInv, StageInv, SignalHeld
    PROVE  StageInv' /\ [D!Next]_(D!dvars)
<1>1. TypeOK /\ pc # "exited" /\ active = cur /\ cur' = cur /\ active' = active /\ Cleanup(2)
      /\ Writers' = Writers
  BY DEF IInv, SignalHeld, Writers, Alive, childRest
<1>2. verdict' = 2 /\ Winds
  BY <1>1, CleanupWinds
<1>3. PICK r \in CleanupReqs : pc' = "kill" \/ (pc' = "await" /\ req' = r)
  BY <1>2 DEF Winds, Asks, CleanupReqs
<1>4. verdict' \in Codes
  BY <1>2 DEF Codes
<1> QED BY <1>1, <1>2, <1>3, <1>4, Concludes

\* A signal while it does not.
LEMMA SignalUnheldDelegates ==
    ASSUME IInv, StageInv, SignalUnheld
    PROVE  StageInv' /\ [D!Next]_(D!dvars)
<1>1. TypeOK /\ pc # "exited" /\ active # cur /\ cur' = cur /\ active' = active
      /\ pc' = "exited" /\ verdict' \in {2, 143} /\ Writers' = Writers
  BY DEF IInv, SignalUnheld, Exit, Writers, Alive, childVars
<1>2. verdict' \in Codes
  BY <1>1 DEF Codes
<1>3. StageInv'
  BY <1>1, <1>2 DEF StageInv, InTurn
<1>4. Phase' = "over" /\ Code' = verdict'
  BY <1>1 DEF Phase, Code, Retry
<1>5. Phase \in {"launching", "ending"}
  BY <1>1 DEF Phase, StageInv, InTurn
<1>6. verdict' \in 0 .. 143 /\ D!CutShort(verdict')
  BY <1>1, <1>4, <1>5 DEF D!CutShort
<1> QED BY <1>3, <1>6 DEF D!Next

\* Every step of the driver and the child is one of the delegation, or none.
LEMMA DelegationStep ==
    IInv /\ StageInv /\ [Next]_vars => StageInv' /\ [D!Next]_(D!dvars)
<1> SUFFICES ASSUME IInv, StageInv, [Next]_vars
             PROVE  StageInv' /\ [D!Next]_(D!dvars)
  OBVIOUS
<1>1. CASE Launch
  BY <1>1, LaunchDelegates
<1>2. CASE SpawnFails
  BY <1>2, SpawnFailsDelegates
<1>3. CASE AwaitRead
  BY <1>3, AwaitReadDelegates
<1>4. CASE AwaitTimeout
  <2>1. Retry # 1
    BY DEF Retry
  <2> QED BY <1>4, <2>1, FailConcludes DEF AwaitTimeout
<1>5. CASE WaitGone
  BY <1>5, WaitDelegates DEF WaitGone
<1>6. CASE Inferred
  BY <1>6, WaitDelegates DEF Inferred
<1>7. CASE WaitRead
  <2>1. pc = "wait" /\ cur' = cur /\ active' = active /\ UNCHANGED childRest
    BY <1>7 DEF WaitRead
  <2>2. CASE \E rc \in {0, 2} : WaitEnds(rc)
    BY <2>1, <2>2, WaitDelegates
  <2>3. CASE UNCHANGED <<pc, req, verdict>>
    <3>1. StageInv' /\ Phase' = Phase /\ Code' = Code
      BY <2>1, <2>3 DEF StageInv, Phase, Code, InTurn
    <3>2. Writers' = Writers
      BY <2>1 DEF Writers, Alive, childRest
    <3> QED BY <2>1, <3>1, <3>2 DEF D!dvars
  <2> QED BY <1>7, <2>2, <2>3 DEF WaitRead
<1>8. CASE Kill
  BY <1>8, KillDelegates
<1>9. CASE \E p \in Policies : PolicyKill(p)
  BY <1>9, PolicyKillDelegates
<1>10. CASE SignalHeld
  BY <1>10, SignalHeldDelegates
<1>11. CASE SignalUnheld
  BY <1>11, SignalUnheldDelegates
<1>12. CASE Serve \/ (\E t \in 1 .. 2 : Turn(t)) \/ ReadBlocks \/ Unblocks \/ UNCHANGED vars
  <2>1. UNCHANGED driverVars /\ srv' = srv /\ kids' = kids
    BY <1>12 DEF Serve, Turn, TurnShowsMarker, TurnAnswers, TurnEnds, AgentSetsGoal, ReadBlocks,
                 Unblocks, vars, childVars
  <2>2. Writers' = Writers
    BY <2>1 DEF Writers, Alive
  <2> QED BY <2>1, <2>2, ChildKeepsStage
<1>13. CASE ChildForks \/ ChildExits
  <2>1. UNCHANGED driverVars /\ pc # "exited" /\ srv[cur] = "up" /\ TypeOK
    BY <1>13 DEF IInv, ChildForks, ChildExits, Up
  <2>2. \A a \in Attempts : (srv'[a] = "up" \/ kids'[a]) => (srv[a] = "up" \/ kids[a])
    BY <1>13, <2>1 DEF ChildForks, ChildExits, TypeOK
  <2>3. Writers' \subseteq Writers
    BY <2>2 DEF Writers, Alive
  <2> QED BY <2>1, <2>3, ChildKeepsStage
<1>14. CASE ReadRaises
  BY <1>14, RaisedDelegates DEF ReadRaises
<1> QED BY <1>1, <1>2, <1>3, <1>4, <1>5, <1>6, <1>7, <1>8, <1>9, <1>10, <1>11, <1>12, <1>13,
           <1>14 DEF Next, Run

\* A driver that has not started is a delegation that has not.
LEMMA DelegationStarts == Init => StageInv /\ D!Init
<1> SUFFICES ASSUME Init PROVE StageInv /\ D!Init
  OBVIOUS
<1>1. StageInv
  BY DEF Init, StageInv, InTurn
<1>2. Writers = {}
  BY DEF Init, Writers, Alive
<1>3. Phase = "launching" /\ Code = 99
  BY DEF Init, Phase, Code, InTurn, Undecided, Retry
<1> QED BY <1>1, <1>2, <1>3 DEF Init, D!Init, D!Open

-----------------------------------------------------------------------------
(* The results                                                             *)

\* The driver keeps its invariant in every interleaving of its reads and
\* timers with the child's lines, exits and forks, and with signals.
THEOREM Inductive == Spec => []IInv
BY InitInv, NextInv, PTL DEF Spec

\* The variables keep their types (every assignment of codex_driver.py that
\* is modelled).
THEOREM TypeCorrect == Spec => []TypeOK
<1>1. IInv => TypeOK
  BY DEF IInv
<1> QED BY Inductive, <1>1, PTL

\* Two launch attempts never have a live member at once, for any number of
\* retries: kill_proc runs on every failure path of launch_and_handshake.
THEOREM OneGroupAlways == Spec => []OneGroup
<1>1. IInv => OneGroup
  BY DEF IInv, GroupInv, OneGroup
<1> QED BY Inductive, <1>1, PTL

\* A driver that has exited has reaped the group of every attempt, unless the
\* handshake was cut short: by a signal while no handler knew the child, or by
\* an exception that launch_and_handshake has no clause for.
THEOREM ReapedAlways == Spec => []Reaped
<1>1. IInv => Reaped
  BY DEF IInv, GroupInv, Reaped
<1> QED BY Inductive, <1>1, PTL

\* Exit 0 is earned: the goal is complete in the child and the first turn has
\* shown the read marker, however late the lines that say so were read
\* (main, validate_outcome_read_marker).
THEOREM SuccessIsEarnedAlways == Spec => []SuccessIsEarned
<1>1. IInv => SuccessIsEarned
  BY DEF IInv, EarnedInv, SuccessIsEarned
<1> QED BY Inductive, <1>1, PTL

\* "Launch/handshake transient failures retry, then exit 3 on exhaustion.
\* Deterministic launch failures exit 4 without retry.  Turn failures after
\* turn/start exit 2" (contract.md): the driver is a delegation, for any
\* number of retries and signals.
THEOREM DelegationIsKept == Spec => ImplementsDelegation
<1>1. Init => StageInv /\ D!Init
  BY DelegationStarts
<1>2. IInv /\ StageInv /\ [Next]_vars => StageInv' /\ [D!Next]_(D!dvars)
  BY DelegationStep
<1> QED BY Inductive, <1>1, <1>2, PTL DEF Spec, ImplementsDelegation, D!Spec
=============================================================================
