---------------------------- MODULE CodexDriver ----------------------------
(***************************************************************************)
(* runtime/codex_driver.py: one Conduct turn driven over the JSON-RPC      *)
(* stdio of a `codex app-server` child, from the first launch attempt to   *)
(* the exit code, with the child modelled as the driver uses it.           *)
(*                                                                         *)
(* Lines travel through two queues: the kernel pipe, which select sees,    *)
(* and the driver's text buffer, which it does not.  One readline moves a  *)
(* chunk from the pipe into an empty buffer and returns its first line.    *)
(* A line that has begun and does not end holds the driver in readline.    *)
(* Timers are nondeterministic: a timeout or a kill policy may strike at   *)
(* any pass of the loop that tests it.  The driver's own evidence files    *)
(* can be written, and so can the child's stdin.                           *)
(***************************************************************************)
EXTENDS Naturals, Sequences

CONSTANTS LaunchRetries, \* --launch-retries
          Nudge,         \* --goal-completion-nudge
          Policies,      \* kill policies the caller opted into
          MaxSignals,    \* bound: SIGINT and SIGTERM deliveries
          BadShapes,     \* the child may write what is no JSON-RPC: a line
                         \* or a result that is not an object, or no text
          PartialLines,  \* the child may leave a line unfinished
          ServerMayFail  \* the app-server may exit, or answer with an error

ASSUME DriverAssumption ==
    /\ LaunchRetries \in Nat
    /\ Nudge \in BOOLEAN
    /\ Policies \subseteq {"wall", "idle", "no_work", "terminal"}
    /\ MaxSignals \in Nat
    /\ BadShapes \in BOOLEAN
    /\ PartialLines \in BOOLEAN
    /\ ServerMayFail \in BOOLEAN

Attempts == 1..(LaunchRetries + 1)

VARIABLES
    pc,       \* launch, await (read_response), wait (for a turn), kill, exited
    req,      \* the request whose response is awaited
    cur,      \* the launch attempt
    active,   \* the attempt in ACTIVE_CLEANUP, 0 before the first thread
    verdict,  \* the exit code to come, Retry or Undecided
    seen,     \* the first turn's observation holds a matching read marker
    armed,    \* inferred completion is armed
    nudged,   \* the nudge turn has been asked for
    signals,
    cut,      \* history: the driver was cut short, by a signal while its
              \* handler did not know the child, or by an exception that
              \* no except clause of the handshake names
    stuck,    \* the driver sits in readline, on a line without an end
    pipe, buf,\* lines in the kernel pipe, lines in the driver's text buffer
    inbox,    \* requests the child has not answered
    srv,      \* srv[a]: the child of attempt a
    kids,     \* kids[a]: its process group has other members
    goal,     \* the thread's goal, in the child
    turns,    \* turns[t]: 1 is the launcher's turn, 2 the nudge
    marked    \* history: turns that showed the read marker

driverVars == <<pc, req, cur, active, verdict, seen, armed, nudged>>
childVars == <<inbox, srv, kids, goal, turns, marked>>
vars == <<driverVars, signals, cut, stuck, pipe, buf, childVars>>

LaunchReqs == {"initialize", "thread_start", "goal_get", "goal_set", "turn_start"}
TurnReqs == {"final_check", "nudge_start", "recheck"}
CleanupReqs == {"goal_clear", "archive"}
Reqs == LaunchReqs \cup TurnReqs \cup CleanupReqs

PolicyCode == [wall |-> 2, idle |-> 2, no_work |-> 7, terminal |-> 8]

\* Exit codes (143: killed by a signal it has no handler for), and what the
\* driver goes on with after kill_proc when it does not exit.
Undecided == 99
Retry == 100
Codes == {0, 1, 2, 3, 4, 6, 7, 8, 143}

Response(k, r, g) == [kind |-> k, req |-> r, goal |-> g, turn |-> 0]
Notification(k, t) == [kind |-> k, req |-> "none", goal |-> "none", turn |-> t]

Init ==
    /\ pc = "launch" /\ req = "none"
    /\ cur = 1 /\ active = 0 /\ verdict = Undecided
    /\ seen = FALSE /\ armed = FALSE /\ nudged = FALSE
    /\ signals = 0 /\ cut = FALSE /\ stuck = FALSE
    /\ pipe = <<>> /\ buf = <<>> /\ inbox = <<>>
    /\ srv = [a \in Attempts |-> "none"]
    /\ kids = [a \in Attempts |-> FALSE]
    /\ goal = "none"
    /\ turns = [t \in 1..2 |-> "none"]
    /\ marked = {}

Up == srv[cur] = "up"

\* The process group of attempt a has a member.
Alive(a) == srv[a] = "up" \/ kids[a]

-----------------------------------------------------------------------------
(* Shared steps of the driver.                                             *)

\* send: a write to a dead child raises; the read loop's poll tells the same.
Send(r) ==
    /\ pc' = "await"
    /\ req' = r
    /\ inbox' = IF Up THEN Append(inbox, r) ELSE inbox

\* cleanup_thread on the way to kill_proc: two requests if there is a thread
\* and its child is alive, none otherwise.
Cleanup(v) ==
    /\ verdict' = v
    /\ IF active = cur /\ Up
         THEN Send("goal_clear")
         ELSE /\ pc' = "kill" /\ req' = "none"
              /\ UNCHANGED inbox

\* wait_for_turn_completion: a fresh observation per turn.
EnterWait ==
    /\ pc' = "wait" /\ req' = "none"
    /\ armed' = FALSE

\* kill_proc: the group, the child, and with them their pipes.
ReapGroup(a) ==
    /\ srv' = [srv EXCEPT ![a] = IF @ = "none" THEN @ ELSE "gone"]
    /\ kids' = [kids EXCEPT ![a] = FALSE]
    /\ pipe' = <<>> /\ buf' = <<>> /\ inbox' = <<>>

Exit(c) ==
    /\ pc' = "exited" /\ req' = "none"
    /\ verdict' = c

\* readline on a stream select has found readable, which it judges by the
\* pipe alone: a line left in the buffer has to wait for the next one to
\* arrive.  A chunk shorter than the pipe is the same as a later write.
Line == Head(buf \o pipe)

ReadLine ==
    /\ pipe # <<>>
    /\ IF buf = <<>> THEN buf' = Tail(pipe) /\ pipe' = <<>>
                     ELSE buf' = Tail(buf) /\ UNCHANGED pipe

-----------------------------------------------------------------------------
(* Launch and handshake.                                                   *)

Launch ==
    /\ pc = "launch"
    /\ srv' = [srv EXCEPT ![cur] = "up"]
    /\ pipe' = <<>> /\ buf' = <<>>
    /\ pc' = "await" /\ req' = "initialize"
    /\ inbox' = <<"initialize">>
    /\ goal' = "none"
    /\ turns' = [t \in 1..2 |-> "none"]
    /\ marked' = {}
    /\ UNCHANGED <<cur, active, verdict, seen, armed, nudged,
                   signals, cut, stuck, kids>>

\* Popen raises OSError: a transient launch failure without a child.
SpawnFails ==
    /\ pc = "launch"
    /\ ServerMayFail
    /\ pc' = "kill"
    /\ verdict' = Retry
    /\ UNCHANGED <<req, cur, active, seen, armed, nudged,
                   signals, cut, stuck, pipe, buf, childVars>>
-----------------------------------------------------------------------------
(* read_response                                                           *)

\* A request has no usable answer: what the caller makes of it.
Fail(v) ==
    CASE req \in LaunchReqs -> Cleanup(v)
      [] req = "final_check" -> Cleanup(1)
      [] req \in {"nudge_start", "recheck"} -> Cleanup(6)
      [] req = "goal_clear" -> Send("archive") /\ UNCHANGED verdict
      [] req = "archive" ->
             /\ pc' = "kill" /\ req' = "none"
             /\ UNCHANGED <<inbox, verdict>>

childRest == <<srv, kids, goal, turns, marked>>

\* An exception other than those of a failed launch: launch_and_handshake has
\* no clause for it and main's try begins behind it; from there on main's
\* finally cleans up; cleanup_thread catches everything and goes on.
Raised ==
    \/ /\ req \in LaunchReqs
       /\ Exit(1)
       /\ cut' = TRUE
       /\ UNCHANGED inbox
    \/ /\ req \in TurnReqs \cup {"none"}
       /\ Cleanup(1)
       /\ UNCHANGED cut
    \/ /\ req \in CleanupReqs
       /\ Fail(1)
       /\ UNCHANGED cut

\* mutant: there is no deadline, only the poll
AwaitGoneOnly ==
    /\ pc = "await" /\ ~Up /\ ~stuck
    /\ Fail(Retry)
    /\ UNCHANGED <<cur, active, seen, armed, nudged, signals, cut, stuck,
                   pipe, buf, childRest>>

\* The deadline has passed, or poll finds the child gone.
AwaitTimeout ==
    /\ pc = "await" /\ ~stuck
    /\ Fail(Retry)
    /\ UNCHANGED <<cur, active, seen, armed, nudged, signals, cut, stuck,
                   pipe, buf, childRest>>

\* The driver's success oracle, on the goal status it has read last.
Judge(g) == Cleanup(IF g = "complete" /\ seen THEN 0 ELSE 6)

\* The awaited response: the next request, the turn, or the verdict.
Answered(g) ==
    CASE req = "initialize" -> Send("thread_start") /\ UNCHANGED verdict
      [] req = "thread_start" -> Send("goal_get") /\ UNCHANGED verdict
      [] req = "goal_get" ->
             IF g = "foreign" THEN Cleanup(4)
                              ELSE Send("goal_set") /\ UNCHANGED verdict
      [] req = "goal_set" -> Send("turn_start") /\ UNCHANGED verdict
      [] req = "final_check" ->
             IF g = "active" /\ Nudge
               THEN Send("nudge_start") /\ UNCHANGED verdict
               ELSE Judge(g)
      [] req = "recheck" -> Judge(g)
      [] OTHER -> Fail(Retry)

AwaitRead ==
    /\ pc = "await" /\ Up /\ ~stuck
    /\ ReadLine
    /\ LET m == Line IN
          \/ \* another line: dropped, notifications included
             /\ m.req # req
             /\ UNCHANGED <<pc, req, verdict, inbox, active, nudged,
                            armed, cut>>
          \/ /\ m.req = req /\ m.kind = "resp"
             /\ IF req \in {"turn_start", "nudge_start"}
                  THEN EnterWait /\ UNCHANGED <<verdict, inbox>>
                  ELSE Answered(m.goal) /\ UNCHANGED armed
             /\ active' = IF req = "thread_start" THEN cur ELSE active
             /\ nudged' = (nudged \/ req' = "nudge_start")
             /\ UNCHANGED cut
          \/ \* an error, or a result without the expected field
             /\ m.req = req /\ m.kind \in {"err", "nokey"}
             /\ Fail(4)
             /\ UNCHANGED <<active, nudged, armed, cut>>
          \/ \* a result that is not an object
             /\ m.req = req /\ m.kind = "badtype"
             /\ Raised
             /\ UNCHANGED <<active, nudged, armed>>
    /\ UNCHANGED <<cur, seen, signals, stuck, childRest>>

-----------------------------------------------------------------------------
(* wait_for_turn_completion                                                *)

\* mutant: a turn that fails is launched again
WaitEndsRetry(rc) ==
    /\ UNCHANGED armed
    /\ IF rc = 0 THEN Send("final_check") /\ UNCHANGED verdict
                 ELSE Cleanup(Retry)

\* The wait returns rc: final_goal_check, or the recheck after a nudge that
\* left the child alive; anything else is a verdict.
WaitEnds(rc) ==
    /\ UNCHANGED armed
    /\ IF nudged
         THEN IF rc = 0 /\ Up THEN Send("recheck") /\ UNCHANGED verdict
                             ELSE Cleanup(6)
         ELSE IF rc = 0 THEN Send("final_check") /\ UNCHANGED verdict
                        ELSE Cleanup(rc)

WaitGone ==
    /\ pc = "wait" /\ ~Up /\ ~stuck
    /\ WaitEnds(2)
    /\ UNCHANGED <<cur, active, seen, nudged, signals, cut, stuck, pipe, buf>>
    /\ UNCHANGED childRest

\* A kill policy reaps the child before cleanup_thread could use it.
PolicyKill(p) ==
    /\ pc = "wait" /\ Up /\ ~stuck
    /\ p = "no_work" => ~armed /\ (nudged \/ ~seen)
    /\ ReapGroup(cur)
    /\ verdict' = IF nudged THEN 6 ELSE PolicyCode[p]
    /\ pc' = "kill"
    /\ UNCHANGED <<req, cur, active, seen, armed, nudged, signals, cut, stuck>>
    /\ UNCHANGED <<goal, turns, marked>>

Inferred ==
    /\ pc = "wait" /\ Up /\ ~stuck
    /\ armed
    /\ WaitEnds(0)
    /\ UNCHANGED <<cur, active, seen, nudged, signals, cut, stuck, pipe, buf>>
    /\ UNCHANGED childRest

\* mutant: the nudge's observation counts as well
ObservedInAnyTurn(m) == seen \/ m.kind = "marker"

\* Only the first turn's observation is validated in the end.
Observed(m) == seen \/ (m.kind = "marker" /\ ~nudged)

WaitRead ==
    /\ pc = "wait" /\ Up /\ ~stuck
    /\ ReadLine
    /\ LET m == Line IN
          \/ /\ m.kind \in {"done", "failed"}
             /\ WaitEnds(IF m.kind = "done" THEN 0 ELSE 2)
             /\ UNCHANGED seen
          \/ /\ m.kind \notin {"done", "failed"}
             /\ seen' = Observed(m)
             /\ armed' = (armed \/ m.kind = "final")
             /\ UNCHANGED <<pc, req, verdict, inbox>>
    /\ UNCHANGED <<cur, active, nudged, signals, cut, stuck, childRest>>

-----------------------------------------------------------------------------
(* What else readline can come to, in either loop and on either stream.    *)

\* A line that is no JSON object, or is no text: then the chunk it came in is
\* lost with it.  The child may have written it at any time, so it is in no
\* queue.
ReadRaises ==
    /\ BadShapes
    /\ pc \in {"await", "wait"} /\ Up /\ ~stuck
    /\ \/ UNCHANGED <<pipe, buf>>
       \/ buf = <<>> /\ buf' \in {pipe, <<>>} /\ pipe' = <<>>
    /\ Raised
    /\ UNCHANGED <<cur, active, seen, armed, nudged, signals, stuck>>
    /\ UNCHANGED childRest

\* select has reported the beginning of a line, and readline waits for its
\* end: no timer is tested, and the child is not polled.
ReadBlocks ==
    /\ PartialLines
    /\ pc \in {"await", "wait"} /\ Up /\ ~stuck
    /\ stuck' = TRUE
    /\ UNCHANGED <<driverVars, signals, cut, pipe, buf, childVars>>

\* The end of the line comes, or that of the stream; what has come behind it
\* may have been read with it.
Unblocks ==
    /\ stuck
    /\ stuck' = FALSE
    /\ \/ UNCHANGED <<pipe, buf>>
       \/ buf = <<>> /\ buf' = pipe /\ pipe' = <<>>
    /\ UNCHANGED <<driverVars, signals, cut, childVars>>

-----------------------------------------------------------------------------
(* kill_proc, and what follows it.                                         *)

\* mutant: one attempt too many
RetriesLeftOffByOne == cur <= LaunchRetries + 1

RetriesLeft == cur <= LaunchRetries

\* mutant: a child that has exited is not worth killing
ReapCurrentIfUp ==
    IF Up THEN ReapGroup(cur) ELSE UNCHANGED <<srv, kids, pipe, buf, inbox>>

ReapCurrent == ReapGroup(cur)

Kill ==
    /\ pc = "kill"
    /\ ReapCurrent
    /\ IF verdict = Retry /\ RetriesLeft
         THEN /\ pc' = "launch" /\ req' = "none"
              /\ cur' = cur + 1
              /\ verdict' = Undecided
         ELSE /\ Exit(IF verdict = Retry THEN 3 ELSE verdict)
              /\ UNCHANGED cur
    /\ UNCHANGED <<active, seen, armed, nudged, signals, cut, stuck>>
    /\ UNCHANGED <<goal, turns, marked>>

-----------------------------------------------------------------------------
(* SIGINT, SIGTERM: either interrupts a readline that waits.               *)

\* _signal_handler knows the child: clean up its thread, reap it, exit 2.
SignalHeld ==
    /\ pc # "exited" /\ signals < MaxSignals
    /\ active = cur
    /\ signals' = signals + 1
    /\ Cleanup(2)
    /\ stuck' = FALSE
    /\ UNCHANGED <<cur, active, seen, armed, nudged, cut, pipe, buf, childRest>>

\* No handler yet, or one that still holds the child of an earlier attempt,
\* which kill_proc has reaped already.
SignalUnheld ==
    /\ pc # "exited" /\ signals < MaxSignals
    /\ active # cur
    /\ signals' = signals + 1
    /\ cut' = TRUE
    /\ stuck' = FALSE
    /\ Exit(IF active = 0 THEN 143 ELSE 2)
    /\ UNCHANGED <<cur, active, seen, armed, nudged, pipe, buf, childVars>>

-----------------------------------------------------------------------------
(* The child, as the driver uses it.                                       *)

\* goal_clear and archive come last: what they leave behind is not modelled.
ServeEffect(r) ==
    /\ goal' = IF r = "goal_set" THEN "active" ELSE goal
    /\ turns' = CASE r = "turn_start" -> [turns EXCEPT ![1] = "running"]
                  [] r = "nudge_start" -> [turns EXCEPT ![2] = "running"]
                  [] OTHER -> turns

\* The requests whose result is the goal.
GoalReads == {"goal_get", "final_check", "recheck"}

Serve ==
    /\ pc # "exited" /\ Up /\ inbox # <<>>
    /\ inbox' = Tail(inbox)
    /\ LET r == Head(inbox) IN
          \/ /\ ServeEffect(r)
             /\ pipe' = Append(pipe, Response("resp", r, goal))
          \/ /\ ServerMayFail
             /\ pipe' = Append(pipe, Response("err", r, "none"))
             /\ UNCHANGED <<goal, turns>>
          \/ /\ ServerMayFail /\ r = "thread_start"
             /\ pipe' = Append(pipe, Response("nokey", r, "none"))
             /\ UNCHANGED <<goal, turns>>
          \/ /\ BadShapes /\ r \in {"thread_start"} \cup GoalReads
             /\ pipe' = Append(pipe, Response("badtype", r, "none"))
             /\ UNCHANGED <<goal, turns>>
          \/ /\ ServerMayFail /\ r = "goal_get"
             /\ pipe' = Append(pipe, Response("resp", r, "foreign"))
             /\ UNCHANGED <<goal, turns>>
    /\ UNCHANGED <<driverVars, signals, cut, stuck, buf, srv, kids, marked>>

\* Turn t is at work: a nudge asked for during turn 1 is queued behind it.
\* What a turn does once the driver cleans up is not modelled.
AtWork(t) ==
    /\ pc \in {"await", "wait"} /\ Up
    /\ req \notin CleanupReqs
    /\ turns[t] \in {"running", "answered"}
    /\ t = 2 => turns[1] = "ended"

Emit(k, t) == pipe' = Append(pipe, Notification(k, t))

TurnShowsMarker(t) ==
    /\ AtWork(t) /\ turns[t] = "running" /\ t \notin marked
    /\ Emit("marker", t)
    /\ marked' = marked \cup {t}
    /\ UNCHANGED <<driverVars, signals, cut, stuck, buf, inbox, srv, kids, goal,
                   turns>>

\* A final answer, or the thread going idle: it arms inferred completion.
TurnAnswers(t) ==
    /\ AtWork(t) /\ turns[t] = "running"
    /\ Emit("final", t)
    /\ turns' = [turns EXCEPT ![t] = "answered"]
    /\ UNCHANGED <<driverVars, signals, cut, stuck, buf, inbox, srv, kids, goal,
                   marked>>

TurnEnds(t) ==
    /\ AtWork(t)
    /\ \/ Emit("done", t)
       \/ ServerMayFail /\ Emit("failed", t)
    /\ turns' = [turns EXCEPT ![t] = "ended"]
    /\ UNCHANGED <<driverVars, signals, cut, stuck, buf, inbox, srv, kids, goal,
                   marked>>

\* The agent resolves its goal during a turn.
AgentSetsGoal(t) ==
    /\ AtWork(t) /\ goal = "active"
    /\ goal' \in {"complete", "blocked"}
    /\ UNCHANGED <<driverVars, signals, cut, stuck, pipe, buf, inbox, srv, kids,
                   turns, marked>>

ChildForks ==
    /\ pc # "exited" /\ Up /\ ~kids[cur]
    /\ kids' = [kids EXCEPT ![cur] = TRUE]
    /\ UNCHANGED <<driverVars, signals, cut, stuck, pipe, buf, inbox, srv, goal,
                   turns, marked>>

ChildExits ==
    /\ ServerMayFail
    /\ pc # "exited" /\ Up
    /\ srv' = [srv EXCEPT ![cur] = "gone"]
    /\ UNCHANGED <<driverVars, signals, cut, stuck, pipe, buf, inbox, kids, goal,
                   turns, marked>>

-----------------------------------------------------------------------------

\* What the driver does when no timer strikes.
Run ==
    \/ Launch \/ SpawnFails \/ AwaitRead
    \/ WaitGone \/ WaitRead \/ Kill

Turn(t) ==
    TurnShowsMarker(t) \/ TurnAnswers(t) \/ TurnEnds(t) \/ AgentSetsGoal(t)

Next ==
    \/ Run \/ AwaitTimeout \/ Inferred
    \/ ReadRaises \/ ReadBlocks \/ Unblocks
    \/ \E p \in Policies : PolicyKill(p)
    \/ SignalHeld \/ SignalUnheld
    \/ Serve \/ \E t \in 1..2 : Turn(t)
    \/ ChildForks \/ ChildExits

Spec == Init /\ [][Next]_vars

\* The driver runs; a timer that is due stays due, and a loop that comes round
\* again and again tests it (not so a driver that waits in readline); a live
\* child answers; a stream that nobody holds open ends.
Fairness ==
    /\ WF_vars(Run)
    /\ SF_vars(AwaitTimeout)
    /\ SF_vars(Inferred)
    /\ SF_vars("wall" \in Policies /\ PolicyKill("wall"))
    /\ WF_vars(Serve)
    /\ WF_vars(~Alive(cur) /\ Unblocks)

FairSpec == Spec /\ Fairness

-----------------------------------------------------------------------------
(* Properties                                                              *)

Message ==
    [kind : {"resp", "err", "nokey", "badtype", "marker", "final", "done", "failed"},
     req : Reqs \cup {"none"},
     goal : {"none", "active", "complete", "blocked", "foreign"},
     turn : 0..2]

TypeOK ==
    /\ pc \in {"launch", "await", "wait", "kill", "exited"}
    /\ req \in Reqs \cup {"none"}
    /\ cur \in Attempts
    /\ active \in Attempts \cup {0}
    /\ verdict \in Codes \cup {Undecided, Retry}
    /\ {seen, armed, nudged, cut, stuck} \subseteq BOOLEAN
    /\ signals \in 0..MaxSignals
    /\ pipe \in Seq(Message) /\ buf \in Seq(Message)
    /\ inbox \in Seq(Reqs)
    /\ srv \in [Attempts -> {"none", "up", "gone"}]
    /\ kids \in [Attempts -> BOOLEAN]
    /\ goal \in {"none", "active", "complete", "blocked"}
    /\ turns \in [1..2 -> {"none", "running", "answered", "ended"}]
    /\ marked \subseteq 1..2

\* Two attempts never write to the worktree at once: a retry starts only
\* after the whole group of the attempt before it is gone (kill_proc on every
\* failure path of launch_and_handshake).
OneGroup == \A a, b \in Attempts : Alive(a) /\ Alive(b) => a = b

\* The driver leaves no member of the child's process group behind, whatever
\* failed and whoever died first, but when the handshake is cut short: by a
\* signal while no handler knows the child, or by an exception that
\* launch_and_handshake has no clause for (main's finally, the except clauses
\* of launch_and_handshake, _signal_handler).
Reaped == pc = "exited" /\ ~cut => \A a \in Attempts : ~Alive(a)

\* Exit 0 means that the agent itself completed the goal and that the first
\* turn, not the nudge, showed that it read the capsule, in whatever order
\* lines were read and dropped (main, validate_outcome_read_marker).
SuccessIsEarned == pc = "exited" /\ verdict = 0 => goal = "complete" /\ 1 \in marked

\* "Launch/handshake transient failures retry, then exit 3 on exhaustion.
\* Deterministic launch failures exit 4 without retry.  Turn failures after
\* turn/start exit 2" (contract.md): a turn that was acknowledged is never
\* launched again, attempts do not overlap, and the exit code says how far
\* the driver got, in whatever order lines, deaths and signals come.
InTurn == pc = "wait" \/ (pc = "await" /\ req \in TurnReqs)

Phase ==
    CASE pc = "exited" -> "over"
      [] pc # "exited" /\ verdict \notin {Undecided, Retry} -> "ending"
      [] pc # "exited" /\ verdict \in {Undecided, Retry} /\ InTurn -> "working"
      [] OTHER -> "launching"

Code == IF verdict = Retry THEN Undecided ELSE verdict

Writers == {a \in Attempts : Alive(a)}

D == INSTANCE Delegation WITH
         phase <- Phase, attempt <- cur, writers <- Writers,
         known <- active = cur, code <- Code

ImplementsDelegation == D!Spec

\* With a wall-clock kill policy the driver ends, whether or not the child
\* ever answers, unless it waits for ever in readline for the end of a line
\* that a living child has begun (read_response, wait_for_turn_completion).
Terminates == <>(pc = "exited" \/ [](stuck /\ Alive(cur)))

\* contract.md: the driver reaps the whole group on every exit path, an
\* uncaught exception, SIGINT and SIGTERM included.
EveryExitReaps == pc = "exited" => \A a \in Attempts : ~Alive(a)

\* A turn the child has completed makes the driver go on to the goal check
\* and exit, however the completion races with the other lines
\* (tests/test_codex_driver.py, test_immediate_completion...).
CompletedTurnEnds == turns[1] = "ended" ~> pc = "exited"
=============================================================================
