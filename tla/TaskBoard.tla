------------------------------ MODULE TaskBoard ------------------------------
(***************************************************************************)
(* What the commits on a project's main say of its tasks, whatever the     *)
(* turns do to the work tree and the index, and wherever they die.  One    *)
(* task at a time is started, the next one of the backlog, on its own;     *)
(* once origin shows that too, its PR may be merged, and it is finished,   *)
(* in one step with its row of the ledger: as completed if its PR was      *)
(* merged, as escalated if not.  No other task changes, and origin only    *)
(* ever shows what was on the board.  TargetCycle implements this.         *)
(***************************************************************************)
EXTENDS Backlog

VARIABLES board,  \* the backlog and the rows of the ledger, in the last commit
          shown,  \* those in origin's last commit
          merged  \* the tasks whose PR is merged

bvars == <<board, shown, merged>>

Init ==
    /\ InProgress(board.backlog) = {}
    /\ \A t \in Task : board.ledger[t] > 0 <=> Terminal(board.backlog, t)
    /\ shown = board
    /\ merged = {}

\* The board b with t started.
Started(b, t) == [b EXCEPT !.backlog[t] = "in_progress"]

Start(t) ==
    /\ InProgress(board.backlog) = {}
    /\ t = NextTask(board.backlog)
    /\ board' = Started(board, t)
    /\ UNCHANGED <<shown, merged>>

\* Everybody can see that t is being worked on.
Open(t) == t \in InProgress(board.backlog) /\ t \in InProgress(shown.backlog)

Merge(t) ==
    /\ Open(t)
    /\ merged' = merged \cup {t}
    /\ UNCHANGED <<board, shown>>

Ending(t) == IF t \in merged THEN "completed" ELSE "escalated"

\* The board b with t finished, by n rows: a close that was cut short and
\* taken up again can write more than one.
Finished(b, t, n) ==
    [backlog |-> [b.backlog EXCEPT ![t] = Ending(t)],
     ledger |-> [b.ledger EXCEPT ![t] = n]]

Finish(t) ==
    /\ Open(t)
    /\ board'.ledger[t] > board.ledger[t]
    /\ board' = Finished(board, t, board'.ledger[t])
    /\ UNCHANGED <<shown, merged>>

Publish ==
    /\ shown' = board
    /\ UNCHANGED <<board, merged>>

Next ==
    \/ \E t \in Task : Start(t) \/ Merge(t) \/ Finish(t)
    \/ Publish

Spec == Init /\ [][Next]_bvars
=============================================================================
