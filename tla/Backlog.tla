------------------------------- MODULE Backlog -------------------------------
(***************************************************************************)
(* lib/backlog.py: which task of a backlog comes next, and                 *)
(* sync_status_marker.py's choice of the task a status marker names.  A    *)
(* backlog maps a task to its status.  A cycle ends a task as completed or  *)
(* escalated, and writes the row's closed_in with it; parked is set and    *)
(* cleared by hand, between cycles.  A task's number is its id, in         *)
(* lexicographic order.                                                    *)
(***************************************************************************)
EXTENDS Naturals

CONSTANTS Task,      \* the ids of the backlog, but for B-000
          BlockedBy, \* BlockedBy[t]: the tasks t waits for
          NoTask     \* no task can be selected: BacklogError

\* validate: only known ids, and no cycle.
WellFormed(deps) ==
    /\ deps \in [Task -> SUBSET Task]
    /\ \A S \in SUBSET Task \ {{}} : \E t \in S : deps[t] \cap S = {}

ASSUME BacklogAssumption ==
    /\ Task \subseteq Nat /\ NoTask \notin Task
    /\ WellFormed(BlockedBy)

Status == {"pending", "in_progress", "completed", "escalated", "parked"}

\* The task was closed by a cycle.
Terminal(b, t) == b[t] \in {"completed", "escalated"}

First(ts) == IF ts = {} THEN NoTask ELSE CHOOSE t \in ts : \A u \in ts : t =< u

InProgress(b) == {t \in Task : b[t] = "in_progress"}

NextTask(b) ==
    First({t \in Task : b[t] = "pending" /\ \A d \in BlockedBy[t] : b[d] = "completed"})

\* The task of an open cycle wins.
TargetTask(b) == IF InProgress(b) # {} THEN First(InProgress(b)) ELSE NextTask(b)
=============================================================================
