------------------------------- MODULE Lease -------------------------------
(***************************************************************************)
(* What a bs-evolve lock promises its callers, whatever the helper does to *)
(* the lock file.  Somebody else can become the holder only after the      *)
(* holder released the lock itself or let its lease run out; only somebody *)
(* who was once made the holder believes it is, and only a believer renews *)
(* or releases.  A belief can outlive the lease: what a believer without a *)
(* lease may do is EvolveLock's concern.  EvolveLock implements this       *)
(* specification.                                                          *)
(***************************************************************************)

CONSTANTS Proc,    \* orchestrator turns that may want the lock
          NoProc   \* "nobody", not one of Proc

VARIABLES holder,   \* who the lock belongs to
          believes, \* the turns that were told it is theirs
          expired   \* the holder has not renewed within the stale limit

lvars == <<holder, believes, expired>>

Init ==
    /\ holder = NoProc
    /\ believes = {}
    /\ expired = FALSE

Grant(p) ==
    /\ holder = NoProc
    /\ holder' = p
    /\ expired' = FALSE
    /\ UNCHANGED believes

\* The holder learns that it is the holder.
Tell(p) ==
    /\ holder = p
    /\ believes' = believes \cup {p}
    /\ UNCHANGED <<holder, expired>>

Renew(p) ==
    /\ holder = p
    /\ p \in believes
    /\ expired' = FALSE
    /\ UNCHANGED <<holder, believes>>

Release(p) ==
    /\ holder = p
    /\ p \in believes
    /\ holder' = NoProc
    /\ believes' = believes \ {p}
    /\ expired' = FALSE

\* A believer dies, or learns that the lock is not its own any more.
Forget(p) ==
    /\ believes' = believes \ {p}
    /\ UNCHANGED <<holder, expired>>

Expire ==
    /\ holder # NoProc
    /\ expired' = TRUE
    /\ UNCHANGED <<holder, believes>>

\* The only way to lose the lock without asking for it.
Evict ==
    /\ expired
    /\ holder' = NoProc
    /\ expired' = FALSE
    /\ UNCHANGED believes

Next ==
    \/ \E p \in Proc : Grant(p) \/ Tell(p) \/ Renew(p) \/ Release(p) \/ Forget(p)
    \/ Expire
    \/ Evict

Spec == Init /\ [][Next]_lvars
=============================================================================
