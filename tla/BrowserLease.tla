---------------------------- MODULE BrowserLease ----------------------------
(***************************************************************************)
(* What BrowserPool promises to the handlers above it, with no lock, no    *)
(* counter and no timer: one Chromium process, a set of contexts that rely *)
(* on it, and the rule that the process is only taken down while nobody    *)
(* relies on it, or when the whole service ends.                           *)
(***************************************************************************)
CONSTANT User        \* the contexts that can rely on Chromium

VARIABLES
  up,                \* a Chromium process is there
  users,             \* the contexts that rely on it
  over               \* the service has ended

leaseVars == <<up, users, over>>

LeaseInit ==
  /\ up \in BOOLEAN
  /\ users = {}
  /\ over = FALSE

\* Chromium may be up before the context that asked for it is admitted.
Boot ==
  /\ ~up
  /\ ~over
  /\ up' = TRUE
  /\ UNCHANGED <<users, over>>

\* Admission may start the process in the same step.
Acquire(u) ==
  /\ ~over
  /\ u \notin users
  /\ users' = users \cup {u}
  /\ up' = TRUE
  /\ UNCHANGED over

Leave(u) ==
  /\ u \in users
  /\ users' = users \ {u}
  /\ UNCHANGED <<up, over>>

TakeDown ==
  /\ users = {}
  /\ up' = FALSE
  /\ UNCHANGED <<users, over>>

Finish ==
  /\ over' = TRUE
  /\ up' = FALSE
  /\ users' = {}

LeaseNext ==
  \/ Boot
  \/ TakeDown
  \/ Finish
  \/ \E u \in User : Acquire(u) \/ Leave(u)

LeaseSpec == LeaseInit /\ [][LeaseNext]_leaseVars
=============================================================================
