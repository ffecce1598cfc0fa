------------------------------ MODULE RunTable ------------------------------
(***************************************************************************)
(* A row of `evaluation_runs` and what each SQL statement of               *)
(* EvaluationRunRepository (storage/run_repository.py) makes of it.  The   *)
(* modules that follow decide when and between which other steps the       *)
(* statements run.  An operator named Definition_Bug is Definition with a  *)
(* plausible bug, here and in the other modules: nothing uses it but the   *)
(* check that the bug breaks the property that is there to catch it.       *)
(*                                                                         *)
(* `attempt` and `fencing_token` are written by one statement only, which  *)
(* increments both; `token` stands for the pair.  A lease that is NULL in  *)
(* the database is NoOwner, with the expiry 0 that no lease has.  Every    *)
(* UPDATE also sets `version` and `updated_at`, which no statement of this *)
(* table ever tests; they are left out.                                    *)
(***************************************************************************)
EXTENDS Naturals, RunStatus

CONSTANTS Owners,    \* the lease_owner strings workers present
          NoOwner    \* lease_owner IS NULL

ASSUME OwnersAssumption == NoOwner \notin Owners

(* "absent": not inserted yet.  "deleted": removed with its project by the *)
(* ON DELETE CASCADE; a run id is a fresh UUID, so it never comes back.    *)
Row == [status  : Statuses \union {"absent", "deleted"},
        owner   : Owners \union {NoOwner},
        expires : Nat,
        token   : Nat]

NoRow  == [status |-> "absent", owner |-> NoOwner, expires |-> 0, token |-> 0]
NewRow == [NoRow EXCEPT !.status = "queued"]

Exists(row) == row.status \in Statuses
Leased(row) == row.owner # NoOwner

(* The row loses its lease for good; the token stays as the memory of what *)
(* was issued.                                                             *)
SettledRow(row, status) ==
  [status |-> status, owner |-> NoOwner, expires |-> 0, token |-> row.token]

(* Leases are treated as expired one time unit early.                      *)
Claimable_Early(row, now) ==
  /\ row.status \in Active
  /\ \/ row.status = "queued"
     \/ Leased(row) /\ row.expires <= now + 1

(* Only runs that were never claimed are looked for.                       *)
Claimable_QueuedOnly(row, now) == row.status = "queued"

(* The WHERE clause of claim_next; a NULL expiry satisfies no comparison.  *)
Claimable(row, now) ==
  /\ row.status \in Active
  /\ \/ row.status = "queued"
     \/ Leased(row) /\ row.expires <= now

(* The token of the attempt before is kept.                                *)
ClaimedRow_SameToken(row, owner, expires) ==
  [status |-> "preparing", owner |-> owner, expires |-> expires,
   token |-> row.token]

(* A reclaimed run goes on from the stage the lost attempt had reached.    *)
ClaimedRow_Resumes(row, owner, expires) ==
  [status  |-> IF row.status = "queued" THEN "preparing" ELSE row.status,
   owner   |-> owner,
   expires |-> expires,
   token   |-> row.token + 1]

(* claim_next: the row as the claim leaves it.                             *)
ClaimedRow(row, owner, expires) ==
  [status |-> "preparing", owner |-> owner, expires |-> expires,
   token |-> row.token + 1]

(* The fence shared by the UPDATEs of heartbeat and transition.            *)
HoldsLease(row, owner, token, now) ==
  /\ row.owner = owner
  /\ row.token = token
  /\ row.expires > now

(* The two columns of the lease are mixed up.                              *)
HeartbeatRow_Swapped(row, expires) == [row EXCEPT !.owner = expires]

HeartbeatRow(row, expires) ==
  [row EXCEPT !.expires = expires]

(* The UPDATE of transition: a terminal status ends the lease as well.     *)
TransitionedRow(row, target) ==
  IF target \in Terminal
    THEN SettledRow(row, target)
    ELSE [row EXCEPT !.status = target]

(* A cancelled run keeps the lease of the worker it was taken from.        *)
CancelledRow_KeepsLease(row) == [row EXCEPT !.status = "cancelled"]

CancelledRow(row) == SettledRow(row, "cancelled")

(* What the ORM flush of claim_next writes over the row as it then stands: *)
(* the columns whose new value differs from the value it had loaded.       *)
FlushedRow(loaded, dirty, current) ==
  [column \in DOMAIN current |->
     IF dirty[column] # loaded[column] THEN dirty[column] ELSE current[column]]

DeletedRow(row) == SettledRow(row, "deleted")

(* Where a run is in the terms of RunLifecycle.                            *)
PhaseOf(row) ==
  CASE row.status = "absent"  -> "unknown"
    [] row.status = "deleted" -> "removed"
    [] row.status = "queued"  -> "waiting"
    [] row.status \in {"preparing", "running", "evaluating"} -> "working"
    [] OTHER -> row.status

=============================================================================
