---------------------------- MODULE RunLifecycle ----------------------------
(***************************************************************************)
(* What the job queue promises about one evaluation run, whatever workers, *)
(* leases and clocks do (docs/adr/0004-database-leased-jobs.md,            *)
(* docs/commercial-spec.md section 5.1): a submitted run is attempted one  *)
(* attempt at a time, each attempt numbered after the last; at most one    *)
(* outcome is ever recorded, only for a run that was attempted (or         *)
(* cancelled while still waiting), and it is never taken back.             *)
(***************************************************************************)
EXTENDS Naturals

CONSTANT Runs    \* identifiers of evaluation runs

VARIABLES phase,     \* phase[r]: where the run is, as a client sees it
          attempts   \* attempts[r]: how many attempts have been started

vars == <<phase, attempts>>

Open    == {"waiting", "working"}
Settled == {"completed", "failed", "cancelled"}

TypeOK ==
  /\ phase \in [Runs -> {"unknown", "removed"} \union Open \union Settled]
  /\ attempts \in [Runs -> Nat]

Init ==
  /\ phase = [r \in Runs |-> "unknown"]
  /\ attempts = [r \in Runs |-> 0]

Submit(r) ==
  /\ phase[r] = "unknown"
  /\ phase' = [phase EXCEPT ![r] = "waiting"]
  /\ UNCHANGED attempts

(* The first attempt, or another one that supersedes the attempt before.   *)
StartAttempt(r) ==
  /\ phase[r] \in Open
  /\ phase' = [phase EXCEPT ![r] = "working"]
  /\ attempts' = [attempts EXCEPT ![r] = @ + 1]

Settle(r, outcome) ==
  /\ \/ phase[r] = "working"
     \/ phase[r] = "waiting" /\ outcome = "cancelled"
  /\ phase' = [phase EXCEPT ![r] = outcome]
  /\ UNCHANGED attempts

Remove(r) ==
  /\ phase[r] \in Open \union Settled
  /\ phase' = [phase EXCEPT ![r] = "removed"]
  /\ UNCHANGED attempts

Next ==
  \E r \in Runs :
    \/ Submit(r)
    \/ StartAttempt(r)
    \/ \E outcome \in Settled : Settle(r, outcome)
    \/ Remove(r)

Spec == Init /\ [][Next]_vars

=============================================================================
