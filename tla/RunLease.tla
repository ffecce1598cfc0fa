------------------------------ MODULE RunLease ------------------------------
(***************************************************************************)
(* Workers and clients calling EvaluationRunRepository concurrently        *)
(* (storage/run_repository.py).  Each call is the sequence of statements   *)
(* the method executes, so that other transactions commit between them:    *)
(*   claim_next   SELECT ... FOR UPDATE SKIP LOCKED, then the flush;       *)
(*   transition   SELECT, require_transition, then the fenced UPDATE;      *)
(*   heartbeat    one fenced UPDATE;                                       *)
(*   cancel       SELECT, then an UPDATE of any active row.                *)
(* A worker calls the methods in any order the types allow: the repository *)
(* must stay safe whatever its callers do with a claim they once obtained. *)
(*                                                                         *)
(* RowLocking tells the two supported databases apart.  PostgreSQL holds   *)
(* the row lock of claim_next from the SELECT to the commit.  SQLite has   *)
(* no FOR UPDATE and its driver opens a transaction at the first write     *)
(* only, so other transactions commit between the SELECT and the flush.    *)
(***************************************************************************)
EXTENDS RunTable

CONSTANTS Runs,         \* run ids; a smaller one has the older (created_at, id)
          Workers,
          Clients,      \* callers of cancel
          OwnerOf,      \* the lease owner string each worker presents
          LeaseTimes,   \* values of lease_seconds in use
          RowLocking,   \* TRUE: PostgreSQL, FALSE: SQLite
          MaxLag,       \* longest delay from reading the clock to using it
          MaxClock,     \* bound on time
          MaxToken      \* bound on the attempts of a run

ASSUME RunsAssumption == Runs \subseteq Nat \ {0}
ASSUME OwnerOfAssumption == OwnerOf \in [Workers -> Owners]
ASSUME LeaseTimesAssumption == LeaseTimes \subseteq Nat \ {0}
ASSUME RowLockingAssumption == RowLocking \in BOOLEAN
ASSUME BoundsAssumption == MaxLag \in Nat /\ MaxClock \in Nat /\ MaxToken \in Nat

VARIABLES
  runs,         \* runs[r]: the row of run r
  clock,        \* true time
  claim,        \* claim[w]: the LeaseClaim worker w holds, possibly stale
  call,         \* call[w]: the statement of w's current call still to come
  cancelling,   \* cancelling[c]: the run whose cancellation c has to write
  accepted,     \* history: the transitions workers were told succeeded
  acked         \* history: the runs clients were told are cancelled

vars == <<runs, clock, claim, call, cancelling, accepted, acked>>

NoRun == 0

(* run and token are those of the LeaseClaim, since the clock reading it   *)
(* was made with, until the expiry the worker itself knows of.             *)
Claim   == [run : Runs \union {NoRun}, token : Nat, since : Nat, until : Nat]
NoClaim == [run |-> NoRun, token |-> 0, since |-> 0, until |-> 0]

(* now is the caller's timestamp; seen the status a transition has read;   *)
(* loaded the row a claim has read.                                        *)
Call == [op     : {"none", "claim", "transition"},
         run    : Runs \union {NoRun},
         now    : Nat,
         lease  : Nat,
         seen   : Statuses,
         target : Statuses,
         loaded : Row]
NoCall == [op |-> "none", run |-> NoRun, now |-> 0, lease |-> 0,
           seen |-> "queued", target |-> "queued", loaded |-> NoRow]

Init ==
  /\ runs = [r \in Runs |-> NoRow]
  /\ clock = 1
  /\ claim = [w \in Workers |-> NoClaim]
  /\ call = [w \in Workers |-> NoCall]
  /\ cancelling = [c \in Clients |-> NoRun]
  /\ accepted = {}
  /\ acked = {}

-----------------------------------------------------------------------------

Tick ==
  /\ clock < MaxClock
  /\ clock' = clock + 1
  /\ UNCHANGED <<runs, claim, call, cancelling, accepted, acked>>

(* The timestamps a caller may present now: read a little earlier.         *)
Readings == {t \in 1 .. clock : clock <= t + MaxLag}

(* The insert of create_idempotent; IdempotentCreate has its race.         *)
Create(r) ==
  /\ runs[r].status = "absent"
  /\ runs' = [runs EXCEPT ![r] = NewRow]
  /\ UNCHANGED <<clock, claim, call, cancelling, accepted, acked>>

(* ProjectRepository.delete: the foreign key cascades to the run.          *)
Delete(r) ==
  /\ Exists(runs[r])
  /\ runs' = [runs EXCEPT ![r] = DeletedRow(@)]
  /\ UNCHANGED <<clock, claim, call, cancelling, accepted, acked>>

-----------------------------------------------------------------------------
(* claim_next *)

(* Rows another transaction may hold locked, which SKIP LOCKED passes over.*)
LockedBy(others) == {call[v].run : v \in others} \union {cancelling[c] : c \in Clients}

(* The rows ORDER BY created_at, id ... LIMIT 1 can return to w.           *)
Pickable(w, now) ==
  {r \in Runs :
     /\ Claimable(runs[r], now)
     /\ \A q \in Runs :
          q < r /\ Claimable(runs[q], now) =>
            RowLocking /\ q \in LockedBy(Workers \ {w})}

Granted(w, r, row, now) ==
  [run |-> r, token |-> row.token, since |-> now, until |-> row.expires]

(* Both statements, with the row locked in between.                        *)
LockAndClaim(w) ==
  /\ RowLocking
  /\ call[w].op = "none"
  /\ \E now \in Readings, lease \in LeaseTimes :
       \E r \in Pickable(w, now) :
         LET row == ClaimedRow(runs[r], OwnerOf[w], now + lease)
         IN  /\ row.token <= MaxToken
             /\ runs' = [runs EXCEPT ![r] = row]
             /\ claim' = [claim EXCEPT ![w] = Granted(w, r, row, now)]
  /\ UNCHANGED <<clock, call, cancelling, accepted, acked>>

SelectForClaim(w) ==
  /\ ~RowLocking
  /\ call[w].op = "none"
  /\ \E now \in Readings, lease \in LeaseTimes :
       \E r \in Pickable(w, now) :
         /\ runs[r].token < MaxToken
         /\ call' = [call EXCEPT ![w] =
              [NoCall EXCEPT !.op = "claim", !.run = r, !.now = now,
                             !.lease = lease, !.loaded = runs[r]]]
  /\ UNCHANGED <<runs, clock, claim, cancelling, accepted, acked>>

(* UPDATE ... WHERE id = r, whatever became of the row since the SELECT;   *)
(* of a deleted row it raises StaleDataError.                              *)
FlushClaim(w) ==
  LET c   == call[w]
      row == ClaimedRow(c.loaded, OwnerOf[w], c.now + c.lease)
  IN
  /\ c.op = "claim"
  /\ \/ /\ Exists(runs[c.run])
        /\ runs' = [runs EXCEPT ![c.run] = FlushedRow(c.loaded, row, @)]
        /\ claim' = [claim EXCEPT ![w] = Granted(w, c.run, row, c.now)]
     \/ /\ ~Exists(runs[c.run])
        /\ UNCHANGED <<runs, claim>>
  /\ call' = [call EXCEPT ![w] = NoCall]
  /\ UNCHANGED <<clock, cancelling, accepted, acked>>

-----------------------------------------------------------------------------
(* heartbeat *)

Fenced(w, now) ==
  /\ claim[w].run # NoRun
  /\ HoldsLease(runs[claim[w].run], OwnerOf[w], claim[w].token, now)

(* A worker's later timestamps are not older than its claim's.             *)
ReadingsSinceClaim(w) == {t \in Readings : claim[w].since <= t}

Heartbeat(w) ==
  /\ call[w].op = "none"
  /\ \E now \in ReadingsSinceClaim(w), lease \in LeaseTimes :
       /\ Fenced(w, now)
       /\ runs[claim[w].run].status \in Active
       /\ runs' = [runs EXCEPT ![claim[w].run] = HeartbeatRow(@, now + lease)]
       /\ claim' = [claim EXCEPT ![w].until = now + lease]
  /\ UNCHANGED <<clock, call, cancelling, accepted, acked>>

-----------------------------------------------------------------------------
(* transition *)

(* The SELECT and require_transition.  An absent row makes the call return *)
(* False and a refused transition makes it raise, with nothing written.    *)
BeginTransition(w, target) ==
  LET r == claim[w].run IN
  /\ call[w].op = "none"
  /\ r # NoRun
  /\ Exists(runs[r])
  /\ MayTransition(runs[r].status, target)
  /\ \E now \in ReadingsSinceClaim(w) :
       call' = [call EXCEPT ![w] =
         [NoCall EXCEPT !.op = "transition", !.run = r, !.now = now,
                        !.seen = runs[r].status, !.target = target]]
  /\ UNCHANGED <<runs, clock, claim, cancelling, accepted, acked>>

(* The WHERE clause of transition's UPDATE.                                *)
TransitionMatches(w) ==
  /\ Fenced(w, call[w].now)
  /\ runs[claim[w].run].status = call[w].seen

TransitionApplied(w) ==
  LET r      == claim[w].run
      target == call[w].target
  IN
  /\ call[w].op = "transition"
  /\ TransitionMatches(w)
  /\ runs' = [runs EXCEPT ![r] = TransitionedRow(@, target)]
  /\ accepted' = accepted \union
       {[run |-> r, token |-> claim[w].token, target |-> target]}
  /\ call' = [call EXCEPT ![w] = NoCall]
  /\ UNCHANGED <<clock, claim, cancelling, acked>>

(* rowcount is 0: the call returns False.                                  *)
TransitionRejected(w) ==
  /\ call[w].op = "transition"
  /\ ~TransitionMatches(w)
  /\ call' = [call EXCEPT ![w] = NoCall]
  /\ UNCHANGED <<runs, clock, claim, cancelling, accepted, acked>>

-----------------------------------------------------------------------------
(* cancel *)

(* The SELECT finds the run cancelled already: True without writing.       *)
CancelAgain(c, r) ==
  /\ cancelling[c] = NoRun
  /\ runs[r].status = "cancelled"
  /\ acked' = acked \union {r}
  /\ UNCHANGED <<runs, clock, claim, call, cancelling, accepted>>

BeginCancel(c, r) ==
  /\ cancelling[c] = NoRun
  /\ runs[r].status \in Active
  /\ cancelling' = [cancelling EXCEPT ![c] = r]
  /\ UNCHANGED <<runs, clock, claim, call, accepted, acked>>

(* The UPDATE trusts the SELECT and overwrites an outcome settled since.   *)
WriteCancel_Unguarded(c) ==
  LET r == cancelling[c] IN
  /\ r # NoRun
  /\ runs' = [runs EXCEPT ![r] = CancelledRow(@)]
  /\ acked' = acked \union {r}
  /\ cancelling' = [cancelling EXCEPT ![c] = NoRun]
  /\ UNCHANGED <<clock, claim, call, accepted>>

(* True is returned whether or not the UPDATE matched a row.               *)
WriteCancel_AlwaysTrue(c) ==
  LET r == cancelling[c] IN
  /\ r # NoRun
  /\ runs' = IF runs[r].status \in Active
               THEN [runs EXCEPT ![r] = CancelledRow(@)]
               ELSE runs
  /\ acked' = acked \union {r}
  /\ cancelling' = [cancelling EXCEPT ![c] = NoRun]
  /\ UNCHANGED <<clock, claim, call, accepted>>

(* Whatever the SELECT saw, the UPDATE requires an active row; when it     *)
(* matches none, cancel returns False.                                     *)
WriteCancel(c) ==
  LET r == cancelling[c] IN
  /\ r # NoRun
  /\ \/ /\ runs[r].status \in Active
        /\ runs' = [runs EXCEPT ![r] = CancelledRow(@)]
        /\ acked' = acked \union {r}
     \/ /\ runs[r].status \notin Active
        /\ UNCHANGED <<runs, acked>>
  /\ cancelling' = [cancelling EXCEPT ![c] = NoRun]
  /\ UNCHANGED <<clock, claim, call, accepted>>

-----------------------------------------------------------------------------

WorkerStep(w) ==
  \/ LockAndClaim(w)
  \/ SelectForClaim(w)
  \/ FlushClaim(w)
  \/ Heartbeat(w)
  \/ \E target \in Statuses : BeginTransition(w, target)
  \/ TransitionApplied(w)
  \/ TransitionRejected(w)

ClientStep(c) ==
  \/ \E r \in Runs : CancelAgain(c, r) \/ BeginCancel(c, r)
  \/ WriteCancel(c)

Next ==
  \/ Tick
  \/ \E r \in Runs : Create(r) \/ Delete(r)
  \/ \E w \in Workers : WorkerStep(w)
  \/ \E c \in Clients : ClientStep(c)

Spec == Init /\ [][Next]_vars

-----------------------------------------------------------------------------
(* Properties *)

Acceptance == [run : Runs, token : Nat, target : Statuses]

(* The type invariant of this module.                                      *)
TypeOK ==
  /\ runs \in [Runs -> Row]
  /\ clock \in Nat
  /\ claim \in [Workers -> Claim]
  /\ call \in [Workers -> Call]
  /\ cancelling \in [Clients -> Runs \union {NoRun}]
  /\ accepted \subseteq Acceptance
  /\ acked \subseteq Runs

(* A stored row never trips EvaluationRun.__post_init__ (a terminal run    *)
(* with a lease, an owner without an expiry), which would make every later *)
(* read of it raise; and a run in progress always has a lease, without     *)
(* which no claim_next would ever select it again.                         *)
RowWellFormed ==
  \A r \in Runs :
    /\ Leased(runs[r]) <=> runs[r].status \in Active \ {"queued"}
    /\ Leased(runs[r]) <=> runs[r].expires > 0

(* The claim of w is one the fenced statements would accept, time apart.   *)
Effective(w) ==
  LET r == claim[w].run IN
  /\ r # NoRun
  /\ runs[r].owner = OwnerOf[w]
  /\ runs[r].token = claim[w].token

(* One attempt has one effective owner (ADR-0004, verification), even when *)
(* two worker processes are configured with the same owner string.         *)
SingleHolder ==
  \A v, w \in Workers :
    v # w /\ claim[v].run = claim[w].run => ~(Effective(v) /\ Effective(w))

(* While the expiry a worker knows of lies in the future, its run can be   *)
(* taken from it only by being settled or deleted: a reclaim waits for the *)
(* lease, as extended by every successful heartbeat, to run out.           *)
NoEarlySteal ==
  \A w \in Workers :
    LET r == claim[w].run IN
    r # NoRun /\ clock < claim[w].until /\ runs[r].status \in Active =>
      Effective(w)

(* A cancellation reported to a client is never undone by a late worker or *)
(* by a claim.                                                             *)
AcksHold == \A r \in acked : runs[r].status \in {"cancelled", "deleted"}

(* At most one worker is ever told that it settled a run, and what it was  *)
(* told is what the table says (cancel and complete cannot both win).      *)
OneVerdict ==
  \A a \in accepted :
    a.target \in Terminal =>
      /\ runs[a.run].status \in {a.target, "deleted"}
      /\ \A b \in accepted :
           b.run = a.run /\ b.target \in Terminal => b = a

(* A run is completed only by an attempt that itself went through running  *)
(* and evaluating: progress made under a lost lease is never built upon.   *)
CompletedByOneAttempt ==
  \A a \in accepted :
    a.target = "completed" =>
      \A stage \in {"running", "evaluating"} :
        [run |-> a.run, token |-> a.token, target |-> stage] \in accepted

-----------------------------------------------------------------------------
(* The strengthening that makes the invariants above inductive when no     *)
(* other writer comes between the two statements of claim_next: the row is *)
(* locked from the SELECT to the commit, or one worker has the table to    *)
(* itself but for insertions and deletions.                                *)

Serial == RowLocking \/ (Clients = {} /\ \A v, w \in Workers : v = w)

(* What a claim has read is still there when it is flushed, unless the run *)
(* was deleted meanwhile.                                                  *)
HalfClaims ==
  \A w \in Workers :
    LET c == call[w] IN
    c.op = "claim" =>
      /\ ~RowLocking
      /\ c.run \in Runs
      /\ c.now <= clock /\ c.lease > 0
      /\ Claimable(c.loaded, c.now)
      /\ runs[c.run] = c.loaded \/ runs[c.run].status = "deleted"

TransitionsAllowed ==
  \A w \in Workers :
    call[w].op = "transition" => MayTransition(call[w].seen, call[w].target)

(* Claims are numbered from 1, and none is ahead of the row it was granted *)
(* from.                                                                   *)
TokensIssued ==
  /\ \A r \in Runs : runs[r].status = "absent" => runs[r].token = 0
  /\ \A w \in Workers :
       claim[w].run # NoRun =>
         claim[w].token \in 1 .. runs[claim[w].run].token

(* No fencing token of a run was granted twice.                            *)
TokensUnique ==
  \A v, w \in Workers :
    v # w /\ claim[v].run = claim[w].run /\ claim[v].run # NoRun =>
      claim[v].token # claim[w].token

(* The holder of a lease knows when it expires.                            *)
ExpiryKnown ==
  \A w \in Workers :
    Effective(w) /\ runs[claim[w].run].status \in Active =>
      claim[w].until = runs[claim[w].run].expires

(* The current attempt passed the stages that lie behind the status.       *)
StagesReached ==
  \A r \in Runs :
    LET passed(stage) ==
          [run |-> r, token |-> runs[r].token, target |-> stage] \in accepted
    IN  /\ runs[r].status \in {"running", "evaluating"} => passed("running")
        /\ runs[r].status = "evaluating" => passed("evaluating")

(* The inductive invariant.                                                *)
IInv ==
  /\ TypeOK
  /\ HalfClaims
  /\ TransitionsAllowed
  /\ RowWellFormed
  /\ TokensIssued
  /\ TokensUnique
  /\ ExpiryKnown
  /\ NoEarlySteal
  /\ AcksHold
  /\ OneVerdict
  /\ StagesReached
  /\ CompletedByOneAttempt

-----------------------------------------------------------------------------
(* The table implements the queue's promise.                               *)
Lifecycle == INSTANCE RunLifecycle
               WITH phase    <- [r \in Runs |-> PhaseOf(runs[r])],
                    attempts <- [r \in Runs |-> runs[r].token]

(* Every step of the table is a step of RunLifecycle or leaves it alone.   *)
ImplementsLifecycle == Lifecycle!Spec

=============================================================================
