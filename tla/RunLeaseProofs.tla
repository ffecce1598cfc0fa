--------------------------- MODULE RunLeaseProofs ---------------------------
(***************************************************************************)
(* Proofs about RunLease, for every set of runs, workers and clients, every *)
(* assignment of owner strings to workers, every lease time and every       *)
(* bound.                                                                   *)
(***************************************************************************)
EXTENDS RunLease, TLAPS

(* Every statement writes rows of the type of the table.                   *)
LEMMA ClaimedRowIsRow ==
  ASSUME NEW row \in Row, NEW o \in Owners, NEW e \in Nat
  PROVE  ClaimedRow(row, o, e) \in Row
BY DEF ClaimedRow, Row, Statuses, Active

LEMMA HeartbeatRowIsRow ==
  ASSUME NEW row \in Row, NEW e \in Nat
  PROVE  HeartbeatRow(row, e) \in Row
BY DEF HeartbeatRow, Row

LEMMA TransitionedRowIsRow ==
  ASSUME NEW row \in Row, NEW t \in Statuses
  PROVE  TransitionedRow(row, t) \in Row
BY DEF TransitionedRow, SettledRow, Row

LEMMA SettledRowIsRow ==
  ASSUME NEW row \in Row
  PROVE  CancelledRow(row) \in Row /\ DeletedRow(row) \in Row
BY DEF CancelledRow, DeletedRow, SettledRow, Row, Statuses, Terminal

LEMMA NewRowsAreRows == NoRow \in Row /\ NewRow \in Row
BY DEF NoRow, NewRow, Row, Statuses, Active, Terminal

(* A flushed row mixes the columns of two rows.                            *)
LEMMA FlushStaysRow ==
  ASSUME NEW loaded \in Row, NEW dirty \in Row, NEW current \in Row
  PROVE  FlushedRow(loaded, dirty, current) \in Row
<1>1. DOMAIN current = {"status", "owner", "expires", "token"}
  BY DEF Row
<1> QED BY <1>1 DEF FlushedRow, Row

LEMMA TypeCorrectInitially == Init => TypeOK
BY NewRowsAreRows, RunsAssumption
   DEF Init, TypeOK, NoClaim, Claim, NoCall, Call, Statuses, Active, Terminal

LEMMA TypeStep == TypeOK /\ [Next]_vars => TypeOK'
<1> SUFFICES ASSUME TypeOK, [Next]_vars PROVE TypeOK'
  OBVIOUS
<1> USE DEF TypeOK
<1> USE RunsAssumption, OwnerOfAssumption, LeaseTimesAssumption
<1>1. CASE Tick
  BY <1>1 DEF Tick
<1>2. ASSUME NEW r \in Runs, Create(r) PROVE TypeOK'
  BY <1>2, NewRowsAreRows DEF Create
<1>3. ASSUME NEW r \in Runs, Delete(r) PROVE TypeOK'
  BY <1>3, SettledRowIsRow DEF Delete
<1>4. ASSUME NEW w \in Workers, LockAndClaim(w) PROVE TypeOK'
  <2> PICK now \in Readings, lease \in LeaseTimes :
        \E r \in Pickable(w, now) :
          LET row == ClaimedRow(runs[r], OwnerOf[w], now + lease)
          IN  /\ runs' = [runs EXCEPT ![r] = row]
              /\ claim' = [claim EXCEPT ![w] = Granted(w, r, row, now)]
    BY <1>4 DEF LockAndClaim
  <2> PICK r \in Pickable(w, now) :
        LET row == ClaimedRow(runs[r], OwnerOf[w], now + lease)
        IN  /\ runs' = [runs EXCEPT ![r] = row]
            /\ claim' = [claim EXCEPT ![w] = Granted(w, r, row, now)]
    OBVIOUS
  <2> DEFINE row == ClaimedRow(runs[r], OwnerOf[w], now + lease)
  <2>1. r \in Runs /\ now \in Nat /\ now + lease \in Nat /\ Exists(runs[r])
    BY DEF Pickable, Readings, Claimable, Exists, Statuses
  <2>2. row \in Row
    BY <2>1, ClaimedRowIsRow
  <2>3. Granted(w, r, row, now) \in Claim
    <3> HIDE DEF row
    <3> QED BY <2>1, <2>2 DEF Granted, Claim, Row
  <2> QED BY <1>4, <2>1, <2>2, <2>3 DEF LockAndClaim
<1>5. ASSUME NEW w \in Workers, SelectForClaim(w) PROVE TypeOK'
  <2> PICK now \in Readings, lease \in LeaseTimes :
        \E r \in Pickable(w, now) :
          call' = [call EXCEPT ![w] =
            [NoCall EXCEPT !.op = "claim", !.run = r, !.now = now,
                           !.lease = lease, !.loaded = runs[r]]]
    BY <1>5 DEF SelectForClaim
  <2> PICK r \in Pickable(w, now) :
        call' = [call EXCEPT ![w] =
            [NoCall EXCEPT !.op = "claim", !.run = r, !.now = now,
                           !.lease = lease, !.loaded = runs[r]]]
    OBVIOUS
  <2>1. r \in Runs /\ now \in Nat /\ lease \in Nat
    BY DEF Pickable, Readings
  <2> QED BY <1>5, <2>1, NewRowsAreRows
          DEF SelectForClaim, Call, NoCall, Statuses, Active
<1>6. ASSUME NEW w \in Workers, FlushClaim(w) PROVE TypeOK'
  <2> DEFINE c == call[w]
             row == ClaimedRow(c.loaded, OwnerOf[w], c.now + c.lease)
  <2>1. /\ c.run \in Runs \union {NoRun} /\ c.loaded \in Row
        /\ c.now \in Nat /\ c.lease \in Nat
    BY DEF Call
  <2>2. row \in Row
    BY <2>1, ClaimedRowIsRow
  <2>3. call' \in [Workers -> Call]
    BY <1>6, NewRowsAreRows DEF FlushClaim, NoCall, Call, Statuses, Active
  <2>4. CASE /\ c.run \in Runs
             /\ runs' = [runs EXCEPT ![c.run] = FlushedRow(c.loaded, row, @)]
             /\ claim' = [claim EXCEPT ![w] = Granted(w, c.run, row, c.now)]
    <3>1. FlushedRow(c.loaded, row, runs[c.run]) \in Row
      BY <2>1, <2>2, <2>4, FlushStaysRow
    <3>2. Granted(w, c.run, row, c.now) \in Claim
      <4> HIDE DEF row
      <4> QED BY <2>1, <2>2 DEF Granted, Claim, Row
    <3> HIDE DEF row
    <3> QED BY <1>6, <2>3, <2>4, <3>1, <3>2 DEF FlushClaim
  <2>5. CASE /\ c.run \notin Runs
             /\ runs' = [runs EXCEPT ![c.run] = FlushedRow(c.loaded, row, @)]
             /\ claim' = [claim EXCEPT ![w] = Granted(w, c.run, row, c.now)]
    <3>1. runs' = runs
      BY <2>5
    <3>2. Granted(w, c.run, row, c.now) \in Claim
      <4> HIDE DEF row
      <4> QED BY <2>1, <2>2 DEF Granted, Claim, Row
    <3> HIDE DEF row
    <3> QED BY <1>6, <2>3, <2>5, <3>1, <3>2 DEF FlushClaim
  <2>6. CASE UNCHANGED <<runs, claim>>
    BY <1>6, <2>3, <2>6 DEF FlushClaim
  <2> QED BY <1>6, <2>4, <2>5, <2>6 DEF FlushClaim
<1>7. ASSUME NEW w \in Workers, Heartbeat(w) PROVE TypeOK'
  <2> PICK now \in ReadingsSinceClaim(w), lease \in LeaseTimes :
        /\ Fenced(w, now)
        /\ runs[claim[w].run].status \in Active
        /\ runs' = [runs EXCEPT ![claim[w].run] = HeartbeatRow(@, now + lease)]
        /\ claim' = [claim EXCEPT ![w].until = now + lease]
    BY <1>7 DEF Heartbeat
  <2>1. claim[w].run \in Runs /\ now + lease \in Nat
    BY DEF Fenced, Claim, ReadingsSinceClaim, Readings
  <2>2. HeartbeatRow(runs[claim[w].run], now + lease) \in Row
    BY <2>1, HeartbeatRowIsRow
  <2>3. claim' \in [Workers -> Claim]
    BY <2>1 DEF Claim
  <2> QED BY <1>7, <2>1, <2>2, <2>3 DEF Heartbeat
<1>8. ASSUME NEW w \in Workers, NEW target \in Statuses,
             BeginTransition(w, target)
      PROVE  TypeOK'
  <2> PICK now \in ReadingsSinceClaim(w) :
        call' = [call EXCEPT ![w] =
           [NoCall EXCEPT !.op = "transition", !.run = claim[w].run,
                          !.now = now, !.seen = runs[claim[w].run].status,
                          !.target = target]]
    BY <1>8 DEF BeginTransition
  <2>1. claim[w].run \in Runs /\ now \in Nat
    BY <1>8 DEF BeginTransition, Claim, ReadingsSinceClaim, Readings
  <2>2. runs[claim[w].run].status \in Statuses
    BY <1>8 DEF BeginTransition, Exists
  <2> QED BY <1>8, <2>1, <2>2, NewRowsAreRows DEF BeginTransition, Call, NoCall
<1>9. ASSUME NEW w \in Workers, TransitionApplied(w) PROVE TypeOK'
  <2>1. /\ claim[w].run \in Runs
        /\ call[w].target \in Statuses
        /\ runs[claim[w].run].status \in Statuses
    BY <1>9 DEF TransitionApplied, TransitionMatches, Fenced, Claim, Call
  <2>2. call' \in [Workers -> Call]
    BY <1>9, NewRowsAreRows
       DEF TransitionApplied, NoCall, Call, Statuses, Active
  <2>3. TransitionedRow(runs[claim[w].run], call[w].target) \in Row
    BY <2>1, TransitionedRowIsRow
  <2>4. [run |-> claim[w].run, token |-> claim[w].token,
         target |-> call[w].target] \in Acceptance
    BY <2>1 DEF Acceptance, Claim
  <2> QED BY <1>9, <2>1, <2>2, <2>3, <2>4 DEF TransitionApplied
<1>10. ASSUME NEW w \in Workers, TransitionRejected(w) PROVE TypeOK'
  BY <1>10, NewRowsAreRows
     DEF TransitionRejected, NoCall, Call, Statuses, Active
<1>11. ASSUME NEW c \in Clients, NEW r \in Runs,
              CancelAgain(c, r) \/ BeginCancel(c, r)
       PROVE  TypeOK'
  BY <1>11 DEF CancelAgain, BeginCancel
<1>12. ASSUME NEW c \in Clients, WriteCancel(c) PROVE TypeOK'
  <2>1. cancelling[c] \in Runs
    BY <1>12 DEF WriteCancel
  <2>2. CancelledRow(runs[cancelling[c]]) \in Row
    BY <2>1, SettledRowIsRow
  <2> QED BY <1>12, <2>1, <2>2 DEF WriteCancel
<1>13. CASE UNCHANGED vars
  BY <1>13 DEF vars
<1> QED BY <1>1, <1>2, <1>3, <1>4, <1>5, <1>6, <1>7, <1>8, <1>9, <1>10,
           <1>11, <1>12, <1>13
        DEF Next, WorkerStep, ClientStep

(* The type invariant, on both databases.                                  *)
THEOREM TypeCorrect == Spec => []TypeOK
BY TypeCorrectInitially, TypeStep, PTL DEF Spec

-----------------------------------------------------------------------------
(* The effect of the actions that hide their choices behind quantifiers.   *)

(* Whichever way a claim is written, it takes a claimable row under a new  *)
(* token.                                                                  *)
Claims(w) ==
  \E r \in Runs, now \in Nat, until \in Nat :
    /\ now <= clock
    /\ now < until
    /\ Claimable(runs[r], now)
    /\ OwnerOf[w] \in Owners
    /\ runs' = [runs EXCEPT ![r] =
         [status |-> "preparing", owner |-> OwnerOf[w],
          expires |-> until, token |-> runs[r].token + 1]]
    /\ claim' = [claim EXCEPT ![w] =
         [run |-> r, token |-> runs[r].token + 1,
          since |-> now, until |-> until]]

LEMMA LockAndClaimEffect ==
  ASSUME TypeOK, NEW w \in Workers, LockAndClaim(w)
  PROVE  Claims(w)
<1>1. PICK now \in Readings, lease \in LeaseTimes :
        \E r \in Pickable(w, now) :
          LET row == ClaimedRow(runs[r], OwnerOf[w], now + lease)
          IN  /\ runs' = [runs EXCEPT ![r] = row]
              /\ claim' = [claim EXCEPT ![w] = Granted(w, r, row, now)]
  BY DEF LockAndClaim
<1>2. PICK r \in Pickable(w, now) :
        LET row == ClaimedRow(runs[r], OwnerOf[w], now + lease)
        IN  /\ runs' = [runs EXCEPT ![r] = row]
            /\ claim' = [claim EXCEPT ![w] = Granted(w, r, row, now)]
  BY <1>1
<1>3. /\ now \in Nat /\ now <= clock
      /\ now + lease \in Nat /\ now < now + lease
  BY LeaseTimesAssumption DEF Readings, TypeOK
<1>4. r \in Runs /\ Claimable(runs[r], now)
  BY DEF Pickable
<1>6. OwnerOf[w] \in Owners
  BY OwnerOfAssumption
<1> QED BY <1>2, <1>3, <1>4, <1>6 DEF ClaimedRow, Granted, Claims

(* A flush over a row that is still as it was read leaves what the locked  *)
(* claim would have left.                                                  *)
LEMMA FlushOverLoaded ==
  ASSUME NEW row \in Row, NEW o \in Owners, NEW e \in Nat
  PROVE  FlushedRow(row, ClaimedRow(row, o, e), row) = ClaimedRow(row, o, e)
<1> DEFINE dirty == ClaimedRow(row, o, e)
<1>1. dirty \in Row
  BY ClaimedRowIsRow
<1> HIDE DEF dirty
<1>2. FlushedRow(row, dirty, row) = [column \in DOMAIN row |-> dirty[column]]
  BY DEF FlushedRow
<1>3. DOMAIN row = DOMAIN dirty /\ dirty = [column \in DOMAIN dirty |-> dirty[column]]
  BY <1>1 DEF Row
<1>4. FlushedRow(row, dirty, row) = dirty
  BY <1>2, <1>3
<1> QED BY <1>4 DEF dirty

LEMMA FlushClaimEffect ==
  ASSUME TypeOK, HalfClaims, NEW w \in Workers, FlushClaim(w)
  PROVE  Claims(w) \/ UNCHANGED <<runs, claim>>
<1> DEFINE c == call[w]
           row == ClaimedRow(c.loaded, OwnerOf[w], c.now + c.lease)
<1>1. /\ c.run \in Runs /\ c.now <= clock /\ c.lease > 0
      /\ Claimable(c.loaded, c.now)
      /\ runs[c.run] = c.loaded \/ runs[c.run].status = "deleted"
  BY DEF FlushClaim, HalfClaims
<1>2. /\ c.now \in Nat /\ c.lease \in Nat /\ c.loaded \in Row
      /\ OwnerOf[w] \in Owners
  BY OwnerOfAssumption DEF TypeOK, Call
<1>3. CASE ~Exists(runs[c.run])
  BY <1>3 DEF FlushClaim
<1>4. CASE Exists(runs[c.run])
  <2>1. runs[c.run] = c.loaded
    BY <1>1, <1>4 DEF Exists, Statuses, Active, Terminal
  <2>2. /\ runs' = [runs EXCEPT ![c.run] = FlushedRow(c.loaded, row, runs[c.run])]
        /\ claim' = [claim EXCEPT ![w] = Granted(w, c.run, row, c.now)]
    BY <1>4 DEF FlushClaim
  <2>3. c.now + c.lease \in Nat /\ c.now < c.now + c.lease
    BY <1>1, <1>2
  <2>4. FlushedRow(c.loaded, row, runs[c.run]) = row
    BY <1>2, <2>1, <2>3, FlushOverLoaded
  <2>5. row = [status |-> "preparing", owner |-> OwnerOf[w],
               expires |-> c.now + c.lease, token |-> runs[c.run].token + 1]
    BY <2>1 DEF ClaimedRow
  <2>6. Granted(w, c.run, row, c.now) =
          [run |-> c.run, token |-> runs[c.run].token + 1,
           since |-> c.now, until |-> c.now + c.lease]
    BY <2>5 DEF Granted
  <2> HIDE DEF row
  <2> QED BY <1>1, <1>2, <2>1, <2>2, <2>3, <2>4, <2>5, <2>6 DEF Claims
<1> QED BY <1>3, <1>4

LEMMA SelectForClaimEffect ==
  ASSUME TypeOK, NEW w \in Workers, SelectForClaim(w)
  PROVE  \E r \in Runs, now \in Nat, lease \in Nat :
           /\ Claimable(runs[r], now) /\ now <= clock /\ lease > 0
           /\ call'[w].op = "claim" /\ call'[w].run = r
           /\ call'[w].now = now /\ call'[w].lease = lease
           /\ call'[w].loaded = runs[r]
           /\ \A v \in Workers : v # w => call'[v] = call[v]
<1>1. PICK now \in Readings, lease \in LeaseTimes :
        \E r \in Pickable(w, now) :
          call' = [call EXCEPT ![w] =
            [NoCall EXCEPT !.op = "claim", !.run = r, !.now = now,
                           !.lease = lease, !.loaded = runs[r]]]
  BY DEF SelectForClaim
<1>2. PICK r \in Pickable(w, now) :
        call' = [call EXCEPT ![w] =
          [NoCall EXCEPT !.op = "claim", !.run = r, !.now = now,
                         !.lease = lease, !.loaded = runs[r]]]
  BY <1>1
<1>3. now \in Nat /\ now <= clock /\ lease \in Nat /\ lease > 0
  BY LeaseTimesAssumption DEF Readings, TypeOK
<1>4. r \in Runs /\ Claimable(runs[r], now)
  BY DEF Pickable
<1>5. /\ call'[w].op = "claim" /\ call'[w].run = r
      /\ call'[w].now = now /\ call'[w].lease = lease
      /\ call'[w].loaded = runs[r]
      /\ \A v \in Workers : v # w => call'[v] = call[v]
  BY <1>2 DEF NoCall, TypeOK
<1> QED BY <1>3, <1>4, <1>5

(* So every step of claim_next claims a run or leaves the table alone.     *)
LEMMA ClaimEffect ==
  ASSUME TypeOK, HalfClaims, NEW w \in Workers,
         LockAndClaim(w) \/ SelectForClaim(w) \/ FlushClaim(w)
  PROVE  /\ UNCHANGED <<clock, cancelling, accepted, acked>>
         /\ Claims(w) \/ UNCHANGED <<runs, claim>>
<1>1. CASE LockAndClaim(w)
  BY <1>1, LockAndClaimEffect DEF LockAndClaim
<1>2. CASE SelectForClaim(w)
  BY <1>2 DEF SelectForClaim
<1>3. CASE FlushClaim(w)
  BY <1>3, FlushClaimEffect DEF FlushClaim
<1> QED BY <1>1, <1>2, <1>3

LEMMA HeartbeatEffect ==
  ASSUME TypeOK, NEW w \in Workers, Heartbeat(w)
  PROVE  \E until \in Nat :
           /\ claim[w].run \in Runs
           /\ Effective(w)
           /\ runs[claim[w].run].status \in Active
           /\ runs[claim[w].run].expires > 0
           /\ until > 0
           /\ runs' = [runs EXCEPT ![claim[w].run] =
                         [@ EXCEPT !.expires = until]]
           /\ claim' = [claim EXCEPT ![w].until = until]
           /\ UNCHANGED <<clock, call, cancelling, accepted, acked>>
<1>1. PICK now \in ReadingsSinceClaim(w), lease \in LeaseTimes :
        /\ Fenced(w, now)
        /\ runs[claim[w].run].status \in Active
        /\ runs' = [runs EXCEPT ![claim[w].run] = HeartbeatRow(@, now + lease)]
        /\ claim' = [claim EXCEPT ![w].until = now + lease]
  BY DEF Heartbeat
<1>2. now \in Nat /\ now + lease \in Nat /\ now + lease > 0
  BY LeaseTimesAssumption DEF ReadingsSinceClaim, Readings, TypeOK
<1>3. claim[w].run \in Runs /\ Effective(w)
  BY <1>1 DEF Fenced, HoldsLease, Effective, TypeOK, Claim
<1>4. runs[claim[w].run].expires > 0
  BY <1>1, <1>2, <1>3 DEF Fenced, HoldsLease, TypeOK, Row
<1>5. UNCHANGED <<clock, call, cancelling, accepted, acked>>
  BY DEF Heartbeat
<1> QED BY <1>1, <1>2, <1>3, <1>4, <1>5 DEF HeartbeatRow

LEMMA TransitionAppliedEffect ==
  ASSUME TypeOK, TransitionsAllowed, NEW w \in Workers, TransitionApplied(w)
  PROVE  LET r == claim[w].run
             t == call[w].target
         IN  /\ r \in Runs
             /\ t \in Statuses
             /\ runs[r].status \in Active
             /\ MayTransition(runs[r].status, t)
             /\ Effective(w)
             /\ runs[r].expires > 0
             /\ runs' = [runs EXCEPT ![r] = TransitionedRow(@, t)]
             /\ accepted' = accepted \union
                  {[run |-> r, token |-> runs[r].token, target |-> t]}
             /\ UNCHANGED <<clock, claim, cancelling, acked>>
<1>1. /\ claim[w].run \in Runs
      /\ call[w].target \in Statuses
      /\ call[w].now \in Nat
      /\ runs[claim[w].run].expires \in Nat
  BY DEF TransitionApplied, TransitionMatches, Fenced, TypeOK, Claim, Call, Row
<1>2. Effective(w) /\ runs[claim[w].run].expires > 0
  BY <1>1 DEF TransitionApplied, TransitionMatches, Fenced, HoldsLease, Effective
<1>3. claim[w].token = runs[claim[w].run].token
  BY <1>2 DEF Effective
<1>4. /\ MayTransition(runs[claim[w].run].status, call[w].target)
      /\ runs[claim[w].run].status \in Statuses
  BY DEF TransitionApplied, TransitionMatches, TransitionsAllowed, TypeOK, Call
<1>5. runs[claim[w].run].status \in Active
  BY <1>4 DEF MayTransition, Transitions, Statuses
<1> QED BY <1>1, <1>2, <1>3, <1>4, <1>5 DEF TransitionApplied

-----------------------------------------------------------------------------
(* Each conjunct of the inductive invariant is preserved by every step.    *)

LEMMA StructureStep ==
  ASSUME TypeOK, HalfClaims, TransitionsAllowed, RowWellFormed, [Next]_vars
  PROVE  TransitionsAllowed' /\ RowWellFormed'
<1> USE DEF TransitionsAllowed, RowWellFormed, Leased
<1> USE OwnersAssumption
<1>1. CASE Tick \/ UNCHANGED vars
  BY <1>1 DEF Tick, vars
<1>2. ASSUME NEW r \in Runs, Create(r) \/ Delete(r)
      PROVE  TransitionsAllowed' /\ RowWellFormed'
  BY <1>2 DEF Create, Delete, NewRow, NoRow, DeletedRow, SettledRow, TypeOK,
              Active
<1>3. ASSUME NEW w \in Workers, LockAndClaim(w) \/ SelectForClaim(w) \/ FlushClaim(w)
      PROVE  TransitionsAllowed' /\ RowWellFormed'
  <2>1. TransitionsAllowed'
    <3>1. CASE SelectForClaim(w)
      BY <3>1, SelectForClaimEffect DEF TypeOK
    <3>2. CASE LockAndClaim(w) \/ FlushClaim(w)
      BY <3>2 DEF LockAndClaim, FlushClaim, NoCall, TypeOK
    <3> QED BY <1>3, <3>1, <3>2
  <2>2. CASE UNCHANGED <<runs, claim>>
    BY <2>1, <2>2
  <2>3. CASE Claims(w)
    <3>1. PICK r \in Runs, now \in Nat, until \in Nat :
            /\ now < until
            /\ OwnerOf[w] \in Owners
            /\ runs' = [runs EXCEPT ![r] =
                 [status |-> "preparing", owner |-> OwnerOf[w],
                  expires |-> until, token |-> runs[r].token + 1]]
      BY <2>3 DEF Claims
    <3> QED BY <2>1, <3>1 DEF TypeOK, Active
  <2> QED BY <1>3, <2>2, <2>3, ClaimEffect
<1>5. ASSUME NEW w \in Workers, Heartbeat(w)
      PROVE  TransitionsAllowed' /\ RowWellFormed'
  <2>1. PICK until \in Nat :
          /\ claim[w].run \in Runs
          /\ runs[claim[w].run].expires > 0
          /\ until > 0
          /\ runs' = [runs EXCEPT ![claim[w].run] =
                        [@ EXCEPT !.expires = until]]
          /\ call' = call
    BY <1>5, HeartbeatEffect
  <2> QED BY <2>1 DEF TypeOK, Row
<1>6. ASSUME NEW w \in Workers, NEW t \in Statuses, BeginTransition(w, t)
      PROVE  TransitionsAllowed' /\ RowWellFormed'
  BY <1>6 DEF BeginTransition, NoCall, TypeOK, Call
<1>7. ASSUME NEW w \in Workers, TransitionApplied(w)
      PROVE  TransitionsAllowed' /\ RowWellFormed'
  <2> DEFINE r == claim[w].run
             t == call[w].target
  <2>1. /\ r \in Runs /\ t \in Statuses
        /\ MayTransition(runs[r].status, t)
        /\ Effective(w)
        /\ runs[r].expires > 0
        /\ runs' = [runs EXCEPT ![r] = TransitionedRow(@, t)]
    BY <1>7, TransitionAppliedEffect
  <2>2. call' = [call EXCEPT ![w] = NoCall]
    BY <1>7 DEF TransitionApplied
  <2>3. TransitionsAllowed'
    BY <2>2 DEF TypeOK, NoCall
  <2>4. runs[r] \in Row /\ Leased(runs[r])
    BY <2>1, OwnerOfAssumption DEF TypeOK, Effective
  <2>5. CASE t \in Terminal
    BY <2>1, <2>3, <2>5
       DEF TransitionedRow, SettledRow, TypeOK, Terminal, Active
  <2>6. CASE t \notin Terminal
    <3>1. t \in Active \ {"queued"}
      BY <2>1, <2>4, <2>6
         DEF MayTransition, Transitions, Statuses, Active, Terminal
    <3>2. runs'[r] = [runs[r] EXCEPT !.status = t]
      BY <2>1, <2>6 DEF TransitionedRow, TypeOK
    <3>3. /\ runs'[r].status = t
          /\ runs'[r].owner = runs[r].owner
          /\ runs'[r].expires = runs[r].expires
      BY <3>2, <2>4 DEF Row
    <3>4. ASSUME NEW q \in Runs, q # r PROVE runs'[q] = runs[q]
      BY <2>1, <3>4 DEF TypeOK
    <3> QED BY <2>1, <2>3, <2>4, <3>1, <3>3, <3>4 DEF Leased
  <2> QED BY <2>5, <2>6
<1>8. ASSUME NEW w \in Workers, TransitionRejected(w)
      PROVE  TransitionsAllowed' /\ RowWellFormed'
  BY <1>8 DEF TransitionRejected, NoCall, TypeOK
<1>9. ASSUME NEW c \in Clients, NEW r \in Runs,
             CancelAgain(c, r) \/ BeginCancel(c, r)
      PROVE  TransitionsAllowed' /\ RowWellFormed'
  BY <1>9 DEF CancelAgain, BeginCancel
<1>10. ASSUME NEW c \in Clients, WriteCancel(c)
       PROVE  TransitionsAllowed' /\ RowWellFormed'
  BY <1>10 DEF WriteCancel, CancelledRow, SettledRow, TypeOK, Active
<1> QED BY <1>1, <1>2, <1>3, <1>5, <1>6, <1>7, <1>8, <1>9, <1>10
        DEF Next, WorkerStep, ClientStep

(* Between the two statements of a claim the row can only be deleted: the  *)
(* one worker is busy with the claim, and nobody cancels.                  *)
LEMMA HalfClaimsStep ==
  ASSUME Serial, TypeOK, HalfClaims, [Next]_vars
  PROVE  HalfClaims'
<1> USE DEF HalfClaims
<1>0. ASSUME NEW w \in Workers, call[w].op # "claim", ~RowLocking
      PROVE  \A v \in Workers : call[v].op # "claim"
  BY <1>0 DEF Serial
<1>1. CASE Tick
  BY <1>1 DEF Tick, TypeOK, Call
<1>2. CASE UNCHANGED vars
  BY <1>2 DEF vars
<1>3. ASSUME NEW r \in Runs, Create(r) PROVE HalfClaims'
  <2>1. ASSUME NEW w \in Workers, call[w].op = "claim" PROVE call[w].run # r
    BY <1>3, <2>1 DEF Create, Claimable, Active
  <2> QED BY <1>3, <2>1 DEF Create, TypeOK
<1>4. ASSUME NEW r \in Runs, Delete(r) PROVE HalfClaims'
  BY <1>4 DEF Delete, DeletedRow, SettledRow, TypeOK
<1>5. ASSUME NEW w \in Workers, LockAndClaim(w) PROVE HalfClaims'
  BY <1>5 DEF LockAndClaim
<1>6. ASSUME NEW w \in Workers, SelectForClaim(w) PROVE HalfClaims'
  <2>1. ~RowLocking /\ UNCHANGED <<runs, clock>>
    BY <1>6 DEF SelectForClaim
  <2> QED BY <1>6, <2>1, SelectForClaimEffect DEF Claimable
<1>7. ASSUME NEW w \in Workers, FlushClaim(w) PROVE HalfClaims'
  <2>1. ~RowLocking
    BY <1>7 DEF FlushClaim
  <2>2. \A v \in Workers : v = w
    BY <2>1 DEF Serial
  <2>3. call'[w].op = "none"
    BY <1>7 DEF FlushClaim, NoCall, TypeOK
  <2> QED BY <2>2, <2>3
<1>8. ASSUME NEW w \in Workers, Heartbeat(w) PROVE HalfClaims'
  BY <1>0, <1>8 DEF Heartbeat
<1>9. ASSUME NEW w \in Workers, NEW t \in Statuses, BeginTransition(w, t)
      PROVE  HalfClaims'
  BY <1>0, <1>9 DEF BeginTransition, NoCall, TypeOK
<1>10. ASSUME NEW w \in Workers, TransitionApplied(w) \/ TransitionRejected(w)
       PROVE  HalfClaims'
  BY <1>0, <1>10 DEF TransitionApplied, TransitionRejected, NoCall, TypeOK
<1>11. ASSUME NEW c \in Clients, ClientStep(c) PROVE HalfClaims'
  BY <1>11 DEF ClientStep, CancelAgain, BeginCancel, WriteCancel, Serial
<1> QED BY <1>1, <1>2, <1>3, <1>4, <1>5, <1>6, <1>7, <1>8, <1>9, <1>10, <1>11
        DEF Next, WorkerStep

LEMMA TokensStep ==
  ASSUME TypeOK, HalfClaims, TransitionsAllowed,
         TokensIssued, TokensUnique, [Next]_vars
  PROVE  TokensIssued' /\ TokensUnique'
<1> USE DEF TokensIssued, TokensUnique
<1>1. CASE Tick \/ UNCHANGED vars
  BY <1>1 DEF Tick, vars
<1>2. ASSUME NEW r \in Runs, Create(r) \/ Delete(r)
      PROVE  TokensIssued' /\ TokensUnique'
  BY <1>2 DEF Create, Delete, NewRow, NoRow, DeletedRow, SettledRow, TypeOK,
              Claim
<1>3. ASSUME NEW w \in Workers, LockAndClaim(w) \/ SelectForClaim(w) \/ FlushClaim(w)
      PROVE  TokensIssued' /\ TokensUnique'
  <2>0. /\ UNCHANGED <<clock, cancelling, accepted, acked>>
        /\ Claims(w) \/ UNCHANGED <<runs, claim>>
    BY <1>3, ClaimEffect
  <2>1. CASE UNCHANGED <<runs, claim>>
    BY <2>0, <2>1
  <2>2. CASE Claims(w)
    <3>1. PICK r \in Runs, now \in Nat, until \in Nat :
            /\ runs' = [runs EXCEPT ![r] =
                 [status |-> "preparing", owner |-> OwnerOf[w],
                  expires |-> until, token |-> runs[r].token + 1]]
            /\ claim' = [claim EXCEPT ![w] =
                 [run |-> r, token |-> runs[r].token + 1,
                  since |-> now, until |-> until]]
      BY <2>2 DEF Claims
    <3>2. /\ runs'[r].token = runs[r].token + 1
          /\ runs'[r].status # "absent"
          /\ runs[r].token \in Nat
          /\ \A q \in Runs : q # r => runs'[q] = runs[q]
      BY <3>1 DEF TypeOK, Row
    <3>3. /\ claim'[w].run = r /\ claim'[w].token = runs[r].token + 1
          /\ \A v \in Workers : v # w => claim'[v] = claim[v]
          /\ \A v \in Workers : /\ claim[v].run \in Runs \union {NoRun}
                                /\ claim[v].token \in Nat
      BY <3>1 DEF TypeOK, Claim
    <3> QED BY <3>2, <3>3
  <2> QED BY <2>0, <2>1, <2>2
<1>5. ASSUME NEW w \in Workers, Heartbeat(w)
      PROVE  TokensIssued' /\ TokensUnique'
  <2>1. PICK until \in Nat :
          /\ claim[w].run \in Runs
          /\ runs' = [runs EXCEPT ![claim[w].run] =
                        [@ EXCEPT !.expires = until]]
          /\ claim' = [claim EXCEPT ![w].until = until]
    BY <1>5, HeartbeatEffect
  <2>2. \A r \in Runs : /\ runs'[r].token = runs[r].token
                        /\ runs'[r].status = runs[r].status
    BY <2>1 DEF TypeOK, Row
  <2>3. \A v \in Workers : /\ claim'[v].run = claim[v].run
                           /\ claim'[v].token = claim[v].token
                           /\ claim[v].run \in Runs \union {NoRun}
    BY <2>1 DEF TypeOK, Claim
  <2> QED BY <2>2, <2>3
<1>6. ASSUME NEW w \in Workers, NEW t \in Statuses, BeginTransition(w, t)
      PROVE  TokensIssued' /\ TokensUnique'
  BY <1>6 DEF BeginTransition
<1>7. ASSUME NEW w \in Workers, TransitionApplied(w)
      PROVE  TokensIssued' /\ TokensUnique'
  <2> DEFINE r == claim[w].run
             t == call[w].target
  <2>1. /\ r \in Runs /\ t \in Statuses
        /\ runs' = [runs EXCEPT ![r] = TransitionedRow(@, t)]
        /\ claim' = claim
    BY <1>7, TransitionAppliedEffect
  <2>2. TransitionedRow(runs[r], t).token = runs[r].token
    BY <2>1 DEF TransitionedRow, SettledRow, TypeOK, Row
  <2>3. TransitionedRow(runs[r], t).status = t /\ t # "absent"
    BY <2>1 DEF TransitionedRow, SettledRow, TypeOK, Row, Statuses, Active,
                Terminal
  <2> HIDE DEF r, t
  <2>4. \A q \in Runs : /\ runs'[q].token = runs[q].token
                        /\ runs'[q].status = "absent" =>
                             runs[q].status = "absent"
    BY <2>1, <2>2, <2>3 DEF TypeOK
  <2> QED BY <2>1, <2>4 DEF TypeOK, Claim
<1>8. ASSUME NEW w \in Workers, TransitionRejected(w)
      PROVE  TokensIssued' /\ TokensUnique'
  BY <1>8 DEF TransitionRejected
<1>9. ASSUME NEW c \in Clients, NEW r \in Runs,
             CancelAgain(c, r) \/ BeginCancel(c, r)
      PROVE  TokensIssued' /\ TokensUnique'
  BY <1>9 DEF CancelAgain, BeginCancel
<1>10. ASSUME NEW c \in Clients, WriteCancel(c)
       PROVE  TokensIssued' /\ TokensUnique'
  BY <1>10 DEF WriteCancel, CancelledRow, SettledRow, TypeOK, Claim
<1> QED BY <1>1, <1>2, <1>3, <1>5, <1>6, <1>7, <1>8, <1>9, <1>10
        DEF Next, WorkerStep, ClientStep

(* A worker's knowledge of its lease follows the row, and only time, an    *)
(* outcome or the removal of the run ends a lease.                         *)
LEMMA ExpiryStep ==
  ASSUME TypeOK, HalfClaims, TransitionsAllowed, RowWellFormed,
         TokensIssued, TokensUnique, ExpiryKnown, NoEarlySteal, [Next]_vars
  PROVE  ExpiryKnown' /\ NoEarlySteal'
<1> USE DEF ExpiryKnown, NoEarlySteal, Effective
<1>0. \A v \in Workers : /\ claim[v].run \in Runs \union {NoRun}
                         /\ claim[v].token \in Nat
                         /\ claim[v].until \in Nat
                         /\ OwnerOf[v] # NoOwner
  BY OwnersAssumption, OwnerOfAssumption DEF TypeOK, Claim
<1>1. CASE Tick \/ UNCHANGED vars
  BY <1>1 DEF Tick, vars, TypeOK, Claim
<1>2. ASSUME NEW r \in Runs, Create(r)
      PROVE  ExpiryKnown' /\ NoEarlySteal'
  <2>1. runs[r].status = "absent" /\ runs[r].token = 0
    BY <1>2 DEF Create, TokensIssued
  <2>2. \A v \in Workers : claim[v].run # r
    BY <2>1, <1>0, RunsAssumption DEF TokensIssued, NoRun
  <2> QED BY <1>0, <1>2, <2>2 DEF Create, TypeOK
<1>3. ASSUME NEW r \in Runs, Delete(r)
      PROVE  ExpiryKnown' /\ NoEarlySteal'
  BY <1>0, <1>3 DEF Delete, DeletedRow, SettledRow, TypeOK, Active
<1>4. ASSUME NEW w \in Workers, LockAndClaim(w) \/ SelectForClaim(w) \/ FlushClaim(w)
      PROVE  ExpiryKnown' /\ NoEarlySteal'
  <2>0. /\ UNCHANGED <<clock, cancelling, accepted, acked>>
        /\ Claims(w) \/ UNCHANGED <<runs, claim>>
    BY <1>4, ClaimEffect
  <2>1. CASE UNCHANGED <<runs, claim>>
    BY <2>0, <2>1
  <2>2. CASE Claims(w)
    <3>1. PICK r \in Runs, now \in Nat, until \in Nat :
            /\ now <= clock
            /\ Claimable(runs[r], now)
            /\ runs' = [runs EXCEPT ![r] =
                 [status |-> "preparing", owner |-> OwnerOf[w],
                  expires |-> until, token |-> runs[r].token + 1]]
            /\ claim' = [claim EXCEPT ![w] =
                 [run |-> r, token |-> runs[r].token + 1,
                  since |-> now, until |-> until]]
            /\ clock' = clock
      BY <2>0, <2>2 DEF Claims
    <3>2. /\ runs'[r].token = runs[r].token + 1
          /\ runs'[r].owner = OwnerOf[w]
          /\ runs'[r].expires = until
          /\ runs[r].token \in Nat /\ runs[r].expires \in Nat /\ clock \in Nat
          /\ \A q \in Runs : q # r => runs'[q] = runs[q]
      BY <3>1 DEF TypeOK, Row
    <3>3. /\ claim'[w] = [run |-> r, token |-> runs[r].token + 1,
                          since |-> now, until |-> until]
          /\ \A v \in Workers : v # w => claim'[v] = claim[v]
      BY <3>1 DEF TypeOK
    <3>4. ASSUME NEW v \in Workers, v # w, claim[v].run = r
          PROVE  claim[v].token <= runs[r].token /\ ~(clock < claim[v].until)
      <4>1. claim[v].token <= runs[r].token
        BY <3>4, <1>0, <3>2, RunsAssumption DEF TokensIssued, NoRun
      <4>2. runs[r].status \in Active
        BY <3>1 DEF Claimable
      <4>3. ASSUME clock < claim[v].until PROVE FALSE
        <5>1. Effective(v)
          BY <3>4, <4>2, <4>3, RunsAssumption DEF NoRun
        <5>2. runs[r].status # "queued"
          BY <1>0, <3>4, <5>1 DEF RowWellFormed, Leased
        <5>3. claim[v].until = runs[r].expires
          BY <3>4, <4>2, <5>1
        <5>4. runs[r].expires <= now
          BY <3>1, <5>2 DEF Claimable
        <5> QED BY <1>0, <3>1, <3>2, <4>3, <5>3, <5>4
      <4> QED BY <4>1, <4>3
    <3> QED BY <1>0, <3>1, <3>2, <3>3, <3>4
  <2> QED BY <2>0, <2>1, <2>2
<1>6. ASSUME NEW w \in Workers, Heartbeat(w)
      PROVE  ExpiryKnown' /\ NoEarlySteal'
  <2>1. PICK until \in Nat :
          /\ claim[w].run \in Runs
          /\ Effective(w)
          /\ runs' = [runs EXCEPT ![claim[w].run] =
                        [@ EXCEPT !.expires = until]]
          /\ claim' = [claim EXCEPT ![w].until = until]
          /\ clock' = clock
    BY <1>6, HeartbeatEffect
  <2>2. \A r \in Runs : /\ runs'[r].token = runs[r].token
                        /\ runs'[r].owner = runs[r].owner
                        /\ runs'[r].status = runs[r].status
                        /\ r # claim[w].run => runs'[r] = runs[r]
    BY <2>1 DEF TypeOK, Row
  <2>3. runs'[claim[w].run].expires = until
    BY <2>1 DEF TypeOK, Row
  <2>4. /\ \A v \in Workers : v # w => claim'[v] = claim[v]
        /\ claim'[w].run = claim[w].run
        /\ claim'[w].token = claim[w].token
        /\ claim'[w].until = until
    BY <2>1 DEF TypeOK, Claim
  <2>5. \A v \in Workers :
          v # w /\ claim[v].run = claim[w].run => ~Effective(v)
    BY <2>1 DEF TokensUnique
  <2> HIDE DEF Effective
  <2>6. \A v \in Workers : Effective(v)' <=> Effective(v)
    BY <1>0, <2>1, <2>2, <2>4 DEF Effective
  <2> QED BY <1>0, <2>1, <2>2, <2>3, <2>4, <2>5, <2>6, RunsAssumption
          DEF Effective
<1>7. ASSUME NEW w \in Workers, NEW t \in Statuses, BeginTransition(w, t)
      PROVE  ExpiryKnown' /\ NoEarlySteal'
  BY <1>7 DEF BeginTransition
<1>8. ASSUME NEW w \in Workers, TransitionApplied(w)
      PROVE  ExpiryKnown' /\ NoEarlySteal'
  <2> DEFINE r == claim[w].run
             t == call[w].target
  <2>1. /\ r \in Runs
        /\ runs[r].status \in Active
        /\ runs' = [runs EXCEPT ![r] = TransitionedRow(@, t)]
        /\ UNCHANGED <<clock, claim>>
    BY <1>8, TransitionAppliedEffect
  <2>2. CASE t \in Terminal
    BY <1>0, <2>1, <2>2
       DEF TransitionedRow, SettledRow, TypeOK, Terminal, Active
  <2>3. CASE t \notin Terminal
    <3>1. \A q \in Runs : /\ runs'[q].token = runs[q].token
                          /\ runs'[q].owner = runs[q].owner
                          /\ runs'[q].expires = runs[q].expires
                          /\ q # r => runs'[q] = runs[q]
      BY <2>1, <2>3 DEF TransitionedRow, TypeOK, Row
    <3> HIDE DEF r, t
    <3> QED BY <1>0, <2>1, <3>1
  <2> QED BY <2>2, <2>3
<1>9. ASSUME NEW w \in Workers, TransitionRejected(w)
      PROVE  ExpiryKnown' /\ NoEarlySteal'
  BY <1>9 DEF TransitionRejected
<1>10. ASSUME NEW c \in Clients, NEW r \in Runs,
              CancelAgain(c, r) \/ BeginCancel(c, r)
       PROVE  ExpiryKnown' /\ NoEarlySteal'
  BY <1>10 DEF CancelAgain, BeginCancel
<1>11. ASSUME NEW c \in Clients, WriteCancel(c)
       PROVE  ExpiryKnown' /\ NoEarlySteal'
  BY <1>0, <1>11 DEF WriteCancel, CancelledRow, SettledRow, TypeOK, Active
<1> QED BY <1>1, <1>2, <1>3, <1>4, <1>6, <1>7, <1>8, <1>9, <1>10, <1>11
        DEF Next, WorkerStep, ClientStep

(* Outcomes are recorded once and stand.                                   *)
LEMMA VerdictStep ==
  ASSUME TypeOK, HalfClaims, TransitionsAllowed,
         AcksHold, OneVerdict, StagesReached, CompletedByOneAttempt,
         [Next]_vars
  PROVE  AcksHold' /\ OneVerdict' /\ StagesReached' /\ CompletedByOneAttempt'
<1> USE DEF AcksHold, OneVerdict, StagesReached, CompletedByOneAttempt
<1>0. /\ acked \subseteq Runs
      /\ \A a \in accepted : a.run \in Runs /\ a.target \in Statuses
  BY DEF TypeOK, Acceptance
<1>1. CASE Tick \/ UNCHANGED vars
  BY <1>1 DEF Tick, vars
<1>2. ASSUME NEW r \in Runs, Create(r) \/ Delete(r)
      PROVE  AcksHold' /\ OneVerdict' /\ StagesReached' /\ CompletedByOneAttempt'
  BY <1>0, <1>2 DEF Create, Delete, NewRow, NoRow, DeletedRow, SettledRow, TypeOK,
                    Terminal
<1>3. ASSUME NEW w \in Workers, LockAndClaim(w) \/ SelectForClaim(w) \/ FlushClaim(w)
      PROVE  AcksHold' /\ OneVerdict' /\ StagesReached' /\ CompletedByOneAttempt'
  <2>0. /\ UNCHANGED <<clock, cancelling, accepted, acked>>
        /\ Claims(w) \/ UNCHANGED <<runs, claim>>
    BY <1>3, ClaimEffect
  <2>1. CASE UNCHANGED <<runs, claim>>
    BY <2>0, <2>1
  <2>2. CASE Claims(w)
    <3>1. PICK r \in Runs, now \in Nat, until \in Nat :
            /\ Claimable(runs[r], now)
            /\ runs' = [runs EXCEPT ![r] =
                 [status |-> "preparing", owner |-> OwnerOf[w],
                  expires |-> until, token |-> runs[r].token + 1]]
            /\ UNCHANGED <<accepted, acked>>
      BY <2>0, <2>2 DEF Claims
    <3>2. /\ runs[r].status \in Active
          /\ runs'[r].status = "preparing"
          /\ \A q \in Runs : q # r => runs'[q] = runs[q]
      BY <3>1 DEF Claimable, TypeOK
    <3> QED BY <1>0, <3>1, <3>2 DEF Active, Terminal
  <2> QED BY <2>0, <2>1, <2>2
<1>5. ASSUME NEW w \in Workers, Heartbeat(w)
      PROVE  AcksHold' /\ OneVerdict' /\ StagesReached' /\ CompletedByOneAttempt'
  <2>1. PICK until \in Nat :
          /\ runs' = [runs EXCEPT ![claim[w].run] =
                        [@ EXCEPT !.expires = until]]
          /\ UNCHANGED <<accepted, acked>>
    BY <1>5, HeartbeatEffect
  <2>2. \A q \in Runs : /\ runs'[q].status = runs[q].status
                        /\ runs'[q].token = runs[q].token
    BY <2>1 DEF TypeOK, Row
  <2> QED BY <1>0, <2>1, <2>2
<1>6. ASSUME NEW w \in Workers, NEW t \in Statuses, BeginTransition(w, t)
      PROVE  AcksHold' /\ OneVerdict' /\ StagesReached' /\ CompletedByOneAttempt'
  BY <1>6 DEF BeginTransition
<1>7. ASSUME NEW w \in Workers, TransitionApplied(w)
      PROVE  AcksHold' /\ OneVerdict' /\ StagesReached' /\ CompletedByOneAttempt'
  <2> DEFINE r == claim[w].run
             t == call[w].target
             done == [run |-> r, token |-> runs[r].token, target |-> t]
  <2>1. /\ r \in Runs /\ t \in Statuses
        /\ runs[r].status \in Active
        /\ MayTransition(runs[r].status, t)
        /\ runs' = [runs EXCEPT ![r] = TransitionedRow(@, t)]
        /\ accepted' = accepted \union {done}
        /\ acked' = acked
    BY <1>7, TransitionAppliedEffect
  <2>2. /\ runs'[r].status = t
        /\ runs'[r].token = runs[r].token
        /\ \A q \in Runs : q # r => runs'[q] = runs[q]
    BY <2>1 DEF TransitionedRow, SettledRow, TypeOK, Row
  <2>3. /\ t = "evaluating" => runs[r].status = "running"
        /\ t = "completed" => runs[r].status = "evaluating"
    BY <2>1 DEF MayTransition, Transitions, Statuses, Active
  <2>4. AcksHold'
    BY <1>0, <2>1, <2>2 DEF Active
  <2>5. OneVerdict'
    <3>1. \A a \in accepted : a.run = r => a.target \notin Terminal
      BY <2>1 DEF Active, Terminal
    <3>2. done.run = r /\ done.target = t
      OBVIOUS
    <3> HIDE DEF r, t, done
    <3> QED BY <1>0, <2>1, <2>2, <3>1, <3>2
  <2>6. CompletedByOneAttempt'
    <3> SUFFICES ASSUME NEW a \in accepted', a.target = "completed",
                        NEW stage \in {"running", "evaluating"}
                 PROVE  [run |-> a.run, token |-> a.token, target |-> stage]
                          \in accepted'
      OBVIOUS
    <3>1. CASE a \in accepted
      BY <2>1, <3>1
    <3>2. CASE a = done
      <4>1. a.run = r /\ a.token = runs[r].token /\ t = "completed"
        BY <3>2
      <4>2. [run |-> r, token |-> runs[r].token, target |-> stage] \in accepted
        BY <2>1, <2>3, <4>1
      <4> HIDE DEF r
      <4> QED BY <2>1, <4>1, <4>2
    <3> QED BY <2>1, <3>1, <3>2
  <2>7. StagesReached'
    <3>1. ASSUME NEW q \in Runs, q # r PROVE runs'[q] = runs[q]
      BY <2>2, <3>1
    <3>2. /\ runs'[r].status \in {"running", "evaluating"} =>
               [run |-> r, token |-> runs[r].token, target |-> "running"]
                 \in accepted'
          /\ runs'[r].status = "evaluating" =>
               [run |-> r, token |-> runs[r].token, target |-> "evaluating"]
                 \in accepted'
      BY <2>1, <2>2, <2>3
    <3> QED BY <2>1, <2>2, <3>1, <3>2
  <2> QED BY <2>4, <2>5, <2>6, <2>7
<1>8. ASSUME NEW w \in Workers, TransitionRejected(w)
      PROVE  AcksHold' /\ OneVerdict' /\ StagesReached' /\ CompletedByOneAttempt'
  BY <1>8 DEF TransitionRejected
<1>9. ASSUME NEW c \in Clients, NEW r \in Runs,
             CancelAgain(c, r) \/ BeginCancel(c, r)
      PROVE  AcksHold' /\ OneVerdict' /\ StagesReached' /\ CompletedByOneAttempt'
  BY <1>9 DEF CancelAgain, BeginCancel
<1>10. ASSUME NEW c \in Clients, WriteCancel(c)
       PROVE  AcksHold' /\ OneVerdict' /\ StagesReached' /\ CompletedByOneAttempt'
  <2>1. CASE UNCHANGED <<runs, acked>>
    BY <1>10, <2>1 DEF WriteCancel
  <2>2. CASE /\ runs[cancelling[c]].status \in Active
             /\ runs' = [runs EXCEPT ![cancelling[c]] = CancelledRow(@)]
             /\ acked' = acked \union {cancelling[c]}
    <3>1. cancelling[c] \in Runs /\ accepted' = accepted
      BY <1>10 DEF WriteCancel, TypeOK
    <3>2. /\ runs'[cancelling[c]].status = "cancelled"
          /\ \A q \in Runs : q # cancelling[c] => runs'[q] = runs[q]
      BY <2>2, <3>1 DEF CancelledRow, SettledRow, TypeOK
    <3> QED BY <1>0, <2>2, <3>1, <3>2 DEF Active, Terminal
  <2> QED BY <1>10, <2>1, <2>2 DEF WriteCancel
<1> QED BY <1>1, <1>2, <1>3, <1>5, <1>6, <1>7, <1>8, <1>9, <1>10
        DEF Next, WorkerStep, ClientStep

-----------------------------------------------------------------------------

LEMMA InvariantInitially == Init => IInv
BY RunsAssumption, TypeCorrectInitially
   DEF Init, IInv, HalfClaims, TransitionsAllowed, RowWellFormed, TokensIssued,
       TokensUnique, ExpiryKnown, NoEarlySteal, AcksHold, OneVerdict,
       StagesReached, CompletedByOneAttempt, Effective, Leased, NoRow, NoClaim,
       NoCall, NoRun, Active

(* With row locks (PostgreSQL) every invariant holds in every reachable    *)
(* state, whatever workers do with claims they once obtained and however   *)
(* their calls interleave with cancellations and deletions; without them   *)
(* (SQLite) it does as long as one worker has the table to itself but for  *)
(* insertions and deletions.                                               *)
THEOREM InvariantHolds ==
  ASSUME Serial
  PROVE  Spec => []IInv
<1>1. IInv /\ [Next]_vars => IInv'
  BY TypeStep, StructureStep, HalfClaimsStep, TokensStep, ExpiryStep, VerdictStep DEF IInv
<1> QED BY <1>1, InvariantInitially, PTL DEF Spec

(* At most one worker passes the fence of heartbeat and transition for a   *)
(* run, also when every worker presents the same owner string.             *)
THEOREM OneHolderOfARun ==
  ASSUME Serial
  PROVE  Spec => []SingleHolder
<1>1. IInv => SingleHolder
  BY DEF IInv, SingleHolder, TokensUnique, Effective
<1> QED BY <1>1, InvariantHolds, PTL

(* A reclaim waits for the lease to run out.                               *)
THEOREM LeasesAreHonoured ==
  ASSUME Serial
  PROVE  Spec => []NoEarlySteal
<1>1. IInv => NoEarlySteal
  BY DEF IInv
<1> QED BY <1>1, InvariantHolds, PTL

(* A cancellation reported to a client is never undone.                    *)
THEOREM CancellationsStand ==
  ASSUME Serial
  PROVE  Spec => []AcksHold
<1>1. IInv => AcksHold
  BY DEF IInv
<1> QED BY <1>1, InvariantHolds, PTL

(* Cancel and complete never both win, nor do two workers.                 *)
THEOREM OutcomesAreFinal ==
  ASSUME Serial
  PROVE  Spec => []OneVerdict
<1>1. IInv => OneVerdict
  BY DEF IInv
<1> QED BY <1>1, InvariantHolds, PTL

(* No row is ever stored that EvaluationRun refuses to represent, and no   *)
(* run in progress is without a lease that can expire.                     *)
THEOREM RowsStayReadable ==
  ASSUME Serial
  PROVE  Spec => []RowWellFormed
<1>1. IInv => RowWellFormed
  BY DEF IInv
<1> QED BY <1>1, InvariantHolds, PTL

(* A completed run went through every stage under one fencing token.       *)
THEOREM CompletionIsOneAttempt ==
  ASSUME Serial
  PROVE  Spec => []CompletedByOneAttempt
<1>1. IInv => CompletedByOneAttempt
  BY DEF IInv
<1> QED BY <1>1, InvariantHolds, PTL

-----------------------------------------------------------------------------
(* The refinement of RunLifecycle.                                         *)

Phases   == [r \in Runs |-> PhaseOf(runs[r])]
Attempts == [r \in Runs |-> runs[r].token]

(* A step that rewrites one row changes one phase and one attempt number.  *)
LEMMA OneRowStep ==
  ASSUME TypeOK, NEW r \in Runs, NEW row,
         runs' = [runs EXCEPT ![r] = row]
  PROVE  /\ Phases' = [Phases EXCEPT ![r] = PhaseOf(row)]
         /\ Attempts' = [Attempts EXCEPT ![r] = row.token]
<1>1. runs'[r] = row /\ \A q \in Runs : q # r => runs'[q] = runs[q]
  BY DEF TypeOK
<1>2. \A q \in Runs : /\ Phases'[q] = PhaseOf(runs'[q])
                      /\ Attempts'[q] = runs'[q].token
  BY DEF Phases, Attempts, PhaseOf
<1>3. \A q \in Runs : Phases[q] = PhaseOf(runs[q]) /\ Attempts[q] = runs[q].token
  BY DEF Phases, Attempts
<1>4. /\ Phases = [q \in Runs |-> Phases[q]]
      /\ Attempts = [q \in Runs |-> Attempts[q]]
      /\ Phases' = [q \in Runs |-> Phases'[q]]
      /\ Attempts' = [q \in Runs |-> Attempts'[q]]
  BY DEF Phases, Attempts
<1>5. Phases' = [Phases EXCEPT ![r] = PhaseOf(row)]
  BY <1>1, <1>2, <1>3, <1>4
<1>6. Attempts' = [Attempts EXCEPT ![r] = row.token]
  BY <1>1, <1>2, <1>3, <1>4
<1> QED BY <1>5, <1>6

LEMMA StepRefines ==
  ASSUME IInv, [Next]_vars
  PROVE  [Lifecycle!Next]_(Lifecycle!vars)
<1> DEFINE Goal == [Lifecycle!Next]_(Lifecycle!vars)
<1>0. /\ TypeOK /\ HalfClaims /\ TransitionsAllowed /\ RowWellFormed
      /\ TokensIssued
  BY DEF IInv
<1>s. ASSUME UNCHANGED runs PROVE Goal
  BY <1>s DEF Lifecycle!vars
<1>1. CASE Tick \/ UNCHANGED vars
  BY <1>1, <1>s DEF Tick, vars
<1>2. ASSUME NEW r \in Runs, Create(r) PROVE Goal
  <2>1. /\ Phases' = [Phases EXCEPT ![r] = PhaseOf(NewRow)]
        /\ Attempts' = [Attempts EXCEPT ![r] = NewRow.token]
    BY <1>0, <1>2, OneRowStep DEF Create
  <2>2. Phases[r] = "unknown" /\ Attempts[r] = 0 /\ PhaseOf(NewRow) = "waiting"
    BY <1>0, <1>2 DEF Create, Phases, Attempts, PhaseOf, NewRow, NoRow, TokensIssued
  <2>3. NewRow.token = 0
    BY DEF NewRow, NoRow
  <2>4. Lifecycle!Submit(r)
    BY <2>1, <2>2, <2>3 DEF Lifecycle!Submit, Phases, Attempts
  <2> QED BY <2>4 DEF Lifecycle!Next
<1>3. ASSUME NEW r \in Runs, Delete(r) PROVE Goal
  <2>1. /\ Phases' = [Phases EXCEPT ![r] = PhaseOf(DeletedRow(runs[r]))]
        /\ Attempts' = [Attempts EXCEPT ![r] = DeletedRow(runs[r]).token]
    BY <1>0, <1>3, OneRowStep DEF Delete
  <2>2. /\ PhaseOf(DeletedRow(runs[r])) = "removed"
        /\ DeletedRow(runs[r]).token = Attempts[r]
    BY DEF DeletedRow, SettledRow, PhaseOf, Attempts
  <2>3. Phases[r] \in Lifecycle!Open \union Lifecycle!Settled
    BY <1>3 DEF Delete, Exists, Statuses, Active, Terminal, Phases, PhaseOf,
                Lifecycle!Open, Lifecycle!Settled
  <2>4. Lifecycle!Remove(r)
    BY <2>1, <2>2, <2>3 DEF Lifecycle!Remove, Phases, Attempts
  <2> QED BY <2>4 DEF Lifecycle!Next
<1>4. ASSUME NEW w \in Workers, Claims(w) PROVE Goal
  <2>1. PICK r \in Runs, now \in Nat, until \in Nat :
          /\ Claimable(runs[r], now)
          /\ runs' = [runs EXCEPT ![r] =
               [status |-> "preparing", owner |-> OwnerOf[w],
                expires |-> until, token |-> runs[r].token + 1]]
    BY <1>4 DEF Claims
  <2>2. /\ Phases' = [Phases EXCEPT ![r] = "working"]
        /\ Attempts' = [Attempts EXCEPT ![r] = Attempts[r] + 1]
    <3> DEFINE row == [status |-> "preparing", owner |-> OwnerOf[w],
                       expires |-> until, token |-> runs[r].token + 1]
    <3>1. PhaseOf(row) = "working" /\ row.token = Attempts[r] + 1
      BY DEF PhaseOf, Attempts
    <3>2. runs' = [runs EXCEPT ![r] = row]
      BY <2>1
    <3> HIDE DEF row
    <3>3. /\ Phases' = [Phases EXCEPT ![r] = PhaseOf(row)]
          /\ Attempts' = [Attempts EXCEPT ![r] = row.token]
      BY <1>0, <3>2, OneRowStep
    <3> QED BY <3>1, <3>3
  <2>3. Phases[r] \in Lifecycle!Open
    BY <2>1 DEF Claimable, Active, Phases, PhaseOf, Lifecycle!Open
  <2>4. Lifecycle!StartAttempt(r)
    BY <2>2, <2>3 DEF Lifecycle!StartAttempt, Phases, Attempts
  <2> QED BY <2>4 DEF Lifecycle!Next
<1>5. ASSUME NEW w \in Workers,
             LockAndClaim(w) \/ SelectForClaim(w) \/ FlushClaim(w)
      PROVE  Goal
  BY <1>0, <1>4, <1>5, <1>s, ClaimEffect
<1>6. ASSUME NEW w \in Workers, Heartbeat(w) PROVE Goal
  <2>1. PICK until \in Nat :
          runs' = [runs EXCEPT ![claim[w].run] = [@ EXCEPT !.expires = until]]
    BY <1>0, <1>6, HeartbeatEffect
  <2>2. \A r \in Runs : /\ runs'[r].status = runs[r].status
                        /\ runs'[r].token = runs[r].token
    BY <1>0, <2>1 DEF TypeOK, Row
  <2>3. \A r \in Runs : PhaseOf(runs'[r]) = PhaseOf(runs[r])
    BY <2>2 DEF PhaseOf
  <2> QED BY <2>2, <2>3 DEF Lifecycle!vars
<1>7. ASSUME NEW w \in Workers, NEW t \in Statuses, BeginTransition(w, t)
      PROVE  Goal
  BY <1>7, <1>s DEF BeginTransition
<1>8. ASSUME NEW w \in Workers, TransitionApplied(w) PROVE Goal
  <2> DEFINE r == claim[w].run
             t == call[w].target
             row == TransitionedRow(runs[r], t)
  <2>1. /\ r \in Runs /\ t \in Statuses
        /\ runs[r].status \in Active
        /\ MayTransition(runs[r].status, t)
        /\ Effective(w)
        /\ runs' = [runs EXCEPT ![r] = row]
    BY <1>0, <1>8, TransitionAppliedEffect
  <2>2. row.status = t /\ row.token = Attempts[r]
    BY <1>0, <2>1 DEF TransitionedRow, SettledRow, TypeOK, Row, Attempts
  <2>3. runs[r].status # "queued"
    BY <1>0, <2>1, OwnersAssumption, OwnerOfAssumption
       DEF RowWellFormed, Leased, Effective
  <2>4. Phases[r] = "working"
    BY <2>1, <2>3 DEF Active, Phases, PhaseOf
  <2>5. /\ Phases' = [Phases EXCEPT ![r] = PhaseOf(row)]
        /\ Attempts' = Attempts
    <3>1. /\ Phases' = [Phases EXCEPT ![r] = PhaseOf(row)]
          /\ Attempts' = [Attempts EXCEPT ![r] = row.token]
      BY <1>0, <2>1, OneRowStep
    <3>2. [Attempts EXCEPT ![r] = row.token] = Attempts
      BY <2>2 DEF Attempts
    <3> QED BY <3>1, <3>2
  <2>6. CASE t \in Terminal
    <3>1. PhaseOf(row) = t /\ t \in Lifecycle!Settled
      BY <2>2, <2>6 DEF PhaseOf, Terminal, Lifecycle!Settled
    <3>2. Lifecycle!Settle(r, t)
      BY <2>4, <2>5, <3>1 DEF Lifecycle!Settle, Phases, Attempts
    <3> QED BY <2>1, <3>1, <3>2 DEF Lifecycle!Next
  <2>7. CASE t \notin Terminal
    <3>1. PhaseOf(row) = "working"
      BY <2>1, <2>2, <2>3, <2>7
         DEF MayTransition, Transitions, Statuses, Active, Terminal, PhaseOf
    <3>2. Phases' = Phases
      BY <2>4, <2>5, <3>1 DEF Phases
    <3> QED BY <2>5, <3>2 DEF Lifecycle!vars, Phases, Attempts
  <2> QED BY <2>6, <2>7
<1>9. ASSUME NEW w \in Workers, TransitionRejected(w) PROVE Goal
  BY <1>9, <1>s DEF TransitionRejected
<1>10. ASSUME NEW c \in Clients, NEW r \in Runs,
              CancelAgain(c, r) \/ BeginCancel(c, r)
       PROVE  Goal
  BY <1>10, <1>s DEF CancelAgain, BeginCancel
<1>11. ASSUME NEW c \in Clients, WriteCancel(c) PROVE Goal
  <2> DEFINE r == cancelling[c]
             row == CancelledRow(runs[r])
  <2>1. CASE UNCHANGED runs
    BY <2>1, <1>s
  <2>2. CASE /\ runs[r].status \in Active
             /\ runs' = [runs EXCEPT ![r] = row]
    <3>1. r \in Runs
      BY <1>0, <1>11 DEF WriteCancel, TypeOK
    <3>2. PhaseOf(row) = "cancelled" /\ row.token = Attempts[r]
      BY <3>1 DEF CancelledRow, SettledRow, PhaseOf, Attempts
    <3>3. /\ Phases' = [Phases EXCEPT ![r] = "cancelled"]
          /\ Attempts' = Attempts
      <4>1. /\ Phases' = [Phases EXCEPT ![r] = "cancelled"]
            /\ Attempts' = [Attempts EXCEPT ![r] = row.token]
        BY <1>0, <2>2, <3>1, <3>2, OneRowStep
      <4>2. [Attempts EXCEPT ![r] = row.token] = Attempts
        BY <3>2 DEF Attempts
      <4> QED BY <4>1, <4>2
    <3>4. Phases[r] \in {"waiting", "working"}
      BY <2>2, <3>1 DEF Active, Phases, PhaseOf
    <3>5. Lifecycle!Settle(r, "cancelled")
      BY <3>3, <3>4 DEF Lifecycle!Settle, Phases, Attempts
    <3> QED BY <3>1, <3>5 DEF Lifecycle!Next, Lifecycle!Settled
  <2> QED BY <1>11, <2>1, <2>2 DEF WriteCancel
<1> QED BY <1>1, <1>2, <1>3, <1>4, <1>5, <1>6, <1>7, <1>8, <1>9, <1>10, <1>11
        DEF Next, WorkerStep, ClientStep

(* The run table implements the job queue's promise, on either database.   *)
THEOREM Refinement ==
  ASSUME Serial
  PROVE  Spec => ImplementsLifecycle
<1>1. Init => Lifecycle!Init
  BY DEF Init, Lifecycle!Init, PhaseOf, NoRow
<1>2. IInv /\ [Next]_vars => [Lifecycle!Next]_(Lifecycle!vars)
  BY StepRefines
<1> QED BY <1>1, <1>2, InvariantHolds, PTL
        DEF Spec, ImplementsLifecycle, Lifecycle!Spec

=============================================================================
