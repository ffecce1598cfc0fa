--------------------------- MODULE RunWorkerProofs ---------------------------
(***************************************************************************)
(* Theorems about RunWorker, for every set of runs, workers, readers and   *)
(* formats, every assignment of owner strings and any number of crashes,   *)
(* errors and overruns.  What is said of reports and files assumes that    *)
(* the last get_run never raises.                                          *)
(***************************************************************************)
EXTENDS RunWorker, TLAPS

Busy(w) == job[w].pc # "idle"

(* What a claim makes of a row, and of the locals of its worker.           *)
Begun(row, w) == [status |-> "running", owner |-> OwnerOf[w], expires |-> Pending,
                  token |-> row.token + 1]
NewJob(r, row) == [pc |-> "working", run |-> r, token |-> row.token + 1, keys |-> {}]

LEMMA ClaimEffect ==
  ASSUME TypeOK, NEW w \in Workers, Claim(w)
  PROVE  \E r \in Runs :
           /\ Claimable(runs[r], Due)
           /\ runs' = [runs EXCEPT ![r] = Begun(runs[r], w)]
           /\ job' = [job EXCEPT ![w] = NewJob(r, runs[r])]
<1>1. PICK r \in Runs :
        LET row == TransitionedRow(ClaimedRow(runs[r], OwnerOf[w], Pending), "running")
        IN /\ NextRun(r)
           /\ runs' = [runs EXCEPT ![r] = row]
           /\ job' = [job EXCEPT ![w] =
                [pc |-> "working", run |-> r, token |-> row.token, keys |-> {}]]
  BY DEF Claim
<1>2. TransitionedRow(ClaimedRow(runs[r], OwnerOf[w], Pending), "running") = Begun(runs[r], w)
  BY DEF TransitionedRow, ClaimedRow, Begun, Terminal
<1>3. Begun(runs[r], w).token = runs[r].token + 1 BY DEF Begun
<1>. QED BY <1>1, <1>2, <1>3 DEF NextRun, NewJob

(* The row of a permitted transition, and that nothing but the stage       *)
(* changes until the last one.                                             *)
LEMMA TransitionedRowIs ==
  ASSUME NEW row \in Row, NEW target \in Statuses
  PROVE  LET new == TransitionedRow(row, target)
         IN /\ new \in Row
            /\ new.status = target /\ new.token = row.token
            /\ new.expires \in {0, row.expires}
            /\ target \notin Terminal => new.owner = row.owner /\ new.expires = row.expires
BY DEF TransitionedRow, SettledRow, Row

LEMMA SettledRowIs ==
  ASSUME NEW row \in Row, NEW status \in Statuses \union {"deleted"}
  PROVE  LET new == SettledRow(row, status)
         IN new \in Row /\ new.status = status /\ new.token = row.token /\ new.expires = 0
BY DEF SettledRow, Row

(* How a worker with a claim may rewrite the row of its run.               *)
Moved(w, target) ==
  /\ Permitted(w, target)
  /\ runs' = [runs EXCEPT ![job[w].run] = TransitionedRow(@, target)]

(* The locals of a worker after a step of its own.                         *)
Locals(w, pc, keys) ==
  job' = [job EXCEPT ![w] = [pc |-> pc, run |-> job[w].run,
                             token |-> job[w].token, keys |-> keys]]

LEMMA JobFields ==
  ASSUME TypeOK, NEW w \in Workers
  PROVE  /\ job[w] \in Job
         /\ \A pc : [job EXCEPT ![w].pc = pc] =
              [job EXCEPT ![w] = [pc |-> pc, run |-> job[w].run,
                                  token |-> job[w].token, keys |-> job[w].keys]]
         /\ \A keys : [job EXCEPT ![w].keys = keys] =
              [job EXCEPT ![w] = [pc |-> job[w].pc, run |-> job[w].run,
                                  token |-> job[w].token, keys |-> keys]]
<1>1. job[w] \in Job BY DEF TypeOK
<1>2. ASSUME NEW pc
      PROVE  [job EXCEPT ![w].pc = pc] =
              [job EXCEPT ![w] = [pc |-> pc, run |-> job[w].run,
                                  token |-> job[w].token, keys |-> job[w].keys]]
  <2>1. [job[w] EXCEPT !.pc = pc] = [pc |-> pc, run |-> job[w].run,
                                  token |-> job[w].token, keys |-> job[w].keys]
    BY <1>1 DEF Job
  <2>. QED BY <2>1
<1>3. ASSUME NEW keys
      PROVE  [job EXCEPT ![w].keys = keys] =
              [job EXCEPT ![w] = [pc |-> job[w].pc, run |-> job[w].run,
                                  token |-> job[w].token, keys |-> keys]]
  <2>1. [job[w] EXCEPT !.keys = keys] = [pc |-> job[w].pc, run |-> job[w].run,
                                  token |-> job[w].token, keys |-> keys]
    BY <1>1 DEF Job
  <2>. QED BY <2>1
<1>. QED BY <1>1, <1>2, <1>3

LEMMA LocalsTyped ==
  ASSUME TypeOK, NEW w \in Workers, NEW pc \in {"idle", "working", "storing", "returning", "cleanup"},
         NEW keys \in SUBSET Formats, Locals(w, pc, keys)
  PROVE  job' \in [Workers -> Job]
<1>1. job[w] \in Job BY JobFields
<1>2. [pc |-> pc, run |-> job[w].run, token |-> job[w].token, keys |-> keys] \in Job
  BY <1>1 DEF Job
<1>. QED BY <1>2 DEF Locals, TypeOK

LEMMA NoJobTyped ==
  ASSUME TypeOK, NEW w \in Workers, job' = [job EXCEPT ![w] = NoJob]
  PROVE  job' \in [Workers -> Job]
<1>1. NoJob \in Job BY DEF NoJob, Job
<1>. QED BY <1>1 DEF TypeOK

LEMMA RowTyped ==
  ASSUME TypeOK, NEW r \in Runs, NEW row \in Row, row.expires \in Expiries,
         runs' = [runs EXCEPT ![r] = row]
  PROVE  runs' \in [Runs -> Row] /\ \A q \in Runs : runs'[q].expires \in Expiries
BY DEF TypeOK

LEMMA MoveTyped ==
  ASSUME TypeOK, NEW w \in Workers, NEW target \in Statuses, job[w].run \in Runs,
         runs' = [runs EXCEPT ![job[w].run] = TransitionedRow(@, target)]
  PROVE  runs' \in [Runs -> Row] /\ \A q \in Runs : runs'[q].expires \in Expiries
<1>. DEFINE row == TransitionedRow(runs[job[w].run], target)
<1>1. runs[job[w].run] \in Row /\ runs[job[w].run].expires \in Expiries BY DEF TypeOK
<1>2. row \in Row /\ row.expires \in Expiries
  BY <1>1, TransitionedRowIs DEF Expiries
<1>3. runs' = [runs EXCEPT ![job[w].run] = row] OBVIOUS
<1>. HIDE DEF row
<1>. QED BY <1>2, <1>3, RowTyped

LEMMA KeysTyped ==
  ASSUME TypeOK, NEW w \in Workers, job[w].run \in Runs
  PROVE  KeysOf(w) \subseteq Key /\ \A format \in Formats : KeyOf(w, format) \in Key
BY JobFields DEF KeysOf, KeyOf, Key, Job

-----------------------------------------------------------------------------
(* Attempts: a worker with a claim has a run, and a token that the row of  *)
(* the run has reached; no two have the same.  A waiting row is unclaimed. *)
(* A worker on the latest attempt of an active run presents its owner, and *)
(* one that has completed its run is not active.                           *)
Started(w) ==
  /\ ~Busy(w) => job[w] = NoJob
  /\ Busy(w) => /\ job[w].run \in Runs
               /\ 1 <= job[w].token /\ job[w].token <= runs[job[w].run].token
               /\ runs[job[w].run].status # "absent"

AttemptsApart ==
  \A v, w \in Workers :
    v # w /\ Busy(v) /\ Busy(w) /\ job[v].run = job[w].run => job[v].token # job[w].token

Unclaimed(r) == runs[r].status \in {"absent", "queued"} => runs[r].token = 0

InHand(w) ==
  Busy(w) /\ job[w].token = runs[job[w].run].token /\ runs[job[w].run].status \in Active
    => /\ runs[job[w].run].owner = OwnerOf[w]
       /\ job[w].pc # "returning"

(* Each further attempt is paid for: a run in progress that can be claimed *)
(* again, or that nobody works on, has not more attempts than troubles.    *)
Paid(r) ==
  /\ runs[r].token <= 1 + Troubles
  /\ /\ runs[r].status \in Active \ {"queued"}
     /\ runs[r].expires # Pending \/ WorkingOn(r) = {}
     => runs[r].token <= Troubles

Attempts == /\ \A w \in Workers : Started(w) /\ InHand(w)
            /\ AttemptsApart
            /\ \A r \in Runs : Unclaimed(r) /\ Paid(r)

LEMMA TypeCorrectInitially == Init => TypeOK
BY RunsAssumption
   DEF Init, TypeOK, NoRow, Row, NoJob, Job, NoRun, Expiries, Statuses, Active, Terminal

LEMMA TypeStep ==
  ASSUME TypeOK, \A w \in Workers : Started(w), [Next]_vars
  PROVE  TypeOK'
<1>0. \A r \in Runs : runs[r] \in Row /\ runs[r].expires \in Expiries
  BY DEF TypeOK
<1>1. ASSUME NEW r \in Runs, Create(r) PROVE TypeOK'
  <2>1. NewRow \in Row /\ NewRow.expires \in Expiries
    BY DEF NewRow, NoRow, Row, Expiries, Statuses, Active, Terminal
  <2>. QED BY <1>1, <2>1, RowTyped DEF Create, TypeOK
<1>2. ASSUME NEW r \in Runs, Cancel(r) PROVE TypeOK'
  <2>1. CancelledRow(runs[r]) \in Row /\ CancelledRow(runs[r]).expires \in Expiries
    BY <1>0, SettledRowIs DEF CancelledRow, Expiries, Statuses, Terminal
  <2>. QED BY <1>2, <2>1, RowTyped DEF Cancel, TypeOK
<1>3. ASSUME NEW r \in Runs, Delete(r) PROVE TypeOK'
  <2>1. DeletedRow(runs[r]) \in Row /\ DeletedRow(runs[r]).expires \in Expiries
    BY <1>0, SettledRowIs DEF DeletedRow, Expiries
  <2>. QED BY <1>3, <2>1, RowTyped DEF Delete, TypeOK
<1>4. ASSUME NEW r \in Runs, ExpireAbandoned(r) \/ Overrun(r) PROVE TypeOK'
  <2>1. [runs[r] EXCEPT !.expires = Due] \in Row BY <1>0 DEF Row, Due
  <2>2. [runs[r] EXCEPT !.expires = Due].expires \in Expiries
    BY <1>0 DEF Row, Expiries, Due
  <2>3. runs' = [runs EXCEPT ![r] = [runs[r] EXCEPT !.expires = Due]]
    BY <1>4 DEF ExpireAbandoned, Overrun, LeaseRunsOut
  <2>4. runs' \in [Runs -> Row] /\ \A q \in Runs : runs'[q].expires \in Expiries
    BY <2>1, <2>2, <2>3, RowTyped
  <2>. QED BY <1>4, <2>4 DEF ExpireAbandoned, Overrun, LeaseRunsOut, Strike, TypeOK, Trouble
<1>5. ASSUME NEW c \in Readers, NEW k \in reports, LookUpReport(c, k) PROVE TypeOK'
  BY <1>5 DEF LookUpReport, TypeOK
<1>6. ASSUME NEW c \in Readers, ReadFile(c) PROVE TypeOK'
  BY <1>6 DEF ReadFile, TypeOK
<1>7. ASSUME NEW w \in Workers, Claim(w) PROVE TypeOK'
  <2>1. PICK r \in Runs :
          /\ runs' = [runs EXCEPT ![r] = Begun(runs[r], w)]
          /\ job' = [job EXCEPT ![w] = NewJob(r, runs[r])]
    BY <1>7, ClaimEffect
  <2>2. Begun(runs[r], w) \in Row /\ Begun(runs[r], w).expires \in Expiries
    BY <1>0, OwnerOfAssumption DEF Begun, Row, Expiries, Pending, Statuses, Active
  <2>3. NewJob(r, runs[r]) \in Job
    BY <1>0 DEF NewJob, Job, Row
  <2>. QED BY <1>7, <2>1, <2>2, <2>3, RowTyped DEF Claim, TypeOK
<1>8. ASSUME NEW w \in Workers, Proceed(w) PROVE TypeOK'
  <2>0. job[w].run \in Runs /\ job[w] \in Job
    BY <1>8, JobFields DEF Proceed, Evaluate, Put, Complete, ReadBack, DeleteFile, MarkFailed,
       Started, Busy
  <2>1. CASE Evaluate(w)
    <3>1. \/ Locals(w, "storing", job[w].keys) \/ Locals(w, "cleanup", job[w].keys)
      BY <2>1, JobFields DEF Evaluate, Locals
    <3>2. job' \in [Workers -> Job] BY <2>0, <3>1, LocalsTyped DEF Job
    <3>3. runs' \in [Runs -> Row] /\ \A q \in Runs : runs'[q].expires \in Expiries
      BY <2>0, <2>1, MoveTyped DEF Evaluate, TypeOK, Statuses, Active
    <3>. QED BY <2>1, <3>2, <3>3 DEF Evaluate, TypeOK
  <2>2. CASE Put(w)
    <3>1. PICK format \in Formats \ job[w].keys :
            /\ files' = files \union {KeyOf(w, format)}
            /\ Locals(w, job[w].pc, job[w].keys \union {format})
      BY <2>2, JobFields DEF Put, Locals
    <3>2. job' \in [Workers -> Job] BY <2>0, <3>1, LocalsTyped DEF Job
    <3>. QED BY <2>0, <2>2, <3>1, <3>2, KeysTyped DEF Put, TypeOK
  <2>3. CASE Complete(w)
    <3>1. \/ Locals(w, "returning", job[w].keys) \/ Locals(w, "cleanup", job[w].keys)
      BY <2>3, JobFields DEF Complete, Locals
    <3>2. job' \in [Workers -> Job] BY <2>0, <3>1, LocalsTyped DEF Job
    <3>3. runs' \in [Runs -> Row] /\ \A q \in Runs : runs'[q].expires \in Expiries
      BY <2>0, <2>3, MoveTyped DEF Complete, TypeOK, Statuses, Terminal
    <3>4. reports' \subseteq Key
      BY <2>0, <2>3, KeysTyped DEF Complete, TypeOK
    <3>. QED BY <2>3, <3>2, <3>3, <3>4 DEF Complete, TypeOK
  <2>4. CASE ReadBack(w)
    BY <2>4, NoJobTyped DEF ReadBack, TypeOK
  <2>5. CASE DeleteFile(w)
    <3>1. PICK format \in job[w].keys :
            /\ files' = files \ {KeyOf(w, format)}
            /\ Locals(w, job[w].pc, job[w].keys \ {format})
      BY <2>5, JobFields DEF DeleteFile, Locals
    <3>2. job' \in [Workers -> Job] BY <2>0, <3>1, LocalsTyped DEF Job
    <3>. QED BY <2>5, <3>1, <3>2 DEF DeleteFile, TypeOK
  <2>6. CASE MarkFailed(w)
    <3>3. runs' \in [Runs -> Row] /\ \A q \in Runs : runs'[q].expires \in Expiries
      BY <2>0, <2>6, MoveTyped DEF MarkFailed, TypeOK, Statuses, Terminal
    <3>. QED BY <2>6, <3>3, NoJobTyped DEF MarkFailed, TypeOK
  <2>. QED BY <1>8, <2>1, <2>2, <2>3, <2>4, <2>5, <2>6 DEF Proceed
<1>9. ASSUME NEW w \in Workers, GoWrong(w) PROVE TypeOK'
  <2>0. job[w].run \in Runs /\ job[w] \in Job
    BY <1>9, JobFields DEF GoWrong, Raise, ReadBackRaises, CleanupRaises, Crash, Started, Busy
  <2>1. mishaps' \in [Trouble -> Nat]
    BY <1>9 DEF GoWrong, Raise, ReadBackRaises, CleanupRaises, Crash, Strike, TypeOK
  <2>2. CASE Raise(w) \/ ReadBackRaises(w)
    <3>1. Locals(w, "cleanup", job[w].keys)
      BY <2>2, JobFields DEF Raise, ReadBackRaises, Locals
    <3>2. job' \in [Workers -> Job] BY <2>0, <3>1, LocalsTyped DEF Job
    <3>. QED BY <2>1, <2>2, <3>2 DEF Raise, ReadBackRaises, TypeOK
  <2>3. CASE CleanupRaises(w) \/ Crash(w)
    <3>1. job' \in [Workers -> Job] BY <2>3, NoJobTyped DEF CleanupRaises, Crash
    <3>. QED BY <2>0, <2>1, <2>3, <3>1, KeysTyped DEF CleanupRaises, Crash, TypeOK
  <2>. QED BY <1>9, <2>2, <2>3 DEF GoWrong
<1>10. CASE UNCHANGED vars BY <1>10 DEF vars, TypeOK
<1>. QED BY <1>1, <1>2, <1>3, <1>4, <1>5, <1>6, <1>7, <1>8, <1>9, <1>10 DEF Next

-----------------------------------------------------------------------------
LEMMA TroublesGrow ==
  ASSUME TypeOK
  PROVE  /\ Troubles \in Nat
         /\ UNCHANGED mishaps => Troubles' = Troubles
         /\ Strike("crash") \/ Strike("error") \/ Strike("overrun") => Troubles' = Troubles + 1
         /\ Strike("readback") => Troubles' = Troubles
<1>1. mishaps \in [Trouble -> Nat] BY DEF TypeOK
<1>. QED BY <1>1 DEF Troubles, Strike, Trouble

(* A permitted transition: what it asks of the row, what it leaves.        *)
LEMMA MovedRow ==
  ASSUME TypeOK, NEW w \in Workers, job[w].run \in Runs,
         NEW target \in {"evaluating", "completed", "failed"}, Moved(w, target)
  PROVE  LET r == job[w].run
         IN /\ \A q \in Runs : q # r => runs'[q] = runs[q]
            /\ runs[r].status \in Active /\ runs[r].token = job[w].token
            /\ runs[r].owner = OwnerOf[w] /\ runs[r].expires = Pending
            /\ runs'[r].status = target /\ runs'[r].token = runs[r].token
            /\ target = "evaluating" => /\ runs[r].status = "running"
                                       /\ runs'[r].owner = runs[r].owner
                                       /\ runs'[r].expires = runs[r].expires
<1>. DEFINE r == job[w].run
<1>1. runs[r] \in Row /\ runs[r].expires \in Expiries BY DEF TypeOK
<1>2. target \in Statuses /\ (target = "evaluating" => target \notin Terminal)
  BY DEF Statuses, Active, Terminal
<1>3. runs'[r] = TransitionedRow(runs[r], target) /\ \A q \in Runs : q # r => runs'[q] = runs[q]
  BY DEF Moved, TypeOK
<1>4. /\ Exists(runs[r]) /\ MayTransition(runs[r].status, target)
      /\ HoldsLease(runs[r], OwnerOf[w], job[w].token, Due)
  BY DEF Moved, Permitted
<1>5. runs[r].status \in Active /\ (target = "evaluating" => runs[r].status = "running")
  BY <1>4 DEF Exists, MayTransition, Transitions, Statuses, Active, Terminal
<1>6. runs[r].owner = OwnerOf[w] /\ runs[r].token = job[w].token /\ runs[r].expires = Pending
  BY <1>1, <1>4 DEF HoldsLease, Expiries, Due, Pending
<1>. QED BY <1>1, <1>2, <1>3, <1>5, <1>6, TransitionedRowIs

(* A step of a worker that has a claim, as the others see it.              *)
LEMMA WorkerStep ==
  ASSUME TypeOK, NEW w \in Workers, Started(w), Proceed(w) \/ GoWrong(w)
  PROVE  /\ Busy(w) /\ job[w].run \in Runs
         /\ \A v \in Workers : v # w => job'[v] = job[v]
         /\ \/ /\ job'[w] = NoJob
               /\ \/ Troubles' = Troubles + 1 \/ MarkFailed(w)
                  \/ job[w].pc = "returning"
            \/ /\ job'[w].pc # "idle"
               /\ job'[w].run = job[w].run /\ job'[w].token = job[w].token
         /\ \/ runs' = runs
            \/ \E target \in {"evaluating", "completed", "failed"} : Moved(w, target)
         /\ job'[w].pc = "returning" => Moved(w, "completed")
         /\ Troubles \in Nat /\ Troubles' \in {Troubles, Troubles + 1}
<1>0. Busy(w) /\ job[w].run \in Runs /\ job \in [Workers -> Job]
  BY DEF Started, Busy, TypeOK, Proceed, Evaluate, Put, Complete, ReadBack, DeleteFile,
         MarkFailed, GoWrong, Raise, ReadBackRaises, CleanupRaises, Crash
<1>1. NoJob.pc = "idle" BY DEF NoJob
<1>2. CASE Evaluate(w)
  <2>1. \/ job' = [job EXCEPT ![w].pc = "storing"] \/ job' = [job EXCEPT ![w].pc = "cleanup"]
    BY <1>2 DEF Evaluate
  <2>2. runs' = runs \/ Moved(w, "evaluating") BY <1>2 DEF Evaluate, Moved
  <2>3. Troubles' = Troubles BY <1>2, TroublesGrow DEF Evaluate
  <2>. QED BY <1>0, <2>1, <2>2, <2>3, TroublesGrow DEF Job
<1>3. CASE Put(w) \/ DeleteFile(w)
  <2>1. PICK keys : job' = [job EXCEPT ![w].keys = keys]
    BY <1>3 DEF Put, DeleteFile
  <2>2. Troubles' = Troubles /\ runs' = runs /\ job[w].pc \in {"storing", "cleanup"}
    BY <1>3, TroublesGrow DEF Put, DeleteFile
  <2>. QED BY <1>0, <2>1, <2>2, TroublesGrow DEF Job
<1>4. CASE Complete(w)
  <2>1. \/ job' = [job EXCEPT ![w].pc = "returning"] /\ Moved(w, "completed")
        \/ job' = [job EXCEPT ![w].pc = "cleanup"] /\ runs' = runs
    BY <1>4 DEF Complete, Moved
  <2>3. Troubles' = Troubles BY <1>4, TroublesGrow DEF Complete
  <2>. QED BY <1>0, <2>1, <2>3, TroublesGrow DEF Job
<1>5. CASE ReadBack(w)
  <2>1. job' = [job EXCEPT ![w] = NoJob] /\ runs' = runs /\ job[w].pc = "returning"
    BY <1>5 DEF ReadBack
  <2>3. Troubles' = Troubles BY <1>5, TroublesGrow DEF ReadBack
  <2>. QED BY <1>0, <1>1, <2>1, <2>3, TroublesGrow
<1>6. CASE MarkFailed(w)
  <2>1. job' = [job EXCEPT ![w] = NoJob] BY <1>6 DEF MarkFailed
  <2>2. runs' = runs \/ Moved(w, "failed") BY <1>6 DEF MarkFailed, Moved
  <2>3. Troubles' = Troubles BY <1>6, TroublesGrow DEF MarkFailed
  <2>. QED BY <1>0, <1>1, <1>6, <2>1, <2>2, <2>3, TroublesGrow
<1>7. CASE Raise(w) \/ ReadBackRaises(w)
  <2>1. job' = [job EXCEPT ![w].pc = "cleanup"] /\ runs' = runs
    BY <1>7 DEF Raise, ReadBackRaises
  <2>3. Troubles \in Nat /\ Troubles' \in {Troubles, Troubles + 1}
    BY <1>7, TroublesGrow DEF Raise, ReadBackRaises
  <2>. QED BY <1>0, <2>1, <2>3 DEF Job
<1>8. CASE CleanupRaises(w) \/ Crash(w)
  <2>1. job' = [job EXCEPT ![w] = NoJob] /\ runs' = runs
    BY <1>8 DEF CleanupRaises, Crash
  <2>3. Troubles \in Nat /\ Troubles' = Troubles + 1
    BY <1>8, TroublesGrow DEF CleanupRaises, Crash
  <2>. QED BY <1>0, <1>1, <2>1, <2>3
<1>. QED BY <1>2, <1>3, <1>4, <1>5, <1>6, <1>7, <1>8 DEF Proceed, GoWrong

(* Clients and time rewrite one row, keep its token and no worker moves.   *)
ClientStep(r) == Create(r) \/ Cancel(r) \/ Delete(r) \/ ExpireAbandoned(r) \/ Overrun(r)

LEMMA ClientRow ==
  ASSUME TypeOK, NEW r \in Runs, Unclaimed(r), ClientStep(r)
  PROVE  /\ job' = job /\ \A q \in Runs : q # r => runs'[q] = runs[q]
         /\ runs'[r].token = runs[r].token
         /\ \/ runs[r].status = "absent" /\ runs'[r].status = "queued"
            \/ runs[r].status \in Statuses /\ runs'[r].status \in {"cancelled", "deleted"}
            \/ /\ runs'[r].status = runs[r].status /\ runs'[r].owner = runs[r].owner
               /\ Troubles' = Troubles + 1 \/ WorkingOn(r) = {}
         /\ Troubles \in Nat /\ Troubles' \in {Troubles, Troubles + 1}
<1>0. runs[r] \in Row /\ runs \in [Runs -> Row] BY DEF TypeOK
<1>1. CASE Create(r)
  <2>1. runs[r].status = "absent" /\ runs' = [runs EXCEPT ![r] = NewRow] /\ job' = job
    BY <1>1 DEF Create
  <2>2. Troubles' = Troubles BY <1>1, TroublesGrow DEF Create
  <2>3. NewRow.status = "queued" /\ NewRow.token = 0 BY DEF NewRow, NoRow
  <2>4. runs[r].token = 0 BY <2>1 DEF Unclaimed
  <2>. QED BY <1>0, <2>1, <2>2, <2>3, <2>4, TroublesGrow
<1>2. CASE Cancel(r) \/ Delete(r)
  <2>1. /\ runs[r].status \in Statuses /\ job' = job
        /\ \E status \in {"cancelled", "deleted"} :
             runs' = [runs EXCEPT ![r] = SettledRow(runs[r], status)]
    BY <1>2 DEF Cancel, Delete, CancelledRow, DeletedRow, Exists, Statuses
  <2>2. Troubles' = Troubles BY <1>2, TroublesGrow DEF Cancel, Delete
  <2>3. \A status \in {"cancelled", "deleted"} :
          SettledRow(runs[r], status).status = status
            /\ SettledRow(runs[r], status).token = runs[r].token
    BY DEF SettledRow
  <2>. QED BY <1>0, <2>1, <2>2, <2>3, TroublesGrow
<1>3. CASE ExpireAbandoned(r) \/ Overrun(r)
  <2>1. runs' = [runs EXCEPT ![r].expires = Due] /\ job' = job
    BY <1>3 DEF ExpireAbandoned, Overrun, LeaseRunsOut
  <2>2. /\ runs'[r].status = runs[r].status /\ runs'[r].owner = runs[r].owner
        /\ runs'[r].token = runs[r].token
    BY <1>0, <2>1 DEF Row
  <2>3. \/ Troubles' = Troubles + 1
        \/ Troubles' = Troubles /\ WorkingOn(r) = {}
    BY <1>3, TroublesGrow DEF ExpireAbandoned, Overrun
  <2>. QED BY <1>0, <2>1, <2>2, <2>3, TroublesGrow
<1>. QED BY <1>1, <1>2, <1>3 DEF ClientStep

-----------------------------------------------------------------------------
(* The attempts after a step of a client or of time.                       *)
LEMMA AttemptsClient ==
  ASSUME TypeOK, Attempts, NEW r \in Runs, ClientStep(r)
  PROVE  Attempts'
<1>0. /\ runs \in [Runs -> Row] /\ job \in [Workers -> Job]
      /\ \A q \in Runs : runs[q].token \in Nat
      /\ \A w \in Workers : job[w].token \in Nat
  BY DEF TypeOK, Row, Job
<1>1. Unclaimed(r) BY DEF Attempts
<1>2. /\ job' = job /\ \A q \in Runs : q # r => runs'[q] = runs[q]
      /\ runs'[r].token = runs[r].token
      /\ \/ runs[r].status = "absent" /\ runs'[r].status = "queued"
         \/ runs[r].status \in Statuses /\ runs'[r].status \in {"cancelled", "deleted"}
         \/ /\ runs'[r].status = runs[r].status /\ runs'[r].owner = runs[r].owner
            /\ Troubles' = Troubles + 1 \/ WorkingOn(r) = {}
      /\ Troubles \in Nat /\ Troubles' \in {Troubles, Troubles + 1}
  BY <1>1, ClientRow
<1>3. \A q \in Runs : runs'[q].token = runs[q].token BY <1>2
<1>4. \A q \in Runs : WorkingOn(q)' = WorkingOn(q) BY <1>2, <1>3 DEF WorkingOn
<1>5. ASSUME NEW w \in Workers PROVE Started(w)' /\ InHand(w)'
  <2>1. Started(w) /\ InHand(w) BY DEF Attempts
  <2>2. Started(w)' BY <1>2, <1>3, <2>1 DEF Started, Busy
  <2>3. InHand(w)'
    BY <1>2, <1>3, <2>1 DEF InHand, Started, Busy, Active
  <2>. QED BY <2>2, <2>3
<1>6. AttemptsApart' BY <1>2 DEF Attempts, AttemptsApart, Busy
<1>7. ASSUME NEW q \in Runs PROVE Unclaimed(q)' /\ Paid(q)'
  <2>1. Unclaimed(q) /\ Paid(q) BY DEF Attempts
  <2>2. CASE q # r
    BY <1>0, <1>2, <1>4, <2>1, <2>2 DEF Unclaimed, Paid
  <2>3. CASE q = r
    <3>1. Unclaimed(q)' BY <1>2, <2>1, <2>3 DEF Unclaimed, Statuses, Active
    <3>2. Paid(q)'
      BY <1>0, <1>2, <1>4, <2>1, <2>3 DEF Paid, Active
    <3>. QED BY <3>1, <3>2
  <2>. QED BY <2>2, <2>3
<1>. QED BY <1>5, <1>6, <1>7 DEF Attempts

(* ... of a worker that takes a run: the row is at hand for nobody else,   *)
(* and its attempt was paid for.                                           *)
LEMMA AttemptsClaim ==
  ASSUME TypeOK, Attempts, NEW w \in Workers, Claim(w)
  PROVE  Attempts'
<1>0. /\ runs \in [Runs -> Row] /\ job \in [Workers -> Job]
      /\ \A q \in Runs : runs[q].token \in Nat /\ runs[q].expires \in Expiries
      /\ \A v \in Workers : job[v].token \in Nat
  BY DEF TypeOK, Row, Job
<1>1. PICK r \in Runs :
        /\ Claimable(runs[r], Due)
        /\ runs' = [runs EXCEPT ![r] = Begun(runs[r], w)]
        /\ job' = [job EXCEPT ![w] = NewJob(r, runs[r])]
  BY ClaimEffect
<1>2. /\ runs'[r].status = "running" /\ runs'[r].owner = OwnerOf[w]
      /\ runs'[r].expires = Pending /\ runs'[r].token = runs[r].token + 1
      /\ \A q \in Runs : q # r => runs'[q] = runs[q]
  BY <1>0, <1>1 DEF Begun
<1>3. /\ job'[w].pc = "working" /\ job'[w].run = r /\ job'[w].token = runs[r].token + 1
      /\ \A v \in Workers : v # w => job'[v] = job[v]
  BY <1>0, <1>1 DEF NewJob
<1>4. ~Busy(w) /\ Troubles' = Troubles /\ Troubles \in Nat
  BY TroublesGrow DEF Claim, Busy
<1>5. ASSUME NEW v \in Workers PROVE Started(v)' /\ InHand(v)'
  <2>1. Started(v) /\ InHand(v) BY DEF Attempts
  <2>2. Started(v)'
    <3>1. CASE v = w BY <1>0, <1>2, <1>3, <3>1 DEF Started, Busy
    <3>2. CASE v # w BY <1>0, <1>2, <1>3, <2>1, <3>2 DEF Started, Busy
    <3>. QED BY <3>1, <3>2
  <2>3. InHand(v)'
    <3>1. CASE v = w BY <1>0, <1>2, <1>3, <3>1 DEF InHand, Busy
    <3>2. CASE v # w BY <1>0, <1>2, <1>3, <2>1, <3>2 DEF InHand, Started, Busy
    <3>. QED BY <3>1, <3>2
  <2>. QED BY <2>2, <2>3
<1>6. AttemptsApart'
  <2>. SUFFICES ASSUME NEW v \in Workers, NEW u \in Workers, v # u, Busy(v)', Busy(u)',
                       job'[v].run = job'[u].run
                PROVE  job'[v].token # job'[u].token
    BY DEF AttemptsApart
  <2>1. \A x \in Workers : x # w /\ Busy(x) => job[x].token <= runs[job[x].run].token
    BY DEF Attempts, Started
  <2>2. CASE v = w \/ u = w
    BY <1>0, <1>3, <2>1, <2>2 DEF Busy
  <2>3. CASE v # w /\ u # w
    BY <1>3, <2>3 DEF Attempts, AttemptsApart, Busy
  <2>. QED BY <2>2, <2>3
<1>7. ASSUME NEW q \in Runs PROVE Unclaimed(q)' /\ Paid(q)'
  <2>1. Unclaimed(q) /\ Paid(q) BY DEF Attempts
  <2>2. CASE q = r
    <3>1. runs[r].token <= Troubles
      <4>1. CASE runs[r].status = "queued" BY <1>4, <2>1, <2>2, <4>1 DEF Unclaimed
      <4>2. CASE runs[r].status # "queued"
        <5>1. runs[r].status \in Active \ {"queued"} /\ runs[r].expires <= Due
          BY <1>1, <4>2 DEF Claimable
        <5>2. runs[r].expires # Pending BY <1>0, <5>1 DEF Expiries, Due, Pending
        <5>. QED BY <2>1, <2>2, <5>1, <5>2 DEF Paid
      <4>. QED BY <4>1, <4>2
    <3>2. w \in WorkingOn(r)' BY <1>2, <1>3 DEF WorkingOn
    <3>. QED BY <1>0, <1>2, <1>4, <2>2, <3>1, <3>2 DEF Unclaimed, Paid
  <2>3. CASE q # r
    <3>1. w \notin WorkingOn(q) /\ w \notin WorkingOn(q)'
      BY <1>3, <1>4, <2>3 DEF WorkingOn, Busy
    <3>2. WorkingOn(q)' = WorkingOn(q)
      BY <1>2, <1>3, <2>3, <3>1 DEF WorkingOn
    <3>. QED BY <1>2, <1>4, <2>1, <2>3, <3>2 DEF Unclaimed, Paid
  <2>. QED BY <2>2, <2>3
<1>. QED BY <1>5, <1>6, <1>7 DEF Attempts

(* ... of a worker that has a claim: an attempt that it leaves without an  *)
(* outcome is paid for by its trouble, or by the overrun that took the     *)
(* lease.                                                                  *)
LEMMA AttemptsWorker ==
  ASSUME TypeOK, Attempts, NEW w \in Workers, Proceed(w) \/ GoWrong(w)
  PROVE  Attempts'
<1>0. /\ runs \in [Runs -> Row] /\ job \in [Workers -> Job]
      /\ \A q \in Runs : runs[q].token \in Nat /\ runs[q].expires \in Expiries
      /\ \A v \in Workers : job[v].token \in Nat
  BY DEF TypeOK, Row, Job
<1>. DEFINE r == job[w].run
<1>1. Started(w) /\ InHand(w) BY DEF Attempts
<1>2. /\ Busy(w) /\ r \in Runs
      /\ \A v \in Workers : v # w => job'[v] = job[v]
      /\ \/ /\ job'[w] = NoJob
            /\ \/ Troubles' = Troubles + 1 \/ MarkFailed(w) \/ job[w].pc = "returning"
         \/ /\ job'[w].pc # "idle"
            /\ job'[w].run = job[w].run /\ job'[w].token = job[w].token
      /\ \/ runs' = runs
         \/ \E target \in {"evaluating", "completed", "failed"} : Moved(w, target)
      /\ job'[w].pc = "returning" => Moved(w, "completed")
      /\ Troubles \in Nat /\ Troubles' \in {Troubles, Troubles + 1}
  BY <1>1, WorkerStep
<1>3. \A q \in Runs :
        /\ runs'[q].token = runs[q].token
        /\ \/ runs'[q] = runs[q]
           \/ /\ q = r /\ runs[q].status \in Active /\ runs[q].token = job[w].token
              /\ \/ runs'[q].status \in {"completed", "failed"}
                 \/ /\ runs'[q].status = "evaluating" /\ runs[q].status = "running"
                    /\ runs'[q].owner = runs[q].owner /\ runs'[q].expires = runs[q].expires
  BY <1>2, MovedRow
<1>4. NoJob.pc = "idle" /\ NoJob.run \notin Runs BY RunsAssumption DEF NoJob, NoRun
<1>5. ASSUME NEW v \in Workers PROVE Started(v)' /\ InHand(v)'
  <2>1. Started(v) /\ InHand(v) BY DEF Attempts
  <2>2. Started(v)'
    <3>1. CASE v = w BY <1>1, <1>2, <1>3, <1>4, <3>1 DEF Started, Busy, Active
    <3>2. CASE v # w BY <1>2, <1>3, <2>1, <3>2 DEF Started, Busy, Active
    <3>. QED BY <3>1, <3>2
  <2>3. InHand(v)'
    <3>1. CASE v = w
      <4>1. SUFFICES ASSUME Busy(w)', job'[w].token = runs'[job'[w].run].token,
                            runs'[job'[w].run].status \in Active
                     PROVE  runs'[job'[w].run].owner = OwnerOf[w] /\ job'[w].pc # "returning"
        BY <3>1 DEF InHand
      <4>2. job'[w].run = r /\ job'[w].token = job[w].token
        BY <1>2, <1>4, <4>1 DEF Busy
      <4>3. job'[w].pc # "returning"
        <5>1. ASSUME Moved(w, "completed") PROVE FALSE
          BY <1>2, <4>1, <4>2, <5>1, MovedRow DEF Active
        <5>. QED BY <1>2, <5>1
      <4>4. runs[r].token = job[w].token /\ runs[r].status \in Active
              /\ runs'[r].owner = runs[r].owner
        BY <1>2, <1>3, <4>1, <4>2 DEF Active
      <4>. QED BY <1>1, <1>2, <4>2, <4>3, <4>4 DEF InHand
    <3>2. CASE v # w
      <4>1. CASE ~Busy(v) BY <1>2, <3>2, <4>1 DEF InHand, Busy
      <4>2. CASE Busy(v)
        BY <1>2, <1>3, <2>1, <3>2, <4>2 DEF InHand, Started, Busy, Active
      <4>. QED BY <4>1, <4>2
    <3>. QED BY <3>1, <3>2
  <2>. QED BY <2>2, <2>3
<1>6. AttemptsApart'
  <2>1. \A v \in Workers : Busy(v)' =>
          Busy(v) /\ job'[v].run = job[v].run /\ job'[v].token = job[v].token
    BY <1>2, <1>4 DEF Busy
  <2>. QED BY <2>1 DEF Attempts, AttemptsApart
<1>7. ASSUME NEW q \in Runs PROVE Unclaimed(q)' /\ Paid(q)'
  <2>1. Unclaimed(q) /\ Paid(q) BY DEF Attempts
  <2>2. Unclaimed(q)' BY <1>3, <2>1 DEF Unclaimed, Active
  <2>3. ASSUME runs'[q].status \in Active \ {"queued"},
               runs'[q].expires # Pending \/ WorkingOn(q)' = {}
        PROVE  runs'[q].token <= Troubles'
    <3>1. runs[q].status \in Active \ {"queued"} /\ runs'[q].expires = runs[q].expires
      BY <1>3, <2>3 DEF Active
    <3>2. CASE runs[q].expires # Pending \/ WorkingOn(q) = {}
      BY <1>0, <1>2, <1>3, <2>1, <3>1, <3>2 DEF Paid
    <3>3. CASE runs[q].expires = Pending /\ WorkingOn(q) # {}
      <4>1. PICK v \in Workers : v \in WorkingOn(q) BY <3>3 DEF WorkingOn
      <4>2. v = w /\ job'[w] = NoJob
        BY <1>2, <1>3, <2>3, <3>1, <3>3, <4>1 DEF WorkingOn, Busy
      <4>3. q = r /\ job[w].token = runs[r].token BY <4>1, <4>2 DEF WorkingOn
      <4>4. job[w].pc # "returning" /\ runs[r].owner = OwnerOf[w]
        BY <1>1, <1>2, <3>1, <4>3 DEF InHand
      <4>5. ASSUME MarkFailed(w) PROVE FALSE
        <5>1. ~Permitted(w, "failed")
          <6>1. ASSUME Permitted(w, "failed") PROVE FALSE
            <7>1. Moved(w, "failed") BY <4>5, <6>1 DEF MarkFailed, Moved
            <7>2. runs'[r].status = "failed" BY <1>2, <7>1, MovedRow
            <7>. QED BY <2>3, <4>3, <7>2 DEF Active
          <6>. QED BY <6>1
        <5>2. Exists(runs[r]) /\ MayTransition(runs[r].status, "failed")
          BY <3>1, <4>3 DEF Exists, MayTransition, Transitions, Statuses, Active
        <5>3. HoldsLease(runs[r], OwnerOf[w], job[w].token, Due)
          BY <3>3, <4>3, <4>4 DEF HoldsLease, Due, Pending
        <5>. QED BY <5>1, <5>2, <5>3 DEF Permitted
      <4>6. Troubles' = Troubles + 1
        BY <1>2, <1>4, <4>2, <4>4, <4>5
      <4>. QED BY <1>0, <1>2, <1>3, <2>1, <4>6 DEF Paid
    <3>. QED BY <3>2, <3>3
  <2>4. runs'[q].token <= 1 + Troubles'
    BY <1>0, <1>2, <1>3, <2>1 DEF Paid
  <2>. QED BY <2>2, <2>3, <2>4 DEF Paid
<1>. QED BY <1>5, <1>6, <1>7 DEF Attempts

LEMMA AttemptsStep == TypeOK /\ Attempts /\ [Next]_vars => (TypeOK /\ Attempts)'
<1>. SUFFICES ASSUME TypeOK, Attempts, [Next]_vars PROVE TypeOK' /\ Attempts'
  OBVIOUS
<1>1. TypeOK' BY TypeStep DEF Attempts
<1>2. ASSUME NEW r \in Runs, ClientStep(r) PROVE Attempts'
  BY <1>2, AttemptsClient
<1>3. ASSUME UNCHANGED <<runs, job, mishaps>> PROVE Attempts'
  BY <1>3 DEF Attempts, Started, InHand, AttemptsApart, Unclaimed, Paid, Busy, WorkingOn,
              Troubles
<1>4. CASE \/ UNCHANGED vars
           \/ \E c \in Readers : (\E k \in reports : LookUpReport(c, k)) \/ ReadFile(c)
  BY <1>1, <1>3, <1>4 DEF vars, LookUpReport, ReadFile
<1>5. ASSUME NEW w \in Workers, Claim(w) \/ Proceed(w) \/ GoWrong(w) PROVE Attempts'
  BY <1>5, AttemptsClaim, AttemptsWorker
<1>. QED BY <1>1, <1>2, <1>4, <1>5 DEF Next, ClientStep

LEMMA AttemptsInitially == Init => TypeOK /\ Attempts
<1>. SUFFICES ASSUME Init PROVE Attempts BY TypeCorrectInitially
<1>1. /\ \A r \in Runs : runs[r] = NoRow
      /\ \A w \in Workers : job[w] = NoJob
      /\ \A t \in Trouble : mishaps[t] = 0
  BY DEF Init
<1>2. Troubles = 0 BY <1>1 DEF Troubles, Trouble
<1>3. NoJob.pc = "idle" /\ NoRow.token = 0 /\ NoRow.status = "absent"
  BY DEF NoJob, NoRow
<1>. QED BY <1>1, <1>2, <1>3 DEF Attempts, Started, InHand, AttemptsApart, Unclaimed, Paid,
                               Busy, Active

(* What holds of rows and claims whatever happens.                         *)
THEOREM AttemptsHold == Spec => [](TypeOK /\ Attempts)
BY AttemptsInitially, AttemptsStep, PTL DEF Spec

(* Every variable of the worker model keeps its type.                      *)
THEOREM TypeCorrect == Spec => []TypeOK
BY AttemptsHold, PTL

(* A run is attempted again only after a crash, an error or an overrun,    *)
(* and each of them costs at most one attempt.                             *)
THEOREM RetriesExplainedHolds == Spec => []RetriesExplained
<1>1. TypeOK /\ Attempts => RetriesExplained BY DEF Attempts, Paid, RetriesExplained
<1>. QED BY <1>1, AttemptsHold, PTL

-----------------------------------------------------------------------------
(* A run completes or fails by a step of the worker on its last attempt.   *)
THEOREM OnlyItsAttemptSettlesHolds == Spec => OnlyItsAttemptSettles
<1>. DEFINE Settles == \A r \in Runs :
       runs[r].status \in Active /\ runs'[r].status \in {"completed", "failed"} =>
         \E w \in WorkingOn(r) : job'[w] # job[w]
<1>1. TypeOK /\ Attempts /\ [Next]_vars => Settles \/ UNCHANGED vars
  <2>. SUFFICES ASSUME TypeOK, Attempts, Next, NEW r \in Runs, runs[r].status \in Active,
                       runs'[r].status \in {"completed", "failed"}
                PROVE  \E w \in WorkingOn(r) : job'[w] # job[w]
    OBVIOUS
  <2>1. ASSUME NEW q \in Runs, ClientStep(q) PROVE FALSE
    <3>1. Unclaimed(q) BY DEF Attempts
    <3>. QED BY <2>1, <3>1, ClientRow DEF Active
  <2>2. ASSUME NEW w \in Workers, Claim(w) PROVE FALSE
    <3>1. PICK q \in Runs : runs' = [runs EXCEPT ![q] = Begun(runs[q], w)]
      BY <2>2, ClaimEffect
    <3>. QED BY <3>1 DEF TypeOK, Begun, Active
  <2>3. ASSUME runs' = runs PROVE FALSE BY <2>3 DEF Active
  <2>4. ASSUME NEW w \in Workers, Proceed(w) \/ GoWrong(w)
        PROVE  \E v \in WorkingOn(r) : job'[v] # job[v]
    <3>1. Started(w) BY DEF Attempts
    <3>2. /\ Busy(w) /\ job[w].run \in Runs
          /\ runs' = runs \/ \E t \in {"evaluating", "completed", "failed"} : Moved(w, t)
      BY <2>4, <3>1, WorkerStep
    <3>3. PICK t \in {"evaluating", "completed", "failed"} : Moved(w, t)
      BY <2>3, <3>2
    <3>4. r = job[w].run /\ runs[r].token = job[w].token /\ runs'[r].status = t
      BY <3>2, <3>3, MovedRow DEF Active
    <3>5. w \in WorkingOn(r) BY <3>2, <3>4 DEF WorkingOn, Busy
    <3>6. job'[w] # job[w]
      BY <2>3, <2>4, <3>2, <3>4, JobFields
      DEF Proceed, GoWrong, Evaluate, Put, Complete, ReadBack, DeleteFile, MarkFailed, Raise,
          ReadBackRaises, CleanupRaises, Crash, NoJob, Busy, TypeOK, Job
    <3>. QED BY <3>5, <3>6
  <2>. QED BY <2>1, <2>2, <2>3, <2>4 DEF Next, ClientStep, LookUpReport, ReadFile
<1>. QED BY <1>1, AttemptsHold, PTL DEF Spec, OnlyItsAttemptSettles

-----------------------------------------------------------------------------
(* Reports and files.  A key that was published, or looked up by a reader, *)
(* has its file, which no worker on that attempt is left to delete.  The   *)
(* reports are those of the last attempts of the completed runs.  A worker *)
(* that has not given up has all its files, one that has completed its run *)
(* has them published unless the run was deleted since.                    *)
Unfinished(w) == job[w].pc \in {"working", "storing", "cleanup"}

Published(k) ==
  /\ k \in files /\ k.token <= runs[k.run].token
  /\ \A w \in Workers :
       Unfinished(w) => ~(job[w].run = k.run /\ job[w].token = k.token)

ReportsExact ==
  \A k \in Key :
    k \in reports <=> runs[k.run].status = "completed" /\ k.token = runs[k.run].token

Owns(j, k) == k.run = j.run /\ k.token = j.token /\ k.format \in j.keys

Stored(w) ==
  \A k \in Key :
    Owns(job[w], k) =>
      /\ job[w].pc \in {"working", "storing"} => k \in files
      /\ job[w].pc = "returning" => k \in reports \/ runs[k.run].status = "deleted"

Accounted(k) == \/ k \in reports \union leaked
                \/ runs[k.run].status = "deleted"
                \/ \E w \in Workers : Owns(job[w], k)

Publications ==
  /\ \A k \in reports : Published(k)
  /\ \A c \in Readers : reading[c] # NoKey => Published(reading[c])
  /\ ReportsExact
  /\ \A w \in Workers : Stored(w)
  /\ \A k \in files : Accounted(k)

(* The keys of a call are those it owns.                                   *)
LEMMA KeysOwned ==
  ASSUME NEW j \in Job, NEW k \in Key
  PROVE  k \in {[run |-> j.run, token |-> j.token, format |-> f] : f \in j.keys} <=> Owns(j, k)
<1>1. ASSUME Owns(j, k)
      PROVE  k \in {[run |-> j.run, token |-> j.token, format |-> f] : f \in j.keys}
  <2>1. k = [run |-> j.run, token |-> j.token, format |-> k.format]
    BY <1>1 DEF Owns, Key
  <2>. QED BY <1>1, <2>1 DEF Owns
<1>. QED BY <1>1 DEF Owns

(* The keys of published and looked-up reports are keys.                   *)
LEMMA SeenKeys ==
  ASSUME TypeOK
  PROVE  /\ \A k \in reports : k \in Key /\ k.run \in Runs /\ k.token \in Nat
         /\ \A c \in Readers : reading[c] # NoKey =>
              reading[c] \in Key /\ reading[c].run \in Runs /\ reading[c].token \in Nat
         /\ \A k \in files : k \in Key /\ k.run \in Runs /\ k.token \in Nat
         /\ \A r \in Runs : runs[r].token \in Nat
BY DEF TypeOK, Key, Row

LEMMA PublicationsClient ==
  ASSUME TypeOK, Attempts, Publications, NEW r \in Runs, ClientStep(r)
  PROVE  Publications'
<1>1. Unclaimed(r) BY DEF Attempts
<1>2. /\ job' = job /\ \A q \in Runs : q # r => runs'[q] = runs[q]
      /\ runs'[r].token = runs[r].token
      /\ \/ runs[r].status = "absent" /\ runs'[r].status = "queued"
         \/ runs[r].status \in Statuses /\ runs'[r].status \in {"cancelled", "deleted"}
         \/ runs'[r].status = runs[r].status
  BY <1>1, ClientRow
<1>3. /\ files' = files /\ reading' = reading /\ leaked' = leaked
      /\ \/ Delete(r) /\ reports' = {k \in reports : k.run # r}
         \/ reports' = reports /\ ~Delete(r)
            /\ (runs'[r].status = runs[r].status \/ runs[r].status # "completed")
  <2>1. CASE Delete(r) BY <2>1 DEF Delete
  <2>2. CASE ~Delete(r)
    BY <1>2, <2>2 DEF ClientStep, Create, Cancel, ExpireAbandoned, Overrun, LeaseRunsOut,
                      TypeOK, Row, Active
  <2>. QED BY <2>1, <2>2
<1>4. Delete(r) => runs'[r].status = "deleted" /\ runs[r].status # "deleted"
  BY DEF Delete, DeletedRow, SettledRow, TypeOK, Exists, Statuses, Active, Terminal
<1>5. ASSUME NEW k, k.run \in Runs, Published(k) PROVE Published(k)'
  BY <1>2, <1>3, <1>5 DEF Published, Unfinished
<1>6. \A k \in reports' : Published(k)' BY <1>3, <1>5, SeenKeys DEF Publications
<1>7. \A c \in Readers : reading'[c] # NoKey => Published(reading[c])'
  <2>1. \A c \in Readers : reading[c] # NoKey =>
          Published(reading[c]) /\ reading[c].run \in Runs
    BY SeenKeys DEF Publications
  <2>. QED BY <1>3, <1>5, <2>1 DEF Published, Unfinished
<1>8. ReportsExact'
  <2>1. SUFFICES ASSUME NEW k \in Key
                 PROVE  k \in reports' <=>
                          runs'[k.run].status = "completed" /\ k.token = runs'[k.run].token
    BY DEF ReportsExact
  <2>2. k.run \in Runs BY DEF Key
  <2>3. CASE k.run # r BY <1>2, <1>3, <2>2, <2>3 DEF Publications, ReportsExact
  <2>4. CASE k.run = r BY <1>2, <1>3, <1>4, <2>2, <2>4 DEF Publications, ReportsExact
  <2>. QED BY <2>3, <2>4
<1>9. \A q \in Runs : runs[q].status = "deleted" => runs'[q].status = "deleted"
  BY <1>2 DEF Statuses, Active, Terminal
<1>10. \A w \in Workers : Stored(w)'
  <2>1. TAKE w \in Workers
  <2>2. SUFFICES ASSUME NEW k \in Key, Owns(job[w], k), job[w].pc = "returning"
                 PROVE  k \in reports' \/ runs'[k.run].status = "deleted"
    BY <1>2, <1>3 DEF Stored, Publications
  <2>3. k \in reports \/ runs[k.run].status = "deleted" BY <2>2 DEF Publications, Stored
  <2>4. k.run \in Runs BY DEF Key
  <2>. QED BY <1>3, <1>4, <1>9, <2>3, <2>4
<1>11. \A k \in files' : Accounted(k)'
  <2>1. TAKE k \in files'
  <2>2. k \in files /\ k.run \in Runs /\ Accounted(k) BY <1>3, SeenKeys DEF Publications
  <2>. QED BY <1>2, <1>3, <1>4, <1>9, <2>2 DEF Accounted
<1>. QED BY <1>6, <1>7, <1>8, <1>10, <1>11 DEF Publications

LEMMA PublicationsClaim ==
  ASSUME TypeOK, Attempts, Publications, NEW w \in Workers, Claim(w)
  PROVE  Publications'
<1>1. PICK r \in Runs :
        /\ Claimable(runs[r], Due)
        /\ runs' = [runs EXCEPT ![r] = Begun(runs[r], w)]
        /\ job' = [job EXCEPT ![w] = NewJob(r, runs[r])]
  BY ClaimEffect
<1>2. /\ runs[r].status \in Active /\ runs'[r].status = "running"
      /\ runs'[r].token = runs[r].token + 1
      /\ \A q \in Runs : q # r => runs'[q] = runs[q]
  BY <1>1 DEF TypeOK, Begun, Claimable
<1>3. /\ job'[w].pc = "working" /\ job'[w].run = r /\ job'[w].token = runs[r].token + 1
      /\ job'[w].keys = {}
      /\ \A v \in Workers : v # w => job'[v] = job[v]
  BY <1>1 DEF TypeOK, NewJob
<1>4. /\ files' = files /\ reports' = reports /\ reading' = reading /\ leaked' = leaked
      /\ job[w] = NoJob
  BY DEF Claim, Attempts, Started, Busy
<1>5. ASSUME NEW k, k.run \in Runs, k.token \in Nat, Published(k) PROVE Published(k)'
  <2>1. runs[r].token \in Nat /\ runs[k.run].token \in Nat BY <1>5, SeenKeys
  <2>2. k.token <= runs'[k.run].token BY <1>2, <1>5, <2>1 DEF Published
  <2>3. ASSUME NEW v \in Workers, Unfinished(v)', job'[v].run = k.run, job'[v].token = k.token
        PROVE  FALSE
    <3>1. CASE v = w BY <1>3, <1>5, <2>1, <2>3, <3>1 DEF Published
    <3>2. CASE v # w BY <1>3, <1>5, <2>3, <3>2 DEF Published, Unfinished
    <3>. QED BY <3>1, <3>2
  <2>. QED BY <1>4, <1>5, <2>2, <2>3 DEF Published
<1>6. \A k \in reports' : Published(k)' BY <1>4, <1>5, SeenKeys DEF Publications
<1>7. \A c \in Readers : reading'[c] # NoKey => Published(reading[c])'
  <2>1. \A c \in Readers : reading[c] # NoKey =>
          Published(reading[c]) /\ reading[c].run \in Runs /\ reading[c].token \in Nat
    BY SeenKeys DEF Publications
  <2>. QED BY <1>4, <1>5, <2>1 DEF Published, Unfinished
<1>8. ReportsExact'
  BY <1>2, <1>4 DEF Publications, ReportsExact, Key, Active
<1>9. \A q \in Runs : runs[q].status = "deleted" => runs'[q].status = "deleted"
  BY <1>2 DEF Active
<1>10. \A v \in Workers : Stored(v)'
  <2>1. TAKE v \in Workers
  <2>2. CASE v = w BY <1>3, <2>2 DEF Stored, Owns
  <2>3. CASE v # w BY <1>3, <1>4, <1>9, <2>3 DEF Publications, Stored, Key
  <2>. QED BY <2>2, <2>3
<1>11. \A k \in files' : Accounted(k)'
  <2>1. TAKE k \in files'
  <2>2. k \in files /\ k.run \in Runs /\ Accounted(k) BY <1>4, SeenKeys DEF Publications
  <2>3. ~Owns(job[w], k) BY <1>4 DEF Owns, NoJob
  <2>. QED BY <1>3, <1>4, <1>9, <2>2, <2>3 DEF Accounted
<1>. QED BY <1>4, <1>6, <1>7, <1>8, <1>10, <1>11 DEF Publications

(* A step that neither publishes nor deletes: it is enough that the worker *)
(* owns what it did, or has leaked or published it.                        *)
LEMMA PublicationsKept ==
  ASSUME TypeOK, Publications, NEW w \in Workers,
         files \subseteq files', reports' = reports, reading' = reading, leaked \subseteq leaked',
         job \in [Workers -> Job], \A v \in Workers : v # w => job'[v] = job[v],
         Unfinished(w)' => /\ Unfinished(w)
                           /\ job'[w].run = job[w].run /\ job'[w].token = job[w].token,
         \A q \in Runs : /\ runs'[q].token = runs[q].token
                         /\ runs[q].status = "deleted" => runs'[q].status = "deleted"
                         /\ runs'[q].status = "completed" <=> runs[q].status = "completed",
         Stored(w)', job'[w].pc # "returning",
         \A k \in files' : (k \in files => Accounted(k)) => Accounted(k)'
  PROVE  Publications'
<1>1. ASSUME NEW k, k.run \in Runs, Published(k) PROVE Published(k)'
  <2>1. \A v \in Workers : Unfinished(v)' =>
          Unfinished(v) /\ job'[v].run = job[v].run /\ job'[v].token = job[v].token
    BY DEF Unfinished
  <2>. QED BY <1>1, <2>1 DEF Published
<1>2. \A k \in reports' : Published(k)' BY <1>1, SeenKeys DEF Publications
<1>3. \A c \in Readers : reading'[c] # NoKey => Published(reading[c])'
  <2>1. ASSUME NEW c \in Readers, reading[c] # NoKey
        PROVE  \E k : k = reading[c] /\ Published(k)'
    <3>1. PICK k : k = reading[c] OBVIOUS
    <3>2. Published(k) /\ k.run \in Runs BY <2>1, <3>1, SeenKeys DEF Publications
    <3>. QED BY <1>1, <3>1, <3>2
  <2>. QED BY <2>1 DEF Published
<1>4. ReportsExact' BY DEF Publications, ReportsExact, Key
<1>5. \A v \in Workers : Stored(v)'
  <2>1. ASSUME NEW v \in Workers, v # w PROVE Stored(v)'
    BY <2>1 DEF Publications, Stored, Key
  <2>. QED BY <2>1
<1>. QED BY <1>2, <1>3, <1>4, <1>5 DEF Publications

(* A permitted transition to anything but completed is one of those.       *)
LEMMA MovedStatus ==
  ASSUME TypeOK, NEW w \in Workers, job[w].run \in Runs,
         runs' = runs \/ \E target \in {"evaluating", "failed"} : Moved(w, target)
  PROVE  \A q \in Runs :
           /\ runs'[q].token = runs[q].token
           /\ runs[q].status = "deleted" => runs'[q].status = "deleted"
           /\ runs'[q].status = "completed" <=> runs[q].status = "completed"
<1>1. CASE runs' = runs BY <1>1
<1>2. CASE \E target \in {"evaluating", "failed"} : Moved(w, target)
  <2>1. PICK target \in {"evaluating", "failed"} : Moved(w, target) BY <1>2
  <2>2. /\ \A q \in Runs : q # job[w].run => runs'[q] = runs[q]
        /\ runs[job[w].run].status \in Active
        /\ runs'[job[w].run].status = target
        /\ runs'[job[w].run].token = runs[job[w].run].token
    BY <2>1, MovedRow
  <2>. QED BY <2>2 DEF Active
<1>. QED BY <1>1, <1>2

LEMMA PublicationsComplete ==
  ASSUME TypeOK, Attempts, Publications, NEW w \in Workers, Complete(w), Moved(w, "completed")
  PROVE  Publications'
<1>. DEFINE r == job[w].run
<1>0. job \in [Workers -> Job] /\ job[w] \in Job BY DEF TypeOK
<1>1. Started(w) /\ Busy(w) /\ r \in Runs BY DEF Attempts, Started, Complete, Busy
<1>2. /\ \A q \in Runs : q # r => runs'[q] = runs[q]
      /\ runs[r].status \in Active /\ runs[r].token = job[w].token
      /\ runs'[r].status = "completed" /\ runs'[r].token = runs[r].token
  BY <1>1, MovedRow
<1>3. /\ job[w].pc = "storing" /\ job[w].keys = Formats
      /\ files' = files /\ reading' = reading /\ leaked' = leaked
      /\ reports' = reports \union KeysOf(w)
      /\ job' = [job EXCEPT ![w].pc = "returning"]
  BY DEF Complete, Moved
<1>4. /\ job'[w].pc = "returning" /\ job'[w].run = r /\ job'[w].token = job[w].token
      /\ job'[w].keys = job[w].keys
      /\ \A v \in Workers : v # w => job'[v] = job[v]
  BY <1>0, <1>3 DEF Job
<1>5. \A k \in Key : k \in KeysOf(w) <=> Owns(job[w], k)
  BY <1>0, KeysOwned DEF KeysOf, KeyOf
<1>6. KeysOf(w) \subseteq Key BY <1>1, KeysTyped
<1>7. ASSUME NEW k, k.run \in Runs, Published(k) PROVE Published(k)'
  BY <1>2, <1>3, <1>4, <1>7 DEF Published, Unfinished
<1>8. ASSUME NEW k \in KeysOf(w) PROVE Published(k)'
  <2>1. k \in Key /\ Owns(job[w], k) BY <1>5, <1>6
  <2>2. k \in files BY <1>3, <2>1 DEF Publications, Stored
  <2>3. k.run = r /\ k.token = job[w].token /\ k.token \in Nat BY <2>1 DEF Owns, Key
  <2>4. k.token <= runs'[k.run].token BY <1>2, <2>3
  <2>5. \A v \in Workers : Unfinished(v)' => ~(job'[v].run = k.run /\ job'[v].token = k.token)
    BY <1>1, <1>4, <2>3 DEF Attempts, AttemptsApart, Busy, Unfinished
  <2>. QED BY <1>3, <2>2, <2>4, <2>5 DEF Published
<1>9. \A k \in reports' : Published(k)' BY <1>3, <1>7, <1>8, SeenKeys DEF Publications
<1>10. \A c \in Readers : reading'[c] # NoKey => Published(reading[c])'
  <2>1. ASSUME NEW c \in Readers, reading[c] # NoKey
        PROVE  \E k : k = reading[c] /\ Published(k)'
    <3>1. PICK k : k = reading[c] OBVIOUS
    <3>2. Published(k) /\ k.run \in Runs BY <2>1, <3>1, SeenKeys DEF Publications
    <3>. QED BY <1>7, <3>1, <3>2
  <2>. QED BY <1>3, <2>1 DEF Published
<1>11. ReportsExact'
  <2>1. SUFFICES ASSUME NEW k \in Key
                 PROVE  k \in reports' <=>
                          runs'[k.run].status = "completed" /\ k.token = runs'[k.run].token
    BY DEF ReportsExact
  <2>2. k.run \in Runs /\ k.format \in Formats BY DEF Key
  <2>3. k \in reports <=> runs[k.run].status = "completed" /\ k.token = runs[k.run].token
    BY DEF Publications, ReportsExact
  <2>. QED BY <1>2, <1>3, <1>5, <2>2, <2>3 DEF Owns, Active
<1>12. \A v \in Workers : Stored(v)'
  <2>1. TAKE v \in Workers
  <2>2. CASE v = w
    BY <1>3, <1>4, <1>5, <2>2 DEF Stored, Owns
  <2>3. CASE v # w
    <3>1. \A q \in Runs : runs[q].status = "deleted" => runs'[q].status = "deleted"
      BY <1>2 DEF Active
    <3>. QED BY <1>3, <1>4, <2>3, <3>1 DEF Publications, Stored, Key
  <2>. QED BY <2>2, <2>3
<1>13. \A k \in files' : Accounted(k)'
  <2>1. TAKE k \in files'
  <2>2. k \in files /\ k.run \in Runs /\ Accounted(k) BY <1>3, SeenKeys DEF Publications
  <2>3. \A v \in Workers : Owns(job[v], k) => Owns(job'[v], k) BY <1>4 DEF Owns
  <2>. QED BY <1>2, <1>3, <2>2, <2>3 DEF Accounted, Active
<1>. QED BY <1>3, <1>9, <1>10, <1>11, <1>12, <1>13 DEF Publications

LEMMA PublicationsDelete ==
  ASSUME TypeOK, Attempts, Publications, NEW w \in Workers, DeleteFile(w)
  PROVE  Publications'
<1>0. job \in [Workers -> Job] /\ job[w] \in Job BY DEF TypeOK
<1>1. Busy(w) /\ job[w].run \in Runs /\ Unfinished(w)
  BY DEF Attempts, Started, DeleteFile, Busy, Unfinished
<1>2. PICK format \in job[w].keys :
        /\ files' = files \ {KeyOf(w, format)}
        /\ job' = [job EXCEPT ![w].keys = @ \ {format}]
  BY DEF DeleteFile
<1>3. /\ runs' = runs /\ reports' = reports /\ reading' = reading /\ leaked' = leaked
      /\ job[w].pc = "cleanup"
  BY DEF DeleteFile
<1>4. /\ job'[w].pc = "cleanup" /\ job'[w].run = job[w].run /\ job'[w].token = job[w].token
      /\ job'[w].keys = job[w].keys \ {format}
      /\ \A v \in Workers : v # w => job'[v] = job[v]
  BY <1>0, <1>2, <1>3 DEF Job
<1>5. KeyOf(w, format).run = job[w].run /\ KeyOf(w, format).token = job[w].token
  BY DEF KeyOf
<1>6. ASSUME NEW k, Published(k) PROVE Published(k)'
  <2>1. k # KeyOf(w, format) BY <1>1, <1>5, <1>6 DEF Published
  <2>. QED BY <1>2, <1>3, <1>4, <1>6, <2>1 DEF Published, Unfinished
<1>7. \A k \in reports' : Published(k)' BY <1>3, <1>6 DEF Publications
<1>8. \A c \in Readers : reading'[c] # NoKey => Published(reading[c])'
  <2>1. ASSUME NEW c \in Readers, reading[c] # NoKey
        PROVE  \E k : k = reading[c] /\ Published(k)'
    <3>1. PICK k : k = reading[c] OBVIOUS
    <3>. QED BY <1>6, <2>1, <3>1 DEF Publications
  <2>. QED BY <1>3, <2>1 DEF Published
<1>9. ReportsExact' BY <1>3 DEF Publications, ReportsExact
<1>10. \A v \in Workers : Stored(v)'
  <2>1. TAKE v \in Workers
  <2>2. CASE v = w BY <1>4, <2>2 DEF Stored
  <2>3. CASE v # w
    <3>1. SUFFICES ASSUME NEW k \in Key, Owns(job[v], k)
                   PROVE  /\ job[v].pc \in {"working", "storing"} => k \in files'
                          /\ job[v].pc = "returning" =>
                               k \in reports' \/ runs'[k.run].status = "deleted"
      BY <1>4, <2>3 DEF Stored
    <3>2. job[v].pc \in {"working", "storing"} => k # KeyOf(w, format)
      BY <1>1, <1>5, <2>3, <3>1 DEF Owns, Attempts, AttemptsApart, Busy
    <3>. QED BY <1>2, <1>3, <3>1, <3>2 DEF Publications, Stored
  <2>. QED BY <2>2, <2>3
<1>11. \A k \in files' : Accounted(k)'
  <2>1. TAKE k \in files'
  <2>2. k \in Key /\ k \in files /\ k # KeyOf(w, format) /\ Accounted(k)
    BY <1>2, SeenKeys DEF Publications
  <2>3. Owns(job[w], k) => Owns(job'[w], k)
    <3>1. Owns(job[w], k) => k.format # format BY <2>2 DEF Owns, Key, KeyOf
    <3>. QED BY <1>4, <3>1 DEF Owns
  <2>. QED BY <1>3, <1>4, <2>2, <2>3 DEF Accounted
<1>. QED BY <1>3, <1>7, <1>8, <1>9, <1>10, <1>11 DEF Publications

(* The other steps of a worker that has a claim.                           *)
LEMMA PublicationsGoOn ==
  ASSUME TypeOK, Attempts, Publications, NEW w \in Workers,
         Evaluate(w) \/ Put(w) \/ Raise(w) \/ (Complete(w) /\ ~Moved(w, "completed"))
  PROVE  Publications'
<1>0. job \in [Workers -> Job] /\ job[w] \in Job BY DEF TypeOK
<1>1. Busy(w) /\ job[w].run \in Runs /\ Unfinished(w) /\ job[w].pc \in {"working", "storing"}
  BY DEF Attempts, Started, Evaluate, Put, Raise, Complete, Busy, Unfinished
<1>2. /\ reports' = reports /\ reading' = reading /\ leaked' = leaked
      /\ runs' = runs \/ \E target \in {"evaluating", "failed"} : Moved(w, target)
  BY DEF Evaluate, Put, Raise, Complete, Moved
<1>3. PICK pc \in {"storing", "cleanup"}, keys \in SUBSET Formats :
        /\ job' = [job EXCEPT ![w] = [pc |-> pc, run |-> job[w].run,
                                      token |-> job[w].token, keys |-> keys]]
        /\ \/ keys = job[w].keys /\ files' = files
           \/ \E format \in Formats : /\ keys = job[w].keys \union {format}
                                      /\ files' = files \union {KeyOf(w, format)}
  <2>1. CASE Put(w)
    <3>1. PICK format \in Formats \ job[w].keys :
            /\ files' = files \union {KeyOf(w, format)}
            /\ job' = [job EXCEPT ![w].keys = job[w].keys \union {format}]
            /\ job[w].pc = "storing"
      BY <2>1 DEF Put
    <3>2. job' = [job EXCEPT ![w] = [pc |-> "storing", run |-> job[w].run,
                                     token |-> job[w].token,
                                     keys |-> job[w].keys \union {format}]]
      <4>1. \A keys : [job EXCEPT ![w].keys = keys] =
                        [job EXCEPT ![w] = [pc |-> "storing", run |-> job[w].run,
                                            token |-> job[w].token, keys |-> keys]]
        BY <3>1, JobFields
      <4>. QED BY <3>1, <4>1
    <3>3. job[w].keys \union {format} \in SUBSET Formats
      BY <1>0 DEF Job
    <3>. QED BY <3>1, <3>2, <3>3
  <2>2. CASE ~Put(w)
    <3>1. /\ files' = files
          /\ \/ job' = [job EXCEPT ![w].pc = "storing"]
             \/ job' = [job EXCEPT ![w].pc = "cleanup"]
      BY <2>2 DEF Evaluate, Raise, Complete, Moved
    <3>2. job[w].keys \in SUBSET Formats
      BY <1>0 DEF Job
    <3>. QED BY <3>1, <3>2, JobFields
  <2>. QED BY <2>1, <2>2
<1>4. /\ job'[w].pc = pc /\ job'[w].run = job[w].run /\ job'[w].token = job[w].token
      /\ job'[w].keys = keys /\ job[w].keys \subseteq keys
      /\ \A v \in Workers : v # w => job'[v] = job[v]
  BY <1>0, <1>3
<1>5. \A k \in Key : Owns(job'[w], k) => Owns(job[w], k) \/ k \in files'
  <2>1. SUFFICES ASSUME NEW k \in Key, Owns(job'[w], k), ~Owns(job[w], k)
                 PROVE  k \in files'
    OBVIOUS
  <2>2. PICK format \in Formats : /\ keys = job[w].keys \union {format}
                                  /\ files' = files \union {KeyOf(w, format)}
    BY <1>3, <1>4, <2>1 DEF Owns
  <2>3. k.format = format /\ k.run = job[w].run /\ k.token = job[w].token
    BY <1>4, <2>1, <2>2 DEF Owns
  <2>4. k = KeyOf(w, format) BY <2>3 DEF Key, KeyOf
  <2>. QED BY <2>2, <2>4
<1>6. Stored(w)'
  <2>1. \A k \in Key : Owns(job[w], k) => k \in files
    BY <1>1 DEF Publications, Stored
  <2>2. files \subseteq files' BY <1>3
  <2>. QED BY <1>4, <1>5, <2>1, <2>2 DEF Stored
<1>7. \A q \in Runs :
        /\ runs'[q].token = runs[q].token
        /\ runs[q].status = "deleted" => runs'[q].status = "deleted"
        /\ runs'[q].status = "completed" <=> runs[q].status = "completed"
  BY <1>1, <1>2, MovedStatus
<1>8. ASSUME NEW k \in files', k \in files => Accounted(k) PROVE Accounted(k)'
  <2>1. CASE k \in files
    <3>1. k.run \in Runs BY <2>1, SeenKeys
    <3>2. \A v \in Workers : Owns(job[v], k) => Owns(job'[v], k) BY <1>4 DEF Owns
    <3>. QED BY <1>2, <1>7, <1>8, <2>1, <3>1, <3>2 DEF Accounted
  <2>2. CASE k \notin files
    <3>1. Owns(job'[w], k) BY <1>3, <1>4, <1>8, <2>2 DEF Owns, KeyOf
    <3>. QED BY <3>1 DEF Accounted
  <2>. QED BY <2>1, <2>2
<1>9. files \subseteq files' /\ leaked \subseteq leaked' BY <1>2, <1>3
<1>. QED BY <1>0, <1>1, <1>2, <1>4, <1>6, <1>7, <1>8, <1>9, PublicationsKept DEF Unfinished

LEMMA PublicationsReturn ==
  ASSUME TypeOK, Attempts, Publications, NEW w \in Workers,
         ReadBack(w) \/ MarkFailed(w) \/ CleanupRaises(w) \/ Crash(w)
  PROVE  Publications'
<1>0. job \in [Workers -> Job] /\ job[w] \in Job BY DEF TypeOK
<1>1. Busy(w) /\ job[w].run \in Runs
  BY DEF Attempts, Started, ReadBack, MarkFailed, CleanupRaises, Crash, Busy
<1>2. /\ reports' = reports /\ reading' = reading /\ files' = files
      /\ leaked \subseteq leaked'
      /\ job' = [job EXCEPT ![w] = NoJob]
      /\ runs' = runs \/ \E target \in {"evaluating", "failed"} : Moved(w, target)
  BY DEF ReadBack, MarkFailed, CleanupRaises, Crash, Moved
<1>3. job'[w] = NoJob /\ \A v \in Workers : v # w => job'[v] = job[v] BY <1>0, <1>2
<1>4. Stored(w)' /\ job'[w].pc = "idle" BY <1>3 DEF Stored, Owns, NoJob
<1>5. \A q \in Runs :
        /\ runs'[q].token = runs[q].token
        /\ runs[q].status = "deleted" => runs'[q].status = "deleted"
        /\ runs'[q].status = "completed" <=> runs[q].status = "completed"
  BY <1>1, <1>2, MovedStatus
<1>6. ASSUME NEW k \in files, Accounted(k) PROVE Accounted(k)'
  <2>1. k \in Key /\ k.run \in Runs BY SeenKeys
  <2>2. CASE Owns(job[w], k)
    <3>1. CASE ReadBack(w)
      <4>1. k \in reports \/ runs[k.run].status = "deleted"
        BY <2>1, <2>2, <3>1 DEF ReadBack, Publications, Stored
      <4>. QED BY <1>2, <1>5, <2>1, <4>1 DEF Accounted
    <3>2. CASE MarkFailed(w) BY <2>2, <3>2 DEF MarkFailed, Owns
    <3>3. CASE CleanupRaises(w) \/ Crash(w)
      <4>1. k \in KeysOf(w) BY <1>0, <2>1, <2>2, KeysOwned DEF KeysOf, KeyOf
      <4>2. k \in leaked' BY <3>3, <4>1 DEF CleanupRaises, Crash
      <4>. QED BY <4>2 DEF Accounted
    <3>. QED BY <3>1, <3>2, <3>3
  <2>3. CASE ~Owns(job[w], k)
    <3>1. \A v \in Workers : Owns(job[v], k) => v # w /\ Owns(job'[v], k)
      BY <1>3, <2>3
    <3>. QED BY <1>2, <1>5, <1>6, <2>1, <3>1 DEF Accounted
  <2>. QED BY <2>2, <2>3
<1>. QED BY <1>0, <1>2, <1>3, <1>4, <1>5, <1>6, PublicationsKept DEF Unfinished

LEMMA PublicationsWorker ==
  ASSUME MaxReadBackErrors = 0, TypeOK, Attempts, Publications, NEW w \in Workers,
         Proceed(w) \/ GoWrong(w)
  PROVE  Publications'
<1>1. ASSUME ReadBackRaises(w) PROVE FALSE
  <2>1. mishaps["readback"] < 0 /\ mishaps["readback"] \in Nat
    BY <1>1 DEF ReadBackRaises, Strike, Allowance, TypeOK, Trouble
  <2>. QED BY <2>1
<1>. QED BY <1>1, PublicationsGoOn, PublicationsReturn, PublicationsComplete, PublicationsDelete
         DEF Proceed, GoWrong

(* A reader looks up what is published.                                    *)
LEMMA PublicationsReader ==
  ASSUME TypeOK, Publications, UNCHANGED <<runs, reports, files, job, leaked>>,
         \A c \in Readers : reading'[c] \in reports \union {NoKey, reading[c]}
  PROVE  Publications'
<1>1. ASSUME NEW k, Published(k) PROVE Published(k)'
  BY <1>1 DEF Published, Unfinished
<1>2. \A c \in Readers : reading'[c] # NoKey => Published(reading[c])'
  <2>1. ASSUME NEW c \in Readers, reading'[c] # NoKey
        PROVE  \E k : k = reading'[c] /\ Published(k)'
    <3>1. PICK k : k = reading'[c] OBVIOUS
    <3>. QED BY <1>1, <2>1, <3>1 DEF Publications
  <2>. QED BY <2>1 DEF Published
<1>3. \A k \in reports' : Published(k)' BY <1>1 DEF Publications
<1>. QED BY <1>2, <1>3 DEF Publications, ReportsExact, Stored, Accounted, Unfinished, Published

LEMMA PublicationsStep ==
  ASSUME MaxReadBackErrors = 0
  PROVE  TypeOK /\ Attempts /\ Publications /\ [Next]_vars => Publications'
<1>. SUFFICES ASSUME TypeOK, Attempts, Publications, [Next]_vars PROVE Publications'
  OBVIOUS
<1>1. ASSUME NEW r \in Runs, ClientStep(r) PROVE Publications'
  BY <1>1, PublicationsClient
<1>2. ASSUME NEW w \in Workers, Claim(w) PROVE Publications'
  BY <1>2, PublicationsClaim
<1>3. ASSUME NEW w \in Workers, Proceed(w) \/ GoWrong(w) PROVE Publications'
  BY <1>3, PublicationsWorker
<1>4. CASE \/ UNCHANGED vars
           \/ \E c \in Readers : (\E k \in reports : LookUpReport(c, k)) \/ ReadFile(c)
  <2>1. /\ UNCHANGED <<runs, reports, files, job, leaked>>
        /\ \A c \in Readers : reading'[c] \in reports \union {NoKey, reading[c]}
    BY <1>4 DEF vars, LookUpReport, ReadFile, TypeOK
  <2>. QED BY <2>1, PublicationsReader
<1>. QED BY <1>1, <1>2, <1>3, <1>4 DEF Next, ClientStep

LEMMA PublicationsInitially == Init => Publications
BY DEF Init, Publications, ReportsExact, Stored, Owns, NoJob, NoRow, Key

(* What holds of reports, of files and of what readers have looked up, as  *)
(* long as the get_run after a commit does not raise.                      *)
THEOREM PublicationsHold ==
  ASSUME MaxReadBackErrors = 0
  PROVE  Spec => []Publications
BY PublicationsInitially, PublicationsStep, AttemptsHold, PTL DEF Spec

(* A completed run has exactly one report per format, all made by the      *)
(* attempt that completed it and all there to be read; no other run has    *)
(* any.                                                                    *)
THEOREM ReportsCompleteHolds ==
  ASSUME MaxReadBackErrors = 0
  PROVE  Spec => []ReportsComplete
<1>1. TypeOK /\ Publications => ReportsComplete
  <2>. SUFFICES ASSUME TypeOK, Publications, NEW r \in Runs
                PROVE  /\ ReportsOf(r) =
                            IF runs[r].status = "completed"
                              THEN {[run |-> r, token |-> runs[r].token, format |-> f] :
                                      f \in Formats}
                              ELSE {}
                       /\ ReportsOf(r) \subseteq files
    BY DEF ReportsComplete
  <2>. DEFINE Own == {[run |-> r, token |-> runs[r].token, format |-> f] : f \in Formats}
  <2>1. \A k \in reports : k \in Key /\ k \in files
    BY SeenKeys DEF Publications, Published
  <2>2. ReportsOf(r) \subseteq Key /\ ReportsOf(r) \subseteq files BY <2>1 DEF ReportsOf
  <2>3. \A k \in Key : k \in ReportsOf(r) <=> /\ k.run = r /\ runs[r].status = "completed"
                                              /\ k.token = runs[r].token
    BY DEF ReportsOf, Publications, ReportsExact
  <2>4. Own \subseteq Key BY SeenKeys DEF Key
  <2>5. \A k \in Key : k \in Own <=> k.run = r /\ k.token = runs[r].token
    <3>1. ASSUME NEW k \in Key, k.run = r, k.token = runs[r].token PROVE k \in Own
      <4>1. k = [run |-> r, token |-> runs[r].token, format |-> k.format] /\ k.format \in Formats
        BY <3>1 DEF Key
      <4>. QED BY <4>1
    <3>. QED BY <3>1
  <2>. HIDE DEF Own
  <2>6. runs[r].status = "completed" => ReportsOf(r) = Own BY <2>2, <2>3, <2>4, <2>5
  <2>7. runs[r].status # "completed" => ReportsOf(r) = {} BY <2>2, <2>3
  <2>. QED BY <2>2, <2>6, <2>7 DEF Own
<1>. QED BY <1>1, AttemptsHold, PublicationsHold, PTL

(* Every stored file has a row that names it, a worker about to commit or  *)
(* delete it, or a project that was deleted or a worker that was lost.     *)
THEOREM FilesAccountedHolds ==
  ASSUME MaxReadBackErrors = 0
  PROVE  Spec => []FilesAccounted
<1>1. TypeOK /\ Publications => FilesAccounted
  <2>. SUFFICES ASSUME TypeOK, Publications, NEW k \in files
                PROVE  \/ k \in reports \union leaked
                       \/ runs[k.run].status = "deleted"
                       \/ \E w \in Workers : k \in KeysOf(w)
    BY DEF FilesAccounted
  <2>1. Accounted(k) /\ k \in Key BY SeenKeys DEF Publications
  <2>2. \A w \in Workers : Owns(job[w], k) => k \in KeysOf(w)
    BY <2>1, KeysOwned DEF KeysOf, KeyOf, TypeOK
  <2>. QED BY <2>1, <2>2 DEF Accounted
<1>. QED BY <1>1, AttemptsHold, PublicationsHold, PTL

(* A read_report that has found the row finds the file.                    *)
THEOREM ReaderFindsFileHolds ==
  ASSUME MaxReadBackErrors = 0
  PROVE  Spec => []ReaderFindsFile
<1>1. Publications => ReaderFindsFile BY DEF Publications, Published, ReaderFindsFile
<1>. QED BY <1>1, PublicationsHold, PTL

-----------------------------------------------------------------------------
Phases         == [r \in Runs |-> PhaseOf(runs[r])]
AttemptNumbers == [r \in Runs |-> runs[r].token]

(* A step that rewrites one row, as the lifecycle sees it.                 *)
LEMMA OneRowStep ==
  ASSUME NEW r \in Runs, NEW phase, NEW token,
         PhaseOf(runs'[r]) = phase, runs'[r].token = token,
         \A q \in Runs : q # r => runs'[q] = runs[q]
  PROVE  /\ Phases' = [Phases EXCEPT ![r] = phase]
         /\ AttemptNumbers' = [AttemptNumbers EXCEPT ![r] = token]
<1>1. \A q \in Runs : /\ Phases'[q] = PhaseOf(runs'[q])
                      /\ AttemptNumbers'[q] = runs'[q].token
                      /\ Phases[q] = PhaseOf(runs[q]) /\ AttemptNumbers[q] = runs[q].token
  BY DEF Phases, AttemptNumbers, PhaseOf
<1>2. /\ Phases = [q \in Runs |-> Phases[q]]
      /\ AttemptNumbers = [q \in Runs |-> AttemptNumbers[q]]
      /\ Phases' = [q \in Runs |-> Phases'[q]]
      /\ AttemptNumbers' = [q \in Runs |-> AttemptNumbers'[q]]
  BY DEF Phases, AttemptNumbers
<1>3. Phases' = [Phases EXCEPT ![r] = phase] BY <1>1, <1>2
<1>4. AttemptNumbers' = [AttemptNumbers EXCEPT ![r] = token] BY <1>1, <1>2
<1>. QED BY <1>3, <1>4

LEMMA StepRefines ==
  ASSUME TypeOK, Attempts, [Next]_vars
  PROVE  [Lifecycle!Next]_(Lifecycle!vars)
<1>. DEFINE Goal == [Lifecycle!Next]_(Lifecycle!vars)
<1>1. ASSUME \A q \in Runs : PhaseOf(runs'[q]) = PhaseOf(runs[q]) /\ runs'[q].token = runs[q].token
      PROVE  Goal
  BY <1>1 DEF Lifecycle!vars
<1>2. ASSUME UNCHANGED runs PROVE Goal BY <1>2 DEF Lifecycle!vars
<1>3. ASSUME NEW r \in Runs, ClientStep(r) PROVE Goal
  <2>1. Unclaimed(r) BY DEF Attempts
  <2>2. /\ \A q \in Runs : q # r => runs'[q] = runs[q]
        /\ runs'[r].token = runs[r].token
        /\ \/ runs[r].status = "absent" /\ runs'[r].status = "queued"
           \/ runs[r].status \in Statuses /\ runs'[r].status \in {"cancelled", "deleted"}
           \/ runs'[r].status = runs[r].status
    BY <1>3, <2>1, ClientRow
  <2>3. AttemptNumbers' = AttemptNumbers BY <2>2 DEF AttemptNumbers
  <2>4. CASE Create(r)
    <3>1. runs[r].status = "absent" /\ runs'[r].status = "queued"
      BY <2>4 DEF Create, TypeOK, NewRow, NoRow
    <3>2. Phases[r] = "unknown" /\ PhaseOf(runs'[r]) = "waiting"
      BY <3>1 DEF Phases, PhaseOf
    <3>3. Phases' = [Phases EXCEPT ![r] = "waiting"] BY <2>2, <3>2, OneRowStep
    <3>4. Lifecycle!Submit(r)
      BY <2>3, <3>2, <3>3 DEF Lifecycle!Submit, Phases, AttemptNumbers
    <3>. QED BY <3>4 DEF Lifecycle!Next
  <2>5. CASE Cancel(r)
    <3>1. runs[r].status \in Active /\ runs'[r].status = "cancelled"
      BY <2>5 DEF Cancel, TypeOK, CancelledRow, SettledRow
    <3>2. Phases[r] \in {"waiting", "working"} /\ PhaseOf(runs'[r]) = "cancelled"
      BY <3>1 DEF Active, Phases, PhaseOf
    <3>3. Phases' = [Phases EXCEPT ![r] = "cancelled"] BY <2>2, <3>2, OneRowStep
    <3>4. Lifecycle!Settle(r, "cancelled")
      BY <2>3, <3>2, <3>3 DEF Lifecycle!Settle, Phases, AttemptNumbers
    <3>. QED BY <3>4 DEF Lifecycle!Next, Lifecycle!Settled
  <2>6. CASE Delete(r)
    <3>1. runs[r].status \in Statuses /\ runs'[r].status = "deleted"
      BY <2>6 DEF Delete, Exists, TypeOK, DeletedRow, SettledRow
    <3>2. Phases[r] \in Lifecycle!Open \union Lifecycle!Settled /\ PhaseOf(runs'[r]) = "removed"
      BY <3>1 DEF Statuses, Active, Terminal, Phases, PhaseOf, Lifecycle!Open, Lifecycle!Settled
    <3>3. Phases' = [Phases EXCEPT ![r] = "removed"] BY <2>2, <3>2, OneRowStep
    <3>4. Lifecycle!Remove(r)
      BY <2>3, <3>2, <3>3 DEF Lifecycle!Remove, Phases, AttemptNumbers
    <3>. QED BY <3>4 DEF Lifecycle!Next
  <2>7. CASE ExpireAbandoned(r) \/ Overrun(r)
    <3>1. runs' = [runs EXCEPT ![r].expires = Due]
      BY <2>7 DEF ExpireAbandoned, Overrun, LeaseRunsOut
    <3>2. \A q \in Runs : runs'[q].status = runs[q].status /\ runs'[q].token = runs[q].token
      BY <3>1 DEF TypeOK, Row
    <3>3. \A q \in Runs : PhaseOf(runs'[q]) = PhaseOf(runs[q]) BY <3>2 DEF PhaseOf
    <3>. QED BY <1>1, <3>2, <3>3
  <2>. QED BY <1>3, <2>4, <2>5, <2>6, <2>7 DEF ClientStep
<1>4. ASSUME NEW w \in Workers, Claim(w) PROVE Goal
  <2>1. PICK r \in Runs : /\ Claimable(runs[r], Due)
                          /\ runs' = [runs EXCEPT ![r] = Begun(runs[r], w)]
    BY <1>4, ClaimEffect
  <2>2. /\ runs'[r].status = "running" /\ runs'[r].token = AttemptNumbers[r] + 1
        /\ \A q \in Runs : q # r => runs'[q] = runs[q]
    BY <2>1 DEF TypeOK, Begun, AttemptNumbers
  <2>3. PhaseOf(runs'[r]) = "working" BY <2>2 DEF PhaseOf
  <2>4. Phases[r] \in Lifecycle!Open
    BY <2>1 DEF Claimable, Active, Phases, PhaseOf, Lifecycle!Open
  <2>5. /\ Phases' = [Phases EXCEPT ![r] = "working"]
        /\ AttemptNumbers' = [AttemptNumbers EXCEPT ![r] = AttemptNumbers[r] + 1]
    BY <2>2, <2>3, OneRowStep
  <2>6. Lifecycle!StartAttempt(r)
    BY <2>4, <2>5 DEF Lifecycle!StartAttempt, Phases, AttemptNumbers
  <2>. QED BY <2>6 DEF Lifecycle!Next
<1>5. ASSUME NEW w \in Workers, Proceed(w) \/ GoWrong(w) PROVE Goal
  <2>. DEFINE r == job[w].run
  <2>1. Started(w) BY DEF Attempts
  <2>2. /\ Busy(w) /\ r \in Runs
        /\ runs' = runs \/ \E t \in {"evaluating", "completed", "failed"} : Moved(w, t)
    BY <1>5, <2>1, WorkerStep
  <2>3. ASSUME NEW t \in {"evaluating", "completed", "failed"}, Moved(w, t) PROVE Goal
    <3>1. /\ \A q \in Runs : q # r => runs'[q] = runs[q]
          /\ runs[r].status \in Active /\ runs[r].token = job[w].token
          /\ runs'[r].status = t /\ runs'[r].token = runs[r].token
      BY <2>2, <2>3, MovedRow
    <3>2. runs[r].status # "queued"
      <4>1. Unclaimed(r) /\ 1 <= job[w].token BY <2>1, <2>2 DEF Attempts, Started
      <4>. QED BY <3>1, <4>1 DEF Unclaimed
    <3>3. Phases[r] = "working" BY <2>2, <3>1, <3>2 DEF Active, Phases, PhaseOf
    <3>4. AttemptNumbers' = AttemptNumbers BY <3>1 DEF AttemptNumbers
    <3>5. CASE t = "evaluating"
      <4>1. PhaseOf(runs'[r]) = "working" BY <3>1, <3>5 DEF PhaseOf
      <4>2. \A q \in Runs : PhaseOf(runs'[q]) = PhaseOf(runs[q])
        BY <2>2, <3>1, <3>3, <4>1 DEF Phases
      <4>3. \A q \in Runs : runs'[q].token = runs[q].token BY <3>1
      <4>. QED BY <1>1, <4>2, <4>3
    <3>6. CASE t \in {"completed", "failed"}
      <4>1. PhaseOf(runs'[r]) = t /\ t \in Lifecycle!Settled
        BY <3>1, <3>6 DEF PhaseOf, Lifecycle!Settled
      <4>2. Phases' = [Phases EXCEPT ![r] = t] BY <2>2, <3>1, <4>1, OneRowStep
      <4>3. Lifecycle!Settle(r, t)
        BY <3>3, <3>4, <4>2 DEF Lifecycle!Settle, Phases, AttemptNumbers
      <4>. QED BY <2>2, <4>1, <4>3 DEF Lifecycle!Next
    <3>. QED BY <3>5, <3>6
  <2>. QED BY <1>2, <2>2, <2>3
<1>6. CASE \/ UNCHANGED vars
           \/ \E c \in Readers : (\E k \in reports : LookUpReport(c, k)) \/ ReadFile(c)
  BY <1>2, <1>6 DEF vars, LookUpReport, ReadFile
<1>. QED BY <1>3, <1>4, <1>5, <1>6 DEF Next, ClientStep

(* Workers that crash, err or overrun, clients and time keep the job       *)
(* queue's promise; nothing is assumed of the get_run after the commit.    *)
THEOREM Refinement == Spec => ImplementsLifecycle
<1>1. Init => Lifecycle!Init
  BY DEF Init, Lifecycle!Init, PhaseOf, NoRow
<1>2. TypeOK /\ Attempts /\ [Next]_vars => [Lifecycle!Next]_(Lifecycle!vars)
  BY StepRefines
<1>. QED BY <1>1, <1>2, AttemptsHold, PTL DEF Spec, ImplementsLifecycle, Lifecycle!Spec

=============================================================================
