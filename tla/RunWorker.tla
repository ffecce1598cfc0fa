------------------------------ MODULE RunWorker ------------------------------
(***************************************************************************)
(* LabApplicationService.process_next and read_report                      *)
(* (application/service.py): workers that take runs from the table,        *)
(* compute a benchmark, store one report file per format and commit the    *)
(* report rows together with the outcome; and the crashes, errors, expired *)
(* leases, cancellations and deletions that meet them half way.  Files and *)
(* rows live in two stores that no transaction spans.                      *)
(*                                                                         *)
(* A database transaction is one action (PostgreSQL).  RunLease has the    *)
(* statements inside; merging them loses nothing here, for an UPDATE of    *)
(* `transition` that matches finds the row as the SELECT before it did,    *)
(* and one that does not ends in the same `except` as a refusing SELECT.   *)
(*                                                                         *)
(* Time is what has become of a lease: `expires` is Pending while it runs, *)
(* Due when it has run out.  A clock reading that an UPDATE uses late      *)
(* gives the same result as using it at once, since nothing but a reclaim  *)
(* reacts to an expiry, and a reclaim changes the fencing token.           *)
(***************************************************************************)
EXTENDS RunTable

CONSTANTS Runs,              \* run ids; a smaller one has the older created_at
          Workers,
          Readers,           \* callers of read_report
          Formats,           \* the keys of `payloads`
          OwnerOf,           \* the lease owner string each worker presents
          MaxCrashes,        \* bounds on what may go wrong in a behaviour:
          MaxErrors,         \*   exceptions raised by the benchmark or a store
          MaxReadBackErrors, \*   exceptions of the last get_run
          MaxOverruns        \*   leases that expire under a running worker

ASSUME RunsAssumption == Runs \subseteq Nat \ {0}
ASSUME OwnerOfAssumption == OwnerOf \in [Workers -> Owners]
ASSUME BoundsAssumption ==
  /\ MaxCrashes \in Nat /\ MaxErrors \in Nat
  /\ MaxReadBackErrors \in Nat /\ MaxOverruns \in Nat

VARIABLES
  runs,      \* runs[r]: the row of run r
  reports,   \* report_artifacts: the object keys that rows name
  files,     \* the object keys at which FileArtifactStore holds a file
  job,       \* job[w]: the locals of w's current process_next
  reading,   \* reading[c]: the object key a read_report has looked up
  mishaps,   \* how often each kind of trouble has struck
  leaked     \* history: files whose worker is gone without deleting them

vars == <<runs, reports, files, job, reading, mishaps, leaked>>

NoRun    == 0
Due      == 1
Pending  == 2
Expiries == {0, Due, Pending}

(* An object key names the run and a fresh artifact id; an attempt makes   *)
(* one id per format.                                                      *)
Key == [run : Runs, token : Nat, format : Formats]
NoKey == [run |-> NoRun, token |-> 0, format |-> "none"]

(* keys: the formats whose file this call has stored.                      *)
Job == [pc    : {"idle", "working", "storing", "returning", "cleanup"},
        run   : Runs \union {NoRun},
        token : Nat,
        keys  : SUBSET Formats]
NoJob == [pc |-> "idle", run |-> NoRun, token |-> 0, keys |-> {}]

Trouble == {"crash", "error", "readback", "overrun"}
Allowance == [crash    |-> MaxCrashes,
              error    |-> MaxErrors,
              readback |-> MaxReadBackErrors,
              overrun  |-> MaxOverruns]

Init ==
  /\ runs = [r \in Runs |-> NoRow]
  /\ reports = {}
  /\ files = {}
  /\ job = [w \in Workers |-> NoJob]
  /\ reading = [c \in Readers |-> NoKey]
  /\ mishaps = [t \in Trouble |-> 0]
  /\ leaked = {}

Strike(trouble) ==
  /\ mishaps[trouble] < Allowance[trouble]
  /\ mishaps' = [mishaps EXCEPT ![trouble] = @ + 1]

-----------------------------------------------------------------------------
(* Clients *)

Create(r) ==
  /\ runs[r].status = "absent"
  /\ runs' = [runs EXCEPT ![r] = NewRow]
  /\ UNCHANGED <<reports, files, job, reading, mishaps, leaked>>

Cancel(r) ==
  /\ runs[r].status \in Active
  /\ runs' = [runs EXCEPT ![r] = CancelledRow(@)]
  /\ UNCHANGED <<reports, files, job, reading, mishaps, leaked>>

(* The cascade takes the stored files along.                               *)
Delete_WithFiles(r) ==
  /\ Exists(runs[r])
  /\ runs' = [runs EXCEPT ![r] = DeletedRow(@)]
  /\ reports' = {k \in reports : k.run # r}
  /\ files' = files \ {k \in reports : k.run = r}
  /\ UNCHANGED <<job, reading, mishaps, leaked>>

(* The project goes, and the cascade takes its runs and their report rows. *)
(* Nothing deletes the files.                                              *)
Delete(r) ==
  /\ Exists(runs[r])
  /\ runs' = [runs EXCEPT ![r] = DeletedRow(@)]
  /\ reports' = {k \in reports : k.run # r}
  /\ UNCHANGED <<files, job, reading, mishaps, leaked>>

(* read_report looks the row up in a session of its own, then opens the    *)
(* file.                                                                   *)
LookUpReport(c, k) ==
  /\ reading[c] = NoKey
  /\ k \in reports
  /\ reading' = [reading EXCEPT ![c] = k]
  /\ UNCHANGED <<runs, reports, files, job, mishaps, leaked>>

ReadFile(c) ==
  /\ reading[c] # NoKey
  /\ reading' = [reading EXCEPT ![c] = NoKey]
  /\ UNCHANGED <<runs, reports, files, job, mishaps, leaked>>

-----------------------------------------------------------------------------
(* Time *)

WorkingOn(r) ==
  {w \in Workers : /\ job[w].pc # "idle"
                   /\ job[w].run = r
                   /\ job[w].token = runs[r].token}

LeaseRunsOut(r) ==
  /\ runs[r].expires = Pending
  /\ runs' = [runs EXCEPT ![r].expires = Due]
  /\ UNCHANGED <<reports, files, job, reading, leaked>>

ExpireAbandoned(r) ==
  /\ WorkingOn(r) = {}
  /\ LeaseRunsOut(r)
  /\ UNCHANGED mishaps

(* process_next asks for 300 seconds and never sends a heartbeat.          *)
Overrun(r) ==
  /\ WorkingOn(r) # {}
  /\ LeaseRunsOut(r)
  /\ Strike("overrun")

-----------------------------------------------------------------------------
(* process_next *)

(* Run and artifact id are swapped in the key.                             *)
KeyOf_Swapped(w, format) ==
  [run |-> job[w].token, token |-> job[w].run, format |-> format]

KeyOf(w, format) ==
  [run |-> job[w].run, token |-> job[w].token, format |-> format]
KeysOf(w) == {KeyOf(w, format) : format \in job[w].keys}

(* transition(claim, target) returns True.                                 *)
Permitted(w, target) ==
  LET row == runs[job[w].run] IN
  /\ Exists(row)
  /\ MayTransition(row.status, target)
  /\ HoldsLease(row, OwnerOf[w], job[w].token, Due)

NextRun(r) ==
  /\ Claimable(runs[r], Due)
  /\ \A q \in Runs : q < r => ~Claimable(runs[q], Due)

(* The first transaction: claim_next and the transition to running, which  *)
(* finds the row as the claim has just written it.                         *)
Claim(w) ==
  /\ job[w].pc = "idle"
  /\ \E r \in Runs :
       LET row == TransitionedRow(ClaimedRow(runs[r], OwnerOf[w], Pending),
                                  "running")
       IN  /\ NextRun(r)
           /\ runs' = [runs EXCEPT ![r] = row]
           /\ job' = [job EXCEPT ![w] =
                [pc |-> "working", run |-> r, token |-> row.token, keys |-> {}]]
  /\ UNCHANGED <<reports, files, reading, mishaps, leaked>>

(* The benchmark is done; the second transaction.                          *)
Evaluate(w) ==
  /\ job[w].pc = "working"
  /\ \/ /\ Permitted(w, "evaluating")
        /\ runs' = [runs EXCEPT ![job[w].run] = TransitionedRow(@, "evaluating")]
        /\ job' = [job EXCEPT ![w].pc = "storing"]
     \/ /\ ~Permitted(w, "evaluating")
        /\ job' = [job EXCEPT ![w].pc = "cleanup"]
        /\ UNCHANGED runs
  /\ UNCHANGED <<reports, files, reading, mishaps, leaked>>

(* The file is stored but its key is not noted for the clean-up.           *)
Put_KeyForgotten(w) ==
  /\ job[w].pc = "storing"
  /\ \E format \in Formats \ job[w].keys :
       /\ files' = files \union {KeyOf(w, format)}
       /\ \E noted \in {job[w].keys, job[w].keys \union {format}} :
            job' = [job EXCEPT ![w].keys = noted]
  /\ UNCHANGED <<runs, reports, reading, mishaps, leaked>>

Put(w) ==
  /\ job[w].pc = "storing"
  /\ \E format \in Formats \ job[w].keys :
       /\ files' = files \union {KeyOf(w, format)}
       /\ job' = [job EXCEPT ![w].keys = @ \union {format}]
  /\ UNCHANGED <<runs, reports, reading, mishaps, leaked>>

(* The rows are committed before the fenced update has its say.            *)
Complete_RowsFirst(w) ==
  /\ job[w].pc = "storing"
  /\ job[w].keys = Formats
  /\ reports' = reports \union KeysOf(w)
  /\ \/ /\ Permitted(w, "completed")
        /\ runs' = [runs EXCEPT ![job[w].run] = TransitionedRow(@, "completed")]
        /\ job' = [job EXCEPT ![w].pc = "returning"]
     \/ /\ ~Permitted(w, "completed")
        /\ job' = [job EXCEPT ![w].pc = "cleanup"]
        /\ UNCHANGED runs
  /\ UNCHANGED <<files, reading, mishaps, leaked>>

(* The third transaction: the report rows and the outcome, or neither.     *)
Complete(w) ==
  /\ job[w].pc = "storing"
  /\ job[w].keys = Formats
  /\ \/ /\ Permitted(w, "completed")
        /\ reports' = reports \union KeysOf(w)
        /\ runs' = [runs EXCEPT ![job[w].run] = TransitionedRow(@, "completed")]
        /\ job' = [job EXCEPT ![w].pc = "returning"]
     \/ /\ ~Permitted(w, "completed")
        /\ job' = [job EXCEPT ![w].pc = "cleanup"]
        /\ UNCHANGED <<runs, reports>>
  /\ UNCHANGED <<files, reading, mishaps, leaked>>

(* The get_run that follows the commit, and the return.                    *)
ReadBack(w) ==
  /\ job[w].pc = "returning"
  /\ job' = [job EXCEPT ![w] = NoJob]
  /\ UNCHANGED <<runs, reports, files, reading, mishaps, leaked>>

(* It is inside the try: when it raises, or the answer to the commit is    *)
(* lost, the same clean-up runs.                                           *)
ReadBackRaises(w) ==
  /\ job[w].pc = "returning"
  /\ Strike("readback")
  /\ job' = [job EXCEPT ![w].pc = "cleanup"]
  /\ UNCHANGED <<runs, reports, files, reading, leaked>>

(* The benchmark, a transaction that rolls back, or a put that raises; put *)
(* then leaves no file.                                                    *)
Raise(w) ==
  /\ job[w].pc \in {"working", "storing"}
  /\ Strike("error")
  /\ job' = [job EXCEPT ![w].pc = "cleanup"]
  /\ UNCHANGED <<runs, reports, files, reading, leaked>>

DeleteFile(w) ==
  /\ job[w].pc = "cleanup"
  /\ \E format \in job[w].keys :
       /\ files' = files \ {KeyOf(w, format)}
       /\ job' = [job EXCEPT ![w].keys = @ \ {format}]
  /\ UNCHANGED <<runs, reports, reading, mishaps, leaked>>

(* Fails whatever run has the id, without asking for the lease.            *)
MarkFailed_Unfenced(w) ==
  LET r == job[w].run IN
  /\ job[w].pc = "cleanup"
  /\ job[w].keys = {}
  /\ runs' = IF runs[r].status \in Active
               THEN [runs EXCEPT ![r] = TransitionedRow(@, "failed")]
               ELSE runs
  /\ job' = [job EXCEPT ![w] = NoJob]
  /\ UNCHANGED <<reports, files, reading, mishaps, leaked>>

(* The last transaction, then the exception goes on to the caller.         *)
MarkFailed(w) ==
  /\ job[w].pc = "cleanup"
  /\ job[w].keys = {}
  /\ runs' = IF Permitted(w, "failed")
               THEN [runs EXCEPT ![job[w].run] = TransitionedRow(@, "failed")]
               ELSE runs
  /\ job' = [job EXCEPT ![w] = NoJob]
  /\ UNCHANGED <<reports, files, reading, mishaps, leaked>>

(* A delete or the last transaction raises; the rest of the clean-up is    *)
(* skipped.                                                                *)
CleanupRaises(w) ==
  /\ job[w].pc = "cleanup"
  /\ Strike("error")
  /\ leaked' = leaked \union KeysOf(w)
  /\ job' = [job EXCEPT ![w] = NoJob]
  /\ UNCHANGED <<runs, reports, files, reading>>

(* The process dies and is started again.                                  *)
Crash(w) ==
  /\ job[w].pc # "idle"
  /\ Strike("crash")
  /\ leaked' = leaked \union KeysOf(w)
  /\ job' = [job EXCEPT ![w] = NoJob]
  /\ UNCHANGED <<runs, reports, files, reading>>

-----------------------------------------------------------------------------

(* The steps of a call of process_next that has a claim.                   *)
Proceed(w) ==
  \/ Evaluate(w)
  \/ Put(w)
  \/ Complete(w)
  \/ ReadBack(w)
  \/ DeleteFile(w)
  \/ MarkFailed(w)

GoWrong(w) ==
  \/ Raise(w)
  \/ ReadBackRaises(w)
  \/ CleanupRaises(w)
  \/ Crash(w)

Next ==
  \/ \E r \in Runs : \/ Create(r)
                     \/ Cancel(r)
                     \/ Delete(r)
                     \/ ExpireAbandoned(r)
                     \/ Overrun(r)
  \/ \E c \in Readers : (\E k \in reports : LookUpReport(c, k)) \/ ReadFile(c)
  \/ \E w \in Workers : Claim(w) \/ Proceed(w) \/ GoWrong(w)

Spec == Init /\ [][Next]_vars

(* A call in progress goes on, time passes, and some process keeps calling *)
(* process_next.  Nothing makes a client, an error or a crash happen.      *)
Fairness ==
  /\ \A w \in Workers : WF_vars(Proceed(w)) /\ WF_vars(Claim(w))
  /\ \A r \in Runs : WF_vars(ExpireAbandoned(r))

FairSpec == Spec /\ Fairness

-----------------------------------------------------------------------------
(* Properties *)

(* The type invariant of this module.                                      *)
TypeOK ==
  /\ runs \in [Runs -> Row]
  /\ \A r \in Runs : runs[r].expires \in Expiries
  /\ reports \subseteq Key
  /\ files \subseteq Key
  /\ job \in [Workers -> Job]
  /\ reading \in [Readers -> Key \union {NoKey}]
  /\ mishaps \in [Trouble -> Nat]
  /\ leaked \subseteq Key

ReportsOf(r) == {k \in reports : k.run = r}

(* A completed run has exactly one report per format, all made by the      *)
(* attempt that completed it and all there to be read; no other run has    *)
(* any.                                                                    *)
ReportsComplete ==
  \A r \in Runs :
    /\ ReportsOf(r) =
         IF runs[r].status = "completed"
           THEN {[run |-> r, token |-> runs[r].token, format |-> f] : f \in Formats}
           ELSE {}
    /\ ReportsOf(r) \subseteq files

(* Every stored file has a row that names it, a worker about to commit or  *)
(* delete it, or a reason: its project was deleted, or its worker died or  *)
(* failed in its clean-up.                                                 *)
FilesAccounted ==
  \A k \in files :
    \/ k \in reports \union leaked
    \/ runs[k.run].status = "deleted"
    \/ \E w \in Workers : k \in KeysOf(w)

(* A read_report that has found the row finds the file.                    *)
ReaderFindsFile ==
  \A c \in Readers : reading[c] # NoKey => reading[c] \in files

Troubles == mishaps["crash"] + mishaps["error"] + mishaps["overrun"]

(* A run is attempted again only after a crash, an error in the clean-up   *)
(* or an overrun, and each of them costs at most one attempt.              *)
RetriesExplained ==
  \A r \in Runs : runs[r].token <= 1 + Troubles

(* An attempt that has lost its run to a later one settles nothing: a run  *)
(* completes or fails only by a step of the worker on its latest attempt.  *)
OnlyItsAttemptSettles ==
  [][\A r \in Runs :
       runs[r].status \in Active /\ runs'[r].status \in {"completed", "failed"} =>
         \E w \in WorkingOn(r) : job'[w] # job[w]]_vars

(* Once submitted, a run reaches an outcome or goes with its project.      *)
EveryRunEnds ==
  \A r \in Runs :
    runs[r].status = "queued" ~> runs[r].status \in Terminal \union {"deleted"}

Lifecycle == INSTANCE RunLifecycle
               WITH phase    <- [r \in Runs |-> PhaseOf(runs[r])],
                    attempts <- [r \in Runs |-> runs[r].token]

(* Workers, however they fail, keep the job queue's promise.               *)
ImplementsLifecycle == Lifecycle!Spec

=============================================================================
