-------------------------- MODULE SandboxRunProofs --------------------------
(***************************************************************************)
(* Theorems about SandboxRun, for any number of processes the child and    *)
(* its descendants may start.                                              *)
(***************************************************************************)
EXTENDS SandboxRun, TLAPS

(* What the caller knows where it is: an answer is decided on the way out, *)
(* only a deadline that has passed leads to the kill, which no running     *)
(* child survives, and a refusal that was seen has left its marker before.  *)
CallerKnows ==
  /\ outcome # "none" <=> caller \in {"leaving", "answered"}
  /\ caller = "called" => child = "none" /\ Holders = {}
  /\ caller # "called" => child # "none"
  /\ caller = "draining" => late /\ child # "running"
  /\ child = "refused" => marker

IInv == TypeOK /\ CallerKnows /\ AnswerMeansQuiet /\ RefusalsReported

-----------------------------------------------------------------------------
(* Once the pipes are closed, no process can open them again: neither the  *)
(* child nor a process that still runs has them to hand on.                *)
LEMMA PipesStayClosed ==
  ASSUME TypeOK, PipesClosed, child # "none", [Next]_vars, caller # "called"
  PROVE  PipesClosed'
<1>1. CASE \E k \in Kids : Spawn(k)
  <2>1. PICK k \in Kids : Spawn(k) BY <1>1
  <2>2. kids' = [kids EXCEPT ![k] = "redirected"] /\ child' = child
    BY <2>1 DEF Spawn, PipesClosed
  <2>. QED BY <2>2 DEF PipesClosed, Holders, TypeOK
<1>2. CASE \E k \in Kids : KidExits(k)
  <2>1. PICK k \in Kids : KidExits(k) BY <1>2
  <2>2. kids' = [kids EXCEPT ![k] = "exited"] /\ child' = child
    BY <2>1 DEF KidExits
  <2>. QED BY <2>2 DEF PipesClosed, Holders, TypeOK
<1>3. CASE Caller \/ Expire \/ Exit \/ PrintMarker \/ UNCHANGED vars
  BY <1>3 DEF Caller, Start, Collect, Kill, Drain, Leave, Expire, Exit,
     PrintMarker, PipesClosed, Holders, vars
<1>4. CASE \E op \in {"write", "socket"} : Refused(op)
  BY <1>4 DEF Refused, PipesClosed
<1>. QED BY <1>1, <1>2, <1>3, <1>4 DEF Next, Code

LEMMA TypeStep == TypeOK /\ [Next]_vars => TypeOK'
<1>. SUFFICES ASSUME TypeOK, [Next]_vars PROVE TypeOK' OBVIOUS
<1>1. CASE \E k \in Kids : Spawn(k) \/ KidExits(k)
  <2>1. PICK k \in Kids : Spawn(k) \/ KidExits(k) BY <1>1
  <2>2. kids' \in [Kids -> {"none", "holds_pipes", "redirected", "exited"}]
    BY <2>1 DEF Spawn, KidExits, TypeOK
  <2>. QED BY <2>1, <2>2 DEF Spawn, KidExits, TypeOK
<1>2. CASE Caller
  BY <1>2 DEF TypeOK, Caller, Start, Collect, Kill, Drain, Leave, Verdict
<1>3. CASE Expire \/ PrintMarker \/ Exit \/ UNCHANGED vars
  BY <1>3 DEF TypeOK, Expire, PrintMarker, Exit, vars
<1>4. CASE \E op \in {"write", "socket"} : Refused(op)
  BY <1>4 DEF TypeOK, Refused
<1>. QED BY <1>1, <1>2, <1>3, <1>4 DEF Next, Code

-----------------------------------------------------------------------------
LEMMA KnowsStep == IInv /\ [Next]_vars => CallerKnows'
<1>. SUFFICES ASSUME IInv, [Next]_vars PROVE CallerKnows' OBVIOUS
<1>. USE DEF IInv, CallerKnows
<1>1. CASE Start
  BY <1>1 DEF Start, Holders
<1>2. CASE Collect \/ Kill \/ Drain \/ Leave
  BY <1>2 DEF Collect, Kill, Drain, Leave, Verdict, TypeOK, PipesClosed
<1>3. CASE Expire \/ PrintMarker \/ Exit \/ UNCHANGED vars
  BY <1>3 DEF Expire, PrintMarker, Exit, vars, Holders
<1>4. CASE \E op \in {"write", "socket"} : Refused(op)
  BY <1>4 DEF Refused
<1>5. CASE \E k \in Kids : Spawn(k) \/ KidExits(k)
  <2>1. PICK k \in Kids : Spawn(k) \/ KidExits(k) BY <1>5
  <2>2. UNCHANGED <<caller, outcome, child, late, marker>>
    BY <2>1 DEF Spawn, KidExits
  <2>3. caller = "called" => Holders' = {}
    <3>1. SUFFICES ASSUME caller = "called" PROVE Holders' = {} OBVIOUS
    <3>2. child = "none" /\ Holders = {} BY <3>1
    <3>3. kids' = [kids EXCEPT ![k] = "redirected"] \/ kids' = [kids EXCEPT ![k] = "exited"]
      BY <2>1, <3>2 DEF Spawn, KidExits
    <3>. QED BY <3>2, <3>3 DEF Holders, TypeOK
  <2>. QED BY <2>2, <2>3
<1>. QED BY <1>1, <1>2, <1>3, <1>4, <1>5 DEF Next, Caller, Code

LEMMA QuietStep == IInv /\ [Next]_vars => AnswerMeansQuiet'
<1>. SUFFICES ASSUME IInv, [Next]_vars PROVE AnswerMeansQuiet' OBVIOUS
<1>1. (outcome # "none" => PipesClosed)'
  <2>1. CASE outcome # "none"
    <3>1. PipesClosed /\ caller # "called" /\ child # "none"
      BY <2>1 DEF IInv, CallerKnows, AnswerMeansQuiet
    <3>. QED BY <3>1, PipesStayClosed DEF IInv
  <2>2. CASE outcome = "none" /\ (Collect \/ Drain)
    BY <2>2 DEF Collect, Drain, PipesClosed, Holders
  <2>3. CASE outcome = "none" /\ ~Collect /\ ~Drain
    BY <2>3 DEF Next, Caller, Code, Start, Kill, Leave, Expire, Refused,
       PrintMarker, Exit, Spawn, KidExits, vars
  <2>. QED BY <2>1, <2>2, <2>3
<1>2. (caller = "answered" => ~dir)'
  BY DEF IInv, AnswerMeansQuiet, Next, Caller, Code, Start, Collect, Kill, Drain,
     Leave, Expire, Refused, PrintMarker, Exit, Spawn, KidExits, vars
<1>. QED BY <1>1, <1>2 DEF AnswerMeansQuiet

LEMMA ReportStep == IInv /\ [Next]_vars => RefusalsReported'
<1>. SUFFICES ASSUME IInv, [Next]_vars PROVE RefusalsReported' OBVIOUS
<1>. USE DEF IInv, CallerKnows, RefusalsReported
<1>1. CASE Caller
  BY <1>1 DEF Caller, Start, Collect, Kill, Drain, Leave, Verdict
<1>2. CASE \E op \in {"write", "socket"} : Refused(op)
  BY <1>2 DEF Refused, AnswerMeansQuiet, PipesClosed
<1>3. CASE Expire \/ PrintMarker \/ Exit \/ UNCHANGED vars
  BY <1>3 DEF Expire, PrintMarker, Exit, vars
<1>4. CASE \E k \in Kids : Spawn(k) \/ KidExits(k)
  BY <1>4 DEF Spawn, KidExits
<1>. QED BY <1>1, <1>2, <1>3, <1>4 DEF Next, Code

-----------------------------------------------------------------------------
(* The invariant holds in every state of run_python and its processes.     *)
THEOREM InvariantHolds == Spec => []IInv
<1>1. Init => IInv
  BY DEF Init, IInv, TypeOK, CallerKnows, AnswerMeansQuiet, RefusalsReported, Holders
<1>2. IInv /\ [Next]_vars => IInv'
  BY TypeStep, KnowsStep, QuietStep, ReportStep DEF IInv
<1>. QED BY <1>1, <1>2, PTL DEF Spec

(* An answer of run_python means that the child has ended, that nobody     *)
(* writes to the pipes any more, and that the directory is removed.        *)
THEOREM AnswerMeansQuietHolds == Spec => []AnswerMeansQuiet
<1>1. IInv => AnswerMeansQuiet BY DEF IInv
<1>. QED BY <1>1, InvariantHolds, PTL

(* Code that a guard has stopped with a traceback is never answered with a *)
(* result, and a timeout is answered only after the deadline.              *)
THEOREM RefusalsReportedHolds == Spec => []RefusalsReported
<1>1. IInv => RefusalsReported BY DEF IInv
<1>. QED BY <1>1, InvariantHolds, PTL

=============================================================================
