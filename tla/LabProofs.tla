------------------------------ MODULE LabProofs ------------------------------
(***************************************************************************)
(* Proofs about the commands of the lab, for every pool of payloads, every *)
(* set of plugins, every number of iterations, and whichever models and    *)
(* writes fail.  The corpus, the tasks and the agents are the ones of the  *)
(* source.                                                                 *)
(***************************************************************************)
EXTENDS PoolProofs

-----------------------------------------------------------------------------
(* What the detectors and the judges can answer.                           *)

LEMMA HeuristicType ==
  ASSUME NEW trace
  PROVE  Heuristic(trace) \in Verdicts
  BY DEF Heuristic, Verdicts

LEMMA JudgeVerdictsType ==
  ASSUME NEW live, NEW trace
  PROVE  JudgeVerdicts(live, trace) \subseteq Verdicts \union {"unavailable"}
<1>1. StubVerdict(trace) \in Verdicts
  BY HeuristicType DEF StubVerdict, Verdicts
<1>2. \A a \in Answers : LiveVerdict(a) \in Verdicts \union {"unavailable"}
  BY DEF LiveVerdict, Verdicts
<1> QED BY <1>1, <1>2 DEF JudgeVerdicts

LEMMA CombinedType ==
  ASSUME NEW trace, NEW a \in Answers
  PROVE  Combined(trace, a) \in Verdicts
<1>1. LLMVerdict(a) \in Verdicts
  BY DEF LLMVerdict, Verdicts
<1> QED BY <1>1, HeuristicType DEF Combined, Worse

(* Nothing that a model answers makes less of a trace that the heuristic   *)
(* finds malicious.                                                        *)
LEMMA CombinedKeeps ==
  ASSUME NEW trace, NEW a, Heuristic(trace) = "malicious"
  PROVE  Combined(trace, a) = "malicious"
  BY DEF Combined, Worse, Rank

LEMMA MaliciousReaches ==
  ASSUME NEW minimum
  PROVE  Reaches("malicious", minimum)
  BY DEF Reaches, Rank

-----------------------------------------------------------------------------
(* The tables of the source that the steps index.                          *)

LEMMA ProfilesTable == Len(Profiles) = 5 /\ DOMAIN Profiles = 1..5
  BY DEF Profiles

LEMMA TasksTable == Len(Tasks) = 10 /\ DOMAIN Tasks = 1..10
  BY ProfilesTable DEF Tasks

LEMMA ScenariosTable == Len(Scenarios) = 13 /\ DOMAIN Scenarios = 1..13
  BY DEF Scenarios

-----------------------------------------------------------------------------
(* Which actions are those of a command.                                   *)

LEMMA JobKinds ==
  ASSUME job \in Jobs
  PROVE  /\ job.command = "import" => job \in ImportJobs
         /\ job.command = "plan" => job \in PlanJobs
         /\ job.command = "atlas" => job \in AtlasJobs
         /\ job.command = "benchmark" => job \in BenchmarkJobs
         /\ job.command = "scan" => job \in ScanJobs
         /\ job.command = "run" => job \in RunJobs
         /\ job.command \in {"import", "plan", "atlas", "benchmark", "scan",
                             "metrics", "defend", "run"}
  BY DEF Jobs, ImportJobs, PlanJobs, AtlasJobs, BenchmarkJobs, ScanJobs,
         MetricsJobs, DefendJobs, RunJobs

LEMMA CampaignSteps ==
  ASSUME Campaigns
  PROVE  /\ job' = job
         /\ pc \notin {"answered", "refused", "raised"}
         /\ \/ job.command = "import" /\ LoadPlugin
            \/ job.command = "plan" /\ (PlanRefuse \/ Materialize)
            \/ job.command = "atlas" /\
                 (AtlasRefuse \/ AtlasIterate \/ AtlasEvidence \/ AtlasReport)
  BY DEF Campaigns, LoadPlugin, PlanRefuse, Materialize, AtlasRefuse, AtlasIterate,
         AtlasEvidence, EvidenceUnencodable, AtlasReport, WriteText, At

LEMMA BenchmarkSteps ==
  ASSUME Benchmarks
  PROVE  /\ job' = job
         /\ pc \notin {"answered", "refused", "raised"}
         /\ job.command = "benchmark"
         /\ DryRun \/ RunTask \/ BenchmarkEvidence \/ BenchmarkReport
  BY DEF Benchmarks, DryRun, RunTask, BenchmarkEvidence, BenchmarkReport,
         WriteAtomically, At

LEMMA ScanSteps ==
  ASSUME Scans
  PROVE  /\ job' = job
         /\ pc \notin {"answered", "refused", "raised"}
         /\ job.command = "scan"
         /\ StartScan \/ Mission \/ Detect \/ Unresolved \/ Fallback
  BY DEF Scans, StartScan, Mission, Detect, Unresolved, Fallback, At

LEMMA EvaluationSteps ==
  ASSUME Evaluations
  PROVE  /\ job' = job
         /\ pc \notin {"answered", "refused", "raised"}
         /\ \/ job.command = "metrics" /\ (Measure \/ MetricsReport \/ MetricsResults)
            \/ job.command = "defend" /\ Defend
            \/ job.command = "run" /\ (RunScenario \/ RunReport \/ RunResults)
  BY DEF Evaluations, Measure, MetricsReport, MetricsResults, Defend, RunScenario,
         RunReport, RunResults, WriteText, At

LEMMA StepsOf ==
  ASSUME [Next]_vars
  PROVE  /\ job' = job
         /\ job.command = "import" => LoadPlugin \/ UNCHANGED vars
         /\ job.command = "plan" => PlanRefuse \/ Materialize \/ UNCHANGED vars
         /\ job.command = "atlas" =>
              \/ AtlasRefuse \/ AtlasIterate \/ AtlasEvidence \/ AtlasReport
              \/ UNCHANGED vars
         /\ job.command = "benchmark" =>
              \/ DryRun \/ RunTask \/ BenchmarkEvidence \/ BenchmarkReport
              \/ UNCHANGED vars
         /\ job.command = "scan" =>
              \/ StartScan \/ Mission \/ Detect \/ Unresolved \/ Fallback
              \/ UNCHANGED vars
         /\ job.command = "metrics" =>
              Measure \/ MetricsReport \/ MetricsResults \/ UNCHANGED vars
         /\ job.command = "defend" => Defend \/ UNCHANGED vars
         /\ job.command = "run" =>
              RunScenario \/ RunReport \/ RunResults \/ UNCHANGED vars
<1>1. CASE UNCHANGED vars
  BY <1>1 DEF vars
<1>2. CASE Campaigns
  BY <1>2, CampaignSteps
<1>3. CASE Benchmarks
  BY <1>3, BenchmarkSteps
<1>4. CASE Scans
  BY <1>4, ScanSteps
<1>5. CASE Evaluations
  BY <1>5, EvaluationSteps
<1> QED BY <1>1, <1>2, <1>3, <1>4, <1>5 DEF Next

-----------------------------------------------------------------------------
(* Types.                                                                  *)

Places == {"work", "mission", "detect", "fallback", "evidence", "report",
           "results", "answered", "refused", "raised"}

LEMMA DeviatesType ==
  ASSUME NEW x, NEW usual, odd \in Nat, Deviates(x, usual)
  PROVE  odd' \in Nat
  BY DEF Deviates

Disks == [md : {"none", "old", "partial", "report"},
          json : {"none", "old", "partial", "report", "evidence"},
          temp : {"none", "partial"}]

LEMMA PutType ==
  ASSUME disk \in Disks, NEW file \in {"md", "json", "temp"}, NEW content, Put(file, content),
         \/ content = "partial"
         \/ content = "report" /\ file # "temp"
         \/ content = "evidence" /\ file = "json"
  PROVE  disk' \in Disks
BY DEF Disks, Put

LEMMA WriteTextType ==
  ASSUME TypeOK, NEW suffix \in {"md", "json"}, NEW content,
         content = "report" \/ (suffix = "json" /\ content = "evidence"),
         NEW next \in Places, WriteText(suffix, content, next)
  PROVE  TypeOK'
<1>1. disk \in Disks BY DEF TypeOK, Disks
<1>2. pc' \in Places /\ disk' \in Disks
  BY <1>1, PutType DEF WriteText, Places
<1> QED BY <1>2 DEF WriteText, TypeOK, Places, Disks

LEMMA WriteAtomicallyType ==
  ASSUME TypeOK, NEW suffix \in {"md", "json"}, NEW content,
         content = "report" \/ (suffix = "json" /\ content = "evidence"),
         NEW next \in Places, WriteAtomically(suffix, content, next)
  PROVE  TypeOK'
<1>1. disk \in Disks BY DEF TypeOK, Disks
<1>2. pc' \in Places /\ disk' \in Disks
  BY <1>1, PutType DEF WriteAtomically, Places
<1> QED BY <1>2 DEF WriteAtomically, TypeOK, Places, Disks

LEMMA TypeStep ==
  ASSUME TypeOK, [Next]_vars
  PROVE  TypeOK'
<1>1. CASE UNCHANGED vars
  BY <1>1 DEF TypeOK, vars
<1>2. CASE Campaigns
  <2>1. CASE LoadPlugin \/ PlanRefuse \/ Materialize \/ AtlasRefuse
    <3>1. pc' \in Places
      BY <2>1 DEF LoadPlugin, PlanRefuse, Materialize, AtlasRefuse, TypeOK, Places
    <3>2. UNCHANGED <<job, errors, disk, odd>>
      BY <2>1 DEF LoadPlugin, PlanRefuse, Materialize, AtlasRefuse
    <3> QED BY <3>1, <3>2 DEF TypeOK, Places
  <2>2. CASE AtlasIterate
    <3>1. pc' \in Places /\ UNCHANGED <<job, errors, disk>>
      BY <2>2 DEF AtlasIterate, TypeOK, Places
    <3>2. odd' \in Nat
      BY <2>2, DeviatesType DEF AtlasIterate, TypeOK
    <3> QED BY <3>1, <3>2 DEF TypeOK, Places
  <2>3. CASE AtlasEvidence
    <3>1. CASE WriteText("json", "evidence", "report")
      BY <3>1, WriteTextType DEF Places
    <3>2. CASE EvidenceUnencodable
      <4>1. disk \in Disks BY DEF TypeOK, Disks
      <4>2. disk' \in Disks BY <3>2, <4>1, PutType DEF EvidenceUnencodable
      <4> QED BY <3>2, <4>2 DEF EvidenceUnencodable, TypeOK, Disks
    <3> QED BY <2>3, <3>1, <3>2 DEF AtlasEvidence
  <2>4. CASE AtlasReport
    <3>1. job.report \in {"md", "json"}
      BY <2>4, JobKinds DEF AtlasReport, At, TypeOK, AtlasJobs
    <3> QED BY <2>4, <3>1, WriteTextType DEF AtlasReport, Places
  <2> QED BY <1>2, <2>1, <2>2, <2>3, <2>4 DEF Campaigns
<1>3. CASE Benchmarks
  <2>1. CASE DryRun
    BY <2>1 DEF DryRun, TypeOK
  <2>2. CASE RunTask
    <3>1. pc' \in Places /\ UNCHANGED <<job, errors, disk>>
      BY <2>2 DEF RunTask, TypeOK, Places
    <3>2. odd' \in Nat
      BY <2>2, DeviatesType DEF RunTask, TypeOK
    <3> QED BY <3>1, <3>2 DEF TypeOK, Places
  <2>3. CASE BenchmarkEvidence
    BY <2>3, WriteAtomicallyType DEF BenchmarkEvidence, Places
  <2>4. CASE BenchmarkReport
    <3>1. job.report \in {"md", "json"}
      BY <2>4, JobKinds DEF BenchmarkReport, At, TypeOK, BenchmarkJobs
    <3> QED BY <2>4, <3>1, WriteAtomicallyType DEF BenchmarkReport, Places
  <2> QED BY <1>3, <2>1, <2>2, <2>3, <2>4 DEF Benchmarks
<1>4. CASE Scans
  <2>1. CASE StartScan \/ Unresolved \/ Fallback
    BY <2>1 DEF StartScan, Unresolved, Fallback, TypeOK
  <2>2. CASE Mission
    <3>1. pc' \in Places /\ UNCHANGED <<job, disk>>
      BY <2>2 DEF Mission, TypeOK, Places
    <3>2. errors' \subseteq Range(Roles) \union {"detector"}
      BY <2>2 DEF Mission, TypeOK
    <3>3. odd' \in Nat
      BY <2>2, DeviatesType DEF Mission, TypeOK
    <3> QED BY <3>1, <3>2, <3>3 DEF TypeOK, Places
  <2>3. CASE Detect
    <3>1. pc' \in Places /\ UNCHANGED <<job, disk>>
      BY <2>3 DEF Detect, TypeOK, Places
    <3>2. errors' \subseteq Range(Roles) \union {"detector"}
      BY <2>3 DEF Detect, TypeOK
    <3>3. odd' \in Nat
      BY <2>3, DeviatesType DEF Detect, TypeOK
    <3> QED BY <3>1, <3>2, <3>3 DEF TypeOK, Places
  <2> QED BY <1>4, <2>1, <2>2, <2>3 DEF Scans
<1>5. CASE Evaluations
  <2>1. CASE Measure \/ Defend
    BY <2>1 DEF Measure, Defend, TypeOK
  <2>2. CASE RunScenario
    <3>1. pc' \in Places /\ UNCHANGED <<job, errors, disk>>
      BY <2>2 DEF RunScenario, TypeOK, Places
    <3>2. odd' \in Nat
      BY <2>2, DeviatesType DEF RunScenario, TypeOK
    <3> QED BY <3>1, <3>2 DEF TypeOK, Places
  <2>3. CASE MetricsReport
    BY <2>3, WriteTextType DEF MetricsReport, Places
  <2>4. CASE MetricsResults
    BY <2>4, WriteTextType DEF MetricsResults, Places
  <2>5. CASE RunReport
    <3>1. job.report \in {"md", "json"}
      BY <2>5, JobKinds DEF RunReport, At, TypeOK, RunJobs
    <3> QED BY <2>5, <3>1, WriteTextType DEF RunReport, Places
  <2>6. CASE RunResults
    BY <2>6, WriteTextType DEF RunResults, Places
  <2> QED BY <1>5, <2>1, <2>2, <2>3, <2>4, <2>5, <2>6 DEF Evaluations
<1> QED BY <1>1, <1>2, <1>3, <1>4, <1>5 DEF Next

-----------------------------------------------------------------------------
(* The registry, the plans and the campaigns.                              *)

LEMMA ImportStep ==
  ASSUME TypeOK, ImportOK, [Next]_vars
  PROVE  ImportOK'
<1> SUFFICES ASSUME job.command = "import"
             PROVE  ImportOK'
  BY StepsOf DEF ImportOK
<1> DEFINE Ids == BuiltIn \union Foreign \union {"skipped"}
<1>1. CASE UNCHANGED vars
  BY <1>1 DEF ImportOK, Registered, vars
<1>2. CASE LoadPlugin
  <2> DEFINE plugin == job.plugins[Len(log) + 1]
             skips == plugin.name \in Registered \/ plugin.gives \in {"broken", "other"}
  <2>1. job.plugins \in [1..2 -> Plugins] /\ log \in Seq(Ids)
    BY JobKinds DEF TypeOK, ImportJobs, ImportOK
  <2>2. Len(log) + 1 \in 1..2 /\ Len(job.plugins) = 2
    BY <1>2, <2>1 DEF LoadPlugin
  <2>3. plugin \in Plugins
    BY <2>1, <2>2
  <2>4. CASE ~skips /\ plugin.gives \in Registered
    <3>1. log' = log /\ job' = job
      BY <1>2, <2>4 DEF LoadPlugin
    <3>2. Len(log) + 1 \in DOMAIN job.plugins
      BY <2>1, <2>2
    <3> QED BY <2>1, <2>4, <3>1, <3>2 DEF ImportOK, Registered
  <2>5. CASE ~(~skips /\ plugin.gives \in Registered)
    <3>1. /\ log' = Append(log, IF skips THEN "skipped" ELSE plugin.gives)
          /\ pc' = IF Len(log') = Len(job.plugins) THEN "answered" ELSE pc
          /\ pc = "work"
      BY <1>2, <2>5 DEF LoadPlugin, At
    <3>2. (IF skips THEN "skipped" ELSE plugin.gives) \in Ids
      BY <2>3 DEF Plugins
    <3>3. log' \in Seq(Ids)
      BY <2>1, <3>1, <3>2
    <3> QED BY <3>1, <3>3 DEF ImportOK
  <2> QED BY <2>4, <2>5
<1> QED BY <1>1, <1>2, StepsOf

LEMMA PlanStep ==
  ASSUME TypeOK, PlanOK, [Next]_vars
  PROVE  PlanOK'
<1> SUFFICES ASSUME job.command = "plan"
             PROVE  PlanOK'
  BY StepsOf DEF PlanOK
<1>1. CASE UNCHANGED vars
  BY <1>1 DEF PlanOK, PlanValid, vars
<1>2. CASE PlanRefuse
  BY <1>2 DEF PlanOK, PlanRefuse, PlanValid
<1>3. CASE Materialize
  <2>1. PlanValid' = PlanValid /\ pc \in {"work"} /\ pc' \in {"work", "answered"}
    BY <1>3 DEF Materialize, PlanValid, At
  <2>2. PICK p \in Payloads : log' = Append(log, [payload |-> p])
    BY <1>3 DEF Materialize, Fresh
  <2>3. log' \in Seq([payload : Payloads])
    BY <2>2 DEF PlanOK
  <2> QED BY <1>3, <2>1, <2>3 DEF PlanOK, Materialize
<1> QED BY <1>1, <1>2, <1>3, StepsOf

LEMMA AtlasStep ==
  ASSUME TypeOK, AtlasOK, [Next]_vars
  PROVE  AtlasOK'
<1> SUFFICES ASSUME job.command = "atlas"
             PROVE  AtlasOK'
  BY StepsOf DEF AtlasOK
<1> DEFINE Records == [payload : Payloads, verdict : Verdicts \union {"unavailable"}]
<1>1. CASE UNCHANGED vars
  BY <1>1 DEF AtlasOK, vars
<1>2. CASE AtlasRefuse
  BY <1>2 DEF AtlasOK, AtlasRefuse, At
<1>3. CASE AtlasIterate
  <2>1. /\ job' = job /\ pc = "work"
        /\ pc' = IF Len(log') = job.iterations THEN "evidence" ELSE pc
    BY <1>3 DEF AtlasIterate, At
  <2>2. PICK p \in Fresh(log), v \in JudgeVerdicts(job.live, AtlasTrace) :
          log' = Append(log, [payload |-> p, verdict |-> v])
    BY <1>3 DEF AtlasIterate
  <2>3. [payload |-> p, verdict |-> v] \in Records
    BY JudgeVerdictsType DEF Fresh
  <2>4. log' \in Seq(Records)
    BY <2>2, <2>3 DEF AtlasOK
  <2> QED BY <2>1, <2>4 DEF AtlasOK
<1>4. CASE AtlasEvidence
  BY <1>4 DEF AtlasOK, AtlasEvidence, EvidenceUnencodable, WriteText, At
<1>5. CASE AtlasReport
  BY <1>5 DEF AtlasOK, AtlasReport, WriteText, At
<1> QED BY <1>1, <1>2, <1>3, <1>4, <1>5, StepsOf

LEMMA PoolStep ==
  ASSUME TypeOK, PlanOK, AtlasOK, PoolOK, [Next]_vars
  PROVE  PoolOK'
<1> SUFFICES ASSUME job.command \in {"atlas", "plan"}
             PROVE  EvenlyUsed(log')
  BY StepsOf DEF PoolOK
<1>1. CASE log' = log
  BY <1>1 DEF PoolOK
<1>2. CASE Materialize
  <2>1. PICK p \in Fresh(log) : log' = Append(log, [payload |-> p])
    BY <1>2 DEF Materialize
  <2>2. log \in Seq([payload : Payloads]) /\ [payload |-> p] \in [payload : Payloads]
    BY <1>2 DEF Materialize, At, PlanOK, Fresh
  <2>3. [payload |-> p].payload = p /\ \A e \in [payload : Payloads] : e.payload \in Payloads
    OBVIOUS
  <2> QED BY <2>1, <2>2, <2>3, EvenlyUsedAppended DEF PoolOK
<1>3. CASE AtlasIterate
  <2> DEFINE Records == [payload : Payloads, verdict : Verdicts \union {"unavailable"}]
  <2>1. PICK p \in Fresh(log), v \in JudgeVerdicts(job.live, AtlasTrace) :
          log' = Append(log, [payload |-> p, verdict |-> v])
    BY <1>3 DEF AtlasIterate
  <2> DEFINE record == [payload |-> p, verdict |-> v]
  <2>2. log \in Seq(Records) /\ record \in Records
    BY <1>3, JudgeVerdictsType DEF AtlasIterate, At, AtlasOK, Fresh
  <2>3. record.payload = p /\ \A e \in Records : e.payload \in Payloads
    OBVIOUS
  <2> HIDE DEF Records, record
  <2> QED BY <2>1, <2>2, <2>3, EvenlyUsedAppended DEF PoolOK, record
<1>4. PlanRefuse \/ AtlasRefuse \/ AtlasEvidence \/ AtlasReport \/ UNCHANGED vars
        => log' = log
  BY DEF PlanRefuse, AtlasRefuse, AtlasEvidence, EvidenceUnencodable, AtlasReport,
         WriteText, vars
<1> QED BY <1>1, <1>2, <1>3, <1>4, StepsOf

-----------------------------------------------------------------------------
(* The benchmark.                                                          *)

LEMMA RecordJudged ==
  ASSUME NEW task, NEW v
  PROVE  Record(task, v).judged = v
  BY DEF Record

LEMMA BenchmarkStep ==
  ASSUME TypeOK, BenchmarkOK, [Next]_vars
  PROVE  BenchmarkOK'
<1> SUFFICES ASSUME job.command = "benchmark"
             PROVE  BenchmarkOK'
  BY StepsOf DEF BenchmarkOK
<1> DEFINE Records == {Record(t, v) : t \in Range(Tasks),
                                      v \in Verdicts \union {"unavailable"}}
<1>1. CASE UNCHANGED vars
  BY <1>1 DEF BenchmarkOK, vars
<1>2. CASE DryRun
  BY <1>2 DEF BenchmarkOK, DryRun, At
<1>3. CASE RunTask
  <2> DEFINE n == Len(log) + 1
  <2>1. /\ job' = job /\ pc = "work" /\ ~job.dry
        /\ pc' = IF Len(log') = Len(Tasks) THEN "evidence" ELSE pc
    BY <1>3 DEF RunTask, At
  <2>2. PICK v \in JudgeVerdicts(job.live, TraceOf(Tasks[n])) :
          log' = Append(log, Record(Tasks[n], v))
    BY <1>3 DEF RunTask
  <2>3. log \in Seq(Records) /\ Len(log) < Len(Tasks)
    BY <2>1 DEF BenchmarkOK
  <2>4. n \in DOMAIN Tasks
    BY <2>3, TasksTable
  <2>5. Record(Tasks[n], v) \in Records
    <3>1. Tasks[n] \in Range(Tasks)
      BY <2>4 DEF Range
    <3>2. v \in Verdicts \union {"unavailable"}
      BY JudgeVerdictsType
    <3> QED BY <3>1, <3>2
  <2> HIDE DEF Records
  <2>6. /\ log' \in Seq(Records) /\ DOMAIN log = 1..Len(log) /\ Len(log) \in Nat
        /\ Len(log') = n /\ DOMAIN log' = 1..n
        /\ \A i \in 1..Len(log) : log'[i] = log[i]
        /\ log'[n] = Record(Tasks[n], v)
    BY <2>2, <2>3, <2>5, Appended
  <2>7. ASSUME NEW i \in DOMAIN log'
        PROVE  log'[i] = Record(Tasks[i], log'[i].judged)
    <3>1. CASE i = n
      BY <2>6, <3>1, RecordJudged
    <3>2. CASE i # n
      <4>1. i \in DOMAIN log /\ log'[i] = log[i]
        BY <2>6, <3>2
      <4> QED BY <4>1 DEF BenchmarkOK
    <3> QED BY <3>1, <3>2
  <2>8. Len(log') < Len(Tasks) \/ Len(log') = Len(Tasks)
    BY <2>3, <2>6, TasksTable
  <2> QED BY <2>1, <2>6, <2>7, <2>8 DEF BenchmarkOK, Records
<1>4. CASE BenchmarkEvidence
  BY <1>4 DEF BenchmarkOK, BenchmarkEvidence, WriteAtomically, At
<1>5. CASE BenchmarkReport
  BY <1>5 DEF BenchmarkOK, BenchmarkReport, WriteAtomically, At
<1> QED BY <1>1, <1>2, <1>3, <1>4, <1>5, StepsOf

-----------------------------------------------------------------------------
(* The scan of one agent with one attack.                                  *)

LEMMA UnknownProvider ==
  ASSUME job \in ScanJobs, Provider(job.env) = "unknown"
  PROVE  job.env.named = "unknown"
<1>1. Requested(job.env) = "unknown"
  BY DEF Provider
<1> QED BY <1>1 DEF Requested

LEMMA RolesAreNoDetector == "detector" \notin Range(Roles)
  BY DEF Range, Roles

LEMMA ScanStep ==
  ASSUME TypeOK, ScanOK, [Next]_vars
  PROVE  ScanOK'
<1> SUFFICES ASSUME job.command = "scan"
             PROVE  ScanOK'
  BY StepsOf DEF ScanOK
<1>0. job' = job /\ (Resolved <=> Resolved') /\ ScanTrace' = ScanTrace /\ log \in Seq(Verdicts)
  BY StepsOf DEF Resolved, ScanTrace, ScanOK
<1>1. CASE UNCHANGED vars
  BY <1>0, <1>1 DEF ScanOK, vars
<1>2. CASE StartScan
  <2>1. /\ UNCHANGED <<log, errors>> /\ pc = "work"
        /\ pc' \in {"raised", "mission", "detect"}
        /\ pc' = "raised" => Provider(job.env) = "unknown"
    BY <1>2 DEF StartScan, At
  <2>2. pc' = "raised" => job.env.named = "unknown"
    BY <2>1, JobKinds, UnknownProvider DEF TypeOK
  <2> QED BY <1>0, <2>1, <2>2 DEF ScanOK
<1>3. CASE Mission
  <2>1. log' = log /\ pc = "mission" /\ pc' \in {"mission", "detect"}
    BY <1>3 DEF Mission, At
  <2>2. "detector" \notin errors'
    BY <1>3, <2>1, RolesAreNoDetector DEF Mission, ScanOK
  <2> QED BY <1>0, <2>1, <2>2 DEF ScanOK
<1>4. CASE Detect
  <2>1. PICK a \in Answers :
          IF LLMRaises(a)
          THEN errors' = errors \union {"detector"} /\ log' = <<>> /\ pc' = "fallback"
          ELSE /\ log' = Append(log, Combined(ScanTrace, a))
               /\ pc' = IF Len(log') = job.iterations THEN "answered" ELSE pc
               /\ UNCHANGED errors
    BY <1>4 DEF Detect, Replies, Answers, Verdicts
  <2>2. pc = "detect" /\ Resolved
    BY <1>4 DEF Detect, At
  <2>3. CASE LLMRaises(a)
    <3>1. errors' = errors \union {"detector"} /\ log' = <<>> /\ pc' = "fallback"
      BY <2>1, <2>3
    <3> QED BY <1>0, <2>2, <3>1 DEF ScanOK
  <2>4. CASE ~LLMRaises(a)
    <3>1. /\ log' = Append(log, Combined(ScanTrace, a)) /\ errors' = errors
          /\ pc' = IF Len(log') = job.iterations THEN "answered" ELSE "detect"
      BY <2>1, <2>2, <2>4
    <3>2. Combined(ScanTrace, a) \in Verdicts
      BY CombinedType
    <3>3. log' \in Seq(Verdicts)
      BY <1>0, <3>1, <3>2
    <3>4. ASSUME Heuristic(ScanTrace) = "malicious", NEW i \in DOMAIN log'
          PROVE  log'[i] = "malicious"
      <4>1. \A j \in DOMAIN log : log[j] = "malicious"
        BY <2>2, <3>4 DEF ScanOK
      <4>2. Combined(ScanTrace, a) = "malicious"
        BY <3>4, CombinedKeeps
      <4> QED BY <1>0, <3>1, <3>2, <3>4, <4>1, <4>2, Appended
    <3>5. "detector" \notin errors
      BY <2>2 DEF ScanOK
    <3> QED BY <1>0, <3>1, <3>3, <3>4, <3>5 DEF ScanOK
  <2> QED BY <2>3, <2>4
<1>5. CASE Unresolved
  BY <1>0, <1>5 DEF Unresolved, At, ScanOK
<1>6. CASE Fallback
  <2>1. /\ log' = [i \in 1..job.iterations |-> Heuristic(ScanTrace)]
        /\ pc = "fallback" /\ pc' = "answered" /\ errors' = errors
    BY <1>6 DEF Fallback, At
  <2>2. Resolved /\ "detector" \in errors
    BY <2>1 DEF ScanOK
  <2>3. job.iterations \in Nat \ {0}
    BY <2>2, JobKinds DEF TypeOK, ScanJobs, Resolved
  <2>4. Heuristic(ScanTrace) \in Verdicts
    BY HeuristicType
  <2>5. /\ log' \in Seq(Verdicts) /\ Len(log') = job.iterations
        /\ DOMAIN log' = 1..job.iterations
        /\ \A i \in 1..job.iterations : log'[i] = Heuristic(ScanTrace)
    BY <2>1, <2>3, <2>4
  <2>6. Range(log') = {Heuristic(ScanTrace)}
    BY <2>3, <2>5 DEF Range
  <2> QED BY <1>0, <2>1, <2>2, <2>5, <2>6 DEF ScanOK
<1> QED BY <1>1, <1>2, <1>3, <1>4, <1>5, <1>6, StepsOf

-----------------------------------------------------------------------------
(* The evaluations of the corpus.                                          *)

LEMMA MetricsStep ==
  ASSUME TypeOK, MetricsOK, [Next]_vars
  PROVE  MetricsOK'
<1> SUFFICES ASSUME job.command = "metrics"
             PROVE  MetricsOK'
  BY StepsOf DEF MetricsOK
<1>1. CASE UNCHANGED vars
  BY <1>1 DEF MetricsOK, vars
<1>2. CASE Measure
  BY <1>2 DEF MetricsOK, Measure
<1>3. CASE MetricsReport
  BY <1>3 DEF MetricsOK, MetricsReport, WriteText, At
<1>4. CASE MetricsResults
  BY <1>4 DEF MetricsOK, MetricsResults, WriteText, At
<1> QED BY <1>1, <1>2, <1>3, <1>4, StepsOf

LEMMA DefendStep ==
  ASSUME TypeOK, DefendOK, [Next]_vars
  PROVE  DefendOK'
  BY StepsOf DEF DefendOK, Defend, vars

LEMMA RunStep ==
  ASSUME TypeOK, RunOK, [Next]_vars
  PROVE  RunOK'
<1> SUFFICES ASSUME job.command = "run"
             PROVE  RunOK'
  BY StepsOf DEF RunOK
<1> DEFINE Records ==
      {[attack |-> s.name, verdict |-> v, detected |-> Reaches(v, s.expected)] :
         s \in Range(Scenarios), v \in Verdicts}
<1>1. CASE UNCHANGED vars
  BY <1>1 DEF RunOK, vars
<1>2. CASE RunScenario
  <2> DEFINE n == Len(log) + 1
             s == Scenarios[n]
  <2>1. PICK a \in IF job.router THEN Answers ELSE {"suspicious"} :
          /\ job' = job /\ pc = "work"
          /\ IF LLMRaises(a)
             THEN pc' = "raised" /\ log' = log
             ELSE /\ log' = Append(log, [attack |-> s.name,
                               verdict |-> Combined(ScenarioTrace(Legacy, s), a),
                               detected |-> Reaches(Combined(ScenarioTrace(Legacy, s), a),
                                                    s.expected)])
                  /\ pc' = IF Len(log') = Len(Scenarios) THEN "report" ELSE pc
    BY <1>2 DEF RunScenario, At
  <2>2. log \in Seq(Records) /\ Len(log) < Len(Scenarios)
    BY <2>1 DEF RunOK
  <2>3. a \in Answers
    BY <2>1 DEF Answers, Verdicts
  <2>4. CASE LLMRaises(a)
    <3>1. pc' = "raised" /\ log' = log
      BY <2>1, <2>4
    <3>2. job.router
      BY <2>1, <2>4 DEF LLMRaises
    <3> QED BY <2>1, <2>2, <3>1, <3>2 DEF RunOK
  <2>5. CASE ~LLMRaises(a)
    <3> DEFINE verdict == Combined(ScenarioTrace(Legacy, s), a)
               record == [attack |-> s.name, verdict |-> verdict,
                          detected |-> Reaches(verdict, s.expected)]
    <3>1. /\ log' = Append(log, record)
          /\ pc' = IF Len(log') = Len(Scenarios) THEN "report" ELSE "work"
      BY <2>1, <2>5
    <3>2. record \in Records
      <4>1. n \in DOMAIN Scenarios
        BY <2>2, ScenariosTable
      <4>2. s \in Range(Scenarios)
        BY <4>1 DEF Range
      <4>3. verdict \in Verdicts
        BY <2>3, CombinedType
      <4> QED BY <4>2, <4>3
    <3>3. Heuristic(ScenarioTrace(Legacy, s)) = "malicious" => record.detected
      <4> SUFFICES ASSUME Heuristic(ScenarioTrace(Legacy, s)) = "malicious"
                   PROVE  record.detected
        OBVIOUS
      <4>1. verdict = "malicious"
        BY CombinedKeeps
      <4>2. Reaches(verdict, s.expected)
        BY <4>1, MaliciousReaches
      <4> QED BY <4>2
    <3> HIDE DEF Records, record
    <3>4. /\ log' \in Seq(Records) /\ Len(log) \in Nat
          /\ DOMAIN log = 1..Len(log)
          /\ Len(log') = n /\ DOMAIN log' = 1..n /\ log'[n] = record
          /\ \A i \in 1..Len(log) : log'[i] = log[i]
      BY <2>2, <3>1, <3>2, Appended
    <3>5. ASSUME NEW i \in DOMAIN log',
                 Heuristic(ScenarioTrace(Legacy, Scenarios[i])) = "malicious"
          PROVE  log'[i].detected
      <4>1. CASE i = n
        BY <3>3, <3>4, <3>5, <4>1
      <4>2. CASE i # n
        <5>1. i \in DOMAIN log /\ log'[i] = log[i]
          BY <3>4, <4>2
        <5> QED BY <3>5, <5>1 DEF RunOK
      <4> QED BY <4>1, <4>2
    <3>6. Len(log') < Len(Scenarios) \/ Len(log') = Len(Scenarios)
      BY <2>2, <3>4, ScenariosTable
    <3> QED BY <2>1, <3>1, <3>4, <3>5, <3>6 DEF RunOK, Records
  <2> QED BY <2>4, <2>5
<1>3. CASE RunReport
  BY <1>3 DEF RunOK, RunReport, WriteText, At
<1>4. CASE RunResults
  BY <1>4 DEF RunOK, RunResults, WriteText, At
<1> QED BY <1>1, <1>2, <1>3, <1>4, StepsOf

-----------------------------------------------------------------------------
(* The files of a process that has not written yet, and is not dead.       *)
LEMMA NothingWritten ==
  ASSUME TypeOK, DiskOK, pc \notin {"refused", "raised"}, Written = {}
  PROVE  Kept("md") /\ Kept("json") /\ disk.temp = "none"
BY DEF TypeOK, DiskOK, LossesContained

(* A step that writes nothing, of a process that has written nothing.      *)
LEMMA QuietStep ==
  ASSUME TypeOK, DiskOK, job' = job, disk' = disk,
         pc \notin {"refused", "raised"}, Written = {}, Written' = {},
         pc' = "answered" => Outputs = {},
         pc' = "report" => job.command \notin {"atlas", "benchmark"}
  PROVE  DiskOK'
<1>1. Kept("md") /\ Kept("json") /\ disk.temp = "none"
  BY NothingWritten
<1>2. Outputs' = Outputs BY DEF Outputs
<1>3. /\ disk.md # "partial" /\ disk.json # "partial" /\ disk.temp # "partial"
      /\ DOMAIN disk = {"md", "json", "temp"}
  BY <1>1 DEF Kept, TypeOK
<1>4. EvidenceFirst' BY <1>1 DEF EvidenceFirst, Kept
<1>5. LossesContained' BY <1>1, <1>2, <1>3 DEF LossesContained, Kept
<1> QED BY <1>1, <1>4, <1>5 DEF DiskOK, Kept

(* A write that succeeds.                                                  *)
LEMMA WrittenStep ==
  ASSUME TypeOK, DiskOK, job' = job, NEW s \in {"md", "json"}, s \in Outputs,
         NEW content \in {"report", "evidence"}, Put(s, content),
         pc \notin {"refused", "raised"}, pc' \notin {"refused", "raised"},
         Written' = Written \union {s}, Written' \subseteq Outputs,
         pc' = "report" /\ job.command \in {"atlas", "benchmark"} => disk'.json = "evidence",
         EvidenceFirst'
  PROVE  DiskOK'
<1>1. Outputs' = Outputs BY DEF Outputs
<1>2. /\ disk'[s] = content
      /\ \A u \in {"md", "json", "temp"} : u # s => disk'[u] = disk[u]
      /\ DOMAIN disk = {"md", "json", "temp"} /\ DOMAIN disk' = {"md", "json", "temp"}
  BY DEF Put, TypeOK
<1>3. \A u \in {"md", "json"} : IF u \in Written' THEN Whole(u)' ELSE Kept(u)'
  BY <1>2 DEF DiskOK, Whole, Kept
<1>4. disk'["temp"] = "none"
  BY <1>2 DEF DiskOK, LossesContained, TypeOK
<1>5. \A u \in {"md", "json", "temp"} : disk'[u] # "partial"
  BY <1>3, <1>4 DEF Whole, Kept
<1>6. LossesContained'
  <2>1. pc' = "answered" => Written' = Outputs' BY DEF Written
  <2>. QED BY <1>1, <1>2, <1>3, <1>4, <1>5, <2>1 DEF LossesContained
<1> QED BY <1>1, <1>3, <1>6 DEF DiskOK

(* A write that fails.                                                     *)
LEMMA LostStep ==
  ASSUME TypeOK, DiskOK, job' = job, pc \notin {"refused", "raised"},
         \/ pc' = "raised"
         \/ pc' = "refused" /\ job.command = "atlas" /\ job.live,
         \/ disk' = disk
         \/ \E s \in {"md", "json"} :
              s \in Outputs /\ job.command # "benchmark" /\ Put(s, "partial")
         \/ job.command = "benchmark" /\ pc' = "raised" /\ Put("temp", "partial"),
         EvidenceFirst'
  PROVE  DiskOK'
<1>1. Outputs' = Outputs BY DEF Outputs
<1>2. /\ \A u \in {"md", "json"} : Whole(u) \/ Kept(u)
      /\ \A u \in {"md", "json"} \ Outputs : Kept(u)
      /\ disk["temp"] = "none"
  BY DEF DiskOK, LossesContained, TypeOK
<1>3. /\ \A u \in {"md", "json", "temp"} : disk[u] # "partial"
      /\ DOMAIN disk = {"md", "json", "temp"} /\ DOMAIN disk' = {"md", "json", "temp"}
  BY <1>2 DEF Whole, Kept, TypeOK, Put
<1>4. CASE disk' = disk
  BY <1>1, <1>2, <1>3, <1>4 DEF DiskOK, LossesContained, Kept
<1>5. ASSUME NEW s \in {"md", "json"}, s \in Outputs, job.command # "benchmark",
             Put(s, "partial")
      PROVE  DiskOK'
  <2>1. /\ disk'[s] = "partial"
        /\ \A u \in {"md", "json", "temp"} : u # s => disk'[u] = disk[u]
    BY <1>5 DEF Put, TypeOK
  <2>. QED BY <1>1, <1>2, <1>3, <1>5, <2>1 DEF DiskOK, LossesContained, Kept
<1>6. CASE job.command = "benchmark" /\ pc' = "raised" /\ Put("temp", "partial")
  <2>1. /\ disk'["temp"] = "partial"
        /\ \A u \in {"md", "json"} : disk'[u] = disk[u]
    BY <1>6 DEF Put, TypeOK
  <2>. QED BY <1>1, <1>2, <1>3, <1>6, <2>1 DEF DiskOK, LossesContained, Kept
<1> QED BY <1>4, <1>5, <1>6

(* The evidence comes before the report, in a campaign or a benchmark.     *)
LEMMA FilesStep ==
  ASSUME TypeOK, DiskOK, [Next]_vars, job.command \in {"atlas", "benchmark"},
         AtlasOK, BenchmarkOK
  PROVE  DiskOK'
<1>1. job' = job /\ job.report \in {"md", "json"}
  BY StepsOf, JobKinds DEF TypeOK, AtlasJobs, BenchmarkJobs
<1>2. CASE UNCHANGED vars
  BY <1>2 DEF vars, DiskOK, Written, Whole, Kept, EvidenceFirst, LossesContained, Outputs
<1>3. CASE AtlasRefuse
  <2>1. pc = "work" /\ pc' = "refused" /\ disk' = disk BY <1>3 DEF AtlasRefuse, At
  <2>2. Written = {} /\ Written' = {} BY <2>1 DEF Written
  <2>. QED BY <1>1, <2>1, <2>2, QuietStep
<1>4. CASE AtlasIterate \/ DryRun \/ RunTask
  <2>1. /\ pc = "work" /\ pc' \in {"work", "evidence", "answered"} /\ disk' = disk
        /\ pc' = "answered" => job.command = "benchmark" /\ job.dry
    BY <1>4 DEF AtlasIterate, DryRun, RunTask, At
  <2>2. pc' = "answered" => Outputs = {} BY <2>1 DEF Outputs
  <2>3. Outputs' = Outputs BY <1>1 DEF Outputs
  <2>4. Written = {} /\ Written' = {} BY <2>1, <2>2, <2>3 DEF Written
  <2>. QED BY <1>1, <2>1, <2>2, <2>4, QuietStep
<1>5. CASE AtlasEvidence \/ BenchmarkEvidence
  <2>1. pc = "evidence" /\ Written = {} BY <1>5 DEF AtlasEvidence, BenchmarkEvidence, At, Written
  <2>2. Kept("md") BY <2>1, NothingWritten
  <2>3. "json" \in Outputs BY <1>5, <2>1 DEF Outputs, BenchmarkOK
  <2>4. CASE pc' = "report"
    <3>1. Put("json", "evidence")
      BY <1>5, <2>4 DEF AtlasEvidence, BenchmarkEvidence, WriteText, WriteAtomically,
                        EvidenceUnencodable
    <3>2. disk'.md = disk.md /\ disk'.json = "evidence" BY <3>1 DEF Put, TypeOK
    <3>3. EvidenceFirst' BY <3>2 DEF EvidenceFirst
    <3>4. Written' = {"json"} BY <1>1, <2>4 DEF Written
    <3>. QED BY <1>1, <2>1, <2>3, <2>4, <3>1, <3>2, <3>3, <3>4, WrittenStep
  <2>5. CASE pc' # "report"
    <3>1. /\ \/ pc' = "raised"
             \/ pc' = "refused" /\ job.command = "atlas" /\ job.live
          /\ \/ disk' = disk
             \/ job.command # "benchmark" /\ Put("json", "partial")
             \/ job.command = "benchmark" /\ pc' = "raised" /\ Put("temp", "partial")
      BY <1>5, <2>5 DEF AtlasEvidence, BenchmarkEvidence, WriteText, WriteAtomically,
                        EvidenceUnencodable, At
    <3>2. disk'.md = disk.md BY <3>1 DEF Put, TypeOK
    <3>3. EvidenceFirst' BY <1>1, <2>2, <3>2 DEF EvidenceFirst, Kept
    <3>. QED BY <1>1, <2>1, <2>3, <3>1, <3>3, LostStep
  <2>. QED BY <2>4, <2>5
<1>6. CASE AtlasReport \/ BenchmarkReport
  <2>1. pc = "report" /\ Written = {"json"}
    BY <1>6 DEF AtlasReport, BenchmarkReport, At, Written
  <2>2. disk.json = "evidence" BY <2>1 DEF DiskOK
  <2>3. Outputs = {job.report, "json"} BY <2>1 DEF Outputs, BenchmarkOK
  <2>4. CASE pc' = "answered"
    <3>1. Put(job.report, "report")
      BY <1>6, <2>4 DEF AtlasReport, BenchmarkReport, WriteText, WriteAtomically
    <3>2. job.report = "md" => disk'.json = disk.json BY <3>1 DEF Put, TypeOK
    <3>3. EvidenceFirst' BY <1>1, <2>2, <3>2 DEF EvidenceFirst
    <3>4. Outputs' = Outputs BY <1>1 DEF Outputs
    <3>5. Written' = {"json"} \union {job.report} BY <2>3, <2>4, <3>4 DEF Written
    <3>. QED BY <1>1, <2>1, <2>3, <2>4, <3>1, <3>3, <3>5, WrittenStep
  <2>5. CASE pc' # "answered"
    <3>1. /\ pc' = "raised"
          /\ \/ disk' = disk
             \/ job.command # "benchmark" /\ Put(job.report, "partial")
             \/ job.command = "benchmark" /\ Put("temp", "partial")
      BY <1>6, <2>5 DEF AtlasReport, BenchmarkReport, WriteText, WriteAtomically, At
    <3>2. job.report = "md" => disk'.json = disk.json BY <3>1 DEF Put, TypeOK
    <3>3. EvidenceFirst' BY <1>1, <2>2, <3>2 DEF EvidenceFirst
    <3>. QED BY <1>1, <2>1, <2>3, <3>1, <3>3, LostStep
  <2>. QED BY <2>4, <2>5
<1> QED BY <1>2, <1>3, <1>4, <1>5, <1>6, StepsOf

(* The evaluations write their report first.                               *)
LEMMA ScoresStep ==
  ASSUME TypeOK, DiskOK, [Next]_vars, job.command \in {"metrics", "run"},
         RunOK, MetricsOK
  PROVE  DiskOK'
<1> DEFINE report == IF job.command = "metrics" THEN "md" ELSE job.report
<1>1. job' = job /\ report \in {"md", "json"}
  BY StepsOf, JobKinds DEF TypeOK, RunJobs
<1>2. EvidenceFirst' BY <1>1 DEF EvidenceFirst
<1>3. report \in Outputs /\ Outputs' = Outputs BY <1>1 DEF Outputs
<1>4. CASE UNCHANGED vars
  BY <1>4 DEF vars, DiskOK, Written, Whole, Kept, EvidenceFirst, LossesContained, Outputs
<1>5. CASE Measure \/ RunScenario
  <2>1. pc = "work" /\ pc' \in {"work", "report", "raised"} /\ disk' = disk
    BY <1>5 DEF Measure, RunScenario, At
  <2>2. Written = {} /\ Written' = {} BY <1>1, <2>1 DEF Written
  <2>. QED BY <1>1, <2>1, <2>2, QuietStep
<1>6. CASE MetricsReport \/ RunReport
  <2>1. /\ pc = "report"
        /\ pc' = "raised" => disk' = disk \/ Put(report, "partial")
        /\ pc' # "raised" => /\ pc' \in {"results", "answered"} /\ Put(report, "report")
                             /\ pc' = "results" => job.command = "metrics" \/ job.json
                             /\ pc' = "answered" => job.command = "run" /\ ~job.json
    <3>1. CASE MetricsReport BY <3>1 DEF MetricsReport, WriteText, At
    <3>2. CASE RunReport BY <3>2 DEF RunReport, WriteText, At
    <3>. QED BY <1>6, <3>1, <3>2
  <2>2. Written = {} BY <2>1 DEF Written
  <2>3. CASE pc' = "raised"
    BY <1>1, <1>2, <1>3, <2>1, <2>3, LostStep
  <2>4. CASE pc' # "raised"
    <3>1. Written' = {report} BY <1>1, <1>3, <2>1, <2>4 DEF Written, Outputs
    <3>. QED BY <1>1, <1>2, <1>3, <2>1, <2>2, <2>4, <3>1, WrittenStep
  <2>. QED BY <2>3, <2>4
<1>7. CASE MetricsResults \/ RunResults
  <2>1. /\ pc = "results" /\ pc' \in {"raised", "answered"}
        /\ pc' = "raised" => disk' = disk \/ Put("json", "partial")
        /\ pc' = "answered" => Put("json", "evidence")
    BY <1>7 DEF MetricsResults, RunResults, WriteText, At
  <2>2. Written = {report} /\ Outputs = {report, "json"}
    BY <2>1 DEF Written, Outputs, RunOK
  <2>3. CASE pc' = "raised"
    BY <1>1, <1>2, <2>1, <2>2, <2>3, LostStep
  <2>4. CASE pc' = "answered"
    <3>1. Written' = {report} \union {"json"} BY <1>3, <2>2, <2>4 DEF Written
    <3>. QED BY <1>1, <1>2, <2>1, <2>2, <2>4, <3>1, WrittenStep
  <2>. QED BY <2>1, <2>3, <2>4
<1> QED BY <1>4, <1>5, <1>6, <1>7, StepsOf

LEMMA DiskStep ==
  ASSUME TypeOK, DiskOK, ImportOK, PlanOK, AtlasOK, BenchmarkOK, ScanOK, MetricsOK,
         RunOK, DefendOK, [Next]_vars
  PROVE  DiskOK'
<1>1. CASE job.command \in {"atlas", "benchmark"}
  BY <1>1, FilesStep
<1>2. CASE job.command \in {"metrics", "run"}
  BY <1>2, ScoresStep
<1>3. CASE job.command \in {"import", "plan", "scan", "defend"}
  <2>1. job' = job /\ Outputs = {} /\ Outputs' = {} BY <1>3, StepsOf DEF Outputs
  <2>2. CASE UNCHANGED vars
    BY <2>2 DEF vars, DiskOK, Written, Whole, Kept, EvidenceFirst, LossesContained, Outputs
  <2>3. CASE ~UNCHANGED vars
    <3>1. \/ LoadPlugin \/ PlanRefuse \/ Materialize \/ Defend
          \/ StartScan \/ Mission \/ Detect \/ Unresolved \/ Fallback
      BY <1>3, <2>3, StepsOf
    <3>2. /\ pc \in {"work", "mission", "detect", "fallback"} /\ disk' = disk
          /\ pc' \in {"work", "mission", "detect", "fallback", "answered", "raised"}
      BY <3>1 DEF LoadPlugin, PlanRefuse, Materialize, Defend, StartScan, Mission, Detect,
                  Unresolved, Fallback, At
    <3>3. Written = {} /\ Written' = {} BY <2>1, <3>2 DEF Written
    <3>. QED BY <2>1, <3>2, <3>3, QuietStep
  <2>. QED BY <2>2, <2>3
<1> QED BY <1>1, <1>2, <1>3, JobKinds DEF TypeOK

LEMMA InitIInv ==
  ASSUME Init
  PROVE  IInv
<1>1. TypeOK
  BY DEF Init, TypeOK
<1>2. EvenlyUsed(<<>>)
  <2> DEFINE m == Cardinality(Payloads)
  <2>1. m \in Nat \ {0} /\ 0 = m * 0 + 0 /\ 0 \in 0..(m - 1)
    BY PoolSize
  <2>2. 0 % m = 0 /\ 0 \div m = 0
    <3>1. m * 0 + 0 = m * (0 \div m) + (0 % m) /\ 0 % m \in 0..(m - 1) /\ 0 \div m \in Nat
      BY <2>1, DivMod
    <3> HIDE DEF m
    <3> QED BY <2>1, <3>1, DivModUnique
  <2>3. Len(<<>>) = 0 /\ DOMAIN <<>> = {}
    OBVIOUS
  <2>4. Block(<<>>) = {}
    BY <2>2, <2>3 DEF Block
  <2>5. \A p : Uses(<<>>, p) = 0
    BY <2>3, FS_EmptySet DEF Uses, Count
  <2> QED BY <2>2, <2>3, <2>4, <2>5, FS_EmptySet DEF EvenlyUsed
<1>3. PoolOK
  BY <1>2 DEF Init, PoolOK
<1>4. ImportOK /\ PlanOK /\ MetricsOK /\ DefendOK /\ ScanOK
  BY DEF Init, ImportOK, PlanOK, MetricsOK, DefendOK, ScanOK
<1>5. AtlasOK /\ BenchmarkOK
  BY TasksTable DEF Init, AtlasOK, BenchmarkOK
<1>6. RunOK
  BY ScenariosTable DEF Init, RunOK
<1>7. DiskOK
  BY DEF Init, DiskOK, EvidenceFirst, LossesContained, Written, Kept
<1> QED BY <1>1, <1>3, <1>4, <1>5, <1>6, <1>7 DEF IInv

LEMMA StepIInv ==
  ASSUME IInv, [Next]_vars
  PROVE  IInv'
  BY TypeStep, ImportStep, PoolStep, PlanStep, AtlasStep, BenchmarkStep, ScanStep,
     MetricsStep, RunStep, DefendStep, DiskStep DEF IInv

(* For each command, where its process can be and what it has recorded and *)
(* written by then: the inductive invariant of which all that follows is a *)
(* consequence.                                                            *)
THEOREM Invariance == Spec => []IInv
  BY InitIInv, StepIInv, PTL DEF Spec

(* The variables keep their types, whatever the models answer and          *)
(* whichever writes fail.                                                  *)
THEOREM TypeCorrect == Spec => []TypeOK
  BY Invariance, PTL DEF IInv

(* A campaign uses every payload of its tactic before it uses one again:   *)
(* run_atlas_tactic and ExecutionPlan.materialize refill the pool when it  *)
(* is empty and not before.                                                *)
THEOREM PoolIsExhaustedFirst == Spec => []PoolExhaustedFirst
<1>1. IInv => PoolExhaustedFirst
  <2> SUFFICES ASSUME IInv, job.command \in {"atlas", "plan"},
                      NEW p \in Payloads, NEW q \in Payloads
               PROVE  Uses(log, p) - Uses(log, q) <= 1
    BY DEF PoolExhaustedFirst
  <2> DEFINE full == Len(log) \div Cardinality(Payloads)
  <2>1. /\ Uses(log, p) = full + IF p \in Block(log) THEN 1 ELSE 0
        /\ Uses(log, q) = full + IF q \in Block(log) THEN 1 ELSE 0
    BY DEF IInv, PoolOK, EvenlyUsed
  <2>2. full \in Nat
    <3>1. Len(log) \in Nat
      BY DEF IInv, AtlasOK, PlanOK
    <3> QED BY <3>1, PoolSize, DivMod
  <2> HIDE DEF full
  <2> QED BY <2>1, <2>2
<1> QED BY <1>1, Invariance, PTL

(* Whichever write fails, and whatever an earlier command has left under   *)
(* the same names, a Markdown report that a campaign or a benchmark has    *)
(* begun to write refers to evidence that is complete (cli.py).            *)
THEOREM EvidenceComesFirst == Spec => []EvidenceFirst
<1>1. IInv => EvidenceFirst BY DEF IInv, DiskOK
<1> QED BY <1>1, Invariance, PTL

(* An answer vouches for all the files of its command, and a failing write *)
(* leaves one torn file at most, where LossesContained says (cli.py,       *)
(* json_evidence.py, benchmark_evidence.py).                               *)
THEOREM LossesAreContained == Spec => []LossesContained
<1>1. IInv => LossesContained BY DEF IInv, DiskOK
<1> QED BY <1>1, Invariance, PTL

(* A process dies for the reasons that DeathsExplained lists and for no    *)
(* other: the handlers around judges, missions and the detector let        *)
(* nothing through.                                                        *)
THEOREM DeathsAreExplained == Spec => []DeathsExplained
<1>1. IInv => DeathsExplained
  <2> SUFFICES ASSUME IInv, pc = "raised"
               PROVE  DeathsExplained
    BY DEF DeathsExplained
  <2>1. CASE job.command = "import"
    BY <2>1 DEF IInv, ImportOK, DeathsExplained
  <2>2. CASE job.command = "plan"
    BY <2>2 DEF IInv, PlanOK, DeathsExplained
  <2>3. CASE job.command \in {"atlas", "metrics", "run"}
    BY <2>3 DEF IInv, AtlasOK, MetricsOK, RunOK, DeathsExplained, Outputs, Due
  <2>4. CASE job.command = "benchmark"
    BY <2>4 DEF IInv, BenchmarkOK, DeathsExplained, Outputs, Due
  <2>5. CASE job.command = "scan"
    BY <2>5 DEF IInv, ScanOK, DeathsExplained
  <2>6. CASE job.command = "defend"
    BY <2>6 DEF IInv, DefendOK
  <2> QED BY <2>1, <2>2, <2>3, <2>4, <2>5, <2>6, JobKinds DEF IInv, TypeOK
<1> QED BY <1>1, Invariance, PTL

(* The sizes of two disjoint parts of a finite set.                        *)
LEMMA TwoParts ==
  ASSUME NEW S, IsFiniteSet(S), NEW A, NEW B, A \intersect B = {}, A \union B = S
  PROVE  /\ Cardinality(A) \in Nat /\ Cardinality(B) \in Nat
         /\ Cardinality(A) + Cardinality(B) = Cardinality(S)
<1>1. IsFiniteSet(A) /\ IsFiniteSet(B)
  BY FS_Subset
<1>2. Cardinality(A) \in Nat /\ Cardinality(B) \in Nat
  BY <1>1, FS_CardinalityType
<1>3. Cardinality(A \union B) =
        Cardinality(A) + Cardinality(B) - Cardinality(A \intersect B)
  BY <1>1, FS_Union
<1>4. Cardinality(A \intersect B) = 0
  BY FS_EmptySet
<1> QED BY <1>2, <1>3, <1>4

LEMMA Positions ==
  ASSUME NEW E, NEW s \in Seq(E)
  PROVE  IsFiniteSet(DOMAIN s) /\ Cardinality(DOMAIN s) = Len(s)
<1>1. Len(s) \in Int /\ Len(s) >= 0 /\ 1 \in Int /\ DOMAIN s = 1..Len(s)
  OBVIOUS
<1>2. IsFiniteSet(1..Len(s)) /\ Cardinality(1..Len(s)) = Len(s)
  BY <1>1, FS_Interval
<1> QED BY <1>1, <1>2

(* A failing judge costs one verdict and nothing else, for any number of   *)
(* iterations and any pool (run_atlas_tactic, TaskSuiteRunner): the        *)
(* records are complete and in order, and the counts of the envelope       *)
(* partition them.                                                         *)
THEOREM FailuresAreContained == Spec => []FailuresContained
<1>1. IInv => FailuresContained
  <2>1. ASSUME IInv, job.command = "atlas", pc \in {"evidence", "report", "answered"}
        PROVE  /\ Len(log) = job.iterations
               /\ Envelope(log).findings + Envelope(log).errors
                    + Count(log, LAMBDA r : r.verdict = "safe") = job.iterations
    <3> DEFINE found == {i \in DOMAIN log : log[i].verdict \in {"suspicious", "malicious"}}
               failed == {i \in DOMAIN log : log[i].verdict = "unavailable"}
               safe == {i \in DOMAIN log : log[i].verdict = "safe"}
    <3>1. /\ log \in Seq([payload : Payloads, verdict : Verdicts \union {"unavailable"}])
          /\ Len(log) = job.iterations
      BY <2>1 DEF IInv, AtlasOK
    <3>2. \A i \in DOMAIN log : log[i].verdict \in Verdicts \union {"unavailable"}
      <4> DEFINE Records == [payload : Payloads, verdict : Verdicts \union {"unavailable"}]
      <4>1. \A r \in Records : r.verdict \in Verdicts \union {"unavailable"}
        OBVIOUS
      <4>2. log \in Seq(Records)
        BY <3>1
      <4> HIDE DEF Records
      <4>3. \A i \in DOMAIN log : log[i] \in Records
        BY <4>2
      <4> QED BY <4>1, <4>3
    <3>3. /\ found \intersect failed = {} /\ (found \union failed) \intersect safe = {}
          /\ (found \union failed) \union safe = DOMAIN log
      BY <3>2 DEF Verdicts
    <3>4. IsFiniteSet(DOMAIN log) /\ Cardinality(DOMAIN log) = Len(log)
      BY <3>1, Positions
    <3>5. IsFiniteSet(found \union failed)
      BY <3>4, FS_Subset
    <3> HIDE DEF found, failed, safe
    <3>6. Cardinality(found) + Cardinality(failed) = Cardinality(found \union failed)
      BY <3>3, <3>5, TwoParts
    <3>7. Cardinality(found \union failed) + Cardinality(safe) = Len(log)
      BY <3>3, <3>4, TwoParts
    <3>8. /\ Envelope(log).findings = Cardinality(found)
          /\ Envelope(log).errors = Cardinality(failed)
          /\ Count(log, LAMBDA r : r.verdict = "safe") = Cardinality(safe)
      BY DEF Envelope, Count, found, failed, safe
    <3> QED BY <3>1, <3>6, <3>7, <3>8
  <2>2. ASSUME IInv, job.command = "benchmark"
        PROVE  /\ \A n \in DOMAIN log : log[n] = Record(Tasks[n], log[n].judged)
               /\ pc \in {"evidence", "report", "answered"} /\ ~job.dry
                    => Len(log) = Len(Tasks)
    BY <2>2 DEF IInv, BenchmarkOK
  <2> QED BY <2>1, <2>2 DEF FailuresContained
<1> QED BY <1>1, Invariance, PTL

(* Whatever the model answers, a trace the heuristic finds malicious is    *)
(* reported as malicious, with every iteration counted; and no verdict of  *)
(* a model that failed later is left in the report (detector.py, scan.py). *)
THEOREM HeuristicIsNeverSilenced == Spec => []HeuristicNeverSilenced
<1>1. IInv => HeuristicNeverSilenced
  <2>1. ASSUME IInv, job.command = "scan", pc = "answered", Resolved
        PROVE  /\ \/ Heuristic(ScanTrace) # "malicious"
                  \/ \E f \in ScanFindings(log) : f.sure /\ f.hits = job.iterations
               /\ Len(log) = job.iterations
               /\ "detector" \in errors => Range(log) = {Heuristic(ScanTrace)}
    <3>1. /\ log \in Seq(Verdicts) /\ Len(log) = job.iterations
          /\ "detector" \in errors => Range(log) = {Heuristic(ScanTrace)}
      BY <2>1 DEF IInv, ScanOK
    <3>2. ASSUME Heuristic(ScanTrace) = "malicious"
          PROVE  \E f \in ScanFindings(log) : f.sure /\ f.hits = job.iterations
      <4>1. \A i \in DOMAIN log : log[i] = "malicious"
        BY <2>1, <3>2 DEF IInv, ScanOK
      <4>2. Count(log, LAMBDA v : v # "safe") = Cardinality(DOMAIN log)
        <5>1. {i \in DOMAIN log : log[i] # "safe"} = DOMAIN log
          BY <4>1
        <5> QED BY <5>1 DEF Count
      <4>3. Count(log, LAMBDA v : v = "malicious") = Cardinality(DOMAIN log)
        <5>1. {i \in DOMAIN log : log[i] = "malicious"} = DOMAIN log
          BY <4>1
        <5> QED BY <5>1 DEF Count
      <4>4. Cardinality(DOMAIN log) = job.iterations
        BY <3>1, Positions
      <4>5. job.iterations \in Nat \ {0}
        BY <2>1, JobKinds DEF IInv, TypeOK, ScanJobs, Resolved
      <4> DEFINE finding ==
            [severity |-> Severity[job.attack], hits |-> job.iterations, sure |-> TRUE,
             successes |-> IF ScanTrace.tool # "" THEN job.iterations ELSE 0]
      <4>6. finding \in ScanFindings(log)
        <5>1. job.iterations > 0 /\ job.iterations # 0
          BY <4>5
        <5> QED BY <4>2, <4>3, <4>4, <5>1 DEF ScanFindings
      <4> QED BY <4>6
    <3> QED BY <3>1, <3>2
  <2>2. ASSUME IInv, job.command = "run", NEW n \in DOMAIN log,
               Heuristic(ScenarioTrace(Legacy, Scenarios[n])) = "malicious"
        PROVE  log[n].detected
    BY <2>2 DEF IInv, RunOK
  <2>3. IInv /\ job.command = "scan" /\ pc = "fallback" => "detector" \in errors
    BY DEF IInv, ScanOK
  <2> QED BY <2>1, <2>2, <2>3 DEF HeuristicNeverSilenced
<1> QED BY <1>1, Invariance, PTL

-----------------------------------------------------------------------------
LEMMA TaskFields ==
  ASSUME NEW t \in Range(Tasks)
  PROVE  t.agent \in 1..5 /\ t.kind \in {"benign", "attack"}
<1>1. PICK n \in 1..10 : t = Tasks[n]
  BY TasksTable DEF Range
<1> DEFINE i == (n + 1) \div 2
<1>2. i \in 1..5
  BY <1>1
<1>3. t = IF n % 2 = 1 THEN BenignTasks[i] ELSE AttackTask(i)
  BY <1>1, ProfilesTable DEF Tasks
<1> HIDE DEF i
<1>4. BenignTasks[i].agent \in 1..5 /\ BenignTasks[i].kind = "benign"
  BY <1>2 DEF BenignTasks, Task
<1>5. AttackTask(i).agent = i /\ AttackTask(i).kind = "attack"
  BY DEF AttackTask, Task
<1> QED BY <1>2, <1>3, <1>4, <1>5

LEMMA RecordFields ==
  ASSUME NEW r \in {Record(t, v) : t \in Range(Tasks),
                                   v \in Verdicts \union {"unavailable"}}
  PROVE  /\ r.agent \in 1..5 /\ r.kind \in {"benign", "attack"}
         /\ r.success => r.kind = "attack"
<1>1. PICK t \in Range(Tasks), v \in Verdicts \union {"unavailable"} : r = Record(t, v)
  OBVIOUS
<1>2. r.agent = t.agent /\ r.kind = t.kind
  BY <1>1 DEF Record
<1>3. Record(t, v).success => t.kind = "attack"
  <2>1. Record(t, v).success = Attained(t)
    BY DEF Record
  <2>2. CASE t.kind # "attack"
    <3>1. Attained(t) = FALSE
      BY <2>2 DEF Attained
    <3> QED BY <2>1, <3>1
  <2> QED BY <2>2
<1>4. r.success => t.kind = "attack"
  BY <1>1, <1>3
<1> QED BY <1>2, <1>4, TaskFields

LEMMA FiveParts ==
  ASSUME NEW s, NEW S, IsFiniteSet(S), \A i \in S : s[i].agent \in 1..5
  PROVE  Cardinality(S) = Cardinality({i \in S : s[i].agent = 1})
                          + Cardinality({i \in S : s[i].agent = 2})
                          + Cardinality({i \in S : s[i].agent = 3})
                          + Cardinality({i \in S : s[i].agent = 4})
                          + Cardinality({i \in S : s[i].agent = 5})
<1> DEFINE Of(a) == {i \in S : s[i].agent = a}
           UpTo(a) == {i \in S : s[i].agent \in 1..a}
<1>1. ASSUME NEW a \in 1..4
      PROVE  /\ Cardinality(UpTo(a)) \in Nat /\ Cardinality(Of(a + 1)) \in Nat
             /\ Cardinality(UpTo(a)) + Cardinality(Of(a + 1)) = Cardinality(UpTo(a + 1))
  <2>1. 1..(a + 1) = (1..a) \union {a + 1} /\ a + 1 \notin 1..a
    OBVIOUS
  <2>2. UpTo(a) \intersect Of(a + 1) = {} /\ UpTo(a) \union Of(a + 1) = UpTo(a + 1)
    BY <2>1
  <2>3. IsFiniteSet(UpTo(a + 1))
    BY FS_Subset
  <2> HIDE DEF UpTo, Of
  <2> QED BY <2>2, <2>3, TwoParts
<1>2. UpTo(1) = Of(1)
  OBVIOUS
<1>3. UpTo(5) = S
  OBVIOUS
<1> HIDE DEF UpTo, Of
<1>4. /\ Cardinality(UpTo(1)) + Cardinality(Of(2)) = Cardinality(UpTo(2))
      /\ Cardinality(UpTo(2)) + Cardinality(Of(3)) = Cardinality(UpTo(3))
      /\ Cardinality(UpTo(3)) + Cardinality(Of(4)) = Cardinality(UpTo(4))
      /\ Cardinality(UpTo(4)) + Cardinality(Of(5)) = Cardinality(UpTo(5))
      /\ \A a \in 1..4 : Cardinality(UpTo(a)) \in Nat /\ Cardinality(Of(a + 1)) \in Nat
  <2>1. 1 + 1 = 2 /\ 2 + 1 = 3 /\ 3 + 1 = 4 /\ 4 + 1 = 5
    OBVIOUS
  <2> QED BY <1>1, <2>1
<1>5. Cardinality(S) = Cardinality(Of(1)) + Cardinality(Of(2)) + Cardinality(Of(3))
                         + Cardinality(Of(4)) + Cardinality(Of(5))
  BY <1>2, <1>3, <1>4
<1> QED BY <1>5 DEF Of

(* The rates of a benchmark fit together, whatever the judge answered and  *)
(* whichever tasks it failed on (benchmark_metrics.py).                    *)
THEOREM RatesDoFit == Spec => []RatesFit
<1>1. IInv => RatesFit
  <2> SUFFICES ASSUME IInv, job.command = "benchmark"
               PROVE  RatesFit
    BY DEF RatesFit
  <2> DEFINE All == DOMAIN log
             Attacks == {i \in All : log[i].kind = "attack"}
             Benign == {i \in All : log[i].kind = "benign"}
             Wins == {i \in All : log[i].kind = "attack" /\ log[i].success}
             Done == {i \in All : log[i].kind = "benign" /\ log[i].completed}
             Of(S, a) == {i \in S : log[i].agent = a}
  <2>1. \A i \in All : /\ log[i].agent \in 1..5 /\ log[i].kind \in {"benign", "attack"}
                       /\ log[i].success => log[i].kind = "attack"
    <3>1. log \in Seq({Record(t, v) : t \in Range(Tasks), v \in Verdicts \union {"unavailable"}})
      BY DEF IInv, BenchmarkOK
    <3>2. \A i \in All : log[i] \in {Record(t, v) : t \in Range(Tasks),
                                                   v \in Verdicts \union {"unavailable"}}
      BY <3>1
    <3> QED BY <3>2, RecordFields
  <2>2. IsFiniteSet(All) /\ Cardinality(All) = Len(log)
    BY Positions DEF IInv, BenchmarkOK
  <2>3. IsFiniteSet(Attacks) /\ IsFiniteSet(Benign) /\ IsFiniteSet(Wins) /\ IsFiniteSet(Done)
    BY <2>2, FS_Subset
  <2>4. /\ Overall(log).total = Cardinality(All)
        /\ Overall(log).attacks = Cardinality(Attacks)
        /\ Overall(log).successes = Cardinality(Wins)
        /\ Overall(log).benign = Cardinality(Benign)
        /\ Overall(log).completed = Cardinality(Done)
    <3>1. \A i \in All : log[i] \in Range(log)
      BY DEF Range
    <3>2. /\ All = {i \in All : log[i] \in Range(log)}
          /\ Attacks = {i \in All : log[i] \in Range(log) /\ log[i].kind = "attack"}
          /\ Benign = {i \in All : log[i] \in Range(log) /\ log[i].kind = "benign"}
          /\ Wins = {i \in All : /\ log[i] \in Range(log) /\ log[i].kind = "attack"
                                 /\ log[i].success}
          /\ Done = {i \in All : /\ log[i] \in Range(log) /\ log[i].kind = "benign"
                                 /\ log[i].completed}
      BY <3>1
    <3> QED BY <3>2 DEF Overall, Dimension, Count
  <2>5. ASSUME NEW a
        PROVE  /\ ByAgent(log, a).attacks = Cardinality(Of(Attacks, a))
               /\ ByAgent(log, a).successes = Cardinality(Of(Wins, a))
               /\ ByAgent(log, a).completed = Cardinality(Of(Done, a))
    <3> DEFINE group == {r \in Range(log) : r.agent = a}
    <3>1. \A i \in All : log[i] \in group <=> log[i].agent = a
      BY DEF Range
    <3> HIDE DEF group
    <3>2. /\ Of(Attacks, a) = {i \in All : log[i] \in group /\ log[i].kind = "attack"}
          /\ Of(Wins, a) = {i \in All : /\ log[i] \in group /\ log[i].kind = "attack"
                                        /\ log[i].success}
          /\ Of(Done, a) = {i \in All : /\ log[i] \in group /\ log[i].kind = "benign"
                                        /\ log[i].completed}
      BY <3>1
    <3>3. ByAgent(log, a) = Dimension(log, group)
      BY DEF ByAgent, group
    <3>4. /\ Dimension(log, group).attacks =
               Cardinality({i \in All : log[i] \in group /\ log[i].kind = "attack"})
          /\ Dimension(log, group).successes =
               Cardinality({i \in All : /\ log[i] \in group /\ log[i].kind = "attack"
                                       /\ log[i].success})
          /\ Dimension(log, group).completed =
               Cardinality({i \in All : /\ log[i] \in group /\ log[i].kind = "benign"
                                       /\ log[i].completed})
      BY DEF Dimension, Count
    <3> HIDE DEF Of, Attacks, Wins, Done, All
    <3> QED BY <3>2, <3>3, <3>4
  <2>6. ASSUME NEW S, S \in {Attacks, Wins, Done}
        PROVE  Cardinality(S) = Cardinality(Of(S, 1)) + Cardinality(Of(S, 2))
                                  + Cardinality(Of(S, 3)) + Cardinality(Of(S, 4))
                                  + Cardinality(Of(S, 5))
    <3>1. IsFiniteSet(S) /\ \A i \in S : log[i].agent \in 1..5
      BY <2>1, <2>3, <2>6
    <3> HIDE DEF Attacks, Wins, Done
    <3> QED BY <3>1, FiveParts
  <2> DEFINE Judged == {i \in All : log[i].judged # "unavailable"}
             Unjudged == {i \in All : log[i].judged = "unavailable"}
             TP == {i \in All : log[i].success /\ log[i].hit}
             FN == {i \in All : log[i].success /\ ~log[i].hit}
             FP == {i \in All : ~log[i].success /\ log[i].hit}
             TN == {i \in All : ~log[i].success /\ ~log[i].hit}
             Refused == {i \in All : log[i].kind = "benign" /\ ~log[i].completed}
             Rest == {i \in All : ~log[i].success}
  <2>7. /\ Quality(log).tp = Cardinality(TP) /\ Quality(log).fn = Cardinality(FN)
        /\ Quality(log).fp = Cardinality(FP) /\ Quality(log).tn = Cardinality(TN)
        /\ Quality(log).refusals = Cardinality(Refused)
        /\ Agreement(log).judged = Cardinality(Judged)
        /\ Count(log, LAMBDA r : r.judged = "unavailable") = Cardinality(Unjudged)
    BY DEF Quality, Agreement, Count
  <2>8. /\ TP \intersect FN = {} /\ TP \union FN = Wins
        /\ FP \intersect TN = {} /\ FP \union TN = Rest
        /\ Wins \intersect Rest = {} /\ Wins \union Rest = All
        /\ Refused \intersect Done = {} /\ Refused \union Done = Benign
        /\ Attacks \intersect Benign = {} /\ Attacks \union Benign = All
        /\ Judged \intersect Unjudged = {} /\ Judged \union Unjudged = All
    BY <2>1, Zenon
  <2>9. IsFiniteSet(Rest)
    BY <2>2, FS_Subset
  <2> HIDE DEF All, Attacks, Benign, Wins, Done, Judged, Unjudged, TP, FN, FP, TN,
               Refused, Rest
  <2>10. Cardinality(TP) + Cardinality(FN) = Cardinality(Wins)
    BY <2>3, <2>8, TwoParts
  <2>11. /\ Cardinality(FP) + Cardinality(TN) = Cardinality(Rest)
         /\ Cardinality(Wins) + Cardinality(Rest) = Cardinality(All)
         /\ Cardinality(Wins) \in Nat /\ Cardinality(Rest) \in Nat
    BY <2>2, <2>8, <2>9, TwoParts
  <2>12. /\ Cardinality(Refused) + Cardinality(Done) = Cardinality(Benign)
         /\ Cardinality(Refused) \in Nat /\ Cardinality(Done) \in Nat
    BY <2>3, <2>8, TwoParts
  <2>13. Cardinality(Attacks) + Cardinality(Benign) = Cardinality(All)
    BY <2>2, <2>8, TwoParts
  <2>14. /\ Cardinality(Judged) + Cardinality(Unjudged) = Cardinality(All)
         /\ Cardinality(Judged) \in Nat /\ Cardinality(Unjudged) \in Nat
    BY <2>2, <2>8, TwoParts
  <2>15. Quality(log).fp + Quality(log).tn = Overall(log).total - Overall(log).successes
    BY <2>4, <2>7, <2>11
  <2>16. Quality(log).refusals = Overall(log).benign - Overall(log).completed
    BY <2>4, <2>7, <2>12
  <2>17. Agreement(log).judged = Len(log) - Count(log, LAMBDA r : r.judged = "unavailable")
    <3>1. Cardinality(Judged) = Len(log) - Cardinality(Unjudged)
      BY <2>2, <2>14
    <3> QED BY <2>7, <3>1
  <2>18. /\ Quality(log).tp + Quality(log).fn = Overall(log).successes
         /\ Overall(log).total = Len(log)
         /\ Overall(log).attacks + Overall(log).benign = Overall(log).total
    BY <2>2, <2>4, <2>7, <2>10, <2>13
  <2>19. Overall(log).attacks =
              ByAgent(log, 1).attacks + ByAgent(log, 2).attacks + ByAgent(log, 3).attacks
                + ByAgent(log, 4).attacks + ByAgent(log, 5).attacks
    <3>1. Cardinality(Attacks) = Cardinality(Of(Attacks, 1)) + Cardinality(Of(Attacks, 2))
              + Cardinality(Of(Attacks, 3)) + Cardinality(Of(Attacks, 4)) + Cardinality(Of(Attacks, 5))
      BY <2>6
    <3> HIDE DEF Of
    <3> QED BY <2>4, <2>5, <3>1
  <2>20. Overall(log).successes =
              ByAgent(log, 1).successes + ByAgent(log, 2).successes + ByAgent(log, 3).successes
                + ByAgent(log, 4).successes + ByAgent(log, 5).successes
    <3>1. Cardinality(Wins) = Cardinality(Of(Wins, 1)) + Cardinality(Of(Wins, 2))
              + Cardinality(Of(Wins, 3)) + Cardinality(Of(Wins, 4)) + Cardinality(Of(Wins, 5))
      BY <2>6
    <3> HIDE DEF Of
    <3> QED BY <2>4, <2>5, <3>1
  <2>21. Overall(log).completed =
              ByAgent(log, 1).completed + ByAgent(log, 2).completed + ByAgent(log, 3).completed
                + ByAgent(log, 4).completed + ByAgent(log, 5).completed
    <3>1. Cardinality(Done) = Cardinality(Of(Done, 1)) + Cardinality(Of(Done, 2))
              + Cardinality(Of(Done, 3)) + Cardinality(Of(Done, 4)) + Cardinality(Of(Done, 5))
      BY <2>6
    <3> HIDE DEF Of
    <3> QED BY <2>4, <2>5, <3>1
  <2> QED BY <2>15, <2>16, <2>17, <2>18, <2>19, <2>20, <2>21 DEF RatesFit
<1> QED BY <1>1, Invariance, PTL


=============================================================================
