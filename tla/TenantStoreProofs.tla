------------------------- MODULE TenantStoreProofs -------------------------
(***************************************************************************)
(* Proofs about TenantStore, for any number of tenants, projects, runs,     *)
(* keys, names and handlers, and any roles and tenants of the keys.         *)
(***************************************************************************)
EXTENDS TenantStore, TLAPS

(* Progress and answers keep the type of a request.                        *)
LEMMA MovedTyped ==
  ASSUME TypeOK, NEW c \in Callers,
         NEW pc \in {"lookup", "check", "start", "project", "write", "reread"}
  PROVE  [req EXCEPT ![c].pc = pc] \in [Callers -> Request]
BY DEF TypeOK, Request

LEMMA AnswerIsRequest ==
  ASSUME NEW old \in Request, NEW ask \in Ask, NEW code \in Codes,
         NEW rows \in SUBSET (Projects \union Runs),
         NEW status \in RunStates \union {None}
  PROVE  [old EXCEPT !.pc = "done", !.ask = ask, !.code = code, !.rows = rows,
                     !.status = status] \in Request
BY DEF Request

LEMMA AnsweredTyped ==
  ASSUME TypeOK, NEW c \in Callers, NEW code \in Codes,
         NEW rows \in SUBSET (Projects \union Runs),
         NEW status \in RunStates \union {None}
  PROVE  Answered(c, code, rows, status) \in [Callers -> Request]
<1>1. req \in [Callers -> Request] /\ req[c] \in Request /\ req[c].ask \in Ask
  BY DEF TypeOK, Request
<1>2. Finished(req[c].ask) \in Ask
  BY <1>1 DEF Ask, Finished
<1>3. [req[c] EXCEPT !.pc = "done", !.ask = Finished(req[c].ask), !.code = code,
                     !.rows = rows, !.status = status] \in Request
  BY <1>1, <1>2, AnswerIsRequest
<1> QED BY <1>1, <1>3 DEF Answered

LEMMA RefusedTyped ==
  ASSUME TypeOK, NEW c \in Callers, NEW code \in Codes, Refuse(c, code)
  PROVE  req' \in [Callers -> Request]
BY AnsweredTyped DEF Refuse

LEMMA AsksTyped ==
  ASSUME TypeOK, NEW k \in Keys, NEW ask \in Asks(k), ask.op \in Operations
  PROVE  /\ ask \in Ask
         /\ ask.key = k
         /\ ask.op = "create_run" =>
              ask.project \in KnownProjects /\ ask.idem \in IdemKeys
         /\ ask.op = "create_project" => ask.name \in Names
         /\ ask.op \in {"get_run", "cancel_run"} => ask.run \in KnownRuns
         /\ ask.op = "rename" =>
              /\ ask.project \in KnownProjects
              /\ ask.name \in Names
              /\ ask.version \in 1..projects[ask.project].version
<1>1. \A p \in KnownProjects : p \in Projects /\ projects[p].version \in Nat
  BY DEF TypeOK, KnownProjects, ProjectRow
<1>2. \A r \in KnownRuns : r \in Runs
  BY DEF KnownRuns
<1>3. CASE \E n \in Names : ask = CreatesProject(k, n)
  <2> PICK n \in Names : ask = CreatesProject(k, n)
    BY <1>3
  <2> QED BY DEF CreatesProject, NoAsk, Ask
<1>4. CASE ask = Lists(k)
  BY <1>4 DEF Lists, NoAsk, Ask
<1>5. CASE \E p \in KnownProjects, i \in IdemKeys : ask = CreatesRun(k, p, i)
  <2> PICK p \in KnownProjects, i \in IdemKeys : ask = CreatesRun(k, p, i)
    BY <1>5
  <2> QED BY <1>1 DEF CreatesRun, NoAsk, Ask
<1>6. CASE \E op \in {"get_run", "cancel_run"}, r \in KnownRuns :
             ask = OnRun(op, k, r)
  <2> PICK op \in {"get_run", "cancel_run"}, r \in KnownRuns : ask = OnRun(op, k, r)
    BY <1>6
  <2> QED BY <1>2 DEF OnRun, NoAsk, Ask
<1>7. CASE \E p \in KnownProjects, n \in Names, v \in 1..MaxVersion :
             /\ ask = Renames(k, p, n, v)
             /\ ask.version <= projects[ask.project].version
  <2> PICK p \in KnownProjects, n \in Names, v \in 1..MaxVersion :
        /\ ask = Renames(k, p, n, v)
        /\ ask.version <= projects[ask.project].version
    BY <1>7
  <2>1. /\ ask.op = "rename" /\ ask.key = k /\ ask.project = p /\ ask.name = n
        /\ ask.version = v
    BY DEF Renames, NoAsk
  <2>2. v \in 1..projects[p].version /\ v \in Nat /\ p \in Projects
    BY <1>1, <2>1, BoundAssumption
  <2>3. ask \in Ask
    BY <2>1, <2>2 DEF Renames, NoAsk, Ask
  <2> QED BY <2>1, <2>2, <2>3
<1>8. \/ \E n \in Names : ask = CreatesProject(k, n)
      \/ ask = Lists(k)
      \/ \E p \in KnownProjects, i \in IdemKeys : ask = CreatesRun(k, p, i)
      \/ \E op \in {"get_run", "cancel_run"}, r \in KnownRuns : ask = OnRun(op, k, r)
      \/ \E p \in KnownProjects, n \in Names, v \in 1..MaxVersion :
            /\ ask = Renames(k, p, n, v)
            /\ ask.version <= projects[ask.project].version
  BY DEF Asks
<1> QED BY <1>3, <1>4, <1>5, <1>6, <1>7, <1>8

LEMMA RowsTyped == NoProject \in ProjectRow /\ NoRun \in RunRow
BY DEF NoProject, ProjectRow, NoRun, RunRow, RunStates

LEMMA NewRunTyped ==
  ASSUME TypeOK, AsksComplete, NEW c \in Callers, At(c, "write", "create_run")
  PROVE  NewRun(c) \in RunRow /\ Context(c) \in Tenants
<1>1. req[c].ask.key \in Keys /\ req[c].ask.project \in Projects
      /\ req[c].ask.idem \in IdemKeys
  BY DEF AsksComplete, At
<1> QED BY <1>1, KeysAssumption DEF NewRun, RunRow, RunStates, RunStatuses, Context

LEMMA TypeCorrectInitially == Init => TypeOK
<1>1. NoRequest \in Request
  BY DEF NoRequest, NoAsk, Request, Ask
<1> QED BY <1>1, RowsTyped DEF Init, TypeOK

LEMMA TypeStep == TypeOK /\ AsksComplete /\ [Next]_vars => TypeOK'
<1> SUFFICES ASSUME TypeOK, AsksComplete, [Next]_vars PROVE TypeOK'
  OBVIOUS
<1>1. ASSUME NEW k \in Keys, Issue(k) \/ Revoke(k) \/ Expire(k) PROVE TypeOK'
  BY <1>1 DEF TypeOK, Issue, Revoke, Expire
<1>2. ASSUME NEW c \in Callers, NEW k \in Keys, Send(c, k) PROVE TypeOK'
  <2> PICK ask \in Asks(k) :
        /\ ask.op \in Operations
        /\ req' = [req EXCEPT ![c] =
             [NoRequest EXCEPT
               !.pc = IF ask.op \in Routes THEN "lookup" ELSE "start",
               !.ask = ask,
               !.late = k \in revoked \union expired]]
    BY <1>2 DEF Send
  <2>1. ask \in Ask
    BY AsksTyped
  <2>2. NoRequest \in Request
    BY DEF NoRequest, NoAsk, Request, Ask
  <2>3. ASSUME NEW pc \in {"lookup", "start"}, NEW late \in BOOLEAN
        PROVE  [NoRequest EXCEPT !.pc = pc, !.ask = ask, !.late = late] \in Request
    BY <2>1, <2>2 DEF Request
  <2>4. req' \in [Callers -> Request]
    <3> DEFINE pc == IF ask.op \in Routes THEN "lookup" ELSE "start"
               late == k \in revoked \union expired
    <3>1. pc \in {"lookup", "start"} /\ late \in BOOLEAN
      OBVIOUS
    <3>2. [NoRequest EXCEPT !.pc = pc, !.ask = ask, !.late = late] \in Request
      <4> HIDE DEF pc, late
      <4> QED BY <3>1, <2>3
    <3> QED BY <3>2 DEF TypeOK
  <2> QED BY <1>2, <2>4 DEF Send, TypeOK, keyVars
<1>3. ASSUME NEW c \in Callers, LookUpKey(c) PROVE TypeOK'
  <2> PICK record \in {"none", "valid", "revoked"} :
        req' = [req EXCEPT ![c].pc = "check", ![c].record = record]
    <3> DEFINE k == req[c].ask.key
               record == IF k \notin issued THEN "none"
                         ELSE IF k \in revoked THEN "revoked" ELSE "valid"
    <3>1. req' = [req EXCEPT ![c].pc = "check", ![c].record = record]
      BY <1>3 DEF LookUpKey
    <3>2. record \in {"none", "valid", "revoked"}
      OBVIOUS
    <3> HIDE DEF record
    <3> QED BY <3>1, <3>2
  <2>1. req \in [Callers -> Request] /\ req[c] \in Request
    BY DEF TypeOK
  <2>2. [req[c] EXCEPT !.pc = "check", !.record = record] \in Request
    BY <2>1 DEF Request
  <2>3. req' = [req EXCEPT ![c] = [req[c] EXCEPT !.pc = "check", !.record = record]]
    BY <2>1
  <2>4. req' \in [Callers -> Request]
    BY <2>1, <2>2, <2>3
  <2> QED BY <1>3, <2>4 DEF LookUpKey, TypeOK, keyVars
<1>4. ASSUME NEW c \in Callers, Authenticate(c) PROVE TypeOK'
  <2>1. \/ req' = [req EXCEPT ![c].pc = "start"]
        \/ Refuse(c, "authentication_required")
        \/ Refuse(c, "permission_denied")
    BY <1>4 DEF Authenticate
  <2>2. req' \in [Callers -> Request]
    BY <2>1, MovedTyped, RefusedTyped DEF Codes
  <2> QED BY <1>4, <2>2 DEF Authenticate, TypeOK, keyVars
<1>5. ASSUME NEW c \in Callers, CreateProject(c) PROVE TypeOK'
  <2>1. Context(c) \in Tenants /\ req[c].ask.name \in Names
    BY <1>5, KeysAssumption DEF CreateProject, At, AsksComplete, Context
  <2>2. CASE Refuse(c, "internal_error") /\ UNCHANGED projects
    <3>1. req' \in [Callers -> Request]
      BY <2>2, RefusedTyped DEF Codes
    <3> QED BY <1>5, <2>2, <3>1 DEF CreateProject, TypeOK, keyVars
  <2>3. CASE \E p \in Projects :
               /\ projects' = [projects EXCEPT ![p] =
                    [status |-> "exists", tenant |-> Context(c),
                     name |-> req[c].ask.name, version |-> 1]]
               /\ req' = Answered(c, "ok", {p}, None)
    <3> PICK p \in Projects :
               /\ projects' = [projects EXCEPT ![p] =
                    [status |-> "exists", tenant |-> Context(c),
                     name |-> req[c].ask.name, version |-> 1]]
               /\ req' = Answered(c, "ok", {p}, None)
      BY <2>3
    <3>1. req' \in [Callers -> Request]
      BY AnsweredTyped DEF Codes
    <3>2. projects' \in [Projects -> ProjectRow]
      BY <2>1 DEF TypeOK, ProjectRow
    <3> QED BY <1>5, <3>1, <3>2 DEF CreateProject, TypeOK, keyVars
  <2> QED BY <1>5, <2>2, <2>3 DEF CreateProject
<1>6. ASSUME NEW c \in Callers, ListProjects(c) PROVE TypeOK'
  <2>1. req' \in [Callers -> Request]
    BY <1>6, AnsweredTyped DEF ListProjects, Codes
  <2> QED BY <1>6, <2>1 DEF ListProjects, TypeOK, keyVars
<1>7. ASSUME NEW c \in Callers, ReadForRename(c) PROVE TypeOK'
  <2>1. req' \in [Callers -> Request]
    BY <1>7, MovedTyped, RefusedTyped DEF ReadForRename, Codes
  <2> QED BY <1>7, <2>1 DEF ReadForRename, TypeOK, keyVars
<1>8. ASSUME NEW c \in Callers, Rename(c) PROVE TypeOK'
  <2> DEFINE p == req[c].ask.project
  <2>1. /\ p \in Projects /\ req[c].ask.name \in Names
        /\ projects[p].version \in Nat /\ req[c].ask.version \in Nat
    BY <1>8 DEF Rename, At, AsksComplete, TypeOK, ProjectRow, Request, Ask
  <2>2. CASE /\ projects' = [projects EXCEPT ![p].name = req[c].ask.name,
                                             ![p].version = @ + 1]
             /\ renamed' = renamed \union {<<p, req[c].ask.version>>}
             /\ req' = Answered(c, "ok", {p}, None)
    <3>1. req' \in [Callers -> Request]
      BY <2>1, <2>2, AnsweredTyped DEF Codes
    <3>2. projects' \in [Projects -> ProjectRow]
      BY <2>1, <2>2 DEF TypeOK, ProjectRow
    <3>3. renamed' \subseteq Projects \X Nat
      BY <2>1, <2>2 DEF TypeOK
    <3> QED BY <1>8, <3>1, <3>2, <3>3 DEF Rename, TypeOK, keyVars
  <2>3. CASE /\ \/ Refuse(c, "internal_error")
                \/ Refuse(c, "refused")
             /\ UNCHANGED <<projects, renamed>>
    <3>1. req' \in [Callers -> Request]
      BY <2>3, RefusedTyped DEF Codes
    <3> QED BY <1>8, <2>3, <3>1 DEF Rename, TypeOK, keyVars
  <2> QED BY <1>8, <2>2, <2>3 DEF Rename
<1>9. ASSUME NEW p \in Projects, DeleteProject(p) PROVE TypeOK'
  <2>1. projects' \in [Projects -> ProjectRow]
    BY <1>9 DEF DeleteProject, TypeOK, ProjectRow
  <2>2. runs' \in [Runs -> RunRow]
    <3>1. \A r \in Runs : [runs[r] EXCEPT !.status = "deleted"] \in RunRow
      BY DEF TypeOK, RunRow, RunStates
    <3> QED BY <1>9, <3>1 DEF DeleteProject, TypeOK
  <2> QED BY <1>9, <2>1, <2>2 DEF DeleteProject, TypeOK, keyVars
<1>10. ASSUME NEW c \in Callers, FindReplay(c) PROVE TypeOK'
  <2>1. CASE UNCHANGED runs /\ \E r \in Runs : Tell(c, r)
    <3> PICK r \in Runs : Tell(c, r)
      BY <2>1
    <3>1. Context(c) \in Tenants /\ req[c].ask.idem \in IdemKeys
      BY <1>10, KeysAssumption DEF FindReplay, At, AsksComplete, Context
    <3>2. runs'[r].status \in RunStates
      BY <2>1 DEF TypeOK, RunRow
    <3>3. req' \in [Callers -> Request]
      BY <3>2, AnsweredTyped DEF Tell, Codes
    <3>4. told' \subseteq [tenant : Tenants, idem : IdemKeys, run : Runs]
      BY <3>1 DEF Tell, TypeOK
    <3> QED BY <1>10, <2>1, <3>3, <3>4 DEF FindReplay, TypeOK, keyVars
  <2>2. CASE req' = [req EXCEPT ![c].pc = "project"] /\ UNCHANGED <<runs, told>>
    <3>1. req' \in [Callers -> Request]
      BY <2>2, MovedTyped
    <3> QED BY <1>10, <2>2, <3>1 DEF FindReplay, TypeOK, keyVars
  <2> QED BY <1>10, <2>1, <2>2 DEF FindReplay
<1>11. ASSUME NEW c \in Callers, FindProject(c) PROVE TypeOK'
  <2>1. req' \in [Callers -> Request]
    BY <1>11, MovedTyped, RefusedTyped DEF FindProject, Codes
  <2> QED BY <1>11, <2>1 DEF FindProject, TypeOK, keyVars
<1>12. ASSUME NEW c \in Callers, InsertRun(c) PROVE TypeOK'
  <2>1. CASE Refuse(c, "internal_error") /\ UNCHANGED <<runs, told>>
    <3>1. req' \in [Callers -> Request]
      BY <2>1, RefusedTyped DEF Codes
    <3> QED BY <1>12, <2>1, <3>1 DEF InsertRun, TypeOK, keyVars
  <2>2. CASE \E r \in Runs : runs' = [runs EXCEPT ![r] = NewRun(c)] /\ Tell(c, r)
    <3> PICK r \in Runs : runs' = [runs EXCEPT ![r] = NewRun(c)] /\ Tell(c, r)
      BY <2>2
    <3>1. NewRun(c) \in RunRow /\ Context(c) \in Tenants /\ req[c].ask.idem \in IdemKeys
      BY <1>12, NewRunTyped DEF InsertRun, At, AsksComplete
    <3>2. runs' \in [Runs -> RunRow]
      BY <3>1 DEF TypeOK
    <3>3. runs'[r].status \in RunStates
      BY <3>2 DEF RunRow
    <3>4. req' \in [Callers -> Request]
      BY <3>3, AnsweredTyped DEF Tell, Codes
    <3>5. told' \subseteq [tenant : Tenants, idem : IdemKeys, run : Runs]
      BY <3>1 DEF Tell, TypeOK
    <3> QED BY <1>12, <3>2, <3>4, <3>5 DEF InsertRun, TypeOK, keyVars
  <2> QED BY <1>12, <2>1, <2>2 DEF InsertRun
<1>13. ASSUME NEW c \in Callers, GetRun(c) PROVE TypeOK'
  <2> DEFINE r == req[c].ask.run
  <2>1. r \in Runs /\ runs[r].status \in RunStates
    BY <1>13 DEF GetRun, At, AsksComplete, TypeOK, RunRow
  <2>2. \/ req' = Answered(c, "ok", {r}, runs[r].status)
        \/ Refuse(c, "run_not_found")
    BY <1>13 DEF GetRun
  <2>3. {r} \in SUBSET (Projects \union Runs) /\ runs[r].status \in RunStates \union {None}
    BY <2>1
  <2>4. {"ok", "run_not_found"} \subseteq Codes
    BY DEF Codes
  <2>5. req' \in [Callers -> Request]
    <3> HIDE DEF r
    <3> QED BY <2>2, <2>3, <2>4, AnsweredTyped, RefusedTyped
  <2> QED BY <1>13, <2>5 DEF GetRun, TypeOK, keyVars
<1>14. ASSUME NEW c \in Callers, ReadForCancel(c) PROVE TypeOK'
  <2>1. req' \in [Callers -> Request]
    BY <1>14, MovedTyped, RefusedTyped DEF ReadForCancel, Codes
  <2> QED BY <1>14, <2>1 DEF ReadForCancel, TypeOK, keyVars
<1>15. ASSUME NEW c \in Callers, CancelRun(c) PROVE TypeOK'
  <2>1. req' \in [Callers -> Request]
    BY <1>15, MovedTyped, RefusedTyped DEF CancelRun, Codes
  <2>2. runs' \in [Runs -> RunRow]
    BY <1>15 DEF CancelRun, TypeOK, RunRow, RunStates, RunStatuses
  <2> QED BY <1>15, <2>1, <2>2 DEF CancelRun, TypeOK, keyVars
<1>16. ASSUME NEW c \in Callers, RereadCancelled(c) PROVE TypeOK'
  <2> DEFINE r == req[c].ask.run
  <2>1. r \in Runs /\ runs[r].status \in RunStates
    BY <1>16 DEF RereadCancelled, At, AsksComplete, TypeOK, RunRow
  <2>2. \/ req' = Answered(c, "ok", {r}, runs[r].status)
        \/ Refuse(c, "internal_error")
    BY <1>16 DEF RereadCancelled
  <2>3. {r} \in SUBSET (Projects \union Runs) /\ runs[r].status \in RunStates \union {None}
    BY <2>1
  <2>4. {"ok", "internal_error"} \subseteq Codes
    BY DEF Codes
  <2>5. req' \in [Callers -> Request]
    <3>1. CASE req' = Answered(c, "ok", {r}, runs[r].status)
      <4> HIDE DEF r
      <4> QED BY <3>1, <2>3, <2>4, AnsweredTyped
    <3>2. CASE Refuse(c, "internal_error")
      BY <3>2, <2>4, RefusedTyped
    <3> QED BY <2>2, <3>1, <3>2
  <2> QED BY <1>16, <2>5 DEF RereadCancelled, TypeOK, keyVars
<1>17. ASSUME NEW r \in Runs, Settle(r) PROVE TypeOK'
  <2>1. runs' \in [Runs -> RunRow]
    BY <1>17 DEF Settle, TypeOK, RunRow, RunStates, RunStatuses
  <2> QED BY <1>17, <2>1 DEF Settle, TypeOK, keyVars
<1>18. CASE UNCHANGED vars
  BY <1>18 DEF vars, TypeOK
<1> QED
  BY <1>1, <1>2, <1>3, <1>4, <1>5, <1>6, <1>7, <1>8, <1>9, <1>10, <1>11, <1>12,
     <1>13, <1>14, <1>15, <1>16, <1>17, <1>18
  DEF Next, Handle

-----------------------------------------------------------------------------
(* What a step does to the requests and to the rows *)

(* A handler's step leaves the other requests alone; its own keeps the key *)
(* and the operation, and moves on or is done.                             *)
Moves(c) ==
  /\ req[c].pc \notin {"idle", "done"}
  /\ \A d \in Callers \ {c} : req'[d] = req[d]
  /\ req'[c].late = req[c].late
  /\ req'[c].ask.op = req[c].ask.op
  /\ req'[c].ask.key = req[c].ask.key
  /\ req'[c].ask.run = req[c].ask.run
  /\ req'[c].pc # "done" => /\ req'[c].pc # "idle"
                            /\ req'[c].ask = req[c].ask
                            /\ req'[c].rows = req[c].rows

LEMMA AnsweredFields ==
  ASSUME TypeOK, NEW c \in Callers, NEW code, NEW rows, NEW status,
         req[c].pc \notin {"idle", "done"},
         req' = Answered(c, code, rows, status)
  PROVE  /\ Moves(c)
         /\ req'[c].pc = "done" /\ req'[c].code = code
         /\ req'[c].rows = rows /\ req'[c].status = status
<1>1. req \in [Callers -> Request] /\ req[c] \in Request /\ req[c].ask \in Ask
  BY DEF TypeOK, Request
<1>2. req'[c] = [req[c] EXCEPT !.pc = "done", !.ask = Finished(req[c].ask),
                               !.code = code, !.rows = rows, !.status = status]
  BY <1>1 DEF Answered
<1>3. \A d \in Callers \ {c} : req'[d] = req[d]
  BY <1>1 DEF Answered
<1>4. /\ Finished(req[c].ask).op = req[c].ask.op
      /\ Finished(req[c].ask).key = req[c].ask.key
      /\ Finished(req[c].ask).run = req[c].ask.run
  BY <1>1 DEF Finished, Ask
<1>5. /\ req'[c].pc = "done" /\ req'[c].code = code
      /\ req'[c].rows = rows /\ req'[c].status = status
      /\ req'[c].late = req[c].late
      /\ req'[c].ask = Finished(req[c].ask)
  BY <1>1, <1>2 DEF Request
<1> QED BY <1>3, <1>4, <1>5 DEF Moves

LEMMA MovedFields ==
  ASSUME TypeOK, NEW c \in Callers, NEW pc, pc \notin {"idle", "done"},
         req[c].pc \notin {"idle", "done"},
         req' = [req EXCEPT ![c].pc = pc]
  PROVE  /\ Moves(c)
         /\ req'[c].pc = pc
         /\ req'[c] = [req[c] EXCEPT !.pc = pc]
<1>1. req \in [Callers -> Request] /\ req[c] \in Request
  BY DEF TypeOK
<1>2. req'[c] = [req[c] EXCEPT !.pc = pc] /\ \A d \in Callers \ {c} : req'[d] = req[d]
  BY <1>1
<1>3. /\ req'[c].pc = pc
      /\ req'[c].late = req[c].late
      /\ req'[c].ask = req[c].ask
      /\ req'[c].rows = req[c].rows
  BY <1>1, <1>2 DEF Request
<1> QED BY <1>2, <1>3 DEF Moves

(* A row keeps its identity and never comes back, a cancelled run stays    *)
(* cancelled.                                                              *)
RunKept(r) ==
  /\ runs'[r].tenant = runs[r].tenant
  /\ runs'[r].project = runs[r].project
  /\ runs'[r].idem = runs[r].idem
  /\ runs'[r].status = "absent" <=> runs[r].status = "absent"
  /\ runs[r].status = "deleted" => runs'[r].status = "deleted"
  /\ runs[r].status = "cancelled" => runs'[r].status \in {"cancelled", "deleted"}

Inserted(c, r) ==
  /\ At(c, "write", "create_run")
  /\ ~KeyTaken(Context(c), req[c].ask.idem)
  /\ ProjectExists(req[c].ask.project)
  /\ runs[r].status = "absent"
  /\ runs' = [runs EXCEPT ![r] = NewRun(c)]
  /\ Tell(c, r)
  /\ projects' = projects

ProjectKept(p) ==
  projects[p].status # "absent" => /\ projects'[p].status # "absent"
                                   /\ projects'[p].tenant = projects[p].tenant

LEMMA SentAlone ==
  ASSUME TypeOK, NEW c \in Callers, NEW k \in Keys, Send(c, k)
  PROVE  /\ \A d \in Callers \ {c} : req'[d] = req[d]
         /\ req'[c].rows = {} /\ req'[c].code = None
         /\ req'[c].pc \in {"lookup", "start"}
         /\ req'[c].pc = "start" <=> req'[c].ask.op \notin Routes
         /\ req'[c].late <=> k \in revoked \union expired
         /\ \E ask \in Asks(k) : ask.op \in Operations /\ req'[c].ask = ask
<1> DEFINE late == k \in revoked \union expired
<1>1. PICK ask \in Asks(k), pc \in {"lookup", "start"} :
        /\ ask.op \in Operations
        /\ pc = "start" <=> ask.op \notin Routes
        /\ req' = [req EXCEPT ![c] =
             [NoRequest EXCEPT !.pc = pc, !.ask = ask, !.late = late]]
  <2> HIDE DEF late
  <2>1. PICK ask \in Asks(k) :
          /\ ask.op \in Operations
          /\ req' = [req EXCEPT ![c] =
               [NoRequest EXCEPT
                 !.pc = IF ask.op \in Routes THEN "lookup" ELSE "start",
                 !.ask = ask,
                 !.late = late]]
    BY DEF Send, late
  <2>2. CASE ask.op \in Routes
    BY <2>1, <2>2
  <2>3. CASE ask.op \notin Routes
    BY <2>1, <2>3
  <2> QED BY <2>2, <2>3
<1> HIDE DEF late
<1>2. /\ req'[c] = [NoRequest EXCEPT !.pc = pc, !.ask = ask, !.late = late]
      /\ \A d \in Callers \ {c} : req'[d] = req[d]
  BY <1>1 DEF TypeOK
<1>3. /\ req'[c].rows = {} /\ req'[c].code = None /\ req'[c].ask = ask
      /\ req'[c].late = late /\ req'[c].pc = pc
  BY <1>2 DEF NoRequest
<1> QED BY <1>1, <1>2, <1>3 DEF late

LEMMA HandlerMoves ==
  ASSUME TypeOK, NEW c \in Callers, Handle(c)
  PROVE  Moves(c)
<1>1. CASE LookUpKey(c)
  <2>1. req \in [Callers -> Request] /\ req[c] \in Request
    BY DEF TypeOK
  <2>2. PICK record : req' = [req EXCEPT ![c].pc = "check", ![c].record = record]
    BY <1>1 DEF LookUpKey
  <2>3. req'[c] = [req[c] EXCEPT !.pc = "check", !.record = record]
        /\ \A d \in Callers \ {c} : req'[d] = req[d]
    BY <2>1, <2>2
  <2>4. /\ req'[c].pc = "check" /\ req'[c].late = req[c].late
        /\ req'[c].ask = req[c].ask /\ req'[c].rows = req[c].rows
    BY <2>1, <2>3 DEF Request
  <2> QED BY <1>1, <2>3, <2>4 DEF LookUpKey, Moves
<1>2. ASSUME req[c].pc \notin {"idle", "done"},
             \/ \E pc \in {"start", "project", "write", "reread"} :
                  req' = [req EXCEPT ![c].pc = pc]
             \/ \E code, rows, status : req' = Answered(c, code, rows, status)
      PROVE  Moves(c)
  <2>1. ASSUME NEW pc \in {"start", "project", "write", "reread"},
               req' = [req EXCEPT ![c].pc = pc]
        PROVE  Moves(c)
    BY <1>2, <2>1, MovedFields
  <2>2. ASSUME NEW code, NEW rows, NEW status,
               req' = Answered(c, code, rows, status)
        PROVE  Moves(c)
    BY <1>2, <2>2, AnsweredFields
  <2> QED BY <1>2, <2>1, <2>2
<1>3. CASE Authenticate(c)
  BY <1>2, <1>3 DEF Authenticate, Refuse
<1>4. CASE CreateProject(c)
  <2>1. req[c].pc \notin {"idle", "done"}
    BY <1>4 DEF CreateProject, At
  <2>2. \/ req' = Answered(c, "internal_error", {}, None)
        \/ \E p \in Projects : req' = Answered(c, "ok", {p}, None)
    BY <1>4 DEF CreateProject, Refuse
  <2> QED BY <1>2, <2>1, <2>2
<1>5. CASE ListProjects(c)
  BY <1>2, <1>5 DEF ListProjects, At
<1>6. CASE ReadForRename(c)
  BY <1>2, <1>6 DEF ReadForRename, Refuse, At
<1>7. CASE Rename(c)
  BY <1>2, <1>7 DEF Rename, Refuse, At
<1>8. CASE FindReplay(c)
  BY <1>2, <1>8 DEF FindReplay, Tell, At
<1>9. CASE FindProject(c)
  BY <1>2, <1>9 DEF FindProject, Refuse, At
<1>10. CASE InsertRun(c)
  <2>1. req[c].pc \notin {"idle", "done"}
    BY <1>10 DEF InsertRun, At
  <2>2. \/ req' = Answered(c, "internal_error", {}, None)
        \/ \E r \in Runs : req' = Answered(c, "ok", {r}, runs'[r].status)
    BY <1>10 DEF InsertRun, Refuse, Tell
  <2> QED BY <1>2, <2>1, <2>2
<1>11. CASE GetRun(c)
  BY <1>2, <1>11 DEF GetRun, Refuse, At
<1>12. CASE ReadForCancel(c)
  BY <1>2, <1>12 DEF ReadForCancel, Refuse, At
<1>13. CASE CancelRun(c)
  BY <1>2, <1>13 DEF CancelRun, Refuse, At
<1>14. CASE RereadCancelled(c)
  BY <1>2, <1>14 DEF RereadCancelled, Refuse, At
<1> QED
  BY <1>1, <1>3, <1>4, <1>5, <1>6, <1>7, <1>8, <1>9, <1>10, <1>11, <1>12,
     <1>13, <1>14 DEF Handle

(* Whose step it may be, seen from one request.                            *)
LEMMA RequestStep ==
  ASSUME TypeOK, [Next]_vars, NEW c \in Callers
  PROVE  \/ req'[c] = req[c]
         \/ \E k \in Keys : Send(c, k)
         \/ Handle(c)
<1>1. ASSUME NEW d \in Callers, NEW k \in Keys, Send(d, k), d # c
      PROVE  req'[c] = req[c]
  BY <1>1, SentAlone
<1>2. ASSUME NEW d \in Callers, Handle(d), d # c PROVE req'[c] = req[c]
  BY <1>2, HandlerMoves DEF Moves
<1>3. CASE \/ UNCHANGED vars
           \/ \E k \in Keys : Issue(k) \/ Revoke(k) \/ Expire(k)
           \/ \E p \in Projects : DeleteProject(p)
           \/ \E r \in Runs : Settle(r)
  BY <1>3 DEF vars, Issue, Revoke, Expire, DeleteProject, Settle
<1> QED BY <1>1, <1>2, <1>3 DEF Next

LEMMA RowsStep ==
  ASSUME TypeOK, AsksComplete, [Next]_vars
  PROVE  /\ \A p \in Projects : ProjectKept(p)
         /\ \/ \A r \in Runs : RunKept(r)
            \/ \E c \in Callers, r \in Runs : Inserted(c, r)
         /\ \/ told' = told
            \/ \E c \in Callers, r \in Runs : Inserted(c, r)
            \/ \E c \in Callers, r \in Runs :
                 /\ OwnRun(c, r) /\ runs[r].idem = req[c].ask.idem
                 /\ UNCHANGED runs /\ Tell(c, r)
<1> DEFINE Goal == /\ \A p \in Projects : ProjectKept(p)
                   /\ \/ \A r \in Runs : RunKept(r)
                      \/ \E c \in Callers, r \in Runs : Inserted(c, r)
                   /\ \/ told' = told
                      \/ \E c \in Callers, r \in Runs : Inserted(c, r)
                      \/ \E c \in Callers, r \in Runs :
                           /\ OwnRun(c, r) /\ runs[r].idem = req[c].ask.idem
                           /\ UNCHANGED runs /\ Tell(c, r)
<1> SUFFICES Goal
  OBVIOUS
<1>1. UNCHANGED projects => \A p \in Projects : ProjectKept(p)
  BY DEF ProjectKept
<1>2. UNCHANGED runs => \A r \in Runs : RunKept(r)
  BY DEF RunKept
<1>3. CASE UNCHANGED <<projects, runs, told>>
  BY <1>1, <1>2, <1>3
<1>4. ASSUME NEW c \in Callers, CreateProject(c) PROVE Goal
  <2>1. \A p \in Projects : ProjectKept(p)
    BY <1>4, <1>1 DEF CreateProject, ProjectKept, TypeOK
  <2> QED BY <1>2, <1>4, <2>1 DEF CreateProject
<1>5. ASSUME NEW c \in Callers, Rename(c) PROVE Goal
  <2>1. \A p \in Projects : projects[p] \in ProjectRow
    BY DEF TypeOK
  <2>2. \A p \in Projects : ProjectKept(p)
    BY <1>5, <1>1, <2>1 DEF Rename, ProjectKept, TypeOK, ProjectRow
  <2> QED BY <1>2, <1>5, <2>2 DEF Rename
<1>6. ASSUME NEW p \in Projects, DeleteProject(p) PROVE Goal
  <2>1. \A q \in Projects : ProjectKept(q)
    BY <1>6 DEF DeleteProject, ProjectKept, TypeOK, ProjectRow, ProjectExists
  <2>2. \A r \in Runs : RunKept(r)
    BY <1>6 DEF DeleteProject, RunKept, TypeOK, RunRow, RunExists, RunStatuses
  <2> QED BY <1>6, <2>1, <2>2 DEF DeleteProject
<1>7. ASSUME NEW c \in Callers, FindReplay(c) PROVE Goal
  BY <1>1, <1>2, <1>7 DEF FindReplay
<1>8. ASSUME NEW c \in Callers, InsertRun(c) PROVE Goal
  <2>1. CASE UNCHANGED <<runs, told>>
    BY <1>1, <1>2, <1>8, <2>1 DEF InsertRun
  <2>2. CASE \E r \in Runs : Inserted(c, r)
    BY <1>1, <1>8, <2>2 DEF InsertRun
  <2> QED BY <1>8, <2>1, <2>2 DEF InsertRun, Inserted
<1>9. ASSUME NEW c \in Callers, CancelRun(c) PROVE Goal
  <2>1. \A r \in Runs : RunKept(r)
    BY <1>9, <1>2 DEF CancelRun, RunKept, TypeOK, RunRow
  <2> QED BY <1>1, <1>9, <2>1 DEF CancelRun
<1>10. ASSUME NEW r \in Runs, Settle(r) PROVE Goal
  <2>1. \A s \in Runs : RunKept(s)
    BY <1>10 DEF Settle, RunKept, TypeOK, RunRow
  <2> QED BY <1>1, <1>10, <2>1 DEF Settle
<1> QED
  BY <1>3, <1>4, <1>5, <1>6, <1>7, <1>8, <1>9, <1>10
  DEF Next, Handle, vars, Issue, Revoke, Expire, Send, LookUpKey, Authenticate,
      ListProjects, ReadForRename, FindProject, GetRun, ReadForCancel,
      RereadCancelled

LEMMA HandlerProgress ==
  ASSUME TypeOK, NEW c \in Callers, Handle(c)
  PROVE  /\ req'[c].pc \in {"check", "start", "project", "write", "reread", "done"}
         /\ req'[c].pc = "check" => LookUpKey(c)
         /\ req'[c].pc = "start" => Authenticate(c)
         /\ req'[c].pc = "project" => FindReplay(c)
         /\ req'[c].pc = "write" => FindProject(c) \/ ReadForRename(c) \/ ReadForCancel(c)
         /\ req'[c].pc = "reread" => ReadForCancel(c) \/ CancelRun(c)
<1>0. req \in [Callers -> Request] /\ req[c] \in Request
  BY DEF TypeOK
<1>1. req[c].pc \notin {"idle", "done"}
  BY HandlerMoves DEF Moves
<1>2. ASSUME NEW pc \in {"start", "project", "write", "reread"},
             req' = [req EXCEPT ![c].pc = pc]
      PROVE  req'[c].pc = pc
  BY <1>1, <1>2, MovedFields
<1>3. ASSUME NEW code, NEW rows, NEW status, req' = Answered(c, code, rows, status)
      PROVE  req'[c].pc = "done"
  BY <1>1, <1>3, AnsweredFields
<1>4. ASSUME NEW code, Refuse(c, code) PROVE req'[c].pc = "done"
  BY <1>3, <1>4 DEF Refuse
<1>5. ASSUME NEW r, Tell(c, r) PROVE req'[c].pc = "done"
  BY <1>3, <1>5 DEF Tell
<1>6. CASE LookUpKey(c)
  <2>1. PICK record : req' = [req EXCEPT ![c].pc = "check", ![c].record = record]
    BY <1>6 DEF LookUpKey
  <2>2. req'[c] = [req[c] EXCEPT !.pc = "check", !.record = record]
    BY <1>0, <2>1
  <2>3. req'[c].pc = "check"
    BY <1>0, <2>2 DEF Request
  <2> QED BY <1>6, <2>3
<1>7. CASE Authenticate(c)
  BY <1>2, <1>4, <1>7 DEF Authenticate
<1>8. CASE CreateProject(c)
  <2>1. \/ Refuse(c, "internal_error")
        \/ \E p \in Projects : req' = Answered(c, "ok", {p}, None)
    BY <1>8 DEF CreateProject
  <2> QED BY <1>3, <1>4, <2>1
<1>9. CASE ListProjects(c)
  BY <1>3, <1>9 DEF ListProjects
<1>10. CASE ReadForRename(c)
  BY <1>2, <1>4, <1>10 DEF ReadForRename
<1>11. CASE Rename(c)
  BY <1>3, <1>4, <1>11 DEF Rename
<1>12. CASE FindReplay(c)
  BY <1>2, <1>5, <1>12 DEF FindReplay
<1>13. CASE FindProject(c)
  BY <1>2, <1>4, <1>13 DEF FindProject
<1>14. CASE InsertRun(c)
  BY <1>4, <1>5, <1>14 DEF InsertRun
<1>15. CASE GetRun(c)
  BY <1>3, <1>4, <1>15 DEF GetRun
<1>16. CASE ReadForCancel(c)
  BY <1>2, <1>4, <1>16 DEF ReadForCancel
<1>17. CASE CancelRun(c)
  BY <1>2, <1>4, <1>17 DEF CancelRun
<1>18. CASE RereadCancelled(c)
  BY <1>3, <1>4, <1>18 DEF RereadCancelled
<1> QED
  BY <1>6, <1>7, <1>8, <1>9, <1>10, <1>11, <1>12, <1>13, <1>14, <1>15, <1>16,
     <1>17, <1>18 DEF Handle

-----------------------------------------------------------------------------
(* The conjuncts of the inductive invariant *)

LEMMA AsksStep == TypeOK /\ AsksComplete /\ [Next]_vars => AsksComplete'
<1> SUFFICES ASSUME TypeOK, AsksComplete, [Next]_vars PROVE AsksComplete'
  OBVIOUS
<1> SUFFICES ASSUME NEW c \in Callers
    PROVE (LET ask == req[c].ask IN
           /\ req[c].pc # "idle" => ask.key \in Keys
           /\ req[c].pc \notin {"idle", "done"} =>
                /\ ask.op \in Operations
                /\ ask.op = "create_project" => ask.name \in Names
                /\ ask.op = "create_run" =>
                     ask.project \in Projects /\ ask.idem \in IdemKeys
                /\ ask.op \in {"get_run", "cancel_run"} => ask.run \in Runs
                /\ ask.op = "rename" =>
                     ask.project \in Projects /\ ask.name \in Names)'
  BY DEF AsksComplete
<1>1. CASE req'[c] = req[c]
  BY <1>1 DEF AsksComplete
<1>2. ASSUME NEW k \in Keys, Send(c, k) PROVE (LET ask == req[c].ask IN
           /\ ask.key \in Keys
           /\ ask.op \in Operations
           /\ ask.op = "create_project" => ask.name \in Names
           /\ ask.op = "create_run" => ask.project \in Projects /\ ask.idem \in IdemKeys
           /\ ask.op \in {"get_run", "cancel_run"} => ask.run \in Runs
           /\ ask.op = "rename" => ask.project \in Projects /\ ask.name \in Names)'
  <2> PICK ask \in Asks(k) : ask.op \in Operations /\ req'[c].ask = ask
    BY <1>2, SentAlone
  <2> QED BY AsksTyped DEF KnownProjects, KnownRuns
<1>3. CASE Handle(c)
  BY <1>3, HandlerMoves DEF Moves, AsksComplete
<1> QED BY <1>1, <1>2, <1>3, RequestStep

LEMMA KeysStep ==
  [Next]_vars => issued \subseteq issued' /\ revoked \subseteq revoked'
                 /\ expired \subseteq expired'
BY DEF Next, Handle, vars, keyVars, Issue, Revoke, Expire, Send, LookUpKey,
       Authenticate, CreateProject, ListProjects, ReadForRename, Rename,
       DeleteProject, FindReplay, FindProject, InsertRun, GetRun, ReadForCancel,
       CancelRun, RereadCancelled, Settle

LEMMA LateStep ==
  ASSUME TypeOK, AsksComplete, LateKnown, LateKeysRefused, [Next]_vars
  PROVE  LateKnown' /\ LateKeysRefused'
<1> DEFINE Refused(c) ==
      req[c].late /\ req[c].ask.op \in Routes =>
        /\ req[c].pc \in {"lookup", "check", "done"}
        /\ req[c].pc = "lookup" => req[c].ask.key \in revoked \union expired
        /\ req[c].pc = "check" => req[c].record # "valid" \/ req[c].ask.key \in expired
        /\ req[c].pc = "done" => req[c].code = "authentication_required"
<1> SUFFICES ASSUME NEW c \in Callers, Refused(c) PROVE Refused(c)'
  BY DEF LateKnown, LateKeysRefused
<1>1. CASE req'[c] = req[c]
  BY <1>1, KeysStep
<1>2. ASSUME NEW k \in Keys, Send(c, k) PROVE Refused(c)'
  <2>1. PICK ask \in Asks(k) : ask.op \in Operations /\ req'[c].ask = ask
    BY <1>2, SentAlone
  <2>2. ask.key = k
    BY <2>1, AsksTyped
  <2>3. UNCHANGED <<revoked, expired>>
    BY <1>2 DEF Send, keyVars
  <2> QED BY <1>2, <2>1, <2>2, <2>3, SentAlone
<1>3. CASE LookUpKey(c)
  <2>1. req \in [Callers -> Request] /\ req[c] \in Request
    BY DEF TypeOK
  <2> DEFINE record == IF req[c].ask.key \notin issued THEN "none"
                       ELSE IF req[c].ask.key \in revoked THEN "revoked"
                       ELSE "valid"
  <2>2. record = "valid" => req[c].ask.key \notin revoked
    OBVIOUS
  <2>3. req' = [req EXCEPT ![c].pc = "check", ![c].record = record]
    BY <1>3 DEF LookUpKey
  <2> HIDE DEF record
  <2>4. req'[c] = [req[c] EXCEPT !.pc = "check", !.record = record]
    BY <2>1, <2>3
  <2>5. /\ req'[c].pc = "check" /\ req'[c].record = record
        /\ req'[c].ask = req[c].ask /\ req'[c].late = req[c].late
    BY <2>1, <2>4 DEF Request
  <2>6. req[c].pc = "lookup" /\ UNCHANGED <<revoked, expired>>
    BY <1>3 DEF LookUpKey, keyVars
  <2> QED BY <2>2, <2>5, <2>6
<1>4. CASE Authenticate(c)
  <2>1. Moves(c)
    BY <1>4, HandlerMoves DEF Handle
  <2>2. CASE req[c].late /\ req[c].ask.op \in Routes
    <3>1. Refuse(c, "authentication_required")
      BY <1>4, <2>2 DEF Authenticate
    <3>2. req'[c].pc = "done" /\ req'[c].code = "authentication_required"
      BY <2>1, <3>1, AnsweredFields DEF Refuse, Moves
    <3> QED BY <3>2
  <2>3. CASE ~(req[c].late /\ req[c].ask.op \in Routes)
    BY <2>1, <2>3 DEF Moves
  <2> QED BY <2>2, <2>3
<1>5. CASE Handle(c) /\ req[c].pc \notin {"lookup", "check"}
  BY <1>5, HandlerMoves DEF Moves
<1>6. CASE Handle(c) /\ req[c].pc \in {"lookup", "check"}
  BY <1>3, <1>4, <1>6
  DEF Handle, At, CreateProject, ListProjects, ReadForRename, Rename, FindReplay,
      FindProject, InsertRun, GetRun, ReadForCancel, CancelRun, RereadCancelled
<1> QED BY <1>1, <1>2, <1>5, <1>6, RequestStep

LEMMA ProjectsStay ==
  ASSUME TypeOK, [Next]_vars
  PROVE  \/ \A p \in Projects : ProjectExists(p) => ProjectExists(p)'
         \/ \E p \in Projects : DeleteProject(p)
<1>1. ASSUME NEW c \in Callers, CreateProject(c)
      PROVE  \A p \in Projects : ProjectExists(p) => ProjectExists(p)'
  BY <1>1 DEF CreateProject, ProjectExists, TypeOK
<1>2. ASSUME NEW c \in Callers, Rename(c)
      PROVE  \A p \in Projects : ProjectExists(p) => ProjectExists(p)'
  <2>1. \A p \in Projects : projects[p] \in ProjectRow
    BY DEF TypeOK
  <2> QED BY <1>2, <2>1 DEF Rename, ProjectExists, TypeOK, ProjectRow
<1>3. CASE UNCHANGED projects
  BY <1>3 DEF ProjectExists
<1> QED
  BY <1>1, <1>2, <1>3
  DEF Next, Handle, vars, Issue, Revoke, Expire, Send, LookUpKey, Authenticate,
      ListProjects, ReadForRename, FindReplay, FindProject, InsertRun, GetRun,
      ReadForCancel, CancelRun, RereadCancelled, Settle

LEMMA InsertedRow ==
  ASSUME TypeOK, AsksComplete, NEW c \in Callers, NEW r \in Runs, Inserted(c, r)
  PROVE  /\ req[c].ask.project \in Projects
         /\ runs'[r].status = "active"
         /\ runs'[r].tenant = Context(c)
         /\ runs'[r].project = req[c].ask.project
         /\ runs'[r].idem = req[c].ask.idem
         /\ \A s \in Runs \ {r} : runs'[s] = runs[s]
BY DEF Inserted, NewRun, TypeOK, At, AsksComplete

LEMMA RunsStep ==
  ASSUME TypeOK, AsksComplete, OneRunPerKey, ToldKnown, RunsInProjects,
         ProjectsOwned, [Next]_vars
  PROVE  OneRunPerKey' /\ ToldKnown' /\ RunsInProjects'
<1>0. /\ \A r \in Runs : runs[r] \in RunRow /\ runs'[r] \in RunRow
      /\ told \subseteq [tenant : Tenants, idem : IdemKeys, run : Runs]
  BY TypeStep DEF TypeOK
<1>1. ASSUME NEW r \in Runs, RunKept(r), RunExists(r)' PROVE RunExists(r)
  BY <1>0, <1>1 DEF RunKept, RunExists, RunStatuses, RunRow, RunStates
<1>2. OneRunPerKey'
  <2>1. CASE \A r \in Runs : RunKept(r)
    BY <1>1, <2>1 DEF OneRunPerKey, RunKept
  <2>2. ASSUME NEW c \in Callers, NEW r \in Runs, Inserted(c, r)
        PROVE  OneRunPerKey'
    <3>1. ASSUME NEW s \in Runs \ {r}, RunExists(s)'
          PROVE  ~(runs'[s].tenant = runs'[r].tenant /\ runs'[s].idem = runs'[r].idem)
      <4>1. RunExists(s) /\ runs'[s] = runs[s]
        BY <2>2, <3>1, InsertedRow DEF RunExists
      <4>2. ~(runs[s].tenant = Context(c) /\ runs[s].idem = req[c].ask.idem)
        BY <2>2, <4>1 DEF Inserted, KeyTaken
      <4> QED BY <2>2, <4>1, <4>2, InsertedRow
    <3>2. \A s \in Runs \ {r} : RunExists(s)' => RunExists(s) /\ runs'[s] = runs[s]
      BY <2>2, InsertedRow DEF RunExists
    <3> QED BY <3>1, <3>2 DEF OneRunPerKey
  <2> QED BY <2>1, <2>2, RowsStep
<1>3. ToldKnown'
  <2>1. ASSUME NEW a \in told
        PROVE  /\ runs'[a.run].status # "absent"
               /\ runs'[a.run].tenant = a.tenant
               /\ runs'[a.run].idem = a.idem
    <3>1. a.run \in Runs
      BY <1>0, <2>1
    <3>2. CASE \A r \in Runs : RunKept(r)
      BY <2>1, <3>1, <3>2 DEF ToldKnown, RunKept
    <3>3. ASSUME NEW c \in Callers, NEW r \in Runs, Inserted(c, r)
          PROVE  runs'[a.run] = runs[a.run]
      BY <2>1, <3>1, <3>3, InsertedRow DEF ToldKnown, Inserted
    <3> QED BY <2>1, <3>2, <3>3, RowsStep DEF ToldKnown
  <2>2. CASE told' = told
    BY <2>1, <2>2 DEF ToldKnown
  <2>3. ASSUME NEW c \in Callers, NEW r \in Runs, Inserted(c, r)
        PROVE  ToldKnown'
    <3>1. told' = told \union
            {[tenant |-> Context(c), idem |-> req[c].ask.idem, run |-> r]}
      BY <2>3 DEF Inserted, Tell
    <3>2. /\ runs'[r].status # "absent" /\ runs'[r].tenant = Context(c)
          /\ runs'[r].idem = req[c].ask.idem
      BY <2>3, InsertedRow
    <3> QED BY <2>1, <3>1, <3>2 DEF ToldKnown
  <2>4. ASSUME NEW c \in Callers, NEW r \in Runs, OwnRun(c, r),
               runs[r].idem = req[c].ask.idem, UNCHANGED runs, Tell(c, r)
        PROVE  ToldKnown'
    <3>1. told' = told \union
            {[tenant |-> Context(c), idem |-> req[c].ask.idem, run |-> r]}
      BY <2>4 DEF Tell
    <3>2. /\ runs'[r].status # "absent" /\ runs'[r].tenant = Context(c)
          /\ runs'[r].idem = req[c].ask.idem
      BY <2>4 DEF OwnRun, RunExists, RunStatuses
    <3> QED BY <2>1, <3>1, <3>2 DEF ToldKnown
  <2> QED BY <2>2, <2>3, <2>4, RowsStep
<1>4. RunsInProjects'
  <2>1. \A p \in Projects : ProjectKept(p)
    BY RowsStep
  <2>2. CASE \A p \in Projects : ProjectExists(p) => ProjectExists(p)'
    <3>1. ASSUME NEW r \in Runs, RunKept(r), RunExists(r)'
          PROVE  /\ runs'[r].project \in Projects
                 /\ ProjectExists(runs[r].project)'
                 /\ projects'[runs'[r].project].tenant = runs'[r].tenant
      <4>1. RunExists(r) /\ runs'[r].project = runs[r].project
            /\ runs'[r].tenant = runs[r].tenant
        BY <1>1, <3>1 DEF RunKept
      <4>2. /\ runs[r].project \in Projects
            /\ ProjectExists(runs[r].project)
            /\ projects[runs[r].project].tenant = runs[r].tenant
        BY <4>1 DEF RunsInProjects
      <4>3. ProjectKept(runs[r].project) /\ projects[runs[r].project].status # "absent"
        BY <2>1, <4>2 DEF ProjectExists
      <4> QED BY <2>2, <4>1, <4>2, <4>3 DEF ProjectKept, ProjectExists
    <3>2. ASSUME NEW c \in Callers, NEW r \in Runs, Inserted(c, r)
          PROVE  RunsInProjects'
      <4>1. /\ projects' = projects /\ req[c].ask.project \in Projects
            /\ ProjectExists(req[c].ask.project)
            /\ projects[req[c].ask.project].tenant = Context(c)
        BY <3>2, InsertedRow DEF Inserted, ProjectsOwned
      <4>2. \A s \in Runs \ {r} : RunExists(s)' => RunExists(s) /\ runs'[s] = runs[s]
        BY <3>2, InsertedRow DEF RunExists
      <4> QED BY <3>2, <4>1, <4>2, InsertedRow DEF RunsInProjects, ProjectExists
    <3> QED BY <3>1, <3>2, RowsStep DEF RunsInProjects
  <2>3. ASSUME NEW p \in Projects, DeleteProject(p) PROVE RunsInProjects'
    <3>1. ASSUME NEW r \in Runs, RunExists(r)'
          PROVE  RunExists(r) /\ runs'[r] = runs[r] /\ runs[r].project # p
      BY <1>0, <2>3, <3>1 DEF DeleteProject, RunExists, RunStatuses, RunRow
    <3>2. \A q \in Projects \ {p} : projects'[q] = projects[q]
      BY <2>3 DEF DeleteProject, TypeOK
    <3> QED BY <3>1, <3>2 DEF RunsInProjects, ProjectExists
  <2> QED BY <2>2, <2>3, ProjectsStay
<1> QED BY <1>2, <1>3, <1>4

LEMMA VersionsStep ==
  ASSUME TypeOK, AsksComplete, VersionsCounted, [Next]_vars
  PROVE  VersionsCounted'
<1> DEFINE Counted(p) ==
      /\ projects[p].version \in 0..MaxVersion
      /\ projects[p].status = "absent" <=> projects[p].version = 0
      /\ \A v \in 0..MaxVersion :
           <<p, v>> \in renamed <=> v \in 1..projects[p].version - 1
<1>0. \A p \in Projects : projects[p] \in ProjectRow /\ projects[p].version \in Nat
  BY DEF TypeOK, ProjectRow
<1>1. ASSUME NEW c \in Callers, CreateProject(c) PROVE VersionsCounted'
  <2>1. CASE UNCHANGED projects
    BY <1>1, <2>1 DEF CreateProject, VersionsCounted
  <2>2. ASSUME NEW p \in Projects, projects[p].status = "absent", NEW t, NEW n,
               projects' = [projects EXCEPT ![p] =
                 [status |-> "exists", tenant |-> t, name |-> n, version |-> 1]]
        PROVE  VersionsCounted'
    <3>1. /\ projects'[p].status = "exists" /\ projects'[p].version = 1
          /\ \A q \in Projects \ {p} : projects'[q] = projects[q]
          /\ renamed' = renamed
      BY <1>1, <2>2 DEF CreateProject, TypeOK
    <3>2. projects[p].version = 0
      BY <2>2 DEF VersionsCounted
    <3>3. Counted(p)'
      <4>1. \A v \in 0..MaxVersion : <<p, v>> \notin renamed
        BY <3>2, BoundAssumption DEF VersionsCounted
      <4>2. \A v \in 0..MaxVersion : v \notin 1..(1 - 1)
        BY BoundAssumption
      <4>3. 1 \in 0..MaxVersion
        BY BoundAssumption
      <4> QED BY <3>1, <4>1, <4>2, <4>3
    <3> QED BY <3>1, <3>3 DEF VersionsCounted
  <2> QED BY <1>1, <2>1, <2>2 DEF CreateProject
<1>2. ASSUME NEW c \in Callers, Rename(c) PROVE VersionsCounted'
  <2>1. PICK p \in Projects, v \in Nat :
          p = req[c].ask.project /\ v = req[c].ask.version
    BY <1>2 DEF Rename, At, AsksComplete, TypeOK, Request, Ask
  <2>2. CASE UNCHANGED <<projects, renamed>>
    BY <2>2 DEF VersionsCounted
  <2>3. CASE /\ OwnProject(c, p) /\ projects[p].version = v
             /\ projects' = [projects EXCEPT ![p].name = req[c].ask.name,
                                             ![p].version = @ + 1]
             /\ renamed' = renamed \union {<<p, v>>}
    <3>1. projects[p].version < MaxVersion
      BY <1>2, <2>1 DEF Rename
    <3>2. /\ projects'[p].status = "exists"
          /\ projects'[p].version = v + 1
          /\ \A q \in Projects \ {p} : projects'[q] = projects[q]
      BY <1>0, <2>1, <2>3 DEF TypeOK, ProjectRow, OwnProject, ProjectExists
    <3>3. v \in 1..MaxVersion /\ v < MaxVersion /\ v \in Nat
      BY <1>0, <2>1, <2>3, <3>1, BoundAssumption
      DEF VersionsCounted, OwnProject, ProjectExists
    <3>4. Counted(p)'
      <4>1. \A w \in 0..MaxVersion : <<p, w>> \in renamed' <=> w \in 1..v
        <5>1. \A w \in 0..MaxVersion : <<p, w>> \in renamed <=> w \in 1..(v - 1)
          BY <2>1, <2>3 DEF VersionsCounted
        <5>2. \A w \in 0..MaxVersion : w \in 1..v <=> w \in 1..(v - 1) \/ w = v
          BY <3>3, BoundAssumption
        <5> QED BY <2>3, <5>1, <5>2
      <4>2. v + 1 \in 0..MaxVersion /\ v + 1 # 0 /\ v + 1 - 1 = v
        BY <3>3, BoundAssumption
      <4>3. projects'[p].version - 1 = v /\ projects'[p].version \in 0..MaxVersion
            /\ projects'[p].version # 0
        BY <3>2, <3>3, <4>2
      <4>4. projects'[p].status # "absent"
        BY <3>2
      <4>5. \A w \in 0..MaxVersion :
              <<p, w>> \in renamed' <=> w \in 1..projects'[p].version - 1
        BY <4>1, <4>3
      <4> QED BY <4>3, <4>4, <4>5
    <3>5. \A q \in Projects \ {p} : Counted(q)'
      BY <2>3, <3>2 DEF VersionsCounted
    <3> QED BY <3>4, <3>5 DEF VersionsCounted
  <2> QED BY <1>2, <2>1, <2>2, <2>3 DEF Rename
<1>3. ASSUME NEW p \in Projects, DeleteProject(p) PROVE VersionsCounted'
  <2>1. /\ renamed' = renamed
        /\ projects[p].status = "exists" /\ projects'[p].status = "deleted"
        /\ \A q \in Projects : projects'[q].version = projects[q].version
        /\ \A q \in Projects \ {p} : projects'[q] = projects[q]
    BY <1>0, <1>3 DEF DeleteProject, TypeOK, ProjectRow, ProjectExists
  <2> QED BY <2>1 DEF VersionsCounted
<1>4. CASE UNCHANGED <<projects, renamed>>
  BY <1>4 DEF VersionsCounted
<1> QED
  BY <1>1, <1>2, <1>3, <1>4
  DEF Next, Handle, vars, Issue, Revoke, Expire, Send, LookUpKey, Authenticate,
      ListProjects, ReadForRename, FindReplay, FindProject, InsertRun, GetRun,
      ReadForCancel, CancelRun, RereadCancelled, Settle

LEMMA ProjectsOwnedStep ==
  ASSUME TypeOK, AsksComplete, ProjectsOwned, [Next]_vars
  PROVE  ProjectsOwned'
<1> DEFINE Owned(c) ==
      At(c, "write", "create_run") =>
        /\ projects[req[c].ask.project].status # "absent"
        /\ projects[req[c].ask.project].tenant = Context(c)
<1> SUFFICES ASSUME NEW c \in Callers, Owned(c) PROVE Owned(c)'
  BY DEF ProjectsOwned
<1>1. CASE req'[c] = req[c]
  <2>1. At(c, "write", "create_run") => ProjectKept(req[c].ask.project)
    BY RowsStep DEF At, AsksComplete
  <2> QED BY <1>1, <2>1 DEF ProjectKept, At, Context
<1>2. ASSUME NEW k \in Keys, Send(c, k) PROVE Owned(c)'
  BY <1>2, SentAlone DEF At
<1>3. CASE FindProject(c)
  <2> DEFINE p == req[c].ask.project
  <2>1. CASE OwnProject(c, p) /\ req' = [req EXCEPT ![c].pc = "write"]
    <3>1. req'[c].ask = req[c].ask
      BY <1>3, <2>1, MovedFields DEF FindProject, At, Moves
    <3>2. UNCHANGED projects
      BY <1>3 DEF FindProject
    <3> QED BY <2>1, <3>1, <3>2 DEF OwnProject, ProjectExists, Context
  <2>2. CASE Refuse(c, "project_not_found")
    <3>1. req'[c].pc = "done"
      BY <1>3, <2>2, AnsweredFields DEF FindProject, At, Refuse
    <3> QED BY <3>1 DEF At
  <2> QED BY <1>3, <2>1, <2>2 DEF FindProject
<1>4. CASE Handle(c) /\ ~FindProject(c)
  <2>1. req'[c].pc = "write" => ReadForRename(c) \/ ReadForCancel(c)
    BY <1>4, HandlerProgress
  <2>2. req'[c].ask.op = req[c].ask.op
    BY <1>4, HandlerMoves DEF Moves
  <2> QED BY <2>1, <2>2 DEF At, ReadForRename, ReadForCancel
<1> QED BY <1>1, <1>2, <1>3, <1>4, RequestStep

(* The row of a request after one update of it, read off without the rest  *)
(* of what the update does: what cancel's steps below need of it.          *)
LEMMA AnsweredRow ==
  ASSUME NEW c \in Callers, NEW code, NEW rows, NEW status,
         req \in [Callers -> Request],
         req' = Answered(c, code, rows, status)
  PROVE  req'[c].pc = "done" /\ req'[c].status = status
<1>1. req'[c] = [req[c] EXCEPT !.pc = "done", !.ask = Finished(req[c].ask),
                               !.code = code, !.rows = rows, !.status = status]
  BY DEF Answered
<1>2. req[c] \in Request
  OBVIOUS
<1> QED BY <1>1, <1>2 DEF Request

LEMMA RereadRow ==
  ASSUME NEW c \in Callers, req \in [Callers -> Request],
         req' = [req EXCEPT ![c].pc = "reread"]
  PROVE  req'[c].pc = "reread" /\ req'[c].ask = req[c].ask
<1>1. req'[c] = [req[c] EXCEPT !.pc = "reread"]
  OBVIOUS
<1>2. req[c] \in Request
  OBVIOUS
<1> QED BY <1>1, <1>2 DEF Request

LEMMA CancelStep ==
  ASSUME TypeOK, AsksComplete, CancelledAtReread, CancelShowsCancelled, [Next]_vars
  PROVE  CancelledAtReread' /\ CancelShowsCancelled'
<1> DEFINE Shown(c) ==
      /\ At(c, "reread", "cancel_run") =>
           runs[req[c].ask.run].status \in {"cancelled", "deleted"}
      /\ At(c, "done", "cancel_run") /\ req[c].code = "ok" =>
           req[c].status = "cancelled"
<1> SUFFICES ASSUME NEW c \in Callers, Shown(c) PROVE Shown(c)'
  BY DEF CancelledAtReread, CancelShowsCancelled
<1> PICK r : r = req[c].ask.run
  OBVIOUS
<1>req. req \in [Callers -> Request]
  BY DEF TypeOK
<1>0. ASSUME NEW code \in Codes \ {"ok"}, req[c].pc \notin {"idle", "done"},
             Refuse(c, code)
      PROVE  Shown(c)'
  <2>1. req'[c].pc = "done" /\ req'[c].code = code
    BY <1>0, AnsweredFields DEF Refuse
  <2> QED BY <2>1 DEF At
<1>1. CASE req'[c] = req[c]
  <2>1. At(c, "reread", "cancel_run") =>
          r \in Runs /\ runs'[r].status \in {"cancelled", "deleted"}
    <3> SUFFICES ASSUME At(c, "reread", "cancel_run")
                 PROVE  r \in Runs /\ runs'[r].status \in {"cancelled", "deleted"}
      OBVIOUS
    <3>1. r \in Runs /\ runs[r].status \in {"cancelled", "deleted"}
      BY DEF At, AsksComplete
    <3>2. ASSUME NEW d \in Callers, NEW s \in Runs, Inserted(d, s)
          PROVE  runs'[r] = runs[r]
      BY <3>1, <3>2, InsertedRow DEF Inserted
    <3> QED BY <3>1, <3>2, RowsStep DEF RunKept
  <2> QED BY <1>1, <2>1 DEF At
<1>2. ASSUME NEW k \in Keys, Send(c, k) PROVE Shown(c)'
  BY <1>2, SentAlone DEF At
<1>3. CASE ReadForCancel(c)
  <2>1. CASE runs[r].status = "cancelled" /\ req' = [req EXCEPT ![c].pc = "reread"]
    <3>0. req[c].pc \notin {"idle", "done"}
      BY <1>3 DEF ReadForCancel, At
    <3>1. req'[c].pc = "reread" /\ req'[c].ask = req[c].ask
      <4>1. req' = [req EXCEPT ![c].pc = "reread"]
        BY <2>1
      <4> QED BY ONLY <4>1, <1>req, RereadRow
    <3> QED BY <1>3, <2>1, <3>1 DEF ReadForCancel, At
  <2>2. CASE req' = [req EXCEPT ![c].pc = "write"]
    <3>1. req'[c].pc = "write"
      BY <1>3, <2>2, MovedFields DEF ReadForCancel, At
    <3> QED BY <3>1 DEF At
  <2>3. CASE Refuse(c, "run_not_cancellable")
    BY <1>0, <1>3, <2>3 DEF ReadForCancel, At, Codes
  <2> QED BY <1>3, <2>1, <2>2, <2>3 DEF ReadForCancel
<1>4. CASE CancelRun(c)
  <2>1. CASE /\ runs' = [runs EXCEPT ![r].status = "cancelled"]
             /\ req' = [req EXCEPT ![c].pc = "reread"]
    <3>0. req[c].pc \notin {"idle", "done"}
      BY <1>4 DEF CancelRun, At
    <3>1. req'[c].pc = "reread" /\ req'[c].ask = req[c].ask
      <4>1. req' = [req EXCEPT ![c].pc = "reread"]
        BY <2>1
      <4> QED BY ONLY <4>1, <1>req, RereadRow
    <3>2. r \in Runs /\ runs[r] \in RunRow
      BY <1>4 DEF CancelRun, At, AsksComplete, TypeOK
    <3>3. runs'[r].status = "cancelled"
      BY <2>1, <3>2 DEF TypeOK, RunRow
    <3> QED BY <3>1, <3>3 DEF At
  <2>2. CASE Refuse(c, "run_not_cancellable")
    BY <1>0, <1>4, <2>2 DEF CancelRun, At, Codes
  <2> QED BY <1>4, <2>1, <2>2 DEF CancelRun
<1>5. CASE RereadCancelled(c)
  <2>1. CASE OwnRun(c, r) /\ req' = Answered(c, "ok", {r}, runs[r].status)
    <3>0. req[c].pc \notin {"idle", "done"}
      BY <1>5 DEF RereadCancelled, At
    <3>1. req'[c].pc = "done" /\ req'[c].status = runs[r].status
      <4>1. req' = Answered(c, "ok", {r}, runs[r].status)
        BY <2>1
      <4> QED BY ONLY <4>1, <1>req, AnsweredRow
    <3>2. runs[r].status = "cancelled"
      BY <1>5, <2>1 DEF RereadCancelled, At, OwnRun, RunExists, RunStatuses
    <3> QED BY <3>1, <3>2 DEF At
  <2>2. CASE Refuse(c, "internal_error")
    BY <1>0, <1>5, <2>2 DEF RereadCancelled, At, Codes
  <2> QED BY <1>5, <2>1, <2>2 DEF RereadCancelled
<1>6. CASE Authenticate(c)
  <2>1. CASE req' = [req EXCEPT ![c].pc = "start"]
    <3>1. req'[c].pc = "start"
      BY <1>6, <2>1, MovedFields DEF Authenticate
    <3> QED BY <3>1 DEF At
  <2>2. CASE \/ Refuse(c, "authentication_required")
             \/ Refuse(c, "permission_denied")
    BY <1>0, <1>6, <2>2 DEF Authenticate, Codes
  <2> QED BY <1>6, <2>1, <2>2 DEF Authenticate
<1>7. CASE LookUpKey(c)
  <2>1. req'[c].pc = "check"
    <3>1. req \in [Callers -> Request] /\ req[c] \in Request
      BY DEF TypeOK
    <3>2. PICK record : req' = [req EXCEPT ![c].pc = "check", ![c].record = record]
      BY <1>7 DEF LookUpKey
    <3>3. req'[c] = [req[c] EXCEPT !.pc = "check", !.record = record]
      BY <3>1, <3>2
    <3> QED BY <3>1, <3>3 DEF Request
  <2> QED BY <2>1 DEF At
<1>8. CASE Handle(c) /\ req[c].ask.op # "cancel_run"
  BY <1>8, HandlerMoves DEF Moves, At
<1>9. CASE Handle(c) /\ req[c].ask.op = "cancel_run"
  BY <1>3, <1>4, <1>5, <1>6, <1>7, <1>9
  DEF Handle, At, CreateProject, ListProjects, ReadForRename, Rename, FindReplay,
      FindProject, InsertRun, GetRun
<1> QED BY <1>1, <1>2, <1>8, <1>9, RequestStep

(* The rows that an answer shows exist and are of the tenant of the key.   *)
LEMMA AnswersOwned ==
  ASSUME TypeOK, AsksComplete, NEW c \in Callers, Handle(c), req'[c].pc = "done"
  PROVE  \A x \in req'[c].rows :
           /\ TenantOf(x)' = Context(c)
           /\ IF x \in Runs THEN runs'[x].status # "absent"
                            ELSE projects'[x].status # "absent"
<1> DEFINE Goal == \A x \in req'[c].rows :
           /\ TenantOf(x)' = Context(c)
           /\ IF x \in Runs THEN runs'[x].status # "absent"
                            ELSE projects'[x].status # "absent"
<1>0. req[c].pc \notin {"idle", "done"}
  BY HandlerMoves DEF Moves
<1>1. ASSUME NEW code, Refuse(c, code) PROVE Goal
  <2>1. req'[c].rows = {}
    BY <1>0, <1>1, AnsweredFields DEF Refuse
  <2> QED BY <2>1
<1>2. ASSUME NEW r \in Runs, OwnRun(c, r), UNCHANGED runs,
             req' = Answered(c, "ok", {r}, runs[r].status)
      PROVE  Goal
  <2>1. req'[c].rows = {r}
    BY <1>0, <1>2, AnsweredFields
  <2> QED BY <1>2, <2>1 DEF OwnRun, TenantOf, RunExists, RunStatuses
<1>3. ASSUME NEW rows \in SUBSET Projects,
             \A p \in rows : projects'[p].status # "absent"
                             /\ projects'[p].tenant = Context(c),
             req' = Answered(c, "ok", rows, None)
      PROVE  Goal
  <2>1. req'[c].rows = rows
    BY <1>0, <1>3, AnsweredFields
  <2> QED BY <1>3, <2>1, IdsAssumption DEF TenantOf
<1>4. CASE CreateProject(c)
  <2>1. ASSUME NEW p \in Projects,
               projects' = [projects EXCEPT ![p] =
                  [status |-> "exists", tenant |-> Context(c),
                   name |-> req[c].ask.name, version |-> 1]],
               req' = Answered(c, "ok", {p}, None)
        PROVE  Goal
    <3>1. projects'[p].status # "absent" /\ projects'[p].tenant = Context(c)
      BY <2>1 DEF TypeOK
    <3> QED BY <1>3, <2>1, <3>1
  <2> QED BY <1>1, <1>4, <2>1 DEF CreateProject
<1>5. CASE ListProjects(c)
  <2> PICK rows \in SUBSET Projects :
        /\ rows = {p \in Projects : OwnProject(c, p)}
        /\ req' = Answered(c, "ok", rows, None)
    BY <1>5 DEF ListProjects
  <2> QED BY <1>3, <1>5 DEF ListProjects, OwnProject, ProjectExists
<1>6. CASE Rename(c)
  <2>1. PICK p \in Projects : p = req[c].ask.project
    BY <1>6 DEF Rename, At, AsksComplete
  <2>2. CASE /\ OwnProject(c, p)
             /\ projects' = [projects EXCEPT ![p].name = req[c].ask.name,
                                             ![p].version = @ + 1]
             /\ req' = Answered(c, "ok", {p}, None)
    <3>1. projects[p] \in ProjectRow
      BY DEF TypeOK
    <3>2. projects'[p].status # "absent" /\ projects'[p].tenant = Context(c)
      BY <2>2, <3>1 DEF TypeOK, ProjectRow, OwnProject, ProjectExists
    <3>3. {p} \in SUBSET Projects
      OBVIOUS
    <3> QED BY <1>3, <2>2, <3>2, <3>3
  <2>3. CASE Refuse(c, "internal_error") \/ Refuse(c, "refused")
    BY <1>1, <2>3
  <2> QED BY <1>6, <2>1, <2>2, <2>3 DEF Rename
<1>7. CASE FindReplay(c)
  <2>1. CASE req' = [req EXCEPT ![c].pc = "project"]
    BY <1>0, <2>1, MovedFields
  <2>2. ASSUME NEW r \in Runs, OwnRun(c, r), UNCHANGED runs, Tell(c, r)
        PROVE  Goal
    BY <1>2, <2>2 DEF Tell
  <2> QED BY <1>7, <2>1, <2>2 DEF FindReplay
<1>8. CASE InsertRun(c)
  <2>1. ASSUME NEW r \in Runs, Inserted(c, r) PROVE Goal
    <3>1. runs'[r].status = "active" /\ runs'[r].tenant = Context(c)
      BY <2>1, InsertedRow
    <3>2. req'[c].rows = {r}
      BY <1>0, <2>1, AnsweredFields DEF Inserted, Tell
    <3> QED BY <3>1, <3>2 DEF TenantOf
  <2> QED BY <1>1, <1>8, <2>1 DEF InsertRun, Inserted
<1>9. CASE GetRun(c)
  <2>1. PICK r \in Runs : r = req[c].ask.run
    BY <1>9 DEF GetRun, At, AsksComplete
  <2>2. \/ OwnRun(c, r) /\ req' = Answered(c, "ok", {r}, runs[r].status)
        \/ Refuse(c, "run_not_found")
    BY <1>9, <2>1 DEF GetRun
  <2> QED BY <1>1, <1>2, <1>9, <2>2 DEF GetRun
<1>10. CASE RereadCancelled(c)
  <2>1. PICK r \in Runs : r = req[c].ask.run
    BY <1>10 DEF RereadCancelled, At, AsksComplete
  <2>2. \/ OwnRun(c, r) /\ req' = Answered(c, "ok", {r}, runs[r].status)
        \/ Refuse(c, "internal_error")
    BY <1>10, <2>1 DEF RereadCancelled
  <2> QED BY <1>1, <1>2, <1>10, <2>2 DEF RereadCancelled
<1>11. ASSUME NEW pc \in {"start", "write", "reread"},
              req' = [req EXCEPT ![c].pc = pc]
       PROVE  FALSE
  BY <1>0, <1>11, MovedFields
<1>12. CASE Authenticate(c)
  BY <1>1, <1>11, <1>12 DEF Authenticate
<1>13. CASE ReadForRename(c) \/ FindProject(c)
  BY <1>1, <1>11, <1>13 DEF ReadForRename, FindProject
<1>14. CASE ReadForCancel(c) \/ CancelRun(c)
  BY <1>1, <1>11, <1>14 DEF ReadForCancel, CancelRun
<1>15. CASE LookUpKey(c)
  <2>1. req \in [Callers -> Request] /\ req[c] \in Request
    BY DEF TypeOK
  <2>2. PICK record : req' = [req EXCEPT ![c].pc = "check", ![c].record = record]
    BY <1>15 DEF LookUpKey
  <2>3. req'[c] = [req[c] EXCEPT !.pc = "check", !.record = record]
    BY <2>1, <2>2
  <2> QED BY <2>1, <2>3 DEF Request
<1> QED
  BY <1>4, <1>5, <1>6, <1>7, <1>8, <1>9, <1>10, <1>12, <1>13, <1>14, <1>15
  DEF Handle

LEMMA RowsOwnedStep ==
  ASSUME TypeOK, AsksComplete, RowsOwned, [Next]_vars
  PROVE  RowsOwned'
<1> SUFFICES ASSUME NEW c \in Callers, NEW x \in req'[c].rows
             PROVE  (/\ req[c].pc = "done"
                     /\ TenantOf(x) = Context(c)
                     /\ IF x \in Runs THEN runs[x].status # "absent"
                                      ELSE projects[x].status # "absent")'
  BY DEF RowsOwned
<1>1. CASE req'[c] = req[c]
  <2>1. /\ req[c].pc = "done" /\ TenantOf(x) = Context(c)
        /\ IF x \in Runs THEN runs[x].status # "absent"
                         ELSE projects[x].status # "absent"
    BY <1>1 DEF RowsOwned
  <2>2. Context(c)' = Context(c)
    BY <1>1 DEF Context
  <2>3. CASE x \in Runs
    <3>1. ASSUME NEW d \in Callers, NEW s \in Runs, Inserted(d, s)
          PROVE  runs'[x] = runs[x]
      BY <2>1, <2>3, <3>1, InsertedRow DEF Inserted
    <3> QED BY <1>1, <2>1, <2>2, <2>3, <3>1, RowsStep DEF RunKept, TenantOf
  <2>4. CASE x \notin Runs
    <3>1. x \in Projects
      <4>1. req[c].rows \in SUBSET (Projects \union Runs)
        BY DEF TypeOK, Request
      <4> QED BY <1>1, <2>4, <4>1
    <3> QED BY <1>1, <2>1, <2>2, <2>4, <3>1, RowsStep DEF ProjectKept, TenantOf
  <2> QED BY <2>3, <2>4
<1>2. ASSUME NEW k \in Keys, Send(c, k) PROVE FALSE
  BY <1>2, SentAlone
<1>3. CASE Handle(c)
  <2>1. Moves(c)
    BY <1>3, HandlerMoves
  <2>2. req'[c].pc = "done"
    BY <2>1 DEF Moves, RowsOwned
  <2>3. Context(c)' = Context(c)
    BY <2>1 DEF Moves, Context
  <2> QED BY <1>3, <2>2, <2>3, AnswersOwned
<1> QED BY <1>1, <1>2, <1>3, RequestStep

-----------------------------------------------------------------------------
(* Theorems *)

LEMMA Initially == Init => IInv
<1> SUFFICES ASSUME Init PROVE IInv
  OBVIOUS
<1>1. TypeOK
  BY TypeCorrectInitially
<1>2. AsksComplete
  BY DEF Init, AsksComplete, NoRequest
<1>3. OneRunPerKey /\ RunsInProjects
  BY DEF Init, OneRunPerKey, RunsInProjects, RunExists, NoRun, RunStatuses
<1>4. ToldKnown
  BY DEF Init, ToldKnown
<1>5. ProjectsOwned /\ CancelledAtReread /\ CancelShowsCancelled
  BY DEF Init, ProjectsOwned, CancelledAtReread, CancelShowsCancelled, At, NoRequest
<1>6. RowsOwned
  BY DEF Init, RowsOwned, NoRequest
<1>7. LateKnown /\ LateKeysRefused
  BY DEF Init, LateKnown, LateKeysRefused, NoRequest
<1>8. VersionsCounted
  <2> SUFFICES ASSUME NEW p \in Projects
      PROVE /\ projects[p].version \in 0..MaxVersion
            /\ projects[p].status = "absent" <=> projects[p].version = 0
            /\ \A v \in 0..MaxVersion :
                 <<p, v>> \in renamed <=> v \in 1..projects[p].version - 1
    BY DEF VersionsCounted
  <2>1. projects[p].version = 0 /\ projects[p].status = "absent" /\ renamed = {}
    BY DEF Init, NoProject
  <2>2. 0 \in 0..MaxVersion /\ \A v \in 0..MaxVersion : v \notin 1..(0 - 1)
    BY BoundAssumption
  <2> QED BY <2>1, <2>2
<1> QED BY <1>1, <1>2, <1>3, <1>4, <1>5, <1>6, <1>7, <1>8 DEF IInv

LEMMA InvariantStep == IInv /\ [Next]_vars => IInv'
<1> SUFFICES ASSUME IInv, [Next]_vars PROVE IInv'
  OBVIOUS
<1> USE DEF IInv
<1>1. TypeOK' /\ AsksComplete'
  BY TypeStep, AsksStep
<1>2. OneRunPerKey' /\ ToldKnown' /\ RunsInProjects'
  BY RunsStep
<1>3. ProjectsOwned' /\ RowsOwned'
  BY ProjectsOwnedStep, RowsOwnedStep
<1>4. LateKnown' /\ LateKeysRefused'
  BY LateStep
<1>5. CancelledAtReread' /\ CancelShowsCancelled'
  BY CancelStep
<1>6. VersionsCounted'
  BY VersionsStep
<1> QED BY <1>1, <1>2, <1>3, <1>4, <1>5, <1>6

(* The invariant holds of any number of handlers, keys, tenants and rows.  *)
THEOREM InvariantHolds == Spec => []IInv
<1>1. Init => IInv
  BY Initially
<1>2. IInv /\ [Next]_vars => IInv'
  BY InvariantStep
<1> QED BY <1>1, <1>2, PTL DEF Spec

(* The handlers keep the rows and the requests well formed.                *)
THEOREM TypeCorrect == Spec => []TypeOK
<1>1. IInv => TypeOK
  BY DEF IInv
<1> QED BY <1>1, InvariantHolds, PTL

(* However creations race, uq_runs_tenant_idempotency leaves one run to an *)
(* idempotency key of a tenant.                                            *)
THEOREM OneRunPerKeyHolds == Spec => []OneRunPerKey
<1>1. IInv => OneRunPerKey
  BY DEF IInv
<1> QED BY <1>1, InvariantHolds, PTL

(* Creations with one key that succeed are told one run, or one of the     *)
(* runs they were told is gone.                                            *)
THEOREM ReplaysAgreeHolds == Spec => []ReplaysAgree
<1>1. IInv => ReplaysAgree
  <2> SUFFICES ASSUME IInv, NEW a \in told, NEW b \in told,
                      a.tenant = b.tenant, a.idem = b.idem,
                      runs[a.run].status # "deleted",
                      runs[b.run].status # "deleted"
               PROVE  a.run = b.run
    BY DEF ReplaysAgree
  <2>1. a.run \in Runs /\ b.run \in Runs
    BY DEF IInv, TypeOK
  <2>2. RunExists(a.run) /\ RunExists(b.run)
    BY <2>1 DEF IInv, TypeOK, ToldKnown, RunExists, RunRow, RunStates
  <2>3. /\ runs[a.run].tenant = runs[b.run].tenant
        /\ runs[a.run].idem = runs[b.run].idem
    BY DEF IInv, ToldKnown
  <2> QED BY <2>1, <2>2, <2>3 DEF IInv, OneRunPerKey
<1> QED BY <1>1, InvariantHolds, PTL

(* Whatever is deleted between the statements of a creation, a run is in a *)
(* project of its tenant; and no answer shows another tenant's row.        *)
THEOREM TenantsApartHolds == Spec => []TenantsApart
<1>1. IInv => TenantsApart
  BY DEF IInv, RunsInProjects, RowsOwned, TenantsApart
<1> QED BY <1>1, InvariantHolds, PTL

(* A request whose key was revoked or out of date as it came in is never   *)
(* let through, though the record is read before the clock.                *)
THEOREM LateKeysRefusedHolds == Spec => []LateKeysRefused
<1>1. IInv => LateKeysRefused
  BY DEF IInv
<1> QED BY <1>1, InvariantHolds, PTL

(* The versioned UPDATE lets one rename replace each version.              *)
THEOREM NoLostRenameHolds == Spec => []NoLostRename
<1>1. IInv => NoLostRename
  <2> SUFFICES ASSUME IInv, NEW p \in Projects, projects[p].status # "absent"
      PROVE {v \in 1..MaxVersion : <<p, v>> \in renamed} = 1..projects[p].version - 1
    BY DEF NoLostRename
  <2>1. PICK n \in 0..MaxVersion : n = projects[p].version
    BY DEF IInv, VersionsCounted
  <2>2. \A v \in 0..MaxVersion : <<p, v>> \in renamed <=> v \in 1..(n - 1)
    BY <2>1 DEF IInv, VersionsCounted
  <2>3. 1..MaxVersion \subseteq 0..MaxVersion /\ 1..(n - 1) \subseteq 1..MaxVersion
    BY BoundAssumption
  <2>4. {v \in 1..MaxVersion : <<p, v>> \in renamed} = 1..(n - 1)
    BY <2>2, <2>3
  <2> QED BY <2>1, <2>4
<1> QED BY <1>1, InvariantHolds, PTL

(* The second session of the cancel route still finds the run cancelled.   *)
THEOREM CancelShowsCancelledHolds == Spec => []CancelShowsCancelled
<1>1. IInv => CancelShowsCancelled
  BY DEF IInv
<1> QED BY <1>1, InvariantHolds, PTL

-----------------------------------------------------------------------------
(* A request past the authentication has the permission of its route.      *)
Cleared(c) ==
  req[c].pc \in {"start", "project", "write", "reread"} /\ req[c].ask.op \in Routes
    => Permits(KeyRoles[req[c].ask.key], Needs[req[c].ask.op])

LEMMA ClearedStep ==
  ASSUME TypeOK, [Next]_vars, NEW c \in Callers, Cleared(c)
  PROVE  Cleared(c)'
<1>1. CASE req'[c] = req[c]
  BY <1>1 DEF Cleared
<1>2. ASSUME NEW k \in Keys, Send(c, k) PROVE Cleared(c)'
  BY <1>2, SentAlone DEF Cleared
<1>3. CASE Handle(c)
  <2>1. Moves(c)
    BY <1>3, HandlerMoves
  <2>2. CASE req'[c].pc = "start"
    <3>1. Authenticate(c)
      BY <1>3, <2>2, HandlerProgress
    <3>2. ASSUME NEW code, Refuse(c, code) PROVE FALSE
      BY <2>1, <2>2, <3>2, AnsweredFields DEF Refuse, Moves
    <3>3. Permits(KeyRoles[req[c].ask.key], Needs[req[c].ask.op])
      BY <3>1, <3>2 DEF Authenticate
    <3> QED BY <2>1, <2>2, <3>3 DEF Moves, Cleared
  <2>3. CASE req'[c].pc \in {"project", "write", "reread"}
    <3>1. req[c].pc \in {"start", "project", "write"}
      BY <1>3, <2>3, HandlerProgress
      DEF At, FindReplay, FindProject, ReadForRename, ReadForCancel, CancelRun
    <3> QED BY <2>1, <2>3, <3>1 DEF Moves, Cleared
  <2> QED BY <2>2, <2>3 DEF Cleared
<1> QED BY <1>1, <1>2, <1>3, RequestStep

(* What asks for a permission that changes projects or runs needs a role   *)
(* that viewers and auditors do not have.                                  *)
LEMMA ChangingPermissions ==
  ASSUME NEW roles \in SUBSET Roles, roles \intersect {"operator", "admin"} = {},
         NEW permission \in {"project:create", "run:create", "run:cancel"}
  PROVE  ~Permits(roles, permission)
<1>1. \A role \in roles : role \in {"viewer", "auditor"}
  BY DEF Roles
<1>2. \A role \in {"viewer", "auditor"} : permission \notin RolePermissions[role]
  BY DEF RolePermissions
<1> QED BY <1>1, <1>2 DEF Permits

LEMMA ChangesNeed ==
  ASSUME TypeOK, NEW c \in Callers, Handle(c), req[c].ask.op \in Routes
  PROVE  \/ UNCHANGED <<projects, runs>>
         \/ /\ req[c].pc \in {"start", "write"}
            /\ Needs[req[c].ask.op] \in {"project:create", "run:create", "run:cancel"}
<1>1. CASE CreateProject(c)
  BY <1>1 DEF CreateProject, At, Needs
<1>2. CASE InsertRun(c)
  BY <1>2 DEF InsertRun, At, Needs
<1>3. CASE CancelRun(c)
  BY <1>3 DEF CancelRun, At, Needs
<1>4. ASSUME Rename(c) PROVE FALSE
  BY <1>4 DEF Rename, At, Routes, Needs
<1> QED BY <1>1, <1>2, <1>3, <1>4
  DEF Handle, LookUpKey, Authenticate, ListProjects, ReadForRename, FindReplay,
      FindProject, GetRun, ReadForCancel, RereadCancelled

(* No step of a request whose key has neither the operator's nor the       *)
(* administrator's role changes a project or a run.                        *)
THEOREM ViewersChangeNothingHolds == Spec => ViewersChangeNothing
<1> DEFINE AllCleared == \A c \in Callers : Cleared(c)
           Harmless == \A c \in Callers :
             /\ req'[c] # req[c]
             /\ req[c].ask.op \in Routes
             /\ KeyRoles[req[c].ask.key] \intersect {"operator", "admin"} = {}
             => UNCHANGED <<projects, runs>>
<1>1. Init => AllCleared
  BY DEF Init, Cleared, NoRequest
<1>2. IInv /\ AllCleared /\ [Next]_vars => AllCleared'
  BY ClearedStep DEF IInv
<1>3. IInv /\ AllCleared /\ [Next]_vars => Harmless \/ UNCHANGED vars
  <2> SUFFICES ASSUME IInv, AllCleared, [Next]_vars, NEW c \in Callers,
                      req'[c] # req[c], req[c].ask.op \in Routes,
                      KeyRoles[req[c].ask.key] \intersect {"operator", "admin"} = {}
               PROVE  UNCHANGED <<projects, runs>>
    OBVIOUS
  <2>1. ASSUME NEW k \in Keys, Send(c, k) PROVE UNCHANGED <<projects, runs>>
    BY <2>1 DEF Send
  <2>2. CASE Handle(c)
    <3>1. req[c].ask.key \in Keys
      BY <2>2, HandlerMoves DEF Moves, IInv, AsksComplete
    <3>2. KeyRoles[req[c].ask.key] \in SUBSET Roles
      BY <3>1, KeysAssumption
    <3>3. \A permission \in {"project:create", "run:create", "run:cancel"} :
            ~Permits(KeyRoles[req[c].ask.key], permission)
      BY <3>2, ChangingPermissions
    <3> QED BY <2>2, <3>3, ChangesNeed DEF Cleared, IInv
  <2> QED BY <2>1, <2>2, RequestStep DEF IInv
<1> HIDE DEF AllCleared
<1> QED BY <1>1, <1>2, <1>3, InvariantHolds, PTL DEF Spec, ViewersChangeNothing

=============================================================================
