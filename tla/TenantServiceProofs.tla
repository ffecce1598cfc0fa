------------------------ MODULE TenantServiceProofs ------------------------
(***************************************************************************)
(* TenantStore implements TenantService, for any number of tenants,        *)
(* projects, runs, keys, names and handlers.                               *)
(***************************************************************************)
EXTENDS TenantStoreProofs

(* A handler between the arrival of its request and its answer.            *)
Busy(c) == req[c].pc \notin {"idle", "done"}

-----------------------------------------------------------------------------
(* What a step shows of the requests *)

LEMMA BusyDesk ==
  ASSUME NEW c \in Callers, Busy(c)
  PROVE  /\ Desk[c].ask = req[c].ask
         /\ Desk[c].late = req[c].late
         /\ req[c].pc \in {"lookup", "start", "project", "write"} =>
              Desk[c].phase = "asked"
         /\ req[c].pc = "check" =>
              Desk[c].phase = IF req[c].record = "valid" THEN "asked" ELSE "barred"
         /\ req[c].pc = "reread" => Desk[c].phase = "cancelled"
<1> DEFINE phase == CASE req[c].pc = "reread" -> "cancelled"
                      [] req[c].pc = "check" /\ req[c].record # "valid" -> "barred"
                      [] OTHER -> "asked"
<1>1. Desk[c] = [phase |-> phase, ask |-> req[c].ask, late |-> req[c].late]
  BY DEF Busy, Desk, DeskOf
<1> QED BY <1>1

LEMMA OneDesk ==
  ASSUME NEW c \in Callers, \A d \in Callers \ {c} : req'[d] = req[d]
  PROVE  Desk' = [Desk EXCEPT ![c] = DeskOf(req'[c])]
BY DEF Desk

LEMMA DeskAnswered ==
  ASSUME TypeOK, NEW c \in Callers, NEW code, NEW rows, NEW status, Busy(c),
         req' = Answered(c, code, rows, status)
  PROVE  Service!Answer(c, code, rows, status)
<1>1. /\ \A d \in Callers \ {c} : req'[d] = req[d]
      /\ req'[c].pc = "done" /\ req'[c].code = code
      /\ req'[c].rows = rows /\ req'[c].status = status
  BY AnsweredFields DEF Busy, Moves
<1>2. DeskOf(req'[c]) = [phase |-> "answered", code |-> code, rows |-> rows,
                         status |-> status]
  BY <1>1 DEF DeskOf
<1> QED BY <1>1, <1>2, OneDesk DEF Service!Answer

(* A statement in the middle of a handler is not seen.                     *)
LEMMA DeskStays ==
  ASSUME TypeOK, NEW c \in Callers, Busy(c), Desk[c].phase = "asked",
         NEW pc \in {"start", "project", "write"}, req' = [req EXCEPT ![c].pc = pc]
  PROVE  Desk' = Desk
<1>1. /\ \A d \in Callers \ {c} : req'[d] = req[d]
      /\ req'[c].pc = pc /\ req'[c].ask = req[c].ask /\ req'[c].late = req[c].late
  BY MovedFields DEF Busy, Moves
<1>2. DeskOf(req'[c]) = [phase |-> "asked", ask |-> req[c].ask, late |-> req[c].late]
  BY <1>1 DEF DeskOf
<1>3. DeskOf(req[c]) = [phase |-> Desk[c].phase, ask |-> req[c].ask,
                        late |-> req[c].late]
  BY DEF Busy, Desk, DeskOf
<1>4. \A d \in Callers : DeskOf(req'[d]) = DeskOf(req[d])
  BY <1>1, <1>2, <1>3
<1> QED BY <1>4 DEF Desk

LEMMA DeskCancelled ==
  ASSUME TypeOK, NEW c \in Callers, Busy(c), req' = [req EXCEPT ![c].pc = "reread"]
  PROVE  Desk' = [Desk EXCEPT ![c].phase = "cancelled"]
<1>1. /\ \A d \in Callers \ {c} : req'[d] = req[d]
      /\ req'[c].pc = "reread" /\ req'[c].ask = req[c].ask
      /\ req'[c].late = req[c].late
  <2> PICK pc \in {"reread"} : req' = [req EXCEPT ![c].pc = pc]
    OBVIOUS
  <2>1. Moves(c) /\ req'[c].pc = "reread"
    BY MovedFields DEF Busy
  <2> QED BY <2>1 DEF Moves
<1>2. DeskOf(req'[c]) = [phase |-> "cancelled", ask |-> req[c].ask,
                         late |-> req[c].late]
  BY <1>1 DEF DeskOf
<1>3. Desk[c] = [phase |-> Desk[c].phase, ask |-> req[c].ask, late |-> req[c].late]
  BY DEF Busy, Desk, DeskOf
<1>4. [Desk[c] EXCEPT !.phase = "cancelled"] = DeskOf(req'[c])
  BY <1>2, <1>3
<1> QED BY <1>1, <1>4, OneDesk DEF Desk

-----------------------------------------------------------------------------
(* The rows are looked at with the same eyes *)

LEMMA SameRows ==
  ASSUME NEW c \in Callers, Busy(c)
  PROVE  /\ Service!Tenant(c) = Context(c)
         /\ \A p \in Projects : Service!ProjectExists(p) <=> ProjectExists(p)
         /\ \A r \in Runs : Service!RunExists(r) <=> RunExists(r)
         /\ \A p \in Projects : Service!OwnProject(c, p) <=> OwnProject(c, p)
         /\ \A r \in Runs : Service!OwnRun(c, r) <=> OwnRun(c, r)
         /\ \A name, except :
              Service!NameTaken(c, name, except) <=> NameTaken(Context(c), name, except)
         /\ \A r \in Runs :
              Service!KeyUsed(c, r) <=> OwnRun(c, r) /\ runs[r].idem = req[c].ask.idem
         /\ Service!KeyTaken(c) <=> KeyTaken(Context(c), req[c].ask.idem)
<1>1. Desk[c].ask = req[c].ask
  BY BusyDesk
<1>2. Service!Tenant(c) = Context(c)
  BY <1>1 DEF Service!Tenant, Context
<1>3. /\ \A p \in Projects : Service!ProjectExists(p) <=> ProjectExists(p)
      /\ \A r \in Runs : Service!RunExists(r) <=> RunExists(r)
  BY DEF Service!ProjectExists, Service!RunExists, ProjectExists, RunExists, RunStatuses
<1>4. /\ \A p \in Projects : Service!OwnProject(c, p) <=> OwnProject(c, p)
      /\ \A r \in Runs : Service!OwnRun(c, r) <=> OwnRun(c, r)
  BY <1>2, <1>3 DEF Service!OwnProject, Service!OwnRun, OwnProject, OwnRun
<1>5. \A name, except :
        Service!NameTaken(c, name, except) <=> NameTaken(Context(c), name, except)
  BY <1>4 DEF Service!NameTaken, NameTaken, OwnProject
<1>6. \A r \in Runs :
        Service!KeyUsed(c, r) <=> OwnRun(c, r) /\ runs[r].idem = req[c].ask.idem
  BY <1>1, <1>4 DEF Service!KeyUsed
<1>7. Service!KeyTaken(c) <=> KeyTaken(Context(c), req[c].ask.idem)
  BY <1>6 DEF Service!KeyTaken, KeyTaken, OwnRun
<1> QED BY <1>2, <1>3, <1>4, <1>5, <1>6, <1>7

LEMMA SameTables ==
  /\ Service!Routes = Routes
  /\ Service!Needs = Needs
  /\ \A roles, permission : Service!Permits(roles, permission) <=> Permits(roles, permission)
BY DEF Service!Routes, Routes, Service!Needs, Needs, Service!Permits, Permits,
       Service!RolePermissions, RolePermissions, Service!Permissions, Permissions

(* What has passed the authentication came in time and with permission.    *)
LEMMA Admission ==
  ASSUME IInv, NEW c \in Callers, Cleared(c), NEW op,
         req[c].pc \in {"start", "project", "write"}, req[c].ask.op = op
  PROVE  Service!Admitted(c, op) /\ Busy(c)
<1>1. Busy(c)
  BY DEF Busy
<1>2. op \in Routes => Permits(KeyRoles[req[c].ask.key], Needs[op])
  BY DEF Cleared
<1>3. op \in Routes => ~req[c].late
  BY DEF IInv, LateKnown
<1> QED BY <1>1, <1>2, <1>3, BusyDesk, SameTables DEF Service!Admitted, Service!May

LEMMA Refused ==
  ASSUME TypeOK, NEW c \in Callers, Busy(c),
         NEW code \in Codes \ {"ok"}, Refuse(c, code), Service!Because(c, code),
         UNCHANGED <<keyVars, projects, runs>>
  PROVE  Service!Serve(c)
<1>1. Service!Answer(c, code, {}, None)
  BY DeskAnswered DEF Refuse
<1>2. Service!Refuse(c, code)
  BY <1>1 DEF Service!Refuse, keyVars
<1> QED BY <1>2 DEF Service!Serve, Codes

-----------------------------------------------------------------------------
(* One step of a handler *)

(* What comes through a route is authenticated first.                      *)
Routed(c) == req[c].pc \in {"lookup", "check"} => req[c].ask.op \in Routes

LEMMA RoutedStep ==
  ASSUME TypeOK, [Next]_vars, NEW c \in Callers, Routed(c)
  PROVE  Routed(c)'
<1>1. CASE req'[c] = req[c]
  BY <1>1 DEF Routed
<1>2. ASSUME NEW k \in Keys, Send(c, k) PROVE Routed(c)'
  BY <1>2, SentAlone DEF Routed
<1>3. CASE Handle(c)
  <2>1. Moves(c)
    BY <1>3, HandlerMoves
  <2>2. req'[c].pc \in {"lookup", "check"} => req[c].pc = "lookup"
    BY <1>3, HandlerProgress DEF LookUpKey
  <2> QED BY <2>1, <2>2 DEF Moves, Routed
<1> QED BY <1>1, <1>2, <1>3, RequestStep

LEMMA LookUpServes ==
  ASSUME IInv, NEW c \in Callers, LookUpKey(c)
  PROVE  Service!Serve(c) \/ UNCHANGED Service!vars
<1> DEFINE k == req[c].ask.key
           record == IF k \notin issued THEN "none"
                     ELSE IF k \in revoked THEN "revoked" ELSE "valid"
<1>1. record # "valid" => k \notin issued \/ k \in revoked \union expired
  OBVIOUS
<1>2. /\ req' = [req EXCEPT ![c].pc = "check", ![c].record = record]
      /\ req[c].pc = "lookup"
      /\ UNCHANGED <<keyVars, projects, runs>>
  BY DEF LookUpKey
<1> HIDE DEF record
<1>3. req \in [Callers -> Request] /\ req[c] \in Request
  BY DEF IInv, TypeOK
<1>4. /\ req'[c] = [req[c] EXCEPT !.pc = "check", !.record = record]
      /\ \A d \in Callers \ {c} : req'[d] = req[d]
  BY <1>2, <1>3
<1>5. /\ req'[c].pc = "check" /\ req'[c].record = record
      /\ req'[c].ask = req[c].ask /\ req'[c].late = req[c].late
  BY <1>3, <1>4 DEF Request
<1>6. Desk[c] = [phase |-> "asked", ask |-> req[c].ask, late |-> req[c].late]
  BY <1>2 DEF Desk, DeskOf
<1>7. CASE record = "valid"
  <2>1. DeskOf(req'[c]) = Desk[c]
    BY <1>5, <1>6, <1>7 DEF DeskOf
  <2>2. Desk' = Desk
    BY <1>4, <2>1 DEF Desk
  <2> QED BY <1>2, <2>2 DEF Service!vars, keyVars
<1>8. CASE record # "valid"
  <2>1. DeskOf(req'[c]) = [phase |-> "barred", ask |-> req[c].ask, late |-> req[c].late]
    BY <1>5, <1>8 DEF DeskOf
  <2>2. DeskOf(req'[c]) = [Desk[c] EXCEPT !.phase = "barred"]
    BY <1>6, <2>1
  <2>3. Desk' = [Desk EXCEPT ![c].phase = "barred"]
    BY <1>4, <2>2, OneDesk DEF Desk
  <2>4. Desk[c].phase = "asked" /\ Desk[c].ask.key = k
    BY <1>6
  <2>5. Service!Bar(c)
    BY <1>1, <1>2, <1>8, <2>3, <2>4 DEF Service!Bar, keyVars
  <2> QED BY <2>5 DEF Service!Serve
<1> QED BY <1>7, <1>8

LEMMA AuthenticateServes ==
  ASSUME IInv, NEW c \in Callers, Routed(c), Authenticate(c)
  PROVE  Service!Serve(c) \/ UNCHANGED Service!vars
<1>1. /\ Busy(c) /\ req[c].pc = "check" /\ TypeOK
      /\ UNCHANGED <<keyVars, projects, runs>>
  BY DEF Authenticate, Busy, IInv
<1>2. /\ Desk[c].ask = req[c].ask /\ Desk[c].late = req[c].late
      /\ Desk[c].phase = IF req[c].record = "valid" THEN "asked" ELSE "barred"
  BY <1>1, BusyDesk
<1>3. req[c].ask.op \in Routes
  BY <1>1 DEF Routed
<1>4. CASE req[c].record # "valid" \/ req[c].ask.key \in expired
  <2>1. Refuse(c, "authentication_required")
    BY <1>4 DEF Authenticate
  <2>2. Service!Because(c, "authentication_required")
    BY <1>2, <1>4 DEF Service!Because
  <2> QED BY <1>1, <2>1, <2>2, Refused DEF Codes
<1>5. CASE /\ req[c].record = "valid" /\ req[c].ask.key \notin expired
           /\ ~Permits(KeyRoles[req[c].ask.key], Needs[req[c].ask.op])
  <2>1. Refuse(c, "permission_denied")
    BY <1>5 DEF Authenticate
  <2>2. ~req[c].late
    BY <1>1, <1>3, <1>5 DEF IInv, LateKnown
  <2>3. Service!Because(c, "permission_denied")
    BY <1>2, <1>3, <1>5, <2>2, SameTables DEF Service!Because, Service!May
  <2> QED BY <1>1, <2>1, <2>3, Refused DEF Codes
<1>6. CASE /\ req[c].record = "valid" /\ req[c].ask.key \notin expired
           /\ Permits(KeyRoles[req[c].ask.key], Needs[req[c].ask.op])
  <2>1. req' = [req EXCEPT ![c].pc = "start"]
    BY <1>6 DEF Authenticate
  <2>2. Desk' = Desk
    BY <1>1, <1>2, <1>6, <2>1, DeskStays
  <2> QED BY <1>1, <2>2 DEF Service!vars, keyVars
<1> QED BY <1>4, <1>5, <1>6

LEMMA CreateProjectServes ==
  ASSUME IInv, NEW c \in Callers, Cleared(c), CreateProject(c)
  PROVE  Service!Serve(c)
<1> DEFINE name == req[c].ask.name
<1>1. /\ Service!Admitted(c, "create_project") /\ Busy(c) /\ TypeOK
      /\ UNCHANGED <<keyVars, runs>>
  BY Admission DEF CreateProject, At, IInv
<1>2. Desk[c].ask = req[c].ask /\ Service!Tenant(c) = Context(c)
  BY <1>1, BusyDesk, SameRows
<1>3. CASE /\ NameTaken(Context(c), name, None)
           /\ Refuse(c, "internal_error") /\ UNCHANGED projects
  <2>1. Service!NameTaken(c, Desk[c].ask.name, None)
    BY <1>1, <1>2, <1>3, SameRows
  <2>2. Service!Because(c, "internal_error")
    BY <1>1, <2>1 DEF Service!Because
  <2> QED BY <1>1, <1>3, <2>2, Refused DEF Codes
<1>4. CASE /\ ~NameTaken(Context(c), name, None)
           /\ \E p \in Projects :
                /\ projects[p].status = "absent"
                /\ projects' = [projects EXCEPT ![p] =
                     [status |-> "exists", tenant |-> Context(c), name |-> name,
                      version |-> 1]]
                /\ req' = Answered(c, "ok", {p}, None)
  <2> PICK p \in Projects :
        /\ projects[p].status = "absent"
        /\ projects' = [projects EXCEPT ![p] =
             [status |-> "exists", tenant |-> Context(c), name |-> name,
              version |-> 1]]
        /\ req' = Answered(c, "ok", {p}, None)
    BY <1>4
  <2>1. ~Service!NameTaken(c, Desk[c].ask.name, None)
    BY <1>1, <1>2, <1>4, SameRows
  <2>2. Service!Answer(c, "ok", {p}, None)
    BY <1>1, DeskAnswered
  <2>3. Service!CreateProject(c, p)
    BY <1>1, <1>2, <2>1, <2>2 DEF Service!CreateProject, keyVars
  <2> QED BY <2>3 DEF Service!Serve
<1> QED BY <1>3, <1>4 DEF CreateProject

LEMMA ListProjectsServes ==
  ASSUME IInv, NEW c \in Callers, Cleared(c), ListProjects(c)
  PROVE  Service!Serve(c)
<1>1. /\ Service!Admitted(c, "list_projects") /\ Busy(c) /\ TypeOK
      /\ UNCHANGED <<keyVars, projects, runs>>
  BY Admission DEF ListProjects, At, IInv
<1>2. {p \in Projects : OwnProject(c, p)} = {p \in Projects : Service!OwnProject(c, p)}
  BY <1>1, SameRows
<1>3. Service!Answer(c, "ok", {p \in Projects : OwnProject(c, p)}, None)
  BY <1>1, DeskAnswered DEF ListProjects
<1>4. Service!ListProjects(c)
  BY <1>1, <1>2, <1>3 DEF Service!ListProjects, keyVars
<1> QED BY <1>4 DEF Service!Serve

LEMMA ReadForRenameServes ==
  ASSUME IInv, NEW c \in Callers, Cleared(c), ReadForRename(c)
  PROVE  Service!Serve(c) \/ UNCHANGED Service!vars
<1>1. /\ Service!Admitted(c, "rename") /\ Busy(c) /\ TypeOK
      /\ req[c].ask.project \in Projects
      /\ UNCHANGED <<keyVars, projects, runs>>
  BY Admission DEF ReadForRename, At, IInv, AsksComplete
<1>2. Desk[c].ask = req[c].ask /\ Desk[c].phase = "asked"
  BY <1>1, BusyDesk DEF Service!Admitted
<1>3. CASE OwnProject(c, req[c].ask.project)
  <2>1. Desk' = Desk
    BY <1>1, <1>2, <1>3, DeskStays DEF ReadForRename
  <2> QED BY <1>1, <2>1 DEF Service!vars, keyVars
<1>4. CASE ~OwnProject(c, req[c].ask.project)
  <2>1. Service!Because(c, "refused")
    BY <1>1, <1>2, <1>4, SameRows DEF Service!Because
  <2>2. Refuse(c, "refused")
    BY <1>4 DEF ReadForRename
  <2> QED BY <1>1, <2>1, <2>2, Refused DEF Codes
<1> QED BY <1>3, <1>4

LEMMA RenameServes ==
  ASSUME IInv, NEW c \in Callers, Cleared(c), Rename(c)
  PROVE  Service!Serve(c)
<1> DEFINE ask == req[c].ask
           p == ask.project
           matches == OwnProject(c, p) /\ projects[p].version = ask.version
           taken == NameTaken(Context(c), ask.name, p)
<1>1. /\ Service!Admitted(c, "rename") /\ Busy(c) /\ TypeOK
      /\ p \in Projects /\ UNCHANGED <<keyVars, runs>>
  BY Admission DEF Rename, At, IInv, AsksComplete
<1>2. /\ Desk[c].ask = ask
      /\ matches <=> Service!OwnProject(c, p) /\ projects[p].version = ask.version
      /\ taken <=> Service!NameTaken(c, ask.name, p)
  BY <1>1, BusyDesk, SameRows
<1>3. CASE /\ matches /\ ~taken
           /\ projects' = [projects EXCEPT ![p].name = ask.name, ![p].version = @ + 1]
           /\ req' = Answered(c, "ok", {p}, None)
  <2>1. Service!Answer(c, "ok", {p}, None)
    BY <1>1, <1>3, DeskAnswered
  <2>2. Service!Rename(c)
    BY <1>1, <1>2, <1>3, <2>1 DEF Service!Rename, keyVars
  <2> QED BY <2>2 DEF Service!Serve
<1>4. CASE ~matches /\ Refuse(c, "refused") /\ UNCHANGED projects
  <2>1. Service!Because(c, "refused")
    BY <1>1, <1>2, <1>4 DEF Service!Because
  <2> QED BY <1>1, <1>4, <2>1, Refused DEF Codes
<1>5. CASE taken /\ Refuse(c, "internal_error") /\ UNCHANGED projects
  <2>1. Service!Because(c, "internal_error")
    BY <1>1, <1>2, <1>5 DEF Service!Because
  <2> QED BY <1>1, <1>5, <2>1, Refused DEF Codes
<1> QED BY <1>3, <1>4, <1>5 DEF Rename

LEMMA FindReplayServes ==
  ASSUME IInv, NEW c \in Callers, Cleared(c), FindReplay(c)
  PROVE  Service!Serve(c) \/ UNCHANGED Service!vars
<1>1. /\ Service!Admitted(c, "create_run") /\ Busy(c) /\ TypeOK
      /\ UNCHANGED <<keyVars, projects, runs>>
  BY Admission DEF FindReplay, At, IInv
<1>2. Desk[c].phase = "asked"
  BY <1>1 DEF Service!Admitted
<1>3. ASSUME NEW r \in Runs, OwnRun(c, r), runs[r].idem = req[c].ask.idem, Tell(c, r)
      PROVE  Service!Serve(c)
  <2>1. req' = Answered(c, "ok", {r}, runs[r].status)
    BY <1>1, <1>3 DEF Tell
  <2>2. Service!Answer(c, "ok", {r}, runs[r].status)
    BY <1>1, <2>1, DeskAnswered
  <2>3. Service!Replay(c, r)
    BY <1>1, <1>3, <2>2, SameRows DEF Service!Replay, keyVars
  <2> QED BY <2>3 DEF Service!Serve
<1>4. CASE req' = [req EXCEPT ![c].pc = "project"]
  <2>1. Desk' = Desk
    BY <1>1, <1>2, <1>4, DeskStays
  <2> QED BY <1>1, <2>1 DEF Service!vars, keyVars
<1> QED BY <1>3, <1>4 DEF FindReplay

LEMMA FindProjectServes ==
  ASSUME IInv, NEW c \in Callers, Cleared(c), FindProject(c)
  PROVE  Service!Serve(c) \/ UNCHANGED Service!vars
<1>1. /\ Service!Admitted(c, "create_run") /\ Busy(c) /\ TypeOK
      /\ req[c].ask.project \in Projects
      /\ UNCHANGED <<keyVars, projects, runs>>
  BY Admission DEF FindProject, At, IInv, AsksComplete
<1>2. Desk[c].ask = req[c].ask /\ Desk[c].phase = "asked"
  BY <1>1, BusyDesk DEF Service!Admitted
<1>3. CASE OwnProject(c, req[c].ask.project)
  <2>1. Desk' = Desk
    BY <1>1, <1>2, <1>3, DeskStays DEF FindProject
  <2> QED BY <1>1, <2>1 DEF Service!vars, keyVars
<1>4. CASE ~OwnProject(c, req[c].ask.project)
  <2>1. Service!Because(c, "project_not_found")
    BY <1>1, <1>2, <1>4, SameRows DEF Service!Because
  <2>2. Refuse(c, "project_not_found")
    BY <1>4 DEF FindProject
  <2> QED BY <1>1, <2>1, <2>2, Refused DEF Codes
<1> QED BY <1>3, <1>4

(* The project may be gone, but it has not changed hands since it was      *)
(* found.                                                                  *)
LEMMA InsertRunServes ==
  ASSUME IInv, NEW c \in Callers, Cleared(c), InsertRun(c)
  PROVE  Service!Serve(c)
<1> DEFINE ask == req[c].ask
           possible == ~KeyTaken(Context(c), ask.idem) /\ ProjectExists(ask.project)
<1>1. /\ Service!Admitted(c, "create_run") /\ Busy(c) /\ TypeOK
      /\ ask.project \in Projects
      /\ UNCHANGED <<keyVars, projects>>
  BY Admission DEF InsertRun, At, IInv, AsksComplete
<1>2. /\ Desk[c].ask = ask /\ Service!Tenant(c) = Context(c)
      /\ Service!ProjectExists(ask.project) <=> ProjectExists(ask.project)
      /\ Service!OwnProject(c, ask.project) <=> OwnProject(c, ask.project)
      /\ Service!KeyTaken(c) <=> KeyTaken(Context(c), ask.idem)
  BY <1>1, BusyDesk, SameRows
<1>3. CASE ~possible /\ Refuse(c, "internal_error") /\ UNCHANGED runs
  <2>1. Service!Because(c, "internal_error")
    BY <1>1, <1>2, <1>3 DEF Service!Because
  <2> QED BY <1>1, <1>3, <2>1, Refused DEF Codes
<1>4. ASSUME possible, NEW r \in Runs, runs[r].status = "absent",
             runs' = [runs EXCEPT ![r] = NewRun(c)], Tell(c, r)
      PROVE  Service!Serve(c)
  <2>1. OwnProject(c, ask.project)
    BY <1>4 DEF IInv, ProjectsOwned, InsertRun, OwnProject
  <2>2. runs' = [runs EXCEPT ![r] = [status |-> "active", tenant |-> Context(c),
                                     project |-> ask.project, idem |-> ask.idem]]
    BY <1>4 DEF NewRun
  <2>3. runs'[r].status = "active"
    BY <1>1, <2>2 DEF TypeOK
  <2>4. Service!Answer(c, "ok", {r}, "active")
    BY <1>1, <1>4, <2>3, DeskAnswered DEF Tell
  <2>5. Service!CreateRun(c, r)
    BY <1>1, <1>2, <1>4, <2>1, <2>2, <2>4 DEF Service!CreateRun, keyVars
  <2> QED BY <2>5 DEF Service!Serve
<1> QED BY <1>3, <1>4 DEF InsertRun

LEMMA GetRunServes ==
  ASSUME IInv, NEW c \in Callers, Cleared(c), GetRun(c)
  PROVE  Service!Serve(c)
<1>1. /\ Service!Admitted(c, "get_run") /\ Busy(c) /\ TypeOK
      /\ req[c].ask.run \in Runs
      /\ UNCHANGED <<keyVars, projects, runs>>
  BY Admission DEF GetRun, At, IInv, AsksComplete
<1>2. /\ Desk[c].ask = req[c].ask
      /\ Service!OwnRun(c, req[c].ask.run) <=> OwnRun(c, req[c].ask.run)
  BY <1>1, BusyDesk, SameRows
<1>3. CASE OwnRun(c, req[c].ask.run)
  <2>1. Service!Answer(c, "ok", {req[c].ask.run}, runs[req[c].ask.run].status)
    BY <1>1, <1>3, DeskAnswered DEF GetRun
  <2>2. Service!GetRun(c)
    BY <1>1, <1>2, <1>3, <2>1 DEF Service!GetRun, keyVars
  <2> QED BY <2>2 DEF Service!Serve
<1>4. CASE ~OwnRun(c, req[c].ask.run)
  <2>1. Service!Because(c, "run_not_found")
    BY <1>1, <1>2, <1>4 DEF Service!Because
  <2>2. Refuse(c, "run_not_found")
    BY <1>4 DEF GetRun
  <2> QED BY <1>1, <2>1, <2>2, Refused DEF Codes
<1> QED BY <1>3, <1>4

LEMMA ReadForCancelServes ==
  ASSUME IInv, NEW c \in Callers, Cleared(c), ReadForCancel(c)
  PROVE  Service!Serve(c) \/ UNCHANGED Service!vars
<1> DEFINE r == req[c].ask.run
<1>1. /\ Service!Admitted(c, "cancel_run") /\ Busy(c) /\ TypeOK
      /\ r \in Runs
      /\ UNCHANGED <<keyVars, projects, runs>>
  BY Admission DEF ReadForCancel, At, IInv, AsksComplete
<1>2. /\ Desk[c].ask = req[c].ask /\ Desk[c].phase = "asked"
      /\ Service!OwnRun(c, r) <=> OwnRun(c, r)
  BY <1>1, BusyDesk, SameRows DEF Service!Admitted
<1>3. CASE /\ OwnRun(c, r) /\ runs[r].status = "cancelled"
           /\ req' = [req EXCEPT ![c].pc = "reread"]
  <2>1. Desk' = [Desk EXCEPT ![c].phase = "cancelled"]
    BY <1>1, <1>3, DeskCancelled
  <2>2. runs' = [runs EXCEPT ![r].status = "cancelled"]
    BY <1>1, <1>3 DEF TypeOK, RunRow
  <2>3. Service!CancelRun(c)
    BY <1>1, <1>2, <1>3, <2>1, <2>2 DEF Service!CancelRun, keyVars
  <2> QED BY <2>3 DEF Service!Serve
<1>4. CASE req' = [req EXCEPT ![c].pc = "write"]
  <2>1. Desk' = Desk
    BY <1>1, <1>2, <1>4, DeskStays
  <2> QED BY <1>1, <2>1 DEF Service!vars, keyVars
<1>5. CASE /\ ~OwnRun(c, r) \/ runs[r].status = "settled"
           /\ Refuse(c, "run_not_cancellable")
  <2>1. Service!Because(c, "run_not_cancellable")
    BY <1>1, <1>2, <1>5 DEF Service!Because
  <2> QED BY <1>1, <1>5, <2>1, Refused DEF Codes
<1> QED BY <1>3, <1>4, <1>5 DEF ReadForCancel

LEMMA CancelRunServes ==
  ASSUME IInv, NEW c \in Callers, Cleared(c), CancelRun(c)
  PROVE  Service!Serve(c)
<1> DEFINE r == req[c].ask.run
<1>1. /\ Service!Admitted(c, "cancel_run") /\ Busy(c) /\ TypeOK
      /\ r \in Runs
      /\ UNCHANGED <<keyVars, projects>>
  BY Admission DEF CancelRun, At, IInv, AsksComplete
<1>2. Desk[c].ask = req[c].ask /\ (Service!OwnRun(c, r) <=> OwnRun(c, r))
  BY <1>1, BusyDesk, SameRows
<1>3. CASE /\ OwnRun(c, r) /\ runs[r].status = "active"
           /\ runs' = [runs EXCEPT ![r].status = "cancelled"]
           /\ req' = [req EXCEPT ![c].pc = "reread"]
  <2>1. Desk' = [Desk EXCEPT ![c].phase = "cancelled"]
    BY <1>1, <1>3, DeskCancelled
  <2>2. Service!CancelRun(c)
    BY <1>1, <1>2, <1>3, <2>1 DEF Service!CancelRun, keyVars
  <2> QED BY <2>2 DEF Service!Serve
<1>4. CASE /\ ~(OwnRun(c, r) /\ runs[r].status = "active")
           /\ Refuse(c, "run_not_cancellable") /\ UNCHANGED runs
  <2>1. Service!Because(c, "run_not_cancellable")
    BY <1>1, <1>2, <1>4 DEF Service!Because
  <2> QED BY <1>1, <1>4, <2>1, Refused DEF Codes
<1> QED BY <1>3, <1>4 DEF CancelRun

(* Nothing but a deletion happened to the run since it was cancelled.      *)
LEMMA RereadServes ==
  ASSUME IInv, NEW c \in Callers, RereadCancelled(c)
  PROVE  Service!Serve(c)
<1> DEFINE r == req[c].ask.run
<1>1. /\ At(c, "reread", "cancel_run") /\ Busy(c) /\ TypeOK
      /\ r \in Runs
      /\ UNCHANGED <<keyVars, projects, runs>>
  BY DEF RereadCancelled, At, Busy, IInv, AsksComplete
<1>2. /\ Desk[c].ask = req[c].ask /\ Desk[c].phase = "cancelled"
      /\ Service!OwnRun(c, r) <=> OwnRun(c, r)
  BY <1>1, BusyDesk, SameRows DEF At
<1>3. ~req[c].late
  BY <1>1 DEF IInv, LateKnown, At, Routes, Needs
<1>4. Service!May(c, "get_run") <=> Permits(KeyRoles[req[c].ask.key], Needs["get_run"])
  BY <1>1, <1>2, <1>3, BusyDesk, SameTables DEF Service!May
<1>5. CASE OwnRun(c, r) /\ Permits(KeyRoles[req[c].ask.key], Needs["get_run"])
  <2>1. runs[r].status = "cancelled"
    BY <1>1, <1>5 DEF IInv, CancelledAtReread, OwnRun, RunExists, RunStatuses
  <2>2. Service!Answer(c, "ok", {r}, "cancelled")
    BY <1>1, <1>5, <2>1, DeskAnswered DEF RereadCancelled
  <2>3. Service!AnswerCancel(c)
    BY <1>1, <1>2, <1>4, <1>5, <2>2 DEF Service!AnswerCancel, keyVars
  <2> QED BY <2>3 DEF Service!Serve
<1>6. CASE ~(OwnRun(c, r) /\ Permits(KeyRoles[req[c].ask.key], Needs["get_run"]))
  <2>1. Refuse(c, "internal_error")
    BY <1>6 DEF RereadCancelled
  <2>2. Service!Because(c, "internal_error")
    BY <1>2, <1>4, <1>6 DEF Service!Because
  <2> QED BY <1>1, <2>1, <2>2, Refused DEF Codes
<1> QED BY <1>5, <1>6

LEMMA HandlerServes ==
  ASSUME IInv, NEW c \in Callers, Cleared(c), Routed(c), Handle(c)
  PROVE  Service!Serve(c) \/ UNCHANGED Service!vars
BY LookUpServes, AuthenticateServes, CreateProjectServes, ListProjectsServes,
   ReadForRenameServes, RenameServes, FindReplayServes, FindProjectServes,
   InsertRunServes, GetRunServes, ReadForCancelServes, CancelRunServes, RereadServes
DEF Handle

-----------------------------------------------------------------------------
(* The other steps *)

LEMMA SendServes ==
  ASSUME IInv, NEW c \in Callers, NEW k \in Keys, Send(c, k)
  PROVE  Service!Serve(c)
<1>1. /\ TypeOK /\ req[c].pc \in {"idle", "done"}
      /\ UNCHANGED <<keyVars, projects, runs>>
  BY DEF IInv, Send
<1>2. Desk[c].phase \in {"free", "answered"}
  BY <1>1 DEF Desk, DeskOf
<1>3. PICK ask \in Asks(k) : ask.op \in Operations /\ req'[c].ask = ask
  BY <1>1, SentAlone
<1>4. ask.key = k /\ ask \in AllAsks
  <2>1. \A p \in KnownProjects : p \in Projects
    BY DEF KnownProjects
  <2>2. \A r \in KnownRuns : r \in Runs
    BY DEF KnownRuns
  <2>3. ask \in AllAsks
    BY <2>1, <2>2 DEF Asks, AllAsks
  <2> QED BY <1>1, <1>3, <2>3, AsksTyped
<1>5. DeskOf(req'[c]) = [phase |-> "asked", ask |-> ask,
                         late |-> k \in revoked \union expired]
  <2>1. /\ req'[c].pc \in {"lookup", "start"}
        /\ req'[c].late <=> k \in revoked \union expired
    BY <1>1, SentAlone
  <2>2. req'[c].late \in BOOLEAN
    BY <1>1, TypeStep DEF IInv, TypeOK, Request, Next
  <2> QED BY <1>3, <2>1, <2>2 DEF DeskOf
<1>6. DeskOf(req'[c]) = Service!Asked(ask)
  BY <1>4, <1>5 DEF Service!Asked
<1>7. Desk' = [Desk EXCEPT ![c] = Service!Asked(ask)]
  BY <1>1, <1>6, SentAlone, OneDesk
<1>8. Service!Arrive(c)
  BY <1>1, <1>2, <1>4, <1>7 DEF Service!Arrive, keyVars
<1> QED BY <1>8 DEF Service!Serve

LEMMA StepRefines ==
  ASSUME IInv, \A c \in Callers : Cleared(c) /\ Routed(c), [Next]_vars
  PROVE  [Service!Next]_(Service!vars)
<1>1. ASSUME NEW k \in Keys, Issue(k) \/ Revoke(k) \/ Expire(k) PROVE Service!Next
  <2>1. UNCHANGED <<projects, runs, Desk>>
    BY <1>1 DEF Issue, Revoke, Expire, Desk
  <2>2. \/ issued' = issued \union {k} /\ UNCHANGED <<revoked, expired>>
        \/ /\ (revoked' \union expired') = (revoked \union expired) \union {k}
           /\ UNCHANGED issued
    BY <1>1 DEF Issue, Revoke, Expire
  <2>3. Service!Issue(k) \/ Service!End(k)
    BY <2>1, <2>2 DEF Service!Issue, Service!End
  <2> QED BY <2>3 DEF Service!Next
<1>2. ASSUME NEW c \in Callers, (\E k \in Keys : Send(c, k)) \/ Handle(c)
      PROVE  [Service!Next]_(Service!vars)
  BY <1>2, SendServes, HandlerServes DEF Service!Next
<1>3. ASSUME NEW p \in Projects, DeleteProject(p) PROVE Service!Next
  <2>1. Service!DeleteProject(p)
    BY <1>3
    DEF DeleteProject, Service!DeleteProject, Service!ProjectExists, ProjectExists,
        Service!RunExists, RunExists, RunStatuses, keyVars, Desk
  <2> QED BY <2>1 DEF Service!Next
<1>4. ASSUME NEW r \in Runs, Settle(r) PROVE Service!Next
  <2>1. Service!Settle(r)
    BY <1>4 DEF Settle, Service!Settle, keyVars, Desk
  <2> QED BY <2>1 DEF Service!Next
<1>5. ASSUME UNCHANGED vars PROVE UNCHANGED Service!vars
  BY <1>5 DEF vars, Service!vars, Desk
<1> QED BY <1>1, <1>2, <1>3, <1>4, <1>5 DEF Next

(* The handlers of api/app.py, whose statements run among those of others, *)
(* answer as if each request were served at one moment.                    *)
THEOREM Refinement == Spec => ImplementsService
<1> DEFINE Past == \A c \in Callers : Cleared(c) /\ Routed(c)
<1>1. Init => Service!Init
  BY DEF Init, Service!Init, Service!Free, Desk, DeskOf, NoRequest, NoProject, NoRun
<1>2. Init => Past
  BY DEF Init, Cleared, Routed, NoRequest
<1>3. IInv /\ Past /\ [Next]_vars => Past'
  BY ClearedStep, RoutedStep DEF IInv
<1>4. IInv /\ Past /\ [Next]_vars => [Service!Next]_(Service!vars)
  BY StepRefines
<1> HIDE DEF Past
<1> QED BY <1>1, <1>2, <1>3, <1>4, InvariantHolds, PTL
    DEF Spec, ImplementsService, Service!Spec

=============================================================================
