--------------------------- MODULE AccessControl ---------------------------
(***************************************************************************)
(* Roles, permissions and what each route of the API asks for              *)
(* (ai_agent_lab/auth.py, api/app.py, application/authorized.py).          *)
(***************************************************************************)

Roles == {"viewer", "operator", "admin", "auditor"}

Permissions == {"project:read", "project:create", "run:read", "run:create",
                "run:cancel", "report:read", "audit:read", "api_key:manage"}

(* A viewer may create projects as well.                                   *)
RolePermissions_ViewerCreates ==
  [viewer   |-> {"project:read", "run:read", "report:read", "project:create"},
   operator |-> {"project:read", "run:read", "run:create", "run:cancel",
                 "report:read"},
   admin    |-> Permissions,
   auditor  |-> {"audit:read"}]

RolePermissions ==
  [viewer   |-> {"project:read", "run:read", "report:read"},
   operator |-> {"project:read", "run:read", "run:create", "run:cancel",
                 "report:read"},
   admin    |-> Permissions,
   auditor  |-> {"audit:read"}]

(* Principal.permits *)
Permits(roles, permission) ==
  \E role \in roles : permission \in RolePermissions[role]

(* The permission each route depends on, and the application service       *)
(* demands again.                                                          *)
Needs == [create_project |-> "project:create",
          list_projects  |-> "project:read",
          create_run     |-> "run:create",
          get_run        |-> "run:read",
          cancel_run     |-> "run:cancel"]

Routes == DOMAIN Needs

=============================================================================
