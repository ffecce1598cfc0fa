--------------------------- MODULE MCTenantStore ---------------------------
(* Instances of TenantStore for TLC. *)
EXTENDS TenantStore, TLC

CONSTANTS t1, t2, admin1, admin2

MCKeyTenant == [k \in Keys |-> IF k = admin2 THEN t2 ELSE t1]
MCKeyRoles == [k \in Keys |-> IF k \in {admin1, admin2} THEN {"admin"}
                              ELSE {"viewer", "auditor"}]

MCSymmetry == Permutations(Projects) \union Permutations(Runs)
                \union Permutations(Callers)

=============================================================================
