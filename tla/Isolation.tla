------------------------------- MODULE Isolation -------------------------------
(***************************************************************************)
(* Who may touch what: the privilege matrix apply_tenant re-asserts at the *)
(* end of every run, privileges and settings changed by hand in between,   *)
(* the gate scripts/check_isolation.py, and the preamble of                *)
(* TenantScopedPool.transaction.                                           *)
(*                                                                         *)
(* The tables of a schema that no rule tells apart are one kind of object. *)
(* CHANGE stands for UPDATE and DELETE, and for INSERT outside Bronze,     *)
(* where nothing tells it apart.  REFERENCES and TRIGGER, sequences and    *)
(* column privileges are left out, and so are memberships other than       *)
(* platform_ref_reader.  The steps of apply_tenant before its grants, and  *)
(* dropped schemas, are module Tenancy.                                    *)
(***************************************************************************)
EXTENDS Integers, FiniteSets

CONSTANTS Tenants,
          Platform,   \* the owner of platform_ref
          None,
          Old,        \* the tenants provisioned before the start
          MaxHand,    \* bound: changes made by hand
          MaxCommands \* bound: provisionings and deprovisionings

ASSUME IsolationAssumption ==
    /\ Platform \notin Tenants /\ Old \subseteq Tenants
    /\ MaxHand \in Nat /\ MaxCommands \in Nat

Roles == {"ingest", "recon", "support", "recon_engine"}
PipelineLayers == {"bronze", "silver", "gold"}
Layers == PipelineLayers \union {"reconciliation"}

\* Kinds of objects, "schema" being the schema itself.  v1_rcm are the Silver
\* views on recon_engine's allowlist, v1_reconciliation the Gold ones, and
\* namesake a Gold base table that only has such a view's name.  In platform_ref,
\* reference are the tables no rule names (hsn_master, document_type and others).
KindsIn(layer) ==
    CASE layer = "bronze"         -> {"table", "identity"}
      [] layer = "silver"         -> {"table", "identity", "versions", "v1", "v1_rcm"}
      [] layer = "gold"           -> {"table", "identity", "v1_reconciliation", "namesake"}
      [] layer = "reconciliation" -> {"table", "identity"}
      [] layer = "platform_ref"   -> {"universal_master", "reference", "ref02_category"}

BaseTables == {"table", "namesake"}
PrivilegesIn(layer) ==
    {"SELECT", "CHANGE", "TRUNCATE"} \union (IF layer = "bronze" THEN {"INSERT"} ELSE {})
Writes == {"INSERT", "CHANGE", "TRUNCATE"}

\* A privilege of a tenant's role on an object of an owner's schema.
Privilege(t, r, owner, layer, kind, p) ==
    [tenant |-> t, role |-> r, owner |-> owner, layer |-> layer, kind |-> kind, priv |-> p]

OnSchema(t, r, owner, layer, p) == Privilege(t, r, owner, layer, "schema", p)

AllPrivileges ==
    (UNION {{Privilege(t, r, owner, layer, kind, p) : kind \in KindsIn(layer),
                p \in PrivilegesIn(layer)}
               : t \in Tenants, r \in Roles, owner \in Tenants, layer \in Layers})
    \union {OnSchema(t, r, owner, layer, p) :
              t \in Tenants, r \in Roles, owner \in Tenants, layer \in Layers,
              p \in {"USAGE", "CREATE"}}
    \union {Privilege(t, r, Platform, "platform_ref", kind, p) :
              t \in Tenants, r \in Roles, kind \in KindsIn("platform_ref"),
              p \in PrivilegesIn("platform_ref")}

\* Settings the gate looks at besides privileges.
Settings == {<<"bypassrls", None>>, <<"inherit", None>>, <<"search_path", None>>,
             <<"public", None>>} \union {<<"security_invoker", t>> : t \in Tenants}

VARIABLES
    status,     \* tenant_registry.status
    run,        \* per tenant: where its provision command is
    identity,   \* per tenant and layer: the slug __schema_identity names
    grants,     \* the privileges held
    settings,   \* the settings that have drifted
    subject,    \* the tenant and role whose privileges people change by hand
    hands,      \* changes made by hand so far
    commands,   \* provisionings and deprovisionings so far
    healed      \* history: tenants whose matrix is newer than the last change to it

vars == <<status, run, identity, grants, settings, subject, hands, commands, healed>>

\* The tenants that have schemas and roles.
Existing == {t \in Tenants : status[t] # "ABSENT"}

TypeOK ==
    /\ status \in [Tenants -> {"ABSENT", "PROVISIONING", "ACTIVE", "DEPROVISIONED"}]
    /\ run \in [Tenants -> {"idle", "migrating", "granted"}]
    /\ identity \in [Tenants -> [Layers -> Tenants \union {None}]]
    /\ \A t \in Existing, l \in Layers : identity[t][l] \in Tenants
    /\ grants \subseteq AllPrivileges
    /\ settings \subseteq Settings
    /\ subject \in Tenants \X Roles
    /\ hands \in 0..MaxHand /\ commands \in 0..MaxCommands
    /\ healed \subseteq Existing

-----------------------------------------------------------------------------
(* The matrix: apply_tenant_grants as of shared migration 063, and what     *)
(* provisioning gives the roles besides.                                    *)

UsageRoles(layer) ==
    CASE layer = "bronze"         -> {"ingest", "support"}
      [] layer = "silver"         -> Roles
      [] layer = "gold"           -> {"recon", "support", "recon_engine"}
      [] layer = "reconciliation" -> {"recon_engine"}

SchemaPrivileges(layer, r) ==
    (IF r \in UsageRoles(layer) THEN {"USAGE"} ELSE {})
    \union (IF layer = "reconciliation" /\ r = "recon_engine" THEN {"CREATE"} ELSE {})

Writer(layer) == IF layer = "gold" THEN "recon" ELSE "ingest"

\* Wrong on purpose: the matrix before Bronze became insert-only.
AllowedBronzeDml(layer, kind, r) ==
    CASE kind = "identity" -> IF r \in UsageRoles(layer) THEN {"SELECT"} ELSE {}
      [] kind \in BaseTables /\ layer \in PipelineLayers ->
            IF r = Writer(layer) THEN PrivilegesIn(layer) \ {"TRUNCATE"}
            ELSE IF r = "support" THEN {"SELECT"} ELSE {}
      [] OTHER -> {}

\* The privileges a role has on a kind of object of its own tenant.
Allowed(layer, kind, r) ==
    CASE kind = "identity" -> IF r \in UsageRoles(layer) THEN {"SELECT"} ELSE {}
      [] kind \in BaseTables /\ layer \in PipelineLayers ->
            IF r = Writer(layer)
            THEN PrivilegesIn(layer) \ ({"TRUNCATE"} \union IF layer = "bronze" THEN {"CHANGE"} ELSE {})
            ELSE IF r = "support" THEN {"SELECT"} ELSE {}
      [] kind = "v1"     -> IF r \in {"recon", "support"} THEN {"SELECT"} ELSE {}
      [] kind = "v1_rcm" -> IF r # "ingest" THEN {"SELECT"} ELSE {}
      [] kind = "v1_reconciliation" -> IF r = "recon_engine" THEN {"SELECT"} ELSE {}
      [] OTHER -> {}

Matrix == [t \in Tenants |->
    {g \in AllPrivileges :
        /\ g.tenant = t /\ g.owner = t
        /\ g.priv \in IF g.kind = "schema" THEN SchemaPrivileges(g.layer, g.role)
                      ELSE Allowed(g.layer, g.kind, g.role)}]

\* recon_engine creates, and so owns, the tables of its schema; every role is
\* a member of platform_ref_reader, which reads all but one table there.
Owned(t) == {Privilege(t, "recon_engine", t, "reconciliation", "table", p)
                : p \in PrivilegesIn("reconciliation")}
Reader(t) == {Privilege(t, r, Platform, "platform_ref", kind, "SELECT")
                : r \in Roles, kind \in {"universal_master", "reference"}}

Intended == [t \in Tenants |-> Matrix[t] \union Owned(t) \union Reader(t)]

\* What apply_tenant_grants revokes before it grants: everything the tenant's
\* roles hold on the pipeline layers, but only the schema privileges of three
\* of them on reconciliation, and nothing they hold elsewhere.
Revoked(t) ==
    {g \in grants : /\ g.tenant = t /\ g.owner = t
                    /\ \/ g.layer \in PipelineLayers
                       \/ /\ g.layer = "reconciliation" /\ g.kind = "schema"
                          /\ g.role # "recon_engine"}

Init ==
    /\ status = [t \in Tenants |-> IF t \in Old THEN "ACTIVE" ELSE "ABSENT"]
    /\ run = [t \in Tenants |-> "idle"]
    /\ identity = [t \in Tenants |-> [l \in Layers |-> IF t \in Old THEN t ELSE None]]
    /\ grants = UNION {Intended[t] : t \in Old}
    /\ settings = {}
    /\ subject \in Tenants \X Roles
    /\ hands = 0
    /\ commands = 0
    /\ healed = Old

-----------------------------------------------------------------------------
\* Wrong on purpose: grants are only ever added.
GrantOnly(t) ==
    /\ grants' = grants \union Matrix[t]
    /\ healed' = healed \union {t}

\* The last step of apply_tenant.
apply_tenant_grants(t) ==
    /\ grants' = (grants \ Revoked(t)) \union Matrix[t]
    /\ healed' = healed \union {t}

\* A run of the migrations, over ACTIVE and PROVISIONING tenants.
Migrate(t) ==
    /\ status[t] \in {"ACTIVE", "PROVISIONING"}
    /\ apply_tenant_grants(t)
    /\ UNCHANGED <<status, run, identity, settings, subject, hands, commands>>

\* Wrong on purpose: the identity tables are emptied and not written again.
CreateUnnamed(t) ==
    /\ run[t] = "idle" /\ commands < MaxCommands
    /\ commands' = commands + 1
    /\ run' = [run EXCEPT ![t] = "migrating"]
    /\ status' = [status EXCEPT ![t] = IF @ = "ACTIVE" THEN "ACTIVE" ELSE "PROVISIONING"]
    /\ identity' = [identity EXCEPT ![t] = [l \in Layers |-> None]]
    /\ grants' = grants \union Reader(t)
    /\ UNCHANGED <<settings, subject, hands, healed>>

\* Provisioning, again or for the first time.  One transaction creates what is
\* missing of schemas and roles and writes the identity rows.
CreateSchemas(t) ==
    /\ run[t] = "idle" /\ commands < MaxCommands
    /\ commands' = commands + 1
    /\ run' = [run EXCEPT ![t] = "migrating"]
    /\ status' = [status EXCEPT ![t] = IF @ = "ACTIVE" THEN "ACTIVE" ELSE "PROVISIONING"]
    /\ identity' = [identity EXCEPT ![t] = [l \in Layers |-> t]]
    /\ grants' = grants \union Reader(t)
    /\ UNCHANGED <<settings, subject, hands, healed>>

\* The migrations, whose last step are the grants.
FirstGrants(t) ==
    /\ run[t] = "migrating"
    /\ run' = [run EXCEPT ![t] = "granted"]
    /\ apply_tenant_grants(t)
    /\ UNCHANGED <<status, identity, settings, subject, hands, commands>>

Activate(t) ==
    /\ run[t] = "granted"
    /\ run' = [run EXCEPT ![t] = "idle"]
    /\ status' = [status EXCEPT ![t] = "ACTIVE"]
    /\ UNCHANGED <<identity, grants, settings, subject, hands, commands, healed>>

\* Provisioning fails or dies between two of its transactions.
Abandon(t) ==
    /\ run[t] # "idle"
    /\ run' = [run EXCEPT ![t] = "idle"]
    /\ UNCHANGED <<status, identity, grants, settings, subject, hands, commands, healed>>

Deprovision(t) ==
    /\ t \in Existing /\ commands < MaxCommands
    /\ commands' = commands + 1
    /\ status' = [status EXCEPT ![t] = "DEPROVISIONED"]
    /\ UNCHANGED <<run, identity, grants, settings, subject, hands, healed>>

\* The engine makes its tables where it has CREATE.
CreateTables(t) ==
    /\ OnSchema(t, "recon_engine", t, "reconciliation", "CREATE") \in grants
    /\ grants' = grants \union Owned(t)
    /\ UNCHANGED <<status, run, identity, settings, subject, hands, commands, healed>>

\* By hand: a privilege, a setting, a schema restored under another name.  No
\* rule relates the privileges of two roles, so it is enough that those of one
\* role are changed.
OfSubject(g) == <<g.tenant, g.role>> = subject

ByHand ==
    /\ hands < MaxHand
    /\ hands' = hands + 1
    /\ subject[1] \in Existing
    /\ healed' = healed \ {subject[1]}
    /\ UNCHANGED <<status, run, subject, commands>>

HandGrant ==
    /\ \E g \in AllPrivileges \ grants :
          /\ OfSubject(g) /\ g.owner \in Existing \union {Platform}
          /\ grants' = grants \union {g}
    /\ ByHand
    /\ UNCHANGED <<identity, settings>>

HandRevoke ==
    /\ \E g \in grants : OfSubject(g) /\ grants' = grants \ {g}
    /\ ByHand
    /\ UNCHANGED <<identity, settings>>

HandSet ==
    /\ \E x \in Settings \ settings : settings' = settings \union {x}
    /\ ByHand
    /\ UNCHANGED <<identity, grants>>

Restore ==
    /\ \E t, u \in Existing, l \in Layers :
          t # u /\ identity' = [identity EXCEPT ![t][l] = u]
    /\ ByHand
    /\ UNCHANGED <<grants, settings>>

Next ==
    \/ \E t \in Tenants :
          \/ Migrate(t) \/ CreateSchemas(t) \/ FirstGrants(t) \/ Activate(t)
          \/ Abandon(t) \/ Deprovision(t) \/ CreateTables(t)
    \/ HandGrant \/ HandRevoke \/ HandSet \/ Restore

Spec == Init /\ [][Next]_vars

-----------------------------------------------------------------------------
(* The gate: scripts/check_isolation.py.                                    *)

_tenants == {t \in Tenants : status[t] \in {"ACTIVE", "PROVISIONING"}}

\* BYPASSRLS, app_login with INHERIT, a search_path, schema public.
ClusterRules == settings \intersect {<<x, None>> : x \in {"bypassrls", "inherit",
                                                          "search_path", "public"}} = {}

\* Every schema names the tenant it is called after.
IdentityRule(t) == \A l \in Layers : identity[t][l] = t

CreateScopedRule(t) ==
    \A other \in _tenants, r \in Roles :
        OnSchema(t, r, other, "reconciliation", "CREATE") \in grants
            <=> r = "recon_engine" /\ other = t

CrossTenantRule(t) ==
    \A other \in _tenants \ {t}, l \in Layers, r \in Roles :
        OnSchema(t, r, other, l, "USAGE") \notin grants

\* Base tables in the sense of relkind, the identity table excepted.
IsBase(g) == g.kind \in BaseTables \union {"versions"}

\* Wrong on purpose: written before there was a reconciliation schema.
PipelineGrantRule(t, g) ==
    LET own(layer) == g.owner = t /\ g.layer = layer IN
    /\ g.role = "recon" => ~(own("silver") /\ IsBase(g)) /\ ~own("bronze")
    /\ ~(own("bronze") /\ g.kind = "table" /\ g.priv = "CHANGE")
    /\ g.role = "ingest" => ~own("gold")
    /\ g.kind = "identity" => g.priv \notin Writes
    /\ g.kind # "versions"
    /\ g.role = "support" => g.priv \notin Writes

\* The rules on one table grant of a role of t.
GrantRule(t, g) ==
    LET own(layer) == g.owner = t /\ g.layer = layer IN
    /\ g.role = "recon" => ~(own("silver") /\ IsBase(g)) /\ ~own("bronze")
    /\ ~(own("bronze") /\ g.kind = "table" /\ g.priv = "CHANGE")
    /\ g.role = "ingest" => ~own("gold")
    /\ g.role = "recon_engine" =>
          /\ ~own("bronze")
          /\ own("gold") => g.kind \in {"identity", "v1_reconciliation"}
          /\ ~(own("silver") /\ IsBase(g))
    /\ own("reconciliation") => g.role = "recon_engine"
    /\ g.kind = "identity" => g.priv \notin Writes
    /\ g.kind # "versions"
    /\ g.role = "support" => g.priv \notin Writes

TableGrantRules(t) ==
    \A g \in grants : g.tenant = t /\ g.kind # "schema" => GrantRule(t, g)

ViewRule(t) == <<"security_invoker", t>> \notin settings

\* platform_ref, by the names of two of its tables.
PlatformRule(t) ==
    \A g \in grants : g.tenant = t /\ g.owner = Platform =>
        /\ g.kind \in {"universal_master", "ref02_category"} => g.priv # "CHANGE"
        /\ g.kind = "ref02_category" => g.priv # "SELECT"

\* check() returns no finding.
Clean ==
    /\ ClusterRules
    /\ \A t \in _tenants :
          /\ IdentityRule(t) /\ CreateScopedRule(t) /\ CrossTenantRule(t)
          /\ TableGrantRules(t) /\ ViewRule(t) /\ PlatformRule(t)

-----------------------------------------------------------------------------
(* What a transaction of the pool can do.                                   *)

\* A privilege on an object is good for nothing without USAGE on its schema.
Effective(g) ==
    /\ g.kind # "schema"
    /\ g.owner = Platform \/ OnSchema(g.tenant, g.role, g.owner, g.layer, "USAGE") \in grants

\* The preamble: SET LOCAL ROLE, then assert_tenant_context reads the Silver
\* identity row under that role.
Preamble(t, r) ==
    /\ Privilege(t, r, t, "silver", "identity", "SELECT") \in grants
    /\ OnSchema(t, r, t, "silver", "USAGE") \in grants
    /\ identity[t]["silver"] = t

\* What t's roles can really do to live tenants and to the platform, besides
\* what is intended.
Excess(t) ==
    {g \in grants : /\ g.tenant = t
                    /\ g.owner \in _tenants \union {Platform}
                    /\ Effective(g)
                    /\ g \notin Intended[t]}

-----------------------------------------------------------------------------
(* Properties.                                                             *)

\* The gate and the code agree on an estate nobody has touched by hand: it has
\* a finding if and only if some tenant's provisioning has not got to its grants
\* (it is under way, or was abandoned), whatever else was provisioned, provisioned
\* again or deprovisioned.
UntouchedIsClean == hands = 0 => (Clean <=> _tenants \subseteq healed)

\* Writes to reference data that no rule looks at: to a table no rule names, and
\* every TRUNCATE but support's.  No run revokes anything in platform_ref.
Unwatched(t) ==
    {g \in grants :
        /\ g.tenant = t /\ g.owner = Platform /\ g.role # "support"
        /\ g.priv = "TRUNCATE" \/ (g.priv = "CHANGE" /\ g.kind = "reference")}

\* The gate has blind spots.  Those within the tenants' schemas the next run of
\* apply_tenant covers: an access beyond what is intended that the gate lets pass
\* is one within the role's own tenant, which the matrix will revoke.  The others
\* are the unwatched writes to reference data, and there are no more.
BlindSpotsHeal ==
    Clean => \A t \in _tenants : Excess(t) \subseteq Revoked(t) \union Unwatched(t)

\* When the gate passes after a run, a live tenant's roles can do exactly what
\* the matrix says in every tenant's schemas, nothing in platform_ref but read it
\* and what is unwatched, and the three pipeline roles get through the preamble.
HealedIsTight ==
    Clean => \A t \in _tenants \intersect healed :
        /\ Excess(t) \subseteq Unwatched(t)
        /\ Matrix[t] \subseteq grants
        /\ \A r \in Roles \ {"recon_engine"} : Preamble(t, r)
===============================================================================
