-------------------------------- MODULE Tenancy --------------------------------
(***************************************************************************)
(* The estate: operators who provision tenants, migrate all of them and    *)
(* tear one down, each command a process of its own, nothing locking them  *)
(* out of one another (provisioning/service.py, migrate/runner.py,         *)
(* cli.py).                                                                *)
(*                                                                         *)
(* A checkout of release r holds the common migrations 1..r and, for every *)
(* tenant, one extension; somebody may have edited a file of it.  The      *)
(* shared chain runs through the same loop as a tenant's, under the scope  *)
(* Shared and without grants.  What a migration creates in its schema      *)
(* stands as the migration's number in objects.                            *)
(***************************************************************************)
EXTENDS Integers, Functions, FiniteSets, Sequences

CONSTANTS Tenants,     \* slugs
          Settled,     \* the tenants provisioned long ago, at release 1
          Operators,   \* people (or jobs) running tenantctl
          Shared,      \* the scope of the shared chain
          Releases,    \* number of releases
          Editable,    \* the migrations somebody may edit after the fact
          HasStore,    \* an object store is configured
          MaxRuns,     \* bound: commands started
          None

ASSUME TenancyAssumption ==
    /\ Releases \in Nat \ {0}
    /\ Settled \subseteq Tenants
    /\ Shared \notin Tenants
    /\ HasStore \in BOOLEAN
    /\ MaxRuns \in Nat
    /\ None \notin {"shipped", "edited", "PROVISIONING", "ACTIVE", "DEPROVISIONED"}

Scopes == Tenants \union {Shared}
Ext == Releases + 1          \* the tenant's extension: ext_NNN_*.sql
Files == 1..Ext
Bodies == {"shipped", "edited"}
Layers == {"bronze", "silver", "gold", "reconciliation"}
Roles == {"ingest", "recon", "support", "recon_engine"}

\* The schema a migration creates its objects in: 001_bronze, 002_silver, and
\* an extension adds columns to a Silver register.
LayerOf(f) == IF f = 1 THEN "bronze" ELSE "silver"

\* deprovision(drop_schemas=True): one autocommitted statement after another.
Teardown == <<"mark", "bronze", "silver", "gold", "reconciliation",
              "ingest", "recon", "support", "recon_engine", "row">>
Following(item) == Teardown[1 + CHOOSE i \in DOMAIN Teardown : Teardown[i] = item]

VARIABLES
    bucket,     \* per tenant: "none", "bare" (no default retention) or "locked"
    registry,   \* app.tenant_registry: per tenant its status, or None
    schemas,    \* per tenant: the schemas that exist, with their identity row
    roles,      \* per tenant: the roles that exist
    applied,    \* per scope: __migration_version, file -> checksum or None
    objects,    \* per tenant: the migrations whose objects exist
    granted,    \* per tenant: the objects the matrix is granted on
    guarded,    \* per tenant: the roles may read the Silver identity row
    pc,         \* per operator: where the command is
    cmd,        \* per operator: the command and its checkout
    work,       \* per operator and scope: apply_shared / apply_tenant
    result,     \* per operator: exit status of the last command
    runs,       \* commands started so far
    tornDown    \* history: tenants a DROP was ever run on

estate == <<bucket, registry, schemas, roles, applied, objects, granted, guarded>>
vars == <<estate, pc, cmd, work, result, runs, tornDown>>

NoWork == [at |-> "off", pos |-> 0, seen |-> [f \in Files |-> None]]
NoCommand == [kind |-> "none", tenant |-> None, release |-> 1, edited |-> {}, drop |-> FALSE]

Commands ==
    [kind : {"none", "migrate", "provision", "deprovision"}, tenant : Tenants \union {None},
     release : 1..Releases, edited : SUBSET Editable, drop : BOOLEAN]

TypeOK ==
    /\ bucket \in [Tenants -> {"none", "bare", "locked"}]
    /\ registry \in [Tenants -> {None, "PROVISIONING", "ACTIVE", "DEPROVISIONED"}]
    /\ schemas \in [Tenants -> SUBSET Layers]
    /\ roles \in [Tenants -> SUBSET Roles]
    /\ applied \in [Scopes -> [Files -> Bodies \union {None}]]
    /\ objects \in [Tenants -> SUBSET Files]
    /\ granted \in [Tenants -> SUBSET Files]
    /\ guarded \in [Tenants -> BOOLEAN]
    /\ pc \in [Operators -> {"idle", "bucket", "lock", "schemas", "apply", "shared",
                             "fanout"} \union Range(Teardown)]
    /\ cmd \in [Operators -> Commands]
    /\ work \in [Operators -> [Scopes ->
                    [at : {"off", "read", "file", "ok", "error"}, pos : 0..(Ext + 1),
                     seen : [Files -> Bodies \union {None}]]]]
    /\ result \in [Operators -> {"none", "ok", "failed"}]
    /\ runs \in 0..MaxRuns
    /\ tornDown \subseteq Tenants

Settle(t, there, absent) == IF t \in Settled THEN there ELSE absent

Init ==
    /\ bucket = [t \in Tenants |-> Settle(t, IF HasStore THEN "locked" ELSE "none", "none")]
    /\ registry = [t \in Tenants |-> Settle(t, "ACTIVE", None)]
    /\ schemas = [t \in Tenants |-> Settle(t, Layers, {})]
    /\ roles = [t \in Tenants |-> Settle(t, Roles, {})]
    /\ applied = [s \in Scopes |-> [f \in Files |->
            IF \/ s = Shared /\ f = 1
               \/ s \in Settled /\ f \in {1, Ext}
            THEN "shipped" ELSE None]]
    /\ objects = [t \in Tenants |-> Settle(t, {1, Ext}, {})]
    /\ granted = [t \in Tenants |-> Settle(t, {1, Ext}, {})]
    /\ guarded = [t \in Tenants |-> Settle(t, TRUE, FALSE)]
    /\ pc = [o \in Operators |-> "idle"]
    /\ cmd = [o \in Operators |-> NoCommand]
    /\ work = [o \in Operators |-> [s \in Scopes |-> NoWork]]
    /\ result = [o \in Operators |-> "none"]
    /\ runs = 0
    /\ tornDown = {}

-----------------------------------------------------------------------------
Body(o, f) == IF f \in cmd[o].edited THEN "edited" ELSE "shipped"

\* Wrong on purpose: the tenant's own chain first.
ChainExtFirst(s, r) ==
    [i \in 1..(IF s = Shared THEN r ELSE r + 1) |->
        IF s = Shared THEN i ELSE IF i = 1 THEN Ext ELSE i - 1]

\* [*_load(TENANT_DIR), *_load_ext(slug)]: the common chain, then the tenant's
\* own.  The shared chain has no extensions.
Chain(s, r) == [i \in 1..(IF s = Shared THEN r ELSE r + 1) |-> IF i <= r THEN i ELSE Ext]

tenant_slugs == {t \in Tenants : registry[t] \in {"ACTIVE", "PROVISIONING"}}

Goto(o, where) == pc' = [pc EXCEPT ![o] = where]

\* The process is over; what it was doing is remembered if it succeeded.
End(o, how) ==
    /\ Goto(o, "idle")
    /\ result' = [result EXCEPT ![o] = how]
    /\ IF how = "ok" THEN UNCHANGED <<cmd, work>>
       ELSE /\ cmd' = [cmd EXCEPT ![o] = NoCommand]
            /\ work' = [work EXCEPT ![o] = [s \in Scopes |-> NoWork]]

Start(o, c, where) ==
    /\ pc[o] = "idle"
    /\ runs < MaxRuns
    /\ runs' = runs + 1
    /\ cmd' = [cmd EXCEPT ![o] = c]
    /\ result' = [result EXCEPT ![o] = "none"]
    /\ Goto(o, where)

Over(o, s, how) == work' = [work EXCEPT ![o][s] = [NoWork EXCEPT !.at = how]]
Working(o, s, w) == work' = [work EXCEPT ![o][s] = w]
StartWork == [NoWork EXCEPT !.at = "read"]

-----------------------------------------------------------------------------
(* The loop apply_shared and apply_tenant share.                           *)

\* The applied map, read once.  A tenant's table lives in its Silver schema.
ReadApplied(o, s) ==
    /\ work[o][s].at = "read"
    /\ Working(o, s,
         IF s = Shared \/ "silver" \in schemas[s]
         THEN [at |-> "file", pos |-> 1, seen |-> applied[s]]
         ELSE [NoWork EXCEPT !.at = "error"])
    /\ UNCHANGED <<estate, pc, cmd, result, runs, tornDown>>

Due(o, s) == Chain(s, cmd[o].release)[work[o][s].pos]
Pending(o, s) ==
    /\ work[o][s].at = "file"
    /\ work[o][s].pos \in DOMAIN Chain(s, cmd[o].release)

\* Wrong on purpose: one file too far.
AdvanceTwice(o, s) == Working(o, s, [work[o][s] EXCEPT !.pos = @ + 2])

Advance(o, s) == Working(o, s, [work[o][s] EXCEPT !.pos = @ + 1])

\* Wrong on purpose: an applied file is passed over without looking at it.
SkipUnverified(o, s) ==
    /\ Pending(o, s)
    /\ work[o][s].seen[Due(o, s)] # None
    /\ Advance(o, s)
    /\ UNCHANGED <<estate, pc, cmd, result, runs, tornDown>>

\* _verify_checksum: an applied migration that has been edited is an error.
Verify(o, s) ==
    /\ Pending(o, s)
    /\ work[o][s].seen[Due(o, s)] # None
    /\ IF work[o][s].seen[Due(o, s)] = Body(o, Due(o, s))
       THEN Advance(o, s)
       ELSE Over(o, s, "error")
    /\ UNCHANGED <<estate, pc, cmd, result, runs, tornDown>>

\* The body can run where its schema exists, and its version row is inserted
\* in the same transaction: a runner that got there first wins.
CanApply(s, f) ==
    /\ applied[s][f] = None
    /\ s \in Tenants => {LayerOf(f), "silver"} \subseteq schemas[s]

\* Wrong on purpose: the version row is upserted, so the loser's body stays.
ApplyAgain(o, s) ==
    /\ Pending(o, s)
    /\ work[o][s].seen[Due(o, s)] = None
    /\ applied' = [applied EXCEPT ![s][Due(o, s)] = Body(o, Due(o, s))]
    /\ objects' = [t \in Tenants |-> objects[t] \union (IF t = s THEN {Due(o, s)} ELSE {})]
    /\ Advance(o, s)
    /\ UNCHANGED <<bucket, registry, schemas, roles, granted, guarded, pc, cmd, result,
                   runs, tornDown>>

Apply(o, s) ==
    /\ Pending(o, s)
    /\ work[o][s].seen[Due(o, s)] = None
    /\ CanApply(s, Due(o, s))
    /\ applied' = [applied EXCEPT ![s][Due(o, s)] = Body(o, Due(o, s))]
    /\ objects' = [t \in Tenants |-> objects[t] \union (IF t = s THEN {Due(o, s)} ELSE {})]
    /\ Advance(o, s)
    /\ UNCHANGED <<bucket, registry, schemas, roles, granted, guarded, pc, cmd, result,
                   runs, tornDown>>

\* The primary key of the version table, a dropped schema, a body that does not
\* run, a stray extension name, the connection: the transaction rolls back.
Refused(o, s) ==
    /\ work[o][s].at \in {"read", "file"}
    /\ Over(o, s, "error")
    /\ UNCHANGED <<estate, pc, cmd, result, runs, tornDown>>

\* Wrong on purpose: the matrix is asserted before the migrations have run.
GrantEarly(o, t) ==
    /\ work[o][t].at = "file"
    /\ schemas[t] = Layers /\ roles[t] = Roles
    /\ granted' = [granted EXCEPT ![t] = objects[t]]
    /\ guarded' = [guarded EXCEPT ![t] = TRUE]
    /\ Over(o, t, "ok")
    /\ UNCHANGED <<bucket, registry, schemas, roles, applied, objects, pc, cmd, result, runs,
                   tornDown>>

\* apply_tenant_grants revokes and grants on what is there, unconditionally.
Grant(o, t) ==
    /\ work[o][t].at = "file"
    /\ work[o][t].pos > Len(Chain(t, cmd[o].release))
    /\ schemas[t] = Layers /\ roles[t] = Roles
    /\ granted' = [granted EXCEPT ![t] = objects[t]]
    /\ guarded' = [guarded EXCEPT ![t] = TRUE]
    /\ Over(o, t, "ok")
    /\ UNCHANGED <<bucket, registry, schemas, roles, applied, objects, pc, cmd, result, runs,
                   tornDown>>

SharedDone(o) ==
    /\ work[o][Shared].at = "file"
    /\ work[o][Shared].pos > Len(Chain(Shared, cmd[o].release))
    /\ Over(o, Shared, "ok")
    /\ UNCHANGED <<estate, pc, cmd, result, runs, tornDown>>

apply_tenant(o, t) == ReadApplied(o, t) \/ Verify(o, t) \/ Apply(o, t) \/ Grant(o, t)
apply_shared(o) ==
    ReadApplied(o, Shared) \/ Verify(o, Shared) \/ Apply(o, Shared) \/ SharedDone(o)

-----------------------------------------------------------------------------
(* tenantctl migrate                                                       *)

Migrate(o) ==
    /\ \E r \in 1..Releases, e \in SUBSET Editable :
          Start(o, [NoCommand EXCEPT !.kind = "migrate", !.release = r, !.edited = e],
                "shared")
    /\ work' = [work EXCEPT ![o] = [s \in Scopes |->
                    IF s = Shared THEN StartWork ELSE NoWork]]
    /\ UNCHANGED <<estate, tornDown>>

\* A failure of the shared chain ends the command; a tenant's does not.
FanOut(o) ==
    /\ pc[o] = "shared"
    /\ work[o][Shared].at = "ok"
    /\ Goto(o, "fanout")
    /\ work' = [work EXCEPT ![o] = [s \in Scopes |->
                    IF s \in tenant_slugs THEN StartWork ELSE work[o][s]]]
    /\ UNCHANGED <<estate, cmd, result, runs, tornDown>>

\* drift_report, by name only, for the tenants there are by now.
drift_report(o) ==
    {t \in tenant_slugs : \E i \in DOMAIN Chain(t, cmd[o].release) :
        applied[t][Chain(t, cmd[o].release)[i]] = None}

FannedOut(o) == {t \in Tenants : work[o][t].at # "off"}

\* Wrong on purpose: the pool waits for successes.
ReportWhenAllOk(o) ==
    /\ pc[o] = "fanout"
    /\ \A t \in FannedOut(o) : work[o][t].at = "ok"
    /\ End(o, "ok")
    /\ UNCHANGED <<estate, runs, tornDown>>

Report(o) ==
    /\ pc[o] = "fanout"
    /\ \A t \in FannedOut(o) : work[o][t].at \in {"ok", "error"}
    /\ End(o, IF drift_report(o) = {} /\ \A t \in FannedOut(o) : work[o][t].at = "ok"
              THEN "ok" ELSE "failed")
    /\ UNCHANGED <<estate, runs, tornDown>>

-----------------------------------------------------------------------------
(* tenantctl provision: bucket, then schemas, roles and identity in one     *)
(* transaction, then migrations and grants, then ACTIVE.                    *)

Provision(o, t) ==
    /\ \E r \in 1..Releases, e \in SUBSET Editable :
          Start(o, [NoCommand EXCEPT !.kind = "provision", !.tenant = t, !.release = r,
                                     !.edited = e],
                IF HasStore THEN "bucket" ELSE "schemas")
    /\ work' = [work EXCEPT ![o] = [s \in Scopes |-> NoWork]]
    /\ UNCHANGED <<estate, tornDown>>

\* ensure_bucket takes any bucket head_bucket finds; a new one is created with
\* Object Lock and then given its default retention.
EnsureBucket(o) ==
    /\ pc[o] = "bucket"
    /\ LET t == cmd[o].tenant IN
       IF bucket[t] # "none"
       THEN Goto(o, "schemas") /\ UNCHANGED bucket
       ELSE Goto(o, "lock") /\ bucket' = [bucket EXCEPT ![t] = "bare"]
    /\ UNCHANGED <<registry, schemas, roles, applied, objects, granted, guarded, cmd, work,
                   result, runs, tornDown>>

PutObjectLock(o) ==
    /\ pc[o] = "lock"
    /\ bucket' = [bucket EXCEPT ![cmd[o].tenant] = "locked"]
    /\ Goto(o, "schemas")
    /\ UNCHANGED <<registry, schemas, roles, applied, objects, granted, guarded, cmd, work,
                   result, runs, tornDown>>

\* Wrong on purpose: the registry row says ACTIVE from the start.
CreateActive(o) ==
    /\ pc[o] = "schemas"
    /\ LET t == cmd[o].tenant IN
       /\ registry' = [registry EXCEPT ![t] = "ACTIVE"]
       /\ schemas' = [schemas EXCEPT ![t] = Layers]
       /\ roles' = [roles EXCEPT ![t] = Roles]
       /\ Working(o, t, StartWork)
    /\ Goto(o, "apply")
    /\ UNCHANGED <<bucket, applied, objects, granted, guarded, cmd, result, runs, tornDown>>

CreateSchemas(o) ==
    /\ pc[o] = "schemas"
    /\ LET t == cmd[o].tenant IN
       /\ registry' = [registry EXCEPT ![t] = IF @ = "ACTIVE" THEN "ACTIVE"
                                              ELSE "PROVISIONING"]
       /\ schemas' = [schemas EXCEPT ![t] = Layers]
       /\ roles' = [roles EXCEPT ![t] = Roles]
       /\ Working(o, t, StartWork)
    /\ Goto(o, "apply")
    /\ UNCHANGED <<bucket, applied, objects, granted, guarded, cmd, result, runs, tornDown>>

\* UPDATE ... WHERE slug: whatever the row has become, and no row is no error.
Activate(o) ==
    /\ pc[o] = "apply"
    /\ LET t == cmd[o].tenant IN
       /\ work[o][t].at = "ok"
       /\ registry' = [registry EXCEPT ![t] = IF @ = None THEN None ELSE "ACTIVE"]
    /\ End(o, "ok")
    /\ UNCHANGED <<bucket, schemas, roles, applied, objects, granted, guarded, runs,
                   tornDown>>

provision(o) == EnsureBucket(o) \/ PutObjectLock(o) \/ CreateSchemas(o) \/ Activate(o)

-----------------------------------------------------------------------------
(* ProvisioningService.deprovision                                          *)

Deprovision(o, t) ==
    /\ \E d \in BOOLEAN :
          Start(o, [NoCommand EXCEPT !.kind = "deprovision", !.tenant = t, !.drop = d],
                "mark")
    /\ work' = [work EXCEPT ![o] = [s \in Scopes |-> NoWork]]
    /\ UNCHANGED <<estate, tornDown>>

Mark(o) ==
    /\ pc[o] = "mark"
    /\ LET t == cmd[o].tenant IN
       registry' = [registry EXCEPT ![t] = IF @ = None THEN None ELSE "DEPROVISIONED"]
    /\ IF cmd[o].drop
       THEN Goto(o, Following("mark")) /\ UNCHANGED <<result, cmd, work>>
       ELSE End(o, "ok")
    /\ UNCHANGED <<bucket, schemas, roles, applied, objects, granted, guarded, runs, tornDown>>

\* DROP SCHEMA ... CASCADE takes the objects, their grants and, in Silver, the
\* version table and the identity row the guard reads.
DropSchema(o) ==
    /\ pc[o] \in Layers
    /\ LET t == cmd[o].tenant
           kept == {f \in objects[t] : LayerOf(f) # pc[o]}
       IN
       /\ schemas' = [schemas EXCEPT ![t] = @ \ {pc[o]}]
       /\ objects' = [objects EXCEPT ![t] = kept]
       /\ granted' = [granted EXCEPT ![t] = @ \intersect kept]
       /\ IF pc[o] = "silver"
          THEN /\ applied' = [applied EXCEPT ![t] = [f \in Files |-> None]]
               /\ guarded' = [guarded EXCEPT ![t] = FALSE]
          ELSE UNCHANGED <<applied, guarded>>
       /\ tornDown' = tornDown \union {t}
    /\ Goto(o, Following(pc[o]))
    /\ UNCHANGED <<bucket, registry, roles, cmd, work, result, runs>>

\* A role that holds a grant cannot be dropped: the statement raises.
DropRole(o) ==
    /\ pc[o] \in Roles
    /\ LET t == cmd[o].tenant IN
       IF guarded[t] /\ pc[o] \in roles[t]
       THEN End(o, "failed") /\ UNCHANGED roles
       ELSE /\ roles' = [roles EXCEPT ![t] = @ \ {pc[o]}]
            /\ Goto(o, Following(pc[o]))
            /\ UNCHANGED <<result, cmd, work>>
    /\ UNCHANGED <<bucket, registry, schemas, applied, objects, granted, guarded, runs, tornDown>>

DeleteRow(o) ==
    /\ pc[o] = "row"
    /\ registry' = [registry EXCEPT ![cmd[o].tenant] = None]
    /\ End(o, "ok")
    /\ UNCHANGED <<bucket, schemas, roles, applied, objects, granted, guarded, runs, tornDown>>

deprovision(o) == Mark(o) \/ DropSchema(o) \/ DropRole(o) \/ DeleteRow(o)

-----------------------------------------------------------------------------
\* An error of the shared chain, or of the tenant being provisioned, is raised.
Raise(o) ==
    /\ \/ pc[o] = "shared" /\ work[o][Shared].at = "error"
       \/ pc[o] = "apply" /\ work[o][cmd[o].tenant].at = "error"
    /\ End(o, "failed")
    /\ UNCHANGED <<estate, runs, tornDown>>

\* The store or the database fails, or the process dies: its threads with it.
Crash(o) ==
    /\ pc[o] # "idle"
    /\ End(o, "failed")
    /\ UNCHANGED <<estate, runs, tornDown>>

Step(o) ==
    \/ apply_shared(o) \/ FanOut(o) \/ Report(o)
    \/ provision(o) \/ deprovision(o) \/ Raise(o)

Next ==
    \E o \in Operators :
        \/ Migrate(o)
        \/ \E t \in Tenants : Provision(o, t) \/ Deprovision(o, t)
        \/ Step(o)
        \/ \E t \in Tenants : apply_tenant(o, t)
        \/ \E s \in Scopes : Refused(o, s)
        \/ Crash(o)

Spec == Init /\ [][Next]_vars

\* A command runs on, and every thread of its pool is scheduled.
FairSpec ==
    /\ Spec
    /\ \A o \in Operators :
          /\ WF_vars(Step(o))
          /\ \A s \in Scopes : WF_vars((s \in Tenants /\ apply_tenant(o, s)) \/ Refused(o, s))

-----------------------------------------------------------------------------
(* Properties.                                                             *)

\* The whole chain of release r is in place and granted.
Whole(t, r) ==
    \A i \in DOMAIN Chain(t, r) :
        LET f == Chain(t, r)[i] IN
        applied[t][f] # None /\ f \in objects[t] /\ f \in granted[t]

\* What TenantScopedPool.transaction needs to get past its preamble: the role
\* and the right to read the Silver identity row.
Reachable(t) == roles[t] = Roles /\ "silver" \in schemas[t] /\ guarded[t]

\* Nobody asks the registry before serving a tenant, and nobody has to: from
\* the first statement of provisioning to the last, through crashes, retries
\* and other runners, a tenant its pool can reach is one that some release was
\* wholly applied to and granted on, and its bucket is there.
ReachableIsWhole ==
    \A t \in Tenants \ tornDown : Reachable(t) =>
        /\ \E r \in 1..Releases : Whole(t, r)
        /\ HasStore => bucket[t] # "none"

\* ACTIVE is never ahead of the grants.
ActiveIsReachable ==
    \A t \in Tenants \ tornDown : registry[t] = "ACTIVE" => Reachable(t)

\* The chain is applied in order, by whichever runners and releases: no
\* migration without the ones before it, no extension without a base.
ChainInOrder ==
    \A s \in Scopes \ tornDown :
        /\ \A f \in 1..Releases, g \in 1..Releases :
              g < f /\ applied[s][f] # None => applied[s][g] # None
        /\ applied[s][Ext] # None => applied[s][1] # None

\* tenantctl migrate that exits 0 leaves every tenant it fanned out to holding
\* exactly the bodies of its checkout, granted; provision likewise.
SuccessMeansAtHead ==
    \A o \in Operators : result[o] = "ok" =>
        \A t \in FannedOut(o) \ tornDown :
            /\ Whole(t, cmd[o].release)
            /\ \A i \in DOMAIN Chain(t, cmd[o].release) :
                  LET f == Chain(t, cmd[o].release)[i] IN applied[t][f] = Body(o, f)

\* Two runners on one tenant: a migration is committed by one of them, once.
CommittedOnce ==
    [][\A s \in Scopes \ tornDown', f \in Files :
          applied[s][f] # None => applied'[s][f] = applied[s][f]]_vars

\* One tenant failing does not hold up the command: every command ends.
EveryCommandEnds == \A o \in Operators : pc[o] # "idle" ~> pc[o] = "idle"
===============================================================================
