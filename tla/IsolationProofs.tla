---------------------------- MODULE IsolationProofs ----------------------------
(***************************************************************************)
(* Proofs about Isolation: for every set of tenants and any number of      *)
(* changes by hand, what the gate checks and what the matrix grants agree. *)
(***************************************************************************)
EXTENDS Isolation, TLAPS

-----------------------------------------------------------------------------
(* The inductive invariant, in parts.                                      *)

\* Where nobody has been at work by hand, the estate is as the code left it: a
\* tenant that has not got its grants yet can read the platform's tables, no more.
Pristine ==
    hands = 0 =>
        /\ \A g \in grants : \E t \in Existing :
              \/ g \in Reader(t)
              \/ t \in healed /\ (g \in Matrix[t] \/ g \in Owned(t))
        /\ settings = {}
        /\ \A t \in Existing, l \in Layers : identity[t][l] = t

\* A tenant that is being provisioned has its schemas.
Running == \A t \in Tenants : run[t] # "idle" => t \in Existing

\* A tenant whose matrix is newer than the last change by hand holds all of it,
\* and of what the matrix would revoke nothing else.
Fresh ==
    \A t \in healed : Matrix[t] \subseteq grants /\ Revoked(t) \subseteq Matrix[t]

IndInv == TypeOK /\ Running /\ Pristine /\ Fresh

-----------------------------------------------------------------------------
(* Facts about privileges.                                                 *)

\* What a privilege is made of.
LEMMA PrivilegeParts ==
    ASSUME NEW g \in AllPrivileges
    PROVE  /\ g.tenant \in Tenants /\ g.role \in Roles
           /\ \/ /\ g.owner \in Tenants /\ g.layer \in Layers
                 /\ \/ g.kind \in KindsIn(g.layer) /\ g.priv \in PrivilegesIn(g.layer)
                    \/ g.kind = "schema" /\ g.priv \in {"USAGE", "CREATE"}
              \/ /\ g.owner = Platform /\ g.layer = "platform_ref"
                 /\ g.kind \in KindsIn("platform_ref") /\ g.priv \in PrivilegesIn("platform_ref")
           /\ g = Privilege(g.tenant, g.role, g.owner, g.layer, g.kind, g.priv)
  <1>1. CASE \E t \in Tenants, r \in Roles, owner \in Tenants, layer \in Layers :
               g \in {Privilege(t, r, owner, layer, kind, p) : kind \in KindsIn(layer),
                         p \in PrivilegesIn(layer)}
    <2>1. PICK t \in Tenants, r \in Roles, owner \in Tenants, layer \in Layers :
             \E kind \in KindsIn(layer), p \in PrivilegesIn(layer) :
                 g = Privilege(t, r, owner, layer, kind, p)
      BY <1>1
    <2>2. PICK kind \in KindsIn(layer), p \in PrivilegesIn(layer) :
             g = Privilege(t, r, owner, layer, kind, p)
      BY <2>1
    <2>3. /\ g.tenant = t /\ g.role = r /\ g.owner = owner /\ g.layer = layer
          /\ g.kind = kind /\ g.priv = p
      BY <2>2 DEF Privilege
    <2> QED
      BY <2>2, <2>3
  <1>2. CASE \E t \in Tenants, r \in Roles, owner \in Tenants, layer \in Layers,
                p \in {"USAGE", "CREATE"} : g = OnSchema(t, r, owner, layer, p)
    <2>1. PICK t \in Tenants, r \in Roles, owner \in Tenants, layer \in Layers,
               p \in {"USAGE", "CREATE"} : g = Privilege(t, r, owner, layer, "schema", p)
      BY <1>2 DEF OnSchema
    <2>2. /\ g.tenant = t /\ g.role = r /\ g.owner = owner /\ g.layer = layer
          /\ g.kind = "schema" /\ g.priv = p
      BY <2>1 DEF Privilege
    <2> QED
      BY <2>1, <2>2
  <1>3. CASE \E t \in Tenants, r \in Roles, kind \in KindsIn("platform_ref"),
                p \in PrivilegesIn("platform_ref") :
                   g = Privilege(t, r, Platform, "platform_ref", kind, p)
    <2>1. PICK t \in Tenants, r \in Roles, kind \in KindsIn("platform_ref"),
               p \in PrivilegesIn("platform_ref") :
             g = Privilege(t, r, Platform, "platform_ref", kind, p)
      BY <1>3
    <2>2. /\ g.tenant = t /\ g.role = r /\ g.owner = Platform /\ g.layer = "platform_ref"
          /\ g.kind = kind /\ g.priv = p
      BY <2>1 DEF Privilege
    <2> QED
      BY <2>1, <2>2
  <1> QED
    BY <1>1, <1>2, <1>3 DEF AllPrivileges

\* The fields of a privilege, as it is written.
LEMMA Fields ==
    ASSUME NEW t, NEW r, NEW owner, NEW layer, NEW kind, NEW p
    PROVE  /\ Privilege(t, r, owner, layer, kind, p).tenant = t
           /\ Privilege(t, r, owner, layer, kind, p).role = r
           /\ Privilege(t, r, owner, layer, kind, p).owner = owner
           /\ Privilege(t, r, owner, layer, kind, p).layer = layer
           /\ Privilege(t, r, owner, layer, kind, p).kind = kind
           /\ Privilege(t, r, owner, layer, kind, p).priv = p
  BY DEF Privilege

\* What can be held.
LEMMA Holdable ==
    ASSUME NEW t \in Tenants, NEW r \in Roles
    PROVE  /\ \A owner \in Tenants, layer \in Layers :
                 /\ \A kind \in KindsIn(layer), p \in PrivilegesIn(layer) :
                       Privilege(t, r, owner, layer, kind, p) \in AllPrivileges
                 /\ \A p \in {"USAGE", "CREATE"} : OnSchema(t, r, owner, layer, p) \in AllPrivileges
           /\ \A kind \in KindsIn("platform_ref"), p \in PrivilegesIn("platform_ref") :
                 Privilege(t, r, Platform, "platform_ref", kind, p) \in AllPrivileges
  <1>1. ASSUME NEW owner \in Tenants, NEW layer \in Layers, NEW kind \in KindsIn(layer),
               NEW p \in PrivilegesIn(layer)
        PROVE  Privilege(t, r, owner, layer, kind, p) \in AllPrivileges
    <2> DEFINE S(a, b, c, d) == {Privilege(a, b, c, d, k, q) : k \in KindsIn(d),
                                     q \in PrivilegesIn(d)}
    <2>1. Privilege(t, r, owner, layer, kind, p) \in S(t, r, owner, layer)
      OBVIOUS
    <2>2. UNION {S(a, b, c, d) : a \in Tenants, b \in Roles, c \in Tenants, d \in Layers}
             \subseteq AllPrivileges
      BY DEF AllPrivileges
    <2> HIDE DEF S
    <2>3. S(t, r, owner, layer) \in
             {S(a, b, c, d) : a \in Tenants, b \in Roles, c \in Tenants, d \in Layers}
      OBVIOUS
    <2> QED
      BY <2>1, <2>2, <2>3
  <1>2. ASSUME NEW owner \in Tenants, NEW layer \in Layers, NEW p \in {"USAGE", "CREATE"}
        PROVE  OnSchema(t, r, owner, layer, p) \in AllPrivileges
    BY DEF AllPrivileges
  <1>3. ASSUME NEW kind \in KindsIn("platform_ref"), NEW p \in PrivilegesIn("platform_ref")
        PROVE  Privilege(t, r, Platform, "platform_ref", kind, p) \in AllPrivileges
    BY DEF AllPrivileges
  <1> QED
    BY <1>1, <1>2, <1>3

\* What the matrix gives.
LEMMA InMatrix ==
    ASSUME NEW t \in Tenants, NEW g
    PROVE  g \in Matrix[t] <=>
             /\ g \in AllPrivileges
             /\ g.tenant = t /\ g.owner = t
             /\ g.priv \in IF g.kind = "schema" THEN SchemaPrivileges(g.layer, g.role)
                           ELSE Allowed(g.layer, g.kind, g.role)
  BY DEF Matrix

LEMMA InOwned ==
    ASSUME NEW t \in Tenants, NEW g \in Owned(t)
    PROVE  /\ g \in AllPrivileges
           /\ g.tenant = t /\ g.owner = t /\ g.role = "recon_engine"
           /\ g.layer = "reconciliation" /\ g.kind = "table"
  <1>1. PICK p \in PrivilegesIn("reconciliation") :
           g = Privilege(t, "recon_engine", t, "reconciliation", "table", p)
    BY DEF Owned
  <1>2. "recon_engine" \in Roles /\ "reconciliation" \in Layers
        /\ "table" \in KindsIn("reconciliation")
    BY DEF Roles, Layers, KindsIn
  <1>3. g \in AllPrivileges
    BY <1>1, <1>2, Holdable
  <1> QED
    BY <1>1, <1>3, Fields

LEMMA InReader ==
    ASSUME NEW t \in Tenants, NEW g \in Reader(t)
    PROVE  /\ g \in AllPrivileges
           /\ g.tenant = t /\ g.owner = Platform /\ g.role \in Roles
           /\ g.layer = "platform_ref" /\ g.kind \in {"universal_master", "reference"}
           /\ g.priv = "SELECT"
  <1>1. PICK r \in Roles, kind \in {"universal_master", "reference"} :
           g = Privilege(t, r, Platform, "platform_ref", kind, "SELECT")
    BY DEF Reader
  <1>2. kind \in KindsIn("platform_ref") /\ "SELECT" \in PrivilegesIn("platform_ref")
    BY <1>1 DEF KindsIn, PrivilegesIn
  <1>3. g \in AllPrivileges
    BY <1>1, <1>2, Holdable
  <1> QED
    BY <1>1, <1>3, Fields

\* What apply_tenant_grants would revoke is neither a table of the engine's nor
\* anything of the platform's.
LEMMA NotRevoked ==
    ASSUME NEW t \in Tenants, NEW u \in Tenants, NEW g \in Owned(u) \union Reader(u)
    PROVE  g \notin Revoked(t)
  <1>1. CASE g \in Owned(u)
    BY <1>1, InOwned DEF Revoked, PipelineLayers
  <1>2. CASE g \in Reader(u)
    BY <1>2, InReader, IsolationAssumption DEF Revoked
  <1> QED
    BY <1>1, <1>2

-----------------------------------------------------------------------------
(* The invariant is inductive.                                             *)

LEMMA IndInit == Init => IndInv
  <1> SUFFICES ASSUME Init PROVE IndInv
    OBVIOUS
  <1>0. Existing = Old /\ Old \subseteq Tenants
    BY IsolationAssumption DEF Init, Existing
  <1>1. \A g : g \in grants <=> \E u \in Old : g \in Matrix[u] \/ g \in Owned(u) \/ g \in Reader(u)
    <2>1. \A u \in Old : Intended[u] = Matrix[u] \union Owned(u) \union Reader(u)
      BY <1>0 DEF Intended
    <2>2. grants = UNION {Intended[u] : u \in Old}
      BY DEF Init
    <2>3. \A g : g \in grants <=> \E u \in Old : g \in Intended[u]
      BY <2>2
    <2> QED
      BY <2>1, <2>3
  <1>2. ASSUME NEW g \in grants
        PROVE  g \in AllPrivileges
    <2>1. PICK u \in Old : g \in Matrix[u] \/ g \in Owned(u) \/ g \in Reader(u)
      BY <1>1
    <2> QED
      BY <1>0, <2>1, InMatrix, InOwned, InReader
  <1>3. TypeOK
    <2>1. \A t \in Old, l \in Layers : identity[t][l] = t
      BY <1>0 DEF Init
    <2> QED
      BY <1>0, <1>2, <2>1, IsolationAssumption DEF Init, TypeOK
  <1>4. Running
    BY DEF Init, Running
  <1>5. Pristine
    BY <1>0, <1>1 DEF Init, Pristine
  <1>6. ASSUME NEW t \in Old
        PROVE  Matrix[t] \subseteq grants /\ Revoked(t) \subseteq Matrix[t]
    <2>1. ASSUME NEW g \in Revoked(t)
          PROVE  g \in Matrix[t]
      <3>1. g \in grants /\ g.tenant = t
        BY <2>1 DEF Revoked
      <3>2. PICK u \in Old : g \in Matrix[u] \/ g \in Owned(u) \/ g \in Reader(u)
        BY <1>1, <3>1
      <3>3. g \in Matrix[u]
        BY <1>0, <2>1, <3>2, NotRevoked
      <3> QED
        BY <1>0, <3>1, <3>3, InMatrix
    <2> QED
      BY <1>1, <2>1
  <1>7. Fresh
    BY <1>6 DEF Init, Fresh
  <1> QED
    BY <1>3, <1>4, <1>5, <1>7 DEF IndInv

\* What one tenant's roles hold is all that Revoked looks at.
LEMMA OthersStay ==
    ASSUME NEW t \in Tenants, Matrix[t] \subseteq grants, Revoked(t) \subseteq Matrix[t],
           \A g : g.tenant = t => (g \in grants' <=> g \in grants)
    PROVE  Matrix[t] \subseteq grants' /\ Revoked(t)' \subseteq Matrix[t]
  <1>1. ASSUME NEW g \in Matrix[t]
        PROVE  g \in grants'
    BY <1>1, InMatrix
  <1>2. ASSUME NEW g \in Revoked(t)'
        PROVE  g \in Matrix[t]
    <2>1. g \in Revoked(t)
      BY <1>2 DEF Revoked
    <2> QED
      BY <2>1
  <1> QED
    BY <1>1, <1>2

\* What the code grants beside the matrix leaves the healed tenants healed.
LEMMA BesideTheMatrix ==
    ASSUME IndInv, NEW t \in Tenants, NEW X,
           X = Owned(t) \/ X = Reader(t), grants' = grants \union X, healed' = healed
    PROVE  grants' \subseteq AllPrivileges /\ Fresh'
  <1>1. grants' \subseteq AllPrivileges
    BY InOwned, InReader DEF IndInv, TypeOK
  <1>2. ASSUME NEW u \in healed'
        PROVE  Matrix[u] \subseteq grants' /\ Revoked(u)' \subseteq Matrix[u]
    <2>1. u \in Tenants /\ Matrix[u] \subseteq grants /\ Revoked(u) \subseteq Matrix[u]
      BY DEF IndInv, TypeOK, Fresh, Existing
    <2>2. ASSUME NEW g \in Revoked(u)'
          PROVE  g \in Matrix[u]
      <3>1. /\ g \in grants' /\ g.tenant = u /\ g.owner = u
            /\ \/ g.layer \in PipelineLayers
               \/ g.layer = "reconciliation" /\ g.kind = "schema" /\ g.role # "recon_engine"
        BY <2>2 DEF Revoked
      <3>2. g \notin X
        BY <2>1, <3>1, InOwned, InReader, IsolationAssumption DEF PipelineLayers
      <3>3. g \in Revoked(u)
        BY <3>1, <3>2 DEF Revoked
      <3> QED
        BY <2>1, <3>3
    <2> QED
      BY <2>1, <2>2
  <1> QED
    BY <1>1, <1>2 DEF Fresh

\* The last step of apply_tenant, whoever runs it.
LEMMA Regranted ==
    ASSUME IndInv, NEW t \in Existing, apply_tenant_grants(t),
           hands' = hands, settings' = settings, identity' = identity, status' = status
    PROVE  /\ grants' \subseteq AllPrivileges /\ healed' \subseteq Existing
           /\ Fresh' /\ Pristine'
  <1>0. /\ t \in Tenants /\ Existing' = Existing
        /\ grants' = (grants \ Revoked(t)) \union Matrix[t] /\ healed' = healed \union {t}
    BY DEF Existing, apply_tenant_grants
  <1>1. grants' \subseteq AllPrivileges /\ healed' \subseteq Existing
    BY <1>0, InMatrix DEF IndInv, TypeOK
  <1>2. Pristine'
    <2> SUFFICES ASSUME hands = 0, NEW g \in grants'
                 PROVE  \E u \in Existing : \/ g \in Reader(u)
                                            \/ u \in healed' /\ (g \in Matrix[u] \/ g \in Owned(u))
      BY <1>0 DEF IndInv, Pristine
    <2>1. CASE g \in Matrix[t]
      BY <1>0, <2>1
    <2>2. CASE g \in grants
      BY <1>0, <2>2 DEF IndInv, Pristine
    <2> QED
      BY <1>0, <2>1, <2>2
  <1>3. Matrix[t] \subseteq grants' /\ Revoked(t)' \subseteq Matrix[t]
    <2>1. ASSUME NEW g \in Revoked(t)'
          PROVE  g \in Matrix[t]
      BY <1>0, <2>1 DEF Revoked
    <2> QED
      BY <1>0, <2>1
  <1>4. ASSUME NEW u \in healed, u # t
        PROVE  Matrix[u] \subseteq grants' /\ Revoked(u)' \subseteq Matrix[u]
    <2>1. u \in Tenants /\ Matrix[u] \subseteq grants /\ Revoked(u) \subseteq Matrix[u]
      BY DEF IndInv, TypeOK, Fresh, Existing
    <2>2. ASSUME NEW g, g.tenant = u
          PROVE  g \in grants' <=> g \in grants
      BY <1>0, <1>4, <2>2, InMatrix DEF Revoked
    <2> QED
      BY <2>1, <2>2, OthersStay
  <1>5. ASSUME NEW u \in healed'
        PROVE  Matrix[u] \subseteq grants' /\ Revoked(u)' \subseteq Matrix[u]
    BY <1>0, <1>3, <1>4
  <1> QED
    BY <1>1, <1>2, <1>5 DEF Fresh

\* A change by hand costs the tenant it is made to its place among the healed.
HandKeeps ==
    /\ Pristine' /\ Fresh' /\ Running'
    /\ hands' \in 0..MaxHand /\ healed' \subseteq Existing /\ Existing' = Existing

LEMMA ChangedByHand ==
    ASSUME IndInv, ByHand,
           \A g : g.tenant # subject[1] => (g \in grants' <=> g \in grants)
    PROVE  HandKeeps
  <1>1. hands' \in 0..MaxHand /\ hands' # 0
    BY IsolationAssumption DEF IndInv, TypeOK, ByHand
  <1>2. ASSUME NEW u \in healed'
        PROVE  Matrix[u] \subseteq grants' /\ Revoked(u)' \subseteq Matrix[u]
    <2>1. u \in healed /\ u # subject[1]
      BY DEF ByHand
    <2>2. u \in Tenants /\ Matrix[u] \subseteq grants /\ Revoked(u) \subseteq Matrix[u]
      BY <2>1 DEF IndInv, TypeOK, Fresh, Existing
    <2> QED
      BY <2>1, <2>2, OthersStay
  <1>3. Existing' = Existing /\ healed' \subseteq Existing
    BY DEF ByHand, Existing, IndInv, TypeOK
  <1>4. Running'
    BY <1>3 DEF ByHand, IndInv, Running
  <1> QED
    BY <1>1, <1>2, <1>3, <1>4 DEF Pristine, Fresh, HandKeeps

\* Steps that change a status or the place of a command.
LEMMA StatusChanged ==
    ASSUME IndInv, grants' = grants, settings' = settings, hands' = hands,
           identity' = identity, healed' = healed, Existing' = Existing
    PROVE  Pristine' /\ Fresh'
  BY DEF IndInv, Pristine, Fresh, Revoked

LEMMA IndNext == IndInv /\ [Next]_vars => IndInv'
  <1> SUFFICES ASSUME IndInv, [Next]_vars PROVE IndInv'
    OBVIOUS
  <1>1. CASE UNCHANGED vars
    <2>1. Existing' = Existing
      BY <1>1 DEF vars, Existing
    <2>2. Pristine' /\ Fresh'
      BY <1>1, <2>1, StatusChanged DEF vars
    <2> QED
      BY <1>1, <2>1, <2>2 DEF IndInv, TypeOK, Running, vars
  <1>2. ASSUME NEW t \in Tenants, Migrate(t)
        PROVE  IndInv'
    <2>1. t \in Existing /\ Existing' = Existing
      BY <1>2 DEF Migrate, Existing
    <2>2. grants' \subseteq AllPrivileges /\ healed' \subseteq Existing /\ Fresh' /\ Pristine'
      BY <1>2, <2>1, Regranted DEF Migrate
    <2>3. TypeOK' /\ Running'
      BY <1>2, <2>1, <2>2 DEF Migrate, IndInv, TypeOK, Running
    <2> QED
      BY <2>2, <2>3 DEF IndInv
  <1>3. ASSUME NEW t \in Tenants, FirstGrants(t)
        PROVE  IndInv'
    <2>1. t \in Existing /\ Existing' = Existing
      BY <1>3 DEF FirstGrants, Existing, IndInv, Running
    <2>2. grants' \subseteq AllPrivileges /\ healed' \subseteq Existing /\ Fresh' /\ Pristine'
      BY <1>3, <2>1, Regranted DEF FirstGrants
    <2>3. run' \in [Tenants -> {"idle", "migrating", "granted"}]
      BY <1>3 DEF FirstGrants, IndInv, TypeOK
    <2>4. TypeOK'
      BY <1>3, <2>1, <2>2, <2>3 DEF FirstGrants, IndInv, TypeOK
    <2>5. Running'
      BY <1>3, <2>1 DEF FirstGrants, IndInv, TypeOK, Running
    <2> QED
      BY <2>2, <2>4, <2>5 DEF IndInv
  <1>4. ASSUME NEW t \in Tenants, CreateSchemas(t)
        PROVE  IndInv'
    <2>1. /\ grants' = grants \union Reader(t) /\ healed' = healed /\ hands' = hands
          /\ settings' = settings /\ subject' = subject
          /\ commands' = commands + 1 /\ commands < MaxCommands
          /\ run' = [run EXCEPT ![t] = "migrating"]
          /\ identity' = [identity EXCEPT ![t] = [l \in Layers |-> t]]
          /\ status' = [status EXCEPT ![t] = IF status[t] = "ACTIVE" THEN "ACTIVE" ELSE "PROVISIONING"]
      BY <1>4 DEF CreateSchemas
    <2>2. /\ status' \in [Tenants -> {"ABSENT", "PROVISIONING", "ACTIVE", "DEPROVISIONED"}]
          /\ Existing' = Existing \union {t}
      BY <2>1 DEF IndInv, TypeOK, Existing
    <2>3. grants' \subseteq AllPrivileges /\ Fresh'
      BY <2>1, BesideTheMatrix
    <2>4. /\ \A l \in Layers : identity'[t][l] = t
          /\ \A u \in Tenants : u # t => identity'[u] = identity[u]
          /\ identity' \in [Tenants -> [Layers -> Tenants \union {None}]]
      BY <2>1 DEF IndInv, TypeOK
    <2>5. TypeOK'
      <3>1. \A u \in Existing', l \in Layers : identity'[u][l] \in Tenants
        BY <2>2, <2>4 DEF IndInv, TypeOK, Existing
      <3>2. run' \in [Tenants -> {"idle", "migrating", "granted"}]
        BY <2>1 DEF IndInv, TypeOK
      <3>3. commands' \in 0..MaxCommands
        BY <2>1, IsolationAssumption DEF IndInv, TypeOK
      <3> QED
        BY <2>1, <2>2, <2>3, <2>4, <3>1, <3>2, <3>3 DEF IndInv, TypeOK
    <2>6. Running'
      BY <2>1, <2>2 DEF IndInv, TypeOK, Running
    <2>7. Pristine'
      <3> SUFFICES ASSUME hands = 0 PROVE Pristine'
        BY <2>1 DEF Pristine
      <3>1. ASSUME NEW g \in grants'
            PROVE  \E u \in Existing' : \/ g \in Reader(u)
                                        \/ u \in healed' /\ (g \in Matrix[u] \/ g \in Owned(u))
        BY <2>1, <2>2 DEF IndInv, Pristine
      <3>2. \A u \in Existing', l \in Layers : identity'[u][l] = u
        BY <2>2, <2>4 DEF IndInv, Pristine, Existing
      <3> QED
        BY <2>1, <3>1, <3>2 DEF IndInv, Pristine
    <2> QED
      BY <2>3, <2>5, <2>6, <2>7 DEF IndInv
  <1>5. ASSUME NEW t \in Tenants, Activate(t)
        PROVE  IndInv'
    <2>1. Existing' = Existing
      BY <1>5 DEF Activate, Existing, IndInv, TypeOK, Running
    <2>2. Pristine' /\ Fresh'
      BY <1>5, <2>1, StatusChanged DEF Activate
    <2> QED
      BY <1>5, <2>1, <2>2 DEF Activate, IndInv, TypeOK, Running
  <1>6. ASSUME NEW t \in Tenants, Abandon(t)
        PROVE  IndInv'
    <2>1. Existing' = Existing
      BY <1>6 DEF Abandon, Existing
    <2>2. Pristine' /\ Fresh'
      BY <1>6, <2>1, StatusChanged DEF Abandon
    <2> QED
      BY <1>6, <2>1, <2>2 DEF Abandon, IndInv, TypeOK, Running
  <1>7. ASSUME NEW t \in Tenants, Deprovision(t)
        PROVE  IndInv'
    <2>1. Existing' = Existing
      BY <1>7 DEF Deprovision, Existing, IndInv, TypeOK
    <2>2. Pristine' /\ Fresh'
      BY <1>7, <2>1, StatusChanged DEF Deprovision
    <2>3. commands' \in 0..MaxCommands
      BY <1>7, IsolationAssumption DEF Deprovision, IndInv, TypeOK
    <2> QED
      BY <1>7, <2>1, <2>2, <2>3 DEF Deprovision, IndInv, TypeOK, Running
  <1>8. ASSUME NEW t \in Tenants, CreateTables(t)
        PROVE  IndInv'
    <2>1. Existing' = Existing
      BY <1>8 DEF CreateTables, Existing
    <2>2. grants' \subseteq AllPrivileges /\ Fresh'
      BY <1>8, BesideTheMatrix DEF CreateTables
    <2>3. TypeOK' /\ Running'
      BY <1>8, <2>1, <2>2 DEF CreateTables, IndInv, TypeOK, Running
    <2>4. hands = 0 => t \in healed
      <3> SUFFICES ASSUME hands = 0 PROVE t \in healed
        OBVIOUS
      <3> DEFINE g == OnSchema(t, "recon_engine", t, "reconciliation", "CREATE")
      <3>1. g \in grants /\ g.tenant = t /\ g.kind = "schema"
        BY <1>8, Fields DEF CreateTables, OnSchema
      <3> HIDE DEF g
      <3>2. PICK u \in Existing : \/ g \in Reader(u)
                                  \/ u \in healed /\ (g \in Matrix[u] \/ g \in Owned(u))
        BY <3>1 DEF IndInv, Pristine
      <3>3. u \in Tenants
        BY DEF Existing
      <3> QED
        BY <3>1, <3>2, <3>3, InMatrix, InOwned, InReader
    <2>5. Pristine'
      <3> SUFFICES ASSUME hands = 0, NEW g \in grants'
                   PROVE  \E u \in Existing : \/ g \in Reader(u)
                                              \/ u \in healed /\ (g \in Matrix[u] \/ g \in Owned(u))
        BY <1>8, <2>1 DEF CreateTables, IndInv, Pristine
      <3>1. CASE g \in Owned(t)
        BY <2>4, <3>1 DEF IndInv, TypeOK
      <3>2. CASE g \in grants
        BY <3>2 DEF IndInv, Pristine
      <3> QED
        BY <1>8, <3>1, <3>2 DEF CreateTables
    <2> QED
      BY <2>2, <2>3, <2>5 DEF IndInv
  <1>9. CASE HandGrant
    <2>1. PICK g \in AllPrivileges : OfSubject(g) /\ grants' = grants \union {g}
      BY <1>9 DEF HandGrant
    <2>2. ByHand /\ UNCHANGED <<identity, settings>>
      BY <1>9 DEF HandGrant
    <2>3. g.tenant = subject[1]
      BY <2>1 DEF OfSubject, IndInv, TypeOK
    <2>4. \A h : h.tenant # subject[1] => (h \in grants' <=> h \in grants)
      BY <2>1, <2>3
    <2>5. HandKeeps
      BY <2>2, <2>4, ChangedByHand
    <2>6. TypeOK'
      BY <2>1, <2>2, <2>5 DEF IndInv, TypeOK, ByHand, HandKeeps
    <2> QED
      BY <2>5, <2>6 DEF IndInv, HandKeeps
  <1>10. CASE HandRevoke
    <2>1. PICK g \in grants : OfSubject(g) /\ grants' = grants \ {g}
      BY <1>10 DEF HandRevoke
    <2>2. ByHand /\ UNCHANGED <<identity, settings>>
      BY <1>10 DEF HandRevoke
    <2>3. g.tenant = subject[1]
      BY <2>1 DEF OfSubject, IndInv, TypeOK
    <2>4. \A h : h.tenant # subject[1] => (h \in grants' <=> h \in grants)
      BY <2>1, <2>3
    <2>5. HandKeeps
      BY <2>2, <2>4, ChangedByHand
    <2>6. TypeOK'
      BY <2>1, <2>2, <2>5 DEF IndInv, TypeOK, ByHand, HandKeeps
    <2> QED
      BY <2>5, <2>6 DEF IndInv, HandKeeps
  <1>11. CASE HandSet
    <2>1. ByHand /\ UNCHANGED <<identity, grants>> /\ settings' \subseteq Settings
      BY <1>11 DEF HandSet, IndInv, TypeOK
    <2>2. HandKeeps
      BY <2>1, ChangedByHand
    <2>3. TypeOK'
      BY <2>1, <2>2 DEF IndInv, TypeOK, ByHand, HandKeeps
    <2> QED
      BY <2>2, <2>3 DEF IndInv, HandKeeps
  <1>12. CASE Restore
    <2>1. ByHand /\ UNCHANGED <<grants, settings>>
      BY <1>12 DEF Restore
    <2>2. /\ identity' \in [Tenants -> [Layers -> Tenants \union {None}]]
          /\ \A v \in Existing, m \in Layers : identity'[v][m] \in Tenants
      <3>1. PICK t \in Existing, u \in Existing, l \in Layers :
               identity' = [identity EXCEPT ![t][l] = u]
        BY <1>12 DEF Restore
      <3>2. t \in Tenants /\ u \in Tenants /\ Existing \subseteq Tenants
        BY DEF Existing
      <3> QED
        BY <3>1, <3>2 DEF IndInv, TypeOK
    <2>3. HandKeeps
      BY <2>1, ChangedByHand
    <2>4. TypeOK'
      BY <2>1, <2>2, <2>3 DEF IndInv, TypeOK, ByHand, HandKeeps
    <2> QED
      BY <2>3, <2>4 DEF IndInv, HandKeeps
  <1> QED
    BY <1>1, <1>2, <1>3, <1>4, <1>5, <1>6, <1>7, <1>8, <1>9, <1>10, <1>11, <1>12 DEF Next

LEMMA Inductive == Spec => []IndInv
  BY IndInit, IndNext, PTL DEF Spec

-----------------------------------------------------------------------------
(* The theorems.                                                           *)

\* Whatever the code and people do, the estate is well formed: what is held are
\* privileges a role can have on an object there is.
THEOREM IsolationTypeCorrect == Spec => []TypeOK
  <1>1. IndInv => TypeOK
    BY DEF IndInv
  <1> QED
    BY <1>1, Inductive, PTL

\* A grant of the matrix passes the gate's rules on table grants.
LEMMA MatrixPasses ==
    ASSUME NEW t \in Tenants, NEW g \in Matrix[t], g.kind # "schema"
    PROVE  GrantRule(t, g)
  <1>1. /\ g \in AllPrivileges /\ g.owner = t /\ g.priv \in Allowed(g.layer, g.kind, g.role)
    BY InMatrix
  <1>2. /\ g.role \in Roles /\ g.layer \in Layers
        /\ g.kind \in KindsIn(g.layer) /\ g.priv \in PrivilegesIn(g.layer)
    BY <1>1, PrivilegeParts, IsolationAssumption
  <1>3. CASE g.layer = "bronze"
    BY <1>1, <1>2, <1>3 DEF GrantRule, Allowed, UsageRoles, KindsIn, PrivilegesIn, Writes,
       IsBase, BaseTables, PipelineLayers, Writer, Roles
  <1>4. CASE g.layer = "silver"
    BY <1>1, <1>2, <1>4 DEF GrantRule, Allowed, UsageRoles, KindsIn, PrivilegesIn, Writes,
       IsBase, BaseTables, PipelineLayers, Writer, Roles
  <1>5. CASE g.layer = "gold"
    BY <1>1, <1>2, <1>5 DEF GrantRule, Allowed, UsageRoles, KindsIn, PrivilegesIn, Writes,
       IsBase, BaseTables, PipelineLayers, Writer, Roles
  <1>6. CASE g.layer = "reconciliation"
    BY <1>1, <1>2, <1>6 DEF GrantRule, Allowed, UsageRoles, KindsIn, PrivilegesIn, Writes,
       IsBase, BaseTables, PipelineLayers, Writer, Roles
  <1> QED
    BY <1>2, <1>3, <1>4, <1>5, <1>6 DEF Layers, PipelineLayers

\* So do the tables recon_engine owns, and what the platform lets every role read.
LEMMA RestPasses ==
    ASSUME NEW t \in Tenants, NEW g \in Owned(t) \union Reader(t)
    PROVE  GrantRule(t, g)
  <1>1. CASE g \in Owned(t)
    BY <1>1, InOwned DEF GrantRule, Writes, IsBase, BaseTables
  <1>2. CASE g \in Reader(t)
    BY <1>2, InReader, IsolationAssumption DEF GrantRule, Writes, IsBase, BaseTables
  <1> QED
    BY <1>1, <1>2

\* UntouchedIsClean holds of every estate: what apply_tenant_grants grants and
\* what check_isolation.py looks for disagree only where provisioning has not got
\* to its grants, and there the gate says so.
THEOREM GateAgreesWithMatrix == Spec => []UntouchedIsClean
  <1>1. ASSUME TypeOK, Pristine, Fresh, hands = 0, _tenants \subseteq healed
        PROVE  Clean
    <2>1. /\ settings = {} /\ \A t \in Existing, l \in Layers : identity[t][l] = t
          /\ _tenants \subseteq Existing /\ Existing \subseteq Tenants
      BY <1>1 DEF Pristine, TypeOK, Existing, _tenants
    <2>2. ClusterRules
      BY <2>1 DEF ClusterRules
    <2>3. ASSUME NEW t \in Tenants, NEW g \in grants, g.tenant = t
          PROVE  g \in Matrix[t] \/ g \in Owned(t) \/ g \in Reader(t)
      <3>1. PICK u \in Existing : g \in Matrix[u] \/ g \in Owned(u) \/ g \in Reader(u)
        BY <1>1 DEF Pristine
      <3> QED
        BY <2>1, <2>3, <3>1, InMatrix, InOwned, InReader
    <2>4. ASSUME NEW t \in _tenants, NEW r \in Roles, NEW other \in Tenants, NEW l \in Layers,
                 NEW p \in {"USAGE", "CREATE"}
          PROVE  OnSchema(t, r, other, l, p) \in grants
                    <=> other = t /\ p \in SchemaPrivileges(l, r)
      <3> DEFINE g == OnSchema(t, r, other, l, p)
      <3>0. t \in Tenants /\ Matrix[t] \subseteq grants
        BY <1>1, <2>1 DEF Fresh
      <3>1. /\ g.tenant = t /\ g.role = r /\ g.owner = other /\ g.layer = l
            /\ g.kind = "schema" /\ g.priv = p
        BY Fields DEF OnSchema
      <3>2. g \in AllPrivileges
        BY <3>0, Holdable
      <3> HIDE DEF g
      <3>3. g \in Matrix[t] <=> other = t /\ p \in SchemaPrivileges(l, r)
        BY <3>0, <3>1, <3>2, InMatrix
      <3>4. g \notin Owned(t) /\ g \notin Reader(t)
        BY <3>0, <3>1, InOwned, InReader
      <3>5. g \in grants <=> g \in Matrix[t]
        BY <2>3, <3>0, <3>1, <3>4
      <3> QED
        BY <3>3, <3>5 DEF g
    <2>5. ASSUME NEW t \in _tenants
          PROVE  /\ IdentityRule(t) /\ CreateScopedRule(t) /\ CrossTenantRule(t)
                 /\ TableGrantRules(t) /\ ViewRule(t) /\ PlatformRule(t)
      <3>0. t \in Tenants /\ t \in Existing /\ _tenants \subseteq Tenants
        BY <2>1
      <3>1. IdentityRule(t)
        BY <2>1, <3>0 DEF IdentityRule
      <3>2. CreateScopedRule(t)
        <4>1. "reconciliation" \in Layers
          BY DEF Layers
        <4>2. \A r \in Roles : "CREATE" \in SchemaPrivileges("reconciliation", r) <=> r = "recon_engine"
          BY DEF SchemaPrivileges
        <4> QED
          BY <2>4, <3>0, <4>1, <4>2 DEF CreateScopedRule
      <3>3. CrossTenantRule(t)
        BY <2>4, <3>0 DEF CrossTenantRule
      <3>4. TableGrantRules(t)
        BY <2>3, <3>0, MatrixPasses, RestPasses DEF TableGrantRules
      <3>5. ViewRule(t)
        BY <2>1 DEF ViewRule
      <3>6. PlatformRule(t)
        <4>1. ASSUME NEW g \in grants, g.tenant = t, g.owner = Platform
              PROVE  g.kind # "ref02_category" /\ g.priv = "SELECT"
          <5>1. g \in Reader(t)
            BY <2>3, <3>0, <4>1, InMatrix, InOwned, IsolationAssumption
          <5> QED
            BY <3>0, <5>1, InReader
        <4> QED
          BY <4>1 DEF PlatformRule
      <3> QED
        BY <3>1, <3>2, <3>3, <3>4, <3>5, <3>6
    <2> QED
      BY <2>2, <2>5 DEF Clean
  <1>2. ASSUME Pristine, hands = 0, Clean, NEW t \in _tenants
        PROVE  t \in healed
    <2> DEFINE g == OnSchema(t, "recon_engine", t, "reconciliation", "CREATE")
    <2>1. g \in grants
      BY <1>2 DEF Clean, CreateScopedRule, Roles
    <2>2. g.tenant = t /\ g.kind = "schema"
      BY Fields DEF OnSchema
    <2> HIDE DEF g
    <2>3. PICK u \in Existing : \/ g \in Reader(u)
                                \/ u \in healed /\ (g \in Matrix[u] \/ g \in Owned(u))
      BY <1>2, <2>1 DEF Pristine
    <2>4. u \in Tenants
      BY DEF Existing
    <2> QED
      BY <2>2, <2>3, <2>4, InMatrix, InOwned, InReader
  <1>3. IndInv => UntouchedIsClean
    BY <1>1, <1>2 DEF IndInv, UntouchedIsClean
  <1> QED
    BY <1>3, Inductive, PTL

\* An access the gate lets pass and nobody intended is one the matrix revokes, or
\* a write to reference data that no rule looks at.
LEMMA GateLeavesTheMatrix ==
    ASSUME TypeOK
    PROVE  BlindSpotsHeal
  <1> SUFFICES ASSUME Clean, NEW t \in _tenants, NEW g \in Excess(t), g \notin Unwatched(t)
               PROVE  g \in Revoked(t)
    BY DEF BlindSpotsHeal
  <1>1. /\ t \in Tenants
        /\ g \in grants /\ g \in AllPrivileges /\ g.tenant = t /\ g.kind # "schema"
        /\ g \notin Matrix[t] /\ g \notin Owned(t) /\ g \notin Reader(t)
    BY DEF Excess, Effective, Intended, TypeOK, _tenants
  <1>2. CrossTenantRule(t) /\ TableGrantRules(t) /\ PlatformRule(t)
    BY DEF Clean
  <1>3. g.owner # Platform
    <2> SUFFICES ASSUME g.owner = Platform PROVE FALSE
      OBVIOUS
    <2>1. /\ g.role \in Roles /\ g.layer = "platform_ref" /\ g.priv \in PrivilegesIn("platform_ref")
          /\ g.kind \in KindsIn("platform_ref")
          /\ g = Privilege(g.tenant, g.role, g.owner, g.layer, g.kind, g.priv)
      BY <1>1, PrivilegeParts, IsolationAssumption
    <2>2. /\ g.priv \in {"SELECT", "CHANGE", "TRUNCATE"}
          /\ g.kind \in {"universal_master", "reference", "ref02_category"}
      BY <2>1 DEF PrivilegesIn, KindsIn
    <2>3. g.role = "support" => g.priv = "SELECT"
      BY <1>1, <1>2, <2>2 DEF TableGrantRules, GrantRule, Writes
    <2>4. /\ g.kind \in {"universal_master", "ref02_category"} => g.priv # "CHANGE"
          /\ g.kind = "ref02_category" => g.priv # "SELECT"
      BY <1>1, <1>2 DEF PlatformRule
    <2>5. g.priv = "SELECT" /\ g.kind \in {"universal_master", "reference"}
      BY <1>1, <2>2, <2>3, <2>4 DEF Unwatched
    <2>6. g = Privilege(t, g.role, Platform, "platform_ref", g.kind, "SELECT")
      BY <1>1, <2>1, <2>5
    <2>7. g \in Reader(t)
      BY <2>1, <2>5, <2>6 DEF Reader
    <2> QED
      BY <1>1, <2>7
  <1>4. /\ g.owner \in Tenants /\ g.layer \in Layers /\ g.role \in Roles
        /\ g.kind \in KindsIn(g.layer) /\ g.priv \in PrivilegesIn(g.layer)
        /\ g = Privilege(g.tenant, g.role, g.owner, g.layer, g.kind, g.priv)
    BY <1>1, <1>3, PrivilegeParts
  <1>5. g.owner = t
    <2>1. g.owner \in _tenants /\ OnSchema(t, g.role, g.owner, g.layer, "USAGE") \in grants
      BY <1>1, <1>3 DEF Excess, Effective
    <2> QED
      BY <1>2, <1>4, <2>1 DEF CrossTenantRule
  <1>6. g.layer # "reconciliation"
    <2> SUFFICES ASSUME g.layer = "reconciliation" PROVE FALSE
      OBVIOUS
    <2>1. g.role = "recon_engine" /\ (g.kind = "identity" => g.priv \notin Writes)
      BY <1>1, <1>2, <1>5 DEF TableGrantRules, GrantRule
    <2>2. CASE g.kind = "identity"
      <3>1. g.priv = "SELECT"
        BY <1>4, <2>1, <2>2 DEF PrivilegesIn, Writes
      <3>2. g.priv \in Allowed(g.layer, g.kind, g.role)
        BY <2>1, <2>2, <3>1 DEF Allowed, UsageRoles, BaseTables
      <3> QED
        BY <1>1, <1>5, <3>2, InMatrix
    <2>3. CASE g.kind = "table"
      <3>1. g = Privilege(t, "recon_engine", t, "reconciliation", "table", g.priv)
        BY <1>1, <1>4, <1>5, <2>1, <2>3
      <3>2. g \in Owned(t)
        BY <1>4, <3>1 DEF Owned
      <3> QED
        BY <1>1, <3>2
    <2> QED
      BY <1>4, <2>2, <2>3 DEF KindsIn
  <1>7. g.layer \in PipelineLayers
    BY <1>4, <1>6 DEF Layers
  <1> QED
    BY <1>1, <1>5, <1>7 DEF Revoked

\* BlindSpotsHeal holds of every estate: what gets past the gate without being
\* intended, the next run of apply_tenant_grants takes away, but for writes to
\* reference data, of which it says which ones.
THEOREM BlindSpotsAreRevoked == Spec => []BlindSpotsHeal
  <1>1. IndInv => BlindSpotsHeal
    BY GateLeavesTheMatrix DEF IndInv
  <1> QED
    BY <1>1, Inductive, PTL

\* HealedIsTight holds of every estate: after apply_tenant_grants, a gate that
\* passes means that in the tenants' schemas a live tenant's roles can do what the
\* matrix says, no more and no less, and that the pool's preamble lets the
\* pipeline roles in.
THEOREM TightOnceHealed == Spec => []HealedIsTight
  <1>1. ASSUME TypeOK, Fresh, Clean, NEW t \in _tenants \intersect healed
        PROVE  /\ Excess(t) \subseteq Unwatched(t)
               /\ Matrix[t] \subseteq grants
               /\ \A r \in Roles \ {"recon_engine"} : Preamble(t, r)
    <2>1. t \in Tenants /\ Matrix[t] \subseteq grants /\ Revoked(t) \subseteq Matrix[t]
      BY <1>1 DEF Fresh, _tenants
    <2>2. Excess(t) \subseteq Revoked(t) \union Unwatched(t)
      BY <1>1, GateLeavesTheMatrix DEF BlindSpotsHeal
    <2>3. Excess(t) \subseteq Unwatched(t)
      <3>1. ASSUME NEW g \in Excess(t), g \notin Unwatched(t) PROVE FALSE
        <4>1. g \in Matrix[t]
          BY <2>1, <2>2, <3>1
        <4>2. g \notin Matrix[t]
          BY <2>1, <3>1 DEF Excess, Intended
        <4> QED
          BY <4>1, <4>2
      <3> QED
        BY <3>1
    <2>4. ASSUME NEW r \in Roles \ {"recon_engine"}
          PROVE  Preamble(t, r)
      <3>1. "silver" \in Layers /\ "identity" \in KindsIn("silver")
            /\ "SELECT" \in PrivilegesIn("silver")
        BY DEF Layers, PipelineLayers, KindsIn, PrivilegesIn
      <3>2. Privilege(t, r, t, "silver", "identity", "SELECT") \in Matrix[t]
        <4>1. "SELECT" \in Allowed("silver", "identity", r)
          BY DEF Allowed, UsageRoles, BaseTables
        <4>2. Privilege(t, r, t, "silver", "identity", "SELECT") \in AllPrivileges
          BY <2>1, <3>1, Holdable
        <4> QED
          BY <2>1, <4>1, <4>2, Fields, InMatrix
      <3>3. OnSchema(t, r, t, "silver", "USAGE") \in Matrix[t]
        <4>1. "USAGE" \in SchemaPrivileges("silver", r)
          BY DEF SchemaPrivileges, UsageRoles
        <4>2. OnSchema(t, r, t, "silver", "USAGE") \in AllPrivileges
          BY <2>1, <3>1, Holdable
        <4> QED
          BY <2>1, <4>1, <4>2, Fields, InMatrix DEF OnSchema
      <3>4. identity[t]["silver"] = t
        BY <1>1, <3>1 DEF Clean, IdentityRule
      <3> QED
        BY <2>1, <3>2, <3>3, <3>4 DEF Preamble
    <2> QED
      BY <2>1, <2>3, <2>4
  <1>2. IndInv => HealedIsTight
    BY <1>1 DEF IndInv, HealedIsTight
  <1> QED
    BY <1>2, Inductive, PTL

=============================================================================
