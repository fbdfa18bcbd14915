---------------------------- MODULE TenancyProofs ----------------------------
(***************************************************************************)
(* Proofs about Tenancy: for every set of tenants and operators and every  *)
(* number of releases, commands that overlap, crash and are run again      *)
(* leave each tenant's chain in order, and a tenant its pool can reach     *)
(* whole.                                                                  *)
(***************************************************************************)
EXTENDS Tenancy, TLAPS

-----------------------------------------------------------------------------
(* The inductive invariant, in parts.                                      *)

Tearing == {"mark", "bronze", "silver", "gold", "reconciliation",
            "ingest", "recon", "support", "recon_engine", "row"}

\* Where a command is says which of its threads run: none outside the chains,
\* only the tenant's own while it is provisioned, no tenant's before the shared
\* chain is done.  A command that has ended left none running.
PhaseOK(o) ==
    /\ pc[o] \in {"bucket", "lock", "schemas", "apply"} \union Tearing => cmd[o].tenant \in Tenants
    /\ pc[o] # "idle" => result[o] = "none"
    /\ pc[o] = "idle" => \A s \in Scopes : work[o][s].at \in {"off", "ok"}
    /\ pc[o] \in {"bucket", "lock", "schemas"} \union Tearing =>
          \A s \in Scopes : work[o][s].at = "off"
    /\ pc[o] = "apply" => \A s \in Scopes : s # cmd[o].tenant => work[o][s].at = "off"
    /\ pc[o] = "shared" => \A t \in Tenants : work[o][t].at = "off"
    /\ pc[o] = "fanout" => work[o][Shared].at = "ok"
    /\ pc[o] \in Roles \union {"row"} => cmd[o].tenant \in tornDown
Phases == \A o \in Operators : PhaseOK(o)

\* A runner in its chain: what it saw applied still is, and every file behind
\* it is applied with the body of its own checkout.  A runner that is done left
\* the tenant granted.
WorkOK(o, s) ==
    /\ work[o][s].at = "file" =>
          /\ work[o][s].pos >= 1
          /\ \A f \in Files : work[o][s].seen[f] # None => applied[s][f] = work[o][s].seen[f]
          /\ \A i \in DOMAIN Chain(s, cmd[o].release) : i < work[o][s].pos =>
                applied[s][Chain(s, cmd[o].release)[i]] = Body(o, Chain(s, cmd[o].release)[i])
    /\ work[o][s].at = "ok" =>
          /\ \A i \in DOMAIN Chain(s, cmd[o].release) :
                /\ applied[s][Chain(s, cmd[o].release)[i]] = Body(o, Chain(s, cmd[o].release)[i])
                /\ s \in Tenants => Chain(s, cmd[o].release)[i] \in granted[s]
          /\ s \in Tenants => roles[s] = Roles /\ schemas[s] = Layers /\ guarded[s]
Runners == \A o \in Operators, s \in Scopes \ tornDown : WorkOK(o, s)

\* A version row is written with the objects of its migration.
Backed ==
    \A t \in Tenants \ tornDown, f \in Files : applied[t][f] # None => f \in objects[t]

\* A tenant whose grants were made had a whole release to grant on.
GuardedIsWhole ==
    \A t \in Tenants \ tornDown : guarded[t] => \E r \in 1..Releases : Whole(t, r)

\* The bucket comes before everything else.
Buckets ==
    HasStore =>
        /\ \A t \in Tenants : registry[t] # None \/ guarded[t] => bucket[t] # "none"
        /\ \A o \in Operators : pc[o] \in {"lock", "schemas", "apply"} =>
              bucket[cmd[o].tenant] # "none"
        /\ \A o \in Operators, t \in Tenants : work[o][t].at # "off" => bucket[t] # "none"

IndInv ==
    /\ TypeOK
    /\ Phases
    /\ Runners
    /\ Backed
    /\ GuardedIsWhole
    /\ ChainInOrder
    /\ Buckets
    /\ ActiveIsReachable

-----------------------------------------------------------------------------
(* Facts about chains, the order of a teardown, and the records.           *)

WorkRecords ==
    [at : {"off", "read", "file", "ok", "error"}, pos : 0..(Ext + 1),
     seen : [Files -> Bodies \union {None}]]

LEMMA ChainFacts ==
    ASSUME NEW s \in Scopes, NEW r \in 1..Releases
    PROVE  /\ DOMAIN Chain(s, r) = 1..Len(Chain(s, r))
           /\ Len(Chain(s, r)) \in 1..Ext
           /\ \A i \in DOMAIN Chain(s, r) : Chain(s, r)[i] \in Files
           /\ \A i \in DOMAIN Chain(s, r) : Chain(s, r)[i] = IF i <= r THEN i ELSE Ext
           /\ \A i \in DOMAIN Chain(s, r) : i > r => i = r + 1
           /\ \A i \in 1..r : i \in DOMAIN Chain(s, r)
  <1> DEFINE n == IF s = Shared THEN r ELSE r + 1
  <1>0. Releases \in Nat /\ Releases >= 1 /\ Ext = Releases + 1 /\ Files = 1..(Releases + 1)
    BY TenancyAssumption DEF Ext, Files
  <1>1. n \in Nat /\ n >= 1 /\ n <= r + 1 /\ n >= r
    BY <1>0
  <1>2. Chain(s, r) = [i \in 1..n |-> IF i <= r THEN i ELSE Ext]
    BY DEF Chain
  <1> HIDE DEF n
  <1>3. \A i \in 1..n : (IF i <= r THEN i ELSE Ext) \in Files
    BY <1>0, <1>1
  <1>4. Chain(s, r) \in [1..n -> Files]
    BY <1>2, <1>3
  <1>5. DOMAIN Chain(s, r) = 1..n /\ Len(Chain(s, r)) = n
    BY <1>1, <1>4
  <1>6. \A i \in 1..n : Chain(s, r)[i] = IF i <= r THEN i ELSE Ext
    BY <1>2
  <1> QED
    BY <1>0, <1>1, <1>3, <1>5, <1>6

LEMMA FollowingFacts ==
    /\ Range(Teardown) = Tearing
    /\ Following("mark") = "bronze"
    /\ \A l \in Layers : Following(l) \in (Layers \ {"bronze"}) \union Roles
    /\ \A r \in Roles : Following(r) \in Roles \union {"row"}
  <1>1. DOMAIN Teardown = 1..10
    BY DEF Teardown
  <1>2. /\ Teardown[1] = "mark" /\ Teardown[2] = "bronze" /\ Teardown[3] = "silver"
        /\ Teardown[4] = "gold" /\ Teardown[5] = "reconciliation" /\ Teardown[6] = "ingest"
        /\ Teardown[7] = "recon" /\ Teardown[8] = "support" /\ Teardown[9] = "recon_engine"
        /\ Teardown[10] = "row"
    BY DEF Teardown
  <1> DEFINE At(item) == CHOOSE i \in DOMAIN Teardown : Teardown[i] = item
  <1>3. \A i \in DOMAIN Teardown : i = 1 \/ i = 2 \/ i = 3 \/ i = 4 \/ i = 5 \/ i = 6 \/ i = 7
                                   \/ i = 8 \/ i = 9 \/ i = 10
    BY <1>1
  <1>4. \A item : Following(item) = Teardown[1 + At(item)]
    BY DEF Following
  <1>5. \A item \in Tearing : At(item) \in DOMAIN Teardown /\ Teardown[At(item)] = item
    <2> SUFFICES ASSUME NEW item \in Tearing PROVE \E i \in DOMAIN Teardown : Teardown[i] = item
      OBVIOUS
    <2> QED
      BY <1>1, <1>2 DEF Tearing
  <1> HIDE DEF At
  <1>6. /\ At("mark") = 1 /\ At("bronze") = 2 /\ At("silver") = 3 /\ At("gold") = 4
        /\ At("reconciliation") = 5 /\ At("ingest") = 6 /\ At("recon") = 7
        /\ At("support") = 8 /\ At("recon_engine") = 9
    BY <1>2, <1>3, <1>5 DEF Tearing
  <1>7. Range(Teardown) = Tearing
    <2>1. Range(Teardown) \subseteq Tearing
      BY <1>2, <1>3 DEF Range, Tearing
    <2>2. Tearing \subseteq Range(Teardown)
      BY <1>5 DEF Range
    <2> QED
      BY <2>1, <2>2
  <1>8. Following("mark") = "bronze"
    BY <1>2, <1>4, <1>6
  <1>9. \A l \in Layers : Following(l) \in (Layers \ {"bronze"}) \union Roles
    BY <1>2, <1>4, <1>6 DEF Layers, Roles
  <1>10. \A r \in Roles : Following(r) \in Roles \union {"row"}
    BY <1>2, <1>4, <1>6 DEF Roles
  <1> QED
    BY <1>7, <1>8, <1>9, <1>10

\* The types, function by function.
LEMMA Types ==
    ASSUME TypeOK, NEW o \in Operators, NEW s \in Scopes
    PROVE  /\ work[o] \in [Scopes -> WorkRecords] /\ work[o][s] \in WorkRecords
           /\ work[o][s].at \in {"off", "read", "file", "ok", "error"}
           /\ work[o][s].pos \in 0..(Ext + 1)
           /\ work[o][s].seen \in [Files -> Bodies \union {None}]
           /\ cmd[o] \in Commands /\ cmd[o].release \in 1..Releases
           /\ applied[s] \in [Files -> Bodies \union {None}]
           /\ \A f \in Files : Body(o, f) \in Bodies
           /\ None \notin Bodies
  <1>1. work \in [Operators -> [Scopes -> WorkRecords]]
    BY DEF TypeOK, WorkRecords
  <1>2. work[o] \in [Scopes -> WorkRecords] /\ work[o][s] \in WorkRecords
    BY <1>1
  <1>3. /\ work[o][s].at \in {"off", "read", "file", "ok", "error"}
        /\ work[o][s].pos \in 0..(Ext + 1)
        /\ work[o][s].seen \in [Files -> Bodies \union {None}]
    BY <1>2 DEF WorkRecords
  <1>4. cmd[o] \in Commands
    BY DEF TypeOK
  <1>5. cmd[o].release \in 1..Releases
    BY <1>4 DEF Commands
  <1>6. applied[s] \in [Files -> Bodies \union {None}]
    BY DEF TypeOK
  <1>7. \A f \in Files : Body(o, f) \in Bodies
    BY DEF Body, Bodies
  <1>8. None \notin Bodies
    BY TenancyAssumption DEF Bodies
  <1> QED
    BY <1>2, <1>3, <1>4, <1>5, <1>6, <1>7, <1>8

LEMMA NoWorkType ==
    /\ NoWork \in WorkRecords /\ NoWork.at = "off"
    /\ StartWork \in WorkRecords /\ StartWork.at = "read"
    /\ \A how \in {"ok", "error"} :
          /\ [NoWork EXCEPT !.at = how] \in WorkRecords
          /\ [NoWork EXCEPT !.at = how].at = how
  <1>0. 0 \in 0..(Ext + 1)
    BY TenancyAssumption DEF Ext
  <1>1. [f \in Files |-> None] \in [Files -> Bodies \union {None}]
    OBVIOUS
  <1>2. ASSUME NEW how \in {"off", "read", "ok", "error"}
        PROVE  /\ [NoWork EXCEPT !.at = how]
                     = [at |-> how, pos |-> 0, seen |-> [f \in Files |-> None]]
               /\ [at |-> how, pos |-> 0, seen |-> [f \in Files |-> None]] \in WorkRecords
    BY <1>0, <1>1 DEF NoWork, WorkRecords
  <1>3. NoWork \in WorkRecords /\ NoWork.at = "off"
    BY <1>0, <1>1 DEF NoWork, WorkRecords
  <1> QED
    BY <1>2, <1>3 DEF StartWork

\* One thread's record changes.
LEMMA WorkAt ==
    ASSUME TypeOK, NEW o \in Operators, NEW s \in Scopes, NEW w \in WorkRecords, Working(o, s, w)
    PROVE  /\ work' \in [Operators -> [Scopes -> WorkRecords]]
           /\ work'[o][s] = w
           /\ \A u \in Scopes : u # s => work'[o][u] = work[o][u]
           /\ \A p \in Operators : p # o => work'[p] = work[p]
  <1>1. work \in [Operators -> [Scopes -> WorkRecords]]
    BY DEF TypeOK, WorkRecords
  <1>2. work' = [work EXCEPT ![o] = [work[o] EXCEPT ![s] = w]]
    BY DEF Working
  <1> HIDE DEF WorkRecords
  <1>3. [work[o] EXCEPT ![s] = w] \in [Scopes -> WorkRecords]
    BY <1>1
  <1> QED
    BY <1>1, <1>2, <1>3

\* All threads of one process change.
LEMMA WorkAll ==
    ASSUME TypeOK, NEW o \in Operators, NEW ws \in [Scopes -> WorkRecords],
           work' = [work EXCEPT ![o] = ws]
    PROVE  /\ work' \in [Operators -> [Scopes -> WorkRecords]]
           /\ work'[o] = ws
           /\ \A p \in Operators : p # o => work'[p] = work[p]
  <1>1. work \in [Operators -> [Scopes -> WorkRecords]]
    BY DEF TypeOK, WorkRecords
  <1> HIDE DEF WorkRecords
  <1> QED
    BY <1>1

-----------------------------------------------------------------------------
(* What every step keeps: the estate only grows, except under a teardown,  *)
(* and one process does not touch the threads of another.                  *)

Grows ==
    /\ tornDown \subseteq tornDown'
    /\ \A s \in Scopes \ tornDown', f \in Files :
          applied[s][f] # None => applied'[s][f] = applied[s][f]
    /\ \A t \in Tenants \ tornDown' :
          /\ \A f \in Files : applied[t][f] # None /\ f \in granted[t] => f \in granted'[t]
          /\ \A f \in Files : f \in objects[t] => f \in objects'[t]
          /\ roles[t] = Roles => roles'[t] = Roles
          /\ schemas[t] = Layers => schemas'[t] = Layers
          /\ guarded[t] => guarded'[t]

Elsewhere(o) ==
    \A p \in Operators : p # o =>
        /\ pc'[p] = pc[p] /\ cmd'[p] = cmd[p]
        /\ work'[p] = work[p] /\ result'[p] = result[p]

Data == Backed /\ GuardedIsWhole /\ ChainInOrder

\* Nothing of the chains or the grants changes.
LEMMA SameData ==
    ASSUME IndInv, UNCHANGED <<applied, objects, granted, guarded, tornDown>>,
           \A t \in Tenants \ tornDown :
              /\ roles[t] = Roles => roles'[t] = Roles
              /\ schemas[t] = Layers => schemas'[t] = Layers
    PROVE  Grows /\ Data'
  <1>1. Grows
    BY DEF Grows
  <1>2. Backed' /\ ChainInOrder'
    BY DEF IndInv, Backed, ChainInOrder
  <1>3. GuardedIsWhole'
    BY DEF IndInv, GuardedIsWhole, Whole, Chain
  <1> QED
    BY <1>1, <1>2, <1>3 DEF Data

\* A thread that no step of this one touches.
LEMMA ThreadFrame ==
    ASSUME IndInv, Grows, NEW o \in Operators, NEW s \in Scopes \ tornDown',
           work'[o][s] = work[o][s], cmd'[o] = cmd[o]
    PROVE  WorkOK(o, s)'
  <1> DEFINE c == Chain(s, cmd[o].release)
  <1>1. WorkOK(o, s) /\ s \notin tornDown
    BY DEF IndInv, Runners, Grows
  <1>2. \A i \in DOMAIN c : c[i] \in Files
    BY ChainFacts, Types DEF IndInv
  <1>3. c' = c /\ \A f : Body(o, f)' = Body(o, f)
    BY DEF Chain, Body
  <1>4. \A f \in Files : applied[s][f] # None => applied'[s][f] = applied[s][f]
    BY DEF Grows
  <1>5. \A f \in Files : Body(o, f) # None
    BY Types DEF IndInv
  <1> HIDE DEF c
  <1>6. ASSUME work[o][s].at = "file"
        PROVE  /\ work[o][s].pos >= 1
               /\ \A f \in Files : work[o][s].seen[f] # None => applied'[s][f] = work[o][s].seen[f]
               /\ \A i \in DOMAIN c : i < work[o][s].pos => applied'[s][c[i]] = Body(o, c[i])
    BY <1>1, <1>2, <1>4, <1>5, <1>6 DEF WorkOK, c
  <1>7. ASSUME work[o][s].at = "ok"
        PROVE  /\ \A i \in DOMAIN c : applied'[s][c[i]] = Body(o, c[i])
               /\ s \in Tenants => /\ \A i \in DOMAIN c : c[i] \in granted'[s]
                                   /\ roles'[s] = Roles /\ schemas'[s] = Layers /\ guarded'[s]
    <2>1. \A i \in DOMAIN c : /\ applied[s][c[i]] = Body(o, c[i])
                              /\ s \in Tenants => c[i] \in granted[s]
      BY <1>1, <1>7 DEF WorkOK, c
    <2>2. s \in Tenants => roles[s] = Roles /\ schemas[s] = Layers /\ guarded[s]
      BY <1>1, <1>7 DEF WorkOK
    <2> QED
      BY <1>2, <1>4, <1>5, <2>1, <2>2 DEF Grows
  <1> QED
    BY <1>3, <1>6, <1>7 DEF WorkOK, c

\* The other processes.
LEMMA Others ==
    ASSUME IndInv, Grows, NEW o \in Operators, Elsewhere(o), NEW p \in Operators, p # o
    PROVE  PhaseOK(p)' /\ \A s \in Scopes \ tornDown' : WorkOK(p, s)'
  <1>1. PhaseOK(p)'
    BY DEF IndInv, Phases, PhaseOK, Grows, Elsewhere
  <1>2. \A s \in Scopes \ tornDown' : WorkOK(p, s)'
    BY ThreadFrame DEF Elsewhere
  <1> QED
    BY <1>1, <1>2

\* What remains to be shown of a step of process o.
LEMMA Assemble ==
    ASSUME IndInv, NEW o \in Operators, TypeOK', Grows, Data', Elsewhere(o), PhaseOK(o)',
           \A s \in Scopes \ tornDown' : WorkOK(o, s)', Buckets', ActiveIsReachable'
    PROVE  IndInv'
  <1>1. Phases' /\ Runners'
    BY Others DEF Phases, Runners
  <1> QED
    BY <1>1 DEF IndInv, Data

\* The registry, the roles and the schemas are as they were, or more of them.
LEMMA SameReachable ==
    ASSUME IndInv, Grows,
           \A t \in Tenants \ tornDown' : registry'[t] = "ACTIVE" =>
              \/ registry[t] = "ACTIVE"
              \/ roles[t] = Roles /\ schemas[t] = Layers /\ guarded[t],
           \A t \in Tenants \ tornDown' : schemas'[t] = schemas[t] \/ schemas'[t] = Layers
    PROVE  ActiveIsReachable'
  <1>1. "silver" \in Layers
    BY DEF Layers
  <1>2. ASSUME NEW t \in Tenants \ tornDown', registry'[t] = "ACTIVE"
        PROVE  roles'[t] = Roles /\ "silver" \in schemas'[t] /\ guarded'[t]
    <2>1. roles[t] = Roles /\ "silver" \in schemas[t] /\ guarded[t]
      BY <1>1, <1>2 DEF IndInv, ActiveIsReachable, Reachable, Grows
    <2> QED
      BY <1>1, <1>2, <2>1 DEF Grows
  <1> QED
    BY <1>2 DEF ActiveIsReachable, Reachable

-----------------------------------------------------------------------------
(* The steps of a thread: apply_tenant and apply_shared.                   *)

LEMMA ThreadStep ==
    ASSUME IndInv, NEW o \in Operators, NEW s \in Scopes, NEW w \in WorkRecords,
           work[o][s].at \in {"read", "file"}, w.at \in {"file", "error", "ok"},
           Working(o, s, w), UNCHANGED <<pc, cmd, result, tornDown>>
    PROVE  /\ Elsewhere(o) /\ PhaseOK(o)'
           /\ work' \in [Operators -> [Scopes -> WorkRecords]]
           /\ work'[o][s] = w
           /\ \A u \in Scopes : u # s => work'[o][u] = work[o][u]
           /\ \A p \in Operators, t \in Tenants : work'[p][t].at # "off" => work[p][t].at # "off"
  <1>1. /\ work' \in [Operators -> [Scopes -> WorkRecords]]
        /\ work'[o][s] = w
        /\ \A u \in Scopes : u # s => work'[o][u] = work[o][u]
        /\ \A p \in Operators : p # o => work'[p] = work[p]
    BY WorkAt DEF IndInv
  <1>2. Elsewhere(o)
    BY <1>1 DEF Elsewhere
  <1>3. PhaseOK(o)
    BY DEF IndInv, Phases
  <1>4. /\ pc[o] # "idle" /\ pc[o] \notin {"bucket", "lock", "schemas"} \union Tearing
        /\ pc[o] = "apply" => s = cmd[o].tenant
        /\ pc[o] = "shared" => s = Shared
        /\ pc[o] = "fanout" => s # Shared
    BY <1>3 DEF PhaseOK, Scopes
  <1>5. pc[o] \notin Roles \union {"row"}
    BY <1>4 DEF Roles, Tearing
  <1>6. PhaseOK(o)'
    <2>1. pc[o] = "apply" => cmd[o].tenant \in Tenants /\ result[o] = "none"
      BY <1>3 DEF PhaseOK
    <2>2. pc[o] = "apply" => \A u \in Scopes : u # cmd[o].tenant => work'[o][u].at = "off"
      BY <1>1, <1>3, <1>4 DEF PhaseOK
    <2>3. pc[o] = "shared" => \A t \in Tenants : work'[o][t].at = "off"
      BY <1>1, <1>3, <1>4, TenancyAssumption DEF PhaseOK, Scopes
    <2>4. pc[o] = "fanout" => work'[o][Shared].at = "ok"
      BY <1>1, <1>3, <1>4 DEF PhaseOK, Scopes
    <2>5. result[o] = "none"
      BY <1>3, <1>4 DEF PhaseOK
    <2> QED
      BY <1>4, <1>5, <2>1, <2>2, <2>3, <2>4, <2>5 DEF PhaseOK
  <1>7. \A p \in Operators, t \in Tenants : work'[p][t].at # "off" => work[p][t].at # "off"
    BY <1>1 DEF Scopes
  <1> QED
    BY <1>1, <1>2, <1>6, <1>7

\* A step of a thread that only looks.
LEMMA KeepsLooking ==
    ASSUME IndInv, NEW o \in Operators, NEW s \in Scopes, NEW w \in WorkRecords,
           work[o][s].at \in {"read", "file"}, w.at \in {"file", "error", "ok"},
           Working(o, s, w), s \notin tornDown => WorkOK(o, s)',
           UNCHANGED <<estate, pc, cmd, result, runs, tornDown>>
    PROVE  IndInv'
  <1>1. /\ Elsewhere(o) /\ PhaseOK(o)'
        /\ work' \in [Operators -> [Scopes -> WorkRecords]]
        /\ \A u \in Scopes : u # s => work'[o][u] = work[o][u]
        /\ \A p \in Operators, t \in Tenants : work'[p][t].at # "off" => work[p][t].at # "off"
    BY ThreadStep
  <1>2. /\ bucket' = bucket /\ registry' = registry /\ schemas' = schemas /\ roles' = roles
        /\ applied' = applied /\ objects' = objects /\ granted' = granted
        /\ guarded' = guarded
    BY DEF estate
  <1>3. Grows /\ Data'
    BY <1>2, SameData
  <1>4. TypeOK'
    BY <1>1, <1>2 DEF IndInv, TypeOK, WorkRecords
  <1>5. \A u \in Scopes \ tornDown' : WorkOK(o, u)'
    BY <1>1, <1>3, ThreadFrame
  <1>6. Buckets'
    BY <1>1, <1>2 DEF IndInv, Buckets
  <1>7. ActiveIsReachable'
    BY <1>2 DEF IndInv, ActiveIsReachable, Reachable
  <1> QED
    BY <1>1, <1>3, <1>4, <1>5, <1>6, <1>7, Assemble

LEMMA KeepsReadApplied ==
    ASSUME IndInv, NEW o \in Operators, NEW s \in Scopes, ReadApplied(o, s)
    PROVE  IndInv'
  <1>1. /\ work[o][s].at = "read"
        /\ UNCHANGED <<estate, pc, cmd, result, runs, tornDown>>
    BY DEF ReadApplied
  <1>2. CASE s = Shared \/ "silver" \in schemas[s]
    <2> DEFINE w == [at |-> "file", pos |-> 1, seen |-> applied[s]]
    <2>1. Working(o, s, w)
      BY <1>2 DEF ReadApplied
    <2>2. w \in WorkRecords /\ w.at = "file" /\ w.pos = 1 /\ w.seen = applied[s]
      <3>1. applied[s] \in [Files -> Bodies \union {None}] /\ 1 \in 0..(Ext + 1)
        BY Types, TenancyAssumption DEF IndInv, Ext
      <3> QED
        BY <3>1 DEF WorkRecords
    <2> HIDE DEF w
    <2>3. WorkOK(o, s)'
      <3>1. work'[o][s] = w
        BY <2>1, <2>2, WorkAt DEF IndInv
      <3>2. \A i \in DOMAIN Chain(s, cmd[o].release) : ~(i < 1)
        BY ChainFacts, Types DEF IndInv
      <3>3. applied' = applied /\ cmd' = cmd
        BY <1>1 DEF estate
      <3>4. Chain(s, cmd[o].release)' = Chain(s, cmd[o].release)
        BY <3>3 DEF Chain
      <3> QED
        BY <2>2, <3>1, <3>2, <3>3, <3>4 DEF WorkOK
    <2> QED
      BY <1>1, <2>1, <2>2, <2>3, KeepsLooking
  <1>3. CASE ~(s = Shared \/ "silver" \in schemas[s])
    <2>1. Working(o, s, [NoWork EXCEPT !.at = "error"])
      BY <1>3 DEF ReadApplied
    <2>2. PICK w \in WorkRecords : w = [NoWork EXCEPT !.at = "error"] /\ w.at = "error"
      BY NoWorkType
    <2>3. Working(o, s, w)
      BY <2>1, <2>2
    <2>4. WorkOK(o, s)'
      BY <2>2, <2>3, WorkAt DEF IndInv, WorkOK
    <2> QED
      BY <1>1, <2>2, <2>3, <2>4, KeepsLooking
  <1> QED
    BY <1>2, <1>3

\* A thread gives up.
LEMMA KeepsOver ==
    ASSUME IndInv, NEW o \in Operators, NEW s \in Scopes, work[o][s].at \in {"read", "file"},
           Over(o, s, "error"), UNCHANGED <<estate, pc, cmd, result, runs, tornDown>>
    PROVE  IndInv'
  <1>1. PICK w \in WorkRecords : w = [NoWork EXCEPT !.at = "error"] /\ w.at = "error"
    BY NoWorkType
  <1>2. Working(o, s, w)
    BY <1>1 DEF Over, Working
  <1>3. WorkOK(o, s)'
    BY <1>1, <1>2, WorkAt DEF IndInv, WorkOK
  <1> QED
    BY <1>1, <1>2, <1>3, KeepsLooking

\* What Advance does to the record of the thread.
LEMMA Advanced ==
    ASSUME IndInv, NEW o \in Operators, NEW s \in Scopes, Pending(o, s)
    PROVE  \E w \in WorkRecords :
              /\ w = [work[o][s] EXCEPT !.pos = @ + 1]
              /\ w.at = "file" /\ w.pos = work[o][s].pos + 1 /\ w.seen = work[o][s].seen
  <1> DEFINE v == work[o][s]
             w == [v EXCEPT !.pos = v.pos + 1]
  <1>1. v \in WorkRecords /\ v.at = "file"
    BY Types DEF IndInv, Pending
  <1>2. PICK r \in 1..Releases : r = cmd[o].release
    BY Types DEF IndInv
  <1>3. v.pos \in DOMAIN Chain(s, r)
    BY <1>2 DEF Pending
  <1>4. Ext \in Nat
    BY TenancyAssumption DEF Ext
  <1>5. v.pos \in 1..Ext
    BY <1>3, <1>4, ChainFacts
  <1> HIDE DEF v
  <1>6. v.pos + 1 \in 0..(Ext + 1)
    BY <1>4, <1>5
  <1>7. w.at = "file" /\ w.pos = v.pos + 1 /\ w.seen = v.seen /\ w \in WorkRecords
    BY <1>1, <1>6 DEF WorkRecords
  <1> QED
    BY <1>7 DEF v

LEMMA KeepsVerify ==
    ASSUME IndInv, NEW o \in Operators, NEW s \in Scopes, Verify(o, s)
    PROVE  IndInv'
  <1> DEFINE c == Chain(s, cmd[o].release)
             f == Due(o, s)
  <1>1. /\ Pending(o, s) /\ work[o][s].seen[f] # None
        /\ UNCHANGED <<estate, pc, cmd, result, runs, tornDown>>
    BY DEF Verify
  <1>2. work[o][s].at = "file" /\ work[o][s].pos \in DOMAIN c /\ f = c[work[o][s].pos]
    BY <1>1 DEF Pending, Due
  <1>3. CASE work[o][s].seen[f] = Body(o, f)
    <2>1. Advance(o, s)
      BY <1>3 DEF Verify
    <2>2. PICK w \in WorkRecords :
              /\ w = [work[o][s] EXCEPT !.pos = @ + 1]
              /\ w.at = "file" /\ w.pos = work[o][s].pos + 1 /\ w.seen = work[o][s].seen
      BY <1>1, Advanced
    <2>3. Working(o, s, w)
      BY <2>1, <2>2 DEF Advance
    <2>4. ASSUME s \notin tornDown PROVE WorkOK(o, s)'
      <3>1. work'[o][s] = w
        BY <2>3, WorkAt DEF IndInv
      <3>2. applied' = applied /\ cmd' = cmd
        BY <1>1 DEF estate
      <3>3. c' = c /\ \A g : Body(o, g)' = Body(o, g)
        BY <3>2 DEF Chain, Body
      <3>4. WorkOK(o, s)
        BY <2>4 DEF IndInv, Runners
      <3>5. \A i \in DOMAIN c : i \in Nat /\ c[i] \in Files
        BY ChainFacts, Types DEF IndInv
      <3>6. applied[s][f] = Body(o, f)
        BY <1>1, <1>2, <1>3, <3>4, <3>5 DEF WorkOK
      <3>7. \A i \in DOMAIN c : i < work[o][s].pos + 1 => applied[s][c[i]] = Body(o, c[i])
        BY <1>2, <3>4, <3>5, <3>6 DEF WorkOK
      <3>8. /\ work[o][s].pos + 1 >= 1
            /\ \A g \in Files : work[o][s].seen[g] # None => applied[s][g] = work[o][s].seen[g]
        BY <1>2, <3>4, <3>5 DEF WorkOK
      <3> HIDE DEF f
      <3> QED
        BY <2>2, <3>1, <3>2, <3>3, <3>7, <3>8 DEF WorkOK
    <2> QED
      BY <1>1, <1>2, <2>2, <2>3, <2>4, KeepsLooking
  <1>4. CASE work[o][s].seen[f] # Body(o, f)
    <2>1. Over(o, s, "error")
      BY <1>4 DEF Verify
    <2> QED
      BY <1>1, <1>2, <2>1, KeepsOver
  <1> QED
    BY <1>3, <1>4

LEMMA KeepsSharedDone ==
    ASSUME IndInv, NEW o \in Operators, SharedDone(o)
    PROVE  IndInv'
  <1>1. /\ work[o][Shared].at = "file" /\ work[o][Shared].pos > Len(Chain(Shared, cmd[o].release))
        /\ Over(o, Shared, "ok") /\ UNCHANGED <<estate, pc, cmd, result, runs, tornDown>>
    BY DEF SharedDone
  <1>2. PICK w \in WorkRecords : w = [NoWork EXCEPT !.at = "ok"] /\ w.at = "ok"
    BY NoWorkType
  <1>3. Working(o, Shared, w) /\ Shared \in Scopes
    BY <1>1, <1>2 DEF Over, Working, Scopes
  <1>4. ASSUME Shared \notin tornDown PROVE WorkOK(o, Shared)'
    <2> DEFINE c == Chain(Shared, cmd[o].release)
    <2>1. work'[o][Shared] = w
      BY <1>3, WorkAt DEF IndInv
    <2>2. applied' = applied /\ cmd' = cmd
      BY <1>1 DEF estate
    <2>3. c' = c /\ \A g : Body(o, g)' = Body(o, g)
      BY <2>2 DEF Chain, Body
    <2>4. WorkOK(o, Shared)
      BY <1>3, <1>4 DEF IndInv, Runners
    <2>5. work[o][Shared].pos \in Nat
      BY <1>3, Types, TenancyAssumption DEF IndInv, Ext
    <2>6. \A i \in DOMAIN c : i < work[o][Shared].pos
      BY <1>1, <1>3, <2>5, ChainFacts, Types DEF IndInv
    <2>7. \A i \in DOMAIN c : applied[Shared][c[i]] = Body(o, c[i])
      BY <1>1, <2>4, <2>6 DEF WorkOK
    <2> QED
      BY <1>2, <2>1, <2>2, <2>3, <2>7, TenancyAssumption DEF WorkOK
  <1> QED
    BY <1>1, <1>2, <1>3, <1>4, KeepsLooking

\* A tenant that held a whole release goes on holding it.
LEMMA WholeGrows ==
    ASSUME IndInv, Grows, NEW t \in Tenants \ tornDown', NEW r \in 1..Releases, Whole(t, r)
    PROVE  Whole(t, r)'
  <1> DEFINE c == Chain(t, r)
  <1>1. \A i \in DOMAIN c : c[i] \in Files
    BY ChainFacts DEF Scopes
  <1>2. \A i \in DOMAIN c : applied[t][c[i]] # None /\ c[i] \in objects[t] /\ c[i] \in granted[t]
    BY DEF Whole
  <1>3. c' = c
    BY DEF Chain
  <1> HIDE DEF c
  <1>4. \A i \in DOMAIN c : applied'[t][c[i]] # None /\ c[i] \in objects'[t] /\ c[i] \in granted'[t]
    BY <1>1, <1>2 DEF Grows, Scopes
  <1> QED
    BY <1>3, <1>4 DEF Whole, c

LEMMA KeepsApply ==
    ASSUME IndInv, NEW o \in Operators, NEW s \in Scopes, Apply(o, s)
    PROVE  IndInv'
  <1>1. /\ Pending(o, s) /\ applied[s][Due(o, s)] = None
        /\ applied' = [applied EXCEPT ![s][Due(o, s)] = Body(o, Due(o, s))]
        /\ objects' = [t \in Tenants |-> objects[t] \union (IF t = s THEN {Due(o, s)} ELSE {})]
        /\ bucket' = bucket /\ registry' = registry /\ schemas' = schemas /\ roles' = roles
        /\ granted' = granted /\ guarded' = guarded
        /\ UNCHANGED <<pc, cmd, result, runs, tornDown>>
    BY DEF Apply, CanApply
  <1>2. PICK r \in 1..Releases : r = cmd[o].release
    BY Types DEF IndInv
  <1>3. PICK n \in DOMAIN Chain(s, r) : n = work[o][s].pos
    BY <1>1, <1>2 DEF Pending
  <1>4. PICK f \in Files : f = Due(o, s) /\ f = Chain(s, r)[n]
    BY <1>2, <1>3, ChainFacts DEF Due
  <1>5. PICK b \in Bodies : b = Body(o, f) /\ b # None
    BY Types DEF IndInv
  <1>6. \A u \in Scopes, g \in Files :
           applied'[u][g] = IF u = s /\ g = f THEN b ELSE applied[u][g]
    BY <1>1, <1>4, <1>5 DEF IndInv, TypeOK
  <1>7. \A t \in Tenants : objects'[t] = IF t = s THEN objects[t] \union {f} ELSE objects[t]
    BY <1>1, <1>4
  <1>8. applied[s][f] = None /\ work[o][s].at = "file"
    BY <1>1, <1>4 DEF Pending
  <1>9. PICK w \in WorkRecords :
              /\ w = [work[o][s] EXCEPT !.pos = @ + 1]
              /\ w.at = "file" /\ w.pos = work[o][s].pos + 1 /\ w.seen = work[o][s].seen
    BY <1>1, Advanced
  <1>10. Working(o, s, w)
    BY <1>9 DEF Apply, Advance
  <1>11. /\ Elsewhere(o) /\ PhaseOK(o)'
         /\ work' \in [Operators -> [Scopes -> WorkRecords]]
         /\ work'[o][s] = w
         /\ \A u \in Scopes : u # s => work'[o][u] = work[o][u]
         /\ \A p \in Operators, t \in Tenants : work'[p][t].at # "off" => work[p][t].at # "off"
    <2>1. work[o][s].at \in {"read", "file"} /\ w.at \in {"file", "error", "ok"}
      BY <1>8, <1>9
    <2>2. UNCHANGED <<pc, cmd, result, tornDown>>
      BY <1>1
    <2> QED
      BY <1>10, <2>1, <2>2, ThreadStep
  <1>12. TypeOK'
    <2>1. applied' \in [Scopes -> [Files -> Bodies \union {None}]]
      BY <1>1, <1>4, <1>5 DEF IndInv, TypeOK
    <2>2. objects' \in [Tenants -> SUBSET Files]
      BY <1>1, <1>4 DEF IndInv, TypeOK
    <2> QED
      BY <1>1, <1>11, <2>1, <2>2 DEF IndInv, TypeOK, WorkRecords
  <1>13. Grows
    BY <1>1, <1>6, <1>7, <1>8 DEF Grows, Scopes
  <1>14. ASSUME s \notin tornDown
         PROVE  \A i \in DOMAIN Chain(s, r) : i < n => applied[s][Chain(s, r)[i]] = Body(o, Chain(s, r)[i])
    BY <1>2, <1>3, <1>8, <1>14 DEF IndInv, Runners, WorkOK
  <1>15. Data'
    <2>1. Backed'
      BY <1>1, <1>6, <1>7 DEF IndInv, Backed, Scopes
    <2>2. GuardedIsWhole'
      BY <1>1, <1>13, WholeGrows DEF IndInv, GuardedIsWhole
    <2>3. ChainInOrder'
      <3>0. /\ Releases \in Nat /\ Releases >= 1 /\ Ext = Releases + 1 /\ Ext \in Files
            /\ \A g \in 1..Releases : g \in Files /\ g # Ext
        BY TenancyAssumption DEF Ext, Files
      <3>1. ASSUME NEW g \in 1..Releases, s \notin tornDown, \/ f \in 1..Releases /\ g < f
                                                             \/ f = Ext /\ g = 1
            PROVE  applied[s][g] # None
        <4>1. g <= r /\ g < n
          BY <1>3, <1>4, <3>0, <3>1, ChainFacts
        <4>2. g \in DOMAIN Chain(s, r) /\ Chain(s, r)[g] = g
          BY <4>1, ChainFacts
        <4>3. applied[s][g] = Body(o, g)
          BY <1>14, <3>1, <4>1, <4>2
        <4> QED
          BY <3>0, <4>3, Types DEF IndInv
      <3>2. ASSUME NEW u \in Scopes \ tornDown, NEW g \in 1..Releases, NEW h \in 1..Releases,
                   h < g, applied'[u][g] # None
            PROVE  applied'[u][h] # None
        <4>1. CASE u = s /\ g = f
          BY <1>5, <1>6, <3>0, <3>1, <3>2, <4>1
        <4>2. CASE ~(u = s /\ g = f)
          <5>1. applied[u][g] # None
            BY <1>6, <3>0, <3>2, <4>2
          <5>2. applied[u][h] # None
            BY <3>2, <5>1 DEF IndInv, ChainInOrder
          <5> QED
            BY <1>5, <1>6, <3>0, <5>2
        <4> QED
          BY <4>1, <4>2
      <3>3. ASSUME NEW u \in Scopes \ tornDown, applied'[u][Ext] # None
            PROVE  applied'[u][1] # None
        <4>1. CASE u = s /\ Ext = f
          BY <1>5, <1>6, <3>0, <3>1, <3>3, <4>1
        <4>2. CASE ~(u = s /\ Ext = f)
          <5>1. applied[u][Ext] # None
            BY <1>6, <3>0, <3>3, <4>2
          <5>2. applied[u][1] # None
            BY <3>3, <5>1 DEF IndInv, ChainInOrder
          <5> QED
            BY <1>5, <1>6, <3>0, <5>2
        <4> QED
          BY <4>1, <4>2
      <3> QED
        BY <1>1, <3>2, <3>3 DEF ChainInOrder
    <2> QED
      BY <2>1, <2>2, <2>3 DEF Data
  <1>16. ASSUME s \notin tornDown PROVE WorkOK(o, s)'
    <2>1. WorkOK(o, s)
      BY <1>16 DEF IndInv, Runners
    <2>2. \A i \in DOMAIN Chain(s, r) : i \in Nat /\ Chain(s, r)[i] \in Files
      BY ChainFacts
    <2>3. \A g \in Files : w.seen[g] # None => applied'[s][g] = w.seen[g]
      BY <1>6, <1>8, <1>9, <2>1 DEF WorkOK
    <2>4. \A i \in DOMAIN Chain(s, r) : i < n + 1 => applied'[s][Chain(s, r)[i]] = Body(o, Chain(s, r)[i])
      <3> SUFFICES ASSUME NEW i \in DOMAIN Chain(s, r), i < n + 1
                   PROVE  applied'[s][Chain(s, r)[i]] = Body(o, Chain(s, r)[i])
        OBVIOUS
      <3>1. CASE Chain(s, r)[i] = f
        BY <1>5, <1>6, <3>1
      <3>2. CASE Chain(s, r)[i] # f
        <4>1. i < n
          BY <1>3, <1>4, <2>2, <3>2
        <4> QED
          BY <1>6, <1>14, <1>16, <2>2, <3>2, <4>1
      <3> QED
        BY <3>1, <3>2
    <2>5. Chain(s, cmd[o].release)' = Chain(s, r) /\ \A g : Body(o, g)' = Body(o, g)
      BY <1>1, <1>2 DEF Chain, Body
    <2>6. w.pos = n + 1 /\ n + 1 >= 1
      BY <1>3, <1>9, <2>2
    <2> QED
      BY <1>9, <1>11, <2>3, <2>4, <2>5, <2>6 DEF WorkOK
  <1>17. \A u \in Scopes \ tornDown' : WorkOK(o, u)'
    BY <1>1, <1>11, <1>13, <1>16, ThreadFrame
  <1>18. Buckets'
    BY <1>1, <1>11 DEF IndInv, Buckets
  <1>19. ActiveIsReachable'
    BY <1>1 DEF IndInv, ActiveIsReachable, Reachable
  <1> QED
    BY <1>11, <1>12, <1>13, <1>15, <1>17, <1>18, <1>19, Assemble

LEMMA KeepsGrant ==
    ASSUME IndInv, NEW o \in Operators, NEW t \in Tenants, Grant(o, t)
    PROVE  IndInv'
  <1>1. /\ work[o][t].at = "file" /\ work[o][t].pos > Len(Chain(t, cmd[o].release))
        /\ schemas[t] = Layers /\ roles[t] = Roles
        /\ granted' = [granted EXCEPT ![t] = objects[t]]
        /\ guarded' = [guarded EXCEPT ![t] = TRUE]
        /\ bucket' = bucket /\ registry' = registry /\ schemas' = schemas /\ roles' = roles
        /\ applied' = applied /\ objects' = objects
        /\ UNCHANGED <<pc, cmd, result, runs, tornDown>>
    BY DEF Grant
  <1>t. t \in Scopes
    BY DEF Scopes
  <1>2. PICK r \in 1..Releases : r = cmd[o].release
    BY <1>t, Types DEF IndInv
  <1>3. PICK w \in WorkRecords : w = [NoWork EXCEPT !.at = "ok"] /\ w.at = "ok"
    BY NoWorkType
  <1>4. Working(o, t, w)
    BY <1>3 DEF Grant, Over, Working
  <1>5. /\ Elsewhere(o) /\ PhaseOK(o)'
        /\ work' \in [Operators -> [Scopes -> WorkRecords]]
        /\ work'[o][t] = w
        /\ \A u \in Scopes : u # t => work'[o][u] = work[o][u]
        /\ \A p \in Operators, u \in Tenants : work'[p][u].at # "off" => work[p][u].at # "off"
    BY <1>1, <1>3, <1>4, <1>t, ThreadStep
  <1>6. \A u \in Tenants :
           /\ granted'[u] = IF u = t THEN objects[t] ELSE granted[u]
           /\ guarded'[u] = IF u = t THEN TRUE ELSE guarded[u]
    BY <1>1 DEF IndInv, TypeOK
  <1>7. TypeOK'
    <2>1. granted' \in [Tenants -> SUBSET Files] /\ guarded' \in [Tenants -> BOOLEAN]
      BY <1>1 DEF IndInv, TypeOK
    <2> QED
      BY <1>1, <1>5, <2>1 DEF IndInv, TypeOK, WorkRecords
  <1>8. Grows
    BY <1>1, <1>6 DEF IndInv, Backed, Grows
  <1>9. ASSUME t \notin tornDown
        PROVE  \A i \in DOMAIN Chain(t, r) :
                  /\ Chain(t, r)[i] \in Files
                  /\ applied[t][Chain(t, r)[i]] = Body(o, Chain(t, r)[i])
                  /\ applied[t][Chain(t, r)[i]] # None
                  /\ Chain(t, r)[i] \in objects[t]
    <2>1. WorkOK(o, t)
      BY <1>9, <1>t DEF IndInv, Runners
    <2>2. work[o][t].pos \in Nat
      BY <1>t, Types, TenancyAssumption DEF IndInv, Ext
    <2>3. \A i \in DOMAIN Chain(t, r) : i < work[o][t].pos /\ Chain(t, r)[i] \in Files
      BY <1>1, <1>2, <1>t, <2>2, ChainFacts
    <2>4. \A i \in DOMAIN Chain(t, r) : applied[t][Chain(t, r)[i]] = Body(o, Chain(t, r)[i])
      BY <1>1, <1>2, <2>1, <2>3 DEF WorkOK
    <2>5. \A i \in DOMAIN Chain(t, r) : applied[t][Chain(t, r)[i]] # None
      BY <1>t, <2>3, <2>4, Types DEF IndInv
    <2> QED
      BY <1>9, <2>3, <2>4, <2>5 DEF IndInv, Backed
  <1>10. Data'
    <2>1. Backed' /\ ChainInOrder'
      BY <1>1 DEF IndInv, Backed, ChainInOrder
    <2>2. ASSUME NEW u \in Tenants \ tornDown', guarded'[u]
          PROVE  \E q \in 1..Releases : Whole(u, q)'
      <3>1. CASE u = t
        <4>1. Whole(t, r)'
          BY <1>1, <1>6, <1>9, <2>2, <3>1 DEF Whole, Chain
        <4> QED
          BY <3>1, <4>1
      <3>2. CASE u # t
        <4>1. guarded[u] /\ u \notin tornDown
          BY <1>1, <1>6, <2>2, <3>2
        <4>2. PICK q \in 1..Releases : Whole(u, q)
          BY <4>1 DEF IndInv, GuardedIsWhole
        <4> QED
          BY <1>8, <2>2, <4>2, WholeGrows
      <3> QED
        BY <3>1, <3>2
    <2> QED
      BY <2>1, <2>2 DEF Data, GuardedIsWhole
  <1>11. ASSUME t \notin tornDown PROVE WorkOK(o, t)'
    <2>1. Chain(t, cmd[o].release)' = Chain(t, r) /\ \A g : Body(o, g)' = Body(o, g)
      BY <1>1, <1>2 DEF Chain, Body
    <2>2. granted'[t] = objects[t] /\ guarded'[t] /\ roles'[t] = Roles /\ schemas'[t] = Layers
      BY <1>1, <1>6
    <2> QED
      BY <1>1, <1>3, <1>5, <1>9, <1>11, <2>1, <2>2 DEF WorkOK
  <1>12. \A u \in Scopes \ tornDown' : WorkOK(o, u)'
    BY <1>1, <1>5, <1>8, <1>11, ThreadFrame
  <1>13. Buckets'
    BY <1>1, <1>5, <1>6 DEF IndInv, Buckets
  <1>14. ActiveIsReachable'
    BY <1>1, <1>6 DEF IndInv, ActiveIsReachable, Reachable
  <1> QED
    BY <1>5, <1>7, <1>8, <1>10, <1>12, <1>13, <1>14, Assemble

-----------------------------------------------------------------------------
(* The steps of a process.                                                 *)

PcTypes == {"idle", "bucket", "lock", "schemas", "apply", "shared", "fanout"} \union Tearing

\* Types of what a process keeps to itself.
ProcessTypes ==
    /\ pc \in [Operators -> PcTypes]
    /\ cmd \in [Operators -> Commands]
    /\ work \in [Operators -> [Scopes -> WorkRecords]]
    /\ result \in [Operators -> {"none", "ok", "failed"}]

EstateTypes ==
    /\ bucket \in [Tenants -> {"none", "bare", "locked"}]
    /\ registry \in [Tenants -> {None, "PROVISIONING", "ACTIVE", "DEPROVISIONED"}]
    /\ schemas \in [Tenants -> SUBSET Layers]
    /\ roles \in [Tenants -> SUBSET Roles]
    /\ applied \in [Scopes -> [Files -> Bodies \union {None}]]
    /\ objects \in [Tenants -> SUBSET Files]
    /\ granted \in [Tenants -> SUBSET Files]
    /\ guarded \in [Tenants -> BOOLEAN]
    /\ tornDown \subseteq Tenants

LEMMA TypeParts == TypeOK <=> EstateTypes /\ ProcessTypes /\ runs \in 0..MaxRuns
  BY FollowingFacts DEF TypeOK, EstateTypes, ProcessTypes, PcTypes, WorkRecords

\* A step of process o that touches no chain and no grant, and starts, ends or
\* leaves alone its own threads.
LEMMA KeepsProcess ==
    ASSUME IndInv, NEW o \in Operators, TypeOK', Elsewhere(o), PhaseOK(o)',
           UNCHANGED <<applied, objects, granted, guarded, tornDown>>,
           \A t \in Tenants \ tornDown :
              /\ roles[t] = Roles => roles'[t] = Roles
              /\ schemas[t] = Layers => schemas'[t] = Layers,
           \A s \in Scopes : \/ work'[o][s].at \in {"off", "read"}
                             \/ work'[o][s] = work[o][s] /\ cmd'[o] = cmd[o],
           Buckets', ActiveIsReachable'
    PROVE  IndInv'
  <1>1. Grows /\ Data'
    BY SameData
  <1>2. ASSUME NEW s \in Scopes \ tornDown' PROVE WorkOK(o, s)'
    <2>1. CASE work'[o][s].at \in {"off", "read"}
      BY <2>1 DEF WorkOK
    <2>2. CASE work'[o][s] = work[o][s] /\ cmd'[o] = cmd[o]
      BY <1>1, <2>2, ThreadFrame
    <2> QED
      BY <2>1, <2>2
  <1> QED
    BY <1>1, <1>2, Assemble

LEMMA KeepsStart ==
    ASSUME IndInv, NEW o \in Operators, NEW c \in Commands, NEW where, Start(o, c, where),
           NEW ws \in [Scopes -> WorkRecords], work' = [work EXCEPT ![o] = ws],
           UNCHANGED <<estate, tornDown>>,
           \A t \in Tenants : ws[t].at = "off",
           \/ where = "shared" /\ ws[Shared].at = "read"
           \/ /\ where \in {"bucket", "schemas", "mark"} /\ c.tenant \in Tenants
              /\ ws[Shared].at = "off" /\ (where = "schemas" => ~HasStore)
    PROVE  IndInv'
  <1>1. /\ bucket' = bucket /\ registry' = registry /\ schemas' = schemas /\ roles' = roles
        /\ applied' = applied /\ objects' = objects /\ granted' = granted
        /\ guarded' = guarded /\ tornDown' = tornDown
    BY DEF estate
  <1>2. /\ work' \in [Operators -> [Scopes -> WorkRecords]]
        /\ work'[o] = ws
        /\ \A p \in Operators : p # o => work'[p] = work[p]
    BY WorkAll DEF IndInv
  <1>3. EstateTypes /\ ProcessTypes /\ runs \in 0..MaxRuns
    BY TypeParts DEF IndInv
  <1>4. /\ cmd' = [cmd EXCEPT ![o] = c] /\ result' = [result EXCEPT ![o] = "none"]
        /\ pc' = [pc EXCEPT ![o] = where] /\ runs' = runs + 1 /\ runs < MaxRuns
    BY DEF Start, Goto
  <1>5. where \in PcTypes /\ where \notin {"idle", "lock", "apply", "fanout"} \union Roles \union {"row"}
    BY DEF PcTypes, Tearing, Roles
  <1>6. TypeOK'
    <2>1. ProcessTypes'
      BY <1>2, <1>3, <1>4, <1>5 DEF ProcessTypes
    <2>2. EstateTypes'
      BY <1>1, <1>3 DEF EstateTypes
    <2>3. runs' \in 0..MaxRuns
      BY <1>3, <1>4, TenancyAssumption
    <2>4. (EstateTypes /\ ProcessTypes /\ runs \in 0..MaxRuns)' <=> TypeOK'
      BY TypeParts, PTL
    <2> QED
      BY <2>1, <2>2, <2>3, <2>4
  <1>7. /\ pc'[o] = where /\ cmd'[o] = c /\ result'[o] = "none"
        /\ \A p \in Operators : p # o => pc'[p] = pc[p] /\ cmd'[p] = cmd[p] /\ result'[p] = result[p]
    BY <1>3, <1>4 DEF ProcessTypes
  <1>8. Elsewhere(o)
    BY <1>2, <1>7 DEF Elsewhere
  <1>9. \A s \in Scopes : ws[s].at \in {"off", "read"}
    BY DEF Scopes
  <1>10. PhaseOK(o)'
    BY <1>2, <1>5, <1>7 DEF PhaseOK, Scopes, Tearing
  <1>11. Buckets'
    BY <1>1, <1>2, <1>5, <1>7 DEF IndInv, Buckets
  <1>12. ActiveIsReachable'
    BY <1>1 DEF IndInv, ActiveIsReachable, Reachable
  <1> QED
    BY <1>1, <1>2, <1>6, <1>8, <1>9, <1>10, <1>11, <1>12, KeepsProcess

\* The records the commands start with.
LEMMA KeepsMigrate ==
    ASSUME IndInv, NEW o \in Operators, Migrate(o)
    PROVE  IndInv'
  <1>1. PICK r \in 1..Releases, e \in SUBSET Editable :
           Start(o, [NoCommand EXCEPT !.kind = "migrate", !.release = r, !.edited = e], "shared")
    BY DEF Migrate
  <1> DEFINE ws == [s \in Scopes |-> IF s = Shared THEN StartWork ELSE NoWork]
             c == [NoCommand EXCEPT !.kind = "migrate", !.release = r, !.edited = e]
  <1>2. c \in Commands
    BY DEF NoCommand, Commands
  <1>3. /\ ws \in [Scopes -> WorkRecords] /\ ws[Shared].at = "read"
        /\ \A t \in Tenants : ws[t].at = "off"
    BY NoWorkType, TenancyAssumption DEF Scopes
  <1>4. work' = [work EXCEPT ![o] = ws] /\ UNCHANGED <<estate, tornDown>>
    BY DEF Migrate
  <1> HIDE DEF ws, c
  <1> QED
    BY <1>1, <1>2, <1>3, <1>4, KeepsStart DEF c

LEMMA KeepsProvision ==
    ASSUME IndInv, NEW o \in Operators, NEW t \in Tenants, Provision(o, t)
    PROVE  IndInv'
  <1>1. PICK r \in 1..Releases, e \in SUBSET Editable :
           Start(o, [NoCommand EXCEPT !.kind = "provision", !.tenant = t, !.release = r,
                                      !.edited = e],
                 IF HasStore THEN "bucket" ELSE "schemas")
    BY DEF Provision
  <1> DEFINE ws == [s \in Scopes |-> NoWork]
             c == [NoCommand EXCEPT !.kind = "provision", !.tenant = t, !.release = r,
                                    !.edited = e]
             where == IF HasStore THEN "bucket" ELSE "schemas"
  <1>2. c \in Commands /\ c.tenant = t
    BY DEF NoCommand, Commands
  <1>3. /\ ws \in [Scopes -> WorkRecords] /\ ws[Shared].at = "off"
        /\ \A u \in Tenants : ws[u].at = "off"
    BY NoWorkType DEF Scopes
  <1>4. work' = [work EXCEPT ![o] = ws] /\ UNCHANGED <<estate, tornDown>>
    BY DEF Provision
  <1>5. where \in {"bucket", "schemas", "mark"} /\ (where = "schemas" => ~HasStore)
    OBVIOUS
  <1>6. Start(o, c, where)
    BY <1>1
  <1> HIDE DEF ws, c, where
  <1> QED
    BY <1>2, <1>3, <1>4, <1>5, <1>6, KeepsStart

LEMMA TeardownCommand ==
    ASSUME NEW S, NEW t \in Tenants, NEW d \in S, NEW x \in S, 1 \in 1..Releases,
           NEW c, c = [[kind |-> "none", tenant |-> None, release |-> 1, edited |-> {}, drop |-> x]
                          EXCEPT !.kind = "deprovision", !.tenant = t, !.drop = d]
    PROVE  /\ c \in [kind : {"none", "migrate", "provision", "deprovision"},
                     tenant : Tenants \union {None}, release : 1..Releases,
                     edited : SUBSET Editable, drop : S]
           /\ c.tenant = t
  OBVIOUS

LEMMA KeepsDeprovision ==
    ASSUME IndInv, NEW o \in Operators, NEW t \in Tenants, Deprovision(o, t)
    PROVE  IndInv'
  <1>1. PICK d \in BOOLEAN :
           Start(o, [NoCommand EXCEPT !.kind = "deprovision", !.tenant = t, !.drop = d], "mark")
    BY DEF Deprovision
  <1> DEFINE ws == [s \in Scopes |-> NoWork]
             c == [NoCommand EXCEPT !.kind = "deprovision", !.tenant = t, !.drop = d]
  <1>2. c \in Commands /\ c.tenant = t
    <2>1. 1 \in 1..Releases /\ FALSE \in BOOLEAN
      BY TenancyAssumption
    <2> QED
      BY <2>1, TeardownCommand DEF NoCommand, Commands
  <1>3. /\ ws \in [Scopes -> WorkRecords] /\ ws[Shared].at = "off"
        /\ \A u \in Tenants : ws[u].at = "off"
    BY NoWorkType DEF Scopes
  <1>4. work' = [work EXCEPT ![o] = ws] /\ UNCHANGED <<estate, tornDown>>
    BY DEF Deprovision
  <1> DEFINE where == "mark"
  <1>5. where \in {"bucket", "schemas", "mark"} /\ (where = "schemas" => ~HasStore)
    OBVIOUS
  <1>6. Start(o, c, where)
    BY <1>1
  <1> HIDE DEF ws, c, where
  <1> QED
    BY <1>2, <1>3, <1>4, <1>5, <1>6, KeepsStart

LEMMA NoCommandType == NoCommand \in Commands
  <1>1. 1 \in 1..Releases /\ FALSE \in BOOLEAN
    BY TenancyAssumption
  <1> QED
    BY <1>1 DEF NoCommand, Commands

LEMMA KeepsFanOut ==
    ASSUME IndInv, NEW o \in Operators, FanOut(o)
    PROVE  IndInv'
  <1> DEFINE ws == [s \in Scopes |-> IF s \in tenant_slugs THEN StartWork ELSE work[o][s]]
  <1>1. /\ pc[o] = "shared" /\ work[o][Shared].at = "ok"
        /\ pc' = [pc EXCEPT ![o] = "fanout"] /\ work' = [work EXCEPT ![o] = ws]
        /\ bucket' = bucket /\ registry' = registry /\ schemas' = schemas /\ roles' = roles
        /\ applied' = applied /\ objects' = objects /\ granted' = granted /\ guarded' = guarded
        /\ cmd' = cmd /\ result' = result /\ runs' = runs /\ tornDown' = tornDown
    BY DEF FanOut, Goto, estate
  <1>2. tenant_slugs \subseteq Tenants
    BY DEF tenant_slugs
  <1>3. EstateTypes /\ ProcessTypes /\ runs \in 0..MaxRuns
    BY TypeParts DEF IndInv
  <1>4. ws \in [Scopes -> WorkRecords]
    BY NoWorkType, Types DEF IndInv
  <1>5. /\ \A s \in Scopes : \/ s \in tenant_slugs /\ ws[s].at = "read"
                             \/ s \notin tenant_slugs /\ ws[s] = work[o][s]
        /\ ws[Shared].at = "ok"
    BY <1>1, <1>2, NoWorkType, TenancyAssumption DEF Scopes
  <1> HIDE DEF ws
  <1>6. /\ work' \in [Operators -> [Scopes -> WorkRecords]] /\ work'[o] = ws
        /\ \A p \in Operators : p # o => work'[p] = work[p]
    BY <1>1, <1>4, WorkAll DEF IndInv
  <1>7. pc'[o] = "fanout" /\ \A p \in Operators : p # o => pc'[p] = pc[p]
    BY <1>1, <1>3 DEF ProcessTypes
  <1>8. TypeOK'
    <2>1. ProcessTypes'
      BY <1>1, <1>3, <1>6 DEF ProcessTypes, PcTypes
    <2>2. EstateTypes' /\ runs' \in 0..MaxRuns
      BY <1>1, <1>3 DEF EstateTypes
    <2>3. (EstateTypes /\ ProcessTypes /\ runs \in 0..MaxRuns)' <=> TypeOK'
      BY TypeParts, PTL
    <2> QED
      BY <2>1, <2>2, <2>3
  <1>9. Elsewhere(o)
    BY <1>1, <1>6, <1>7 DEF Elsewhere
  <1>10. PhaseOK(o)'
    <2>1. result[o] = "none"
      BY <1>1 DEF IndInv, Phases, PhaseOK
    <2> QED
      BY <1>1, <1>5, <1>6, <1>7, <2>1 DEF PhaseOK, Tearing, Roles
  <1>11. Buckets'
    <2>1. ASSUME HasStore, NEW t \in Tenants, ws[t].at # "off" PROVE bucket[t] # "none"
      <3>1. CASE t \in tenant_slugs
        <4>1. registry[t] # None
          BY <3>1, TenancyAssumption DEF tenant_slugs
        <4> QED
          BY <2>1, <4>1 DEF IndInv, Buckets
      <3>2. CASE t \notin tenant_slugs
        BY <1>5, <2>1, <3>2 DEF IndInv, Buckets, Scopes
      <3> QED
        BY <3>1, <3>2
    <2> QED
      BY <1>1, <1>6, <1>7, <2>1 DEF IndInv, Buckets
  <1>12. ActiveIsReachable'
    BY <1>1 DEF IndInv, ActiveIsReachable, Reachable
  <1>13. \A s \in Scopes : \/ work'[o][s].at \in {"off", "read"}
                           \/ work'[o][s] = work[o][s] /\ cmd'[o] = cmd[o]
    BY <1>1, <1>5, <1>6
  <1> QED
    BY <1>1, <1>8, <1>9, <1>10, <1>11, <1>12, <1>13, KeepsProcess

\* The end of a process, whatever it ended with.
LEMMA EndFacts ==
    ASSUME IndInv, NEW o \in Operators, NEW how \in {"ok", "failed"}, End(o, how),
           how = "ok" => \A s \in Scopes : work[o][s].at \in {"off", "ok"}
    PROVE  /\ ProcessTypes' /\ Elsewhere(o) /\ PhaseOK(o)' /\ pc'[o] = "idle"
           /\ \A s \in Scopes : \/ work'[o][s].at = "off"
                                \/ work'[o][s] = work[o][s] /\ cmd'[o] = cmd[o]
  <1>1. ProcessTypes
    BY TypeParts DEF IndInv
  <1>2. pc' = [pc EXCEPT ![o] = "idle"] /\ result' = [result EXCEPT ![o] = how]
    BY DEF End, Goto
  <1>3. /\ pc'[o] = "idle" /\ pc' \in [Operators -> PcTypes]
        /\ result' \in [Operators -> {"none", "ok", "failed"}]
        /\ \A p \in Operators : p # o => pc'[p] = pc[p] /\ result'[p] = result[p]
    BY <1>1, <1>2 DEF ProcessTypes, PcTypes
  <1>4. CASE how = "ok"
    <2>1. cmd' = cmd /\ work' = work
      BY <1>4 DEF End
    <2>2. PhaseOK(o)'
      BY <1>3, <1>4, <2>1 DEF PhaseOK, Tearing, Roles
    <2>3. ProcessTypes' /\ Elsewhere(o)
      BY <1>1, <1>3, <2>1 DEF ProcessTypes, Elsewhere
    <2> QED
      BY <1>3, <2>1, <2>2, <2>3
  <1>5. CASE how # "ok"
    <2> DEFINE ws == [s \in Scopes |-> NoWork]
    <2>1. cmd' = [cmd EXCEPT ![o] = NoCommand] /\ work' = [work EXCEPT ![o] = ws]
      BY <1>5 DEF End
    <2>2. ws \in [Scopes -> WorkRecords] /\ \A s \in Scopes : ws[s].at = "off"
      BY NoWorkType
    <2> HIDE DEF ws
    <2>3. /\ work' \in [Operators -> [Scopes -> WorkRecords]] /\ work'[o] = ws
          /\ \A p \in Operators : p # o => work'[p] = work[p]
      BY <2>1, <2>2, WorkAll DEF IndInv
    <2>4. cmd' \in [Operators -> Commands] /\ \A p \in Operators : p # o => cmd'[p] = cmd[p]
      BY <1>1, <2>1, NoCommandType DEF ProcessTypes
    <2>5. PhaseOK(o)'
      BY <1>3, <2>2, <2>3 DEF PhaseOK, Tearing, Roles
    <2>6. ProcessTypes' /\ Elsewhere(o)
      BY <1>3, <2>3, <2>4 DEF ProcessTypes, Elsewhere
    <2> QED
      BY <1>3, <2>2, <2>3, <2>5, <2>6
  <1> QED
    BY <1>4, <1>5

\* A process ends; the registry row or a role may have changed with it.
LEMMA KeepsEnd ==
    ASSUME IndInv, NEW o \in Operators, NEW how \in {"ok", "failed"}, End(o, how),
           how = "ok" => \A s \in Scopes : work[o][s].at \in {"off", "ok"},
           UNCHANGED <<bucket, schemas, roles, applied, objects, granted, guarded, runs, tornDown>>,
           registry' \in [Tenants -> {None, "PROVISIONING", "ACTIVE", "DEPROVISIONED"}],
           \A t \in Tenants :
              /\ registry[t] = None => registry'[t] = None
              /\ registry'[t] = "ACTIVE" /\ t \notin tornDown => registry[t] = "ACTIVE" \/ Reachable(t)
    PROVE  IndInv'
  <1>1. /\ ProcessTypes' /\ Elsewhere(o) /\ PhaseOK(o)' /\ pc'[o] = "idle"
        /\ \A s \in Scopes : \/ work'[o][s].at = "off"
                             \/ work'[o][s] = work[o][s] /\ cmd'[o] = cmd[o]
    BY EndFacts
  <1>2. EstateTypes /\ runs \in 0..MaxRuns
    BY TypeParts DEF IndInv
  <1>3. TypeOK'
    <2>1. EstateTypes' /\ runs' \in 0..MaxRuns
      BY <1>2 DEF EstateTypes
    <2>2. (EstateTypes /\ ProcessTypes /\ runs \in 0..MaxRuns)' <=> TypeOK'
      BY TypeParts, PTL
    <2> QED
      BY <1>1, <2>1, <2>2
  <1>4. Buckets'
    <2>1. \A p \in Operators, t \in Tenants : work'[p][t].at # "off" => work[p][t].at # "off"
      BY <1>1 DEF Elsewhere, Scopes
    <2>2. \A p \in Operators : pc'[p] \in {"lock", "schemas", "apply"} =>
             p # o /\ pc'[p] = pc[p] /\ cmd'[p] = cmd[p]
      BY <1>1 DEF Elsewhere
    <2> QED
      BY <2>1, <2>2 DEF IndInv, Buckets
  <1>5. ActiveIsReachable'
    BY DEF IndInv, ActiveIsReachable, Reachable
  <1> QED
    BY <1>1, <1>3, <1>4, <1>5, KeepsProcess

LEMMA KeepsEnded ==
    ASSUME IndInv, NEW o \in Operators, Report(o) \/ Raise(o) \/ Crash(o)
    PROVE  IndInv'
  <1>1. UNCHANGED <<estate, runs, tornDown>>
    BY DEF Report, Raise, Crash
  <1>2. /\ registry' = registry
        /\ UNCHANGED <<bucket, schemas, roles, applied, objects, granted, guarded, runs, tornDown>>
    BY <1>1 DEF estate
  <1>3. /\ registry' \in [Tenants -> {None, "PROVISIONING", "ACTIVE", "DEPROVISIONED"}]
        /\ \A t \in Tenants :
              /\ registry[t] = None => registry'[t] = None
              /\ registry'[t] = "ACTIVE" /\ t \notin tornDown => registry[t] = "ACTIVE" \/ Reachable(t)
    BY <1>2 DEF IndInv, TypeOK
  <1>4. PICK how \in {"ok", "failed"} :
           /\ End(o, how)
           /\ how = "ok" => \A s \in Scopes : work[o][s].at \in {"off", "ok"}
    <2>1. CASE Raise(o) \/ Crash(o)
      BY <2>1 DEF Raise, Crash
    <2>2. CASE Report(o)
      <3> DEFINE good == drift_report(o) = {} /\ \A t \in FannedOut(o) : work[o][t].at = "ok"
      <3>1. pc[o] = "fanout" /\ End(o, IF good THEN "ok" ELSE "failed")
        BY <2>2 DEF Report
      <3>2. work[o][Shared].at = "ok"
        BY <3>1 DEF IndInv, Phases, PhaseOK
      <3>3. CASE good
        <4>1. \A s \in Scopes : work[o][s].at \in {"off", "ok"}
          BY <3>2, <3>3 DEF FannedOut, Scopes
        <4> QED
          BY <3>1, <3>3, <4>1
      <3>4. CASE ~good
        BY <3>1, <3>4
      <3> QED
        BY <3>3, <3>4
    <2> QED
      BY <2>1, <2>2
  <1> QED
    BY <1>2, <1>3, <1>4, KeepsEnd

\* A process without threads goes on to its next statement.
LEMMA KeepsGoto ==
    ASSUME IndInv, NEW o \in Operators, NEW where, pc' = [pc EXCEPT ![o] = where],
           pc[o] \in {"bucket", "lock", "schemas"} \union Tearing,
           where \in {"bucket", "lock", "schemas"} \union Tearing,
           where \in Roles \union {"row"} => cmd[o].tenant \in tornDown,
           UNCHANGED <<schemas, applied, objects, granted, guarded, cmd, work, result, runs,
                       tornDown>>,
           bucket' \in [Tenants -> {"none", "bare", "locked"}],
           registry' \in [Tenants -> {None, "PROVISIONING", "ACTIVE", "DEPROVISIONED"}],
           roles' \in [Tenants -> SUBSET Roles],
           \A t \in Tenants : bucket[t] # "none" => bucket'[t] # "none",
           where \in {"lock", "schemas"} => bucket'[cmd[o].tenant] # "none",
           \A t \in Tenants : registry[t] = None => registry'[t] = None,
           \A t \in Tenants \ tornDown :
              roles'[t] = roles[t] /\ (registry'[t] = "ACTIVE" => registry[t] = "ACTIVE")
    PROVE  IndInv'
  <1>1. EstateTypes /\ ProcessTypes /\ runs \in 0..MaxRuns
    BY TypeParts DEF IndInv
  <1>2. /\ pc'[o] = where /\ pc' \in [Operators -> PcTypes]
        /\ \A p \in Operators : p # o => pc'[p] = pc[p]
    BY <1>1 DEF ProcessTypes, PcTypes
  <1>3. TypeOK'
    <2>1. EstateTypes' /\ ProcessTypes' /\ runs' \in 0..MaxRuns
      BY <1>1, <1>2 DEF EstateTypes, ProcessTypes
    <2>2. (EstateTypes /\ ProcessTypes /\ runs \in 0..MaxRuns)' <=> TypeOK'
      BY TypeParts, PTL
    <2> QED
      BY <2>1, <2>2
  <1>4. Elsewhere(o)
    BY <1>2 DEF Elsewhere
  <1>5. /\ cmd[o].tenant \in Tenants /\ result[o] = "none"
        /\ \A s \in Scopes : work[o][s].at = "off"
    BY DEF IndInv, Phases, PhaseOK, Tearing
  <1>6. PhaseOK(o)'
    BY <1>2, <1>5 DEF PhaseOK, Tearing
  <1>7. Buckets'
    <2>1. \A p \in Operators : pc'[p] \in {"lock", "schemas", "apply"} =>
             p = o \/ (pc'[p] = pc[p] /\ cmd[p].tenant \in Tenants)
      BY <1>2 DEF IndInv, Phases, PhaseOK
    <2>2. where # "apply"
      BY DEF Tearing
    <2>3. ASSUME HasStore, NEW p \in Operators, pc'[p] \in {"lock", "schemas", "apply"}
          PROVE  bucket'[cmd[p].tenant] # "none"
      <3>1. CASE p = o
        BY <1>2, <2>2, <2>3, <3>1
      <3>2. CASE p # o
        BY <2>1, <2>3, <3>2 DEF IndInv, Buckets
      <3> QED
        BY <3>1, <3>2
    <2> QED
      BY <2>3 DEF IndInv, Buckets
  <1>8. ActiveIsReachable'
    BY DEF IndInv, ActiveIsReachable, Reachable
  <1> QED
    BY <1>3, <1>4, <1>6, <1>7, <1>8, KeepsProcess

LEMMA KeepsEnsureBucket ==
    ASSUME IndInv, NEW o \in Operators, EnsureBucket(o) \/ PutObjectLock(o)
    PROVE  IndInv'
  <1>1. /\ pc[o] \in {"bucket", "lock"} /\ registry' = registry /\ roles' = roles
        /\ UNCHANGED <<schemas, applied, objects, granted, guarded, cmd, work, result, runs,
                       tornDown>>
    BY DEF EnsureBucket, PutObjectLock
  <1>2. PICK t \in Tenants : t = cmd[o].tenant
    BY <1>1 DEF IndInv, Phases, PhaseOK
  <1>3. bucket \in [Tenants -> {"none", "bare", "locked"}]
    BY DEF IndInv, TypeOK
  <1>4. PICK where \in {"lock", "schemas"} :
           /\ pc' = [pc EXCEPT ![o] = where]
           /\ \/ bucket' = bucket /\ bucket[t] # "none"
              \/ bucket' = [bucket EXCEPT ![t] = "bare"]
              \/ bucket' = [bucket EXCEPT ![t] = "locked"]
    BY <1>2 DEF EnsureBucket, PutObjectLock, Goto
  <1>5. /\ bucket' \in [Tenants -> {"none", "bare", "locked"}] /\ bucket'[t] # "none"
        /\ \A u \in Tenants : bucket[u] # "none" => bucket'[u] # "none"
    BY <1>3, <1>4
  <1>6. /\ registry' \in [Tenants -> {None, "PROVISIONING", "ACTIVE", "DEPROVISIONED"}]
        /\ roles' \in [Tenants -> SUBSET Roles]
    BY <1>1 DEF IndInv, TypeOK
  <1>7. where \notin Roles \union {"row"}
    BY DEF Roles
  <1> QED
    BY <1>1, <1>2, <1>4, <1>5, <1>6, <1>7, KeepsGoto

LEMMA KeepsCreateSchemas ==
    ASSUME IndInv, NEW o \in Operators, CreateSchemas(o)
    PROVE  IndInv'
  <1>1. /\ pc[o] = "schemas" /\ pc' = [pc EXCEPT ![o] = "apply"]
        /\ UNCHANGED <<bucket, applied, objects, granted, guarded, cmd, result, runs, tornDown>>
    BY DEF CreateSchemas, Goto
  <1>2. PICK t \in Tenants : t = cmd[o].tenant
    BY <1>1 DEF IndInv, Phases, PhaseOK
  <1>3. /\ registry' = [registry EXCEPT ![t] = IF registry[t] = "ACTIVE" THEN "ACTIVE"
                                               ELSE "PROVISIONING"]
        /\ schemas' = [schemas EXCEPT ![t] = Layers]
        /\ roles' = [roles EXCEPT ![t] = Roles]
        /\ Working(o, t, StartWork)
    BY <1>2 DEF CreateSchemas
  <1>4. EstateTypes /\ ProcessTypes /\ runs \in 0..MaxRuns
    BY TypeParts DEF IndInv
  <1>5. PICK w \in WorkRecords : w = StartWork /\ w.at = "read"
    BY NoWorkType
  <1>6. /\ work' \in [Operators -> [Scopes -> WorkRecords]] /\ work'[o][t] = w
        /\ \A u \in Scopes : u # t => work'[o][u] = work[o][u]
        /\ \A p \in Operators : p # o => work'[p] = work[p]
    <2>1. t \in Scopes /\ Working(o, t, w)
      BY <1>3, <1>5 DEF Scopes
    <2> QED
      BY <2>1, WorkAt DEF IndInv
  <1>7. pc'[o] = "apply" /\ \A p \in Operators : p # o => pc'[p] = pc[p]
    BY <1>1, <1>4 DEF ProcessTypes
  <1>8. \A u \in Tenants :
           /\ registry'[u] = IF u = t THEN IF registry[u] = "ACTIVE" THEN "ACTIVE"
                                           ELSE "PROVISIONING" ELSE registry[u]
           /\ schemas'[u] = IF u = t THEN Layers ELSE schemas[u]
           /\ roles'[u] = IF u = t THEN Roles ELSE roles[u]
    BY <1>3, <1>4 DEF EstateTypes
  <1>9. TypeOK'
    <2>1. ProcessTypes'
      BY <1>1, <1>4, <1>6 DEF ProcessTypes, PcTypes
    <2>2. EstateTypes' /\ runs' \in 0..MaxRuns
      BY <1>1, <1>3, <1>4 DEF EstateTypes
    <2>3. (EstateTypes /\ ProcessTypes /\ runs \in 0..MaxRuns)' <=> TypeOK'
      BY TypeParts, PTL
    <2> QED
      BY <2>1, <2>2, <2>3
  <1>10. Elsewhere(o)
    BY <1>1, <1>6, <1>7 DEF Elsewhere
  <1>11. result[o] = "none" /\ \A s \in Scopes : work[o][s].at = "off"
    BY <1>1 DEF IndInv, Phases, PhaseOK
  <1>12. PhaseOK(o)'
    BY <1>1, <1>2, <1>6, <1>7, <1>11 DEF PhaseOK, Tearing, Roles
  <1>13. Buckets'
    <2>1. HasStore => bucket[t] # "none"
      BY <1>1, <1>2 DEF IndInv, Buckets
    <2>2. \A p \in Operators, u \in Tenants : u # t /\ work'[p][u].at # "off" => work[p][u].at # "off"
      BY <1>6 DEF Scopes
    <2>3. \A p \in Operators : pc'[p] \in {"lock", "schemas", "apply"} =>
             \/ cmd[p].tenant = t
             \/ pc[p] \in {"lock", "schemas", "apply"}
      BY <1>2, <1>7
    <2> QED
      BY <1>1, <1>8, <2>1, <2>2, <2>3 DEF IndInv, Buckets
  <1>14. ActiveIsReachable'
    <2>1. "silver" \in Layers
      BY DEF Layers
    <2> QED
      BY <1>1, <1>8, <2>1 DEF IndInv, ActiveIsReachable, Reachable
  <1>15. \A s \in Scopes : \/ work'[o][s].at \in {"off", "read"}
                           \/ work'[o][s] = work[o][s] /\ cmd'[o] = cmd[o]
    BY <1>1, <1>5, <1>6
  <1>16. \A u \in Tenants \ tornDown :
            /\ roles[u] = Roles => roles'[u] = Roles
            /\ schemas[u] = Layers => schemas'[u] = Layers
    BY <1>8
  <1> QED
    BY <1>1, <1>9, <1>10, <1>12, <1>13, <1>14, <1>15, <1>16, KeepsProcess

LEMMA KeepsActivate ==
    ASSUME IndInv, NEW o \in Operators, Activate(o)
    PROVE  IndInv'
  <1>1. /\ pc[o] = "apply" /\ End(o, "ok")
        /\ UNCHANGED <<bucket, schemas, roles, applied, objects, granted, guarded, runs, tornDown>>
    BY DEF Activate
  <1>2. PICK t \in Tenants : t = cmd[o].tenant
    BY <1>1 DEF IndInv, Phases, PhaseOK
  <1>3. /\ work[o][t].at = "ok"
        /\ registry' = [registry EXCEPT ![t] = IF registry[t] = None THEN None ELSE "ACTIVE"]
    BY <1>2 DEF Activate
  <1>4. \A s \in Scopes : work[o][s].at \in {"off", "ok"}
    BY <1>1, <1>2, <1>3 DEF IndInv, Phases, PhaseOK
  <1>5. t \notin tornDown => Reachable(t)
    BY <1>3 DEF IndInv, Runners, WorkOK, Reachable, Scopes, Layers
  <1>6. registry \in [Tenants -> {None, "PROVISIONING", "ACTIVE", "DEPROVISIONED"}]
    BY DEF IndInv, TypeOK
  <1>7. registry' \in [Tenants -> {None, "PROVISIONING", "ACTIVE", "DEPROVISIONED"}]
    BY <1>3, <1>6
  <1>8. \A u \in Tenants :
           /\ registry[u] = None => registry'[u] = None
           /\ registry'[u] = "ACTIVE" /\ u \notin tornDown => registry[u] = "ACTIVE" \/ Reachable(u)
    BY <1>3, <1>5, <1>6
  <1> QED
    BY <1>1, <1>4, <1>7, <1>8, KeepsEnd

LEMMA KeepsMark ==
    ASSUME IndInv, NEW o \in Operators, Mark(o)
    PROVE  IndInv'
  <1>1. /\ pc[o] = "mark"
        /\ UNCHANGED <<bucket, schemas, roles, applied, objects, granted, guarded, runs, tornDown>>
    BY DEF Mark
  <1>2. PICK t \in Tenants : t = cmd[o].tenant
    BY <1>1 DEF IndInv, Phases, PhaseOK, Tearing
  <1>3. registry' = [registry EXCEPT ![t] = IF registry[t] = None THEN None ELSE "DEPROVISIONED"]
    BY <1>2 DEF Mark
  <1>4. registry \in [Tenants -> {None, "PROVISIONING", "ACTIVE", "DEPROVISIONED"}]
    BY DEF IndInv, TypeOK
  <1>5. registry' \in [Tenants -> {None, "PROVISIONING", "ACTIVE", "DEPROVISIONED"}]
    BY <1>3, <1>4
  <1>6. \A u \in Tenants :
           /\ registry[u] = None => registry'[u] = None
           /\ registry'[u] = "ACTIVE" => registry[u] = "ACTIVE"
    BY <1>3, <1>4, TenancyAssumption
  <1>7. CASE cmd[o].drop
    <2>1. pc' = [pc EXCEPT ![o] = "bronze"] /\ UNCHANGED <<result, cmd, work>>
      BY <1>7, FollowingFacts DEF Mark, Goto
    <2>w. PICK where : where = "bronze"
      OBVIOUS
    <2>2. where \in Tearing /\ where \notin Roles \union {"row"} /\ where \notin {"lock", "schemas"}
      BY <2>w DEF Tearing, Roles
    <2>3. pc' = [pc EXCEPT ![o] = where] /\ pc[o] \in Tearing
      BY <1>1, <2>1, <2>w DEF Tearing
    <2>4. bucket' \in [Tenants -> {"none", "bare", "locked"}] /\ roles' \in [Tenants -> SUBSET Roles]
      BY <1>1 DEF IndInv, TypeOK
    <2>5. \A u \in Tenants : bucket[u] # "none" => bucket'[u] # "none"
      BY <1>1
    <2>6. \A u \in Tenants \ tornDown :
             roles'[u] = roles[u] /\ (registry'[u] = "ACTIVE" => registry[u] = "ACTIVE")
      BY <1>1, <1>6
    <2>7. UNCHANGED <<schemas, applied, objects, granted, guarded, cmd, work, result, runs,
                      tornDown>>
      BY <1>1, <2>1
    <2> QED
      BY <1>5, <1>6, <2>2, <2>3, <2>4, <2>5, <2>6, <2>7, KeepsGoto
  <1>8. CASE ~cmd[o].drop
    <2>1. End(o, "ok")
      BY <1>8 DEF Mark
    <2>2. \A s \in Scopes : work[o][s].at \in {"off", "ok"}
      BY <1>1 DEF IndInv, Phases, PhaseOK, Tearing
    <2> QED
      BY <1>1, <1>5, <1>6, <2>1, <2>2, KeepsEnd
  <1> QED
    BY <1>7, <1>8

LEMMA KeepsDropRole ==
    ASSUME IndInv, NEW o \in Operators, DropRole(o)
    PROVE  IndInv'
  <1>1. /\ pc[o] \in Roles /\ pc[o] \in Tearing
        /\ UNCHANGED <<bucket, registry, schemas, applied, objects, granted, guarded, runs, tornDown>>
    BY DEF DropRole, Roles, Tearing
  <1>2. PICK t \in Tenants : t = cmd[o].tenant /\ t \in tornDown
    BY <1>1 DEF IndInv, Phases, PhaseOK
  <1>3. /\ registry' \in [Tenants -> {None, "PROVISIONING", "ACTIVE", "DEPROVISIONED"}]
        /\ bucket' \in [Tenants -> {"none", "bare", "locked"}]
        /\ roles \in [Tenants -> SUBSET Roles]
    BY <1>1 DEF IndInv, TypeOK
  <1>4. \/ End(o, "failed") /\ UNCHANGED roles
        \/ /\ roles' = [roles EXCEPT ![t] = roles[t] \ {pc[o]}]
           /\ pc' = [pc EXCEPT ![o] = Following(pc[o])] /\ UNCHANGED <<result, cmd, work>>
    BY <1>2 DEF DropRole, Goto
  <1>5. CASE End(o, "failed") /\ UNCHANGED roles
    BY <1>1, <1>3, <1>5, KeepsEnd
  <1>6. CASE /\ roles' = [roles EXCEPT ![t] = roles[t] \ {pc[o]}]
             /\ pc' = [pc EXCEPT ![o] = Following(pc[o])] /\ UNCHANGED <<result, cmd, work>>
    <2>1. PICK where \in Roles \union {"row"} : where = Following(pc[o])
      BY <1>1, FollowingFacts
    <2>2. where \in Tearing /\ where \notin {"lock", "schemas"}
      BY DEF Tearing, Roles
    <2>3. roles' \in [Tenants -> SUBSET Roles] /\ \A u \in Tenants \ tornDown : roles'[u] = roles[u]
      BY <1>2, <1>3, <1>6
    <2> QED
      BY <1>1, <1>2, <1>3, <1>6, <2>1, <2>2, <2>3, KeepsGoto
  <1> QED
    BY <1>4, <1>5, <1>6

LEMMA KeepsDeleteRow ==
    ASSUME IndInv, NEW o \in Operators, DeleteRow(o)
    PROVE  IndInv'
  <1>1. /\ pc[o] = "row" /\ End(o, "ok")
        /\ registry' = [registry EXCEPT ![cmd[o].tenant] = None]
        /\ UNCHANGED <<bucket, schemas, roles, applied, objects, granted, guarded, runs, tornDown>>
    BY DEF DeleteRow
  <1>2. \A s \in Scopes : work[o][s].at \in {"off", "ok"}
    BY <1>1 DEF IndInv, Phases, PhaseOK, Tearing
  <1>3. registry \in [Tenants -> {None, "PROVISIONING", "ACTIVE", "DEPROVISIONED"}]
    BY DEF IndInv, TypeOK
  <1>4. /\ registry' \in [Tenants -> {None, "PROVISIONING", "ACTIVE", "DEPROVISIONED"}]
        /\ \A u \in Tenants :
              /\ registry[u] = None => registry'[u] = None
              /\ registry'[u] = "ACTIVE" => registry[u] = "ACTIVE"
    BY <1>1, <1>3, TenancyAssumption
  <1> QED
    BY <1>1, <1>2, <1>4, KeepsEnd

\* A schema goes, and with it everything the invariant says of the tenant.
LEMMA KeepsDropSchema ==
    ASSUME IndInv, NEW o \in Operators, DropSchema(o)
    PROVE  IndInv'
  <1>1. /\ pc[o] \in Layers /\ pc' = [pc EXCEPT ![o] = Following(pc[o])]
        /\ bucket' = bucket /\ registry' = registry /\ roles' = roles
        /\ UNCHANGED <<cmd, work, result, runs>>
    BY DEF DropSchema, Goto
  <1>2. pc[o] \in Tearing
    BY <1>1 DEF Layers, Tearing
  <1>3. PICK t \in Tenants : t = cmd[o].tenant
    BY <1>2 DEF IndInv, Phases, PhaseOK
  <1>4. PICK kept \in SUBSET objects[t] :
           /\ schemas' = [schemas EXCEPT ![t] = schemas[t] \ {pc[o]}]
           /\ objects' = [objects EXCEPT ![t] = kept]
           /\ granted' = [granted EXCEPT ![t] = granted[t] \intersect kept]
           /\ \/ applied' = applied /\ guarded' = guarded
              \/ /\ applied' = [applied EXCEPT ![t] = [f \in Files |-> None]]
                 /\ guarded' = [guarded EXCEPT ![t] = FALSE]
           /\ tornDown' = tornDown \union {t}
    BY <1>3 DEF DropSchema
  <1>5. PICK where \in Layers \union Roles : where = Following(pc[o])
    BY <1>1, FollowingFacts
  <1>6. where \in Tearing /\ where \notin {"lock", "schemas", "apply", "row"}
    BY DEF Layers, Roles, Tearing
  <1>7. EstateTypes /\ ProcessTypes /\ runs \in 0..MaxRuns
    BY TypeParts DEF IndInv
  <1>8. pc'[o] = where /\ \A p \in Operators : p # o => pc'[p] = pc[p]
    BY <1>1, <1>5, <1>7 DEF ProcessTypes
  <1>9. TypeOK'
    <2>1. ProcessTypes'
      BY <1>1, <1>5, <1>6, <1>7 DEF ProcessTypes, PcTypes
    <2>2. /\ schemas' \in [Tenants -> SUBSET Layers] /\ objects' \in [Tenants -> SUBSET Files]
          /\ granted' \in [Tenants -> SUBSET Files] /\ tornDown' \subseteq Tenants
      BY <1>4, <1>7 DEF EstateTypes
    <2>3. /\ applied' \in [Scopes -> [Files -> Bodies \union {None}]]
          /\ guarded' \in [Tenants -> BOOLEAN]
      <3>1. /\ applied \in [Scopes -> [Files -> Bodies \union {None}]]
            /\ guarded \in [Tenants -> BOOLEAN]
        BY <1>7 DEF EstateTypes
      <3>2. [f \in Files |-> None] \in [Files -> Bodies \union {None}]
        OBVIOUS
      <3>3. CASE applied' = applied /\ guarded' = guarded
        BY <3>1, <3>3
      <3>4. CASE /\ applied' = [applied EXCEPT ![t] = [f \in Files |-> None]]
                 /\ guarded' = [guarded EXCEPT ![t] = FALSE]
        <4>1. applied' \in [Scopes -> [Files -> Bodies \union {None}]]
          BY <3>1, <3>2, <3>4
        <4>2. guarded' \in [Tenants -> BOOLEAN]
          BY <3>1, <3>4
        <4> QED
          BY <4>1, <4>2
      <3> QED
        BY <1>4, <3>3, <3>4
    <2>4. EstateTypes' /\ runs' \in 0..MaxRuns
      BY <1>1, <1>7, <2>2, <2>3 DEF EstateTypes
    <2>5. (EstateTypes /\ ProcessTypes /\ runs \in 0..MaxRuns)' <=> TypeOK'
      BY TypeParts, PTL
    <2> QED
      BY <2>1, <2>4, <2>5
  <1>10. /\ \A u \in Tenants \ tornDown' :
               /\ u \notin tornDown /\ u # t
               /\ schemas'[u] = schemas[u] /\ objects'[u] = objects[u]
               /\ granted'[u] = granted[u] /\ guarded'[u] = guarded[u]
         /\ \A s \in Scopes \ tornDown' : s \notin tornDown /\ applied'[s] = applied[s]
         /\ \A u \in Tenants : guarded'[u] => guarded[u]
    BY <1>4, <1>7 DEF EstateTypes
  <1>11. Grows
    BY <1>1, <1>4, <1>10 DEF Grows
  <1>12. Data'
    <2>1. Backed' /\ ChainInOrder'
      BY <1>10 DEF IndInv, Backed, ChainInOrder, Scopes
    <2>2. GuardedIsWhole'
      BY <1>10, <1>11, WholeGrows DEF IndInv, GuardedIsWhole
    <2> QED
      BY <2>1, <2>2 DEF Data
  <1>13. Elsewhere(o)
    BY <1>1, <1>8 DEF Elsewhere
  <1>14. PhaseOK(o)'
    <2>1. result[o] = "none" /\ \A s \in Scopes : work[o][s].at = "off"
      BY <1>2 DEF IndInv, Phases, PhaseOK, Tearing
    <2>2. cmd[o].tenant \in tornDown' /\ cmd[o].tenant \in Tenants
      BY <1>3, <1>4
    <2> QED
      BY <1>1, <1>6, <1>8, <2>1, <2>2 DEF PhaseOK, Tearing
  <1>15. \A s \in Scopes \ tornDown' : WorkOK(o, s)'
    BY <1>1, <1>11, ThreadFrame
  <1>16. Buckets'
    BY <1>1, <1>6, <1>8, <1>10 DEF IndInv, Buckets
  <1>17. ActiveIsReachable'
    BY <1>1, <1>10 DEF IndInv, ActiveIsReachable, Reachable
  <1> QED
    BY <1>9, <1>11, <1>12, <1>13, <1>14, <1>15, <1>16, <1>17, Assemble

-----------------------------------------------------------------------------
(* The invariant is inductive.                                             *)

LEMMA IndInit == Init => IndInv
  <1> SUFFICES ASSUME Init PROVE IndInv
    OBVIOUS
  <1>0. /\ Releases \in Nat /\ Releases >= 1 /\ Ext = Releases + 1 /\ Files = 1..(Releases + 1)
        /\ {1, Ext} \subseteq Files /\ Ext # 1
    BY TenancyAssumption DEF Ext, Files
  <1>n. None \notin {"shipped", "edited", "PROVISIONING", "ACTIVE", "DEPROVISIONED"}
    BY TenancyAssumption
  <1>1. \A t \in Tenants :
           /\ registry[t] = IF t \in Settled THEN "ACTIVE" ELSE None
           /\ schemas[t] = IF t \in Settled THEN Layers ELSE {}
           /\ roles[t] = IF t \in Settled THEN Roles ELSE {}
           /\ objects[t] = IF t \in Settled THEN {1, Ext} ELSE {}
           /\ granted[t] = IF t \in Settled THEN {1, Ext} ELSE {}
    BY DEF Init, Settle
  <1>2. \A t \in Tenants : guarded[t] <=> t \in Settled
    BY DEF Init, Settle
  <1>3. \A t \in Tenants : HasStore /\ t \in Settled => bucket[t] = "locked"
    BY DEF Init, Settle
  <1>4. /\ \A o \in Operators : pc[o] = "idle" /\ cmd[o] = NoCommand /\ result[o] = "none"
        /\ \A o \in Operators, s \in Scopes : work[o][s] = NoWork
        /\ tornDown = {} /\ runs = 0
    BY DEF Init
  <1>5. \A s \in Scopes, f \in Files :
           applied[s][f] = IF (s = Shared /\ f = 1) \/ (s \in Settled /\ f \in {1, Ext})
                           THEN "shipped" ELSE None
    BY DEF Init
  <1>6. TypeOK
    <2>1. ProcessTypes
      <3>1. [s \in Scopes |-> NoWork] \in [Scopes -> WorkRecords]
        BY NoWorkType
      <3>2. /\ pc \in [Operators -> PcTypes] /\ cmd \in [Operators -> Commands]
            /\ result \in [Operators -> {"none", "ok", "failed"}]
        BY NoCommandType DEF Init, PcTypes
      <3>3. work \in [Operators -> [Scopes -> WorkRecords]]
        BY <3>1 DEF Init
      <3> QED
        BY <3>2, <3>3 DEF ProcessTypes
    <2>2. EstateTypes
      <3>1. applied \in [Scopes -> [Files -> Bodies \union {None}]]
        BY DEF Init, Bodies
      <3>2. guarded \in [Tenants -> BOOLEAN]
        BY DEF Init, Settle
      <3>3. /\ objects \in [Tenants -> SUBSET Files] /\ granted \in [Tenants -> SUBSET Files]
            /\ schemas \in [Tenants -> SUBSET Layers] /\ roles \in [Tenants -> SUBSET Roles]
        BY <1>0 DEF Init, Settle
      <3>4. /\ bucket \in [Tenants -> {"none", "bare", "locked"}]
            /\ registry \in [Tenants -> {None, "PROVISIONING", "ACTIVE", "DEPROVISIONED"}]
        BY DEF Init, Settle
      <3> QED
        BY <1>4, <3>1, <3>2, <3>3, <3>4 DEF EstateTypes
    <2>3. runs \in 0..MaxRuns
      BY <1>4, TenancyAssumption
    <2> QED
      BY <2>1, <2>2, <2>3, TypeParts
  <1>7. Phases
    BY <1>4, NoWorkType DEF Phases, PhaseOK, Tearing, Roles
  <1>8. Runners
    BY <1>4, NoWorkType DEF Runners, WorkOK
  <1>9. Backed
    BY <1>1, <1>5, TenancyAssumption DEF Backed, Scopes
  <1>10. GuardedIsWhole
    <2> SUFFICES ASSUME NEW t \in Tenants, t \in Settled PROVE \E r \in 1..Releases : Whole(t, r)
      BY <1>2 DEF GuardedIsWhole
    <2>1. t \in Scopes /\ 1 \in 1..Releases
      BY <1>0 DEF Scopes
    <2>2. \A i \in DOMAIN Chain(t, 1) : Chain(t, 1)[i] \in {1, Ext}
      <3>1. \A i \in DOMAIN Chain(t, 1) : i \in 1..Ext
        BY <1>0, <2>1, ChainFacts
      <3> QED
        BY <1>0, <2>1, <3>1, ChainFacts
    <2>3. Whole(t, 1)
      BY <1>0, <1>1, <1>5, <1>n, <2>1, <2>2 DEF Whole
    <2> QED
      BY <2>1, <2>3
  <1>11. ChainInOrder
    <2>1. \A f \in 1..Releases : f \in Files /\ f # Ext
      BY <1>0
    <2> QED
      BY <1>0, <1>5, <1>n, <2>1 DEF ChainInOrder
  <1>12. Buckets
    BY <1>1, <1>2, <1>3, <1>4, NoWorkType DEF Buckets, Scopes
  <1>13. ActiveIsReachable
    BY <1>1, <1>2, <1>n DEF ActiveIsReachable, Reachable, Layers
  <1> QED
    BY <1>6, <1>7, <1>8, <1>9, <1>10, <1>11, <1>12, <1>13 DEF IndInv

LEMMA IndNext == IndInv /\ [Next]_vars => IndInv'
  <1> SUFFICES ASSUME IndInv, [Next]_vars PROVE IndInv'
    OBVIOUS
  <1>1. CASE UNCHANGED vars
    <2>1. /\ bucket' = bucket /\ registry' = registry /\ schemas' = schemas /\ roles' = roles
          /\ applied' = applied /\ objects' = objects /\ granted' = granted
          /\ guarded' = guarded /\ pc' = pc /\ cmd' = cmd /\ work' = work
          /\ result' = result /\ runs' = runs /\ tornDown' = tornDown
      BY <1>1 DEF vars, estate
    <2>2. TypeOK' /\ Backed' /\ ChainInOrder'
      BY <2>1 DEF IndInv, TypeOK, Backed, ChainInOrder
    <2>3. Grows /\ Data'
      BY <2>1, SameData
    <2>4. Phases' /\ Buckets' /\ ActiveIsReachable'
      BY <2>1 DEF IndInv, Phases, PhaseOK, Buckets, ActiveIsReachable, Reachable
    <2>5. Runners'
      BY <2>1, <2>3, ThreadFrame DEF Runners
    <2> QED
      BY <2>2, <2>3, <2>4, <2>5 DEF IndInv, Data
  <1>2. ASSUME NEW o \in Operators, Migrate(o) PROVE IndInv'
    BY <1>2, KeepsMigrate
  <1>3. ASSUME NEW o \in Operators, NEW t \in Tenants, Provision(o, t) \/ Deprovision(o, t)
        PROVE  IndInv'
    BY <1>3, KeepsProvision, KeepsDeprovision
  <1>4. ASSUME NEW o \in Operators, apply_shared(o) PROVE IndInv'
    <2>1. Shared \in Scopes
      BY DEF Scopes
    <2> QED
      BY <1>4, <2>1, KeepsReadApplied, KeepsVerify, KeepsApply, KeepsSharedDone DEF apply_shared
  <1>5. ASSUME NEW o \in Operators, NEW t \in Tenants, apply_tenant(o, t) PROVE IndInv'
    <2>1. t \in Scopes
      BY DEF Scopes
    <2> QED
      BY <1>5, <2>1, KeepsReadApplied, KeepsVerify, KeepsApply, KeepsGrant DEF apply_tenant
  <1>6. ASSUME NEW o \in Operators, FanOut(o) \/ Report(o) \/ Raise(o) \/ Crash(o) PROVE IndInv'
    BY <1>6, KeepsFanOut, KeepsEnded
  <1>7. ASSUME NEW o \in Operators, provision(o) PROVE IndInv'
    BY <1>7, KeepsEnsureBucket, KeepsCreateSchemas, KeepsActivate DEF provision
  <1>8. ASSUME NEW o \in Operators, deprovision(o) PROVE IndInv'
    BY <1>8, KeepsMark, KeepsDropSchema, KeepsDropRole, KeepsDeleteRow DEF deprovision
  <1>9. ASSUME NEW o \in Operators, NEW s \in Scopes, Refused(o, s) PROVE IndInv'
    BY <1>9, KeepsOver DEF Refused
  <1> QED
    BY <1>1, <1>2, <1>3, <1>4, <1>5, <1>6, <1>7, <1>8, <1>9 DEF Next, Step

LEMMA Inductive == Spec => []IndInv
  BY IndInit, IndNext, PTL DEF Spec

-----------------------------------------------------------------------------
(* The theorems.                                                           *)

\* Every variable of the estate and of the commands keeps its type; a runner
\* never works past the end of its chain.
THEOREM TenancyTypeCorrect == Spec => []TypeOK
  <1>1. IndInv => TypeOK
    BY DEF IndInv
  <1> QED
    BY <1>1, Inductive, PTL

\* A tenant that TenantScopedPool can open a transaction for is one that a whole
\* release was applied to and granted on, whichever commands crashed or raced.
THEOREM ReachableWhole == Spec => []ReachableIsWhole
  <1>1. IndInv => ReachableIsWhole
    BY DEF IndInv, ReachableIsWhole, Reachable, GuardedIsWhole, Buckets
  <1> QED
    BY <1>1, Inductive, PTL

\* ProvisioningService marks a tenant ACTIVE only after its grants.
THEOREM ActiveReachable == Spec => []ActiveIsReachable
  <1>1. IndInv => ActiveIsReachable
    BY DEF IndInv
  <1> QED
    BY <1>1, Inductive, PTL

\* Runners of different releases, at once and on one tenant, never leave a gap
\* in __migration_version.
THEOREM InOrder == Spec => []ChainInOrder
  <1>1. IndInv => ChainInOrder
    BY DEF IndInv
  <1> QED
    BY <1>1, Inductive, PTL

\* A command that exits 0 leaves the tenants it worked on with the bodies of its
\* own checkout, whatever other runners did meanwhile.
THEOREM SuccessAtHead == Spec => []SuccessMeansAtHead
  <1>1. IndInv => SuccessMeansAtHead
    <2> SUFFICES ASSUME IndInv, NEW o \in Operators, result[o] = "ok",
                        NEW t \in FannedOut(o) \ tornDown
                 PROVE  /\ Whole(t, cmd[o].release)
                        /\ \A i \in DOMAIN Chain(t, cmd[o].release) :
                              LET f == Chain(t, cmd[o].release)[i] IN applied[t][f] = Body(o, f)
      BY DEF SuccessMeansAtHead
    <2>1. t \in Tenants /\ t \in Scopes /\ work[o][t].at # "off"
      BY DEF FannedOut, Scopes
    <2>2. work[o][t].at = "ok"
      BY <2>1 DEF IndInv, Phases, PhaseOK
    <2> DEFINE c == Chain(t, cmd[o].release)
    <2>3. \A i \in DOMAIN c : applied[t][c[i]] = Body(o, c[i]) /\ c[i] \in granted[t]
      BY <2>1, <2>2 DEF IndInv, Runners, WorkOK
    <2>4. \A i \in DOMAIN c : c[i] \in Files
      BY <2>1, ChainFacts, Types DEF IndInv
    <2>5. \A i \in DOMAIN c : applied[t][c[i]] # None
      BY <2>1, <2>3, <2>4, Types DEF IndInv
    <2>6. \A i \in DOMAIN c : c[i] \in objects[t]
      BY <2>1, <2>4, <2>5 DEF IndInv, Backed
    <2> QED
      BY <2>3, <2>5, <2>6 DEF Whole
  <1> QED
    BY <1>1, Inductive, PTL

\* Two runners on one tenant: the version row that is there is never rewritten
\* and, short of a teardown, never removed.
THEOREM AppliedOnce == Spec => CommittedOnce
  <1>1. TypeOK /\ [Next]_vars =>
           [\A s \in Scopes \ tornDown', f \in Files :
               applied[s][f] # None => applied'[s][f] = applied[s][f]]_vars
    <2> SUFFICES ASSUME TypeOK, Next, NEW s \in Scopes \ tornDown', NEW f \in Files,
                        applied[s][f] # None
                 PROVE  applied'[s][f] = applied[s][f]
      OBVIOUS
    <2>0. applied \in [Scopes -> [Files -> Bodies \union {None}]]
      BY DEF TypeOK
    <2>1. CASE applied' = applied
      BY <2>1
    <2>2. ASSUME NEW o \in Operators, NEW u \in Scopes, Apply(o, u)
          PROVE  applied'[s][f] = applied[s][f]
      <3>1. /\ applied[u][Due(o, u)] = None
            /\ applied' = [applied EXCEPT ![u][Due(o, u)] = Body(o, Due(o, u))]
        BY <2>2 DEF Apply, CanApply
      <3> QED
        BY <2>0, <3>1
    <2>3. ASSUME NEW o \in Operators, DropSchema(o) PROVE applied'[s][f] = applied[s][f]
      <3>1. /\ \/ applied' = applied
               \/ applied' = [applied EXCEPT ![cmd[o].tenant] = [g \in Files |-> None]]
            /\ cmd[o].tenant \in tornDown'
        BY <2>3 DEF DropSchema
      <3> QED
        BY <2>0, <3>1
    <2>4. ASSUME NEW o \in Operators,
                 \/ Migrate(o) \/ FanOut(o) \/ Report(o) \/ Raise(o) \/ Crash(o) \/ provision(o)
                 \/ Mark(o) \/ DropRole(o) \/ DeleteRow(o) \/ SharedDone(o)
          PROVE  applied' = applied
      BY <2>4 DEF Migrate, FanOut, Report, Raise, Crash, provision, Mark, DropRole, DeleteRow,
                  SharedDone, EnsureBucket, PutObjectLock, CreateSchemas, Activate, estate
    <2>5. ASSUME NEW o \in Operators, NEW u \in Scopes,
                 \/ ReadApplied(o, u) \/ Verify(o, u) \/ Refused(o, u)
                 \/ Grant(o, u) \/ Provision(o, u) \/ Deprovision(o, u)
          PROVE  applied' = applied
      BY <2>5 DEF ReadApplied, Verify, Refused, Grant, Provision, Deprovision, estate
    <2>6. Shared \in Scopes /\ Tenants \subseteq Scopes
      BY DEF Scopes
    <2> QED
      BY <2>1, <2>2, <2>3, <2>4, <2>5, <2>6 DEF Next, Step, apply_shared, apply_tenant, deprovision
  <1>2. IndInv => TypeOK
    BY DEF IndInv
  <1> QED
    BY <1>1, <1>2, Inductive, PTL DEF Spec, CommittedOnce

=============================================================================
