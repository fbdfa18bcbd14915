------------------------------ MODULE SchemaPin ------------------------------
(***************************************************************************)
(* Which published schema release a tenant is on, for one document type:   *)
(* ensure_schema_pin as ingestion runs it after an upload, roll_forward as *)
(* an operator runs it, and the publication of releases underneath both.   *)
(*                                                                         *)
(* schema_pin is INSERT-only, so pins is a sequence and a pin's position   *)
(* its identity column.  The bytes of a release are an edition number:     *)
(* publishing a release again writes a new edition under the same key.     *)
(***************************************************************************)
EXTENDS Naturals, Sequences, FiniteSets

CONSTANTS Uploads,      \* uploads, each pinning at most once
          Operators,    \* runs of tenantctl reschema
          Releases,
          None,         \* no release, no pin, no upload
          MaxEditions   \* bound on how often a release is published

ASSUME PinAssumption ==
    /\ Uploads \intersect Operators = {}
    /\ None \notin Uploads \union Operators \union Releases
    /\ MaxEditions \in Nat

Pinners == Uploads \union Operators

VARIABLES
    currentRelease,  \* the schema_release with status CURRENT, or None
    edition,         \* per release: what the platform bucket holds (0: nothing)
    snapshot,        \* per release: what the tenant's schema/<release>/ key holds
    pins,            \* bronze.schema_pin, in identity order
    clock,           \* the wall clock, read once per pinning attempt
    pinPc,           \* per pinner: where it is
    pinnedAt,        \* per pinner: the pinned_at it will write
    release,         \* per pinner: the release it read as CURRENT
    body,            \* per pinner: the schema bytes it fetched
    existing         \* per operator: the release in force when it started

platformVars == <<currentRelease, edition>>
pinVars == <<snapshot, pins, clock, pinPc, pinnedAt, release, body, existing>>

PinTypeOK ==
    /\ currentRelease \in Releases \union {None}
    /\ edition \in [Releases -> 0 .. MaxEditions]
    /\ snapshot \in [Releases -> 0 .. MaxEditions]
    /\ pins \in Seq([release : Releases, sha : 1 .. MaxEditions, at : Nat,
                     by : Uploads \union {None}])
    /\ clock \in Nat
    /\ pinPc \in [Pinners -> {"off", "check", "read", "get", "put", "insert",
                              "pinned", "kept", "nothing", "failed"}]
    /\ pinnedAt \in [Pinners -> Nat]
    /\ release \in [Pinners -> Releases \union {None}]
    /\ body \in [Pinners -> 0 .. MaxEditions]
    /\ existing \in [Pinners -> Releases \union {None}]

PinInit ==
    /\ currentRelease = None
    /\ edition = [r \in Releases |-> 0]
    /\ snapshot = [r \in Releases |-> 0]
    /\ pins = <<>>
    /\ clock = 0
    /\ pinPc = [p \in Pinners |-> "off"]
    /\ pinnedAt = [p \in Pinners |-> 0]
    /\ release = [p \in Pinners |-> None]
    /\ body = [p \in Pinners |-> 0]
    /\ existing = [p \in Pinners |-> None]

-----------------------------------------------------------------------------
(* The platform side: publish_schema_release.                              *)

\* put_platform_artifact overwrites the release's key before the commit.
UploadArtifact(r) ==
    /\ edition[r] < MaxEditions
    /\ edition' = [edition EXCEPT ![r] = @ + 1]
    /\ UNCHANGED <<currentRelease, pinVars>>

\* The commit of publish --promote: one release is CURRENT, the previous one
\* SUPERSEDED.  Any published release may be promoted, an older one too.
Promote(r) ==
    /\ edition[r] > 0
    /\ currentRelease # r
    /\ currentRelease' = r
    /\ UNCHANGED <<edition, pinVars>>

-----------------------------------------------------------------------------
(* current_pin: ORDER BY pinned_at DESC, id DESC.                          *)
InForce(ps) ==
    IF ps = <<>> THEN None
    ELSE ps[CHOOSE i \in DOMAIN ps : \A j \in DOMAIN ps :
                ps[j].at < ps[i].at \/ (ps[j].at = ps[i].at /\ j <= i)].release

Goto(p, where) == pinPc' = [pinPc EXCEPT ![p] = where]

\* ensure_schema_pin returns at once if the type is pinned, and otherwise
\* fixes pinned_at before it reads the CURRENT release.
CheckExisting(u) ==
    /\ u \in Uploads
    /\ pinPc[u] = "check"
    /\ IF pins # <<>>
       THEN Goto(u, "kept") /\ UNCHANGED <<clock, pinnedAt>>
       ELSE /\ Goto(u, "read")
            /\ clock' = clock + 1
            /\ pinnedAt' = [pinnedAt EXCEPT ![u] = clock + 1]
    /\ UNCHANGED <<platformVars, snapshot, pins, release, body, existing>>

\* roll_forward only notes the pin in force.
NoteExisting(o) ==
    /\ o \in Operators
    /\ pinPc[o] = "check"
    /\ Goto(o, "read")
    /\ existing' = [existing EXCEPT ![o] = InForce(pins)]
    /\ UNCHANGED <<platformVars, snapshot, pins, clock, pinnedAt, release, body>>

\* The SCHEMA artifact of the CURRENT release; None if nothing is published.
\* roll_forward stops if the tenant is on it already, and fixes pinned_at here.
ReadCurrent(p) ==
    /\ pinPc[p] = "read"
    /\ \/ /\ currentRelease = None
          /\ Goto(p, "nothing")
          /\ UNCHANGED <<clock, pinnedAt, release>>
       \/ /\ currentRelease # None
          /\ existing[p] = currentRelease
          /\ Goto(p, "kept")
          /\ UNCHANGED <<clock, pinnedAt, release>>
       \/ /\ currentRelease # None
          /\ existing[p] # currentRelease
          /\ Goto(p, "get")
          /\ release' = [release EXCEPT ![p] = currentRelease]
          /\ IF p \in Operators
             THEN clock' = clock + 1 /\ pinnedAt' = [pinnedAt EXCEPT ![p] = clock + 1]
             ELSE UNCHANGED <<clock, pinnedAt>>
    /\ UNCHANGED <<platformVars, snapshot, pins, body, existing>>

\* Wrong on purpose: the pin is inserted before its copy is in the bucket.
GetBodyAndPin(p) ==
    /\ pinPc[p] = "get"
    /\ body' = [body EXCEPT ![p] = edition[release[p]]]
    /\ Goto(p, "insert")
    /\ UNCHANGED <<platformVars, snapshot, pins, clock, pinnedAt, release, existing>>

GetBody(p) ==
    /\ pinPc[p] = "get"
    /\ body' = [body EXCEPT ![p] = edition[release[p]]]
    /\ Goto(p, "put")
    /\ UNCHANGED <<platformVars, snapshot, pins, clock, pinnedAt, release, existing>>

\* put_schema_snapshot: the key names the release, not the attempt.
PutSnapshot(p) ==
    /\ pinPc[p] = "put"
    /\ snapshot' = [snapshot EXCEPT ![release[p]] = body[p]]
    /\ Goto(p, "insert")
    /\ UNCHANGED <<platformVars, pins, clock, pinnedAt, release, body, existing>>

\* ON CONFLICT (doc_type_code, release_version) DO NOTHING.
InsertPin(p) ==
    /\ pinPc[p] = "insert"
    /\ pins' = IF \E i \in DOMAIN pins : pins[i].release = release[p]
               THEN pins
               ELSE Append(pins, [release |-> release[p], sha |-> body[p],
                                  at |-> pinnedAt[p],
                                  by |-> IF p \in Uploads THEN p ELSE None])
    /\ Goto(p, "pinned")
    /\ UNCHANGED <<platformVars, snapshot, clock, pinnedAt, release, body, existing>>

\* The store or the database fails: ensure_schema_pin swallows it,
\* roll_forward raises; either way the attempt is over.
PinFails(p) ==
    /\ pinPc[p] \in {"check", "read", "get", "put", "insert"}
    /\ Goto(p, "failed")
    /\ UNCHANGED <<platformVars, snapshot, pins, clock, pinnedAt, release, body, existing>>

StartRollForward(o) ==
    /\ pinPc[o] = "off"
    /\ Goto(o, "check")
    /\ UNCHANGED <<platformVars, snapshot, pins, clock, pinnedAt, release, body, existing>>

PinStep(p) ==
    \/ CheckExisting(p) \/ NoteExisting(p) \/ ReadCurrent(p) \/ GetBody(p)
    \/ PutSnapshot(p) \/ InsertPin(p) \/ PinFails(p)

Publish == \E r \in Releases : UploadArtifact(r) \/ Promote(r)

PinOver == {"pinned", "kept", "nothing", "failed"}
=============================================================================
