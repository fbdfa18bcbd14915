----------------------------- MODULE IntakeProofs -----------------------------
(***************************************************************************)
(* Proofs about Intake and the schema pin it ends in, for every number of  *)
(* concurrent uploads, alone or in a batch, of operators and of releases.  *)
(***************************************************************************)
EXTENDS Intake, TLAPS

-----------------------------------------------------------------------------
(* The inductive invariant, in parts.                                      *)

\* What is CURRENT has been published, and a published release stays so.
CurrentPublished == currentRelease # None => edition[currentRelease] >= 1

\* What a pinner has in hand on its way from the CURRENT release to the pin:
\* a published release, then its bytes, then the tenant's copy of them.
PinProgress ==
    \A p \in Pinners :
        /\ pinPc[p] \in {"get", "put", "insert"} =>
              release[p] \in Releases /\ edition[release[p]] >= 1
        /\ pinPc[p] \in {"put", "insert"} => body[p] >= 1
        /\ pinPc[p] = "insert" => snapshot[release[p]] # 0

\* Of the pins on file one is in force: ORDER BY pinned_at DESC, id DESC has a
\* first row.
Latest(i) ==
    \A j \in DOMAIN pins :
        pins[j].at < pins[i].at \/ (pins[j].at = pins[i].at /\ j <= i)
OneInForce == pins # <<>> => \E i \in DOMAIN pins : Latest(i)

\* An upload pins after its ledger row is there.
PinnersRecorded == \A u \in Uploads : pinPc[u] # "off" => u \in ledger

PinInv ==
    /\ PinTypeOK
    /\ CurrentPublished
    /\ PinProgress
    /\ PinnersRecorded
    /\ OneInForce
    /\ PinIsBacked

IntakeTypeOK ==
    /\ batched \in BOOLEAN
    /\ pc \in [Uploads -> {"check", "dedup", "scan", "put", "insert", "lookup", "pin"}
                          \union Stopped]
    /\ file \in [Uploads -> Files]
    /\ objects \in [Uploads -> Files \union {None}]
    /\ ledger \subseteq Uploads
    /\ receipt \in [Uploads -> [id : Uploads, deduplicated : BOOLEAN] \union {None}]

\* Where an upload is says what it has left behind so far: nothing up to the
\* PUT and after a refusal, the scanned bytes at the INSERT, a row at the pin.
Traces ==
    \A u \in Uploads :
        /\ pc[u] \in {"check", "dedup", "scan", "put", "refused"} => objects[u] = None
        /\ pc[u] \notin {"pin", "done", "error"} => u \notin ledger
        /\ pc[u] \in {"put", "insert"} => file[u] \notin Flagged
        /\ pc[u] = "insert" => objects[u] = file[u]
        /\ pc[u] = "pin" => u \in ledger

\* Whatever is stored was scanned, and is what the upload carried.
StoredIsClean ==
    \A u \in Uploads : objects[u] # None => objects[u] = file[u] /\ file[u] \notin Flagged

ReceiveInv ==
    /\ IntakeTypeOK
    /\ Traces
    /\ StoredIsClean
    /\ LedgerIsBacked
    /\ ReceiptsAgree

IndInv == PinInv /\ ReceiveInv

-----------------------------------------------------------------------------
(* Facts about the operators.                                              *)

\* What Append does to a sequence of pins.
LEMMA AppendFacts ==
    ASSUME NEW S, NEW s \in Seq(S), NEW e \in S
    PROVE  /\ Append(s, e) \in Seq(S)
           /\ DOMAIN s = 1 .. Len(s) /\ Len(s) \in Nat
           /\ DOMAIN Append(s, e) = 1 .. (Len(s) + 1)
           /\ Len(Append(s, e)) = Len(s) + 1
           /\ \A i \in 1 .. Len(s) : Append(s, e)[i] = s[i]
           /\ Append(s, e)[Len(s) + 1] = e
           /\ SubSeq(Append(s, e), 1, Len(s)) = s
  OBVIOUS

\* All of a sequence is its own beginning.
LEMMA SubSeqWhole ==
    ASSUME NEW S, NEW s \in Seq(S)
    PROVE  SubSeq(s, 1, Len(s)) = s
  OBVIOUS

\* A row of schema_pin has a release and a time.
LEMMA PinRow ==
    ASSUME PinTypeOK, NEW i \in DOMAIN pins
    PROVE  pins[i].release \in Releases /\ pins[i].at \in Nat
  <1> DEFINE Rows == [release : Releases, sha : 1 .. MaxEditions, at : Nat,
                      by : Uploads \union {None}]
  <1>1. \A e \in Rows : e.release \in Releases /\ e.at \in Nat
    OBVIOUS
  <1>2. pins \in Seq(Rows)
    BY DEF PinTypeOK
  <1> HIDE DEF Rows
  <1>3. pins[i] \in Rows
    BY <1>2
  <1> QED
    BY <1>1, <1>3

-----------------------------------------------------------------------------
(* The pin.                                                                *)

\* Nothing is published and nobody pins at the start.
LEMMA PinInitially == Init => PinInv
  <1> SUFFICES ASSUME Init PROVE PinInv
    OBVIOUS
  <1> USE PinAssumption DEF Init, PinInit
  <1>1. PinTypeOK
    BY DEF PinTypeOK
  <1>2. CurrentPublished /\ PinProgress /\ PinnersRecorded
    BY DEF CurrentPublished, PinProgress, PinnersRecorded, Pinners
  <1>3. PinIsBacked /\ OneInForce
    BY DEF PinIsBacked, OneInForce
  <1> QED
    BY <1>1, <1>2, <1>3 DEF PinInv

\* INSERT .. ON CONFLICT DO NOTHING: the row names a release whose copy is in
\* the tenant's bucket and, for an upload, an artefact in the ledger.
LEMMA InsertPinStep ==
    ASSUME PinInv, NEW p \in Pinners, InsertPin(p), ledger' = ledger
    PROVE  PinInv'
  <1> USE DEF PinInv
  <1> DEFINE row == [release |-> release[p], sha |-> body[p], at |-> pinnedAt[p],
                     by |-> IF p \in Uploads THEN p ELSE None]
             Rows == [release : Releases, sha : 1 .. MaxEditions, at : Nat,
                      by : Uploads \union {None}]
  <1>1. /\ UNCHANGED <<currentRelease, edition, snapshot, clock, pinnedAt, release, body, existing>>
        /\ pinPc' = [pinPc EXCEPT ![p] = "pinned"]
        /\ pins' = pins \/ pins' = Append(pins, row)
        /\ pinPc[p] = "insert"
    BY DEF InsertPin, Goto, platformVars
  <1>2. /\ release[p] \in Releases /\ snapshot[release[p]] # 0
        /\ body[p] \in 1 .. MaxEditions
        /\ p \in Uploads => p \in ledger
    BY <1>1, PinAssumption DEF PinProgress, PinTypeOK, PinnersRecorded
  <1>3. row \in Rows
    BY <1>2 DEF PinTypeOK
  <1>4. pins \in Seq(Rows)
    BY DEF PinTypeOK
  <1>5. /\ row.at \in Nat /\ snapshot[row.release] # 0
        /\ row.by = None \/ row.by \in ledger
    BY <1>2 DEF PinTypeOK
  <1>6. \A i \in DOMAIN pins : pins[i].at \in Nat
    BY PinRow
  <1>7. pins' \in Seq(Rows) => PinTypeOK'
    BY <1>1 DEF PinTypeOK
  <1> HIDE DEF row, Rows
  <1>8. pins' \in Seq(Rows)
    <2>1. Append(pins, row) \in Seq(Rows)
      BY <1>3, <1>4, AppendFacts
    <2> QED
      BY <1>1, <1>4, <2>1
  <1>9. CurrentPublished' /\ PinProgress' /\ PinnersRecorded'
    BY <1>1, <1>2 DEF CurrentPublished, PinProgress, PinnersRecorded, PinTypeOK, Pinners
  <1>10. CASE pins' = pins
    BY <1>1, <1>7, <1>8, <1>9, <1>10 DEF PinIsBacked, OneInForce, Latest
  <1>11. CASE pins' = Append(pins, row)
    <2>1. /\ DOMAIN pins = 1 .. Len(pins) /\ Len(pins) \in Nat
          /\ DOMAIN pins' = 1 .. (Len(pins) + 1)
          /\ \A i \in 1 .. Len(pins) : pins'[i] = pins[i]
          /\ pins'[Len(pins) + 1] = row
      BY <1>3, <1>4, <1>11, AppendFacts
    <2>2. PinIsBacked'
      BY <1>1, <1>5, <2>1 DEF PinIsBacked
    <2>3. OneInForce'
      <3> PICK n \in DOMAIN pins' : n = Len(pins) + 1
        BY <2>1
      <3>1. CASE \A j \in DOMAIN pins : pins[j].at <= row.at
        <4>1. Latest(n)'
          BY <1>5, <1>6, <2>1, <3>1 DEF Latest
        <4> QED
          BY <2>1, <4>1 DEF OneInForce
      <3>2. CASE \E j \in DOMAIN pins : ~(pins[j].at <= row.at)
        <4>1. PICK i \in DOMAIN pins : Latest(i)
          BY <2>1, <3>2 DEF OneInForce
        <4>2. row.at < pins[i].at
          BY <1>5, <1>6, <3>2, <4>1 DEF Latest
        <4>3. Latest(i)'
          BY <2>1, <4>1, <4>2 DEF Latest
        <4> QED
          BY <2>1, <4>1, <4>3 DEF OneInForce
      <3> QED
        BY <3>1, <3>2
    <2> QED
      BY <1>7, <1>8, <1>9, <2>2, <2>3
  <1> QED
    BY <1>1, <1>10, <1>11

\* A step that leaves the pins alone, takes no snapshot away and no row of the
\* ledger back leaves them backed.
LEMMA PinsUntouched ==
    ASSUME PinInv, pins' = pins, ledger \subseteq ledger',
           \A r \in Releases : snapshot[r] # 0 => snapshot'[r] # 0
    PROVE  PinIsBacked' /\ OneInForce'
  <1>1. \A i \in DOMAIN pins : pins[i].release \in Releases
    BY PinRow DEF PinInv
  <1> QED
    BY <1>1 DEF PinInv, PinIsBacked, OneInForce, Latest

\* The pin in force is a release, if there is a pin.
LEMMA InForceType ==
    ASSUME PinInv
    PROVE  InForce(pins) \in Releases \union {None}
  <1>1. CASE pins = <<>>
    BY <1>1 DEF InForce
  <1>2. CASE pins # <<>>
    <2> DEFINE first == CHOOSE i \in DOMAIN pins : Latest(i)
    <2>1. \E i \in DOMAIN pins : Latest(i)
      BY <1>2 DEF PinInv, OneInForce
    <2>2. first \in DOMAIN pins
      BY <2>1
    <2>3. InForce(pins) = pins[first].release
      BY <1>2 DEF InForce, Latest
    <2>4. \A i \in DOMAIN pins : pins[i].release \in Releases
      BY PinRow DEF PinInv
    <2> HIDE DEF first
    <2> QED
      BY <2>2, <2>3, <2>4
  <1> QED
    BY <1>1, <1>2

\* The other steps of a pinning attempt write no pin.
LEMMA PinStepKeeps ==
    ASSUME PinInv, NEW p \in Pinners, PinStep(p), ledger' = ledger
    PROVE  PinInv'
  <1> USE PinAssumption DEF PinInv, Goto, platformVars
  <1>1. CASE CheckExisting(p)
    <2>a. clock' \in Nat /\ pinnedAt' \in [Pinners -> Nat]
      <3>1. \/ clock' = clock /\ pinnedAt' = pinnedAt
            \/ clock' = clock + 1 /\ pinnedAt' = [pinnedAt EXCEPT ![p] = clock + 1]
        BY <1>1, Zenon DEF CheckExisting
      <3>2. clock \in Nat /\ pinnedAt \in [Pinners -> Nat]
        BY DEF PinTypeOK
      <3> QED
        BY <3>1, <3>2
    <2>b. pinPc' = [pinPc EXCEPT ![p] = "kept"] \/ pinPc' = [pinPc EXCEPT ![p] = "read"]
      BY <1>1 DEF CheckExisting
    <2>1. PinTypeOK'
      BY <1>1, <2>a, <2>b DEF CheckExisting, PinTypeOK
    <2>2. CurrentPublished' /\ PinProgress' /\ PinnersRecorded'
      BY <1>1 DEF CheckExisting, PinTypeOK, CurrentPublished, PinProgress,
                  PinnersRecorded, Pinners
    <2> QED
      BY <1>1, <2>1, <2>2, PinsUntouched DEF CheckExisting
  <1>2. CASE NoteExisting(p)
    <2>1. PinTypeOK'
      BY <1>2, InForceType DEF NoteExisting, PinTypeOK
    <2>2. CurrentPublished' /\ PinProgress' /\ PinnersRecorded'
      BY <1>2 DEF NoteExisting, PinTypeOK, CurrentPublished, PinProgress,
                  PinnersRecorded, Pinners
    <2> QED
      BY <1>2, <2>1, <2>2, PinsUntouched DEF NoteExisting
  <1>3. CASE ReadCurrent(p)
    <2>a. clock' \in Nat /\ pinnedAt' \in [Pinners -> Nat]
      BY <1>3 DEF ReadCurrent, PinTypeOK
    <2>b. release' \in [Pinners -> Releases \union {None}]
      BY <1>3 DEF ReadCurrent, PinTypeOK
    <2>c. \/ pinPc' = [pinPc EXCEPT ![p] = "nothing"]
          \/ pinPc' = [pinPc EXCEPT ![p] = "kept"]
          \/ pinPc' = [pinPc EXCEPT ![p] = "get"]
      BY <1>3 DEF ReadCurrent
    <2>1. PinTypeOK'
      BY <1>3, <2>a, <2>b, <2>c DEF ReadCurrent, PinTypeOK
    <2>2. CurrentPublished' /\ PinProgress' /\ PinnersRecorded'
      BY <1>3 DEF ReadCurrent, PinTypeOK, CurrentPublished, PinProgress,
                  PinnersRecorded, Pinners
    <2> QED
      BY <1>3, <2>1, <2>2, PinsUntouched DEF ReadCurrent
  <1>4. CASE GetBody(p)
    <2>1. PinTypeOK'
      BY <1>4 DEF GetBody, PinTypeOK, PinProgress
    <2>2. CurrentPublished' /\ PinProgress' /\ PinnersRecorded'
      BY <1>4 DEF GetBody, PinTypeOK, CurrentPublished, PinProgress,
                  PinnersRecorded, Pinners
    <2> QED
      BY <1>4, <2>1, <2>2, PinsUntouched DEF GetBody
  <1>5. CASE PutSnapshot(p)
    <2>1. /\ release[p] \in Releases /\ body[p] \in 0 .. MaxEditions /\ body[p] # 0
          /\ \A r \in Releases : snapshot[r] # 0 => snapshot'[r] # 0
          /\ snapshot'[release[p]] # 0
      BY <1>5 DEF PutSnapshot, PinTypeOK, PinProgress
    <2>2. PinTypeOK'
      BY <1>5, <2>1 DEF PutSnapshot, PinTypeOK
    <2>3. CurrentPublished' /\ PinProgress' /\ PinnersRecorded'
      BY <1>5, <2>1 DEF PutSnapshot, PinTypeOK, CurrentPublished, PinProgress,
                  PinnersRecorded, Pinners
    <2> QED
      BY <1>5, <2>1, <2>2, <2>3, PinsUntouched DEF PutSnapshot
  <1>6. CASE InsertPin(p)
    BY <1>6, InsertPinStep
  <1>7. CASE PinFails(p)
    <2>1. PinTypeOK'
      BY <1>7 DEF PinFails, PinTypeOK
    <2>2. CurrentPublished' /\ PinProgress' /\ PinnersRecorded'
      BY <1>7 DEF PinFails, PinTypeOK, CurrentPublished, PinProgress,
                  PinnersRecorded, Pinners
    <2> QED
      BY <1>7, <2>1, <2>2, PinsUntouched DEF PinFails
  <1> QED
    BY <1>1, <1>2, <1>3, <1>4, <1>5, <1>6, <1>7 DEF PinStep

\* Publishing a release, promoting one and starting a roll-forward disturb no
\* attempt that is under way.
LEMMA PlatformKeeps ==
    ASSUME PinInv, ledger' = ledger, Publish \/ \E o \in Operators : StartRollForward(o)
    PROVE  PinInv'
  <1> USE PinAssumption DEF PinInv
  <1>1. ASSUME NEW r \in Releases, UploadArtifact(r) PROVE PinInv'
    <2>1. /\ edition' \in [Releases -> 0 .. MaxEditions]
          /\ \A q \in Releases : edition'[q] >= edition[q]
      BY <1>1 DEF UploadArtifact, PinTypeOK
    <2>2. /\ UNCHANGED <<currentRelease, snapshot, pins, clock, pinPc>>
          /\ UNCHANGED <<pinnedAt, release, body, existing>>
      BY <1>1 DEF UploadArtifact, pinVars
    <2>3. PinTypeOK'
      BY <2>1, <2>2 DEF PinTypeOK
    <2>4. CurrentPublished'
      BY <2>1, <2>2 DEF CurrentPublished, PinTypeOK
    <2>5. PinProgress' /\ PinnersRecorded'
      BY <2>1, <2>2 DEF PinProgress, PinnersRecorded, PinTypeOK
    <2> QED
      BY <2>2, <2>3, <2>4, <2>5, PinsUntouched
  <1>2. ASSUME NEW r \in Releases, Promote(r) PROVE PinInv'
    <2>1. UNCHANGED <<edition, snapshot, pins, clock, pinPc, pinnedAt, release, body, existing>>
      BY <1>2 DEF Promote, pinVars
    <2>2. currentRelease' = r /\ edition[r] >= 1
      BY <1>2 DEF Promote, PinTypeOK
    <2>3. PinTypeOK' /\ CurrentPublished' /\ PinProgress' /\ PinnersRecorded'
      BY <2>1, <2>2 DEF PinTypeOK, CurrentPublished, PinProgress, PinnersRecorded
    <2> QED
      BY <2>1, <2>3, PinsUntouched
  <1>3. ASSUME NEW o \in Operators, StartRollForward(o) PROVE PinInv'
    <2>1. PinTypeOK'
      BY <1>3 DEF StartRollForward, Goto, platformVars, PinTypeOK, Pinners
    <2>2. CurrentPublished' /\ PinProgress' /\ PinnersRecorded'
      BY <1>3 DEF StartRollForward, Goto, platformVars, PinTypeOK, CurrentPublished,
                  PinProgress, PinnersRecorded, Pinners
    <2> QED
      BY <1>3, <2>1, <2>2, PinsUntouched DEF StartRollForward
  <1> QED
    BY <1>1, <1>2, <1>3 DEF Publish

\* receive moves the pin's place only when it enters the pin, with its row in
\* the ledger, and when it dies in it.
LEMMA ReceiveKeepsPin ==
    ASSUME PinInv, ledger \subseteq ledger', platformVars' = platformVars,
           UNCHANGED <<snapshot, pins, clock, pinnedAt, release, body, existing>>,
           NEW u \in Uploads,
           \/ pinPc' = pinPc
           \/ pinPc' = [pinPc EXCEPT ![u] = "check"] /\ u \in ledger'
           \/ pinPc' = [pinPc EXCEPT ![u] = "failed"] /\ u \in ledger'
    PROVE  PinInv'
  <1> USE PinAssumption DEF PinInv
  <1>1. u \in Pinners /\ UNCHANGED <<currentRelease, edition>>
    BY DEF Pinners, platformVars
  <1>2. PinTypeOK'
    BY <1>1 DEF PinTypeOK
  <1>3. CurrentPublished' /\ PinProgress' /\ PinnersRecorded'
    BY <1>1 DEF PinTypeOK, CurrentPublished, PinProgress, PinnersRecorded, Pinners
  <1> QED
    BY <1>2, <1>3, PinsUntouched

-----------------------------------------------------------------------------
(* receive.                                                                *)

\* Nothing was received yet.
LEMMA ReceiveInitially == Init => ReceiveInv
  BY PinAssumption, FlaggedAssumption
     DEF Init, ReceiveInv, IntakeTypeOK, Traces, StoredIsClean, LedgerIsBacked, ReceiptsAgree,
         Stopped

\* A step that moves one upload on and writes nothing.
LEMMA MoveOn ==
    ASSUME ReceiveInv, NEW u \in Uploads, NEW where, To(u, where),
           UNCHANGED <<batched, file, objects, ledger, receipt>>,
           \/ pc[u] = "check" /\ where \in {"dedup", "refused"}
           \/ pc[u] = "dedup" /\ where = "scan"
           \/ pc[u] = "scan" /\ where = "refused"
           \/ pc[u] = "scan" /\ where = "put" /\ file[u] \notin Flagged
           \/ pc[u] = "insert" /\ where = "lookup"
    PROVE  ReceiveInv'
  <1> USE DEF ReceiveInv
  <1>1. IntakeTypeOK'
    BY DEF IntakeTypeOK, To, Stopped
  <1>2. Traces'
    BY DEF Traces, IntakeTypeOK, To
  <1>3. StoredIsClean' /\ LedgerIsBacked' /\ ReceiptsAgree'
    BY DEF StoredIsClean, LedgerIsBacked, ReceiptsAgree, Holders
  <1> QED
    BY <1>1, <1>2, <1>3

\* A receipt names an artefact with the same bytes: the upload's own, if it
\* pinned it, and otherwise another one.
LEMMA Answering ==
    ASSUME ReceiveInv, NEW u \in Uploads, NEW v \in Holders(file[u]), NEW dedup \in BOOLEAN,
           Return(u, v, dedup), UNCHANGED <<batched, file, objects, ledger>>,
           \/ pc[u] \in {"dedup", "lookup"} /\ dedup = TRUE
           \/ pc[u] = "pin" /\ dedup = FALSE /\ v = u
    PROVE  ReceiveInv'
  <1> USE DEF ReceiveInv
  <1>1. v \in Uploads /\ (dedup <=> v # u)
    BY DEF Holders, IntakeTypeOK, Traces
  <1>2. /\ pc' = [pc EXCEPT ![u] = "done"]
        /\ receipt' = [receipt EXCEPT ![u] = [id |-> v, deduplicated |-> dedup]]
    BY DEF Return, To
  <1>3. IntakeTypeOK'
    BY <1>1, <1>2 DEF IntakeTypeOK, Stopped
  <1>4. Traces'
    BY <1>2 DEF Traces, IntakeTypeOK
  <1>5. StoredIsClean' /\ LedgerIsBacked'
    BY DEF StoredIsClean, LedgerIsBacked, Holders
  <1>6. ReceiptsAgree'
    <2>1. Holders(file[u])' = Holders(file[u]) /\ \A x \in Uploads : Holders(file[x])' = Holders(file[x])
      BY DEF Holders
    <2>2. \A x \in Uploads : x # u => receipt'[x] = receipt[x]
      BY <1>2 DEF IntakeTypeOK
    <2>3. receipt'[u].id = v /\ receipt'[u].deduplicated = dedup
      BY <1>2 DEF IntakeTypeOK
    <2> QED
      BY <1>1, <2>1, <2>2, <2>3 DEF ReceiptsAgree
  <1> QED
    BY <1>3, <1>4, <1>5, <1>6

\* The bytes are stored under the upload's own key, once.
LEMMA Storing ==
    ASSUME ReceiveInv, NEW u \in Uploads, PutObject(u)
    PROVE  ReceiveInv'
  <1> USE DEF ReceiveInv, PutObject, To
  <1>1. IntakeTypeOK'
    BY DEF IntakeTypeOK, Stopped
  <1>2. u \notin ledger /\ \A x \in Uploads : x # u => objects'[x] = objects[x]
    BY DEF Traces, IntakeTypeOK
  <1>3. Traces'
    BY DEF Traces, IntakeTypeOK
  <1>4. StoredIsClean'
    BY DEF StoredIsClean, Traces, IntakeTypeOK
  <1>5. LedgerIsBacked' /\ ReceiptsAgree'
    BY <1>2 DEF LedgerIsBacked, ReceiptsAgree, Holders, IntakeTypeOK
  <1> QED
    BY <1>1, <1>3, <1>4, <1>5

\* The unique index on content_hash: a row is inserted for bytes no row has.
LEMMA Recording ==
    ASSUME ReceiveInv, NEW u \in Uploads, InsertLedger(u)
    PROVE  ReceiveInv'
  <1> USE DEF ReceiveInv
  <1>1. /\ pc[u] = "insert" /\ Holders(file[u]) = {}
        /\ ledger' = ledger \union {u} /\ pc' = [pc EXCEPT ![u] = "pin"]
        /\ UNCHANGED <<batched, file, objects, receipt>>
    BY DEF InsertLedger, To
  <1>2. IntakeTypeOK'
    BY <1>1 DEF IntakeTypeOK, Stopped
  <1>3. Traces' /\ StoredIsClean'
    BY <1>1 DEF Traces, StoredIsClean, IntakeTypeOK
  <1>4. LedgerIsBacked'
    BY <1>1 DEF LedgerIsBacked, Traces, Holders, IntakeTypeOK
  <1>5. ReceiptsAgree'
    BY <1>1 DEF ReceiptsAgree, Holders
  <1> QED
    BY <1>2, <1>3, <1>4, <1>5

\* A failure writes nothing, whatever it takes down with it.
LEMMA Failing ==
    ASSUME ReceiveInv, NEW u \in Uploads, Fail(u)
    PROVE  ReceiveInv'
  <1> USE DEF ReceiveInv
  <1>1. /\ UNCHANGED <<batched, file, objects, ledger, receipt>>
        /\ pc' = [v \in Uploads |-> IF v = u \/ u \in Before(v) THEN "error" ELSE pc[v]]
    BY DEF Fail
  <1>2. \A v \in Uploads : pc'[v] = "error" \/ pc'[v] = pc[v]
    BY <1>1
  <1>3. IntakeTypeOK'
    BY <1>1, <1>2 DEF IntakeTypeOK, Stopped
  <1>4. Traces'
    BY <1>1, <1>2 DEF Traces
  <1>5. StoredIsClean' /\ LedgerIsBacked' /\ ReceiptsAgree'
    BY <1>1 DEF StoredIsClean, LedgerIsBacked, ReceiptsAgree, Holders
  <1> QED
    BY <1>3, <1>4, <1>5

\* Every step of receive.
LEMMA ReceiveStep ==
    ASSUME IndInv, NEW u \in Uploads, Receive(u) \/ Fail(u)
    PROVE  IndInv'
  <1> USE DEF IndInv
  <1>0. ASSUME UNCHANGED <<ledger, platformVars, pinVars>> PROVE PinInv'
    BY <1>0, ReceiveKeepsPin DEF pinVars
  <1>1. CASE CheckFile(u)
    BY <1>0, <1>1, MoveOn DEF CheckFile
  <1>2. CASE Dedup(u)
    <2>1. CASE Holders(file[u]) # {}
      BY <1>0, <1>2, <2>1, Answering DEF Dedup
    <2>2. CASE Holders(file[u]) = {}
      BY <1>0, <1>2, <2>2, MoveOn DEF Dedup
    <2> QED
      BY <2>1, <2>2
  <1>3. CASE Scan(u)
    <2>1. CASE file[u] \in Flagged
      BY <1>0, <1>3, <2>1, MoveOn DEF Scan
    <2>2. CASE file[u] \notin Flagged
      BY <1>0, <1>3, <2>2, MoveOn DEF Scan
    <2> QED
      BY <2>1, <2>2
  <1>4. CASE PutObject(u)
    <2>1. UNCHANGED <<ledger, platformVars, pinVars>>
      BY <1>4 DEF PutObject
    <2> QED
      BY <1>0, <1>4, <2>1, Storing
  <1>5. CASE InsertLedger(u)
    <2>1. PinInv'
      BY <1>5, ReceiveKeepsPin DEF InsertLedger, Goto
    <2> QED
      BY <1>5, <2>1, Recording
  <1>6. CASE LoseRace(u)
    BY <1>0, <1>6, MoveOn DEF LoseRace
  <1>7. CASE LookupWinner(u)
    BY <1>0, <1>7, Answering DEF LookupWinner
  <1>8. CASE Finish(u)
    <2>1. u \in Holders(file[u])
      BY <1>8 DEF Finish, ReceiveInv, Traces, Holders
    <2> QED
      BY <1>0, <1>8, <2>1, Answering DEF Finish
  <1>9. CASE Fail(u)
    <2>1. PinInv'
      <3>1. CASE pinPc[u] = "off"
        BY <1>9, <3>1, ReceiveKeepsPin DEF Fail
      <3>2. CASE pinPc[u] # "off"
        <4>1. u \in ledger /\ ledger' = ledger
          BY <1>9, <3>2 DEF PinInv, PinnersRecorded, Fail
        <4> QED
          BY <1>9, <4>1, ReceiveKeepsPin DEF Fail, Goto
      <3> QED
        BY <3>1, <3>2
    <2> QED
      BY <1>9, <2>1, Failing
  <1> QED
    BY <1>1, <1>2, <1>3, <1>4, <1>5, <1>6, <1>7, <1>8, <1>9 DEF Receive

\* The inductive invariant is one: uploads, pins, operators and publication.
LEMMA IndNext == IndInv /\ [Next]_vars => IndInv'
  <1> SUFFICES ASSUME IndInv, [Next]_vars PROVE IndInv'
    OBVIOUS
  <1>0. ASSUME UNCHANGED intakeVars PROVE ReceiveInv'
    BY <1>0 DEF IndInv, intakeVars, ReceiveInv, IntakeTypeOK, Traces, StoredIsClean,
                LedgerIsBacked, ReceiptsAgree, Holders
  <1>1. ASSUME NEW u \in Uploads, Receive(u) \/ Fail(u) PROVE IndInv'
    BY <1>1, ReceiveStep
  <1>2. ASSUME NEW p \in Pinners, Pinning(p) PROVE IndInv'
    BY <1>0, <1>2, PinStepKeeps DEF IndInv, Pinning, intakeVars
  <1>3. CASE Publishing \/ \E o \in Operators : RollForward(o)
    BY <1>0, <1>3, PlatformKeeps DEF IndInv, Publishing, RollForward, intakeVars
  <1>4. CASE UNCHANGED vars
    <2>1. PinInv'
      BY <1>4 DEF IndInv, vars, intakeVars, platformVars, pinVars, PinInv, PinTypeOK,
             CurrentPublished, PinProgress, PinnersRecorded, OneInForce, Latest, PinIsBacked
    <2> QED
      BY <1>0, <1>4, <2>1 DEF IndInv, vars
  <1> QED
    BY <1>1, <1>2, <1>3, <1>4 DEF Next

-----------------------------------------------------------------------------
(* The theorems.                                                           *)

\* The inductive invariant holds in every state receive can reach.
LEMMA Inductive == Spec => []IndInv
  <1>1. Init => IndInv
    BY PinInitially, ReceiveInitially DEF IndInv
  <1> QED
    BY <1>1, IndNext, PTL DEF Spec

\* Every variable of intake and of the schema pin keeps its type; in particular
\* the release a roll-forward notes as being in force is one, and no pin records
\* the hash of a body that was not there.
THEOREM IntakeTypeCorrect == Spec => []TypeOK
  <1>1. IndInv => TypeOK
    BY DEF IndInv, PinInv, ReceiveInv, IntakeTypeOK, TypeOK
  <1> QED
    BY <1>1, Inductive, PTL

\* Object first, index second: whatever fails in between and however many
\* uploads of the same bytes race, a row of artefact_ledger has its bytes and
\* is the only one with them.
THEOREM LedgerBacked == Spec => []LedgerIsBacked
  <1>1. IndInv => LedgerIsBacked
    BY DEF IndInv, ReceiveInv
  <1> QED
    BY <1>1, Inductive, PTL

\* Every receipt names an artefact of the upload's own bytes that is in the
\* ledger, and says deduplicated exactly when another upload wrote it.
THEOREM ReceiptsTrue == Spec => []ReceiptsAgree
  <1>1. IndInv => ReceiptsAgree
    BY DEF IndInv, ReceiveInv
  <1> QED
    BY <1>1, Inductive, PTL

\* A refused upload leaves neither object nor row, and what the scanner flags is
\* never stored, whichever upload carries it and whatever races with it.
THEOREM NoTraceOfRefused == Spec => []RefusedLeavesNoTrace
  <1>1. IndInv => RefusedLeavesNoTrace
    BY FlaggedAssumption
       DEF IndInv, ReceiveInv, Traces, StoredIsClean, RefusedLeavesNoTrace
  <1> QED
    BY <1>1, Inductive, PTL

\* A pin names an artefact in the ledger and a release whose copy is in the
\* tenant's bucket: ensure_schema_pin and roll_forward put the copy first, and
\* no failure, race or new publication takes it away.
THEOREM PinsBacked == Spec => []PinIsBacked
  <1>1. IndInv => PinIsBacked
    BY DEF IndInv, PinInv
  <1> QED
    BY <1>1, Inductive, PTL

\* Bronze is INSERT-only: no step of an upload, of a pin, of an operator or of a
\* publication removes or rewrites a ledger row, an object or a pin.
THEOREM BronzeGrows == Spec => BronzeIsInsertOnly
  <1> DEFINE Kept == /\ ledger \subseteq ledger'
                     /\ \A u \in Uploads : objects[u] # None => objects'[u] = objects[u]
                     /\ Len(pins) <= Len(pins') /\ SubSeq(pins', 1, Len(pins)) = pins
             Row == [release : Releases, sha : 1 .. MaxEditions, at : Nat,
                     by : Uploads \union {None}]
  <1>1. ASSUME IndInv
        PROVE  pins \in Seq(Row)
    BY <1>1 DEF IndInv, PinInv, PinTypeOK
  <1>2. ASSUME IndInv, pins' = pins
        PROVE  Len(pins) <= Len(pins') /\ SubSeq(pins', 1, Len(pins)) = pins
    <2>1. pins \in Seq(Row)
      BY <1>1, <1>2
    <2> HIDE DEF Row
    <2>2. Len(pins) \in Nat /\ SubSeq(pins, 1, Len(pins)) = pins
      BY <2>1, SubSeqWhole
    <2> QED
      BY <1>2, <2>2
  <1>3. ASSUME IndInv, NEW u \in Uploads, Receive(u) \/ Fail(u)
        PROVE  Kept
    <2>1. pins' = pins /\ ledger \subseteq ledger'
      BY <1>3 DEF Receive, CheckFile, Dedup, Scan, PutObject, InsertLedger, LoseRace,
                  LookupWinner, Finish, Fail, pinVars
    <2>2. objects' = objects \/ PutObject(u)
      BY <1>3 DEF Receive, CheckFile, Dedup, Scan, InsertLedger, LoseRace,
                  LookupWinner, Finish, Fail
    <2>3. PutObject(u) => objects[u] = None /\ objects' = [objects EXCEPT ![u] = file[u]]
      BY <1>3 DEF PutObject, IndInv, ReceiveInv, Traces
    <2>4. objects \in [Uploads -> Files \union {None}]
      BY <1>3 DEF IndInv, ReceiveInv, IntakeTypeOK
    <2> QED
      BY <1>2, <1>3, <2>1, <2>2, <2>3, <2>4
  <1>4. ASSUME IndInv, NEW p \in Pinners, Pinning(p)
        PROVE  Kept
    <2>1. UNCHANGED <<ledger, objects>>
      BY <1>4 DEF Pinning, intakeVars
    <2>2. CASE ~InsertPin(p)
      <3>1. pins' = pins
        BY <1>4, <2>2 DEF Pinning, PinStep, CheckExisting, NoteExisting, ReadCurrent, GetBody,
                          PutSnapshot, PinFails
      <3> QED
        BY <1>2, <1>4, <2>1, <3>1
    <2>3. CASE InsertPin(p)
      <3> DEFINE row == [release |-> release[p], sha |-> body[p], at |-> pinnedAt[p],
                         by |-> IF p \in Uploads THEN p ELSE None]
      <3>1. pins' = pins \/ pins' = Append(pins, row)
        BY <2>3 DEF InsertPin
      <3>2. release[p] \in Releases /\ body[p] \in 1 .. MaxEditions /\ pinnedAt[p] \in Nat
        BY <1>4, <2>3, PinAssumption DEF InsertPin, IndInv, PinInv, PinTypeOK, PinProgress
      <3>3. row \in Row
        BY <3>2
      <3>4. pins \in Seq(Row)
        BY <1>1, <1>4
      <3> HIDE DEF row, Row
      <3>5. /\ Len(pins) \in Nat /\ Len(Append(pins, row)) = Len(pins) + 1
            /\ SubSeq(Append(pins, row), 1, Len(pins)) = pins
        BY <3>3, <3>4, AppendFacts
      <3>6. CASE pins' = Append(pins, row)
        BY <2>1, <3>5, <3>6
      <3> QED
        BY <1>2, <1>4, <2>1, <3>1, <3>6
    <2> QED
      BY <2>2, <2>3
  <1>5. ASSUME IndInv, Publishing \/ \E o \in Operators : RollForward(o)
        PROVE  Kept
    <2>1. UNCHANGED <<ledger, objects>>
      BY <1>5 DEF Publishing, RollForward, intakeVars
    <2>2. pins' = pins
      BY <1>5 DEF Publishing, Publish, UploadArtifact, Promote, RollForward,
                  StartRollForward, pinVars
    <2> QED
      BY <1>2, <1>5, <2>1, <2>2
  <1>6. IndInv /\ [Next]_vars => [Kept]_vars
    BY <1>3, <1>4, <1>5 DEF Next
  <1> QED
    BY <1>6, Inductive, PTL DEF Spec, BronzeIsInsertOnly

-----------------------------------------------------------------------------
(* receive implements ArtefactStore.                                       *)

\* A file is held as the upload that has its row.
HeldIsHolder ==
    /\ \A f \in Files : Readable(f) = Holders(f)
    /\ \A u \in ledger : Held(file[u]) = u
    /\ \A f \in Files : Held(f) = None <=> Holders(f) = {}

LEMMA HolderIsHeld == IndInv => HeldIsHolder
  <1> SUFFICES ASSUME IndInv PROVE HeldIsHolder
    OBVIOUS
  <1>1. IntakeTypeOK /\ LedgerIsBacked
    BY DEF IndInv, ReceiveInv
  <1>2. ASSUME NEW f \in Files PROVE Readable(f) = Holders(f)
    BY <1>1 DEF Readable, Holders, LedgerIsBacked
  <1>3. ASSUME NEW u \in ledger PROVE Held(file[u]) = u
    <2>1. file[u] \in Files /\ Holders(file[u]) = {u}
      BY <1>1 DEF IntakeTypeOK, LedgerIsBacked
    <2> QED
      BY <1>2, <2>1 DEF Held
  <1>4. ASSUME NEW f \in Files PROVE Held(f) = None <=> Holders(f) = {}
    <2>1. CASE Holders(f) = {}
      BY <1>2, <2>1 DEF Held
    <2>2. CASE Holders(f) # {}
      <3>1. PICK v \in Holders(f) : TRUE
        BY <2>2
      <3>2. v \in ledger /\ file[v] = f /\ v \in Uploads
        BY <1>1, <3>1 DEF Holders, IntakeTypeOK
      <3>3. Held(f) = v /\ v # None
        BY <1>3, <3>2, PinAssumption
      <3> QED
        BY <2>2, <3>3
    <2> QED
      BY <2>1, <2>2
  <1> QED
    BY <1>2, <1>3, <1>4 DEF HeldIsHolder

\* A step that neither inserts a row nor answers shows nothing: bytes without a
\* row are not held.
LEMMA QuietOnStore ==
    ASSUME IndInv, IndInv', UNCHANGED <<file, ledger, receipt>>
    PROVE  UNCHANGED Store!vars
  <1>1. HeldIsHolder /\ HeldIsHolder'
    BY HolderIsHeld, PTL
  <1>2. \A f \in Files : Readable(f)' = Readable(f)
    BY <1>1 DEF HeldIsHolder, Holders
  <1>3. ASSUME NEW f \in Files PROVE Held(f)' = Held(f)
    <2>1. Readable(f)' = Readable(f)
      BY <1>2
    <2> QED
      BY <2>1 DEF Held
  <1> QED
    BY <1>3 DEF Store!vars

\* The insert of the ledger row keeps the file.
LEMMA InsertKeeps ==
    ASSUME IndInv, IndInv', NEW u \in Uploads, InsertLedger(u)
    PROVE  Store!Keep(u)
  <1>1. HeldIsHolder /\ HeldIsHolder'
    BY HolderIsHeld, PTL
  <1>2. /\ pc[u] = "insert" /\ Holders(file[u]) = {}
        /\ ledger' = ledger \union {u}
        /\ UNCHANGED <<file, receipt>>
    BY DEF InsertLedger
  <1>3. file[u] \in Files /\ file[u] \notin Flagged
    BY <1>2 DEF IndInv, ReceiveInv, IntakeTypeOK, Traces
  <1>4. Held(file[u]) = None
    BY <1>1, <1>2, <1>3 DEF HeldIsHolder
  <1>5. Held(file[u])' = u
    BY <1>1, <1>2 DEF HeldIsHolder
  <1>6. ASSUME NEW f \in Files, f # file[u]
        PROVE  Held(f)' = Held(f)
    <2>1. Holders(f)' = Holders(f)
      BY <1>2, <1>6 DEF Holders
    <2>2. Readable(f)' = Readable(f)
      BY <1>1, <2>1 DEF HeldIsHolder
    <2> QED
      BY <2>2 DEF Held
  <1> DEFINE held == [f \in Files |-> Held(f)]
  <1>7. held' = [held EXCEPT ![file[u]] = u]
    <2>1. \A f \in Files : Held(f)' = IF f = file[u] THEN u ELSE Held(f)
      <3>1. ASSUME NEW f \in Files PROVE Held(f)' = IF f = file[u] THEN u ELSE Held(f)
        <4>1. CASE f = file[u]
          BY <1>2, <1>5, <4>1
        <4>2. CASE f # file[u]
          BY <1>6, <4>2
        <4> QED
          BY <4>1, <4>2
      <3> QED
        BY <3>1
    <2> QED
      BY <2>1
  <1> QED
    BY <1>2, <1>3, <1>4, <1>7 DEF Store!Keep

\* A file of a batch is not taken up before the ones ahead of it are answered;
\* so no failure of one undoes the answer of another.
BatchOrder ==
    \A v \in Uploads : \A u \in Before(v) :
        pc[v] \notin {"check", "error"} => pc[u] \in {"refused", "done"}

AnsweredIsDone == \A u \in Uploads : receipt[u] # None => pc[u] = "done"

StoreInv == IndInv /\ BatchOrder /\ AnsweredIsDone

\* An upload that goes on, when it is its turn if it had not started.
LEMMA GoesOn ==
    ASSUME StoreInv, NEW u \in Uploads, NEW where, To(u, where), batched' = batched,
           pc[u] \notin Stopped,
           pc[u] = "check" => Turn(u),
           where = "done" \/ receipt' = receipt,
           \A v \in Uploads : v # u => receipt'[v] = receipt[v]
    PROVE  BatchOrder' /\ AnsweredIsDone'
  <1>1. pc \in [Uploads -> {"check", "dedup", "scan", "put", "insert", "lookup", "pin"}
                             \union Stopped]
    BY DEF StoreInv, IndInv, ReceiveInv, IntakeTypeOK
  <1>2. /\ pc'[u] = where
        /\ \A v \in Uploads : v # u => pc'[v] = pc[v]
        /\ \A v : Before(v)' = Before(v)
    BY <1>1 DEF To, Before
  <1>3. AnsweredIsDone'
    BY <1>2 DEF StoreInv, AnsweredIsDone, Stopped
  <1>4. ASSUME NEW v \in Uploads, NEW x \in Before(v), pc'[v] \notin {"check", "error"}
        PROVE  pc'[x] \in {"refused", "done"}
    <2>1. x \in Uploads
      BY DEF Before
    <2>2. pc[x] \in {"refused", "done"}
      <3>1. CASE v = u
        <4>1. CASE pc[u] = "check"
          BY <3>1, <4>1 DEF Turn
        <4>2. CASE pc[u] # "check"
          <5>1. pc[u] \notin {"check", "error"}
            BY <4>2 DEF Stopped
          <5> QED
            BY <3>1, <5>1 DEF StoreInv, BatchOrder
        <4> QED
          BY <4>1, <4>2
      <3>2. CASE v # u
        BY <1>2, <1>4, <3>2 DEF StoreInv, BatchOrder
      <3> QED
        BY <3>1, <3>2
    <2>3. x # u
      BY <2>2 DEF Stopped
    <2> QED
      BY <1>2, <2>1, <2>2, <2>3
  <1>5. BatchOrder'
    BY <1>2, <1>4 DEF BatchOrder
  <1> QED
    BY <1>3, <1>5

\* A failure takes down only files that were not taken up yet.
LEMMA FailsAlone ==
    ASSUME StoreInv, NEW u \in Uploads, Fail(u)
    PROVE  BatchOrder' /\ AnsweredIsDone'
  <1>1. /\ pc[u] \notin Stopped
        /\ UNCHANGED <<batched, receipt>>
        /\ pc' = [v \in Uploads |-> IF v = u \/ u \in Before(v) THEN "error" ELSE pc[v]]
    BY DEF Fail
  <1>2. \A v : Before(v)' = Before(v) /\ Before(v) \subseteq Uploads
    BY <1>1 DEF Before
  <1>3. ASSUME NEW v \in Uploads, pc[v] \in {"refused", "done"}
        PROVE  pc'[v] = pc[v]
    <2>1. v # u
      BY <1>1, <1>3 DEF Stopped
    <2>2. u \notin Before(v)
      <3> SUFFICES ASSUME u \in Before(v) PROVE FALSE
        OBVIOUS
      <3>1. pc[v] \notin {"check", "error"}
        BY <1>3
      <3>2. pc[u] \in {"refused", "done"}
        BY <3>1 DEF StoreInv, BatchOrder
      <3> QED
        BY <1>1, <3>2 DEF Stopped
    <2> QED
      BY <1>1, <2>1, <2>2
  <1>4. AnsweredIsDone'
    BY <1>1, <1>3 DEF StoreInv, AnsweredIsDone
  <1>5. ASSUME NEW v \in Uploads, NEW x \in Before(v), pc'[v] \notin {"check", "error"}
        PROVE  pc'[x] \in {"refused", "done"}
    <2>1. pc'[v] = pc[v] /\ x \in Uploads
      BY <1>1, <1>2, <1>5
    <2>2. pc[x] \in {"refused", "done"}
      BY <1>5, <2>1 DEF StoreInv, BatchOrder
    <2> QED
      BY <1>3, <2>1, <2>2
  <1>6. BatchOrder'
    BY <1>2, <1>5 DEF BatchOrder
  <1> QED
    BY <1>4, <1>6

LEMMA StoreNext == StoreInv /\ [Next]_vars => StoreInv'
  <1> SUFFICES ASSUME StoreInv, [Next]_vars PROVE StoreInv'
    OBVIOUS
  <1>1. IndInv'
    BY IndNext DEF StoreInv
  <1>2. receipt \in [Uploads -> [id : Uploads, deduplicated : BOOLEAN] \union {None}]
    BY DEF StoreInv, IndInv, ReceiveInv, IntakeTypeOK
  <1>3. ASSUME NEW u \in Uploads, Receive(u)
        PROVE  BatchOrder' /\ AnsweredIsDone'
    <2>1. PICK where :
             /\ To(u, where) /\ batched' = batched /\ pc[u] \notin Stopped
             /\ pc[u] = "check" => Turn(u)
             /\ where = "done" \/ receipt' = receipt
             /\ \A v \in Uploads : v # u => receipt'[v] = receipt[v]
      <3>1. CASE CheckFile(u)
        BY <3>1 DEF CheckFile, Stopped
      <3>2. CASE Dedup(u)
        BY <1>2, <3>2 DEF Dedup, Return, Stopped
      <3>3. CASE Scan(u)
        BY <3>3 DEF Scan, Stopped
      <3>4. CASE PutObject(u)
        BY <3>4 DEF PutObject, Stopped
      <3>5. CASE InsertLedger(u)
        BY <3>5 DEF InsertLedger, Stopped
      <3>6. CASE LoseRace(u)
        BY <3>6 DEF LoseRace, Stopped
      <3>7. CASE LookupWinner(u)
        BY <1>2, <3>7 DEF LookupWinner, Return, Stopped
      <3>8. CASE Finish(u)
        BY <1>2, <3>8 DEF Finish, Return, Stopped
      <3> QED
        BY <1>3, <3>1, <3>2, <3>3, <3>4, <3>5, <3>6, <3>7, <3>8 DEF Receive
    <2> QED
      BY <2>1, GoesOn
  <1>4. ASSUME UNCHANGED intakeVars
        PROVE  BatchOrder' /\ AnsweredIsDone'
    BY <1>4 DEF intakeVars, StoreInv, BatchOrder, AnsweredIsDone, Before
  <1> QED
    BY <1>1, <1>3, <1>4, FailsAlone
       DEF Next, Pinning, RollForward, Publishing, vars, StoreInv

\* Every answer, of whichever branch of receive, tells what is held, and that it
\* is new exactly when it is the upload itself.
LEMMA AnswerTells ==
    ASSUME StoreInv, IndInv', NEW u \in Uploads, NEW v \in Holders(file[u]), NEW dedup \in BOOLEAN,
           dedup <=> v # u, pc[u] # "done", Return(u, v, dedup),
           UNCHANGED <<file, objects, ledger>>
    PROVE  Store!Tell(u)
  <1>1. IntakeTypeOK /\ HeldIsHolder
    BY HolderIsHeld DEF StoreInv, IndInv, ReceiveInv
  <1>2. receipt[u] = None
    BY DEF StoreInv, AnsweredIsDone
  <1>3. v \in Uploads /\ v \in ledger /\ file[v] = file[u] /\ file[u] \in Files
    BY <1>1 DEF Holders, IntakeTypeOK
  <1>4. Held(file[u]) = v /\ v # None
    BY <1>1, <1>3, PinAssumption DEF HeldIsHolder
  <1>5. \A f \in Files : Readable(f)' = Readable(f)
    BY DEF Readable
  <1>6. ASSUME NEW f \in Files PROVE Held(f)' = Held(f)
    <2>1. Readable(f)' = Readable(f)
      BY <1>5
    <2> QED
      BY <2>1 DEF Held
  <1>7. receipt' = [receipt EXCEPT ![u] = [id |-> v, deduplicated |-> dedup]]
    BY DEF Return
  <1>8. dedup = (Held(file[u]) # u)
    BY <1>4
  <1> QED
    BY <1>2, <1>3, <1>4, <1>6, <1>7, <1>8 DEF Store!Tell

\* However uploads race and fail, to those who upload object store and ledger
\* are one store that keeps a file once and answers an upload once.
THEOREM IntakeIsAStore == Spec => ImplementsArtefactStore
  <1>1. Init => StoreInv
    BY PinInitially, ReceiveInitially DEF Init, StoreInv, IndInv, BatchOrder, AnsweredIsDone
  <1>2. Init => Store!Init
    <2> SUFFICES ASSUME Init PROVE Store!Init
      OBVIOUS
    <2>1. \A f \in Files : Held(f) = None
      BY DEF Init, Held, Readable
    <2> QED
      BY <2>1 DEF Init, Store!Init
  <1>3. StoreInv /\ StoreInv' /\ [Next]_vars => [Store!Next]_(Store!vars)
    <2> SUFFICES ASSUME StoreInv, StoreInv', [Next]_vars
                 PROVE  Store!Next \/ UNCHANGED Store!vars
      OBVIOUS
    <2>1. IndInv /\ IndInv'
      BY DEF StoreInv
    <2>2. CASE UNCHANGED <<file, ledger, receipt>>
      BY <2>1, <2>2, QuietOnStore
    <2>3. ASSUME NEW u \in Uploads, InsertLedger(u)
          PROVE  Store!Next
      BY <2>1, <2>3, InsertKeeps DEF Store!Next
    <2>4. ASSUME NEW u \in Uploads, Dedup(u) \/ LookupWinner(u) \/ Finish(u)
          PROVE  Store!Next \/ UNCHANGED <<file, ledger, receipt>>
      <3>1. \/ UNCHANGED <<file, ledger, receipt>>
            \/ \E v \in Holders(file[u]), dedup \in BOOLEAN :
                  /\ Return(u, v, dedup) /\ (dedup <=> v # u)
                  /\ pc[u] # "done"
                  /\ UNCHANGED <<file, objects, ledger>>
        <4>1. CASE Dedup(u)
          <5>1. u \notin Holders(file[u])
            BY <2>1, <4>1 DEF Dedup, IndInv, ReceiveInv, Traces, Holders
          <5> QED
            BY <4>1, <5>1 DEF Dedup
        <4>2. CASE LookupWinner(u)
          <5>1. u \notin Holders(file[u])
            BY <2>1, <4>2 DEF LookupWinner, IndInv, ReceiveInv, Traces, Holders
          <5> QED
            BY <4>2, <5>1 DEF LookupWinner
        <4>3. CASE Finish(u)
          <5>1. u \in Holders(file[u])
            BY <2>1, <4>3 DEF Finish, IndInv, ReceiveInv, Traces, Holders
          <5> QED
            BY <4>3, <5>1 DEF Finish
        <4> QED
          BY <2>4, <4>1, <4>2, <4>3
      <3> QED
        BY <2>1, <3>1, AnswerTells DEF Store!Next
    <2>5. \/ UNCHANGED <<file, ledger, receipt>>
          \/ \E u \in Uploads : \/ InsertLedger(u)
                                \/ Dedup(u) \/ LookupWinner(u) \/ Finish(u)
      BY DEF Next, Receive, CheckFile, Scan, PutObject, LoseRace, Fail, Pinning,
             RollForward, Publishing, vars, intakeVars
    <2> QED
      BY <2>2, <2>3, <2>4, <2>5
  <1> QED
    BY <1>1, <1>2, <1>3, StoreNext, PTL DEF Spec, Store!Spec, ImplementsArtefactStore
===============================================================================
