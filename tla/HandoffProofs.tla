---------------------------- MODULE HandoffProofs ----------------------------
(***************************************************************************)
(* Proofs about Handoff, for every set of batches and workers, every       *)
(* number of versions, every page size and every overlap window longer     *)
(* than the longest ingest transaction.                                    *)
(***************************************************************************)
EXTENDS Handoff, TLAPS

-----------------------------------------------------------------------------
(* The inductive invariant, in parts.                                      *)

\* A batch in a page is committed, hence its ready_at is final.
PageReady ==
    \A w \in Workers : \A i \in 1 .. Len(page[w]) : status[page[w][i]] = "READY"

\* A worker that is executing has something to execute.
PageNonEmpty ==
    \A w \in Workers : pc[w] \in {"draining", "recording"} => page[w] # <<>>

\* Nothing is dated in the future, and a poll's watermark is not ahead of
\* the one in the table.
Clocks ==
    /\ \A b \in Batches : readyAt[b] <= now
    /\ watermark <= now
    /\ \A w \in Workers : seen[w] <= watermark

\* Executing entry i of a page cannot push the window past a batch nobody has
\* executed: that batch is earlier in the same page, or younger than entry i
\* minus the overlap.
PageOrder ==
    \A w \in Workers : \A i \in 1 .. Len(page[w]) : \A b \in Batches :
        status[b] = "READY" /\ Never(b) =>
            \/ \E j \in 1 .. (i - 1) : page[w][j] = b
            \/ readyAt[b] > readyAt[page[w][i]] - Overlap

\* A key held by an open transaction is held by one worker, uncommitted.
KeyHeldOnce ==
    \A w \in Workers : pc[w] = "recording" =>
        /\ Key(w) \notin executed
        /\ \A u \in Workers : pc[u] = "recording" /\ u # w => Key(u) # Key(w)

IndInv ==
    /\ TypeOK
    /\ PageReady
    /\ PageNonEmpty
    /\ Clocks
    /\ PageOrder
    /\ Discoverable

-----------------------------------------------------------------------------
(* Facts about the operators.                                              *)

\* Dropping the head shifts a page by one.
LEMMA TailShift ==
    ASSUME NEW S, NEW s \in Seq(S), s # <<>>
    PROVE  /\ Tail(s) \in Seq(S)
           /\ Len(Tail(s)) = Len(s) - 1
           /\ Head(s) = s[1]
           /\ 1 \in 1 .. Len(s)
           /\ \A i \in 1 .. Len(Tail(s)) : Tail(s)[i] = s[i + 1] /\ i + 1 \in 1 .. Len(s)
  OBVIOUS

\* A page is a sequence of offered batches.
LEMMA PagesType ==
    ASSUME TypeOK, NEW w \in Workers, NEW s \in Pages(Pending(w))
    PROVE  /\ s \in Seq(Batches)
           /\ \A i \in 1 .. Len(s) : s[i] \in Pending(w)
  <1>1. PICK n \in 0 .. Limit : s \in [1 .. n -> Pending(w)]
    BY DEF Pages
  <1>2. Pending(w) \subseteq Batches
    BY DEF Pending
  <1>3. n \in Nat
    BY <1>1, ConstantsAssumption
  <1>4. s \in Seq(Pending(w)) /\ Len(s) = n
    BY <1>1, <1>3
  <1> QED
    BY <1>1, <1>2, <1>3, <1>4

-----------------------------------------------------------------------------
(* Type correctness.                                                       *)

\* The empty hand-off is well typed.
LEMMA TypeInit == Init => TypeOK
  BY ConstantsAssumption DEF Init, TypeOK, Versions, EPOCH

\* Moving on in a page keeps the types of the page and of the worker's place.
LEMMA NextInPageType ==
    ASSUME TypeOK, NEW w \in Workers, page[w] # <<>>, NextInPage(w)
    PROVE  /\ page' \in [Workers -> Seq(Batches)]
           /\ pc' \in [Workers -> {"idle", "polling", "draining", "recording"}]
  <1>1. Tail(page[w]) \in Seq(Batches)
    BY TailShift DEF TypeOK
  <1> QED
    BY <1>1 DEF NextInPage, TypeOK

\* Every step keeps the types, as long as an executing worker has a page.
LEMMA TypeNext == TypeOK /\ PageNonEmpty /\ [Next]_vars => TypeOK'
  <1> SUFFICES ASSUME TypeOK, PageNonEmpty, [Next]_vars
               PROVE  TypeOK'
    OBVIOUS
  <1> USE ConstantsAssumption
  <1>1. CASE Tick
    BY <1>1 DEF TypeOK, Tick, silverVars, goldVars, workerVars
  <1>2. CASE PurgeTopic
    BY <1>2 DEF TypeOK, PurgeTopic, silverVars, goldVars, workerVars
  <1>3. ASSUME NEW b \in Batches, Ingest(b)
        PROVE  TypeOK'
    <2>1. CASE BeginIngest(b)
      BY <2>1 DEF TypeOK, BeginIngest, goldVars, workerVars
    <2>2. CASE CommitIngest(b)
      BY <2>2 DEF TypeOK, CommitIngest, goldVars, workerVars
    <2>3. CASE AbortIngest(b)
      BY <2>3 DEF TypeOK, AbortIngest, goldVars, workerVars
    <2>4. CASE Publish(b)
      BY <2>4 DEF TypeOK, Publish, silverVars, goldVars, workerVars
    <2> QED
      BY <1>3, <2>1, <2>2, <2>3, <2>4 DEF Ingest
  <1>4. ASSUME NEW w \in Workers, Consume(w)
        PROVE  TypeOK'
    <2>1. CASE ReadWatermark(w)
      BY <2>1 DEF TypeOK, ReadWatermark, silverVars, goldVars
    <2>2. CASE SelectPending(w)
      <3>1. PICK s \in Pages(Pending(w)) :
              /\ page' = [page EXCEPT ![w] = s]
              /\ pc' = [pc EXCEPT ![w] = IF s = <<>> THEN "idle" ELSE "draining"]
        BY <2>2 DEF SelectPending
      <3>2. s \in Seq(Batches)
        BY PagesType
      <3> QED
        BY <2>2, <3>1, <3>2 DEF TypeOK, SelectPending, silverVars, goldVars, EPOCH
    <2>3. CASE InsertExecution(w)
      BY <2>3 DEF TypeOK, InsertExecution, silverVars, goldVars
    <2>4. CASE AlreadyExecuted(w)
      <3>1. page[w] # <<>>
        BY <2>4 DEF AlreadyExecuted, PageNonEmpty
      <3> QED
        BY <2>4, <3>1, NextInPageType DEF TypeOK, AlreadyExecuted, silverVars, goldVars
    <2>5. CASE CommitExecution(w)
      <3>1. page[w] # <<>>
        BY <2>5 DEF CommitExecution, PageNonEmpty
      <3>2. Head(page[w]) \in Batches
        BY <3>1 DEF TypeOK
      <3>3. Key(w) \in Batches \X Versions
        BY <3>2 DEF TypeOK, Key
      <3>4. executed' \subseteq Batches \X Versions
        BY <2>5, <3>3 DEF TypeOK, CommitExecution
      <3>5. facts' \in [Batches \X Versions -> Nat]
        BY <2>5, <3>3 DEF TypeOK, CommitExecution
      <3>6. watermark' \in 0 .. MaxTime
        BY <2>5, <3>2 DEF TypeOK, CommitExecution, AdvanceWatermark
      <3> QED
        BY <2>5, <3>1, <3>4, <3>5, <3>6, NextInPageType DEF TypeOK, CommitExecution, silverVars
    <2>6. CASE Crash(w)
      BY <2>6 DEF TypeOK, Crash, silverVars, goldVars, EPOCH
    <2>7. CASE Upgrade(w)
      BY <2>7 DEF TypeOK, Upgrade, silverVars, goldVars, Versions
    <2> QED
      BY <1>4, <2>1, <2>2, <2>3, <2>4, <2>5, <2>6, <2>7 DEF Consume, Poll, RecordExecution
  <1>5. CASE UNCHANGED vars
    BY <1>5 DEF TypeOK, vars, silverVars, goldVars, workerVars
  <1> QED
    BY <1>1, <1>2, <1>3, <1>4, <1>5 DEF Next

-----------------------------------------------------------------------------
(* The window never moves past a batch nobody has executed.                *)

\* The inductive invariant holds when nothing has been ingested.
LEMMA IndInit == Init => IndInv
  <1> SUFFICES ASSUME Init PROVE IndInv
    OBVIOUS
  <1>1. TypeOK
    BY TypeInit
  <1>2. PageReady /\ PageNonEmpty /\ PageOrder
    BY DEF Init, PageReady, PageNonEmpty, PageOrder
  <1>3. Clocks /\ Discoverable
    BY DEF Init, Clocks, Discoverable, EPOCH
  <1> QED
    BY <1>1, <1>2, <1>3 DEF IndInv

\* Pipeline 1's steps.
LEMMA IngestStep ==
    ASSUME IndInv, NEW b \in Batches, Ingest(b)
    PROVE  PageReady' /\ PageNonEmpty' /\ Clocks' /\ PageOrder' /\ Discoverable'
  <1> USE OverlapAssumption DEF IndInv
  <1>0. /\ pc' = pc /\ page' = page /\ seen' = seen /\ now' = now
        /\ watermark' = watermark /\ executed' = executed
    BY DEF Ingest, BeginIngest, CommitIngest, AbortIngest, Publish, workerVars, goldVars
  <1>1. PageNonEmpty'
    BY <1>0 DEF PageNonEmpty
  <1>2. \A w \in Workers : \A i \in 1 .. Len(page[w]) : page[w][i] \in Batches
    BY DEF TypeOK
  <1>3. CASE BeginIngest(b)
    <2>1. \A c \in Batches : status[c] = "READY" =>
              status'[c] = status[c] /\ readyAt'[c] = readyAt[c]
      BY <1>3 DEF BeginIngest, TypeOK
    <2>2. \A c \in Batches : status'[c] = "READY" => status[c] = "READY"
      BY <1>3 DEF BeginIngest, TypeOK
    <2>3. \A c \in Batches : readyAt'[c] <= now
      BY <1>3 DEF BeginIngest, TypeOK, Clocks
    <2> QED
      BY <1>0, <1>1, <1>2, <2>1, <2>2, <2>3
         DEF PageReady, Clocks, PageOrder, Discoverable, Never
  <1>4. CASE CommitIngest(b)
    <2>1. /\ readyAt' = readyAt
          /\ \A c \in Batches : c # b => status'[c] = status[c]
          /\ \A c \in Batches : status[c] = "READY" => status'[c] = "READY"
      BY <1>4 DEF CommitIngest, TypeOK
    <2>2. now - readyAt[b] < Overlap
      BY <1>4 DEF CommitIngest, TypeOK
    <2>3. PageReady' /\ Clocks'
      BY <1>0, <1>2, <2>1 DEF PageReady, Clocks
    <2>4. Discoverable'
      BY <1>0, <2>1, <2>2 DEF Discoverable, Never, Clocks, TypeOK
    <2>5. ASSUME NEW w \in Workers, NEW i \in 1 .. Len(page[w]), NEW c \in Batches,
                 status'[c] = "READY", Never(c)
          PROVE  \/ \E j \in 1 .. (i - 1) : page[w][j] = c
                 \/ readyAt[c] > readyAt[page[w][i]] - Overlap
      <3>1. CASE c # b
        BY <2>1, <2>5, <3>1 DEF PageOrder
      <3>2. CASE c = b
        <4>1. page[w][i] \in Batches
          BY <1>2
        <4>2. readyAt[page[w][i]] <= now
          BY <4>1 DEF Clocks
        <4> QED
          BY <2>2, <3>2, <4>1, <4>2 DEF TypeOK
      <3> QED
        BY <3>1, <3>2
    <2>6. PageOrder'
      BY <1>0, <2>1, <2>5 DEF PageOrder, Never
    <2> QED
      BY <1>1, <2>3, <2>4, <2>6
  <1>5. CASE AbortIngest(b)
    <2>1. \A c \in Batches : status[c] = "READY" =>
              status'[c] = status[c] /\ readyAt'[c] = readyAt[c]
      BY <1>5 DEF AbortIngest, TypeOK
    <2>2. \A c \in Batches : status'[c] = "READY" => status[c] = "READY"
      BY <1>5 DEF AbortIngest, TypeOK
    <2>3. \A c \in Batches : readyAt'[c] <= now
      BY <1>5 DEF AbortIngest, TypeOK, Clocks
    <2> QED
      BY <1>0, <1>1, <1>2, <2>1, <2>2, <2>3
         DEF PageReady, Clocks, PageOrder, Discoverable, Never
  <1>6. CASE Publish(b)
    BY <1>0, <1>1, <1>6
       DEF Publish, silverVars, PageReady, Clocks, PageOrder, Discoverable, Never
  <1> QED
    BY <1>3, <1>4, <1>5, <1>6 DEF Ingest

\* The worker drops the head of its page, after an execution of that head by
\* itself or by another worker is in the table.
LEMMA DropHead ==
    ASSUME IndInv, TypeOK', NEW w \in Workers, page[w] # <<>>, NextInPage(w),
           status' = status, readyAt' = readyAt, executed \subseteq executed',
           <<Head(page[w]), version[w]>> \in executed'
    PROVE  PageReady' /\ PageNonEmpty' /\ PageOrder'
  <1> USE DEF IndInv
  <1>1. /\ page' = [page EXCEPT ![w] = Tail(page[w])]
        /\ \A u \in Workers : u # w => page'[u] = page[u] /\ pc'[u] = pc[u]
        /\ page'[w] = Tail(page[w])
        /\ pc'[w] = IF Tail(page[w]) = <<>> THEN "idle" ELSE "draining"
    BY DEF NextInPage, TypeOK
  <1>2. /\ Len(page'[w]) = Len(page[w]) - 1
        /\ Head(page[w]) = page[w][1]
        /\ \A i \in 1 .. Len(page'[w]) :
              page'[w][i] = page[w][i + 1] /\ i + 1 \in 1 .. Len(page[w])
    BY <1>1, TailShift DEF TypeOK
  <1>3. PageNonEmpty'
    BY <1>1 DEF PageNonEmpty
  <1>4. PageReady'
    BY <1>1, <1>2 DEF PageReady
  <1>5. \A b \in Batches : Never(b)' => Never(b) /\ b # page[w][1]
    BY <1>2 DEF Never, TypeOK
  <1>6. ASSUME NEW u \in Workers, NEW i \in 1 .. Len(page'[u]), NEW b \in Batches,
               status[b] = "READY", Never(b)'
        PROVE  \/ \E j \in 1 .. (i - 1) : page'[u][j] = b
               \/ readyAt[b] > readyAt[page'[u][i]] - Overlap
    <2>1. CASE u # w
      BY <1>1, <1>5, <1>6, <2>1 DEF PageOrder
    <2>2. CASE u = w
      <3>1. i + 1 \in 1 .. Len(page[w]) /\ page'[w][i] = page[w][i + 1]
        BY <1>2, <2>2
      <3>2. \/ \E j \in 1 .. (i + 1 - 1) : page[w][j] = b
            \/ readyAt[b] > readyAt[page[w][i + 1]] - Overlap
        BY <1>5, <1>6, <3>1 DEF PageOrder
      <3>3. CASE \E j \in 1 .. (i + 1 - 1) : page[w][j] = b
        <4>1. PICK j \in 1 .. (i + 1 - 1) : page[w][j] = b
          BY <3>3
        <4>2. j # 1
          BY <1>5, <1>6, <4>1
        <4>3. j - 1 \in 1 .. (i - 1) /\ j - 1 \in 1 .. Len(page'[w])
          BY <2>2, <4>1, <4>2 DEF TypeOK
        <4>4. page'[w][j - 1] = b
          BY <1>2, <4>1, <4>3
        <4> QED
          BY <2>2, <4>3, <4>4
      <3> QED
        BY <2>2, <3>1, <3>2, <3>3
    <2> QED
      BY <2>1, <2>2
  <1>7. PageOrder'
    BY <1>6 DEF PageOrder
  <1> QED
    BY <1>3, <1>4, <1>7

\* The poll: whatever it leaves out of the page is not older than what it
\* put in, because nothing unexecuted is below the window it selects from.
LEMMA SelectStep ==
    ASSUME IndInv, TypeOK', NEW w \in Workers, SelectPending(w)
    PROVE  PageReady' /\ PageNonEmpty' /\ PageOrder'
  <1> USE OverlapAssumption, ConstantsAssumption DEF IndInv
  <1>1. PICK s \in Pages(Pending(w)) :
          /\ IsPage(s, Pending(w))
          /\ page' = [page EXCEPT ![w] = s]
          /\ pc' = [pc EXCEPT ![w] = IF s = <<>> THEN "idle" ELSE "draining"]
    BY DEF SelectPending
  <1>2. s \in Seq(Batches) /\ \A i \in 1 .. Len(s) : s[i] \in Pending(w)
    BY PagesType
  <1>3. /\ status' = status /\ readyAt' = readyAt /\ executed' = executed
        /\ \A u \in Workers : u # w => page'[u] = page[u] /\ pc'[u] = pc[u]
        /\ page'[w] = s
        /\ pc'[w] = IF s = <<>> THEN "idle" ELSE "draining"
    BY <1>1 DEF SelectPending, silverVars, goldVars, TypeOK
  <1>4. PageNonEmpty'
    BY <1>3 DEF PageNonEmpty
  <1>5. PageReady'
    <2>1. \A i \in 1 .. Len(s) : status[s[i]] = "READY"
      BY <1>2 DEF Pending
    <2> QED
      BY <1>3, <2>1 DEF PageReady
  <1>6. ASSUME NEW i \in 1 .. Len(s), NEW b \in Batches, status[b] = "READY", Never(b)
        PROVE  \/ \E j \in 1 .. (i - 1) : s[j] = b
               \/ readyAt[b] > readyAt[s[i]] - Overlap
    <2>1. readyAt[b] > watermark - Overlap
      BY <1>6 DEF Discoverable
    <2>2. seen[w] <= watermark
      BY DEF Clocks
    <2>3. b \in Pending(w)
      <3>1. readyAt[b] \in Int /\ seen[w] \in Int /\ watermark \in Int /\ version[w] \in Versions
        BY DEF TypeOK
      <3>2. readyAt[b] > seen[w] - Overlap
        BY <2>1, <2>2, <3>1
      <3> QED
        BY <1>6, <3>1, <3>2 DEF Pending, Never
    <2>4. s[i] \in Batches /\ readyAt[s[i]] \in Nat /\ readyAt[b] \in Nat
      <3>1. s[i] \in Batches
        BY <1>2 DEF Pending
      <3> QED
        BY <3>1 DEF TypeOK
    <2>5. CASE \E k \in 1 .. Len(s) : s[k] = b
      <3>1. PICK k \in 1 .. Len(s) : s[k] = b
        BY <2>5
      <3>2. CASE k < i
        BY <3>1, <3>2
      <3>3. CASE k = i
        BY <3>1, <3>3, <2>4
      <3>4. CASE i < k
        <4>1. readyAt[s[i]] <= readyAt[b]
          BY <1>1, <3>1, <3>4 DEF IsPage
        <4> QED
          BY <4>1, <2>4
      <3> QED
        BY <3>2, <3>3, <3>4
    <2>6. CASE ~ \E k \in 1 .. Len(s) : s[k] = b
      <3>1. readyAt[s[i]] <= readyAt[b]
        BY <1>1, <2>3, <2>6 DEF IsPage
      <3> QED
        BY <3>1, <2>4
    <2> QED
      BY <2>5, <2>6
  <1>7. PageOrder'
    BY <1>3, <1>6 DEF PageOrder, Never
  <1> QED
    BY <1>4, <1>5, <1>7

\* Pipeline 2's steps.
LEMMA ConsumeStep ==
    ASSUME IndInv, TypeOK', NEW w \in Workers, Consume(w)
    PROVE  PageReady' /\ PageNonEmpty' /\ Clocks' /\ PageOrder' /\ Discoverable'
  <1> USE OverlapAssumption, ConstantsAssumption DEF IndInv
  <1>1. CASE ReadWatermark(w)
    <2>1. /\ UNCHANGED <<now, status, readyAt, watermark, executed, page>>
          /\ \A u \in Workers : u # w => seen'[u] = seen[u] /\ pc'[u] = pc[u]
          /\ seen'[w] = watermark /\ pc'[w] = "polling"
      BY <1>1 DEF ReadWatermark, silverVars, goldVars, TypeOK
    <2>2. Clocks'
      <3>1. watermark <= watermark
        BY DEF TypeOK
      <3> QED
        BY <2>1, <3>1 DEF Clocks
    <2>3. PageNonEmpty'
      BY <2>1 DEF PageNonEmpty
    <2> QED
      BY <2>1, <2>2, <2>3 DEF PageReady, PageOrder, Discoverable, Never
  <1>2. CASE SelectPending(w)
    <2>1. Clocks' /\ Discoverable'
      BY <1>2 DEF SelectPending, silverVars, goldVars, TypeOK, Clocks, Discoverable, Never, EPOCH
    <2> QED
      BY <1>2, <2>1, SelectStep
  <1>3. CASE InsertExecution(w)
    BY <1>3 DEF InsertExecution, silverVars, goldVars, TypeOK, PageReady, PageNonEmpty,
                Clocks, PageOrder, Discoverable, Never
  <1>4. CASE AlreadyExecuted(w)
    <2>1. page[w] # <<>>
      BY <1>4 DEF AlreadyExecuted, PageNonEmpty
    <2>2. Clocks' /\ Discoverable'
      BY <1>4 DEF AlreadyExecuted, silverVars, goldVars, Clocks, Discoverable, Never
    <2>3. /\ NextInPage(w) /\ status' = status /\ readyAt' = readyAt
          /\ executed \subseteq executed' /\ <<Head(page[w]), version[w]>> \in executed'
      BY <1>4 DEF AlreadyExecuted, silverVars, goldVars, Key
    <2> QED
      BY <2>1, <2>2, <2>3, DropHead
  <1>5. CASE CommitExecution(w)
    <2>1. page[w] # <<>>
      BY <1>5 DEF CommitExecution, PageNonEmpty
    <2>2. /\ NextInPage(w) /\ status' = status /\ readyAt' = readyAt
          /\ executed \subseteq executed' /\ <<Head(page[w]), version[w]>> \in executed'
          /\ now' = now /\ seen' = seen
          /\ watermark' = AdvanceWatermark(readyAt[Head(page[w])])
      BY <1>5 DEF CommitExecution, silverVars, Key
    <2>3. PageReady' /\ PageNonEmpty' /\ PageOrder'
      BY <2>1, <2>2, DropHead
    <2>4. 1 \in 1 .. Len(page[w]) /\ Head(page[w]) = page[w][1] /\ page[w][1] \in Batches
      BY <2>1, TailShift DEF TypeOK
    <2>5. Clocks'
      BY <2>2, <2>4 DEF Clocks, AdvanceWatermark, TypeOK
    <2>6. ASSUME NEW b \in Batches, status[b] = "READY", Never(b)'
          PROVE  readyAt[b] > watermark' - Overlap
      <3>1. Never(b)
        BY <2>2, <2>6 DEF Never
      <3>2. readyAt[b] > watermark - Overlap
        BY <2>6, <3>1 DEF Discoverable
      <3>3. readyAt[b] > readyAt[page[w][1]] - Overlap
        BY <2>4, <2>6, <3>1 DEF PageOrder
      <3> QED
        BY <2>2, <2>4, <3>2, <3>3 DEF AdvanceWatermark
    <2>7. Discoverable'
      BY <2>2, <2>6 DEF Discoverable
    <2> QED
      BY <2>3, <2>5, <2>7
  <1>6. CASE Crash(w)
    <2>1. /\ UNCHANGED <<now, status, readyAt, watermark, executed>>
          /\ \A u \in Workers : u # w =>
                seen'[u] = seen[u] /\ pc'[u] = pc[u] /\ page'[u] = page[u]
          /\ seen'[w] = 0 /\ pc'[w] = "idle" /\ page'[w] = <<>>
      BY <1>6 DEF Crash, silverVars, goldVars, TypeOK, EPOCH
    <2>2. Clocks'
      BY <2>1 DEF Clocks, TypeOK
    <2>3. PageNonEmpty' /\ PageReady'
      BY <2>1 DEF PageNonEmpty, PageReady
    <2>4. PageOrder'
      BY <2>1 DEF PageOrder, Never
    <2> QED
      BY <2>1, <2>2, <2>3, <2>4 DEF Discoverable, Never
  <1>7. CASE Upgrade(w)
    BY <1>7 DEF Upgrade, silverVars, goldVars, TypeOK, PageReady, PageNonEmpty,
                Clocks, PageOrder, Discoverable, Never
  <1> QED
    BY <1>1, <1>2, <1>3, <1>4, <1>5, <1>6, <1>7 DEF Consume, Poll, RecordExecution

\* Every step, of the clock, of Kafka and of both pipelines, preserves the
\* inductive invariant.
LEMMA IndNext == IndInv /\ [Next]_vars => IndInv'
  <1> SUFFICES ASSUME IndInv, [Next]_vars PROVE IndInv'
    OBVIOUS
  <1>0. TypeOK'
    BY TypeNext DEF IndInv
  <1>1. CASE Tick
    <2>1. UNCHANGED <<status, readyAt, watermark, executed, pc, seen, page>> /\ now' = now + 1
      BY <1>1 DEF Tick, silverVars, goldVars, workerVars
    <2>2. Clocks'
      BY <2>1, ConstantsAssumption DEF IndInv, Clocks, TypeOK
    <2> QED
      BY <1>0, <2>1, <2>2 DEF IndInv, PageReady, PageNonEmpty, PageOrder, Discoverable, Never
  <1>2. CASE PurgeTopic
    BY <1>0, <1>2 DEF IndInv, PurgeTopic, silverVars, goldVars, workerVars, PageReady,
                      PageNonEmpty, Clocks, PageOrder, Discoverable, Never
  <1>3. ASSUME NEW b \in Batches, Ingest(b) PROVE IndInv'
    BY <1>0, <1>3, IngestStep DEF IndInv
  <1>4. ASSUME NEW w \in Workers, Consume(w) PROVE IndInv'
    BY <1>0, <1>4, ConsumeStep DEF IndInv
  <1>5. CASE UNCHANGED vars
    BY <1>0, <1>5 DEF IndInv, vars, silverVars, goldVars, workerVars, PageReady,
                      PageNonEmpty, Clocks, PageOrder, Discoverable, Never
  <1> QED
    BY <1>1, <1>2, <1>3, <1>4, <1>5 DEF Next

-----------------------------------------------------------------------------
(* One set of facts per execution key.                                     *)

ExecInv == IndInv /\ KeyHeldOnce /\ FactsExactlyOnce

\* A key stands for a batch and a version whenever a worker is executing.
LEMMA KeyType ==
    ASSUME TypeOK, PageNonEmpty, NEW w \in Workers, pc[w] \in {"draining", "recording"}
    PROVE  Key(w) \in Batches \X Versions
  <1>1. page[w] # <<>>
    BY DEF PageNonEmpty
  <1>2. Head(page[w]) \in Batches
    BY <1>1 DEF TypeOK
  <1> QED
    BY <1>2 DEF Key, TypeOK

\* A step of one worker that does not start or commit an execution leaves the
\* keys held by the others alone and takes no new one.
LEMMA NoNewHolder ==
    ASSUME KeyHeldOnce, executed' = executed, facts' = facts, FactsExactlyOnce,
           \A u \in Workers : pc'[u] = "recording" =>
               pc[u] = "recording" /\ page'[u] = page[u] /\ version'[u] = version[u]
    PROVE  KeyHeldOnce' /\ FactsExactlyOnce'
  <1>1. \A u \in Workers : pc'[u] = "recording" => Key(u)' = Key(u)
    BY DEF Key
  <1>2. KeyHeldOnce'
    BY <1>1 DEF KeyHeldOnce
  <1> QED
    BY <1>2 DEF FactsExactlyOnce

\* record_execution's steps: the unique key admits one open transaction per
\* key, and its commit adds the key and its facts together.
LEMMA ConsumeFacts ==
    ASSUME ExecInv, TypeOK', NEW w \in Workers, Consume(w)
    PROVE  KeyHeldOnce' /\ FactsExactlyOnce'
  <1> USE DEF ExecInv, IndInv
  <1>1. CASE ReadWatermark(w)
    BY <1>1, NoNewHolder DEF ReadWatermark, goldVars, TypeOK
  <1>2. CASE SelectPending(w)
    <2>1. PICK s : /\ page' = [page EXCEPT ![w] = s]
                   /\ pc' = [pc EXCEPT ![w] = IF s = <<>> THEN "idle" ELSE "draining"]
      BY <1>2 DEF SelectPending
    <2> QED
      BY <1>2, <2>1, NoNewHolder DEF SelectPending, goldVars, TypeOK
  <1>3. CASE InsertExecution(w)
    <2>1. /\ executed' = executed /\ facts' = facts
          /\ pc'[w] = "recording"
          /\ \A u \in Workers : u # w => pc'[u] = pc[u]
          /\ \A u \in Workers : Key(u)' = Key(u)
      BY <1>3 DEF InsertExecution, goldVars, TypeOK, Key
    <2>2. /\ Key(w) \notin executed
          /\ \A u \in Workers : pc[u] = "recording" => Key(u) # Key(w)
      BY <1>3 DEF InsertExecution
    <2> QED
      BY <2>1, <2>2 DEF KeyHeldOnce, FactsExactlyOnce
  <1>4. CASE AlreadyExecuted(w)
    BY <1>4, NoNewHolder DEF AlreadyExecuted, NextInPage, goldVars, TypeOK
  <1>5. CASE CommitExecution(w)
    <2>1. Key(w) \in Batches \X Versions /\ Key(w) \notin executed
      BY <1>5, KeyType DEF CommitExecution, KeyHeldOnce
    <2>2. /\ executed' = executed \union {Key(w)}
          /\ facts' = [facts EXCEPT ![Key(w)] = @ + 1]
      BY <1>5 DEF CommitExecution
    <2>3. FactsExactlyOnce'
      <3>1. ASSUME NEW k \in Batches \X Versions, k # Key(w)
            PROVE  facts'[k] = IF k \in executed' THEN 1 ELSE 0
        BY <2>2, <3>1 DEF FactsExactlyOnce, TypeOK
      <3>2. facts'[Key(w)] = 1 /\ Key(w) \in executed'
        BY <2>1, <2>2 DEF FactsExactlyOnce, TypeOK
      <3> QED
        BY <3>1, <3>2 DEF FactsExactlyOnce
    <2>4. \A u \in Workers : pc'[u] = "recording" =>
              u # w /\ pc[u] = "recording" /\ Key(u)' = Key(u)
      BY <1>5 DEF CommitExecution, NextInPage, TypeOK, Key
    <2>5. KeyHeldOnce'
      BY <1>5, <2>2, <2>4 DEF KeyHeldOnce, CommitExecution
    <2> QED
      BY <2>3, <2>5
  <1>6. CASE Crash(w)
    BY <1>6, NoNewHolder DEF Crash, goldVars, TypeOK
  <1>7. CASE Upgrade(w)
    BY <1>7, NoNewHolder DEF Upgrade, goldVars, TypeOK
  <1> QED
    BY <1>1, <1>2, <1>3, <1>4, <1>5, <1>6, <1>7 DEF Consume, Poll, RecordExecution

\* Every step preserves the bookkeeping of execution keys.
LEMMA ExecNext == ExecInv /\ [Next]_vars => ExecInv'
  <1> SUFFICES ASSUME ExecInv, [Next]_vars PROVE ExecInv'
    OBVIOUS
  <1>0. IndInv'
    BY IndNext DEF ExecInv
  <1>1. ASSUME UNCHANGED <<goldVars, workerVars>> PROVE ExecInv'
    BY <1>0, <1>1, NoNewHolder DEF ExecInv, goldVars, workerVars
  <1>2. CASE Tick \/ PurgeTopic \/ UNCHANGED vars
    BY <1>1, <1>2 DEF Tick, PurgeTopic, vars
  <1>3. ASSUME NEW b \in Batches, Ingest(b) PROVE ExecInv'
    BY <1>1, <1>3 DEF Ingest, BeginIngest, CommitIngest, AbortIngest, Publish
  <1>4. ASSUME NEW w \in Workers, Consume(w) PROVE ExecInv'
    BY <1>0, <1>4, ConsumeFacts DEF ExecInv, IndInv
  <1> QED
    BY <1>2, <1>3, <1>4 DEF Next

-----------------------------------------------------------------------------
(* The watermark is the newest execution.                                  *)

\* What was executed is committed, hence its ready_at is final.
ExecutedReady == \A k \in executed : status[k[1]] = "READY"

MarkInv == IndInv /\ ExecutedReady /\ WatermarkIsNewestExecuted

\* A step that writes no Gold and takes no READY batch back moves neither the
\* watermark nor the ready_at of anything executed.
LEMMA MarkUnmoved ==
    ASSUME MarkInv, UNCHANGED <<watermark, executed>>,
           \A b \in Batches : status[b] = "READY" =>
               status'[b] = "READY" /\ readyAt'[b] = readyAt[b]
    PROVE  ExecutedReady' /\ WatermarkIsNewestExecuted'
  <1>1. \A k \in executed : k[1] \in Batches
    BY DEF MarkInv, IndInv, TypeOK
  <1>2. \A k \in executed : status'[k[1]] = "READY" /\ readyAt'[k[1]] = readyAt[k[1]]
    BY <1>1 DEF MarkInv, ExecutedReady
  <1> QED
    BY <1>2 DEF MarkInv, ExecutedReady, WatermarkIsNewestExecuted

\* record_execution's GREATEST: the watermark becomes the batch's ready_at or
\* stays that of an execution that is not older.
LEMMA MarkCommit ==
    ASSUME MarkInv, NEW w \in Workers, CommitExecution(w)
    PROVE  ExecutedReady' /\ WatermarkIsNewestExecuted'
  <1> USE DEF MarkInv, IndInv
  <1>1. page[w] # <<>>
    BY DEF CommitExecution, PageNonEmpty
  <1>2. 1 \in 1 .. Len(page[w]) /\ Head(page[w]) = page[w][1] /\ page[w][1] \in Batches
    BY <1>1, TailShift DEF TypeOK
  <1>3. status[Head(page[w])] = "READY"
    BY <1>2 DEF PageReady
  <1> DEFINE t == readyAt[Head(page[w])]
  <1>4. t \in Int /\ watermark \in Int
    BY <1>2 DEF TypeOK
  <1>5. /\ status' = status /\ readyAt' = readyAt
        /\ executed' = executed \union {Key(w)} /\ Key(w)[1] = Head(page[w])
        /\ watermark' = IF t > watermark THEN t ELSE watermark
    BY DEF CommitExecution, silverVars, Key, AdvanceWatermark
  <1>6. ExecutedReady'
    BY <1>3, <1>5 DEF ExecutedReady
  <1>7. \A k \in executed' : readyAt'[k[1]] <= watermark'
    <2>1. \A k \in executed : readyAt[k[1]] \in Int /\ readyAt[k[1]] <= watermark
      BY DEF TypeOK, WatermarkIsNewestExecuted
    <2> QED
      BY <1>4, <1>5, <2>1
  <1>8. watermark' = EPOCH \/ \E k \in executed' : readyAt'[k[1]] = watermark'
    BY <1>5 DEF WatermarkIsNewestExecuted
  <1> QED
    BY <1>6, <1>7, <1>8 DEF WatermarkIsNewestExecuted

\* Every step keeps the watermark at the newest execution.
LEMMA MarkNext == MarkInv /\ [Next]_vars => MarkInv'
  <1> SUFFICES ASSUME MarkInv, [Next]_vars PROVE MarkInv'
    OBVIOUS
  <1>0. IndInv'
    BY IndNext DEF MarkInv
  <1>1. ASSUME UNCHANGED <<watermark, executed>>,
               \A b \in Batches : status[b] = "READY" =>
                   status'[b] = "READY" /\ readyAt'[b] = readyAt[b]
        PROVE  MarkInv'
    BY <1>0, <1>1, MarkUnmoved DEF MarkInv
  <1>2. CASE Tick \/ PurgeTopic \/ UNCHANGED vars
    BY <1>1, <1>2 DEF Tick, PurgeTopic, vars, goldVars, silverVars
  <1>3. ASSUME NEW b \in Batches, Ingest(b) PROVE MarkInv'
    BY <1>1, <1>3 DEF Ingest, BeginIngest, CommitIngest, AbortIngest, Publish,
                      goldVars, silverVars, MarkInv, IndInv, TypeOK
  <1>4. ASSUME NEW w \in Workers, Consume(w) PROVE MarkInv'
    <2>1. CASE CommitExecution(w)
      BY <1>0, <2>1, MarkCommit DEF MarkInv
    <2>2. CASE ~CommitExecution(w)
      BY <1>1, <1>4, <2>2 DEF Consume, Poll, ReadWatermark, SelectPending,
             RecordExecution, InsertExecution, AlreadyExecuted, Crash, Upgrade,
             goldVars, silverVars
    <2> QED
      BY <2>1, <2>2
  <1> QED
    BY <1>2, <1>3, <1>4 DEF Next

-----------------------------------------------------------------------------
(* The hand-off implements BatchQueue.                                     *)

QueueInv == ExecInv /\ MarkInv

LEMMA QueueInit == Init => QueueInv
  <1> SUFFICES ASSUME Init PROVE QueueInv
    OBVIOUS
  <1>1. KeyHeldOnce /\ FactsExactlyOnce /\ ExecutedReady /\ WatermarkIsNewestExecuted
    BY DEF Init, KeyHeldOnce, FactsExactlyOnce, ExecutedReady, WatermarkIsNewestExecuted
  <1> QED
    BY <1>1, IndInit DEF QueueInv, ExecInv, MarkInv

LEMMA QueueNext == QueueInv /\ [Next]_vars => QueueInv'
  BY ExecNext, MarkNext DEF QueueInv

\* Since the window loses nothing, what waits is what nobody has executed.
AllWait == Waiting = {b \in Given : Never(b)}

LEMMA WindowHoldsAll == QueueInv => AllWait
  BY DEF QueueInv, MarkInv, IndInv, Discoverable, AllWait, Waiting, Given

\* A step that commits neither an ingest nor an execution changes nothing that
\* the queue shows.
LEMMA QuietOnQueue ==
    ASSUME UNCHANGED goldVars, Given' = Given,
           \A b \in Given : readyAt'[b] = readyAt[b]
    PROVE  UNCHANGED Queue!vars
  <1>1. Waiting' = Waiting
    BY DEF Waiting, Never, goldVars
  <1> QED
    BY <1>1 DEF Queue!vars, goldVars

\* The commit of an ingest transaction hands its batch over.
LEMMA CommitHandsOver ==
    ASSUME QueueInv, QueueInv', NEW b \in Batches, CommitIngest(b)
    PROVE  Queue!HandOver(b)
  <1>1. AllWait /\ AllWait'
    BY WindowHoldsAll, PTL
  <1>2. /\ status[b] = "open" /\ status' = [status EXCEPT ![b] = "READY"]
        /\ UNCHANGED <<facts, executed>>
    BY DEF CommitIngest, goldVars
  <1>3. b \notin Given /\ Given' = Given \union {b}
    BY <1>2 DEF Given, QueueInv, MarkInv, IndInv, TypeOK
  <1>4. Never(b) /\ \A c \in Batches : Never(c)' <=> Never(c)
    BY <1>2 DEF Never, QueueInv, MarkInv, ExecutedReady
  <1>5. Waiting' = Waiting \union {b}
    <2>1. Given \subseteq Batches
      BY DEF Given
    <2> QED
      BY <1>1, <1>3, <1>4, <2>1 DEF AllWait
  <1> QED
    BY <1>2, <1>3, <1>5 DEF Queue!HandOver

\* The commit of record_execution executes the head of the page, which was handed
\* over, and moves the window past nothing else.
LEMMA CommitExecutes ==
    ASSUME QueueInv, QueueInv', NEW w \in Workers, CommitExecution(w)
    PROVE  \E b \in Batches, v \in Versions : Queue!Execute(b, v)
  <1> DEFINE b == Head(page[w])
             v == version[w]
  <1>1. AllWait /\ AllWait'
    BY WindowHoldsAll, PTL
  <1>2. TypeOK /\ PageNonEmpty /\ PageReady /\ KeyHeldOnce /\ FactsExactlyOnce
    BY DEF QueueInv, ExecInv, IndInv
  <1>3. /\ pc[w] = "recording"
        /\ executed' = executed \union {<<b, v>>}
        /\ facts' = [facts EXCEPT ![<<b, v>>] = @ + 1]
        /\ status' = status
    BY DEF CommitExecution, Key, silverVars
  <1>4. b \in Batches /\ v \in Versions /\ <<b, v>> \in Batches \X Versions
    <2>1. Key(w) \in Batches \X Versions
      BY <1>2, <1>3, KeyType
    <2> QED
      BY <2>1 DEF Key
  <1>5. status[b] = "READY"
    <2>1. page[w] # <<>> /\ page[w] \in Seq(Batches)
      BY <1>2, <1>3 DEF PageNonEmpty, TypeOK
    <2>2. 1 \in 1 .. Len(page[w]) /\ b = page[w][1]
      BY <2>1, TailShift
    <2> QED
      BY <1>2, <2>2 DEF PageReady
  <1>6. <<b, v>> \notin executed
    BY <1>2, <1>3 DEF KeyHeldOnce, Key
  <1> HIDE DEF b, v
  <1>7. facts[<<b, v>>] = 0 /\ facts' = [facts EXCEPT ![<<b, v>>] = 1]
    <2>1. facts[<<b, v>>] = 0
      BY <1>2, <1>4, <1>6 DEF FactsExactlyOnce
    <2> QED
      BY <1>3, <2>1
  <1>8. Given' = Given /\ b \in Given /\ Given \subseteq Batches
    BY <1>3, <1>4, <1>5 DEF Given
  <1>9. \A c \in Batches : Never(c)' <=> Never(c) /\ c # b
    BY <1>3, <1>4 DEF Never
  <1>10. Waiting' = Waiting \ {b}
    BY <1>1, <1>8, <1>9 DEF AllWait
  <1>11. Queue!Execute(b, v)
    BY <1>7, <1>8, <1>10 DEF Queue!Execute
  <1> QED
    BY <1>4, <1>11

-----------------------------------------------------------------------------
(* The theorems.                                                           *)

\* Every variable of the hand-off keeps its type, in particular no page ever
\* runs out under a worker that is executing its head.
THEOREM TypeCorrect == Spec => []TypeOK
  <1>1. IndInv => TypeOK
    BY DEF IndInv
  <1> QED
    BY IndInit, IndNext, <1>1, PTL DEF Spec

\* pending_batches' overlap window loses no batch: whatever the interleaving
\* of ingest commits, polls, executions, crashes and version changes, a READY
\* batch that was never executed is above watermark - overlap.
THEOREM NoBatchLost == Spec => []Discoverable
  <1>1. IndInv => Discoverable
    BY DEF IndInv
  <1> QED
    BY IndInit, IndNext, <1>1, PTL DEF Spec

\* record_execution writes one set of facts per batch and version tuple, and
\* no execution without its facts, however many workers poll the same batch.
THEOREM FactsOnce == Spec => []FactsExactlyOnce
  <1>1. Init => ExecInv
    <2> SUFFICES ASSUME Init PROVE ExecInv
      OBVIOUS
    <2>1. KeyHeldOnce /\ FactsExactlyOnce
      BY DEF Init, KeyHeldOnce, FactsExactlyOnce
    <2> QED
      BY <2>1, IndInit DEF ExecInv
  <1>2. ExecInv => FactsExactlyOnce
    BY DEF ExecInv
  <1> QED
    BY <1>1, <1>2, ExecNext, PTL DEF Spec

\* The watermark in gold.consumer_watermark is EPOCH or the ready_at of an
\* executed batch, and never older than one: record_execution cannot overtake
\* what was executed, whichever worker commits and in whatever order.
THEOREM WatermarkExact == Spec => []WatermarkIsNewestExecuted
  <1>1. Init => MarkInv
    <2> SUFFICES ASSUME Init PROVE MarkInv
      OBVIOUS
    <2>1. ExecutedReady /\ WatermarkIsNewestExecuted
      BY DEF Init, ExecutedReady, WatermarkIsNewestExecuted
    <2> QED
      BY <2>1, IndInit DEF MarkInv
  <1>2. MarkInv => WatermarkIsNewestExecuted
    BY DEF MarkInv
  <1> QED
    BY <1>1, <1>2, MarkNext, PTL DEF Spec

\* Gold is append-only: no interleaving rewinds the watermark, because
\* record_execution takes the GREATEST, or forgets an execution or its facts.
THEOREM GoldGrows == Spec => GoldOnlyGrows
  <1> DEFINE Grows == /\ watermark' >= watermark
                      /\ executed \subseteq executed'
                      /\ \A k \in Batches \X Versions : facts'[k] >= facts[k]
  <1>1. TypeOK /\ UNCHANGED goldVars => Grows
    BY DEF TypeOK, goldVars
  <1>2. ASSUME IndInv, NEW w \in Workers, CommitExecution(w)
        PROVE  Grows
    <2>1. pc[w] = "recording" /\ page[w] # <<>>
      BY <1>2 DEF IndInv, PageNonEmpty, CommitExecution
    <2>2. Head(page[w]) \in Batches /\ Key(w) \in Batches \X Versions
      BY <1>2, <2>1, KeyType, TailShift DEF IndInv, TypeOK
    <2>3. watermark' >= watermark
      BY <1>2, <2>2, ConstantsAssumption DEF IndInv, TypeOK, CommitExecution, AdvanceWatermark
    <2>4. \A k \in Batches \X Versions : facts'[k] >= facts[k]
      BY <1>2, <2>2 DEF IndInv, TypeOK, CommitExecution
    <2> QED
      BY <1>2, <2>3, <2>4 DEF CommitExecution
  <1>3. IndInv /\ [Next]_vars => [Grows]_vars
    <2> SUFFICES ASSUME IndInv, Next PROVE Grows
      OBVIOUS
    <2>1. CASE UNCHANGED goldVars
      BY <1>1, <2>1 DEF IndInv
    <2>2. CASE \E w \in Workers : CommitExecution(w)
      BY <1>2, <2>2
    <2>3. UNCHANGED goldVars \/ \E w \in Workers : CommitExecution(w)
      BY DEF Next, Tick, PurgeTopic, Ingest, BeginIngest, CommitIngest, AbortIngest,
             Publish, Consume, Poll, ReadWatermark, SelectPending, RecordExecution,
             InsertExecution, AlreadyExecuted, Crash, Upgrade
    <2> QED
      BY <2>1, <2>2, <2>3
  <1> QED
    BY <1>3, IndInit, IndNext, PTL DEF Spec, GoldOnlyGrows

\* However ingest commits, polls, executions, crashes and upgrades interleave, the
\* table with its watermark and overlap window is a durable queue: a batch is in
\* it from its commit to its execution, and is executed once per version.
THEOREM HandoffIsAQueue == Spec => ImplementsBatchQueue
  <1>1. Init => Queue!Init
    <2> SUFFICES ASSUME Init PROVE Queue!Init
      OBVIOUS
    <2>1. Given = {} /\ Waiting = {}
      BY DEF Init, Given, Waiting
    <2> QED
      BY <2>1 DEF Init, Queue!Init
  <1>2. QueueInv /\ QueueInv' /\ [Next]_vars => [Queue!Next]_(Queue!vars)
    <2> SUFFICES ASSUME QueueInv, QueueInv', [Next]_vars
                 PROVE  Queue!Next \/ UNCHANGED Queue!vars
      OBVIOUS
    <2>1. CASE \E b \in Batches : CommitIngest(b)
      BY <2>1, CommitHandsOver DEF Queue!Next
    <2>2. CASE \E w \in Workers : CommitExecution(w)
      BY <2>2, CommitExecutes DEF Queue!Next
    <2>3. CASE \E b \in Batches : BeginIngest(b) \/ AbortIngest(b)
      <3>1. PICK b \in Batches : BeginIngest(b) \/ AbortIngest(b)
        BY <2>3
      <3>2. /\ UNCHANGED goldVars
            /\ status[b] # "READY" /\ status'[b] # "READY"
            /\ \A c \in Batches : c # b => status'[c] = status[c] /\ readyAt'[c] = readyAt[c]
        BY <3>1 DEF BeginIngest, AbortIngest, QueueInv, MarkInv, IndInv, TypeOK
      <3>3. Given' = Given /\ \A c \in Given : c # b /\ c \in Batches
        BY <3>2 DEF Given
      <3> QED
        BY <3>2, <3>3, QuietOnQueue
    <2>4. CASE UNCHANGED <<goldVars, silverVars>>
      <3>1. Given' = Given
        BY <2>4 DEF Given, silverVars
      <3> QED
        BY <2>4, <3>1, QuietOnQueue DEF silverVars
    <2>5. \/ UNCHANGED <<goldVars, silverVars>>
          \/ \E w \in Workers : CommitExecution(w)
          \/ \E b \in Batches : CommitIngest(b) \/ BeginIngest(b) \/ AbortIngest(b)
      BY DEF Next, Tick, PurgeTopic, Ingest, Publish, Consume, Poll, ReadWatermark,
             SelectPending, RecordExecution, InsertExecution, AlreadyExecuted, Crash,
             Upgrade, vars
    <2> QED
      BY <2>1, <2>2, <2>3, <2>4, <2>5
  <1> QED
    BY <1>1, <1>2, QueueInit, QueueNext, PTL DEF Spec, Queue!Spec, ImplementsBatchQueue
=============================================================================
