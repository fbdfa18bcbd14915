---------------------------- MODULE SupersedeProofs ----------------------------
(***************************************************************************)
(* Proofs about Supersede: for every number of concurrent loads, all sets  *)
(* of keys and contents, files of any length and all three write           *)
(* strategies, the versions of a key form one chain with one current end,  *)
(* and the loads behave as if each replaced the content of all its keys at *)
(* once (module RowVersions).                                              *)
(***************************************************************************)
EXTENDS Supersede, FiniteSetTheorems, NaturalsInduction, WellFoundedInduction, TLAPS

-----------------------------------------------------------------------------
(* The inductive invariant, in parts.                                      *)

Working == {"find", "blocked", "insert"}

\* A load works on a row of its file until it is past the last one.
Cursor ==
    \A t \in Loads :
        /\ pc[t] \in Working => at[t] <= Len(file[t])
        /\ pc[t] \in {"commit", "committed"} => at[t] = Len(file[t]) + 1

\* The load has dealt with a row of key k.
Behind(t, k) == \E i \in 1 .. (at[t] - 1) : file[t][i][1] = k

\* A load that ended otherwise than by its commit has left no version, and the
\* versions of the others are rows behind their cursor.
RowsBehind ==
    \A r \in rows, t \in Loads : r[1] = t =>
        /\ pc[t] \in Working \union {"commit", "committed"}
        /\ \E i \in 1 .. (at[t] - 1) : file[t][i] = <<r[2], r[3]>>

\* A load closes committed versions and its own; it has inserted, or is about
\* to insert, the version that replaces it, and holds the row lock until it
\* commits.
Closings ==
    \A r \in Rows, c \in Loads : closer[r] = c =>
        /\ r \in rows /\ (Committed(r[1]) \/ r[1] = c)
        /\ pc[c] \in Working \union {"commit", "committed"}
        /\ \/ \E s \in rows : s[1] = c /\ supersedes[s] = r
           \/ pc[c] = "insert" /\ found[c] = r
        /\ pc[c] # "committed" => lock[r] = c

\* Nobody but its load can lock a version that is not committed.
Locks ==
    \A r \in Rows, u \in Loads : lock[r] = u =>
        r \in rows /\ (Committed(r[1]) \/ r[1] = u)

\* What a SELECT .. FOR UPDATE that waits, or that has returned, found.  It
\* waits, or finds nothing, at the first row of its key only.
Findings ==
    \A t \in Loads :
        /\ pc[t] = "find" => found[t] = None
        /\ pc[t] = "blocked" =>
              /\ strategy # "ignore" /\ ~Behind(t, KeyOf(t))
              /\ found[t] \in rows /\ found[t][2] = KeyOf(t) /\ Committed(found[t][1])
        /\ pc[t] = "insert" =>
              \/ found[t] = None /\ ~Behind(t, KeyOf(t))
              \/ /\ found[t] \in rows /\ found[t][2] = KeyOf(t) /\ closer[found[t]] = t
                 /\ \A s \in rows : supersedes[s] # found[t]

\* supersedes and the closing of the version it names are written together.
Links ==
    \A s \in rows :
        /\ s[1] = Seed => supersedes[s] = None
        /\ \A r \in Rows : supersedes[s] = r =>
              /\ r \in rows /\ r[2] = s[2] /\ closer[r] = s[1]
              /\ \A q \in rows : supersedes[q] = r => q = s

\* At most one version of a key replaces none.
OneRoot ==
    \A r, s \in rows :
        r[2] = s[2] /\ supersedes[r] = None /\ supersedes[s] = None => r = s

\* The partial unique index: of two versions one is closed, for good or by the
\* load that inserted the other.
Unique ==
    \A r, s \in rows : r[2] = s[2] /\ r # s =>
        \/ closer[r] = s[1] \/ Committed(closer[r])
        \/ closer[s] = r[1] \/ Committed(closer[s])

\* A key with a committed version has a current one.
SomeCurrent ==
    \A r \in rows : Committed(r[1]) => \E s \in rows : s \in Live(r[2])

\* The last row of k that the load has dealt with carries content c.
LastBehind(t, k, c) ==
    \E i \in 1 .. (at[t] - 1) :
        /\ file[t][i] = <<k, c>>
        /\ \A j \in 1 .. (at[t] - 1) : file[t][j][1] = k => j <= i

\* The version that stands for the last of the rows of k a load has dealt
\* with: its own, or one that was on file already and stays current until the
\* load commits.
Stands(t, k, r) ==
    /\ r \in rows /\ r[2] = k /\ closer[r] = None
    /\ r[1] = t \/ (Committed(r[1]) /\ (strategy = "ignore" \/ lock[r] = t))
    /\ LastBehind(t, k, r[3])
Accounted ==
    \A t \in Loads, k \in Keys :
        /\ pc[t] \notin Ended
        /\ Behind(t, k)
        /\ ~(pc[t] = "insert" /\ KeyOf(t) = k)
        => \E r \in rows : Stands(t, k, r)

\* ON CONFLICT DO NOTHING closes nothing, and rows of one key are the same.
IgnoredStays ==
    strategy = "ignore" =>
        /\ \A r \in Rows : closer[r] = None
        /\ KeyIsContent

IndInv ==
    /\ TypeOK
    /\ Cursor
    /\ RowsBehind
    /\ Closings
    /\ Locks
    /\ Findings
    /\ Links
    /\ OneRoot
    /\ Unique
    /\ SomeCurrent
    /\ Accounted
    /\ IgnoredStays

-----------------------------------------------------------------------------
(* Facts about files, keys and versions.                                   *)

\* The rows of a file are distinct.
LEMMA FileFacts ==
    ASSUME TypeOK, NEW t \in Loads
    PROVE  /\ Len(file[t]) \in 1 .. MaxRows
           /\ DOMAIN file[t] = 1 .. Len(file[t])
           /\ \A i \in 1 .. Len(file[t]) :
                 /\ file[t][i][1] \in Keys /\ file[t][i][2] \in Contents
                 /\ file[t][i] = <<file[t][i][1], file[t][i][2]>>
           /\ \A i, j \in 1 .. Len(file[t]) : file[t][i] = file[t][j] => i = j
  <1>0. MaxRows \in Nat
    BY MaxRowsAssumption
  <1>1. file[t] \in Files
    BY DEF TypeOK
  <1>2. PICK n \in 1 .. MaxRows : file[t] \in [1 .. n -> Keys \X Contents]
    BY <1>1 DEF Files
  <1>3. n \in Nat /\ Len(file[t]) = n /\ DOMAIN file[t] = 1 .. n
    BY <1>0, <1>2
  <1>4. \A i, j \in DOMAIN file[t] : i # j => file[t][i] # file[t][j]
    BY <1>1 DEF Files
  <1>5. ASSUME NEW i \in 1 .. n
        PROVE  /\ file[t][i][1] \in Keys /\ file[t][i][2] \in Contents
               /\ file[t][i] = <<file[t][i][1], file[t][i][2]>>
    <2>1. file[t][i] \in Keys \X Contents
      BY <1>2
    <2> QED
      BY <2>1
  <1>6. Len(file[t]) \in 1 .. MaxRows /\ DOMAIN file[t] = 1 .. Len(file[t])
    BY <1>0, <1>3
  <1>7. \A i, j \in 1 .. Len(file[t]) : file[t][i] = file[t][j] => i = j
    BY <1>3, <1>4
  <1> QED
    BY <1>3, <1>5, <1>6, <1>7

\* A version is its load, its key and its content; None is no version.
LEMMA RowFacts ==
    ASSUME NEW r \in Rows
    PROVE  /\ r = <<r[1], r[2], r[3]>>
           /\ r[1] \in Txns /\ r[2] \in Keys /\ r[3] \in Contents
           /\ r # None
  BY NoRowAssumption DEF Rows, Txns

LEMMA NoneFacts == None \notin Txns /\ None \notin Rows /\ None \notin Loads /\ Seed \notin Loads
  BY SeedAssumption, NoRowAssumption DEF Txns, Rows

\* The row a working load is at is one it has not dealt with yet.
LEMMA AtRow ==
    ASSUME TypeOK, Cursor, NEW t \in Loads, pc[t] \in Working
    PROVE  /\ at[t] \in 1 .. Len(file[t])
           /\ KeyOf(t) \in Keys
           /\ RowOf(t) \in Rows /\ RowOf(t)[1] = t /\ RowOf(t)[2] = KeyOf(t)
           /\ file[t][at[t]] = <<KeyOf(t), RowOf(t)[3]>>
           /\ \A i \in 1 .. (at[t] - 1) :
                 i \in 1 .. Len(file[t]) /\ file[t][i] # <<KeyOf(t), RowOf(t)[3]>>
  <1>1. at[t] \in 1 .. Len(file[t])
    BY FileFacts DEF Cursor, TypeOK
  <1>2. \A i \in 1 .. (at[t] - 1) : i \in 1 .. Len(file[t]) /\ i # at[t]
    BY <1>1, FileFacts
  <1>3. /\ file[t][at[t]][1] \in Keys /\ file[t][at[t]][2] \in Contents
        /\ file[t][at[t]] = <<file[t][at[t]][1], file[t][at[t]][2]>>
    BY <1>1, FileFacts
  <1>4. /\ KeyOf(t) = file[t][at[t]][1]
        /\ RowOf(t)[1] = t /\ RowOf(t)[2] = KeyOf(t) /\ RowOf(t)[3] = file[t][at[t]][2]
    BY DEF KeyOf, RowOf
  <1>5. RowOf(t) \in Rows
    BY <1>3 DEF RowOf, KeyOf, Rows, Txns
  <1>6. file[t][at[t]] = <<KeyOf(t), RowOf(t)[3]>>
    BY <1>3, <1>4
  <1>7. \A i \in 1 .. (at[t] - 1) : file[t][i] # <<KeyOf(t), RowOf(t)[3]>>
    BY <1>1, <1>2, <1>6, FileFacts
  <1> QED
    BY <1>1, <1>2, <1>3, <1>4, <1>5, <1>6, <1>7

\* The types that the cases below need, version by version.
LEMMA RowTypes ==
    ASSUME TypeOK, NEW r \in Rows
    PROVE  /\ closer[r] \in Loads \union {None}
           /\ closer[r] \in Txns \union {None}
           /\ lock[r] \in Loads \union {None}
           /\ supersedes[r] \in Rows \union {None}
           /\ ~Committed(None)
  BY SeedAssumption DEF TypeOK, Txns, Committed

\* Who has committed changes with a commit and with nothing else.
LEMMA SameCommits ==
    ASSUME TypeOK, NEW t \in Loads, NEW w, pc' = [pc EXCEPT ![t] = w],
           w # "committed", pc[t] # "committed"
    PROVE  /\ \A q \in Txns \union {None} : Committed(q)' <=> Committed(q)
           /\ \A u \in Loads : u # t => pc'[u] = pc[u]
           /\ pc'[t] = w
  BY SeedAssumption DEF TypeOK, Committed, Txns

\* Rows behind an unmoved cursor.
LEMMA SameCursor ==
    ASSUME NEW u \in Loads, file' = file, at'[u] = at[u]
    PROVE  /\ KeyOf(u)' = KeyOf(u) /\ RowOf(u)' = RowOf(u)
           /\ \A k \in Keys : Behind(u, k)' <=> Behind(u, k)
           /\ \A k \in Keys, c \in Contents : LastBehind(u, k, c)' <=> LastBehind(u, k, c)
  BY DEF KeyOf, RowOf, Behind, LastBehind

\* The row behind the cursor moves on by one.
LEMMA AdvanceFacts ==
    ASSUME TypeOK, Cursor, NEW t \in Loads, pc[t] \in Working, Advance(t), file' = file
    PROVE  /\ at' \in [Loads -> 1 .. MaxRows + 1]
           /\ \E w \in {"find", "commit"} : pc' = [pc EXCEPT ![t] = w]
           /\ found' = [found EXCEPT ![t] = None]
           /\ Cursor'
           /\ \A u \in Loads : u # t => at'[u] = at[u]
           /\ at'[t] = at[t] + 1
           /\ \A k \in Keys : Behind(t, k)' <=> Behind(t, k) \/ k = KeyOf(t)
           /\ \A k \in Keys, c \in Contents :
                 k # KeyOf(t) /\ LastBehind(t, k, c) => LastBehind(t, k, c)'
           /\ \A k \in Keys, c \in Contents :
                 k = KeyOf(t) /\ c = RowOf(t)[3] => LastBehind(t, k, c)'
  <1>1. /\ at' = [at EXCEPT ![t] = at[t] + 1]
        /\ pc' = [pc EXCEPT ![t] = IF at[t] = Len(file[t]) THEN "commit" ELSE "find"]
        /\ found' = [found EXCEPT ![t] = None]
    BY DEF Advance
  <1>2. /\ at[t] \in 1 .. Len(file[t]) /\ Len(file[t]) \in 1 .. MaxRows
        /\ MaxRows \in Nat
    BY AtRow, FileFacts, MaxRowsAssumption
  <1>3. at' \in [Loads -> 1 .. MaxRows + 1]
    BY <1>1, <1>2 DEF TypeOK
  <1>4. \A u \in Loads : u # t => at'[u] = at[u] /\ pc'[u] = pc[u]
    BY <1>1 DEF TypeOK
  <1>5. /\ at'[t] = at[t] + 1
        /\ pc'[t] = IF at[t] = Len(file[t]) THEN "commit" ELSE "find"
    BY <1>1 DEF TypeOK
  <1>6. Cursor'
    BY <1>2, <1>4, <1>5 DEF Cursor, Working
  <1>7. /\ 1 .. (at'[t] - 1) = (1 .. (at[t] - 1)) \union {at[t]}
        /\ \A j \in 1 .. (at'[t] - 1) : j \in Nat /\ j <= at[t]
    BY <1>2, <1>5
  <1>8. \A k \in Keys : Behind(t, k)' <=> Behind(t, k) \/ k = KeyOf(t)
    BY <1>7 DEF Behind, KeyOf
  <1>9. ASSUME NEW k \in Keys, NEW c \in Contents, k # KeyOf(t), LastBehind(t, k, c)
        PROVE  LastBehind(t, k, c)'
    BY <1>7, <1>9 DEF LastBehind, KeyOf
  <1>10. ASSUME NEW k \in Keys, NEW c \in Contents, k = KeyOf(t), c = RowOf(t)[3]
         PROVE  LastBehind(t, k, c)'
    <2>1. file'[t][at[t]] = <<k, c>>
      BY <1>10, AtRow
    <2> QED
      BY <1>7, <2>1 DEF LastBehind
  <1> QED
    BY <1>1, <1>3, <1>4, <1>5, <1>6, <1>8, <1>9, <1>10

\* A version goes on standing for a row as long as nobody closes it and its
\* load keeps the lock.
LEMMA StandsStays ==
    ASSUME NEW u \in Loads, NEW k \in Keys, NEW r \in Rows, Stands(u, k, r),
           strategy' = strategy, r \in rows', closer'[r] = None,
           Committed(r[1]) => Committed(r[1])', lock[r] = u => lock'[r] = u,
           LastBehind(u, k, r[3]) => LastBehind(u, k, r[3])'
    PROVE  Stands(u, k, r)'
  BY DEF Stands

-----------------------------------------------------------------------------
(* One lemma per kind of step: each keeps every part of the invariant, and *)
(* every step but a commit changes nothing that a reader sees.             *)

Unseen ==
    /\ UNCHANGED inputs
    /\ \A t \in Loads : pc'[t] = "committed" <=> pc[t] = "committed"
    /\ \A k \in Keys, r \in Rows : r \in Live(k)' <=> r \in Live(k)
    /\ rows \subseteq Rows /\ rows' \subseteq Rows

LEMMA IndInit == Init => IndInv
  <1> SUFFICES ASSUME Init PROVE IndInv
    OBVIOUS
  <1>1. PICK seeded \in SUBSET Keys : \E was \in [seeded -> Contents] :
           rows = {<<Seed, k, was[k]>> : k \in seeded}
    BY DEF Init
  <1>2. PICK was \in [seeded -> Contents] : rows = {<<Seed, k, was[k]>> : k \in seeded}
    BY <1>1
  <1>3. /\ \A r \in rows : r \in Rows /\ r[1] = Seed
        /\ \A r, s \in rows : r[2] = s[2] => r = s
    BY <1>2 DEF Rows, Txns
  <1>4. /\ \A r \in Rows : closer[r] = None /\ lock[r] = None /\ supersedes[r] = None
        /\ \A t \in Loads : pc[t] = "find" /\ at[t] = 1 /\ found[t] = None
    BY DEF Init
  <1>5. TypeOK
    <2>1. rows \subseteq Rows
      BY <1>3
    <2>2. at \in [Loads -> 1 .. MaxRows + 1]
      BY MaxRowsAssumption DEF Init
    <2> QED
      BY <2>1, <2>2 DEF Init, TypeOK
  <1>6. Cursor
    BY <1>4, <1>5, FileFacts DEF Cursor, Working
  <1>7. RowsBehind /\ OneRoot /\ Unique
    BY <1>3, SeedAssumption DEF RowsBehind, OneRoot, Unique
  <1>8. Closings /\ Locks /\ Links
    BY <1>3, <1>4, NoneFacts DEF Closings, Locks, Links
  <1>9. Findings
    BY <1>4 DEF Findings
  <1>10. SomeCurrent
    BY <1>3, <1>4, <1>5, RowTypes DEF SomeCurrent, Live
  <1>11. Accounted
    <2>1. \A t \in Loads, k \in Keys : ~Behind(t, k)
      BY <1>4 DEF Behind
    <2> QED
      BY <2>1 DEF Accounted
  <1>12. IgnoredStays
    BY <1>4 DEF IgnoredStays, Init
  <1> QED
    BY <1>5, <1>6, <1>7, <1>8, <1>9, <1>10, <1>11, <1>12 DEF IndInv

\* A load that has dealt with no row of a key has written and closed nothing
\* of it.
LEMMA NothingOfKey ==
    ASSUME IndInv, NEW t \in Loads, NEW k \in Keys, ~Behind(t, k)
    PROVE  /\ \A r \in rows : r[2] = k => r[1] # t
           /\ \A r \in Rows : r[2] = k /\ closer[r] = t => pc[t] = "insert" /\ found[t] = r
  <1>1. ASSUME NEW r \in rows, r[2] = k PROVE r[1] # t
    <2> SUFFICES ASSUME r[1] = t PROVE FALSE
      OBVIOUS
    <2>1. PICK i \in 1 .. (at[t] - 1) : file[t][i] = <<r[2], r[3]>>
      BY DEF IndInv, RowsBehind
    <2>2. file[t][i][1] = r[2]
      BY <2>1
    <2> QED
      BY <1>1, <2>2 DEF Behind
  <1>2. ASSUME NEW r \in Rows, r[2] = k, closer[r] = t
        PROVE  pc[t] = "insert" /\ found[t] = r
    <2>1. ASSUME NEW s \in rows, s[1] = t, supersedes[s] = r PROVE FALSE
      <3>1. s[2] = k
        BY <1>2, <2>1 DEF IndInv, Links
      <3> QED
        BY <1>1, <2>1, <3>1
    <2> QED
      BY <1>2, <2>1 DEF IndInv, Closings
  <1> QED
    BY <1>1, <1>2

\* A version that t may take is not being closed by anyone.
LEMMA FreeIsOpen ==
    ASSUME IndInv, NEW t \in Loads, NEW r \in Rows, lock[r] \in {None, t},
           ~Committed(closer[r]), closer[r] # t
    PROVE  closer[r] = None
  <1> SUFFICES ASSUME closer[r] # None PROVE FALSE
    OBVIOUS
  <1>1. PICK c \in Loads : closer[r] = c
    BY RowTypes DEF IndInv
  <1>2. pc[c] # "committed"
    BY <1>1 DEF Committed
  <1>3. lock[r] = c
    BY <1>1, <1>2 DEF IndInv, Closings
  <1> QED
    BY <1>1, <1>3, NoneFacts

\* A load that finds nothing, or must wait, is at the first row of its key: the
\* version that stands for an earlier one would be visible to it, and free.
LEMMA FirstOfKey ==
    ASSUME IndInv, NEW t \in Loads, pc[t] = "find",
           \/ strategy = "ignore"
           \/ Visible(t) = {}
           \/ \E r \in Visible(t) : lock[r] \notin {None, t}
    PROVE  ~Behind(t, KeyOf(t))
  <1>k. KeyOf(t) \in Keys /\ ~Committed(t) /\ t \in Txns
    BY AtRow, SeedAssumption DEF IndInv, Working, Committed, Txns
  <1>1. CASE strategy = "ignore"
    <2>1. KeyIsContent
      BY <1>1 DEF IndInv, IgnoredStays
    <2>2. PICK part \in [Keys -> Contents] :
             \A u \in Loads : \A i \in DOMAIN file[u] : file[u][i][2] = part[file[u][i][1]]
      BY <2>1 DEF KeyIsContent
    <2>3. ASSUME NEW i \in 1 .. (at[t] - 1), file[t][i][1] = KeyOf(t) PROVE FALSE
      <3>1. /\ at[t] \in 1 .. Len(file[t]) /\ i \in 1 .. Len(file[t])
            /\ file[t][at[t]] = <<KeyOf(t), RowOf(t)[3]>>
            /\ file[t][i] # <<KeyOf(t), RowOf(t)[3]>>
        BY AtRow DEF IndInv, Working
      <3>2. /\ file[t][at[t]][2] = part[KeyOf(t)] /\ file[t][i][2] = part[KeyOf(t)]
            /\ file[t][i] = <<file[t][i][1], file[t][i][2]>>
        BY <2>2, <2>3, <3>1, FileFacts DEF IndInv
      <3> QED
        BY <2>3, <3>1, <3>2
    <2> QED
      BY <2>3 DEF Behind
  <1>2. CASE strategy # "ignore"
    <2> SUFFICES ASSUME Behind(t, KeyOf(t)) PROVE FALSE
      OBVIOUS
    <2>1. PICK s \in rows : Stands(t, KeyOf(t), s)
      BY <1>k DEF IndInv, Accounted, Ended
    <2>2. /\ s \in Rows /\ s[2] = KeyOf(t) /\ closer[s] = None
          /\ s[1] = t \/ (Committed(s[1]) /\ lock[s] = t)
          /\ ~Committed(None) /\ None # t
      BY <1>2, <2>1, RowTypes, NoneFacts DEF Stands, IndInv, TypeOK
    <2>3. s \in Visible(t)
      BY <2>2 DEF Visible
    <2>4. PICK r \in Visible(t) : lock[r] \notin {None, t}
      BY <1>2, <2>3
    <2>5. /\ r \in rows /\ r \in Rows /\ r[2] = KeyOf(t) /\ (Committed(r[1]) \/ r[1] = t)
          /\ ~Committed(closer[r]) /\ closer[r] # t
      BY DEF Visible, IndInv, TypeOK
    <2>6. r = s
      BY <2>2, <2>5, RowFacts, NoneFacts DEF IndInv, Unique
    <2>7. lock[r] \in Loads
      BY <2>4, <2>5, RowTypes DEF IndInv
    <2> QED
      BY <1>k, <2>2, <2>4, <2>5, <2>6, <2>7 DEF IndInv, Locks
  <1> QED
    BY <1>1, <1>2

\* The SELECT .. FOR UPDATE finds no row, or waits for one.
LEMMA KeepsRelocated ==
    ASSUME IndInv, NEW t \in Loads, pc[t] \in {"find", "blocked"}, ~Behind(t, KeyOf(t)),
           NEW w, NEW f, pc' = [pc EXCEPT ![t] = w], found' = [found EXCEPT ![t] = f],
           \/ w = "insert" /\ f = None
           \/ /\ w = "blocked" /\ strategy # "ignore"
              /\ f \in rows /\ f[2] = KeyOf(t) /\ Committed(f[1]),
           UNCHANGED <<inputs, rows, closer, lock, supersedes, at>>
    PROVE  IndInv' /\ Unseen
  <1>1. /\ strategy' = strategy /\ file' = file /\ rows' = rows
        /\ closer' = closer /\ lock' = lock /\ supersedes' = supersedes /\ at' = at
    BY DEF inputs
  <1>2. /\ \A q \in Txns \union {None} : Committed(q)' <=> Committed(q)
        /\ \A u \in Loads : u # t => pc'[u] = pc[u]
        /\ pc'[t] = w
    BY SameCommits DEF IndInv
  <1>3. /\ f \in Rows \union {None} /\ found'[t] = f
        /\ \A u \in Loads : u # t => found'[u] = found[u]
    BY DEF IndInv, TypeOK
  <1>4. TypeOK'
    BY <1>1, <1>3 DEF IndInv, TypeOK
  <1>5. \A u \in Loads : /\ KeyOf(u)' = KeyOf(u)
                         /\ \A k \in Keys : Behind(u, k)' <=> Behind(u, k)
    BY <1>1, SameCursor
  <1>6. \A r \in rows : r \in Rows /\ (Committed(r[1])' <=> Committed(r[1]))
    BY <1>2, RowFacts DEF IndInv, TypeOK
  <1>7. \A r \in Rows : Committed(closer[r])' <=> Committed(closer[r])
    BY <1>1, <1>2, RowTypes DEF IndInv
  <1>8. Cursor'
    BY <1>1, <1>2 DEF IndInv, Cursor, Working
  <1>9. RowsBehind'
    <2>1. ASSUME NEW r \in rows, NEW u \in Loads, r[1] = u
          PROVE  /\ pc'[u] \in Working \union {"commit", "committed"}
                 /\ \E i \in 1 .. (at[u] - 1) : file[u][i] = <<r[2], r[3]>>
      BY <1>2, <2>1 DEF IndInv, RowsBehind, Working
    <2> QED
      BY <1>1, <2>1 DEF RowsBehind
  <1>10. Closings'
    BY <1>1, <1>2, <1>3, <1>6 DEF IndInv, Closings, Working
  <1>11. Locks'
    BY <1>1, <1>6 DEF IndInv, Locks
  <1>12. Findings'
    <2>0. \A u \in Loads : pc[u] \in Working => KeyOf(u) \in Keys
      BY AtRow DEF IndInv
    <2>1. ASSUME NEW u \in Loads, u # t
          PROVE  /\ pc'[u] = "find" => found'[u] = None
                 /\ pc'[u] = "blocked" =>
                       /\ strategy' # "ignore" /\ ~Behind(u, KeyOf(u))'
                       /\ found'[u] \in rows' /\ found'[u][2] = KeyOf(u)'
                       /\ Committed(found[u][1])'
                 /\ pc'[u] = "insert" =>
                       \/ found'[u] = None /\ ~Behind(u, KeyOf(u))'
                       \/ /\ found'[u] \in rows' /\ found'[u][2] = KeyOf(u)'
                          /\ closer'[found'[u]] = u
                          /\ \A s \in rows' : supersedes'[s] # found'[u]
      <3>1. found'[u] = found[u] /\ pc'[u] = pc[u] /\ KeyOf(u)' = KeyOf(u)
        BY <1>2, <1>3, <1>5, <2>1
      <3>2. Behind(u, KeyOf(u))' <=> Behind(u, KeyOf(u))
        BY <1>1 DEF Behind, KeyOf
      <3> QED
        BY <1>1, <1>2, <1>6, <3>1, <3>2 DEF IndInv, Findings
    <2>2. Behind(t, KeyOf(t))' <=> Behind(t, KeyOf(t))
      BY <1>1 DEF Behind, KeyOf
    <2>3. w = "blocked" => Committed(found[t][1])'
      BY <1>2, <1>3, <1>6
    <2> QED
      BY <1>1, <1>2, <1>3, <1>5, <2>1, <2>2, <2>3 DEF Findings
  <1>13. Links' /\ OneRoot'
    BY <1>1 DEF IndInv, Links, OneRoot
  <1>14. Unique'
    BY <1>1, <1>6, <1>7 DEF IndInv, Unique
  <1>15. SomeCurrent'
    BY <1>1, <1>6, <1>7 DEF IndInv, SomeCurrent, Live
  <1>16. Accounted'
    <2>1. ASSUME NEW u \in Loads, NEW k \in Keys, pc'[u] \notin Ended, Behind(u, k)',
                 ~(pc'[u] = "insert" /\ KeyOf(u)' = k)
          PROVE  \E r \in rows' : Stands(u, k, r)'
      <3>1. pc[u] \notin Ended /\ Behind(u, k) /\ ~(pc[u] = "insert" /\ KeyOf(u) = k)
        BY <1>2, <1>5, <2>1 DEF Ended
      <3>2. PICK r \in rows : Stands(u, k, r)
        BY <3>1 DEF IndInv, Accounted
      <3>3. LastBehind(u, k, r[3]) => LastBehind(u, k, r[3])'
        BY <1>1 DEF LastBehind
      <3>4. Stands(u, k, r)'
        BY <1>1, <1>6, <3>2, <3>3, StandsStays DEF Stands
      <3> QED
        BY <1>1, <3>4
    <2> QED
      BY <2>1 DEF Accounted
  <1>17. IgnoredStays'
    BY <1>1 DEF IndInv, IgnoredStays, KeyIsContent
  <1>s. Unseen
    <2>1. \A u \in Loads : pc'[u] = "committed" <=> pc[u] = "committed"
      BY <1>2
    <2>2. \A k \in Keys, r \in Rows : r \in Live(k)' <=> r \in Live(k)
      BY <1>1, <1>6, <1>7 DEF Live
    <2> QED
      BY <1>1, <1>4, <2>1, <2>2 DEF Unseen, inputs, IndInv, TypeOK
  <1> QED
    BY <1>s, <1>4, <1>8, <1>9, <1>10, <1>11, <1>12, <1>13, <1>14, <1>15, <1>16, <1>17 DEF IndInv

\* FOR UPDATE returned version v and it is to be replaced: it is locked and closed.
LEMMA KeepsClosed ==
    ASSUME IndInv, NEW t \in Loads, pc[t] \in {"find", "blocked"}, NEW v \in rows,
           strategy # "ignore", v[2] = KeyOf(t), Committed(v[1]) \/ v[1] = t,
           closer[v] = None, lock[v] \in {None, t},
           lock' = [lock EXCEPT ![v] = t],
           closer' = [closer EXCEPT ![v] = t],
           pc' = [pc EXCEPT ![t] = "insert"], found' = [found EXCEPT ![t] = v],
           UNCHANGED <<inputs, rows, supersedes, at>>
    PROVE  IndInv' /\ Unseen
  <1>t. /\ t \in Txns /\ t # None /\ ~Committed(t) /\ v \in Rows /\ v # None
    BY NoneFacts DEF Txns, Committed, IndInv, TypeOK
  <1>1. /\ strategy' = strategy /\ file' = file /\ rows' = rows
        /\ supersedes' = supersedes /\ at' = at
    BY DEF inputs
  <1>2. /\ \A q \in Txns \union {None} : Committed(q)' <=> Committed(q)
        /\ \A u \in Loads : u # t => pc'[u] = pc[u]
        /\ pc'[t] = "insert"
    BY SameCommits DEF IndInv
  <1>3. found'[t] = v /\ \A u \in Loads : u # t => found'[u] = found[u]
    BY DEF IndInv, TypeOK
  <1>4. \A r \in Rows : /\ closer'[r] = IF r = v THEN t ELSE closer[r]
                        /\ lock'[r] = IF r = v THEN t ELSE lock[r]
    BY DEF IndInv, TypeOK
  <1>5. TypeOK'
    BY <1>1, <1>t DEF IndInv, TypeOK
  <1>6. \A u \in Loads : /\ KeyOf(u)' = KeyOf(u)
                         /\ \A k \in Keys : Behind(u, k)' <=> Behind(u, k)
    BY <1>1, SameCursor
  <1>7. \A r \in rows : r \in Rows /\ (Committed(r[1])' <=> Committed(r[1]))
    BY <1>2, RowFacts DEF IndInv, TypeOK
  <1>8. ASSUME NEW r \in Rows PROVE Committed(closer[r])' <=> Committed(closer[r])
    <2>1. CASE r = v
      <3>1. closer'[r] = t /\ closer[r] = None
        BY <1>4, <2>1
      <3> QED
        BY <1>2, <1>t, <3>1, RowTypes DEF IndInv
    <2>2. CASE r # v
      <3>1. closer'[r] = closer[r]
        BY <1>4, <2>2
      <3> QED
        BY <1>2, <3>1, RowTypes DEF IndInv
    <2> QED
      BY <2>1, <2>2
  <1>9. Cursor'
    BY <1>1, <1>2 DEF IndInv, Cursor, Working
  <1>10. RowsBehind'
    <2>1. ASSUME NEW r \in rows, NEW u \in Loads, r[1] = u
          PROVE  /\ pc'[u] \in Working \union {"commit", "committed"}
                 /\ \E i \in 1 .. (at[u] - 1) : file[u][i] = <<r[2], r[3]>>
      BY <1>2, <2>1 DEF IndInv, RowsBehind, Working
    <2> QED
      BY <1>1, <2>1 DEF RowsBehind
  <1>11. Closings'
    <2>1. ASSUME NEW r \in Rows, NEW c \in Loads, closer'[r] = c
          PROVE  /\ r \in rows' /\ (Committed(r[1])' \/ r[1] = c)
                 /\ pc'[c] \in Working \union {"commit", "committed"}
                 /\ \/ \E s \in rows' : s[1] = c /\ supersedes'[s] = r
                    \/ pc'[c] = "insert" /\ found'[c] = r
                 /\ pc'[c] # "committed" => lock'[r] = c
      <3>1. CASE r = v
        <4>1. c = t
          BY <1>4, <2>1, <3>1
        <4>2. Committed(r[1])' \/ r[1] = c
          BY <1>7, <3>1, <4>1
        <4> QED
          BY <1>1, <1>2, <1>3, <1>4, <3>1, <4>1, <4>2 DEF Working
      <3>2. CASE r # v
        <4>1. closer[r] = c /\ lock'[r] = lock[r]
          BY <1>4, <2>1, <3>2
        <4>2. /\ r \in rows /\ (Committed(r[1]) \/ r[1] = c)
              /\ pc[c] \in Working \union {"commit", "committed"}
              /\ \/ \E s \in rows : s[1] = c /\ supersedes[s] = r
                 \/ pc[c] = "insert" /\ found[c] = r
              /\ pc[c] # "committed" => lock[r] = c
          BY <4>1 DEF IndInv, Closings
        <4>3. CASE c = t
          BY <1>1, <1>2, <1>7, <4>1, <4>2, <4>3 DEF Working
        <4>4. CASE c # t
          BY <1>1, <1>2, <1>3, <1>7, <4>1, <4>2, <4>4
        <4> QED
          BY <4>3, <4>4
      <3> QED
        BY <3>1, <3>2
    <2> QED
      BY <2>1 DEF Closings
  <1>12. Locks'
    <2>1. ASSUME NEW r \in Rows, NEW u \in Loads, lock'[r] = u
          PROVE  r \in rows /\ (Committed(r[1])' \/ r[1] = u)
      <3>1. CASE r = v
        BY <1>4, <1>7, <2>1, <3>1
      <3>2. CASE r # v
        BY <1>4, <1>7, <2>1, <3>2 DEF IndInv, Locks
      <3> QED
        BY <3>1, <3>2
    <2> QED
      BY <1>1, <2>1 DEF Locks
  <1>13. Findings'
    <2>1. ASSUME NEW u \in Loads, u # t
          PROVE  /\ pc'[u] = "find" => found'[u] = None
                 /\ pc'[u] = "blocked" =>
                       /\ strategy' # "ignore" /\ ~Behind(u, KeyOf(u))'
                       /\ found'[u] \in rows' /\ found'[u][2] = KeyOf(u)'
                       /\ Committed(found[u][1])'
                 /\ pc'[u] = "insert" =>
                       \/ found'[u] = None /\ ~Behind(u, KeyOf(u))'
                       \/ /\ found'[u] \in rows' /\ found'[u][2] = KeyOf(u)'
                          /\ closer'[found'[u]] = u
                          /\ \A s \in rows' : supersedes'[s] # found'[u]
      <3>1. found'[u] = found[u] /\ pc'[u] = pc[u] /\ KeyOf(u)' = KeyOf(u)
        BY <1>2, <1>3, <1>6, <2>1
      <3>2. Behind(u, KeyOf(u))' <=> Behind(u, KeyOf(u))
        BY <1>1 DEF Behind, KeyOf
      <3>3. found[u] \in rows /\ closer[found[u]] = u => closer'[found[u]] = u
        BY <1>4, <1>7, NoneFacts
      <3> QED
        BY <1>1, <1>2, <1>7, <3>1, <3>2, <3>3 DEF IndInv, Findings
    <2>2. \A s \in rows : supersedes[s] # v
      BY <1>7, <1>t, RowFacts, NoneFacts DEF IndInv, Links
    <2>3. closer'[v] = t
      BY <1>4, <1>t
    <2> QED
      BY <1>1, <1>2, <1>3, <1>6, <2>1, <2>2, <2>3 DEF Findings
  <1>14. Links'
    <2>1. \A s \in rows, r \in Rows : supersedes[s] = r => closer'[r] = closer[r]
      BY <1>4, <1>7, RowFacts, NoneFacts DEF IndInv, Links
    <2> QED
      BY <1>1, <2>1 DEF IndInv, Links
  <1>15. OneRoot'
    BY <1>1 DEF IndInv, OneRoot
  <1>16. Unique'
    <2>1. \A r, s \in rows : closer[r] = s[1] => closer'[r] = s[1]
      BY <1>4, <1>7, RowFacts, NoneFacts
    <2> QED
      BY <1>1, <1>7, <1>8, <2>1 DEF IndInv, Unique
  <1>17. SomeCurrent'
    BY <1>1, <1>7, <1>8 DEF IndInv, SomeCurrent, Live
  <1>18. Accounted'
    <2>1. ASSUME NEW u \in Loads, NEW k \in Keys, pc'[u] \notin Ended, Behind(u, k)',
                 ~(pc'[u] = "insert" /\ KeyOf(u)' = k)
          PROVE  \E r \in rows' : Stands(u, k, r)'
      <3>1. pc[u] \notin Ended /\ Behind(u, k) /\ ~(pc[u] = "insert" /\ KeyOf(u) = k)
        BY <1>2, <1>6, <2>1 DEF Ended
      <3>2. PICK r \in rows : Stands(u, k, r)
        BY <3>1 DEF IndInv, Accounted
      <3>3. LastBehind(u, k, r[3]) => LastBehind(u, k, r[3])'
        BY <1>1 DEF LastBehind
      <3>4. r # v
        <4>1. CASE u = t
          BY <1>2, <1>6, <2>1, <3>2, <4>1 DEF Stands
        <4>2. CASE u # t
          <5>1. ~Committed(u) /\ u # None
            BY <3>1, NoneFacts DEF Committed, Ended
          <5>2. r[1] = u \/ (Committed(r[1]) /\ lock[r] = u)
            BY <3>2 DEF Stands
          <5> QED
            BY <1>t, <4>2, <5>1, <5>2
        <4> QED
          BY <4>1, <4>2
      <3>5. closer'[r] = None /\ lock'[r] = lock[r] /\ r \in Rows
        BY <1>4, <1>7, <3>2, <3>4 DEF Stands
      <3>6. Stands(u, k, r)'
        BY <1>1, <1>7, <3>2, <3>3, <3>5, StandsStays
      <3> QED
        BY <1>1, <3>6
    <2> QED
      BY <2>1 DEF Accounted
  <1>19. IgnoredStays'
    BY <1>1 DEF IgnoredStays
  <1>s. Unseen
    <2>1. \A u \in Loads : pc'[u] = "committed" <=> pc[u] = "committed"
      BY <1>2
    <2>2. \A k \in Keys, r \in Rows : r \in Live(k)' <=> r \in Live(k)
      BY <1>1, <1>7, <1>8 DEF Live
    <2> QED
      BY <1>1, <1>5, <2>1, <2>2 DEF Unseen, inputs, IndInv, TypeOK
  <1> QED
    BY <1>s, <1>5, <1>9, <1>10, <1>11, <1>12, <1>13, <1>14, <1>15, <1>16, <1>17, <1>18, <1>19
       DEF IndInv

\* The row needs no new version: v, current and locked or never to be closed,
\* says the same.
LEMMA KeepsSame ==
    ASSUME IndInv, NEW t \in Loads, pc[t] \in Working, NEW v \in rows,
           v[2] = KeyOf(t), Committed(v[1]) \/ v[1] = t, closer[v] = None,
           v[3] = RowOf(t)[3],
           pc[t] = "insert" => strategy = "ignore",
           \/ lock' = lock /\ strategy = "ignore" /\ Committed(v[1])
           \/ lock[v] \in {None, t} /\ lock' = [lock EXCEPT ![v] = t],
           Advance(t), UNCHANGED <<inputs, rows, closer, supersedes>>
    PROVE  IndInv' /\ Unseen
  <1>1. /\ strategy' = strategy /\ file' = file /\ rows' = rows
        /\ supersedes' = supersedes /\ closer' = closer
    BY DEF inputs
  <1>k. KeyOf(t) \in Keys /\ t \in Txns /\ t # None /\ v \in Rows /\ v[3] \in Contents
    BY AtRow, RowFacts, NoneFacts DEF IndInv, TypeOK, Txns
  <1>2. PICK w \in {"find", "commit"} : pc' = [pc EXCEPT ![t] = w]
    BY <1>1, AdvanceFacts DEF IndInv
  <1>3. /\ \A q \in Txns \union {None} : Committed(q)' <=> Committed(q)
        /\ \A u \in Loads : u # t => pc'[u] = pc[u]
        /\ pc'[t] = w
    BY <1>2, SameCommits DEF IndInv, Working
  <1>4. found'[t] = None /\ \A u \in Loads : u # t => found'[u] = found[u]
    BY DEF IndInv, TypeOK, Advance
  <1>5. /\ \A r \in Rows : r # v => lock'[r] = lock[r]
        /\ strategy = "ignore" \/ lock'[v] = t
        /\ lock'[v] = lock[v] \/ (lock[v] = None /\ lock'[v] = t)
    BY <1>k DEF IndInv, TypeOK
  <1>6. TypeOK'
    <2>1. lock' \in [Rows -> Loads \union {None}]
      BY DEF IndInv, TypeOK
    <2>2. at' \in [Loads -> 1 .. MaxRows + 1]
      BY <1>1, AdvanceFacts DEF IndInv
    <2>3. /\ pc' \in [Loads -> {"find", "blocked", "insert", "commit"} \union Ended]
          /\ found' \in [Loads -> Rows \union {None}]
      BY <1>2 DEF IndInv, TypeOK, Advance
    <2> QED
      BY <1>1, <2>1, <2>2, <2>3 DEF IndInv, TypeOK
  <1>7. /\ Cursor'
        /\ \A u \in Loads : u # t => at'[u] = at[u]
        /\ at'[t] = at[t] + 1 /\ at[t] \in Nat
        /\ \A k \in Keys : Behind(t, k)' <=> Behind(t, k) \/ k = KeyOf(t)
        /\ \A k \in Keys, c \in Contents :
              k # KeyOf(t) /\ LastBehind(t, k, c) => LastBehind(t, k, c)'
        /\ LastBehind(t, v[2], v[3])'
    BY <1>1, <1>k, AdvanceFacts, MaxRowsAssumption DEF IndInv, TypeOK
  <1>8. \A r \in rows : r \in Rows /\ (Committed(r[1])' <=> Committed(r[1]))
    BY <1>3, RowFacts DEF IndInv, TypeOK
  <1>9. \A r \in Rows : Committed(closer[r])' <=> Committed(closer[r])
    BY <1>1, <1>3, RowTypes DEF IndInv
  <1>10. RowsBehind'
    <2>1. ASSUME NEW r \in rows, NEW u \in Loads, r[1] = u
          PROVE  /\ pc'[u] \in Working \union {"commit", "committed"}
                 /\ \E i \in 1 .. (at'[u] - 1) : file[u][i] = <<r[2], r[3]>>
      <3>1. PICK i \in 1 .. (at[u] - 1) : file[u][i] = <<r[2], r[3]>>
        BY <2>1 DEF IndInv, RowsBehind
      <3>2. pc[u] \in Working \union {"commit", "committed"}
        BY <2>1 DEF IndInv, RowsBehind
      <3>3. i \in 1 .. (at'[u] - 1)
        BY <1>7, <3>1
      <3> QED
        BY <1>3, <3>1, <3>2, <3>3 DEF Working
    <2> QED
      BY <1>1, <2>1 DEF RowsBehind
  <1>11. Closings'
    <2>1. ASSUME NEW r \in Rows, NEW c \in Loads, closer[r] = c
          PROVE  /\ r \in rows' /\ (Committed(r[1])' \/ r[1] = c)
                 /\ pc'[c] \in Working \union {"commit", "committed"}
                 /\ \/ \E s \in rows' : s[1] = c /\ supersedes'[s] = r
                    \/ pc'[c] = "insert" /\ found'[c] = r
                 /\ pc'[c] # "committed" => lock'[r] = c
      <3>1. r # v /\ lock'[r] = lock[r]
        BY <1>5, <2>1, NoneFacts
      <3>2. /\ r \in rows /\ (Committed(r[1]) \/ r[1] = c)
            /\ pc[c] \in Working \union {"commit", "committed"}
            /\ \/ \E s \in rows : s[1] = c /\ supersedes[s] = r
               \/ pc[c] = "insert" /\ found[c] = r
            /\ pc[c] # "committed" => lock[r] = c
        BY <2>1 DEF IndInv, Closings
      <3>3. CASE c = t
        <4>1. pc[t] # "insert"
          BY <2>1, <3>3, NoneFacts DEF IndInv, IgnoredStays
        <4> QED
          BY <1>1, <1>3, <1>8, <3>1, <3>2, <3>3, <4>1 DEF Working
      <3>4. CASE c # t
        BY <1>1, <1>3, <1>4, <1>8, <3>1, <3>2, <3>4
      <3> QED
        BY <3>3, <3>4
    <2> QED
      BY <1>1, <2>1 DEF Closings
  <1>12. Locks'
    <2>1. ASSUME NEW r \in Rows, NEW u \in Loads, lock'[r] = u
          PROVE  r \in rows /\ (Committed(r[1])' \/ r[1] = u)
      <3>1. CASE lock[r] = u
        BY <1>8, <3>1 DEF IndInv, Locks
      <3>2. CASE lock[r] # u
        <4>1. r = v /\ u = t
          BY <1>5, <2>1, <3>2
        <4> QED
          BY <1>8, <4>1
      <3> QED
        BY <3>1, <3>2
    <2> QED
      BY <1>1, <2>1 DEF Locks
  <1>13. Findings'
    <2>1. ASSUME NEW u \in Loads, u # t
          PROVE  /\ pc'[u] = "find" => found'[u] = None
                 /\ pc'[u] = "blocked" =>
                       /\ strategy' # "ignore" /\ ~Behind(u, KeyOf(u))'
                       /\ found'[u] \in rows' /\ found'[u][2] = KeyOf(u)'
                       /\ Committed(found[u][1])'
                 /\ pc'[u] = "insert" =>
                       \/ found'[u] = None /\ ~Behind(u, KeyOf(u))'
                       \/ /\ found'[u] \in rows' /\ found'[u][2] = KeyOf(u)'
                          /\ closer'[found'[u]] = u
                          /\ \A s \in rows' : supersedes'[s] # found'[u]
      <3>1. found'[u] = found[u] /\ pc'[u] = pc[u] /\ KeyOf(u)' = KeyOf(u)
        BY <1>1, <1>3, <1>4, <1>7, <2>1, SameCursor
      <3>2. Behind(u, KeyOf(u))' <=> Behind(u, KeyOf(u))
        BY <1>1, <1>7, <2>1 DEF Behind, KeyOf
      <3> QED
        BY <1>1, <1>3, <1>8, <3>1, <3>2 DEF IndInv, Findings
    <2> QED
      BY <1>3, <1>4, <2>1 DEF Findings
  <1>14. Links' /\ OneRoot'
    BY <1>1 DEF IndInv, Links, OneRoot
  <1>15. Unique'
    BY <1>1, <1>8, <1>9 DEF IndInv, Unique
  <1>16. SomeCurrent'
    BY <1>1, <1>8, <1>9 DEF IndInv, SomeCurrent, Live
  <1>17. Accounted'
    <2>1. ASSUME NEW u \in Loads, NEW k \in Keys, pc'[u] \notin Ended, Behind(u, k)',
                 ~(pc'[u] = "insert" /\ KeyOf(u)' = k), ~(u = t /\ k = KeyOf(t))
          PROVE  \E r \in rows' : Stands(u, k, r)'
      <3>1. /\ pc[u] \notin Ended /\ Behind(u, k) /\ ~(pc[u] = "insert" /\ KeyOf(u) = k)
            /\ \A c \in Contents : LastBehind(u, k, c) => LastBehind(u, k, c)'
        <4>1. CASE u = t
          BY <1>3, <1>7, <2>1, <4>1 DEF Ended, Working
        <4>2. CASE u # t
          <5>1. at'[u] = at[u] /\ pc'[u] = pc[u]
            BY <1>3, <1>7, <4>2
          <5> QED
            BY <1>1, <2>1, <5>1, SameCursor
        <4> QED
          BY <4>1, <4>2
      <3>2. PICK r \in rows : Stands(u, k, r)
        BY <3>1 DEF IndInv, Accounted
      <3>3. r \in Rows /\ r[3] \in Contents /\ closer[r] = None
        BY <1>8, <3>2, RowFacts DEF Stands
      <3>4. lock[r] = u => lock'[r] = u
        BY <1>5, <3>3, NoneFacts
      <3>5. Stands(u, k, r)'
        BY <1>1, <1>8, <3>1, <3>2, <3>3, <3>4, StandsStays
      <3> QED
        BY <1>1, <3>5
    <2>2. ASSUME NEW k \in Keys, k = KeyOf(t) PROVE Stands(t, k, v)'
      BY <1>1, <1>5, <1>7, <1>8, <2>2 DEF Stands
    <2> QED
      BY <1>1, <2>1, <2>2 DEF Accounted
  <1>18. IgnoredStays'
    BY <1>1 DEF IndInv, IgnoredStays, KeyIsContent
  <1>s. Unseen
    <2>1. \A u \in Loads : pc'[u] = "committed" <=> pc[u] = "committed"
      BY <1>3 DEF Working
    <2>2. \A k \in Keys, r \in Rows : r \in Live(k)' <=> r \in Live(k)
      BY <1>1, <1>8, <1>9 DEF Live
    <2> QED
      BY <1>1, <1>6, <2>1, <2>2 DEF Unseen, inputs, IndInv, TypeOK
  <1> QED
    BY <1>s, <1>6, <1>7, <1>10, <1>11, <1>12, <1>13, <1>14, <1>15, <1>16, <1>17, <1>18 DEF IndInv

\* The unique index lets a version in only if it replaces the one it found, or
\* if the key has none.
LEMMA KeepsInserted ==
    ASSUME IndInv, NEW t \in Loads, NEW n \in Rows, n = RowOf(t), Insert(t)
    PROVE  IndInv' /\ Unseen
  <1>w. pc[t] = "insert" /\ pc[t] \in Working /\ Advance(t)
    BY DEF Insert, Working
  <1>1. /\ strategy' = strategy /\ file' = file
        /\ rows' = rows \union {n} /\ lock' = lock /\ closer' = closer
    BY DEF inputs, Insert
  <1>k. /\ KeyOf(t) \in Keys /\ n[1] = t /\ n[2] = KeyOf(t) /\ n[3] = RowOf(t)[3]
        /\ n[3] \in Contents
        /\ t \in Txns /\ ~Committed(t) /\ t # Seed /\ t # None
        /\ file[t][at[t]] = <<n[2], n[3]>>
    BY <1>w, AtRow, RowFacts, NoneFacts DEF IndInv, Txns, Committed
  <1>n. n \notin rows /\ closer[n] = None
    <2>1. n \notin rows
      <3>1. \A i \in 1 .. (at[t] - 1) : file[t][i] # <<n[2], n[3]>>
        BY <1>k, <1>w, AtRow DEF IndInv
      <3> QED
        BY <1>k, <3>1 DEF IndInv, RowsBehind
    <2> QED
      BY <2>1, RowTypes DEF IndInv, Closings
  <1>2. PICK w \in {"find", "commit"} : pc' = [pc EXCEPT ![t] = w]
    BY <1>1, <1>w, AdvanceFacts DEF IndInv
  <1>3. /\ \A q \in Txns \union {None} : Committed(q)' <=> Committed(q)
        /\ \A u \in Loads : u # t => pc'[u] = pc[u]
        /\ pc'[t] = w
    BY <1>2, <1>w, SameCommits DEF IndInv
  <1>4. found'[t] = None /\ \A u \in Loads : u # t => found'[u] = found[u]
    BY <1>w DEF IndInv, TypeOK, Advance
  <1>5. \A r \in Rows : supersedes'[r] = IF r = n THEN found[t] ELSE supersedes[r]
    BY DEF IndInv, TypeOK, Insert
  <1>6. TypeOK'
    <2>1. supersedes' \in [Rows -> Rows \union {None}]
      BY <1>w DEF IndInv, TypeOK, Insert
    <2>2. at' \in [Loads -> 1 .. MaxRows + 1]
      BY <1>1, <1>w, AdvanceFacts DEF IndInv
    <2>3. /\ pc' \in [Loads -> {"find", "blocked", "insert", "commit"} \union Ended]
          /\ found' \in [Loads -> Rows \union {None}]
      BY <1>2, <1>w DEF IndInv, TypeOK, Advance
    <2>4. rows' \subseteq Rows
      BY <1>1 DEF IndInv, TypeOK
    <2> QED
      BY <1>1, <2>1, <2>2, <2>3, <2>4 DEF IndInv, TypeOK
  <1>7. /\ Cursor'
        /\ \A u \in Loads : u # t => at'[u] = at[u]
        /\ at'[t] = at[t] + 1 /\ at[t] \in Nat /\ at[t] >= 1
        /\ \A k \in Keys : Behind(t, k)' <=> Behind(t, k) \/ k = KeyOf(t)
        /\ \A k \in Keys, c \in Contents :
              k # KeyOf(t) /\ LastBehind(t, k, c) => LastBehind(t, k, c)'
        /\ LastBehind(t, n[2], n[3])'
    BY <1>1, <1>k, <1>w, AdvanceFacts, MaxRowsAssumption DEF IndInv, TypeOK
  <1>8. \A r \in rows : r \in Rows /\ (Committed(r[1])' <=> Committed(r[1]))
    BY <1>3, RowFacts DEF IndInv, TypeOK
  <1>9. \A r \in Rows : Committed(closer[r])' <=> Committed(closer[r])
    BY <1>1, <1>3, RowTypes DEF IndInv
  <1>10. \A r \in rows : r[2] = n[2] => closer[r] = t \/ Committed(closer[r])
    BY <1>k DEF Insert, Rivals
  <1>f. /\ found[t] = None => ~Behind(t, n[2])
        /\ found[t] # None => /\ found[t] \in rows /\ found[t][2] = n[2] /\ closer[found[t]] = t
                              /\ \A s \in rows : supersedes[s] # found[t]
    BY <1>k, <1>w, NoneFacts DEF IndInv, TypeOK, Findings
  <1>11. RowsBehind'
    <2>1. ASSUME NEW r \in rows, NEW u \in Loads, r[1] = u
          PROVE  /\ pc'[u] \in Working \union {"commit", "committed"}
                 /\ \E i \in 1 .. (at'[u] - 1) : file[u][i] = <<r[2], r[3]>>
      <3>1. PICK i \in 1 .. (at[u] - 1) : file[u][i] = <<r[2], r[3]>>
        BY <2>1 DEF IndInv, RowsBehind
      <3>2. pc[u] \in Working \union {"commit", "committed"}
        BY <2>1 DEF IndInv, RowsBehind
      <3>3. i \in 1 .. (at'[u] - 1)
        BY <1>7, <3>1
      <3> QED
        BY <1>3, <3>1, <3>2, <3>3 DEF Working
    <2>2. /\ pc'[t] \in Working \union {"commit", "committed"}
          /\ \E i \in 1 .. (at'[t] - 1) : file[t][i] = <<n[2], n[3]>>
      <3>1. at[t] \in 1 .. (at'[t] - 1)
        BY <1>7
      <3> QED
        BY <1>3, <1>k, <3>1 DEF Working
    <2> QED
      BY <1>1, <1>k, <2>1, <2>2 DEF RowsBehind
  <1>12. Closings'
    <2>1. ASSUME NEW r \in Rows, NEW c \in Loads, closer[r] = c
          PROVE  /\ r \in rows' /\ (Committed(r[1])' \/ r[1] = c)
                 /\ pc'[c] \in Working \union {"commit", "committed"}
                 /\ \/ \E s \in rows' : s[1] = c /\ supersedes'[s] = r
                    \/ pc'[c] = "insert" /\ found'[c] = r
                 /\ pc'[c] # "committed" => lock'[r] = c
      <3>1. /\ r \in rows /\ (Committed(r[1]) \/ r[1] = c)
            /\ pc[c] \in Working \union {"commit", "committed"}
            /\ \/ \E s \in rows : s[1] = c /\ supersedes[s] = r
               \/ pc[c] = "insert" /\ found[c] = r
            /\ pc[c] # "committed" => lock[r] = c
        BY <2>1 DEF IndInv, Closings
      <3>2. \A s \in rows : s \in rows' /\ supersedes'[s] = supersedes[s]
        BY <1>1, <1>5, <1>8, <1>n
      <3>3. n \in rows' /\ supersedes'[n] = found[t]
        BY <1>1, <1>5
      <3>4. CASE c = t
        <4>1. \E s \in rows' : s[1] = c /\ supersedes'[s] = r
          BY <1>k, <3>1, <3>2, <3>3, <3>4
        <4> QED
          BY <1>1, <1>3, <1>8, <1>w, <3>1, <3>4, <4>1 DEF Working
      <3>5. CASE c # t
        <4>1. \/ \E s \in rows' : s[1] = c /\ supersedes'[s] = r
              \/ pc'[c] = "insert" /\ found'[c] = r
          BY <1>3, <1>4, <3>1, <3>2, <3>5
        <4> QED
          BY <1>1, <1>3, <1>8, <3>1, <3>5, <4>1
      <3> QED
        BY <3>4, <3>5
    <2> QED
      BY <1>1, <2>1 DEF Closings
  <1>13. Locks'
    <2>1. \A r \in Rows, u \in Loads : lock[r] = u => r \in rows /\ (Committed(r[1])' \/ r[1] = u)
      BY <1>8 DEF IndInv, Locks
    <2> QED
      BY <1>1, <2>1 DEF Locks
  <1>14. Findings'
    <2>1. ASSUME NEW u \in Loads, u # t
          PROVE  /\ pc'[u] = "find" => found'[u] = None
                 /\ pc'[u] = "blocked" =>
                       /\ strategy' # "ignore" /\ ~Behind(u, KeyOf(u))'
                       /\ found'[u] \in rows' /\ found'[u][2] = KeyOf(u)'
                       /\ Committed(found[u][1])'
                 /\ pc'[u] = "insert" =>
                       \/ found'[u] = None /\ ~Behind(u, KeyOf(u))'
                       \/ /\ found'[u] \in rows' /\ found'[u][2] = KeyOf(u)'
                          /\ closer'[found'[u]] = u
                          /\ \A s \in rows' : supersedes'[s] # found'[u]
      <3>1. found'[u] = found[u] /\ pc'[u] = pc[u] /\ KeyOf(u)' = KeyOf(u)
        BY <1>1, <1>3, <1>4, <1>7, <2>1, SameCursor
      <3>2. Behind(u, KeyOf(u))' <=> Behind(u, KeyOf(u))
        BY <1>1, <1>7, <2>1 DEF Behind, KeyOf
      <3>3. CASE pc[u] = "find"
        BY <3>1, <3>3 DEF IndInv, Findings
      <3>4. CASE pc[u] = "blocked"
        BY <1>1, <1>8, <3>1, <3>2, <3>4 DEF IndInv, Findings
      <3>5. CASE pc[u] = "insert"
        <4>1. CASE found[u] = None
          BY <3>1, <3>2, <3>5, <4>1, <1>8, RowFacts DEF IndInv, Findings
        <4>2. CASE found[u] # None
          <5>1. /\ found[u] \in rows /\ found[u][2] = KeyOf(u) /\ closer[found[u]] = u
                /\ \A s \in rows : supersedes[s] # found[u]
            BY <3>5, <4>2 DEF IndInv, Findings
          <5>2. supersedes'[n] # found[u]
            BY <1>5, <1>f, <2>1, <5>1, <4>2
          <5>3. \A s \in rows' : supersedes'[s] # found[u]
            BY <1>1, <1>5, <1>8, <1>n, <5>1, <5>2
          <5> QED
            BY <1>1, <3>1, <3>5, <5>1, <5>3
        <4> QED
          BY <4>1, <4>2
      <3> QED
        BY <3>1, <3>3, <3>4, <3>5
    <2> QED
      BY <1>3, <1>4, <2>1 DEF Findings
  <1>15. Links'
    <2>1. ASSUME NEW s \in rows, NEW r \in Rows, supersedes[s] = r
          PROVE  /\ r \in rows' /\ r[2] = s[2] /\ closer'[r] = s[1]
                 /\ \A q \in rows' : supersedes'[q] = r => q = s
      <3>1. /\ r \in rows /\ r[2] = s[2] /\ closer[r] = s[1]
            /\ \A q \in rows : supersedes[q] = r => q = s
        BY <2>1 DEF IndInv, Links
      <3>2. supersedes'[n] # r
        BY <1>5, <1>f, <2>1, <3>1, RowFacts
      <3> QED
        BY <1>1, <1>5, <1>8, <3>1, <3>2
    <2>2. ASSUME NEW r \in Rows, found[t] = r
          PROVE  /\ r \in rows' /\ r[2] = n[2] /\ closer'[r] = n[1]
                 /\ \A q \in rows' : supersedes'[q] = r => q = n
      <3>1. /\ r \in rows /\ r[2] = n[2] /\ closer[r] = t
            /\ \A q \in rows : supersedes[q] # r
        BY <1>f, <2>2, RowFacts
      <3> QED
        BY <1>1, <1>5, <1>8, <1>k, <3>1
    <2>3. \A s \in rows : supersedes'[s] = supersedes[s]
      BY <1>5, <1>8, <1>n
    <2>4. supersedes'[n] = found[t]
      BY <1>5
    <2>5. \A s \in rows : s[1] = Seed => supersedes[s] = None
      BY DEF IndInv, Links
    <2>6. ASSUME NEW s \in rows'
          PROVE  /\ s[1] = Seed => supersedes'[s] = None
                 /\ \A r \in Rows : supersedes'[s] = r =>
                       /\ r \in rows' /\ r[2] = s[2] /\ closer'[r] = s[1]
                       /\ \A q \in rows' : supersedes'[q] = r => q = s
      <3>1. CASE s = n
        BY <1>k, <2>2, <2>4, <3>1
      <3>2. CASE s \in rows
        BY <2>1, <2>3, <2>5, <3>2
      <3> QED
        BY <1>1, <3>1, <3>2
    <2> QED
      BY <2>6 DEF Links
  <1>16. OneRoot'
    <2>1. ASSUME found[t] = None, NEW r \in rows, r[2] = n[2] PROVE FALSE
      <3>1. \A q \in Rows : q[2] = n[2] => closer[q] # t
        BY <1>f, <1>k, <2>1, NothingOfKey, RowFacts DEF IndInv
      <3>2. Committed(closer[r]) /\ closer[r] # None
        BY <1>10, <1>8, <2>1, <3>1, RowTypes DEF IndInv
      <3>3. PICK c \in Loads : closer[r] = c
        BY <1>8, <3>2, RowTypes DEF IndInv
      <3>4. Committed(r[1])
        BY <1>8, <3>2, <3>3 DEF IndInv, Closings
      <3>5. PICK q \in rows : q \in Live(r[2])
        BY <3>4 DEF IndInv, SomeCurrent
      <3> QED
        BY <1>8, <2>1, <3>1, <3>5, <1>10 DEF Live
    <2>2. ASSUME NEW r \in rows', NEW s \in rows', r[2] = s[2],
                 supersedes'[r] = None, supersedes'[s] = None
          PROVE  r = s
      <3>1. CASE r \in rows /\ s \in rows
        BY <1>5, <1>8, <1>n, <2>2, <3>1 DEF IndInv, OneRoot
      <3>2. CASE r = n /\ s \in rows
        BY <1>5, <2>1, <2>2, <3>2
      <3>3. CASE s = n /\ r \in rows
        BY <1>5, <2>1, <2>2, <3>3
      <3> QED
        BY <1>1, <3>1, <3>2, <3>3
    <2> QED
      BY <2>2 DEF OneRoot
  <1>17. Unique'
    <2>1. ASSUME NEW r \in rows', NEW s \in rows', r[2] = s[2], r # s
          PROVE  \/ closer[r] = s[1] \/ Committed(closer[r])
                 \/ closer[s] = r[1] \/ Committed(closer[s])
      <3>1. CASE r \in rows /\ s \in rows
        BY <2>1, <3>1 DEF IndInv, Unique
      <3>2. CASE r = n /\ s \in rows
        BY <1>10, <1>k, <2>1, <3>2
      <3>3. CASE s = n /\ r \in rows
        BY <1>10, <1>k, <2>1, <3>3
      <3> QED
        BY <1>1, <2>1, <3>1, <3>2, <3>3
    <2>2. rows' \subseteq Rows
      BY <1>6 DEF TypeOK
    <2> QED
      BY <1>1, <1>9, <2>1, <2>2 DEF Unique
  <1>l. \A k \in Keys, r \in Rows : r \in Live(k)' <=> r \in Live(k)
    <2>1. ~Committed(n[1])'
      BY <1>3, <1>k
    <2> QED
      BY <1>1, <1>8, <1>9, <1>k, <2>1 DEF Live
  <1>18. SomeCurrent'
    <2>1. ASSUME NEW r \in rows', Committed(r[1])' PROVE \E s \in rows' : s \in Live(r[2])'
      <3>1. r \in rows /\ Committed(r[1]) /\ r[2] \in Keys
        BY <1>1, <1>3, <1>8, <1>k, <2>1, RowFacts
      <3>2. PICK s \in rows : s \in Live(r[2])
        BY <3>1 DEF IndInv, SomeCurrent
      <3> QED
        BY <1>1, <1>8, <1>l, <3>1, <3>2
    <2> QED
      BY <2>1 DEF SomeCurrent
  <1>19. Accounted'
    <2>1. ASSUME NEW u \in Loads, NEW k \in Keys, pc'[u] \notin Ended, Behind(u, k)',
                 ~(pc'[u] = "insert" /\ KeyOf(u)' = k), ~(u = t /\ k = KeyOf(t))
          PROVE  \E r \in rows' : Stands(u, k, r)'
      <3>1. /\ pc[u] \notin Ended /\ Behind(u, k) /\ ~(pc[u] = "insert" /\ KeyOf(u) = k)
            /\ \A c \in Contents : LastBehind(u, k, c) => LastBehind(u, k, c)'
        <4>1. CASE u = t
          BY <1>3, <1>7, <1>w, <2>1, <4>1 DEF Ended, Working
        <4>2. CASE u # t
          <5>1. at'[u] = at[u] /\ pc'[u] = pc[u]
            BY <1>3, <1>7, <4>2
          <5> QED
            BY <1>1, <2>1, <5>1, SameCursor
        <4> QED
          BY <4>1, <4>2
      <3>2. PICK r \in rows : Stands(u, k, r)
        BY <3>1 DEF IndInv, Accounted
      <3>3. r \in Rows /\ r[3] \in Contents /\ closer[r] = None
        BY <1>8, <3>2, RowFacts DEF Stands
      <3>5. Stands(u, k, r)'
        BY <1>1, <1>8, <3>1, <3>2, <3>3, StandsStays
      <3> QED
        BY <1>1, <3>5
    <2>2. ASSUME NEW k \in Keys, k = KeyOf(t) PROVE Stands(t, k, n)' /\ n \in rows'
      BY <1>1, <1>k, <1>n, <1>7, <2>2 DEF Stands
    <2> QED
      BY <2>1, <2>2 DEF Accounted
  <1>20. IgnoredStays'
    <2> SUFFICES ASSUME strategy = "ignore" PROVE KeyIsContent'
      BY <1>1 DEF IndInv, IgnoredStays
    <2>1. PICK part \in [Keys -> Contents] :
             /\ \A u \in Loads : \A i \in DOMAIN file[u] : file[u][i][2] = part[file[u][i][1]]
             /\ \A r \in rows : r[3] = part[r[2]]
      BY DEF IndInv, IgnoredStays, KeyIsContent
    <2>2. at[t] \in DOMAIN file[t]
      BY <1>w, AtRow, FileFacts DEF IndInv
    <2>3. file[t][at[t]][1] = n[2] /\ file[t][at[t]][2] = n[3]
      BY <1>k
    <2>4. n[3] = part[n[2]]
      BY <2>1, <2>2, <2>3
    <2> QED
      BY <1>1, <2>1, <2>4 DEF KeyIsContent
  <1>s. Unseen
    <2>1. \A u \in Loads : pc'[u] = "committed" <=> pc[u] = "committed"
      BY <1>3, <1>w
    <2> QED
      BY <1>1, <1>6, <1>l, <2>1 DEF Unseen, inputs, IndInv, TypeOK
  <1> QED
    BY <1>s, <1>6, <1>7, <1>11, <1>12, <1>13, <1>14, <1>15, <1>16, <1>17, <1>18, <1>19, <1>20
       DEF IndInv

\* A load that ends without its commit takes back what it did, and only that.
LEMMA KeepsRolledBack ==
    ASSUME IndInv, NEW t \in Loads, pc[t] \notin Ended,
           NEW w \in {"conflict", "deadlock", "failed"}, Rollback(t, w)
    PROVE  IndInv' /\ Unseen
  <1>t. t \in Txns /\ ~Committed(t) /\ t # Seed /\ t # None /\ pc[t] # "committed"
    BY NoneFacts DEF Txns, Committed, Ended
  <1>1. /\ strategy' = strategy /\ file' = file
        /\ at' = at /\ found' = found /\ pc' = [pc EXCEPT ![t] = w]
    BY DEF inputs, Rollback
  <1>2. /\ \A q \in Txns \union {None} : Committed(q)' <=> Committed(q)
        /\ \A u \in Loads : u # t => pc'[u] = pc[u]
        /\ pc'[t] = w
    BY <1>1, <1>t, SameCommits DEF IndInv
  <1>3. \A r \in Rows :
           /\ r \in rows' <=> r \in rows /\ r[1] # t
           /\ closer'[r] = IF closer[r] = t THEN None ELSE closer[r]
           /\ lock'[r] = IF lock[r] = t THEN None ELSE lock[r]
           /\ supersedes'[r] = IF r[1] = t THEN None ELSE supersedes[r]
    BY DEF IndInv, TypeOK, Rollback, Release
  <1>4. TypeOK'
    <2>1. closer' \in [Rows -> Loads \union {None}] /\ lock' \in [Rows -> Loads \union {None}]
      BY DEF IndInv, TypeOK, Rollback, Release
    <2>2. supersedes' \in [Rows -> Rows \union {None}] /\ rows' \subseteq Rows
      BY DEF IndInv, TypeOK, Rollback
    <2>3. pc' \in [Loads -> {"find", "blocked", "insert", "commit"} \union Ended]
      BY <1>1 DEF IndInv, TypeOK, Ended
    <2> QED
      BY <1>1, <2>1, <2>2, <2>3 DEF IndInv, TypeOK
  <1>5. rows \subseteq Rows /\ rows' \subseteq Rows
    BY <1>4 DEF IndInv, TypeOK
  <1>6. \A u \in Loads : /\ KeyOf(u)' = KeyOf(u)
                         /\ \A k \in Keys : Behind(u, k)' <=> Behind(u, k)
    BY <1>1, SameCursor
  <1>7. \A r \in Rows : Committed(r[1])' <=> Committed(r[1])
    BY <1>2, RowFacts
  <1>8. ASSUME NEW r \in Rows PROVE Committed(closer[r])' <=> Committed(closer[r])
    <2>1. CASE closer[r] = t
      <3>1. closer'[r] = None /\ ~Committed(None)
        BY <1>3, <2>1, RowTypes DEF IndInv
      <3> QED
        BY <1>2, <1>t, <2>1, <3>1
    <2>2. CASE closer[r] # t
      <3>1. closer'[r] = closer[r] /\ closer[r] \in Txns \union {None}
        BY <1>3, <2>2, RowTypes DEF IndInv
      <3> QED
        BY <1>2, <3>1
    <2> QED
      BY <2>1, <2>2
  <1>9. Cursor'
    BY <1>1, <1>2 DEF IndInv, Cursor, Working
  <1>10. RowsBehind'
    <2>1. ASSUME NEW r \in rows', NEW u \in Loads, r[1] = u
          PROVE  /\ pc'[u] \in Working \union {"commit", "committed"}
                 /\ \E i \in 1 .. (at[u] - 1) : file[u][i] = <<r[2], r[3]>>
      <3>1. r \in rows /\ u # t
        BY <1>3, <1>5, <2>1
      <3> QED
        BY <1>2, <2>1, <3>1 DEF IndInv, RowsBehind
    <2> QED
      BY <1>1, <2>1 DEF RowsBehind
  <1>11. Closings'
    <2>1. ASSUME NEW r \in Rows, NEW c \in Loads, closer'[r] = c
          PROVE  /\ r \in rows' /\ (Committed(r[1])' \/ r[1] = c)
                 /\ pc'[c] \in Working \union {"commit", "committed"}
                 /\ \/ \E s \in rows' : s[1] = c /\ supersedes'[s] = r
                    \/ pc'[c] = "insert" /\ found'[c] = r
                 /\ pc'[c] # "committed" => lock'[r] = c
      <3>1. closer[r] = c /\ c # t
        BY <1>3, <2>1, NoneFacts
      <3>2. /\ r \in rows /\ (Committed(r[1]) \/ r[1] = c)
            /\ pc[c] \in Working \union {"commit", "committed"}
            /\ \/ \E s \in rows : s[1] = c /\ supersedes[s] = r
               \/ pc[c] = "insert" /\ found[c] = r
            /\ pc[c] # "committed" => lock[r] = c
        BY <3>1 DEF IndInv, Closings
      <3>3. \A s \in rows : s[1] = c => s \in rows' /\ supersedes'[s] = supersedes[s]
        BY <1>3, <1>5, <3>1
      <3>4. r \in rows'
        BY <1>3, <1>t, <3>1, <3>2
      <3> QED
        BY <1>1, <1>2, <1>3, <1>7, <3>1, <3>2, <3>3, <3>4
    <2> QED
      BY <2>1 DEF Closings
  <1>12. Locks'
    <2>1. ASSUME NEW r \in Rows, NEW u \in Loads, lock'[r] = u
          PROVE  r \in rows' /\ (Committed(r[1])' \/ r[1] = u)
      <3>1. lock[r] = u /\ u # t
        BY <1>3, <2>1, NoneFacts
      <3>2. r \in rows /\ (Committed(r[1]) \/ r[1] = u)
        BY <3>1 DEF IndInv, Locks
      <3> QED
        BY <1>3, <1>7, <1>t, <3>1, <3>2
    <2> QED
      BY <2>1 DEF Locks
  <1>13. Findings'
    <2>1. ASSUME NEW u \in Loads
          PROVE  /\ pc'[u] = "find" => found'[u] = None
                 /\ pc'[u] = "blocked" =>
                       /\ strategy' # "ignore" /\ ~Behind(u, KeyOf(u))'
                       /\ found'[u] \in rows' /\ found'[u][2] = KeyOf(u)'
                       /\ Committed(found[u][1])'
                 /\ pc'[u] = "insert" =>
                       \/ found'[u] = None /\ ~Behind(u, KeyOf(u))'
                       \/ /\ found'[u] \in rows' /\ found'[u][2] = KeyOf(u)'
                          /\ closer'[found'[u]] = u
                          /\ \A s \in rows' : supersedes'[s] # found'[u]
      <3>1. CASE u = t
        BY <1>2, <3>1
      <3>2. CASE u # t
        <4>1. found'[u] = found[u] /\ pc'[u] = pc[u] /\ KeyOf(u)' = KeyOf(u)
          BY <1>1, <1>2, <1>6, <3>2
        <4>2. Behind(u, KeyOf(u))' <=> Behind(u, KeyOf(u))
          BY <1>1 DEF Behind, KeyOf
        <4>3. CASE pc[u] = "blocked"
          <5>1. /\ strategy # "ignore" /\ ~Behind(u, KeyOf(u))
                /\ found[u] \in rows /\ found[u][2] = KeyOf(u) /\ Committed(found[u][1])
            BY <4>3 DEF IndInv, Findings
          <5>2. found[u] \in rows' /\ Committed(found[u][1])'
            BY <1>1, <1>3, <1>5, <1>7, <1>t, <5>1
          <5> QED
            BY <1>1, <4>1, <4>2, <4>3, <5>1, <5>2
        <4>4. CASE pc[u] = "insert" /\ found[u] # None
          <5>1. /\ found[u] \in rows /\ found[u][2] = KeyOf(u) /\ closer[found[u]] = u
                /\ \A s \in rows : supersedes[s] # found[u]
            BY <4>4 DEF IndInv, Findings
          <5>2. Committed(found[u][1]) \/ found[u][1] = u
            BY <1>5, <5>1 DEF IndInv, Closings
          <5>3. found[u] \in rows' /\ closer'[found[u]] = u
            BY <1>3, <1>5, <1>t, <3>2, <5>1, <5>2
          <5>4. \A s \in rows' : supersedes'[s] # found[u]
            BY <1>3, <1>5, <5>1
          <5> QED
            BY <4>1, <4>4, <5>1, <5>3, <5>4
        <4>5. CASE pc[u] = "insert" /\ found[u] = None
          <5>1. ~Behind(u, KeyOf(u))
            BY <1>5, <4>5, NoneFacts DEF IndInv, Findings
          <5> QED
            BY <4>1, <4>2, <4>5, <5>1
        <4>6. CASE pc[u] = "find"
          BY <4>1, <4>6 DEF IndInv, Findings
        <4> QED
          BY <4>1, <4>3, <4>4, <4>5, <4>6
      <3> QED
        BY <3>1, <3>2
    <2> QED
      BY <2>1 DEF Findings
  <1>14. Links'
    <2>1. ASSUME NEW s \in rows'
          PROVE  /\ s[1] = Seed => supersedes'[s] = None
                 /\ \A r \in Rows : supersedes'[s] = r =>
                       /\ r \in rows' /\ r[2] = s[2] /\ closer'[r] = s[1]
                       /\ \A q \in rows' : supersedes'[q] = r => q = s
      <3>1. s \in rows /\ s[1] # t /\ supersedes'[s] = supersedes[s] /\ s[1] \in Txns
        BY <1>3, <1>5, RowFacts
      <3>2. ASSUME NEW r \in Rows, supersedes[s] = r
            PROVE  /\ r \in rows' /\ r[2] = s[2] /\ closer'[r] = s[1]
                   /\ \A q \in rows' : supersedes'[q] = r => q = s
        <4>1. /\ r \in rows /\ r[2] = s[2] /\ closer[r] = s[1]
              /\ \A q \in rows : supersedes[q] = r => q = s
          BY <3>1, <3>2 DEF IndInv, Links
        <4>2. s[1] \in Loads
          BY <4>1, <3>1, RowTypes, NoneFacts DEF IndInv, Txns
        <4>3. Committed(r[1]) \/ r[1] = s[1]
          BY <4>1, <4>2 DEF IndInv, Closings
        <4> QED
          BY <1>3, <1>5, <1>t, <3>1, <4>1, <4>3
      <3>3. s[1] = Seed => supersedes[s] = None
        BY <3>1 DEF IndInv, Links
      <3> QED
        BY <3>1, <3>2, <3>3
    <2> QED
      BY <2>1 DEF Links
  <1>15. OneRoot'
    <2>1. \A r \in rows' : r \in rows /\ supersedes'[r] = supersedes[r]
      BY <1>3, <1>5
    <2> QED
      BY <2>1 DEF IndInv, OneRoot
  <1>16. Unique'
    <2>1. ASSUME NEW r \in rows', NEW s \in rows', r[2] = s[2], r # s
          PROVE  \/ closer'[r] = s[1] \/ Committed(closer[r])'
                 \/ closer'[s] = r[1] \/ Committed(closer[s])'
      <3>1. r \in rows /\ s \in rows /\ r[1] # t /\ s[1] # t
        BY <1>3, <1>5
      <3>2. \/ closer[r] = s[1] \/ Committed(closer[r])
            \/ closer[s] = r[1] \/ Committed(closer[s])
        BY <2>1, <3>1 DEF IndInv, Unique
      <3> QED
        BY <1>3, <1>5, <1>8, <3>1, <3>2
    <2> QED
      BY <2>1 DEF Unique
  <1>l. \A k \in Keys, r \in Rows : r \in Live(k)' <=> r \in Live(k)
    BY <1>3, <1>7, <1>8, <1>t DEF Live
  <1>17. SomeCurrent'
    <2>1. ASSUME NEW r \in rows', Committed(r[1])' PROVE \E s \in rows' : s \in Live(r[2])'
      <3>1. r \in rows /\ Committed(r[1]) /\ r[2] \in Keys
        BY <1>3, <1>5, <1>7, <2>1, RowFacts
      <3>2. PICK s \in rows : s \in Live(r[2])
        BY <3>1 DEF IndInv, SomeCurrent
      <3>3. s \in Live(r[2])'
        BY <1>5, <1>l, <3>1, <3>2
      <3> QED
        BY <3>3 DEF Live
    <2> QED
      BY <2>1 DEF SomeCurrent
  <1>18. Accounted'
    <2>1. ASSUME NEW u \in Loads, NEW k \in Keys, pc'[u] \notin Ended, Behind(u, k)',
                 ~(pc'[u] = "insert" /\ KeyOf(u)' = k)
          PROVE  \E r \in rows' : Stands(u, k, r)'
      <3>1. /\ u # t /\ pc[u] \notin Ended /\ Behind(u, k)
            /\ ~(pc[u] = "insert" /\ KeyOf(u) = k)
        BY <1>2, <1>6, <2>1 DEF Ended
      <3>2. PICK r \in rows : Stands(u, k, r)
        BY <3>1 DEF IndInv, Accounted
      <3>3. LastBehind(u, k, r[3]) => LastBehind(u, k, r[3])'
        BY <1>1 DEF LastBehind
      <3>4. r \in Rows /\ closer[r] = None /\ (r[1] = u \/ Committed(r[1]))
        BY <1>5, <3>2 DEF Stands
      <3>5. r \in rows' /\ closer'[r] = None /\ (lock[r] = u => lock'[r] = u)
        BY <1>3, <1>t, <3>1, <3>2, <3>4
      <3>6. Stands(u, k, r)'
        BY <1>1, <1>7, <3>2, <3>3, <3>4, <3>5, StandsStays
      <3> QED
        BY <3>5, <3>6
    <2> QED
      BY <2>1 DEF Accounted
  <1>19. IgnoredStays'
    <2>1. \A r \in rows' : r \in rows
      BY <1>3, <1>5
    <2>2. strategy = "ignore" => \A r \in Rows : closer'[r] = None
      BY <1>3 DEF IndInv, IgnoredStays
    <2>3. KeyIsContent => KeyIsContent'
      BY <1>1, <2>1 DEF KeyIsContent
    <2> QED
      BY <1>1, <2>2, <2>3 DEF IndInv, IgnoredStays
  <1>s. Unseen
    <2>1. \A u \in Loads : pc'[u] = "committed" <=> pc[u] = "committed"
      BY <1>2, <1>t
    <2> QED
      BY <1>1, <1>5, <1>l, <2>1 DEF Unseen, inputs
  <1> QED
    BY <1>s, <1>4, <1>9, <1>10, <1>11, <1>12, <1>13, <1>14, <1>15, <1>16, <1>17, <1>18, <1>19
       DEF IndInv

\* A commit makes the closing of the old versions and the new ones visible at once.
LEMMA KeepsCommitted ==
    ASSUME IndInv, NEW t \in Loads, Commit(t)
    PROVE  IndInv'
  <1>t. t \in Txns /\ ~Committed(t) /\ t # Seed /\ t # None /\ pc[t] = "commit"
    BY NoneFacts DEF Txns, Committed, Commit
  <1>1. /\ strategy' = strategy /\ file' = file /\ rows' = rows
        /\ closer' = closer /\ supersedes' = supersedes /\ at' = at /\ found' = found
        /\ pc' = [pc EXCEPT ![t] = "committed"]
    BY DEF inputs, Commit
  <1>2. pc'[t] = "committed" /\ \A u \in Loads : u # t => pc'[u] = pc[u]
    BY <1>1 DEF IndInv, TypeOK
  <1>3. \A q : Committed(q)' <=> Committed(q) \/ q = t
    BY <1>2 DEF Committed
  <1>4. \A r \in Rows : lock'[r] = IF lock[r] = t THEN None ELSE lock[r]
    BY DEF IndInv, TypeOK, Commit, Release
  <1>5. TypeOK'
    <2>1. lock' \in [Rows -> Loads \union {None}]
      BY DEF IndInv, TypeOK, Commit, Release
    <2>2. pc' \in [Loads -> {"find", "blocked", "insert", "commit"} \union Ended]
      BY <1>1 DEF IndInv, TypeOK, Ended
    <2> QED
      BY <1>1, <2>1, <2>2 DEF IndInv, TypeOK
  <1>6. \A u \in Loads : /\ KeyOf(u)' = KeyOf(u)
                         /\ \A k \in Keys : Behind(u, k)' <=> Behind(u, k)
    BY <1>1, SameCursor
  <1>7. rows \subseteq Rows /\ \A r \in Rows : Committed(closer[r]) => Committed(closer[r])'
    BY <1>1, <1>3 DEF IndInv, TypeOK
  <1>9. Cursor'
    BY <1>1, <1>2, <1>t DEF IndInv, Cursor, Working
  <1>10. RowsBehind'
    <2>1. ASSUME NEW r \in rows, NEW u \in Loads, r[1] = u
          PROVE  /\ pc'[u] \in Working \union {"commit", "committed"}
                 /\ \E i \in 1 .. (at[u] - 1) : file[u][i] = <<r[2], r[3]>>
      BY <1>2, <2>1 DEF IndInv, RowsBehind
    <2> QED
      BY <1>1, <2>1 DEF RowsBehind
  <1>11. Closings'
    <2>1. ASSUME NEW r \in Rows, NEW c \in Loads, closer[r] = c
          PROVE  /\ r \in rows /\ (Committed(r[1])' \/ r[1] = c)
                 /\ pc'[c] \in Working \union {"commit", "committed"}
                 /\ \/ \E s \in rows : s[1] = c /\ supersedes[s] = r
                    \/ pc'[c] = "insert" /\ found[c] = r
                 /\ pc'[c] # "committed" => lock'[r] = c
      <3>1. /\ r \in rows /\ (Committed(r[1]) \/ r[1] = c)
            /\ pc[c] \in Working \union {"commit", "committed"}
            /\ \/ \E s \in rows : s[1] = c /\ supersedes[s] = r
               \/ pc[c] = "insert" /\ found[c] = r
            /\ pc[c] # "committed" => lock[r] = c
        BY <2>1 DEF IndInv, Closings
      <3>2. Committed(r[1]) => Committed(r[1])'
        BY <1>3
      <3> QED
        BY <1>2, <1>4, <1>t, <3>1, <3>2
    <2> QED
      BY <1>1, <2>1 DEF Closings
  <1>12. Locks'
    <2>1. ASSUME NEW r \in Rows, NEW u \in Loads, lock'[r] = u
          PROVE  r \in rows /\ (Committed(r[1])' \/ r[1] = u)
      <3>1. lock[r] = u
        BY <1>4, <2>1, NoneFacts
      <3> QED
        BY <1>3, <3>1 DEF IndInv, Locks
    <2> QED
      BY <1>1, <2>1 DEF Locks
  <1>13. Findings'
    <2>1. ASSUME NEW u \in Loads
          PROVE  /\ pc'[u] = "find" => found'[u] = None
                 /\ pc'[u] = "blocked" =>
                       /\ strategy' # "ignore" /\ ~Behind(u, KeyOf(u))'
                       /\ found'[u] \in rows' /\ found'[u][2] = KeyOf(u)'
                       /\ Committed(found[u][1])'
                 /\ pc'[u] = "insert" =>
                       \/ found'[u] = None /\ ~Behind(u, KeyOf(u))'
                       \/ /\ found'[u] \in rows' /\ found'[u][2] = KeyOf(u)'
                          /\ closer'[found'[u]] = u
                          /\ \A s \in rows' : supersedes'[s] # found'[u]
      <3>1. CASE u = t
        BY <1>2, <3>1
      <3>2. CASE u # t
        <4>1. found'[u] = found[u] /\ pc'[u] = pc[u] /\ KeyOf(u)' = KeyOf(u)
          BY <1>1, <1>2, <1>6, <3>2
        <4>2. Behind(u, KeyOf(u))' <=> Behind(u, KeyOf(u))
          BY <1>1 DEF Behind, KeyOf
        <4>3. Committed(found[u][1]) => Committed(found[u][1])'
          BY <1>1, <1>3
        <4> QED
          BY <1>1, <4>1, <4>2, <4>3 DEF IndInv, Findings
      <3> QED
        BY <3>1, <3>2
    <2> QED
      BY <2>1 DEF Findings
  <1>14. Links' /\ OneRoot'
    BY <1>1 DEF IndInv, Links, OneRoot
  <1>15. Unique'
    BY <1>1, <1>7 DEF IndInv, Unique
  <1>16. SomeCurrent'
    <2>1. ASSUME NEW r \in rows, Committed(r[1])' PROVE \E s \in rows : s \in Live(r[2])'
      <3>0. r[2] \in Keys
        BY <1>7, RowFacts
      <3>1. CASE Behind(t, r[2])
        <4>1. PICK s \in rows : Stands(t, r[2], s)
          BY <1>t, <3>0, <3>1 DEF IndInv, Accounted, Ended
        <4>2. /\ s[2] = r[2] /\ closer[s] = None /\ Committed(s[1])'
          BY <1>3, <4>1 DEF Stands
        <4>3. ~Committed(closer[s])'
          <5>1. ~Committed(None)'
            BY NoneFacts DEF Committed, Txns
          <5>2. closer'[s] = None
            BY <1>1, <4>2
          <5> QED
            BY <5>1, <5>2
        <4> QED
          BY <1>1, <4>2, <4>3 DEF Live
      <3>2. CASE ~Behind(t, r[2])
        <4>1. Committed(r[1])
          BY <1>3, <2>1, <3>0, <3>2, NothingOfKey
        <4>2. PICK s \in rows : s \in Live(r[2])
          BY <4>1 DEF IndInv, SomeCurrent
        <4>3. closer[s] # t
          BY <1>7, <1>t, <3>0, <3>2, <4>2, NothingOfKey DEF Live
        <4> QED
          BY <1>1, <1>3, <4>2, <4>3 DEF Live
      <3> QED
        BY <3>1, <3>2
    <2> QED
      BY <1>1, <2>1 DEF SomeCurrent
  <1>17. Accounted'
    <2>1. ASSUME NEW u \in Loads, NEW k \in Keys, pc'[u] \notin Ended, Behind(u, k)',
                 ~(pc'[u] = "insert" /\ KeyOf(u)' = k)
          PROVE  \E r \in rows' : Stands(u, k, r)'
      <3>1. /\ u # t /\ pc[u] \notin Ended /\ Behind(u, k)
            /\ ~(pc[u] = "insert" /\ KeyOf(u) = k)
        BY <1>2, <1>6, <2>1 DEF Ended
      <3>2. PICK r \in rows : Stands(u, k, r)
        BY <3>1 DEF IndInv, Accounted
      <3>3. LastBehind(u, k, r[3]) => LastBehind(u, k, r[3])'
        BY <1>1 DEF LastBehind
      <3>4. r \in Rows /\ closer'[r] = None
        BY <1>1, <1>7, <3>2 DEF Stands
      <3>5. lock[r] = u => lock'[r] = u
        BY <1>4, <3>1, <3>4
      <3>6. Committed(r[1]) => Committed(r[1])'
        BY <1>3
      <3>7. Stands(u, k, r)'
        BY <1>1, <3>2, <3>3, <3>4, <3>5, <3>6, StandsStays
      <3> QED
        BY <1>1, <3>7
    <2> QED
      BY <2>1 DEF Accounted
  <1>18. IgnoredStays'
    BY <1>1 DEF IndInv, IgnoredStays, KeyIsContent
  <1> QED
    BY <1>5, <1>9, <1>10, <1>11, <1>12, <1>13, <1>14, <1>15, <1>16, <1>17, <1>18 DEF IndInv

\* What FOR UPDATE does with the version it returns.
LEMMA KeepsTaken ==
    ASSUME IndInv, NEW t \in Loads, pc[t] \in {"find", "blocked"}, NEW v \in rows,
           strategy # "ignore", v[2] = KeyOf(t), Committed(v[1]) \/ v[1] = t,
           ~Committed(closer[v]), closer[v] # t, lock[v] \in {None, t},
           Take(t, v), UNCHANGED <<inputs, rows, supersedes>>
    PROVE  IndInv' /\ Unseen
  <1>1. v \in Rows
    BY DEF IndInv, TypeOK
  <1>2. closer[v] = None
    BY <1>1, FreeIsOpen
  <1>3. CASE strategy = "compare" /\ v[3] = RowOf(t)[3]
    <2>1. lock' = [lock EXCEPT ![v] = t] /\ Advance(t) /\ UNCHANGED closer
      BY <1>3 DEF Take
    <2> QED
      BY <1>2, <1>3, <2>1, KeepsSame DEF Working
  <1>4. CASE ~(strategy = "compare" /\ v[3] = RowOf(t)[3])
    <2>1. /\ lock' = [lock EXCEPT ![v] = t]
          /\ closer' = [closer EXCEPT ![v] = t]
          /\ pc' = [pc EXCEPT ![t] = "insert"]
          /\ found' = [found EXCEPT ![t] = v]
          /\ UNCHANGED at
      BY <1>4 DEF Take
    <2> QED
      BY <1>2, <2>1, KeepsClosed
  <1> QED
    BY <1>3, <1>4

\* A load in a cycle of waiting loads waits itself.
LEMMA CycleIsOpen ==
    ASSUME NEW t \in Loads, InCycle(t)
    PROVE  pc[t] \in {"blocked", "insert"}
  <1>1. PICK n \in 1 .. Cardinality(Loads) : \E c \in [1 .. n -> Loads] :
           c[1] = t /\ \A i \in 1 .. n : c[(i % n) + 1] \in WaitsFor(c[i])
    BY DEF InCycle
  <1>2. PICK c \in [1 .. n -> Loads] :
           c[1] = t /\ \A i \in 1 .. n : c[(i % n) + 1] \in WaitsFor(c[i])
    BY <1>1
  <1>3. 1 \in 1 .. n
    BY <1>1
  <1>4. WaitsFor(t) # {}
    BY <1>2, <1>3
  <1> QED
    BY <1>4 DEF WaitsFor

\* Each step of a load other than its commit.
LEMMA QuietStep ==
    ASSUME IndInv, NEW t \in Loads, Step(t) \/ Fail(t), ~Commit(t)
    PROVE  IndInv' /\ Unseen
  <1>1. CASE FindNothing(t)
    <2>1. /\ pc[t] = "find" /\ pc' = [pc EXCEPT ![t] = "insert"] /\ found' = found
          /\ strategy = "ignore" \/ Visible(t) = {}
          /\ UNCHANGED <<inputs, rows, closer, lock, supersedes, at>>
      BY <1>1 DEF FindNothing
    <2>2. found' = [found EXCEPT ![t] = None]
      <3>1. found[t] = None
        BY <2>1 DEF IndInv, Findings
      <3>2. found \in [Loads -> Rows \union {None}]
        BY DEF IndInv, TypeOK
      <3> QED
        BY <2>1, <3>1, <3>2
    <2>3. ~Behind(t, KeyOf(t))
      BY <2>1, FirstOfKey
    <2> QED
      BY <2>1, <2>2, <2>3, KeepsRelocated
  <1>2. CASE FindAndLock(t)
    <2>1. /\ pc[t] = "find" /\ strategy # "ignore"
          /\ UNCHANGED <<inputs, rows, supersedes>>
      BY <1>2 DEF FindAndLock
    <2>2. PICK v \in Visible(t) : lock[v] \in {None, t} /\ Take(t, v)
      BY <1>2 DEF FindAndLock
    <2>3. /\ v \in rows /\ v[2] = KeyOf(t) /\ (Committed(v[1]) \/ v[1] = t)
          /\ ~Committed(closer[v]) /\ closer[v] # t
      BY <2>2 DEF Visible
    <2> QED
      BY <2>1, <2>2, <2>3, KeepsTaken
  <1>3. CASE FindLocked(t)
    <2>1. /\ pc[t] = "find" /\ strategy # "ignore" /\ pc' = [pc EXCEPT ![t] = "blocked"]
          /\ UNCHANGED <<inputs, rows, closer, lock, supersedes, at>>
      BY <1>3 DEF FindLocked
    <2>2. PICK v \in Visible(t) : lock[v] \notin {None, t} /\ found' = [found EXCEPT ![t] = v]
      BY <1>3 DEF FindLocked
    <2>3. ~Behind(t, KeyOf(t))
      BY <2>1, <2>2, FirstOfKey
    <2>4. v \in rows /\ v[2] = KeyOf(t) /\ (Committed(v[1]) \/ v[1] = t) /\ v \in Rows
      BY <2>2 DEF Visible, IndInv, TypeOK
    <2>5. KeyOf(t) \in Keys
      BY <2>1, AtRow DEF IndInv, Working
    <2>6. Committed(v[1])
      BY <2>3, <2>4, <2>5, NothingOfKey
    <2> QED
      BY <2>1, <2>2, <2>3, <2>4, <2>6, KeepsRelocated
  <1>4. CASE Recheck(t)
    <2>1. /\ pc[t] = "blocked" /\ lock[found[t]] = None
          /\ UNCHANGED <<inputs, rows, supersedes>>
      BY <1>4 DEF Recheck
    <2>2. /\ strategy # "ignore" /\ ~Behind(t, KeyOf(t))
          /\ found[t] \in rows /\ found[t][2] = KeyOf(t) /\ Committed(found[t][1])
      BY <2>1 DEF IndInv, Findings
    <2>3. CASE Committed(closer[found[t]])
      <3>1. /\ pc' = [pc EXCEPT ![t] = "insert"] /\ found' = [found EXCEPT ![t] = None]
            /\ UNCHANGED <<closer, lock, at>>
        BY <1>4, <2>3 DEF Recheck
      <3> QED
        BY <2>1, <2>2, <3>1, KeepsRelocated
    <2>4. CASE ~Committed(closer[found[t]])
      <3>1. Take(t, found[t])
        BY <1>4, <2>4 DEF Recheck
      <3>2. KeyOf(t) \in Keys /\ found[t] \in Rows
        BY <2>1, <2>2, AtRow DEF IndInv, TypeOK, Working
      <3>3. closer[found[t]] # t
        BY <2>1, <2>2, <3>2, NothingOfKey
      <3> QED
        BY <2>1, <2>2, <2>4, <3>1, <3>3, KeepsTaken
    <2> QED
      BY <2>3, <2>4
  <1>5. CASE Insert(t)
    <2>1. RowOf(t) \in Rows
      BY <1>5, AtRow DEF IndInv, Insert, Working
    <2> QED
      BY <1>5, <2>1, KeepsInserted
  <1>6. CASE InsertIgnored(t)
    <2>1. /\ pc[t] = "insert" /\ strategy = "ignore" /\ lock' = lock /\ Advance(t)
          /\ UNCHANGED <<inputs, rows, closer, supersedes>>
      BY <1>6 DEF InsertIgnored
    <2>2. PICK v \in Rivals(t) : v \notin Undecided(t)
      BY <1>6 DEF InsertIgnored
    <2>3. /\ v \in rows /\ v \in Rows /\ v[2] = KeyOf(t) /\ KeyOf(t) \in Keys
          /\ v[1] = t \/ (Committed(v[1]) /\ closer[v] = None)
      BY <2>1, <2>2, AtRow DEF Rivals, Undecided, IndInv, TypeOK, Working
    <2>4. ~Behind(t, KeyOf(t))
      BY <2>1, <2>3, NoneFacts DEF IndInv, TypeOK, Findings, IgnoredStays
    <2>5. Committed(v[1]) /\ closer[v] = None
      BY <2>3, <2>4, NothingOfKey
    <2>6. v[3] = RowOf(t)[3]
      <3>1. PICK part \in [Keys -> Contents] :
               /\ \A u \in Loads : \A i \in DOMAIN file[u] : file[u][i][2] = part[file[u][i][1]]
               /\ \A r \in rows : r[3] = part[r[2]]
        BY <2>1 DEF IndInv, IgnoredStays, KeyIsContent
      <3>2. at[t] \in DOMAIN file[t] /\ file[t][at[t]] = <<KeyOf(t), RowOf(t)[3]>>
        BY <2>1, AtRow, FileFacts DEF IndInv, Working
      <3>3. file[t][at[t]][1] = KeyOf(t) /\ file[t][at[t]][2] = RowOf(t)[3]
        BY <3>2
      <3> QED
        BY <2>3, <3>1, <3>2, <3>3
    <2> QED
      BY <2>1, <2>3, <2>5, <2>6, KeepsSame DEF Working
  <1>7. CASE InsertRefused(t)
    <2>1. pc[t] = "insert" /\ Rollback(t, "conflict")
      BY <1>7 DEF InsertRefused
    <2> QED
      BY <2>1, KeepsRolledBack DEF Ended
  <1>8. CASE DeadlockAbort(t)
    <2>1. pc[t] \in {"blocked", "insert"} /\ Rollback(t, "deadlock")
      BY <1>8, CycleIsOpen DEF DeadlockAbort
    <2> QED
      BY <2>1, KeepsRolledBack DEF Ended
  <1>9. CASE Fail(t)
    <2>1. pc[t] \notin Ended /\ Rollback(t, "failed")
      BY <1>9 DEF Fail
    <2> QED
      BY <2>1, KeepsRolledBack
  <1> QED
    BY <1>1, <1>2, <1>3, <1>4, <1>5, <1>6, <1>7, <1>8, <1>9 DEF Step

LEMMA IndNext == IndInv /\ [Next]_vars => IndInv'
  <1> SUFFICES ASSUME IndInv, [Next]_vars PROVE IndInv'
    OBVIOUS
  <1>1. CASE UNCHANGED vars
    <2>1. /\ strategy' = strategy /\ file' = file /\ rows' = rows
          /\ closer' = closer /\ lock' = lock /\ supersedes' = supersedes
          /\ pc' = pc /\ at' = at /\ found' = found
      BY <1>1 DEF vars, inputs
    <2>2. TypeOK' /\ Cursor'
      BY <2>1 DEF IndInv, TypeOK, Cursor
    <2>2a. RowsBehind'
      BY <2>1 DEF IndInv, RowsBehind
    <2>2b. Links' /\ OneRoot'
      BY <2>1 DEF IndInv, Links, OneRoot
    <2>2c. IgnoredStays'
      BY <2>1 DEF IndInv, IgnoredStays, KeyIsContent
    <2>3. \A q : Committed(q)' <=> Committed(q)
      BY <2>1 DEF Committed
    <2>5. Unique' /\ SomeCurrent'
      BY <2>1, <2>3 DEF IndInv, Unique, SomeCurrent, Live
    <2>6. Accounted'
      <3>1. ASSUME NEW u \in Loads, NEW k \in Keys, NEW r \in rows, Stands(u, k, r)
            PROVE  Stands(u, k, r)'
        BY <2>1, <2>3, <3>1 DEF Stands, LastBehind
      <3>2. \A u \in Loads : /\ KeyOf(u)' = KeyOf(u)
                             /\ \A k \in Keys : Behind(u, k)' <=> Behind(u, k)
        BY <2>1, SameCursor
      <3> QED
        BY <2>1, <3>1, <3>2 DEF IndInv, Accounted
    <2>7. Closings' /\ Locks'
      BY <2>1, <2>3 DEF IndInv, Closings, Locks
    <2>8. Findings'
      BY <2>1, <2>3 DEF IndInv, Findings, KeyOf, Behind
    <2> QED
      BY <2>2, <2>2a, <2>2b, <2>2c, <2>5, <2>6, <2>7, <2>8 DEF IndInv
  <1>2. CASE Next
    <2>1. PICK t \in Loads : Step(t) \/ Fail(t)
      BY <1>2 DEF Next
    <2>2. CASE Commit(t)
      BY <2>2, KeepsCommitted
    <2>3. CASE ~Commit(t)
      BY <2>1, <2>3, QuietStep
    <2> QED
      BY <2>2, <2>3
  <1> QED
    BY <1>1, <1>2

LEMMA Inductive == Spec => []IndInv
  BY IndInit, IndNext, PTL DEF Spec

-----------------------------------------------------------------------------
(* The theorems.                                                           *)

\* Two current versions of a key are the same one.
LEMMA LiveIsSingle ==
    ASSUME IndInv, NEW k \in Keys, NEW r \in Live(k)
    PROVE  Live(k) = {r} /\ Current(k) = r[3]
  <1>1. \A s \in Live(k) : s = r
    BY DEF IndInv, Unique, Live
  <1>2. Live(k) = {r}
    BY <1>1
  <1> QED
    BY <1>2 DEF Current

\* Every variable of the load keeps its type; in particular a load never works
\* past the end of its file, and found and supersedes hold the id of a version.
THEOREM SupersedeTypeCorrect == Spec => []TypeOK
  <1>1. IndInv => TypeOK
    BY DEF IndInv
  <1> QED
    BY <1>1, Inductive, PTL

\* However many loads replace rows of one key at once, with whichever strategy,
\* a reader sees exactly one current version of every key that was ever
\* committed: superseded_at and the partial unique index never disagree.
THEOREM OneCurrent == Spec => []ExactlyOneCurrent
  <1>1. IndInv => ExactlyOneCurrent
    <2> SUFFICES ASSUME IndInv, NEW k \in Keys
                 PROVE  Cardinality(Live(k)) =
                           IF \E r \in rows : r[2] = k /\ Committed(r[1]) THEN 1 ELSE 0
      BY DEF ExactlyOneCurrent
    <2>1. CASE \E r \in rows : r[2] = k /\ Committed(r[1])
      <3>1. PICK s \in rows : s \in Live(k)
        BY <2>1 DEF IndInv, SomeCurrent
      <3>2. Live(k) = {s}
        BY <3>1, LiveIsSingle
      <3> QED
        BY <2>1, <3>2, FS_Singleton
    <2>2. CASE ~\E r \in rows : r[2] = k /\ Committed(r[1])
      <3>1. Live(k) = {}
        BY <2>2 DEF Live
      <3> QED
        BY <2>2, <3>1, FS_EmptySet
    <2> QED
      BY <2>1, <2>2
  <1> QED
    BY <1>1, Inductive, PTL

\* The supersedes links of the committed versions of a key form one chain: one
\* first version, and each version but the current one has one successor.  That
\* holds of the versions a file replaces within itself too.
THEOREM ChainOfVersions == Spec => []HistoryIsAChain
  <1>1. IndInv => HistoryIsAChain
    <2> SUFFICES ASSUME IndInv, NEW k \in Keys
                 PROVE  LET versions == {r \in rows : r[2] = k /\ Committed(r[1])}
                            successors(r) == {s \in versions : supersedes[s] = r}
                        IN  /\ Cardinality({r \in versions : supersedes[r] = None}) <= 1
                            /\ \A r \in versions :
                                  Cardinality(successors(r)) = IF r \in Live(k) THEN 0 ELSE 1
      BY DEF HistoryIsAChain
    <2> DEFINE versions == {r \in rows : r[2] = k /\ Committed(r[1])}
               successors(r) == {s \in versions : supersedes[s] = r}
               roots == {r \in versions : supersedes[r] = None}
    <2>0. rows \subseteq Rows
      BY DEF IndInv, TypeOK
    <2>1. Cardinality(roots) <= 1
      <3>1. CASE roots = {}
        <4> HIDE DEF roots
        <4> QED
          BY <3>1, FS_EmptySet
      <3>2. CASE roots # {}
        <4>1. PICK r \in roots : TRUE
          BY <3>2
        <4>2. roots = {r}
          BY <4>1 DEF IndInv, OneRoot
        <4>3. Cardinality({r}) = 1
          BY FS_Singleton
        <4> HIDE DEF roots
        <4> QED
          BY <4>2, <4>3
      <3> QED
        BY <3>1, <3>2
    <2>2. ASSUME NEW r \in versions, NEW s \in successors(r)
          PROVE  closer[r] = s[1] /\ Committed(s[1]) /\ \A q \in successors(r) : q = s
      BY <2>0, <2>2 DEF IndInv, Links
    <2>3. ASSUME NEW r \in versions, r \in Live(k)
          PROVE  Cardinality(successors(r)) = 0
      <3>1. ~Committed(closer[r])
        BY <2>3 DEF Live
      <3>2. \A s \in successors(r) : FALSE
        BY <2>2, <3>1
      <3> HIDE DEF successors
      <3>3. successors(r) = {}
        BY <3>2
      <3> QED
        BY <3>3, FS_EmptySet
    <2>4. ASSUME NEW r \in versions, r \notin Live(k)
          PROVE  Cardinality(successors(r)) = 1
      <3>1. r \in Rows /\ r[2] = k /\ Committed(closer[r])
        BY <2>0, <2>4 DEF Live
      <3>2. PICK c \in Loads : closer[r] = c
        BY <3>1, RowTypes DEF IndInv
      <3>3. Committed(c) /\ pc[c] = "committed"
        BY <3>1, <3>2, NoneFacts DEF Committed
      <3>4. PICK s \in rows : s[1] = c /\ supersedes[s] = r
        BY <3>1, <3>2, <3>3 DEF IndInv, Closings
      <3>5. s[2] = k
        BY <3>1, <3>4 DEF IndInv, Links
      <3>6. s \in successors(r)
        BY <3>3, <3>4, <3>5
      <3>7. \A q \in successors(r) : q = s
        BY <2>2, <3>6
      <3> HIDE DEF successors
      <3>8. successors(r) = {s}
        BY <3>6, <3>7
      <3> QED
        BY <3>8, FS_Singleton
    <2> HIDE DEF versions, roots, successors
    <2>5. \A r \in versions : Cardinality(successors(r)) = IF r \in Live(k) THEN 0 ELSE 1
      BY <2>3, <2>4
    <2> QED
      BY <2>1, <2>5 DEF versions, roots, successors
  <1> QED
    BY <1>1, Inductive, PTL

-----------------------------------------------------------------------------
(* The loads implement RowVersions.                                        *)

\* Among finitely many positions one is the last.
LEMMA LastExists ==
    ASSUME NEW n \in Nat, NEW S \in SUBSET (1 .. n), S # {}
    PROVE  \E i \in S : \A j \in S : j <= i
  <1> DEFINE D == {d \in Nat : n - d \in S}
             R == {ss \in Nat \X Nat : ss[1] < ss[2]}
  <1>1. D \subseteq Nat /\ D # {}
    <2>1. PICK i \in S : TRUE
      OBVIOUS
    <2>2. n - i \in Nat /\ n - (n - i) = i
      BY <2>1
    <2> QED
      BY <2>1, <2>2
  <1>2. IsWellFoundedOn(R, Nat)
    BY NatLessThanWellFounded DEF OpToRel
  <1> HIDE DEF R
  <1>3. PICK d \in D : \A e \in D : ~(<<e, d>> \in R)
    BY <1>1, <1>2, WFMin
  <1>4. \A e \in D : ~(e < d)
    BY <1>1, <1>3 DEF R
  <1>5. ASSUME NEW j \in S PROVE j <= n - d
    <2>1. n - j \in Nat /\ n - (n - j) = j /\ j \in Nat
      OBVIOUS
    <2>2. n - j \in D
      BY <2>1
    <2>3. d \in Nat
      OBVIOUS
    <2>4. ~(n - j < d)
      BY <1>4, <2>2
    <2> QED
      BY <2>1, <2>3, <2>4
  <1> QED
    BY <1>5

\* Of every key a file names there is a last row.
LEMMA LastOfFacts ==
    ASSUME TypeOK, NEW t \in Loads, NEW k \in NamedKeys(t)
    PROVE  /\ LastOf(t, k) \in DOMAIN file[t]
           /\ file[t][LastOf(t, k)][1] = k
           /\ \A j \in DOMAIN file[t] : file[t][j][1] = k => j <= LastOf(t, k)
  <1> DEFINE S == {i \in DOMAIN file[t] : file[t][i][1] = k}
  <1>1. DOMAIN file[t] = 1 .. Len(file[t]) /\ Len(file[t]) \in Nat
    BY FileFacts, MaxRowsAssumption
  <1>2. S \in SUBSET (1 .. Len(file[t])) /\ S # {}
    BY <1>1 DEF NamedKeys
  <1> HIDE DEF S
  <1>3. PICK i \in S : \A j \in S : j <= i
    BY <1>1, <1>2, LastExists
  <1>4. /\ i \in DOMAIN file[t] /\ file[t][i][1] = k
        /\ \A j \in DOMAIN file[t] : file[t][j][1] = k => j <= i
    BY <1>3 DEF S
  <1> QED
    BY <1>4 DEF LastOf

\* What the refinement mapping gives the abstract specification at the start.
LEMMA RefinesInit == IndInv /\ Init => Versions!Init
  <1> SUFFICES ASSUME IndInv, Init PROVE Versions!Init
    OBVIOUS
  <1>1. \A k \in Keys : Current(k) \in Contents \union {NoContent}
    <2> SUFFICES ASSUME NEW k \in Keys, Live(k) # {} PROVE Current(k) \in Contents
      BY DEF Current
    <2>1. PICK r \in Live(k) : TRUE
      OBVIOUS
    <2>2. r \in Rows
      BY DEF Live, IndInv, TypeOK
    <2> QED
      BY <2>1, <2>2, LiveIsSingle, RowFacts
  <1>2. {t \in Loads : pc[t] = "committed"} = {}
    BY DEF Init
  <1>3. ASSUME NEW t \in Loads
        PROVE  [k \in NamedKeys(t) |-> file[t][LastOf(t, k)][2]]
                  \in UNION {[ks -> Contents] : ks \in SUBSET Keys}
    <2> DEFINE said(k) == file[t][LastOf(t, k)][2]
    <2>1. NamedKeys(t) \in SUBSET Keys
      BY FileFacts DEF IndInv, NamedKeys
    <2>2. \A k \in NamedKeys(t) : said(k) \in Contents
      BY LastOfFacts, FileFacts DEF IndInv
    <2> HIDE DEF said
    <2>3. [k \in NamedKeys(t) |-> said(k)] \in [NamedKeys(t) -> Contents]
      BY <2>2
    <2>4. [k \in NamedKeys(t) |-> said(k)] \in UNION {[ks -> Contents] : ks \in SUBSET Keys}
      BY <2>1, <2>3
    <2> QED
      BY <2>4 DEF said
  <1> QED
    BY <1>1, <1>2, <1>3 DEF Versions!Init

\* A step that is not a commit is a stutter.
LEMMA QuietIsStutter ==
    ASSUME Unseen
    PROVE  UNCHANGED Versions!vars
  <1>1. ASSUME NEW k \in Keys PROVE Live(k)' = Live(k)
    <2>1. Live(k)' \subseteq Rows /\ Live(k) \subseteq Rows
      BY DEF Live, Unseen
    <2> QED
      BY <2>1 DEF Unseen
  <1>2. strategy' = strategy /\ file' = file
    BY DEF Unseen, inputs
  <1>3. ASSUME NEW k \in Keys PROVE Current(k)' = Current(k)
    <2>1. Live(k)' = Live(k)
      BY <1>1
    <2> QED
      BY <2>1 DEF Current
  <1>4. {t \in Loads : pc[t] = "committed"}' = {t \in Loads : pc[t] = "committed"}
    BY DEF Unseen
  <1>5. [t \in Loads |-> [k \in NamedKeys(t) |-> file[t][LastOf(t, k)][2]]]'
           = [t \in Loads |-> [k \in NamedKeys(t) |-> file[t][LastOf(t, k)][2]]]
    BY <1>2 DEF NamedKeys, LastOf
  <1> QED
    BY <1>3, <1>4, <1>5 DEF Versions!vars

\* A commit is the abstract load: the keys of the file get the content of their
\* last row, the others keep theirs.
LEMMA CommitIsApply ==
    ASSUME IndInv, NEW t \in Loads, Commit(t)
    PROVE  Versions!Apply(t)
  <1>t. t \in Txns /\ ~Committed(t) /\ t # None /\ pc[t] = "commit"
    BY NoneFacts DEF Txns, Committed, Commit
  <1>1. /\ file' = file /\ rows' = rows /\ closer' = closer
        /\ pc' = [pc EXCEPT ![t] = "committed"]
    BY DEF inputs, Commit
  <1>2. \A u \in Loads : pc'[u] = IF u = t THEN "committed" ELSE pc[u]
    BY <1>1 DEF IndInv, TypeOK
  <1>3. \A q : Committed(q)' <=> Committed(q) \/ q = t
    BY <1>2 DEF Committed
  <1>4. /\ 1 .. (at[t] - 1) = DOMAIN file[t] /\ DOMAIN file[t] \subseteq Nat
        /\ rows \subseteq Rows
    <2>1. at[t] = Len(file[t]) + 1 /\ Len(file[t]) \in Nat /\ DOMAIN file[t] = 1 .. Len(file[t])
      BY <1>t, FileFacts, MaxRowsAssumption DEF IndInv, Cursor
    <2> QED
      BY <2>1 DEF IndInv, TypeOK
  <1>5. IndInv'
    BY KeepsCommitted
  <1>6. ASSUME NEW k \in Keys, k \in NamedKeys(t)
        PROVE  Current(k)' = file[t][LastOf(t, k)][2]
    <2>1. Behind(t, k)
      BY <1>4, <1>6 DEF NamedKeys, Behind
    <2>2. PICK r \in rows : Stands(t, k, r)
      BY <1>t, <2>1 DEF IndInv, Accounted, Ended
    <2>3. r[2] = k /\ closer[r] = None /\ Committed(r[1])'
      BY <1>3, <2>2 DEF Stands
    <2>4. ~Committed(closer[r])'
      <3>1. ~Committed(None)'
        BY NoneFacts DEF Committed, Txns
      <3>2. closer'[r] = None
        BY <1>1, <2>3
      <3> QED
        BY <3>1, <3>2
    <2>5. r \in Live(k)'
      BY <1>1, <2>3, <2>4 DEF Live
    <2>6. Current(k)' = r[3]
      <3>1. \A s \in Live(k)' : s = r
        BY <1>5, <2>5 DEF IndInv, Unique, Live
      <3>2. Live(k)' = {r}
        BY <2>5, <3>1
      <3> QED
        BY <3>2 DEF Current
    <2>7. PICK i \in 1 .. (at[t] - 1) :
             file[t][i] = <<k, r[3]>> /\ \A j \in 1 .. (at[t] - 1) : file[t][j][1] = k => j <= i
      BY <2>2 DEF Stands, LastBehind
    <2>8. file[t][i][1] = k /\ file[t][i][2] = r[3]
      BY <2>7
    <2>9. i = LastOf(t, k)
      <3>1. /\ LastOf(t, k) \in DOMAIN file[t] /\ file[t][LastOf(t, k)][1] = k
            /\ \A j \in DOMAIN file[t] : file[t][j][1] = k => j <= LastOf(t, k)
        BY <1>6, LastOfFacts DEF IndInv
      <3>2. i <= LastOf(t, k) /\ LastOf(t, k) <= i
        BY <1>4, <2>7, <2>8, <3>1
      <3> QED
        BY <1>4, <3>1, <3>2
    <2> QED
      BY <2>6, <2>8, <2>9
  <1>7. ASSUME NEW k \in Keys, k \notin NamedKeys(t)
        PROVE  Current(k)' = Current(k)
    <2>1. ~Behind(t, k)
      BY <1>4, <1>7 DEF NamedKeys, Behind
    <2>2. /\ \A r \in rows : r[2] = k => r[1] # t
          /\ \A r \in Rows : r[2] = k => closer[r] # t
      BY <1>t, <2>1, NothingOfKey
    <2>3. Live(k)' = Live(k)
      <3>1. \A r \in rows : r \in Live(k)' <=> r \in Live(k)
        BY <1>1, <1>3, <1>4, <2>2 DEF Live
      <3>2. Live(k)' \subseteq rows /\ Live(k) \subseteq rows
        BY <1>1 DEF Live
      <3> QED
        BY <3>1, <3>2
    <2> QED
      BY <2>3 DEF Current
  <1> DEFINE said(u, k) == file[u][LastOf(u, k)][2]
             says == [u \in Loads |-> [k \in NamedKeys(u) |-> said(u, k)]]
             current == [k \in Keys |-> Current(k)]
             applied == {u \in Loads : pc[u] = "committed"}
  <1>8. t \notin applied /\ applied' = applied \union {t}
    BY <1>2, <1>t
  <1>9. says' = says
    BY <1>1 DEF NamedKeys, LastOf
  <1>10. current' = [k \in Keys |-> IF k \in DOMAIN says[t] THEN says[t][k] ELSE current[k]]
    <2>1. \A k \in Keys : Current(k)' = IF k \in NamedKeys(t) THEN said(t, k) ELSE Current(k)
      BY <1>6, <1>7
    <2> HIDE DEF said
    <2>2. DOMAIN says[t] = NamedKeys(t) /\ \A k \in NamedKeys(t) : says[t][k] = said(t, k)
      OBVIOUS
    <2> HIDE DEF says
    <2> QED
      BY <2>1, <2>2
  <1> QED
    BY <1>8, <1>9, <1>10 DEF Versions!Apply

\* Interleaved, blocked, refused and aborted loads are indistinguishable, for a
\* reader, from loads that replace the content of all their keys in one step in
\* commit order, each key with the last row the file has of it.
THEOREM LoadsAreAtomicReplacements == Spec => ImplementsRowVersions
  <1>1. Init => Versions!Init
    BY IndInit, RefinesInit
  <1>2. IndInv /\ [Next]_vars => [Versions!Next]_(Versions!vars)
    <2> SUFFICES ASSUME IndInv, [Next]_vars
                 PROVE  Versions!Next \/ UNCHANGED Versions!vars
      OBVIOUS
    <2>1. CASE UNCHANGED vars
      <3>1. Unseen
        BY <2>1 DEF vars, inputs, Unseen, Live, Committed, IndInv, TypeOK
      <3> QED
        BY <3>1, QuietIsStutter
    <2>2. CASE Next
      <3>1. PICK t \in Loads : Step(t) \/ Fail(t)
        BY <2>2 DEF Next
      <3>2. CASE Commit(t)
        BY <3>2, CommitIsApply DEF Versions!Next
      <3>3. CASE ~Commit(t)
        BY <3>1, <3>3, QuietStep, QuietIsStutter
      <3> QED
        BY <3>2, <3>3
    <2> QED
      BY <2>1, <2>2
  <1> QED
    BY <1>1, <1>2, Inductive, PTL DEF Spec, Versions!Spec, ImplementsRowVersions

===============================================================================
