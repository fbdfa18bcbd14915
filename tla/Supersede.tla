------------------------------ MODULE Supersede ------------------------------
(***************************************************************************)
(* How Silver replaces row versions, statement by statement, under         *)
(* Postgres READ COMMITTED: the find-close-insert of supersede.py,         *)
(* promote.py and the register loaders, several loads at once.             *)
(*                                                                         *)
(* A load is one transaction over the rows of one file.  A row version is  *)
(* the triple <<load that inserted it, key, content>>; versions that exist *)
(* before any load belong to the pseudo load Seed.  The state holds        *)
(* uncommitted work too: who inserted, closed and locked each version.  A  *)
(* load sees its own: a register file may hold two different rows of one   *)
(* key, and the second then replaces the first within the transaction.     *)
(*                                                                         *)
(* The three write strategies of the code:                                 *)
(*   replace  SELECT .. FOR UPDATE, close, insert (promote, close_current) *)
(*   compare  the same, but a row with an equal hash is left alone         *)
(*            (RegisterLoader NATURAL, SalesRegisterLoader)                *)
(*   ignore   INSERT .. ON CONFLICT DO NOTHING; the content is part of the *)
(*            key (RegisterLoader CONTENT)                                 *)
(***************************************************************************)
EXTENDS Naturals, Sequences, FiniteSets

CONSTANTS Loads, Keys, Contents,
          MaxRows,     \* how many rows a file may have
          NoContent,   \* what a key without a current row holds
          Seed,        \* the load that wrote the versions present at the start
          None         \* no load, no version

ASSUME SeedAssumption == Seed \notin Loads /\ None \notin Loads \union {Seed}
ASSUME NoRowAssumption == None \notin (Loads \union {Seed}) \X Keys \X Contents
ASSUME MaxRowsAssumption == MaxRows \in Nat \ {0}

Txns == Loads \union {Seed}
Rows == Txns \X Keys \X Contents
Ended == {"committed", "conflict", "deadlock", "failed"}

\* The rows of one file, in file order: a key and a content (row hash) each.
\* Only rows with an equal hash are collapsed.
Files == {s \in UNION {[1 .. n -> Keys \X Contents] : n \in 1 .. MaxRows} :
             \A i, j \in DOMAIN s : i # j => s[i] # s[j]}

VARIABLES
    strategy,    \* replace, compare or ignore: one per table
    file,        \* per load: its rows
    rows,        \* row versions inserted and not rolled back
    closer,      \* per version: the load that set superseded_at, or None
    lock,        \* per version: the load holding its row lock, or None
    supersedes,  \* per version: the version it replaced, or None (a column of
                 \* the documents and facts, implied in registers)
    pc,          \* per load: where it is
    at,          \* per load: the index of the file row it works on
    found        \* per load: the version its SELECT .. FOR UPDATE returned

inputs == <<strategy, file>>
vars == <<inputs, rows, closer, lock, supersedes, pc, at, found>>

TypeOK ==
    /\ strategy \in {"replace", "compare", "ignore"}
    /\ file \in [Loads -> Files]
    /\ rows \subseteq Rows
    /\ closer \in [Rows -> Loads \union {None}]
    /\ lock \in [Rows -> Loads \union {None}]
    /\ supersedes \in [Rows -> Rows \union {None}]
    /\ pc \in [Loads -> {"find", "blocked", "insert", "commit"} \union Ended]
    /\ at \in [Loads -> 1 .. MaxRows + 1]
    /\ found \in [Loads -> Rows \union {None}]

\* promote and the sales register group a file's lines by key before they
\* write; a register's CONTENT key determines the row.
Grouped(t) == \A i, j \in DOMAIN file[t] : i # j => file[t][i][1] # file[t][j][1]
KeyIsContent ==
    \E part \in [Keys -> Contents] :
        /\ \A t \in Loads : \A i \in DOMAIN file[t] : file[t][i][2] = part[file[t][i][1]]
        /\ \A r \in rows : r[3] = part[r[2]]

Init ==
    /\ strategy \in {"replace", "compare", "ignore"}
    /\ file \in [Loads -> Files]
    /\ \E seeded \in SUBSET Keys : \E was \in [seeded -> Contents] :
          rows = {<<Seed, k, was[k]>> : k \in seeded}
    /\ strategy = "replace" => \A t \in Loads : Grouped(t)
    /\ strategy = "ignore" => KeyIsContent
    /\ closer = [r \in Rows |-> None]
    /\ lock = [r \in Rows |-> None]
    /\ supersedes = [r \in Rows |-> None]
    /\ pc = [t \in Loads |-> "find"]
    /\ at = [t \in Loads |-> 1]
    /\ found = [t \in Loads |-> None]

-----------------------------------------------------------------------------
Committed(t) == t = Seed \/ (t \in Loads /\ pc[t] = "committed")
KeyOf(t) == file[t][at[t]][1]
RowOf(t) == <<t, KeyOf(t), file[t][at[t]][2]>>

\* The current versions of a key in a snapshot of what is committed, and those
\* that a statement of load t sees: its own writes count, committed or not.
Live(k) ==
    {r \in rows : r[2] = k /\ Committed(r[1]) /\ ~Committed(closer[r])}
Visible(t) ==
    {r \in rows : /\ r[2] = KeyOf(t) /\ (Committed(r[1]) \/ r[1] = t)
                  /\ ~Committed(closer[r]) /\ closer[r] # t}

\* The row is dealt with: on to the next one of the file, or to the commit.
Advance(t) ==
    /\ at' = [at EXCEPT ![t] = @ + 1]
    /\ pc' = [pc EXCEPT ![t] = IF at[t] = Len(file[t]) THEN "commit" ELSE "find"]
    /\ found' = [found EXCEPT ![t] = None]

\* Wrong on purpose: comparing less than the whole document (a changed line
\* goes unnoticed), and keeping the batch of the fetched row instead of its id.
TakeUnchanged(t, r) ==
    /\ lock' = [lock EXCEPT ![r] = t]
    /\ Advance(t)
    /\ UNCHANGED closer
TakeBatch(t, r) ==
    /\ lock' = [lock EXCEPT ![r] = t]
    /\ closer' = [closer EXCEPT ![r] = t]
    /\ pc' = [pc EXCEPT ![t] = "insert"]
    /\ found' = [found EXCEPT ![t] = r[1]]
    /\ UNCHANGED at

\* FOR UPDATE returned version r: lock it, and close it unless the strategy
\* compares and the content is the same.
Take(t, r) ==
    /\ lock' = [lock EXCEPT ![r] = t]
    /\ IF strategy = "compare" /\ r[3] = RowOf(t)[3]
       THEN Advance(t) /\ UNCHANGED closer
       ELSE /\ closer' = [closer EXCEPT ![r] = t]
            /\ pc' = [pc EXCEPT ![t] = "insert"]
            /\ found' = [found EXCEPT ![t] = r]
            /\ UNCHANGED at

\* No current row: insert a first version.
FindNothing(t) ==
    /\ pc[t] = "find"
    /\ strategy = "ignore" \/ Visible(t) = {}
    /\ pc' = [pc EXCEPT ![t] = "insert"]
    /\ UNCHANGED <<inputs, rows, closer, lock, supersedes, at, found>>

\* The current row is free, or locked or inserted by this very load.
FindAndLock(t) ==
    /\ pc[t] = "find"
    /\ strategy # "ignore"
    /\ \E r \in Visible(t) : lock[r] \in {None, t} /\ Take(t, r)
    /\ UNCHANGED <<inputs, rows, supersedes>>

\* The current row is locked by another load: wait for that load to end.
FindLocked(t) ==
    /\ pc[t] = "find"
    /\ strategy # "ignore"
    /\ \E r \in Visible(t) :
          /\ lock[r] \notin {None, t}
          /\ found' = [found EXCEPT ![t] = r]
    /\ pc' = [pc EXCEPT ![t] = "blocked"]
    /\ UNCHANGED <<inputs, rows, closer, lock, supersedes, at>>

\* The lock is free again.  READ COMMITTED re-evaluates superseded_at IS NULL
\* on that row only: if it was closed meanwhile the SELECT returns no row,
\* because the version that replaced it is not in the statement's snapshot.
Recheck(t) ==
    /\ pc[t] = "blocked"
    /\ lock[found[t]] = None
    /\ IF Committed(closer[found[t]])
       THEN /\ pc' = [pc EXCEPT ![t] = "insert"]
            /\ found' = [found EXCEPT ![t] = None]
            /\ UNCHANGED <<closer, lock, at>>
       ELSE Take(t, found[t])
    /\ UNCHANGED <<inputs, rows, supersedes>>

\* Wrong on purpose: an index that does not cover the key (NULLS DISTINCT).
NoRivals(t) == {r \in rows : FALSE}

\* The versions of the key that the partial unique index holds against t,
\* committed or not, and those whose fate another open load decides.
Rivals(t) ==
    {r \in rows : r[2] = KeyOf(t) /\ closer[r] # t /\ ~Committed(closer[r])}
Undecided(t) ==
    {r \in Rivals(t) : r[1] # t /\ (~Committed(r[1]) \/ closer[r] # None)}

\* Wrong on purpose: the new version does not name the one it replaces.
InsertUnlinked(t) ==
    /\ pc[t] = "insert"
    /\ Rivals(t) = {}
    /\ rows' = rows \union {RowOf(t)}
    /\ Advance(t)
    /\ UNCHANGED <<inputs, closer, lock, supersedes>>

Insert(t) ==
    /\ pc[t] = "insert"
    /\ Rivals(t) = {}
    /\ rows' = rows \union {RowOf(t)}
    /\ supersedes' = [supersedes EXCEPT ![RowOf(t)] = found[t]]
    /\ Advance(t)
    /\ UNCHANGED <<inputs, closer, lock>>

\* ON CONFLICT DO NOTHING.
InsertIgnored(t) ==
    /\ pc[t] = "insert"
    /\ strategy = "ignore"
    /\ Rivals(t) # {} /\ Undecided(t) = {}
    /\ Advance(t)
    /\ UNCHANGED <<inputs, rows, closer, lock, supersedes>>

Release(t) ==
    lock' = [r \in Rows |-> IF lock[r] = t THEN None ELSE lock[r]]

\* Wrong on purpose: the connection goes back to the pool without a rollback.
LeaveOpen(t, outcome) ==
    /\ pc' = [pc EXCEPT ![t] = outcome]
    /\ UNCHANGED <<inputs, rows, closer, lock, supersedes, at, found>>

Rollback(t, outcome) ==
    /\ pc' = [pc EXCEPT ![t] = outcome]
    /\ rows' = {r \in rows : r[1] # t}
    /\ closer' = [r \in Rows |-> IF closer[r] = t THEN None ELSE closer[r]]
    /\ supersedes' = [r \in Rows |-> IF r[1] = t THEN None ELSE supersedes[r]]
    /\ Release(t)
    /\ UNCHANGED <<inputs, at, found>>

\* UniqueViolation: the whole load rolls back, the caller answers CONFLICT.
InsertRefused(t) ==
    /\ pc[t] = "insert"
    /\ strategy # "ignore"
    /\ Rivals(t) # {} /\ Undecided(t) = {}
    /\ Rollback(t, "conflict")

Commit(t) ==
    /\ pc[t] = "commit"
    /\ pc' = [pc EXCEPT ![t] = "committed"]
    /\ Release(t)
    /\ UNCHANGED <<inputs, rows, closer, supersedes, at, found>>

\* The loads a waiting load waits for.
WaitsFor(t) ==
    Loads \intersect
        CASE pc[t] = "blocked" -> {lock[found[t]]}
          [] pc[t] = "insert"  -> UNION {{r[1], closer[r]} : r \in Undecided(t)}
          [] OTHER -> {}

InCycle(t) ==
    \E n \in 1 .. Cardinality(Loads) : \E c \in [1 .. n -> Loads] :
        c[1] = t /\ \A i \in 1 .. n : c[(i % n) + 1] \in WaitsFor(c[i])

\* Postgres detects the cycle and aborts one load in it.
DeadlockAbort(t) ==
    /\ InCycle(t)
    /\ Rollback(t, "deadlock")

\* A row violates another constraint, or the process or its connection dies.
Fail(t) ==
    /\ pc[t] \notin Ended
    /\ Rollback(t, "failed")

-----------------------------------------------------------------------------
Step(t) ==
    \/ FindNothing(t) \/ FindAndLock(t) \/ FindLocked(t) \/ Recheck(t)
    \/ Insert(t) \/ InsertIgnored(t) \/ InsertRefused(t)
    \/ Commit(t) \/ DeadlockAbort(t)

Next == \E t \in Loads : Step(t) \/ Fail(t)

Spec == Init /\ [][Next]_vars

\* The database runs every statement that is not waiting, and its deadlock
\* detector runs.
FairSpec == Spec /\ \A t \in Loads : WF_vars(Step(t))

-----------------------------------------------------------------------------
(* Properties.                                                             *)

\* Readers never see two current versions of a key, and a key that has a
\* committed version always has a current one: closing and replacing a row
\* become visible together.
ExactlyOneCurrent ==
    \A k \in Keys :
        Cardinality(Live(k)) =
            IF \E r \in rows : r[2] = k /\ Committed(r[1]) THEN 1 ELSE 0

\* The committed versions of a key form one chain: one first version, and
\* every version but the current one is superseded by exactly one other.
HistoryIsAChain ==
    \A k \in Keys :
        LET versions == {r \in rows : r[2] = k /\ Committed(r[1])}
            successors(r) == {s \in versions : supersedes[s] = r}
        IN  /\ Cardinality({r \in versions : supersedes[r] = None}) <= 1
            /\ \A r \in versions :
                  Cardinality(successors(r)) = IF r \in Live(k) THEN 0 ELSE 1

Current(k) ==
    IF Live(k) = {} THEN NoContent ELSE (CHOOSE r \in Live(k) : TRUE)[3]

\* What a file says of its keys: of several rows of one key, the last.
NamedKeys(t) == {file[t][i][1] : i \in DOMAIN file[t]}
LastOf(t, k) ==
    CHOOSE i \in DOMAIN file[t] :
        /\ file[t][i][1] = k
        /\ \A j \in DOMAIN file[t] : file[t][j][1] = k => j <= i

\* The loads behave as if each replaced the content of all its keys in one
\* step, in commit order, with the last row its file has of each: the row
\* locks and the unique index make the interleaving invisible, and the
\* versions a file replaces within itself are never current for a reader.
Versions == INSTANCE RowVersions WITH
    current <- [k \in Keys |-> Current(k)],
    applied <- {t \in Loads : pc[t] = "committed"},
    says <- [t \in Loads |-> [k \in NamedKeys(t) |-> file[t][LastOf(t, k)][2]]]
ImplementsRowVersions == Versions!Spec

\* Every load ends: no load waits for ever for a lock or for the index.
EveryLoadEnds == \A t \in Loads : <>(pc[t] \in Ended)

\* The 409 answer: a unique violation "means the document is already
\* recorded": what the refused load carried is some committed version.
ConflictMeansRecorded ==
    \A t \in Loads : pc[t] = "conflict" =>
        \A i \in DOMAIN file[t] : \E r \in rows :
            Committed(r[1]) /\ <<r[2], r[3]>> = file[t][i]
=============================================================================
