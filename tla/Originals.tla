------------------------------ MODULE Originals ------------------------------
(***************************************************************************)
(* Sealed originals: put_original and get_original of originals_store.py,  *)
(* the key table and the process-wide cache of unwrapped keys of           *)
(* document_keys.py, and the sweep of sealed_orphans.py.  The key row is   *)
(* in the caller's transaction, the object is not: it can be written and   *)
(* the row rolled back, or the process can end in between.                 *)
(*                                                                         *)
(* The bytes of an object are what its key says (content addressing), so   *)
(* only what they are sealed under is modelled.  Deleting a document is    *)
(* one step here; its interleavings are in Lifecycle.  No row of           *)
(* document_keys is ever removed.                                          *)
(***************************************************************************)
EXTENDS Integers

CONSTANTS Worker, Process,
          ProcessOf,     \* the process a worker is a thread of
          Obj, NoObj,    \* object keys
          MaxKeys,       \* how many data keys are minted
          MaxDocs        \* how many documents are registered

ASSUME OriginalsAssumption ==
  /\ ProcessOf \in [Worker -> Process]
  /\ NoObj \notin Obj
  /\ MaxKeys \in Nat /\ MaxDocs \in Nat \ {0}

DataKey == 1 .. MaxKeys
Doc     == 1 .. MaxDocs
NoKey   == 0
NoDoc   == 0

\* What is stored under an object key besides an object sealed under a data key.
Missing == 0
Plain   == -1

NoRow == [key |-> NoKey, doc |-> NoDoc, sealed |-> FALSE]
Rows  == [key : DataKey \cup {NoKey}, doc : Doc \cup {NoDoc}, sealed : BOOLEAN]

VARIABLES
  keys,     \* committed rows of document_keys
  owner,    \* the committed live document of an object key
  objects,  \* the object store
  young,    \* objects written less than an hour ago
  cache,    \* unwrapped keys, per process
  tx,       \* what each worker is doing, with its uncommitted writes
  orphans,  \* what a sweep found and has not removed yet
  minted, registered,
  harm      \* history: what went wrong when the object of an object key was written

vars == <<keys, owner, objects, young, cache, tx, orphans, minted, registered, harm>>

Harm == {"failed read",  \* written where a live document's object could not be read
         "lost key",     \* sealed under another key than that of the row it goes with
         "swept"}        \* written while a sweep still held what was there for an orphan

Idle == [pc |-> "idle", obj |-> NoObj, doc |-> NoDoc, new |-> FALSE,
         seen |-> NoRow, row |-> NoRow, key |-> NoKey, result |-> "none",
         blind |-> FALSE]  \* whether the live document's object could not be read

IsSealed(o) == objects[o] \in DataKey

Init ==
  /\ keys = [o \in Obj |-> NoRow]
  \* a document from before the encryption has a plain object
  /\ owner \in [Obj -> {NoDoc, 1}]
  /\ objects = [o \in Obj |-> IF owner[o] = NoDoc THEN Missing ELSE Plain]
  /\ young = {}
  /\ cache = [p \in Process |-> [o \in Obj |-> NoKey]]
  /\ tx = [w \in Worker |-> Idle]
  /\ orphans = {}
  /\ minted = 0
  /\ registered = 1
  /\ harm = [o \in Obj |-> {}]

-----------------------------------------------------------------------------
At(w, pc) == tx[w].pc = pc
Goes(w, t) == tx' = [tx EXCEPT ![w] = t]
RowFree(w, o) == \A v \in Worker \ {w} : ~(tx[v].obj = o /\ tx[v].row # NoRow)

\* register_live: the live document, or a new one; who inserts second waits
\* for the first on the unique index.
Deliver(w, o) ==
  /\ At(w, "idle")
  /\ IF owner[o] # NoDoc
     THEN /\ Goes(w, [Idle EXCEPT !.pc = "row", !.obj = o, !.doc = owner[o]])
          /\ UNCHANGED registered
     ELSE /\ \A v \in Worker : ~(tx[v].obj = o /\ tx[v].new)
          /\ registered < MaxDocs
          /\ registered' = registered + 1
          /\ Goes(w, [Idle EXCEPT !.pc = "row", !.obj = o, !.doc = registered + 1, !.new = TRUE])
  /\ UNCHANGED <<keys, owner, objects, young, cache, orphans, minted, harm>>

ReadRow(w) ==
  /\ At(w, "row")
  /\ Goes(w, [tx[w] EXCEPT !.pc = "inspect", !.seen = keys[tx[w].obj]])
  /\ UNCHANGED <<keys, owner, objects, young, cache, orphans, minted, registered, harm>>

\* The five rules, on the row read before and the object as it is now.
Inspect(w) ==
  LET t == tx[w]  o == t.obj  row == t.seen
      Ends(result, new) ==
        Goes(w, [t EXCEPT !.pc = IF new = NoRow THEN "dossier" ELSE "flush",
                          !.row = new, !.result = result])
  IN
  /\ At(w, "inspect")
  /\ \/ /\ row # NoRow /\ IsSealed(o) /\ objects[o] = row.key                  \* rule 1
        /\ RowFree(w, o) \/ row.doc = t.doc
        /\ Ends("unchanged", IF row.doc = t.doc THEN NoRow ELSE [row EXCEPT !.doc = t.doc])
     \/ /\ row # NoRow /\ objects[o] # row.key /\ objects[o] # Plain           \* rule 2
        /\ Goes(w, [t EXCEPT !.pc = "unwrap"])
     \/ /\ row = NoRow /\ objects[o] # Plain                                   \* rule 3
        /\ Goes(w, [t EXCEPT !.pc = "mint"])
     \/ /\ objects[o] = Plain /\ ~row.sealed                                   \* rule 4
        /\ Ends("legacy", NoRow)
     \/ /\ objects[o] = Plain /\ row.sealed                                    \* rule 5
        /\ Goes(w, Idle)
  /\ UNCHANGED <<keys, owner, objects, young, cache, orphans, minted, registered, harm>>

\* The object cannot be read: it is taken for missing, whatever it is.
ReadFails(w) ==
  LET t == tx[w] IN
  /\ At(w, "inspect")
  /\ objects[t.obj] # Missing
  /\ Goes(w, [t EXCEPT !.pc = IF t.seen = NoRow THEN "mint" ELSE "unwrap", !.blind = ~t.new])
  /\ UNCHANGED <<keys, owner, objects, young, cache, orphans, minted, registered, harm>>

Cache(p, o, k) == cache' = [cache EXCEPT ![p][o] = k]

\* What DocumentKeys.unwrap returns in a process for a row.
Unwrapped(p, o, row) == IF cache[p][o] # NoKey THEN cache[p][o] ELSE row.key

Unwrap(w) ==
  LET t == tx[w]  k == Unwrapped(ProcessOf[w], t.obj, t.seen) IN
  /\ At(w, "unwrap")
  /\ Cache(ProcessOf[w], t.obj, k)
  /\ Goes(w, [t EXCEPT !.pc = "seal", !.key = k])
  /\ UNCHANGED <<keys, owner, objects, young, orphans, minted, registered, harm>>

\* mint: a row of its own in a savepoint, or the row of the one that won; the
\* insert waits for another transaction's row.
Mint(w) ==
  LET t == tx[w]  o == t.obj IN
  /\ At(w, "mint")
  /\ minted < MaxKeys
  /\ RowFree(w, o)
  /\ minted' = minted + 1
  /\ IF keys[o] = NoRow
     THEN /\ Cache(ProcessOf[w], o, minted + 1)
          /\ Goes(w, [t EXCEPT !.pc = "seal", !.key = minted + 1,
                               !.row = [key |-> minted + 1, doc |-> t.doc, sealed |-> FALSE]])
     ELSE /\ Cache(ProcessOf[w], o, keys[o].key)
          /\ Goes(w, [t EXCEPT !.pc = "seal", !.key = keys[o].key, !.seen = keys[o]])
  /\ UNCHANGED <<keys, owner, objects, young, orphans, registered, harm>>

RowOf(t) == IF t.row = NoRow THEN t.seen ELSE t.row

Harms(t) == {h \in Harm : \/ h = "failed read" /\ t.blind
                          \/ h = "lost key" /\ t.key # RowOf(t).key
                          \/ h = "swept" /\ t.obj \in orphans}

\* The object first, then the row.
SealAndWrite(w) ==
  LET t == tx[w] IN
  /\ At(w, "seal")
  /\ objects' = [objects EXCEPT ![t.obj] = t.key]
  /\ young' = young \cup {t.obj}
  /\ Goes(w, [t EXCEPT !.pc = "flush", !.result = "wrote",
                       !.row = [RowOf(t) EXCEPT !.sealed = TRUE]])
  /\ harm' = [harm EXCEPT ![t.obj] = IF t.new THEN Harms(t) ELSE @ \cup Harms(t)]
  /\ UNCHANGED <<keys, owner, cache, orphans, minted, registered>>

Flush(w) ==
  /\ At(w, "flush")
  /\ RowFree(w, tx[w].obj)
  /\ Goes(w, [tx[w] EXCEPT !.pc = "dossier"])
  /\ UNCHANGED <<keys, owner, objects, young, cache, orphans, minted, registered, harm>>

\* The rest of ingest, and the commit of its caller.
Commit(w) ==
  LET t == tx[w] IN
  /\ At(w, "dossier")
  /\ keys'  = IF t.row = NoRow THEN keys ELSE [keys EXCEPT ![t.obj] = t.row]
  /\ owner' = IF t.new THEN [owner EXCEPT ![t.obj] = t.doc] ELSE owner
  /\ Goes(w, Idle)
  /\ UNCHANGED <<objects, young, cache, orphans, minted, registered, harm>>

\* Mutant: the result is read as "not unchanged".
DossierFailsTruthy(w) ==
  LET t == tx[w] IN
  /\ At(w, "dossier")
  /\ objects' = IF t.result # "unchanged" THEN [objects EXCEPT ![t.obj] = Missing] ELSE objects
  /\ young' = IF t.result # "unchanged" THEN young \ {t.obj} ELSE young
  /\ Goes(w, Idle)
  /\ UNCHANGED <<keys, owner, cache, orphans, minted, registered, harm>>

\* Adding the document to its dossier fails: ingest takes back what it wrote.
DossierFails(w) ==
  LET t == tx[w] IN
  /\ At(w, "dossier")
  /\ objects' = IF t.result = "wrote" THEN [objects EXCEPT ![t.obj] = Missing] ELSE objects
  /\ young' = IF t.result = "wrote" THEN young \ {t.obj} ELSE young
  /\ Goes(w, Idle)
  /\ UNCHANGED <<keys, owner, cache, orphans, minted, registered, harm>>

\* The key service, the store or the database fails; the transaction is rolled
\* back and the process goes on.
Rollback(w) ==
  /\ ~At(w, "idle")
  /\ Goes(w, Idle)
  /\ UNCHANGED <<keys, owner, objects, young, cache, orphans, minted, registered, harm>>

Crash(p) ==
  /\ cache' = [cache EXCEPT ![p] = [o \in Obj |-> NoKey]]
  /\ tx' = [w \in Worker |-> IF ProcessOf[w] = p THEN Idle ELSE tx[w]]
  /\ UNCHANGED <<keys, owner, objects, young, orphans, minted, registered, harm>>

\* An entry leaves the cache: its time is over, or it was the least recently used.
Expire(p, o) ==
  /\ cache[p][o] # NoKey
  /\ Cache(p, o, NoKey)
  /\ UNCHANGED <<keys, owner, objects, young, tx, orphans, minted, registered, harm>>

\* What get_original answers in a process.
GetOriginal(p, o) ==
  LET k == Unwrapped(p, o, keys[o]) IN
  CASE objects[o] = Missing -> "missing"
    [] objects[o] = Plain   -> IF keys[o].sealed THEN "refused" ELSE "bytes"
    [] OTHER -> IF k = NoKey THEN "no key" ELSE IF k = objects[o] THEN "bytes" ELSE "refused"

\* A read: it leaves the key in the cache.
Read(p, o) ==
  /\ IsSealed(o)
  /\ Unwrapped(p, o, keys[o]) # NoKey
  /\ Cache(p, o, Unwrapped(p, o, keys[o]))
  /\ UNCHANGED <<keys, owner, objects, young, tx, orphans, minted, registered, harm>>

\* delete_document, seen from the store: the object goes, the row stays.
Delete(o) ==
  /\ owner[o] # NoDoc
  /\ \A w \in Worker : tx[w].obj # o
  /\ objects' = [objects EXCEPT ![o] = Missing]
  /\ young' = young \ {o}
  /\ owner' = [owner EXCEPT ![o] = NoDoc]
  /\ UNCHANGED <<keys, cache, tx, orphans, minted, registered, harm>>

-----------------------------------------------------------------------------
\* Mutant: an object in flight counts as old at once.
AgeAtOnce(o) ==
  /\ o \in young
  /\ young' = young \ {o}
  /\ UNCHANGED <<keys, owner, objects, cache, tx, orphans, minted, registered, harm>>

\* An hour passes: no transaction is that long.
Age(o) ==
  /\ o \in young
  /\ \A w \in Worker : tx[w].obj # o
  /\ young' = young \ {o}
  /\ UNCHANGED <<keys, owner, objects, cache, tx, orphans, minted, registered, harm>>

\* find_orphans and, later, the removal of what it found.
FindOrphans ==
  /\ orphans = {}
  /\ orphans' = {o \in Obj \ young : IsSealed(o) /\ objects[o] # keys[o].key}
  /\ UNCHANGED <<keys, owner, objects, young, cache, tx, minted, registered, harm>>

RemoveOrphan(o) ==
  /\ o \in orphans
  /\ orphans' = orphans \ {o}
  /\ objects' = [objects EXCEPT ![o] = Missing]
  /\ young' = young \ {o}
  /\ UNCHANGED <<keys, owner, cache, tx, minted, registered, harm>>

-----------------------------------------------------------------------------
PutOriginal(w) ==
  \/ ReadRow(w) \/ Inspect(w) \/ ReadFails(w) \/ Unwrap(w) \/ Mint(w) \/ SealAndWrite(w) \/ Flush(w)

Next ==
  \/ \E w \in Worker : \/ \E o \in Obj : Deliver(w, o)
                       \/ PutOriginal(w) \/ Commit(w) \/ DossierFails(w) \/ Rollback(w)
  \/ \E p \in Process : Crash(p) \/ \E o \in Obj : Expire(p, o) \/ Read(p, o)
  \/ \E o \in Obj : Delete(o) \/ Age(o) \/ RemoveOrphan(o)
  \/ FindOrphans

Spec == Init /\ [][Next]_vars

-----------------------------------------------------------------------------
\* Types; an uncommitted row belongs to the transaction that is at work on it.
TypeOK ==
  /\ keys \in [Obj -> Rows]
  /\ owner \in [Obj -> Doc \cup {NoDoc}]
  /\ objects \in [Obj -> DataKey \cup {Missing, Plain}]
  /\ young \subseteq Obj /\ orphans \subseteq Obj
  /\ cache \in [Process -> [Obj -> DataKey \cup {NoKey}]]
  /\ \A w \in Worker : tx[w].row \in Rows /\ (tx[w].pc = "idle" => tx[w] = Idle)
  /\ minted \in 0 .. MaxKeys /\ registered \in 1 .. MaxDocs

\* The process keeps another key for an object than its row has: the key of a
\* row that was rolled back.
LostKey(p, o) == cache[p][o] \notin {NoKey, keys[o].key}

\* A live document's object can be read, whatever failed before: an upload that was
\* rolled back, ended by a crash or taken back, a deletion, a delivery of the same
\* bytes at the same moment, a sweep.  The exceptions are the documents whose object
\* was written after one of the three events of "harm", and a process that holds a
\* lost key.
OwnedObjectsOpen ==
  \A o \in Obj : (owner[o] # NoDoc /\ harm[o] = {}) =>
    \A p \in Process : LostKey(p, o) \/ GetOriginal(p, o) = "bytes"

\* A plain object, the only readable copy of its document, goes only when that
\* document is deleted or when it could not be read: put_original leaves it
\* otherwise, and no failure takes it back.
PlainGoesOnlyByDeletion ==
  [][\A o \in Obj : (objects[o] = Plain /\ owner[o] # NoDoc /\ owner'[o] = owner[o])
                      => objects'[o] = Plain \/ "failed read" \in harm'[o]]_vars

\* What is stored of a live document is plain, or sealed under the key of its row,
\* as the comment of rule 2 has it, when no read failed and no sweep overlapped.
SealedUnderItsRow ==
  \A o \in Obj : (owner[o] # NoDoc /\ harm[o] \subseteq {"lost key"})
                    => objects[o] \in {Plain, keys[o].key}
=============================================================================
