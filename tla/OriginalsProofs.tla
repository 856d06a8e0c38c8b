--------------------------- MODULE OriginalsProofs ---------------------------
(***************************************************************************)
(* Sealed originals, for any number of workers, processes, objects, keys   *)
(* and documents.  A plain object goes only with its document or after a   *)
(* read of it failed; and what is stored of a live document can be read    *)
(* when none of the three events of "harm" came before its writing.        *)
(*                                                                         *)
(* The argument: who delivers a new document is alone at its object, and   *)
(* only such a delivery writes, or one whose read failed.                  *)
(***************************************************************************)
EXTENDS Originals, TLAPS

Place == {"idle", "row", "inspect", "unwrap", "mint", "seal", "flush", "dossier"}
Written == {"flush", "dossier"}

Transaction == [pc : Place, obj : Obj \cup {NoObj}, doc : Doc \cup {NoDoc}, new : BOOLEAN,
                seen : Rows, row : Rows, key : DataKey \cup {NoKey},
                result : {"none", "unchanged", "legacy", "wrote"}, blind : BOOLEAN]

Typed ==
  /\ keys \in [Obj -> Rows]
  /\ owner \in [Obj -> Doc \cup {NoDoc}]
  /\ objects \in [Obj -> DataKey \cup {Missing, Plain}]
  /\ young \subseteq Obj /\ orphans \subseteq Obj
  /\ cache \in [Process -> [Obj -> DataKey \cup {NoKey}]]
  /\ tx \in [Worker -> Transaction]
  /\ \A w \in Worker : /\ tx[w].pc = "idle" => tx[w] = Idle
                       /\ tx[w].pc # "idle" => tx[w].obj \in Obj /\ tx[w].doc \in Doc
  /\ minted \in 0 .. MaxKeys /\ registered \in 1 .. MaxDocs
  /\ harm \in [Obj -> SUBSET Harm]

\* Who is about to write does so where nothing plain is, or could not read it; who
\* has written left nothing plain; what a sweep found is sealed; and without a
\* live document nothing is plain.
Spared ==
  /\ \A w \in Worker : /\ tx[w].pc \in {"unwrap", "mint", "seal"} => objects[tx[w].obj] # Plain \/ tx[w].blind
                       /\ tx[w].result = "wrote" => objects[tx[w].obj] # Plain
                       /\ tx[w].new => objects[tx[w].obj] # Plain
  /\ \A o \in orphans : objects[o] # Plain
  /\ \A o \in Obj : owner[o] = NoDoc => objects[o] # Plain

PlainInv == Typed /\ Spared

-----------------------------------------------------------------------------
(* Objects that nothing went wrong with. *)

\* Who delivers a new document is alone at its object, which no live document has.
Alone ==
  /\ \A v, w \in Worker : tx[w].new /\ tx[v].obj = tx[w].obj => v = w
  /\ \A w \in Worker : tx[w].pc # "idle" => (tx[w].new <=> owner[tx[w].obj] = NoDoc)

\* What a live document has, is plain, or sealed under the key of its row.
Stored ==
  \A o \in Obj : owner[o] # NoDoc /\ harm[o] = {} =>
    \/ objects[o] = Plain /\ ~keys[o].sealed
    \/ keys[o].key \in DataKey /\ objects[o] = keys[o].key

\* A row has a key.
Keyed == \A o \in Obj : keys[o] # NoRow => keys[o].key \in DataKey

\* What a transaction has to hand where it is.
Placed(t) ==
  /\ t.pc \notin Written => t.result = "none"
  /\ t.pc \notin Written \cup {"seal"} => t.row = NoRow
  /\ t.seen = NoRow \/ t.seen.key \in DataKey
  /\ t.row = NoRow \/ t.row.key \in DataKey
  /\ t.pc = "unwrap" => t.seen # NoRow
  /\ t.pc = "mint" => t.seen = NoRow
  /\ t.pc = "seal" => RowOf(t) # NoRow

\* What a transaction read is so still; its row keeps the key there is.
Current(t) ==
  /\ t.pc \notin {"idle", "row"} => t.seen.key = keys[t.obj].key /\ t.seen.sealed = keys[t.obj].sealed
  /\ t.row # NoRow /\ keys[t.obj] # NoRow => t.row.key = keys[t.obj].key

\* Who is about to write a live document could not read it; what is written goes
\* with its row.
Settled(t) ==
  /\ t.pc \in {"unwrap", "mint", "seal"} => t.new \/ t.blind
  /\ t.pc \in Written =>
       \/ /\ t.result = "wrote" /\ t.row # NoRow /\ t.new
          /\ objects[t.obj] = t.row.key /\ t.obj \in young
       \/ /\ t.result = "unchanged" /\ keys[t.obj] # NoRow /\ objects[t.obj] = keys[t.obj].key
          /\ t.row # NoRow => t.row.sealed = keys[t.obj].sealed
       \/ t.result = "legacy" /\ objects[t.obj] = Plain /\ ~keys[t.obj].sealed /\ t.row = NoRow

Fit(w) ==
  /\ Placed(tx[w])
  /\ tx[w].new \/ harm[tx[w].obj] = {} => Current(tx[w])
  /\ harm[tx[w].obj] = {} => Settled(tx[w])

\* What a sweep is about to remove is nobody's.
Swept ==
  \A o \in orphans : harm[o] = {} =>
    /\ IsSealed(o) /\ objects[o] # keys[o].key
    /\ \A w \in Worker : tx[w].obj = o => tx[w].pc \notin Written

OpenInv == /\ PlainInv
           /\ Alone /\ Stored /\ Keyed
           /\ \A w \in Worker : Fit(w)
           /\ Swept

-----------------------------------------------------------------------------
LEMMA Bounds == /\ NoKey \notin DataKey /\ Missing \notin DataKey /\ Plain \notin DataKey
                /\ Plain # Missing /\ NoDoc \notin Doc /\ DataKey \subseteq Int /\ Doc \subseteq Int
                /\ 1 \in Doc /\ NoObj \notin Obj
BY OriginalsAssumption DEF DataKey, Doc, NoKey, NoDoc, Missing, Plain

LEMMA IdleTyped == NoRow \in Rows /\ Idle \in Transaction
BY DEF NoRow, Rows, Idle, Transaction, Place

\* One worker's step leaves the others where they are.
LEMMA Moves ==
  ASSUME Typed, NEW w \in Worker, NEW t \in Transaction, Goes(w, t)
  PROVE  /\ tx' \in [Worker -> Transaction] /\ tx'[w] = t
         /\ \A v \in Worker \ {w} : tx'[v] = tx[v]
BY DEF Typed, Goes

\* A worker's step keeps the types when what it goes to is typed.
LEMMA StepTyped ==
  ASSUME Typed, NEW w \in Worker, NEW t \in Transaction, Goes(w, t),
         t.pc = "idle" => t = Idle, t.pc # "idle" => t.obj \in Obj /\ t.doc \in Doc,
         keys' \in [Obj -> Rows], owner' \in [Obj -> Doc \cup {NoDoc}],
         objects' \in [Obj -> DataKey \cup {Missing, Plain}], young' \subseteq Obj, orphans' \subseteq Obj,
         cache' \in [Process -> [Obj -> DataKey \cup {NoKey}]],
         minted' \in 0 .. MaxKeys, registered' \in 1 .. MaxDocs, harm' \in [Obj -> SUBSET Harm]
  PROVE  Typed'
BY Moves DEF Typed

LEMMA InitTyped == Init => PlainInv
BY Bounds, IdleTyped, OriginalsAssumption DEF Init, PlainInv, Typed, Spared, Idle, Doc, Missing, Plain, NoDoc

-----------------------------------------------------------------------------
(* Types. *)

LEMMA DeliverTyped == ASSUME Typed, NEW w \in Worker, NEW o \in Obj, Deliver(w, o) PROVE Typed'
<1>1. CASE owner[o] # NoDoc
  <2> DEFINE t == [Idle EXCEPT !.pc = "row", !.obj = o, !.doc = owner[o]]
  <2>1. t \in Transaction BY <1>1, IdleTyped DEF Transaction, Place, Idle, Typed
  <2>2. Goes(w, t) BY <1>1 DEF Deliver
  <2>3. t.obj \in Obj /\ t.doc \in Doc /\ t.pc = "row" BY <1>1 DEF Idle, Typed
  <2> HIDE DEF t
  <2> QED BY <1>1, <2>1, <2>2, <2>3, StepTyped DEF Typed, Deliver
<1>2. CASE owner[o] = NoDoc
  <2> DEFINE t == [Idle EXCEPT !.pc = "row", !.obj = o, !.doc = registered + 1, !.new = TRUE]
  <2>0. registered + 1 \in Doc /\ registered + 1 \in 1 .. MaxDocs
    BY <1>2, OriginalsAssumption DEF Deliver, Typed, Doc
  <2>1. t \in Transaction BY <2>0, IdleTyped DEF Transaction, Place, Idle
  <2>2. Goes(w, t) /\ registered' = registered + 1 BY <1>2 DEF Deliver
  <2>3. t.obj \in Obj /\ t.doc \in Doc /\ t.pc = "row" BY <2>0 DEF Idle
  <2> HIDE DEF t
  <2> QED BY <1>2, <2>0, <2>1, <2>2, <2>3, StepTyped DEF Typed, Deliver
<1> QED BY <1>1, <1>2

LEMMA ReadRowTyped == ASSUME Typed, NEW w \in Worker, ReadRow(w) PROVE Typed'
<1> DEFINE t == [tx[w] EXCEPT !.pc = "inspect", !.seen = keys[tx[w].obj]]
<1>1. tx[w] \in Transaction /\ tx[w].obj \in Obj /\ tx[w].doc \in Doc BY DEF ReadRow, At, Typed
<1>2. t \in Transaction /\ t.obj \in Obj /\ t.doc \in Doc /\ t.pc = "inspect"
  BY <1>1 DEF Transaction, Place, Typed
<1>3. Goes(w, t) BY DEF ReadRow
<1> HIDE DEF t
<1> QED BY <1>2, <1>3, StepTyped DEF Typed, ReadRow

\* What Inspect ends with under rules 1 and 4, and where it goes otherwise.
Ended(w, row, result) == [tx[w] EXCEPT !.pc = IF row = NoRow THEN "dossier" ELSE "flush",
                                       !.row = row, !.result = result]
Gone(w, pc) == [tx[w] EXCEPT !.pc = pc]
Moved(w) == [tx[w].seen EXCEPT !.doc = tx[w].doc]

LEMMA InspectMoves ==
  ASSUME NEW w \in Worker, Inspect(w)
  PROVE  LET o == tx[w].obj  row == tx[w].seen IN
         \/ /\ row # NoRow /\ IsSealed(o) /\ objects[o] = row.key
            /\ \/ Goes(w, Ended(w, NoRow, "unchanged"))
               \/ RowFree(w, o) /\ Goes(w, Ended(w, Moved(w), "unchanged"))
         \/ row # NoRow /\ objects[o] # row.key /\ objects[o] # Plain /\ Goes(w, Gone(w, "unwrap"))
         \/ row = NoRow /\ objects[o] # Plain /\ Goes(w, Gone(w, "mint"))
         \/ objects[o] = Plain /\ ~row.sealed /\ Goes(w, Ended(w, NoRow, "legacy"))
         \/ Goes(w, Idle)
<1> DEFINE o == tx[w].obj  row == tx[w].seen  new == IF row.doc = tx[w].doc THEN NoRow ELSE Moved(w)
<1>1. \/ row # NoRow /\ IsSealed(o) /\ objects[o] = row.key /\ (RowFree(w, o) \/ row.doc = tx[w].doc)
         /\ Goes(w, Ended(w, new, "unchanged"))
      \/ row # NoRow /\ objects[o] # row.key /\ objects[o] # Plain /\ Goes(w, Gone(w, "unwrap"))
      \/ row = NoRow /\ objects[o] # Plain /\ Goes(w, Gone(w, "mint"))
      \/ objects[o] = Plain /\ ~row.sealed /\ Goes(w, Ended(w, NoRow, "legacy"))
      \/ Goes(w, Idle)
  BY Zenon DEF Inspect, Ended, Moved, Gone
<1>2. row.doc = tx[w].doc => new = NoRow OBVIOUS
<1>3. row.doc # tx[w].doc => new = Moved(w) OBVIOUS
<1> HIDE DEF new
<1> QED BY <1>1, <1>2, <1>3

\* The fields of what it goes to.
LEMMA EndedFields ==
  ASSUME Typed, NEW w \in Worker, NEW row \in Rows, NEW result \in {"unchanged", "legacy"}
  PROVE  LET t == Ended(w, row, result) IN
         /\ t \in Transaction /\ t.pc = IF row = NoRow THEN "dossier" ELSE "flush"
         /\ t.obj = tx[w].obj /\ t.doc = tx[w].doc /\ t.new = tx[w].new /\ t.seen = tx[w].seen
         /\ t.row = row /\ t.key = tx[w].key /\ t.result = result /\ t.blind = tx[w].blind
<1>1. tx[w] \in Transaction BY DEF Typed
<1> QED BY <1>1 DEF Ended, Transaction, Place

LEMMA GoesFields ==
  ASSUME Typed, NEW w \in Worker, NEW pc \in Place
  PROVE  LET t == Gone(w, pc) IN
         /\ t \in Transaction /\ t.pc = pc
         /\ t.obj = tx[w].obj /\ t.doc = tx[w].doc /\ t.new = tx[w].new /\ t.seen = tx[w].seen
         /\ t.row = tx[w].row /\ t.key = tx[w].key /\ t.result = tx[w].result /\ t.blind = tx[w].blind
<1>1. tx[w] \in Transaction BY DEF Typed
<1> QED BY <1>1 DEF Transaction, Gone

\* Where a failed read leads.
Blinded(w) == [tx[w] EXCEPT !.pc = IF tx[w].seen = NoRow THEN "mint" ELSE "unwrap", !.blind = ~tx[w].new]

LEMMA BlindedFields ==
  ASSUME Typed, NEW w \in Worker
  PROVE  LET t == Blinded(w) IN
         /\ t \in Transaction /\ t.pc = IF tx[w].seen = NoRow THEN "mint" ELSE "unwrap"
         /\ t.obj = tx[w].obj /\ t.doc = tx[w].doc /\ t.new = tx[w].new /\ t.seen = tx[w].seen
         /\ t.row = tx[w].row /\ t.key = tx[w].key /\ t.result = tx[w].result /\ t.blind = ~tx[w].new
<1>1. tx[w] \in Transaction BY DEF Typed
<1> QED BY <1>1 DEF Blinded, Transaction, Place

LEMMA MovedTyped == ASSUME Typed, NEW w \in Worker PROVE NoRow \in Rows /\ (tx[w].doc \in Doc => Moved(w) \in Rows)
<1>1. tx[w].seen \in Rows BY DEF Typed, Transaction
<1> QED BY <1>1, IdleTyped DEF Moved, Rows

LEMMA InspectTyped == ASSUME Typed, NEW w \in Worker, Inspect(w) PROVE Typed'
<1>1. tx[w].obj \in Obj /\ tx[w].doc \in Doc BY DEF Inspect, At, Typed
<1> DEFINE Fits(t) == /\ Goes(w, t) /\ t \in Transaction /\ (t.pc = "idle" => t = Idle)
                      /\ (t.pc # "idle" => t.obj \in Obj /\ t.doc \in Doc)
<1>2. \A row \in Rows, result \in {"unchanged", "legacy"} : Goes(w, Ended(w, row, result)) => Fits(Ended(w, row, result))
  BY <1>1, EndedFields
<1>3. \A pc \in {"unwrap", "mint"} : Goes(w, Gone(w, pc)) => Fits(Gone(w, pc))
  BY <1>1, GoesFields DEF Place
<1>4. Goes(w, Idle) => Fits(Idle) BY IdleTyped DEF Idle
<1>5. \E t : Fits(t)
  <2> HIDE DEF Fits
  <2> QED BY <1>1, <1>2, <1>3, <1>4, InspectMoves, MovedTyped
<1> QED BY <1>5, StepTyped DEF Typed, Inspect

LEMMA ReadFailsTyped == ASSUME Typed, NEW w \in Worker, ReadFails(w) PROVE Typed' /\ Goes(w, Blinded(w))
<1>1. tx[w] \in Transaction /\ tx[w].obj \in Obj /\ tx[w].doc \in Doc BY DEF ReadFails, At, Typed
<1>2. Goes(w, Blinded(w)) BY DEF ReadFails, Blinded
<1> QED BY <1>1, <1>2, BlindedFields, StepTyped DEF Typed, ReadFails

LEMMA UnwrapTyped == ASSUME Typed, NEW w \in Worker, Unwrap(w) PROVE Typed'
<1> DEFINE k == Unwrapped(ProcessOf[w], tx[w].obj, tx[w].seen)
           t == [tx[w] EXCEPT !.pc = "seal", !.key = k]
<1>1. tx[w] \in Transaction /\ tx[w].obj \in Obj /\ tx[w].doc \in Doc /\ ProcessOf[w] \in Process
  BY OriginalsAssumption DEF Unwrap, At, Typed
<1>2. k \in DataKey \cup {NoKey} BY <1>1 DEF Unwrapped, Typed, Transaction, Rows
<1>3. t \in Transaction /\ t.obj \in Obj /\ t.doc \in Doc /\ t.pc = "seal"
  BY <1>1, <1>2 DEF Transaction, Place
<1>4. Goes(w, t) /\ Cache(ProcessOf[w], tx[w].obj, k) BY DEF Unwrap
<1>5. cache' \in [Process -> [Obj -> DataKey \cup {NoKey}]] BY <1>1, <1>2, <1>4 DEF Cache, Typed
<1> HIDE DEF t, k
<1> QED BY <1>3, <1>4, <1>5, StepTyped DEF Typed, Unwrap

LEMMA MintTyped == ASSUME Typed, NEW w \in Worker, Mint(w) PROVE Typed'
<1>1. tx[w] \in Transaction /\ tx[w].obj \in Obj /\ tx[w].doc \in Doc /\ ProcessOf[w] \in Process
  BY OriginalsAssumption DEF Mint, At, Typed
<1>2. minted + 1 \in DataKey /\ minted' \in 0 .. MaxKeys
  BY OriginalsAssumption DEF Mint, Typed, DataKey
<1>3. CASE keys[tx[w].obj] = NoRow
  <2> DEFINE t == [tx[w] EXCEPT !.pc = "seal", !.key = minted + 1,
                     !.row = [key |-> minted + 1, doc |-> tx[w].doc, sealed |-> FALSE]]
  <2>1. t \in Transaction /\ t.obj \in Obj /\ t.doc \in Doc /\ t.pc = "seal"
    BY <1>1, <1>2 DEF Transaction, Place, Rows
  <2>2. Goes(w, t) /\ Cache(ProcessOf[w], tx[w].obj, minted + 1) BY <1>3 DEF Mint
  <2>3. cache' \in [Process -> [Obj -> DataKey \cup {NoKey}]] BY <1>1, <1>2, <2>2 DEF Cache, Typed
  <2> HIDE DEF t
  <2> QED BY <1>2, <2>1, <2>2, <2>3, StepTyped DEF Typed, Mint
<1>4. CASE keys[tx[w].obj] # NoRow
  <2> DEFINE k == keys[tx[w].obj].key
             t == [tx[w] EXCEPT !.pc = "seal", !.key = k, !.seen = keys[tx[w].obj]]
  <2>1. t \in Transaction /\ t.obj \in Obj /\ t.doc \in Doc /\ t.pc = "seal" /\ k \in DataKey \cup {NoKey}
    BY <1>1 DEF Transaction, Place, Rows, Typed
  <2>2. Goes(w, t) /\ Cache(ProcessOf[w], tx[w].obj, k) BY <1>4 DEF Mint
  <2>3. cache' \in [Process -> [Obj -> DataKey \cup {NoKey}]] BY <1>1, <2>1, <2>2 DEF Cache, Typed
  <2> HIDE DEF t, k
  <2> QED BY <1>2, <2>1, <2>2, <2>3, StepTyped DEF Typed, Mint
<1> QED BY <1>3, <1>4

LEMMA SealTyped == ASSUME Typed, NEW w \in Worker, SealAndWrite(w) PROVE Typed'
<1> DEFINE r == [RowOf(tx[w]) EXCEPT !.sealed = TRUE]
           t == [tx[w] EXCEPT !.pc = "flush", !.result = "wrote", !.row = r]
<1>1. tx[w] \in Transaction /\ tx[w].obj \in Obj /\ tx[w].doc \in Doc /\ tx[w].key \in DataKey \cup {NoKey}
  BY DEF SealAndWrite, At, Typed, Transaction
<1>2. r \in Rows BY <1>1 DEF Transaction, Rows, RowOf
<1>3. t \in Transaction /\ t.obj \in Obj /\ t.doc \in Doc /\ t.pc = "flush"
  BY <1>1, <1>2 DEF Transaction, Place
<1>4. Goes(w, t) BY DEF SealAndWrite
<1>5. objects' \in [Obj -> DataKey \cup {Missing, Plain}] /\ young' \subseteq Obj
  BY <1>1, Bounds DEF SealAndWrite, Typed, NoKey, Missing
<1>6. harm' \in [Obj -> SUBSET Harm]
  <2>1. Harms(tx[w]) \subseteq Harm BY DEF Harms
  <2> HIDE DEF t, r
  <2> QED BY <1>1, <2>1 DEF SealAndWrite, Typed
<1> HIDE DEF t, r
<1> QED BY <1>3, <1>4, <1>5, <1>6, StepTyped DEF Typed, SealAndWrite

LEMMA FlushTyped == ASSUME Typed, NEW w \in Worker, Flush(w) PROVE Typed'
<1> DEFINE t == [tx[w] EXCEPT !.pc = "dossier"]
<1>1. tx[w] \in Transaction /\ tx[w].obj \in Obj /\ tx[w].doc \in Doc BY DEF Flush, At, Typed
<1>2. t \in Transaction /\ t.obj \in Obj /\ t.doc \in Doc /\ t.pc = "dossier" BY <1>1 DEF Transaction, Place
<1>3. Goes(w, t) BY DEF Flush
<1> HIDE DEF t
<1> QED BY <1>2, <1>3, StepTyped DEF Typed, Flush

\* The steps that end a transaction.
LEMMA EndTyped ==
  ASSUME Typed, NEW w \in Worker, Commit(w) \/ DossierFails(w) \/ Rollback(w)
  PROVE  Typed' /\ Goes(w, Idle) /\ tx[w].obj \in Obj /\ tx[w].pc # "idle"
<1>1. tx[w] \in Transaction /\ tx[w].obj \in Obj /\ tx[w].doc \in Doc /\ tx[w].pc # "idle"
  BY DEF Commit, DossierFails, Rollback, At, Typed
<1>2. Goes(w, Idle) /\ Idle.pc = "idle" BY DEF Commit, DossierFails, Rollback, Idle
<1>3. /\ keys' \in [Obj -> Rows] /\ owner' \in [Obj -> Doc \cup {NoDoc}]
      /\ objects' \in [Obj -> DataKey \cup {Missing, Plain}] /\ young' \subseteq Obj
  BY <1>1 DEF Commit, DossierFails, Rollback, Typed, Transaction
<1> QED BY <1>1, <1>2, <1>3, IdleTyped, StepTyped DEF Commit, DossierFails, Rollback, Typed

\* The steps of nobody's transaction.
LEMMA OtherTyped ==
  ASSUME Typed, \/ \E p \in Process : Crash(p) \/ \E o \in Obj : Expire(p, o) \/ Read(p, o)
                \/ \E o \in Obj : Delete(o) \/ Age(o) \/ RemoveOrphan(o)
                \/ FindOrphans
  PROVE  Typed'
<1>1. ASSUME NEW p \in Process, Crash(p) PROVE Typed'
  <2>1. cache' \in [Process -> [Obj -> DataKey \cup {NoKey}]] BY <1>1 DEF Crash, Typed
  <2>2. /\ tx' \in [Worker -> Transaction]
        /\ \A w \in Worker : tx'[w] = Idle \/ tx'[w] = tx[w]
    BY <1>1, IdleTyped DEF Crash, Typed
  <2> QED BY <1>1, <2>1, <2>2 DEF Crash, Typed, Idle
<1>2. ASSUME NEW p \in Process, NEW o \in Obj, Expire(p, o) PROVE Typed'
  BY <1>2 DEF Expire, Cache, Typed
<1>3. ASSUME NEW p \in Process, NEW o \in Obj, Read(p, o) PROVE Typed'
  <2>1. Unwrapped(p, o, keys[o]) \in DataKey \cup {NoKey} BY DEF Unwrapped, Typed, Rows
  <2> QED BY <1>3, <2>1 DEF Read, Cache, Typed
<1>4. ASSUME NEW o \in Obj, Delete(o) \/ Age(o) \/ RemoveOrphan(o) PROVE Typed'
  BY <1>4 DEF Delete, Age, RemoveOrphan, Typed
<1>5. CASE FindOrphans BY <1>5 DEF FindOrphans, Typed
<1> QED BY <1>1, <1>2, <1>3, <1>4, <1>5

LEMMA TypedStep == ASSUME Typed, [Next]_vars PROVE Typed'
<1>1. CASE UNCHANGED vars BY <1>1 DEF vars, Typed
<1>2. ASSUME NEW w \in Worker, NEW o \in Obj, Deliver(w, o) PROVE Typed' BY <1>2, DeliverTyped
<1>3. ASSUME NEW w \in Worker, PutOriginal(w) PROVE Typed'
  BY <1>3, ReadRowTyped, InspectTyped, ReadFailsTyped, UnwrapTyped, MintTyped, SealTyped, FlushTyped DEF PutOriginal
<1>4. ASSUME NEW w \in Worker, Commit(w) \/ DossierFails(w) \/ Rollback(w) PROVE Typed' BY <1>4, EndTyped
<1> QED BY <1>1, <1>2, <1>3, <1>4, OtherTyped DEF Next

-----------------------------------------------------------------------------
(* Plain objects. *)

\* A worker's step spares what is plain when it goes on to write nowhere plain.
LEMMA StepSpared ==
  ASSUME PlainInv, NEW w \in Worker, NEW t \in Transaction, Goes(w, t),
         \A o \in Obj : objects'[o] = Plain => objects[o] = Plain /\ (owner'[o] = NoDoc => owner[o] = NoDoc),
         orphans' = orphans, t.new => t.obj \in Obj /\ objects'[t.obj] # Plain,
         t.pc \in {"unwrap", "mint", "seal"} \/ t.result = "wrote" => t.obj \in Obj,
         t.pc \in {"unwrap", "mint", "seal"} => objects'[t.obj] # Plain \/ t.blind,
         t.result = "wrote" => objects'[t.obj] # Plain
  PROVE  Spared'
<1>1. tx'[w] = t /\ \A v \in Worker \ {w} : tx'[v] = tx[v] BY Moves DEF PlainInv
<1>2. \A v \in Worker : tx[v].pc \in {"unwrap", "mint", "seal"} \/ tx[v].result = "wrote" \/ tx[v].new => tx[v].obj \in Obj
  BY DEF PlainInv, Typed, Idle
<1> QED BY <1>1, <1>2 DEF PlainInv, Spared, Typed

LEMMA PutSpared == ASSUME PlainInv, NEW w \in Worker, PutOriginal(w) PROVE Spared'
<1> DEFINE o == tx[w].obj
<1>1. tx[w] \in Transaction /\ o \in Obj /\ Typed BY DEF PutOriginal, ReadRow, Inspect, ReadFails, Unwrap, Mint, SealAndWrite, Flush, At, PlainInv, Typed
<1>2. Typed' /\ tx'[w] \in Transaction /\ Goes(w, tx'[w]) /\ tx'[w].obj \in Obj \cup {NoObj}
  <2>1. Typed' BY TypedStep, <1>1 DEF Next
  <2>2. \E t : Goes(w, t) BY DEF PutOriginal, ReadRow, Inspect, ReadFails, Unwrap, Mint, SealAndWrite, Flush
  <2> QED BY <2>1, <2>2 DEF Typed, Goes, Transaction
<1> DEFINE u == tx'[w]
<1>3. /\ tx[w].pc \in {"unwrap", "mint", "seal"} => objects[o] # Plain \/ tx[w].blind
      /\ tx[w].result = "wrote" => objects[o] # Plain
      /\ tx[w].new => objects[o] # Plain
      /\ owner' = owner
  BY DEF PutOriginal, ReadRow, Inspect, ReadFails, Unwrap, Mint, SealAndWrite, Flush, PlainInv, Spared
<1>4. CASE ReadRow(w)
  <2>1. u = [tx[w] EXCEPT !.pc = "inspect", !.seen = keys[o]] BY <1>1, <1>4 DEF ReadRow, Goes, Typed
  <2>2. u.pc = "inspect" /\ u.obj = o /\ u.result = tx[w].result /\ u.new = tx[w].new BY <1>1, <2>1 DEF Transaction
  <2> QED BY <1>1, <1>3, <1>4, <2>2, <1>2, StepSpared DEF ReadRow
<1>5. CASE Inspect(w)
  <2>1. \/ u.result \in {"unchanged", "legacy"} /\ u.pc \in {"dossier", "flush"} /\ u.obj = o /\ u.new = tx[w].new
        \/ u.pc \in {"unwrap", "mint"} /\ u.obj = o /\ u.new = tx[w].new /\ u.result = tx[w].result /\ objects[o] # Plain
        \/ u = Idle
    <3> DEFINE Fits(t) == \/ /\ t.result \in {"unchanged", "legacy"} /\ t.pc \in {"dossier", "flush"}
                             /\ t.obj = o /\ t.new = tx[w].new
                          \/ /\ t.pc \in {"unwrap", "mint"} /\ t.obj = o /\ t.new = tx[w].new
                             /\ t.result = tx[w].result /\ objects[o] # Plain
                          \/ t = Idle
    <3>1. \A row \in Rows, result \in {"unchanged", "legacy"} : Fits(Ended(w, row, result)) BY <1>1, EndedFields
    <3>2. \A pc \in {"unwrap", "mint"} : objects[o] # Plain => Fits(Gone(w, pc))
      BY <1>1, GoesFields DEF Place
    <3>3. Fits(Idle) BY DEF Idle
    <3>4. tx[w].doc \in Doc BY <1>1, <1>5 DEF Inspect, At, Typed
    <3>5. \E t : Goes(w, t) /\ Fits(t)
      <4> HIDE DEF Fits
      <4> QED BY <1>1, <1>5, <3>1, <3>2, <3>3, <3>4, InspectMoves, MovedTyped
    <3> QED BY <1>1, <3>5 DEF Goes, Typed
  <2> QED BY <1>1, <1>2, <1>3, <1>5, <2>1, StepSpared DEF Inspect, Idle
<1>6. CASE Unwrap(w)
  <2>1. u.obj = o /\ u.blind = tx[w].blind /\ u.result = tx[w].result /\ u.new = tx[w].new
    BY <1>1, <1>6 DEF Unwrap, Goes, Typed, Transaction
  <2> QED BY <1>1, <1>2, <1>3, <1>6, <2>1, StepSpared DEF Unwrap, At
<1>10. CASE ReadFails(w)
  <2>1. u = Blinded(w) BY <1>1, <1>10, ReadFailsTyped DEF Goes, Typed
  <2>2. /\ u.pc \in {"mint", "unwrap"} /\ u.obj = o /\ u.result = tx[w].result /\ u.blind = ~tx[w].new
        /\ u.new = tx[w].new /\ objects' = objects /\ orphans' = orphans
    BY <1>1, <1>10, <2>1, BlindedFields DEF ReadFails
  <2>3. tx[w].new => objects[o] # Plain BY <1>1, <1>10 DEF ReadFails, At, PlainInv, Spared
  <2> QED BY <1>1, <1>2, <1>3, <2>2, <2>3, StepSpared
<1>7. CASE Mint(w)
  <2>1. u.obj = o /\ u.blind = tx[w].blind /\ u.result = tx[w].result /\ u.new = tx[w].new
    <3>1. \E key, row, seen :
            Goes(w, [tx[w] EXCEPT !.pc = "seal", !.key = key, !.row = row])
              \/ Goes(w, [tx[w] EXCEPT !.pc = "seal", !.key = key, !.seen = seen])
      BY <1>7 DEF Mint
    <3>2. PICK key, row, seen :
            u = [tx[w] EXCEPT !.pc = "seal", !.key = key, !.row = row]
              \/ u = [tx[w] EXCEPT !.pc = "seal", !.key = key, !.seen = seen]
      <4>1. \A t : Goes(w, t) => u = t BY <1>1 DEF Goes, Typed
      <4> QED BY <3>1, <4>1
    <3> QED BY <1>1, <3>2 DEF Transaction
  <2> QED BY <1>1, <1>2, <1>3, <1>7, <2>1, StepSpared DEF Mint, At
<1>8. CASE SealAndWrite(w)
  <2>1. u.obj = o /\ u.new = tx[w].new /\ u.pc = "flush" BY <1>1, <1>8 DEF SealAndWrite, Goes, Typed, Transaction
  <2>2. tx[w].key # Plain BY <1>1, Bounds DEF Transaction, NoKey, Plain
  <2>3. objects' = [objects EXCEPT ![o] = tx[w].key] /\ orphans' = orphans BY <1>8 DEF SealAndWrite
  <2>4. objects'[o] # Plain /\ \A x \in Obj : objects'[x] = Plain => objects[x] = Plain
    BY <1>1, <2>2, <2>3 DEF Typed
  <2> QED BY <1>1, <1>2, <1>3, <2>1, <2>3, <2>4, StepSpared
<1>9. CASE Flush(w)
  <2>1. u.obj = o /\ u.pc = "dossier" /\ u.result = tx[w].result /\ u.new = tx[w].new
    BY <1>1, <1>9 DEF Flush, Goes, Typed, Transaction
  <2> QED BY <1>1, <1>2, <1>3, <1>9, <2>1, StepSpared DEF Flush
<1> QED BY <1>4, <1>5, <1>6, <1>7, <1>8, <1>9, <1>10 DEF PutOriginal

\* A plain object of a live document goes only with the document.
PlainStays ==
  \A o \in Obj : (objects[o] = Plain /\ owner[o] # NoDoc /\ owner'[o] = owner[o])
                  => objects'[o] = Plain \/ "failed read" \in harm'[o]

LEMMA PlainStep == ASSUME PlainInv, [Next]_vars PROVE PlainInv' /\ PlainStays
<1>1. Typed /\ Typed' BY TypedStep DEF PlainInv
<1>2. CASE UNCHANGED vars BY <1>1, <1>2 DEF vars, PlainInv, Spared, PlainStays
<1>3. ASSUME NEW w \in Worker, NEW o \in Obj, Deliver(w, o) PROVE Spared' /\ PlainStays
  <2>1. tx'[w] \in Transaction BY <1>1 DEF Typed
  <2>2. \E t : Goes(w, t) /\ t.pc = "row" /\ t.result = "none" /\ t.obj = o /\ (t.new => owner[o] = NoDoc)
    <3> DEFINE old == [Idle EXCEPT !.pc = "row", !.obj = o, !.doc = owner[o]]
               new == [Idle EXCEPT !.pc = "row", !.obj = o, !.doc = registered + 1, !.new = TRUE]
    <3>1. Goes(w, old) \/ (Goes(w, new) /\ owner[o] = NoDoc) BY <1>3 DEF Deliver
    <3>2. /\ old.pc = "row" /\ old.result = "none" /\ old.obj = o /\ ~old.new
          /\ new.pc = "row" /\ new.result = "none" /\ new.obj = o
      BY DEF Idle
    <3> HIDE DEF old, new
    <3> QED BY <3>1, <3>2
  <2>3. /\ Goes(w, tx'[w]) /\ tx'[w].pc = "row" /\ tx'[w].result = "none"
        /\ tx'[w].obj = o /\ (tx'[w].new => owner[o] = NoDoc)
    BY <1>1, <2>2 DEF Goes, Typed
  <2>4. UNCHANGED <<objects, owner, orphans>> BY <1>3 DEF Deliver
  <2>5. tx'[w].new => objects[o] # Plain BY <2>3 DEF PlainInv, Spared
  <2> QED BY <2>1, <2>3, <2>4, <2>5, StepSpared DEF PlainStays
<1>4. ASSUME NEW w \in Worker, PutOriginal(w) PROVE Spared' /\ PlainStays
  <2>1. objects' = objects \/ SealAndWrite(w)
    BY <1>4 DEF PutOriginal, ReadRow, Inspect, ReadFails, Unwrap, Mint, Flush
  <2>2. ASSUME SealAndWrite(w) PROVE PlainStays
    <3>1. tx[w].pc = "seal" /\ tx[w] \in Transaction /\ tx[w].obj \in Obj
      BY <1>1, <2>2 DEF SealAndWrite, At, Typed
    <3>2. CASE tx[w].blind
      <4>1. "failed read" \in Harms(tx[w]) BY <3>2 DEF Harms, Harm
      <4>2. harm' = [harm EXCEPT ![tx[w].obj] = IF tx[w].new THEN Harms(tx[w]) ELSE @ \cup Harms(tx[w])]
            /\ objects' = [objects EXCEPT ![tx[w].obj] = tx[w].key]
        BY <2>2 DEF SealAndWrite
      <4>3. "failed read" \in harm'[tx[w].obj] BY <1>1, <3>1, <4>1, <4>2 DEF Typed
      <4> QED BY <1>1, <3>1, <4>2, <4>3 DEF PlainStays, Typed
    <3>3. CASE ~tx[w].blind
      BY <1>1, <2>2, <3>1, <3>3 DEF SealAndWrite, PlainInv, Spared, Typed, PlainStays
    <3> QED BY <3>2, <3>3
  <2> QED BY <1>4, <2>1, <2>2, PutSpared DEF PlainStays
<1>5. ASSUME NEW w \in Worker, Commit(w) \/ DossierFails(w) \/ Rollback(w) PROVE Spared' /\ PlainStays
  <2>1. Goes(w, Idle) /\ tx[w].obj \in Obj BY <1>1, <1>5, EndTyped
  <2>0. tx[w].doc # NoDoc BY <1>1, <1>5, EndTyped, Bounds DEF Typed
  <2>2. /\ \A x \in Obj : objects'[x] = Plain => objects[x] = Plain /\ (owner'[x] = NoDoc => owner[x] = NoDoc)
        /\ orphans' = orphans
    BY <1>1, <1>5, <2>0, Bounds DEF Commit, DossierFails, Rollback, Typed
  <2>3. Spared' BY <2>1, <2>2, IdleTyped, StepSpared DEF Idle
  <2>4. PlainStays BY <1>1, <1>5 DEF Commit, DossierFails, Rollback, PlainInv, Spared, Typed, PlainStays
  <2> QED BY <2>3, <2>4
<1>6. ASSUME NEW p \in Process, Crash(p) PROVE Spared' /\ PlainStays
  <2>1. \A w \in Worker : tx'[w] = Idle \/ tx'[w] = tx[w] BY <1>1, <1>6 DEF Crash, Typed
  <2> QED BY <1>6, <2>1 DEF Crash, PlainInv, Spared, PlainStays, Idle
<1>7. ASSUME NEW p \in Process, NEW o \in Obj, Expire(p, o) \/ Read(p, o) PROVE Spared' /\ PlainStays
  BY <1>7 DEF Expire, Read, PlainInv, Spared, PlainStays
<1>8. ASSUME NEW o \in Obj, Delete(o) PROVE Spared' /\ PlainStays
  <2>1. \A w \in Worker : tx[w].pc \in {"unwrap", "mint", "seal"} \/ tx[w].result = "wrote" \/ tx[w].new => tx[w].obj \in Obj
    BY <1>1 DEF Typed, Idle
  <2>2. /\ objects' = [objects EXCEPT ![o] = Missing] /\ owner' = [owner EXCEPT ![o] = NoDoc] /\ tx' = tx
        /\ orphans' = orphans /\ owner[o] # NoDoc
    BY <1>8 DEF Delete
  <2>3. \A x \in Obj : objects'[x] = IF x = o THEN Missing ELSE objects[x] BY <1>1, <2>2 DEF Typed
  <2>4. Spared' BY <1>1, <2>1, <2>2, <2>3, Bounds DEF PlainInv, Spared, Typed
  <2>5. PlainStays BY <1>1, <2>2, <2>3 DEF Typed, PlainStays
  <2> QED BY <2>4, <2>5
<1>9. ASSUME NEW o \in Obj, Age(o) \/ RemoveOrphan(o) PROVE Spared' /\ PlainStays
  <2>1. CASE Age(o) BY <2>1 DEF Age, PlainInv, Spared, PlainStays
  <2>2. CASE RemoveOrphan(o)
    <3>1. /\ orphans' \subseteq orphans /\ objects' = [objects EXCEPT ![o] = Missing] /\ tx' = tx
          /\ objects[o] # Plain
      BY <2>2 DEF RemoveOrphan, PlainInv, Spared
    <3>2. \A x \in Obj : objects'[x] = Plain <=> objects[x] = Plain BY <1>1, <3>1, Bounds DEF Typed
    <3>3. \A w \in Worker : tx[w].pc \in {"unwrap", "mint", "seal"} \/ tx[w].result = "wrote" \/ tx[w].new => tx[w].obj \in Obj
      BY <1>1 DEF Typed, Idle
    <3>4. owner' = owner BY <2>2 DEF RemoveOrphan
    <3> QED BY <1>1, <3>1, <3>2, <3>3, <3>4 DEF PlainInv, Spared, PlainStays, Typed
  <2> QED BY <1>9, <2>1, <2>2
<1>10. CASE FindOrphans BY <1>1, <1>10, Bounds DEF FindOrphans, PlainInv, Spared, PlainStays, IsSealed
<1> QED BY <1>1, <1>2, <1>3, <1>4, <1>5, <1>6, <1>7, <1>8, <1>9, <1>10 DEF Next, PlainInv

\* The inductive invariant of put_original beside failures, crashes, deletions
\* and sweeps, in any number of processes, sweeps that overlap with writes too.
THEOREM PlainInvariant == Spec => []PlainInv
BY InitTyped, PlainStep, PTL DEF Spec

\* No rule of put_original, no failure and no sweep takes a plain original from a
\* document that lives, unless a read of it failed (originals_store.py:89-92): it
\* goes with delete_document.
THEOREM PlainOnlyByDeletion == Spec => PlainGoesOnlyByDeletion
<1>1. PlainInv /\ [Next]_vars => [PlainStays]_vars BY PlainStep
<1> QED BY <1>1, PlainInvariant, PTL DEF Spec, PlainGoesOnlyByDeletion, PlainStays

-----------------------------------------------------------------------------
(* Objects that nothing went wrong with. *)

LEMMA InitOpen == Init => OpenInv
<1>1. NoRow.key = NoKey /\ NoRow.sealed = FALSE BY DEF NoRow
<1>2. Init => Alone /\ Stored /\ Keyed /\ Swept
  BY <1>1, Bounds DEF Init, Alone, Stored, Keyed, Swept, Idle
<1>3. Init => \A w \in Worker : Fit(w)
  <2>1. Idle.pc = "idle" /\ Idle.row = NoRow /\ Idle.seen = NoRow /\ Idle.result = "none" BY DEF Idle
  <2>2. Init => \A w \in Worker : tx[w] = Idle BY DEF Init
  <2> QED BY <2>1, <2>2 DEF Fit, Current, Placed, Settled, Written
<1> QED BY <1>2, <1>3, InitTyped DEF OpenInv

\* Who is at no object fits, and so does who stays where nothing changes.
LEMMA IdleFits == ASSUME NEW v \in Worker, tx'[v] = Idle PROVE Fit(v)'
BY DEF Fit, Current, Placed, Settled, Idle, Written

LEMMA FitSame ==
  ASSUME OpenInv, NEW v \in Worker, tx'[v] = tx[v],
         tx[v].pc # "idle" => LET o == tx[v].obj IN
            /\ keys'[o] = keys[o]
            /\ harm'[o] = {} => harm[o] = {}
            /\ tx[v].pc \in Written /\ harm'[o] = {} => objects'[o] = objects[o] /\ (o \in young => o \in young')
  PROVE  Fit(v)'
<1>1. CASE tx[v].pc = "idle" BY <1>1, IdleFits DEF OpenInv, PlainInv, Typed
<1>2. CASE tx[v].pc # "idle"
  <2>1. Fit(v) BY DEF OpenInv
  <2>2. Placed(tx[v])' BY <2>1 DEF Fit, Placed, RowOf
  <2>3. (tx[v].new \/ harm[tx[v].obj] = {})' => Current(tx[v])' BY <1>2, <2>1 DEF Fit, Current
  <2>4. (harm[tx[v].obj] = {})' => Settled(tx[v])' BY <1>2, <2>1 DEF Fit, Settled
  <2> QED BY <2>2, <2>3, <2>4 DEF Fit
<1> QED BY <1>1, <1>2

\* Where owners stay and nobody comes to an object, who was alone is alone.
LEMMA AloneKept ==
  ASSUME OpenInv, Typed', owner' = owner,
         \A v \in Worker : \/ tx'[v].pc = "idle"
                           \/ tx[v].pc # "idle" /\ tx'[v].obj = tx[v].obj /\ tx'[v].new = tx[v].new
  PROVE  Alone'
<1>1. \A v \in Worker : tx'[v].pc = "idle" => tx'[v].obj = NoObj /\ ~tx'[v].new BY DEF Typed, Idle
<1>2. \A v \in Worker : tx'[v].new => tx[v].obj \in Obj /\ tx'[v].obj = tx[v].obj /\ tx[v].new
  BY <1>1 DEF OpenInv, PlainInv, Typed
<1>3. \A v, w \in Worker : tx'[w].new /\ tx'[v].obj = tx'[w].obj => v = w
  BY <1>1, <1>2, Bounds DEF OpenInv, Alone
<1>4. \A w \in Worker : tx'[w].pc # "idle" => (tx'[w].new <=> owner'[tx'[w].obj] = NoDoc)
  BY DEF OpenInv, Alone
<1> QED BY <1>3, <1>4 DEF Alone

\* No other worker is at the object of one that delivers a new document.
LEMMA Others ==
  ASSUME OpenInv, NEW w \in Worker, tx[w].new, NEW v \in Worker, v # w
  PROVE  tx[v].obj # tx[w].obj /\ owner[tx[w].obj] = NoDoc /\ tx[w].obj \in Obj /\ tx[w].pc # "idle"
BY DEF OpenInv, PlainInv, Typed, Idle, Alone

\* What holds of a worker that is at work.
LEMMA AtWork ==
  ASSUME OpenInv, NEW w \in Worker, tx[w].pc # "idle"
  PROVE  /\ tx[w] \in Transaction /\ tx[w].obj \in Obj /\ tx[w].doc \in Doc
         /\ keys[tx[w].obj] \in Rows /\ (tx[w].new <=> owner[tx[w].obj] = NoDoc)
         /\ Fit(w) /\ NoRow.key = NoKey /\ NoRow.sealed = FALSE /\ NoKey \notin DataKey
BY OriginalsAssumption, Bounds DEF OpenInv, PlainInv, Typed, Alone, NoRow

\* What a sweep found of a live document has gone wrong before.
LEMMA SweptOwned == ASSUME OpenInv, NEW o \in orphans, harm[o] = {} PROVE owner[o] = NoDoc
<1>1. o \in Obj BY DEF OpenInv, PlainInv, Typed
<1> QED BY <1>1, Bounds DEF OpenInv, Stored, Swept, IsSealed

LEMMA DeliverOpen ==
  ASSUME OpenInv, Typed', NEW w \in Worker, NEW o \in Obj, Deliver(w, o) PROVE OpenInv'
<1> DEFINE old == [Idle EXCEPT !.pc = "row", !.obj = o, !.doc = owner[o]]
           new == [Idle EXCEPT !.pc = "row", !.obj = o, !.doc = registered + 1, !.new = TRUE]
<1>1. /\ tx[w].pc = "idle" /\ UNCHANGED <<keys, owner, objects, young, orphans, harm>>
      /\ \/ owner[o] # NoDoc /\ Goes(w, old)
         \/ owner[o] = NoDoc /\ Goes(w, new) /\ \A v \in Worker : ~(tx[v].obj = o /\ tx[v].new)
  BY DEF Deliver, At
<1>2. /\ old.pc = "row" /\ old.obj = o /\ old.new = FALSE /\ old.row = NoRow /\ old.seen = NoRow /\ old.result = "none"
      /\ new.pc = "row" /\ new.obj = o /\ new.new = TRUE /\ new.row = NoRow /\ new.seen = NoRow /\ new.result = "none"
  BY DEF Idle
<1> HIDE DEF old, new
<1>3. /\ tx'[w].pc = "row" /\ tx'[w].obj = o /\ tx'[w].row = NoRow /\ tx'[w].seen = NoRow /\ tx'[w].result = "none"
      /\ tx'[w].new <=> owner[o] = NoDoc
      /\ tx'[w].new => \A v \in Worker : ~(tx[v].obj = o /\ tx[v].new)
      /\ \A v \in Worker \ {w} : tx'[v] = tx[v]
  BY <1>1, <1>2 DEF Goes, OpenInv, PlainInv, Typed
<1>4. PlainInv'
  <2>1. Next BY DEF Next
  <2> QED BY <2>1, PlainStep DEF OpenInv
<1>5. Alone'
  <2>1. \A v \in Worker : tx[v].obj = o => tx[v].pc # "idle"
    BY Bounds DEF OpenInv, PlainInv, Typed, Idle
  <2>2. \A v \in Worker : tx[v].new => tx[v].pc # "idle" BY DEF OpenInv, PlainInv, Typed, Idle
  <2> QED BY <1>1, <1>3, <2>1, <2>2 DEF OpenInv, Alone
<1>6. Stored' /\ Keyed' BY <1>1 DEF OpenInv, Stored, Keyed
<1>7. \A v \in Worker : Fit(v)'
  <2>1. Fit(w)' BY <1>3 DEF Fit, Current, Placed, Settled, Written
  <2>2. \A v \in Worker \ {w} : Fit(v)' BY <1>1, <1>3, FitSame
  <2> QED BY <2>1, <2>2
<1>8. Swept' BY <1>1, <1>3 DEF OpenInv, Swept, IsSealed, Written
<1> QED BY <1>4, <1>5, <1>6, <1>7, <1>8 DEF OpenInv

\* A step of w that leaves the tables, the store and what is found alone.
LEMMA QuietOpen ==
  ASSUME OpenInv, PlainInv', NEW w \in Worker, UNCHANGED <<keys, owner, objects, young, orphans, harm>>,
         tx'[w] = Idle \/ (tx[w].pc # "idle" /\ tx'[w].obj = tx[w].obj /\ tx'[w].new = tx[w].new),
         \A v \in Worker \ {w} : tx'[v] = tx[v],
         Fit(w)', tx'[w].pc \in Written /\ harm[tx[w].obj] = {} => tx[w].obj \notin orphans
  PROVE  OpenInv'
<1>1. \A v \in Worker : \/ tx'[v].pc = "idle"
                        \/ tx[v].pc # "idle" /\ tx'[v].obj = tx[v].obj /\ tx'[v].new = tx[v].new
  BY DEF Idle
<1>2. Alone' BY <1>1, AloneKept DEF PlainInv
<1>3. Stored' /\ Keyed' BY DEF OpenInv, Stored, Keyed
<1>4. \A v \in Worker \ {w} : Fit(v)' BY FitSame
<1>5. Swept' BY DEF OpenInv, Swept, IsSealed, Idle, Written
<1> QED BY <1>2, <1>3, <1>4, <1>5 DEF OpenInv

LEMMA ReadRowOpen == ASSUME OpenInv, PlainInv', NEW w \in Worker, ReadRow(w) PROVE OpenInv'
<1> DEFINE o == tx[w].obj  t == [tx[w] EXCEPT !.pc = "inspect", !.seen = keys[o]]
<1>1. tx[w].pc = "row" /\ Goes(w, t) /\ UNCHANGED <<keys, owner, objects, young, orphans, harm>>
  BY DEF ReadRow, At
<1>2. tx[w] \in Transaction /\ o \in Obj /\ Fit(w) BY <1>1, AtWork
<1>3. t.pc = "inspect" /\ t.obj = o /\ t.new = tx[w].new /\ t.seen = keys[o] /\ t.row = tx[w].row /\ t.result = tx[w].result
  BY <1>2 DEF Transaction
<1>4. tx'[w] = t /\ \A v \in Worker \ {w} : tx'[v] = tx[v] BY <1>1 DEF Goes, OpenInv, PlainInv, Typed
<1> HIDE DEF t
<1>5. keys[o] = NoRow \/ keys[o].key \in DataKey BY <1>2 DEF OpenInv, Keyed
<1>6. Fit(w)' BY <1>1, <1>2, <1>3, <1>4, <1>5 DEF Fit, Current, Placed, Settled, Written
<1> QED BY <1>1, <1>3, <1>4, <1>6, QuietOpen DEF Written

LEMMA InspectOpen == ASSUME OpenInv, PlainInv', NEW w \in Worker, Inspect(w) PROVE OpenInv'
<1> DEFINE o == tx[w].obj  row == tx[w].seen  Known == tx[w].new \/ harm[o] = {}
<1>1. tx[w].pc = "inspect" /\ UNCHANGED <<keys, owner, objects, young, orphans, harm>> BY DEF Inspect, At
<1>2. /\ tx[w] \in Transaction /\ o \in Obj /\ tx[w].doc \in Doc /\ Fit(w) /\ keys[o] \in Rows /\ row \in Rows
      /\ tx[w].new <=> owner[o] = NoDoc
      /\ NoRow.key = NoKey /\ NoKey \notin DataKey /\ Plain \notin DataKey
  BY <1>1, AtWork, Bounds DEF Transaction
<1>3. /\ row = NoRow \/ row.key \in DataKey
      /\ tx[w].row = NoRow /\ tx[w].result = "none"
      /\ Known => /\ row.key = keys[o].key /\ row.sealed = keys[o].sealed
                  /\ keys[o] = NoRow <=> row = NoRow
  BY <1>1, <1>2 DEF Fit, Current, Placed, Written, OpenInv, Keyed
<1>4. ASSUME NEW t \in Transaction, Goes(w, t) PROVE tx'[w] = t /\ \A v \in Worker \ {w} : tx'[v] = tx[v]
  BY <1>4 DEF Goes, OpenInv, PlainInv, Typed
<1>5. harm[o] = {} /\ row # NoRow /\ objects[o] = row.key => o \notin orphans
  BY <1>3 DEF OpenInv, Swept
<1>6. CASE row # NoRow /\ IsSealed(o) /\ objects[o] = row.key /\ Goes(w, Ended(w, NoRow, "unchanged"))
  <2> DEFINE t == Ended(w, NoRow, "unchanged")
  <2>1. /\ t \in Transaction /\ t.pc = "dossier" /\ t.obj = o /\ t.new = tx[w].new /\ t.seen = row
        /\ t.row = NoRow /\ t.result = "unchanged"
    BY EndedFields, IdleTyped DEF OpenInv, PlainInv
  <2> HIDE DEF t
  <2>2. tx'[w] = t /\ \A v \in Worker \ {w} : tx'[v] = tx[v] BY <1>4, <1>6, <2>1 DEF t
  <2>3. Fit(w)' BY <1>1, <1>2, <1>3, <1>6, <2>1, <2>2 DEF Fit, Current, Placed, Settled, Written
  <2> QED BY <1>1, <1>5, <1>6, <2>1, <2>2, <2>3, QuietOpen
<1>7. CASE row # NoRow /\ IsSealed(o) /\ objects[o] = row.key /\ Goes(w, Ended(w, Moved(w), "unchanged"))
  <2> DEFINE t == Ended(w, Moved(w), "unchanged")
  <2>1. Moved(w) \in Rows /\ Moved(w).key = row.key /\ Moved(w).sealed = row.sealed
    BY <1>2, MovedTyped DEF Moved, Rows, OpenInv, PlainInv
  <2>2. Moved(w) # NoRow BY <1>2, <1>3, <1>7, <2>1
  <2>3. /\ t \in Transaction /\ t.pc = "flush" /\ t.obj = o /\ t.new = tx[w].new /\ t.seen = row
        /\ t.row = Moved(w) /\ t.result = "unchanged"
    BY <2>1, <2>2, EndedFields DEF OpenInv, PlainInv
  <2> HIDE DEF t
  <2>4. tx'[w] = t /\ \A v \in Worker \ {w} : tx'[v] = tx[v] BY <1>4, <1>7, <2>3 DEF t
  <2>5. Known => Current(tx[w])' BY <1>1, <1>3, <2>1, <2>3, <2>4 DEF Current
  <2>6. Placed(tx[w])' BY <1>3, <1>7, <2>1, <2>3, <2>4 DEF Placed, Written
  <2>7. harm[o] = {} => Settled(tx[w])' BY <1>1, <1>3, <1>7, <2>1, <2>3, <2>4 DEF Settled, Written
  <2>8. Fit(w)' BY <1>1, <2>3, <2>4, <2>5, <2>6, <2>7 DEF Fit
  <2> QED BY <1>1, <1>5, <1>7, <2>3, <2>4, <2>8, QuietOpen
<1>8. ASSUME NEW pc \in {"unwrap", "mint"}, Goes(w, Gone(w, pc)), objects[o] # Plain,
             pc = "unwrap" => row # NoRow /\ objects[o] # row.key, pc = "mint" => row = NoRow
      PROVE  OpenInv'
  <2> DEFINE t == Gone(w, pc)
  <2>1. /\ t \in Transaction /\ t.pc = pc /\ t.obj = o /\ t.new = tx[w].new /\ t.seen = row
        /\ t.row = NoRow /\ t.result = "none"
    BY <1>3, GoesFields DEF OpenInv, PlainInv, Place
  <2> HIDE DEF t
  <2>2. tx'[w] = t /\ \A v \in Worker \ {w} : tx'[v] = tx[v] BY <1>4, <1>8, <2>1 DEF t
  <2>3. harm[o] = {} => tx[w].new BY <1>2, <1>3, <1>8 DEF OpenInv, Stored
  <2>4. Fit(w)' BY <1>1, <1>2, <1>3, <1>8, <2>1, <2>2, <2>3 DEF Fit, Current, Placed, Settled, Written
  <2> QED BY <1>1, <1>8, <2>1, <2>2, <2>4, QuietOpen DEF Written
<1>9. CASE objects[o] = Plain /\ ~row.sealed /\ Goes(w, Ended(w, NoRow, "legacy"))
  <2> DEFINE t == Ended(w, NoRow, "legacy")
  <2>1. /\ t \in Transaction /\ t.pc = "dossier" /\ t.obj = o /\ t.new = tx[w].new /\ t.seen = row
        /\ t.row = NoRow /\ t.result = "legacy"
    BY EndedFields, IdleTyped DEF OpenInv, PlainInv
  <2> HIDE DEF t
  <2>2. tx'[w] = t /\ \A v \in Worker \ {w} : tx'[v] = tx[v] BY <1>4, <1>9, <2>1 DEF t
  <2>3. o \notin orphans BY <1>9 DEF OpenInv, PlainInv, Spared
  <2>4. Fit(w)' BY <1>1, <1>2, <1>3, <1>9, <2>1, <2>2 DEF Fit, Current, Placed, Settled, Written
  <2> QED BY <1>1, <2>1, <2>2, <2>3, <2>4, QuietOpen
<1>10. CASE Goes(w, Idle)
  <2>1. tx'[w] = Idle /\ \A v \in Worker \ {w} : tx'[v] = tx[v] BY <1>4, <1>10, IdleTyped
  <2>2. Fit(w)' BY <2>1, IdleFits
  <2>3. tx'[w].pc \notin Written BY <2>1 DEF Idle, Written
  <2> QED BY <1>1, <2>1, <2>2, <2>3, QuietOpen
<1> QED BY <1>6, <1>7, <1>8, <1>9, <1>10, InspectMoves

LEMMA ReadFailsOpen == ASSUME OpenInv, PlainInv', NEW w \in Worker, ReadFails(w) PROVE OpenInv'
<1> DEFINE t == Blinded(w)
<1>1. /\ tx[w].pc = "inspect" /\ Goes(w, t) /\ UNCHANGED <<keys, owner, objects, young, orphans, harm>>
  BY ReadFailsTyped DEF ReadFails, At, OpenInv, PlainInv
<1>2. tx[w] \in Transaction /\ tx[w].obj \in Obj /\ Fit(w) BY <1>1, AtWork
<1>3. /\ t.pc = IF tx[w].seen = NoRow THEN "mint" ELSE "unwrap"
      /\ t.obj = tx[w].obj /\ t.new = tx[w].new /\ t.seen = tx[w].seen
      /\ t.row = tx[w].row /\ t.result = tx[w].result /\ t.blind = ~tx[w].new
  BY BlindedFields DEF OpenInv, PlainInv
<1>4. tx'[w] = t /\ \A v \in Worker \ {w} : tx'[v] = tx[v] BY <1>1 DEF Goes, OpenInv, PlainInv, Typed
<1> HIDE DEF t
<1>5. Fit(w)' BY <1>1, <1>2, <1>3, <1>4 DEF Fit, Current, Placed, Settled, Written
<1> QED BY <1>1, <1>3, <1>4, <1>5, QuietOpen DEF Written

LEMMA UnwrapOpen == ASSUME OpenInv, PlainInv', NEW w \in Worker, Unwrap(w) PROVE OpenInv'
<1> DEFINE k == Unwrapped(ProcessOf[w], tx[w].obj, tx[w].seen)
           t == [tx[w] EXCEPT !.pc = "seal", !.key = k]
<1>1. /\ tx[w].pc = "unwrap" /\ Goes(w, t) /\ UNCHANGED <<keys, owner, objects, young, orphans, harm>>
  BY DEF Unwrap, At
<1>2. tx[w] \in Transaction /\ tx[w].obj \in Obj /\ Fit(w) BY <1>1, AtWork
<1>3. /\ t.pc = "seal" /\ t.obj = tx[w].obj /\ t.new = tx[w].new /\ t.seen = tx[w].seen
      /\ t.row = tx[w].row /\ t.result = tx[w].result /\ t.blind = tx[w].blind
  BY <1>2 DEF Transaction
<1>4. tx'[w] = t /\ \A v \in Worker \ {w} : tx'[v] = tx[v] BY <1>1 DEF Goes, OpenInv, PlainInv, Typed
<1> HIDE DEF t, k
<1>5. Fit(w)' BY <1>1, <1>2, <1>3, <1>4 DEF Fit, Current, Placed, Settled, Written, RowOf
<1> QED BY <1>1, <1>3, <1>4, <1>5, QuietOpen DEF Written

LEMMA MintOpen == ASSUME OpenInv, PlainInv', NEW w \in Worker, Mint(w) PROVE OpenInv'
<1> DEFINE o == tx[w].obj  k == minted + 1  r == [key |-> k, doc |-> tx[w].doc, sealed |-> FALSE]
           own == [tx[w] EXCEPT !.pc = "seal", !.key = k, !.row = r]
           his == [tx[w] EXCEPT !.pc = "seal", !.key = keys[o].key, !.seen = keys[o]]
<1>1. /\ tx[w].pc = "mint" /\ minted < MaxKeys /\ UNCHANGED <<keys, owner, objects, young, orphans, harm>>
      /\ keys[o] = NoRow => Goes(w, own)
      /\ keys[o] # NoRow => Goes(w, his)
  BY DEF Mint, At
<1>2. /\ tx[w] \in Transaction /\ o \in Obj /\ Fit(w)
      /\ NoRow.key = NoKey /\ NoKey \notin DataKey
  BY <1>1, AtWork
<1>3. k \in DataKey /\ r.key = k /\ r # NoRow
  BY <1>1, <1>2, OriginalsAssumption DEF OpenInv, PlainInv, Typed, DataKey
<1>4. CASE keys[o] = NoRow
  <2>1. /\ own.pc = "seal" /\ own.obj = o /\ own.new = tx[w].new /\ own.seen = tx[w].seen
        /\ own.row = r /\ own.result = tx[w].result /\ own.blind = tx[w].blind
    <3> HIDE DEF r
    <3> QED BY <1>2 DEF Transaction
  <2>2. tx'[w] = own /\ \A v \in Worker \ {w} : tx'[v] = tx[v]
    BY <1>1, <1>4 DEF Goes, OpenInv, PlainInv, Typed
  <2> HIDE DEF own, r, k
  <2>3. Fit(w)' BY <1>1, <1>2, <1>3, <1>4, <2>1, <2>2 DEF Fit, Current, Placed, Settled, Written, RowOf
  <2> QED BY <1>1, <2>1, <2>2, <2>3, QuietOpen DEF Written
<1>5. CASE keys[o] # NoRow
  <2>1. /\ his.pc = "seal" /\ his.obj = o /\ his.new = tx[w].new /\ his.seen = keys[o]
        /\ his.row = tx[w].row /\ his.result = tx[w].result /\ his.blind = tx[w].blind
    BY <1>2 DEF Transaction
  <2>2. tx'[w] = his /\ \A v \in Worker \ {w} : tx'[v] = tx[v]
    BY <1>1, <1>5 DEF Goes, OpenInv, PlainInv, Typed
  <2> HIDE DEF his, own
  <2>3. keys[o].key \in DataKey BY <1>2, <1>5 DEF OpenInv, Keyed
  <2>4. Fit(w)' BY <1>1, <1>2, <1>5, <2>1, <2>2, <2>3 DEF Fit, Current, Placed, Settled, Written, RowOf
  <2> QED BY <1>1, <2>1, <2>2, <2>4, QuietOpen DEF Written
<1> QED BY <1>4, <1>5

LEMMA SealOpen == ASSUME OpenInv, PlainInv', NEW w \in Worker, SealAndWrite(w) PROVE OpenInv'
<1> DEFINE o == tx[w].obj  r == [RowOf(tx[w]) EXCEPT !.sealed = TRUE]
           t == [tx[w] EXCEPT !.pc = "flush", !.result = "wrote", !.row = r]
<1>1. /\ tx[w].pc = "seal" /\ Goes(w, t)
      /\ objects' = [objects EXCEPT ![o] = tx[w].key] /\ young' = young \cup {o}
      /\ harm' = [harm EXCEPT ![o] = IF tx[w].new THEN Harms(tx[w]) ELSE @ \cup Harms(tx[w])]
      /\ UNCHANGED <<keys, owner, orphans>>
  BY DEF SealAndWrite, At
<1>2. /\ tx[w] \in Transaction /\ o \in Obj /\ Fit(w) /\ keys[o] \in Rows
      /\ NoRow.key = NoKey /\ NoKey \notin DataKey /\ (tx[w].new <=> owner[o] = NoDoc)
  BY <1>1, AtWork
<1>3. r \in Rows /\ r.sealed /\ r.key = RowOf(tx[w]).key BY <1>2 DEF Transaction, Rows, RowOf
<1>4. r.key \in DataKey /\ r # NoRow BY <1>1, <1>2, <1>3 DEF Fit, Placed, RowOf
<1>5. /\ t.pc = "flush" /\ t.obj = o /\ t.new = tx[w].new /\ t.seen = tx[w].seen /\ t.row = r /\ t.result = "wrote"
  <2> HIDE DEF r
  <2> QED BY <1>2 DEF Transaction
<1>6. tx'[w] = t /\ \A v \in Worker \ {w} : tx'[v] = tx[v] BY <1>1 DEF Goes, OpenInv, PlainInv, Typed
<1> HIDE DEF t, r
<1>7. /\ objects'[o] = tx[w].key /\ \A x \in Obj \ {o} : objects'[x] = objects[x]
      /\ \A x \in Obj \ {o} : harm'[x] = harm[x]
      /\ harm'[o] = IF tx[w].new THEN Harms(tx[w]) ELSE harm[o] \cup Harms(tx[w])
  BY <1>1, <1>2 DEF OpenInv, PlainInv, Typed
<1>8. harm'[o] = {} => /\ tx[w].new /\ tx[w].key = r.key /\ o \notin orphans
  <2>1. Harms(tx[w]) = {} => ~tx[w].blind /\ tx[w].key = RowOf(tx[w]).key /\ o \notin orphans
    BY DEF Harms, Harm
  <2>2. harm[o] = {} => tx[w].new \/ tx[w].blind BY <1>1, <1>2 DEF Fit, Settled
  <2> QED BY <1>3, <1>7, <2>1, <2>2
<1>9. Alone'
  <2>1. \A v \in Worker : \/ tx'[v].pc = "idle"
                          \/ tx[v].pc # "idle" /\ tx'[v].obj = tx[v].obj /\ tx'[v].new = tx[v].new
    BY <1>1, <1>5, <1>6
  <2> QED BY <1>1, <2>1, AloneKept DEF PlainInv
<1>10. Stored' /\ Keyed' BY <1>1, <1>2, <1>7, <1>8 DEF OpenInv, Stored, Keyed
<1>11. Fit(w)'
  <2>1. tx[w].new => Current(tx[w])' BY <1>1, <1>2, <1>3, <1>5, <1>6 DEF Fit, Current, RowOf
  <2>2. Placed(tx[w])' BY <1>1, <1>2, <1>4, <1>5, <1>6 DEF Fit, Placed, Written
  <2>3. harm'[o] = {} => Settled(tx[w])' BY <1>1, <1>4, <1>5, <1>6, <1>7, <1>8 DEF Settled, Written
  <2> QED BY <1>5, <1>6, <1>8, <2>1, <2>2, <2>3 DEF Fit
<1>12. ASSUME NEW v \in Worker \ {w} PROVE Fit(v)'
  <2>1. CASE tx[v].pc # "idle" /\ tx[v].obj # o
    <3>1. tx[v].obj \in Obj BY <2>1 DEF OpenInv, PlainInv, Typed
    <3> QED BY <1>1, <1>6, <1>7, <2>1, <3>1, FitSame
  <2>2. CASE tx[v].obj = o
    <3>1. ~tx[w].new BY <2>2, Others
    <3> QED BY <1>1, <1>6, <1>7, <1>8, <2>2, <3>1, FitSame
  <2>3. CASE tx[v].pc = "idle" BY <1>6, <2>3, FitSame
  <2> QED BY <2>1, <2>2, <2>3
<1>13. Swept'
  <2>1. o \in orphans => harm'[o] # {} BY <1>8
  <2>2. \A x \in orphans : x \in Obj BY DEF OpenInv, PlainInv, Typed
  <2> QED BY <1>1, <1>5, <1>6, <1>7, <2>1, <2>2 DEF OpenInv, Swept, IsSealed
<1> QED BY <1>9, <1>10, <1>11, <1>12, <1>13 DEF OpenInv

LEMMA FlushOpen == ASSUME OpenInv, PlainInv', NEW w \in Worker, Flush(w) PROVE OpenInv'
<1> DEFINE t == Gone(w, "dossier")
<1>1. tx[w].pc = "flush" /\ Goes(w, t) /\ UNCHANGED <<keys, owner, objects, young, orphans, harm>>
  BY DEF Flush, At, Gone
<1>2. Fit(w) /\ tx[w].obj \in Obj BY <1>1, AtWork
<1>3. /\ t.pc = "dossier" /\ t.obj = tx[w].obj /\ t.new = tx[w].new /\ t.seen = tx[w].seen
      /\ t.row = tx[w].row /\ t.key = tx[w].key /\ t.result = tx[w].result /\ t.blind = tx[w].blind
  BY GoesFields DEF OpenInv, PlainInv, Place
<1>4. tx'[w] = t /\ \A v \in Worker \ {w} : tx'[v] = tx[v] BY <1>1 DEF Goes, OpenInv, PlainInv, Typed
<1> HIDE DEF t
<1>5. Fit(w)' BY <1>1, <1>2, <1>3, <1>4 DEF Fit, Current, Placed, Settled, Written
<1>6. harm[tx[w].obj] = {} => tx[w].obj \notin orphans BY <1>1 DEF OpenInv, Swept, Written
<1> QED BY <1>1, <1>3, <1>4, <1>5, <1>6, QuietOpen

LEMMA CommitOpen == ASSUME OpenInv, PlainInv', NEW w \in Worker, Commit(w) PROVE OpenInv'
<1> DEFINE o == tx[w].obj  r == tx[w].row
<1>1. /\ tx[w].pc = "dossier" /\ Goes(w, Idle) /\ UNCHANGED <<objects, young, orphans, harm>>
      /\ keys' = IF r = NoRow THEN keys ELSE [keys EXCEPT ![o] = r]
      /\ owner' = IF tx[w].new THEN [owner EXCEPT ![o] = tx[w].doc] ELSE owner
  BY DEF Commit, At
<1>2. /\ o \in Obj /\ tx[w].doc \in Doc /\ Fit(w) /\ keys[o] \in Rows
      /\ tx[w].new <=> owner[o] = NoDoc
      /\ NoRow.key = NoKey /\ NoKey \notin DataKey /\ NoDoc \notin Doc
  BY <1>1, AtWork, Bounds
<1>3. tx'[w] = Idle /\ \A v \in Worker \ {w} : tx'[v] = tx[v]
  BY <1>1 DEF Goes, OpenInv, PlainInv, Typed
<1>4. /\ keys'[o] = IF r = NoRow THEN keys[o] ELSE r
      /\ \A x \in Obj \ {o} : keys'[x] = keys[x] /\ owner'[x] = owner[x]
      /\ owner'[o] # NoDoc
  BY <1>1, <1>2 DEF OpenInv, PlainInv, Typed
<1>5. /\ r # NoRow => r.key \in DataKey
      /\ harm[o] = {} /\ keys[o] # NoRow /\ r # NoRow => r.key = keys[o].key
  BY <1>2 DEF Fit, Placed, Current
<1>6. harm[o] = {} =>
        \/ tx[w].new /\ r # NoRow /\ objects[o] = r.key
        \/ /\ keys[o] # NoRow /\ objects[o] = keys[o].key /\ keys[o].key \in DataKey
           /\ r # NoRow => r.sealed = keys[o].sealed
        \/ objects[o] = Plain /\ ~keys[o].sealed /\ r = NoRow
  BY <1>1, <1>2 DEF Fit, Settled, Written, OpenInv, Keyed
<1>7. Alone'
  <2>1. ASSUME NEW v \in Worker, tx'[v].pc # "idle" PROVE v # w /\ tx[v].pc # "idle" /\ (tx[w].new => tx[v].obj # o)
    BY <1>3, <2>1, Others DEF Idle
  <2>2. \A v \in Worker : tx[v].pc # "idle" => tx[v].obj \in Obj BY DEF OpenInv, PlainInv, Typed
  <2>3. \A v \in Worker : tx'[v].pc = "idle" => ~tx'[v].new BY <1>3 DEF Idle, OpenInv, PlainInv, Typed
  <2>4. \A v, u \in Worker : tx'[u].new /\ tx'[v].obj = tx'[u].obj => v = u
    <3>1. tx'[w].obj = NoObj /\ ~tx'[w].new BY <1>3 DEF Idle
    <3> QED BY <1>3, <2>2, <2>3, <3>1, Bounds DEF OpenInv, Alone
  <2>5. \A v \in Worker : tx'[v].pc # "idle" => (tx'[v].new <=> owner'[tx'[v].obj] = NoDoc)
    BY <1>1, <1>3, <1>4, <2>1, <2>2 DEF OpenInv, Alone
  <2> QED BY <2>4, <2>5 DEF Alone
<1>8. Stored' BY <1>1, <1>2, <1>4, <1>5, <1>6 DEF OpenInv, Stored
<1>9. Keyed' BY <1>1, <1>2, <1>4, <1>5 DEF OpenInv, Keyed
<1>10. ASSUME NEW v \in Worker \ {w} PROVE Fit(v)'
  <2>1. CASE tx[v].obj # o \/ tx[v].pc = "idle"
    <3>1. tx[v].pc # "idle" => tx[v].obj \in Obj BY DEF OpenInv, PlainInv, Typed
    <3> QED BY <1>1, <1>3, <1>4, <2>1, <3>1, FitSame
  <2>2. CASE tx[v].obj = o /\ tx[v].pc # "idle"
    <3>1. ~tx[w].new /\ ~tx[v].new BY <2>2 DEF OpenInv, Alone
    <3>2. Fit(v) BY DEF OpenInv
    <3>3. Placed(tx[v])' BY <1>3, <3>2 DEF Fit, Placed, RowOf
    <3>4. ASSUME harm[o] = {} PROVE Current(tx[v])' /\ Settled(tx[v])'
      <4>1. keys'[o].key = keys[o].key /\ keys'[o].sealed = keys[o].sealed /\ (keys[o] # NoRow => keys'[o] # NoRow)
        BY <1>2, <1>4, <1>5, <1>6, <3>1, <3>4
      <4>2. keys'[o] # NoRow => keys[o] # NoRow BY <1>2, <1>4, <1>5, <1>6, <3>1, <3>4
      <4>3. Current(tx[v])' BY <1>1, <1>3, <2>2, <3>2, <3>4, <4>1, <4>2 DEF Fit, Current
      <4>4. Settled(tx[v])' BY <1>1, <1>3, <2>2, <3>1, <3>2, <3>4, <4>1 DEF Fit, Settled, Written
      <4> QED BY <4>3, <4>4
    <3> QED BY <1>1, <1>3, <2>2, <3>1, <3>3, <3>4 DEF Fit
  <2> QED BY <2>1, <2>2
<1>11. Swept'
  <2>1. harm[o] = {} => o \notin orphans BY <1>1 DEF OpenInv, Swept, Written
  <2>2. tx'[w].pc = "idle" BY <1>3 DEF Idle
  <2> QED BY <1>1, <1>3, <1>4, <2>1, <2>2 DEF OpenInv, PlainInv, Typed, Swept, IsSealed, Written
<1> QED BY <1>3, <1>7, <1>8, <1>9, <1>10, <1>11, IdleFits DEF OpenInv

\* A step that drops transactions, and perhaps what a process has cached.
LEMMA DropOpen ==
  ASSUME OpenInv, PlainInv', UNCHANGED <<keys, owner, objects, young, orphans, harm>>,
         \A v \in Worker : tx'[v] = Idle \/ tx'[v] = tx[v]
  PROVE  OpenInv'
<1>0. Idle.pc = "idle" /\ Idle.obj = NoObj BY DEF Idle
<1>1. Alone'
  <2>1. \A v \in Worker : tx[v].pc = "idle" => tx'[v].pc = "idle" BY <1>0
  <2> QED BY <1>0, <2>1, AloneKept DEF PlainInv
<1>2. Stored' /\ Keyed' BY DEF OpenInv, Stored, Keyed
<1>3. ASSUME NEW v \in Worker PROVE Fit(v)' BY IdleFits, FitSame
<1>4. Swept' BY <1>0 DEF OpenInv, Swept, IsSealed, Written
<1> QED BY <1>1, <1>2, <1>3, <1>4 DEF OpenInv

LEMMA DossierFailsOpen == ASSUME OpenInv, PlainInv', NEW w \in Worker, DossierFails(w) PROVE OpenInv'
<1> DEFINE o == tx[w].obj
<1>1. /\ tx[w].pc = "dossier" /\ Goes(w, Idle) /\ UNCHANGED <<keys, owner, orphans, harm>>
      /\ objects' = IF tx[w].result = "wrote" THEN [objects EXCEPT ![o] = Missing] ELSE objects
      /\ young' = IF tx[w].result = "wrote" THEN young \ {o} ELSE young
  BY DEF DossierFails, At
<1>2. tx'[w] = Idle /\ \A v \in Worker \ {w} : tx'[v] = tx[v] BY <1>1 DEF Goes, OpenInv, PlainInv, Typed
<1>3. CASE tx[w].result # "wrote"
  <2>1. \A v \in Worker : tx'[v] = Idle \/ tx'[v] = tx[v] BY <1>2
  <2> QED BY <1>1, <1>3, <2>1, DropOpen
<1>4. CASE tx[w].result = "wrote"
  <2>1. o \in Obj /\ (harm[o] = {} => tx[w].new /\ owner[o] = NoDoc /\ o \notin orphans)
    BY <1>1, <1>4, AtWork DEF Fit, Settled, OpenInv, Swept, Written
  <2>2. \A x \in Obj \ {o} : objects'[x] = objects[x] /\ (x \in young => x \in young')
    BY <1>1 DEF OpenInv, PlainInv, Typed
  <2>3. Alone'
    <3>1. tx'[w].pc = "idle" BY <1>2 DEF Idle
    <3>2. \A v \in Worker \ {w} : tx[v].pc = "idle" => tx'[v].pc = "idle" BY <1>2
    <3> QED BY <1>1, <1>2, <3>1, <3>2, AloneKept DEF PlainInv
  <2>4. Stored' /\ Keyed' BY <1>1, <2>1, <2>2 DEF OpenInv, Stored, Keyed
  <2>5. ASSUME NEW v \in Worker \ {w} PROVE Fit(v)'
    <3>1. tx[v].pc # "idle" => tx[v].obj \in Obj /\ (harm[o] = {} => tx[v].obj # o)
      BY <2>1, Others DEF OpenInv, PlainInv, Typed
    <3> QED BY <1>1, <1>2, <2>2, <3>1, FitSame
  <2>6. Swept'
    <3>1. tx'[w].pc = "idle" BY <1>2 DEF Idle
    <3>2. ASSUME NEW x \in orphans, harm[x] = {} PROVE x \in Obj /\ x # o BY <2>1, <3>2 DEF OpenInv, PlainInv, Typed
    <3>3. \A v \in Worker : tx'[v].pc \in Written => tx[v].pc \in Written /\ tx'[v] = tx[v]
      BY <1>2, <3>1 DEF Written
    <3> QED BY <1>1, <2>2, <3>2, <3>3 DEF OpenInv, Swept, IsSealed
  <2> QED BY <1>2, <2>3, <2>4, <2>5, <2>6, IdleFits DEF OpenInv
<1> QED BY <1>3, <1>4

\* A step of no transaction that changes the store at one object, where no
\* transaction has written what goes with its row and no live document is afterwards.
LEMMA ElsewhereOpen ==
  ASSUME OpenInv, PlainInv', NEW o \in Obj, UNCHANGED <<keys, tx, harm>>,
         \A w \in Worker : tx[w].obj = o => owner'[o] = owner[o] /\ (harm[o] = {} => tx[w].pc \notin Written),
         \A x \in Obj \ {o} : objects'[x] = objects[x] /\ owner'[x] = owner[x] /\ (x \in young => x \in young'),
         owner'[o] # NoDoc => harm[o] # {},
         \A x \in orphans' : x \in orphans /\ (harm[x] = {} => x # o)
  PROVE  OpenInv'
<1>1. Alone'
  <2>1. \A w \in Worker : tx[w].pc # "idle" => tx[w].obj \in Obj BY DEF OpenInv, PlainInv, Typed
  <2> QED BY <2>1 DEF OpenInv, Alone
<1>2. Stored' /\ Keyed' BY DEF OpenInv, Stored, Keyed
<1>3. ASSUME NEW v \in Worker PROVE Fit(v)'
  <2>1. tx[v].pc # "idle" => tx[v].obj \in Obj BY DEF OpenInv, PlainInv, Typed
  <2> QED BY <2>1, FitSame
<1>4. Swept' BY DEF OpenInv, PlainInv, Typed, Swept, IsSealed
<1> QED BY <1>1, <1>2, <1>3, <1>4 DEF OpenInv

LEMMA DeleteOpen == ASSUME OpenInv, PlainInv', NEW o \in Obj, Delete(o) PROVE OpenInv'
<1>1. /\ owner[o] # NoDoc /\ \A w \in Worker : tx[w].obj # o
      /\ objects' = [objects EXCEPT ![o] = Missing] /\ young' = young \ {o} /\ owner' = [owner EXCEPT ![o] = NoDoc]
      /\ UNCHANGED <<keys, tx, orphans, harm>>
  BY DEF Delete
<1>2. o \in orphans => harm[o] # {} BY <1>1, SweptOwned
<1>3. owner'[o] = NoDoc /\ \A x \in Obj \ {o} : objects'[x] = objects[x] /\ owner'[x] = owner[x]
  BY <1>1 DEF OpenInv, PlainInv, Typed
<1> QED BY <1>1, <1>2, <1>3, ElsewhereOpen

LEMMA AgeOpen == ASSUME OpenInv, PlainInv', NEW o \in Obj, Age(o) PROVE OpenInv'
<1>1. ASSUME NEW v \in Worker PROVE Fit(v)'
  <2>1. tx[v].pc # "idle" => tx[v].obj # o BY DEF Age
  <2> QED BY <2>1, FitSame DEF Age
<1>2. Alone' /\ Stored' /\ Keyed' /\ Swept'
  BY DEF Age, OpenInv, Alone, Stored, Keyed, Swept, IsSealed
<1> QED BY <1>1, <1>2 DEF OpenInv

LEMMA RemoveOrphanOpen == ASSUME OpenInv, PlainInv', NEW o \in Obj, RemoveOrphan(o) PROVE OpenInv'
<1>1. /\ o \in orphans /\ orphans' = orphans \ {o} /\ objects' = [objects EXCEPT ![o] = Missing]
      /\ young' = young \ {o} /\ UNCHANGED <<keys, owner, tx, harm>>
  BY DEF RemoveOrphan
<1>2. harm[o] = {} => owner[o] = NoDoc /\ \A w \in Worker : tx[w].obj = o => tx[w].pc \notin Written
  BY <1>1, SweptOwned DEF OpenInv, Swept
<1>3. \A x \in Obj \ {o} : objects'[x] = objects[x] BY <1>1 DEF OpenInv, PlainInv, Typed
<1> QED BY <1>1, <1>2, <1>3, ElsewhereOpen

LEMMA FindOrphansOpen == ASSUME OpenInv, PlainInv', FindOrphans PROVE OpenInv'
<1>1. /\ orphans' = {o \in Obj \ young : IsSealed(o) /\ objects[o] # keys[o].key}
      /\ UNCHANGED <<keys, owner, objects, young, tx, harm>>
  BY DEF FindOrphans
<1>2. ASSUME NEW v \in Worker PROVE Fit(v)' BY <1>1, FitSame
<1>3. Alone' /\ Stored' /\ Keyed' BY <1>1 DEF OpenInv, Alone, Stored, Keyed
<1>4. ASSUME NEW w \in Worker, tx[w].pc \in Written, tx[w].obj \in orphans', harm[tx[w].obj] = {} PROVE FALSE
  <2>1. Fit(w) BY DEF OpenInv
  <2> QED BY <1>1, <1>4, <2>1, Bounds DEF Fit, Settled, IsSealed
<1>5. Swept' BY <1>1, <1>4 DEF Swept, IsSealed
<1> QED BY <1>2, <1>3, <1>5 DEF OpenInv

LEMMA OpenStep == ASSUME OpenInv, [Next]_vars PROVE OpenInv'
<1>1. PlainInv' /\ Typed' BY PlainStep DEF OpenInv, PlainInv
<1>2. CASE UNCHANGED vars
  <2>1. \A v \in Worker : tx'[v] = tx[v] BY <1>2 DEF vars
  <2> QED BY <1>1, <1>2, <2>1, DropOpen DEF vars
<1>3. ASSUME NEW w \in Worker, NEW o \in Obj, Deliver(w, o) PROVE OpenInv' BY <1>1, <1>3, DeliverOpen
<1>4. ASSUME NEW w \in Worker, PutOriginal(w) PROVE OpenInv'
  BY <1>1, <1>4, ReadRowOpen, InspectOpen, ReadFailsOpen, UnwrapOpen, MintOpen, SealOpen, FlushOpen DEF PutOriginal
<1>5. ASSUME NEW w \in Worker, Commit(w) \/ DossierFails(w) \/ Rollback(w) PROVE OpenInv'
  <2>1. Rollback(w) => \A v \in Worker : tx'[v] = Idle \/ tx'[v] = tx[v]
    BY DEF Rollback, Goes, OpenInv, PlainInv, Typed
  <2>2. Rollback(w) => UNCHANGED <<keys, owner, objects, young, orphans, harm>> BY DEF Rollback
  <2> QED BY <1>1, <1>5, <2>1, <2>2, CommitOpen, DossierFailsOpen, DropOpen
<1>6. ASSUME NEW p \in Process, Crash(p) PROVE OpenInv'
  <2>1. \A v \in Worker : tx'[v] = Idle \/ tx'[v] = tx[v] BY <1>6 DEF Crash
  <2> QED BY <1>1, <1>6, <2>1, DropOpen DEF Crash
<1>7. ASSUME NEW p \in Process, NEW o \in Obj, Expire(p, o) \/ Read(p, o) PROVE OpenInv'
  BY <1>1, <1>7, DropOpen DEF Expire, Read
<1>8. ASSUME NEW o \in Obj, Delete(o) \/ Age(o) \/ RemoveOrphan(o) PROVE OpenInv'
  BY <1>1, <1>8, DeleteOpen, AgeOpen, RemoveOrphanOpen
<1>9. CASE FindOrphans BY <1>1, <1>9, FindOrphansOpen
<1> QED BY <1>2, <1>3, <1>4, <1>5, <1>6, <1>7, <1>8, <1>9 DEF Next

LEMMA OpenShows == OpenInv => OwnedObjectsOpen
<1> SUFFICES ASSUME OpenInv, NEW o \in Obj, owner[o] # NoDoc, harm[o] = {}, NEW p \in Process, ~LostKey(p, o)
             PROVE  GetOriginal(p, o) = "bytes"
  BY DEF OwnedObjectsOpen
<1>1. CASE objects[o] = Plain /\ ~keys[o].sealed BY <1>1, Bounds DEF GetOriginal
<1>2. CASE keys[o].key \in DataKey /\ objects[o] = keys[o].key
  <2>1. objects[o] # Missing /\ objects[o] # Plain /\ keys[o].key # NoKey BY <1>2, Bounds
  <2>2. Unwrapped(p, o, keys[o]) = keys[o].key BY <2>1 DEF LostKey, Unwrapped
  <2> QED BY <1>2, <2>1, <2>2 DEF GetOriginal
<1> QED BY <1>1, <1>2 DEF OpenInv, Stored

\* The inductive invariant of originals: what is stored of a live document goes with
\* its row, unless one of the three events of "harm" came before it was written.
THEOREM OpenInvariant == Spec => []OpenInv
<1>1. OpenInv /\ [Next]_vars => OpenInv' BY OpenStep
<1> QED BY <1>1, InitOpen, PTL DEF Spec

\* get_original returns the bytes of every live document, in every process that
\* holds no lost key, whatever was rolled back, crashed, deleted, swept or delivered
\* at once, when the object was not written after a failed read of a live one, under
\* a lost key or beneath a sweep: those three are all that can go wrong.
THEOREM OwnedObjectsAlwaysOpen == Spec => []OwnedObjectsOpen
<1>1. OpenInv => OwnedObjectsOpen BY OpenShows
<1> QED BY <1>1, OpenInvariant, PTL
=============================================================================
