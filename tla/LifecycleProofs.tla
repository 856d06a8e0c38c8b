--------------------------- MODULE LifecycleProofs ---------------------------
(***************************************************************************)
(* For any number of workers, documents and contents, however deliveries,  *)
(* OCR recovery, deletions and failures interleave: one live document per  *)
(* content, which rests on what the uncommitted rows claim (no two         *)
(* transactions claim one key, and none claims a key that a committed live *)
(* document has); trails on the edges, for the documents no stale row was  *)
(* committed over; and stored objects that only a deletion that saw no     *)
(* claim takes.  What holds of the copies of one content where nothing is  *)
(* deleted: what was indexed once stays served, and a search finds it      *)
(* once.  And what a deletion leaves, whatever fails on the way, where     *)
(* operations do not overlap.                                              *)
(***************************************************************************)
EXTENDS Lifecycle, TLAPS

\* The places of a delivery.
Delivering == {"known", "skipped", "find", "write", "read", "profile", "extract",
               "anonymize", "index", "indexed", "recover", "repoint", "retire"}

\* What a worker's session has in hand where it is.
Placed(t) ==
  /\ t.pc = "idle" => t = Idle
  /\ t.pc \in {"known", "find"} => t.row = NoRow
  /\ t.pc \notin {"idle", "known", "find"} => t.doc \in Doc
  /\ (t.pc \in Delivering \/ t.then \in Delivering \/ t.stage # "none") => t.op = "deliver"
  /\ t.op = "deliver" => t.key \in Key
  /\ t.pc = "append" => t.then \in {"commit", "write", "extract", "anonymize", "index", "retire"}
  /\ t.pc = "repoint" => OcrOf[t.key] \in Key
  /\ t.pc = "reindex" => t.key \in Key
  /\ t.pc \in {"unindex", "drop", "claim", "remove", "forget"} => t.op = "delete"
  /\ (t.pc = "retire" \/ t.then = "retire") => t.owner \in Doc

\* An uncommitted row that makes its document the live one of a content.
Claims(t, k) == t.row.key = k /\ t.row.by = NoDoc

\* No two transactions write one row; what one claims no other claims, and no
\* committed live document has.
ClaimsApart ==
  /\ \A v, w \in Worker :
       (v # w /\ tx[v].row # NoRow /\ tx[w].row # NoRow) => tx[v].doc # tx[w].doc
  /\ \A v, w \in Worker, k \in Key : (Claims(tx[v], k) /\ Claims(tx[w], k)) => v = w
  /\ \A w \in Worker, k \in Key : Claims(tx[w], k) => LiveFor(k) \subseteq {tx[w].doc}

LiveApart == \A k \in Key : \A d, e \in LiveFor(k) : d = e

LifecycleInv == /\ TypeOK
                /\ \A w \in Worker : Placed(tx[w])
                /\ ClaimsApart
                /\ LiveApart

-----------------------------------------------------------------------------
\* What one worker's step, from tx[w] to u, has to show for the rest to stay true.

\* Its row is the one it had, or none, or claims nothing others claim.
KeepsApart(w, u) ==
  \/ u.row = NoRow
  \/ u.row = tx[w].row /\ u.doc = tx[w].doc
  \/ /\ \A v \in Worker \ {w} : tx[v].doc = u.doc => tx[v].row = NoRow
     /\ \A k \in Key : Claims(u, k) => KeyFree(w, k) /\ LiveFor(k) \subseteq {u.doc}

\* It takes the lock of the chain from nobody, and has it when it has records.
KeepsLock(w, u) ==
  /\ lock' \in Worker \cup {NoWorker}
  /\ u.recs # <<>> => lock' = w
  /\ \A v \in Worker \ {w} : lock = v => lock' = v

\* A step of one worker that leaves the documents and the trail alone keeps the
\* invariant when what it claims is apart from what the others claim.
LEMMA WorkerMoves ==
  ASSUME LifecycleInv, NEW w \in Worker, NEW u \in Transaction,
         Set(w, u), Placed(u), KeepsApart(w, u), KeepsLock(w, u),
         docs' = docs, trail' = trail, texts' = texts,
         index' \in [Doc -> Key \cup {NoKey}], objects' \subseteq Key,
         started' \in 0 .. MaxOps
  PROVE  LifecycleInv'
<1>1. /\ tx \in [Worker -> Transaction]
      /\ tx' = [tx EXCEPT ![w] = u]
      /\ tx'[w] = u /\ \A v \in Worker \ {w} : tx'[v] = tx[v]
  BY DEF LifecycleInv, TypeOK, Set
<1>2. TypeOK'
  <2>1. tx' \in [Worker -> Transaction]
    BY <1>1
  <2>2. \A v \in Worker : tx'[v].recs # <<>> => lock' = v
    BY <1>1 DEF LifecycleInv, TypeOK, KeepsLock
  <2> QED BY <2>1, <2>2 DEF LifecycleInv, TypeOK, KeepsLock
<1>3. \A v \in Worker : Placed(tx[v])'
  BY <1>1 DEF LifecycleInv, Placed
<1>4. \A k : LiveFor(k)' = LiveFor(k)
  BY DEF LiveFor
<1>5. LiveApart'
  BY <1>4 DEF LifecycleInv, LiveApart
<1>6. NoRow.key \notin Key
  BY ConstantsAssumption DEF NoRow
<1>7. ClaimsApart'
  <2> USE <1>1
  <2>1. ASSUME NEW a \in Worker, NEW b \in Worker, a # b,
               tx'[a].row # NoRow, tx'[b].row # NoRow
        PROVE  tx'[a].doc # tx'[b].doc
    <3>1. a # w /\ b # w => tx'[a].doc # tx'[b].doc
      BY <2>1 DEF LifecycleInv, ClaimsApart
    <3>2. ASSUME NEW v \in Worker \ {w}, tx[v].row # NoRow, u.row # NoRow
          PROVE  tx[v].doc # u.doc
      BY <3>2 DEF LifecycleInv, ClaimsApart, KeepsApart
    <3> QED BY <2>1, <3>1, <3>2
  <2>2. ASSUME NEW k \in Key, NEW v \in Worker \ {w}, Claims(tx[v], k), Claims(u, k)
        PROVE  FALSE
    BY <1>6, <2>2 DEF LifecycleInv, ClaimsApart, KeepsApart, KeyFree, Claims
  <2>3. \A a, b \in Worker, k \in Key : (Claims(tx'[a], k) /\ Claims(tx'[b], k)) => a = b
    BY <2>2 DEF LifecycleInv, ClaimsApart
  <2>4. ASSUME NEW k \in Key, Claims(u, k) PROVE LiveFor(k) \subseteq {u.doc}
    BY <1>6, <2>4 DEF LifecycleInv, ClaimsApart, KeepsApart, Claims
  <2>5. \A a \in Worker, k \in Key : Claims(tx'[a], k) => LiveFor(k) \subseteq {tx'[a].doc}
    BY <2>4 DEF LifecycleInv, ClaimsApart
  <2>6. \A a \in Worker, k \in Key : Claims(tx[a], k)' <=> Claims(tx'[a], k)
    BY DEF Claims
  <2> QED BY <1>4, <2>1, <2>3, <2>5, <2>6 DEF ClaimsApart
<1> QED BY <1>2, <1>3, <1>5, <1>7 DEF LifecycleInv

-----------------------------------------------------------------------------
(* The helpers that the actions are built from.                            *)

\* What a session reads as the state of a document is one.
LEMMA StateTyped ==
  ASSUME TypeOK, NEW t \in Transaction, t.doc \in Doc
  PROVE  CurrentState(t) \in State \cup {Unborn}
<1>1. trail[t.doc] \in Seq(Record) /\ t.recs \in Seq(Record)
  BY DEF TypeOK, Transaction
<1>2. trail[t.doc] \o t.recs \in Seq(Record)
  BY <1>1
<1>3. \A h \in Seq(Record) : Newest(h) \in State \cup {Unborn}
  <2>1. ASSUME NEW h \in Seq(Record), h # <<>> PROVE h[Len(h)] \in Record
    BY <2>1
  <2> QED BY <2>1 DEF Newest, Record
<1> QED BY <1>2, <1>3 DEF CurrentState

\* audit.current_state of a document is a state, or none.
LEMMA CommittedStateTyped ==
  ASSUME TypeOK, NEW d \in Doc PROVE StateOf(d) \in State \cup {Unborn}
<1>1. trail[d] \in Seq(Record)
  BY DEF TypeOK
<1>2. ASSUME trail[d] # <<>> PROVE trail[d][Len(trail[d])] \in Record
  BY <1>1, <1>2
<1> QED BY <1>2 DEF StateOf, Newest, Record

\* The places where a call of audit.append goes on.
Onward == {"commit", "write", "extract", "anonymize", "index", "retire"}

\* t may go on to the place `then`.
MayGo(t, then) ==
  /\ t.doc \in Doc
  /\ t.op = "deliver" => t.key \in Key
  /\ t.op # "deliver" => then = "commit" /\ t.then \notin Delivering /\ t.stage = "none"
  /\ then = "retire" \/ t.then = "retire" => t.owner \in Doc

\* pipeline.transition, from any place: to its append, or to raise.
LEMMA TransitionKeeps ==
  ASSUME LifecycleInv, NEW w \in Worker, NEW t \in Transaction, NEW to \in State,
         NEW then \in Onward, Transition(w, t, to, then), MayGo(t, then),
         t.recs = tx[w].recs, KeepsApart(w, t),
         UNCHANGED <<docs, trail, texts, index, objects, lock, started>>
  PROVE  LifecycleInv'
<1> DEFINE next == [t EXCEPT !.state = to, !.from = CurrentState(t), !.to = to, !.then = then]
<1>1. CurrentState(t) \in State \cup {Unborn}
  BY StateTyped DEF LifecycleInv, MayGo
<1>0. then \in Place /\ {"append", "raise"} \subseteq Place
  BY DEF Onward, Place
<1>2. next \in Transaction
  BY <1>1, <1>0 DEF Transaction
<1>3. PICK u \in {[next EXCEPT !.pc = then], [next EXCEPT !.pc = "append"],
                  [t EXCEPT !.pc = "raise"]} : Set(w, u)
  BY DEF Transition
<1>4. u \in Transaction
  <2>1. \A n \in Transaction, p \in Place : [n EXCEPT !.pc = p] \in Transaction
    BY DEF Transaction
  <2> HIDE DEF next
  <2> QED BY <1>2, <1>3, <1>0, <2>1
<1>5. /\ u.op = t.op /\ u.stage = t.stage /\ u.doc = t.doc /\ u.key = t.key
      /\ u.owner = t.owner /\ u.recs = t.recs /\ u.row = t.row
      /\ \/ u.pc = then /\ u.then = then
         \/ u.pc = "append" /\ u.then = then
         \/ u.pc = "raise" /\ u.then = t.then
  BY <1>3 DEF Transaction
<1>6. Placed(u)
  BY <1>5 DEF Placed, MayGo, Onward, Delivering
<1>7. KeepsApart(w, u)
  BY <1>5 DEF KeepsApart, Claims
<1>8. KeepsLock(w, u)
  BY <1>5 DEF KeepsLock, LifecycleInv, TypeOK
<1> QED BY <1>3, <1>4, <1>6, <1>7, <1>8, WorkerMoves DEF LifecycleInv, TypeOK

\* An audit record that keeps the state (reanonymize, note_failure).
LEMMA EventKeeps ==
  ASSUME LifecycleInv, NEW w \in Worker, NEW t \in Transaction,
         NEW state \in State \cup {Unborn},
         Event(w, t, state, "commit"), MayGo(t, "commit"),
         t.recs = tx[w].recs, KeepsApart(w, t),
         UNCHANGED <<docs, trail, texts, index, objects, lock>>, started' \in 0 .. MaxOps
  PROVE  LifecycleInv'
<1> DEFINE u == [t EXCEPT !.pc = "append", !.state = state,
                          !.from = state, !.to = state, !.then = "commit"]
<1>0. {"append", "commit"} \subseteq Place
  BY DEF Place
<1>1. u \in Transaction
  BY <1>0 DEF Transaction
<1>2. /\ u.op = t.op /\ u.stage = t.stage /\ u.doc = t.doc /\ u.key = t.key
      /\ u.owner = t.owner /\ u.recs = t.recs /\ u.row = t.row
      /\ u.pc = "append" /\ u.then = "commit"
  BY DEF Transaction
<1> HIDE DEF u
<1>3. Placed(u)
  BY <1>2 DEF Placed, MayGo, Delivering
<1>4. KeepsApart(w, u)
  BY <1>2 DEF KeepsApart, Claims
<1>5. KeepsLock(w, u)
  BY <1>2 DEF KeepsLock, LifecycleInv, TypeOK
<1>6. Set(w, u)
  BY DEF Event, u
<1> QED BY <1>1, <1>3, <1>4, <1>5, <1>6, WorkerMoves DEF LifecycleInv, TypeOK

\* A step that leaves its document, its row and its records alone.
LEMMA QuietMoves ==
  ASSUME LifecycleInv, NEW w \in Worker, NEW u \in Transaction, Set(w, u), Placed(u),
         u.doc = tx[w].doc \/ u.row = NoRow, u.row = tx[w].row, u.recs = tx[w].recs,
         docs' = docs, trail' = trail, texts' = texts, lock' = lock,
         index' \in [Doc -> Key \cup {NoKey}], objects' \subseteq Key,
         started' \in 0 .. MaxOps
  PROVE  LifecycleInv'
<1>1. KeepsApart(w, u)
  BY DEF KeepsApart
<1>2. KeepsLock(w, u)
  BY DEF KeepsLock, LifecycleInv, TypeOK
<1> QED BY <1>1, <1>2, WorkerMoves

\* Between operations a worker has written nothing.
LEMMA IdleTyped == Idle \in Transaction /\ Placed(Idle) /\ Idle.row = NoRow /\ Idle.recs = <<>>
<1>1. Idle \in Transaction
  BY DEF Idle, Transaction, Place, Rows, NoRow
<1>2. Placed(Idle)
  BY DEF Idle, Placed, Delivering
<1> QED BY <1>1, <1>2 DEF Idle

\* The end of a transaction, with nothing or with the failure still to be noted.
LEMMA AbandonKeeps ==
  ASSUME LifecycleInv, NEW w \in Worker, NEW pc \in {"idle", "note"}, Abandon(w, pc),
         pc = "note" => tx[w].doc \in Doc
  PROVE  LifecycleInv'
<1> DEFINE u == IF pc = "idle" THEN Idle
                ELSE [Idle EXCEPT !.op = "note", !.pc = pc, !.doc = tx[w].doc]
<1>1. tx[w] \in Transaction
  BY DEF LifecycleInv, TypeOK
<1>2. u \in Transaction /\ Placed(u) /\ u.row = NoRow /\ u.recs = <<>>
  <2>1. CASE pc = "idle"
    BY <2>1, IdleTyped
  <2>2. CASE pc = "note"
    <3>1. u = [op |-> "note", pc |-> "note", stage |-> "none", doc |-> tx[w].doc,
               key |-> NoKey, state |-> Unborn, from |-> Unborn, to |-> Unborn,
               then |-> "idle", owner |-> NoDoc,
               recs |-> <<>>, row |-> NoRow, text |-> "same"]
      BY <2>2 DEF Idle
    <3> HIDE DEF u
    <3>2. /\ NoRow \in Rows /\ {"note", "idle"} \subseteq Place
          /\ tx[w].doc \in Doc \cup {NoDoc}
      BY <1>1 DEF Rows, NoRow, Place, Transaction
    <3>3. u \in Transaction
      BY <3>1, <3>2 DEF Transaction
    <3>4. u.row = NoRow /\ u.recs = <<>>
      BY <3>1
    <3>5. Placed(u)
      BY <2>2, <3>1 DEF Placed, Delivering
    <3> QED BY <3>3, <3>4, <3>5
  <2> QED BY <2>1, <2>2
<1>3. /\ Set(w, u) /\ lock' = IF lock = w THEN NoWorker ELSE lock
      /\ UNCHANGED <<docs, trail, texts, index, objects, started>>
  BY DEF Abandon, Set
<1>4. KeepsApart(w, u)
  BY <1>2 DEF KeepsApart
<1>5. KeepsLock(w, u)
  BY <1>2, <1>3 DEF KeepsLock, LifecycleInv, TypeOK
<1> HIDE DEF u
<1> QED BY <1>2, <1>3, <1>4, <1>5, WorkerMoves DEF LifecycleInv, TypeOK

-----------------------------------------------------------------------------
(* Requests.                                                               *)

\* The requests the api and the worker start.
LEMMA RequestKeeps ==
  ASSUME LifecycleInv, NEW w \in Worker, Request(w) PROVE LifecycleInv'
<1>1. tx[w] = Idle /\ started' \in 0 .. MaxOps
  <2>1. At(w, "idle") /\ started < MaxOps /\ started' = started + 1
    BY DEF Request, Deliver, Delete, Reanonymize, RecordEvent, Begin
  <2>2. Placed(tx[w]) /\ started \in 0 .. MaxOps
    BY DEF LifecycleInv, TypeOK
  <2> QED BY <2>1, <2>2, ConstantsAssumption DEF At, Placed
<1>2. /\ docs \in [Doc -> Rows] /\ index \in [Doc -> Key \cup {NoKey}] /\ objects \subseteq Key
  BY DEF LifecycleInv, TypeOK
<1>3. ASSUME NEW k \in Key, Deliver(w, k) PROVE LifecycleInv'
  <2> DEFINE u(pc) == [Idle EXCEPT !.op = "deliver", !.key = k, !.pc = pc]
  <2>1. PICK pc \in {"known", "find"} : Set(w, u(pc))
    BY <1>3 DEF Deliver
  <2>2. u(pc) = [Idle EXCEPT !.op = "deliver", !.key = k, !.pc = pc]
    OBVIOUS
  <2>3. u(pc) \in Transaction
    <3>1. pc \in Place
      BY <2>1 DEF Place
    <3> QED BY <3>1, IdleTyped DEF Transaction
  <2>4. Placed(u(pc)) /\ u(pc).row = NoRow /\ u(pc).recs = <<>>
    BY <2>1 DEF Placed, Idle, Delivering
  <2> HIDE DEF u
  <2> QED BY <1>1, <1>2, <1>3, <2>1, <2>3, <2>4, IdleTyped, QuietMoves DEF Deliver
<1>4. ASSUME NEW d \in Doc, Delete(w, d) PROVE LifecycleInv'
  <2> DEFINE u == [Idle EXCEPT !.op = "delete", !.doc = d, !.key = docs[d].key,
                               !.state = StateOf(d), !.pc = "unindex"]
  <2>1. StateOf(d) \in State \cup {Unborn}
    BY CommittedStateTyped DEF LifecycleInv
  <2>2. u \in Transaction
    <3>1. "unindex" \in Place /\ docs[d].key \in Key \cup {NoKey, Released}
      BY <1>2 DEF Place, Rows
    <3> QED BY <2>1, <3>1, IdleTyped DEF Transaction
  <2>3. Placed(u) /\ u.row = NoRow /\ u.recs = <<>>
    BY DEF Placed, Idle, Delivering
  <2>4. Set(w, u)
    BY <1>4 DEF Delete
  <2> HIDE DEF u
  <2> QED BY <1>1, <1>2, <1>4, <2>2, <2>3, <2>4, IdleTyped, QuietMoves DEF Delete
<1>5. ASSUME NEW d \in Doc, Reanonymize(w, d) PROVE LifecycleInv'
  <2> DEFINE u(pc) == [Idle EXCEPT !.op = "reanonymize", !.doc = d, !.key = docs[d].key,
                                   !.state = StateOf(d), !.pc = pc]
  <2>1. StateOf(d) \in State \cup {Unborn}
    BY CommittedStateTyped DEF LifecycleInv
  <2>2. PICK pc \in {"reindex", "raise"} :
          Set(w, u(pc)) /\ (pc = "reindex" => docs[d].key \in Key)
    BY <1>2, <1>5 DEF Reanonymize
  <2>3. u(pc) \in Transaction
    <3>1. pc \in Place /\ docs[d].key \in Key \cup {NoKey, Released}
      BY <1>2, <2>2 DEF Place, Rows
    <3> QED BY <2>1, <3>1, IdleTyped DEF Transaction
  <2>4. Placed(u(pc)) /\ u(pc).row = NoRow /\ u(pc).recs = <<>>
    BY <2>2 DEF Placed, Idle, Delivering
  <2> HIDE DEF u
  <2> QED BY <1>1, <1>2, <1>5, <2>2, <2>3, <2>4, IdleTyped, QuietMoves DEF Reanonymize
<1>6. ASSUME NEW d \in Doc, RecordEvent(w, d) PROVE LifecycleInv'
  <2> DEFINE t == [Idle EXCEPT !.op = "event", !.doc = d]
  <2>1. StateOf(d) \in State \cup {Unborn}
    BY CommittedStateTyped DEF LifecycleInv
  <2>2. t \in Transaction
    BY IdleTyped DEF Transaction
  <2>3. MayGo(t, "commit") /\ t.row = NoRow /\ t.recs = <<>>
    BY DEF MayGo, Idle, Delivering
  <2>4. Event(w, t, StateOf(d), "commit") /\ UNCHANGED <<docs, trail, texts, index, objects, lock>>
    BY <1>6 DEF RecordEvent
  <2>5. KeepsApart(w, t)
    BY <2>3 DEF KeepsApart
  <2> HIDE DEF t
  <2> QED BY <1>1, <2>1, <2>2, <2>3, <2>4, <2>5, IdleTyped, EventKeeps
<1> QED BY <1>3, <1>4, <1>5, <1>6 DEF Request

-----------------------------------------------------------------------------
(* The steps of an operation.                                              *)

\* A worker goes on to another place, with nothing new in hand but a state.
LEMMA GoesOn ==
  ASSUME LifecycleInv, NEW w \in Worker, NEW p \in Place, NEW u, Set(w, u),
         \/ u = [tx[w] EXCEPT !.pc = p]
         \/ \E s \in State \cup {Unborn} : u = [tx[w] EXCEPT !.state = s, !.pc = p],
         tx[w].pc \notin {"idle", "known", "find"},
         p \notin {"idle", "known", "find", "append", "reindex", "retire"},
         p \in Delivering => tx[w].op = "deliver",
         p = "repoint" => OcrOf[tx[w].key] \in Key,
         p \in {"unindex", "drop", "claim", "remove", "forget"} => tx[w].op = "delete",
         UNCHANGED <<docs, trail, texts, lock, started>>,
         index' \in [Doc -> Key \cup {NoKey}], objects' \subseteq Key
  PROVE  LifecycleInv'
<1>1. tx[w] \in Transaction /\ Placed(tx[w]) /\ started \in 0 .. MaxOps
  BY DEF LifecycleInv, TypeOK
<1>2. u \in Transaction
  <2>1. CASE u = [tx[w] EXCEPT !.pc = p]
    BY <1>1, <2>1 DEF Transaction
  <2>2. ASSUME NEW s \in State \cup {Unborn}, u = [tx[w] EXCEPT !.state = s, !.pc = p]
        PROVE  u \in Transaction
    BY <1>1, <2>2 DEF Transaction
  <2> QED BY <2>1, <2>2
<1>3. /\ u.op = tx[w].op /\ u.stage = tx[w].stage /\ u.doc = tx[w].doc
      /\ u.key = tx[w].key /\ u.owner = tx[w].owner /\ u.recs = tx[w].recs
      /\ u.row = tx[w].row /\ u.then = tx[w].then /\ u.pc = p
  BY <1>1 DEF Transaction
<1>4. Placed(u)
  BY <1>1, <1>3 DEF Placed
<1> QED BY <1>1, <1>2, <1>3, <1>4, QuietMoves

\* Its own transaction, unchanged, may be carried to an append.
LEMMA OwnMayGo ==
  ASSUME LifecycleInv, NEW w \in Worker, tx[w].pc \notin {"idle", "known", "find"},
         NEW then \in Onward, then # "retire", tx[w].op = "deliver" \/ then = "commit"
  PROVE  MayGo(tx[w], then)
BY DEF LifecycleInv, Placed, MayGo

\* register_live, write_profile and process: what they hold and what they put in
\* the row.
LEMMA DeliveryKeeps ==
  ASSUME LifecycleInv, NEW w \in Worker,
         \/ Known(w) \/ Skipped(w) \/ Find(w) \/ WriteOriginal(w) \/ ReadState(w)
         \/ Profile(w) \/ Extract(w) \/ Anonymize(w) \/ Index(w) \/ Indexed(w)
  PROVE  LifecycleInv'
<1> DEFINE t == tx[w]
<1>1. /\ t \in Transaction /\ Placed(t) /\ started \in 0 .. MaxOps
      /\ index \in [Doc -> Key \cup {NoKey}] /\ objects \subseteq Key
  BY DEF LifecycleInv, TypeOK
<1>2. ASSUME Set(w, Idle), UNCHANGED <<docs, trail, texts, index, objects, lock, started>>
      PROVE  LifecycleInv'
  <2>1. KeepsApart(w, Idle) /\ KeepsLock(w, Idle)
    BY <1>2, IdleTyped DEF KeepsApart, KeepsLock, LifecycleInv, TypeOK
  <2> QED BY <1>1, <1>2, <2>1, IdleTyped, WorkerMoves
<1>3. CASE Known(w)
  <2>1. ASSUME NEW d \in Doc, Set(w, [t EXCEPT !.pc = "skipped", !.doc = d]) PROVE LifecycleInv'
    <3> DEFINE u == [t EXCEPT !.pc = "skipped", !.doc = d]
    <3>1. t.pc = "known" /\ t.op = "deliver" /\ t.row = NoRow
      BY <1>1, <1>3 DEF Known, At, Placed, Delivering
    <3>2. u \in Transaction
      <4>1. "skipped" \in Place
        BY DEF Place
      <4> QED BY <1>1, <4>1 DEF Transaction
    <3>3. /\ u.op = t.op /\ u.stage = t.stage /\ u.doc = d /\ u.key = t.key /\ u.owner = t.owner
          /\ u.recs = t.recs /\ u.row = t.row /\ u.then = t.then /\ u.pc = "skipped"
      BY <1>1 DEF Transaction
    <3>4. Placed(u)
      BY <1>1, <3>1, <3>3 DEF Placed, Delivering
    <3> HIDE DEF u
    <3> QED BY <1>1, <1>3, <2>1, <3>1, <3>2, <3>3, <3>4, QuietMoves DEF Known, u
  <2> QED BY <1>2, <1>3, <2>1 DEF Known, LiveFor
<1>4. CASE Skipped(w)
  BY <1>2, <1>4 DEF Skipped
<1>5. CASE Find(w)
  <2>1. t.pc = "find" /\ t.op = "deliver" /\ t.row = NoRow /\ t.key \in Key
    BY <1>1, <1>5 DEF Find, At, Placed, Delivering
  <2>2. ASSUME NEW d \in Doc,
               Set(w, [[t EXCEPT !.stage = "ingest"] EXCEPT !.doc = d, !.pc = "write"])
        PROVE  LifecycleInv'
    <3> DEFINE u == [[t EXCEPT !.stage = "ingest"] EXCEPT !.doc = d, !.pc = "write"]
    <3>1. u \in Transaction
      <4>1. "write" \in Place
        BY DEF Place
      <4> QED BY <1>1, <4>1 DEF Transaction
    <3>2. /\ u.op = t.op /\ u.stage = "ingest" /\ u.doc = d /\ u.key = t.key
          /\ u.owner = t.owner /\ u.recs = t.recs /\ u.row = t.row
          /\ u.then = t.then /\ u.pc = "write"
      BY <1>1 DEF Transaction
    <3>3. Placed(u)
      BY <1>1, <2>1, <3>2 DEF Placed, Delivering
    <3> HIDE DEF u
    <3> QED BY <1>1, <1>5, <2>1, <2>2, <3>1, <3>2, <3>3, QuietMoves DEF Find, u
  <2>3. ASSUME NEW d \in Doc, LiveFor(t.key) = {}, KeyFree(w, t.key),
               ~Exists(d), \A v \in Worker : tx[v].doc # d,
               Transition(w, [[t EXCEPT !.stage = "ingest"] EXCEPT
                                !.doc = d, !.row = [key |-> t.key, by |-> NoDoc]],
                          "registered", "write")
        PROVE  LifecycleInv'
    <3> DEFINE u == [[t EXCEPT !.stage = "ingest"] EXCEPT
                       !.doc = d, !.row = [key |-> t.key, by |-> NoDoc]]
    <3>1. u \in Transaction
      <4>1. [key |-> t.key, by |-> NoDoc] \in Rows
        BY <2>1 DEF Rows
      <4> QED BY <1>1, <4>1 DEF Transaction
    <3>2. /\ u.op = t.op /\ u.stage = "ingest" /\ u.doc = d /\ u.key = t.key
          /\ u.owner = t.owner /\ u.recs = t.recs /\ u.then = t.then
          /\ u.row = [key |-> t.key, by |-> NoDoc]
      BY <1>1 DEF Transaction
    <3> HIDE DEF u
    <3>3. KeepsApart(w, u)
      BY <2>3, <3>2 DEF KeepsApart, Claims
    <3>4. MayGo(u, "write")
      BY <1>1, <2>1, <3>2 DEF MayGo, Placed
    <3>5. Transition(w, u, "registered", "write")
      BY <2>3 DEF u
    <3>6. "registered" \in State /\ "write" \in Onward
      BY DEF State, Onward
    <3>7. UNCHANGED <<docs, trail, texts, index, objects, lock, started>>
      BY <1>5 DEF Find
    <3> QED BY <3>1, <3>2, <3>3, <3>4, <3>5, <3>6, <3>7, TransitionKeeps
  <2>4. [t EXCEPT !.stage = "ingest"].key = t.key
    BY <1>1 DEF Transaction
  <2>5. LiveFor(t.key) \subseteq Doc
    BY DEF LiveFor
  <2>6. \/ \E d \in LiveFor(t.key) :
             Set(w, [[t EXCEPT !.stage = "ingest"] EXCEPT !.doc = d, !.pc = "write"])
        \/ /\ LiveFor(t.key) = {} /\ KeyFree(w, t.key)
           /\ \E d \in Doc :
                /\ ~Exists(d) /\ \A v \in Worker : tx[v].doc # d
                /\ Transition(w, [[t EXCEPT !.stage = "ingest"] EXCEPT
                                    !.doc = d, !.row = [key |-> t.key, by |-> NoDoc]],
                              "registered", "write")
    BY <1>5, <2>4, Zenon DEF Find
  <2> QED BY <2>2, <2>3, <2>5, <2>6
<1>6. CASE WriteOriginal(w)
  <2>1. t.pc = "write" /\ t.key \in Key
    BY <1>1, <1>6 DEF WriteOriginal, At, Placed, Delivering
  <2> QED BY <1>1, <1>6, <2>1, GoesOn DEF WriteOriginal, Place, Delivering
<1>7. CASE ReadState(w)
  <2>1. t.pc = "read" /\ t.op = "deliver" /\ t.doc \in Doc
    BY <1>1, <1>7 DEF ReadState, At, Placed, Delivering
  <2>2. CurrentState(t) \in State \cup {Unborn}
    BY <1>1, <2>1, StateTyped DEF LifecycleInv
  <2>3. PICK p \in {"profile", "extract", "anonymize", "index", "commit", "raise"} :
          Set(w, [t EXCEPT !.state = CurrentState(t), !.pc = p])
    BY <1>7 DEF ReadState
  <2> QED BY <1>1, <1>7, <2>1, <2>2, <2>3, GoesOn DEF ReadState, Place
<1>8. CASE Profile(w) \/ Extract(w) \/ Indexed(w)
  <2>1. t.pc \in {"profile", "extract", "indexed"} /\ t.op = "deliver"
    BY <1>1, <1>8 DEF Profile, Extract, Indexed, At, Placed, Delivering
  <2>2. PICK to \in State, then \in {"commit", "extract", "anonymize"} : Transition(w, t, to, then)
    BY <1>8 DEF Profile, Extract, Indexed, State
  <2>3. then \in Onward /\ MayGo(t, then) /\ KeepsApart(w, t)
    BY <2>1, <2>2, OwnMayGo DEF Onward, KeepsApart
  <2> QED BY <1>1, <1>8, <2>2, <2>3, TransitionKeeps DEF Profile, Extract, Indexed
<1>9. CASE Anonymize(w)
  <2> DEFINE u == [t EXCEPT !.text = "put"]
  <2>1. t.pc = "anonymize" /\ t.op = "deliver"
    BY <1>1, <1>9 DEF Anonymize, At, Placed, Delivering
  <2>2. /\ u \in Transaction
        /\ u.op = t.op /\ u.stage = t.stage /\ u.doc = t.doc /\ u.key = t.key
        /\ u.owner = t.owner /\ u.recs = t.recs /\ u.then = t.then /\ u.row = t.row
    BY <1>1 DEF Transaction
  <2> HIDE DEF u
  <2>3. MayGo(u, "index") /\ KeepsApart(w, u)
    BY <1>1, <2>1, <2>2 DEF MayGo, Placed, KeepsApart
  <2> QED BY <1>9, <2>2, <2>3, TransitionKeeps DEF Anonymize, u, Onward, State
<1>10. CASE Index(w)
  <2>1. t.pc = "index" /\ t.op = "deliver" /\ t.key \in Key
    BY <1>1, <1>10 DEF Index, At, Placed, Delivering
  <2> QED BY <1>1, <1>10, <2>1, GoesOn DEF Index, Place
<1> QED BY <1>3, <1>4, <1>5, <1>6, <1>7, <1>8, <1>9, <1>10

\* recover: its row claims the OCR content only when no other transaction does and
\* no committed live document has it.
LEMMA RecoveryKeeps ==
  ASSUME LifecycleInv, NEW w \in Worker, Recover(w) \/ Repoint(w) \/ Retire(w)
  PROVE  LifecycleInv'
<1> DEFINE t == tx[w]
<1>1. /\ t \in Transaction /\ Placed(t) /\ started \in 0 .. MaxOps
      /\ docs \in [Doc -> Rows] /\ index \in [Doc -> Key \cup {NoKey}] /\ objects \subseteq Key
  BY DEF LifecycleInv, TypeOK
<1>2. t.pc \in {"recover", "repoint", "retire"} /\ t.op = "deliver" /\ t.key \in Key /\ t.doc \in Doc
  BY <1>1 DEF Recover, Repoint, Retire, At, Placed, Delivering
<1>3. OcrOf[t.key] \in Key \cup {NoKey}
  BY <1>2, ConstantsAssumption
<1>4. CASE Recover(w)
  <2>1. CASE Set(w, [t EXCEPT !.pc = "raise"]) /\ UNCHANGED objects
    BY <1>1, <1>2, <1>4, <2>1, GoesOn DEF Recover, Place, Delivering
  <2>2. CASE Event(w, t, CurrentState(t), "commit") /\ UNCHANGED objects
    <3>1. MayGo(t, "commit") /\ KeepsApart(w, t)
      BY <1>2, OwnMayGo DEF Onward, KeepsApart
    <3>2. CurrentState(t) \in State \cup {Unborn}
      BY <1>1, <1>2, StateTyped DEF LifecycleInv
    <3> QED BY <1>1, <1>4, <2>2, <3>1, <3>2, EventKeeps DEF Recover
  <2>3. CASE /\ OcrOf[t.key] # NoKey /\ objects' = objects \cup {OcrOf[t.key]}
             /\ Set(w, [t EXCEPT !.state = CurrentState(t), !.pc = "repoint"])
    <3>1. CurrentState(t) \in State \cup {Unborn}
      BY <1>1, <1>2, StateTyped DEF LifecycleInv
    <3>2. "repoint" \in Place
      BY DEF Place
    <3> QED BY <1>1, <1>2, <1>3, <1>4, <2>3, <3>1, <3>2, GoesOn DEF Recover
  <2> QED BY <1>4, <2>1, <2>2, <2>3 DEF Recover
<1>5. CASE Repoint(w)
  <2>1. OcrOf[t.key] \in Key
    BY <1>1, <1>5 DEF Repoint, At, Placed
  <2>2. UNCHANGED <<docs, trail, texts, index, objects, lock, started>>
    BY <1>5 DEF Repoint
  <2>3. ASSUME NEW owner \in LiveFor(OcrOf[t.key]) \ {t.doc},
               Transition(w, [t EXCEPT !.owner = owner], "superseded", "retire")
        PROVE  LifecycleInv'
    <3> DEFINE u == [t EXCEPT !.owner = owner]
    <3>1. owner \in Doc
      BY DEF LiveFor
    <3>2. /\ u \in Transaction
          /\ u.op = t.op /\ u.stage = t.stage /\ u.doc = t.doc /\ u.key = t.key
          /\ u.owner = owner /\ u.recs = t.recs /\ u.then = t.then /\ u.row = t.row
      BY <1>1, <3>1 DEF Transaction
    <3> HIDE DEF u
    <3>3. MayGo(u, "retire") /\ KeepsApart(w, u)
      BY <1>2, <3>1, <3>2 DEF MayGo, KeepsApart
    <3>4. Transition(w, u, "superseded", "retire")
      BY <2>3 DEF u
    <3>5. "superseded" \in State /\ "retire" \in Onward
      BY DEF State, Onward
    <3> QED BY <2>2, <3>2, <3>3, <3>4, <3>5, TransitionKeeps
  <2>4. ASSUME LiveFor(OcrOf[t.key]) \subseteq {t.doc}, KeyFree(w, OcrOf[t.key]), RowFree(w),
               Transition(w, [t EXCEPT !.row = [docs[t.doc] EXCEPT !.key = OcrOf[t.key]],
                                       !.key = OcrOf[t.key]], "extractable", "commit")
        PROVE  LifecycleInv'
    <3> DEFINE u == [t EXCEPT !.row = [docs[t.doc] EXCEPT !.key = OcrOf[t.key]],
                              !.key = OcrOf[t.key]]
    <3>1. /\ [docs[t.doc] EXCEPT !.key = OcrOf[t.key]] \in Rows
          /\ [docs[t.doc] EXCEPT !.key = OcrOf[t.key]].key = OcrOf[t.key]
      BY <1>1, <1>2, <2>1 DEF Rows
    <3>2. /\ u \in Transaction
          /\ u.op = t.op /\ u.stage = t.stage /\ u.doc = t.doc /\ u.key = OcrOf[t.key]
          /\ u.owner = t.owner /\ u.recs = t.recs /\ u.then = t.then
          /\ u.row.key = OcrOf[t.key]
      BY <1>1, <2>1, <3>1 DEF Transaction
    <3> HIDE DEF u
    <3>3. MayGo(u, "commit")
      BY <1>1, <1>2, <2>1, <3>2 DEF MayGo, Placed
    <3>4. KeepsApart(w, u)
      BY <2>4, <3>2 DEF KeepsApart, Claims, RowFree
    <3>5. Transition(w, u, "extractable", "commit")
      BY <2>4 DEF u
    <3>6. "extractable" \in State /\ "commit" \in Onward
      BY DEF State, Onward
    <3> QED BY <2>2, <3>2, <3>3, <3>4, <3>5, <3>6, TransitionKeeps
  <2> QED BY <1>5, <2>3, <2>4, Zenon DEF Repoint
<1>6. CASE Retire(w)
  <2>1. t.pc = "retire" /\ t.owner \in Doc /\ RowFree(w)
    BY <1>1, <1>6 DEF Retire, At, Placed
  <2>2. UNCHANGED <<docs, trail, texts, index, objects, lock, started>>
    BY <1>6 DEF Retire
  <2>3. CASE Set(w, [t EXCEPT !.pc = "raise"])
    BY <1>1, <1>2, <2>1, <2>2, <2>3, GoesOn DEF Place, Delivering
  <2>4. CASE Set(w, [t EXCEPT !.row = [docs[t.doc] EXCEPT !.by = t.owner], !.pc = "commit"])
    <3> DEFINE u == [t EXCEPT !.row = [docs[t.doc] EXCEPT !.by = t.owner], !.pc = "commit"]
    <3>1. /\ [docs[t.doc] EXCEPT !.by = t.owner] \in Rows
          /\ [docs[t.doc] EXCEPT !.by = t.owner].by = t.owner
      BY <1>1, <1>2, <2>1 DEF Rows
    <3>2. "commit" \in Place
      BY DEF Place
    <3>3. /\ u \in Transaction
          /\ u.op = t.op /\ u.stage = t.stage /\ u.doc = t.doc /\ u.key = t.key
          /\ u.owner = t.owner /\ u.recs = t.recs /\ u.then = t.then
          /\ u.row.by = t.owner /\ u.pc = "commit"
      BY <1>1, <3>1, <3>2 DEF Transaction
    <3> HIDE DEF u
    <3>4. Placed(u)
      BY <1>1, <1>2, <2>1, <3>3 DEF Placed
    <3>5. KeepsApart(w, u)
      BY <2>1, <3>3, ConstantsAssumption DEF KeepsApart, Claims, RowFree
    <3>6. KeepsLock(w, u)
      BY <2>2, <3>3 DEF KeepsLock, LifecycleInv, TypeOK
    <3> QED BY <1>1, <2>2, <2>4, <3>3, <3>4, <3>5, <3>6, WorkerMoves DEF u
  <2> QED BY <1>6, <2>3, <2>4 DEF Retire
<1> QED BY <1>4, <1>5, <1>6

Deletes(w) ==
  Unindex(w) \/ FindObject(w) \/ JudgeObject(w) \/ RemoveObject(w) \/ Forget(w)

\* delete_document: its row claims no content.
LEMMA DeletionKeeps ==
  ASSUME LifecycleInv, NEW w \in Worker, Deletes(w)
  PROVE  LifecycleInv'
<1> DEFINE t == tx[w]
<1>1. /\ t \in Transaction /\ Placed(t) /\ docs \in [Doc -> Rows]
      /\ index \in [Doc -> Key \cup {NoKey}] /\ objects \subseteq Key
  BY DEF LifecycleInv, TypeOK
<1>2. t.pc \in {"unindex", "drop", "claim", "remove", "forget"} /\ t.doc \in Doc /\ t.op = "delete"
  BY <1>1 DEF Deletes, Unindex, FindObject, JudgeObject, RemoveObject, Forget, At, Placed
<1>3. CASE Unindex(w)
  BY <1>1, <1>2, <1>3, GoesOn DEF Unindex, Place, Delivering
<1>4. CASE FindObject(w) \/ JudgeObject(w) \/ RemoveObject(w)
  <2>1. PICK p \in {"claim", "remove", "forget"} : Set(w, [t EXCEPT !.pc = p])
    BY <1>4 DEF FindObject, JudgeObject, RemoveObject
  <2>2. UNCHANGED <<docs, trail, texts, index, lock, started>> /\ objects' \subseteq Key
    BY <1>1, <1>4 DEF FindObject, JudgeObject, RemoveObject
  <2> QED BY <1>1, <1>2, <2>1, <2>2, GoesOn DEF Place, Delivering
<1>5. CASE Forget(w)
  <2> DEFINE text == IF t.doc \in texts THEN "gone" ELSE "same"
             row  == IF t.state = "deleted" THEN NoRow
                     ELSE [docs[t.doc] EXCEPT !.key = Released]
             u    == [t EXCEPT !.text = text, !.row = row]
  <2>1. row \in Rows /\ (row = NoRow \/ (row.key = Released /\ RowFree(w)))
    <3>1. NoRow \in Rows
      BY DEF Rows, NoRow
    <3>2. /\ [docs[t.doc] EXCEPT !.key = Released] \in Rows
          /\ [docs[t.doc] EXCEPT !.key = Released].key = Released
      BY <1>1, <1>2 DEF Rows
    <3>3. t.state # "deleted" => RowFree(w)
      BY <1>5 DEF Forget, ForgetFree
    <3>4. CASE t.state = "deleted"
      BY <3>1, <3>4
    <3>5. CASE t.state # "deleted"
      BY <3>2, <3>3, <3>5
    <3> QED BY <3>4, <3>5
  <2>2. text \in {"same", "put", "gone"}
    OBVIOUS
  <2> HIDE DEF text, row
  <2>3. /\ u \in Transaction
        /\ u.op = t.op /\ u.stage = t.stage /\ u.doc = t.doc /\ u.key = t.key
        /\ u.owner = t.owner /\ u.recs = t.recs /\ u.then = t.then /\ u.row = row
    <3> DEFINE v == [t EXCEPT !.text = text]
    <3>1. v \in Transaction BY <1>1, <2>2 DEF Transaction
    <3>2. u = [v EXCEPT !.row = row] BY <1>1 DEF Transaction
    <3> HIDE DEF u, v
    <3>3. u \in Transaction BY <2>1, <3>1, <3>2 DEF Transaction
    <3> USE DEF u
    <3> QED BY <1>1, <3>3 DEF Transaction
  <2> HIDE DEF u
  <2>4. MayGo(u, "commit")
    BY <1>1, <1>2, <2>3 DEF MayGo, Placed
  <2>5. KeepsApart(w, u)
    BY <2>1, <2>3, ConstantsAssumption DEF KeepsApart, Claims, RowFree
  <2>6. Transition(w, u, "deleted", "commit")
    BY <1>5 DEF Forget, u, row, text
  <2>7. "deleted" \in State /\ "commit" \in Onward
    BY DEF State, Onward
  <2> QED BY <1>5, <2>3, <2>4, <2>5, <2>6, <2>7, TransitionKeeps DEF Forget
<1> QED BY <1>3, <1>4, <1>5 DEF Deletes

\* reanonymize and note_failure claim no content.
LEMMA ReanonymizationKeeps ==
  ASSUME LifecycleInv, NEW w \in Worker, Reindex(w) \/ Retext(w) \/ NoteFailure(w)
  PROVE  LifecycleInv'
<1> DEFINE t == tx[w]
<1>1. /\ t \in Transaction /\ Placed(t) /\ started \in 0 .. MaxOps
      /\ index \in [Doc -> Key \cup {NoKey}] /\ objects \subseteq Key
  BY DEF LifecycleInv, TypeOK
<1>2. t.pc \in {"reindex", "retext", "note"} /\ t.doc \in Doc
  BY <1>1 DEF Reindex, Retext, NoteFailure, At, Placed
<1>3. CASE Reindex(w)
  <2>1. t.key \in Key
    BY <1>1, <1>3 DEF Reindex, At, Placed
  <2> QED BY <1>1, <1>2, <1>3, <2>1, GoesOn DEF Reindex, Place, Delivering
<1>4. CASE Retext(w)
  <2> DEFINE u == [t EXCEPT !.text = "put"]
  <2>1. /\ u \in Transaction
        /\ u.op = t.op /\ u.stage = t.stage /\ u.doc = t.doc /\ u.key = t.key
        /\ u.owner = t.owner /\ u.recs = t.recs /\ u.then = t.then /\ u.row = t.row
    BY <1>1 DEF Transaction
  <2> HIDE DEF u
  <2>2. MayGo(u, "commit") /\ KeepsApart(w, u)
    BY <1>1, <1>2, <2>1 DEF MayGo, Placed, KeepsApart
  <2>3. Event(w, u, t.state, "commit") /\ t.state \in State \cup {Unborn}
    BY <1>1, <1>4 DEF Retext, Transaction, u
  <2> QED BY <1>1, <1>4, <2>1, <2>2, <2>3, EventKeeps DEF Retext
<1>5. CASE NoteFailure(w)
  <2>1. MayGo(t, "commit") /\ KeepsApart(w, t)
    BY <1>2, OwnMayGo DEF Onward, KeepsApart
  <2>2. CurrentState(t) \in State \cup {Unborn}
    BY <1>1, <1>2, StateTyped DEF LifecycleInv
  <2> QED BY <1>1, <1>5, <2>1, <2>2, EventKeeps DEF NoteFailure
<1> QED BY <1>3, <1>4, <1>5

\* The lock of the chain is taken from nobody.
LEMMA AppendKeeps ==
  ASSUME LifecycleInv, NEW w \in Worker, AppendRecord(w) PROVE LifecycleInv'
<1> DEFINE t == tx[w]
           record == [from |-> t.from, to |-> t.to]
           u == [t EXCEPT !.pc = t.then, !.recs = Append(@, record)]
<1>1. /\ t \in Transaction /\ Placed(t) /\ started \in 0 .. MaxOps
      /\ index \in [Doc -> Key \cup {NoKey}] /\ objects \subseteq Key
  BY DEF LifecycleInv, TypeOK
<1>2. t.pc = "append" /\ t.doc \in Doc /\ t.then \in Onward
  BY <1>1 DEF AppendRecord, At, Placed, Onward
<1>3. record \in Record /\ t.recs \in Seq(Record)
  BY <1>1 DEF Transaction, Record
<1>4. Append(t.recs, record) \in Seq(Record)
  BY <1>3
<1>5. Set(w, u)
  BY DEF AppendRecord
<1> HIDE DEF record
<1>6. /\ u \in Transaction
      /\ u.op = t.op /\ u.stage = t.stage /\ u.doc = t.doc /\ u.key = t.key
      /\ u.owner = t.owner /\ u.then = t.then /\ u.row = t.row /\ u.pc = t.then
  BY <1>1, <1>4 DEF Transaction
<1> HIDE DEF u
<1>7. Placed(u)
  BY <1>1, <1>2, <1>6 DEF Placed, Onward, Delivering
<1>8. KeepsApart(w, u)
  BY <1>6 DEF KeepsApart
<1>9. KeepsLock(w, u)
  BY ConstantsAssumption DEF KeepsLock, AppendRecord, ChainFree
<1> QED BY <1>1, <1>5, <1>6, <1>7, <1>8, <1>9, WorkerMoves DEF AppendRecord

\* A transaction that ends without a commit gives up what it claimed.
LEMMA FailureKeeps ==
  ASSUME LifecycleInv, NEW w \in Worker, Raise(w) \/ Crash(w) \/ DeadlockVictim(w)
  PROVE  LifecycleInv'
<1>1. PICK pc \in {"idle", "note"} : Abandon(w, pc) /\ (pc = "note" => tx[w].op = "reanonymize")
  BY DEF Raise, Crash, DeadlockVictim
<1>2. tx[w].op = "reanonymize" => tx[w].doc \in Doc
  <2>1. Placed(tx[w])
    BY DEF LifecycleInv
  <2> QED BY <2>1 DEF Placed, Delivering, Idle
<1> QED BY <1>1, <1>2, AbandonKeeps

-----------------------------------------------------------------------------
(* Commit: what a transaction claimed becomes the document's row.          *)

\* The next transaction of _ingest_one starts with nothing written.
LEMMA AfterCommitPlaced ==
  ASSUME NEW t \in Transaction, Placed(t), t.pc = "commit"
  PROVE  LET u == AfterCommit(t)
         IN  u \in Transaction /\ Placed(u) /\ u.row = NoRow /\ u.recs = <<>>
<1> DEFINE next == [t EXCEPT !.recs = <<>>, !.row = NoRow, !.text = "same"]
<1>1. NoRow \in Rows /\ <<>> \in Seq(Record)
  BY DEF Rows, NoRow
<1>2. /\ next \in Transaction
      /\ next.op = t.op /\ next.doc = t.doc /\ next.key = t.key /\ next.stage = t.stage
      /\ next.owner = t.owner /\ next.then = t.then
      /\ next.row = NoRow /\ next.recs = <<>>
  <2> DEFINE u == [t EXCEPT !.recs = <<>>]
             v == [u EXCEPT !.row = NoRow]
  <2>1. u \in Transaction BY <1>1 DEF Transaction
  <2> HIDE DEF u
  <2>2. v \in Transaction BY <1>1, <2>1 DEF Transaction
  <2> HIDE DEF v
  <2>3. [v EXCEPT !.text = "same"] \in Transaction BY <2>2 DEF Transaction
  <2>4. next = [v EXCEPT !.text = "same"] BY <1>1 DEF Transaction, u, v
  <2>5. next \in Transaction BY <2>3, <2>4
  <2> QED BY <2>5 DEF Transaction
<1> HIDE DEF next
<1>3. ASSUME NEW u, NEW stage \in {"process", "recover", "last"},
             NEW pc \in {"read", "recover"}, t.stage # "none",
             u = [next EXCEPT !.stage = stage, !.pc = pc]
      PROVE  u \in Transaction /\ Placed(u) /\ u.row = NoRow /\ u.recs = <<>>
  <2>1. pc \in Place
    BY DEF Place
  <2>2. /\ u \in Transaction /\ u.pc = pc
        /\ u.op = t.op /\ u.doc = t.doc /\ u.key = t.key
        /\ u.owner = t.owner /\ u.then = t.then /\ u.row = NoRow /\ u.recs = <<>>
    BY <1>2, <1>3, <2>1 DEF Transaction
  <2>3. Placed(u)
    BY <1>3, <2>2 DEF Placed, Delivering
  <2> QED BY <2>2, <2>3
<1>4. \/ AfterCommit(t) = Idle
      \/ /\ t.stage # "none"
         /\ \/ AfterCommit(t) = [next EXCEPT !.stage = "process", !.pc = "read"]
            \/ AfterCommit(t) = [next EXCEPT !.stage = "recover", !.pc = "recover"]
            \/ AfterCommit(t) = [next EXCEPT !.stage = "last", !.pc = "read"]
  BY DEF AfterCommit, next
<1> QED BY <1>3, <1>4, IdleTyped

\* A commit turns a claim into a row, and the claim was exclusive.
LEMMA CommitKeeps ==
  ASSUME LifecycleInv, NEW w \in Worker, Commit(w) PROVE LifecycleInv'
<1> DEFINE t == tx[w]
           d == t.doc
           u == AfterCommit(t)
<1>1. /\ t \in Transaction /\ Placed(t) /\ docs \in [Doc -> Rows]
      /\ trail \in [Doc -> Seq(Record)] /\ texts \subseteq Doc
      /\ tx \in [Worker -> Transaction]
  BY DEF LifecycleInv, TypeOK
<1>2. t.pc = "commit" /\ d \in Doc
  BY <1>1 DEF Commit, At, Placed
<1>3. u \in Transaction /\ Placed(u) /\ u.row = NoRow /\ u.recs = <<>>
  BY <1>1, <1>2, AfterCommitPlaced
<1>4. tx' \in [Worker -> Transaction] /\ tx'[w] = u /\ \A v \in Worker \ {w} : tx'[v] = tx[v]
  BY <1>1, <1>3 DEF Commit, Set
<1>5. t.row \in Rows /\ t.recs \in Seq(Record)
  BY <1>1 DEF Transaction
<1>6. docs' \in [Doc -> Rows] /\ \A e \in Doc \ {d} : docs'[e] = docs[e]
  BY <1>1, <1>2, <1>5 DEF Commit
<1>7. TypeOK'
  <2>1. trail[d] \o t.recs \in Seq(Record)
    BY <1>1, <1>2, <1>5
  <2>2. trail' \in [Doc -> Seq(Record)]
    BY <1>1, <2>1 DEF Commit
  <2>3. texts' \subseteq Doc
    <3>1. t.text \in {"same", "put", "gone"}
      BY <1>1 DEF Transaction
    <3> QED BY <1>1, <1>2, <3>1 DEF Commit
  <2>4. lock' \in Worker \cup {NoWorker} /\ \A v \in Worker : tx'[v].recs # <<>> => lock' = v
    BY <1>3, <1>4 DEF Commit, LifecycleInv, TypeOK
  <2>5. UNCHANGED <<index, objects, started>>
    BY DEF Commit
  <2> QED BY <1>4, <1>6, <2>2, <2>3, <2>4, <2>5 DEF LifecycleInv, TypeOK
<1>8. \A v \in Worker : Placed(tx[v])'
  BY <1>3, <1>4 DEF LifecycleInv, Placed
<1>9. ASSUME NEW k \in Key PROVE
        \/ LiveFor(k)' \subseteq LiveFor(k)
        \/ Claims(t, k) /\ LiveFor(k) \subseteq {d} /\ LiveFor(k)' \subseteq {d}
  <2>1. CASE t.row = NoRow
    BY <2>1 DEF Commit, LiveFor
  <2>2. CASE t.row # NoRow
    <3>1. docs'[d] = t.row
      BY <1>1, <1>2, <2>2 DEF Commit
    <3>2. CASE Claims(t, k)
      <4>1. LiveFor(k) \subseteq {d}
        BY <3>2 DEF LifecycleInv, ClaimsApart
      <4> QED BY <1>6, <3>2, <4>1 DEF LiveFor
    <3>3. CASE ~Claims(t, k)
      BY <1>6, <3>1, <3>3 DEF LiveFor, Claims
    <3> QED BY <3>2, <3>3
  <2> QED BY <2>1, <2>2
<1>10. LiveApart'
  <2>1. ASSUME NEW k \in Key, NEW a \in LiveFor(k)', NEW b \in LiveFor(k)' PROVE a = b
    BY <1>9 DEF LifecycleInv, LiveApart
  <2> QED BY <2>1 DEF LiveApart
<1>11. ClaimsApart'
  <2>1. NoRow.key \notin Key
    BY ConstantsAssumption DEF NoRow
  <2>2. \A k \in Key : ~Claims(u, k)
    BY <1>3, <2>1 DEF Claims
  <2>3. \A v \in Worker, k \in Key : Claims(tx[v], k)' <=> Claims(tx'[v], k)
    BY DEF Claims
  <2>4. \A a, b \in Worker :
          (a # b /\ tx'[a].row # NoRow /\ tx'[b].row # NoRow) => tx'[a].doc # tx'[b].doc
    BY <1>3, <1>4 DEF LifecycleInv, ClaimsApart
  <2>5. \A a, b \in Worker, k \in Key : (Claims(tx'[a], k) /\ Claims(tx'[b], k)) => a = b
    BY <1>4, <2>2 DEF LifecycleInv, ClaimsApart
  <2>6. ASSUME NEW a \in Worker, NEW k \in Key, Claims(tx'[a], k)
        PROVE  LiveFor(k)' \subseteq {tx'[a].doc}
    <3>1. a # w /\ tx'[a] = tx[a]
      BY <1>4, <2>2, <2>6
    <3>2. LiveFor(k) \subseteq {tx[a].doc} /\ ~Claims(t, k)
      BY <2>6, <3>1 DEF LifecycleInv, ClaimsApart
    <3> QED BY <1>9, <3>1, <3>2
  <2> QED BY <2>3, <2>4, <2>5, <2>6 DEF ClaimsApart
<1> QED BY <1>7, <1>8, <1>10, <1>11 DEF LifecycleInv

-----------------------------------------------------------------------------
\* The invariant holds of every behaviour of deliveries, deletions,
\* re-anonymizations, events and failures.
THEOREM LifecycleInvariant == Spec => []LifecycleInv
<1>1. Init => LifecycleInv
  <2> SUFFICES ASSUME Init PROVE LifecycleInv
    OBVIOUS
  <2>1. NoRow \in Rows /\ NoRow.key \notin Key /\ NoDoc \notin Doc
    BY ConstantsAssumption DEF NoRow, Rows
  <2>2. TypeOK
    BY <2>1, IdleTyped, ConstantsAssumption DEF Init, TypeOK
  <2>3. \A w \in Worker : Placed(tx[w])
    BY IdleTyped DEF Init
  <2>4. ClaimsApart
    BY <2>1, IdleTyped DEF Init, ClaimsApart, Claims
  <2>5. LiveApart
    BY <2>1 DEF Init, LiveApart, LiveFor
  <2> QED BY <2>2, <2>3, <2>4, <2>5 DEF LifecycleInv
<1>2. LifecycleInv /\ [Next]_vars => LifecycleInv'
  <2> SUFFICES ASSUME LifecycleInv, [Next]_vars PROVE LifecycleInv'
    OBVIOUS
  <2>1. ASSUME NEW w \in Worker, Request(w) \/ Step(w) \/ Crash(w) PROVE LifecycleInv'
    BY <2>1, RequestKeeps, DeliveryKeeps, RecoveryKeeps, DeletionKeeps,
       ReanonymizationKeeps, AppendKeeps, CommitKeeps, FailureKeeps DEF Step, Deletes
  <2>2. CASE UNCHANGED vars
    BY <2>2 DEF vars, LifecycleInv, TypeOK, Placed, ClaimsApart, Claims, LiveApart, LiveFor
  <2> QED BY <2>1, <2>2 DEF Next
<1> QED BY <1>1, <1>2, PTL DEF Spec

\* Every variable keeps its type, and whoever has uncommitted audit records holds
\* the lock of the chain: audit.append releases it with the transaction only.
THEOREM LifecycleTypes == Spec => []TypeOK
<1>1. LifecycleInv => TypeOK
  BY DEF LifecycleInv
<1> QED BY <1>1, LifecycleInvariant, PTL

\* register_live and recover: however many deliveries and recoveries of one content
\* race, crash and wait, it never has two live documents.
THEOREM NoTwins == Spec => []OneLivePerKey
<1>1. LifecycleInv => OneLivePerKey
  <2> SUFFICES ASSUME LifecycleInv, NEW d \in Doc, NEW e \in Doc, d # e,
                      docs[d].by = NoDoc, docs[e].by = NoDoc, docs[d].key = docs[e].key
               PROVE  docs[d].key \in {NoKey, Released}
    BY DEF OneLivePerKey
  <2>1. docs[d].key \notin Key
    BY DEF LifecycleInv, LiveApart, LiveFor
  <2>2. docs[d] \in Rows
    BY DEF LifecycleInv, TypeOK
  <2> QED BY <2>1, <2>2 DEF Rows
<1> QED BY <1>1, LifecycleInvariant, PTL

-----------------------------------------------------------------------------
(* What the actions leave in the hands of a worker.                        *)

\* u is t but for its place in the code and what it remembers of a state.
SameHands(u, t) ==
  /\ u.op = t.op /\ u.doc = t.doc /\ u.key = t.key /\ u.row = t.row
  /\ u.text = t.text /\ u.recs = t.recs

\* Where a transition to the state `to` leaves a worker.
Went(u, to, then) ==
  \/ u.pc = then /\ CurrentState(u) = to
  \/ /\ u.pc = "append" /\ u.then = then /\ u.to = to /\ u.from = CurrentState(u)
     /\ IsAllowed(u.from, to)
  \/ u.pc = "raise"

\* pipeline.transition changes the place only.
LEMMA TransitionHands ==
  ASSUME NEW w \in Worker, NEW t, DOMAIN t = DOMAIN Idle, NEW to, NEW then, Transition(w, t, to, then)
  PROVE  \E u : /\ Set(w, u) /\ DOMAIN u = DOMAIN Idle /\ SameHands(u, t) /\ u.owner = t.owner
                /\ Went(u, to, then)
<1> DEFINE next == [t EXCEPT !.state = to, !.from = CurrentState(t), !.to = to, !.then = then]
           a == [next EXCEPT !.pc = then]
           b == [next EXCEPT !.pc = "append"]
           c == [t EXCEPT !.pc = "raise"]
<1>1. \/ CurrentState(t) = to /\ Set(w, a)
      \/ IsAllowed(CurrentState(t), to) /\ Set(w, b)
      \/ Set(w, c)
  BY DEF Transition
<1>2. /\ SameHands(a, t) /\ a.pc = then
      /\ SameHands(b, t) /\ b.pc = "append" /\ b.then = then /\ b.to = to /\ b.from = CurrentState(t)
      /\ SameHands(c, t) /\ c.pc = "raise"
      /\ DOMAIN a = DOMAIN Idle /\ DOMAIN b = DOMAIN Idle /\ DOMAIN c = DOMAIN Idle
      /\ a.owner = t.owner /\ b.owner = t.owner /\ c.owner = t.owner
  BY DEF SameHands, Idle
<1>3. \A u : SameHands(u, t) => CurrentState(u) = CurrentState(t)
  BY DEF SameHands, CurrentState
<1> HIDE DEF a, b, c
<1> QED BY <1>1, <1>2, <1>3 DEF Went

\* So does an event, with the state it keeps.
LEMMA EventHands ==
  ASSUME NEW w \in Worker, NEW t, DOMAIN t = DOMAIN Idle, NEW state, NEW then, Event(w, t, state, then)
  PROVE  \E u : /\ Set(w, u) /\ DOMAIN u = DOMAIN Idle /\ SameHands(u, t)
                /\ u.pc = "append" /\ u.then = then /\ u.from = state /\ u.to = state
<1> DEFINE a == [t EXCEPT !.pc = "append", !.state = state,
                          !.from = state, !.to = state, !.then = then]
<1>1. /\ DOMAIN a = DOMAIN Idle /\ SameHands(a, t)
      /\ a.pc = "append" /\ a.then = then /\ a.from = state /\ a.to = state
  BY DEF SameHands, Idle
<1>2. Set(w, a)
  BY DEF Event
<1> HIDE DEF a
<1> QED BY <1>1, <1>2

\* register_live: the live document of its bytes, or a new one.
LEMMA FindHands ==
  ASSUME NEW w \in Worker, NEW t, t = tx[w], DOMAIN t = DOMAIN Idle, Find(w)
  PROVE  \E u : /\ Set(w, u) /\ DOMAIN u = DOMAIN Idle /\ t.pc = "find"
                /\ u.op = t.op /\ u.key = t.key /\ u.text = t.text /\ u.recs = t.recs
                /\ \/ u.doc \in LiveFor(t.key) /\ u.row = t.row /\ u.pc = "write"
                   \/ /\ u.doc \in Doc /\ ~Exists(u.doc) /\ LiveFor(t.key) = {}
                      /\ \A v \in Worker : tx[v].doc # u.doc
                      /\ u.row = [key |-> t.key, by |-> NoDoc] /\ Went(u, "registered", "write")
<1> DEFINE f == [t EXCEPT !.stage = "ingest"]
<1>1. DOMAIN f = DOMAIN Idle /\ SameHands(f, t)
  BY DEF SameHands, Idle
<1>2. \/ \E d \in LiveFor(f.key) : Set(w, [f EXCEPT !.doc = d, !.pc = "write"])
      \/ /\ LiveFor(f.key) = {}
         /\ \E d \in Doc :
              /\ ~Exists(d) /\ \A v \in Worker : tx[v].doc # d
              /\ Transition(w, [f EXCEPT !.doc = d, !.row = [key |-> f.key, by |-> NoDoc]],
                            "registered", "write")
  BY Zenon DEF Find
<1>3. t.pc = "find"
  BY DEF Find, At
<1> HIDE DEF f
<1>4. ASSUME NEW d \in LiveFor(f.key), Set(w, [f EXCEPT !.doc = d, !.pc = "write"])
      PROVE  \E u : /\ Set(w, u) /\ DOMAIN u = DOMAIN Idle /\ u.doc = d /\ u.pc = "write"
                    /\ u.op = f.op /\ u.key = f.key /\ u.text = f.text /\ u.recs = f.recs
                    /\ u.row = f.row
  <2> DEFINE g == [f EXCEPT !.doc = d, !.pc = "write"]
  <2>1. /\ DOMAIN g = DOMAIN Idle /\ g.doc = d /\ g.pc = "write" /\ g.op = f.op /\ g.key = f.key
        /\ g.text = f.text /\ g.recs = f.recs /\ g.row = f.row
    BY <1>1 DEF Idle
  <2>2. Set(w, g)
    BY <1>4
  <2> HIDE DEF g
  <2> QED BY <2>1, <2>2
<1>5. ASSUME NEW d \in Doc,
             Transition(w, [f EXCEPT !.doc = d, !.row = [key |-> f.key, by |-> NoDoc]],
                        "registered", "write")
      PROVE  \E u : /\ Set(w, u) /\ DOMAIN u = DOMAIN Idle /\ u.doc = d
                    /\ u.op = f.op /\ u.key = f.key /\ u.text = f.text /\ u.recs = f.recs
                    /\ u.row = [key |-> f.key, by |-> NoDoc] /\ Went(u, "registered", "write")
  <2> DEFINE g == [f EXCEPT !.doc = d, !.row = [key |-> f.key, by |-> NoDoc]]
  <2>1. /\ DOMAIN g = DOMAIN Idle /\ g.doc = d /\ g.op = f.op /\ g.key = f.key
        /\ g.text = f.text /\ g.recs = f.recs /\ g.row = [key |-> f.key, by |-> NoDoc]
    BY <1>1 DEF Idle
  <2>2. Transition(w, g, "registered", "write")
    BY <1>5
  <2> HIDE DEF g
  <2>3. PICK u : /\ Set(w, u) /\ DOMAIN u = DOMAIN Idle /\ SameHands(u, g)
                 /\ Went(u, "registered", "write")
    BY <2>1, <2>2, TransitionHands
  <2> QED BY <2>1, <2>3 DEF SameHands
<1>6. /\ f.key = t.key /\ f.op = t.op /\ f.text = t.text /\ f.recs = t.recs /\ f.row = t.row
  BY <1>1 DEF SameHands
<1>7. CASE \E d \in LiveFor(f.key) : Set(w, [f EXCEPT !.doc = d, !.pc = "write"])
  <2>1. PICK d \in LiveFor(f.key) : Set(w, [f EXCEPT !.doc = d, !.pc = "write"])
    BY <1>7
  <2>2. PICK u : /\ Set(w, u) /\ DOMAIN u = DOMAIN Idle /\ u.doc = d /\ u.pc = "write"
                 /\ u.op = f.op /\ u.key = f.key /\ u.text = f.text /\ u.recs = f.recs
                 /\ u.row = f.row
    BY <1>4, <2>1
  <2>3. u.doc \in LiveFor(t.key)
    BY <1>6, <2>1, <2>2
  <2> QED BY <1>3, <1>6, <2>2, <2>3
<1>8. CASE /\ LiveFor(f.key) = {}
           /\ \E d \in Doc :
                /\ ~Exists(d) /\ \A v \in Worker : tx[v].doc # d
                /\ Transition(w, [f EXCEPT !.doc = d, !.row = [key |-> f.key, by |-> NoDoc]],
                              "registered", "write")
  <2>1. PICK d \in Doc :
          /\ ~Exists(d) /\ \A v \in Worker : tx[v].doc # d
          /\ Transition(w, [f EXCEPT !.doc = d, !.row = [key |-> f.key, by |-> NoDoc]],
                        "registered", "write")
    BY <1>8
  <2>2. PICK u : /\ Set(w, u) /\ DOMAIN u = DOMAIN Idle /\ u.doc = d
                 /\ u.op = f.op /\ u.key = f.key /\ u.text = f.text /\ u.recs = f.recs
                 /\ u.row = [key |-> f.key, by |-> NoDoc] /\ Went(u, "registered", "write")
    BY <1>5, <2>1
  <2> QED BY <1>3, <1>6, <1>8, <2>1, <2>2
<1> QED BY <1>2, <1>7, <1>8

\* recover: the document retires for the owner of the OCR'd bytes, or moves to them.
LEMMA RepointHands ==
  ASSUME NEW w \in Worker, NEW t, t = tx[w], DOMAIN t = DOMAIN Idle, Repoint(w)
  PROVE  \E u : /\ Set(w, u) /\ DOMAIN u = DOMAIN Idle /\ t.pc = "repoint"
                /\ u.op = t.op /\ u.doc = t.doc /\ u.text = t.text /\ u.recs = t.recs
                /\ \/ /\ u.key = t.key /\ u.row = t.row /\ Went(u, "superseded", "retire")
                      /\ u.owner \in LiveFor(OcrOf[t.key]) \ {t.doc}
                   \/ /\ u.key = OcrOf[t.key] /\ u.row = [docs[t.doc] EXCEPT !.key = OcrOf[t.key]]
                      /\ Went(u, "extractable", "commit")
                      /\ LiveFor(OcrOf[t.key]) \subseteq {t.doc} /\ RowFree(w)
<1> DEFINE a(o) == [t EXCEPT !.owner = o]
           b == [t EXCEPT !.row = [docs[t.doc] EXCEPT !.key = OcrOf[t.key]], !.key = OcrOf[t.key]]
<1>1. \/ \E o \in LiveFor(OcrOf[t.key]) \ {t.doc} : Transition(w, a(o), "superseded", "retire")
      \/ /\ LiveFor(OcrOf[t.key]) \subseteq {t.doc} /\ RowFree(w)
         /\ Transition(w, b, "extractable", "commit")
  BY Zenon DEF Repoint
<1>2. \A o : DOMAIN a(o) = DOMAIN Idle /\ SameHands(a(o), t) /\ a(o).owner = o
  BY DEF SameHands, Idle
<1>3. /\ DOMAIN b = DOMAIN Idle /\ b.op = t.op /\ b.doc = t.doc /\ b.text = t.text
      /\ b.recs = t.recs /\ b.key = OcrOf[t.key]
      /\ b.row = [docs[t.doc] EXCEPT !.key = OcrOf[t.key]]
  BY DEF Idle
<1>4. t.pc = "repoint"
  BY DEF Repoint, At
<1> HIDE DEF a, b
<1>5. ASSUME NEW o, Transition(w, a(o), "superseded", "retire")
      PROVE  \E u : /\ Set(w, u) /\ DOMAIN u = DOMAIN Idle /\ SameHands(u, t) /\ u.owner = o
                    /\ Went(u, "superseded", "retire")
  <2>1. PICK g : g = a(o)
    OBVIOUS
  <2>2. DOMAIN g = DOMAIN Idle /\ SameHands(g, t) /\ g.owner = o /\ Transition(w, g, "superseded", "retire")
    BY <1>2, <1>5, <2>1
  <2>3. PICK u : /\ Set(w, u) /\ DOMAIN u = DOMAIN Idle /\ SameHands(u, g) /\ u.owner = g.owner
                 /\ Went(u, "superseded", "retire")
    BY <2>2, TransitionHands
  <2> QED BY <2>2, <2>3 DEF SameHands
<1>6. ASSUME Transition(w, b, "extractable", "commit")
      PROVE  \E u : /\ Set(w, u) /\ DOMAIN u = DOMAIN Idle /\ SameHands(u, b)
                    /\ Went(u, "extractable", "commit")
  BY <1>3, <1>6, TransitionHands
<1>7. CASE \E o \in LiveFor(OcrOf[t.key]) \ {t.doc} : Transition(w, a(o), "superseded", "retire")
  <2>1. PICK o \in LiveFor(OcrOf[t.key]) \ {t.doc} : Transition(w, a(o), "superseded", "retire")
    BY <1>7
  <2>2. PICK u : /\ Set(w, u) /\ DOMAIN u = DOMAIN Idle /\ SameHands(u, t) /\ u.owner = o
                 /\ Went(u, "superseded", "retire")
    BY <1>5, <2>1
  <2> QED BY <1>4, <2>2 DEF SameHands
<1>8. CASE /\ LiveFor(OcrOf[t.key]) \subseteq {t.doc} /\ RowFree(w)
           /\ Transition(w, b, "extractable", "commit")
  <2>1. PICK u : /\ Set(w, u) /\ DOMAIN u = DOMAIN Idle /\ SameHands(u, b)
                 /\ Went(u, "extractable", "commit")
    BY <1>6, <1>8
  <2> QED BY <1>3, <1>4, <1>8, <2>1 DEF SameHands
<1> QED BY <1>1, <1>7, <1>8

\* supersede: its own row names the owner, unless it names another.
LEMMA RetireHands ==
  ASSUME NEW w \in Worker, NEW t, t = tx[w], DOMAIN t = DOMAIN Idle, Retire(w)
  PROVE  \E u : /\ Set(w, u) /\ DOMAIN u = DOMAIN Idle /\ t.pc = "retire"
                /\ u.op = t.op /\ u.doc = t.doc /\ u.key = t.key
                /\ u.text = t.text /\ u.recs = t.recs
                /\ \/ u.pc = "raise" /\ u.row = t.row
                   \/ u.pc = "commit" /\ u.row = [docs[t.doc] EXCEPT !.by = t.owner]
<1> DEFINE a == [t EXCEPT !.row = [docs[t.doc] EXCEPT !.by = t.owner], !.pc = "commit"]
           b == [t EXCEPT !.pc = "raise"]
<1>1. /\ DOMAIN a = DOMAIN Idle /\ DOMAIN b = DOMAIN Idle /\ SameHands(b, t) /\ b.pc = "raise"
      /\ a.op = t.op /\ a.doc = t.doc /\ a.key = t.key /\ a.text = t.text /\ a.recs = t.recs
      /\ a.pc = "commit" /\ a.row = [docs[t.doc] EXCEPT !.by = t.owner]
  BY DEF SameHands, Idle
<1>2. (Set(w, a) \/ Set(w, b)) /\ t.pc = "retire"
  BY DEF Retire, At
<1> HIDE DEF a, b
<1> QED BY <1>1, <1>2 DEF SameHands

\* audit.append adds its record and goes on.
LEMMA AppendHands ==
  ASSUME NEW w \in Worker, NEW t, t = tx[w], DOMAIN t = DOMAIN Idle, AppendRecord(w)
  PROVE  \E u : /\ Set(w, u) /\ DOMAIN u = DOMAIN Idle /\ t.pc = "append" /\ u.pc = t.then
                /\ u.op = t.op /\ u.doc = t.doc /\ u.key = t.key /\ u.row = t.row
                /\ u.text = t.text /\ u.recs = Append(t.recs, [from |-> t.from, to |-> t.to])
                /\ u.owner = t.owner
<1> DEFINE r == [from |-> t.from, to |-> t.to]
           a == [t EXCEPT !.pc = t.then, !.recs = Append(@, r)]
<1>1. /\ DOMAIN a = DOMAIN Idle /\ a.op = t.op /\ a.doc = t.doc /\ a.key = t.key
      /\ a.row = t.row /\ a.text = t.text /\ a.pc = t.then /\ a.recs = Append(t.recs, r)
      /\ a.owner = t.owner
  BY DEF Idle
<1>2. Set(w, a) /\ t.pc = "append"
  BY DEF AppendRecord, At
<1> HIDE DEF a
<1> QED BY <1>1, <1>2

\* The next transaction of a delivery has its document and key, and no writes.
LEMMA CommitHands ==
  ASSUME NEW w \in Worker, NEW t, t = tx[w], DOMAIN t = DOMAIN Idle, Placed(t), Commit(w)
  PROVE  \E u : /\ Set(w, u) /\ t.pc = "commit"
                /\ \/ u = Idle
                   \/ /\ u.op = "deliver" /\ t.op = "deliver" /\ u.pc \in {"read", "recover"}
                      /\ u.doc = t.doc /\ u.key = t.key
                      /\ u.recs = <<>> /\ u.row = NoRow /\ u.text = "same"
<1> DEFINE next == [t EXCEPT !.recs = <<>>, !.row = NoRow, !.text = "same"]
<1>1. /\ DOMAIN next = DOMAIN Idle /\ next.op = t.op /\ next.doc = t.doc /\ next.key = t.key
      /\ next.recs = <<>> /\ next.row = NoRow /\ next.text = "same"
  BY DEF Idle
<1>2. t.pc = "commit" /\ (t.stage # "none" => t.op = "deliver")
  BY DEF Commit, At, Placed
<1>3. PICK u : u = AfterCommit(t) /\ Set(w, u)
  BY DEF Commit
<1>4. \/ u = Idle
      \/ /\ t.stage # "none"
         /\ \/ u = [next EXCEPT !.stage = "process", !.pc = "read"]
            \/ u = [next EXCEPT !.stage = "recover", !.pc = "recover"]
            \/ u = [next EXCEPT !.stage = "last", !.pc = "read"]
  BY <1>3 DEF AfterCommit
<1> HIDE DEF next
<1>5. u = Idle \/ ( /\ t.stage # "none" /\ u.pc \in {"read", "recover"}
                    /\ u.op = next.op /\ u.doc = next.doc /\ u.key = next.key
                    /\ u.recs = next.recs /\ u.row = next.row /\ u.text = next.text )
  BY <1>1, <1>4 DEF Idle
<1> QED BY <1>1, <1>2, <1>3, <1>5

\* A failed run of a re-anonymization keeps the document to note it, and no writes.
LEMMA AbandonHands ==
  ASSUME NEW w \in Worker, NEW t, t = tx[w], Raise(w) \/ Crash(w) \/ DeadlockVictim(w)
  PROVE  \E u : /\ Set(w, u) /\ UNCHANGED <<docs, trail, texts, index, objects, started>>
                /\ \/ u = Idle
                   \/ /\ t.op = "reanonymize" /\ u.op = "note" /\ u.pc = "note"
                      /\ u.doc = t.doc /\ u.key = NoKey
                      /\ u.recs = <<>> /\ u.row = NoRow /\ u.text = "same"
<1>1. PICK p \in {"idle", "note"} : Abandon(w, p) /\ (p = "note" => t.op = "reanonymize")
  BY DEF Raise, Crash, DeadlockVictim
<1> DEFINE a == [Idle EXCEPT !.op = "note", !.pc = p, !.doc = tx[w].doc]
<1>2. /\ a.op = "note" /\ a.pc = p /\ a.doc = t.doc /\ a.key = NoKey
      /\ a.recs = <<>> /\ a.row = NoRow /\ a.text = "same"
  BY DEF Idle
<1>3. UNCHANGED <<docs, trail, texts, index, objects, started>>
  BY <1>1 DEF Abandon
<1>4. CASE p = "idle"
  BY <1>1, <1>3, <1>4 DEF Abandon, Set
<1>5. CASE p = "note"
  <2>1. Set(w, a)
    BY <1>1, <1>5 DEF Abandon, Set
  <2> HIDE DEF a
  <2> QED BY <1>1, <1>2, <1>3, <1>5, <2>1
<1> QED BY <1>4, <1>5

\* What a request starts with.
LEMMA RequestHands ==
  ASSUME LifecycleInv, NEW w \in Worker, Request(w)
  PROVE  \E u : /\ Set(w, u) /\ tx[w] = Idle /\ UNCHANGED <<docs, trail, texts, index, objects, lock>>
                /\ u.recs = <<>> /\ u.row = NoRow /\ u.text = "same"
                /\ \/ u.op = "deliver" /\ u.doc = NoDoc /\ u.key \in Key /\ u.pc \in {"known", "find"}
                   \/ /\ u.op = "delete" /\ "delete" \in Ops /\ u.pc = "unindex"
                      /\ u.doc \in Doc /\ Exists(u.doc) /\ u.key = docs[u.doc].key
                      /\ u.state = StateOf(u.doc)
                   \/ /\ u.op = "reanonymize" /\ u.doc \in Doc /\ u.key = docs[u.doc].key
                      /\ u.state = StateOf(u.doc) /\ u.state \in {"indexed", "anonymized"}
                      /\ u.pc = "raise" \/ (u.pc = "reindex" /\ u.key \in objects)
                   \/ /\ u.op = "event" /\ u.doc \in Doc /\ Exists(u.doc) /\ u.key = NoKey
                      /\ u.pc = "append" /\ u.then = "commit"
                      /\ u.from = StateOf(u.doc) /\ u.to = u.from
<1>1. tx[w] = Idle /\ UNCHANGED <<docs, trail, texts, index, objects, lock>>
  BY DEF Request, Deliver, Delete, Reanonymize, RecordEvent, Begin, At, LifecycleInv, Placed
<1>2. CASE \E k \in Key : Deliver(w, k)
  <2>1. PICK k \in Key, p \in {"known", "find"} :
          Set(w, [Idle EXCEPT !.op = "deliver", !.key = k, !.pc = p])
    BY <1>2 DEF Deliver
  <2> DEFINE a == [Idle EXCEPT !.op = "deliver", !.key = k, !.pc = p]
  <2>2. /\ a.op = "deliver" /\ a.doc = NoDoc /\ a.key = k /\ a.pc = p
        /\ a.recs = <<>> /\ a.row = NoRow /\ a.text = "same"
    BY DEF Idle
  <2>3. Set(w, a)
    BY <2>1
  <2> HIDE DEF a
  <2> QED BY <1>1, <2>2, <2>3
<1>3. CASE \E d \in Doc : Delete(w, d)
  <2>1. PICK d \in Doc : Delete(w, d)
    BY <1>3
  <2> DEFINE a == [Idle EXCEPT !.op = "delete", !.doc = d, !.key = docs[d].key,
                               !.state = StateOf(d), !.pc = "unindex"]
  <2>2. /\ a.op = "delete" /\ a.doc = d /\ a.key = docs[d].key /\ a.state = StateOf(d)
        /\ a.pc = "unindex" /\ a.recs = <<>> /\ a.row = NoRow /\ a.text = "same"
    BY DEF Idle
  <2>3. Set(w, a) /\ Exists(d) /\ "delete" \in Ops
    BY <2>1 DEF Delete, Begin
  <2> HIDE DEF a
  <2> QED BY <1>1, <2>2, <2>3
<1>4. CASE \E d \in Doc : Reanonymize(w, d)
  <2>1. PICK d \in Doc : Reanonymize(w, d)
    BY <1>4
  <2>2. PICK p \in {"reindex", "raise"} :
          /\ Set(w, [Idle EXCEPT !.op = "reanonymize", !.doc = d, !.key = docs[d].key,
                                 !.state = StateOf(d), !.pc = p])
          /\ p = "reindex" => docs[d].key \in objects
    BY <2>1 DEF Reanonymize
  <2> DEFINE a == [Idle EXCEPT !.op = "reanonymize", !.doc = d, !.key = docs[d].key,
                               !.state = StateOf(d), !.pc = p]
  <2>3. /\ a.op = "reanonymize" /\ a.doc = d /\ a.key = docs[d].key /\ a.state = StateOf(d)
        /\ a.pc = p /\ a.recs = <<>> /\ a.row = NoRow /\ a.text = "same"
    BY DEF Idle
  <2>4. Set(w, a) /\ StateOf(d) \in {"indexed", "anonymized"}
    BY <2>1, <2>2 DEF Reanonymize
  <2> HIDE DEF a
  <2> QED BY <1>1, <2>2, <2>3, <2>4
<1>5. CASE \E d \in Doc : RecordEvent(w, d)
  <2>1. PICK d \in Doc : RecordEvent(w, d)
    BY <1>5
  <2> DEFINE a == [Idle EXCEPT !.op = "event", !.doc = d]
  <2>2. /\ DOMAIN a = DOMAIN Idle /\ a.op = "event" /\ a.doc = d /\ a.key = NoKey
        /\ a.recs = <<>> /\ a.row = NoRow /\ a.text = "same"
    BY DEF Idle
  <2>3. Event(w, a, StateOf(d), "commit") /\ Exists(d)
    BY <2>1 DEF RecordEvent
  <2> HIDE DEF a
  <2>4. PICK s : s = StateOf(d)
    OBVIOUS
  <2>5. PICK u : /\ Set(w, u) /\ SameHands(u, a)
                 /\ u.pc = "append" /\ u.then = "commit" /\ u.from = s /\ u.to = s
    BY <2>2, <2>3, <2>4, EventHands
  <2> QED BY <1>1, <2>2, <2>3, <2>4, <2>5 DEF SameHands
<1> QED BY <1>2, <1>3, <1>4, <1>5 DEF Request

-----------------------------------------------------------------------------
(* Trails and objects: what deletions and waiting operations may do, however *)
(* they overlap.                                                           *)

\* The documents, the trail and the history change only where a transaction ends.
LEMMA OnlyCommitsWrite ==
  ASSUME NEW w \in Worker, Request(w) \/ Step(w) \/ Crash(w), ~Commit(w)
  PROVE  UNCHANGED <<docs, trail, late, passed>>
<1>1. CASE Request(w)
  BY <1>1 DEF Request, Deliver, Delete, Reanonymize, RecordEvent, history
<1>2. CASE Crash(w) \/ Raise(w) \/ DeadlockVictim(w)
  BY <1>2 DEF Crash, Raise, DeadlockVictim, Abandon, history
<1>3. CASE Step(w) /\ ~Raise(w) /\ ~DeadlockVictim(w)
  BY <1>3 DEF Step, AppendRecord, history,
     Known, Skipped, Find, WriteOriginal, ReadState, Profile, Extract, Anonymize, Index, Indexed,
     Recover, Repoint, Retire, Unindex, FindObject, JudgeObject, RemoveObject, Forget,
     Reindex, Retext, NoteFailure
<1> QED BY <1>1, <1>2, <1>3

\* A history of records each of which follows.
Whole(h) == \A i \in DOMAIN h : Follows(h, i)
\* A record that goes on from the newest state keeps a history whole.
LEMMA WholeAfter ==
  ASSUME NEW h \in Seq(Record), NEW r \in Record, Whole(h), r.from = Newest(h),
         r.from = r.to \/ IsAllowed(r.from, r.to)
  PROVE  Whole(Append(h, r)) /\ Newest(Append(h, r)) = r.to
<1> DEFINE n == Len(h)
           g == Append(h, r)
<1>1. n \in Nat /\ Len(g) = n + 1 /\ g[n + 1] = r /\ \A i \in 1 .. n : g[i] = h[i]
  OBVIOUS
<1>2. DOMAIN g = 1 .. n + 1 /\ DOMAIN h = 1 .. n /\ g # <<>>
  BY <1>1
<1>3. (h = <<>> <=> n = 0) /\ (n # 0 => Newest(h) = h[n].to) /\ (n = 0 => Newest(h) = Unborn)
  BY <1>1 DEF Newest
<1> HIDE DEF n, g
<1>4. ASSUME NEW i \in 1 .. n PROVE Follows(g, i)
  <2>1. g[i] = h[i] /\ (i # 1 => i - 1 \in 1 .. n /\ g[i - 1] = h[i - 1])
    BY <1>1
  <2>2. Follows(h, i)
    BY <1>2 DEF Whole
  <2> QED BY <2>1, <2>2 DEF Follows
<1>5. Follows(g, n + 1)
  <2>1. CASE n = 0
    BY <1>1, <1>3, <2>1 DEF Follows
  <2>2. CASE n # 0
    <3>1. n \in 1 .. n /\ n + 1 - 1 = n /\ n + 1 # 1 /\ g[n] = h[n]
      BY <1>1, <2>2
    <3> QED BY <1>1, <1>3, <2>2, <3>1 DEF Follows
  <2> QED BY <2>1, <2>2
<1>6. Whole(g)
  <2>1. \A i \in 1 .. n + 1 : i \in 1 .. n \/ i = n + 1
    BY <1>1
  <2> QED BY <1>2, <1>4, <1>5, <2>1 DEF Whole
<1>7. Newest(g) = r.to
  BY <1>1, <1>2 DEF Newest
<1> QED BY <1>6, <1>7 DEF g

\* Appending to what is added appends to the whole.
LEMMA AppendedLast ==
  ASSUME NEW a \in Seq(Record), NEW b \in Seq(Record), NEW r \in Record
  PROVE  a \o Append(b, r) = Append(a \o b, r)
<1> DEFINE f == a \o Append(b, r)
           g == Append(a \o b, r)
<1>1. Len(a) \in Nat /\ Len(b) \in Nat
  OBVIOUS
<1>2. f \in Seq(Record) /\ g \in Seq(Record) /\ Len(f) = Len(a) + Len(b) + 1 /\ Len(g) = Len(f)
  OBVIOUS
<1>3. ASSUME NEW i \in 1 .. Len(f) PROVE f[i] = g[i]
  <2>1. CASE i <= Len(a)
    BY <1>1, <1>2, <2>1
  <2>2. CASE i > Len(a) /\ i <= Len(a) + Len(b)
    BY <1>1, <1>2, <2>2
  <2>3. CASE i = Len(a) + Len(b) + 1
    BY <1>1, <1>2, <2>3
  <2> QED BY <1>1, <1>2, <2>1, <2>2, <2>3
<1> HIDE DEF f, g
<1>4. f = g
  BY <1>2, <1>3
<1> QED BY <1>4 DEF f, g

\* The newest state is one.
LEMMA StateTypes ==
  ASSUME LifecycleInv, NEW t, t.doc \in Doc, t.recs \in Seq(Record)
  PROVE  /\ trail[t.doc] \in Seq(Record) /\ trail[t.doc] \o t.recs \in Seq(Record)
         /\ CurrentState(t) \in State \cup {Unborn} /\ StateOf(t.doc) \in State \cup {Unborn}
<1>1. \A h \in Seq(Record) : Newest(h) \in State \cup {Unborn}
  <2>1. ASSUME NEW h \in Seq(Record), h # <<>> PROVE h[Len(h)] \in Record
    BY <2>1
  <2> QED BY <2>1 DEF Newest, Record
<1>2. trail[t.doc] \in Seq(Record)
  BY DEF LifecycleInv, TypeOK
<1>3. trail[t.doc] \o t.recs \in Seq(Record)
  BY <1>2
<1> QED BY <1>1, <1>2, <1>3 DEF CurrentState, StateOf

\* What it has read of its document's state is what is committed, with what its own
\* transaction adds; unless the document was passed.
Sound(t) ==
  /\ t.pc \in {"known", "find"} => t.recs = <<>>
  /\ t.pc \in {"reindex", "retext"} => t.op = "reanonymize"
  /\ t.doc \in Doc \ passed =>
       /\ Whole(trail[t.doc] \o t.recs)
       /\ t.pc = "append" => t.from = CurrentState(t) /\ (t.from = t.to \/ IsAllowed(t.from, t.to))
       /\ t.pc \in {"reindex", "retext"} => t.state = CurrentState(t)

TrailInv == TrailFollowsEdges /\ \A w \in Worker : Sound(tx[w])

\* A transaction without records sees a whole trail.
LEMMA NothingAdded ==
  ASSUME LifecycleInv, TrailInv, NEW u, u.recs = <<>>
  PROVE  u.doc \in Doc \ passed =>
           Whole(trail[u.doc] \o u.recs) /\ CurrentState(u) = StateOf(u.doc)
<1> SUFFICES ASSUME u.doc \in Doc \ passed
             PROVE  Whole(trail[u.doc] \o u.recs) /\ CurrentState(u) = StateOf(u.doc)
  OBVIOUS
<1>1. trail[u.doc] \in Seq(Record)
  BY DEF LifecycleInv, TypeOK
<1>2. trail[u.doc] \o u.recs = trail[u.doc]
  BY <1>1
<1> QED BY <1>2 DEF TrailInv, TrailFollowsEdges, Whole, CurrentState, StateOf

\* The same records of the same document are as sound elsewhere.
LEMMA SoundElsewhere ==
  ASSUME NEW t, Sound(t), t.pc \notin {"known", "find"}, NEW u, u.doc = t.doc, u.recs = t.recs,
         \/ u.pc \notin {"known", "find", "append", "reindex", "retext"}
         \/ u.pc = "append" /\ u.from = CurrentState(u) /\ (u.from = u.to \/ IsAllowed(u.from, u.to))
         \/ t.pc = "reindex" /\ u.pc = "retext" /\ u.op = t.op /\ u.state = t.state
  PROVE  Sound(u)
<1>1. CurrentState(u) = CurrentState(t)
  BY DEF CurrentState
<1> QED BY <1>1 DEF Sound

LEMMA SoundWhereItWent ==
  ASSUME NEW t, Sound(t), t.pc \notin {"known", "find"}, NEW u, u.doc = t.doc, u.recs = t.recs,
         NEW to, NEW then \in Onward, Went(u, to, then)
  PROVE  Sound(u)
BY SoundElsewhere DEF Went, Onward

\* A step inside its transaction, of a worker that is sound.
LEMMA WorkerIsSound ==
  ASSUME LifecycleInv, TrailInv, NEW w \in Worker, Request(w) \/ Step(w) \/ Crash(w), ~Commit(w)
  PROVE  \E u : /\ Set(w, u) /\ Sound(u)
                /\ u.pc = "remove" => JudgeObject(w)
                /\ u.pc = "repoint" => OcrOf[u.key] \in objects'
<1> DEFINE Goes == \E u : /\ Set(w, u) /\ Sound(u)
                          /\ u.pc = "remove" => JudgeObject(w)
                          /\ u.pc = "repoint" => OcrOf[u.key] \in objects'
<1>1. PICK t : t = tx[w]
  OBVIOUS
<1>2. t \in Transaction /\ Placed(t) /\ Sound(t)
  BY <1>1 DEF LifecycleInv, TypeOK, TrailInv
<1>3. DOMAIN t = DOMAIN Idle
  BY <1>2 DEF Transaction, Idle
<1>4. NoDoc \notin Doc /\ Idle.doc = NoDoc /\ Idle.pc = "idle" /\ Idle.recs = <<>>
  BY ConstantsAssumption DEF Idle
<1>5. Sound(Idle)
  BY <1>4 DEF Sound
<1>6. CASE Request(w)
  <2>1. PICK u :
          /\ Set(w, u) /\ u.recs = <<>>
          /\ \/ u.op = "deliver" /\ u.doc = NoDoc /\ u.pc \in {"known", "find"}
             \/ u.op = "delete" /\ u.pc = "unindex"
             \/ /\ u.op = "reanonymize" /\ u.doc \in Doc /\ u.state = StateOf(u.doc)
                /\ u.pc \in {"raise", "reindex"}
             \/ /\ u.op = "event" /\ u.doc \in Doc /\ u.pc = "append"
                /\ u.from = StateOf(u.doc) /\ u.to = u.from
    BY <1>6, RequestHands
  <2>2. Sound(u) /\ u.pc \notin {"remove", "repoint"}
    BY <1>4, <2>1, NothingAdded DEF Sound
  <2> QED BY <2>1, <2>2
<1>7. CASE Crash(w) \/ Raise(w) \/ DeadlockVictim(w)
  <2>1. PICK u : Set(w, u) /\ (u = Idle \/ (u.recs = <<>> /\ u.pc = "note"))
    BY <1>1, <1>7, AbandonHands
  <2>2. Sound(u) /\ u.pc \notin {"remove", "repoint"}
    BY <1>4, <1>5, <2>1, NothingAdded DEF Sound
  <2> QED BY <2>1, <2>2
<1>8. CASE AppendRecord(w)
  <2>1. PICK u : /\ Set(w, u) /\ t.pc = "append" /\ u.pc = t.then /\ u.doc = t.doc
                 /\ u.recs = Append(t.recs, [from |-> t.from, to |-> t.to])
    BY <1>1, <1>3, <1>8, AppendHands
  <2>2. u.pc \in {"commit", "write", "extract", "anonymize", "index", "retire"}
    BY <1>2, <2>1 DEF Placed
  <2>3. ASSUME u.doc \in Doc \ passed PROVE Whole(trail[u.doc] \o u.recs)
    <3> DEFINE r == [from |-> t.from, to |-> t.to]
               h == trail[t.doc] \o t.recs
    <3>1. t.recs \in Seq(Record) /\ r \in Record
      BY <1>2 DEF Transaction, Record
    <3>2. trail[t.doc] \in Seq(Record) /\ h \in Seq(Record)
      BY <2>1, <2>3, <3>1 DEF LifecycleInv, TypeOK
    <3>3. Whole(h) /\ r.from = Newest(h) /\ (r.from = r.to \/ IsAllowed(r.from, r.to))
      BY <1>2, <2>1, <2>3 DEF Sound, CurrentState
    <3>4. trail[u.doc] \o u.recs = Append(h, r)
      BY <2>1, <3>1, <3>2, AppendedLast
    <3> QED BY <3>1, <3>2, <3>3, <3>4, WholeAfter
  <2>4. Sound(u) /\ u.pc \notin {"remove", "repoint"}
    BY <2>2, <2>3 DEF Sound
  <2> QED BY <2>1, <2>4
<1>9. CASE Known(w) \/ Skipped(w)
  <2>1. PICK u : /\ Set(w, u)
                 /\ u = Idle \/ (t.pc = "known" /\ u.pc = "skipped" /\ u.recs = t.recs)
    <3>1. CASE Set(w, Idle)
      BY <3>1
    <3>2. CASE ~Set(w, Idle)
      <4>1. PICK d \in Doc : Set(w, [t EXCEPT !.pc = "skipped", !.doc = d]) /\ t.pc = "known"
        BY <1>1, <1>9, <3>2 DEF Known, Skipped, At, LiveFor
      <4> DEFINE g == [t EXCEPT !.pc = "skipped", !.doc = d]
      <4>2. g.pc = "skipped" /\ g.recs = t.recs
        BY <1>3 DEF Idle
      <4>3. Set(w, g)
        BY <4>1
      <4> HIDE DEF g
      <4> QED BY <4>1, <4>2, <4>3
    <3> QED BY <3>1, <3>2
  <2>2. Sound(u) /\ u.pc \notin {"remove", "repoint"}
    BY <1>2, <1>4, <1>5, <2>1, NothingAdded DEF Sound
  <2> QED BY <2>1, <2>2
<1>10. CASE Find(w)
  <2>1. PICK u : /\ Set(w, u) /\ t.pc = "find" /\ u.recs = t.recs
                 /\ u.pc = "write" \/ Went(u, "registered", "write")
    BY <1>1, <1>3, <1>10, FindHands
  <2>2. u.recs = <<>>
    BY <1>2, <2>1 DEF Sound
  <2>3. Sound(u) /\ u.pc \notin {"remove", "repoint"}
    BY <2>1, <2>2, NothingAdded DEF Sound, Went
  <2> QED BY <2>1, <2>3
<1>11. CASE WriteOriginal(w) \/ Index(w) \/ Unindex(w) \/ FindObject(w) \/ JudgeObject(w)
            \/ RemoveObject(w) \/ Reindex(w)
  <2>1. PICK p : /\ Set(w, [t EXCEPT !.pc = p])
                 /\ p \in {"commit", "indexed", "drop", "claim", "remove", "forget", "retext"}
                 /\ p = "retext" => t.pc = "reindex"
                 /\ p = "remove" => JudgeObject(w)
                 /\ t.pc \notin {"known", "find"}
    BY <1>1, <1>11 DEF WriteOriginal, Index, Unindex, FindObject, JudgeObject, RemoveObject, Reindex, At
  <2> DEFINE u == [t EXCEPT !.pc = p]
  <2>2. SameHands(u, t) /\ u.state = t.state /\ u.pc = p /\ Set(w, u)
    BY <1>3, <2>1 DEF SameHands, Idle
  <2> HIDE DEF u
  <2>3. Sound(u)
    BY <1>2, <2>1, <2>2, SoundElsewhere DEF SameHands
  <2> QED BY <2>1, <2>2, <2>3
<1>12. CASE ReadState(w)
  <2>1. PICK p, s : /\ Set(w, [t EXCEPT !.state = s, !.pc = p]) /\ t.pc = "read"
                    /\ p \in {"raise", "profile", "extract", "anonymize", "index", "commit"}
    BY <1>1, <1>12 DEF ReadState, At
  <2> DEFINE u == [t EXCEPT !.state = s, !.pc = p]
  <2>2. SameHands(u, t) /\ u.pc = p /\ Set(w, u)
    BY <1>3, <2>1 DEF SameHands, Idle
  <2> HIDE DEF u
  <2>3. Sound(u)
    BY <1>2, <2>1, <2>2, SoundElsewhere DEF SameHands
  <2> QED BY <2>1, <2>2, <2>3
<1>13. ASSUME NEW f, DOMAIN f = DOMAIN Idle, f.doc = t.doc, f.recs = t.recs,
              NEW to, NEW then \in Onward, Transition(w, f, to, then), t.pc \notin {"known", "find"}
       PROVE  Goes
  <2>1. PICK u : Set(w, u) /\ SameHands(u, f) /\ Went(u, to, then)
    BY <1>13, TransitionHands
  <2>2. Sound(u) /\ u.pc \notin {"remove", "repoint"}
    BY <1>2, <1>13, <2>1, SoundWhereItWent DEF SameHands, Went, Onward
  <2> QED BY <2>1, <2>2
<1>14. ASSUME NEW f, DOMAIN f = DOMAIN Idle, f.doc = t.doc, f.recs = t.recs,
              NEW s, s = CurrentState(f) \/ f.doc \notin Doc \ passed,
              Event(w, f, s, "commit"), t.pc \notin {"known", "find"}
       PROVE  Goes
  <2>1. PICK u : Set(w, u) /\ SameHands(u, f) /\ u.pc = "append" /\ u.from = s /\ u.to = s
    BY <1>14, EventHands
  <2>2. CurrentState(u) = CurrentState(f)
    BY <2>1 DEF SameHands, CurrentState
  <2>3. Sound(u)
    <3>1. CASE s = CurrentState(f)
      BY <1>2, <1>14, <2>1, <2>2, <3>1, SoundElsewhere DEF SameHands
    <3>2. CASE f.doc \notin Doc \ passed
      BY <1>14, <2>1, <3>2 DEF Sound, SameHands
    <3> QED BY <1>14, <3>1, <3>2
  <2> QED BY <2>1, <2>3
<1>15. /\ DOMAIN t = DOMAIN Idle
       /\ \A x : /\ DOMAIN [t EXCEPT !.text = x] = DOMAIN Idle
                 /\ [t EXCEPT !.text = x].doc = t.doc /\ [t EXCEPT !.text = x].recs = t.recs
       /\ \A x, y : /\ DOMAIN [t EXCEPT !.text = x, !.row = y] = DOMAIN Idle
                    /\ [t EXCEPT !.text = x, !.row = y].doc = t.doc
                    /\ [t EXCEPT !.text = x, !.row = y].recs = t.recs
  BY <1>3 DEF Idle
<1>16. CASE Profile(w) \/ Extract(w) \/ Indexed(w)
  <2>1. PICK to, then : then \in Onward /\ Transition(w, t, to, then)
    <3>1. "commit" \in Onward /\ "extract" \in Onward /\ "anonymize" \in Onward
      BY DEF Onward
    <3>2. CASE Profile(w)
      <4>1. \/ Transition(w, t, "failed", "commit") \/ Transition(w, t, "unprocessable_ocr", "commit")
            \/ Transition(w, t, "extractable", "extract")
        BY <1>1, <3>2, Zenon DEF Profile
      <4> QED BY <3>1, <4>1
    <3>3. CASE Extract(w)
      <4>1. Transition(w, t, "failed", "commit") \/ Transition(w, t, "extracted", "anonymize")
        BY <1>1, <3>3, Zenon DEF Extract
      <4> QED BY <3>1, <4>1
    <3>4. CASE Indexed(w)
      <4>1. Transition(w, t, "indexed", "commit")
        BY <1>1, <3>4 DEF Indexed
      <4> QED BY <3>1, <4>1
    <3> QED BY <1>16, <3>2, <3>3, <3>4
  <2>2. t.pc \notin {"known", "find"}
    BY <1>1, <1>16 DEF Profile, Extract, Indexed, At
  <2> QED BY <1>3, <1>13, <2>1, <2>2
<1>17. CASE Anonymize(w)
  <2>1. Transition(w, [t EXCEPT !.text = "put"], "anonymized", "index") /\ t.pc = "anonymize"
    BY <1>1, <1>17 DEF Anonymize, At
  <2>2. "index" \in Onward
    BY DEF Onward
  <2> QED BY <1>13, <1>15, <2>1, <2>2
<1>18. CASE Forget(w)
  <2>1. PICK x, y : Transition(w, [t EXCEPT !.text = x, !.row = y], "deleted", "commit") /\ t.pc = "forget"
    BY <1>1, <1>18 DEF Forget, At
  <2>2. "commit" \in Onward
    BY DEF Onward
  <2> QED BY <1>13, <1>15, <2>1, <2>2
<1>19. CASE Repoint(w)
  <2>1. PICK u : /\ Set(w, u) /\ t.pc = "repoint" /\ u.doc = t.doc /\ u.recs = t.recs
                 /\ Went(u, "superseded", "retire") \/ Went(u, "extractable", "commit")
    BY <1>1, <1>3, <1>19, RepointHands
  <2>2. Sound(u) /\ u.pc \notin {"remove", "repoint"}
    BY <1>2, <2>1, SoundWhereItWent DEF Went, Onward
  <2> QED BY <2>1, <2>2
<1>20. CASE Retire(w)
  <2>1. PICK u : /\ Set(w, u) /\ t.pc = "retire" /\ u.doc = t.doc /\ u.recs = t.recs
                 /\ u.pc \in {"raise", "commit"}
    <3>1. PICK u : /\ Set(w, u) /\ t.pc = "retire" /\ u.doc = t.doc /\ u.recs = t.recs
                   /\ \/ u.pc = "raise" /\ u.row = t.row
                      \/ u.pc = "commit" /\ u.row = [docs[t.doc] EXCEPT !.by = t.owner]
      BY <1>1, <1>3, <1>20, RetireHands
    <3> QED BY <3>1
  <2>2. Sound(u)
    BY <1>2, <2>1, SoundElsewhere
  <2> QED BY <2>1, <2>2
<1>21. CASE Recover(w)
  <2>1. CASE Event(w, t, CurrentState(t), "commit")
    <3>1. t.pc = "recover"
      BY <1>1, <1>21 DEF Recover, At
    <3> QED BY <1>3, <1>14, <2>1, <3>1
  <2>2. CASE ~Event(w, t, CurrentState(t), "commit")
    <3>1. \/ Set(w, [t EXCEPT !.pc = "raise"])
          \/ /\ Set(w, [t EXCEPT !.state = CurrentState(t), !.pc = "repoint"])
             /\ objects' = objects \cup {OcrOf[t.key]}
      BY <1>1, <1>21, <2>2, Zenon DEF Recover
    <3>2. t.pc = "recover"
      BY <1>1, <1>21 DEF Recover, At
    <3>3. PICK u : /\ Set(w, u) /\ u.doc = t.doc /\ u.recs = t.recs /\ u.pc \in {"raise", "repoint"}
                   /\ u.pc = "repoint" => OcrOf[u.key] \in objects'
      <4> DEFINE a == [t EXCEPT !.pc = "raise"]
                 b == [t EXCEPT !.state = CurrentState(t), !.pc = "repoint"]
      <4>1. /\ a.doc = t.doc /\ a.recs = t.recs /\ a.pc = "raise"
            /\ b.doc = t.doc /\ b.recs = t.recs /\ b.pc = "repoint" /\ b.key = t.key
        BY <1>3 DEF Idle
      <4>2. Set(w, a) \/ (Set(w, b) /\ OcrOf[t.key] \in objects')
        BY <3>1
      <4> HIDE DEF a, b
      <4> QED BY <4>1, <4>2
    <3>4. Sound(u)
      BY <1>2, <3>2, <3>3, SoundElsewhere
    <3> QED BY <3>3, <3>4
  <2> QED BY <2>1, <2>2
<1>22. CASE Retext(w)
  <2>1. Event(w, [t EXCEPT !.text = "put"], t.state, "commit") /\ t.pc = "retext"
    BY <1>1, <1>22 DEF Retext, At
  <2>2. t.doc \in Doc \ passed => t.state = CurrentState([t EXCEPT !.text = "put"])
    BY <1>2, <1>15, <2>1 DEF Sound, CurrentState
  <2> QED BY <1>14, <1>15, <2>1, <2>2
<1>23. CASE NoteFailure(w)
  <2>1. Event(w, t, CurrentState(t), "commit") /\ t.pc = "note"
    BY <1>1, <1>23 DEF NoteFailure, At
  <2> QED BY <1>3, <1>14, <2>1
<1> QED BY <1>6, <1>7, <1>8, <1>9, <1>10, <1>11, <1>12, <1>16, <1>17, <1>18, <1>19, <1>20,
           <1>21, <1>22, <1>23 DEF Step

\* A commit adds what its transaction wrote to its document's trail, and what others
\* have read of that document is passed.
LEMMA TrailCommits ==
  ASSUME LifecycleInv, TrailInv, NEW w \in Worker, Commit(w) PROVE TrailInv'
<1>1. PICK t : t = tx[w]
  OBVIOUS
<1>2. t \in Transaction /\ Placed(t) /\ Sound(t)
  BY <1>1 DEF LifecycleInv, TypeOK, TrailInv
<1>3. DOMAIN t = DOMAIN Idle
  BY <1>2 DEF Transaction, Idle
<1>4. t.pc = "commit" /\ t.doc \in Doc /\ t.recs \in Seq(Record)
  BY <1>1, <1>2 DEF Commit, At, Placed, Transaction
<1>5. /\ trail \in [Doc -> Seq(Record)] /\ trail' = [trail EXCEPT ![t.doc] = @ \o t.recs]
      /\ passed' = IF t.recs # <<>> /\ \E v \in Worker \ {w} : HasRead(v, t.doc)
                   THEN passed \cup {t.doc} ELSE passed
  BY <1>1 DEF Commit, LifecycleInv, TypeOK
<1>6. passed \subseteq passed' /\ \A d \in Doc \ {t.doc} : trail'[d] = trail[d]
  BY <1>5
<1>7. t.doc \notin passed => Whole(trail'[t.doc])
  BY <1>2, <1>4, <1>5 DEF Sound
<1>8. ASSUME NEW d \in Doc \ passed' PROVE trail'[d] \in Seq(Record) /\ Whole(trail'[d])
  <2>1. CASE d = t.doc
    BY <1>4, <1>5, <1>6, <1>7, <1>8, <2>1
  <2>2. CASE d # t.doc
    BY <1>5, <1>6, <1>8, <2>2 DEF TrailInv, TrailFollowsEdges, Whole
  <2> QED BY <2>1, <2>2
<1>9. TrailFollowsEdges'
  BY <1>8 DEF TrailFollowsEdges, Whole
<1>10. tx \in [Worker -> Transaction]
  BY DEF LifecycleInv, TypeOK
<1>11. PICK u : /\ Set(w, u)
                /\ u = Idle \/ (u.pc \in {"read", "recover"} /\ u.doc = t.doc /\ u.recs = <<>>)
  BY <1>1, <1>2, <1>3, CommitHands
<1>12. tx'[w] = u /\ \A v \in Worker \ {w} : tx'[v] = tx[v]
  BY <1>10, <1>11 DEF Set
<1>13. NoDoc \notin Doc /\ Idle.doc = NoDoc /\ Idle.pc = "idle"
  BY ConstantsAssumption DEF Idle
<1>14. Sound(u)'
  <2>1. ASSUME u # Idle, u.doc \in Doc \ passed' PROVE Whole(trail'[u.doc] \o u.recs)
    <3>1. trail'[u.doc] \in Seq(Record) /\ Whole(trail'[u.doc]) /\ u.recs = <<>>
      BY <1>8, <1>11, <2>1
    <3>2. trail'[u.doc] \o u.recs = trail'[u.doc]
      BY <3>1
    <3> QED BY <3>1, <3>2
  <2> QED BY <1>11, <1>13, <2>1 DEF Sound
<1>15. ASSUME NEW v \in Worker \ {w} PROVE Sound(tx[v])'
  <2>1. PICK o : o = tx[v]
    OBVIOUS
  <2>2. Sound(o) /\ tx'[v] = o /\ o.recs \in Seq(Record)
    BY <1>10, <1>12, <2>1 DEF TrailInv, Transaction
  <2>3. CASE o.doc \notin Doc \ passed'
    BY <1>6, <2>2, <2>3 DEF Sound
  <2>4. CASE o.doc \in Doc \ passed' /\ trail'[o.doc] = trail[o.doc]
    <3>1. CurrentState(o)' = CurrentState(o) /\ o.doc \in Doc \ passed
      BY <1>6, <2>4 DEF CurrentState
    <3> QED BY <2>2, <2>4, <3>1 DEF Sound
  <2>5. CASE o.doc \in Doc \ passed' /\ trail'[o.doc] # trail[o.doc]
    <3>1. o.doc = t.doc /\ t.recs # <<>>
      <4>1. o.doc = t.doc
        BY <1>6, <2>5
      <4>2. t.recs = <<>> => trail'[t.doc] = trail[t.doc]
        BY <1>4, <1>5
      <4> QED BY <2>5, <4>1, <4>2
    <3>2. ~HasRead(v, o.doc)
      BY <1>5, <2>5, <3>1
    <3>3. o.recs = <<>>
      BY <1>1, <2>1, <3>1 DEF LifecycleInv, TypeOK
    <3>4. Whole(trail'[o.doc] \o o.recs)
      <4>1. trail'[o.doc] \o o.recs = trail'[o.doc]
        BY <1>8, <2>5, <3>3
      <4> QED BY <1>8, <2>5, <4>1
    <3>5. o.pc \notin {"append", "reindex", "retext"}
      BY <2>1, <2>2, <3>2 DEF HasRead, At, Sound
    <3> QED BY <2>2, <3>4, <3>5 DEF Sound
  <2> QED BY <2>3, <2>4, <2>5
<1> QED BY <1>9, <1>12, <1>14, <1>15 DEF TrailInv, Sound, CurrentState

LEMMA TrailInvariant == Spec => []TrailInv
<1>1. Init => TrailInv
  <2>1. NoDoc \notin Doc /\ Idle.doc = NoDoc /\ Idle.pc = "idle"
    BY ConstantsAssumption DEF Idle
  <2> QED BY <2>1 DEF Init, TrailInv, TrailFollowsEdges, Sound
<1>2. LifecycleInv /\ TrailInv /\ [Next]_vars => TrailInv'
  <2> SUFFICES ASSUME LifecycleInv, TrailInv, [Next]_vars PROVE TrailInv'
    OBVIOUS
  <2>1. ASSUME NEW w \in Worker, Request(w) \/ Step(w) \/ Crash(w), ~Commit(w) PROVE TrailInv'
    <3>1. UNCHANGED <<docs, trail, late, passed>>
      BY <2>1, OnlyCommitsWrite
    <3>2. PICK u : Set(w, u) /\ Sound(u)
      BY <2>1, WorkerIsSound
    <3>3. tx \in [Worker -> Transaction]
      BY DEF LifecycleInv, TypeOK
    <3>4. tx'[w] = u /\ \A v \in Worker \ {w} : tx'[v] = tx[v]
      BY <3>2, <3>3 DEF Set
    <3>5. \A v \in Worker : Sound(tx'[v])
      BY <3>2, <3>4 DEF TrailInv
    <3>6. \A v \in Worker : Sound(tx[v])'
      BY <3>1, <3>5 DEF Sound, CurrentState
    <3> QED BY <3>1, <3>6 DEF TrailInv, TrailFollowsEdges, Follows
  <2>2. ASSUME NEW w \in Worker, Commit(w) PROVE TrailInv'
    BY <2>2, TrailCommits
  <2>3. CASE UNCHANGED vars
    BY <2>3 DEF vars, history, TrailInv, TrailFollowsEdges, Follows, Sound, CurrentState
  <2> QED BY <2>1, <2>2, <2>3 DEF Next
<1> QED BY <1>1, <1>2, LifecycleInvariant, PTL DEF Spec

\* pipeline.transition and audit.append: whatever overlaps and fails, every trail
\* follows the edges of states.py, but for the documents of which a record was
\* committed while another, of a state read before, waited for the lock of the chain.
THEOREM TrailsFollowEdges == Spec => []TrailFollowsEdges
<1>1. TrailInv => TrailFollowsEdges
  BY DEF TrailInv
<1> QED BY <1>1, TrailInvariant, PTL

\* What a deletion that has looked for other documents of its object knows.
Looked ==
  \A w \in Worker : At(w, "remove") =>
    \A d \in Doc \ {tx[w].doc} : docs[d].key = tx[w].key => StateOf(d) = "deleted" \/ d \in late

LEMMA LookedInvariant == Spec => []Looked
<1>1. Init => Looked
  BY DEF Init, Looked, At, Idle
<1>2. LifecycleInv /\ TrailInv /\ Looked /\ [Next]_vars => Looked'
  <2> SUFFICES ASSUME LifecycleInv, TrailInv, Looked, [Next]_vars,
                      NEW v \in Worker, At(v, "remove")', NEW d \in Doc \ {tx'[v].doc},
                      docs'[d].key = tx'[v].key
               PROVE  StateOf(d)' = "deleted" \/ d \in late'
    BY DEF Looked, At
  <2>1. tx \in [Worker -> Transaction] /\ docs \in [Doc -> Rows] /\ trail \in [Doc -> Seq(Record)]
    BY DEF LifecycleInv, TypeOK
  <2>2. ASSUME NEW w \in Worker, Request(w) \/ Step(w) \/ Crash(w), ~Commit(w)
        PROVE  StateOf(d)' = "deleted" \/ d \in late'
    <3>1. UNCHANGED <<docs, trail, late, passed>> /\ StateOf(d)' = StateOf(d)
      BY <2>2, OnlyCommitsWrite DEF StateOf
    <3>2. PICK u : Set(w, u) /\ (u.pc = "remove" => JudgeObject(w))
      BY <2>2, WorkerIsSound
    <3>3. tx'[w] = u /\ \A o \in Worker \ {w} : tx'[o] = tx[o]
      BY <2>1, <3>2 DEF Set
    <3>4. CASE v = w
      <4>1. JudgeObject(w)
        BY <3>2, <3>3, <3>4 DEF At
      <4>2. /\ tx'[w] = [tx[w] EXCEPT !.pc =
                           IF ClaimedElsewhere(tx[w].doc, tx[w].key) THEN "forget" ELSE "remove"]
            /\ DOMAIN tx[w] = DOMAIN Idle
        BY <2>1, <4>1 DEF JudgeObject, Set, Transaction, Idle
      <4>3. ~ClaimedElsewhere(tx[w].doc, tx[w].key) /\ tx'[w].doc = tx[w].doc /\ tx'[w].key = tx[w].key
        BY <3>4, <4>2 DEF At, Idle
      <4> QED BY <3>1, <3>4, <4>3 DEF ClaimedElsewhere
    <3>5. CASE v # w
      BY <3>1, <3>3, <3>5 DEF Looked, At
    <3> QED BY <3>4, <3>5
  <2>3. ASSUME NEW w \in Worker, Commit(w) PROVE StateOf(d)' = "deleted" \/ d \in late'
    <3>1. PICK t : t = tx[w] /\ t \in Transaction /\ Placed(t) /\ DOMAIN t = DOMAIN Idle
      BY <2>1 DEF LifecycleInv, Transaction, Idle
    <3>2. PICK u : Set(w, u) /\ (u = Idle \/ u.pc \in {"read", "recover"})
      BY <2>3, <3>1, CommitHands
    <3>3. tx'[w] = u /\ \A o \in Worker \ {w} : tx'[o] = tx[o]
      BY <2>1, <3>2 DEF Set
    <3>4. v # w /\ tx'[v] = tx[v]
      BY <3>2, <3>3 DEF At, Idle
    <3>5. CASE d = t.doc
      <4>1. RemovesFrom(v, d, docs'[d].key)
        BY <3>4 DEF RemovesFrom, At
      <4> QED BY <2>3, <3>1, <3>4, <3>5, <4>1 DEF Commit
    <3>6. CASE d # t.doc
      <4>1. docs'[d] = docs[d] /\ trail'[d] = trail[d] /\ late \subseteq late'
        BY <2>1, <2>3, <3>1, <3>6 DEF Commit
      <4> QED BY <3>4, <4>1 DEF Looked, At, StateOf
    <3> QED BY <3>5, <3>6
  <2>4. CASE UNCHANGED vars
    BY <2>4 DEF vars, history, Looked, At, StateOf
  <2> QED BY <2>2, <2>3, <2>4 DEF Next
<1> QED BY <1>1, <1>2, LifecycleInvariant, TrailInvariant, PTL DEF Spec

\* delete_document: whatever runs beside it, an object leaves the store only with a
\* document that is deleted or under deletion, and with those that came to name it
\* between the look for them and the removal (_object_claimed_elsewhere).
THEOREM OnlyDeletionsTakeObjects == Spec => NeverTakesAnothersObject
<1> DEFINE Keeps == \A k \in objects \ objects', d \in Doc \ late :
                      docs[d].key = k =>
                        \/ StateOf(d) = "deleted"
                        \/ \E w \in Worker : tx[w].op = "delete" /\ tx[w].doc = d
<1>1. LifecycleInv /\ Looked /\ [Next]_vars => [Keeps]_vars
  <2> SUFFICES ASSUME LifecycleInv, Looked, Next, NEW k \in objects \ objects', NEW d \in Doc \ late,
                      docs[d].key = k, StateOf(d) # "deleted"
               PROVE  \E w \in Worker : tx[w].op = "delete" /\ tx[w].doc = d
    OBVIOUS
  <2>1. PICK w \in Worker : Request(w) \/ Step(w) \/ Crash(w)
    BY DEF Next
  <2>2. RemoveObject(w)
    BY <2>1 DEF Request, Deliver, Delete, Reanonymize, RecordEvent, Step, AppendRecord, Commit,
       Known, Skipped, Find, WriteOriginal, ReadState, Profile, Extract, Anonymize, Index, Indexed,
       Recover, Repoint, Retire, Unindex, FindObject, JudgeObject, Forget, Reindex, Retext,
       NoteFailure, Raise, DeadlockVictim, Crash, Abandon
  <2>3. tx[w].op = "delete" /\ At(w, "remove") /\ k = tx[w].key
    BY <2>2 DEF RemoveObject, At, LifecycleInv, Placed
  <2>4. tx[w].doc = d
    BY <2>3 DEF Looked
  <2> QED BY <2>3, <2>4
<1> QED BY <1>1, LifecycleInvariant, LookedInvariant, PTL DEF Spec, NeverTakesAnothersObject

-----------------------------------------------------------------------------
(* Without deletions, what was indexed once is served from then on.        *)

\* The states whose record comes with a stored text.
WithText == {"anonymized", "indexed"}

\* Where a delivery works on bytes it has put in the store.
Working == {"read", "profile", "extract", "anonymize", "index", "indexed",
            "recover", "repoint", "retire", "commit"}

\* Its document has an entry in the index.
Listed(t) == t.doc \in Doc /\ index[t.doc] # NoKey

\* A record to the state s may be published with what t has written.
Ready(t, s) == /\ s \in WithText => t.text = "put" \/ t.doc \in texts
               /\ s = "indexed" => Listed(t)

\* What a transaction has written is fit to be published.
HandsReady(t) ==
  /\ t.op # "delete" /\ t.text # "gone"
  /\ t.row # NoRow => t.op = "deliver" /\ (t.row.key = t.key \/ t.row.key \in objects)
  /\ t.doc \in Doc => Exists(t.doc) \/ t.row # NoRow
  /\ \A i \in DOMAIN t.recs : Ready(t, t.recs[i].to)

\* What it goes on to write at its place will be.
PlaceReady(t) ==
  /\ t.pc \in {"known", "find"} => t.recs = <<>> /\ t.text = "same"
  /\ (t.op = "deliver" /\ (t.pc \in Working \/ (t.pc = "append" /\ t.then # "write"))) => t.key \in objects
  /\ (t.pc \in {"recover", "repoint", "retire"} \/ (t.pc = "append" /\ t.then = "retire")) => t.row = NoRow
  /\ t.pc = "repoint" => OcrOf[t.key] \in objects
  /\ t.pc = "reindex" => t.key \in objects
  /\ t.pc \in {"reindex", "retext", "note"} => t.op # "deliver"
  /\ t.pc \in {"indexed", "retext"} => Listed(t)
  /\ t.pc = "append" => Ready(t, t.to)

\* Every document has its object, every entry too; what was indexed has both its
\* text and its entry.
Published ==
  \A d \in Doc :
    /\ Exists(d) => docs[d].key \in objects
    /\ index[d] # NoKey => index[d] \in objects
    /\ \A i \in DOMAIN trail[d] : /\ trail[d][i].to \in WithText => d \in texts
                                  /\ trail[d][i].to = "indexed" => index[d] # NoKey
    /\ trail[d] # <<>> => Exists(d)

ServedInv == Published /\ \A w \in Worker : HandsReady(tx[w]) /\ PlaceReady(tx[w])

\* The store, the texts, the rows and the entries only grow.
Grows ==
  /\ objects \subseteq objects' /\ texts \subseteq texts'
  /\ \A d \in Doc : Exists(d) => Exists(d)'
  /\ \A d \in Doc : index[d] # NoKey => index'[d] # NoKey

\* What is fit to be published stays so while the store grows.
LEMMA ReadyStays ==
  ASSUME Grows, NEW t
  PROVE  (HandsReady(t) => HandsReady(t)') /\ (PlaceReady(t) => PlaceReady(t)')
<1>1. Listed(t) => Listed(t)'
  BY DEF Listed, Grows
<1>2. \A s : Ready(t, s) => Ready(t, s)'
  BY <1>1 DEF Ready, Grows
<1>3. HandsReady(t) => HandsReady(t)'
  BY <1>2 DEF HandsReady, Grows
<1>4. PlaceReady(t) => PlaceReady(t)'
  BY <1>1, <1>2 DEF PlaceReady, Grows
<1> QED BY <1>3, <1>4

\* A step of one worker to something fit to be published, while the store grows.
LEMMA ServedMoves ==
  ASSUME LifecycleInv, ServedInv, NEW w \in Worker, NEW u, Set(w, u),
         Grows, HandsReady(u)', PlaceReady(u)', Published'
  PROVE  ServedInv'
<1>1. ASSUME NEW v \in Worker PROVE (HandsReady(tx[v]) /\ PlaceReady(tx[v]))'
  <2>1. PICK x : x = tx'[v]
    OBVIOUS
  <2>2. HandsReady(x)' /\ PlaceReady(x)'
    <3>1. CASE v = w
      <4>1. x = u
        BY <2>1, <3>1 DEF Set, LifecycleInv, TypeOK
      <4> QED BY <4>1
    <3>2. CASE v # w
      <4>1. x = tx[v]
        BY <2>1, <3>2 DEF Set, LifecycleInv, TypeOK
      <4>2. HandsReady(x) /\ PlaceReady(x)
        BY <4>1 DEF ServedInv
      <4> QED BY <4>2, ReadyStays
    <3> QED BY <3>1, <3>2
  <2> QED BY <2>1, <2>2 DEF HandsReady, PlaceReady, Ready, Exists, Listed
<1> QED BY <1>1 DEF ServedInv

\* A step that leaves the committed tables alone publishes nothing.
LEMMA NothingPublished ==
  ASSUME Published, docs' = docs, trail' = trail, texts' = texts, objects \subseteq objects',
         \A d \in Doc : index'[d] = index[d] \/ (index'[d] # NoKey /\ index'[d] \in objects')
  PROVE  Published' /\ Grows
<1>1. Grows
  BY DEF Grows, Exists
<1>2. Published'
  BY DEF Published, Exists
<1> QED BY <1>1, <1>2

\* A step of one worker that publishes nothing and changes nothing else.
LEMMA ServedQuietly ==
  ASSUME LifecycleInv, ServedInv, NEW w \in Worker, NEW u, Set(w, u), HandsReady(u), PlaceReady(u),
         UNCHANGED <<docs, trail, texts, index, objects>>
  PROVE  ServedInv'
<1>1. Published' /\ Grows
  BY NothingPublished DEF ServedInv
<1>2. HandsReady(u)' /\ PlaceReady(u)'
  BY <1>1, ReadyStays
<1> QED BY <1>1, <1>2, ServedMoves

\* What it has written is the same in other hands.
LEMMA SameReady ==
  ASSUME NEW t, NEW u, SameHands(u, t)
  PROVE  /\ HandsReady(t) => HandsReady(u)
         /\ \A s : Ready(t, s) <=> Ready(u, s)
BY DEF HandsReady, SameHands, Ready, Listed

\* A history ends with the last of the records added to it.
LEMMA LastAdded ==
  ASSUME NEW a \in Seq(Record), NEW b \in Seq(Record), b # <<>>
  PROVE  Len(b) \in DOMAIN b /\ (a \o b)[Len(a \o b)] = b[Len(b)]
<1>1. Len(b) \in Nat /\ Len(a) \in Nat /\ Len(b) > 0
  OBVIOUS
<1>2. Len(a \o b) = Len(a) + Len(b) /\ Len(b) \in DOMAIN b
  BY <1>1
<1>3. Len(a) + Len(b) > Len(a) /\ Len(a) + Len(b) - Len(a) = Len(b)
  BY <1>1
<1>4. (a \o b)[Len(a) + Len(b)] = b[Len(b)]
  BY <1>1, <1>2, <1>3
<1> QED BY <1>2, <1>4

\* What is in a history with records added was there or is one of them.
LEMMA AddedOrThere ==
  ASSUME NEW a \in Seq(Record), NEW b \in Seq(Record), NEW i \in DOMAIN (a \o b)
  PROVE  \/ i \in DOMAIN a /\ (a \o b)[i] = a[i]
         \/ \E j \in DOMAIN b : (a \o b)[i] = b[j]
<1>1. Len(a) \in Nat /\ Len(b) \in Nat /\ Len(a \o b) = Len(a) + Len(b) /\ i \in 1 .. Len(a \o b)
  OBVIOUS
<1>2. CASE i <= Len(a)
  BY <1>1, <1>2
<1>3. CASE i > Len(a)
  <2>1. i - Len(a) \in 1 .. Len(b)
    BY <1>1, <1>3
  <2>2. (a \o b)[i] = b[i - Len(a)]
    BY <1>1, <1>3
  <2> QED BY <2>1, <2>2
<1> QED BY <1>1, <1>2, <1>3

\* A record that repeats the state of its document is fit to be published.
LEMMA StateReady ==
  ASSUME LifecycleInv, Published, NEW t, t.doc \in Doc, t.recs \in Seq(Record), HandsReady(t)
  PROVE  Ready(t, CurrentState(t))
<1> DEFINE h == trail[t.doc] \o t.recs
<1>1. trail[t.doc] \in Seq(Record)
  BY DEF LifecycleInv, TypeOK
<1>2. CASE h = <<>>
  BY <1>2 DEF CurrentState, Newest, Ready, WithText, Unborn
<1>3. CASE h # <<>> /\ t.recs = <<>>
  <2>1. h = trail[t.doc] /\ Len(h) \in DOMAIN trail[t.doc] /\ CurrentState(t) = h[Len(h)].to
    BY <1>1, <1>3 DEF CurrentState, Newest
  <2> QED BY <2>1 DEF Published, Ready, Listed
<1>4. CASE h # <<>> /\ t.recs # <<>>
  <2>1. Len(t.recs) \in DOMAIN t.recs /\ h[Len(h)] = t.recs[Len(t.recs)]
    BY <1>1, <1>4, LastAdded
  <2> QED BY <1>4, <2>1 DEF CurrentState, Newest, HandsReady
<1> QED BY <1>2, <1>3, <1>4

\* After a transition it is.
LEMMA WentReady ==
  ASSUME LifecycleInv, Published, NEW u, u.doc \in Doc, u.recs \in Seq(Record), HandsReady(u),
         NEW to \in State, NEW then \in Onward, Went(u, to, then),
         to = "anonymized" => u.text = "put", to = "indexed" => Listed(u),
         u.op = "deliver" /\ then # "write" => u.key \in objects,
         then = "retire" => u.row = NoRow
  PROVE  PlaceReady(u)
<1>1. CASE u.pc = then \/ u.pc = "raise"
  BY <1>1 DEF PlaceReady, Onward, Working
<1>2. CASE u.pc = "append" /\ u.then = then /\ u.to = to /\ u.from = CurrentState(u) /\ IsAllowed(u.from, to)
  <2>1. to = "indexed" => u.from = "anonymized"
    <3>1. \A s \in State \cup {Unborn} : IsAllowed(s, "indexed") => s = "anonymized"
      BY DEF IsAllowed, Edges, State, Unborn
    <3>2. u.from \in State \cup {Unborn}
      <4>1. trail[u.doc] \o u.recs \in Seq(Record)
        BY DEF LifecycleInv, TypeOK
      <4>2. \A h \in Seq(Record) : Newest(h) \in State \cup {Unborn}
        <5>1. ASSUME NEW h \in Seq(Record), h # <<>> PROVE h[Len(h)] \in Record
          BY <5>1
        <5> QED BY <5>1 DEF Newest, Record
      <4> QED BY <1>2, <4>1, <4>2 DEF CurrentState
    <3> QED BY <1>2, <3>1, <3>2
  <2>2. Ready(u, to)
    BY <1>2, <2>1, StateReady DEF Ready, WithText
  <2> QED BY <1>2, <2>2 DEF PlaceReady, Working
<1> QED BY <1>1, <1>2 DEF Went

\* What a worker holds when it takes a step.
Holds(w, t) ==
  /\ t = tx[w] /\ DOMAIN t = DOMAIN Idle /\ t \in Transaction /\ Placed(t)
  /\ HandsReady(t) /\ PlaceReady(t)

LEMMA HeldByWorker ==
  ASSUME LifecycleInv, ServedInv, NEW w \in Worker PROVE \E t : Holds(w, t)
<1>1. PICK t : t = tx[w]
  OBVIOUS
<1>2. t \in Transaction /\ Placed(t)
  BY <1>1 DEF LifecycleInv, TypeOK
<1>3. DOMAIN t = DOMAIN Idle
  BY <1>2 DEF Transaction, Idle
<1> QED BY <1>1, <1>2, <1>3 DEF ServedInv, Holds

\* Between operations nothing is written.
LEMMA IdleReady == HandsReady(Idle) /\ PlaceReady(Idle)
<1>1. Idle.doc \notin Doc /\ Idle.row = NoRow /\ Idle.recs = <<>> /\ Idle.op = "none"
      /\ Idle.text = "same" /\ Idle.pc = "idle"
  BY ConstantsAssumption DEF Idle
<1>2. HandsReady(Idle)
  BY <1>1 DEF HandsReady
<1>3. PlaceReady(Idle)
  BY <1>1 DEF PlaceReady, Working
<1> QED BY <1>2, <1>3

\* A request without writes.
LEMMA RequestServes ==
  ASSUME LifecycleInv, ServedInv, "delete" \notin Ops, NEW w \in Worker, Request(w) PROVE ServedInv'
<1>1. PICK u :
        /\ Set(w, u) /\ tx[w] = Idle /\ UNCHANGED <<docs, trail, texts, index, objects, lock>>
        /\ u.recs = <<>> /\ u.row = NoRow /\ u.text = "same"
        /\ \/ u.op = "deliver" /\ u.doc = NoDoc /\ u.key \in Key /\ u.pc \in {"known", "find"}
           \/ /\ u.op = "reanonymize" /\ u.doc \in Doc /\ u.key = docs[u.doc].key
              /\ u.state = StateOf(u.doc) /\ u.state \in {"indexed", "anonymized"}
              /\ u.pc = "raise" \/ (u.pc = "reindex" /\ u.key \in objects)
           \/ /\ u.op = "event" /\ u.doc \in Doc /\ Exists(u.doc) /\ u.key = NoKey
              /\ u.pc = "append" /\ u.then = "commit"
              /\ u.from = StateOf(u.doc) /\ u.to = u.from
  BY RequestHands
<1>2. u.op = "reanonymize" => Exists(u.doc)
  <2>1. u.op = "reanonymize" => trail[u.doc] # <<>>
    BY <1>1 DEF StateOf, Newest, Unborn
  <2> QED BY <1>1, <2>1 DEF ServedInv, Published
<1>3. HandsReady(u)
  BY <1>1, <1>2, ConstantsAssumption DEF HandsReady
<1>4. u.op = "event" => Ready(u, u.to)
  <2>1. ASSUME u.op = "event" PROVE CurrentState(u) = StateOf(u.doc) /\ u.recs \in Seq(Record)
    <3>1. u.doc \in Doc /\ trail[u.doc] \in Seq(Record) /\ u.recs = <<>>
      BY <1>1, <2>1 DEF LifecycleInv, TypeOK
    <3>2. trail[u.doc] \o u.recs = trail[u.doc]
      BY <3>1
    <3> QED BY <3>1, <3>2 DEF CurrentState, StateOf
  <2> QED BY <1>1, <1>3, <2>1, StateReady DEF ServedInv
<1>5. PlaceReady(u)
  BY <1>1, <1>4 DEF PlaceReady, Working
<1> QED BY <1>1, <1>3, <1>5, ServedQuietly

\* A worker that goes on to a place that asks for nothing it does not have.
LEMMA PlaceServes ==
  ASSUME LifecycleInv, ServedInv, NEW w \in Worker, NEW t, Holds(w, t), NEW u, Set(w, u), SameHands(u, t),
         UNCHANGED <<docs, trail, texts, index>>, objects \subseteq objects',
         u.pc \in {"skipped", "write", "read", "profile", "extract", "anonymize", "index",
                   "recover", "repoint", "retire", "commit", "raise"},
         t.op = "deliver" /\ u.pc \in Working => t.key \in objects',
         u.pc \in {"recover", "repoint", "retire"} => t.row = NoRow,
         u.pc = "repoint" => OcrOf[t.key] \in objects'
  PROVE  ServedInv'
<1>1. Published' /\ Grows
  BY NothingPublished DEF ServedInv
<1>2. HandsReady(u)'
  BY <1>1, SameReady, ReadyStays DEF Holds
<1>3. PlaceReady(u)'
  BY DEF PlaceReady, SameHands
<1> QED BY <1>1, <1>2, <1>3, ServedMoves

\* A transition from hands that are fit to be published.
LEMMA TransitionServes ==
  ASSUME LifecycleInv, ServedInv, NEW w \in Worker, NEW u, Set(w, u),
         u.doc \in Doc, u.recs \in Seq(Record), HandsReady(u),
         NEW to \in State, NEW then \in Onward, Went(u, to, then),
         to = "anonymized" => u.text = "put", to = "indexed" => Listed(u),
         u.op = "deliver" /\ then # "write" => u.key \in objects,
         then = "retire" => u.row = NoRow,
         UNCHANGED <<docs, trail, texts, index, objects>>
  PROVE  ServedInv'
<1>1. PlaceReady(u)
  BY WentReady DEF ServedInv
<1> QED BY <1>1, ServedQuietly

\* register_live and write_original.
LEMMA IngestServes ==
  ASSUME LifecycleInv, ServedInv, NEW w \in Worker,
         Known(w) \/ Skipped(w) \/ Find(w) \/ WriteOriginal(w)
  PROVE  ServedInv'
<1>1. PICK t : Holds(w, t)
  BY HeldByWorker
<1>2. CASE Known(w)
  <2>1. t.pc = "known" /\ t.op = "deliver" /\ t.recs = <<>> /\ t.text = "same" /\ t.row = NoRow
        /\ t.key \in Key
    BY <1>1, <1>2 DEF Known, At, Holds, PlaceReady, Placed, Delivering
  <2>2. ASSUME NEW d \in LiveFor(t.key), Set(w, [t EXCEPT !.pc = "skipped", !.doc = d])
        PROVE  ServedInv'
    <3>1. PICK u : u = [t EXCEPT !.pc = "skipped", !.doc = d]
      OBVIOUS
    <3>2. /\ u.pc = "skipped" /\ u.doc = d /\ u.op = t.op /\ u.key = t.key /\ u.row = t.row
          /\ u.text = t.text /\ u.recs = t.recs
      BY <1>1, <3>1 DEF Holds, Idle
    <3>3. d \in Doc /\ Exists(d)
      BY <2>1, ConstantsAssumption DEF LiveFor, Exists, NoRow
    <3>4. HandsReady(u) /\ PlaceReady(u)
      BY <2>1, <3>2, <3>3 DEF HandsReady, PlaceReady, Working
    <3> QED BY <1>2, <2>2, <3>1, <3>4, ServedQuietly DEF Known
  <2> QED BY <1>1, <1>2, <2>2, IdleReady, ServedQuietly DEF Known, Holds
<1>3. CASE Skipped(w)
  BY <1>3, IdleReady, ServedQuietly DEF Skipped
<1>4. CASE Find(w)
  <2>1. PICK u :
          /\ Set(w, u) /\ t.pc = "find"
          /\ u.op = t.op /\ u.key = t.key /\ u.text = t.text /\ u.recs = t.recs
          /\ \/ u.doc \in LiveFor(t.key) /\ u.row = t.row /\ u.pc = "write"
             \/ /\ u.doc \in Doc /\ ~Exists(u.doc)
                /\ u.row = [key |-> t.key, by |-> NoDoc] /\ Went(u, "registered", "write")
    BY <1>1, <1>4, FindHands DEF Holds
  <2>2. t.op = "deliver" /\ t.recs = <<>> /\ t.text = "same" /\ t.row = NoRow /\ t.key \in Key
    BY <1>1, <2>1 DEF Holds, PlaceReady, Placed, Delivering
  <2>3. UNCHANGED <<docs, trail, texts, index, objects>>
    BY <1>4 DEF Find
  <2>4. CASE u.doc \in LiveFor(t.key) /\ u.row = t.row /\ u.pc = "write"
    <3>1. u.doc \in Doc /\ Exists(u.doc)
      BY <2>2, <2>4, ConstantsAssumption DEF LiveFor, Exists, NoRow
    <3>2. HandsReady(u) /\ PlaceReady(u)
      BY <2>1, <2>2, <2>4, <3>1 DEF HandsReady, PlaceReady, Working
    <3> QED BY <2>1, <2>3, <3>2, ServedQuietly
  <2>5. CASE /\ u.doc \in Doc /\ u.row = [key |-> t.key, by |-> NoDoc]
             /\ Went(u, "registered", "write")
    <3>1. u.row # NoRow /\ u.row.key = u.key
      BY <2>1, <2>2, <2>5, ConstantsAssumption DEF NoRow
    <3>2. HandsReady(u) /\ u.recs \in Seq(Record)
      BY <2>1, <2>2, <3>1 DEF HandsReady
    <3> QED BY <2>1, <2>3, <2>5, <3>2, TransitionServes DEF State, Onward
  <2> QED BY <2>1, <2>4, <2>5
<1>5. CASE WriteOriginal(w)
  <2>0. PICK u : u = [t EXCEPT !.pc = "commit"]
    OBVIOUS
  <2>1. Set(w, u) /\ SameHands(u, t) /\ u.pc = "commit"
    BY <1>1, <1>5, <2>0 DEF WriteOriginal, Holds, SameHands, Idle
  <2>2. t.key \in objects' /\ objects \subseteq objects' /\ UNCHANGED <<docs, trail, texts, index>>
    BY <1>1, <1>5 DEF WriteOriginal, Holds
  <2> QED BY <1>1, <2>1, <2>2, PlaceServes
<1> QED BY <1>2, <1>3, <1>4, <1>5

\* process.
LEMMA ProcessServes ==
  ASSUME LifecycleInv, ServedInv, NEW w \in Worker,
         ReadState(w) \/ Profile(w) \/ Extract(w) \/ Anonymize(w) \/ Index(w) \/ Indexed(w)
  PROVE  ServedInv'
<1>1. PICK t : Holds(w, t)
  BY HeldByWorker
<1>2. t.pc \in {"read", "profile", "extract", "anonymize", "index", "indexed"}
  BY <1>1 DEF ReadState, Profile, Extract, Anonymize, Index, Indexed, At, Holds
<1>3. t.op = "deliver" /\ t.doc \in Doc /\ t.key \in Key /\ t.key \in objects /\ t.recs \in Seq(Record)
  BY <1>1, <1>2 DEF Holds, PlaceReady, Placed, Delivering, Working, Transaction
<1>4. CASE ReadState(w)
  <2>1. PICK p \in {"profile", "extract", "anonymize", "index", "commit", "raise"} :
          Set(w, [t EXCEPT !.state = CurrentState(t), !.pc = p])
    BY <1>1, <1>4 DEF ReadState, Holds
  <2>2. PICK u : u = [t EXCEPT !.state = CurrentState(t), !.pc = p]
    OBVIOUS
  <2>3. Set(w, u) /\ SameHands(u, t) /\ u.pc = p
    BY <1>1, <2>1, <2>2 DEF Holds, SameHands, Idle
  <2> QED BY <1>1, <1>3, <1>4, <2>3, PlaceServes DEF ReadState
<1>5. CASE Profile(w) \/ Extract(w) \/ Indexed(w)
  <2>1. PICK to \in State, then \in {"commit", "extract", "anonymize"} :
          /\ Transition(w, t, to, then) /\ to # "anonymized"
          /\ to = "indexed" => t.pc = "indexed"
    BY <1>1, <1>5 DEF Profile, Extract, Indexed, At, State, Holds
  <2>2. PICK u : Set(w, u) /\ SameHands(u, t) /\ Went(u, to, then)
    BY <1>1, <2>1, TransitionHands DEF Holds
  <2>3. HandsReady(u) /\ (to = "indexed" => Listed(u))
    BY <1>1, <2>1, <2>2, SameReady DEF Holds, PlaceReady, Listed, SameHands
  <2>4. u.doc \in Doc /\ u.recs \in Seq(Record) /\ u.key \in objects
    BY <1>3, <2>2 DEF SameHands
  <2>5. UNCHANGED <<docs, trail, texts, index, objects>>
    BY <1>5 DEF Profile, Extract, Indexed
  <2> QED BY <2>1, <2>2, <2>3, <2>4, <2>5, TransitionServes DEF Onward
<1>6. CASE Anonymize(w)
  <2>1. PICK v : v = [t EXCEPT !.text = "put"]
    OBVIOUS
  <2>2. /\ DOMAIN v = DOMAIN Idle /\ v.op = t.op /\ v.doc = t.doc /\ v.key = t.key /\ v.row = t.row
        /\ v.recs = t.recs /\ v.text = "put"
    BY <1>1, <2>1 DEF Holds, Idle
  <2>3. Transition(w, v, "anonymized", "index") /\ UNCHANGED <<docs, trail, texts, index, objects>>
    BY <1>1, <1>6, <2>1 DEF Anonymize, Holds
  <2>4. PICK u : Set(w, u) /\ SameHands(u, v) /\ Went(u, "anonymized", "index")
    BY <2>2, <2>3, TransitionHands
  <2>5. HandsReady(u)
    BY <1>1, <2>2, <2>4 DEF Holds, HandsReady, SameHands, Ready, Listed
  <2> QED BY <1>3, <2>2, <2>3, <2>4, <2>5, TransitionServes DEF SameHands, State, Onward
<1>7. CASE Index(w)
  <2>0. PICK u : u = [t EXCEPT !.pc = "indexed"]
    OBVIOUS
  <2>1. Set(w, u) /\ SameHands(u, t) /\ u.pc = "indexed"
    BY <1>1, <1>7, <2>0 DEF Index, Holds, SameHands, Idle
  <2>2. /\ index' = [index EXCEPT ![t.doc] = t.key] /\ UNCHANGED <<docs, trail, texts, objects>>
        /\ index \in [Doc -> Key \cup {NoKey}]
    BY <1>1, <1>7 DEF Index, Holds, LifecycleInv, TypeOK
  <2>3. index'[t.doc] = t.key /\ t.key # NoKey /\ \A d \in Doc \ {t.doc} : index'[d] = index[d]
    BY <1>3, <2>2, ConstantsAssumption
  <2>4. Published' /\ Grows
    BY <1>3, <2>2, <2>3, NothingPublished DEF ServedInv
  <2>5. HandsReady(u)'
    BY <1>1, <2>1, <2>4, SameReady, ReadyStays DEF Holds
  <2>6. PlaceReady(u)'
    BY <1>3, <2>1, <2>2, <2>3 DEF PlaceReady, SameHands, Listed, Working
  <2> QED BY <2>1, <2>4, <2>5, <2>6, ServedMoves
<1> QED BY <1>4, <1>5, <1>6, <1>7

\* recover and supersede.
LEMMA RecoveryServes ==
  ASSUME LifecycleInv, ServedInv, NEW w \in Worker, Recover(w) \/ Repoint(w) \/ Retire(w)
  PROVE  ServedInv'
<1>1. PICK t : Holds(w, t)
  BY HeldByWorker
<1>2. t.pc \in {"recover", "repoint", "retire"}
  BY <1>1 DEF Recover, Repoint, Retire, At, Holds
<1>3. /\ t.op = "deliver" /\ t.doc \in Doc /\ t.key \in Key /\ t.key \in objects
      /\ t.recs \in Seq(Record) /\ t.row = NoRow /\ Exists(t.doc)
  BY <1>1, <1>2 DEF Holds, HandsReady, PlaceReady, Placed, Delivering, Working, Transaction
<1>4. CASE Recover(w)
  <2>1. CASE Set(w, [t EXCEPT !.pc = "raise"]) /\ UNCHANGED objects
    <3>1. PICK u : u = [t EXCEPT !.pc = "raise"]
      OBVIOUS
    <3>2. Set(w, u) /\ SameHands(u, t) /\ u.pc = "raise"
      BY <1>1, <2>1, <3>1 DEF Holds, SameHands, Idle
    <3> QED BY <1>1, <1>4, <2>1, <3>2, PlaceServes DEF Recover, Working
  <2>2. CASE Event(w, t, CurrentState(t), "commit") /\ UNCHANGED objects
    <3>1. PICK u : /\ Set(w, u) /\ SameHands(u, t) /\ u.pc = "append" /\ u.then = "commit"
                   /\ u.to = CurrentState(t)
      BY <1>1, <2>2, EventHands DEF Holds
    <3>2. Ready(t, CurrentState(t))
      BY <1>1, <1>3, StateReady DEF Holds, ServedInv
    <3>3. HandsReady(u) /\ Ready(u, u.to)
      BY <1>1, <3>1, <3>2, SameReady DEF Holds
    <3>4. PlaceReady(u)
      BY <1>3, <3>1, <3>3 DEF PlaceReady, SameHands, Working
    <3> QED BY <1>4, <2>2, <3>1, <3>3, <3>4, ServedQuietly DEF Recover
  <2>3. CASE /\ objects' = objects \cup {OcrOf[t.key]}
             /\ Set(w, [t EXCEPT !.state = CurrentState(t), !.pc = "repoint"])
    <3>1. PICK u : u = [t EXCEPT !.state = CurrentState(t), !.pc = "repoint"]
      OBVIOUS
    <3>2. Set(w, u) /\ SameHands(u, t) /\ u.pc = "repoint"
      BY <1>1, <2>3, <3>1 DEF Holds, SameHands, Idle
    <3> QED BY <1>1, <1>3, <1>4, <2>3, <3>2, PlaceServes DEF Recover
  <2> QED BY <1>1, <1>4, <2>1, <2>2, <2>3 DEF Recover, Holds
<1>5. CASE Repoint(w)
  <2>1. PICK u :
          /\ Set(w, u) /\ t.pc = "repoint"
          /\ u.op = t.op /\ u.doc = t.doc /\ u.text = t.text /\ u.recs = t.recs
          /\ \/ u.key = t.key /\ u.row = t.row /\ Went(u, "superseded", "retire")
             \/ /\ u.key = OcrOf[t.key] /\ u.row = [docs[t.doc] EXCEPT !.key = OcrOf[t.key]]
                /\ Went(u, "extractable", "commit")
    BY <1>1, <1>5, RepointHands DEF Holds
  <2>2. UNCHANGED <<docs, trail, texts, index, objects>> /\ docs[t.doc] \in Rows
    BY <1>3, <1>5 DEF Repoint, LifecycleInv, TypeOK
  <2>3. OcrOf[t.key] \in objects
    BY <1>1, <2>1 DEF Holds, PlaceReady
  <2>4. CASE u.key = t.key /\ u.row = t.row /\ Went(u, "superseded", "retire")
    <3>1. HandsReady(u)
      BY <1>1, <2>1, <2>4, SameReady DEF Holds, SameHands
    <3> QED BY <1>3, <2>1, <2>2, <2>4, <3>1, TransitionServes DEF State, Onward
  <2>5. CASE /\ u.key = OcrOf[t.key] /\ u.row = [docs[t.doc] EXCEPT !.key = OcrOf[t.key]]
             /\ Went(u, "extractable", "commit")
    <3>1. u.row.key = u.key
      BY <2>2, <2>5 DEF Rows
    <3>2. HandsReady(u)
      BY <1>1, <1>3, <2>1, <3>1 DEF Holds, HandsReady, Ready, Listed
    <3> QED BY <1>3, <2>1, <2>2, <2>3, <2>5, <3>2, TransitionServes DEF State, Onward
  <2> QED BY <2>1, <2>4, <2>5
<1>6. CASE Retire(w)
  <2>1. PICK u :
          /\ Set(w, u) /\ u.op = t.op /\ u.doc = t.doc /\ u.key = t.key
          /\ u.text = t.text /\ u.recs = t.recs
          /\ \/ u.pc = "raise" /\ u.row = t.row
             \/ u.pc = "commit" /\ u.row = [docs[t.doc] EXCEPT !.by = t.owner]
    BY <1>1, <1>6, RetireHands DEF Holds
  <2>2. docs[t.doc] \in Rows /\ docs[t.doc].key \in objects
    BY <1>3 DEF LifecycleInv, TypeOK, ServedInv, Published
  <2>3. [docs[t.doc] EXCEPT !.by = t.owner].key \in objects
    BY <2>2 DEF Rows
  <2>4. HandsReady(u)
    BY <1>1, <1>3, <2>1, <2>3 DEF Holds, HandsReady, Ready, Listed
  <2>5. PlaceReady(u)
    BY <1>3, <2>1 DEF PlaceReady, Working
  <2> QED BY <1>6, <2>1, <2>4, <2>5, ServedQuietly DEF Retire
<1> QED BY <1>4, <1>5, <1>6

\* reanonymize and note_failure.
LEMMA ReanonymizationServes ==
  ASSUME LifecycleInv, ServedInv, NEW w \in Worker, Reindex(w) \/ Retext(w) \/ NoteFailure(w)
  PROVE  ServedInv'
<1>1. PICK t : Holds(w, t)
  BY HeldByWorker
<1>2. t.pc \in {"reindex", "retext", "note"}
  BY <1>1 DEF Reindex, Retext, NoteFailure, At, Holds
<1>3. t.doc \in Doc /\ t.recs \in Seq(Record)
  BY <1>1, <1>2 DEF Holds, Placed, Transaction
<1>4. CASE Reindex(w)
  <2>1. PICK u : u = [t EXCEPT !.pc = "retext"]
    OBVIOUS
  <2>2. Set(w, u) /\ SameHands(u, t) /\ u.pc = "retext"
    BY <1>1, <1>4, <2>1 DEF Reindex, Holds, SameHands, Idle
  <2>3. /\ index' = [index EXCEPT ![t.doc] = t.key] /\ UNCHANGED <<docs, trail, texts, objects>>
        /\ index \in [Doc -> Key \cup {NoKey}] /\ t.key \in Key /\ t.key \in objects
    BY <1>1, <1>4 DEF Reindex, At, Holds, Placed, PlaceReady, LifecycleInv, TypeOK
  <2>4. index'[t.doc] = t.key /\ t.key # NoKey /\ \A d \in Doc \ {t.doc} : index'[d] = index[d]
    BY <1>3, <2>3, ConstantsAssumption
  <2>5. Published' /\ Grows
    BY <2>3, <2>4, NothingPublished DEF ServedInv
  <2>6. HandsReady(u)'
    BY <1>1, <2>2, <2>5, SameReady, ReadyStays DEF Holds
  <2>7. t.op # "deliver"
    BY <1>1, <1>4 DEF Reindex, At, Holds, PlaceReady
  <2>8. PlaceReady(u)'
    BY <1>3, <2>2, <2>4, <2>7 DEF PlaceReady, SameHands, Listed, Working
  <2> QED BY <2>2, <2>5, <2>6, <2>8, ServedMoves
<1>5. CASE Retext(w)
  <2>1. PICK v : v = [t EXCEPT !.text = "put"]
    OBVIOUS
  <2>2. /\ DOMAIN v = DOMAIN Idle /\ v.op = t.op /\ v.doc = t.doc /\ v.key = t.key /\ v.row = t.row
        /\ v.recs = t.recs /\ v.text = "put"
    BY <1>1, <2>1 DEF Holds, Idle
  <2>3. Event(w, v, t.state, "commit") /\ UNCHANGED <<docs, trail, texts, index, objects>> /\ t.pc = "retext"
    BY <1>1, <1>5, <2>1 DEF Retext, Holds, At
  <2>4. PICK u : /\ Set(w, u) /\ SameHands(u, v) /\ u.pc = "append" /\ u.then = "commit"
    BY <2>2, <2>3, EventHands
  <2>5. u.text = "put" /\ Listed(u) /\ HandsReady(u)
    BY <1>1, <2>2, <2>3, <2>4 DEF Holds, PlaceReady, HandsReady, SameHands, Ready, Listed
  <2>6. t.op # "deliver"
    BY <1>1, <2>3 DEF Holds, PlaceReady
  <2>7. PlaceReady(u)
    BY <2>2, <2>4, <2>5, <2>6 DEF PlaceReady, SameHands, Ready, Working
  <2> QED BY <2>3, <2>4, <2>5, <2>7, ServedQuietly
<1>6. CASE NoteFailure(w)
  <2>1. PICK u : /\ Set(w, u) /\ SameHands(u, t) /\ u.pc = "append" /\ u.then = "commit"
                 /\ u.to = CurrentState(t)
    BY <1>1, <1>6, EventHands DEF NoteFailure, Holds
  <2>2. Ready(t, CurrentState(t))
    BY <1>1, <1>3, StateReady DEF Holds, ServedInv
  <2>3. HandsReady(u) /\ Ready(u, u.to)
    BY <1>1, <2>1, <2>2, SameReady DEF Holds
  <2>4. t.op # "deliver"
    BY <1>1, <1>6 DEF NoteFailure, At, Holds, PlaceReady
  <2>5. PlaceReady(u)
    BY <1>1, <2>1, <2>3, <2>4 DEF PlaceReady, SameHands, Working
  <2> QED BY <1>6, <2>1, <2>3, <2>5, ServedQuietly DEF NoteFailure
<1> QED BY <1>4, <1>5, <1>6

\* audit.append.
LEMMA AppendServes ==
  ASSUME LifecycleInv, ServedInv, NEW w \in Worker, AppendRecord(w) PROVE ServedInv'
<1>1. PICK t : Holds(w, t)
  BY HeldByWorker
<1>2. PICK u : /\ Set(w, u) /\ t.pc = "append" /\ u.pc = t.then
               /\ u.op = t.op /\ u.doc = t.doc /\ u.key = t.key /\ u.row = t.row
               /\ u.text = t.text /\ u.recs = Append(t.recs, [from |-> t.from, to |-> t.to])
  BY <1>1, AppendHands DEF Holds
<1>3. t.then \in Onward /\ t.recs \in Seq(Record)
  BY <1>1, <1>2 DEF Holds, Placed, Onward, Transaction
<1>4. Ready(t, t.to)
  BY <1>1, <1>2 DEF Holds, PlaceReady
<1>5. \A i \in DOMAIN u.recs : Ready(t, u.recs[i].to)
  <2>1. \A i \in DOMAIN u.recs : \/ i \in DOMAIN t.recs /\ u.recs[i] = t.recs[i]
                                 \/ u.recs[i] = [from |-> t.from, to |-> t.to]
    BY <1>2, <1>3
  <2> QED BY <1>1, <1>4, <2>1 DEF Holds, HandsReady
<1>6. HandsReady(u)
  BY <1>1, <1>2, <1>5 DEF Holds, HandsReady, Ready, Listed
<1>7. PlaceReady(u)
  BY <1>1, <1>2, <1>3 DEF Holds, PlaceReady, Onward, Working
<1> QED BY <1>2, <1>6, <1>7, ServedQuietly DEF AppendRecord

\* The end of a transaction without a commit.
LEMMA FailureServes ==
  ASSUME LifecycleInv, ServedInv, NEW w \in Worker, Raise(w) \/ Crash(w) \/ DeadlockVictim(w)
  PROVE  ServedInv'
<1>1. PICK t : Holds(w, t)
  BY HeldByWorker
<1>2. PICK u : /\ Set(w, u) /\ UNCHANGED <<docs, trail, texts, index, objects, started>>
               /\ \/ u = Idle
                  \/ /\ t.op = "reanonymize" /\ u.op = "note" /\ u.pc = "note"
                     /\ u.doc = t.doc /\ u.key = NoKey
                     /\ u.recs = <<>> /\ u.row = NoRow /\ u.text = "same"
  BY <1>1, AbandonHands DEF Holds
<1>3. CASE u = Idle
  BY <1>2, <1>3, IdleReady, ServedQuietly
<1>4. CASE u # Idle
  <2>1. HandsReady(u) /\ PlaceReady(u)
    BY <1>1, <1>2, <1>4 DEF Holds, HandsReady, PlaceReady, Working
  <2> QED BY <1>2, <2>1, ServedQuietly
<1> QED BY <1>3, <1>4

\* Commit: what was fit to be published is.
LEMMA CommitServes ==
  ASSUME LifecycleInv, ServedInv, NEW w \in Worker, Commit(w) PROVE ServedInv'
<1>1. PICK t : Holds(w, t)
  BY HeldByWorker
<1>2. PICK u : /\ Set(w, u) /\ t.pc = "commit"
               /\ \/ u = Idle
                  \/ /\ u.op = "deliver" /\ t.op = "deliver" /\ u.pc \in {"read", "recover"}
                     /\ u.doc = t.doc /\ u.key = t.key
                     /\ u.recs = <<>> /\ u.row = NoRow /\ u.text = "same"
  BY <1>1, CommitHands DEF Holds
<1>3. PICK d : d = t.doc
  OBVIOUS
<1>4. d \in Doc /\ t.recs \in Seq(Record) /\ t.text \in {"same", "put", "gone"}
  BY <1>1, <1>2, <1>3 DEF Holds, Placed, Transaction
<1>5. /\ docs' = IF t.row = NoRow THEN docs ELSE [docs EXCEPT ![d] = t.row]
      /\ trail' = [trail EXCEPT ![d] = @ \o t.recs]
      /\ texts' = IF t.text = "put" THEN texts \cup {d} ELSE texts
      /\ UNCHANGED <<index, objects>>
  BY <1>1, <1>3, <1>4 DEF Commit, Holds, HandsReady
<1>6. docs \in [Doc -> Rows] /\ trail \in [Doc -> Seq(Record)]
  BY DEF LifecycleInv, TypeOK
<1>7. t.row # NoRow => t.row.key \in objects
  BY <1>1, <1>2 DEF Holds, HandsReady, PlaceReady, Working
<1>8. \A e \in Doc : docs'[e] = docs[e] \/ (e = d /\ t.row # NoRow /\ docs'[e] = t.row)
  BY <1>4, <1>5, <1>6
<1>9. Exists(d)'
  <2>1. Exists(d) \/ t.row # NoRow
    BY <1>1, <1>3, <1>4 DEF Holds, HandsReady
  <2>2. CASE t.row = NoRow
    BY <1>5, <2>1, <2>2 DEF Exists
  <2>3. CASE t.row # NoRow
    <3>1. docs'[d] = t.row
      BY <1>4, <1>5, <1>6, <2>3
    <3> QED BY <2>3, <3>1 DEF Exists
  <2> QED BY <2>2, <2>3
<1>10. Grows
  BY <1>5, <1>8 DEF Grows, Exists
<1>11. ASSUME NEW e \in Doc, NEW i \in DOMAIN trail'[e]
       PROVE  /\ trail'[e][i].to \in WithText => e \in texts'
              /\ trail'[e][i].to = "indexed" => index[e] # NoKey
  <2>1. CASE i \in DOMAIN trail[e] /\ trail'[e][i] = trail[e][i]
    BY <1>5, <2>1 DEF ServedInv, Published
  <2>2. CASE e = d /\ \E j \in DOMAIN t.recs : trail'[e][i] = t.recs[j]
    <3>1. PICK j \in DOMAIN t.recs : trail'[e][i] = t.recs[j]
      BY <2>2
    <3>2. Ready(t, t.recs[j].to)
      BY <1>1, <3>1 DEF Holds, HandsReady
    <3> QED BY <1>3, <1>5, <2>2, <3>1, <3>2 DEF Ready, Listed
  <2>3. \/ i \in DOMAIN trail[e] /\ trail'[e][i] = trail[e][i]
        \/ e = d /\ \E j \in DOMAIN t.recs : trail'[e][i] = t.recs[j]
    <3>1. CASE e # d
      BY <1>4, <1>5, <1>6, <3>1
    <3>2. CASE e = d
      <4>1. PICK a, b : a = trail[e] /\ b = t.recs
        OBVIOUS
      <4>2. trail'[e] = a \o b /\ a \in Seq(Record) /\ b \in Seq(Record)
        BY <1>4, <1>5, <1>6, <3>2, <4>1
      <4>3. i \in DOMAIN (a \o b)
        BY <1>11, <4>2
      <4>4. \/ i \in DOMAIN a /\ (a \o b)[i] = a[i]
            \/ \E j \in DOMAIN b : (a \o b)[i] = b[j]
        BY <4>2, <4>3, AddedOrThere
      <4> QED BY <3>2, <4>1, <4>2, <4>4
    <3> QED BY <3>1, <3>2
  <2> QED BY <2>1, <2>2, <2>3
<1>12. Published'
  <2>1. ASSUME NEW e \in Doc PROVE Exists(e)' => docs'[e].key \in objects'
    BY <1>5, <1>7, <1>8 DEF Exists, ServedInv, Published
  <2>2. ASSUME NEW e \in Doc PROVE trail'[e] # <<>> => Exists(e)'
    <3>1. CASE e = d
      BY <1>9, <3>1
    <3>2. CASE e # d
      <4>1. trail'[e] = trail[e]
        BY <1>4, <1>5, <1>6, <3>2
      <4> QED BY <1>10, <4>1 DEF Grows, ServedInv, Published
    <3> QED BY <3>1, <3>2
  <2>3. \A e \in Doc : index'[e] # NoKey => index'[e] \in objects'
    BY <1>5 DEF ServedInv, Published
  <2>4. UNCHANGED index
    BY <1>5
  <2> QED BY <1>11, <2>1, <2>2, <2>3, <2>4 DEF Published
<1>13. HandsReady(u)' /\ PlaceReady(u)'
  <2>1. CASE u = Idle
    <3>1. HandsReady(u) /\ PlaceReady(u)
      BY <2>1, IdleReady
    <3> QED BY <1>10, <3>1, ReadyStays
  <2>2. CASE u # Idle
    <3>1. u.key \in objects' /\ u.doc = d
      BY <1>1, <1>2, <1>3, <1>5, <2>2 DEF Holds, PlaceReady, Working
    <3>2. HandsReady(u)'
      BY <1>2, <1>9, <2>2, <3>1 DEF HandsReady
    <3>3. PlaceReady(u)'
      BY <1>2, <2>2, <3>1 DEF PlaceReady
    <3> QED BY <3>2, <3>3
  <2> QED BY <2>1, <2>2
<1> QED BY <1>2, <1>10, <1>12, <1>13, ServedMoves

\* Nobody is at a place of a deletion.
LEMMA NothingDeletes ==
  ASSUME LifecycleInv, ServedInv, NEW w \in Worker PROVE ~Deletes(w)
<1>1. PICK t : Holds(w, t)
  BY HeldByWorker
<1> QED BY <1>1 DEF Deletes, Unindex, FindObject, JudgeObject, RemoveObject, Forget,
       At, Holds, Placed, HandsReady

\* The invariant of deliveries, re-anonymizations and events without deletions.
LEMMA ServedInvariant == ASSUME "delete" \notin Ops PROVE Spec => []ServedInv
<1>1. Init => ServedInv
  <2> SUFFICES ASSUME Init PROVE ServedInv
    OBVIOUS
  <2>1. Published
    BY DEF Init, Published, Exists
  <2>2. \A w \in Worker : tx[w] = Idle
    BY DEF Init
  <2>3. \A w \in Worker : HandsReady(tx[w]) /\ PlaceReady(tx[w])
    BY <2>2, IdleReady
  <2> QED BY <2>1, <2>3 DEF ServedInv
<1>2. LifecycleInv /\ ServedInv /\ [Next]_vars => ServedInv'
  <2> SUFFICES ASSUME LifecycleInv, ServedInv, [Next]_vars PROVE ServedInv'
    OBVIOUS
  <2>1. ASSUME NEW w \in Worker PROVE ~Deletes(w)
    BY NothingDeletes
  <2>2. ASSUME NEW w \in Worker, Request(w) \/ Step(w) \/ Crash(w) PROVE ServedInv'
    BY <2>1, <2>2, RequestServes, IngestServes, ProcessServes, RecoveryServes,
       ReanonymizationServes, AppendServes, CommitServes, FailureServes DEF Step, Deletes
  <2>3. CASE UNCHANGED vars
    <3>1. Published'
      BY <2>3 DEF vars, ServedInv, Published, Exists
    <3>2. \A w \in Worker : (HandsReady(tx[w]) /\ PlaceReady(tx[w]))'
      BY <2>3 DEF vars, ServedInv, HandsReady, PlaceReady, Ready, Listed, Exists
    <3> QED BY <3>1, <3>2 DEF ServedInv
  <2> QED BY <2>2, <2>3 DEF Next
<1> QED BY <1>1, <1>2, LifecycleInvariant, PTL DEF Spec

\* pipeline.process and reanonymize: where nothing is deleted, a document that was
\* indexed once keeps its text, its object and the object its entry names, whatever
\* deliveries of the same bytes do with a state they read too early.
THEOREM IndexedStaysServed == ASSUME "delete" \notin Ops PROVE Spec => []OnceIndexedIsServed
<1>1. ServedInv => OnceIndexedIsServed
  BY DEF ServedInv, Published, OnceIndexedIsServed, WithText
<1> QED BY <1>1, ServedInvariant, PTL

-----------------------------------------------------------------------------
(* One worker at a time: nothing interleaves, everything may be interrupted. *)

Alone == \A v, w \in Worker : v = w

\* States that nothing but supersession and deletion follows.
Final == {"indexed", "superseded", "deleted"}

\* The places without a document, or with nothing left to publish.
Unbound == {"idle", "known", "find", "raise"}

\* The key its document will have.
RowKey(t) == IF t.row = NoRow THEN docs[t.doc].key ELSE t.row.key

\* Its document will have a text.
HasText(t) == t.text = "put" \/ (t.text = "same" /\ t.doc \in texts)

\* What is committed fits together.
Consistent ==
  \A d \in Doc :
    /\ Whole(trail[d])
    /\ StateOf(d) \in WithText => d \in texts
    /\ StateOf(d) = "deleted" => index[d] = NoKey /\ d \notin texts

\* So does what a transaction has written so far.
Carried(t) ==
  LET s == CurrentState(t) IN
  /\ Whole(trail[t.doc] \o t.recs)
  /\ StateOf(t.doc) \in Final => s \in Final
  /\ StateOf(t.doc) = "deleted" => s = "deleted"
  /\ s = "deleted" => t.op = "delete" \/ StateOf(t.doc) = "deleted"
  /\ t.text = "put" => t.op # "delete" /\ s # "deleted"
  /\ t.text = "gone" => t.op = "delete"
  /\ s \in WithText => t.op = "delete" \/ HasText(t)
  /\ t.op = "deliver" => RowKey(t) = t.key

\* The record it goes on to append fits what it has written.
Fits(t) ==
  /\ t.from = CurrentState(t)
  /\ t.from = t.to \/ IsAllowed(t.from, t.to)
  /\ t.to = "deleted" => t.op = "delete" \/ t.from = "deleted"
  /\ t.to \in WithText => HasText(t)
  /\ t.then = "extract" => t.to = "extractable"
  /\ t.then = "anonymize" => t.to = "extracted"
  /\ t.then = "index" => t.to = "anonymized"
  /\ t.op = "deliver" /\ t.then # "write" => t.key \in objects
  /\ t.then = "retire" => t.row = NoRow

\* How far a deletion has come.
Deleting(t) ==
  /\ t.key = docs[t.doc].key
  /\ t.pc \in {"unindex", "drop", "claim", "remove", "forget"} =>
       /\ t.state = StateOf(t.doc) /\ t.row = NoRow /\ t.recs = <<>> /\ t.text = "same"
  /\ t.pc \in {"drop", "claim", "remove", "forget", "append", "commit"} => index[t.doc] = NoKey
  /\ t.pc = "remove" => ~ClaimedElsewhere(t.doc, t.key)
  /\ t.pc \in {"forget", "append", "commit"} =>
       (t.key \in objects => ClaimedElsewhere(t.doc, t.key))
  /\ t.pc \in {"append", "commit"} =>
       /\ StateOf(t.doc) # "deleted" => t.row.key = Released
       /\ t.doc \in texts => t.text = "gone"
  /\ t.pc = "append" => t.to = "deleted"
  /\ t.pc = "commit" => CurrentState(t) = "deleted"

\* What its place asks for.
Headed(t) ==
  /\ t.pc \in {"known", "find"} => t.recs = <<>> /\ t.text = "same"
  /\ (t.op = "deliver" /\ t.pc \in Working) => t.key \in objects
  /\ t.pc \in {"recover", "repoint", "retire"} => t.row = NoRow
  /\ t.pc = "repoint" => OcrOf[t.key] \in objects /\ CurrentState(t) = "unprocessable_ocr"
  /\ t.pc = "extract" => CurrentState(t) = "extractable"
  /\ t.pc = "anonymize" => CurrentState(t) = "extracted"
  /\ t.pc \in {"index", "indexed"} => CurrentState(t) = "anonymized"
  /\ t.pc \in {"reindex", "retext"} =>
       /\ t.op = "reanonymize" /\ t.state = CurrentState(t) /\ t.state \in WithText
       /\ t.row = NoRow /\ t.key = docs[t.doc].key /\ t.key \in objects
  /\ t.pc = "note" => t.op = "note"
  /\ t.pc = "append" => Fits(t)
  /\ (t.op = "delete" /\ t.pc # "raise") => Deleting(t)

Fine(t) == Headed(t) /\ (t.pc \notin Unbound => Carried(t))

OneWorkerInv == Consistent /\ \A w \in Worker : Fine(tx[w])

\* From a final state no edge leads to another one but to retire or delete.
LEMMA FinalEdges ==
  ASSUME NEW from \in State \cup {Unborn}, NEW to \in State \cup {Unborn}, IsAllowed(from, to)
  PROVE  /\ from \in Final => to \in Final
         /\ from # "deleted"
         /\ to = "indexed" => from = "anonymized"
         /\ to # Unborn
BY DEF IsAllowed, Edges, State, Unborn, Final

\* Without writes, what a transaction sees is what is committed.
LEMMA FreshCarried ==
  ASSUME LifecycleInv, Consistent, NEW u, u.doc \in Doc,
         u.recs = <<>>, u.row = NoRow, u.text = "same",
         u.op = "deliver" => docs[u.doc].key = u.key
  PROVE  Carried(u) /\ CurrentState(u) = StateOf(u.doc)
<1>1. trail[u.doc] \o u.recs = trail[u.doc]
  <2>1. trail[u.doc] \in Seq(Record)
    BY DEF LifecycleInv, TypeOK
  <2> QED BY <2>1
<1>2. CurrentState(u) = StateOf(u.doc)
  BY <1>1 DEF CurrentState, StateOf
<1>3. RowKey(u) = docs[u.doc].key
  BY DEF RowKey
<1>4. Carried(u)
  BY <1>1, <1>2, <1>3 DEF Carried, Consistent, HasText
<1> QED BY <1>2, <1>4

\* The same writes in other hands.
LEMMA SameCarried ==
  ASSUME NEW t, NEW u, SameHands(u, t)
  PROVE  /\ Carried(t) => Carried(u)
         /\ CurrentState(u) = CurrentState(t)
         /\ HasText(t) <=> HasText(u)
         /\ RowKey(u) = RowKey(t)
<1>1. CurrentState(u) = CurrentState(t)
  BY DEF SameHands, CurrentState
<1>2. RowKey(u) = RowKey(t)
  BY DEF SameHands, RowKey
<1>3. HasText(t) <=> HasText(u)
  BY DEF SameHands, HasText
<1>4. Carried(t) => Carried(u)
  BY <1>1, <1>2, <1>3 DEF SameHands, Carried
<1> QED BY <1>1, <1>2, <1>3, <1>4

\* A step of the only worker.
LEMMA OneMoves ==
  ASSUME LifecycleInv, Alone, NEW w \in Worker, NEW u, Set(w, u), Consistent', Fine(u)'
  PROVE  OneWorkerInv'
<1>1. tx'[w] = u
  BY DEF Set, LifecycleInv, TypeOK
<1>2. ASSUME NEW v \in Worker PROVE Fine(tx[v])'
  <2>1. v = w
    BY DEF Alone
  <2>2. tx'[v] = u
    BY <1>1, <2>1
  <2> QED BY <2>2 DEF Fine, Headed, Carried, Deleting, Fits, HasText, RowKey, CurrentState,
                   StateOf, ClaimedElsewhere
<1> QED BY <1>2 DEF OneWorkerInv

\* While nothing outside its own record changes, nothing else does.
LEMMA StillFine ==
  ASSUME UNCHANGED <<docs, trail, texts, index, objects>>, NEW u, Fine(u)
  PROVE  Fine(u)'
<1>1. CurrentState(u)' = CurrentState(u) /\ RowKey(u)' = RowKey(u) /\ StateOf(u.doc)' = StateOf(u.doc)
  BY DEF CurrentState, RowKey, StateOf
<1>2. HasText(u)' <=> HasText(u)
  BY DEF HasText
<1>3. ClaimedElsewhere(u.doc, u.key)' <=> ClaimedElsewhere(u.doc, u.key)
  BY DEF ClaimedElsewhere, StateOf
<1>4. Carried(u)' <=> Carried(u)
  BY <1>1, <1>2 DEF Carried
<1>5. Headed(u)' <=> Headed(u)
  <2>1. Fits(u)' <=> Fits(u)
    BY <1>1, <1>2 DEF Fits
  <2>2. Deleting(u)' <=> Deleting(u)
    BY <1>1, <1>3 DEF Deleting
  <2> QED BY <1>1, <1>2, <2>1, <2>2 DEF Headed
<1> QED BY <1>4, <1>5 DEF Fine

LEMMA OneQuietly ==
  ASSUME LifecycleInv, OneWorkerInv, Alone, NEW w \in Worker, NEW u, Set(w, u), Fine(u),
         UNCHANGED <<docs, trail, texts, index, objects>>
  PROVE  OneWorkerInv'
<1>1. Consistent'
  BY DEF OneWorkerInv, Consistent, StateOf
<1>2. Fine(u)'
  BY StillFine
<1> QED BY <1>1, <1>2, OneMoves

\* A transition goes on to something that fits.
LEMMA WentFine ==
  ASSUME LifecycleInv, NEW u, u.doc \in Doc, u.recs \in Seq(Record), Carried(u),
         NEW to \in State, NEW then \in Onward, Went(u, to, then),
         to = "deleted" => u.op = "delete", to \in WithText => HasText(u),
         then = "extract" => to = "extractable", then = "anonymize" => to = "extracted",
         then = "index" => to = "anonymized", then = "retire" => u.row = NoRow,
         u.op = "deliver" /\ then # "write" => u.key \in objects,
         u.op = "delete" =>
           /\ to = "deleted" /\ then = "commit"
           /\ u.key = docs[u.doc].key /\ index[u.doc] = NoKey
           /\ u.key \in objects => ClaimedElsewhere(u.doc, u.key)
           /\ StateOf(u.doc) # "deleted" => u.row.key = Released
           /\ u.doc \in texts => u.text = "gone"
  PROVE  Fine(u)
<1>1. CASE u.pc = "raise"
  BY <1>1 DEF Fine, Headed, Working, Unbound
<1>2. CASE u.pc = then /\ CurrentState(u) = to
  BY <1>2 DEF Fine, Headed, Deleting, Working, Onward
<1>3. CASE u.pc = "append" /\ u.then = then /\ u.to = to /\ u.from = CurrentState(u)
           /\ IsAllowed(u.from, to)
  <2>1. Fits(u)
    BY <1>3 DEF Fits
  <2>2. u.op = "delete" => Deleting(u)
    BY <1>3 DEF Deleting
  <2> QED BY <1>3, <2>1, <2>2 DEF Fine, Headed, Working
<1> QED BY <1>1, <1>2, <1>3 DEF Went

\* So does an event, with the state of the document.
LEMMA EventFine ==
  ASSUME NEW u, Carried(u), u.op # "delete", u.op = "deliver" => u.key \in objects,
         u.pc = "append", u.then = "commit", u.from = CurrentState(u), u.to = u.from
  PROVE  Fine(u)
<1>1. Fits(u)
  BY DEF Fits, Carried
<1> QED BY <1>1 DEF Fine, Headed, Working

\* What a worker holds when it takes a step.
Has(w, t) == t = tx[w] /\ DOMAIN t = DOMAIN Idle /\ t \in Transaction /\ Placed(t) /\ Fine(t)

LEMMA HadByWorker ==
  ASSUME LifecycleInv, OneWorkerInv, NEW w \in Worker PROVE \E t : Has(w, t)
<1>1. PICK t : t = tx[w]
  OBVIOUS
<1>2. t \in Transaction /\ Placed(t)
  BY <1>1 DEF LifecycleInv, TypeOK
<1>3. DOMAIN t = DOMAIN Idle
  BY <1>2 DEF Transaction, Idle
<1> QED BY <1>1, <1>2, <1>3 DEF OneWorkerInv, Has

LEMMA IdleFine == Fine(Idle)
<1>1. Idle.pc = "idle" /\ Idle.op = "none"
  BY DEF Idle
<1> QED BY <1>1 DEF Fine, Headed, Working, Unbound

\* What is asked for starts from what is committed.
LEMMA RequestFine ==
  ASSUME LifecycleInv, OneWorkerInv, Alone, NEW w \in Worker, Request(w) PROVE OneWorkerInv'
<1>1. PICK u :
        /\ Set(w, u) /\ UNCHANGED <<docs, trail, texts, index, objects, lock>>
        /\ u.recs = <<>> /\ u.row = NoRow /\ u.text = "same"
        /\ \/ u.op = "deliver" /\ u.pc \in {"known", "find"}
           \/ /\ u.op = "delete" /\ u.pc = "unindex"
              /\ u.doc \in Doc /\ u.key = docs[u.doc].key /\ u.state = StateOf(u.doc)
           \/ /\ u.op = "reanonymize" /\ u.doc \in Doc /\ u.key = docs[u.doc].key
              /\ u.state = StateOf(u.doc) /\ u.state \in {"indexed", "anonymized"}
              /\ u.pc = "raise" \/ (u.pc = "reindex" /\ u.key \in objects)
           \/ /\ u.op = "event" /\ u.doc \in Doc
              /\ u.pc = "append" /\ u.then = "commit"
              /\ u.from = StateOf(u.doc) /\ u.to = u.from
  BY RequestHands
<1>2. CASE u.op = "deliver"
  BY <1>1, <1>2, OneQuietly DEF Fine, Headed, Working, Unbound
<1>3. ASSUME u.op # "deliver" PROVE u.doc \in Doc /\ Carried(u) /\ CurrentState(u) = StateOf(u.doc)
  BY <1>1, <1>3, FreshCarried DEF OneWorkerInv
<1>4. CASE u.op = "delete"
  <2>1. Deleting(u)
    BY <1>1, <1>4 DEF Deleting
  <2> QED BY <1>1, <1>3, <1>4, <2>1, OneQuietly DEF Fine, Headed, Working
<1>5. CASE u.op = "reanonymize"
  BY <1>1, <1>3, <1>5, OneQuietly DEF Fine, Headed, Working, WithText
<1>6. CASE u.op = "event"
  <2>1. Fine(u)
    BY <1>1, <1>3, <1>6, EventFine
  <2> QED BY <1>1, <2>1, OneQuietly
<1> QED BY <1>1, <1>2, <1>4, <1>5, <1>6

\* A worker that goes on to a place that asks for nothing it does not have.
LEMMA PlaceFine ==
  ASSUME NEW t, Fine(t), NEW u, SameHands(u, t), t.pc \notin Unbound, t.op # "delete",
         u.pc \in {"skipped", "write", "read", "profile", "extract", "anonymize", "index",
                   "recover", "repoint", "retire", "commit", "raise"},
         t.op = "deliver" /\ u.pc \in Working => t.key \in objects,
         u.pc \in {"recover", "repoint", "retire"} => t.row = NoRow,
         u.pc = "repoint" => OcrOf[t.key] \in objects /\ CurrentState(t) = "unprocessable_ocr",
         u.pc = "extract" => CurrentState(t) = "extractable",
         u.pc = "anonymize" => CurrentState(t) = "extracted",
         u.pc = "index" => CurrentState(t) = "anonymized"
  PROVE  Fine(u)
<1>1. Carried(u) /\ CurrentState(u) = CurrentState(t)
  BY SameCarried DEF Fine
<1>2. Headed(u)
  BY <1>1 DEF Headed, SameHands
<1> QED BY <1>1, <1>2 DEF Fine

\* A step outside the tables leaves what is carried.
LEMMA CarriedOn ==
  ASSUME UNCHANGED <<docs, trail, texts>>, NEW u
  PROVE  /\ CurrentState(u)' = CurrentState(u) /\ RowKey(u)' = RowKey(u)
         /\ StateOf(u.doc)' = StateOf(u.doc) /\ (HasText(u)' <=> HasText(u))
         /\ Carried(u) => Carried(u)'
<1>1. CurrentState(u)' = CurrentState(u) /\ RowKey(u)' = RowKey(u) /\ StateOf(u.doc)' = StateOf(u.doc)
  BY DEF CurrentState, RowKey, StateOf
<1>2. HasText(u)' <=> HasText(u)
  BY DEF HasText
<1>3. Carried(u) => Carried(u)'
  BY <1>1, <1>2 DEF Carried
<1> QED BY <1>1, <1>2, <1>3

\* register_live and write_original.
LEMMA IngestFine ==
  ASSUME LifecycleInv, OneWorkerInv, Alone, NEW w \in Worker,
         Known(w) \/ Skipped(w) \/ Find(w) \/ WriteOriginal(w)
  PROVE  OneWorkerInv'
<1>1. PICK t : Has(w, t)
  BY HadByWorker
<1>2. CASE Known(w)
  <2>1. t.pc = "known" /\ t.op = "deliver" /\ t.recs = <<>> /\ t.text = "same" /\ t.row = NoRow
    BY <1>1, <1>2 DEF Known, At, Has, Fine, Headed, Placed, Delivering
  <2>2. ASSUME NEW d \in LiveFor(t.key), Set(w, [t EXCEPT !.pc = "skipped", !.doc = d])
        PROVE  OneWorkerInv'
    <3>1. PICK u : u = [t EXCEPT !.pc = "skipped", !.doc = d]
      OBVIOUS
    <3>2. /\ u.pc = "skipped" /\ u.doc = d /\ u.op = t.op /\ u.key = t.key /\ u.row = t.row
          /\ u.text = t.text /\ u.recs = t.recs
      BY <1>1, <3>1 DEF Has, Idle
    <3>3. d \in Doc /\ docs[d].key = t.key
      BY DEF LiveFor
    <3>4. Carried(u)
      BY <2>1, <3>2, <3>3, FreshCarried DEF OneWorkerInv
    <3>5. Fine(u)
      BY <2>1, <3>2, <3>4 DEF Fine, Headed, Working
    <3> QED BY <1>2, <2>2, <3>1, <3>5, OneQuietly DEF Known
  <2> QED BY <1>1, <1>2, <2>2, IdleFine, OneQuietly DEF Known, Has
<1>3. CASE Skipped(w)
  BY <1>3, IdleFine, OneQuietly DEF Skipped
<1>4. CASE Find(w)
  <2>1. PICK u :
          /\ Set(w, u) /\ t.pc = "find"
          /\ u.op = t.op /\ u.key = t.key /\ u.text = t.text /\ u.recs = t.recs
          /\ \/ u.doc \in LiveFor(t.key) /\ u.row = t.row /\ u.pc = "write"
             \/ /\ u.doc \in Doc /\ ~Exists(u.doc)
                /\ u.row = [key |-> t.key, by |-> NoDoc] /\ Went(u, "registered", "write")
    BY <1>1, <1>4, FindHands DEF Has
  <2>2. t.op = "deliver" /\ t.recs = <<>> /\ t.text = "same" /\ t.row = NoRow /\ t.key \in Key
    BY <1>1, <2>1 DEF Has, Fine, Headed, Placed, Delivering
  <2>3. UNCHANGED <<docs, trail, texts, index, objects>>
    BY <1>4 DEF Find
  <2>4. CASE u.doc \in LiveFor(t.key) /\ u.row = t.row /\ u.pc = "write"
    <3>1. u.doc \in Doc /\ docs[u.doc].key = u.key
      BY <2>1, <2>4 DEF LiveFor
    <3>2. Carried(u)
      BY <2>1, <2>2, <2>4, <3>1, FreshCarried DEF OneWorkerInv
    <3>3. Fine(u)
      BY <2>1, <2>2, <2>4, <3>2 DEF Fine, Headed, Working
    <3> QED BY <2>1, <2>3, <3>3, OneQuietly
  <2>5. CASE /\ u.doc \in Doc /\ ~Exists(u.doc) /\ u.row = [key |-> t.key, by |-> NoDoc]
             /\ Went(u, "registered", "write")
    <3>1. RowKey(u) = u.key
      BY <2>1, <2>2, <2>5, ConstantsAssumption DEF NoRow, RowKey
    <3>2. trail[u.doc] \in Seq(Record) /\ trail[u.doc] \o u.recs = trail[u.doc]
      <4>1. trail[u.doc] \in Seq(Record)
        BY <2>5 DEF LifecycleInv, TypeOK
      <4> QED BY <2>1, <2>2, <4>1
    <3>3. CurrentState(u) = StateOf(u.doc)
      BY <3>2 DEF CurrentState, StateOf
    <3>5. Carried(u)
      BY <2>1, <2>2, <2>5, <3>1, <3>2, <3>3 DEF Carried, OneWorkerInv, Consistent, HasText
    <3>6. u.recs \in Seq(Record) /\ u.op = "deliver" /\ "registered" \in State /\ "write" \in Onward
      BY <2>1, <2>2 DEF State, Onward
    <3>7. Fine(u)
      BY <2>5, <3>5, <3>6, WentFine DEF WithText
    <3> QED BY <2>1, <2>3, <3>7, OneQuietly
  <2> QED BY <2>1, <2>4, <2>5
<1>5. CASE WriteOriginal(w)
  <2>0. PICK u : u = [t EXCEPT !.pc = "commit"]
    OBVIOUS
  <2>1. Set(w, u) /\ SameHands(u, t) /\ u.pc = "commit"
    BY <1>1, <1>5, <2>0 DEF WriteOriginal, Has, SameHands, Idle
  <2>2. t.key \in objects' /\ objects \subseteq objects' /\ UNCHANGED <<docs, trail, texts, index>>
    BY <1>1, <1>5 DEF WriteOriginal, Has
  <2>3. t.op = "deliver" /\ t.pc = "write"
    BY <1>1, <1>5 DEF WriteOriginal, At, Has, Placed, Delivering
  <2>4. Carried(t)
    BY <1>1, <2>3 DEF Has, Fine, Unbound
  <2>5. Consistent'
    BY <2>2 DEF OneWorkerInv, Consistent, StateOf
  <2>6. Fine(u)'
    <3>1. Carried(u)
      BY <2>1, <2>4, SameCarried
    <3>2. Carried(u)'
      BY <1>5, <2>2, <3>1, CarriedOn DEF WriteOriginal
    <3> QED BY <2>1, <2>2, <2>3, <3>2 DEF Fine, Headed, SameHands, Working
  <2> QED BY <2>1, <2>5, <2>6, OneMoves
<1> QED BY <1>2, <1>3, <1>4, <1>5

\* process.
LEMMA ProcessFine ==
  ASSUME LifecycleInv, OneWorkerInv, Alone, NEW w \in Worker,
         ReadState(w) \/ Profile(w) \/ Extract(w) \/ Anonymize(w) \/ Index(w) \/ Indexed(w)
  PROVE  OneWorkerInv'
<1>1. PICK t : Has(w, t)
  BY HadByWorker
<1>2. t.pc \in {"read", "profile", "extract", "anonymize", "index", "indexed"}
  BY <1>1 DEF ReadState, Profile, Extract, Anonymize, Index, Indexed, At, Has
<1>3. t.op = "deliver" /\ t.doc \in Doc /\ t.key \in Key /\ t.key \in objects /\ t.recs \in Seq(Record)
  BY <1>1, <1>2 DEF Has, Fine, Headed, Placed, Delivering, Working, Transaction
<1>4. Carried(t) /\ RowKey(t) = t.key
  BY <1>1, <1>2, <1>3 DEF Has, Fine, Unbound, Carried
<1>5. CASE ReadState(w)
  <2>1. PICK p \in {"profile", "extract", "anonymize", "index", "commit", "raise"} :
          /\ Set(w, [t EXCEPT !.state = CurrentState(t), !.pc = p])
          /\ p = "extract" => CurrentState(t) = "extractable"
          /\ p = "anonymize" => CurrentState(t) = "extracted"
          /\ p = "index" => CurrentState(t) = "anonymized"
    BY <1>1, <1>5 DEF ReadState, Has
  <2>2. PICK u : u = [t EXCEPT !.state = CurrentState(t), !.pc = p]
    OBVIOUS
  <2>3. Set(w, u) /\ SameHands(u, t) /\ u.pc = p
    BY <1>1, <2>1, <2>2 DEF Has, SameHands, Idle
  <2>4. Fine(u)
    BY <1>1, <1>2, <1>3, <2>1, <2>3, PlaceFine DEF Has, Unbound
  <2> QED BY <1>5, <2>3, <2>4, OneQuietly DEF ReadState
<1>6. CASE Profile(w) \/ Extract(w) \/ Indexed(w)
  <2>1. PICK to \in State, then \in {"commit", "extract", "anonymize"} :
          /\ Transition(w, t, to, then) /\ to \notin {"anonymized", "deleted"}
          /\ to = "indexed" => t.pc = "indexed"
          /\ then = "extract" => to = "extractable"
          /\ then = "anonymize" => to = "extracted"
    BY <1>1, <1>6 DEF Profile, Extract, Indexed, At, State, Has
  <2>2. PICK u : Set(w, u) /\ SameHands(u, t) /\ Went(u, to, then)
    BY <1>1, <2>1, TransitionHands DEF Has
  <2>3. Carried(u) /\ (HasText(t) <=> HasText(u))
    BY <1>4, <2>2, SameCarried
  <2>4. to = "indexed" => HasText(u)
    BY <1>1, <1>3, <1>4, <2>1, <2>3 DEF Has, Fine, Headed, Carried, WithText
  <2>5. /\ u.doc \in Doc /\ u.recs \in Seq(Record) /\ u.key \in objects /\ u.op = "deliver"
    BY <1>3, <2>2 DEF SameHands
  <2>6. Fine(u)
    BY <2>1, <2>2, <2>3, <2>4, <2>5, WentFine DEF Onward, WithText
  <2> QED BY <1>6, <2>2, <2>6, OneQuietly DEF Profile, Extract, Indexed
<1>7. CASE Anonymize(w)
  <2>1. PICK v : v = [t EXCEPT !.text = "put"]
    OBVIOUS
  <2>2. /\ DOMAIN v = DOMAIN Idle /\ v.op = t.op /\ v.doc = t.doc /\ v.key = t.key /\ v.row = t.row
        /\ v.recs = t.recs /\ v.text = "put"
    BY <1>1, <2>1 DEF Has, Idle
  <2>3. Transition(w, v, "anonymized", "index") /\ UNCHANGED <<docs, trail, texts, index, objects>>
    BY <1>1, <1>7, <2>1 DEF Anonymize, Has
  <2>4. CurrentState(t) = "extracted"
    BY <1>1, <1>7 DEF Anonymize, At, Has, Fine, Headed
  <2>5. CurrentState(v) = CurrentState(t) /\ RowKey(v) = RowKey(t)
    BY <2>2 DEF CurrentState, RowKey
  <2>6. Carried(v)
    BY <1>3, <1>4, <2>2, <2>4, <2>5 DEF Carried, WithText
  <2>7. PICK u : Set(w, u) /\ SameHands(u, v) /\ Went(u, "anonymized", "index")
    BY <2>2, <2>3, TransitionHands
  <2>8. Carried(u) /\ HasText(u)
    BY <2>2, <2>6, <2>7, SameCarried DEF HasText
  <2>9. u.doc \in Doc /\ u.recs \in Seq(Record) /\ u.key \in objects /\ u.op = "deliver"
    BY <1>3, <2>2, <2>7 DEF SameHands
  <2>10. Fine(u)
    BY <2>7, <2>8, <2>9, WentFine DEF State, Onward
  <2> QED BY <2>3, <2>7, <2>10, OneQuietly
<1>8. CASE Index(w)
  <2>0. PICK u : u = [t EXCEPT !.pc = "indexed"]
    OBVIOUS
  <2>1. Set(w, u) /\ SameHands(u, t) /\ u.pc = "indexed" /\ CurrentState(t) = "anonymized"
    BY <1>1, <1>8, <2>0 DEF Index, At, Has, Fine, Headed, SameHands, Idle
  <2>2. /\ index' = [index EXCEPT ![t.doc] = t.key] /\ UNCHANGED <<docs, trail, texts, objects>>
        /\ index \in [Doc -> Key \cup {NoKey}]
    BY <1>1, <1>8 DEF Index, Has, LifecycleInv, TypeOK
  <2>3. index'[t.doc] = t.key /\ \A d \in Doc \ {t.doc} : index'[d] = index[d]
    BY <1>3, <2>2
  <2>4. StateOf(t.doc) \notin {"indexed", "deleted"}
    BY <1>4, <2>1 DEF Carried, Final
  <2>5. Consistent'
    BY <2>2, <2>3, <2>4 DEF OneWorkerInv, Consistent, StateOf
  <2>6. /\ CurrentState(u)' = CurrentState(u) /\ RowKey(u)' = RowKey(u) /\ StateOf(u.doc)' = StateOf(u.doc)
        /\ HasText(u)' <=> HasText(u)
    BY <2>2, CarriedOn
  <2>7. Carried(u) /\ CurrentState(u) = "anonymized" /\ RowKey(u) = t.key
    BY <1>4, <2>1, SameCarried
  <2>9. Carried(u)'
    BY <2>2, <2>7, CarriedOn
  <2>10. Headed(u)'
    BY <1>3, <2>1, <2>2, <2>6, <2>7 DEF Headed, SameHands, Working
  <2> QED BY <2>1, <2>5, <2>9, <2>10, OneMoves DEF Fine
<1> QED BY <1>2, <1>5, <1>6, <1>7, <1>8

\* recover and supersede.
LEMMA RecoveryFine ==
  ASSUME LifecycleInv, OneWorkerInv, Alone, NEW w \in Worker, Recover(w) \/ Repoint(w) \/ Retire(w)
  PROVE  OneWorkerInv'
<1>1. PICK t : Has(w, t)
  BY HadByWorker
<1>2. t.pc \in {"recover", "repoint", "retire"}
  BY <1>1 DEF Recover, Repoint, Retire, At, Has
<1>3. /\ t.op = "deliver" /\ t.doc \in Doc /\ t.key \in Key /\ t.key \in objects
      /\ t.recs \in Seq(Record) /\ t.row = NoRow
  BY <1>1, <1>2 DEF Has, Fine, Headed, Placed, Delivering, Working, Transaction
<1>4. Carried(t) /\ RowKey(t) = t.key /\ docs[t.doc].key = t.key
  BY <1>1, <1>2, <1>3 DEF Has, Fine, Unbound, Carried, RowKey
<1>5. CASE Recover(w)
  <2>1. CASE Set(w, [t EXCEPT !.pc = "raise"]) /\ UNCHANGED objects
    <3>1. PICK u : u = [t EXCEPT !.pc = "raise"]
      OBVIOUS
    <3>2. Set(w, u) /\ SameHands(u, t) /\ u.pc = "raise"
      BY <1>1, <2>1, <3>1 DEF Has, SameHands, Idle
    <3>3. Fine(u)
      BY <1>1, <1>2, <1>3, <3>2, PlaceFine DEF Has, Unbound, Working
    <3> QED BY <1>5, <2>1, <3>2, <3>3, OneQuietly DEF Recover
  <2>2. CASE Event(w, t, CurrentState(t), "commit") /\ UNCHANGED objects
    <3>1. PICK u : /\ Set(w, u) /\ SameHands(u, t) /\ u.pc = "append" /\ u.then = "commit"
                   /\ u.from = CurrentState(t) /\ u.to = CurrentState(t)
      BY <1>1, <2>2, EventHands DEF Has
    <3>2. Carried(u) /\ CurrentState(u) = CurrentState(t)
      BY <1>4, <3>1, SameCarried
    <3>3. Fine(u)
      BY <1>3, <3>1, <3>2, EventFine DEF SameHands
    <3> QED BY <1>5, <2>2, <3>1, <3>3, OneQuietly DEF Recover
  <2>3. CASE /\ objects' = objects \cup {OcrOf[t.key]} /\ CurrentState(t) = "unprocessable_ocr"
             /\ Set(w, [t EXCEPT !.state = CurrentState(t), !.pc = "repoint"])
    <3>1. PICK u : u = [t EXCEPT !.state = CurrentState(t), !.pc = "repoint"]
      OBVIOUS
    <3>2. Set(w, u) /\ SameHands(u, t) /\ u.pc = "repoint"
      BY <1>1, <2>3, <3>1 DEF Has, SameHands, Idle
    <3>3. Carried(u) /\ CurrentState(u) = "unprocessable_ocr"
      BY <1>4, <2>3, <3>2, SameCarried
    <3>4. UNCHANGED <<docs, trail, texts, index>> /\ objects \subseteq objects'
      BY <1>5, <2>3 DEF Recover
    <3>5. Consistent'
      BY <3>4 DEF OneWorkerInv, Consistent, StateOf
    <3>6. Carried(u)' /\ CurrentState(u)' = "unprocessable_ocr"
      BY <3>3, <3>4, CarriedOn
    <3>7. Fine(u)'
      BY <1>3, <2>3, <3>2, <3>4, <3>6 DEF Fine, Headed, SameHands, Working
    <3> QED BY <3>2, <3>5, <3>7, OneMoves
  <2> QED BY <1>1, <1>5, <2>1, <2>2, <2>3 DEF Recover, Has
<1>6. CASE Repoint(w)
  <2>1. PICK u :
          /\ Set(w, u) /\ t.pc = "repoint"
          /\ u.op = t.op /\ u.doc = t.doc /\ u.text = t.text /\ u.recs = t.recs
          /\ \/ u.key = t.key /\ u.row = t.row /\ Went(u, "superseded", "retire")
             \/ /\ u.key = OcrOf[t.key] /\ u.row = [docs[t.doc] EXCEPT !.key = OcrOf[t.key]]
                /\ Went(u, "extractable", "commit")
    BY <1>1, <1>6, RepointHands DEF Has
  <2>2. UNCHANGED <<docs, trail, texts, index, objects>> /\ docs[t.doc] \in Rows
    BY <1>3, <1>6 DEF Repoint, LifecycleInv, TypeOK
  <2>3. /\ OcrOf[t.key] \in objects /\ OcrOf[t.key] # NoKey
        /\ CurrentState(t) = "unprocessable_ocr"
    BY <1>1, <2>1, ConstantsAssumption DEF Has, Fine, Headed, Placed
  <2>4. u.doc \in Doc /\ u.recs \in Seq(Record) /\ u.op = "deliver"
    BY <1>3, <2>1
  <2>5. CASE u.key = t.key /\ u.row = t.row /\ Went(u, "superseded", "retire")
    <3>1. Carried(u)
      BY <1>4, <2>1, <2>5, SameCarried DEF SameHands
    <3>2. "superseded" \in State /\ "retire" \in Onward
      BY DEF State, Onward
    <3>3. Fine(u)
      BY <1>3, <2>4, <2>5, <3>1, <3>2, WentFine DEF WithText
    <3> QED BY <2>1, <2>2, <3>3, OneQuietly
  <2>6. CASE /\ u.key = OcrOf[t.key] /\ u.row = [docs[t.doc] EXCEPT !.key = OcrOf[t.key]]
             /\ Went(u, "extractable", "commit")
    <3>1. u.row.key = u.key /\ u.row # NoRow
      BY <2>2, <2>3, <2>6 DEF Rows, NoRow
    <3>2. CurrentState(u) = "unprocessable_ocr" /\ RowKey(u) = u.key
      BY <2>1, <2>3, <3>1 DEF CurrentState, RowKey
    <3>3. Carried(u)
      BY <1>4, <2>1, <2>3, <3>2 DEF Carried, WithText
    <3>4. "extractable" \in State /\ "commit" \in Onward
      BY DEF State, Onward
    <3>5. Fine(u)
      BY <2>3, <2>4, <2>6, <3>3, <3>4, WentFine DEF WithText
    <3> QED BY <2>1, <2>2, <3>5, OneQuietly
  <2> QED BY <2>1, <2>5, <2>6
<1>7. CASE Retire(w)
  <2>1. PICK u :
          /\ Set(w, u) /\ u.op = t.op /\ u.doc = t.doc /\ u.key = t.key
          /\ u.text = t.text /\ u.recs = t.recs
          /\ \/ u.pc = "raise" /\ u.row = t.row
             \/ u.pc = "commit" /\ u.row = [docs[t.doc] EXCEPT !.by = t.owner]
    BY <1>1, <1>7, RetireHands DEF Has
  <2>2. docs[t.doc] \in Rows /\ UNCHANGED <<docs, trail, texts, index, objects>>
    BY <1>3, <1>7 DEF Retire, LifecycleInv, TypeOK
  <2>3. RowKey(u) = t.key
    BY <1>3, <1>4, <2>1, <2>2 DEF Rows, RowKey
  <2>4. CurrentState(u) = CurrentState(t) /\ (HasText(u) <=> HasText(t))
    BY <1>4, <2>1, <2>3 DEF CurrentState, HasText
  <2>5. Carried(u)
    BY <1>4, <2>1, <2>3, <2>4 DEF Carried
  <2>6. Fine(u)
    BY <1>3, <2>1, <2>5 DEF Fine, Headed, Working
  <2> QED BY <2>1, <2>2, <2>6, OneQuietly
<1> QED BY <1>2, <1>5, <1>6, <1>7

\* delete_document.
LEMMA DeletionFine ==
  ASSUME LifecycleInv, OneWorkerInv, Alone, NEW w \in Worker, Deletes(w)
  PROVE  OneWorkerInv'
<1>1. PICK t : Has(w, t)
  BY HadByWorker
<1>2. t.pc \in {"unindex", "drop", "claim", "remove", "forget"}
  BY <1>1 DEF Deletes, Unindex, FindObject, JudgeObject, RemoveObject, Forget, At, Has
<1>3. t.op = "delete" /\ t.doc \in Doc /\ t.recs \in Seq(Record)
  BY <1>1, <1>2 DEF Has, Placed, Transaction
<1>4. Carried(t) /\ Deleting(t)
  BY <1>1, <1>2, <1>3 DEF Has, Fine, Headed, Unbound
<1>5. /\ t.key = docs[t.doc].key /\ t.state = StateOf(t.doc)
      /\ t.row = NoRow /\ t.recs = <<>> /\ t.text = "same"
  BY <1>2, <1>4 DEF Deleting
<1>6. CASE Unindex(w)
  <2>0. PICK u : u = [t EXCEPT !.pc = "drop"]
    OBVIOUS
  <2>1. Set(w, u) /\ SameHands(u, t) /\ u.pc = "drop" /\ u.state = t.state
    BY <1>1, <1>6, <2>0 DEF Unindex, Has, SameHands, Idle
  <2>2. /\ index' = [index EXCEPT ![t.doc] = NoKey] /\ UNCHANGED <<docs, trail, texts, objects>>
        /\ index \in [Doc -> Key \cup {NoKey}]
    BY <1>1, <1>6 DEF Unindex, Has, LifecycleInv, TypeOK
  <2>3. index'[t.doc] = NoKey /\ \A d \in Doc \ {t.doc} : index'[d] = index[d]
    BY <1>3, <2>2
  <2>4. Consistent'
    BY <2>2, <2>3 DEF OneWorkerInv, Consistent, StateOf
  <2>6. Carried(u)' /\ StateOf(u.doc)' = StateOf(u.doc)
    BY <1>4, <2>1, <2>2, SameCarried, CarriedOn
  <2>7. Deleting(u)'
    BY <1>5, <2>1, <2>2, <2>3, <2>6 DEF Deleting, SameHands
  <2>8. Fine(u)'
    BY <1>3, <2>1, <2>6, <2>7 DEF Fine, Headed, SameHands, Working
  <2> QED BY <2>1, <2>4, <2>8, OneMoves
<1>7. CASE FindObject(w) \/ JudgeObject(w) \/ RemoveObject(w)
  <2>1. PICK p : /\ Set(w, [t EXCEPT !.pc = p]) /\ UNCHANGED <<docs, trail, texts, index>>
                 /\ t.pc \in {"drop", "claim", "remove"} /\ p \in {"claim", "remove", "forget"}
                 /\ p = "remove" => ~ClaimedElsewhere(t.doc, t.key) /\ objects' = objects
                 /\ p = "forget" => (t.key \in objects' => ClaimedElsewhere(t.doc, t.key))
    <3>1. CASE FindObject(w)
      BY <1>1, <3>1 DEF FindObject, At, Has
    <3>2. CASE JudgeObject(w)
      BY <1>1, <3>2 DEF JudgeObject, At, Has
    <3>3. CASE RemoveObject(w)
      BY <1>1, <3>3 DEF RemoveObject, At, Has
    <3> QED BY <1>7, <3>1, <3>2, <3>3
  <2>2. PICK u : u = [t EXCEPT !.pc = p]
    OBVIOUS
  <2>3. Set(w, u) /\ SameHands(u, t) /\ u.pc = p /\ u.state = t.state
    BY <1>1, <2>1, <2>2 DEF Has, SameHands, Idle
  <2>4. index[t.doc] = NoKey
    BY <1>4, <2>1 DEF Deleting
  <2>5. Consistent'
    BY <2>1 DEF OneWorkerInv, Consistent, StateOf
  <2>6. Carried(u)' /\ StateOf(u.doc)' = StateOf(u.doc)
    BY <1>4, <2>1, <2>3, SameCarried, CarriedOn
  <2>7. ClaimedElsewhere(t.doc, t.key)' <=> ClaimedElsewhere(t.doc, t.key)
    BY <2>1 DEF ClaimedElsewhere, StateOf
  <2>8. Deleting(u)'
    BY <1>5, <2>1, <2>3, <2>4, <2>6, <2>7 DEF Deleting, SameHands
  <2>9. Fine(u)'
    BY <1>3, <2>1, <2>3, <2>6, <2>8 DEF Fine, Headed, SameHands, Working
  <2> QED BY <2>3, <2>5, <2>9, OneMoves
<1>8. CASE Forget(w)
  <2> DEFINE text == IF t.doc \in texts THEN "gone" ELSE "same"
             row == IF t.state = "deleted" THEN NoRow ELSE [docs[t.doc] EXCEPT !.key = Released]
  <2>1. PICK v : v = [t EXCEPT !.text = text, !.row = row]
    OBVIOUS
  <2>2. /\ DOMAIN v = DOMAIN Idle /\ v.op = t.op /\ v.doc = t.doc /\ v.key = t.key
        /\ v.recs = t.recs /\ v.text = text /\ v.row = row
    BY <1>1, <2>1 DEF Has, Idle
  <2>3. Transition(w, v, "deleted", "commit") /\ UNCHANGED <<docs, trail, texts, index, objects>>
    BY <1>1, <1>8, <2>1 DEF Forget, Has
  <2>4. docs[t.doc] \in Rows /\ t.pc = "forget"
    BY <1>1, <1>3, <1>8 DEF LifecycleInv, TypeOK, Forget, At, Has
  <2>5. StateOf(t.doc) # "deleted" => v.row.key = Released
    BY <1>5, <2>2, <2>4 DEF Rows
  <2>6. /\ v.text \in {"gone", "same"} /\ (t.doc \in texts => v.text = "gone")
    BY <2>2
  <2>7. index[t.doc] = NoKey /\ (t.key \in objects => ClaimedElsewhere(t.doc, t.key))
    BY <1>4, <2>4 DEF Deleting
  <2> HIDE DEF text, row
  <2>8. CurrentState(v) = CurrentState(t)
    BY <2>2 DEF CurrentState
  <2>9. Carried(v)
    BY <1>3, <1>4, <2>2, <2>6, <2>8 DEF Carried
  <2>10. PICK u : Set(w, u) /\ SameHands(u, v) /\ Went(u, "deleted", "commit")
    BY <2>2, <2>3, TransitionHands
  <2>11. Carried(u)
    BY <2>9, <2>10, SameCarried
  <2>12. /\ u.op = "delete" /\ u.doc = t.doc /\ u.key = t.key /\ u.recs \in Seq(Record)
         /\ u.text = v.text /\ u.row = v.row /\ "deleted" \in State /\ "commit" \in Onward
    BY <1>3, <2>2, <2>10 DEF SameHands, State, Onward
  <2>13. Fine(u)
    BY <1>3, <1>5, <2>5, <2>6, <2>7, <2>10, <2>11, <2>12, WentFine DEF WithText
  <2> QED BY <2>3, <2>10, <2>13, OneQuietly
<1> QED BY <1>6, <1>7, <1>8 DEF Deletes

\* reanonymize and note_failure.
LEMMA ReanonymizationFine ==
  ASSUME LifecycleInv, OneWorkerInv, Alone, NEW w \in Worker, Reindex(w) \/ Retext(w) \/ NoteFailure(w)
  PROVE  OneWorkerInv'
<1>1. PICK t : Has(w, t)
  BY HadByWorker
<1>2. t.pc \in {"reindex", "retext", "note"}
  BY <1>1 DEF Reindex, Retext, NoteFailure, At, Has
<1>3. t.doc \in Doc /\ Carried(t) /\ t.op \in {"reanonymize", "note"}
  BY <1>1, <1>2 DEF Has, Placed, Fine, Headed, Unbound
<1>4. ASSUME t.pc \in {"reindex", "retext"}
      PROVE  /\ t.state = CurrentState(t) /\ CurrentState(t) \in WithText /\ t.row = NoRow
             /\ t.key = docs[t.doc].key /\ t.key \in objects /\ RowKey(t) = t.key
  BY <1>1, <1>4 DEF Has, Fine, Headed, RowKey
<1>5. CASE Reindex(w)
  <2>0. PICK u : u = [t EXCEPT !.pc = "retext"]
    OBVIOUS
  <2>1. Set(w, u) /\ SameHands(u, t) /\ u.pc = "retext" /\ u.state = t.state /\ t.pc = "reindex"
    BY <1>1, <1>5, <2>0 DEF Reindex, At, Has, SameHands, Idle
  <2>2. /\ index' = [index EXCEPT ![t.doc] = t.key] /\ UNCHANGED <<docs, trail, texts, objects>>
        /\ index \in [Doc -> Key \cup {NoKey}]
    BY <1>1, <1>5 DEF Reindex, Has, LifecycleInv, TypeOK
  <2>3. index'[t.doc] = t.key /\ \A d \in Doc \ {t.doc} : index'[d] = index[d]
    BY <1>3, <2>2
  <2>4. StateOf(t.doc) # "deleted"
    BY <1>3, <1>4, <2>1 DEF Carried, WithText
  <2>5. Consistent'
    BY <1>4, <2>1, <2>2, <2>3, <2>4 DEF OneWorkerInv, Consistent, StateOf
  <2>6. Carried(u) /\ CurrentState(u) = CurrentState(t) /\ RowKey(u) = RowKey(t)
    BY <1>3, <2>1, SameCarried
  <2>7. CurrentState(u)' = CurrentState(u) /\ RowKey(u)' = RowKey(u)
    BY <2>2, CarriedOn
  <2>9. Carried(u)'
    BY <2>2, <2>6, CarriedOn
  <2>10. t.op = "reanonymize"
    BY <1>1, <2>1 DEF Has, Fine, Headed
  <2>11. Fine(u)'
    BY <1>4, <2>1, <2>2, <2>6, <2>7, <2>9, <2>10 DEF Fine, Headed, SameHands, Working
  <2> QED BY <2>1, <2>5, <2>11, OneMoves
<1>6. CASE Retext(w)
  <2>1. PICK v : v = [t EXCEPT !.text = "put"]
    OBVIOUS
  <2>2. /\ DOMAIN v = DOMAIN Idle /\ v.op = t.op /\ v.doc = t.doc /\ v.key = t.key /\ v.row = t.row
        /\ v.recs = t.recs /\ v.text = "put"
    BY <1>1, <2>1 DEF Has, Idle
  <2>3. Event(w, v, t.state, "commit") /\ UNCHANGED <<docs, trail, texts, index, objects>>
        /\ t.pc = "retext"
    BY <1>1, <1>6, <2>1 DEF Retext, Has, At
  <2>4. /\ CurrentState(v) = CurrentState(t) /\ RowKey(v) = RowKey(t) /\ HasText(v)
    BY <2>2 DEF CurrentState, RowKey, HasText
  <2>5. Carried(v)
    BY <1>3, <1>4, <2>2, <2>3, <2>4 DEF Carried, WithText
  <2>6. PICK u : /\ Set(w, u) /\ SameHands(u, v) /\ u.pc = "append" /\ u.then = "commit"
                 /\ u.from = t.state /\ u.to = t.state
    BY <2>2, <2>3, EventHands
  <2>7. Carried(u) /\ CurrentState(u) = CurrentState(t)
    BY <2>4, <2>5, <2>6, SameCarried
  <2>8. Fine(u)
    BY <1>3, <1>4, <2>2, <2>3, <2>6, <2>7, EventFine DEF SameHands
  <2> QED BY <2>3, <2>6, <2>8, OneQuietly
<1>7. CASE NoteFailure(w)
  <2>1. PICK u : /\ Set(w, u) /\ SameHands(u, t) /\ u.pc = "append" /\ u.then = "commit"
                 /\ u.from = CurrentState(t) /\ u.to = CurrentState(t)
    BY <1>1, <1>7, EventHands DEF NoteFailure, Has
  <2>2. Carried(u) /\ CurrentState(u) = CurrentState(t)
    BY <1>3, <2>1, SameCarried
  <2>3. Fine(u)
    BY <1>3, <2>1, <2>2, EventFine DEF SameHands
  <2> QED BY <1>7, <2>1, <2>3, OneQuietly DEF NoteFailure
<1> QED BY <1>5, <1>6, <1>7

\* audit.append: the history it makes is whole.
LEMMA AppendFine ==
  ASSUME LifecycleInv, OneWorkerInv, Alone, NEW w \in Worker, AppendRecord(w) PROVE OneWorkerInv'
<1>1. PICK t : Has(w, t)
  BY HadByWorker
<1> DEFINE r == [from |-> t.from, to |-> t.to]
<1>2. PICK u : /\ Set(w, u) /\ t.pc = "append" /\ u.pc = t.then
               /\ u.op = t.op /\ u.doc = t.doc /\ u.key = t.key /\ u.row = t.row
               /\ u.text = t.text /\ u.recs = Append(t.recs, r)
  BY <1>1, AppendHands DEF Has
<1>3. /\ t.then \in Onward /\ (t.op = "delete" => t.then = "commit")
      /\ t.doc \in Doc /\ t.recs \in Seq(Record)
  BY <1>1, <1>2 DEF Has, Placed, Delivering, Transaction, Onward
<1>4. Carried(t) /\ Fits(t) /\ (t.op = "delete" => Deleting(t))
  BY <1>1, <1>2 DEF Has, Fine, Headed, Unbound
<1>5. r \in Record /\ r.from = t.from /\ r.to = t.to
  BY <1>1 DEF Has, Transaction, Record
<1> HIDE DEF r
<1>6. trail[t.doc] \in Seq(Record)
  BY <1>3 DEF LifecycleInv, TypeOK
<1>7. PICK a, b : a = trail[t.doc] /\ b = t.recs
  OBVIOUS
<1>8. a \o b \in Seq(Record) /\ a \o Append(b, r) = Append(a \o b, r)
  <2>1. a \in Seq(Record) /\ b \in Seq(Record)
    BY <1>3, <1>6, <1>7
  <2> QED BY <1>5, <2>1, AppendedLast
<1>9. Whole(a \o b) /\ Newest(a \o b) = r.from /\ (r.from = r.to \/ IsAllowed(r.from, r.to))
  BY <1>4, <1>5, <1>7 DEF Carried, Fits, CurrentState
<1>10. Whole(Append(a \o b, r)) /\ Newest(Append(a \o b, r)) = r.to
  BY <1>5, <1>8, <1>9, WholeAfter
<1>11. trail[u.doc] \o u.recs = Append(a \o b, r)
  BY <1>2, <1>7, <1>8
<1>12. Whole(trail[u.doc] \o u.recs) /\ CurrentState(u) = t.to
  BY <1>5, <1>10, <1>11 DEF CurrentState
<1>13. RowKey(u) = RowKey(t) /\ (HasText(u) <=> HasText(t))
  BY <1>2 DEF RowKey, HasText
<1>14. /\ t.from \in Final => t.to \in Final
       /\ t.from = "deleted" => t.to = "deleted"
  <2>1. t.from \in State \cup {Unborn} /\ t.to \in State \cup {Unborn}
    BY <1>1 DEF Has, Transaction
  <2> QED BY <1>4, <2>1, FinalEdges DEF Fits
<1>15. Carried(u)
  BY <1>2, <1>4, <1>12, <1>13, <1>14 DEF Carried, Fits
<1>16. u.op = "delete" => Deleting(u)
  BY <1>2, <1>3, <1>4, <1>12 DEF Deleting
<1>17. Headed(u)
  BY <1>2, <1>3, <1>4, <1>12, <1>16 DEF Headed, Fits, Onward, Working
<1>18. UNCHANGED <<docs, trail, texts, index, objects>>
  BY DEF AppendRecord
<1> QED BY <1>2, <1>15, <1>17, <1>18, OneQuietly DEF Fine

\* What a commit writes.
LEMMA Committed ==
  ASSUME LifecycleInv, NEW w \in Worker, NEW t, Has(w, t), Commit(w)
  PROVE  /\ t.pc = "commit" /\ t.doc \in Doc /\ t.recs \in Seq(Record)
         /\ UNCHANGED <<index, objects>>
         /\ \A d \in Doc \ {t.doc} : /\ docs'[d] = docs[d] /\ trail'[d] = trail[d]
                                     /\ d \in texts' <=> d \in texts
         /\ docs'[t.doc].key = RowKey(t)
         /\ t.row # NoRow => docs'[t.doc] = t.row
         /\ trail'[t.doc] = trail[t.doc] \o t.recs
         /\ StateOf(t.doc)' = CurrentState(t)
         /\ t.doc \in texts' <=> HasText(t)
<1>1. t.pc = "commit" /\ t.doc \in Doc /\ t.recs \in Seq(Record) /\ t.text \in {"same", "put", "gone"}
  BY DEF Commit, Has, At, Placed, Transaction
<1>2. docs \in [Doc -> Rows] /\ trail \in [Doc -> Seq(Record)]
  BY DEF LifecycleInv, TypeOK
<1>3. /\ docs' = IF t.row = NoRow THEN docs ELSE [docs EXCEPT ![t.doc] = t.row]
      /\ trail' = [trail EXCEPT ![t.doc] = @ \o t.recs]
      /\ texts' = CASE t.text = "put"  -> texts \cup {t.doc}
                    [] t.text = "gone" -> texts \ {t.doc}
                    [] t.text = "same" -> texts
      /\ UNCHANGED <<index, objects>>
  BY DEF Commit, Has
<1>4. /\ \A d \in Doc \ {t.doc} : docs'[d] = docs[d]
      /\ t.row # NoRow => docs'[t.doc] = t.row
      /\ t.row = NoRow => docs'[t.doc] = docs[t.doc]
  BY <1>1, <1>2, <1>3
<1>5. /\ \A d \in Doc \ {t.doc} : trail'[d] = trail[d]
      /\ trail'[t.doc] = trail[t.doc] \o t.recs
  BY <1>1, <1>2, <1>3
<1>6. /\ \A d \in Doc \ {t.doc} : d \in texts' <=> d \in texts
      /\ t.doc \in texts' <=> HasText(t)
  BY <1>1, <1>3 DEF HasText
<1>7. docs'[t.doc].key = RowKey(t)
  BY <1>4 DEF RowKey
<1>8. StateOf(t.doc)' = CurrentState(t)
  BY <1>5 DEF StateOf, CurrentState
<1> QED BY <1>1, <1>3, <1>4, <1>5, <1>6, <1>7, <1>8

\* A commit publishes what fits together, and the next transaction starts from it.
LEMMA CommitFine ==
  ASSUME LifecycleInv, OneWorkerInv, Alone, NEW w \in Worker, Commit(w) PROVE OneWorkerInv'
<1>1. PICK t : Has(w, t)
  BY HadByWorker
<1>2. PICK d : d = t.doc
  OBVIOUS
<1>3. /\ t.pc = "commit" /\ d \in Doc /\ t.recs \in Seq(Record) /\ UNCHANGED <<index, objects>>
      /\ \A e \in Doc \ {d} : /\ docs'[e] = docs[e] /\ trail'[e] = trail[e]
                              /\ e \in texts' <=> e \in texts
      /\ docs'[d].key = RowKey(t) /\ trail'[d] = trail[d] \o t.recs
      /\ StateOf(d)' = CurrentState(t) /\ (d \in texts' <=> HasText(t))
  BY <1>1, <1>2, Committed
<1>4. Carried(t) /\ (t.op = "delete" => Deleting(t)) /\ (t.op = "deliver" => t.key \in objects)
  BY <1>1, <1>3 DEF Has, Fine, Headed, Unbound, Working
<1>5. t.op = "delete" => CurrentState(t) = "deleted" /\ index[d] = NoKey /\ (d \in texts => t.text = "gone")
  BY <1>2, <1>3, <1>4 DEF Deleting
<1>6. Consistent'
  <2>1. ASSUME NEW e \in Doc, e # d
        PROVE  /\ StateOf(e)' = StateOf(e) /\ docs'[e] = docs[e] /\ trail'[e] = trail[e]
               /\ e \in texts' <=> e \in texts
    BY <1>3, <2>1 DEF StateOf
  <2>2. Whole(trail'[d])
    BY <1>2, <1>3, <1>4 DEF Carried
  <2>3. CurrentState(t) \in WithText => HasText(t)
    BY <1>4, <1>5 DEF Carried, WithText
  <2>5. CurrentState(t) = "deleted" => index[d] = NoKey /\ ~HasText(t)
    <3>1. ASSUME CurrentState(t) = "deleted", t.op # "delete" PROVE index[d] = NoKey /\ d \notin texts
      BY <1>2, <1>3, <1>4, <3>1 DEF Carried, OneWorkerInv, Consistent
    <3> QED BY <1>2, <1>4, <1>5, <3>1 DEF Carried, HasText
  <2> QED BY <1>3, <2>1, <2>2, <2>3, <2>5 DEF OneWorkerInv, Consistent
<1>7. PICK u : /\ Set(w, u)
               /\ \/ u = Idle
                  \/ /\ u.op = "deliver" /\ t.op = "deliver" /\ u.pc \in {"read", "recover"}
                     /\ u.doc = t.doc /\ u.key = t.key
                     /\ u.recs = <<>> /\ u.row = NoRow /\ u.text = "same"
  BY <1>1, CommitHands DEF Has
<1>8. Fine(u)'
  <2>1. CASE u = Idle
    <3>1. u.pc = "idle" /\ u.op = "none"
      BY <2>1 DEF Idle
    <3> QED BY <3>1 DEF Fine, Headed, Working, Unbound
  <2>2. CASE u # Idle
    <3>1. u.doc = d /\ u.key = t.key /\ u.recs = <<>> /\ u.row = NoRow /\ u.text = "same"
          /\ u.op = "deliver" /\ t.op = "deliver" /\ u.pc \in {"read", "recover"}
      BY <1>2, <1>7, <2>2
    <3>2. trail'[d] \o u.recs = trail'[d]
      <4>1. trail[d] \in Seq(Record)
        BY <1>3 DEF LifecycleInv, TypeOK
      <4>2. trail'[d] \in Seq(Record)
        BY <1>3, <4>1
      <4> QED BY <3>1, <4>2
    <3>3. CurrentState(u)' = StateOf(d)'
      BY <3>1, <3>2 DEF CurrentState, StateOf
    <3>4. RowKey(u)' = docs'[d].key /\ docs'[d].key = u.key
      BY <1>3, <1>4, <3>1 DEF RowKey, Carried
    <3>5. Carried(u)'
      BY <1>3, <1>6, <3>1, <3>2, <3>3, <3>4 DEF Carried, Consistent, HasText
    <3>6. u.key \in objects'
      BY <1>3, <1>4, <3>1
    <3> QED BY <3>1, <3>5, <3>6 DEF Fine, Headed, Working
  <2> QED BY <2>1, <2>2
<1> QED BY <1>6, <1>7, <1>8, OneMoves

\* A rollback leaves what is committed.
LEMMA FailureFine ==
  ASSUME LifecycleInv, OneWorkerInv, Alone, NEW w \in Worker, Raise(w) \/ Crash(w) \/ DeadlockVictim(w)
  PROVE  OneWorkerInv'
<1>1. PICK t : Has(w, t)
  BY HadByWorker
<1>2. PICK u : /\ Set(w, u) /\ UNCHANGED <<docs, trail, texts, index, objects, started>>
               /\ \/ u = Idle
                  \/ /\ t.op = "reanonymize" /\ u.op = "note" /\ u.pc = "note"
                     /\ u.doc = t.doc /\ u.recs = <<>> /\ u.row = NoRow /\ u.text = "same"
  BY <1>1, AbandonHands DEF Has
<1>3. CASE u = Idle
  BY <1>2, <1>3, IdleFine, OneQuietly
<1>4. CASE u # Idle
  <2>1. t.doc \in Doc
    <3>1. t.pc # "idle"
      BY <1>1, <1>2, <1>4 DEF Has, Placed, Idle
    <3> QED BY <1>1, <1>2, <1>4, <3>1 DEF Has, Placed, Delivering
  <2>2. Carried(u)
    BY <1>2, <1>4, <2>1, FreshCarried DEF OneWorkerInv
  <2>3. Fine(u)
    BY <1>2, <1>4, <2>2 DEF Fine, Headed, Working
  <2> QED BY <1>2, <2>3, OneQuietly
<1> QED BY <1>3, <1>4

\* The invariant of one worker.
LEMMA OneWorkerInvariant == ASSUME Alone PROVE Spec => []OneWorkerInv
<1>1. Init => OneWorkerInv
  <2> SUFFICES ASSUME Init PROVE OneWorkerInv
    OBVIOUS
  <2>1. Consistent
    BY DEF Init, Consistent, Whole, StateOf, Newest, WithText, Unborn
  <2>2. \A w \in Worker : tx[w] = Idle
    BY DEF Init
  <2> QED BY <2>1, <2>2, IdleFine DEF OneWorkerInv
<1>2. LifecycleInv /\ OneWorkerInv /\ [Next]_vars => OneWorkerInv'
  <2> SUFFICES ASSUME LifecycleInv, OneWorkerInv, [Next]_vars PROVE OneWorkerInv'
    OBVIOUS
  <2>1. ASSUME NEW w \in Worker, Request(w) \/ Step(w) \/ Crash(w) PROVE OneWorkerInv'
    BY <2>1, RequestFine, IngestFine, ProcessFine, RecoveryFine, DeletionFine,
       ReanonymizationFine, AppendFine, CommitFine, FailureFine DEF Step, Deletes
  <2>2. CASE UNCHANGED vars
    <3>1. Consistent'
      BY <2>2 DEF vars, OneWorkerInv, Consistent, StateOf
    <3>2. UNCHANGED <<docs, trail, texts, index, objects>> /\ tx' = tx
      BY <2>2 DEF vars
    <3>3. ASSUME NEW w \in Worker PROVE Fine(tx[w])'
      <4>1. PICK u : u = tx[w]
        OBVIOUS
      <4>2. Fine(u)' /\ u = tx'[w]
        BY <3>2, <4>1, StillFine DEF OneWorkerInv
      <4> QED BY <4>2 DEF Fine, Headed, Carried, Deleting, Fits, HasText, RowKey,
                      CurrentState, StateOf, ClaimedElsewhere
    <3> QED BY <3>1, <3>3 DEF OneWorkerInv
  <2> QED BY <2>1, <2>2 DEF Next
<1> QED BY <1>1, <1>2, LifecycleInvariant, PTL DEF Spec

\* delete_document: where operations do not overlap, what is deleted is in neither
\* the index nor the texts.
THEOREM OneWorkerDeletions == ASSUME Alone PROVE Spec => []DeletedIsGone
<1>1. OneWorkerInv => DeletedIsGone
  BY DEF OneWorkerInv, Consistent, DeletedIsGone
<1> QED BY <1>1, OneWorkerInvariant, PTL

\* Only a commit gives a document another state, the one its worker sees.
LEMMA OnlyCommitsMove ==
  ASSUME LifecycleInv, OneWorkerInv, [Next]_vars, NEW d \in Doc, StateOf(d)' # StateOf(d)
  PROVE  \E w \in Worker : \E t : /\ Commit(w) /\ Has(w, t) /\ d = t.doc
                                   /\ StateOf(d)' = CurrentState(t)
<1>1. PICK w \in Worker : Commit(w)
  <2>1. trail' # trail
    BY DEF StateOf
  <2>2. PICK w \in Worker : Request(w) \/ Step(w) \/ Crash(w)
    BY <2>1 DEF vars, Next
  <2> QED BY <2>1, <2>2, OnlyCommitsWrite
<1>2. PICK t : Has(w, t)
  BY HadByWorker
<1>3. d = t.doc
  BY <1>1, <1>2, Committed DEF StateOf
<1> QED BY <1>1, <1>2, <1>3, Committed

\* delete_document: where operations do not overlap, a deletion has released the
\* key and taken the object, unless another document claims it.
THEOREM OneWorkerRemoval == ASSUME Alone PROVE Spec => DeletionRemovesObject
<1> DEFINE Removes == \A d \in Doc :
                        (StateOf(d) # "deleted" /\ StateOf(d)' = "deleted") =>
                          /\ docs'[d].key = Released
                          /\ docs[d].key \in objects' => ClaimedElsewhere(d, docs[d].key)
<1>1. LifecycleInv /\ OneWorkerInv /\ [Next]_vars => [Removes]_vars
  <2> SUFFICES ASSUME LifecycleInv, OneWorkerInv, [Next]_vars,
                      NEW d \in Doc, StateOf(d) # "deleted", StateOf(d)' = "deleted"
               PROVE  /\ docs'[d].key = Released
                      /\ docs[d].key \in objects' => ClaimedElsewhere(d, docs[d].key)
    OBVIOUS
  <2>1. PICK w \in Worker : \E t : Commit(w) /\ Has(w, t) /\ d = t.doc /\ CurrentState(t) = "deleted"
    BY OnlyCommitsMove
  <2>2. PICK t : Commit(w) /\ Has(w, t) /\ d = t.doc /\ CurrentState(t) = "deleted"
    BY <2>1
  <2>3. t.pc = "commit" /\ UNCHANGED objects /\ docs'[d].key = RowKey(t)
    BY <2>2, Committed
  <2>4. t.op = "delete" /\ Deleting(t)
    BY <2>2, <2>3 DEF Has, Fine, Headed, Carried, Unbound
  <2>5. t.row.key = Released /\ t.row # NoRow
    BY <2>2, <2>3, <2>4, ConstantsAssumption DEF Deleting, NoRow
  <2> QED BY <2>2, <2>3, <2>4, <2>5 DEF Deleting, RowKey
<1> QED BY <1>1, LifecycleInvariant, OneWorkerInvariant, PTL DEF Spec, DeletionRemovesObject

-----------------------------------------------------------------------------
(* One entry per content: what the index says of copies and their OCR.     *)

\* The states of documents that have text.
Pipelined == {"extractable", "extracted", "anonymized", "indexed"}

\* What a delivery recovers is a scan, and no OCR of one.
RecoversScansOnly == \A w \in Worker : At(w, "repoint") => Kind[tx[w].key] = "scan"

\* A content that profiling finds no text in.
Scanned(k) == k \in Key /\ Kind[k] = "scan"

\* An operation that began with the content k is at work on a document of the content m.
Names(k, m) == k = m \/ (Scanned(k) /\ m = OcrOf[k])

\* e is the document that is the OCR of d.
Owner(d, e) ==
  /\ e \in Doc \ {d} /\ docs[e].by = NoDoc
  /\ docs[e].key = OcrOf[docs[d].key] /\ docs[e].key \in Key

\* The entry of a document names it by its content, or by the scan its content was made from.
Listing ==
  \A d \in Doc :
    /\ index[d] # NoKey => Exists(d) /\ Names(index[d], docs[d].key) /\ ~Scanned(docs[d].key)
    /\ \A i \in DOMAIN trail[d] : trail[d][i].to \in Pipelined => ~Scanned(docs[d].key)
    /\ docs[d].by # NoDoc => Scanned(docs[d].key) /\ Owner(d, docs[d].by)

\* A row is that of a new document, moves one to its OCR, or retires one.
RowFits(t) ==
  t.row # NoRow =>
    \/ ~Exists(t.doc) /\ t.row = [key |-> t.key, by |-> NoDoc]
    \/ /\ Exists(t.doc) /\ docs[t.doc].by = NoDoc /\ t.row.by = NoDoc /\ ~Scanned(t.row.key)
       /\ Names(docs[t.doc].key, t.row.key)
    \/ t.row.key = docs[t.doc].key /\ Scanned(t.row.key) /\ Owner(t.doc, t.row.by)

\* What a transaction has in hand: a row that fits, a content that names its document,
\* records to a state with text only for a document that is no scan.
HandsList(t) ==
  t.doc \in Doc =>
    /\ RowFits(t)
    /\ t.op \in {"deliver", "reanonymize"} => Names(t.key, RowKey(t))
    /\ \A i \in DOMAIN t.recs : t.recs[i].to \in Pipelined => ~Scanned(RowKey(t))

\* The places of a transaction that has not written a row, and those of one whose
\* document has text.
Quiet == {"read", "profile", "extract", "anonymize", "index", "indexed", "recover",
          "repoint", "retire", "reindex", "retext", "note"}
Texted == {"extract", "anonymize", "index", "indexed", "reindex", "retext"}

\* What it will do where it is.
PlaceLists(t) ==
  t.doc \in Doc =>
  /\ t.pc \in Quiet => t.row = NoRow
  /\ t.pc \in Texted => ~Scanned(docs[t.doc].key)
  /\ t.pc = "reindex" => t.op = "reanonymize"
  /\ t.pc = "append" =>
       /\ t.to \in Pipelined => ~Scanned(RowKey(t))
       /\ t.then \in Quiet => t.row = NoRow
       /\ t.then \in Texted => ~Scanned(docs[t.doc].key)
  /\ (t.pc = "retire" \/ (t.pc = "append" /\ t.then = "retire")) =>
       Scanned(docs[t.doc].key) /\ Owner(t.doc, t.owner)

\* What makes the entries of one content one.
EntriesInv == Listing /\ \A w \in Worker : HandsList(tx[w]) /\ PlaceLists(tx[w])

\* A step that publishes nothing keeps what is said of every worker.
LEMMA SameLists ==
  ASSUME docs' = docs, NEW t
  PROVE  (HandsList(t) => HandsList(t)') /\ (PlaceLists(t) => PlaceLists(t)')
<1>1. \A k, m : Names(k, m)' <=> Names(k, m)
  BY DEF Names, Scanned
<1>2. \A d, e : Owner(d, e)' <=> Owner(d, e)
  BY DEF Owner
<1>3. RowKey(t)' = RowKey(t)
  BY DEF RowKey
<1>4. RowFits(t)' <=> RowFits(t)
  BY <1>1, <1>2 DEF RowFits, Exists, Scanned
<1> QED BY <1>1, <1>2, <1>3, <1>4 DEF HandsList, PlaceLists, Scanned

\* What is said of a transaction is said of the worker that has it.
LEMMA SaidOfWorker ==
  ASSUME NEW v \in Worker, NEW x, x = tx'[v]
  PROVE  (HandsList(x)' => HandsList(tx[v])') /\ (PlaceLists(x)' => PlaceLists(tx[v])')
<1>1. RowKey(tx[v])' = RowKey(x)'
  BY DEF RowKey
<1>2. RowFits(x)' => RowFits(tx[v])'
  BY DEF RowFits, Exists, Owner, Names, Scanned
<1>3. HandsList(x)' => HandsList(tx[v])'
  BY <1>1, <1>2 DEF HandsList, Names, Scanned
<1>4. Owner(x.doc, x.owner)' => Owner(tx[v].doc, tx[v].owner)'
  BY DEF Owner
<1>5. PlaceLists(x)' => PlaceLists(tx[v])'
  BY <1>1, <1>4 DEF PlaceLists, Scanned
<1> QED BY <1>3, <1>5

\* A step of one worker that publishes nothing.
LEMMA ListsMove ==
  ASSUME LifecycleInv, EntriesInv, NEW w \in Worker, NEW u, Set(w, u), HandsList(u), PlaceLists(u),
         docs' = docs, Listing'
  PROVE  EntriesInv'
<1>1. ASSUME NEW v \in Worker PROVE (HandsList(tx[v]) /\ PlaceLists(tx[v]))'
  <2>1. PICK x : x = tx'[v]
    OBVIOUS
  <2>2. x = u \/ x = tx[v]
    BY <2>1 DEF Set, LifecycleInv, TypeOK
  <2>3. HandsList(x) /\ PlaceLists(x)
    BY <2>2 DEF EntriesInv
  <2>4. HandsList(x)' /\ PlaceLists(x)'
    BY <2>3, SameLists
  <2> QED BY <2>1, <2>4, SaidOfWorker
<1> QED BY <1>1 DEF EntriesInv

\* And nothing in the index.
LEMMA ListsQuietly ==
  ASSUME LifecycleInv, EntriesInv, NEW w \in Worker, NEW u, Set(w, u), HandsList(u), PlaceLists(u),
         UNCHANGED <<docs, trail, index>>
  PROVE  EntriesInv'
<1>1. \A d, e : Owner(d, e)' <=> Owner(d, e)
  BY DEF Owner
<1>2. Listing'
  BY <1>1 DEF EntriesInv, Listing, Exists, Names, Scanned
<1> QED BY <1>2, ListsMove

\* An upsert: an entry under a key that names the document, which has text.
LEMMA ListsEntry ==
  ASSUME LifecycleInv, EntriesInv, NEW w \in Worker, NEW u, Set(w, u), HandsList(u), PlaceLists(u),
         UNCHANGED <<docs, trail>>, NEW d \in Doc, NEW k, index' = [index EXCEPT ![d] = k],
         Exists(d), Names(k, docs[d].key), ~Scanned(docs[d].key)
  PROVE  EntriesInv'
<1>1. \A c, e : Owner(c, e)' <=> Owner(c, e)
  BY DEF Owner
<1>2. index'[d] = k /\ \A e \in Doc \ {d} : index'[e] = index[e]
  BY DEF LifecycleInv, TypeOK
<1>3. Listing'
  BY <1>1, <1>2 DEF EntriesInv, Listing, Exists, Names, Scanned
<1> QED BY <1>3, ListsMove

\* The same in other hands.
LEMMA SameHandsList ==
  ASSUME NEW t, NEW u, SameHands(u, t)
  PROVE  (HandsList(t) => HandsList(u)) /\ RowKey(u) = RowKey(t)
BY DEF HandsList, SameHands, RowFits, RowKey

\* A document in a state with text is not a scan.
LEMMA StateLists ==
  ASSUME LifecycleInv, Published, Listing, NEW t, t.doc \in Doc, t.recs \in Seq(Record), HandsList(t),
         CurrentState(t) \in Pipelined
  PROVE  ~Scanned(RowKey(t))
<1> DEFINE h == trail[t.doc] \o t.recs
<1>1. trail[t.doc] \in Seq(Record)
  BY DEF LifecycleInv, TypeOK
<1>2. h # <<>>
  BY DEF CurrentState, Newest, Pipelined, Unborn
<1>3. CASE t.recs = <<>>
  <2>1. h = trail[t.doc] /\ Len(h) \in DOMAIN trail[t.doc] /\ CurrentState(t) = h[Len(h)].to
    BY <1>1, <1>2, <1>3 DEF CurrentState, Newest
  <2>2. ~Scanned(docs[t.doc].key) /\ Exists(t.doc)
    BY <1>2, <2>1 DEF Published, Listing
  <2> QED BY <2>2 DEF HandsList, RowFits, RowKey
<1>4. CASE t.recs # <<>>
  <2>1. Len(t.recs) \in DOMAIN t.recs /\ h[Len(h)] = t.recs[Len(t.recs)]
    BY <1>1, <1>4, LastAdded
  <2> QED BY <1>2, <2>1 DEF CurrentState, Newest, HandsList
<1> QED BY <1>3, <1>4

\* Where a transition leaves a worker.
LEMMA WentLists ==
  ASSUME NEW u, u.doc \in Doc, NEW to, NEW then \in Onward, Went(u, to, then),
         to \in Pipelined => ~Scanned(RowKey(u)),
         then \in Quiet => u.row = NoRow,
         then \in Texted => ~Scanned(docs[u.doc].key),
         then = "retire" => Scanned(docs[u.doc].key) /\ Owner(u.doc, u.owner)
  PROVE  PlaceLists(u)
BY DEF Went, PlaceLists, Onward, Quiet, Texted

\* What a worker is known to hold.
Lists(w, t) == Holds(w, t) /\ HandsList(t) /\ PlaceLists(t)

\* Everybody does.
LEMMA ListedByWorker ==
  ASSUME LifecycleInv, ServedInv, EntriesInv, NEW w \in Worker PROVE \E t : Lists(w, t)
BY HeldByWorker DEF Lists, Holds, EntriesInv

\* Nobody at work has nothing in hand.
LEMMA IdleLists == HandsList(Idle) /\ PlaceLists(Idle)
<1>1. Idle.doc \notin Doc
  BY ConstantsAssumption DEF Idle
<1> QED BY <1>1 DEF HandsList, PlaceLists

\* A request.
LEMMA RequestLists ==
  ASSUME LifecycleInv, ServedInv, EntriesInv, "delete" \notin Ops, NEW w \in Worker, Request(w)
  PROVE  EntriesInv'
<1>1. PICK u :
        /\ Set(w, u) /\ UNCHANGED <<docs, trail, texts, index, objects, lock>>
        /\ u.recs = <<>> /\ u.row = NoRow
        /\ \/ u.op = "deliver" /\ u.doc = NoDoc
           \/ /\ u.op = "reanonymize" /\ u.doc \in Doc /\ u.key = docs[u.doc].key
              /\ u.state = StateOf(u.doc) /\ u.state \in {"indexed", "anonymized"}
              /\ u.pc \in {"raise", "reindex"}
           \/ /\ u.op = "event" /\ u.doc \in Doc /\ u.pc = "append" /\ u.then = "commit"
              /\ u.to = StateOf(u.doc)
  BY RequestHands
<1>2. HandsList(u) /\ (u.doc \in Doc => RowKey(u) = docs[u.doc].key)
  BY <1>1, ConstantsAssumption DEF HandsList, RowFits, RowKey, Names
<1>3. u.doc \in Doc /\ StateOf(u.doc) \in Pipelined => ~Scanned(docs[u.doc].key)
  <2> SUFFICES ASSUME u.doc \in Doc, StateOf(u.doc) \in Pipelined PROVE ~Scanned(docs[u.doc].key)
    OBVIOUS
  <2>1. trail[u.doc] \in Seq(Record) /\ trail[u.doc] # <<>>
    BY DEF LifecycleInv, TypeOK, StateOf, Newest, Pipelined, Unborn
  <2>2. Len(trail[u.doc]) \in DOMAIN trail[u.doc] /\ StateOf(u.doc) = trail[u.doc][Len(trail[u.doc])].to
    BY <2>1 DEF StateOf, Newest
  <2> QED BY <2>2 DEF EntriesInv, Listing
<1>4. PlaceLists(u)
  BY <1>1, <1>2, <1>3, ConstantsAssumption DEF PlaceLists, Pipelined, Quiet, Texted
<1> QED BY <1>1, <1>2, <1>4, ListsQuietly

\* A worker that goes on where nothing more is asked.
LEMMA PlaceGoes ==
  ASSUME LifecycleInv, EntriesInv, NEW w \in Worker, NEW t, Lists(w, t), NEW u, Set(w, u), SameHands(u, t),
         UNCHANGED <<docs, trail, index>>, u.pc \notin {"append", "retire", "reindex"},
         u.pc \in Quiet => t.row = NoRow, u.pc \in Texted => ~Scanned(RowKey(t))
  PROVE  EntriesInv'
<1>1. HandsList(u)
  BY SameHandsList DEF Lists
<1>2. PlaceLists(u)
  BY DEF PlaceLists, SameHands, Quiet, Texted, RowKey
<1> QED BY <1>1, <1>2, ListsQuietly

\* register_live and write_original.
LEMMA IngestLists ==
  ASSUME LifecycleInv, ServedInv, EntriesInv, NEW w \in Worker,
         Known(w) \/ Skipped(w) \/ Find(w) \/ WriteOriginal(w)
  PROVE  EntriesInv'
<1>1. PICK t : Lists(w, t)
  BY ListedByWorker
<1>2. CASE Known(w)
  <2>1. t.pc = "known" /\ t.op = "deliver" /\ t.recs = <<>> /\ t.row = NoRow /\ t.key \in Key
    BY <1>1, <1>2 DEF Known, At, Lists, Holds, PlaceReady, Placed, Delivering
  <2>2. ASSUME NEW d \in LiveFor(t.key), Set(w, [t EXCEPT !.pc = "skipped", !.doc = d])
        PROVE  EntriesInv'
    <3>1. PICK u : u = [t EXCEPT !.pc = "skipped", !.doc = d]
      OBVIOUS
    <3>2. /\ u.pc = "skipped" /\ u.doc = d /\ u.op = t.op /\ u.key = t.key /\ u.row = t.row
          /\ u.recs = t.recs
      BY <1>1, <3>1 DEF Lists, Holds, Idle
    <3>3. HandsList(u) /\ PlaceLists(u)
      BY <2>1, <3>2 DEF HandsList, PlaceLists, LiveFor, RowFits, RowKey, Names, Quiet, Texted
    <3> QED BY <1>2, <2>2, <3>1, <3>3, ListsQuietly DEF Known
  <2> QED BY <1>1, <1>2, <2>2, IdleLists, ListsQuietly DEF Known, Lists, Holds
<1>3. CASE Skipped(w)
  BY <1>3, IdleLists, ListsQuietly DEF Skipped
<1>4. CASE Find(w)
  <2>1. PICK u :
          /\ Set(w, u) /\ t.pc = "find" /\ u.op = t.op /\ u.key = t.key /\ u.recs = t.recs
          /\ \/ u.doc \in LiveFor(t.key) /\ u.row = t.row /\ u.pc = "write"
             \/ /\ u.doc \in Doc /\ ~Exists(u.doc)
                /\ u.row = [key |-> t.key, by |-> NoDoc] /\ Went(u, "registered", "write")
    BY <1>1, <1>4, FindHands DEF Lists, Holds
  <2>2. t.recs = <<>> /\ t.row = NoRow /\ t.key \in Key
    BY <1>1, <2>1 DEF Lists, Holds, PlaceReady, Placed, Delivering
  <2>3. UNCHANGED <<docs, trail, index>>
    BY <1>4 DEF Find
  <2>4. CASE u.doc \in LiveFor(t.key) /\ u.row = t.row /\ u.pc = "write"
    <3>1. HandsList(u) /\ PlaceLists(u)
      BY <2>1, <2>2, <2>4 DEF HandsList, PlaceLists, LiveFor, RowFits, RowKey, Names, Quiet, Texted
    <3> QED BY <2>1, <2>3, <3>1, ListsQuietly
  <2>5. CASE /\ u.doc \in Doc /\ ~Exists(u.doc) /\ u.row = [key |-> t.key, by |-> NoDoc]
             /\ Went(u, "registered", "write")
    <3>1. u.row # NoRow
      BY <2>2, <2>5, ConstantsAssumption DEF NoRow
    <3>2. HandsList(u)
      BY <2>1, <2>2, <2>5, <3>1 DEF HandsList, RowFits, RowKey, Names
    <3>3. PlaceLists(u)
      BY <2>5, WentLists DEF Onward, Quiet, Texted, Pipelined
    <3> QED BY <2>1, <2>3, <3>2, <3>3, ListsQuietly
  <2> QED BY <2>1, <2>4, <2>5
<1>5. CASE WriteOriginal(w)
  <2>0. PICK u : u = [t EXCEPT !.pc = "commit"]
    OBVIOUS
  <2>1. Set(w, u) /\ SameHands(u, t) /\ u.pc = "commit"
    BY <1>1, <1>5, <2>0 DEF WriteOriginal, Lists, Holds, SameHands, Idle
  <2> QED BY <1>1, <1>5, <2>1, PlaceGoes DEF WriteOriginal, Quiet, Texted
<1> QED BY <1>2, <1>3, <1>4, <1>5

\* process.
LEMMA ProcessLists ==
  ASSUME LifecycleInv, ServedInv, EntriesInv, NEW w \in Worker,
         ReadState(w) \/ Profile(w) \/ Extract(w) \/ Anonymize(w) \/ Index(w) \/ Indexed(w)
  PROVE  EntriesInv'
<1>1. PICK t : Lists(w, t)
  BY ListedByWorker
<1>2. t.pc \in {"read", "profile", "extract", "anonymize", "index", "indexed"}
  BY <1>1 DEF ReadState, Profile, Extract, Anonymize, Index, Indexed, At, Lists, Holds
<1>3. t.op = "deliver" /\ t.doc \in Doc /\ t.key \in Key /\ t.recs \in Seq(Record)
  BY <1>1, <1>2 DEF Lists, Holds, Placed, Delivering, Transaction
<1>4. t.row = NoRow /\ RowKey(t) = docs[t.doc].key /\ Names(t.key, docs[t.doc].key) /\ Exists(t.doc)
  BY <1>1, <1>2, <1>3 DEF Lists, Holds, HandsReady, HandsList, PlaceLists, Quiet, RowKey
<1>5. CASE ReadState(w)
  <2>1. PICK p \in {"profile", "extract", "anonymize", "index", "commit", "raise"} :
          /\ Set(w, [t EXCEPT !.state = CurrentState(t), !.pc = p])
          /\ p \in {"extract", "anonymize", "index"} => CurrentState(t) \in Pipelined
    BY <1>1, <1>5 DEF ReadState, Lists, Holds, Pipelined
  <2>2. PICK u : u = [t EXCEPT !.state = CurrentState(t), !.pc = p]
    OBVIOUS
  <2>3. Set(w, u) /\ SameHands(u, t) /\ u.pc = p
    BY <1>1, <2>1, <2>2 DEF Lists, Holds, SameHands, Idle
  <2>4. p \in {"extract", "anonymize", "index"} => ~Scanned(RowKey(t))
    BY <1>1, <1>3, <2>1, StateLists DEF Lists, ServedInv, EntriesInv
  <2> QED BY <1>1, <1>4, <1>5, <2>3, <2>4, PlaceGoes DEF ReadState, Texted
<1>6. CASE Profile(w) \/ Extract(w) \/ Indexed(w)
  <2>1. PICK to \in State, then \in {"commit", "extract", "anonymize"} :
          /\ Transition(w, t, to, then)
          /\ to \in Pipelined \/ then \in Texted => t.pc \in Texted \/ Kind[t.key] # "scan"
    BY <1>1, <1>6 DEF Profile, Extract, Indexed, At, State, Lists, Holds, Pipelined, Texted
  <2>2. PICK u : Set(w, u) /\ SameHands(u, t) /\ Went(u, to, then)
    BY <1>1, <2>1, TransitionHands DEF Lists, Holds
  <2>3. to \in Pipelined \/ then \in Texted => ~Scanned(docs[t.doc].key)
    BY <1>1, <1>3, <1>4, <2>1 DEF Lists, PlaceLists, Names, Scanned
  <2>4. HandsList(u) /\ RowKey(u) = RowKey(t)
    BY <1>1, <2>2, SameHandsList DEF Lists
  <2>5. PlaceLists(u)
    BY <1>3, <1>4, <2>2, <2>3, <2>4, WentLists DEF SameHands, Onward
  <2>6. UNCHANGED <<docs, trail, index>>
    BY <1>6 DEF Profile, Extract, Indexed
  <2> QED BY <2>2, <2>4, <2>5, <2>6, ListsQuietly
<1>7. CASE Anonymize(w)
  <2>1. PICK v : v = [t EXCEPT !.text = "put"]
    OBVIOUS
  <2>2. /\ DOMAIN v = DOMAIN Idle /\ v.op = t.op /\ v.doc = t.doc /\ v.key = t.key /\ v.row = t.row
        /\ v.recs = t.recs
    BY <1>1, <2>1 DEF Lists, Holds, Idle
  <2>3. Transition(w, v, "anonymized", "index") /\ UNCHANGED <<docs, trail, index>> /\ t.pc = "anonymize"
    BY <1>1, <1>7, <2>1 DEF Anonymize, At, Lists, Holds
  <2>4. PICK u : Set(w, u) /\ SameHands(u, v) /\ Went(u, "anonymized", "index")
    BY <2>2, <2>3, TransitionHands
  <2>5. HandsList(u) /\ RowKey(u) = RowKey(t) /\ u.doc = t.doc /\ u.row = NoRow
    BY <1>1, <1>4, <2>2, <2>4 DEF Lists, HandsList, SameHands, RowFits, RowKey
  <2>6. ~Scanned(docs[t.doc].key)
    BY <1>1, <1>3, <2>3 DEF Lists, PlaceLists, Texted
  <2>7. PlaceLists(u)
    BY <1>3, <1>4, <2>4, <2>5, <2>6, WentLists DEF Onward
  <2> QED BY <2>3, <2>4, <2>5, <2>7, ListsQuietly
<1>8. CASE Index(w)
  <2>0. PICK u : u = [t EXCEPT !.pc = "indexed"]
    OBVIOUS
  <2>1. Set(w, u) /\ SameHands(u, t) /\ u.pc = "indexed" /\ t.pc = "index"
    BY <1>1, <1>8, <2>0 DEF Index, At, Lists, Holds, SameHands, Idle
  <2>2. index' = [index EXCEPT ![t.doc] = t.key] /\ UNCHANGED <<docs, trail>>
    BY <1>1, <1>8 DEF Index, Lists, Holds
  <2>3. ~Scanned(docs[t.doc].key)
    BY <1>1, <1>3, <2>1 DEF Lists, PlaceLists, Texted
  <2>4. HandsList(u) /\ PlaceLists(u)
    BY <1>1, <1>4, <2>1, <2>3, SameHandsList DEF Lists, PlaceLists, SameHands, Quiet, Texted
  <2> QED BY <1>3, <1>4, <2>1, <2>2, <2>3, <2>4, ListsEntry
<1> QED BY <1>5, <1>6, <1>7, <1>8

\* What OCR makes is no scan.
LEMMA OcrNoScan == \A k \in Key : ~Scanned(OcrOf[k])
  BY ConstantsAssumption DEF Scanned

\* An event of a document at hand.
LEMMA EventLists ==
  ASSUME LifecycleInv, ServedInv, EntriesInv, NEW w \in Worker, NEW t, t.doc \in Doc, t.recs \in Seq(Record),
         HandsList(t), NEW u, Set(w, u), SameHands(u, t), u.pc = "append", u.then = "commit",
         u.to \in Pipelined => ~Scanned(RowKey(t)),
         UNCHANGED <<docs, trail, index>>
  PROVE  EntriesInv'
<1>1. HandsList(u) /\ RowKey(u) = RowKey(t)
  BY SameHandsList
<1>2. PlaceLists(u)
  BY <1>1 DEF PlaceLists, SameHands, Quiet, Texted
<1> QED BY <1>1, <1>2, ListsQuietly

\* A document that is to move has the scan still, or its OCR already.
LEMMA AtRepoint ==
  ASSUME LifecycleInv, EntriesInv, NEW w \in Worker, NEW t, Lists(w, t), t.pc = "repoint", RecoversScansOnly
  PROVE  /\ t.op = "deliver" /\ t.doc \in Doc /\ Exists(t.doc) /\ t.row = NoRow
         /\ t.key \in Key /\ OcrOf[t.key] \in Key /\ Scanned(t.key) /\ docs[t.doc] \in Rows
         /\ docs[t.doc].key \in {t.key, OcrOf[t.key]}
         /\ \A o \in LiveFor(OcrOf[t.key]) \ {t.doc} : docs[t.doc].key = t.key /\ Owner(t.doc, o)
         /\ LiveFor(OcrOf[t.key]) \subseteq {t.doc} => docs[t.doc].by = NoDoc
<1>1. /\ t.op = "deliver" /\ t.doc \in Doc /\ Exists(t.doc) /\ t.row = NoRow
      /\ t.key \in Key /\ OcrOf[t.key] \in Key
  BY DEF Lists, Holds, Placed, PlaceReady, HandsReady, Delivering
<1>2. Scanned(t.key) /\ docs[t.doc] \in Rows
  BY <1>1 DEF RecoversScansOnly, At, Lists, Holds, Scanned, LifecycleInv, TypeOK
<1>3. docs[t.doc].key \in {t.key, OcrOf[t.key]}
  BY <1>1 DEF Lists, HandsList, RowKey, Names
<1>4. docs[t.doc].by # NoDoc => docs[t.doc].key = t.key /\ Owner(t.doc, docs[t.doc].by)
  BY <1>1, <1>3, OcrNoScan DEF EntriesInv, Listing
<1>5. ASSUME NEW o \in LiveFor(OcrOf[t.key]) \ {t.doc} PROVE docs[t.doc].key = t.key /\ Owner(t.doc, o)
  <2>1. o \in Doc \ {t.doc} /\ docs[o].key = OcrOf[t.key] /\ docs[o].by = NoDoc
    BY DEF LiveFor
  <2>2. docs[t.doc].key = t.key
    <3> SUFFICES ASSUME docs[t.doc].key = OcrOf[t.key], docs[t.doc].key # t.key PROVE FALSE
      BY <1>3
    <3>1. t.doc \in LiveFor(OcrOf[t.key])
      BY <1>1, <1>4 DEF LiveFor
    <3> QED BY <1>1, <2>1, <3>1 DEF LifecycleInv, LiveApart
  <2> QED BY <1>1, <2>1, <2>2 DEF Owner
<1>6. ASSUME LiveFor(OcrOf[t.key]) \subseteq {t.doc} PROVE docs[t.doc].by = NoDoc
  <2> SUFFICES ASSUME docs[t.doc].by # NoDoc PROVE FALSE
    OBVIOUS
  <2>1. PICK o : o = docs[t.doc].by
    OBVIOUS
  <2>2. o \in Doc \ {t.doc} /\ docs[o].key = OcrOf[t.key] /\ docs[o].by = NoDoc
    BY <1>4, <2>1 DEF Owner
  <2> QED BY <1>6, <2>2 DEF LiveFor
<1> QED BY <1>1, <1>2, <1>3, <1>5, <1>6

\* recover and supersede.
LEMMA RecoveryLists ==
  ASSUME LifecycleInv, ServedInv, EntriesInv, RecoversScansOnly,
         NEW w \in Worker, Recover(w) \/ Repoint(w) \/ Retire(w)
  PROVE  EntriesInv'
<1>1. PICK t : Lists(w, t)
  BY ListedByWorker
<1>2. t.pc \in {"recover", "repoint", "retire"}
  BY <1>1 DEF Recover, Repoint, Retire, At, Lists, Holds
<1>3. /\ t.op = "deliver" /\ t.doc \in Doc /\ t.key \in Key /\ t.recs \in Seq(Record) /\ t.row = NoRow
      /\ RowKey(t) = docs[t.doc].key /\ docs[t.doc] \in Rows /\ Exists(t.doc)
  BY <1>1, <1>2 DEF Lists, Holds, HandsReady, PlaceReady, Placed, Delivering, Transaction, RowKey,
     LifecycleInv, TypeOK
<1>4. CASE Recover(w)
  <2>1. CASE Set(w, [t EXCEPT !.pc = "raise"])
    <3>1. PICK u : u = [t EXCEPT !.pc = "raise"]
      OBVIOUS
    <3>2. Set(w, u) /\ SameHands(u, t) /\ u.pc = "raise"
      BY <1>1, <2>1, <3>1 DEF Lists, Holds, SameHands, Idle
    <3> QED BY <1>1, <1>4, <3>2, PlaceGoes DEF Recover, Quiet, Texted
  <2>2. CASE Event(w, t, CurrentState(t), "commit")
    <3>1. PICK u : /\ Set(w, u) /\ SameHands(u, t) /\ u.pc = "append" /\ u.then = "commit"
                   /\ u.to = CurrentState(t)
      BY <1>1, <2>2, EventHands DEF Lists, Holds
    <3>2. u.to \in Pipelined => ~Scanned(RowKey(t))
      BY <1>1, <1>3, <3>1, StateLists DEF Lists, ServedInv, EntriesInv
    <3> QED BY <1>1, <1>3, <1>4, <3>1, <3>2, EventLists DEF Recover, Lists
  <2>3. CASE Set(w, [t EXCEPT !.state = CurrentState(t), !.pc = "repoint"])
    <3>1. PICK u : u = [t EXCEPT !.state = CurrentState(t), !.pc = "repoint"]
      OBVIOUS
    <3>2. Set(w, u) /\ SameHands(u, t) /\ u.pc = "repoint"
      BY <1>1, <2>3, <3>1 DEF Lists, Holds, SameHands, Idle
    <3> QED BY <1>1, <1>3, <1>4, <3>2, PlaceGoes DEF Recover, Texted
  <2> QED BY <1>1, <1>4, <2>1, <2>2, <2>3 DEF Recover, Lists, Holds
<1>5. CASE Repoint(w)
  <2>1. PICK u :
          /\ Set(w, u) /\ t.pc = "repoint" /\ u.op = t.op /\ u.doc = t.doc /\ u.text = t.text
          /\ u.recs = t.recs
          /\ \/ /\ u.key = t.key /\ u.row = t.row /\ Went(u, "superseded", "retire")
                /\ u.owner \in LiveFor(OcrOf[t.key]) \ {t.doc}
             \/ /\ u.key = OcrOf[t.key] /\ u.row = [docs[t.doc] EXCEPT !.key = OcrOf[t.key]]
                /\ Went(u, "extractable", "commit")
                /\ LiveFor(OcrOf[t.key]) \subseteq {t.doc}
    BY <1>1, <1>5, RepointHands DEF Lists, Holds
  <2>2. UNCHANGED <<docs, trail, index>>
    BY <1>5 DEF Repoint
  <2>3. /\ OcrOf[t.key] \in Key /\ Scanned(t.key) /\ docs[t.doc].key \in {t.key, OcrOf[t.key]}
        /\ \A o \in LiveFor(OcrOf[t.key]) \ {t.doc} : docs[t.doc].key = t.key /\ Owner(t.doc, o)
        /\ LiveFor(OcrOf[t.key]) \subseteq {t.doc} => docs[t.doc].by = NoDoc
    BY <1>1, <2>1, AtRepoint
  <2>4. CASE /\ u.key = t.key /\ u.row = t.row /\ Went(u, "superseded", "retire")
             /\ u.owner \in LiveFor(OcrOf[t.key]) \ {t.doc}
    <3>1. HandsList(u)
      BY <1>1, <2>1, <2>4, SameHandsList DEF Lists, SameHands
    <3>2. Scanned(docs[u.doc].key) /\ Owner(u.doc, u.owner)
      BY <2>1, <2>3, <2>4
    <3>3. PlaceLists(u)
      BY <1>3, <2>1, <2>4, <3>2, WentLists DEF Onward, Quiet, Texted, Pipelined
    <3> QED BY <2>1, <2>2, <3>1, <3>3, ListsQuietly
  <2>5. CASE /\ u.key = OcrOf[t.key] /\ u.row = [docs[t.doc] EXCEPT !.key = OcrOf[t.key]]
             /\ Went(u, "extractable", "commit") /\ LiveFor(OcrOf[t.key]) \subseteq {t.doc}
    <3>1. u.row.key = OcrOf[t.key] /\ u.row.by = NoDoc /\ docs[t.doc].by = NoDoc
      BY <1>3, <2>3, <2>5 DEF Rows
    <3>2. u.row # NoRow /\ RowKey(u) = OcrOf[t.key] /\ ~Scanned(OcrOf[t.key])
      BY <1>3, <2>3, <3>1, OcrNoScan, ConstantsAssumption DEF NoRow, RowKey
    <3>3. Names(docs[t.doc].key, u.row.key)
      BY <2>3, <3>1 DEF Names
    <3>4. HandsList(u)
      BY <1>3, <2>1, <2>5, <3>1, <3>2, <3>3 DEF HandsList, RowFits, Names
    <3>5. PlaceLists(u)
      BY <1>3, <2>1, <2>5, <3>2, WentLists DEF Onward, Quiet, Texted
    <3> QED BY <2>1, <2>2, <3>4, <3>5, ListsQuietly
  <2> QED BY <2>1, <2>4, <2>5
<1>6. CASE Retire(w)
  <2>1. PICK u :
          /\ Set(w, u) /\ t.pc = "retire" /\ u.op = t.op /\ u.doc = t.doc /\ u.key = t.key
          /\ u.text = t.text /\ u.recs = t.recs
          /\ \/ u.pc = "raise" /\ u.row = t.row
             \/ u.pc = "commit" /\ u.row = [docs[t.doc] EXCEPT !.by = t.owner]
    BY <1>1, <1>6, RetireHands DEF Lists, Holds
  <2>2. Scanned(docs[t.doc].key) /\ Owner(t.doc, t.owner)
    BY <1>1, <1>3, <2>1 DEF Lists, PlaceLists
  <2>3. UNCHANGED <<docs, trail, index>>
    BY <1>6 DEF Retire
  <2>4. CASE u.pc = "raise" /\ u.row = t.row
    <3>1. SameHands(u, t)
      BY <2>1, <2>4 DEF SameHands
    <3> QED BY <1>1, <2>1, <2>3, <2>4, <3>1, PlaceGoes DEF Quiet, Texted
  <2>5. CASE u.pc = "commit" /\ u.row = [docs[t.doc] EXCEPT !.by = t.owner]
    <3>1. u.row.key = docs[t.doc].key /\ u.row.by = t.owner
      BY <1>3, <2>5 DEF Rows
    <3>2. u.row # NoRow /\ RowKey(u) = RowKey(t)
      BY <1>3, <2>2, <3>1, ConstantsAssumption DEF NoRow, RowKey, Scanned
    <3>3. HandsList(u)
      BY <1>1, <1>3, <2>1, <2>2, <3>1, <3>2 DEF Lists, HandsList, RowFits
    <3>4. PlaceLists(u)
      BY <2>5 DEF PlaceLists, Quiet, Texted
    <3> QED BY <2>1, <2>3, <3>3, <3>4, ListsQuietly
  <2> QED BY <2>1, <2>4, <2>5
<1> QED BY <1>4, <1>5, <1>6

\* reanonymize and note_failure.
LEMMA ReanonymizationLists ==
  ASSUME LifecycleInv, ServedInv, EntriesInv, NEW w \in Worker, Reindex(w) \/ Retext(w) \/ NoteFailure(w)
  PROVE  EntriesInv'
<1>1. PICK t : Lists(w, t)
  BY ListedByWorker
<1>2. t.pc \in {"reindex", "retext", "note"}
  BY <1>1 DEF Reindex, Retext, NoteFailure, At, Lists, Holds
<1>3. /\ t.doc \in Doc /\ t.recs \in Seq(Record) /\ t.row = NoRow /\ RowKey(t) = docs[t.doc].key
      /\ Exists(t.doc)
  BY <1>1, <1>2 DEF Lists, Holds, HandsReady, PlaceLists, Placed, Transaction, RowKey, Quiet
<1>4. t.pc \in {"reindex", "retext"} => ~Scanned(docs[t.doc].key)
  BY <1>1, <1>3 DEF Lists, PlaceLists, Texted
<1>5. CASE Reindex(w)
  <2>1. PICK u : u = [t EXCEPT !.pc = "retext"]
    OBVIOUS
  <2>2. Set(w, u) /\ SameHands(u, t) /\ u.pc = "retext" /\ t.pc = "reindex"
    BY <1>1, <1>5, <2>1 DEF Reindex, At, Lists, Holds, SameHands, Idle
  <2>3. index' = [index EXCEPT ![t.doc] = t.key] /\ UNCHANGED <<docs, trail>>
    BY <1>1, <1>5 DEF Reindex, Lists, Holds
  <2>4. Names(t.key, docs[t.doc].key)
    BY <1>1, <1>3, <2>2 DEF Lists, HandsList, PlaceLists
  <2>5. HandsList(u) /\ PlaceLists(u)
    BY <1>1, <1>3, <1>4, <2>2, SameHandsList DEF Lists, PlaceLists, SameHands, Quiet, Texted
  <2> QED BY <1>3, <1>4, <2>2, <2>3, <2>4, <2>5, ListsEntry
<1>6. CASE Retext(w)
  <2>1. PICK v : v = [t EXCEPT !.text = "put"]
    OBVIOUS
  <2>2. /\ DOMAIN v = DOMAIN Idle /\ v.op = t.op /\ v.doc = t.doc /\ v.key = t.key /\ v.row = t.row
        /\ v.recs = t.recs
    BY <1>1, <2>1 DEF Lists, Holds, Idle
  <2>3. Event(w, v, t.state, "commit") /\ UNCHANGED <<docs, trail, index>> /\ t.pc = "retext"
    BY <1>1, <1>6, <2>1 DEF Retext, Lists, Holds, At
  <2>4. PICK u : /\ Set(w, u) /\ SameHands(u, v) /\ u.pc = "append" /\ u.then = "commit"
    BY <2>2, <2>3, EventHands
  <2>5. HandsList(v) /\ RowKey(v) = RowKey(t)
    BY <1>1, <2>2 DEF Lists, HandsList, RowFits, RowKey
  <2> QED BY <1>3, <1>4, <2>2, <2>3, <2>4, <2>5, EventLists
<1>7. CASE NoteFailure(w)
  <2>1. PICK u : /\ Set(w, u) /\ SameHands(u, t) /\ u.pc = "append" /\ u.then = "commit"
                 /\ u.to = CurrentState(t)
    BY <1>1, <1>7, EventHands DEF NoteFailure, Lists, Holds
  <2>2. u.to \in Pipelined => ~Scanned(RowKey(t))
    BY <1>1, <1>3, <2>1, StateLists DEF Lists, ServedInv, EntriesInv
  <2> QED BY <1>1, <1>3, <1>7, <2>1, <2>2, EventLists DEF NoteFailure, Lists
<1> QED BY <1>5, <1>6, <1>7

\* audit.append.
LEMMA AppendLists ==
  ASSUME LifecycleInv, ServedInv, EntriesInv, NEW w \in Worker, AppendRecord(w) PROVE EntriesInv'
<1>1. PICK t : Lists(w, t)
  BY ListedByWorker
<1>2. PICK u : /\ Set(w, u) /\ t.pc = "append" /\ u.pc = t.then /\ u.owner = t.owner
               /\ u.op = t.op /\ u.doc = t.doc /\ u.key = t.key /\ u.row = t.row
               /\ u.recs = Append(t.recs, [from |-> t.from, to |-> t.to])
  BY <1>1, AppendHands DEF Lists, Holds
<1>3. t.then \in Onward /\ t.recs \in Seq(Record) /\ t.doc \in Doc
  BY <1>1, <1>2 DEF Lists, Holds, Placed, Onward, Transaction
<1>4. t.to \in Pipelined => ~Scanned(RowKey(t))
  BY <1>1, <1>2, <1>3 DEF Lists, PlaceLists
<1>5. \A i \in DOMAIN u.recs : u.recs[i].to \in Pipelined => ~Scanned(RowKey(t))
  <2>1. \A i \in DOMAIN u.recs : \/ i \in DOMAIN t.recs /\ u.recs[i] = t.recs[i]
                                 \/ u.recs[i] = [from |-> t.from, to |-> t.to]
    BY <1>2, <1>3
  <2> QED BY <1>1, <1>3, <1>4, <2>1 DEF Lists, HandsList
<1>6. HandsList(u)
  BY <1>1, <1>2, <1>5 DEF Lists, HandsList, RowFits, RowKey
<1>7. PlaceLists(u)
  BY <1>1, <1>2, <1>3 DEF Lists, PlaceLists, Onward, Quiet, Texted
<1> QED BY <1>2, <1>6, <1>7, ListsQuietly DEF AppendRecord

\* The end of a transaction without a commit.
LEMMA FailureLists ==
  ASSUME LifecycleInv, ServedInv, EntriesInv, NEW w \in Worker, Raise(w) \/ Crash(w) \/ DeadlockVictim(w)
  PROVE  EntriesInv'
<1>1. PICK t : Lists(w, t)
  BY ListedByWorker
<1>2. PICK u : /\ Set(w, u) /\ UNCHANGED <<docs, trail, texts, index, objects, started>>
               /\ \/ u = Idle
                  \/ u.op = "note" /\ u.pc = "note" /\ u.doc = t.doc /\ u.recs = <<>> /\ u.row = NoRow
  BY <1>1, AbandonHands DEF Lists, Holds
<1>3. CASE u = Idle
  BY <1>2, <1>3, IdleLists, ListsQuietly
<1>4. CASE u # Idle
  <2>1. HandsList(u) /\ PlaceLists(u)
    BY <1>2, <1>4 DEF HandsList, PlaceLists, RowFits, Texted
  <2> QED BY <1>2, <2>1, ListsQuietly
<1> QED BY <1>3, <1>4

\* What a commit does to rows: it adds one, moves a scan to its OCR, or retires one.
RowsMove ==
  \A e \in Doc : Exists(e) =>
    /\ Exists(e)' /\ Names(docs[e].key, docs'[e].key)
    /\ ~Scanned(docs[e].key) => docs'[e].key = docs[e].key /\ docs'[e].by = docs[e].by
    /\ docs'[e].key # docs[e].key => ~Scanned(docs'[e].key)

\* The documents of owners are not scans: they stay what they are.
LEMMA OwnersStay ==
  ASSUME LifecycleInv, RowsMove, NEW d \in Doc, NEW e, Owner(d, e), Scanned(docs[d].key),
         docs'[d].key = docs[d].key
  PROVE  Owner(d, e)'
<1>1. e \in Doc \ {d} /\ docs[e].key = OcrOf[docs[d].key] /\ docs[e].key \in Key /\ docs[e].by = NoDoc
  BY DEF Owner
<1>2. Exists(e) /\ ~Scanned(docs[e].key)
  BY <1>1, OcrNoScan, ConstantsAssumption DEF Exists, NoRow, Scanned
<1>3. docs'[e].key = docs[e].key /\ docs'[e].by = docs[e].by
  BY <1>1, <1>2 DEF RowsMove
<1> QED BY <1>1, <1>3 DEF Owner

\* A content that named the document names it after a commit.
LEMMA NamesOn ==
  ASSUME RowsMove, NEW d \in Doc, Exists(d), NEW k, Names(k, docs[d].key)
  PROVE  Names(k, docs'[d].key)
<1>1. CASE k = docs[d].key
  BY <1>1 DEF RowsMove
<1>2. CASE Scanned(k) /\ docs[d].key = OcrOf[k]
  <2>1. ~Scanned(docs[d].key)
    BY <1>2, OcrNoScan DEF Scanned
  <2> QED BY <2>1 DEF RowsMove
<1> QED BY <1>1, <1>2 DEF Names

\* What a worker holds while another commits.
LEMMA HandsOutlast ==
  ASSUME LifecycleInv, RowsMove, NEW s, HandsReady(s), HandsList(s),
         s.doc \in Doc, s.row # NoRow => docs'[s.doc] = docs[s.doc]
  PROVE  /\ HandsList(s)' /\ (~Scanned(RowKey(s)) => ~Scanned(RowKey(s)'))
         /\ s.row = NoRow /\ ~Scanned(docs[s.doc].key) => ~Scanned(docs'[s.doc].key)
<1>1. CASE s.row = NoRow
  <2>1. Exists(s.doc) /\ RowKey(s) = docs[s.doc].key /\ RowKey(s)' = docs'[s.doc].key
    BY <1>1 DEF HandsReady, RowKey
  <2>2. ~Scanned(docs[s.doc].key) => docs'[s.doc].key = docs[s.doc].key
    BY <2>1 DEF RowsMove
  <2>3. s.op \in {"deliver", "reanonymize"} => Names(s.key, docs'[s.doc].key)
    BY <2>1, NamesOn DEF HandsList
  <2>4. RowFits(s)'
    BY <1>1 DEF RowFits
  <2>5. HandsList(s)'
    BY <2>1, <2>2, <2>3, <2>4 DEF HandsList, Names, Scanned
  <2> QED BY <2>1, <2>2, <2>5
<1>2. CASE s.row # NoRow
  <2>1. RowKey(s) = s.row.key /\ RowKey(s)' = s.row.key
    BY <1>2 DEF RowKey
  <2>2. RowFits(s)'
    <3>1. RowFits(s)
      BY DEF HandsList
    <3>2. s.row.key = docs[s.doc].key /\ Scanned(s.row.key) /\ Owner(s.doc, s.row.by) =>
            Owner(s.doc, s.row.by)'
      BY <1>2, OwnersStay
    <3> QED BY <1>2, <3>1, <3>2 DEF RowFits, Exists, Names, Scanned
  <2>3. HandsList(s)'
    BY <2>1, <2>2 DEF HandsList, Names, Scanned
  <2> QED BY <1>2, <2>1, <2>3
<1> QED BY <1>1, <1>2

\* And where it is.
LEMMA PlaceOutlasts ==
  ASSUME LifecycleInv, RowsMove, NEW s, HandsReady(s), PlaceReady(s), HandsList(s), PlaceLists(s),
         s.doc \in Doc, s.row # NoRow => docs'[s.doc] = docs[s.doc],
         \A e : Scanned(docs[s.doc].key) /\ Owner(s.doc, e) => docs'[s.doc].key = docs[s.doc].key
  PROVE  PlaceLists(s)'
<1>1. ~Scanned(RowKey(s)) => ~Scanned(RowKey(s)')
  BY HandsOutlast
<1>2. s.row = NoRow /\ ~Scanned(docs[s.doc].key) => ~Scanned(docs'[s.doc].key)
  BY HandsOutlast
<1>3. Scanned(docs[s.doc].key) /\ Owner(s.doc, s.owner) =>
        Scanned(docs'[s.doc].key) /\ Owner(s.doc, s.owner)'
  BY OwnersStay
<1>4. \A k : Scanned(k)' <=> Scanned(k)
  BY DEF Scanned
<1> HIDE DEF Scanned, RowKey
<1>5. Texted \subseteq Quiet
  BY DEF Texted, Quiet
<1>6. /\ s.pc \in Quiet => s.row = NoRow
      /\ s.pc \in Texted => ~Scanned(docs'[s.doc].key)
      /\ s.pc = "reindex" => s.op = "reanonymize"
  BY <1>2, <1>5 DEF PlaceLists
<1>7. s.pc = "append" =>
       /\ s.to \in Pipelined => ~Scanned(RowKey(s)')
       /\ s.then \in Quiet => s.row = NoRow
       /\ s.then \in Texted => ~Scanned(docs'[s.doc].key)
  BY <1>1, <1>2, <1>5 DEF PlaceLists
<1>8. (s.pc = "retire" \/ (s.pc = "append" /\ s.then = "retire")) =>
       Scanned(docs'[s.doc].key) /\ Owner(s.doc, s.owner)'
  BY <1>3 DEF PlaceLists
<1> QED BY <1>6, <1>7, <1>8 DEF PlaceLists, Scanned

\* The commit of a row moves rows as they may.
LEMMA CommitMovesRows ==
  ASSUME LifecycleInv, NEW t, t.doc \in Doc, RowFits(t), t.row # NoRow,
         docs' = [docs EXCEPT ![t.doc] = t.row]
  PROVE  /\ RowsMove /\ docs'[t.doc] = t.row /\ \A e \in Doc \ {t.doc} : docs'[e] = docs[e]
<1>1. docs'[t.doc] = t.row /\ \A e \in Doc \ {t.doc} : docs'[e] = docs[e]
  BY DEF LifecycleInv, TypeOK
<1>2. ASSUME NEW e \in Doc \ {t.doc}, Exists(e)
      PROVE  Exists(e)' /\ Names(docs[e].key, docs'[e].key) /\ docs'[e] = docs[e]
  BY <1>1, <1>2 DEF Exists, Names
<1>3. ASSUME Exists(t.doc)
      PROVE  /\ Exists(t.doc)' /\ Names(docs[t.doc].key, t.row.key)
             /\ ~Scanned(docs[t.doc].key) => t.row.key = docs[t.doc].key /\ t.row.by = docs[t.doc].by
             /\ t.row.key # docs[t.doc].key => ~Scanned(t.row.key)
  BY <1>1, <1>3 DEF RowFits, Exists, Names
<1> QED BY <1>1, <1>2, <1>3 DEF RowsMove

\* A commit publishes what fitted: the row, and the records of a document with text.
LEMMA CommitLists ==
  ASSUME LifecycleInv, ServedInv, EntriesInv, NEW w \in Worker, Commit(w) PROVE EntriesInv'
<1>1. PICK t : Lists(w, t)
  BY ListedByWorker
<1>2. PICK u : /\ Set(w, u) /\ t.pc = "commit"
               /\ \/ u = Idle
                  \/ /\ u.op = "deliver" /\ t.op = "deliver" /\ u.pc \in {"read", "recover"}
                     /\ u.doc = t.doc /\ u.key = t.key
                     /\ u.recs = <<>> /\ u.row = NoRow /\ u.text = "same"
  BY <1>1, CommitHands DEF Lists, Holds
<1>3. t.doc \in Doc /\ t.recs \in Seq(Record)
  BY <1>1, <1>2 DEF Lists, Holds, Placed, Transaction
<1>4. /\ docs' = IF t.row = NoRow THEN docs ELSE [docs EXCEPT ![t.doc] = t.row]
      /\ trail' = [trail EXCEPT ![t.doc] = trail[t.doc] \o t.recs] /\ index' = index
  BY <1>1 DEF Commit, Lists, Holds
<1>5. /\ RowsMove /\ docs'[t.doc].key = RowKey(t)
      /\ t.row # NoRow => docs'[t.doc] = t.row
      /\ t.row = NoRow => docs'[t.doc] = docs[t.doc]
      /\ \A e \in Doc \ {t.doc} : docs'[e] = docs[e]
  <2>1. CASE t.row = NoRow
    BY <1>4, <2>1 DEF RowsMove, Names, Exists, RowKey
  <2>2. CASE t.row # NoRow
    <3>1. RowFits(t) /\ docs' = [docs EXCEPT ![t.doc] = t.row]
      BY <1>1, <1>3, <1>4, <2>2 DEF Lists, HandsList
    <3>2. /\ RowsMove /\ docs'[t.doc] = t.row /\ \A e \in Doc \ {t.doc} : docs'[e] = docs[e]
      BY <1>3, <2>2, <3>1, CommitMovesRows
    <3> QED BY <2>2, <3>2 DEF RowKey
  <2> QED BY <2>1, <2>2
<1>6. ASSUME NEW e \in Doc, docs'[e].by # NoDoc PROVE Scanned(docs'[e].key) /\ Owner(e, docs[e].by)'
  <2>1. PICK o : o = docs'[e].by
    OBVIOUS
  <2>2. docs'[e].key = docs[e].key /\ Scanned(docs[e].key) /\ Owner(e, o)
    <3>1. CASE docs'[e] = docs[e]
      BY <1>6, <2>1, <3>1 DEF EntriesInv, Listing
    <3>2. CASE e = t.doc /\ t.row # NoRow
      BY <1>1, <1>3, <1>5, <1>6, <2>1, <3>2 DEF Lists, HandsList, RowFits, NoRow
    <3> QED BY <1>5, <3>1, <3>2
  <2>3. Owner(e, o)'
    BY <1>5, <2>2, OwnersStay
  <2> QED BY <2>1, <2>2, <2>3 DEF Owner
<1>7. ASSUME NEW e \in Doc, NEW i \in DOMAIN trail'[e], trail'[e][i].to \in Pipelined
      PROVE  ~Scanned(docs'[e].key)
  <2>1. trail[e] \in Seq(Record)
    BY DEF LifecycleInv, TypeOK
  <2>2. ASSUME NEW j \in DOMAIN trail[e], trail[e][j].to \in Pipelined PROVE ~Scanned(docs'[e].key)
    <3>1. Exists(e)
      BY <2>1, <2>2 DEF ServedInv, Published
    <3> QED BY <1>5, <2>2, <3>1 DEF EntriesInv, Listing, RowsMove
  <2>3. CASE e # t.doc
    <3>1. trail'[e] = trail[e]
      BY <1>4, <2>3 DEF LifecycleInv, TypeOK
    <3> QED BY <1>7, <2>2, <3>1
  <2>4. CASE e = t.doc
    <3>1. trail'[e] = trail[e] \o t.recs
      BY <1>4, <2>4 DEF LifecycleInv, TypeOK
    <3>2. \/ i \in DOMAIN trail[e] /\ trail'[e][i] = trail[e][i]
          \/ \E j \in DOMAIN t.recs : trail'[e][i] = t.recs[j]
      <4>1. PICK g : g = trail[e]
        OBVIOUS
      <4>2. PICK r : r = t.recs
        OBVIOUS
      <4>3. g \in Seq(Record) /\ r \in Seq(Record) /\ i \in DOMAIN (g \o r)
        BY <1>3, <1>7, <2>1, <3>1, <4>1, <4>2
      <4>4. \/ i \in DOMAIN g /\ (g \o r)[i] = g[i]
            \/ \E j \in DOMAIN r : (g \o r)[i] = r[j]
        BY <4>3, AddedOrThere
      <4> QED BY <3>1, <4>1, <4>2, <4>4
    <3>3. \A j \in DOMAIN t.recs : t.recs[j].to \in Pipelined => ~Scanned(docs'[e].key)
      BY <1>1, <1>3, <1>5, <2>4 DEF Lists, HandsList
    <3> QED BY <1>7, <2>2, <3>2, <3>3
  <2> QED BY <2>3, <2>4
<1>8. ASSUME NEW e \in Doc, index'[e] # NoKey
      PROVE  Exists(e)' /\ Names(index'[e], docs'[e].key) /\ ~Scanned(docs'[e].key)
  BY <1>4, <1>5, <1>8 DEF EntriesInv, Listing, RowsMove
<1>9. Listing'
  <2>1. \A e \in Doc :
          /\ index'[e] # NoKey =>
               Exists(e)' /\ Names(index'[e], docs'[e].key) /\ ~Scanned(docs'[e].key)
          /\ \A i \in DOMAIN trail'[e] : trail'[e][i].to \in Pipelined => ~Scanned(docs'[e].key)
          /\ docs'[e].by # NoDoc => Scanned(docs'[e].key) /\ Owner(e, docs[e].by)'
    BY <1>6, <1>7, <1>8
  <2> QED BY <2>1 DEF Listing, Names, Scanned, Owner
<1>10. ASSUME NEW v \in Worker \ {w} PROVE HandsList(tx[v])' /\ PlaceLists(tx[v])'
  <2>1. PICK s : Lists(v, s)
    BY ListedByWorker
  <2>2. tx'[v] = s
    BY <1>2, <2>1 DEF Set, LifecycleInv, TypeOK, Lists, Holds
  <2>3. CASE s.doc \notin Doc
    BY <2>2, <2>3 DEF HandsList, PlaceLists
  <2>4. CASE s.doc \in Doc
    <3>1. s.row # NoRow => docs'[s.doc] = docs[s.doc]
      BY <1>1, <1>5, <2>1, <2>4 DEF Lists, Holds, LifecycleInv, ClaimsApart
    <3>2. ASSUME NEW e, Scanned(docs[s.doc].key), Owner(s.doc, e) PROVE docs'[s.doc].key = docs[s.doc].key
      <4> SUFFICES ASSUME s.doc = t.doc, t.row # NoRow, docs[t.doc].by = NoDoc, t.row.by = NoDoc,
                          ~Scanned(t.row.key), Names(docs[t.doc].key, t.row.key)
                   PROVE  FALSE
        <5>1. Exists(s.doc)
          BY <3>2, ConstantsAssumption DEF Exists, NoRow, Scanned
        <5> QED BY <1>1, <1>3, <1>5, <2>4, <5>1 DEF Lists, HandsList, RowFits
      <4>1. t.row.key = OcrOf[docs[t.doc].key] /\ t.row.key \in Key
        BY <3>2 DEF Names, Owner
      <4>2. Claims(tx[w], t.row.key) /\ tx[w].doc = t.doc
        BY <1>1 DEF Claims, Lists, Holds
      <4>3. e \in LiveFor(t.row.key) /\ e # t.doc
        BY <3>2, <4>1 DEF Owner, LiveFor
      <4> QED BY <4>1, <4>2, <4>3 DEF LifecycleInv, ClaimsApart
    <3>3. HandsReady(s) /\ PlaceReady(s) /\ HandsList(s) /\ PlaceLists(s)
      BY <2>1 DEF Lists, Holds
    <3>4. HandsList(s)'
      BY <1>5, <2>4, <3>1, <3>3, HandsOutlast
    <3>5. PlaceLists(s)'
      BY <1>5, <2>4, <3>1, <3>2, <3>3, PlaceOutlasts
    <3> QED BY <2>2, <3>4, <3>5, SaidOfWorker
  <2> QED BY <2>3, <2>4
<1>11. HandsList(tx[w])' /\ PlaceLists(tx[w])'
  <2>1. tx'[w] = u
    BY <1>2 DEF Set, LifecycleInv, TypeOK
  <2>2. CASE u = Idle
    <3>1. u.doc \notin Doc
      BY <2>2, ConstantsAssumption DEF Idle
    <3> QED BY <2>1, <3>1 DEF HandsList, PlaceLists
  <2>3. CASE u # Idle
    <3>1. /\ u.op = "deliver" /\ u.pc \in {"read", "recover"} /\ u.doc = t.doc /\ u.key = t.key
          /\ u.recs = <<>> /\ u.row = NoRow /\ t.op = "deliver"
      BY <1>2, <2>3
    <3>2. Names(u.key, docs'[u.doc].key)
      BY <1>1, <1>3, <1>5, <3>1 DEF Lists, HandsList
    <3>3. HandsList(u)'
      BY <3>1, <3>2 DEF HandsList, RowFits, RowKey, Names, Scanned
    <3>4. PlaceLists(u)'
      BY <3>1 DEF PlaceLists, Quiet, Texted
    <3> QED BY <2>1, <3>3, <3>4, SaidOfWorker
  <2> QED BY <2>2, <2>3
<1> QED BY <1>9, <1>10, <1>11 DEF EntriesInv

\* What is repointed was made and stored before.
Stored == \A w \in Worker : At(w, "repoint") => OcrOf[tx[w].key] \in objects

\* Without deletions no object goes.
LEMMA ObjectsGrow ==
  ASSUME NEW w \in Worker, Request(w) \/ Step(w) \/ Crash(w), ~Deletes(w)
  PROVE  objects \subseteq objects'
<1>1. CASE Request(w)
  BY <1>1 DEF Request, Deliver, Delete, Reanonymize, RecordEvent
<1>2. CASE Crash(w) \/ Raise(w) \/ DeadlockVictim(w)
  BY <1>2 DEF Crash, Raise, DeadlockVictim, Abandon
<1>3. CASE Step(w) /\ ~Raise(w) /\ ~DeadlockVictim(w)
  BY <1>3 DEF Step, Deletes, AppendRecord, Commit,
     Known, Skipped, Find, WriteOriginal, ReadState, Profile, Extract, Anonymize, Index, Indexed,
     Recover, Repoint, Retire, Reindex, Retext, NoteFailure
<1> QED BY <1>1, <1>2, <1>3

LEMMA StoredInvariant == ASSUME "delete" \notin Ops PROVE Spec => []Stored
<1>1. Init => Stored
  BY DEF Init, Stored, At, Idle
<1>2. LifecycleInv /\ TrailInv /\ ServedInv /\ Stored /\ [Next]_vars => Stored'
  <2> SUFFICES ASSUME LifecycleInv, TrailInv, ServedInv, Stored, [Next]_vars PROVE Stored'
    OBVIOUS
  <2>1. ASSUME NEW w \in Worker, Request(w) \/ Step(w) \/ Crash(w) PROVE Stored'
    <3>1. objects \subseteq objects' /\ tx \in [Worker -> Transaction]
      BY <2>1, ObjectsGrow, NothingDeletes DEF LifecycleInv, TypeOK
    <3>2. PICK u : Set(w, u) /\ (u.pc = "repoint" => OcrOf[u.key] \in objects')
      <4>1. CASE Commit(w)
        <5>1. PICK t : t = tx[w] /\ Placed(t) /\ DOMAIN t = DOMAIN Idle
          BY <3>1 DEF LifecycleInv, Transaction, Idle
        <5>2. PICK u : Set(w, u) /\ (u = Idle \/ u.pc \in {"read", "recover"})
          BY <4>1, <5>1, CommitHands
        <5>3. u.pc # "repoint"
          BY <5>2 DEF Idle
        <5> QED BY <5>2, <5>3
      <4>2. CASE ~Commit(w)
        BY <2>1, <4>2, WorkerIsSound
      <4> QED BY <4>1, <4>2
    <3>3. tx'[w] = u /\ \A v \in Worker \ {w} : tx'[v] = tx[v]
      BY <3>1, <3>2 DEF Set
    <3> QED BY <3>1, <3>2, <3>3 DEF Stored, At
  <2>2. CASE UNCHANGED vars
    BY <2>2 DEF vars, Stored, At
  <2> QED BY <2>1, <2>2 DEF Next
<1> QED BY <1>1, <1>2, LifecycleInvariant, TrailInvariant, ServedInvariant, PTL DEF Spec

\* The invariant of deliveries, re-anonymizations and events, as long as OCR was made
\* of scans only.
LEMMA EntriesInvariant ==
  ASSUME "delete" \notin Ops PROVE Spec => [](OcrOfScansOnly => EntriesInv)
<1> DEFINE Inv == OcrOfScansOnly => EntriesInv
<1>1. Init => Inv
  <2> SUFFICES ASSUME Init PROVE EntriesInv
    OBVIOUS
  <2>1. Listing
    BY DEF Init, Listing, NoRow
  <2>2. \A w \in Worker : tx[w] = Idle
    BY DEF Init
  <2> QED BY <2>1, <2>2, IdleLists DEF EntriesInv
<1>2. LifecycleInv /\ ServedInv /\ Stored /\ Inv /\ [Next]_vars => Inv'
  <2> SUFFICES ASSUME LifecycleInv, ServedInv, Stored, Inv, [Next]_vars, OcrOfScansOnly'
               PROVE  EntriesInv'
    OBVIOUS
  <2>1. ASSUME NEW w \in Worker, Request(w) \/ Step(w) \/ Crash(w) PROVE EntriesInv'
    <3>1. ~Deletes(w)
      BY NothingDeletes
    <3>2. OcrOfScansOnly
      BY <2>1, <3>1, ObjectsGrow DEF OcrOfScansOnly
    <3>3. EntriesInv
      BY <3>2
    <3>4. RecoversScansOnly
      <4>1. \A v \in Worker : At(v, "repoint") => tx[v].key \in Key
        BY DEF LifecycleInv, Placed, Delivering, At
      <4> QED BY <3>2, <4>1 DEF RecoversScansOnly, Stored, OcrOfScansOnly
    <3> QED BY <2>1, <3>1, <3>3, <3>4, RequestLists, IngestLists, ProcessLists, RecoveryLists,
         ReanonymizationLists, AppendLists, CommitLists, FailureLists DEF Step, Deletes
  <2>2. CASE UNCHANGED vars
    <3>1. EntriesInv
      BY <2>2 DEF vars, OcrOfScansOnly
    <3>2. Listing'
      BY <2>2, <3>1 DEF vars, EntriesInv, Listing, Exists, Names, Scanned, Owner
    <3>3. ASSUME NEW w \in Worker PROVE (HandsList(tx[w]) /\ PlaceLists(tx[w]))'
      <4>1. PICK x : x = tx[w]
        OBVIOUS
      <4>2. docs' = docs /\ x = tx'[w] /\ HandsList(x) /\ PlaceLists(x)
        BY <2>2, <3>1, <4>1 DEF vars, EntriesInv
      <4>3. HandsList(x)' /\ PlaceLists(x)'
        BY <4>2, SameLists
      <4> QED BY <4>2, <4>3, SaidOfWorker
    <3> QED BY <3>2, <3>3 DEF EntriesInv
  <2> QED BY <2>1, <2>2 DEF Next
<1> QED BY <1>1, <1>2, LifecycleInvariant, ServedInvariant, StoredInvariant, PTL DEF Spec

\* pipeline.process and recovery.recover: a search finds a content once, for any number
\* of workers and copies, where nothing is deleted and as long as the store holds no OCR
\* of what is no scan.  Both entries would be of live documents that are no scans, so of
\* one content, and the unique index on live object keys leaves one of them.
THEOREM OneEntryEach == ASSUME "delete" \notin Ops PROVE Spec => []OneEntryPerContent
<1>1. LifecycleInv /\ (OcrOfScansOnly => EntriesInv) => OneEntryPerContent
  <2> SUFFICES ASSUME LifecycleInv, EntriesInv, NEW d \in Doc, NEW e \in Doc, d # e,
                      index[d] = index[e], index[d] # NoKey
               PROVE  FALSE
    BY DEF OneEntryPerContent
  <2>1. PICK k : k = index[d]
    OBVIOUS
  <2>2. k \in Key
    BY <2>1 DEF LifecycleInv, TypeOK
  <2>3. /\ docs[d] # NoRow /\ docs[d] \in Rows
        /\ \A c \in {d, e} : Names(k, docs[c].key) /\ docs[c].by = NoDoc /\ ~Scanned(docs[c].key)
    BY <2>1 DEF EntriesInv, Listing, Exists, LifecycleInv, TypeOK
  <2>4. docs[d].key = docs[e].key
    BY <2>3 DEF Names
  <2>5. docs[d].key \in Key
    <3>1. docs[d].key \in Key \cup {NoKey}
      BY <2>2, <2>3, ConstantsAssumption DEF Names, Scanned
    <3> QED BY <2>3, <3>1 DEF Rows, NoRow
  <2>6. d \in LiveFor(docs[d].key) /\ e \in LiveFor(docs[d].key)
    BY <2>3, <2>4 DEF LiveFor
  <2> QED BY <2>5, <2>6 DEF LifecycleInv, LiveApart
<1> QED BY <1>1, LifecycleInvariant, EntriesInvariant, PTL
=============================================================================
