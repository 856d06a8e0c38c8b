------------------------------ MODULE Lifecycle ------------------------------
(***************************************************************************)
(* The life of documents: delivered (api._ingest_one), driven through the  *)
(* pipeline, recovered by OCR or retired as a copy, re-anonymized and      *)
(* deleted.  Every operation runs in Postgres transactions of its own; the *)
(* search index and the object store are outside any transaction and keep  *)
(* what was written to them when a transaction is rolled back.             *)
(*                                                                         *)
(* Modelled: documents without dossiers and grants whose text holds nothing *)
(* to pseudonymize, no key provider (so no mappings and no box map), a      *)
(* plain object store.                                                     *)
(* A transaction reads what is committed plus its own writes (READ         *)
(* COMMITTED); a write to a row another transaction has written waits.     *)
(***************************************************************************)
EXTENDS DocumentStates, Naturals, Sequences

CONSTANTS
  Worker, NoWorker,    \* threads and replicas that carry out operations
  Doc, NoDoc,          \* the document ids that can be handed out
  Key, NoKey,          \* contents, named by the key that is their sha256
  Released,            \* the placeholder key of a deleted document
  Kind,                \* what profiling and extraction make of a content
  OcrOf,               \* the PDF OCR makes of a scan; NoKey: too little text
  Ops,                 \* which operations are asked for
  Crashes,             \* whether a worker can stop or fail mid-operation
  MaxOps               \* bound: how many operations are asked for in all

ASSUME ConstantsAssumption ==
  /\ Kind \in [Key -> {"digital", "scan", "corrupt", "unreadable"}]
  /\ OcrOf \in [Key -> Key \cup {NoKey}]
  \* recover keeps what profile_pdf finds born digital, at the threshold of `process`
  /\ \A k \in Key : OcrOf[k] \in Key => Kind[OcrOf[k]] \notin {"scan", "corrupt"}
  /\ Ops \subseteq {"deliver", "delete", "reanonymize", "event"}
  /\ Crashes \in BOOLEAN
  /\ MaxOps \in Nat
  /\ NoWorker \notin Worker /\ NoDoc \notin Doc
  /\ NoKey \notin Key /\ Released \notin Key /\ NoKey # Released

VARIABLES
  docs,      \* documents: object_key and superseded_by of each committed row
  trail,     \* audit_records, per document, in seq order: from and to state
  texts,     \* documents with a committed document_texts row
  index,     \* the search index: the object key under each document id
  objects,   \* the keys in the object store
  lock,      \* holder of the advisory lock of the audit chain
  tx,        \* what each worker is doing, with its uncommitted writes
  started,   \* operations asked for so far
  \* History: what a property makes an exception for, and no action reads.
  late,      \* documents that came to name an object a deletion had found unclaimed
  passed     \* documents that got a record while another one, of a state read before, waited

history == <<late, passed>>
vars == <<docs, trail, texts, index, objects, lock, tx, started, history>>

NoRow == [key |-> NoKey, by |-> NoDoc]
Rows == [key : Key \cup {NoKey, Released}, by : Doc \cup {NoDoc}]
Record == [from : State \cup {Unborn}, to : State \cup {Unborn}]

Place == {"idle", "append", "commit", "raise", "note",
          "known", "skipped", "find", "write", "read", "profile", "extract",
          "anonymize", "index", "indexed", "recover", "repoint", "retire",
          "unindex", "drop", "claim", "remove", "forget", "reindex", "retext"}

\* What a worker is doing, `op`, `stage` and `pc`, with what its session has read.
\* An append takes `from` and `to` and goes on at `then`.  `recs`, `row` and `text`
\* are the writes of its transaction: audit records, its document's row, the text.
Transaction ==
  [op : {"none", "deliver", "delete", "reanonymize", "event", "note"},
   pc : Place, stage : {"none", "ingest", "process", "recover", "last"},
   doc : Doc \cup {NoDoc}, key : Key \cup {NoKey, Released},
   state : State \cup {Unborn}, from : State \cup {Unborn}, to : State \cup {Unborn},
   then : Place, owner : Doc \cup {NoDoc},
   recs : Seq(Record), row : Rows, text : {"same", "put", "gone"}]

\* Between two operations.
Idle == [op |-> "none", pc |-> "idle", stage |-> "none", doc |-> NoDoc,
         key |-> NoKey, state |-> Unborn, from |-> Unborn, to |-> Unborn,
         then |-> "idle", owner |-> NoDoc,
         recs |-> <<>>, row |-> NoRow, text |-> "same"]

Init ==
  /\ docs = [d \in Doc |-> NoRow]
  /\ trail = [d \in Doc |-> <<>>]
  /\ texts = {}
  /\ index = [d \in Doc |-> NoKey]
  /\ objects = {}
  /\ lock = NoWorker
  /\ tx = [w \in Worker |-> Idle]
  /\ started = 0
  /\ late = {} /\ passed = {}

-----------------------------------------------------------------------------
(* What transactions see, wait for and write.                              *)

Exists(d) == docs[d] # NoRow

Newest(h) == IF h = <<>> THEN Unborn ELSE h[Len(h)].to

\* audit.current_state, as everybody sees it and as the transaction t sees it.
StateOf(d) == Newest(trail[d])
CurrentState(t) == Newest(trail[t.doc] \o t.recs)

\* live_document_for
LiveFor(k) == {d \in Doc : docs[d].key = k /\ docs[d].by = NoDoc}

\* Mutant: no unique index on live object keys.
KeyFreeAlways(w, k) == TRUE

\* No other transaction has an uncommitted row that claims k: the unique index
\* on live object keys makes a second claim wait for the first.
KeyFree(w, k) ==
  \A v \in Worker \ {w} : ~(tx[v].row.key = k /\ tx[v].row.by = NoDoc)
RowFree(w) ==
  \A v \in Worker \ {w} : tx[v].doc = tx[w].doc => tx[v].row = NoRow
TextFree(w) ==
  \A v \in Worker \ {w} : tx[v].doc = tx[w].doc => tx[v].text = "same"
\* Mutant: append does not wait for the lock of the chain.
ChainFreeAlways(w) == TRUE
ChainFree(w) == lock \in {NoWorker, w}

At(w, pc) == tx[w].pc = pc
Set(w, t) == tx' = [tx EXCEPT ![w] = t]

\* pipeline.transition up to audit.append: the state is read, and judged, before
\* append takes the lock of the chain.
Transition(w, t, to, then) ==
  LET state == CurrentState(t)
      next  == [t EXCEPT !.state = to, !.from = state, !.to = to, !.then = then]
  IN  Set(w, CASE state = to          -> [next EXCEPT !.pc = then]
               [] IsAllowed(state, to) -> [next EXCEPT !.pc = "append"]
               [] OTHER                -> [t EXCEPT !.pc = "raise"])

\* An access event, from == to, with the state read just before.
Event(w, t, state, then) ==
  Set(w, [t EXCEPT !.pc = "append", !.state = state,
                   !.from = state, !.to = state, !.then = then])

\* audit.append: waits for the chain lock and keeps it to the end of the
\* transaction.
AppendRecord(w) ==
  /\ At(w, "append")
  /\ ChainFree(w)
  /\ lock' = w
  /\ Set(w, [tx[w] EXCEPT !.pc = tx[w].then,
                          !.recs = Append(@, [from |-> tx[w].from, to |-> tx[w].to])])
  /\ UNCHANGED <<docs, trail, texts, index, objects, started, history>>

\* The work after a commit of _ingest_one; every other operation is one
\* transaction.  After an OCR attempt `process` runs once more, whatever it found.
AfterCommit(t) ==
  LET next == [t EXCEPT !.recs = <<>>, !.row = NoRow, !.text = "same"] IN
  CASE t.stage = "ingest" ->
         [next EXCEPT !.stage = "process", !.pc = "read"]
    [] t.stage = "process" /\ t.state = "unprocessable_ocr" ->
         [next EXCEPT !.stage = "recover", !.pc = "recover"]
    [] t.stage = "recover" /\ t.state # "superseded" ->
         [next EXCEPT !.stage = "last", !.pc = "read"]
    [] OTHER -> Idle

\* A deletion of another document is about to take the object k; and an operation is
\* about to record the state of d it has read.
RemovesFrom(v, d, k) == At(v, "remove") /\ tx[v].doc # d /\ tx[v].key = k
HasRead(v, d) == tx[v].doc = d /\ (At(v, "append") \/ tx[v].op = "reanonymize")

Commit(w) ==
  LET t == tx[w]  d == t.doc IN
  /\ At(w, "commit")
  /\ docs'  = IF t.row = NoRow THEN docs ELSE [docs EXCEPT ![d] = t.row]
  /\ trail' = [trail EXCEPT ![d] = @ \o t.recs]
  /\ texts' = CASE t.text = "put"  -> texts \cup {d}
                [] t.text = "gone" -> texts \ {d}
                [] t.text = "same" -> texts
  /\ lock' = IF lock = w THEN NoWorker ELSE lock
  /\ late' = IF \E v \in Worker \ {w} : RemovesFrom(v, d, docs'[d].key) THEN late \cup {d} ELSE late
  /\ passed' = IF t.recs # <<>> /\ \E v \in Worker \ {w} : HasRead(v, d) THEN passed \cup {d} ELSE passed
  /\ Set(w, AfterCommit(t))
  /\ UNCHANGED <<index, objects, started>>

\* Mutant: the lock of the chain outlives the transaction that took it.
AbandonKeepsLock(w, pc) ==
  /\ tx' = [tx EXCEPT ![w] = IF pc = "idle" THEN Idle
                             ELSE [Idle EXCEPT !.op = "note", !.pc = pc, !.doc = tx[w].doc]]
  /\ UNCHANGED <<docs, trail, texts, index, objects, lock, started, history>>

\* An exception, or the end of the process: the transaction is rolled back, the
\* index and the object store keep what they have.  A run that re-anonymizes
\* records its failure in a transaction of its own (reprocess.note_failure).
Abandon(w, pc) ==
  /\ tx' = [tx EXCEPT ![w] = IF pc = "idle" THEN Idle
                             ELSE [Idle EXCEPT !.op = "note", !.pc = pc, !.doc = tx[w].doc]]
  /\ lock' = IF lock = w THEN NoWorker ELSE lock
  /\ UNCHANGED <<docs, trail, texts, index, objects, started, history>>

Raise(w) ==
  /\ At(w, "raise")
  /\ Abandon(w, IF tx[w].op = "reanonymize" THEN "note" ELSE "idle")

\* A call that fails at any point, or the end of the process, which leaves no
\* time to note the failure.
Crash(w) ==
  /\ Crashes /\ ~At(w, "idle")
  /\ \E pc \in {"idle", IF tx[w].op = "reanonymize" THEN "note" ELSE "idle"} : Abandon(w, pc)

-----------------------------------------------------------------------------
(* A delivery: api._ingest_one, pipeline.ingest and pipeline.process.      *)

Begin(w, op) ==
  /\ At(w, "idle") /\ op \in Ops /\ started < MaxOps
  /\ started' = started + 1

\* The index, not the database, says whether this content was processed.
Deliver(w, k) ==
  /\ Begin(w, "deliver")
  /\ Set(w, [Idle EXCEPT !.op = "deliver", !.key = k,
                         !.pc = IF \E d \in Doc : index[d] = k THEN "known" ELSE "find"])
  /\ UNCHANGED <<docs, trail, texts, index, objects, lock, history>>

\* The answer "skipped" names the live document; with none it is a 409.
Known(w) ==
  /\ At(w, "known")
  /\ \/ \E d \in LiveFor(tx[w].key) :
          Set(w, [tx[w] EXCEPT !.pc = "skipped", !.doc = d])
     \/ LiveFor(tx[w].key) = {} /\ Set(w, Idle)
  /\ UNCHANGED <<docs, trail, texts, index, objects, lock, started, history>>

Skipped(w) ==
  /\ At(w, "skipped") /\ Set(w, Idle)
  /\ UNCHANGED <<docs, trail, texts, index, objects, lock, started, history>>

\* register_live: the live document for these bytes, or a new one.  An insert
\* that meets another one's waits, and then adopts the winner or goes on.
Find(w) ==
  LET t == [tx[w] EXCEPT !.stage = "ingest"] IN
  /\ At(w, "find")
  /\ \/ \E d \in LiveFor(t.key) : Set(w, [t EXCEPT !.doc = d, !.pc = "write"])
     \/ /\ LiveFor(t.key) = {} /\ KeyFree(w, t.key)
        /\ \E d \in Doc :
             /\ ~Exists(d) /\ \A v \in Worker : tx[v].doc # d
             /\ Transition(w, [t EXCEPT !.doc = d, !.row = [key |-> t.key, by |-> NoDoc]],
                           "registered", "write")
  /\ UNCHANGED <<docs, trail, texts, index, objects, lock, started, history>>

WriteOriginal(w) ==
  /\ At(w, "write")
  /\ objects' = objects \cup {tx[w].key}
  /\ Set(w, [tx[w] EXCEPT !.pc = "commit"])
  /\ UNCHANGED <<docs, trail, texts, index, lock, started, history>>

\* process: resumes at the state it reads.  The bytes are fetched as soon as a
\* step needs them; a missing object is an error.
ReadState(w) ==
  LET state == CurrentState(tx[w])
      step  == CASE state = "registered"  -> "profile"
                 [] state = "extractable" -> "extract"
                 [] state = "extracted"   -> "anonymize"
                 [] state = "anonymized"  -> "index"
                 [] OTHER                 -> "commit"
      fetch == step \in {"profile", "extract", "anonymize"}
  IN
  /\ At(w, "read")
  /\ Set(w, [tx[w] EXCEPT !.state = state,
               !.pc = IF fetch /\ tx[w].key \notin objects THEN "raise" ELSE step])
  /\ UNCHANGED <<docs, trail, texts, index, objects, lock, started, history>>

Profile(w) ==
  LET kind == Kind[tx[w].key] IN
  /\ At(w, "profile")
  /\ CASE kind = "corrupt" -> Transition(w, tx[w], "failed", "commit")
       [] kind = "scan"    -> Transition(w, tx[w], "unprocessable_ocr", "commit")
       [] OTHER            -> Transition(w, tx[w], "extractable", "extract")
  /\ UNCHANGED <<docs, trail, texts, index, objects, lock, started, history>>

Extract(w) ==
  /\ At(w, "extract")
  /\ IF Kind[tx[w].key] = "unreadable"
       THEN Transition(w, tx[w], "failed", "commit")
       ELSE Transition(w, tx[w], "extracted", "anonymize")
  /\ UNCHANGED <<docs, trail, texts, index, objects, lock, started, history>>

\* Mutant: the transition without the text.
AnonymizeUnsaved(w) ==
  /\ At(w, "anonymize")
  /\ Transition(w, tx[w], "anonymized", "index")
  /\ UNCHANGED <<docs, trail, texts, index, objects, lock, started, history>>

\* The text is written (and its row locked) before the transition.
Anonymize(w) ==
  /\ At(w, "anonymize") /\ TextFree(w)
  /\ Transition(w, [tx[w] EXCEPT !.text = "put"], "anonymized", "index")
  /\ UNCHANGED <<docs, trail, texts, index, objects, lock, started, history>>

\* An upsert under the document's id, visible at once and never rolled back.
Index(w) ==
  /\ At(w, "index")
  /\ index' = [index EXCEPT ![tx[w].doc] = tx[w].key]
  /\ Set(w, [tx[w] EXCEPT !.pc = "indexed"])
  /\ UNCHANGED <<docs, trail, texts, objects, lock, started, history>>

Indexed(w) ==
  /\ At(w, "indexed")
  /\ Transition(w, tx[w], "indexed", "commit")
  /\ UNCHANGED <<docs, trail, texts, index, objects, lock, started, history>>

-----------------------------------------------------------------------------
(* OCR recovery and supersession (recovery.py, supersession.py).           *)

\* The OCR'd PDF is an object of its own; the scan is kept.
Recover(w) ==
  LET t == tx[w]  state == CurrentState(t) IN
  /\ At(w, "recover")
  /\ IF state # "unprocessable_ocr" \/ t.key \notin objects
     THEN Set(w, [t EXCEPT !.pc = "raise"]) /\ UNCHANGED objects
     ELSE IF OcrOf[t.key] = NoKey
     THEN Event(w, t, state, "commit") /\ UNCHANGED objects
     ELSE /\ objects' = objects \cup {OcrOf[t.key]}
          /\ Set(w, [t EXCEPT !.state = state, !.pc = "repoint"])
  /\ UNCHANGED <<docs, trail, texts, index, lock, started, history>>

\* Mutants: the new key is in the row and not in the object the session works
\* with; a copy is not noticed and moves to an object that is a document already.
RepointStale(w) ==
  LET t == tx[w]  new == OcrOf[t.key] IN
  /\ At(w, "repoint")
  /\ Transition(w, [t EXCEPT !.row = [docs[t.doc] EXCEPT !.key = new]],
                "extractable", "commit")
  /\ UNCHANGED <<docs, trail, texts, index, objects, lock, started, history>>

RepointAlways(w) ==
  LET t == tx[w]  new == OcrOf[t.key] IN
  /\ At(w, "repoint")
  /\ Transition(w, [t EXCEPT !.row = [docs[t.doc] EXCEPT !.key = new], !.key = new],
                "extractable", "commit")
  /\ UNCHANGED <<docs, trail, texts, index, objects, lock, started, history>>

\* Either another live document is that object already, and this one retires,
\* or this document moves to it.
Repoint(w) ==
  LET t == tx[w]  new == OcrOf[t.key] IN
  /\ At(w, "repoint")
  /\ \/ \E owner \in LiveFor(new) \ {t.doc} :
          Transition(w, [t EXCEPT !.owner = owner], "superseded", "retire")
     \/ /\ LiveFor(new) \subseteq {t.doc} /\ KeyFree(w, new) /\ RowFree(w)
        /\ Transition(w, [t EXCEPT !.row = [docs[t.doc] EXCEPT !.key = new], !.key = new],
                      "extractable", "commit")
  /\ UNCHANGED <<docs, trail, texts, index, objects, lock, started, history>>

\* superseded_by is set once; a trigger refuses to change it.
Retire(w) ==
  LET t == tx[w] IN
  /\ At(w, "retire") /\ RowFree(w)
  /\ Set(w, IF docs[t.doc].by \in {NoDoc, t.owner}
            THEN [t EXCEPT !.row = [docs[t.doc] EXCEPT !.by = t.owner], !.pc = "commit"]
            ELSE [t EXCEPT !.pc = "raise"])
  /\ UNCHANGED <<docs, trail, texts, index, objects, lock, started, history>>

-----------------------------------------------------------------------------
(* Deletion (deletion.delete_document and its endpoint).                   *)

\* `state` remembers whether the document was deleted already.
Delete(w, d) ==
  /\ Begin(w, "delete") /\ Exists(d)
  /\ Set(w, [Idle EXCEPT !.op = "delete", !.doc = d, !.key = docs[d].key,
                         !.state = StateOf(d), !.pc = "unindex"])
  /\ UNCHANGED <<docs, trail, texts, index, objects, lock, history>>

Unindex(w) ==
  /\ At(w, "unindex")
  /\ index' = [index EXCEPT ![tx[w].doc] = NoKey]
  /\ Set(w, [tx[w] EXCEPT !.pc = "drop"])
  /\ UNCHANGED <<docs, trail, texts, objects, lock, started, history>>

\* _object_claimed_elsewhere: superseded copies keep their key and their claim.
ClaimedElsewhere(d, k) ==
  \E e \in Doc \ {d} : docs[e].key = k /\ StateOf(e) # "deleted"

\* Mutants: the object is dropped without a look at other claims; the key was
\* released before it was looked up.
DropAlways(w) ==
  /\ At(w, "claim")
  /\ Set(w, [tx[w] EXCEPT !.pc = "remove"])
  /\ UNCHANGED <<docs, trail, texts, index, objects, lock, started, history>>

DropReleased(w) ==
  /\ At(w, "remove")
  /\ objects' = objects \ {Released}
  /\ Set(w, [tx[w] EXCEPT !.pc = "forget"])
  /\ UNCHANGED <<docs, trail, texts, index, lock, started, history>>

\* Is it there, does another claim it, and away: three calls, of two services.
FindObject(w) ==
  /\ At(w, "drop")
  /\ Set(w, [tx[w] EXCEPT !.pc = IF tx[w].key \in objects THEN "claim" ELSE "forget"])
  /\ UNCHANGED <<docs, trail, texts, index, objects, lock, started, history>>

JudgeObject(w) ==
  /\ At(w, "claim")
  /\ Set(w, [tx[w] EXCEPT !.pc = IF ClaimedElsewhere(tx[w].doc, tx[w].key) THEN "forget" ELSE "remove"])
  /\ UNCHANGED <<docs, trail, texts, index, objects, lock, started, history>>

RemoveObject(w) ==
  /\ At(w, "remove")
  /\ objects' = objects \ {tx[w].key}
  /\ Set(w, [tx[w] EXCEPT !.pc = "forget"])
  /\ UNCHANGED <<docs, trail, texts, index, lock, started, history>>

\* A text nobody has committed is not seen, and not deleted.
ForgetFree(w) ==
  /\ tx[w].doc \in texts => TextFree(w)
  /\ tx[w].state # "deleted" => RowFree(w)

\* Mutant: the text stays.
ForgetKeepsText(w) ==
  /\ At(w, "forget") /\ ForgetFree(w)
  /\ Transition(w, [tx[w] EXCEPT !.row = IF tx[w].state = "deleted" THEN NoRow
                                         ELSE [docs[tx[w].doc] EXCEPT !.key = Released]],
                "deleted", "commit")
  /\ UNCHANGED <<docs, trail, texts, index, objects, lock, started, history>>

Forget(w) ==
  LET t == tx[w]
      text == IF t.doc \in texts THEN "gone" ELSE "same"
      row  == IF t.state = "deleted" THEN NoRow
              ELSE [docs[t.doc] EXCEPT !.key = Released]
  IN
  /\ At(w, "forget") /\ ForgetFree(w)
  /\ Transition(w, [t EXCEPT !.text = text, !.row = row], "deleted", "commit")
  /\ UNCHANGED <<docs, trail, texts, index, objects, lock, started, history>>

-----------------------------------------------------------------------------
(* Re-anonymization (reprocess.one, pipeline.reanonymize) and events.      *)

Reanonymize(w, d) ==
  /\ Begin(w, "reanonymize") /\ StateOf(d) \in {"indexed", "anonymized"}
  /\ Set(w, [Idle EXCEPT !.op = "reanonymize", !.doc = d, !.key = docs[d].key,
                         !.state = StateOf(d),
                         !.pc = IF docs[d].key \in objects THEN "reindex" ELSE "raise"])
  /\ UNCHANGED <<docs, trail, texts, index, objects, lock, history>>

\* The index first, then the stored text and the audit record.
Reindex(w) ==
  /\ At(w, "reindex")
  /\ index' = [index EXCEPT ![tx[w].doc] = tx[w].key]
  /\ Set(w, [tx[w] EXCEPT !.pc = "retext"])
  /\ UNCHANGED <<docs, trail, texts, objects, lock, started, history>>

Retext(w) ==
  /\ At(w, "retext") /\ TextFree(w)
  /\ Event(w, [tx[w] EXCEPT !.text = "put"], tx[w].state, "commit")
  /\ UNCHANGED <<docs, trail, texts, index, objects, lock, started, history>>

\* reprocess.note_failure, in a session of its own.
NoteFailure(w) ==
  /\ At(w, "note")
  /\ Event(w, tx[w], CurrentState(tx[w]), "commit")
  /\ UNCHANGED <<docs, trail, texts, index, objects, lock, started, history>>

\* An access event recorded by a handler, such as detection feedback.
RecordEvent(w, d) ==
  /\ Begin(w, "event") /\ Exists(d)
  /\ Event(w, [Idle EXCEPT !.op = "event", !.doc = d], StateOf(d), "commit")
  /\ UNCHANGED <<docs, trail, texts, index, objects, lock, history>>

-----------------------------------------------------------------------------
(* Postgres breaks a deadlock: when everybody at work waits, for a key, a   *)
(* row, a text or the chain lock, one transaction is aborted.              *)

Waits(w) ==
  LET t == tx[w] IN
  \/ At(w, "append") /\ ~ChainFree(w)
  \/ At(w, "find")   /\ LiveFor(t.key) = {} /\ ~KeyFree(w, t.key)
  \/ t.pc \in {"anonymize", "retext"} /\ ~TextFree(w)
  \/ /\ At(w, "repoint") /\ LiveFor(OcrOf[t.key]) \subseteq {t.doc}
     /\ ~(KeyFree(w, OcrOf[t.key]) /\ RowFree(w))
  \/ At(w, "retire") /\ ~RowFree(w)
  \/ At(w, "forget") /\ ~ForgetFree(w)

DeadlockVictim(w) ==
  /\ Waits(w) /\ \E v \in Worker \ {w} : Waits(v)
  /\ \A v \in Worker : At(v, "idle") \/ Waits(v)
  /\ Abandon(w, IF tx[w].op = "reanonymize" THEN "note" ELSE "idle")

Request(w) ==
  \/ \E k \in Key : Deliver(w, k)
  \/ \E d \in Doc : Delete(w, d) \/ Reanonymize(w, d) \/ RecordEvent(w, d)

Step(w) ==
  \/ AppendRecord(w) \/ Commit(w)
  \/ Known(w) \/ Skipped(w) \/ Find(w) \/ WriteOriginal(w)
  \/ ReadState(w) \/ Profile(w) \/ Extract(w) \/ Anonymize(w) \/ Index(w) \/ Indexed(w)
  \/ Recover(w) \/ Repoint(w) \/ Retire(w)
  \/ Unindex(w) \/ FindObject(w) \/ JudgeObject(w) \/ RemoveObject(w) \/ Forget(w)
  \/ Reindex(w) \/ Retext(w) \/ NoteFailure(w)
  \/ Raise(w) \/ DeadlockVictim(w)

Next == \E w \in Worker : Request(w) \/ Step(w) \/ Crash(w)

Spec == Init /\ [][Next]_vars

\* A worker that can go on does, unless it fails: a wait in Postgres ends when what
\* it waits for is released, and a deadlock is broken.
FairSpec == Spec /\ \A w \in Worker : WF_vars(Step(w))

-----------------------------------------------------------------------------
(* Properties.                                                             *)

\* Every variable holds what its column, index field or program counter can hold.
TypeOK ==
  /\ docs \in [Doc -> Rows]
  /\ trail \in [Doc -> Seq(Record)]
  /\ texts \subseteq Doc
  /\ index \in [Doc -> Key \cup {NoKey}]
  /\ objects \subseteq Key
  /\ lock \in Worker \cup {NoWorker}
  /\ started \in 0 .. MaxOps
  /\ tx \in [Worker -> Transaction]
  /\ \A w \in Worker : tx[w].recs # <<>> => lock = w

\* The i-th record of a document starts where the one before it ended, and either
\* changes nothing (an access event) or follows an allowed edge (states.py): whatever
\* overlaps and fails, unless a record was committed while an operation that had read
\* the state before it waited to record that (pipeline.transition).
Follows(h, i) ==
  /\ h[i].from = IF i = 1 THEN Unborn ELSE h[i - 1].to
  /\ h[i].from = h[i].to \/ IsAllowed(h[i].from, h[i].to)

TrailFollowsEdges == \A d \in Doc \ passed : \A i \in DOMAIN trail[d] : Follows(trail[d], i)

\* Every entry of the index, also one that an interrupted operation left, names the
\* object its document has, and that object is stored.  So is the text, unless the
\* transaction that wrote the entry first was rolled back: then the document is still
\* in a state from before its text (pipeline.process).
HitIsServed ==
  \A d \in Doc : index[d] # NoKey =>
    /\ index[d] = docs[d].key /\ index[d] \in objects
    /\ d \in texts \/ StateOf(d) \in {"registered", "extractable"}

\* When a document becomes deleted its row has let go of its key and its object
\* is gone, unless another document that is not deleted claims it (deletion.py).
DeletionRemovesObject ==
  [][\A d \in Doc :
       (StateOf(d) # "deleted" /\ StateOf(d)' = "deleted") =>
         /\ docs'[d].key = Released
         /\ docs[d].key \in objects' => ClaimedElsewhere(d, docs[d].key)]_vars

\* An object leaves the store only with a document that is deleted or under deletion:
\* no other one that is not deleted names it, unless it came to name it after the
\* deletion had looked for such documents (deletion.py).
NeverTakesAnothersObject ==
  [][\A k \in objects \ objects', d \in Doc \ late :
       docs[d].key = k =>
         \/ StateOf(d) = "deleted"
         \/ \E w \in Worker : tx[w].op = "delete" /\ tx[w].doc = d]_vars

\* A deleted document cannot be searched and has no text, at the deletion and
\* ever after.
DeletedIsGone ==
  \A d \in Doc : StateOf(d) = "deleted" => index[d] = NoKey /\ d \notin texts

\* One document per object: no content has two live documents.
OneLivePerKey ==
  \A d, e \in Doc :
    (d # e /\ docs[d].by = NoDoc /\ docs[e].by = NoDoc /\ docs[d].key = docs[e].key)
      => docs[d].key \in {NoKey, Released}

\* A search finds a content once: no two documents are indexed under one key, also
\* when several deliveries of a scan and of its OCR work side by side, as long as
\* the store holds no OCR of what is no scan.
OcrOfScansOnly == \A k \in Key : OcrOf[k] \in objects => Kind[k] = "scan"
OneEntryPerContent ==
  OcrOfScansOnly => \A d, e \in Doc : (d # e /\ index[d] = index[e]) => index[d] = NoKey

\* A document that was indexed once is served from then on: its text is stored and
\* its object, and the one its index entry names, are in the store, also when other
\* deliveries of the bytes work on it with a state they read too early.  For runs
\* without deletions.
OnceIndexedIsServed ==
  \A d \in Doc : (\E i \in DOMAIN trail[d] : trail[d][i].to = "indexed") =>
    d \in texts /\ {docs[d].key, index[d]} \subseteq objects

\* Nobody waits forever for a key, a row, a text or the chain lock: every operation
\* ends, also when it and another one wait for each other.
OperationsEnd == \A w \in Worker : ~At(w, "idle") ~> At(w, "idle")
=============================================================================
