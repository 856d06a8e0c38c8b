------------------------------- MODULE Dossiers -------------------------------
(***************************************************************************)
(* Dossiers: dossiers.py and the events of dossier_events.py, the commands *)
(* of dossier_tools.py and backfill_dossier.py, dossier_deletion.py, the   *)
(* topics of a dossier (topics.py), and the fields of the search index     *)
(* that say in which dossiers and topics a document is.                    *)
(*                                                                         *)
(* An operation is a transaction: what it adds and removes is seen by      *)
(* others after Commit (READ COMMITTED), while what it writes to the index *)
(* or deletes from it is there at once.  A document here is delivered,     *)
(* indexed and deleted with a dossier; what else happens to one is in      *)
(* Lifecycle, and the records of the audit chain that are not about        *)
(* dossiers are in AuditChain.  Dossiers and topics are numbered as they   *)
(* are made.                                                               *)
(***************************************************************************)
EXTENDS Integers, Sequences, FiniteSets, SequencesExt

CONSTANTS Worker, Doc, Name, NoWorker,
          MaxDossiers, MaxTopics, MaxOperations,
          MinSize,        \* DEFAULT_MIN_SIZE of topics.py
          Delivered,      \* documents that are in the first dossier from the start
          FirstName

ASSUME DossiersAssumption ==
  /\ NoWorker \notin Worker /\ "" \notin Name /\ IsFiniteSet(Doc)
  /\ MaxDossiers \in Nat /\ MaxTopics \in Nat /\ MaxOperations \in Nat /\ MinSize \in Nat \ {0}
  /\ Delivered \subseteq Doc /\ FirstName \in Name /\ MaxDossiers > 0

Dossier   == 1 .. MaxDossiers
NoDossier == 0
TopicId   == 1 .. MaxTopics
NoName    == ""       \* no dossier has it (ensure, rename)

VARIABLES
  dossiers,   \* committed rows: the name of a dossier, or NoName
  used,       \* numbers of dossiers and topics that were handed out
  members,    \* committed rows of dossier_documents: <<dossier, document>>
  status,     \* committed: "none", "registered", "indexed" or "deleted"
  topics,     \* committed rows of topics: topic -> its dossier, or NoDossier
  trail,      \* committed membership records of a document: <<step, dossier>>
  index,      \* entries of the index: are they there, dossiers and topics
  chain,      \* who holds the chain lock
  tx,         \* what each worker is doing, with its uncommitted rows
  count,
  \* History: what the properties make an exception for, and no action reads.
  stale,      \* what happened to a document's dossiers in the index and no write made good
  late,       \* memberships committed after a dossier's deletion had looked at the document
  vain        \* memberships that a removal had read and then found no longer there

rows == <<dossiers, members, status, topics, trail>>
history == <<stale, late, vain>>
vars == <<rows, used, index, chain, tx, count, history>>

NoRecords == [c \in Doc |-> <<>>]      \* the records of a transaction, by document
NoEntry == [there |-> FALSE, dossiers |-> {}, topics |-> {}]
Idle == [pc |-> "idle", op |-> "none", name |-> NoName, id |-> NoDossier, from |-> NoDossier,
         made |-> NoDossier, docs |-> {}, rest |-> <<>>, put |-> {}, cut |-> {}, records |-> NoRecords,
         gone |-> {}, released |-> {}, homes |-> {}, kept |-> {}, old |-> {}, dropped |-> {}, seen |-> <<>>]

\* The documents of Delivered are in a first dossier; or all documents are from
\* before there were dossiers (backfill_dossier.py).
Init ==
  \E before \in BOOLEAN :
    LET S == IF before THEN Doc ELSE Delivered
        homes == IF before THEN {} ELSE {1} IN
    /\ dossiers = [i \in Dossier |-> IF i \in homes THEN FirstName ELSE NoName]
    /\ used = [dossier |-> Cardinality(homes), topic |-> 0]
    /\ members = homes \X S
    /\ status = [c \in Doc |-> IF c \in S THEN "indexed" ELSE "none"]
    /\ trail = [c \in Doc |-> IF homes # {} /\ c \in S THEN << <<"dossier_added", 1>> >> ELSE <<>>]
    /\ index = [c \in Doc |-> [NoEntry EXCEPT !.there = c \in S, !.dossiers = IF c \in S THEN homes ELSE {}]]
    /\ topics = [t \in TopicId |-> NoDossier]
    /\ chain = NoWorker /\ tx = [w \in Worker |-> Idle]
    /\ stale = [c \in Doc |-> {}] /\ late = {} /\ vain = {}
    /\ count = IF before THEN 1 ELSE 0      \* a bound: one operation fewer

-----------------------------------------------------------------------------
(* What a transaction sees, and what it waits for. *)

Mine(w)      == (members \ tx[w].cut) \cup tx[w].put
DossiersNew(w, c) == {tx[w].id}
Dossiers(w, c) == {i \in Dossier : <<i, c>> \in Mine(w)}     \* dossiers_of
Named(w, n)  == {i \in Dossier : dossiers[i] = n} \cup
                (IF tx[w].made # NoDossier /\ tx[w].name = n THEN {tx[w].made} ELSE {})
Others(w)    == Worker \ {w}
NameFree(w, n) == \A v \in Others(w) : tx[v].made = NoDossier \/ tx[v].name # n
PairFree(w, p) == \A v \in Others(w) : p \notin tx[v].put \cup tx[v].cut
MakesTopic(v, i) == tx[v].op = "topics" /\ tx[v].id = i /\ tx[v].made # NoDossier /\ tx[v].pc \in {"topics", "commit"}
RowFree(w, i)  == \A v \in Others(w) : (\A p \in tx[v].put : p[1] # i) /\ ~MakesTopic(v, i)

\* What a foreign key refuses: to take a dossier that still has members or
\* topics, and a topic of a dossier that is gone.
TopicsOf(i) == {x \in TopicId : topics[x] = i}
TopicsFree(w, i) == \A v \in Others(w) : TopicsOf(i) \cap tx[v].dropped = {}
Refused(w) ==
  LET t == tx[w] IN
  \/ /\ t.pc = "commit" /\ t.op = "delete"
     /\ (\E p \in members \ t.cut : p[1] = t.id) \/ TopicsOf(t.id) \ t.dropped # {}
  \/ t.pc = "replace" /\ t.gone # {} /\ dossiers[t.id] = NoName
ChainFree(w)   == chain \in {NoWorker, w}

Goes(w, t) == tx' = [tx EXCEPT ![w] = t]
Live(c)    == status[c] \in {"registered", "indexed"}

\* audit.append: a record, with the chain lock until the end of the transaction.
Record(w, t, what) ==
  /\ ChainFree(w)
  /\ chain' = w
  /\ Goes(w, [t EXCEPT !.records = [c \in Doc |-> t.records[c] \o what[c]]])
MembershipChanged(c, i, step) == [NoRecords EXCEPT ![c] = << <<step, i>> >>]
DossierDeleted(S, i) == [c \in Doc |-> IF c \in S THEN << <<"dossier-deleted", i>> >> ELSE <<>>]

-----------------------------------------------------------------------------
(* ensure, add and remove. *)

EnsureBlind(w, t, next) ==
  /\ used.dossier < MaxDossiers
  /\ used' = [used EXCEPT !.dossier = @ + 1]
  /\ Goes(w, [t EXCEPT !.pc = next, !.id = used'.dossier, !.made = used'.dossier])
\* The row with this name, or a new one: the insert waits for another of the
\* same name, and finds that one if it was committed.
Ensure(w, t, next) ==
  IF Named(w, t.name) # {}
  THEN \E i \in Named(w, t.name) : Goes(w, [t EXCEPT !.pc = next, !.id = i]) /\ UNCHANGED used
  ELSE NameFree(w, t.name) /\ EnsureBlind(w, t, next)

\* A membership and its record, or neither: it is there already, or the
\* dossier is not there any more (IntegrityError is taken for the former).
AddsAlways(w, t, c) == t.id = t.made \/ dossiers[t.id] # NoName
Adds(w, t, c) == <<t.id, c>> \notin Mine(w) /\ (t.id = t.made \/ dossiers[t.id] # NoName)
Add(w, t, c, next) ==
  LET p == <<t.id, c>> IN
  IF ~Adds(w, t, c)
  THEN Goes(w, [t EXCEPT !.pc = next]) /\ UNCHANGED chain
  ELSE /\ PairFree(w, p)
       /\ Record(w, [t EXCEPT !.pc = next, !.put = @ \cup {p}, !.cut = @ \ {p}],
                 MembershipChanged(c, t.id, "dossier_added"))

\* remove reads the row, deletes it, and records that it did: the delete waits
\* for another that does, and finds no row then, which is a warning only.
Leaves(w, t, c) == <<t.from, c>> \in Mine(w)
Leave(w, t, c) ==
  LET p == <<t.from, c>> IN
  /\ PairFree(w, p)
  /\ Goes(w, [t EXCEPT !.put = @ \ {p}, !.cut = @ \cup ({p} \cap members), !.pc = "note"])
  /\ vain' = IF p \in Mine(w) THEN vain ELSE vain \cup {p}

-----------------------------------------------------------------------------
(* The index: a whole entry, or one field of an entry that is there. *)

IndexEntry(c, homes, kept) ==
  index' = [index EXCEPT ![c] = [there |-> TRUE, dossiers |-> homes, topics |-> kept]]
SetDossiers(c, homes) ==
  index' = [index EXCEPT ![c].dossiers = IF index[c].there THEN homes ELSE @]
SetTopics(new) == index' = [c \in Doc |-> IF c \in DOMAIN new /\ index[c].there
                                          THEN [index[c] EXCEPT !.topics = new[c]] ELSE index[c]]
DropEntry(S) == index' = [c \in Doc |-> IF c \in S THEN NoEntry ELSE index[c]]
DocumentsIn(i) == {c \in Doc : index[c].there /\ i \in index[c].dossiers}

-----------------------------------------------------------------------------
(* Beginning an operation. *)

Starts(w, op, t) ==
  /\ tx[w].pc = "idle"
  /\ count < MaxOperations /\ count' = count + 1
  /\ Goes(w, [t EXCEPT !.op = op])
  /\ UNCHANGED <<rows, used, index, chain, history>>

\* _ingest_one: a new document, with or without a dossier, or one whose content
\* is in the index.
DeliverNew(w, c, n) ==
  /\ status[c] = "none" /\ \A v \in Worker : c \notin tx[v].docs \/ tx[v].op # "new"
  /\ Starts(w, "new", [Idle EXCEPT !.pc = "register", !.name = n, !.docs = {c}, !.rest = <<c>>])
DeliverKnown(w, c, n) ==
  /\ index[c].there /\ Live(c)
  /\ Starts(w, "known", [Idle EXCEPT !.pc = "ensure", !.name = n, !.docs = {c}, !.rest = <<c>>])

\* Both commands below leave out documents that were superseded, and no others:
\* the row of a deleted one is still there, with its file name.
HasRow(c) == status[c] # "none"

\* assign: documents with a known origin go there, out of another dossier.
Assign(w, S, n, from) ==
  /\ S # {} /\ \A c \in S : HasRow(c)
  /\ from # NoDossier => dossiers[from] \notin {NoName, n}
  /\ Starts(w, "move", [Idle EXCEPT !.pc = "ensure", !.name = n, !.from = from, !.docs = S,
                                    !.rest = SetToSeq(S)])

\* adopt: every document that is in no dossier.
Orphans == {c \in Doc : HasRow(c) /\ \A i \in Dossier : <<i, c>> \notin members}
Adopt(w, n) ==
  /\ Orphans # {}
  /\ Starts(w, "adopt", [Idle EXCEPT !.pc = "ensure", !.name = n, !.docs = Orphans,
                                     !.rest = SetToSeq(Orphans)])

\* reanonymize: of the whole entry it writes, it keeps the topics.
Reprocess(w, c) ==
  /\ status[c] = "indexed"
  /\ Starts(w, "reprocess", [Idle EXCEPT !.pc = "read", !.docs = {c}, !.rest = <<c>>,
                                         !.kept = index[c].topics])

Compute(w, i) ==
  /\ dossiers[i] # NoName
  /\ Starts(w, "topics", [Idle EXCEPT !.pc = "group", !.id = i, !.docs = DocumentsIn(i),
       !.seen = [c \in DocumentsIn(i) |-> index[c].topics]])

DeleteDossier(w, i) ==
  LET S == {c \in Doc : <<i, c>> \in members} IN
  /\ dossiers[i] # NoName
  /\ Starts(w, "delete", [Idle EXCEPT !.pc = "judge", !.id = i, !.docs = S, !.rest = SetToSeq(S)])

\* One command, one transaction, and no document moves.  The update waits for
\* who makes a dossier of that name and for who adds to this one.  Its record
\* goes to the key-lifecycle stream.
Rename(i, n) ==
  /\ dossiers[i] # NoName /\ \A j \in Dossier : dossiers[j] # n
  /\ \A w \in Worker : /\ tx[w].made = NoDossier \/ tx[w].name # n
                       /\ \A p \in tx[w].put : p[1] # i
  /\ count < MaxOperations /\ count' = count + 1
  /\ dossiers' = [dossiers EXCEPT ![i] = n]
  /\ UNCHANGED <<used, members, status, topics, trail, index, chain, tx, history>>

-----------------------------------------------------------------------------
(* The steps of deliveries, moves and adoptions. *)

Register(w) ==
  /\ tx[w].pc = "register"
  /\ Record(w, [tx[w] EXCEPT !.pc = IF tx[w].name = NoName THEN "commit" ELSE "ensure"], NoRecords)
  /\ UNCHANGED <<rows, used, index, history, count>>

EnsureStep(w) ==
  /\ tx[w].pc = "ensure"
  /\ Ensure(w, tx[w], "add")
  /\ UNCHANGED <<rows, index, chain, history, count>>

\* A delivery commits before the index learns of it; assign tells the index
\* first; adopt adds all, and tells the index of those it added after that.
AddStep(w) ==
  LET t == tx[w]  c == Head(t.rest)
      left == IF Adds(w, t, c) THEN Append(t.seen, c) ELSE t.seen IN
  /\ t.pc = "add"
  /\ \/ t.op \in {"new", "known"} /\ Add(w, t, c, "commit")
     \/ t.op = "move" /\ Add(w, t, c, IF t.from # NoDossier THEN "remove" ELSE "read")
     \/ t.op = "adopt" /\ Tail(t.rest) # <<>>
        /\ Add(w, [t EXCEPT !.rest = Tail(@), !.seen = left], c, "add")
     \/ t.op = "adopt" /\ Tail(t.rest) = <<>>
        /\ Add(w, [t EXCEPT !.rest = left, !.seen = <<>>], c, IF left = <<>> THEN "commit" ELSE "read")
  /\ UNCHANGED <<rows, used, index, history, count>>

RemoveStep(w) ==
  LET t == tx[w] IN
  /\ t.pc = "remove"
  /\ Goes(w, [t EXCEPT !.pc = IF Leaves(w, t, Head(t.rest)) THEN "cut" ELSE "read"])
  /\ UNCHANGED <<rows, used, index, chain, history, count>>

CutStep(w) ==
  /\ tx[w].pc = "cut"
  /\ Leave(w, tx[w], Head(tx[w].rest))
  /\ UNCHANGED <<rows, used, index, chain, stale, late, count>>

NoteStep(w) ==
  LET t == tx[w] IN
  /\ t.pc = "note"
  /\ Record(w, [t EXCEPT !.pc = "read"], MembershipChanged(Head(t.rest), t.from, "dossier_removed"))
  /\ UNCHANGED <<rows, used, index, history, count>>

\* adopt passes over a document that has no text yet, or no more.
ReadDossiers(w) ==
  LET t == tx[w]  c == Head(t.rest) IN
  /\ t.pc = "read"
  /\ t.op = "adopt" => status[c] = "indexed"
  /\ Goes(w, [t EXCEPT !.pc = "write", !.homes = Dossiers(w, c)])
  /\ UNCHANGED <<rows, used, index, chain, history, count>>

PassOver(w) ==
  LET t == tx[w]  c == Head(t.rest) IN
  /\ t.pc = "read" /\ t.op = "adopt" /\ status[c] # "indexed"
  /\ Goes(w, [t EXCEPT !.rest = Tail(@), !.pc = IF Tail(t.rest) = <<>> THEN "commit" ELSE "read"])
  /\ stale' = [stale EXCEPT ![c] = @ \cup (IF index[c].there THEN {"passed over"} ELSE {})]
  /\ UNCHANGED <<rows, used, index, chain, late, vain, count>>

\* Whether others have memberships of c under way, or its deletion, or have
\* committed some since these were read.
Changing(v, c) == \E p \in tx[v].put \cup tx[v].cut : p[2] = c
Condemns(v, c) ==
  tx[v].op = "delete" /\ (c \in tx[v].gone \/ (tx[v].pc = "erase" /\ c = Head(tx[v].rest)))
Overtaken(w, c) == \/ tx[w].homes # Dossiers(w, c)
                   \/ \E v \in Others(w) : Changing(v, c) \/ Condemns(v, c)

WriteIndex(w) ==
  LET t == tx[w]  c == Head(t.rest) IN
  /\ t.pc = "write"
  /\ IF t.op \in {"new", "reprocess"} THEN IndexEntry(c, t.homes, t.kept) ELSE SetDossiers(c, t.homes)
  /\ stale' = [stale EXCEPT ![c] = IF Overtaken(w, c) THEN @ \cup {"overtaken"} ELSE {}]
  /\ Goes(w, IF t.op = "delete" THEN [t EXCEPT !.homes = {}, !.pc = "tell"]
             ELSE [t EXCEPT !.rest = Tail(@), !.homes = {},
                            !.pc = CASE t.op = "known" -> "end"
                                     [] t.op # "known" /\ Tail(t.rest) = <<>> -> "commit"
                                     [] t.op = "adopt" /\ Tail(t.rest) # <<>> -> "read"
                                     [] OTHER -> "ensure"])
  /\ UNCHANGED <<rows, used, chain, late, vain, count>>

-----------------------------------------------------------------------------
(* compute: the groups found replace the topics of the dossier. *)

\* Any group of at least MinSize documents, for what the clusters may be; and
\* the topics the dossier has then.
Group(w) ==
  LET t == tx[w] IN
  /\ t.pc = "group"
  /\ \E S \in SUBSET t.docs :
       /\ S = {} \/ (Cardinality(S) >= MinSize /\ used.topic < MaxTopics)
       /\ used' = IF S = {} THEN used ELSE [used EXCEPT !.topic = @ + 1]
       /\ Goes(w, [t EXCEPT !.pc = "replace", !.old = TopicsOf(t.id), !.gone = S,
                            !.made = IF S = {} THEN NoDossier ELSE used'.topic])
  /\ UNCHANGED <<rows, index, chain, history, count>>

\* Their rows go, once nobody else has them to go; the new row needs its dossier.
Replace(w) ==
  LET t == tx[w] IN
  /\ t.pc = "replace"
  /\ TopicsFree(w, t.id) /\ ~Refused(w)
  /\ Goes(w, [t EXCEPT !.pc = "topics", !.dropped = TopicsOf(t.id)])
  /\ UNCHANGED <<rows, used, index, chain, history, count>>

KeptNone(t, c) == IF c \in t.gone THEN {t.made} ELSE {}
\* Only the old topics of this dossier go, and an entry that keeps what it has
\* is not written.
Kept(t, c) == (t.seen[c] \ t.old) \cup (IF c \in t.gone THEN {t.made} ELSE {})
WriteTopics(w) ==
  LET t == tx[w] IN
  /\ t.pc = "topics"
  /\ SetTopics([c \in {x \in t.docs : Kept(t, x) # t.seen[x]} |-> Kept(t, c)])
  /\ Goes(w, [t EXCEPT !.pc = "commit"])
  /\ UNCHANGED <<rows, used, chain, history, count>>

-----------------------------------------------------------------------------
(* delete_dossier. *)

ElsewhereNever(w, t, c) == FALSE
MemberElsewhere(w, t, c) == \E i \in Dossier \ {t.id} : <<i, c>> \in Mine(w)
\* One member after the other is looked at: released, or deleted; then the
\* memberships go.
Judge(w) ==
  LET t == tx[w] IN
  /\ t.pc = "judge"
  /\ Goes(w, CASE t.rest = <<>> -> [t EXCEPT !.pc = "release", !.rest = SetToSeq(t.docs)]
               [] t.rest # <<>> /\ MemberElsewhere(w, t, Head(t.rest)) ->
                    [t EXCEPT !.rest = Tail(@), !.released = @ \cup {Head(t.rest)}]
               [] OTHER -> [t EXCEPT !.pc = "erase"])
  /\ UNCHANGED <<rows, used, index, chain, history, count>>

\* delete_document: the entry goes at once, the record waits for the chain, and
\* a document that was deleted before gets none.
Erase(w) ==
  LET t == tx[w]  c == Head(t.rest) IN
  /\ t.pc = "erase"
  /\ DropEntry({c})
  /\ Goes(w, IF status[c] = "deleted"
             THEN [t EXCEPT !.gone = @ \cup {c}, !.rest = Tail(@), !.pc = "judge"]
             ELSE [t EXCEPT !.gone = @ \cup {c}, !.pc = "erased"])
  /\ UNCHANGED <<rows, used, chain, history, count>>

NoteErased(w) ==
  LET t == tx[w] IN
  /\ t.pc = "erased"
  /\ Record(w, [t EXCEPT !.rest = Tail(@), !.pc = "judge"], NoRecords)
  /\ UNCHANGED <<rows, used, index, history, count>>

\* One membership; of a released document the index learns where else it is.
\* After the last one the topics of the dossier go.
Release(w) ==
  LET t == tx[w]  p == <<t.id, Head(t.rest)>> IN
  /\ t.pc = "release"
  /\ IF t.rest = <<>>
     THEN TopicsFree(w, t.id) /\ Goes(w, [t EXCEPT !.pc = "commit", !.dropped = TopicsOf(t.id)])
     ELSE /\ PairFree(w, p)
          /\ Goes(w, [t EXCEPT !.cut = @ \cup ({p} \cap members),
                               !.pc = IF Head(t.rest) \in t.released THEN "read" ELSE "tell"])
  /\ UNCHANGED <<rows, used, index, chain, history, count>>

Tell(w) ==
  LET t == tx[w] IN
  /\ t.pc = "tell"
  /\ Record(w, [t EXCEPT !.rest = Tail(@), !.pc = "release"], DossierDeleted({Head(t.rest)}, t.id))
  /\ UNCHANGED <<rows, used, index, history, count>>

-----------------------------------------------------------------------------
(* The end of a transaction. *)

Trailed(records) == [c \in Doc |-> trail[c] \o records[c]]

After(t) ==
  CASE t.op \in {"new", "known"} /\ t.rest # <<>> /\ t.put # {} ->
         [t EXCEPT !.pc = "read", !.put = {}, !.records = NoRecords, !.made = NoDossier]
    [] t.op = "new" /\ t.rest # <<>> /\ t.put = {} ->
         [t EXCEPT !.pc = "read", !.records = NoRecords, !.made = NoDossier]
    [] OTHER -> Idle

Commit(w) ==
  LET t == tx[w] IN
  /\ t.pc = "commit" /\ ~Refused(w)
  /\ t.op = "delete" => RowFree(w, t.id)
  /\ dossiers' = [i \in Dossier |-> CASE i = t.made /\ t.op # "topics" -> t.name
                                      [] i = t.id /\ t.op = "delete" -> NoName
                                      [] OTHER -> dossiers[i]]
  /\ members' = (members \ t.cut) \cup t.put
  /\ status' = [c \in Doc |->
       CASE c \in t.gone /\ t.op = "delete" -> "deleted"
         [] c \in t.docs /\ t.op = "new" -> IF t.rest = <<>> THEN "indexed" ELSE "registered"
         [] OTHER -> status[c]]
  /\ topics' = [x \in TopicId |->
       CASE t.op = "topics" /\ x = t.made -> t.id
         [] x \in t.dropped -> NoDossier
         [] OTHER -> topics[x]]
  /\ trail' = Trailed(t.records)
  /\ late' = (late \ t.put) \cup {p \in t.put : \E v \in Others(w) : Condemns(v, p[2])}
  /\ chain' = IF chain = w THEN NoWorker ELSE chain
  /\ Goes(w, After(t))
  /\ UNCHANGED <<used, index, stale, vain, count>>

End(w) ==
  /\ tx[w].pc = "end"
  /\ Goes(w, Idle)
  /\ UNCHANGED <<rows, used, index, chain, history, count>>

AbortHolding(w) ==
  /\ tx[w].pc # "idle"
  /\ Goes(w, Idle)
  /\ UNCHANGED <<rows, used, index, chain, history, count>>

\* What it has changed and the index may know, or committed and the index does not.
LeavesHalf(w, c) == \/ Changing(w, c)
                    \/ c \in tx[w].docs /\ tx[w].op \in {"new", "known"} /\ tx[w].pc \in {"read", "write"}
\* An error, a refusal, the end of the process, or being a deadlock's victim.
Abort(w) ==
  /\ tx[w].pc # "idle"
  /\ Goes(w, Idle)
  /\ chain' = IF chain = w THEN NoWorker ELSE chain
  /\ stale' = [c \in Doc |-> IF LeavesHalf(w, c) THEN stale[c] \cup {"stopped"} ELSE stale[c]]
  /\ UNCHANGED <<rows, used, index, late, vain, count>>

Begin(w) ==
  \/ \E c \in Doc, n \in Name \cup {NoName} : DeliverNew(w, c, n)
  \/ \E c \in Doc, n \in Name : DeliverKnown(w, c, n)
  \/ \E S \in SUBSET Doc, n \in Name, from \in Dossier \cup {NoDossier} : Assign(w, S, n, from)
  \/ \E n \in Name : Adopt(w, n)
  \/ \E c \in Doc : Reprocess(w, c)
  \/ \E i \in Dossier : Compute(w, i) \/ DeleteDossier(w, i)

Step(w) ==
  \/ Register(w) \/ EnsureStep(w) \/ AddStep(w) \/ RemoveStep(w) \/ CutStep(w) \/ NoteStep(w)
  \/ ReadDossiers(w) \/ PassOver(w) \/ WriteIndex(w)
  \/ Group(w) \/ Replace(w) \/ WriteTopics(w)
  \/ Judge(w) \/ Erase(w) \/ NoteErased(w) \/ Release(w) \/ Tell(w)
  \/ Commit(w) \/ End(w)

\* What Postgres ends: a refusal, and one of two that wait for each other.
Stuck(w) == tx[w].pc # "idle" /\ ~ENABLED Step(w)
Deadlocked(w) == /\ \E v \in Others(w) : Stuck(v)
                 /\ \A v \in Others(w) : tx[v].pc = "idle" \/ Stuck(v)
Break(w) == Stuck(w) /\ (Refused(w) \/ Deadlocked(w)) /\ Abort(w)

Next ==
  \/ \E w \in Worker : Begin(w) \/ Step(w) \/ Abort(w)
  \/ \E i \in Dossier, n \in Name : Rename(i, n)

Spec == Init /\ [][Next]_vars
FairSpec == Spec /\ \A w \in Worker : WF_vars(Step(w)) /\ WF_vars(Break(w))

-----------------------------------------------------------------------------
\* The last of the first n records that is about a dossier: it was joined.
HasJoined(records, i, n) ==
  \E k \in 1 .. n : records[k] = <<"dossier_added", i>> /\ \A m \in k + 1 .. n : records[m][2] # i

\* Two that make the same new dossier at once get one row (ensure), and every
\* membership is of a dossier that is there, whatever was deleted meanwhile.
DossiersAreSound ==
  /\ \A i, j \in Dossier : dossiers[i] # NoName /\ dossiers[i] = dossiers[j] => i = j
  /\ \A p \in members : dossiers[p[1]] # NoName

\* The records of a document about a dossier tell whether it is a member: it
\* joins only when it is not one and is removed only when it is, and none joins
\* a dossier after the record of its deletion.  So a lost race to add, a repeated
\* delivery or a rollback leaves no record of what did not happen; a lost race to
\* remove does (dossiers.add, dossiers.remove).
TrailTells(i, c) ==
  /\ \A k \in 1 .. Len(trail[c]) :
       /\ trail[c][k] = <<"dossier_added", i>> => ~HasJoined(trail[c], i, k - 1)
       /\ trail[c][k] = <<"dossier_removed", i>> => HasJoined(trail[c], i, k - 1)
       /\ trail[c][k] = <<"dossier-deleted", i>> =>
            \A m \in k + 1 .. Len(trail[c]) : trail[c][m] # <<"dossier_added", i>>
  /\ <<i, c>> \in members <=> HasJoined(trail[c], i, Len(trail[c]))
TrailTellsMembership == \A p \in (Dossier \X Doc) \ vain : TrailTells(p[1], p[2])

\* A document that is deleted with a dossier is in no other then, unless the
\* membership was committed after the deletion had looked (dossier_deletion.py).
HeldIsKept ==
  [][\A p \in members' : status[p[2]] # "deleted" /\ status'[p[2]] = "deleted" => p \in late]_vars

\* When nobody works on a document, a search scoped to a dossier finds it exactly
\* when it is a member, unless, since it was last written as it should be, its
\* entry was written from memberships that had been overtaken, an operation was
\* stopped half-way at it, or the adoption passed over it.
IndexAgrees(c) == index[c].dossiers = {i \in Dossier : <<i, c>> \in members}
AtRest(c) == index[c].there /\ \A w \in Worker : c \notin tx[w].docs
IndexKnowsDossiers == \A c \in Doc : AtRest(c) /\ stale[c] = {} => IndexAgrees(c)

\* A document loses a topic only to a computation over the dossier the topic
\* is of, and to who had read the entry before it got that topic: what a
\* computation for another dossier, or a reanonymization, has read it keeps.
ReadBefore(w, c, x) == \/ tx[w].pc = "topics" /\ c \in tx[w].docs /\ x \notin tx[w].seen[c]
                       \/ tx[w].pc = "write" /\ tx[w].op = "reprocess" /\ x \notin tx[w].kept
TopicsKept ==
  [][\A c \in Doc : \A x \in index[c].topics \ index'[c].topics :
       index'[c].there => topics[x] = NoDossier \/
         \E w \in Worker : /\ tx'[w].pc = "commit" /\ tx[w].pc # "commit"
                           /\ (tx[w].op = "topics" /\ tx[w].id = topics[x]) \/ ReadBefore(w, c, x)]_vars

\* What is started ends: who waits for a name, a pair, a row or the chain lock
\* gets it, or is the one Postgres aborts.
OperationsEnd == \A w \in Worker : tx[w].pc # "idle" ~> tx[w].pc = "idle"
=============================================================================
