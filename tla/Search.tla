-------------------------------- MODULE Search --------------------------------
(***************************************************************************)
(* A question to the corpus: /search, /export/ranking.csv, /hybrid, /ask   *)
(* and the search page of the console; hybrid.py, rrf.py, rag.py and the   *)
(* reads of opensearch_index.py.  A hybrid search asks the index three     *)
(* times, while documents are indexed, moved between dossiers and deleted. *)
(*                                                                         *)
(* How well a document answers the question is a given: an order of the    *)
(* documents that match its words, and an order by vector.                 *)
(***************************************************************************)
EXTENDS Integers, Sorting, Sequences, SequencesExt

CONSTANTS Entry,             \* the documents that can be in the index
          Folder, Unknown,   \* the dossiers there are, and a name of none
          Theme, NoTheme,    \* topics
          Recall, Asked,     \* how many each ranking gives, and the answer
          Multiple,          \* of each of 60 + 1 to 60 + Recall
          EmbedAttempts, MaxWrites,
          LexicalOrders, NearOrders, Start, Ask   \* the orders, contents and questions looked at

ASSUME SearchAssumption ==
  /\ Recall \in Nat \ {0} /\ Asked \in Nat \ {0} /\ EmbedAttempts \in Nat \ {0} /\ MaxWrites \in Nat
  /\ Unknown \notin Folder /\ NoTheme \notin Theme /\ IsFiniteSet(Entry)
  /\ Multiple \in Nat /\ \A rank \in 1 .. Recall : Multiple % (60 + rank) = 0

VARIABLES
  entries,    \* the index: are they there, in which dossiers and topics, with which vectors
  hidden,     \* documents that were deleted or superseded
  lexical, near,     \* the orders
  question,   \* what is asked
  step, scope, tried, ranked, hits, reply,   \* the request
  past,       \* the contents the index had since the request was let in
  writes

svars == <<entries, hidden, lexical, near, question, step, scope, tried, ranked, hits, reply, past, writes>>
request == <<question, step, scope, tried, ranked, hits, reply>>

All == "alle"
Everything == {Unknown} \cup Folder     \* a scope that leaves nothing out: None

Scoped == {"/search", "/hybrid", "/console/search"}
Hybrid == {"/hybrid", "/ask", "/console/search"}
Questions ==
  [path : {"/search", "/export/ranking.csv", "/hybrid", "/ask", "/console/search"},
   dossier : SUBSET ({All, Unknown} \cup Folder), topic : Theme \cup {NoTheme},
   knn : {"document", "passage"}, final : {"rrf", "cosine"}]
\* What a path does not take is not said.
Unscoped(r) == r.path \notin Scoped => r.dossier = {} /\ r.topic = NoTheme

Contents == [Entry -> [there : BOOLEAN, folders : SUBSET Folder, themes : SUBSET Theme, vectors : SUBSET {"document", "passage"}]]
Absent == [there |-> FALSE, folders |-> {}, themes |-> {}, vectors |-> {}]

\* Nobody is in an order twice, and every entry has a place by vector.
NoneTwice(s) == \A i, j \in DOMAIN s : s[i] = s[j] => i = j
ASSUME StartAssumption ==
  /\ \A s \in LexicalOrders \cup NearOrders : s \in Seq(Entry) /\ NoneTwice(s)
  /\ \A s \in NearOrders : ToSet(s) = Entry
  /\ Start \subseteq Contents
  /\ Ask \subseteq {r \in Questions : Unscoped(r)}

SInit ==
  /\ entries \in Start
  /\ lexical \in LexicalOrders /\ near \in NearOrders
  /\ question \in Ask
  /\ hidden = {} /\ step = "arrived" /\ scope = {} /\ tried = 0 /\ ranked = <<>> /\ hits = <<>>
  /\ reply = [citations |-> <<>>, text |-> "none"] /\ past = {} /\ writes = 0

-----------------------------------------------------------------------------
(* The index. *)

Themed(e) == question.topic = NoTheme \/ question.topic \in e.themes
\* _filters: any of the dossiers, and the topic.
InScope(e) == e.there /\ (scope = Everything \/ e.folders \cap scope # {}) /\ Themed(e)

\* A sequence's members in its own order, and the first of them.
Earlier(s, d, e) == \E i \in DOMAIN s : s[i] = d /\ \A j \in 1 .. i : s[j] # e
Those(s, S) == Ordered(ToSet(s) \cap S, {p \in ToSet(s) \X ToSet(s) : Earlier(s, p[1], p[2])})
Top(s, n) == [i \in 1 .. (IF Len(s) < n THEN Len(s) ELSE n) |-> s[i]]

Matching == {d \in Entry : InScope(entries[d])}
WithVector == {d \in Entry : question.knn \in entries[d].vectors}
\* The filter stands beside the words.
Lexical(n) == Top(Those(lexical, Matching), n)
\* The filter stands inside the knn clause: the nearest of those in scope.
NearestThenFilter(n) == Those(Top(Those(near, WithVector), n), Matching)
Nearest(n) == Top(Those(near, WithVector \cap Matching), n)

-----------------------------------------------------------------------------
(* Reciprocal rank fusion. *)

RankOf(d, s) == IF d \in ToSet(s) THEN CHOOSE i \in DOMAIN s : s[i] = d ELSE 0
\* 1 / (60 + rank), in parts of Multiple.
Share(d, s) == IF d \in ToSet(s) THEN Multiple \div (60 + RankOf(d, s)) ELSE 0
Score(d) == Share(d, ranked[1]) + Share(d, ranked[2])
\* Best first, and of equals the one that was seen first.
Better(d, e) == \/ Score(d) > Score(e)
                \/ Score(d) = Score(e) /\ Earlier(ranked[1] \o ranked[2], d, e)
FuseRankedIds ==
  LET seen == ranked[1] \o ranked[2] IN
  Ordered(ToSet(seen), {p \in ToSet(seen) \X ToSet(seen) : Better(p[1], p[2])})

\* The cosine of a document without a vector is 0, behind all others.
ByCosine(s) ==
  LET place(d) == IF "document" \in entries[d].vectors THEN RankOf(d, near) ELSE Len(near) + RankOf(d, s) IN
  Ordered(ToSet(s), {p \in ToSet(s) \X ToSet(s) : place(p[1]) < place(p[2])})

-----------------------------------------------------------------------------
(* The request. *)

Rest == UNCHANGED <<entries, hidden, lexical, near, question, writes>>
Stops(how) == step' = how /\ UNCHANGED <<tried, ranked, hits, reply>>

\* _scope_with, resolve: a missing scope, an unknown name, or "alle" with a
\* name beside it is a 400.
Resolve ==
  /\ step = "arrived"
  /\ LET named == question.dossier IN
     IF question.path \in Scoped /\ (named = {} \/ (named # {All} /\ ~(named \subseteq Folder)))
     THEN Stops("refused") /\ UNCHANGED scope
     ELSE /\ scope' = IF question.path \notin Scoped \/ named = {All} THEN Everything ELSE named
          /\ Stops(IF question.path \in Hybrid THEN "embed" ELSE "match")
  /\ past' = {entries}
  /\ Rest

\* The question's own vector: a service that does not answer is tried again.
Embed ==
  /\ step = "embed" /\ Stops("match")
  /\ UNCHANGED <<scope, past>> /\ Rest
EmbedFails ==
  /\ step = "embed"
  /\ tried' = tried + 1
  /\ step' \in {"failed"} \cup (IF tried' < EmbedAttempts THEN {"embed"} ELSE {})
  /\ UNCHANGED <<scope, ranked, hits, reply, past>> /\ Rest

\* search; or the first half of hybrid_search.
Match ==
  /\ step = "match"
  /\ IF question.path \in Hybrid
     THEN step' = "near" /\ ranked' = <<Lexical(Recall)>> /\ UNCHANGED hits
     ELSE step' = "answered" /\ hits' = Lexical(Asked) /\ UNCHANGED ranked
  /\ UNCHANGED <<scope, tried, reply, past>> /\ Rest
Near ==
  /\ step = "near"
  /\ step' = "fetch" /\ ranked' = Append(ranked, Nearest(Recall))
  /\ UNCHANGED <<scope, tried, hits, reply, past>> /\ Rest
\* mget: what is gone by now is left out; then the final order.
Fetch ==
  /\ step = "fetch"
  /\ LET found == Those(Top(FuseRankedIds, Recall), {d \in Entry : entries[d].there}) IN
     hits' = Top(IF question.final = "cosine" THEN ByCosine(found) ELSE found, Asked)
  /\ step' = CASE question.path = "/ask" -> "generate" [] question.path = "/console/search" -> "show" [] OTHER -> "answered"
  /\ UNCHANGED <<scope, tried, ranked, reply, past>> /\ Rest

\* The index does not answer.
Unreachable ==
  /\ step \in {"match", "near", "fetch"} /\ Stops("failed")
  /\ UNCHANGED <<scope, past>> /\ Rest

\* The model answers and cites what it likes, and fails hard.
GenerateFails ==
  /\ step = "generate" /\ Stops("failed")
  /\ UNCHANGED <<scope, past>> /\ Rest
\* rag.ask: only citations of what was retrieved, each once; without one there
\* is no answer.
Generate(cited) ==
  /\ step = "generate"
  /\ LET verified == Those(cited, ToSet(hits)) IN
     reply' = [citations |-> verified, text |-> IF verified = <<>> THEN "not grounded" ELSE "answer"]
  /\ step' = "answered"
  /\ UNCHANGED <<scope, tried, ranked, hits, past>> /\ Rest

\* The console leaves out what is deleted or superseded.
Show ==
  /\ step = "show"
  /\ hits' = Those(hits, Entry \ hidden)
  /\ step' = "answered"
  /\ UNCHANGED <<scope, tried, ranked, reply, past>> /\ Rest

-----------------------------------------------------------------------------
(* What others do meanwhile. *)

\* Before the first of the reads the index can be anything already.
Reading == step \in {"near", "fetch", "generate", "show"}
Write(new) ==
  /\ Reading /\ writes < MaxWrites
  /\ new # entries
  /\ entries' = new /\ past' = past \cup {new}
  /\ writes' = writes + 1
  /\ UNCHANGED <<hidden, lexical, near, request>>

\* index: the whole entry; set_dossiers, set_topics and set_passages: a field of
\* an entry that is there.
Index(d, F, T)   == Write([entries EXCEPT ![d] = [there |-> TRUE, folders |-> F, themes |-> T,
                                                  vectors |-> {"document", "passage"}]])
SetFolders(d, F) == entries[d].there /\ Write([entries EXCEPT ![d].folders = F])
SetThemes(d, T)  == entries[d].there /\ Write([entries EXCEPT ![d].themes = T])
SetPassages(d)   == entries[d].there /\ Write([entries EXCEPT ![d].vectors = @ \cup {"passage"}])
DropEntry(d)        == entries[d].there /\ Write([entries EXCEPT ![d] = Absent])
\* The state that hides it is committed after its entry is removed.
Hide(d) ==
  /\ Reading /\ d \notin hidden
  /\ ~entries[d].there /\ \E e \in past : e[d].there
  /\ hidden' = hidden \cup {d}
  /\ UNCHANGED <<entries, lexical, near, request, past, writes>>

Citations == {<<>>} \cup {<<c>> : c \in Entry} \cup {<<c, c>> : c \in Entry}

SNext ==
  \/ Resolve \/ Embed \/ EmbedFails \/ Match \/ Near \/ Fetch \/ Unreachable \/ GenerateFails \/ Show
  \/ \E c \in Citations : Generate(c)
  \/ \E d \in Entry, F \in SUBSET Folder, T \in {{}, Theme} : Index(d, F, T)
  \/ \E d \in Entry, F \in SUBSET Folder : SetFolders(d, F)
  \/ \E d \in Entry, T \in {{}, Theme} : SetThemes(d, T)
  \/ \E d \in Entry : SetPassages(d)
  \/ \E d \in Entry : DropEntry(d)
  \/ \E d \in Entry : Hide(d)

SSpec == SInit /\ [][SNext]_svars

-----------------------------------------------------------------------------
\* What was asked for, whatever the filters of the code say.
Belongs(e) ==
  /\ e.there
  /\ question.path \in Scoped /\ question.dossier # {All} => \E f \in question.dossier : f \in e.folders
  /\ question.topic \in Theme => question.topic \in e.themes
Answers(d, e) ==
  d \in ToSet(lexical) \/ (question.path \in Hybrid /\ question.knn \in e.vectors)
Ever   == {d \in Entry : \E e \in past : Belongs(e[d]) /\ Answers(d, e[d])}
Always == {d \in Entry : \A e \in past : Belongs(e[d]) /\ Answers(d, e[d])}

\* While the index changes under the three requests of a search, an answer has
\* nothing that was at no moment in the dossiers and the topic that were asked,
\* has no document twice, and cites nothing it did not retrieve; a scope that
\* fits in the answer is answered in full, however large the rest of the index
\* is (but a deleted document is not shown); and of two documents the one that
\* both rankings put first stands first.
AnswerIsTheScope ==
  step = "answered" =>
    /\ ToSet(hits) \subseteq Ever
    /\ \A i, j \in DOMAIN hits : hits[i] = hits[j] => i = j
    /\ ToSet(reply.citations) \subseteq ToSet(hits)
    /\ Cardinality(Ever) <= Recall /\ Cardinality(Ever) <= Asked => Always \subseteq ToSet(hits)
    /\ question.path \in Hybrid /\ question.final = "rrf" =>
         \A d, e \in ToSet(hits) :
           (\A k \in 1 .. 2 : d \in ToSet(ranked[k]) /\ (e \in ToSet(ranked[k]) => RankOf(d, ranked[k]) < RankOf(e, ranked[k])))
             => RankOf(d, hits) <= RankOf(e, hits)
=============================================================================
