------------------------------- MODULE Redaction -------------------------------
(***************************************************************************)
(* What is derived from a document's PDF and its text (pdf_boxes.py,       *)
(* pdf_redaction.py, pdf_render.py, summaries.py): the box map, the        *)
(* redacted PDF and its cache, /reveal.pdf, and the summaries; with the    *)
(* detection lists that change under them, deletions and stopped runs.     *)
(*                                                                         *)
(* A page is a sequence of spans, a span a spelling of a value or a word.  *)
(* A spelling has words and a case; one that begins on the page before is  *)
(* in PageBreak.  A box covers a word.                                     *)
(***************************************************************************)
EXTENDS Naturals, Sequences, FiniteSets

CONSTANTS Doc, Pages,           \* Pages[d]: the spans of every page
          Spelling, Words, CaseOf, NormOf, TypeOf, PageBreak,
          Folded,               \* the types that are matched without their case
          Thin,                 \* spellings with a box that has no surface
          Found,                \* what the detectors find
          Shared,               \* tokens of other documents, which their deletion may take
          Hash, Allow, Deny,    \* versions of the lists
          Worker, MaxRequests, MaxDeploys

ASSUME RedactionAssumption ==
  /\ Pages \in [Doc -> Seq(Seq(Spelling))]
  /\ Found \subseteq Spelling /\ "none" \notin Spelling
  /\ Allow \in [Hash -> SUBSET Spelling] /\ Deny \in [Hash -> SUBSET Spelling]
  \* a token carries its type (_token, label_of)
  /\ \A s, t \in Spelling : NormOf[s] = NormOf[t] => TypeOf[s] = TypeOf[t]
  /\ MaxRequests \in Nat /\ MaxDeploys \in Nat

VARIABLES
  lists,      \* the lists in the directory
  loaded,     \* the lists the process started with
  mappings,   \* the spelling a token's mapping holds; "none" without one
  texts,      \* under which lists the stored text was made; "none"
  boxmaps,    \* the box map of a document
  cache,      \* redacted/<doc>/<render version>/<hash of the map>
  deleted,    \* documents whose content was removed
  summaries,  \* document_summaries
  jobs,       \* the request or run of each worker
  answer,     \* what the last request got
  requests, deploys

vars == <<lists, loaded, mappings, texts, boxmaps, cache, deleted, summaries, jobs, answer, requests, deploys>>

Token == {NormOf[s] : s \in Spelling}
Type(n) == TypeOf[CHOOSE s \in Spelling : NormOf[s] = n]
\* A stored map; `held` is what the mappings were when it was made.
NoMap == [there |-> FALSE, boxes |-> {}, lists |-> "none", held |-> [n \in Token |-> "none"]]
Idle  == [pc |-> "idle", doc |-> "none", map |-> NoMap, types |-> {}, under |-> "none",
          ids |-> {}, had |-> {}, made |-> {}]
Nothing == [kind |-> "none"]

-----------------------------------------------------------------------------
(* Texts and what is found in them. *)

\* DetectionLists.apply: a deny rule adds, an allow rule has the last word.
Apply(h) == (Found \cup Deny[h]) \ Allow[h]

\* The places of a document: a page and a position on it.
Places(d) == UNION {{p} \X DOMAIN Pages[d][p] : p \in DOMAIN Pages[d]}
At(d, x)  == Pages[d][x[1]][x[2]]

\* The anonymized text: the token at each place where one was put.
Tokenized(d, h) == {x \in Places(d) : At(d, x) \in Apply(h)}
TokensOf(d, h)  == {NormOf[At(d, x)] : x \in Tokenized(d, h)}
Occurrences(d, h, n) == {x \in Tokenized(d, h) : NormOf[At(d, x)] = n}

\* to_legible: the number of a token among those of its type, by first occurrence.
Before(x, y) == x[1] < y[1] \/ (x[1] = y[1] /\ x[2] <= y[2])
Legible(d, h) ==
  [n \in TokensOf(d, h) |->
    <<Type(n), "", Cardinality({m \in TokensOf(d, h) : Type(m) = Type(n) /\
       \E x \in Occurrences(d, h, m) : \A y \in Occurrences(d, h, n) : Before(x, y)})>>]

-----------------------------------------------------------------------------
(* The box map. *)

\* _whole_word: what the pattern of a spelling finds: its words, whole, in a
\* page's own text; in their case, unless the type is folded.
WholeWord(s, t) ==
  /\ t \notin PageBreak
  /\ \E i \in 1 .. Len(Words[t]) - Len(Words[s]) + 1 : SubSeq(Words[t], i, i + Len(Words[s]) - 1) = Words[s]
  /\ CaseOf[s] = CaseOf[t] \/ TypeOf[s] \in Folded

Located(d, s) == {x \in Places(d) : WholeWord(s, At(d, x))}
\* The words of a place that the pattern takes; the rest of it is not covered.
Covers(s, t) ==
  UNION {i .. i + Len(Words[s]) - 1 :
         i \in {k \in 1 .. Len(Words[t]) - Len(Words[s]) + 1 : SubSeq(Words[t], k, k + Len(Words[s]) - 1) = Words[s]}}
Rectangles(d, s, x) == {x} \X Covers(s, At(d, x))

\* _clear_values: a token and the one spelling its mapping holds.  A token
\* without a mapping is passed over.
ClearValues(d, h, held) == {<<n, held[n]>> : n \in {k \in TokensOf(d, h) : held[k] # "none"}}

\* build_box_map: no map if some token is found less often than it stands in
\* the text; else a box for every match.
Missed(d, h, held) ==
  {v \in ClearValues(d, h, held) : Cardinality(Located(d, v[2])) < Cardinality(Occurrences(d, h, v[1]))}
Boxed(d, h, held) ==
  [there |-> TRUE, lists |-> h, held |-> held,
   boxes |-> UNION {{[rect |-> r, token |-> v[1]] : r \in UNION {Rectangles(d, v[2], x) : x \in Located(d, v[2])}} :
                    v \in ClearValues(d, h, held)}]
BoxMap(d, h, held, old) ==
  IF Missed(d, h, held) # {} THEN old      \* a value-not-located record, and nothing persisted
  ELSE Boxed(d, h, held)

-----------------------------------------------------------------------------
(* render. *)

Usable(d, boxes) == \A b \in boxes : At(d, b.rect[1]) \notin Thin
\* Painted over in the raster and left out of the text layer.
Painted(d, boxes) == {x \in Places(d) : {x} \X DOMAIN Words[At(d, x)] \subseteq {b.rect : b \in boxes}}
Render(d, boxes, legend) ==
  [hidden |-> Painted(d, boxes),
   labels |-> [n \in {b.token : b \in boxes} |-> IF n \in DOMAIN legend THEN legend[n] ELSE <<Type(n), n, 0>>]]

-----------------------------------------------------------------------------
Init ==
  /\ lists \in Hash /\ loaded = lists
  \* another document may have brought a mapping
  /\ mappings \in {m \in [Token -> Spelling \cup {"none"}] :
                     \A n \in Token : m[n] # "none" => n \in Shared /\ NormOf[m[n]] = n}
  /\ texts = [d \in Doc |-> "none"]
  /\ boxmaps = [d \in Doc |-> NoMap]
  /\ cache = {} /\ deleted = {} /\ summaries = {}
  /\ jobs = [w \in Worker |-> Idle]
  /\ answer = Nothing
  /\ requests = 0 /\ deploys = 0

derived == <<texts, boxmaps, cache, deleted, summaries>>

Goes(w, j) == jobs' = [jobs EXCEPT ![w] = j]
Starts(w, j) ==
  /\ jobs[w].pc = "idle"
  /\ requests < MaxRequests /\ requests' = requests + 1
  /\ Goes(w, j)
  /\ answer' = Nothing
  /\ UNCHANGED <<lists, loaded, mappings, derived, deploys>>
Steps == UNCHANGED <<lists, loaded, requests, deploys>>

\* process, the first time, and reanonymize: through the lists in memory.
Anonymize(w, d) ==
  /\ d \notin deleted
  /\ Starts(w, [Idle EXCEPT !.pc = "anonymize", !.doc = d])
\* A mapping is put unless there is one, for the spelling that comes first.
FirstSpelling(d, h, n) ==
  At(d, CHOOSE x \in Occurrences(d, h, n) : \A y \in Occurrences(d, h, n) : Before(x, y))
Minted(d, h) ==
  [n \in Token |-> IF mappings[n] = "none" /\ n \in TokensOf(d, h) THEN FirstSpelling(d, h, n) ELSE mappings[n]]
\* The text and the map in one transaction, whichever of two comes last.  A
\* mapping that was there is locked by nobody: the deletion of the document that
\* brought it may take it before its value is looked up here.
StoreText(w) ==
  LET d == jobs[w].doc IN
  /\ jobs[w].pc = "anonymize"
  /\ \E gone \in SUBSET {n \in Shared : mappings[n] # "none"} :
       LET held == [n \in Token |-> IF n \in gone THEN "none" ELSE Minted(d, loaded)[n]] IN
       /\ mappings' = held
       /\ boxmaps' = [boxmaps EXCEPT ![d] = BoxMap(d, loaded, held, boxmaps[d])]
  /\ texts' = [texts EXCEPT ![d] = loaded]
  /\ Goes(w, Idle) /\ answer' = Nothing
  /\ UNCHANGED <<cache, deleted, summaries>> /\ Steps

\* redacted_pdf and reveal_pdf: no map, no PDF.
AskRedacted(w, d) ==
  /\ boxmaps[d].there
  /\ Starts(w, [Idle EXCEPT !.pc = "lists", !.doc = d, !.map = boxmaps[d]])
AskReveal(w, d, types) ==
  /\ boxmaps[d].there /\ texts[d] # "none"
  /\ Starts(w, [Idle EXCEPT !.pc = "open", !.doc = d, !.map = boxmaps[d], !.types = types])

IsStaleNever(map) == FALSE
\* Not the lists in memory and not the trail: the directory as it is now.
IsStale(map) == map.lists # lists
CompareLists(w) ==
  LET j == jobs[w] IN
  /\ j.pc = "lists"
  /\ Goes(w, IF IsStale(j.map) THEN Idle ELSE [j EXCEPT !.pc = "serve", !.under = lists])
  /\ answer' = Nothing /\ UNCHANGED <<mappings, derived>> /\ Steps

Pdf(w, kind, pdf) ==
  answer' = [kind |-> kind, doc |-> jobs[w].doc, under |-> jobs[w].under,
             map |-> jobs[w].map.lists, held |-> jobs[w].map.held,
             types |-> jobs[w].types, hidden |-> pdf.hidden, labels |-> pdf.labels]
CacheKey(d, map) == <<d, map.boxes>>
Serve(w) ==
  LET j == jobs[w]  hits == {c \in cache : c.key = CacheKey(j.doc, j.map)}
      made == Render(j.doc, j.map.boxes, IF texts[j.doc] = "none" THEN <<>> ELSE Legible(j.doc, texts[j.doc])) IN
  /\ j.pc = "serve"
  /\ IF hits # {} THEN \E c \in hits : Pdf(w, "redacted", c.pdf) /\ UNCHANGED cache
     ELSE IF j.doc \in deleted \/ ~Usable(j.doc, j.map.boxes) THEN answer' = Nothing /\ UNCHANGED cache
     ELSE Pdf(w, "redacted", made) /\ cache' = cache \cup {[key |-> CacheKey(j.doc, j.map), pdf |-> made]}
  /\ Goes(w, Idle)
  /\ UNCHANGED <<mappings, texts, boxmaps, deleted, summaries>> /\ Steps

\* The tokens of the text that open and that the grant allows; their boxes are
\* left out.
Resolved(d, types) == {n \in TokensOf(d, texts[d]) : Type(n) \in types /\ mappings[n] # "none"}
Omit(boxes, d, types) == {b \in boxes : b.token \notin Resolved(d, types)}
ServeReveal(w) ==
  LET j == jobs[w]  boxes == Omit(j.map.boxes, j.doc, j.types) IN
  /\ j.pc = "open"
  /\ IF j.doc \in deleted \/ texts[j.doc] = "none" \/ ~Usable(j.doc, boxes) THEN answer' = Nothing
     ELSE Pdf(w, "reveal", Render(j.doc, boxes, Legible(j.doc, texts[j.doc])))
  /\ Goes(w, Idle)
  /\ UNCHANGED <<mappings, derived>> /\ Steps

-----------------------------------------------------------------------------
(* summaries.compute. *)

\* The documents of a dossier, and which of them have a summary already.
Summarise(w, ids) ==
  /\ ids # {}
  /\ Starts(w, [Idle EXCEPT !.pc = "summarise", !.ids = ids, !.had = {d \in ids : \E s \in summaries : s[1] = d}])
\* Minutes may go by in the model: the text is read before and the row written
\* after; or there is no text, or nothing usable came of it.
NextSummary(w) ==
  LET j == jobs[w]  rest == j.ids \ (j.had \cup j.made) IN
  /\ j.pc = "summarise" /\ rest # {}
  /\ \E d \in rest :
       \/ Goes(w, [j EXCEPT !.ids = @ \ {d}])
       \/ texts[d] # "none" /\ Goes(w, [j EXCEPT !.pc = "bewaar", !.doc = d, !.under = texts[d]])
  /\ answer' = Nothing /\ UNCHANGED <<mappings, derived>> /\ Steps

Upsert(d, h) == {s \in summaries : s[1] # d} \cup {<<d, h>>}
\* _bewaar and the commit per document; who writes last wins.
Bewaar(w) ==
  LET j == jobs[w] IN
  /\ j.pc = "bewaar"
  /\ summaries' = Upsert(j.doc, j.under)
  /\ Goes(w, [j EXCEPT !.pc = "summarise", !.made = @ \cup {j.doc}])
  /\ answer' = Nothing /\ UNCHANGED <<mappings, texts, boxmaps, cache, deleted>> /\ Steps
EndSummaries(w) ==
  LET j == jobs[w] IN
  /\ j.pc = "summarise" /\ j.ids \subseteq j.had \cup j.made
  /\ Goes(w, Idle) /\ answer' = Nothing /\ UNCHANGED <<mappings, derived>> /\ Steps

-----------------------------------------------------------------------------
(* Around them. *)

\* delete_document knows none of what is derived here but the text.
Delete(d) ==
  /\ d \notin deleted /\ texts[d] # "none"
  /\ \A w \in Worker : jobs[w].pc = "anonymize" => jobs[w].doc # d
  /\ deleted' = deleted \cup {d}
  /\ texts' = [texts EXCEPT ![d] = "none"]
  /\ answer' = Nothing
  /\ UNCHANGED <<lists, loaded, mappings, boxmaps, cache, summaries, jobs, requests, deploys>>

Deploy(h) ==
  /\ deploys < MaxDeploys /\ deploys' = deploys + 1
  /\ h # lists /\ lists' = h
  /\ answer' = Nothing
  /\ UNCHANGED <<loaded, mappings, derived, jobs, requests>>

\* The process ends and starts again: it reads the lists once.
Restart ==
  /\ loaded' = lists
  /\ jobs' = [w \in Worker |-> Idle]
  /\ answer' = Nothing
  /\ UNCHANGED <<lists, mappings, derived, requests, deploys>>

Next ==
  \/ \E w \in Worker :
       \/ \E d \in Doc : Anonymize(w, d) \/ AskRedacted(w, d)
       \/ \E d \in Doc, types \in SUBSET {TypeOf[s] : s \in Spelling} : AskReveal(w, d, types)
       \/ \E ids \in SUBSET Doc : Summarise(w, ids)
       \/ StoreText(w) \/ CompareLists(w) \/ Serve(w) \/ ServeReveal(w)
       \/ NextSummary(w) \/ Bewaar(w) \/ EndSummaries(w)
  \/ \E d \in Doc : Delete(d)
  \/ \E h \in Hash : Deploy(h)
  \/ Restart

Spec == Init /\ [][Next]_vars

-----------------------------------------------------------------------------
TypeOK ==
  /\ lists \in Hash /\ loaded \in Hash
  /\ texts \in [Doc -> Hash \cup {"none"}]
  /\ deleted \subseteq Doc /\ summaries \subseteq Doc \X Hash

\* A place whose token had a mapping, and whose spelling its pattern finds.
Locatable(d, x, held) ==
  LET n == NormOf[At(d, x)] IN held[n] # "none" /\ WholeWord(held[n], At(d, x)) /\ Covers(held[n], At(d, x)) = DOMAIN Words[At(d, x)]

\* A redacted PDF, from the cache or not, hides every place where the lists in
\* force when it was asked for find a value, and a reveal those where its map's
\* lists do, except the types of the grant, as far as the token's value could be
\* looked up and is found there; no PDF is made from a map in which a value that
\* was looked up was found too seldom; no two tokens share a label.  What is
\* left out, of a token without a mapping and of a value that is divided or spelt
\* otherwise, the code does not have: the next property is one that it lacks.
PdfsHide ==
  answer.kind # "none" =>
    LET d == answer.doc  h == IF answer.kind = "redacted" THEN answer.under ELSE answer.map IN
    /\ Missed(d, h, answer.held) = {}
    /\ \A x \in Tokenized(d, h) :
         Locatable(d, x, answer.held) /\ TypeOf[At(d, x)] \notin answer.types => x \in answer.hidden
    /\ \A m, n \in DOMAIN answer.labels : answer.labels[m] = answer.labels[n] => m = n

\* "no partial box map, ever" (pdf_boxes.py): every token has its box.
NoPartialBoxMap ==
  \A d \in Doc : boxmaps[d].there =>
    Tokenized(d, boxmaps[d].lists) \subseteq Painted(d, boxmaps[d].boxes)
=============================================================================
