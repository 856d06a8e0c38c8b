---------------------------- MODULE ServicesProofs ----------------------------
(***************************************************************************)
(* Redacted PDFs, what clients report of their uploads, the request limit, *)
(* the answers of a search and what detection leaves of a text, for any    *)
(* documents, lists, clients, requests, replicas, orders and texts.  The   *)
(* five share no state.                                                    *)
(***************************************************************************)
EXTENDS Redaction, Batches, RateLimit, Search, Detection, FiniteSetTheorems, WellFoundedInduction, TLAPS

-----------------------------------------------------------------------------
(* Redacted PDFs: a map in use is complete for the lists it was made under *)
(* and what the cache has is what would be made.                           *)

\* A box map in use: a box for every match, and none missed.
FromText(d, map) == map = Boxed(d, map.lists, map.held) /\ Missed(d, map.lists, map.held) = {}

\* No two tokens share a label.
Distinct(labels) == \A m, n \in DOMAIN labels : labels[m] = labels[n] => m = n

\* What a request carries.
JobOk(j) ==
  /\ DOMAIN j = DOMAIN Idle
  /\ j.pc \in {"anonymize", "lists", "serve", "open"} => j.doc \in Doc
  /\ j.pc \in {"lists", "serve", "open"} => FromText(j.doc, j.map)
  /\ j.pc = "serve" => j.under = j.map.lists

\* What is in the cache is what would be made.
Cached(c) ==
  \E d \in Doc : \E boxes :
    c.key = <<d, boxes>> /\ c.pdf.hidden = Painted(d, boxes) /\ Distinct(c.pdf.labels)

\* The parts of the invariant, and all of it.
Maps  == DOMAIN boxmaps = Doc /\ \A d \in Doc : boxmaps[d].there => FromText(d, boxmaps[d])
Jobs  == DOMAIN jobs = Worker /\ \A w \in Worker : JobOk(jobs[w])
Cache == \A c \in cache : Cached(c)
RedactionInv == Maps /\ Jobs /\ Cache /\ PdfsHide

-----------------------------------------------------------------------------
(* Tokens and their labels. *)

\* A place holds a spelling.
LEMMA AtPlaces ==
  ASSUME NEW d \in Doc, NEW x \in Places(d)
  PROVE  At(d, x) \in Spelling /\ x \in Nat \X Nat /\ x = <<x[1], x[2]>>
<1>1. PICK p \in DOMAIN Pages[d] : x \in {p} \X DOMAIN Pages[d][p]
  BY DEF Places
<1>2. Pages[d] \in Seq(Seq(Spelling))
  BY RedactionAssumption
<1>3. Pages[d][p] \in Seq(Spelling) /\ p \in Nat
  BY <1>1, <1>2
<1>4. x[1] = p /\ x[2] \in DOMAIN Pages[d][p] /\ x = <<x[1], x[2]>>
  BY <1>1
<1> QED BY <1>3, <1>4 DEF At

\* A token is of the type of every spelling of it.
LEMMA TypesOfTokens == \A s \in Spelling : Type(NormOf[s]) = TypeOf[s]
<1> SUFFICES ASSUME NEW s \in Spelling PROVE Type(NormOf[s]) = TypeOf[s]
  OBVIOUS
<1>1. \E t \in Spelling : NormOf[t] = NormOf[s]
  OBVIOUS
<1>2. PICK t : t = (CHOOSE u \in Spelling : NormOf[u] = NormOf[s])
  OBVIOUS
<1>3. t \in Spelling /\ NormOf[t] = NormOf[s]
  BY <1>1, <1>2
<1>4. TypeOf[t] = TypeOf[s]
  BY <1>3, RedactionAssumption
<1> QED BY <1>2, <1>4 DEF Type

\* A document has finitely many places, and so finitely many tokens.
LEMMA FewPlaces == \A d \in Doc : IsFiniteSet(Places(d))
<1> SUFFICES ASSUME NEW d \in Doc PROVE IsFiniteSet(Places(d))
  OBVIOUS
<1>1. PICK Z : Z = DOMAIN Pages[d]
  OBVIOUS
<1>2. PICK T : T = {{p} \X DOMAIN Pages[d][p] : p \in Z}
  OBVIOUS
<1>3. IsFiniteSet(Z) /\ \A p \in Z : IsFiniteSet(DOMAIN Pages[d][p])
  <2>1. Pages[d] \in Seq(Seq(Spelling))
    BY RedactionAssumption
  <2>2. Z = 1 .. Len(Pages[d]) /\ Len(Pages[d]) \in Nat
    BY <1>1, <2>1
  <2>3. \A p \in Z : DOMAIN Pages[d][p] = 1 .. Len(Pages[d][p]) /\ Len(Pages[d][p]) \in Nat
    BY <1>1, <2>1
  <2>4. \A n \in Nat : IsFiniteSet(1 .. n)
    BY FS_Interval
  <2> QED BY <2>2, <2>3, <2>4
<1>4. \A t \in T : IsFiniteSet(t)
  <2> SUFFICES ASSUME NEW p \in Z PROVE IsFiniteSet({p} \X DOMAIN Pages[d][p])
    BY <1>2
  <2> QED BY <1>3, FS_Singleton, FS_Product
<1>5. IsFiniteSet(T)
  <2>1. [p \in Z |-> {p} \X DOMAIN Pages[d][p]] \in Surjection(Z, T)
    BY <1>2 DEF Surjection
  <2> QED BY <1>3, <2>1, FS_Surjection
<1>6. Places(d) = UNION T
  BY <1>1, <1>2 DEF Places
<1> QED BY <1>4, <1>5, <1>6, FS_UNION

\* And finitely many tokens.
LEMMA FewTokens == \A d \in Doc : \A h : IsFiniteSet(TokensOf(d, h))
<1> SUFFICES ASSUME NEW d \in Doc, NEW h PROVE IsFiniteSet(TokensOf(d, h))
  OBVIOUS
<1>1. IsFiniteSet(Tokenized(d, h))
  BY FewPlaces, FS_Subset DEF Tokenized
<1>2. [x \in Tokenized(d, h) |-> NormOf[At(d, x)]] \in Surjection(Tokenized(d, h), TokensOf(d, h))
  BY DEF Surjection, TokensOf
<1> QED BY <1>1, <1>2, FS_Surjection

\* Places are ordered, and of some there is a first.
LEMMA Order ==
  ASSUME NEW d \in Doc
  PROVE  /\ \A x, y, z \in Places(d) : Before(x, y) /\ Before(y, z) => Before(x, z)
         /\ \A x, y \in Places(d) : (Before(x, y) \/ Before(y, x)) /\ (Before(x, y) /\ Before(y, x) => x = y)
<1>1. \A x \in Places(d) : x[1] \in Nat /\ x[2] \in Nat /\ x = <<x[1], x[2]>>
  BY AtPlaces
<1> QED BY <1>1 DEF Before

\* The first of some places.
LEMMA First ==
  ASSUME NEW d \in Doc, NEW X, X \subseteq Places(d), X # {}
  PROVE  \E x \in X : \A y \in X : Before(x, y)
<1>1. PICK R : R = OpToRel(<, Nat)
  OBVIOUS
<1>2. IsWellFoundedOn(LexPairOrdering(R, R, Nat, Nat), Nat \X Nat)
  BY <1>1, NatLessThanWellFounded, WFLexPairOrdering
<1>3. X \subseteq Nat \X Nat /\ \A x \in X : x \in Nat \X Nat /\ x = <<x[1], x[2]>>
  BY AtPlaces
<1>4. PICK x \in X : \A y \in X : ~ (<<y, x>> \in LexPairOrdering(R, R, Nat, Nat))
  BY <1>2, <1>3, WFMin
<1>5. \A m, n \in Nat : <<m, n>> \in R <=> m < n
  BY <1>1 DEF OpToRel
<1>6. ASSUME NEW y \in X PROVE Before(x, y)
  <2>1. ~(<<y[1], x[1]>> \in R) /\ ~(y[1] = x[1] /\ <<y[2], x[2]>> \in R)
    BY <1>3, <1>4 DEF LexPairOrdering
  <2>2. x[1] \in Nat /\ x[2] \in Nat /\ y[1] \in Nat /\ y[2] \in Nat
    BY <1>3
  <2> QED BY <1>5, <2>1, <2>2 DEF Before
<1> QED BY <1>6

\* The tokens of a type that come no later than one of it.
Ranked(d, h, n) ==
  {m \in TokensOf(d, h) : Type(m) = Type(n) /\
     \E x \in Occurrences(d, h, m) : \A y \in Occurrences(d, h, n) : Before(x, y)}

\* Of two tokens of a type one is counted with the other, and not the other way
\* round: to_legible gives no two the same number.
LEMMA RanksDiffer ==
  ASSUME NEW d \in Doc, NEW h, NEW m \in TokensOf(d, h), NEW n \in TokensOf(d, h), m # n, Type(m) = Type(n)
  PROVE  Cardinality(Ranked(d, h, m)) # Cardinality(Ranked(d, h, n))
<1> DEFINE Occ(k) == Occurrences(d, h, k)
<1>1. \A k \in TokensOf(d, h) : Occ(k) \subseteq Places(d) /\ Occ(k) # {}
  BY DEF Occurrences, Tokenized, TokensOf
<1>2. \A k \in TokensOf(d, h) : \E x \in Occ(k) : \A y \in Occ(k) : Before(x, y)
  BY <1>1, First
<1>3. \A k, l \in TokensOf(d, h) : k # l => Occ(k) \cap Occ(l) = {}
  BY DEF Occurrences
<1>4. ASSUME NEW k \in TokensOf(d, h), NEW l \in TokensOf(d, h), k # l, Type(k) = Type(l),
             NEW x \in Occ(k), \A y \in Occ(l) : Before(x, y)
      PROVE  Ranked(d, h, k) # Ranked(d, h, l) /\ Ranked(d, h, k) \subseteq Ranked(d, h, l)
  <2>1. l \in Ranked(d, h, l)
    BY <1>2 DEF Ranked
  <2>2. l \notin Ranked(d, h, k)
    <3>1. SUFFICES ASSUME l \in Ranked(d, h, k) PROVE FALSE
      OBVIOUS
    <3>2. PICK y \in Occ(l) : \A z \in Occ(k) : Before(y, z)
      BY <3>1 DEF Ranked
    <3>3. Before(y, x) /\ Before(x, y) /\ x \in Places(d) /\ y \in Places(d)
      BY <1>1, <1>4, <3>2
    <3>4. x = y
      BY <3>3, Order
    <3> QED BY <1>3, <1>4, <3>2, <3>4
  <2>3. ASSUME NEW a \in Ranked(d, h, k) PROVE a \in Ranked(d, h, l)
    <3>1. PICK z \in Occ(a) : \A y \in Occ(k) : Before(z, y)
      BY DEF Ranked
    <3>2. a \in TokensOf(d, h) /\ Type(a) = Type(l)
      BY <1>4 DEF Ranked
    <3>3. ASSUME NEW y \in Occ(l) PROVE Before(z, y)
      <4>1. Before(z, x) /\ Before(x, y)
        BY <1>4, <3>1
      <4>2. z \in Places(d) /\ x \in Places(d) /\ y \in Places(d)
        BY <1>1, <1>4, <3>2
      <4> QED BY <4>1, <4>2, Order
    <3> QED BY <3>2, <3>3 DEF Ranked
  <2> QED BY <2>1, <2>2, <2>3
<1>5. Ranked(d, h, m) # Ranked(d, h, n)
      /\ (Ranked(d, h, m) \subseteq Ranked(d, h, n) \/ Ranked(d, h, n) \subseteq Ranked(d, h, m))
  <2>1. PICK x \in Occ(m) : \A y \in Occ(m) : Before(x, y)
    BY <1>2
  <2>2. PICK y \in Occ(n) : \A z \in Occ(n) : Before(y, z)
    BY <1>2
  <2>3. x \in Places(d) /\ y \in Places(d)
    BY <1>1
  <2>4. CASE Before(x, y)
    <3>1. \A z \in Occ(n) : Before(x, z)
      BY <1>1, <2>2, <2>3, <2>4, Order
    <3> QED BY <1>4, <3>1
  <2>5. CASE Before(y, x)
    <3>1. \A z \in Occ(m) : Before(y, z)
      BY <1>1, <2>1, <2>3, <2>5, Order
    <3> QED BY <1>4, <3>1
  <2> QED BY <2>3, <2>4, <2>5, Order
<1>6. \A k : IsFiniteSet(Ranked(d, h, k))
  BY FewTokens, FS_Subset DEF Ranked
<1> QED BY <1>5, <1>6, FS_Subset

\* Whatever the boxes, the labels of a PDF differ.
LEMMA LabelsDiffer ==
  ASSUME NEW d \in Doc, NEW h, NEW boxes
  PROVE  /\ Distinct(Render(d, boxes, Legible(d, h)).labels)
         /\ Distinct(Render(d, boxes, <<>>).labels)
<1>2. DOMAIN Legible(d, h) = TokensOf(d, h)
  BY DEF Legible
<1>3. ASSUME NEW n \in TokensOf(d, h)
      PROVE  Legible(d, h)[n] = <<Type(n), "", Cardinality(Ranked(d, h, n))>> /\ Cardinality(Ranked(d, h, n)) # 0
  <2>1. Legible(d, h)[n] = <<Type(n), "", Cardinality(Ranked(d, h, n))>>
    BY DEF Legible, Ranked
  <2>2. n \in Ranked(d, h, n)
    <3>1. Occurrences(d, h, n) \subseteq Places(d) /\ Occurrences(d, h, n) # {}
      BY DEF Occurrences, Tokenized, TokensOf
    <3> QED BY <3>1, First DEF Ranked
  <2>3. IsFiniteSet(Ranked(d, h, n))
    BY FewTokens, FS_Subset DEF Ranked
  <2> QED BY <2>1, <2>2, <2>3, FS_EmptySet
<1>4. ASSUME NEW m, NEW n, Legible(d, h)[m] = Legible(d, h)[n], m \in TokensOf(d, h), n \in TokensOf(d, h)
      PROVE  m = n
  <2>1. <<Type(m), "", Cardinality(Ranked(d, h, m))>> = <<Type(n), "", Cardinality(Ranked(d, h, n))>>
    BY <1>3, <1>4
  <2>2. Type(m) = Type(n) /\ Cardinality(Ranked(d, h, m)) = Cardinality(Ranked(d, h, n))
    BY <2>1
  <2> QED BY <1>4, <2>2, RanksDiffer
<1>5. Distinct(Render(d, boxes, Legible(d, h)).labels)
  <2>1. PICK L : L = Render(d, boxes, Legible(d, h)).labels
    OBVIOUS
  <2>2. DOMAIN L = {b.token : b \in boxes}
    BY <2>1 DEF Render
  <2>3. \A n \in DOMAIN L : L[n] = IF n \in TokensOf(d, h) THEN Legible(d, h)[n] ELSE <<Type(n), n, 0>>
    BY <1>2, <2>1 DEF Render
  <2>4. ASSUME NEW m \in DOMAIN L, NEW n \in DOMAIN L, L[m] = L[n] PROVE m = n
    <3>1. CASE m \in TokensOf(d, h) /\ n \in TokensOf(d, h)
      BY <1>4, <2>3, <2>4, <3>1
    <3>2. CASE m \notin TokensOf(d, h) /\ n \notin TokensOf(d, h)
      BY <2>3, <2>4, <3>2
    <3>3. CASE m \in TokensOf(d, h) /\ n \notin TokensOf(d, h)
      <4>1. <<Type(m), "", Cardinality(Ranked(d, h, m))>> = <<Type(n), n, 0>>
        BY <1>3, <2>3, <2>4, <3>3
      <4>2. Cardinality(Ranked(d, h, m)) = 0
        BY <4>1
      <4> QED BY <1>3, <3>3, <4>2
    <3>4. CASE m \notin TokensOf(d, h) /\ n \in TokensOf(d, h)
      <4>1. <<Type(n), "", Cardinality(Ranked(d, h, n))>> = <<Type(m), m, 0>>
        BY <1>3, <2>3, <2>4, <3>4
      <4>2. Cardinality(Ranked(d, h, n)) = 0
        BY <4>1
      <4> QED BY <1>3, <3>4, <4>2
    <3> QED BY <3>1, <3>2, <3>3, <3>4
  <2> QED BY <2>1, <2>4 DEF Distinct
<1>6. Distinct(Render(d, boxes, <<>>).labels)
  <2>1. PICK L : L = Render(d, boxes, <<>>).labels
    OBVIOUS
  <2>2. \A n \in DOMAIN L : L[n] = <<Type(n), n, 0>>
    BY <2>1 DEF Render
  <2> QED BY <2>1, <2>2 DEF Distinct
<1> QED BY <1>5, <1>6

-----------------------------------------------------------------------------
(* What boxes hide. *)

\* A map made from a text has a box on every word of every place that could be
\* located; with those boxes the place is hidden.
LEMMA BoxesHide ==
  ASSUME NEW d \in Doc, NEW h, NEW held, NEW x \in Tokenized(d, h), Locatable(d, x, held), NEW boxes,
         \A b \in Boxed(d, h, held).boxes : b.token = NormOf[At(d, x)] => b \in boxes
  PROVE  x \in Painted(d, boxes)
<1>1. PICK n : n = NormOf[At(d, x)] /\ n \in TokensOf(d, h)
  BY DEF TokensOf
<1>2. /\ held[n] # "none" /\ WholeWord(held[n], At(d, x))
      /\ Covers(held[n], At(d, x)) = DOMAIN Words[At(d, x)]
  BY <1>1 DEF Locatable
<1>3. PICK v : v = <<n, held[n]>>
  OBVIOUS
<1>4. v \in ClearValues(d, h, held) /\ v[1] = n /\ v[2] = held[n] /\ x \in Places(d)
  BY <1>1, <1>2, <1>3 DEF ClearValues, Tokenized
<1>5. x \in Located(d, v[2])
  BY <1>2, <1>4 DEF Located
<1>6. ASSUME NEW r \in {x} \X DOMAIN Words[At(d, x)] PROVE r \in {b.rect : b \in boxes}
  <2>1. PICK b : b = [rect |-> r, token |-> n]
    OBVIOUS
  <2>2. r \in Rectangles(d, v[2], x)
    BY <1>2, <1>4 DEF Rectangles
  <2>3. b \in {[rect |-> q, token |-> v[1]] : q \in UNION {Rectangles(d, v[2], y) : y \in Located(d, v[2])}}
    BY <1>4, <1>5, <2>1, <2>2
  <2>4. b \in Boxed(d, h, held).boxes
    BY <1>4, <2>3 DEF Boxed
  <2>5. b \in boxes
    BY <1>1, <2>1, <2>4
  <2> QED BY <2>1, <2>5
<1> QED BY <1>4, <1>6 DEF Painted

\* A redacted PDF from a map in use, made or found in the cache.
LEMMA RedactedHides ==
  ASSUME NEW d \in Doc, NEW map, FromText(d, map), NEW labels, Distinct(labels),
         NEW types, answer' = [kind |-> "redacted", doc |-> d, under |-> map.lists, map |-> map.lists, held |-> map.held,
                               types |-> types, hidden |-> Painted(d, map.boxes), labels |-> labels]
  PROVE  PdfsHide'
<1>1. Missed(d, map.lists, map.held) = {} /\ map.boxes = Boxed(d, map.lists, map.held).boxes
  BY DEF FromText
<1>2. \A x \in Tokenized(d, map.lists) : Locatable(d, x, map.held) => x \in Painted(d, map.boxes)
  BY <1>1, BoxesHide
<1> QED BY <1>1, <1>2 DEF PdfsHide, Distinct

\* A reveal: the boxes that are left out are of tokens of the types of the grant.
LEMMA RevealHides ==
  ASSUME NEW d \in Doc, NEW map, FromText(d, map), NEW labels, Distinct(labels),
         NEW types, NEW under,
         answer' = [kind |-> "reveal", doc |-> d, under |-> under, map |-> map.lists, held |-> map.held,
                    types |-> types, hidden |-> Painted(d, Omit(map.boxes, d, types)), labels |-> labels]
  PROVE  PdfsHide'
<1>1. Missed(d, map.lists, map.held) = {} /\ map.boxes = Boxed(d, map.lists, map.held).boxes
  BY DEF FromText
<1>2. ASSUME NEW x \in Tokenized(d, map.lists), Locatable(d, x, map.held), TypeOf[At(d, x)] \notin types
      PROVE  x \in Painted(d, Omit(map.boxes, d, types))
  <2>1. At(d, x) \in Spelling
    BY AtPlaces DEF Tokenized
  <2>2. Type(NormOf[At(d, x)]) \notin types
    BY <1>2, <2>1, TypesOfTokens
  <2>3. \A b \in Boxed(d, map.lists, map.held).boxes : b.token = NormOf[At(d, x)] => b \in Omit(map.boxes, d, types)
    BY <1>1, <2>2 DEF Omit, Resolved
  <2> QED BY <1>2, <2>3, BoxesHide
<1> QED BY <1>1, <1>2 DEF PdfsHide, Distinct

-----------------------------------------------------------------------------
(* Every step keeps the invariant. *)

\* Where a request or run goes, it carries what it should.
LEMMA JobGoes ==
  ASSUME RedactionInv, NEW w \in Worker, NEW j, Goes(w, j), JobOk(j)
  PROVE  Jobs'
<1>1. DOMAIN jobs = Worker /\ \A v \in Worker : JobOk(jobs[v])
  BY DEF RedactionInv, Jobs
<1>2. \A k : JobOk(k) => JobOk(k)'
  BY DEF JobOk, FromText
<1> QED BY <1>1, <1>2 DEF Goes, Jobs

\* Maps and the cache, when a step does not touch them; and no answer.
LEMMA Untouched ==
  ASSUME RedactionInv
  PROVE  /\ boxmaps' = boxmaps => Maps'
         /\ cache' = cache => Cache'
         /\ answer' = Nothing => PdfsHide'
<1>1. boxmaps' = boxmaps => Maps'
  BY DEF RedactionInv, Maps, FromText
<1>2. cache' = cache => Cache'
  BY DEF RedactionInv, Cache, Cached
<1>3. answer' = Nothing => PdfsHide'
  BY DEF PdfsHide, Nothing
<1> QED BY <1>1, <1>2, <1>3

\* A worker without a request carries nothing.
LEMMA IdleIsFine == JobOk(Idle)
  BY DEF JobOk, Idle

\* What begins carries the map as it is, or none.
LEMMA Begins ==
  ASSUME RedactionInv, NEW w \in Worker, NEW j, Starts(w, j), JobOk(j), UNCHANGED derived
  PROVE  RedactionInv'
  BY JobGoes, Untouched DEF Starts, derived, RedactionInv

\* Requests and runs that begin.
LEMMA BeginKeeps ==
  ASSUME RedactionInv, NEW w \in Worker,
         \/ \E d \in Doc : Anonymize(w, d) \/ AskRedacted(w, d)
         \/ \E d \in Doc, types \in SUBSET {TypeOf[s] : s \in Spelling} : AskReveal(w, d, types)
         \/ \E ids \in SUBSET Doc : Summarise(w, ids)
  PROVE  RedactionInv'
<1>1. ASSUME NEW d \in Doc, Anonymize(w, d) PROVE RedactionInv'
  <2>1. PICK j : j = [Idle EXCEPT !.pc = "anonymize", !.doc = d]
    OBVIOUS
  <2>2. JobOk(j)
    BY <2>1 DEF JobOk, Idle
  <2> QED BY <1>1, <2>1, <2>2, Begins DEF Anonymize, Starts
<1>2. ASSUME NEW d \in Doc, AskRedacted(w, d) PROVE RedactionInv'
  <2>1. PICK j : j = [Idle EXCEPT !.pc = "lists", !.doc = d, !.map = boxmaps[d]]
    OBVIOUS
  <2>2. FromText(d, boxmaps[d])
    BY <1>2 DEF RedactionInv, Maps, AskRedacted
  <2>3. JobOk(j)
    BY <2>1, <2>2 DEF JobOk, Idle
  <2> QED BY <1>2, <2>1, <2>3, Begins DEF AskRedacted, Starts
<1>3. ASSUME NEW d \in Doc, NEW types, AskReveal(w, d, types) PROVE RedactionInv'
  <2>1. PICK j : j = [Idle EXCEPT !.pc = "open", !.doc = d, !.map = boxmaps[d], !.types = types]
    OBVIOUS
  <2>2. FromText(d, boxmaps[d])
    BY <1>3 DEF RedactionInv, Maps, AskReveal
  <2>3. JobOk(j)
    BY <2>1, <2>2 DEF JobOk, Idle
  <2> QED BY <1>3, <2>1, <2>3, Begins DEF AskReveal, Starts
<1>4. ASSUME NEW ids \in SUBSET Doc, Summarise(w, ids) PROVE RedactionInv'
  <2>1. PICK j : j = [Idle EXCEPT !.pc = "summarise", !.ids = ids,
                                  !.had = {d \in ids : \E s \in summaries : s[1] = d}]
    OBVIOUS
  <2>2. JobOk(j)
    BY <2>1 DEF JobOk, Idle
  <2> QED BY <1>4, <2>1, <2>2, Begins DEF Summarise, Starts
<1> QED BY <1>1, <1>2, <1>3, <1>4

\* The text and its map: no map is stored in which a value is missed.
LEMMA StoreTextKeeps == ASSUME RedactionInv, NEW w \in Worker, StoreText(w) PROVE RedactionInv'
<1>1. PICK d : d = jobs[w].doc /\ d \in Doc
  BY DEF StoreText, RedactionInv, Jobs, JobOk
<1>2. PICK held : boxmaps' = [boxmaps EXCEPT ![d] = BoxMap(d, loaded, held, boxmaps[d])]
  BY <1>1 DEF StoreText
<1>3. cache' = cache /\ answer' = Nothing /\ Goes(w, Idle)
  BY DEF StoreText
<1>4. Maps'
  <2>1. DOMAIN boxmaps' = Doc
    BY <1>2 DEF RedactionInv, Maps
  <2>2. ASSUME NEW e \in Doc, boxmaps'[e].there PROVE FromText(e, boxmaps'[e])
    <3>1. CASE boxmaps'[e] = boxmaps[e]
      BY <2>2, <3>1 DEF RedactionInv, Maps
    <3>2. CASE boxmaps'[e] # boxmaps[e]
      <4>1. e = d /\ boxmaps'[e] = BoxMap(d, loaded, held, boxmaps[d])
        BY <1>2, <2>1, <3>2 DEF RedactionInv, Maps
      <4>2. Missed(d, loaded, held) = {} /\ boxmaps'[e] = Boxed(d, loaded, held)
        BY <3>2, <4>1 DEF BoxMap
      <4>3. Boxed(d, loaded, held).lists = loaded /\ Boxed(d, loaded, held).held = held
        BY DEF Boxed
      <4> QED BY <4>1, <4>2, <4>3 DEF FromText
    <3> QED BY <3>1, <3>2
  <2>3. ASSUME NEW e \in Doc, boxmaps'[e].there PROVE FromText(e, boxmaps[e])'
    BY <2>2, <2>3 DEF FromText
  <2> QED BY <2>1, <2>3 DEF Maps
<1> QED BY <1>3, <1>4, JobGoes, IdleIsFine, Untouched DEF RedactionInv

\* What is served was compared with the lists in force.
LEMMA CompareListsKeeps == ASSUME RedactionInv, NEW w \in Worker, CompareLists(w) PROVE RedactionInv'
<1>1. PICK j : j = jobs[w]
  OBVIOUS
<1>2. JobOk(j) /\ j.pc = "lists"
  BY <1>1 DEF RedactionInv, Jobs, CompareLists
<1>3. PICK k : k = [j EXCEPT !.pc = "serve", !.under = lists]
  OBVIOUS
<1>4. k.pc = "serve" /\ k.under = lists /\ k.doc = j.doc /\ k.map = j.map /\ DOMAIN k = DOMAIN j
  BY <1>2, <1>3 DEF JobOk, Idle
<1>5. ~IsStale(j.map) => JobOk(k)
  BY <1>2, <1>4 DEF JobOk, IsStale
<1>6. Jobs'
  BY <1>1, <1>3, <1>5, JobGoes, IdleIsFine DEF CompareLists, Steps
<1> QED BY <1>6, Untouched DEF CompareLists, derived, Steps, RedactionInv

\* The PDF of a request is that of its map, from the cache or not.
LEMMA ServeKeeps == ASSUME RedactionInv, NEW w \in Worker, Serve(w) PROVE RedactionInv'
<1>1. PICK j : j = jobs[w]
  OBVIOUS
<1>2. JobOk(j) /\ j.pc = "serve" /\ j.doc \in Doc /\ FromText(j.doc, j.map) /\ j.under = j.map.lists
  BY <1>1 DEF RedactionInv, Jobs, JobOk, Serve
<1>3. boxmaps' = boxmaps /\ Goes(w, Idle)
  BY DEF Serve, Steps
<1>4. PICK legend : legend = IF texts[j.doc] = "none" THEN <<>> ELSE Legible(j.doc, texts[j.doc])
  OBVIOUS
<1>5. PICK made : made = Render(j.doc, j.map.boxes, legend)
  OBVIOUS
<1>6. made.hidden = Painted(j.doc, j.map.boxes) /\ Distinct(made.labels)
  <2>1. made.hidden = Painted(j.doc, j.map.boxes)
    BY <1>5 DEF Render
  <2>2. Distinct(made.labels)
    BY <1>2, <1>4, <1>5, LabelsDiffer
  <2> QED BY <2>1, <2>2
<1>7. ASSUME NEW pdf, Pdf(w, "redacted", pdf), pdf.hidden = Painted(j.doc, j.map.boxes), Distinct(pdf.labels)
      PROVE  PdfsHide'
  <2>1. answer' = [kind |-> "redacted", doc |-> j.doc, under |-> j.map.lists, map |-> j.map.lists, held |-> j.map.held,
                   types |-> j.types, hidden |-> Painted(j.doc, j.map.boxes), labels |-> pdf.labels]
    BY <1>1, <1>2, <1>7 DEF Pdf
  <2> QED BY <1>2, <1>3, <1>7, <2>1, RedactedHides
<1>8. CASE \E c \in cache : c.key = CacheKey(j.doc, j.map) /\ Pdf(w, "redacted", c.pdf) /\ UNCHANGED cache
  <2>1. PICK c \in cache : c.key = CacheKey(j.doc, j.map) /\ Pdf(w, "redacted", c.pdf) /\ UNCHANGED cache
    BY <1>8
  <2>2. c.pdf.hidden = Painted(j.doc, j.map.boxes) /\ Distinct(c.pdf.labels)
    BY <2>1 DEF RedactionInv, Cache, Cached, CacheKey
  <2> QED BY <1>3, <1>7, <2>1, <2>2, JobGoes, IdleIsFine, Untouched DEF RedactionInv
<1>9. CASE answer' = Nothing /\ UNCHANGED cache
  BY <1>3, <1>9, JobGoes, IdleIsFine, Untouched DEF RedactionInv
<1>10. CASE Pdf(w, "redacted", made) /\ cache' = cache \cup {[key |-> CacheKey(j.doc, j.map), pdf |-> made]}
  <2>1. PICK c : c = [key |-> CacheKey(j.doc, j.map), pdf |-> made]
    OBVIOUS
  <2>2. c.key = <<j.doc, j.map.boxes>> /\ c.pdf = made
    BY <2>1 DEF CacheKey
  <2>3. Cached(c)
    BY <1>2, <1>6, <2>2 DEF Cached
  <2>4. Cache'
    BY <1>10, <2>1, <2>3 DEF RedactionInv, Cache, Cached
  <2>5. PdfsHide'
    BY <1>6, <1>7, <1>10
  <2> QED BY <1>3, <2>4, <2>5, JobGoes, IdleIsFine, Untouched DEF RedactionInv
<1> QED
  <2>1. \/ \E c \in cache : c.key = CacheKey(j.doc, j.map) /\ Pdf(w, "redacted", c.pdf) /\ UNCHANGED cache
        \/ answer' = Nothing /\ UNCHANGED cache
        \/ Pdf(w, "redacted", made) /\ cache' = cache \cup {[key |-> CacheKey(j.doc, j.map), pdf |-> made]}
    BY <1>1, <1>4, <1>5 DEF Serve
  <2> QED BY <1>8, <1>9, <1>10, <2>1

\* A revealed PDF is made from the map the request carries.
LEMMA ServeRevealKeeps == ASSUME RedactionInv, NEW w \in Worker, ServeReveal(w) PROVE RedactionInv'
<1>1. PICK j : j = jobs[w]
  OBVIOUS
<1>2. j.doc \in Doc /\ FromText(j.doc, j.map)
  BY <1>1 DEF RedactionInv, Jobs, JobOk, ServeReveal
<1>3. boxmaps' = boxmaps /\ cache' = cache /\ Goes(w, Idle)
  BY DEF ServeReveal, Steps, derived
<1>4. PICK made : made = Render(j.doc, Omit(j.map.boxes, j.doc, j.types), Legible(j.doc, texts[j.doc]))
  OBVIOUS
<1>5. made.hidden = Painted(j.doc, Omit(j.map.boxes, j.doc, j.types)) /\ Distinct(made.labels)
  <2>1. made.hidden = Painted(j.doc, Omit(j.map.boxes, j.doc, j.types))
    BY <1>4 DEF Render
  <2>2. Distinct(made.labels)
    BY <1>2, <1>4, LabelsDiffer
  <2> QED BY <2>1, <2>2
<1>6. CASE answer' = Nothing
  BY <1>3, <1>6, JobGoes, IdleIsFine, Untouched DEF RedactionInv
<1>7. CASE Pdf(w, "reveal", made)
  <2>1. answer' = [kind |-> "reveal", doc |-> j.doc, under |-> j.under, map |-> j.map.lists, held |-> j.map.held,
                   types |-> j.types, hidden |-> Painted(j.doc, Omit(j.map.boxes, j.doc, j.types)), labels |-> made.labels]
    BY <1>1, <1>5, <1>7 DEF Pdf
  <2>2. PdfsHide'
    BY <1>2, <1>3, <1>5, <2>1, RevealHides
  <2> QED BY <1>3, <2>2, JobGoes, IdleIsFine, Untouched DEF RedactionInv
<1> QED BY <1>1, <1>4, <1>6, <1>7 DEF ServeReveal

\* Summaries touch nothing of it.
LEMMA SummariesKeep ==
  ASSUME RedactionInv, NEW w \in Worker, NextSummary(w) \/ Bewaar(w) \/ EndSummaries(w)
  PROVE  RedactionInv'
<1>1. JobOk(jobs[w])
  BY DEF RedactionInv, Jobs
<1>2. PICK j : j = jobs[w]
  OBVIOUS
<1>3. \E k : Goes(w, k) /\ JobOk(k)
  <2>1. CASE NextSummary(w)
    <3>1. PICK d : \/ Goes(w, [j EXCEPT !.ids = @ \ {d}])
                   \/ Goes(w, [j EXCEPT !.pc = "bewaar", !.doc = d, !.under = texts[d]])
      BY <1>2, <2>1 DEF NextSummary
    <3>2. PICK k : k = [j EXCEPT !.ids = @ \ {d}]
      OBVIOUS
    <3>3. PICK l : l = [j EXCEPT !.pc = "bewaar", !.doc = d, !.under = texts[d]]
      OBVIOUS
    <3>4. j.pc = "summarise"
      BY <1>2, <2>1 DEF NextSummary
    <3>5. JobOk(k) /\ JobOk(l)
      BY <1>1, <1>2, <3>2, <3>3, <3>4 DEF JobOk, Idle
    <3> QED BY <3>1, <3>2, <3>3, <3>5
  <2>2. CASE Bewaar(w)
    <3>1. PICK k : k = [j EXCEPT !.pc = "summarise", !.made = @ \cup {j.doc}]
      OBVIOUS
    <3>2. JobOk(k)
      BY <1>1, <1>2, <3>1 DEF JobOk, Idle
    <3> QED BY <1>2, <2>2, <3>1, <3>2 DEF Bewaar
  <2>3. CASE EndSummaries(w)
    BY <2>3, IdleIsFine DEF EndSummaries
  <2> QED BY <2>1, <2>2, <2>3
<1>4. boxmaps' = boxmaps /\ cache' = cache /\ answer' = Nothing
  BY DEF NextSummary, Bewaar, EndSummaries, derived, Steps
<1> QED BY <1>3, <1>4, JobGoes, Untouched DEF RedactionInv

\* Nor do a deletion, new lists and a restart.
LEMMA AroundKeeps ==
  ASSUME RedactionInv, (\E d \in Doc : Delete(d)) \/ (\E h \in Hash : Deploy(h)) \/ Restart
  PROVE  RedactionInv'
<1>1. boxmaps' = boxmaps /\ cache' = cache /\ answer' = Nothing
  BY DEF Delete, Deploy, Restart, derived
<1>2. jobs' = jobs \/ jobs' = [w \in Worker |-> Idle]
  BY DEF Delete, Deploy, Restart
<1>3. \A k : JobOk(k) => JobOk(k)'
  BY DEF JobOk, FromText
<1>4. Jobs'
  BY <1>2, <1>3, IdleIsFine DEF RedactionInv, Jobs
<1> QED BY <1>1, <1>4, Untouched DEF RedactionInv

\* Nothing changes.
LEMMA NothingKeeps == RedactionInv /\ UNCHANGED vars => RedactionInv'
<1> SUFFICES ASSUME RedactionInv, UNCHANGED vars PROVE RedactionInv'
  OBVIOUS
<1>1. UNCHANGED <<boxmaps, cache, jobs, answer>>
  BY DEF vars
<1>2. \A k : JobOk(k) => JobOk(k)'
  BY DEF JobOk, FromText
<1>3. Jobs'
  BY <1>1, <1>2 DEF RedactionInv, Jobs
<1>4. PdfsHide'
  BY <1>1 DEF RedactionInv, PdfsHide
<1> QED BY <1>1, <1>3, <1>4, Untouched DEF RedactionInv

\* At first nothing is derived.
LEMMA RedactionStarts == Init => RedactionInv
<1> SUFFICES ASSUME Init PROVE RedactionInv
  OBVIOUS
<1>1. Maps
  BY DEF Init, Maps, NoMap
<1>2. Jobs
  BY IdleIsFine DEF Init, Jobs
<1>3. Cache /\ PdfsHide
  BY DEF Init, Cache, PdfsHide, Nothing
<1> QED BY <1>1, <1>2, <1>3 DEF RedactionInv

\* Together.
LEMMA RedactionInvariant == Spec => []RedactionInv
<1>1. RedactionInv /\ [Next]_vars => RedactionInv'
  <2> SUFFICES ASSUME RedactionInv, Next PROVE RedactionInv'
    BY NothingKeeps
  <2>1. ASSUME NEW w \in Worker, StoreText(w) \/ CompareLists(w) \/ Serve(w) \/ ServeReveal(w) PROVE RedactionInv'
    BY <2>1, StoreTextKeeps, CompareListsKeeps, ServeKeeps, ServeRevealKeeps
  <2>2. ASSUME NEW w \in Worker, NextSummary(w) \/ Bewaar(w) \/ EndSummaries(w) PROVE RedactionInv'
    BY <2>2, SummariesKeep
  <2>3. ASSUME NEW w \in Worker,
               \/ \E d \in Doc : Anonymize(w, d) \/ AskRedacted(w, d)
               \/ \E d \in Doc, types \in SUBSET {TypeOf[s] : s \in Spelling} : AskReveal(w, d, types)
               \/ \E ids \in SUBSET Doc : Summarise(w, ids)
        PROVE  RedactionInv'
    BY <2>3, BeginKeeps
  <2>4. CASE (\E d \in Doc : Delete(d)) \/ (\E h \in Hash : Deploy(h)) \/ Restart
    BY <2>4, AroundKeeps
  <2> QED BY <2>1, <2>2, <2>3, <2>4 DEF Next
<1> QED BY <1>1, RedactionStarts, PTL DEF Spec

\* A PDF hides what the lists in force find (PdfsHide), although the lists change
\* between the computation of a map and a request, the cache outlives both,
\* mappings go, documents are deleted and processes restart: for any pages,
\* spellings and lists.  A place whose token had no mapping when the map was made,
\* or whose one spelling the pattern does not find there, is outside of it.
THEOREM PdfsAlwaysHide == Spec => []PdfsHide
<1>1. RedactionInv => PdfsHide
  BY DEF RedactionInv
<1> QED BY <1>1, RedactionInvariant, PTL

-----------------------------------------------------------------------------
(* Batches: the archive only grows, and a client knows of its files what   *)
(* the requests it waited for did with them.                               *)

\* States of a document, and what a client is told of a file.
States  == {"none", "registered", "extractable", "indexed", "unprocessable_ocr", "failed", "superseded"}
Replies == States \cup {"skipped", "added_to_dossier", "error", "retryable"}
\* The replies a client counts as delivered.
Counted == {"indexed", "skipped"}

\* A document that did not give way to another.
Live(d) == archive[d].state \notin {"none", "superseded"}

\* A document of these bytes or of their OCR; with the dossier of a request, unless superseded.
Holds(d, k) == archive[d].key = k \/ (KindOf[k] = "scan" /\ archive[d].key = OcrOf[k])
HasCase(d, case) == archive[d].state # "none" /\ (archive[d].state # "superseded" => case \in archive[d].cases)
Working(d, k, case) == d \in DocId /\ Holds(d, k) /\ HasCase(d, case)

\* Documents: no two live ones hold the same bytes, and what is found is never
\* a scan, so that it does not give way to another.
Documents ==
  /\ DOMAIN archive = DocId /\ found \subseteq DocId /\ disk \in [File -> Bytes]
  /\ \A d \in DocId : DOMAIN archive[d] = DOMAIN Unused /\ archive[d].state \in States
  /\ \A d \in DocId : archive[d].state # "none" => archive[d].key \in Bytes
  /\ \A d \in DocId : archive[d].state = "unprocessable_ocr" => KindOf[archive[d].key] = "scan"
  /\ \A d \in DocId : archive[d].state = "indexed" => d \in found
  /\ \A d \in found : Live(d) /\ KindOf[archive[d].key] = "digital"
  /\ \A d, e \in DocId : Live(d) /\ Live(e) /\ archive[d].key = archive[e].key => d = e

\* A request, and the client that waits for it.
HandlerOk(h) ==
  LET r == handlers[h] IN
  /\ DOMAIN r = DOMAIN Free /\ r.todo \in Seq(Bytes) /\ r.results \in Seq(Replies)
  /\ r.caller \in Uploader \cup {"none"}
  /\ r.pc = "free" => r = Free
  /\ r.pc = "200" => r.todo = <<>>
  /\ r.pc \in AtWork => r.todo # <<>>
  /\ r.pc = "add" => \E d \in found : archive[d].key = Head(r.todo)
  /\ r.pc \in {"process", "recover"} => Working(r.doc, Head(r.todo), r.case)
\* What a request did and has still to do is what its client sent, and counted files are found.
Awaited(h) ==
  LET r == handlers[h]  u == uploads[r.caller] IN
  r.caller # "none" =>
    /\ u.pc = "wait" /\ u.case = r.case /\ Len(r.results) + Len(r.todo) = Len(u.sent)
    /\ \A i \in 1 .. Len(r.todo) : r.todo[i] = u.sent[Len(r.results) + i]
    /\ \A i \in 1 .. Len(r.results) : r.results[i] \in Counted => Delivered(u.sent[i], r.case)
\* Every request, and no client waits for two.
Requests ==
  /\ DOMAIN handlers = Handler
  /\ \A h \in Handler : HandlerOk(h) /\ Awaited(h)
  /\ \A g, h \in Handler : handlers[g].caller = handlers[h].caller /\ g # h => handlers[g].caller = "none"

\* A client has counted what it is past, and knows what it counted is found.
UploadOk(u) ==
  /\ DOMAIN u = DOMAIN Silent /\ u.files \in Seq(File) /\ u.sent \in Seq(Bytes)
  /\ u.at \in 1 .. Len(u.files) + 1
  /\ u.indexed \in Nat /\ u.skipped \in Nat /\ u.failures \in Nat
  /\ u.indexed + u.skipped + u.failures = u.at - 1
  /\ u.pc = "done" => u.at = Len(u.files) + 1
  /\ u.pc = "wait" => Len(u.sent) = Len(Chunk(u))
Clients ==
  /\ DOMAIN uploads = Uploader
  /\ \A c \in Uploader : /\ UploadOk(uploads[c])
                         /\ \A k \in uploads[c].good : Delivered(k, uploads[c].case)

\* A directory run.
Running == job.pc \in {"next", "process", "recover", "tell"}
\* What an outcome says of its document is so.
IsTrue(o) ==
  /\ o.doc \in found /\ job.case \in archive[o.doc].cases
  /\ job.kind = "manifest" => /\ archive[o.doc].state = "indexed"
                              /\ Holds(o.doc, job.manifest[o.file].sha)
                              /\ archive[o.doc].source = job.manifest[o.file].url
\* A manifest run hashed what it read, and works on a document of that content.
Runs ==
  /\ DOMAIN job = DOMAIN NoJob /\ job.todo \subseteq File
  /\ Running /\ job.kind = "manifest" =>
       \A f \in File : job.manifest[f].sha \in Bytes /\ job.contents[f] = job.manifest[f].sha
  /\ job.pc \in {"process", "recover"} =>
       /\ job.doc \in DocId /\ HasCase(job.doc, job.case) /\ job.file \in File
       /\ job.kind = "manifest" => Holds(job.doc, job.manifest[job.file].sha)
  /\ \A o \in job.outcomes : o.ok => IsTrue(o)

\* All of it.
BatchesInv == Documents /\ Requests /\ Clients /\ Runs

-----------------------------------------------------------------------------
(* Documents. *)

\* What no step takes back: what is found, what a document holds, where it
\* comes from, and its dossiers until it gives way to another.
Grows ==
  /\ found \subseteq found'
  /\ \A d \in found : archive'[d].key = archive[d].key /\ archive[d].cases \subseteq archive'[d].cases
  /\ \A d \in DocId : archive[d].state # "none" =>
       /\ archive'[d].state # "none" /\ archive'[d].source = archive[d].source
       /\ archive[d].state = "indexed" => archive'[d].state = "indexed"
  /\ \A d \in DocId, k \in Bytes : archive[d].state # "none" /\ Holds(d, k) => Holds(d, k)'
  /\ \A d \in DocId : \A case : HasCase(d, case) => HasCase(d, case)'

\* A document that gets a number has none yet.
LEMMA FreshIsFree ==
  ASSUME NEW e \in DocId, archive[e].state = "none"
  PROVE  archive[Fresh].state = "none" /\ Fresh \in DocId
<1>1. PICK D : D = {d \in DocId : archive[d].state = "none"}
  OBVIOUS
<1>2. D \subseteq Nat /\ D # {} /\ \A d \in D : d \in DocId
  BY <1>1, BatchesAssumption DEF DocId
<1>3. PICK d \in D : \A x \in D : ~ (<<x, d>> \in OpToRel(<, Nat))
  BY <1>2, NatLessThanWellFounded, WFMin
<1>4. \A x \in D : d <= x
  <2> SUFFICES ASSUME NEW x \in D PROVE d <= x
    OBVIOUS
  <2>1. <<x, d>> \in Nat \X Nat /\ x \in Nat /\ d \in Nat
    BY <1>2
  <2>2. ~ (x < d)
    BY <1>3, <2>1 DEF OpToRel
  <2> QED BY <2>1, <2>2
<1>5. d \in DocId /\ archive[d].state = "none" /\ \A x \in DocId : archive[x].state = "none" => d <= x
  BY <1>1, <1>4
<1> QED BY <1>5 DEF Fresh

\* A live document gets a dossier.
LEMMA CaseAdded ==
  ASSUME Documents, NEW d \in DocId, Live(d), NEW case,
         archive' = [archive EXCEPT ![d].cases = @ \cup {case}],
         found' = found, disk' \in [File -> Bytes]
  PROVE  Documents' /\ Grows /\ HasCase(d, case)'
<1>1. DOMAIN archive' = DocId /\ \A e \in DocId :
        /\ DOMAIN archive'[e] = DOMAIN Unused
        /\ archive'[e].key = archive[e].key /\ archive'[e].state = archive[e].state
        /\ archive'[e].source = archive[e].source /\ archive[e].cases \subseteq archive'[e].cases
  <2>1. DOMAIN archive = DocId /\ \A e \in DocId : DOMAIN archive[e] = DOMAIN Unused
    BY DEF Documents
  <2>2. DOMAIN archive' = DocId /\ archive'[d] = [archive[d] EXCEPT !.cases = @ \cup {case}]
        /\ \A e \in DocId : e # d => archive'[e] = archive[e]
    BY <2>1
  <2>3. archive'[d].key = archive[d].key /\ archive'[d].state = archive[d].state
        /\ archive'[d].source = archive[d].source /\ archive'[d].cases = archive[d].cases \cup {case}
        /\ DOMAIN archive'[d] = DOMAIN Unused
    BY <2>1, <2>2 DEF Unused
  <2> QED BY <2>1, <2>2, <2>3
<1>2. case \in archive'[d].cases
  BY DEF Documents, Unused
<1>3. Documents'
  BY <1>1 DEF Documents, Live
<1>4. Grows
  BY <1>1 DEF Grows, Documents, Holds, HasCase
<1> QED BY <1>1, <1>2, <1>3, <1>4 DEF HasCase, Live

\* Registration: the live document of the bytes, or a new one.
LEMMA RegistersOne ==
  ASSUME Documents, NEW k \in Bytes, NEW case, NEW url, NEW d \in DocId, Registers(k, case, url, d),
         found' = found, disk' \in [File -> Bytes]
  PROVE  Documents' /\ Grows /\ Working(d, k, case)'
<1>1. CASE LiveWith(k) # {}
  <2>1. d \in LiveWith(k) /\ archive' = [archive EXCEPT ![d].cases = @ \cup {case}]
    BY <1>1 DEF Registers
  <2>2. Live(d) /\ archive[d].key = k
    BY <2>1 DEF LiveWith, Live
  <2>3. Documents' /\ Grows /\ HasCase(d, case)'
    BY <2>1, <2>2, CaseAdded
  <2>4. archive'[d].key = k
    BY <2>1, <2>2 DEF Documents, Unused
  <2> QED BY <2>3, <2>4 DEF Working, Holds
<1>2. CASE LiveWith(k) = {}
  <2>1. PICK r : r = [key |-> k, state |-> "registered", source |-> url, cases |-> {case}]
    OBVIOUS
  <2>2. archive' = [archive EXCEPT ![d] = r]
    BY <1>2, <2>1 DEF Registers
  <2>3. archive[d].state = "none"
    <3>1. PICK e \in DocId : archive[e] = Unused
      BY <1>2 DEF Registers
    <3>2. archive[e].state = "none"
      BY <3>1 DEF Unused
    <3> QED BY <1>2, <3>2, FreshIsFree DEF Registers
  <2>4. \A e \in DocId : Live(e) => archive[e].key # k
    BY <1>2 DEF LiveWith, Live
  <2>5. DOMAIN archive' = DocId /\ archive'[d] = r /\ \A e \in DocId : e # d => archive'[e] = archive[e]
    BY <2>2 DEF Documents
  <2>6. DOMAIN r = DOMAIN Unused /\ r.state = "registered" /\ r.key = k /\ r.cases = {case}
    BY <2>1 DEF Unused
  <2>7. d \notin found
    BY <2>3 DEF Documents, Live
  <2>8. Documents'
    <3>1. \A e \in DocId : /\ DOMAIN archive'[e] = DOMAIN Unused /\ archive'[e].state \in States
                           /\ archive'[e].state # "none" => archive'[e].key \in Bytes
                           /\ archive'[e].state = "unprocessable_ocr" => KindOf[archive'[e].key] = "scan"
                           /\ archive'[e].state = "indexed" => e \in found
      BY <2>5, <2>6 DEF Documents, States
    <3>2. \A e \in found : Live(e)' /\ KindOf[archive'[e].key] = "digital"
      BY <2>5, <2>7 DEF Documents, Live
    <3>3. \A e, f \in DocId : Live(e)' /\ Live(f)' /\ archive'[e].key = archive'[f].key => e = f
      BY <2>4, <2>5, <2>6 DEF Documents, Live
    <3> QED BY <2>5, <3>1, <3>2, <3>3 DEF Documents
  <2>9. Grows
    BY <2>3, <2>5, <2>7 DEF Grows, Documents, Holds, HasCase
  <2> QED BY <2>5, <2>6, <2>8, <2>9 DEF Working, Holds, HasCase
<1> QED BY <1>1, <1>2

\* Processing, whole or broken off.
LEMMA ProcessesOne ==
  ASSUME Documents, NEW d \in DocId, Processes(d) \/ ProcessBreaks(d), disk' \in [File -> Bytes]
  PROVE  Documents' /\ Grows /\ archive'[d].source = archive[d].source
         /\ archive'[d].key = archive[d].key /\ archive'[d].cases = archive[d].cases
         /\ (Processes(d) => archive'[d].state = After(d))
<1>1. /\ DOMAIN archive' = DocId /\ \A e \in DocId : e # d => archive'[e] = archive[e]
      /\ archive'[d].state \in {archive[d].state, After(d)} /\ archive'[d].key = archive[d].key
      /\ archive'[d].source = archive[d].source /\ archive'[d].cases = archive[d].cases
      /\ DOMAIN archive'[d] = DOMAIN Unused
      /\ (Processes(d) => archive'[d].state = After(d))
      /\ (ProcessBreaks(d) => archive'[d].state = archive[d].state)
  <2>1. CASE Processes(d)
    <3>1. archive' = [archive EXCEPT ![d].state = After(d)]
      BY <2>1 DEF Processes
    <3>2. archive'[d] = [archive[d] EXCEPT !.state = After(d)] /\ DOMAIN archive' = DocId
          /\ \A e \in DocId : e # d => archive'[e] = archive[e]
      BY <3>1 DEF Documents
    <3>3. "state" \in DOMAIN archive[d] /\ DOMAIN archive[d] = DOMAIN Unused
      BY DEF Documents, Unused
    <3>4. archive'[d].state = After(d) /\ archive'[d].key = archive[d].key /\ archive'[d].source = archive[d].source
          /\ archive'[d].cases = archive[d].cases /\ DOMAIN archive'[d] = DOMAIN Unused
      BY <3>2, <3>3
    <3>5. ProcessBreaks(d) => archive'[d].state = archive[d].state
      BY DEF ProcessBreaks
    <3> QED BY <3>2, <3>4, <3>5
  <2>2. CASE ~Processes(d)
    BY <2>2 DEF ProcessBreaks, Documents
  <2> QED BY <2>1, <2>2
<1>2. \/ After(d) = archive[d].state
      \/ /\ archive[d].state \in {"registered", "extractable"} /\ After(d) \in {"indexed", "unprocessable_ocr", "failed"}
         /\ After(d) = "indexed" => KindOf[archive[d].key] = "digital"
         /\ After(d) = "unprocessable_ocr" => KindOf[archive[d].key] = "scan"
  BY DEF After
<1>3. found' = found \/ (found' = found \cup {d} /\ After(d) = "indexed")
  BY DEF Processes, ProcessBreaks, Indexes
<1>4. Processes(d) /\ After(d) = "indexed" => d \in found'
  BY DEF Processes, Indexes, Documents
<1>5. After(d) = "indexed" => Live(d) /\ KindOf[archive[d].key] = "digital"
  BY <1>2 DEF Documents, Live
<1>6. archive'[d].state = "indexed" => d \in found'
  <2>1. CASE archive[d].state = "indexed"
    BY <1>3, <2>1 DEF Documents
  <2>2. CASE archive[d].state # "indexed"
    BY <1>1, <1>4, <2>2
  <2> QED BY <2>1, <2>2
<1>7. (archive'[d].state = "none" <=> archive[d].state = "none")
      /\ (archive'[d].state = "superseded" <=> archive[d].state = "superseded") /\ archive'[d].state \in States
      /\ (archive[d].state = "indexed" => archive'[d].state = "indexed")
  BY <1>1, <1>2 DEF Documents, States
<1>8. Documents'
  <2>1. found' \subseteq DocId
    BY <1>3 DEF Documents
  <2>2. \A e \in DocId : /\ DOMAIN archive'[e] = DOMAIN Unused /\ archive'[e].state \in States
                         /\ archive'[e].state # "none" => archive'[e].key \in Bytes
                         /\ archive'[e].state = "indexed" => e \in found'
    BY <1>1, <1>3, <1>6, <1>7 DEF Documents
  <2>3. \A e \in DocId : archive'[e].state = "unprocessable_ocr" => KindOf[archive'[e].key] = "scan"
    BY <1>1, <1>2 DEF Documents
  <2>4. \A e \in DocId : Live(e)' <=> Live(e)
    BY <1>1, <1>7 DEF Live
  <2>5. \A e \in found' : Live(e)' /\ KindOf[archive'[e].key] = "digital"
    BY <1>1, <1>3, <1>5, <2>1, <2>4 DEF Documents
  <2>6. \A e, f \in DocId : Live(e)' /\ Live(f)' /\ archive'[e].key = archive'[f].key => e = f
    BY <1>1, <2>4 DEF Documents
  <2> QED BY <1>1, <2>1, <2>2, <2>3, <2>5, <2>6 DEF Documents
<1>9. Grows
  <2>1. \A e \in DocId : archive'[e].key = archive[e].key /\ archive'[e].cases = archive[e].cases
                         /\ archive'[e].source = archive[e].source
    BY <1>1
  <2>2. \A e \in DocId : /\ (archive'[e].state = "none" <=> archive[e].state = "none")
                         /\ (archive'[e].state = "superseded" <=> archive[e].state = "superseded")
                         /\ (archive[e].state = "indexed" => archive'[e].state = "indexed")
    BY <1>1, <1>7
  <2> QED BY <1>3, <2>1, <2>2 DEF Grows, Documents, Holds, HasCase
<1> QED BY <1>1, <1>8, <1>9

\* Recovery: only a scan, which nothing finds yet, changes its bytes or goes.
LEMMA RecoversOne ==
  ASSUME Documents, NEW d \in DocId, archive[d].state = "unprocessable_ocr",
         Rekeys(d) \/ \E owner \in LiveWith(OcrOf[archive[d].key]) : Gives(d, owner),
         found' = found, disk' \in [File -> Bytes]
  PROVE  Documents' /\ Grows
<1>1. PICK k : k = OcrOf[archive[d].key]
  OBVIOUS
<1>2. /\ archive[d].key \in Bytes /\ KindOf[archive[d].key] = "scan" /\ d \notin found
      /\ k \in Bytes /\ KindOf[k] = "digital"
  BY <1>1, BatchesAssumption DEF Documents
<1>3. CASE Rekeys(d)
  <2>1. archive' = [archive EXCEPT ![d].key = OcrOf[@], ![d].state = "extractable"] /\ LiveWith(k) = {}
    BY <1>1, <1>3 DEF Rekeys
  <2>2. DOMAIN archive' = DocId /\ \A e \in DocId : e # d => archive'[e] = archive[e]
    BY <2>1 DEF Documents
  <2>3. archive'[d].key = k /\ archive'[d].state = "extractable" /\ archive'[d].source = archive[d].source
        /\ archive'[d].cases = archive[d].cases /\ DOMAIN archive'[d] = DOMAIN Unused
    BY <1>1, <2>1 DEF Documents, Unused
  <2>4. \A e \in DocId : Live(e) => archive[e].key # k
    BY <2>1 DEF LiveWith, Live
  <2>5. Documents'
    <3>1. \A e \in DocId : /\ DOMAIN archive'[e] = DOMAIN Unused /\ archive'[e].state \in States
                           /\ archive'[e].state # "none" => archive'[e].key \in Bytes
                           /\ archive'[e].state = "unprocessable_ocr" => KindOf[archive'[e].key] = "scan"
                           /\ archive'[e].state = "indexed" => e \in found
      BY <1>2, <2>2, <2>3 DEF Documents, States
    <3>2. \A e \in found : Live(e)' /\ KindOf[archive'[e].key] = "digital"
      BY <1>2, <2>2 DEF Documents, Live
    <3>3. \A e, f \in DocId : Live(e)' /\ Live(f)' /\ archive'[e].key = archive'[f].key => e = f
      BY <2>2, <2>3, <2>4 DEF Documents, Live
    <3> QED BY <2>2, <3>1, <3>2, <3>3 DEF Documents
  <2>6. \A l \in Bytes : Holds(d, l) => Holds(d, l)'
    <3> SUFFICES ASSUME NEW l \in Bytes, Holds(d, l) PROVE Holds(d, l)'
      OBVIOUS
    <3>1. archive[d].key = l
      BY <1>2, BatchesAssumption DEF Holds
    <3> QED BY <1>1, <1>2, <2>3, <3>1 DEF Holds
  <2> QED BY <1>2, <2>2, <2>3, <2>5, <2>6 DEF Grows, Documents, Holds, HasCase
<1>4. CASE \E owner \in LiveWith(k) : Gives(d, owner)
  <2>1. PICK o \in LiveWith(k) : archive' = [archive EXCEPT ![o].cases = @ \cup archive[d].cases,
                                                            ![d].cases = {}, ![d].state = "superseded"]
    BY <1>4 DEF Gives
  <2>2. o \in DocId /\ o # d /\ Live(o)
    BY <1>2 DEF LiveWith, Live
  <2>3. DOMAIN archive' = DocId /\ \A e \in DocId : e # d /\ e # o => archive'[e] = archive[e]
    BY <2>1, <2>2 DEF Documents
  <2>4. archive'[o] = [archive[o] EXCEPT !.cases = @ \cup archive[d].cases]
        /\ archive'[d] = [[archive[d] EXCEPT !.cases = {}] EXCEPT !.state = "superseded"]
    BY <2>1, <2>2 DEF Documents
  <2>5. archive'[o].key = archive[o].key /\ archive'[o].state = archive[o].state /\ DOMAIN archive'[o] = DOMAIN Unused
        /\ archive'[o].source = archive[o].source /\ archive[o].cases \subseteq archive'[o].cases
    BY <2>2, <2>4 DEF Documents, Unused
  <2>6. archive'[d].key = archive[d].key /\ archive'[d].state = "superseded" /\ DOMAIN archive'[d] = DOMAIN Unused
        /\ archive'[d].source = archive[d].source
    BY <2>4 DEF Documents, Unused
  <2>7. \A e \in DocId : /\ archive'[e].key = archive[e].key /\ archive'[e].source = archive[e].source
                         /\ DOMAIN archive'[e] = DOMAIN Unused
                         /\ e # d => /\ archive'[e].state = archive[e].state
                                      /\ archive[e].cases \subseteq archive'[e].cases
    BY <2>3, <2>5, <2>6 DEF Documents
  <2>8. Documents'
    BY <1>2, <2>3, <2>6, <2>7 DEF Documents, Live, States
  <2>9. Grows
    BY <1>2, <2>6, <2>7 DEF Grows, Documents, Holds, HasCase
  <2> QED BY <2>8, <2>9
<1> QED BY <1>1, <1>3, <1>4

\* Nothing happens to documents.
LEMMA NoneChanges ==
  ASSUME Documents, UNCHANGED <<archive, found>>, disk' \in [File -> Bytes]
  PROVE  Documents' /\ Grows
  BY DEF Documents, Grows, Live, Holds, HasCase

-----------------------------------------------------------------------------
(* Lists of contents and of results. *)

\* One file from the list to the results.
LEMMA OneFileOn ==
  ASSUME NEW t \in Seq(Bytes), t # <<>>, NEW rs \in Seq(Replies), NEW a \in Replies, NEW s \in Seq(Bytes),
         Len(rs) + Len(t) = Len(s), \A i \in 1 .. Len(t) : t[i] = s[Len(rs) + i]
  PROVE  /\ Len(Append(rs, a)) + Len(Tail(t)) = Len(s)
         /\ \A i \in 1 .. Len(Tail(t)) : Tail(t)[i] = s[Len(Append(rs, a)) + i]
         /\ Head(t) = s[Len(rs) + 1] /\ Len(rs) + 1 \in 1 .. Len(Append(rs, a))
         /\ \A i \in 1 .. Len(Append(rs, a)) : i = Len(rs) + 1 \/ (i \in 1 .. Len(rs) /\ Append(rs, a)[i] = rs[i])
         /\ Append(rs, a)[Len(rs) + 1] = a
<1>1. Len(Tail(t)) = Len(t) - 1 /\ Len(t) \in Nat /\ Len(t) >= 1 /\ Head(t) = t[1]
      /\ \A i \in 1 .. Len(Tail(t)) : Tail(t)[i] = t[i + 1]
  OBVIOUS
<1>2. Len(Append(rs, a)) = Len(rs) + 1 /\ Len(rs) \in Nat /\ Append(rs, a)[Len(rs) + 1] = a
      /\ \A i \in 1 .. Len(rs) : Append(rs, a)[i] = rs[i]
  OBVIOUS
<1>3. \A i \in 1 .. Len(Tail(t)) : i + 1 \in 1 .. Len(t) /\ Len(rs) + (i + 1) = Len(Append(rs, a)) + i
  BY <1>1, <1>2
<1> QED BY <1>1, <1>2, <1>3

\* A chunk ends where the next begins, the last at the end.
LEMMA Chunks ==
  ASSUME NEW u, u.files \in Seq(File), u.at \in 1 .. Len(u.files) + 1
  PROVE  /\ Chunk(u) \in Seq(File) /\ Len(Chunk(u)) \in Nat
         /\ u.at + Len(Chunk(u)) \in 1 .. Len(u.files) + 1
<1>1. PICK n : n = IF u.at + BatchSize - 1 < Len(u.files) THEN u.at + BatchSize - 1 ELSE Len(u.files)
  OBVIOUS
<1>2. BatchSize \in Nat \ {0} /\ Len(u.files) \in Nat /\ u.at \in Nat
  BY BatchesAssumption
<1>3. n \in Nat /\ n <= Len(u.files) /\ u.at <= n + 1
  BY <1>1, <1>2
<1>4. Chunk(u) = SubSeq(u.files, u.at, n)
  BY <1>1 DEF Chunk
<1>5. \A i \in u.at .. n : i \in 1 .. Len(u.files)
  BY <1>2, <1>3
<1>6. Chunk(u) \in Seq(File) /\ Len(Chunk(u)) = IF u.at <= n THEN n - u.at + 1 ELSE 0
  BY <1>2, <1>3, <1>4, <1>5
<1> QED BY <1>2, <1>3, <1>6

\* A set of numbers and the rest of them.
LEMMA ThreeParts ==
  ASSUME NEW n \in Nat, NEW f
  PROVE  LET these(S) == {i \in 1 .. n : f[i] \in S} IN
         /\ Cardinality(these({"indexed"})) \in Nat /\ Cardinality(these({"skipped"})) \in Nat
         /\ Cardinality(1 .. n \ these({"indexed", "skipped"})) \in Nat
         /\ Cardinality(these({"indexed"})) + Cardinality(these({"skipped"}))
              + Cardinality(1 .. n \ these({"indexed", "skipped"})) = n
<1> DEFINE these(S) == {i \in 1 .. n : f[i] \in S}
<1>1. PICK D, A, B, C : /\ D = 1 .. n /\ A = these({"indexed"}) /\ B = these({"skipped"})
                        /\ C = these({"indexed", "skipped"})
  OBVIOUS
<1>2. IsFiniteSet(D) /\ Cardinality(D) = n
  BY <1>1, FS_Interval
<1>3. A \subseteq D /\ B \subseteq D /\ C = A \cup B /\ A \cap B = {} /\ D \cap C = C /\ C \subseteq D
  BY <1>1
<1>4. IsFiniteSet(A) /\ IsFiniteSet(B) /\ IsFiniteSet(C) /\ IsFiniteSet(D \ C)
  BY <1>2, <1>3, FS_Subset, FS_Difference
<1>5. Cardinality(C) = Cardinality(A) + Cardinality(B) - 0
  BY <1>3, <1>4, FS_Union, FS_EmptySet
<1>6. Cardinality(D \ C) = Cardinality(D) - Cardinality(C)
  BY <1>2, <1>3, FS_Difference
<1>7. Cardinality(A) \in Nat /\ Cardinality(B) \in Nat /\ Cardinality(C) \in Nat /\ Cardinality(D \ C) \in Nat
  BY <1>4, FS_CardinalityType
<1>8. Cardinality(A) + Cardinality(B) + Cardinality(D \ C) = n
  BY <1>2, <1>5, <1>6, <1>7
<1> QED BY <1>1, <1>7, <1>8

-----------------------------------------------------------------------------
(* Clients. *)

\* On to the next batch, when this one is counted.
LEMMA NextIsOk ==
  ASSUME NEW u, DOMAIN u = DOMAIN Silent, u.files \in Seq(File), u.at \in 1 .. Len(u.files) + 1,
         u.indexed \in Nat, u.skipped \in Nat, u.failures \in Nat,
         u.indexed + u.skipped + u.failures = u.at - 1 + Len(Chunk(u))
  PROVE  /\ UploadOk(NextBatch(u)) /\ NextBatch(u).pc \in {"post", "done"}
         /\ NextBatch(u).good = u.good /\ NextBatch(u).case = u.case
<1>1. PICK on : on = [u EXCEPT !.at = u.at + Len(Chunk(u)), !.attempt = 1, !.sent = <<>>]
  OBVIOUS
<1>2. /\ DOMAIN on = DOMAIN Silent /\ on.files = u.files /\ on.at = u.at + Len(Chunk(u)) /\ on.sent = <<>>
      /\ on.indexed = u.indexed /\ on.skipped = u.skipped /\ on.failures = u.failures
      /\ on.good = u.good /\ on.case = u.case
  BY <1>1 DEF Silent
<1>3. NextBatch(u) = [on EXCEPT !.pc = IF on.at > Len(on.files) THEN "done" ELSE "post"]
  BY <1>1, <1>2 DEF NextBatch
<1>4. PICK v : v = NextBatch(u)
  OBVIOUS
<1>5. /\ DOMAIN v = DOMAIN Silent /\ v.files = u.files /\ v.at = u.at + Len(Chunk(u)) /\ v.sent = <<>>
      /\ v.indexed = u.indexed /\ v.skipped = u.skipped /\ v.failures = u.failures
      /\ v.good = u.good /\ v.case = u.case /\ v.pc = IF on.at > Len(on.files) THEN "done" ELSE "post"
  BY <1>2, <1>3, <1>4 DEF Silent
<1>6. v.at \in 1 .. Len(u.files) + 1 /\ (v.at > Len(u.files) => v.at = Len(u.files) + 1)
      /\ v.indexed + v.skipped + v.failures = v.at - 1 /\ v.pc \in {"post", "done"}
      /\ (v.pc = "done" => v.at > Len(u.files))
  <2>1. Len(Chunk(u)) \in Nat /\ Len(u.files) \in Nat /\ u.at + Len(Chunk(u)) \in 1 .. Len(u.files) + 1
    BY Chunks
  <2> QED BY <1>2, <1>5, <2>1
<1>7. UploadOk(v)
  BY <1>5, <1>6 DEF UploadOk
<1> QED BY <1>4, <1>5, <1>6, <1>7

-----------------------------------------------------------------------------
(* What others see when documents change. *)

\* What is found stays found.
LEMMA DeliveredStays ==
  ASSUME Documents, Grows
  PROVE  \A k, case : Delivered(k, case) => Delivered(k, case)'
  BY DEF Documents, Grows, Delivered

\* What a client knows stays true.
LEMMA ClientsStay == ASSUME Documents, Grows, Clients, uploads' = uploads PROVE Clients'
<1>1. \A u : UploadOk(u)' <=> UploadOk(u)
  BY DEF UploadOk, Chunk
<1>2. \A c \in Uploader : \A k \in uploads[c].good : Delivered(k, uploads[c].case)'
  BY DeliveredStays DEF Clients
<1> QED BY <1>1, <1>2 DEF Clients

\* And what a directory run knows.
LEMMA RunsStay == ASSUME Documents, Grows, Runs, job' = job PROVE Runs'
<1>1. \A o : o.doc \in DocId => (HasCase(o.doc, job.case) => HasCase(o.doc, job.case)')
  BY DEF Grows
<1>2. ASSUME NEW o \in job.outcomes, o.ok PROVE IsTrue(o)'
  <2>1. IsTrue(o)
    BY <1>2 DEF Runs
  <2>2. o.doc \in found /\ o.doc \in DocId /\ archive[o.doc].state # "none" /\ job.case \in archive[o.doc].cases
    BY <2>1 DEF IsTrue, Documents, Live
  <2>3. o.doc \in found' /\ job.case \in archive'[o.doc].cases /\ archive'[o.doc].key = archive[o.doc].key
        /\ archive'[o.doc].source = archive[o.doc].source
        /\ (archive[o.doc].state = "indexed" => archive'[o.doc].state = "indexed")
    BY <2>2 DEF Grows
  <2> QED BY <2>1, <2>3 DEF IsTrue, Holds
<1>3. CASE job.pc \in {"process", "recover"}
  <2>1. job.doc \in DocId /\ HasCase(job.doc, job.case) /\ archive[job.doc].state # "none"
    BY <1>3 DEF Runs, HasCase
  <2>2. HasCase(job.doc, job.case)'
    BY <2>1 DEF Grows
  <2>3. job.kind = "manifest" => Holds(job.doc, job.manifest[job.file].sha)'
    BY <1>3, <2>1 DEF Grows, Runs, Running
  <2> QED BY <1>2, <1>3, <2>2, <2>3 DEF Runs, Running
<1>4. CASE job.pc \notin {"process", "recover"}
  BY <1>2, <1>4 DEF Runs, Running
<1> QED BY <1>3, <1>4

\* A request that does not move, whose client does not either.
LEMMA HandlerStays ==
  ASSUME Documents, Grows, Requests, NEW h \in Handler, handlers'[h] = handlers[h],
         handlers[h].caller # "none" => uploads'[handlers[h].caller] = uploads[handlers[h].caller]
  PROVE  HandlerOk(h)' /\ Awaited(h)'
<1>1. PICK r : r = handlers[h] /\ r = handlers'[h] /\ HandlerOk(h) /\ Awaited(h)
  BY DEF Requests
<1>2. HandlerOk(h)'
  <2>1. r.pc = "add" => \E d \in found' : archive'[d].key = Head(r.todo)
    BY <1>1 DEF HandlerOk, Grows
  <2>2. CASE r.pc \in {"process", "recover"}
    <3>1. r.todo \in Seq(Bytes) /\ r.todo # <<>>
      BY <1>1, <2>2 DEF HandlerOk, AtWork
    <3>2. Head(r.todo) \in Bytes
      BY <3>1
    <3>3. Working(r.doc, Head(r.todo), r.case)
      BY <1>1, <2>2 DEF HandlerOk
    <3>4. Working(r.doc, Head(r.todo), r.case)'
      BY <3>2, <3>3 DEF Working, Grows, HasCase
    <3> QED BY <1>1, <2>1, <2>2, <3>1, <3>4 DEF HandlerOk
  <2>3. CASE r.pc \notin {"process", "recover"}
    BY <1>1, <2>1, <2>3 DEF HandlerOk
  <2> QED BY <2>2, <2>3
<1>3. Awaited(h)'
  BY <1>1, DeliveredStays DEF Awaited
<1> QED BY <1>2, <1>3

\* One request moves.
LEMMA RequestMoves ==
  ASSUME Documents, Grows, Requests, NEW h \in Handler, NEW r, Turn(h, r),
         r.caller \in {"none", handlers[h].caller}, HandlerOk(h)', Awaited(h)',
         \A c \in Uploader : uploads'[c] # uploads[c] => \A g \in Handler \ {h} : handlers[g].caller # c
  PROVE  Requests'
<1>1. handlers'[h] = r /\ (\A g \in Handler : g # h => handlers'[g] = handlers[g]) /\ DOMAIN handlers' = Handler
  BY DEF Turn, Requests
<1>2. \A g \in Handler : handlers'[g].caller \in {"none", handlers[g].caller}
  BY <1>1
<1>3. \A g \in Handler : HandlerOk(g)' /\ Awaited(g)'
  <2> SUFFICES ASSUME NEW g \in Handler, g # h PROVE HandlerOk(g)' /\ Awaited(g)'
    OBVIOUS
  <2>1. handlers[g].caller # "none" => uploads'[handlers[g].caller] = uploads[handlers[g].caller]
    BY DEF Requests, HandlerOk
  <2> QED BY <1>1, <2>1, HandlerStays
<1>4. \A g, k \in Handler : handlers'[g].caller = handlers'[k].caller /\ g # k => handlers'[g].caller = "none"
  BY <1>2 DEF Requests
<1> QED BY <1>1, <1>3, <1>4 DEF Requests

\* No client changes.
LEMMA OneMoves ==
  ASSUME Documents, Grows, Requests, NEW h \in Handler, NEW r, Turn(h, r), uploads' = uploads,
         r.caller \in {"none", handlers[h].caller}, HandlerOk(h)', Awaited(h)'
  PROVE  Requests'
  BY RequestMoves

\* A file gets its result: what is counted of it is found.
LEMMA ResultCounts ==
  ASSUME Documents, Grows, Requests, NEW h \in Handler, NEW a \in Replies, Result(h, a), uploads' = uploads, Clients,
         handlers[h].todo # <<>>, NEW k, k = Head(handlers[h].todo), NEW case, case = handlers[h].case,
         a \in Counted => Delivered(k, case)'
  PROVE  Requests'
<1>1. PICK r : r = handlers[h] /\ HandlerOk(h) /\ Awaited(h)
  BY DEF Requests
<1>2. PICK s : s = [r EXCEPT !.pc = "next", !.doc = 0, !.todo = Tail(@), !.results = Append(@, a)]
  OBVIOUS
<1>3. /\ DOMAIN s = DOMAIN Free /\ s.pc = "next" /\ s.todo = Tail(r.todo) /\ s.results = Append(r.results, a)
      /\ s.caller = r.caller /\ s.case = r.case
  BY <1>1, <1>2 DEF HandlerOk, Free
<1>4. Turn(h, s) /\ handlers'[h] = s
  BY <1>1, <1>2 DEF Result, Turn, Requests
<1>5. r.todo \in Seq(Bytes) /\ r.results \in Seq(Replies) /\ r.todo # <<>>
  BY <1>1 DEF HandlerOk
<1>6. s.todo \in Seq(Bytes) /\ s.results \in Seq(Replies)
  BY <1>3, <1>5
<1>7. HandlerOk(h)'
  BY <1>1, <1>3, <1>4, <1>6 DEF HandlerOk, AtWork
<1>8. CASE r.caller = "none"
  <2>1. Awaited(h)'
    BY <1>3, <1>4, <1>8 DEF Awaited
  <2> QED BY <1>1, <1>3, <1>4, <1>7, <2>1, OneMoves
<1>9. CASE r.caller # "none"
  <2>1. PICK u : u = uploads[r.caller] /\ u = uploads'[r.caller] /\ u.sent \in Seq(Bytes)
    BY <1>1, <1>9 DEF HandlerOk, Clients, UploadOk
  <2>2. /\ u.pc = "wait" /\ u.case = r.case /\ Len(r.results) + Len(r.todo) = Len(u.sent)
        /\ \A i \in 1 .. Len(r.todo) : r.todo[i] = u.sent[Len(r.results) + i]
        /\ \A i \in 1 .. Len(r.results) : r.results[i] \in Counted => Delivered(u.sent[i], r.case)
    BY <1>1, <1>9, <2>1 DEF Awaited
  <2>3. /\ Len(s.results) + Len(s.todo) = Len(u.sent)
        /\ \A i \in 1 .. Len(s.todo) : s.todo[i] = u.sent[Len(s.results) + i]
        /\ Head(r.todo) = u.sent[Len(r.results) + 1] /\ s.results[Len(r.results) + 1] = a
        /\ \A i \in 1 .. Len(s.results) :
             i = Len(r.results) + 1 \/ (i \in 1 .. Len(r.results) /\ s.results[i] = r.results[i])
    <3>1. PICK t, rs, q : t = r.todo /\ rs = r.results /\ q = u.sent
      OBVIOUS
    <3>2. t \in Seq(Bytes) /\ t # <<>> /\ rs \in Seq(Replies) /\ q \in Seq(Bytes)
      BY <1>5, <2>1, <3>1
    <3>3. Len(rs) + Len(t) = Len(q)
      BY <2>2, <3>1
    <3>4. \A i \in 1 .. Len(t) : t[i] = q[Len(rs) + i]
      BY <2>2, <3>1
    <3>5. /\ Len(Append(rs, a)) + Len(Tail(t)) = Len(q)
          /\ \A i \in 1 .. Len(Tail(t)) : Tail(t)[i] = q[Len(Append(rs, a)) + i]
          /\ Head(t) = q[Len(rs) + 1] /\ Append(rs, a)[Len(rs) + 1] = a
          /\ \A i \in 1 .. Len(Append(rs, a)) :
               i = Len(rs) + 1 \/ (i \in 1 .. Len(rs) /\ Append(rs, a)[i] = rs[i])
      BY <3>2, <3>3, <3>4, OneFileOn
    <3> QED BY <1>3, <3>1, <3>5
  <2>4. ASSUME NEW i \in 1 .. Len(s.results), s.results[i] \in Counted PROVE Delivered(u.sent[i], s.case)'
    <3>1. CASE i = Len(r.results) + 1
      <4>1. u.sent[i] = k /\ s.case = case /\ a \in Counted
        BY <1>1, <1>3, <2>3, <2>4, <3>1
      <4> QED BY <4>1
    <3>2. CASE i # Len(r.results) + 1
      BY <1>3, <2>2, <2>3, <2>4, <3>2, DeliveredStays
    <3> QED BY <3>1, <3>2
  <2>5. Awaited(h)'
    BY <1>3, <1>4, <2>1, <2>2, <2>3, <2>4 DEF Awaited
  <2> QED BY <1>1, <1>3, <1>4, <1>7, <2>5, OneMoves
<1> QED BY <1>8, <1>9

\* A request goes to another place, with the same files, results and client.
LEMMA TurnsTo ==
  ASSUME Documents, Grows, Requests, NEW h \in Handler, NEW r, Turn(h, r), uploads' = uploads,
         DOMAIN r = DOMAIN Free, r.todo = handlers[h].todo, r.results = handlers[h].results,
         r.case = handlers[h].case, r.caller \in {"none", handlers[h].caller},
         r.pc # "free", r.pc = "200" => r.todo = <<>>,
         r.pc \in AtWork => r.todo # <<>>, r.pc = "add" => \E e \in found' : archive'[e].key = Head(r.todo),
         r.pc \in {"process", "recover"} => Working(r.doc, Head(r.todo), r.case)'
  PROVE  Requests'
<1>1. handlers'[h] = r
  BY DEF Turn, Requests
<1>2. HandlerOk(h)'
  BY <1>1 DEF Requests, HandlerOk
<1>3. CASE r.caller = "none"
  <2>1. Awaited(h)'
    BY <1>1, <1>3 DEF Awaited
  <2> QED BY <1>2, <2>1, OneMoves
<1>4. CASE r.caller # "none"
  <2>1. PICK q : q = handlers[h] /\ Awaited(h)
    BY DEF Requests
  <2>2. r.caller = q.caller /\ r.todo = q.todo /\ r.results = q.results /\ r.case = q.case
    BY <1>4, <2>1
  <2>3. PICK u : u = uploads[r.caller] /\ u = uploads'[r.caller]
    OBVIOUS
  <2>4. /\ u.pc = "wait" /\ u.case = r.case /\ Len(r.results) + Len(r.todo) = Len(u.sent)
        /\ \A i \in 1 .. Len(r.todo) : r.todo[i] = u.sent[Len(r.results) + i]
        /\ \A i \in 1 .. Len(r.results) : r.results[i] \in Counted => Delivered(u.sent[i], r.case)
    BY <1>4, <2>1, <2>2, <2>3 DEF Awaited
  <2>5. \A i \in 1 .. Len(r.results) : r.results[i] \in Counted => Delivered(u.sent[i], r.case)'
    BY <2>4, DeliveredStays
  <2>6. Awaited(h)'
    BY <1>1, <2>3, <2>4, <2>5 DEF Awaited
  <2> QED BY <1>2, <2>6, OneMoves
<1> QED BY <1>3, <1>4

\* A handler without a request.
LEMMA FreeIsOk ==
  ASSUME NEW h \in Handler, handlers'[h] = Free
  PROVE  HandlerOk(h)' /\ Awaited(h)'
<1>1. <<>> \in Seq(Bytes) /\ <<>> \in Seq(Replies)
  OBVIOUS
<1>2. Free.todo = <<>> /\ Free.results = <<>> /\ Free.caller = "none" /\ Free.pc = "free"
  BY DEF Free
<1> QED BY <1>1, <1>2 DEF HandlerOk, Awaited, AtWork

\* A step of the endpoint.
LEMMA EndpointKeeps ==
  ASSUME BatchesInv, Documents', Grows, Requests', UNCHANGED <<uploads, job>>
  PROVE  BatchesInv'
  BY ClientsStay, RunsStay DEF BatchesInv

-----------------------------------------------------------------------------
(* The endpoint. *)

\* The ingest endpoint looks for the next file of a batch in the index.
LEMMA TakeFileKeeps == ASSUME BatchesInv, NEW h \in Handler, TakeFile(h) PROVE BatchesInv'
<1>1. PICK r : r = handlers[h] /\ HandlerOk(h)
  BY DEF BatchesInv, Requests
<1>2. PICK k : k = Head(r.todo)
  OBVIOUS
<1>3. r.todo # <<>> /\ UNCHANGED <<disk, archive, found, uploads, job>> /\ DOMAIN r = DOMAIN Free
  BY <1>1 DEF TakeFile, HandlerOk
<1>4. Documents' /\ Grows
  BY <1>3, NoneChanges DEF BatchesInv, Documents
<1>5. CASE Result(h, "error")
  <2>1. "error" \in Replies /\ "error" \notin Counted
    BY DEF Replies, Counted
  <2>2. Requests'
    BY <1>1, <1>3, <1>4, <1>5, <2>1, ResultCounts DEF BatchesInv
  <2> QED BY <1>3, <1>4, <2>2, EndpointKeeps
<1>6. CASE Turn(h, [r EXCEPT !.pc = IF InIndex(k) # {} THEN "add" ELSE "register"])
  <2>1. PICK s : s = [r EXCEPT !.pc = IF InIndex(k) # {} THEN "add" ELSE "register"]
    OBVIOUS
  <2>2. /\ DOMAIN s = DOMAIN Free /\ s.todo = r.todo /\ s.results = r.results /\ s.case = r.case /\ s.caller = r.caller
        /\ s.pc = IF InIndex(k) # {} THEN "add" ELSE "register"
    BY <1>3, <2>1 DEF Free
  <2>5. s.pc \in {"add", "register"}
    BY <2>2
  <2>3. s.pc = "add" => \E e \in found' : archive'[e].key = Head(s.todo)
    BY <1>2, <1>3, <2>2 DEF InIndex
  <2>4. Requests'
    BY <1>1, <1>3, <1>4, <1>6, <2>1, <2>2, <2>3, <2>5, TurnsTo DEF BatchesInv
  <2> QED BY <1>3, <1>4, <2>4, EndpointKeeps
<1> QED BY <1>1, <1>2, <1>5, <1>6 DEF TakeFile

\* A request at work on a file.
LEMMA WorksOn ==
  ASSUME BatchesInv, NEW h \in Handler, handlers[h].pc \in AtWork
  PROVE  HandlerOk(h) /\ handlers[h].todo # <<>> /\ Head(handlers[h].todo) \in Bytes
<1>1. HandlerOk(h)
  BY DEF BatchesInv, Requests
<1>2. PICK t : t = handlers[h].todo /\ t \in Seq(Bytes) /\ t # <<>>
  BY <1>1 DEF HandlerOk
<1>3. Head(t) \in Bytes
  BY <1>2
<1> QED BY <1>1, <1>2, <1>3

\* Content that the index has: its document gets the dossier,
LEMMA AddFileKeeps == ASSUME BatchesInv, NEW h \in Handler, AddFile(h) PROVE BatchesInv'
<1>1. PICK r, k, case : r = handlers[h] /\ k = Head(r.todo) /\ case = r.case
  OBVIOUS
<1>2. HandlerOk(h) /\ r.pc = "add" /\ r.todo # <<>> /\ k \in Bytes /\ DOMAIN r = DOMAIN Free
  BY <1>1, WorksOn DEF AddFile, HandlerOk, AtWork
<1>3. UNCHANGED <<disk, found, uploads, job>> /\ disk' \in [File -> Bytes]
  BY DEF AddFile, BatchesInv, Documents
<1>4. PICK d \in LiveWith(k) :
        /\ archive' = [archive EXCEPT ![d].cases = @ \cup {case}]
        /\ IF case \in archive[d].cases THEN Result(h, "skipped")
           ELSE Turn(h, [r EXCEPT !.pc = "tell", !.doc = d])
  BY <1>1 DEF AddFile
<1>5. d \in DocId /\ Live(d) /\ archive[d].key = k
  BY DEF LiveWith, Live
<1>6. Documents' /\ Grows
  BY <1>3, <1>4, <1>5, CaseAdded DEF BatchesInv
<1>7. CASE Result(h, "skipped")
  <2>1. d \in found
    <3>1. PICK e \in found : archive[e].key = k
      BY <1>1, <1>2 DEF HandlerOk
    <3>2. e \in DocId /\ Live(e)
      BY DEF BatchesInv, Documents
    <3> QED BY <1>5, <3>1, <3>2 DEF BatchesInv, Documents
  <2>2. Delivered(k, case)'
    <3>1. d \in found' /\ case \in archive'[d].cases /\ archive'[d].key = k
      BY <1>3, <1>4, <1>5, <2>1 DEF BatchesInv, Documents, Unused
    <3> QED BY <3>1 DEF Delivered
  <2>3. "skipped" \in Replies
    BY DEF Replies
  <2>4. Requests'
    BY <1>1, <1>2, <1>3, <1>6, <1>7, <2>2, <2>3, ResultCounts DEF BatchesInv
  <2> QED BY <1>3, <1>6, <2>4, EndpointKeeps
<1>8. CASE Turn(h, [r EXCEPT !.pc = "tell", !.doc = d])
  <2>1. PICK s : s = [r EXCEPT !.pc = "tell", !.doc = d]
    OBVIOUS
  <2>2. DOMAIN s = DOMAIN Free /\ s.pc = "tell" /\ s.todo = r.todo /\ s.results = r.results
        /\ s.case = r.case /\ s.caller = r.caller
    BY <1>2, <2>1 DEF Free
  <2>3. Requests'
    BY <1>1, <1>2, <1>3, <1>6, <1>8, <2>1, <2>2, TurnsTo DEF BatchesInv
  <2> QED BY <1>3, <1>6, <2>3, EndpointKeeps
<1> QED BY <1>4, <1>7, <1>8

\* or the content is registered.
LEMMA RegisterFileKeeps == ASSUME BatchesInv, NEW h \in Handler, RegisterFile(h) PROVE BatchesInv'
<1>1. PICK r, k, case : r = handlers[h] /\ k = Head(r.todo) /\ case = r.case
  OBVIOUS
<1>2. HandlerOk(h) /\ r.todo # <<>> /\ k \in Bytes /\ DOMAIN r = DOMAIN Free
  BY <1>1, WorksOn DEF RegisterFile, HandlerOk, AtWork
<1>3. UNCHANGED <<disk, found, uploads, job>> /\ disk' \in [File -> Bytes]
  BY DEF RegisterFile, BatchesInv, Documents
<1>4. PICK d \in DocId : Registers(k, case, NoUrl, d) /\ Turn(h, [r EXCEPT !.pc = "process", !.doc = d])
  BY <1>1 DEF RegisterFile
<1>5. Documents' /\ Grows /\ Working(d, k, case)'
  BY <1>2, <1>3, <1>4, RegistersOne DEF BatchesInv
<1>6. PICK s : s = [r EXCEPT !.pc = "process", !.doc = d]
  OBVIOUS
<1>7. DOMAIN s = DOMAIN Free /\ s.pc = "process" /\ s.doc = d /\ s.todo = r.todo /\ s.results = r.results
      /\ s.case = r.case /\ s.caller = r.caller
  BY <1>2, <1>6 DEF Free
<1>8. Working(s.doc, Head(s.todo), s.case)'
  BY <1>1, <1>5, <1>7
<1>9. Requests'
  BY <1>1, <1>2, <1>3, <1>4, <1>5, <1>6, <1>7, <1>8, TurnsTo DEF BatchesInv
<1> QED BY <1>3, <1>5, <1>9, EndpointKeeps

\* A request that ends, and changes no file's result.
LEMMA GoesTo ==
  ASSUME BatchesInv, NEW h \in Handler, NEW p \in {"503", "lost", "200", "recover"},
         Turn(h, [handlers[h] EXCEPT !.pc = p]), Documents', Grows, UNCHANGED <<uploads, job>>,
         p = "200" => handlers[h].todo = <<>>,
         p = "recover" => handlers[h].pc = "process"
  PROVE  BatchesInv'
<1>1. PICK r : r = handlers[h] /\ HandlerOk(h)
  BY DEF BatchesInv, Requests
<1>2. PICK s : s = [r EXCEPT !.pc = p]
  OBVIOUS
<1>3. DOMAIN s = DOMAIN Free /\ s.pc = p /\ s.doc = r.doc /\ s.todo = r.todo /\ s.results = r.results
      /\ s.case = r.case /\ s.caller = r.caller
  BY <1>1, <1>2 DEF Free, HandlerOk
<1>4. p = "recover" => s.todo # <<>> /\ Working(s.doc, Head(s.todo), s.case)'
  <2> SUFFICES ASSUME p = "recover" PROVE s.todo # <<>> /\ Working(s.doc, Head(s.todo), s.case)'
    OBVIOUS
  <2>1. r.todo # <<>> /\ Working(r.doc, Head(r.todo), r.case) /\ Head(r.todo) \in Bytes
    BY <1>1, WorksOn DEF HandlerOk, AtWork
  <2>2. Working(r.doc, Head(r.todo), r.case)'
    BY <2>1 DEF Working, Grows, HasCase
  <2> QED BY <1>3, <2>1, <2>2
<1>5. Requests'
  BY <1>1, <1>2, <1>3, <1>4, TurnsTo DEF BatchesInv, AtWork
<1> QED BY <1>5, EndpointKeeps

\* A result that is not counted.
LEMMA NotCounted ==
  ASSUME BatchesInv, NEW h \in Handler, handlers[h].pc \in AtWork, NEW a \in Replies \ Counted,
         Result(h, a), Documents', Grows, UNCHANGED <<uploads, job>>
  PROVE  BatchesInv'
<1>1. PICK k, case : k = Head(handlers[h].todo) /\ case = handlers[h].case /\ handlers[h].todo # <<>>
  BY WorksOn
<1>2. Requests'
  BY <1>1, ResultCounts DEF BatchesInv
<1> QED BY <1>2, EndpointKeeps

\* It processes the document,
LEMMA ProcessFileKeeps == ASSUME BatchesInv, NEW h \in Handler, ProcessFile(h) PROVE BatchesInv'
<1>1. PICK r, d, k, case : r = handlers[h] /\ d = r.doc /\ k = Head(r.todo) /\ case = r.case
  OBVIOUS
<1>2. r.todo # <<>> /\ Working(d, k, case) /\ k \in Bytes /\ d \in DocId
  BY <1>1, WorksOn DEF HandlerOk, ProcessFile, Working, AtWork
<1>3. Processes(d) /\ UNCHANGED <<disk, uploads, job>> /\ disk' \in [File -> Bytes]
  BY <1>1 DEF ProcessFile, BatchesInv, Documents
<1>4. Documents' /\ Grows /\ archive'[d].state = After(d) /\ archive'[d].key = archive[d].key
      /\ archive'[d].cases = archive[d].cases
  BY <1>2, <1>3, ProcessesOne DEF BatchesInv
<1>5. CASE After(d) = "unprocessable_ocr"
  <2>1. Turn(h, [handlers[h] EXCEPT !.pc = "recover"])
    BY <1>1, <1>5 DEF ProcessFile
  <2> QED BY <1>3, <1>4, <2>1, GoesTo DEF ProcessFile
<1>6. CASE After(d) # "unprocessable_ocr"
  <2>1. PICK a : a = After(d)
    OBVIOUS
  <2>2. Result(h, a)
    BY <1>1, <1>6, <2>1 DEF ProcessFile
  <2>3. a \in Replies
    BY <1>2, <1>4, <2>1 DEF Documents, Replies
  <2>4. a \in Counted => Delivered(k, case)'
    <3> SUFFICES ASSUME a \in Counted PROVE Delivered(k, case)'
      OBVIOUS
    <3>1. archive'[d].state = "indexed"
      BY <1>2, <1>4, <2>1 DEF Documents, States, Counted
    <3>2. d \in found'
      BY <1>2, <1>4, <3>1 DEF Documents
    <3>3. Working(d, k, case)'
      BY <1>2, <1>4 DEF Working, Grows, HasCase
    <3> QED BY <3>1, <3>2, <3>3 DEF Delivered, Working, Holds, HasCase
  <2>5. Requests'
    BY <1>1, <1>2, <1>3, <1>4, <2>2, <2>3, <2>4, ResultCounts DEF BatchesInv
  <2> QED BY <1>3, <1>4, <2>5, EndpointKeeps
<1> QED BY <1>5, <1>6

\* and recovers a scan,
LEMMA RecoverFileKeeps == ASSUME BatchesInv, NEW h \in Handler, RecoverFile(h) PROVE BatchesInv'
<1>1. PICK r, d, k, case : r = handlers[h] /\ d = r.doc /\ k = Head(r.todo) /\ case = r.case
  OBVIOUS
<1>2. r.todo # <<>> /\ Working(d, k, case) /\ k \in Bytes /\ d \in DocId /\ DOMAIN r = DOMAIN Free
      /\ r.pc = "recover"
  BY <1>1, WorksOn DEF HandlerOk, RecoverFile, Working, AtWork
<1>3. UNCHANGED <<disk, found, uploads, job>> /\ disk' \in [File -> Bytes]
  BY DEF RecoverFile, BatchesInv, Documents
<1>4. CASE Result(h, "error") /\ UNCHANGED archive
  <2>1. Documents' /\ Grows
    BY <1>3, <1>4, NoneChanges DEF BatchesInv
  <2>2. "error" \in Replies \ Counted
    BY DEF Replies, Counted
  <2> QED BY <1>1, <1>2, <1>3, <1>4, <2>1, <2>2, NotCounted DEF AtWork
<1>5. ASSUME archive[d].state = "unprocessable_ocr", Rekeys(d), Turn(h, [r EXCEPT !.pc = "process"])
      PROVE  BatchesInv'
  <2>1. Documents' /\ Grows
    BY <1>2, <1>3, <1>5, RecoversOne DEF BatchesInv
  <2>2. PICK s : s = [r EXCEPT !.pc = "process"]
    OBVIOUS
  <2>3. DOMAIN s = DOMAIN Free /\ s.pc = "process" /\ s.doc = d /\ s.todo = r.todo /\ s.results = r.results
        /\ s.case = case /\ s.caller = r.caller
    BY <1>1, <1>2, <2>2 DEF Free
  <2>4. Working(d, k, case)'
    BY <1>2, <2>1 DEF Working, Grows, HasCase
  <2>5. Working(s.doc, Head(s.todo), s.case)'
    BY <1>1, <2>3, <2>4
  <2>6. Requests'
    BY <1>1, <1>2, <1>3, <1>5, <2>1, <2>2, <2>3, <2>5, TurnsTo DEF BatchesInv
  <2> QED BY <1>3, <2>1, <2>6, EndpointKeeps
<1>6. ASSUME archive[d].state = "unprocessable_ocr", NEW owner \in LiveWith(OcrOf[archive[d].key]), Gives(d, owner),
             Turn(h, [r EXCEPT !.pc = "tell owner", !.doc = owner])
      PROVE  BatchesInv'
  <2>1. Documents' /\ Grows
    BY <1>2, <1>3, <1>6, RecoversOne DEF BatchesInv
  <2>2. PICK s : s = [r EXCEPT !.pc = "tell owner", !.doc = owner]
    OBVIOUS
  <2>3. DOMAIN s = DOMAIN Free /\ s.pc = "tell owner" /\ s.todo = r.todo /\ s.results = r.results
        /\ s.case = case /\ s.caller = r.caller
    BY <1>1, <1>2, <2>2 DEF Free
  <2>4. Requests'
    BY <1>1, <1>2, <1>3, <1>6, <2>1, <2>2, <2>3, TurnsTo DEF BatchesInv
  <2> QED BY <1>3, <2>1, <2>4, EndpointKeeps
<1> QED BY <1>1, <1>4, <1>5, <1>6 DEF RecoverFile

\* and tells the index of a dossier.
LEMMA TellIndexKeeps == ASSUME BatchesInv, NEW h \in Handler, TellIndex(h) PROVE BatchesInv'
<1>1. UNCHANGED <<disk, archive, found, uploads, job>>
  BY DEF TellIndex, Tells
<1>2. Documents' /\ Grows
  BY <1>1, NoneChanges DEF BatchesInv, Documents
<1>3. PICK a : a = Told(handlers[h].pc)
  OBVIOUS
<1>4. a \in Replies \ Counted
  BY <1>3 DEF Told, Replies, States, Counted
<1>5. Result(h, a) /\ handlers[h].pc \in AtWork
  BY <1>3 DEF TellIndex, AtWork
<1> QED BY <1>1, <1>2, <1>4, <1>5, NotCounted

\* What fails or is lost, at a step of processing or not.
LEMMA BrokenOff ==
  ASSUME BatchesInv, NEW h \in Handler, disk' = disk,
         IF handlers[h].pc = "process" THEN ProcessBreaks(handlers[h].doc) ELSE UNCHANGED <<archive, found, scopes>>
  PROVE  Documents' /\ Grows
<1>1. disk' \in [File -> Bytes]
  BY DEF BatchesInv, Documents
<1>2. CASE handlers[h].pc = "process"
  <2>1. PICK d : d = handlers[h].doc /\ d \in DocId
    BY <1>2 DEF BatchesInv, Requests, HandlerOk, Working
  <2>2. ProcessBreaks(d)
    BY <1>2, <2>1
  <2> QED BY <1>1, <2>1, <2>2, ProcessesOne DEF BatchesInv
<1>3. CASE handlers[h].pc # "process"
  BY <1>1, <1>3, NoneChanges DEF BatchesInv
<1> QED BY <1>2, <1>3

\* A file that fails, keys that are refused, a server that dies.
LEMMA EndpointFails ==
  ASSUME BatchesInv, NEW h \in Handler,
         KeysRefused(h) \/ FileFails(h, "retryable") \/ FileFails(h, "error") \/ ServerDies(h)
  PROVE  BatchesInv'
<1>1. disk' = disk /\ UNCHANGED <<uploads, job>>
  BY DEF KeysRefused, FileFails, ServerDies
<1>2. CASE KeysRefused(h)
  <2>1. Documents' /\ Grows
    BY <1>1, <1>2, NoneChanges DEF KeysRefused, BatchesInv, Documents
  <2> QED BY <1>1, <1>2, <2>1, GoesTo DEF KeysRefused
<1>3. ASSUME NEW a \in {"retryable", "error"}, FileFails(h, a) PROVE BatchesInv'
  <2>1. Documents' /\ Grows
    BY <1>1, <1>3, BrokenOff DEF FileFails
  <2>2. a \in Replies \ Counted
    BY DEF Replies, Counted
  <2> QED BY <1>1, <1>3, <2>1, <2>2, NotCounted DEF FileFails
<1>4. CASE ServerDies(h)
  <2>1. Documents' /\ Grows
    BY <1>1, <1>4, BrokenOff DEF ServerDies
  <2> QED BY <1>1, <1>4, <2>1, GoesTo DEF ServerDies
<1> QED BY <1>2, <1>3, <1>4

\* The answer, heard or not.
LEMMA EndpointEnds ==
  ASSUME BatchesInv, NEW h \in Handler, Answers200(h) \/ Unheard(h)
  PROVE  BatchesInv'
<1>1. Documents' /\ Grows /\ UNCHANGED <<uploads, job>>
  BY NoneChanges DEF Answers200, Unheard, BatchesInv, Documents
<1>2. CASE Answers200(h)
  BY <1>1, <1>2, GoesTo DEF Answers200
<1>3. CASE Unheard(h)
  <2>1. Turn(h, Free) /\ handlers'[h] = Free /\ Free.caller = "none"
    BY <1>3 DEF Unheard, Turn, BatchesInv, Requests, Free
  <2>2. Requests'
    BY <1>1, <2>1, FreeIsOk, OneMoves DEF BatchesInv
  <2> QED BY <1>1, <2>2, EndpointKeeps
<1> QED BY <1>2, <1>3

-----------------------------------------------------------------------------
(* The client. *)

\* Requests nobody moves, when only clients that wait for none of them do.
LEMMA RequestsStay ==
  ASSUME Documents, Grows, Requests, handlers' = handlers,
         \A c \in Uploader : uploads'[c] # uploads[c] => \A g \in Handler : handlers[g].caller # c
  PROVE  Requests'
<1>1. \A h \in Handler : HandlerOk(h)' /\ Awaited(h)'
  <2> SUFFICES ASSUME NEW h \in Handler PROVE HandlerOk(h)' /\ Awaited(h)'
    OBVIOUS
  <2>1. handlers[h].caller # "none" => uploads'[handlers[h].caller] = uploads[handlers[h].caller]
    BY DEF Requests, HandlerOk
  <2> QED BY <2>1, HandlerStays
<1> QED BY <1>1 DEF Requests

\* One client moves.
LEMMA ClientMoves ==
  ASSUME Documents, Grows, Clients, NEW c \in Uploader, NEW u, uploads' = [uploads EXCEPT ![c] = u],
         UploadOk(u), \A k \in u.good : Delivered(k, u.case)'
  PROVE  Clients'
<1>1. DOMAIN uploads' = Uploader /\ uploads'[c] = u /\ \A e \in Uploader : e # c => uploads'[e] = uploads[e]
  BY DEF Clients
<1>2. \A v : UploadOk(v)' <=> UploadOk(v)
  BY DEF UploadOk, Chunk
<1>3. \A e \in Uploader : UploadOk(uploads'[e])
  BY <1>1 DEF Clients
<1>4. \A e \in Uploader : \A k \in uploads[e]'.good : Delivered(k, uploads[e].case)'
  <2> SUFFICES ASSUME NEW e \in Uploader, NEW k \in uploads'[e].good, NEW case, case = uploads'[e].case
               PROVE  Delivered(k, case)'
    OBVIOUS
  <2>1. CASE e = c
    BY <1>1, <2>1
  <2>2. CASE e # c
    BY <1>1, <2>2, DeliveredStays DEF Clients
  <2> QED BY <2>1, <2>2
<1>5. \A e \in Uploader : UploadOk(uploads[e])'
  BY <1>2, <1>3
<1> QED BY <1>1, <1>4, <1>5 DEF Clients

\* Nothing happens to documents; whose request is not waited for is at no handler.
LEMMA NoDocuments ==
  ASSUME BatchesInv, UNCHANGED <<archive, found, disk>>
  PROVE  Documents' /\ Grows
  BY NoneChanges DEF BatchesInv, Documents

\* A client that does not wait has no request of its own.
LEMMA NotWaitedFor ==
  ASSUME BatchesInv, NEW c \in Uploader, uploads[c].pc # "wait", NEW g \in Handler
  PROVE  handlers[g].caller # c
  BY BatchesAssumption DEF BatchesInv, Requests, Awaited

\* A client starts, with nothing counted.
LEMMA StartUploadKeeps ==
  ASSUME BatchesInv, NEW c \in Uploader, NEW o \in Orders, StartUpload(c, o[1], o[2], o[3])
  PROVE  BatchesInv'
<1>1. PICK u : u = [Silent EXCEPT !.pc = "post", !.files = o[1], !.case = o[2], !.retries = o[3]]
  OBVIOUS
<1>2. /\ DOMAIN u = DOMAIN Silent /\ u.pc = "post" /\ u.files = o[1] /\ u.at = 1 /\ u.sent = <<>> /\ u.good = {}
      /\ u.indexed = 0 /\ u.skipped = 0 /\ u.failures = 0
  BY <1>1 DEF Silent
<1>3. o[1] \in Seq(File) /\ <<>> \in Seq(Bytes)
  BY BatchesAssumption
<1>4. 1 \in 1 .. Len(u.files) + 1
  BY <1>2, <1>3
<1>5. UploadOk(u)
  BY <1>2, <1>3, <1>4 DEF UploadOk
<1>6. Documents' /\ Grows /\ uploads' = [uploads EXCEPT ![c] = u] /\ handlers' = handlers /\ job' = job
  BY <1>1, NoDocuments DEF StartUpload
<1>7. \A g \in Handler : handlers[g].caller # c
  BY NotWaitedFor DEF StartUpload
<1>8. Requests'
  BY <1>6, <1>7, RequestsStay DEF BatchesInv, Clients
<1>9. Clients'
  BY <1>2, <1>5, <1>6, ClientMoves DEF BatchesInv
<1> QED BY <1>6, <1>8, <1>9, RunsStay DEF BatchesInv

\* A batch that is given up is counted as failed.
LEMMA GivesUp ==
  ASSUME NEW u, UploadOk(u)
  PROVE  /\ UploadOk(GiveUp(u)) /\ GiveUp(u).pc \in {"post", "done"}
         /\ GiveUp(u).good = u.good /\ GiveUp(u).case = u.case
<1>1. PICK v : v = [u EXCEPT !.failures = @ + Len(Chunk(u))]
  OBVIOUS
<1>2. /\ DOMAIN v = DOMAIN Silent /\ v.files = u.files /\ v.at = u.at /\ v.sent = u.sent
      /\ v.indexed = u.indexed /\ v.skipped = u.skipped /\ v.failures = u.failures + Len(Chunk(u))
      /\ v.good = u.good /\ v.case = u.case
  BY <1>1 DEF Silent, UploadOk
<1>3. Chunk(v) = Chunk(u)
  BY <1>2 DEF Chunk
<1>4. u.files \in Seq(File) /\ u.at \in 1 .. Len(u.files) + 1 /\ u.indexed \in Nat /\ u.skipped \in Nat
      /\ u.failures \in Nat /\ u.indexed + u.skipped + u.failures = u.at - 1
  BY DEF UploadOk
<1>5. Len(Chunk(u)) \in Nat /\ Len(u.files) \in Nat
  BY <1>4, Chunks
<1>6. v.failures \in Nat /\ v.indexed + v.skipped + v.failures = v.at - 1 + Len(Chunk(v))
  BY <1>2, <1>3, <1>4, <1>5
<1>7. UploadOk(NextBatch(v)) /\ NextBatch(v).pc \in {"post", "done"}
      /\ NextBatch(v).good = v.good /\ NextBatch(v).case = v.case
  BY <1>2, <1>4, <1>6, NextIsOk
<1> QED BY <1>1, <1>2, <1>7 DEF GiveUp

\* The bytes of a batch, as they are read.
LEMMA SentBytes ==
  ASSUME NEW f \in Seq(File), NEW d \in [File -> Bytes]
  PROVE  [i \in DOMAIN f |-> d[f[i]]] \in Seq(Bytes) /\ Len([i \in DOMAIN f |-> d[f[i]]]) = Len(f)
<1>1. DOMAIN f = 1 .. Len(f) /\ Len(f) \in Nat /\ \A i \in 1 .. Len(f) : f[i] \in File
  OBVIOUS
<1>2. [i \in 1 .. Len(f) |-> d[f[i]]] \in [1 .. Len(f) -> Bytes]
  BY <1>1
<1> QED BY <1>1, <1>2

\* A batch is sent, for the first time or again.
LEMMA PostFilesKeeps == ASSUME BatchesInv, NEW c \in Uploader, PostFiles(c) PROVE BatchesInv'
<1>1. PICK u, case : u = uploads[c] /\ case = u.case
  OBVIOUS
<1>2. UploadOk(u) /\ u.pc = "post" /\ \A k \in u.good : Delivered(k, case)
  BY <1>1 DEF BatchesInv, Clients, PostFiles
<1>3. Documents' /\ Grows /\ UNCHANGED <<archive, found, disk, job>>
  BY NoDocuments DEF PostFiles
<1>4. \A k \in u.good : Delivered(k, case)'
  BY <1>2, <1>3, DeliveredStays DEF BatchesInv
<1>5. \A g \in Handler : handlers[g].caller # c
  BY <1>1, <1>2, NotWaitedFor
<1>6. CASE uploads' = [uploads EXCEPT ![c] = GiveUp(u)] /\ UNCHANGED handlers
  <2>1. PICK v : v = GiveUp(u)
    OBVIOUS
  <2>2. UploadOk(v) /\ v.good = u.good /\ v.case = case
    BY <1>1, <1>2, <2>1, GivesUp
  <2>3. Clients'
    BY <1>3, <1>4, <1>6, <2>1, <2>2, ClientMoves DEF BatchesInv
  <2>4. Requests'
    BY <1>3, <1>5, <1>6, RequestsStay DEF BatchesInv, Clients
  <2> QED BY <1>3, <2>3, <2>4, RunsStay DEF BatchesInv
<1>7. ASSUME NEW h \in Handler, NEW sent, sent = [i \in DOMAIN Chunk(u) |-> disk[Chunk(u)[i]]],
             handlers[h] = Free, Turn(h, [Free EXCEPT !.pc = "next", !.caller = c, !.todo = sent, !.case = u.case]),
             uploads' = [uploads EXCEPT ![c] = [u EXCEPT !.pc = "wait", !.sent = sent]]
      PROVE  BatchesInv'
  <2>1. PICK r, v : /\ r = [Free EXCEPT !.pc = "next", !.caller = c, !.todo = sent, !.case = case]
                    /\ v = [u EXCEPT !.pc = "wait", !.sent = sent]
    OBVIOUS
  <2>2. /\ DOMAIN r = DOMAIN Free /\ r.pc = "next" /\ r.caller = c /\ r.todo = sent /\ r.results = <<>>
        /\ r.case = case
    BY <2>1 DEF Free
  <2>3. /\ DOMAIN v = DOMAIN Silent /\ v.pc = "wait" /\ v.sent = sent /\ v.files = u.files /\ v.at = u.at
        /\ v.indexed = u.indexed /\ v.skipped = u.skipped /\ v.failures = u.failures
        /\ v.good = u.good /\ v.case = case
    BY <1>1, <1>2, <2>1 DEF Silent, UploadOk
  <2>4. sent \in Seq(Bytes) /\ Len(sent) = Len(Chunk(u)) /\ <<>> \in Seq(Replies)
    <3>1. Chunk(u) \in Seq(File)
      BY <1>2, Chunks DEF UploadOk
    <3>2. disk \in [File -> Bytes]
      BY DEF BatchesInv, Documents
    <3> QED BY <1>7, <3>1, <3>2, SentBytes
  <2>5. Chunk(v) = Chunk(u)
    BY <2>3 DEF Chunk
  <2>6. UploadOk(v)
    BY <1>2, <2>3, <2>4, <2>5 DEF UploadOk
  <2>7. Clients'
    BY <1>3, <1>4, <1>7, <2>1, <2>3, <2>6, ClientMoves DEF BatchesInv
  <2>8. /\ DOMAIN handlers' = Handler /\ handlers'[h] = r /\ uploads'[c] = v
        /\ \A g \in Handler : g # h => handlers'[g] = handlers[g]
        /\ \A e \in Uploader : e # c => uploads'[e] = uploads[e]
    BY <1>1, <1>7, <2>1 DEF Turn, BatchesInv, Requests, Clients
  <2>9. HandlerOk(h)'
    BY <2>2, <2>4, <2>8 DEF HandlerOk, AtWork
  <2>10. Awaited(h)'
    <3>1. Len(r.results) = 0 /\ Len(sent) \in Nat /\ \A i \in 1 .. Len(sent) : r.todo[i] = sent[Len(r.results) + i]
      BY <2>2, <2>4
    <3>2. Len(r.results) + Len(r.todo) = Len(v.sent) /\ \A i \in 1 .. Len(r.results) : FALSE
      BY <2>2, <2>3, <3>1
    <3>3. uploads'[r.caller] = v /\ v.sent = sent /\ v.pc = "wait" /\ v.case = r.case /\ r.todo = sent
      BY <2>2, <2>3, <2>8
    <3> QED BY <2>8, <3>1, <3>2, <3>3 DEF Awaited
  <2>11. \A g \in Handler \ {h} : HandlerOk(g)' /\ Awaited(g)'
    <3> SUFFICES ASSUME NEW g \in Handler, g # h PROVE HandlerOk(g)' /\ Awaited(g)'
      OBVIOUS
    <3>1. handlers[g].caller # "none" => uploads'[handlers[g].caller] = uploads[handlers[g].caller]
      BY <1>5, <2>8 DEF BatchesInv, Requests, HandlerOk
    <3> QED BY <1>3, <2>8, <3>1, HandlerStays DEF BatchesInv
  <2>12. \A g, k \in Handler : handlers'[g].caller = handlers'[k].caller /\ g # k => handlers'[g].caller = "none"
    BY <1>5, <2>2, <2>8 DEF BatchesInv, Requests
  <2>13. Requests'
    BY <2>8, <2>9, <2>10, <2>11, <2>12 DEF Requests
  <2> QED BY <1>3, <2>7, <2>13, RunsStay DEF BatchesInv
<1> QED BY <1>1, <1>6, <1>7 DEF PostFiles

\* What a client counts of an answer.
LEMMA CountsAnswer ==
  ASSUME NEW u, UploadOk(u), u.pc = "wait", NEW rs \in Seq(Replies), Len(rs) = Len(u.sent)
  PROVE  LET v == NextBatch(Count(u, rs)) IN
         /\ UploadOk(v) /\ v.pc \in {"post", "done"} /\ v.case = u.case
         /\ \A k \in v.good : k \in u.good \/ \E i \in 1 .. Len(rs) : rs[i] \in Counted /\ k = u.sent[i]
<1>1. PICK n : n = Len(rs) /\ n \in Nat /\ DOMAIN rs = 1 .. n /\ n = Len(Chunk(u))
  <2>1. Len(rs) \in Nat /\ DOMAIN rs = 1 .. Len(rs)
    OBVIOUS
  <2>2. Len(rs) = Len(Chunk(u))
    BY DEF UploadOk
  <2> QED BY <2>1, <2>2
<1> DEFINE these(S) == {i \in DOMAIN rs : rs[i] \in S}
<1>2. PICK a, b, c : /\ a = Cardinality(these({"indexed"})) /\ b = Cardinality(these({"skipped"}))
                     /\ c = Cardinality(DOMAIN rs \ these({"indexed", "skipped"}))
  OBVIOUS
<1>3. a \in Nat /\ b \in Nat /\ c \in Nat /\ a + b + c = n
  BY <1>1, <1>2, ThreeParts
<1>4. PICK w : w = Count(u, rs)
  OBVIOUS
<1>5. w = [u EXCEPT !.indexed = @ + a, !.skipped = @ + b, !.failures = @ + c,
                    !.good = @ \cup {u.sent[i] : i \in these({"indexed", "skipped"})}]
  BY <1>2, <1>4 DEF Count
<1>6. /\ DOMAIN w = DOMAIN Silent /\ w.files = u.files /\ w.at = u.at /\ w.case = u.case
      /\ w.indexed = u.indexed + a /\ w.skipped = u.skipped + b /\ w.failures = u.failures + c
      /\ w.good = u.good \cup {u.sent[i] : i \in these({"indexed", "skipped"})}
  BY <1>5 DEF Silent, UploadOk
<1>7. Chunk(w) = Chunk(u)
  BY <1>6 DEF Chunk
<1>8. u.files \in Seq(File) /\ u.at \in 1 .. Len(u.files) + 1 /\ u.indexed \in Nat /\ u.skipped \in Nat
      /\ u.failures \in Nat /\ u.indexed + u.skipped + u.failures = u.at - 1 /\ Len(u.files) \in Nat
  BY DEF UploadOk
<1>9. w.indexed \in Nat /\ w.skipped \in Nat /\ w.failures \in Nat
      /\ w.indexed + w.skipped + w.failures = w.at - 1 + Len(Chunk(w))
  <2>1. PICK x, y, z, at : x = u.indexed /\ y = u.skipped /\ z = u.failures /\ at = u.at
    OBVIOUS
  <2>2. x \in Nat /\ y \in Nat /\ z \in Nat /\ at \in Nat /\ x + y + z = at - 1
    BY <1>8, <2>1
  <2>3. (x + a) + (y + b) + (z + c) = at - 1 + n
    BY <1>1, <1>3, <2>2
  <2>4. w.indexed = x + a /\ w.skipped = y + b /\ w.failures = z + c /\ w.at = at /\ Len(Chunk(w)) = n
    BY <1>1, <1>6, <1>7, <2>1
  <2>5. x + a \in Nat /\ y + b \in Nat /\ z + c \in Nat
    BY <1>3, <2>2
  <2> QED BY <2>3, <2>4, <2>5
<1>10. UploadOk(NextBatch(w)) /\ NextBatch(w).pc \in {"post", "done"}
       /\ NextBatch(w).good = w.good /\ NextBatch(w).case = w.case
  BY <1>6, <1>8, <1>9, NextIsOk
<1>11. \A k \in w.good : k \in u.good \/ \E i \in 1 .. Len(rs) : rs[i] \in Counted /\ k = u.sent[i]
  BY <1>1, <1>6 DEF Counted
<1> QED BY <1>4, <1>6, <1>10, <1>11

\* The answer is counted,
LEMMA ReadAnswerKeeps == ASSUME BatchesInv, NEW c \in Uploader, ReadAnswer(c) PROVE BatchesInv'
<1>1. PICK h \in Handler : /\ handlers[h].caller = c /\ handlers[h].pc = "200" /\ Turn(h, Free)
                           /\ uploads' = [uploads EXCEPT ![c] = NextBatch(Count(uploads[c], handlers[h].results))]
  BY DEF ReadAnswer
<1>2. PICK u, rs, v : u = uploads[c] /\ rs = handlers[h].results /\ v = NextBatch(Count(u, rs))
  OBVIOUS
<1>3. UploadOk(u) /\ u.pc = "wait" /\ \A k \in u.good : Delivered(k, u.case)
  BY <1>2 DEF BatchesInv, Clients, ReadAnswer
<1>4. rs \in Seq(Replies) /\ Len(rs) = Len(u.sent)
      /\ \A i \in 1 .. Len(rs) : rs[i] \in Counted => Delivered(u.sent[i], u.case)
  <2>1. HandlerOk(h) /\ Awaited(h) /\ c # "none"
    BY BatchesAssumption DEF BatchesInv, Requests
  <2>2. rs \in Seq(Replies) /\ handlers[h].todo = <<>>
    BY <1>1, <1>2, <2>1 DEF HandlerOk
  <2>3. Len(rs) + Len(<<>>) = Len(u.sent) /\ u.case = handlers[h].case
        /\ \A i \in 1 .. Len(rs) : rs[i] \in Counted => Delivered(u.sent[i], u.case)
    BY <1>1, <1>2, <2>1, <2>2 DEF Awaited
  <2> QED BY <2>2, <2>3
<1>5. UploadOk(v) /\ v.case = u.case
      /\ \A k \in v.good : k \in u.good \/ \E i \in 1 .. Len(rs) : rs[i] \in Counted /\ k = u.sent[i]
  BY <1>2, <1>3, <1>4, CountsAnswer
<1>6. Documents' /\ Grows /\ job' = job
  BY NoDocuments DEF ReadAnswer
<1>7. \A k \in v.good : Delivered(k, u.case)'
  BY <1>3, <1>4, <1>5, <1>6, DeliveredStays DEF BatchesInv
<1>8. Clients'
  BY <1>1, <1>2, <1>5, <1>6, <1>7, ClientMoves DEF BatchesInv
<1>9. Requests'
  <2>1. \A e \in Uploader : uploads'[e] # uploads[e] => \A g \in Handler \ {h} : handlers[g].caller # e
    BY <1>1, BatchesAssumption DEF BatchesInv, Requests, Clients
  <2>2. handlers'[h] = Free /\ Free.caller = "none"
    BY <1>1 DEF Turn, BatchesInv, Requests, Free
  <2> QED BY <1>1, <1>6, <2>1, <2>2, FreeIsOk, RequestMoves DEF BatchesInv
<1> QED BY <1>6, <1>8, <1>9, RunsStay DEF BatchesInv

\* or there is none: again, or the batch is counted as failed.
LEMMA NoAnswerKeeps == ASSUME BatchesInv, NEW c \in Uploader, NoAnswer(c) PROVE BatchesInv'
<1>1. PICK h \in Handler : handlers[h].caller = c /\ Turn(h, [handlers[h] EXCEPT !.caller = "none"])
  BY DEF NoAnswer
<1>2. PICK u, r : u = uploads[c] /\ r = [handlers[h] EXCEPT !.caller = "none"]
  OBVIOUS
<1>3. UploadOk(u) /\ \A k \in u.good : Delivered(k, u.case)
  BY <1>2 DEF BatchesInv, Clients
<1>4. Documents' /\ Grows /\ job' = job
  BY NoDocuments DEF NoAnswer
<1>5. PICK v : /\ uploads' = [uploads EXCEPT ![c] = v]
               /\ v = [u EXCEPT !.pc = "post", !.attempt = @ + 1, !.sent = <<>>] \/ v = GiveUp(u)
  BY <1>2 DEF NoAnswer
<1>6. UploadOk(v) /\ v.case = u.case /\ v.good = u.good
  <2>1. CASE v = GiveUp(u)
    BY <1>3, <2>1, GivesUp
  <2>2. CASE v = [u EXCEPT !.pc = "post", !.attempt = @ + 1, !.sent = <<>>]
    <3>1. /\ DOMAIN v = DOMAIN Silent /\ v.pc = "post" /\ v.sent = <<>> /\ v.files = u.files /\ v.at = u.at
          /\ v.indexed = u.indexed /\ v.skipped = u.skipped /\ v.failures = u.failures
          /\ v.good = u.good /\ v.case = u.case
      BY <1>3, <2>2 DEF Silent, UploadOk
    <3>2. <<>> \in Seq(Bytes)
      OBVIOUS
    <3> QED BY <1>3, <3>1, <3>2 DEF UploadOk
  <2> QED BY <1>5, <2>1, <2>2
<1>7. \A k \in v.good : Delivered(k, v.case)'
  BY <1>3, <1>4, <1>6, DeliveredStays DEF BatchesInv
<1>8. Clients'
  BY <1>4, <1>5, <1>6, <1>7, ClientMoves DEF BatchesInv
<1>9. Requests'
  <2>1. \A e \in Uploader : uploads'[e] # uploads[e] => \A g \in Handler \ {h} : handlers[g].caller # e
    BY <1>1, <1>5, BatchesAssumption DEF BatchesInv, Requests, Clients
  <2>2. PICK q : q = handlers[h] /\ HandlerOk(h)
    BY DEF BatchesInv, Requests
  <2>3. DOMAIN r = DOMAIN Free /\ r.caller = "none" /\ r.pc = q.pc /\ r.todo = q.todo /\ r.results = q.results
        /\ r.case = q.case /\ r.doc = q.doc
    BY <1>2, <2>2 DEF HandlerOk, Free
  <2>4. q.pc # "free"
    BY <1>1, <2>2, BatchesAssumption DEF HandlerOk, Free
  <2>5. r.pc \in {"process", "recover"} => r.todo # <<>> /\ Working(r.doc, Head(r.todo), r.case)'
    <3> SUFFICES ASSUME r.pc \in {"process", "recover"} PROVE r.todo # <<>> /\ Working(r.doc, Head(r.todo), r.case)'
      OBVIOUS
    <3>1. r.todo # <<>> /\ Working(r.doc, Head(r.todo), r.case) /\ Head(r.todo) \in Bytes
      BY <2>2, <2>3, WorksOn DEF HandlerOk, AtWork
    <3> QED BY <1>4, <3>1 DEF Working, Grows, HasCase
  <2>6. r.pc \in AtWork => r.todo # <<>>
    BY <2>2, <2>3 DEF HandlerOk
  <2>7. r.pc = "add" => \E d \in found' : archive'[d].key = Head(r.todo)
    BY <1>4, <2>2, <2>3 DEF HandlerOk, Grows
  <2>8. handlers'[h] = r
    BY <1>1, <1>2 DEF Turn, BatchesInv, Requests
  <2>9. HandlerOk(h)' /\ Awaited(h)'
    BY <2>2, <2>3, <2>4, <2>5, <2>6, <2>7, <2>8 DEF HandlerOk, Awaited
  <2> QED BY <1>1, <1>2, <1>4, <2>1, <2>3, <2>9, RequestMoves DEF BatchesInv
<1> QED BY <1>4, <1>8, <1>9, RunsStay DEF BatchesInv

-----------------------------------------------------------------------------
(* Directory runs. *)

\* A step of a directory run, or of nobody here.
LEMMA RunKeeps ==
  ASSUME BatchesInv, Documents', Grows, Runs', UNCHANGED <<handlers, uploads>>
  PROVE  BatchesInv'
<1>1. Requests'
  BY RequestsStay DEF BatchesInv
<1> QED BY <1>1, ClientsStay DEF BatchesInv

\* What was true of outcomes stays so in the same run.
LEMMA OutcomesStay ==
  ASSUME Documents, Grows, Runs, job'.kind = job.kind, job'.case = job.case, job'.manifest = job.manifest
  PROVE  \A o \in job.outcomes : o.ok => IsTrue(o)'
<1> SUFFICES ASSUME NEW o \in job.outcomes, o.ok PROVE IsTrue(o)'
  OBVIOUS
<1>1. IsTrue(o)
  BY DEF Runs
<1>2. o.doc \in found /\ o.doc \in DocId /\ archive[o.doc].state # "none" /\ job.case \in archive[o.doc].cases
  BY <1>1 DEF IsTrue, Documents, Live
<1>3. o.doc \in found' /\ job.case \in archive'[o.doc].cases /\ archive'[o.doc].key = archive[o.doc].key
      /\ archive'[o.doc].source = archive[o.doc].source
      /\ (archive[o.doc].state = "indexed" => archive'[o.doc].state = "indexed")
  BY <1>2 DEF Grows
<1> QED BY <1>1, <1>3 DEF IsTrue, Holds

\* A directory run begins; a manifest run compares every hash first.
LEMMA StartsRun ==
  ASSUME BatchesInv,
         \E case \in RunCase : \/ StartCorpus(case)
                               \/ \E m \in Manifests, allowed \in BOOLEAN : StartManifest(case, m, allowed)
  PROVE  BatchesInv'
<1>1. Documents' /\ Grows /\ UNCHANGED <<handlers, uploads>>
  BY NoDocuments DEF StartCorpus, StartManifest
<1>2. PICK case : StartCorpus(case) \/ \E m \in Manifests, allowed \in BOOLEAN : StartManifest(case, m, allowed)
  OBVIOUS
<1>3. CASE StartCorpus(case)
  <2>1. job' = [NoJob EXCEPT !.pc = "next", !.kind = "corpus", !.case = case, !.todo = File]
    BY <1>3 DEF StartCorpus
  <2>2. /\ DOMAIN job' = DOMAIN NoJob /\ job'.todo = File /\ job'.pc = "next"
        /\ job'.kind = "corpus" /\ job'.outcomes = {}
    BY <2>1 DEF NoJob
  <2>3. Runs'
    BY <2>2 DEF Runs, Running
  <2> QED BY <1>1, <2>3, RunKeeps
<1>4. ASSUME NEW m, NEW allowed, StartManifest(case, m, allowed) PROVE BatchesInv'
  <2>1. CASE job' = [NoJob EXCEPT !.pc = "refused"]
    <3>1. DOMAIN job' = DOMAIN NoJob /\ job'.todo = {} /\ job'.pc = "refused" /\ job'.outcomes = {}
      BY <2>1 DEF NoJob
    <3>2. Runs'
      BY <3>1 DEF Runs, Running
    <3> QED BY <1>1, <3>2, RunKeeps
  <2>2. CASE job' # [NoJob EXCEPT !.pc = "refused"]
    <3>1. (\A f \in File : m[f].sha = disk[f])
          /\ job' = [NoJob EXCEPT !.pc = "next", !.kind = "manifest", !.case = case, !.manifest = m,
                                  !.contents = disk, !.todo = File]
      BY <1>4, <2>2 DEF StartManifest
    <3>2. DOMAIN job' = DOMAIN NoJob /\ job'.todo = File /\ job'.pc = "next" /\ job'.outcomes = {}
          /\ job'.manifest = m /\ job'.contents = disk
      BY <3>1 DEF NoJob
    <3>3. disk \in [File -> Bytes]
      BY DEF BatchesInv, Documents
    <3>4. Runs'
      BY <3>1, <3>2, <3>3 DEF Runs, Running
    <3> QED BY <1>1, <3>4, RunKeeps
  <2> QED BY <2>1, <2>2
<1> QED BY <1>2, <1>3, <1>4

\* The run takes a file,
LEMMA IngestFileKeeps == ASSUME BatchesInv, NEW f \in File, IngestFile(f) PROVE BatchesInv'
<1>1. PICK k, url, case : /\ k = Data(f) /\ case = job.case
                          /\ url = IF job.kind = "manifest" THEN job.manifest[f].url ELSE NoUrl
  OBVIOUS
<1>2. PICK d \in DocId : /\ Registers(k, case, url, d)
                         /\ job' = [job EXCEPT !.pc = "process", !.file = f, !.doc = d, !.todo = @ \ {f}]
  BY <1>1 DEF IngestFile
<1>3. job.pc = "next" /\ UNCHANGED <<disk, found, handlers, uploads>> /\ disk' \in [File -> Bytes]
  BY DEF IngestFile, BatchesInv, Documents
<1>4. k \in Bytes /\ (job.kind = "manifest" => k = job.manifest[f].sha)
  BY <1>1, <1>3 DEF Data, BatchesInv, Runs, Running, Documents
<1>5. Documents' /\ Grows /\ Working(d, k, case)'
  BY <1>2, <1>3, <1>4, RegistersOne DEF BatchesInv
<1>6. /\ DOMAIN job' = DOMAIN NoJob /\ job'.pc = "process" /\ job'.file = f /\ job'.doc = d /\ job'.todo \subseteq File
      /\ job'.kind = job.kind /\ job'.case = case /\ job'.manifest = job.manifest /\ job'.contents = job.contents
      /\ job'.outcomes = job.outcomes
  BY <1>1, <1>2 DEF BatchesInv, Runs, NoJob
<1>7. \A o \in job'.outcomes : o.ok => IsTrue(o)'
  BY <1>1, <1>5, <1>6, OutcomesStay DEF BatchesInv
<1>8. HasCase(job.doc, job.case)' /\ (job'.kind = "manifest" => Holds(job.doc, job.manifest[job.file].sha)')
  <2>1. HasCase(d, case)' /\ Holds(d, k)'
    BY <1>5 DEF Working
  <2> QED BY <1>4, <1>6, <2>1 DEF HasCase, Holds
<1>9. job'.kind = "manifest" =>
        \A g \in File : job'.manifest[g].sha \in Bytes /\ job'.contents[g] = job'.manifest[g].sha
  BY <1>3, <1>6 DEF BatchesInv, Runs, Running
<1>10. Runs'
  BY <1>6, <1>7, <1>8, <1>9 DEF Runs, Running
<1> QED BY <1>3, <1>5, <1>10, RunKeeps

\* A file is done: called ok only when it is found, with what the manifest says.
LEMMA OutcomeKeeps ==
  ASSUME BatchesInv, job.pc \in {"process", "recover", "tell"}, NEW ok, Outcome(ok), Documents', Grows,
         NEW o, o = [file |-> job.file, doc |-> job.doc, ok |-> ok], ok => IsTrue(o)',
         UNCHANGED <<handlers, uploads>>
  PROVE  BatchesInv'
<1>1. job' = [job EXCEPT !.pc = "next", !.file = "none", !.doc = 0, !.outcomes = @ \cup {o}]
  BY DEF Outcome
<1>2. /\ DOMAIN job' = DOMAIN NoJob /\ job'.pc = "next" /\ job'.todo = job.todo /\ job'.outcomes = job.outcomes \cup {o}
      /\ job'.kind = job.kind /\ job'.case = job.case /\ job'.manifest = job.manifest /\ job'.contents = job.contents
  BY <1>1 DEF BatchesInv, Runs, NoJob
<1>3. \A x \in job.outcomes : x.ok => IsTrue(x)'
  BY <1>2, OutcomesStay DEF BatchesInv
<1>4. o.ok => IsTrue(o)'
  OBVIOUS
<1>5. \A x \in job'.outcomes : x.ok => IsTrue(x)'
  BY <1>2, <1>3, <1>4
<1>6. job'.kind = "manifest" =>
        \A g \in File : job'.manifest[g].sha \in Bytes /\ job'.contents[g] = job'.manifest[g].sha
  BY <1>2 DEF BatchesInv, Runs, Running
<1>7. Runs'
  BY <1>2, <1>5, <1>6 DEF BatchesInv, Runs, Running
<1> QED BY <1>7, RunKeeps

\* A directory run goes to another place with the same file, or ends.
LEMMA RunGoesTo ==
  ASSUME BatchesInv, NEW p \in {"process", "recover", "failed"}, job' = [job EXCEPT !.pc = p],
         p # "failed" => job.pc \in {"process", "recover"}, Documents', Grows, UNCHANGED <<handlers, uploads>>
  PROVE  BatchesInv'
<1>1. /\ DOMAIN job' = DOMAIN NoJob /\ job'.pc = p /\ job'.todo = job.todo /\ job'.outcomes = job.outcomes
      /\ job'.kind = job.kind /\ job'.case = job.case /\ job'.manifest = job.manifest /\ job'.contents = job.contents
      /\ job'.doc = job.doc /\ job'.file = job.file
  BY DEF BatchesInv, Runs, NoJob
<1>2. \A o \in job'.outcomes : o.ok => IsTrue(o)'
  BY <1>1, OutcomesStay DEF BatchesInv
<1>3. CASE p = "failed"
  <2>1. Runs'
    BY <1>1, <1>2, <1>3 DEF BatchesInv, Runs, Running
  <2> QED BY <2>1, RunKeeps
<1>4. CASE p # "failed"
  <2>1. PICK d, case, m, f : d = job.doc /\ case = job.case /\ m = job.manifest /\ f = job.file
    OBVIOUS
  <2>2. /\ d \in DocId /\ HasCase(d, case) /\ archive[d].state # "none" /\ f \in File
        /\ job.kind = "manifest" =>
             /\ Holds(d, m[f].sha) /\ m[f].sha \in Bytes
             /\ \A g \in File : m[g].sha \in Bytes /\ job.contents[g] = m[g].sha
    BY <1>4, <2>1 DEF BatchesInv, Runs, Running, HasCase
  <2>3. HasCase(d, case)' /\ (job.kind = "manifest" => Holds(d, m[f].sha)')
    BY <2>2 DEF Grows
  <2>4. HasCase(job.doc, job.case)' /\ (job'.kind = "manifest" => Holds(job.doc, job.manifest[job.file].sha)')
    BY <1>1, <2>1, <2>3
  <2>5. Runs'
    BY <1>1, <1>2, <2>1, <2>2, <2>4 DEF BatchesInv, Runs, Running
  <2> QED BY <2>5, RunKeeps
<1> QED BY <1>3, <1>4

\* processes its document,
LEMMA JobProcessKeeps == ASSUME BatchesInv, JobProcess PROVE BatchesInv'
<1>1. PICK d, case : d = job.doc /\ case = job.case
  OBVIOUS
<1>2. /\ job.pc = "process" /\ d \in DocId /\ HasCase(d, case) /\ archive[d].state # "none"
      /\ job.kind = "manifest" => Holds(d, job.manifest[job.file].sha) /\ job.manifest[job.file].sha \in Bytes
  BY <1>1 DEF JobProcess, BatchesInv, Runs, Running, HasCase
<1>3. Processes(d) /\ UNCHANGED <<handlers, uploads>> /\ disk' \in [File -> Bytes]
  BY <1>1 DEF JobProcess, BatchesInv, Documents
<1>4. Documents' /\ Grows /\ archive'[d].state = After(d) /\ archive'[d].source = archive[d].source
      /\ archive'[d].cases = archive[d].cases /\ archive'[d].key = archive[d].key
  BY <1>2, <1>3, ProcessesOne DEF BatchesInv
<1>5. CASE job' = [job EXCEPT !.pc = "recover"]
  BY <1>2, <1>3, <1>4, <1>5, RunGoesTo
<1>6. CASE job' # [job EXCEPT !.pc = "recover"]
  <2>1. PICK ok : ok = (/\ After(d) = "indexed"
                        /\ job.kind = "manifest" => archive[d].source = job.manifest[job.file].url)
    OBVIOUS
  <2>2. Outcome(ok)
    BY <1>1, <1>6, <2>1 DEF JobProcess
  <2>3. PICK o : o = [file |-> job.file, doc |-> job.doc, ok |-> ok]
    OBVIOUS
  <2>4. job'.kind = job.kind /\ job'.case = job.case /\ job'.manifest = job.manifest
    BY <2>2 DEF Outcome, BatchesInv, Runs, NoJob
  <2>5. ASSUME ok PROVE IsTrue(o)'
    <3>1. After(d) = "indexed" /\ (job.kind = "manifest" => archive[d].source = job.manifest[job.file].url)
      BY <2>1, <2>5
    <3>2. d \in found' /\ case \in archive'[d].cases /\ archive'[d].state = "indexed"
      BY <1>2, <1>4, <3>1 DEF Documents, Grows, HasCase
    <3>3. o.doc = d /\ o.file = job.file
      BY <1>1, <2>3
    <3>4. job.kind = "manifest" => archive'[d].key = job.manifest[job.file].sha \/
            (KindOf[job.manifest[job.file].sha] = "scan" /\ archive'[d].key = OcrOf[job.manifest[job.file].sha])
      BY <1>2, <1>4 DEF Holds
    <3> QED BY <1>1, <1>4, <2>4, <3>1, <3>2, <3>3, <3>4 DEF IsTrue, Holds
  <2> QED BY <1>2, <1>3, <1>4, <2>2, <2>3, <2>5, OutcomeKeeps
<1> QED BY <1>5, <1>6

\* recovers a scan,
LEMMA JobRecoverKeeps == ASSUME BatchesInv, JobRecover PROVE BatchesInv'
<1>1. PICK d : d = job.doc /\ d \in DocId /\ job.pc = "recover"
  BY DEF JobRecover, BatchesInv, Runs
<1>2. UNCHANGED <<disk, found, handlers, uploads>> /\ disk' \in [File -> Bytes]
  BY DEF JobRecover, BatchesInv, Documents
<1>3. CASE job' = [job EXCEPT !.pc = "failed"] /\ UNCHANGED archive
  <2>1. Documents' /\ Grows
    BY <1>2, <1>3, NoneChanges DEF BatchesInv
  <2> QED BY <1>2, <1>3, <2>1, RunGoesTo
<1>4. ASSUME archive[d].state = "unprocessable_ocr", Rekeys(d), job' = [job EXCEPT !.pc = "process"] PROVE BatchesInv'
  <2>1. Documents' /\ Grows
    BY <1>1, <1>2, <1>4, RecoversOne DEF BatchesInv
  <2> QED BY <1>1, <1>2, <1>4, <2>1, RunGoesTo
<1>5. ASSUME archive[d].state = "unprocessable_ocr", NEW owner \in LiveWith(OcrOf[archive[d].key]), Gives(d, owner),
             job' = [job EXCEPT !.pc = "tell", !.doc = owner]
      PROVE  BatchesInv'
  <2>1. Documents' /\ Grows
    BY <1>1, <1>2, <1>5, RecoversOne DEF BatchesInv
  <2>2. /\ DOMAIN job' = DOMAIN NoJob /\ job'.pc = "tell" /\ job'.todo = job.todo /\ job'.outcomes = job.outcomes
        /\ job'.kind = job.kind /\ job'.case = job.case /\ job'.manifest = job.manifest /\ job'.contents = job.contents
    BY <1>5 DEF BatchesInv, Runs, NoJob
  <2>3. \A o \in job'.outcomes : o.ok => IsTrue(o)'
    BY <2>1, <2>2, OutcomesStay DEF BatchesInv
  <2>4. Runs'
    BY <1>1, <2>2, <2>3 DEF BatchesInv, Runs, Running
  <2> QED BY <1>2, <2>1, <2>4, RunKeeps
<1> QED BY <1>1, <1>3, <1>4, <1>5 DEF JobRecover

\* tells the index of the dossiers its owner gained,
LEMMA JobTellsKeeps == ASSUME BatchesInv, JobTells PROVE BatchesInv'
<1>1. UNCHANGED <<disk, archive, found, handlers, uploads>> /\ job.pc = "tell" /\ Outcome(FALSE)
  BY DEF JobTells, Tells
<1>2. Documents' /\ Grows
  BY <1>1, NoneChanges DEF BatchesInv, Documents
<1> QED BY <1>1, <1>2, OutcomeKeeps

\* fails on it,
LEMMA JobFailsKeeps == ASSUME BatchesInv, JobFails PROVE BatchesInv'
<1>1. UNCHANGED <<disk, handlers, uploads>> /\ disk' \in [File -> Bytes]
  BY DEF JobFails, BatchesInv, Documents
<1>2. Documents' /\ Grows
  <2>1. CASE job.pc = "process"
    <3>1. PICK d : d = job.doc /\ d \in DocId
      BY <2>1 DEF BatchesInv, Runs
    <3>2. ProcessBreaks(d)
      BY <2>1, <3>1 DEF JobFails
    <3> QED BY <1>1, <3>1, <3>2, ProcessesOne DEF BatchesInv
  <2>2. CASE job.pc # "process"
    BY <1>1, <2>2, NoneChanges DEF JobFails, BatchesInv
  <2> QED BY <2>1, <2>2
<1>3. CASE job' = [job EXCEPT !.pc = "failed"]
  BY <1>1, <1>2, <1>3, RunGoesTo
<1>4. CASE job.pc = "process" /\ Outcome(FALSE)
  BY <1>1, <1>2, <1>4, OutcomeKeeps
<1> QED BY <1>3, <1>4 DEF JobFails

\* and ends.
LEMMA JobEndsKeeps == ASSUME BatchesInv, JobEnds PROVE BatchesInv'
<1>1. Documents' /\ Grows /\ UNCHANGED <<handlers, uploads>>
  BY NoDocuments DEF JobEnds
<1>2. job' = [job EXCEPT !.pc = "done", !.contents = <<>>]
  BY DEF JobEnds
<1>3. /\ DOMAIN job' = DOMAIN NoJob /\ job'.pc = "done" /\ job'.todo = job.todo /\ job'.outcomes = job.outcomes
      /\ job'.kind = job.kind /\ job'.case = job.case /\ job'.manifest = job.manifest
  BY <1>2 DEF BatchesInv, Runs, NoJob
<1>4. \A o \in job'.outcomes : o.ok => IsTrue(o)'
  BY <1>1, <1>3, OutcomesStay DEF BatchesInv
<1>5. Runs'
  BY <1>3, <1>4 DEF BatchesInv, Runs, Running
<1> QED BY <1>1, <1>5, RunKeeps

\* A file on disk gets other bytes; what was read of it stays.
LEMMA EditKeeps == ASSUME BatchesInv, NEW e \in Edits, Edit(e[1], e[2]) PROVE BatchesInv'
<1>1. e[1] \in File /\ e[2] \in Bytes
  BY BatchesAssumption
<1>2. disk' \in [File -> Bytes] /\ UNCHANGED <<archive, found, handlers, uploads, job>>
  BY <1>1 DEF Edit, BatchesInv, Documents
<1>3. Documents' /\ Grows
  BY <1>2, NoneChanges DEF BatchesInv
<1>4. Runs'
  BY <1>2, <1>3, RunsStay DEF BatchesInv
<1> QED BY <1>2, <1>3, <1>4, RunKeeps

-----------------------------------------------------------------------------
\* Nothing changes.
LEMMA NoBatchStep == BatchesInv /\ UNCHANGED bvars => BatchesInv'
<1> SUFFICES ASSUME BatchesInv, UNCHANGED bvars PROVE BatchesInv'
  OBVIOUS
<1>1. UNCHANGED <<disk, archive, found, handlers, uploads, job>>
  BY DEF bvars
<1>2. Documents' /\ Grows
  BY <1>1, NoDocuments
<1>3. Runs'
  BY <1>1, <1>2, RunsStay DEF BatchesInv
<1> QED BY <1>1, <1>2, <1>3, RunKeeps

\* At first there is nothing.
LEMMA BatchesStart == BInit => BatchesInv
<1> SUFFICES ASSUME BInit PROVE BatchesInv
  OBVIOUS
<1>1. Documents
  <2>1. disk \in [File -> Bytes] /\ found = {} /\ archive = [d \in DocId |-> Unused]
    BY BatchesAssumption DEF BInit
  <2>2. \A d \in DocId : archive[d] = Unused /\ archive[d].state = "none"
    BY <2>1 DEF Unused
  <2> QED BY <2>1, <2>2 DEF Documents, Live, States
<1>2. Requests
  <2>1. DOMAIN handlers = Handler /\ \A h \in Handler : handlers[h] = Free
    BY DEF BInit
  <2>2. Free.todo = <<>> /\ Free.results = <<>> /\ Free.caller = "none" /\ Free.pc = "free"
    BY DEF Free
  <2>3. <<>> \in Seq(Bytes) /\ <<>> \in Seq(Replies)
    OBVIOUS
  <2> QED BY <2>1, <2>2, <2>3 DEF Requests, HandlerOk, Awaited, AtWork
<1>3. Clients
  <2>1. DOMAIN uploads = Uploader /\ \A c \in Uploader : uploads[c] = Silent
    BY DEF BInit
  <2>2. /\ Silent.files = <<>> /\ Silent.sent = <<>> /\ Silent.at = 1 /\ Silent.indexed = 0 /\ Silent.skipped = 0
        /\ Silent.failures = 0 /\ Silent.good = {} /\ Silent.pc = "idle"
    BY DEF Silent
  <2>3. <<>> \in Seq(File) /\ <<>> \in Seq(Bytes) /\ Len(<<>>) = 0
    OBVIOUS
  <2>4. UploadOk(Silent)
    BY <2>2, <2>3 DEF UploadOk
  <2> QED BY <2>1, <2>2, <2>4 DEF Clients
<1>4. Runs
  BY DEF BInit, Runs, Running, NoJob
<1> QED BY <1>1, <1>2, <1>3, <1>4 DEF BatchesInv

\* Together.
LEMMA BatchesInvariant == BSpec => []BatchesInv
<1>1. BatchesInv /\ [BNext]_bvars => BatchesInv'
  <2> SUFFICES ASSUME BatchesInv, BNext PROVE BatchesInv'
    BY NoBatchStep
  <2>1. ASSUME NEW h \in Handler,
               \/ TakeFile(h) \/ AddFile(h) \/ TellIndex(h) \/ RegisterFile(h)
               \/ KeysRefused(h) \/ ProcessFile(h) \/ RecoverFile(h)
               \/ FileFails(h, "retryable") \/ FileFails(h, "error")
               \/ ServerDies(h) \/ Answers200(h) \/ Unheard(h)
        PROVE  BatchesInv'
    BY <2>1, TakeFileKeeps, AddFileKeeps, TellIndexKeeps, RegisterFileKeeps, ProcessFileKeeps, RecoverFileKeeps, EndpointFails, EndpointEnds
  <2>2. ASSUME NEW c \in Uploader,
               \/ \E o \in Orders : StartUpload(c, o[1], o[2], o[3])
               \/ PostFiles(c) \/ ReadAnswer(c) \/ NoAnswer(c)
        PROVE  BatchesInv'
    BY <2>2, StartUploadKeeps, PostFilesKeeps, ReadAnswerKeeps, NoAnswerKeeps
  <2>3. CASE \/ \E case \in RunCase :
                   StartCorpus(case) \/ \E m \in Manifests, allowed \in BOOLEAN : StartManifest(case, m, allowed)
             \/ \E f \in File : IngestFile(f)
             \/ \E e \in Edits : Edit(e[1], e[2])
    BY <2>3, StartsRun, IngestFileKeeps, EditKeeps
  <2>4. CASE JobProcess \/ JobRecover \/ JobTells \/ JobFails \/ JobEnds
    BY <2>4, JobProcessKeeps, JobRecoverKeeps, JobTellsKeeps, JobFailsKeeps, JobEndsKeeps
  <2> QED BY <2>1, <2>2, <2>3, <2>4 DEF BNext
<1> QED BY <1>1, BatchesStart, PTL DEF BSpec

\* What a client or a directory run reports is true of the documents and of what
\* the index has, not of the dossiers in its entries, for any number of clients,
\* requests, files and contents: answers get lost after the work was done, the
\* same batch is sent again while the server is still at it, files change on
\* disk, steps fail, and the document of one request is recovered or superseded
\* by another.
THEOREM ReportsStayTrue == BSpec => []ReportsAreTrue
<1>1. BatchesInv => ReportsAreTrue
  <2> SUFFICES ASSUME BatchesInv PROVE ReportsAreTrue
    OBVIOUS
  <2>1. ASSUME NEW c \in Uploader, uploads[c].pc = "done"
        PROVE  uploads[c].indexed + uploads[c].skipped + uploads[c].failures = Len(uploads[c].files)
    <3>1. UploadOk(uploads[c])
      BY DEF BatchesInv, Clients
    <3>2. PICK n, at, sum : /\ n = Len(uploads[c].files) /\ at = uploads[c].at
                            /\ sum = uploads[c].indexed + uploads[c].skipped + uploads[c].failures
      OBVIOUS
    <3>3. n \in Nat /\ at = n + 1 /\ sum = at - 1
      BY <2>1, <3>1, <3>2 DEF UploadOk
    <3> QED BY <3>2, <3>3
  <2>2. \A c \in Uploader : \A k \in uploads[c].good : Delivered(k, uploads[c].case)
    BY DEF BatchesInv, Clients
  <2>3. \A o \in job.outcomes : o.ok => IsTrue(o)
    BY DEF BatchesInv, Runs
  <2> QED BY <2>1, <2>2, <2>3 DEF ReportsAreTrue, IsTrue, Holds
<1> QED BY <1>1, BatchesInvariant, PTL

-----------------------------------------------------------------------------
(* The request limit: what the replicas together let through.              *)

\* f adds up what is served on b from the second `from` to each of the next.
Sums(s, b, from, to, f) ==
  f = [t \in from - 1 .. to |-> IF t < from THEN 0 ELSE f[t - 1] + s[<<b, t>>]]

\* Induction, for a set of numbers.
LEMMA NatSets ==
  ASSUME NEW S, S \subseteq Nat, 0 \in S, \A n \in S : n + 1 \in S PROVE S = Nat
<1> SUFFICES ASSUME Nat \ S # {} PROVE FALSE
  OBVIOUS
<1> DEFINE R == OpToRel(<, Nat)
<1>1. PICK m \in Nat \ S : \A n \in Nat \ S : ~ (<<n, m>> \in R)
  <2> HIDE DEF R
  <2>1. IsWellFoundedOn(R, Nat)
    BY NatLessThanWellFounded DEF R
  <2> QED BY <2>1, WFMin
<1> HIDE DEF R
<1>2. m # 0 /\ m - 1 \in Nat /\ m - 1 < m /\ (m - 1) + 1 = m
  BY <1>1
<1>3. m - 1 \in S
  BY <1>1, <1>2 DEF R, OpToRel
<1> QED BY <1>1, <1>2, <1>3

\* There is a sum.
LEMMA SumExists ==
  ASSUME NEW s, NEW b, NEW from \in Nat, NEW n \in Nat PROVE \E f : Sums(s, b, from, from - 1 + n, f)
<1> DEFINE S == {k \in Nat : \E f : Sums(s, b, from, from - 1 + k, f)}
<1>1. 0 \in S
  <2> DEFINE f == [t \in from - 1 .. from - 1 |-> 0]
  <2>1. Sums(s, b, from, from - 1, f)
    BY DEF Sums
  <2> QED BY <2>1
<1>2. ASSUME NEW k \in S PROVE k + 1 \in S
  <2>1. PICK f : Sums(s, b, from, from - 1 + k, f)
    OBVIOUS
  <2>2. PICK m : m = from + k /\ m \in Nat /\ from - 1 + k = m - 1 /\ from - 1 + (k + 1) = m /\ from <= m
    OBVIOUS
  <2> DEFINE g == [t \in from - 1 .. m |-> IF t = m THEN f[m - 1] + s[<<b, m>>] ELSE f[t]]
  <2>3. \A t \in from - 1 .. m - 1 : f[t] = IF t < from THEN 0 ELSE f[t - 1] + s[<<b, t>>]
    BY <2>1, <2>2 DEF Sums
  <2>4. ASSUME NEW t \in from - 1 .. m PROVE g[t] = IF t < from THEN 0 ELSE g[t - 1] + s[<<b, t>>]
    <3>1. CASE t = m
      BY <2>2, <3>1
    <3>2. CASE t # m
      BY <2>2, <2>3, <3>2
    <3> QED BY <3>1, <3>2
  <2>5. Sums(s, b, from, m, g)
    <3>1. g = [t \in from - 1 .. m |-> g[t]]
      OBVIOUS
    <3> HIDE DEF g
    <3>2. [t \in from - 1 .. m |-> g[t]] =
            [t \in from - 1 .. m |-> IF t < from THEN 0 ELSE g[t - 1] + s[<<b, t>>]]
      BY <2>4
    <3> QED BY <3>1, <3>2 DEF Sums
  <2>6. \E x : Sums(s, b, from, from - 1 + (k + 1), x)
    BY <2>2, <2>5
  <2> QED BY <2>6
<1> HIDE DEF S
<1>3. S = Nat
  BY <1>1, <1>2, NatSets DEF S
<1> QED BY <1>3 DEF S

\* ServedIn is the last of the sums.
LEMMA ServedInSums ==
  ASSUME NEW b, NEW from \in Nat, NEW to \in Nat, from <= to
  PROVE  \E f : Sums(served, b, from, to, f) /\ ServedIn(b, from, to) = f[to]
<1> DEFINE g == CHOOSE sum :
                  sum = [t \in from - 1 .. to |-> IF t < from THEN 0 ELSE sum[t - 1] + served[<<b, t>>]]
<1>1. PICK s : s = served
  OBVIOUS
<1>2. to - from + 1 \in Nat /\ from - 1 + (to - from + 1) = to
  OBVIOUS
<1>3. \E f : Sums(s, b, from, to, f)
  BY <1>2, SumExists
<1>4. \E f : Sums(served, b, from, to, f)
  BY <1>1, <1>3 DEF Sums
<1>5. Sums(served, b, from, to, g)
  BY <1>4 DEF Sums
<1>6. ServedIn(b, from, to) = g[to]
  BY DEF ServedIn
<1> QED BY <1>5, <1>6

\* And after the step.
LEMMA ServedInSumsNext ==
  ASSUME NEW b, NEW from \in Nat, NEW to \in Nat, from <= to
  PROVE  \E f : Sums(served', b, from, to, f) /\ ServedIn(b, from, to)' = f[to]
<1> DEFINE g == CHOOSE sum :
                  sum = [t \in from - 1 .. to |-> IF t < from THEN 0 ELSE sum[t - 1] + served'[<<b, t>>]]
<1>1. PICK s : s = served'
  OBVIOUS
<1>2. to - from + 1 \in Nat /\ from - 1 + (to - from + 1) = to
  OBVIOUS
<1>3. \E f : Sums(s, b, from, to, f)
  BY <1>2, SumExists
<1>4. \E f : Sums(served', b, from, to, f)
  BY <1>1, <1>3 DEF Sums
<1>5. Sums(served', b, from, to, g)
  BY <1>4 DEF Sums
<1>6. ServedIn(b, from, to)' = g[to]
  BY DEF ServedIn
<1> QED BY <1>5, <1>6

\* z is s with d more served on b in the second `now`.
Adds(s, z, b, from, to, now, d) ==
  /\ \A t \in from .. to : s[<<b, t>>] \in Nat
  /\ \A t \in from .. to : z[<<b, t>>] = s[<<b, t>>] + IF t = now THEN d ELSE 0

\* One more served in the second `now` is one more in every stretch that has it.
LEMMA SumGrows ==
  ASSUME NEW s, NEW z, NEW b, NEW from \in Nat, NEW to \in Nat, from <= to, NEW f, NEW g,
         Sums(s, b, from, to, f), Sums(z, b, from, to, g), NEW now \in Nat, NEW d \in Nat,
         Adds(s, z, b, from, to, now, d)
  PROVE  f[to] \in Nat /\ g[to] = f[to] + IF from <= now /\ now <= to THEN d ELSE 0
<1> DEFINE Fine(t) == f[t] \in Nat /\ g[t] = f[t] + IF from <= now /\ now <= t THEN d ELSE 0
           S == {k \in Nat : from - 1 + k <= to => Fine(from - 1 + k)}
<1>1. /\ \A t \in from - 1 .. to : f[t] = IF t < from THEN 0 ELSE f[t - 1] + s[<<b, t>>]
      /\ \A t \in from - 1 .. to : g[t] = IF t < from THEN 0 ELSE g[t - 1] + z[<<b, t>>]
  BY DEF Sums
<1>2. 0 \in S
  <2>1. from - 1 \in from - 1 .. to /\ from - 1 < from /\ ~(from <= from - 1) /\ from - 1 + 0 = from - 1
    OBVIOUS
  <2>2. f[from - 1] = 0 /\ g[from - 1] = 0
    BY <1>1, <2>1
  <2> QED BY <2>1, <2>2
<1>3. ASSUME NEW k \in S PROVE k + 1 \in S
  <2> SUFFICES ASSUME from - 1 + (k + 1) <= to PROVE Fine(from - 1 + (k + 1))
    OBVIOUS
  <2>1. PICK m : m = from + k /\ m \in Nat /\ from - 1 + k = m - 1 /\ from - 1 + (k + 1) = m
    OBVIOUS
  <2>2. m \in from .. to /\ m - 1 <= to /\ ~(m < from)
    BY <2>1
  <2>3. Fine(m - 1)
    BY <2>1, <2>2
  <2>4. f[m] = f[m - 1] + s[<<b, m>>] /\ g[m] = g[m - 1] + z[<<b, m>>]
    BY <1>1, <2>2
  <2>5. PICK x, y : x = f[m - 1] /\ y = s[<<b, m>>] /\ x \in Nat /\ y \in Nat
    BY <2>2, <2>3 DEF Adds
  <2>6. /\ f[m] = x + y /\ g[m - 1] = x + IF from <= now /\ now <= m - 1 THEN d ELSE 0
        /\ z[<<b, m>>] = y + IF m = now THEN d ELSE 0
    BY <2>2, <2>3, <2>4, <2>5 DEF Adds
  <2>7. Fine(m)
    <3>1. f[m] \in Nat
      BY <2>5, <2>6
    <3>2. g[m] = g[m - 1] + (y + IF m = now THEN d ELSE 0)
      BY <2>4, <2>6
    <3>3. CASE m = now
      <4>1. ~(now <= m - 1) /\ from <= now /\ now <= m
        BY <2>1, <2>2, <3>3
      <4>2. g[m] = x + (y + d)
        BY <2>5, <2>6, <3>2, <3>3, <4>1
      <4> QED BY <2>5, <2>6, <3>1, <4>1, <4>2
    <3>4. CASE m # now
      <4>1. now <= m <=> now <= m - 1
        BY <2>1, <3>4
      <4>2. g[m] = g[m - 1] + y
        BY <2>5, <3>2, <3>4
      <4> QED BY <2>5, <2>6, <3>1, <4>1, <4>2
    <3> QED BY <3>3, <3>4
  <2> QED BY <2>1, <2>7
<1> HIDE DEF S
<1>4. S = Nat
  BY <1>2, <1>3, NatSets DEF S
<1>5. to - from + 1 \in S /\ from - 1 + (to - from + 1) = to
  BY <1>4
<1> QED BY <1>5 DEF S

\* What nothing adds up to.
LEMMA SumOfNothing ==
  ASSUME NEW s, NEW b, NEW from \in Nat, NEW to \in Nat, from <= to, NEW f, Sums(s, b, from, to, f),
         \A t \in from .. to : s[<<b, t>>] = 0
  PROVE  f[to] = 0
<1> DEFINE S == {k \in Nat : from - 1 + k <= to => f[from - 1 + k] = 0}
<1>1. \A t \in from - 1 .. to : f[t] = IF t < from THEN 0 ELSE f[t - 1] + s[<<b, t>>]
  BY DEF Sums
<1>2. 0 \in S
  <2>1. from - 1 \in from - 1 .. to /\ from - 1 < from /\ from - 1 + 0 = from - 1
    OBVIOUS
  <2>2. f[from - 1] = 0
    BY <1>1, <2>1
  <2> QED BY <2>1, <2>2
<1>3. ASSUME NEW k \in S PROVE k + 1 \in S
  <2> SUFFICES ASSUME from - 1 + (k + 1) <= to PROVE f[from - 1 + (k + 1)] = 0
    OBVIOUS
  <2>1. PICK m : m = from + k /\ m \in Nat /\ from - 1 + k = m - 1 /\ from - 1 + (k + 1) = m
    OBVIOUS
  <2>2. m \in from .. to /\ m - 1 <= to /\ ~(m < from)
    BY <2>1
  <2>3. f[m - 1] = 0 /\ f[m] = f[m - 1] + s[<<b, m>>] /\ s[<<b, m>>] = 0
    BY <1>1, <2>1, <2>2
  <2> QED BY <2>1, <2>3
<1> HIDE DEF S
<1>4. S = Nat
  BY <1>2, <1>3, NatSets DEF S
<1>5. to - from + 1 \in S /\ from - 1 + (to - from + 1) = to
  BY <1>4
<1> QED BY <1>5 DEF S

\* A step serves d requests on c in the second `now`.
Serves(c, now, d) ==
  \A x \in Bucket \X (0 .. MaxTime) : served'[x] = served[x] + IF x = <<c, now>> THEN d ELSE 0

\* And so they count.
LEMMA ServedInGrows ==
  ASSUME MaxTime \in Nat, served \in [Bucket \X (0 .. MaxTime) -> Nat],
         NEW c \in Bucket, NEW now \in 0 .. MaxTime, NEW d \in Nat,
         Serves(c, now, d), NEW b \in Bucket, NEW from \in 0 .. MaxTime, NEW to \in from .. MaxTime
  PROVE  /\ ServedIn(b, from, to) \in Nat
         /\ ServedIn(b, from, to)' =
              ServedIn(b, from, to) + IF b = c /\ from <= now /\ now <= to THEN d ELSE 0
<1>1. from \in Nat /\ to \in Nat /\ from <= to /\ now \in Nat /\ to <= MaxTime
  OBVIOUS
<1>2. PICK f : Sums(served, b, from, to, f) /\ ServedIn(b, from, to) = f[to]
  BY <1>1, ServedInSums
<1>3. PICK g : Sums(served', b, from, to, g) /\ ServedIn(b, from, to)' = g[to]
  BY <1>1, ServedInSumsNext
<1>4. PICK s, z : s = served /\ z = served'
  OBVIOUS
<1>5. Sums(s, b, from, to, f) /\ Sums(z, b, from, to, g)
  BY <1>2, <1>3, <1>4
<1>6. PICK e \in Nat : e = IF b = c THEN d ELSE 0
  OBVIOUS
<1>7. ASSUME NEW t \in from .. to
      PROVE  s[<<b, t>>] \in Nat /\ z[<<b, t>>] = s[<<b, t>>] + IF t = now THEN e ELSE 0
  <2>1. <<b, t>> \in Bucket \X (0 .. MaxTime)
    BY <1>1
  <2>2. <<b, t>> = <<c, now>> <=> b = c /\ t = now
    OBVIOUS
  <2> QED BY <1>4, <1>6, <2>1, <2>2 DEF Serves
<1>8. f[to] \in Nat /\ g[to] = f[to] + IF from <= now /\ now <= to THEN e ELSE 0
  <2>1. Adds(s, z, b, from, to, now, e)
    BY <1>7 DEF Adds
  <2> QED BY <1>1, <1>5, <1>6, <2>1, SumGrows
<1> QED BY <1>2, <1>3, <1>6, <1>8

-----------------------------------------------------------------------------
\* What a row can hold.
RowOk(row) ==
  /\ DOMAIN row = DOMAIN NoBucket
  /\ row.there \in BOOLEAN /\ row.tokens \in Int /\ row.at \in Int

\* What the clock, the checks and the rows can be.
Counts ==
  /\ clock \in 0 .. MaxTime
  /\ DOMAIN check = Checker
  /\ \A w \in Checker :
       check[w].pc = "begun" => check[w].bucket \in Bucket /\ check[w].start \in 0 .. MaxTime
  /\ served \in [Bucket \X (0 .. MaxTime) -> Nat]
  /\ DOMAIN buckets = Bucket /\ \A b \in Bucket : RowOk(buckets[b])

\* In a stretch of time n requests were served: those and what the row still has are
\* no more than a full bucket and the refill since the stretch began.
Within(path, row, n, from, to) ==
  /\ n * One <= Burst[path] + (to - from) * Rate[path]
  /\ n > 0 => /\ row.there
              /\ row.tokens - row.at * Rate[path] + n * One <= Burst[path] - from * Rate[path]

\* A client that was refused and waited is served.
Waited(path, row) ==
  ~row.allowed /\ Burst[path] >= One => Filled(path, row, row.at + row.retry) >= One

\* All of it.
LimitInv ==
  /\ Counts
  /\ \A b \in Bucket :
       /\ \A from \in 0 .. MaxTime : \A to \in from .. MaxTime :
            Within(b[1], buckets[b], ServedIn(b, from, to), from, to)
       /\ Waited(b[1], buckets[b])

\* A later second refills no less.
LEMMA Refills ==
  ASSUME NEW a \in Int, NEW b \in Int, NEW r \in Nat, a <= b PROVE a * r <= b * r
<1>1. (b - a) \in Nat /\ (b - a) * r >= 0
  OBVIOUS
<1>2. (b - a) * r = b * r - a * r
  OBVIOUS
<1>3. a * r \in Int /\ b * r \in Int
  OBVIOUS
<1> QED BY <1>1, <1>2, <1>3

\* The time to retry is enough.
LEMMA RetryIsEnough ==
  ASSUME NEW one \in Nat, NEW r \in Nat \ {0}, NEW x \in Int, x < one,
         NEW k \in Nat, k >= (one - x + r - 1) \div r
  PROVE  x + k * r >= one
<1>1. PICK y \in Int : y = one - x + r - 1
  OBVIOUS
<1>2. PICK q \in Int : q = y \div r
  OBVIOUS
<1>3. y < q * r + r
  BY <1>2
<1>4. q * r <= k * r
  BY <1>1, <1>2, Refills
<1>5. q * r \in Int /\ k * r \in Int
  OBVIOUS
<1> QED BY <1>1, <1>3, <1>4, <1>5

\* What a check leaves, and what it adds to a stretch.
Leaves(filled, left) == left = IF filled >= One THEN filled - One ELSE filled
AddsOne(n, m, from, to, now, filled) ==
  m = n + IF from <= now /\ now <= to /\ filled >= One THEN 1 ELSE 0

\* A check keeps to the budget.  F, T, N and A are the ends of the stretch, now and the
\* time the row was counted, in parts refilled by then.
LEMMA Spends ==
  ASSUME RateLimitAssumption, NEW path \in Limited, NEW row, RowOk(row), NEW now \in 0 .. MaxTime,
         NEW n \in Nat, NEW from \in 0 .. MaxTime, NEW to \in from .. MaxTime,
         Within(path, row, n, from, to),
         NEW filled, filled = Filled(path, row, now), NEW left, Leaves(filled, left),
         NEW new, RowOk(new), new.there, new.tokens = left, new.at = now,
         NEW m, AddsOne(n, m, from, to, now, filled)
  PROVE  Within(path, new, m, from, to)
<1>1. One \in Nat \ {0} /\ Burst[path] \in Nat \ {0} /\ Rate[path] \in Nat \ {0} /\ MaxTime \in Nat
  BY DEF RateLimitAssumption
<1>2. PICK B \in Nat, r \in Nat : B = Burst[path] /\ r = Rate[path]
  BY <1>1
<1>3. from \in Nat /\ to \in Nat /\ now \in Nat /\ from <= to /\ row.at \in Int /\ row.tokens \in Int
  BY <1>1 DEF RowOk
<1>4. PICK F \in Int, T \in Int, N \in Int, A \in Int :
        F = from * r /\ T = to * r /\ N = now * r /\ A = row.at * r
  BY <1>3
<1>5. (to - from) * r = T - F /\ (now - row.at) * r = N - A
  BY <1>3, <1>4
<1>6. (from <= now => F <= N) /\ (now <= to => N <= T)
  BY <1>3, <1>4, Refills
<1>7. PICK p \in Int : p = n * One
  BY <1>1
<1>8. (n + 1) * One = p + One
  BY <1>1, <1>7
<1>9. /\ p <= B + T - F
      /\ n > 0 => row.there /\ row.tokens - A + p <= B - F
      /\ n = 0 => p = 0
  BY <1>1, <1>2, <1>3, <1>4, <1>5, <1>7 DEF Within
<1>10. /\ filled \in Int /\ filled <= B
       /\ row.there => filled <= row.tokens + N - A
  <2>1. CASE row.there
    <3>1. filled = Least(B, row.tokens + (N - A))
      BY <1>2, <1>5, <2>1 DEF Filled
    <3> QED BY <1>2, <1>3, <1>4, <3>1 DEF Least
  <2>2. CASE ~row.there
    BY <1>2, <2>2 DEF Filled
  <2> QED BY <2>1, <2>2
<1>11. CASE m = n
  <2>1. left \in Int /\ left <= filled
    BY <1>1, <1>10 DEF Leaves
  <2>2. n > 0 => left - N + p <= B - F
    BY <1>2, <1>3, <1>4, <1>7, <1>9, <1>10, <2>1
  <2> QED BY <1>2, <1>4, <1>5, <1>7, <1>9, <1>11, <2>2 DEF Within
<1>12. CASE m # n
  <2>1. m = n + 1 /\ from <= now /\ now <= to /\ filled >= One /\ left = filled - One
    BY <1>12 DEF Leaves, AddsOne
  <2>2. left - N + p + One <= B - F
    <3>1. CASE n > 0
      BY <1>1, <1>2, <1>3, <1>4, <1>7, <1>9, <1>10, <2>1, <3>1
    <3>2. CASE n = 0
      BY <1>1, <1>2, <1>4, <1>6, <1>9, <1>10, <2>1, <3>2
    <3> QED BY <3>1, <3>2
  <2>3. p + One <= B + T - F
    BY <1>1, <1>2, <1>4, <1>6, <1>7, <1>10, <2>1, <2>2
  <2> QED BY <1>2, <1>4, <1>5, <1>8, <2>1, <2>2, <2>3 DEF Within
<1> QED BY <1>11, <1>12

\* And who is refused is told a time that is enough.
LEMMA Refuses ==
  ASSUME RateLimitAssumption, NEW path \in Limited, NEW left \in Int, NEW row, row.there,
         row.tokens = left, row.at \in Int, ~row.allowed => left < One,
         ~row.allowed => row.retry = RetryAfter(path, left)
  PROVE  Waited(path, row)
<1>1. One \in Nat \ {0} /\ Burst[path] \in Nat \ {0} /\ Rate[path] \in Nat \ {0}
  BY DEF RateLimitAssumption
<1>2. PICK B \in Nat, r \in Nat \ {0} : B = Burst[path] /\ r = Rate[path]
  BY <1>1
<1> SUFFICES ASSUME ~row.allowed, B >= One PROVE Filled(path, row, row.at + row.retry) >= One
  BY <1>2 DEF Waited
<1>3. PICK wait : wait = (One - left + r - 1) \div r
  OBVIOUS
<1>4. wait \in Int
  BY <1>1, <1>3
<1>5. row.retry = IF wait < 1 THEN 1 ELSE wait
  BY <1>2, <1>3 DEF RetryAfter
<1>6. PICK k \in Nat : k = row.retry /\ k >= wait
  BY <1>4, <1>5
<1>7. left + k * r >= One
  BY <1>1, <1>3, <1>6, RetryIsEnough
<1>8. (row.at + k) - row.at = k
  BY <1>6
<1>9. Filled(path, row, row.at + row.retry) = Least(B, left + k * r)
  BY <1>2, <1>6, <1>8 DEF Filled
<1> QED BY <1>7, <1>9 DEF Least

\* A step that counts nothing.
LEMMA LimitQuiet ==
  ASSUME RateLimitAssumption, LimitInv, Counts', UNCHANGED <<buckets, served>> PROVE LimitInv'
<1>1. ASSUME NEW b \in Bucket, NEW from \in 0 .. MaxTime, NEW to \in from .. MaxTime
      PROVE  ServedIn(b, from, to)' = ServedIn(b, from, to)
  <2>1. MaxTime \in Nat /\ served \in [Bucket \X (0 .. MaxTime) -> Nat] /\ 0 \in 0 .. MaxTime
    BY DEF RateLimitAssumption, LimitInv, Counts
  <2>2. Serves(b, 0, 0)
    BY <2>1 DEF Serves
  <2>3. /\ ServedIn(b, from, to) \in Nat
        /\ ServedIn(b, from, to)' = ServedIn(b, from, to) + IF b = b /\ from <= 0 /\ 0 <= to THEN 0 ELSE 0
    BY <2>1, <2>2, ServedInGrows
  <2> QED BY <2>3
<1>2. Bucket' = Bucket
  OBVIOUS
<1>3. ASSUME NEW b \in Bucket
      PROVE  /\ \A from \in 0 .. MaxTime : \A to \in from .. MaxTime :
                  Within(b[1], buckets'[b], ServedIn(b, from, to)', from, to)
             /\ Waited(b[1], buckets'[b])
  BY <1>1 DEF LimitInv
<1> QED BY <1>3 DEF LimitInv, Within, Waited, Filled, Least

\* rate_limit_pg.allow: it refills, decides and spends.
LEMMA CheckLimits ==
  ASSUME RateLimitAssumption, LimitInv, NEW w \in Checker, Check(w) PROVE LimitInv'
<1>1. PICK b, now : b = check[w].bucket /\ now = check[w].start
  OBVIOUS
<1>2. b \in Bucket /\ now \in 0 .. MaxTime /\ b[1] \in Limited
  BY <1>1 DEF LimitInv, Counts, Check, Bucket
<1>3. PICK row : row = buckets[b]
  OBVIOUS
<1>4. PICK filled : filled = Filled(b[1], row, now)
  OBVIOUS
<1>5. PICK left : Leaves(filled, left)
  BY DEF Leaves
<1>6. PICK new : new = [there |-> TRUE, tokens |-> left, at |-> now, allowed |-> filled >= One,
                        retry |-> IF filled >= One THEN 0 ELSE RetryAfter(b[1], left)]
  OBVIOUS
<1>7. /\ buckets' = [buckets EXCEPT ![b] = new]
      /\ served' = IF filled >= One THEN [served EXCEPT ![<<b, now>>] = served[<<b, now>>] + 1] ELSE served
      /\ check' = [check EXCEPT ![w] = Quiet] /\ clock' = clock
  BY <1>1, <1>3, <1>4, <1>5, <1>6 DEF Check, Leaves
<1>8. One \in Nat \ {0} /\ Burst[b[1]] \in Nat /\ Rate[b[1]] \in Nat /\ MaxTime \in Nat
  BY <1>2 DEF RateLimitAssumption
<1>9. RowOk(row) /\ served \in [Bucket \X (0 .. MaxTime) -> Nat] /\ DOMAIN buckets = Bucket
  BY <1>2, <1>3 DEF LimitInv, Counts
<1>10. filled \in Int /\ left \in Int
  <2>1. row.tokens + (now - row.at) * Rate[b[1]] \in Int
    BY <1>2, <1>8, <1>9 DEF RowOk
  <2>2. filled \in Int
    BY <1>4, <1>8, <2>1 DEF Filled, Least
  <2> QED BY <1>5, <1>8, <2>2 DEF Leaves
<1>11. /\ DOMAIN new = DOMAIN NoBucket /\ new.there /\ new.there \in BOOLEAN
       /\ new.tokens = left /\ new.at = now /\ (~new.allowed <=> ~(filled >= One))
       /\ new.retry = IF filled >= One THEN 0 ELSE RetryAfter(b[1], left)
  BY <1>6 DEF NoBucket
<1>12. RowOk(new)
  BY <1>2, <1>10, <1>11 DEF RowOk
<1>13. buckets'[b] = new /\ \A c \in Bucket \ {b} : buckets'[c] = buckets[c]
  BY <1>2, <1>7, <1>9
<1>14. PICK d \in Nat : d = IF filled >= One THEN 1 ELSE 0
  OBVIOUS
<1>15. Serves(b, now, d)
  BY <1>2, <1>7, <1>9, <1>14 DEF Serves
<1>16. Counts'
  <2>1. served' \in [Bucket \X (0 .. MaxTime) -> Nat]
    BY <1>2, <1>7, <1>9
  <2>2. DOMAIN buckets' = Bucket /\ \A c \in Bucket : RowOk(buckets'[c])
    BY <1>7, <1>9, <1>12, <1>13 DEF LimitInv, Counts
  <2>3. DOMAIN check' = Checker /\ \A v \in Checker : check'[v].pc = "begun" =>
                                     check'[v].bucket \in Bucket /\ check'[v].start \in 0 .. MaxTime
    BY <1>7 DEF LimitInv, Counts, Quiet
  <2> QED BY <1>7, <2>1, <2>2, <2>3 DEF LimitInv, Counts, RowOk
<1>17. ASSUME NEW c \in Bucket, NEW from \in 0 .. MaxTime, NEW to \in from .. MaxTime
       PROVE  Within(c[1], buckets'[c], ServedIn(c, from, to)', from, to)
  <2>1. PICK n, m : n = ServedIn(c, from, to) /\ m = ServedIn(c, from, to)'
    OBVIOUS
  <2>2. n \in Nat /\ m = n + IF c = b /\ from <= now /\ now <= to THEN d ELSE 0
    BY <1>2, <1>8, <1>9, <1>14, <1>15, <2>1, ServedInGrows
  <2>3. Within(c[1], buckets[c], n, from, to)
    BY <2>1 DEF LimitInv
  <2>4. CASE c = b
    <3>1. AddsOne(n, m, from, to, now, filled)
      BY <1>14, <2>2, <2>4 DEF AddsOne
    <3>2. Within(b[1], row, n, from, to)
      BY <1>3, <2>3, <2>4
    <3>3. Within(b[1], new, m, from, to)
      BY <1>2, <1>4, <1>5, <1>9, <1>11, <1>12, <2>2, <3>1, <3>2, Spends
    <3> QED BY <1>13, <2>1, <2>4, <3>3
  <2>5. CASE c # b
    <3>1. m = n /\ buckets'[c] = buckets[c]
      BY <1>13, <2>2, <2>5
    <3> QED BY <2>1, <2>3, <3>1
  <2> QED BY <2>4, <2>5
<1>18. ASSUME NEW c \in Bucket PROVE Waited(c[1], buckets'[c])
  <2>1. CASE c = b
    <3>1. new.at \in Int
      BY <1>2, <1>11
    <3>2. ~new.allowed => left < One
      BY <1>5, <1>8, <1>10, <1>11 DEF Leaves
    <3>3. ~new.allowed => new.retry = RetryAfter(b[1], left)
      BY <1>11
    <3>4. Waited(b[1], new)
      BY <1>2, <1>10, <1>11, <3>1, <3>2, <3>3, Refuses
    <3> QED BY <1>13, <2>1, <3>4
  <2>2. CASE c # b
    BY <1>13, <2>2 DEF LimitInv
  <2> QED BY <2>1, <2>2
<1>19. Bucket' = Bucket
  OBVIOUS
<1> QED BY <1>16, <1>17, <1>18 DEF LimitInv, Within, Waited, Filled, Least

\* The limit holds its invariant.
LEMMA LimitInvariant == LSpec => []LimitInv
<1> USE RateLimitAssumption
<1>1. LInit => LimitInv
  <2> SUFFICES ASSUME LInit PROVE LimitInv
    OBVIOUS
  <2>1. /\ MaxTime \in Nat /\ served = [x \in Bucket \X (0 .. MaxTime) |-> 0]
        /\ \A b \in Bucket : buckets[b] = NoBucket
    BY DEF LInit, RateLimitAssumption
  <2>2. RowOk(NoBucket) /\ Quiet.pc = "idle" /\ NoBucket.allowed
    BY DEF RowOk, NoBucket, Quiet
  <2>3. Counts
    BY <2>1, <2>2 DEF LInit, Counts
  <2>4. ASSUME NEW b \in Bucket, NEW from \in 0 .. MaxTime, NEW to \in from .. MaxTime
        PROVE  Within(b[1], buckets[b], ServedIn(b, from, to), from, to)
    <3>1. from \in Nat /\ to \in Nat /\ from <= to /\ to <= MaxTime
      BY <2>1
    <3>2. PICK f : Sums(served, b, from, to, f) /\ ServedIn(b, from, to) = f[to]
      BY <3>1, ServedInSums
    <3>3. PICK s : s = served
      OBVIOUS
    <3>4. \A t \in from .. to : s[<<b, t>>] = 0
      BY <2>1, <3>1, <3>3
    <3>5. f[to] = 0
      BY <3>1, <3>2, <3>3, <3>4, SumOfNothing
    <3>6. PICK B \in Nat, r \in Nat : B = Burst[b[1]] /\ r = Rate[b[1]]
      BY DEF RateLimitAssumption, Bucket
    <3>7. (to - from) * r >= 0 /\ (to - from) * r \in Int
      BY <3>1, Refills
    <3>8. 0 * One = 0
      BY DEF RateLimitAssumption
    <3> QED BY <3>2, <3>5, <3>6, <3>7, <3>8 DEF Within
  <2>5. \A b \in Bucket : Waited(b[1], buckets[b])
    BY <2>1, <2>2 DEF Waited
  <2> QED BY <2>3, <2>4, <2>5 DEF LimitInv
<1>2. LimitInv /\ [LNext]_lvars => LimitInv'
  <2> SUFFICES ASSUME LimitInv, [LNext]_lvars PROVE LimitInv'
    OBVIOUS
  <2>1. ASSUME NEW w \in Checker, NEW p \in Limited, NEW k \in ApiKey \cup {NoApiKey}, NEW a \in Address,
               Begin(w, p, k, a)
        PROVE  LimitInv'
    <3>1. PICK t : t = [pc |-> "begun", bucket |-> <<p, ClientKey(k, a)>>, start |-> clock]
      OBVIOUS
    <3>2. t.bucket \in Bucket /\ t.start = clock
      BY <3>1 DEF Bucket, Client
    <3>3. check' = [check EXCEPT ![w] = t] /\ UNCHANGED <<clock, buckets, served>>
      BY <2>1, <3>1 DEF Begin
    <3>4. \A v \in Checker : check'[v] = t \/ check'[v] = check[v]
      BY <3>3 DEF LimitInv, Counts
    <3>5. Counts'
      BY <3>2, <3>3, <3>4 DEF LimitInv, Counts, RowOk
    <3> QED BY <3>3, <3>5, LimitQuiet
  <2>2. ASSUME NEW w \in Checker, CheckFails(w) PROVE LimitInv'
    <3>1. \A v \in Checker : check'[v].pc = "idle" \/ check'[v] = check[v]
      BY <2>2 DEF LimitInv, Counts, CheckFails, Quiet
    <3>2. Counts'
      BY <2>2, <3>1 DEF LimitInv, Counts, RowOk, CheckFails
    <3> QED BY <2>2, <3>2, LimitQuiet DEF CheckFails
  <2>3. CASE Tick
    <3>1. Counts'
      BY <2>3 DEF LimitInv, Counts, RowOk, Tick, RateLimitAssumption
    <3> QED BY <2>3, <3>1, LimitQuiet DEF Tick
  <2>4. CASE UNCHANGED lvars
    <3>1. Counts'
      BY <2>4 DEF LimitInv, Counts, RowOk, lvars
    <3> QED BY <2>4, <3>1, LimitQuiet DEF lvars
  <2> QED BY <2>1, <2>2, <2>3, <2>4, CheckLimits DEF LNext
<1> QED BY <1>1, <1>2, PTL DEF LSpec

\* rate_limit_pg.allow: for any number of checks at once, in whatever order they take the
\* row's lock, no stretch of time serves more than a full bucket and its refill, and
\* who comes back when told is served.
THEOREM BudgetsHold == LSpec => []BudgetHolds
<1>1. LimitInv => BudgetHolds
  BY DEF LimitInv, BudgetHolds, Within, Waited
<1> QED BY <1>1, LimitInvariant, PTL

-----------------------------------------------------------------------------
(* A search: orders, and what is taken from them. *)

\* An order of a set.
StrictOn(R, S) ==
  /\ \A d \in S : <<d, d>> \notin R
  /\ \A d, e, f \in S : <<d, e>> \in R /\ <<e, f>> \in R => <<d, f>> \in R
  /\ \A d, e \in S : d = e \/ <<d, e>> \in R \/ <<e, d>> \in R

\* All of a set, each once, in the order.
InOrder(s, S, R) ==
  /\ s \in Seq(S) /\ Len(s) = Cardinality(S) /\ ToSet(s) = S /\ NoneTwice(s)
  /\ \A i, j \in DOMAIN s : i < j => <<s[i], s[j]>> \in R

\* An ordered set can be counted off.
LEMMA OrderedIs ==
  ASSUME NEW S, IsFiniteSet(S), NEW R, StrictOn(R, S), NEW s, s = Ordered(S, R)
  PROVE  InOrder(s, S, R)
<1>1. PICK n \in Nat : n = Cardinality(S)
  BY FS_CardinalityType
<1>2. PICK b : b = [d \in S |-> {e \in S : <<e, d>> \in R}]
  OBVIOUS
<1>3. ASSUME NEW d \in S PROVE IsFiniteSet(b[d]) /\ Cardinality(b[d]) \in Nat /\ Cardinality(b[d]) < n
  <2>1. b[d] \in SUBSET S /\ d \notin b[d]
    BY <1>2 DEF StrictOn
  <2>2. b[d] # S
    BY <2>1
  <2>3. /\ IsFiniteSet(b[d]) /\ Cardinality(b[d]) <= Cardinality(S)
        /\ Cardinality(S) # Cardinality(b[d])
    BY <2>1, <2>2, FS_Subset
  <2>4. Cardinality(b[d]) \in Nat
    BY <2>3, FS_CardinalityType
  <2> QED BY <1>1, <2>3, <2>4
<1>4. ASSUME NEW d \in S, NEW e \in S, <<d, e>> \in R PROVE Cardinality(b[d]) < Cardinality(b[e])
  <2>1. b[d] \in SUBSET b[e] /\ d \in b[e] /\ d \notin b[d]
    BY <1>2, <1>4 DEF StrictOn
  <2>2. b[d] # b[e]
    BY <2>1
  <2>3. Cardinality(b[d]) <= Cardinality(b[e]) /\ Cardinality(b[e]) # Cardinality(b[d])
    BY <1>3, <2>1, <2>2, FS_Subset
  <2> QED BY <1>3, <2>3
<1>5. ASSUME NEW d \in S, NEW e \in S, Cardinality(b[d]) = Cardinality(b[e]) PROVE d = e
  <2>1. Cardinality(b[d]) \in Nat /\ Cardinality(b[e]) \in Nat
    BY <1>3
  <2>2. <<d, e>> \notin R /\ <<e, d>> \notin R
    BY <1>4, <1>5, <2>1
  <2> QED BY <2>2 DEF StrictOn
<1>6. ASSUME NEW k \in 1 .. n PROVE \E d \in S : Cardinality(b[d]) = k - 1
  <2>1. PICK f : f = [d \in S |-> Cardinality(b[d]) + 1]
    OBVIOUS
  <2>2. f \in [S -> 1 .. n] /\ \A d, e \in S : f[d] = f[e] => d = e
    <3>1. \A d \in S : f[d] = Cardinality(b[d]) + 1 /\ f[d] \in 1 .. n
      BY <1>3, <2>1
    <3>2. \A d, e \in S : f[d] = f[e] => Cardinality(b[d]) = Cardinality(b[e])
      BY <1>3, <3>1
    <3> QED BY <1>5, <2>1, <3>1, <3>2
  <2>3. f \in Injection(S, 1 .. n)
    BY <2>2 DEF Injection, IsInjective
  <2>4. IsFiniteSet(1 .. n) /\ Cardinality(1 .. n) = n
    BY FS_Interval
  <2>5. f \in Surjection(S, 1 .. n)
    BY <1>1, <2>3, <2>4, FS_Injection
  <2>6. PICK d \in S : f[d] = k
    BY <2>5 DEF Surjection
  <2> QED BY <1>3, <2>1, <2>6
<1>7. /\ DOMAIN s = 1 .. n /\ s = [k \in 1 .. n |-> s[k]]
      /\ \A k \in 1 .. n : s[k] \in S /\ Cardinality(b[s[k]]) = k - 1
  <2>1. s = [k \in 1 .. n |-> CHOOSE d \in S : Cardinality({e \in S : <<e, d>> \in R}) = k - 1]
    BY <1>1 DEF Ordered
  <2>2. ASSUME NEW k \in 1 .. n
        PROVE  s[k] \in S /\ Cardinality({e \in S : <<e, s[k]>> \in R}) = k - 1
    <3>1. \E d \in S : Cardinality({e \in S : <<e, d>> \in R}) = k - 1
      BY <1>2, <1>6
    <3>2. s[k] = CHOOSE d \in S : Cardinality({e \in S : <<e, d>> \in R}) = k - 1
      BY <2>1
    <3> QED BY <3>1, <3>2
  <2>3. s = [k \in 1 .. n |-> s[k]]
    BY <2>1, Zenon
  <2> QED BY <1>2, <2>1, <2>2, <2>3
<1>8. s \in Seq(S) /\ Len(s) = n
  <2>1. s \in [1 .. n -> S]
    BY <1>7
  <2> QED BY <2>1
<1>9. ToSet(s) = S
  <2>1. ASSUME NEW d \in S PROVE \E k \in 1 .. n : s[k] = d
    <3>1. PICK k \in 1 .. n : k - 1 = Cardinality(b[d])
      <4>1. PICK m \in Nat : m = Cardinality(b[d]) /\ m < n
        BY <1>3
      <4>2. m + 1 \in 1 .. n /\ (m + 1) - 1 = m
        BY <4>1
      <4> QED BY <4>1, <4>2
    <3> QED BY <1>5, <1>7, <3>1
  <2> QED BY <1>7, <2>1 DEF ToSet
<1>10. ASSUME NEW i \in 1 .. n, NEW j \in 1 .. n PROVE (i # j => s[i] # s[j]) /\ (i < j => <<s[i], s[j]>> \in R)
  <2>1. s[i] \in S /\ s[j] \in S /\ Cardinality(b[s[i]]) = i - 1 /\ Cardinality(b[s[j]]) = j - 1
    BY <1>7
  <2>2. i # j => s[i] # s[j]
    BY <2>1
  <2>3. i < j => <<s[j], s[i]>> \notin R
    BY <1>4, <2>1
  <2> QED BY <2>1, <2>2, <2>3 DEF StrictOn
<1>11. NoneTwice(s)
  BY <1>7, <1>10 DEF NoneTwice
<1> QED BY <1>1, <1>7, <1>8, <1>9, <1>10, <1>11 DEF InOrder

\* The least of numbers.
LEMMA LeastNumber ==
  ASSUME NEW S \in SUBSET Nat, S # {} PROVE \E m \in S : \A n \in S : m <= n
<1> DEFINE R == OpToRel(<, Nat)
<1>1. PICK m \in S : \A n \in S : ~ (<<n, m>> \in R)
  <2> HIDE DEF R
  <2>1. IsWellFoundedOn(R, Nat)
    BY NatLessThanWellFounded DEF R
  <2> QED BY <2>1, WFMin
<1>2. \A n \in S : ~(n < m)
  BY <1>1 DEF R, OpToRel
<1> QED BY <1>2

\* The order of a sequence is one of its members, in which some may be twice.
LEMMA EarlierIs ==
  ASSUME NEW E, NEW s \in Seq(E), NEW R,
         R = {p \in ToSet(s) \X ToSet(s) : Earlier(s, p[1], p[2])}
  PROVE  StrictOn(R, ToSet(s))
<1>1. DOMAIN s \subseteq Nat /\ ToSet(s) = {s[i] : i \in DOMAIN s} /\ \A i \in DOMAIN s : \A j \in 1 .. i : j \in DOMAIN s
  BY DEF ToSet
<1>2. \A d, e \in ToSet(s) : <<d, e>> \in R <=> Earlier(s, d, e)
  OBVIOUS
<1>3. \A d \in ToSet(s) : ~Earlier(s, d, d)
  BY <1>1 DEF Earlier
<1>4. ASSUME NEW d, NEW e, NEW f, Earlier(s, d, e), Earlier(s, e, f) PROVE Earlier(s, d, f)
  <2>1. PICK i \in DOMAIN s : s[i] = d /\ \A k \in 1 .. i : s[k] # e
    BY <1>4 DEF Earlier
  <2>2. PICK j \in DOMAIN s : s[j] = e /\ \A k \in 1 .. j : s[k] # f
    BY <1>4 DEF Earlier
  <2>3. i \in Nat /\ j \in Nat /\ i >= 1 /\ j >= 1
    OBVIOUS
  <2>4. i < j
    BY <2>1, <2>2, <2>3
  <2>5. \A k \in 1 .. i : k \in 1 .. j
    BY <2>3, <2>4
  <2> QED BY <2>1, <2>2, <2>5 DEF Earlier
<1>5. ASSUME NEW d \in ToSet(s), NEW e \in ToSet(s), d # e PROVE Earlier(s, d, e) \/ Earlier(s, e, d)
  <2>1. PICK S : S = {i \in DOMAIN s : s[i] \in {d, e}}
    OBVIOUS
  <2>2. S \in SUBSET Nat /\ S # {}
    BY <1>1, <2>1
  <2>3. PICK m \in S : \A n \in S : m <= n
    BY <2>2, LeastNumber
  <2>4. m \in DOMAIN s /\ s[m] \in {d, e} /\ m \in Nat
    BY <1>1, <2>1
  <2>5. ASSUME NEW k \in 1 .. m, k # m PROVE s[k] \notin {d, e}
    <3>1. k \in DOMAIN s /\ ~(m <= k)
      BY <1>1, <2>4, <2>5
    <3> QED BY <2>1, <2>3, <3>1
  <2> QED BY <1>5, <2>4, <2>5 DEF Earlier
<1> QED BY <1>2, <1>3, <1>4, <1>5 DEF StrictOn

\* What is left of a sequence, each once and in its order.
Picked(t, s) ==
  /\ ToSet(t) \subseteq ToSet(s) /\ NoneTwice(t)
  /\ \A i, j \in DOMAIN t : i < j => \E a, b \in DOMAIN s : a < b /\ s[a] = t[i] /\ s[b] = t[j]

\* A part of a sequence.
LEMMA ThoseAre ==
  ASSUME NEW E, IsFiniteSet(E), NEW s \in Seq(E), NEW S, NEW t, t = Those(s, S)
  PROVE  t \in Seq(E) /\ ToSet(t) = ToSet(s) \cap S /\ Picked(t, s) /\ Len(t) = Cardinality(ToSet(t))
<1>1. PICK R : R = {p \in ToSet(s) \X ToSet(s) : Earlier(s, p[1], p[2])}
  OBVIOUS
<1>2. PICK C : C = ToSet(s) \cap S
  OBVIOUS
<1>3. ToSet(s) \in SUBSET E /\ C \in SUBSET E
  BY <1>2 DEF ToSet
<1>4. IsFiniteSet(C)
  BY <1>3, FS_Subset
<1>5. StrictOn(R, ToSet(s))
  BY <1>1, EarlierIs
<1>6. StrictOn(R, C)
  BY <1>2, <1>5 DEF StrictOn
<1>7. t = Ordered(C, R)
  BY <1>1, <1>2 DEF Those
<1>8. InOrder(t, C, R)
  BY <1>4, <1>6, <1>7, OrderedIs
<1>9. t \in Seq(E)
  BY <1>3, <1>8 DEF InOrder
<1>10. ASSUME NEW i \in DOMAIN t, NEW j \in DOMAIN t, i < j
       PROVE  \E a, b \in DOMAIN s : a < b /\ s[a] = t[i] /\ s[b] = t[j]
  <2>1. Earlier(s, t[i], t[j]) /\ t[j] \in ToSet(s)
    BY <1>1, <1>8, <1>10 DEF InOrder
  <2>2. PICK a \in DOMAIN s : s[a] = t[i] /\ \A k \in 1 .. a : s[k] # t[j]
    BY <2>1 DEF Earlier
  <2>3. PICK b \in DOMAIN s : s[b] = t[j]
    BY <2>1 DEF ToSet
  <2>4. a < b
    BY <2>2, <2>3
  <2> QED BY <2>2, <2>3, <2>4
<1> QED BY <1>2, <1>8, <1>9, <1>10 DEF InOrder, Picked

\* and its first ones.
LEMMA TopIs ==
  ASSUME NEW E, NEW s \in Seq(E), NoneTwice(s), NEW n \in Nat, NEW t, t = Top(s, n)
  PROVE  t \in Seq(E) /\ Picked(t, s) /\ (Len(s) <= n => t = s)
<1>1. PICK m \in Nat : m = (IF Len(s) < n THEN Len(s) ELSE n) /\ m <= Len(s)
  OBVIOUS
<1>2. t = [i \in 1 .. m |-> s[i]]
  BY <1>1 DEF Top
<1>3. DOMAIN t = 1 .. m /\ \A i \in 1 .. m : i \in DOMAIN s /\ t[i] = s[i] /\ t[i] \in E
  BY <1>1, <1>2
<1>4. t \in Seq(E) /\ Len(t) = m
  BY <1>2, <1>3
<1>5. Len(s) <= n => t = s
  <2>1. Len(s) <= n => m = Len(s)
    BY <1>1
  <2> QED BY <1>2, <2>1
<1>6. ToSet(t) \subseteq ToSet(s) /\ NoneTwice(t)
  BY <1>3 DEF ToSet, NoneTwice
<1>7. \A i, j \in DOMAIN t : i < j => \E a, b \in DOMAIN s : a < b /\ s[a] = t[i] /\ s[b] = t[j]
  BY <1>3
<1> QED BY <1>4, <1>5, <1>6, <1>7 DEF Picked

-----------------------------------------------------------------------------
(* A search: what its steps have found of what was asked. *)

Small == Cardinality(Ever) <= Recall /\ Cardinality(Ever) <= Asked

\* The dossiers of the question are the scope.
ScopeAsked ==
  IF question.path \notin Scoped \/ question.dossier = {All}
  THEN scope = Everything
  ELSE scope = question.dossier /\ scope \subseteq Folder

\* The rankings so far, and what is found of what fits in an answer.
ListsOk(n) ==
  /\ ranked \in Seq(Seq(Entry)) /\ Len(ranked) = n
  /\ \A k \in 1 .. n : NoneTwice(ranked[k]) /\ ToSet(ranked[k]) \subseteq Ever
WordsFound == Small => Always \cap ToSet(lexical) \subseteq ToSet(ranked[1])
AllFound   == Small => Always \subseteq ToSet(ranked[1]) \cup ToSet(ranked[2])
BestFirst(s) == \A i, j \in DOMAIN s : i < j => Better(s[i], s[j])
HitsOk ==
  /\ hits \in Seq(Entry) /\ NoneTwice(hits) /\ ToSet(hits) \subseteq Ever
  /\ Small => Always \subseteq ToSet(hits)
  /\ question.path \in Hybrid => ListsOk(2)
  /\ question.path \in Hybrid /\ question.final = "rrf" => BestFirst(hits)

Given == lexical \in LexicalOrders /\ near \in NearOrders /\ question \in Ask
AtStep ==
  /\ step = "arrived" => hidden = {}
  /\ step # "arrived" => entries \in past
  /\ step \notin {"arrived", "refused"} => ScopeAsked
  /\ step \in {"embed", "near", "fetch", "generate", "show"} => question.path \in Hybrid
  /\ step = "near" => ListsOk(1) /\ WordsFound
  /\ step = "fetch" => ListsOk(2) /\ AllFound
  /\ step \in {"generate", "show", "answered"} => HitsOk
Cited ==
  /\ step # "answered" => reply.citations = <<>>
  /\ ToSet(reply.citations) \subseteq ToSet(hits)
Gone == \A d \in hidden : \E e \in past : ~e[d].there
SearchInv == Given /\ AtStep /\ Cited /\ Gone

\* What the assumptions say of a request.
LEMMA GivenIs ==
  ASSUME Given
  PROVE  /\ lexical \in Seq(Entry) /\ NoneTwice(lexical)
         /\ near \in Seq(Entry) /\ NoneTwice(near) /\ ToSet(near) = Entry
         /\ question.topic \in Theme \cup {NoTheme} /\ Unscoped(question)
         /\ IsFiniteSet(Entry) /\ Recall \in Nat /\ Asked \in Nat
         /\ Ever \in SUBSET Entry /\ IsFiniteSet(Ever) /\ Cardinality(Ever) \in Nat
<1>1. question \in Questions /\ Unscoped(question)
  BY StartAssumption DEF Given
<1>2. question.topic \in Theme \cup {NoTheme}
  BY <1>1 DEF Questions
<1>3. IsFiniteSet(Entry) /\ Recall \in Nat /\ Asked \in Nat
  BY SearchAssumption
<1>4. Ever \in SUBSET Entry
  BY DEF Ever
<1>5. IsFiniteSet(Ever) /\ Cardinality(Ever) \in Nat
  BY <1>3, <1>4, FS_Subset, FS_CardinalityType
<1> QED BY <1>1, <1>2, <1>3, <1>4, <1>5, StartAssumption DEF Given

\* What the filters of the code leave is what was asked for.
LEMMA ScopeIs == ASSUME Given, ScopeAsked PROVE \A e : InScope(e) <=> Belongs(e)
<1>1. question.topic \in Theme \cup {NoTheme} /\ NoTheme \notin Theme /\ Unknown \notin Folder
  BY GivenIs, SearchAssumption
<1> SUFFICES ASSUME NEW e PROVE InScope(e) <=> Belongs(e)
  OBVIOUS
<1>2. Themed(e) <=> (question.topic \in Theme => question.topic \in e.themes)
  BY <1>1 DEF Themed
<1>3. CASE question.path \notin Scoped \/ question.dossier = {All}
  BY <1>2, <1>3 DEF InScope, Belongs, ScopeAsked
<1>4. CASE question.path \in Scoped /\ question.dossier # {All}
  <2>1. scope = question.dossier /\ scope # Everything
    BY <1>1, <1>4 DEF ScopeAsked, Everything
  <2>2. e.folders \cap scope # {} <=> \E f \in question.dossier : f \in e.folders
    BY <2>1
  <2> QED BY <1>2, <1>4, <2>1, <2>2 DEF InScope, Belongs
<1> QED BY <1>3, <1>4

\* What a read sees was once there, and what was always there is seen.
LEMMA Sees ==
  ASSUME Given, ScopeAsked, entries \in past, NEW d \in Entry
  PROVE  /\ InScope(entries[d]) /\ Answers(d, entries[d]) => d \in Ever
         /\ d \in Always => d \in Ever /\ InScope(entries[d]) /\ Answers(d, entries[d])
BY ScopeIs DEF Ever, Always

\* What fits is not cut off.
LEMMA Fits ==
  ASSUME Given, NEW t \in Seq(Entry), NoneTwice(t), Len(t) = Cardinality(ToSet(t)), ToSet(t) \subseteq Ever
  PROVE  Small => Top(t, Recall) = t /\ Top(t, Asked) = t
<1>1. IsFiniteSet(Ever) /\ Cardinality(Ever) \in Nat /\ Recall \in Nat /\ Asked \in Nat
  BY GivenIs
<1>2. Cardinality(ToSet(t)) <= Cardinality(Ever)
  BY <1>1, FS_Subset
<1>3. Len(t) \in Nat
  OBVIOUS
<1> SUFFICES ASSUME Small PROVE Top(t, Recall) = t /\ Top(t, Asked) = t
  OBVIOUS
<1>4. Len(t) <= Recall /\ Len(t) <= Asked
  BY <1>1, <1>2, <1>3 DEF Small
<1>5. \A n \in Nat : Len(t) <= n => Top(t, n) = t
  BY TopIs
<1> QED BY <1>1, <1>4, <1>5

\* What was ever found stays so, and what was always there was so before.
LEMMA MoreIsFound ==
  ASSUME UNCHANGED <<question, lexical>>, past \subseteq past'
  PROVE  Ever \subseteq Ever' /\ Always' \subseteq Always
<1>1. \A e : Belongs(e)' = Belongs(e)
  BY DEF Belongs
<1>2. \A d, e : Answers(d, e)' = Answers(d, e)
  BY DEF Answers
<1> QED BY <1>1, <1>2 DEF Ever, Always

\* What fits later fitted before.
LEMMA Fitted ==
  ASSUME UNCHANGED <<question, lexical>>, past \subseteq past', Small'
  PROVE  Small
<1>1. PICK E, F : E = Ever /\ F = Ever'
  OBVIOUS
<1>2. F \in SUBSET Entry /\ IsFiniteSet(Entry) /\ Recall \in Nat /\ Asked \in Nat
  BY <1>1, SearchAssumption DEF Ever
<1>3. IsFiniteSet(F) /\ E \in SUBSET F
  BY <1>1, <1>2, MoreIsFound, FS_Subset
<1>4. IsFiniteSet(E)
  BY <1>3, FS_Subset
<1>5. Cardinality(E) <= Cardinality(F) /\ Cardinality(E) \in Nat /\ Cardinality(F) \in Nat
  BY <1>3, <1>4, FS_Subset, FS_CardinalityType
<1>6. PICK a \in Nat, b \in Nat : a = Cardinality(E) /\ b = Cardinality(F)
  BY <1>5
<1>7. b <= Recall /\ b <= Asked => a <= Recall /\ a <= Asked
  BY <1>2, <1>5, <1>6
<1> QED BY <1>1, <1>6, <1>7 DEF Small

-----------------------------------------------------------------------------
(* A search: the fused ranking. *)

\* Of a larger divisor the quotient is not larger.
LEMMA Quotients ==
  ASSUME NEW m \in Nat, NEW a \in Nat, NEW b \in Nat, 0 < a, a <= b
  PROVE  m \div a \in Nat /\ m \div b \in Nat /\ m \div b <= m \div a
<1>1. PICK p \in Int : p = m \div a
  BY SMT
<1>2. PICK q \in Int : q = m \div b
  BY SMT
<1>3. a * p <= m /\ m < a * p + a
  BY <1>1, SMT
<1>4. b * q <= m /\ m < b * q + b
  BY <1>2, SMT
<1>5. p >= 0
  BY <1>3, SMT
<1>6. q >= 0
  BY <1>4, SMT
<1>7. a * q <= b * q
  BY <1>6, SMT
<1>8. a * q < a * (p + 1)
  BY <1>3, <1>4, <1>7, SMT
<1>9. q < p + 1
  BY <1>8, SMT
<1> QED BY <1>1, <1>2, <1>5, <1>6, <1>9

\* The place of a member.
LEMMA RankIs ==
  ASSUME NEW E, NEW s \in Seq(E), NEW d \in ToSet(s)
  PROVE  RankOf(d, s) \in DOMAIN s /\ s[RankOf(d, s)] = d /\ RankOf(d, s) \in Nat \ {0}
<1>1. \E i \in DOMAIN s : s[i] = d
  BY DEF ToSet
<1>2. RankOf(d, s) = CHOOSE i \in DOMAIN s : s[i] = d
  BY DEF RankOf
<1>3. RankOf(d, s) \in DOMAIN s /\ s[RankOf(d, s)] = d
  BY <1>1, <1>2
<1> QED BY <1>3

\* Numbers order what has one each,
LEMMA NumberOrder ==
  ASSUME NEW S, NEW f \in [S -> Nat], \A d, e \in S : f[d] = f[e] => d = e,
         NEW R, R = {p \in S \X S : f[p[1]] < f[p[2]]}
  PROVE  StrictOn(R, S)
<1>1. \A d, e \in S : <<d, e>> \in R <=> f[d] < f[e]
  OBVIOUS
<1>2. \A d \in S : f[d] \in Nat
  OBVIOUS
<1> QED BY <1>1, <1>2 DEF StrictOn

\* and together with an order what has them.
LEMMA MoreThenEarlier ==
  ASSUME NEW E, NEW s \in Seq(E), NEW f \in [ToSet(s) -> Nat], NEW R,
         R = {p \in ToSet(s) \X ToSet(s) :
                f[p[1]] > f[p[2]] \/ (f[p[1]] = f[p[2]] /\ Earlier(s, p[1], p[2]))}
  PROVE  StrictOn(R, ToSet(s))
<1>1. PICK Q : Q = {p \in ToSet(s) \X ToSet(s) : Earlier(s, p[1], p[2])}
  OBVIOUS
<1>2. StrictOn(Q, ToSet(s))
  BY <1>1, EarlierIs
<1>3. \A d, e \in ToSet(s) : <<d, e>> \in Q <=> Earlier(s, d, e)
  BY <1>1
<1>4. \A d, e \in ToSet(s) : <<d, e>> \in R <=> f[d] > f[e] \/ (f[d] = f[e] /\ <<d, e>> \in Q)
  BY <1>3
<1>5. \A d \in ToSet(s) : f[d] \in Nat
  OBVIOUS
<1> QED BY <1>2, <1>4, <1>5 DEF StrictOn

\* Two rankings, one after the other.
LEMMA BothIs ==
  ASSUME NEW E, NEW s \in Seq(E), NEW t \in Seq(E)
  PROVE  /\ s \o t \in Seq(E) /\ ToSet(s \o t) = ToSet(s) \cup ToSet(t)
         /\ Len(s) \in Nat /\ Len(s \o t) = Len(s) + Len(t)
         /\ \A i \in DOMAIN s : i \in DOMAIN (s \o t) /\ (s \o t)[i] = s[i]
<1>1. s \o t \in Seq(E) /\ Len(s) \in Nat /\ Len(t) \in Nat /\ Len(s \o t) = Len(s) + Len(t)
  OBVIOUS
<1>2. \A i \in 1 .. Len(s) : (s \o t)[i] = s[i] /\ i \in 1 .. Len(s \o t)
  BY <1>1
<1>3. \A i \in 1 .. Len(t) : (s \o t)[Len(s) + i] = t[i] /\ Len(s) + i \in 1 .. Len(s \o t)
  BY <1>1
<1>4. \A i \in 1 .. Len(s \o t) : (s \o t)[i] \in ToSet(s) \cup ToSet(t)
  <2>1. ASSUME NEW i \in 1 .. Len(s \o t) PROVE (s \o t)[i] \in ToSet(s) \cup ToSet(t)
    <3>1. CASE i \in 1 .. Len(s)
      BY <1>2, <3>1 DEF ToSet
    <3>2. CASE i \notin 1 .. Len(s)
      <4>1. i - Len(s) \in 1 .. Len(t) /\ Len(s) + (i - Len(s)) = i
        BY <1>1, <2>1, <3>2
      <4> QED BY <1>3, <4>1 DEF ToSet
    <3> QED BY <3>1, <3>2
  <2> QED BY <2>1
<1>5. ToSet(s) \cup ToSet(t) \subseteq ToSet(s \o t)
  <2>1. ASSUME NEW d \in ToSet(s) PROVE d \in ToSet(s \o t)
    <3>1. PICK i \in 1 .. Len(s) : s[i] = d
      BY DEF ToSet
    <3> QED BY <1>1, <1>2, <3>1 DEF ToSet
  <2>2. ASSUME NEW d \in ToSet(t) PROVE d \in ToSet(s \o t)
    <3>1. PICK i \in 1 .. Len(t) : t[i] = d
      BY DEF ToSet
    <3>2. PICK k \in 1 .. Len(s \o t) : (s \o t)[k] = d
      BY <1>3, <3>1
    <3> QED BY <1>1, <3>2 DEF ToSet
  <2> QED BY <2>1, <2>2
<1>6. ToSet(s \o t) \subseteq ToSet(s) \cup ToSet(t)
  BY <1>1, <1>4 DEF ToSet
<1> QED BY <1>1, <1>2, <1>5, <1>6

\* A score is a number.
LEMMA ShareIs ==
  ASSUME NEW E, NEW s \in Seq(E), NEW d
  PROVE  /\ Share(d, s) \in Nat
         /\ d \in ToSet(s) => Share(d, s) = Multiple \div (60 + RankOf(d, s))
         /\ d \notin ToSet(s) => Share(d, s) = 0
<1>1. Multiple \in Nat
  BY SearchAssumption
<1>2. CASE d \in ToSet(s)
  <2>1. PICK r \in Nat : r = RankOf(d, s)
    BY <1>2, RankIs
  <2>2. Multiple \div (60 + r) \in Nat
    <3>1. 60 + r \in Nat /\ 0 < 60 + r /\ 60 + r <= 60 + r
      BY <2>1
    <3> QED BY <1>1, <3>1, Quotients
  <2> QED BY <1>2, <2>1, <2>2 DEF Share
<1> QED BY <1>2 DEF Share

\* Who stands before another in a ranking has no smaller share of it.
LEMMA SharesFall ==
  ASSUME NEW E, NEW s \in Seq(E), NEW d \in ToSet(s), NEW e,
         e \in ToSet(s) => RankOf(d, s) < RankOf(e, s)
  PROVE  Share(d, s) >= Share(e, s)
<1>1. Share(d, s) \in Nat /\ Share(e, s) \in Nat
  BY ShareIs
<1>2. CASE e \in ToSet(s)
  <2>1. PICK a \in Nat, b \in Nat : a = RankOf(d, s) /\ b = RankOf(e, s)
    BY <1>2, RankIs
  <2>2. 0 < 60 + a /\ 60 + a <= 60 + b /\ 60 + a \in Nat /\ 60 + b \in Nat
    BY <1>2, <2>1
  <2>3. Multiple \div (60 + b) <= Multiple \div (60 + a)
    BY <2>2, SearchAssumption, Quotients
  <2>4. Share(d, s) = Multiple \div (60 + a) /\ Share(e, s) = Multiple \div (60 + b)
    BY <1>2, <2>1, ShareIs
  <2> QED BY <1>1, <2>3, <2>4
<1>3. CASE e \notin ToSet(s)
  BY <1>1, <1>3, ShareIs
<1> QED BY <1>2, <1>3

\* The fused ranking has all of both, in the order of the scores.
LEMMA FusedIs ==
  ASSUME ranked \in Seq(Seq(Entry)), Len(ranked) = 2, IsFiniteSet(Entry)
  PROVE  /\ FuseRankedIds \in Seq(Entry) /\ NoneTwice(FuseRankedIds)
         /\ ToSet(FuseRankedIds) = ToSet(ranked[1]) \cup ToSet(ranked[2])
         /\ Len(FuseRankedIds) = Cardinality(ToSet(FuseRankedIds))
         /\ BestFirst(FuseRankedIds)
         /\ \A d, e \in ToSet(FuseRankedIds) : Better(d, e) => ~Better(e, d)
<1>1. PICK s \in Seq(Entry), t \in Seq(Entry) : s = ranked[1] /\ t = ranked[2]
  OBVIOUS
<1>2. PICK seen \in Seq(Entry) : seen = s \o t /\ ToSet(seen) = ToSet(s) \cup ToSet(t)
  <2>1. s \o t \in Seq(Entry) /\ ToSet(s \o t) = ToSet(s) \cup ToSet(t)
    BY BothIs
  <2> QED BY <2>1
<1>3. PICK f : f = [d \in ToSet(seen) |-> Score(d)]
  OBVIOUS
<1>4. \A d : Share(d, s) \in Nat /\ Share(d, t) \in Nat
  BY ShareIs
<1>5. \A d : Score(d) \in Nat
  <2>1. \A a, b \in Nat : a + b \in Nat
    OBVIOUS
  <2>2. \A d : Score(d) = Share(d, s) + Share(d, t)
    BY <1>1 DEF Score
  <2> QED BY <1>4, <2>1, <2>2
<1>6. f \in [ToSet(seen) -> Nat] /\ \A d \in ToSet(seen) : f[d] = Score(d)
  BY <1>3, <1>5
<1>7. PICK R : R = {p \in ToSet(seen) \X ToSet(seen) :
                      f[p[1]] > f[p[2]] \/ (f[p[1]] = f[p[2]] /\ Earlier(seen, p[1], p[2]))}
  OBVIOUS
<1>8. StrictOn(R, ToSet(seen))
  BY <1>6, <1>7, MoreThenEarlier
<1>9. \A d, e \in ToSet(seen) : <<d, e>> \in R <=> Better(d, e)
  BY <1>1, <1>2, <1>6, <1>7 DEF Better
<1>10. R = {p \in ToSet(seen) \X ToSet(seen) : Better(p[1], p[2])}
  <2>1. R \subseteq ToSet(seen) \X ToSet(seen)
    BY <1>7
  <2> QED BY <1>9, <2>1
<1>11. FuseRankedIds = Ordered(ToSet(seen), R)
  BY <1>1, <1>2, <1>10 DEF FuseRankedIds
<1>12. ToSet(seen) \in SUBSET Entry
  BY <1>2 DEF ToSet
<1>13. IsFiniteSet(ToSet(seen))
  BY <1>12, FS_Subset
<1>14. InOrder(FuseRankedIds, ToSet(seen), R)
  BY <1>8, <1>11, <1>13, OrderedIs
<1>15. \A d, e \in ToSet(seen) : Better(d, e) => ~Better(e, d)
  BY <1>8, <1>9 DEF StrictOn
<1>16. BestFirst(FuseRankedIds)
  <2>1. \A i \in DOMAIN FuseRankedIds : FuseRankedIds[i] \in ToSet(FuseRankedIds)
    BY DEF ToSet
  <2> QED BY <1>9, <1>14, <2>1 DEF InOrder, BestFirst
<1>17. /\ FuseRankedIds \in Seq(Entry) /\ NoneTwice(FuseRankedIds) /\ ToSet(FuseRankedIds) = ToSet(seen)
       /\ Len(FuseRankedIds) = Cardinality(ToSet(FuseRankedIds))
  BY <1>12, <1>14 DEF InOrder
<1>18. ToSet(FuseRankedIds) = ToSet(ranked[1]) \cup ToSet(ranked[2])
  BY <1>1, <1>2, <1>17
<1>19. \A d, e \in ToSet(FuseRankedIds) : Better(d, e) => ~Better(e, d)
  BY <1>15, <1>17
<1> QED BY <1>16, <1>17, <1>18, <1>19

\* Everyone has a place of its own by vector.
LEMMA ByCosineIs ==
  ASSUME Given, NEW s \in Seq(Entry), NoneTwice(s)
  PROVE  /\ ByCosine(s) \in Seq(Entry) /\ ToSet(ByCosine(s)) = ToSet(s) /\ NoneTwice(ByCosine(s))
         /\ Len(ByCosine(s)) = Cardinality(ToSet(s))
<1> DEFINE place(d) == IF "document" \in entries[d].vectors THEN RankOf(d, near) ELSE Len(near) + RankOf(d, s)
<1>1. near \in Seq(Entry) /\ ToSet(near) = Entry /\ IsFiniteSet(Entry)
  BY GivenIs
<1>2. PICK f : f = [d \in ToSet(s) |-> place(d)]
  OBVIOUS
<1>3. ToSet(s) \in SUBSET Entry
  BY DEF ToSet
<1>4. PICK n \in Nat : n = Len(near)
  BY <1>1
<1>5. ASSUME NEW d \in ToSet(s)
      PROVE  /\ RankOf(d, near) \in 1 .. n /\ near[RankOf(d, near)] = d
             /\ RankOf(d, s) \in Nat \ {0} /\ s[RankOf(d, s)] = d
             /\ place(d) = (IF "document" \in entries[d].vectors THEN RankOf(d, near) ELSE n + RankOf(d, s))
  <2>1. d \in ToSet(near)
    BY <1>1, <1>3
  <2>2. RankOf(d, near) \in DOMAIN near /\ near[RankOf(d, near)] = d
    BY <1>1, <2>1, RankIs
  <2>3. RankOf(d, s) \in Nat \ {0} /\ s[RankOf(d, s)] = d
    BY RankIs
  <2> QED BY <1>1, <1>4, <2>2, <2>3
<1> HIDE DEF place
<1>6. \A d \in ToSet(s) : place(d) \in Nat
  <2>1. ASSUME NEW d \in ToSet(s) PROVE place(d) \in Nat
    <3>1. PICK a \in Nat, b \in Nat : a = RankOf(d, near) /\ b = RankOf(d, s)
      BY <1>5
    <3>2. n + b \in Nat
      OBVIOUS
    <3> QED BY <1>5, <3>1, <3>2
  <2> QED BY <2>1
<1>7. \A d, e \in ToSet(s) : place(d) = place(e) => d = e
  <2>1. ASSUME NEW d \in ToSet(s), NEW e \in ToSet(s), place(d) = place(e) PROVE d = e
    <3>1. PICK a \in 1 .. n, b \in Nat \ {0} :
            /\ a = RankOf(d, near) /\ b = RankOf(d, s) /\ near[a] = d /\ s[b] = d
            /\ place(d) = (IF "document" \in entries[d].vectors THEN a ELSE n + b)
      BY <1>5
    <3>2. PICK k \in 1 .. n, l \in Nat \ {0} :
            /\ k = RankOf(e, near) /\ l = RankOf(e, s) /\ near[k] = e /\ s[l] = e
            /\ place(e) = (IF "document" \in entries[e].vectors THEN k ELSE n + l)
      BY <1>5
    <3>3. a # n + l /\ k # n + b /\ (n + b = n + l => b = l)
      OBVIOUS
    <3>4. a = k \/ b = l
      BY <2>1, <3>1, <3>2, <3>3
    <3> QED BY <3>1, <3>2, <3>4
  <2> QED BY <2>1
<1>8. f \in [ToSet(s) -> Nat] /\ \A d \in ToSet(s) : f[d] = place(d)
  BY <1>2, <1>6
<1>9. PICK R : R = {p \in ToSet(s) \X ToSet(s) : f[p[1]] < f[p[2]]}
  OBVIOUS
<1>10. StrictOn(R, ToSet(s))
  <2>1. \A d, e \in ToSet(s) : f[d] = f[e] => d = e
    BY <1>7, <1>8
  <2> QED BY <1>8, <1>9, <2>1, NumberOrder
<1>11. ByCosine(s) = Ordered(ToSet(s), R)
  <2>1. R = {p \in ToSet(s) \X ToSet(s) : place(p[1]) < place(p[2])}
    BY <1>8, <1>9
  <2> QED BY <2>1 DEF ByCosine, place
<1>12. IsFiniteSet(ToSet(s))
  BY <1>1, <1>3, FS_Subset
<1>13. InOrder(ByCosine(s), ToSet(s), R)
  BY <1>10, <1>11, <1>12, OrderedIs
<1> QED BY <1>3, <1>13 DEF InOrder

\* Of two, one is earlier.
LEMMA EarlierOnce ==
  ASSUME NEW E, NEW s \in Seq(E), NEW d, NEW e, Earlier(s, d, e) PROVE ~Earlier(s, e, d)
<1>1. PICK i \in DOMAIN s : s[i] = d /\ \A k \in 1 .. i : s[k] # e
  BY DEF Earlier
<1> SUFFICES ASSUME Earlier(s, e, d) PROVE FALSE
  OBVIOUS
<1>2. PICK j \in DOMAIN s : s[j] = e /\ \A k \in 1 .. j : s[k] # d
  BY DEF Earlier
<1>3. i \in Nat /\ j \in Nat /\ i >= 1 /\ j >= 1
  OBVIOUS
<1>4. i \in 1 .. j \/ j \in 1 .. i
  BY <1>3
<1> QED BY <1>1, <1>2, <1>4

\* Who is first in the first ranking is seen first.
LEMMA FirstIsEarlier ==
  ASSUME NEW E, NEW s \in Seq(E), NEW t \in Seq(E), NoneTwice(s), NEW d \in ToSet(s), NEW e,
         e \in ToSet(s) => RankOf(d, s) < RankOf(e, s)
  PROVE  Earlier(s \o t, d, e)
<1>1. PICK i \in DOMAIN s : i = RankOf(d, s) /\ s[i] = d
  BY RankIs
<1>2. i \in Nat /\ \A k \in 1 .. i : k \in DOMAIN s /\ ~(i < k)
  OBVIOUS
<1>3. ASSUME NEW k \in 1 .. i, s[k] = e PROVE FALSE
  <2>1. e \in ToSet(s) /\ k \in DOMAIN s
    BY <1>2, <1>3 DEF ToSet
  <2>2. RankOf(e, s) \in DOMAIN s /\ s[RankOf(e, s)] = e
    BY <2>1, RankIs
  <2>3. RankOf(e, s) = k
    BY <1>3, <2>1, <2>2 DEF NoneTwice
  <2> QED BY <1>1, <1>2, <2>1, <2>3
<1>4. /\ i \in DOMAIN (s \o t) /\ (s \o t)[i] = d
      /\ \A k \in 1 .. i : (s \o t)[k] = s[k]
  BY <1>1, <1>2, BothIs
<1> QED BY <1>3, <1>4 DEF Earlier

-----------------------------------------------------------------------------
(* A search: its steps. *)

\* While the contents that were there stay, so does what is asked of them.
LEMMA AskedStays ==
  ASSUME UNCHANGED <<question, lexical, past>>
  PROVE  Ever' = Ever /\ Always' = Always /\ Small' = Small
<1>1. \A e : Belongs(e)' = Belongs(e)
  BY DEF Belongs
<1>2. \A d, e : Answers(d, e)' = Answers(d, e)
  BY DEF Answers
<1>3. Ever' = Ever
  BY <1>1, <1>2 DEF Ever
<1>4. Always' = Always
  BY <1>1, <1>2 DEF Always
<1> QED BY <1>3, <1>4 DEF Small

\* An order of the hits depends on the rankings alone,
LEMMA BestStay ==
  ASSUME UNCHANGED ranked, NEW s, BestFirst(s), hits' = s PROVE BestFirst(hits)'
BY DEF BestFirst, Better, Score

\* and what is left of a sequence stays in it.
LEMMA BestLeft ==
  ASSUME NEW s, NEW t, Picked(t, s), BestFirst(s) PROVE BestFirst(t)
BY DEF Picked, BestFirst

\* A read of the index: what it has of a set, in an order, and of it the first.
LEMMA ReadIs ==
  ASSUME Given, ScopeAsked, entries \in past, NEW s \in Seq(Entry), NEW S,
         \A d \in ToSet(s) : d \in S => d \in Matching /\ Answers(d, entries[d]),
         NEW n \in {Recall, Asked}, NEW t, t = Top(Those(s, S), n)
  PROVE  /\ t \in Seq(Entry) /\ NoneTwice(t) /\ ToSet(t) \subseteq Ever
         /\ Small => ToSet(t) = ToSet(s) \cap S
<1>1. PICK all : all = Those(s, S)
  OBVIOUS
<1>2. IsFiniteSet(Entry) /\ n \in Nat
  BY GivenIs
<1>3. all \in Seq(Entry) /\ ToSet(all) = ToSet(s) \cap S /\ NoneTwice(all) /\ Len(all) = Cardinality(ToSet(all))
  BY <1>1, <1>2, ThoseAre DEF Picked
<1>4. ToSet(s) \subseteq Entry
  BY DEF ToSet
<1>5. ToSet(all) \subseteq Ever
  BY <1>3, <1>4, Sees DEF Matching
<1>6. t \in Seq(Entry) /\ ToSet(t) \subseteq ToSet(all) /\ NoneTwice(t)
  BY <1>1, <1>2, <1>3, TopIs DEF Picked
<1>7. Small => t = all
  BY <1>1, <1>3, <1>5, Fits
<1> QED BY <1>3, <1>5, <1>6, <1>7

\* One ranking,
LEMMA OneList ==
  ASSUME NEW L, NEW s \in L
  PROVE  <<s>> \in Seq(L) /\ Len(<<s>>) = 1 /\ <<s>>[1] = s
OBVIOUS

\* a second one,
LEMMA TwoLists ==
  ASSUME NEW L, NEW s \in L, NEW t \in L
  PROVE  /\ Append(<<s>>, t) \in Seq(L) /\ Len(Append(<<s>>, t)) = 2
         /\ Append(<<s>>, t)[1] = s /\ Append(<<s>>, t)[2] = t
OBVIOUS

\* and the only one.
LEMMA OnlyOne ==
  ASSUME NEW L, NEW r \in Seq(L), Len(r) = 1
  PROVE  r[1] \in L /\ r = <<r[1]>>
OBVIOUS

\* Only the step changed.
LEMMA OnlyTheStep ==
  ASSUME SearchInv, UNCHANGED <<entries, hidden, lexical, near, question, scope, ranked, hits, reply, past>>,
         step \notin {"arrived", "refused", "answered"}, step' \in {"embed", "match", "failed"},
         step' = "embed" => step = "embed"
  PROVE  SearchInv'
<1>1. Given'
  BY DEF SearchInv, Given
<1>2. AtStep'
  <2>1. entries' \in past'
    BY DEF SearchInv, AtStep
  <2>2. ScopeAsked'
    BY DEF SearchInv, AtStep, ScopeAsked
  <2>3. step' = "embed" => question'.path \in Hybrid
    BY DEF SearchInv, AtStep
  <2> QED BY <2>1, <2>2, <2>3 DEF AtStep
<1>3. Cited'
  BY DEF SearchInv, Cited
<1>4. Gone'
  BY DEF SearchInv, Gone
<1> QED BY <1>1, <1>2, <1>3, <1>4 DEF SearchInv

\* The dossiers of the question become the scope.
LEMMA ResolveKeeps == ASSUME SearchInv, Resolve PROVE SearchInv'
<1>1. Given'
  BY DEF SearchInv, Given, Resolve, Rest
<1>2. /\ step = "arrived" /\ step' \in {"refused", "embed", "match"} /\ entries' \in past'
      /\ UNCHANGED <<question, hidden, hits, reply>>
  BY DEF Resolve, Rest, Stops
<1>3. step' # "refused" => ScopeAsked'
  BY <1>2 DEF Resolve, Stops, ScopeAsked, Everything
<1>4. step' = "embed" => question'.path \in Hybrid
  BY <1>2 DEF Resolve, Stops
<1>5. AtStep'
  BY <1>2, <1>3, <1>4 DEF AtStep
<1>6. Cited'
  BY <1>2 DEF SearchInv, Cited
<1>7. Gone'
  BY <1>2 DEF SearchInv, Gone, AtStep
<1> QED BY <1>1, <1>5, <1>6, <1>7 DEF SearchInv

\* The ranking by words, or the answer.
LEMMA MatchKeeps == ASSUME SearchInv, Match PROVE SearchInv'
<1>1. Given /\ Given'
  BY DEF SearchInv, Given, Match, Rest
<1>2. ScopeAsked /\ entries \in past /\ step = "match"
  BY DEF SearchInv, AtStep, Match
<1>3. /\ UNCHANGED <<scope, reply, past, entries, hidden, lexical, near, question>>
      /\ question.path \in Hybrid => step' = "near" /\ ranked' = <<Lexical(Recall)>> /\ UNCHANGED hits
      /\ question.path \notin Hybrid => step' = "answered" /\ hits' = Lexical(Asked)
  BY DEF Match, Rest
<1>4. ScopeAsked' /\ entries' \in past'
  BY <1>2, <1>3 DEF ScopeAsked
<1>5. Ever' = Ever /\ Always' = Always /\ Small' = Small
  BY <1>3, AskedStays
<1>6. \A d \in ToSet(lexical) : d \in Matching => Answers(d, entries[d])
  BY DEF Answers
<1>7. ASSUME NEW n \in {Recall, Asked}
      PROVE  /\ Lexical(n) \in Seq(Entry) /\ NoneTwice(Lexical(n)) /\ ToSet(Lexical(n)) \subseteq Ever
             /\ Small => Always \cap ToSet(lexical) \subseteq ToSet(Lexical(n))
  <2>1. lexical \in Seq(Entry)
    BY <1>1, GivenIs
  <2>2. /\ Lexical(n) \in Seq(Entry) /\ NoneTwice(Lexical(n)) /\ ToSet(Lexical(n)) \subseteq Ever
        /\ Small => ToSet(Lexical(n)) = ToSet(lexical) \cap Matching
    BY <1>1, <1>2, <1>6, <2>1, ReadIs DEF Lexical
  <2>3. Always \subseteq Matching
    <3>1. Always \subseteq Entry
      BY DEF Always
    <3> QED BY <1>1, <1>2, <3>1, Sees DEF Matching
  <2> QED BY <2>2, <2>3
<1>8. CASE question.path \in Hybrid
  <2>1. PICK t \in Seq(Entry) : t = Lexical(Recall)
    BY <1>7
  <2>2. ranked' \in Seq(Seq(Entry)) /\ Len(ranked') = 1 /\ ranked'[1] = t
    <3>1. ranked' = <<t>>
      BY <1>3, <1>8, <2>1
    <3>2. <<t>> \in Seq(Seq(Entry)) /\ Len(<<t>>) = 1 /\ <<t>>[1] = t
      BY OneList
    <3> QED BY <3>1, <3>2
  <2>3. ListsOk(1)'
    <3>1. \A k \in 1 .. 1 : k = 1
      OBVIOUS
    <3> QED BY <1>5, <1>7, <2>1, <2>2, <3>1 DEF ListsOk
  <2>4. WordsFound'
    BY <1>3, <1>5, <1>7, <2>1, <2>2 DEF WordsFound
  <2>5. AtStep'
    BY <1>3, <1>4, <1>8, <2>3, <2>4 DEF AtStep
  <2>6. Cited'
    BY <1>2, <1>3, <1>8 DEF SearchInv, Cited
  <2>7. Gone'
    BY <1>3 DEF SearchInv, Gone
  <2> QED BY <1>1, <2>5, <2>6, <2>7 DEF SearchInv
<1>9. CASE question.path \notin Hybrid
  <2>1. Always \subseteq ToSet(lexical)
    BY <1>2, <1>9 DEF Always, Answers
  <2>2. HitsOk'
    BY <1>3, <1>5, <1>7, <1>9, <2>1 DEF HitsOk
  <2>3. AtStep'
    BY <1>3, <1>4, <1>9, <2>2 DEF AtStep
  <2>4. Cited'
    <3>1. reply.citations = <<>>
      BY <1>2 DEF SearchInv, Cited
    <3> QED BY <1>3, <3>1 DEF Cited, ToSet
  <2>5. Gone'
    BY <1>3 DEF SearchInv, Gone
  <2> QED BY <1>1, <2>3, <2>4, <2>5 DEF SearchInv
<1> QED BY <1>8, <1>9

\* The ranking by vector has the others.
LEMMA NearKeeps == ASSUME SearchInv, Near PROVE SearchInv'
<1>1. Given /\ Given'
  BY DEF SearchInv, Given, Near, Rest
<1>2. ScopeAsked /\ entries \in past /\ step = "near" /\ question.path \in Hybrid /\ ListsOk(1) /\ WordsFound
  BY DEF SearchInv, AtStep, Near
<1>3. /\ UNCHANGED <<scope, hits, reply, past, entries, hidden, lexical, near, question>>
      /\ step' = "fetch" /\ ranked' = Append(ranked, Nearest(Recall))
  BY DEF Near, Rest
<1>4. ScopeAsked' /\ entries' \in past'
  BY <1>2, <1>3 DEF ScopeAsked
<1>5. Ever' = Ever /\ Always' = Always /\ Small' = Small
  BY <1>3, AskedStays
<1>6. near \in Seq(Entry) /\ ToSet(near) = Entry
  BY <1>1, GivenIs
<1>7. \A d \in ToSet(near) : d \in WithVector \cap Matching => d \in Matching /\ Answers(d, entries[d])
  BY <1>2 DEF WithVector, Answers
<1>8. PICK t : t = Nearest(Recall)
  OBVIOUS
<1>9. /\ t \in Seq(Entry) /\ NoneTwice(t) /\ ToSet(t) \subseteq Ever
      /\ Small => ToSet(t) = ToSet(near) \cap (WithVector \cap Matching)
  BY <1>1, <1>2, <1>6, <1>7, <1>8, ReadIs DEF Nearest
<1>10. PICK s \in Seq(Entry) : s = ranked[1] /\ ranked = <<s>>
  <2>1. ranked \in Seq(Seq(Entry)) /\ Len(ranked) = 1
    BY <1>2 DEF ListsOk
  <2>2. ranked[1] \in Seq(Entry) /\ ranked = <<ranked[1]>>
    BY <2>1, OnlyOne
  <2> QED BY <2>2
<1>11. ranked' \in Seq(Seq(Entry)) /\ Len(ranked') = 2 /\ ranked'[1] = s /\ ranked'[2] = t
  <2>1. ranked' = Append(<<s>>, t)
    BY <1>3, <1>8, <1>10
  <2> QED BY <1>9, <2>1, TwoLists
<1>12. ListsOk(2)'
  <2>1. NoneTwice(s) /\ ToSet(s) \subseteq Ever
    BY <1>2, <1>10 DEF ListsOk
  <2>2. \A k \in 1 .. 2 : k = 1 \/ k = 2
    OBVIOUS
  <2> QED BY <1>5, <1>9, <1>11, <2>1, <2>2 DEF ListsOk
<1>13. AllFound'
  <2>1. ASSUME Small, NEW d \in Always PROVE d \in ToSet(s) \cup ToSet(t)
    <3>1. d \in Entry
      BY <2>1 DEF Always
    <3>2. InScope(entries[d]) /\ Answers(d, entries[d])
      BY <1>1, <1>2, <2>1, <3>1, Sees
    <3>3. CASE d \in ToSet(lexical)
      BY <1>2, <1>10, <2>1, <3>3 DEF WordsFound
    <3>4. CASE d \notin ToSet(lexical)
      <4>1. d \in WithVector \cap Matching
        BY <3>1, <3>2, <3>4 DEF WithVector, Matching, Answers
      <4> QED BY <1>6, <1>9, <2>1, <3>1, <4>1
    <3> QED BY <3>3, <3>4
  <2> QED BY <1>5, <1>11, <2>1 DEF AllFound
<1>14. AtStep'
  BY <1>2, <1>3, <1>4, <1>12, <1>13 DEF AtStep
<1>15. Cited'
  BY <1>2, <1>3 DEF SearchInv, Cited
<1>16. Gone'
  BY <1>3 DEF SearchInv, Gone
<1> QED BY <1>1, <1>14, <1>15, <1>16 DEF SearchInv

\* What was found stays in scope, whatever the index becomes,
LEMMA ListsStay ==
  ASSUME NEW n, ListsOk(n), UNCHANGED <<question, lexical, ranked>>, past \subseteq past'
  PROVE  ListsOk(n)'
BY MoreIsFound DEF ListsOk

\* and was found of what fits,
LEMMA FoundStays ==
  ASSUME UNCHANGED <<question, lexical, ranked>>, past \subseteq past'
  PROVE  (WordsFound => WordsFound') /\ (AllFound => AllFound')
<1>1. Always' \subseteq Always /\ (Small' => Small)
  BY MoreIsFound, Fitted
<1> QED BY <1>1 DEF WordsFound, AllFound

\* in the hits as well.
LEMMA HitsStay ==
  ASSUME HitsOk, UNCHANGED <<question, lexical, ranked, hits>>, past \subseteq past'
  PROVE  HitsOk'
<1>1. Ever \subseteq Ever' /\ Always' \subseteq Always
  BY MoreIsFound
<1>2. hits' \in Seq(Entry) /\ NoneTwice(hits') /\ ToSet(hits') \subseteq Ever'
  BY <1>1 DEF HitsOk
<1>3. Small' => Always' \subseteq ToSet(hits')
  <2>1. Small' => Small
    BY Fitted
  <2> QED BY <1>1, <2>1 DEF HitsOk
<1>4. question'.path \in Hybrid => ListsOk(2)'
  BY ListsStay DEF HitsOk
<1>5. question'.path \in Hybrid /\ question'.final = "rrf" => BestFirst(hits)'
  <2>1. question.path \in Hybrid /\ question.final = "rrf" => BestFirst(hits)
    BY DEF HitsOk
  <2> QED BY <2>1, BestStay
<1> QED BY <1>2, <1>3, <1>4, <1>5 DEF HitsOk

\* Both rankings, fused, without what is gone: in order, and cut off only where
\* more was in scope than fits.
LEMMA FetchKeeps == ASSUME SearchInv, Fetch PROVE SearchInv'
<1> DEFINE there == {d \in Entry : entries[d].there}
<1>1. Given /\ Given'
  BY DEF SearchInv, Given, Fetch, Rest
<1>2. ScopeAsked /\ entries \in past /\ step = "fetch" /\ question.path \in Hybrid /\ ListsOk(2) /\ AllFound
  BY DEF SearchInv, AtStep, Fetch
<1>3. PICK kept : kept = Those(Top(FuseRankedIds, Recall), there)
  OBVIOUS
<1>4. PICK final : final = (IF question.final = "cosine" THEN ByCosine(kept) ELSE kept)
  OBVIOUS
<1>5. /\ UNCHANGED <<scope, ranked, reply, past, entries, hidden, lexical, near, question>>
      /\ step' \in {"generate", "show", "answered"} /\ hits' = Top(final, Asked)
  <2>1. hits' = Top(final, Asked)
    BY <1>3, <1>4 DEF Fetch
  <2> QED BY <2>1 DEF Fetch, Rest
<1>6. ScopeAsked' /\ entries' \in past'
  BY <1>2, <1>5 DEF ScopeAsked
<1>7. Ever' = Ever /\ Always' = Always /\ Small' = Small
  BY <1>5, AskedStays
<1>8. IsFiniteSet(Entry) /\ Recall \in Nat /\ Asked \in Nat
  BY <1>1, GivenIs
<1>9. PICK all : all = FuseRankedIds
  OBVIOUS
<1>10. /\ all \in Seq(Entry) /\ NoneTwice(all) /\ Len(all) = Cardinality(ToSet(all))
       /\ ToSet(all) = ToSet(ranked[1]) \cup ToSet(ranked[2])
       /\ BestFirst(all)
  BY <1>2, <1>8, <1>9, FusedIs DEF ListsOk
<1>11. ToSet(all) \subseteq Ever
  <2>1. ToSet(ranked[1]) \subseteq Ever /\ ToSet(ranked[2]) \subseteq Ever
    BY <1>2 DEF ListsOk
  <2> QED BY <1>10, <2>1
<1>12. PICK top : top = Top(all, Recall)
  OBVIOUS
<1>13. top \in Seq(Entry) /\ Picked(top, all)
  BY <1>8, <1>10, <1>12, TopIs
<1>14. Small => top = all
  BY <1>1, <1>10, <1>11, <1>12, Fits
<1>15. /\ kept \in Seq(Entry) /\ ToSet(kept) = ToSet(top) \cap there /\ Picked(kept, top)
       /\ Len(kept) = Cardinality(ToSet(kept))
  BY <1>3, <1>8, <1>9, <1>12, <1>13, ThoseAre
<1>16. NoneTwice(kept) /\ ToSet(kept) \subseteq Ever
  BY <1>11, <1>13, <1>15 DEF Picked
<1>17. /\ final \in Seq(Entry) /\ NoneTwice(final) /\ ToSet(final) = ToSet(kept)
       /\ Len(final) = Cardinality(ToSet(final))
  BY <1>1, <1>4, <1>15, <1>16, ByCosineIs
<1>18. PICK h : h = Top(final, Asked)
  OBVIOUS
<1>19. h \in Seq(Entry) /\ Picked(h, final)
  BY <1>8, <1>17, <1>18, TopIs
<1>20. NoneTwice(h) /\ ToSet(h) \subseteq Ever
  BY <1>16, <1>17, <1>19 DEF Picked
<1>21. ASSUME Small PROVE Always \subseteq ToSet(h)
  <2>1. PICK m \in Nat : m = Cardinality(Ever) /\ m <= Recall /\ m <= Asked
    BY <1>1, <1>21, GivenIs DEF Small
  <2>2. Len(final) <= Asked
    <3>1. IsFiniteSet(Ever) /\ ToSet(final) \in SUBSET Ever /\ Asked \in Nat
      BY <1>1, <1>16, <1>17, GivenIs
    <3>2. Cardinality(ToSet(final)) <= Cardinality(Ever) /\ IsFiniteSet(ToSet(final))
      BY <3>1, FS_Subset
    <3>3. Len(final) = Cardinality(ToSet(final))
      BY <1>17
    <3>4. Len(final) \in Nat
      BY <1>17
    <3>5. Len(final) <= m
      BY <2>1, <3>2, <3>3
    <3> QED BY <2>1, <3>1, <3>4, <3>5
  <2>3. h = final
    BY <1>8, <1>17, <1>18, <2>2, TopIs
  <2>4. Always \subseteq ToSet(all)
    BY <1>2, <1>10, <1>21 DEF AllFound
  <2>5. Always \subseteq there
    BY <1>2 DEF Always, Belongs
  <2> QED BY <1>14, <1>15, <1>17, <1>21, <2>3, <2>4, <2>5
<1>22. ASSUME question.final = "rrf" PROVE BestFirst(h)
  <2>1. final = kept
    BY <1>4, <1>22
  <2>2. BestFirst(top)
    BY <1>10, <1>13, BestLeft
  <2>3. BestFirst(kept)
    BY <1>15, <2>2, BestLeft
  <2> QED BY <1>19, <2>1, <2>3, BestLeft
<1>23. hits' = h
  BY <1>5, <1>18
<1>24. HitsOk'
  <2>1. hits' \in Seq(Entry) /\ NoneTwice(hits') /\ ToSet(hits') \subseteq Ever'
    BY <1>7, <1>19, <1>20, <1>23
  <2>2. Small' => Always' \subseteq ToSet(hits')
    BY <1>7, <1>21, <1>23
  <2>3. ListsOk(2)'
    BY <1>2, <1>5, <1>7 DEF ListsOk
  <2>4. question'.final = "rrf" => BestFirst(hits)'
    BY <1>5, <1>22, <1>23, BestStay
  <2> QED BY <2>1, <2>2, <2>3, <2>4 DEF HitsOk
<1>25. AtStep'
  BY <1>2, <1>5, <1>6, <1>24 DEF AtStep
<1>26. Cited'
  <2>1. reply.citations = <<>>
    BY <1>2 DEF SearchInv, Cited
  <2> QED BY <1>5, <2>1 DEF Cited, ToSet
<1>27. Gone'
  BY <1>5 DEF SearchInv, Gone
<1> QED BY <1>1, <1>25, <1>26, <1>27 DEF SearchInv

\* Only what was retrieved is cited.
LEMMA GenerateKeeps == ASSUME SearchInv, NEW c \in Citations, Generate(c) PROVE SearchInv'
<1>1. Given /\ Given'
  BY DEF SearchInv, Given, Generate, Rest
<1>2. ScopeAsked /\ entries \in past /\ step = "generate" /\ HitsOk
  BY DEF SearchInv, AtStep, Generate
<1>3. PICK v : v = Those(c, ToSet(hits))
  OBVIOUS
<1>4. /\ UNCHANGED <<scope, ranked, hits, past, entries, hidden, lexical, near, question>>
      /\ step' = "answered" /\ reply'.citations = v
  BY <1>3 DEF Generate, Rest
<1>5. c \in Seq(Entry)
  <2>1. CASE c = <<>>
    BY <2>1
  <2>2. ASSUME NEW d \in Entry, c = <<d>> PROVE c \in Seq(Entry)
    BY <2>2
  <2>3. ASSUME NEW d \in Entry, c = <<d, d>> PROVE c \in Seq(Entry)
    BY <2>3
  <2> QED BY <2>1, <2>2, <2>3 DEF Citations
<1>6. ToSet(v) \subseteq ToSet(hits)
  BY <1>1, <1>3, <1>5, GivenIs, ThoseAre
<1>7. HitsOk'
  BY <1>2, <1>4, HitsStay
<1>8. AtStep'
  BY <1>2, <1>4, <1>7 DEF AtStep, ScopeAsked
<1>9. Cited'
  BY <1>4, <1>6 DEF Cited
<1>10. Gone'
  BY <1>4 DEF SearchInv, Gone
<1> QED BY <1>1, <1>8, <1>9, <1>10 DEF SearchInv

\* What is hidden was not always there.
LEMMA ShowKeeps == ASSUME SearchInv, Show PROVE SearchInv'
<1>1. Given /\ Given'
  BY DEF SearchInv, Given, Show, Rest
<1>2. ScopeAsked /\ entries \in past /\ step = "show" /\ question.path \in Hybrid /\ HitsOk /\ Gone
  BY DEF SearchInv, AtStep, Show
<1>3. PICK h : h = Those(hits, Entry \ hidden)
  OBVIOUS
<1>4. /\ UNCHANGED <<scope, ranked, reply, past, entries, hidden, lexical, near, question>>
      /\ step' = "answered" /\ hits' = h
  BY <1>3 DEF Show, Rest
<1>5. Ever' = Ever /\ Always' = Always /\ Small' = Small
  BY <1>4, AskedStays
<1>6. hits \in Seq(Entry) /\ NoneTwice(hits) /\ ToSet(hits) \subseteq Ever
  BY <1>2 DEF HitsOk
<1>7. h \in Seq(Entry) /\ ToSet(h) = ToSet(hits) \cap (Entry \ hidden) /\ Picked(h, hits)
  BY <1>1, <1>3, <1>6, GivenIs, ThoseAre
<1>8. Always \subseteq Entry \ hidden
  BY <1>2 DEF Always, Belongs, Gone
<1>9. HitsOk'
  <2>1. hits' \in Seq(Entry) /\ NoneTwice(hits') /\ ToSet(hits') \subseteq Ever'
    BY <1>4, <1>5, <1>6, <1>7 DEF Picked
  <2>2. Small' => Always' \subseteq ToSet(hits')
    BY <1>2, <1>4, <1>5, <1>7, <1>8 DEF HitsOk
  <2>3. ListsOk(2)'
    BY <1>2, <1>4, <1>5 DEF HitsOk, ListsOk
  <2>4. ASSUME question.final = "rrf"
        PROVE  BestFirst(h)
    <3>1. BestFirst(hits)
      BY <1>2, <2>4 DEF HitsOk
    <3> QED BY <1>7, <3>1, BestLeft
  <2>5. question'.final = "rrf" => BestFirst(hits)'
    BY <1>4, <2>4, BestStay
  <2> QED BY <2>1, <2>2, <2>3, <2>5 DEF HitsOk
<1>10. AtStep'
  BY <1>2, <1>4, <1>9 DEF AtStep, ScopeAsked
<1>11. Cited'
  <2>1. reply.citations = <<>>
    BY <1>2 DEF SearchInv, Cited
  <2> QED BY <1>4, <2>1 DEF Cited, ToSet
<1>12. Gone'
  BY <1>4 DEF SearchInv, Gone
<1> QED BY <1>1, <1>10, <1>11, <1>12 DEF SearchInv

\* Whatever is written, the request keeps what it has.
LEMMA WriteKeeps ==
  ASSUME SearchInv, NEW new, Write(new)
  PROVE  SearchInv'
<1>1. /\ UNCHANGED <<hidden, lexical, near, question, step, scope, ranked, hits, reply>>
      /\ entries' \in past' /\ past \subseteq past' /\ step \in {"near", "fetch", "generate", "show"}
  BY DEF Write, Reading, request
<1>2. Given'
  BY <1>1 DEF SearchInv, Given
<1>3. ScopeAsked'
  BY <1>1 DEF SearchInv, AtStep, ScopeAsked
<1>4. step = "near" => ListsOk(1)' /\ WordsFound'
  BY <1>1, ListsStay, FoundStays DEF SearchInv, AtStep
<1>5. step = "fetch" => ListsOk(2)' /\ AllFound'
  BY <1>1, ListsStay, FoundStays DEF SearchInv, AtStep
<1>6. step \in {"generate", "show", "answered"} => HitsOk'
  BY <1>1, HitsStay DEF SearchInv, AtStep
<1>7. AtStep'
  <2>1. question'.path \in Hybrid
    BY <1>1 DEF SearchInv, AtStep
  <2> QED BY <1>1, <1>3, <1>4, <1>5, <1>6, <2>1 DEF AtStep
<1>8. Cited'
  BY <1>1 DEF SearchInv, Cited
<1>9. Gone'
  BY <1>1 DEF SearchInv, Gone
<1> QED BY <1>2, <1>7, <1>8, <1>9 DEF SearchInv

\* Who is hidden had left the index before.
LEMMA HideKeeps == ASSUME SearchInv, NEW d \in Entry, Hide(d) PROVE SearchInv'
<1>1. /\ UNCHANGED <<entries, lexical, near, question, step, scope, ranked, hits, reply, past>>
      /\ hidden' = hidden \cup {d} /\ ~entries[d].there /\ step \in {"near", "fetch", "generate", "show"}
  BY DEF Hide, Reading, request
<1>2. Given'
  BY <1>1 DEF SearchInv, Given
<1>3. AtStep'
  <2>1. ScopeAsked'
    BY <1>1 DEF SearchInv, AtStep, ScopeAsked
  <2>2. step = "near" => ListsOk(1)' /\ WordsFound'
    BY <1>1, ListsStay, FoundStays DEF SearchInv, AtStep
  <2>3. step = "fetch" => ListsOk(2)' /\ AllFound'
    BY <1>1, ListsStay, FoundStays DEF SearchInv, AtStep
  <2>4. step \in {"generate", "show", "answered"} => HitsOk'
    BY <1>1, HitsStay DEF SearchInv, AtStep
  <2>5. question'.path \in Hybrid /\ entries' \in past'
    BY <1>1 DEF SearchInv, AtStep
  <2> QED BY <1>1, <2>1, <2>2, <2>3, <2>4, <2>5 DEF AtStep
<1>4. Cited'
  BY <1>1 DEF SearchInv, Cited
<1>5. Gone'
  <2>1. entries \in past
    BY <1>1 DEF SearchInv, AtStep
  <2> QED BY <1>1, <2>1 DEF SearchInv, Gone
<1> QED BY <1>2, <1>3, <1>4, <1>5 DEF SearchInv

\* The invariant of a search.
LEMMA SearchInvariant == SSpec => []SearchInv
<1>1. SInit => SearchInv
  <2> SUFFICES ASSUME SInit PROVE SearchInv
    OBVIOUS
  <2>1. Given
    BY DEF SInit, Given
  <2>2. AtStep
    BY DEF SInit, AtStep
  <2>3. Cited
    BY DEF SInit, Cited, ToSet
  <2>4. Gone
    BY DEF SInit, Gone
  <2> QED BY <2>1, <2>2, <2>3, <2>4 DEF SearchInv
<1>2. SearchInv /\ [SNext]_svars => SearchInv'
  <2> SUFFICES ASSUME SearchInv, [SNext]_svars PROVE SearchInv'
    OBVIOUS
  <2>1. CASE Resolve
    BY <2>1, ResolveKeeps
  <2>2. CASE Embed
    BY <2>2, OnlyTheStep DEF Embed, Stops, Rest
  <2>3. CASE EmbedFails
    BY <2>3, OnlyTheStep DEF EmbedFails, Rest
  <2>4. CASE Match
    BY <2>4, MatchKeeps
  <2>5. CASE Near
    BY <2>5, NearKeeps
  <2>6. CASE Fetch
    BY <2>6, FetchKeeps
  <2>7. CASE Unreachable
    BY <2>7, OnlyTheStep DEF Unreachable, Stops, Rest
  <2>8. CASE GenerateFails
    BY <2>8, OnlyTheStep DEF GenerateFails, Stops, Rest
  <2>9. CASE Show
    BY <2>9, ShowKeeps
  <2>10. ASSUME NEW c \in Citations, Generate(c) PROVE SearchInv'
    BY <2>10, GenerateKeeps
  <2>11. ASSUME NEW d \in Entry, NEW F, NEW T, Index(d, F, T) PROVE SearchInv'
    BY <2>11, WriteKeeps DEF Index
  <2>12. ASSUME NEW d \in Entry, NEW F, SetFolders(d, F) PROVE SearchInv'
    BY <2>12, WriteKeeps DEF SetFolders
  <2>13. ASSUME NEW d \in Entry, NEW T, SetThemes(d, T) PROVE SearchInv'
    BY <2>13, WriteKeeps DEF SetThemes
  <2>14. ASSUME NEW d \in Entry, SetPassages(d) PROVE SearchInv'
    BY <2>14, WriteKeeps DEF SetPassages
  <2>15. ASSUME NEW d \in Entry, DropEntry(d) PROVE SearchInv'
    BY <2>15, WriteKeeps DEF DropEntry
  <2>16. ASSUME NEW d \in Entry, Hide(d) PROVE SearchInv'
    BY <2>16, HideKeeps
  <2>17. CASE UNCHANGED svars
    <3>1. Given' /\ Cited' /\ Gone'
      BY <2>17 DEF svars, SearchInv, Given, Cited, Gone
    <3>2. UNCHANGED <<question, lexical, ranked, hits, scope, step, hidden, entries, past>>
      BY <2>17 DEF svars
    <3>3. (WordsFound => WordsFound') /\ (AllFound => AllFound') /\ (HitsOk => HitsOk')
      BY <3>2, FoundStays, HitsStay
    <3>4. ListsOk(1) => ListsOk(1)'
      BY <3>2, ListsStay
    <3>5. ListsOk(2) => ListsOk(2)'
      BY <3>2, ListsStay
    <3>6. AtStep'
      BY <3>2, <3>3, <3>4, <3>5 DEF SearchInv, AtStep, ScopeAsked
    <3> QED BY <3>1, <3>6 DEF SearchInv
  <2> QED
    BY <2>1, <2>2, <2>3, <2>4, <2>5, <2>6, <2>7, <2>8, <2>9, <2>10, <2>11, <2>12, <2>13, <2>14, <2>15,
       <2>16, <2>17 DEF SNext
<1> QED BY <1>1, <1>2, PTL DEF SSpec

\* hybrid.py, rrf.py, rag.py and the reads of opensearch_index.py: while documents
\* are indexed, moved between dossiers and deleted under the three requests of a
\* search, an answer has nothing that was at no moment in the dossiers and the
\* topic that were asked, has no document twice and cites nothing it did not
\* retrieve; what fits in the answer is answered in full; and a document that both
\* rankings put before another stands before it. For any number of documents.
THEOREM AnswersAreTheScope == SSpec => []AnswerIsTheScope
<1>1. SearchInv => AnswerIsTheScope
  <2> SUFFICES ASSUME SearchInv, step = "answered" PROVE AnswerIsTheScope
    BY DEF AnswerIsTheScope
  <2>1. HitsOk /\ Cited /\ IsFiniteSet(Entry)
    BY GivenIs DEF SearchInv, AtStep
  <2>2. ToSet(hits) \subseteq Ever /\ \A i, j \in DOMAIN hits : hits[i] = hits[j] => i = j
    BY <2>1 DEF HitsOk, NoneTwice
  <2>3. ToSet(reply.citations) \subseteq ToSet(hits)
    BY <2>1 DEF Cited
  <2>4. Cardinality(Ever) <= Recall /\ Cardinality(Ever) <= Asked => Always \subseteq ToSet(hits)
    BY <2>1 DEF HitsOk, Small
  <2>5. ASSUME question.path \in Hybrid, question.final = "rrf",
               NEW d \in ToSet(hits), NEW e \in ToSet(hits),
               \A k \in 1 .. 2 : /\ d \in ToSet(ranked[k])
                                 /\ e \in ToSet(ranked[k]) => RankOf(d, ranked[k]) < RankOf(e, ranked[k])
        PROVE  RankOf(d, hits) <= RankOf(e, hits)
    <3>1. ListsOk(2) /\ BestFirst(hits)
      BY <2>1, <2>5 DEF HitsOk
    <3>2. PICK s \in Seq(Entry), t \in Seq(Entry) :
            s = ranked[1] /\ t = ranked[2] /\ NoneTwice(s)
      <4>1. ranked \in Seq(Seq(Entry)) /\ Len(ranked) = 2 /\ NoneTwice(ranked[1])
        BY <3>1 DEF ListsOk
      <4>2. ranked[1] \in Seq(Entry) /\ ranked[2] \in Seq(Entry)
        <5>1. ranked \in Seq(Seq(Entry)) /\ 1 \in 1 .. Len(ranked) /\ 2 \in 1 .. Len(ranked)
          BY <4>1
        <5> QED BY <5>1
      <4> QED BY <4>1, <4>2
    <3>3. /\ d \in ToSet(s) /\ (e \in ToSet(s) => RankOf(d, s) < RankOf(e, s))
          /\ d \in ToSet(t) /\ (e \in ToSet(t) => RankOf(d, t) < RankOf(e, t))
      BY <2>5, <3>2
    <3>4. Share(d, s) >= Share(e, s) /\ Share(d, t) >= Share(e, t)
      BY <3>3, SharesFall
    <3>5. PICK a \in Nat, b \in Nat, x \in Nat, y \in Nat :
            a = Share(d, s) /\ b = Share(d, t) /\ x = Share(e, s) /\ y = Share(e, t)
      BY ShareIs
    <3>6. Score(d) = a + b /\ Score(e) = x + y /\ a >= x /\ b >= y
      BY <3>2, <3>4, <3>5 DEF Score
    <3>7. Earlier(s \o t, d, e)
      BY <3>2, <3>3, FirstIsEarlier
    <3>8. ~Better(e, d)
      <4>1. ~Earlier(s \o t, e, d)
        BY <3>7, BothIs, EarlierOnce
      <4>2. ~(x + y > a + b)
        BY <3>6
      <4> QED BY <3>2, <3>6, <4>1, <4>2 DEF Better
    <3>9. PICK i \in DOMAIN hits, j \in DOMAIN hits :
             i = RankOf(d, hits) /\ j = RankOf(e, hits) /\ hits[i] = d /\ hits[j] = e
      BY <2>1, <2>5, RankIs DEF HitsOk
    <3>10. i \in Nat /\ j \in Nat /\ ~(j < i)
      BY <3>1, <3>8, <3>9 DEF BestFirst
    <3> QED BY <3>9, <3>10
  <2> QED BY <2>2, <2>3, <2>4, <2>5 DEF AnswerIsTheScope
<1>2. SSpec => []SearchInv
  BY SearchInvariant
<1> QED BY <1>1, <1>2, PTL

-----------------------------------------------------------------------------
(* Detection: a result stands for a text part by part, and nothing stays of *)
(* a place where a value stands.                                           *)

-----------------------------------------------------------------------------
(* The detection: what comes out of a text.                                *)

\* A part of a sequence.
LEMMA SliceIs ==
  ASSUME NEW A, NEW t \in Seq(A), NEW i \in Nat, NEW j \in Nat, i >= 1, i <= j + 1, j <= Len(t)
  PROVE  /\ SubSeq(t, i, j) \in Seq(A) /\ Len(SubSeq(t, i, j)) = j - i + 1
         /\ DOMAIN SubSeq(t, i, j) = 1 .. j - i + 1
         /\ \A k \in 1 .. j - i + 1 : SubSeq(t, i, j)[k] = t[i + k - 1]
  OBVIOUS

\* Two sequences with the same members in the same places.
LEMMA SameSeqs ==
  ASSUME NEW A, NEW s \in Seq(A), NEW B, NEW t \in Seq(B), Len(s) = Len(t), \A k \in 1 .. Len(s) : s[k] = t[k]
  PROVE  s = t
<1>1. s = [k \in 1 .. Len(s) |-> s[k]]
  OBVIOUS
<1>2. t = [k \in 1 .. Len(t) |-> t[k]]
  OBVIOUS
<1> QED BY <1>1, <1>2

\* The greatest of some numbers up to n, and the least.
LEMMA MaxIs ==
  ASSUME NEW n \in Nat, NEW S \in SUBSET (0 .. n), S # {}
  PROVE  Max(S) \in S /\ \A x \in S : x <= Max(S)
<1>1. PICK R : R = {n - x : x \in S}
  OBVIOUS
<1>2. R \in SUBSET Nat /\ R # {}
  <2>1. \A x \in S : n - x \in Nat
    OBVIOUS
  <2> QED BY <1>1, <2>1
<1>3. PICK m \in R : \A x \in R : m <= x
  BY <1>2, LeastNumber
<1>4. PICK y \in S : m = n - y
  BY <1>1
<1>5. y \in Nat /\ \A x \in S : x \in Nat /\ y >= x
  <2>1. y \in Nat /\ m \in Nat
    BY <1>2
  <2>2. ASSUME NEW x \in S PROVE x \in Nat /\ y >= x
    <3>1. x \in Nat /\ m <= n - x
      BY <1>1, <1>3
    <3> QED BY <1>4, <2>1, <3>1
  <2> QED BY <2>1, <2>2
<1>6. \E x \in S : \A z \in S : x >= z
  BY <1>5
<1>7. Max(S) \in S /\ \A z \in S : Max(S) >= z
  BY <1>6 DEF Max
<1> QED BY <1>7

\* The least of some numbers.
LEMMA MinIs ==
  ASSUME NEW S \in SUBSET Nat, S # {}
  PROVE  Min(S) \in S /\ \A x \in S : Min(S) <= x
<1>1. \E x \in S : \A z \in S : x <= z
  BY LeastNumber
<1> QED BY <1>1 DEF Min

\* From the left: what Heads promises.
HeadsOf(S, last) ==
  /\ S \subseteq DOMAIN last
  /\ \A i \in DOMAIN last : i \in S <=> ~\E j \in S : j < i /\ i <= last[j]

\* There are such places, since each depends only on those before it.
LEMMA HeadsAre ==
  ASSUME NEW n \in Nat, NEW last \in [1 .. n -> Nat], NEW S, S = Heads(last)
  PROVE  HeadsOf(S, last)
<1> DEFINE Upto(m, T) == T \subseteq 1 .. m /\ \A i \in 1 .. m : i \in T <=> ~\E j \in T : j < i /\ i <= last[j]
<1>1. PICK N : N = {m \in Nat : m <= n => \E T : Upto(m, T)}
  OBVIOUS
<1>2. 0 \in N
  <2>1. Upto(0, {})
    OBVIOUS
  <2> QED BY <1>1, <2>1
<1>3. ASSUME NEW m \in N PROVE m + 1 \in N
  <2>1. m \in Nat /\ (m <= n => \E T : Upto(m, T))
    BY <1>1
  <2>2. SUFFICES ASSUME m + 1 <= n PROVE \E T : Upto(m + 1, T)
    BY <1>1, <2>1
  <2>3. PICK T : Upto(m, T)
    BY <2>1, <2>2
  <2>4. CASE \E j \in T : j < m + 1 /\ m + 1 <= last[j]
    <3>1. Upto(m + 1, T)
      BY <2>1, <2>3, <2>4
    <3> QED BY <3>1
  <2>5. CASE ~\E j \in T : j < m + 1 /\ m + 1 <= last[j]
    <3>1. PICK U : U = T \cup {m + 1}
      OBVIOUS
    <3>2. U \subseteq 1 .. m + 1
      BY <2>1, <2>3, <3>1
    <3>3. ASSUME NEW i \in 1 .. m PROVE i \in U <=> ~\E j \in U : j < i /\ i <= last[j]
      <4>1. i # m + 1 /\ ~(m + 1 < i)
        BY <2>1
      <4> QED BY <2>3, <3>1, <4>1
    <3>4. m + 1 \in U /\ ~\E j \in U : j < m + 1 /\ m + 1 <= last[j]
      BY <2>1, <2>5, <3>1
    <3>5. Upto(m + 1, U)
      BY <2>1, <3>2, <3>3, <3>4
    <3> QED BY <3>5
  <2> QED BY <2>4, <2>5
<1> HIDE DEF Upto
<1>4. N = Nat
  <2>1. N \subseteq Nat
    BY <1>1
  <2> QED BY <1>2, <1>3, <2>1, NatSets
<1>5. PICK T : Upto(n, T)
  <2>1. n \in N /\ n <= n
    BY <1>4
  <2> QED BY <1>1, <2>1, Zenon
<1>6. T \in SUBSET DOMAIN last /\ \A i \in DOMAIN last : i \in T <=> ~\E j \in T : j < i /\ i <= last[j]
  BY <1>5 DEF Upto
<1>7. Heads(last) \in SUBSET DOMAIN last
      /\ \A i \in DOMAIN last : i \in Heads(last) <=> ~\E j \in Heads(last) : j < i /\ i <= last[j]
  BY <1>6 DEF Heads
<1> QED BY <1>7 DEF HeadsOf

\* Places in their order.
Ascends(at, S) ==
  /\ at \in Seq(S) /\ {at[k] : k \in DOMAIN at} = S
  /\ \A i, j \in DOMAIN at : i < j <=> at[i] < at[j]

\* Rising gives the places in their order.
LEMMA RisingIs ==
  ASSUME NEW n \in Nat, NEW S \in SUBSET (1 .. n), NEW at, at = Rising(S)
  PROVE  Ascends(at, S)
<1>1. PICK R : R = {p \in S \X S : p[1] < p[2]}
  OBVIOUS
<1>2. IsFiniteSet(S)
  <2>1. IsFiniteSet(1 .. n)
    BY FS_Interval
  <2> QED BY <2>1, FS_Subset
<1>3. \A d, e \in S : <<d, e>> \in R <=> d < e
  BY <1>1
<1>4. S \subseteq Nat
  OBVIOUS
<1>5. StrictOn(R, S)
  <2>1. \A d \in S : <<d, d>> \notin R
    BY <1>3, <1>4
  <2>2. \A d, e, f : <<d, e>> \in R /\ <<e, f>> \in R => d \in S /\ e \in S /\ f \in S
    BY <1>1
  <2>3. ASSUME NEW d, NEW e, NEW f, <<d, e>> \in R, <<e, f>> \in R PROVE <<d, f>> \in R
    <3>1. d \in S /\ e \in S /\ f \in S
      BY <2>2, <2>3
    <3>2. d \in Nat /\ e \in Nat /\ f \in Nat /\ d < e /\ e < f
      BY <1>3, <1>4, <2>3, <3>1
    <3> QED BY <1>3, <3>1, <3>2
  <2>4. ASSUME NEW d \in S, NEW e \in S PROVE d = e \/ <<d, e>> \in R \/ <<e, d>> \in R
    <3>1. d \in Nat /\ e \in Nat
      BY <1>4
    <3> QED BY <1>3, <3>1
  <2> QED BY <2>1, <2>3, <2>4 DEF StrictOn
<1>6. at = Ordered(S, R)
  BY <1>1 DEF Rising
<1>7. InOrder(at, S, R)
  BY <1>2, <1>5, <1>6, OrderedIs
<1>8. at \in Seq(S) /\ {at[k] : k \in DOMAIN at} = S
  BY <1>7 DEF InOrder, ToSet
<1>9. ASSUME NEW i \in DOMAIN at, NEW j \in DOMAIN at PROVE i < j <=> at[i] < at[j]
  <2>1. at[i] \in S /\ at[j] \in S /\ i \in Nat /\ j \in Nat
    BY <1>8
  <2>2. at[i] \in Nat /\ at[j] \in Nat
    BY <1>4, <2>1
  <2>3. (i < j => at[i] < at[j]) /\ (j < i => at[j] < at[i])
    BY <1>3, <1>7, <2>1 DEF InOrder
  <2> QED BY <2>1, <2>2, <2>3
<1> QED BY <1>8, <1>9 DEF Ascends

\* Between two places that follow each other in the order there is none.
Numbered(at, S) ==
  /\ at \in Seq(S) /\ Len(at) \in Nat /\ DOMAIN at = 1 .. Len(at)
  /\ \A k \in 1 .. Len(at) : at[k] \in S /\ at[k] \in Nat
  /\ \A i, j \in 1 .. Len(at) : i < j <=> at[i] < at[j]
  /\ \A k \in 1 .. Len(at) : \A x \in S : at[k] < x => k < Len(at) /\ at[k + 1] <= x
  /\ \A x \in S : \E k \in 1 .. Len(at) : at[k] = x
  /\ \A x \in S : Len(at) > 0 /\ at[1] <= x

\* The next of the places is the least of the greater ones.
LEMMA PlacesNext ==
  ASSUME NEW n \in Nat, NEW S \in SUBSET (1 .. n), NEW at, Ascends(at, S)
  PROVE  Numbered(at, S)
<1>1. at \in Seq(S) /\ {at[k] : k \in DOMAIN at} = S
  BY DEF Ascends
<1>2. Len(at) \in Nat /\ DOMAIN at = 1 .. Len(at)
  BY <1>1
<1>3. \A k \in 1 .. Len(at) : at[k] \in S /\ at[k] \in Nat
  <2>1. \A x \in S : x \in Nat
    OBVIOUS
  <2>2. \A k \in DOMAIN at : at[k] \in S
    BY <1>1
  <2> QED BY <1>2, <2>1, <2>2
<1>4. \A x \in S : \E k \in 1 .. Len(at) : at[k] = x
  <2>1. \A x \in S : \E k \in DOMAIN at : at[k] = x
    BY <1>1
  <2> QED BY <1>2, <2>1
<1>5. \A i, j \in 1 .. Len(at) : i < j <=> at[i] < at[j]
  BY <1>2 DEF Ascends
<1>6. ASSUME NEW k \in 1 .. Len(at), NEW x \in S, at[k] < x PROVE k < Len(at) /\ at[k + 1] <= x
  <2>1. PICK j \in 1 .. Len(at) : at[j] = x
    BY <1>4
  <2>2. k < j
    BY <1>5, <1>6, <2>1
  <2>3. k + 1 \in 1 .. Len(at) /\ k < Len(at)
    BY <1>2, <2>2
  <2>4. ~(j < k + 1)
    BY <1>2, <2>2
  <2>5. ~(at[j] < at[k + 1])
    BY <1>5, <2>3, <2>4
  <2>6. at[j] \in Nat /\ at[k + 1] \in Nat
    BY <1>3, <2>3
  <2> QED BY <2>1, <2>3, <2>5, <2>6
<1>7. ASSUME NEW x \in S PROVE Len(at) > 0 /\ at[1] <= x
  <2>1. PICK j \in 1 .. Len(at) : at[j] = x
    BY <1>4
  <2>2. 1 \in 1 .. Len(at) /\ ~(j < 1) /\ Len(at) > 0
    BY <1>2
  <2>3. ~(at[j] < at[1])
    BY <1>5, <2>2
  <2>4. at[j] \in Nat /\ at[1] \in Nat
    BY <1>3, <2>2
  <2> QED BY <2>1, <2>2, <2>3, <2>4
<1> QED BY <1>1, <1>2, <1>3, <1>4, <1>5, <1>6, <1>7 DEF Numbered

\* Only one sequence has them in their order.
LEMMA PlacesOnce ==
  ASSUME NEW n \in Nat, NEW S \in SUBSET (1 .. n), NEW at, NEW b, Ascends(at, S), Ascends(b, S)
  PROVE  at = b
<1>0. Numbered(at, S) /\ Numbered(b, S)
  BY PlacesNext
<1>1. /\ at \in Seq(S) /\ b \in Seq(S)
      /\ Len(at) \in Nat /\ Len(b) \in Nat /\ DOMAIN at = 1 .. Len(at) /\ DOMAIN b = 1 .. Len(b)
      /\ \A k \in 1 .. Len(at) : at[k] \in S /\ at[k] \in Nat
      /\ \A k \in 1 .. Len(b) : b[k] \in S /\ b[k] \in Nat
  BY <1>0 DEF Numbered
<1>2. PICK N : N = {m \in Nat : m <= Len(at) => m <= Len(b) /\ \A k \in 1 .. m : at[k] = b[k]}
  OBVIOUS
<1>3. 0 \in N
  BY <1>1, <1>2
<1>4. ASSUME NEW m \in N PROVE m + 1 \in N
  <2>1. m \in Nat
    BY <1>2
  <2>2. SUFFICES ASSUME m + 1 <= Len(at) PROVE m + 1 <= Len(b) /\ \A k \in 1 .. m + 1 : at[k] = b[k]
    BY <1>2, <2>1
  <2>3. m <= Len(b) /\ \A k \in 1 .. m : at[k] = b[k]
    BY <1>1, <1>2, <2>1, <2>2
  <2>4. m + 1 \in 1 .. Len(at)
    BY <1>1, <2>1, <2>2
  <2>5. PICK x \in S : x = at[m + 1] /\ x \in Nat
    BY <1>1, <2>4
  <2>6. CASE m = 0
    <3>1. Len(b) > 0 /\ b[1] <= x /\ 1 \in 1 .. Len(b)
      BY <1>1, <1>0 DEF Numbered
    <3>2. b[1] \in S /\ b[1] \in Nat
      BY <1>1, <3>1
    <3>3. at[1] <= b[1] /\ at[1] = x
      BY <2>5, <2>6, <3>2, <1>0 DEF Numbered
    <3>4. at[1] = b[1]
      BY <2>5, <3>1, <3>2, <3>3
    <3> QED BY <1>1, <2>6, <3>1, <3>4
  <2>7. CASE m > 0
    <3>1. m \in 1 .. Len(at) /\ m \in 1 .. Len(b) /\ m < m + 1
      BY <1>1, <2>1, <2>2, <2>3, <2>7
    <3>2. at[m] < at[m + 1]
      BY <1>1, <2>4, <3>1, <1>0 DEF Numbered
    <3>3. at[m] = b[m]
      BY <2>1, <2>3, <2>7
    <3>4. m < Len(b) /\ b[m + 1] <= x
      BY <2>5, <3>1, <3>2, <3>3, <1>0 DEF Numbered
    <3>5. m + 1 \in 1 .. Len(b)
      BY <1>1, <2>1, <3>4
    <3>6. b[m + 1] \in S /\ b[m + 1] \in Nat /\ b[m] < b[m + 1]
      BY <1>1, <3>1, <3>5, <1>0 DEF Numbered
    <3>7. at[m + 1] <= b[m + 1]
      BY <3>1, <3>3, <3>6, <1>0 DEF Numbered
    <3>8. at[m + 1] = b[m + 1]
      BY <2>5, <3>4, <3>6, <3>7
    <3> QED BY <1>1, <2>1, <2>3, <3>5, <3>8
  <2> QED BY <2>1, <2>6, <2>7
<1>5. N = Nat
  <2>1. N \subseteq Nat
    BY <1>2
  <2> QED BY <1>3, <1>4, <2>1, NatSets
<1>6. Len(at) <= Len(b) /\ \A k \in 1 .. Len(at) : at[k] = b[k]
  <2>1. Len(at) \in N /\ Len(at) <= Len(at)
    BY <1>1, <1>5
  <2> QED BY <1>2, <2>1, Zenon
<1>7. Len(at) = Len(b)
  <2>0. PICK m \in Nat : m = Len(at)
    BY <1>1
  <2>9. Len(b) \in Nat
    BY <1>1
  <2>1. SUFFICES ASSUME Len(at) < Len(b) PROVE FALSE
    BY <1>6, <2>0, <2>9
  <2>2. Len(at) + 1 \in 1 .. Len(b)
    BY <1>1, <2>1
  <2>3. PICK k \in 1 .. Len(at) : at[k] = b[Len(at) + 1]
    BY <1>1, <2>2, <1>0 DEF Numbered
  <2>4. b[k] = b[Len(at) + 1] /\ k \in 1 .. Len(b) /\ k < Len(at) + 1
    BY <1>1, <1>6, <2>1, <2>3
  <2>5. b[k] < b[Len(at) + 1]
    BY <1>1, <2>2, <2>4, <1>0 DEF Numbered
  <2> QED BY <1>1, <2>2, <2>4, <2>5
<1> QED BY <1>1, <1>6, <1>7, SameSeqs

\* Where the longest value ends.
LEMMA LongestIs ==
  ASSUME NEW A, NEW t \in Seq(A), NEW i \in 1 .. Len(t), NEW vs
  PROVE  /\ Longest(t, i, vs) \in Nat /\ i <= Longest(t, i, vs) /\ Longest(t, i, vs) <= Len(t)
         /\ Ends(t, i, vs) = {} => Longest(t, i, vs) = i
         /\ \A j \in Ends(t, i, vs) : j \in i .. Len(t) /\ j <= Longest(t, i, vs) /\ Longest(t, i, vs) \in Ends(t, i, vs)
<1>1. PICK n \in Nat : n = Len(t)
  OBVIOUS
<1>2. PICK S : S = Ends(t, i, vs)
  OBVIOUS
<1>3. S \subseteq i .. n
  BY <1>1, <1>2 DEF Ends
<1>4. CASE S = {}
  BY <1>1, <1>2, <1>4 DEF Longest
<1>5. CASE S # {}
  <2>1. S \in SUBSET (0 .. n)
    BY <1>1, <1>3
  <2>2. PICK m \in S : m = Max(S) /\ \A x \in S : x <= m
    BY <1>5, <2>1, MaxIs
  <2>3. Longest(t, i, vs) = m
    BY <1>2, <1>5, <2>2 DEF Longest
  <2>4. m \in Nat /\ i <= m /\ m <= n
    BY <1>1, <1>3
  <2> QED BY <1>1, <1>2, <1>3, <1>5, <2>2, <2>3, <2>4
<1> QED BY <1>4, <1>5

\* Parts from the left: each place is in one of them, and they follow each other.
InParts(n, last, S) ==
  /\ S \subseteq 1 .. n
  /\ n > 0 => 1 \in S
  /\ \A i \in 1 .. n : \E s \in S : s <= i /\ i <= last[s]
  /\ \A s, q \in S : s < q => last[s] < q
  /\ \A s \in S : last[s] < n => last[s] + 1 \in S

\* Parts follow on one another, from the first place to the last.
LEMMA PartsFollow ==
  ASSUME NEW n \in Nat, NEW last \in [1 .. n -> Nat], \A i \in 1 .. n : i <= last[i], NEW S, S = Heads(last)
  PROVE  InParts(n, last, S)
<1>1. /\ S \subseteq 1 .. n
      /\ \A i \in 1 .. n : i \in S <=> ~\E j \in S : j < i /\ i <= last[j]
  <2>1. HeadsOf(S, last)
    BY HeadsAre
  <2> QED BY <2>1 DEF HeadsOf
<1>2. \A i \in 1 .. n : i \in Nat /\ last[i] \in Nat
  OBVIOUS
<1>3. n > 0 => 1 \in S
  <2>1. \A j \in S : ~(j < 1)
    BY <1>1
  <2> QED BY <1>1, <2>1
<1>4. ASSUME NEW i \in 1 .. n PROVE \E s \in S : s <= i /\ i <= last[s]
  <2>1. i <= i /\ i <= last[i] /\ \A j \in S : j < i => j <= i
    BY <1>1
  <2> QED BY <1>1, <2>1
<1>5. ASSUME NEW s \in S, NEW q \in S, s < q PROVE last[s] < q
  <2>1. ~(q <= last[s]) /\ q \in Nat /\ last[s] \in Nat
    BY <1>1, <1>2, <1>5
  <2> QED BY <2>1
<1>6. ASSUME NEW s \in S, last[s] < n PROVE last[s] + 1 \in S
  <2>1. PICK l \in Nat : l = last[s]
    BY <1>1, <1>2
  <2>2. s \in Nat /\ s <= l /\ l + 1 \in 1 .. n
    BY <1>1, <1>6, <2>1
  <2>3. ASSUME NEW j \in S, j < l + 1, l + 1 <= last[j] PROVE FALSE
    <3>1. j \in Nat /\ last[j] \in Nat
      BY <1>1, <1>2
    <3>2. j # s
      BY <2>1, <2>3
    <3>3. ~(j < s)
      <4>1. j < s => last[j] < s
        BY <1>5
      <4> QED BY <2>2, <2>3, <3>1, <4>1
    <3>4. ~(s < j)
      <4>1. s < j => l < j
        BY <1>5, <2>1
      <4> QED BY <2>1, <2>2, <2>3, <3>1, <4>1
    <3> QED BY <2>2, <3>1, <3>2, <3>3, <3>4
  <2> QED BY <1>1, <2>1, <2>2, <2>3
<1> QED BY <1>1, <1>3, <1>4, <1>5, <1>6 DEF InParts

\* The parts of Replaced by their names.
Pass(t, vs, last, begun, left, gone) ==
  /\ last = [i \in DOMAIN t |-> Longest(t, i, vs)]
  /\ begun = Heads(last)
  /\ left = {i \in DOMAIN t : i \in begun \/ \E j \in begun : j < i /\ i <= last[j] /\ IsToken(t[j])}
  /\ gone = {i \in begun : Ends(t, i, vs) # {} /\ ~IsToken(t[i])}

\* The result of a pass, in the terms of its predicate.
LEMMA ReplacedIs ==
  ASSUME NEW t, NEW labels, NEW last, NEW begun, NEW left, NEW gone,
         Pass(t, DOMAIN labels, last, begun, left, gone), NEW at, at = Rising(left)
  PROVE  Replaced(t, labels) =
           [k \in DOMAIN at |-> IF at[k] \in gone THEN Put(labels[SubSeq(t, at[k], last[at[k]])], SubSeq(t, at[k], last[at[k]]))
                                ELSE t[at[k]]]
  BY DEF Replaced, Pass

\* What is left of the text, and what follows on it.
Passed(t, vs, last, begun, left, gone) ==
  /\ last \in [1 .. Len(t) -> Nat]
  /\ \A i \in 1 .. Len(t) : i <= last[i] /\ last[i] <= Len(t)
  /\ InParts(Len(t), last, begun)
  /\ begun \subseteq left /\ left \subseteq 1 .. Len(t) /\ gone \subseteq begun
  /\ \A p \in left : p \notin gone /\ p < Len(t) => p + 1 \in left
  /\ \A p \in gone : /\ \A x \in left : x > p => x > last[p]
                     /\ last[p] < Len(t) => last[p] + 1 \in left

\* What a pass leaves and what goes follow on one another.
LEMMA PassIs ==
  ASSUME NEW A, NEW t \in Seq(A), NEW vs, NEW last, NEW begun, NEW left, NEW gone,
         Pass(t, vs, last, begun, left, gone)
  PROVE  Passed(t, vs, last, begun, left, gone)
<1>1. PICK n \in Nat : n = Len(t) /\ DOMAIN t = 1 .. n
  OBVIOUS
<1>2. /\ last \in [1 .. n -> Nat]
      /\ \A i \in 1 .. n : i <= last[i] /\ last[i] <= n /\ (Ends(t, i, vs) = {} => last[i] = i)
  <2>1. last = [i \in 1 .. n |-> Longest(t, i, vs)]
    BY <1>1 DEF Pass
  <2>2. ASSUME NEW i \in 1 .. n
        PROVE  /\ Longest(t, i, vs) \in Nat /\ i <= Longest(t, i, vs) /\ Longest(t, i, vs) <= n
               /\ Ends(t, i, vs) = {} => Longest(t, i, vs) = i
    BY <1>1, LongestIs
  <2> QED BY <2>1, <2>2
<1>3. InParts(n, last, begun)
  <2>1. begun = Heads(last)
    BY DEF Pass
  <2> QED BY <1>2, <2>1, PartsFollow
<1>4. /\ begun \subseteq 1 .. n
      /\ \A i \in 1 .. n : \E s \in begun : s <= i /\ i <= last[s]
      /\ \A s, q \in begun : s < q => last[s] < q
      /\ \A s \in begun : last[s] < n => last[s] + 1 \in begun
  BY <1>3 DEF InParts
<1>5. /\ \A i : i \in left <=> i \in 1 .. n /\ (i \in begun \/ \E j \in begun : j < i /\ i <= last[j] /\ IsToken(t[j]))
      /\ \A i : i \in gone <=> i \in begun /\ Ends(t, i, vs) # {} /\ ~IsToken(t[i])
  <2>1. left = {i \in 1 .. n : i \in begun \/ \E j \in begun : j < i /\ i <= last[j] /\ IsToken(t[j])}
    BY <1>1 DEF Pass
  <2>2. gone = {i \in begun : Ends(t, i, vs) # {} /\ ~IsToken(t[i])}
    BY DEF Pass
  <2>3. \A i : i \in left <=> i \in 1 .. n /\ (i \in begun \/ \E j \in begun : j < i /\ i <= last[j] /\ IsToken(t[j]))
    BY <2>1
  <2>4. \A i : i \in gone <=> i \in begun /\ Ends(t, i, vs) # {} /\ ~IsToken(t[i])
    BY <2>2
  <2> QED BY <2>3, <2>4
<1>6. begun \subseteq left /\ left \subseteq 1 .. n /\ gone \subseteq begun
  BY <1>4, <1>5
<1>7. \A i \in 1 .. n : i \in Nat /\ last[i] \in Nat
  BY <1>2
<1>8. ASSUME NEW p \in left, p \notin gone, p < n PROVE p + 1 \in left
  <2>1. p \in Nat /\ p \in 1 .. n /\ p + 1 \in 1 .. n
    BY <1>1, <1>6, <1>8
  <2>2. ASSUME NEW s \in begun, s <= p, p <= last[s], IsToken(t[s]) \/ last[s] = s PROVE p + 1 \in left
    <3>1. s \in Nat /\ last[s] \in Nat
      BY <1>4, <1>7
    <3>2. CASE last[s] = p
      BY <1>4, <1>6, <1>8, <3>2
    <3>3. CASE last[s] # p
      <4>1. s < p + 1 /\ p + 1 <= last[s] /\ last[s] # s
        BY <2>1, <2>2, <3>1, <3>3
      <4> QED BY <1>5, <2>1, <2>2, <4>1
    <3> QED BY <3>2, <3>3
  <2>3. CASE p \in begun
    <3>1. IsToken(t[p]) \/ last[p] = p
      BY <1>2, <1>5, <1>8, <2>1, <2>3
    <3>2. p <= p /\ p <= last[p]
      BY <1>2, <2>1
    <3> QED BY <2>2, <2>3, <3>1, <3>2
  <2>4. CASE p \notin begun
    <3>1. PICK s \in begun : s < p /\ p <= last[s] /\ IsToken(t[s])
      BY <1>5, <2>4
    <3>2. s <= p
      BY <1>4, <1>7, <2>1, <3>1
    <3> QED BY <2>2, <3>1, <3>2
  <2> QED BY <2>3, <2>4
<1>9. ASSUME NEW p \in gone PROVE /\ \A x \in left : x > p => x > last[p]
                                  /\ last[p] < n => last[p] + 1 \in left
  <2>1. p \in begun /\ p \in Nat /\ last[p] \in Nat /\ ~IsToken(t[p])
    BY <1>4, <1>5, <1>7
  <2>2. ASSUME NEW x \in left, x > p PROVE x > last[p]
    <3>1. x \in Nat
      BY <1>6, <1>7
    <3>2. CASE x \in begun
      <4>1. p < x => last[p] < x
        BY <1>4, <2>1, <3>2
      <4> QED BY <2>1, <2>2, <3>1, <4>1
    <3>3. CASE x \notin begun
      <4>1. PICK s \in begun : s < x /\ x <= last[s] /\ IsToken(t[s])
        BY <1>5, <3>3
      <4>2. s \in Nat /\ last[s] \in Nat /\ s # p
        BY <1>4, <1>7, <2>1, <4>1
      <4>3. (s < p => last[s] < p) /\ (p < s => last[p] < s)
        BY <1>4, <2>1
      <4> QED BY <2>1, <2>2, <3>1, <4>1, <4>2, <4>3
    <3> QED BY <3>2, <3>3
  <2>3. last[p] < n => last[p] + 1 \in left
    BY <1>4, <1>6, <2>1
  <2> QED BY <2>2, <2>3
<1> QED BY <1>1, <1>2, <1>3, <1>6, <1>8, <1>9 DEF Passed

\* Where the parts of n places begin, and where the last one ends.
Bounds(b, m, n) ==
  /\ b \in [1 .. m + 1 -> Nat] /\ b[1] = 1 /\ b[m + 1] = n + 1
  /\ \A k \in 1 .. m : b[k] < b[k + 1]

\* Bounds rise.
LEMMA BoundsRise ==
  ASSUME NEW m \in Nat, NEW n \in Nat, NEW b, Bounds(b, m, n)
  PROVE  \A i, j \in 1 .. m + 1 : i < j => b[i] < b[j]
<1>1. \A i \in 1 .. m + 1 : b[i] \in Nat
  BY DEF Bounds
<1>2. PICK N : N = {d \in Nat : \A i \in 1 .. m + 1 : i + d + 1 <= m + 1 => b[i] < b[i + d + 1]}
  OBVIOUS
<1>3. 0 \in N
  <2>1. ASSUME NEW i \in 1 .. m + 1, i + 0 + 1 <= m + 1 PROVE b[i] < b[i + 0 + 1]
    <3>1. i \in 1 .. m /\ i + 0 + 1 = i + 1
      BY <2>1
    <3> QED BY <3>1 DEF Bounds
  <2> QED BY <1>2, <2>1
<1>4. ASSUME NEW d \in N PROVE d + 1 \in N
  <2>1. d \in Nat /\ \A i \in 1 .. m + 1 : i + d + 1 <= m + 1 => b[i] < b[i + d + 1]
    BY <1>2
  <2>2. ASSUME NEW i \in 1 .. m + 1, i + (d + 1) + 1 <= m + 1 PROVE b[i] < b[i + (d + 1) + 1]
    <3>1. PICK j \in 1 .. m : j = i + d + 1 /\ i + (d + 1) + 1 = j + 1 /\ j <= m + 1
      BY <2>1, <2>2
    <3>2. b[i] < b[j] /\ b[j] < b[j + 1]
      BY <2>1, <3>1 DEF Bounds
    <3>3. j \in 1 .. m + 1 /\ j + 1 \in 1 .. m + 1
      BY <3>1
    <3>4. b[i] \in Nat /\ b[j] \in Nat /\ b[j + 1] \in Nat
      BY <1>1, <3>3
    <3> QED BY <3>1, <3>2, <3>4
  <2> QED BY <1>2, <2>1, <2>2
<1>5. N = Nat
  <2>1. N \subseteq Nat
    BY <1>2
  <2> QED BY <1>3, <1>4, <2>1, NatSets
<1>6. ASSUME NEW i \in 1 .. m + 1, NEW j \in 1 .. m + 1, i < j PROVE b[i] < b[j]
  <2>1. PICK d \in Nat : j = i + d + 1
    <3>1. j - i - 1 \in Nat /\ j = i + (j - i - 1) + 1
      BY <1>6
    <3> QED BY <3>1
  <2>2. i + d + 1 <= m + 1 => b[i] < b[i + d + 1]
    BY <1>2, <1>5
  <2>3. i + d + 1 <= m + 1
    BY <2>1
  <2> QED BY <2>1, <2>2, <2>3
<1> QED BY <1>6

\* And each lies in the text.
LEMMA BoundsWithin ==
  ASSUME NEW m \in Nat, NEW n \in Nat, NEW b, Bounds(b, m, n)
  PROVE  /\ \A k \in 1 .. m + 1 : b[k] \in Nat /\ 1 <= b[k] /\ b[k] <= n + 1
         /\ \A k \in 1 .. m : b[k] \in 1 .. n /\ b[k + 1] \in Nat /\ b[k] <= b[k + 1] - 1 /\ b[k + 1] - 1 \in 1 .. n
<1>1. ASSUME NEW k \in 1 .. m + 1 PROVE b[k] \in Nat /\ 1 <= b[k] /\ b[k] <= n + 1
  <2>1. 1 \in 1 .. m + 1 /\ m + 1 \in 1 .. m + 1
    OBVIOUS
  <2>2. b[k] \in Nat /\ b[1] = 1 /\ b[m + 1] = n + 1
    BY DEF Bounds
  <2>3. (1 < k => b[1] < b[k]) /\ (k < m + 1 => b[k] < b[m + 1])
    BY <2>1, BoundsRise
  <2>4. k = 1 \/ 1 < k
    OBVIOUS
  <2>5. k = m + 1 \/ k < m + 1
    OBVIOUS
  <2> QED BY <2>2, <2>3, <2>4, <2>5
<1>2. ASSUME NEW k \in 1 .. m
      PROVE  b[k] \in 1 .. n /\ b[k + 1] \in Nat /\ b[k] <= b[k + 1] - 1 /\ b[k + 1] - 1 \in 1 .. n
  <2>1. k \in 1 .. m + 1 /\ k + 1 \in 1 .. m + 1
    OBVIOUS
  <2>2. b[k] \in Nat /\ 1 <= b[k] /\ b[k + 1] \in Nat /\ b[k + 1] <= n + 1
    BY <1>1, <2>1
  <2>3. b[k] < b[k + 1]
    BY DEF Bounds
  <2> QED BY <2>2, <2>3
<1> QED BY <1>1, <1>2

\* The places where parts begin, with the one behind the last.
Ended(at, n) == [k \in 1 .. Len(at) + 1 |-> IF k = Len(at) + 1 THEN n + 1 ELSE at[k]]

\* Places in their order, the first included, bound the parts of a text.
LEMMA BoundsOfPlaces ==
  ASSUME NEW n \in Nat, NEW S \in SUBSET (1 .. n), n > 0 => 1 \in S, NEW at, Ascends(at, S),
         NEW b, b = Ended(at, n)
  PROVE  Bounds(b, Len(at), n) /\ \A k \in 1 .. Len(at) : b[k] = at[k] /\ b[k + 1] = (IF k = Len(at) THEN n + 1 ELSE at[k + 1])
<1>1. Numbered(at, S)
  BY PlacesNext
<1>2. PICK m \in Nat : m = Len(at)
  BY <1>1 DEF Numbered
<1>3. /\ \A k \in 1 .. m : at[k] \in S /\ at[k] \in Nat
      /\ \A i, j \in 1 .. m : i < j <=> at[i] < at[j]
      /\ \A x \in S : m > 0 /\ at[1] <= x
  BY <1>1, <1>2 DEF Numbered
<1>0. b = [k \in 1 .. m + 1 |-> IF k = m + 1 THEN n + 1 ELSE at[k]]
  BY <1>2 DEF Ended
<1>4. ASSUME NEW k \in 1 .. m PROVE b[k] = at[k] /\ b[k + 1] = (IF k = m THEN n + 1 ELSE at[k + 1])
  <2>1. k # m + 1 /\ k \in 1 .. m + 1 /\ k + 1 \in 1 .. m + 1 /\ (k + 1 = m + 1 <=> k = m)
    OBVIOUS
  <2> QED BY <1>0, <2>1
<1>5. b \in [1 .. m + 1 -> Nat]
  <2>1. ASSUME NEW k \in 1 .. m + 1 PROVE (IF k = m + 1 THEN n + 1 ELSE at[k]) \in Nat
    <3>1. k # m + 1 => k \in 1 .. m
      OBVIOUS
    <3> QED BY <1>3, <3>1
  <2> QED BY <1>0, <2>1
<1>6. b[1] = 1 /\ b[m + 1] = n + 1
  <2>1. 1 \in 1 .. m + 1 /\ m + 1 \in 1 .. m + 1
    OBVIOUS
  <2>2. b[m + 1] = n + 1
    BY <1>0, <2>1
  <2>3. CASE n = 0
    <3>1. ~(1 \in 1 .. m)
      <4>1. SUFFICES ASSUME 1 \in 1 .. m PROVE FALSE
        OBVIOUS
      <4>2. at[1] \in 1 .. n
        BY <1>3, <4>1
      <4> QED BY <2>3, <4>2
    <3>2. m = 0
      BY <3>1
    <3> QED BY <2>2, <2>3, <3>2
  <2>4. CASE n > 0
    <3>1. m > 0 /\ at[1] <= 1
      BY <1>3, <2>4
    <3>2. at[1] \in 1 .. n /\ 1 \in 1 .. m
      BY <1>3, <3>1
    <3>3. at[1] = 1
      BY <3>1, <3>2
    <3>4. b[1] = at[1]
      BY <1>4, <3>2
    <3> QED BY <2>2, <3>3, <3>4
  <2> QED BY <2>3, <2>4
<1>7. ASSUME NEW k \in 1 .. m PROVE b[k] < b[k + 1]
  <2>1. CASE k = m
    <3>1. at[k] \in 1 .. n
      BY <1>3
    <3> QED BY <1>4, <2>1, <3>1
  <2>2. CASE k # m
    <3>1. k + 1 \in 1 .. m /\ k < k + 1
      BY <2>2
    <3> QED BY <1>3, <1>4, <2>2, <3>1
  <2> QED BY <2>1, <2>2
<1> QED BY <1>2, <1>4, <1>5, <1>6, <1>7 DEF Bounds

\* The parts of a text.
PartsAt(parts, t, b) ==
  /\ Bounds(b, Len(parts), Len(t))
  /\ \A k \in 1 .. Len(parts) : parts[k] = SubSeq(t, b[k], b[k + 1] - 1)

\* Parts cuts the text at its places.
LEMMA PartsAre ==
  ASSUME NEW A, NEW t \in Seq(A), NEW S \in SUBSET (1 .. Len(t)), Len(t) > 0 => 1 \in S,
         NEW at, at = Rising(S), NEW b, b = Ended(at, Len(t))
  PROVE  /\ Parts(t, S) \in Seq(Seq(A)) /\ Len(Parts(t, S)) = Len(at) /\ Len(at) \in Nat
         /\ PartsAt(Parts(t, S), t, b)
<1>1. PICK n \in Nat : n = Len(t)
  OBVIOUS
<1>2. Ascends(at, S)
  BY <1>1, RisingIs
<1>3. PICK m \in Nat : m = Len(at) /\ DOMAIN at = 1 .. m
  <2>1. Numbered(at, S)
    BY <1>1, <1>2, PlacesNext
  <2> QED BY <2>1 DEF Numbered
<1>4. Bounds(b, m, n) /\ \A k \in 1 .. m : b[k] = at[k] /\ b[k + 1] = (IF k = m THEN n + 1 ELSE at[k + 1])
  BY <1>1, <1>2, <1>3, BoundsOfPlaces
<1>5. PICK parts : parts = Parts(t, S)
  OBVIOUS
<1>6. parts = [k \in 1 .. m |-> SubSeq(t, at[k], IF k = m THEN n ELSE at[k + 1] - 1)]
  BY <1>1, <1>3, <1>5 DEF Parts
<1>7. ASSUME NEW k \in 1 .. m PROVE parts[k] = SubSeq(t, b[k], b[k + 1] - 1) /\ parts[k] \in Seq(A)
  <2>0. \A i \in 1 .. m : b[i] \in 1 .. n /\ b[i + 1] \in Nat /\ b[i] <= b[i + 1] - 1 /\ b[i + 1] - 1 \in 1 .. n
    BY <1>4, BoundsWithin
  <2>1. PICK x, y : x = b[k] /\ y = b[k + 1] /\ x \in Nat /\ y \in Nat /\ 1 <= x /\ x <= y - 1 /\ y - 1 \in 1 .. n
    <3>1. b[k] \in 1 .. n /\ b[k + 1] \in Nat /\ b[k] <= b[k + 1] - 1 /\ b[k + 1] - 1 \in 1 .. n
      BY <2>0
    <3>2. b[k] \in Nat /\ 1 <= b[k]
      BY <3>1
    <3> QED BY <3>1, <3>2
  <2>2. (IF k = m THEN n ELSE at[k + 1] - 1) = y - 1 /\ at[k] = x
    <3>1. x = at[k] /\ y = (IF k = m THEN n + 1 ELSE at[k + 1])
      BY <1>4, <2>1
    <3>2. k = m => n = y - 1
      BY <3>1
    <3>3. k # m => at[k + 1] = y
      BY <3>1
    <3> QED BY <3>1, <3>2, <3>3
  <2>3. parts[k] = SubSeq(t, x, y - 1)
    BY <1>6, <2>2
  <2>4. SubSeq(t, x, y - 1) \in Seq(A)
    <3>0. y - 1 \in Nat /\ x <= (y - 1) + 1 /\ y - 1 <= n
      BY <1>1, <2>1
    <3>1. PICK j : j = y - 1 /\ j \in Nat /\ x <= j + 1 /\ j <= n
      BY <3>0
    <3>2. x >= 1 /\ x \in Nat /\ j <= Len(t)
      BY <1>1, <2>1, <3>1
    <3> QED BY <3>1, <3>2, SliceIs
  <2> QED BY <2>1, <2>3, <2>4
<1>8. parts \in Seq(Seq(A)) /\ Len(parts) = m
  <2>1. parts = [k \in 1 .. m |-> parts[k]]
    BY <1>6, Zenon
  <2>2. parts \in [1 .. m -> Seq(A)]
    BY <1>7, <2>1
  <2> QED BY <2>2
<1> QED BY <1>1, <1>3, <1>4, <1>5, <1>7, <1>8 DEF PartsAt

\* A piece that stands for a part: it is the part, or remembers it.
Stand(x, p) == p = <<x>> \/ (IsToken(x) /\ x[3] = p)

\* A result that stands for a text, part by part.
StandAt(r, t, b) ==
  /\ Bounds(b, Len(r), Len(t))
  /\ \A k \in 1 .. Len(r) : Stand(r[k], SubSeq(t, b[k], b[k + 1] - 1))
Stands(r, t) == \E b : StandAt(r, t, b)

\* A part of two sequences, one after the other, is a part of one of them.
LEMMA SliceOfBoth ==
  ASSUME NEW A, NEW s \in Seq(A), NEW t \in Seq(A), NEW i \in Nat, NEW j \in Nat, i >= 1, i <= j
  PROVE  /\ j <= Len(s) => SubSeq(s \o t, i, j) = SubSeq(s, i, j)
         /\ j <= Len(t) => SubSeq(s \o t, Len(s) + i, Len(s) + j) = SubSeq(t, i, j)
<1>1. PICK m \in Nat : m = Len(s)
  OBVIOUS
<1>2. PICK u : u = s \o t /\ u \in Seq(A) /\ Len(u) = m + Len(t)
  <2>1. s \o t \in Seq(A) /\ Len(s \o t) = Len(s) + Len(t)
    OBVIOUS
  <2> QED BY <1>1, <2>1
<1>3. (\A k \in 1 .. m : u[k] = s[k]) /\ \A k \in 1 .. Len(t) : u[m + k] = t[k]
  BY <1>1, <1>2
<1>4. ASSUME j <= m PROVE SubSeq(u, i, j) = SubSeq(s, i, j)
  <2>1. j <= Len(u) /\ i <= j + 1
    BY <1>2, <1>4
  <2>2. /\ SubSeq(u, i, j) \in Seq(A) /\ Len(SubSeq(u, i, j)) = j - i + 1
        /\ \A k \in 1 .. j - i + 1 : SubSeq(u, i, j)[k] = u[i + k - 1]
    BY <1>2, <2>1, SliceIs
  <2>3. /\ SubSeq(s, i, j) \in Seq(A) /\ Len(SubSeq(s, i, j)) = j - i + 1
        /\ \A k \in 1 .. j - i + 1 : SubSeq(s, i, j)[k] = s[i + k - 1]
    BY <1>1, <1>4, <2>1, SliceIs
  <2>4. \A k \in 1 .. j - i + 1 : u[i + k - 1] = s[i + k - 1]
    <3>1. \A k \in 1 .. j - i + 1 : i + k - 1 \in 1 .. m
      BY <1>1, <1>4
    <3> QED BY <1>3, <3>1
  <2> QED BY <2>2, <2>3, <2>4, SameSeqs
<1>5. ASSUME j <= Len(t) PROVE SubSeq(u, m + i, m + j) = SubSeq(t, i, j)
  <2>1. /\ m + i \in Nat /\ m + j \in Nat /\ m + i >= 1 /\ m + i <= (m + j) + 1 /\ m + j <= Len(u)
        /\ (m + j) - (m + i) + 1 = j - i + 1
    BY <1>2, <1>5
  <2>2. /\ SubSeq(u, m + i, m + j) \in Seq(A) /\ Len(SubSeq(u, m + i, m + j)) = j - i + 1
        /\ \A k \in 1 .. j - i + 1 : SubSeq(u, m + i, m + j)[k] = u[m + i + k - 1]
    <3>1. PICK a, c : a = m + i /\ c = m + j
      OBVIOUS
    <3>2. a \in Nat /\ c \in Nat /\ a >= 1 /\ a <= c + 1 /\ c <= Len(u) /\ c - a + 1 = j - i + 1
      BY <2>1, <3>1
    <3>3. /\ SubSeq(u, a, c) \in Seq(A) /\ Len(SubSeq(u, a, c)) = c - a + 1
          /\ \A k \in 1 .. c - a + 1 : SubSeq(u, a, c)[k] = u[a + k - 1]
      BY <1>2, <3>2, SliceIs
    <3> QED BY <3>1, <3>2, <3>3
  <2>3. /\ SubSeq(t, i, j) \in Seq(A) /\ Len(SubSeq(t, i, j)) = j - i + 1
        /\ \A k \in 1 .. j - i + 1 : SubSeq(t, i, j)[k] = t[i + k - 1]
    BY <1>5, SliceIs
  <2>4. ASSUME NEW k \in 1 .. j - i + 1 PROVE u[m + i + k - 1] = t[i + k - 1]
    <3>1. PICK x \in 1 .. Len(t) : x = i + k - 1 /\ m + i + k - 1 = m + x
      <4>1. i + k - 1 \in 1 .. Len(t) /\ m + i + k - 1 = m + (i + k - 1)
        BY <1>1, <1>5
      <4> QED BY <4>1
    <3> QED BY <1>3, <3>1
  <2>5. PICK v, w : v = SubSeq(u, m + i, m + j) /\ w = SubSeq(t, i, j)
    OBVIOUS
  <2>6. v \in Seq(A) /\ w \in Seq(A) /\ Len(v) = Len(w) /\ \A k \in 1 .. Len(v) : v[k] = w[k]
    BY <2>2, <2>3, <2>4, <2>5
  <2> QED BY <2>5, <2>6, SameSeqs
<1> QED BY <1>1, <1>2, <1>4, <1>5

\* What stands for two texts stands, joined, for both.
LEMMA StandsJoin ==
  ASSUME NEW A, NEW B, NEW r \in Seq(B), NEW t \in Seq(A), NEW q \in Seq(B), NEW u \in Seq(A),
         Stands(r, t), Stands(q, u)
  PROVE  Stands(r \o q, t \o u)
<1>1. PICK b : StandAt(r, t, b)
  BY DEF Stands
<1>2. PICK c : StandAt(q, u, c)
  BY DEF Stands
<1>3. PICK m, n, w, z : m = Len(r) /\ n = Len(t) /\ w = Len(q) /\ z = Len(u)
  OBVIOUS
<1>4. m \in Nat /\ n \in Nat /\ w \in Nat /\ z \in Nat
  BY <1>3
<1>5. Len(r \o q) = m + w /\ Len(t \o u) = n + z /\ r \o q \in Seq(B)
  BY <1>3
<1>6. Bounds(b, m, n) /\ Bounds(c, w, z)
  BY <1>1, <1>2, <1>3 DEF StandAt
<1>7. /\ \A k \in 1 .. m + 1 : b[k] \in Nat
      /\ b[1] = 1 /\ b[m + 1] = n + 1 /\ \A k \in 1 .. m : b[k] < b[k + 1]
      /\ \A k \in 1 .. w + 1 : c[k] \in Nat
      /\ c[1] = 1 /\ c[w + 1] = z + 1 /\ \A k \in 1 .. w : c[k] < c[k + 1]
  BY <1>6 DEF Bounds
<1>8. PICK d : d = [k \in 1 .. m + w + 1 |-> IF k <= m THEN b[k] ELSE n + c[k - m]]
  OBVIOUS
<1>9. /\ \A k \in 1 .. m + 1 : d[k] = b[k]
      /\ \A k \in 1 .. w + 1 : d[m + k] = n + c[k]
  <2>1. ASSUME NEW k \in 1 .. w + 1 PROVE d[m + k] = n + c[k]
    <3>1. m + k \in 1 .. m + w + 1 /\ ~(m + k <= m) /\ (m + k) - m = k
      BY <1>4
    <3> QED BY <1>8, <3>1
  <2>2. ASSUME NEW k \in 1 .. m PROVE d[k] = b[k]
    <3>1. k \in 1 .. m + w + 1 /\ k <= m
      BY <1>4
    <3> QED BY <1>8, <3>1
  <2>3. 1 \in 1 .. w + 1 /\ m + 1 \in 1 .. m + 1
    BY <1>4
  <2>4. d[m + 1] = b[m + 1]
    BY <1>4, <1>7, <2>1, <2>3
  <2>5. \A k \in 1 .. m + 1 : k \in 1 .. m \/ k = m + 1
    BY <1>4
  <2> QED BY <2>1, <2>2, <2>4, <2>5
<1>10. \A k \in 1 .. m + w : (k \in 1 .. m) \/ \E x \in 1 .. w : k = m + x
  <2>1. ASSUME NEW k \in 1 .. m + w, k \notin 1 .. m PROVE \E x \in 1 .. w : k = m + x
    <3>1. k - m \in 1 .. w /\ k = m + (k - m)
      BY <1>4, <2>1
    <3> QED BY <3>1
  <2> QED BY <2>1
<1>11. Bounds(d, m + w, n + z)
  <2>1. d \in [1 .. m + w + 1 -> Nat]
    <3>1. ASSUME NEW k \in 1 .. m + w + 1 PROVE (IF k <= m THEN b[k] ELSE n + c[k - m]) \in Nat
      <4>1. CASE k <= m
        <5>1. k \in 1 .. m + 1
          BY <1>4, <4>1
        <5> QED BY <1>7, <4>1, <5>1
      <4>2. CASE ~(k <= m)
        <5>1. k - m \in 1 .. w + 1
          BY <1>4, <4>2
        <5>2. c[k - m] \in Nat
          BY <1>7, <5>1
        <5> QED BY <1>4, <4>2, <5>2
      <4> QED BY <4>1, <4>2
    <3> QED BY <1>8, <3>1
  <2>2. d[1] = 1
    <3>1. 1 \in 1 .. m + 1
      BY <1>4
    <3> QED BY <1>7, <1>9, <3>1
  <2>3. d[(m + w) + 1] = (n + z) + 1
    <3>1. w + 1 \in 1 .. w + 1 /\ (m + w) + 1 = m + (w + 1) /\ n + (z + 1) = (n + z) + 1
      BY <1>4
    <3> QED BY <1>7, <1>9, <3>1
  <2>4. ASSUME NEW k \in 1 .. m + w PROVE d[k] < d[k + 1]
    <3>1. CASE k \in 1 .. m
      <4>1. k \in 1 .. m + 1 /\ k + 1 \in 1 .. m + 1
        BY <1>4, <3>1
      <4> QED BY <1>7, <1>9, <3>1, <4>1
    <3>2. ASSUME NEW x \in 1 .. w, k = m + x PROVE d[k] < d[k + 1]
      <4>1. x \in 1 .. w + 1 /\ x + 1 \in 1 .. w + 1 /\ k + 1 = m + (x + 1)
        BY <1>4, <3>2
      <4>2. d[k] = n + c[x] /\ d[k + 1] = n + c[x + 1] /\ c[x] < c[x + 1] /\ c[x] \in Nat /\ c[x + 1] \in Nat
        BY <1>7, <1>9, <3>2, <4>1
      <4> QED BY <1>4, <4>2
    <3> QED BY <1>10, <3>1, <3>2
  <2>5. (m + w) + 1 = m + w + 1
    BY <1>4
  <2> QED BY <2>1, <2>2, <2>3, <2>4, <2>5 DEF Bounds
<1>12. ASSUME NEW k \in 1 .. m + w PROVE Stand((r \o q)[k], SubSeq(t \o u, d[k], d[k + 1] - 1))
  <2>1. CASE k \in 1 .. m
    <3>1. k \in 1 .. m + 1 /\ k + 1 \in 1 .. m + 1
      BY <1>4, <2>1
    <3>2. /\ b[k] \in 1 .. n /\ b[k + 1] \in Nat /\ b[k] <= b[k + 1] - 1 /\ b[k + 1] - 1 \in 1 .. n
      BY <1>4, <1>6, <2>1, BoundsWithin
    <3>3. PICK i, j : i = b[k] /\ j = b[k + 1] - 1
      OBVIOUS
    <3>4. i \in Nat /\ j \in Nat /\ i >= 1 /\ i <= j /\ j <= Len(t)
      BY <1>3, <3>2, <3>3
    <3>5. SubSeq(t \o u, i, j) = SubSeq(t, i, j)
      BY <3>4, SliceOfBoth
    <3>6. d[k] = i /\ d[k + 1] - 1 = j
      BY <1>9, <3>1, <3>3
    <3>7. (r \o q)[k] = r[k]
      BY <1>3, <2>1
    <3>8. Stand(r[k], SubSeq(t, i, j))
      BY <1>1, <1>3, <2>1, <3>3 DEF StandAt
    <3> QED BY <3>5, <3>6, <3>7, <3>8
  <2>2. ASSUME NEW x \in 1 .. w, k = m + x PROVE Stand((r \o q)[k], SubSeq(t \o u, d[k], d[k + 1] - 1))
    <3>1. x \in 1 .. w + 1 /\ x + 1 \in 1 .. w + 1 /\ k + 1 = m + (x + 1)
      BY <1>4, <2>2
    <3>2. /\ c[x] \in 1 .. z /\ c[x + 1] \in Nat /\ c[x] <= c[x + 1] - 1 /\ c[x + 1] - 1 \in 1 .. z
      BY <1>4, <1>6, BoundsWithin
    <3>3. PICK i, j : i = c[x] /\ j = c[x + 1] - 1
      OBVIOUS
    <3>4. i \in Nat /\ j \in Nat /\ i >= 1 /\ i <= j /\ j <= Len(u)
      <4>1. i \in 1 .. z /\ j \in 1 .. z /\ i <= j
        BY <3>2, <3>3
      <4> QED BY <1>3, <1>4, <4>1
    <3>5. SubSeq(t \o u, n + i, n + j) = SubSeq(u, i, j)
      <4>1. SubSeq(t \o u, Len(t) + i, Len(t) + j) = SubSeq(u, i, j)
        BY <3>4, SliceOfBoth
      <4> QED BY <1>3, <4>1
    <3>6. d[k] = n + i /\ d[k + 1] - 1 = n + j
      <4>1. d[k] = n + c[x] /\ d[k + 1] = n + c[x + 1]
        BY <1>9, <2>2, <3>1
      <4>2. d[k + 1] - 1 = n + (c[x + 1] - 1)
        BY <1>4, <3>2, <4>1
      <4> QED BY <3>3, <4>1, <4>2
    <3>7. (r \o q)[k] = q[x]
      BY <1>3, <1>4, <2>2
    <3>8. Stand(q[x], SubSeq(u, i, j))
      BY <1>2, <1>3, <3>3 DEF StandAt
    <3> QED BY <3>5, <3>6, <3>7, <3>8
  <2> QED BY <1>10, <2>1, <2>2
<1>13. StandAt(r \o q, t \o u, d)
  BY <1>5, <1>11, <1>12 DEF StandAt
<1> QED BY <1>13 DEF Stands

\* The sequence put together so far.
Upto(u, ss, m) ==
  u = [n \in 0 .. m |-> IF n = 0 THEN <<>> ELSE u[n - 1] \o ss[n]]

\* The joined beginnings exist.
LEMMA UptoExists ==
  ASSUME NEW B, NEW ss \in Seq(Seq(B)), NEW m \in Nat, m <= Len(ss) PROVE \E u : Upto(u, ss, m)
<1>1. PICK N : N = {n \in Nat : n <= Len(ss) => \E u : Upto(u, ss, n)}
  OBVIOUS
<1>2. 0 \in N
  <2>1. PICK u : u = [n \in 0 .. 0 |-> <<>>]
    OBVIOUS
  <2>2. Upto(u, ss, 0)
    <3>1. \A n \in 0 .. 0 : n = 0
      OBVIOUS
    <3> QED BY <2>1, <3>1 DEF Upto
  <2> QED BY <1>1, <2>2
<1>3. ASSUME NEW n \in N PROVE n + 1 \in N
  <2>1. n \in Nat /\ (n <= Len(ss) => \E u : Upto(u, ss, n))
    BY <1>1
  <2>2. SUFFICES ASSUME n + 1 <= Len(ss) PROVE \E u : Upto(u, ss, n + 1)
    BY <1>1, <2>1
  <2>3. PICK u : Upto(u, ss, n)
    BY <2>1, <2>2
  <2>4. PICK w : w = [i \in 0 .. n + 1 |-> IF i = n + 1 THEN u[n] \o ss[n + 1] ELSE u[i]]
    OBVIOUS
  <2>5. \A i \in 0 .. n : w[i] = u[i] /\ u[i] = IF i = 0 THEN <<>> ELSE u[i - 1] \o ss[i]
    <3>1. \A i \in 0 .. n : i \in 0 .. n + 1 /\ i # n + 1
      BY <2>1
    <3>2. \A i \in 0 .. n : w[i] = u[i]
      BY <2>4, <3>1
    <3>3. \A i \in 0 .. n : u[i] = IF i = 0 THEN <<>> ELSE u[i - 1] \o ss[i]
      BY <2>3 DEF Upto
    <3> QED BY <3>2, <3>3
  <2>6. ASSUME NEW i \in 0 .. n + 1 PROVE w[i] = IF i = 0 THEN <<>> ELSE w[i - 1] \o ss[i]
    <3>1. CASE i \in 0 .. n
      <4>1. i # 0 => i - 1 \in 0 .. n
        BY <2>1, <3>1
      <4>2. i # 0 => w[i - 1] = u[i - 1]
        BY <2>5, <4>1
      <4> QED BY <2>5, <3>1, <4>2
    <3>2. CASE i = n + 1
      <4>1. i - 1 = n /\ i # 0 /\ n \in 0 .. n
        BY <2>1, <3>2
      <4>2. w[i] = u[n] \o ss[n + 1]
        BY <2>4, <3>2
      <4> QED BY <2>5, <3>2, <4>1, <4>2
    <3>3. i \in 0 .. n \/ i = n + 1
      BY <2>1
    <3> QED BY <3>1, <3>2, <3>3
  <2>7. w = [i \in 0 .. n + 1 |-> w[i]]
    BY <2>4, Zenon
  <2>8. Upto(w, ss, n + 1)
    BY <2>6, <2>7 DEF Upto
  <2> QED BY <2>8
<1>4. N = Nat
  <2>1. N \subseteq Nat
    BY <1>1
  <2> QED BY <1>2, <1>3, <2>1, NatSets
<1>5. m \in N
  BY <1>4
<1> QED BY <1>1, <1>5

\* Sequences one after the other.
LEMMA JoinedIs ==
  ASSUME NEW B, NEW ss \in Seq(Seq(B))
  PROVE  \E u : /\ \A k \in 0 .. Len(ss) : u[k] \in Seq(B)
                /\ u[0] = <<>> /\ \A k \in 1 .. Len(ss) : u[k] = u[k - 1] \o ss[k]
                /\ Joined(ss) = u[Len(ss)]
<1>1. PICK m \in Nat : m = Len(ss)
  OBVIOUS
<1>2. \E u : Upto(u, ss, m)
  <2>1. m <= Len(ss)
    BY <1>1
  <2> QED BY <2>1, UptoExists
<1>3. PICK u : u = CHOOSE w : w = [n \in 0 .. m |-> IF n = 0 THEN <<>> ELSE w[n - 1] \o ss[n]]
  OBVIOUS
<1>4. u = [n \in 0 .. m |-> IF n = 0 THEN <<>> ELSE u[n - 1] \o ss[n]]
  BY <1>2, <1>3 DEF Upto
<1>5. Joined(ss) = u[m]
  BY <1>1, <1>3 DEF Joined
<1>6. \A k \in 0 .. m : u[k] = IF k = 0 THEN <<>> ELSE u[k - 1] \o ss[k]
  BY <1>4
<1>7. PICK N : N = {n \in Nat : n <= m => u[n] \in Seq(B)}
  OBVIOUS
<1>8. 0 \in N
  <2>1. 0 \in 0 .. m /\ <<>> \in Seq(B)
    BY <1>1
  <2> QED BY <1>6, <1>7, <2>1
<1>9. ASSUME NEW n \in N PROVE n + 1 \in N
  <2>1. n \in Nat /\ (n <= m => u[n] \in Seq(B))
    BY <1>7
  <2>2. SUFFICES ASSUME n + 1 <= m PROVE u[n + 1] \in Seq(B)
    BY <1>7, <2>1
  <2>3. n + 1 \in 0 .. m /\ n + 1 # 0 /\ (n + 1) - 1 = n /\ n <= m /\ n + 1 \in 1 .. m
    BY <1>1, <2>1, <2>2
  <2>4. u[n + 1] = u[n] \o ss[n + 1]
    BY <1>6, <2>3
  <2>5. u[n] \in Seq(B) /\ ss[n + 1] \in Seq(B)
    BY <1>1, <2>1, <2>3
  <2> QED BY <2>4, <2>5
<1>10. N = Nat
  <2>1. N \subseteq Nat
    BY <1>7
  <2> QED BY <1>8, <1>9, <2>1, NatSets
<1>11. \A k \in 0 .. m : u[k] \in Seq(B)
  <2>1. \A k \in 0 .. m : k \in N /\ k <= m
    BY <1>1, <1>10
  <2> QED BY <1>7, <2>1
<1>12. u[0] = <<>>
  <2>1. 0 \in 0 .. m
    BY <1>1
  <2> QED BY <1>6, <2>1
<1>13. \A k \in 1 .. m : u[k] = u[k - 1] \o ss[k]
  <2>1. \A k \in 1 .. m : k \in 0 .. m /\ k # 0
    BY <1>1
  <2> QED BY <1>6, <2>1
<1> QED BY <1>1, <1>5, <1>11, <1>12, <1>13

\* A part and the one behind it.
LEMMA SliceGlue ==
  ASSUME NEW A, NEW t \in Seq(A), NEW i \in Nat, NEW j \in Nat, i <= j, j <= Len(t)
  PROVE  SubSeq(t, 1, i) \o SubSeq(t, i + 1, j) = SubSeq(t, 1, j)
<1>1. PICK u, v, w : u = SubSeq(t, 1, i) /\ v = SubSeq(t, i + 1, j) /\ w = SubSeq(t, 1, j)
  OBVIOUS
<1>2. u \in Seq(A) /\ Len(u) = i /\ \A k \in 1 .. i : u[k] = t[k]
  BY <1>1
<1>3. w \in Seq(A) /\ Len(w) = j /\ \A k \in 1 .. j : w[k] = t[k]
  BY <1>1
<1>4. v \in Seq(A) /\ Len(v) = j - i /\ \A k \in 1 .. j - i : v[k] = t[i + k]
  <2>1. PICK x : x = i + 1
    OBVIOUS
  <2>2. x \in Nat /\ x >= 1 /\ x <= j + 1 /\ j - x + 1 = j - i /\ \A k \in 1 .. j - i : x + k - 1 = i + k
    BY <2>1
  <2>3. /\ SubSeq(t, x, j) \in Seq(A) /\ Len(SubSeq(t, x, j)) = j - x + 1
        /\ \A k \in 1 .. j - x + 1 : SubSeq(t, x, j)[k] = t[x + k - 1]
    BY <2>2, SliceIs
  <2> QED BY <1>1, <2>1, <2>2, <2>3
<1>5. u \o v \in Seq(A) /\ Len(u \o v) = j
  BY <1>2, <1>4
<1>6. ASSUME NEW k \in 1 .. j PROVE (u \o v)[k] = w[k]
  <2>1. CASE k <= i
    BY <1>2, <1>3, <1>4, <2>1
  <2>2. CASE ~(k <= i)
    <3>1. k - i \in 1 .. j - i /\ i + (k - i) = k
      BY <2>2
    <3>2. (u \o v)[k] = v[k - i]
      BY <1>2, <1>4, <2>2, <3>1
    <3> QED BY <1>3, <1>4, <3>1, <3>2
  <2> QED BY <2>1, <2>2
<1> QED BY <1>1, <1>3, <1>5, <1>6, SameSeqs

\* What stands for the parts stands for the text.
LEMMA JoinedStands ==
  ASSUME NEW A, NEW B, NEW t \in Seq(A), NEW rs \in Seq(Seq(B)), NEW b, Bounds(b, Len(rs), Len(t)),
         \A k \in 1 .. Len(rs) : Stands(rs[k], SubSeq(t, b[k], b[k + 1] - 1))
  PROVE  Stands(Joined(rs), t)
<1>1. PICK m, n : m = Len(rs) /\ n = Len(t) /\ m \in Nat /\ n \in Nat
  <2>1. Len(rs) \in Nat /\ Len(t) \in Nat
    OBVIOUS
  <2> QED BY <2>1
<1>2. PICK u : /\ \A k \in 0 .. m : u[k] \in Seq(B)
               /\ u[0] = <<>> /\ \A k \in 1 .. m : u[k] = u[k - 1] \o rs[k]
               /\ Joined(rs) = u[m]
  BY <1>1, JoinedIs
<1>3. /\ \A k \in 1 .. m + 1 : b[k] \in Nat /\ 1 <= b[k] /\ b[k] <= n + 1
      /\ \A k \in 1 .. m : b[k] \in 1 .. n /\ b[k + 1] \in Nat /\ b[k] <= b[k + 1] - 1 /\ b[k + 1] - 1 \in 1 .. n
      /\ b[1] = 1 /\ b[m + 1] = n + 1
  <2>1. Bounds(b, m, n)
    BY <1>1
  <2>2. b[1] = 1 /\ b[m + 1] = n + 1
    BY <2>1 DEF Bounds
  <2> QED BY <1>1, <2>1, <2>2, BoundsWithin
<1>4. PICK N : N = {k \in Nat : k <= m => Stands(u[k], SubSeq(t, 1, b[k + 1] - 1))}
  OBVIOUS
<1>5. 0 \in N
  <2>1. SubSeq(t, 1, b[0 + 1] - 1) = <<>>
    BY <1>3
  <2>2. PICK d : d = [k \in 1 .. 1 |-> 1]
    OBVIOUS
  <2>3. d[1] = 1 /\ d \in [1 .. 0 + 1 -> Nat] /\ Len(<<>>) = 0
    BY <2>2
  <2>4. StandAt(<<>>, <<>>, d)
    BY <2>3 DEF StandAt, Bounds
  <2> QED BY <1>2, <1>4, <2>1, <2>4 DEF Stands
<1>6. ASSUME NEW k \in N PROVE k + 1 \in N
  <2>1. k \in Nat /\ (k <= m => Stands(u[k], SubSeq(t, 1, b[k + 1] - 1)))
    BY <1>4
  <2>2. SUFFICES ASSUME k + 1 <= m PROVE Stands(u[k + 1], SubSeq(t, 1, b[(k + 1) + 1] - 1))
    BY <1>4, <2>1
  <2>3. k + 1 \in 1 .. m /\ k \in 0 .. m /\ (k + 1) - 1 = k /\ k <= m
    BY <1>1, <2>1, <2>2
  <2>4. PICK i, j : i = b[k + 1] - 1 /\ j = b[(k + 1) + 1] - 1 /\ b[k + 1] = i + 1
    BY <1>3, <2>3
  <2>5. i \in Nat /\ j \in Nat /\ i <= j /\ j <= n
    <3>1. PICK p : p = k + 1 /\ p \in 1 .. m
      BY <2>3
    <3>2. b[p] \in 1 .. n /\ b[p + 1] \in Nat /\ b[p] <= b[p + 1] - 1 /\ b[p + 1] - 1 \in 1 .. n
      BY <1>3, <3>1
    <3>3. i = b[p] - 1 /\ j = b[p + 1] - 1
      BY <2>4, <3>1
    <3> QED BY <1>1, <3>2, <3>3
  <2>6. SubSeq(t, 1, i) \o SubSeq(t, i + 1, j) = SubSeq(t, 1, j)
    BY <1>1, <2>5, SliceGlue
  <2>7. SubSeq(t, 1, i) \in Seq(A) /\ SubSeq(t, i + 1, j) \in Seq(A)
    <3>1. PICK x : x = i + 1 /\ x \in Nat /\ x >= 1 /\ x <= j + 1
      BY <2>5
    <3>2. SubSeq(t, x, j) \in Seq(A)
      BY <1>1, <2>5, <3>1, SliceIs
    <3> QED BY <1>1, <2>5, <3>1, <3>2
  <2>8. Stands(rs[k + 1], SubSeq(t, i + 1, j))
    BY <1>1, <2>3, <2>4
  <2>9. u[k + 1] = u[k] \o rs[k + 1] /\ u[k] \in Seq(B) /\ rs[k + 1] \in Seq(B)
    <3>1. u[k + 1] = u[(k + 1) - 1] \o rs[k + 1]
      BY <1>2, <2>3
    <3>2. \A x \in 1 .. Len(rs) : rs[x] \in Seq(B)
      OBVIOUS
    <3>3. k + 1 \in 1 .. Len(rs)
      BY <1>1, <2>3
    <3> QED BY <1>2, <2>3, <3>1, <3>2, <3>3
  <2>10. Stands(u[k], SubSeq(t, 1, i))
    BY <2>1, <2>3, <2>4
  <2>11. Stands(u[k] \o rs[k + 1], SubSeq(t, 1, i) \o SubSeq(t, i + 1, j))
    BY <2>7, <2>8, <2>9, <2>10, StandsJoin
  <2> QED BY <2>4, <2>6, <2>9, <2>11
<1>7. N = Nat
  <2>1. N \subseteq Nat
    BY <1>4
  <2> QED BY <1>5, <1>6, <2>1, NatSets
<1>8. Stands(u[m], SubSeq(t, 1, b[m + 1] - 1))
  <2>1. m \in N /\ m <= m
    BY <1>1, <1>7
  <2> QED BY <1>4, <2>1
<1>9. SubSeq(t, 1, b[m + 1] - 1) = t
  <2>1. b[m + 1] - 1 = n
    BY <1>1, <1>3
  <2>2. SubSeq(t, 1, n) = t
    BY <1>1
  <2> QED BY <2>1, <2>2
<1> QED BY <1>2, <1>8, <1>9

\* Where its parts begin.
PartStarts(b, m) == {b[k] : k \in 1 .. m}

\* What stands for a text restores it.
LEMMA RestoresAt ==
  ASSUME NEW A, NEW B, NEW t \in Seq(A), NEW r \in Seq(B), NEW b, StandAt(r, t, b),
         NEW S, S = PartStarts(b, Len(r))
  PROVE  /\ S \in SUBSET (1 .. Len(t)) /\ Restores(r, t, S)
         /\ Rising(S) = [k \in 1 .. Len(r) |-> b[k]]
<1>1. PICK m, n : m = Len(r) /\ n = Len(t) /\ m \in Nat /\ n \in Nat
  <2>1. Len(r) \in Nat /\ Len(t) \in Nat
    OBVIOUS
  <2> QED BY <2>1
<1>2. Bounds(b, m, n) /\ \A k \in 1 .. m : Stand(r[k], SubSeq(t, b[k], b[k + 1] - 1))
  BY <1>1 DEF StandAt
<1>3. \A k \in 1 .. m : b[k] \in 1 .. n /\ b[k + 1] \in Nat /\ b[k] <= b[k + 1] - 1 /\ b[k + 1] - 1 \in 1 .. n
  BY <1>1, <1>2, BoundsWithin
<1>0. S = {b[k] : k \in 1 .. m}
  BY <1>1 DEF PartStarts
<1>4. S \in SUBSET (1 .. n)
  BY <1>0, <1>1, <1>3
<1>5. PICK at : at = [k \in 1 .. m |-> b[k]]
  OBVIOUS
<1>6. Ascends(at, S)
  <2>1. at \in [1 .. m -> S] /\ DOMAIN at = 1 .. m /\ \A k \in 1 .. m : at[k] = b[k]
    BY <1>0, <1>1, <1>5
  <2>2. at \in Seq(S)
    BY <1>1, <2>1
  <2>3. {at[k] : k \in DOMAIN at} = S
    BY <1>0, <1>1, <2>1
  <2>4. ASSUME NEW i \in 1 .. m, NEW j \in 1 .. m PROVE i < j <=> at[i] < at[j]
    <3>1. i \in 1 .. m + 1 /\ j \in 1 .. m + 1
      BY <1>1
    <3>2. (i < j => b[i] < b[j]) /\ (j < i => b[j] < b[i])
      BY <1>1, <1>2, <3>1, BoundsRise
    <3>3. b[i] \in Nat /\ b[j] \in Nat /\ i \in Nat /\ j \in Nat
      BY <1>1, <1>3
    <3> QED BY <2>1, <3>2, <3>3
  <2> QED BY <2>1, <2>2, <2>3, <2>4 DEF Ascends
<1>7. Rising(S) = at
  <2>1. PICK x : x = Rising(S)
    OBVIOUS
  <2>2. Ascends(x, S)
    BY <1>1, <1>4, <2>1, RisingIs
  <2> QED BY <1>1, <1>4, <1>6, <2>1, <2>2, PlacesOnce
<1>8. n > 0 => 1 \in S
  <2>1. SUFFICES ASSUME n > 0 PROVE 1 \in S
    OBVIOUS
  <2>2. b[1] = 1 /\ b[m + 1] = n + 1
    BY <1>2 DEF Bounds
  <2>3. m # 0
    <3>1. m = 0 => b[m + 1] = b[1]
      OBVIOUS
    <3> QED BY <1>1, <2>1, <2>2, <3>1
  <2>4. 1 \in 1 .. m
    BY <1>1, <2>3
  <2> QED BY <1>0, <1>1, <2>2, <2>4
<1>9. PICK c : c = Ended(at, Len(t))
  OBVIOUS
<1>10. PICK parts : parts = Parts(t, S)
  OBVIOUS
<1>11. parts \in Seq(Seq(A)) /\ Len(parts) = Len(at) /\ PartsAt(parts, t, c)
  <2>1. S \in SUBSET (1 .. Len(t)) /\ (Len(t) > 0 => 1 \in S) /\ at = Rising(S)
    BY <1>1, <1>4, <1>7, <1>8
  <2>2. Parts(t, S) \in Seq(Seq(A)) /\ Len(Parts(t, S)) = Len(at) /\ PartsAt(Parts(t, S), t, c)
    BY <1>9, <2>1, PartsAre
  <2> QED BY <1>10, <2>2
<1>12. Len(at) = m
  BY <1>1, <1>5
<1>13. ASSUME NEW k \in 1 .. m PROVE c[k] = b[k] /\ c[k + 1] = b[k + 1]
  <2>1. c = [i \in 1 .. m + 1 |-> IF i = m + 1 THEN n + 1 ELSE at[i]]
    BY <1>1, <1>9, <1>12 DEF Ended
  <2>2. k \in 1 .. m + 1 /\ k + 1 \in 1 .. m + 1 /\ k # m + 1 /\ (k + 1 # m + 1 => k + 1 \in 1 .. m)
    BY <1>1
  <2>3. c[k] = b[k]
    BY <1>5, <2>1, <2>2
  <2>4. b[m + 1] = n + 1
    BY <1>2 DEF Bounds
  <2>5. CASE k + 1 = m + 1
    <3>1. c[m + 1] = n + 1
      BY <1>1, <2>1
    <3> QED BY <2>3, <2>4, <2>5, <3>1
  <2>6. CASE k + 1 # m + 1
    <3>1. c[k + 1] = at[k + 1] /\ k + 1 \in 1 .. m
      BY <2>1, <2>2, <2>6
    <3> QED BY <1>5, <2>3, <3>1
  <2> QED BY <2>3, <2>5, <2>6
<1>14. ASSUME NEW k \in 1 .. m PROVE Stand(r[k], parts[k])
  <2>1. parts[k] = SubSeq(t, c[k], c[k + 1] - 1)
    BY <1>11, <1>12 DEF PartsAt
  <2> QED BY <1>2, <1>13, <2>1
<1>15. Restores(r, t, S)
  <2>1. t = <<>> \/ 1 \in S
    BY <1>1, <1>8
  <2>2. Len(r) = Len(parts) /\ DOMAIN r = 1 .. m
    BY <1>1, <1>11, <1>12
  <2>3. \A k \in 1 .. m : parts[k] = <<r[k]>> \/ (IsToken(r[k]) /\ r[k][3] = parts[k])
    BY <1>14 DEF Stand
  <2> QED BY <1>10, <2>1, <2>2, <2>3 DEF Restores
<1> QED BY <1>1, <1>4, <1>5, <1>7, <1>15

\* The parts in a pass.
LEMMA PassBounds ==
  ASSUME NEW A, NEW t \in Seq(A), NEW vs, NEW last, NEW begun, NEW left, NEW gone,
         Pass(t, vs, last, begun, left, gone), NEW at, at = Rising(left),
         NEW b, b = Ended(at, Len(t))
  PROVE  /\ Bounds(b, Len(at), Len(t)) /\ Numbered(at, left)
         /\ \A k \in 1 .. Len(at) :
              b[k] = at[k] /\ b[k + 1] = (IF at[k] \in gone THEN last[at[k]] + 1 ELSE at[k] + 1)
<1>1. Passed(t, vs, last, begun, left, gone)
  BY PassIs
<1>2. PICK n \in Nat : n = Len(t)
  OBVIOUS
<1>3. /\ last \in [1 .. n -> Nat]
      /\ \A i \in 1 .. n : i <= last[i] /\ last[i] <= n
      /\ InParts(n, last, begun)
      /\ begun \subseteq left /\ left \subseteq 1 .. n /\ gone \subseteq begun
      /\ \A p \in left : p \notin gone /\ p < n => p + 1 \in left
      /\ \A p \in gone : \A x \in left : x > p => x > last[p]
      /\ \A p \in gone : last[p] < n => last[p] + 1 \in left
  BY <1>1, <1>2 DEF Passed
<1>4. n > 0 => 1 \in left
  BY <1>3 DEF InParts
<1>5. Ascends(at, left) /\ Numbered(at, left)
  BY <1>2, <1>3, RisingIs, PlacesNext
<1>6. PICK m \in Nat : m = Len(at)
  BY <1>5 DEF Numbered
<1>7. Bounds(b, m, n) /\ \A k \in 1 .. m : b[k] = at[k] /\ b[k + 1] = (IF k = m THEN n + 1 ELSE at[k + 1])
  <2>1. left \in SUBSET (1 .. n)
    BY <1>3
  <2> QED BY <1>2, <1>4, <1>5, <1>6, <2>1, BoundsOfPlaces
<1>8. ASSUME NEW k \in 1 .. m, NEW e \in 1 .. n, at[k] <= e,
             \A x \in left : x > at[k] => x > e, e < n => e + 1 \in left
      PROVE  b[k + 1] = e + 1
  <2>1. PICK p : p = at[k] /\ p \in left /\ p \in Nat
    BY <1>5, <1>6 DEF Numbered
  <2>2. \A x \in left : p < x => k < m /\ at[k + 1] <= x
    BY <1>5, <1>6, <2>1 DEF Numbered
  <2>3. CASE k = m
    <3>1. ~(e < n)
      <4>1. SUFFICES ASSUME e < n PROVE FALSE
        OBVIOUS
      <4>2. e + 1 \in left /\ p < e + 1
        BY <1>8, <2>1, <4>1
      <4> QED BY <1>6, <2>2, <2>3, <4>2
    <3>2. b[k + 1] = n + 1 /\ e = n
      BY <1>2, <1>7, <2>3, <3>1
    <3> QED BY <3>2
  <2>4. CASE k # m
    <3>1. k + 1 \in 1 .. m /\ k < k + 1
      BY <1>6, <2>4
    <3>2. at[k + 1] \in left /\ at[k] < at[k + 1] /\ at[k + 1] \in Nat
      BY <1>5, <1>6, <3>1 DEF Numbered
    <3>0. PICK x : x = at[k + 1] /\ x \in left /\ x \in Nat /\ x > at[k]
      <4>1. at[k] \in Nat
        BY <2>1
      <4> QED BY <3>2, <4>1
    <3>3. at[k + 1] > e /\ at[k + 1] <= n
      <4>1. x > e
        BY <1>8, <3>0
      <4>2. x \in 1 .. n
        BY <1>3, <3>0
      <4> QED BY <3>0, <4>1, <4>2
    <3>4. e < n
      BY <1>2, <3>2, <3>3
    <3>5. at[k + 1] <= e + 1
      BY <1>8, <2>1, <2>2, <3>4
    <3>6. at[k + 1] = e + 1
      BY <3>2, <3>3, <3>5
    <3> QED BY <1>7, <2>4, <3>6
  <2> QED BY <2>3, <2>4
<1>9. ASSUME NEW k \in 1 .. m PROVE b[k + 1] = (IF at[k] \in gone THEN last[at[k]] + 1 ELSE at[k] + 1)
  <2>1. PICK p : p = at[k] /\ p \in left /\ p \in 1 .. n
    BY <1>3, <1>5, <1>6 DEF Numbered
  <2>2. CASE p \in gone
    <3>1. PICK e : e = last[p] /\ e \in 1 .. n /\ p <= e
      <4>1. last[p] \in Nat /\ p <= last[p] /\ last[p] <= n
        BY <1>3, <2>1
      <4>2. last[p] \in 1 .. n
        BY <1>2, <2>1, <4>1
      <4> QED BY <4>1, <4>2
    <3>2. (\A x \in left : x > p => x > e) /\ (e < n => e + 1 \in left)
      BY <1>3, <2>2, <3>1
    <3>3. b[k + 1] = e + 1
      BY <1>8, <2>1, <3>1, <3>2
    <3> QED BY <2>1, <2>2, <3>1, <3>3
  <2>3. CASE p \notin gone
    <3>1. p < n => p + 1 \in left
      BY <1>3, <2>1, <2>3
    <3>2. p <= p
      BY <2>1
    <3>3. b[k + 1] = p + 1
      BY <1>8, <2>1, <3>1, <3>2
    <3> QED BY <2>1, <2>3, <3>3
  <2> QED BY <2>2, <2>3
<1> QED BY <1>2, <1>5, <1>6, <1>7, <1>9

\* A part of one piece.
LEMMA OneSlice ==
  ASSUME NEW A, NEW t \in Seq(A), NEW p \in 1 .. Len(t) PROVE SubSeq(t, p, p) = <<t[p]>>
<1>1. p \in Nat /\ p >= 1 /\ p <= p + 1 /\ p <= Len(t) /\ p - p + 1 = 1 /\ p + 1 - 1 = p
  OBVIOUS
<1>2. /\ SubSeq(t, p, p) \in Seq(A) /\ Len(SubSeq(t, p, p)) = p - p + 1
      /\ \A k \in 1 .. p - p + 1 : SubSeq(t, p, p)[k] = t[p + k - 1]
  <2>1. p >= 1 /\ p \in Nat /\ p <= p + 1 /\ p <= Len(t)
    BY <1>1
  <2> QED BY <2>1, SliceIs
<1>3. PICK s, x : s = SubSeq(t, p, p) /\ x = t[p]
  OBVIOUS
<1>4. s \in Seq(A) /\ Len(s) = 1 /\ s[1] = x
  <2>1. 1 \in 1 .. p - p + 1
    BY <1>1
  <2> QED BY <1>1, <1>2, <1>3, <2>1
<1>5. <<x>> \in Seq({x}) /\ Len(<<x>>) = 1 /\ <<x>>[1] = x
  OBVIOUS
<1>6. \A k \in 1 .. Len(s) : s[k] = <<x>>[k]
  <2>1. \A k \in 1 .. Len(s) : k = 1
    BY <1>4
  <2> QED BY <1>4, <1>5, <2>1
<1>7. s = <<x>>
  BY <1>4, <1>5, <1>6, SameSeqs
<1> QED BY <1>3, <1>7

\* A text or a value without marks.
Marked(x) == x[1] = "h"
LEMMA PiecesIs ==
  ASSUME NEW A, NEW s \in Seq(A), \A k \in 1 .. Len(s) : ~Marked(s[k]) PROVE Pieces(s)
<1>1. PICK n \in Nat : n = Len(s) /\ DOMAIN s = 1 .. n
  OBVIOUS
<1>2. PICK B : B = {s[k] : k \in DOMAIN s}
  OBVIOUS
<1>3. s = [k \in 1 .. n |-> s[k]]
  BY <1>1
<1>4. s \in [1 .. n -> B]
  BY <1>1, <1>2, <1>3
<1>5. s \in Seq(B)
  BY <1>4
<1> QED BY <1>1, <1>2, <1>5 DEF Pieces, Marked

\* A text is a sequence of pieces without a mark.
LEMMA PiecesAre ==
  ASSUME NEW s, Pieces(s)
  PROVE  \E A : s \in Seq(A) /\ Len(s) \in Nat /\ DOMAIN s = 1 .. Len(s) /\ \A k \in 1 .. Len(s) : ~Marked(s[k])
<1>1. PICK A : A = {s[k] : k \in DOMAIN s}
  OBVIOUS
<1>2. s \in Seq(A) /\ \A k \in DOMAIN s : ~Marked(s[k])
  BY <1>1 DEF Pieces, Marked
<1> QED BY <1>2

\* What a pass makes of a text, piece by piece.
LEMMA ReplacedStands ==
  ASSUME NEW t, Pieces(t), NEW labels
  PROVE  Pieces(Replaced(t, labels)) /\ Stands(Replaced(t, labels), t)
<1>1. PICK A : t \in Seq(A) /\ Len(t) \in Nat /\ DOMAIN t = 1 .. Len(t) /\ \A k \in 1 .. Len(t) : ~Marked(t[k])
  BY PiecesAre
<1>2. PICK last, begun, left, gone : Pass(t, DOMAIN labels, last, begun, left, gone)
  BY DEF Pass
<1>3. PICK at, b, r : at = Rising(left) /\ b = Ended(at, Len(t)) /\ r = Replaced(t, labels)
  OBVIOUS
<1>4. /\ Bounds(b, Len(at), Len(t)) /\ Numbered(at, left)
      /\ \A k \in 1 .. Len(at) :
           b[k] = at[k] /\ b[k + 1] = (IF at[k] \in gone THEN last[at[k]] + 1 ELSE at[k] + 1)
  BY <1>1, <1>2, <1>3, PassBounds
<1>5. /\ last \in [1 .. Len(t) -> Nat] /\ left \subseteq 1 .. Len(t)
  <2>1. Passed(t, DOMAIN labels, last, begun, left, gone)
    BY <1>1, <1>2, PassIs
  <2> QED BY <2>1 DEF Passed
<1>6. PICK m \in Nat : m = Len(at) /\ DOMAIN at = 1 .. m /\ \A k \in 1 .. m : at[k] \in left
  BY <1>4 DEF Numbered
<1>7. r = [k \in 1 .. m |-> IF at[k] \in gone THEN Put(labels[SubSeq(t, at[k], last[at[k]])], SubSeq(t, at[k], last[at[k]]))
                            ELSE t[at[k]]]
  <2>1. Replaced(t, labels) =
          [k \in DOMAIN at |-> IF at[k] \in gone THEN Put(labels[SubSeq(t, at[k], last[at[k]])], SubSeq(t, at[k], last[at[k]]))
                               ELSE t[at[k]]]
    BY <1>2, <1>3, ReplacedIs
  <2> QED BY <1>3, <1>6, <2>1
<1>8. PICK B : B = {r[k] : k \in 1 .. m}
  OBVIOUS
<1>9. r \in Seq(B) /\ Len(r) = m
  <2>1. r = [k \in 1 .. m |-> r[k]]
    BY <1>7, Zenon
  <2>2. r \in [1 .. m -> B]
    BY <1>8, <2>1
  <2> QED BY <1>6, <2>2
<1>10. ASSUME NEW k \in 1 .. m PROVE ~Marked(r[k]) /\ Stand(r[k], SubSeq(t, b[k], b[k + 1] - 1))
  <2>1. PICK p : p = at[k] /\ p \in 1 .. Len(t)
    BY <1>5, <1>6
  <2>2. b[k] = p /\ b[k + 1] = (IF p \in gone THEN last[p] + 1 ELSE p + 1)
    BY <1>4, <1>6, <2>1
  <2>3. CASE p \in gone
    <3>1. PICK v : v = SubSeq(t, p, last[p])
      OBVIOUS
    <3>2. r[k] = Put(labels[v], v)
      BY <1>7, <2>1, <2>3, <3>1
    <3>3. b[k + 1] - 1 = last[p]
      <4>1. last[p] \in Nat
        BY <1>5, <2>1
      <4> QED BY <2>2, <2>3, <4>1
    <3>4. ~Marked(r[k]) /\ IsToken(r[k]) /\ r[k][3] = v
      BY <3>2 DEF Marked, IsToken, Put
    <3> QED BY <2>2, <3>1, <3>3, <3>4 DEF Stand
  <2>4. CASE p \notin gone
    <3>1. r[k] = t[p]
      BY <1>7, <2>1, <2>4
    <3>2. b[k + 1] - 1 = p
      BY <2>1, <2>2, <2>4
    <3>3. SubSeq(t, p, p) = <<t[p]>>
      BY <1>1, <2>1, OneSlice
    <3>4. ~Marked(r[k])
      BY <1>1, <2>1, <3>1
    <3> QED BY <2>2, <3>1, <3>2, <3>3, <3>4 DEF Stand
  <2> QED BY <2>3, <2>4
<1>11. Pieces(r)
  <2>1. \A k \in 1 .. Len(r) : ~Marked(r[k])
    BY <1>9, <1>10
  <2> QED BY <1>9, <2>1, PiecesIs
<1>12. StandAt(r, t, b)
  BY <1>4, <1>6, <1>9, <1>10 DEF StandAt
<1> QED BY <1>3, <1>11, <1>12 DEF Stands

\* A text stands for itself.
LEMMA ItselfStands ==
  ASSUME NEW A, NEW t \in Seq(A) PROVE Stands(t, t)
<1>1. PICK n \in Nat : n = Len(t)
  OBVIOUS
<1>2. PICK b : b = [k \in 1 .. n + 1 |-> k]
  OBVIOUS
<1>3. \A k \in 1 .. n : b[k] = k /\ b[k + 1] = k + 1
  <2>1. \A k \in 1 .. n : k \in 1 .. n + 1 /\ k + 1 \in 1 .. n + 1
    OBVIOUS
  <2> QED BY <1>2, <2>1
<1>4. b[1] = 1 /\ b[n + 1] = n + 1
  <2>1. 1 \in 1 .. n + 1 /\ n + 1 \in 1 .. n + 1
    OBVIOUS
  <2> QED BY <1>2, <2>1
<1>5. Bounds(b, n, n)
  <2>1. b \in [1 .. n + 1 -> Nat]
    BY <1>2
  <2> QED BY <1>3, <1>4, <2>1 DEF Bounds
<1>6. ASSUME NEW k \in 1 .. n PROVE Stand(t[k], SubSeq(t, b[k], b[k + 1] - 1))
  <2>1. b[k] = k /\ b[k + 1] - 1 = k
    BY <1>3
  <2>2. SubSeq(t, k, k) = <<t[k]>>
    BY <1>1, OneSlice
  <2> QED BY <2>1, <2>2 DEF Stand
<1>7. StandAt(t, t, b)
  BY <1>1, <1>5, <1>6 DEF StandAt
<1> QED BY <1>7 DEF Stands

\* The text with its hosts marked, and back.
LEMMA HostsMarked ==
  ASSUME NEW t, Pieces(t), NEW h, h = WithoutHosts(t)
  PROVE  /\ \E A : h \in Seq(A)
         /\ Len(h) = Len(t) /\ DOMAIN h = 1 .. Len(t)
         /\ \A i \in 1 .. Len(t) : (h[i] = t[i] /\ ~Marked(h[i])) \/ (Marked(h[i]) /\ h[i] = <<"h", t[i]>>)
<1>1. PICK A : t \in Seq(A) /\ Len(t) \in Nat /\ DOMAIN t = 1 .. Len(t) /\ \A k \in 1 .. Len(t) : ~Marked(t[k])
  BY PiecesAre
<1>2. PICK n \in Nat : n = Len(t) /\ DOMAIN t = 1 .. n
  BY <1>1
<1>3. h = [i \in 1 .. n |-> IF i \in Hosts(t) THEN <<"h", t[i]>> ELSE t[i]]
  BY <1>2 DEF WithoutHosts
<1>4. PICK B : B = {h[k] : k \in 1 .. n}
  OBVIOUS
<1>5. h \in Seq(B) /\ Len(h) = n /\ DOMAIN h = 1 .. n
  <2>1. h = [k \in 1 .. n |-> h[k]]
    BY <1>3, Zenon
  <2>2. h \in [1 .. n -> B]
    BY <1>4, <2>1
  <2> QED BY <2>2
<1>6. ASSUME NEW i \in 1 .. n PROVE (h[i] = t[i] /\ ~Marked(h[i])) \/ (Marked(h[i]) /\ h[i] = <<"h", t[i]>>)
  <2>1. h[i] = IF i \in Hosts(t) THEN <<"h", t[i]>> ELSE t[i]
    BY <1>3
  <2>2. ~Marked(t[i]) /\ Marked(<<"h", t[i]>>)
    BY <1>1, <1>2 DEF Marked
  <2> QED BY <2>1, <2>2
<1> QED BY <1>2, <1>5, <1>6

\* Values without a mark.
Plain(vs) == \A v \in vs : \A k \in DOMAIN v : ~Marked(v[k])

\* A value that stands in the marked text stands in the text.
MatchIs(t, h, vs, i, j) ==
  /\ j \in i .. Len(t) /\ SubSeq(h, i, j) \in vs /\ SubSeq(h, i, j) = SubSeq(t, i, j)
  /\ \A x \in i .. j : h[x] = t[x]
  /\ i > 1 => ~IsWord(h[i - 1])
  /\ j < Len(t) => ~IsWord(h[j + 1])
LEMMA MatchPlain ==
  ASSUME NEW t, Pieces(t), NEW h, h = WithoutHosts(t), NEW vs, Plain(vs),
         NEW i \in 1 .. Len(t), NEW j \in Ends(h, i, vs)
  PROVE  MatchIs(t, h, vs, i, j)
<1>1. PICK A : t \in Seq(A) /\ Len(t) \in Nat /\ DOMAIN t = 1 .. Len(t)
  BY PiecesAre
<1>2. /\ \E B : h \in Seq(B)
      /\ Len(h) = Len(t) /\ DOMAIN h = 1 .. Len(t)
      /\ \A x \in 1 .. Len(t) : (h[x] = t[x] /\ ~Marked(h[x])) \/ (Marked(h[x]) /\ h[x] = <<"h", t[x]>>)
  BY HostsMarked
<1>3. PICK B : h \in Seq(B)
  BY <1>2
<1>4. /\ j \in i .. Len(t) /\ SubSeq(h, i, j) \in vs
      /\ i > 1 => ~IsWord(h[i - 1])
      /\ j < Len(t) => ~IsWord(h[j + 1])
  BY <1>2 DEF Ends
<1>5. i \in Nat /\ j \in Nat /\ i >= 1 /\ i <= j + 1 /\ j <= Len(t) /\ i <= j
  BY <1>1, <1>4
<1>6. /\ SubSeq(h, i, j) \in Seq(B) /\ Len(SubSeq(h, i, j)) = j - i + 1 /\ DOMAIN SubSeq(h, i, j) = 1 .. j - i + 1
      /\ \A k \in 1 .. j - i + 1 : SubSeq(h, i, j)[k] = h[i + k - 1]
  BY <1>2, <1>3, <1>5, SliceIs
<1>7. /\ SubSeq(t, i, j) \in Seq(A) /\ Len(SubSeq(t, i, j)) = j - i + 1
      /\ \A k \in 1 .. j - i + 1 : SubSeq(t, i, j)[k] = t[i + k - 1]
  BY <1>1, <1>5, SliceIs
<1>8. ASSUME NEW x \in i .. j PROVE h[x] = t[x]
  <2>1. PICK k \in 1 .. j - i + 1 : x = i + k - 1
    <3>1. x - i + 1 \in 1 .. j - i + 1 /\ x = i + (x - i + 1) - 1
      BY <1>5
    <3> QED BY <3>1
  <2>2. ~Marked(h[x])
    BY <1>4, <1>6, <2>1 DEF Plain
  <2>3. x \in 1 .. Len(t)
    BY <1>5
  <2> QED BY <1>2, <2>2, <2>3
<1>9. SubSeq(h, i, j) = SubSeq(t, i, j)
  <2>1. PICK v, w : v = SubSeq(h, i, j) /\ w = SubSeq(t, i, j)
    OBVIOUS
  <2>2. \A k \in 1 .. j - i + 1 : i + k - 1 \in i .. j
    BY <1>5
  <2>3. v \in Seq(B) /\ w \in Seq(A) /\ Len(v) = Len(w) /\ \A k \in 1 .. Len(v) : v[k] = w[k]
    BY <1>6, <1>7, <1>8, <2>1, <2>2
  <2> QED BY <2>1, <2>3, SameSeqs
<1> QED BY <1>4, <1>8, <1>9 DEF MatchIs

\* The pass over the marked text, and what it gives.
Pseudonymized(t, h, labels, last, begun, left, gone, at, b, put, r) ==
  /\ Pieces(t) /\ h = WithoutHosts(t)
  /\ Plain(DOMAIN labels)
  /\ Pass(h, DOMAIN labels, last, begun, left, gone)
  /\ at = Rising(left) /\ b = Ended(at, Len(h)) /\ put = Replaced(h, labels) /\ r = Back(put)

PutBack(t, h, labels, last, begun, left, gone, at, b, put, r) ==
  /\ Passed(h, DOMAIN labels, last, begun, left, gone)
  /\ Len(h) = Len(t) /\ last \in [1 .. Len(t) -> Nat] /\ left \subseteq 1 .. Len(t)
  /\ \A i : i \in left <=> i \in 1 .. Len(t) /\ (i \in begun \/ \E j \in begun : j < i /\ i <= last[j] /\ IsToken(h[j]))
  /\ \A i : i \in gone <=> i \in begun /\ Ends(h, i, DOMAIN labels) # {} /\ ~IsToken(h[i])
  /\ \A i \in 1 .. Len(t) : Ends(h, i, DOMAIN labels) # {} => last[i] \in Ends(h, i, DOMAIN labels)
  /\ \A i \in 1 .. Len(t) : Ends(h, i, DOMAIN labels) = {} => last[i] = i
  /\ \A i \in 1 .. Len(t) : \A j \in Ends(h, i, DOMAIN labels) : j <= last[i]
  /\ Bounds(b, Len(at), Len(t)) /\ Numbered(at, left)
  /\ \A k \in 1 .. Len(at) : b[k] = at[k] /\ b[k + 1] = (IF at[k] \in gone THEN last[at[k]] + 1 ELSE at[k] + 1)
  /\ DOMAIN put = 1 .. Len(at) /\ Len(put) = Len(at) /\ \E B : put \in Seq(B)
  /\ DOMAIN r = 1 .. Len(at) /\ Len(r) = Len(at) /\ \E B : r \in Seq(B)
  /\ \A k \in 1 .. Len(at) : at[k] \in gone =>
       /\ put[k] = Put(labels[SubSeq(t, at[k], last[at[k]])], SubSeq(t, at[k], last[at[k]]))
       /\ SubSeq(t, at[k], last[at[k]]) \in DOMAIN labels
       /\ r[k] = put[k]
  /\ \A k \in 1 .. Len(at) : at[k] \notin gone => put[k] = h[at[k]] /\ r[k] = t[at[k]]

\* All of that holds of a pass over the marked text.
LEMMA PutBackIs ==
  ASSUME NEW t, NEW h, NEW labels, NEW last, NEW begun, NEW left, NEW gone, NEW at, NEW b, NEW put, NEW r,
         Pseudonymized(t, h, labels, last, begun, left, gone, at, b, put, r)
  PROVE  PutBack(t, h, labels, last, begun, left, gone, at, b, put, r)
<1>0. PICK vs : vs = DOMAIN labels
  OBVIOUS
<1>1. /\ Pieces(t) /\ h = WithoutHosts(t)
      /\ Plain(vs)
      /\ Pass(h, vs, last, begun, left, gone)
      /\ at = Rising(left) /\ b = Ended(at, Len(h)) /\ put = Replaced(h, labels) /\ r = Back(put)
  BY <1>0 DEF Pseudonymized
<1>2. /\ \E A : h \in Seq(A)
      /\ Len(h) = Len(t) /\ DOMAIN h = 1 .. Len(t)
      /\ \A i \in 1 .. Len(t) : (h[i] = t[i] /\ ~Marked(h[i])) \/ (Marked(h[i]) /\ h[i] = <<"h", t[i]>>)
  BY <1>1, HostsMarked
<1>3. PICK A : h \in Seq(A)
  BY <1>2
<1>4. PICK n \in Nat : n = Len(t) /\ n = Len(h) /\ DOMAIN h = 1 .. n
  <2>1. Len(h) \in Nat
    BY <1>3
  <2>2. Len(h) = Len(t) /\ DOMAIN h = 1 .. Len(t)
    BY <1>2
  <2> QED BY <2>1, <2>2
<1>5. Passed(h, vs, last, begun, left, gone)
  BY <1>1, <1>3, PassIs
<1>6. last \in [1 .. n -> Nat] /\ left \subseteq 1 .. n /\ gone \subseteq 1 .. n
  BY <1>4, <1>5 DEF Passed
<1>7. \A i : i \in left <=> i \in 1 .. n /\ (i \in begun \/ \E j \in begun : j < i /\ i <= last[j] /\ IsToken(h[j]))
  <2>1. left = {i \in 1 .. n : i \in begun \/ \E j \in begun : j < i /\ i <= last[j] /\ IsToken(h[j])}
    BY <1>1, <1>4 DEF Pass
  <2> QED BY <2>1
<1>8. \A i : i \in gone <=> i \in begun /\ Ends(h, i, vs) # {} /\ ~IsToken(h[i])
  <2>1. gone = {i \in begun : Ends(h, i, vs) # {} /\ ~IsToken(h[i])}
    BY <1>1 DEF Pass
  <2> QED BY <2>1
<1>9. ASSUME NEW i \in 1 .. n
      PROVE  /\ Ends(h, i, vs) # {} => last[i] \in Ends(h, i, vs)
             /\ Ends(h, i, vs) = {} => last[i] = i
             /\ \A j \in Ends(h, i, vs) : j <= last[i]
  <2>1. last[i] = Longest(h, i, vs)
    BY <1>1, <1>4 DEF Pass
  <2>2. /\ Ends(h, i, vs) = {} => Longest(h, i, vs) = i
        /\ \A j \in Ends(h, i, vs) : j <= Longest(h, i, vs) /\ Longest(h, i, vs) \in Ends(h, i, vs)
    BY <1>3, <1>4, LongestIs
  <2> QED BY <2>1, <2>2
<1>10. /\ Bounds(b, Len(at), n) /\ Numbered(at, left)
       /\ \A k \in 1 .. Len(at) : b[k] = at[k] /\ b[k + 1] = (IF at[k] \in gone THEN last[at[k]] + 1 ELSE at[k] + 1)
  BY <1>1, <1>3, <1>4, PassBounds
<1>11. PICK m \in Nat : m = Len(at) /\ DOMAIN at = 1 .. m /\ \A k \in 1 .. m : at[k] \in left
  BY <1>10 DEF Numbered
<1>12. put = [k \in 1 .. m |-> IF at[k] \in gone THEN Put(labels[SubSeq(h, at[k], last[at[k]])], SubSeq(h, at[k], last[at[k]]))
                               ELSE h[at[k]]]
  <2>1. Pass(h, DOMAIN labels, last, begun, left, gone)
    BY <1>0, <1>1
  <2>2. Replaced(h, labels) =
          [k \in DOMAIN at |-> IF at[k] \in gone THEN Put(labels[SubSeq(h, at[k], last[at[k]])], SubSeq(h, at[k], last[at[k]]))
                               ELSE h[at[k]]]
    BY <1>1, <2>1, ReplacedIs
  <2> QED BY <1>1, <1>11, <2>2
<1>13. put \in Seq({put[k] : k \in 1 .. m}) /\ Len(put) = m /\ DOMAIN put = 1 .. m
  <2>1. PICK B : B = {put[k] : k \in 1 .. m}
    OBVIOUS
  <2>2. put = [k \in 1 .. m |-> put[k]]
    BY <1>12, Zenon
  <2>3. put \in [1 .. m -> B]
    BY <2>1, <2>2
  <2>4. put \in Seq(B) /\ Len(put) = m /\ DOMAIN put = 1 .. m
    BY <1>11, <2>3
  <2> QED BY <2>1, <2>4
<1>14. r = [k \in 1 .. m |-> IF put[k][1] = "h" THEN put[k][2] ELSE put[k]]
  BY <1>1, <1>13 DEF Back
<1>15. r \in Seq({r[k] : k \in 1 .. m}) /\ Len(r) = m /\ DOMAIN r = 1 .. m
  <2>1. PICK B : B = {r[k] : k \in 1 .. m}
    OBVIOUS
  <2>2. r = [k \in 1 .. m |-> r[k]]
    BY <1>14, Zenon
  <2>3. r \in [1 .. m -> B]
    BY <2>1, <2>2
  <2>4. r \in Seq(B) /\ Len(r) = m /\ DOMAIN r = 1 .. m
    BY <1>11, <2>3
  <2> QED BY <2>1, <2>4
<1>16. ASSUME NEW k \in 1 .. m, at[k] \in gone
       PROVE  /\ put[k] = Put(labels[SubSeq(t, at[k], last[at[k]])], SubSeq(t, at[k], last[at[k]]))
              /\ SubSeq(t, at[k], last[at[k]]) \in vs /\ r[k] = put[k]
  <2>1. PICK p : p = at[k] /\ p \in 1 .. n /\ p \in gone
    BY <1>6, <1>16
  <2>2. PICK e : e = last[p] /\ e \in Ends(h, p, vs)
    BY <1>8, <1>9, <2>1
  <2>3. SubSeq(h, p, e) = SubSeq(t, p, e) /\ SubSeq(h, p, e) \in vs
    <3>1. p \in 1 .. Len(t) /\ e \in Ends(h, p, vs)
      BY <1>4, <2>1, <2>2
    <3>2. Pieces(t) /\ h = WithoutHosts(t) /\ Plain(vs)
      BY <1>1
    <3> QED BY <3>1, <3>2, MatchPlain DEF MatchIs
  <2>4. PICK v : v = SubSeq(t, p, e) /\ v = SubSeq(h, p, e)
    BY <2>3
  <2>5. put[k] = Put(labels[v], v)
    BY <1>12, <2>1, <2>2, <2>4
  <2>6. put[k][1] # "h"
    BY <2>5 DEF Put
  <2>7. r[k] = put[k]
    BY <1>14, <2>6
  <2> QED BY <2>1, <2>2, <2>3, <2>4, <2>5, <2>7
<1>17. ASSUME NEW k \in 1 .. m, at[k] \notin gone PROVE put[k] = h[at[k]] /\ r[k] = t[at[k]]
  <2>1. PICK p : p = at[k] /\ p \in 1 .. n /\ p \notin gone
    BY <1>6, <1>11, <1>17
  <2>2. put[k] = h[p]
    BY <1>12, <2>1
  <2>3. r[k] = IF h[p][1] = "h" THEN h[p][2] ELSE h[p]
    BY <1>14, <2>2
  <2>4. (h[p] = t[p] /\ ~Marked(h[p])) \/ (Marked(h[p]) /\ h[p] = <<"h", t[p]>>)
    BY <1>2, <1>4, <2>1
  <2>5. r[k] = t[p]
    BY <2>3, <2>4 DEF Marked
  <2> QED BY <2>1, <2>2, <2>5
<1>18. (\E B : put \in Seq(B)) /\ (\E B : r \in Seq(B))
  BY <1>13, <1>15
<1> QED BY <1>0, <1>4, <1>5, <1>6, <1>7, <1>8, <1>9, <1>10, <1>11, <1>13, <1>15, <1>16, <1>17, <1>18 DEF PutBack

\* With every value back in its place it is the text.
LEMMA BackStands ==
  ASSUME NEW t, NEW h, NEW labels, NEW last, NEW begun, NEW left, NEW gone, NEW at, NEW b, NEW put, NEW r, Pieces(t),
         PutBack(t, h, labels, last, begun, left, gone, at, b, put, r)
  PROVE  Restores(r, t, left) /\ Rising(left) = at /\ left \in SUBSET (1 .. Len(t))
<1>1. PICK A : t \in Seq(A) /\ Len(t) \in Nat /\ DOMAIN t = 1 .. Len(t)
  BY PiecesAre
<1>2. PICK B : r \in Seq(B)
  BY DEF PutBack
<1>3. PICK m, n : m = Len(at) /\ n = Len(t)
  OBVIOUS
<1>4. /\ Bounds(b, m, n) /\ Numbered(at, left) /\ Len(r) = m
      /\ \A k \in 1 .. m : b[k] = at[k] /\ b[k + 1] = (IF at[k] \in gone THEN last[at[k]] + 1 ELSE at[k] + 1)
      /\ \A k \in 1 .. m : at[k] \in gone =>
           /\ put[k] = Put(labels[SubSeq(t, at[k], last[at[k]])], SubSeq(t, at[k], last[at[k]]))
           /\ r[k] = put[k]
      /\ \A k \in 1 .. m : at[k] \notin gone => r[k] = t[at[k]]
  BY <1>3 DEF PutBack
<1>5. m \in Nat /\ DOMAIN at = 1 .. m /\ at \in Seq(left) /\ (\A k \in 1 .. m : at[k] \in left)
      /\ \A x \in left : \E k \in 1 .. m : at[k] = x
  BY <1>3, <1>4 DEF Numbered
<1>6. last \in [1 .. n -> Nat] /\ left \subseteq 1 .. n
  BY <1>3 DEF PutBack
<1>7. ASSUME NEW k \in 1 .. m PROVE Stand(r[k], SubSeq(t, b[k], b[k + 1] - 1))
  <2>1. PICK p : p = at[k] /\ p \in 1 .. n
    BY <1>5, <1>6
  <2>2. b[k] = p /\ b[k + 1] = (IF p \in gone THEN last[p] + 1 ELSE p + 1)
    BY <1>4, <2>1
  <2>3. CASE p \in gone
    <3>1. PICK v : v = SubSeq(t, p, last[p])
      OBVIOUS
    <3>2. r[k] = Put(labels[v], v)
      BY <1>4, <2>1, <2>3, <3>1
    <3>3. b[k + 1] - 1 = last[p]
      <4>1. last[p] \in Nat
        BY <1>6, <2>1
      <4> QED BY <2>2, <2>3, <4>1
    <3>4. IsToken(r[k]) /\ r[k][3] = v
      BY <3>2 DEF IsToken, Put
    <3> QED BY <2>2, <3>1, <3>3, <3>4 DEF Stand
  <2>4. CASE p \notin gone
    <3>1. r[k] = t[p]
      BY <1>4, <2>1, <2>4
    <3>2. b[k + 1] - 1 = p
      BY <2>1, <2>2, <2>4
    <3>3. SubSeq(t, p, p) = <<t[p]>>
      BY <1>1, <1>3, <2>1, OneSlice
    <3> QED BY <2>2, <3>1, <3>2, <3>3 DEF Stand
  <2> QED BY <2>3, <2>4
<1>8. StandAt(r, t, b)
  BY <1>3, <1>4, <1>7 DEF StandAt
<1>9. left = {b[k] : k \in 1 .. m}
  <2>1. \A x \in left : \E k \in 1 .. m : b[k] = x
    BY <1>4, <1>5
  <2>2. \A k \in 1 .. m : b[k] \in left
    BY <1>4, <1>5
  <2> QED BY <2>1, <2>2
<1>10. /\ left \in SUBSET (1 .. Len(t)) /\ Restores(r, t, left)
       /\ Rising(left) = [k \in 1 .. m |-> b[k]]
  <2>1. left = {b[k] : k \in 1 .. Len(r)}
    BY <1>4, <1>9
  <2>2. /\ left \in SUBSET (1 .. Len(t)) /\ Restores(r, t, left)
        /\ Rising(left) = [k \in 1 .. Len(r) |-> b[k]]
    <3>1. PICK S : S = PartStarts(b, Len(r))
      OBVIOUS
    <3>2. /\ S \in SUBSET (1 .. Len(t)) /\ Restores(r, t, S)
          /\ Rising(S) = [k \in 1 .. Len(r) |-> b[k]]
      BY <1>1, <1>2, <1>8, <3>1, RestoresAt
    <3>3. S = left
      BY <2>1, <3>1 DEF PartStarts
    <3> QED BY <3>2, <3>3
  <2> QED BY <1>4, <2>2
<1>11. [k \in 1 .. m |-> b[k]] = at
  <2>1. at = [k \in 1 .. m |-> at[k]]
    BY <1>5
  <2> QED BY <1>4, <2>1
<1> QED BY <1>10, <1>11

\* Places that follow on one another keep doing so in order.
RunAt(at, S, p, e, k) ==
  /\ p \in Nat /\ e \in Nat /\ p <= e /\ \A y \in p .. e : y \in S
  /\ k \in 1 .. Len(at) /\ at[k] = p
RunFrom(at, p, e, k) == \A d \in 0 .. e - p : k + d \in 1 .. Len(at) /\ at[k + d] = p + d
LEMMA RunOf ==
  ASSUME NEW n \in Nat, NEW S \in SUBSET (1 .. n), NEW at, Numbered(at, S), NEW p, NEW e, NEW k, RunAt(at, S, p, e, k)
  PROVE  RunFrom(at, p, e, k)
<1>0. /\ p \in Nat /\ e \in Nat /\ p <= e /\ \A y \in p .. e : y \in S
      /\ k \in 1 .. Len(at) /\ at[k] = p
  BY DEF RunAt
<1>1. PICK m \in Nat : m = Len(at)
  BY DEF Numbered
<1>2. PICK N : N = {d \in Nat : d <= e - p => k + d \in 1 .. m /\ at[k + d] = p + d}
  OBVIOUS
<1>3. 0 \in N
  BY <1>0, <1>1, <1>2
<1>4. ASSUME NEW d \in N PROVE d + 1 \in N
  <2>1. d \in Nat /\ (d <= e - p => k + d \in 1 .. m /\ at[k + d] = p + d)
    BY <1>2
  <2>2. SUFFICES ASSUME d + 1 <= e - p PROVE k + (d + 1) \in 1 .. m /\ at[k + (d + 1)] = p + (d + 1)
    BY <1>0, <1>2, <2>1
  <2>3. PICK g \in 1 .. m : g = k + d /\ at[g] = p + d
    BY <1>0, <2>1, <2>2
  <2>4. PICK y \in S : y = p + d + 1
    <3>1. p + d + 1 \in p .. e
      BY <1>0, <2>1, <2>2
    <3> QED BY <1>0, <3>1
  <2>5. g < m /\ at[g + 1] <= y
    <3>1. at[g] < y
      BY <1>0, <2>1, <2>3, <2>4
    <3> QED BY <1>1, <2>3, <2>4, <3>1 DEF Numbered
  <2>6. g + 1 \in 1 .. m /\ g \in 1 .. m /\ g < g + 1
    BY <1>1, <2>5
  <2>7. at[g] < at[g + 1] /\ at[g + 1] \in Nat
    BY <1>1, <2>6 DEF Numbered
  <2>8. at[g + 1] = p + (d + 1)
    BY <1>0, <2>1, <2>3, <2>4, <2>5, <2>7
  <2>9. g + 1 = k + (d + 1)
    BY <1>0, <1>1, <2>1, <2>3
  <2> QED BY <2>6, <2>8, <2>9
<1>5. Nat \subseteq N
  <2>1. N \subseteq Nat
    BY <1>2
  <2> QED BY <1>3, <1>4, <2>1, NatSets
<1>6. ASSUME NEW d \in 0 .. e - p PROVE k + d \in 1 .. m /\ at[k + d] = p + d
  <2>1. d \in N /\ d <= e - p
    BY <1>0, <1>5
  <2> QED BY <1>2, <2>1
<1> QED BY <1>1, <1>6 DEF RunFrom

\* A match that begins in a token of before and would leave a value in it,
\* with nothing of a word beside it, is seen by the check.
LEMMA SeenInAToken ==
  ASSUME NEW t, NEW h, NEW labels, NEW last, NEW begun, NEW left, NEW gone, NEW at, NEW b, NEW put, NEW r,
         Pseudonymized(t, h, labels, last, begun, left, gone, at, b, put, r),
         NEW s \in begun, NEW e \in Ends(h, s, DOMAIN labels), e = last[s], IsToken(h[s]),
         NEW i \in 1 .. Len(t), NEW j \in Ends(h, i, DOMAIN labels), s < i, j <= e,
         \A x \in i .. j : ~IsToken(t[x]),
         ~IsToken(t[i - 1]), j < Len(t) => ~IsToken(t[j + 1])
  PROVE  Survives(put, labels)
<1>0. PICK vs : vs = DOMAIN labels
  OBVIOUS
<1>1. PutBack(t, h, labels, last, begun, left, gone, at, b, put, r)
  BY PutBackIs
<1>2. Pieces(t) /\ h = WithoutHosts(t) /\ Plain(vs)
  BY <1>0 DEF Pseudonymized
<1>3. PICK A : t \in Seq(A) /\ Len(t) \in Nat /\ DOMAIN t = 1 .. Len(t)
  BY <1>2, PiecesAre
<1>4. PICK n \in Nat : n = Len(t)
  BY <1>3
<1>5. /\ Passed(h, vs, last, begun, left, gone)
      /\ Len(h) = n /\ left \subseteq 1 .. n
      /\ \A y : y \in left <=> y \in 1 .. n /\ (y \in begun \/ \E q \in begun : q < y /\ y <= last[q] /\ IsToken(h[q]))
      /\ \A y : y \in gone <=> y \in begun /\ Ends(h, y, vs) # {} /\ ~IsToken(h[y])
  BY <1>0, <1>1, <1>4 DEF PutBack
<1>6. /\ \A q \in begun : q \in 1 .. n
      /\ \A q \in begun : s < q => last[s] < q
      /\ last[s] < n => last[s] + 1 \in begun
      /\ begun \subseteq left /\ gone \subseteq begun
  <2>1. InParts(n, last, begun) /\ begun \subseteq left /\ gone \subseteq begun
    BY <1>5 DEF Passed
  <2> QED BY <2>1 DEF InParts
<1>7. /\ e \in s .. n /\ \A x \in s .. e : h[x] = t[x]
  <2>1. s \in 1 .. Len(t) /\ e \in Ends(h, s, vs)
    BY <1>0, <1>4, <1>6
  <2>2. e \in s .. Len(t) /\ \A x \in s .. e : h[x] = t[x]
    <3>1. MatchIs(t, h, vs, s, e)
      BY <1>2, <2>1, MatchPlain
    <3> QED BY <1>2, <2>1, <3>1 DEF MatchIs
  <2> QED BY <1>4, <2>2
<1>8. /\ j \in i .. n /\ SubSeq(h, i, j) \in vs /\ SubSeq(h, i, j) = SubSeq(t, i, j)
      /\ \A x \in i .. j : h[x] = t[x]
      /\ i > 1 => ~IsWord(h[i - 1])
      /\ j < n => ~IsWord(h[j + 1])
  <2>1. i \in 1 .. Len(t) /\ j \in Ends(h, i, vs)
    BY <1>0
  <2>2. MatchIs(t, h, vs, i, j)
    BY <1>2, <2>1, MatchPlain
  <2> QED BY <1>4, <2>2 DEF MatchIs
<1>9. s \in Nat /\ e \in Nat /\ i \in Nat /\ j \in Nat /\ 1 <= s /\ s < i /\ i <= j /\ j <= e /\ e <= n
  BY <1>4, <1>6, <1>7, <1>8
<1>10. ASSUME NEW y \in s .. e PROVE y \in left /\ y \notin gone
  <2>1. y \in Nat /\ y \in 1 .. n /\ s <= y /\ y <= last[s]
    BY <1>9
  <2>2. y \in left
    <3>1. CASE y = s
      BY <1>6, <3>1
    <3>2. CASE y # s
      <4>1. s < y
        BY <1>9, <2>1, <3>2
      <4> QED BY <1>5, <2>1, <4>1
    <3> QED BY <3>1, <3>2
  <2>3. y \notin gone
    <3>1. CASE y = s
      BY <1>5, <3>1
    <3>2. CASE y # s
      <4>1. s < y
        BY <1>9, <2>1, <3>2
      <4>2. y \notin begun
        BY <1>6, <1>9, <2>1, <4>1
      <4> QED BY <1>6, <4>2
    <3> QED BY <3>1, <3>2
  <2> QED BY <2>2, <2>3
<1>11. /\ Numbered(at, left) /\ DOMAIN put = 1 .. Len(at) /\ Len(put) = Len(at)
       /\ \A k \in 1 .. Len(at) : at[k] \in gone =>
            /\ put[k] = Put(labels[SubSeq(t, at[k], last[at[k]])], SubSeq(t, at[k], last[at[k]]))
            /\ SubSeq(t, at[k], last[at[k]]) \in vs
       /\ \A k \in 1 .. Len(at) : at[k] \notin gone => put[k] = h[at[k]]
  BY <1>0, <1>1 DEF PutBack
<1>12. PICK m \in Nat : m = Len(at)
  BY <1>11 DEF Numbered
<1>13. PICK p : p = i - 1
  OBVIOUS
<1>14. p \in Nat /\ p \in s .. e /\ p <= j /\ i = p + 1
  BY <1>9, <1>13
<1>15. PICK k \in 1 .. m : at[k] = p
  <2>1. p \in left
    BY <1>10, <1>14
  <2> QED BY <1>11, <1>12, <2>1 DEF Numbered
<1>16. ASSUME NEW d \in 0 .. e - p PROVE k + d \in 1 .. m /\ at[k + d] = p + d /\ put[k + d] = h[p + d]
  <2>1. left \in SUBSET (1 .. n) /\ k \in 1 .. Len(at) /\ p <= e
    BY <1>5, <1>12, <1>14
  <2>2. p .. e \subseteq left
    BY <1>9, <1>10, <1>14
  <2>3. k + d \in 1 .. m /\ at[k + d] = p + d
    <3>1. at[k] = p /\ p \in Nat /\ e \in Nat /\ n \in Nat
      BY <1>4, <1>9, <1>14, <1>15
    <3>2. RunAt(at, left, p, e, k)
      BY <2>1, <2>2, <3>1 DEF RunAt
    <3>3. RunFrom(at, p, e, k)
      BY <1>11, <2>1, <3>1, <3>2, RunOf
    <3> QED BY <1>12, <3>3 DEF RunFrom
  <2>4. p + d \in s .. e
    <3>1. d \in Nat /\ d <= e - p
      BY <1>9, <1>14
    <3>2. p \in Nat /\ s \in Nat /\ e \in Nat /\ s <= p
      BY <1>9, <1>14
    <3>3. p + d \in Nat /\ s <= p + d /\ p + d <= e
      BY <3>1, <3>2
    <3> QED BY <3>2, <3>3
  <2>5. p + d \notin gone
    BY <1>10, <2>4
  <2> QED BY <1>11, <1>12, <2>3, <2>5
<1>17. PICK a, z : a = k + 1 /\ z = k + (j - p)
  OBVIOUS
<1>18. j - p \in 0 .. e - p /\ 1 \in 0 .. e - p /\ 0 \in 0 .. e - p
  BY <1>9, <1>14
<1>19. a \in 1 .. m /\ z \in 1 .. m /\ a <= z /\ a \in Nat /\ z \in Nat /\ z - a = j - i /\ a = k + 1
  <2>1. a \in 1 .. m /\ z \in 1 .. m
    BY <1>16, <1>17, <1>18
  <2> QED BY <1>9, <1>14, <1>17, <2>1
<1>20. ASSUME NEW f \in 1 .. j - i + 1 PROVE put[a + f - 1] = h[i + f - 1]
  <2>1. f \in 0 .. e - p /\ k + f = a + f - 1 /\ p + f = i + f - 1
    BY <1>9, <1>14, <1>17
  <2> QED BY <1>16, <2>1
<1>21. SubSeq(put, a, z) \in vs
  <2>1. PICK B : put \in Seq(B)
    BY <1>1 DEF PutBack
  <2>2. PICK C : h \in Seq(C)
    BY <1>2, HostsMarked
  <2>3. /\ SubSeq(put, a, z) \in Seq(B) /\ Len(SubSeq(put, a, z)) = z - a + 1
        /\ \A f \in 1 .. z - a + 1 : SubSeq(put, a, z)[f] = put[a + f - 1]
    <3>1. a >= 1 /\ a <= z + 1 /\ z <= Len(put)
      BY <1>11, <1>12, <1>19
    <3> QED BY <1>19, <2>1, <3>1, SliceIs
  <2>4. /\ SubSeq(h, i, j) \in Seq(C) /\ Len(SubSeq(h, i, j)) = j - i + 1
        /\ \A f \in 1 .. j - i + 1 : SubSeq(h, i, j)[f] = h[i + f - 1]
    <3>1. i >= 1 /\ i <= j + 1 /\ j <= Len(h)
      BY <1>5, <1>8, <1>9
    <3> QED BY <1>9, <2>2, <3>1, SliceIs
  <2>5. PICK v, w : v = SubSeq(put, a, z) /\ w = SubSeq(h, i, j)
    OBVIOUS
  <2>6. v \in Seq(B) /\ w \in Seq(C) /\ Len(v) = Len(w) /\ \A f \in 1 .. Len(v) : v[f] = w[f]
    BY <1>19, <1>20, <2>3, <2>4, <2>5
  <2>7. v = w
    BY <2>6, SameSeqs
  <2> QED BY <1>8, <2>5, <2>7
<1>22. ASSUME NEW x \in a .. z PROVE ~IsToken(put[x])
  <2>1. PICK f \in 1 .. j - i + 1 : x = a + f - 1
    <3>1. x - a + 1 \in 1 .. j - i + 1 /\ x = a + (x - a + 1) - 1
      BY <1>9, <1>19
    <3> QED BY <3>1
  <2>2. i + f - 1 \in i .. j
    BY <1>9
  <2>3. put[x] = t[i + f - 1]
    BY <1>8, <1>20, <2>1, <2>2
  <2> QED BY <2>2, <2>3
<1>23. a > 1 => ~WordAt(put[a - 1], 0, labels)
  <2>1. k + 0 = a - 1 /\ p + 0 = i - 1
    BY <1>9, <1>12, <1>14, <1>17
  <2>2. put[a - 1] = h[i - 1]
    BY <1>16, <1>18, <2>1
  <2>3. h[i - 1] = t[i - 1]
    BY <1>7, <1>13, <1>14
  <2>4. ~IsWord(h[i - 1])
    BY <1>8, <1>9
  <2> QED BY <2>2, <2>3, <2>4 DEF WordAt
<1>24. z < m => ~WordAt(put[z + 1], 1, labels)
  <2>1. SUFFICES ASSUME z < m PROVE ~WordAt(put[z + 1], 1, labels)
    OBVIOUS
  <2>2. CASE j < e
    <3>1. PICK d : d = j - p + 1
      OBVIOUS
    <3>2. d \in 0 .. e - p /\ k + d = z + 1 /\ p + d = j + 1 /\ j < n
      BY <1>9, <1>12, <1>14, <1>17, <2>2, <3>1
    <3>3. put[z + 1] = h[j + 1]
      BY <1>16, <3>2
    <3>4. j + 1 \in s .. e
      BY <1>9, <2>2
    <3>5. h[j + 1] = t[j + 1] /\ ~IsToken(t[j + 1]) /\ ~IsWord(h[j + 1])
      BY <1>4, <1>7, <1>8, <3>2, <3>4
    <3> QED BY <3>3, <3>5 DEF WordAt
  <2>3. CASE j = e
    <3>1. at[z] = e
      <4>1. k + (j - p) \in 1 .. m /\ at[k + (j - p)] = p + (j - p)
        BY <1>16, <1>18
      <4>2. p + (j - p) = e
        BY <1>9, <1>14, <2>3
      <4> QED BY <1>17, <4>1, <4>2
    <3>2. z + 1 \in 1 .. m /\ z < z + 1
      BY <1>19, <2>1
    <3>3. at[z + 1] \in left /\ at[z + 1] \in Nat /\ at[z] < at[z + 1]
      BY <1>11, <1>12, <1>19, <3>2 DEF Numbered
    <3>4. e < n
      BY <1>5, <1>9, <3>1, <3>3
    <3>5. PICK q : q = e + 1 /\ q \in begun /\ q \in left
      BY <1>6, <3>4
    <3>6. at[z + 1] = q
      <4>1. at[z] < q
        BY <1>9, <3>1, <3>5
      <4>2. at[z + 1] <= q
        BY <1>11, <1>12, <1>19, <3>5, <4>1 DEF Numbered
      <4> QED BY <1>9, <3>1, <3>3, <3>5, <4>2
    <3>7. q \in 1 .. n /\ ~IsToken(t[q]) /\ ~IsWord(h[q])
      <4>1. q \in 1 .. n /\ j < n /\ q = j + 1
        BY <1>6, <2>3, <3>4, <3>5
      <4> QED BY <1>4, <1>8, <4>1
    <3>8. CASE q \notin gone
      <4>1. put[z + 1] = h[q]
        BY <1>11, <1>12, <3>2, <3>6, <3>8
      <4>2. (h[q] = t[q] /\ ~Marked(h[q])) \/ (Marked(h[q]) /\ h[q] = <<"h", t[q]>>)
        BY <1>2, <1>4, <3>7, HostsMarked
      <4>3. ~IsToken(h[q])
        BY <3>7, <4>2 DEF IsToken, Marked
      <4> QED BY <3>7, <4>1, <4>3 DEF WordAt
    <3>9. CASE q \in gone
      <4>1. PICK g : g = last[q] /\ g \in Ends(h, q, vs)
        <5>1. Ends(h, q, vs) # {}
          BY <1>5, <3>9
        <5> QED BY <1>0, <1>1, <1>4, <3>7, <5>1 DEF PutBack
      <4>2. /\ g \in q .. n /\ \A x \in q .. g : h[x] = t[x]
        <5>1. q \in 1 .. Len(t) /\ g \in Ends(h, q, vs)
          BY <1>4, <3>7, <4>1
        <5>2. g \in q .. Len(t) /\ \A x \in q .. g : h[x] = t[x]
          <6>1. MatchIs(t, h, vs, q, g)
            BY <1>2, <5>1, MatchPlain
          <6> QED BY <1>2, <5>1, <6>1 DEF MatchIs
        <5> QED BY <1>4, <5>2
      <4>3. PICK v : v = SubSeq(t, q, g)
        OBVIOUS
      <4>4. v[1] = t[q]
        <5>1. q \in Nat /\ g \in Nat /\ q >= 1 /\ q <= g + 1 /\ g <= Len(t) /\ 1 \in 1 .. g - q + 1 /\ q + 1 - 1 = q
          BY <1>4, <3>7, <4>2
        <5>2. \A x \in 1 .. g - q + 1 : SubSeq(t, q, g)[x] = t[q + x - 1]
          BY <1>3, <5>1, SliceIs
        <5>3. v[1] = t[q + 1 - 1]
          BY <4>3, <5>1, <5>2
        <5> QED BY <5>1, <5>3
      <4>5. h[q] = t[q]
        BY <3>7, <4>2
      <4>6. put[z + 1] = Put(labels[v], v) /\ v \in vs
        BY <1>11, <1>12, <3>2, <3>6, <3>9, <4>1, <4>3
      <4>7. ~IsWord(v[1])
        BY <3>7, <4>4, <4>5
      <4>8. PICK c : c = put[z + 1]
        OBVIOUS
      <4>9. IsToken(c) /\ c[2] = labels[v] /\ c[3] = v
        BY <4>6, <4>8 DEF IsToken, Put
      <4>10. ~WordAt(c, 1, labels)
        BY <1>0, <4>6, <4>7, <4>9 DEF WordAt
      <4> QED BY <4>8, <4>10
    <3> QED BY <3>8, <3>9
  <2> QED BY <1>9, <2>2, <2>3
<1>25. a \in DOMAIN put /\ z \in a .. Len(put) /\ Len(put) = m
  BY <1>11, <1>12, <1>19
<1> QED BY <1>0, <1>21, <1>22, <1>23, <1>24, <1>25 DEF Survives

\* Of a place that has to go nothing stays.
LEMMA NothingStays ==
  ASSUME NEW t, NEW h, NEW labels, NEW last, NEW begun, NEW left, NEW gone, NEW at, NEW b, NEW put, NEW r,
         Pseudonymized(t, h, labels, last, begun, left, gone, at, b, put, r),
         ~Survives(put, labels), NEW o \in MustGo(t, DOMAIN labels)
  PROVE  (o[1] .. o[2]) \cap Stays(r, t, left) = {}
<1>0. PICK vs : vs = DOMAIN labels
  OBVIOUS
<1>1. PutBack(t, h, labels, last, begun, left, gone, at, b, put, r)
  BY PutBackIs
<1>2. Pieces(t) /\ h = WithoutHosts(t) /\ Plain(vs)
  BY <1>0 DEF Pseudonymized
<1>3. PICK n \in Nat : n = Len(t) /\ DOMAIN t = 1 .. n
  BY <1>2, PiecesAre
<1>4. PICK i, j : i = o[1] /\ j = o[2]
  OBVIOUS
<1>5. /\ o \in Matches(t, vs)
      /\ \A x \in i .. j : ~IsToken(t[x])
      /\ \A a \in Matches(t, vs) : ~Crosses(a, o) /\ ~Crosses(o, a) /\ ~Hides(t, a, o)
  BY <1>0, <1>4 DEF MustGo
<1>6. i \in 1 .. n /\ j \in 1 .. n /\ j \in Ends(h, i, vs)
  BY <1>2, <1>3, <1>4, <1>5 DEF Matches
<1>7. j \in i .. n
  <2>1. MatchIs(t, h, vs, i, j)
    BY <1>2, <1>3, <1>6, MatchPlain
  <2> QED BY <1>2, <1>3, <1>6, <2>1 DEF MatchIs
<1>8. Rising(left) = at /\ DOMAIN r = 1 .. Len(at)
  BY <1>1 DEF PutBack, Pseudonymized
<1>9. SUFFICES ASSUME NEW k \in 1 .. Len(at), r[k] = t[at[k]], at[k] \in i .. j PROVE FALSE
  <2>1. Stays(r, t, left) = {at[k] : k \in {x \in DOMAIN r : r[x] = t[at[x]]}}
    BY <1>8 DEF Stays
  <2>2. \A y \in Stays(r, t, left) : \E k \in 1 .. Len(at) : y = at[k] /\ r[k] = t[at[k]]
    BY <1>8, <2>1
  <2> QED BY <1>4, <2>2
<1>10. PICK x : x = at[k] /\ r[k] = t[x] /\ x \in i .. j
  BY <1>9
<1>11. x \notin gone
  <2>1. SUFFICES ASSUME x \in gone PROVE FALSE
    OBVIOUS
  <2>2. PICK v : r[k] = Put(labels[v], v)
    BY <1>1, <1>10, <2>1 DEF PutBack
  <2>3. IsToken(t[x])
    BY <1>10, <2>2 DEF IsToken, Put
  <2> QED BY <1>5, <1>10, <2>3
<1>12. /\ Passed(h, vs, last, begun, left, gone)
       /\ Len(h) = n /\ last \in [1 .. n -> Nat]
       /\ \A y : y \in gone <=> y \in begun /\ Ends(h, y, vs) # {} /\ ~IsToken(h[y])
       /\ \A y \in 1 .. n : Ends(h, y, vs) # {} => last[y] \in Ends(h, y, vs)
       /\ \A y \in 1 .. n : Ends(h, y, vs) = {} => last[y] = y
       /\ \A y \in 1 .. n : \A q \in Ends(h, y, vs) : q <= last[y]
  BY <1>0, <1>1, <1>3 DEF PutBack
<1>13. x \in left
  BY <1>1, <1>9, <1>10 DEF PutBack, Numbered
<1>14. PICK s \in begun : s <= i /\ i <= last[s] /\ s \in 1 .. n
  <2>1. InParts(n, last, begun)
    BY <1>12 DEF Passed
  <2> QED BY <1>6, <2>1 DEF InParts
<1>15. s \in Nat /\ i \in Nat /\ j \in Nat /\ x \in Nat /\ i <= x /\ x <= j /\ last[s] \in Nat
  BY <1>6, <1>10, <1>12, <1>14
<1>16. Ends(h, s, vs) # {}
  <2>1. SUFFICES ASSUME Ends(h, s, vs) = {} PROVE FALSE
    OBVIOUS
  <2>2. last[s] = s
    BY <1>12, <1>14, <2>1
  <2>3. s = i
    BY <1>14, <1>15, <2>2
  <2> QED BY <1>6, <2>1, <2>3
<1>17. PICK e \in Ends(h, s, vs) : e = last[s]
  BY <1>12, <1>14, <1>16
<1>18. e \in s .. n /\ \A y \in s .. e : h[y] = t[y]
  <2>1. s \in 1 .. Len(t)
    BY <1>3, <1>14
  <2>2. e \in s .. Len(t) /\ \A y \in s .. e : h[y] = t[y]
    <3>1. MatchIs(t, h, vs, s, e)
      BY <1>2, <2>1, MatchPlain
    <3> QED BY <1>2, <2>1, <3>1 DEF MatchIs
  <2> QED BY <1>3, <2>2
<1>19. PICK m : m = <<s, e>> /\ m[1] = s /\ m[2] = e
  <2>1. <<s, e>>[1] = s /\ <<s, e>>[2] = e
    OBVIOUS
  <2> QED BY <2>1
<1>20. m \in Matches(t, vs)
  <2>1. s \in DOMAIN t /\ e \in DOMAIN t
    BY <1>3, <1>14, <1>18
  <2>2. m[2] \in Ends(WithoutHosts(t), m[1], vs)
    BY <1>2, <1>17, <1>19
  <2> QED BY <1>19, <2>1, <2>2 DEF Matches
<1>21. ~Crosses(m, o) /\ ~Hides(t, m, o)
  BY <1>5, <1>20
<1>22. j <= e
  <2>1. CASE s = i
    BY <1>6, <1>12, <1>17, <2>1
  <2>2. CASE s # i
    <3>1. s < i /\ i <= e
      BY <1>14, <1>15, <1>17, <2>2
    <3>2. ~(e < j)
      BY <1>4, <1>19, <1>21, <3>1 DEF Crosses
    <3> QED BY <1>15, <1>17, <3>2
  <2> QED BY <2>1, <2>2
<1>23. IsToken(h[s])
  <2>1. SUFFICES ASSUME ~IsToken(h[s]) PROVE FALSE
    OBVIOUS
  <2>2. s \in gone
    BY <1>12, <1>14, <1>16, <2>1
  <2>3. x # s
    BY <1>11, <2>2
  <2>4. x > s
    BY <1>14, <1>15, <2>3
  <2>5. x > last[s]
    BY <1>12, <1>13, <2>2, <2>4 DEF Passed
  <2> QED BY <1>15, <1>17, <1>22, <2>5
<1>24. s < i
  <2>1. h[s] = t[s] /\ s \in Nat
    BY <1>15, <1>18
  <2>2. s # i
    <3>1. SUFFICES ASSUME s = i PROVE FALSE
      OBVIOUS
    <3>2. i \in i .. j
      BY <1>15
    <3> QED BY <1>5, <1>23, <2>1, <3>1, <3>2
  <2> QED BY <1>14, <1>15, <2>2
<1>25. IsToken(t[s])
  BY <1>15, <1>18, <1>23
<1>26. ~IsToken(t[i - 1]) /\ (j < n => ~IsToken(t[j + 1]))
  BY <1>3, <1>4, <1>19, <1>21, <1>22, <1>24, <1>25 DEF Hides
<1>27. s \in begun /\ e \in Ends(h, s, DOMAIN labels) /\ j \in Ends(h, i, DOMAIN labels) /\ i \in 1 .. Len(t)
  BY <1>0, <1>3, <1>6, <1>17
<1>28. Survives(put, labels)
  BY <1>3, <1>5, <1>17, <1>22, <1>23, <1>24, <1>26, <1>27, SeenInAToken
<1> QED BY <1>28

\* A sequence is a function on 1 .. m.
Listing(f, m) == f = [k \in 1 .. m |-> f[k]]
LEMMA ListingIs ==
  ASSUME NEW m \in Nat, NEW f, Listing(f, m)
  PROVE  f \in Seq({f[k] : k \in 1 .. m}) /\ Len(f) = m /\ DOMAIN f = 1 .. m
<1>1. PICK B : B = {f[k] : k \in 1 .. m}
  OBVIOUS
<1>2. f = [k \in 1 .. m |-> f[k]]
  BY DEF Listing
<1>3. f \in [1 .. m -> B]
  BY <1>1, <1>2
<1>4. f \in Seq(B) /\ Len(f) = m /\ DOMAIN f = 1 .. m
  BY <1>3
<1> QED BY <1>1, <1>4

\* And a text when nothing in it is a mark.
LEMMA ListingPieces ==
  ASSUME NEW m \in Nat, NEW f, Listing(f, m), \A k \in 1 .. m : ~Marked(f[k])
  PROVE  Pieces(f)
<1>1. PICK B : B = {f[k] : k \in 1 .. m}
  OBVIOUS
<1>2. f \in Seq(B) /\ Len(f) = m
  BY <1>1, ListingIs
<1>3. \A k \in 1 .. Len(f) : ~Marked(f[k])
  BY <1>2
<1> QED BY <1>2, <1>3, PiecesIs

\* A part of a text is a text.
LEMMA SlicePieces ==
  ASSUME NEW t, Pieces(t), NEW i \in 1 .. Len(t), NEW j \in i .. Len(t)
  PROVE  Pieces(SubSeq(t, i, j)) /\ Len(SubSeq(t, i, j)) = j - i + 1 /\ SubSeq(t, i, j)[1] = t[i]
<1>1. PICK A : t \in Seq(A) /\ Len(t) \in Nat /\ DOMAIN t = 1 .. Len(t) /\ \A k \in 1 .. Len(t) : ~Marked(t[k])
  BY PiecesAre
<1>2. i \in Nat /\ j \in Nat /\ i >= 1 /\ i <= j + 1 /\ j <= Len(t) /\ i <= j
  BY <1>1
<1>3. /\ SubSeq(t, i, j) \in Seq(A) /\ Len(SubSeq(t, i, j)) = j - i + 1
      /\ \A k \in 1 .. j - i + 1 : SubSeq(t, i, j)[k] = t[i + k - 1]
  BY <1>1, <1>2, SliceIs
<1>4. PICK s : s = SubSeq(t, i, j)
  OBVIOUS
<1>5. \A k \in 1 .. Len(s) : ~Marked(s[k])
  <2>1. ASSUME NEW k \in 1 .. j - i + 1 PROVE ~Marked(s[k])
    <3>1. i + k - 1 \in 1 .. Len(t)
      BY <1>1, <1>2
    <3>2. s[k] = t[i + k - 1]
      BY <1>3, <1>4
    <3> QED BY <1>1, <3>1, <3>2
  <2> QED BY <1>3, <1>4, <2>1
<1>6. Pieces(s)
  BY <1>3, <1>4, <1>5, PiecesIs
<1>7. s[1] = t[i]
  <2>1. 1 \in 1 .. j - i + 1 /\ i + 1 - 1 = i
    BY <1>2
  <2>2. s[1] = t[i + 1 - 1]
    BY <1>3, <1>4, <2>1
  <2> QED BY <2>1, <2>2
<1> QED BY <1>3, <1>4, <1>6, <1>7

\* A value without the blanks around it: nothing, or it does not begin with one.
Stripped(v) == Pieces(v) /\ (Len(v) = 0 \/ ~IsBlank(v[1]))
LEMMA StripIs ==
  ASSUME NEW v, Pieces(v) PROVE Stripped(Strip(v))
<1>1. PICK A : v \in Seq(A) /\ Len(v) \in Nat /\ DOMAIN v = 1 .. Len(v) /\ \A k \in 1 .. Len(v) : ~Marked(v[k])
  BY PiecesAre
<1>2. PICK kept : kept = {i \in DOMAIN v : ~IsBlank(v[i])}
  OBVIOUS
<1>3. CASE kept = {}
  <2>1. Strip(v) = <<>>
    BY <1>2, <1>3 DEF Strip
  <2>2. Pieces(<<>>) /\ Len(<<>>) = 0
    <3>1. <<>> \in Seq({}) /\ Len(<<>>) = 0
      OBVIOUS
    <3>2. \A k \in 1 .. Len(<<>>) : ~Marked(<<>>[k])
      BY <3>1
    <3> QED BY <3>1, <3>2, PiecesIs
  <2> QED BY <2>1, <2>2 DEF Stripped
<1>4. CASE kept # {}
  <2>1. Strip(v) = SubSeq(v, Min(kept), Max(kept))
    BY <1>2, <1>4 DEF Strip
  <2>2. PICK n \in Nat : n = Len(v)
    BY <1>1
  <2>3. kept \in SUBSET (0 .. n) /\ kept \in SUBSET Nat /\ kept \subseteq 1 .. n
    BY <1>1, <1>2, <2>2
  <2>4. PICK i, j : i = Min(kept) /\ j = Max(kept)
    OBVIOUS
  <2>5. i \in kept /\ \A x \in kept : i <= x
    BY <1>4, <2>3, <2>4, MinIs
  <2>6. j \in kept
    BY <1>4, <2>2, <2>3, <2>4, MaxIs
  <2>7. i \in 1 .. Len(v) /\ j \in i .. Len(v)
    BY <2>2, <2>3, <2>5, <2>6
  <2>8. Pieces(SubSeq(v, i, j)) /\ SubSeq(v, i, j)[1] = v[i]
    BY <2>7, SlicePieces
  <2>9. ~IsBlank(v[i])
    BY <1>2, <2>5
  <2> QED BY <2>1, <2>4, <2>8, <2>9 DEF Stripped
<1> QED BY <1>3, <1>4

\* What the engine may report.
Said == {[label |-> x[2], value |-> x[1]] : x \in LabelsOf}

\* The values to be replaced carry no mark, and none begins with a blank.
LEMMA ValuesStripped ==
  ASSUME NEW t, Pieces(t), NEW heard \in Seq(Said), NEW v \in DOMAIN LabelOf(t, heard)
  PROVE  Stripped(v)
<1>1. PICK e \in Entities(t, heard) : v = Strip(e.value)
  <2>1. DOMAIN LabelOf(t, heard) = {u \in {Strip(e.value) : e \in Entities(t, heard)} : Length(u) >= MinLen}
    BY DEF LabelOf
  <2> QED BY <2>1
<1>2. Len(t) \in Nat /\ DOMAIN t = 1 .. Len(t)
  BY PiecesAre
<1>3. CASE e \in Range(heard)
  <2>1. e \in Said
    BY <1>3 DEF Range
  <2>2. PICK x \in LabelsOf : e = [label |-> x[2], value |-> x[1]]
    BY <2>1 DEF Said
  <2>3. Pieces(e.value)
    BY <2>2, DetectionAssumption
  <2> QED BY <1>1, <2>3, StripIs
<1>4. ASSUME NEW u \in ParticleNames(t), e = [label |-> "person", value |-> u] PROVE Stripped(v)
  <2>1. PICK i \in DOMAIN t : u = SubSeq(t, i, i + 4) /\ i + 4 <= Len(t)
    BY DEF ParticleNames
  <2>2. i \in 1 .. Len(t) /\ i + 4 \in i .. Len(t)
    BY <1>2, <2>1
  <2>3. Pieces(e.value)
    BY <1>4, <2>1, <2>2, SlicePieces
  <2> QED BY <1>1, <2>3, StripIs
<1>5. CASE e \in DenyList
  BY <1>1, <1>5, DetectionAssumption, StripIs
<1>6. ASSUME NEW w \in Urls(t), e = [label |-> "url", value |-> SubSeq(t, w[1], w[2])] PROVE Stripped(v)
  <2>1. w[1] \in DOMAIN t /\ w[2] \in DOMAIN t /\ w[1] < w[2]
    BY DEF Urls
  <2>2. w[1] \in 1 .. Len(t) /\ w[2] \in w[1] .. Len(t)
    BY <1>2, <2>1
  <2>3. Pieces(e.value)
    BY <1>6, <2>2, SlicePieces
  <2> QED BY <1>1, <2>3, StripIs
<1> QED
  <2>1. \/ e \in Range(heard) \/ e \in {[label |-> "person", value |-> u] : u \in ParticleNames(t)}
        \/ e \in DenyList \/ e \in {[label |-> "url", value |-> SubSeq(t, w[1], w[2])] : w \in Urls(t)}
    BY <1>1 DEF Entities, Listed
  <2> QED BY <1>3, <1>4, <1>5, <1>6, <2>1

\* Which is what the pass over the marked text asks of them.
LEMMA ValuesPlain ==
  ASSUME NEW vs, \A v \in vs : Stripped(v) PROVE Plain(vs)
<1>1. ASSUME NEW v \in vs, NEW k \in DOMAIN v PROVE ~Marked(v[k])
  <2>1. Pieces(v)
    BY DEF Stripped
  <2> QED BY <2>1, PiecesAre
<1> QED BY <1>1 DEF Plain

\* What is said of a result: it restores the text, and nothing stays of what
\* has to go.
Cleared(r, t, vs) ==
  \E S \in SUBSET DOMAIN t :
    /\ Restores(r, t, S)
    /\ \A o \in MustGo(t, vs) : (o[1] .. o[2]) \cap Stays(r, t, S) = {}

\* So it is for a pass whose result the check lets go.
LEMMA PseudonymizedIs ==
  ASSUME NEW t, Pieces(t), NEW labels, Plain(DOMAIN labels), NEW put, put = Replaced(WithoutHosts(t), labels),
         ~Survives(put, labels)
  PROVE  Cleared(Back(put), t, DOMAIN labels)
<1>1. PICK h : h = WithoutHosts(t)
  OBVIOUS
<1>2. PICK last, begun, left, gone : Pass(h, DOMAIN labels, last, begun, left, gone)
  BY DEF Pass
<1>3. PICK at, b, r : at = Rising(left) /\ b = Ended(at, Len(h)) /\ r = Back(put)
  OBVIOUS
<1>4. Pseudonymized(t, h, labels, last, begun, left, gone, at, b, put, r)
  BY <1>1, <1>2, <1>3 DEF Pseudonymized
<1>5. PutBack(t, h, labels, last, begun, left, gone, at, b, put, r)
  BY <1>4, PutBackIs
<1>6. Restores(r, t, left) /\ left \in SUBSET (1 .. Len(t))
  BY <1>5, BackStands
<1>7. \A o \in MustGo(t, DOMAIN labels) : (o[1] .. o[2]) \cap Stays(r, t, left) = {}
  BY <1>4, NothingStays
<1>8. DOMAIN t = 1 .. Len(t)
  BY PiecesAre
<1> QED BY <1>3, <1>6, <1>7, <1>8 DEF Cleared

\* In a text of blanks stands no value.
LEMMA BlankIsClear ==
  ASSUME NEW t, Pieces(t), \A i \in DOMAIN t : IsBlank(t[i]), NEW vs, \A v \in vs : Stripped(v)
  PROVE  MustGo(t, vs) = {}
<1>1. PICK h : h = WithoutHosts(t)
  OBVIOUS
<1>2. Len(t) \in Nat /\ DOMAIN t = 1 .. Len(t)
  BY PiecesAre
<1>3. Plain(vs)
  BY ValuesPlain
<1>4. ASSUME NEW o \in Matches(t, vs) PROVE FALSE
  <2>1. PICK i, j : i = o[1] /\ j = o[2]
    OBVIOUS
  <2>2. i \in 1 .. Len(t) /\ j \in Ends(h, i, vs)
    BY <1>1, <1>2, <2>1 DEF Matches
  <2>3. j \in i .. Len(t) /\ SubSeq(h, i, j) \in vs /\ SubSeq(h, i, j) = SubSeq(t, i, j)
    <3>1. MatchIs(t, h, vs, i, j)
      BY <1>1, <1>3, <2>2, MatchPlain
    <3> QED BY <1>1, <1>3, <2>2, <3>1 DEF MatchIs
  <2>4. PICK s : s = SubSeq(t, i, j)
    OBVIOUS
  <2>5. Len(s) = j - i + 1 /\ s[1] = t[i]
    BY <2>2, <2>3, <2>4, SlicePieces
  <2>6. Stripped(s)
    BY <2>3, <2>4
  <2>7. Len(s) # 0
    BY <1>2, <2>2, <2>3, <2>5
  <2>8. IsBlank(s[1])
    BY <1>2, <2>2, <2>5
  <2> QED BY <2>6, <2>7, <2>8 DEF Stripped
<1> QED BY <1>4 DEF MustGo

\* The chunks of a text, as parts of it.
LEMMA ChunksAre ==
  ASSUME NEW t, Pieces(t), NEW c, c = ChunkText(t)
  PROVE  /\ Len(c) \in Nat /\ DOMAIN c = 1 .. Len(c) /\ Listing(c, Len(c))
         /\ \E b : PartsAt(c, t, b)
         /\ \A k \in 1 .. Len(c) : Pieces(c[k])
<1>1. PICK A : t \in Seq(A) /\ Len(t) \in Nat /\ DOMAIN t = 1 .. Len(t) /\ \A k \in 1 .. Len(t) : ~Marked(t[k])
  BY PiecesAre
<1>2. PICK n \in Nat : n = Len(t) /\ DOMAIN t = 1 .. n
  BY <1>1
<1>3. PICK last : last = [i \in 1 .. n |-> ChunkEnd(t, i)]
  OBVIOUS
<1>4. ASSUME NEW i \in 1 .. n PROVE ChunkEnd(t, i) \in Nat /\ i <= ChunkEnd(t, i)
  <2>1. PICK ends : ends = {j \in i .. Len(t) : j - i < MaxChars /\ (t[j] = P(Newline) \/ j = Len(t))}
    OBVIOUS
  <2>2. ends \in SUBSET (0 .. n) /\ \A x \in ends : x \in Nat /\ i <= x
    BY <1>2, <2>1
  <2>3. CASE ends = {}
    <3>1. ChunkEnd(t, i) = i + MaxChars - 1
      BY <2>1, <2>3 DEF ChunkEnd
    <3>2. MaxChars \in Nat /\ MaxChars # 0
      BY DetectionAssumption
    <3> QED BY <3>1, <3>2
  <2>4. CASE ends # {}
    <3>1. ChunkEnd(t, i) = Max(ends)
      BY <2>1, <2>4 DEF ChunkEnd
    <3>2. Max(ends) \in ends
      BY <2>2, <2>4, MaxIs
    <3> QED BY <2>2, <3>1, <3>2
  <2> QED BY <2>3, <2>4
<1>5. last \in [1 .. n -> Nat] /\ \A i \in 1 .. n : i <= last[i]
  BY <1>3, <1>4
<1>6. PICK S : S = Heads(last)
  OBVIOUS
<1>7. InParts(n, last, S)
  BY <1>5, <1>6, PartsFollow
<1>8. S \in SUBSET (1 .. Len(t)) /\ (Len(t) > 0 => 1 \in S)
  BY <1>2, <1>7 DEF InParts
<1>9. c = Parts(t, S)
  <2>1. [i \in DOMAIN t |-> ChunkEnd(t, i)] = last
    BY <1>2, <1>3
  <2> QED BY <1>6, <2>1 DEF ChunkText
<1>10. PICK at, b : at = Rising(S) /\ b = Ended(at, Len(t))
  OBVIOUS
<1>11. c \in Seq(Seq(A)) /\ PartsAt(c, t, b)
  BY <1>1, <1>8, <1>9, <1>10, PartsAre
<1>12. PICK m \in Nat : m = Len(c) /\ DOMAIN c = 1 .. m
  BY <1>11
<1>13. c = [k \in 1 .. m |-> c[k]]
  BY <1>11, <1>12
<1>14. ASSUME NEW k \in 1 .. m PROVE Pieces(c[k])
  <2>1. c[k] = SubSeq(t, b[k], b[k + 1] - 1) /\ Bounds(b, m, n)
    BY <1>2, <1>11, <1>12 DEF PartsAt
  <2>2. b[k] \in 1 .. n /\ b[k + 1] \in Nat /\ b[k] <= b[k + 1] - 1 /\ b[k + 1] - 1 \in 1 .. n
    BY <2>1, BoundsWithin
  <2>3. b[k] \in 1 .. Len(t) /\ b[k + 1] - 1 \in b[k] .. Len(t)
    BY <1>2, <2>2
  <2> QED BY <2>1, <2>3, SlicePieces
<1> QED BY <1>11, <1>12, <1>13, <1>14 DEF Listing

\* What the patterns leave is a text.
LEMMA DeterministicIs ==
  ASSUME NEW t, Pieces(t) PROVE Pieces(Deterministic(t))
<1>1. PICK n \in Nat : n = Len(t) /\ DOMAIN t = 1 .. n /\ \A k \in 1 .. n : ~Marked(t[k])
  BY PiecesAre
<1>2. PICK d : d = Deterministic(t)
  OBVIOUS
<1>3. d = [i \in 1 .. n |-> IF LabelAt(t, i) = "none" THEN t[i] ELSE Put(LabelAt(t, i), <<t[i]>>)]
  BY <1>1, <1>2 DEF Deterministic
<1>4. Listing(d, n)
  <2>1. d = [i \in 1 .. n |-> d[i]]
    BY <1>3, Zenon
  <2> QED BY <2>1 DEF Listing
<1>5. ASSUME NEW i \in 1 .. n PROVE ~Marked(d[i])
  <2>1. d[i] = IF LabelAt(t, i) = "none" THEN t[i] ELSE Put(LabelAt(t, i), <<t[i]>>)
    BY <1>3
  <2>2. ~Marked(Put(LabelAt(t, i), <<t[i]>>))
    BY DEF Put, Marked
  <2> QED BY <1>1, <2>1, <2>2
<1>6. Pieces(d)
  BY <1>4, <1>5, ListingPieces
<1> QED BY <1>2, <1>6

\* A list replaces by value, so what comes out stands for what went in.
LEMMA RedactedStands ==
  ASSUME NEW t, Pieces(t), NEW es PROVE Pieces(Redacted(t, es)) /\ Stands(Redacted(t, es), t)
  BY ReplacedStands DEF Redacted

\* A call to the engine.
IsCall(c) ==
  /\ c = [status |-> c.status, found |-> c.found, text |-> c.text]
  /\ c.found \in Seq(Said) /\ Pieces(c.text)
CallsOk(cs) == \E m \in Nat : Listing(cs, m) /\ \A k \in 1 .. m : IsCall(cs[k])
\* The calls for a text: one for each chunk, whose result stands for it.
AnswerFor(cs, chunks) ==
  /\ DOMAIN cs = DOMAIN chunks
  /\ \A k \in DOMAIN chunks :
       Stands(cs[k].text, chunks[k]) /\ (cs[k].status # "done" => cs[k].text = chunks[k])
DetInv ==
  /\ text \in Text /\ Pieces(body) /\ CallsOk(calls)
  /\ pc = "detect" => AnswerFor(calls, ChunkText(body))
  /\ OnlyValuesGo

\* Before anything was done.
LEMMA DetInitially == DInit => DetInv
<1> SUFFICES ASSUME DInit PROVE DetInv
  OBVIOUS
<1>1. text \in Text /\ pc = "scan" /\ body = <<>> /\ calls = <<>>
  BY DEF DInit
<1>2. <<>> \in Seq({}) /\ Len(<<>>) = 0
  OBVIOUS
<1>3. Pieces(body)
  <2>1. \A k \in 1 .. Len(<<>>) : ~Marked(<<>>[k])
    BY <1>2
  <2> QED BY <1>1, <1>2, <2>1, PiecesIs
<1>4. CallsOk(calls)
  <2>1. Listing(<<>>, 0) /\ 0 \in Nat
    BY DEF Listing
  <2> QED BY <1>1, <2>1 DEF CallsOk
<1>5. OnlyValuesGo
  BY <1>1 DEF OnlyValuesGo
<1> QED BY <1>1, <1>3, <1>4, <1>5 DEF DetInv

\* All that was found in the chunks was said by the engine.
LEMMA JoinedFound ==
  ASSUME NEW cs, CallsOk(cs) PROVE Joined([k \in DOMAIN cs |-> cs[k].found]) \in Seq(Said)
<1>1. PICK m \in Nat : Listing(cs, m) /\ \A k \in 1 .. m : IsCall(cs[k])
  BY DEF CallsOk
<1>2. DOMAIN cs = 1 .. m
  BY <1>1, ListingIs
<1>3. PICK f : f = [k \in DOMAIN cs |-> cs[k].found]
  OBVIOUS
<1>4. f \in Seq(Seq(Said)) /\ Len(f) \in Nat
  <2>1. \A k \in 1 .. m : cs[k].found \in Seq(Said)
    BY <1>1 DEF IsCall
  <2> QED BY <1>2, <1>3, <2>1
<1>5. PICK u : /\ \A k \in 0 .. Len(f) : u[k] \in Seq(Said)
               /\ Joined(f) = u[Len(f)]
  BY <1>4, JoinedIs
<1>6. Joined(f) \in Seq(Said)
  BY <1>4, <1>5
<1> QED BY <1>3, <1>6

\* The values to be replaced, in a state.
LEMMA LabelsStripped ==
  ASSUME Pieces(body), CallsOk(calls) PROVE \A v \in DOMAIN Labels : Stripped(v)
<1>1. PICK heard : heard = Joined([k \in DOMAIN calls |-> calls[k].found])
  OBVIOUS
<1>2. heard \in Seq(Said)
  BY <1>1, JoinedFound
<1>3. Labels = LabelOf(body, heard)
  BY <1>1 DEF Labels
<1> QED BY <1>2, <1>3, ValuesStripped

\* The patterns and the chunks; or nothing to look at, and the text comes out.
LEMMA ScanKeeps == ASSUME DetInv, Scan PROVE DetInv'
<1>1. text \in Text /\ Pieces(body) /\ CallsOk(calls)
  BY DEF DetInv
<1>2. Pieces(text)
  BY <1>1, DetectionAssumption
<1>3. PICK t : /\ t = IF reversible THEN Deterministic(text) ELSE Redacted(Deterministic(text), Listed(Deterministic(text)))
               /\ body' = t
               /\ IF \A i \in DOMAIN t : IsBlank(t[i])
                  THEN pc' = "done" /\ out' = t /\ UNCHANGED calls
                  ELSE pc' = "detect" /\ calls' = [k \in DOMAIN ChunkText(t) |-> [Waiting EXCEPT !.text = ChunkText(t)[k]]]
                       /\ UNCHANGED out
  BY DEF Scan
<1>4. text' = text /\ reversible' = reversible
  BY DEF Scan
<1>5. Pieces(t)
  <2>1. Pieces(Deterministic(text))
    BY <1>2, DeterministicIs
  <2>2. Pieces(Redacted(Deterministic(text), Listed(Deterministic(text))))
    BY <2>1, RedactedStands
  <2> QED BY <1>3, <2>1, <2>2
<1>6. CASE \A i \in DOMAIN t : IsBlank(t[i])
  <2>1. pc' = "done" /\ out' = t /\ calls' = calls /\ body' = t
    BY <1>3, <1>6
  <2>2. CallsOk(calls') /\ Pieces(body')
    BY <1>1, <1>5, <2>1
  <2>3. \A v \in DOMAIN Labels' : Stripped(v)
    <3>1. PICK heard : heard = Joined([k \in DOMAIN calls |-> calls[k].found])
      OBVIOUS
    <3>2. heard \in Seq(Said)
      BY <1>1, <3>1, JoinedFound
    <3>3. Labels' = LabelOf(t, heard)
      BY <2>1, <3>1 DEF Labels
    <3> QED BY <1>5, <3>2, <3>3, ValuesStripped
  <2>4. MustGo(t, DOMAIN Labels') = {}
    BY <1>5, <1>6, <2>3, BlankIsClear
  <2>5. PICK A : t \in Seq(A) /\ DOMAIN t = 1 .. Len(t)
    BY <1>5, PiecesAre
  <2>6. PICK b : StandAt(t, t, b)
    BY <2>5, ItselfStands DEF Stands
  <2>7. PICK S : S = PartStarts(b, Len(t))
    OBVIOUS
  <2>8. S \in SUBSET (1 .. Len(t)) /\ Restores(t, t, S)
    BY <2>5, <2>6, <2>7, RestoresAt
  <2>9. OnlyValuesGo'
    BY <2>1, <2>4, <2>5, <2>8 DEF OnlyValuesGo
  <2> QED BY <1>1, <1>4, <2>1, <2>2, <2>9 DEF DetInv
<1>7. CASE ~\A i \in DOMAIN t : IsBlank(t[i])
  <2>1. PICK c : c = ChunkText(t)
    OBVIOUS
  <2>2. pc' = "detect" /\ calls' = [k \in DOMAIN c |-> [Waiting EXCEPT !.text = c[k]]] /\ body' = t
    BY <1>3, <1>7, <2>1
  <2>3. PICK m \in Nat : m = Len(c) /\ DOMAIN c = 1 .. m /\ \A k \in 1 .. m : Pieces(c[k])
    BY <1>5, <2>1, ChunksAre
  <2>4. PICK cs : cs = calls'
    OBVIOUS
  <2>5. cs = [k \in 1 .. m |-> [Waiting EXCEPT !.text = c[k]]]
    BY <2>2, <2>3, <2>4
  <2>6. Listing(cs, m)
    <3>1. cs = [k \in 1 .. m |-> cs[k]]
      BY <2>5, Zenon
    <3> QED BY <3>1 DEF Listing
  <2>7. ASSUME NEW k \in 1 .. m
        PROVE  /\ cs[k] = [status |-> "waiting", found |-> <<>>, text |-> c[k]]
               /\ IsCall(cs[k]) /\ Stands(cs[k].text, c[k]) /\ cs[k].text = c[k]
    <3>1. cs[k] = [status |-> "waiting", found |-> <<>>, text |-> c[k]]
      BY <2>5 DEF Waiting
    <3>2. <<>> \in Seq(Said)
      OBVIOUS
    <3>3. cs[k].status = "waiting" /\ cs[k].found = <<>> /\ cs[k].text = c[k]
      BY <3>1
    <3>4. IsCall(cs[k])
      BY <2>3, <3>1, <3>2, <3>3 DEF IsCall
    <3>5. Stands(c[k], c[k])
      <4>1. Pieces(c[k])
        BY <2>3
      <4> QED BY <4>1, PiecesAre, ItselfStands
    <3> QED BY <3>1, <3>3, <3>4, <3>5
  <2>8. CallsOk(cs)
    BY <2>6, <2>7 DEF CallsOk
  <2>9. AnswerFor(cs, c)
    <3>1. DOMAIN cs = 1 .. m
      BY <2>6, ListingIs
    <3> QED BY <2>3, <2>7, <3>1 DEF AnswerFor
  <2>10. OnlyValuesGo'
    BY <2>2 DEF OnlyValuesGo
  <2> QED BY <1>1, <1>4, <1>5, <2>1, <2>2, <2>4, <2>8, <2>9, <2>10 DEF DetInv
<1> QED BY <1>6, <1>7

\* One call changes, and stays a call that answers for its chunk.
LEMMA OneCall ==
  ASSUME NEW cs, CallsOk(cs), NEW k \in DOMAIN cs, NEW c, IsCall(c), NEW ds, ds = [cs EXCEPT ![k] = c], NEW chunks
  PROVE  /\ CallsOk(ds)
         /\ /\ AnswerFor(cs, chunks)
            /\ Stands(c.text, chunks[k]) /\ (c.status # "done" => c.text = chunks[k])
            => AnswerFor(ds, chunks)
<1>1. PICK m \in Nat : Listing(cs, m) /\ \A x \in 1 .. m : IsCall(cs[x])
  BY DEF CallsOk
<1>2. DOMAIN cs = 1 .. m
  BY <1>1, ListingIs
<1>3. DOMAIN ds = 1 .. m /\ \A x \in 1 .. m : ds[x] = IF x = k THEN c ELSE cs[x]
  BY <1>2
<1>4. Listing(ds, m)
  <2>1. ds = [x \in 1 .. m |-> ds[x]]
    <3>1. ds = [x \in DOMAIN cs |-> IF x = k THEN c ELSE cs[x]]
      OBVIOUS
    <3> QED BY <1>2, <3>1, Zenon
  <2> QED BY <2>1 DEF Listing
<1>5. CallsOk(ds)
  BY <1>1, <1>3, <1>4 DEF CallsOk
<1>6. ASSUME AnswerFor(cs, chunks), Stands(c.text, chunks[k]), c.status # "done" => c.text = chunks[k]
      PROVE  AnswerFor(ds, chunks)
  <2>1. DOMAIN ds = DOMAIN chunks
    BY <1>2, <1>3, <1>6 DEF AnswerFor
  <2>2. ASSUME NEW x \in DOMAIN chunks
        PROVE  Stands(ds[x].text, chunks[x]) /\ (ds[x].status # "done" => ds[x].text = chunks[x])
    <3>1. x \in 1 .. m
      BY <1>3, <2>1
    <3>2. CASE x = k
      BY <1>3, <1>6, <3>1, <3>2
    <3>3. CASE x # k
      <4>1. ds[x] = cs[x]
        BY <1>3, <3>1, <3>3
      <4> QED BY <1>6, <4>1 DEF AnswerFor
    <3> QED BY <3>2, <3>3
  <2> QED BY <2>1, <2>2 DEF AnswerFor
<1> QED BY <1>5, <1>6

\* With another status, but not done, a call is as good.
LEMMA OtherStatus ==
  ASSUME DetInv, pc = "detect", NEW k \in DOMAIN calls, NEW s, s # "done", calls[k].status # "done",
         calls' = [calls EXCEPT ![k].status = s], UNCHANGED <<text, reversible, pc, body, tries, out>>
  PROVE  DetInv'
<1>1. text \in Text /\ Pieces(body) /\ CallsOk(calls) /\ AnswerFor(calls, ChunkText(body))
  BY DEF DetInv
<1>2. IsCall(calls[k])
  <2>1. PICK m \in Nat : Listing(calls, m) /\ \A x \in 1 .. m : IsCall(calls[x])
    BY <1>1 DEF CallsOk
  <2>2. DOMAIN calls = 1 .. m
    BY <2>1, ListingIs
  <2> QED BY <2>1, <2>2
<1>3. PICK f, w : f = calls[k].found /\ w = calls[k].text
  OBVIOUS
<1>4. PICK c : c = [status |-> s, found |-> f, text |-> w]
  OBVIOUS
<1>5. c.status = s /\ c.found = f /\ c.text = w
  BY <1>4
<1>6. [calls[k] EXCEPT !.status = s] = c
  <2>1. calls[k] = [status |-> calls[k].status, found |-> f, text |-> w]
    BY <1>2, <1>3 DEF IsCall
  <2> QED BY <1>4, <2>1
<1>7. IsCall(c)
  <2>1. f \in Seq(Said) /\ Pieces(w)
    BY <1>2, <1>3 DEF IsCall
  <2> QED BY <1>4, <1>5, <2>1 DEF IsCall
<1>8. calls' = [calls EXCEPT ![k] = c]
  BY <1>6
<1>9. PICK chunks : chunks = ChunkText(body)
  OBVIOUS
<1>10. Stands(c.text, chunks[k]) /\ c.text = chunks[k]
  <2>1. k \in DOMAIN chunks
    BY <1>1, <1>9 DEF AnswerFor
  <2> QED BY <1>1, <1>3, <1>5, <1>9, <2>1 DEF AnswerFor
<1>11. PICK ds : ds = calls'
  OBVIOUS
<1>12. CallsOk(ds) /\ AnswerFor(ds, chunks)
  <2>1. AnswerFor(calls, chunks) /\ ds = [calls EXCEPT ![k] = c]
    BY <1>1, <1>8, <1>9, <1>11
  <2> QED BY <1>1, <1>7, <1>10, <2>1, OneCall
<1>13. OnlyValuesGo'
  BY DEF OnlyValuesGo
<1> QED BY <1>1, <1>9, <1>11, <1>12, <1>13 DEF DetInv

\* A chunk is given to the engine.
LEMMA CallKeeps == ASSUME DetInv, NEW k \in DOMAIN calls, Call(k) PROVE DetInv'
<1>1. pc = "detect" /\ calls[k].status = "waiting"
  BY DEF Call, With
<1>2. calls' = [calls EXCEPT ![k].status = "called"] /\ UNCHANGED <<text, reversible, pc, body, tries, out>>
  BY DEF Call
<1> QED BY <1>1, <1>2, OtherStatus

\* The engine fails on a chunk.
LEMMA CallFailsKeeps == ASSUME DetInv, NEW k \in DOMAIN calls, CallFails(k) PROVE DetInv'
<1>1. pc = "detect" /\ calls[k].status = "called"
  BY DEF CallFails, With
<1>2. calls' = [calls EXCEPT ![k].status = "failed"] /\ UNCHANGED <<text, reversible, pc, body, tries, out>>
  BY DEF CallFails
<1> QED BY <1>1, <1>2, OtherStatus

\* The engine answers for a chunk.
LEMMA AnswerKeeps ==
  ASSUME DetInv, NEW k \in DOMAIN calls, NEW es \in Reports(calls[k].text), Answer(k, es) PROVE DetInv'
<1>1. text \in Text /\ Pieces(body) /\ CallsOk(calls) /\ (pc = "detect" => AnswerFor(calls, ChunkText(body)))
  BY DEF DetInv
<1>2. pc = "detect" /\ calls[k].status = "called" /\ UNCHANGED <<text, reversible, pc, body, tries, out>>
  BY DEF Answer, With
<1>3. IsCall(calls[k])
  <2>1. PICK m \in Nat : Listing(calls, m) /\ \A x \in 1 .. m : IsCall(calls[x])
    BY <1>1 DEF CallsOk
  <2>2. DOMAIN calls = 1 .. m
    BY <2>1, ListingIs
  <2> QED BY <2>1, <2>2
<1>4. PICK w : w = calls[k].text /\ Pieces(w)
  BY <1>3 DEF IsCall
<1>5. PICK q : q = IF reversible THEN w ELSE Redacted(w, Range(es))
  OBVIOUS
<1>6. PICK c : c = [status |-> "done", found |-> es, text |-> q]
  OBVIOUS
<1>7. calls' = [calls EXCEPT ![k] = c]
  BY <1>4, <1>5, <1>6 DEF Answer
<1>8. es \in Seq(Said)
  <2>1. PICK E : E = {[label |-> x[2], value |-> x[1]] : x \in {y \in LabelsOf : Occurs(w, Strip(y[1]))}}
    OBVIOUS
  <2>2. E \subseteq Said
    BY <2>1 DEF Said
  <2>3. es \in {<<>>} \cup {<<e>> : e \in E} \cup (E \X E)
    BY <1>4, <2>1 DEF Reports
  <2>4. CASE es = <<>>
    BY <2>4
  <2>5. ASSUME NEW e \in E, es = <<e>> PROVE es \in Seq(Said)
    BY <2>2, <2>5
  <2>6. CASE es \in E \X E
    <3>1. PICK e \in E, f \in E : es = <<e, f>>
      BY <2>6
    <3> QED BY <2>2, <3>1
  <2> QED BY <2>3, <2>4, <2>5, <2>6
<1>9. PICK chunks : chunks = ChunkText(body)
  OBVIOUS
<1>10. w = chunks[k] /\ AnswerFor(calls, chunks)
  <2>1. AnswerFor(calls, chunks)
    BY <1>1, <1>2, <1>9
  <2>2. k \in DOMAIN chunks
    BY <2>1 DEF AnswerFor
  <2> QED BY <1>2, <1>4, <2>1, <2>2 DEF AnswerFor
<1>11. Pieces(q) /\ Stands(q, w)
  <2>1. Stands(w, w)
    BY <1>4, PiecesAre, ItselfStands
  <2>2. Pieces(Redacted(w, Range(es))) /\ Stands(Redacted(w, Range(es)), w)
    BY <1>4, RedactedStands
  <2> QED BY <1>4, <1>5, <2>1, <2>2
<1>12. c.status = "done" /\ c.found = es /\ c.text = q
  BY <1>6
<1>13. IsCall(c)
  BY <1>6, <1>8, <1>11, <1>12 DEF IsCall
<1>14. PICK ds : ds = calls'
  OBVIOUS
<1>15. CallsOk(ds) /\ AnswerFor(ds, chunks)
  <2>1. ds = [calls EXCEPT ![k] = c] /\ Stands(c.text, chunks[k]) /\ (c.status # "done" => c.text = chunks[k])
    BY <1>7, <1>10, <1>11, <1>12, <1>14
  <2> QED BY <1>1, <1>10, <1>13, <2>1, OneCall
<1>16. OnlyValuesGo'
  BY <1>2 DEF OnlyValuesGo
<1> QED BY <1>1, <1>2, <1>9, <1>14, <1>15, <1>16 DEF DetInv

\* A text that failed is done again, or given up.
LEMMA EngineErrorKeeps == ASSUME DetInv, EngineError PROVE DetInv'
<1>1. text \in Text /\ Pieces(body)
  BY DEF DetInv
<1>2. calls' = <<>> /\ pc' \in {"scan", "failed"} /\ text' = text /\ body' = body
  BY DEF EngineError
<1>3. CallsOk(calls')
  <2>1. Listing(<<>>, 0) /\ 0 \in Nat
    BY DEF Listing
  <2> QED BY <1>2, <2>1 DEF CallsOk
<1>4. OnlyValuesGo'
  BY <1>2 DEF OnlyValuesGo
<1> QED BY <1>1, <1>2, <1>3, <1>4 DEF DetInv

\* The chunks' texts are joined: together they stand for the text.
LEMMA RedactKeeps == ASSUME DetInv, Redact PROVE DetInv'
<1>1. text \in Text /\ Pieces(body) /\ CallsOk(calls) /\ (pc = "detect" => AnswerFor(calls, ChunkText(body)))
  BY DEF DetInv
<1>2. pc = "detect" /\ ~reversible /\ pc' = "done" /\ UNCHANGED <<text, reversible, body, calls, tries>>
  BY DEF Redact, AllDone
<1>3. PICK rs : rs = [k \in DOMAIN calls |-> calls[k].text]
  OBVIOUS
<1>4. out' = Joined(rs)
  BY <1>3 DEF Redact
<1>5. PICK chunks : chunks = ChunkText(body)
  OBVIOUS
<1>6. AnswerFor(calls, chunks)
  BY <1>1, <1>2, <1>5
<1>7. PICK m \in Nat : DOMAIN calls = 1 .. m /\ \A x \in 1 .. m : IsCall(calls[x])
  BY <1>1, ListingIs DEF CallsOk
<1>8. rs = [k \in 1 .. m |-> calls[k].text]
  BY <1>3, <1>7
<1>9. \A k \in 1 .. m : rs[k] = calls[k].text /\ Pieces(rs[k])
  BY <1>7, <1>8 DEF IsCall
<1>10. PICK B : B = UNION {{rs[k][x] : x \in DOMAIN rs[k]} : k \in 1 .. m}
  OBVIOUS
<1>11. ASSUME NEW k \in 1 .. m PROVE rs[k] \in Seq(B)
  <2>1. PICK w, C : w = rs[k] /\ C = {w[x] : x \in DOMAIN w}
    OBVIOUS
  <2>2. w \in Seq(C)
    <3>1. Pieces(w)
      BY <1>9, <2>1
    <3> QED BY <2>1, <3>1 DEF Pieces
  <2>3. C \subseteq B
    BY <1>10, <2>1
  <2> QED BY <2>1, <2>2, <2>3
<1>12. rs \in Seq(Seq(B)) /\ Len(rs) = m
  <2>1. rs \in [1 .. m -> Seq(B)]
    BY <1>8, <1>9, <1>11
  <2> QED BY <2>1
<1>13. PICK b : PartsAt(chunks, body, b) /\ DOMAIN chunks = 1 .. Len(chunks) /\ Len(chunks) \in Nat
  BY <1>1, <1>5, ChunksAre
<1>14. Len(chunks) = m
  <2>1. 1 .. Len(chunks) = 1 .. m
    BY <1>6, <1>7, <1>13 DEF AnswerFor
  <2>2. PICK n \in Nat : n = Len(chunks) /\ 1 .. n = 1 .. m
    BY <1>13, <2>1
  <2>3. ~(n < m)
    <3>1. n < m => m \in 1 .. m
      OBVIOUS
    <3> QED BY <2>2, <3>1
  <2>4. ~(m < n)
    <3>1. m < n => n \in 1 .. n
      OBVIOUS
    <3> QED BY <2>2, <3>1
  <2> QED BY <2>2, <2>3, <2>4
<1>15. Bounds(b, Len(rs), Len(body))
  BY <1>12, <1>13, <1>14 DEF PartsAt
<1>16. \A k \in 1 .. Len(rs) : Stands(rs[k], SubSeq(body, b[k], b[k + 1] - 1))
  <2>1. ASSUME NEW k \in 1 .. m PROVE Stands(rs[k], SubSeq(body, b[k], b[k + 1] - 1))
    <3>1. chunks[k] = SubSeq(body, b[k], b[k + 1] - 1)
      BY <1>13, <1>14 DEF PartsAt
    <3>2. k \in DOMAIN chunks
      BY <1>13, <1>14
    <3>3. Stands(calls[k].text, chunks[k])
      BY <1>6, <3>2 DEF AnswerFor
    <3> QED BY <1>9, <3>1, <3>3
  <2> QED BY <1>12, <2>1
<1>17. PICK A : body \in Seq(A) /\ DOMAIN body = 1 .. Len(body)
  BY <1>1, PiecesAre
<1>18. PICK r : r = Joined(rs)
  OBVIOUS
<1>19. Stands(r, body)
  BY <1>12, <1>15, <1>16, <1>17, <1>18, JoinedStands
<1>20. r \in Seq(B)
  <2>1. PICK u : /\ \A k \in 0 .. Len(rs) : u[k] \in Seq(B)
                 /\ Joined(rs) = u[Len(rs)]
    BY <1>12, JoinedIs
  <2> QED BY <1>12, <1>18, <2>1
<1>21. PICK c : StandAt(r, body, c)
  BY <1>19 DEF Stands
<1>22. PICK S : S = PartStarts(c, Len(r))
  OBVIOUS
<1>23. S \in SUBSET (1 .. Len(body)) /\ Restores(r, body, S)
  BY <1>17, <1>20, <1>21, <1>22, RestoresAt
<1>24. OnlyValuesGo'
  BY <1>2, <1>4, <1>17, <1>18, <1>23 DEF OnlyValuesGo
<1> QED BY <1>1, <1>2, <1>24 DEF DetInv

\* The values are replaced, unless the check refuses the text.
LEMMA PseudonymizeKeeps == ASSUME DetInv, Pseudonymize PROVE DetInv'
<1>1. text \in Text /\ Pieces(body) /\ CallsOk(calls)
  BY DEF DetInv
<1>2. UNCHANGED <<text, reversible, body, calls, tries>> /\ Labels' = Labels
  BY DEF Pseudonymize, Labels
<1>3. PICK put : put = Replaced(WithoutHosts(body), Labels)
  OBVIOUS
<1>4. IF Survives(put, Labels) THEN pc' = "refused" /\ UNCHANGED out ELSE pc' = "done" /\ out' = Back(put)
  BY <1>3 DEF Pseudonymize
<1>5. CASE Survives(put, Labels)
  <2>1. OnlyValuesGo'
    BY <1>4, <1>5 DEF OnlyValuesGo
  <2> QED BY <1>1, <1>2, <1>4, <1>5, <2>1 DEF DetInv
<1>6. CASE ~Survives(put, Labels)
  <2>1. Plain(DOMAIN Labels)
    BY <1>1, LabelsStripped, ValuesPlain
  <2>2. PICK labels : labels = Labels
    OBVIOUS
  <2>3. Cleared(Back(put), body, DOMAIN labels)
    BY <1>1, <1>3, <1>6, <2>1, <2>2, PseudonymizedIs
  <2>4. OnlyValuesGo'
    BY <1>2, <1>4, <1>6, <2>2, <2>3 DEF OnlyValuesGo, Cleared
  <2> QED BY <1>1, <1>2, <1>4, <1>6, <2>4 DEF DetInv
<1> QED BY <1>5, <1>6

\* The inductive invariant of the detection of a text.
LEMMA DetInvariant == DSpec => []DetInv
<1>1. ASSUME DetInv, [DNext]_dvars PROVE DetInv'
  <2>1. CASE Scan
    BY <1>1, <2>1, ScanKeeps
  <2>2. CASE EngineError
    BY <1>1, <2>2, EngineErrorKeeps
  <2>3. CASE Redact
    BY <1>1, <2>3, RedactKeeps
  <2>4. CASE Pseudonymize
    BY <1>1, <2>4, PseudonymizeKeeps
  <2>5. ASSUME NEW k \in DOMAIN calls, Call(k) PROVE DetInv'
    BY <1>1, <2>5, CallKeeps
  <2>6. ASSUME NEW k \in DOMAIN calls, CallFails(k) PROVE DetInv'
    BY <1>1, <2>6, CallFailsKeeps
  <2>7. ASSUME NEW k \in DOMAIN calls, NEW es \in Reports(calls[k].text), Answer(k, es) PROVE DetInv'
    BY <1>1, <2>7, AnswerKeeps
  <2>8. CASE UNCHANGED dvars
    <3>1. UNCHANGED <<text, reversible, pc, body, calls, out>> /\ Labels' = Labels
      BY <2>8 DEF dvars, Labels
    <3>2. OnlyValuesGo'
      BY <1>1, <3>1 DEF DetInv, OnlyValuesGo
    <3> QED BY <1>1, <3>1, <3>2 DEF DetInv
  <2> QED BY <1>1, <2>1, <2>2, <2>3, <2>4, <2>5, <2>6, <2>7, <2>8 DEF DNext
<1> QED BY <1>1, DetInitially, PTL DEF DSpec

\* Only values go (OnlyValuesGo): for any text, any lists and whatever the
\* engine reports of the chunks, in whichever order they answer, fail and are
\* done again, what comes out is the text with values replaced and nothing
\* else, and with the reversible driver no piece is left of a place where a
\* value stands, crossing values and what a token hides aside.
THEOREM OnlyValuesLeave == DSpec => []OnlyValuesGo
<1>1. DetInv => OnlyValuesGo
  BY DEF DetInv
<1> QED BY <1>1, DetInvariant, PTL
=============================================================================
