----------------------------- MODULE RevealProofs -----------------------------
(***************************************************************************)
(* Pseudonyms and their reveal, for any number of documents, workers, keys,*)
(* rotations, deletions, grants and administrators.                        *)
(***************************************************************************)
EXTENDS Reveal, FiniteSetTheorems, TLAPS

KeyRow == [type : Type, status : {"active", "retired"}]
Row    == [key : Key, sealed : Key, plain : Spelling]
Tokens == {Token(v, k) : v \in Spelling, k \in Key}
Piece  == SourceSpans \cup {Span("defused", s.what, s.key) : s \in SourceSpans} \cup Tokens

\* The vault has a key of this type under this number.
HasKey(k, type) == k \in DOMAIN vault /\ vault[k].type = type

\* What stands in a text where the source has o.
Mirrors(a, o) ==
  \/ a = o /\ o.kind # "token"
  \/ o.kind = "token" /\ a.kind = "defused"
  \/ o.kind = "value" /\ \E k \in Key : HasKey(k, TypeOf[o.what]) /\ a = Token(o.what, k)

TextMirrors(text, d) ==
  /\ text \in Seq(Piece) /\ Len(text) = Len(SourceText[d])
  /\ \A i \in 1 .. Len(text) : Mirrors(text[i], SourceText[d][i])

\* A token some worker made, and a row that opens it.
Genuine(p) == \E v \in Spelling, k \in Key : HasKey(k, TypeOf[v]) /\ p = Token(v, k)
IsRowOf(m, p) ==
  /\ m \in Row /\ m.key = m.sealed /\ m.key \in DOMAIN vault
  /\ p.what = <<TypeOf[m.plain], NormOf[m.plain]>>

Store(f) == \A p \in DOMAIN f : Genuine(p) /\ IsRowOf(f[p], p)

-----------------------------------------------------------------------------
VaultTyped == vault \in Seq(KeyRow) /\ Len(vault) <= MaxKeys

TxTyped(t) ==
  /\ DOMAIN t = DOMAIN Idle
  /\ t.pc \in {"idle", "scan", "mint", "put", "register"}
  /\ t.rest \in Seq(Piece) /\ t.out \in Seq(Piece)
  /\ t.pc = "idle" => t = Idle
  /\ Store(t.puts)

\* A worker has a prefix of the source behind it and the rest before it.
Splits(out, rest, d) ==
  /\ Len(out) + Len(rest) = Len(SourceText[d])
  /\ \A i \in 1 .. Len(out) : Mirrors(out[i], SourceText[d][i])
  /\ \A i \in 1 .. Len(rest) : Mirrors(rest[i], SourceText[d][Len(out) + i])

InStep(t) ==
  t.pc # "idle" =>
    /\ t.doc \in Doc /\ Splits(t.out, t.rest, t.doc)
    /\ t.pc \in {"mint", "put"} => t.rest # <<>> /\ Head(t.rest).kind = "value"
    /\ t.pc = "put" => HasKey(t.key, TypeOf[Head(t.rest).what])
    /\ t.pc = "register" => t.rest = <<>>

Workers == DOMAIN tx = Worker /\ \A w \in Worker : TxTyped(tx[w]) /\ InStep(tx[w])

Registers == registry \subseteq Doc \X Tokens /\ \A r \in registry : Genuine(r[2])

Delivered ==
  /\ texts \in [Doc -> Seq(Piece)]
  /\ \A d \in Doc : texts[d] # <<>> => TextMirrors(texts[d], d)

RotationTyped ==
  /\ DOMAIN rotation = DOMAIN NoRotate
  /\ rotation.pc \in {"idle", "retire", "mint", "deposit", "select", "commit"}
  /\ rotation.pc # "idle" => rotation.type \in Type
  /\ rotation.pc \in {"deposit", "select", "commit"} => HasKey(rotation.new, rotation.type)

\* The keys of a type beside an active one: one is added only by a rotation,
\* when it retires what was active, and a rotation that has yet to is counted.
KeysOf(type)  == {k \in DOMAIN vault : vault[k].type = type}
Surplus(type) == Cardinality(KeysOf(type)) - (IF ActiveFor(type) = {} THEN 0 ELSE 1)
KeysCounted ==
  /\ done \in [run : Nat, rotate : Nat, delete : Nat]
  /\ \A type \in Type : Surplus(type) + (IF rotation.pc = "retire" THEN 1 ELSE 0) <= done.rotate

PseudonymsInv ==
  /\ VaultTyped /\ Workers /\ Store(mappings) /\ Registers /\ Delivered
  /\ RotationTyped /\ KeysCounted

-----------------------------------------------------------------------------
(* The vault only grows, and what was so by its keys stays so. *)

Kept == \A k \in DOMAIN vault : k \in DOMAIN vault' /\ vault'[k].type = vault[k].type

LEMMA MeaningKept ==
  ASSUME Kept
  PROVE  /\ \A k, type : HasKey(k, type) => HasKey(k, type)'
         /\ \A a, o : Mirrors(a, o) => Mirrors(a, o)'
         /\ \A p : Genuine(p) => Genuine(p)'
         /\ \A m, p : IsRowOf(m, p) => IsRowOf(m, p)'
         /\ \A f : Store(f) => Store(f)'
         /\ \A t : TxTyped(t) /\ InStep(t) => (TxTyped(t) /\ InStep(t))'
         /\ \A text, d : TextMirrors(text, d) => TextMirrors(text, d)'
<1>1. \A k, type : HasKey(k, type) => HasKey(k, type)'
  BY DEF Kept, HasKey
<1>2. \A a, o : Mirrors(a, o) => Mirrors(a, o)'
  BY <1>1 DEF Mirrors
<1>3. \A p : Genuine(p) => Genuine(p)'
  BY <1>1 DEF Genuine
<1>4. \A m, p : IsRowOf(m, p) => IsRowOf(m, p)'
  BY DEF Kept, IsRowOf
<1>5. \A f : Store(f) => Store(f)'
  BY <1>3, <1>4 DEF Store
<1>6. \A t : TxTyped(t) => TxTyped(t)'
  BY <1>5 DEF TxTyped
<1>7. \A t : InStep(t) => InStep(t)'
  BY <1>1, <1>2 DEF InStep, Splits
<1>8. \A text, d : TextMirrors(text, d) => TextMirrors(text, d)'
  BY <1>2 DEF TextMirrors
<1> QED BY <1>1, <1>2, <1>3, <1>4, <1>5, <1>6, <1>7, <1>8

\* What _mint_or_adopt_winner leaves: an active key of the type, the one it
\* returns, and one key more only if there was none active.
LEMMA Minting ==
  ASSUME VaultTyped, NEW type \in Type, NEW k \in Key, MintOrAdopt(type, k)
  PROVE  /\ VaultTyped' /\ Kept /\ HasKey(k, type)'
         /\ ActiveFor(type)' # {}
         /\ \A other \in Type \ {type} : KeysOf(other)' = KeysOf(other) /\ ActiveFor(other)' = ActiveFor(other)
         /\ IF ActiveFor(type) = {} THEN KeysOf(type)' = KeysOf(type) \cup {k} ELSE KeysOf(type)' = KeysOf(type)
<1>1. CASE ActiveFor(type) = {}
  <2> DEFINE row == [type |-> type, status |-> "active"]
  <2>1. /\ Len(vault) < MaxKeys /\ k = Len(vault) + 1
        /\ vault' = Append(vault, row) /\ row \in KeyRow
    BY <1>1 DEF MintOrAdopt, VaultPut, KeyRow
  <2>2. /\ vault' \in Seq(KeyRow) /\ Len(vault') = Len(vault) + 1
        /\ \A i \in DOMAIN vault : i \in DOMAIN vault' /\ vault'[i] = vault[i]
        /\ DOMAIN vault' = DOMAIN vault \cup {k} /\ k \notin DOMAIN vault /\ vault'[k] = row
    BY <2>1 DEF VaultTyped
  <2>3. VaultTyped'
    BY <2>1, <2>2, PseudonymsAssumption DEF VaultTyped
  <2>4. \A i \in DOMAIN vault : vault[i] \in KeyRow
    BY DEF VaultTyped
  <2>5. Kept
    BY <2>2 DEF Kept
  <2>6. HasKey(k, type)' /\ k \in ActiveFor(type)'
    BY <2>2 DEF HasKey, ActiveFor
  <2>7. \A other \in Type \ {type} : KeysOf(other)' = KeysOf(other) /\ ActiveFor(other)' = ActiveFor(other)
    BY <2>2 DEF KeysOf, ActiveFor
  <2>8. KeysOf(type)' = KeysOf(type) \cup {k}
    BY <2>2 DEF KeysOf
  <2> QED BY <1>1, <2>3, <2>5, <2>6, <2>7, <2>8
<1>2. CASE ActiveFor(type) # {}
  BY <1>2 DEF MintOrAdopt, VaultTyped, Kept, HasKey, ActiveFor, KeysOf
<1> QED BY <1>1, <1>2

LEMMA Retiring ==
  ASSUME VaultTyped, NEW keys, SetStatus(keys, "retired")
  PROVE  /\ VaultTyped' /\ Kept
         /\ \A type \in Type : KeysOf(type)' = KeysOf(type)
         /\ \A type \in Type : ActiveFor(type)' = ActiveFor(type) \ keys
<1>1. /\ DOMAIN vault' = DOMAIN vault
      /\ \A k \in DOMAIN vault : vault'[k].type = vault[k].type
      /\ \A k \in DOMAIN vault : vault'[k] \in KeyRow
      /\ \A k \in keys \cap DOMAIN vault : vault'[k].status = "retired"
      /\ \A k \in DOMAIN vault \ keys : vault'[k] = vault[k]
  <2>1. \A k \in DOMAIN vault : vault[k] \in KeyRow
    BY DEF VaultTyped
  <2>2. ASSUME NEW row \in KeyRow
        PROVE  LET retired == [row EXCEPT !.status = "retired"] IN
               retired \in KeyRow /\ retired.type = row.type /\ retired.status = "retired"
    BY DEF KeyRow
  <2>3. /\ DOMAIN vault' = DOMAIN vault
        /\ \A k \in DOMAIN vault :
             vault'[k] = IF k \in keys THEN [vault[k] EXCEPT !.status = "retired"] ELSE vault[k]
    BY DEF SetStatus
  <2> QED BY <2>1, <2>2, <2>3
<1>2. vault' \in Seq(KeyRow) /\ Len(vault') = Len(vault)
  BY <1>1 DEF SetStatus, VaultTyped
<1> QED BY <1>1, <1>2 DEF VaultTyped, Kept, KeysOf, ActiveFor

-----------------------------------------------------------------------------
(* A text on its way through the layers. *)

LEMMA Neutralised ==
  ASSUME NEW s \in Seq(SourceSpans), NEW n, n = Neutralise(s)
  PROVE  n \in Seq(Piece) /\ Len(n) = Len(s) /\ \A i \in 1 .. Len(s) : Mirrors(n[i], s[i])
<1>1. Len(s) \in Nat /\ DOMAIN s = 1 .. Len(s) /\ \A i \in 1 .. Len(s) : s[i] \in SourceSpans
  OBVIOUS
<1>2. n = [i \in 1 .. Len(s) |-> IF s[i].kind = "token" THEN Span("defused", s[i].what, s[i].key) ELSE s[i]]
  BY <1>1 DEF Neutralise
<1>3. ASSUME NEW i \in 1 .. Len(s) PROVE n[i] \in Piece /\ Mirrors(n[i], s[i])
  <2>1. CASE s[i].kind = "token"
    <3>1. n[i] = Span("defused", s[i].what, s[i].key)
      BY <1>2, <2>1
    <3>2. n[i] \in Piece
      BY <1>1, <3>1 DEF Piece
    <3>3. n[i].kind = "defused"
      BY <3>1 DEF Span
    <3> QED BY <2>1, <3>2, <3>3 DEF Mirrors
  <2>2. CASE s[i].kind # "token"
    <3>1. n[i] = s[i]
      BY <1>2, <2>2
    <3> QED BY <1>1, <2>2, <3>1 DEF Piece, Mirrors
  <2> QED BY <2>1, <2>2
<1>4. n \in Seq(Piece) /\ Len(n) = Len(s)
  BY <1>1, <1>2, <1>3
<1> QED BY <1>3, <1>4

LEMMA Begins ==
  ASSUME NEW d \in Doc
  PROVE  Neutralise(SourceText[d]) \in Seq(Piece) /\ Splits(<<>>, Neutralise(SourceText[d]), d)
<1>1. SourceText[d] \in Seq(SourceSpans)
  BY PseudonymsAssumption
<1>2. PICK n : n = Neutralise(SourceText[d])
  OBVIOUS
<1>3. n \in Seq(Piece) /\ Len(n) = Len(SourceText[d])
      /\ \A i \in 1 .. Len(SourceText[d]) : Mirrors(n[i], SourceText[d][i])
  BY <1>1, <1>2, Neutralised
<1>4. Splits(<<>>, n, d)
  BY <1>1, <1>3 DEF Splits
<1> QED BY <1>2, <1>3, <1>4

LEMMA Advances ==
  ASSUME NEW d \in Doc, NEW out \in Seq(Piece), NEW rest \in Seq(Piece), rest # <<>>,
         Splits(out, rest, d), NEW p \in Piece, Mirrors(p, SourceText[d][Len(out) + 1])
  PROVE  /\ Append(out, p) \in Seq(Piece) /\ Tail(rest) \in Seq(Piece)
         /\ Splits(Append(out, p), Tail(rest), d)
<1>1. /\ Append(out, p) \in Seq(Piece) /\ Len(Append(out, p)) = Len(out) + 1
      /\ \A i \in 1 .. Len(out) : Append(out, p)[i] = out[i]
      /\ Append(out, p)[Len(out) + 1] = p
  OBVIOUS
<1>2. /\ Tail(rest) \in Seq(Piece) /\ Len(Tail(rest)) = Len(rest) - 1 /\ Len(rest) > 0
      /\ \A i \in 1 .. Len(Tail(rest)) : Tail(rest)[i] = rest[i + 1]
  OBVIOUS
<1>3. \A i \in 1 .. Len(out) + 1 : Mirrors(Append(out, p)[i], SourceText[d][i])
  <2> TAKE i \in 1 .. Len(out) + 1
  <2>1. CASE i = Len(out) + 1
    BY <1>1, <2>1
  <2>2. CASE i # Len(out) + 1
    <3>1. i \in 1 .. Len(out)
      BY <2>2
    <3> QED BY <1>1, <3>1 DEF Splits
  <2> QED BY <2>1, <2>2
<1>4. \A i \in 1 .. Len(rest) - 1 : Mirrors(Tail(rest)[i], SourceText[d][Len(out) + 1 + i])
  <2> TAKE i \in 1 .. Len(rest) - 1
  <2>1. i + 1 \in 1 .. Len(rest) /\ Len(out) + (i + 1) = Len(out) + 1 + i
    BY <1>2
  <2>2. Mirrors(rest[i + 1], SourceText[d][Len(out) + (i + 1)])
    BY <2>1 DEF Splits
  <2> QED BY <1>2, <2>1, <2>2
<1>5. Len(Append(out, p)) + Len(Tail(rest)) = Len(SourceText[d])
  <2>1. Len(out) + Len(rest) = Len(SourceText[d])
    BY DEF Splits
  <2>2. Len(out) \in Nat /\ Len(rest) \in Nat
    OBVIOUS
  <2> QED BY <1>1, <1>2, <2>1, <2>2
<1> QED BY <1>1, <1>2, <1>3, <1>4, <1>5 DEF Splits

LEMMA EntityLayer ==
  ASSUME NEW d \in Doc, NEW out \in Seq(Piece), Splits(out, <<>>, d)
  PROVE  Splits(<<>>, out, d)
BY DEF Splits

\* What is to be replaced is a value of the source.
LEMMA HitIsSource ==
  ASSUME NEW d \in Doc, NEW out \in Seq(Piece), NEW rest \in Seq(Piece), rest # <<>>,
         Splits(out, rest, d), Head(rest).kind = "value"
  PROVE  /\ SourceText[d][Len(out) + 1] = Head(rest)
         /\ Head(rest).what \in Spelling /\ TypeOf[Head(rest).what] \in Type
<1>1. PICK s : s = SourceText[d]
  OBVIOUS
<1>2. s \in Seq(SourceSpans)
  BY <1>1, PseudonymsAssumption
<1>3. rest[1] = Head(rest) /\ Len(rest) >= 1 /\ Len(out) \in Nat /\ Len(rest) \in Nat
  OBVIOUS
<1>4. Len(out) + Len(rest) = Len(s) /\ Mirrors(rest[1], s[Len(out) + 1])
  BY <1>1, <1>3 DEF Splits
<1>5. s[Len(out) + 1] \in SourceSpans
  BY <1>2, <1>3, <1>4
<1>6. \A v : \A k \in Key : Token(v, k).kind = "token"
  BY DEF Token
<1>7. Head(rest) = s[Len(out) + 1]
  BY <1>3, <1>4, <1>6 DEF Mirrors
<1>8. Head(rest).what \in Spelling
  BY <1>5, <1>7, PseudonymsAssumption
<1> QED BY <1>1, <1>7, <1>8, PseudonymsAssumption

-----------------------------------------------------------------------------
(* The steps of a worker. *)

LEMMA OthersKept ==
  ASSUME Workers, Kept, NEW w \in Worker, NEW u, Sets(w, u), (TxTyped(u) /\ InStep(u))'
  PROVE  Workers'
<1>1. DOMAIN tx' = Worker /\ tx'[w] = u /\ \A v \in Worker \ {w} : tx'[v] = tx[v]
  BY DEF Workers, Sets
<1>2. ASSUME NEW v \in Worker PROVE (TxTyped(tx[v]) /\ InStep(tx[v]))'
  <2>1. CASE v = w
    BY <1>1, <2>1
  <2>2. CASE v # w
    <3>1. PICK t : t = tx[v]
      OBVIOUS
    <3>2. (TxTyped(t) /\ InStep(t))'
      BY <3>1, MeaningKept DEF Workers
    <3>3. (tx[v])' = t
      BY <1>1, <2>2, <3>1
    <3> QED BY <3>2, <3>3
  <2> QED BY <2>1, <2>2
<1> QED BY <1>1, <1>2 DEF Workers

LEMMA AllKept ==
  ASSUME Workers, Kept, UNCHANGED tx
  PROVE  Workers'
<1>1. ASSUME NEW v \in Worker PROVE (TxTyped(tx[v]) /\ InStep(tx[v]))'
  <2>1. PICK t : t = tx[v]
    OBVIOUS
  <2>2. (TxTyped(t) /\ InStep(t))'
    BY <2>1, MeaningKept DEF Workers
  <2> QED BY <2>1, <2>2
<1> QED BY <1>1 DEF Workers

LEMMA EmptyIsTyped == TxTyped(Idle) /\ InStep(Idle) /\ <<>> \in Seq(Piece)
<1>1. Idle.puts = <<>> /\ DOMAIN Idle.puts = {}
  BY DEF Idle
<1>2. Store(Idle.puts)
  BY <1>1 DEF Store
<1> QED BY <1>2 DEF TxTyped, InStep, Idle

LEMMA AnonymizeStep ==
  ASSUME PseudonymsInv, NEW w \in Worker, NEW d \in Doc, Anonymize(w, d)
  PROVE  Workers'
<1>1. Kept
  BY DEF Anonymize, Kept
<1>2. PICK u : u = [Idle EXCEPT !.pc = "scan", !.doc = d, !.rest = Neutralise(SourceText[d])]
  OBVIOUS
<1>3. /\ DOMAIN u = DOMAIN Idle /\ u.pc = "scan" /\ u.doc = d /\ u.rest = Neutralise(SourceText[d])
      /\ u.out = <<>> /\ u.puts = Idle.puts
  BY <1>2 DEF Idle
<1>4. TxTyped(u)
  BY <1>3, Begins, EmptyIsTyped DEF TxTyped
<1>5. InStep(u)
  BY <1>3, Begins DEF InStep
<1> QED BY <1>1, <1>2, <1>4, <1>5, OthersKept, MeaningKept DEF Anonymize, PseudonymsInv

LEMMA ScanStep ==
  ASSUME PseudonymsInv, NEW w \in Worker, Scan(w)
  PROVE  Workers'
<1>1. Kept
  BY DEF Scan, Kept
<1>2. PICK t : t = tx[w]
  OBVIOUS
<1>3. TxTyped(t) /\ InStep(t) /\ t.pc = "scan"
  BY <1>2 DEF PseudonymsInv, Workers, Scan
<1>4. t.out \in Seq(Piece) /\ t.rest \in Seq(Piece) /\ t.doc \in Doc /\ Splits(t.out, t.rest, t.doc)
      /\ DOMAIN t = DOMAIN Idle /\ Store(t.puts)
  BY <1>3 DEF TxTyped, InStep
<1>5. ASSUME NEW u, Sets(w, u), TxTyped(u) /\ InStep(u) PROVE Workers'
  BY <1>1, <1>5, OthersKept, MeaningKept DEF PseudonymsInv
<1>6. CASE t.rest # <<>> /\ IsHit(Head(t.rest), t.layer)
  <2>1. PICK k \in CurrentKey(TypeOf[Head(t.rest).what]) :
              Sets(w, [t EXCEPT !.pc = IF k = NoKey THEN "mint" ELSE "put", !.key = k])
    BY <1>2, <1>6 DEF Scan
  <2>2. PICK u : u = [t EXCEPT !.pc = IF k = NoKey THEN "mint" ELSE "put", !.key = k]
    OBVIOUS
  <2>3. /\ DOMAIN u = DOMAIN Idle /\ u.pc = (IF k = NoKey THEN "mint" ELSE "put") /\ u.key = k
        /\ u.doc = t.doc /\ u.rest = t.rest /\ u.out = t.out /\ u.puts = t.puts
    BY <1>4, <2>2 DEF Idle
  <2>4. k # NoKey => HasKey(k, TypeOf[Head(t.rest).what])
    BY DEF CurrentKey, ActiveFor, HasKey
  <2>5. Head(t.rest).kind = "value"
    BY <1>6 DEF IsHit
  <2>6. TxTyped(u)
    BY <1>4, <2>3 DEF TxTyped
  <2>7. InStep(u)
    BY <1>4, <1>6, <2>3, <2>4, <2>5 DEF InStep
  <2> QED BY <1>5, <2>1, <2>2, <2>6, <2>7
<1>7. CASE t.rest # <<>> /\ ~IsHit(Head(t.rest), t.layer)
  <2>1. PICK u : u = [t EXCEPT !.rest = Tail(t.rest), !.out = Append(t.out, Head(t.rest))]
    OBVIOUS
  <2>2. Sets(w, u)
    BY <1>2, <1>7, <2>1 DEF Scan
  <2>3. /\ DOMAIN u = DOMAIN Idle /\ u.pc = "scan" /\ u.doc = t.doc /\ u.puts = t.puts
        /\ u.rest = Tail(t.rest) /\ u.out = Append(t.out, Head(t.rest))
    BY <1>3, <1>4, <2>1 DEF Idle
  <2>4. Head(t.rest) \in Piece /\ Mirrors(Head(t.rest), SourceText[t.doc][Len(t.out) + 1])
    <3>1. t.rest[1] = Head(t.rest) /\ 1 \in 1 .. Len(t.rest)
      BY <1>4, <1>7
    <3> QED BY <1>4, <3>1 DEF Splits
  <2>5. /\ u.out \in Seq(Piece) /\ u.rest \in Seq(Piece) /\ Splits(u.out, u.rest, u.doc)
    BY <1>4, <1>7, <2>3, <2>4, Advances
  <2>6. TxTyped(u) /\ InStep(u)
    BY <1>4, <2>3, <2>5 DEF TxTyped, InStep
  <2> QED BY <1>5, <2>2, <2>6
<1>8. CASE t.rest = <<>> /\ t.layer = "pattern"
  <2>1. PICK u : u = [t EXCEPT !.layer = "entity", !.rest = t.out, !.out = <<>>]
    OBVIOUS
  <2>2. Sets(w, u)
    BY <1>2, <1>8, <2>1 DEF Scan
  <2>3. /\ DOMAIN u = DOMAIN Idle /\ u.pc = "scan" /\ u.doc = t.doc /\ u.puts = t.puts
        /\ u.rest = t.out /\ u.out = <<>>
    BY <1>3, <1>4, <2>1 DEF Idle
  <2>4. Splits(u.out, u.rest, u.doc)
    BY <1>4, <1>8, <2>3, EntityLayer
  <2>5. TxTyped(u) /\ InStep(u)
    BY <1>4, <2>3, <2>4, EmptyIsTyped DEF TxTyped, InStep
  <2> QED BY <1>5, <2>2, <2>5
<1>9. CASE t.rest = <<>> /\ t.layer # "pattern"
  <2>1. PICK u : u = [t EXCEPT !.pc = "register"]
    OBVIOUS
  <2>2. Sets(w, u)
    BY <1>2, <1>9, <2>1 DEF Scan
  <2>3. /\ DOMAIN u = DOMAIN Idle /\ u.pc = "register" /\ u.doc = t.doc /\ u.puts = t.puts
        /\ u.rest = t.rest /\ u.out = t.out
    BY <1>4, <2>1 DEF Idle
  <2>4. TxTyped(u) /\ InStep(u)
    BY <1>4, <1>9, <2>3 DEF TxTyped, InStep
  <2> QED BY <1>5, <2>2, <2>4
<1> QED BY <1>6, <1>7, <1>8, <1>9

LEMMA Overlaid ==
  ASSUME NEW f, NEW g, Store(f), Store(g)
  PROVE  Store(Overlay(f, g)) /\ DOMAIN Overlay(f, g) = DOMAIN f \cup DOMAIN g
BY DEF Store, Overlay

LEMMA MintStep ==
  ASSUME PseudonymsInv, NEW w \in Worker, Mint(w)
  PROVE  VaultTyped' /\ Kept /\ Workers' /\ \E type \in Type, k \in Key : MintOrAdopt(type, k)
<1>1. PICK t : t = tx[w]
  OBVIOUS
<1>2. TxTyped(t) /\ InStep(t) /\ t.pc = "mint"
  BY <1>1 DEF PseudonymsInv, Workers, Mint
<1>3. /\ DOMAIN t = DOMAIN Idle /\ t.rest \in Seq(Piece) /\ t.out \in Seq(Piece) /\ t.doc \in Doc
      /\ Splits(t.out, t.rest, t.doc) /\ t.rest # <<>> /\ Head(t.rest).kind = "value"
  BY <1>2 DEF TxTyped, InStep
<1>4. PICK type : type = TypeOf[Head(t.rest).what]
  OBVIOUS
<1>5. type \in Type
  BY <1>3, <1>4, HitIsSource
<1>6. PICK k \in Key : MintOrAdopt(type, k) /\ Sets(w, [t EXCEPT !.pc = "put", !.key = k])
  BY <1>1, <1>4 DEF Mint
<1>7. VaultTyped' /\ Kept /\ HasKey(k, type)'
  BY <1>5, <1>6, Minting DEF PseudonymsInv
<1>8. PICK u : u = [t EXCEPT !.pc = "put", !.key = k]
  OBVIOUS
<1>9. /\ DOMAIN u = DOMAIN Idle /\ u.pc = "put" /\ u.key = k
      /\ u.doc = t.doc /\ u.rest = t.rest /\ u.out = t.out /\ u.puts = t.puts
  BY <1>3, <1>8 DEF Idle
<1>10. (TxTyped(t) /\ InStep(t))'
  BY <1>2, <1>7, MeaningKept
<1>11. TxTyped(u)'
  BY <1>9, <1>10 DEF TxTyped
<1>12. InStep(u)'
  BY <1>2, <1>3, <1>4, <1>7, <1>9, <1>10 DEF InStep
<1>13. Workers'
  BY <1>6, <1>7, <1>8, <1>11, <1>12, OthersKept DEF PseudonymsInv
<1> QED BY <1>5, <1>6, <1>7, <1>13

\* A token is made under a key the vault has, and mirrors the value it replaces.
LEMMA Replaced ==
  ASSUME PseudonymsInv, NEW t, TxTyped(t), InStep(t), t.pc = "put", NEW token,
         token = Token(Head(t.rest).what, t.key)
  PROVE  /\ token \in Tokens /\ Genuine(token)
         /\ Mirrors(token, SourceText[t.doc][Len(t.out) + 1])
         /\ Store(StorePut(t.puts, token, Head(t.rest).what))
<1> DEFINE v == Head(t.rest).what  o == SourceText[t.doc][Len(t.out) + 1]
<1>1. /\ t.rest \in Seq(Piece) /\ t.out \in Seq(Piece) /\ t.doc \in Doc /\ Store(t.puts)
      /\ Splits(t.out, t.rest, t.doc) /\ t.rest # <<>> /\ Head(t.rest).kind = "value"
      /\ HasKey(t.key, TypeOf[v])
  BY DEF TxTyped, InStep
<1>2. v \in Spelling /\ o = Head(t.rest)
  BY <1>1, HitIsSource
<1>3. t.key \in Key /\ t.key \in DOMAIN vault
  BY <1>1, PseudonymsAssumption DEF HasKey, PseudonymsInv, VaultTyped, Key
<1>4. token \in Tokens /\ Genuine(token)
  BY <1>1, <1>2, <1>3 DEF Tokens, Genuine
<1>5. Mirrors(token, o)
  BY <1>1, <1>2, <1>3 DEF Mirrors
<1>6. Store(StorePut(t.puts, token, v))
  <2>1. PICK row : row = [key |-> token.key, sealed |-> token.key, plain |-> v]
    OBVIOUS
  <2>2. token.key = t.key /\ token.what = <<TypeOf[v], NormOf[v]>>
    BY DEF Token
  <2>3. IsRowOf(row, token)
    BY <1>2, <1>3, <2>1, <2>2 DEF IsRowOf, Row
  <2>4. PICK g : g = [p \in {token} |-> row]
    OBVIOUS
  <2>5. Store(g)
    BY <1>4, <2>3, <2>4 DEF Store
  <2>6. StorePut(t.puts, token, v) \in {t.puts, Overlay(t.puts, g)}
    BY <2>1, <2>4 DEF StorePut
  <2> QED BY <1>1, <2>5, <2>6, Overlaid
<1> QED BY <1>4, <1>5, <1>6

LEMMA PutStep ==
  ASSUME PseudonymsInv, NEW w \in Worker, Put(w)
  PROVE  Workers'
<1>1. Kept
  BY DEF Put, Kept
<1>2. PICK t : t = tx[w]
  OBVIOUS
<1>3. TxTyped(t) /\ InStep(t) /\ t.pc = "put"
  BY <1>2 DEF PseudonymsInv, Workers, Put
<1>4. t.out \in Seq(Piece) /\ t.rest \in Seq(Piece) /\ t.doc \in Doc /\ Splits(t.out, t.rest, t.doc)
      /\ DOMAIN t = DOMAIN Idle /\ t.rest # <<>>
  BY <1>3 DEF TxTyped, InStep
<1>5. PICK token, puts : /\ token = Token(Head(t.rest).what, t.key)
                         /\ puts = StorePut(t.puts, token, Head(t.rest).what)
  OBVIOUS
<1>6. /\ token \in Piece /\ Mirrors(token, SourceText[t.doc][Len(t.out) + 1])
      /\ Store(puts)
  BY <1>3, <1>5, Replaced DEF Piece
<1>7. PICK u : u = [t EXCEPT !.pc = "scan", !.rest = Tail(t.rest), !.out = Append(t.out, token), !.puts = puts]
  OBVIOUS
<1>8. Sets(w, u)
  BY <1>2, <1>5, <1>7 DEF Put
<1>9. /\ DOMAIN u = DOMAIN Idle /\ u.pc = "scan" /\ u.doc = t.doc /\ u.puts = puts
      /\ u.rest = Tail(t.rest) /\ u.out = Append(t.out, token)
  BY <1>4, <1>7 DEF Idle
<1>10. /\ u.out \in Seq(Piece) /\ u.rest \in Seq(Piece) /\ Splits(u.out, u.rest, u.doc)
  BY <1>4, <1>6, <1>9, Advances
<1>11. TxTyped(u) /\ InStep(u)
  BY <1>4, <1>6, <1>9, <1>10 DEF TxTyped, InStep
<1> QED BY <1>1, <1>8, <1>11, OthersKept, MeaningKept DEF PseudonymsInv

\* What a worker that is done delivers: all of the source, place by place.
LEMMA FinishStep ==
  ASSUME PseudonymsInv, NEW w \in Worker, Finish(w)
  PROVE  Workers' /\ Store(mappings') /\ Registers' /\ Delivered'
<1>1. Kept /\ vault' = vault
  BY DEF Finish, Kept
<1>2. PICK t : t = tx[w]
  OBVIOUS
<1>3. TxTyped(t) /\ InStep(t) /\ t.pc = "register"
  BY <1>2 DEF PseudonymsInv, Workers, Finish
<1>4. /\ t.out \in Seq(Piece) /\ t.doc \in Doc /\ Store(t.puts) /\ Splits(t.out, <<>>, t.doc)
  BY <1>3 DEF TxTyped, InStep
<1>5. TextMirrors(t.out, t.doc)
  BY <1>4 DEF TextMirrors, Splits
<1>6. Workers'
  BY <1>1, EmptyIsTyped, OthersKept, MeaningKept DEF Finish, PseudonymsInv
<1>7. Store(mappings')
  BY <1>2, <1>4, Overlaid DEF Finish, PseudonymsInv
<1>8. ASSUME NEW p \in TokensIn(t.out) PROVE p \in Tokens /\ Genuine(p)
  <2>1. PICK i \in 1 .. Len(t.out) : p = t.out[i] /\ p.kind = "token"
    BY <1>4 DEF TokensIn, InText
  <2>2. PICK o : o = SourceText[t.doc][i]
    OBVIOUS
  <2>3. o \in SourceSpans /\ Mirrors(p, o)
    BY <1>4, <1>5, <2>1, <2>2, PseudonymsAssumption DEF TextMirrors
  <2>4. o.kind = "value" /\ \E k \in Key : HasKey(k, TypeOf[o.what]) /\ p = Token(o.what, k)
    BY <2>1, <2>3 DEF Mirrors
  <2>5. o.what \in Spelling
    BY <2>3, <2>4, PseudonymsAssumption
  <2> QED BY <2>4, <2>5 DEF Tokens, Genuine
<1>9. ASSUME NEW r \in registry' PROVE r \in Doc \X Tokens /\ Genuine(r[2])
  <2>1. CASE r \in registry
    BY <2>1 DEF PseudonymsInv, Registers
  <2>2. CASE r \notin registry
    <3>1. PICK p \in TokensIn(t.out) : r = <<t.doc, p>>
      BY <1>2, <1>9, <2>2 DEF Finish, Registered
    <3> QED BY <1>4, <1>8, <3>1
  <2> QED BY <2>1, <2>2
<1>10. Registers'
  BY <1>1, <1>9, MeaningKept DEF Registers
<1>11. Delivered'
  <2>1. texts' = texts \/ texts' = [texts EXCEPT ![t.doc] = t.out]
    BY <1>2 DEF Finish
  <2>2. texts' \in [Doc -> Seq(Piece)] /\ \A d \in Doc : texts'[d] # <<>> => TextMirrors(texts'[d], d)
    BY <1>4, <1>5, <2>1 DEF PseudonymsInv, Delivered
  <2>3. ASSUME NEW d \in Doc, (texts[d] # <<>>)' PROVE TextMirrors(texts[d], d)'
    <3>1. PICK text : text = texts'[d]
      OBVIOUS
    <3>2. TextMirrors(text, d)'
      BY <1>1, <2>2, <2>3, <3>1, MeaningKept
    <3> QED BY <3>1, <3>2
  <2> QED BY <2>2, <2>3 DEF Delivered
<1> QED BY <1>6, <1>7, <1>10, <1>11

LEMMA FailStep ==
  ASSUME PseudonymsInv, NEW w \in Worker, Fail(w)
  PROVE  Workers'
<1>1. Kept
  BY DEF Fail, Kept
<1> QED BY <1>1, EmptyIsTyped, OthersKept, MeaningKept DEF Fail, PseudonymsInv

-----------------------------------------------------------------------------
(* Rotations and deletions. *)

LEMMA RotationCommits ==
  ASSUME PseudonymsInv, CommitRotation
  PROVE  Store(mappings') /\ DOMAIN mappings' = DOMAIN mappings
<1>1. CASE ~(rotation.rows \subseteq DOMAIN mappings)
  BY <1>1 DEF CommitRotation, PseudonymsInv
<1>2. CASE rotation.rows \subseteq DOMAIN mappings
  <2>1. PICK g : g = [p \in rotation.rows |-> Resealed(mappings[p])]
    OBVIOUS
  <2>2. mappings' = Overlay(mappings, g)
    BY <1>2, <2>1 DEF CommitRotation
  <2>3. PICK new : new = rotation.new
    OBVIOUS
  <2>4. new \in DOMAIN vault /\ new \in Key
    BY <2>3, PseudonymsAssumption DEF CommitRotation, PseudonymsInv, RotationTyped, HasKey, VaultTyped, Key
  <2>5. ASSUME NEW p \in rotation.rows PROVE Genuine(p) /\ IsRowOf(g[p], p)
    <3>1. PICK m : m = mappings[p]
      OBVIOUS
    <3>2. Genuine(p) /\ IsRowOf(m, p)
      BY <1>2, <3>1 DEF PseudonymsInv, Store
    <3>3. g[p] = [m EXCEPT !.key = new, !.sealed = new]
      BY <2>1, <2>3, <3>1 DEF Resealed
    <3>4. PICK key \in Key, sealed \in Key, plain \in Spelling :
            m = [key |-> key, sealed |-> sealed, plain |-> plain]
      BY <3>2 DEF IsRowOf, Row
    <3>5. g[p] = [key |-> new, sealed |-> new, plain |-> plain] /\ m.plain = plain
      BY <3>3, <3>4
    <3> QED BY <2>4, <3>2, <3>5 DEF IsRowOf, Row
  <2>6. Store(g) /\ DOMAIN g = rotation.rows
    BY <2>1, <2>5 DEF Store
  <2>7. Store(mappings') /\ DOMAIN mappings' = DOMAIN mappings \cup rotation.rows
    BY <2>2, <2>6, Overlaid DEF PseudonymsInv
  <2> QED BY <1>2, <2>7
<1> QED BY <1>1, <1>2

LEMMA DeletionCommits ==
  ASSUME PseudonymsInv, CommitDeletion
  PROVE  Store(mappings') /\ Registers' /\ Delivered'
<1>1. Kept
  BY DEF CommitDeletion, Kept
<1>2. Store(mappings')
  BY DEF CommitDeletion, PseudonymsInv, Store, Without
<1>3. registry' \subseteq registry
  BY DEF CommitDeletion
<1>4. Registers'
  BY <1>1, <1>3, MeaningKept DEF PseudonymsInv, Registers
<1>5. ASSUME NEW d \in Doc PROVE /\ texts'[d] \in Seq(Piece)
                                 /\ (texts[d] # <<>>)' => TextMirrors(texts[d], d)'
  <2>1. PICK text : text = texts'[d]
    OBVIOUS
  <2>2. text = <<>> \/ text = texts[d]
    BY <2>1 DEF CommitDeletion, PseudonymsInv, Delivered
  <2>3. text \in Seq(Piece) /\ (text # <<>> => TextMirrors(text, d))
    BY <2>2, EmptyIsTyped DEF PseudonymsInv, Delivered
  <2>4. text # <<>> => TextMirrors(text, d)'
    BY <1>1, <2>3, MeaningKept
  <2> QED BY <2>1, <2>3, <2>4
<1>6. Delivered'
  BY <1>5 DEF Delivered, PseudonymsInv, CommitDeletion
<1> QED BY <1>2, <1>4, <1>6

LEMMA RotationTypes ==
  ASSUME PseudonymsInv, [PNext]_pvars
  PROVE  VaultTyped' /\ Kept /\ RotationTyped'
<1>1. ASSUME Kept, UNCHANGED rotation PROVE RotationTyped'
  BY <1>1 DEF PseudonymsInv, RotationTyped, HasKey, Kept
<1>2. ASSUME UNCHANGED vault PROVE VaultTyped' /\ Kept
  BY <1>2 DEF PseudonymsInv, VaultTyped, Kept
<1>3. ASSUME NEW w \in Worker, Mint(w) PROVE VaultTyped' /\ Kept /\ RotationTyped'
  BY <1>1, <1>3, MintStep DEF Mint
<1>4. ASSUME NEW type \in Type, BeginRotation(type) PROVE VaultTyped' /\ Kept /\ RotationTyped'
  <2>1. PICK k \in Key : MintOrAdopt(type, k)
                         /\ Rotates([NoRotate EXCEPT !.pc = "retire", !.type = type, !.old = k])
    BY <1>4 DEF BeginRotation
  <2>2. VaultTyped' /\ Kept
    BY <2>1, Minting DEF PseudonymsInv
  <2>3. DOMAIN rotation' = DOMAIN NoRotate /\ rotation'.pc = "retire" /\ rotation'.type = type
    BY <2>1 DEF Rotates, NoRotate
  <2> QED BY <2>2, <2>3 DEF RotationTyped
<1>5. CASE Retire
  <2>1. VaultTyped' /\ Kept
    BY <1>5, Retiring DEF Retire, PseudonymsInv
  <2>2. DOMAIN rotation' = DOMAIN NoRotate /\ rotation'.pc = "mint" /\ rotation'.type = rotation.type
    BY <1>5 DEF Retire, Rotates, NoRotate, PseudonymsInv, RotationTyped
  <2> QED BY <1>5, <2>1, <2>2 DEF Retire, PseudonymsInv, RotationTyped
<1>6. CASE MintNew
  <2>1. PICK type \in Type : type = rotation.type
    BY <1>6 DEF MintNew, PseudonymsInv, RotationTyped
  <2>2. PICK k \in Key : MintOrAdopt(type, k) /\ Rotates([rotation EXCEPT !.pc = "deposit", !.new = k])
    BY <1>6, <2>1 DEF MintNew
  <2>3. VaultTyped' /\ Kept /\ HasKey(k, type)'
    BY <2>2, Minting DEF PseudonymsInv
  <2>4. /\ DOMAIN rotation' = DOMAIN NoRotate /\ rotation'.pc = "deposit"
        /\ rotation'.type = type /\ rotation'.new = k
    BY <2>1, <2>2 DEF Rotates, NoRotate, PseudonymsInv, RotationTyped
  <2>5. HasKey(rotation.new, rotation.type)'
    BY <2>3, <2>4 DEF HasKey
  <2> QED BY <2>3, <2>4, <2>5 DEF RotationTyped
<1>7. CASE Deposit \/ Reencrypt
  <2>1. UNCHANGED vault /\ rotation.pc \in {"deposit", "select"} /\ DOMAIN rotation' = DOMAIN rotation
        /\ rotation'.pc \in {"select", "commit"} /\ rotation'.type = rotation.type /\ rotation'.new = rotation.new
    BY <1>7 DEF Deposit, Reencrypt, Rotates, NoRotate, PseudonymsInv, RotationTyped
  <2> QED BY <1>2, <2>1 DEF RotationTyped, PseudonymsInv, HasKey
<1>8. CASE CommitRotation \/ StopRotation
  BY <1>2, <1>8 DEF CommitRotation, StopRotation, Rotates, NoRotate, RotationTyped
<1>9. CASE UNCHANGED <<vault, rotation>>
  BY <1>1, <1>2, <1>9
<1> QED BY <1>3, <1>4, <1>5, <1>6, <1>7, <1>8, <1>9
        DEF pvars, PNext, Anonymize, Scan, Put, Finish, Fail, Judge, CommitDeletion

LEMMA FiniteKeys ==
  ASSUME VaultTyped, NEW type
  PROVE  IsFiniteSet(KeysOf(type)) /\ Cardinality(KeysOf(type)) \in Nat
<1>1. DOMAIN vault = 1 .. Len(vault) /\ Len(vault) \in Nat
  BY DEF VaultTyped
<1>2. IsFiniteSet(1 .. Len(vault))
  BY <1>1, FS_Interval
<1>3. KeysOf(type) \in SUBSET (1 .. Len(vault))
  BY <1>1 DEF KeysOf
<1> QED BY <1>2, <1>3, FS_Subset, FS_CardinalityType

LEMMA MintingCounts ==
  ASSUME VaultTyped, NEW type \in Type, NEW k \in Key, MintOrAdopt(type, k)
  PROVE  \A other \in Type : Surplus(other)' <= Surplus(other) /\ Surplus(other) \in Int /\ Surplus(other)' \in Int
<1>1. /\ VaultTyped' /\ ActiveFor(type)' # {}
      /\ \A other \in Type \ {type} : KeysOf(other)' = KeysOf(other) /\ ActiveFor(other)' = ActiveFor(other)
      /\ IF ActiveFor(type) = {} THEN KeysOf(type)' = KeysOf(type) \cup {k} ELSE KeysOf(type)' = KeysOf(type)
  BY Minting
<1>2. ASSUME NEW other \in Type
      PROVE  Surplus(other)' <= Surplus(other) /\ Surplus(other) \in Int /\ Surplus(other)' \in Int
  <2>1. /\ IsFiniteSet(KeysOf(other)) /\ Cardinality(KeysOf(other)) \in Nat
        /\ Cardinality(KeysOf(other) \cup {k}) <= Cardinality(KeysOf(other)) + 1
        /\ Cardinality(KeysOf(other) \cup {k}) \in Nat
    <3>1. IsFiniteSet(KeysOf(other)) /\ Cardinality(KeysOf(other)) \in Nat
      BY FiniteKeys
    <3>2. PICK keys : keys = KeysOf(other)
      OBVIOUS
    <3>3. Cardinality(keys \cup {k}) = IF k \in keys THEN Cardinality(keys) ELSE Cardinality(keys) + 1
      BY <3>1, <3>2, FS_AddElement
    <3> QED BY <3>1, <3>2, <3>3
  <2>2. CASE other # type
    BY <1>1, <2>1, <2>2 DEF Surplus
  <2>3. CASE other = type /\ ActiveFor(type) = {}
    <3>1. KeysOf(other)' = KeysOf(other) \cup {k} /\ ActiveFor(other)' # {} /\ ActiveFor(other) = {}
      BY <1>1, <2>3
    <3> QED BY <2>1, <3>1 DEF Surplus
  <2>4. CASE other = type /\ ActiveFor(type) # {}
    <3>1. KeysOf(other)' = KeysOf(other) /\ ActiveFor(other)' # {} /\ ActiveFor(other) # {}
      BY <1>1, <2>4
    <3> QED BY <2>1, <3>1 DEF Surplus
  <2> QED BY <2>2, <2>3, <2>4
<1> QED BY <1>2

LEMMA CountStep ==
  ASSUME PseudonymsInv, [PNext]_pvars
  PROVE  KeysCounted'
<1>1. /\ VaultTyped /\ KeysCounted /\ done.rotate \in Nat
      /\ \A type \in Type : Surplus(type) + (IF rotation.pc = "retire" THEN 1 ELSE 0) <= done.rotate
  BY DEF PseudonymsInv, KeysCounted
<1>2. done' \in [run : Nat, rotate : Nat, delete : Nat] /\ done'.rotate \in {done.rotate, done.rotate + 1}
  <2>1. \/ done' = done
        \/ done' = [done EXCEPT !.run = @ + 1]
        \/ done' = [done EXCEPT !.rotate = @ + 1]
        \/ done' = [done EXCEPT !.delete = @ + 1]
    BY DEF pvars, PNext, Anonymize, Scan, Mint, Put, Finish, Fail, BeginRotation, Retire, MintNew,
       Deposit, Reencrypt, CommitRotation, StopRotation, Judge, CommitDeletion
  <2>2. done \in [run : Nat, rotate : Nat, delete : Nat]
    BY <1>1 DEF KeysCounted
  <2> QED BY <2>1, <2>2
<1>3. done'.rotate >= done.rotate
  BY <1>1, <1>2
<1>4. ASSUME NEW other \in Type PROVE Surplus(other) \in Int
  BY <1>1, FiniteKeys DEF Surplus
<1>5. ASSUME UNCHANGED vault, rotation'.pc # "retire" \/ rotation' = rotation PROVE KeysCounted'
  <2>1. ASSUME NEW other \in Type PROVE Surplus(other)' = Surplus(other)
    BY <1>5 DEF Surplus, KeysOf, ActiveFor
  <2> QED BY <1>1, <1>2, <1>3, <1>4, <1>5, <2>1 DEF KeysCounted
<1>6. ASSUME NEW w \in Worker, Mint(w) PROVE KeysCounted'
  <2>1. PICK type \in Type, k \in Key : MintOrAdopt(type, k)
    BY <1>6, MintStep
  <2>2. \A other \in Type : Surplus(other)' <= Surplus(other) /\ Surplus(other) \in Int /\ Surplus(other)' \in Int
    BY <1>1, <2>1, MintingCounts
  <2>3. rotation' = rotation
    BY <1>6 DEF Mint
  <2> QED BY <1>1, <1>2, <1>3, <2>2, <2>3 DEF KeysCounted
<1>7. ASSUME NEW type \in Type, BeginRotation(type) PROVE KeysCounted'
  <2>1. PICK k \in Key : MintOrAdopt(type, k)
    BY <1>7 DEF BeginRotation
  <2>2. \A other \in Type : Surplus(other)' <= Surplus(other) /\ Surplus(other) \in Int /\ Surplus(other)' \in Int
    BY <1>1, <2>1, MintingCounts
  <2>3. done'.rotate = done.rotate + 1 /\ rotation.pc = "idle"
    BY <1>1, <1>7 DEF BeginRotation, KeysCounted
  <2> QED BY <1>1, <1>2, <2>2, <2>3 DEF KeysCounted
<1>8. CASE Retire
  <2>1. \A type \in Type : KeysOf(type)' = KeysOf(type)
    BY <1>1, <1>8, Retiring DEF Retire
  <2>2. ASSUME NEW other \in Type PROVE Surplus(other)' <= Surplus(other) + 1 /\ Surplus(other)' \in Int
    BY <1>1, <2>1, FiniteKeys DEF Surplus
  <2>3. rotation.pc = "retire" /\ rotation'.pc = "mint" /\ done' = done
    BY <1>8 DEF Retire, Rotates, NoRotate, PseudonymsInv, RotationTyped
  <2> QED BY <1>1, <1>2, <1>4, <2>2, <2>3 DEF KeysCounted
<1>9. CASE MintNew
  <2>1. PICK type \in Type, k \in Key : MintOrAdopt(type, k)
    BY <1>9 DEF MintNew, PseudonymsInv, RotationTyped
  <2>2. \A other \in Type : Surplus(other)' <= Surplus(other) /\ Surplus(other) \in Int /\ Surplus(other)' \in Int
    BY <1>1, <2>1, MintingCounts
  <2>3. rotation.pc = "mint" /\ rotation'.pc = "deposit"
    BY <1>9 DEF MintNew, Rotates, NoRotate, PseudonymsInv, RotationTyped
  <2> QED BY <1>1, <1>2, <1>3, <2>2, <2>3 DEF KeysCounted
<1>10. CASE Deposit \/ Reencrypt \/ CommitRotation \/ StopRotation
  <2>1. CASE Deposit \/ Reencrypt
    BY <1>5, <2>1 DEF Deposit, Reencrypt, Rotates, NoRotate, PseudonymsInv, RotationTyped
  <2>2. CASE CommitRotation \/ StopRotation
    BY <1>5, <2>2 DEF CommitRotation, StopRotation, Rotates, NoRotate
  <2> QED BY <1>10, <2>1, <2>2
<1>11. CASE UNCHANGED <<vault, rotation>>
  BY <1>5, <1>11
<1> QED BY <1>6, <1>7, <1>8, <1>9, <1>10, <1>11
        DEF pvars, PNext, Anonymize, Scan, Put, Finish, Fail, Judge, CommitDeletion

-----------------------------------------------------------------------------
(* The invariant of the pseudonyms. *)

LEMMA PseudonymsStep ==
  ASSUME PseudonymsInv, [PNext]_pvars
  PROVE  PseudonymsInv'
<1>1. VaultTyped' /\ Kept /\ RotationTyped' /\ KeysCounted'
  BY RotationTypes, CountStep
<1>2. Workers'
  <2>1. ASSUME NEW w \in Worker, \E d \in Doc : Anonymize(w, d) PROVE Workers'
    BY <2>1, AnonymizeStep
  <2>2. ASSUME NEW w \in Worker, Scan(w) \/ Mint(w) \/ Put(w) \/ Finish(w) \/ Fail(w) PROVE Workers'
    BY <2>2, ScanStep, MintStep, PutStep, FinishStep, FailStep
  <2>3. CASE UNCHANGED tx
    BY <1>1, <2>3, AllKept DEF PseudonymsInv
  <2> QED BY <2>1, <2>2, <2>3 DEF pvars, PNext, BeginRotation, Retire, MintNew, Deposit, Reencrypt, CommitRotation,
            StopRotation, Judge, CommitDeletion
<1>3. Registers' /\ Delivered'
  <2>1. ASSUME NEW w \in Worker, Finish(w) PROVE Registers' /\ Delivered'
    BY <2>1, FinishStep
  <2>2. ASSUME UNCHANGED <<registry, texts>> PROVE Registers' /\ Delivered'
    <3>1. Registers'
      BY <1>1, <2>2, MeaningKept DEF PseudonymsInv, Registers
    <3>2. ASSUME NEW d \in Doc, (texts[d] # <<>>)' PROVE TextMirrors(texts[d], d)'
      <4>1. PICK text : text = texts[d] /\ text = texts'[d]
        BY <2>2
      <4>2. TextMirrors(text, d)'
        BY <1>1, <3>2, <4>1, MeaningKept DEF PseudonymsInv, Delivered
      <4> QED BY <4>1, <4>2
    <3>3. Delivered'
      BY <2>2, <3>2 DEF PseudonymsInv, Delivered
    <3> QED BY <3>1, <3>3
  <2> QED BY <2>1, <2>2, DeletionCommits DEF pvars, PNext, Anonymize, Scan, Mint, Put, Fail, BeginRotation, Retire,
            MintNew, Deposit, Reencrypt, CommitRotation, StopRotation, Judge
<1>4. Store(mappings')
  <2>1. ASSUME NEW w \in Worker, Finish(w) PROVE Store(mappings')
    BY <2>1, FinishStep
  <2>2. CASE CommitRotation
    BY <2>2, RotationCommits
  <2>3. CASE CommitDeletion
    BY <2>3, DeletionCommits
  <2>4. CASE UNCHANGED mappings
    BY <2>4 DEF PseudonymsInv
  <2> QED BY <2>1, <2>2, <2>3, <2>4 DEF pvars, PNext, Anonymize, Scan, Mint, Put, Fail, BeginRotation, Retire,
            MintNew, Deposit, Reencrypt, StopRotation, Judge
<1>5. Store(mappings)'
  BY <1>1, <1>4, MeaningKept DEF Store
<1> QED BY <1>1, <1>2, <1>3, <1>5 DEF PseudonymsInv

-----------------------------------------------------------------------------
(* Registered tokens and their mappings.                                    *)

\* No worker inserts a row that is there, or that another inserts.
Fresh ==
  \A w \in Worker : /\ DOMAIN tx[w].puts \cap DOMAIN mappings = {}
                     /\ \A v \in Worker \ {w} : DOMAIN tx[w].puts \cap DOMAIN tx[v].puts = {}

Resolvable(t) == TokensIn(t.out) \cup TokensIn(t.rest) \subseteq DOMAIN mappings \cup DOMAIN t.puts \cup raced

\* What a deletion is about to take, and a worker has used, is noted.
Noted(t) == (TokensIn(t.out) \cup TokensIn(t.rest)) \cap deletion.orphans \subseteq raced

Referenced ==
  /\ \A r \in registry : r[2] \in DOMAIN mappings \cup raced
  /\ \A w \in Worker : Resolvable(tx[w])

\* What a deletion found out stays so until it commits, but for what is noted.
Judged ==
  IF deletion.pc = "idle" THEN deletion.orphans = {}
  ELSE /\ deletion.doc \in Doc /\ deletion.orphans \subseteq DOMAIN mappings
       /\ \A w \in Worker : tx[w].doc # deletion.doc /\ Noted(tx[w])
       /\ \A r \in registry : IF r[1] = deletion.doc THEN r[2] \in deletion.tokens
                               ELSE r[2] \in deletion.orphans => r[2] \in raced

Resolving == Fresh /\ Referenced /\ Judged

LEMMA TextOf ==
  ASSUME NEW s \in Seq(Piece)
  PROVE  /\ \A p \in Piece : TokensIn(Append(s, p)) \subseteq TokensIn(s) \cup {p}
         /\ \A p \in Piece : p.kind # "token" => TokensIn(Append(s, p)) = TokensIn(s)
         /\ s # <<>> => TokensIn(Tail(s)) \subseteq TokensIn(s) /\ Head(s) \in Piece
         /\ s # <<>> /\ Head(s).kind = "token" => Head(s) \in TokensIn(s)
         /\ TokensIn(<<>>) = {}
<1>1. ASSUME NEW p \in Piece PROVE InText(Append(s, p)) = InText(s) \cup {p}
  <2>1. /\ DOMAIN Append(s, p) = 1 .. Len(s) + 1 /\ DOMAIN s = 1 .. Len(s) /\ Len(s) \in Nat
        /\ \A i \in 1 .. Len(s) : Append(s, p)[i] = s[i]
        /\ Append(s, p)[Len(s) + 1] = p
    OBVIOUS
  <2> QED BY <2>1 DEF InText
<1>2. ASSUME s # <<>> PROVE InText(Tail(s)) \subseteq InText(s) /\ Head(s) \in InText(s) /\ Head(s) \in Piece
  <2>1. /\ DOMAIN Tail(s) = 1 .. Len(s) - 1 /\ DOMAIN s = 1 .. Len(s) /\ Len(s) \in Nat /\ Len(s) > 0
        /\ \A i \in 1 .. Len(s) - 1 : Tail(s)[i] = s[i + 1]
        /\ Head(s) = s[1]
    BY <1>2
  <2> QED BY <2>1 DEF InText
<1>3. InText(<<>>) = {}
  BY DEF InText
<1> QED BY <1>1, <1>2, <1>3 DEF TokensIn

LEMMA NoTokensAtFirst ==
  ASSUME NEW d \in Doc
  PROVE  TokensIn(Neutralise(SourceText[d])) = {}
<1>1. PICK s, n : s = SourceText[d] /\ n = Neutralise(s)
  OBVIOUS
<1>2. DOMAIN n = DOMAIN s /\ \A i \in DOMAIN s :
        n[i] = IF s[i].kind = "token" THEN Span("defused", s[i].what, s[i].key) ELSE s[i]
  BY <1>1 DEF Neutralise
<1>3. \A i \in DOMAIN s : n[i].kind # "token"
  BY <1>2 DEF Span
<1>4. TokensIn(n) = {}
  BY <1>2, <1>3 DEF TokensIn, InText
<1> QED BY <1>1, <1>4

\* A worker that goes from tx[w] to u has no token without a row, its own or a
\* committed one.
LEMMA StillReferenced ==
  ASSUME Workers, Resolving, NEW w \in Worker, NEW u, Sets(w, u),
         UNCHANGED <<registry, mappings, deletion, raced>>,
         Resolvable(u), Noted(u), deletion.pc # "idle" => u.doc # deletion.doc,
         DOMAIN u.puts \cap DOMAIN mappings = {},
         \A v \in Worker \ {w} : DOMAIN u.puts \cap DOMAIN tx[v].puts = {}
  PROVE  Resolving'
<1>1. tx'[w] = u /\ \A v \in Worker \ {w} : tx'[v] = tx[v]
  BY DEF Workers, Sets
<1>2. Fresh'
  <2>1. \A v \in Worker : DOMAIN tx'[v].puts \cap DOMAIN mappings = {}
    BY <1>1 DEF Resolving, Fresh
  <2>2. \A v, x \in Worker : v # x => DOMAIN tx'[v].puts \cap DOMAIN tx'[x].puts = {}
    BY <1>1 DEF Resolving, Fresh
  <2> QED BY <2>1, <2>2 DEF Fresh
<1>3. \A v \in Worker : Resolvable(tx'[v]) /\ (deletion.pc # "idle" => Noted(tx'[v]))
  BY <1>1 DEF Resolving, Referenced, Judged
<1>4. Referenced'
  <2>1. \A r \in registry' : r[2] \in DOMAIN mappings' \cup raced'
    BY DEF Resolving, Referenced
  <2>2. ASSUME NEW v \in Worker PROVE Resolvable(tx[v])'
    BY <1>3 DEF Resolvable, TokensIn, InText
  <2> QED BY <2>1, <2>2 DEF Referenced
<1>5. Judged'
  <2>1. CASE deletion.pc = "idle"
    BY <2>1 DEF Resolving, Judged
  <2>2. CASE deletion.pc # "idle"
    <3>1. \A v \in Worker : tx'[v].doc # deletion.doc
      BY <1>1, <2>2 DEF Resolving, Judged
    <3>2. ASSUME NEW v \in Worker PROVE Noted(tx[v])'
      BY <1>3, <2>2 DEF Noted, TokensIn, InText
    <3>3. \A r \in registry : IF r[1] = deletion.doc THEN r[2] \in deletion.tokens
                             ELSE r[2] \in deletion.orphans => r[2] \in raced
      BY <2>2 DEF Resolving, Judged
    <3> QED BY <2>2, <3>1, <3>2, <3>3 DEF Resolving, Judged
  <2> QED BY <2>1, <2>2
<1> QED BY <1>2, <1>4, <1>5 DEF Resolving

LEMMA WorkerKeepsReferences ==
  ASSUME PseudonymsInv, Resolving, NEW w \in Worker,
         (\E d \in Doc : Anonymize(w, d)) \/ Scan(w) \/ Mint(w) \/ Put(w) \/ Fail(w)
  PROVE  Resolving'
<1>1. UNCHANGED <<registry, mappings, deletion, raced>> /\ Workers
  BY DEF Anonymize, Scan, Mint, Put, Fail, PseudonymsInv
<1>2. PICK t : t = tx[w]
  OBVIOUS
<1>3. /\ DOMAIN t = DOMAIN Idle /\ t.out \in Seq(Piece) /\ t.rest \in Seq(Piece)
      /\ (t.pc = "put" => t.rest # <<>>) /\ TxTyped(t) /\ InStep(t)
  BY <1>2 DEF PseudonymsInv, Workers, TxTyped, InStep
<1>4. /\ Resolvable(t) /\ Noted(t) /\ (deletion.pc # "idle" => t.doc # deletion.doc)
      /\ DOMAIN t.puts \cap DOMAIN mappings = {}
      /\ \A v \in Worker \ {w} : DOMAIN t.puts \cap DOMAIN tx[v].puts = {}
  BY <1>2 DEF Resolving, Referenced, Fresh, Judged, Noted
<1>5. TokensIn(<<>>) = {}
  BY DEF TokensIn, InText
<1>6. ASSUME NEW u, Sets(w, u), DOMAIN u.puts = {}, TokensIn(u.out) = {}, TokensIn(u.rest) = {},
             deletion.pc # "idle" => u.doc # deletion.doc
      PROVE  Resolving'
  <2>1. Resolvable(u) /\ Noted(u)
    BY <1>6 DEF Resolvable, Noted
  <2> QED BY <1>1, <1>6, <2>1, StillReferenced
<1>7. ASSUME NEW d \in Doc, Anonymize(w, d) PROVE Resolving'
  <2>1. PICK u : u = [Idle EXCEPT !.pc = "scan", !.doc = d, !.rest = Neutralise(SourceText[d])]
    OBVIOUS
  <2>2. u.out = <<>> /\ u.rest = Neutralise(SourceText[d]) /\ u.puts = <<>> /\ u.doc = d
    BY <2>1 DEF Idle
  <2>3. TokensIn(u.out) = {} /\ TokensIn(u.rest) = {} /\ DOMAIN u.puts = {}
    BY <1>5, <2>2, NoTokensAtFirst
  <2>4. Sets(w, u) /\ deletion.doc # d
    BY <1>7, <2>1 DEF Anonymize
  <2> QED BY <1>6, <2>2, <2>3, <2>4
<1>8. ASSUME NEW u, Sets(w, u), u.doc = t.doc, u.puts = t.puts,
             TokensIn(u.out) \cup TokensIn(u.rest) \subseteq TokensIn(t.out) \cup TokensIn(t.rest)
      PROVE  Resolving'
  <2>1. Resolvable(u) /\ Noted(u)
    BY <1>4, <1>8 DEF Resolvable, Noted
  <2> QED BY <1>1, <1>4, <1>8, <2>1, StillReferenced
<1>9. CASE Scan(w)
  <2>1. CASE t.rest # <<>> /\ IsHit(Head(t.rest), t.layer)
    <3>1. PICK k : Sets(w, [t EXCEPT !.pc = IF k = NoKey THEN "mint" ELSE "put", !.key = k])
      BY <1>2, <1>9, <2>1 DEF Scan
    <3>2. PICK u : u = [t EXCEPT !.pc = IF k = NoKey THEN "mint" ELSE "put", !.key = k]
      OBVIOUS
    <3>3. u.out = t.out /\ u.rest = t.rest /\ u.puts = t.puts /\ u.doc = t.doc
      BY <1>3, <3>2 DEF Idle
    <3> QED BY <1>8, <3>1, <3>2, <3>3
  <2>2. CASE t.rest # <<>> /\ ~IsHit(Head(t.rest), t.layer)
    <3>1. PICK u : u = [t EXCEPT !.rest = Tail(t.rest), !.out = Append(t.out, Head(t.rest))]
      OBVIOUS
    <3>2. Sets(w, u)
      BY <1>2, <1>9, <2>2, <3>1 DEF Scan
    <3>3. u.rest = Tail(t.rest) /\ u.out = Append(t.out, Head(t.rest)) /\ u.puts = t.puts /\ u.doc = t.doc
      BY <1>3, <3>1 DEF Idle
    <3>4. /\ TokensIn(Tail(t.rest)) \subseteq TokensIn(t.rest)
          /\ TokensIn(Append(t.out, Head(t.rest))) \subseteq TokensIn(t.out) \cup TokensIn(t.rest)
      BY <1>3, <2>2, TextOf
    <3> QED BY <1>8, <3>2, <3>3, <3>4
  <2>3. CASE t.rest = <<>> /\ t.layer = "pattern"
    <3>1. PICK u : u = [t EXCEPT !.layer = "entity", !.rest = t.out, !.out = <<>>]
      OBVIOUS
    <3>2. Sets(w, u)
      BY <1>2, <1>9, <2>3, <3>1 DEF Scan
    <3>3. u.rest = t.out /\ u.out = <<>> /\ u.puts = t.puts /\ u.doc = t.doc
      BY <1>3, <3>1 DEF Idle
    <3> QED BY <1>5, <1>8, <3>2, <3>3
  <2>4. CASE t.rest = <<>> /\ t.layer # "pattern"
    <3>1. PICK u : u = [t EXCEPT !.pc = "register"]
      OBVIOUS
    <3>2. Sets(w, u)
      BY <1>2, <1>9, <2>4, <3>1 DEF Scan
    <3>3. u.out = t.out /\ u.rest = t.rest /\ u.puts = t.puts /\ u.doc = t.doc
      BY <1>3, <3>1 DEF Idle
    <3> QED BY <1>8, <3>2, <3>3
  <2> QED BY <2>1, <2>2, <2>3, <2>4
<1>10. CASE Mint(w)
  <2>1. PICK k : Sets(w, [t EXCEPT !.pc = "put", !.key = k])
    BY <1>2, <1>10 DEF Mint
  <2>2. PICK u : u = [t EXCEPT !.pc = "put", !.key = k]
    OBVIOUS
  <2>3. u.out = t.out /\ u.rest = t.rest /\ u.puts = t.puts /\ u.doc = t.doc
    BY <1>3, <2>2 DEF Idle
  <2> QED BY <1>8, <2>1, <2>2, <2>3
<1>11. CASE Put(w)
  <2>1. PICK token, puts : /\ token = Token(Head(t.rest).what, t.key)
                           /\ puts = StorePut(t.puts, token, Head(t.rest).what)
    OBVIOUS
  <2>2. PICK u : u = [t EXCEPT !.pc = "scan", !.rest = Tail(t.rest), !.out = Append(t.out, token), !.puts = puts]
    OBVIOUS
  <2>3. /\ Sets(w, u) /\ t.pc = "put" /\ token \notin deletion.orphans
        /\ \A v \in Worker \ {w} : token \notin DOMAIN tx[v].puts
    BY <1>2, <1>11, <2>1, <2>2 DEF Put
  <2>4. u.rest = Tail(t.rest) /\ u.out = Append(t.out, token) /\ u.puts = puts /\ u.doc = t.doc
    BY <1>3, <2>2 DEF Idle
  <2>5. token \in Piece
    BY <1>3, <2>1, <2>3, Replaced DEF Piece
  <2>6. /\ TokensIn(Tail(t.rest)) \subseteq TokensIn(t.rest)
        /\ TokensIn(Append(t.out, token)) \subseteq TokensIn(t.out) \cup {token}
    BY <1>3, <2>3, <2>5, TextOf
  <2>7. \/ puts = t.puts /\ token \in DOMAIN mappings \cup DOMAIN t.puts
        \/ DOMAIN puts = DOMAIN t.puts \cup {token} /\ token \notin DOMAIN mappings
    BY <2>1 DEF StorePut, Overlay
  <2>8. Resolvable(u)
    BY <1>4, <2>4, <2>6, <2>7 DEF Resolvable
  <2>9. Noted(u)
    BY <1>4, <2>3, <2>4, <2>6 DEF Noted
  <2>10. /\ DOMAIN puts \cap DOMAIN mappings = {}
         /\ \A v \in Worker \ {w} : DOMAIN puts \cap DOMAIN tx[v].puts = {}
    BY <1>4, <2>3, <2>7
  <2> QED BY <1>1, <1>4, <2>3, <2>4, <2>8, <2>9, <2>10, StillReferenced
<1>12. CASE Fail(w)
  <2>1. TokensIn(Idle.out) = {} /\ TokensIn(Idle.rest) = {} /\ DOMAIN Idle.puts = {} /\ Idle.doc = NoDoc
    BY <1>5 DEF Idle
  <2>2. deletion.pc # "idle" => NoDoc # deletion.doc
    BY PseudonymsAssumption DEF Resolving, Judged
  <2> QED BY <1>6, <1>12, <2>1, <2>2 DEF Fail
<1> QED BY <1>7, <1>9, <1>10, <1>11, <1>12

\* A worker that ends brings its rows, its registrations, and no other tokens.
LEMMA FinishKeepsReferences ==
  ASSUME PseudonymsInv, Resolving, NEW w \in Worker, Finish(w)
  PROVE  Resolving'
<1>1. PICK t : t = tx[w]
  OBVIOUS
<1>2. /\ deletion' = deletion /\ registry' = registry \cup Registered(t.doc, t.out)
      /\ raced' = raced \ DOMAIN t.puts /\ DOMAIN mappings' = DOMAIN mappings \cup DOMAIN t.puts
      /\ tx'[w] = Idle /\ \A v \in Worker \ {w} : tx'[v] = tx[v]
  BY <1>1 DEF Finish, Overlay, Sets, PseudonymsInv, Workers
<1>3. /\ Resolvable(t) /\ (deletion.pc # "idle" => t.doc # deletion.doc /\ Noted(t))
      /\ DOMAIN t.puts \cap DOMAIN mappings = {}
      /\ \A v \in Worker \ {w} : DOMAIN t.puts \cap DOMAIN tx[v].puts = {}
  BY <1>1 DEF Resolving, Referenced, Fresh, Judged
<1>4. TokensIn(Idle.out) = {} /\ TokensIn(Idle.rest) = {} /\ DOMAIN Idle.puts = {} /\ Idle.doc = NoDoc
  BY DEF Idle, TokensIn, InText
<1>5. DOMAIN mappings \cup raced \subseteq DOMAIN mappings' \cup raced'
  BY <1>2
<1>6. Fresh'
  <2>1. \A v \in Worker : DOMAIN tx'[v].puts \cap DOMAIN mappings' = {}
    BY <1>2, <1>3, <1>4 DEF Resolving, Fresh
  <2>2. \A v, x \in Worker : v # x => DOMAIN tx'[v].puts \cap DOMAIN tx'[x].puts = {}
    BY <1>2, <1>4 DEF Resolving, Fresh
  <2> QED BY <2>1, <2>2 DEF Fresh
<1>7. Referenced'
  <2>1. TokensIn(t.out) \subseteq DOMAIN mappings' \cup raced'
    BY <1>2, <1>3, <1>5 DEF Resolvable
  <2>2. \A r \in registry' : r[2] \in DOMAIN mappings' \cup raced'
    BY <1>2, <1>5, <2>1 DEF Registered, Resolving, Referenced
  <2>3. ASSUME NEW v \in Worker
        PROVE  TokensIn(tx'[v].out) \cup TokensIn(tx'[v].rest) \subseteq DOMAIN mappings' \cup DOMAIN tx'[v].puts \cup raced'
    <3>1. CASE v = w
      BY <1>2, <1>4, <3>1
    <3>2. CASE v # w
      BY <1>2, <1>5, <3>2 DEF Resolving, Referenced, Resolvable
    <3> QED BY <3>1, <3>2
  <2>4. ASSUME NEW v \in Worker PROVE Resolvable(tx[v])'
    BY <2>3 DEF Resolvable, TokensIn, InText
  <2> QED BY <2>2, <2>4 DEF Referenced
<1>8. Judged'
  <2>1. CASE deletion.pc = "idle"
    BY <1>2, <2>1 DEF Resolving, Judged
  <2>2. CASE deletion.pc # "idle"
    <3>1. deletion.doc \in Doc /\ deletion.orphans \subseteq DOMAIN mappings
      BY <2>2 DEF Resolving, Judged
    <3>2. raced \cap deletion.orphans \subseteq raced'
      BY <1>2, <1>3, <3>1
    <3>3. \A v \in Worker : tx'[v].doc # deletion.doc
      BY <1>2, <1>4, <2>2, <3>1, PseudonymsAssumption DEF Resolving, Judged
    <3>4. ASSUME NEW v \in Worker
          PROVE  (TokensIn(tx'[v].out) \cup TokensIn(tx'[v].rest)) \cap deletion.orphans \subseteq raced'
      <4>1. CASE v = w
        BY <1>2, <1>4, <4>1
      <4>2. CASE v # w
        BY <1>2, <2>2, <3>2, <4>2 DEF Resolving, Judged, Noted
      <4> QED BY <4>1, <4>2
    <3>5. ASSUME NEW v \in Worker PROVE Noted(tx[v])'
      BY <1>2, <3>4 DEF Noted, TokensIn, InText
    <3>6. ASSUME NEW r \in registry'
          PROVE  IF r[1] = deletion.doc THEN r[2] \in deletion.tokens
                 ELSE r[2] \in deletion.orphans => r[2] \in raced'
      <4>1. CASE r \in registry
        BY <2>2, <3>2, <4>1 DEF Resolving, Judged
      <4>2. CASE r \in Registered(t.doc, t.out)
        <5>1. r[1] = t.doc /\ r[2] \in TokensIn(t.out)
          BY <4>2 DEF Registered
        <5> QED BY <1>3, <2>2, <3>2, <5>1 DEF Noted
      <4> QED BY <1>2, <4>1, <4>2
    <3>7. deletion'.orphans \subseteq DOMAIN mappings'
      BY <1>2, <3>1
    <3> QED BY <1>2, <2>2, <3>1, <3>3, <3>5, <3>6, <3>7 DEF Judged
  <2> QED BY <2>1, <2>2
<1> QED BY <1>6, <1>7, <1>8 DEF Resolving

LEMMA JudgingKeepsReferences ==
  ASSUME PseudonymsInv, Resolving, NEW d \in Doc, Judge(d)
  PROVE  Resolving'
<1>1. PICK own : own = {r[2] : r \in {x \in registry : x[1] = d}}
  OBVIOUS
<1>2. PICK orphans : orphans = {p \in own : ~Shared(d, p) /\ p \in DOMAIN mappings}
  OBVIOUS
<1>3. /\ deletion'.pc = "commit" /\ deletion'.doc = d /\ deletion'.tokens = own /\ deletion'.orphans = orphans
      /\ UNCHANGED <<mappings, registry, tx>> /\ \A w \in Worker : tx[w].doc # d
      /\ raced' = raced \cup {p \in orphans : \E w \in Worker : p \in Written(w)}
  BY <1>1, <1>2 DEF Judge
<1>4. Fresh'
  BY <1>3 DEF Resolving, Fresh
<1>5. Referenced'
  <2>1. \A r \in registry' : r[2] \in DOMAIN mappings' \cup raced'
    BY <1>3 DEF Resolving, Referenced
  <2>2. ASSUME NEW v \in Worker PROVE Resolvable(tx[v])'
    <3>1. TokensIn(tx'[v].out) \cup TokensIn(tx'[v].rest) \subseteq DOMAIN mappings' \cup DOMAIN tx'[v].puts \cup raced'
      BY <1>3 DEF Resolving, Referenced, Resolvable
    <3> QED BY <3>1 DEF Resolvable, TokensIn, InText
  <2> QED BY <2>1, <2>2 DEF Referenced
<1>6. Judged'
  <2>1. ASSUME NEW r \in registry
        PROVE  IF r[1] = d THEN r[2] \in own ELSE r[2] \notin orphans
    <3>1. CASE r[1] = d
      BY <1>1, <3>1
    <3>2. CASE r[1] # d
      <4>1. r = <<r[1], r[2]>> /\ r[1] \in Doc \ {d}
        BY <3>2 DEF PseudonymsInv, Registers
      <4>2. Shared(d, r[2])
        BY <4>1 DEF Shared
      <4> QED BY <1>2, <3>2, <4>2
    <3> QED BY <3>1, <3>2
  <2>2. ASSUME NEW v \in Worker PROVE Noted(tx[v])'
    <3>1. (TokensIn(tx'[v].out) \cup TokensIn(tx'[v].rest)) \cap orphans \subseteq raced'
      BY <1>3 DEF Written
    <3> QED BY <1>3, <3>1 DEF Noted, TokensIn, InText
  <2>3. orphans \subseteq DOMAIN mappings' /\ \A w \in Worker : tx'[w].doc # d
    BY <1>2, <1>3
  <2> QED BY <1>3, <2>1, <2>2, <2>3 DEF Judged
<1> QED BY <1>4, <1>5, <1>6 DEF Resolving

LEMMA DeletionKeepsReferences ==
  ASSUME PseudonymsInv, Resolving, CommitDeletion
  PROVE  Resolving'
<1>1. /\ DOMAIN mappings' = DOMAIN mappings \ deletion.orphans
      /\ registry' = {r \in registry : ~(r[1] = deletion.doc /\ r[2] \in deletion.tokens)}
      /\ deletion'.pc = "idle" /\ deletion'.orphans = {} /\ UNCHANGED <<tx, raced>>
  BY DEF CommitDeletion, Without, NoDelete
<1>2. /\ \A w \in Worker : Noted(tx[w])
      /\ \A r \in registry : IF r[1] = deletion.doc THEN r[2] \in deletion.tokens
                             ELSE r[2] \in deletion.orphans => r[2] \in raced
  BY DEF CommitDeletion, Resolving, Judged
<1>3. Fresh'
  BY <1>1 DEF Resolving, Fresh
<1>4. Referenced'
  <2>1. \A r \in registry' : r[2] \in DOMAIN mappings' \cup raced'
    BY <1>1, <1>2 DEF Resolving, Referenced
  <2>2. ASSUME NEW v \in Worker PROVE Resolvable(tx[v])'
    <3>1. TokensIn(tx'[v].out) \cup TokensIn(tx'[v].rest) \subseteq DOMAIN mappings' \cup DOMAIN tx'[v].puts \cup raced'
      BY <1>1, <1>2 DEF Resolving, Referenced, Resolvable, Noted
    <3> QED BY <3>1 DEF Resolvable, TokensIn, InText
  <2> QED BY <2>1, <2>2 DEF Referenced
<1>5. Judged'
  BY <1>1 DEF Judged
<1> QED BY <1>3, <1>4, <1>5 DEF Resolving

LEMMA ReferencesKept ==
  ASSUME PseudonymsInv, Resolving, [PNext]_pvars
  PROVE  Resolving'
<1>1. ASSUME NEW w \in Worker,
             (\E d \in Doc : Anonymize(w, d)) \/ Scan(w) \/ Mint(w) \/ Put(w) \/ Fail(w)
      PROVE  Resolving'
  BY <1>1, WorkerKeepsReferences
<1>2. ASSUME NEW w \in Worker, Finish(w) PROVE Resolving'
  BY <1>2, FinishKeepsReferences
<1>3. ASSUME UNCHANGED <<tx, registry, deletion, raced>>, DOMAIN mappings' = DOMAIN mappings PROVE Resolving'
  <2>1. Fresh'
    BY <1>3 DEF Resolving, Fresh
  <2>2. \A r \in registry' : r[2] \in DOMAIN mappings' \cup raced'
    BY <1>3 DEF Resolving, Referenced
  <2>3. ASSUME NEW v \in Worker PROVE Resolvable(tx[v])'
    <3>1. TokensIn(tx'[v].out) \cup TokensIn(tx'[v].rest) \subseteq DOMAIN mappings' \cup DOMAIN tx'[v].puts \cup raced'
      BY <1>3 DEF Resolving, Referenced, Resolvable
    <3> QED BY <3>1 DEF Resolvable, TokensIn, InText
  <2>4. Judged'
    <3>1. CASE deletion.pc = "idle"
      BY <1>3, <3>1 DEF Resolving, Judged
    <3>2. CASE deletion.pc # "idle"
      <4>1. ASSUME NEW v \in Worker PROVE Noted(tx[v])'
        <5>1. (TokensIn(tx'[v].out) \cup TokensIn(tx'[v].rest)) \cap deletion'.orphans \subseteq raced'
          BY <1>3, <3>2 DEF Resolving, Judged, Noted
        <5> QED BY <5>1 DEF Noted, TokensIn, InText
      <4>2. /\ deletion'.pc # "idle" /\ deletion'.doc \in Doc /\ deletion'.orphans \subseteq DOMAIN mappings'
            /\ \A v \in Worker : tx'[v].doc # deletion'.doc
            /\ \A r \in registry' : IF r[1] = deletion'.doc THEN r[2] \in deletion'.tokens
                                    ELSE r[2] \in deletion'.orphans => r[2] \in raced'
        BY <1>3, <3>2 DEF Resolving, Judged
      <4> QED BY <4>1, <4>2 DEF Judged
    <3> QED BY <3>1, <3>2
  <2> QED BY <2>1, <2>2, <2>3, <2>4 DEF Resolving, Referenced
<1>4. CASE CommitRotation
  BY <1>3, <1>4, RotationCommits DEF CommitRotation
<1>5. ASSUME NEW d \in Doc, Judge(d) PROVE Resolving'
  BY <1>5, JudgingKeepsReferences
<1>6. CASE CommitDeletion
  BY <1>6, DeletionKeepsReferences
<1>7. CASE UNCHANGED <<tx, registry, deletion, mappings, raced>>
  BY <1>3, <1>7
<1> QED BY <1>1, <1>2, <1>4, <1>5, <1>6, <1>7
        DEF PNext, pvars, BeginRotation, Retire, MintNew, Deposit, Reencrypt, StopRotation

LEMMA PseudonymsInit ==
  ASSUME PInit
  PROVE  PseudonymsInv /\ Resolving
<1>1. VaultTyped /\ Registers /\ Store(mappings)
  BY PseudonymsAssumption DEF PInit, VaultTyped, Registers, Store
<1>2. Workers
  BY EmptyIsTyped DEF PInit, Workers
<1>3. Delivered
  BY EmptyIsTyped DEF PInit, Delivered
<1>4. RotationTyped /\ Judged
  BY DEF PInit, RotationTyped, NoRotate, Judged, NoDelete
<1>5. KeysCounted
  <2>1. ASSUME NEW type \in Type PROVE Surplus(type) = 0
    <3>1. KeysOf(type) = {} /\ ActiveFor(type) = {}
      BY DEF PInit, KeysOf, ActiveFor
    <3> QED BY <3>1, FS_EmptySet DEF Surplus
  <2> QED BY <2>1 DEF PInit, KeysCounted, NoRotate
<1>6. Referenced /\ Fresh
  BY DEF PInit, Referenced, Fresh, Resolvable, Idle, TokensIn, InText
<1> QED BY <1>1, <1>2, <1>3, <1>4, <1>5, <1>6 DEF PseudonymsInv, Resolving

-----------------------------------------------------------------------------
(* The requests go on beside it. *)

LEMMA StepIsPseudonyms ==
  ASSUME [Next]_vars
  PROVE  [PNext]_pvars
BY DEF Next, vars, Begin, Decide, Narrow, Open, Pseudonymizing, Administering

\* Keys, rows, texts and their makers are as they should be, always: every
\* token was made under a key of the vault for a value of its type, every row
\* is under a key the vault has, and every text has at each place what the
\* source had there.
THEOREM PseudonymsInvariant == Spec => []PseudonymsInv
<1>1. Init => PseudonymsInv
  BY PseudonymsInit DEF Init
<1>2. PseudonymsInv /\ [Next]_vars => PseudonymsInv'
  BY PseudonymsStep, StepIsPseudonyms
<1> QED BY <1>1, <1>2, PTL DEF Spec

\* A mapping can be opened, whatever rotations, crashes and deletions did
\* (mapping_store.reencrypt, rotate_keys).
THEOREM MappingsCanBeOpened == Spec => []MappingsOpen
<1>1. PseudonymsInv => MappingsOpen
  BY DEF PseudonymsInv, Store, IsRowOf, MappingsOpen, Resolves
<1> QED BY <1>1, PseudonymsInvariant, PTL

\* A value has one token more than the rotations there were, at most: the keys
\* of a type are counted, and a token is its value and its key.
THEOREM TokensFollowRotations == Spec => []OneTokenPerRotation
<1>1. ASSUME PseudonymsInv, NEW v \in Spelling,
             NEW same, same = {p \in {r[2] : r \in registry} \cup UNION {DOMAIN tx[w].puts : w \in Worker} :
                                  p.what = <<TypeOf[v], NormOf[v]>>}
      PROVE  Cardinality(same) <= 1 + done.rotate
  <2>1. PICK type : type = TypeOf[v] /\ type \in Type
    BY PseudonymsAssumption
  <2>2. ASSUME NEW p \in same PROVE p.key \in KeysOf(type) /\ p = [kind |-> "token", what |-> <<type, NormOf[v]>>, key |-> p.key]
    <3>1. Genuine(p)
      <4>1. CASE p \in {r[2] : r \in registry}
        BY <1>1, <4>1 DEF PseudonymsInv, Registers
      <4>2. CASE p \in UNION {DOMAIN tx[w].puts : w \in Worker}
        BY <1>1, <4>2 DEF PseudonymsInv, Workers, TxTyped, Store
      <4> QED BY <1>1, <4>1, <4>2
    <3>2. PICK x \in Spelling, k \in Key : HasKey(k, TypeOf[x]) /\ p = Token(x, k)
      BY <3>1 DEF Genuine
    <3>3. p = [kind |-> "token", what |-> <<TypeOf[x], NormOf[x]>>, key |-> k]
      BY <3>2 DEF Token
    <3>4. p.what = <<type, NormOf[v]>>
      BY <1>1, <2>1
    <3>5. TypeOf[x] = type /\ NormOf[x] = NormOf[v] /\ p.key = k
      BY <3>3, <3>4
    <3> QED BY <3>2, <3>3, <3>5 DEF HasKey, KeysOf
  <2>3. IsFiniteSet(KeysOf(type)) /\ Cardinality(KeysOf(type)) \in Nat
    BY <1>1, FiniteKeys DEF PseudonymsInv
  <2>4. PICK f : f = [p \in same |-> p.key]
    OBVIOUS
  <2>5. f \in Injection(same, KeysOf(type))
    BY <2>2, <2>4 DEF Injection, IsInjective
  <2>6. Cardinality(same) <= Cardinality(KeysOf(type)) /\ IsFiniteSet(same)
    BY <2>3, <2>5, FS_Injection
  <2>7. Cardinality(KeysOf(type)) <= done.rotate + 1 /\ done.rotate \in Nat
    BY <1>1, <2>1, <2>3 DEF PseudonymsInv, KeysCounted, Surplus
  <2>8. Cardinality(same) \in Nat
    BY <2>6, FS_CardinalityType
  <2> QED BY <2>3, <2>6, <2>7, <2>8
<1>2. PseudonymsInv => OneTokenPerRotation
  BY <1>1 DEF OneTokenPerRotation
<1> QED BY <1>2, PseudonymsInvariant, PTL

\* Beside whatever else goes on, a registered token keeps its row until the last
\* document that has it is deleted, and the only way to lose it is the one the
\* history names: its row was taken while a worker that had used it had not
\* registered it yet (deletion.py, pseudonym_registry.py).
THEOREM RegisteredTokensResolve == Spec => []ReferencedTokensResolve
<1> DEFINE Inv == PseudonymsInv /\ Resolving
<1>1. Init => Inv
  BY PseudonymsInit DEF Init
<1>2. Inv /\ [Next]_vars => Inv'
  BY PseudonymsStep, StepIsPseudonyms, ReferencesKept
<1>3. Inv => ReferencedTokensResolve
  BY DEF Resolving, Referenced, ReferencedTokensResolve
<1> QED BY <1>1, <1>2, <1>3, PTL DEF Spec

-----------------------------------------------------------------------------
(* What a reveal shows. *)

RequestTyped ==
  /\ DOMAIN req = DOMAIN NoReq
  /\ req.pc \in {"idle", "decide", "narrow", "open"}
  /\ req.pc # "idle" => req.ask \in Asks
  /\ req.pc \in {"narrow", "open"} => TextMirrors(req.text, req.ask.doc)

LEMMA RequestStep ==
  ASSUME PseudonymsInv, RequestTyped, [Next]_vars
  PROVE  RequestTyped'
<1>1. Kept
  BY StepIsPseudonyms, RotationTypes
<1>2. ASSUME req' = NoReq PROVE RequestTyped'
  BY <1>2 DEF RequestTyped, NoReq
<1>3. ASSUME UNCHANGED req PROVE RequestTyped'
  <2>1. PICK text, d : text = req.text /\ d = req.ask.doc
    OBVIOUS
  <2>2. req.pc \in {"narrow", "open"} => TextMirrors(text, d)'
    BY <1>1, <2>1, MeaningKept DEF RequestTyped
  <2>3. req'.pc \in {"narrow", "open"} => TextMirrors(req.text, req.ask.doc)'
    BY <1>3, <2>1, <2>2
  <2> QED BY <1>3, <2>3 DEF RequestTyped
<1>4. ASSUME NEW ask \in Asks, NEW g \in Grants, Begin(ask, g) PROVE RequestTyped'
  <2>1. \/ req' = NoReq
        \/ \E caller : req' = [NoReq EXCEPT !.pc = "decide", !.caller = caller, !.ask = ask, !.g = g,
                                           !.grant = grants[g], !.late = g \in expired]
    BY <1>4 DEF Begin
  <2>2. ASSUME NEW caller, req' = [NoReq EXCEPT !.pc = "decide", !.caller = caller, !.ask = ask, !.g = g,
                                           !.grant = grants[g], !.late = g \in expired]
        PROVE  DOMAIN req' = DOMAIN NoReq /\ req'.pc = "decide" /\ req'.ask = ask
    BY <2>2 DEF NoReq
  <2>3. CASE req' # NoReq
    BY <2>1, <2>2, <2>3 DEF RequestTyped
  <2> QED BY <1>2, <2>3
<1>5. CASE Decide /\ req' # NoReq
  <2>1. PICK text, d : text = texts[req.ask.doc] /\ d = req.ask.doc
    OBVIOUS
  <2>2. /\ req' = [req EXCEPT !.pc = "narrow", !.text = text,
                              !.wants = IF req.ask.types # {} THEN req.ask.types ELSE PermittedTypes(req.grant)]
        /\ text # <<>> /\ req.ask \in Asks /\ d \in Doc
    BY <1>5, <2>1, RevealAssumption DEF Decide, RequestTyped
  <2>3. DOMAIN req' = DOMAIN NoReq /\ req'.pc = "narrow" /\ req'.text = text /\ req'.ask = req.ask
    BY <2>2 DEF RequestTyped, NoReq
  <2>4. TextMirrors(text, d)'
    BY <1>1, <2>1, <2>2, MeaningKept DEF PseudonymsInv, Delivered
  <2>5. TextMirrors(req.text, req.ask.doc)'
    BY <2>1, <2>3, <2>4
  <2> QED BY <2>2, <2>3, <2>5 DEF RequestTyped
<1>6. CASE Narrow /\ req' # NoReq
  <2>1. PICK text, d : text = req.text /\ d = req.ask.doc
    OBVIOUS
  <2>2. PICK allowed : req' = [req EXCEPT !.pc = "open", !.allowed = allowed]
    BY <1>6 DEF Narrow
  <2>3. /\ DOMAIN req' = DOMAIN NoReq /\ req'.pc = "open" /\ req'.text = text /\ req'.ask = req.ask
        /\ req.ask \in Asks
    BY <1>6, <2>1, <2>2 DEF RequestTyped, NoReq, Narrow
  <2>4. TextMirrors(text, d)'
    BY <1>1, <1>6, <2>1, MeaningKept DEF RequestTyped, Narrow
  <2>5. TextMirrors(req.text, req.ask.doc)'
    BY <2>1, <2>3, <2>4
  <2> QED BY <2>3, <2>5 DEF RequestTyped
<1>7. CASE Open
  BY <1>2, <1>7 DEF Open
<1> QED BY <1>2, <1>3, <1>4, <1>5, <1>6, <1>7 DEF Next, vars, Pseudonymizing, Administering

\* What is shown where a text has a.
Shows(d, types, a) == IF a.kind = "token" /\ Opens(d, types, a) THEN Value(mappings[a].plain) ELSE a

\* A place of an answer, against the same place of the source.
LEMMA OpenShowsSource ==
  ASSUME PseudonymsInv, NEW d \in Doc, NEW types, NEW a, NEW o \in SourceSpans, Mirrors(a, o), NEW shows,
         shows = Shows(d, types, a)
  PROVE  /\ shows.kind = "value" => o.kind = "value" /\ NormOf[shows.what] = NormOf[o.what]
         /\ shows.kind = "token" => o.kind = "value" /\ shows.what = <<TypeOf[o.what], NormOf[o.what]>>
         /\ shows.kind = "defused" => o.kind = "token"
         /\ shows.kind \notin {"value", "token", "defused"} => shows = o
         /\ shows.kind = "value" /\ a.kind = "token" => TypeOf[shows.what] \in types
<1>1. CASE a.kind = "token"
  <2>1. PICK k \in Key : o.kind = "value" /\ a = Token(o.what, k)
    BY <1>1 DEF Mirrors
  <2>2. a.what = <<TypeOf[o.what], NormOf[o.what]>>
    BY <2>1 DEF Token
  <2>3. CASE Opens(d, types, a)
    <3>1. PICK v : v = mappings[a].plain
      OBVIOUS
    <3>2. a \in DOMAIN mappings /\ a.what[1] \in types /\ a.what = <<TypeOf[v], NormOf[v]>>
      BY <2>3, <3>1 DEF Opens, PseudonymsInv, Store, IsRowOf
    <3>3. shows.kind = "value" /\ shows.what = v
      BY <1>1, <2>3, <3>1 DEF Shows, Value, Span
    <3>4. TypeOf[v] \in types /\ NormOf[v] = NormOf[o.what]
      BY <2>2, <3>2
    <3> QED BY <2>1, <3>3, <3>4
  <2>4. CASE ~Opens(d, types, a)
    BY <1>1, <2>1, <2>2, <2>4 DEF Shows
  <2> QED BY <2>3, <2>4
<1>2. CASE a.kind # "token"
  <2>1. shows = a
    BY <1>2 DEF Shows
  <2>2. \A v : \A k \in Key : Token(v, k).kind = "token"
    BY DEF Token
  <2>3. (a = o /\ o.kind # "token") \/ (o.kind = "token" /\ a.kind = "defused")
    BY <1>2, <2>2 DEF Mirrors
  <2>4. o.kind # "defused"
    BY PseudonymsAssumption
  <2> QED BY <1>2, <2>1, <2>3, <2>4
<1> QED BY <1>1, <1>2

LEMMA OpenAnswers ==
  ASSUME PseudonymsInv, RequestTyped, Open
  PROVE  \E s : /\ shown' = shown \cup {s}
                /\ s.doc = req.ask.doc /\ s.vc = req.ask.vc /\ s.source = req.text /\ s.could = could
                /\ s.doc \in Doc /\ DOMAIN s.answer = 1 .. Len(req.text)
                /\ \A i \in 1 .. Len(req.text) :
                     /\ SourceText[s.doc][i] \in SourceSpans
                     /\ Mirrors(req.text[i], SourceText[s.doc][i])
                     /\ s.answer[i] = Shows(req.ask.doc, req.allowed, req.text[i])
<1>1. PICK text, d : text = req.text /\ d = req.ask.doc
  OBVIOUS
<1>2. d \in Doc /\ TextMirrors(text, d)
  BY <1>1, RevealAssumption DEF Open, RequestTyped
<1>3. /\ DOMAIN text = 1 .. Len(text) /\ SourceText[d] \in Seq(SourceSpans)
      /\ \A i \in 1 .. Len(text) : SourceText[d][i] \in SourceSpans /\ Mirrors(text[i], SourceText[d][i])
  BY <1>2, PseudonymsAssumption DEF TextMirrors
<1>4. PICK answer : answer = [i \in DOMAIN text |->
         Shows(d, req.allowed, text[i])]
  OBVIOUS
<1>5. PICK s : s = [doc |-> d, vc |-> req.ask.vc, source |-> text, could |-> could, answer |-> answer]
  OBVIOUS
<1>6. shown' = shown \cup {s}
  BY <1>1, <1>4, <1>5 DEF Open, Shows
<1>7. s.doc = d /\ s.vc = req.ask.vc /\ s.source = text /\ s.could = could /\ s.answer = answer
  BY <1>5
<1> QED BY <1>1, <1>2, <1>3, <1>4, <1>6, <1>7

LEMMA ShownIsKept ==
  ASSUME [Next]_vars, ~Open
  PROVE  shown' = shown
BY DEF Next, vars, Begin, Decide, Narrow, Pseudonymizing, Administering

\* A reveal shows what the source had, or its token, and of a token that was in
\* the source itself nothing (Pseudonymizer, deanonymize).
THEOREM RevealsShowTheSource == Spec => []RevealsWhatWasThere
<1> DEFINE Inv == PseudonymsInv /\ RequestTyped /\ RevealsWhatWasThere
<1>1. Init => Inv
  BY PseudonymsInit DEF Init, RequestTyped, NoReq, RevealsWhatWasThere
<1>2. ASSUME Inv, [Next]_vars PROVE Inv'
  <2>1. PseudonymsInv' /\ RequestTyped'
    BY <1>2, PseudonymsStep, StepIsPseudonyms, RequestStep
  <2>2. CASE ~Open
    BY <1>2, <2>1, <2>2, ShownIsKept DEF RevealsWhatWasThere
  <2>3. CASE Open
    <3>1. PICK s : /\ shown' = shown \cup {s} /\ s.doc \in Doc /\ s.doc = req.ask.doc
                   /\ DOMAIN s.answer = 1 .. Len(req.text)
                   /\ \A i \in 1 .. Len(req.text) :
                     /\ SourceText[s.doc][i] \in SourceSpans
                     /\ Mirrors(req.text[i], SourceText[s.doc][i])
                     /\ s.answer[i] = Shows(req.ask.doc, req.allowed, req.text[i])
      BY <1>2, <2>3, OpenAnswers
    <3>2. ASSUME NEW i \in DOMAIN s.answer
          PROVE  CASE s.answer[i].kind = "value" -> SourceText[s.doc][i].kind = "value"
                                                    /\ NormOf[s.answer[i].what] = NormOf[SourceText[s.doc][i].what]
                   [] s.answer[i].kind = "token" -> SourceText[s.doc][i].kind = "value" /\ s.answer[i].what =
                                     <<TypeOf[SourceText[s.doc][i].what], NormOf[SourceText[s.doc][i].what]>>
                   [] s.answer[i].kind = "defused" -> SourceText[s.doc][i].kind = "token"
                   [] OTHER -> s.answer[i] = SourceText[s.doc][i]
      <4>1. PICK a, o, shows, types, d : /\ a = req.text[i] /\ o = SourceText[s.doc][i] /\ shows = s.answer[i]
                                         /\ types = req.allowed /\ d = s.doc /\ d \in Doc
        BY <3>1
      <4>2. /\ o \in SourceSpans /\ Mirrors(a, o)
            /\ shows = Shows(d, types, a)
        BY <3>1, <4>1
      <4>3. /\ shows.kind = "value" => o.kind = "value" /\ NormOf[shows.what] = NormOf[o.what]
            /\ shows.kind = "token" => o.kind = "value" /\ shows.what = <<TypeOf[o.what], NormOf[o.what]>>
            /\ shows.kind = "defused" => o.kind = "token"
            /\ shows.kind \notin {"value", "token", "defused"} => shows = o
        BY <1>2, <4>1, <4>2, OpenShowsSource
      <4> QED BY <4>1, <4>3
    <3>3. RevealsWhatWasThere'
      BY <1>2, <3>1, <3>2 DEF RevealsWhatWasThere
    <3> QED BY <2>1, <3>3
  <2> QED BY <2>2, <2>3
<1>3. Inv => RevealsWhatWasThere
  OBVIOUS
<1> QED BY <1>1, <1>2, <1>3, PTL DEF Spec

-----------------------------------------------------------------------------
(* What a reveal was permitted. *)

\* What authorize asks of the grant as it was read, apart from the types.
StandsAsRead(q) ==
  /\ q.grant.status = "active" /\ ~q.late
  /\ IsRecipient(q.caller, q.grant) /\ InScope(q.grant, q.ask.doc)

\* What a request goes by was so since it began, and what it may open it was
\* given.
NotedSince ==
  req.pc # "idle" =>
    /\ StandsAsRead(req) => could.held
    /\ TypesNow(req) \subseteq could.types
    /\ req.pc = "open" =>
         /\ req.allowed \subseteq could.types
         /\ req.allowed # {} => could.held
         /\ VcKey # NoVcKey /\ req.ask.vc.presented => req.allowed \subseteq req.ask.vc.types

\* A decision permits what the grant as read stands for and its types, or its
\* role, give now.
LEMMA AuthorizeIsWithin ==
  ASSUME AuthEnabled = TRUE, NEW types
  PROVE  LET given == Authorize(req.grant, req.late, req.ask.doc, types, req.caller) IN
         given \subseteq TypesNow(req) /\ (given # {} => StandsAsRead(req))
<1>1. PermittedTypes(req.grant) \subseteq TypesNow(req)
  BY DEF PermittedTypes, ResolveRole, TypesNow
<1> QED BY <1>1 DEF Authorize, StandsAsRead

LEMMA GateNarrows ==
  ASSUME NEW allowed, NEW vc
  PROVE  LET gate == VcGate(allowed, vc) IN
         /\ gate.types \subseteq allowed
         /\ VcKey # NoVcKey /\ vc.presented => gate.types \subseteq vc.types
<1>1. CASE VcKey = NoVcKey
  BY <1>1 DEF VcGate
<1>2. CASE VcKey # NoVcKey /\ ~vc.presented
  BY <1>2 DEF VcGate
<1>3. CASE VcKey # NoVcKey /\ vc.presented
  BY <1>3 DEF VcGate, VcTypes
<1> QED BY <1>1, <1>2, <1>3

LEMMA NotedStep ==
  ASSUME AuthEnabled = TRUE, RequestTyped, NotedSince, [Next]_vars
  PROVE  NotedSince'
<1>1. CASE UNCHANGED vars
  BY <1>1 DEF vars, avars, NotedSince, TypesNow, StandsAsRead, InScope, IsRecipient
<1>2. CASE Next /\ req'.pc = "idle"
  BY <1>2 DEF NotedSince
<1>3. ASSUME Next, req'.pc # "idle"
      PROVE  /\ HeldNow(req)' => could'.held
             /\ TypesNow(req)' \subseteq could'.types
             /\ could.types \subseteq could'.types
             /\ could.held => could'.held
  BY <1>3 DEF Next, Notes
<1>4. ASSUME NEW ask \in Asks, NEW g \in Grants, Begin(ask, g), Next, req'.pc # "idle" PROVE NotedSince'
  <2>1. PICK caller : req' = [NoReq EXCEPT !.pc = "decide", !.caller = caller, !.ask = ask, !.g = g,
                                           !.grant = grants[g], !.late = g \in expired]
    <3>1. \/ req' = NoReq
          \/ \E caller : req' = [NoReq EXCEPT !.pc = "decide", !.caller = caller, !.ask = ask, !.g = g,
                                             !.grant = grants[g], !.late = g \in expired]
      BY <1>4 DEF Begin
    <3>2. req' # NoReq
      BY <1>4 DEF NoReq
    <3> QED BY <3>1, <3>2
  <2>2. /\ req'.pc = "decide" /\ req'.caller = caller /\ req'.ask = ask /\ req'.g = g
        /\ req'.grant = grants[g] /\ req'.late = (g \in expired)
    BY <2>1 DEF NoReq
  <2>3. grants' = grants /\ expired' = expired
    BY <1>4 DEF Begin
  <2>4. StandsAsRead(req)' => HeldNow(req)'
    BY <2>2, <2>3 DEF StandsAsRead, HeldNow, IsRecipient, InScope
  <2> QED BY <1>3, <1>4, <2>2, <2>4 DEF NotedSince
<1>5. ASSUME Next, req.pc # "idle", req'.pc # "idle", req'.grant = req.grant, req'.late = req.late,
             req'.caller = req.caller, req'.ask = req.ask
      PROVE  /\ StandsAsRead(req)' => could'.held
             /\ TypesNow(req)' \subseteq could'.types
  <2>1. StandsAsRead(req)' => StandsAsRead(req)
    BY <1>5 DEF StandsAsRead, IsRecipient, InScope
  <2> QED BY <1>3, <1>5, <2>1 DEF NotedSince
<1>6. CASE Next /\ Decide /\ req'.pc # "idle"
  <2>1. PICK text, wants : req' = [req EXCEPT !.pc = "narrow", !.text = text, !.wants = wants]
    <3>1. \/ req' = NoReq
          \/ req' = [req EXCEPT !.pc = "narrow", !.text = texts[req.ask.doc],
                                 !.wants = IF req.ask.types # {} THEN req.ask.types ELSE PermittedTypes(req.grant)]
      BY <1>6 DEF Decide
    <3>2. req' # NoReq
      BY <1>6 DEF NoReq
    <3> QED BY <3>1, <3>2
  <2>2. /\ req'.pc = "narrow" /\ req'.grant = req.grant /\ req'.late = req.late
        /\ req'.caller = req.caller /\ req'.ask = req.ask
    BY <2>1 DEF RequestTyped, NoReq
  <2>3. req.pc # "idle"
    BY <1>6 DEF Decide
  <2> QED BY <1>5, <1>6, <2>2, <2>3 DEF NotedSince
<1>7. CASE Next /\ Narrow /\ req'.pc # "idle"
  <2>1. PICK given, gate : /\ given = Authorize(req.grant, req.late, req.ask.doc, req.wants, req.caller)
                           /\ gate = VcGate(given, req.ask.vc)
    OBVIOUS
  <2>2. req' = [req EXCEPT !.pc = "open", !.allowed = gate.types]
    BY <1>7, <2>1 DEF Narrow, NoReq
  <2>3. /\ req'.pc = "open" /\ req'.grant = req.grant /\ req'.late = req.late
        /\ req'.caller = req.caller /\ req'.ask = req.ask /\ req'.allowed = gate.types
    BY <2>2 DEF RequestTyped, NoReq
  <2>4. req.pc # "idle"
    BY <1>7 DEF Narrow
  <2>5. given \subseteq TypesNow(req) /\ (given # {} => StandsAsRead(req))
    BY <2>1, AuthorizeIsWithin
  <2>6. gate.types \subseteq given /\ (VcKey # NoVcKey /\ req.ask.vc.presented => gate.types \subseteq req.ask.vc.types)
    BY <2>1, GateNarrows
  <2>7. gate.types \subseteq could'.types /\ (gate.types # {} => could'.held)
    BY <1>3, <1>7, <2>3, <2>4, <2>5, <2>6 DEF NotedSince
  <2> QED BY <1>5, <1>7, <2>3, <2>4, <2>6, <2>7 DEF NotedSince
<1>8. CASE Next /\ UNCHANGED req /\ req'.pc # "idle"
  BY <1>3, <1>5, <1>8 DEF NotedSince
<1>9. Open => req'.pc = "idle"
  BY DEF Open, NoReq
<1> QED BY <1>1, <1>2, <1>4, <1>6, <1>7, <1>8, <1>9 DEF Next, Pseudonymizing, Administering

\* With callers authenticated, a type is shown only if since the request began
\* its grant stood and gave it, or the role the grant names did, and within the
\* credential (authorize, permitted_types, apply_vc_gate).
THEOREM RevealsArePermitted ==
  ASSUME AuthEnabled = TRUE
  PROVE  Spec => []RevealsWhatWasPermitted
<1> DEFINE Inv == PseudonymsInv /\ RequestTyped /\ NotedSince /\ RevealsWhatWasPermitted
<1>1. Init => Inv
  BY PseudonymsInit DEF Init, RequestTyped, NoReq, NotedSince, RevealsWhatWasPermitted
<1>2. ASSUME Inv, [Next]_vars PROVE Inv'
  <2>1. PseudonymsInv' /\ RequestTyped' /\ NotedSince'
    BY <1>2, PseudonymsStep, StepIsPseudonyms, RequestStep, NotedStep
  <2>2. CASE ~Open
    BY <1>2, <2>1, <2>2, ShownIsKept DEF RevealsWhatWasPermitted
  <2>3. CASE Open
    <3>1. PICK s : /\ shown' = shown \cup {s} /\ s.doc \in Doc /\ s.doc = req.ask.doc
                   /\ s.vc = req.ask.vc /\ s.source = req.text /\ s.could = could
                   /\ DOMAIN s.answer = 1 .. Len(req.text)
                   /\ \A i \in 1 .. Len(req.text) :
                     /\ SourceText[s.doc][i] \in SourceSpans
                     /\ Mirrors(req.text[i], SourceText[s.doc][i])
                     /\ s.answer[i] = Shows(req.ask.doc, req.allowed, req.text[i])
      BY <1>2, <2>3, OpenAnswers
    <3>2. /\ req.allowed \subseteq could.types
          /\ req.allowed # {} => could.held
          /\ VcKey # NoVcKey /\ req.ask.vc.presented => req.allowed \subseteq req.ask.vc.types
      BY <1>2, <2>3 DEF NotedSince, Open
    <3>3. ASSUME NEW i \in DOMAIN s.answer, s.answer[i].kind = "value", s.source[i].kind = "token"
          PROVE  TypeOf[s.answer[i].what] \in req.allowed
      <4>1. PICK a, o, shows, types, d : /\ a = req.text[i] /\ o = SourceText[s.doc][i] /\ shows = s.answer[i]
                                         /\ types = req.allowed /\ d = s.doc /\ d \in Doc
        BY <3>1
      <4>2. o \in SourceSpans /\ Mirrors(a, o) /\ shows = Shows(d, types, a) /\ a.kind = "token"
        BY <3>1, <3>3, <4>1
      <4>3. shows.kind = "value" /\ a.kind = "token" => TypeOf[shows.what] \in types
        BY <1>2, <4>1, <4>2, OpenShowsSource
      <4> QED BY <3>3, <4>1, <4>2, <4>3
    <3>4. RevealsWhatWasPermitted'
      BY <1>2, <3>1, <3>2, <3>3 DEF RevealsWhatWasPermitted
    <3> QED BY <2>1, <3>4
  <2> QED BY <2>2, <2>3
<1>3. Inv => RevealsWhatWasPermitted
  OBVIOUS
<1> QED BY <1>1, <1>2, <1>3, PTL DEF Spec
=============================================================================
