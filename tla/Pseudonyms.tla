------------------------------ MODULE Pseudonyms ------------------------------
(***************************************************************************)
(* Reversible pseudonyms: pseudonymizer.py, the key vault and providers of *)
(* keys.py and transit.py, the mapping store, the registry of which token  *)
(* belongs to which document, rotation with escrow, and the part of a      *)
(* document's deletion that removes mappings.                              *)
(*                                                                         *)
(* Every operation of the vault is a transaction of its own (it opens a    *)
(* session per call); mappings and registrations are in the transaction of *)
(* the operation.  The HMAC of a value is an injective function of key,    *)
(* type and normalised value: the eight hex digits are taken not to        *)
(* collide.  A key's material is its number.  A text is a sequence of      *)
(* spans; a span of kind "value" stands for the longest detected value at  *)
(* its place, and the hosts of allowed addresses are spans of their own.   *)
(***************************************************************************)
EXTENDS Integers, Sequences, FiniteSets

CONSTANTS Doc, Dataset, NoDoc,
          SourceText,       \* the extracted text, or the selected cells, of a Doc
          Spelling, NormOf, \* spellings of values and what normalize makes of them
          TypeOf,           \* the PII type of a spelling
          LayerOf,          \* "pattern", "entity", or "short": less than _MIN_ENTITY_LEN
          Type, Worker,
          MaxKeys, MaxRotations, MaxRuns, MaxDeletions

SourceSpans == UNION {{SourceText[d][i] : i \in DOMAIN SourceText[d]} : d \in Doc}

ASSUME PseudonymsAssumption ==
  /\ Dataset \subseteq Doc /\ NoDoc \notin Doc
  /\ MaxKeys \in Nat /\ MaxRotations \in Nat /\ MaxRuns \in Nat /\ MaxDeletions \in Nat
  /\ TypeOf \in [Spelling -> Type]
  /\ SourceText \in [Doc -> Seq(SourceSpans)]
  /\ \A s \in SourceSpans : /\ s.kind \in {"word", "value", "host", "token"}
                            /\ s.kind = "value" => s.what \in Spelling

Key   == 1 .. MaxKeys
NoKey == 0

Span(kind, what, key) == [kind |-> kind, what |-> what, key |-> key]
Word(x)  == Span("word", x, NoKey)
Value(v) == Span("value", v, NoKey)
Host(v)  == Span("host", v, NoKey)

VARIABLES
  vault,      \* rows of key_vault: number -> scope (one per type here) and status
  escrow,     \* keys deposited in escrow
  mappings,   \* committed rows of pii_mappings: token -> key, key it is sealed under, spelling
  registry,   \* committed rows of document_pseudonyms
  texts,      \* committed anonymized texts; <<>> is none
  tx,         \* what each worker is doing, with its uncommitted rows
  rotation,   \* the same for the operator who rotates
  deletion,   \* the same for a deletion
  done,       \* how often each bounded operation was started
  raced       \* history: tokens whose row a deletion takes from under a worker that
              \* has put them into its text and not registered them yet

pvars == <<vault, escrow, mappings, registry, texts, tx, rotation, deletion, done, raced>>

Idle     == [pc |-> "idle", doc |-> NoDoc, layer |-> "pattern", rest |-> <<>>, out |-> <<>>,
             key |-> NoKey, puts |-> <<>>]
NoRotate == [pc |-> "idle", type |-> NoDoc, old |-> NoKey, new |-> NoKey, rows |-> {}]
NoDelete == [pc |-> "idle", doc |-> NoDoc, tokens |-> {}, orphans |-> {}]

PInit ==
  /\ vault = <<>> /\ escrow = {} /\ mappings = <<>> /\ registry = {}
  /\ texts = [d \in Doc |-> <<>>]
  /\ tx = [w \in Worker |-> Idle]
  /\ rotation = NoRotate /\ deletion = NoDelete
  /\ done = [run |-> 0, rotate |-> 0, delete |-> 0]
  /\ raced = {}

Overlay(f, g) == [x \in DOMAIN f \cup DOMAIN g |-> IF x \in DOMAIN g THEN g[x] ELSE f[x]]
Without(f, S) == [x \in DOMAIN f \ S |-> f[x]]

-----------------------------------------------------------------------------
(* The key vault and the provider. *)

ActiveFor(type) == {k \in DOMAIN vault : vault[k] = [type |-> type, status |-> "active"]}
Resolves(k)     == k \in DOMAIN vault

VaultPut(type, k) ==
  /\ Len(vault) < MaxKeys
  /\ k = Len(vault) + 1
  /\ vault' = Append(vault, [type |-> type, status |-> "active"])
SetStatus(keys, status) ==
  vault' = [k \in DOMAIN vault |-> IF k \in keys THEN [vault[k] EXCEPT !.status = status] ELSE vault[k]]

\* The partial unique index lets one active key in per scope: who loses adopts it.
MintOrAdopt(type, k) ==
  IF ActiveFor(type) = {} THEN VaultPut(type, k) ELSE k \in ActiveFor(type) /\ UNCHANGED vault

\* current_key reads the vault every time, so rotations show; NoKey: none yet.
CurrentKey(type) == IF ActiveFor(type) = {} THEN {NoKey} ELSE ActiveFor(type)

-----------------------------------------------------------------------------
(* Anonymizing a text. *)

NeutraliseNothing(text) == text
\* Tokens that are already in the source are taken apart.
Neutralise(text) ==
  [i \in DOMAIN text |->
     IF text[i].kind = "token" THEN Span("defused", text[i].what, text[i].key) ELSE text[i]]

IsHit(span, layer) == span.kind = "value" /\ LayerOf[span.what] = layer

\* _token: an HMAC over the normalised value, under the key of its type.
Token(v, k) == [kind |-> "token", what |-> <<TypeOf[v], NormOf[v]>>, key |-> k]

InText(text)  == {text[i] : i \in DOMAIN text}
TokensIn(text) == {s \in InText(text) : s.kind = "token"}

Sets(w, t) == tx' = [tx EXCEPT ![w] = t]

Anonymize(w, d) ==
  /\ tx[w].pc = "idle"
  /\ done.run < MaxRuns
  /\ \A v \in Worker : tx[v].doc # d
  /\ deletion.doc # d
  /\ done' = [done EXCEPT !.run = @ + 1]
  /\ Sets(w, [Idle EXCEPT !.pc = "scan", !.doc = d, !.rest = Neutralise(SourceText[d])])
  /\ UNCHANGED <<vault, escrow, mappings, registry, texts, rotation, deletion, raced>>

\* One span that stays, or the key for one that does not; after the last span
\* the entity layer goes over what the deterministic layer made.
Scan(w) ==
  LET t == tx[w] IN
  /\ t.pc = "scan"
  /\ IF t.rest # <<>>
     THEN IF IsHit(Head(t.rest), t.layer)
          THEN \E k \in CurrentKey(TypeOf[Head(t.rest).what]) :
                 Sets(w, [t EXCEPT !.pc = IF k = NoKey THEN "mint" ELSE "put", !.key = k])
          ELSE Sets(w, [t EXCEPT !.rest = Tail(@), !.out = Append(@, Head(t.rest))])
     ELSE IF t.layer = "pattern"
          THEN Sets(w, [t EXCEPT !.layer = "entity", !.rest = t.out, !.out = <<>>])
          ELSE Sets(w, [t EXCEPT !.pc = "register"])
  /\ UNCHANGED <<vault, escrow, mappings, registry, texts, rotation, deletion, done, raced>>

Mint(w) ==
  /\ tx[w].pc = "mint"
  /\ \E k \in Key :
       /\ MintOrAdopt(TypeOf[Head(tx[w].rest).what], k)
       /\ Sets(w, [tx[w] EXCEPT !.pc = "put", !.key = k])
  /\ UNCHANGED <<escrow, mappings, registry, texts, rotation, deletion, done, raced>>

\* The row of the mapping store: INSERT ... ON CONFLICT DO NOTHING.
StorePut(puts, token, v) ==
  IF token \in DOMAIN mappings \cup DOMAIN puts THEN puts
  ELSE Overlay(puts, [p \in {token} |-> [key |-> token.key, sealed |-> token.key, plain |-> v]])

\* The token of a value under the current key, and its mapping; the insert
\* waits for another transaction that has inserted, or is removing, the row.
Put(w) ==
  LET t == tx[w]  v == Head(t.rest).what  token == Token(v, t.key) IN
  /\ t.pc = "put"
  /\ \A u \in Worker \ {w} : token \notin DOMAIN tx[u].puts
  /\ token \notin deletion.orphans
  /\ Sets(w, [t EXCEPT !.pc = "scan", !.rest = Tail(@), !.out = Append(@, token),
                       !.puts = StorePut(@, token, v)])
  /\ UNCHANGED <<vault, escrow, mappings, registry, texts, rotation, deletion, done, raced>>

\* The text is stored and its tokens registered; nothing is unregistered.  A
\* dataset goes back to the caller and registers nothing.
Registered(d, text) == IF d \in Dataset THEN {} ELSE {<<d, p>> : p \in TokensIn(text)}

Finish(w) ==
  LET t == tx[w] IN
  /\ t.pc = "register"
  /\ mappings' = Overlay(mappings, t.puts)
  /\ registry' = registry \cup Registered(t.doc, t.out)
  /\ texts' = IF t.doc \in Dataset THEN texts ELSE [texts EXCEPT ![t.doc] = t.out]
  /\ Sets(w, Idle)
  /\ raced' = raced \ DOMAIN t.puts
  /\ UNCHANGED <<vault, escrow, rotation, deletion, done>>

\* The detection service or the database fails; a minted key stays.
Fail(w) ==
  /\ tx[w].pc # "idle"
  /\ Sets(w, Idle)
  /\ UNCHANGED <<vault, escrow, mappings, registry, texts, rotation, deletion, done, raced>>

-----------------------------------------------------------------------------
(* rotate_keys.  The caller of it commits the mappings at the end. *)

Rotates(r) == rotation' = r

BeginRotation(type) ==
  /\ rotation.pc = "idle"
  /\ done.rotate < MaxRotations
  /\ done' = [done EXCEPT !.rotate = @ + 1]
  /\ \E k \in Key : /\ MintOrAdopt(type, k)
                    /\ Rotates([NoRotate EXCEPT !.pc = "retire", !.type = type, !.old = k])
  /\ UNCHANGED <<escrow, mappings, registry, texts, tx, deletion, raced>>

Retire ==
  /\ rotation.pc = "retire"
  /\ SetStatus(ActiveFor(rotation.type), "retired")
  /\ Rotates([rotation EXCEPT !.pc = "mint"])
  /\ UNCHANGED <<escrow, mappings, registry, texts, tx, deletion, done, raced>>

MintNew ==
  /\ rotation.pc = "mint"
  /\ \E k \in Key : /\ MintOrAdopt(rotation.type, k)
                    /\ Rotates([rotation EXCEPT !.pc = "deposit", !.new = k])
  /\ UNCHANGED <<escrow, mappings, registry, texts, tx, deletion, done, raced>>

Deposit ==
  /\ rotation.pc = "deposit"
  /\ escrow' = escrow \cup {rotation.new}
  /\ Rotates([rotation EXCEPT !.pc = "select"])
  /\ UNCHANGED <<vault, mappings, registry, texts, tx, deletion, done, raced>>

\* The rows under the old key, as this statement sees them.
RowsUnder(k) == {p \in DOMAIN mappings : mappings[p].key = k}

Reencrypt ==
  /\ rotation.pc = "select"
  /\ Rotates([rotation EXCEPT !.pc = "commit", !.rows = RowsUnder(rotation.old)])
  /\ UNCHANGED <<vault, escrow, mappings, registry, texts, tx, deletion, done, raced>>

Renamed(m) == [m EXCEPT !.key = rotation.new]
Resealed(m) == [m EXCEPT !.key = rotation.new, !.sealed = rotation.new]

\* An UPDATE that finds its row gone is an error, and nothing is re-encrypted.
CommitRotation ==
  /\ rotation.pc = "commit"
  /\ deletion.orphans \cap rotation.rows = {}
  /\ mappings' = IF rotation.rows \subseteq DOMAIN mappings
                 THEN Overlay(mappings, [p \in rotation.rows |-> Resealed(mappings[p])])
                 ELSE mappings
  /\ Rotates(NoRotate)
  /\ UNCHANGED <<vault, escrow, registry, texts, tx, deletion, done, raced>>

\* The process ends; what the vault has, it keeps.
StopRotation ==
  /\ rotation.pc # "idle"
  /\ Rotates(NoRotate)
  /\ UNCHANGED <<vault, escrow, mappings, registry, texts, tx, deletion, done, raced>>

-----------------------------------------------------------------------------
(* The mappings and registrations of a document that is deleted. *)

\* What a worker has put into its text so far.
Written(w) == TokensIn(tx[w].out) \cup TokensIn(tx[w].rest)

SharedNever(d, p) == FALSE
Shared(d, p) == \E e \in Doc \ {d} : <<e, p>> \in registry

Judge(d) ==
  LET own == {r[2] : r \in {x \in registry : x[1] = d}}
      orphans == {p \in own : ~Shared(d, p) /\ p \in DOMAIN mappings} IN
  /\ deletion.pc = "idle"
  /\ done.delete < MaxDeletions
  /\ texts[d] # <<>>
  /\ \A w \in Worker : tx[w].doc # d
  /\ done' = [done EXCEPT !.delete = @ + 1]
  /\ deletion' = [pc |-> "commit", doc |-> d, tokens |-> own, orphans |-> orphans]
  /\ raced' = raced \cup {p \in orphans : \E w \in Worker : p \in Written(w)}
  /\ UNCHANGED <<vault, escrow, mappings, registry, texts, tx, rotation>>

CommitDeletion ==
  /\ deletion.pc = "commit"
  /\ mappings' = Without(mappings, deletion.orphans)
  /\ registry' = {r \in registry : ~(r[1] = deletion.doc /\ r[2] \in deletion.tokens)}
  /\ texts' = [texts EXCEPT ![deletion.doc] = <<>>]
  /\ deletion' = NoDelete
  /\ UNCHANGED <<vault, escrow, tx, rotation, done, raced>>

PNext ==
  \/ \E w \in Worker : \/ \E d \in Doc : Anonymize(w, d)
                       \/ Scan(w) \/ Mint(w) \/ Put(w) \/ Finish(w) \/ Fail(w)
  \/ \E type \in Type : BeginRotation(type)
  \/ Retire \/ MintNew \/ Deposit \/ Reencrypt \/ CommitRotation \/ StopRotation
  \/ \E d \in Doc : Judge(d)
  \/ CommitDeletion

-----------------------------------------------------------------------------
(* What a reveal gives back: _reveal, with its gates. *)

Opens(d, types, p) ==
  /\ <<d, p>> \in registry
  /\ p.what[1] \in types
  /\ p \in DOMAIN mappings /\ Resolves(mappings[p].key)
=============================================================================
