------------------------------- MODULE Detection -------------------------------
(***************************************************************************)
(* From a text to one without PII (detectors.py, openanonymiser_driver.py, *)
(* particle_names.py, detection_lists.py, normalization.py, anonymizer.py, *)
(* ReversibleAnonymizer): validated patterns first, then an engine that    *)
(* gets the text in chunks, side by side, and may fail; then the lists and *)
(* the replacement by value.  Retried by the pipeline.                     *)
(*                                                                         *)
(* A text is a sequence of pieces: <<"p", piece>>, a word or what is       *)
(* between words; <<"t", label, value>>, what was put in the place of a    *)
(* value, kept in it here: a token, or with the irreversible driver a      *)
(* placeholder.                                                            *)
(***************************************************************************)
EXTENDS Sorting, Sequences, SequencesExt

CONSTANTS Text, Word, Size,      \* texts; the pieces of letters; the length of a piece
          Space, Newline, Slash, Scheme, Number, PoBox,
          Digits,                \* the digits of a piece that looks like a BSN
          Signs,                 \* what an IBAN's letters and digits stand for, rearranged
          EmailPiece, PostcodePiece,
          FirstName, Particle, LastName,
          DenyList, AllowList,   \* a type and a value each
          LabelsOf,              \* the values the engine may report, and as what
          MaxChars, Concurrency, MinLen, Attempts

\* Pieces of a text or of a value, and no mark that holds the place of another.
Pieces(s) == s \in Seq({s[k] : k \in DOMAIN s}) /\ \A k \in DOMAIN s : s[k][1] # "h"

ASSUME DetectionAssumption ==
  /\ MaxChars \in Nat \ {0} /\ Concurrency \in Nat \ {0}
  /\ MinLen \in Nat /\ Attempts \in Nat \ {0}
  /\ \A t \in Text : Pieces(t)
  /\ \A x \in LabelsOf : Pieces(x[1])
  /\ \A e \in DenyList : Pieces(e.value)

VARIABLES text, reversible, pc, body, calls, tries, out

dvars == <<text, reversible, pc, body, calls, tries, out>>

P(p)      == <<"p", p>>
Put(l, v)   == <<"t", l, v>>
IsToken(x)  == x[1] = "t"
IsWord(x)   == x[1] = "p" /\ x[2] \in Word
IsBlank(x)  == x \in {P(Space), P(Newline)}

-----------------------------------------------------------------------------
(* Deterministic detectors. *)

\* is_valid_bsn: the eleven test.
Weights == <<9, 8, 7, 6, 5, 4, 3, 2, 10>>     \* -1 is 10 modulo 11
IsValidBsn(d) ==
  /\ Len(d) = 9 /\ \E i \in 1 .. 9 : d[i] # 0
  /\ FoldLeftDomain(LAMBDA sum, i : sum + d[i] * Weights[i], 0, d) % 11 = 0
\* is_valid_iban: modulo 97; a letter stands for two digits.
IsValidIban(s) == FoldLeft(LAMBDA r, c : (r * (IF c > 9 THEN 100 ELSE 10) + c) % 97, 0, s) = 1
\* _postcode_context: not on the line of a post office box.
InPoBox(t, i) ==
  i > 4 /\ t[i - 4] = P(PoBox) /\ IsBlank(t[i - 3]) /\ t[i - 2] = P(Number) /\ ~IsWord(t[i - 1])

\* DETECTORS, in their order.
LabelAt(t, i) ==
  LET p == t[i][2] IN
  IF t[i][1] # "p" THEN "none"
  ELSE IF p \in DOMAIN Digits /\ IsValidBsn(Digits[p]) THEN "bsn"
  ELSE IF p \in DOMAIN Signs /\ IsValidIban(Signs[p]) THEN "iban"
  ELSE IF p \in EmailPiece THEN "email"
  ELSE IF p \in PostcodePiece /\ ~InPoBox(t, i) THEN "postcode"
  ELSE "none"
\* substitute.
Deterministic(t) ==
  [i \in DOMAIN t |-> IF LabelAt(t, i) = "none" THEN t[i] ELSE Put(LabelAt(t, i), <<t[i]>>)]

-----------------------------------------------------------------------------
(* Parts of a text. *)

\* From the left: a part begins where no part is that began before; last is
\* where a part ends that begins there.
Heads(last) ==
  CHOOSE S \in SUBSET DOMAIN last : \A i \in DOMAIN last : i \in S <=> ~\E j \in S : j < i /\ i <= last[j]
Rising(S) == Ordered(S, {p \in S \X S : p[1] < p[2]})
Parts(t, S) ==
  LET at == Rising(S) IN
  [k \in DOMAIN at |-> SubSeq(t, at[k], IF k = Len(at) THEN Len(t) ELSE at[k + 1] - 1)]
Joined(ss) ==
  LET upto[n \in 0 .. Len(ss)] == IF n = 0 THEN <<>> ELSE upto[n - 1] \o ss[n] IN upto[Len(ss)]

\* As many whole lines as fit, or as much of a line that does not.
ChunkEnd(t, i) ==
  LET ends == {j \in i .. Len(t) : j - i < MaxChars /\ (t[j] = P(Newline) \/ j = Len(t))} IN
  IF ends = {} THEN i + MaxChars - 1 ELSE Max(ends)
ChunkText(t) == Parts(t, Heads([i \in DOMAIN t |-> ChunkEnd(t, i)]))

-----------------------------------------------------------------------------
(* Replacement by value. *)

\* Where a value ends that begins at i.  Whole words: nothing of a word on
\* either side.
Ends(t, i, vs) ==
  {j \in i .. Len(t) : /\ SubSeq(t, i, j) \in vs
                       /\ i > 1 => ~IsWord(t[i - 1])
                       /\ j < Len(t) => ~IsWord(t[j + 1])}
Occurs(t, v) == \E i \in DOMAIN t : Ends(t, i, {v}) # {}
Length(v) == FoldLeft(LAMBDA n, x : n + (IF x[1] = "p" THEN Size[x[2]] ELSE 14), 0, v)

\* The longest value first.
Shortest(t, i, vs) == IF Ends(t, i, vs) = {} THEN i ELSE Min(Ends(t, i, vs))
Longest(t, i, vs)  == IF Ends(t, i, vs) = {} THEN i ELSE Max(Ends(t, i, vs))

\* One pass from left to right over what was not put in; a match that begins
\* in a token stays as it is.
Replaced(t, labels) ==
  LET last  == [i \in DOMAIN t |-> Longest(t, i, DOMAIN labels)]
      begun == Heads(last)
      left  == {i \in DOMAIN t : i \in begun \/ \E j \in begun : j < i /\ i <= last[j] /\ IsToken(t[j])}
      gone  == {i \in begun : Ends(t, i, DOMAIN labels) # {} /\ ~IsToken(t[i])}
      at    == Rising(left)
      value(i) == SubSeq(t, i, last[i])
  IN [k \in DOMAIN at |-> IF at[k] \in gone THEN Put(labels[value(at[k])], value(at[k])) ELSE t[at[k]]]

Strip(v) ==
  LET kept == {i \in DOMAIN v : ~IsBlank(v[i])} IN
  IF kept = {} THEN <<>> ELSE SubSeq(v, Min(kept), Max(kept))

\* The check after it: with every token masked by something that keeps the
\* boundaries of its value (a token of before by a word), is a value left?
\* Side is 0 for how x ends, 1 for how it begins.
WordAt(x, side, labels) ==
  IF ~IsToken(x) THEN IsWord(x)
  ELSE x[3] \in DOMAIN labels /\ labels[x[3]] = x[2] => IsWord(x[3][IF side = 1 THEN 1 ELSE Len(x[3])])
Survives(t, labels) ==
  \E i \in DOMAIN t : \E j \in i .. Len(t) :
    /\ SubSeq(t, i, j) \in DOMAIN labels /\ \A k \in i .. j : ~IsToken(t[k])
    /\ i > 1 => ~WordAt(t[i - 1], 0, labels)
    /\ j < Len(t) => ~WordAt(t[j + 1], 1, labels)

-----------------------------------------------------------------------------
(* Names, addresses and lists. *)

\* particle_names.detect: a name of the gazetteer, a particle, a last name.
ParticleNames(t) ==
  {SubSeq(t, i, i + 4) : i \in {j \in DOMAIN t :
     /\ j + 4 <= Len(t) /\ t[j][2] \in FirstName /\ t[j + 2][2] \in Particle /\ t[j + 4][2] \in LastName
     /\ t[j + 1] = P(Space) /\ t[j + 3] = P(Space)}}
\* The web addresses: from a scheme to the next blank.
Urls(t) ==
  {u \in (DOMAIN t) \X (DOMAIN t) :
     /\ t[u[1]] = P(Scheme) /\ u[1] < u[2] /\ \A k \in u[1] .. u[2] : ~IsBlank(t[k])
     /\ u[2] < Len(t) => IsBlank(t[u[2] + 1])}
Listed(t) ==
  {e \in DenyList : Occurs(t, e.value)}
    \cup {[label |-> "url", value |-> SubSeq(t, u[1], u[2])] : u \in Urls(t)}
\* _host_span of an allowed address: up to its path.
Hosts(t) ==
  UNION {u[1] .. (CHOOSE j \in u[1] .. u[2] :
                    (j = u[2] \/ t[j + 1] = P(Slash)) /\ \A k \in u[1] .. j : t[k] # P(Slash)) :
         u \in {w \in Urls(t) : [label |-> "url", value |-> SubSeq(t, w[1], w[2])] \in AllowList}}
\* _hosts_eruit: a placeholder that nothing matches, and back.
WithoutHosts(t) == [i \in DOMAIN t |-> IF i \in Hosts(t) THEN <<"h", t[i]>> ELSE t[i]]
Back(t) == [i \in DOMAIN t |-> IF t[i][1] = "h" THEN t[i][2] ELSE t[i]]

\* What is known of the text: what the engine reported, the names, the lists;
\* allow runs last.
Entities(t, found) ==
  (Range(found) \cup {[label |-> "person", value |-> v] : v \in ParticleNames(t)} \cup Listed(t)) \ AllowList
\* The values of the entities, stripped and long enough, each under the type
\* it was found with first.
LabelOf(t, found) ==
  LET es == Entities(t, found)
      said(v) == {k \in DOMAIN found : found[k] \in es /\ Strip(found[k].value) = v}
      person(v) == [label |-> "person", value |-> v]
  IN [v \in {u \in {Strip(e.value) : e \in es} : Length(u) >= MinLen} |->
        IF said(v) # {} THEN found[Min(said(v))].label
        ELSE IF v \in ParticleNames(t) /\ person(v) \in es THEN "person"
        ELSE (CHOOSE e \in es : Strip(e.value) = v).label]

\* _apply_deny, and the engine's own text.
Redacted(t, es) == Replaced(t, [v \in {Strip(e.value) : e \in es} |-> (CHOOSE e \in es : Strip(e.value) = v).label])

-----------------------------------------------------------------------------
(* A text goes through the driver. *)

DInit ==
  /\ text \in Text /\ reversible \in BOOLEAN
  /\ pc = "scan" /\ body = <<>> /\ calls = <<>> /\ tries = 0 /\ out = <<>>

Waiting == [status |-> "waiting", found |-> <<>>, text |-> <<>>]

\* The patterns, the deny list of the irreversible driver, and the chunks.
\* Nothing left to look at: no engine.
Scan ==
  /\ pc = "scan"
  /\ LET scanned == Deterministic(text)
         t == IF reversible THEN scanned ELSE Redacted(scanned, Listed(scanned)) IN
     /\ body' = t
     /\ IF \A i \in DOMAIN t : IsBlank(t[i])
        THEN pc' = "done" /\ out' = t /\ UNCHANGED calls
        ELSE pc' = "detect" /\ calls' = [k \in DOMAIN ChunkText(t) |-> [Waiting EXCEPT !.text = ChunkText(t)[k]]] /\ UNCHANGED out
  /\ UNCHANGED <<text, reversible, tries>>

With(s) == {k \in DOMAIN calls : calls[k].status = s}

\* The pool takes the chunks in order, at most so many at a time.
Call(k) ==
  /\ pc = "detect" /\ k \in With("waiting")
  /\ \A j \in With("waiting") : k <= j
  /\ Cardinality(With("called")) < Concurrency
  /\ calls' = [calls EXCEPT ![k].status = "called"]
  /\ UNCHANGED <<text, reversible, pc, body, tries, out>>

\* What the engine reports of a chunk: values that stand in it.
Reports(t) ==
  LET es == {[label |-> x[2], value |-> x[1]] : x \in {y \in LabelsOf : Occurs(t, Strip(y[1]))}} IN
  {<<>>} \cup {<<e>> : e \in es} \cup (es \X es)
Answer(k, es) ==
  /\ pc = "detect" /\ k \in With("called") /\ es \in Reports(calls[k].text)
  /\ calls' = [calls EXCEPT ![k] = [status |-> "done", found |-> es,
                                    text |-> IF reversible THEN @.text ELSE Redacted(@.text, Range(es))]]
  /\ UNCHANGED <<text, reversible, pc, body, tries, out>>
CallFails(k) ==
  /\ pc = "detect" /\ k \in With("called")
  /\ calls' = [calls EXCEPT ![k].status = "failed"]
  /\ UNCHANGED <<text, reversible, pc, body, tries, out>>

\* One failed chunk fails the text; retry_transient has it done again, all of
\* it, so many times.
EngineError ==
  /\ pc = "detect" /\ With("called") = {} /\ With("failed") # {}
  /\ tries' = tries + 1
  /\ pc' = IF tries' < Attempts THEN "scan" ELSE "failed"
  /\ calls' = <<>>
  /\ UNCHANGED <<text, reversible, body, out>>

AllDone == pc = "detect" /\ \A k \in DOMAIN calls : calls[k].status = "done"
\* The chunks in their order, whichever answered first.
Redact ==
  /\ AllDone /\ ~reversible
  /\ out' = Joined([k \in DOMAIN calls |-> calls[k].text])
  /\ pc' = "done"
  /\ UNCHANGED <<text, reversible, body, calls, tries>>
Labels == LabelOf(body, Joined([k \in DOMAIN calls |-> calls[k].found]))
\* A value that survives is refused, for good.
Pseudonymize ==
  /\ AllDone /\ reversible
  /\ LET put == Replaced(WithoutHosts(body), Labels) IN
     IF Survives(put, Labels) THEN pc' = "refused" /\ UNCHANGED out
     ELSE pc' = "done" /\ out' = Back(put)
  /\ UNCHANGED <<text, reversible, body, calls, tries>>

DNext ==
  \/ Scan \/ EngineError \/ Redact \/ Pseudonymize
  \/ \E k \in DOMAIN calls : Call(k)
  \/ \E k \in DOMAIN calls : CallFails(k)
  \/ \E k \in DOMAIN calls : \E es \in Reports(calls[k].text) : Answer(k, es)
DSpec == DInit /\ [][DNext]_dvars

-----------------------------------------------------------------------------
\* The places where a value stands, in an allowed host aside.
Matches(t, vs) == {o \in (DOMAIN t) \X (DOMAIN t) : o[2] \in Ends(WithoutHosts(t), o[1], vs)}
Crosses(a, b)  == a[1] < b[1] /\ b[1] <= a[2] /\ a[2] < b[2]
\* A match that begins in a token of before stays, and hides a value in it that
\* stands right beside a token.
Hides(t, a, o) ==
  /\ IsToken(t[a[1]]) /\ a[1] < o[1] /\ o[2] <= a[2]
  /\ IsToken(t[o[1] - 1]) \/ (o[2] < Len(t) /\ IsToken(t[o[2] + 1]))
MustGo(t, vs) ==
  {o \in Matches(t, vs) :
     /\ \A i \in o[1] .. o[2] : ~IsToken(t[i])
     /\ \A a \in Matches(t, vs) : ~Crosses(a, o) /\ ~Crosses(o, a) /\ ~Hides(t, a, o)}

\* With parts of the text t that begin at S: each stands in the result r as it
\* is, or as what remembers its value.
Restores(r, t, S) ==
  LET parts == Parts(t, S) IN
  /\ t = <<>> \/ 1 \in S
  /\ Len(r) = Len(parts)
  /\ \A k \in DOMAIN r : parts[k] = <<r[k]>> \/ (IsToken(r[k]) /\ r[k][3] = parts[k])
\* The places of the text that stand in the result as they are.
Stays(r, t, S) == LET at == Rising(S) IN {at[k] : k \in {n \in DOMAIN r : r[n] = t[at[n]]}}

\* What comes out is the text that the patterns left, and nothing else: cut into
\* parts, in their order, every part as it is or replaced by what remembers its
\* value, the addresses that are kept and the tokens of before included; and
\* with the reversible driver no piece is left of a place where a value stands,
\* unless two values cross there or a match that begins in a token hides it.
OnlyValuesGo ==
  pc = "done" =>
    \E S \in SUBSET DOMAIN body :
      /\ Restores(out, body, S)
      /\ reversible => \A o \in MustGo(body, DOMAIN Labels) : (o[1] .. o[2]) \cap Stays(out, body, S) = {}
=============================================================================
