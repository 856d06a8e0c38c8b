---------------------------- MODULE DossiersProofs ----------------------------
(***************************************************************************)
(* Dossiers, for any number of them, of documents and of operations at the *)
(* same time: names and memberships stay sound, and a document that is     *)
(* deleted with one dossier is in no other, but for a membership that was  *)
(* committed after the deletion had looked at the document.                *)
(***************************************************************************)
EXTENDS Dossiers, FiniteSetTheorems, TLAPS

Moving == {"register", "ensure", "add", "remove", "cut", "note", "read", "write"}
Places == Moving \cup {"idle", "group", "replace", "topics", "judge", "erase", "erased", "release", "tell",
                      "commit", "end"}
Joining == {"new", "known", "move", "adopt"}

Makes(t) == t.op # "topics" /\ t.made # NoDossier

\* Where an operation is, and what it carries.
InPlace(t) ==
  /\ DOMAIN t = DOMAIN Idle
  /\ t.pc \in Places
  /\ t.pc = "idle" => t = Idle
  /\ t.op \in Joining \cup {"none", "reprocess", "topics", "delete"}
  /\ t.pc \in Moving => t.op \in Joining \cup {"reprocess", "delete"}
  /\ t.pc \in Moving \cup {"erase", "erased", "tell"} => t.rest # <<>>
  /\ t.pc = "register" => t.op = "new"
  /\ t.pc = "ensure" => t.op \in Joining
  /\ t.pc \in {"remove", "cut", "note"} => t.op = "move"
  /\ t.op = "new" => t.name \in Name \cup {NoName}
  /\ t.pc = "ensure" \/ t.op \in {"known", "move", "adopt"} => t.name \in Name
  /\ t.op \in {"new", "known", "reprocess"} => Len(t.rest) <= 1
  /\ t.pc = "add" => t.op \in Joining /\ t.id \in Dossier
  /\ t.pc \in {"group", "replace", "topics"} => t.op = "topics"
  /\ t.pc \in {"judge", "erase", "erased"} => t.op = "delete" /\ t.cut = {}
  /\ t.pc \in {"release", "tell"} => t.op = "delete"
  /\ t.put # {} => t.op \in Joining
  /\ t.op = "delete" => t.made = NoDossier
  /\ t.docs \subseteq Doc /\ t.rest \in Seq(t.docs) /\ t.gone \subseteq t.docs
  /\ t.put \subseteq Dossier \X t.docs
  /\ t.op = "adopt" => t.seen \in Seq(t.docs)

\* A dossier made and not committed has no row, and nobody has its name.
MadeIsNew(t) ==
  Makes(t) => /\ t.made \in Dossier /\ t.made <= used.dossier /\ t.name \in Name
              /\ dossiers[t.made] = NoName
              /\ \A i \in Dossier : dossiers[i] # t.name

\* A membership that waits for its commit is in a dossier that is there, or made.
PutIsSound(t) == \A p \in t.put : (Makes(t) /\ p[1] = t.made) \/ dossiers[p[1]] # NoName

\* What a deletion of a dossier has condemned is in no other, but for what was
\* committed after it had looked.
Doomed(t) == t.gone \cup (IF t.pc = "erase" THEN {Head(t.rest)} ELSE {})
GoneIsAlone(t) ==
  t.op = "delete" => \A c \in Doomed(t) : \A p \in members : p[2] = c => p[1] = t.id \/ p \in late

TxOk(t) == InPlace(t) /\ MadeIsNew(t) /\ PutIsSound(t) /\ GoneIsAlone(t)

Apart(t, u) == Makes(t) /\ Makes(u) => t.made # u.made /\ t.name # u.name

Committed ==
  /\ dossiers \in [Dossier -> Name \cup {NoName}]
  /\ DOMAIN used = {"dossier", "topic"} /\ used.dossier \in Nat
  /\ \A i \in Dossier : i > used.dossier => dossiers[i] = NoName
  /\ members \subseteq Dossier \X Doc
  /\ DOMAIN status = Doc

DossiersInv ==
  /\ Committed /\ DossiersAreSound
  /\ DOMAIN tx = Worker
  /\ \A w \in Worker : TxOk(tx[w])
  /\ \A w, v \in Worker : w # v => Apart(tx[w], tx[v])

-----------------------------------------------------------------------------
(* What does not disturb the invariant. *)

LEMMA Listed ==
  ASSUME NEW S, S \subseteq Doc
  PROVE  /\ SetToSeq(S) \in Seq(S) /\ (S # {} => SetToSeq(S) # <<>>)
         /\ Len(SetToSeq(S)) = Cardinality(S)
<1>1. IsFiniteSet(S)
  BY DossiersAssumption, FS_Subset
<1>2. PICK n \in Nat : n = Cardinality(S) /\ ExistsBijection(1 .. n, S)
  BY <1>1, FS_CardinalityType
<1>3. PICK f \in Bijection(1 .. n, S) : TRUE
  BY <1>2 DEF ExistsBijection
<1>4. f \in [1 .. Cardinality(S) -> S] /\ IsInjective(f)
  BY <1>2, <1>3 DEF Bijection, Injection, IsInjective
<1>5. SetToSeq(S) \in [1 .. n -> S]
  BY <1>2, <1>4 DEF SetToSeq
<1>6. SetToSeq(S) \in Seq(S) /\ Len(SetToSeq(S)) = n
  BY <1>5
<1>7. S # {} => n # 0
  BY <1>1, <1>2, FS_EmptySet
<1> QED BY <1>2, <1>6, <1>7

LEMMA IdleIsOk == TxOk(Idle) /\ TxOk(Idle)' /\ \A t : Apart(Idle, t) /\ Apart(t, Idle)
<1>1. <<>> \in Seq({})
  OBVIOUS
<1>2. InPlace(Idle)
  BY <1>1 DEF InPlace, Idle, Places, Moving, Joining
<1> QED BY <1>2 DEF TxOk, MadeIsNew, PutIsSound, GoneIsAlone, Apart, Makes, Idle, Joining

\* Numbers are handed out upwards.
LEMMA LaterNumbers ==
  ASSUME NEW a \in Nat, NEW b \in Nat, b >= a
  PROVE  \A i \in Dossier : i \in Int /\ (i > b => i > a) /\ (i <= a => i <= b)
<1>1. MaxDossiers \in Nat
  BY DossiersAssumption
<1>2. \A i \in 1 .. MaxDossiers : i \in Int /\ (i > b => i > a) /\ (i <= a => i <= b)
  BY <1>1
<1> QED BY <1>2 DEF Dossier

\* A step of one worker that changes no row, given what it does to what that
\* worker carries.
LEMMA GoesOn ==
  ASSUME DossiersInv, NEW w \in Worker, NEW u, Goes(w, u), UNCHANGED <<rows, late>>,
         DOMAIN used' = {"dossier", "topic"}, used'.dossier \in Nat, used'.dossier >= used.dossier,
         TxOk(u)', \A v \in Worker \ {w} : Apart(u, tx[v]) /\ Apart(tx[v], u)
  PROVE  DossiersInv'
<1>1. tx'[w] = u /\ DOMAIN tx' = Worker /\ \A v \in Worker \ {w} : tx'[v] = tx[v]
  BY DEF DossiersInv, Goes
<1>2. UNCHANGED <<dossiers, members, status, late>>
  BY DEF rows
<1>8. \A i \in Dossier :
        /\ i > used'.dossier => i > used.dossier
        /\ i <= used.dossier => i <= used'.dossier
  <2>1. PICK a \in Nat, b \in Nat : a = used.dossier /\ b = used'.dossier /\ b >= a
    BY DEF DossiersInv, Committed
  <2> QED BY <2>1, LaterNumbers
<1>3. Committed' /\ DossiersAreSound'
  <2>1. Committed'
    <3>1. \A i \in Dossier : i > used'.dossier => i > used.dossier
      BY <1>8
    <3> QED BY <1>2, <3>1 DEF DossiersInv, Committed
  <2>2. DossiersAreSound'
    BY <1>2 DEF DossiersInv, DossiersAreSound
  <2> QED BY <2>1, <2>2
<1>4. ASSUME NEW t, TxOk(t) PROVE TxOk(t)'
  <2>1. MadeIsNew(t)'
    <3>1. t.made \in Dossier /\ t.made <= used.dossier => t.made <= used'.dossier
      BY <1>8
    <3> QED BY <1>2, <1>4, <3>1 DEF TxOk, MadeIsNew
  <2>2. PutIsSound(t)' /\ GoneIsAlone(t)'
    BY <1>2, <1>4 DEF TxOk, PutIsSound, GoneIsAlone
  <2> QED BY <1>4, <2>1, <2>2 DEF TxOk
<1>5. ASSUME NEW t, NEW x, Apart(t, x) PROVE Apart(t, x)'
  BY <1>2, <1>5 DEF Apart
<1>6. ASSUME NEW v \in Worker PROVE TxOk(tx[v])'
  <2>1. CASE v = w
    BY <1>1, <2>1
  <2>2. CASE v # w
    <3>1. PICK t : t = tx[v] /\ t = tx'[v]
      BY <1>1, <2>2
    <3>2. TxOk(t)'
      BY <1>4, <3>1 DEF DossiersInv
    <3> QED BY <3>1, <3>2
  <2> QED BY <2>1, <2>2
<1>7. ASSUME NEW v \in Worker, NEW x \in Worker, v # x PROVE Apart(tx[v], tx[x])'
  <2>1. PICK t, y : t = tx'[v] /\ y = tx'[x]
    OBVIOUS
  <2>2. Apart(t, y)
    <3>1. CASE v = w
      BY <1>1, <1>7, <2>1, <3>1
    <3>2. CASE x = w
      BY <1>1, <1>7, <2>1, <3>2
    <3>3. CASE v # w /\ x # w
      BY <1>1, <1>7, <2>1, <3>3 DEF DossiersInv
    <3> QED BY <3>1, <3>2, <3>3
  <2>3. Apart(t, y)'
    BY <1>5, <2>2
  <2> QED BY <2>1, <2>3
<1> QED BY <1>1, <1>3, <1>6, <1>7 DEF DossiersInv

\* A step within an operation.
LEMMA Continues ==
  ASSUME DossiersInv, NEW w \in Worker, NEW t, t = tx[w], NEW u, Goes(w, u), UNCHANGED <<rows, late, used>>,
         u.op = t.op, u.docs = t.docs, u.name = t.name, u.made = t.made,
         InPlace(u), PutIsSound(u), GoneIsAlone(u)
  PROVE  DossiersInv'
<1>1. TxOk(t) /\ \A v \in Worker \ {w} : Apart(t, tx[v]) /\ Apart(tx[v], t)
  BY DEF DossiersInv
<1>2. TxOk(u)
  BY <1>1 DEF TxOk, MadeIsNew, Makes
<1>3. TxOk(u)'
  BY <1>2 DEF rows, TxOk, MadeIsNew, PutIsSound, GoneIsAlone
<1>4. \A v \in Worker \ {w} : Apart(u, tx[v]) /\ Apart(tx[v], u)
  BY <1>1 DEF Apart, Makes
<1>5. DOMAIN used' = {"dossier", "topic"} /\ used'.dossier \in Nat /\ used'.dossier >= used.dossier
  BY DEF DossiersInv, Committed
<1>6. UNCHANGED <<rows, late>>
  BY DEF rows
<1> QED BY <1>3, <1>4, <1>5, <1>6, GoesOn

-----------------------------------------------------------------------------
(* The steps of deliveries, moves, adoptions and reprocessing. *)

SameErrand(t, u) ==
  /\ DOMAIN u = DOMAIN Idle
  /\ u.op = t.op /\ u.docs = t.docs /\ u.name = t.name /\ u.made = t.made /\ u.gone = t.gone

LEMMA JoiningContinues ==
  ASSUME DossiersInv, NEW w \in Worker, NEW t, t = tx[w], NEW u, Goes(w, u), UNCHANGED <<rows, late, used>>,
         SameErrand(t, u), t.op \in Joining \cup {"reprocess"}, u.pc \in Moving \cup {"commit", "end"},
         u.pc \in Moving => u.rest # <<>>, u.pc = "register" => t.op = "new",
         u.pc \in {"remove", "cut", "note"} => t.op = "move",
         u.pc = "ensure" => t.op \in Joining /\ t.name \in Name,
         u.pc = "add" => t.op \in Joining /\ u.id \in Dossier,
         u.put \subseteq Dossier \X t.docs, u.put # {} => t.op \in Joining, PutIsSound(u),
         u.rest \in Seq(t.docs), t.op \in {"new", "known", "reprocess"} => Len(u.rest) <= 1,
         t.op = "adopt" => u.seen \in Seq(t.docs)
  PROVE  DossiersInv'
<1>1. InPlace(t)
  BY DEF DossiersInv, TxOk
<1>2. InPlace(u)
  BY <1>1 DEF InPlace, SameErrand, Moving, Joining, Places
<1>3. GoneIsAlone(u)
  BY DEF GoneIsAlone, SameErrand, Joining
<1> QED BY <1>2, <1>3, Continues DEF SameErrand

LEMMA RegisterStep == ASSUME DossiersInv, NEW w \in Worker, Register(w) PROVE DossiersInv'
<1>1. PICK t : t = tx[w]
  OBVIOUS
<1>2. TxOk(t) /\ DOMAIN t = DOMAIN Idle /\ t.pc = "register" /\ t.op = "new"
  BY <1>1 DEF DossiersInv, TxOk, InPlace, Register
<1>3. PICK u : /\ Goes(w, u) /\ SameErrand(t, u)
               /\ u.pc = (IF t.name = NoName THEN "commit" ELSE "ensure")
               /\ u.put = t.put /\ u.rest = t.rest /\ u.seen = t.seen
  <2> DEFINE a == [t EXCEPT !.pc = IF t.name = NoName THEN "commit" ELSE "ensure"]
             b == [a EXCEPT !.records = [d \in Doc |-> a.records[d] \o NoRecords[d]]]
  <2>1. Goes(w, b)
    BY <1>1 DEF Register, Record
  <2>2. SameErrand(t, b) /\ b.pc = (IF t.name = NoName THEN "commit" ELSE "ensure")
        /\ b.put = t.put /\ b.rest = t.rest /\ b.seen = t.seen
    BY <1>2 DEF SameErrand, Idle
  <2> QED BY <2>1, <2>2
<1>4. PutIsSound(u) /\ u.put \subseteq Dossier \X t.docs /\ (u.put # {} => t.op \in Joining)
  BY <1>2, <1>3 DEF TxOk, InPlace, PutIsSound, SameErrand, Makes
<1>5. u.rest \in Seq(t.docs) /\ Len(u.rest) <= 1 /\ u.rest # <<>>
  BY <1>2, <1>3 DEF TxOk, InPlace, Moving
<1>6. u.pc \in {"commit", "ensure"} /\ (u.pc = "ensure" => t.name \in Name)
  BY <1>2, <1>3 DEF TxOk, InPlace
<1>7. UNCHANGED <<rows, late, used>>
  BY DEF Register, history
<1> QED
  BY <1>1, <1>2, <1>3, <1>4, <1>5, <1>6, <1>7, JoiningContinues DEF Joining, Moving

\* What adding a membership does to what the worker carries.
LEMMA AddDoes ==
  ASSUME NEW w \in Worker, NEW t, DOMAIN t = DOMAIN Idle, InPlace(tx[w]), PutIsSound(t),
         t.op \in Joining, t.id \in Dossier, t.put \subseteq Dossier \X t.docs,
         NEW c \in t.docs, NEW next, Add(w, t, c, next)
  PROVE  \E u : /\ Goes(w, u) /\ SameErrand(t, u)
                /\ u.pc = next /\ u.rest = t.rest /\ u.seen = t.seen /\ u.id = t.id
                /\ u.put \subseteq Dossier \X t.docs /\ PutIsSound(u)
<1>1. CASE ~Adds(w, t, c)
  <2> DEFINE u == [t EXCEPT !.pc = next]
  <2>1. Goes(w, u)
    BY <1>1 DEF Add
  <2>2. SameErrand(t, u) /\ u.pc = next /\ u.rest = t.rest /\ u.seen = t.seen /\ u.put = t.put /\ u.id = t.id
    BY DEF SameErrand, Idle
  <2>3. PutIsSound(u)
    BY <2>2 DEF PutIsSound, SameErrand, Makes
  <2> QED BY <2>1, <2>2, <2>3
<1>2. CASE Adds(w, t, c)
  <2> DEFINE q == <<t.id, c>>
             a == [t EXCEPT !.pc = next, !.put = @ \cup {q}, !.cut = @ \ {q}]
             u == [a EXCEPT !.records =
                     [d \in Doc |-> a.records[d] \o MembershipChanged(c, t.id, "dossier_added")[d]]]
  <2>1. Goes(w, u)
    BY <1>2 DEF Add, Record
  <2>2. /\ SameErrand(t, u) /\ u.pc = next /\ u.rest = t.rest /\ u.seen = t.seen /\ u.id = t.id
        /\ u.put = t.put \cup {q}
    BY DEF SameErrand, Idle
  <2>3. (Makes(t) /\ t.id = t.made) \/ dossiers[t.id] # NoName
    <3>1. CASE t.id = t.made
      <4>1. t.made # NoDossier
        <5>1. MaxDossiers \in Nat /\ t.id \in 1 .. MaxDossiers
          BY DossiersAssumption DEF Dossier
        <5> QED BY <3>1, <5>1 DEF NoDossier
      <4> QED BY <3>1, <4>1 DEF Makes, Joining
    <3>2. CASE t.id # t.made
      BY <1>2, <3>2 DEF Adds
    <3> QED BY <3>1, <3>2
  <2>4. PutIsSound(u)
    BY <2>2, <2>3 DEF PutIsSound, SameErrand, Makes
  <2>5. u.put \subseteq Dossier \X t.docs
    BY <2>2
  <2> QED BY <2>1, <2>2, <2>4, <2>5
<1> QED BY <1>1, <1>2

\* The rest of a list, and what of it was added so far.
LEMMA Lists ==
  ASSUME NEW S, NEW r \in Seq(S), r # <<>>
  PROVE  /\ Head(r) \in S /\ Tail(r) \in Seq(S)
         /\ Len(r) <= 1 => Tail(r) = <<>> /\ Len(Tail(r)) <= 1
         /\ \A s \in Seq(S) : Append(s, Head(r)) \in Seq(S)
<1>1. Head(r) \in S /\ Tail(r) \in Seq(S)
  OBVIOUS
<1>2. Len(r) \in Nat /\ Len(r) # 0 /\ Len(Tail(r)) = Len(r) - 1
  OBVIOUS
<1>3. ASSUME Len(r) <= 1 PROVE Tail(r) = <<>> /\ Len(Tail(r)) <= 1
  <2>1. Len(Tail(r)) = 0 /\ Len(Tail(r)) <= 1
    BY <1>2, <1>3
  <2>2. PICK q \in Seq(S) : q = Tail(r)
    BY <1>1
  <2>3. q = <<>>
    BY <2>1, <2>2
  <2> QED BY <2>1, <2>2, <2>3
<1>4. \A s \in Seq(S) : Append(s, Head(r)) \in Seq(S)
  BY <1>1
<1> QED BY <1>1, <1>2, <1>3, <1>4

LEMMA AddStepKeeps == ASSUME DossiersInv, NEW w \in Worker, AddStep(w) PROVE DossiersInv'
<1>1. PICK t : t = tx[w]
  OBVIOUS
<1>2. InPlace(tx[w]) /\ InPlace(t) /\ PutIsSound(t)
  BY <1>1 DEF DossiersInv, TxOk
<1>3. t.op \in Joining /\ t.id \in Dossier /\ t.rest \in Seq(t.docs) /\ t.rest # <<>> /\ DOMAIN t = DOMAIN Idle
  BY <1>1, <1>2 DEF AddStep, InPlace, Moving
<1>4. PICK c : c = Head(t.rest)
  OBVIOUS
<1>5. c \in t.docs /\ Tail(t.rest) \in Seq(t.docs) /\ \A s \in Seq(t.docs) : Append(s, c) \in Seq(t.docs)
  BY <1>3, <1>4, Lists
<1>6. PICK left : left = IF Adds(w, t, c) THEN Append(t.seen, c) ELSE t.seen
  OBVIOUS
<1>7. t.op = "adopt" => left \in Seq(t.docs)
  BY <1>2, <1>5, <1>6 DEF InPlace
<1>8. UNCHANGED <<rows, late, used>>
  BY DEF AddStep, history
<1>9. t.put \subseteq Dossier \X t.docs /\ (t.op = "adopt" => t.seen \in Seq(t.docs))
      /\ (t.op \in {"new", "known", "reprocess"} => Len(t.rest) <= 1)
  BY <1>2 DEF InPlace
<1>10. ASSUME NEW p \in {"commit", "remove", "read"}, p = "remove" => t.op = "move", Add(w, t, c, p)
       PROVE  DossiersInv'
  <2>1. PICK u : /\ Goes(w, u) /\ SameErrand(t, u)
                 /\ u.pc = p /\ u.rest = t.rest /\ u.seen = t.seen /\ u.id = t.id
                 /\ u.put \subseteq Dossier \X t.docs /\ PutIsSound(u)
    BY <1>2, <1>3, <1>5, <1>9, <1>10, AddDoes
  <2> QED
    BY <1>1, <1>3, <1>8, <1>9, <1>10, <2>1, JoiningContinues DEF Moving
<1>11. ASSUME NEW a, NEW p \in {"commit", "add", "read"}, Add(w, a, c, p), t.op = "adopt",
              DOMAIN a = DOMAIN Idle, SameErrand(t, a), a.id = t.id, a.put = t.put,
              a.rest \in Seq(t.docs), p # "commit" => a.rest # <<>>, a.seen \in Seq(t.docs)
       PROVE  DossiersInv'
  <2>1. PutIsSound(a)
    BY <1>2, <1>11 DEF PutIsSound, SameErrand, Makes
  <2>2. a.op \in Joining /\ a.id \in Dossier /\ a.put \subseteq Dossier \X a.docs /\ c \in a.docs
    BY <1>3, <1>5, <1>9, <1>11 DEF SameErrand
  <2>3. PICK u : /\ Goes(w, u) /\ SameErrand(a, u)
                 /\ u.pc = p /\ u.rest = a.rest /\ u.seen = a.seen /\ u.id = a.id
                 /\ u.put \subseteq Dossier \X a.docs /\ PutIsSound(u)
    BY <1>2, <1>11, <2>1, <2>2, AddDoes
  <2>4. SameErrand(t, u) /\ u.put \subseteq Dossier \X t.docs /\ u.id \in Dossier
    BY <1>3, <1>11, <2>3 DEF SameErrand
  <2> QED
    BY <1>1, <1>3, <1>8, <1>11, <2>3, <2>4, JoiningContinues DEF Moving
<1>12. \/ \E p \in {"commit", "remove", "read"} : (p = "remove" => t.op = "move") /\ Add(w, t, c, p)
       \/ t.op = "adopt" /\ Tail(t.rest) # <<>> /\ Add(w, [t EXCEPT !.rest = Tail(@), !.seen = left], c, "add")
       \/ t.op = "adopt" /\ Add(w, [t EXCEPT !.rest = left, !.seen = <<>>], c,
                                IF left = <<>> THEN "commit" ELSE "read")
  BY <1>1, <1>4, <1>6 DEF AddStep
<1>13. CASE t.op = "adopt" /\ Tail(t.rest) # <<>> /\ Add(w, [t EXCEPT !.rest = Tail(@), !.seen = left], c, "add")
  <2>1. PICK a : a = [t EXCEPT !.rest = Tail(@), !.seen = left]
    OBVIOUS
  <2>2. DOMAIN a = DOMAIN Idle /\ SameErrand(t, a) /\ a.id = t.id /\ a.put = t.put
        /\ a.rest = Tail(t.rest) /\ a.seen = left
    BY <1>3, <2>1 DEF SameErrand, Idle
  <2> QED BY <1>5, <1>7, <1>11, <1>13, <2>1, <2>2
<1>14. CASE t.op = "adopt" /\ Add(w, [t EXCEPT !.rest = left, !.seen = <<>>], c,
                                  IF left = <<>> THEN "commit" ELSE "read")
  <2>1. PICK a : a = [t EXCEPT !.rest = left, !.seen = <<>>]
    OBVIOUS
  <2>2. DOMAIN a = DOMAIN Idle /\ SameErrand(t, a) /\ a.id = t.id /\ a.put = t.put
        /\ a.rest = left /\ a.seen = <<>>
    BY <1>3, <2>1 DEF SameErrand, Idle
  <2>3. PICK p \in {"commit", "read"} : p = IF left = <<>> THEN "commit" ELSE "read"
    OBVIOUS
  <2>4. a.seen \in Seq(t.docs)
    BY <2>2
  <2>5. p # "commit" => a.rest # <<>>
    BY <2>2, <2>3
  <2> QED BY <1>7, <1>11, <1>14, <2>1, <2>2, <2>3, <2>4, <2>5
<1> QED BY <1>10, <1>12, <1>13, <1>14

\* A step that puts no membership, at one document or on to the next.
LEMMA MovesOn ==
  ASSUME DossiersInv, NEW w \in Worker, NEW t, t = tx[w], NEW u, Goes(w, u), UNCHANGED <<rows, late, used>>,
         SameErrand(t, u), t.op \in Joining \cup {"reprocess"}, t.rest # <<>>, u.put \subseteq t.put,
         u.seen = t.seen, u.rest \in {t.rest, Tail(t.rest)}, u.pc \in (Moving \ {"register", "add"}) \cup {"commit", "end"},
         u.pc \in Moving => u.rest # <<>>, u.pc \in {"remove", "cut", "note"} => t.op = "move",
         u.pc = "ensure" => t.op \in {"move", "adopt"}
  PROVE  DossiersInv'
<1>1. InPlace(t) /\ PutIsSound(t)
  BY DEF DossiersInv, TxOk
<1>2. /\ t.rest \in Seq(t.docs) /\ t.put \subseteq Dossier \X t.docs /\ (t.put # {} => t.op \in Joining)
      /\ (t.op = "adopt" => t.seen \in Seq(t.docs))
      /\ (t.op \in {"new", "known", "reprocess"} => Len(t.rest) <= 1)
      /\ (t.op \in {"known", "move", "adopt"} => t.name \in Name)
  BY <1>1 DEF InPlace
<1>3. u.rest \in Seq(t.docs) /\ (t.op \in {"new", "known", "reprocess"} => Len(u.rest) <= 1)
  BY <1>2, Lists
<1>4. PutIsSound(u) /\ u.put \subseteq Dossier \X t.docs /\ (u.put # {} => t.op \in Joining)
  BY <1>1, <1>2 DEF PutIsSound, SameErrand, Makes
<1>5. u.pc \in Moving \cup {"commit", "end"} /\ u.pc \notin {"register", "add"}
  BY DEF Moving
<1>6. u.pc = "ensure" => t.op \in Joining /\ t.name \in Name
  BY <1>2 DEF Joining
<1>7. t.op = "adopt" => u.seen \in Seq(t.docs)
  BY <1>2
<1> QED BY <1>3, <1>4, <1>5, <1>6, <1>7, JoiningContinues

LEMMA RemoveStepKeeps == ASSUME DossiersInv, NEW w \in Worker, RemoveStep(w) PROVE DossiersInv'
<1>1. PICK t : t = tx[w]
  OBVIOUS
<1>2. t.op = "move" /\ t.rest # <<>> /\ DOMAIN t = DOMAIN Idle
  BY <1>1 DEF RemoveStep, DossiersInv, TxOk, InPlace, Moving
<1>3. PICK next : next = IF Leaves(w, t, Head(t.rest)) THEN "cut" ELSE "read"
  OBVIOUS
<1>4. PICK u : u = [t EXCEPT !.pc = next]
  OBVIOUS
<1>5. SameErrand(t, u) /\ u.pc \in {"cut", "read"} /\ u.rest = t.rest /\ u.seen = t.seen /\ u.put = t.put
  BY <1>2, <1>3, <1>4 DEF SameErrand, Idle
<1>6. Goes(w, u) /\ UNCHANGED <<rows, late, used>>
  BY <1>1, <1>3, <1>4 DEF RemoveStep, history
<1> QED BY <1>1, <1>2, <1>5, <1>6, MovesOn DEF Moving, Joining

LEMMA CutStepKeeps == ASSUME DossiersInv, NEW w \in Worker, CutStep(w) PROVE DossiersInv'
<1>1. PICK t : t = tx[w]
  OBVIOUS
<1>2. t.op = "move" /\ t.rest # <<>> /\ DOMAIN t = DOMAIN Idle
  BY <1>1 DEF CutStep, DossiersInv, TxOk, InPlace, Moving
<1>3. PICK p : p = <<t.from, Head(t.rest)>>
  OBVIOUS
<1>4. PICK u : u = [t EXCEPT !.put = @ \ {p}, !.cut = @ \cup ({p} \cap members), !.pc = "note"]
  OBVIOUS
<1>5. SameErrand(t, u) /\ u.pc = "note" /\ u.rest = t.rest /\ u.seen = t.seen /\ u.put \subseteq t.put
  BY <1>2, <1>4 DEF SameErrand, Idle
<1>6. Goes(w, u) /\ UNCHANGED <<rows, late, used>>
  BY <1>1, <1>3, <1>4 DEF CutStep, Leave
<1> QED BY <1>1, <1>2, <1>5, <1>6, MovesOn DEF Moving, Joining

LEMMA NoteStepKeeps == ASSUME DossiersInv, NEW w \in Worker, NoteStep(w) PROVE DossiersInv'
<1>1. PICK t : t = tx[w]
  OBVIOUS
<1>2. t.op = "move" /\ t.rest # <<>> /\ DOMAIN t = DOMAIN Idle
  BY <1>1 DEF NoteStep, DossiersInv, TxOk, InPlace, Moving
<1>3. PICK a, r : a = [t EXCEPT !.pc = "read"] /\ Record(w, a, r)
  BY <1>1 DEF NoteStep
<1>4. PICK u : u = [a EXCEPT !.records = [d \in Doc |-> a.records[d] \o r[d]]]
  OBVIOUS
<1>5. SameErrand(t, u) /\ u.pc = "read" /\ u.rest = t.rest /\ u.seen = t.seen /\ u.put = t.put
  BY <1>2, <1>3, <1>4 DEF SameErrand, Idle
<1>6. Goes(w, u) /\ UNCHANGED <<rows, late, used>>
  BY <1>3, <1>4 DEF NoteStep, Record, history
<1> QED BY <1>1, <1>2, <1>5, <1>6, MovesOn DEF Moving, Joining

LEMMA PassOverKeeps == ASSUME DossiersInv, NEW w \in Worker, PassOver(w) PROVE DossiersInv'
<1>1. PICK t : t = tx[w]
  OBVIOUS
<1>2. t.op = "adopt" /\ t.rest # <<>> /\ DOMAIN t = DOMAIN Idle
  BY <1>1 DEF PassOver, DossiersInv, TxOk, InPlace, Moving
<1>3. PICK next : next = IF Tail(t.rest) = <<>> THEN "commit" ELSE "read"
  OBVIOUS
<1>4. PICK u : u = [t EXCEPT !.rest = Tail(@), !.pc = next]
  OBVIOUS
<1>5. SameErrand(t, u) /\ u.pc = next /\ u.rest = Tail(t.rest) /\ u.seen = t.seen /\ u.put = t.put
  BY <1>2, <1>4 DEF SameErrand, Idle
<1>6. Goes(w, u) /\ UNCHANGED <<rows, late, used>>
  BY <1>1, <1>3, <1>4 DEF PassOver
<1> QED BY <1>1, <1>2, <1>3, <1>5, <1>6, MovesOn DEF Moving, Joining

-----------------------------------------------------------------------------
(* Topics, and what a dossier's members become when it is deleted. *)

LEMMA OtherContinues ==
  ASSUME DossiersInv, NEW w \in Worker, NEW t, t = tx[w], NEW u, Goes(w, u), UNCHANGED <<rows, late, used>>,
         DOMAIN u = DOMAIN Idle, u.op = t.op, u.docs = t.docs, u.name = t.name, u.put = t.put,
         Makes(u) => Makes(t) /\ u.made = t.made,
         \/ t.op = "topics" /\ u.pc \in {"replace", "topics", "commit"}
         \/ /\ t.op = "delete" /\ u.made = t.made
            /\ u.pc \in {"judge", "erase", "erased", "release", "read", "write", "tell", "commit"}
            /\ u.pc \in {"judge", "erase", "erased"} => u.cut = {}
            /\ u.pc \in {"erase", "erased", "read", "write", "tell"} => u.rest # <<>>,
         u.rest \in Seq(t.docs), u.gone \subseteq t.docs, GoneIsAlone(u)
  PROVE  DossiersInv'
<1>1. TxOk(t) /\ InPlace(t) /\ \A v \in Worker \ {w} : Apart(t, tx[v]) /\ Apart(tx[v], t)
  BY DEF DossiersInv, TxOk
<1>2. u.put = {}
  BY <1>1 DEF InPlace, Joining
<1>3. InPlace(u)
  <2>1. u.pc \in Moving => u.pc \in {"read", "write"} /\ t.op = "delete"
    BY DEF Moving
  <2>2. u.pc \in Places /\ u.op \notin Joining /\ u.pc # "idle"
    BY DEF Places, Moving, Joining
  <2>3. u.pc \in Moving \cup {"erase", "erased", "tell"} => u.rest # <<>>
    BY <2>1
  <2> QED BY <1>1, <1>2, <2>1, <2>2, <2>3 DEF InPlace
<1>4. MadeIsNew(u) /\ PutIsSound(u)
  BY <1>1, <1>2 DEF TxOk, MadeIsNew, PutIsSound
<1>5. TxOk(u)'
  BY <1>3, <1>4 DEF rows, TxOk, MadeIsNew, PutIsSound, GoneIsAlone
<1>6. \A v \in Worker \ {w} : Apart(u, tx[v]) /\ Apart(tx[v], u)
  BY <1>1 DEF Apart
<1>7. DOMAIN used' = {"dossier", "topic"} /\ used'.dossier \in Nat /\ used'.dossier >= used.dossier
  BY DEF DossiersInv, Committed
<1>8. UNCHANGED <<rows, late>>
  OBVIOUS
<1> QED BY <1>5, <1>6, <1>7, <1>8, GoesOn

LEMMA ReplaceKeeps == ASSUME DossiersInv, NEW w \in Worker, Replace(w) PROVE DossiersInv'
<1>1. PICK t : t = tx[w]
  OBVIOUS
<1>2. InPlace(t) /\ t.op = "topics" /\ DOMAIN t = DOMAIN Idle /\ t.rest \in Seq(t.docs) /\ t.gone \subseteq t.docs
  BY <1>1 DEF Replace, DossiersInv, TxOk, InPlace
<1>3. PICK x : x = TopicsOf(t.id)
  OBVIOUS
<1>4. PICK u : u = [t EXCEPT !.pc = "topics", !.dropped = x]
  OBVIOUS
<1>5. /\ DOMAIN u = DOMAIN Idle /\ u.op = t.op /\ u.docs = t.docs /\ u.name = t.name /\ u.put = t.put
      /\ u.made = t.made /\ u.pc = "topics" /\ u.rest = t.rest /\ u.gone = t.gone
  BY <1>2, <1>4 DEF Idle
<1>6. GoneIsAlone(u) /\ (Makes(u) => Makes(t) /\ u.made = t.made)
  BY <1>2, <1>5 DEF GoneIsAlone, Makes
<1>7. Goes(w, u) /\ UNCHANGED <<rows, late, used>>
  BY <1>1, <1>3, <1>4 DEF Replace, history
<1> QED BY <1>1, <1>2, <1>5, <1>6, <1>7, OtherContinues

LEMMA WriteTopicsKeeps == ASSUME DossiersInv, NEW w \in Worker, WriteTopics(w) PROVE DossiersInv'
<1>1. PICK t : t = tx[w]
  OBVIOUS
<1>2. InPlace(t) /\ t.op = "topics" /\ DOMAIN t = DOMAIN Idle /\ t.rest \in Seq(t.docs) /\ t.gone \subseteq t.docs
  BY <1>1 DEF WriteTopics, DossiersInv, TxOk, InPlace
<1>3. PICK u : u = [t EXCEPT !.pc = "commit"]
  OBVIOUS
<1>4. /\ DOMAIN u = DOMAIN Idle /\ u.op = t.op /\ u.docs = t.docs /\ u.name = t.name /\ u.put = t.put
      /\ u.made = t.made /\ u.pc = "commit" /\ u.rest = t.rest /\ u.gone = t.gone
  BY <1>2, <1>3 DEF Idle
<1>5. GoneIsAlone(u) /\ (Makes(u) => Makes(t) /\ u.made = t.made)
  BY <1>2, <1>4 DEF GoneIsAlone, Makes
<1>6. Goes(w, u) /\ UNCHANGED <<rows, late, used>>
  BY <1>1, <1>3 DEF WriteTopics, history
<1> QED BY <1>1, <1>2, <1>4, <1>5, <1>6, OtherContinues

SameDeletion(t, u) ==
  /\ DOMAIN u = DOMAIN Idle
  /\ u.op = t.op /\ u.docs = t.docs /\ u.name = t.name /\ u.put = t.put /\ u.made = t.made /\ u.id = t.id

\* A step of a deletion: what it has not looked at yet it does not condemn.
LEMMA DeletionGoesOn ==
  ASSUME DossiersInv, NEW w \in Worker, NEW t, t = tx[w], t.op = "delete", NEW u, Goes(w, u),
         UNCHANGED <<rows, late, used>>, SameDeletion(t, u),
         u.pc \in {"judge", "erase", "erased", "release", "read", "write", "tell", "commit"},
         u.pc \in {"judge", "erase", "erased"} => u.cut = {},
         u.pc \in {"erase", "erased", "read", "write", "tell"} => u.rest # <<>>,
         u.rest \in Seq(t.docs), u.gone \subseteq t.docs,
         \A c \in Doomed(u) \ Doomed(t) : \A p \in members : p[2] = c => p[1] = t.id
  PROVE  DossiersInv'
<1>1. GoneIsAlone(t)
  BY DEF DossiersInv, TxOk
<1>2. GoneIsAlone(u)
  BY <1>1 DEF GoneIsAlone, SameDeletion
<1>3. u.made = t.made /\ (Makes(u) => Makes(t))
  BY DEF SameDeletion, Makes
<1> QED BY <1>2, <1>3, OtherContinues DEF SameDeletion

\* Where a deletion is, and what it carries there.
LEMMA Deletion ==
  ASSUME DossiersInv, NEW w \in Worker, NEW t, t = tx[w],
         t.op = "delete" \/ t.pc \in {"judge", "erase", "erased", "release", "tell"}
  PROVE  /\ t.op = "delete" /\ t.put = {} /\ DOMAIN t = DOMAIN Idle /\ t.rest \in Seq(t.docs) /\ t.gone \subseteq t.docs
         /\ t.pc \in {"judge", "erase", "erased"} => t.cut = {}
         /\ t.pc \in {"erase", "erased", "tell", "read", "write"} => t.rest # <<>>
<1>1. InPlace(t)
  BY DEF DossiersInv, TxOk
<1> QED BY <1>1 DEF InPlace, Joining, Moving

LEMMA JudgeKeeps == ASSUME DossiersInv, NEW w \in Worker, Judge(w) PROVE DossiersInv'
<1>1. PICK t : t = tx[w]
  OBVIOUS
<1>2. /\ t.op = "delete" /\ t.pc = "judge" /\ t.cut = {} /\ t.put = {} /\ DOMAIN t = DOMAIN Idle
      /\ t.rest \in Seq(t.docs) /\ t.gone \subseteq t.docs /\ Doomed(t) = t.gone
  BY <1>1, Deletion DEF Judge, Doomed
<1>3. UNCHANGED <<rows, late, used>>
  BY DEF Judge, history
<1>4. CASE t.rest = <<>>
  <2>1. PICK r : r = SetToSeq(t.docs) /\ r \in Seq(t.docs)
    <3>1. t.docs \subseteq Doc
      BY <1>1 DEF DossiersInv, TxOk, InPlace
    <3> QED BY <3>1, Listed
  <2>2. PICK u : u = [t EXCEPT !.pc = "release", !.rest = r]
    OBVIOUS
  <2>3. Goes(w, u)
    BY <1>1, <1>4, <2>1, <2>2 DEF Judge
  <2>4. SameDeletion(t, u) /\ u.pc = "release" /\ u.rest = r /\ u.gone = t.gone /\ Doomed(u) = t.gone
    BY <1>2, <2>2 DEF SameDeletion, Doomed, Idle
  <2> QED BY <1>1, <1>2, <1>3, <2>1, <2>3, <2>4, DeletionGoesOn
<1>5. CASE t.rest # <<>> /\ MemberElsewhere(w, t, Head(t.rest))
  <2>1. PICK u : u = [t EXCEPT !.rest = Tail(@), !.released = @ \cup {Head(t.rest)}]
    OBVIOUS
  <2>2. Goes(w, u)
    BY <1>1, <1>5, <2>1 DEF Judge
  <2>3. /\ SameDeletion(t, u) /\ u.pc = "judge" /\ u.rest = Tail(t.rest) /\ u.gone = t.gone /\ u.cut = {}
        /\ Doomed(u) = t.gone
    BY <1>2, <2>1 DEF SameDeletion, Doomed, Idle
  <2>4. Tail(t.rest) \in Seq(t.docs)
    BY <1>2, <1>5, Lists
  <2> QED BY <1>1, <1>2, <1>3, <2>2, <2>3, <2>4, DeletionGoesOn
<1>6. CASE t.rest # <<>> /\ ~MemberElsewhere(w, t, Head(t.rest))
  <2>1. PICK u : u = [t EXCEPT !.pc = "erase"]
    OBVIOUS
  <2>2. Goes(w, u)
    BY <1>1, <1>6, <2>1 DEF Judge
  <2>3. /\ SameDeletion(t, u) /\ u.pc = "erase" /\ u.rest = t.rest /\ u.gone = t.gone /\ u.cut = {}
        /\ Doomed(u) = t.gone \cup {Head(t.rest)}
    BY <1>2, <2>1 DEF SameDeletion, Doomed, Idle
  <2>4. ASSUME NEW p \in members, p[2] = Head(t.rest) PROVE p[1] = t.id
    <3>1. p = <<p[1], Head(t.rest)>> /\ p[1] \in Dossier
      BY <2>4 DEF DossiersInv, Committed
    <3>2. p \in Mine(w)
      BY <1>1, <1>2 DEF Mine
    <3> QED BY <1>6, <3>1, <3>2 DEF MemberElsewhere
  <2>5. \A c \in Doomed(u) \ Doomed(t) : \A p \in members : p[2] = c => p[1] = t.id
    BY <1>2, <2>3, <2>4
  <2> QED BY <1>1, <1>2, <1>3, <1>6, <2>2, <2>3, <2>5, DeletionGoesOn
<1> QED BY <1>4, <1>5, <1>6

LEMMA EraseKeeps == ASSUME DossiersInv, NEW w \in Worker, Erase(w) PROVE DossiersInv'
<1>1. PICK t : t = tx[w]
  OBVIOUS
<1>2. /\ t.op = "delete" /\ t.pc = "erase" /\ t.cut = {} /\ DOMAIN t = DOMAIN Idle /\ t.rest # <<>>
      /\ t.rest \in Seq(t.docs) /\ t.gone \subseteq t.docs
  BY <1>1, Deletion DEF Erase
<1>3. UNCHANGED <<rows, late, used>>
  BY DEF Erase, history
<1>4. PICK c : c = Head(t.rest)
  OBVIOUS
<1>5. c \in t.docs /\ Tail(t.rest) \in Seq(t.docs) /\ Doomed(t) = t.gone \cup {c}
  <2>1. Head(t.rest) \in t.docs /\ Tail(t.rest) \in Seq(t.docs)
    BY <1>2, Lists
  <2> QED BY <1>2, <1>4, <2>1 DEF Doomed
<1>6. PICK u : /\ Goes(w, u) /\ SameDeletion(t, u) /\ u.gone = t.gone \cup {c} /\ u.cut = {}
               /\ \/ u.pc = "judge" /\ u.rest = Tail(t.rest)
                  \/ u.pc = "erased" /\ u.rest = t.rest
  <2> DEFINE a == [t EXCEPT !.gone = @ \cup {c}, !.rest = Tail(@), !.pc = "judge"]
             b == [t EXCEPT !.gone = @ \cup {c}, !.pc = "erased"]
  <2>1. Goes(w, a) \/ Goes(w, b)
    BY <1>1, <1>4 DEF Erase
  <2>2. SameDeletion(t, a) /\ a.gone = t.gone \cup {c} /\ a.cut = {} /\ a.pc = "judge" /\ a.rest = Tail(t.rest)
    BY <1>2 DEF SameDeletion, Idle
  <2>3. SameDeletion(t, b) /\ b.gone = t.gone \cup {c} /\ b.cut = {} /\ b.pc = "erased" /\ b.rest = t.rest
    BY <1>2 DEF SameDeletion, Idle
  <2> QED BY <2>1, <2>2, <2>3
<1>7. Doomed(u) \subseteq Doomed(t) /\ u.gone \subseteq t.docs /\ u.rest \in Seq(t.docs)
  BY <1>2, <1>5, <1>6 DEF Doomed
<1> QED BY <1>1, <1>2, <1>3, <1>6, <1>7, DeletionGoesOn

LEMMA NoteErasedKeeps == ASSUME DossiersInv, NEW w \in Worker, NoteErased(w) PROVE DossiersInv'
<1>1. PICK t : t = tx[w]
  OBVIOUS
<1>2. /\ t.op = "delete" /\ t.pc = "erased" /\ t.cut = {} /\ DOMAIN t = DOMAIN Idle /\ t.rest # <<>>
      /\ t.rest \in Seq(t.docs) /\ t.gone \subseteq t.docs
  BY <1>1, Deletion DEF NoteErased
<1>3. PICK a, r : a = [t EXCEPT !.rest = Tail(@), !.pc = "judge"] /\ Record(w, a, r)
  BY <1>1 DEF NoteErased
<1>4. PICK u : u = [a EXCEPT !.records = [d \in Doc |-> a.records[d] \o r[d]]]
  OBVIOUS
<1>5. /\ SameDeletion(t, u) /\ u.pc = "judge" /\ u.rest = Tail(t.rest) /\ u.gone = t.gone /\ u.cut = {}
      /\ Doomed(u) = t.gone
  BY <1>2, <1>3, <1>4 DEF SameDeletion, Doomed, Idle
<1>6. Goes(w, u) /\ UNCHANGED <<rows, late, used>>
  BY <1>3, <1>4 DEF NoteErased, Record, history
<1>7. u.rest \in Seq(t.docs) /\ Doomed(u) \subseteq Doomed(t)
  <2>1. Tail(t.rest) \in Seq(t.docs)
    BY <1>2, Lists
  <2> QED BY <1>2, <1>5, <2>1 DEF Doomed
<1> QED BY <1>1, <1>2, <1>5, <1>6, <1>7, DeletionGoesOn

LEMMA ReleaseKeeps == ASSUME DossiersInv, NEW w \in Worker, Release(w) PROVE DossiersInv'
<1>1. PICK t : t = tx[w]
  OBVIOUS
<1>2. /\ t.op = "delete" /\ t.pc = "release" /\ DOMAIN t = DOMAIN Idle
      /\ t.rest \in Seq(t.docs) /\ t.gone \subseteq t.docs
  BY <1>1, Deletion DEF Release
<1>3. UNCHANGED <<rows, late, used>>
  BY DEF Release, history
<1>4. PICK u : /\ Goes(w, u) /\ SameDeletion(t, u) /\ u.gone = t.gone /\ u.rest = t.rest
               /\ u.pc = "commit" \/ (u.pc \in {"read", "tell"} /\ t.rest # <<>>)
  <2> DEFINE a == [t EXCEPT !.pc = "commit", !.dropped = TopicsOf(t.id)]
             n == IF Head(t.rest) \in t.released THEN "read" ELSE "tell"
             b == [t EXCEPT !.cut = @ \cup ({<<t.id, Head(t.rest)>>} \cap members), !.pc = n]
  <2>1. Goes(w, a) \/ (t.rest # <<>> /\ Goes(w, b))
    BY <1>1 DEF Release
  <2>2. SameDeletion(t, a) /\ a.gone = t.gone /\ a.rest = t.rest /\ a.pc = "commit"
    BY <1>2 DEF SameDeletion, Idle
  <2>3. SameDeletion(t, b) /\ b.gone = t.gone /\ b.rest = t.rest /\ b.pc \in {"read", "tell"}
    BY <1>2 DEF SameDeletion, Idle
  <2> QED BY <2>1, <2>2, <2>3
<1>5. Doomed(u) \subseteq Doomed(t)
  BY <1>4 DEF Doomed
<1> QED BY <1>1, <1>2, <1>3, <1>4, <1>5, DeletionGoesOn

LEMMA TellKeeps == ASSUME DossiersInv, NEW w \in Worker, Tell(w) PROVE DossiersInv'
<1>1. PICK t : t = tx[w]
  OBVIOUS
<1>2. /\ t.op = "delete" /\ t.pc = "tell" /\ DOMAIN t = DOMAIN Idle /\ t.rest # <<>>
      /\ t.rest \in Seq(t.docs) /\ t.gone \subseteq t.docs
  BY <1>1, Deletion DEF Tell
<1>3. PICK a, r : a = [t EXCEPT !.rest = Tail(@), !.pc = "release"] /\ Record(w, a, r)
  BY <1>1 DEF Tell
<1>4. PICK u : u = [a EXCEPT !.records = [d \in Doc |-> a.records[d] \o r[d]]]
  OBVIOUS
<1>5. SameDeletion(t, u) /\ u.pc = "release" /\ u.rest = Tail(t.rest) /\ u.gone = t.gone
  BY <1>2, <1>3, <1>4 DEF SameDeletion, Idle
<1>6. Goes(w, u) /\ UNCHANGED <<rows, late, used>>
  BY <1>3, <1>4 DEF Tell, Record, history
<1>7. u.rest \in Seq(t.docs) /\ Doomed(u) \subseteq Doomed(t)
  <2>1. Tail(t.rest) \in Seq(t.docs)
    BY <1>2, Lists
  <2> QED BY <1>2, <1>5, <2>1 DEF Doomed
<1> QED BY <1>1, <1>2, <1>5, <1>6, <1>7, DeletionGoesOn

LEMMA ReadDossiersKeeps == ASSUME DossiersInv, NEW w \in Worker, ReadDossiers(w) PROVE DossiersInv'
<1>1. PICK t : t = tx[w]
  OBVIOUS
<1>2. t.op \in Joining \cup {"reprocess", "delete"} /\ t.rest # <<>> /\ DOMAIN t = DOMAIN Idle
  BY <1>1 DEF ReadDossiers, DossiersInv, TxOk, InPlace, Moving
<1>3. PICK h : h = Dossiers(w, Head(t.rest))
  OBVIOUS
<1>4. PICK u : u = [t EXCEPT !.pc = "write", !.homes = h]
  OBVIOUS
<1>5. Goes(w, u) /\ UNCHANGED <<rows, late, used>>
  BY <1>1, <1>3, <1>4 DEF ReadDossiers, history
<1>6. CASE t.op # "delete"
  <2>1. SameErrand(t, u) /\ u.pc = "write" /\ u.rest = t.rest /\ u.seen = t.seen /\ u.put = t.put
    BY <1>2, <1>4 DEF SameErrand, Idle
  <2> QED BY <1>1, <1>2, <1>5, <1>6, <2>1, MovesOn DEF Moving
<1>7. CASE t.op = "delete"
  <2>1. SameDeletion(t, u) /\ u.pc = "write" /\ u.rest = t.rest /\ u.gone = t.gone
    BY <1>2, <1>4 DEF SameDeletion, Idle
  <2>2. Doomed(u) \subseteq Doomed(t)
    BY <2>1 DEF Doomed
  <2>3. t.rest \in Seq(t.docs) /\ t.gone \subseteq t.docs
    BY <1>1, <1>7, Deletion
  <2> QED BY <1>1, <1>2, <1>5, <1>7, <2>1, <2>2, <2>3, DeletionGoesOn
<1> QED BY <1>6, <1>7

LEMMA WriteIndexKeeps == ASSUME DossiersInv, NEW w \in Worker, WriteIndex(w) PROVE DossiersInv'
<1>1. PICK t : t = tx[w]
  OBVIOUS
<1>2. /\ t.op \in Joining \cup {"reprocess", "delete"} /\ t.rest # <<>> /\ DOMAIN t = DOMAIN Idle
      /\ t.rest \in Seq(t.docs) /\ (t.op \in {"new", "known", "reprocess"} => Len(t.rest) <= 1)
  BY <1>1 DEF WriteIndex, DossiersInv, TxOk, InPlace, Moving
<1>3. UNCHANGED <<rows, late, used>>
  BY DEF WriteIndex
<1>4. CASE t.op # "delete"
  <2>1. PICK next : next = CASE t.op = "known" -> "end"
                             [] t.op # "known" /\ Tail(t.rest) = <<>> -> "commit"
                             [] t.op = "adopt" /\ Tail(t.rest) # <<>> -> "read"
                             [] OTHER -> "ensure"
    OBVIOUS
  <2>2. t.op \in {"new", "known", "reprocess"} => Tail(t.rest) = <<>>
    BY <1>2, Lists
  <2>3. /\ next \in {"end", "commit", "read", "ensure"}
        /\ next \in {"read", "ensure"} => Tail(t.rest) # <<>> /\ t.op \in {"move", "adopt"}
    BY <1>2, <1>4, <2>1, <2>2 DEF Joining
  <2>4. PICK u : u = [t EXCEPT !.rest = Tail(@), !.homes = {}, !.pc = next]
    OBVIOUS
  <2>5. SameErrand(t, u) /\ u.pc = next /\ u.rest = Tail(t.rest) /\ u.seen = t.seen /\ u.put = t.put
    BY <1>2, <2>4 DEF SameErrand, Idle
  <2>6. Goes(w, u)
    BY <1>1, <1>4, <2>1, <2>4 DEF WriteIndex
  <2> QED BY <1>1, <1>2, <1>3, <1>4, <2>3, <2>5, <2>6, MovesOn DEF Moving
<1>5. CASE t.op = "delete"
  <2>1. PICK u : u = [t EXCEPT !.homes = {}, !.pc = "tell"]
    OBVIOUS
  <2>2. SameDeletion(t, u) /\ u.pc = "tell" /\ u.rest = t.rest /\ u.gone = t.gone
    BY <1>2, <2>1 DEF SameDeletion, Idle
  <2>3. Doomed(u) \subseteq Doomed(t)
    BY <2>2 DEF Doomed
  <2>4. Goes(w, u) /\ t.gone \subseteq t.docs
    BY <1>1, <1>5, <2>1, Deletion DEF WriteIndex
  <2> QED BY <1>1, <1>2, <1>3, <1>5, <2>2, <2>3, <2>4, DeletionGoesOn
<1> QED BY <1>4, <1>5

LEMMA GroupKeeps == ASSUME DossiersInv, NEW w \in Worker, Group(w) PROVE DossiersInv'
<1>1. PICK t : t = tx[w]
  OBVIOUS
<1>2. TxOk(t) /\ InPlace(t) /\ \A v \in Worker \ {w} : Apart(t, tx[v]) /\ Apart(tx[v], t)
  BY <1>1 DEF DossiersInv, TxOk
<1>3. t.pc = "group" /\ t.op = "topics" /\ DOMAIN t = DOMAIN Idle
  BY <1>1, <1>2 DEF Group, InPlace
<1>4. PICK S \in SUBSET t.docs :
        /\ used' = IF S = {} THEN used ELSE [used EXCEPT !.topic = @ + 1]
        /\ Goes(w, [t EXCEPT !.pc = "replace", !.old = TopicsOf(t.id), !.gone = S,
                             !.made = IF S = {} THEN NoDossier ELSE used'.topic])
  BY <1>1 DEF Group
<1>5. PICK m : m = IF S = {} THEN NoDossier ELSE used'.topic
  OBVIOUS
<1>6. PICK o : o = TopicsOf(t.id)
  OBVIOUS
<1>7. PICK u : u = [t EXCEPT !.pc = "replace", !.old = o, !.gone = S, !.made = m]
  OBVIOUS
<1>8. /\ DOMAIN u = DOMAIN Idle /\ u.op = t.op /\ u.docs = t.docs /\ u.name = t.name /\ u.put = t.put
      /\ u.pc = "replace" /\ u.rest = t.rest /\ u.gone = S
  BY <1>3, <1>7 DEF Idle
<1>9. InPlace(u) /\ ~Makes(u) /\ u.put = {}
  BY <1>2, <1>3, <1>8 DEF InPlace, Makes, Moving, Joining, Places
<1>10. TxOk(u)'
  BY <1>3, <1>8, <1>9 DEF TxOk, InPlace, MadeIsNew, PutIsSound, GoneIsAlone, Makes, Joining
<1>11. \A v \in Worker \ {w} : Apart(u, tx[v]) /\ Apart(tx[v], u)
  BY <1>2, <1>8, <1>9 DEF Apart
<1>12. DOMAIN used' = {"dossier", "topic"} /\ used'.dossier \in Nat /\ used'.dossier >= used.dossier
  <2>1. DOMAIN used = {"dossier", "topic"} /\ used.dossier \in Nat
    BY DEF DossiersInv, Committed
  <2>2. DOMAIN used' = DOMAIN used /\ used'.dossier = used.dossier
    BY <1>4, <2>1
  <2> QED BY <2>1, <2>2
<1>13. Goes(w, u) /\ UNCHANGED <<rows, late>>
  BY <1>4, <1>5, <1>6, <1>7 DEF Group, history
<1> QED BY <1>10, <1>11, <1>12, <1>13, GoesOn

\* A new dossier has a number of its own, and nobody else has its name.
LEMMA EnsureKeeps == ASSUME DossiersInv, NEW w \in Worker, EnsureStep(w) PROVE DossiersInv'
<1>1. PICK t : t = tx[w]
  OBVIOUS
<1>2. TxOk(t) /\ InPlace(t) /\ \A v \in Worker \ {w} : Apart(t, tx[v]) /\ Apart(tx[v], t)
  BY <1>1 DEF DossiersInv, TxOk
<1>3. t.op \in Joining /\ t.name \in Name /\ DOMAIN t = DOMAIN Idle /\ t.pc = "ensure"
  BY <1>1, <1>2 DEF EnsureStep, InPlace
<1>4. UNCHANGED <<rows, late>>
  BY DEF EnsureStep, history
<1>5. ASSUME NEW u, DOMAIN u = DOMAIN Idle, u.op = t.op, u.docs = t.docs, u.name = t.name, u.put = t.put,
             u.pc = "add", u.rest = t.rest, u.seen = t.seen, u.gone = t.gone, u.id \in Dossier
      PROVE  InPlace(u)
  BY <1>2, <1>3, <1>5 DEF InPlace, Moving, Joining, Places
<1>6. ASSUME NEW i \in Named(w, t.name), Goes(w, [t EXCEPT !.pc = "add", !.id = i]), UNCHANGED used
      PROVE  DossiersInv'
  <2>1. PICK u : u = [t EXCEPT !.pc = "add", !.id = i]
    OBVIOUS
  <2>2. /\ DOMAIN u = DOMAIN Idle /\ u.op = t.op /\ u.docs = t.docs /\ u.name = t.name /\ u.put = t.put
        /\ u.pc = "add" /\ u.rest = t.rest /\ u.seen = t.seen /\ u.id = i /\ u.made = t.made /\ u.gone = t.gone
    BY <1>3, <2>1 DEF Idle
  <2>3. i \in Dossier
    <3>1. t.made # NoDossier => t.made \in Dossier
      BY <1>2, <1>3 DEF TxOk, MadeIsNew, Makes, Joining
    <3> QED BY <1>1, <1>6, <3>1 DEF Named
  <2>4. InPlace(u)
    BY <1>5, <2>2, <2>3
  <2>5. PutIsSound(u) /\ GoneIsAlone(u)
    BY <1>2, <1>3, <2>2 DEF TxOk, PutIsSound, GoneIsAlone, Makes, Joining
  <2> QED BY <1>1, <1>4, <1>6, <2>1, <2>2, <2>4, <2>5, Continues
<1>7. ASSUME Named(w, t.name) = {}, NameFree(w, t.name), EnsureBlind(w, t, "add")
      PROVE  DossiersInv'
  <2>1. PICK a \in Nat : a = used.dossier
    BY DEF DossiersInv, Committed
  <2>2. DOMAIN used' = {"dossier", "topic"} /\ used'.dossier = a + 1 /\ a < MaxDossiers
    BY <1>7, <2>1 DEF EnsureBlind, DossiersInv, Committed
  <2>3. PICK b \in Nat : b = a + 1
    OBVIOUS
  <2>4. b \in Dossier /\ b # NoDossier
    <3>1. MaxDossiers \in Nat
      BY DossiersAssumption
    <3> QED BY <2>1, <2>2, <2>3, <3>1 DEF Dossier, NoDossier
  <2>5. PICK u : u = [t EXCEPT !.pc = "add", !.id = b, !.made = b]
    OBVIOUS
  <2>6. /\ DOMAIN u = DOMAIN Idle /\ u.op = t.op /\ u.docs = t.docs /\ u.name = t.name /\ u.put = t.put
        /\ u.pc = "add" /\ u.rest = t.rest /\ u.seen = t.seen /\ u.id = b /\ u.made = b /\ u.gone = t.gone
    BY <1>3, <2>5 DEF Idle
  <2>7. Goes(w, u)
    BY <1>7, <2>2, <2>3, <2>5 DEF EnsureBlind
  <2>8. (\A i \in Dossier : dossiers[i] # t.name) /\ t.made = NoDossier
    BY <1>1, <1>7 DEF Named
  <2>9. dossiers[b] = NoName
    <3>1. b > a
      BY <2>3
    <3> QED BY <2>1, <2>4, <3>1 DEF DossiersInv, Committed
  <2>10. TxOk(u)'
    <3>1. InPlace(u)
      BY <1>5, <2>4, <2>6
    <3>2. UNCHANGED <<dossiers, status, members, late>> /\ used'.dossier = b
      BY <1>4, <2>2, <2>3 DEF rows
    <3>3. b <= b
      OBVIOUS
    <3>4. MadeIsNew(u)'
      BY <1>3, <2>4, <2>6, <2>8, <2>9, <3>2, <3>3 DEF MadeIsNew
    <3>5. PutIsSound(u)'
      BY <1>2, <2>6, <2>8, <3>2 DEF TxOk, PutIsSound, Makes
    <3>6. GoneIsAlone(u)'
      BY <1>2, <1>3, <2>6, <3>2 DEF TxOk, GoneIsAlone, Joining
    <3> QED BY <3>1, <3>4, <3>5, <3>6 DEF TxOk
  <2>11. ASSUME NEW v \in Worker \ {w} PROVE Apart(u, tx[v]) /\ Apart(tx[v], u)
    <3>1. PICK x : x = tx[v]
      OBVIOUS
    <3>3. Makes(x) => x.made \in Dossier /\ x.made <= a /\ x.name # t.name
      BY <1>7, <2>1, <3>1 DEF DossiersInv, TxOk, MadeIsNew, NameFree, Others, Makes
    <3>4. Makes(x) => x.made # b
      <4>1. \A i \in Dossier : i \in Int
        BY <2>1, LaterNumbers
      <4>2. \A i \in Int : i <= a => i # b
        BY <2>3
      <4> QED BY <3>3, <4>1, <4>2
    <3> QED BY <2>6, <3>1, <3>3, <3>4 DEF Apart
  <2>12. used'.dossier \in Nat /\ used'.dossier >= used.dossier
    BY <2>1, <2>2
  <2> QED BY <1>4, <2>2, <2>7, <2>10, <2>11, <2>12, GoesOn
<1> QED BY <1>1, <1>6, <1>7 DEF EnsureStep, Ensure

LEMMA StopsKeeps == ASSUME DossiersInv, NEW w \in Worker, End(w) \/ Abort(w) PROVE DossiersInv'
<1>1. Goes(w, Idle) /\ UNCHANGED <<rows, late, used>>
  BY DEF End, Abort, history
<1>2. DOMAIN used' = {"dossier", "topic"} /\ used'.dossier \in Nat /\ used'.dossier >= used.dossier
  BY <1>1 DEF DossiersInv, Committed
<1> QED BY <1>1, <1>2, IdleIsOk, GoesOn

-----------------------------------------------------------------------------
(* Beginning an operation. *)

LEMMA Begins ==
  ASSUME DossiersInv, NEW w \in Worker, NEW op, NEW t, Starts(w, op, t),
         DOMAIN t = DOMAIN Idle, t.put = {}, t.made = NoDossier, t.gone = {}, t.pc # "erase",
         InPlace([t EXCEPT !.op = op])
  PROVE  DossiersInv'
<1>1. UNCHANGED <<rows, late, used>>
  BY DEF Starts, history
<1>2. PICK u : u = [t EXCEPT !.op = op]
  OBVIOUS
<1>3. u.op = op /\ u.put = {} /\ u.made = NoDossier /\ u.gone = {} /\ u.pc # "erase"
  BY <1>2 DEF Idle
<1>4. Goes(w, u) /\ InPlace(u)
  BY <1>2 DEF Starts
<1>5. TxOk(u)'
  BY <1>3, <1>4 DEF TxOk, InPlace, MadeIsNew, PutIsSound, GoneIsAlone, Doomed, Makes
<1>6. \A v \in Worker \ {w} : Apart(u, tx[v]) /\ Apart(tx[v], u)
  BY <1>3 DEF Apart, Makes
<1>7. DOMAIN used' = {"dossier", "topic"} /\ used'.dossier \in Nat /\ used'.dossier >= used.dossier
  BY <1>1 DEF DossiersInv, Committed
<1>8. UNCHANGED <<rows, late>>
  BY <1>1
<1> QED BY <1>4, <1>5, <1>6, <1>7, <1>8, GoesOn

LEMMA BeginKeeps == ASSUME DossiersInv, NEW w \in Worker, Begin(w) PROVE DossiersInv'
<1>3. ASSUME NEW c \in Doc, NEW n \in Name \cup {NoName}, DeliverNew(w, c, n) PROVE DossiersInv'
  <2>1. PICK t : t = [Idle EXCEPT !.pc = "register", !.name = n, !.docs = {c}, !.rest = <<c>>]
    OBVIOUS
  <2>2. PICK u : u = [t EXCEPT !.op = "new"]
    OBVIOUS
  <2>3. DOMAIN t = DOMAIN Idle /\ t.put = {} /\ t.made = NoDossier /\ t.gone = {} /\ t.pc # "erase"
    BY <2>1 DEF Idle
  <2>4. /\ DOMAIN u = DOMAIN Idle /\ u.pc = "register" /\ u.op = "new" /\ u.name = n /\ u.docs = {c}
        /\ u.rest = <<c>> /\ u.put = {} /\ u.gone = {}
    BY <2>1, <2>2 DEF Idle
  <2>5. u.rest \in Seq({c}) /\ Len(u.rest) <= 1 /\ u.rest # <<>>
    BY <2>4
  <2>6. InPlace(u)
    BY <2>4, <2>5 DEF InPlace, Moving, Joining, Places
  <2> QED BY <1>3, <2>1, <2>2, <2>3, <2>6, Begins DEF DeliverNew
<1>4. ASSUME NEW c \in Doc, NEW n \in Name, DeliverKnown(w, c, n) PROVE DossiersInv'
  <2>1. PICK t : t = [Idle EXCEPT !.pc = "ensure", !.name = n, !.docs = {c}, !.rest = <<c>>]
    OBVIOUS
  <2>2. PICK u : u = [t EXCEPT !.op = "known"]
    OBVIOUS
  <2>3. DOMAIN t = DOMAIN Idle /\ t.put = {} /\ t.made = NoDossier /\ t.gone = {} /\ t.pc # "erase"
    BY <2>1 DEF Idle
  <2>4. /\ DOMAIN u = DOMAIN Idle /\ u.pc = "ensure" /\ u.op = "known" /\ u.name = n /\ u.docs = {c}
        /\ u.rest = <<c>> /\ u.put = {} /\ u.gone = {}
    BY <2>1, <2>2 DEF Idle
  <2>5. u.rest \in Seq({c}) /\ Len(u.rest) <= 1 /\ u.rest # <<>>
    BY <2>4
  <2>6. InPlace(u)
    BY <2>4, <2>5 DEF InPlace, Moving, Joining, Places
  <2> QED BY <1>4, <2>1, <2>2, <2>3, <2>6, Begins DEF DeliverKnown
<1>5. ASSUME NEW S \in SUBSET Doc, NEW n \in Name, NEW from \in Dossier \cup {NoDossier}, Assign(w, S, n, from)
      PROVE  DossiersInv'
  <2>1. PICK t : t = [Idle EXCEPT !.pc = "ensure", !.name = n, !.from = from, !.docs = S, !.rest = SetToSeq(S)]
    OBVIOUS
  <2>3. PICK u : u = [t EXCEPT !.op = "move"]
    OBVIOUS
  <2>4. DOMAIN t = DOMAIN Idle /\ t.put = {} /\ t.made = NoDossier /\ t.gone = {} /\ t.pc # "erase"
    BY <2>1 DEF Idle
  <2>5. /\ DOMAIN u = DOMAIN Idle /\ u.pc = "ensure" /\ u.op = "move" /\ u.name = n /\ u.docs = S
        /\ u.rest = SetToSeq(S) /\ u.put = {} /\ u.gone = {}
    BY <2>1, <2>3 DEF Idle
  <2>6. u.rest \in Seq(S) /\ u.rest # <<>>
    BY <1>5, <2>5, Listed DEF Assign
  <2>7. InPlace(u)
    BY <2>5, <2>6 DEF InPlace, Moving, Joining, Places
  <2> QED BY <1>5, <2>1, <2>3, <2>4, <2>7, Begins DEF Assign
<1>6. ASSUME NEW n \in Name, Adopt(w, n) PROVE DossiersInv'
  <2>1. PICK S : S = Orphans /\ S \subseteq Doc
    BY DEF Orphans
  <2>2. PICK t : t = [Idle EXCEPT !.pc = "ensure", !.name = n, !.docs = S, !.rest = SetToSeq(S)]
    OBVIOUS
  <2>3. PICK u : u = [t EXCEPT !.op = "adopt"]
    OBVIOUS
  <2>4. DOMAIN t = DOMAIN Idle /\ t.put = {} /\ t.made = NoDossier /\ t.gone = {} /\ t.pc # "erase"
    BY <2>2 DEF Idle
  <2>5. /\ DOMAIN u = DOMAIN Idle /\ u.pc = "ensure" /\ u.op = "adopt" /\ u.name = n /\ u.docs = S
        /\ u.rest = SetToSeq(S) /\ u.put = {} /\ u.gone = {} /\ u.seen = <<>>
    BY <2>2, <2>3 DEF Idle
  <2>6. u.rest \in Seq(S) /\ u.rest # <<>> /\ u.seen \in Seq(S)
    BY <1>6, <2>1, <2>5, Listed DEF Adopt
  <2>7. InPlace(u)
    BY <2>1, <2>5, <2>6 DEF InPlace, Moving, Joining, Places
  <2> QED BY <1>6, <2>1, <2>2, <2>3, <2>4, <2>7, Begins DEF Adopt
<1>7. ASSUME NEW c \in Doc, Reprocess(w, c) PROVE DossiersInv'
  <2>1. PICK k : k = index[c].topics
    OBVIOUS
  <2>2. PICK t : t = [Idle EXCEPT !.pc = "read", !.docs = {c}, !.rest = <<c>>, !.kept = k]
    OBVIOUS
  <2>3. PICK u : u = [t EXCEPT !.op = "reprocess"]
    OBVIOUS
  <2>4. DOMAIN t = DOMAIN Idle /\ t.put = {} /\ t.made = NoDossier /\ t.gone = {} /\ t.pc # "erase"
    BY <2>2 DEF Idle
  <2>5. /\ DOMAIN u = DOMAIN Idle /\ u.pc = "read" /\ u.op = "reprocess" /\ u.docs = {c}
        /\ u.rest = <<c>> /\ u.put = {} /\ u.gone = {}
    BY <2>2, <2>3 DEF Idle
  <2>6. u.rest \in Seq({c}) /\ Len(u.rest) <= 1 /\ u.rest # <<>>
    BY <2>5
  <2>7. InPlace(u)
    BY <2>5, <2>6 DEF InPlace, Moving, Joining, Places
  <2> QED BY <1>7, <2>1, <2>2, <2>3, <2>4, <2>7, Begins DEF Reprocess
<1>8. ASSUME NEW i \in Dossier, Compute(w, i) PROVE DossiersInv'
  <2>1. PICK S : S = DocumentsIn(i) /\ S \subseteq Doc
    BY DEF DocumentsIn
  <2>2. PICK seen : seen = [c \in S |-> index[c].topics]
    OBVIOUS
  <2>3. PICK t : t = [Idle EXCEPT !.pc = "group", !.id = i, !.docs = S, !.seen = seen]
    OBVIOUS
  <2>4. PICK u : u = [t EXCEPT !.op = "topics"]
    OBVIOUS
  <2>5. DOMAIN t = DOMAIN Idle /\ t.put = {} /\ t.made = NoDossier /\ t.gone = {} /\ t.pc # "erase"
    BY <2>3 DEF Idle
  <2>6. /\ DOMAIN u = DOMAIN Idle /\ u.pc = "group" /\ u.op = "topics" /\ u.docs = S
        /\ u.rest = <<>> /\ u.put = {} /\ u.gone = {}
    BY <2>3, <2>4 DEF Idle
  <2>7. u.rest \in Seq(S)
    BY <2>6
  <2>8. InPlace(u)
    BY <2>1, <2>6, <2>7 DEF InPlace, Moving, Joining, Places
  <2> QED BY <1>8, <2>1, <2>2, <2>3, <2>4, <2>5, <2>8, Begins DEF Compute
<1>9. ASSUME NEW i \in Dossier, DeleteDossier(w, i) PROVE DossiersInv'
  <2>1. PICK S : S = {c \in Doc : <<i, c>> \in members}
    OBVIOUS
  <2>2. PICK t : t = [Idle EXCEPT !.pc = "judge", !.id = i, !.docs = S, !.rest = SetToSeq(S)]
    OBVIOUS
  <2>3. PICK u : u = [t EXCEPT !.op = "delete"]
    OBVIOUS
  <2>4. DOMAIN t = DOMAIN Idle /\ t.put = {} /\ t.made = NoDossier /\ t.gone = {} /\ t.pc # "erase"
    BY <2>2 DEF Idle
  <2>5. /\ DOMAIN u = DOMAIN Idle /\ u.pc = "judge" /\ u.op = "delete" /\ u.docs = S
        /\ u.rest = SetToSeq(S) /\ u.put = {} /\ u.cut = {} /\ u.gone = {} /\ u.made = NoDossier
    BY <2>2, <2>3 DEF Idle
  <2>6. u.rest \in Seq(S) /\ S \subseteq Doc
    BY <2>1, <2>5, Listed
  <2>7. InPlace(u)
    BY <2>5, <2>6 DEF InPlace, Moving, Joining, Places
  <2> QED BY <1>9, <2>1, <2>2, <2>3, <2>4, <2>6, <2>7, Begins DEF DeleteDossier
<1> QED BY <1>3, <1>4, <1>5, <1>6, <1>7, <1>8, <1>9 DEF Begin

-----------------------------------------------------------------------------
(* A commit, and a rename. *)

\* What a commit does to the rows of dossiers and documents.
LEMMA CommitDoes ==
  ASSUME DossiersInv, NEW w \in Worker, NEW t, t = tx[w], Commit(w)
  PROVE  /\ DOMAIN dossiers' = Dossier
         /\ \A i \in Dossier :
              \/ dossiers'[i] = dossiers[i] /\ ~(t.op = "delete" /\ i = t.id) /\ ~(Makes(t) /\ i = t.made)
              \/ Makes(t) /\ i = t.made /\ dossiers'[i] = t.name
              \/ t.op = "delete" /\ i = t.id /\ dossiers'[i] = NoName
         /\ DOMAIN status' = Doc
         /\ \A c \in Doc : status'[c] = "deleted" =>
              \/ c \in t.gone /\ t.op = "delete"
              \/ status[c] = "deleted" /\ ~(c \in t.docs /\ t.op = "new")
<1>1. InPlace(t)
  BY DEF DossiersInv, TxOk
<1>2. \A i \in Dossier : i # NoDossier
  <2>1. MaxDossiers \in Nat
    BY DossiersAssumption
  <2> QED BY <2>1 DEF Dossier, NoDossier
<1>3. dossiers' = [i \in Dossier |-> CASE i = t.made /\ t.op # "topics" -> t.name
                                       [] i = t.id /\ t.op = "delete" -> NoName
                                       [] OTHER -> dossiers[i]]
  BY DEF Commit
<1>4. DOMAIN dossiers' = Dossier
  BY <1>3
<1>5. ASSUME NEW i \in Dossier
      PROVE  \/ dossiers'[i] = dossiers[i] /\ ~(t.op = "delete" /\ i = t.id) /\ ~(Makes(t) /\ i = t.made)
             \/ Makes(t) /\ i = t.made /\ dossiers'[i] = t.name
             \/ t.op = "delete" /\ i = t.id /\ dossiers'[i] = NoName
  <2>1. dossiers'[i] = CASE i = t.made /\ t.op # "topics" -> t.name
                         [] i = t.id /\ t.op = "delete" -> NoName
                         [] OTHER -> dossiers[i]
    BY <1>3
  <2>2. i = t.made => t.op # "delete"
    BY <1>1, <1>2 DEF InPlace
  <2>3. i = t.made /\ t.op # "topics" <=> Makes(t) /\ i = t.made
    BY <1>2 DEF Makes
  <2> QED BY <2>1, <2>2, <2>3
<1>6. status' = [c \in Doc |->
       CASE c \in t.gone /\ t.op = "delete" -> "deleted"
         [] c \in t.docs /\ t.op = "new" -> IF t.rest = <<>> THEN "indexed" ELSE "registered"
         [] OTHER -> status[c]]
  BY DEF Commit
<1>7. ASSUME NEW c \in Doc, status'[c] = "deleted"
      PROVE  \/ c \in t.gone /\ t.op = "delete"
             \/ status[c] = "deleted" /\ ~(c \in t.docs /\ t.op = "new")
  BY <1>6, <1>7
<1> QED BY <1>4, <1>5, <1>6, <1>7

LEMMA CommitKeeps == ASSUME DossiersInv, NEW w \in Worker, Commit(w) PROVE DossiersInv'
<1>1. PICK t : t = tx[w]
  OBVIOUS
<1>2. TxOk(t) /\ InPlace(t) /\ \A v \in Worker \ {w} : Apart(t, tx[v]) /\ Apart(tx[v], t)
  BY <1>1 DEF DossiersInv, TxOk
<1>3. /\ \A i \in Dossier :
           \/ dossiers'[i] = dossiers[i] /\ ~(t.op = "delete" /\ i = t.id) /\ ~(Makes(t) /\ i = t.made)
           \/ Makes(t) /\ i = t.made /\ dossiers'[i] = t.name
           \/ t.op = "delete" /\ i = t.id /\ dossiers'[i] = NoName
      /\ \A c \in Doc : status'[c] = "deleted" =>
           \/ c \in t.gone /\ t.op = "delete"
           \/ status[c] = "deleted" /\ ~(c \in t.docs /\ t.op = "new")
  BY <1>1, CommitDoes
<1>4. /\ members' = (members \ t.cut) \cup t.put /\ UNCHANGED used
      /\ late' = (late \ t.put) \cup {p \in t.put : \E v \in Others(w) : Condemns(v, p[2])}
      /\ t.op = "delete" => RowFree(w, t.id) /\ \A p \in members \ t.cut : p[1] # t.id
  BY <1>1 DEF Commit, Refused
<1>5. NoName \notin Name
  BY DossiersAssumption DEF NoName
<1>6. /\ members \subseteq Dossier \X Doc /\ t.put \subseteq Dossier \X t.docs /\ t.docs \subseteq Doc
      /\ t.gone \subseteq t.docs
  BY <1>2 DEF DossiersInv, Committed, InPlace
\* A row that is there goes only with its dossier.
<1>7. \A i \in Dossier : dossiers[i] # NoName => dossiers'[i] # NoName \/ (t.op = "delete" /\ i = t.id)
  BY <1>2, <1>3, <1>5 DEF TxOk, MadeIsNew
<1>8. Committed'
  <2>1. DOMAIN dossiers' = Dossier /\ DOMAIN status' = Doc
    BY <1>1, CommitDoes
  <2>2. \A i \in Dossier : dossiers'[i] \in Name \cup {NoName}
    BY <1>2, <1>3 DEF DossiersInv, Committed, TxOk, MadeIsNew
  <2>3. dossiers' \in [Dossier -> Name \cup {NoName}]
    <3>1. dossiers' = [i \in Dossier |-> dossiers'[i]]
      BY DEF Commit
    <3> QED BY <2>2, <3>1
  <2>4. \A i \in Dossier : i > used.dossier => dossiers'[i] = NoName
    <3>1. PICK a \in Nat : a = used.dossier
      BY DEF DossiersInv, Committed
    <3>2. ASSUME NEW i \in Dossier, i > a PROVE ~(Makes(t) /\ i = t.made)
      <4>1. Makes(t) => t.made <= a
        BY <1>2, <3>1 DEF TxOk, MadeIsNew
      <4>2. i \in Int
        BY <3>1, LaterNumbers
      <4>3. ~(i <= a)
        BY <3>2, <4>2
      <4> QED BY <4>1, <4>3
    <3>3. \A i \in Dossier : i > a => dossiers[i] = NoName
      BY <3>1 DEF DossiersInv, Committed
    <3> QED BY <1>3, <3>1, <3>2, <3>3
  <2>5. members' \subseteq Dossier \X Doc
    BY <1>4, <1>6
  <2> QED BY <1>4, <2>1, <2>3, <2>4, <2>5 DEF DossiersInv, Committed
<1>9. DossiersAreSound'
  <2>1. ASSUME NEW i \in Dossier, NEW j \in Dossier, dossiers'[i] # NoName, dossiers'[i] = dossiers'[j]
        PROVE  i = j
    <3>1. \A k \in Dossier : dossiers'[k] = NoName \/ dossiers'[k] = dossiers[k] \/ (Makes(t) /\ k = t.made)
      BY <1>3
    <3>2. Makes(t) => \A k \in Dossier : dossiers[k] # t.name /\ (k = t.made => dossiers'[k] = t.name)
      BY <1>2, <1>3, <1>5 DEF TxOk, MadeIsNew, InPlace, Makes
    <3>3. dossiers[i] # NoName /\ dossiers[i] = dossiers[j] => i = j
      BY DEF DossiersInv, DossiersAreSound
    <3> QED BY <2>1, <3>1, <3>2, <3>3
  <2>2. ASSUME NEW p \in members' PROVE dossiers'[p[1]] # NoName
    <3>1. CASE p \in members \ t.cut
      <4>1. p[1] \in Dossier /\ dossiers[p[1]] # NoName
        BY <1>6, <3>1 DEF DossiersInv, DossiersAreSound
      <4> QED BY <1>4, <1>7, <3>1, <4>1
    <3>2. CASE p \in t.put
      <4>1. p[1] \in Dossier /\ t.op # "delete"
        BY <1>2, <1>6, <3>2 DEF InPlace, Joining
      <4>2. CASE Makes(t) /\ p[1] = t.made
        BY <1>2, <1>3, <1>5, <4>1, <4>2 DEF TxOk, MadeIsNew
      <4>3. CASE dossiers[p[1]] # NoName
        BY <1>7, <4>1, <4>3
      <4> QED BY <1>2, <3>2, <4>2, <4>3 DEF TxOk, PutIsSound
    <3> QED BY <1>4, <2>2, <3>1, <3>2
  <2> QED BY <2>1, <2>2 DEF DossiersAreSound
\* What the others carry.
<1>11. ASSUME NEW v \in Worker \ {w}, NEW x, x = tx[v] PROVE TxOk(x)'
  <2>1. TxOk(x) /\ InPlace(x) /\ Apart(t, x)
    BY <1>2, <1>11 DEF DossiersInv, TxOk
  <2>3. MadeIsNew(x)'
    <3>1. SUFFICES ASSUME Makes(x) PROVE dossiers'[x.made] = NoName /\ \A i \in Dossier : dossiers'[i] # x.name
      BY <1>4, <2>1 DEF TxOk, MadeIsNew
    <3>2. x.made \in Dossier /\ x.name \in Name /\ dossiers[x.made] = NoName /\ \A i \in Dossier : dossiers[i] # x.name
      BY <2>1, <3>1 DEF TxOk, MadeIsNew
    <3>3. Makes(t) => t.made # x.made /\ t.name # x.name
      BY <2>1, <3>1 DEF Apart
    <3>4. dossiers'[x.made] = NoName
      BY <1>3, <3>2, <3>3
    <3>5. \A i \in Dossier : dossiers'[i] # x.name
      BY <1>3, <1>5, <3>2, <3>3
    <3> QED BY <3>4, <3>5
  <2>4. PutIsSound(x)'
    <3>1. ASSUME NEW p \in x.put PROVE (Makes(x) /\ p[1] = x.made) \/ dossiers'[p[1]] # NoName
      <4>1. p[1] \in Dossier
        BY <2>1 DEF InPlace
      <4>2. t.op = "delete" => p[1] # t.id
        BY <1>4, <1>11 DEF RowFree, Others
      <4>3. (Makes(x) /\ p[1] = x.made) \/ dossiers[p[1]] # NoName
        BY <2>1 DEF TxOk, PutIsSound
      <4> QED BY <1>7, <4>1, <4>2, <4>3
    <3> QED BY <3>1 DEF PutIsSound
  <2>5. GoneIsAlone(x)'
    <3>1. ASSUME x.op = "delete", NEW c \in Doomed(x), NEW p \in members', p[2] = c PROVE p[1] = x.id \/ p \in late'
      <4>1. CASE p \in t.put
        <5>1. Condemns(v, c)
          BY <1>11, <3>1 DEF Condemns, Doomed
        <5>2. v \in Others(w)
          BY <1>11 DEF Others
        <5> QED BY <1>4, <3>1, <4>1, <5>1, <5>2
      <4>2. CASE p \notin t.put
        <5>1. p \in members
          BY <1>4, <3>1, <4>2
        <5>2. p[1] = x.id \/ p \in late
          BY <2>1, <3>1, <5>1 DEF TxOk, GoneIsAlone
        <5> QED BY <1>4, <4>2, <5>2
      <4> QED BY <4>1, <4>2
    <3> QED BY <3>1 DEF GoneIsAlone, Doomed
  <2> QED BY <2>1, <2>3, <2>4, <2>5 DEF TxOk
\* What the worker itself goes on with.
<1>12. PICK u : u = After(t)
  OBVIOUS
<1>13. tx'[w] = u /\ DOMAIN tx' = Worker /\ \A v \in Worker \ {w} : tx'[v] = tx[v]
  BY <1>1, <1>12 DEF Commit, Goes, DossiersInv
<1>14. u = Idle \/ (/\ t.op \in {"new", "known"} /\ t.rest # <<>>
                    /\ DOMAIN u = DOMAIN Idle /\ u.pc = "read" /\ u.op = t.op /\ u.docs = t.docs /\ u.rest = t.rest
                    /\ u.name = t.name /\ u.put = {} /\ u.made = NoDossier /\ u.gone = t.gone)
  <2>0. DOMAIN t = DOMAIN Idle
    BY <1>2 DEF InPlace
  <2>1. CASE t.op \in {"new", "known"} /\ t.rest # <<>> /\ t.put # {}
    <3>1. u = [t EXCEPT !.pc = "read", !.put = {}, !.records = NoRecords, !.made = NoDossier]
      BY <1>12, <2>1 DEF After
    <3> QED BY <2>0, <2>1, <3>1 DEF Idle
  <2>2. CASE t.op = "new" /\ t.rest # <<>> /\ t.put = {}
    <3>1. u = [t EXCEPT !.pc = "read", !.records = NoRecords, !.made = NoDossier]
      BY <1>12, <2>2 DEF After
    <3> QED BY <2>0, <2>2, <3>1 DEF Idle
  <2>3. CASE ~(t.op \in {"new", "known"} /\ t.rest # <<>> /\ t.put # {}) /\ ~(t.op = "new" /\ t.rest # <<>> /\ t.put = {})
    BY <1>12, <2>3 DEF After
  <2> QED BY <2>1, <2>2, <2>3
<1>15. TxOk(u)'
  <2>1. CASE u = Idle
    BY <2>1, IdleIsOk
  <2>2. CASE u # Idle
    <3>1. InPlace(u)
      BY <1>2, <1>14, <2>2 DEF InPlace, Moving, Joining, Places
    <3>2. MadeIsNew(u)' /\ PutIsSound(u)' /\ GoneIsAlone(u)'
      BY <1>14, <2>2 DEF MadeIsNew, PutIsSound, GoneIsAlone, Makes
    <3> QED BY <3>1, <3>2 DEF TxOk
  <2> QED BY <2>1, <2>2
<1>16. u.docs \subseteq t.docs /\ ~Makes(u)
  BY <1>14 DEF Idle, Makes
<1>17. ASSUME NEW v \in Worker PROVE TxOk(tx[v])'
  <2>1. PICK x : x = tx'[v]
    OBVIOUS
  <2>2. TxOk(x)'
    <3>1. CASE v = w
      BY <1>13, <1>15, <2>1, <3>1
    <3>2. CASE v # w
      BY <1>11, <1>13, <2>1, <3>2
    <3> QED BY <3>1, <3>2
  <2> QED BY <2>1, <2>2
<1>18. ASSUME NEW v \in Worker, NEW x \in Worker, v # x PROVE Apart(tx[v], tx[x])'
  <2>1. PICK a, b : a = tx'[v] /\ b = tx'[x]
    OBVIOUS
  <2>2. Apart(a, b)
    <3>1. CASE v = w
      <4>1. a = u /\ b = tx[x] /\ Apart(t, b)
        BY <1>2, <1>13, <1>18, <2>1, <3>1
      <4> QED BY <1>16, <4>1 DEF Apart
    <3>2. CASE x = w
      <4>1. b = u /\ a = tx[v] /\ Apart(a, t)
        BY <1>2, <1>13, <1>18, <2>1, <3>2
      <4> QED BY <1>16, <4>1 DEF Apart
    <3>3. CASE v # w /\ x # w
      BY <1>13, <1>18, <2>1, <3>3 DEF DossiersInv
    <3> QED BY <3>1, <3>2, <3>3
  <2>3. Apart(a, b)'
    BY <1>4, <2>2 DEF Apart
  <2> QED BY <2>1, <2>3
<1> QED BY <1>8, <1>9, <1>13, <1>17, <1>18 DEF DossiersInv

LEMMA RenameKeeps ==
  ASSUME DossiersInv, NEW i \in Dossier, NEW n \in Name, Rename(i, n) PROVE DossiersInv'
<1>1. /\ dossiers[i] # NoName /\ \A j \in Dossier : dossiers[j] # n
      /\ \A v \in Worker : tx[v].made = NoDossier \/ tx[v].name # n
      /\ dossiers' = [dossiers EXCEPT ![i] = n]
      /\ UNCHANGED <<used, members, status, tx, late>>
  BY DEF Rename, history
<1>2. NoName \notin Name
  BY DossiersAssumption DEF NoName
<1>3. dossiers \in [Dossier -> Name \cup {NoName}]
  BY DEF DossiersInv, Committed
<1>4. \A j \in Dossier : dossiers'[j] = (IF j = i THEN n ELSE dossiers[j])
  BY <1>1, <1>3
<1>5. Committed'
  <2>1. dossiers' \in [Dossier -> Name \cup {NoName}]
    BY <1>1, <1>3
  <2>2. \A j \in Dossier : j > used.dossier => dossiers'[j] = NoName
    BY <1>1, <1>4 DEF DossiersInv, Committed
  <2> QED BY <1>1, <2>1, <2>2 DEF DossiersInv, Committed
<1>6. DossiersAreSound'
  <2>1. \A p \in members : p[1] \in Dossier
    BY DEF DossiersInv, Committed
  <2>2. \A p \in members : dossiers'[p[1]] # NoName
    BY <1>2, <1>4, <2>1 DEF DossiersInv, DossiersAreSound
  <2>3. \A j, k \in Dossier : dossiers'[j] # NoName /\ dossiers'[j] = dossiers'[k] => j = k
    BY <1>1, <1>4 DEF DossiersInv, DossiersAreSound
  <2> QED BY <1>1, <2>2, <2>3 DEF DossiersAreSound
<1>7. ASSUME NEW v \in Worker PROVE TxOk(tx[v])'
  <2>1. PICK t : t = tx[v] /\ t = tx'[v]
    BY <1>1
  <2>2. TxOk(t) /\ InPlace(t) /\ (t.made = NoDossier \/ t.name # n)
    BY <1>1, <2>1 DEF DossiersInv, TxOk
  <2>3. MadeIsNew(t)'
    BY <1>1, <1>4, <2>2 DEF TxOk, MadeIsNew, Makes
  <2>4. \A p \in t.put : p[1] \in Dossier
    BY <2>2 DEF InPlace
  <2>5. PutIsSound(t)'
    BY <1>2, <1>4, <2>2, <2>4 DEF TxOk, PutIsSound
  <2>6. GoneIsAlone(t)'
    BY <1>1, <2>2 DEF TxOk, GoneIsAlone
  <2>7. TxOk(t)'
    BY <2>2, <2>3, <2>5, <2>6 DEF TxOk
  <2> QED BY <2>1, <2>7
<1>8. \A v, x \in Worker : v # x => Apart(tx'[v], tx'[x])
  BY <1>1 DEF DossiersInv
<1>9. DOMAIN tx' = Worker
  BY <1>1 DEF DossiersInv
<1> QED BY <1>5, <1>6, <1>7, <1>8, <1>9 DEF DossiersInv, Apart, Makes

-----------------------------------------------------------------------------
(* The theorems. *)

LEMMA AtTheStart == Init => DossiersInv
<1> SUFFICES ASSUME Init PROVE DossiersInv
  OBVIOUS
<1>1. PICK homes \in {{}, {1}}, S \in SUBSET Doc :
        /\ dossiers = [i \in Dossier |-> IF i \in homes THEN FirstName ELSE NoName]
        /\ used = [dossier |-> Cardinality(homes), topic |-> 0]
        /\ members = homes \X S
        /\ status = [c \in Doc |-> IF c \in S THEN "indexed" ELSE "none"]
        /\ tx = [w \in Worker |-> Idle]
  <2>1. PICK before \in BOOLEAN :
          LET S == IF before THEN Doc ELSE Delivered
              homes == IF before THEN {} ELSE {1} IN
          /\ dossiers = [i \in Dossier |-> IF i \in homes THEN FirstName ELSE NoName]
          /\ used = [dossier |-> Cardinality(homes), topic |-> 0]
          /\ members = homes \X S
          /\ status = [c \in Doc |-> IF c \in S THEN "indexed" ELSE "none"]
          /\ tx = [w \in Worker |-> Idle]
    BY DEF Init
  <2>2. PICK homes : homes = IF before THEN {} ELSE {1}
    OBVIOUS
  <2>3. PICK S : S = IF before THEN Doc ELSE Delivered
    OBVIOUS
  <2>4. homes \in {{}, {1}} /\ S \in SUBSET Doc
    BY <2>2, <2>3, DossiersAssumption
  <2> QED BY <2>1, <2>2, <2>3, <2>4
<1>2. 1 \in Dossier /\ FirstName \in Name /\ NoName \notin Name
  <2>1. MaxDossiers \in Nat /\ MaxDossiers > 0
    BY DossiersAssumption
  <2>2. 1 \in Dossier
    BY <2>1 DEF Dossier
  <2> QED BY <2>2, DossiersAssumption DEF NoName
<1>3. PICK n \in {0, 1} : n = Cardinality(homes) /\ (homes = {1} => n = 1)
  <2>1. Cardinality({}) = 0 /\ Cardinality({1}) = 1
    BY FS_EmptySet, FS_Singleton
  <2> QED BY <2>1
<1>4. Committed
  <2>1. dossiers \in [Dossier -> Name \cup {NoName}]
    BY <1>1, <1>2
  <2>2. used.dossier = n /\ DOMAIN used = {"dossier", "topic"}
    BY <1>1, <1>3
  <2>3. \A i \in Dossier : i > n => i \notin homes
    BY <1>3
  <2>4. \A i \in Dossier : i > used.dossier => dossiers[i] = NoName
    BY <1>1, <2>2, <2>3
  <2>5. members \subseteq Dossier \X Doc /\ DOMAIN status = Doc
    BY <1>1, <1>2
  <2> QED BY <2>1, <2>2, <2>4, <2>5 DEF Committed
<1>5. DossiersAreSound
  <2>1. \A i \in Dossier : dossiers[i] # NoName => i = 1
    BY <1>1
  <2>2. \A p \in members : p[1] = 1 /\ 1 \in homes
    BY <1>1
  <2>3. \A p \in members : dossiers[p[1]] # NoName
    BY <1>1, <1>2, <2>2
  <2> QED BY <2>1, <2>3 DEF DossiersAreSound
<1>7. \A v, x \in Worker : TxOk(tx[v]) /\ Apart(tx[v], tx[x])
  BY <1>1, IdleIsOk
<1> QED BY <1>1, <1>4, <1>5, <1>7 DEF DossiersInv

LEMMA NothingHappens == DossiersInv /\ UNCHANGED vars => DossiersInv'
<1> SUFFICES ASSUME DossiersInv, UNCHANGED vars PROVE DossiersInv'
  OBVIOUS
<1>1. UNCHANGED <<dossiers, used, members, status, tx, late>>
  BY DEF vars, rows, history
<1>2. Committed' /\ DossiersAreSound'
  BY <1>1 DEF DossiersInv, Committed, DossiersAreSound
<1>3. \A v \in Worker : TxOk(tx[v])'
  BY <1>1 DEF DossiersInv, TxOk, InPlace, MadeIsNew, PutIsSound, GoneIsAlone
<1>4. \A v, x \in Worker : v # x => Apart(tx[v], tx[x])'
  BY <1>1 DEF DossiersInv, Apart
<1> QED BY <1>1, <1>2, <1>3, <1>4 DEF DossiersInv

\* What holds while any number of deliveries, moves, adoptions, deletions,
\* computations and renames interleave: dossiers.py, dossier_tools.py,
\* dossier_deletion.py and backfill_dossier.py with the row locks and the unique
\* and foreign keys of Postgres.
THEOREM DossiersInvariant == Spec => []DossiersInv
<1>1. DossiersInv /\ [Next]_vars => DossiersInv'
  <2> SUFFICES ASSUME DossiersInv, [Next]_vars PROVE DossiersInv'
    OBVIOUS
  <2>1. ASSUME NEW w \in Worker, Begin(w) PROVE DossiersInv'
    BY <2>1, BeginKeeps
  <2>2. ASSUME NEW w \in Worker, Step(w) PROVE DossiersInv'
    BY <2>2, RegisterStep, EnsureKeeps, AddStepKeeps, RemoveStepKeeps, CutStepKeeps, NoteStepKeeps,
       ReadDossiersKeeps, PassOverKeeps, WriteIndexKeeps, GroupKeeps, ReplaceKeeps, WriteTopicsKeeps,
       JudgeKeeps, EraseKeeps, NoteErasedKeeps, ReleaseKeeps, TellKeeps, CommitKeeps, StopsKeeps DEF Step
  <2>3. ASSUME NEW w \in Worker, Abort(w) PROVE DossiersInv'
    BY <2>3, StopsKeeps
  <2>4. ASSUME NEW i \in Dossier, NEW n \in Name, Rename(i, n) PROVE DossiersInv'
    BY <2>4, RenameKeeps
  <2>5. CASE UNCHANGED vars
    BY <2>5, NothingHappens
  <2> QED BY <2>1, <2>2, <2>3, <2>4, <2>5 DEF Next
<1> QED BY <1>1, AtTheStart, PTL DEF Spec

\* No two dossiers have one name, though any number of commands make one at the
\* same time (ensure), and every membership is of a dossier that is there,
\* though it may be deleted between the look-up and the insert.
THEOREM DossiersStaySound == Spec => []DossiersAreSound
<1>1. DossiersInv => DossiersAreSound
  BY DEF DossiersInv
<1> QED BY <1>1, DossiersInvariant, PTL

\* delete_dossier looks at its members one by one, and takes their rows after
\* that: a document it deletes is in no other dossier when it commits, unless that
\* membership was committed after the look.
THEOREM HeldDocumentsAreKept == Spec => HeldIsKept
<1>1. DossiersInv /\ [Next]_vars =>
        [\A p \in members' : status[p[2]] # "deleted" /\ status'[p[2]] = "deleted" => p \in late]_vars
  <2> SUFFICES ASSUME DossiersInv, Next, NEW p \in members', status[p[2]] # "deleted", status'[p[2]] = "deleted"
               PROVE  p \in late
    BY DEF vars, rows
  <2>1. PICK w \in Worker : Commit(w)
    <3>1. \A w \in Worker : Begin(w) \/ Abort(w) => UNCHANGED status
      BY DEF Begin, DeliverNew, DeliverKnown, Assign, Adopt, Reprocess, Compute, DeleteDossier, Starts, Abort, rows
    <3>2. \A w \in Worker : Step(w) /\ ~Commit(w) => UNCHANGED status
      BY DEF Step, Register, EnsureStep, AddStep, RemoveStep, CutStep, NoteStep, ReadDossiers, PassOver, WriteIndex,
         Group, Replace, WriteTopics, Judge, Erase, NoteErased, Release, Tell, End, rows
    <3>3. \A i \in Dossier, n \in Name : Rename(i, n) => UNCHANGED status
      BY DEF Rename
    <3> QED BY <3>1, <3>2, <3>3 DEF Next
  <2>2. PICK t : t = tx[w]
    OBVIOUS
  <2>3. TxOk(t) /\ InPlace(t)
    BY <2>2 DEF DossiersInv, TxOk
  <2>4. /\ members' = (members \ t.cut) \cup t.put
        /\ t.op = "delete" => \A q \in members \ t.cut : q[1] # t.id
    BY <2>1, <2>2 DEF Commit, Refused
  <2>5. p[2] \in Doc
    BY <2>3, <2>4 DEF InPlace, DossiersInv, Committed
  <2>6. t.op = "delete" /\ p[2] \in t.gone
    BY <2>1, <2>2, <2>5, CommitDoes
  <2>7. p \in members \ t.cut
    BY <2>3, <2>4, <2>6 DEF InPlace, Joining
  <2> QED BY <2>3, <2>4, <2>6, <2>7 DEF TxOk, GoneIsAlone, Doomed
<1>2. Spec => []DossiersInv /\ [][Next]_vars
  BY DossiersInvariant DEF Spec
<1> QED BY <1>1, <1>2, PTL DEF HeldIsKept

=============================================================================
