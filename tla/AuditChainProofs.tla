-------------------------- MODULE AuditChainProofs --------------------------
(***************************************************************************)
(* What the append protocol guarantees for every number of sessions, every *)
(* set of contents and every bound.  The argument is one inductive         *)
(* invariant, AuditChain!ChainInv: the session that holds the lock is the  *)
(* only one with uncommitted rows, and the newest hash it read is still    *)
(* the newest when it inserts.                                             *)
(***************************************************************************)
EXTENDS AuditChain, TLAPS

(***************************************************************************)
(* Lemmas about chains of rows.                                            *)
(***************************************************************************)

\* _tail_hash of a chain that has rows is the hash of its newest row.
LEMMA NewestHash ==
  ASSUME NEW S, S # {}, NEW base,
         \E r \in S : \A s \in S : s.seq <= r.seq
  PROVE  \E m \in S : /\ \A s \in S : s.seq <= m.seq
                      /\ LastHash(S, base) = m.hash
BY DEF LastHash

\* _tail_hash of no rows is the genesis hash.
LEMMA NoHash == \A base : LastHash({}, base) = base
BY DEF LastHash

\* The newest hash of a sound chain is a hash, and no row's hash is longer:
\* a row that links to the newest one has a hash of its own.
LEMMA TailIsLongest ==
  ASSUME NEW S \in SUBSET Row, NEW next \in Nat, Sound(S, next)
  PROVE  /\ TailHash(S) \in Hashes
         /\ \A r \in S : Len(r.hash) <= Len(TailHash(S))
         /\ \A r \in S : Len(r.hash) = Len(r.prev) + 1
<1>1. ASSUME NEW r \in S PROVE Len(r.hash) = Len(r.prev) + 1
  <2>1. r.hash = Append(r.prev, r.content)
    BY DEF Sound, VerifyChain, Linked, Hash
  <2>2. r.prev \in Seq(Content) /\ r.content \in Content
    BY DEF Row, Hashes
  <2> QED BY <2>1, <2>2
<1>2. CASE S = {}
  <2>1. TailHash(S) = <<>>
    BY <1>2, NoHash DEF TailHash, Genesis
  <2>2. TailHash(S) \in Hashes
    BY <2>1 DEF Hashes
  <2> QED BY <1>2, <2>2
<1>3. CASE S # {}
  <2>1. PICK m \in S : (\A s \in S : s.seq <= m.seq) /\ TailHash(S) = m.hash
    BY <1>3, NewestHash DEF Sound, TailHash
  <2>2. TailHash(S) \in Hashes
    BY <2>1 DEF Row
  <2>3. ASSUME NEW r \in S PROVE Len(r.hash) <= Len(m.hash)
    <3>1. CASE r.seq = m.seq
      BY <3>1, <1>1 DEF Sound, Row, Hashes
    <3>2. CASE r.seq # m.seq
      <4>1. r.seq < m.seq
        BY <2>1, <3>2 DEF Row
      <4>2. Len(r.hash) <= Len(m.prev)
        BY <4>1 DEF Sound
      <4>3. Len(r.hash) \in Nat /\ Len(m.prev) \in Nat
        BY DEF Row, Hashes
      <4> QED BY <4>2, <4>3, <1>1
    <3> QED BY <3>1, <3>2
  <2> QED BY <1>1, <2>1, <2>2, <2>3
<1> QED BY <1>2, <1>3

\* A row numbered above all of a chain and linked to its newest hash extends
\* it to a chain again.
LEMMA LinkOne ==
  ASSUME NEW S \in SUBSET Row, NEW n \in Row, VerifyChain(S),
         \A r \in S : r.seq < n.seq,
         n.prev = TailHash(S), n.hash = Hash(n.prev, n.content)
  PROVE  VerifyChain(S \cup {n})
<1>1. ASSUME NEW r \in S PROVE Before(S \cup {n}, r) = Before(S, r)
  <2>1. ~(n.seq < r.seq)
    BY DEF Row
  <2> QED BY <2>1 DEF Before
<1>2. Before(S \cup {n}, n) = S
  BY DEF Before, Row
<1> QED BY <1>1, <1>2 DEF VerifyChain, Linked, TailHash

(***************************************************************************)
(* The inductive invariant.                                                *)
(***************************************************************************)

\* An empty stream satisfies the invariant.
LEMMA InitInv == ChainInit => ChainInv
<1> SUFFICES ASSUME ChainInit PROVE ChainInv
  OBVIOUS
<1> USE DEF ChainInit
<1>1. ChainTypeOK
  BY DEF ChainTypeOK, Hashes, Genesis
<1>2. HolderOnly
  BY DEF HolderOnly
<1>3. \A w \in Writer : Visible(w) = {}
  BY DEF Visible
<1>4. Sound({}, 1)
  BY DEF Sound, VerifyChain, Linked
<1>5. SoundForAll
  BY <1>3, <1>4 DEF SoundForAll
<1>6. PendingExtends /\ TailIsCurrent /\ BackstopNeverFires
  BY DEF PendingExtends, TailIsCurrent, BackstopNeverFires
<1> QED BY <1>1, <1>2, <1>5, <1>6 DEF ChainInv

\* A step that leaves the rows and the numbering alone keeps every chain sound.
LEMMA RowsUntouched ==
  ASSUME SoundForAll, PendingExtends,
         UNCHANGED <<rows, nextSeq, pend>>
  PROVE  SoundForAll' /\ PendingExtends'
BY DEF SoundForAll, PendingExtends, Sound, Visible

\* Asking for an append only moves the session.
LEMMA RequestInv ==
  ASSUME ChainInv, NEW w \in Writer, Request(w)
  PROVE  ChainInv'
<1> USE DEF ChainInv, Request
<1>1. ChainTypeOK'
  BY DEF ChainTypeOK
<1>2. HolderOnly'
  BY DEF HolderOnly, ChainTypeOK
<1>3. SoundForAll' /\ PendingExtends'
  BY RowsUntouched
<1>4. TailIsCurrent'
  BY DEF TailIsCurrent, Visible, ChainTypeOK
<1>5. BackstopNeverFires'
  BY DEF BackstopNeverFires, ChainTypeOK
<1> QED BY <1>1, <1>2, <1>3, <1>4, <1>5

\* Taking a free lock: nobody else is past it, nobody else has rows.
LEMMA AcquireInv ==
  ASSUME ChainInv, NEW w \in Writer, AcquireLock(w)
  PROVE  ChainInv'
<1> USE DEF ChainInv, AcquireLock
<1>1. ChainTypeOK'
  BY DEF ChainTypeOK
<1>2. HolderOnly'
  BY WriterAssumption DEF HolderOnly, ChainTypeOK
<1>3. SoundForAll' /\ PendingExtends'
  BY RowsUntouched
<1>4. TailIsCurrent'
  BY DEF TailIsCurrent, Visible, ChainTypeOK
<1>5. BackstopNeverFires'
  BY DEF BackstopNeverFires, ChainTypeOK
<1> QED BY <1>1, <1>2, <1>3, <1>4, <1>5

\* Reading the newest hash.
LEMMA ReadTailInv ==
  ASSUME ChainInv, NEW w \in Writer, ReadTail(w)
  PROVE  ChainInv'
<1> USE DEF ChainInv, ReadTail
<1>0. Visible(w) \in SUBSET Row /\ nextSeq \in Nat
  BY DEF ChainTypeOK, Visible
<1>1. TailHash(Visible(w)) \in Hashes
  BY <1>0, TailIsLongest DEF SoundForAll
<1>2. ChainTypeOK'
  BY <1>1 DEF ChainTypeOK
<1>3. HolderOnly'
  BY DEF HolderOnly, ChainTypeOK
<1>4. SoundForAll' /\ PendingExtends'
  BY RowsUntouched
<1>5. TailIsCurrent'
  BY DEF TailIsCurrent, Visible, ChainTypeOK
<1>6. BackstopNeverFires'
  BY DEF BackstopNeverFires, ChainTypeOK
<1> QED BY <1>2, <1>3, <1>4, <1>5, <1>6

\* The heart of it: the row the holder inserts extends the chain it sees.
LEMMA InsertedRowExtends ==
  ASSUME ChainInv, NEW w \in Writer, NEW c \in Content, pc[w] = "tailed"
  PROVE  /\ NewRow(w, c) \in Row
         /\ \A r \in Visible(w) : r.seq < NewRow(w, c).seq
         /\ NewRow(w, c).prev = TailHash(Visible(w))
         /\ NewRow(w, c).hash = Hash(NewRow(w, c).prev, c)
         /\ \A r \in Visible(w) : Len(r.hash) <= Len(NewRow(w, c).prev)
         /\ ~Clashes(NewRow(w, c), Visible(w))
<1> DEFINE S == Visible(w)
           n == NewRow(w, c)
<1>1. S \in SUBSET Row /\ Sound(S, nextSeq) /\ nextSeq \in Nat \ {0} /\ tail[w] \in Hashes
  BY DEF ChainInv, ChainTypeOK, SoundForAll, Visible
<1>2. n \in Row
  BY <1>1 DEF NewRow, Row, Hashes, Hash
<1>3. \A r \in S : r.seq < n.seq
  BY <1>1 DEF Sound, NewRow
<1>4. n.prev = TailHash(S) /\ n.hash = Hash(n.prev, c)
  BY DEF ChainInv, TailIsCurrent, NewRow
<1>5. /\ \A r \in S : Len(r.hash) <= Len(n.prev)
      /\ \A r \in S : Len(r.hash) = Len(r.prev) + 1
  BY <1>1, <1>4, TailIsLongest
<1>6. Len(n.hash) = Len(n.prev) + 1 /\ Len(n.prev) \in Nat
  BY <1>1 DEF NewRow, Hash, Hashes
<1>7. ~Clashes(n, S)
  <2>1. ASSUME NEW s \in S PROVE s.prev # n.prev /\ s.hash # n.hash
    <3>1. Len(s.hash) \in Nat /\ Len(s.prev) \in Nat
      BY <1>1 DEF Row, Hashes
    <3> QED BY <3>1, <1>5, <1>6
  <2> QED BY <2>1 DEF Clashes
<1> QED BY <1>2, <1>3, <1>4, <1>5, <1>7

\* The INSERT by the holder of the lock.
LEMMA InsertInv ==
  ASSUME ChainInv, NEW w \in Writer, NEW c \in Content, Insert(w, c)
  PROVE  ChainInv'
<1> DEFINE S == Visible(w)
           n == NewRow(w, c)
<1>0. ChainTypeOK /\ pc[w] = "tailed" /\ lock = w /\ S \in SUBSET Row
  BY DEF ChainInv, Insert, HolderOnly, ChainTypeOK, Visible
<1>1. /\ n \in Row
      /\ \A r \in S : r.seq < n.seq
      /\ n.prev = TailHash(S) /\ n.hash = Hash(n.prev, n.content)
      /\ \A r \in S : Len(r.hash) <= Len(n.prev)
      /\ ~Clashes(n, S) /\ n.seq = nextSeq
  BY <1>0, InsertedRowExtends DEF NewRow
<1>2. /\ nextSeq' = nextSeq + 1
      /\ pend' = [pend EXCEPT ![w] = @ \cup {n}]
      /\ pc' = [pc EXCEPT ![w] = "open"]
      /\ rows' = rows /\ lock' = lock /\ tail' = tail
  BY <1>1 DEF Insert
<1>3. \A v \in Writer \ {w} : pend[v] = {} /\ pc[v] # "tailed"
  BY <1>0 DEF ChainInv, HolderOnly
<1>4. Visible(w)' = S \cup {n} /\ \A v \in Writer \ {w} : Visible(v)' = rows
  BY <1>0, <1>2, <1>3 DEF Visible, ChainTypeOK
<1>5. ChainTypeOK'
  BY <1>0, <1>1, <1>2 DEF ChainTypeOK
<1>6. HolderOnly'
  BY <1>0, <1>2 DEF ChainInv, HolderOnly, ChainTypeOK
<1>7. SoundForAll'
  <2>1. Sound(rows, nextSeq)'
    BY <1>2, <1>0 DEF ChainInv, SoundForAll, Sound, ChainTypeOK, Row
  <2>2. Sound(S \cup {n}, nextSeq')
    <3>1. Sound(S, nextSeq)
      BY DEF ChainInv, SoundForAll
    <3>2. \A r \in S \cup {n} : r.seq < nextSeq'
      BY <1>0, <1>1, <1>2, <3>1 DEF Sound, Row, ChainTypeOK
    <3>3. \A r, s \in S \cup {n} : r.seq = s.seq => r = s
      BY <1>0, <1>1, <3>1 DEF Sound, Row
    <3>4. \A s \in S \cup {n} : s.seq <= n.seq
      BY <1>0, <1>1 DEF Row
    <3>5. \A r, s \in S \cup {n} : r.seq < s.seq => Len(r.hash) <= Len(s.prev)
      <4>1. \A r \in S \cup {n} : ~(n.seq < r.seq)
        BY <1>0, <1>1 DEF Row
      <4> QED BY <4>1, <1>1, <3>1 DEF Sound
    <3>6. VerifyChain(S \cup {n})
      BY <1>0, <1>1, <3>1, LinkOne DEF Sound
    <3> QED BY <3>2, <3>3, <3>4, <3>5, <3>6 DEF Sound
  <2>3. \A v \in Writer : Sound(Visible(v)', nextSeq')
    BY <2>1, <2>2, <1>2, <1>4
  <2> QED BY <2>1, <2>3 DEF SoundForAll
<1>8. PendingExtends'
  <2>1. ASSUME NEW p \in pend[w] \cup {n}
        PROVE  /\ \A r \in rows : r.seq < p.seq
               /\ Len(TailHash(rows)) < Len(p.hash)
               /\ \A i \in 1 .. Len(TailHash(rows)) : TailHash(rows)[i] = p.hash[i]
    <3>1. CASE p \in pend[w]
      BY <3>1 DEF ChainInv, PendingExtends
    <3>2. CASE p = n /\ pend[w] = {}
      <4>1. S = rows /\ TailHash(rows) \in Hashes
        BY <1>0, <3>2, TailIsLongest DEF ChainInv, SoundForAll, Visible, ChainTypeOK
      <4>2. n.hash = Append(TailHash(rows), n.content) /\ n.content \in Content
        BY <4>1, <1>1 DEF Hash, Row
      <4>3. /\ Len(n.hash) = Len(TailHash(rows)) + 1
            /\ \A i \in 1 .. Len(TailHash(rows)) : n.hash[i] = TailHash(rows)[i]
        BY <4>1, <4>2 DEF Hashes
      <4>4. Len(TailHash(rows)) \in Nat
        BY <4>1 DEF Hashes
      <4> QED BY <4>1, <4>3, <4>4, <1>1, <3>2
    <3>3. CASE p = n /\ pend[w] # {}
      <4>1. PICK m \in S : (\A s \in S : s.seq <= m.seq) /\ TailHash(S) = m.hash
        <5>1. S # {} /\ \E r \in S : \A s \in S : s.seq <= r.seq
          BY <3>3 DEF Visible, ChainInv, SoundForAll, Sound
        <5> QED BY <5>1, NewestHash DEF TailHash
      <4>2. m \in pend[w]
        <5>1. PICK q \in pend[w] : TRUE
          BY <3>3
        <5>2. q \in S /\ \A r \in rows : r.seq < q.seq
          BY <5>1 DEF ChainInv, PendingExtends, Visible
        <5>3. m \notin rows
          BY <5>2, <4>1, <1>0 DEF Row
        <5> QED BY <5>3 DEF Visible
      <4>3. /\ Len(TailHash(rows)) < Len(m.hash)
            /\ \A i \in 1 .. Len(TailHash(rows)) : TailHash(rows)[i] = m.hash[i]
        BY <4>2 DEF ChainInv, PendingExtends
      <4>4. n.hash = Append(m.hash, n.content) /\ n.content \in Content
        BY <4>1, <1>1 DEF Hash, Row
      <4>5. m.hash \in Seq(Content) /\ TailHash(rows) \in Seq(Content)
        BY <1>0, TailIsLongest DEF Row, Hashes, ChainInv, SoundForAll, ChainTypeOK
      <4>6. /\ Len(n.hash) = Len(m.hash) + 1
            /\ \A i \in 1 .. Len(m.hash) : n.hash[i] = m.hash[i]
        BY <4>4, <4>5
      <4>7. Len(m.hash) \in Nat /\ Len(TailHash(rows)) \in Nat
        BY <4>5
      <4>8. \A r \in rows : r.seq < n.seq
        BY <1>1 DEF Visible
      <4> QED BY <4>3, <4>6, <4>7, <4>8, <3>3
    <3> QED BY <3>1, <3>2, <3>3
  <2>2. pend'[w] = pend[w] \cup {n} /\ \A v \in Writer \ {w} : pend'[v] = {}
    BY <1>0, <1>2, <1>3 DEF ChainTypeOK
  <2> QED BY <1>2, <2>1, <2>2 DEF PendingExtends
<1>9. TailIsCurrent' /\ BackstopNeverFires'
  BY <1>0, <1>2, <1>3 DEF TailIsCurrent, BackstopNeverFires, ChainInv, ChainTypeOK
<1> QED BY <1>5, <1>6, <1>7, <1>8, <1>9 DEF ChainInv

\* What a transaction publishes when it commits: its rows, and, if it has any,
\* a newer newest hash that extends the old one.
LEMMA CommitPublishes ==
  ASSUME ChainInv, NEW w \in Writer, Commit(w)
  PROVE  /\ rows' = Visible(w)
         /\ \A v \in Writer : Visible(v)' = Visible(w)
         /\ pend' = [v \in Writer |-> {}]
         /\ pc' = [pc EXCEPT ![w] = "idle"]
         /\ lock = w /\ lock' = NoWriter
         /\ nextSeq' = nextSeq /\ tail' = tail
<1>1. lock = w
  BY DEF ChainInv, HolderOnly, Commit
<1>2. \A v \in Writer \ {w} : pend[v] = {}
  BY <1>1 DEF ChainInv, HolderOnly
<1>3. pend' = [v \in Writer |-> {}]
  BY <1>2 DEF Commit, EndTransaction, ChainInv, ChainTypeOK
<1>4. rows' = Visible(w)
  BY DEF Commit, Visible
<1> QED BY <1>1, <1>3, <1>4 DEF Commit, EndTransaction, Visible

\* Commit keeps the invariant.
LEMMA CommitInv ==
  ASSUME ChainInv, NEW w \in Writer, Commit(w)
  PROVE  ChainInv'
<1>1. /\ rows' = Visible(w)
      /\ \A v \in Writer : Visible(v)' = Visible(w)
      /\ pend' = [v \in Writer |-> {}]
      /\ pc' = [pc EXCEPT ![w] = "idle"]
      /\ lock = w /\ lock' = NoWriter
      /\ nextSeq' = nextSeq /\ tail' = tail
  BY CommitPublishes
<1>2. ChainTypeOK'
  BY <1>1 DEF ChainInv, ChainTypeOK, Visible
<1>3. \A v \in Writer : pc'[v] \notin {"locked", "tailed", "open", "failed"}
  BY <1>1 DEF ChainInv, HolderOnly, ChainTypeOK
<1>4. HolderOnly' /\ TailIsCurrent' /\ BackstopNeverFires'
  BY <1>1, <1>3 DEF HolderOnly, TailIsCurrent, BackstopNeverFires
<1>5. SoundForAll'
  BY <1>1 DEF ChainInv, SoundForAll
<1>6. PendingExtends'
  BY <1>1 DEF PendingExtends
<1> QED BY <1>2, <1>4, <1>5, <1>6 DEF ChainInv

\* So does rolling back, from wherever the transaction has come to.
LEMMA RollbackInv ==
  ASSUME ChainInv, NEW w \in Writer, Rollback(w)
  PROVE  ChainInv'
<1>1. /\ rows' = rows /\ nextSeq' = nextSeq /\ tail' = tail
      /\ pend' = [pend EXCEPT ![w] = {}]
      /\ pc' = [pc EXCEPT ![w] = "idle"]
      /\ lock' = IF lock = w THEN NoWriter ELSE lock
  BY DEF Rollback, EndTransaction
<1>2. /\ pend'[w] = {} /\ \A v \in Writer \ {w} : pend'[v] = pend[v]
      /\ pc'[w] = "idle" /\ \A v \in Writer \ {w} : pc'[v] = pc[v]
  BY <1>1 DEF ChainInv, ChainTypeOK
<1>3. Visible(w)' = rows /\ \A v \in Writer \ {w} : Visible(v)' = Visible(v)
  BY <1>1, <1>2 DEF Visible
<1>4. ChainTypeOK'
  BY <1>1 DEF ChainInv, ChainTypeOK
<1>5. HolderOnly' /\ BackstopNeverFires'
  BY <1>1, <1>2 DEF ChainInv, HolderOnly, BackstopNeverFires
<1>6. SoundForAll'
  BY <1>1, <1>3 DEF ChainInv, SoundForAll
<1>7. PendingExtends'
  BY <1>1, <1>2 DEF ChainInv, PendingExtends
<1>8. TailIsCurrent'
  BY <1>1, <1>2, <1>3 DEF ChainInv, TailIsCurrent
<1> QED BY <1>4, <1>5, <1>6, <1>7, <1>8 DEF ChainInv

\* Every step of the protocol keeps the invariant.
LEMMA StepInv == ChainInv /\ [ChainNext]_chainVars => ChainInv'
<1> SUFFICES ASSUME ChainInv, [ChainNext]_chainVars PROVE ChainInv'
  OBVIOUS
<1>1. CASE UNCHANGED chainVars
  BY <1>1 DEF chainVars, ChainInv, ChainTypeOK, HolderOnly, SoundForAll,
              PendingExtends, TailIsCurrent, BackstopNeverFires, Visible
<1>2. ASSUME NEW w \in Writer, WriterStep(w) PROVE ChainInv'
  <2>1. CASE Request(w)
    BY <2>1, RequestInv
  <2>2. CASE AcquireLock(w)
    BY <2>2, AcquireInv
  <2>3. CASE ReadTail(w)
    BY <2>3, ReadTailInv
  <2>4. ASSUME NEW c \in Content, Insert(w, c) PROVE ChainInv'
    BY <2>4, InsertInv
  <2>5. CASE Commit(w)
    BY <2>5, CommitInv
  <2>6. CASE Rollback(w)
    BY <2>6, RollbackInv
  <2> QED BY <1>2, <2>1, <2>2, <2>3, <2>4, <2>5, <2>6 DEF WriterStep
<1> QED BY <1>1, <1>2 DEF ChainNext

\* A step removes no row, and a row it makes visible is newer than all before.
LEMMA NewRowsAreNewest ==
  ASSUME ChainInv, [ChainNext]_chainVars
  PROVE  /\ rows \subseteq rows'
         /\ \A r \in rows' \ rows, s \in rows : s.seq < r.seq
<1>1. CASE UNCHANGED chainVars
  BY <1>1 DEF chainVars
<1>2. ASSUME NEW w \in Writer, WriterStep(w)
      PROVE  rows \subseteq rows' /\ rows' \subseteq Visible(w)
  BY <1>2 DEF WriterStep, Request, AcquireLock, ReadTail, Insert, Commit,
              Rollback, Visible
<1> QED BY <1>1, <1>2 DEF ChainNext, ChainInv, PendingExtends, Visible

(***************************************************************************)
(* The theorems.                                                           *)
(***************************************************************************)

\* The invariant holds in every reachable state of the append protocol.
THEOREM ChainInvariant == ChainSpec => []ChainInv
<1> QED BY InitInv, StepInv, PTL DEF ChainSpec

\* The variables keep their types.
THEOREM TypeCorrect == ChainSpec => []ChainTypeOK
<1>1. ChainInv => ChainTypeOK
  BY DEF ChainInv
<1> QED BY <1>1, ChainInvariant, PTL

\* audit.verify_chain succeeds for every reader at every moment.
THEOREM AlwaysVerifies == ChainSpec => []ChainVerifies
<1>1. ChainInv => ChainVerifies
  BY DEF ChainInv, SoundForAll, Sound, ChainVerifies
<1> QED BY <1>1, ChainInvariant, PTL

\* The lock alone prevents forks: no append meets a UNIQUE constraint.
THEOREM NeverForks == ChainSpec => []BackstopNeverFires
<1>1. ChainInv => BackstopNeverFires
  BY DEF ChainInv
<1> QED BY <1>1, ChainInvariant, PTL

\* Rows appear in the order of their numbers, so "everything after number n"
\* is complete as soon as number n has been seen.
THEOREM InNumberOrder == ChainSpec => NumbersAppearInOrder
<1>1. ChainInv /\ [ChainNext]_chainVars
        => [\A r \in rows' \ rows, s \in rows : s.seq < r.seq]_chainVars
  BY NewRowsAreNewest
<1> QED BY <1>1, ChainInvariant, PTL DEF ChainSpec, NumbersAppearInOrder

\* The protocol implements the append-only log: every step leaves the log as
\* it is, or, when a transaction commits, adds to its end.
THEOREM ImplementsLog == ChainSpec => IsAppendOnlyLog
<1>1. ChainInit => Log!Init
  BY NoHash DEF ChainInit, Log!Init, TailHash, Genesis
<1>2. ChainInv /\ [ChainNext]_chainVars => [Log!Extend]_(TailHash(rows))
  <2> SUFFICES ASSUME ChainInv, [ChainNext]_chainVars, TailHash(rows') # TailHash(rows)
               PROVE  Log!Extend
    OBVIOUS
  <2>1. PICK w \in Writer : Commit(w)
    BY DEF chainVars, ChainNext, WriterStep, Request, AcquireLock, ReadTail,
           Insert, Rollback
  <2>2. rows' = Visible(w) /\ Visible(w) # rows /\ Visible(w) \in SUBSET Row
    BY <2>1, CommitPublishes DEF ChainInv, ChainTypeOK, Visible
  <2>3. PICK m \in Visible(w) : /\ \A s \in Visible(w) : s.seq <= m.seq
                               /\ TailHash(Visible(w)) = m.hash
    <3>1. Visible(w) # {} /\ \E r \in Visible(w) : \A s \in Visible(w) : s.seq <= r.seq
      BY <2>2 DEF Visible, ChainInv, SoundForAll, Sound
    <3> QED BY <3>1, NewestHash DEF TailHash
  <2>4. m \in pend[w]
    <3>1. PICK q \in pend[w] : q \notin rows
      BY <2>2 DEF Visible
    <3>2. q \in Visible(w) /\ \A r \in rows : r.seq < q.seq
      BY <3>1 DEF ChainInv, PendingExtends, Visible
    <3>3. m \notin rows
      BY <2>2, <2>3, <3>2 DEF Row, Visible
    <3> QED BY <3>3 DEF Visible
  <2>5. /\ Len(TailHash(rows)) < Len(m.hash)
        /\ \A i \in 1 .. Len(TailHash(rows)) : TailHash(rows)[i] = m.hash[i]
    BY <2>4 DEF ChainInv, PendingExtends
  <2>6. m.hash \in Seq(Content) /\ TailHash(rows) \in Seq(Content)
    BY <2>2, TailIsLongest DEF Row, Hashes, ChainInv, SoundForAll, ChainTypeOK
  <2>7. Len(TailHash(rows)) <= Len(m.hash)
    BY <2>5, <2>6
  <2>8. TailHash(rows') = m.hash
    BY <2>2, <2>3
  <2> QED BY <2>5, <2>6, <2>7, <2>8 DEF Log!Extend, Log!Begins
<1> QED BY <1>1, <1>2, ChainInvariant, PTL DEF ChainSpec, IsAppendOnlyLog, Log!Spec
=============================================================================
