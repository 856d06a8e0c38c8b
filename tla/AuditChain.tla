----------------------------- MODULE AuditChain -----------------------------
(***************************************************************************)
(* A hash-chained, append-only stream in PostgreSQL and the transactions   *)
(* that append to it.  audit.py (audit_records, lock 4771) and           *)
(* key_audit_pg.py (key_lifecycle_events, lock 4772) run the same          *)
(* protocol: take a transaction-scoped advisory lock, read the newest      *)
(* hash, insert a row that links to it, and leave commit or rollback to    *)
(* the caller.                                                             *)
(*                                                                         *)
(* One action per SQL statement.  The database runs READ COMMITTED: a      *)
(* statement sees the committed rows plus the rows of its own transaction. *)
(* A row's number comes from a sequence, which a rollback does not turn    *)
(* back, so numbers have gaps.                                             *)
(*                                                                         *)
(* A hash is modelled as what it stands for, the history of contents it    *)
(* was computed over, which makes it free of collisions.                   *)
(***************************************************************************)
EXTENDS Naturals, Sequences, FiniteSets

CONSTANTS
  Writer,        \* sessions that append
  Content,       \* what canonical_content can yield
  NoWriter,      \* the lock's holder when it is free
  MaxSeq,        \* bound: sequence numbers drawn
  MaxAppends     \* bound: appends in one transaction

ASSUME WriterAssumption == NoWriter \notin Writer
ASSUME BoundAssumption  == MaxSeq \in Nat /\ MaxAppends \in Nat

VARIABLES
  rows,       \* committed rows
  nextSeq,    \* the number the sequence hands out next
  lock,       \* holder of the advisory lock
  pc,         \* where each session is in its transaction
  pend,       \* rows each open transaction has inserted
  tail        \* the newest hash each session read

chainVars == <<rows, nextSeq, lock, pc, pend, tail>>
-----------------------------------------------------------------------------
Genesis == <<>>
Hash(prev, c) == Append(prev, c)

\* The hash of the newest row of S, or base when S has none.
LastHash(S, base) ==
  IF S = {} THEN base
            ELSE (CHOOSE r \in S : \A s \in S : s.seq <= r.seq).hash

TailHash(S) == LastHash(S, Genesis)

Before(S, r) == {s \in S : s.seq < r.seq}

\* Every row of S links to the row before it, the first one to base, and its
\* hash is the one its own content gives.
Linked(S, base) ==
  \A r \in S : /\ r.prev = LastHash(Before(S, r), base)
               /\ r.hash = Hash(r.prev, r.content)

VerifyChain(S) == Linked(S, Genesis)

\* What a statement of w sees.
Visible(w) == rows \cup pend[w]

\* Mutant: the hash leaves out the row before.
NewRowUnchained(w, c) ==
  [seq |-> nextSeq, content |-> c, prev |-> tail[w], hash |-> Hash(Genesis, c)]

\* The row an append of c inserts.
NewRow(w, c) ==
  [seq |-> nextSeq, content |-> c, prev |-> tail[w], hash |-> Hash(tail[w], c)]

\* UNIQUE(prev_hash) and UNIQUE(hash) refuse r beside the rows of S.
Clashes(r, S) == \E s \in S : s.prev = r.prev \/ s.hash = r.hash
-----------------------------------------------------------------------------
ChainInit ==
  /\ rows = {}
  /\ nextSeq = 1
  /\ lock = NoWriter
  /\ pc = [w \in Writer |-> "idle"]
  /\ pend = [w \in Writer |-> {}]
  /\ tail = [w \in Writer |-> Genesis]

\* Appends that have been asked for and have not drawn their number yet.
Asked == {w \in Writer : pc[w] \in {"waiting", "locked", "tailed"}}

\* append(session, ...) is called, first or again in the same transaction.
Request(w) ==
  /\ pc[w] \in {"idle", "open"}
  /\ nextSeq + Cardinality(Asked) <= MaxSeq
  /\ Cardinality(pend[w]) < MaxAppends
  /\ pc' = [pc EXCEPT ![w] = "waiting"]
  /\ UNCHANGED <<rows, nextSeq, lock, pend, tail>>

\* Mutant: no advisory lock.
AcquireNoLock(w) ==
  /\ pc[w] = "waiting"
  /\ lock' = w
  /\ pc' = [pc EXCEPT ![w] = "locked"]
  /\ UNCHANGED <<rows, nextSeq, pend, tail>>

\* Mutant: a lock that its own holder waits for as well.
AcquireOnce(w) ==
  /\ pc[w] = "waiting"
  /\ lock = NoWriter
  /\ lock' = w
  /\ pc' = [pc EXCEPT ![w] = "locked"]
  /\ UNCHANGED <<rows, nextSeq, pend, tail>>

\* pg_advisory_xact_lock: waits for another holder, returns at once to its own.
AcquireLock(w) ==
  /\ pc[w] = "waiting"
  /\ lock \in {NoWriter, w}
  /\ lock' = w
  /\ pc' = [pc EXCEPT ![w] = "locked"]
  /\ UNCHANGED <<rows, nextSeq, pend, tail>>

ReadTail(w) ==
  /\ pc[w] = "locked"
  /\ tail' = [tail EXCEPT ![w] = TailHash(Visible(w))]
  /\ pc' = [pc EXCEPT ![w] = "tailed"]
  /\ UNCHANGED <<rows, nextSeq, lock, pend>>

\* Mutant: the lock is given back as soon as the row is in, and the columns
\* have no UNIQUE constraint.
InsertThenUnlock(w, c) ==
  /\ pc[w] = "tailed"
  /\ nextSeq' = nextSeq + 1
  /\ pend' = [pend EXCEPT ![w] = @ \cup {NewRow(w, c)}]
  /\ pc' = [pc EXCEPT ![w] = "open"]
  /\ lock' = NoWriter
  /\ UNCHANGED <<rows, tail>>

\* The INSERT.  A row that clashes with another transaction's uncommitted row
\* waits for that transaction; one that clashes with a row it can see fails,
\* its number already drawn.
Insert(w, c) ==
  LET row     == NewRow(w, c)
      refused == Clashes(row, Visible(w))
  IN /\ pc[w] = "tailed"
     /\ \A v \in Writer \ {w} : ~Clashes(row, pend[v])
     /\ nextSeq' = nextSeq + 1
     /\ pend' = IF refused THEN pend ELSE [pend EXCEPT ![w] = @ \cup {row}]
     /\ pc' = [pc EXCEPT ![w] = IF refused THEN "failed" ELSE "open"]
     /\ UNCHANGED <<rows, lock, tail>>

\* The end of a transaction, which frees the advisory lock.
EndTransaction(w) ==
  /\ pc' = [pc EXCEPT ![w] = "idle"]
  /\ pend' = [pend EXCEPT ![w] = {}]
  /\ lock' = IF lock = w THEN NoWriter ELSE lock
  /\ UNCHANGED <<nextSeq, tail>>

Commit(w) == /\ pc[w] = "open"
             /\ rows' = rows \cup pend[w]
             /\ EndTransaction(w)

\* The caller rolled back, raised, or lost its connection, at any point.
Rollback(w) == /\ pc[w] # "idle"
               /\ rows' = rows
               /\ EndTransaction(w)

WriterStep(w) == \/ Request(w)
                 \/ AcquireLock(w)
                 \/ ReadTail(w)
                 \/ \E c \in Content : Insert(w, c)
                 \/ Commit(w)
                 \/ Rollback(w)

ChainNext == \E w \in Writer : WriterStep(w)

ChainSpec == ChainInit /\ [][ChainNext]_chainVars

\* Sessions are context managers, so a transaction that has the lock runs on
\* and ends; PostgreSQL hands a lock out in the order it was asked for.
Fairness ==
  \A w \in Writer :
    /\ SF_chainVars(AcquireLock(w))
    /\ WF_chainVars(ReadTail(w) \/ \E c \in Content : Insert(w, c))
    /\ WF_chainVars(pc[w] # "waiting" /\ (Commit(w) \/ Rollback(w)))

FairChainSpec == ChainSpec /\ Fairness
-----------------------------------------------------------------------------
Hashes == Seq(Content)
Row == [seq : Nat \ {0}, content : Content, prev : Hashes, hash : Hashes]

\* The values the variables take.
ChainTypeOK ==
  /\ rows \subseteq Row
  /\ nextSeq \in Nat \ {0}
  /\ lock \in Writer \cup {NoWriter}
  /\ pc \in [Writer -> {"idle", "waiting", "locked", "tailed", "open", "failed"}]
  /\ pend \in [Writer -> SUBSET Row]
  /\ tail \in [Writer -> Hashes]

\* audit.verify_chain never fails on a stream only this code wrote to: not for
\* a reader of the committed rows, and not inside a transaction that has
\* appended and not committed yet.
ChainVerifies == /\ VerifyChain(rows)
                 /\ \A w \in Writer : VerifyChain(Visible(w))

\* The advisory lock alone keeps the chain from forking: the UNIQUE
\* constraints, the backstop of audit.py, never refuse an append.
BackstopNeverFires == \A w \in Writer : pc[w] # "failed"

\* Rows become visible in the order of their numbers, gaps or not: once a
\* reader has seen number n, no row numbered n or below appears later.  This
\* is what "records after seq n" (export_jsonl) relies on to miss nothing.
NumbersAppearInOrder ==
  [][\A r \in rows' \ rows, s \in rows : s.seq < r.seq]_chainVars

\* The parts of the invariant that makes all this inductive.

\* Whoever is past the lock, or has rows of its own, holds the lock.
HolderOnly ==
  \A w \in Writer :
    /\ pc[w] \in {"locked", "tailed", "open", "failed"} => lock = w
    /\ pend[w] # {} => lock = w

\* A chain as a reader of S sees it, numbered below next: numbers are not
\* used twice, there is a newest row, hashes get longer, and it verifies.
Sound(S, next) ==
  /\ \A r \in S : r.seq < next
  /\ \A r, s \in S : r.seq = s.seq => r = s
  /\ S = {} \/ \E r \in S : \A s \in S : s.seq <= r.seq
  /\ \A r, s \in S : r.seq < s.seq => Len(r.hash) <= Len(s.prev)
  /\ VerifyChain(S)

SoundForAll == /\ Sound(rows, nextSeq)
               /\ \A w \in Writer : Sound(Visible(w), nextSeq)

\* Uncommitted rows come after all committed ones and extend their history.
PendingExtends ==
  \A w \in Writer : \A p \in pend[w] :
    /\ \A r \in rows : r.seq < p.seq
    /\ Len(TailHash(rows)) < Len(p.hash)
    /\ \A i \in 1 .. Len(TailHash(rows)) : TailHash(rows)[i] = p.hash[i]

\* A tail that was read is still the newest hash when it is used.
TailIsCurrent ==
  \A w \in Writer : pc[w] = "tailed" => tail[w] = TailHash(Visible(w))

\* No step of a session can lead out of these states: what the session read
\* under the lock stays true until it ends its transaction.
ChainInv == /\ ChainTypeOK
            /\ HolderOnly
            /\ SoundForAll
            /\ PendingExtends
            /\ TailIsCurrent
            /\ BackstopNeverFires

\* The committed rows, read through the newest hash, are an append-only log.
Log == INSTANCE AppendOnlyLog WITH log <- TailHash(rows)
IsAppendOnlyLog == Log!Spec

\* An append that waits for the lock is served or given up, whatever the
\* transactions before it do.
AppendsAreServed ==
  \A w \in Writer : pc[w] = "waiting" ~> pc[w] # "waiting"
=============================================================================
