------------------------ MODULE KeyAuditExportProofs ------------------------
(***************************************************************************)
(* The export of the key-lifecycle stream, for any number of sessions and  *)
(* however its steps interleave with theirs, fail or stop.  It reports     *)
(* what it serialised and does not read the table again, so that what it   *)
(* relies on is that no row appears inside a range that was read           *)
(* (AuditChainProofs), and that a range of a chain is a chain that begins  *)
(* at the row before it.                                                   *)
(***************************************************************************)
EXTENDS KeyAuditExport, AuditChainProofs, WellFoundedInduction

Object == [first : Nat, last : Nat, lines : SUBSET Row]

Typed ==
  /\ kpc \in {"idle", "verified", "sliced", "put"}
  /\ after \in Nat
  /\ slice \subseteq rows
  /\ worm \subseteq Object
  /\ exported \subseteq Row

\* What was serialised is all of the table after the last export and up to one
\* of its rows.
SliceIsRange ==
  kpc \in {"sliced", "put"} =>
    /\ slice # {}
    /\ slice = {r \in rows : after < r.seq /\ r.seq <= LastSeq(slice)}

\* What is checked back is stored.
SliceIsStored == kpc = "put" => \E o \in worm : o.lines = slice

\* A number the job works with is that of a row.
NumbersAreSeen ==
  /\ after # 0 => \E r \in rows : r.seq = after
  /\ \A o \in worm : \E r \in rows : r.seq = o.last

\* What was reported is the table up to the last number reported.
ReportIsWhole == exported = {r \in rows : r.seq <= after}

KeyExportInv ==
  /\ ChainInv
  /\ Typed
  /\ SliceIsRange /\ SliceIsStored /\ NumbersAreSeen /\ ReportIsWhole
  /\ ObjectMatchesKey /\ NothingSkipped

-----------------------------------------------------------------------------
(* Numbers of rows. *)

\* A set of numbers has a least one, for a relation that is well-founded.
LEMMA LeastIn ==
  ASSUME NEW R, IsWellFoundedOn(R, Nat), \A x, y \in Nat : y < x => <<y, x>> \in R,
         NEW T, T \subseteq Nat, T # {}
  PROVE  \E x \in T : \A y \in T : x <= y
<1>1. PICK x \in T : \A y \in T : ~ (<<y, x>> \in R)
  BY WFMin
<1>2. ASSUME NEW y \in T PROVE x <= y
  <2>1. ~(y < x)
    BY <1>1
  <2> QED BY <2>1
<1> QED BY <1>2

LEMMA Least ==
  ASSUME NEW T, T \subseteq Nat, T # {}
  PROVE  \E x \in T : \A y \in T : x <= y
<1>1. \A x, y \in Nat : y < x => <<y, x>> \in OpToRel(<, Nat)
  BY DEF OpToRel
<1> QED BY <1>1, NatLessThanWellFounded, LeastIn

\* Bounded, it has a greatest one too.
LEMMA Greatest ==
  ASSUME NEW T, T \subseteq Nat, T # {}, NEW n \in Nat, \A y \in T : y <= n
  PROVE  \E x \in T : \A y \in T : y <= x
<1> DEFINE U == {n - y : y \in T}
<1>1. U \subseteq Nat
  OBVIOUS
<1>2. U # {}
  OBVIOUS
<1> HIDE DEF U
<1>3. PICK u \in U : \A v \in U : u <= v
  BY <1>1, <1>2, Least
<1>4. PICK x \in T : u = n - x
  BY DEF U
<1>5. ASSUME NEW y \in T PROVE y <= x
  <2>1. n - y \in U
    BY DEF U
  <2> QED BY <1>3, <1>4, <2>1
<1> QED BY <1>5

\* What serialised rows have as their first and last numbers.
LEMMA Ends ==
  ASSUME NEW S, S \subseteq Row, S # {}, NEW n \in Nat, \A r \in S : r.seq <= n
  PROVE  /\ FirstSeq(S) \in Nat /\ LastSeq(S) \in Nat
         /\ \A r \in S : FirstSeq(S) <= r.seq /\ r.seq <= LastSeq(S)
         /\ \E r \in S : r.seq = FirstSeq(S)
         /\ \E r \in S : r.seq = LastSeq(S)
<1> DEFINE T == {r.seq : r \in S}
<1>1. T \subseteq Nat
  BY DEF Row
<1>2. T # {} /\ \A y \in T : y <= n
  OBVIOUS
<1>3. \E x \in T : \A y \in T : x <= y
  <2> HIDE DEF T
  <2> QED BY <1>1, <1>2, Least
<1>4. \E x \in T : \A y \in T : y <= x
  <2> HIDE DEF T
  <2> QED BY <1>1, <1>2, Greatest
<1>5. \E r \in S : \A s \in S : r.seq <= s.seq
  BY <1>3
<1>6. \E r \in S : \A s \in S : s.seq <= r.seq
  BY <1>4
<1>7. /\ \A r \in S : FirstSeq(S) <= r.seq
      /\ \E r \in S : r.seq = FirstSeq(S)
  BY <1>5 DEF FirstSeq
<1>8. /\ \A r \in S : r.seq <= LastSeq(S)
      /\ \E r \in S : r.seq = LastSeq(S)
  BY <1>6 DEF LastSeq
<1> QED BY <1>7, <1>8 DEF Row

-----------------------------------------------------------------------------
(* A range of a chain. *)

LEMMA LastIs ==
  ASSUME NEW S, S \subseteq Row, \A r, s \in S : r.seq = s.seq => r = s,
         NEW m \in S, \A s \in S : s.seq <= m.seq, NEW base
  PROVE  LastHash(S, base) = m.hash
<1>1. PICK l \in S : (\A s \in S : s.seq <= l.seq) /\ LastHash(S, base) = l.hash
  BY NewestHash
<1>2. l.seq <= m.seq /\ m.seq <= l.seq /\ l.seq \in Nat /\ m.seq \in Nat
  BY <1>1 DEF Row
<1> QED BY <1>1, <1>2

\* A range of a chain that verifies links from the newest row before it.
LEMMA RangeLinks ==
  ASSUME NEW S, S \subseteq Row, VerifyChain(S), \A r, s \in S : r.seq = s.seq => r = s,
         NEW a \in Nat, NEW b \in Nat
  PROVE  Linked({r \in S : a < r.seq /\ r.seq <= b}, HashBefore(S, a))
<1> DEFINE T == {r \in S : a < r.seq /\ r.seq <= b}
           base == HashBefore(S, a)
<1> SUFFICES ASSUME NEW r \in T PROVE r.prev = LastHash(Before(T, r), base)
  BY DEF Linked, VerifyChain
<1>1. r \in S /\ r.seq \in Nat /\ a < r.seq /\ r.seq <= b /\ r.prev = LastHash(Before(S, r), Genesis)
  BY DEF VerifyChain, Linked, Row
<1>2. Before(S, r) \subseteq Row /\ Before(T, r) \subseteq Before(S, r)
  BY DEF Before
<1>3. CASE Before(T, r) = {}
  <2>1. ASSUME NEW s \in S PROVE s.seq < r.seq <=> s.seq <= a
    <3>1. s \notin Before(T, r) /\ s.seq \in Nat
      BY <1>3 DEF Row
    <3> QED BY <1>1, <3>1 DEF Before
  <2>2. Before(S, r) = {s \in S : s.seq <= a}
    BY <2>1 DEF Before
  <2>3. LastHash(Before(T, r), base) = base
    BY <1>3, NoHash
  <2> QED BY <1>1, <2>2, <2>3 DEF HashBefore, TailHash
<1>4. CASE Before(T, r) # {}
  <2>1. \A s \in Before(T, r) : s.seq <= r.seq
    BY <1>1 DEF Before, Row
  <2>2. PICK m \in Before(T, r) : \A s \in Before(T, r) : s.seq <= m.seq
    <3> DEFINE U == Before(T, r)
    <3>1. U \subseteq Row /\ U # {} /\ \A s \in U : s.seq <= r.seq
      BY <1>2, <1>4, <2>1
    <3> HIDE DEF U
    <3>2. \E m \in U : \A s \in U : s.seq <= m.seq
      BY <1>1, <3>1, Ends
    <3> QED BY <3>2 DEF U
  <2>3. m \in Before(S, r) /\ a < m.seq
    BY DEF Before
  <2>4. ASSUME NEW s \in Before(S, r) PROVE s.seq <= m.seq
    <3>1. s \in S /\ s.seq < r.seq /\ s.seq \in Nat /\ m.seq \in Nat
      BY <1>2 DEF Before, Row
    <3>2. CASE s.seq <= a
      BY <2>3, <3>1, <3>2
    <3>3. CASE a < s.seq
      <4>1. s \in Before(T, r)
        BY <1>1, <3>1, <3>3 DEF Before
      <4> QED BY <2>2, <4>1
    <3> QED BY <3>1, <3>2, <3>3
  <2>5. LastHash(Before(S, r), Genesis) = m.hash
    BY <1>2, <2>3, <2>4, LastIs DEF Before
  <2>6. LastHash(Before(T, r), base) = m.hash
    BY <1>2, <2>2, LastIs DEF Before
  <2> QED BY <1>1, <2>5, <2>6
<1> QED BY <1>3, <1>4

-----------------------------------------------------------------------------
(* Every step. *)

LEMMA KeyInit == Init => KeyExportInv
<1> SUFFICES ASSUME Init PROVE KeyExportInv
  OBVIOUS
<1>1. ChainInv /\ rows = {}
  BY InitInv DEF Init, ChainInit
<1> QED BY <1>1 DEF Init, ExportInit, KeyExportInv, Typed, SliceIsRange, SliceIsStored,
          NumbersAreSeen, ReportIsWhole, ObjectMatchesKey, NothingSkipped

\* Rows that appear are numbered above every row there was, so that no range
\* that was read or written gets another row.
LEMMA AppendKeeps ==
  ASSUME KeyExportInv, [ChainNext]_chainVars, UNCHANGED exportVars
  PROVE  KeyExportInv'
<1>1. ChainInv' /\ rows' \subseteq Row
  BY StepInv DEF KeyExportInv, ChainInv, ChainTypeOK
<1>2. rows \subseteq rows' /\ \A r \in rows' \ rows, s \in rows : s.seq < r.seq
  BY NewRowsAreNewest DEF KeyExportInv
<1>3. ASSUME NEW n \in Nat, n = 0 \/ \E s \in rows : s.seq = n, NEW r \in rows', r.seq <= n
      PROVE  r \in rows
  BY <1>1, <1>2, <1>3 DEF Row
<1>4. rows \subseteq Row /\ UNCHANGED <<kpc, after, slice, worm, exported>>
  BY DEF KeyExportInv, ChainInv, ChainTypeOK, exportVars
<1>5. after \in Nat /\ (after = 0 \/ \E s \in rows : s.seq = after)
  BY DEF KeyExportInv, Typed, NumbersAreSeen
<1>6. SliceIsRange'
  <2> SUFFICES ASSUME kpc \in {"sliced", "put"}
               PROVE  slice = {r \in rows' : after < r.seq /\ r.seq <= LastSeq(slice)} /\ slice # {}
    BY <1>4 DEF SliceIsRange
  <2>1. slice # {} /\ slice = {r \in rows : after < r.seq /\ r.seq <= LastSeq(slice)} /\ slice \subseteq rows
    BY DEF KeyExportInv, SliceIsRange, Typed
  <2>2. \A r \in slice : r.seq <= nextSeq /\ nextSeq \in Nat
    BY <1>4, <2>1 DEF KeyExportInv, ChainInv, ChainTypeOK, SoundForAll, Sound, Row
  <2>3. LastSeq(slice) \in Nat /\ \E s \in rows : s.seq = LastSeq(slice)
    BY <1>4, <2>1, <2>2, Ends
  <2> QED BY <1>2, <1>3, <2>1, <2>3
<1>7. NumbersAreSeen'
  BY <1>2, <1>4 DEF KeyExportInv, NumbersAreSeen
<1>8. NothingSkipped' /\ ReportIsWhole'
  <2>1. ASSUME NEW r \in rows', r.seq <= after PROVE r \in rows
    BY <1>3, <1>5, <2>1
  <2> QED BY <1>2, <1>4, <2>1 DEF KeyExportInv, NothingSkipped, ReportIsWhole
<1>9. ObjectMatchesKey'
  <2> SUFFICES ASSUME NEW o \in worm
               PROVE  o.lines = {r \in rows' : o.first <= r.seq /\ r.seq <= o.last}
    BY <1>4 DEF ObjectMatchesKey
  <2>1. o.last \in Nat /\ \E s \in rows : s.seq = o.last
    BY DEF KeyExportInv, Typed, Object, NumbersAreSeen
  <2>2. o.lines = {r \in rows : o.first <= r.seq /\ r.seq <= o.last}
    BY DEF KeyExportInv, ObjectMatchesKey
  <2> QED BY <1>2, <1>3, <2>1, <2>2
<1> QED BY <1>1, <1>2, <1>4, <1>6, <1>7, <1>8, <1>9 DEF KeyExportInv, Typed, SliceIsStored

\* Where the slice is that was read, in numbers.
LEMMA SliceEnds ==
  ASSUME KeyExportInv, kpc \in {"sliced", "put"}
  PROVE  /\ FirstSeq(slice) \in Nat /\ LastSeq(slice) \in Nat
         /\ \A r \in slice : FirstSeq(slice) <= r.seq /\ r.seq <= LastSeq(slice)
         /\ \E r \in slice : r.seq = FirstSeq(slice)
         /\ \E r \in slice : r.seq = LastSeq(slice)
         /\ after < FirstSeq(slice) /\ after < LastSeq(slice)
<1>1. slice # {} /\ slice \subseteq rows /\ rows \subseteq Row /\ \A r \in slice : after < r.seq
  BY DEF KeyExportInv, SliceIsRange, Typed, ChainInv, ChainTypeOK
<1>2. nextSeq \in Nat /\ \A r \in slice : r.seq <= nextSeq
  BY <1>1 DEF KeyExportInv, ChainInv, ChainTypeOK, SoundForAll, Sound, Row
<1> QED BY <1>1, <1>2, Ends

\* An export that gets as far as the stored object finds that it links.
LEMMA SliceLinks ==
  ASSUME KeyExportInv, kpc \in {"sliced", "put"}
  PROVE  Linked(slice, HashBefore(rows, after))
<1>1. slice = {r \in rows : after < r.seq /\ r.seq <= LastSeq(slice)}
  BY DEF KeyExportInv, SliceIsRange
<1>2. rows \subseteq Row /\ VerifyChain(rows) /\ \A r, s \in rows : r.seq = s.seq => r = s
  BY DEF KeyExportInv, ChainInv, ChainTypeOK, SoundForAll, Sound
<1>3. after \in Nat /\ LastSeq(slice) \in Nat
  BY SliceEnds DEF KeyExportInv, Typed
<1> DEFINE b == LastSeq(slice)
<1>4. Linked({r \in rows : after < r.seq /\ r.seq <= b}, HashBefore(rows, after))
  <2> HIDE DEF b
  <2> QED BY <1>2, <1>3, RangeLinks DEF b
<1> QED BY <1>1, <1>4

\* The steps of the export, and its end at any of them.
LEMMA ExportKeeps ==
  ASSUME KeyExportInv, ExportStep \/ Crash, UNCHANGED chainVars
  PROVE  KeyExportInv'
<1>1. ChainInv' /\ rows' = rows /\ rows \subseteq Row
  BY StepInv DEF KeyExportInv, ChainInv, ChainTypeOK, chainVars
<1>2. CASE VerifyDb \/ Crash
  BY <1>1, <1>2 DEF VerifyDb, Crash, KeyExportInv, Typed, SliceIsRange, SliceIsStored,
       NumbersAreSeen, ReportIsWhole, ObjectMatchesKey, NothingSkipped
<1>3. CASE ReadSlice
  <2>1. slice' = {r \in rows : r.seq > after} /\ UNCHANGED <<after, worm, exported>>
        /\ kpc' = IF slice' = {} THEN "idle" ELSE "sliced"
    BY <1>3 DEF ReadSlice, After
  <2>2. SliceIsRange'
    <3> SUFFICES ASSUME slice' # {}
                 PROVE  slice' = {r \in rows : after < r.seq /\ r.seq <= LastSeq(slice')}
      BY <1>1, <2>1 DEF SliceIsRange
    <3>1. nextSeq \in Nat /\ \A r \in slice' : r.seq <= nextSeq
      BY <1>1, <2>1 DEF KeyExportInv, ChainInv, ChainTypeOK, SoundForAll, Sound, Row
    <3>2. slice' \subseteq Row /\ slice' \subseteq rows
      BY <1>1, <2>1
    <3>3. \A r \in slice' : r.seq <= LastSeq(slice')
      <4> DEFINE U == slice'
      <4> HIDE DEF U
      <4>1. U \subseteq Row /\ U # {} /\ \A r \in U : r.seq <= nextSeq
        BY <3>1, <3>2 DEF U
      <4>2. \A r \in U : r.seq <= LastSeq(U)
        BY <3>1, <4>1, Ends
      <4> QED BY <4>2 DEF U
    <3>4. \A r \in rows : r.seq \in Nat /\ (r.seq > after <=> after < r.seq)
      BY <1>1 DEF Row, KeyExportInv, Typed
    <3> QED BY <2>1, <3>2, <3>3, <3>4
  <2> QED BY <1>1, <2>1, <2>2 DEF KeyExportInv, Typed, SliceIsStored,
            NumbersAreSeen, ReportIsWhole, ObjectMatchesKey, NothingSkipped
<1>4. CASE PutWorm
  <2> DEFINE o == [first |-> FirstSeq(slice), last |-> LastSeq(slice), lines |-> slice]
  <2>1. kpc = "sliced" /\ kpc' = "put" /\ worm' = worm \cup {o} /\ UNCHANGED <<after, slice, exported>>
    BY <1>4 DEF PutWorm
  <2>2. slice \subseteq rows /\ slice # {} /\ slice = {r \in rows : after < r.seq /\ r.seq <= LastSeq(slice)}
    BY <2>1 DEF KeyExportInv, SliceIsRange, Typed
  <2>3. /\ FirstSeq(slice) \in Nat /\ LastSeq(slice) \in Nat /\ after \in Nat
        /\ \A r \in slice : FirstSeq(slice) <= r.seq /\ r.seq <= LastSeq(slice)
        /\ \E r \in slice : r.seq = LastSeq(slice)
        /\ after < FirstSeq(slice)
    BY <2>1, SliceEnds DEF KeyExportInv, Typed
  <2>4. slice = {r \in rows : FirstSeq(slice) <= r.seq /\ r.seq <= LastSeq(slice)}
    <3>1. \A r \in rows : FirstSeq(slice) <= r.seq => after < r.seq
      BY <1>1, <2>3 DEF Row
    <3> QED BY <2>2, <2>3, <3>1
  <2>5. o \in Object /\ o.first = FirstSeq(slice) /\ o.last = LastSeq(slice) /\ o.lines = slice
    BY <1>1, <2>2, <2>3 DEF Object
  <2> HIDE DEF o
  <2>6. ObjectMatchesKey'
    BY <1>1, <2>1, <2>4, <2>5 DEF KeyExportInv, ObjectMatchesKey
  <2>7. NumbersAreSeen'
    BY <1>1, <2>1, <2>2, <2>3, <2>5 DEF KeyExportInv, NumbersAreSeen
  <2>8. Typed' /\ SliceIsRange' /\ SliceIsStored' /\ ReportIsWhole' /\ NothingSkipped'
    BY <1>1, <2>1, <2>2, <2>5 DEF KeyExportInv, Typed, SliceIsRange, SliceIsStored, ReportIsWhole,
         NothingSkipped
  <2> QED BY <1>1, <2>6, <2>7, <2>8 DEF KeyExportInv
<1>5. CASE CheckStored
  <2>1. kpc = "put" /\ kpc' = "idle" /\ after' = LastSeq(slice) /\ exported' = exported \cup slice
        /\ UNCHANGED <<slice, worm>>
    BY <1>5, SliceLinks DEF CheckStored
  <2>2. /\ slice \subseteq rows /\ slice = {r \in rows : after < r.seq /\ r.seq <= LastSeq(slice)}
        /\ \E o \in worm : o.lines = slice
    BY <2>1 DEF KeyExportInv, SliceIsRange, SliceIsStored, Typed
  <2>3. /\ LastSeq(slice) \in Nat /\ after \in Nat /\ after < LastSeq(slice)
        /\ \E r \in slice : r.seq = LastSeq(slice)
    BY <2>1, SliceEnds DEF KeyExportInv, Typed
  <2>4. \A r \in rows : r.seq <= LastSeq(slice) <=> r.seq <= after \/ r \in slice
    <3>1. \A r \in rows : r \in slice <=> after < r.seq /\ r.seq <= LastSeq(slice)
      BY <2>2
    <3>2. \A r \in rows : r.seq \in Nat
      BY <1>1 DEF Row
    <3> QED BY <2>3, <3>1, <3>2
  <2>5. ReportIsWhole' /\ NothingSkipped'
    BY <1>1, <2>1, <2>2, <2>4 DEF KeyExportInv, ReportIsWhole, NothingSkipped
  <2>6. Typed' /\ SliceIsRange' /\ SliceIsStored' /\ NumbersAreSeen' /\ ObjectMatchesKey'
    BY <1>1, <2>1, <2>2, <2>3 DEF KeyExportInv, Typed, SliceIsRange, SliceIsStored, NumbersAreSeen,
         ObjectMatchesKey
  <2> QED BY <1>1, <2>5, <2>6 DEF KeyExportInv
<1> QED BY <1>2, <1>3, <1>4, <1>5 DEF ExportStep

LEMMA KeyStep == ASSUME KeyExportInv, [Next]_vars PROVE KeyExportInv'
<1>1. CASE ChainNext /\ UNCHANGED exportVars
  BY <1>1, AppendKeeps
<1>2. CASE (ExportStep \/ Crash) /\ UNCHANGED chainVars
  BY <1>2, ExportKeeps
<1>3. CASE UNCHANGED vars
  BY <1>3, AppendKeeps DEF vars
<1> QED BY <1>1, <1>2, <1>3 DEF Next

-----------------------------------------------------------------------------
\* The inductive invariant of the export beside appending sessions.
THEOREM KeyExportInvariant == Spec => []KeyExportInv
<1>1. KeyExportInv /\ [Next]_vars => KeyExportInv'
  BY KeyStep
<1> QED BY <1>1, KeyInit, PTL DEF Spec

\* What has been reported as exported is in the store, up to the number after
\* which the next export begins.
THEOREM KeyExportSkipsNothing == Spec => []NothingSkipped
<1>1. KeyExportInv => NothingSkipped
  BY DEF KeyExportInv
<1> QED BY <1>1, KeyExportInvariant, PTL

\* Every object holds exactly the committed rows in the range its key names,
\* those of failed exports and those written during appends included.
THEOREM KeyObjectsMatchKeys == Spec => []ObjectMatchesKey
<1>1. KeyExportInv => ObjectMatchesKey
  BY DEF KeyExportInv
<1> QED BY <1>1, KeyExportInvariant, PTL

\* The check of the stored object against the row before it never fails: no
\* gap in the numbers and no row committed meanwhile looks like tampering.
THEOREM KeyExportRaisesNoFalseAlarm == Spec => []NoFalseAlarm
<1>1. KeyExportInv => NoFalseAlarm
  BY SliceLinks DEF NoFalseAlarm
<1> QED BY <1>1, KeyExportInvariant, PTL

\* No row of an export that succeeded is written a second time.
THEOREM KeyExportWritesOnlyNew == Spec => OnlyNewRecordsWritten
<1> DEFINE Fresh == \A o \in worm' \ worm : o.lines \cap exported = {}
<1>1. ASSUME KeyExportInv, [Next]_vars PROVE [Fresh]_vars
  <2>1. CASE ~PutWorm
    <3>1. worm' = worm
      BY <1>1, <2>1 DEF Next, ExportStep, VerifyDb, ReadSlice, CheckStored, Crash, exportVars, vars
    <3> QED BY <3>1
  <2>2. CASE PutWorm
    <3>1. kpc = "sliced" /\ \A o \in worm' \ worm : o.lines = slice
      BY <2>2 DEF PutWorm
    <3>2. \A r \in slice : r \in Row /\ after < r.seq /\ after \in Nat
      <4>1. slice = {r \in rows : after < r.seq /\ r.seq <= LastSeq(slice)} /\ rows \subseteq Row
        BY <1>1, <3>1 DEF KeyExportInv, SliceIsRange, ChainInv, ChainTypeOK
      <4> QED BY <1>1, <4>1 DEF KeyExportInv, Typed
    <3>3. \A r \in exported : r.seq <= after
      BY <1>1 DEF KeyExportInv, ReportIsWhole
    <3>4. \A r \in slice : r \notin exported
      BY <3>2, <3>3 DEF Row
    <3> QED BY <3>1, <3>4
  <2> QED BY <2>1, <2>2
<1> QED BY <1>1, KeyExportInvariant, PTL DEF Spec, OnlyNewRecordsWritten
=============================================================================
