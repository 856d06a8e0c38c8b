-------------------------- MODULE AuditExportProofs --------------------------
(***************************************************************************)
(* The incremental export misses nothing, for every number of sessions and *)
(* however its steps interleave with theirs, fail or stop.  It rests on    *)
(* the order in which rows appear (AuditChainProofs): a number that was    *)
(* read is never undercut by a row committed later.                        *)
(***************************************************************************)
EXTENDS AuditExport, AuditChainProofs

\* _last_seq of a chain that has rows is the number of one of them.
LEMMA LastSeqIsSeen ==
  ASSUME NEW S \in SUBSET Row, S = {} \/ \E r \in S : \A s \in S : s.seq <= r.seq
  PROVE  LastSeq(S) = 0 \/ \E r \in S : r.seq = LastSeq(S)
BY DEF LastSeq

\* Before anything is appended or exported.
LEMMA ExportInitInv == Init => ExportInv
<1> SUFFICES ASSUME Init PROVE ExportInv
  OBVIOUS
<1>1. ChainInv /\ rows = {}
  BY InitInv DEF Init, ChainInit
<1>2. TypeOK
  BY <1>1 DEF Init, ExportInit, TypeOK, ChainInv
<1>3. NumbersAreSeen /\ SliceIsWhole /\ NothingSkipped /\ ObjectIsComplete
  BY <1>1 DEF Init, ExportInit, NumbersAreSeen, SliceIsWhole, NothingSkipped,
              ObjectIsComplete
<1> QED BY <1>1, <1>2, <1>3 DEF ExportInv

\* What the sessions do never makes an export incomplete: rows that appear are
\* numbered above every row there was.
LEMMA AppendKeepsExport ==
  ASSUME ExportInv, [ChainNext]_chainVars, UNCHANGED exportVars
  PROVE  ExportInv'
<1>1. ChainInv'
  BY StepInv DEF ExportInv
<1>2. rows \subseteq rows' /\ \A r \in rows' \ rows, s \in rows : s.seq < r.seq
  BY NewRowsAreNewest DEF ExportInv
<1>3. rows' \subseteq Row
  BY <1>1 DEF ChainInv, ChainTypeOK
<1>4. TypeOK'
  BY <1>1 DEF ExportInv, TypeOK, ChainInv, exportVars
<1>5. NumbersAreSeen'
  BY <1>2 DEF ExportInv, NumbersAreSeen, exportVars
<1>6. ASSUME NEW n \in Nat, NEW s \in rows, s.seq = n, NEW r \in rows', r.seq <= n
      PROVE  r \in rows
  BY <1>2, <1>3, <1>6 DEF Row
<1>7. SliceIsWhole'
  BY <1>2, <1>6 DEF ExportInv, SliceIsWhole, NumbersAreSeen, exportVars, TypeOK
<1>8. NothingSkipped'
  <2>1. ASSUME NEW r \in rows', r.seq <= after PROVE r \in rows
    <3>1. CASE after = 0
      BY <3>1, <2>1, <1>3 DEF Row
    <3>2. CASE after # 0
      BY <3>2, <2>1, <1>6 DEF ExportInv, NumbersAreSeen, TypeOK
    <3> QED BY <3>1, <3>2
  <2> QED BY <2>1 DEF ExportInv, NothingSkipped, exportVars
<1>9. ObjectIsComplete'
  <2>1. ASSUME NEW o \in worm
        PROVE  /\ o.lines \subseteq rows'
               /\ \A r \in rows' : o.first <= r.seq /\ r.seq <= o.last => r \in o.lines
    <3>1. o.last \in Nat /\ \E s \in rows : s.seq = o.last
      BY DEF ExportInv, TypeOK, NumbersAreSeen
    <3> QED BY <3>1, <1>2, <1>6 DEF ExportInv, ObjectIsComplete
  <2> QED BY <2>1 DEF ObjectIsComplete, exportVars
<1> QED BY <1>1, <1>4, <1>5, <1>7, <1>8, <1>9 DEF ExportInv

\* Nor does any step of the exporter, or its end at any point.
LEMMA ExporterKeepsExport ==
  ASSUME ExportInv, ExportStep \/ Crash, UNCHANGED chainVars
  PROVE  ExportInv'
<1> USE DEF chainVars
<1>1. ChainInv'
  BY StepInv DEF ExportInv
<1>2. rows' = rows /\ ChainTypeOK /\ ChainTypeOK' /\ rows \subseteq Row
  BY <1>1 DEF ExportInv, TypeOK, ChainInv, ChainTypeOK
<1>3. CASE VerifyDb
  BY <1>1, <1>2, <1>3 DEF VerifyDb, ExportInv, TypeOK, NumbersAreSeen,
       SliceIsWhole, NothingSkipped, ObjectIsComplete
<1>4. CASE ReadLast
  <2>1. last' = LastSeq(rows) /\ (last' = 0 \/ \E r \in rows : r.seq = last')
    BY <1>2, <1>4, LastSeqIsSeen DEF ReadLast, ExportInv, ChainInv, SoundForAll, Sound
  <2>2. last' \in Nat
    BY <1>2, <2>1 DEF Row
  <2>3. epc' = "lastRead" => last' # 0
    BY <1>4, <2>2 DEF ReadLast, ExportInv, TypeOK
  <2>4. TypeOK'
    BY <1>2, <1>4, <2>2 DEF ReadLast, ExportInv, TypeOK
  <2>5. NumbersAreSeen' /\ SliceIsWhole'
    BY <1>2, <1>4, <2>1, <2>3 DEF ReadLast, ExportInv, NumbersAreSeen, SliceIsWhole
  <2> QED BY <1>1, <1>2, <1>4, <2>4, <2>5 DEF ReadLast, ExportInv, NothingSkipped,
            ObjectIsComplete
<1>5. CASE ReadSlice
  <2>1. slice' \subseteq rows /\ \A r \in rows : after < r.seq => r \in slice'
    BY <1>2, <1>5 DEF ReadSlice, After, Row, ExportInv, TypeOK
  <2> QED BY <1>1, <1>2, <1>5, <2>1 DEF ReadSlice, ExportInv, TypeOK,
            NumbersAreSeen, SliceIsWhole, NothingSkipped, ObjectIsComplete
<1>6. CASE CheckSlice
  BY <1>1, <1>2, <1>6 DEF CheckSlice, ExportInv, TypeOK, NumbersAreSeen,
       SliceIsWhole, NothingSkipped, ObjectIsComplete
<1>7. CASE PutWorm
  <2> DEFINE o == [first |-> after + 1, last |-> last, lines |-> slice]
  <2>1. worm' = worm \cup {o} /\ epc' = "put" /\ UNCHANGED <<after, last, slice>>
    BY <1>7 DEF PutWorm
  <2>2. TypeOK'
    BY <1>2, <2>1 DEF ExportInv, TypeOK
  <2>3. /\ slice \subseteq rows
        /\ \A r \in rows : after < r.seq /\ r.seq <= last => r \in slice
        /\ \E r \in rows : r.seq = last
    BY <1>7 DEF PutWorm, ExportInv, SliceIsWhole, NumbersAreSeen
  <2>4. \A r \in rows : o.first <= r.seq => after < r.seq
    BY <1>2 DEF Row, ExportInv, TypeOK
  <2>5. NumbersAreSeen' /\ SliceIsWhole'
    <3>1. o.last = last /\ o.lines = slice /\ o \in worm'
      BY <2>1
    <3>2. NumbersAreSeen'
      BY <1>2, <2>1, <2>3, <3>1 DEF ExportInv, NumbersAreSeen
    <3>3. SliceIsWhole'
      BY <1>2, <2>1, <2>3, <3>1 DEF SliceIsWhole
    <3> QED BY <3>2, <3>3
  <2>6. NothingSkipped'
    BY <1>2, <2>1 DEF ExportInv, NothingSkipped
  <2>7. ObjectIsComplete'
    BY <1>2, <2>1, <2>3, <2>4 DEF ExportInv, ObjectIsComplete
  <2> QED BY <1>1, <2>2, <2>5, <2>6, <2>7 DEF ExportInv
<1>8. CASE CheckStored
  <2>1. CASE after' = last
    <3>1. /\ epc = "put" /\ epc' = "idle" /\ UNCHANGED <<last, slice, worm>>
      BY <1>8 DEF CheckStored
    <3>2. /\ \A r \in rows : after < r.seq /\ r.seq <= last => r \in slice
          /\ \E o \in worm : o.lines = slice
          /\ \E r \in rows : r.seq = last
      BY <3>1 DEF ExportInv, SliceIsWhole, NumbersAreSeen
    <3>3. \A r \in rows : r.seq <= after \/ after < r.seq
      BY <1>2 DEF Row, ExportInv, TypeOK
    <3>4. NothingSkipped'
      BY <1>2, <2>1, <3>1, <3>2, <3>3 DEF ExportInv, NothingSkipped
    <3> QED BY <1>1, <1>2, <2>1, <3>1, <3>2, <3>4 DEF ExportInv, TypeOK,
              NumbersAreSeen, SliceIsWhole, ObjectIsComplete
  <2>2. CASE UNCHANGED after
    BY <1>1, <1>2, <1>8, <2>2 DEF CheckStored, ExportInv, TypeOK, NumbersAreSeen,
         SliceIsWhole, NothingSkipped, ObjectIsComplete
  <2> QED BY <1>8, <2>1, <2>2 DEF CheckStored
<1>9. CASE Crash
  BY <1>1, <1>2, <1>9 DEF Crash, ExportInv, TypeOK, NumbersAreSeen,
       SliceIsWhole, NothingSkipped, ObjectIsComplete
<1> QED BY <1>3, <1>4, <1>5, <1>6, <1>7, <1>8, <1>9 DEF ExportStep

\* The invariant holds whenever sessions append and exports run.
THEOREM ExportInvariant == Spec => []ExportInv
<1>1. ExportInv /\ [Next]_vars => ExportInv'
  <2> SUFFICES ASSUME ExportInv, [Next]_vars PROVE ExportInv'
    OBVIOUS
  <2>1. CASE ChainNext /\ UNCHANGED exportVars
    BY <2>1, AppendKeepsExport
  <2>2. CASE (ExportStep \/ Crash) /\ UNCHANGED chainVars
    BY <2>2, ExporterKeepsExport
  <2>3. CASE UNCHANGED vars
    BY <2>3, AppendKeepsExport DEF vars
  <2> QED BY <2>1, <2>2, <2>3 DEF Next
<1> QED BY <1>1, ExportInitInv, PTL DEF Spec

\* No committed record is skipped: what is numbered up to the last reported
\* export is in the store.
THEOREM ExportMissesNothing == Spec => []NothingSkipped
<1>1. ExportInv => NothingSkipped
  BY DEF ExportInv
<1> QED BY <1>1, ExportInvariant, PTL

\* Every object in the store is whole, those of failed exports included.
THEOREM ObjectsAreComplete == Spec => []ObjectIsComplete
<1>1. ExportInv => ObjectIsComplete
  BY DEF ExportInv
<1> QED BY <1>1, ExportInvariant, PTL
=============================================================================
