--------------------------- MODULE KeyAuditExport ---------------------------
(***************************************************************************)
(* key_audit_export.export_key_lifecycle_worm: the same job as AuditExport *)
(* for the key-lifecycle stream, on another plan.  What it reports comes   *)
(* from the rows it serialised, and the stored object is checked against   *)
(* itself and the hash it chains onto, not against the table again.        *)
(***************************************************************************)
EXTENDS AuditChain

VARIABLES
  kpc,        \* the exporter's place in export_key_lifecycle_worm
  after,      \* last_seq of the last export that succeeded
  slice,      \* the rows this export serialised
  worm,       \* objects written, under the numbers in their keys
  exported    \* history: the rows of the exports that reported success

exportVars == <<kpc, after, slice, worm, exported>>
vars == <<chainVars, exportVars>>
-----------------------------------------------------------------------------
After(S, a) == {r \in S : r.seq > a}

FirstSeq(S) == (CHOOSE r \in S : \A s \in S : r.seq <= s.seq).seq
LastSeq(S)  == (CHOOSE r \in S : \A s \in S : s.seq <= r.seq).seq

\* Mutant: the row numbered a itself is left out.
HashBeforeStrict(S, a) == TailHash({r \in S : r.seq < a})

\* hash_before: the hash a row after number a chains onto.
HashBefore(S, a) == TailHash({r \in S : r.seq <= a})
-----------------------------------------------------------------------------
ExportInit ==
  /\ kpc = "idle"
  /\ after = 0
  /\ slice = {}
  /\ worm = {}
  /\ exported = {}

\* A chain that does not verify ends the export here.
VerifyDb ==
  /\ kpc = "idle"
  /\ VerifyChain(rows)
  /\ kpc' = "verified"
  /\ UNCHANGED <<after, slice, worm, exported>>

\* Mutant: numbers at or after the last exported one.
ReadSliceAtOrAfter ==
  /\ kpc = "verified"
  /\ slice' = {r \in rows : r.seq >= after}
  /\ kpc' = IF slice' = {} THEN "idle" ELSE "sliced"
  /\ UNCHANGED <<after, worm, exported>>

\* Nothing to export is a result too.
ReadSlice ==
  /\ kpc = "verified"
  /\ slice' = After(rows, after)
  /\ kpc' = IF slice' = {} THEN "idle" ELSE "sliced"
  /\ UNCHANGED <<after, worm, exported>>

\* Mutant: the last number in the key computed from the count of rows.
PutCounted ==
  /\ kpc = "sliced"
  /\ worm' = worm \cup {[first |-> FirstSeq(slice), last |-> after + Cardinality(slice),
                         lines |-> slice]}
  /\ kpc' = "put"
  /\ UNCHANGED <<after, slice, exported>>

PutWorm ==
  /\ kpc = "sliced"
  /\ worm' = worm \cup {[first |-> FirstSeq(slice), last |-> LastSeq(slice),
                         lines |-> slice]}
  /\ kpc' = "put"
  /\ UNCHANGED <<after, slice, exported>>

\* Mutant: the result carries the newest number of the table.
ReportNewest ==
  /\ kpc = "put"
  /\ kpc' = "idle"
  /\ IF Linked(slice, HashBefore(rows, after))
       THEN after' = LastSeq(rows) /\ exported' = exported \cup slice
       ELSE UNCHANGED <<after, exported>>
  /\ UNCHANGED <<slice, worm>>

\* The object, read back as it was written, must link from the row before it.
CheckStored ==
  /\ kpc = "put"
  /\ kpc' = "idle"
  /\ IF Linked(slice, HashBefore(rows, after))
       THEN after' = LastSeq(slice) /\ exported' = exported \cup slice
       ELSE UNCHANGED <<after, exported>>
  /\ UNCHANGED <<slice, worm>>

\* The job dies, or a call to the database or the store raises.
Crash ==
  /\ kpc # "idle"
  /\ kpc' = "idle"
  /\ UNCHANGED <<after, slice, worm, exported>>

Init == ChainInit /\ ExportInit

ExportStep == VerifyDb \/ ReadSlice \/ PutWorm \/ CheckStored

Next == \/ ChainNext /\ UNCHANGED exportVars
        \/ (ExportStep \/ Crash) /\ UNCHANGED chainVars

Spec == Init /\ [][Next]_vars
-----------------------------------------------------------------------------
\* What has been reported as exported is in the store, up to the number the
\* next export starts after.
NothingSkipped ==
  \A r \in rows : r.seq <= after => \E o \in worm : r \in o.lines

\* An object holds every committed row whose number lies in the range its key
\* names, gaps or not, and the key names exactly its first and last row.
ObjectMatchesKey ==
  \A o \in worm : o.lines = {r \in rows : o.first <= r.seq /\ r.seq <= o.last}

\* No row of a successful export is written again, however appends overlap
\* with the export.
OnlyNewRecordsWritten ==
  [][\A o \in worm' \ worm : o.lines \cap exported = {}]_vars

\* An export that gets as far as the stored object never refuses it: a row
\* committed meanwhile, or a gap in the numbers, is not mistaken for tampering.
NoFalseAlarm == kpc = "put" => Linked(slice, HashBefore(rows, after))
=============================================================================
