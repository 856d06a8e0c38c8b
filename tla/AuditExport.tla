----------------------------- MODULE AuditExport -----------------------------
(***************************************************************************)
(* audit_export.export_worm: the incremental export of the document chain  *)
(* to write-once storage, running beside the sessions that append.  It     *)
(* takes no lock and every statement has a snapshot of its own, so rows    *)
(* may be committed between any two of its steps.                          *)
(*                                                                         *)
(* The caller (a scheduled job) passes the last_seq of the last export     *)
(* that reported success.  The store keeps every version of every object   *)
(* until its retention ends, which is beyond this model.                   *)
(***************************************************************************)
EXTENDS AuditChain

VARIABLES
  epc,        \* the exporter's place in export_worm
  after,      \* last_seq of the last export that succeeded
  last,       \* _last_seq as this export read it
  slice,      \* the rows this export serialised
  worm        \* objects written, under the numbers in their keys

exportVars == <<epc, after, last, slice, worm>>
vars == <<chainVars, exportVars>>
-----------------------------------------------------------------------------
\* Mutant: the queries carry a row limit.
AfterLimited(S, a) == {r \in S : r.seq > a /\ r.seq <= a + 1}

After(S, a) == {r \in S : r.seq > a}

LastSeq(S) ==
  IF S = {} THEN 0 ELSE (CHOOSE r \in S : \A s \in S : s.seq <= r.seq).seq

\* _hash_at: the hash of row a, and genesis for a full export.
BaseHash(S, a) == IF a = 0 THEN Genesis ELSE (CHOOSE r \in S : r.seq = a).hash

\* Both sides are sorted by number, so comparing them line by line is comparing
\* the sets of what the lines and the rows say.
VerifyExport(S, lines, a) ==
  LET said(T) == {[seq |-> r.seq, prev |-> r.prev, hash |-> r.hash] : r \in T}
  IN /\ said(lines) = said(After(S, a))
     /\ a = 0 \/ \E r \in S : r.seq = a
     /\ Linked(lines, BaseHash(S, a))
-----------------------------------------------------------------------------
ExportInit ==
  /\ epc = "idle"
  /\ after = 0
  /\ last = 0
  /\ slice = {}
  /\ worm = {}

\* audit.verify_chain; a chain that does not verify ends the export here.
VerifyDb ==
  /\ epc = "idle"
  /\ VerifyChain(rows)
  /\ epc' = "verified"
  /\ UNCHANGED <<after, last, slice, worm>>

\* Mutant: off by one in "nothing new".
ReadLastOffByOne ==
  /\ epc = "verified"
  /\ last' = LastSeq(rows)
  /\ epc' = IF last' <= after + 1 THEN "idle" ELSE "lastRead"
  /\ UNCHANGED <<after, slice, worm>>

\* Nothing new is a result too.
ReadLast ==
  /\ epc = "verified"
  /\ last' = LastSeq(rows)
  /\ epc' = IF last' <= after THEN "idle" ELSE "lastRead"
  /\ UNCHANGED <<after, slice, worm>>

ReadSlice ==
  /\ epc = "lastRead"
  /\ slice' = After(rows, after)
  /\ epc' = "sliced"
  /\ UNCHANGED <<after, last, worm>>

\* Rows committed since the slice was read make this an ExportError.
CheckSlice ==
  /\ epc = "sliced"
  /\ epc' = IF VerifyExport(rows, slice, after) THEN "checked" ELSE "idle"
  /\ UNCHANGED <<after, last, slice, worm>>

\* put_object_locked
PutWorm ==
  /\ epc = "checked"
  /\ worm' = worm \cup {[first |-> after + 1, last |-> last, lines |-> slice]}
  /\ epc' = "put"
  /\ UNCHANGED <<after, last, slice>>

\* Mutant: the object is not compared with the database again, and the result
\* is computed from a fresh _last_seq.
ReportFreshLast ==
  /\ epc = "put"
  /\ epc' = "idle"
  /\ after' = LastSeq(rows)
  /\ UNCHANGED <<last, slice, worm>>

\* The object is read back as it was written and compared with the database
\* once more.  When that fails the export reports nothing, and the object stays.
CheckStored ==
  /\ epc = "put"
  /\ epc' = "idle"
  /\ IF VerifyExport(rows, slice, after)
       THEN after' = last
       ELSE UNCHANGED after
  /\ UNCHANGED <<last, slice, worm>>

\* The job dies, or a call to the database or the store raises.
Crash ==
  /\ epc # "idle"
  /\ epc' = "idle"
  /\ UNCHANGED <<after, last, slice, worm>>

ExportStep == \/ VerifyDb
              \/ ReadLast
              \/ ReadSlice
              \/ CheckSlice
              \/ PutWorm
              \/ CheckStored

Init == ChainInit /\ ExportInit

Next == \/ ChainNext /\ UNCHANGED exportVars
        \/ (ExportStep \/ Crash) /\ UNCHANGED chainVars

Spec == Init /\ [][Next]_vars

\* The job is started again and again, and does not die at the same call each time.
FairSpec ==
  /\ Spec
  /\ SF_vars(VerifyDb /\ UNCHANGED chainVars)
  /\ SF_vars(ReadLast /\ UNCHANGED chainVars)
  /\ SF_vars(ReadSlice /\ UNCHANGED chainVars)
  /\ SF_vars(CheckSlice /\ UNCHANGED chainVars)
  /\ SF_vars(PutWorm /\ UNCHANGED chainVars)
  /\ SF_vars(CheckStored /\ UNCHANGED chainVars)
-----------------------------------------------------------------------------
\* The values the variables take.
TypeOK ==
  /\ ChainTypeOK
  /\ epc \in {"idle", "verified", "lastRead", "sliced", "checked", "put"}
  /\ after \in Nat /\ last \in Nat
  /\ slice \subseteq Row
  /\ worm \subseteq [first : Nat, last : Nat, lines : SUBSET Row]

\* What has been reported as exported is in the store: every committed row up
\* to the number the next export starts after, however many of the exports
\* failed, died or overlapped with appends.
NothingSkipped ==
  \A r \in rows : r.seq <= after => \E o \in worm : r \in o.lines

\* An object holds every committed row whose number lies in the range its key
\* names, and holds nothing that was not committed.
ObjectIsComplete ==
  \A o \in worm : /\ o.lines \subseteq rows
                  /\ \A r \in rows : o.first <= r.seq /\ r.seq <= o.last
                                       => r \in o.lines

\* The parts of the invariant that makes the two inductive.

\* The numbers an export works with are numbers of committed rows.
NumbersAreSeen ==
  /\ after = 0 \/ \E r \in rows : r.seq = after
  /\ \A o \in worm : \E r \in rows : r.seq = o.last
  /\ epc \in {"lastRead", "sliced", "checked", "put"}
       => \E r \in rows : r.seq = last

\* A slice, once read, stays the whole of what its key will name.
SliceIsWhole ==
  /\ epc \in {"sliced", "checked", "put"}
       => /\ slice \subseteq rows
          /\ \A r \in rows : after < r.seq /\ r.seq <= last => r \in slice
  /\ epc = "put" => \E o \in worm : o.lines = slice

\* Nothing a session or the exporter does leads out of these states.
ExportInv == /\ ChainInv
             /\ TypeOK
             /\ NumbersAreSeen
             /\ SliceIsWhole
             /\ NothingSkipped
             /\ ObjectIsComplete

\* Once the sessions stop appending, which MaxSeq makes them do, every row gets
\* exported.  (Under a load that commits during every single export this need
\* not be so: each attempt can fail its comparison with the database.)
ExportCatchesUp ==
  \A n \in 1 .. MaxSeq : (\E r \in rows : r.seq = n) ~> after >= n
=============================================================================
