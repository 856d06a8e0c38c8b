---------------------------- MODULE DocumentStates ----------------------------
(***************************************************************************)
(* states.py: the states of a document and the edges between them.         *)
(***************************************************************************)
Unborn == "none"    \* no record yet: State | None in the source

State == {"registered", "extractable", "unprocessable_ocr", "extracted",
          "anonymized", "indexed", "failed", "superseded", "deleted"}

Edges ==
  [s \in State \cup {Unborn} |->
     CASE s = Unborn              -> {"registered"}
       [] s = "registered"        -> {"extractable", "unprocessable_ocr", "failed"}
       [] s = "unprocessable_ocr" -> {"extractable"}
       [] s = "extractable"       -> {"extracted", "failed"}
       [] s = "extracted"         -> {"anonymized", "failed"}
       [] s = "anonymized"        -> {"indexed", "failed"}
       [] OTHER                   -> {}]

\* ALLOWED: from every state that has an entry in _EDGES a document can also be
\* superseded or deleted.  `deleted` has no entry.
IsAllowed(from, to) ==
  \/ to \in Edges[from]
  \/ /\ from \notin {Unborn, "deleted"}
     /\ to \in {"superseded", "deleted"} \ {from}
=============================================================================
