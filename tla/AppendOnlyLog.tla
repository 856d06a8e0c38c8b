---------------------------- MODULE AppendOnlyLog ----------------------------
(***************************************************************************)
(* What the audit trail promises its readers: one log, which only grows at *)
(* its end.  A transaction adds one or more records at once; nothing is    *)
(* ever changed, removed or put in between.                                *)
(***************************************************************************)
EXTENDS Naturals, Sequences

CONSTANT Content    \* the records' contents

VARIABLE log        \* the contents of all committed records, oldest first

\* s is the beginning of t (or all of it)
Begins(s, t) == /\ Len(s) <= Len(t)
                /\ \A i \in 1 .. Len(s) : s[i] = t[i]

Init == log = <<>>

Extend == /\ log' \in Seq(Content)
          /\ Len(log) < Len(log')
          /\ Begins(log, log')

Spec == Init /\ [][Extend]_log
=============================================================================
