----------------------------- MODULE MCLifecycle -----------------------------
EXTENDS Lifecycle, TLC

CONSTANTS w1, w2, d1, d2, d3, digital, scan, ocr, poor, corrupt, unreadable

Workers1 == {w1}
Workers2 == {w1, w2}
Docs == {d1, d2}
Docs3 == {d1, d2, d3}

\* What the contents are: a scan whose OCR is `ocr`, a scan with no text, ...
MCKind == [k \in Key |->
  CASE k \in {scan, poor} -> "scan"
    [] k = corrupt        -> "corrupt"
    [] k = unreadable     -> "unreadable"
    [] OTHER              -> "digital"]
MCOcrOf == [k \in Key |-> IF k = scan THEN ocr ELSE NoKey]
\* With an OCR of the OCR, which is a PDF like another that is delivered.
MCOcrTwice == [k \in Key |-> CASE k = scan -> ocr [] k = ocr -> digital [] OTHER -> NoKey]

AllKeys == {digital, scan, ocr, poor, corrupt, unreadable}
Scans == {scan, ocr}
Digital == {digital}
DigitalAndScan == {digital, scan, ocr}

Symmetry == Permutations(Worker) \cup Permutations(Doc)
=============================================================================
