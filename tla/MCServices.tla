------------------------------ MODULE MCServices ------------------------------
\* Five parts that share no state, one at a time: the detection of what is in a
\* text, the request limit, the search, the redacted PDFs, and the deliveries of
\* many files.
EXTENDS Detection, RateLimit, Search, MCRedaction, MCBatches

MCWord == {"jan", "bos", "re", "van", "postbus", "250", "1404GZ", "111222333", "123456789",
           "NL91ABNA0417164300", "NL92ABNA0417164300", "j@x.nl"}
MCSize == [p \in MCWord \cup {" ", "nl", "/", "https://"} |->
            IF p \in {" ", "nl", "/"} THEN 1 ELSE IF p = "re" THEN 2 ELSE 3]
MCDigits == ("111222333" :> <<1, 1, 1, 2, 2, 2, 3, 3, 3>>) @@ ("123456789" :> <<1, 2, 3, 4, 5, 6, 7, 8, 9>>)
Abna == <<10, 11, 23, 10, 0, 4, 1, 7, 1, 6, 4, 3, 0, 0, 23, 21>>
MCSigns == ("NL91ABNA0417164300" :> Abna \o <<9, 1>>) @@ ("NL92ABNA0417164300" :> Abna \o <<9, 2>>)

X == <<P(" ")>>
W(w) == <<P(w)>>
Bsn  == W("111222333")
TextUrl == W("https://") \o W("jan") \o W("/") \o W("bos")
MCText ==
  UNION {[1 .. n -> {P("jan"), P("bos"), P(" "), P("nl")}] : n \in 1 .. 3}
  \cup {W("jan") \o X \o W("bos") \o X \o W("jan"),
        W("jan") \o X \o W("van") \o X \o W("bos") \o W("nl") \o W("jan"),
        W("re") \o W("nl") \o W("jan") \o X \o W("re"),
        W("jan") \o X \o Bsn, Bsn \o X \o W("jan"), W("123456789") \o X \o W("j@x.nl"),
        W("NL91ABNA0417164300") \o W("nl") \o W("NL92ABNA0417164300"),
        W("postbus") \o X \o W("250") \o X \o W("1404GZ"), W("250") \o X \o W("1404GZ"),
        TextUrl, W("jan") \o X \o TextUrl, W("https://") \o W("bos") \o X \o W("jan")}
MCDeny  == {[label |-> "case", value |-> W("250")], [label |-> "person", value |-> W("bos")]}
MCAllow == {[label |-> "url", value |-> TextUrl], [label |-> "case", value |-> W("250")]}
BsnToken == <<Put("bsn", Bsn)>>
MCLabels ==
  {<<W("jan"), "person">>, <<W("jan") \o X, "place">>, <<W("jan") \o X \o W("bos"), "person">>,
   <<W("bos") \o X \o W("jan"), "person">>, <<W("re"), "person">>,
   <<W("jan") \o X \o BsnToken, "person">>, <<BsnToken \o X \o W("jan"), "person">>}

MCBurst == "/search" :> 5
MCRate  == "/search" :> 1

MCLexical == {<<>>, <<"a", "b">>, <<"c", "a", "b">>}
MCNear == {<<"a", "b", "c">>, <<"c", "b", "a">>}
In(F, T, V) == [there |-> TRUE, folders |-> F, themes |-> T, vectors |-> V]
Both == {"document", "passage"}
MCStart ==
  {[d \in {"a", "b", "c"} |-> CASE d = "a" -> In({"f1"}, T, Both) [] d = "b" -> In(F, {"t1"}, Both) [] d = "c" -> e] :
     T \in {{}, {"t1"}}, F \in {{"f2"}, {"f1", "f2"}},
     e \in {In({"f2"}, {}, Both), In({"f2"}, {"t1"}, {"document"}), [there |-> FALSE, folders |-> {}, themes |-> {}, vectors |-> {}]}}
Q(path, F, t, knn, final) == [path |-> path, dossier |-> F, topic |-> t, knn |-> knn, final |-> final]
MCAsk ==
  {Q("/search", {}, "none", "document", "rrf"), Q("/search", {"alle", "f1"}, "none", "document", "rrf"),
   Q("/search", {"f1", "other"}, "none", "document", "rrf"), Q("/search", {"alle"}, "none", "document", "rrf"),
   Q("/search", {"f1"}, "t1", "document", "rrf"), Q("/export/ranking.csv", {}, "none", "document", "rrf")}
  \cup {Q("/hybrid", F, t, knn, final) : F \in {{"alle"}, {"f1"}, {"f1", "f2"}}, t \in {"none", "t1"},
                                         knn \in Both, final \in {"rrf", "cosine"}}
  \cup {Q("/ask", {}, "none", "document", "rrf"), Q("/console/search", {"f2"}, "none", "passage", "rrf")}

VARIABLE part

DOff == text = <<>> /\ reversible = TRUE /\ pc = "off" /\ body = <<>> /\ calls = <<>> /\ tries = 0 /\ out = <<>>
SOff ==
  /\ entries = [d \in Entry |-> Absent] /\ hidden = {} /\ lexical = <<>> /\ near = <<>>
  /\ question = Q("/search", {}, "none", "document", "rrf") /\ step = "off" /\ scope = {} /\ tried = 0
  /\ ranked = <<>> /\ hits = <<>> /\ reply = [citations |-> <<>>, text |-> "none"] /\ past = {} /\ writes = 0
ROff == lists = "a" /\ mappings = [n \in Token |-> "none"] /\ Init
BOff == BInit /\ disk = On("d", "s")

ServicesInit ==
  \/ part = "detection" /\ DInit /\ LInit /\ SOff /\ ROff /\ BOff
  \/ part = "limit" /\ DOff /\ LInit /\ SOff /\ ROff /\ BOff
  \/ part = "search" /\ DOff /\ LInit /\ SInit /\ ROff /\ BOff
  \/ part = "redaction" /\ DOff /\ LInit /\ SOff /\ Init /\ BOff
  \/ part = "batches" /\ DOff /\ LInit /\ SOff /\ ROff /\ BInit

Detecting  == part = "detection" /\ DNext /\ UNCHANGED <<part, lvars, svars, vars, bvars>>
Limiting   == part = "limit" /\ LNext /\ UNCHANGED <<part, dvars, svars, vars, bvars>>
Searching  == part = "search" /\ SNext /\ UNCHANGED <<part, dvars, lvars, vars, bvars>>
Redacting  == part = "redaction" /\ Next /\ UNCHANGED <<part, dvars, lvars, svars, bvars>>
Delivering == part = "batches" /\ BNext /\ UNCHANGED <<part, dvars, lvars, svars, vars>>

ServicesNext == Detecting \/ Limiting \/ Searching \/ Redacting \/ Delivering
ServicesSpec == ServicesInit /\ [][ServicesNext]_<<part, dvars, lvars, svars, vars, bvars>>

\* The requests for PDFs can change places.
Swap == Permutations(Worker)
=============================================================================
