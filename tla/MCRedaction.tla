------------------------------ MODULE MCRedaction ------------------------------
EXTENDS Redaction

MCSpelling == {"word", "Jansen", "jansen", "P. Jansen", "P./Jansen", "1-2-80", "80-02-01", "stamp"}
MCWords == [s \in MCSpelling |->
  CASE s \in {"Jansen", "jansen"} -> <<"jansen">>
    [] s \in {"P. Jansen", "P./Jansen"} -> <<"p", "jansen">>
    [] OTHER -> <<s>>]
MCCase   == [s \in MCSpelling |-> IF s = "jansen" THEN "lower" ELSE "mixed"]
MCNormOf == [s \in MCSpelling |->
  CASE s = "jansen" -> "Jansen" [] s = "1-2-80" -> "80-02-01" [] OTHER -> s]
MCTypeOf == [s \in MCSpelling |->
  CASE s \in {"Jansen", "jansen", "P. Jansen", "P./Jansen"} -> "person"
    [] s \in {"1-2-80", "80-02-01"} -> "date" [] OTHER -> "other"]
MCAllowIn == [h \in Hash |-> IF h = "b" THEN {"P. Jansen"} ELSE {}]
MCDenyIn  == [h \in Hash |-> IF h = "b" THEN {"stamp"} ELSE {}]
MCPages == [d \in Doc |->
  IF d = "x" THEN << <<"word", "P. Jansen">>, <<"jansen", "1-2-80", "word">> >>
             ELSE << <<"P./Jansen", "P. Jansen">>, <<"80-02-01", "stamp">> >>]
=============================================================================
