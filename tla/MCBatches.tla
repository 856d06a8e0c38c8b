------------------------------- MODULE MCBatches -------------------------------
\* Files, their contents and what is said of them, for the deliveries.
EXTENDS Batches, TLC

MCKind == [k \in Bytes |-> CASE k \in {"d", "o"} -> "digital" [] k = "s" -> "scan" [] k = "x" -> "broken" [] k = "e" -> "empty"]
MCOcr  == [k \in Bytes |-> IF k = "s" THEN "o" ELSE k]
MCOrders == {<< <<"a", "b">>, "A", 2>>, << <<"b">>, NoCase, 2>>, << <<"b", "a">>, "A", 1>>}
MCManifests == {[f \in {"a", "b"} |-> [url |-> "u", sha |-> IF f = "a" THEN "d" ELSE "s"]],
                [f \in {"a"} |-> [url |-> "u", sha |-> "d"]]}
MCEdits == {<<"b", "d">>, <<"a", "o">>}
On(a, b) == "a" :> a @@ "b" :> b
MCDisk  == {On("d", "s"), On("o", "s"), On("x", "e"), On("d", "d")}
=============================================================================
