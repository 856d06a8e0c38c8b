------------------------------- MODULE MCReveal -------------------------------
EXTENDS Reveal, TLC

CONSTANTS w1, w2, d1, d2, csv, Jansen, jansen, number, n1, n2, and,
          PERSON, BSN, clerk, admin, reader

Spellings == {Jansen, jansen, number}
Norms  == Jansen :> n1 @@ jansen :> n1 @@ number :> n2
Types  == Jansen :> PERSON @@ jansen :> PERSON @@ number :> BSN
Layers == Jansen :> "entity" @@ jansen :> "entity" @@ number :> "pattern"

\* The second document has the token of a value of the first in its source, and
\* the host of an allowed address.
Texts == d1 :> <<Value(Jansen), Value(number)>>
      @@ d2 :> <<Value(jansen), Span("token", <<BSN, n2>>, 1)>>
      @@ csv :> <<Value(jansen)>>
DefaultDomain == [d \in {d1, d2, csv} |-> "default"]

NoVc   == [presented |-> FALSE, signedBy |-> 0, committed |-> FALSE, expired |-> FALSE,
           issuedAsExpected |-> FALSE, types |-> {}]
GoodVc == [presented |-> TRUE, signedBy |-> 1, committed |-> TRUE, expired |-> FALSE,
           issuedAsExpected |-> TRUE, types |-> {PERSON}]

Bodies == {[recipient |-> clerk, types |-> {PERSON}, doc |-> d1, role |-> NoRole, expires |-> TRUE],
           [recipient |-> clerk, types |-> {}, doc |-> AnyDocument, role |-> ADMIN, expires |-> FALSE]}
RoleTypeSets == {{PERSON}}
Assertion == [alg |-> "RS256", kid |-> 1, signed |-> TRUE, audience |-> "ours",
              issuer |-> "ours", expired |-> FALSE, email |-> clerk]
AsksMade == {[label |-> clerk, assertion |-> Assertion, doc |-> d1, types |-> {}, vc |-> NoVc],
             [label |-> NoCaller, assertion |-> Assertion, doc |-> d2,
              types |-> {BSN, PERSON}, vc |-> GoodVc]}

\* Grants and reveals come after the anonymizers; rotations and deletions
\* interleave with both.
Apart == (requests > 0 \/ changes > 0) => \A w \in Worker : tx[w].pc = "idle"
=============================================================================
