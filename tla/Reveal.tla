-------------------------------- MODULE Reveal --------------------------------
(***************************************************************************)
(* POST /documents/{id}/reveal over Pseudonyms and Access: a request reads *)
(* its grant, decides on the role as it is then, decides again, and opens  *)
(* the tokens of the stored text, while administrators, deletions,         *)
(* rotations and anonymizers go on.  /reveal.pdf makes the same decisions  *)
(* and audits the same record.                                             *)
(***************************************************************************)
EXTENDS Pseudonyms, Access

CONSTANTS GrantBodies,   \* what administrators issue
          RoleTypes,     \* the type sets a role is given
          Asks,          \* the requests for a reveal: key label, assertion, document, types, credential
          Admin,         \* the caller of administrative requests
          Deleters,      \* the callers who ask for deletions
          MaxRequests

ASSUME RevealAssumption == \A a \in Asks : a.doc \in Doc

VARIABLES req,       \* the reveal in progress
          shown,     \* what reveals returned
          requests,
          could      \* what was so at some moment since req began: its grant stood, and the types it gave

vars == <<pvars, avars, req, shown, requests, could>>

NoReq == [pc |-> "idle", caller |-> NoCaller, ask |-> NoDoc, grant |-> NoGrant, late |-> FALSE, g |-> 0,
          text |-> <<>>, wants |-> {}, allowed |-> {}]
NoNote == [held |-> FALSE, types |-> {}]

Init ==
  /\ PInit /\ AInit
  /\ req = NoReq /\ shown = {} /\ requests = 0 /\ could = NoNote

\* What the rows say now of a request, written without Authorize: whether its
\* grant stands for this caller and document, and the types the grant it read
\* gives, or the role that grant names.
HeldNow(q) ==
  /\ q.pc # "idle"
  /\ grants[q.g].status = "active" /\ q.g \notin expired
  /\ grants[q.g].recipient = q.caller
  /\ grants[q.g].doc \in {q.ask.doc, AnyDocument}
TypesNow(q) ==
  IF q.grant.role = NoRole THEN q.grant.types
  ELSE IF roles[q.grant.role].active THEN roles[q.grant.role].types ELSE {}

Notes ==
  could' = IF req'.pc = "idle" THEN NoNote
           ELSE [held |-> could.held \/ HeldNow(req)', types |-> could.types \cup TypesNow(req)']

-----------------------------------------------------------------------------
\* The middleware names the caller (else 401); the time and the grant are read first.
Begin(ask, g) ==
  /\ req.pc = "idle"
  /\ requests < MaxRequests
  /\ requests' = requests + 1
  /\ grants[g].status # "none"                                    \* else 404
  /\ \E fetched \in BOOLEAN :
       LET caller == CallerOf(ask.label, ask.assertion, KeysHeld(fetched).held) IN
       /\ identity' = IF ask.label # NoCaller THEN identity ELSE KeysHeld(fetched)
       /\ req' = IF AuthEnabled /\ caller = NoCaller THEN NoReq
                 ELSE [NoReq EXCEPT !.pc = "decide", !.caller = caller, !.ask = ask, !.g = g,
                                    !.grant = grants[g], !.late = g \in expired]
  /\ UNCHANGED <<pvars, grants, expired, roles, changes, shown>>

\* The first decision, on everything the grant permits: 403, or the text (409
\* if there is none) and the types asked for.
Decide ==
  LET a == req.ask  permitted == PermittedTypes(req.grant)  text == texts[a.doc] IN
  /\ req.pc = "decide"
  /\ IF Authorize(req.grant, req.late, a.doc, permitted, req.caller) = {} \/ text = <<>>
     THEN req' = NoReq
     ELSE req' = [req EXCEPT !.pc = "narrow", !.text = text,
                             !.wants = IF a.types # {} THEN a.types ELSE permitted]
  /\ UNCHANGED <<pvars, avars, shown, requests>>

\* The second decision resolves the role again; then the credential.
Narrow ==
  LET a == req.ask
      gate == VcGate(Authorize(req.grant, req.late, a.doc, req.wants, req.caller), a.vc) IN
  /\ req.pc = "narrow"
  /\ req' = IF gate.ok THEN [req EXCEPT !.pc = "open", !.allowed = gate.types] ELSE NoReq
  /\ UNCHANGED <<pvars, avars, shown, requests>>

\* deanonymize: the record and the answer.
Open ==
  LET a == req.ask IN
  /\ req.pc = "open"
  /\ shown' = shown \cup {[doc |-> a.doc, vc |-> a.vc, source |-> req.text, could |-> could,
       answer |-> [i \in DOMAIN req.text |->
         LET s == req.text[i] IN
         IF s.kind = "token" /\ Opens(a.doc, req.allowed, s)
         THEN Value(mappings[s].plain) ELSE s]]}
  /\ req' = NoReq
  /\ UNCHANGED <<pvars, avars, requests>>

Pseudonymizing ==
  /\ PNext
  /\ (deletion.pc = "idle" /\ deletion'.pc = "commit") => \E c \in Deleters : MayDelete(c)
  /\ IF deletion.pc = "commit" /\ deletion'.pc = "idle"
     THEN DropGrantsOf(deletion.doc) /\ UNCHANGED <<expired, roles, identity, changes>>
     ELSE UNCHANGED avars
  /\ UNCHANGED <<req, shown, requests>>

Administering ==
  /\ \/ \E b \in GrantBodies : PostGrant(Admin, b)
     \/ \E g \in Grants : PostRevoke(Admin, g)
     \/ \E g \in Grants : Expire(g)
     \/ \E r \in Role, types \in RoleTypes : PostRole(Admin, r, types)
     \/ \E r \in Role, types \in RoleTypes : PutRoleTypes(Admin, r, types)
     \/ \E r \in Role : PostSwitch(Admin, r)
     \/ \E k \in Kid : RotateSigner(k)
     \/ KeysFallDue
  /\ UNCHANGED <<pvars, req, shown, requests>>

Next ==
  /\ \/ \E ask \in Asks, g \in Grants : Begin(ask, g)
     \/ Decide \/ Narrow \/ Open
     \/ Pseudonymizing
     \/ Administering
  /\ Notes

Spec == Init /\ [][Next]_vars

-----------------------------------------------------------------------------
\* A token registered for a document has a mapping to open it with, unless its
\* row was removed while a worker that had used it had not registered it yet,
\* and nobody made the row again since (deletion.py, pseudonym_registry.py).
ReferencedTokensResolve == \A r \in registry : r[2] \in DOMAIN mappings \cup raced

\* Whatever rotations, crashes and deletions did, a mapping names the key it
\* is sealed under, and the vault still has that key (mapping_store.reencrypt).
MappingsOpen ==
  \A p \in DOMAIN mappings : mappings[p].key = mappings[p].sealed /\ Resolves(mappings[p].key)

\* One value, one token: it has another one only after a rotation of its type.
\* Two that mint the first key at once agree on one (_mint_or_adopt_winner).
OneTokenPerRotation ==
  LET issued == {r[2] : r \in registry} \cup UNION {DOMAIN tx[w].puts : w \in Worker} IN
  \A v \in Spelling :
    Cardinality({p \in issued : p.what = <<TypeOf[v], NormOf[v]>>}) <= 1 + done.rotate

\* A reveal shows, at every place, what the source had there: the same value
\* up to its spelling, or its token, and never what a token that was already
\* in the source refers to.
RevealsWhatWasThere ==
  \A s \in shown : LET original == SourceText[s.doc] IN
    \A i \in DOMAIN s.answer : LET a == s.answer[i]  o == original[i] IN
      CASE a.kind = "value" -> o.kind = "value" /\ NormOf[a.what] = NormOf[o.what]
        [] a.kind = "token" -> o.kind = "value" /\ a.what = <<TypeOf[o.what], NormOf[o.what]>>
        [] a.kind = "defused" -> o.kind = "token"
        [] OTHER -> a = o

\* A reveal shows a type only if, since the request began, its grant stood for
\* this caller and document, and the grant, or the role it names, gave the type;
\* and the credential, if one was needed, agrees: what an administrator revoked
\* or switched off before the request is unseen (authorize, permitted_types).
RevealsWhatWasPermitted ==
  \A s \in shown : \A i \in DOMAIN s.answer :
    (s.answer[i].kind = "value" /\ s.source[i].kind = "token") =>
      /\ s.could.held /\ TypeOf[s.answer[i].what] \in s.could.types
      /\ VcKey # NoVcKey /\ s.vc.presented => TypeOf[s.answer[i].what] \in s.vc.types
=============================================================================
