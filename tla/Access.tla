-------------------------------- MODULE Access --------------------------------
(***************************************************************************)
(* Who may reveal what: the grants of grants.py, the roles of roles.py,    *)
(* the caller of auth.py and access_identity.py, the credential of vc.py,  *)
(* and the grant and role endpoints of api.py.  Each administrative        *)
(* request is one transaction and one step.                                *)
(*                                                                         *)
(* Time is the set of grants that have expired.  A signature is the number *)
(* of the key that made it; a claim is what the credential says.           *)
(***************************************************************************)
EXTENDS Integers, FiniteSets

CONSTANTS Caller, NoCaller,   \* labels of keys and verified addresses
          Kid,                \* the keys the identity provider signs with
          Role, ADMIN, NoRole,
          PiiType, Document, AnyDocument,
          Domain, DomainOf,   \* the domain a document was registered under
          Issuers,            \* grant_issuer_labels
          AuthEnabled, AllowGlobal, VcKey, VcRequired, NoVcKey,
          MaxGrants, MaxChanges

ASSUME AccessAssumption ==
  /\ ADMIN \in Role /\ NoRole \notin Role /\ NoCaller \notin Caller
  /\ Issuers \subseteq Caller
  /\ AuthEnabled \in BOOLEAN /\ AllowGlobal \in BOOLEAN /\ VcRequired \in BOOLEAN
  /\ MaxGrants \in Nat /\ MaxChanges \in Nat

Grants == 1 .. MaxGrants

VARIABLES
  grants,    \* rows of grants, by number; a grant that is not issued has status "none"
  expired,   \* grants whose expires_at has passed
  roles,     \* rows of roles
  identity,  \* the keys the provider publishes, those held here, and whether they are due
  changes    \* bounds the administrative requests

avars == <<grants, expired, roles, identity, changes>>

NoGrant == [status |-> "none", recipient |-> NoCaller, types |-> {}, doc |-> AnyDocument,
            domain |-> "none", role |-> NoRole, expires |-> FALSE]
NoSuchRole == [exists |-> FALSE, types |-> {}, active |-> FALSE]

AInit ==
  /\ grants = [g \in Grants |-> NoGrant]
  /\ expired = {}
  \* the installation makes the administrator's role, with every type
  /\ roles = [r \in Role |-> IF r = ADMIN THEN [exists |-> TRUE, types |-> PiiType, active |-> TRUE]
                             ELSE NoSuchRole]
  /\ identity \in {[published |-> {k}, held |-> {}, due |-> TRUE] : k \in Kid}
  /\ changes = 0

-----------------------------------------------------------------------------
(* Decisions: functions of what was read. *)

\* roles.resolve: unknown or switched off gives nothing, and never a fallback.
ResolveRoleOff(r) == roles[r].types
ResolveRole(r) == IF roles[r].exists /\ roles[r].active THEN roles[r].types ELSE {}

\* permitted_types: from the role the grant names, as it is now, or its own.
PermittedTypes(grant) == IF grant.role # NoRole THEN ResolveRole(grant.role) ELSE grant.types

IsRecipient(caller, grant) == caller # NoCaller /\ caller = grant.recipient

InScope(grant, d) ==
  IF grant.doc = AnyDocument THEN AllowGlobal \/ grant.role = ADMIN ELSE grant.doc = d

\* authorize, for a grant read earlier and a time taken earlier.
Authorize(grant, isExpired, d, requested, caller) ==
  IF /\ grant.status = "active"
     /\ AuthEnabled => IsRecipient(caller, grant)
     /\ grant.domain = DomainOf[d]
     /\ ~isExpired
     /\ InScope(grant, d)
  THEN requested \cap PermittedTypes(grant) ELSE {}

\* caller_holds_role: the recipient of an active, unexpired grant that names it.
CallerHoldsRole(caller, r) ==
  /\ caller # NoCaller
  /\ \E g \in Grants : /\ grants[g].recipient = caller /\ grants[g].role = r
                       /\ grants[g].status = "active" /\ g \notin expired

MayIssue(caller)  == AuthEnabled => caller \in Issuers
MayDelete(caller) == AuthEnabled => caller \in Issuers \/ CallerHoldsRole(caller, ADMIN)

\* apply_vc_gate: a verified credential narrows what the grant allows.  A
\* presentation is its signature, the types it discloses, and whether they were
\* committed to when it was issued.
VcVerifies(vc) == vc.signedBy = VcKey /\ vc.committed /\ ~vc.expired /\ vc.issuedAsExpected
VcTypes(vc)    == IF VcVerifies(vc) THEN vc.types ELSE {}
VcGate(allowed, vc) ==
  CASE VcKey = NoVcKey -> [ok |-> TRUE, types |-> allowed]
    [] VcKey # NoVcKey /\ ~vc.presented -> [ok |-> ~VcRequired, types |-> allowed]
    [] OTHER -> [ok |-> VcVerifies(vc), types |-> allowed \cap VcTypes(vc)]

\* A fetch of the provider's keys that fails leaves what is held.
Fetch(held, fetched) == IF fetched THEN identity.published ELSE held
\* Identity.keys: what is held while it is not due, or what a fetch brings.
KeysHeld(fetched) ==
  IF ~identity.due /\ identity.held # {} THEN identity
  ELSE [identity EXCEPT !.held = Fetch(@, fetched), !.due = FALSE]

\* The audience and the issuer this deployment expects.
MeantForUs(a) == a.audience = "ours" /\ a.issuer = "ours"
\* email_from: every check is a refusal.
AssertionNames(a, known) ==
  IF a.alg = "RS256" /\ a.kid \in known /\ a.signed /\ MeantForUs(a) /\ ~a.expired
  THEN a.email ELSE NoCaller

\* ApiKeyAuthMiddleware: a key that was sent beats an assertion.
CallerOf(label, assertion, known) ==
  IF label # NoCaller THEN label ELSE AssertionNames(assertion, known)

-----------------------------------------------------------------------------
(* What grants.py and roles.py do to the rows. *)

NewGrant(b) ==
  [status |-> "active", recipient |-> b.recipient, types |-> b.types, doc |-> b.doc,
   domain |-> "default", role |-> b.role, expires |-> b.expires]

NextGrant == {g \in Grants : grants[g].status = "none" /\ \A h \in 1 .. g - 1 : grants[h].status # "none"}
IssueGrant(b) ==
  /\ \E g \in NextGrant : grants' = [grants EXCEPT ![g] = NewGrant(b)]
  /\ UNCHANGED roles

\* A second time changes nothing.
RevokeGrant(g) == grants' = [grants EXCEPT ![g].status = "revoked"] /\ UNCHANGED roles

Create(r, types) ==
  /\ ~roles[r].exists
  /\ roles' = [roles EXCEPT ![r] = [exists |-> TRUE, types |-> types, active |-> TRUE]]
  /\ UNCHANGED grants

SetTypes(r, types) ==
  /\ roles[r].exists
  /\ roles' = [roles EXCEPT ![r].types = types]
  /\ UNCHANGED grants

Deactivate(r) ==
  /\ roles[r].exists
  /\ roles' = [roles EXCEPT ![r].active = FALSE]
  /\ UNCHANGED grants

Activate(r) ==
  /\ roles[r].exists
  /\ roles' = [roles EXCEPT ![r].active = TRUE]
  /\ UNCHANGED grants

-----------------------------------------------------------------------------
(* The administrators' endpoints: who may, what is refused, and one commit. *)

Request == changes < MaxChanges /\ changes' = changes + 1 /\ UNCHANGED <<expired, identity>>

\* An unscoped grant only where that is allowed, or for the administrator's
\* role; a role that exists; either types or a role.
PostGrant(caller, b) ==
  /\ Request
  /\ MayIssue(caller)
  /\ b.doc = AnyDocument => AllowGlobal \/ b.role = ADMIN
  /\ b.role # NoRole => roles[b.role].exists
  /\ (b.role = NoRole) = (b.types # {})
  /\ IssueGrant(b)

PostRevoke(caller, g) ==
  /\ Request
  /\ MayIssue(caller)
  /\ grants[g].status # "none"
  /\ RevokeGrant(g)

PostRole(caller, r, types)     == Request /\ MayIssue(caller) /\ Create(r, types)
PutRoleTypes(caller, r, types) == Request /\ MayIssue(caller) /\ SetTypes(r, types)
PostSwitch(caller, r)          == Request /\ MayIssue(caller) /\ (Deactivate(r) \/ Activate(r))

Expire(g) ==
  /\ grants[g].status # "none" /\ grants[g].expires /\ g \notin expired
  /\ expired' = expired \cup {g}
  /\ UNCHANGED <<grants, roles, identity, changes>>

\* The provider signs with another key, and the time to fetch comes.
RotateSigner(k) ==
  /\ changes < MaxChanges /\ changes' = changes + 1
  /\ k \notin identity.published
  /\ identity' = [identity EXCEPT !.published = {k}]
  /\ UNCHANGED <<grants, expired, roles>>

KeysFallDue ==
  /\ ~identity.due /\ identity.held # identity.published
  /\ identity' = [identity EXCEPT !.due = TRUE]
  /\ UNCHANGED <<grants, expired, roles, changes>>

\* What a document's deletion does to its grants.
DropGrantsOf(d) == grants' = [g \in Grants |-> IF grants[g].doc = d THEN NoGrant ELSE grants[g]]
=============================================================================
