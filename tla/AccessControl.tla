---------------------------- MODULE AccessControl ----------------------------
(***************************************************************************)
(* The policy-gated request path of SPIKE Nexus: the router (route.go),    *)
(* the guards of the delete-secret and list-policies routes, and the      *)
(* access decision CheckAccess (state/base/policy.go) they call.          *)
(*                                                                         *)
(* CheckAccess loops over ListPolicies(), whose order is that of a        *)
(* sync.Map Range and so unspecified; the loop is modelled per policy     *)
(* (Verdict) and over every order of the stored policies.  Patterns are   *)
(* either "*" or a regex made of literal symbols, and SPIFFE ids and      *)
(* paths are short sequences of symbols, so that regexp.MatchString,      *)
(* which finds its pattern anywhere in the string, is modelled by what it  *)
(* does.  The state is the set of stored policies, changed by             *)
(* CreatePolicy and DeletePolicy; the decisions are evaluated in every    *)
(* state, for every caller, path and requested permission.               *)
(***************************************************************************)
EXTENDS Naturals, FiniteSets, Sequences, SequencesExt

CONSTANTS
    Ids,          \* SPIFFE ids a caller can present
    Paths,        \* secret paths a request can name
    Literals,     \* patterns other than "*": regexes of literal symbols
    Wildcard,     \* the pattern "*"
    PilotIds,     \* ids auth.IsPilot accepts
    RecoverIds,   \* ids the PilotRecover role accepts
    ValidIds,     \* ids validation.ValidateSpiffeId accepts
    ValidPaths,   \* paths validation.ValidatePath accepts
    AclPath,      \* "spike/system/acl", the path of the policy list check
    MaxPolicies   \* bound on the number of stored policies

Perms == {"read", "write", "list", "super"}

Patterns == Literals \cup {Wildcard}

Policy == [idPattern : Patterns, pathPattern : Patterns, permissions : SUBSET Perms]

\* The permission sets the route guards ask for.
Wants == {{"read"}, {"write"}, {"list"}}

VARIABLES
    policies,   \* the policies in the sync.Map
    served      \* the last request a handler acted on: [handler, id], or NoRequest

vars == <<policies, served>>

NoRequest == [handler |-> "none", id |-> <<>>]

Handlers == {"RouteDeleteSecret", "RouteListPolicies", "RouteRestore", "RouteRecover"}

TypeOK ==
    /\ policies \subseteq Policy /\ Cardinality(policies) <= MaxPolicies
    /\ served \in [handler : Handlers, id : Ids] \cup {NoRequest}

Init == policies = {} /\ served = NoRequest

\* CreatePolicy, once its name is free and its patterns compile (every
\* literal pattern compiles).  Names and the interleaving of its steps
\* are the subject of PolicyStore.
CreatePolicy(p) ==
    /\ Cardinality(policies) < MaxPolicies
    /\ policies' = policies \cup {p}
    /\ UNCHANGED served

DeletePolicy(p) ==
    /\ p \in policies
    /\ policies' = policies \ {p}
    /\ UNCHANGED served

-----------------------------------------------------------------------------
(* The access decision.                                                    *)

\* regexp.MatchString of a literal pattern: the pattern occurs anywhere.
MatchString(pattern, s) == pattern \in SubSeqs(s)

\* hasAllPermissions: every wanted permission is listed.
HasAllPermissions(perms, wants) == wants \subseteq perms

\* One iteration of CheckAccess's loop: "grant" returns true, "next"
\* continues with the following policy; no iteration returns false.
Verdict(p, id, path, wants) ==
    IF p.idPattern = Wildcard /\ p.pathPattern = Wildcard
      THEN IF HasAllPermissions(p.permissions, wants) THEN "grant" ELSE "next"
    ELSE IF \/ p.idPattern # Wildcard /\ ~MatchString(p.idPattern, id)
            \/ p.pathPattern # Wildcard /\ ~MatchString(p.pathPattern, path)
      THEN "next"
    ELSE IF "super" \in p.permissions \/ HasAllPermissions(p.permissions, wants)
      THEN "grant"
    ELSE "next"

\* CheckAccess over the policies in the order `order` of ListPolicies: true
\* for a pilot, else when the loop reaches a policy whose verdict is "grant".
CheckAccessIn(id, path, wants, order) ==
    \/ id \in PilotIds
    \/ \E k \in 1..Len(order) : Verdict(order[k], id, path, wants) = "grant"

\* The orders in which ListPolicies may return the stored policies.
Orders == SetToSeqs(policies)

-----------------------------------------------------------------------------
(* The request path.                                                       *)

\* The handler Route selects for an action and a URL path (route.go).
Route(action, url) ==
    CASE action = "default"  /\ url = "secrets"  -> "RoutePutSecret"
      [] action = "get"      /\ url = "secrets"  -> "RouteGetSecret"
      [] action = "delete"   /\ url = "secrets"  -> "RouteDeleteSecret"
      [] action = "undelete" /\ url = "secrets"  -> "RouteUndeleteSecret"
      [] action = "list"     /\ url = "secrets"  -> "RouteListPaths"
      [] action = "default"  /\ url = "policy"   -> "RoutePutPolicy"
      [] action = "get"      /\ url = "policy"   -> "RouteGetPolicy"
      [] action = "delete"   /\ url = "policy"   -> "RouteDeletePolicy"
      [] action = "list"     /\ url = "policy"   -> "RouteListPolicies"
      [] action = "get"      /\ url = "metadata" -> "RouteGetSecretMetadata"
      [] action = "default"  /\ url = "restore"  -> "RouteRestore"
      [] action = "default"  /\ url = "recover"  -> "RouteRecover"
      [] OTHER -> "Fallback"

\* guardListPolicyRequest: each failed check responds 401 and returns.
GuardList(id, order) ==
    IF id \notin ValidIds THEN [status |-> {401}, proceed |-> FALSE]
    ELSE IF ~CheckAccessIn(id, AclPath, {"list"}, order)
      THEN [status |-> {401}, proceed |-> FALSE]
    ELSE [status |-> {}, proceed |-> TRUE]

\* guardDeleteSecretRequest: a failed ValidateSpiffeId responds 401 but
\* does not return, so the path and access checks still run.
GuardDelete(id, path, order) ==
    LET idStatus == IF id \in ValidIds THEN {} ELSE {401}
    IN IF path \notin ValidPaths THEN [status |-> idStatus \cup {400}, proceed |-> FALSE]
       ELSE IF ~CheckAccessIn(id, path, {"write"}, order)
         THEN [status |-> idStatus \cup {401}, proceed |-> FALSE]
       ELSE [status |-> idStatus, proceed |-> TRUE]

\* Whether the handler a request reaches goes on to act for caller `id`.
\* RouteRestore reads and applies the shard with no identity check;
\* RouteRecover calls guardRecoverRequest (the PilotRecover role, not
\* under src/); the other handlers are not modelled here.
HandlerProceeds(handler, id) ==
    CASE handler = "RouteRestore" -> TRUE
      [] handler = "RouteRecover" -> id \in RecoverIds
      [] OTHER -> FALSE

\* A request from `id` reaches a handler through Route and its guard; when
\* the handler goes on to act, it is recorded.  Rejected requests change
\* nothing.
Request(action, url, id, path) ==
    LET handler == Route(action, url)
        proceeds ==
          CASE handler = "RouteDeleteSecret" ->
                 \E o \in Orders : GuardDelete(id, path, o).proceed
            [] handler = "RouteListPolicies" ->
                 \E o \in Orders : GuardList(id, o).proceed
            [] OTHER -> HandlerProceeds(handler, id)
    IN /\ proceeds
       /\ served' = [handler |-> handler, id |-> id]
       /\ UNCHANGED policies

Next ==
    \/ \E p \in Policy : CreatePolicy(p)
    \/ \E p \in policies : DeletePolicy(p)
    \/ \E id \in Ids :
         \/ \E path \in Paths : Request("delete", "secrets", id, path)
         \/ Request("list", "policy", id, AclPath)
         \/ Request("default", "restore", id, AclPath)
         \/ Request("default", "recover", id, AclPath)

Spec == Init /\ [][Next]_vars

-----------------------------------------------------------------------------
(* Properties.                                                             *)

\* A full match of a pattern, as spec 4.2 fixes it ("anchored full-match").
FullMatch(pattern, s) == pattern = Wildcard \/ pattern = s

\* CheckAccess grants a non-pilot only what some policy grants under the
\* spec's anchored matching (spec 4.2): a pattern names whole ids and
\* paths, not any id or path containing it.
GrantsOnlyFullMatches ==
    \A id \in Ids \ PilotIds, path \in Paths, w \in Wants, o \in Orders :
        CheckAccessIn(id, path, w, o) =>
            \E p \in policies :
                /\ FullMatch(p.idPattern, id) /\ FullMatch(p.pathPattern, path)
                /\ "super" \in p.permissions \/ w \subseteq p.permissions

\* Neither guarded route (list policies, delete secret) acts on a request
\* with an invalid SPIFFE id (spec 4.1: the gate rejects identities failing
\* the validator).
GuardsRejectInvalidIds ==
    served.handler \in {"RouteDeleteSecret", "RouteListPolicies"} => served.id \in ValidIds
=============================================================================
