------------------------------- MODULE Scopes -------------------------------
(***************************************************************************)
(* CheckScopes: whether the permissions an auth server granted cover those *)
(* every login requests.  The grant may come in another form than the      *)
(* request, so what the permissions allow is compared, not their strings.  *)
(***************************************************************************)
CONSTANTS
  MainType, Subtype,   \* the halves of MIME types
  Pattern,             \* the MIME patterns that scopes name
  Collection,          \* the collections of records
  Other,               \* the permissions for neither blobs nor records, by scope string
  Grantable,           \* the permissions an auth server may grant
  Requested            \* the permissions each login requests

MimeType == [type : MainType, subtype : Subtype]
AnyType  == [type |-> "*", subtype |-> "*"]
Action   == {"create", "update", "delete"}

\* What a permission has no use for is empty.
Permission ==
  [resource : {"blob", "repo", "other"}, accept : SUBSET Pattern,
   collection : SUBSET (Collection \cup {"*"}), action : SUBSET Action, scope : Other \cup {""}]

ASSUME ScopesAssumption ==
  /\ "*" \notin MainType \cup Subtype \cup Collection
  /\ Pattern \subseteq [type : MainType, subtype : Subtype \cup {"*"}] \cup {AnyType}
  /\ Grantable \subseteq Permission /\ Requested \subseteq Permission
  /\ \A p \in Requested : "*" \notin p.collection

\* There are more types, and more subtypes of each, than scopes ever name.
ASSUME TypesAreOpen ==
  /\ \E t \in MainType : \A p \in Pattern : p.type # t
  /\ \A t \in MainType : \E s \in Subtype : [type |-> t, subtype |-> s] \notin Pattern

VARIABLES granted, verdict
vars == <<granted, verdict>>

----------------------------------------------------------------------------
(* The check *)

\* mistake: a type covers every pattern of that type
MimeCovers_TypeOnly(have, need) == have = AnyType \/ have.type = need.type
\* mistake: patterns are compared as strings
MimeCovers_Exact(have, need) == have = need
MimeCovers(have, need) ==
  \/ have = AnyType
  \/ have.subtype = "*" /\ have.type = need.type
  \/ have = need

RepoActions(actions) == IF actions = {} THEN Action ELSE actions

Covered(p, have) ==
  \/ /\ p.resource = "blob"
     /\ \A need \in p.accept : \E g \in have :
          g.resource = "blob" /\ \E a \in g.accept : MimeCovers(a, need)
  \/ /\ p.resource = "repo"
     /\ \A c \in p.collection, act \in RepoActions(p.action) : \E g \in have :
          g.resource = "repo" /\ (c \in g.collection \/ "*" \in g.collection) /\ act \in RepoActions(g.action)
  \/ /\ p.resource = "other"
     /\ \E g \in have : g.resource = "other" /\ g.scope = p.scope

\* Without the scope "atproto" a grant does not parse.
CheckScopes ==
  /\ verdict = ""
  /\ verdict' = IF granted.atproto /\ \A p \in Requested : Covered(p, granted.permissions)
                THEN "ok" ELSE "scope_denied"
  /\ UNCHANGED granted
----------------------------------------------------------------------------
(* What a permission allows, which is what the PDS enforces *)

Matches(pattern, m) ==
  (pattern.type = "*" \/ pattern.type = m.type) /\ (pattern.subtype = "*" \/ pattern.subtype = m.subtype)

MayUpload(m, have) ==
  \E g \in have : g.resource = "blob" /\ \E a \in g.accept : Matches(a, m)

MayWrite(c, act, have) ==
  \E g \in have : /\ g.resource = "repo"
                  /\ c \in g.collection \/ "*" \in g.collection
                  /\ g.action = {} \/ act \in g.action

Has(scope, have) == \E g \in have : g.resource = "other" /\ g.scope = scope

\* A set of permissions allows whatever a permission does.
Allows(have, p) ==
  /\ \A m \in MimeType : MayUpload(m, {p}) => MayUpload(m, have)
  /\ \A c \in Collection, act \in Action : MayWrite(c, act, {p}) => MayWrite(c, act, have)
  /\ p.resource = "other" => Has(p.scope, have)
----------------------------------------------------------------------------
\* A login that passes can do everything the app will ever ask of its session.
GrantSuffices ==
  verdict = "ok" => \A p \in Requested : Allows(granted.permissions, p)

\* And none is refused that could, in whatever form the grant came.
NoGrantRefused ==
  verdict = "scope_denied" /\ granted.atproto
    => \E p \in Requested : ~Allows(granted.permissions, p)

Init ==
  /\ granted \in [atproto : BOOLEAN, permissions : SUBSET Grantable]
  /\ verdict = ""

Next == CheckScopes
Spec == Init /\ [][Next]_vars
=============================================================================
