---------------------------- MODULE ScopesProofs ----------------------------
(***************************************************************************)
(* CheckScopes is right about every grant, whatever is requested: it       *)
(* passes exactly those that allow all the requested permissions allow.    *)
(***************************************************************************)
EXTENDS Scopes, TLAPS

\* A pattern that covers another matches every type the other matches.
LEMMA CoveringMatches ==
  ASSUME NEW a \in Pattern, NEW need \in Pattern, MimeCovers(a, need), NEW m, Matches(need, m)
  PROVE  Matches(a, m)
BY DEF MimeCovers, Matches, AnyType

\* A permission that is covered is allowed.
LEMMA CoveredIsAllowed ==
  ASSUME NEW p \in Permission, NEW have \in SUBSET Permission, Covered(p, have)
  PROVE  Allows(have, p)
<1>1. ASSUME NEW m \in MimeType, MayUpload(m, {p}) PROVE MayUpload(m, have)
  <2>1. PICK need \in p.accept : p.resource = "blob" /\ Matches(need, m)
    BY <1>1 DEF MayUpload
  <2>2. PICK g \in have : g.resource = "blob" /\ \E a \in g.accept : MimeCovers(a, need)
    BY <2>1 DEF Covered
  <2>3. PICK a \in g.accept : MimeCovers(a, need)
    BY <2>2
  <2>4. a \in Pattern /\ need \in Pattern
    BY <2>1, <2>2, <2>3 DEF Permission
  <2>5. Matches(a, m)
    BY <2>1, <2>3, <2>4, CoveringMatches
  <2> QED BY <2>2, <2>3, <2>5 DEF MayUpload
<1>2. ASSUME NEW c \in Collection, NEW act \in Action, MayWrite(c, act, {p})
      PROVE  MayWrite(c, act, have)
  <2>1. p.resource = "repo" /\ (c \in p.collection \/ "*" \in p.collection) /\ act \in RepoActions(p.action)
    BY <1>2 DEF MayWrite, RepoActions
  <2>2. PICK d \in p.collection : d = c \/ d = "*"
    BY <2>1
  <2>3. PICK g \in have : /\ g.resource = "repo" /\ (d \in g.collection \/ "*" \in g.collection)
                          /\ act \in RepoActions(g.action)
    BY <2>1, <2>2 DEF Covered
  <2> QED BY <2>2, <2>3 DEF MayWrite, RepoActions
<1>3. ASSUME p.resource = "other" PROVE Has(p.scope, have)
  BY <1>3 DEF Covered, Has
<1> QED BY <1>1, <1>2, <1>3 DEF Allows

\* Some type is matched by a pattern and by the patterns that cover it only.
LEMMA PatternsHaveWitnesses ==
  ASSUME NEW need \in Pattern
  PROVE  \E m \in MimeType : Matches(need, m) /\ \A a \in Pattern : Matches(a, m) => MimeCovers(a, need)
<1>0. Pattern \subseteq [type : MainType, subtype : Subtype \cup {"*"}] \cup {AnyType}
  BY ScopesAssumption
<1>1. CASE need = AnyType
  <2>1. PICK t \in MainType : \A p \in Pattern : p.type # t
    BY TypesAreOpen
  <2>2. PICK s \in Subtype : [type |-> t, subtype |-> s] \notin Pattern
    BY TypesAreOpen
  <2> DEFINE m == [type |-> t, subtype |-> s]
  <2>3. m \in MimeType /\ Matches(need, m)
    BY <1>1 DEF MimeType, Matches, AnyType
  <2>4. ASSUME NEW a \in Pattern, Matches(a, m) PROVE MimeCovers(a, need)
    <3>1. CASE a = AnyType
      BY <3>1 DEF MimeCovers
    <3>2. CASE a \in [type : MainType, subtype : Subtype \cup {"*"}]
      BY <2>1, <2>4, <3>2, ScopesAssumption DEF Matches
    <3> QED BY <1>0, <3>1, <3>2
  <2> QED BY <2>3, <2>4
<1>2. CASE need # AnyType /\ need.subtype = "*"
  <2>1. PICK s \in Subtype : [type |-> need.type, subtype |-> s] \notin Pattern
    BY <1>0, <1>2, TypesAreOpen
  <2> DEFINE m == [type |-> need.type, subtype |-> s]
  <2>2. m \in MimeType /\ Matches(need, m)
    BY <1>0, <1>2 DEF MimeType, Matches
  <2>3. ASSUME NEW a \in Pattern, Matches(a, m) PROVE MimeCovers(a, need)
    <3>1. CASE a = AnyType
      BY <3>1 DEF MimeCovers
    <3>2. CASE a \in [type : MainType, subtype : Subtype \cup {"*"}]
      <4>1. a.type = need.type
        BY <2>3, <3>2, ScopesAssumption DEF Matches
      <4>2. a.subtype = "*"
        <5>1. SUFFICES ASSUME a.subtype = s PROVE FALSE
          BY <2>3 DEF Matches
        <5>2. a = m
          BY <3>2, <4>1, <5>1
        <5> QED BY <2>1, <5>2
      <4> QED BY <4>1, <4>2 DEF MimeCovers
    <3> QED BY <1>0, <3>1, <3>2
  <2> QED BY <2>2, <2>3
<1>3. CASE need # AnyType /\ need.subtype # "*"
  <2>1. need \in MimeType /\ Matches(need, need)
    BY <1>0, <1>3 DEF MimeType, Matches
  <2>2. ASSUME NEW a \in Pattern, Matches(a, need) PROVE MimeCovers(a, need)
    <3>1. CASE a = AnyType
      BY <3>1 DEF MimeCovers
    <3>2. CASE a \in [type : MainType, subtype : Subtype \cup {"*"}]
      <4>1. a.type = need.type
        BY <2>2, <3>2, ScopesAssumption DEF Matches
      <4>2. CASE a.subtype = "*"
        BY <4>1, <4>2 DEF MimeCovers
      <4>3. CASE a.subtype = need.subtype
        <5>1. need \in [type : MainType, subtype : Subtype \cup {"*"}]
          BY <1>0, <1>3
        <5>2. a = need
          BY <3>2, <4>1, <4>3, <5>1
        <5> QED BY <5>2 DEF MimeCovers
      <4> QED BY <2>2, <4>2, <4>3 DEF Matches
    <3> QED BY <1>0, <3>1, <3>2
  <2> QED BY <2>1, <2>2
<1> QED BY <1>1, <1>2, <1>3

\* A permission that is allowed is covered, unless it names any collection,
\* as no requested one does.
LEMMA AllowedIsCovered ==
  ASSUME NEW p \in Permission, NEW have \in SUBSET Permission, "*" \notin p.collection, Allows(have, p)
  PROVE  Covered(p, have)
<1>1. CASE p.resource = "blob"
  <2>1. SUFFICES ASSUME NEW need \in p.accept
                 PROVE  \E g \in have : g.resource = "blob" /\ \E a \in g.accept : MimeCovers(a, need)
    BY <1>1 DEF Covered
  <2>2. need \in Pattern
    BY DEF Permission
  <2>3. PICK m \in MimeType : Matches(need, m) /\ \A a \in Pattern : Matches(a, m) => MimeCovers(a, need)
    BY <2>2, PatternsHaveWitnesses
  <2>4. MayUpload(m, have)
    BY <1>1, <2>3 DEF Allows, MayUpload
  <2>5. PICK g \in have : g.resource = "blob" /\ \E a \in g.accept : Matches(a, m)
    BY <2>4 DEF MayUpload
  <2>6. \A a \in g.accept : a \in Pattern
    BY <2>5 DEF Permission
  <2> QED BY <2>3, <2>5, <2>6
<1>2. CASE p.resource = "repo"
  <2>1. SUFFICES ASSUME NEW c \in p.collection, NEW act \in RepoActions(p.action)
                 PROVE  \E g \in have : /\ g.resource = "repo" /\ (c \in g.collection \/ "*" \in g.collection)
                                        /\ act \in RepoActions(g.action)
    BY <1>2 DEF Covered
  <2>2. c \in Collection /\ act \in Action
    BY DEF Permission, RepoActions
  <2>3. MayWrite(c, act, {p})
    BY <1>2 DEF MayWrite, RepoActions
  <2>4. MayWrite(c, act, have)
    BY <2>2, <2>3 DEF Allows
  <2> QED BY <2>2, <2>4 DEF MayWrite, RepoActions
<1>3. CASE p.resource = "other"
  BY <1>3 DEF Allows, Has, Covered
<1> QED BY <1>1, <1>2, <1>3 DEF Permission

\* The verdict is the check's, and the grant one the auth server could make.
Checked ==
  /\ granted \in [atproto : BOOLEAN, permissions : SUBSET Grantable]
  /\ verdict = "ok" => \A p \in Requested : Covered(p, granted.permissions)
  /\ verdict = "scope_denied" /\ granted.atproto => \E p \in Requested : ~Covered(p, granted.permissions)

\* It is so in every state.
LEMMA AlwaysChecked == Spec => []Checked
<1>1. Init => Checked
  BY DEF Init, Checked
<1>2. Checked /\ [Next]_vars => Checked'
  BY DEF Checked, Next, CheckScopes, vars
<1> QED BY <1>1, <1>2, PTL DEF Spec

\* Whatever is requested and in whatever form it is granted, a login that
\* passes CheckScopes has a session that may do all that was requested.
THEOREM GrantsSuffice == Spec => []GrantSuffices
<1>1. Checked => GrantSuffices
  BY CoveredIsAllowed, ScopesAssumption DEF Checked, GrantSuffices
<1> QED BY <1>1, AlwaysChecked, PTL

\* No login is refused for its scopes whose session may do all of that.
THEOREM NoGrantIsRefused == Spec => []NoGrantRefused
<1>1. Checked => NoGrantRefused
  BY AllowedIsCovered, ScopesAssumption DEF Checked, NoGrantRefused
<1> QED BY <1>1, AlwaysChecked, PTL
=============================================================================
