-------------------------- MODULE LoginFlowProofs --------------------------
(***************************************************************************)
(* What holds of one login flow: whose its sessions are, and, where an     *)
(* auth server issues one code per pushed request, that a flow has one     *)
(* login and one session, which lasts until someone logs out of it: there  *)
(* Login implements FlowLifecycle, what Web takes the login service to be. *)
(***************************************************************************)
EXTENDS LoginProofs, LoginRefinement

USE DEF storeVars, netVars, startVars, finishVars, logoutVars, memVars, GetOAuthAuthRequest, GetOAuthSession,
        PushRequest

----------------------------------------------------------------------------
(* Codes and tokens *)

\* The tokens of a flow's n-th code: the code has been exchanged, and they are a's.
TokensFor(f, n, a) ==
  /\ f \in Started /\ account[f] = a
  /\ n \in 1..issued[f]
  /\ \A k \in codes : k.flow = f => k.n # n
  /\ \A t \in tokens : t.flow = f /\ t.n = n => t.subject = a

\* Codes are numbered as they are issued, and a code that has been exchanged
\* is no longer there.
CodeInv ==
  /\ \A k \in codes : k.n \in 1..issued[k.flow] /\ k.flow \in Started
  /\ \A j, k \in codes : j.flow = k.flow /\ j.n = k.n => j = k
  /\ \A t \in tokens : t.n \in 1..issued[t.flow] /\ \A k \in codes : k.flow = t.flow => k.n # t.n
  /\ \A r \in authRequests : r.did = account[r.state] /\ r.state \in Started
  /\ \A f \in Flow : issued[f] > 0 => f \in Started

\* Presenting a code uses it up, and yields no tokens but its own.
Presented(k) ==
  /\ codes' = codes \ {k}
  /\ tokens' \subseteq tokens \cup {[flow |-> k.flow, n |-> k.n, subject |-> k.subject]}
  /\ UNCHANGED issued

\* What a step can do to the auth servers' state.
LEMMA NetStep ==
  ASSUME [Next]_vars
  PROVE  \/ UNCHANGED <<codes, issued>> /\ tokens' \subseteq tokens
         \/ \E f \in Flow : Authorize(f)
         \/ \E c \in Finish : ExchangeToken(c) /\ \E k \in MyCode(c) : Presented(k)
<1>1. CASE \E c \in Finish : FinishNext(c)
  <2>1. PICK c \in Finish : FinishNext(c)
    BY <1>1
  <2>2. CASE ExchangeToken(c)
    BY <2>2 DEF ExchangeToken, UseCode, IssueTokens, Presented
  <2> QED BY <2>1, <2>2 DEF FinishNext, LoadAuthRequest, DeleteAuthRequest, SaveSession, ClearAuthRequest,
     InsertUserIfMissing, SelectUser, ResumeSession, GetRecord, PutRecordIfMissing, DeleteFailedSession
<1>2. CASE \E f \in Flow : StartNext(f) \/ \E a \in Account : StartLogin(f, a)
  BY <1>2 DEF StartNext, ResolveIdentity, PushAuthRequest, SaveAuthRequest, StartLogin
<1>3. CASE \E l \in Logout : LogoutNext(l) \/ \E c \in Finish : LogOut(l, c)
  BY <1>3 DEF LogoutNext, ResumeToRevoke, Revoke, DeleteLoggedOut, LogOut, RevokeTokens
<1>4. CASE \/ \E a \in Account : EditProfileElsewhere(a)
           \/ \E u \in users : SetUserActive(u)
           \/ \E j \in Call : Expire(j)
           \/ \E c \in Finish : \E state, callback : FinishLogin(c, state, callback)
           \/ Crash
           \/ UNCHANGED vars
  BY <1>4 DEF EditProfileElsewhere, SetUserActive, Expire, FinishLogin, Crash, vars
<1> QED BY <1>1, <1>2, <1>3, <1>4 DEF Next

\* A StartLogin that has returned stays so, and with it its flow's account.
LEMMA StartedStays ==
  ASSUME TypeInv, [Next]_vars, NEW f \in Started
  PROVE  f \in Started' /\ account'[f] = account[f]
<1>1. start[f] = "started" /\ f \in Flow
  BY DEF Started
<1>2. CASE UNCHANGED startVars
  BY <1>2 DEF Started
<1>3. CASE \E g \in Flow : StartNext(g) \/ \E a \in Account : StartLogin(g, a)
  BY <1>1, <1>3 DEF StartNext, ResolveIdentity, PushAuthRequest, SaveAuthRequest, StartLogin, StartStep,
     Started, TypeInv, TypeOK, StartTypeOK
<1>4. CASE Crash
  BY <1>1, <1>4 DEF Crash, StartRunning, Started
<1>5. ASSUME \E c \in Finish : FinishNext(c) PROVE UNCHANGED startVars
  BY <1>5, FinishFrame
<1>6. CASE \/ \E l \in Logout : LogoutNext(l) \/ \E c \in Finish : LogOut(l, c)
           \/ \E g \in Flow : Authorize(g)
           \/ \E a \in Account : EditProfileElsewhere(a)
           \/ \E u \in users : SetUserActive(u)
           \/ \E j \in Call : Expire(j)
           \/ \E c \in Finish : \E state, callback : FinishLogin(c, state, callback)
           \/ UNCHANGED vars
  BY <1>2, <1>6 DEF LogoutNext, ResumeToRevoke, Revoke, DeleteLoggedOut, LogOut, LogoutStep, Authorize, Others,
     EditProfileElsewhere, SetUserActive, Expire, FinishLogin, FinishStep, vars
<1> QED BY <1>2, <1>3, <1>4, <1>5, <1>6 DEF Next

\* A consent is numbered after all codes of its flow.
LEMMA AuthorizeStep ==
  ASSUME TypeInv, NEW f \in Flow, Authorize(f)
  PROVE  /\ f \in Started /\ issued[f] \in Nat /\ issued[f] < MaxCodes
         /\ issued' = [issued EXCEPT ![f] = issued[f] + 1]
         /\ issued \in [Flow -> 0..MaxCodes]
         /\ UNCHANGED tokens
         /\ \E new : codes' = codes \cup {new} /\ new.flow = f /\ new.n = issued[f] + 1
<1>1. issued \in [Flow -> 0..MaxCodes] /\ MaxCodes \in Nat
  BY CodeNumbers DEF TypeInv, TypeOK, NetTypeOK
<1>2. issued[f] \in Nat
  BY <1>1
<1>3. PICK subject \in Account, all \in BOOLEAN : IssueCode(f, subject, all)
  BY DEF Authorize
<1> DEFINE new == [flow |-> f, n |-> issued[f] + 1, subject |-> subject, full |-> all]
<1>4. codes' = codes \cup {new} /\ new.flow = f /\ new.n = issued[f] + 1
  BY <1>3, Zenon DEF IssueCode
<1> HIDE DEF new
<1>5. \E n : codes' = codes \cup {n} /\ n.flow = f /\ n.n = issued[f] + 1
  BY ONLY <1>4
<1> QED BY <1>1, <1>2, <1>3, <1>5 DEF Authorize, IssueCode, Started

\* Nothing takes an account's tokens for another's.
LEMMA TokensStay ==
  ASSUME TypeInv, CodeInv, [Next]_vars, NEW f, NEW n, NEW a, TokensFor(f, n, a)
  PROVE  TokensFor(f, n, a)'
<1>1. f \in Started' /\ account'[f] = a /\ f \in Flow
  BY StartedStays DEF TokensFor, Started
<1>2. CASE UNCHANGED <<codes, issued>> /\ tokens' \subseteq tokens
  BY <1>1, <1>2 DEF TokensFor
<1>3. CASE \E g \in Flow : Authorize(g)
  <2>1. PICK g \in Flow : Authorize(g)
    BY <1>3
  <2>2. PICK new : codes' = codes \cup {new} /\ new.flow = g /\ new.n = issued[g] + 1
    BY <2>1, AuthorizeStep
  <2>3. issued[f] \in Nat /\ issued[g] \in Nat /\ (issued'[f] = issued[f] \/ issued'[f] = issued[f] + 1)
    BY <1>1, <2>1, AuthorizeStep
  <2>4. n \in 1..issued'[f]
    BY <2>3 DEF TokensFor
  <2>5. new.flow = f => new.n # n
    BY <2>2, <2>3 DEF TokensFor
  <2> QED BY <1>1, <2>1, <2>2, <2>4, <2>5, AuthorizeStep DEF TokensFor
<1>4. CASE \E k \in codes : Presented(k)
  <2>1. PICK k \in codes : Presented(k)
    BY <1>4
  <2>2. k.flow = f => k.n # n
    BY DEF TokensFor
  <2>3. \A t \in tokens' : t.flow = f /\ t.n = n => t \in tokens
    BY <2>1, <2>2 DEF Presented
  <2> QED BY <1>1, <2>1, <2>3 DEF TokensFor, Presented
<1> QED BY <1>2, <1>3, <1>4, NetStep DEF MyCode

\* Codes, tokens and auth requests.
LEMMA NextCodeInv == TypeInv /\ CodeInv /\ [Next]_vars => CodeInv'
<1> SUFFICES ASSUME TypeInv, CodeInv, [Next]_vars PROVE CodeInv'
  OBVIOUS
<1>1. (\A r \in authRequests : r.did = account[r.state] /\ r.state \in Started)'
  <2>1. ASSUME authRequests' \subseteq authRequests
        PROVE  (\A r \in authRequests : r.did = account[r.state] /\ r.state \in Started)'
    BY <2>1, StartedStays DEF CodeInv
  <2>2. CASE \E f \in Flow : SaveAuthRequest(f)
    <3>1. PICK f \in Flow : SaveAuthRequest(f)
      BY <2>2
    <3> DEFINE row == [state |-> f, did |-> account[f], issuer |-> AuthServerOf[account[f]]]
    <3>2. /\ \/ authRequests' = authRequests
             \/ authRequests' = authRequests \cup {row} /\ f \in Started'
          /\ account' = account
          /\ row.state = f /\ row.did = account[f]
      BY <3>1 DEF SaveAuthRequest, SaveOAuthAuthRequest, StartStep, Started, TypeInv, TypeOK, StartTypeOK
    <3> HIDE DEF row
    <3> QED BY <2>1, <3>2, StartedStays DEF CodeInv
  <2>3. CASE \E c \in Finish : FinishNext(c)
    BY <2>1, <2>3 DEF FinishNext, LoadAuthRequest, DeleteAuthRequest, ExchangeToken, SaveSession, ClearAuthRequest,
       InsertUserIfMissing, SelectUser, ResumeSession, GetRecord, PutRecordIfMissing, DeleteFailedSession,
       DeleteOAuthAuthRequest
  <2>4. CASE \/ \E f \in Flow : \/ ResolveIdentity(f) \/ PushAuthRequest(f) \/ Authorize(f)
                                \/ \E a \in Account : StartLogin(f, a)
             \/ \E l \in Logout : LogoutNext(l) \/ \E c \in Finish : LogOut(l, c)
             \/ \E a \in Account : EditProfileElsewhere(a)
             \/ \E u \in users : SetUserActive(u)
             \/ \E j \in Call : Expire(j)
             \/ \E c \in Finish : \E state, callback : FinishLogin(c, state, callback)
             \/ Crash
             \/ UNCHANGED vars
    BY <2>1, <2>4 DEF ResolveIdentity, PushAuthRequest, Authorize, StartLogin, LogoutNext, ResumeToRevoke, Revoke,
       DeleteLoggedOut, LogOut, EditProfileElsewhere, SetUserActive, Expire, FinishLogin, Crash, vars
  <2> QED BY <2>2, <2>3, <2>4 DEF Next, StartNext
<1>2. codes \subseteq Code /\ tokens \subseteq Token /\ issued \in [Flow -> 0..MaxCodes] /\ MaxCodes \in Nat
  BY CodeNumbers DEF TypeInv, TypeOK, NetTypeOK
<1>3. \A k \in codes : k.flow \in Flow /\ k.flow \in Started'
  BY <1>2, StartedStays DEF Code, CodeInv
<1>4. \A t \in tokens : t.flow \in Flow
  BY <1>2 DEF Token
<1>5. CASE UNCHANGED <<codes, issued>> /\ tokens' \subseteq tokens
  BY <1>1, <1>3, <1>5, StartedStays DEF CodeInv
<1>6. CASE \E f \in Flow : Authorize(f)
  <2>1. PICK f \in Flow : Authorize(f)
    BY <1>6
  <2>2. PICK new : codes' = codes \cup {new} /\ new.flow = f /\ new.n = issued[f] + 1
    BY <2>1, AuthorizeStep
  <2>3. /\ issued'[f] = issued[f] + 1 /\ f \in Started'
        /\ \A g \in Flow : issued[g] \in Nat /\ (g # f => issued'[g] = issued[g])
        /\ tokens' = tokens
    BY <1>2, <2>1, AuthorizeStep, StartedStays
  <2>4. (\A k \in codes : k.n \in 1..issued[k.flow] /\ k.flow \in Started)'
    <3>1. \A g \in Flow : \A i \in 1..issued[g] : i \in 1..issued'[g]
      BY <2>3
    <3>2. new.n \in 1..issued'[f]
      BY <2>2, <2>3
    <3> QED BY <1>3, <2>2, <2>3, <3>1, <3>2 DEF CodeInv
  <2>5. \A k \in codes : k.flow = f => k.n # new.n
    BY <1>3, <2>2, <2>3 DEF CodeInv
  <2>6. \A t \in tokens : t.n \in 1..issued'[t.flow] /\ (t.flow = f => t.n # new.n)
    BY <1>4, <2>2, <2>3 DEF CodeInv
  <2>7. (\A j, k \in codes : j.flow = k.flow /\ j.n = k.n => j = k)'
    BY <2>2, <2>5 DEF CodeInv
  <2>8. (\A t \in tokens : t.n \in 1..issued[t.flow] /\ \A k \in codes : k.flow = t.flow => k.n # t.n)'
    BY <2>2, <2>3, <2>6 DEF CodeInv
  <2>9. \A g \in Flow : issued'[g] > 0 => g \in Started'
    BY <2>3, StartedStays DEF CodeInv
  <2> QED BY <1>1, <2>4, <2>7, <2>8, <2>9 DEF CodeInv
<1>7. CASE \E k \in codes : Presented(k)
  <2>1. PICK k \in codes : Presented(k)
    BY <1>7
  <2>2. \A t \in tokens' : t \in tokens \/ (t.flow = k.flow /\ t.n = k.n)
    BY <2>1 DEF Presented
  <2>3. \A j \in codes' : j \in codes /\ (j.flow = k.flow => j.n # k.n)
    BY <2>1 DEF Presented, CodeInv
  <2>4. \A t \in tokens' : t.n \in 1..issued[t.flow] /\ \A j \in codes' : j.flow = t.flow => j.n # t.n
    BY <2>2, <2>3 DEF CodeInv
  <2> QED BY <1>1, <1>3, <2>1, <2>3, <2>4, StartedStays DEF CodeInv, Presented
<1> QED BY <1>5, <1>6, <1>7, NetStep DEF MyCode

----------------------------------------------------------------------------
(* A session is for the account its flow was started for *)

\* A FinishLogin that holds tokens.
Holds(c) == pc[c] = "save" \/ HasSaved(c)

\* The tokens in the database and in a call's memory are the flow's account's.
OwnInv ==
  /\ \A s \in sessions : TokensFor(s.id, s.token, s.did)
  /\ \A c \in Finish : Holds(c) => TokensFor(FlowOf(c), held[c], did[c])

\* Tokens are taken from the auth server only for the account the flow is for.
LEMMA ExchangedTokens ==
  ASSUME TypeInv, CodeInv, [Next]_vars, NEW c \in Finish, ExchangeToken(c), pc'[c] = "save"
  PROVE  TokensFor(FlowOf(c), held[c], did[c])'
<1>1. PICK k \in MyCode(c), r \in authRequests :
             /\ r.state = FlowOf(c) /\ k.subject = r.did
             /\ did'[c] = k.subject /\ held'[c] = k.n /\ Presented(k)
  BY DEF ExchangeToken, SubjectMatches, Proceed, Conclude, FinishStep, UseCode, IssueTokens, Presented,
     TypeInv, TypeOK, FinishTypeOK
<1>2. k \in codes /\ k.flow = FlowOf(c) /\ FlowOf(c)' = FlowOf(c)
  BY DEF MyCode, FlowOf, ExchangeToken, Proceed, Conclude
<1>3. k.n \in 1..issued'[k.flow] /\ k.flow \in Started' /\ account'[k.flow] = k.subject
  BY <1>1, <1>2, StartedStays DEF CodeInv, Presented
<1>4. \A j \in codes' : j.flow = k.flow => j.n # k.n
  BY <1>1, <1>2 DEF Presented, CodeInv
<1>5. \A t \in tokens' : t.flow = k.flow /\ t.n = k.n => t.subject = k.subject
  <2> DEFINE mine == [flow |-> k.flow, n |-> k.n, subject |-> k.subject]
  <2>1. mine.subject = k.subject
    OBVIOUS
  <2>2. tokens' \subseteq tokens \cup {mine}
    BY <1>1 DEF Presented
  <2> HIDE DEF mine
  <2> QED BY <1>2, <2>1, <2>2 DEF CodeInv
<1> QED BY <1>1, <1>2, <1>3, <1>4, <1>5 DEF TokensFor

\* What a FinishLogin saves, and what it then reads back.
LEMMA FinishOwnInv ==
  ASSUME TypeInv, CodeInv, OwnInv, NEW c \in Finish, FinishNext(c)
  PROVE  OwnInv'
<1>0. [Next]_vars
  BY DEF Next
<1>1. UNCHANGED input /\ Untouched(c)
  BY FinishFrame
<1>2. \A f, n, a : TokensFor(f, n, a) => TokensFor(f, n, a)'
  BY <1>0, TokensStay
<1>3. \A d \in Finish : d # c /\ Holds(d)' => TokensFor(FlowOf(d), held[d], did[d])'
  BY <1>1, <1>2 DEF OwnInv, Untouched, Holds, HasSaved, FlowOf
<1> DEFINE mine == MySession(c)
<1>4. mine.id = FlowOf(c) /\ mine.token = held[c] /\ mine.did = did[c]
  BY DEF MySession
<1>5. sessions' \subseteq sessions \/ (Holds(c) /\ sessions' \subseteq sessions \cup {mine})
  BY DEF FinishNext, FinishStep, Proceed, Conclude, LoadAuthRequest, DeleteAuthRequest, ExchangeToken,
         SaveSession, ClearAuthRequest, InsertUserIfMissing, SelectUser, ResumeSession, GetRecord,
         PutRecordIfMissing, DeleteFailedSession, DeleteOAuthSession, PersistRefresh, SaveOAuthSession,
         Holds, HasSaved
<1> HIDE DEF mine
<1>6. (\A s \in sessions : TokensFor(s.id, s.token, s.did))'
  <2>1. \A s \in sessions' : TokensFor(s.id, s.token, s.did)
    BY <1>4, <1>5 DEF OwnInv
  <2> QED BY <1>2, <2>1
<1>7. Holds(c)' => TokensFor(FlowOf(c), held[c], did[c])'
  <2>1. CASE ExchangeToken(c)
    <3>1. Holds(c)' => pc'[c] = "save"
      BY <2>1 DEF ExchangeToken, Proceed, Conclude, FinishStep, Holds, HasSaved, TypeInv, TypeOK, FinishTypeOK
    <3> QED BY <1>0, <2>1, <3>1, ExchangedTokens
  <2>2. CASE ResumeSession(c) /\ held'[c] # held[c]
    <3>1. PICK s \in sessions : s.did = did[c] /\ s.id = FlowOf(c) /\ held'[c] = s.token /\ did'[c] = did[c]
      BY <2>2 DEF ResumeSession, Proceed, Conclude, TypeInv, TypeOK, FinishTypeOK
    <3> QED BY <1>1, <1>2, <3>1 DEF OwnInv, FlowOf
  <2>3. CASE ~ExchangeToken(c) /\ held'[c] = held[c]
    <3>1. did'[c] = did[c] /\ (Holds(c)' => Holds(c))
      BY <2>3 DEF FinishNext, FinishStep, Proceed, Conclude, LoadAuthRequest, DeleteAuthRequest,
         SaveSession, ClearAuthRequest, InsertUserIfMissing, SelectUser, ResumeSession, GetRecord,
         PutRecordIfMissing, DeleteFailedSession, Holds, HasSaved, TypeInv, TypeOK, FinishTypeOK
    <3> QED BY <1>1, <1>2, <2>3, <3>1 DEF OwnInv, FlowOf
  <2> QED BY <2>1, <2>2, <2>3 DEF FinishNext, FinishStep, Proceed, Conclude, LoadAuthRequest, DeleteAuthRequest,
         SaveSession, ClearAuthRequest, InsertUserIfMissing, SelectUser, GetRecord, PutRecordIfMissing,
         DeleteFailedSession
<1> QED BY <1>3, <1>6, <1>7 DEF OwnInv

\* Every step.
LEMMA NextOwnInv == TypeInv /\ CodeInv /\ OwnInv /\ [Next]_vars => OwnInv'
<1> SUFFICES ASSUME TypeInv, CodeInv, OwnInv, [Next]_vars PROVE OwnInv'
  OBVIOUS
<1>1. \A f, n, a : TokensFor(f, n, a) => TokensFor(f, n, a)'
  BY TokensStay
<1>2. ASSUME sessions' \subseteq sessions, UNCHANGED finishVars PROVE OwnInv'
  BY <1>1, <1>2 DEF OwnInv, Holds, HasSaved, FlowOf
<1>3. CASE \E c \in Finish : FinishNext(c)
  BY <1>3, FinishOwnInv
<1>4. CASE \E c \in Finish : \E state, callback : FinishLogin(c, state, callback)
  <2>1. PICK c \in Finish : \E state, callback : FinishLogin(c, state, callback)
    BY <1>4
  <2>2. \A d \in Finish : Holds(d)' => Holds(d) /\ FlowOf(d)' = FlowOf(d)
    BY <2>1 DEF FinishLogin, FinishStep, Holds, HasSaved, FlowOf, TypeInv, TypeOK, FinishTypeOK
  <2>3. UNCHANGED <<sessions, held, did>>
    BY <2>1 DEF FinishLogin
  <2> QED BY <1>1, <2>2, <2>3 DEF OwnInv
<1>5. CASE Crash
  <2>1. \A c \in Finish : pc'[c] = IF FinishRunning(c) THEN "crashed" ELSE pc[c]
    BY <1>5 DEF Crash
  <2>2. \A d \in Finish : Holds(d)' => Holds(d) /\ FlowOf(d)' = FlowOf(d)
    BY <1>5, <2>1 DEF Crash, Holds, HasSaved, FlowOf
  <2>3. UNCHANGED <<sessions, held, did>>
    BY <1>5 DEF Crash
  <2> QED BY <1>1, <2>2, <2>3 DEF OwnInv
<1>6. CASE \E f \in Flow : StartNext(f) \/ Authorize(f) \/ \E a \in Account : StartLogin(f, a)
  BY <1>2, <1>6 DEF StartNext, ResolveIdentity, PushAuthRequest, SaveAuthRequest, Authorize, StartLogin,
     StartStep, Others
<1>7. CASE \E l \in Logout : LogoutNext(l) \/ \E c \in Finish : LogOut(l, c)
  BY <1>2, <1>7 DEF LogoutNext, ResumeToRevoke, Revoke, DeleteLoggedOut, LogOut, LogoutStep,
     DeleteOAuthSession
<1>8. CASE \/ \E a \in Account : EditProfileElsewhere(a)
           \/ \E u \in users : SetUserActive(u)
           \/ \E j \in Call : Expire(j)
           \/ UNCHANGED vars
  BY <1>2, <1>8 DEF EditProfileElsewhere, SetUserActive, Expire, Others, vars
<1> QED BY <1>3, <1>4, <1>5, <1>6, <1>7, <1>8 DEF Next

\* Every state has these three, whatever the number of codes.
LEMMA OwnInvariant == Spec => [](TypeInv /\ CodeInv /\ OwnInv)
<1>1. Init => CodeInv /\ OwnInv
  <2> SUFFICES ASSUME Init PROVE CodeInv /\ OwnInv
    OBVIOUS
  <2>1. codes = {} /\ tokens = {} /\ authRequests = {} /\ sessions = {} /\ \A f \in Flow : issued[f] = 0
    BY DEF Init, StoreInit, NetInit
  <2>2. \A c \in Finish : ~Holds(c)
    BY DEF Init, Holds, HasSaved
  <2> QED BY <2>1, <2>2 DEF CodeInv, OwnInv
<1> QED BY <1>1, TypeInvariant, NextCodeInv, NextOwnInv, PTL DEF Spec

\* Whoever the user logged in as at the auth server, a session is for the account
\* its flow was started for, with tokens that were issued to that account.
THEOREM SessionsBelongToTheirAccounts == Spec => []SessionsAreTheAccounts
<1>1. OwnInv => SessionsAreTheAccounts
  BY DEF OwnInv, TokensFor, SessionsAreTheAccounts
<1> QED BY <1>1, OwnInvariant, PTL

----------------------------------------------------------------------------
(* Where a pushed request yields one code, a flow has one login *)

\* A FinishLogin that was given tokens, and remembers for whom.
Exchanged(c) == did[c] # ""

\* The flow's one code is spent.
NoMoreCodes(f) == f \in Flow /\ issued[f] = MaxCodes /\ \A k \in codes : k.flow # f

\* At most one FinishLogin of a flow is ever given tokens.
ExchangeInv ==
  /\ \A c \in Finish : Exchanged(c) => /\ NoMoreCodes(FlowOf(c))
                                       /\ did[c] = account[FlowOf(c)]
  /\ \A c, d \in Finish : Exchanged(c) /\ Exchanged(d) /\ FlowOf(c) = FlowOf(d) => c = d

\* What a logout ends is the session of a login that has completed.
LogoutInv ==
  \A l \in Logout :
    /\ lpc[l] = "idle" => target[l] = ""
    /\ lpc[l] # "idle" => target[l] \in Finish /\ Completed(target[l])

\* A code that is spent stays spent.
LEMMA NoMoreStays ==
  ASSUME TypeInv, [Next]_vars, NEW f, NoMoreCodes(f)
  PROVE  NoMoreCodes(f)'
<1>1. CASE UNCHANGED <<codes, issued>>
  BY <1>1 DEF NoMoreCodes
<1>2. CASE \E g \in Flow : Authorize(g)
  <2>1. PICK g \in Flow : Authorize(g)
    BY <1>2
  <2>2. g # f
    BY <2>1, AuthorizeStep DEF NoMoreCodes
  <2> QED BY <2>1, <2>2, AuthorizeStep DEF NoMoreCodes
<1>3. CASE \E k \in codes : Presented(k)
  BY <1>3 DEF Presented, NoMoreCodes
<1> QED BY <1>1, <1>2, <1>3, NetStep DEF MyCode

\* The call that exchanges a code is the first of its flow to do so.
LEMMA ExchangeIsLast ==
  ASSUME MaxCodes = 1, TypeInv, CodeInv, NEW c \in Finish, ExchangeToken(c), pc'[c] = "save"
  PROVE  /\ \E k \in codes : k.flow = FlowOf(c)
         /\ NoMoreCodes(FlowOf(c))'
         /\ did'[c] = account'[FlowOf(c)]
<1>1. PICK k \in MyCode(c), r \in authRequests :
        r.state = FlowOf(c) /\ k.subject = r.did /\ did'[c] = k.subject /\ Presented(k)
  BY DEF ExchangeToken, SubjectMatches, Proceed, Conclude, FinishStep, UseCode, IssueTokens, Presented,
     TypeInv, TypeOK, FinishTypeOK
<1>2. k \in codes /\ k.flow = FlowOf(c) /\ k.flow \in Flow
  BY DEF MyCode, TypeInv, TypeOK, NetTypeOK, Code
<1>3. issued[k.flow] \in 0..1 /\ \A j \in codes : j.n \in 1..issued[j.flow]
  BY <1>2 DEF TypeInv, TypeOK, NetTypeOK, CodeInv
<1>4. issued[k.flow] = 1 /\ k.n = 1
  BY <1>2, <1>3
<1>5. \A j \in codes : j.flow = k.flow => j = k
  BY <1>2, <1>3, <1>4 DEF CodeInv
<1>6. NoMoreCodes(k.flow)'
  BY <1>1, <1>2, <1>4, <1>5 DEF Presented, NoMoreCodes
<1>7. did'[c] = account'[k.flow]
  BY <1>1, <1>2 DEF CodeInv, ExchangeToken, Proceed, Conclude, FinishStep
<1>8. UNCHANGED input
  BY DEF ExchangeToken, Proceed, Conclude
<1> QED BY <1>2, <1>6, <1>7, <1>8 DEF NoMoreCodes, FlowOf

\* Only an exchange gives a FinishLogin tokens.
LEMMA FinishExchangeInv ==
  ASSUME MaxCodes = 1, TypeInv, CodeInv, ExchangeInv, NEW c \in Finish, FinishNext(c)
  PROVE  ExchangeInv'
<1>0. [Next]_vars
  BY DEF Next
<1>1. UNCHANGED <<input, account>> /\ Untouched(c) /\ pc[c] # "idle"
  BY FinishFrame
<1>2. \A f : NoMoreCodes(f) => NoMoreCodes(f)'
  BY <1>0, NoMoreStays
<1>3. \A d \in Finish : did[d] # "" => NoMoreCodes(FlowOf(d)) /\ did[d] = account[FlowOf(d)]
  BY DEF ExchangeInv, Exchanged
<1>4. \A d \in Finish : d # c \/ did'[c] = did[c] => did'[d] = did[d]
  BY <1>1 DEF Untouched
<1>5. \A d \in Finish : (d # c \/ did'[c] = did[c]) /\ did'[d] # ""
                          => NoMoreCodes(FlowOf(d))' /\ (did[d] = account[FlowOf(d)])'
  BY <1>1, <1>2, <1>3, <1>4 DEF FlowOf
<1>6. \A d, e \in Finish : (d # c \/ did'[c] = did[c]) /\ (e # c \/ did'[c] = did[c])
        => (Exchanged(d) /\ Exchanged(e) /\ FlowOf(d) = FlowOf(e) => d = e)'
  BY <1>1, <1>4 DEF ExchangeInv, Exchanged, FlowOf
<1>7. CASE did'[c] = did[c]
  BY <1>5, <1>6, <1>7 DEF ExchangeInv, Exchanged, FlowOf
<1>8. CASE ExchangeToken(c) /\ pc'[c] = "save"
  <2>1. /\ \E k \in codes : k.flow = FlowOf(c)
        /\ NoMoreCodes(FlowOf(c))'
        /\ did'[c] = account'[FlowOf(c)]
    BY <1>8, ExchangeIsLast
  <2>2. \A d \in Finish : d # c /\ did'[d] # "" => FlowOf(d)' # FlowOf(c)'
    BY <1>1, <1>3, <1>4, <2>1 DEF NoMoreCodes, FlowOf
  <2>3. \A d \in Finish : did'[d] # "" => NoMoreCodes(FlowOf(d))' /\ (did[d] = account[FlowOf(d)])'
    BY <1>1, <1>5, <2>1 DEF FlowOf
  <2>4. (\A d, e \in Finish : Exchanged(d) /\ Exchanged(e) /\ FlowOf(d) = FlowOf(e) => d = e)'
    BY <1>6, <2>2 DEF Exchanged
  <2> QED BY <2>3, <2>4 DEF ExchangeInv, Exchanged, FlowOf
<1>9. did'[c] = did[c] \/ (ExchangeToken(c) /\ pc'[c] = "save")
  BY DEF FinishNext, FinishStep, Proceed, Conclude, LoadAuthRequest, DeleteAuthRequest, ExchangeToken,
         SaveSession, ClearAuthRequest, InsertUserIfMissing, SelectUser, ResumeSession, GetRecord,
         PutRecordIfMissing, DeleteFailedSession, TypeInv, TypeOK, FinishTypeOK
<1> QED BY <1>7, <1>8, <1>9

\* Every step.
LEMMA NextExchangeInv ==
  ASSUME MaxCodes = 1, TypeInv, RequestInv, CodeInv, ExchangeInv, [Next]_vars
  PROVE  ExchangeInv'
<1>1. \A f : NoMoreCodes(f) => NoMoreCodes(f)'
  BY NoMoreStays
<1>2. \A c \in Finish : Exchanged(c) => pc[c] # "idle" /\ FlowOf(c) \in Started
  BY DEF RequestInv, Exchanged, TypeInv, Progress
<1>3. ASSUME UNCHANGED did, \A c \in Finish : pc[c] # "idle" => FlowOf(c)' = FlowOf(c)
      PROVE  ExchangeInv'
  <2>1. \A c \in Finish : did'[c] # "" => /\ FlowOf(c)' = FlowOf(c) /\ NoMoreCodes(FlowOf(c))
                                          /\ did[c] = account[FlowOf(c)] /\ FlowOf(c) \in Started
    BY <1>2, <1>3 DEF ExchangeInv, Exchanged
  <2>2. \A c \in Finish : did'[c] # "" => NoMoreCodes(FlowOf(c))'
    BY <1>1, <2>1 DEF FlowOf
  <2>3. \A c \in Finish : did'[c] # "" => (did[c] = account[FlowOf(c)])'
    BY <1>3, <2>1, StartedStays
  <2>4. (\A c, d \in Finish : Exchanged(c) /\ Exchanged(d) /\ FlowOf(c) = FlowOf(d) => c = d)'
    BY <1>3, <2>1 DEF ExchangeInv, Exchanged, FlowOf
  <2> QED BY <2>2, <2>3, <2>4 DEF ExchangeInv, Exchanged
<1>4. CASE \E c \in Finish : FinishNext(c)
  BY <1>4, FinishExchangeInv
<1>5. CASE \E c \in Finish : \E state, callback : FinishLogin(c, state, callback)
  BY <1>3, <1>5 DEF FinishLogin, FinishStep, FlowOf, TypeInv, TypeOK, FinishTypeOK
<1>6. CASE \E f \in Flow : StartNext(f) \/ Authorize(f) \/ \E a \in Account : StartLogin(f, a)
  BY <1>3, <1>6 DEF StartNext, ResolveIdentity, PushAuthRequest, SaveAuthRequest, Authorize, StartLogin,
     StartStep, Others, FlowOf
<1>7. CASE \E l \in Logout : LogoutNext(l) \/ \E c \in Finish : LogOut(l, c)
  BY <1>3, <1>7 DEF LogoutNext, ResumeToRevoke, Revoke, DeleteLoggedOut, LogOut, LogoutStep, FlowOf
<1>8. CASE \/ \E a \in Account : EditProfileElsewhere(a)
           \/ \E u \in users : SetUserActive(u)
           \/ \E j \in Call : Expire(j)
           \/ Crash
           \/ UNCHANGED vars
  BY <1>3, <1>8 DEF EditProfileElsewhere, SetUserActive, Expire, Crash, Others, vars, FlowOf
<1> QED BY <1>4, <1>5, <1>6, <1>7, <1>8 DEF Next

\* A login that has completed stays completed, for the same account and flow.
LEMMA CompletedStays ==
  ASSUME TypeInv, [Next]_vars, NEW c \in Finish, Completed(c)
  PROVE  Completed(c)' /\ FlowOf(c)' = FlowOf(c) /\ did'[c] = did[c]
<1>1. CASE UNCHANGED finishVars
  BY <1>1 DEF Completed, FlowOf
<1>2. CASE \E d \in Finish : FinishNext(d)
  <2>1. PICK d \in Finish : FinishNext(d)
    BY <1>2
  <2>2. pc[d] # "done"
    BY <2>1 DEF FinishNext, FinishStep, Proceed, Conclude, LoadAuthRequest, DeleteAuthRequest, ExchangeToken,
         SaveSession, ClearAuthRequest, InsertUserIfMissing, SelectUser, ResumeSession, GetRecord,
         PutRecordIfMissing, DeleteFailedSession
  <2>3. c # d
    BY <2>2 DEF Completed
  <2> QED BY <2>1, <2>3, FinishFrame DEF Untouched, Completed, FlowOf
<1>3. CASE \E d \in Finish : \E state, callback : FinishLogin(d, state, callback)
  BY <1>3 DEF FinishLogin, FinishStep, Completed, FlowOf, TypeInv, TypeOK, FinishTypeOK
<1>4. CASE Crash
  BY <1>4 DEF Crash, FinishRunning, Completed, FlowOf
<1>5. CASE \E f \in Flow : StartNext(f) \/ Authorize(f) \/ \E a \in Account : StartLogin(f, a)
  BY <1>1, <1>5 DEF StartNext, ResolveIdentity, PushAuthRequest, SaveAuthRequest, Authorize, StartLogin,
     StartStep, Others
<1>7. CASE \E l \in Logout : LogoutNext(l) \/ \E d \in Finish : LogOut(l, d)
  BY <1>1, <1>7 DEF LogoutNext, ResumeToRevoke, Revoke, DeleteLoggedOut, LogOut, LogoutStep
<1>6. CASE \/ \E a \in Account : EditProfileElsewhere(a)
           \/ \E u \in users : SetUserActive(u)
           \/ \E j \in Call : Expire(j)
           \/ UNCHANGED vars
  BY <1>1, <1>6 DEF EditProfileElsewhere, SetUserActive, Expire, Others, vars
<1> QED BY <1>2, <1>3, <1>4, <1>5, <1>6, <1>7 DEF Next

\* A Logout keeps to the login it was called for.
LEMMA NextLogoutInv == TypeInv /\ LogoutInv /\ [Next]_vars => LogoutInv'
<1> SUFFICES ASSUME TypeInv, LogoutInv, [Next]_vars PROVE LogoutInv'
  OBVIOUS
<1>1. \A c \in Finish : Completed(c) => Completed(c)'
  BY CompletedStays
<1>2. \A l \in Logout : lpc[l] # "idle" => target[l] \in Finish /\ Completed(target[l])
  BY DEF LogoutInv, Completed
<1>3. ASSUME \A l \in Logout : target'[l] = target[l] /\ (lpc'[l] = "idle" <=> lpc[l] = "idle")
      PROVE  LogoutInv'
  <2>1. \A l \in Logout : (lpc[l] = "idle" => target[l] = "")'
    BY <1>3 DEF LogoutInv, Completed
  <2>2. \A l \in Logout : (lpc[l] # "idle" => target[l] \in Finish /\ Completed(target[l]))'
    BY <1>1, <1>2, <1>3 DEF Completed
  <2> QED BY <2>1, <2>2 DEF LogoutInv
<1>4. CASE \E l \in Logout : LogoutNext(l)
  BY <1>3, <1>4 DEF LogoutNext, ResumeToRevoke, Revoke, DeleteLoggedOut, LogoutStep, TypeInv, TypeOK, LogoutTypeOK
<1>5. CASE \E l \in Logout, c \in Finish : LogOut(l, c)
  <2>1. PICK l \in Logout, c \in Finish : LogOut(l, c)
    BY <1>5
  <2>2. Completed(c)'
    BY <1>1, <2>1 DEF LogOut, Completed, TypeInv, Progress, InOrder
  <2>3. target'[l] = c /\ lpc'[l] = "resume"
    BY <2>1 DEF LogOut, LogoutStep, TypeInv, TypeOK, LogoutTypeOK
  <2>4. \A m \in Logout : m # l => target'[m] = target[m] /\ lpc'[m] = lpc[m]
    BY <2>1 DEF LogOut, LogoutStep, TypeInv, TypeOK, LogoutTypeOK
  <2>5. \A m \in Logout : (lpc[m] # "idle" => target[m] \in Finish /\ Completed(target[m]))'
    BY <1>1, <1>2, <2>2, <2>3, <2>4 DEF Completed
  <2>6. \A m \in Logout : m # l => (lpc[m] = "idle" => target[m] = "")'
    BY <2>4 DEF LogoutInv
  <2>7. lpc'[l] # "idle"
    BY <2>3
  <2> QED BY <2>5, <2>6, <2>7 DEF LogoutInv
<1>6. CASE Crash
  BY <1>3, <1>6 DEF Crash, LogoutRunning
<1>7. CASE \E c \in Finish : FinishNext(c)
  BY <1>3, <1>7, FinishFrame
<1>8. CASE \E c \in Finish : \E state, callback : FinishLogin(c, state, callback)
  BY <1>3, <1>8 DEF FinishLogin, FinishStep
<1>9. CASE \/ \E f \in Flow : StartNext(f) \/ Authorize(f) \/ \E a \in Account : StartLogin(f, a)
           \/ \E a \in Account : EditProfileElsewhere(a)
           \/ \E u \in users : SetUserActive(u)
           \/ \E j \in Call : Expire(j)
           \/ UNCHANGED vars
  BY <1>3, <1>9 DEF StartNext, ResolveIdentity, PushAuthRequest, SaveAuthRequest, Authorize, StartLogin,
     StartStep, Others, EditProfileElsewhere, SetUserActive, Expire, vars
<1> QED BY <1>4, <1>5, <1>6, <1>7, <1>8, <1>9 DEF Next

\* Where there is a session to log out of, FinishLogin was given tokens.
LEMMA TokensAreHeld ==
  ASSUME TypeInv, NEW c \in Finish, Holds(c) \/ Completed(c)
  PROVE  Exchanged(c)
<1>1. did[c] \in Account
  BY DEF TypeInv, Progress, InOrder, Holds
<1> QED BY <1>1, PartiesAssumption DEF Exchanged

\* There is one FinishLogin of a flow that holds tokens or has completed.
LEMMA OneLogin ==
  ASSUME TypeInv, ExchangeInv, NEW c \in Finish, NEW d \in Finish,
         Holds(c) \/ Completed(c), Holds(d) \/ Completed(d), FlowOf(c) = FlowOf(d)
  PROVE  c = d
<1>1. Exchanged(c) /\ Exchanged(d)
  BY TokensAreHeld
<1> QED BY <1>1 DEF ExchangeInv

\* A login's session stays until the login itself fails or is logged out of.
Untargeted(c) == \A l \in Logout : target[l] # c
\* c has its session in the database.
HasRow(c) == \E s \in sessions : s.id = FlowOf(c) /\ s.did = did[c]
\* Whoever has saved a session nobody logs out of has it still.
KeepInv == \A c \in Finish : (HasSaved(c) \/ Completed(c)) /\ Untargeted(c) => HasRow(c)

\* What one FinishLogin does to the sessions.
LEMMA FinishSessions ==
  ASSUME TypeInv, NEW c \in Finish, FinishNext(c)
  PROVE  \/ UNCHANGED sessions /\ (HasSaved(c)' \/ Completed(c)' => HasSaved(c) /\ did'[c] = did[c])
         \/ Holds(c) /\ pc[c] # "cleanup" /\ SaveOAuthSession(MySession(c)) /\ did'[c] = did[c]
         \/ DeleteFailedSession(c) /\ DeleteOAuthSession(did[c], FlowOf(c))
<1> USE DEF FinishStep, Proceed, Conclude, Holds, HasSaved, Completed, TypeInv, TypeOK, FinishTypeOK
<1>1. CASE LoadAuthRequest(c)
  BY <1>1 DEF LoadAuthRequest
<1>2. CASE DeleteAuthRequest(c)
  <2>1. pc[c] = "spend" /\ outcome' = outcome
    BY <1>2 DEF DeleteAuthRequest
  <2>2. outcome[c] # "ok"
    BY <2>1 DEF Progress, InOrder
  <2> QED BY <1>2, <2>1, <2>2 DEF DeleteAuthRequest
<1>3. CASE ExchangeToken(c)
  BY <1>3 DEF ExchangeToken
<1>4. CASE SaveSession(c)
  BY <1>4 DEF SaveSession
<1>5. CASE ClearAuthRequest(c)
  BY <1>5 DEF ClearAuthRequest
<1>6. CASE InsertUserIfMissing(c)
  BY <1>6 DEF InsertUserIfMissing
<1>7. CASE SelectUser(c)
  BY <1>7 DEF SelectUser
<1>8. CASE ResumeSession(c)
  BY <1>8 DEF ResumeSession
<1>9. CASE GetRecord(c) \/ PutRecordIfMissing(c)
  BY <1>9 DEF GetRecord, PutRecordIfMissing, PersistRefresh
<1>10. CASE DeleteFailedSession(c)
  BY <1>10 DEF DeleteFailedSession
<1> QED BY <1>1, <1>2, <1>3, <1>4, <1>5, <1>6, <1>7, <1>8, <1>9, <1>10 DEF FinishNext

\* What a Logout does to them.
LEMMA LogoutSessions ==
  ASSUME NEW l \in Logout, LogoutNext(l)
  PROVE  /\ UNCHANGED <<finishVars, target>>
         /\ \/ UNCHANGED sessions
            \/ lpc[l] # "idle" /\ DeleteOAuthSession(did[target[l]], FlowOf(target[l]))
  BY DEF LogoutNext, ResumeToRevoke, Revoke, DeleteLoggedOut, LogoutStep

\* A save replaces the row of its own session, and leaves the others.
LEMMA SavedRow ==
  ASSUME NEW c, SaveOAuthSession(MySession(c))
  PROVE  /\ \E s \in sessions' : s.id = FlowOf(c) /\ s.did = did[c]
         /\ \A s \in sessions : s.id # FlowOf(c) \/ s.did # did[c] => s \in sessions'
         /\ \A s \in sessions' : s \in sessions \/ (s.id = FlowOf(c) /\ s.did = did[c])
<1> DEFINE mine == MySession(c)
<1>1. mine.id = FlowOf(c) /\ mine.did = did[c]
  BY DEF MySession
<1>2. sessions' = {x \in sessions : x.did # mine.did \/ x.id # mine.id} \cup {mine}
  BY DEF SaveOAuthSession
<1> HIDE DEF mine
<1> QED BY <1>1, <1>2

\* A FinishLogin keeps its own session, and those of other flows.
LEMMA FinishKeepInv ==
  ASSUME TypeInv, ExchangeInv, KeepInv, NEW c \in Finish, FinishNext(c)
  PROVE  KeepInv'
<1>1. UNCHANGED <<input, target>> /\ Untouched(c)
  BY FinishFrame
<1>2. \A d \in Finish : /\ Untargeted(d)' => Untargeted(d)
                        /\ FlowOf(d)' = FlowOf(d)
                        /\ d # c => did'[d] = did[d] /\ pc'[d] = pc[d] /\ outcome'[d] = outcome[d]
  BY <1>1 DEF Untargeted, Untouched, FlowOf
<1>3. \A d \in Finish : d # c /\ (HasSaved(d)' \/ Completed(d)') => HasSaved(d) \/ Completed(d)
  BY <1>2 DEF HasSaved, Completed
<1>4. CASE UNCHANGED sessions /\ (HasSaved(c)' \/ Completed(c)' => HasSaved(c) /\ did'[c] = did[c])
  BY <1>2, <1>3, <1>4 DEF KeepInv, HasRow
<1>5. CASE Holds(c) /\ SaveOAuthSession(MySession(c)) /\ did'[c] = did[c]
  <2>1. HasRow(c)'
    BY <1>2, <1>5, SavedRow DEF HasRow
  <2>2. ASSUME NEW d \in Finish, d # c, HasSaved(d)' \/ Completed(d)', Untargeted(d)' PROVE HasRow(d)'
    <3>1. HasSaved(d) \/ Completed(d)
      BY <1>3, <2>2
    <3>2. FlowOf(d) # FlowOf(c)
      BY <1>5, <2>2, <3>1, OneLogin DEF Holds
    <3>3. HasRow(d)
      BY <1>2, <2>2, <3>1 DEF KeepInv
    <3> QED BY <1>2, <1>5, <2>2, <3>2, <3>3, SavedRow DEF HasRow
  <2> QED BY <2>1, <2>2 DEF KeepInv
<1>6. CASE DeleteFailedSession(c) /\ DeleteOAuthSession(did[c], FlowOf(c))
  <2>1. ~HasSaved(c)' /\ ~Completed(c)' /\ Holds(c)
    BY <1>6 DEF DeleteFailedSession, FinishStep, HasSaved, Completed, Holds, TypeInv, TypeOK, FinishTypeOK,
       Progress, InOrder
  <2>2. ASSUME NEW d \in Finish, d # c, HasSaved(d)' \/ Completed(d)', Untargeted(d)' PROVE HasRow(d)'
    <3>1. HasSaved(d) \/ Completed(d)
      BY <1>3, <2>2
    <3>2. FlowOf(d) # FlowOf(c)
      BY <2>1, <2>2, <3>1, OneLogin DEF Holds
    <3>3. HasRow(d)
      BY <1>2, <2>2, <3>1 DEF KeepInv
    <3> QED BY <1>2, <1>6, <2>2, <3>2, <3>3 DEF HasRow, DeleteOAuthSession
  <2> QED BY <2>1, <2>2 DEF KeepInv
<1> QED BY <1>4, <1>5, <1>6, FinishSessions

\* A Logout takes away the session of its own login only.
LEMMA LogoutKeepInv ==
  ASSUME TypeInv, ExchangeInv, LogoutInv, KeepInv, NEW l \in Logout, LogoutNext(l)
  PROVE  KeepInv'
<1>1. /\ UNCHANGED <<finishVars, target>>
      /\ UNCHANGED sessions \/ (lpc[l] # "idle" /\ DeleteOAuthSession(did[target[l]], FlowOf(target[l])))
  BY LogoutSessions
<1>2. CASE UNCHANGED sessions
  BY <1>1, <1>2 DEF KeepInv, HasRow, Untargeted, HasSaved, Completed, FlowOf
<1>3. CASE lpc[l] # "idle" /\ DeleteOAuthSession(did[target[l]], FlowOf(target[l]))
  <2>1. target[l] \in Finish /\ Completed(target[l])
    BY <1>3 DEF LogoutInv
  <2>2. ASSUME NEW d \in Finish, HasSaved(d) \/ Completed(d), Untargeted(d) PROVE HasRow(d)'
    <3>1. FlowOf(d) # FlowOf(target[l])
      BY <2>1, <2>2, OneLogin DEF Untargeted, Holds
    <3>2. HasRow(d)
      BY <2>2 DEF KeepInv
    <3> QED BY <1>1, <1>3, <3>1, <3>2 DEF HasRow, DeleteOAuthSession, FlowOf
  <2> QED BY <1>1, <2>2 DEF KeepInv, Untargeted, HasSaved, Completed
<1> QED BY <1>1, <1>2, <1>3

\* Every step.
LEMMA NextKeepInv ==
  ASSUME TypeInv, ExchangeInv, LogoutInv, KeepInv, [Next]_vars
  PROVE  KeepInv'
<1>1. ASSUME UNCHANGED <<sessions, did>>,
             \A c \in Finish : HasSaved(c)' \/ Completed(c)'
                                 => (HasSaved(c) \/ Completed(c)) /\ FlowOf(c)' = FlowOf(c),
             \A c \in Finish : Untargeted(c)' => Untargeted(c)
      PROVE  KeepInv'
  BY <1>1 DEF KeepInv, HasRow
<1>2. CASE UNCHANGED <<sessions, finishVars, target>>
  BY <1>1, <1>2 DEF HasSaved, Completed, FlowOf, Untargeted
<1>3. CASE \E c \in Finish : FinishNext(c)
  BY <1>3, FinishKeepInv
<1>4. CASE \E l \in Logout : LogoutNext(l)
  BY <1>4, LogoutKeepInv
<1>5. CASE \E l \in Logout, c \in Finish : LogOut(l, c)
  <2>1. PICK l \in Logout, c \in Finish : LogOut(l, c)
    BY <1>5
  <2>2. UNCHANGED <<sessions, finishVars>>
    BY <2>1 DEF LogOut, LogoutStep
  <2>3. target[l] \notin Finish
    BY <2>1, PartiesAssumption DEF LogoutInv, LogOut, LogoutStep
  <2>4. \A d \in Finish : Untargeted(d)' => Untargeted(d)
    BY <2>1, <2>3 DEF LogOut, Untargeted, TypeInv, TypeOK, LogoutTypeOK
  <2> QED BY <1>1, <2>2, <2>4 DEF HasSaved, Completed, FlowOf
<1>6. CASE \E c \in Finish : \E state, callback : FinishLogin(c, state, callback)
  <2>1. \A c \in Finish : HasSaved(c)' \/ Completed(c)'
                            => (HasSaved(c) \/ Completed(c)) /\ FlowOf(c)' = FlowOf(c)
    <3>1. PICK c \in Finish : \E state, callback : FinishLogin(c, state, callback)
      BY <1>6
    <3>2. ~HasSaved(c)' /\ ~Completed(c)'
      BY <3>1 DEF FinishLogin, FinishStep, HasSaved, Completed, TypeInv, TypeOK, FinishTypeOK
    <3>3. \A d \in Finish : d # c => pc'[d] = pc[d] /\ outcome'[d] = outcome[d] /\ FlowOf(d)' = FlowOf(d)
      BY <3>1 DEF FinishLogin, FinishStep, FlowOf, TypeInv, TypeOK, FinishTypeOK
    <3> QED BY <3>2, <3>3 DEF HasSaved, Completed
  <2>2. UNCHANGED <<sessions, did, target>>
    BY <1>6 DEF FinishLogin, FinishStep
  <2> QED BY <1>1, <2>1, <2>2 DEF Untargeted
<1>7. CASE Crash
  <2>1. \A c \in Finish : pc'[c] = IF FinishRunning(c) THEN "crashed" ELSE pc[c]
    BY <1>7 DEF Crash
  <2>2. UNCHANGED <<sessions, did, target, outcome, input>>
    BY <1>7 DEF Crash
  <2>3. \A c \in Finish : HasSaved(c)' \/ Completed(c)'
                            => (HasSaved(c) \/ Completed(c)) /\ FlowOf(c)' = FlowOf(c)
    BY <2>1, <2>2 DEF HasSaved, Completed, FlowOf
  <2> QED BY <1>1, <2>2, <2>3 DEF Untargeted
<1>8. CASE \E f \in Flow : StartNext(f) \/ Authorize(f) \/ \E a \in Account : StartLogin(f, a)
  BY <1>2, <1>8 DEF StartNext, ResolveIdentity, PushAuthRequest, SaveAuthRequest, Authorize, StartLogin,
     StartStep, Others
<1>9. CASE \/ \E a \in Account : EditProfileElsewhere(a)
           \/ \E u \in users : SetUserActive(u)
           \/ \E j \in Call : Expire(j)
           \/ UNCHANGED vars
  BY <1>2, <1>9 DEF EditProfileElsewhere, SetUserActive, Expire, Others, vars
<1> QED BY <1>3, <1>4, <1>5, <1>6, <1>7, <1>8, <1>9 DEF Next

\* The session a Logout has ended stays away: nobody is left who could save it.
LEMMA NextLoggedOut ==
  ASSUME TypeInv, OwnInv, ExchangeInv, LogoutInv, LoggedOutStaysOut, [Next]_vars
  PROVE  LoggedOutStaysOut'
<1> DEFINE Out(l) == lpc[l] \in {"out", "not_found"}
<1>1. \A l \in Logout : Out(l) => target[l] \in Finish /\ Completed(target[l])
  BY DEF LogoutInv
<1>2. \A c \in Finish : Completed(c) => FlowOf(c)' = FlowOf(c)
  BY CompletedStays
<1>3. ASSUME sessions' \subseteq sessions,
             \A l \in Logout : Out(l)' => Out(l) /\ target'[l] = target[l]
      PROVE  LoggedOutStaysOut'
  <2>1. ASSUME NEW l \in Logout, Out(l)', NEW s \in sessions' PROVE s.id # FlowOf(target[l])'
    <3>1. Out(l) /\ target'[l] = target[l]
      BY <1>3, <2>1
    <3>2. target[l] \in Finish /\ FlowOf(target[l]) = input'[target[l]].callback.state
      BY <1>1, <1>2, <3>1 DEF FlowOf
    <3> QED BY <1>3, <2>1, <3>1, <3>2 DEF LoggedOutStaysOut, FlowOf
  <2> QED BY <2>1 DEF LoggedOutStaysOut
<1>4. CASE UNCHANGED <<sessions, logoutVars>>
  BY <1>3, <1>4
<1>5. CASE \E c \in Finish : FinishNext(c)
  <2>1. PICK c \in Finish : FinishNext(c)
    BY <1>5
  <2>2. UNCHANGED <<lpc, target, input>>
    BY <2>1, FinishFrame
  <2>3. CASE Holds(c) /\ pc[c] # "cleanup" /\ SaveOAuthSession(MySession(c))
    <3>1. ASSUME NEW l \in Logout, Out(l), NEW s \in sessions' PROVE s.id # FlowOf(target[l])
      <4>1. target[l] \in Finish /\ Completed(target[l])
        BY <1>1, <3>1
      <4>2. FlowOf(target[l]) # FlowOf(c)
        <5>1. target[l] # c
          BY <2>3, <4>1 DEF Holds, HasSaved, Completed
        <5> QED BY <2>3, <4>1, <5>1, OneLogin
      <4>3. s \in sessions \/ s.id = FlowOf(c)
        BY <2>3, <3>1, SavedRow
      <4> QED BY <3>1, <4>2, <4>3 DEF LoggedOutStaysOut
    <3> QED BY <2>2, <3>1 DEF LoggedOutStaysOut, FlowOf
  <2>4. CASE sessions' \subseteq sessions
    BY <1>3, <2>2, <2>4
  <2> QED BY <2>1, <2>3, <2>4, FinishSessions DEF DeleteOAuthSession
<1>6. CASE \E l \in Logout : LogoutNext(l)
  <2>1. PICK l \in Logout : LogoutNext(l)
    BY <1>6
  <2>2. UNCHANGED <<finishVars, target>> /\ sessions' \subseteq sessions
    BY <2>1, LogoutSessions DEF DeleteOAuthSession
  <2>3. \A m \in Logout : m # l => lpc'[m] = lpc[m]
    BY <2>1 DEF LogoutNext, ResumeToRevoke, Revoke, DeleteLoggedOut, LogoutStep, TypeInv, TypeOK, LogoutTypeOK
  <2>4. lpc[l] # "idle" /\ ~Out(l)
    BY <2>1 DEF LogoutNext, ResumeToRevoke, Revoke, DeleteLoggedOut, LogoutStep
  <2>5. Out(l)' => \A s \in sessions' : s.did # did[target[l]] \/ s.id # FlowOf(target[l])
    BY <2>1 DEF LogoutNext, ResumeToRevoke, Revoke, DeleteLoggedOut, LogoutStep, DeleteOAuthSession,
       TypeInv, TypeOK, LogoutTypeOK
  <2>6. ASSUME NEW s \in sessions, s.id = FlowOf(target[l]) PROVE s.did = did[target[l]]
    <3>1. target[l] \in Finish /\ Completed(target[l])
      BY <2>4 DEF LogoutInv
    <3>2. did[target[l]] = account[FlowOf(target[l])]
      BY <3>1, TokensAreHeld DEF ExchangeInv
    <3> QED BY <2>6, <3>2 DEF OwnInv, TokensFor
  <2>7. Out(l)' => \A s \in sessions' : s.id # FlowOf(target[l])
    BY <2>2, <2>5, <2>6
  <2> QED BY <2>2, <2>3, <2>7 DEF LoggedOutStaysOut, FlowOf
<1>7. CASE \E l \in Logout, c \in Finish : LogOut(l, c)
  BY <1>3, <1>7 DEF LogOut, LogoutStep, TypeInv, TypeOK, LogoutTypeOK
<1>8. CASE Crash
  BY <1>3, <1>8 DEF Crash, LogoutRunning
<1>9. CASE \/ \E f \in Flow : StartNext(f) \/ Authorize(f) \/ \E a \in Account : StartLogin(f, a)
           \/ \E a \in Account : EditProfileElsewhere(a)
           \/ \E u \in users : SetUserActive(u)
           \/ \E j \in Call : Expire(j)
           \/ \E c \in Finish : \E state, callback : FinishLogin(c, state, callback)
           \/ UNCHANGED vars
  BY <1>4, <1>9 DEF StartNext, ResolveIdentity, PushAuthRequest, SaveAuthRequest, Authorize, StartLogin,
     StartStep, Others, EditProfileElsewhere, SetUserActive, Expire, FinishLogin, FinishStep, vars
<1> QED BY <1>5, <1>6, <1>7, <1>8, <1>9 DEF Next

\* What holds where a pushed request yields one code.
FlowInv ==
  TypeInv /\ RequestInv /\ CodeInv /\ OwnInv /\ ExchangeInv /\ LogoutInv /\ KeepInv /\ LoggedOutStaysOut

\* No flow has been started.
LEMMA InitFlowInv == Init => FlowInv
<1> SUFFICES ASSUME Init PROVE FlowInv
  OBVIOUS
<1>1. \A c \in Finish : pc[c] = "idle" /\ did[c] = ""
  BY DEF Init
<1>2. \A l \in Logout : lpc[l] = "idle" /\ target[l] = ""
  BY DEF Init
<1>3. RequestInv
  BY ONLY <1>1 DEF RequestInv, Cleared, Spent
<1>4. CodeInv /\ OwnInv
  <2>1. codes = {} /\ tokens = {} /\ authRequests = {} /\ sessions = {} /\ \A f \in Flow : issued[f] = 0
    BY DEF Init, StoreInit, NetInit
  <2>2. \A c \in Finish : ~Holds(c)
    BY <1>1 DEF Holds, HasSaved
  <2> QED BY <2>1, <2>2 DEF CodeInv, OwnInv
<1>5. ExchangeInv /\ KeepInv
  BY <1>1 DEF ExchangeInv, Exchanged, KeepInv, HasSaved, Completed
<1>6. LogoutInv
  BY <1>2 DEF LogoutInv
<1>7. LoggedOutStaysOut
  BY <1>2 DEF LoggedOutStaysOut
<1> QED BY <1>3, <1>4, <1>5, <1>6, <1>7, InitTypeInv DEF FlowInv

\* It holds in every state.
LEMMA FlowInvariant == ASSUME MaxCodes = 1 PROVE Spec => []FlowInv
<1>1. FlowInv /\ [Next]_vars => FlowInv'
  BY NextTypeInv, NextRequestInv, NextCodeInv, NextOwnInv, NextExchangeInv, NextLogoutInv, NextKeepInv,
     NextLoggedOut DEF FlowInv
<1> QED BY <1>1, InitFlowInv, PTL DEF Spec

\* Where auth servers issue one code per pushed request, a login that has completed
\* keeps its session until someone logs out of it: a second callback of its flow
\* takes nothing away, whatever fails or crashes.
THEOREM LoginsKeepTheirSessions ==
  ASSUME MaxCodes = 1 PROVE Spec => []CompletedLoginKeepsSession
<1>1. FlowInv => CompletedLoginKeepsSession
  BY DEF FlowInv, KeepInv, CompletedLoginKeepsSession, Untargeted, HasRow
<1> QED BY <1>1, FlowInvariant, PTL

\* There, too, what has been logged out of does not come back, though every
\* refresh saves a session anew.
THEOREM LoggedOutIsForGood ==
  ASSUME MaxCodes = 1 PROVE Spec => []LoggedOutStaysOut
<1>1. FlowInv => LoggedOutStaysOut
  BY DEF FlowInv
<1> QED BY <1>1, FlowInvariant, PTL

\* And calls that save the session they hold take turns, as GetRecord and
\* PutRecordIfMissing ask of their callers.
THEOREM CallsTakeTurns ==
  ASSUME MaxCodes = 1 PROVE Spec => []CallsDoNotOverlap
<1>1. FlowInv => CallsDoNotOverlap
  <2> SUFFICES ASSUME FlowInv, NEW i \in Finish, NEW j \in Finish \cup Logout, NEW f \in Flow,
                      ActsAs(i, f), ActsAs(j, f)
               PROVE  i = j
    BY DEF CallsDoNotOverlap
  <2> USE DEF FlowInv
  <2>1. i \notin Logout
    BY PartiesAssumption
  <2>2. FlowOf(i) = f /\ Holds(i) /\ ~Completed(i)
    BY <2>1 DEF ActsAs, Holds, HasSaved, Completed
  <2>3. CASE j \in Finish
    <3>1. FlowOf(j) = f /\ Holds(j)
      BY <2>3, PartiesAssumption DEF ActsAs, Holds, HasSaved
    <3> QED BY <2>2, <2>3, <3>1, OneLogin
  <2>4. CASE j \in Logout
    <3>1. lpc[j] # "idle" /\ FlowOf(target[j]) = f
      BY <2>4, PartiesAssumption DEF ActsAs
    <3>2. target[j] \in Finish /\ Completed(target[j])
      BY <2>4, <3>1 DEF LogoutInv
    <3>3. i = target[j]
      BY <2>2, <3>1, <3>2, OneLogin
    <3> QED BY <2>2, <3>2, <3>3
  <2> QED BY <2>3, <2>4
<1> QED BY <1>1, FlowInvariant, PTL

----------------------------------------------------------------------------
(* One flow after the other: the lifecycle *)

\* A session that was ever saved is that of the flow's one code.
LEMMA SessionSpendsCode ==
  ASSUME FlowInv, SessionInv, NEW f \in Flow, HasSession(f)
  PROVE  f \in Started /\ ~CanGetSession(f)
<1> USE DEF FlowInv
<1>1. PICK s \in sessions : s.id = f
  BY DEF HasSession
<1>2. PICK c \in Finish : Owns(c, s) \/ Abandoned(c, s)
  BY DEF SessionInv, SessionsAccountedFor
<1>3. FlowOf(c) = f /\ did[c] = s.did /\ pc[c] # "save"
  BY <1>1, <1>2 DEF Owns, Abandoned, HasSaved, Completed, SessionInv
<1>4. s.did \in Account
  BY DEF TypeInv, TypeOK, StoreTypeOK, Session
<1>5. Exchanged(c)
  BY <1>3, <1>4, PartiesAssumption DEF Exchanged
<1>6. NoMoreCodes(f)
  BY <1>3, <1>5 DEF ExchangeInv
<1>7. \A d \in Finish : pc[d] = "save" => FlowOf(d) # f
  BY <1>3, <1>5, TokensAreHeld DEF ExchangeInv, Holds
<1>8. f \in Started
  BY <1>1 DEF OwnInv, TokensFor
<1> QED BY <1>6, <1>7, <1>8, CodeNumbers DEF CanGetSession, NoMoreCodes

\* A flow whose session can no longer come to be never gets one again.
LEMMA NoLaterChance ==
  ASSUME FlowInv, [Next]_vars, NEW f \in Flow, ~CanGetSession(f)
  PROVE  ~CanGetSession(f)'
<1> USE DEF FlowInv
<1>1. issued \in [Flow -> 0..MaxCodes] /\ MaxCodes \in Nat
  BY CodeNumbers DEF TypeInv, TypeOK, NetTypeOK
<1>2. NoMoreCodes(f)
  BY <1>1 DEF CanGetSession, NoMoreCodes
<1>3. NoMoreCodes(f)'
  BY <1>2, NoMoreStays
<1>4. ASSUME NEW c \in Finish, pc'[c] = "save", FlowOf(c)' = f PROVE FALSE
  <2>1. pc[c] = "save" /\ FlowOf(c) = f => FALSE
    BY DEF CanGetSession
  <2>2. CASE UNCHANGED <<pc, input>>
    BY <1>4, <2>1, <2>2 DEF FlowOf
  <2>3. CASE \E d \in Finish : FinishNext(d)
    <3>1. PICK d \in Finish : FinishNext(d)
      BY <2>3
    <3>2. UNCHANGED input /\ Untouched(d)
      BY <3>1, FinishFrame
    <3>3. c = d
      BY <1>4, <2>1, <3>2 DEF Untouched, FlowOf
    <3>4. ExchangeToken(c)
      BY <1>4, <3>1, <3>3 DEF FinishNext, FinishStep, Proceed, Conclude, LoadAuthRequest, DeleteAuthRequest,
         SaveSession, ClearAuthRequest, InsertUserIfMissing, SelectUser, ResumeSession, GetRecord,
         PutRecordIfMissing, DeleteFailedSession, TypeInv, TypeOK, FinishTypeOK
    <3>5. \E k \in codes : k.flow = FlowOf(c)
      BY <1>4, <3>4 DEF ExchangeToken, Conclude, FinishStep, MyCode, TypeInv, TypeOK, FinishTypeOK
    <3> QED BY <1>2, <1>4, <3>2, <3>5 DEF NoMoreCodes, FlowOf
  <2>4. CASE \E d \in Finish : \E state, callback : FinishLogin(d, state, callback)
    <3>1. PICK d \in Finish : \E state, callback : FinishLogin(d, state, callback)
      BY <2>4
    <3>2. c # d
      BY <1>4, <3>1 DEF FinishLogin, FinishStep, TypeInv, TypeOK, FinishTypeOK
    <3>3. pc[c] = "save" /\ FlowOf(c) = f
      BY <1>4, <3>1, <3>2 DEF FinishLogin, FinishStep, FlowOf, TypeInv, TypeOK, FinishTypeOK
    <3> QED BY <2>1, <3>3
  <2>5. CASE Crash
    <3>1. pc'[c] = IF FinishRunning(c) THEN "crashed" ELSE pc[c]
      BY <2>5 DEF Crash
    <3>2. input' = input
      BY <2>5 DEF Crash
    <3> QED BY <1>4, <2>1, <3>1, <3>2 DEF FlowOf
  <2>6. CASE \/ \E g \in Flow : StartNext(g) \/ Authorize(g) \/ \E a \in Account : StartLogin(g, a)
             \/ \E l \in Logout : LogoutNext(l) \/ \E d \in Finish : LogOut(l, d)
    BY <2>2, <2>6 DEF StartNext, ResolveIdentity, PushAuthRequest, SaveAuthRequest, Authorize, StartLogin,
       StartStep, Others, LogoutNext, ResumeToRevoke, Revoke, DeleteLoggedOut, LogOut, LogoutStep
  <2>7. CASE \/ \E a \in Account : EditProfileElsewhere(a)
             \/ \E u \in users : SetUserActive(u)
             \/ \E j \in Call : Expire(j)
             \/ UNCHANGED vars
    BY <2>2, <2>7 DEF EditProfileElsewhere, SetUserActive, Expire, Others, vars
  <2> QED BY <2>2, <2>3, <2>4, <2>5, <2>6, <2>7 DEF Next
<1>5. issued'[f] = MaxCodes /\ \A k \in codes' : k.flow # f
  BY <1>3 DEF NoMoreCodes
<1> QED BY <1>1, <1>4, <1>5 DEF CanGetSession

\* A flow has a session only from one it had, or from the call that saves it first.
LEMMA SessionComesOnce ==
  ASSUME FlowInv, [Next]_vars, NEW f \in Flow, HasSession(f)', ~HasSession(f)
  PROVE  f \in Started /\ CanGetSession(f)
<1> USE DEF FlowInv
<1>1. PICK s \in sessions' : s.id = f /\ s \notin sessions
  BY DEF HasSession
<1>2. CASE \E c \in Finish : FinishNext(c)
  <2>1. PICK c \in Finish : FinishNext(c)
    BY <1>2
  <2>2. Holds(c) /\ pc[c] # "cleanup" /\ SaveOAuthSession(MySession(c))
    BY <1>1, <2>1, FinishSessions DEF DeleteOAuthSession
  <2>3. FlowOf(c) = f
    BY <1>1, <2>2, SavedRow
  <2>4. f \in Started
    BY <2>2, <2>3 DEF Holds, HasSaved, TypeInv, Progress
  <2>5. CASE pc[c] = "save"
    BY <2>3, <2>4, <2>5 DEF CanGetSession
  <2>6. CASE HasSaved(c)
    <3>1. ~Completed(c)
      BY <2>6 DEF HasSaved, Completed
    <3>2. Untargeted(c)
      BY <3>1, PartiesAssumption DEF LogoutInv, Untargeted
    <3>3. HasRow(c)
      BY <2>6, <3>2 DEF KeepInv
    <3> QED BY <2>3, <3>3 DEF HasRow, HasSession
  <2> QED BY <2>2, <2>5, <2>6 DEF Holds
<1>3. CASE \E l \in Logout : LogoutNext(l)
  BY <1>1, <1>3, LogoutSessions DEF DeleteOAuthSession
<1>4. CASE UNCHANGED sessions
  BY <1>1, <1>4
<1>5. CASE \/ \E g \in Flow : StartNext(g) \/ Authorize(g) \/ \E a \in Account : StartLogin(g, a)
           \/ \E l \in Logout, c \in Finish : LogOut(l, c)
           \/ \E a \in Account : EditProfileElsewhere(a)
           \/ \E u \in users : SetUserActive(u)
           \/ \E j \in Call : Expire(j)
           \/ \E c \in Finish : \E state, callback : FinishLogin(c, state, callback)
           \/ Crash
           \/ UNCHANGED vars
  BY <1>4, <1>5 DEF StartNext, ResolveIdentity, PushAuthRequest, SaveAuthRequest, Authorize, StartLogin,
     LogOut, EditProfileElsewhere, SetUserActive, Expire, FinishLogin, Crash, vars
<1> QED BY <1>2, <1>3, <1>4, <1>5 DEF Next

\* A flow that has just been started has its code yet to come.
LEMMA StartedHasChance ==
  ASSUME FlowInv, [Next]_vars, NEW f \in Flow, f \notin Started
  PROVE  CanGetSession(f)'
<1> USE DEF FlowInv
<1>1. issued \in [Flow -> 0..MaxCodes] /\ MaxCodes \in Nat \ {0}
  BY CodeNumbers DEF TypeInv, TypeOK, NetTypeOK
<1>2. issued[f] = 0
  BY <1>1 DEF CodeInv
<1>3. issued'[f] = issued[f]
  BY AuthorizeStep, NetStep DEF Presented
<1> QED BY <1>1, <1>2, <1>3 DEF CanGetSession

\* How far a flow has come, as LoginRefinement has it.
Stage(f) ==
  CASE HasSession(f)                                -> "live"
    [] ~HasSession(f) /\ start[f] # "started"       -> "new"
    [] ~HasSession(f) /\ start[f] = "started" /\ CanGetSession(f) -> "pending"
    [] OTHER                                        -> "over"

\* The stages by what they mean.
StageMeans(f) ==
  /\ FlowPhase[f] = Stage(f)
  /\ Stage(f) \in Lifecycle!Phase
  /\ HasSession(f) => Stage(f) = "live"
  /\ ~HasSession(f) /\ f \notin Started => Stage(f) = "new"
  /\ ~HasSession(f) /\ f \in Started /\ CanGetSession(f) => Stage(f) = "pending"
  /\ ~HasSession(f) /\ f \in Started /\ ~CanGetSession(f) => Stage(f) = "over"

\* They do, before a step and after it.
LEMMA Stages == ASSUME NEW f \in Flow PROVE StageMeans(f) /\ StageMeans(f)'
  BY DEF StageMeans, FlowPhase, Stage, Started, Lifecycle!Phase

\* Every step of the service takes every flow one stage on, or leaves it.
LEMMA StageStep ==
  ASSUME FlowInv, SessionInv, [Next]_vars, NEW f \in Flow
  PROVE  Stage(f)' = Stage(f) \/ Stage(f)' \in Lifecycle!Later[Stage(f)]
<1>1. HasSession(f) => f \in Started /\ ~CanGetSession(f)
  BY SessionSpendsCode
<1>2. ~CanGetSession(f) => ~CanGetSession(f)'
  BY NoLaterChance
<1>3. HasSession(f)' /\ ~HasSession(f) => f \in Started /\ CanGetSession(f)
  BY SessionComesOnce
<1>4. f \in Started => f \in Started'
  BY StartedStays DEF FlowInv
<1>5. f \notin Started => CanGetSession(f)'
  BY StartedHasChance
<1>6. CASE HasSession(f)
  <2>1. Stage(f) = "live" /\ Stage(f)' \in {"live", "over"}
    BY <1>1, <1>2, <1>4, <1>6, Stages DEF StageMeans
  <2> QED BY <2>1 DEF Lifecycle!Later
<1>7. CASE ~HasSession(f) /\ f \notin Started
  <2>1. Stage(f) = "new" /\ Stage(f)' \in {"new", "pending"}
    BY <1>3, <1>5, <1>7, Stages DEF StageMeans
  <2> QED BY <2>1 DEF Lifecycle!Later
<1>8. CASE ~HasSession(f) /\ f \in Started /\ CanGetSession(f)
  <2>1. Stage(f) = "pending" /\ Stage(f)' \in {"live", "pending", "over"}
    BY <1>4, <1>8, Stages DEF StageMeans
  <2> QED BY <2>1 DEF Lifecycle!Later
<1>9. CASE ~HasSession(f) /\ f \in Started /\ ~CanGetSession(f)
  <2>1. Stage(f) = "over" /\ Stage(f)' = "over"
    BY <1>2, <1>3, <1>4, <1>9, Stages DEF StageMeans
  <2> QED BY <2>1
<1> QED BY <1>6, <1>7, <1>8, <1>9

\* Where auth servers issue one code per pushed request, the statements and requests
\* of StartLogin, FinishLogin and Logout, interleaved, failing and crashing at will,
\* add up to the lifecycle that Web takes for granted: one session per flow.
THEOREM LoginImplementsLifecycle ==
  ASSUME MaxCodes = 1 PROVE Spec => FlowHasOneSession
<1>1. Init => Lifecycle!FlowInit
  <2> SUFFICES ASSUME Init PROVE Lifecycle!FlowInit
    OBVIOUS
  <2>1. \A f \in Flow : ~HasSession(f) /\ f \notin Started
    BY DEF Init, StoreInit, HasSession, Started
  <2>2. \A f \in Flow : FlowPhase[f] = "new"
    BY <2>1, Stages DEF StageMeans
  <2> QED BY <2>2 DEF Lifecycle!FlowInit, FlowPhase
<1>2. FlowInv /\ SessionInv /\ [Next]_vars => [Lifecycle!FlowNext]_FlowPhase
  <2> SUFFICES ASSUME FlowInv, SessionInv, [Next]_vars PROVE Lifecycle!FlowNext
    OBVIOUS
  <2>1. \A f \in Flow : /\ FlowPhase[f] = Stage(f) /\ FlowPhase'[f] = Stage(f)'
                        /\ Stage(f)' \in Lifecycle!Phase
    BY Stages DEF StageMeans
  <2>2. FlowPhase' \in [Flow -> Lifecycle!Phase]
    BY <2>1 DEF FlowPhase
  <2>3. \A f \in Flow : FlowPhase'[f] = FlowPhase[f] \/ FlowPhase'[f] \in Lifecycle!Later[FlowPhase[f]]
    BY <2>1, StageStep
  <2> QED BY <2>2, <2>3 DEF Lifecycle!FlowNext
<1>3. Spec => []SessionInv
  <2>1. Init => SessionInv
    BY DEF Init, StoreInit, SessionInv, SessionsAccountedFor
  <2> QED BY <2>1, TypeInvariant, NextSessionInv, PTL DEF Spec
<1> QED BY <1>1, <1>2, <1>3, FlowInvariant, PTL DEF Spec, FlowHasOneSession, Lifecycle!FlowSpec
============================================================================
