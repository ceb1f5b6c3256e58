---------------------------- MODULE LoginProofs ----------------------------
(***************************************************************************)
(* Login keeps its types, and each call knows what it should by the time   *)
(* it gets to each statement: the invariant the other proofs start from.   *)
(* On it rest the safety properties of Login, for any number of accounts,  *)
(* flows, callbacks, logouts and codes.                                    *)
(***************************************************************************)
EXTENDS LoginProperties, TLAPS

\* A FinishLogin has tokens when its session is, or is about to be, in the
\* database, and knows how it ends from the last statement it has to run on.
InOrder(c) ==
  /\ pc[c] = "save" \/ HasSaved(c) \/ Completed(c) => did[c] \in Account /\ held[c] \in 1..MaxCodes
  /\ outcome[c] = "ok" => pc[c] = "done"
  /\ outcome[c] # "" => pc[c] \in {"spend", "cleanup", "done", "crashed"}

\* A call past its start knows what it was started for, and a callback is for
\* a flow whose StartLogin has returned.
Progress ==
  /\ \A f \in Flow : start[f] # "idle" => account[f] \in Account
  /\ \A c \in Finish : pc[c] # "idle" => FlowOf(c) \in Started
  /\ \A c \in Finish : InOrder(c)
  /\ \A l \in Logout : lpc[l] # "idle" => target[l] \in Finish

\* Types, and what a call knows.
TypeInv == TypeOK /\ Progress

\* The tuples of variables and what is only set or read once are always expanded.
USE DEF storeVars, netVars, startVars, finishVars, logoutVars, memVars, GetOAuthAuthRequest, GetOAuthSession,
        PushRequest

\* 0, no code at all, is below every number of codes.
LEMMA CodeNumbers == MaxCodes \in Nat \ {0} /\ 0 \in 0..MaxCodes
<1>1. MaxCodes \in Nat \ {0}
  BY PartiesAssumption
<1> QED BY <1>1

\* What is up to a number of codes is a number of codes.
LEMMA UpTo ==
  ASSUME NEW i, NEW m \in Nat \ {0}, i \in 0..m
  PROVE  \A n \in 1..i : n \in 0..m
  OBVIOUS

\* No operation has run yet.
LEMMA InitTypeInv == Init => TypeInv
<1> SUFFICES ASSUME Init PROVE TypeInv
  OBVIOUS
<1> USE CodeNumbers DEF Init
<1>1. StoreTypeOK
  BY DEF StoreInit, StoreTypeOK
<1>2. NetTypeOK
  BY DEF NetInit, NetTypeOK, Profile
<1>3. StartTypeOK
    BY DEF StartPC, StartTypeOK
<1>4. FinishTypeOK
  <2>1. NoInput \in Input
    BY DEF NoInput, Input, Callback
  <2> QED BY <2>1 DEF FinishTypeOK, FinishPC, Outcome
<1>5. LogoutTypeOK
  BY DEF LogoutTypeOK, LogoutPC
<1>6. Progress
  BY DEF Progress, InOrder, HasSaved, Completed
<1> QED BY <1>1, <1>2, <1>3, <1>4, <1>5, <1>6 DEF TypeInv, TypeOK

\* Each statement and request of StartLogin.
LEMMA StartTypeInv == ASSUME TypeInv, NEW f \in Flow, StartNext(f) PROVE TypeInv'
<1> USE DEF TypeInv, TypeOK
<1>1. UNCHANGED <<finishVars, logoutVars, expired>>
  BY DEF StartNext, StartStep, ResolveIdentity, PushAuthRequest, SaveAuthRequest
<1>2. FinishTypeOK' /\ LogoutTypeOK' /\ (expired \subseteq Call)'
  BY <1>1 DEF FinishTypeOK, LogoutTypeOK
<1>3. CASE ResolveIdentity(f)
  <2>1. StoreTypeOK' /\ NetTypeOK'
    BY <1>3 DEF ResolveIdentity, StoreTypeOK, NetTypeOK
  <2>2. StartTypeOK'
    BY <1>3 DEF ResolveIdentity, StartTypeOK, StartStep, StartPC
  <2>3. Progress'
    BY <1>3, <1>1 DEF ResolveIdentity, Progress, StartStep, StartTypeOK, FlowOf, Started, InOrder, HasSaved, Completed
  <2> QED BY <1>2, <2>1, <2>2, <2>3
<1>4. CASE PushAuthRequest(f)
  <2>1. StoreTypeOK' /\ NetTypeOK'
    BY <1>4 DEF PushAuthRequest, StoreTypeOK, NetTypeOK
  <2>2. StartTypeOK'
    BY <1>4 DEF PushAuthRequest, StartTypeOK, StartStep, StartPC
  <2>3. Progress'
    BY <1>4, <1>1 DEF PushAuthRequest, Progress, StartStep, StartTypeOK, FlowOf, Started, InOrder, HasSaved, Completed
  <2> QED BY <1>2, <2>1, <2>2, <2>3
<1>5. CASE SaveAuthRequest(f)
  <2>1. StoreTypeOK'
    <3>1. account[f] \in Account
      BY <1>5 DEF SaveAuthRequest, Progress, StartStep
    <3>2. AuthServerOf[account[f]] \in Server
      BY <3>1, PartiesAssumption
    <3> QED
      BY <1>5, <3>1, <3>2 DEF SaveAuthRequest, StoreTypeOK, SaveOAuthAuthRequest, AuthRequest
  <2>2. NetTypeOK'
    BY <1>5 DEF SaveAuthRequest, NetTypeOK
  <2>3. StartTypeOK'
    BY <1>5 DEF SaveAuthRequest, StartTypeOK, StartStep, StartPC
  <2>4. Progress'
    BY <1>5, <1>1 DEF SaveAuthRequest, Progress, StartStep, StartTypeOK, FlowOf, Started, InOrder, HasSaved, Completed
  <2> QED BY <1>2, <2>1, <2>2, <2>3, <2>4
<1> QED BY <1>3, <1>4, <1>5 DEF StartNext

\* A step of one FinishLogin leaves what the others remember alone.
Untouched(c) ==
  \A d \in Finish : d # c =>
    /\ pc'[d] = pc[d] /\ outcome'[d] = outcome[d]
    /\ did'[d] = did[d] /\ full'[d] = full[d] /\ held'[d] = held[d] /\ userID'[d] = userID[d]

\* A step of one FinishLogin is nobody else's.
LEMMA FinishFrame ==
  ASSUME TypeInv, NEW c \in Finish, FinishNext(c)
  PROVE  /\ UNCHANGED <<startVars, logoutVars, expired, input>>
         /\ pc[c] # "idle"
         /\ Untouched(c)
<1> USE DEF FinishStep, Proceed, Conclude, Untouched, TypeInv, TypeOK, FinishTypeOK
<1>1. CASE LoadAuthRequest(c)
  BY <1>1 DEF LoadAuthRequest
<1>2. CASE DeleteAuthRequest(c)
  BY <1>2 DEF DeleteAuthRequest
<1>3. CASE ExchangeToken(c)
  BY <1>3 DEF ExchangeToken
<1>4. CASE SaveSession(c)
  BY <1>4 DEF SaveSession
<1>5. CASE ClearAuthRequest(c)
  BY <1>5 DEF ClearAuthRequest
<1>6. CASE InsertUserIfMissing(c)
  BY <1>6 DEF InsertUserIfMissing
<1>7. CASE SelectUser(c)
  BY <1>7 DEF SelectUser
<1>8. CASE ResumeSession(c)
  BY <1>8 DEF ResumeSession
<1>9. CASE GetRecord(c)
  BY <1>9 DEF GetRecord
<1>10. CASE PutRecordIfMissing(c)
  BY <1>10 DEF PutRecordIfMissing
<1>11. CASE DeleteFailedSession(c)
  BY <1>11 DEF DeleteFailedSession
<1> QED BY <1>1, <1>2, <1>3, <1>4, <1>5, <1>6, <1>7, <1>8, <1>9, <1>10, <1>11 DEF FinishNext

\* So Progress depends on the one FinishLogin that took the step.
LEMMA FinishProgress ==
  ASSUME TypeInv, NEW c \in Finish, FinishNext(c), InOrder(c)'
  PROVE  Progress'
<1>1. UNCHANGED <<startVars, logoutVars, input>> /\ pc[c] # "idle" /\ Untouched(c)
  BY FinishFrame
<1>2. \A d \in Finish : pc'[d] # "idle" => FlowOf(d)' \in Started'
  BY <1>1 DEF TypeInv, Progress, Untouched, FlowOf, Started
<1>3. \A d \in Finish : d # c => InOrder(d)'
  BY <1>1 DEF TypeInv, Progress, Untouched, InOrder, HasSaved, Completed
<1>4. \A f \in Flow : start'[f] # "idle" => account'[f] \in Account
  BY <1>1 DEF TypeInv, Progress
<1>5. \A l \in Logout : lpc'[l] # "idle" => target'[l] \in Finish
  BY <1>1 DEF TypeInv, Progress
<1> QED BY <1>2, <1>3, <1>4, <1>5 DEF Progress, InOrder

\* What SaveOAuthSession is given is a session.
LEMMA MySessionType ==
  ASSUME TypeInv, NEW c \in Finish, pc[c] = "save" \/ HasSaved(c)
  PROVE  MySession(c) \in Session
  BY DEF TypeInv, Progress, InOrder, HasSaved, MySession, Session, Started

\* Each statement and request of FinishLogin.
LEMMA FinishTypeInv == ASSUME TypeInv, NEW c \in Finish, FinishNext(c) PROVE TypeInv'
<1> USE DEF TypeInv, TypeOK
<1>1. StartTypeOK' /\ LogoutTypeOK' /\ (expired \subseteq Call)'
  BY FinishFrame DEF StartTypeOK, LogoutTypeOK
<1>2. ASSUME InOrder(c)' PROVE Progress'
  BY <1>2, FinishProgress
<1>3. CASE LoadAuthRequest(c)
  <2> USE <1>3 DEF LoadAuthRequest, FinishStep, Proceed, Conclude
  <2>1. StoreTypeOK'
    BY DEF StoreTypeOK
  <2>2. NetTypeOK'
    BY DEF NetTypeOK
  <2>3. FinishTypeOK'
    BY DEF FinishTypeOK, FinishPC, Outcome
  <2>4. InOrder(c)'
    <3>1. outcome[c] = ""
      BY DEF Progress, InOrder
    <3>2. \/ pc'[c] = "exchange" /\ outcome'[c] = ""
          \/ pc'[c] \in {"spend", "done"} /\ outcome'[c] \in {"cancelled", "callback_error"}
      BY <3>1 DEF FinishTypeOK
    <3> QED
      BY <3>2 DEF InOrder, HasSaved, Completed
  <2> QED BY <1>1, <1>2, <2>1, <2>2, <2>3, <2>4
<1>4. CASE DeleteAuthRequest(c)
  <2> USE <1>4 DEF DeleteAuthRequest, FinishStep, Proceed, Conclude
  <2>1. StoreTypeOK'
    BY DEF StoreTypeOK, DeleteOAuthAuthRequest
  <2>2. NetTypeOK'
    BY DEF NetTypeOK
  <2>3. FinishTypeOK'
    BY DEF FinishTypeOK, FinishPC, Outcome
  <2>4. InOrder(c)'
    BY DEF Progress, FinishTypeOK, InOrder, HasSaved, Completed
  <2> QED BY <1>1, <1>2, <2>1, <2>2, <2>3, <2>4
<1>5. CASE ExchangeToken(c)
  <2> USE <1>5 DEF ExchangeToken, FinishStep, Proceed, Conclude
  <2>1. StoreTypeOK'
    BY DEF StoreTypeOK
  <2>2. NetTypeOK'
    BY DEF NetTypeOK, UseCode, IssueTokens, MyCode, Code, Token
  <2>3. FinishTypeOK'
    <3>1. pc' \in [Finish -> FinishPC] /\ outcome' \in [Finish -> Outcome]
      BY DEF FinishTypeOK, FinishPC, Outcome
    <3>2. held' \in [Finish -> 0..MaxCodes]
      <4>1. \A k \in codes : k.n \in 0..MaxCodes
        BY CodeNumbers DEF NetTypeOK, Code
      <4> QED
        BY <4>1 DEF FinishTypeOK, MyCode
    <3>3. did' \in [Finish -> Account \cup {""}] /\ full' \in [Finish -> BOOLEAN]
      BY DEF FinishTypeOK, NetTypeOK, Code, MyCode
    <3>4. userID' \in [Finish -> Finish \cup {""}]
      BY DEF FinishTypeOK, NetTypeOK, Code, MyCode
    <3> QED
      BY <3>1, <3>2, <3>3, <3>4 DEF FinishTypeOK
  <2>4. InOrder(c)'
    BY DEF Progress, FinishTypeOK, InOrder, HasSaved, Completed, StoreTypeOK, NetTypeOK, Code, User, Session, MyCode
  <2> QED BY <1>1, <1>2, <2>1, <2>2, <2>3, <2>4
<1>6. CASE SaveSession(c)
  <2> USE <1>6 DEF SaveSession, FinishStep, Proceed, Conclude
  <2>1. StoreTypeOK'
    <3>1. MySession(c) \in Session
      BY MySessionType DEF HasSaved
    <3> QED
      BY <3>1 DEF StoreTypeOK, SaveOAuthSession
  <2>2. NetTypeOK'
    BY DEF NetTypeOK
  <2>3. FinishTypeOK'
    BY DEF FinishTypeOK, FinishPC, Outcome
  <2>4. InOrder(c)'
    BY DEF Progress, FinishTypeOK, InOrder, HasSaved, Completed
  <2> QED BY <1>1, <1>2, <2>1, <2>2, <2>3, <2>4
<1>7. CASE ClearAuthRequest(c)
  <2> USE <1>7 DEF ClearAuthRequest, FinishStep, Proceed, Conclude
  <2>1. StoreTypeOK'
    BY DEF StoreTypeOK, DeleteOAuthAuthRequest
  <2>2. NetTypeOK'
    BY DEF NetTypeOK
  <2>3. FinishTypeOK'
    BY DEF FinishTypeOK, FinishPC, Outcome
  <2>4. InOrder(c)'
    BY DEF Progress, FinishTypeOK, InOrder, HasSaved, Completed
  <2> QED BY <1>1, <1>2, <2>1, <2>2, <2>3, <2>4
<1>8. CASE InsertUserIfMissing(c)
  <2> USE <1>8 DEF InsertUserIfMissing, FinishStep, Proceed, Conclude
  <2>1. StoreTypeOK'
    <3>1. did[c] \in Account
      BY DEF Progress, InOrder, HasSaved
    <3>2. [id |-> c, did |-> did[c], active |-> TRUE] \in User
      BY <3>1, Zenon DEF User
    <3> QED
      BY <3>2 DEF StoreTypeOK, InsertUser
  <2>2. NetTypeOK'
    BY DEF NetTypeOK
  <2>3. FinishTypeOK'
    <3>1. pc' \in [Finish -> FinishPC] /\ outcome' \in [Finish -> Outcome]
      BY DEF FinishTypeOK, FinishPC, Outcome
    <3>2. held' \in [Finish -> 0..MaxCodes]
      <4>1. \A s \in sessions : s.token \in 0..MaxCodes
        BY CodeNumbers DEF StoreTypeOK, Session
      <4> QED
        BY <4>1 DEF FinishTypeOK
    <3>3. did' \in [Finish -> Account \cup {""}] /\ full' \in [Finish -> BOOLEAN]
      BY DEF FinishTypeOK, StoreTypeOK, User, Session
    <3>4. userID' = userID \/ userID' = [userID EXCEPT ![c] = c]
      OBVIOUS
    <3>5. userID' \in [Finish -> Finish \cup {""}]
      <4>1. userID \in [Finish -> Finish \cup {""}] /\ c \in Finish \cup {""}
        BY DEF FinishTypeOK
      <4> QED
        BY ONLY <3>4, <4>1, c \in Finish
    <3> QED
      BY <3>1, <3>2, <3>3, <3>5 DEF FinishTypeOK
  <2>4. InOrder(c)'
    BY DEF Progress, FinishTypeOK, InOrder, HasSaved, Completed, StoreTypeOK, NetTypeOK, Code, User, Session, MyCode
  <2> QED BY <1>1, <1>2, <2>1, <2>2, <2>3, <2>4
<1>9. CASE SelectUser(c)
  <2> USE <1>9 DEF SelectUser, FinishStep, Proceed, Conclude
  <2>1. StoreTypeOK'
    BY DEF StoreTypeOK
  <2>2. NetTypeOK'
    BY DEF NetTypeOK
  <2>3. FinishTypeOK'
    <3>1. pc' \in [Finish -> FinishPC] /\ outcome' \in [Finish -> Outcome]
      BY DEF FinishTypeOK, FinishPC, Outcome
    <3>2. held' \in [Finish -> 0..MaxCodes]
      <4>1. \A s \in sessions : s.token \in 0..MaxCodes
        BY CodeNumbers DEF StoreTypeOK, Session
      <4> QED
        BY <4>1 DEF FinishTypeOK
    <3>3. did' \in [Finish -> Account \cup {""}] /\ full' \in [Finish -> BOOLEAN]
      BY DEF FinishTypeOK, StoreTypeOK, User, Session
    <3>4. userID' \in [Finish -> Finish \cup {""}]
      BY DEF FinishTypeOK, StoreTypeOK, User, Session
    <3> QED
      BY <3>1, <3>2, <3>3, <3>4 DEF FinishTypeOK
  <2>4. InOrder(c)'
    BY DEF Progress, FinishTypeOK, InOrder, HasSaved, Completed, StoreTypeOK, NetTypeOK, Code, User, Session, MyCode
  <2> QED BY <1>1, <1>2, <2>1, <2>2, <2>3, <2>4
<1>10. CASE ResumeSession(c)
  <2> USE <1>10 DEF ResumeSession, FinishStep, Proceed, Conclude
  <2>1. StoreTypeOK'
    BY DEF StoreTypeOK
  <2>2. NetTypeOK'
    BY DEF NetTypeOK
  <2>3. FinishTypeOK'
    <3>1. pc' \in [Finish -> FinishPC] /\ outcome' \in [Finish -> Outcome]
      BY DEF FinishTypeOK, FinishPC, Outcome
    <3>2. held' \in [Finish -> 0..MaxCodes]
      <4>1. \A s \in sessions : s.token \in 0..MaxCodes
        BY CodeNumbers DEF StoreTypeOK, Session
      <4> QED
        BY <4>1 DEF FinishTypeOK
    <3>3. did' \in [Finish -> Account \cup {""}] /\ full' \in [Finish -> BOOLEAN]
      BY DEF FinishTypeOK, StoreTypeOK, User, Session
    <3>4. userID' \in [Finish -> Finish \cup {""}]
      BY DEF FinishTypeOK, StoreTypeOK, User, Session
    <3> QED
      BY <3>1, <3>2, <3>3, <3>4 DEF FinishTypeOK
  <2>4. InOrder(c)'
    BY DEF Progress, FinishTypeOK, InOrder, HasSaved, Completed, StoreTypeOK, NetTypeOK, Code, User, Session, MyCode
  <2> QED BY <1>1, <1>2, <2>1, <2>2, <2>3, <2>4
<1>11. CASE GetRecord(c)
  <2> USE <1>11 DEF GetRecord, FinishStep, Proceed, Conclude
  <2>1. StoreTypeOK'
    <3>1. MySession(c) \in Session
      BY MySessionType DEF HasSaved
    <3> QED
      BY <3>1 DEF StoreTypeOK, PersistRefresh, SaveOAuthSession
  <2>2. NetTypeOK'
    BY DEF NetTypeOK
  <2>3. FinishTypeOK'
    BY DEF FinishTypeOK, FinishPC, Outcome
  <2>4. InOrder(c)'
    BY DEF Progress, FinishTypeOK, InOrder, HasSaved, Completed
  <2> QED BY <1>1, <1>2, <2>1, <2>2, <2>3, <2>4
<1>12. CASE PutRecordIfMissing(c)
  <2> USE <1>12 DEF PutRecordIfMissing, FinishStep, Proceed, Conclude
  <2>1. StoreTypeOK'
    <3>1. MySession(c) \in Session
      BY MySessionType DEF HasSaved
    <3> QED
      BY <3>1 DEF StoreTypeOK, PersistRefresh, SaveOAuthSession
  <2>2. NetTypeOK'
    BY DEF NetTypeOK, PutEmptyProfile, Profile
  <2>3. FinishTypeOK'
    BY DEF FinishTypeOK, FinishPC, Outcome
  <2>4. InOrder(c)'
    BY DEF Progress, FinishTypeOK, InOrder, HasSaved, Completed
  <2> QED BY <1>1, <1>2, <2>1, <2>2, <2>3, <2>4
<1>13. CASE DeleteFailedSession(c)
  <2> USE <1>13 DEF DeleteFailedSession, FinishStep, Proceed, Conclude
  <2>1. StoreTypeOK'
    BY DEF StoreTypeOK, DeleteOAuthSession
  <2>2. NetTypeOK'
    BY DEF NetTypeOK
  <2>3. FinishTypeOK'
    BY DEF FinishTypeOK, FinishPC, Outcome
  <2>4. InOrder(c)'
    BY DEF Progress, FinishTypeOK, InOrder, HasSaved, Completed
  <2> QED BY <1>1, <1>2, <2>1, <2>2, <2>3, <2>4
<1> QED BY <1>3, <1>4, <1>5, <1>6, <1>7, <1>8, <1>9, <1>10, <1>11, <1>12, <1>13 DEF FinishNext

\* Each statement and request of Logout.
LEMMA LogoutTypeInv == ASSUME TypeInv, NEW l \in Logout, LogoutNext(l) PROVE TypeInv'
<1> USE DEF TypeInv, TypeOK, LogoutNext, LogoutStep, ResumeToRevoke, Revoke, DeleteLoggedOut
<1>1. UNCHANGED <<authRequests, users, startVars, finishVars, target, expired>> /\ lpc[l] # "idle"
  OBVIOUS
<1>2. StartTypeOK' /\ FinishTypeOK' /\ (expired \subseteq Call)'
  BY <1>1 DEF StartTypeOK, FinishTypeOK
<1>3. StoreTypeOK' /\ NetTypeOK'
  BY DEF StoreTypeOK, NetTypeOK, DeleteOAuthSession, RevokeTokens
<1>4. LogoutTypeOK'
  <2>1. \A s \in sessions : s.token \in 0..MaxCodes
    BY CodeNumbers DEF StoreTypeOK, Session
  <2> QED
    BY <2>1 DEF LogoutTypeOK, LogoutPC
<1>5. \A m \in Logout : lpc'[m] # "idle" => lpc[m] # "idle"
  BY <1>1 DEF LogoutTypeOK
<1>6. Progress'
  BY <1>1, <1>5 DEF Progress, InOrder, HasSaved, Completed, FlowOf, Started
<1> QED BY <1>2, <1>3, <1>4, <1>6

\* A form post with a handle calls StartLogin.
LEMMA StartLoginTypeInv ==
  ASSUME TypeInv, NEW f \in Flow, NEW a \in Account, StartLogin(f, a)
  PROVE  TypeInv'
<1> USE DEF TypeInv, TypeOK, StartLogin, StartStep
<1>1. StoreTypeOK' /\ NetTypeOK' /\ FinishTypeOK' /\ LogoutTypeOK' /\ (expired \subseteq Call)'
  BY DEF StoreTypeOK, NetTypeOK, FinishTypeOK, LogoutTypeOK
<1>2. StartTypeOK'
  BY DEF StartTypeOK, StartPC
<1>3. Progress'
  BY DEF Progress, InOrder, HasSaved, Completed, FlowOf, Started, StartTypeOK
<1> QED BY <1>1, <1>2, <1>3

\* A callback is a denial, or cut short, or has a code.
LEMMA CallbackForms ==
  ASSUME NEW f, NEW callback \in Callbacks(f)
  PROVE  \/ callback = Denied(f) \/ callback = Returned(f, 0, AuthServerOf[account[f]])
         \/ \E n \in 1..issued[f], s \in Server : callback = Returned(f, n, s)
  BY DEF Callbacks

\* A callback calls FinishLogin.
LEMMA FinishLoginTypeInv ==
  ASSUME TypeInv, NEW c \in Finish, NEW f \in Started, NEW state \in Started \cup {""},
         NEW callback \in Callbacks(f), FinishLogin(c, state, callback)
  PROVE  TypeInv'
<1> USE DEF TypeInv, TypeOK, FinishLogin, FinishStep
<1>1. StoreTypeOK' /\ NetTypeOK' /\ StartTypeOK' /\ LogoutTypeOK' /\ (expired \subseteq Call)'
  BY DEF StoreTypeOK, NetTypeOK, StartTypeOK, LogoutTypeOK
<1>2. callback \in Callback /\ callback.state = f
  <2>1. f \in Flow /\ account[f] \in Account
    BY DEF Progress, Started
  <2>2. AuthServerOf[account[f]] \in Server
    BY <2>1, PartiesAssumption
  <2>3. \A n \in 1..issued[f] : n \in 0..MaxCodes
    <3>1. issued[f] \in 0..MaxCodes
      BY <2>1 DEF NetTypeOK
    <3> QED BY ONLY <3>1, CodeNumbers, UpTo
  <2>4. \A n \in 0..MaxCodes, s \in Server :
          Returned(f, n, s) \in Callback /\ Returned(f, n, s).state = f
    BY <2>1 DEF Returned, Callback
  <2>5. Denied(f) \in Callback /\ Denied(f).state = f
    BY <2>1, <2>2, CodeNumbers DEF Denied, Callback
  <2>6. \/ callback = Denied(f) \/ callback = Returned(f, 0, AuthServerOf[account[f]])
        \/ \E n \in 1..issued[f], s \in Server : callback = Returned(f, n, s)
    BY CallbackForms
  <2> QED BY <2>2, <2>3, <2>4, <2>5, <2>6, CodeNumbers
<1>3. FinishTypeOK'
  <2>1. [state |-> state, callback |-> callback] \in Input
    BY <1>2 DEF Input, Started
  <2>2. input' \in [Finish -> Input]
    BY <2>1 DEF FinishTypeOK
  <2> QED BY <2>2 DEF FinishTypeOK, FinishPC
<1>4. \A d \in Finish : pc'[d] # "idle" => FlowOf(d)' \in Started'
  BY <1>2 DEF FlowOf, FinishTypeOK, Progress, Started
<1>5. \A d \in Finish : InOrder(d)'
  BY DEF FinishTypeOK, Progress, InOrder, HasSaved, Completed
<1>6. Progress'
  BY <1>4, <1>5 DEF Progress
<1> QED BY <1>1, <1>3, <1>6

\* The process dies.
LEMMA CrashTypeInv == ASSUME TypeInv, Crash PROVE TypeInv'
<1> USE DEF TypeInv, TypeOK, Crash
<1>1. StoreTypeOK' /\ NetTypeOK' /\ (expired \subseteq Call)'
  BY DEF StoreTypeOK, NetTypeOK
<1>2. StartTypeOK' /\ FinishTypeOK' /\ LogoutTypeOK'
  BY DEF StartTypeOK, FinishTypeOK, LogoutTypeOK, StartPC, FinishPC, LogoutPC
<1>3. /\ \A f \in Flow : start'[f] # "idle" <=> start[f] # "idle"
      /\ \A c \in Finish : pc'[c] = IF FinishRunning(c) THEN "crashed" ELSE pc[c]
      /\ \A l \in Logout : lpc'[l] # "idle" <=> lpc[l] # "idle"
  BY DEF StartRunning, LogoutRunning
<1>4. Started' = Started
  BY DEF Started, StartRunning
<1>5. \A c \in Finish : InOrder(c)'
  BY <1>3 DEF Progress, InOrder, HasSaved, Completed, FinishRunning
<1>6. \A c \in Finish : pc'[c] # "idle" => FlowOf(c)' \in Started'
  BY <1>3, <1>4 DEF Progress, FlowOf, FinishRunning
<1>7. Progress'
  BY <1>3, <1>5, <1>6 DEF Progress
<1> QED BY <1>1, <1>2, <1>7

\* The steps of everyone else: users, other apps, the site's operators, time.
LEMMA WorldTypeInv ==
  ASSUME TypeInv,
         \/ \E f \in Flow : Authorize(f)
         \/ \E a \in Account : EditProfileElsewhere(a)
         \/ \E u \in users : SetUserActive(u)
         \/ \E j \in Call : Expire(j)
         \/ \E l \in Logout, c \in Finish : LogOut(l, c)
         \/ UNCHANGED vars
  PROVE  TypeInv'
<1> USE DEF TypeInv, TypeOK
<1>0. ASSUME UNCHANGED <<startVars, finishVars, logoutVars>>
      PROVE  StartTypeOK' /\ FinishTypeOK' /\ LogoutTypeOK' /\ Progress'
  <2>1. StartTypeOK' /\ FinishTypeOK' /\ LogoutTypeOK'
    BY <1>0 DEF StartTypeOK, FinishTypeOK, LogoutTypeOK
  <2>2. Progress'
    BY <1>0 DEF Progress, InOrder, HasSaved, Completed, FlowOf, Started
  <2> QED BY <2>1, <2>2
<1>1. CASE \E f \in Flow : Authorize(f)
  <2>1. PICK f \in Flow, subject \in Account, full2 \in BOOLEAN : IssueCode(f, subject, full2)
    BY <1>1 DEF Authorize
  <2>2. issued[f] + 1 \in 1..MaxCodes
    BY <2>1, CodeNumbers DEF IssueCode, NetTypeOK
  <2>3. [flow |-> f, n |-> issued[f] + 1, subject |-> subject, full |-> full2] \in Code
    BY <2>2, Zenon DEF Code
  <2>4. issued' \in [Flow -> 0..MaxCodes]
    BY <2>1, <2>2, CodeNumbers DEF IssueCode, NetTypeOK
  <2>5. NetTypeOK'
    BY <1>1, <2>1, <2>3, <2>4 DEF IssueCode, NetTypeOK, Authorize
  <2> QED BY <1>0, <1>1, <2>5 DEF Authorize, Others, StoreTypeOK
<1>2. CASE \E a \in Account : EditProfileElsewhere(a)
  <2>1. NetTypeOK'
    BY <1>2 DEF NetTypeOK, EditProfileElsewhere, Profile
  <2> QED BY <1>0, <1>2, <2>1 DEF EditProfileElsewhere, Others, StoreTypeOK
<1>3. CASE \E u \in users : SetUserActive(u)
  <2>1. PICK u \in users : SetUserActive(u)
    BY <1>3
  <2>2. [u EXCEPT !.active = ~u.active] \in User
    BY Zenon DEF StoreTypeOK, User
  <2>3. StoreTypeOK'
    BY <2>1, <2>2 DEF SetUserActive, SetActive, StoreTypeOK
  <2> QED BY <1>0, <2>1, <2>3 DEF SetUserActive, Others, NetTypeOK
<1>4. CASE \E j \in Call : Expire(j)
  BY <1>0, <1>4 DEF Expire, NetTypeOK, StoreTypeOK
<1>5. CASE \E l \in Logout, c \in Finish : LogOut(l, c)
  <2>1. PICK l \in Logout, c \in Finish :
          /\ lpc' = [lpc EXCEPT ![l] = "resume"] /\ target' = [target EXCEPT ![l] = c]
          /\ UNCHANGED <<lheld, storeVars, netVars, startVars, finishVars, expired>>
    BY ONLY <1>5 DEF LogOut, LogoutStep, storeVars, netVars, startVars, finishVars, memVars
  <2>2. LogoutTypeOK
    OBVIOUS
  <2>3. LogoutTypeOK'
    BY ONLY <2>1, <2>2 DEF LogoutTypeOK, LogoutPC
  <2>4. \A m \in Logout : lpc'[m] # "idle" => target'[m] \in Finish
    BY <2>1 DEF LogoutTypeOK, Progress
  <2>5. Progress'
    BY <2>1, <2>4 DEF Progress, InOrder, HasSaved, Completed, FlowOf, Started
  <2> QED BY <2>1, <2>3, <2>5 DEF NetTypeOK, StoreTypeOK, StartTypeOK, FinishTypeOK
<1>6. CASE UNCHANGED vars
  BY <1>0, <1>6 DEF vars, NetTypeOK, StoreTypeOK
<1> QED BY <1>1, <1>2, <1>3, <1>4, <1>5, <1>6

\* Every step.
LEMMA NextTypeInv == TypeInv /\ [Next]_vars => TypeInv'
  BY StartTypeInv, FinishTypeInv, LogoutTypeInv, StartLoginTypeInv, FinishLoginTypeInv, CrashTypeInv,
     WorldTypeInv DEF Next

\* The invariant that every other proof starts from.
LEMMA TypeInvariant == Spec => []TypeInv
<1>1. Init => TypeInv
  BY InitTypeInv
<1>2. TypeInv /\ [Next]_vars => TypeInv'
  BY NextTypeInv
<1> QED BY <1>1, <1>2, PTL DEF Spec

\* Every variable of a login keeps its type, for any number of calls and codes.
THEOREM TypeCorrect == Spec => []TypeOK
<1>1. TypeInv => TypeOK
  BY DEF TypeInv
<1> QED BY <1>1, TypeInvariant, PTL

----------------------------------------------------------------------------
(* No session is left without a login *)

\* The login that answers for a session in the database.
Responsible(c, s) == Owns(c, s) \/ Abandoned(c, s)

\* A delete that failed was the last thing its FinishLogin did.
SessionInv ==
  /\ SessionsAccountedFor
  /\ \A c \in sessionLeft : pc[c] = "done"

\* A FinishLogin that has saved its session answers for it until it deletes it.
LEMMA FinishSessionInv ==
  ASSUME TypeInv, SessionInv, NEW c \in Finish, FinishNext(c)
  PROVE  SessionInv'
<1>1. UNCHANGED input /\ Untouched(c)
  BY FinishFrame
<1>2. /\ \/ sessionLeft' = sessionLeft
         \/ DeleteFailedSession(c) /\ sessions' = sessions /\ sessionLeft' = sessionLeft \cup {c}
      /\ pc[c] # "done"
  BY DEF FinishNext, FinishStep, Proceed, Conclude, LoadAuthRequest, DeleteAuthRequest, ExchangeToken,
         SaveSession, ClearAuthRequest, InsertUserIfMissing, SelectUser, ResumeSession, GetRecord,
         PutRecordIfMissing, DeleteFailedSession
<1>3. (\A d \in sessionLeft : pc[d] = "done")'
  <2>1. DeleteFailedSession(c) => pc'[c] = "done"
    BY DEF DeleteFailedSession, FinishStep, TypeInv, TypeOK, FinishTypeOK
  <2>2. \A d \in sessionLeft : d # c /\ d \in Finish /\ pc'[d] = "done"
    BY <1>1, <1>2 DEF SessionInv, Untouched, TypeInv, TypeOK, FinishTypeOK
  <2> QED BY <1>2, <2>1, <2>2
<1>4. ASSUME NEW d \in Finish, d # c, NEW s, Responsible(d, s)
      PROVE  Responsible(d, s)'
  BY <1>1, <1>2, <1>4 DEF Responsible, Owns, Abandoned, Untouched, FlowOf, HasSaved, Completed
<1>5. CASE DeleteFailedSession(c)
  <2>1. sessions' \subseteq sessions /\ did' = did
    BY <1>5 DEF DeleteFailedSession, DeleteOAuthSession
  <2>2. \/ c \in sessionLeft'
        \/ \A s \in sessions' : s.did # did[c] \/ s.id # FlowOf(c)
    BY <1>5 DEF DeleteFailedSession, DeleteOAuthSession
  <2>3. ASSUME NEW s \in sessions', Responsible(c, s) PROVE Responsible(c, s)'
    BY <1>1, <2>1, <2>2, <2>3 DEF Responsible, Owns, Abandoned, FlowOf
  <2> QED BY <1>3, <1>4, <2>1, <2>3 DEF SessionInv, SessionsAccountedFor, Responsible
<1>6. CASE ~DeleteFailedSession(c)
  <2>1. \/ UNCHANGED <<sessions, did>> /\ (HasSaved(c) => HasSaved(c)' \/ Completed(c)')
        \/ UNCHANGED sessions /\ ~HasSaved(c)
        \/ /\ sessions' \subseteq sessions \cup {MySession(c)}
           /\ UNCHANGED did /\ (HasSaved(c)' \/ Completed(c)')
    BY <1>6 DEF FinishNext, FinishStep, Proceed, Conclude, LoadAuthRequest, DeleteAuthRequest, ExchangeToken,
         SaveSession, ClearAuthRequest, InsertUserIfMissing, SelectUser, ResumeSession, GetRecord,
         PutRecordIfMissing, PersistRefresh, SaveOAuthSession, HasSaved, Completed,
         TypeInv, TypeOK, FinishTypeOK
  <2>2. c \notin sessionLeft /\ pc[c] # "crashed" /\ ~Completed(c)
    BY <1>2, <1>6 DEF SessionInv, Completed, FinishNext, FinishStep, Proceed, Conclude, LoadAuthRequest,
         DeleteAuthRequest, ExchangeToken, SaveSession, ClearAuthRequest, InsertUserIfMissing, SelectUser,
         ResumeSession, GetRecord, PutRecordIfMissing
  <2>3. ASSUME NEW s, Responsible(c, s) PROVE Responsible(c, s)'
    BY <1>1, <2>1, <2>2, <2>3 DEF Responsible, Owns, Abandoned, FlowOf
  <2>4. ASSUME NEW s \in sessions', s \notin sessions PROVE Responsible(c, s)'
    BY <1>1, <2>1, <2>4 DEF Responsible, Owns, FlowOf, MySession
  <2> QED BY <1>3, <1>4, <2>3, <2>4 DEF SessionInv, SessionsAccountedFor, Responsible
<1> QED BY <1>5, <1>6

\* Every step.
LEMMA NextSessionInv == TypeInv /\ SessionInv /\ [Next]_vars => SessionInv'
<1> SUFFICES ASSUME TypeInv, SessionInv, [Next]_vars PROVE SessionInv'
  OBVIOUS
<1>1. ASSUME sessions' \subseteq sessions, UNCHANGED finishVars PROVE SessionInv'
  BY <1>1 DEF SessionInv, SessionsAccountedFor, Owns, Abandoned, FlowOf, HasSaved, Completed
<1>2. CASE \E c \in Finish : FinishNext(c)
  BY <1>2, FinishSessionInv
<1>3. CASE \E c \in Finish : \E state, callback : FinishLogin(c, state, callback)
  <2>1. PICK c \in Finish : \E state, callback : FinishLogin(c, state, callback)
    BY <1>3
  <2>2. \A s : ~Responsible(c, s)
    BY <2>1 DEF FinishLogin, FinishStep, SessionInv, Responsible, Owns, Abandoned, HasSaved, Completed
  <2>3. \A d \in Finish : \A s : d # c /\ Responsible(d, s) => Responsible(d, s)'
    BY <2>1 DEF FinishLogin, FinishStep, Responsible, Owns, Abandoned, HasSaved, Completed, FlowOf
  <2>4. UNCHANGED <<sessions, sessionLeft>> /\ \A d \in sessionLeft : pc'[d] = "done"
    BY <2>1 DEF FinishLogin, FinishStep, SessionInv, TypeInv, TypeOK, FinishTypeOK
  <2> QED BY <2>2, <2>3, <2>4 DEF SessionInv, SessionsAccountedFor, Responsible
<1>4. CASE Crash
  <2>1. \A c \in Finish : pc'[c] = IF FinishRunning(c) THEN "crashed" ELSE pc[c]
    BY <1>4 DEF Crash
  <2>2. \A c \in Finish : \A s : Responsible(c, s) => Responsible(c, s)'
    BY <1>4, <2>1 DEF Crash, Responsible, Owns, Abandoned, HasSaved, Completed, FlowOf, FinishRunning
  <2>3. UNCHANGED <<sessions, sessionLeft>> /\ \A d \in sessionLeft : pc'[d] = "done"
    BY <1>4, <2>1 DEF Crash, SessionInv, FinishRunning, TypeInv, TypeOK, FinishTypeOK
  <2> QED BY <2>2, <2>3 DEF SessionInv, SessionsAccountedFor, Responsible
<1>5. CASE \E f \in Flow : StartNext(f) \/ Authorize(f) \/ \E a \in Account : StartLogin(f, a)
  BY <1>1, <1>5 DEF StartNext, ResolveIdentity, PushAuthRequest, SaveAuthRequest, Authorize, StartLogin,
     StartStep, Others
<1>6. CASE \E l \in Logout : LogoutNext(l) \/ \E c \in Finish : LogOut(l, c)
  BY <1>1, <1>6 DEF LogoutNext, ResumeToRevoke, Revoke, DeleteLoggedOut, LogOut, LogoutStep,
     DeleteOAuthSession
<1>7. CASE \/ \E a \in Account : EditProfileElsewhere(a)
           \/ \E u \in users : SetUserActive(u)
           \/ \E j \in Call : Expire(j)
           \/ UNCHANGED vars
  BY <1>1, <1>7 DEF EditProfileElsewhere, SetUserActive, Expire, Others, vars
<1> QED BY <1>2, <1>3, <1>4, <1>5, <1>6, <1>7 DEF Next

\* Every OAuth session in the database is that of a login in progress or
\* completed, of a FinishLogin whose deferred delete failed, or of one that died
\* with the process: service/auth.go's deferred cleanup misses no error path.
THEOREM SessionsAreAccountedFor == Spec => []SessionsAccountedFor
<1>1. Init => SessionInv
  BY DEF Init, StoreInit, SessionInv, SessionsAccountedFor
<1>2. SessionInv => SessionsAccountedFor
  BY DEF SessionInv
<1> QED BY <1>1, <1>2, TypeInvariant, NextSessionInv, PTL DEF Spec

\* What holds of a FinishLogin when no statement fails and no process dies.
LEMMA NothingAbandoned ==
  ASSUME ~StoreFails, ~Crashes
  PROVE  Spec => [](\A c \in Finish : c \notin sessionLeft /\ pc[c] # "crashed")
<1> DEFINE Inv == sessionLeft = {} /\ \A c \in Finish : pc[c] # "crashed"
<1>1. Init => Inv
  BY DEF Init
<1>2. TypeInv /\ Inv /\ [Next]_vars => Inv'
  <2> SUFFICES ASSUME TypeInv, Inv, [Next]_vars PROVE Inv'
    OBVIOUS
  <2>1. CASE \E c \in Finish : FinishNext(c)
    <3>1. PICK c \in Finish : FinishNext(c)
      BY <2>1
    <3>2. sessionLeft' = {} /\ pc'[c] # "crashed"
      BY <3>1 DEF FinishNext, FinishStep, Proceed, Conclude, LoadAuthRequest, DeleteAuthRequest,
         ExchangeToken, SaveSession, ClearAuthRequest, InsertUserIfMissing, SelectUser, ResumeSession,
         GetRecord, PutRecordIfMissing, DeleteFailedSession, TypeInv, TypeOK, FinishTypeOK
    <3> QED BY <3>1, <3>2, FinishFrame DEF Untouched
  <2>2. CASE \E c \in Finish : \E state, callback : FinishLogin(c, state, callback)
    BY <2>2 DEF FinishLogin, FinishStep, TypeInv, TypeOK, FinishTypeOK
  <2>3. CASE \E f \in Flow : StartNext(f) \/ Authorize(f) \/ \E a \in Account : StartLogin(f, a)
    BY <2>3 DEF StartNext, ResolveIdentity, PushAuthRequest, SaveAuthRequest, Authorize, StartLogin,
       StartStep, Others
  <2>4. CASE \E l \in Logout : LogoutNext(l) \/ \E c \in Finish : LogOut(l, c)
    BY <2>4 DEF LogoutNext, ResumeToRevoke, Revoke, DeleteLoggedOut, LogOut, LogoutStep
  <2>5. CASE \/ \E a \in Account : EditProfileElsewhere(a)
             \/ \E u \in users : SetUserActive(u)
             \/ \E j \in Call : Expire(j)
             \/ UNCHANGED vars
    BY <2>5 DEF EditProfileElsewhere, SetUserActive, Expire, Others, vars
  <2>6. ~Crash
    BY DEF Crash
  <2> QED BY <2>1, <2>2, <2>3, <2>4, <2>5, <2>6 DEF Next
<1>3. Inv => \A c \in Finish : c \notin sessionLeft /\ pc[c] # "crashed"
  OBVIOUS
<1> QED BY <1>1, <1>2, <1>3, TypeInvariant, PTL DEF Spec

\* FinishLogin leaves no OAuth session behind on any error, as its comment says,
\* if statements fail only for their context and the process does not die.
THEOREM NoSessionIsOrphaned ==
  ASSUME ~StoreFails, ~Crashes
  PROVE  Spec => []NoOrphanSession
<1>1. SessionsAccountedFor /\ (\A c \in Finish : c \notin sessionLeft /\ pc[c] # "crashed")
        => NoOrphanSession
  BY DEF SessionsAccountedFor, NoOrphanSession, Abandoned
<1> QED BY <1>1, SessionsAreAccountedFor, NothingAbandoned, PTL

----------------------------------------------------------------------------
(* The profile *)

\* The app's empty profile never replaces one with the user's own content,
\* although ensureProfile looks and writes in two requests.
THEOREM ProfileIsNeverReplaced == Spec => ProfileNeverReplaced
<1> DEFINE Keeps == \A a \in Account : profile[a] = "theirs" => profile'[a] # "empty"
<1>1. TypeInv /\ [Next]_vars => [Keeps]_profile
  <2> SUFFICES ASSUME TypeInv, Next, profile' # profile PROVE Keeps
    BY DEF vars
  <2>1. CASE \E c \in Finish : FinishNext(c)
    <3>1. PICK a : SwapFits(a) /\ PutEmptyProfile(a)
      BY <2>1 DEF FinishNext, LoadAuthRequest, DeleteAuthRequest, ExchangeToken, SaveSession,
         ClearAuthRequest, InsertUserIfMissing, SelectUser, ResumeSession, GetRecord, PutRecordIfMissing,
         DeleteFailedSession
    <3> QED BY <3>1 DEF SwapFits, PutEmptyProfile, TypeInv, TypeOK, NetTypeOK
  <2>2. CASE \E a \in Account : EditProfileElsewhere(a)
    BY <2>2 DEF EditProfileElsewhere, TypeInv, TypeOK, NetTypeOK
  <2>3. ~(\E c \in Finish : \E state, callback : FinishLogin(c, state, callback))
    BY DEF FinishLogin
  <2>4. \A f \in Flow : ~StartNext(f) /\ ~Authorize(f) /\ \A a \in Account : ~StartLogin(f, a)
    BY DEF StartNext, ResolveIdentity, PushAuthRequest, SaveAuthRequest, Authorize, StartLogin
  <2>5. \A l \in Logout : ~LogoutNext(l) /\ \A c \in Finish : ~LogOut(l, c)
    BY DEF LogoutNext, ResumeToRevoke, Revoke, DeleteLoggedOut, LogOut
  <2>6. ~Crash /\ (\A u \in users : ~SetUserActive(u)) /\ (\A j \in Call : ~Expire(j))
    BY DEF Crash, SetUserActive, Expire
  <2> QED BY <2>1, <2>2, <2>3, <2>4, <2>5, <2>6 DEF Next
<1> QED BY <1>1, TypeInvariant, PTL DEF Spec, ProfileNeverReplaced

----------------------------------------------------------------------------
(* One user per account *)

\* A FinishLogin has its user from CreateUserIfMissing on.
HasUser(c) == pc[c] \in {"resumeGet", "get", "resumePut", "put"} \/ Completed(c)
\* u is the user c has found or inserted.
UserOf(c, u) == u.id = userID[c] /\ u.did = did[c]

\* A FinishLogin that has not come to its insert has inserted no user.
UserInv ==
  /\ \A u, v \in users : u.did = v.did \/ u.id = v.id => u = v
  /\ \A u \in users : pc[u.id] \notin {"idle", "load", "exchange", "save", "clear", "insert"}
  /\ \A c \in Finish : HasUser(c) => \E u \in users : UserOf(c, u)

\* CreateUserIfMissing inserts a user only where there is none.
LEMMA FinishUserInv ==
  ASSUME TypeInv, UserInv, NEW c \in Finish, FinishNext(c)
  PROVE  UserInv'
<1>1. Untouched(c)
  BY FinishFrame
<1>2. users \subseteq User /\ users' \subseteq User
  BY FinishTypeInv DEF TypeInv, TypeOK, StoreTypeOK
<1>3. \A d \in Finish : d # c => /\ HasUser(d)' => HasUser(d)
                                 /\ \A u : UserOf(d, u) => UserOf(d, u)'
  BY <1>1 DEF Untouched, HasUser, Completed, UserOf
<1>4. CASE InsertUserIfMissing(c) /\ users' # users
  <2>1. /\ UserMissing(did[c]) /\ InsertUser(c, did[c])
        /\ pc[c] = "insert" /\ pc'[c] = "resumeGet"
        /\ userID'[c] = c /\ did'[c] = did[c]
    BY <1>4 DEF InsertUserIfMissing, Proceed, Conclude, FinishStep, TypeInv, TypeOK, FinishTypeOK
  <2>2. PICK new : users' = users \cup {new} /\ new.id = c /\ new.did = did[c]
    <3> DEFINE row == [id |-> c, did |-> did[c], active |-> TRUE]
    <3>1. users' = users \cup {row} /\ row.id = c /\ row.did = did[c]
      BY <2>1 DEF InsertUser
    <3> HIDE DEF row
    <3> QED BY ONLY <3>1
  <2>3. \A u \in users : u.did # did[c] /\ u.id # c
    BY <2>1 DEF UserMissing, UserInv
  <2>4. (\A u, v \in users : u.did = v.did \/ u.id = v.id => u = v)'
    BY <2>2, <2>3 DEF UserInv
  <2>5. (\A u \in users : pc[u.id] \notin {"idle", "load", "exchange", "save", "clear", "insert"})'
    BY <1>1, <1>2, <2>1, <2>2, <2>3 DEF UserInv, Untouched, User
  <2>6. UserOf(c, new)'
    BY <2>1, <2>2 DEF UserOf
  <2>7. \A d \in Finish : HasUser(d)' => \E u \in users' : UserOf(d, u)'
    BY <1>3, <2>2, <2>6 DEF UserInv
  <2> QED BY <2>4, <2>5, <2>7 DEF UserInv
<1>5. CASE UNCHANGED users
  <2>1. pc[c] \notin {"idle", "load", "exchange", "save", "clear", "insert"}
          => pc'[c] \notin {"idle", "load", "exchange", "save", "clear", "insert"}
    BY DEF FinishNext, FinishStep, Proceed, Conclude, LoadAuthRequest, DeleteAuthRequest, ExchangeToken,
         SaveSession, ClearAuthRequest, InsertUserIfMissing, SelectUser, ResumeSession, GetRecord,
         PutRecordIfMissing, DeleteFailedSession, TypeInv, TypeOK, FinishTypeOK
  <2>2. \A u \in users : pc'[u.id] \notin {"idle", "load", "exchange", "save", "clear", "insert"}
    BY <1>1, <1>2, <2>1 DEF UserInv, Untouched, User
  <2>3. ASSUME HasUser(c)' PROVE \E u \in users : UserOf(c, u)'
    <3>1. CASE HasUser(c) /\ userID'[c] = userID[c] /\ did'[c] = did[c]
      BY <3>1 DEF UserInv, UserOf
    <3>2. CASE SelectUser(c)
      BY <2>3, <3>2 DEF SelectUser, Proceed, Conclude, FinishStep, HasUser, Completed, UserOf,
         TypeInv, TypeOK, FinishTypeOK
    <3>3. CASE InsertUserIfMissing(c)
      <4>1. InsertUserIfMissing(c) => ~HasUser(c)' \/ users' # users
        <5>1. ASSUME InsertUser(c, did[c]), UserMissing(did[c]) PROVE users' # users
          <6> DEFINE new == [id |-> c, did |-> did[c], active |-> TRUE]
          <6>1. new \in users' /\ new.did = did[c]
            BY <5>1 DEF InsertUser
          <6> QED BY <5>1, <6>1 DEF UserMissing
        <5> QED BY <5>1 DEF InsertUserIfMissing, Proceed, Conclude, FinishStep, HasUser, Completed,
               TypeInv, TypeOK, FinishTypeOK
      <4> QED BY <1>5, <2>3, <3>3, <4>1
    <3>4. CASE ~SelectUser(c) /\ ~InsertUserIfMissing(c)
      <4>1. HasUser(c) /\ userID'[c] = userID[c] /\ did'[c] = did[c]
        <5>1. outcome[c] = "ok" => pc[c] = "done"
          BY DEF TypeInv, Progress, InOrder
        <5> QED
          BY <2>3, <3>4, <5>1 DEF FinishNext, FinishStep, Proceed, Conclude, LoadAuthRequest,
            DeleteAuthRequest, ExchangeToken, SaveSession, ClearAuthRequest, ResumeSession, GetRecord,
            PutRecordIfMissing, DeleteFailedSession, HasUser, Completed, TypeInv, TypeOK, FinishTypeOK
      <4> QED BY <3>1, <4>1
    <3> QED BY <3>2, <3>3, <3>4
  <2>4. \A d \in Finish : HasUser(d)' => \E u \in users' : UserOf(d, u)'
    BY <1>3, <1>5, <2>3 DEF UserInv
  <2> QED BY <1>5, <2>2, <2>4 DEF UserInv
<1>6. users' = users \/ InsertUserIfMissing(c)
  BY DEF FinishNext, LoadAuthRequest, DeleteAuthRequest, ExchangeToken, SaveSession, ClearAuthRequest,
     SelectUser, ResumeSession, GetRecord, PutRecordIfMissing, DeleteFailedSession
<1> QED BY <1>4, <1>5, <1>6

\* Every step.
LEMMA NextUserInv == TypeInv /\ UserInv /\ [Next]_vars => UserInv'
<1> SUFFICES ASSUME TypeInv, UserInv, [Next]_vars PROVE UserInv'
  OBVIOUS
<1>1. ASSUME UNCHANGED users, UNCHANGED finishVars PROVE UserInv'
  BY <1>1 DEF UserInv, HasUser, Completed, UserOf
<1>2. CASE \E c \in Finish : FinishNext(c)
  BY <1>2, FinishUserInv
<1>3. CASE \E c \in Finish : \E state, callback : FinishLogin(c, state, callback)
  <2>1. PICK c \in Finish : /\ pc[c] = "idle" /\ pc' = [pc EXCEPT ![c] = "load"]
                            /\ UNCHANGED <<memVars, outcome, users>>
    BY <1>3 DEF FinishLogin, FinishStep
  <2>2. \A u \in users : u.id \in Finish /\ u.id # c
    BY <2>1 DEF UserInv, TypeInv, TypeOK, StoreTypeOK, User
  <2>3. \A d \in Finish : HasUser(d)' => HasUser(d)
    BY <2>1 DEF HasUser, Completed, TypeInv, TypeOK, FinishTypeOK
  <2>4. \A u \in users : pc'[u.id] = pc[u.id]
    BY <2>1, <2>2 DEF TypeInv, TypeOK, FinishTypeOK
  <2> QED BY <2>1, <2>3, <2>4 DEF UserInv, UserOf
<1>4. CASE Crash
  <2>1. \A c \in Finish : pc'[c] = IF FinishRunning(c) THEN "crashed" ELSE pc[c]
    BY <1>4 DEF Crash
  <2>2. \A c \in Finish : HasUser(c)' => HasUser(c)
    BY <1>4, <2>1 DEF Crash, HasUser, Completed
  <2>3. \A u \in users : u.id \in Finish
    BY DEF TypeInv, TypeOK, StoreTypeOK, User
  <2>4. \A u \in users : pc'[u.id] \notin {"idle", "load", "exchange", "save", "clear", "insert"}
    BY <2>1, <2>3 DEF UserInv, FinishRunning
  <2>5. UNCHANGED <<users, userID, did>>
    BY <1>4 DEF Crash
  <2> QED BY <2>2, <2>4, <2>5 DEF UserInv, UserOf
<1>5. CASE \E u \in users : SetUserActive(u)
  <2>1. PICK u \in users : users' = (users \ {u}) \cup {[u EXCEPT !.active = ~u.active]}
    BY <1>5 DEF SetUserActive, SetActive
  <2> DEFINE flipped == [u EXCEPT !.active = ~u.active]
  <2>2. flipped.id = u.id /\ flipped.did = u.did
    BY DEF TypeInv, TypeOK, StoreTypeOK, User
  <2>3. users' = (users \ {u}) \cup {flipped}
    BY <2>1
  <2> HIDE DEF flipped
  <2>4. UNCHANGED finishVars
    BY <1>5 DEF SetUserActive, Others
  <2>5. (\A v, w \in users : v.did = w.did \/ v.id = w.id => v = w)'
    BY <2>2, <2>3 DEF UserInv
  <2>6. (\A v \in users : pc[v.id] \notin {"idle", "load", "exchange", "save", "clear", "insert"})'
    BY <2>2, <2>3, <2>4 DEF UserInv
  <2>7. \A c \in Finish, v \in users : UserOf(c, v) => \E w \in users' : UserOf(c, w)'
    BY <2>2, <2>3, <2>4 DEF UserOf
  <2>8. \A c \in Finish : HasUser(c)' => HasUser(c)
    BY <2>4 DEF HasUser, Completed
  <2>9. \A c \in Finish : HasUser(c)' => \E w \in users' : UserOf(c, w)'
    BY <2>7, <2>8 DEF UserInv
  <2> QED BY <2>5, <2>6, <2>9 DEF UserInv
<1>6. CASE \E f \in Flow : StartNext(f) \/ Authorize(f) \/ \E a \in Account : StartLogin(f, a)
  BY <1>1, <1>6 DEF StartNext, ResolveIdentity, PushAuthRequest, SaveAuthRequest, Authorize, StartLogin,
     StartStep, Others
<1>7. CASE \E l \in Logout : LogoutNext(l) \/ \E c \in Finish : LogOut(l, c)
  BY <1>1, <1>7 DEF LogoutNext, ResumeToRevoke, Revoke, DeleteLoggedOut, LogOut, LogoutStep
<1>8. CASE \/ \E a \in Account : EditProfileElsewhere(a)
           \/ \E j \in Call : Expire(j)
           \/ UNCHANGED vars
  BY <1>1, <1>8 DEF EditProfileElsewhere, Expire, Others, vars
<1> QED BY <1>2, <1>3, <1>4, <1>5, <1>6, <1>7, <1>8 DEF Next

\* However many first logins race, an account gets one user, and every login of
\* the account that completes gets that one.
THEOREM AccountsHaveOneUser == Spec => []OneUserPerAccount
<1>1. Init => UserInv
  BY DEF Init, StoreInit, UserInv, HasUser, Completed
<1>2. UserInv => OneUserPerAccount
  BY DEF UserInv, OneUserPerAccount, HasUser, UserOf
<1> QED BY <1>1, <1>2, TypeInvariant, NextUserInv, PTL DEF Spec

----------------------------------------------------------------------------
(* Spent auth requests *)

\* c's auth request is not in the database.
Gone(c) == \A r \in authRequests : r.state # FlowOf(c)

\* Between the two, the request was deleted by the client library.
Cleared(c) ==
  /\ pc[c] \in {"insert", "select", "resumeGet", "get", "resumePut", "put", "cleanup"}
  /\ c \notin requestLeft

\* A FinishLogin that was not given tokens knows no account.
RequestInv ==
  /\ \A c \in Finish : pc[c] \in {"idle", "load", "exchange"} => did[c] = ""
  /\ \A c \in Finish : Cleared(c) \/ Spent(c) => Gone(c)

\* Where FinishLogin spends the auth request, the row is gone, or deleting it failed.
LEMMA FinishRequestInv ==
  ASSUME TypeInv, RequestInv, NEW c \in Finish, FinishNext(c)
  PROVE  RequestInv'
<1>1. UNCHANGED input /\ Untouched(c) /\ pc[c] # "idle"
  BY FinishFrame
<1>2. FlowOf(c) \in Flow
  BY <1>1 DEF TypeInv, Progress, Started
<1>3. authRequests' \subseteq authRequests /\ requestLeft \subseteq requestLeft'
  BY DEF FinishNext, LoadAuthRequest, DeleteAuthRequest, ExchangeToken, SaveSession, ClearAuthRequest,
     InsertUserIfMissing, SelectUser, ResumeSession, GetRecord, PutRecordIfMissing, DeleteFailedSession,
     FinishStep, Proceed, Conclude, DeleteOAuthAuthRequest
<1>4. ASSUME NEW d \in Finish, d # c, Cleared(d)' \/ Spent(d)' PROVE Gone(d)'
  <2>1. Cleared(d) \/ Spent(d)
    BY <1>1, <1>3, <1>4 DEF Untouched, Cleared, Spent, FlowOf
  <2> QED BY <1>1, <1>3, <2>1 DEF RequestInv, Gone, FlowOf
<1>5. ASSUME Gone(c) PROVE Gone(c)'
  BY <1>1, <1>3, <1>5 DEF Gone, FlowOf
<1>6. (pc'[c] \in {"idle", "load", "exchange"} => did'[c] = "") /\ (Cleared(c)' \/ Spent(c)' => Gone(c)')
  <2> USE DEF FinishStep, Proceed, Conclude, TypeInv, TypeOK, FinishTypeOK, Cleared, Spent
  <2>1. CASE LoadAuthRequest(c)
    <3>1. did'[c] = "" /\ pc'[c] \in {"exchange", "spend", "done"} /\ outcome'[c] # "auth_server_error"
      BY <2>1 DEF LoadAuthRequest, RequestInv, Progress, InOrder
    <3>2. ASSUME Spent(c)' PROVE \A r \in authRequests : r.state # FlowOf(c)
      BY <1>1, <1>2, <2>1, <3>1, <3>2, PartiesAssumption DEF LoadAuthRequest, FlowOf
    <3> QED BY <1>5, <3>1, <3>2 DEF Gone
  <2>2. CASE DeleteAuthRequest(c)
    BY <1>1, <2>2 DEF DeleteAuthRequest, DeleteOAuthAuthRequest, Gone, FlowOf
  <2>3. CASE ExchangeToken(c)
    BY <2>3 DEF ExchangeToken
  <2>4. CASE SaveSession(c)
    BY <2>4 DEF SaveSession
  <2>5. CASE ClearAuthRequest(c)
    BY <1>1, <2>5 DEF ClearAuthRequest, DeleteOAuthAuthRequest, Gone, FlowOf
  <2>6. CASE InsertUserIfMissing(c) \/ SelectUser(c) \/ ResumeSession(c) \/ GetRecord(c)
             \/ PutRecordIfMissing(c) \/ DeleteFailedSession(c)
    <3>1. Cleared(c)' \/ Spent(c)' => Cleared(c)
      BY <2>6 DEF InsertUserIfMissing, SelectUser, ResumeSession, GetRecord, PutRecordIfMissing,
         DeleteFailedSession
    <3>2. pc'[c] \notin {"idle", "load", "exchange"}
      BY <2>6 DEF InsertUserIfMissing, SelectUser, ResumeSession, GetRecord, PutRecordIfMissing,
         DeleteFailedSession
    <3> QED BY <1>5, <3>1, <3>2 DEF RequestInv
  <2> QED BY <2>1, <2>2, <2>3, <2>4, <2>5, <2>6 DEF FinishNext
<1>7. \A d \in Finish : d # c => (pc'[d] \in {"idle", "load", "exchange"} => did'[d] = "")
  BY <1>1 DEF RequestInv, Untouched
<1> QED BY <1>4, <1>6, <1>7 DEF RequestInv

\* A row never comes back: only StartLogin, which has returned, inserts it.
LEMMA NextRequestInv == TypeInv /\ RequestInv /\ [Next]_vars => RequestInv'
<1> SUFFICES ASSUME TypeInv, RequestInv, [Next]_vars PROVE RequestInv'
  OBVIOUS
<1>1. ASSUME authRequests' \subseteq authRequests, UNCHANGED finishVars PROVE RequestInv'
  BY <1>1 DEF RequestInv, Cleared, Spent, Gone, FlowOf
<1>2. CASE \E c \in Finish : FinishNext(c)
  BY <1>2, FinishRequestInv
<1>3. CASE \E c \in Finish : \E state, callback : FinishLogin(c, state, callback)
  <2>1. PICK c \in Finish : \E state, callback : FinishLogin(c, state, callback)
    BY <1>3
  <2>2. ~Cleared(c)' /\ ~Spent(c)' /\ did'[c] = ""
    BY <2>1 DEF FinishLogin, FinishStep, RequestInv, Cleared, Spent, TypeInv, TypeOK, FinishTypeOK
  <2>3. \A d \in Finish : d # c => /\ pc'[d] = pc[d] /\ did'[d] = did[d]
                                   /\ Cleared(d)' \/ Spent(d)' => Cleared(d) \/ Spent(d)
                                   /\ Gone(d) => Gone(d)'
    BY <2>1 DEF FinishLogin, FinishStep, Cleared, Spent, Gone, FlowOf, TypeInv, TypeOK, FinishTypeOK
  <2> QED BY <2>2, <2>3 DEF RequestInv
<1>4. CASE Crash
  <2>1. \A c \in Finish : pc'[c] = IF FinishRunning(c) THEN "crashed" ELSE pc[c]
    BY <1>4 DEF Crash
  <2>2. UNCHANGED <<authRequests, did, input, outcome, requestLeft>>
    BY <1>4 DEF Crash
  <2>3. \A c \in Finish : /\ Cleared(c)' \/ Spent(c)' => Cleared(c) \/ Spent(c)
                          /\ Gone(c) => Gone(c)'
    BY <2>1, <2>2 DEF Cleared, Spent, Gone, FlowOf
  <2>4. \A c \in Finish : pc'[c] \in {"idle", "load", "exchange"} => pc[c] = pc'[c]
    BY <2>1
  <2> QED BY <2>2, <2>3, <2>4 DEF RequestInv
<1>5. CASE \E f \in Flow : SaveAuthRequest(f)
  <2>1. PICK f \in Flow : SaveAuthRequest(f)
    BY <1>5
  <2>2. UNCHANGED finishVars /\ start[f] = "save"
    BY <2>1 DEF SaveAuthRequest, StartStep
  <2>3. \A r \in authRequests' : r \in authRequests \/ r.state = f
    BY <2>1 DEF SaveAuthRequest, SaveOAuthAuthRequest
  <2>4. \A c \in Finish : pc[c] # "idle" => FlowOf(c) # f
    BY <2>2 DEF TypeInv, Progress, Started
  <2>5. \A c \in Finish : /\ Cleared(c)' \/ Spent(c)' => (Cleared(c) \/ Spent(c)) /\ pc[c] # "idle"
                          /\ FlowOf(c)' = FlowOf(c)
    BY <2>2 DEF Cleared, Spent, FlowOf
  <2>6. \A c \in Finish : Cleared(c)' \/ Spent(c)' => Gone(c)'
    BY <2>3, <2>4, <2>5 DEF RequestInv, Gone
  <2> QED BY <2>2, <2>6 DEF RequestInv
<1>6. CASE \E f \in Flow : \/ ResolveIdentity(f) \/ PushAuthRequest(f) \/ Authorize(f)
                           \/ \E a \in Account : StartLogin(f, a)
  BY <1>1, <1>6 DEF ResolveIdentity, PushAuthRequest, Authorize, StartLogin, StartStep, Others
<1>7. CASE \E l \in Logout : LogoutNext(l) \/ \E c \in Finish : LogOut(l, c)
  BY <1>1, <1>7 DEF LogoutNext, ResumeToRevoke, Revoke, DeleteLoggedOut, LogOut, LogoutStep
<1>8. CASE \/ \E a \in Account : EditProfileElsewhere(a)
           \/ \E u \in users : SetUserActive(u)
           \/ \E j \in Call : Expire(j)
           \/ UNCHANGED vars
  BY <1>1, <1>8 DEF EditProfileElsewhere, SetUserActive, Expire, Others, vars
<1> QED BY <1>2, <1>3, <1>4, <1>5, <1>6, <1>7, <1>8 DEF Next, StartNext

\* A denial or a token exchange leaves no row for its flow in
\* oauth_auth_requests, unless the delete itself failed.
THEOREM SpentRequestsAreDeleted == Spec => []SpentRequestsAreGone
<1>1. Init => RequestInv
  <2> SUFFICES ASSUME Init PROVE RequestInv
    OBVIOUS
  <2>1. \A c \in Finish : pc[c] = "idle" /\ did[c] = ""
    BY DEF Init
  <2> QED BY ONLY <2>1 DEF RequestInv, Cleared, Spent
<1>2. RequestInv => SpentRequestsAreGone
  BY DEF RequestInv, SpentRequestsAreGone, Gone
<1> QED BY <1>1, <1>2, TypeInvariant, NextRequestInv, PTL DEF Spec
============================================================================
