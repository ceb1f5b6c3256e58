------------------------------- MODULE Login -------------------------------
(***************************************************************************)
(* Logging in and out with OAuth: the service's StartLogin, FinishLogin    *)
(* and Logout down to each statement they run on the database and each     *)
(* request they send to an auth server or a PDS, any number of them at     *)
(* once.  A call has a program counter; an action is one store statement   *)
(* or one request, with the code around it up to the next.                 *)
(*                                                                         *)
(* What can go wrong: any request to a server fails or never answers, or   *)
(* takes effect and loses its answer; a call's context expires or is       *)
(* cancelled, after which nothing that uses it works; a statement fails    *)
(* for another reason (StoreFails); the process dies (Crashes).            *)
(***************************************************************************)
EXTENDS OAuthStore, Network

CONSTANTS
  StoreFails,     \* whether a statement can fail while its context is live
  Crashes         \* whether the process can die and start again

ASSUME FaultAssumption == StoreFails \in BOOLEAN /\ Crashes \in BOOLEAN

VARIABLES
  start,        \* StartLogin's progress, per flow
  account,      \* the account a flow was started for
  pc,           \* FinishLogin's progress, per callback
  input,        \* the state and the callback FinishLogin was given
  did,          \* the account FinishLogin got tokens for
  full,         \* whether they are for every requested scope
  held,         \* the number of the tokens in the session it has in memory
  userID,       \* the user it got or created
  outcome,      \* how FinishLogin ends, "" while that is open
  requestLeft,  \* the calls in which deleting the auth request failed, which is only logged
  sessionLeft,  \* the calls in which deleting the session failed, which is only logged
  lpc,          \* Logout's progress
  target,       \* the login whose session a Logout call ends
  lheld,        \* the number of the tokens in the session Logout resumed
  expired       \* the calls whose context is done

startVars  == <<start, account>>
memVars    == <<did, full, held, userID>>
finishVars == <<pc, input, memVars, outcome, requestLeft, sessionLeft>>
logoutVars == <<lpc, target, lheld>>
vars == <<storeVars, netVars, startVars, finishVars, logoutVars, expired>>

StartPC  == {"idle", "resolve", "push", "save", "started", "failed", "crashed"}
FinishPC == {"idle", "load", "spend", "exchange", "save", "clear", "insert", "select",
             "resumeGet", "get", "resumePut", "put", "cleanup", "done", "crashed"}
LogoutPC == {"idle", "resume", "revoke", "delete", "out", "not_found", "failed", "crashed"}

Outcome == {"", "ok", "cancelled", "auth_server_error", "callback_error", "scope_denied",
            "user_inactive", "profile_write_failed"}

\* A callback's query: a denial carries no code, and code 0 is none at all.
Callback == [state : Flow \cup {""}, error : {"", "access_denied"}, code : 0..MaxCodes,
             issuer : Server \cup {""}]
Input  == [state : Flow \cup {""}, callback : Callback]
NoInput == [state |-> "", callback |-> [state |-> "", error |-> "", code |-> 0, issuer |-> ""]]

Call == Flow \cup Finish \cup Logout

StartTypeOK ==
  /\ start \in [Flow -> StartPC]
  /\ account \in [Flow -> Account \cup {""}]

FinishTypeOK ==
  /\ pc \in [Finish -> FinishPC]
  /\ input \in [Finish -> Input]
  /\ did \in [Finish -> Account \cup {""}]
  /\ full \in [Finish -> BOOLEAN]
  /\ held \in [Finish -> 0..MaxCodes]
  /\ userID \in [Finish -> Finish \cup {""}]
  /\ outcome \in [Finish -> Outcome]
  /\ requestLeft \subseteq Finish /\ sessionLeft \subseteq Finish

LogoutTypeOK ==
  /\ lpc \in [Logout -> LogoutPC]
  /\ target \in [Logout -> Finish \cup {""}]
  /\ lheld \in [Logout -> 0..MaxCodes]

TypeOK ==
  /\ StoreTypeOK /\ NetTypeOK
  /\ StartTypeOK /\ FinishTypeOK /\ LogoutTypeOK
  /\ expired \subseteq Call

Init ==
  /\ StoreInit
  /\ NetInit
  /\ start = [f \in Flow |-> "idle"]
  /\ account = [f \in Flow |-> ""]
  /\ pc = [c \in Finish |-> "idle"]
  /\ input = [c \in Finish |-> NoInput]
  /\ did = [c \in Finish |-> ""]
  /\ full = [c \in Finish |-> FALSE]
  /\ held = [c \in Finish |-> 0]
  /\ userID = [c \in Finish |-> ""]
  /\ outcome = [c \in Finish |-> ""]
  /\ requestLeft = {} /\ sessionLeft = {}
  /\ lpc = [l \in Logout |-> "idle"]
  /\ target = [l \in Logout |-> ""]
  /\ lheld = [l \in Logout |-> 0]
  /\ expired = {}

----------------------------------------------------------------------------
(* Contexts and failures *)

Live(j) == j \notin expired
StatementCanFail(j) == j \in expired \/ StoreFails

StartRunning(f)  == start[f] \in {"resolve", "push", "save"}
FinishRunning(c) == pc[c] \notin {"idle", "done", "crashed"}
LogoutRunning(l) == lpc[l] \in {"resume", "revoke", "delete"}

Running(j) ==
  \/ j \in Flow /\ StartRunning(j)
  \/ j \in Finish /\ FinishRunning(j)
  \/ j \in Logout /\ LogoutRunning(j)

\* mistake: Logout has no timeout of its own
Expire_NoLogoutTimeout(j) ==
  /\ Running(j) /\ Live(j) /\ j \notin Logout
  /\ expired' = expired \cup {j}
  /\ UNCHANGED <<storeVars, netVars, startVars, finishVars, logoutVars>>

\* The 20 seconds each operation has are over, or the browser has gone away.
Expire(j) ==
  /\ Running(j) /\ Live(j)
  /\ expired' = expired \cup {j}
  /\ UNCHANGED <<storeVars, netVars, startVars, finishVars, logoutVars>>

\* The process dies, and every call in it.  The store stays as it is.
Crash ==
  /\ Crashes
  /\ \E j \in Call : Running(j)
  /\ start' = [f \in Flow |-> IF StartRunning(f) THEN "crashed" ELSE start[f]]
  /\ pc' = [c \in Finish |-> IF FinishRunning(c) THEN "crashed" ELSE pc[c]]
  /\ lpc' = [l \in Logout |-> IF LogoutRunning(l) THEN "crashed" ELSE lpc[l]]
  /\ UNCHANGED <<storeVars, netVars, account, input, memVars, outcome, requestLeft, sessionLeft, target, lheld, expired>>

----------------------------------------------------------------------------
(* StartLogin *)

StartStep(f, from, to) ==
  /\ start[f] = from
  /\ start' = [start EXCEPT ![f] = to]
  /\ UNCHANGED <<finishVars, logoutVars, expired>>

StartLogin(f, a) ==
  /\ StartStep(f, "idle", "resolve")
  /\ account' = [account EXCEPT ![f] = a]
  /\ UNCHANGED <<storeVars, netVars>>

\* Looking the identity up and discovering its auth server changes nothing
\* anywhere, and whatever goes wrong ends the call.
ResolveIdentity(f) ==
  /\ \/ Live(f) /\ StartStep(f, "resolve", "push")
     \/ StartStep(f, "resolve", "failed")
  /\ UNCHANGED <<account, storeVars, netVars>>

\* The auth server may hold the request although its answer was lost.
PushAuthRequest(f) ==
  /\ \/ /\ Live(f)
        /\ StartStep(f, "push", "save")
        /\ PushRequest(f)
     \/ /\ StartStep(f, "push", "failed")
        /\ \/ Live(f) /\ PushRequest(f)
           \/ UNCHANGED pushed
  /\ UNCHANGED <<account, storeVars, codes, issued, tokens, profile>>

SaveAuthRequest(f) ==
  LET row == [state |-> f, did |-> account[f], issuer |-> AuthServerOf[account[f]]] IN
  /\ \/ /\ StartStep(f, "save", "started")
        /\ Live(f) /\ CanSaveAuthRequest(row)
        /\ SaveOAuthAuthRequest(row)
     \/ /\ StartStep(f, "save", "failed")
        /\ StatementCanFail(f) \/ ~CanSaveAuthRequest(row)
        /\ UNCHANGED authRequests
  /\ UNCHANGED <<account, sessions, users, netVars>>

----------------------------------------------------------------------------
(* The servers and the rest of the world *)

Others == <<startVars, finishVars, logoutVars, expired>>

\* The user is sent to the auth server only when StartLogin returned.  There
\* they may log in as any account, and untick scopes.
Authorize(f) ==
  /\ start[f] = "started"
  /\ \E subject \in Account, all \in BOOLEAN : IssueCode(f, subject, all)
  /\ UNCHANGED <<pushed, tokens, profile, storeVars, Others>>

\* The account's user fills in, or deletes, the profile with another app.
EditProfileElsewhere(a) ==
  /\ \E content \in {"theirs", "absent"} : profile' = [profile EXCEPT ![a] = content]
  /\ profile' # profile
  /\ UNCHANGED <<pushed, codes, issued, tokens, storeVars, Others>>

SetUserActive(u) ==
  /\ SetActive(u, ~u.active)
  /\ UNCHANGED <<authRequests, sessions, netVars, Others>>
----------------------------------------------------------------------------
(* FinishLogin *)

FinishStep(c, from, to) ==
  /\ pc[c] = from
  /\ pc' = [pc EXCEPT ![c] = to]
  /\ UNCHANGED <<startVars, logoutVars, expired>>

\* Nothing is decided yet: on to the next statement or request.
Proceed(c, from, to) ==
  /\ FinishStep(c, from, to)
  /\ UNCHANGED <<input, outcome, requestLeft, sessionLeft>>

\* How the call ends is decided, and what is left to do first, if anything.
Conclude(c, from, to, how) ==
  /\ FinishStep(c, from, to)
  /\ outcome' = [outcome EXCEPT ![c] = how]
  /\ UNCHANGED <<input, memVars, requestLeft, sessionLeft>>

FlowOf(c)    == input[c].callback.state
\* mistake: the tokens are not kept
MySession_NoTokens(c) == [did |-> did[c], id |-> FlowOf(c), token |-> 0]
MySession(c) == [did |-> did[c], id |-> FlowOf(c), token |-> held[c]]
SignedIn(c)  == Live(c) /\ Authenticates(FlowOf(c), held[c], did[c])
MyCode(c)    == {k \in codes : k.flow = FlowOf(c) /\ k.n = input[c].callback.code}

\* The state comes from the cookie session of the browser, so it is one that
\* StartLogin returned, or none.  The callback is whatever the browser asked
\* for: what the auth server redirects to, with another issuer, or cut short.
Started == {f \in Flow : start[f] = "started"}
Denied(f) == [state |-> f, error |-> "access_denied", code |-> 0, issuer |-> AuthServerOf[account[f]]]
Returned(f, n, s) == [state |-> f, error |-> "", code |-> n, issuer |-> s]
Callbacks(f) ==
  {Denied(f), Returned(f, 0, AuthServerOf[account[f]])}
  \cup {Returned(f, n, s) : n \in 1..issued[f], s \in Server}

FinishLogin(c, state, callback) ==
  /\ FinishStep(c, "idle", "load")
  /\ input' = [input EXCEPT ![c] = [state |-> state, callback |-> callback]]
  /\ UNCHANGED <<memVars, outcome, requestLeft, sessionLeft, storeVars, netVars>>

\* ProcessCallback up to the token exchange.  A refusal that is not a denial
\* leaves the auth request where it is.
LoadAuthRequest(c) ==
  LET callback == input[c].callback
      matches  == input[c].state # "" /\ callback.state = input[c].state
      rows     == GetOAuthAuthRequest(callback.state)
      usable   == callback.code # 0 /\ \A r \in rows : callback.issuer = r.issuer IN
  /\ \/ /\ matches /\ Live(c) /\ rows # {} /\ callback.error = "" /\ usable
        /\ Proceed(c, "load", "exchange") /\ UNCHANGED memVars
     \/ /\ matches /\ Live(c) /\ rows # {} /\ callback.error # ""
        /\ Conclude(c, "load", "spend", "cancelled")
     \/ /\ ~matches \/ (Live(c) /\ (rows = {} \/ (callback.error = "" /\ ~usable)))
        /\ Conclude(c, "load", "done", "cancelled")
     \/ /\ matches /\ StatementCanFail(c)
        /\ Conclude(c, "load", "done", "callback_error")
  /\ UNCHANGED <<storeVars, netVars>>

\* mistake: the delete uses the call's own context
DeleteAuthRequest_OwnContext(c) ==
  /\ FinishStep(c, "spend", "done")
  /\ IF Live(c) THEN DeleteOAuthAuthRequest(FlowOf(c)) ELSE UNCHANGED authRequests
  /\ UNCHANGED <<input, memVars, outcome, requestLeft, sessionLeft, sessions, users, netVars>>

\* deleteAuthRequest, whose context is never done.
DeleteAuthRequest(c) ==
  /\ FinishStep(c, "spend", "done")
  /\ \/ DeleteOAuthAuthRequest(FlowOf(c)) /\ UNCHANGED requestLeft
     \/ StoreFails /\ requestLeft' = requestLeft \cup {c} /\ UNCHANGED authRequests
  /\ UNCHANGED <<input, memVars, outcome, sessionLeft, sessions, users, netVars>>

\* mistake: the account is not kept with the auth request, so nothing to compare
SubjectMatches_Unchecked(k, r) == TRUE
\* The tokens must be for the account the flow was started for.
SubjectMatches(k, r) == k.subject = r.did

\* The client library reads the auth request again, exchanges the code, and
\* checks that the tokens are for the account the flow was started for.  When
\* that fails, the code may have been used up and tokens issued all the same.
ExchangeToken(c) ==
  LET rows == GetOAuthAuthRequest(FlowOf(c)) IN
  /\ \/ /\ Live(c)
        /\ \E k \in MyCode(c), r \in rows :
             /\ SubjectMatches(k, r)
             /\ Proceed(c, "exchange", "save")
             /\ did' = [did EXCEPT ![c] = k.subject]
             /\ full' = [full EXCEPT ![c] = k.full]
             /\ held' = [held EXCEPT ![c] = k.n]
             /\ UNCHANGED userID
             /\ UseCode(k) /\ IssueTokens(k)
     \/ /\ Conclude(c, "exchange", "spend", "auth_server_error")
        /\ \/ /\ Live(c) /\ rows # {}
              /\ \E k \in MyCode(c) : UseCode(k) /\ (IssueTokens(k) \/ UNCHANGED tokens)
           \/ UNCHANGED <<codes, tokens>>
  /\ UNCHANGED <<storeVars, pushed, issued, profile>>

SaveSession(c) ==
  /\ \/ /\ Live(c)
        /\ Proceed(c, "save", "clear") /\ UNCHANGED memVars
        /\ SaveOAuthSession(MySession(c))
     \/ /\ StatementCanFail(c)
        /\ Conclude(c, "save", "spend", "auth_server_error")
        /\ UNCHANGED sessions
  /\ UNCHANGED <<authRequests, users, netVars>>

\* The client library deletes the auth request and only logs a failure to.
\* ProcessCallback returns, and CheckScopes comes next.
ClearAuthRequest(c) ==
  /\ \/ /\ full[c]
        /\ FinishStep(c, "clear", "insert") /\ UNCHANGED outcome
     \/ /\ ~full[c]
        /\ FinishStep(c, "clear", "cleanup")
        /\ outcome' = [outcome EXCEPT ![c] = "scope_denied"]
  /\ \/ /\ Live(c)
        /\ DeleteOAuthAuthRequest(FlowOf(c)) /\ UNCHANGED requestLeft
     \/ /\ StatementCanFail(c)
        /\ requestLeft' = requestLeft \cup {c} /\ UNCHANGED authRequests
  /\ UNCHANGED <<input, memVars, sessionLeft, sessions, users, netVars>>

\* CreateUserIfMissing, first statement.
InsertUserIfMissing(c) ==
  /\ \/ /\ Live(c) /\ UserMissing(did[c])
        /\ Proceed(c, "insert", "resumeGet")
        /\ InsertUser(c, did[c])
        /\ userID' = [userID EXCEPT ![c] = c] /\ UNCHANGED <<did, full, held>>
     \/ /\ Live(c) /\ ~UserMissing(did[c])
        /\ Proceed(c, "insert", "select") /\ UNCHANGED <<memVars, users>>
     \/ /\ StatementCanFail(c)
        /\ Conclude(c, "insert", "cleanup", "callback_error") /\ UNCHANGED users
  /\ UNCHANGED <<authRequests, sessions, netVars>>

\* CreateUserIfMissing, second statement, and the check that the user is active.
SelectUser(c) ==
  LET rows == {u \in users : u.did = did[c]} IN
  /\ \/ /\ Live(c)
        /\ \E u \in rows :
             /\ u.active
             /\ Proceed(c, "select", "resumeGet")
             /\ userID' = [userID EXCEPT ![c] = u.id] /\ UNCHANGED <<did, full, held>>
     \/ /\ Live(c)
        /\ \E u \in rows : ~u.active
        /\ Conclude(c, "select", "cleanup", "user_inactive")
     \/ /\ StatementCanFail(c) \/ rows = {}
        /\ Conclude(c, "select", "cleanup", "callback_error")
  /\ UNCHANGED <<storeVars, netVars>>

\* GetRecord and PutRecordIfMissing each read the session from the store.
ResumeSession(c) ==
  LET rows == GetOAuthSession(did[c], FlowOf(c)) IN
  /\ \E from \in {"resumeGet", "resumePut"} :
       \/ /\ Live(c)
          /\ \E s \in rows :
               /\ Proceed(c, from, IF from = "resumeGet" THEN "get" ELSE "put")
               /\ held' = [held EXCEPT ![c] = s.token] /\ UNCHANGED <<did, full, userID>>
       \/ /\ StatementCanFail(c) \/ rows = {}
          /\ Conclude(c, from, "cleanup", "profile_write_failed")
  /\ UNCHANGED <<storeVars, netVars>>

\* A request to the PDS can refresh the nonce, which saves the session in
\* memory over whatever the store has.
PersistRefresh(c) ==
  \/ Live(c) /\ SaveOAuthSession(MySession(c))
  \/ UNCHANGED sessions

GetRecord(c) ==
  /\ \/ /\ SignedIn(c)
        /\ \/ /\ profile[did[c]] # "absent"
              /\ Conclude(c, "get", "done", "ok")
           \/ /\ profile[did[c]] = "absent"
              /\ Proceed(c, "get", "resumePut") /\ UNCHANGED memVars
     \/ Conclude(c, "get", "cleanup", "profile_write_failed")
  /\ PersistRefresh(c)
  /\ UNCHANGED <<authRequests, users, netVars>>

\* A record that appeared since GetRecord refuses the write, which is fine.
\* The write may happen and its answer be lost.
PutRecordIfMissing(c) ==
  /\ \/ /\ SignedIn(c)
        /\ Conclude(c, "put", "done", "ok")
        /\ IF SwapFits(did[c]) THEN PutEmptyProfile(did[c]) ELSE UNCHANGED profile
     \/ /\ Conclude(c, "put", "cleanup", "profile_write_failed")
        /\ \/ /\ SignedIn(c)
              /\ SwapFits(did[c]) /\ PutEmptyProfile(did[c])
           \/ UNCHANGED profile
  /\ PersistRefresh(c)
  /\ UNCHANGED <<authRequests, users, pushed, codes, issued, tokens>>

\* mistake: the delete uses the call's own context
DeleteFailedSession_OwnContext(c) ==
  /\ FinishStep(c, "cleanup", "done")
  /\ IF Live(c) THEN DeleteOAuthSession(did[c], FlowOf(c)) ELSE UNCHANGED sessions
  /\ UNCHANGED <<input, memVars, outcome, requestLeft, sessionLeft, authRequests, users, netVars>>

\* What FinishLogin defers for a failure, with a context that is never done.
DeleteFailedSession(c) ==
  /\ FinishStep(c, "cleanup", "done")
  /\ \/ DeleteOAuthSession(did[c], FlowOf(c)) /\ UNCHANGED sessionLeft
     \/ StoreFails /\ sessionLeft' = sessionLeft \cup {c} /\ UNCHANGED sessions
  /\ UNCHANGED <<input, memVars, outcome, requestLeft, authRequests, users, netVars>>
----------------------------------------------------------------------------
(* Logout *)

LogoutStep(l, from, to) ==
  /\ lpc[l] = from
  /\ lpc' = [lpc EXCEPT ![l] = to]
  /\ UNCHANGED <<startVars, finishVars, expired>>

\* Only what a completed login returned can be logged out of.
LogOut(l, c) ==
  /\ outcome[c] = "ok"
  /\ LogoutStep(l, "idle", "resume")
  /\ target' = [target EXCEPT ![l] = c]
  /\ UNCHANGED <<lheld, storeVars, netVars>>

\* A session that cannot be read is deleted unseen.
ResumeToRevoke(l) ==
  LET rows == GetOAuthSession(did[target[l]], FlowOf(target[l])) IN
  /\ \/ /\ LogoutStep(l, "resume", "revoke")
        /\ Live(l)
        /\ \E s \in rows : lheld' = [lheld EXCEPT ![l] = s.token]
     \/ /\ LogoutStep(l, "resume", "not_found")
        /\ Live(l) /\ rows = {} /\ UNCHANGED lheld
     \/ /\ StatementCanFail(l)
        /\ LogoutStep(l, "resume", "delete") /\ UNCHANGED lheld
  /\ UNCHANGED <<target, storeVars, netVars>>

\* mistake: a failed revocation fails the logout
Revoke_NotBestEffort(l) ==
  /\ \/ LogoutStep(l, "revoke", "delete") /\ Live(l) /\ RevokeTokens(FlowOf(target[l]), lheld[l])
     \/ LogoutStep(l, "revoke", "failed") /\ UNCHANGED tokens
  /\ UNCHANGED <<target, lheld, storeVars, pushed, codes, issued, profile>>

\* Whether the auth server revoked the tokens changes nothing for the call.
Revoke(l) ==
  /\ LogoutStep(l, "revoke", "delete")
  /\ \/ Live(l) /\ RevokeTokens(FlowOf(target[l]), lheld[l])
     \/ UNCHANGED tokens
  /\ UNCHANGED <<target, lheld, storeVars, pushed, codes, issued, profile>>

\* mistake: the delete uses the call's own context
DeleteLoggedOut_OwnContext(l) ==
  /\ LogoutStep(l, "delete", "out")
  /\ IF Live(l) THEN DeleteOAuthSession(did[target[l]], FlowOf(target[l]))
                ELSE UNCHANGED sessions
  /\ UNCHANGED <<target, lheld, authRequests, users, netVars>>

\* The context of this delete is never done.
DeleteLoggedOut(l) ==
  /\ \/ /\ LogoutStep(l, "delete", "out")
        /\ DeleteOAuthSession(did[target[l]], FlowOf(target[l]))
     \/ /\ StoreFails
        /\ LogoutStep(l, "delete", "failed") /\ UNCHANGED sessions
  /\ UNCHANGED <<target, lheld, authRequests, users, netVars>>
----------------------------------------------------------------------------
StartNext(f) ==
  \/ ResolveIdentity(f)
  \/ PushAuthRequest(f)
  \/ SaveAuthRequest(f)

FinishNext(c) ==
  \/ LoadAuthRequest(c)
  \/ DeleteAuthRequest(c)
  \/ ExchangeToken(c)
  \/ SaveSession(c)
  \/ ClearAuthRequest(c)
  \/ InsertUserIfMissing(c)
  \/ SelectUser(c)
  \/ ResumeSession(c)
  \/ GetRecord(c)
  \/ PutRecordIfMissing(c)
  \/ DeleteFailedSession(c)

LogoutNext(l) ==
  \/ ResumeToRevoke(l)
  \/ Revoke(l)
  \/ DeleteLoggedOut(l)

Next ==
  \/ \E f \in Flow : StartNext(f) \/ Authorize(f) \/ \E a \in Account : StartLogin(f, a)
  \/ \E c \in Finish : FinishNext(c)
  \/ \E c \in Finish, state \in Started \cup {""}, f \in Started :
       \E callback \in Callbacks(f) : FinishLogin(c, state, callback)
  \/ \E l \in Logout : LogoutNext(l) \/ \E c \in Finish : LogOut(l, c)
  \/ \E a \in Account : EditProfileElsewhere(a)
  \/ \E u \in users : SetUserActive(u)
  \/ \E j \in Call : Expire(j)
  \/ Crash

Spec == Init /\ [][Next]_vars

\* Every operation gives up after its timeout, and once its context is done
\* nothing it does can block.  Nothing is assumed of the servers: they may
\* never answer, and users may never come back from them.
Step(j) ==
  \/ j \in Flow /\ StartNext(j)
  \/ j \in Finish /\ FinishNext(j)
  \/ j \in Logout /\ LogoutNext(j)

Fairness ==
  \A j \in Call : WF_vars(Expire(j)) /\ WF_vars(~Live(j) /\ Step(j))

FairSpec == Spec /\ Fairness
============================================================================
