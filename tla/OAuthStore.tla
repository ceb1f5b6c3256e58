---------------------------- MODULE OAuthStore ----------------------------
(***************************************************************************)
(* The SQLite tables a login goes through: users, oauth_auth_requests and  *)
(* oauth_sessions, one set of rows each.  Every operator below is one SQL  *)
(* statement, which SQLite runs atomically; callers say what else their    *)
(* step changes.                                                           *)
(***************************************************************************)
EXTENDS Parties

VARIABLES
  authRequests,   \* rows of oauth_auth_requests
  sessions,       \* rows of oauth_sessions
  users           \* rows of users

storeVars == <<authRequests, sessions, users>>

\* A flow's tokens are numbered by the code they were exchanged for.
AuthRequest == [state : Flow, did : Account, issuer : Server]
Session     == [did : Account, id : Flow, token : 1..MaxCodes]
User        == [id : Finish, did : Account, active : BOOLEAN]

StoreTypeOK ==
  /\ authRequests \subseteq AuthRequest
  /\ sessions \subseteq Session
  /\ users \subseteq User

StoreInit == authRequests = {} /\ sessions = {} /\ users = {}

----------------------------------------------------------------------------
\* The row, if there is one.
GetOAuthAuthRequest(state) == {r \in authRequests : r.state = state}
GetOAuthSession(did, id)   == {s \in sessions : s.did = did /\ s.id = id}

\* An insert, so a second row for the same state is an error.
CanSaveAuthRequest(r) == \A x \in authRequests : x.state # r.state
SaveOAuthAuthRequest(r) == authRequests' = authRequests \cup {r}

DeleteOAuthAuthRequest(state) ==
  authRequests' = {r \in authRequests : r.state # state}

\* An upsert: the row with the same key is replaced, and one that is gone is
\* inserted again.
SaveOAuthSession(s) ==
  sessions' = {x \in sessions : x.did # s.did \/ x.id # s.id} \cup {s}

DeleteOAuthSession(did, id) ==
  sessions' = {x \in sessions : x.did # did \/ x.id # id}

\* insert into users (did) values (?) on conflict (did) do nothing
\* returning *: a new row is active.
UserMissing_NoConflict(did) == TRUE   \* mistake: no unique index on did
UserMissing(did) == \A u \in users : u.did # did
InsertUser(id, did) == users' = users \cup {[id |-> id, did |-> did, active |-> TRUE]}

\* An operator of the site flips a user's active column; nothing in the app does.
SetActive(u, active) == users' = (users \ {u}) \cup {[u EXCEPT !.active = active]}
============================================================================
