-------------------------------- MODULE Web --------------------------------
(***************************************************************************)
(* The app's HTTP handlers around the login service: browsers with one     *)
(* cookie each, the cookie sessions in the database, and requests that     *)
(* interleave.  A request works on a copy of its cookie session: the row   *)
(* is read when it arrives, and written back whole when the handler has    *)
(* changed the copy and is done.  The service is FlowLifecycle.            *)
(***************************************************************************)
EXTENDS FlowLifecycle

CONSTANTS
  Browser,
  Request,     \* the requests the browsers send; also the tokens made in them
  Path,        \* the local paths a login can be asked to end at
  Elsewhere,   \* what else a form can name: places that are not on this site
  OldToken,    \* the token of a session without a login, from before
  Shared,      \* whether the browsers all have that token to begin with
  StoreFails   \* whether a statement on the database can fail

\* What a string that is not there is in Go.
None == ""

ASSUME WebAssumption ==
  /\ OldToken \notin Request /\ None \notin Request \cup Path \cup {OldToken} \cup Elsewhere
  /\ Elsewhere \cap Path = {}
  /\ None \notin Flow /\ None \notin Browser
  /\ Shared \in BOOLEAN /\ StoreFails \in BOOLEAN

VARIABLES
  rows,     \* the cookie sessions in the database
  jar,      \* the token in each browser's cookie, if any
  pc,       \* how far each request has come
  req,      \* what was sent
  copy,     \* the request's copy of its cookie session
  status,   \* what its handlers did to the copy
  popped    \* what the callback took out of the copy

vars == <<phase, rows, jar, pc, req, copy, status, popped>>

Token == Request \cup {OldToken}
NoLogin == [state |-> None, redirect |-> None]

\* loginState and loginRedirect; and, standing for the user ID and the OAuth
\* session ID, which are only ever put together, the flow that was finished.
Copy == [token : Token \cup {None}, state : Flow \cup {None}, redirect : Path \cup {None}, login : Flow \cup {None}]
Row  == [token : Token, state : Flow \cup {None}, redirect : Path \cup {None}, login : Flow \cup {None}]
Empty(t) == [token |-> t, state |-> None, redirect |-> None, login |-> None]

\* A callback is for a flow; a login form may name a path to end at.
Sent == [kind : {"start", "callback", "logout", "page"}, browser : Browser,
         cookie : Token \cup {None}, flow : Flow \cup {None}, redirect : Path \cup Elsewhere \cup {None}]
Unsent == [kind |-> None, browser |-> None, cookie |-> None, flow |-> None, redirect |-> None]

TypeOK ==
  /\ phase \in [Flow -> Phase]
  /\ rows \subseteq Row
  /\ jar \in [Browser -> Token \cup {None}]
  /\ pc \in [Request -> {"unsent", "load", "check", "handle", "finish", "destroy", "commit",
                         "respond", "done"}]
  /\ req \in [Request -> Sent \cup {Unsent}]
  /\ copy \in [Request -> Copy]
  /\ status \in [Request -> {"unmodified", "modified", "destroyed"}]
  /\ popped \in [Request -> [state : Flow \cup {None}, redirect : Path \cup {None}]]

Init ==
  /\ FlowInit
  /\ rows = IF Shared THEN {Empty(OldToken)} ELSE {}
  /\ jar = [b \in Browser |-> IF Shared THEN OldToken ELSE None]
  /\ pc = [r \in Request |-> "unsent"]
  /\ req = [r \in Request |-> Unsent]
  /\ copy = [r \in Request |-> Empty(None)]
  /\ status = [r \in Request |-> "unmodified"]
  /\ popped = [r \in Request |-> NoLogin]

----------------------------------------------------------------------------
(* The session middleware *)

Go(r, from, to) ==
  /\ pc[r] = from
  /\ pc' = [pc EXCEPT ![r] = to]

\* A step that leaves the copy as it is.
Pass(r, from, to) ==
  /\ Go(r, from, to)
  /\ UNCHANGED <<jar, req, copy, status, popped>>

\* A step that changes the copy.
Modify(r, from, to, new) ==
  /\ Go(r, from, to)
  /\ copy' = [copy EXCEPT ![r] = new]
  /\ status' = [status EXCEPT ![r] = "modified"]
  /\ UNCHANGED <<jar, req>>

DeleteRow(t) == rows' = {x \in rows : x.token # t}

Send(r, b, kind, flow, redirect) ==
  /\ Go(r, "unsent", "load")
  /\ req' = [req EXCEPT ![r] = [kind |-> kind, browser |-> b, cookie |-> jar[b],
                                flow |-> flow, redirect |-> redirect]]
  /\ UNCHANGED <<phase, rows, jar, copy, status, popped>>

\* A token without a row is as good as none.
LoadSession(r) ==
  LET found == {x \in rows : x.token = req[r].cookie}
      new   == IF found = {} THEN Empty(None) ELSE CHOOSE x \in found : TRUE IN
  /\ Go(r, "load", IF new.login = None THEN "handle" ELSE "check")
  /\ copy' = [copy EXCEPT ![r] = new]
  /\ UNCHANGED <<phase, rows, jar, req, status, popped>>

\* mistake: only the cookie is taken back
Destroy_CookieOnly(r, from) ==
  /\ Go(r, from, "respond")
  /\ status' = [status EXCEPT ![r] = "destroyed"]
  /\ UNCHANGED <<rows, jar, req, copy, popped>>

\* Destroy deletes the row at once.
Destroy(r, from) ==
  /\ Go(r, from, "respond")
  /\ DeleteRow(copy[r].token)
  /\ status' = [status EXCEPT ![r] = "destroyed"]
  /\ UNCHANGED <<jar, req, copy, popped>>

\* Written back whole, under a new token when there was none.
Commit(r) ==
  LET row == [copy[r] EXCEPT !.token = IF @ = None THEN r ELSE @] IN
  /\ \/ /\ Go(r, "commit", "respond")
        /\ rows' = {x \in rows : x.token # row.token} \cup {row}
        /\ copy' = [copy EXCEPT ![r] = row]
        /\ UNCHANGED status
     \/ /\ StoreFails
        /\ Go(r, "commit", "respond")
        /\ status' = [status EXCEPT ![r] = "unmodified"]
        /\ UNCHANGED <<rows, copy>>
  /\ UNCHANGED <<phase, jar, req, popped>>

\* The response sets the cookie, or never gets there.  Responses overtake
\* each other.
Respond(r) ==
  /\ Go(r, "respond", "done")
  /\ \/ jar' = [jar EXCEPT ![req[r].browser] =
                  CASE status[r] = "modified"   -> copy[r].token
                    [] status[r] = "destroyed"  -> None
                    [] status[r] = "unmodified" -> @]
     \/ UNCHANGED jar
  /\ UNCHANGED <<phase, rows, req, copy, status, popped>>
----------------------------------------------------------------------------
(* AddUserToContext *)

LoggedIn(r) == copy[r].login # None

\* What the service says of the request's OAuth session.
SessionFound(r) == phase[copy[r].login] = "live"

\* mistake: the request is redirected and the cookie session stays
CheckOAuthSession_NoDestroy(r) ==
  /\ Pass(r, "check", IF SessionFound(r) THEN "handle" ELSE "respond")
  /\ UNCHANGED <<phase, rows>>

\* A cookie session whose OAuth session is gone is destroyed.
CheckOAuthSession(r) ==
  /\ \/ Pass(r, "check", "handle") /\ SessionFound(r) /\ UNCHANGED rows
     \/ Destroy(r, "check") /\ ~SessionFound(r)
     \/ StoreFails /\ Pass(r, "check", "respond") /\ UNCHANGED rows
  /\ UNCHANGED phase
----------------------------------------------------------------------------
(* The handlers *)

Handling(r, kind) == pc[r] = "handle" /\ req[r].kind = kind

ServePage(r) ==
  /\ Handling(r, "page")
  /\ Pass(r, "handle", "respond")
  /\ UNCHANGED <<phase, rows>>

CanLogIn(r) == ~LoggedIn(r)

\* Who is logged in already gets sent to the front page.
RedirectLoggedIn(r) ==
  /\ Handling(r, "start") \/ Handling(r, "callback")
  /\ ~CanLogIn(r)
  /\ Pass(r, "handle", "respond")
  /\ UNCHANGED <<phase, rows>>

\* mistake: a login can end anywhere
LocalPath_Any(p) == p
LocalPath(p) == IF p \in Path THEN p ELSE None

\* mistake: loginRedirect is not removed when the form has none
NextLogin_KeepsRedirect(r, f) ==
  [copy[r] EXCEPT !.state = f,
                  !.redirect = IF LocalPath(req[r].redirect) = None THEN @ ELSE LocalPath(req[r].redirect)]
NextLogin(r, f) == [copy[r] EXCEPT !.state = f, !.redirect = LocalPath(req[r].redirect)]

\* POST /login.
StartLogin(r) ==
  /\ Handling(r, "start") /\ CanLogIn(r)
  /\ \/ \E f \in Flow :
          /\ phase[f] = "new" /\ Advance(f, "pending")
          /\ Modify(r, "handle", "commit", NextLogin(r, f))
          /\ UNCHANGED popped
     \/ Pass(r, "handle", "respond") /\ UNCHANGED phase
  /\ UNCHANGED rows

\* mistake: the old token stays
Renewed_SameToken(r) == IF copy[r].token = None THEN r ELSE copy[r].token
Renewed(r) == r

\* GET /oauth/callback, up to FinishLogin: the row goes at once, the new one
\* comes with the commit.
RenewToken(r) ==
  /\ Handling(r, "callback") /\ CanLogIn(r)
  /\ \/ /\ Modify(r, "handle", "finish",
               [copy[r] EXCEPT !.token = Renewed(r), !.state = None, !.redirect = None])
        /\ popped' = [popped EXCEPT ![r] = [state |-> copy[r].state, redirect |-> LocalPath(copy[r].redirect)]]
        /\ DeleteRow(copy[r].token)
     \/ /\ StoreFails
        /\ Pass(r, "handle", "respond") /\ UNCHANGED rows
  /\ UNCHANGED phase

\* mistake: a callback finishes whichever flow it is for
Matches_AnyFlow(r) == TRUE
Matches(r) == popped[r].state = req[r].flow

\* The session exists from here on.  A failure can be the end of the flow.
FinishLogin(r) ==
  LET f == req[r].flow IN
  /\ pc[r] = "finish"
  /\ \/ /\ Matches(r) /\ Advance(f, "live")
        /\ Modify(r, "finish", "commit", [copy[r] EXCEPT !.login = f]) /\ UNCHANGED popped
     \/ /\ Pass(r, "finish", "commit")
        /\ \/ UNCHANGED phase
           \/ Matches(r) /\ phase[f] = "pending" /\ Advance(f, "over")
  /\ UNCHANGED rows

\* mistake: the server's own handler, which knows no OAuth sessions
Logout_CookieOnly(r) ==
  /\ Handling(r, "logout")
  /\ Pass(r, "handle", IF LoggedIn(r) THEN "destroy" ELSE "respond")
  /\ UNCHANGED <<phase, rows>>

\* POST /logout: an OAuth session that is gone, or cannot be ended, is no
\* reason to stay logged in.
Logout(r) ==
  /\ Handling(r, "logout")
  /\ \/ LoggedIn(r) /\ Pass(r, "handle", "destroy") /\ Advance(copy[r].login, "over")
     \/ /\ LoggedIn(r) /\ Pass(r, "handle", "destroy")
        /\ StoreFails \/ ~SessionFound(r)
        /\ UNCHANGED phase
     \/ ~LoggedIn(r) /\ Pass(r, "handle", "respond") /\ UNCHANGED phase
  /\ UNCHANGED rows

DestroySession(r) ==
  /\ \/ Destroy(r, "destroy")
     \/ StoreFails /\ Pass(r, "destroy", "respond") /\ UNCHANGED rows
  /\ UNCHANGED phase

\* An operator of the site deletes an OAuth session.
EndElsewhere(f) ==
  /\ phase[f] = "live" /\ Advance(f, "over")
  /\ UNCHANGED <<rows, jar, pc, req, copy, status, popped>>
----------------------------------------------------------------------------
Step(r) ==
  \/ LoadSession(r)
  \/ CheckOAuthSession(r)
  \/ ServePage(r)
  \/ RedirectLoggedIn(r)
  \/ StartLogin(r)
  \/ RenewToken(r)
  \/ FinishLogin(r)
  \/ Logout(r)
  \/ DestroySession(r)
  \/ Commit(r)
  \/ Respond(r)

\* A callback can be opened in any browser once its flow was started.
Browse(r, b) ==
  \/ \E redirect \in Path \cup Elsewhere \cup {None} : Send(r, b, "start", None, redirect)
  \/ \E f \in Flow : phase[f] # "new" /\ Send(r, b, "callback", f, None)
  \/ \E kind \in {"logout", "page"} : Send(r, b, kind, None, None)

Next ==
  \/ \E r \in Request : Step(r) \/ \E b \in Browser : Browse(r, b)
  \/ \E f \in Flow : EndElsewhere(f)

Spec == Init /\ [][Next]_vars

\* Every call of the service and every statement returns, so a request that
\* has arrived is answered.  Browsers need not send any.
FairSpec == Spec /\ \A r \in Request : WF_vars(Step(r))
============================================================================
