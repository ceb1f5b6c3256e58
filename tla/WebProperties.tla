--------------------------- MODULE WebProperties ---------------------------
(***************************************************************************)
(* What the handlers promise of cookies and logins.                        *)
(***************************************************************************)
EXTENDS Web

\* The request that started the flow, which is still in its copy.
Started(r, f) == req[r].kind = "start" /\ status[r] = "modified" /\ copy[r].state = f

\* The request that finished it.
Finished(r, f) == req[r].kind = "callback" /\ popped[r].state = f /\ copy[r].login = f

\* Only the browser that started a flow can finish it, and nobody else is ever
\* served as the user it logged in, whoever opens the callback.
OnlyStarterFinishes ==
  \A r \in Request : LoggedIn(r) =>
    \E q \in Request : Started(q, copy[r].login) /\ req[q].browser = req[r].browser

\* A token that two browsers had before a login is never the token of the
\* logged-in session.
LoginTokenIsFresh ==
  \A x \in rows, b, c \in Browser :
    x.login # None /\ jar[b] = x.token /\ jar[c] = x.token => b = c

\* A login ends at the path its own form asked for, though tabs share the
\* cookie session that carries it.
RedirectFollowsFlow ==
  \A r \in Request, f \in Flow : Finished(r, f) =>
    \E q \in Request : Started(q, f) /\ popped[r].redirect = LocalPath(req[q].redirect)

\* One login is in one cookie session, so logging out of that ends it.
OneCookiePerLogin ==
  \A x, y \in rows : x.login = y.login /\ x.login # None => x = y

\* As long as an OAuth session exists, so does the cookie session that can end
\* it, or the request that is about to save that one.
SessionsHeld ==
  \A f \in Flow : phase[f] = "live" =>
    \/ \E x \in rows : x.login = f
    \/ \E r \in Request : pc[r] = "commit" /\ copy[r].login = f

\* A cookie session that was destroyed does not come back with its login when
\* a request that had read it before is done.
DestroyedStaysGone ==
  \A r \in Request : status[r] = "destroyed" =>
    \A x \in rows : x.login # copy[r].login

\* A cookie does not outlive the OAuth session it was issued for: a request
\* that comes with one whose session is gone leaves it destroyed.
GoneSessionLosesCookie ==
  \A r \in Request, f \in Flow :
    pc[r] = "check" /\ copy[r].login = f /\ phase[f] = "over"
      ~> \A x \in rows : x.login # f
============================================================================
