----------------------------- MODULE WebProofs -----------------------------
(***************************************************************************)
(* What holds of cookies and logins however many browsers, requests and    *)
(* flows there are.                                                        *)
(***************************************************************************)
EXTENDS WebProperties, TLAPS

----------------------------------------------------------------------------
(* Types, and what a request's place in its handler says of it *)

\* Whoever is past the handler.
Settled(r) == pc[r] \in {"respond", "done"}

\* What r's place in its handler says of its cookie session.
Placed(r) ==
  /\ req[r].kind = "callback" => req[r].flow \in Flow
  /\ pc[r] = "finish" => req[r].kind = "callback" /\ copy[r].token = r /\ copy[r].state = None
  /\ pc[r] \in {"check", "destroy"} => LoggedIn(r)
  /\ pc[r] # "unsent" => req[r] \in Sent
  /\ pc[r] \in {"unsent", "load"} => copy[r] = Empty(None)
  /\ pc[r] = "unsent" => req[r] = Unsent /\ popped[r].state = None
  /\ status[r] = "destroyed" => Settled(r)

\* Types, with every request in its place.
TypeInv == TypeOK /\ \A r \in Request : Placed(r)

\* No request has been sent.
LEMMA TypeInit == Init => TypeInv
<1> SUFFICES ASSUME Init PROVE TypeInv
  OBVIOUS
<1> USE DEF Init
<1>1. phase \in [Flow -> Phase]
  BY DEF FlowInit, Phase
<1>2. rows \subseteq Row
  BY DEF Row, Empty, Token
<1>3. copy \in [Request -> Copy] /\ \A r \in Request : copy[r] = Empty(None)
  BY DEF Copy, Empty
<1>4. jar \in [Browser -> Token \cup {None}]
  BY DEF Token
<1>5. popped \in [Request -> [state : Flow \cup {None}, redirect : Path \cup {None}]]
  BY DEF NoLogin
<1>6. TypeOK
  BY <1>1, <1>2, <1>3, <1>4, <1>5 DEF TypeOK
<1>7. ASSUME NEW r \in Request PROVE Placed(r)
  <2>1. req[r] = Unsent /\ pc[r] = "unsent" /\ status[r] = "unmodified"
    OBVIOUS
  <2>2. req[r].kind # "callback"
    BY <2>1 DEF Unsent, None
  <2>3. popped[r].state = None
    BY DEF NoLogin
  <2> QED BY <2>1, <2>2, <2>3, <1>3 DEF Placed
<1> QED BY <1>6, <1>7 DEF TypeInv

\* A row is a copy that has a token.
LEMMA RecordTypes ==
  /\ \A t \in Token \cup {None} : Empty(t) \in Copy
  /\ \A x \in Row : x \in Copy
  /\ \A x \in Copy : x.token # None => x \in Row
  /\ \A x \in Copy : x \in [token : Token \cup {None}, state : Flow \cup {None},
                            redirect : Path \cup {None}, login : Flow \cup {None}]
BY DEF Copy, Row, Empty

\* What all the steps of a request have in common: it touches its own
\* variables only, and its browser's cookie.
Alone(r) ==
  /\ \A q \in Request \ {r} : /\ pc'[q] = pc[q] /\ req'[q] = req[q] /\ copy'[q] = copy[q]
                              /\ status'[q] = status[q] /\ popped'[q] = popped[q]
  /\ \A b \in Browser : b # req[r].browser => jar'[b] = jar[b]

\* Every step of a request is its own.
LEMMA StepAlone ==
  ASSUME TypeInv, NEW r \in Request, Step(r) \/ \E b \in Browser : Browse(r, b)
  PROVE  Alone(r)
<1> USE DEF TypeInv, TypeOK, Alone, Go, Pass, Modify
<1>1. CASE \E b \in Browser : Browse(r, b)
  BY <1>1 DEF Browse, Send
<1>2. CASE LoadSession(r)
  BY <1>2 DEF LoadSession
<1>3. CASE CheckOAuthSession(r) \/ DestroySession(r)
  BY <1>3 DEF CheckOAuthSession, DestroySession, Destroy
<1>4. CASE ServePage(r) \/ RedirectLoggedIn(r) \/ Logout(r)
  BY <1>4 DEF ServePage, RedirectLoggedIn, Logout
<1>5. CASE StartLogin(r) \/ RenewToken(r)
  BY <1>5 DEF StartLogin, RenewToken
<1>6. CASE FinishLogin(r)
  BY <1>6 DEF FinishLogin
<1>7. CASE Commit(r)
  BY <1>7 DEF Commit
<1>8. CASE Respond(r)
  BY <1>8 DEF Respond
<1> QED BY <1>1, <1>2, <1>3, <1>4, <1>5, <1>6, <1>7, <1>8 DEF Step

\* Every step takes flows along their lifecycle, or leaves them.
LEMMA PhaseStep ==
  ASSUME TypeInv, [Next]_vars
  PROVE  FlowNext \/ UNCHANGED phase
<1> USE DEF TypeInv, TypeOK
<1>1. ASSUME NEW f \in Flow, NEW to, Advance(f, to) PROVE FlowNext
  <2>1. to \in Phase
    BY <1>1 DEF Advance, Later, Phase
  <2> QED BY <1>1, <2>1 DEF Advance, FlowNext
<1>2. CASE \E f \in Flow : EndElsewhere(f)
  BY <1>1, <1>2 DEF EndElsewhere
<1>3. CASE \E r \in Request, b \in Browser : Browse(r, b)
  BY <1>3 DEF Browse, Send
<1>4. ASSUME NEW r \in Request, Step(r) PROVE FlowNext \/ UNCHANGED phase
  <2>1. CASE StartLogin(r)
    BY <1>1, <2>1 DEF StartLogin
  <2>2. CASE FinishLogin(r)
    <3>1. req[r].flow \in Flow
      BY <2>2 DEF FinishLogin, Go, Pass, Modify, Placed
    <3> QED BY <1>1, <2>2, <3>1 DEF FinishLogin
  <2>3. CASE Logout(r)
    <3>1. LoggedIn(r) => copy[r].login \in Flow
      BY DEF LoggedIn, Copy
    <3> QED BY <1>1, <2>3, <3>1 DEF Logout
  <2> QED BY <1>4, <2>1, <2>2, <2>3 DEF Step, LoadSession, CheckOAuthSession, ServePage, RedirectLoggedIn,
     RenewToken, DestroySession, Commit, Respond
<1> QED BY <1>2, <1>3, <1>4 DEF Next, vars

\* What can be sent.
LEMMA Sending ==
  ASSUME NEW r \in Request, \E b \in Browser : Browse(r, b)
  PROVE  \E b \in Browser, k \in {"start", "callback", "logout", "page"}, f \in Flow \cup {None},
            p \in Path \cup Elsewhere \cup {None} : Send(r, b, k, f, p) /\ (k = "callback" => f \in Flow)
<1>1. PICK b \in Browser : Browse(r, b)
  OBVIOUS
<1>2. CASE \E p \in Path \cup Elsewhere \cup {None} : Send(r, b, "start", None, p)
  BY <1>2
<1>3. CASE \E f \in Flow : Send(r, b, "callback", f, None)
  BY <1>3
<1>4. CASE Send(r, b, "logout", None, None) \/ Send(r, b, "page", None, None)
  BY <1>4
<1> QED BY <1>1, <1>2, <1>3, <1>4 DEF Browse

\* A request that is loading finds a row, or begins with nothing.
LEMMA Loaded ==
  ASSUME TypeInv, NEW r \in Request, LoadSession(r)
  PROVE  \E new \in Copy : /\ (new \in rows /\ new.token = req[r].cookie) \/ new = Empty(None)
                           /\ copy' = [copy EXCEPT ![r] = new]
                           /\ pc[r] = "load"
                           /\ pc' = [pc EXCEPT ![r] = IF new.login = None THEN "handle" ELSE "check"]
<1> DEFINE found == {x \in rows : x.token = req[r].cookie}
           new   == IF found = {} THEN Empty(None) ELSE CHOOSE x \in found : TRUE
<1>1. found # {} => new \in found
  OBVIOUS
<1>2. (new \in rows /\ new.token = req[r].cookie) \/ new = Empty(None)
  BY <1>1
<1>3. /\ Go(r, "load", IF new.login = None THEN "handle" ELSE "check")
      /\ copy' = [copy EXCEPT ![r] = new]
  BY DEF LoadSession
<1> HIDE DEF new
<1>4. new \in Copy
  BY <1>2, RecordTypes DEF TypeInv, TypeOK
<1> QED BY <1>2, <1>3, <1>4 DEF Go

\* What each handler writes into the copy.
LEMMA Starting ==
  ASSUME TypeInv, NEW r \in Request, StartLogin(r)
  PROVE  /\ UNCHANGED <<rows, jar, req, popped>> /\ pc[r] = "handle" /\ req[r].kind = "start"
         /\ copy[r].login = None
         /\ \/ Pass(r, "handle", "respond") /\ UNCHANGED phase
            \/ \E f \in Flow, new \in Copy :
                 /\ Modify(r, "handle", "commit", new) /\ Advance(f, "pending")
                 /\ new.token = copy[r].token /\ new.login = None
                 /\ new.state = f /\ new.redirect = LocalPath(req[r].redirect)
<1>1. copy[r] \in Copy
  BY DEF TypeInv, TypeOK
<1>2. \A f \in Flow : /\ NextLogin(r, f) \in Copy
                      /\ NextLogin(r, f).token = copy[r].token /\ NextLogin(r, f).login = copy[r].login
                      /\ NextLogin(r, f).state = f /\ NextLogin(r, f).redirect = LocalPath(req[r].redirect)
  BY <1>1 DEF NextLogin, LocalPath, Copy
<1>3. copy[r].login = None /\ pc[r] = "handle" /\ req[r].kind = "start" /\ UNCHANGED <<rows, jar, req, popped>>
  BY DEF StartLogin, Handling, CanLogIn, LoggedIn, Modify, Pass
<1> QED BY <1>2, <1>3 DEF StartLogin

\* What the renewing of a callback's token does.
LEMMA Renewing ==
  ASSUME TypeInv, NEW r \in Request, RenewToken(r)
  PROVE  /\ UNCHANGED <<phase, jar, req>> /\ pc[r] = "handle" /\ req[r].kind = "callback"
         /\ copy[r].login = None
         /\ \/ Pass(r, "handle", "respond") /\ UNCHANGED rows
            \/ \E new \in Copy, p \in [state : Flow \cup {None}, redirect : Path \cup {None}] :
                 /\ Modify(r, "handle", "finish", new) /\ DeleteRow(copy[r].token)
                 /\ new.token = r /\ new.login = None /\ new.state = None
                 /\ popped' = [popped EXCEPT ![r] = p]
                 /\ p.state = copy[r].state /\ p.redirect = LocalPath(copy[r].redirect)
<1> DEFINE new == [copy[r] EXCEPT !.token = Renewed(r), !.state = None, !.redirect = None]
           p   == [state |-> copy[r].state, redirect |-> LocalPath(copy[r].redirect)]
<1>1. copy[r] \in Copy
  BY DEF TypeInv, TypeOK
<1>2. new \in Copy /\ new.token = r /\ new.login = copy[r].login /\ new.state = None
  BY <1>1 DEF Renewed, Copy, Token
<1>3. /\ p \in [state : Flow \cup {None}, redirect : Path \cup {None}]
      /\ p.state = copy[r].state /\ p.redirect = LocalPath(copy[r].redirect)
  BY <1>1 DEF Copy, LocalPath
<1>4. /\ UNCHANGED <<phase, jar, req>> /\ pc[r] = "handle" /\ req[r].kind = "callback"
      /\ copy[r].login = None
  BY DEF RenewToken, Handling, CanLogIn, LoggedIn, Modify, Pass, Go
<1>5. \/ Pass(r, "handle", "respond") /\ UNCHANGED rows
      \/ Modify(r, "handle", "finish", new) /\ popped' = [popped EXCEPT ![r] = p] /\ DeleteRow(copy[r].token)
  BY DEF RenewToken
<1> HIDE DEF new, p
<1> QED BY <1>2, <1>3, <1>4, <1>5

\* What the FinishLogin of a callback does.
LEMMA Finishing ==
  ASSUME TypeInv, NEW r \in Request, FinishLogin(r)
  PROVE  /\ UNCHANGED <<rows, jar, req, popped>> /\ pc[r] = "finish" /\ req[r].flow \in Flow
         /\ copy[r].token = r
         /\ \/ Pass(r, "finish", "commit")
            \/ \E new \in Copy :
                 /\ Modify(r, "finish", "commit", new)
                 /\ popped[r].state = req[r].flow /\ Advance(req[r].flow, "live")
                 /\ new.token = r /\ new.login = req[r].flow /\ new.state = None
<1> DEFINE new == [copy[r] EXCEPT !.login = req[r].flow]
<1>1. copy[r] \in Copy /\ Placed(r)
  BY DEF TypeInv, TypeOK
<1>2. UNCHANGED <<rows, jar, req, popped>> /\ pc[r] = "finish"
  BY DEF FinishLogin, Modify, Pass, Go
<1>3. req[r].flow \in Flow /\ copy[r].token = r /\ copy[r].state = None
  BY <1>1, <1>2 DEF Placed
<1>4. new \in Copy /\ new.token = r /\ new.login = req[r].flow /\ new.state = None
  BY <1>1, <1>3 DEF Copy
<1>5. \/ Pass(r, "finish", "commit")
      \/ Modify(r, "finish", "commit", new) /\ popped[r].state = req[r].flow /\ Advance(req[r].flow, "live")
  BY DEF FinishLogin, Matches
<1> HIDE DEF new
<1> QED BY <1>2, <1>3, <1>4, <1>5

\* What the commit of a cookie session does.
LEMMA Committing ==
  ASSUME TypeInv, NEW r \in Request, Commit(r)
  PROVE  /\ UNCHANGED <<phase, jar, req, popped>>
         /\ pc[r] = "commit" /\ pc' = [pc EXCEPT ![r] = "respond"]
         /\ \/ /\ StoreFails /\ UNCHANGED <<rows, copy>>
               /\ status' = [status EXCEPT ![r] = "unmodified"]
            \/ \E row \in Row \cap Copy :
                 /\ rows' = {x \in rows : x.token # row.token} \cup {row}
                 /\ copy' = [copy EXCEPT ![r] = row] /\ UNCHANGED status
                 /\ row.token = IF copy[r].token = None THEN r ELSE copy[r].token
                 /\ row.login = copy[r].login /\ row.state = copy[r].state /\ row.redirect = copy[r].redirect
<1> DEFINE row == [copy[r] EXCEPT !.token = IF @ = None THEN r ELSE @]
<1>1. copy[r] \in Copy
  BY DEF TypeInv, TypeOK
<1>2. /\ row.token = IF copy[r].token = None THEN r ELSE copy[r].token
      /\ row.login = copy[r].login /\ row.state = copy[r].state /\ row.redirect = copy[r].redirect
  BY <1>1 DEF Copy
<1>3. row \in Row /\ row \in Copy
  <2>1. row \in Copy /\ row.token # None
    BY <1>1, WebAssumption DEF Copy, Token
  <2> QED BY <2>1, RecordTypes
<1>4. /\ UNCHANGED <<phase, jar, req, popped>> /\ pc[r] = "commit" /\ pc' = [pc EXCEPT ![r] = "respond"]
      /\ \/ /\ StoreFails /\ UNCHANGED <<rows, copy>>
            /\ status' = [status EXCEPT ![r] = "unmodified"]
         \/ /\ rows' = {x \in rows : x.token # row.token} \cup {row}
            /\ copy' = [copy EXCEPT ![r] = row] /\ UNCHANGED status
  BY DEF Commit, Go
<1> HIDE DEF row
<1> QED BY <1>2, <1>3, <1>4

\* The places of a request.
Places == {"unsent", "load", "check", "handle", "finish", "destroy", "commit", "respond", "done"}

\* What a request's own step does to its own variables, and to the rows.
LEMMA StepFits ==
  ASSUME TypeInv, NEW r \in Request, Step(r) \/ \E b \in Browser : Browse(r, b)
  PROVE  /\ rows' \subseteq Row
         /\ jar' \in [Browser -> Token \cup {None}]
         /\ pc' \in [Request -> Places]
         /\ req' \in [Request -> Sent \cup {Unsent}]
         /\ copy' \in [Request -> Copy]
         /\ status' \in [Request -> {"unmodified", "modified", "destroyed"}]
         /\ popped' \in [Request -> [state : Flow \cup {None}, redirect : Path \cup {None}]]
         /\ Placed(r)'
<1> USE DEF TypeInv, TypeOK
<1>0. Placed(r) /\ copy[r] \in Copy /\ rows \subseteq Row /\ pc[r] \in Places
  BY DEF Places
<1>1. CASE \E b \in Browser : Browse(r, b)
  <2>1. PICK b \in Browser, k \in {"start", "callback", "logout", "page"}, f \in Flow \cup {None},
             p \in Path \cup Elsewhere \cup {None} :
          Send(r, b, k, f, p) /\ (k = "callback" => f \in Flow)
    BY <1>1, Sending
  <2>2. req'[r] \in Sent /\ (req'[r].kind = "callback" => req'[r].flow \in Flow)
    <3>1. b \in Browser /\ jar[b] \in Token \cup {None}
      BY <2>1
    <3>2. req' = [req EXCEPT ![r] = [kind |-> k, browser |-> b, cookie |-> jar[b], flow |-> f, redirect |-> p]]
      BY <2>1 DEF Send
    <3>3. [kind |-> k, browser |-> b, cookie |-> jar[b], flow |-> f, redirect |-> p] \in Sent
      BY <2>1, <3>1 DEF Sent
    <3> QED BY <2>1, <3>2, <3>3
  <2>3. pc[r] = "unsent" /\ pc' = [pc EXCEPT ![r] = "load"] /\ UNCHANGED <<rows, jar, copy, status, popped>>
    BY <2>1 DEF Send, Go
  <2>4. Placed(r)'
    BY <1>0, <2>2, <2>3 DEF Placed, Settled
  <2>5. req' \in [Request -> Sent \cup {Unsent}]
    BY <2>1, <2>2 DEF Send
  <2> QED BY <2>3, <2>4, <2>5 DEF Places
<1>2. CASE LoadSession(r)
  <2>1. PICK new \in Copy : /\ copy' = [copy EXCEPT ![r] = new]
                            /\ Go(r, "load", IF new.login = None THEN "handle" ELSE "check")
    BY <1>2, Loaded DEF Go
  <2>2. UNCHANGED <<rows, jar, req, status, popped>>
    BY <1>2 DEF LoadSession
  <2>3. Placed(r)'
    BY <1>0, <2>1, <2>2 DEF Placed, LoggedIn, Settled, Go
  <2> QED BY <2>1, <2>2, <2>3 DEF Go, Places
<1>3. CASE CheckOAuthSession(r) \/ DestroySession(r)
  <2>1. /\ pc[r] \in {"check", "destroy"} /\ UNCHANGED <<jar, req, copy, popped>>
        /\ \E to \in {"handle", "respond"} : pc' = [pc EXCEPT ![r] = to]
        /\ rows' \subseteq rows
        /\ status' = status \/ (status' = [status EXCEPT ![r] = "destroyed"] /\ pc'[r] = "respond")
    BY <1>3 DEF CheckOAuthSession, DestroySession, Destroy, DeleteRow, Pass, Go
  <2>2. Placed(r)'
    BY <1>0, <2>1 DEF Placed, LoggedIn, Settled
  <2> QED BY <2>1, <2>2 DEF Places
<1>4. CASE ServePage(r) \/ RedirectLoggedIn(r) \/ Logout(r)
  <2>1. /\ pc[r] = "handle" /\ UNCHANGED <<rows, jar, req, copy, status, popped>>
        /\ \E to \in {"respond", "destroy"} : pc' = [pc EXCEPT ![r] = to] /\ (to = "destroy" => LoggedIn(r))
    BY <1>4 DEF ServePage, RedirectLoggedIn, Logout, Handling, Pass, Go
  <2>2. Placed(r)'
    BY <1>0, <2>1 DEF Placed, LoggedIn, Settled
  <2> QED BY <2>1, <2>2 DEF Places
<1>5. CASE StartLogin(r)
  <2>1. UNCHANGED <<rows, jar, req, popped>> /\ pc[r] = "handle"
    BY <1>5, Starting
  <2>2. PICK new \in Copy, to \in {"commit", "respond"}, s \in {status[r], "modified"} :
          /\ copy' = [copy EXCEPT ![r] = new] /\ pc' = [pc EXCEPT ![r] = to]
          /\ status' = [status EXCEPT ![r] = s]
    <3>1. CASE Pass(r, "handle", "respond")
      BY <1>0, <3>1 DEF Pass, Go
    <3>2. CASE \E new \in Copy : Modify(r, "handle", "commit", new)
      BY <3>2 DEF Modify, Go
    <3> QED BY <1>5, <3>1, <3>2, Starting
  <2>3. Placed(r)'
    BY <1>0, <2>1, <2>2 DEF Placed, LoggedIn, Settled
  <2> QED BY <2>1, <2>2, <2>3 DEF Places
<1>6. CASE RenewToken(r)
  <2>1. UNCHANGED <<jar, req>> /\ rows' \subseteq rows /\ pc[r] = "handle" /\ req[r].kind = "callback"
    BY <1>6, Renewing DEF DeleteRow
  <2>2. PICK new \in Copy, to \in {"finish", "respond"}, s \in {status[r], "modified"},
             p \in [state : Flow \cup {None}, redirect : Path \cup {None}] :
          /\ copy' = [copy EXCEPT ![r] = new] /\ pc' = [pc EXCEPT ![r] = to]
          /\ status' = [status EXCEPT ![r] = s] /\ popped' = [popped EXCEPT ![r] = p]
          /\ to = "finish" => new.token = r /\ new.state = None
    <3>1. CASE Pass(r, "handle", "respond")
      BY <1>0, <3>1 DEF Pass, Go
    <3>2. CASE \E new \in Copy, p \in [state : Flow \cup {None}, redirect : Path \cup {None}] :
                 Modify(r, "handle", "finish", new) /\ new.token = r /\ new.state = None /\ popped' = [popped EXCEPT ![r] = p]
      BY <3>2 DEF Modify, Go
    <3> QED BY <1>6, <3>1, <3>2, Renewing
  <2>3. Placed(r)'
    BY <1>0, <2>1, <2>2 DEF Placed, LoggedIn, Settled
  <2> QED BY <2>1, <2>2, <2>3 DEF Places
<1>7. CASE FinishLogin(r)
  <2>1. UNCHANGED <<rows, jar, req, popped>> /\ pc[r] = "finish"
    BY <1>7, Finishing
  <2>2. PICK new \in Copy, s \in {status[r], "modified"} :
          /\ copy' = [copy EXCEPT ![r] = new] /\ pc' = [pc EXCEPT ![r] = "commit"]
          /\ status' = [status EXCEPT ![r] = s]
    <3>1. CASE Pass(r, "finish", "commit")
      BY <1>0, <3>1 DEF Pass, Go
    <3>2. CASE \E new \in Copy : Modify(r, "finish", "commit", new)
      BY <3>2 DEF Modify, Go
    <3> QED BY <1>7, <3>1, <3>2, Finishing
  <2>3. Placed(r)'
    BY <1>0, <2>1, <2>2 DEF Placed, LoggedIn, Settled
  <2> QED BY <2>1, <2>2, <2>3 DEF Places
<1>8. CASE Commit(r)
  <2>1. UNCHANGED <<jar, req, popped>> /\ pc[r] = "commit" /\ pc' = [pc EXCEPT ![r] = "respond"]
    BY <1>8, Committing
  <2>2. PICK s \in {status[r], "unmodified"} : status' = [status EXCEPT ![r] = s]
    BY <1>8, Committing
  <2>3. /\ rows' \subseteq rows \cup Row
        /\ copy' = copy \/ \E row \in Copy : copy' = [copy EXCEPT ![r] = row]
    BY <1>8, Committing
  <2>4. Placed(r)'
    BY <1>0, <2>1, <2>2, <2>3 DEF Placed, LoggedIn, Settled
  <2> QED BY <1>0, <2>1, <2>2, <2>3, <2>4 DEF Places
<1>9. CASE Respond(r)
  <2>1. /\ UNCHANGED <<rows, req, copy, status, popped>> /\ pc[r] = "respond"
        /\ pc' = [pc EXCEPT ![r] = "done"]
    BY <1>9 DEF Respond, Go
  <2>2. Placed(r)'
    BY <1>0, <2>1 DEF Placed, LoggedIn, Settled
  <2>3. jar' \in [Browser -> Token \cup {None}]
    <3>1. copy[r].token \in Token \cup {None}
      BY <1>0 DEF Copy
    <3>2. \/ jar' = jar
          \/ \E t \in Token \cup {None} : jar' = [jar EXCEPT ![req[r].browser] = t]
          \/ jar' = [jar EXCEPT ![req[r].browser] = @]
      BY <1>9, <3>1 DEF Respond
    <3> QED BY <3>2
  <2> QED BY <2>1, <2>2, <2>3 DEF Places
<1> QED BY <1>1, <1>2, <1>3, <1>4, <1>5, <1>6, <1>7, <1>8, <1>9 DEF Step

\* Every step keeps types and places.
LEMMA TypeStep ==
  ASSUME TypeInv, [Next]_vars
  PROVE  TypeInv'
<1>1. phase' \in [Flow -> Phase]
  BY PhaseStep DEF TypeInv, TypeOK, FlowNext
<1>2. CASE \E r \in Request : Step(r) \/ \E b \in Browser : Browse(r, b)
  <2>1. PICK r \in Request : Step(r) \/ \E b \in Browser : Browse(r, b)
    BY <1>2
  <2>2. Alone(r)
    BY <2>1, StepAlone
  <2>3. \A q \in Request \ {r} : Placed(q)'
    BY <2>2 DEF TypeInv, Alone, Placed, LoggedIn, Settled
  <2>4. Placed(r)' /\ TypeOK'
    BY <1>1, <2>1, StepFits DEF TypeOK, Places
  <2> QED BY <2>3, <2>4 DEF TypeInv
<1>3. CASE (\E f \in Flow : EndElsewhere(f)) \/ UNCHANGED vars
  BY <1>1, <1>3 DEF TypeInv, TypeOK, EndElsewhere, vars, Placed, LoggedIn, Settled
<1> QED BY <1>2, <1>3 DEF Next

\* A request that is settled changes no more.
LEMMA SettledStays ==
  ASSUME TypeInv, [Next]_vars, NEW q \in Request, Settled(q)
  PROVE  Settled(q)' /\ copy'[q] = copy[q] /\ req'[q] = req[q] /\ status'[q] = status[q]
<1> USE DEF Settled
<1>1. CASE \E r \in Request : r # q /\ (Step(r) \/ \E b \in Browser : Browse(r, b))
  BY <1>1, StepAlone DEF Alone
<1>2. CASE \E b \in Browser : Browse(q, b)
  BY <1>2 DEF Browse, Send, Go
<1>3. CASE Step(q)
  BY <1>3 DEF Step, LoadSession, CheckOAuthSession, DestroySession, Destroy, ServePage, RedirectLoggedIn,
     StartLogin, RenewToken, FinishLogin, Logout, Commit, Respond, Go, Pass, Modify, Handling, TypeInv, TypeOK
<1>4. CASE (\E f \in Flow : EndElsewhere(f)) \/ UNCHANGED vars
  BY <1>4 DEF EndElsewhere, vars
<1> QED BY <1>1, <1>2, <1>3, <1>4 DEF Next

----------------------------------------------------------------------------
(* Tokens: who made one, who has it, and which login it is for *)

\* t has made a token, and is past using it.
Named(t) == Settled(t) /\ copy[t].token = t

\* A token in other hands than its maker's is the maker's browser's, and its
\* login is the maker's.
RowsNamed ==
  /\ \A x \in rows : x.token \in Request => Named(x.token) /\ x.login = copy[x.token].login
  /\ \A x \in rows : x.token \notin Request => x.login = None
  /\ \A x, y \in rows : x.token = y.token => x = y

\* The token of r's cookie session, and its login.
CopyNamed(r) ==
  /\ copy[r].token \notin Request => copy[r].login = None
  /\ copy[r].token = r => pc[r] \in {"finish", "commit", "respond", "done"}
  /\ copy[r].token \in Request \ {r} =>
       /\ Named(copy[r].token) /\ copy[r].login = copy[copy[r].token].login
       /\ req[copy[r].token].browser = req[r].browser

\* The token in browser b's jar.
JarNamed(b) == jar[b] \in Request => Named(jar[b]) /\ req[jar[b]].browser = b

\* The token that came with r.
CookieNamed(r) ==
  req[r].cookie \in Request => Named(req[r].cookie) /\ req[req[r].cookie].browser = req[r].browser

\* So it is wherever there are tokens.
TokenInv ==
  /\ RowsNamed
  /\ \A r \in Request : CopyNamed(r) /\ CookieNamed(r)
  /\ \A b \in Browser : JarNamed(b)

\* What a token names does not change.
LEMMA NamedStays ==
  ASSUME TypeInv, [Next]_vars, NEW t \in Request, Named(t)
  PROVE  Named(t)' /\ copy'[t] = copy[t] /\ req'[t] = req[t]
BY SettledStays DEF Named

\* Nothing is disturbed for the other requests, nor by taking rows away.
LEMMA OthersNamed ==
  ASSUME TypeInv, TokenInv, NEW r \in Request, Step(r) \/ \E b \in Browser : Browse(r, b)
  PROVE  /\ rows' \subseteq rows => RowsNamed'
         /\ \A q \in Request \ {r} : CopyNamed(q)' /\ CookieNamed(q)'
         /\ UNCHANGED jar => \A b \in Browser : JarNamed(b)'
         /\ UNCHANGED req => CookieNamed(r)'
         /\ UNCHANGED <<req, copy>> /\ (copy[r].token = r => pc'[r] \in {"commit", "respond", "done"}) => CopyNamed(r)'
<1>1. \A t \in Request : Named(t) => Named(t)' /\ copy'[t] = copy[t] /\ req'[t] = req[t]
  BY NamedStays DEF Next
<1>2. Alone(r)
  BY StepAlone
<1>3. rows' \subseteq rows => RowsNamed'
  BY <1>1 DEF TokenInv, RowsNamed
<1>4. \A q \in Request \ {r} : CopyNamed(q)' /\ CookieNamed(q)'
  BY <1>1, <1>2 DEF TokenInv, CopyNamed, CookieNamed, Alone
<1>5. UNCHANGED jar => \A b \in Browser : JarNamed(b)'
  BY <1>1 DEF TokenInv, JarNamed
<1>6. UNCHANGED req => CookieNamed(r)'
  BY <1>1 DEF TokenInv, CookieNamed
<1>7. UNCHANGED <<req, copy>> /\ (copy[r].token = r => pc'[r] \in {"commit", "respond", "done"}) => CopyNamed(r)'
  BY <1>1 DEF TokenInv, CopyNamed
<1> QED BY <1>3, <1>4, <1>5, <1>6, <1>7

\* At first there is nobody's token but the old one.
LEMMA TokenInit == Init => TokenInv
<1> SUFFICES ASSUME Init PROVE TokenInv
  OBVIOUS
<1>1. OldToken \notin Request /\ None \notin Request
  BY WebAssumption
<1>2. RowsNamed
  BY <1>1 DEF Init, RowsNamed, Empty
<1>3. \A r \in Request : req[r].cookie = None /\ copy[r].token = None /\ copy[r].login = None
  BY DEF Init, Unsent, Empty
<1>4. \A b \in Browser : jar[b] \notin Request
  BY <1>1 DEF Init
<1> QED BY <1>1, <1>2, <1>3, <1>4 DEF TokenInv, CopyNamed, CookieNamed, JarNamed

\* Every step keeps whose the tokens are.
LEMMA TokenStep ==
  ASSUME TypeInv, TokenInv, [Next]_vars
  PROVE  TokenInv'
<1>1. ASSUME NEW r \in Request, Step(r) \/ \E b \in Browser : Browse(r, b)
      PROVE  TokenInv'
  <2>0. /\ rows' \subseteq rows => RowsNamed'
        /\ \A q \in Request \ {r} : CopyNamed(q)' /\ CookieNamed(q)'
        /\ UNCHANGED jar => \A b \in Browser : JarNamed(b)'
        /\ UNCHANGED req => CookieNamed(r)'
        /\ UNCHANGED <<req, copy>> /\ (copy[r].token = r => pc'[r] \in {"commit", "respond", "done"}) => CopyNamed(r)'
    BY <1>1, OthersNamed
  <2>N. \A t \in Request : Named(t) => Named(t)' /\ copy'[t] = copy[t] /\ req'[t] = req[t]
    BY <1>1, NamedStays DEF Next
  <2>T. CopyNamed(r) /\ Placed(r) /\ copy[r] \in Copy /\ None \notin Request /\ Alone(r)
    BY <1>1, StepAlone, WebAssumption DEF TypeInv, TypeOK, TokenInv
  <2>Q. ASSUME rows' \subseteq rows, UNCHANGED <<jar, req>>, CopyNamed(r)' PROVE TokenInv'
    BY <2>0, <2>Q DEF TokenInv
  <2>1. CASE \E b \in Browser : Browse(r, b)
    <3>1. PICK b \in Browser, k \in {"start", "callback", "logout", "page"}, f \in Flow \cup {None},
               p \in Path \cup Elsewhere \cup {None} : Send(r, b, k, f, p)
      BY <2>1, Sending
    <3>2. /\ UNCHANGED <<rows, jar, copy>> /\ copy[r].token = None /\ copy[r].login = None
          /\ req'[r].cookie = jar[b] /\ req'[r].browser = b
      BY <2>T, <3>1 DEF Send, Placed, Go, Empty, TypeInv, TypeOK
    <3>3. JarNamed(b) /\ (jar[b] = r => ~Named(r))
      BY <3>1, <2>T DEF TokenInv, Send, Go, Named, Settled
    <3>4. CookieNamed(r)'
      BY <3>2, <3>3, <2>N DEF CookieNamed, JarNamed
    <3>5. CopyNamed(r)'
      BY <3>2, <2>T DEF CopyNamed
    <3> QED BY <2>0, <3>2, <3>4, <3>5 DEF TokenInv
  <2>2. CASE LoadSession(r)
    <3>1. UNCHANGED <<rows, jar, req>>
      BY <2>2 DEF LoadSession
    <3>2. PICK new \in Copy : /\ (new \in rows /\ new.token = req[r].cookie) \/ new = Empty(None)
                              /\ copy'[r] = new
                              /\ pc[r] = "load"
      BY <2>2, Loaded DEF TypeInv, TypeOK
    <3>3. CASE new = Empty(None)
      BY <2>Q, <2>T, <3>1, <3>2, <3>3 DEF CopyNamed, Empty
    <3>4. CASE new \in rows /\ new.token = req[r].cookie
      <4>1. /\ new.token \in Request => Named(new.token) /\ new.login = copy[new.token].login
            /\ new.token \in Request => req[new.token].browser = req[r].browser
            /\ new.token \notin Request => new.login = None
        BY <3>4 DEF TokenInv, RowsNamed, CookieNamed
      <4>2. new.token # r
        BY <3>2, <4>1 DEF Named, Settled
      <4>3. CopyNamed(r)'
        BY <2>N, <3>1, <3>2, <4>1, <4>2 DEF CopyNamed
      <4> QED BY <2>Q, <3>1, <4>3
    <3> QED BY <3>2, <3>3, <3>4
  <2>3. CASE CheckOAuthSession(r) \/ DestroySession(r)
    <3>1. UNCHANGED <<jar, req, copy>> /\ rows' \subseteq rows /\ pc[r] \in {"check", "destroy"}
      BY <2>3 DEF CheckOAuthSession, DestroySession, Destroy, DeleteRow, Pass, Go
    <3> QED BY <2>0, <2>Q, <2>T, <3>1 DEF CopyNamed
  <2>4. CASE ServePage(r) \/ RedirectLoggedIn(r) \/ Logout(r)
    <3>1. UNCHANGED <<rows, jar, req, copy>> /\ pc[r] = "handle"
      BY <2>4 DEF ServePage, RedirectLoggedIn, Logout, Handling, Pass, Go
    <3> QED BY <2>0, <2>Q, <2>T, <3>1 DEF CopyNamed
  <2>5. CASE StartLogin(r)
    <3>1. UNCHANGED <<rows, jar, req>> /\ pc[r] = "handle"
      BY <2>5, Starting
    <3>2. copy'[r].token = copy[r].token /\ copy'[r].login = copy[r].login
      BY <2>5, Starting DEF Modify, Pass, TypeInv, TypeOK
    <3>3. CopyNamed(r)'
      BY <2>N, <2>T, <3>1, <3>2 DEF CopyNamed
    <3> QED BY <2>Q, <3>1, <3>3
  <2>6. CASE RenewToken(r)
    <3>1. UNCHANGED <<jar, req>> /\ rows' \subseteq rows /\ pc[r] = "handle"
      BY <2>6, Renewing DEF DeleteRow
    <3>2. \/ UNCHANGED copy
          \/ copy'[r].token = r /\ pc'[r] = "finish"
      BY <2>6, Renewing DEF Modify, Pass, Go, TypeInv, TypeOK
    <3>3. CopyNamed(r)'
      BY <2>0, <2>T, <3>1, <3>2 DEF CopyNamed
    <3> QED BY <2>Q, <3>1, <3>3
  <2>7. CASE FinishLogin(r)
    <3>1. UNCHANGED <<rows, jar, req>> /\ pc'[r] = "commit"
      BY <2>7, Finishing DEF Modify, Pass, Go, TypeInv, TypeOK
    <3>2. copy'[r].token = r
      BY <2>7, Finishing DEF Modify, Pass, TypeInv, TypeOK
    <3>3. CopyNamed(r)'
      BY <2>T, <3>1, <3>2 DEF CopyNamed
    <3> QED BY <2>Q, <3>1, <3>3
  <2>8. CASE Commit(r)
    <3>1. UNCHANGED <<jar, req>> /\ pc[r] = "commit" /\ pc'[r] = "respond"
      BY <2>8, Committing DEF TypeInv, TypeOK
    <3>2. PICK row : \/ UNCHANGED <<rows, copy>>
                     \/ /\ rows' = {x \in rows : x.token # row.token} \cup {row} /\ copy' = [copy EXCEPT ![r] = row]
                        /\ row.login = copy[r].login
                        /\ row.token = IF copy[r].token = None THEN r ELSE copy[r].token
      BY <2>8, Committing
    <3>4. CASE UNCHANGED <<rows, copy>>
      BY <2>0, <2>Q, <3>1, <3>4
    <3>5. CASE /\ rows' = {x \in rows : x.token # row.token} \cup {row} /\ copy' = [copy EXCEPT ![r] = row]
               /\ row.login = copy[r].login
               /\ row.token = IF copy[r].token = None THEN r ELSE copy[r].token
      <4>1. copy'[r] = row
        BY <3>5 DEF TypeInv, TypeOK
      <4>2. CopyNamed(r)'
        BY <2>N, <2>T, <3>1, <3>5, <4>1 DEF CopyNamed
      <4>3. row.token \in Request => Named(row.token)' /\ row.login = copy'[row.token].login
        <5>1. CASE row.token = r
          BY <3>1, <4>1, <5>1 DEF Named, Settled
        <5>2. CASE row.token # r
          BY <2>N, <2>T, <3>5, <5>2 DEF CopyNamed
        <5> QED BY <5>1, <5>2
      <4>4. row.token \notin Request => row.login = None
        BY <2>T, <3>5 DEF CopyNamed
      <4>5. \A x \in rows : /\ x.token \in Request => Named(x.token)' /\ x.login = copy'[x.token].login
                            /\ x.token \notin Request => x.login = None
        BY <2>N DEF TokenInv, RowsNamed
      <4>6. RowsNamed'
        BY <3>5, <4>3, <4>4, <4>5 DEF TokenInv, RowsNamed
      <4> QED BY <2>0, <3>1, <4>2, <4>6 DEF TokenInv
    <3> QED BY <3>2, <3>4, <3>5
  <2>9. CASE Respond(r)
    <3>1. /\ UNCHANGED <<rows, req, copy>> /\ pc[r] = "respond" /\ pc'[r] = "done"
          /\ req[r] \in Sent
      BY <2>9, <2>T DEF Respond, Go, TypeInv, TypeOK, Placed
    <3>2. CopyNamed(r)'
      BY <2>0, <3>1
    <3>3. \/ UNCHANGED jar
          \/ jar'[req[r].browser] \in {copy[r].token, None, jar[req[r].browser]}
      BY <2>9, <3>1 DEF Respond, TypeInv, TypeOK, Sent
    <3>4. copy[r].token \in Request => Named(copy[r].token)' /\ req'[copy[r].token].browser = req[r].browser
      BY <2>N, <2>T, <3>1 DEF CopyNamed, Named, Settled
    <3>5. \A b \in Browser : JarNamed(b)'
      BY <2>N, <2>T, <3>1, <3>3, <3>4 DEF JarNamed, TokenInv, Alone
    <3> QED BY <2>0, <3>1, <3>2, <3>5 DEF TokenInv
  <2> QED BY <1>1, <2>1, <2>2, <2>3, <2>4, <2>5, <2>6, <2>7, <2>8, <2>9 DEF Step
<1>2. CASE (\E f \in Flow : EndElsewhere(f)) \/ UNCHANGED vars
  <2>1. UNCHANGED <<rows, jar, pc, req, copy>>
    BY <1>2 DEF EndElsewhere, vars
  <2> QED BY <2>1 DEF TokenInv, RowsNamed, CopyNamed, CookieNamed, JarNamed, Named, Settled
<1> QED BY <1>1, <1>2 DEF Next

----------------------------------------------------------------------------
(* Logins: one request finishes a flow, and only its own token carries it *)

\* r has finished flow f.
HasLogin(r, f) == f # None /\ copy[r].token = r /\ copy[r].login = f

\* A flow is finished once, and only a request with a token of its own commits a login.
LoginInv ==
  /\ \A q, r \in Request, f \in Flow : HasLogin(q, f) /\ HasLogin(r, f) => q = r
  /\ \A r \in Request, f \in Flow : HasLogin(r, f) => phase[f] \in {"live", "over"}
  /\ \A r \in Request : pc[r] = "commit" /\ LoggedIn(r) => copy[r].token = r

\* A request that destroyed its cookie session had read it from its row, and
\* the rows of that login are gone.
Destroyed(r) ==
  /\ copy[r].token \in Request \ {r} /\ LoggedIn(r)
  /\ \A x \in rows : x.login # copy[r].login

\* The invariant of the cookie sessions.
WebInv ==
  /\ TypeInv /\ TokenInv /\ LoginInv
  /\ \A r \in Request : status[r] = "destroyed" => Destroyed(r)

\* Whoever comes with a login has it from the one who finished the flow.
LEMMA LoginFrom ==
  ASSUME TypeInv, TokenInv, LoginInv
  PROVE  /\ \A x \in rows : x.login # None => x.token \in Request /\ HasLogin(x.token, x.login) /\ Named(x.token)
         /\ \A r \in Request : LoggedIn(r) =>
              /\ copy[r].token \in Request /\ copy[r].login \in Flow
              /\ HasLogin(copy[r].token, copy[r].login)
              /\ phase[copy[r].login] \in {"live", "over"}
<1>1. \A x \in rows : x.login # None => x.token \in Request /\ HasLogin(x.token, x.login) /\ Named(x.token)
  BY DEF TokenInv, RowsNamed, HasLogin, Named
<1>2. ASSUME NEW r \in Request, LoggedIn(r)
      PROVE  copy[r].token \in Request /\ copy[r].login \in Flow /\ HasLogin(copy[r].token, copy[r].login)
  <2>1. copy[r].login \in Flow /\ copy[r].login # None
    BY <1>2 DEF LoggedIn, TypeInv, TypeOK, Copy
  <2> QED BY <2>1 DEF TokenInv, CopyNamed, HasLogin, Named
<1> QED BY <1>1, <1>2 DEF LoginInv

\* A login has one row: that of the token it was finished under.
LEMMA OneRowPerLogin ==
  ASSUME TypeInv, TokenInv, LoginInv
  PROVE  OneCookiePerLogin
<1> SUFFICES ASSUME NEW x \in rows, NEW y \in rows, x.login = y.login, x.login # None PROVE x = y
  BY DEF OneCookiePerLogin
<1>1. x.login \in Flow
  BY DEF TypeInv, TypeOK, Row
<1>2. /\ x.token \in Request /\ y.token \in Request
      /\ HasLogin(x.token, x.login) /\ HasLogin(y.token, x.login)
  BY LoginFrom
<1>3. x.token = y.token
  BY <1>1, <1>2 DEF LoginInv
<1> QED BY <1>3 DEF TokenInv, RowsNamed

\* A step gives no one a login, but the request that finishes a flow.
LEMMA LoginKept ==
  ASSUME TypeInv, TokenInv, LoginInv, NEW r \in Request, Step(r) \/ \E b \in Browser : Browse(r, b), ~FinishLogin(r)
  PROVE  /\ \A q \in Request, f \in Flow : HasLogin(q, f)' => HasLogin(q, f)
         /\ pc'[r] = "commit" /\ LoggedIn(r)' => copy'[r].token = r
<1>0. Alone(r) /\ copy[r] \in Copy /\ None \notin Request /\ CopyNamed(r)
  BY StepAlone, WebAssumption DEF TypeInv, TypeOK, TokenInv
<1>9. \A q \in Request \ {r}, f \in Flow : HasLogin(q, f)' => HasLogin(q, f)
  BY <1>0 DEF Alone, HasLogin
<1> SUFFICES /\ \A f \in Flow : HasLogin(r, f)' => HasLogin(r, f)
             /\ pc'[r] = "commit" /\ LoggedIn(r)' => copy'[r].token = r
  BY <1>9
<1>1. CASE \E b \in Browser : Browse(r, b)
  BY <1>1 DEF Browse, Send, Go, TypeInv, TypeOK, HasLogin
<1>2. CASE LoadSession(r)
  <2>1. PICK new : /\ (new \in rows /\ new.token = req[r].cookie) \/ new = Empty(None)
                   /\ copy'[r] = new /\ pc[r] = "load" /\ pc'[r] # "commit"
    BY <1>2, Loaded DEF TypeInv, TypeOK
  <2>2. new.token # r
    BY <1>0, <2>1 DEF TokenInv, RowsNamed, Named, Settled, Empty
  <2> QED BY <2>1, <2>2 DEF HasLogin
<1>3. CASE CheckOAuthSession(r) \/ DestroySession(r)
  BY <1>3 DEF CheckOAuthSession, DestroySession, Destroy, Pass, Go, TypeInv, TypeOK, HasLogin
<1>4. CASE ServePage(r) \/ RedirectLoggedIn(r) \/ Logout(r)
  BY <1>4 DEF ServePage, RedirectLoggedIn, Logout, Pass, Go, TypeInv, TypeOK, HasLogin
<1>5. CASE StartLogin(r)
  BY <1>5, Starting DEF Modify, Pass, Go, TypeInv, TypeOK, HasLogin, LoggedIn
<1>6. CASE RenewToken(r)
  BY <1>6, Renewing DEF Modify, Pass, Go, TypeInv, TypeOK, HasLogin, LoggedIn
<1>7. CASE Commit(r)
  <2>1. copy[r].token = None => copy[r].login = None
    BY <1>0 DEF CopyNamed
  <2>2. pc'[r] = "respond"
    BY <1>7, Committing DEF TypeInv, TypeOK
  <2>3. \/ UNCHANGED copy
        \/ copy'[r].login = copy[r].login /\ copy'[r].token = IF copy[r].token = None THEN r ELSE copy[r].token
    BY <1>7, Committing DEF TypeInv, TypeOK
  <2> QED BY <1>0, <2>1, <2>2, <2>3 DEF HasLogin
<1>8. CASE Respond(r)
  BY <1>8 DEF Respond, Go, TypeInv, TypeOK, HasLogin
<1> QED BY <1>1, <1>2, <1>3, <1>4, <1>5, <1>6, <1>7, <1>8 DEF Step

\* Every step keeps one request to a login.
LEMMA LoginStep ==
  ASSUME TypeInv, TokenInv, LoginInv, [Next]_vars
  PROVE  LoginInv'
<1>1. \A f \in Flow : phase[f] \in {"live", "over"} => phase'[f] \in {"live", "over"}
  BY PhaseStep DEF FlowNext, Later
<1>2. ASSUME NEW r \in Request, Step(r) \/ \E b \in Browser : Browse(r, b), ~FinishLogin(r)
      PROVE  LoginInv'
  BY <1>1, <1>2, LoginKept, StepAlone DEF LoginInv, Alone, LoggedIn
<1>3. ASSUME NEW r \in Request, FinishLogin(r)
      PROVE  LoginInv'
  <2>0. Alone(r)
    BY <1>3, StepAlone DEF Step
  <2>1. CASE Pass(r, "finish", "commit")
    <3>1. UNCHANGED copy /\ copy[r].token = r
      BY <1>3, <2>1, Finishing DEF Pass
    <3> QED BY <1>1, <2>0, <3>1 DEF LoginInv, HasLogin, Alone, LoggedIn
  <2>2. CASE Advance(req[r].flow, "live") /\ copy'[r].token = r /\ copy'[r].login = req[r].flow
    <3>1. req[r].flow \in Flow
      BY <1>3, Finishing
    <3>2. phase[req[r].flow] = "pending" /\ phase'[req[r].flow] = "live"
      BY <2>2, <3>1 DEF Advance, Later, TypeInv, TypeOK, Phase
    <3>3. ASSUME NEW q \in Request \ {r}, copy'[q].token = q PROVE copy'[q].login # req[r].flow
      <4>1. ~HasLogin(q, req[r].flow)
        BY <3>1, <3>2 DEF LoginInv
      <4> QED BY <2>0, <3>1, <3>3, <4>1, WebAssumption DEF HasLogin, Alone
    <3> QED BY <1>1, <2>0, <2>2, <3>1, <3>2, <3>3 DEF LoginInv, HasLogin, Alone, LoggedIn
  <2> QED BY <1>3, <2>1, <2>2, Finishing DEF Modify, TypeInv, TypeOK
<1>4. CASE (\E f \in Flow : EndElsewhere(f)) \/ UNCHANGED vars
  <2>1. UNCHANGED <<pc, copy>>
    BY <1>4 DEF EndElsewhere, vars
  <2> QED BY <1>1, <2>1 DEF LoginInv, HasLogin, LoggedIn
<1> QED BY <1>2, <1>3, <1>4 DEF Next

\* A login comes into a row with the commit of the request that finished it.
LEMMA NewRow ==
  ASSUME TypeInv, TokenInv, LoginInv, [Next]_vars, NEW x \in rows', x \notin rows, x.login # None
  PROVE  \E r \in Request : Commit(r) /\ HasLogin(r, x.login)
<1>1. PICK r \in Request : Commit(r)
  BY DEF Next, Step, Browse, Send, LoadSession, CheckOAuthSession, DestroySession, Destroy, ServePage,
     RedirectLoggedIn, StartLogin, RenewToken, FinishLogin, Logout, Respond, DeleteRow, EndElsewhere, vars
<1>2. x.login = copy[r].login /\ pc[r] = "commit"
  BY <1>1, Committing
<1> QED BY <1>1, <1>2 DEF LoginInv, LoggedIn, HasLogin

\* Whoever destroys a cookie session leaves no row of its login, then and later.
LEMMA DestroyStep ==
  ASSUME WebInv, [Next]_vars, NEW q \in Request, status'[q] = "destroyed"
  PROVE  Destroyed(q)'
<1> USE DEF WebInv
<1>1. CASE status[q] = "destroyed"
  <2>1. Settled(q) /\ Destroyed(q) /\ copy[q].login \in Flow
    BY <1>1, LoginFrom DEF TypeInv, Placed, Destroyed
  <2>2. copy'[q] = copy[q]
    BY <2>1, SettledStays
  <2>3. PICK t \in Request \ {q} : t = copy[q].token /\ HasLogin(t, copy[q].login) /\ Named(t)
    BY <2>1, LoginFrom DEF Destroyed, TokenInv, CopyNamed
  <2>4. ASSUME NEW x \in rows', x.login = copy[q].login PROVE FALSE
    <3>1. x \notin rows /\ x.login # None
      BY <2>1, <2>4 DEF Destroyed, LoggedIn
    <3>2. PICK r \in Request : Commit(r) /\ HasLogin(r, x.login)
      BY <3>1, NewRow
    <3>3. r = t
      BY <2>1, <2>3, <2>4, <3>2 DEF LoginInv
    <3> QED BY <2>3, <3>2, <3>3, Committing DEF Named, Settled
  <2> QED BY <2>1, <2>2, <2>4 DEF Destroyed, LoggedIn
<1>2. CASE status[q] # "destroyed"
  <2>1. PICK r \in Request : Step(r) \/ \E b \in Browser : Browse(r, b)
    BY <1>2 DEF Next, EndElsewhere, vars
  <2>2. r = q /\ Step(q)
    BY <1>2, <2>1, StepAlone DEF Alone, Browse, Send
  <2>3. /\ pc[q] \in {"check", "destroy"} /\ UNCHANGED copy
        /\ rows' = {x \in rows : x.token # copy[q].token}
    BY <1>2, <2>2 DEF Step, LoadSession, CheckOAuthSession, DestroySession, Destroy, DeleteRow, ServePage,
       RedirectLoggedIn, StartLogin, RenewToken, FinishLogin, Logout, Commit, Respond, Go, Pass, Modify,
       TypeInv, TypeOK
  <2>4. LoggedIn(q) /\ copy[q].token \in Request \ {q} /\ HasLogin(copy[q].token, copy[q].login)
        /\ copy[q].login \in Flow
    BY <2>3, LoginFrom DEF TypeInv, Placed, TokenInv, CopyNamed
  <2>5. ASSUME NEW x \in rows, x.login = copy[q].login PROVE x.token = copy[q].token
    BY <2>4, <2>5, LoginFrom DEF LoginInv, LoggedIn
  <2> QED BY <2>3, <2>4, <2>5 DEF Destroyed, LoggedIn
<1> QED BY <1>1, <1>2

\* Types, tokens, logins and destroyed sessions hold together in every state:
\* the invariant the properties of cookie sessions rest on.
THEOREM WebInvariant == Spec => []WebInv
<1>1. Init => WebInv
  <2> SUFFICES ASSUME Init PROVE WebInv
    OBVIOUS
  <2>1. TypeInv /\ TokenInv
    BY TypeInit, TokenInit
  <2>2. LoginInv
    BY WebAssumption DEF Init, LoginInv, HasLogin, LoggedIn, Empty
  <2>3. \A r \in Request : status[r] # "destroyed"
    BY DEF Init
  <2> QED BY <2>1, <2>2, <2>3 DEF WebInv
<1>2. WebInv /\ [Next]_vars => WebInv'
  BY TypeStep, TokenStep, LoginStep, DestroyStep DEF WebInv
<1> QED BY <1>1, <1>2, PTL DEF Spec

\* The handlers' state has its types, and a cookie session written back is
\* whole: rows never lack a token.
THEOREM WebIsTyped == Spec => []TypeOK
<1>1. WebInv => TypeOK
  BY DEF WebInv, TypeInv
<1> QED BY <1>1, WebInvariant, PTL

\* However many browsers had a token before a login, RenewToken leaves them no
\* way into the session the login gets.
THEOREM LoginsAreNotShared == Spec => []LoginTokenIsFresh
<1>1. ASSUME WebInv, NEW x \in rows, NEW b \in Browser, NEW c \in Browser,
             x.login # None, jar[b] = x.token, jar[c] = x.token
      PROVE  b = c
  <2>1. x.token \in Request
    BY <1>1, LoginFrom DEF WebInv
  <2> QED BY <1>1, <2>1 DEF WebInv, TokenInv, JarNamed
<1>2. WebInv => LoginTokenIsFresh
  BY <1>1 DEF LoginTokenIsFresh
<1> QED BY <1>2, WebInvariant, PTL

\* The session that FinishLogin made is in one row of the cookie sessions,
\* whichever requests save their copies over each other's.
THEOREM LoginsHaveOneCookie == Spec => []OneCookiePerLogin
<1>1. WebInv => OneCookiePerLogin
  BY OneRowPerLogin DEF WebInv
<1> QED BY <1>1, WebInvariant, PTL

\* No request that loaded a session before it was destroyed saves it again.
THEOREM DestroyedForGood == Spec => []DestroyedStaysGone
<1>1. WebInv => DestroyedStaysGone
  BY DEF WebInv, Destroyed, DestroyedStaysGone
<1> QED BY <1>1, WebInvariant, PTL

----------------------------------------------------------------------------
(* Flows: which request started one, and where its redirect comes from *)

\* Request q started flow f, and is done; a browser b goes with it.
Came(q, f, b) == Started(q, f) /\ Settled(q) /\ (Shared \/ req[q].browser = b)

\* A flow and a redirect that belong together, and to browser b.
From(f, p, b) == \E q \in Request : Came(q, f, b) /\ p = LocalPath(req[q].redirect)

\* The request that is saving what it started.
Starts(r) == pc[r] = "commit" /\ Started(r, copy[r].state) /\ copy[r].redirect = LocalPath(req[r].redirect)

\* A row's flow and redirect belong together, and to its browser.
RowsStarted == \A x \in rows : /\ x.state # None => From(x.state, x.redirect, req[x.token].browser)
                               /\ x.token \in Request \/ Shared

\* So do those of r's cookie session, and r's login was started in its browser.
CopyStarted(r) ==
  /\ copy[r].state # None /\ ~Settled(r) => From(copy[r].state, copy[r].redirect, req[r].browser) \/ Starts(r)
  /\ LoggedIn(r) => \E q \in Request : Came(q, copy[r].login, req[r].browser)
  /\ copy[r].token \in Request \cup {None} \/ Shared

\* So do those a callback has taken from its cookie session.
PoppedStarted(r) ==
  popped[r].state # None => From(popped[r].state, popped[r].redirect, req[r].browser)

\* Flows and redirects belong together wherever they are kept.
StartInv == RowsStarted /\ \A r \in Request : CopyStarted(r) /\ PoppedStarted(r)

\* A local path is its own local path.
LEMMA PathOfPath == \A p : LocalPath(LocalPath(p)) = LocalPath(p)
BY WebAssumption DEF LocalPath

\* Nothing has been started.
LEMMA StartInit == Init => StartInv
<1> SUFFICES ASSUME Init PROVE StartInv
  OBVIOUS
<1>1. RowsStarted
  BY DEF Init, RowsStarted, Empty
<1>2. \A r \in Request : CopyStarted(r) /\ PoppedStarted(r)
  BY DEF Init, CopyStarted, PoppedStarted, Empty, NoLogin, LoggedIn
<1> QED BY <1>1, <1>2 DEF StartInv

\* Both in the next state, of a flow, a redirect and a browser of this one.
StillCame(q, f, b) ==
  /\ req'[q].kind = "start" /\ status'[q] = "modified" /\ copy'[q].state = f
  /\ Settled(q)' /\ (Shared \/ req'[q].browser = b)
\* f and p belong together in the next state.
StillFrom(f, p, b) == \E q \in Request : StillCame(q, f, b) /\ p = LocalPath(req'[q].redirect)

\* What has been started stays started, by the same request.
LEMMA CameStays ==
  ASSUME TypeInv, [Next]_vars
  PROVE  /\ \A q \in Request : \A f, b : Came(q, f, b) => StillCame(q, f, b)
         /\ \A f, p, b : From(f, p, b) => StillFrom(f, p, b)
<1>1. \A q \in Request : Settled(q) => /\ Settled(q)' /\ copy'[q] = copy[q] /\ req'[q] = req[q]
                                       /\ status'[q] = status[q]
  BY SettledStays
<1> QED BY <1>1 DEF Came, From, StillCame, StillFrom, Started

\* Taking rows away disturbs nothing, and neither does a step of another request.
LEMMA OthersStarted ==
  ASSUME TypeInv, TokenInv, StartInv, NEW r \in Request, Step(r) \/ \E b \in Browser : Browse(r, b)
  PROVE  /\ rows' \subseteq rows => RowsStarted'
         /\ \A q \in Request \ {r} : CopyStarted(q)' /\ PoppedStarted(q)'
         /\ UNCHANGED <<req, popped>> => PoppedStarted(r)'
         /\ UNCHANGED <<req, copy>> /\ (pc[r] # "commit" \/ Settled(r)') => CopyStarted(r)'
<1>1. /\ \A q \in Request : \A f, b : Came(q, f, b) => StillCame(q, f, b)
      /\ \A f, p, b : From(f, p, b) => StillFrom(f, p, b)
  BY CameStays DEF Next
<1>2. Alone(r)
  BY StepAlone
<1>3. \A t \in Request : Named(t) => req'[t] = req[t]
  BY NamedStays DEF Next
<1>4. \A f, p, b, c : From(f, p, b) /\ Shared => From(f, p, c)
  BY DEF From, Came
<1>5. ASSUME rows' \subseteq rows, NEW x \in rows'
      PROVE  /\ x.state # None => From(x.state, x.redirect, req[x.token].browser)'
             /\ x.token \in Request \/ Shared
  <2>1. x \in rows
    BY <1>5
  <2>2. x.token \in Request => req'[x.token] = req[x.token]
    BY <1>3, <2>1 DEF TokenInv, RowsNamed
  <2>3. x.token \in Request \/ Shared
    BY <2>1 DEF StartInv, RowsStarted
  <2>4. x.state # None => From(x.state, x.redirect, req'[x.token].browser)
    BY <1>4, <2>1, <2>2, <2>3 DEF StartInv, RowsStarted
  <2>5. x.state # None => StillFrom(x.state, x.redirect, req'[x.token].browser)
    BY <1>1, <2>4
  <2> QED BY <2>3, <2>5 DEF From, Came, StillFrom, StillCame, Started
<1>6. rows' \subseteq rows => RowsStarted'
  BY <1>5 DEF RowsStarted
<1>7. ASSUME NEW q \in Request, req'[q] = req[q], popped'[q] = popped[q]
      PROVE  PoppedStarted(q)'
  <2>1. popped[q].state # None => StillFrom(popped[q].state, popped[q].redirect, req[q].browser)
    BY <1>1 DEF StartInv, PoppedStarted
  <2> QED BY <1>7, <2>1 DEF PoppedStarted, From, Came, StillFrom, StillCame, Started
<1>8. ASSUME NEW q \in Request, req'[q] = req[q], copy'[q] = copy[q], Starts(q) => Starts(q)' \/ Settled(q)'
      PROVE  CopyStarted(q)'
  <2>1. CopyStarted(q) /\ (Settled(q) => Settled(q)')
    BY SettledStays DEF StartInv, Next
  <2>2. copy[q].state # None /\ ~Settled(q)' =>
          StillFrom(copy[q].state, copy[q].redirect, req[q].browser) \/ Starts(q)'
    BY <1>1, <1>8, <2>1 DEF CopyStarted
  <2>3. LoggedIn(q) => \E o \in Request : StillCame(o, copy[q].login, req[q].browser)
    BY <1>1, <2>1 DEF CopyStarted
  <2>4. copy'[q].state # None /\ ~Settled(q)' => From(copy[q].state, copy[q].redirect, req[q].browser)' \/ Starts(q)'
    BY <1>8, <2>2 DEF From, Came, StillFrom, StillCame, Started
  <2>5. LoggedIn(q)' => \E o \in Request : Came(o, copy[q].login, req[q].browser)'
    BY <1>8, <2>3 DEF Came, StillCame, Started, LoggedIn
  <2> QED BY <1>8, <2>1, <2>4, <2>5 DEF CopyStarted
<1>9. ASSUME NEW q \in Request \ {r} PROVE CopyStarted(q)' /\ PoppedStarted(q)'
  <2>1. copy'[q] = copy[q] /\ popped'[q] = popped[q] /\ req'[q] = req[q] /\ pc'[q] = pc[q] /\ status'[q] = status[q]
    BY <1>2 DEF Alone
  <2>2. Starts(q) => Starts(q)'
    BY <2>1 DEF Starts, Started
  <2> QED BY <1>7, <1>8, <2>1, <2>2
<1>10. pc[r] # "commit" => ~Starts(r)
  BY DEF Starts
<1> QED BY <1>6, <1>7, <1>8, <1>9, <1>10

\* Every step keeps flows and redirects together.
LEMMA StartStep ==
  ASSUME WebInv, StartInv, [Next]_vars
  PROVE  StartInv'
<1> USE DEF WebInv
<1>1. ASSUME NEW r \in Request, Step(r) \/ \E b \in Browser : Browse(r, b)
      PROVE  StartInv'
  <2>0. /\ rows' \subseteq rows => RowsStarted'
        /\ \A q \in Request \ {r} : CopyStarted(q)' /\ PoppedStarted(q)'
        /\ UNCHANGED <<req, popped>> => PoppedStarted(r)'
        /\ UNCHANGED <<req, copy>> /\ (pc[r] # "commit" \/ Settled(r)') => CopyStarted(r)'
    BY <1>1, OthersStarted
  <2>S. /\ \A q \in Request : \A f, b : Came(q, f, b) => StillCame(q, f, b)
        /\ \A f, p, b : From(f, p, b) => StillFrom(f, p, b)
    BY <1>1, CameStays DEF Next
  <2>A. \A f, p, b, c : From(f, p, b) /\ Shared => From(f, p, c)
    BY DEF From, Came
  <2>T. CopyNamed(r) /\ CopyStarted(r) /\ PoppedStarted(r) /\ Placed(r) /\ copy[r] \in Copy
    BY DEF TypeInv, TypeOK, TokenInv, StartInv
  <2>N. \A t \in Request : Named(t) => req'[t] = req[t]
    BY <1>1, NamedStays DEF Next
  <2>Q. ASSUME rows' \subseteq rows, UNCHANGED <<req, popped>>, CopyStarted(r)' PROVE StartInv'
    BY <2>0, <2>Q DEF StartInv
  <2>1. CASE \E b \in Browser : Browse(r, b)
    <3>1. UNCHANGED <<rows, copy, popped>> /\ pc[r] = "unsent" /\ copy[r] = Empty(None) /\ popped[r].state = None
      BY <2>1, <2>T DEF Browse, Send, Go, Placed
    <3>2. CopyStarted(r)' /\ PoppedStarted(r)'
      BY <3>1 DEF CopyStarted, PoppedStarted, Empty, LoggedIn
    <3> QED BY <2>0, <3>1, <3>2 DEF StartInv
  <2>2. CASE LoadSession(r)
    <3>1. UNCHANGED <<rows, req, popped>>
      BY <2>2 DEF LoadSession
    <3>2. PICK new : /\ (new \in rows /\ new.token = req[r].cookie) \/ new = Empty(None)
                     /\ copy'[r] = new
      BY <2>2, Loaded DEF TypeInv, TypeOK
    <3>3. CASE new = Empty(None)
      BY <2>Q, <3>1, <3>2, <3>3 DEF CopyStarted, Empty, LoggedIn
    <3>4. CASE new \in rows /\ new.token = req[r].cookie
      <4>1. new.token \in Request \/ Shared
        BY <3>4 DEF StartInv, RowsStarted
      <4>2. new.token \in Request => req[new.token].browser = req[r].browser
        BY <3>4 DEF TokenInv, CookieNamed
      <4>3. new.state # None => From(new.state, new.redirect, req[r].browser)
        BY <2>A, <3>4, <4>1, <4>2 DEF StartInv, RowsStarted
      <4>4. new.login # None => \E q \in Request : Came(q, new.login, req[r].browser)
        BY <3>4, <4>2, LoginFrom DEF StartInv, CopyStarted, HasLogin, LoggedIn
      <4>5. new.state # None => StillFrom(new.state, new.redirect, req[r].browser)
        BY <2>S, <4>3
      <4>6. new.login # None => \E q \in Request : StillCame(q, new.login, req[r].browser)
        BY <2>S, <4>4
      <4>7. new.state # None => From(new.state, new.redirect, req[r].browser)'
        BY <3>1, <4>5 DEF From, Came, StillFrom, StillCame, Started
      <4>8. new.login # None => \E q \in Request : Came(q, new.login, req[r].browser)'
        BY <3>1, <4>6 DEF Came, StillCame, Started
      <4>9. CopyStarted(r)'
        BY <3>2, <4>1, <4>7, <4>8 DEF CopyStarted, LoggedIn
      <4> QED BY <2>Q, <3>1, <4>9
    <3> QED BY <3>2, <3>3, <3>4
  <2>3. CASE CheckOAuthSession(r) \/ DestroySession(r)
    <3>1. UNCHANGED <<req, copy, popped>> /\ rows' \subseteq rows /\ pc[r] \in {"check", "destroy"}
      BY <2>3 DEF CheckOAuthSession, DestroySession, Destroy, DeleteRow, Pass, Go
    <3> QED BY <2>0, <2>Q, <3>1
  <2>4. CASE ServePage(r) \/ RedirectLoggedIn(r) \/ Logout(r) \/ Respond(r)
    <3>1. UNCHANGED <<rows, req, copy, popped>> /\ pc[r] # "commit"
      BY <2>4 DEF ServePage, RedirectLoggedIn, Logout, Respond, Handling, Pass, Go
    <3> QED BY <2>0, <2>Q, <3>1
  <2>5. CASE StartLogin(r)
    <3>1. UNCHANGED <<rows, req, popped>> /\ pc[r] = "handle" /\ req[r].kind = "start" /\ copy[r].login = None
      BY <2>5, Starting
    <3>2. CASE UNCHANGED copy
      BY <2>0, <2>Q, <3>1, <3>2
    <3>3. CASE \E f \in Flow, new \in Copy :
                 /\ Modify(r, "handle", "commit", new)
                 /\ new.token = copy[r].token /\ new.login = None
                 /\ new.state = f /\ new.redirect = LocalPath(req[r].redirect)
      <4>1. /\ pc'[r] = "commit" /\ status'[r] = "modified" /\ copy'[r].token = copy[r].token
            /\ copy'[r].login = None /\ copy'[r].redirect = LocalPath(req[r].redirect)
        BY <3>3 DEF Modify, Go, TypeInv, TypeOK
      <4>2. Starts(r)'
        BY <3>1, <4>1 DEF Starts, Started
      <4>3. CopyStarted(r)'
        BY <2>T, <4>1, <4>2 DEF CopyStarted, LoggedIn
      <4> QED BY <2>Q, <3>1, <4>3
    <3> QED BY <2>5, <3>2, <3>3, Starting DEF Pass
  <2>6. CASE RenewToken(r)
    <3>1. UNCHANGED req /\ pc[r] = "handle" /\ rows' \subseteq rows
      BY <2>6, Renewing DEF DeleteRow
    <3>2. CASE UNCHANGED <<copy, popped>>
      BY <2>0, <2>Q, <3>1, <3>2
    <3>3. CASE \E new \in Copy, p \in [state : Flow \cup {None}, redirect : Path \cup {None}] :
                 /\ Modify(r, "handle", "finish", new)
                 /\ new.token = r /\ new.login = None /\ new.state = None
                 /\ popped' = [popped EXCEPT ![r] = p]
                 /\ p.state = copy[r].state /\ p.redirect = LocalPath(copy[r].redirect)
      <4>1. /\ copy'[r].token = r /\ copy'[r].login = None /\ copy'[r].state = None
            /\ popped'[r].state = copy[r].state /\ popped'[r].redirect = LocalPath(copy[r].redirect)
        BY <3>3 DEF Modify, TypeInv, TypeOK
      <4>2. copy[r].state # None => StillFrom(copy[r].state, copy[r].redirect, req[r].browser)
        <5>1. ~Settled(r) /\ ~Starts(r)
          BY <3>1 DEF Settled, Starts
        <5> QED BY <2>S, <2>T, <5>1 DEF CopyStarted
      <4>3. PoppedStarted(r)'
        <5>1. ASSUME copy[r].state # None
              PROVE  StillFrom(popped'[r].state, popped'[r].redirect, req[r].browser)
          <6>1. PICK q \in Request : /\ StillCame(q, copy[r].state, req[r].browser)
                                     /\ copy[r].redirect = LocalPath(req'[q].redirect)
            BY <4>2, <5>1 DEF StillFrom
          <6>2. popped'[r].redirect = LocalPath(req'[q].redirect)
            BY <4>1, <6>1, PathOfPath
          <6> QED BY <4>1, <6>1, <6>2 DEF StillFrom
        <5>2. ASSUME copy[r].state # None
              PROVE  From(popped[r].state, popped[r].redirect, req[r].browser)'
          <6>1. PICK q \in Request : /\ StillCame(q, popped'[r].state, req[r].browser)
                                     /\ popped'[r].redirect = LocalPath(req'[q].redirect)
            BY <5>1, <5>2 DEF StillFrom
          <6>2. StillCame(q, popped'[r].state, req'[r].browser)
            BY <3>1, <6>1
          <6>3. Came(q, popped[r].state, req[r].browser)'
            BY <6>2 DEF Came, StillCame, Started
          <6> QED BY <6>1, <6>3 DEF From, Came, Started
        <5> QED BY <4>1, <5>2 DEF PoppedStarted
      <4>4. CopyStarted(r)'
        BY <4>1 DEF CopyStarted, LoggedIn
      <4> QED BY <2>0, <3>1, <4>3, <4>4 DEF StartInv
    <3> QED BY <2>6, <3>2, <3>3, Renewing DEF Pass
  <2>7. CASE FinishLogin(r)
    <3>1. UNCHANGED <<rows, req, popped>> /\ pc[r] = "finish" /\ req[r].flow \in Flow
      BY <2>7, Finishing
    <3>2. CASE UNCHANGED copy
      BY <2>0, <2>Q, <3>1, <3>2
    <3>3. CASE \E new \in Copy :
                 /\ Modify(r, "finish", "commit", new)
                 /\ popped[r].state = req[r].flow
                 /\ new.token = r /\ new.login = req[r].flow /\ new.state = None
      <4>1. copy'[r].token = r /\ copy'[r].login = popped[r].state /\ copy'[r].state = None
        BY <3>3 DEF Modify, TypeInv, TypeOK
      <4>2. popped[r].state # None
        BY <3>1, <3>3, WebAssumption
      <4>3. StillFrom(popped[r].state, popped[r].redirect, req[r].browser)
        BY <2>S, <2>T, <4>2 DEF PoppedStarted
      <4>4. PICK q \in Request : StillCame(q, popped[r].state, req[r].browser)
        BY <4>3 DEF StillFrom
      <4>5. Came(q, copy[r].login, req[r].browser)'
        BY <3>1, <4>1, <4>4 DEF Came, StillCame, Started
      <4>6. CopyStarted(r)'
        BY <4>1, <4>5 DEF CopyStarted, LoggedIn
      <4> QED BY <2>Q, <3>1, <4>6
    <3> QED BY <2>7, <3>2, <3>3, Finishing DEF Pass
  <2>8. CASE Commit(r)
    <3>1. UNCHANGED <<req, popped>> /\ pc[r] = "commit" /\ pc'[r] = "respond"
      BY <2>8, Committing DEF TypeInv, TypeOK
    <3>2. CASE UNCHANGED <<rows, copy>>
      BY <2>0, <2>Q, <3>1, <3>2 DEF Settled
    <3>3. ASSUME NEW row \in Row,
                 rows' = {x \in rows : x.token # row.token} \cup {row},
                 copy' = [copy EXCEPT ![r] = row], UNCHANGED status,
                 row.token = IF copy[r].token = None THEN r ELSE copy[r].token,
                 row.login = copy[r].login, row.state = copy[r].state, row.redirect = copy[r].redirect
          PROVE  StartInv'
      <4>1. copy'[r] = row /\ Settled(r)' /\ ~Settled(r)
        BY <3>1, <3>3 DEF TypeInv, TypeOK, Settled
      <4>2. row.state # None => StillFrom(row.state, row.redirect, req[r].browser)
        <5>1. CASE Starts(r)
          <6>1. StillCame(r, row.state, req[r].browser) /\ row.redirect = LocalPath(req'[r].redirect)
            BY <3>1, <3>3, <4>1, <5>1 DEF Starts, Started, StillCame
          <6> QED BY <6>1 DEF StillFrom
        <5>2. CASE ~Starts(r)
          BY <2>S, <2>T, <3>3, <4>1, <5>2 DEF CopyStarted
        <5> QED BY <5>1, <5>2
      <4>3. row.token \in Request \/ Shared
        BY <2>T, <3>3 DEF CopyStarted
      <4>4. row.token \in Request => req'[row.token].browser = req[r].browser
        BY <2>T, <3>1, <3>3 DEF CopyNamed
      <4>5. row.state # None => StillFrom(row.state, row.redirect, req'[row.token].browser)
        BY <4>2, <4>3, <4>4 DEF StillFrom, StillCame
      <4>6. row.login # None => \E q \in Request : StillCame(q, row.login, req[r].browser)
        BY <2>S, <2>T, <3>3 DEF CopyStarted, LoggedIn
      <4>7. CopyStarted(r)'
        BY <3>1, <4>1, <4>3, <4>6 DEF CopyStarted, LoggedIn, Came, StillCame, Started
      <4>8. ASSUME NEW x \in rows'
            PROVE  /\ x.state # None => From(x.state, x.redirect, req[x.token].browser)'
                   /\ x.token \in Request \/ Shared
        <5>1. CASE x = row
          BY <4>3, <4>5, <5>1 DEF From, Came, StillFrom, StillCame, Started
        <5>2. CASE x \in rows
          <6>1. x.token \in Request \/ Shared
            BY <5>2 DEF StartInv, RowsStarted
          <6>2. x.state # None => StillFrom(x.state, x.redirect, req'[x.token].browser)
            BY <2>S, <3>1, <5>2 DEF StartInv, RowsStarted
          <6> QED BY <6>1, <6>2 DEF From, Came, StillFrom, StillCame, Started
        <5> QED BY <3>3, <5>1, <5>2
      <4> QED BY <2>0, <3>1, <4>7, <4>8 DEF StartInv, RowsStarted
    <3> QED BY <2>8, <3>2, <3>3, Committing
  <2> QED BY <1>1, <2>1, <2>2, <2>3, <2>4, <2>5, <2>6, <2>7, <2>8 DEF Step
<1>2. CASE (\E f \in Flow : EndElsewhere(f)) \/ UNCHANGED vars
  <2>1. UNCHANGED <<rows, pc, req, copy, status, popped>>
    BY <1>2 DEF EndElsewhere, vars
  <2> QED BY <2>1 DEF StartInv, RowsStarted, CopyStarted, PoppedStarted, From, Came, Starts, Started, Settled, LoggedIn
<1> QED BY <1>1, <1>2 DEF Next

\* The state of a flow and the path it is to end at are kept together, from the
\* StartLogin that saves them to the callback that takes them.
THEOREM StartInvariant == Spec => []StartInv
<1>1. WebInv /\ StartInv /\ [Next]_vars => StartInv'
  BY StartStep
<1> QED BY <1>1, StartInit, WebInvariant, PTL DEF Spec

\* The path a login ends at is the one that came with the form of that very
\* flow, though another tab of the browser may have saved its own meanwhile.
THEOREM RedirectsFollowFlows == Spec => []RedirectFollowsFlow
<1>1. ASSUME StartInv, NEW r \in Request, NEW f \in Flow, Finished(r, f)
      PROVE  \E q \in Request : Started(q, f) /\ popped[r].redirect = LocalPath(req[q].redirect)
  BY <1>1, WebAssumption DEF StartInv, PoppedStarted, From, Came, Finished
<1>2. StartInv => RedirectFollowsFlow
  BY <1>1 DEF RedirectFollowsFlow
<1> QED BY <1>2, StartInvariant, PTL

\* Where no two browsers share a token to begin with, a browser is served as
\* logged in only by a flow that was started in it.
THEOREM StartersFinish == ASSUME ~Shared PROVE Spec => []OnlyStarterFinishes
<1>1. StartInv => OnlyStarterFinishes
  BY DEF StartInv, CopyStarted, Came, OnlyStarterFinishes
<1> QED BY <1>1, StartInvariant, PTL

----------------------------------------------------------------------------
(* Sessions: while the database works, each has a cookie session *)

\* f has a row, or a request that is about to save one.
Held(f) ==
  \/ \E x \in rows : x.login = f
  \/ \E r \in Request : pc[r] = "commit" /\ copy[r].login = f

\* A live flow is held, and one whose row is destroyed is over.
HeldInv ==
  /\ \A f \in Flow : phase[f] = "live" => Held(f)
  /\ \A r \in Request : pc[r] = "destroy" => phase[copy[r].login] = "over"

\* A row that goes takes no login with it that is still live.
LEMMA RowGoes ==
  ASSUME WebInv, NEW r \in Request, LoggedIn(r), NEW x \in rows, x.token = copy[r].token, x.login # None
  PROVE  x.login = copy[r].login
<1>1. x.token \in Request /\ HasLogin(x.token, x.login) /\ HasLogin(x.token, copy[r].login)
  BY LoginFrom DEF WebInv
<1> QED BY <1>1 DEF HasLogin

\* Every step keeps live flows held while the database works.
LEMMA HeldStep ==
  ASSUME ~StoreFails, WebInv, HeldInv, [Next]_vars
  PROVE  HeldInv'
<1> USE DEF WebInv
<1>1. \A f \in Flow : phase[f] = "over" => phase'[f] = "over"
  BY PhaseStep DEF FlowNext, Later
<1>2. ASSUME NEW r \in Request, Step(r) \/ \E b \in Browser : Browse(r, b)
      PROVE  HeldInv'
  <2>0. Alone(r) /\ CopyNamed(r) /\ Placed(r)
    BY <1>2, StepAlone DEF TypeInv, TokenInv
  <2>L. LoggedIn(r) => copy[r].login \in Flow /\ phase[copy[r].login] \in {"live", "over"}
    BY LoginFrom
  <2>D. \A q \in Request \ {r} : pc'[q] = "destroy" => phase'[copy'[q].login] = "over"
    <3>1. \A q \in Request : pc[q] = "destroy" => copy[q].login \in Flow
      BY LoginFrom DEF TypeInv, Placed
    <3> QED BY <1>1, <2>0, <3>1 DEF HeldInv, Alone
  <2>H. ASSUME NEW f \in Flow, Held(f), pc[r] # "commit", \A x \in rows : x.login = f => x \in rows'
        PROVE  Held(f)'
    BY <2>0, <2>H DEF Held, Alone
  <2>1. CASE (\E b \in Browser : Browse(r, b)) \/ LoadSession(r) \/ ServePage(r) \/ RedirectLoggedIn(r) \/ Respond(r)
    <3>1. UNCHANGED <<phase, rows>> /\ pc[r] # "commit" /\ pc'[r] # "destroy"
      BY <2>1 DEF Browse, Send, LoadSession, ServePage, RedirectLoggedIn, Respond, Handling, Pass, Go, TypeInv, TypeOK
    <3> QED BY <2>D, <2>H, <3>1 DEF HeldInv
  <2>2. CASE CheckOAuthSession(r) \/ DestroySession(r)
    <3>1. /\ UNCHANGED phase /\ pc[r] \in {"check", "destroy"} /\ pc'[r] # "destroy"
          /\ \/ UNCHANGED rows
             \/ rows' = {x \in rows : x.token # copy[r].token} /\ (pc[r] = "check" => ~SessionFound(r))
      BY <2>2 DEF CheckOAuthSession, DestroySession, Destroy, DeleteRow, Pass, Go, TypeInv, TypeOK
    <3>2. LoggedIn(r)
      BY <2>0, <3>1 DEF Placed
    <3>3. rows' # rows => phase[copy[r].login] = "over"
      BY <2>L, <3>1, <3>2 DEF HeldInv, SessionFound
    <3>4. ASSUME NEW f \in Flow, phase[f] = "live", NEW x \in rows, x.login = f PROVE x \in rows'
      BY <3>1, <3>2, <3>3, <3>4, RowGoes, WebAssumption
    <3> QED BY <2>D, <2>H, <3>1, <3>4 DEF HeldInv
  <2>3. CASE StartLogin(r)
    <3>1. UNCHANGED rows /\ pc[r] = "handle" /\ pc'[r] # "destroy"
      BY <2>3, Starting DEF Modify, Pass, Go, TypeInv, TypeOK
    <3>2. \A f \in Flow : phase'[f] = "live" => phase[f] = "live"
      BY <2>3, Starting DEF Advance, TypeInv, TypeOK
    <3> QED BY <2>D, <2>H, <3>1, <3>2 DEF HeldInv
  <2>4. CASE RenewToken(r)
    <3>1. UNCHANGED phase /\ pc[r] = "handle" /\ pc'[r] # "destroy" /\ copy[r].login = None
      BY <2>4, Renewing DEF Modify, Pass, Go, TypeInv, TypeOK
    <3>2. UNCHANGED rows \/ DeleteRow(copy[r].token)
      BY <2>4, Renewing
    <3>3. ASSUME NEW f \in Flow, NEW x \in rows, x.login = f PROVE x.token # copy[r].token
      <4>1. x.login # None
        BY <3>3, WebAssumption
      <4>2. x.token \in Request /\ x.login = copy[x.token].login
        BY <4>1, LoginFrom DEF HasLogin
      <4> QED BY <2>0, <3>1, <4>1, <4>2 DEF CopyNamed
    <3> QED BY <2>D, <2>H, <3>1, <3>2, <3>3 DEF HeldInv, DeleteRow
  <2>5. CASE FinishLogin(r)
    <3>1. UNCHANGED rows /\ pc[r] = "finish" /\ pc'[r] = "commit"
      BY <2>5, Finishing DEF Modify, Pass, Go, TypeInv, TypeOK
    <3>2. \A f \in Flow : phase'[f] = "live" => phase[f] = "live" \/ copy'[r].login = f
      <4>1. req[r].flow \in Flow
        BY <2>5, Finishing
      <4> QED BY <2>5, <4>1 DEF FinishLogin, Advance, Modify, TypeInv, TypeOK, Copy
    <3>3. \A f \in Flow : copy'[r].login = f => Held(f)'
      BY <3>1 DEF Held
    <3> QED BY <2>D, <2>H, <3>1, <3>2, <3>3 DEF HeldInv
  <2>6. CASE Logout(r)
    <3>1. UNCHANGED <<rows, copy>> /\ pc[r] = "handle"
      BY <2>6 DEF Logout, Handling, Pass, Go
    <3>2. \A f \in Flow : phase'[f] = "live" => phase[f] = "live"
      BY <2>6, <2>L DEF Logout, Advance, TypeInv, TypeOK
    <3>3. pc'[r] = "destroy" => phase'[copy'[r].login] = "over"
      BY <2>6, <2>L, <3>1 DEF Logout, Advance, Pass, Go, SessionFound, TypeInv, TypeOK
    <3> QED BY <2>D, <2>H, <3>1, <3>2, <3>3 DEF HeldInv
  <2>7. CASE Commit(r)
    <3>1. UNCHANGED phase /\ pc[r] = "commit" /\ pc'[r] = "respond"
      BY <2>7, Committing DEF TypeInv, TypeOK
    <3>2. PICK row : /\ rows' = {x \in rows : x.token # row.token} \cup {row}
                     /\ row.token = IF copy[r].token = None THEN r ELSE copy[r].token
                     /\ row.login = copy[r].login
      BY <2>7, Committing
    <3>3. ASSUME NEW f \in Flow, NEW x \in rows, x.login = f, x.token = row.token PROVE row.login = f
      <4>1. x.login # None
        BY <3>3, WebAssumption
      <4>2. x.token \in Request /\ x.login = copy[x.token].login /\ Named(x.token)
        BY <4>1, LoginFrom DEF HasLogin
      <4>3. x.token # r
        BY <3>1, <4>2 DEF Named, Settled
      <4> QED BY <2>0, <3>2, <3>3, <4>2, <4>3 DEF CopyNamed
    <3>4. ASSUME NEW f \in Flow, Held(f) PROVE Held(f)'
      BY <2>0, <3>2, <3>3, <3>4 DEF Held, Alone
    <3> QED BY <2>D, <3>1, <3>4 DEF HeldInv
  <2> QED BY <1>2, <2>1, <2>2, <2>3, <2>4, <2>5, <2>6, <2>7 DEF Step
<1>3. CASE (\E f \in Flow : EndElsewhere(f)) \/ UNCHANGED vars
  <2>1. UNCHANGED <<rows, pc, copy>> /\ \A f \in Flow : phase'[f] = "live" => phase[f] = "live"
    BY <1>3 DEF EndElsewhere, Advance, vars, TypeInv, TypeOK
  <2>2. \A q \in Request : pc[q] = "destroy" => copy[q].login \in Flow
    BY LoginFrom DEF TypeInv, Placed
  <2> QED BY <1>1, <2>1, <2>2 DEF HeldInv, Held
<1> QED BY <1>2, <1>3 DEF Next

\* While no statement on the database fails, every OAuth session that exists
\* has a cookie session that logs out of it, or is about to be saved in one.
THEOREM SessionsStayHeld == ASSUME ~StoreFails PROVE Spec => []SessionsHeld
<1>1. Init => HeldInv
  BY DEF Init, FlowInit, HeldInv
<1>2. WebInv /\ HeldInv /\ [Next]_vars => HeldInv'
  BY HeldStep
<1>3. HeldInv => SessionsHeld
  BY DEF HeldInv, Held, SessionsHeld
<1> QED BY <1>1, <1>2, <1>3, WebInvariant, PTL DEF Spec
============================================================================
