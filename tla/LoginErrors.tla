---------------------------- MODULE LoginErrors ----------------------------
(***************************************************************************)
(* What becomes of a login that fails: the error its step returns, what    *)
(* the service writes on the span, and the page the browser gets.  The     *)
(* service and the page each look through the error in their own order.    *)
(*                                                                         *)
(* An error is the set of the errors that errors.Is finds in it.           *)
(***************************************************************************)
EXTENDS Naturals, Sequences

None == ""   \* no step, no condition, no message

VARIABLES
  at,        \* the step a call is at, or failed at; None before the first
  context,   \* whether its context is done, and why
  err,       \* the error it returns, {} while there is none
  span,      \* what the span says of the failure
  page       \* the page the browser gets

vars == <<at, context, err, span, page>>

\* The steps of StartLogin and of FinishLogin, and what comes after each.
After ==
  [parse |-> "lookup", lookup |-> "pds", pds |-> "discover", discover |-> "push",
   push |-> "request", request |-> "done",
   match |-> "load", load |-> "callback", callback |-> "exchange", exchange |-> "scopes",
   scopes |-> "user", user |-> "active", active |-> "profile", profile |-> "done"]

\* The steps that need no context, and those that call nothing but the app's
\* own database.
Pure == {"parse", "pds", "match", "callback", "scopes", "active"}
OwnDatabase == {"request", "load", "user"}

----------------------------------------------------------------------------
(* The errors a step can return *)

IdentifierFault == {"handle not found", "did not found", "invalid handle", "handle mismatch",
                    "handle not declared", "handle reserved tld"}

\* mistake: everything that is not a known outage is the identifier's fault
identityLookupError_Outages(e) ==
  IF "server fault" \in e THEN "identity unavailable" ELSE "identity unresolved"
identityLookupError(e) ==
  IF e \cap IdentifierFault # {} THEN "identity unresolved" ELSE "identity unavailable"

\* A call finds out that its context is done in whatever it does next.  A
\* server's answer can be late for its own timeout too.
ContextErrors ==
  [live |-> {}, gone |-> {{"canceled"}}, late |-> {{"deadline exceeded"}}][context]
ServerErrors == {{"server fault"}, {"deadline exceeded"}} \cup ContextErrors
StoreErrors  == {{"database fault"}} \cup ContextErrors

Wrapped(refusal, errors) == {{refusal} \cup e : e \in errors}

LookupErrors == {{identityLookupError(e)} \cup e :
                   e \in {{fault} : fault \in IdentifierFault} \cup ServerErrors}

\* StartAuthFlow.  What the store says of a new auth request is passed on: that
\* the database failed, or that an endpoint in the auth server's metadata is no
\* absolute URL (a server fault), which nothing has looked at before.
StartErrors ==
  [parse    |-> {{"identity unresolved"}},
   lookup   |-> LookupErrors,
   pds      |-> {{"identity unresolved"}},
   discover |-> Wrapped("auth server unavailable", ServerErrors),
   push     |-> Wrapped("auth server unavailable", ServerErrors),
   request  |-> StoreErrors \cup {{"server fault"}}]

\* ProcessCallback.  The exchange loads the auth request again, looks the flow's
\* DID up again and saves the session, so the store and the identifier can fail
\* it as well as the auth server.  Which faults of an identifier the lookup of a
\* DID can find is the library's matter: any of them may come.  Tokens for
\* another account than the flow's are a server fault.
CallbackErrors ==
  [match    |-> {{"login cancelled"}},
   load     |-> StoreErrors \cup {{"login cancelled", "auth request not found"}},
   callback |-> {{"login cancelled"}},
   exchange |-> Wrapped("auth server unavailable",
                        ServerErrors \cup StoreErrors \cup {{"auth request not found"}}
                          \cup {{fault} : fault \in IdentifierFault})]

\* ensureProfile.  Each of its requests reads the session from the store first.
ProfileErrors == ServerErrors \cup StoreErrors \cup {{"session not found"}, {"invalid record"}}

\* The rest of FinishLogin.
FinishErrors ==
  [scopes  |-> {{"scope denied"}},
   user    |-> StoreErrors,
   active  |-> {{"user inactive"}},
   profile |-> Wrapped("profile write failed", ProfileErrors)]

Errors(step) ==
  CASE step \in DOMAIN StartErrors    -> StartErrors[step]
    [] step \in DOMAIN CallbackErrors -> CallbackErrors[step]
    [] OTHER                          -> FinishErrors[step]

----------------------------------------------------------------------------
(* What is made of it *)

\* The value of the first entry whose error is found.
FirstFound(table, e, none) ==
  LET found == {i \in DOMAIN table : table[i][1] \in e} IN
  IF found = {} THEN none ELSE table[CHOOSE i \in found : \A j \in found : i <= j][2]

\* mistake: one refusal is not listed
Conditions_NoProfile ==
  <<<<"identity unresolved", "identity_error">>,
    <<"identity unavailable", "identity_unavailable">>,
    <<"auth server unavailable", "auth_server_error">>,
    <<"login cancelled", "callback_error">>,
    <<"scope denied", "scope_denied">>,
    <<"user inactive", "user_inactive">>>>
Conditions == Append(Conditions_NoProfile, <<"profile write failed", "profile_write_failed">>)

\* mistake: a refusal hides that the browser has gone away
loginCondition_RefusalsFirst(e) ==
  LET found == FirstFound(Conditions, e, None) IN
  IF found = None /\ "canceled" \in e THEN "client_gone" ELSE found
loginCondition(e) ==
  IF "canceled" \in e THEN "client_gone" ELSE FirstFound(Conditions, e, None)

\* The code of the page, and which of its messages it bears.
Pages ==
  <<<<"identity unresolved",     [code |-> 400, message |-> "check the handle"]>>,
    <<"identity unavailable",    [code |-> 502, message |-> "could not look you up"]>>,
    <<"auth server unavailable", [code |-> 502, message |-> "your server could not log you in"]>>,
    <<"login cancelled",         [code |-> 400, message |-> "cancelled or failed"]>>,
    <<"scope denied",            [code |-> 400, message |-> "approve all permissions"]>>,
    <<"user inactive",           [code |-> 403, message |-> "not active here"]>>,
    <<"profile write failed",    [code |-> 502, message |-> "no profile on your server"]>>>>
loginErrorPage(e) == FirstFound(Pages, e, [code |-> 500, message |-> "error page"])

NoSpan == [condition |-> None, event |-> FALSE, error |-> FALSE]
NoPage == [code |-> 0, message |-> None]

----------------------------------------------------------------------------
Init == at = None /\ context = "live" /\ err = {} /\ span = NoSpan /\ page = NoPage

InProgress == at \in DOMAIN After /\ err = {}

Begin ==
  /\ at = None /\ at' \in {"parse", "match"}
  /\ UNCHANGED <<context, err, span, page>>

Succeed ==
  /\ InProgress /\ (at \in Pure \/ context = "live")
  /\ at' = After[at]
  /\ UNCHANGED <<context, err, span, page>>

Fail ==
  /\ InProgress /\ err' \in Errors(at)
  /\ UNCHANGED <<at, context, span, page>>

\* The browser goes away, or the 20 seconds are over, whichever is first.
EndContext ==
  /\ InProgress /\ context = "live"
  /\ context' \in {"gone", "late"}
  /\ UNCHANGED <<at, err, span, page>>

\* Deferred by StartLogin and FinishLogin, so it is done when they return.
recordLoginFailure ==
  LET condition == loginCondition(err) IN
  /\ err # {} /\ span = NoSpan
  /\ span' = [condition |-> condition, event |-> condition # "client_gone", error |-> condition = None]
  /\ UNCHANGED <<at, context, err, page>>

ShowPage ==
  /\ span # NoSpan /\ page = NoPage
  /\ page' = loginErrorPage(err)
  /\ UNCHANGED <<at, context, err, span>>

Next == Begin \/ Succeed \/ Fail \/ EndContext \/ recordLoginFailure \/ ShowPage

Spec == Init /\ [][Next]_vars

----------------------------------------------------------------------------
(* What the conditions and pages promise: they say who caused a failure *)

Shown == page # NoPage

\* The user is told to do something else only if something they did, or
\* somebody at their auth server, is what failed: never because a server, the
\* database or the time gave out.  And whoever types an identifier that is
\* wrong is told so, and not that a server or the app has failed.  Only where
\* the code is exchanged does a fault of the identifier get another page: a DID
\* that the start of the flow found and the exchange no longer does is put
\* down to its auth server, as everything that fails the exchange is.
UserIsNotBlamed ==
  /\ page.code \in {400, 403} =>
       err \cap {"server fault", "deadline exceeded", "database fault", "canceled"} = {}
  /\ Shown /\ err \cap IdentifierFault # {} => page.code = 400 \/ at = "exchange"

\* The span and the page divide failures in the same way: whatever else could
\* have failed gets the same condition if and only if it gets the same page.
SpanAgreesWithPage ==
  Shown /\ "canceled" \notin err =>
    \A step \in DOMAIN After : \A e \in Errors(step) :
      "canceled" \notin e =>
        (loginCondition(e) = span.condition <=> loginErrorPage(e) = page)

\* A browser that goes away counts against nobody, a step that calls nothing
\* but the app's database is never counted as a server's failure, and only such
\* a step is recorded as an error of the app's own.
FaultsAreTheirOwners ==
  /\ span.condition \in {"identity_unavailable", "auth_server_error", "profile_write_failed"} =>
       at \notin OwnDatabase /\ "canceled" \notin err
  /\ span.error => at \in OwnDatabase /\ "canceled" \notin err /\ span.event
============================================================================
