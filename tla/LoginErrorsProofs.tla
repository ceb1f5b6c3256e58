------------------------- MODULE LoginErrorsProofs -------------------------
(***************************************************************************)
(* Every error a login can fail with has at most one refusal in it, so the *)
(* order in which the service and the page look for one does not matter:   *)
(* each says what the refusal says, and so who caused the failure.         *)
(***************************************************************************)
EXTENDS LoginErrors, TLAPS

----------------------------------------------------------------------------
(* Looking an error up *)

\* An error with one of a table's errors in it, and no other, has its value.
LEMMA FirstFoundIsOnlyOne ==
  ASSUME NEW table, NEW e, NEW none, DOMAIN table \subseteq Nat,
         NEW i \in DOMAIN table, table[i][1] \in e,
         \A j \in DOMAIN table : table[j][1] \in e => j = i
  PROVE  FirstFound(table, e, none) = table[i][2]
<1> DEFINE found == {j \in DOMAIN table : table[j][1] \in e}
<1>1. found = {i}
  OBVIOUS
<1>2. (CHOOSE k \in found : \A j \in found : k <= j) = i
  BY <1>1
<1> QED BY <1>1, <1>2 DEF FirstFound

\* An error with none of a table's errors in it is not found.
LEMMA FirstFoundNone ==
  ASSUME NEW table, NEW e, NEW none, \A j \in DOMAIN table : table[j][1] \notin e
  PROVE  FirstFound(table, e, none) = none
BY DEF FirstFound

----------------------------------------------------------------------------
(* The refusals, in the order of both tables *)

\* The errors both tables are about.
Refusal ==
  <<"identity unresolved", "identity unavailable", "auth server unavailable", "login cancelled",
    "scope denied", "user inactive", "profile write failed">>

\* Both tables list the refusals, and no two have the same condition or page.
LEMMA TablesListRefusals ==
  /\ DOMAIN Refusal = 1..7 /\ DOMAIN Conditions = 1..7 /\ DOMAIN Pages = 1..7
  /\ \A i \in 1..7 : Conditions[i][1] = Refusal[i] /\ Pages[i][1] = Refusal[i]
  /\ \A i, j \in 1..7 : Refusal[i] = Refusal[j] => i = j
BY DEF Refusal, Conditions, Conditions_NoProfile, Pages

\* A condition stands for one refusal, and none stands for "no refusal" or for
\* a browser that went away.
LEMMA ConditionsTellRefusals ==
  /\ \A i, j \in 1..7 : Conditions[i][2] = Conditions[j][2] => i = j
  /\ \A i \in 1..7 : Conditions[i][2] \notin {None, "client_gone"}
  /\ \A i \in 1..7 :
       Conditions[i][2] \in {"identity_unavailable", "auth_server_error", "profile_write_failed"} => i \in {2, 3, 7}
<1> DEFINE names == {"identity_error", "identity_unavailable", "auth_server_error", "callback_error",
                     "scope_denied", "user_inactive", "profile_write_failed"}
<1>1. /\ Conditions[1][2] = "identity_error" /\ Conditions[2][2] = "identity_unavailable"
      /\ Conditions[3][2] = "auth_server_error" /\ Conditions[4][2] = "callback_error"
      /\ Conditions[5][2] = "scope_denied" /\ Conditions[6][2] = "user_inactive"
      /\ Conditions[7][2] = "profile_write_failed"
  BY DEF Conditions, Conditions_NoProfile
<1>2. \A i \in 1..7 : i \in {1, 2, 3, 4, 5, 6, 7}
  OBVIOUS
<1>3. \A i \in 1..7 : Conditions[i][2] \in names
  BY <1>1, <1>2
<1>4. None \notin names
  BY Zenon DEF None
<1>5. \A i \in 1..7 : Conditions[i][2] # None
  BY <1>3, <1>4
<1> HIDE DEF names
<1> QED BY <1>1, <1>2, <1>5

\* A page stands for one refusal, and says whether a server failed the login.
LEMMA PagesTellRefusals ==
  /\ \A i, j \in 1..7 : Pages[i][2] = Pages[j][2] => i = j
  /\ \A i \in 1..7 : Pages[i][2].code \in {400, 403, 502}
  /\ \A i \in 1..7 : Pages[i][2].code = 502 <=> i \in {2, 3, 7}
  /\ Pages[1][2].code = 400
<1>1. /\ Pages[1][2].code = 400 /\ Pages[2][2].code = 502 /\ Pages[3][2].code = 502
      /\ Pages[4][2].code = 400 /\ Pages[5][2].code = 400 /\ Pages[6][2].code = 403
      /\ Pages[7][2].code = 502
  BY DEF Pages
<1>2. /\ Pages[1][2].message = "check the handle"
      /\ Pages[2][2].message = "could not look you up"
      /\ Pages[3][2].message = "your server could not log you in"
      /\ Pages[4][2].message = "cancelled or failed"
      /\ Pages[5][2].message = "approve all permissions"
      /\ Pages[6][2].message = "not active here"
      /\ Pages[7][2].message = "no profile on your server"
  BY DEF Pages
<1>3. \A i \in 1..7 : i \in {1, 2, 3, 4, 5, 6, 7}
  OBVIOUS
<1>4. \A i, j \in 1..7 : Pages[i][2].message = Pages[j][2].message => i = j
  BY <1>2, <1>3
<1> QED BY <1>1, <1>3, <1>4

----------------------------------------------------------------------------
(* The errors of a step *)

\* What a server, the database or the context can put into an error.
Outage == {"server fault", "deadline exceeded", "database fault", "canceled",
           "auth request not found", "session not found", "invalid record"}
\* What the user or their auth server can put into an error.
UsersOwn == IdentifierFault \cup {"auth request not found"}

\* What a step that is refused on a server's account can have failed of: an
\* outage, or in the exchange the flow's DID, which is no longer found.
ServersCause(step) == IF step = "exchange" THEN Outage \cup IdentifierFault ELSE Outage

\* An error is an outage in a step that calls nothing but the app's own database
\* and no refusal, or it is one refusal: the user's own with nothing of an
\* outage in it, or a server's, which is never from such a step.
Unrefused(step, e) == step \in OwnDatabase /\ e \subseteq Outage
\* The i-th refusal as the user's own, which is the first if the identifier is at
\* fault, or as a server's.
UsersRefusal(e, i) ==
  /\ i \in {1, 4, 5, 6} /\ (e \cap IdentifierFault # {} => i = 1)
  /\ \E x \in SUBSET UsersOwn : e = {Refusal[i]} \cup x
ServersRefusal(step, e, i) ==
  /\ i \in {2, 3, 7} /\ step \notin OwnDatabase
  /\ \E x \in SUBSET ServersCause(step) : e = {Refusal[i]} \cup x

\* The request's context.
ContextOK == context \in {"live", "gone", "late"}

\* A server or the database only fails with outages.
LEMMA OutagesOnly ==
  ASSUME ContextOK
  PROVE  \A e \in ServerErrors \cup StoreErrors \cup ProfileErrors : e \subseteq Outage
<1>1. ContextErrors \subseteq {{"canceled"}, {"deadline exceeded"}}
  <2>1. CASE context = "live"
    BY <2>1 DEF ContextErrors
  <2>2. CASE context = "gone"
    BY <2>2 DEF ContextErrors
  <2>3. CASE context = "late"
    BY <2>3 DEF ContextErrors
  <2> QED BY <2>1, <2>2, <2>3 DEF ContextOK
<1>2. \A e \in ServerErrors \cup StoreErrors : e \subseteq Outage
  <2>1. {"canceled"} \subseteq Outage /\ {"deadline exceeded"} \subseteq Outage
        /\ {"server fault"} \subseteq Outage /\ {"database fault"} \subseteq Outage
    BY DEF Outage
  <2> QED BY <1>1, <2>1 DEF ServerErrors, StoreErrors
<1>3. \A e \in ProfileErrors : e \in ServerErrors \cup StoreErrors \/ e \subseteq Outage
  BY DEF ProfileErrors, Outage
<1> QED BY <1>2, <1>3

\* No refusal is a fault of the identifier, and neither is an outage.
LEMMA FaultsAreApart ==
  /\ Outage \cap IdentifierFault = {}
  /\ \A i \in {1, 2, 3, 4, 5, 6, 7} : Refusal[i] \notin IdentifierFault
BY DEF Outage, IdentifierFault, Refusal

\* What a step makes of a server's outage is the refusal of the server it is about.
LEMMA WrappedOutage ==
  ASSUME NEW step, step \notin OwnDatabase, NEW i \in {2, 3, 7}, NEW errors,
         \A e \in errors : e \subseteq ServersCause(step)
  PROVE  \A e \in Wrapped(Refusal[i], errors) : ServersRefusal(step, e, i)
BY DEF Wrapped, ServersRefusal

\* The identity cannot be looked up: it is wrong, or a server gave out.
LEMMA LookupDivides ==
  ASSUME ContextOK, NEW e \in LookupErrors
  PROVE  UsersRefusal(e, 1) \/ ServersRefusal("lookup", e, 2)
<1>1. PICK x \in {{fault} : fault \in IdentifierFault} \cup ServerErrors : e = {identityLookupError(x)} \cup x
  BY DEF LookupErrors
<1>2. CASE x \in {{fault} : fault \in IdentifierFault}
  <2>1. x \cap IdentifierFault # {} /\ x \in SUBSET UsersOwn
    BY <1>2 DEF UsersOwn
  <2>2. e = {Refusal[1]} \cup x
    BY <1>1, <2>1 DEF identityLookupError, Refusal
  <2> QED BY <2>1, <2>2 DEF UsersRefusal
<1>3. CASE x \in ServerErrors
  <2>1. x \in SUBSET Outage
    BY <1>3, OutagesOnly
  <2>2. e = {Refusal[2]} \cup x
    BY <1>1, <2>1, FaultsAreApart DEF identityLookupError, Refusal
  <2> QED BY <2>1, <2>2 DEF ServersRefusal, ServersCause, OwnDatabase
<1> QED BY <1>1, <1>2, <1>3

\* An error that is a refusal and nothing else is the user's own.
LEMMA PlainRefusal ==
  ASSUME NEW i \in {1, 4, 5, 6}
  PROVE  UsersRefusal({Refusal[i]}, i)
<1>1. {Refusal[i]} = {Refusal[i]} \cup {} /\ {} \in SUBSET UsersOwn
  OBVIOUS
<1>2. {Refusal[i]} \cap IdentifierFault = {}
  BY FaultsAreApart
<1> QED BY <1>1, <1>2 DEF UsersRefusal

\* The steps of StartAuthFlow, of ProcessCallback and of the rest of FinishLogin.
LEMMA ErrorsByFlow ==
  /\ \A step \in {"parse", "lookup", "pds", "discover", "push", "request"} : Errors(step) = StartErrors[step]
  /\ \A step \in {"match", "load", "callback", "exchange"} : Errors(step) = CallbackErrors[step]
  /\ \A step \in {"scopes", "user", "active", "profile"} : Errors(step) = FinishErrors[step]
<1>1. /\ DOMAIN StartErrors = {"parse", "lookup", "pds", "discover", "push", "request"}
      /\ DOMAIN CallbackErrors = {"match", "load", "callback", "exchange"}
  BY DEF StartErrors, CallbackErrors
<1> QED BY <1>1 DEF Errors

\* Every error of every step is one of the three.
LEMMA ErrorsDivide ==
  ASSUME ContextOK, NEW step \in DOMAIN After, NEW e \in Errors(step)
  PROVE  \/ Unrefused(step, e)
         \/ \E i \in 1..7 : UsersRefusal(e, i) \/ ServersRefusal(step, e, i)
<1>1. step \in {"parse", "lookup", "pds", "discover", "push", "request", "match", "load", "callback",
               "exchange", "scopes", "user", "active", "profile"}
  BY DEF After
<1>2. CASE step \in {"parse", "pds"}
  <2>1. e = {Refusal[1]}
    BY <1>2, ErrorsByFlow DEF StartErrors, Refusal
  <2> QED BY <2>1, PlainRefusal
<1>3. CASE step = "lookup"
  <2>1. e \in LookupErrors
    BY <1>3, ErrorsByFlow DEF StartErrors
  <2> QED BY <1>3, <2>1, LookupDivides
<1>4. CASE step \in {"discover", "push"}
  <2>1. e \in Wrapped(Refusal[3], ServerErrors)
    BY <1>4, ErrorsByFlow DEF StartErrors, Refusal
  <2>2. step \notin OwnDatabase
    BY <1>4 DEF OwnDatabase
  <2>3. \A x \in ServerErrors : x \subseteq ServersCause(step)
    BY OutagesOnly DEF ServersCause
  <2> QED BY <2>1, <2>2, <2>3, WrappedOutage
<1>5. CASE step \in {"request", "user"}
  <2>1. e \in StoreErrors \/ e = {"server fault"}
    BY <1>5, ErrorsByFlow DEF StartErrors, FinishErrors
  <2>2. e \subseteq Outage
    BY <2>1, OutagesOnly DEF Outage
  <2> QED BY <1>5, <2>2 DEF Unrefused, OwnDatabase
<1>6. CASE step \in {"match", "callback"}
  <2>1. e = {Refusal[4]}
    BY <1>6, ErrorsByFlow DEF CallbackErrors, Refusal
  <2> QED BY <2>1, PlainRefusal
<1>7. CASE step = "load"
  <2>1. e \in StoreErrors \/ e = {Refusal[4]} \cup {"auth request not found"}
    BY <1>7, ErrorsByFlow DEF CallbackErrors, Refusal
  <2>2. CASE e \in StoreErrors
    BY <1>7, <2>2, OutagesOnly DEF Unrefused, OwnDatabase
  <2>3. CASE e = {Refusal[4]} \cup {"auth request not found"}
    <3>1. {"auth request not found"} \in SUBSET UsersOwn
      BY DEF UsersOwn
    <3>2. "auth request not found" \notin IdentifierFault
      BY DEF IdentifierFault
    <3>3. e \cap IdentifierFault = {}
      BY <2>3, <3>2, FaultsAreApart
    <3>4. UsersRefusal(e, 4)
      BY <2>3, <3>1, <3>3 DEF UsersRefusal
    <3> QED BY <3>4
  <2> QED BY <2>1, <2>2, <2>3
<1>8. CASE step = "exchange"
  <2> DEFINE errors == ServerErrors \cup StoreErrors \cup {{"auth request not found"}}
                         \cup {{fault} : fault \in IdentifierFault}
  <2>1. e \in Wrapped(Refusal[3], errors)
    BY <1>8, ErrorsByFlow DEF CallbackErrors, Refusal
  <2>2. \A x \in errors : x \subseteq ServersCause(step)
    <3>1. {"auth request not found"} \subseteq Outage
      BY DEF Outage
    <3>2. ServersCause(step) = Outage \cup IdentifierFault
      BY <1>8 DEF ServersCause
    <3>3. \A fault \in IdentifierFault : {fault} \subseteq ServersCause(step)
      BY <3>2
    <3>4. \A x \in ServerErrors \cup StoreErrors : x \subseteq ServersCause(step)
      BY <3>2, OutagesOnly
    <3>5. ASSUME NEW x \in {{fault} : fault \in IdentifierFault}
          PROVE  x \subseteq ServersCause(step)
      <4>1. PICK fault \in IdentifierFault : x = {fault}
        BY <3>5
      <4> QED BY <3>3, <4>1
    <3>6. {"auth request not found"} \subseteq ServersCause(step)
      BY <3>1, <3>2
    <3> HIDE DEF errors
    <3>7. \A x \in errors : \/ x \in ServerErrors \cup StoreErrors \/ x = {"auth request not found"}
                           \/ x \in {{fault} : fault \in IdentifierFault}
      BY Zenon DEF errors
    <3> QED BY <3>4, <3>5, <3>6, <3>7
  <2>3. step \notin OwnDatabase
    BY <1>8 DEF OwnDatabase
  <2> HIDE DEF errors
  <2> QED BY <2>1, <2>2, <2>3, WrappedOutage
<1>9. CASE step = "scopes"
  <2>1. e = {Refusal[5]}
    BY <1>9, ErrorsByFlow DEF FinishErrors, Refusal
  <2> QED BY <2>1, PlainRefusal
<1>10. CASE step = "active"
  <2>1. e = {Refusal[6]}
    BY <1>10, ErrorsByFlow DEF FinishErrors, Refusal
  <2> QED BY <2>1, PlainRefusal
<1>11. CASE step = "profile"
  <2>1. e \in Wrapped(Refusal[7], ProfileErrors)
    BY <1>11, ErrorsByFlow DEF FinishErrors, Refusal
  <2>2. step \notin OwnDatabase
    BY <1>11 DEF OwnDatabase
  <2>3. \A x \in ProfileErrors : x \subseteq ServersCause(step)
    BY OutagesOnly DEF ServersCause
  <2> QED BY <2>1, <2>2, <2>3, WrappedOutage
<1> QED BY <1>1, <1>2, <1>3, <1>4, <1>5, <1>6, <1>7, <1>8, <1>9, <1>10, <1>11

----------------------------------------------------------------------------
(* What the service and the page make of it *)

\* The refusals of an error are the one it is, or none.
LEMMA HoldsOneRefusal ==
  ASSUME NEW step, NEW e
  PROVE  /\ Unrefused(step, e) => \A i \in 1..7 : Refusal[i] \notin e
         /\ \A i \in 1..7 : UsersRefusal(e, i) \/ ServersRefusal(step, e, i) =>
                              \A j \in 1..7 : Refusal[j] \in e <=> j = i
<1>1. \A i \in 1..7 : Refusal[i] \notin Outage /\ Refusal[i] \notin UsersOwn
  <2>1. \A i \in 1..7 : Refusal[i] \in {Refusal[1], Refusal[2], Refusal[3], Refusal[4], Refusal[5],
                                        Refusal[6], Refusal[7]}
    OBVIOUS
  <2>2. {Refusal[1], Refusal[2], Refusal[3], Refusal[4], Refusal[5], Refusal[6], Refusal[7]}
          = {"identity unresolved", "identity unavailable", "auth server unavailable", "login cancelled",
             "scope denied", "user inactive", "profile write failed"}
    BY DEF Refusal
  <2>3. /\ Outage \cap {"identity unresolved", "identity unavailable", "auth server unavailable",
                        "login cancelled", "scope denied", "user inactive", "profile write failed"} = {}
        /\ UsersOwn \cap {"identity unresolved", "identity unavailable", "auth server unavailable",
                          "login cancelled", "scope denied", "user inactive", "profile write failed"} = {}
    BY DEF Outage, UsersOwn, IdentifierFault
  <2> QED BY <2>1, <2>2, <2>3
<1>2. Unrefused(step, e) => \A i \in 1..7 : Refusal[i] \notin e
  BY <1>1 DEF Unrefused
<1>3. ASSUME NEW i \in 1..7, NEW j \in 1..7, UsersRefusal(e, i) \/ ServersRefusal(step, e, i)
      PROVE  Refusal[j] \in e <=> j = i
  <2>1. PICK x \in SUBSET (Outage \cup UsersOwn) : e = {Refusal[i]} \cup x
    BY <1>3 DEF UsersRefusal, ServersRefusal, ServersCause, UsersOwn
  <2>2. Refusal[j] \notin x
    BY <1>1
  <2> QED BY <2>1, <2>2, TablesListRefusals
<1> QED BY <1>2, <1>3

\* The page of a login that failed without a refusal.
ErrorPage == [code |-> 500, message |-> "error page"]

\* The service and the page find the refusal an error is, wherever it is listed.
LEMMA BothFindTheRefusal ==
  ASSUME NEW e
  PROVE  /\ (\A i \in 1..7 : Refusal[i] \notin e) =>
              /\ "canceled" \notin e => loginCondition(e) = None
              /\ loginErrorPage(e) = ErrorPage
         /\ \A i \in 1..7 : (\A j \in 1..7 : Refusal[j] \in e <=> j = i) =>
              /\ "canceled" \notin e => loginCondition(e) = Conditions[i][2]
              /\ loginErrorPage(e) = Pages[i][2]
         /\ "canceled" \in e => loginCondition(e) = "client_gone"
<1>1. "canceled" \notin e => loginCondition(e) = FirstFound(Conditions, e, None)
  BY DEF loginCondition
<1>2. loginErrorPage(e) = FirstFound(Pages, e, ErrorPage)
  BY DEF loginErrorPage, ErrorPage
<1>3. "canceled" \in e => loginCondition(e) = "client_gone"
  BY DEF loginCondition
<1>4. ASSUME \A i \in 1..7 : Refusal[i] \notin e
      PROVE  FirstFound(Conditions, e, None) = None /\ FirstFound(Pages, e, ErrorPage) = ErrorPage
  BY <1>4, TablesListRefusals, FirstFoundNone
<1>5. ASSUME NEW i \in 1..7, \A j \in 1..7 : Refusal[j] \in e <=> j = i
      PROVE  /\ FirstFound(Conditions, e, None) = Conditions[i][2]
             /\ FirstFound(Pages, e, ErrorPage) = Pages[i][2]
  <2>1. 1..7 \subseteq Nat
    OBVIOUS
  <2>2. FirstFound(Conditions, e, None) = Conditions[i][2]
    BY <1>5, <2>1, TablesListRefusals, FirstFoundIsOnlyOne
  <2>3. FirstFound(Pages, e, ErrorPage) = Pages[i][2]
    BY <1>5, <2>1, TablesListRefusals, FirstFoundIsOnlyOne
  <2> QED BY <2>2, <2>3
<1> QED BY <1>1, <1>2, <1>3, <1>4, <1>5

\* The page for what is in no table is a 500, and no refusal has it.
LEMMA ErrorPageIsOfNoRefusal ==
  /\ ErrorPage.code = 500
  /\ \A i \in 1..7 : Pages[i][2] # ErrorPage
<1>1. ErrorPage.code = 500
  BY DEF ErrorPage
<1> QED BY <1>1, PagesTellRefusals

----------------------------------------------------------------------------
(* The invariant *)

\* A call is at a step of its own flow, or before the first or after the last.
StepOK == at \in DOMAIN After \cup {None, "done"}

\* What has failed is the step the call is at; the span and the page are made
\* of the error, in this order.
FailureOK ==
  /\ err # {} => at \in DOMAIN After /\ err \in Errors(at)
  /\ \/ span = NoSpan
     \/ /\ err # {}
        /\ span = [condition |-> loginCondition(err), event |-> loginCondition(err) # "client_gone",
                   error |-> loginCondition(err) = None]
  /\ page # NoPage => span # NoSpan /\ page = loginErrorPage(err)

\* What a login says of an error is what the tables say of it.
ErrorsInv == ContextOK /\ StepOK /\ FailureOK

\* What comes after a step is a step, or nothing.
LEMMA AfterIsAStep ==
  /\ {"parse", "match"} \subseteq DOMAIN After
  /\ \A step \in DOMAIN After : After[step] \in DOMAIN After \cup {"done"}
<1>1. DOMAIN After = {"parse", "lookup", "pds", "discover", "push", "request", "match", "load", "callback",
                      "exchange", "scopes", "user", "active", "profile"}
  BY DEF After
<1>2. {"parse", "match"} \subseteq DOMAIN After
  BY <1>1
<1>3. ASSUME NEW step \in DOMAIN After
      PROVE  After[step] \in DOMAIN After \cup {"done"}
  <2>1. /\ After["parse"] = "lookup" /\ After["lookup"] = "pds" /\ After["pds"] = "discover"
        /\ After["discover"] = "push" /\ After["push"] = "request" /\ After["request"] = "done"
        /\ After["match"] = "load" /\ After["load"] = "callback" /\ After["callback"] = "exchange"
        /\ After["exchange"] = "scopes" /\ After["scopes"] = "user" /\ After["user"] = "active"
        /\ After["active"] = "profile" /\ After["profile"] = "done"
    BY DEF After
  <2> QED BY <1>1, <2>1
<1> QED BY <1>2, <1>3

\* Where no call has begun is no step of one.
LEMMA NoneIsNoStep == None \notin DOMAIN After
<1>1. DOMAIN After = {"parse", "lookup", "pds", "discover", "push", "request", "match", "load", "callback",
                      "exchange", "scopes", "user", "active", "profile"}
  BY DEF After
<1>2. None \notin {"parse", "lookup", "pds", "discover", "push", "request", "match", "load", "callback",
                   "exchange", "scopes", "user", "active", "profile"}
  BY Zenon DEF None
<1> QED BY <1>1, <1>2

\* The errors of a step depend on the context, which ends before the step fails.
LEMMA ErrorsStay ==
  ASSUME context' = context, NEW step
  PROVE  Errors(step)' = Errors(step)
<1>1. ContextErrors' = ContextErrors
  BY DEF ContextErrors
<1>2. ServerErrors' = ServerErrors /\ StoreErrors' = StoreErrors
  BY <1>1 DEF ServerErrors, StoreErrors
<1>3. ProfileErrors' = ProfileErrors /\ LookupErrors' = LookupErrors
  BY <1>2 DEF ProfileErrors, LookupErrors
<1>4. StartErrors' = StartErrors /\ CallbackErrors' = CallbackErrors /\ FinishErrors' = FinishErrors
  BY <1>2, <1>3 DEF StartErrors, CallbackErrors, FinishErrors
<1> QED BY <1>4 DEF Errors

\* Every failure is one of its step's, and is recorded and shown as what it is.
THEOREM FailuresAreRecorded == Spec => []ErrorsInv
<1>1. Init => ErrorsInv
  BY DEF Init, ErrorsInv, ContextOK, StepOK, FailureOK
<1>2. ErrorsInv /\ [Next]_vars => ErrorsInv'
  <2> SUFFICES ASSUME ErrorsInv, [Next]_vars PROVE ErrorsInv'
    OBVIOUS
  <2> USE DEF ErrorsInv
  <2>1. CASE Begin
    <3>1. err = {} => at' \in DOMAIN After
      BY <2>1, AfterIsAStep DEF Begin
    <3>2. ASSUME err # {} PROVE FALSE
      <4>1. at \in DOMAIN After /\ at = None
        BY <2>1, <3>2 DEF Begin, FailureOK
      <4>2. None \notin DOMAIN After
        BY NoneIsNoStep
      <4> QED BY <4>1, <4>2
    <3> QED BY <2>1, <3>1, <3>2 DEF Begin, ContextOK, StepOK, FailureOK
  <2>2. CASE Succeed
    BY <2>2, AfterIsAStep DEF Succeed, InProgress, ContextOK, StepOK, FailureOK
  <2>3. CASE Fail
    <3>1. context' = context /\ at' = at /\ span' = span /\ page' = page /\ err = {} /\ at \in DOMAIN After
      BY <2>3 DEF Fail, InProgress
    <3>2. err' \in Errors(at)'
      BY <2>3, <3>1, ErrorsStay DEF Fail
    <3>3. span = NoSpan /\ page = NoPage
      BY <3>1 DEF FailureOK
    <3> QED BY <3>1, <3>2, <3>3 DEF ContextOK, StepOK, FailureOK
  <2>4. CASE EndContext
    BY <2>4 DEF EndContext, InProgress, ContextOK, StepOK, FailureOK
  <2>5. CASE recordLoginFailure
    <3>1. err' = err /\ at' = at /\ context' = context /\ page' = page
      BY <2>5 DEF recordLoginFailure
    <3>2. err \in Errors(at)'
      BY <2>5, <3>1, ErrorsStay DEF recordLoginFailure, FailureOK
    <3>3. page = NoPage
      BY <2>5 DEF recordLoginFailure, FailureOK
    <3> QED BY <2>5, <3>1, <3>2, <3>3 DEF recordLoginFailure, ContextOK, StepOK, FailureOK
  <2>6. CASE ShowPage
    <3>1. err' = err /\ at' = at /\ context' = context /\ span' = span
      BY <2>6 DEF ShowPage
    <3>2. err' # {} => at' \in DOMAIN After /\ err' \in Errors(at)'
      BY <3>1, ErrorsStay DEF FailureOK
    <3> QED BY <2>6, <3>1, <3>2 DEF ShowPage, ContextOK, StepOK, FailureOK
  <2>7. CASE UNCHANGED vars
    <3>1. err' # {} => at' \in DOMAIN After /\ err' \in Errors(at)'
      BY <2>7, ErrorsStay DEF FailureOK, vars
    <3> QED BY <2>7, <3>1 DEF vars, ContextOK, StepOK, FailureOK
  <2> QED BY <2>1, <2>2, <2>3, <2>4, <2>5, <2>6, <2>7 DEF Next
<1> QED BY <1>1, <1>2, PTL DEF Spec

----------------------------------------------------------------------------
(* What the conditions and pages promise *)

\* What is shown and recorded is about the error of the step that failed.
LEMMA ShownIsOfErr ==
  ASSUME ErrorsInv
  PROVE  /\ page # NoPage => span # NoSpan /\ page = loginErrorPage(err)
         /\ span # NoSpan =>
              /\ err \in Errors(at) /\ at \in DOMAIN After
              /\ span.condition = loginCondition(err)
              /\ span.event = (loginCondition(err) # "client_gone")
              /\ span.error = (loginCondition(err) = None)
BY DEF ErrorsInv, FailureOK

\* Where nothing has been shown, nothing blames anyone.
LEMMA NothingShown == NoPage.code = 0 /\ NoSpan.condition = None /\ NoSpan.error = FALSE
BY DEF NoPage, NoSpan

\* The error of the step that failed is divided as the errors of every step are.
LEMMA ErrDivides ==
  ASSUME ErrorsInv, span # NoSpan
  PROVE  \/ Unrefused(at, err)
         \/ \E i \in 1..7 : UsersRefusal(err, i) \/ ServersRefusal(at, err, i)
BY ShownIsOfErr, ErrorsDivide DEF ErrorsInv

\* A page that asks the user for something is only shown when neither a server,
\* the database nor the time gave out, and a fault of the identifier always gets
\* such a page, unless it is only found when the code is exchanged
\* (identityLookupError, ProcessCallback, loginErrorPage).
THEOREM UserIsNeverBlamed == Spec => []UserIsNotBlamed
<1>1. ErrorsInv => UserIsNotBlamed
  <2> SUFFICES ASSUME ErrorsInv PROVE UserIsNotBlamed
    OBVIOUS
  <2> DEFINE Faults == {"server fault", "deadline exceeded", "database fault", "canceled"}
  <2>1. CASE page = NoPage
    BY <2>1, NothingShown DEF UserIsNotBlamed, Shown
  <2>2. CASE page # NoPage
    <3>1. span # NoSpan /\ page = loginErrorPage(err)
      BY <2>2, ShownIsOfErr
    <3>2. CASE Unrefused(at, err)
      <4>1. page = ErrorPage
        BY <3>1, <3>2, HoldsOneRefusal, BothFindTheRefusal
      <4>2. err \cap IdentifierFault = {}
        BY <3>2, FaultsAreApart DEF Unrefused
      <4> QED BY <4>1, <4>2, ErrorPageIsOfNoRefusal DEF UserIsNotBlamed
    <3>3. ASSUME NEW i \in 1..7, UsersRefusal(err, i)
          PROVE  UserIsNotBlamed
      <4>1. err \cap IdentifierFault # {} => page.code = 400
        <5>1. page = Pages[i][2]
          BY <3>1, <3>3, HoldsOneRefusal, BothFindTheRefusal
        <5>2. err \cap IdentifierFault # {} => i = 1
          BY <3>3 DEF UsersRefusal
        <5> QED BY <5>1, <5>2, PagesTellRefusals
      <4>2. err \cap Faults = {}
        <5>1. Refusal[i] \notin Faults
          <6>1. Refusal[1] \notin Faults /\ Refusal[4] \notin Faults /\ Refusal[5] \notin Faults
                /\ Refusal[6] \notin Faults
            BY DEF Refusal
          <6> QED BY <3>3, <6>1 DEF UsersRefusal
        <5>2. UsersOwn \cap Faults = {}
          BY DEF UsersOwn, IdentifierFault
        <5> HIDE DEF Faults
        <5> QED BY <3>3, <5>1, <5>2 DEF UsersRefusal
      <4> QED BY <4>1, <4>2 DEF UserIsNotBlamed
    <3>4. ASSUME NEW i \in 1..7, ServersRefusal(at, err, i)
          PROVE  UserIsNotBlamed
      <4>1. page.code = 502
        <5>1. page = Pages[i][2]
          BY <3>1, <3>4, HoldsOneRefusal, BothFindTheRefusal
        <5>2. i \in {2, 3, 7}
          BY <3>4 DEF ServersRefusal
        <5> QED BY <5>1, <5>2, PagesTellRefusals
      <4>2. at # "exchange" => err \cap IdentifierFault = {}
        <5>1. Refusal[i] \notin IdentifierFault
          BY FaultsAreApart, <3>4 DEF ServersRefusal
        <5>2. at # "exchange" => ServersCause(at) = Outage
          BY DEF ServersCause
        <5> QED BY <3>4, <5>1, <5>2, FaultsAreApart DEF ServersRefusal
      <4> QED BY <4>1, <4>2 DEF UserIsNotBlamed
    <3> QED BY <3>1, <3>2, <3>3, <3>4, ErrDivides
  <2> QED BY <2>1, <2>2
<1> QED BY <1>1, FailuresAreRecorded, PTL

\* The condition and the page of one error differ from those of another in the
\* same cases: loginCondition and loginErrorPage divide failures alike, although
\* each looks through the error in a list of its own.
LEMMA ConditionIffPage ==
  ASSUME ContextOK, NEW step \in DOMAIN After, NEW e \in Errors(step), "canceled" \notin e,
         NEW other \in DOMAIN After, NEW f \in Errors(other), "canceled" \notin f
  PROVE  loginCondition(e) = loginCondition(f) <=> loginErrorPage(e) = loginErrorPage(f)
<1> DEFINE Unlisted(x) == \A i \in 1..7 : Refusal[i] \notin x
           Only(x, i) == \A j \in 1..7 : Refusal[j] \in x <=> j = i
<1>1. Unlisted(e) \/ \E i \in 1..7 : Only(e, i)
  BY ErrorsDivide, HoldsOneRefusal
<1>2. Unlisted(f) \/ \E i \in 1..7 : Only(f, i)
  BY ErrorsDivide, HoldsOneRefusal
<1>3. \A x \in {e, f} :
        /\ Unlisted(x) => loginCondition(x) = None /\ loginErrorPage(x) = ErrorPage
        /\ \A i \in 1..7 : Only(x, i) => loginCondition(x) = Conditions[i][2] /\ loginErrorPage(x) = Pages[i][2]
  BY BothFindTheRefusal
<1> HIDE DEF Unlisted, Only
<1>4. CASE Unlisted(e)
  BY <1>2, <1>3, <1>4, ConditionsTellRefusals, ErrorPageIsOfNoRefusal
<1>5. ASSUME NEW i \in 1..7, Only(e, i)
      PROVE  loginCondition(e) = loginCondition(f) <=> loginErrorPage(e) = loginErrorPage(f)
  <2>1. CASE Unlisted(f)
    BY <1>3, <1>5, <2>1, ConditionsTellRefusals, ErrorPageIsOfNoRefusal
  <2>2. ASSUME NEW j \in 1..7, Only(f, j)
        PROVE  loginCondition(e) = loginCondition(f) <=> loginErrorPage(e) = loginErrorPage(f)
    BY <1>3, <1>5, <2>2, ConditionsTellRefusals, PagesTellRefusals
  <2> QED BY <1>2, <2>1, <2>2
<1> QED BY <1>1, <1>4, <1>5

\* loginCondition and loginErrorPage, two tables in two packages, divide the errors
\* of every step in the same way.
THEOREM ConditionsMatchPages == Spec => []SpanAgreesWithPage
<1>1. ErrorsInv => SpanAgreesWithPage
  <2> SUFFICES ASSUME ErrorsInv, Shown, "canceled" \notin err,
                      NEW step \in DOMAIN After, NEW e \in Errors(step), "canceled" \notin e
               PROVE  loginCondition(e) = span.condition <=> loginErrorPage(e) = page
    BY DEF SpanAgreesWithPage
  <2>1. /\ page = loginErrorPage(err) /\ span.condition = loginCondition(err)
        /\ err \in Errors(at) /\ at \in DOMAIN After
    BY ShownIsOfErr DEF Shown
  <2>2. ContextOK
    BY DEF ErrorsInv
  <2> QED BY <2>1, <2>2, ConditionIffPage
<1> QED BY <1>1, FailuresAreRecorded, PTL

\* A condition that counts against a server is never of a step that calls nothing
\* but the app's own database, nor of a browser that went away, and only such a
\* step is recorded as an error of the app's own (recordLoginFailure,
\* loginCondition).
THEOREM FaultsAreOwned == Spec => []FaultsAreTheirOwners
<1>1. ErrorsInv => FaultsAreTheirOwners
  <2> SUFFICES ASSUME ErrorsInv PROVE FaultsAreTheirOwners
    OBVIOUS
  <2>1. CASE span = NoSpan
    <3>1. None \notin {"identity_unavailable", "auth_server_error", "profile_write_failed"}
      BY Zenon DEF None
    <3> QED BY <2>1, <3>1, NothingShown DEF FaultsAreTheirOwners
  <2>2. CASE span # NoSpan
    <3>1. /\ span.condition = loginCondition(err)
          /\ span.event = (loginCondition(err) # "client_gone")
          /\ span.error = (loginCondition(err) = None)
      BY <2>2, ShownIsOfErr
    <3>2. "client_gone" # None
      BY Zenon DEF None
    <3>3. CASE "canceled" \in err
      <4>1. loginCondition(err) = "client_gone"
        BY <3>3 DEF loginCondition
      <4>2. ~span.error
        BY <3>1, <3>2, <4>1
      <4>3. span.condition \notin {"identity_unavailable", "auth_server_error", "profile_write_failed"}
        BY <3>1, <4>1
      <4> QED BY <4>2, <4>3 DEF FaultsAreTheirOwners
    <3>4. CASE "canceled" \notin err
      <4>1. ASSUME Unrefused(at, err)
            PROVE  FaultsAreTheirOwners
        <5>1. loginCondition(err) = None
          BY <3>4, <4>1, HoldsOneRefusal, BothFindTheRefusal
        <5>2. None \notin {"identity_unavailable", "auth_server_error", "profile_write_failed"}
          BY Zenon DEF None
        <5>3. span.event
          BY <3>1, <3>2, <5>1
        <5> QED BY <3>1, <3>4, <4>1, <5>1, <5>2, <5>3 DEF FaultsAreTheirOwners, Unrefused
      <4>2. ASSUME NEW i \in 1..7, UsersRefusal(err, i) \/ ServersRefusal(at, err, i)
            PROVE  FaultsAreTheirOwners
        <5>1. loginCondition(err) = Conditions[i][2]
          BY <3>4, <4>2, HoldsOneRefusal, BothFindTheRefusal
        <5>2. ~span.error
          BY <3>1, <5>1, ConditionsTellRefusals
        <5>3. span.condition \in {"identity_unavailable", "auth_server_error", "profile_write_failed"}
                => at \notin OwnDatabase
          BY <3>1, <4>2, <5>1, ConditionsTellRefusals DEF UsersRefusal, ServersRefusal
        <5> QED BY <3>4, <5>2, <5>3 DEF FaultsAreTheirOwners
      <4> QED BY <2>2, <4>1, <4>2, ErrDivides
    <3> QED BY <3>3, <3>4
  <2> QED BY <2>1, <2>2
<1> QED BY <1>1, FailuresAreRecorded, PTL
============================================================================
