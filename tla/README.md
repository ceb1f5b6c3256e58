# A verification development of Audio ad Astra

Audio ad Astra is a small web app on the AT Protocol: people log in with their atproto account, and
the app keeps records in their own repositories. Nearly all of its own logic is about *logging in
and out*: an OAuth flow that crosses three kinds of servers, two kinds of sessions and a database,
where every step can fail, time out, be answered twice or be overtaken. That is what most of this
development is about. The rest of it covers the other places with logic that a test hardly
reaches: what a failed login is taken for, the paths a login redirects to, the scopes it was granted,
the front page's player, and the script that publishes lexicons.

`PROJECT.json` lists the components, the runs, for every definition the source lines it stands for,
the hazards found in the code with the properties that cover them, and the theorems.

## Inventory

| Component | State | Operations | Modelled in |
| --- | --- | --- | --- |
| Login service (`service/auth.go`) | none of its own; each call holds a context with a 20 s timeout | `StartLogin`, `FinishLogin`, `Logout`, `GetOAuthSession`, `GetPermissions` | `Login` |
| OAuth client (`atproto/client.go`, `session.go`, `store.go`) | sessions in memory while a call lasts | `StartAuthFlow`, `ProcessCallback`, `Logout`, `GetRecord`, `PutRecordIfMissing`, `Revoke`, the store adapter | `Login`; `CheckScopes` in `Scopes` |
| Tables (`sqlite/oauth.go`, `sqlite/auth.go`, migrations) | `users`, `oauth_auth_requests`, `oauth_sessions` | one statement each | `OAuthStore` |
| Auth servers and PDSes (`atprototest/network.go`, the tests' fake) | pushed requests, codes, tokens, records | push, authorize, token, revoke, get and put record | `Network` |
| Login errors (`service/auth.go`, `http/login.go`, `model/error.go`) | the error a call returns, its context, the span, the page | the failures of each step, `recordLoginFailure`, `loginErrorPage` | `LoginErrors` |
| Cookie sessions and login pages (`http/*.go`) | cookie session rows, the browsers' cookies, one copy per request | `POST /login`, the callback, `POST /logout`, the check before every page | `Web`, over `FlowLifecycle` |
| Redirects (`http/login.go`, `localPath`) | the redirect, from the form to the `Location` | `localPath` twice, `http.Redirect` | `LocalPath` |
| Sky player (`public/scripts/sky.js`) | playing or not, frames, timers, gains | click, hide, sweep, ring, rest, disconnect | `SkyPlayer` |
| Lexicon publishing (`scripts/publish-lexicons.sh`) | the git state it remembers | its checks, `goat lex publish` | `PublishLexicons` |

Not modelled, with the reasons, are listed under [Not modelled](#not-modelled).

### How the parts interact

The handlers of `http/` load a cookie session, call the login service, and write the cookie session
back. The service calls the OAuth client, which reads and writes the tables through the indigo
library's store interface, and sends requests to the auth server and the PDS. There are three places
that say somebody is logged in: a row of `oauth_sessions`, a cookie session that names it, and
tokens at the auth server. No transaction spans any two of them, so what relates them is the order
of the steps, which is what most of the properties are about.

### What is hard

* *Partial failure.* `FinishLogin` can fail in six places after its session is in the database,
  with its context done or not; a deferred delete must undo the save.
* *Duplicates.* A callback can be reloaded, and a user can consent twice: two `FinishLogin` calls
  for one flow, each with a code of its own or both with the same.
* *Stale copies.* The client saves the session it has in memory on every nonce refresh, over
  whatever the store has by then; a request writes back the copy of the cookie session it read.
* *Read, then write, in two requests.* The profile is looked for and then written; a user is
  inserted and then selected.
* *Crossed browsers and tabs.* Callbacks open in the wrong browser, tabs share a cookie session,
  responses that set cookies are lost or overtake each other.
* *Servers that never answer.* Only the timeouts end a call.
* *Errors that are several at once.* A refusal wraps what caused it, and the span and the page look
  through it one after the other, each with a list of its own.
* *Timers.* In the player, timers set by timers, and one that nobody remembers.

## The modules

```
Parties <- OAuthStore, Network <- Login <- LoginProperties, LoginRefinement <- MCLogin
           FlowLifecycle <- (INSTANCE)  LoginRefinement
           FlowLifecycle <- Web <- WebProperties <- MCWeb, WebProofs
LoginProperties <- LoginProofs <- LoginFlowProofs -> LoginRefinement
LocalPath <- LocalPathProofs        LoginErrors <- LoginErrorsProofs        Scopes <- MCScopes, ScopesProofs
SkyPlayer <- SkyPlayerProofs        PublishLexicons <- MCPublishLexicons, PublishProofs
```

### Login

`Parties` says who takes part. `OAuthStore` has an operator for each SQL statement, over a set of
rows per table; `Network` has one for each thing an auth server or a PDS does. `Login` composes
them: each call of `StartLogin`, `FinishLogin` and `Logout` has a program counter, and an action is
one statement or one request together with the code around it up to the next. Actions have the name
of what they run (`LoadAuthRequest`, `ExchangeToken`, `SaveSession`, `InsertUserIfMissing`, ...), and
each has the failures of that step as disjuncts of its own:

* a request to a server fails, never answers, or takes effect and loses its answer;
* the call's context is done (`Expire`), after which nothing that uses it works. The two deletes
  that the code runs `WithoutCancel`, after a denial or a failure, and the one in `Logout`, do
  not look at it;
* a statement fails with a live context (`StoreFails`), and the process dies (`Crash`).

States and IDs are random in the code, so they are named by the call that made them: an OAuth state
by its flow, and the session a flow gets has the flow's state as its ID, as in the client library.
Tokens are numbered by the code they were exchanged for. What a user does at the auth server is a
choice: they log in as any account, untick scopes, deny, or go back and consent again (up to
`MaxCodes` times). Others edit the profile, and an operator of the site flips `users.active`.

Not in `Login`: handles and URLs (resolving an identity changes nothing), the columns of the rows
that no property tells apart, and expiry of pushed requests and tokens, which fails requests in ways
the model already has.

### Web

`FlowLifecycle` is what the service promises to its callers: a flow is new, then pending, then
perhaps live for one session, and then over for good. `LoginRefinement` shows that `Login` implements
it *where an auth server issues one code per pushed request*; where it issues two, it does not, which is
the finding `LoginTwoCodes` below. `Web` is built on `FlowLifecycle` and so rests on that condition.

A request in `Web` goes through the middleware as in the code: `LoadSession`, the check of
`AddUserToContext` (`CheckOAuthSession`), its handler, `Commit`, `Respond`. It works on a copy of the
cookie session's row. `Destroy` and the renewal of the token delete the row at once; everything else
is written back whole when the handler is done. Responses set a cookie or never arrive, and overtake
each other. The browser's cookie is read when a request is sent. The user ID and the OAuth session
ID in the cookie session are only ever put together and are one field, `login`.

`Web` takes the path a login is asked to end at as one of a few paths or "elsewhere". `LocalPath` is
the detail: `localPath` and the functions of `net/url`, `path` and `net/http` it goes through,
over texts of characters that mean something in a URL, their percent-encodings, one letter, and one
character for a backslash or a control character. A slash that was encoded twice is in the alphabet too, so that a
pass that decoded once too often, or wrote a decoded path without encoding it, would show; other characters encoded
twice, and a `%` that belongs to nothing (which `url.Parse` refuses), are not. `path.Clean` is three folds, as in the library: a text is
split at its slashes, the segments are gone through once with a stack, and the stack is joined again.
`CleanIsLexical` says which segments are left without any stack: a name stays unless in some run of segments
that starts with it there are as many `..` as names.

### LoginErrors

What `Login` has as failed steps with an outcome, `LoginErrors` has as errors. An error is the set of the
errors that `errors.Is` finds in it, so wrapping is union. For each step of `StartLogin` and `FinishLogin`
there is the set of errors it can return, given how the call's context stands: live, ended because the
browser is gone, or late. A context ends once. `recordLoginFailure` and `loginErrorPage` then each look
through the error, one after the other, in the order of the source's table and switch.

Four things to know of it. "canceled" is found only in errors of a call whose own browser has gone: the
directory's cache does not hand the cancellation of one call to another that waits for the same lookup.
The app's own database failing *inside* the token exchange or the profile's requests comes back
wrapped as a fault of the auth server or the PDS, and is shown and counted as theirs. So does an identifier's fault
inside the exchange: the library looks the flow's DID up again there (`c.app.Dir`), and a DID that was found when
the flow started and is not any more gets the page that blames the auth server. `UserIsNotBlamed` names that one
step as the exception. And an auth server whose metadata has an endpoint that is no absolute URL fails where the
auth request is saved, unwrapped: the app shows and records it as an error of its own, at a step that
otherwise calls nothing but its database.

### The rest

`Scopes` is `CheckScopes` after parsing: a permission is a resource with MIME patterns, or collections
and actions, or a scope string. Beside it stands what a permission *allows*, as a PDS enforces it, and
the properties say that the check agrees with that.

`SkyPlayer` has an action per callback the browser may run. A sweep is named by the start it goes back
to, so that a property can tell a timer of an earlier play from one of this one. Geometry, pitches
and drawing are left out, and so is time: timers fire in any order.

`PublishLexicons` has an action per check of the script. Other people change the checkout, origin, the
DNS and the network while the script runs the tests, waits at a prompt, or is not running; between
two adjacent commands they do not. That assumption is needed: between the last check and
`goat lex publish` nothing could protect the script.

## The runs

Each takes a minute or two at most. A bound is in the `.cfg` by the name used here.

| Run | Instance | Shows |
| --- | --- | --- |
| `LoginFaults` | 2 flows, 2 callbacks, 1 logout, one account, one code per flow, failing statements, crashes | `TypeOK`; one user per account; a completed login keeps its session until a logout; a session logged out of stays out, whatever refreshes do; calls as one session do not overlap; `Login` implements `FlowLifecycle` |
| `LoginAccounts` | 2 accounts on 2 servers, 1 flow, 2 callbacks, 2 codes, failing statements, crashes | every session is accounted for, and for the right account; spent auth requests are gone; a profile is never replaced |
| `LoginLiveness` | 1 flow, 2 callbacks, 1 logout; statements fail only when their context is done | every call returns; a logout ends its session; a failed login leaves no session |
| `LoginStaleRequest` | 1 flow, 1 callback | violation, below |
| `LoginTwoCodes` | 1 flow, 2 callbacks, 2 codes | violation, below |
| `WebBrowsers` | 2 browsers, 2 flows, 4 requests, failing statements | only the browser that started a flow is logged in by it; a redirect stays with its flow, though tabs share a cookie session; one cookie session per login; a destroyed one stays gone |
| `WebLiveness` | 2 browsers that share a token, 1 flow, 3 requests | no shared token becomes a logged-in one; an OAuth session has a cookie session that can end it; a cookie session whose OAuth session is gone is destroyed |
| `LoginFailures` | every step, every error, every way its context stands | who is blamed for a failed login, on the page and on the span |
| `LocalPaths` | every text of up to 6 of 12 characters | the `Location` is on this site; cleaning keeps the segments it should; a second pass changes nothing; what was checked is what is redirected to, with its query |
| `ScopesApp` | the app's scopes, every set of 12 permissions | a grant passes exactly if it allows all that is requested |
| `SkyPlays` | 2 stars, 3 starts, 3 loops | one sweep at a time; a stop leaves nothing that moves or rings; a play is heard; old gains go; stars rest |
| `PublishRuns` | 2 lexicons, 2 versions, 3 changes by others | what is published is the checked commit; nothing is replaced; success means in sync |

*Why the bounds are enough.* Two callbacks are what a race about one flow takes, two flows what a
race about one account takes, and one logout suffices because a second one for the same session
finds what a first finds after a crash. Two codes are needed for two exchanges to succeed in one
flow. In `Web` the shortest login is two requests; four leave room for two that overlap it. Six
characters hold two slashes, a segment, `..` and a separator. Three starts let a timer of the first
play meet the third, by way of a stop. `NoOrphanSession` and `LogoutEndsSession` are claims about a
database that works, so their run has no failing statements; that a statement which fails for a done
context is no excuse is part of it. `SessionsHeld` likewise is checked where commits succeed, in `WebLiveness`; no
path is local there (`Path` is empty, and forms name `Elsewhere`), because redirects play no part in it. It looks at
the rows of cookie sessions and at requests under way, not at what the browsers hold: a login whose response is lost
has its row all the same.
`LoginFailures` has no bound: the module has no constants, and TLC sees all of its states.

`CallsDoNotOverlap` is about the calls that save what they hold. It needs one code per flow, as
`LoginTwoCodes` does, and it does not say that two logouts of one session take turns: they may overlap,
and neither saves anything.

`LoginFaults`, `LoginAccounts`, `WebBrowsers` and `PublishRuns` use symmetry in interchangeable
names; the runs with liveness do not. Runs that say `CHECK_DEADLOCK FALSE` are of systems that end:
the requests of the instance have been sent, the text is redirected, the check has answered.
`Login` has no deadlock because an operator can always flip a user, or somebody edit a profile.

### Fairness

* `Login`: each call's context is done in the end, since every operation has a timeout (20 s), and a
  call whose context is done goes on, because nothing that uses a done context blocks, and the deletes
  that use none are statements on a local database file. Nothing is assumed of servers or users.
* `Web`: a request that has arrived is answered: its statements and the service's calls return, the
  latter by `CallsReturn` in `LoginLiveness`.
* `SkyPlayer`: the browser gets to every timer that is not cleared. Nothing is assumed of frames, which a
  hidden page does not get.

### Findings

* `LoginStaleRequest`: the comment on `oauth_auth_requests` says a row is deleted when its callback arrives.
  A callback without a code or from another issuer returns before any delete, and as the browser's
  `loginState` is gone by then, nobody deletes it later.
* `LoginTwoCodes`: `FinishLogin`'s cleanup relies on the failed login's session ID not having been
  returned to anybody. The ID is the flow's state, so a second callback of the flow that exchanged a
  second code shares it, and the one that fails deletes the session the other has returned. It takes an
  auth server that issues a code for each consent to one pushed request, as the tests' fake does. Where a
  server issues only one, `CompletedLoginKeepsSession` and `FlowHasOneSession` hold.

Two smaller things the models show, noted here and not checked as runs: the deferred delete of
`FinishLogin` is tried once, so its doc's "No OAuth session is left behind on any error" holds unless
that delete fails or the process dies (exactly the exceptions in `SessionsAccountedFor`; a request
that the library itself fails to delete is the one in `SpentRequestsAreGone`); and `http.Redirect`
cleans the text of a fragment as well, so `/#/.` redirects to `/#` although `localPath`
returned `/#/.` (hence the condition in `CheckedIsRedirected`).

## What is proved

TLAPS proves, for every number of accounts, servers, flows, callbacks, logouts and codes, with any
faults, and from the named assumptions on the constants (`PartiesAssumption`, `FaultAssumption`) only:

* `TypeCorrect`: `Spec => []TypeOK`. The invariant is `TypeInv`: `TypeOK` and `Progress`, what a program
  counter says of the call's variables. `TypeOK` alone is not inductive: a session's token number is
  typed only because a call at `save` holds one.
* `SessionsAreAccountedFor` and `NoSessionIsOrphaned`: by `SessionInv`, which adds that a call whose
  cleanup delete failed is done. One step per action of `FinishLogin` shows that a call which has saved
  its session answers for it until it deletes it, also when a stale refresh brings a deleted row back.
  The second theorem follows where statements do not fail and the process does not die.
* `AccountsHaveOneUser`, by `UserInv`: a user that a call holds an ID of is in the table, under the
  account that call has tokens for, and the insert never adds a second.
* `SpentRequestsAreDeleted`, by `RequestInv`: from the exchange on no other call can put the flow's auth
  request back, since an auth request is only inserted by the flow's own `StartLogin`, once.
* `ProfileIsNeverReplaced`: directly from the two actions that touch a profile.
* `SessionsBelongToTheirAccounts`, by `CodeInv` and `OwnInv`: codes are numbered as an auth server issues them, a
  code that was exchanged is gone, and so the tokens of one number stay those of one account; whoever holds a
  session of a flow holds it with such a number.

Where an auth server issues one code per pushed request (`MaxCodes = 1`, an assumption of each of these theorems;
`LoginTwoCodes` shows that it is needed), `LoginFlowProofs` proves what is promised of one flow, for any number of
everything else:

* `LoginsKeepTheirSessions`, `LoggedOutIsForGood` and `CallsTakeTurns`, by one invariant, `FlowInv`. At most one
  `FinishLogin` of a flow is ever given tokens, and from then on no code of the flow is left (`ExchangeInv`); a
  logout's session is that of a call that completed (`LogoutInv`), so nobody saves the session while a logout
  runs; and the session of a completed call is there until a logout deletes it (`KeepInv`).
* `LoginImplementsLifecycle`: `Spec => FlowHasOneSession`, that is, `Login` implements `FlowLifecycle` under the
  mapping of `LoginRefinement`. A flow gets its session in one action, from the one call that was given tokens
  (`SessionSpendsCode`, `SessionComesOnce`), and has no other chance once that is spent (`NoLaterChance`).

So `Web`, which takes the service to be `FlowLifecycle`, stands on a proved abstraction. Of `Web`, `WebProofs` shows for
any number of browsers, requests, flows and paths, from `WebAssumption` (the names are distinct):

* `LoginsAreNotShared`, `LoginsHaveOneCookie` and `DestroyedForGood`, whether or not statements fail and
  browsers share a token. The invariant, `WebInv`, says who can hold a token: whoever made it, and, once its maker
  is done, requests and cookies of the maker's browser, whose login is then the maker's (`TokenInv`); and that one
  request finishes a flow (`LoginInv`). A request that works on a copy with a login never changes it, so none
  saves a destroyed one.
* `RedirectsFollowFlows`, by `StartInv`: a state and a redirect that are together anywhere, in a row, a copy or what
  a callback took out, came from the same form. `StartersFinish` follows from it where no two browsers have a
  token in common to begin with (`~Shared`): then they also came from the same browser. With a shared token the claim is
  false, since a login may be started under it in one browser and finished in the other.
* `SessionsStayHeld`, where no statement fails (`~StoreFails`): a row that goes takes along only a login that is over.

And of the other parts:

* `GrantsSuffice` and `NoGrantIsRefused` (`ScopesProofs`): `CheckScopes` is right for any permissions. The
  second needs `TypesAreOpen`: there are MIME types no scope names, so that a wildcard cannot be covered
  by a list of what there happens to be.
* `StopEndsEverything`, `SweepsAreOne`, `PlayIsHeard` (`SkyPlayerProofs`): for any number of stars, starts and
  loops. The invariant is the three together with the types and `GainInv`: the disconnects still to run
  are those of earlier plays than the current one.
* `OnlyTheCommit`, `NothingIsReplaced`, `SuccessMeansInSync` (`PublishProofs`): for any lexicons and any number of changes
  by others, from `PublishAssumption`. When the script publishes, the working tree is the commit it remembers (`PublishInv`), because
  between the second look and the publishing nobody is waited for.

`WebIsTyped` and `SkyIsTyped` are the types of those two modules.

### Errors: no two refusals in one

`LoginErrorsProofs` rests on one fact about the errors of all steps (`ErrorsDivide`). An error is either an outage
with no refusal in it, at a step that calls nothing but the app's own database, or it has exactly one of the seven
refusals in it; and then it is either one the user or their auth server caused, with nothing of an outage in it, or
one put down to a server, at a step that asks a server for something. A fault of the identifier is only in the first
refusal, which is the user's, or in what is put down to the auth server in the exchange (`ServersCause`). So the order of the table in `loginCondition` and of the switch in
`loginErrorPage` does not matter, and they need not agree on it (`FirstFoundIsOnlyOne`): each finds the one refusal
that is there. Only the check for a cancelled context has to come before the table.

The invariant, `ErrorsInv` (`FailuresAreRecorded`), adds that what has failed is an error of the step the call is
at *as its context stands*, and that the span and the page are made of that very error. `UserIsNeverBlamed`,
`ConditionsMatchPages` and `FaultsAreOwned` follow, one case for each kind of error. The constants play no part
here, and TLC sees all the states too; the proof says why they are right, and what a new refusal must not do.

### Paths: texts of any length

`LocalPathProofs` proves all five properties of the redirect for texts of any length, over any alphabet of the
characters (`LocalPathAssumption`), where the run has texts of six. What it takes is induction over what the
folds compute. The library's induction theorems have the property as a parameter; here the property is a *set* of
numbers or texts, whose least missing number exists because `<` is well-founded (`LeastNumber`, `NumberInduction`).
A fold is unfolded once to the recursive function it is defined by, and from there each of the three folds of
`path.Clean` has a lemma for the empty sequence and one for one element more (`SegmentsOfAppend`, `CleanOfAppend`,
`JoinOfAppend`). The argument then is:

* *Clean paths.* A path that has been cleaned is the join of names (`CleanIsClean`), begins with one slash
  (`CleanShape`), splits into those names again, and is left as it is by another cleaning (`CleanAgain`).
* *Encoding.* Encoding a path and decoding it gives the path (`DecodeEncode`), and encoding neither makes nor loses
  a slash or a name, so it commutes with cleaning (`EncodeJoin`, `EncodeClean`). This is why `http.Redirect`, which
  cleans the text as it is *written*, does not undo what `localPath` checked on the *decoded* path.
* *Parts.* The encoded path has no `?` and no `#`, and a query no `#`, so a URL that was put together is taken apart
  into the same parts (`PartsOfConcat`); and a fragment is normalised only once (`FragmentStringTwice`).
* Together, what `localPath` returns is a URL of a clean path (`LocalPathMakes`), which it returns again when given
  it (`LocalPathTwice`), has a single slash in front (`UrlIsLocal`), and passes `http.Redirect` unchanged if it has
  no fragment (`RedirectToUrl`). With a fragment it stays on the site (`RedirectToLocal`).

The invariant of the module is then short: `RedirectInv`, that the redirect is `localPath` of the form's text before
and after the callback, and what `http.Redirect` makes of that at the end. `LocalPathTwice` makes it inductive, and
is what `Web` takes for granted when its `LocalPath` leaves a path as it is.

`CleanStaysLexical` compares the one pass with a stack to the counting of names and `..` in `CleanIsLexical`. By
induction over the segments, the stack is the list of the segments kept so far, in order (`Lists`), and from any one of
them on there are as many names more than `..` as there are kept segments (`Deep`): so one name more is the last one
kept, and one `..` more takes exactly the last one away (`LexicalOfKept`).

### Only model-checked

Liveness under fairness stays with TLC: `CallsReturn`, `LogoutEndsSession`, `GoneSessionLosesCookie`, `OldGainsGo` and
`RingingEnds`. So do the two violations. Every other property of the runs is proved.

## Not modelled

* *What the service and the client only read.* `GetPermissions`, the metadata documents and the JWKS are
  fixed at start-up; `GetOAuthSession` is the check in `Web`. `GetPermissions` passes on what the framework
  says of a user.
* *What is not in this repository.* Whether the framework's own middleware, which runs before the app's, finds
  a user active; the refresh of tokens in the client library, of which only the callback that saves the
  session is the app's (`PersistRefresh`); the framework's job queue and email sender.
* *Service wiring, start-up, database set-up.* They run once, in a fixed order, before anything is served, and
  what fails there ends the process.
* *HTML, lexicons.* Rendering of props, and embedded files: no state. What the page of a failed login says is in
  `LoginErrors`.
* *Expiry of cookie sessions, pushed requests and tokens.* A cookie session that expires is one that is not
  found, an expired request or token one that a server refuses: both are in the models with other causes.
* *Time and geometry in the player*, and the timers it never forgets (they grow with every star of every
  loop, until a stop): a matter of size that a bounded instance cannot show.

## Running it

`tlc -config LoginFaults.cfg MCLogin`, and likewise with the modules `PROJECT.json` names;
`tlapm LoginProofs.tla`, and so on, for the proofs. The definitions marked `mistake:` are not part of the models:
each is a plausible bug that, put in the place of the definition after it, makes a property fail.
