----------------------------- MODULE Network ------------------------------
(***************************************************************************)
(* The servers a login talks to, as the fake network of the tests has      *)
(* them: the auth servers, which take pushed authorization requests, issue *)
(* a code each time a user consents, exchange each code once for tokens    *)
(* and revoke tokens; and the accounts' PDSes, which hold one record that  *)
(* matters here, the profile.                                              *)
(***************************************************************************)
EXTENDS Parties

VARIABLES
  pushed,    \* the flows whose authorization request an auth server holds
  codes,     \* the codes issued and not exchanged yet
  issued,    \* how many codes each flow has been issued
  tokens,    \* the tokens that are live
  profile    \* what each account has under the profile's collection and key

netVars == <<pushed, codes, issued, tokens, profile>>

\* A code remembers who consented, and whether to every requested scope.
Code == [flow : Flow, n : 1..MaxCodes, subject : Account, full : BOOLEAN]
\* Tokens bear the flow and the number of the code they were exchanged for.
Token == [flow : Flow, n : 1..MaxCodes, subject : Account]

\* No record, the app's empty one, or one with the user's own content.
Profile == {"absent", "empty", "theirs"}

NetTypeOK ==
  /\ pushed \subseteq Flow
  /\ codes \subseteq Code
  /\ issued \in [Flow -> 0..MaxCodes]
  /\ tokens \subseteq Token
  /\ profile \in [Account -> Profile]

NetInit ==
  /\ pushed = {} /\ codes = {} /\ tokens = {}
  /\ issued = [f \in Flow |-> 0]
  /\ profile \in [Account -> {"absent", "theirs"}]

----------------------------------------------------------------------------
PushRequest(f) == pushed' = pushed \cup {f}

\* The pushed request stays valid, so a user who goes back and consents again
\* gets another code, up to MaxCodes.
IssueCode(f, subject, full) ==
  /\ f \in pushed
  /\ issued[f] < MaxCodes
  /\ issued' = [issued EXCEPT ![f] = @ + 1]
  /\ codes' = codes \cup {[flow |-> f, n |-> issued[f] + 1, subject |-> subject, full |-> full]}

\* Presenting a code uses it up, whether the exchange then succeeds or not.
UseCode_Kept(k) == UNCHANGED codes   \* mistake: a code can be presented again
UseCode(k) == codes' = codes \ {k}
IssueTokens(k) == tokens' = tokens \cup {[flow |-> k.flow, n |-> k.n, subject |-> k.subject]}
RevokeTokens(f, n) == tokens' = {t \in tokens : t.flow # f \/ t.n # n}

\* A PDS serves an account's repository to the account's own live tokens.
Authenticates(f, n, a) == [flow |-> f, n |-> n, subject |-> a] \in tokens

\* putRecord with a null swapRecord: refused when there is a record.
SwapFits_Unconditional(a) == TRUE   \* mistake: a write without swapRecord
SwapFits(a) == profile[a] = "absent"
PutEmptyProfile(a) == profile' = [profile EXCEPT ![a] = "empty"]
============================================================================
