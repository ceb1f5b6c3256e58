------------------------------ MODULE Parties ------------------------------
(***************************************************************************)
(* Who takes part in logging in and out.                                   *)
(*                                                                         *)
(* An OAuth state is random, so it is named by the login flow that         *)
(* generated it, and the session a flow establishes has the flow's state   *)
(* as its ID.  A user ID is random too, and named by the FinishLogin call  *)
(* that inserted the row.                                                  *)
(***************************************************************************)
EXTENDS Naturals

CONSTANTS
  Account,        \* the DIDs of the accounts that log in
  Server,         \* the auth servers, by issuer URL
  AuthServerOf,   \* the auth server of each account
  Flow,           \* the login flows: calls of StartLogin
  Finish,         \* the callbacks: calls of FinishLogin
  Logout,         \* the calls of Logout
  MaxCodes        \* how many authorization codes one pushed request can yield

ASSUME PartiesAssumption ==
  /\ AuthServerOf \in [Account -> Server]
  /\ MaxCodes \in Nat \ {0}
  /\ Flow \cap Finish = {} /\ Flow \cap Logout = {} /\ Finish \cap Logout = {}
  /\ "" \notin Account /\ "" \notin Server
  /\ "" \notin Flow /\ "" \notin Finish /\ "" \notin Logout
============================================================================
