--------------------------- MODULE FlowLifecycle ---------------------------
(***************************************************************************)
(* What the login service promises of a login flow to the code that uses   *)
(* it: a flow is started, may get one OAuth session, and once that session *)
(* has ended, or can no longer come to be, the flow never has another.     *)
(***************************************************************************)
CONSTANT Flow    \* the login flows, named by the state StartLogin returned

VARIABLE phase   \* how far each flow has come

Phase == {"new", "pending", "live", "over"}

\* mistake: a second callback of the flow is given the session as well
Later_Again == [new |-> {"pending"}, pending |-> {"live", "over"}, live |-> {"live", "over"}, over |-> {}]

\* A session that is live is in the database; CheckOAuthSession finds it.
Later == [new |-> {"pending"}, pending |-> {"live", "over"}, live |-> {"over"}, over |-> {}]

FlowInit == phase = [f \in Flow |-> "new"]

\* Where one flow goes next.
Advance(f, to) ==
  /\ to \in Later[phase[f]]
  /\ phase' = [phase EXCEPT ![f] = to]

\* One step of the service may move several flows: those whose calls die with
\* the process.
FlowNext ==
  /\ phase' \in [Flow -> Phase]
  /\ \A f \in Flow : phase'[f] = phase[f] \/ phase'[f] \in Later[phase[f]]

FlowSpec == FlowInit /\ [][FlowNext]_phase
============================================================================
