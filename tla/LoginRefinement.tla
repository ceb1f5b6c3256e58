-------------------------- MODULE LoginRefinement --------------------------
(***************************************************************************)
(* Login implements FlowLifecycle where an auth server issues one code per *)
(* pushed request.                                                         *)
(***************************************************************************)
EXTENDS Login

HasSession(f) == \E s \in sessions : s.id = f

\* A code is still to come, on its way, or being exchanged.
CanGetSession(f) ==
  \/ issued[f] < MaxCodes
  \/ \E k \in codes : k.flow = f
  \/ \E c \in Finish : pc[c] = "save" /\ FlowOf(c) = f

FlowPhase == [f \in Flow |->
  CASE HasSession(f)                                -> "live"
    [] ~HasSession(f) /\ start[f] # "started"       -> "new"
    [] ~HasSession(f) /\ start[f] = "started" /\ CanGetSession(f) -> "pending"
    [] OTHER                                        -> "over"]

Lifecycle == INSTANCE FlowLifecycle WITH phase <- FlowPhase

\* A flow gets one session at most: it is saved once, and when a failure or a
\* logout has deleted it, no refresh and no other callback saves it again.
FlowHasOneSession == Lifecycle!FlowSpec
============================================================================
