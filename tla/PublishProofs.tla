--------------------------- MODULE PublishProofs ---------------------------
(***************************************************************************)
(* What one run of publish-lexicons.sh can do to the network, however many *)
(* lexicons there are and whatever others do while it waits.               *)
(***************************************************************************)
EXTENDS PublishLexicons, TLAPS

\* Between the second look at the checkout and the publishing nobody is waited
\* for, so what is published is the commit.
PublishInv ==
  /\ TypeOK
  /\ pc = "publish" => tree = commit

\* A step of the script that leaves the checkout alone keeps the invariant.
LEMMA StepKeeps ==
  ASSUME PublishInv, NEW from, NEW to \in Exit \cup {"git", "test", "check_dns", "status", "accounts",
                                                     "prompt", "recheck", "after"},
         Step(from, to), commit' \in Lexicons
  PROVE  PublishInv'
<1>1. pc' = to /\ UNCHANGED <<main, head, tree, published, dns, changes>>
  BY DEF Step, world
<1>2. pc' # "publish"
  BY <1>1 DEF Exit
<1> QED BY <1>1, <1>2 DEF PublishInv, TypeOK

\* So does every check before the publishing.
LEMMA CheckKeeps ==
  ASSUME PublishInv, Check, UNCHANGED commit
  PROVE  PublishInv'
<1>0. commit' \in Lexicons
  BY DEF PublishInv, TypeOK
<1>1. CASE \E from : Step(from, "failed")
  BY <1>0, <1>1, StepKeeps DEF Exit
<1>2. CASE RunTests
  BY <1>0, <1>1, <1>2, StepKeeps DEF RunTests, Require
<1>3. CASE CheckDNS
  BY <1>0, <1>1, <1>3, StepKeeps DEF CheckDNS, Require
<1>4. CASE StatusBefore
  BY <1>0, <1>1, <1>4, StepKeeps DEF StatusBefore, Require, Exit
<1>5. CASE CheckAccounts
  BY <1>0, <1>1, <1>5, StepKeeps DEF CheckAccounts, Require
<1>6. CASE Answer
  BY <1>0, <1>1, <1>6, StepKeeps DEF Answer, Require
<1>7. CASE CheckAgain
  <2>1. CASE Unchanged /\ Step("recheck", "publish")
    BY <1>0, <2>1 DEF Unchanged, Clean, Step, world, PublishInv, TypeOK
  <2> QED BY <1>1, <1>7, <2>1 DEF CheckAgain, Require
<1>8. CASE StatusAfter
  BY <1>0, <1>1, <1>8, StepKeeps DEF StatusAfter, Require, Exit
<1>9. CASE Again
  BY <1>0, <1>9, StepKeeps DEF Again
<1> QED BY <1>2, <1>3, <1>4, <1>5, <1>6, <1>7, <1>8, <1>9 DEF Check

\* What others change, they change while the script waits for someone.
LEMMA ChangeKeeps ==
  ASSUME PublishInv, Edit \/ Commit \/ Push \/ Merge \/ Pull \/ PublishElsewhere \/ ChangeDNS
  PROVE  PublishInv'
<1>1. Change
  BY DEF Edit, Commit, Push, Merge, Pull, PublishElsewhere, ChangeDNS
<1>2. pc' = pc /\ commit' = commit /\ pc # "publish" /\ changes' \in 0..MaxChanges
  BY <1>1, PublishAssumption DEF Change, script, Exit, PublishInv, TypeOK
<1>3. /\ main' \in Lexicons /\ head' \in Lexicons /\ tree' \in Lexicons /\ published' \in Lexicons
      /\ dns' \in [NSID -> {"ours", "theirs", "nobody"}]
  BY DEF Edit, Commit, Push, Merge, Pull, PublishElsewhere, ChangeDNS, PublishInv, TypeOK, Lexicons
<1> QED BY <1>2, <1>3 DEF PublishInv, TypeOK

THEOREM PublishInvariant == Spec => []PublishInv
<1>1. Init => PublishInv
  BY PublishAssumption DEF Init, PublishInv, TypeOK, Lexicons
<1>2. PublishInv /\ [Next]_vars => PublishInv'
  <2> SUFFICES ASSUME PublishInv, [Next]_vars PROVE PublishInv'
    OBVIOUS
  <2>1. CASE UNCHANGED commit /\ Check
    BY <2>1, CheckKeeps
  <2>2. CASE check_git_state
    <3>1. commit' \in Lexicons
      BY <2>2 DEF check_git_state, Remembered, PublishInv, TypeOK
    <3>2. Step("git", "test") \/ Step("git", "failed")
      BY <2>2 DEF check_git_state, Require
    <3> QED BY <3>1, <3>2, StepKeeps DEF Exit
  <2>3. CASE Publish
    <3>1. \A n \in NSID : tree[n] \in Version \cup {None} /\ published[n] \in Version \cup {None}
      BY DEF PublishInv, TypeOK, Lexicons
    <3>2. published' \in Lexicons
      BY <2>3, <3>1 DEF Publish, Lexicons
    <3>3. pc' \in {"after", "failed"}
      BY <2>3 DEF Publish
    <3> QED BY <2>3, <3>2, <3>3 DEF Publish, PublishInv, TypeOK, Exit
  <2>4. CASE Edit \/ Commit \/ Push \/ Merge \/ Pull \/ PublishElsewhere \/ ChangeDNS
    BY <2>4, ChangeKeeps
  <2>5. CASE UNCHANGED vars
    BY <2>5 DEF vars, script, world, PublishInv, TypeOK
  <2> QED BY <2>1, <2>2, <2>3, <2>4, <2>5 DEF Next
<1> QED BY <1>1, <1>2, PTL DEF Spec

\* The script publishes from the commit that it found to be origin's main, or
\* leaves a name as it was.
THEOREM OnlyTheCommit == Spec => PublishesTheCommit
<1>1. ASSUME PublishInv, Publish, NEW n \in NSID
      PROVE  published'[n] \in {published[n], commit[n]}
  BY <1>1 DEF PublishInv, Publish
<1>2. PublishInv => (Publish => \A n \in NSID : published'[n] \in {published[n], commit[n]})
  BY <1>1
<1> QED BY <1>2, PublishInvariant, PTL DEF PublishesTheCommit

\* Publishing leaves alone what the network has, since goat is run without
\* --update.
THEOREM NothingIsReplaced == Spec => NeverReplaces
<1>1. ASSUME Publish, NEW n \in NSID, published[n] # None
      PROVE  published'[n] = published[n]
  BY <1>1 DEF Publish, ToPublish
<1>2. Publish => \A n \in NSID : published[n] # None => published'[n] = published[n]
  BY <1>1
<1> QED BY <1>2, PTL DEF NeverReplaces

\* A run that ends well leaves the network with the checkout's lexicons, or
\* finds them there: goat's status is believed only when it names no other.
THEOREM SuccessMeansInSync == Spec => SuccessIsInSync
<1>1. ASSUME TypeOK, \A n \in NSID : Symbol(n) \in {"green", Unsaid}
      PROVE  published = tree
  <2>1. Unsaid \notin {"orange", "remote_only", "purple"}
    BY Zenon DEF Unsaid
  <2>2. ASSUME NEW n \in NSID, tree[n] # published[n]
        PROVE  Symbol(n) \in {"orange", "remote_only", "purple"}
    BY <2>2 DEF Symbol
  <2>3. \A n \in NSID : tree[n] = published[n]
    BY <1>1, <2>1, <2>2
  <2> QED BY <1>1, <2>3 DEF TypeOK, Lexicons
<1>2. ASSUME PublishInv, [Next]_vars, pc' \in {"published", "in_sync"}, pc # pc'
      PROVE  published = tree
  <2>1. \A from, to : Step(from, to) => pc = from /\ pc' = to
    BY DEF Step
  <2>2. CASE UNCHANGED commit /\ Check
    <3>1. StatusBefore \/ StatusAfter
      BY <1>2, <2>1, <2>2 DEF Check, RunTests, CheckDNS, CheckAccounts, Answer, CheckAgain, Again, Require
    <3>2. CASE StatusBefore
      <4>1. check_status_output({"green", "orange"}) /\ ~\E n \in NSID : Symbol(n) = "orange"
        BY <1>2, <2>1, <3>2 DEF StatusBefore, Require
      <4> QED BY <1>1, <1>2, <4>1 DEF check_status_output, PublishInv
    <3>3. CASE StatusAfter
      <4>1. check_status_output({"green"})
        BY <1>2, <2>1, <3>3 DEF StatusAfter, Require, AllowedAfter
      <4> QED BY <1>1, <1>2, <4>1 DEF check_status_output, PublishInv
    <3> QED BY <3>1, <3>2, <3>3
  <2>3. CASE \/ check_git_state \/ Publish
             \/ Edit \/ Commit \/ Push \/ Merge \/ Pull \/ PublishElsewhere \/ ChangeDNS
             \/ UNCHANGED vars
    BY <1>2, <2>1, <2>3 DEF check_git_state, Require, Publish, Edit, Commit, Push, Merge, Pull,
       PublishElsewhere, ChangeDNS, Change, script, vars
  <2> QED BY <1>2, <2>2, <2>3 DEF Next
<1>3. PublishInv /\ [Next]_vars => (pc' \in {"published", "in_sync"} /\ pc # pc' => published = tree)
  BY <1>2
<1> QED BY <1>3, PublishInvariant, PTL DEF SuccessIsInSync, Spec
============================================================================
