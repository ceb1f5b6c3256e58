-------------------------- MODULE PublishLexicons --------------------------
(***************************************************************************)
(* scripts/publish-lexicons.sh: publishes lexicons from a checkout of the  *)
(* repository to the network, for good.  Each step runs a command of git   *)
(* or goat and looks at the result.  While the script tests or waits for   *)
(* an answer, people go on working: in the checkout, on origin, and on the *)
(* network.                                                                *)
(***************************************************************************)
EXTENDS Naturals

CONSTANTS
  NSID, Version,
  None,         \* no lexicon of that name
  MaxChanges    \* bound: how often somebody else changes something

ASSUME PublishAssumption == None \notin Version /\ MaxChanges \in Nat

VARIABLES
  main,        \* the lexicons on origin's main
  head,        \* those of the commit that is checked out, on branch main
  tree,        \* and those in the working tree
  published,   \* those on the network
  dns,         \* the account each name's DNS points at
  pc,
  commit,      \* what the script remembers of the git state: a commit, by its lexicons
  changes      \* how often others have changed something

script == <<pc, commit>>
world  == <<main, head, tree, published, dns>>
vars   == <<script, world, changes>>

Lexicons == [NSID -> Version \cup {None}]
Exit == {"published", "in_sync", "failed"}

TypeOK ==
  /\ main \in Lexicons /\ head \in Lexicons /\ tree \in Lexicons /\ published \in Lexicons
  /\ dns \in [NSID -> {"ours", "theirs", "nobody"}]
  /\ pc \in Exit \cup {"git", "test", "check_dns", "status", "accounts", "prompt", "recheck", "publish", "after"}
  /\ commit \in Lexicons
  /\ changes \in 0..MaxChanges

Init ==
  /\ main \in Lexicons /\ head = main /\ tree = main
  /\ published \in Lexicons
  /\ dns \in [NSID -> {"ours", "theirs", "nobody"}]
  /\ pc = "git" /\ commit = [n \in NSID |-> None]
  /\ changes = 0

----------------------------------------------------------------------------
(* The script *)

Step(from, to) ==
  /\ pc = from /\ pc' = to
  /\ UNCHANGED <<world, changes>>

\* The next command if this one succeeds and says what it should, which it may
\* fail to for reasons of its own.
Require(from, condition, to) == (condition /\ Step(from, to)) \/ Step(from, "failed")

\* git status, and a look for what git status does not show.
Clean == tree = head

Remembered == head

\* The first check fetches, and remembers the commit.
check_git_state ==
  /\ Require("git", Clean /\ head = main, "test")
  /\ commit' = Remembered

RunTests == Require("test", TRUE, "check_dns")

CheckDNS == Require("check_dns", \A n \in NSID : tree[n] # None => dns[n] # "nobody", "status")

\* goat lex status: what there is to say of a name, if anything.
Unsaid == ""
Symbol(n) ==
  CASE tree[n] = published[n] -> IF tree[n] = None THEN Unsaid ELSE "green"
    [] tree[n] # published[n] /\ published[n] = None -> "orange"
    [] tree[n] # published[n] /\ tree[n] = None -> "remote_only"
    [] OTHER -> "purple"

check_status_output(allowed) ==
  /\ \E n \in NSID : Symbol(n) # Unsaid
  /\ \A n \in NSID : Symbol(n) \in allowed \cup {Unsaid}

StatusBefore ==
  Require("status", check_status_output({"green", "orange"}),
          IF \E n \in NSID : Symbol(n) = "orange" THEN "accounts" ELSE "in_sync")

\* Every name that goat printed.
CheckAccounts == Require("accounts", \A n \in NSID : Symbol(n) # Unsaid => dns[n] = "ours", "prompt")

\* Yes, and a password; anything else is no.
Answer == Require("prompt", TRUE, "recheck")

\* mistake: only the commit is checked again
Unchanged_Head == head = commit
Unchanged == Clean /\ head = commit

CheckAgain == Require("recheck", Unchanged, "publish")

\* mistake: with --update
ToPublish_Update == {n \in NSID : tree[n] \notin {None, published[n]} /\ dns[n] = "ours"}
\* What goat lex publish sends: only what is new, and points at the account.
ToPublish == {n \in NSID : tree[n] # None /\ published[n] = None /\ dns[n] = "ours"}
Skipped   == {n \in NSID : tree[n] # None /\ published[n] = None /\ dns[n] # "ours"}

\* A failure may come after some were sent.
Publish ==
  /\ pc = "publish"
  /\ \E sent \in SUBSET ToPublish :
       /\ published' = [n \in NSID |-> IF n \in sent THEN tree[n] ELSE published[n]]
       /\ \/ sent = ToPublish /\ pc' = IF Skipped = {} THEN "after" ELSE "failed"
          \/ pc' = "failed"
  /\ UNCHANGED <<main, head, tree, dns, commit, changes>>

\* mistake: goat's status is taken for success
AllowedAfter_Any == {"green", "orange", "purple", "remote_only"}
AllowedAfter == {"green"}

StatusAfter == Require("after", check_status_output(AllowedAfter), "published")

\* Somebody runs it again.
Again == \E e \in Exit : Step(e, "git")

\* The steps that neither remember nor send anything.
Check ==
  \/ RunTests \/ CheckDNS \/ StatusBefore \/ CheckAccounts
  \/ Answer \/ CheckAgain \/ StatusAfter \/ Again

----------------------------------------------------------------------------
(* Everybody else *)

\* The commands follow one another at once; only the tests, the questions and
\* what is between two runs take their time.
Change ==
  /\ pc \in {"test", "prompt"} \cup Exit
  /\ changes < MaxChanges /\ changes' = changes + 1
  /\ UNCHANGED script

Edit == Change /\ tree' \in Lexicons /\ UNCHANGED <<main, head, published, dns>>
Commit == Change /\ head' = tree /\ UNCHANGED <<main, tree, published, dns>>
Push == Change /\ main' = head /\ UNCHANGED <<head, tree, published, dns>>
Merge == Change /\ main' \in Lexicons /\ UNCHANGED <<head, tree, published, dns>>
Pull == Change /\ Clean /\ head' = main /\ tree' = main /\ UNCHANGED <<main, published, dns>>
PublishElsewhere ==
  /\ Change /\ UNCHANGED <<main, head, tree, dns>>
  /\ \E n \in NSID, v \in Version \cup {None} : published' = [published EXCEPT ![n] = v]
ChangeDNS ==
  /\ Change /\ UNCHANGED <<main, head, tree, published>>
  /\ dns' \in [NSID -> {"ours", "theirs", "nobody"}]

Next ==
  \/ UNCHANGED commit /\ Check
  \/ check_git_state \/ Publish
  \/ Edit \/ Commit \/ Push \/ Merge \/ Pull \/ PublishElsewhere \/ ChangeDNS

Spec == Init /\ [][Next]_vars

----------------------------------------------------------------------------
\* Whatever happens in the checkout while it tests and asks, what the script
\* publishes is what the commit had that it found equal to origin's main.
PublishesTheCommit ==
  [][Publish => \A n \in NSID : published'[n] \in {published[n], commit[n]}]_vars

\* What is on the network already is never replaced, nor what somebody else
\* published since the script looked.
NeverReplaces ==
  [][Publish => \A n \in NSID : published[n] # None => published'[n] = published[n]]_vars

\* It succeeds only when the network has exactly the lexicons of the checkout.
SuccessIsInSync ==
  [][pc' \in {"published", "in_sync"} /\ pc # pc' => published = tree]_vars
============================================================================
