-------------------------- MODULE LoginProperties --------------------------
(***************************************************************************)
(* What logging in and out promises.                                       *)
(***************************************************************************)
EXTENDS Login

\* The session is in the database from the save in the token exchange on.
HasSaved(c) == pc[c] \in {"clear", "insert", "select", "resumeGet", "get", "resumePut", "put",
                          "cleanup"}
Completed(c) == pc[c] = "done" /\ outcome[c] = "ok"
Owns(c, s)   == FlowOf(c) = s.id /\ did[c] = s.did /\ (HasSaved(c) \/ Completed(c))

\* FinishLogin leaves no OAuth session behind on any error: each one in the
\* database belongs to a login that is in progress or has completed, so its
\* ID is known to someone who can end it.
NoOrphanSession == \A s \in sessions : \E c \in Finish : Owns(c, s)

\* The same where the delete after a failure can fail itself, or the process
\* can die: nothing else leaves a session without a login.
Abandoned(c, s) ==
  FlowOf(c) = s.id /\ did[c] = s.did /\ (c \in sessionLeft \/ pc[c] = "crashed")
SessionsAccountedFor ==
  \A s \in sessions : \E c \in Finish : Owns(c, s) \/ Abandoned(c, s)

\* A session is for the account its flow was started for, and its tokens were
\* issued to that account, whoever the user logged in as at the auth server.
SessionsAreTheAccounts ==
  \A s \in sessions :
    /\ s.did = account[s.id]
    /\ \A t \in tokens : t.flow = s.id /\ t.n = s.token => t.subject = s.did

\* However many first logins of an account race, there is one user for it,
\* and every login of the account gets that user.
OneUserPerAccount ==
  /\ \A u, v \in users : u.did = v.did \/ u.id = v.id => u = v
  /\ \A c \in Finish : Completed(c) =>
       \E u \in users : u.id = userID[c] /\ u.did = did[c]

\* A denial or a token exchange spends the auth request: nothing is left in
\* the table for a flow the auth server has concluded, unless deleting it failed.
Spent(c) ==
  /\ pc[c] = "done" /\ c \notin requestLeft
  /\ \/ did[c] # "" \/ outcome[c] = "auth_server_error"
     \/ input[c].callback.error # "" /\ input[c].state = FlowOf(c) /\ outcome[c] = "cancelled"
SpentRequestsAreGone ==
  \A c \in Finish : Spent(c) => \A r \in authRequests : r.state # FlowOf(c)

\* What the table's comment promises: a row is deleted when its callback arrives.
CallbackSpendsRequest ==
  \A c \in Finish :
    pc[c] = "done" /\ input[c].state = FlowOf(c) /\ outcome[c] # "callback_error"
      => \A r \in authRequests : r.state # FlowOf(c)

\* A login that completed keeps its session until someone logs out of it,
\* whatever a second callback for the same flow, or any other call, does.
CompletedLoginKeepsSession ==
  \A c \in Finish :
    Completed(c) /\ (\A l \in Logout : target[l] # c)
      => \E s \in sessions : s.id = FlowOf(c) /\ s.did = did[c]

\* What FinishLogin's deferred delete relies on: the session of a login that
\* failed is one whose ID was never returned, so deleting it hurts nobody.
FailedSessionIsUnreturned ==
  \A c, d \in Finish :
    pc[c] = "cleanup" /\ Completed(d) => FlowOf(c) # FlowOf(d) \/ did[c] # did[d]

\* Once a Logout has returned, the session is gone for good, though a login
\* saves its session again on every refresh.
LoggedOutStaysOut ==
  \A l \in Logout :
    lpc[l] \in {"out", "not_found"} => \A s \in sessions : s.id # FlowOf(target[l])

\* What GetRecord and PutRecordIfMissing ask of their callers, since each saves the
\* session it holds: calls as the same session do not overlap.  A logout counts,
\* as it takes away what they would save.
ActsAs(j, f) ==
  \/ j \in Finish /\ FlowOf(j) = f /\ pc[j] \in {"resumeGet", "get", "resumePut", "put"}
  \/ j \in Logout /\ lpc[j] \in {"revoke", "delete"} /\ FlowOf(target[j]) = f
CallsDoNotOverlap ==
  \A i \in Finish, j \in Finish \cup Logout, f \in Flow : ActsAs(i, f) /\ ActsAs(j, f) => i = j

\* The app never replaces a profile the account already has, although it
\* looks and writes in two requests.
ProfileNeverReplaced ==
  [][\A a \in Account : profile[a] = "theirs" => profile'[a] # "empty"]_profile

\* Every call returns, even if a server never answers.
CallsReturn == \A j \in Call : Running(j) ~> ~Running(j)

\* A Logout ends its session even if the revocation uses up its time.
LogoutEndsSession ==
  \A l \in Logout, c \in Finish :
    lpc[l] = "resume" /\ target[l] = c ~> \A s \in sessions : s.id # FlowOf(c)
============================================================================
