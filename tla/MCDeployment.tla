---------------------------- MODULE MCDeployment ----------------------------
(* Deployment for TLC, with a history variable and the properties.           *)
EXTENDS Deployment

CONSTANTS a1, a2, w0, w1, s1, s2

\* The user authorises the account alone, or together with one where nothing is deployed.
OneOrBoth == {{a1}, {a1, a2}}
NoSubdomain == {None}

VARIABLE alone  \* no two requests were ever under way at once

mcVars == <<vars, alone>>

Busy == {p \in Pages : call[p] # Idle}

MCInit == Init /\ alone = TRUE
MCNext == Next /\ alone' = (alone /\ Cardinality(Busy') < 2)
MCSpec == MCInit /\ [][MCNext]_mcVars /\ Fairness

-----------------------------------------------------------------------------

(* What earlier deployments left in the account is not taken over: their     *)
(* workers are not overwritten, and a worker the wizard uploads is bound to  *)
(* the namespace made for it, never to one that is there with its data       *)
(* (chooseWorkerName avoids both lists; findKvNamespace finds its own).      *)
ByWizard(script) == IF script = None THEN FALSE ELSE script.by = "wizard"
LeftBefore(script) == IF script = None THEN FALSE ELSE script.by = "before"
LeftoversKept ==
    [][\A a \in Accounts, n \in Names :
          LET new == cloud'[a].scripts[n] IN
          /\ LeftBefore(cloud[a].scripts[n]) => new = cloud[a].scripts[n]
          /\ ByWizard(new) => (new.space = n /\ cloud'[a].spaces[n] = "wizard")]_cloud

(* The address the wizard shows at the end leads to a worker that is         *)
(* published, has its namespace, and is on the account's subdomain, whatever *)
(* was retried, answered late or run twice before.                           *)
Served(d) ==
    LET acct == cloud[d.account] IN
    /\ Enabled(acct, d)
    /\ acct.scripts[d.worker].space = d.space
    /\ d.url = <<d.worker, acct.subdomain>>
CompleteIsServed == IF jar.deploy = None THEN TRUE ELSE Complete(jar.deploy) => Served(jar.deploy)

(* The namespaces the wizard has made. *)
Spaces == {at \in Accounts \X Names : cloud[at[1]].spaces[at[2]] = "wizard"}

(* "The current step is safe to retry": unless two requests overlapped, a    *)
(* deployment leaves one namespace in the account, however often its steps   *)
(* failed, timed out or were answered in vain.                               *)
RetryLeavesNoOrphans == alone => Cardinality(Spaces) <= started

(* A page that deploys gets there, or the user leaves it: no error of its    *)
(* loop is one that its own button never gets past, though the token died,   *)
(* the answer was lost or another page went ahead.  Reconnecting leads       *)
(* through start(), which may ask for an account, or fail: of that error it  *)
(* does not hold, since its button posts nothing (app.js:319, 216, 224).     *)
(* (A bound on the user's tokens and deployments, or on the names, may stop  *)
(* it.)                                                                      *)
OutOfBounds(p) ==
    \/ page[p] = "expired" /\ (tokens = MaxTokens \/ (~MayStart /\ (jar.deploy # None => Complete(jar.deploy))))
    \/ \E a \in Accounts : \A n \in Names : cloud[a].spaces[n] # None \/ cloud[a].scripts[n] # None
Deploys == \A p \in Pages :
    page[p] \in {"loop", "error", "expired", "session"} ~> (page[p] \in {"done", "away", "home", "accounts", "failed"} \/ OutOfBounds(p))
=============================================================================
