----------------------------- MODULE Deployment -----------------------------
(* The deployment wizard (wizard/): a server without storage that puts one   *)
(* RayZen worker and its KV namespace into a user's Cloudflare account.      *)
(* The progress of a deployment exists only in an encrypted cookie: a step   *)
(* decrypts it, calls Cloudflare, and answers with the advanced one.  An     *)
(* error, a lost answer or a page that was closed leave the old cookie in    *)
(* the browser's jar, whatever the step did to the account; and two pages    *)
(* (or a page and the request of its own reloaded predecessor) share a jar.  *)
(*                                                                           *)
(* Cloudflare is external: it refuses a second namespace of a title, a       *)
(* second subdomain, an unknown namespace as a binding and a dead token.     *)
(* A namespace is identified by its title.  A call that fails (a fault) may  *)
(* still take effect later, or never (late).                                 *)
EXTENDS Integers, FiniteSets, Sequences, Functions

CONSTANTS
    MaxPages,    \* bound: pages of the wizard the browser opens
    Kinds,       \* how the user authorises the wizard: "oauth", "api_token"
    Accounts,    \* the Cloudflare accounts the user may deploy to
    Grants,      \* the sets of accounts the user may authorise
    Names,       \* the names chooseWorkerName may draw
    Old,         \* those an earlier deployment may have left in an account
    Subdomains,  \* the candidates for a workers.dev subdomain
    Taken,       \* those that belong to somebody else
    None,
    Owned,       \* the subdomains an account may have at first, None among them
    MaxTrouble,  \* bound: faults (Cloudflare calls that fail, lost answers, placeholder pages,
                 \* early expiries) and deployments after the first
    PageCost,    \* bound: how many of these a further page stands for
    MaxTokens    \* bound: tokens a user obtains

(* A worker: the wizard's, or one an earlier deployment has left. *)
Makers == {"wizard", "before"}
Script == [space: Names, published: BOOLEAN, by: Makers]

ASSUME DeploymentAssumption ==
    /\ Old \subseteq Names /\ Taken \subseteq Subdomains /\ Owned \subseteq Subdomains \cup {None}
    /\ None \notin Names \cup Subdomains \cup Script \cup Makers
    /\ \A grant \in Grants : IsFiniteSet(grant) /\ grant \cap Accounts # {}
    /\ {MaxPages, MaxTrouble, PageCost, MaxTokens} \subseteq Nat
    /\ Kinds \subseteq {"oauth", "api_token"}

Pages == 1 .. MaxPages

VARIABLES
    cloud,   \* per account: its subdomain, its namespaces and its scripts
    jar,     \* the cookies auth and deploy
    opened,  \* how many pages were opened
    page,    \* what each page shows
    call,    \* the request of each page, outliving it
    dead,    \* tokens revoked or expired
    late,    \* effects of failed calls that may still happen
    tokens,  \* how many tokens were obtained
    started, \* how many deployments were started
    faults

vars == <<cloud, jar, opened, page, call, dead, late, tokens, started, faults>>

STEPS == <<"access", "prepare", "name", "kv", "upload", "publish", "verify", "complete", "done">>

Fresh(a) == [account |-> a, next |-> "access", subdomain |-> None, worker |-> None, space |-> None, url |-> None]

Deployments ==
    [account: Accounts, next: Range(STEPS), subdomain: Subdomains \cup {None}, worker: Names \cup {None},
     space: Names \cup {None}, url: (Names \X (Subdomains \cup {None})) \cup {None}]

Complete(d) == d.next = "done"

(* complete: the state moves on to the step that follows. *)
Advance(d) == [d EXCEPT !.next = STEPS[1 + CHOOSE i \in 1 .. Len(STEPS) - 1 : STEPS[i] = d.next]]

-----------------------------------------------------------------------------
(* Cloudflare. *)

Effect == [op: {"subdomain"}, name: Subdomains] \cup [op: {"space", "publish"}, name: Names] \cup [op: {"script"}, name: Names, space: Names]

Accepts(acct, e) ==
    CASE e.op = "subdomain" -> acct.subdomain = None /\ e.name \notin Taken
      [] e.op = "space"     -> acct.spaces[e.name] = None
      [] e.op = "script"    -> acct.spaces[e.space] # None
      [] e.op = "publish"   -> acct.scripts[e.name] # None

Effected(acct, e) ==
    CASE e.op = "subdomain" -> [acct EXCEPT !.subdomain = e.name]
      [] e.op = "space"     -> [acct EXCEPT !.spaces[e.name] = "wizard"]
      [] e.op = "script"    -> [acct EXCEPT !.scripts[e.name] =
                                    [space |-> e.space, by |-> "wizard", published |-> @ # None /\ @.published]]
      [] e.op = "publish"   -> [acct EXCEPT !.scripts[e.name].published = TRUE]

(* What an earlier deployment may have left: a worker and its namespace, or either alone. *)
Leftover(n) == {<<None, None>>} \cup
    IF n \in Old THEN {<<None, "before">>} \cup
                      {<<[space |-> n, published |-> TRUE, by |-> "before"], s>> : s \in {None, "before"}}
                 ELSE {}
LeftIn == {[subdomain |-> s, scripts |-> [n \in Names |-> l[n][1]], spaces |-> [n \in Names |-> l[n][2]]] :
              s \in Owned,
              l \in {f \in [Names -> UNION {Leftover(n) : n \in Names}] : \A n \in Names : f[n] \in Leftover(n)}}

-----------------------------------------------------------------------------
Idle == [at |-> "idle"]
Answer(ok, code, deploy, auth) == [at |-> "answer", ok |-> ok, code |-> code, deploy |-> deploy, auth |-> auth]
Keep == [keeps |-> "cookie"]           \* the answer sets no such cookie
Fails(code) == Answer(FALSE, code, Keep, Keep)

Init ==
    /\ cloud \in [Accounts -> LeftIn]
    /\ jar = [auth |-> None, deploy |-> None]
    /\ opened = 0 /\ page = [p \in Pages |-> "away"]
    /\ call = [p \in Pages |-> Idle]
    /\ dead = {} /\ late = {} /\ tokens = 0 /\ started = 0 /\ faults = 0

Further(n) == IF n = 0 THEN 0 ELSE n - 1
Trouble == faults + PageCost * Further(opened) + Further(started)
Room == Trouble < MaxTrouble
MayStart == started = 0 \/ Room

Set(cookie, value) == IF value = Keep THEN cookie ELSE value

-----------------------------------------------------------------------------
(* The pages of app.js: away (not open), starting (start() running), home,   *)
(* accounts, selecting and verifying (the session is read again), loop       *)
(* (deployLoop running), error, expired, session (the errors with an action  *)
(* of their own), failed (the error of start()), stuck (the loading page     *)
(* with nothing under way) and done.  A reload closes one page and opens     *)
(* another.                                                                  *)

Opening(p) == p = opened + 1 /\ opened' = p /\ (opened > 0 => Trouble + PageCost <= MaxTrouble)

(* A page with the URL of an explicit continuation, which stays in the address bar until the end. *)
Open(p) ==
    /\ Opening(p)
    /\ page' = [page EXCEPT ![p] = "starting"]
    /\ UNCHANGED <<cloud, jar, call, dead, late, tokens, started, faults>>

OnlyPages == UNCHANGED <<cloud, jar, opened, call, dead, late, tokens, started, faults>>

Continued(deploy) == IF Complete(deploy) THEN "done" ELSE "loop"

(* start(): what bootstrap, session and, without a deployment, the list of accounts answer; *)
(* of a single account the choice is SelectAccount. *)
Start(p) ==
    /\ page[p] = "starting"
    /\ page' = [page EXCEPT ![p] =
          CASE jar.deploy # None -> Continued(jar.deploy)
            [] jar.deploy = None /\ jar.auth # None -> IF jar.auth.id \in dead THEN "failed" ELSE "accounts"
            [] OTHER -> "home"]
    /\ OnlyPages

(* One of them fails: an error with no deployment behind it. *)
StartFails(p) ==
    /\ page[p] = "starting"
    /\ page' = [page EXCEPT ![p] = "failed"]
    /\ OnlyPages

(* refreshSession, before the loop of a deployment that was just begun or resumed. *)
Refresh(p) ==
    /\ page[p] \in {"selecting", "verifying"}
    /\ page' = [page EXCEPT ![p] = IF jar.deploy = None THEN "stuck" ELSE Continued(jar.deploy)]
    /\ OnlyPages

RefreshFails(p) ==
    /\ page[p] \in {"selecting", "verifying"}
    /\ page' = [page EXCEPT ![p] = IF @ = "selecting" THEN "accounts" ELSE "home"]
    /\ OnlyPages

(* The user closes the page; a request on its way goes on. (Bound: the last page stays.) *)
Close(p) ==
    /\ page[p] # "away" /\ p < MaxPages
    /\ page' = [page EXCEPT ![p] = "away"]
    /\ OnlyPages

Resumes(grant) == IF jar.deploy = None THEN FALSE ELSE ~Complete(jar.deploy) /\ jar.deploy.account \in grant

(* OAuth's callback or POST /api/auth/token: the cookie of an unfinished     *)
(* deployment of a granted account is kept, the only account of a grant is   *)
(* deployed to anew, and of several one is to be chosen.  The callback       *)
(* redirects to a page that starts.                                          *)
Connect(p, kind, grant) ==
    LET token    == [id |-> tokens + 1, kind |-> kind, grant |-> grant]
        anew     == ~Resumes(grant) /\ Cardinality(grant) = 1
        deploy   == CASE Resumes(grant) -> jar.deploy
                      [] anew -> Fresh(CHOOSE a \in grant : TRUE)
                      [] OTHER -> IF kind = "oauth" THEN None ELSE Keep
        shows    == CASE kind = "oauth" -> "starting"
                      [] kind # "oauth" /\ (Resumes(grant) \/ anew) -> "verifying"
                      [] OTHER -> "accounts"
    IN /\ page[p] \in {"home", "expired"} /\ call[p] = Idle
       /\ tokens < MaxTokens /\ (anew => MayStart)
       /\ call' = [call EXCEPT ![p] = Answer(TRUE, shows, deploy, token)]
       /\ tokens' = tokens + 1
       /\ started' = IF anew THEN started + 1 ELSE started
       /\ UNCHANGED <<opened, cloud, jar, page, dead, late, faults>>

(* POST /api/account. *)
SelectAccount(p, a) ==
    /\ page[p] = "accounts" /\ call[p] = Idle /\ MayStart
    /\ IF jar.auth # None /\ jar.auth.id \notin dead /\ a \in jar.auth.grant
       THEN /\ call' = [call EXCEPT ![p] = Answer(TRUE, "selecting", Fresh(a), Keep)]
            /\ started' = started + 1
       ELSE /\ call' = [call EXCEPT ![p] = Fails("accounts")]
            /\ UNCHANGED started
    /\ UNCHANGED <<opened, cloud, jar, page, dead, late, tokens, faults>>

Revoking(auth) == IF auth # None /\ auth.kind = "oauth" THEN {dead \cup {auth.id}} \cup (IF Room THEN {dead} ELSE {})
                                                          ELSE {dead}
Unrevoked(auth) == auth # None /\ auth.kind = "oauth" /\ auth.id \notin dead'

(* POST /api/disconnect: Cancel, Deploy another, or start() of an ordinary   *)
(* visit of / while a deployment exists.                                     *)
Disconnect(p) ==
    /\ \/ page[p] \in {"error", "expired", "session", "failed", "accounts", "done"} /\ UNCHANGED opened
       \/ Opening(p) /\ jar.deploy # None
    /\ call[p] = Idle
    /\ dead' \in Revoking(jar.auth)
    /\ faults' = IF Unrevoked(jar.auth) THEN faults + 1 ELSE faults
    /\ call' = [call EXCEPT ![p] = Answer(TRUE, "home", None, None)]
    /\ page' = [page EXCEPT ![p] = "home"]
    /\ UNCHANGED <<cloud, jar, late, tokens, started>>

(* One turn of deployLoop: POST /api/deploy/step with the cookies of the moment. *)
Post(p) ==
    /\ page[p] = "loop" /\ call[p] = Idle
    /\ call' = [call EXCEPT ![p] =
          CASE jar.auth = None -> Fails("expired")
            [] jar.auth # None /\ jar.deploy = None -> Fails("session")
            [] OTHER -> [at |-> "step", auth |-> jar.auth, deploy |-> jar.deploy, tries |-> 0,
                         listed |-> [workers |-> None, titles |-> None], found |-> FALSE]]
    /\ UNCHANGED <<opened, cloud, jar, page, dead, late, tokens, started, faults>>

(* The user presses the button of an error: renderProgress and deployLoop,   *)
(* which do nothing without a deployment.                                    *)
Retry(p) ==
    /\ page[p] \in {"error", "failed"} /\ call[p] = Idle
    /\ page' = [page EXCEPT ![p] = IF @ = "error" THEN "loop" ELSE "stuck"]
    /\ OnlyPages

StartAgain(p) == page[p] = "session" /\ Disconnect(p)

Shown(p, answer) ==
    CASE page[p] = "away" -> "away"
      [] page[p] # "away" /\ answer.ok /\ answer.code = "step" -> Continued(answer.deploy)
      [] OTHER -> answer.code

(* The answer arrives: its cookies, and what the page shows then; the page of a request may be gone. *)
Deliver(p) ==
    /\ call[p].at = "answer"
    /\ jar' = [auth |-> Set(jar.auth, call[p].auth), deploy |-> Set(jar.deploy, call[p].deploy)]
    /\ page' = [page EXCEPT ![p] = Shown(p, call[p])]
    /\ call' = [call EXCEPT ![p] = Idle]
    /\ UNCHANGED <<opened, cloud, dead, late, tokens, started, faults>>

(* The answer is lost on its way, or dropped because its page is gone. *)
Lose(p) ==
    /\ call[p].at = "answer" /\ call[p].code \in {"step", "error", "home"}
    /\ page[p] # "away" => Room
    /\ call' = [call EXCEPT ![p] = Idle]
    /\ page' = [page EXCEPT ![p] = IF @ \in {"away", "home"} THEN @ ELSE "error"]
    /\ faults' = IF page[p] = "away" THEN faults ELSE faults + 1
    /\ UNCHANGED <<opened, cloud, jar, dead, late, tokens, started>>

(* The auth cookie expires: a dead token's in time, a live one's early (a fault). *)
Expire ==
    /\ jar.auth # None
    /\ jar.auth.id \in dead \/ Room
    /\ faults' = IF jar.auth.id \in dead THEN faults ELSE faults + 1
    /\ jar' = [jar EXCEPT !.auth = None]
    /\ dead' = IF jar.auth.kind = "oauth" THEN dead \cup {jar.auth.id} ELSE dead
    /\ UNCHANGED <<opened, cloud, page, call, late, tokens, started>>

-----------------------------------------------------------------------------
(* The step handler: runNextStep between the calls it awaits. *)

Running(p, step) == call[p].at = "step" /\ call[p].deploy.next = step
Authorised(p) == call[p].auth.id \notin dead /\ call[p].deploy.account \in call[p].auth.grant
Mine(p) == cloud[call[p].deploy.account]

Answers(p, d) == call' = [call EXCEPT ![p] = Answer(TRUE, "step", Advance(d), Keep)]
Goes(p, changes) == call' = [call EXCEPT ![p] = changes]
Quiet == UNCHANGED <<opened, jar, page, dead, tokens, started>>

(* A Cloudflare call that reads. *)
Reads(p) == Authorised(p) /\ UNCHANGED <<cloud, late, faults>> /\ Quiet

(* A Cloudflare call that writes, and is answered. *)
Writes(p, e) ==
    /\ Authorised(p) /\ Accepts(Mine(p), e)
    /\ cloud' = [cloud EXCEPT ![call[p].deploy.account] = Effected(@, e)]
    /\ UNCHANGED <<late, faults>> /\ Quiet

Access(p) == Running(p, "access") /\ Reads(p) /\ Answers(p, call[p].deploy)

(* ensureSubdomain: the account's own, else up to five candidates. *)
HasSubdomain(p) ==
    /\ Running(p, "prepare") /\ ~call[p].found /\ Reads(p)
    /\ IF Mine(p).subdomain # None
       THEN Answers(p, [call[p].deploy EXCEPT !.subdomain = Mine(p).subdomain])
       ELSE Goes(p, [call[p] EXCEPT !.found = TRUE])

CreateSubdomain(p, s) ==
    /\ Running(p, "prepare") /\ call[p].found
    /\ Writes(p, [op |-> "subdomain", name |-> s])
    /\ Answers(p, [call[p].deploy EXCEPT !.subdomain = s])

\* mutant: a taken candidate is kept as the subdomain
SubdomainTaken_Kept(p, s) ==
    /\ Running(p, "prepare") /\ call[p].found /\ Reads(p)
    /\ ~Accepts(Mine(p), [op |-> "subdomain", name |-> s])
    /\ Answers(p, [call[p].deploy EXCEPT !.subdomain = s])

SubdomainTaken(p, s) ==
    /\ Running(p, "prepare") /\ call[p].found /\ Reads(p)
    /\ ~Accepts(Mine(p), [op |-> "subdomain", name |-> s])
    /\ IF call[p].tries = 4 THEN Goes(p, Fails("error")) ELSE Goes(p, [call[p] EXCEPT !.tries = @ + 1])

(* The name step reads both lists at once. *)
ListWorkers(p) ==
    /\ Running(p, "name") /\ call[p].listed.workers = None /\ Reads(p)
    /\ Goes(p, [call[p] EXCEPT !.listed.workers = {n \in Names : Mine(p).scripts[n] # None}])

ListTitles(p) ==
    /\ Running(p, "name") /\ call[p].listed.titles = None /\ Reads(p)
    /\ Goes(p, [call[p] EXCEPT !.listed.titles = {n \in Names : Mine(p).spaces[n] # None}])

\* mutant: only the titles of namespaces are avoided
Existing_TitlesOnly(listed) == listed.titles
Existing(listed) == listed.workers \cup listed.titles

ChooseName(p) ==
    /\ Running(p, "name") /\ None \notin Range(call[p].listed)
    /\ \/ \E n \in Names \ Existing(call[p].listed) : Answers(p, [call[p].deploy EXCEPT !.worker = n])
       \/ Names = Existing(call[p].listed) /\ Goes(p, Fails("error"))
    /\ UNCHANGED <<cloud, late, faults>> /\ Quiet

\* mutant: the namespace is created without looking for it
Finds_Never(acct, n) == FALSE
Finds(acct, n) == acct.spaces[n] # None

(* The title of a deployment's namespace is the name of its worker. *)
Title(d) == d.worker

FindNamespace(p) ==
    /\ Running(p, "kv") /\ ~call[p].found /\ Reads(p)
    /\ IF Finds(Mine(p), Title(call[p].deploy))
       THEN Answers(p, [call[p].deploy EXCEPT !.space = Title(call[p].deploy)])
       ELSE Goes(p, [call[p] EXCEPT !.found = TRUE])

CreateNamespace(p) ==
    /\ Running(p, "kv") /\ call[p].found
    /\ Writes(p, [op |-> "space", name |-> Title(call[p].deploy)])
    /\ Answers(p, [call[p].deploy EXCEPT !.space = Title(call[p].deploy)])

Upload(p) ==
    /\ Running(p, "upload")
    /\ Writes(p, [op |-> "script", name |-> call[p].deploy.worker, space |-> call[p].deploy.space])
    /\ Answers(p, call[p].deploy)

Publish(p) ==
    /\ Running(p, "publish")
    /\ Writes(p, [op |-> "publish", name |-> call[p].deploy.worker])
    /\ Answers(p, [call[p].deploy EXCEPT !.url = <<call[p].deploy.worker, call[p].deploy.subdomain>>])

Enabled(acct, d) == acct.scripts[d.worker] # None /\ acct.scripts[d.worker].published

CheckPublished(p) ==
    /\ Running(p, "verify") /\ ~call[p].found /\ Reads(p)
    /\ Goes(p, IF Enabled(Mine(p), call[p].deploy) THEN [call[p] EXCEPT !.found = TRUE] ELSE Fails("error"))

(* The page of the new worker: another build, or (a fault) Cloudflare's      *)
(* placeholder for a name not yet served, is a mismatch; an unreachable page *)
(* is not.                                                                   *)
CheckPage(p) ==
    /\ Running(p, "verify") /\ call[p].found
    /\ \/ Mine(p).scripts[call[p].deploy.worker].by = "wizard" /\ Answers(p, call[p].deploy) /\ UNCHANGED faults
       \/ Mine(p).scripts[call[p].deploy.worker].by = "before" /\ Goes(p, Fails("error")) /\ UNCHANGED faults
       \/ Room /\ faults' = faults + 1 /\ Goes(p, Fails("error"))
    /\ UNCHANGED <<cloud, late>> /\ Quiet

(* The last step calls nothing but the revocation, whose failure is ignored. *)
Finish(p) ==
    /\ Running(p, "complete")
    /\ dead' \in Revoking(call[p].auth)
    /\ faults' = IF Unrevoked(call[p].auth) THEN faults + 1 ELSE faults
    /\ call' = [call EXCEPT ![p] = Answer(TRUE, "step", Advance(call[p].deploy), None)]
    /\ UNCHANGED <<opened, cloud, jar, page, late, tokens, started>>

(* A page posts a step of a deployment that is complete: it is returned as it is. *)
AlreadyComplete(p) ==
    /\ Running(p, "done")
    /\ dead' \in Revoking(call[p].auth)
    /\ faults' = IF Unrevoked(call[p].auth) THEN faults + 1 ELSE faults
    /\ call' = [call EXCEPT ![p] = Answer(TRUE, "step", call[p].deploy, None)]
    /\ UNCHANGED <<opened, cloud, jar, page, late, tokens, started>>

(* The write a step is waiting for. *)
Pending(p) ==
    LET d == call[p].deploy IN
    CASE d.next = "prepare" /\ call[p].found -> {[op |-> "subdomain", name |-> s] : s \in Subdomains}
      [] d.next = "kv" /\ call[p].found -> {[op |-> "space", name |-> Title(d)]}
      [] d.next = "upload" -> {[op |-> "script", name |-> d.worker, space |-> d.space]}
      [] d.next = "publish" -> {[op |-> "publish", name |-> d.worker]}
      [] OTHER -> {}

Calls(p) == call[p].at = "step" /\ call[p].deploy.next \notin {"complete", "done"} /\ (Running(p, "verify") => ~call[p].found)

(* Cloudflare answers with an error: the token is dead, or the call is refused. *)
Refused(p) ==
    /\ Calls(p)
    /\ \/ ~Authorised(p)
       \/ ~Running(p, "prepare") /\ \E e \in Pending(p) : ~Accepts(Mine(p), e)
    /\ Goes(p, Fails("error"))
    /\ UNCHANGED <<cloud, late, faults>> /\ Quiet

(* Cloudflare fails or takes too long; a write may still happen afterwards. *)
\* mutant: a failure starts the deployment over from its name
CloudflareFails_Restarts(p) ==
    /\ Calls(p) /\ Authorised(p) /\ Room
    /\ faults' = faults + 1
    /\ Goes(p, Answer(FALSE, "error", [call[p].deploy EXCEPT !.next = IF call[p].deploy.worker = None THEN @ ELSE "name"], Keep))
    /\ late' \in {late} \cup {late \cup {[account |-> call[p].deploy.account, effect |-> e]} : e \in Pending(p)}
    /\ UNCHANGED cloud /\ Quiet

CloudflareFails(p) ==
    /\ Calls(p) /\ Authorised(p) /\ Room
    /\ faults' = faults + 1
    /\ Goes(p, Fails("error"))
    /\ late' \in {late} \cup {late \cup {[account |-> call[p].deploy.account, effect |-> e]} : e \in Pending(p)}
    /\ UNCHANGED cloud /\ Quiet

LateEffect(l) ==
    /\ late' = late \ {l}
    /\ cloud' = IF Accepts(cloud[l.account], l.effect) THEN [cloud EXCEPT ![l.account] = Effected(@, l.effect)] ELSE cloud
    /\ UNCHANGED <<opened, jar, page, call, dead, tokens, started, faults>>

-----------------------------------------------------------------------------
Server(p) ==
    \/ Access(p) \/ HasSubdomain(p) \/ \E s \in Subdomains : CreateSubdomain(p, s) \/ SubdomainTaken(p, s)
    \/ ListWorkers(p) \/ ListTitles(p) \/ ChooseName(p) \/ FindNamespace(p) \/ CreateNamespace(p)
    \/ Upload(p) \/ Publish(p) \/ CheckPublished(p) \/ CheckPage(p) \/ Finish(p) \/ AlreadyComplete(p)
    \/ Refused(p) \/ CloudflareFails(p)

Reconnect(p) == page[p] = "expired" /\ \E grant \in Grants : Connect(p, "oauth", grant)

User(p) ==
    \/ Open(p) \/ Close(p) \/ Retry(p) \/ Disconnect(p)
    \/ \E kind \in Kinds, grant \in Grants : Connect(p, kind, grant)
    \/ \E a \in Accounts : SelectAccount(p, a)

Loads(p) == Start(p) \/ StartFails(p) \/ Refresh(p) \/ RefreshFails(p)

Next ==
    \/ \E p \in Pages : User(p) \/ Loads(p) \/ Post(p) \/ Deliver(p) \/ Lose(p) \/ Server(p)
    \/ Expire
    \/ \E l \in late : LateEffect(l)

(* Every request is answered and every answer arrives, a page in its loop    *)
(* posts, one that loads is answered or not, the cookie of a dead token      *)
(* expires.  Of the user only what the error page asks for is assumed:       *)
(* pressing Retry, Reconnect or Start again.  (At any time at most one of    *)
(* these is possible for a page.)  A free subdomain is drawn at last:        *)
(* candidates are random (names.js).                                         *)
Progress(p) == Loads(p) \/ Post(p) \/ Server(p) \/ Deliver(p) \/ Retry(p) \/ Reconnect(p) \/ StartAgain(p)

Fairness ==
    /\ \A p \in Pages : WF_vars(Progress(p))
    /\ SF_vars(\E p \in Pages, s \in Subdomains : CreateSubdomain(p, s))
    /\ WF_vars(jar.auth # None /\ jar.auth.id \in dead /\ Expire)

Spec == Init /\ [][Next]_vars /\ Fairness
=============================================================================
