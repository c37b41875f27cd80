-------------------------- MODULE DeploymentProofs --------------------------
(***************************************************************************)
(* Theorems about the deployment wizard, for any accounts, names, pages    *)
(* and tokens, and for any number of failures, lost answers and late       *)
(* effects: nothing an earlier deployment left is taken over, the address  *)
(* shown at the end is served, and retrying leaves no second namespace.    *)
(***************************************************************************)
EXTENDS MCDeployment, FiniteSetTheorems, TLAPS

Unnamed  == {"access", "prepare", "name"}
Named    == {"kv", "upload", "publish", "verify", "complete", "done"}
Steps    == Unnamed \cup Named

Account == [subdomain : Subdomains \cup {None}, scripts : [Names -> Script \cup {None}],
            spaces : [Names -> Makers \cup {None}]]

\* A worker of the wizard has the namespace that was made for it.
Bound(w) ==
    \A a \in Accounts, n \in Names :
      ByWizard(w[a].scripts[n]) => w[a].scripts[n].space = n /\ w[a].spaces[n] = "wizard"

\* A name that was free when it was chosen: what is there by now, the wizard made.
Free(w, a, n) == ~LeftBefore(w[a].scripts[n]) /\ w[a].spaces[n] # "before"

\* What a deployment has reached is there.
Sound(w, d) ==
    /\ d \in Deployments
    /\ d.next \notin {"access", "prepare"} =>
         d.subdomain = w[d.account].subdomain /\ d.subdomain # None
    /\ d.next \in Named => d.worker \in Names /\ Free(w, d.account, d.worker)
    /\ d.next \in Named \ {"kv"} => d.space = d.worker /\ w[d.account].spaces[d.worker] = "wizard"
    /\ d.next \in Named \ {"kv", "upload"} => w[d.account].scripts[d.worker] # None
    /\ d.next \in Named \ {"kv", "upload", "publish"} =>
         /\ w[d.account].scripts[d.worker].published
         /\ d.url = <<d.worker, d.subdomain>>

\* The lists of the name step hold whatever an earlier deployment left.
Lists(w, a, listed) ==
    /\ listed = [workers |-> listed.workers, titles |-> listed.titles]
    /\ listed.workers # None => \A n \in Names : LeftBefore(w[a].scripts[n]) => n \in listed.workers
    /\ listed.titles # None  => \A n \in Names : w[a].spaces[n] = "before" => n \in listed.titles

IsStep(c) ==
    c = [at |-> "step", auth |-> c.auth, deploy |-> c.deploy, tries |-> c.tries,
         listed |-> c.listed, found |-> c.found]

Asking(w, c) == IsStep(c) /\ Sound(w, c.deploy) /\ Lists(w, c.deploy.account, c.listed)

Answering(w, c) == c.at = "answer" /\ (c.deploy \in {None, Keep} \/ Sound(w, c.deploy))

Fine(w, c) == c = Idle \/ Asking(w, c) \/ Answering(w, c)

\* A write the wizard may ask for, and see happen at any later time.
Harmless(w, a, e) ==
    \/ e.op = "subdomain" /\ e.name \in Subdomains
    \/ e.op = "space" /\ e.name \in Names /\ w[a].spaces[e.name] # "before"
    \/ /\ e.op = "script" /\ e.name \in Names /\ e.space = e.name
       /\ w[a].spaces[e.name] = "wizard" /\ ~LeftBefore(w[a].scripts[e.name])
    \/ /\ e.op = "publish" /\ e.name \in Names
       /\ w[a].scripts[e.name] # None /\ ~LeftBefore(w[a].scripts[e.name])

Cookies == jar = [auth |-> jar.auth, deploy |-> jar.deploy] /\ (jar.deploy = None \/ Sound(cloud, jar.deploy))
Requests == call = [p \in Pages |-> call[p]] /\ \A p \in Pages : Fine(cloud, call[p])
Pendings == \A l \in late : l.account \in Accounts /\ Harmless(cloud, l.account, l.effect)

Inv == cloud \in [Accounts -> Account] /\ Bound(cloud) /\ Cookies /\ Requests /\ Pendings

-----------------------------------------------------------------------------
(* How an account changes: nothing is removed, and nothing of before touched. *)
Grows(old, new) ==
    /\ old.subdomain # None => new.subdomain = old.subdomain
    /\ \A n \in Names :
         /\ old.spaces[n] # None => new.spaces[n] = old.spaces[n]
         /\ new.spaces[n] = "before" => old.spaces[n] = "before"
         /\ LeftBefore(old.scripts[n]) => new.scripts[n] = old.scripts[n]
         /\ LeftBefore(new.scripts[n]) => LeftBefore(old.scripts[n])
         /\ old.scripts[n] # None => /\ new.scripts[n] # None
                                     /\ old.scripts[n].published => new.scripts[n].published

\* Nothing is not a name, a subdomain or a script.
LEMMA NoneFacts ==
    /\ None \notin Names /\ None \notin Subdomains /\ None \notin Script
    /\ None # "wizard" /\ None # "before"
BY DeploymentAssumption DEF Makers

\* An account that is left alone has grown.
LEMMA GrowsRefl == ASSUME NEW a PROVE Grows(a, a)
BY DEF Grows

\* What a deployment in a cookie consists of.
LEMMA DeploymentFacts ==
    ASSUME NEW d \in Deployments
    PROVE  /\ d.account \in Accounts /\ d.next \in Steps
           /\ d.subdomain \in Subdomains \cup {None} /\ d.worker \in Names \cup {None}
           /\ d.space \in Names \cup {None}
<1>1. Range(STEPS) = Steps
  <2>1. DOMAIN STEPS = 1..9
    BY DEF STEPS
  <2>2. \A i \in 1..9 : i = 1 \/ i = 2 \/ i = 3 \/ i = 4 \/ i = 5 \/ i = 6 \/ i = 7 \/ i = 8 \/ i = 9
    OBVIOUS
  <2>3. /\ STEPS[1] = "access" /\ STEPS[2] = "prepare" /\ STEPS[3] = "name" /\ STEPS[4] = "kv"
        /\ STEPS[5] = "upload" /\ STEPS[6] = "publish" /\ STEPS[7] = "verify"
        /\ STEPS[8] = "complete" /\ STEPS[9] = "done"
    BY DEF STEPS
  <2>4. Range(STEPS) = {STEPS[i] : i \in 1..9}
    BY <2>1 DEF Range
  <2> QED BY <2>2, <2>3, <2>4 DEF Steps, Unnamed, Named
<1> QED BY <1>1 DEF Deployments

\* What a deployment has reached stays reached.
LEMMA SoundStays ==
    ASSUME NEW w, NEW x, \A a \in Accounts : Grows(w[a], x[a]), NEW d, Sound(w, d)
    PROVE  Sound(x, d)
<1>1. d \in Deployments /\ d.account \in Accounts /\ d.next \in Steps
  BY DeploymentFacts DEF Sound
<1>2. Grows(w[d.account], x[d.account])
  BY <1>1
<1>3. d.next \notin {"access", "prepare"} => d.subdomain = x[d.account].subdomain /\ d.subdomain # None
  BY <1>2 DEF Sound, Grows
<1>4. d.next \in Named => d.worker \in Names /\ Free(x, d.account, d.worker)
  BY <1>2 DEF Sound, Grows, Free
<1>5. d.next \in Named \ {"kv"} => d.space = d.worker /\ x[d.account].spaces[d.worker] = "wizard"
  BY <1>2, NoneFacts DEF Sound, Grows
<1>6. d.next \in Named \ {"kv", "upload"} => x[d.account].scripts[d.worker] # None
  BY <1>2, <1>4 DEF Sound, Grows
<1>7. d.next \in Named \ {"kv", "upload", "publish"} =>
        x[d.account].scripts[d.worker].published /\ d.url = <<d.worker, d.subdomain>>
  BY <1>2, <1>4 DEF Sound, Grows
<1> QED BY <1>1, <1>3, <1>4, <1>5, <1>6, <1>7 DEF Sound

\* A call that is fine stays so while accounts grow.
LEMMA FineStays ==
    ASSUME NEW w, NEW x, \A a \in Accounts : Grows(w[a], x[a]), NEW c, Fine(w, c)
    PROVE  Fine(x, c)
<1>1. CASE c = Idle
  BY <1>1 DEF Fine
<1>2. CASE Asking(w, c)
  <2>1. IsStep(c) /\ Sound(x, c.deploy) /\ c.deploy.account \in Accounts
    BY <1>2, SoundStays, DeploymentFacts DEF Asking, Sound
  <2>2. Lists(x, c.deploy.account, c.listed)
    BY <1>2, <2>1 DEF Asking, Lists, Grows
  <2> QED BY <2>1, <2>2 DEF Fine, Asking
<1>3. CASE Answering(w, c)
  BY <1>3, SoundStays DEF Fine, Answering
<1> QED BY <1>1, <1>2, <1>3 DEF Fine

\* A late effect that is harmless stays so while its account grows.
LEMMA HarmlessStays ==
    ASSUME NEW w, NEW x, NEW a, Grows(w[a], x[a]), NEW e, Harmless(w, a, e)
    PROVE  Harmless(x, a, e)
BY NoneFacts DEF Harmless, Grows

-----------------------------------------------------------------------------
(* What a write does to an account. *)
LEMMA EffectFacts ==
    ASSUME NEW w \in [Accounts -> Account], Bound(w), NEW a \in Accounts, NEW e, Harmless(w, a, e),
           Accepts(w[a], e)
    PROVE  /\ Effected(w[a], e) \in Account /\ Grows(w[a], Effected(w[a], e))
           /\ Bound([w EXCEPT ![a] = Effected(w[a], e)])
<1> DEFINE old == w[a]
           new == Effected(w[a], e)
<1>1. old \in Account
  OBVIOUS
<1>2. old = [subdomain |-> old.subdomain, scripts |-> old.scripts, spaces |-> old.spaces]
      /\ old.scripts \in [Names -> Script \cup {None}] /\ old.spaces \in [Names -> Makers \cup {None}]
      /\ old.subdomain \in Subdomains \cup {None}
  BY <1>1 DEF Account
<1>3. \A n \in Names : ByWizard(old.scripts[n]) => old.scripts[n].space = n /\ old.spaces[n] = "wizard"
  BY DEF Bound
<1> SUFFICES /\ new \in Account /\ Grows(old, new)
             /\ \A n \in Names : ByWizard(new.scripts[n]) => new.scripts[n].space = n /\ new.spaces[n] = "wizard"
  BY DEF Bound
<1>4. CASE e.op = "subdomain" /\ e.name \in Subdomains
  <2>1. new = [subdomain |-> e.name, scripts |-> old.scripts, spaces |-> old.spaces] /\ old.subdomain = None
    BY <1>2, <1>4 DEF Effected, Accepts
  <2> QED BY <1>2, <1>3, <1>4, <2>1 DEF Account, Grows
<1>5. CASE e.op = "space" /\ e.name \in Names /\ old.spaces[e.name] # "before"
  <2>1. new = [subdomain |-> old.subdomain, scripts |-> old.scripts,
               spaces |-> [old.spaces EXCEPT ![e.name] = "wizard"]] /\ old.spaces[e.name] = None
    BY <1>2, <1>5 DEF Effected, Accepts
  <2>2. new.spaces \in [Names -> Makers \cup {None}]
    <3>1. "wizard" \in Makers \cup {None}
      BY DEF Makers
    <3>2. new.spaces = [old.spaces EXCEPT ![e.name] = "wizard"]
      BY <2>1
    <3> QED BY <1>2, <3>1, <3>2
  <2>3. new \in Account
    BY <1>2, <2>1, <2>2 DEF Account
  <2> QED BY <1>2, <1>3, <1>5, <2>1, <2>3, NoneFacts DEF Grows
<1>6. CASE /\ e.op = "script" /\ e.name \in Names /\ e.space = e.name
           /\ old.spaces[e.name] = "wizard" /\ ~LeftBefore(old.scripts[e.name])
  <2> DEFINE s == [space |-> e.space, by |-> "wizard",
                   published |-> old.scripts[e.name] # None /\ old.scripts[e.name].published]
  <2>1. new = [subdomain |-> old.subdomain, scripts |-> [old.scripts EXCEPT ![e.name] = s],
               spaces |-> old.spaces]
    BY <1>2, <1>6 DEF Effected
  <2>2. old.scripts[e.name] # None => old.scripts[e.name].published \in BOOLEAN
    BY <1>2, <1>6 DEF Script
  <2>3. s \in Script /\ s.space = e.name /\ s # None /\ ~LeftBefore(s)
        /\ (old.scripts[e.name] # None /\ old.scripts[e.name].published => s.published)
    <3>1. s.published \in BOOLEAN
      BY <2>2
    <3>2. s \in Script /\ s.space = e.name /\ s.by # "before"
      BY <1>6, <3>1 DEF Script, Makers
    <3>3. s # None
      BY <3>2, NoneFacts
    <3>4. s.published = (old.scripts[e.name] # None /\ old.scripts[e.name].published)
      OBVIOUS
    <3> HIDE DEF s
    <3> QED BY <3>2, <3>3, <3>4 DEF LeftBefore
  <2> HIDE DEF s
  <2>4. /\ new.scripts \in [Names -> Script \cup {None}] /\ new.scripts[e.name] = s
        /\ \A n \in Names \ {e.name} : new.scripts[n] = old.scripts[n]
    BY <1>2, <1>6, <2>1, <2>3
  <2>5. new \in Account
    BY <1>2, <2>1, <2>4 DEF Account
  <2>6. Grows(old, new)
    BY <1>6, <2>1, <2>3, <2>4 DEF Grows
  <2> QED BY <1>3, <1>6, <2>1, <2>3, <2>4, <2>5, <2>6
<1>7. CASE /\ e.op = "publish" /\ e.name \in Names
           /\ old.scripts[e.name] # None /\ ~LeftBefore(old.scripts[e.name])
  <2> DEFINE s == [old.scripts[e.name] EXCEPT !.published = TRUE]
  <2>1. new = [subdomain |-> old.subdomain, scripts |-> [old.scripts EXCEPT ![e.name] = s],
               spaces |-> old.spaces]
    BY <1>2, <1>7 DEF Effected
  <2>2. old.scripts[e.name] \in Script
    BY <1>2, <1>7
  <2>3. s \in Script /\ s.space = old.scripts[e.name].space /\ s.by = old.scripts[e.name].by /\ s.published
    BY <2>2 DEF Script
  <2>4. s # None /\ ~LeftBefore(s) /\ ByWizard(old.scripts[e.name])
    BY <1>7, <2>2, <2>3, NoneFacts DEF LeftBefore, ByWizard, Script, Makers
  <2> HIDE DEF s
  <2>5. /\ new.scripts \in [Names -> Script \cup {None}] /\ new.scripts[e.name] = s
        /\ \A n \in Names \ {e.name} : new.scripts[n] = old.scripts[n]
    BY <1>2, <1>7, <2>1, <2>3
  <2>6. new \in Account
    BY <1>2, <2>1, <2>5 DEF Account
  <2>7. Grows(old, new)
    BY <1>7, <2>1, <2>3, <2>4, <2>5 DEF Grows
  <2> QED BY <1>3, <1>7, <2>1, <2>3, <2>4, <2>5, <2>6, <2>7
<1> QED BY <1>4, <1>5, <1>6, <1>7 DEF Harmless

-----------------------------------------------------------------------------
(* The steps of a deployment. *)
LEMMA Advanced ==
    ASSUME NEW d \in Deployments, d.next # "done"
    PROVE  /\ Advance(d) \in Deployments
           /\ Advance(d) = [account |-> d.account, next |-> Advance(d).next, subdomain |-> d.subdomain,
                            worker |-> d.worker, space |-> d.space, url |-> d.url]
           /\ d.next = "access"  => Advance(d).next = "prepare"
           /\ d.next = "prepare" => Advance(d).next = "name"
           /\ d.next = "name"    => Advance(d).next = "kv"
           /\ d.next = "kv"      => Advance(d).next = "upload"
           /\ d.next = "upload"  => Advance(d).next = "publish"
           /\ d.next = "publish" => Advance(d).next = "verify"
           /\ d.next = "verify"  => Advance(d).next = "complete"
           /\ d.next = "complete" => Advance(d).next = "done"
<1>1. DOMAIN STEPS = 1..9 /\ Len(STEPS) - 1 = 8
  BY DEF STEPS
<1>2. /\ STEPS[1] = "access" /\ STEPS[2] = "prepare" /\ STEPS[3] = "name" /\ STEPS[4] = "kv"
      /\ STEPS[5] = "upload" /\ STEPS[6] = "publish" /\ STEPS[7] = "verify"
      /\ STEPS[8] = "complete" /\ STEPS[9] = "done"
  BY DEF STEPS
<1> HIDE DEF STEPS
<1> DEFINE at == CHOOSE i \in 1..8 : STEPS[i] = d.next
<1>3. PICK k \in 1..8 : STEPS[k] = d.next
  BY <1>2, DeploymentFacts DEF Steps, Unnamed, Named
<1>4. at \in 1..8 /\ STEPS[at] = d.next
  BY <1>3
<1>5. \A i \in 1..8 : i = 1 \/ i = 2 \/ i = 3 \/ i = 4 \/ i = 5 \/ i = 6 \/ i = 7 \/ i = 8
  OBVIOUS
<1>6. Advance(d) = [d EXCEPT !.next = STEPS[1 + at]]
  BY <1>1 DEF Advance
<1> HIDE DEF at
<1>7. STEPS[1 + at] \in Range(STEPS)
  BY <1>1, <1>4 DEF Range
<1>8. /\ Advance(d) \in Deployments /\ Advance(d).next = STEPS[1 + at]
      /\ Advance(d) = [account |-> d.account, next |-> Advance(d).next, subdomain |-> d.subdomain,
                       worker |-> d.worker, space |-> d.space, url |-> d.url]
  BY <1>6, <1>7 DEF Deployments
<1> QED BY <1>2, <1>4, <1>5, <1>8

-----------------------------------------------------------------------------
(* The parts of a step. *)
\* An account that changes grows, and what is there afterwards is sound.
LEMMA Frame ==
    ASSUME Inv, cloud' \in [Accounts -> Account], Bound(cloud'),
           \A a \in Accounts : Grows(cloud[a], cloud'[a]),
           jar' = [auth |-> jar'.auth, deploy |-> jar'.deploy],
           jar'.deploy \in {jar.deploy, None} \/ Sound(cloud', jar'.deploy),
           call' = [p \in Pages |-> call'[p]],
           \A p \in Pages : call'[p] = call[p] \/ Fine(cloud', call'[p]),
           \A l \in late' : l \in late \/ (l.account \in Accounts /\ Harmless(cloud', l.account, l.effect))
    PROVE  Inv'
<1>1. Cookies'
  BY SoundStays DEF Inv, Cookies
<1>2. Requests'
  BY FineStays DEF Inv, Requests
<1>3. Pendings'
  BY HarmlessStays DEF Inv, Pendings
<1> QED BY <1>1, <1>2, <1>3 DEF Inv

\* A request moves on, and nothing else does.
LEMMA RequestMoves ==
    ASSUME Inv, NEW p \in Pages, NEW c, call' = [call EXCEPT ![p] = c], Fine(cloud, c),
           UNCHANGED <<cloud, jar, late>>
    PROVE  Inv'
<1>1. cloud \in [Accounts -> Account] /\ Bound(cloud) /\ \A a \in Accounts : Grows(cloud[a], cloud[a])
  BY GrowsRefl DEF Inv
<1>2. jar = [auth |-> jar.auth, deploy |-> jar.deploy]
  BY DEF Inv, Cookies
<1>3. /\ call' = [q \in Pages |-> call'[q]]
      /\ \A q \in Pages : call'[q] = call[q] \/ Fine(cloud, call'[q])
  BY DEF Inv, Requests
<1> QED BY <1>1, <1>2, <1>3, Frame

\* An answer with a sound deployment is fine.
LEMMA AnswersAreFine ==
    ASSUME NEW w, NEW ok, NEW code, NEW d, NEW auth, d \in {None, Keep} \/ Sound(w, d)
    PROVE  Fine(w, Answer(ok, code, d, auth))
BY DEF Fine, Answering, Answer

\* So is one that only reports a failure.
LEMMA FailsAreFine ==
    ASSUME NEW w, NEW code
    PROVE  Fine(w, Fails(code))
BY AnswersAreFine DEF Fails

\* A call on a step has a sound deployment in an account there is.
LEMMA AskingFacts ==
    ASSUME Inv, NEW p \in Pages, call[p].at = "step"
    PROVE  /\ Asking(cloud, call[p]) /\ Sound(cloud, call[p].deploy)
           /\ call[p].deploy \in Deployments /\ call[p].deploy.account \in Accounts
           /\ Mine(p) = cloud[call[p].deploy.account] /\ Mine(p) \in Account
<1>1. Asking(cloud, call[p])
  BY DEF Inv, Requests, Fine, Idle, Answering
<1>2. Sound(cloud, call[p].deploy) /\ call[p].deploy \in Deployments
  BY <1>1 DEF Asking, Sound
<1>3. call[p].deploy.account \in Accounts
  BY <1>2, DeploymentFacts
<1> QED BY <1>1, <1>2, <1>3 DEF Inv, Mine

\* What an answer puts in the cookie is sound.
LEMMA AnswerFacts ==
    ASSUME Inv, NEW p \in Pages, call[p].at = "answer"
    PROVE  call[p].deploy \in {None, Keep} \/ Sound(cloud, call[p].deploy)
BY DEF Inv, Requests, Fine, Idle, Asking, IsStep, Answering

\* Noting whether a worker was found changes nothing of the deployment.
LEMMA FoundFacts ==
    ASSUME NEW c, IsStep(c), NEW b
    PROVE  /\ [c EXCEPT !.found = b].deploy = c.deploy
           /\ [c EXCEPT !.found = b].listed = c.listed
           /\ IsStep([c EXCEPT !.found = b])
BY DEF IsStep

\* A deployment that has reached nothing is sound.
LEMMA FreshFacts ==
    ASSUME NEW w, NEW a \in Accounts
    PROVE  Sound(w, Fresh(a))
<1>1. "access" \in Range(STEPS)
  <2>1. 1 \in DOMAIN STEPS /\ STEPS[1] = "access"
    BY DEF STEPS
  <2> QED BY <2>1 DEF Range
<1> QED BY <1>1 DEF Sound, Fresh, Deployments, Named

\* At first the accounts hold what earlier deployments left, and nothing of the wizard.
LEMMA InitUnwritten ==
    ASSUME Init, NEW a \in Accounts
    PROVE  cloud[a] \in Account /\ \A n \in Names : ~ByWizard(cloud[a].scripts[n]) /\ cloud[a].spaces[n] # "wizard"
<1>1. cloud[a] \in LeftIn
  BY DEF Init
<1> DEFINE Left == {f \in [Names -> UNION {Leftover(n) : n \in Names}] :
                      \A n \in Names : f[n] \in Leftover(n)}
           In(s, l) == [subdomain |-> s, scripts |-> [n \in Names |-> l[n][1]],
                        spaces |-> [n \in Names |-> l[n][2]]]
<1>2. PICK s \in Owned, l \in Left : cloud[a] = In(s, l)
  <2>1. LeftIn = {In(s, l) : s \in Owned, l \in Left}
    BY DEF LeftIn
  <2> HIDE DEF Left, In
  <2> QED BY <1>1, <2>1
<1>3. ASSUME NEW n \in Names
      PROVE  /\ l[n][1] \in Script \cup {None} /\ l[n][2] \in Makers \cup {None}
             /\ ~ByWizard(l[n][1]) /\ l[n][2] # "wizard"
  <2> DEFINE left == [space |-> n, published |-> TRUE, by |-> "before"]
  <2>1. l[n] = <<None, None>> \/ l[n] = <<None, "before">> \/ (\E x \in {None, "before"} : l[n] = <<left, x>>)
    BY <1>2 DEF Leftover
  <2>2. left \in Script /\ ~ByWizard(left) /\ ~ByWizard(None) /\ "before" \in Makers
    BY DEF Script, Makers, ByWizard
  <2> HIDE DEF left
  <2> QED BY <2>1, <2>2, NoneFacts
<1>4. s \in Subdomains \cup {None}
  BY DeploymentAssumption
<1> QED BY <1>2, <1>3, <1>4 DEF Account

\* A wizard that has just been opened is as it should be.
LEMMA InitInv == Init => Inv
<1> SUFFICES ASSUME Init PROVE Inv
  OBVIOUS
<1>1. \A a \in Accounts : cloud[a] \in Account /\ \A n \in Names : ~ByWizard(cloud[a].scripts[n])
  BY InitUnwritten
<1>2. cloud \in [Accounts -> Account] /\ Bound(cloud)
  BY <1>1 DEF Init, Bound
<1>3. Cookies /\ Requests /\ Pendings
  BY DEF Init, Cookies, Requests, Pendings, Fine
<1> QED BY <1>2, <1>3 DEF Inv

-----------------------------------------------------------------------------
(* Each step keeps the invariant. *)
\* A grant is resumed, deployed to anew, or left to be chosen from.
LEMMA StepConnect ==
    ASSUME Inv, NEW p \in Pages, NEW kind \in Kinds, NEW grant \in Grants, Connect(p, kind, grant)
    PROVE  Inv'
<1> DEFINE anew   == ~Resumes(grant) /\ Cardinality(grant) = 1
           deploy == CASE Resumes(grant) -> jar.deploy
                       [] anew -> Fresh(CHOOSE a \in grant : TRUE)
                       [] OTHER -> IF kind = "oauth" THEN None ELSE Keep
           token  == [id |-> tokens + 1, kind |-> kind, grant |-> grant]
           code   == CASE kind = "oauth" -> "starting"
                       [] kind # "oauth" /\ (Resumes(grant) \/ anew) -> "verifying"
                       [] OTHER -> "accounts"
<1>1. call' = [call EXCEPT ![p] = Answer(TRUE, code, deploy, token)] /\ UNCHANGED <<cloud, jar, late>>
  BY DEF Connect
<1>2. deploy \in {None, Keep} \/ Sound(cloud, deploy)
  <2>1. CASE Resumes(grant)
    <3>1. deploy = jar.deploy
      BY <2>1
    <3> QED BY <3>1 DEF Inv, Cookies
  <2>2. CASE anew
    <3>1. IsFiniteSet(grant) /\ grant \cap Accounts # {}
      BY DeploymentAssumption
    <3>2. PICK x : grant = {x}
      BY <2>2, <3>1, FS_Singleton
    <3>3. (CHOOSE a \in grant : TRUE) \in Accounts
      BY <3>1, <3>2
    <3>4. deploy = Fresh(CHOOSE a \in grant : TRUE)
      BY <2>2
    <3> QED BY <3>3, <3>4, FreshFacts
  <2>3. CASE ~Resumes(grant) /\ ~anew
    <3>1. deploy \in {None, Keep}
      BY <2>3
    <3> QED BY <3>1
  <2> QED BY <2>1, <2>2, <2>3
<1> HIDE DEF deploy, token, code
<1> QED BY <1>1, <1>2, AnswersAreFine, RequestMoves

\* What the browser does, and the loss of a call or a cookie, keep the invariant.
LEMMA StepUser ==
    ASSUME Inv, NEW p \in Pages,
           User(p) \/ Loads(p) \/ Post(p) \/ Deliver(p) \/ Lose(p) \/ Expire
    PROVE  Inv'
<1>0. /\ cloud \in [Accounts -> Account] /\ Bound(cloud)
      /\ \A a \in Accounts : Grows(cloud[a], cloud[a])
      /\ jar = [auth |-> jar.auth, deploy |-> jar.deploy]
      /\ call = [q \in Pages |-> call[q]]
  BY GrowsRefl DEF Inv, Cookies, Requests
<1>1. CASE \E kind \in Kinds, grant \in Grants : Connect(p, kind, grant)
  BY <1>1, StepConnect
<1>2. CASE \E a \in Accounts : SelectAccount(p, a)
  <2>1. PICK a \in Accounts : SelectAccount(p, a)
    BY <1>2
  <2>2. \/ call' = [call EXCEPT ![p] = Answer(TRUE, "selecting", Fresh(a), Keep)]
        \/ call' = [call EXCEPT ![p] = Fails("accounts")]
    BY <2>1 DEF SelectAccount
  <2>3. UNCHANGED <<cloud, jar, late>>
    BY <2>1 DEF SelectAccount
  <2>4. Fine(cloud, Answer(TRUE, "selecting", Fresh(a), Keep))
    BY FreshFacts, AnswersAreFine
  <2>5. Fine(cloud, Fails("accounts"))
    BY FailsAreFine
  <2> QED BY <2>2, <2>3, <2>4, <2>5, RequestMoves
<1>3. CASE Disconnect(p)
  <2>1. call' = [call EXCEPT ![p] = Answer(TRUE, "home", None, None)] /\ UNCHANGED <<cloud, jar, late>>
    BY <1>3 DEF Disconnect
  <2> QED BY <2>1, AnswersAreFine, RequestMoves
<1>4. CASE Post(p)
  <2> DEFINE c == [at |-> "step", auth |-> jar.auth, deploy |-> jar.deploy, tries |-> 0,
                   listed |-> [workers |-> None, titles |-> None], found |-> FALSE]
  <2>1. UNCHANGED <<cloud, jar, late>>
    BY <1>4 DEF Post
  <2>2. CASE jar.auth = None
    <3>1. call' = [call EXCEPT ![p] = Fails("expired")]
      BY <1>4, <2>2 DEF Post
    <3> QED BY <2>1, <3>1, FailsAreFine, RequestMoves
  <2>3. CASE jar.auth # None /\ jar.deploy = None
    <3>1. call' = [call EXCEPT ![p] = Fails("session")]
      BY <1>4, <2>3 DEF Post
    <3> QED BY <2>1, <3>1, FailsAreFine, RequestMoves
  <2>4. CASE jar.auth # None /\ jar.deploy # None
    <3>1. call' = [call EXCEPT ![p] = c]
      BY <1>4, <2>4 DEF Post
    <3>2. Sound(cloud, jar.deploy)
      BY <2>4 DEF Inv, Cookies
    <3>3. Asking(cloud, c)
      BY <3>2 DEF Asking, IsStep, Lists
    <3> HIDE DEF c
    <3> QED BY <2>1, <3>1, <3>3, RequestMoves DEF Fine
  <2> QED BY <2>2, <2>3, <2>4
<1>5. CASE Deliver(p)
  <2>1. /\ call[p].at = "answer" /\ UNCHANGED <<cloud, late>>
        /\ jar' = [auth |-> Set(jar.auth, call[p].auth), deploy |-> Set(jar.deploy, call[p].deploy)]
        /\ call' = [call EXCEPT ![p] = Idle]
    BY <1>5 DEF Deliver
  <2>2. jar'.deploy \in {jar.deploy, None} \/ Sound(cloud, jar'.deploy)
    BY <2>1, AnswerFacts DEF Set
  <2>3. call' = [q \in Pages |-> call'[q]] /\ \A q \in Pages : call'[q] = call[q] \/ Fine(cloud, call'[q])
    BY <1>0, <2>1 DEF Fine
  <2> QED BY <1>0, <2>1, <2>2, <2>3, Frame
<1>6. CASE Lose(p)
  <2>1. call' = [call EXCEPT ![p] = Idle] /\ UNCHANGED <<cloud, jar, late>>
    BY <1>6 DEF Lose
  <2> QED BY <2>1, RequestMoves DEF Fine
<1>7. CASE Expire
  <2>1. jar' = [jar EXCEPT !.auth = None] /\ UNCHANGED <<cloud, call, late>>
    BY <1>7 DEF Expire
  <2>2. jar' = [auth |-> jar'.auth, deploy |-> jar'.deploy] /\ jar'.deploy = jar.deploy
    BY <1>0, <2>1
  <2> QED BY <1>0, <2>1, <2>2, Frame
<1>8. CASE Open(p) \/ Close(p) \/ Retry(p) \/ Loads(p)
  <2>1. UNCHANGED <<cloud, jar, call, late>>
    BY <1>8 DEF Open, Close, Retry, Loads, Start, StartFails, Refresh, RefreshFails, OnlyPages
  <2> QED BY <1>0, <2>1, Frame
<1> QED BY <1>1, <1>2, <1>3, <1>4, <1>5, <1>6, <1>7, <1>8 DEF User

\* A step that only reads: what it answers is there.
LEMMA StepReads ==
    ASSUME Inv, NEW p \in Pages,
           \/ Access(p) \/ HasSubdomain(p) \/ (\E s \in Subdomains : SubdomainTaken(p, s))
           \/ ListWorkers(p) \/ ListTitles(p) \/ ChooseName(p) \/ FindNamespace(p)
           \/ CheckPublished(p) \/ CheckPage(p) \/ Finish(p) \/ AlreadyComplete(p) \/ Refused(p)
    PROVE  Inv'
<1> DEFINE c == call[p]
           d == call[p].deploy
<1>1. c.at = "step" /\ UNCHANGED <<cloud, jar, late>>
  BY DEF Access, HasSubdomain, SubdomainTaken, ListWorkers, ListTitles, ChooseName, FindNamespace,
         CheckPublished, CheckPage, Finish, AlreadyComplete, Refused, Calls, Running, Reads, Quiet
<1>2. /\ IsStep(c) /\ Sound(cloud, d) /\ Lists(cloud, d.account, c.listed)
      /\ d \in Deployments /\ d.account \in Accounts /\ Mine(p) = cloud[d.account] /\ Mine(p) \in Account
  BY <1>1, AskingFacts DEF Asking
<1>3. d = [account |-> d.account, next |-> d.next, subdomain |-> d.subdomain,
           worker |-> d.worker, space |-> d.space, url |-> d.url]
  BY <1>2 DEF Deployments
\* An answer that advances.
<1>4. ASSUME NEW e \in Deployments, e.next # "done", Sound(cloud, Advance(e)), Answers(p, e)
      PROVE  Inv'
  BY <1>1, <1>4, AnswersAreFine, RequestMoves DEF Answers
\* A request that asks on, with what it has learnt.
<1>5. ASSUME NEW n, n.deploy = d, IsStep(n), Lists(cloud, d.account, n.listed), Goes(p, n)
      PROVE  Inv'
  BY <1>1, <1>2, <1>5, RequestMoves DEF Goes, Fine, Asking
<1>6. ASSUME NEW code, Goes(p, Fails(code)) PROVE Inv'
  BY <1>1, <1>6, FailsAreFine, RequestMoves DEF Goes
<1>7. CASE Access(p)
  <2>1. d.next = "access" /\ Answers(p, d)
    BY <1>7 DEF Access, Running
  <2>2. Sound(cloud, Advance(d))
    BY <1>2, <2>1, Advanced DEF Sound, Named
  <2> QED BY <1>2, <1>4, <2>1, <2>2
<1>8. CASE HasSubdomain(p)
  <2>1. d.next = "prepare"
    BY <1>8 DEF HasSubdomain, Running
  <2>2. CASE Mine(p).subdomain # None
    <3> DEFINE e == [d EXCEPT !.subdomain = Mine(p).subdomain]
    <3>1. Answers(p, e)
      BY <1>8, <2>2 DEF HasSubdomain
    <3>2. e \in Deployments /\ e.next = "prepare" /\ e.account = d.account
          /\ e.subdomain = Mine(p).subdomain
      BY <1>2, <2>1 DEF Deployments, Account
    <3> HIDE DEF e
    <3>3. Sound(cloud, Advance(e))
      BY <1>2, <2>2, <3>2, Advanced DEF Sound, Named
    <3> QED BY <1>4, <3>1, <3>2, <3>3
  <2>3. CASE Mine(p).subdomain = None
    <3>1. Goes(p, [c EXCEPT !.found = TRUE])
      BY <1>8, <2>3 DEF HasSubdomain
    <3> DEFINE n == [c EXCEPT !.found = TRUE]
    <3>2. n.deploy = d /\ n.listed = c.listed /\ IsStep(n)
      BY <1>2, FoundFacts
    <3> HIDE DEF n
    <3> QED BY <1>2, <1>5, <3>1, <3>2 DEF n
  <2> QED BY <2>2, <2>3
<1>9. CASE \E s \in Subdomains : SubdomainTaken(p, s)
  <2> DEFINE n == [c EXCEPT !.tries = @ + 1]
  <2>1. Goes(p, Fails("error")) \/ Goes(p, n)
    BY <1>9 DEF SubdomainTaken
  <2>2. n.deploy = d /\ n.listed = c.listed /\ IsStep(n)
    BY <1>2 DEF IsStep
  <2> HIDE DEF n
  <2> QED BY <1>2, <1>5, <1>6, <2>1, <2>2
<1>10. CASE ListWorkers(p)
  <2> DEFINE l == {n \in Names : Mine(p).scripts[n] # None}
             n == [c EXCEPT !.listed.workers = l]
  <2>1. Goes(p, n)
    BY <1>10 DEF ListWorkers
  <2>2. \A m \in Names : LeftBefore(cloud[d.account].scripts[m]) => m \in l
    BY <1>2 DEF LeftBefore
  <2> HIDE DEF l
  <2>3. c.listed = [workers |-> c.listed.workers, titles |-> c.listed.titles]
    BY <1>2 DEF Lists
  <2>4. n.deploy = d /\ n.listed = [workers |-> l, titles |-> c.listed.titles] /\ IsStep(n)
    BY <1>2, <2>3 DEF IsStep
  <2> HIDE DEF n
  <2>5. Lists(cloud, d.account, n.listed)
    BY <1>2, <2>2, <2>4 DEF Lists
  <2> QED BY <1>5, <2>1, <2>4, <2>5
<1>11. CASE ListTitles(p)
  <2> DEFINE l == {n \in Names : Mine(p).spaces[n] # None}
             n == [c EXCEPT !.listed.titles = l]
  <2>1. Goes(p, n)
    BY <1>11 DEF ListTitles
  <2>2. \A m \in Names : cloud[d.account].spaces[m] = "before" => m \in l
    BY <1>2, NoneFacts
  <2> HIDE DEF l
  <2>3. c.listed = [workers |-> c.listed.workers, titles |-> c.listed.titles]
    BY <1>2 DEF Lists
  <2>4. n.deploy = d /\ n.listed = [workers |-> c.listed.workers, titles |-> l] /\ IsStep(n)
    BY <1>2, <2>3 DEF IsStep
  <2> HIDE DEF n
  <2>5. Lists(cloud, d.account, n.listed)
    BY <1>2, <2>2, <2>4 DEF Lists
  <2> QED BY <1>5, <2>1, <2>4, <2>5
<1>12. CASE ChooseName(p)
  <2>1. d.next = "name" /\ None \notin Range(c.listed)
    BY <1>12 DEF ChooseName, Running
  <2>2. c.listed.workers # None /\ c.listed.titles # None
    <3>1. DOMAIN c.listed = {"workers", "titles"}
      BY <1>2 DEF Lists
    <3> QED BY <2>1, <3>1 DEF Range
  <2>3. CASE Goes(p, Fails("error"))
    BY <1>6, <2>3
  <2>4. ASSUME NEW n \in Names \ Existing(c.listed), Answers(p, [d EXCEPT !.worker = n]) PROVE Inv'
    <3> DEFINE e == [d EXCEPT !.worker = n]
    <3>1. Free(cloud, d.account, n)
      BY <1>2, <2>2, <2>4 DEF Existing, Lists, Free
    <3>2. e \in Deployments /\ e.next = "name" /\ e.account = d.account
          /\ e.worker = n /\ e.subdomain = d.subdomain
      BY <1>2, <2>1 DEF Deployments
    <3> HIDE DEF e
    <3>3. Advance(e).next = "kv" /\ Advance(e) \in Deployments /\ Advance(e).account = d.account
          /\ Advance(e).worker = n /\ Advance(e).subdomain = d.subdomain
      BY <3>2, Advanced
    <3>4. Sound(cloud, Advance(e))
      BY <1>2, <2>1, <3>1, <3>3 DEF Sound, Named
    <3> QED BY <1>4, <2>4, <3>2, <3>4 DEF e
  <2> QED BY <1>12, <2>3, <2>4 DEF ChooseName
<1>13. CASE FindNamespace(p)
  <2>1. d.next = "kv"
    BY <1>13 DEF FindNamespace, Running
  <2>2. d.worker \in Names /\ Free(cloud, d.account, d.worker) /\ Title(d) = d.worker
    BY <1>2, <2>1 DEF Sound, Named, Title
  <2>3. CASE Finds(Mine(p), Title(d))
    <3> DEFINE e == [d EXCEPT !.space = d.worker]
    <3>1. Answers(p, e)
      BY <1>13, <2>2, <2>3 DEF FindNamespace
    <3>2. cloud[d.account].spaces[d.worker] = "wizard"
      <4>1. cloud[d.account].spaces[d.worker] \in Makers
        BY <1>2, <2>2, <2>3 DEF Finds, Account
      <4> QED BY <2>2, <4>1 DEF Makers, Free
    <3>3. e \in Deployments /\ e.next = "kv" /\ e.account = d.account
          /\ e.worker = d.worker /\ e.subdomain = d.subdomain /\ e.space = d.worker
      BY <1>2, <2>1, <2>2 DEF Deployments
    <3> HIDE DEF e
    <3>4. Advance(e).next = "upload" /\ Advance(e) \in Deployments /\ Advance(e).account = d.account
          /\ Advance(e).worker = d.worker /\ Advance(e).subdomain = d.subdomain /\ Advance(e).space = d.worker
      BY <3>3, Advanced
    <3>5. Sound(cloud, Advance(e))
      BY <1>2, <2>1, <2>2, <3>2, <3>4 DEF Sound, Named
    <3> QED BY <1>4, <3>1, <3>3, <3>5
  <2>4. CASE ~Finds(Mine(p), Title(d))
    <3> DEFINE n == [c EXCEPT !.found = TRUE]
    <3>1. Goes(p, n)
      BY <1>13, <2>4 DEF FindNamespace
    <3>2. n.deploy = d /\ n.listed = c.listed /\ IsStep(n)
      BY <1>2, FoundFacts
    <3> HIDE DEF n
    <3> QED BY <1>2, <1>5, <3>1, <3>2
  <2> QED BY <2>3, <2>4
<1>14. CASE CheckPublished(p)
  <2> DEFINE n == [c EXCEPT !.found = TRUE]
  <2>1. Goes(p, Fails("error")) \/ Goes(p, n)
    BY <1>14 DEF CheckPublished
  <2>2. n.deploy = d /\ n.listed = c.listed /\ IsStep(n)
    BY <1>2, FoundFacts
  <2> HIDE DEF n
  <2> QED BY <1>2, <1>5, <1>6, <2>1, <2>2
<1>15. CASE CheckPage(p)
  <2>1. d.next = "verify" /\ (Answers(p, d) \/ Goes(p, Fails("error")))
    BY <1>15 DEF CheckPage, Running
  <2>2. Advance(d) \in Deployments /\ Advance(d).next = "complete" /\ Advance(d).account = d.account
        /\ Advance(d).worker = d.worker /\ Advance(d).subdomain = d.subdomain
        /\ Advance(d).space = d.space /\ Advance(d).url = d.url
    BY <1>2, <2>1, Advanced
  <2>3. Sound(cloud, Advance(d))
    BY <1>2, <2>1, <2>2 DEF Sound, Named
  <2> QED BY <1>2, <1>4, <1>6, <2>1, <2>3
<1>16. CASE Finish(p)
  <2>1. d.next = "complete" /\ call' = [call EXCEPT ![p] = Answer(TRUE, "step", Advance(d), None)]
    BY <1>16 DEF Finish, Running
  <2>2. Advance(d) \in Deployments /\ Advance(d).next = "done" /\ Advance(d).account = d.account
        /\ Advance(d).worker = d.worker /\ Advance(d).subdomain = d.subdomain
        /\ Advance(d).space = d.space /\ Advance(d).url = d.url
    BY <1>2, <2>1, Advanced
  <2>3. Sound(cloud, Advance(d))
    BY <1>2, <2>1, <2>2 DEF Sound, Named
  <2> QED BY <1>1, <2>1, <2>3, AnswersAreFine, RequestMoves
<1>17. CASE AlreadyComplete(p)
  <2>1. call' = [call EXCEPT ![p] = Answer(TRUE, "step", d, None)]
    BY <1>17 DEF AlreadyComplete
  <2> QED BY <1>1, <1>2, <2>1, AnswersAreFine, RequestMoves
<1>18. CASE Refused(p)
  BY <1>6, <1>18 DEF Refused
<1> QED BY <1>7, <1>8, <1>9, <1>10, <1>11, <1>12, <1>13, <1>14, <1>15, <1>16, <1>17, <1>18

\* An effect, at once or late, makes the account grow.
LEMMA EffectGrows ==
    ASSUME Inv, NEW a \in Accounts, NEW e, Harmless(cloud, a, e), Accepts(cloud[a], e),
           cloud' = [cloud EXCEPT ![a] = Effected(cloud[a], e)]
    PROVE  /\ cloud' \in [Accounts -> Account] /\ Bound(cloud')
           /\ \A b \in Accounts : Grows(cloud[b], cloud'[b])
           /\ cloud'[a] = Effected(cloud[a], e)
<1>1. cloud \in [Accounts -> Account] /\ Bound(cloud)
  BY DEF Inv
<1>2. /\ Effected(cloud[a], e) \in Account /\ Grows(cloud[a], Effected(cloud[a], e))
      /\ Bound([cloud EXCEPT ![a] = Effected(cloud[a], e)])
  BY <1>1, EffectFacts
<1>3. cloud'[a] = Effected(cloud[a], e) /\ \A b \in Accounts \ {a} : cloud'[b] = cloud[b]
  BY <1>1
<1>4. cloud' \in [Accounts -> Account]
  BY <1>1, <1>2
<1>5. \A b \in Accounts : Grows(cloud[b], cloud'[b])
  BY <1>2, <1>3, GrowsRefl
<1>6. Bound(cloud')
  BY <1>2
<1> QED BY <1>3, <1>4, <1>5, <1>6

\* What a step waits for is harmless.
LEMMA PendingIsHarmless ==
    ASSUME Inv, NEW p \in Pages, call[p].at = "step", NEW e \in Pending(p)
    PROVE  Harmless(cloud, call[p].deploy.account, e)
<1> DEFINE d == call[p].deploy
<1>1. Sound(cloud, d) /\ d \in Deployments
  BY AskingFacts
<1>2. CASE d.next = "prepare" /\ call[p].found
  <2>1. PICK s \in Subdomains : e = [op |-> "subdomain", name |-> s]
    BY <1>2 DEF Pending
  <2> QED BY <2>1 DEF Harmless
<1>3. CASE d.next = "kv" /\ call[p].found
  <2>1. e = [op |-> "space", name |-> d.worker]
    BY <1>3 DEF Pending, Title
  <2>2. d.worker \in Names /\ cloud[d.account].spaces[d.worker] # "before"
    BY <1>1, <1>3 DEF Sound, Named, Free
  <2> QED BY <2>1, <2>2 DEF Harmless
<1>4. CASE d.next = "upload"
  <2>1. e = [op |-> "script", name |-> d.worker, space |-> d.space]
    BY <1>4 DEF Pending
  <2>2. /\ d.worker \in Names /\ ~LeftBefore(cloud[d.account].scripts[d.worker])
        /\ d.space = d.worker /\ cloud[d.account].spaces[d.worker] = "wizard"
    BY <1>1, <1>4 DEF Sound, Named, Free
  <2> QED BY <2>1, <2>2 DEF Harmless
<1>5. CASE d.next = "publish"
  <2>1. e = [op |-> "publish", name |-> d.worker]
    BY <1>5 DEF Pending
  <2>2. /\ d.worker \in Names /\ ~LeftBefore(cloud[d.account].scripts[d.worker])
        /\ cloud[d.account].scripts[d.worker] # None
    BY <1>1, <1>5 DEF Sound, Named, Free
  <2> QED BY <2>1, <2>2 DEF Harmless
<1>6. CASE ~(d.next \in {"prepare", "kv"} /\ call[p].found) /\ d.next \notin {"upload", "publish"}
  BY <1>6 DEF Pending
<1> QED BY <1>2, <1>3, <1>4, <1>5, <1>6

\* A write that is answered.
LEMMA StepWrites ==
    ASSUME Inv, NEW p \in Pages,
           (\E s \in Subdomains : CreateSubdomain(p, s)) \/ CreateNamespace(p) \/ Upload(p) \/ Publish(p)
    PROVE  Inv'
<1> DEFINE d == call[p].deploy
           a == d.account
<1>1. call[p].at = "step"
  BY DEF CreateSubdomain, CreateNamespace, Upload, Publish, Running
<1>2. Sound(cloud, d) /\ d \in Deployments /\ a \in Accounts /\ Mine(p) = cloud[a] /\ cloud[a] \in Account
  BY <1>1, AskingFacts
\* What is written, and what is answered of it.
<1>3. ASSUME NEW e, NEW f \in Deployments, f.next # "done", e \in Pending(p), Writes(p, e), Answers(p, f),
             ASSUME cloud'[a] = Effected(cloud[a], e), cloud' \in [Accounts -> Account],
                    Sound(cloud', d), Accepts(cloud[a], e)
             PROVE  Sound(cloud', Advance(f))
      PROVE  Inv'
  <2>1. /\ Accepts(cloud[a], e) /\ cloud' = [cloud EXCEPT ![a] = Effected(cloud[a], e)]
        /\ UNCHANGED <<jar, late>>
    BY <1>2, <1>3 DEF Writes, Quiet
  <2>2. Harmless(cloud, a, e)
    BY <1>1, <1>3, PendingIsHarmless
  <2>3. /\ cloud' \in [Accounts -> Account] /\ Bound(cloud')
        /\ \A b \in Accounts : Grows(cloud[b], cloud'[b])
        /\ cloud'[a] = Effected(cloud[a], e)
    BY <1>2, <2>1, <2>2, EffectGrows
  <2>4. Sound(cloud', d)
    BY <1>2, <2>3, SoundStays
  <2>5. Sound(cloud', Advance(f))
    BY <1>3, <2>1, <2>3, <2>4
  <2>6. /\ call' = [q \in Pages |-> call'[q]]
        /\ \A q \in Pages : call'[q] = call[q] \/ Fine(cloud', call'[q])
    <3> DEFINE r == Answer(TRUE, "step", Advance(f), Keep)
    <3>1. Fine(cloud', r)
      BY <2>5, AnswersAreFine
    <3>2. call' = [call EXCEPT ![p] = r] /\ call = [q \in Pages |-> call[q]]
      BY <1>3 DEF Answers, Inv, Requests
    <3> HIDE DEF r
    <3> QED BY <3>1, <3>2
  <2>7. jar' = [auth |-> jar'.auth, deploy |-> jar'.deploy] /\ jar'.deploy = jar.deploy
    BY <2>1 DEF Inv, Cookies
  <2> QED BY <2>1, <2>3, <2>6, <2>7, Frame
<1>4. CASE \E s \in Subdomains : CreateSubdomain(p, s)
  <2>1. PICK s \in Subdomains : CreateSubdomain(p, s)
    BY <1>4
  <2> DEFINE e == [op |-> "subdomain", name |-> s]
             f == [d EXCEPT !.subdomain = s]
  <2>2. d.next = "prepare" /\ call[p].found /\ Writes(p, e) /\ Answers(p, f)
    BY <2>1 DEF CreateSubdomain, Running
  <2>3. e \in Pending(p)
    BY <2>2 DEF Pending
  <2>4. f \in Deployments /\ f.next = "prepare" /\ f.account = a /\ f.subdomain = s
    BY <1>2, <2>2 DEF Deployments
  <2>5. Effected(cloud[a], e).subdomain = s
    BY <1>2 DEF Effected, Account
  <2>6. s # None
    BY NoneFacts
  <2> HIDE DEF e, f
  <2>7. Advance(f) \in Deployments /\ Advance(f).next = "name" /\ Advance(f).account = a
        /\ Advance(f).subdomain = s
    BY <2>4, Advanced
  <2>8. ASSUME cloud'[a] = Effected(cloud[a], e) PROVE Sound(cloud', Advance(f))
    BY <2>5, <2>6, <2>7, <2>8 DEF Sound, Named
  <2> QED BY <1>3, <2>2, <2>3, <2>4, <2>8
<1>5. CASE CreateNamespace(p)
  <2> DEFINE e == [op |-> "space", name |-> d.worker]
             f == [d EXCEPT !.space = d.worker]
  <2>1. d.next = "kv" /\ call[p].found /\ Writes(p, e) /\ Answers(p, f)
    BY <1>5 DEF CreateNamespace, Running, Title
  <2>2. e \in Pending(p)
    BY <2>1 DEF Pending, Title
  <2>3. d.worker \in Names
    BY <1>2, <2>1 DEF Sound, Named
  <2>4. f \in Deployments /\ f.next = "kv" /\ f.account = a /\ f.subdomain = d.subdomain
        /\ f.worker = d.worker /\ f.space = d.worker
    BY <1>2, <2>1, <2>3 DEF Deployments
  <2>5. Effected(cloud[a], e).spaces[d.worker] = "wizard"
    <3>1. Effected(cloud[a], e) = [cloud[a] EXCEPT !.spaces[d.worker] = "wizard"]
      BY DEF Effected
    <3>2. cloud[a].spaces \in [Names -> Makers \cup {None}]
      BY <1>2 DEF Account
    <3>3. cloud[a] = [subdomain |-> cloud[a].subdomain, scripts |-> cloud[a].scripts, spaces |-> cloud[a].spaces]
      BY <1>2 DEF Account
    <3>4. Effected(cloud[a], e).spaces = [cloud[a].spaces EXCEPT ![d.worker] = "wizard"]
      BY <3>1, <3>3
    <3> QED BY <2>3, <3>2, <3>4
  <2> HIDE DEF e, f
  <2>6. Advance(f) \in Deployments /\ Advance(f).next = "upload" /\ Advance(f).account = a
        /\ Advance(f).subdomain = d.subdomain /\ Advance(f).worker = d.worker /\ Advance(f).space = d.worker
    BY <2>4, Advanced
  <2>7. ASSUME cloud'[a] = Effected(cloud[a], e), Sound(cloud', d) PROVE Sound(cloud', Advance(f))
    BY <2>1, <2>5, <2>6, <2>7 DEF Sound, Named
  <2> QED BY <1>3, <2>1, <2>2, <2>4, <2>7
<1>6. CASE Upload(p)
  <2> DEFINE e == [op |-> "script", name |-> d.worker, space |-> d.space]
  <2>1. d.next = "upload" /\ Writes(p, e) /\ Answers(p, d)
    BY <1>6 DEF Upload, Running
  <2>2. e \in Pending(p)
    BY <2>1 DEF Pending
  <2>3. d.worker \in Names
    BY <1>2, <2>1 DEF Sound, Named
  <2>4. ASSUME cloud'[a] = Effected(cloud[a], e)
        PROVE  cloud'[a].scripts[d.worker] # None
    <3> DEFINE x == [space |-> d.space, by |-> "wizard", published |->
                       cloud[a].scripts[d.worker] # None /\ cloud[a].scripts[d.worker].published]
    <3>1. cloud'[a] = [cloud[a] EXCEPT !.scripts[d.worker] = x]
      BY <2>4 DEF Effected
    <3>2. cloud[a].scripts \in [Names -> Script \cup {None}]
      BY <1>2 DEF Account
    <3>3. cloud[a] = [subdomain |-> cloud[a].subdomain, scripts |-> cloud[a].scripts, spaces |-> cloud[a].spaces]
      BY <1>2 DEF Account
    <3>4. x \in Script
      <4>1. d.space \in Names
        BY <1>2, <2>1, <2>3 DEF Sound, Named
      <4>2. x.published \in BOOLEAN
        BY <2>3, <3>2 DEF Script
      <4> QED BY <4>1, <4>2 DEF Script, Makers
    <3> HIDE DEF x
    <3>5. cloud'[a].scripts = [cloud[a].scripts EXCEPT ![d.worker] = x]
      BY <3>1, <3>3
    <3> QED BY <2>3, <3>2, <3>4, <3>5, NoneFacts
  <2> HIDE DEF e
  <2>5. Advance(d) \in Deployments /\ Advance(d).next = "publish" /\ Advance(d).account = a
        /\ Advance(d).subdomain = d.subdomain /\ Advance(d).worker = d.worker /\ Advance(d).space = d.space
    BY <1>2, <2>1, Advanced
  <2>6. ASSUME cloud'[a] = Effected(cloud[a], e), Sound(cloud', d) PROVE Sound(cloud', Advance(d))
    BY <2>1, <2>4, <2>5, <2>6 DEF Sound, Named
  <2> QED BY <1>2, <1>3, <2>1, <2>2, <2>6
<1>7. CASE Publish(p)
  <2> DEFINE e == [op |-> "publish", name |-> d.worker]
             f == [d EXCEPT !.url = <<d.worker, d.subdomain>>]
  <2>1. d.next = "publish" /\ Writes(p, e) /\ Answers(p, f)
    BY <1>7 DEF Publish, Running
  <2>2. e \in Pending(p)
    BY <2>1 DEF Pending
  <2>3. d.worker \in Names /\ d.subdomain \in Subdomains \cup {None}
    BY <1>2, <2>1, DeploymentFacts DEF Sound, Named
  <2>4. f \in Deployments /\ f.next = "publish" /\ f.account = a /\ f.subdomain = d.subdomain
        /\ f.worker = d.worker /\ f.space = d.space /\ f.url = <<d.worker, d.subdomain>>
    BY <1>2, <2>1, <2>3 DEF Deployments
  <2>5. ASSUME cloud'[a] = Effected(cloud[a], e), cloud' \in [Accounts -> Account]
        PROVE  cloud'[a].scripts[d.worker].published
    <3>1. cloud'[a] = [cloud[a] EXCEPT !.scripts[d.worker].published = TRUE]
      BY <2>5 DEF Effected
    <3>2. cloud[a].scripts \in [Names -> Script \cup {None}] /\ cloud[a].scripts[d.worker] # None
      BY <1>2, <2>1 DEF Account, Sound, Named
    <3>3. cloud[a] = [subdomain |-> cloud[a].subdomain, scripts |-> cloud[a].scripts, spaces |-> cloud[a].spaces]
      BY <1>2 DEF Account
    <3>4. cloud'[a].scripts[d.worker] = [cloud[a].scripts[d.worker] EXCEPT !.published = TRUE]
      BY <2>3, <3>1, <3>2, <3>3
    <3>5. cloud[a].scripts[d.worker] \in Script
      BY <2>3, <3>2
    <3> QED BY <3>4, <3>5 DEF Script
  <2> HIDE DEF e, f
  <2>6. Advance(f) \in Deployments /\ Advance(f).next = "verify" /\ Advance(f).account = a
        /\ Advance(f).subdomain = d.subdomain /\ Advance(f).worker = d.worker
        /\ Advance(f).space = d.space /\ Advance(f).url = <<d.worker, d.subdomain>>
    BY <2>4, Advanced
  <2>7. ASSUME cloud'[a] = Effected(cloud[a], e), cloud' \in [Accounts -> Account], Sound(cloud', d)
        PROVE  Sound(cloud', Advance(f))
    BY <2>1, <2>5, <2>6, <2>7 DEF Sound, Named
  <2> QED BY <1>3, <2>1, <2>2, <2>4, <2>7
<1> QED BY <1>4, <1>5, <1>6, <1>7

\* A write that may still happen, and one that does.
LEMMA StepLate ==
    ASSUME Inv, (\E p \in Pages : CloudflareFails(p)) \/ (\E l \in late : LateEffect(l))
    PROVE  Inv'
<1>0. /\ cloud \in [Accounts -> Account] /\ Bound(cloud)
      /\ \A a \in Accounts : Grows(cloud[a], cloud[a])
      /\ jar = [auth |-> jar.auth, deploy |-> jar.deploy]
      /\ call = [q \in Pages |-> call[q]]
  BY GrowsRefl DEF Inv, Cookies, Requests
<1>1. ASSUME NEW p \in Pages, CloudflareFails(p) PROVE Inv'
  <2>1. call[p].at = "step" /\ UNCHANGED <<cloud, jar>> /\ call' = [call EXCEPT ![p] = Fails("error")]
    BY <1>1 DEF CloudflareFails, Calls, Quiet, Goes
  <2>2. \/ late' = late
        \/ \E e \in Pending(p) : late' = late \cup {[account |-> call[p].deploy.account, effect |-> e]}
    BY <1>1 DEF CloudflareFails
  <2>3. \A l \in late' : l \in late \/ (l.account \in Accounts /\ Harmless(cloud, l.account, l.effect))
    BY <2>1, <2>2, AskingFacts, PendingIsHarmless
  <2>4. call' = [q \in Pages |-> call'[q]] /\ \A q \in Pages : call'[q] = call[q] \/ Fine(cloud, call'[q])
    BY <1>0, <2>1, FailsAreFine
  <2> QED BY <1>0, <2>1, <2>3, <2>4, Frame
<1>2. ASSUME NEW l \in late, LateEffect(l) PROVE Inv'
  <2>1. l.account \in Accounts /\ Harmless(cloud, l.account, l.effect)
    BY DEF Inv, Pendings
  <2>2. UNCHANGED <<jar, call>> /\ late' \subseteq late
    BY <1>2 DEF LateEffect
  <2>3. /\ cloud' \in [Accounts -> Account] /\ Bound(cloud')
        /\ \A b \in Accounts : Grows(cloud[b], cloud'[b])
    BY <1>0, <1>2, <2>1, EffectGrows DEF LateEffect
  <2> QED BY <1>0, <2>2, <2>3, Frame
<1> QED BY <1>1, <1>2

\* Every step keeps the invariant.
LEMMA StepInv == Inv /\ [MCNext]_mcVars => Inv'
<1> SUFFICES ASSUME Inv, [MCNext]_mcVars PROVE Inv'
  OBVIOUS
<1>1. CASE UNCHANGED mcVars
  <2>1. UNCHANGED <<cloud, jar, call, late>>
    BY <1>1 DEF mcVars, vars
  <2> QED BY <2>1 DEF Inv, Cookies, Requests, Pendings
<1>2. CASE \E p \in Pages : User(p) \/ Loads(p) \/ Post(p) \/ Deliver(p) \/ Lose(p)
  BY <1>2, StepUser
<1>3. ASSUME NEW p \in Pages, Server(p) PROVE Inv'
  BY <1>3, StepReads, StepWrites, StepLate DEF Server
<1>4. CASE Expire
  <2>1. UNCHANGED <<cloud, call, late>> /\ jar' = [jar EXCEPT !.auth = None]
    BY <1>4 DEF Expire
  <2>2. jar' = [auth |-> jar'.auth, deploy |-> jar'.deploy] /\ jar'.deploy = jar.deploy
    BY <2>1 DEF Inv, Cookies
  <2> QED BY <2>1, <2>2, GrowsRefl, Frame DEF Inv, Requests
<1>5. CASE \E l \in late : LateEffect(l)
  BY <1>5, StepLate
<1> QED BY <1>1, <1>2, <1>3, <1>4, <1>5 DEF MCNext, Next

\* Only the writes of the steps change an account, and they make it grow.
LEMMA CloudGrows ==
    ASSUME Inv, [MCNext]_mcVars
    PROVE  \A a \in Accounts : Grows(cloud[a], cloud'[a])
<1>0. cloud' = cloud => \A a \in Accounts : Grows(cloud[a], cloud'[a])
  BY GrowsRefl
<1>1. ASSUME NEW p \in Pages, NEW e \in Pending(p), call[p].at = "step", Writes(p, e)
      PROVE  \A a \in Accounts : Grows(cloud[a], cloud'[a])
  BY <1>1, AskingFacts, PendingIsHarmless, EffectGrows DEF Writes
<1>2. ASSUME NEW p \in Pages, NEW s \in Subdomains, CreateSubdomain(p, s)
      PROVE  \A a \in Accounts : Grows(cloud[a], cloud'[a])
  BY <1>1, <1>2 DEF CreateSubdomain, Running, Pending
<1>3. ASSUME NEW p \in Pages, CreateNamespace(p) PROVE \A a \in Accounts : Grows(cloud[a], cloud'[a])
  BY <1>1, <1>3 DEF CreateNamespace, Running, Pending
<1>4. ASSUME NEW p \in Pages, Upload(p) PROVE \A a \in Accounts : Grows(cloud[a], cloud'[a])
  BY <1>1, <1>4 DEF Upload, Running, Pending
<1>5. ASSUME NEW p \in Pages, Publish(p) PROVE \A a \in Accounts : Grows(cloud[a], cloud'[a])
  BY <1>1, <1>5 DEF Publish, Running, Pending
<1>6. ASSUME NEW l \in late, LateEffect(l) PROVE \A a \in Accounts : Grows(cloud[a], cloud'[a])
  <2>1. l.account \in Accounts /\ Harmless(cloud, l.account, l.effect)
    BY DEF Inv, Pendings
  <2> QED BY <1>0, <1>6, <2>1, EffectGrows DEF LateEffect
<1>7. ASSUME NEW p \in Pages, User(p) \/ Loads(p) \/ Post(p) \/ Deliver(p) \/ Lose(p) \/ Expire PROVE cloud' = cloud
  <2>1. User(p) => cloud' = cloud
    BY DEF User, Open, Close, Retry, Disconnect, Connect, SelectAccount, OnlyPages
  <2>2. Loads(p) => cloud' = cloud
    BY DEF Loads, Start, StartFails, Refresh, RefreshFails, OnlyPages
  <2> QED BY <1>7, <2>1, <2>2 DEF Post, Deliver, Lose, Expire
<1>8. ASSUME NEW p \in Pages, \/ Access(p) \/ HasSubdomain(p) \/ (\E s \in Subdomains : SubdomainTaken(p, s))
                              \/ ListWorkers(p) \/ ListTitles(p) \/ ChooseName(p) \/ FindNamespace(p)
                              \/ CheckPublished(p) \/ CheckPage(p) \/ Finish(p) \/ AlreadyComplete(p)
                              \/ Refused(p) \/ CloudflareFails(p)
      PROVE  cloud' = cloud
  BY <1>8 DEF Access, HasSubdomain, SubdomainTaken, ListWorkers, ListTitles, ChooseName, FindNamespace,
              CheckPublished, CheckPage, Finish, AlreadyComplete, Refused, CloudflareFails, Reads
<1>9. CASE \E p \in Pages : Server(p)
  BY <1>0, <1>2, <1>3, <1>4, <1>5, <1>8, <1>9 DEF Server
<1>10. CASE Expire \/ UNCHANGED mcVars
  BY <1>0, <1>10 DEF Expire, mcVars, vars
<1> QED BY <1>0, <1>6, <1>7, <1>9, <1>10 DEF MCNext, Next

-----------------------------------------------------------------------------
\* Inv holds in every state of the wizard and of the accounts.
THEOREM Invariance == MCSpec => []Inv
<1>1. MCInit => Inv
  BY InitInv DEF MCInit
<1> QED BY <1>1, StepInv, PTL DEF MCSpec

\* The address shown at the end leads to a published worker of the wizard with its own
\* namespace, whatever was retried, answered late or run twice (wizard/lib/deployment.js).
THEOREM CompleteDeploymentsAreServed == MCSpec => []CompleteIsServed
<1>1. Inv => CompleteIsServed
  <2> SUFFICES ASSUME Inv, jar.deploy # None, jar.deploy.next = "done" PROVE Served(jar.deploy)
    BY DEF CompleteIsServed, Complete
  <2>1. Sound(cloud, jar.deploy)
    BY DEF Inv, Cookies
  <2>2. /\ jar.deploy \in Deployments /\ jar.deploy.account \in Accounts
        /\ jar.deploy.worker \in Names /\ ~LeftBefore(cloud[jar.deploy.account].scripts[jar.deploy.worker])
        /\ jar.deploy.space = jar.deploy.worker
        /\ cloud[jar.deploy.account].scripts[jar.deploy.worker] # None
        /\ cloud[jar.deploy.account].scripts[jar.deploy.worker].published
        /\ jar.deploy.url = <<jar.deploy.worker, cloud[jar.deploy.account].subdomain>>
    BY <2>1, DeploymentFacts DEF Sound, Named, Free
  <2>3. cloud[jar.deploy.account].scripts[jar.deploy.worker] \in Script
    BY <2>2 DEF Inv, Account
  <2>4. cloud[jar.deploy.account].scripts[jar.deploy.worker].space = jar.deploy.worker
    BY <2>2, <2>3 DEF Inv, Bound, ByWizard, LeftBefore, Script, Makers
  <2> QED BY <2>2, <2>4 DEF Served, Enabled
<1> QED BY <1>1, Invariance, PTL

\* No step overwrites a worker of an earlier deployment, and each worker of the wizard is
\* bound to the namespace made for it (wizard/lib/deployment.js, names.js).
THEOREM LeftoversAreKept == MCSpec => LeftoversKept
<1> DEFINE Keeps == \A a \in Accounts, n \in Names :
                      LET new == cloud'[a].scripts[n] IN
                      /\ LeftBefore(cloud[a].scripts[n]) => new = cloud[a].scripts[n]
                      /\ ByWizard(new) => (new.space = n /\ cloud'[a].spaces[n] = "wizard")
<1>1. Inv /\ [MCNext]_mcVars => [Keeps]_cloud
  <2> SUFFICES ASSUME Inv, [MCNext]_mcVars, NEW a \in Accounts, NEW n \in Names
               PROVE  /\ LeftBefore(cloud[a].scripts[n]) => cloud'[a].scripts[n] = cloud[a].scripts[n]
                      /\ ByWizard(cloud'[a].scripts[n]) =>
                           (cloud'[a].scripts[n].space = n /\ cloud'[a].spaces[n] = "wizard")
    OBVIOUS
  <2>1. Grows(cloud[a], cloud'[a])
    BY CloudGrows
  <2>2. Bound(cloud')
    BY StepInv DEF Inv
  <2> QED BY <2>1, <2>2 DEF Grows, Bound
<1> QED BY <1>1, Invariance, PTL DEF MCSpec, LeftoversKept

-----------------------------------------------------------------------------
(***************************************************************************)
(* Retrying.  What counts against the deployments started is a namespace   *)
(* that is there or may still come; the one of the deployment in the jar,  *)
(* or in the answer on its way to it, is paid for already.                 *)
(***************************************************************************)
Coming  == {at \in Accounts \X Names :
              \E l \in late : l.effect.op = "space" /\ at = <<l.account, l.effect.name>>}
Claimed == Spaces \cup Coming

Place(d) == IF d.next \in Unnamed THEN {} ELSE {<<d.account, d.worker>>}
Paid(d)  == Cardinality(Claimed \ Place(d)) < started

OneAtATime == \A p, q \in Pages : call[p] # Idle /\ call[q] # Idle => p = q

Frugal ==
    /\ started \in Nat
    /\ alone =>
         /\ OneAtATime
         /\ IsFiniteSet(Claimed) /\ Cardinality(Claimed) <= started
         /\ jar.deploy # None => Paid(jar.deploy)
         /\ \A p \in Pages : call[p].at = "step" => call[p].deploy = jar.deploy /\ jar.deploy # None
         /\ \A p \in Pages : call[p].at = "answer" /\ call[p].deploy \notin {None, Keep} =>
              Paid(call[p].deploy)

\* Fewer namespaces cost no more.
LEMMA Fewer ==
    ASSUME NEW S, NEW T, IsFiniteSet(S), T \subseteq S
    PROVE  IsFiniteSet(T) /\ Cardinality(T) <= Cardinality(S)
           /\ Cardinality(T) \in Nat /\ Cardinality(S) \in Nat
BY FS_Subset, FS_CardinalityType

\* Of less than two requests under way there is at most one.
LEMMA Alone ==
    ASSUME NEW calls, Cardinality({p \in Pages : calls[p] # Idle}) < 2
    PROVE  \A p, q \in Pages : calls[p] # Idle /\ calls[q] # Idle => p = q
<1> DEFINE busy == {p \in Pages : calls[p] # Idle}
<1>1. IsFiniteSet(busy)
  <2>1. IsFiniteSet(Pages)
    BY DeploymentAssumption, FS_Interval DEF Pages
  <2> QED BY <2>1, FS_Subset
<1>2. ASSUME NEW p \in Pages, NEW q \in Pages, calls[p] # Idle, calls[q] # Idle, p # q PROVE FALSE
  <2>1. IsFiniteSet({p}) /\ Cardinality({p}) = 1
    BY FS_Singleton
  <2>2. IsFiniteSet({p} \cup {q}) /\ Cardinality({p} \cup {q}) = 2
    BY <1>2, <2>1, FS_AddElement
  <2>3. {p} \cup {q} \subseteq busy
    BY <1>2
  <2>4. Cardinality({p} \cup {q}) <= Cardinality(busy) /\ Cardinality(busy) \in Nat
    BY <1>1, <2>3, Fewer
  <2> QED BY <2>2, <2>4
<1> QED BY <1>2

\* Nothing more is claimed, and what is in hand is paid for.
LEMMA FrugalFrame ==
    ASSUME Frugal, started' \in Nat, started' >= started, alone' => alone /\ OneAtATime', Claimed' \subseteq Claimed,
           alone => \/ jar'.deploy = jar.deploy
                    \/ jar'.deploy = None
                    \/ Cardinality(Claimed \ Place(jar'.deploy)) < started',
           alone' => \A p \in Pages : call'[p].at = "step" => call'[p].deploy = jar'.deploy /\ jar'.deploy # None,
           alone' => \A p \in Pages :
             \/ call'[p] = call[p]
             \/ call'[p].at = "answer" /\ call'[p].deploy \notin {None, Keep} =>
                  Cardinality(Claimed \ Place(call'[p].deploy)) < started'
    PROVE  Frugal'
<1>1. ASSUME alone' PROVE IsFiniteSet(Claimed') /\ Cardinality(Claimed') <= started'
  BY <1>1, Fewer DEF Frugal
<1>2. ASSUME NEW d, IsFiniteSet(Claimed), Cardinality(Claimed \ Place(d)) < started'
      PROVE  Cardinality(Claimed' \ Place(d)) < started'
  <2>1. IsFiniteSet(Claimed \ Place(d))
    BY <1>2, Fewer
  <2>2. Claimed' \ Place(d) \subseteq Claimed \ Place(d)
    OBVIOUS
  <2>3. /\ Cardinality(Claimed' \ Place(d)) <= Cardinality(Claimed \ Place(d))
        /\ Cardinality(Claimed' \ Place(d)) \in Nat /\ Cardinality(Claimed \ Place(d)) \in Nat
    BY <2>1, <2>2, Fewer
  <2> QED BY <1>2, <2>3
<1>3. ASSUME NEW d, IsFiniteSet(Claimed), Paid(d)
      PROVE  Cardinality(Claimed' \ Place(d)) < started'
  <2>1. Cardinality(Claimed \ Place(d)) \in Nat /\ started \in Nat
    BY <1>3, Fewer DEF Frugal
  <2>2. Cardinality(Claimed \ Place(d)) < started'
    BY <1>3, <2>1 DEF Paid
  <2> QED BY <1>2, <1>3, <2>2
<1>4. ASSUME alone', jar'.deploy # None PROVE Cardinality(Claimed' \ Place(jar'.deploy)) < started'
  <2>1. CASE jar'.deploy = jar.deploy
    BY <1>3, <1>4, <2>1 DEF Frugal
  <2>2. CASE Cardinality(Claimed \ Place(jar'.deploy)) < started'
    BY <1>2, <1>4, <2>2 DEF Frugal
  <2> QED BY <1>4, <2>1, <2>2
<1>5. ASSUME alone', NEW p \in Pages, call'[p].at = "answer", call'[p].deploy \notin {None, Keep}
      PROVE  Cardinality(Claimed' \ Place(call'[p].deploy)) < started'
  <2>1. CASE call'[p] = call[p]
    BY <1>3, <1>5, <2>1 DEF Frugal
  <2>2. CASE Cardinality(Claimed \ Place(call'[p].deploy)) < started'
    BY <1>2, <1>5, <2>2 DEF Frugal
  <2> QED BY <1>5, <2>1, <2>2
<1>6. \A d : Place(d)' = Place(d)
  BY DEF Place
<1> QED BY <1>1, <1>4, <1>5 DEF Frugal, Paid, Place

\* What is claimed depends on the accounts and the late effects only.
LEMMA ClaimedStays == UNCHANGED <<cloud, late>> => Claimed' = Claimed
BY DEF Claimed, Spaces, Coming

\* The request of one page moves on.
LEMMA FrugalMove ==
    ASSUME Inv, Frugal, started' \in Nat, started' >= started, alone' => alone /\ OneAtATime',
           NEW p \in Pages, NEW c, call' = [call EXCEPT ![p] = c], UNCHANGED jar, Claimed' \subseteq Claimed,
           alone /\ c.at = "step" => c.deploy = jar.deploy /\ jar.deploy # None,
           alone /\ c.at = "answer" /\ c.deploy \notin {None, Keep} =>
             Cardinality(Claimed \ Place(c.deploy)) < started'
    PROVE  Frugal'
<1>2. call'[p] = c /\ \A q \in Pages \ {p} : call'[q] = call[q]
  BY DEF Inv, Requests
<1>3. ASSUME alone', NEW q \in Pages, call'[q].at = "step"
      PROVE  call'[q].deploy = jar'.deploy /\ jar'.deploy # None
  BY <1>2, <1>3 DEF Frugal
<1>4. ASSUME alone', NEW q \in Pages
      PROVE  \/ call'[q] = call[q]
             \/ call'[q].at = "answer" /\ call'[q].deploy \notin {None, Keep} =>
                  Cardinality(Claimed \ Place(call'[q].deploy)) < started'
  BY <1>2, <1>4
<1> QED BY <1>3, <1>4, FrugalFrame

\* The namespace of a deployment in the jar is made, or may still be.
LEMMA FrugalClaim ==
    ASSUME Inv, Frugal, UNCHANGED <<jar, started>>, alone' => alone /\ OneAtATime',
           NEW p \in Pages, call[p].at = "step", call[p].deploy.next = "kv",
           NEW c, call' = [call EXCEPT ![p] = c], c.at = "answer",
           c.deploy = Keep \/ Place(c.deploy) = Place(call[p].deploy),
           Claimed' \subseteq Claimed \cup Place(call[p].deploy)
    PROVE  Frugal'
<1> DEFINE d == call[p].deploy
           x == <<d.account, d.worker>>
<1>1. started \in Nat
  BY DEF Frugal
<1> SUFFICES ASSUME alone' PROVE Frugal'
  BY <1>1 DEF Frugal
<1>2. OneAtATime' /\ OneAtATime /\ IsFiniteSet(Claimed) /\ jar.deploy = d /\ Paid(d)
  BY DEF Frugal
<1>3. Place(d) = {x}
  BY DEF Place, Unnamed
<1> DEFINE rest == Claimed \ Place(d)
<1>4. IsFiniteSet(rest) /\ Cardinality(rest) \in Nat /\ Cardinality(rest) < started
  BY <1>2, Fewer DEF Paid
<1>5. IsFiniteSet(rest \cup {x}) /\ Cardinality(rest \cup {x}) <= Cardinality(rest) + 1
      /\ Cardinality(rest \cup {x}) \in Nat
  <2> HIDE DEF rest, x
  <2>1. IsFiniteSet(rest \cup {x}) /\
        Cardinality(rest \cup {x}) = IF x \in rest THEN Cardinality(rest) ELSE Cardinality(rest) + 1
    BY <1>4, FS_AddElement
  <2>2. Cardinality(rest \cup {x}) \in Nat
    BY <2>1, FS_CardinalityType
  <2>3. CASE x \in rest
    BY <1>4, <2>1, <2>2, <2>3
  <2>4. CASE x \notin rest
    BY <1>4, <2>1, <2>2, <2>4
  <2> QED BY <2>3, <2>4
<1>6. Claimed' \subseteq rest \cup {x} /\ Claimed' \ Place(d) \subseteq rest
  BY <1>3
<1> HIDE DEF rest, x
<1>7. IsFiniteSet(Claimed') /\ Cardinality(Claimed') <= started
  <2>1. IsFiniteSet(Claimed') /\ Cardinality(Claimed') <= Cardinality(rest \cup {x}) /\ Cardinality(Claimed') \in Nat
    BY <1>5, <1>6, Fewer
  <2> QED BY <1>1, <1>4, <1>5, <2>1
<1>8. Cardinality(Claimed' \ Place(d)) < started
  <2>1. Cardinality(Claimed' \ Place(d)) <= Cardinality(rest) /\ Cardinality(Claimed' \ Place(d)) \in Nat
    BY <1>4, <1>6, Fewer
  <2> QED BY <1>1, <1>4, <2>1
<1>9. call'[p] = c /\ \A q \in Pages \ {p} : call'[q] = call[q] /\ call[q] = Idle
  <2>1. call[p] # Idle
    BY DEF Idle
  <2> QED BY <1>2, <2>1 DEF Inv, Requests, OneAtATime
<1>10. \A q \in Pages \ {p} : call'[q].at = "idle"
  BY <1>9 DEF Idle
<1>11. ASSUME NEW q \in Pages, call'[q].at = "answer", call'[q].deploy \notin {None, Keep}
       PROVE  Cardinality(Claimed' \ Place(call'[q].deploy)) < started'
  <2>1. q = p
    BY <1>10, <1>11
  <2> QED BY <1>8, <1>9, <1>11, <2>1
<1>12. \A q \in Pages : call'[q].at # "step"
  BY <1>9, <1>10
<1> HIDE DEF d
<1> QED BY <1>1, <1>2, <1>7, <1>8, <1>11, <1>12 DEF Frugal, Paid, Place

\* A request that advances its deployment without naming it keeps what is paid.
LEMMA PlaceStays ==
    ASSUME NEW d \in Deployments, d.next \notin Unnamed, d.next # "done",
           NEW e \in Deployments, e.next = d.next, e.account = d.account, e.worker = d.worker
    PROVE  Place(Advance(e)) = Place(d)
<1>1. /\ Advance(e).account = d.account /\ Advance(e).worker = d.worker
      /\ Advance(e).next \in Named
  BY Advanced, DeploymentFacts DEF Steps, Named, Unnamed
<1>2. Advance(e).next \notin Unnamed
  BY <1>1 DEF Named, Unnamed
<1> QED BY <1>1, <1>2 DEF Place

\* What is paid stays paid, and before it has a name a deployment pays for any.
LEMMA PaidFacts ==
    ASSUME Frugal, alone
    PROVE  /\ Cardinality(Claimed) \in Nat /\ Cardinality(Claimed) <= started /\ started \in Nat
           /\ \A d : Cardinality(Claimed \ Place(d)) \in Nat
           /\ \A d, e : Paid(d) /\ d.next \in Unnamed => Paid(e)
<1>1. IsFiniteSet(Claimed) /\ Cardinality(Claimed) <= started /\ started \in Nat
  BY DEF Frugal
<1>2. ASSUME NEW d PROVE Cardinality(Claimed \ Place(d)) \in Nat
  <2>1. Claimed \ Place(d) \subseteq Claimed
    OBVIOUS
  <2> QED BY <1>1, <2>1, Fewer
<1>3. ASSUME NEW d, NEW e, Paid(d), d.next \in Unnamed PROVE Paid(e)
  <2>1. Claimed \ Place(d) = Claimed
    BY <1>3 DEF Place
  <2>2. Claimed \ Place(e) \subseteq Claimed
    OBVIOUS
  <2>3. /\ Cardinality(Claimed \ Place(e)) <= Cardinality(Claimed)
        /\ Cardinality(Claimed \ Place(e)) \in Nat /\ Cardinality(Claimed) \in Nat
    BY <1>1, <2>2, Fewer
  <2> QED BY <1>1, <1>3, <2>1, <2>3 DEF Paid
<1> QED BY <1>1, <1>2, <1>3, Fewer

\* The user starts deployments, and each is paid for as it starts.
LEMMA FrugalUser ==
    ASSUME Inv, Frugal, alone' => alone /\ OneAtATime', NEW p \in Pages,
           User(p) \/ Loads(p) \/ Post(p) \/ Deliver(p) \/ Lose(p) \/ Expire
    PROVE  Frugal'
<1>0. started \in Nat /\ call = [q \in Pages |-> call[q]] /\ jar = [auth |-> jar.auth, deploy |-> jar.deploy]
  BY DEF Frugal, Inv, Requests, Cookies
\* A deployment that starts.
<1>a. ASSUME NEW a, NEW code, NEW token, started' = started + 1, UNCHANGED <<cloud, jar, late>>,
             call' = [call EXCEPT ![p] = Answer(TRUE, code, Fresh(a), token)]
      PROVE  Frugal'
  <2> DEFINE c == Answer(TRUE, code, Fresh(a), token)
  <2>1. c.at = "answer" /\ c.deploy = Fresh(a) /\ started' \in Nat /\ started' >= started
    BY <1>0, <1>a DEF Answer
  <2>2. ASSUME alone PROVE Cardinality(Claimed \ Place(Fresh(a))) < started'
    <3>1. Claimed \ Place(Fresh(a)) = Claimed
      BY DEF Place, Fresh, Unnamed
    <3>2. Cardinality(Claimed) \in Nat /\ Cardinality(Claimed) <= started
      BY <2>2, PaidFacts
    <3>3. started' = started + 1 /\ started \in Nat
      BY <1>0, <1>a
    <3> HIDE DEF c
    <3> QED BY <3>1, <3>2, <3>3
  <2> HIDE DEF c
  <2> QED BY <1>a, <2>1, <2>2, ClaimedStays, FrugalMove DEF c
\* An answer with the deployment in the jar, or with none.
<1>b. ASSUME NEW c, c.at = "answer",
             c.deploy \in {None, Keep} \/ (c.deploy = jar.deploy /\ jar.deploy # None),
             call' = [call EXCEPT ![p] = c], UNCHANGED <<cloud, jar, late, started>>
      PROVE  Frugal'
  <2>1. alone /\ c.deploy \notin {None, Keep} => Cardinality(Claimed \ Place(c.deploy)) < started'
    BY <1>b DEF Frugal, Paid
  <2>2. started' \in Nat /\ started' >= started
    BY <1>0, <1>b
  <2> QED BY <1>b, <2>1, <2>2, ClaimedStays, FrugalMove
<1>1. ASSUME NEW kind \in Kinds, NEW grant \in Grants, Connect(p, kind, grant) PROVE Frugal'
  <2> DEFINE anew  == ~Resumes(grant) /\ Cardinality(grant) = 1
             token == [id |-> tokens + 1, kind |-> kind, grant |-> grant]
             code  == CASE kind = "oauth" -> "starting"
                        [] kind # "oauth" /\ (Resumes(grant) \/ anew) -> "verifying"
                        [] OTHER -> "accounts"
             deploy == CASE Resumes(grant) -> jar.deploy
                         [] anew -> Fresh(CHOOSE a \in grant : TRUE)
                         [] OTHER -> IF kind = "oauth" THEN None ELSE Keep
  <2>1. /\ UNCHANGED <<cloud, jar, late>>
        /\ call' = [call EXCEPT ![p] = Answer(TRUE, code, deploy, token)]
        /\ started' = IF anew THEN started + 1 ELSE started
    BY <1>1 DEF Connect
  <2> HIDE DEF token, code
  <2>2. CASE Resumes(grant)
    <3>1. deploy = jar.deploy /\ started' = started
      BY <2>1, <2>2
    <3>2. jar.deploy # None
      BY <2>2 DEF Resumes
    <3> HIDE DEF deploy
    <3> QED BY <1>b, <2>1, <3>1, <3>2 DEF Answer
  <2>3. CASE anew
    <3>1. deploy = Fresh(CHOOSE a \in grant : TRUE) /\ started' = started + 1
      BY <2>1, <2>3
    <3> HIDE DEF deploy
    <3> QED BY <1>a, <2>1, <3>1
  <2>4. CASE ~Resumes(grant) /\ ~anew
    <3>1. deploy \in {None, Keep} /\ started' = started
      BY <2>1, <2>4
    <3> HIDE DEF deploy
    <3> QED BY <1>b, <2>1, <3>1 DEF Answer
  <2> QED BY <2>2, <2>3, <2>4
<1>2. ASSUME NEW a \in Accounts, SelectAccount(p, a) PROVE Frugal'
  <2>1. UNCHANGED <<cloud, jar, late>>
    BY <1>2 DEF SelectAccount
  <2>2. CASE call' = [call EXCEPT ![p] = Answer(TRUE, "selecting", Fresh(a), Keep)] /\ started' = started + 1
    BY <1>a, <2>1, <2>2
  <2>3. CASE call' = [call EXCEPT ![p] = Fails("accounts")] /\ UNCHANGED started
    BY <1>b, <2>1, <2>3 DEF Fails, Answer
  <2> QED BY <1>2, <2>2, <2>3 DEF SelectAccount
<1>3. CASE Disconnect(p)
  <2>1. call' = [call EXCEPT ![p] = Answer(TRUE, "home", None, None)] /\ UNCHANGED <<cloud, jar, late, started>>
    BY <1>3 DEF Disconnect
  <2> QED BY <1>b, <2>1 DEF Answer
<1>4. CASE Post(p)
  <2> DEFINE c == [at |-> "step", auth |-> jar.auth, deploy |-> jar.deploy, tries |-> 0,
                   listed |-> [workers |-> None, titles |-> None], found |-> FALSE]
  <2>1. UNCHANGED <<cloud, jar, late, started>>
    BY <1>4 DEF Post
  <2>2. CASE jar.auth = None
    <3>1. call' = [call EXCEPT ![p] = Fails("expired")]
      BY <1>4, <2>2 DEF Post
    <3> QED BY <1>b, <2>1, <3>1 DEF Fails, Answer
  <2>3. CASE jar.auth # None /\ jar.deploy = None
    <3>1. call' = [call EXCEPT ![p] = Fails("session")]
      BY <1>4, <2>3 DEF Post
    <3> QED BY <1>b, <2>1, <3>1 DEF Fails, Answer
  <2>4. CASE jar.auth # None /\ jar.deploy # None
    <3>1. call' = [call EXCEPT ![p] = c]
      BY <1>4, <2>4 DEF Post
    <3>2. c.at = "step" /\ c.deploy = jar.deploy /\ started' \in Nat /\ started' >= started
      BY <1>0, <2>1
    <3> HIDE DEF c
    <3> QED BY <2>1, <2>4, <3>1, <3>2, ClaimedStays, FrugalMove
  <2> QED BY <2>2, <2>3, <2>4
<1>5. CASE Deliver(p)
  <2>1. /\ call[p].at = "answer" /\ UNCHANGED <<cloud, late, started>>
        /\ jar'.deploy = Set(jar.deploy, call[p].deploy)
        /\ call' = [call EXCEPT ![p] = Idle]
    BY <1>5 DEF Deliver
  <2>2. Claimed' \subseteq Claimed
    BY <2>1 DEF Claimed, Spaces, Coming
  <2>3. alone => \/ jar'.deploy = jar.deploy
                 \/ jar'.deploy = None
                 \/ Cardinality(Claimed \ Place(jar'.deploy)) < started'
    BY <2>1 DEF Set, Frugal, Paid
  <2>4. call'[p] = Idle /\ \A q \in Pages \ {p} : call'[q] = call[q]
    BY <1>0, <2>1
  <2>5. ASSUME alone', NEW q \in Pages PROVE call'[q] = Idle
    <3>1. alone /\ OneAtATime /\ call[p] # Idle
      BY <2>1, <2>5 DEF Frugal, Idle
    <3> QED BY <2>4, <3>1 DEF OneAtATime
  <2>6. Idle.at = "idle"
    BY DEF Idle
  <2>7. started' \in Nat /\ started' >= started
    BY <1>0, <2>1
  <2> QED BY <2>2, <2>3, <2>5, <2>6, <2>7, FrugalFrame
<1>6. CASE Lose(p)
  <2>1. call' = [call EXCEPT ![p] = Idle] /\ UNCHANGED <<cloud, jar, late, started>>
    BY <1>6 DEF Lose
  <2>2. Idle.at = "idle" /\ started' \in Nat /\ started' >= started
    BY <1>0, <2>1 DEF Idle
  <2> QED BY <2>1, <2>2, ClaimedStays, FrugalMove
<1>7. CASE Expire \/ Open(p) \/ Close(p) \/ Retry(p) \/ Loads(p)
  <2>1. UNCHANGED <<cloud, call, late, started>> /\ jar'.deploy = jar.deploy
    BY <1>0, <1>7 DEF Expire, Open, Close, Retry, Loads, Start, StartFails, Refresh, RefreshFails, OnlyPages
  <2>2. Claimed' \subseteq Claimed /\ started' \in Nat /\ started' >= started
    BY <1>0, <2>1 DEF Claimed, Spaces, Coming
  <2>3. alone' => \A q \in Pages : call'[q].at = "step" => call'[q].deploy = jar'.deploy /\ jar'.deploy # None
    BY <2>1 DEF Frugal
  <2> QED BY <2>1, <2>2, <2>3, FrugalFrame
<1> QED BY <1>1, <1>2, <1>3, <1>4, <1>5, <1>6, <1>7 DEF User

\* What the steps answer is paid for, and only the kv step claims.
LEMMA FrugalServer ==
    ASSUME Inv, Frugal, alone' => alone /\ OneAtATime', NEW p \in Pages, Server(p)
    PROVE  Frugal'
<1> DEFINE d == call[p].deploy
<1>0. /\ call[p].at = "step" /\ UNCHANGED <<jar, started>> /\ started' \in Nat /\ started' >= started
  <2>1. call[p].at = "step" /\ UNCHANGED <<jar, started>>
    BY DEF Server, Access, HasSubdomain, CreateSubdomain, SubdomainTaken, ListWorkers, ListTitles, ChooseName,
           FindNamespace, CreateNamespace, Upload, Publish, CheckPublished, CheckPage, Finish,
           AlreadyComplete, Refused, CloudflareFails, Calls, Running, Reads, Writes, Quiet
  <2> QED BY <2>1 DEF Frugal
<1>1. /\ Asking(cloud, call[p]) /\ Sound(cloud, d) /\ d \in Deployments /\ d.account \in Accounts
      /\ Mine(p) = cloud[d.account] /\ Mine(p) \in Account /\ IsStep(call[p])
  BY <1>0, AskingFacts DEF Asking
<1>2. alone => d = jar.deploy /\ jar.deploy # None /\ Paid(d)
  BY <1>0 DEF Frugal
\* A request that ends, asks on, or answers, when nothing is claimed.
<1>a. ASSUME NEW c, call' = [call EXCEPT ![p] = c], Claimed' \subseteq Claimed,
             \/ c.at = "step" /\ c.deploy = d
             \/ c.at = "answer" /\ (c.deploy = Keep \/ d.next \in Unnamed \/ Place(c.deploy) = Place(d))
      PROVE  Frugal'
  <2>1. ASSUME alone, c.at = "answer", c.deploy \notin {None, Keep}
        PROVE  Cardinality(Claimed \ Place(c.deploy)) < started'
    <3>1. Paid(c.deploy)
      <4>1. CASE d.next \in Unnamed
        BY <1>2, <2>1, <4>1, PaidFacts
      <4>2. CASE Place(c.deploy) = Place(d)
        BY <1>2, <2>1, <4>2 DEF Paid
      <4> QED BY <1>a, <2>1, <4>1, <4>2
    <3> QED BY <1>0, <3>1 DEF Paid
  <2>2. alone /\ c.at = "step" => c.deploy = jar.deploy /\ jar.deploy # None
    BY <1>2, <1>a
  <2> HIDE DEF d
  <2> QED BY <1>0, <1>a, <2>1, <2>2, FrugalMove
<1>b. ASSUME NEW code, Goes(p, Fails(code)), Claimed' \subseteq Claimed PROVE Frugal'
  BY <1>a, <1>b DEF Goes, Fails, Answer
<1>c. ASSUME NEW e \in Deployments, e.next = d.next, e.next # "done", e.account = d.account,
             d.next \in Unnamed \/ e.worker = d.worker, Answers(p, e), Claimed' \subseteq Claimed
      PROVE  Frugal'
  <2> DEFINE c == Answer(TRUE, "step", Advance(e), Keep)
  <2>1. call' = [call EXCEPT ![p] = c]
    BY <1>c DEF Answers
  <2>2. c.at = "answer" /\ c.deploy = Advance(e)
    BY DEF Answer
  <2>3. d.next \in Unnamed \/ Place(Advance(e)) = Place(d)
    BY <1>1, <1>c, PlaceStays
  <2> HIDE DEF c
  <2> QED BY <1>a, <1>c, <2>1, <2>2, <2>3
<1>3. CASE \/ Access(p) \/ CheckPage(p) \/ ChooseName(p) \/ FindNamespace(p) \/ HasSubdomain(p)
  <2>1. Claimed' \subseteq Claimed
    BY <1>3, ClaimedStays DEF Access, CheckPage, ChooseName, FindNamespace, HasSubdomain, Reads
  <2>2. \A n \in Names : LET e == [d EXCEPT !.worker = n] IN
          e \in Deployments /\ e.next = d.next /\ e.account = d.account
    BY <1>1 DEF Deployments
  <2>3. \A x \in Subdomains \cup {None} : LET e == [d EXCEPT !.subdomain = x] IN
          e \in Deployments /\ e.next = d.next /\ e.account = d.account /\ e.worker = d.worker
    BY <1>1 DEF Deployments
  <2>4. LET e == [d EXCEPT !.space = Title(d)] IN
          e \in Deployments /\ e.next = d.next /\ e.account = d.account /\ e.worker = d.worker
    BY <1>1, DeploymentFacts DEF Deployments, Title
  <2>5. CASE Access(p)
    BY <1>1, <1>c, <2>1, <2>5 DEF Access, Running
  <2>6. CASE CheckPage(p)
    BY <1>1, <1>b, <1>c, <2>1, <2>6 DEF CheckPage, Running
  <2>7. CASE ChooseName(p)
    <3>1. d.next = "name" /\ (Goes(p, Fails("error")) \/ \E n \in Names : Answers(p, [d EXCEPT !.worker = n]))
      BY <2>7 DEF ChooseName, Running
    <3> QED BY <1>b, <1>c, <2>1, <2>2, <3>1 DEF Unnamed
  <2>8. CASE FindNamespace(p)
    <3>1. d.next = "kv" /\ (\/ Answers(p, [d EXCEPT !.space = Title(d)])
                            \/ Goes(p, [call[p] EXCEPT !.found = TRUE]))
      BY <2>8 DEF FindNamespace, Running
    <3>2. CASE Answers(p, [d EXCEPT !.space = Title(d)])
      BY <1>c, <2>1, <2>4, <3>1, <3>2
    <3>3. CASE Goes(p, [call[p] EXCEPT !.found = TRUE])
      BY <1>1, <1>a, <2>1, <3>3, FoundFacts DEF Goes, IsStep
    <3> QED BY <3>1, <3>2, <3>3
  <2>9. CASE HasSubdomain(p)
    <3>1. d.next = "prepare" /\ (\/ Answers(p, [d EXCEPT !.subdomain = Mine(p).subdomain])
                                 \/ Goes(p, [call[p] EXCEPT !.found = TRUE]))
      BY <2>9 DEF HasSubdomain, Running
    <3>2. CASE Answers(p, [d EXCEPT !.subdomain = Mine(p).subdomain])
      <4>1. Mine(p).subdomain \in Subdomains \cup {None}
        BY <1>1 DEF Account
      <4> QED BY <1>c, <2>1, <2>3, <3>1, <3>2, <4>1
    <3>3. CASE Goes(p, [call[p] EXCEPT !.found = TRUE])
      BY <1>1, <1>a, <2>1, <3>3, FoundFacts DEF Goes, IsStep
    <3> QED BY <3>1, <3>2, <3>3
  <2> QED BY <1>3, <2>5, <2>6, <2>7, <2>8, <2>9
<1>4. CASE \/ (\E s \in Subdomains : SubdomainTaken(p, s)) \/ ListWorkers(p) \/ ListTitles(p)
           \/ CheckPublished(p) \/ Finish(p) \/ AlreadyComplete(p) \/ Refused(p)
  <2>1. Claimed' \subseteq Claimed
    BY <1>4, ClaimedStays DEF SubdomainTaken, ListWorkers, ListTitles, CheckPublished, Finish,
                              AlreadyComplete, Refused, Reads
  <2>2. /\ [call[p] EXCEPT !.tries = @ + 1].at = "step" /\ [call[p] EXCEPT !.tries = @ + 1].deploy = d
        /\ [call[p] EXCEPT !.found = TRUE].at = "step" /\ [call[p] EXCEPT !.found = TRUE].deploy = d
    <3>1. [call[p] EXCEPT !.tries = @ + 1].at = "step" /\ [call[p] EXCEPT !.tries = @ + 1].deploy = d
      BY <1>1 DEF IsStep
    <3>2. [call[p] EXCEPT !.found = TRUE].at = "step" /\ [call[p] EXCEPT !.found = TRUE].deploy = d
      BY <1>1, FoundFacts DEF IsStep
    <3> QED BY <3>1, <3>2
  <2>3. \A l : /\ [call[p] EXCEPT !.listed.workers = l].at = "step"
               /\ [call[p] EXCEPT !.listed.workers = l].deploy = d
               /\ [call[p] EXCEPT !.listed.titles = l].at = "step"
               /\ [call[p] EXCEPT !.listed.titles = l].deploy = d
    BY <1>1 DEF IsStep
  <2>4. CASE \E s \in Subdomains : SubdomainTaken(p, s)
    BY <1>a, <1>b, <2>1, <2>2, <2>4 DEF SubdomainTaken, Goes
  <2>5. CASE ListWorkers(p) \/ ListTitles(p)
    BY <1>a, <2>1, <2>3, <2>5 DEF ListWorkers, ListTitles, Goes
  <2>6. CASE CheckPublished(p)
    BY <1>a, <1>b, <2>1, <2>2, <2>6 DEF CheckPublished, Goes
  <2>7. CASE Finish(p)
    <3>1. d.next = "complete" /\ call' = [call EXCEPT ![p] = Answer(TRUE, "step", Advance(d), None)]
      BY <2>7 DEF Finish, Running
    <3>2. Place(Advance(d)) = Place(d)
      BY <1>1, <3>1, PlaceStays DEF Unnamed
    <3> QED BY <1>a, <2>1, <3>1, <3>2 DEF Answer
  <2>8. CASE AlreadyComplete(p)
    BY <1>a, <2>1, <2>8 DEF AlreadyComplete, Answer
  <2>9. CASE Refused(p)
    BY <1>b, <2>1, <2>9 DEF Refused
  <2> QED BY <1>4, <2>4, <2>5, <2>6, <2>7, <2>8, <2>9
\* The writes that are not of a namespace.
<1>5. ASSUME NEW e, e.op # "space", Writes(p, e), e \in Pending(p) PROVE Claimed' \subseteq Claimed
  <2>1. cloud' = [cloud EXCEPT ![d.account] = Effected(cloud[d.account], e)] /\ late' = late
    BY <1>1, <1>5 DEF Writes
  <2>2. Effected(cloud[d.account], e).spaces = cloud[d.account].spaces
    <3>1. Harmless(cloud, d.account, e)
      BY <1>0, <1>5, PendingIsHarmless
    <3>2. cloud[d.account] = [subdomain |-> cloud[d.account].subdomain, scripts |-> cloud[d.account].scripts,
                              spaces |-> cloud[d.account].spaces]
      BY <1>1 DEF Account
    <3> QED BY <1>5, <3>1, <3>2 DEF Effected, Harmless
  <2>3. \A b \in Accounts : cloud'[b].spaces = cloud[b].spaces
    BY <1>1, <2>1, <2>2 DEF Inv
  <2>4. Spaces' = Spaces
    BY <2>3 DEF Spaces
  <2> QED BY <2>1, <2>4 DEF Claimed, Coming
<1>6. CASE \E s \in Subdomains : CreateSubdomain(p, s)
  <2>1. PICK s \in Subdomains : CreateSubdomain(p, s)
    BY <1>6
  <2> DEFINE e == [op |-> "subdomain", name |-> s]
             f == [d EXCEPT !.subdomain = s]
  <2>2. d.next = "prepare" /\ call[p].found /\ Writes(p, e) /\ Answers(p, f) /\ e.op # "space"
    BY <2>1 DEF CreateSubdomain, Running
  <2>3. e \in Pending(p)
    BY <2>2 DEF Pending
  <2>4. f \in Deployments /\ f.next = d.next /\ f.account = d.account /\ f.worker = d.worker
    BY <1>1 DEF Deployments
  <2> HIDE DEF e, f
  <2> QED BY <1>5, <1>c, <2>2, <2>3, <2>4
<1>7. CASE Upload(p)
  <2> DEFINE e == [op |-> "script", name |-> d.worker, space |-> d.space]
  <2>1. d.next = "upload" /\ Writes(p, e) /\ Answers(p, d) /\ e.op # "space"
    BY <1>7 DEF Upload, Running
  <2>2. e \in Pending(p)
    BY <2>1 DEF Pending
  <2> HIDE DEF e
  <2> QED BY <1>1, <1>5, <1>c, <2>1, <2>2
<1>8. CASE Publish(p)
  <2> DEFINE e == [op |-> "publish", name |-> d.worker]
             f == [d EXCEPT !.url = <<d.worker, d.subdomain>>]
  <2>1. d.next = "publish" /\ Writes(p, e) /\ Answers(p, f) /\ e.op # "space"
    BY <1>8 DEF Publish, Running
  <2>2. e \in Pending(p)
    BY <2>1 DEF Pending
  <2>3. d.worker \in Names /\ d.subdomain \in Subdomains \cup {None}
    BY <1>1, <2>1, DeploymentFacts DEF Sound, Named
  <2>4. f \in Deployments /\ f.next = d.next /\ f.account = d.account /\ f.worker = d.worker
    BY <1>1, <2>3 DEF Deployments
  <2> HIDE DEF e, f
  <2> QED BY <1>5, <1>c, <2>1, <2>2, <2>4
\* The one that is, at once or later.
<1>9. CASE CreateNamespace(p)
  <2> DEFINE e == [op |-> "space", name |-> d.worker]
             f == [d EXCEPT !.space = d.worker]
             c == Answer(TRUE, "step", Advance(f), Keep)
  <2>1. d.next = "kv" /\ Writes(p, e) /\ call' = [call EXCEPT ![p] = c]
    BY <1>9 DEF CreateNamespace, Running, Title, Answers
  <2>2. d.worker \in Names
    BY <1>1, <2>1 DEF Sound, Named
  <2>3. f \in Deployments /\ f.next = d.next /\ f.account = d.account /\ f.worker = d.worker
    BY <1>1, <2>2 DEF Deployments
  <2>4. Place(Advance(f)) = Place(d)
    BY <1>1, <2>1, <2>3, PlaceStays DEF Unnamed
  <2>5. c.at = "answer" /\ c.deploy = Advance(f)
    BY DEF Answer
  <2>6. cloud' = [cloud EXCEPT ![d.account] = Effected(cloud[d.account], e)] /\ late' = late
    BY <1>1, <2>1 DEF Writes
  <2>7. \A n \in Names \ {d.worker} : Effected(cloud[d.account], e).spaces[n] = cloud[d.account].spaces[n]
    BY <1>1, <2>2 DEF Effected, Account
  <2>8. Claimed' \subseteq Claimed \cup Place(d)
    <3>1. \A b \in Accounts, n \in Names :
            <<b, n>> = <<d.account, d.worker>> \/ cloud'[b].spaces[n] = cloud[b].spaces[n]
      BY <1>1, <2>6, <2>7 DEF Inv
    <3>2. ASSUME NEW at \in Spaces' PROVE at \in Spaces \cup {<<d.account, d.worker>>}
      <4>1. at \in Accounts \X Names /\ at = <<at[1], at[2]>> /\ cloud'[at[1]].spaces[at[2]] = "wizard"
        BY <3>2 DEF Spaces
      <4> QED BY <3>1, <4>1 DEF Spaces
    <3>3. Place(d) = {<<d.account, d.worker>>}
      BY <2>1 DEF Place, Unnamed
    <3> QED BY <2>6, <3>2, <3>3 DEF Claimed, Coming
  <2> HIDE DEF c, e, f
  <2> QED BY <1>0, <2>1, <2>4, <2>5, <2>8, FrugalClaim
<1>10. CASE CloudflareFails(p)
  <2>1. call' = [call EXCEPT ![p] = Fails("error")] /\ cloud' = cloud
    BY <1>10 DEF CloudflareFails, Goes
  <2>2. \/ late' = late
        \/ \E e \in Pending(p) : late' = late \cup {[account |-> d.account, effect |-> e]}
    BY <1>10 DEF CloudflareFails
  <2>3. Fails("error").at = "answer" /\ Fails("error").deploy = Keep
    BY DEF Fails, Answer
  <2>4. Spaces' = Spaces
    BY <2>1 DEF Spaces
  <2>5. CASE d.next = "kv"
    <3>1. Place(d) = {<<d.account, d.worker>>}
      BY <2>5 DEF Place, Unnamed
    <3>2. \A e \in Pending(p) : e = [op |-> "space", name |-> d.worker]
      BY <2>5 DEF Pending, Title
    <3>3. ASSUME NEW l \in late' PROVE l \in late \/ (l.account = d.account /\ l.effect.name = d.worker)
      BY <2>2, <3>2, <3>3
    <3>4. Claimed' \subseteq Claimed \cup Place(d)
      BY <2>4, <3>1, <3>3 DEF Claimed, Coming
    <3> QED BY <1>0, <2>1, <2>3, <2>5, <3>4, FrugalClaim
  <2>6. CASE d.next # "kv"
    <3>1. \A e \in Pending(p) : e.op # "space"
      BY <2>6 DEF Pending
    <3>2. \A l \in late' : l.effect.op = "space" => l \in late
      BY <2>2, <3>1
    <3>3. Claimed' \subseteq Claimed
      BY <2>4, <3>2 DEF Claimed, Coming
    <3> QED BY <1>b, <2>1, <3>3 DEF Goes
  <2> QED BY <2>5, <2>6
<1> QED BY <1>3, <1>4, <1>6, <1>7, <1>8, <1>9, <1>10 DEF Server

\* What came late was claimed before.
LEMMA FrugalLate ==
    ASSUME Inv, Frugal, alone' => alone /\ OneAtATime', NEW l \in late, LateEffect(l)
    PROVE  Frugal'
<1>1. UNCHANGED <<jar, call, started>> /\ late' \subseteq late /\ started' \in Nat /\ started' >= started
  <2>1. UNCHANGED <<jar, call, started>> /\ late' \subseteq late
    BY DEF LateEffect
  <2> QED BY <2>1 DEF Frugal
<1>2. l.account \in Accounts /\ Harmless(cloud, l.account, l.effect) /\ cloud[l.account] \in Account
  BY DEF Inv, Pendings
<1>3. Coming' \subseteq Coming
  BY <1>1 DEF Coming
<1>4. Spaces' \subseteq Claimed
  <2>1. CASE cloud' = cloud
    BY <2>1 DEF Spaces, Claimed
  <2>2. CASE cloud' = [cloud EXCEPT ![l.account] = Effected(cloud[l.account], l.effect)]
    <3>1. cloud[l.account] = [subdomain |-> cloud[l.account].subdomain, scripts |-> cloud[l.account].scripts,
                              spaces |-> cloud[l.account].spaces]
      BY <1>2 DEF Account
    <3>2. CASE l.effect.op # "space"
      <4>1. Effected(cloud[l.account], l.effect).spaces = cloud[l.account].spaces
        BY <1>2, <3>1, <3>2 DEF Effected, Harmless
      <4>2. \A b \in Accounts : cloud'[b].spaces = cloud[b].spaces
        BY <1>2, <2>2, <4>1 DEF Inv
      <4> QED BY <4>2 DEF Spaces, Claimed
    <3>3. CASE l.effect.op = "space"
      <4>1. l.effect.name \in Names
        BY <1>2, <3>3 DEF Harmless
      <4>2. \A n \in Names \ {l.effect.name} :
              Effected(cloud[l.account], l.effect).spaces[n] = cloud[l.account].spaces[n]
        BY <1>2, <3>3, <4>1 DEF Effected, Account
      <4>3. \A b \in Accounts, n \in Names :
              <<b, n>> = <<l.account, l.effect.name>> \/ cloud'[b].spaces[n] = cloud[b].spaces[n]
        BY <1>2, <2>2, <4>2 DEF Inv
      <4>4. <<l.account, l.effect.name>> \in Coming
        BY <1>2, <3>3, <4>1 DEF Coming
      <4>5. ASSUME NEW at \in Spaces' PROVE at \in Spaces \cup {<<l.account, l.effect.name>>}
        <5>1. at \in Accounts \X Names /\ at = <<at[1], at[2]>> /\ cloud'[at[1]].spaces[at[2]] = "wizard"
          BY <4>5 DEF Spaces
        <5> QED BY <4>3, <5>1 DEF Spaces
      <4> QED BY <4>4, <4>5 DEF Claimed
    <3> QED BY <3>2, <3>3
  <2> QED BY <2>1, <2>2 DEF LateEffect
<1>5. alone' => \A q \in Pages : call'[q].at = "step" => call'[q].deploy = jar'.deploy /\ jar'.deploy # None
  BY <1>1 DEF Frugal
<1>6. Claimed' \subseteq Claimed
  BY <1>3, <1>4 DEF Claimed
<1> QED BY <1>1, <1>5, <1>6, FrugalFrame

\* Namespaces never come to outnumber the deployments started.
LEMMA FrugalStep == Inv /\ Frugal /\ [MCNext]_mcVars => Frugal'
<1> SUFFICES ASSUME Inv, Frugal, [MCNext]_mcVars PROVE Frugal'
  OBVIOUS
<1>1. alone' => alone /\ OneAtATime'
  <2>1. CASE MCNext
    <3>1. ASSUME alone' PROVE alone /\ Cardinality({p \in Pages : call'[p] # Idle}) < 2
      BY <2>1, <3>1 DEF MCNext, Busy
    <3> QED BY <3>1, Alone DEF OneAtATime
  <2>2. CASE UNCHANGED mcVars
    BY <2>2 DEF mcVars, vars, Frugal, OneAtATime
  <2> QED BY <2>1, <2>2
<1>2. CASE UNCHANGED mcVars
  <2>1. UNCHANGED <<cloud, jar, call, late, started, alone>>
    BY <1>2 DEF mcVars, vars
  <2>2. Claimed' \subseteq Claimed /\ started' \in Nat /\ started' >= started
    BY <2>1, ClaimedStays DEF Frugal
  <2>3. alone' => \A q \in Pages : call'[q].at = "step" => call'[q].deploy = jar'.deploy /\ jar'.deploy # None
    BY <2>1 DEF Frugal
  <2> QED BY <1>1, <2>1, <2>2, <2>3, FrugalFrame
<1>3. CASE \E p \in Pages : User(p) \/ Loads(p) \/ Post(p) \/ Deliver(p) \/ Lose(p)
  BY <1>1, <1>3, FrugalUser
<1>4. CASE \E p \in Pages : Server(p)
  BY <1>1, <1>4, FrugalServer
<1>5. CASE Expire
  <2>1. UNCHANGED <<cloud, call, late, started>> /\ jar' = [jar EXCEPT !.auth = None]
    BY <1>5 DEF Expire
  <2>2. jar'.deploy = jar.deploy
    BY <2>1 DEF Inv, Cookies
  <2>3. Claimed' \subseteq Claimed /\ started' \in Nat /\ started' >= started
    BY <2>1, ClaimedStays DEF Frugal
  <2>4. alone' => \A q \in Pages : call'[q].at = "step" => call'[q].deploy = jar'.deploy /\ jar'.deploy # None
    BY <1>1, <2>1, <2>2 DEF Frugal
  <2> QED BY <1>1, <2>1, <2>2, <2>3, <2>4, FrugalFrame
<1>6. CASE \E l \in late : LateEffect(l)
  BY <1>1, <1>6, FrugalLate
<1> QED BY <1>2, <1>3, <1>4, <1>5, <1>6 DEF MCNext, Next

\* Unless two requests were under way at once, there are never more namespaces of the
\* wizard than deployments were started, however often their steps failed and were retried
\* (wizard/lib/deployment.js: "the current step is safe to retry").
THEOREM RetriesLeaveNoOrphans == MCSpec => []RetryLeavesNoOrphans
<1>1. MCInit => Frugal
  <2> SUFFICES ASSUME MCInit PROVE Frugal
    OBVIOUS
  <2>1. Spaces = {}
    <3>1. \A a \in Accounts, n \in Names : cloud[a].spaces[n] # "wizard"
      <4> SUFFICES ASSUME NEW a \in Accounts, NEW n \in Names PROVE cloud[a].spaces[n] # "wizard"
        OBVIOUS
      <4> QED BY InitUnwritten DEF MCInit
    <3> QED BY <3>1 DEF Spaces
  <2>2. Claimed = {} /\ call = [p \in Pages |-> Idle] /\ started = 0 /\ jar.deploy = None
    BY <2>1 DEF Claimed, Coming, MCInit, Init
  <2> QED BY <2>2, FS_EmptySet DEF Frugal, OneAtATime, Idle
<1>2. Frugal => RetryLeavesNoOrphans
  <2> SUFFICES ASSUME Frugal, alone PROVE Cardinality(Spaces) <= started
    BY DEF RetryLeavesNoOrphans
  <2>1. IsFiniteSet(Claimed) /\ Cardinality(Claimed) <= started /\ started \in Nat /\ Spaces \subseteq Claimed
    BY DEF Frugal, Claimed
  <2>2. Cardinality(Spaces) <= Cardinality(Claimed) /\ Cardinality(Spaces) \in Nat /\ Cardinality(Claimed) \in Nat
    BY <2>1, Fewer
  <2> QED BY <2>1, <2>2
<1> QED BY <1>1, <1>2, FrugalStep, Invariance, PTL DEF MCSpec
=============================================================================
