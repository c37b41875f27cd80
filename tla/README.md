# RayZen Panel: a verification development

This directory holds TLA+ modules that model the RayZen Panel Worker, TLC
configurations that check them on small instances, and TLAPS proofs of what
matters most for every instance. File and line references are to this
repository; `src/…` in this text is the Worker's `src/` directory.

Contents: 1 the program · 2 inventory · 3 plan · 4 the modules · 5 the runs ·
6 what the violated properties show · 7 observations · 8 fairness · 9 proofs ·
10 assumptions and limits · 11 not modelled.

## 1. What the program is

One Cloudflare Worker (`src/worker.ts`) serves a proxy data plane (VLESS and
Trojan over WebSocket), subscription documents, and an operator panel. All its
durable state is a KV namespace. A second program, the deployment wizard
(`wizard/`), puts the first into a user's Cloudflare account and keeps no state
of its own but an encrypted cookie. Three facts decide which behaviours are hard:

* **Many isolates, many interleaved requests.** Cloudflare starts and evicts
  isolates at will. Inside one isolate requests run on one thread but interleave
  at every `await`, and they share the module-level variables (`cached`,
  `globalSettings`, `resolvedIdentity`, `kvSettings`, `warpAccounts`, the traffic
  `accumulator`). Different isolates share only KV.
* **KV is get and put.** There is no compare-and-swap and no transaction, so each
  update is a read, some awaits, and a write of a whole document; and any call
  may be refused.
* **Whoever calls may stop waiting.** Sockets open after their timer fired,
  clients leave in the middle of a stream, a browser loses an answer and sends
  the same cookie again.

## 2. Inventory

For each component: the state it keeps, its operations, what it interacts with,
what is hard about it, and what it should guarantee. PROJECT.json lists the same
components with their sources, and the hazards at their lines.

| Component | State | Operations | Interacts with | Hard behaviours | Correct when | Module |
|---|---|---|---|---|---|---|
| Identity and first-run setup (`settings/identity.ts`, `handlers/setup.ts`) | KV `rz:identity`, `pwd`; `cached` and `resolvedIdentity` per isolate | bootstrap, cache, claim, save, invalidate | every request, through `init` | racing first requests, racing claims, failure between two writes, stale caches | nobody is locked out, nobody takes a claimed deployment, credentials never regenerate | Setup |
| Platform documents (`platform/repositories.ts`) | KV `rz:*`; per request: `cached`, `dirty`, promise chain | read, update, flush | history, metrics, scanner, profiles | concurrent listeners, a throwing mutator, flush against late updates, other isolates' writes | updates are atomic and ordered, a flush covers what was queued | PlatformDocument |
| Subscription profiles (`features/profiles.ts`, `api/platform.ts`) | KV `rz:profiles` | fetch, create, enable, disable, delete, limit, reset | subscriptions, platform documents | whole-list overwrites, refused reads read as empty | expiry exact, revocation holds, limits | Profiles |
| Panel settings (`settings/kv.ts`, `load.ts`, `settings.ts`) | KV `proxySettings`; `kvSettings` per isolate | load, migrate, merge, patch, preset, bot command, reset | all configuration builders, the panel, the bot | stale module memory, two builds at once, lost updates | an edit changes what it says, the stamp and derived settings stay consistent | SettingsStore |
| Sessions and passwords (`auth/*`) | KV `pwd`, `secretKey`; cookies | sign in, verifier upgrade, authenticate, change the password | setup, quick-add | two first sign-ins, an upgrade racing a change | only a session opens the panel; sessions and the last password survive | Sessions |
| Quick-add codes (`handlers/quick-add.ts`) | a KV entry per code | mint, redeem, revoke | sessions | two redemptions, failure after the delete | a code signs in once | Sessions |
| Subscription requests, request globals (`worker.ts`, `handlers/subscription.ts`) | `globalSettings` per isolate | init, route, getGlobals, answer | every generator | globals read after an await belong to another request | a request is answered for its own path, host and client | Subscriptions |
| Configuration generators (`cores/*`) | none | Xray, sing-box, Clash, raw links, WireGuard archive | settings | five dialects of one description, names built from numbers | every name is declared, nothing needs itself, traffic is proxied, all clients get the same | Offers, ClientConfig, XrayConfigs, SingBoxConfigs, ClashConfigs, RawLinks, WireguardArchive |
| Scanner, one run (`features/scanner/probe.ts`, `scoring.ts`, `service.ts`) | a pool of workers, sockets, timers | normalise, connect, time out, score, summarise | events | a timeout against a late answer, a socket left open | each candidate once and as it was, every socket closed, the run ends | Probing |
| Scan history and learning (`candidates.ts`, `blocks.ts`, `lifecycle.ts`, `optimize.ts`, `handlers/scan.ts`) | KV `rz:scanner` | plan, record, prefer, advise | settings, documents | old observations steering new scans | old scans do not mislead, advice settles | ScanLearning |
| Events, recorder, history, metrics (`platform/events.ts`, `context.ts`, `record.ts`, `features/history`, `features/analytics`) | listeners and pending promises of a request; KV `rz:history`, `rz:metrics` | emit, settle, dispose, record, prune | documents | two writers of one key, a refused put, retention | nothing counted twice, nothing lost without a cause | MetricsDocuments, Metrics |
| Traffic (`features/analytics/traffic.ts`) | `accumulator` per isolate; KV `rz:metrics` | count, flush, clear | metrics | cleared before the put, failed reads, the shared key | as above, within the write budget | Metrics |
| Relay (`protocols/*`) | two sockets and two pipes per tunnel | first chunk, relay, retry, DNS, close | traffic, identity | a retry while chunks arrive, half-closed streams, the writer's lock | nothing reordered, the end of one side reaches the other | Relay |
| Deployment wizard (`wizard/`) | two cookies carried by the browser; the Cloudflare account | the steps of a deployment, authorisation, retry | Cloudflare API | retries after unknown outcomes, replayed states, two pages | a retry converges, what is there is kept, what is announced is served | Deployment |
| Diagnostics and feature states (`features/diagnostics`, `platform/features.ts`) | none | checks, score, states | advice | the score against the findings | failures are not hidden | Diagnosis |
| Presets, optimisation, recommendations, health (`features/*`) | none | patch, rank, merge, reduce | diagnostics, scanner | advice that undoes advice, deduplication hiding a finding | presets do no harm, advice is honest | Advice |
| Settings validators (`settings/validators.ts`) | none | accept or refuse a form | panel | patches that bypass them | what is stored stays acceptable | Validation |
| Backup and migration (`features/backup`, `features/migration`) | a file | redact, validate, plan | the form | other versions, hand-edited files | a restore is exact and keeps the identity | Backups |
| Panel form (`assets/panel/script.js`, `handlers/panel.ts`, `settings/main.ts`, routes of `api/platform.ts`) | the form and saved copy of each tab; KV documents; identity cache | load, edit, save, preset, mode, import, restore, health centre | validators, backups, advice | a save of two documents that half fails, stale tabs, late writes | a save that is reported is stored, restores are exact | PanelForm |

Interactions are of three kinds: calls inside a request; module variables shared
by the requests of an isolate; KV keys shared by everything. There are no locks,
queues or messages between isolates. Every conflict the modules of the Worker
explore is therefore an interleaving of gets, puts and assignments to module
variables; those of the scanner, the relay and the wizard add sockets, timers
and an external service.

## 3. Plan

Modules in order of importance; all are done.

| # | Module | Composes / implements | What it shows |
|---|---|---|---|
| 1 | Setup | – | the claim and the identity under races, failures and evictions |
| 2 | DocumentUpdates, AtomicDocument, PlatformDocument | PlatformDocument implements AtomicDocument | the promise chain and the flush |
| 3 | Profiles | a document as one get and one put | what survives whole-list overwrites |
| 4 | SettingsStore | – | migration, merge and reset over stale memory |
| 5 | Sessions | – | passwords, secret, verifier upgrade, one-time codes |
| 6 | MetricsDocuments, Metrics | two writers of one document | no double count, no unexplained loss |
| 7 | Offers, ClientConfig, XrayConfigs, SingBoxConfigs, ClashConfigs, RawLinks, WireguardArchive, Subscriptions | Subscriptions composes the generators | the documents handed out |
| 8 | ScanCommon, Probing, ScanLearning | MCMeasuring composes them with 6 | probe pool, timeouts, learning |
| 9 | Relay | MCServing composes it with 2 and 7 | socket pair with a retry |
| 10 | Deployment | external Cloudflare state | retries converge |
| 11 | Diagnosis, Advice, Validation, Backups, PanelForm | PanelForm composes them | the form, from the tab to KV |
| 12 | SetupProofs, DocumentProofs, SettingsStoreProofs, SessionsProofs, MeasuringProofs, RelayProofs, DeploymentProofs, PanelFormProofs | extend 1–6, 8–11 | the invariants for every instance (section 9) |

To model next, if anything: the Telegram webhook (the record against the service)
and the WARP accounts.

To keep the checks cheap, components that share no state are checked in one run, one
part at a time (`serving`, `measuring`). A violation run is spent where the code
contradicts what the repository says of it and an operator would notice.

## 4. The modules

### Setup (MCSetup, SetupProofs)

State: the two KV keys, `cached` and `resolved` per isolate, and per request its
step, isolate, the identity it was routed with (`ident`), the record in its hand
(`doc`), the path a save submits and its outcome. One action is one stretch of
code between two awaits:

| Action | Code |
|---|---|
| Begin, GetIdentity, Bootstrap, Install | `resolveIdentity` (identity.ts:238–340): cache hit, get, generate and put, cache |
| Route, Adopt (inside Install and GetIdentity) | `init` and `route` (settings.ts:56, worker.ts:43) |
| NeedsSetup, Recheck, Hash, ReadRecord, WriteRecord, Invalidate, WritePassword | `handleSetup`, `claim`, `claimIdentity` (setup.ts:95–189, identity.ts:349–386) |
| Authenticate, Compare | `authenticate`, `updateMainSettings` |
| KvFails, Evict | the environment |

Random values are named after the request that draws them, so that two
generated identities never coincide. A path stands for the whole set of
generated credentials. The embedded identity of a packaged artifact does not
touch KV and is left out; so is an account-id session subject. MCSetup orders
the kinds of the requests and pins the first request to the first isolate, which
is the symmetry of requests and isolates by hand: a liveness property is checked
in the same run, for which TLC's own reduction is unsound.

### DocumentUpdates, AtomicDocument, PlatformDocument (MCServing, DocumentProofs)

`PlatformDocument` is `createDocument`: `update` queues a link on the promise
chain (CallUpdate), the head link loads (StartLoad) and applies (Apply,
LoadThenApply), `read` runs outside the chain (CallRead, LoadThenRead), `flush`
waits for the chain as it stood, serialises, puts and clears the dirty flag
(CallFlush, CheckDirty, FlushLands, FlushFails). `OtherWrites` is another request on
the same key. `DocumentUpdates` holds the bounded-list mutators. `AtomicDocument`
says what a caller may rely on: updates one at a time in call order, each once,
a thrown one without effect, a flush of one instant's document.
`Orderly` is the discipline every caller in `src/` keeps: it awaits its read
before it updates.

### Profiles (MCProfiles, DocumentProofs)

A request reads the list and computes the list it will put in one step (Fetch,
Create, Update), and puts it in another (PutLands, PutFails); these two steps are
what PlatformDocument's read, update and flush amount to for a request that uses
the document once. The rules (`Status`, `ShouldPersistUse`, `RecordUse`,
`NewProfile`, `Updated`) are those of `features/profiles.ts`. Time is in hours, the
unit of the counter's throttle. History variables record what was issued, served
and revoked. MCProfiles explores two kinds of deployment in one run: *busy*, two
overlapping requests with refused calls, and *quiet*, one request at a time and a
KV that answers, where more is promised.

### SettingsStore (MCSettingsStore, SettingsStoreProofs)

State: `proxySettings`, `kvSettings` of each isolate (`memory`), and per request
what it captured of the memory (`base`), the document it holds (`doc`) and the
settings it submits (`edit`). `ReadSettings`, `Migrate` and `PutDefaults` are
`getDataset`; `Merge`, `ReadCurrent` and `PutSettings` are
`updateDatasetDetailed`; `View`, `Serve`, `AwaitCommand`, `ApplyPreset`,
`PatchList`, `StoreList`, `Command`, `BeginForm`, `BeginList` and `BeginReset` are
its callers. A document is three settings that behave differently in the merge:
an ordinary scalar with a derived companion (`remoteDNS` and `remoteDnsHost`), a
list (`cleanIPs`) and the build stamp. The other derived parameters follow the
same two rules. What a loading request is for is decided after its load, which
is the first point at which it makes a difference. Each isolate runs a build of
its own, so a rollout and a rollback are instances.

### Sessions (MCSessions, SessionsProofs)

State: the verifier (`password`), the signing secret (`secret`), the entries of
unused codes, what has expired (`stale`), and per request its step, what it
carries (a typed password, a cookie, a code) and what it read (`held`). Begin
takes a request up to its first KV call; ReadPassword, PutUpgrade, ReadSecret and
PutSecret are `login` (auth.ts:88–147) with the upgrade of an old verifier and
the drawing of the secret; Authenticate, ReadOld and PutPassword are
`authenticate` and `resetPassword`; PutCode, GetCode and DeleteCode are
quick-add.ts. CallFails refuses whichever call a request waits for; Expires is
the clock, which only ever passes a limit. A secret and a session are named after
the request that drew or received them. A verifier is the password with its form
(plain, weak, current, or over the limit of what a Worker computes).

### Offers … Subscriptions (MCSubscriptions, MCServing)

The generators are pure functions, so each is an operator from the settings to a
`ClientConfig`: a sequence of named parts (servers, chain proxies, groups, DNS
servers, rule sets), each with the parts it works by way of, the parts the rules
name, and where the rest of the traffic goes. `Offers` is what all take from the
form (addresses, ports, names on offer, rules and geo assets); `XrayConfigs`,
`SingBoxConfigs` and `ClashConfigs` are the three dialects; `RawLinks` is a text
of which only the line ends matter; `WireguardArchive` is the zip writer by
lengths and offsets. `Subscriptions` is the request around them: Save (the form),
Arrive (`init` puts what the request asks for into the globals), Serve (the
handler reads them after it awaited the settings, and calls a generator), Fail.
An answer is kept as the generator called and the settings it saw, beside what the
request asked for, so that requests that overlap can be told apart.

Left out: TLS and transport detail, the noise of Warp Pro, custom rule lists
beyond one of each kind, the profile path (Profiles). `Coherent(s)` names the
settings the names' property excepts, each with its reason (section 7).

### ScanCommon, Probing, ScanLearning (MCMeasuring, MeasuringProofs)

`ScanCommon` is what both halves use: rounding, sums, the list a set makes in an
order, and what is at some places of a list.
`Probing` is one run: `toTargets` and the clamps (RunInit), workers that take the
next target (TakeNext), Connect, see a socket open in time (Opens), after the timer
(OpensLate), refused (Refuses), throw, or run out of time (TimesOut), and Close;
Complete aggregates, scores and ranks, Summarise records. A lost race is not
cancelled, so a socket may open while it is being closed. `fate` remembers what
became of every connection, which the report is compared with.

`ScanLearning` is the history: Plan (`planCandidates` with what was learned),
RecordScan (the report of a browser, scored here), Abandon, PanelScan (of either
kind: the page asks for `clean-ip`, script.js:1660), DaysPass. An address is a block
and a host; time moves by whole weeks, the half-life of observations, so weights are
powers of two; equal scores are ordered by address number; a prefix longer than /24
may yield its broadcast address, as the code does. The address that `optimize`
displays as recommended is left out (section 7 says what it may be). MCMeasuring
runs either part, or Metrics: they meet only in the row a run leaves in
`rz:scanner`.

### MetricsDocuments, Metrics (MCMeasuring, MeasuringProofs)

`MetricsDocuments` is data: the hourly and daily series under `rz:metrics`, the
log under `rz:history`, retention, and what each subscriber makes of an event.
`Metrics` is the request: Begin (the handler publishes its events on a platform of
its own and dispose starts the puts), Record (each put answers), Measure (the
response is counted in the isolate's memory), FlushRead and FlushPut
(`flushTraffic`), Sent (a streamed body ends later), ClearMemory, ClearRead and
ClearPut (`clearTraffic`), Evict and Tick. `excused` records what the code accepts
losing counts to: an eviction, a refused call, two writers of the key. One refused
call is explored; publishing is one step; a tick needs a free slot among the
requests in flight.

### Relay (MCServing, RelayProofs)

One tunnel. Client steps send chunks, receive and leave; Worker steps are the
turns of the runtime: the first chunk is parsed and led to a remote (`route`), to
DNS over HTTPS, or refused; the upward pipe writes one chunk at a time and throws
when the writer is taken; each socket has a downward pipe; a socket that ends
without a byte is retried through a proxy address or a prefix. Remote steps
answer, end, reset, refuse. Headers are the branches the parsers take; chunks are
numbers in the order sent.

### Deployment (MCDeployment, DeploymentProofs)

State: Cloudflare's account (`cloud`: subdomain, namespaces, scripts), the
browser's cookie `jar`, the pages, one request per page (`call`), and the late
effects of failed calls. A step of the server decrypts a cookie, makes its calls
one after the other and answers with the advanced cookie; an answer may be
delivered or lost. Pages follow app.js: they start, post, retry, reconnect, discard.
`Start` and `StartFails` are what `start()` makes of bootstrap, session and accounts;
`Refresh` and `RefreshFails` the session that is read again before the loop of a
deployment begun or resumed on the page; a page without a deployment whose button is
pressed is *stuck*, as app.js:216 and 224 leave it.
Cloudflare is external: it refuses a second namespace of a title, a second
subdomain, an unknown binding and a dead token. MCDeployment adds `alone`: no two
requests were ever under way at once. Left out: the checks of the artifact, CSRF,
the cryptography of cookies and the age of the deployment cookie.

### Diagnosis, Advice, Validation, Backups, PanelForm (MCPanelForm, PanelFormProofs)

The first four are functions. `Diagnosis` computes findings, score and feature
states from the settings and the world around them; `Advice` the presets, the
optimisation profiles, the ranked advice and the health centre; `Validation`
which forms the server accepts, over texts known by their kind; `Backups` the
redacted envelope, its validation and the plan of a restore.

`PanelForm` composes them with the form of each tab. Operator actions: edit, save,
stage a preset, choose a mode, export, import, restore, consult the health
centre. Server actions: the two writes of a save land, fail, or land late after
the save was answered 500 (`landing`). `promise` and `goal` are history: the form
last reported as saved while nothing else was writing, and the form a restore was
to produce. Tabs start loaded; a form the validators refuse is a stutter; lists
are sets; the health centre ends the operator's acts; reset is SettingsStore's.

## 5. The runs

| Run | Question | Bounds and why they are enough |
|---|---|---|
| `setup` | what stays true of identity, password and owner; does a claim whose calls are answered succeed | 3 requests, at least one page or save and one or two claims, 2 in flight, 2 isolates: a race needs two requests, a stale cache two isolates, a bystander a third request; absent, corrupt and deployed starts; refused calls, rejected hashes, evictions |
| `profiles` | what survives overlapping whole-list puts, and what is exact without | 2 links under a cap of 2, 2 requests, limit 1 and lifetime 1 so that both are reached; busy or quiet as above |
| `settings` | derived host, who writes, what an edit changes | 2 overlapping requests of 6 kinds in one isolate that may lose its memory; KV empty, of an old build or of the running one; 2 resolvers, 2 entries with both caps 1, so a list can be refused |
| `settings_upgrade` | does a migration keep the settings | 2 isolates of different builds, loads only; expected to be violated |
| `sessions` | codes, sessions, passwords | 3 requests of 6 kinds, 2 in flight, 2 passwords, one code that may expire, a weak and an over-limit verifier at the start, a deployment with and without a secret, refused calls |
| `subscriptions_overlap` | is an answer the request's own | 2 overlapping requests, one form; expected to be violated |
| `serving` | coverage of a flush, settling, refinement; names, default route, agreement of clients, answers; order, and ends reaching the other side | document: 2 appends, a clear and a throw, with retention 2 (the cap bites at the third entry), 2 reads, 1 flush, another writer, faults. Subscriptions: three families of forms (what is on offer, what rules and resolvers refer to, the chain link), every kind and client, two host names, one request for each form and two, overlapping, for the default one. Tunnel: 4 chunks and 2 replies, so chunks arrive before, during and after a retry; both protocols and both ways of retrying; TCP, DNS, other UDP and a stranger |
| `measuring` | one run's report; what weeks of scans do; where every count ends up | run: 2 workers, 3 of up to 5 candidates (one doubled, one known to be out of reach, one only the runtime refuses, one unreadable), 2 attempts of every fate. Weeks: 2 prefixes, 2 scans of a device or of the panel, of either kind; an empty start, one with a block no longer published, and one whose winning clean IP has left the published space. Traffic: 3 requests (a page, a recorder, a page or a reset), 2 in flight, 2 isolates, 3 hours over 2 days with 1 day and 2 hours kept, a flush due at 2 requests or 2 hours, one refused call, eviction |
| `scanner_proxied` | is what is out of reach told from what is dead | the constants of `measuring`; expected to be violated |
| `deployment` | safe retries, what is kept, what is announced | one account of one or two authorised, leftovers of an earlier deployment, 2 pages, 2 troubles (a failed or late call, a lost answer, an expiry, a second start), 2 tokens, 2 names, a taken subdomain; a second page counts as both troubles |
| `panel_restore` | is a staged restore the effect its plan showed | the constants of `panel`; expected to be violated |
| `panel` | saved, valid, restored, harmless, honest | 2 tabs, 2 isolates, 4 acts, 1 write that fails or lands late, default and badly chosen settings, backups of this and of other deployments, 4 surroundings |

The caps stand for `MAX_CLEAN_IPS`, `MAX_ENTRIES`, `MAX_PROFILES`,
`RETENTION`, `PROBE_LIMITS`, `FLUSH_REQUESTS`; what matters is the list or counter
that reaches them. `MaxHour`, `MaxServed`, `MaxClock`, `MaxScans`, `MaxActs` and
`MaxTrouble` bound behaviours; `MaxInFlight` bounds overlap. In
SettingsStore memory and KV of one isolate diverge through puts (which do not
update the memory) and through eviction, which is what further isolates would
add; the proofs cover any number of them. Where a liveness property is checked
(setup, serving, measuring, deployment) no symmetry is used.
Deadlock is not checked where behaviours end by design: requests are finite, or
every history bound can be reached.

What each run shows:

* **setup**: a claimed deployment shows its setup page to nobody
  (SetupStaysClosed), a stored password has an owner in KV first
  (PasswordHasOwner), a claim nobody contests owns what it disclosed
  (UncontestedClaimOwns), no step replaces credentials that were kept
  (NeverRegenerated), and a claim whose calls are answered ends claimed
  (ClaimSucceeds).
* **serving**, the document: a flush covers what was queued before it, every call settles, and
  the chain implements AtomicDocument.
* **profiles**: ExpiryExact and RevocationHolds whatever overwrites what;
  QuietLimits and QuietLinksKept where requests do not overlap.
* **settings**: HostMatches, SteadyReadsOnly, UncontestedEditIsExact.
* **sessions**: a code signs in once and not after its revocation
  (CodeServesOnce); a session is honoured (SessionsSurvive) and the last password
  holds (LastPasswordHolds), each *unless* a sign-in already under way put its own
  secret or verifier: these exceptions are the races of auth.ts:104–108, and the
  properties say they are the only ones; AdmitsOnlySessions.
* **serving**, subscriptions: NamesHangTogether (names distinct and declared, no cycle),
  DefaultRouteProxied, ClientsAgree (same servers, same chain proxy),
  SoleRequestsServed (what no other request overlaps is answered with what it asked
  for; own links alone on their lines; the archive's directory leads to its files).
* **measuring**, the scanner: RunIsSound (each candidate reported once and as what became
  of its connections, every
  socket closed, nothing good that failed half the time), RunEnds,
  OldScansDoNotMislead (a device is asked about published addresses, each once, and
  what is put first was reached lately), AdviceSettles.
* **measuring**, traffic: CountsAreHonest (never too high; exact where nothing excuses a
  loss), WriteBudget.
* **serving**, the tunnel: NothingReordered, EndsReachBoth.
* **deployment**: CompleteIsServed, RetryLeavesNoOrphans, LeftoversKept, Deploys (a
  page in its loop, or at an error of it, is done at last, or the user leaves it, or
  it loads anew and asks for an account or fails to).
* **panel**: SavedIsStored, StoredIsValid, RestoreLosesOnlyNumbers, PresetsDoNoHarm,
  AdviceIsHonest.

Every property also has a faulty variant of a definition of the model (the
`Name_Variant` operators, defined before the definition they vary) under which
TLC finds it violated: the property depends on that definition being right.

## 6. What the violated properties show

**MigrationKeepsSettings** (kv.ts:31). A read under another build calls
`updateDataset(env)` without settings, which stores the isolate's memory, in a
cold isolate the shipped defaults, over the operator's settings. DEPLOYMENT.md:95
and :366 promise the opposite.

**AnswersOwnRequest** (handlers/subscription.ts:87). `pathname` and `client` are read from
the globals after `setSettings` awaited KV. A second request of the isolate that
arrives meanwhile has put its own there, and the first is answered with what the second
asked for. settings.ts:37 says `init` "Populates the request-scoped globals every
handler reads", ARCHITECTURE.md:38 "Request-scoped globals".

**OutOfReachNotDead** (scanner/probe.ts). A customer's domain that Cloudflare proxies is not
in the list of hosts known to be out of a Worker's reach; its connections throw, the
catch keeps no kind of error, and the report says "dead". cloudflare.ts:97–99 says that
`probe.ts` "reports honestly as a platform block rather than as a dead endpoint".

**RestoreIsExact** (assets/panel/script.js:3788). A backup with another fragment mode is
staged: the change of the mode runs `handleFragmentMode`, which writes the numbers of
the mode, or for `custom` those the form was loaded with, over the numbers the plan
lists. platform.ts:1493 says of the plan: "Returns the exact effect of a restore".
RestoreLosesOnlyNumbers, checked and proved, says that nothing else is lost.

## 7. Observations

What was met while modelling. The modules behave this way; unless said otherwise
no run is spent on it.

*Identity, documents, profiles, settings*
* Two first requests may each store an identity; a losing claim discloses the path
  it captured itself, which identity.ts:306–309 rules out. The second password
  check and the write are four awaits apart, so two claims can both be answered
  "complete" (setup.ts:133–136).
* In one isolate, a read in flight during an identity write refills the cache
  with the old document after the invalidation; other isolates keep theirs until
  they are evicted. Sessions are refused where the cached identity predates the
  claim, because its email is empty.
* The bootstrap stores the record after the environment overrides were applied,
  so a bound variable outlives its binding.
* A document flushed twice (nobody does) would mark an update that was applied
  during the first put as clean. A read that overlaps an update (nobody does)
  would replace the updated document; hence `Orderly`.
* A request that read the list before a revocation puts the revoked link back
  (platform.ts:1911, against profiles.ts:32–33); a refused read looks like an
  empty list, and a create then stores only the new link (platform.ts:1832,
  against repositories.ts:144–145). Overlapping fetches of a limited link are all
  served against one count.
* A reset stores the isolate's memory, which every load has replaced by the stored
  settings (kv.ts:96–98). A preset built on one resolver and merged over another
  stores the new resolver with the old host; `crossed` records it and HostMatches
  excepts it. A bot command submits everything in module memory, which another
  request's older load may have replaced.
* Overlapping subscription requests of an isolate (AnswersOwnRequest, section 6) may
  also be told apart later than the model tells them: generators read `mainDomain`
  again after awaits of their own (xray/configs.ts:176, sing-box/dns.ts:48), where the
  model reads the globals once, in Serve.

*Configurations*
* For older clients the dialers `proxy-N-fragment` match the selector `proxy`, so
  Best Ping and Smart Fragment may leave directly, against compat.ts:118; and the
  UDP noise of Warp Pro is dropped. `fallbackTag` `proxy-2` is not declared for a
  custom domain's Best Ping or with fewer than two servers. A custom domain equal
  to the main one duplicates tags. An upstream port equal to a selected port drops
  ordinary addresses.
* Validators accept empty `warpEndpoints`, and do not look at `protocols`.
  xray/dns.ts:34 passes `enableIPv6` where `onlyIPv4` is meant. An
  `antiSanctionDNS` that is a bare domain, or a URL with an address, gives sing-box
  a server it cannot use.
* In the raw text the chain link, custom links and fetched subscriptions follow one
  another without a line end. Some chain links are not dialled as stated (XHTTP in
  sing-box, raw spelled tcp with an HTTP header, Reality without a short id,
  Shadowsocks with a transport); `Expressible` excepts them by name.

*Scanner and metrics*
* ReportTruthful describes what the code does with a candidate only the runtime knows to
  be out of reach: it is dead, since every attempt failed (OutOfReachNotDead, section 6).
* scan.ts:250–252 says the Worker-side scanner uses other kinds than `clean-ip`, but the
  panel's page runs it with that kind (script.js:1660). The address `optimize` displays as
  the recommended clean IP (scan.ts:348–349) is the stored winner of that kind, and is not
  checked again: it may be the winner of such a scan, which is of any address, or one
  that has left the published space since. No property is stated of it. High confidence
  may come from one day (`ConfidenceNeedsDays`, blocks.ts:137–138).
* A refused read in `flushTraffic` becomes an empty document and the put drops the
  daily counters, against traffic.ts:199–201. Four declared events are never
  emitted (`config.exported`, `config.unsupported`, `auth.logout`,
  `diagnostics.finding`). `clearTraffic` clears only its own isolate. A client that
  leaves early is never counted in bytes. One refused put makes `dispose` reject
  while the other is under way.

*Relay*
* A second chunk that arrives while the first write is pending throws, and the
  tunnel closes. Chunks between the first write and a silent end are not resent. A
  silent reset closes the WebSocket and yet retries; a client leaving before the
  first reply causes a retry for nobody, whose socket stays open until its remote ends. A first write that is rejected is never
  retried.
* With a prefix and a name that does not resolve the rejection is unhandled and the
  client waits (excepted from EndsReachBoth); with an invalid prefix the WebSocket
  closes with 1011 and the connection is made anyway. The normal end of the direct
  remote does not close the WebSocket. Garbled early data leaves it open. UDP
  packets split across chunks are not reassembled. A retry reads the globals of
  whichever request came last. Relayed bytes are not counted.

*Deployment*
* A second page whose first has finished gets AUTH_EXPIRED, and "Reconnect" starts
  a second deployment. A revoked token makes "Deployment interrupted" repeat until
  the cookie expires. A placeholder page counts as a mismatched artifact. Two
  overlapping requests can leave a namespace without a worker, hence `alone` in
  RetryLeavesNoOrphans. The listing of namespaces stops after 1000. A lost error of
  the name step picks another name.
* When `start()` fails (bootstrap, session or accounts, app.js:399–402), or the cookie of the
  deployment is removed by another page between an answer and the session read after it,
  the page has no deployment. The error nevertheless offers "Resume deployment", or "Retry"
  with "Completed steps are preserved. Retry when Cloudflare responds." (app.js:286, 293,
  301), and its button calls `renderProgress` and `deployLoop` (319), which without a
  deployment show the loading page (216) and post nothing (224). Only a reload helps.
  In the model these pages are *failed* and *stuck*; Deploys is of the errors of the
  loop, and ends at *failed*.
* An ordinary visit to `/` discards the deployment, though app.js:210 says "Safe to
  close…". The callback resumes a deployment with another kind of authorisation.
  With several accounts token.js keeps the old deployment cookie.

*Advice and panel*
* diagnostics/service.ts:21–24 and 92–94 say a deployment "cannot reach a good grade
  while being trivially accessible"; without a password alone it scores about 81,
  "good". The remedy for the log level sets `warn`, which is no level. The privacy
  preset sets `1.1.1.1`, which `validateRemoteDNS` refuses, so it can never be
  saved. Presets and modes set `fragmentMode` without the numbers of the mode.
* `optimization.recommend` always has an item, so the overall health is never good.
  The health centre's "worst first" list is in report order. The provider of scanner
  advice is registered on no route that collects advice.
* Restoring a backup with custom fragments onto another mode loses their lengths
  (RestoreIsExact, section 6). A backup taken after a mode was set on
  the server (which leaves the old numbers) brings those numbers back under that
  mode, if it is restored where the same mode is stored with other numbers: the mode
  does not change, so the form does not rewrite them. Where the stored numbers are those
  of the backup but not of the mode, the loaded form shows the mode's, and no change is
  planned. RestoreLosesOnlyNumbers excepts these and no other.
  Backups drop `xrayUdpNoises`, include
  keys without a control, and a restore makes defaults explicit.
* A staged plan is computed against the server and applied to a form that may be
  stale; saving a stale tab reverts what others saved; `presetApply` writes the whole
  document it read (against presets/service.ts:16–17). Through a warm isolate whose
  cache equals the form but not KV, an identity change is skipped
  (compareMainSettings). An answer of 500 has no body and the page only logs it, and
  writes of a failed attempt may land after a later save. Edits made while a save is
  under way are discarded. The clean-IP list accepts a CIDR.

## 8. Fairness

* `Setup` and `PlatformDocument`: weak fairness of each request's (each call's) own
  next step. An awaited KV call is answered or refused and the runtime then
  resumes the request: the Workers runtime guarantees the second, and KV calls
  time out, which gives the first.
* `Probing`: weak fairness of each worker's own steps, of its timer, and of
  completing and recording. Nothing is assumed of sockets: RunEnds holds though no
  connection ever answers.
* `Relay`: weak fairness of the Worker's steps taken together, which the event loop
  gives. Nothing is assumed of the client or the remotes.
* `Deployment`: weak fairness of each page's progress (its script, the server's
  steps, the browser's delivery, the user pressing what is offered); strong fairness
  that one of the subdomains drawn is eventually free; weak fairness that a revoked
  token expires. What a loading page asks for is answered or fails, nothing says which.

No fairness is assumed of new requests, evictions, failures or other writers, and
none of one request relative to another. All other modules state safety only.

## 9. Proofs

All theorems hold for every value of the constants that satisfies the modules'
named assumptions (sets need not be finite unless an assumption says so).

* **SetupProofs.** The invariant is the conjunction of TypeOK, InHand (a request
  on a step has what the step needs), Provenance (whatever is cached, held or
  disclosed was stored), Ownership (the owner is in KV before the password),
  Possession and Untouched (what an uncontested claim has written and what nobody
  has yet) and LateIsOutside. No property is inductive alone: each depends on what
  the requests in flight hold. Proved: SetupStaysClosed, PasswordHasOwner,
  UncontestedClaimOwns and NeverRegenerated of the run; and TypeOK, ServedWasStored,
  RejectedHashLeavesUnclaimed and NeverWedged, which no run repeats.
* **DocumentProofs**, of PlatformDocument. Chain (each unsettled update is queued once and
  only the head loads), OneFlush (nothing clears the dirty flag before the one
  flush, which serialises after all it waits for) and Loading (whoever waits for
  KV has nothing to overwrite). Proved: TypeOK; FlushCoversQueued if at most one
  flush is called, as `dispose` does; and, for orderly callers, the refinement of
  AtomicDocument, step by step.
* **DocumentProofs**, of Profiles. Sound (a stored or pending list holds issued links with
  their own expiry and no more than the served count), Honours (it holds nothing
  revoked in a usable state) and Pending (the same for every list in flight,
  relative to what its request knew). Proved: ExpiryExact and RevocationHolds of the
  run; the types with the cap, and CountIsLowerBound. Calm is the invariant of the
  quiet deployments of MCProfiles: one request at most, and while nobody is under way
  no limited link has fewer uses stored than were served; LimitEnforced alone is not
  inductive, since a list in flight is one use ahead of the stored one. Proved from
  it: QuietLimits and QuietLinksKept. Both parts rest on the library's cardinality
  facts.
* **SettingsStoreProofs.** Typed (what a request holds at each step), AllStamped
  (every captured, pending and remembered document carries its isolate's stamp),
  AllMatched (and a host of its own resolver, unless a preset crossed), AllExact
  (while nobody else has put, a request holds the document it saw, and submits
  it with the change asked for), and the facts about Merge they need. Proved:
  HostMatches, SteadyReadsOnly and UncontestedEditIsExact of the run, for any number
  of isolates and builds; and the types and ServedMatchesBuild.
* **SessionsProofs.** InHand (what a request holds at each step), Past (histories
  are about answered requests), Unshared, Spent and TurnedAway (a code under way is
  known to nobody, a used one has no entry, and whoever comes with it is yet to look
  or was turned away), FirstDraw (a secret is only drawn by requests that began
  before anybody was signed in), Upgrading (an upgrade under way began before the
  last change) and Showed (whoever is past `authenticate` showed a session, not only
  who was answered). Proved: CodesServeOnce, SessionsSurvive, LastPasswordHolds and
  AdmitsOnlySessions of the run, for any number of requests, codes and passwords.
* **MeasuringProofs**, of Metrics. Typed gives the types and what a request holds at each of its
  steps. NothingCountedTwice is not inductive: a flush lands on the document it read,
  not on the one that is stored by then. CountedOnce therefore says it of every copy
  of `rz:metrics` somebody may still put (Copies): with what is in memory and under
  way, none of them exceeds what was served. It is kept because room is never lost
  (RoomKept: no step makes what is held grow by more than what is served), because a
  request takes its base from what is stored and its own put is the only one that
  adds to a copy, and what it adds it no longer carries. Exact is the other half, while
  nothing excuses a loss: a put then lands on the document it was read from, so each
  retained hour, day and the log balance against what was served, published and
  emitted; it needs that increments applied one by one come to what they add up to
  (AppliedMetrics) and that dropping the oldest days decides nothing anew
  (NewestKeeps). BudgetInv accounts for every flush of an isolate but the first: it
  is paid for by FlushRequests requests that are no longer in the counter or by
  FlushInterval that passed before the last flush. Proved: CountsAreHonest and
  WriteBudget of the run, for any number of requests, isolates and hours. Sums, folds
  and greatest elements rest on *induction over data*: the library's induction theorems
  take an operator, which the provers cannot instantiate, so the lemmas at the head of
  the module state induction for a *set* (of the numbers, or of the subsets of a finite
  set, that have the property) and derive it from WFMin.
* **MeasuringProofs**, of Probing. RunIsSound speaks of a run that has answered; its
  inductive form RunInv says what holds before. Handed: each target up to the next is
  with one busy worker or judged, the others untouched, and a worker that is done
  leaves none behind. Underway: the attempts a worker has noted are, one by one, what
  became of the connections to its target, also of one that opens after it was given
  up. Judged: a result says what happened. Hence, when all are done, all are judged
  (AllJudged), and the report, which only reorders results, is truthful. That it
  lists each ranked target once needs that scores are in a strict order (InOrder: a set
  in such an order is listed whole), so that the numbers of targets differ
  (ToTargetsFacts); that nothing unreliable is good is arithmetic (ScoreFacts: half of
  the attempts leave less than 750). Proved: RunIsSound of the run, for any candidates,
  any limits and any number of workers.
* **MeasuringProofs**, of ScanLearning. WeeksInv holds every week. Remembered and
  Historic: what is stored are runs, and observations of no later day than today.
  PlanSound: a device was given published addresses, each once; a block that was
  scanned need not be published any more, and it is `buildCandidates` that sees to it
  (CandidatesFacts). Put first are blocks that were reached in a quarter of their
  addresses and are not degrading; that one observation of such a block reached a
  quarter, as PreferredReached says, is a fact about weighted sums (SumsInProportion:
  when no term reaches its share, the sum does not either). AdviceSettles needs no more than
  Historic: endpoints are in the order of their averages (ActiveSorted), so the advice
  leads to the best of all or to the best of the others, ahead by at least four
  points, and then nothing is ahead of it by as much (AdviceIsFinal). Lists are made
  from sets by an order (`Ordered`, `AtPlaces`), of which Placing and InOrder say what
  they hold without an induction along the list. Proved: AdviceSettles and
  OldScansDoNotMislead of the run, whatever the panel and devices scan. Assumed of the
  constants: what is stored at first is of the form this code stores
  (StoredAssumption), and the pseudo-random numbers are numbers (MixesAssumption).
* **RelayProofs.** Numbered (the readable stream holds the chunks sent last),
  Plumbing (which sockets there are at each route, and that a second one comes only
  after a silent, finished first one), Upwards (what a socket got is sorted and
  within what was taken, and the chunk being written is the next), Covered (nothing
  taken is lost while the tunnel is up) and Downwards (replies are numbered and
  counted against their socket). The order of either direction is not inductive
  without Plumbing: it needs that a retry finds no byte delivered. Proved:
  NothingReordered of the run, for any number of chunks and replies.
* **DeploymentProofs.** Sound (what a deployment in a cookie, a call or an answer
  has reached is there in the account), Lists (the listing in hand shows every
  leftover) and Harmless (a late effect can happen at any later time without
  touching a leftover); they are kept because accounts only grow (Grows). Proved:
  CompleteIsServed and LeftoversKept of the run. RetryLeavesNoOrphans needs a second
  invariant, Frugal: the namespaces there or still to come are counted against the
  deployments started, and the one of the deployment under way is paid for already.
* **PanelFormProofs.** Accepted (stored settings are valid), Pages (a form has the
  keys of a form), Saves (the form of a save under way was accepted), Landings (so
  was the form of every write a failed save left behind), Solitude (while a save is
  alone, nothing is left behind and what it has put so far is stored) and Promised.
  Validity is of two documents together but each is written alone; that this cannot
  break it rests on the validators reading disjoint parts of them (IdentityApart, SettingsApart), a
  fact about `validateSettings` the lemmas state. Proved: StoredIsValid and
  SavedIsStored of the run; and RestoreLosesOnlyNumbers, from the plan of a restore
  (PlanFacts) and the effect of the form's fragment handler (FragmentedFacts), for
  any settings and backups. Backups are assumed to be files `createBackup` made of
  some settings (`Sample`); a file changed by hand is refused by its checksum.

One statement changed because its proof failed: it used to except fewer of a backup's
numbers, which is false after six acts of the operator, beyond the run's four. In
MCPanelForm the other deployment, whose backups are brought, now has a mode with
numbers of another one, so that the run reaches the case as well.

Only model-checked:
* the liveness properties ClaimSucceeds, CallsSettle, RunEnds, EndsReachBoth and
  Deploys: liveness is out of the prover's reach;
* everything about subscriptions, PresetsDoNoHarm and AdviceIsHonest: documents and
  patches are put together with `@@`, which the provers do not expand.

## 10. Assumptions and limits

* KV is a linearizable register whose refused calls have no effect; in `PanelForm`
  and `Deployment` a failed call may also land later, since what is at stake there
  is a retry. Real KV is eventually consistent across locations; the properties
  that hold are claims about one location.
* Code between two awaits is one step. Microtask order inside a step that awaits
  an already settled promise is not split further. Profiles reads in the step that
  computes, PanelForm reads in the step that writes; the interleavings between
  those are PlatformDocument's and SettingsStore's.
* Identity documents are whole or unreadable; partly written ones, which
  `normaliseRecord` repairs, are not generated. Hand-edited profile lists are not
  either, nor are profile names and countries.
* Random values never coincide; checksums are injective; signatures are not forged.
* Regular expressions, address arithmetic, encodings, wording and layout are data,
  and are left to the repository's unit and golden tests.

## 11. Not modelled

* The registries of services, features and capabilities (`platform/services.ts`,
  `capability.ts`) beyond the states Diagnosis computes: maps of one request, filled
  in a fixed order.
* WARP accounts, the Telegram menus and webhook, the upload of a new worker by a
  running panel, usage and geo clients: calls of external services whose results are
  stored under a key nothing else writes, or only displayed. (A WARP refresh that
  registers nothing stores an empty list over the working one, warp.ts:44.)
* Effectiveness figures, comparison, deployment information, peak periods: ratios
  and reads for display.
* Small stateless handlers, common helpers, the views of the panel other than the
  settings form, build and release scripts, documentation, vendored code.
