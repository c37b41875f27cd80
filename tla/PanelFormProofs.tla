-------------------------- MODULE PanelFormProofs ---------------------------
(***************************************************************************)
(* Theorems about PanelForm, for any settings, edits, presets, backups and *)
(* imports, and any number of tabs, isolates, acts and failures: what is   *)
(* stored is always accepted by the validators, a save reported as         *)
(* successful is what is stored, and a restore has its exact effect.       *)
(***************************************************************************)
EXTENDS PanelForm, TLAPS

Docs == {"settings", "identity"}

\* The two halves of what validateSettings reads, by the document each is kept in.
IdentityRead == {"proxyIPs", "prefixes", "vlUUID", "trPass", "fallback", "dohUrl", "securePath"}
SettingsRead == Validation!Validated \ IdentityRead

ValidIdentity(s) ==
    /\ Validation!ValidProxyIPs(s) /\ Validation!ValidNAT64Prefixes(s)
    /\ Validation!ValidUUID(s) /\ Validation!ValidTrPass(s) /\ Validation!ValidFallback(s)
    /\ Validation!ValidDoH(s) /\ Validation!ValidPath(s)

ValidSettings(s) ==
    /\ Validation!ValidPorts(s) /\ Validation!ValidRemoteDNS(s) /\ Validation!ValidSanctionDns(s)
    /\ Validation!ValidLocalDNS(s) /\ Validation!ValidWarpDNS(s) /\ Validation!ValidCleanIPs(s)
    /\ Validation!ValidWarpEndpoints(s) /\ Validation!ValidMinMax(s)
    /\ Validation!ValidUpstreamProxy(s) /\ Validation!ValidChainProxy(s)
    /\ Validation!ValidCustomCdn(s) /\ Validation!ValidKnockerNoise(s)
    /\ Validation!ValidXrayNoises(s) /\ Validation!ValidCustomRules(s)
    /\ Validation!ValidEchConfig(s) /\ Validation!ValidCustomDomain(s)
    /\ Validation!ValidExtSubs(s) /\ Validation!ValidRemoteSettings(s)

\* validateSettings judges the two documents one by one.
LEMMA AcceptsSplit ==
    ASSUME NEW s
    PROVE  Validation!Accepts(s) <=> ValidIdentity(s) /\ ValidSettings(s)
BY DEF Validation!Accepts, ValidIdentity, ValidSettings

\* The identity document is judged by what it is read for only.
LEMMA IdentityApart ==
    ASSUME NEW s, NEW r, \A k \in IdentityRead : s[k] = r[k], ValidIdentity(r)
    PROVE  ValidIdentity(s)
<1>1. /\ s.proxyIPs = r.proxyIPs /\ s.prefixes = r.prefixes /\ s.vlUUID = r.vlUUID
      /\ s.trPass = r.trPass /\ s.fallback = r.fallback /\ s.dohUrl = r.dohUrl
      /\ s.securePath = r.securePath
  BY DEF IdentityRead
<1> QED
  BY <1>1 DEF ValidIdentity, Validation!ValidProxyIPs, Validation!ValidNAT64Prefixes,
     Validation!ValidUUID, Validation!ValidTrPass, Validation!ValidFallback, Validation!ValidDoH,
     Validation!ValidPath

\* So is the settings document.
LEMMA SettingsApart ==
    ASSUME NEW s, NEW r, \A k \in SettingsRead : s[k] = r[k], ValidSettings(r)
    PROVE  ValidSettings(s)
<1>1. /\ s.ports = r.ports /\ s.remoteDNS = r.remoteDNS /\ s.antiSanctionDNS = r.antiSanctionDNS
      /\ s.localDNS = r.localDNS /\ s.warpRemoteDNS = r.warpRemoteDNS /\ s.cleanIPs = r.cleanIPs
  BY DEF SettingsRead, Validation!Validated, IdentityRead
<1>2. /\ s.warpEndpoints = r.warpEndpoints /\ s.upstreamProxy = r.upstreamProxy
      /\ s.chainProxy = r.chainProxy /\ s.customCdnAddrs = r.customCdnAddrs
      /\ s.customCdnHost = r.customCdnHost /\ s.customCdnSni = r.customCdnSni
  BY DEF SettingsRead, Validation!Validated, IdentityRead
<1>3. /\ s.knockerNoiseMode = r.knockerNoiseMode /\ s.xrayUdpNoises = r.xrayUdpNoises
      /\ s.customBypassRules = r.customBypassRules /\ s.customBlockRules = r.customBlockRules
      /\ s.customBypassSanctionRules = r.customBypassSanctionRules
  BY DEF SettingsRead, Validation!Validated, IdentityRead
<1>4. /\ s.echServerName = r.echServerName /\ s.customDomain = r.customDomain
      /\ s.customSubs = r.customSubs /\ s.remoteSettings = r.remoteSettings
  BY DEF SettingsRead, Validation!Validated, IdentityRead
<1>5. \A k \in Validation!MinMax : s[k] = r[k]
  BY DEF SettingsRead, Validation!Validated, IdentityRead, Validation!MinMax
<1>6. /\ Validation!ValidPorts(s) /\ Validation!ValidRemoteDNS(s) /\ Validation!ValidSanctionDns(s)
      /\ Validation!ValidLocalDNS(s) /\ Validation!ValidWarpDNS(s) /\ Validation!ValidCleanIPs(s)
  BY <1>1 DEF ValidSettings, Validation!ValidPorts, Validation!ValidRemoteDNS, Validation!ValidSanctionDns,
              Validation!ValidLocalDNS, Validation!ValidWarpDNS, Validation!ValidCleanIPs
<1>7. /\ Validation!ValidWarpEndpoints(s) /\ Validation!ValidUpstreamProxy(s)
      /\ Validation!ValidChainProxy(s) /\ Validation!ValidCustomCdn(s)
  BY <1>2 DEF ValidSettings, Validation!ValidWarpEndpoints, Validation!ValidUpstreamProxy,
              Validation!ValidChainProxy, Validation!ValidCustomCdn
<1>8. /\ Validation!ValidKnockerNoise(s) /\ Validation!ValidXrayNoises(s) /\ Validation!ValidCustomRules(s)
  BY <1>3 DEF ValidSettings, Validation!ValidKnockerNoise, Validation!ValidXrayNoises,
              Validation!ValidCustomRules
<1>9. /\ Validation!ValidEchConfig(s) /\ Validation!ValidCustomDomain(s) /\ Validation!ValidExtSubs(s)
      /\ Validation!ValidRemoteSettings(s)
  BY <1>4 DEF ValidSettings, Validation!ValidEchConfig, Validation!ValidCustomDomain,
              Validation!ValidExtSubs, Validation!ValidRemoteSettings
<1>10. Validation!ValidMinMax(s)
  BY <1>5 DEF ValidSettings, Validation!ValidMinMax
<1> QED BY <1>6, <1>7, <1>8, <1>9, <1>10 DEF ValidSettings

-----------------------------------------------------------------------------
(***************************************************************************)
(* What one write leaves in the documents.                                 *)
(***************************************************************************)
LEMMA KeysApart ==
    /\ DOMAIN Documents = Docs
    /\ FormKeys \subseteq Keys
    /\ Documents["settings"] \cap Documents["identity"] = {}
    /\ FormKeys \subseteq Documents["settings"] \cup Documents["identity"]
    /\ "panelVersion" \notin FormKeys
    /\ "panelVersion" \notin Documents["settings"] \cup Documents["identity"]
<1>1. DOMAIN Documents = Docs /\ Documents["settings"] = FormKeys \ IdentityKeys
      /\ Documents["identity"] = IdentityKeys
  BY DEF Documents, Docs
<1>2. "panelVersion" \notin FormKeys /\ FormKeys \subseteq Keys
  BY DEF FormKeys
<1>3. "panelVersion" \notin IdentityKeys
  BY DEF IdentityKeys
<1> QED BY <1>1, <1>2, <1>3

\* And neither judgement reads the other document.
LEMMA ReadApart ==
    /\ IdentityRead \cap Documents["settings"] = {}
    /\ SettingsRead \cap Documents["identity"] = {}
    /\ IdentityRead \subseteq Documents["identity"] \cap Keys
    /\ SettingsRead \subseteq Documents["settings"] \cap Keys
<1>1. Documents["settings"] = FormKeys \ IdentityKeys /\ Documents["identity"] = IdentityKeys
  BY DEF Documents
<1>2. IdentityRead \subseteq IdentityKeys
  BY DEF IdentityRead, IdentityKeys
<1>3. SettingsRead \cap IdentityKeys = {} /\ IdentityRead \subseteq Validation!Validated
  BY DEF SettingsRead, IdentityRead, IdentityKeys, Validation!Validated, Validation!MinMax
<1>4. SettingsRead \subseteq Validation!Validated /\ "panelVersion" \notin SettingsRead
  BY DEF SettingsRead, Validation!Validated, Validation!MinMax
<1>5. Validation!Validated \subseteq Keys
  BY PanelFormAssumption
<1> QED BY <1>1, <1>2, <1>3, <1>4, <1>5 DEF FormKeys

\* A write replaces the settings of its document, stamps the version with those of the
\* document of settings, and leaves the rest.
LEMMA WrittenFacts ==
    ASSUME NEW s, DOMAIN s = Keys, NEW form, NEW doc \in Docs
    PROVE  /\ DOMAIN Written(s, form, doc) = Keys
           /\ \A k \in Keys \cap Documents[doc] : Written(s, form, doc)[k] = form[k]
           /\ \A k \in Keys \ (Documents[doc] \cup {"panelVersion"}) :
                 Written(s, form, doc)[k] = s[k]
<1> DEFINE part == Part(form, Documents[doc])
           new  == Overlay(s, part)
<1>1. DOMAIN part = Documents[doc] /\ \A k \in Documents[doc] : part[k] = form[k]
  BY DEF Part
<1>2. new = [k \in Keys |-> IF k \in DOMAIN part THEN part[k] ELSE s[k]]
  BY DEF Overlay
<1>3. Written(s, form, doc) =
        IF doc = "settings" THEN [new EXCEPT !["panelVersion"] = VERSION] ELSE new
  BY DEF Written
<1>4. "panelVersion" \notin Documents[doc]
  BY KeysApart DEF Docs
<1> HIDE DEF part, new
<1>5. /\ DOMAIN Written(s, form, doc) = Keys
      /\ \A k \in Keys \ {"panelVersion"} : Written(s, form, doc)[k] = new[k]
  BY <1>2, <1>3
<1>6. \A k \in Keys : new[k] = IF k \in Documents[doc] THEN form[k] ELSE s[k]
  BY <1>1, <1>2
<1>7. Written(s, form, "identity") = new \/ doc = "settings"
  BY <1>3 DEF Docs
<1> QED BY <1>1, <1>4, <1>5, <1>6

\* Documents that are each acceptable make acceptable settings.
LEMMA WrittenAccepted ==
    ASSUME NEW s, DOMAIN s = Keys, NEW form, NEW doc \in Docs,
           Validation!Accepts(s), Validation!Accepts(form)
    PROVE  Validation!Accepts(Written(s, form, doc))
<1> DEFINE new == Written(s, form, doc)
<1>1. /\ \A k \in Keys \cap Documents[doc] : new[k] = form[k]
      /\ \A k \in Keys \ (Documents[doc] \cup {"panelVersion"}) : new[k] = s[k]
  BY WrittenFacts
<1> HIDE DEF new
<1>2. ValidIdentity(s) /\ ValidSettings(s) /\ ValidIdentity(form) /\ ValidSettings(form)
  BY AcceptsSplit
<1>3. CASE doc = "settings"
  <2>1. \A k \in IdentityRead : new[k] = s[k]
    BY <1>1, <1>3, ReadApart, KeysApart
  <2>2. \A k \in SettingsRead : new[k] = form[k]
    BY <1>1, <1>3, ReadApart
  <2> QED BY <2>1, <2>2, <1>2, IdentityApart, SettingsApart, AcceptsSplit DEF new
<1>4. CASE doc = "identity"
  <2>1. \A k \in IdentityRead : new[k] = form[k]
    BY <1>1, <1>4, ReadApart
  <2>2. \A k \in SettingsRead : new[k] = s[k]
    BY <1>1, <1>4, ReadApart, KeysApart
  <2> QED BY <2>1, <2>2, <1>2, IdentityApart, SettingsApart, AcceptsSplit DEF new
<1> QED BY <1>3, <1>4 DEF Docs

\* The two modes are nothing a validator reads.
LEMMA SameRead ==
    ASSUME NEW s, NEW r, \A k \in Validation!Validated : s[k] = r[k], Validation!Accepts(r)
    PROVE  Validation!Accepts(s)
<1>1. IdentityRead \cup SettingsRead \subseteq Validation!Validated
  BY DEF IdentityRead, SettingsRead, Validation!Validated, Validation!MinMax
<1>2. ValidIdentity(s) /\ ValidSettings(s)
  BY <1>1, AcceptsSplit, IdentityApart, SettingsApart
<1> QED BY <1>2, AcceptsSplit

\* The route for custom modes stores settings that are valid.
LEMMA ModesAccepted ==
    ASSUME DOMAIN store = Keys, Validation!Accepts(store),
           NEW i \in Isolates, NEW m, NEW f, ModesRoute(i, m, f)
    PROVE  DOMAIN store' = Keys /\ Validation!Accepts(store')
<1> DEFINE named    == [proxyIpMode |-> m, fragmentMode |-> f]
           asked    == Part(named, {k \in {"proxyIpMode"} : named[k] # None})
           identity == Overlay(store, asked)
           both     == Overlay(store, named)
<1>1. store' = identity \/ store' = Written(identity, both, "settings")
  BY DEF ModesRoute
<1>2. DOMAIN asked \subseteq {"proxyIpMode"} /\ DOMAIN named = {"proxyIpMode", "fragmentMode"}
  BY DEF Part
<1> HIDE DEF asked, named
<1>3. /\ DOMAIN identity = Keys /\ DOMAIN both = Keys
      /\ \A k \in Keys \ {"proxyIpMode", "fragmentMode"} : identity[k] = store[k] /\ both[k] = store[k]
  BY <1>2 DEF Overlay
<1> HIDE DEF identity, both
<1>4. /\ Validation!Validated \subseteq Keys
      /\ Validation!Validated \cap {"proxyIpMode", "fragmentMode"} = {}
  BY PanelFormAssumption DEF Validation!Validated, Validation!MinMax
<1>5. Validation!Accepts(identity) /\ Validation!Accepts(both)
  BY <1>3, <1>4, SameRead
<1>6. "settings" \in Docs
  BY DEF Docs
<1> QED BY <1>1, <1>3, <1>5, <1>6, WrittenFacts, WrittenAccepted

-----------------------------------------------------------------------------
(***************************************************************************)
(* The form of a tab.                                                      *)
(***************************************************************************)
IsForm(f) == f = [k \in FormKeys |-> f[k]]
IsPage(p) == /\ p = [initial |-> p.initial, form |-> p.form, enabled |-> p.enabled]
             /\ IsForm(p.form)

\* A form that is changed is still a form.
LEMMA FormFacts ==
    ASSUME NEW f, IsForm(f)
    PROVE  /\ \A key, value : IsForm([f EXCEPT ![key] = value])
           /\ \A patch : IsForm(Overlay(f, patch))
           /\ \A initial : IsForm(Fragmented(f, initial))
<1>0. DOMAIN f = FormKeys
  BY DEF IsForm
<1>1. ASSUME NEW g, IsForm(g), NEW key, NEW value
      PROVE  IsForm([g EXCEPT ![key] = value])
  BY <1>1 DEF IsForm
<1>2. \A patch : IsForm(Overlay(f, patch))
  BY <1>0 DEF IsForm, Overlay
<1>3. ASSUME NEW initial PROVE IsForm(Fragmented(f, initial))
  <2> DEFINE numbers == IF f.fragmentMode = "custom"
                          THEN <<initial.fragmentLength, initial.fragmentDelay>>
                          ELSE FragmentNumbers[f.fragmentMode]
             once == [f EXCEPT !["fragmentLength"] = numbers[1]]
  <2>1. Fragmented(f, initial) = [once EXCEPT !["fragmentDelay"] = numbers[2]]
    BY <1>0 DEF Fragmented
  <2>2. IsForm(once)
    BY <1>1
  <2> HIDE DEF once, numbers
  <2>3. IsForm([once EXCEPT !["fragmentDelay"] = numbers[2]])
    BY <2>2, <1>1
  <2> QED BY <2>1, <2>3
<1> QED BY <1>1, <1>2, <1>3

\* What the panel sends of the settings is a form.
LEMMA PartIsForm ==
    ASSUME NEW s
    PROVE  IsForm(Part(s, FormKeys))
BY DEF IsForm, Part

\* A form that is shown is a page.
LEMMA RenderedFacts ==
    ASSUME NEW f, IsForm(f)
    PROVE  IsPage(Rendered(f))
BY FormFacts DEF Rendered, IsPage

\* A field of a page replaced.
LEMMA PageFacts ==
    ASSUME NEW p, IsPage(p), NEW f, IsForm(f), NEW b
    PROVE  /\ IsPage([p EXCEPT !.form = f]) /\ [p EXCEPT !.form = f].form = f
           /\ IsPage([p EXCEPT !.enabled = b])
<1>1. p = [initial |-> p.initial, form |-> p.form, enabled |-> p.enabled]
  BY DEF IsPage
<1>2. [p EXCEPT !.form = f] = [initial |-> p.initial, form |-> f, enabled |-> p.enabled]
  BY <1>1
<1>3. [p EXCEPT !.enabled = b] = [initial |-> p.initial, form |-> p.form, enabled |-> b]
  BY <1>1
<1> QED BY <1>2, <1>3 DEF IsPage

\* A page with a patch is a page.
LEMMA PatchedFacts ==
    ASSUME NEW p, IsPage(p), NEW patch
    PROVE  IsPage(Patched(p, patch))
<1> DEFINE filled == Overlay(p.form, patch)
           form == IF "fragmentMode" \in DOMAIN patch THEN Fragmented(filled, p.initial) ELSE filled
<1>1. IsForm(form)
  BY FormFacts DEF IsPage
<1> HIDE DEF form
<1>2. IsPage([p EXCEPT !.form = form, !.enabled = TRUE])
  <2>1. IsPage([p EXCEPT !.form = form])
    BY <1>1, PageFacts
  <2>2. \A q, b : IsPage(q) => IsPage([q EXCEPT !.enabled = b])
    BY <1>1, PageFacts
  <2> QED BY <2>1, <2>2
<1> QED BY <1>2 DEF Patched, form

-----------------------------------------------------------------------------
(***************************************************************************)
(* The inductive invariant.  What is under way was accepted when it was    *)
(* asked for.  A save that is alone has, in the documents it is done with, *)
(* what its form says, and nobody else writes; a promise is what is stored *)
(* as long as nobody writes at all.                                        *)
(***************************************************************************)
IsSave(r) ==
    /\ r = [home |-> r.home, form |-> r.form, pending |-> r.pending, alone |-> r.alone]
    /\ IsForm(r.form) /\ Validation!Accepts(r.form) /\ r.pending \subseteq Docs

SoFar(s, r) == \A doc \in Docs \ r.pending : \A k \in FormKeys \cap Documents[doc] : s[k] = r.form[k]

Accepted == DOMAIN store = Keys /\ Validation!Accepts(store)
Pages == page = [t \in Tabs |-> page[t]] /\ \A t \in Tabs : IsPage(page[t])
Saves == /\ request = [t \in Tabs |-> request[t]]
         /\ \A t \in Tabs : request[t] # None => IsSave(request[t])
Landings == \A w \in landing : w.doc \in Docs /\ Validation!Accepts(w.form)

Alone(t) ==
    request[t] # None /\ request[t].alone =>
      /\ landing = {} /\ \A u \in Tabs \ {t} : request[u] = None
      /\ SoFar(store, request[t])
Solitude == \A t \in Tabs : Alone(t)

Promised ==
    promise # None =>
      /\ landing = {} /\ \A t \in Tabs : request[t] = None
      /\ promise = Part(store, FormKeys)

Inv == Accepted /\ Pages /\ Saves /\ Landings /\ Solitude /\ Promised

\* A save stays one when a document of it has landed or another save disturbs it.
LEMMA SaveFacts ==
    ASSUME NEW r, IsSave(r)
    PROVE  /\ \A doc : LET q == [r EXCEPT !.pending = @ \ {doc}] IN
                IsSave(q) /\ q.form = r.form /\ q.alone = r.alone /\ q.pending = r.pending \ {doc}
           /\ LET q == [r EXCEPT !.alone = FALSE] IN IsSave(q) /\ ~q.alone
<1>1. r = [home |-> r.home, form |-> r.form, pending |-> r.pending, alone |-> r.alone]
  BY DEF IsSave
<1>2. ASSUME NEW doc
      PROVE  LET q == [r EXCEPT !.pending = @ \ {doc}] IN
                IsSave(q) /\ q.form = r.form /\ q.alone = r.alone /\ q.pending = r.pending \ {doc}
  <2>1. [r EXCEPT !.pending = @ \ {doc}]
          = [home |-> r.home, form |-> r.form, pending |-> r.pending \ {doc}, alone |-> r.alone]
    BY <1>1
  <2> QED BY <2>1 DEF IsSave
<1>3. ASSUME NEW b
      PROVE  LET q == [r EXCEPT !.alone = b] IN IsSave(q) /\ q.alone = b
  <2>1. [r EXCEPT !.alone = b]
          = [home |-> r.home, form |-> r.form, pending |-> r.pending, alone |-> b]
    BY <1>1
  <2> QED BY <2>1 DEF IsSave
<1> QED BY <1>2, <1>3

\* What a save does to those under way in other tabs.
LEMMA DisturbFacts ==
    ASSUME Saves, NEW t
    PROVE  /\ Disturb(t) = [u \in Tabs |-> Disturb(t)[u]]
           /\ \A u \in Tabs :
                IF u = t \/ request[u] = None THEN Disturb(t)[u] = request[u]
                ELSE IsSave(Disturb(t)[u]) /\ ~Disturb(t)[u].alone
<1>1. Disturb(t) = [u \in Tabs |-> Disturb(t)[u]]
  BY DEF Disturb
<1>2. ASSUME NEW u \in Tabs, u = t \/ request[u] = None PROVE Disturb(t)[u] = request[u]
  BY <1>2 DEF Disturb
<1>3. ASSUME NEW u \in Tabs, ~(u = t \/ request[u] = None)
      PROVE  IsSave(Disturb(t)[u]) /\ ~Disturb(t)[u].alone
  <2>1. IsSave(request[u])
    BY <1>3 DEF Saves
  <2>2. Disturb(t)[u] = [request[u] EXCEPT !.alone = FALSE]
    BY <1>3 DEF Disturb
  <2> QED BY <2>1, <2>2, SaveFacts
<1> QED BY <1>1, <1>2, <1>3

\* A new promise is a form that is stored in both documents.
LEMMA SoFarAll ==
    ASSUME NEW s, NEW r, IsSave(r), r.pending = {}, SoFar(s, r)
    PROVE  r.form = Part(s, FormKeys)
<1>1. \A k \in FormKeys : s[k] = r.form[k]
  BY KeysApart DEF SoFar, Docs
<1> QED BY <1>1 DEF Part, IsSave, IsForm

\* A panel that has just been opened is as it should be.
LEMMA InitialInv == Init => Inv
<1> SUFFICES ASSUME Init PROVE Inv
  OBVIOUS
<1>1. Accepted
  BY PanelFormAssumption DEF Init, Accepted
<1>2. Pages
  <2>1. page = [t \in Tabs |-> Rendered(Part(store, FormKeys))]
    BY DEF Init
  <2>2. IsPage(Rendered(Part(store, FormKeys)))
    BY PartIsForm, RenderedFacts
  <2> QED BY <2>1, <2>2 DEF Pages
<1>3. request = [t \in Tabs |-> None] /\ landing = {} /\ promise = None
  BY DEF Init
<1> QED BY <1>1, <1>2, <1>3 DEF Inv, Saves, Landings, Solitude, Alone, Promised

-----------------------------------------------------------------------------
(***************************************************************************)
(* The steps.                                                              *)
(***************************************************************************)
\* A tab shows another form, and nothing is written.
LEMMA ShownKeepsInv ==
    ASSUME Inv, NEW t \in Tabs, NEW p, IsPage(p), page' = [page EXCEPT ![t] = p],
           UNCHANGED <<store, request, landing, promise>>
    PROVE  Inv'
<1>1. Pages'
  BY DEF Inv, Pages
<1>2. (Accepted /\ Saves /\ Landings /\ Promised)'
  BY DEF Inv, Accepted, Saves, Landings, Promised
<1>3. Solitude'
  BY DEF Inv, Solitude, Alone
<1> QED BY <1>1, <1>2, <1>3 DEF Inv

\* Loading the page keeps the invariant.
LEMMA LoadKeepsInv ==
    ASSUME Inv, NEW t \in Tabs, NEW i \in Isolates, Load(t, i)
    PROVE  Inv'
<1>1. IsPage(Rendered(Part(Current(i), FormKeys)))
  BY PartIsForm, RenderedFacts
<1> QED BY <1>1, ShownKeepsInv DEF Load, Show

\* So does editing a field.
LEMMA EditKeepsInv ==
    ASSUME Inv, NEW t \in Tabs, NEW key, NEW value, Edit(t, key, value)
    PROVE  Inv'
<1> DEFINE form == [page[t].form EXCEPT ![key] = value]
           shown == IF key = "fragmentMode" THEN Fragmented(form, page[t].initial) ELSE form
           new == [page[t] EXCEPT !.form = shown]
           dirty == Changed(new)
<1>1. page' = [page EXCEPT ![t] = [new EXCEPT !.enabled = dirty]]
      /\ UNCHANGED <<store, request, landing, promise>>
  BY DEF Edit, Show
<1>2. IsPage(page[t])
  BY DEF Inv, Pages
<1>3. IsForm(shown)
  BY <1>2, FormFacts DEF IsPage
<1> HIDE DEF shown
<1>4. IsPage(new)
  BY <1>2, <1>3, PageFacts
<1> HIDE DEF new, dirty
<1>5. IsPage([new EXCEPT !.enabled = dirty])
  BY <1>3, <1>4, PageFacts
<1> QED BY <1>1, <1>5, ShownKeepsInv

\* So does a patch that waits to be saved.
LEMMA StageKeepsInv ==
    ASSUME Inv, NEW t \in Tabs, NEW patch, page' = [page EXCEPT ![t] = Patched(page[t], patch)],
           UNCHANGED <<store, request, landing, promise>>
    PROVE  Inv'
<1>1. IsPage(Patched(page[t], patch))
  BY PatchedFacts DEF Inv, Pages
<1> QED BY <1>1, ShownKeepsInv

\* So does an import.
LEMMA ImportKeepsInv ==
    ASSUME Inv, NEW t \in Tabs, NEW shared, Import(t, shared)
    PROVE  Inv'
<1> DEFINE p == Rendered(Overlay(page[t].form, shared))
<1>1. page' = [page EXCEPT ![t] = [p EXCEPT !.enabled = TRUE]]
      /\ UNCHANGED <<store, request, landing, promise>>
  BY DEF Import, Show
<1>2. IsForm(Overlay(page[t].form, shared))
  BY FormFacts DEF Inv, Pages, IsPage
<1>3. IsPage(p)
  BY <1>2, RenderedFacts
<1> HIDE DEF p
<1>4. \A b : IsPage([p EXCEPT !.enabled = b])
  BY <1>2, <1>3, PageFacts
<1> QED BY <1>1, <1>4, ShownKeepsInv

\* Nothing that the invariant is about changes.
LEMMA QuietKeepsInv ==
    ASSUME Inv, UNCHANGED <<store, page, request, landing, promise>>
    PROVE  Inv'
BY DEF Inv, Accepted, Pages, Saves, Landings, Solitude, Alone, Promised

\* A save begins with a form that was accepted.
LEMMA SubmitKeepsInv ==
    ASSUME Inv, NEW t \in Tabs, NEW i \in Isolates, Submit(t, i)
    PROVE  Inv'
<1> DEFINE form == page[t].form
           docs == {"settings"} \cup
                   IF Part(form, IdentityKeys) = Identity(i) THEN {} ELSE {"identity"}
           alone == /\ \A u \in Tabs : request[u] = None
                    /\ landing = {} /\ Identity(i) = Part(store, IdentityKeys)
           save == [home |-> i, form |-> form, pending |-> docs, alone |-> alone]
<1>1. /\ Validation!Accepts(form) /\ request' = [Disturb(t) EXCEPT ![t] = save]
      /\ promise' = None /\ UNCHANGED <<store, page, landing>>
  BY DEF Submit
<1>2. IsForm(form)
  BY DEF Inv, Pages, IsPage
<1>3. docs \subseteq Docs /\ "settings" \in docs
  BY DEF Docs
<1>4. "identity" \in docs \/ Part(form, IdentityKeys) = Identity(i)
  OBVIOUS
<1>5. save.form = form /\ save.pending = docs /\ (save.alone => alone)
  <2>1. \A b : [home |-> i, form |-> form, pending |-> docs, alone |-> b].alone = b
    OBVIOUS
  <2> QED BY <2>1
<1>6. IsSave(save)
  <2> DEFINE some == alone
  <2>1. save = [home |-> i, form |-> form, pending |-> docs, alone |-> some]
    OBVIOUS
  <2> HIDE DEF some, docs, form
  <2>2. IsSave([home |-> i, form |-> form, pending |-> docs, alone |-> some])
    BY <1>1, <1>2, <1>3 DEF IsSave
  <2> QED BY <2>1, <2>2
<1>7. ASSUME alone PROVE SoFar(store, save)
  <2> SUFFICES ASSUME NEW doc \in Docs \ docs, NEW k \in FormKeys \cap Documents[doc]
               PROVE  store[k] = form[k]
    BY <1>5 DEF SoFar
  <2>1. doc = "identity" /\ Part(form, IdentityKeys) = Part(store, IdentityKeys)
    BY <1>3, <1>4, <1>7 DEF Docs
  <2>2. k \in IdentityKeys
    BY <2>1 DEF Documents
  <2> HIDE DEF form
  <2> QED BY <2>1, <2>2 DEF Part
<1> HIDE DEF save, form, docs
<1>8. /\ request' = [u \in Tabs |-> request'[u]] /\ request'[t] = save
      /\ \A u \in Tabs \ {t} :
            IF request[u] = None THEN request'[u] = None
            ELSE IsSave(request'[u]) /\ ~request'[u].alone
  <2>1. Saves
    BY DEF Inv
  <2> QED BY <1>1, <2>1, DisturbFacts
<1>9. Saves'
  BY <1>6, <1>8 DEF Saves
<1>10. ASSUME NEW u \in Tabs PROVE Alone(u)'
  <2>1. CASE u # t
    BY <2>1, <1>8 DEF Alone
  <2>2. CASE u = t
    <3> SUFFICES ASSUME save.alone
                 PROVE  landing = {} /\ (\A v \in Tabs \ {t} : request'[v] = None) /\ SoFar(store, save)
      BY <2>2, <1>1, <1>8 DEF Alone
    <3> QED BY <1>5, <1>7, <1>8
  <2> QED BY <2>1, <2>2
<1>11. (Accepted /\ Pages /\ Landings)'
  BY <1>1 DEF Inv, Accepted, Pages, Landings
<1> QED BY <1>1, <1>9, <1>10, <1>11 DEF Inv, Solitude, Promised

\* One more writer, whose writes are yet to come: nobody is alone and no promise stands.
LEMMA DisturbKeepsInv ==
    ASSUME Inv, DOMAIN store' = Keys, Validation!Accepts(store'),
           Landings', request' = Disturb(None), promise' = None, page' = page
    PROVE  Inv'
<1>1. None \notin Tabs
  BY PanelFormAssumption
<1>2. Saves
  BY DEF Inv
<1>3. /\ request' = [u \in Tabs |-> request'[u]]
      /\ \A u \in Tabs : IF request[u] = None THEN request'[u] = None
                         ELSE IsSave(request'[u]) /\ ~request'[u].alone
  BY <1>1, <1>2, DisturbFacts
<1>4. Saves' /\ Solitude'
  BY <1>3 DEF Saves, Solitude, Alone
<1> QED BY <1>4 DEF Inv, Accepted, Pages, Promised

\* A preset that is applied is valid where it lands.
LEMMA PresetApplyKeepsInv ==
    ASSUME Inv, NEW i \in Isolates, NEW id, PresetApply(i, id)
    PROVE  Inv'
<1> DEFINE next == Applied(id, Effective(Current(i)))
<1>1. /\ Validation!Accepts(next)
      /\ landing' = landing \cup {[home |-> i, doc |-> "settings", form |-> next]}
      /\ request' = Disturb(None) /\ promise' = None /\ UNCHANGED <<store, page>>
  BY DEF PresetApply
<1> HIDE DEF next
<1>2. Landings'
  BY <1>1 DEF Inv, Landings, Docs
<1> QED BY <1>1, <1>2, DisturbKeepsInv DEF Inv, Accepted

\* So are the custom modes.
LEMMA ModesRouteKeepsInv ==
    ASSUME Inv, NEW i \in Isolates, NEW m, NEW f, ModesRoute(i, m, f)
    PROVE  Inv'
<1>1. DOMAIN store' = Keys /\ Validation!Accepts(store')
  BY ModesAccepted DEF Inv, Accepted
<1>2. request' = Disturb(None) /\ promise' = None /\ UNCHANGED <<page, landing>>
  BY DEF ModesRoute
<1> QED BY <1>1, <1>2, DisturbKeepsInv DEF Inv, Landings

\* A document that lands is of an accepted form, and the other one stays valid.
LEMMA LandKeepsInv ==
    ASSUME Inv, NEW t \in Tabs, NEW doc \in Docs, Land(t, doc)
    PROVE  Inv'
<1> DEFINE r == request[t]
           q == [r EXCEPT !.pending = @ \ {doc}]
<1>1. /\ r # None /\ doc \in r.pending /\ store' = Written(store, r.form, doc)
      /\ request' = [request EXCEPT ![t] = q]
      /\ UNCHANGED <<page, landing, promise>>
  <2>1. DOMAIN request = Tabs
    BY DEF Inv, Saves
  <2> QED BY <2>1 DEF Land, Write
<1>2. IsSave(r)
  BY <1>1 DEF Inv, Saves
<1>3. IsSave(q) /\ q.form = r.form /\ q.alone = r.alone /\ q.pending = r.pending \ {doc}
  BY <1>2, SaveFacts
<1> HIDE DEF q
<1>4. request'[t] = q /\ \A u \in Tabs \ {t} : request'[u] = request[u]
  BY <1>1 DEF Inv, Saves
<1>5. Accepted'
  BY <1>1, <1>2, WrittenFacts, WrittenAccepted DEF Inv, Accepted, IsSave
<1>6. Saves'
  BY <1>1, <1>3 DEF Inv, Saves
<1>7. ASSUME NEW u \in Tabs PROVE Alone(u)'
  <2>1. CASE u # t
    <3>1. ~(request[u] # None /\ request[u].alone)
      BY <2>1, <1>1 DEF Inv, Solitude, Alone
    <3> QED BY <2>1, <3>1, <1>4 DEF Alone
  <2>2. CASE u = t
    <3> SUFFICES ASSUME q.alone
                 PROVE  landing = {} /\ (\A v \in Tabs \ {t} : request'[v] = None) /\ SoFar(store', q)
      BY <2>2, <1>1, <1>4 DEF Alone
    <3>1. r.alone
      BY <1>3
    <3>2. landing = {} /\ (\A v \in Tabs \ {t} : request[v] = None) /\ SoFar(store, r)
      BY <3>1, <1>1 DEF Inv, Solitude, Alone
    <3>3. SoFar(store', q)
      <4> SUFFICES ASSUME NEW d \in Docs \ q.pending, NEW k \in FormKeys \cap Documents[d]
                   PROVE  store'[k] = r.form[k]
        BY <1>3 DEF SoFar
      <4>1. k \in Keys /\ k # "panelVersion"
        BY KeysApart
      <4>2. CASE d = doc
        BY <4>1, <4>2, <1>1, WrittenFacts DEF Inv, Accepted
      <4>3. CASE d # doc
        <5>1. k \notin Documents[doc]
          BY <4>3, KeysApart DEF Docs
        <5>2. store'[k] = store[k]
          BY <4>1, <5>1, <1>1, WrittenFacts DEF Inv, Accepted
        <5>3. d \in Docs \ r.pending
          BY <4>3, <1>3
        <5> QED BY <5>2, <5>3, <3>2 DEF SoFar
      <4> QED BY <4>2, <4>3
    <3> QED BY <3>2, <3>3, <1>4
  <2> QED BY <2>1, <2>2
<1>8. Promised'
  BY <1>1 DEF Inv, Promised
<1> QED BY <1>1, <1>5, <1>6, <1>7, <1>8 DEF Inv, Pages, Landings, Solitude

\* A save that is answered has stored what its form says while it was alone.
LEMMA AnswerKeepsInv ==
    ASSUME Inv, NEW t \in Tabs, Answer(t)
    PROVE  Inv'
<1> DEFINE r == request[t]
<1>1. /\ r # None /\ r.pending = {} /\ page' = [page EXCEPT ![t] = Rendered(r.form)]
      /\ promise' = IF r.alone THEN r.form ELSE None
      /\ request' = [request EXCEPT ![t] = None] /\ UNCHANGED <<store, landing>>
  BY DEF Answer, Show
<1>2. IsSave(r)
  BY <1>1 DEF Inv, Saves
<1>3. Pages'
  <2>1. IsPage(Rendered(r.form))
    BY <1>2, RenderedFacts DEF IsSave
  <2> QED BY <1>1, <2>1 DEF Inv, Pages
<1>4. request'[t] = None /\ (\A u \in Tabs \ {t} : request'[u] = request[u]) /\ Saves'
  BY <1>1 DEF Inv, Saves
<1>5. ASSUME NEW u \in Tabs PROVE Alone(u)'
  <2>1. CASE u # t
    <3>1. ~(request[u] # None /\ request[u].alone)
      BY <2>1, <1>1 DEF Inv, Solitude, Alone
    <3> QED BY <2>1, <3>1, <1>4 DEF Alone
  <2>2. CASE u = t
    BY <2>2, <1>4 DEF Alone
  <2> QED BY <2>1, <2>2
<1>6. Promised'
  <2>1. CASE ~r.alone
    BY <2>1, <1>1 DEF Promised
  <2>2. CASE r.alone
    <3>1. landing = {} /\ (\A u \in Tabs \ {t} : request[u] = None) /\ SoFar(store, r)
      BY <2>2, <1>1 DEF Inv, Solitude, Alone
    <3>2. r.form = Part(store, FormKeys)
      BY <3>1, <1>1, <1>2, SoFarAll
    <3> QED BY <2>2, <3>1, <3>2, <1>1, <1>4 DEF Promised
  <2> QED BY <2>1, <2>2
<1> QED BY <1>1, <1>3, <1>4, <1>5, <1>6 DEF Inv, Accepted, Landings, Solitude

\* A save that fails may leave writes of its form behind.
LEMMA FailKeepsInv ==
    ASSUME Inv, NEW t \in Tabs, NEW kept \in SUBSET Docs, Fail(t, kept)
    PROVE  Inv'
<1> DEFINE rest == {[home |-> request[t].home, form |-> request[t].form, doc |-> d] : d \in kept}
<1>1. /\ request[t] # None /\ landing' = landing \cup rest
      /\ request' = [request EXCEPT ![t] = None] /\ UNCHANGED <<store, page, promise>>
  BY DEF Fail
<1>2. \A w \in rest : w.doc \in Docs /\ Validation!Accepts(w.form)
  BY <1>1 DEF Inv, Saves, IsSave
<1> HIDE DEF rest
<1>3. Landings'
  BY <1>1, <1>2 DEF Inv, Landings
<1>4. request'[t] = None /\ (\A u \in Tabs \ {t} : request'[u] = request[u]) /\ Saves'
  BY <1>1 DEF Inv, Saves
<1>5. ASSUME NEW u \in Tabs PROVE Alone(u)'
  <2>1. CASE u # t
    <3>1. ~(request[u] # None /\ request[u].alone)
      BY <2>1, <1>1 DEF Inv, Solitude, Alone
    <3> QED BY <2>1, <3>1, <1>4 DEF Alone
  <2>2. CASE u = t
    BY <2>2, <1>4 DEF Alone
  <2> QED BY <2>1, <2>2
<1>6. Promised'
  BY <1>1 DEF Inv, Promised
<1> QED BY <1>1, <1>3, <1>4, <1>5, <1>6 DEF Inv, Accepted, Pages, Solitude

\* And these are valid whenever they land.
LEMMA LateLandKeepsInv ==
    ASSUME Inv, NEW w \in landing, LateLand(w)
    PROVE  Inv'
<1>1. /\ store' = Written(store, w.form, w.doc) /\ landing' = landing \ {w}
      /\ UNCHANGED <<page, request, promise>>
  BY DEF LateLand, Write
<1>2. w.doc \in Docs /\ Validation!Accepts(w.form)
  BY DEF Inv, Landings
<1>3. Accepted'
  BY <1>1, <1>2, WrittenFacts, WrittenAccepted DEF Inv, Accepted
<1>4. Solitude' /\ Promised'
  BY <1>1 DEF Inv, Solitude, Alone, Promised
<1> QED BY <1>1, <1>3, <1>4 DEF Inv, Pages, Saves, Landings

\* Every step keeps the invariant.
LEMMA NextKeepsInv == Inv /\ [Next]_vars => Inv'
<1> SUFFICES ASSUME Inv, [Next]_vars PROVE Inv'
  OBVIOUS
<1>1. CASE UNCHANGED vars
  BY <1>1, QuietKeepsInv DEF vars
<1>2. CASE Operator
  <2>1. CASE \E t \in Tabs, i \in Isolates :
               Load(t, i) \/ StageSmart(t, i) \/ Submit(t, i) \/ Restore(t, i)
    <3> PICK t \in Tabs, i \in Isolates :
               Load(t, i) \/ StageSmart(t, i) \/ Submit(t, i) \/ Restore(t, i)
      BY <2>1
    <3>1. CASE StageSmart(t, i)
      BY <3>1, StageKeepsInv DEF StageSmart, Show
    <3>2. CASE Restore(t, i)
      BY <3>2, StageKeepsInv DEF Restore
    <3> QED BY <3>1, <3>2, LoadKeepsInv, SubmitKeepsInv
  <2>2. CASE \E t \in Tabs, e \in Edits : Edit(t, e[1], e[2])
    BY <2>2, EditKeepsInv
  <2>3. CASE \E t \in Tabs, i \in Isolates, id \in Tried : Stage(t, i, id)
    BY <2>3, StageKeepsInv DEF Stage, Show
  <2>4. CASE \E t \in Tabs, shared \in Shared : Import(t, shared)
    BY <2>4, ImportKeepsInv
  <2>5. CASE \E i \in Isolates, id \in Tried : PresetApply(i, id)
    BY <2>5, PresetApplyKeepsInv
  <2>6. CASE \E i \in Isolates, m \in Modes : ModesRoute(i, m[1], m[2])
    BY <2>6, ModesRouteKeepsInv
  <2>7. CASE \E i \in Isolates : Export(i)
    BY <2>7, QuietKeepsInv DEF Export
  <2>8. CASE \E i \in Isolates, world \in Worlds : Consult(i, world)
    BY <2>8, QuietKeepsInv DEF Consult
  <2>9. CASE \E f \in Backups : BringFile(f)
    BY <2>9, QuietKeepsInv DEF BringFile
  <2> QED BY <1>2, <2>1, <2>2, <2>3, <2>4, <2>5, <2>6, <2>7, <2>8, <2>9 DEF Operator
<1>3. CASE Server
  <2>1. DOMAIN Documents = Docs
    BY KeysApart
  <2> QED
    BY <1>3, <2>1, LandKeepsInv, AnswerKeepsInv, FailKeepsInv, LateLandKeepsInv DEF Server
<1> QED BY <1>1, <1>2, <1>3 DEF Next

-----------------------------------------------------------------------------
(***************************************************************************)
(* The exact effect of a restore.                                          *)
(***************************************************************************)
Numbers == {"fragmentLength", "fragmentDelay"}

\* What an empty setting stands for, and nothing else.
Filled(k, v) ==
    IF k = "dohUrl" /\ v = NoText THEN DefaultDoH
    ELSE IF k = "prefixes" /\ v = {} THEN DefaultPrefixes
    ELSE v

\* A default that is filled in is not filled in again, and only two keys have one.
LEMMA FilledFacts ==
    ASSUME NEW k, NEW v
    PROVE  /\ Filled(k, Filled(k, v)) = Filled(k, v)
           /\ k \notin {"dohUrl", "prefixes"} => Filled(k, v) = v
BY DEF Filled

\* What is in effect is what is stored, key by key, with the defaults filled in.
LEMMA EffectiveFacts ==
    ASSUME NEW s
    PROVE  /\ DOMAIN Effective(s) = DOMAIN s
           /\ \A k \in DOMAIN s : Effective(s)[k] = Filled(k, s[k])
<1> DEFINE doh == IF s.dohUrl = NoText THEN DefaultDoH ELSE s.dohUrl
           once == [s EXCEPT !["dohUrl"] = doh]
           prefixes == IF once.prefixes = {} THEN DefaultPrefixes ELSE once.prefixes
<1>1. Effective(s) = [once EXCEPT !["prefixes"] = prefixes]
  BY DEF Effective
<1>2. /\ DOMAIN once = DOMAIN s
      /\ \A k \in DOMAIN s : once[k] = IF k = "dohUrl" THEN doh ELSE s[k]
  OBVIOUS
<1> HIDE DEF once
<1>3. /\ DOMAIN Effective(s) = DOMAIN s
      /\ \A k \in DOMAIN s : Effective(s)[k] = IF k = "prefixes" THEN prefixes ELSE once[k]
  BY <1>1, <1>2
<1> SUFFICES ASSUME NEW k \in DOMAIN s PROVE Effective(s)[k] = Filled(k, s[k])
  BY <1>3
<1>4. CASE k = "dohUrl"
  BY <1>2, <1>3, <1>4 DEF Filled
<1>5. CASE k = "prefixes"
  BY <1>2, <1>3, <1>5 DEF Filled
<1>6. CASE k \notin {"dohUrl", "prefixes"}
  BY <1>2, <1>3, <1>6 DEF Filled
<1> QED BY <1>4, <1>5, <1>6

\* The numbers of a custom mode are restored with it and have no defaults.
LEMMA NumbersApart ==
    /\ Numbers \subseteq Restored /\ "fragmentMode" \in Restored /\ "fragmentMode" \notin Numbers
    /\ Restored \subseteq FormKeys
    /\ Numbers \cap {"dohUrl", "prefixes"} = {}
<1>1. Numbers \cup {"fragmentMode"} \subseteq Keys
  BY PanelFormAssumption DEF Numbers, Validation!Validated, Validation!MinMax
<1>2. (Numbers \cup {"fragmentMode"})
        \cap ({"panelVersion"} \cup Backup!PROTECTED_KEYS \cup Backup!Nested) = {}
  BY DEF Numbers, Backup!PROTECTED_KEYS, Backup!Nested
<1>3. "fragmentMode" \notin Numbers /\ Numbers \cap {"dohUrl", "prefixes"} = {}
  BY DEF Numbers
<1> QED BY <1>1, <1>2, <1>3 DEF Restored, FormKeys

\* The numbers a mode gives depend on the mode and on what the form was loaded with.
LEMMA FragmentedFacts ==
    ASSUME NEW f, IsForm(f), NEW had
    PROVE  /\ \A k \in FormKeys \ Numbers : Fragmented(f, had)[k] = f[k]
           /\ \A g : IsForm(g) /\ g.fragmentMode = f.fragmentMode =>
                \A k \in Numbers : Fragmented(g, had)[k] = Fragmented(f, had)[k]
<1> DEFINE given(mode) == IF mode = "custom" THEN <<had.fragmentLength, had.fragmentDelay>>
                          ELSE FragmentNumbers[mode]
<1>1. ASSUME NEW g, IsForm(g)
      PROVE  /\ \A k \in FormKeys \ Numbers : Fragmented(g, had)[k] = g[k]
             /\ Fragmented(g, had)["fragmentLength"] = given(g.fragmentMode)[1]
             /\ Fragmented(g, had)["fragmentDelay"] = given(g.fragmentMode)[2]
  <2> DEFINE numbers == given(g.fragmentMode)
             once == [g EXCEPT !["fragmentLength"] = numbers[1]]
  <2>1. Fragmented(g, had) = [once EXCEPT !["fragmentDelay"] = numbers[2]]
    BY DEF Fragmented
  <2> HIDE DEF numbers
  <2>2. DOMAIN g = FormKeys /\ Numbers \subseteq FormKeys
    BY <1>1, NumbersApart DEF IsForm
  <2>3. /\ \A k \in FormKeys \ Numbers : [once EXCEPT !["fragmentDelay"] = numbers[2]][k] = g[k]
        /\ [once EXCEPT !["fragmentDelay"] = numbers[2]]["fragmentLength"] = numbers[1]
        /\ [once EXCEPT !["fragmentDelay"] = numbers[2]]["fragmentDelay"] = numbers[2]
    BY <2>2 DEF Numbers
  <2> QED BY <2>1, <2>3 DEF numbers
<1> HIDE DEF given
<1> QED BY <1>1 DEF Numbers

Exact(p, g) ==
    LET form == Effective(p.form)
        want == Effective(g)
        had  == p.initial
    IN  \A k \in FormKeys :
          form[k] = IF k \in Numbers /\ (want.fragmentMode # had.fragmentMode \/ want[k] = had[k])
                      THEN Fragmented(want, had)[k]
                      ELSE want[k]

\* The plan of a file for settings s, key by key.
LEMMA PlanFacts ==
    ASSUME NEW f, Sample(f), NEW s, DOMAIN s = Keys
    PROVE  LET patch == Backup!PlanRestore(f.envelope, s) IN
           /\ \A k \in FormKeys \cap DOMAIN patch : k \in Restored /\ patch[k] = f.of[k]
           /\ \A k \in Restored : k \in DOMAIN patch <=> f.of[k] # s[k]
<1> DEFINE e == f.envelope.settings
           keys == {k \in (DOMAIN e \cap Keys) \ Backup!PROTECTED_KEYS : e[k] # s[k]}
           patch == Backup!PlanRestore(f.envelope, s)
<1>1. patch = [k \in DOMAIN e \cap keys |-> e[k]]
  BY DEF Backup!PlanRestore, Backup!KeepOnly
<1>2. /\ \A k \in Restored : k \in DOMAIN e /\ e[k] = f.of[k]
      /\ DOMAIN e \cap Backup!Nested = {}
  BY DEF Sample
<1> HIDE DEF e, patch
<1>3. DOMAIN patch = keys /\ \A k \in keys : patch[k] = e[k]
  BY <1>1
<1>4. Restored = FormKeys \ (Backup!PROTECTED_KEYS \cup Backup!Nested) /\ FormKeys \subseteq Keys
  BY DEF Restored, FormKeys
<1>5. \A k \in FormKeys \cap DOMAIN patch : k \in Restored /\ patch[k] = f.of[k]
  BY <1>2, <1>3, <1>4
<1>6. \A k \in Restored : k \in DOMAIN patch <=> f.of[k] # s[k]
  BY <1>2, <1>3, <1>4
<1> QED BY <1>5, <1>6 DEF patch

\* A page patched with the plan of a backup shows what the backup holds.
LEMMA RestoredExactly ==
    ASSUME NEW f, Sample(f), NEW s, DOMAIN s = Keys
    PROVE  LET shown == Rendered(Part(s, FormKeys))
               patch == Backup!PlanRestore(f.envelope, Effective(s))
           IN  Exact(Patched(shown, patch), Overlay(shown.form, Part(f.of, Restored)))
<1> DEFINE had    == Part(s, FormKeys)
           now    == Fragmented(had, had)
           patch  == Backup!PlanRestore(f.envelope, Effective(s))
           filled == Overlay(now, patch)
           form   == IF "fragmentMode" \in DOMAIN patch THEN Fragmented(filled, had) ELSE filled
           goal_  == Overlay(now, Part(f.of, Restored))
           want   == Effective(goal_)
           after  == Effective(form)
<1>1. IsForm(had) /\ IsForm(now) /\ IsForm(filled) /\ IsForm(form) /\ IsForm(goal_)
  BY PartIsForm, FormFacts
<1>2. \A k \in FormKeys : had[k] = s[k]
  BY DEF Part
<1>3. \A k \in FormKeys \ Numbers : now[k] = s[k]
  BY <1>1, <1>2, FragmentedFacts
<1>4. /\ DOMAIN Effective(s) = Keys
      /\ \A k \in Keys : Effective(s)[k] = Filled(k, s[k])
  BY EffectiveFacts
<1>5. FormKeys \subseteq Keys
  BY DEF FormKeys
<1>6. /\ \A k \in FormKeys \cap DOMAIN patch : k \in Restored /\ patch[k] = f.of[k]
      /\ \A k \in Restored : k \in DOMAIN patch <=> f.of[k] # Filled(k, s[k])
  <2>1. /\ \A k \in FormKeys \cap DOMAIN patch : k \in Restored /\ patch[k] = f.of[k]
        /\ \A k \in Restored : k \in DOMAIN patch <=> f.of[k] # Effective(s)[k]
    BY <1>4, PlanFacts
  <2> QED BY <2>1, <1>4, <1>5, NumbersApart
<1> HIDE DEF patch
<1>7. \A k \in FormKeys : filled[k] = IF k \in DOMAIN patch THEN patch[k] ELSE now[k]
  <2>1. DOMAIN now = FormKeys
    BY <1>1 DEF IsForm
  <2> QED BY <2>1 DEF Overlay
<1>8. \A k \in FormKeys : goal_[k] = IF k \in Restored THEN f.of[k] ELSE now[k]
  <2>1. DOMAIN now = FormKeys
    BY <1>1 DEF IsForm
  <2> QED BY <2>1 DEF Overlay, Part
<1>9. \A k \in FormKeys : want[k] = Filled(k, goal_[k]) /\ after[k] = Filled(k, form[k])
  <2>1. DOMAIN goal_ = FormKeys /\ DOMAIN form = FormKeys
    BY <1>1 DEF IsForm
  <2> HIDE DEF goal_, form
  <2> QED BY <2>1, EffectiveFacts
<1>10. IsForm(want)
  <2>1. want = [[goal_ EXCEPT !.dohUrl = IF @ = NoText THEN DefaultDoH ELSE @] EXCEPT
                  !.prefixes = IF @ = {} THEN DefaultPrefixes ELSE @]
    BY DEF Effective
  <2> HIDE DEF goal_
  <2> QED BY <2>1, <1>1 DEF IsForm
<1> HIDE DEF had, now, goal_, want, after
<1>11. \A k \in FormKeys \ Numbers : form[k] = filled[k]
  BY <1>1, FragmentedFacts
<1>12. ASSUME NEW k \in FormKeys \ Numbers PROVE after[k] = want[k]
  <2> HIDE DEF form, filled
  <2>1. CASE k \in DOMAIN patch
    BY <2>1, <1>6, <1>7, <1>8, <1>9, <1>11
  <2>2. CASE k \notin Restored
    BY <2>2, <1>6, <1>7, <1>8, <1>9, <1>11
  <2>3. CASE k \in Restored /\ k \notin DOMAIN patch
    <3>1. form[k] = s[k] /\ goal_[k] = Filled(k, s[k])
      BY <2>3, <1>3, <1>6, <1>7, <1>8, <1>11
    <3> QED BY <3>1, <1>9, FilledFacts
  <2> QED BY <2>1, <2>2, <2>3
<1>13. /\ want.fragmentMode = f.of.fragmentMode
       /\ "fragmentMode" \in DOMAIN patch <=> want.fragmentMode # had.fragmentMode
  <2>1. want["fragmentMode"] = f.of["fragmentMode"]
    BY <1>8, <1>9, NumbersApart, FilledFacts
  <2>2. "fragmentMode" \in DOMAIN patch <=> f.of["fragmentMode"] # s["fragmentMode"]
    BY <1>6, NumbersApart, FilledFacts
  <2> QED BY <2>1, <2>2, <1>2, NumbersApart
<1>14. ASSUME NEW k \in Numbers
       PROVE  /\ after[k] = form[k] /\ want[k] = f.of[k]
              /\ k \in DOMAIN patch <=> want[k] # had[k]
  <2>1. k \in FormKeys /\ k \in Restored /\ k \notin {"dohUrl", "prefixes"}
    BY NumbersApart
  <2> HIDE DEF form
  <2> QED BY <2>1, <1>2, <1>6, <1>8, <1>9, FilledFacts
<1>15. ASSUME NEW k \in Numbers
       PROVE  after[k] = IF want.fragmentMode # had.fragmentMode \/ want[k] = had[k]
                           THEN Fragmented(want, had)[k] ELSE want[k]
  <2>1. CASE "fragmentMode" \in DOMAIN patch
    <3>1. filled.fragmentMode = want.fragmentMode
      BY <2>1, <1>6, <1>7, <1>13, NumbersApart
    <3>2. form = Fragmented(filled, had)
      BY <2>1
    <3> HIDE DEF form, filled
    <3>3. form[k] = Fragmented(want, had)[k]
      BY <3>1, <3>2, <1>1, <1>10, FragmentedFacts
    <3> QED BY <2>1, <3>3, <1>13, <1>14
  <2>2. CASE "fragmentMode" \notin DOMAIN patch
    <3>1. form = filled /\ want.fragmentMode = had.fragmentMode /\ k \in FormKeys
      BY <2>2, <1>13, NumbersApart
    <3> HIDE DEF form, filled
    <3>2. CASE k \in DOMAIN patch
      BY <3>1, <3>2, <1>6, <1>7, <1>14
    <3>3. CASE k \notin DOMAIN patch
      <4>1. now[k] = Fragmented(want, had)[k]
        BY <3>1, <1>1, <1>10, FragmentedFacts DEF now
      <4> QED BY <3>1, <3>3, <4>1, <1>7, <1>14
    <3> QED BY <3>2, <3>3
  <2> QED BY <2>1, <2>2
<1>16. \A k \in FormKeys :
         after[k] = IF k \in Numbers /\ (want.fragmentMode # had.fragmentMode \/ want[k] = had[k])
                      THEN Fragmented(want, had)[k] ELSE want[k]
  BY <1>12, <1>15
<1>17. Rendered(had) = [initial |-> had, form |-> now, enabled |-> FALSE]
  BY DEF Rendered, now
<1>18. Patched(Rendered(had), patch) = [initial |-> had, form |-> form, enabled |-> TRUE]
  <2> DEFINE p == Rendered(had)
  <2>1. p.form = now /\ p.initial = had
    BY <1>17
  <2>2. Patched(p, patch) = [p EXCEPT !.form = form, !.enabled = TRUE]
    <3> HIDE DEF p
    <3> QED BY <2>1 DEF Patched
  <2> HIDE DEF form, filled
  <2>3. [p EXCEPT !.form = form] = [initial |-> had, form |-> form, enabled |-> FALSE]
    <3>1. \A b : [[initial |-> had, form |-> now, enabled |-> b] EXCEPT !.form = form]
                 = [initial |-> had, form |-> form, enabled |-> b]
      OBVIOUS
    <3> QED BY <3>1, <1>17
  <2>4. \A a, b : [[initial |-> had, form |-> form, enabled |-> a] EXCEPT !.enabled = b]
                  = [initial |-> had, form |-> form, enabled |-> b]
    OBVIOUS
  <2> HIDE DEF p
  <2>5. \A b : [[p EXCEPT !.form = form] EXCEPT !.enabled = b]
               = [initial |-> had, form |-> form, enabled |-> b]
    BY <2>3, <2>4
  <2> QED BY <2>2, <2>5 DEF p
<1> HIDE DEF form, filled
<1>19. Exact(Patched(Rendered(had), patch), goal_)
  BY <1>16, <1>18 DEF Exact, want, after
<1>20. Rendered(had).form = now
  BY <1>17
<1> QED BY <1>19, <1>20 DEF goal_, had, patch

\* What every state has besides Inv: the file at hand is a backup, and a form whose
\* restore was staged still shows it.
Staged == /\ goal = [t \in Tabs |-> goal[t]]
          /\ \A t \in Tabs : goal[t] # None => Exact(page[t], goal[t])
Files == file # None => Sample(file)

\* At first nothing is staged, and the files are backups.
LEMMA InitialStaged == Init => Staged /\ Files
BY DEF Init, Staged, Files

\* A form shown by anything but a restore is not what was staged.
LEMMA ShowKeepsStaged ==
    ASSUME Pages, Staged, Files, NEW t \in Tabs, NEW p, Show(t, p), file' = file
    PROVE  Staged' /\ Files'
<1>1. goal' = [goal EXCEPT ![t] = None] /\ page' = [page EXCEPT ![t] = p]
  BY DEF Show
<1>2. goal'[t] = None /\ \A u \in Tabs \ {t} : goal'[u] = goal[u] /\ page'[u] = page[u]
  BY <1>1 DEF Staged, Pages
<1> QED BY <1>1, <1>2 DEF Staged, Files

\* Whoever leaves the pages alone leaves what is staged.
LEMMA OthersKeepStaged ==
    ASSUME Staged, Files, UNCHANGED <<page, goal>>, file' = file \/ Sample(file')
    PROVE  Staged' /\ Files'
BY DEF Staged, Files

\* A restore stages what it promises.
LEMMA RestoreKeepsStaged ==
    ASSUME Inv, Staged, Files, NEW t \in Tabs, NEW i \in Isolates, Restore(t, i)
    PROVE  Staged' /\ Files'
<1> DEFINE s == Current(i)
           plan == Backup!PlanRestore(file.envelope, Effective(s))
           wanted == IF Fresh(t, i) THEN Overlay(page[t].form, Part(file.of, Restored)) ELSE None
<1>1. /\ file # None /\ Plan(i) # None /\ file' = file
      /\ page' = [page EXCEPT ![t] = Patched(page[t], Plan(i))]
      /\ goal' = [goal EXCEPT ![t] = wanted]
  BY DEF Restore
<1>2. Plan(i) = plan
  BY <1>1 DEF Plan
<1>3. page'[t] = Patched(page[t], plan) /\ \A u \in Tabs \ {t} : page'[u] = page[u]
  BY <1>1, <1>2 DEF Inv, Pages
<1>4. DOMAIN s = Keys
  BY DEF Current, Overlay, Inv, Accepted
<1>5. Sample(file)
  BY <1>1 DEF Files
<1>6. ASSUME wanted # None PROVE Exact(Patched(page[t], plan), wanted)
  <2>1. page[t] = Rendered(Part(s, FormKeys))
    BY <1>6 DEF Fresh
  <2>2. wanted = Overlay(page[t].form, Part(file.of, Restored))
    BY <1>6
  <2> HIDE DEF s, wanted
  <2> QED BY <2>1, <2>2, <1>4, <1>5, RestoredExactly
<1> HIDE DEF wanted, plan
<1>7. goal'[t] = wanted /\ \A u \in Tabs \ {t} : goal'[u] = goal[u]
  BY <1>1 DEF Staged
<1>8. goal' = [u \in Tabs |-> goal'[u]]
  BY <1>1 DEF Staged
<1> QED BY <1>1, <1>3, <1>6, <1>7, <1>8 DEF Staged, Files

\* The file of an export is a backup of the settings it was taken of.
LEMMA ExportSamples ==
    ASSUME Inv, NEW i \in Isolates, Export(i)
    PROVE  Sample(file')
<1> DEFINE s == Effective(Current(i))
           envelope == Backup!CreateBackup(s, VERSION)
<1>1. file' = [envelope |-> envelope, of |-> s]
  BY DEF Export
<1>2. DOMAIN s = Keys
  BY EffectiveFacts DEF Current, Overlay, Inv, Accepted
<1> HIDE DEF s
<1>3. envelope.settings = Backup!Redact(s)
  BY DEF Backup!CreateBackup
<1> HIDE DEF envelope
<1>4. Backup!Redact(s)
        = [k \in Keys \ (Backup!PROTECTED_KEYS \cup Backup!Nested) |-> s[k]]
  BY <1>2 DEF Backup!Redact, Backup!KeepOnly
<1>5. \A k \in Restored : k \in Keys \ (Backup!PROTECTED_KEYS \cup Backup!Nested)
  BY DEF Restored, FormKeys
<1>6. file'.envelope.settings = Backup!Redact(s) /\ file'.of = s
  BY <1>1, <1>3
<1> QED BY <1>4, <1>5, <1>6 DEF Sample

\* Every step keeps what is staged and the files.
LEMMA NextKeepsStaged == Inv /\ Staged /\ Files /\ [Next]_vars => Staged' /\ Files'
<1> SUFFICES ASSUME Inv, Staged, Files, [Next]_vars PROVE Staged' /\ Files'
  OBVIOUS
<1>0. Pages
  BY DEF Inv
<1>1. CASE UNCHANGED vars
  BY <1>1, OthersKeepStaged DEF vars
<1>2. CASE Operator
  <2>1. CASE \E t \in Tabs, i \in Isolates :
               Load(t, i) \/ StageSmart(t, i) \/ Submit(t, i) \/ Restore(t, i)
    <3> PICK t \in Tabs, i \in Isolates :
               Load(t, i) \/ StageSmart(t, i) \/ Submit(t, i) \/ Restore(t, i)
      BY <2>1
    <3>1. CASE Load(t, i)
      BY <3>1, <1>0, ShowKeepsStaged DEF Load
    <3>2. CASE StageSmart(t, i)
      BY <3>2, <1>0, ShowKeepsStaged DEF StageSmart
    <3>3. CASE Submit(t, i)
      BY <3>3, OthersKeepStaged DEF Submit
    <3> QED BY <3>1, <3>2, <3>3, RestoreKeepsStaged
  <2>2. CASE \E t \in Tabs, e \in Edits : Edit(t, e[1], e[2])
    BY <2>2, <1>0, ShowKeepsStaged DEF Edit
  <2>3. CASE \E t \in Tabs, i \in Isolates, id \in Tried : Stage(t, i, id)
    BY <2>3, <1>0, ShowKeepsStaged DEF Stage
  <2>4. CASE \E t \in Tabs, shared \in Shared : Import(t, shared)
    BY <2>4, <1>0, ShowKeepsStaged DEF Import
  <2>5. CASE \E i \in Isolates, id \in Tried : PresetApply(i, id)
    BY <2>5, OthersKeepStaged DEF PresetApply
  <2>6. CASE \E i \in Isolates, m \in Modes : ModesRoute(i, m[1], m[2])
    BY <2>6, OthersKeepStaged DEF ModesRoute
  <2>7. CASE \E i \in Isolates : Export(i)
    BY <2>7, ExportSamples, OthersKeepStaged DEF Export
  <2>8. CASE \E i \in Isolates, world \in Worlds : Consult(i, world)
    BY <2>8, OthersKeepStaged DEF Consult
  <2>9. CASE \E f \in Backups : BringFile(f)
    BY <2>9, PanelFormAssumption, OthersKeepStaged DEF BringFile
  <2> QED BY <1>2, <2>1, <2>2, <2>3, <2>4, <2>5, <2>6, <2>7, <2>8, <2>9 DEF Operator
<1>3. CASE Server
  <2>1. ASSUME NEW t \in Tabs, NEW doc, Land(t, doc) PROVE Staged' /\ Files'
    BY <2>1, OthersKeepStaged DEF Land
  <2>2. ASSUME NEW t \in Tabs, Answer(t) PROVE Staged' /\ Files'
    BY <2>2, <1>0, ShowKeepsStaged DEF Answer
  <2>3. ASSUME NEW t \in Tabs, NEW kept, Fail(t, kept) PROVE Staged' /\ Files'
    BY <2>3, OthersKeepStaged DEF Fail
  <2>4. ASSUME NEW w \in landing, LateLand(w) PROVE Staged' /\ Files'
    BY <2>4, OthersKeepStaged DEF LateLand
  <2> QED BY <1>3, <2>1, <2>2, <2>3, <2>4 DEF Server
<1> QED BY <1>1, <1>2, <1>3 DEF Next

-----------------------------------------------------------------------------
(***************************************************************************)
(* The theorems.                                                           *)
(***************************************************************************)
\* The invariant above holds in every reachable state.
THEOREM Invariance == Spec => []Inv
<1>1. Init => Inv
  BY InitialInv
<1>2. Inv /\ [Next]_vars => Inv'
  BY NextKeepsInv
<1> QED BY <1>1, <1>2, PTL DEF Spec

\* However saves, presets, modes and imports follow and overlap, and whichever of their
\* writes fail or come late, the two documents together are settings that
\* validateSettings accepts.
THEOREM StoredSettingsAreValid == Spec => []StoredIsValid
<1>1. Inv => StoredIsValid
  BY DEF Inv, Accepted, StoredIsValid
<1> QED BY <1>1, Invariance, PTL

\* A save reported as successful while nothing else was writing is what KV holds, in both
\* documents, until somebody writes again (updatePanelSettings, updateMainSettings).
THEOREM SavesAreStored == Spec => []SavedIsStored
<1>1. Inv => SavedIsStored
  BY DEF Inv, Promised, SavedIsStored
<1> QED BY <1>1, Invariance, PTL

\* A restore staged in a form that was up to date makes it the settings the backup was
\* taken of, this deployment's identity and noises apart, but for the fragment numbers of a
\* backup that brings another mode or the stored numbers (backupPlan, applyPatchToForm): for
\* every backup and every form, and until the tab shows something else.
THEOREM RestoresLoseOnlyNumbers == Spec => []RestoreLosesOnlyNumbers
<1>1. Init => Inv /\ Staged /\ Files
  BY InitialInv, InitialStaged
<1>2. (Inv /\ Staged /\ Files) /\ [Next]_vars => (Inv /\ Staged /\ Files)'
  BY NextKeepsInv, NextKeepsStaged
<1>3. Staged => RestoreLosesOnlyNumbers
  <2>1. ASSUME Staged, NEW t \in Tabs, goal[t] # None, NEW k \in FormKeys
        PROVE  \/ Effective(page[t].form)[k] = Effective(goal[t])[k]
               \/ /\ k \in {"fragmentLength", "fragmentDelay"}
                  /\ \/ Effective(goal[t]).fragmentMode # page[t].initial.fragmentMode
                     \/ Effective(goal[t])[k] = page[t].initial[k]
    BY <2>1 DEF Staged, Exact, Numbers
  <2> QED BY <2>1 DEF RestoreLosesOnlyNumbers
<1> QED BY <1>1, <1>2, <1>3, PTL DEF Spec
=============================================================================
