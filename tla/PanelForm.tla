------------------------------ MODULE PanelForm ------------------------------
(***************************************************************************)
(* The settings form of the panel, from the browser to the documents of    *)
(* KV: tabs that load, edit, save, stage presets, restore backups and      *)
(* import settings (assets/panel/script.js), the isolates that answer them *)
(* (handlers/panel.ts, settings/main.ts) and the routes of the platform    *)
(* that write settings too (api/platform.ts).                              *)
(*                                                                         *)
(* One function holds all settings; those of IdentityKeys are a document   *)
(* of their own, which an isolate reads once and then keeps.  An ordered   *)
(* list is a set, an input of two numbers a pair.  Every request is that   *)
(* of the signed-in administrator.  The reads a write begins with are part *)
(* of the write: SettingsStore is about what happens between them.         *)
(***************************************************************************)
EXTENDS Advice

CONSTANTS
    Tabs, Isolates,
    Stored,        \* the settings a deployment may start with
    Worlds,        \* what is around them: see Diagnosis
    Edits,         \* <<key, value>>: what the operator may enter
    Shared,        \* settings other deployments share
    Backups,       \* backups of other deployments, with the settings they were taken of
    DefaultDoH, DefaultPrefixes,
    VERSION,
    Tried,         \* the presets tried
    Modes,         \* <<proxyIpMode, fragmentMode>> asked for by the route of the modes
    MaxActs,       \* what the operator does in a behaviour
    MaxTrouble,    \* requests that fail
    Texts, Kind, Url, CloudflareDNS, HttpsPorts    \* of Validation

Backup == INSTANCE Backups
Validation == INSTANCE Validation

Keys == DOMAIN (CHOOSE s \in Stored : TRUE)
FormKeys == Keys \ {"panelVersion"}      \* the settings with a control
IdentityKeys == {"vlUUID", "trPass", "securePath", "proxyIpMode", "proxyIPs", "prefixes",
                 "fallback", "dohUrl"}

\* What a restore is about: not the identity, not the lists of objects.
Restored == FormKeys \ (Backup!PROTECTED_KEYS \cup Backup!Nested)

\* A backup file f, with the settings it was taken of.
Sample(f) ==
    /\ \A k \in Restored : k \in DOMAIN f.envelope.settings /\ f.envelope.settings[k] = f.of[k]
    /\ DOMAIN f.envelope.settings \cap Backup!Nested = {}

Documents == [settings |-> FormKeys \ IdentityKeys, identity |-> IdentityKeys]

ASSUME PanelFormAssumption ==
    /\ Validation!ValidationAssumption
    /\ Validation!Validated \cup {"fragmentMode"} \subseteq Keys
    /\ \A s \in Stored : DOMAIN s = Keys /\ Validation!Accepts(s)
    /\ \A f \in Backups : Sample(f)
    /\ None \notin Tabs

VARIABLES
    store,      \* the settings in KV
    cache,      \* the identity an isolate has read, or None
    page,       \* the form of each tab
    request,    \* the save each tab waits for, or None
    landing,    \* writes under way that no tab waits for
    file,       \* the backup at hand, with the settings it was taken of, or None
    advice,     \* what the health centre was last computed of, or None
    left, trouble,
    promise,    \* the form last reported as saved, if nothing else was writing
    goal        \* what the form of a tab is to be after a restore, or None

vars == <<store, cache, page, request, landing, file, advice, left, trouble, promise, goal>>

-----------------------------------------------------------------------------
(***************************************************************************)
(* The form.                                                               *)
(***************************************************************************)
Part(s, keys) == [k \in keys |-> s[k]]
Overlay(s, patch) == [k \in DOMAIN s |-> IF k \in DOMAIN patch THEN patch[k] ELSE s[k]]

FragmentNumbers ==
    [low |-> <<<<100, 200>>, <<1, 1>>>>, medium |-> <<<<50, 100>>, <<1, 5>>>>,
     high |-> <<<<10, 20>>, <<10, 20>>>>, severe |-> <<<<1, 5>>, <<1, 5>>>>]

\* handleFragmentMode: the numbers of the mode chosen, or those the form was loaded with.
Fragmented(form, initial) ==
    LET numbers == IF form.fragmentMode = "custom"
                     THEN <<initial.fragmentLength, initial.fragmentDelay>>
                     ELSE FragmentNumbers[form.fragmentMode]
    IN  [form EXCEPT !.fragmentLength = numbers[1], !.fragmentDelay = numbers[2]]

\* renderPanel.
Rendered(form) ==
    [initial |-> form, form |-> Fragmented(form, form), enabled |-> FALSE]

\* applyPatchToForm: key by key, the fragment mode after its numbers.
Patched(p, patch) ==
    LET filled == Overlay(p.form, patch)
        form   == IF "fragmentMode" \in DOMAIN patch THEN Fragmented(filled, p.initial) ELSE filled
    IN  [p EXCEPT !.form = form, !.enabled = TRUE]

Changed(p) == p.form # p.initial

\* What a tab shows; a restore staged before is not what is there any more.
Show(t, p) ==
    /\ page' = [page EXCEPT ![t] = p]
    /\ goal' = [goal EXCEPT ![t] = None]

Idle(t) == request[t] = None
Act == left > 0 /\ left' = left - 1

-----------------------------------------------------------------------------
(***************************************************************************)
(* What an isolate knows.                                                  *)
(***************************************************************************)
\* Every tab has been opened on the settings stored.
Init ==
    /\ store \in Stored
    /\ cache = [i \in Isolates |-> None]
    /\ page = [t \in Tabs |-> Rendered(Part(store, FormKeys))]
    /\ request = [t \in Tabs |-> None]
    /\ landing = {} /\ file = None /\ advice = None
    /\ left = MaxActs /\ trouble = 0
    /\ promise = None /\ goal = [t \in Tabs |-> None]

Identity(i) == IF cache[i] = None THEN Part(store, IdentityKeys) ELSE cache[i]
Warm(i) == cache' = [cache EXCEPT ![i] = Identity(i)]
Current(i) == Overlay(store, Identity(i))

\* currentSettings: with the defaults of what is left empty.
Effective(s) ==
    [s EXCEPT !.dohUrl = IF @ = NoText THEN DefaultDoH ELSE @,
              !.prefixes = IF @ = {} THEN DefaultPrefixes ELSE @]

Written(s, form, doc) ==
    LET new == Overlay(s, Part(form, Documents[doc])) IN
    IF doc = "settings" THEN [new EXCEPT !.panelVersion = VERSION] ELSE new

\* One document is written by isolate i, which forgets the identity it had read.
Write(i, form, doc) ==
    /\ store' = Written(store, form, doc)
    /\ cache' = IF doc = "identity" THEN [cache EXCEPT ![i] = None] ELSE cache

\* Another writer is at work: no save that is under way can promise what will be stored.
Disturb(t) ==
    [u \in Tabs |-> IF u = t \/ request[u] = None THEN request[u]
                    ELSE [request[u] EXCEPT !.alone = FALSE]]

-----------------------------------------------------------------------------
(***************************************************************************)
(* The operator at a tab.                                                  *)
(***************************************************************************)
Load(t, i) ==
    /\ Act /\ Idle(t)
    /\ Show(t, Rendered(Part(Current(i), FormKeys))) /\ Warm(i)
    /\ UNCHANGED <<store, advice, request, landing, file, trouble, promise>>

\* A new value; one of the two numbers of a fragment only in the custom mode.
Edit(t, key, value) ==
    /\ Act /\ page[t].form[key] # value
    /\ key \in {"fragmentLength", "fragmentDelay"} => page[t].form.fragmentMode = "custom"
    /\ LET form == [page[t].form EXCEPT ![key] = value]
           new  == [page[t] EXCEPT !.form = IF key = "fragmentMode"
                                              THEN Fragmented(form, page[t].initial) ELSE form]
       IN  Show(t, [new EXCEPT !.enabled = Changed(new)])
    /\ UNCHANGED <<store, advice, cache, request, landing, file, trouble, promise>>

\* presetPreview: what a preset would change of what is stored.
Preview(i, id) == Part(Patches[id], Changes(id, Effective(Current(i))))

Stage(t, i, id) ==
    /\ Act /\ Idle(t) /\ DOMAIN Preview(i, id) # {}
    /\ Show(t, Patched(page[t], Preview(i, id))) /\ Warm(i)
    /\ UNCHANGED <<store, advice, request, landing, file, trouble, promise>>

\* chooseSmartRecommendation, for a network found restricted; otherwise it is a preset.
Smart == [id |-> "restricted-network", extraPatch |-> [protocols |-> {"trojan"}, ports |-> {443}]]

StageSmart(t, i) ==
    /\ Act /\ Idle(t)
    /\ Show(t, Patched(page[t], Smart.extraPatch @@ Preview(i, Smart.id))) /\ Warm(i)
    /\ UNCHANGED <<store, advice, request, landing, file, trouble, promise>>

\* importFileSettings; importRemoteSettings does the same, and only if nothing is changed.
Import(t, shared) ==
    /\ Act /\ Idle(t)
    /\ Show(t, [Rendered(Overlay(page[t].form, shared)) EXCEPT !.enabled = TRUE])
    /\ UNCHANGED <<store, advice, cache, request, landing, file, trouble, promise>>

\* updateSettings, accepted: the settings are written, and the identity if it is not the one
\* this isolate knows.  A form that is not accepted changes nothing.
Submit(t, i) ==
    /\ Act /\ Idle(t) /\ page[t].enabled
    /\ LET form == page[t].form
           docs == {"settings"} \cup
                   IF Part(form, IdentityKeys) = Identity(i) THEN {} ELSE {"identity"}
           alone == /\ \A u \in Tabs : request[u] = None
                    /\ landing = {} /\ Identity(i) = Part(store, IdentityKeys)
       IN  /\ Validation!Accepts(form)
           /\ request' = [Disturb(t) EXCEPT ![t] =
                            [home |-> i, form |-> form, pending |-> docs, alone |-> alone]]
    /\ Warm(i) /\ promise' = None
    /\ UNCHANGED <<store, advice, page, landing, file, trouble, goal>>

Land(t, doc) ==
    /\ request[t] # None /\ doc \in request[t].pending
    /\ Write(request[t].home, request[t].form, doc)
    /\ request' = [request EXCEPT ![t].pending = @ \ {doc}]
    /\ UNCHANGED <<advice, page, landing, file, left, trouble, promise, goal>>

\* mutant: the first of the two writes to settle answers the save.
Answer_First(t) ==
    /\ request[t] # None /\ Cardinality(request[t].pending) < 2
    /\ Show(t, Rendered(request[t].form))
    /\ promise' = IF request[t].alone THEN request[t].form ELSE None
    /\ landing' = landing \cup {[home |-> request[t].home, form |-> request[t].form, doc |-> d] :
                                  d \in request[t].pending}
    /\ request' = [request EXCEPT ![t] = None]
    /\ UNCHANGED <<store, advice, cache, file, left, trouble>>

\* Saved: the form that was sent is rendered again, over what was entered meanwhile.
Answer(t) ==
    /\ request[t] # None /\ request[t].pending = {}
    /\ Show(t, Rendered(request[t].form))
    /\ promise' = IF request[t].alone THEN request[t].form ELSE None
    /\ request' = [request EXCEPT ![t] = None]
    /\ UNCHANGED <<store, advice, cache, landing, file, left, trouble>>

\* A write is refused, the isolate dies or the answer is lost: the other writes go on or not.
Fail(t, kept) ==
    /\ trouble < MaxTrouble /\ trouble' = trouble + 1
    /\ request[t] # None /\ kept \subseteq request[t].pending
    /\ landing' = landing \cup {[home |-> request[t].home, form |-> request[t].form, doc |-> d] :
                                  d \in kept}
    /\ request' = [request EXCEPT ![t] = None]
    /\ UNCHANGED <<store, advice, cache, page, file, left, promise, goal>>

LateLand(w) ==
    /\ Write(w.home, w.form, w.doc) /\ landing' = landing \ {w}
    /\ UNCHANGED <<advice, page, request, file, left, trouble, promise, goal>>

-----------------------------------------------------------------------------
(***************************************************************************)
(* The routes that write settings without the form.                        *)
(***************************************************************************)
\* mutant: the result of a preset is not validated.
PresetApply_Unchecked(i, id) ==
    /\ Act
    /\ landing' = landing \cup {[home |-> i, doc |-> "settings",
                                 form |-> Applied(id, Effective(Current(i)))]}
    /\ request' = Disturb(None) /\ promise' = None /\ Warm(i)
    /\ UNCHANGED <<store, advice, page, file, trouble, goal>>

PresetApply(i, id) ==
    /\ Act
    /\ LET next == Applied(id, Effective(Current(i))) IN
       /\ Validation!Accepts(next)
       /\ landing' = landing \cup {[home |-> i, doc |-> "settings", form |-> next]}
    /\ request' = Disturb(None) /\ promise' = None /\ Warm(i)
    /\ UNCHANGED <<store, advice, page, file, trouble, goal>>

\* The two modes, each in its document; the second write may be refused.
ModesRoute(i, proxyIpMode, fragmentMode) ==
    LET named == [proxyIpMode |-> proxyIpMode, fragmentMode |-> fragmentMode]
        Asked(keys) == Part(named, {k \in keys : named[k] # None})
        identity == Overlay(store, Asked({"proxyIpMode"}))
    IN  /\ Act /\ DOMAIN Asked(DOMAIN named) # {}
        /\ Validation!Accepts(Overlay(Effective(Current(i)), Asked(DOMAIN named)))
        /\ \/ /\ store' = IF fragmentMode = None THEN identity
                          ELSE Written(identity, Overlay(store, named), "settings")
              /\ UNCHANGED trouble
           \/ /\ trouble < MaxTrouble /\ trouble' = trouble + 1
              /\ fragmentMode # None /\ store' = identity
        /\ cache' = [cache EXCEPT ![i] = IF proxyIpMode = None THEN Identity(i) ELSE None]
        /\ request' = Disturb(None) /\ promise' = None
        /\ UNCHANGED <<advice, page, landing, file, goal>>

-----------------------------------------------------------------------------
(***************************************************************************)
(* Backups.                                                                *)
(***************************************************************************)
Export(i) ==
    /\ Act
    /\ LET s == Effective(Current(i)) IN
       file' = [envelope |-> Backup!CreateBackup(s, VERSION), of |-> s]
    /\ Warm(i)
    /\ UNCHANGED <<store, advice, page, request, landing, trouble, promise, goal>>

BringFile(f) ==
    /\ Act /\ file # f /\ file' = f
    /\ UNCHANGED <<store, advice, cache, page, request, landing, trouble, promise, goal>>

\* The form shows what isolate i knows, and nothing else.
Fresh(t, i) == page[t] = Rendered(Part(Current(i), FormKeys))

\* backupPlan: None if the file cannot be restored here.
Plan(i) ==
    IF /\ Backup!Readable(file.envelope)
       /\ Backup!CompatibleBackup(file.envelope.version, VERSION)
      THEN Backup!PlanRestore(file.envelope, Effective(Current(i)))
      ELSE None

\* previewRayZenRestore: the plan is applied to the form and not saved.
Restore(t, i) ==
    /\ Act /\ Idle(t) /\ file # None
    /\ Plan(i) # None /\ DOMAIN Plan(i) # {}
    /\ page' = [page EXCEPT ![t] = Patched(page[t], Plan(i))]
    /\ goal' = [goal EXCEPT ![t] =
                  IF Fresh(t, i) THEN Overlay(page[t].form, Part(file.of, Restored)) ELSE None]
    /\ Warm(i)
    /\ UNCHANGED <<store, advice, request, landing, file, trouble, promise>>

-----------------------------------------------------------------------------
\* recommendations and healthCenter: computed of what is read, and written nowhere, so
\* it ends what the operator does, and is done when nothing is under way.
Consult(i, world) ==
    /\ left > 0 /\ left' = 0
    /\ landing = {} /\ \A t \in Tabs : Idle(t)
    /\ advice' = [settings |-> Effective(Current(i)), world |-> world]
    /\ UNCHANGED <<store, cache, page, request, landing, file, trouble, promise, goal>>

-----------------------------------------------------------------------------
Operator ==
    \/ \E t \in Tabs, i \in Isolates : Load(t, i) \/ StageSmart(t, i) \/ Submit(t, i) \/ Restore(t, i)
    \/ \E t \in Tabs, e \in Edits : Edit(t, e[1], e[2])
    \/ \E t \in Tabs, i \in Isolates, id \in Tried : Stage(t, i, id)
    \/ \E t \in Tabs, shared \in Shared : Import(t, shared)
    \/ \E i \in Isolates, id \in Tried : PresetApply(i, id)
    \/ \E i \in Isolates, m \in Modes : ModesRoute(i, m[1], m[2])
    \/ \E i \in Isolates : Export(i)
    \/ \E i \in Isolates, world \in Worlds : Consult(i, world)
    \/ \E f \in Backups : BringFile(f)

Server ==
    \/ \E t \in Tabs, doc \in DOMAIN Documents : Land(t, doc)
    \/ \E t \in Tabs : Answer(t)
    \/ \E t \in Tabs, kept \in SUBSET DOMAIN Documents : Fail(t, kept)
    \/ \E w \in landing : LateLand(w)

Next == Operator \/ Server
Spec == Init /\ [][Next]_vars

-----------------------------------------------------------------------------
(***************************************************************************)
(* Properties.                                                             *)
(***************************************************************************)
TypeOK ==
    /\ DOMAIN store = Keys
    /\ \A i \in Isolates : cache[i] = None \/ DOMAIN cache[i] = IdentityKeys
    /\ \A t \in Tabs :
         /\ DOMAIN page[t].form = FormKeys
         /\ request[t] # None => request[t].pending \subseteq DOMAIN Documents
    /\ left \in 0..MaxActs /\ trouble \in 0..MaxTrouble

\* A save reported as successful while nothing else was writing, by an isolate that knew
\* the identity as stored, is what KV holds in both documents: no part of it was skipped,
\* is still under way, or is overwritten by what an earlier save left behind
\* (handlers/panel.ts updatePanelSettings, settings/main.ts updateMainSettings).
SavedIsStored == promise # None => Part(store, FormKeys) = promise

\* However saves, presets, modes and imports follow and overlap, and whichever of their
\* writes fail, the two documents together are settings the validators accept.
StoredIsValid == Validation!Accepts(store)

\* A restore staged in a form that was up to date makes it the settings the backup was
\* taken of, but for this deployment's identity and the noises, which stay
\* (platform.ts backupPlan: "Returns the exact effect of a restore").
RestoreIsExact ==
    \A t \in Tabs : goal[t] # None =>
        \A k \in FormKeys : Effective(page[t].form)[k] = Effective(goal[t])[k]

\* What a restore staged in a form that was up to date may get wrong is the fragment
\* numbers alone, and only if the backup brings another mode than the one stored or the
\* numbers that are stored: the handler of the mode then writes over them
\* (script.js handleFragmentMode, applyPatchToForm; platform.ts backupPlan).
RestoreLosesOnlyNumbers ==
    \A t \in Tabs : goal[t] # None =>
        LET want == Effective(goal[t])
            had  == page[t].initial
            Rewritten(k) == /\ k \in {"fragmentLength", "fragmentDelay"}
                            /\ want.fragmentMode # had.fragmentMode \/ want[k] = had[k]
        IN  \A k \in FormKeys :
              Effective(page[t].form)[k] = want[k] \/ Rewritten(k)

\* A preset that can be applied never adds a finding to the report and never lowers the
\* score of the health centre (features/presets/service.ts CORE_PRESETS against
\* features/diagnostics/service.ts and features/health/service.ts).
PresetsDoNoHarm ==
    advice # None =>
        LET Report(s) == Findings(s, advice.world, VERSION)
            Centre(s) == HealthScore(Scored(s, advice.world, VERSION))
        IN  \A id \in Presets :
              LET next == Applied(id, advice.settings) IN
              Validation!Accepts(next) =>
                /\ Actionable(Report(next)) \subseteq Actionable(Report(advice.settings))
                /\ Centre(next) >= Centre(advice.settings)

\* The advice and the health centre hide nothing: what fails makes the deployment critical
\* and its remedy the first advice; every finding to act upon is advised on; a preset left
\* out would have changed only what single advice ranked above it names already; and the
\* first of the next actions is about a section as bad as the overall status.
AdviceIsHonest ==
    advice # None =>
        LET s        == advice.settings
            findings == Findings(s, advice.world, VERSION)
            failing  == {c \in Checks : findings[c] = "fail"}
            list     == Recommendations(s, advice.world, VERSION)
            listed   == {list[i] : i \in DOMAIN list}
            sections == Sections(s, advice.world, VERSION)
            overall  == Worst(sections)
        IN  /\ failing # {} => overall = "critical"
            /\ (\E c \in failing : Weight[c] = Critical) =>
                 list[1].id \in failing /\ Weight[list[1].id] = Critical
            /\ Actionable(findings) \subseteq {r.id : r \in listed}
            /\ \A r \in FromPresets(s) \ listed : \A k \in r.fields :
                 \E a \in listed : ~a.bundle /\ Above(a, r) /\ k \in a.fields
            /\ overall # "good" => sections[NextActions(sections)[1]].status = overall
=============================================================================
