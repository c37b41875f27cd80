--------------------------- MODULE SettingsStore ---------------------------
(***************************************************************************)
(* The panel settings (settings/kv.ts, settings.ts): one document under    *)
(* the KV key proxySettings, a copy of it in the memory of each isolate,   *)
(* and the requests that load, edit, migrate and reset it.                 *)
(*                                                                         *)
(* The module variable `kvSettings` starts as the shipped defaults and is  *)
(* replaced by every request of the isolate that runs setSettings; it is   *)
(* what getDataset writes for a missing document or one of another build,  *)
(* and what a reset writes.  Isolates of two builds may serve at once, as  *)
(* they do while a deployment is rolled out or back.                       *)
(*                                                                         *)
(* A document is a resolver (remoteDNS), the host derived from it, named   *)
(* after the resolver it was derived from, the clean-IP list as a set, and *)
(* the build that stamped it.                                              *)
(***************************************************************************)
EXTENDS Naturals, FiniteSets

CONSTANTS
    Isolates,     \* the isolates that serve the deployment
    Builds,       \* the builds that have run on it
    Build,        \* the build each isolate runs: VERSION
    Requests,     \* slots for requests in flight
    Kinds,        \* the kinds of request that occur
    Resolvers,    \* the values of remoteDNS
    Shipped,      \* its default
    PresetDNS,    \* the one a preset sets
    Entries,      \* the entries of clean-IP lists
    MaxCleanIPs,  \* MAX_CLEAN_IPS, of the panel's list
    MaxEntries,   \* MAX_ENTRIES, of the bot's commands
    Starts,       \* what KV may hold at first
    Faults,       \* BOOLEAN: KV and the resolver may fail, isolates may be evicted
    None

VARIABLES
    store,     \* the KV key proxySettings
    memory,    \* settings.ts: kvSettings of each isolate
    pc,        \* where each request is
    kind,      \* what it asks for: "load" until it does more than to read
    home,      \* the isolate that runs it
    base,      \* the kvSettings it captured on entering getDataset or updateDataset
    doc,       \* the document it read, or will put
    edit,      \* the settings it submits, None for the ones it leaves out
    change,    \* history: the change its operator asked for
    seen,      \* history: the stored document when it began, until another request puts
    crossed    \* history: a preset built on one resolver met another in KV

requestVars == <<pc, kind, home, base, doc, edit>>
historyVars == <<change, seen, crossed>>
vars == <<store, memory, requestVars, historyVars>>

Settings  == [dns : Resolvers, host : Resolvers, list : SUBSET Entries, version : Builds]
Edits     == [dns : Resolvers \cup {None}, host : Resolvers \cup {None},
              list : {None} \cup SUBSET Entries]
Changes   == {"add", "remove", "set"} \X Entries
AllKinds  == {"load", "form", "patch", "preset", "command", "reset"}

ASSUME SettingsAssumption ==
    /\ Build \in [Isolates -> Builds]
    /\ Kinds \subseteq AllKinds
    /\ Shipped \in Resolvers /\ PresetDNS \in Resolvers
    /\ MaxCleanIPs \in Nat /\ MaxEntries \in Nat
    /\ Faults \in BOOLEAN
    /\ Starts \subseteq Settings \cup {None}
    /\ \A d \in Starts : d # None => d.host = d.dns
    /\ None \notin Resolvers /\ \A list \in SUBSET Entries : list # None
    /\ None \notin Settings /\ None \notin Edits /\ None \notin Isolates
    /\ None \notin AllKinds /\ None \notin Changes

Running(r) == pc[r] # "idle"

\* The document compiled into a build.
Defaults(b) == [dns |-> Shipped, host |-> Shipped, list |-> {}, version |-> b]

Init ==
    /\ store \in Starts
    /\ memory = [i \in Isolates |-> Defaults(Build[i])]
    /\ pc = [r \in Requests |-> "idle"]
    /\ kind = [r \in Requests |-> None]
    /\ home = [r \in Requests |-> None]
    /\ base = [r \in Requests |-> None]
    /\ doc = [r \in Requests |-> None]
    /\ edit = [r \in Requests |-> None]
    /\ change = [r \in Requests |-> None]
    /\ seen = [r \in Requests |-> None]
    /\ crossed = FALSE

\* What a request captures of the memory when it enters getDataset or updateDataset; None
\* once it has made its last use of it.
Capture(r, settings) == base' = [base EXCEPT ![r] = settings]

\* A request moves on, or the ones that end drop everything they hold.
GoTo(r, step) ==
    /\ pc' = [pc EXCEPT ![r] = step]
    /\ UNCHANGED home

End(ending) ==
    LET Without(local) == [r \in Requests |-> IF r \in ending THEN None ELSE local[r]] IN
    /\ pc' = [r \in Requests |-> IF r \in ending THEN "idle" ELSE pc[r]]
    /\ kind' = Without(kind) /\ home' = Without(home) /\ base' = Without(base)
    /\ doc' = Without(doc) /\ edit' = Without(edit) /\ change' = Without(change)

-----------------------------------------------------------------------------
(***************************************************************************)
(* updateDatasetDetailed: what is submitted, else what is stored, else     *)
(* what is in memory.  The host is derived again when the resolver is not  *)
(* the stored one, and is an ordinary setting otherwise.                   *)
(***************************************************************************)
Else(a, b) == IF a # None THEN a ELSE b

\* Faulty variant: the resolver is compared with the one in memory.
Merge_StaleHost(submitted, current, captured, version) ==
    LET stored == IF current = None THEN captured ELSE current
        dns    == Else(submitted.dns, stored.dns)
    IN  [dns     |-> dns,
         host    |-> IF dns # captured.dns THEN dns ELSE Else(submitted.host, stored.host),
         list    |-> Else(submitted.list, stored.list),
         version |-> version]

\* Faulty variant: the stamp is a setting like the others.
Merge_KeepsStamp(submitted, current, captured, version) ==
    LET stored == IF current = None THEN captured ELSE current
        dns    == Else(submitted.dns, stored.dns)
    IN  [dns     |-> dns,
         host    |-> IF current = None \/ dns # current.dns THEN dns
                     ELSE Else(submitted.host, stored.host),
         list    |-> Else(submitted.list, stored.list),
         version |-> stored.version]

Merge(submitted, current, captured, version) ==
    LET stored == IF current = None THEN captured ELSE current
        dns    == Else(submitted.dns, stored.dns)
    IN  [dns     |-> dns,
         host    |-> IF current = None \/ dns # current.dns THEN dns
                     ELSE Else(submitted.host, stored.host),
         list    |-> Else(submitted.list, stored.list),
         version |-> version]

-----------------------------------------------------------------------------
(***************************************************************************)
(* A request that has been authenticated, if it must be, begins by         *)
(* capturing the settings in memory.  What a request that loads is for is  *)
(* told once it has loaded.  A form holds every setting but the host; a    *)
(* reset puts what it captured.                                            *)
(***************************************************************************)
Begin(r, i, k, step, d, e, c) ==
    /\ pc[r] = "idle"
    /\ k \in Kinds
    /\ pc' = [pc EXCEPT ![r] = step]
    /\ kind' = [kind EXCEPT ![r] = k]
    /\ home' = [home EXCEPT ![r] = i]
    /\ base' = [base EXCEPT ![r] = memory[i]]
    /\ doc' = [doc EXCEPT ![r] = d]
    /\ edit' = [edit EXCEPT ![r] = e]
    /\ change' = [change EXCEPT ![r] = c]
    /\ seen' = [seen EXCEPT ![r] = store]
    /\ UNCHANGED <<store, memory, crossed>>

BeginLoad(r, i) == Begin(r, i, "load", "read", None, None, None)

\* A request that replaces the clean-IP list needs no load to tell the new one.
BeginList(r, i) ==
    \E e \in Entries :
        Begin(r, i, "patch", "read", None, [dns |-> None, host |-> None, list |-> {e}], <<"set", e>>)

BeginForm(r, i) ==
    \E dns \in Resolvers, list \in SUBSET Entries :
        Begin(r, i, "form", "readCurrent", None, [dns |-> dns, host |-> None, list |-> list], None)

BeginReset(r, i) == Begin(r, i, "reset", "put", memory[i], None, None)

-----------------------------------------------------------------------------
(***************************************************************************)
(* getDataset.                                                             *)
(***************************************************************************)

\* A missing document is the captured settings, a document of another build is
\* replaced by those in memory once the WARP accounts have been read.
ReadSettings(r) ==
    /\ pc[r] = "read"
    /\ doc' = [doc EXCEPT ![r] = Else(store, base[r])]
    /\ GoTo(r, IF store = None THEN "putDefaults"
               ELSE IF store.version # Build[home[r]] THEN "migrate" ELSE "loaded")
    /\ Capture(r, None)
    /\ UNCHANGED <<store, memory, kind, edit, change, seen, crossed>>

\* updateDataset without settings.
Migrate(r) ==
    /\ pc[r] = "migrate"
    /\ doc' = [doc EXCEPT ![r] = memory[home[r]]]
    /\ GoTo(r, "putDefaults")
    /\ UNCHANGED <<store, memory, kind, base, edit, change, seen, crossed>>

PutDefaults(r) ==
    /\ pc[r] = "putDefaults"
    /\ store' = doc[r]
    /\ seen' = [q \in Requests |-> IF q = r THEN seen[q] ELSE None]
    /\ GoTo(r, "loaded")
    /\ UNCHANGED <<memory, kind, base, doc, edit, change, crossed>>

-----------------------------------------------------------------------------
(***************************************************************************)
(* What a request does with what it loaded.                                *)
(***************************************************************************)
\* The request ends without a put.
Answer(r) ==
    /\ End({r})
    /\ seen' = [seen EXCEPT ![r] = None]
    /\ UNCHANGED <<store, crossed>>

\* The request, of kind k, goes on to submit e.
Submit(r, k, e, step) ==
    /\ k \in Kinds
    /\ kind' = [kind EXCEPT ![r] = k]
    /\ edit' = [edit EXCEPT ![r] = e]
    /\ doc' = [doc EXCEPT ![r] = None]
    /\ GoTo(r, step)
    /\ UNCHANGED <<store, seen, crossed>>

\* getPanelSettings hands the document to the operator and applies nothing.
View(r) ==
    /\ pc[r] = "loaded" /\ kind[r] = "load"
    /\ Answer(r)
    /\ UNCHANGED memory

\* applySettingsDataset.
Apply(r, k) ==
    /\ pc[r] = "loaded" /\ kind[r] = k
    /\ memory' = [memory EXCEPT ![home[r]] = doc[r]]

\* A subscription is served from memory.
Serve(r) == Apply(r, "load") /\ Answer(r)

\* A bot command awaits its message before it looks at memory.
AwaitCommand(r) ==
    /\ Apply(r, "load")
    /\ UNCHANGED <<base, change>>
    /\ Submit(r, "command", None, "command")

\* presetApply submits everything it loaded with the preset laid over it.
ApplyPreset(r) ==
    /\ Apply(r, "load")
    /\ Capture(r, doc[r])
    /\ UNCHANGED change
    /\ Submit(r, "preset", [dns |-> PresetDNS, host |-> doc[r].host, list |-> doc[r].list],
              "readCurrent")

\* The change an operator asks of a list.
Changed(list, c) ==
    CASE c[1] = "add"    -> list \cup {c[2]}
      [] c[1] = "remove" -> list \ {c[2]}
      [] c[1] = "set"    -> {c[2]}

\* Faulty variant: the settings in memory are submitted with the list.
PatchList_Whole(r) ==
    \E c \in {"add", "remove"} \X Entries :
        LET mem  == memory[home[r]]
            list == Changed(doc[r].list, c)
        IN  /\ Apply(r, "load")
            /\ IF Cardinality(list) > MaxCleanIPs
                 THEN Answer(r)
                 ELSE /\ change' = [change EXCEPT ![r] = c]
                      /\ Capture(r, doc[r])
                      /\ Submit(r, "patch", [dns |-> mem.dns, host |-> None, list |-> list], "read")

\* scannerApply and cleanIpsRoute compute the list from one load; storeCleanIPs loads
\* again, to validate, and submits the list alone.
PatchList(r) ==
    \E c \in {"add", "remove"} \X Entries :
        LET list == Changed(doc[r].list, c) IN
        /\ Apply(r, "load")
        /\ IF Cardinality(list) > MaxCleanIPs
             THEN Answer(r)
             ELSE /\ change' = [change EXCEPT ![r] = c]
                  /\ Capture(r, doc[r])
                  /\ Submit(r, "patch", [dns |-> None, host |-> None, list |-> list], "read")

StoreList(r) ==
    /\ Apply(r, "patch")
    /\ Capture(r, doc[r])
    /\ UNCHANGED change
    /\ Submit(r, "patch", edit[r], "readCurrent")

\* addEntries and removeEntries: a command that changes nothing writes nothing; one that
\* does submits everything in memory.
Command(r) ==
    \E c \in {"add", "remove"} \X Entries :
        LET mem  == memory[home[r]]
            list == Changed(mem.list, c)
        IN  /\ pc[r] = "command"
            /\ IF list = mem.list \/ (c[1] = "add" /\ Cardinality(mem.list) >= MaxEntries)
                 THEN Answer(r)
                 ELSE /\ Capture(r, mem)
                      /\ UNCHANGED change
                      /\ Submit(r, "command", [dns |-> mem.dns, host |-> mem.host, list |-> list],
                                "readCurrent")
            /\ UNCHANGED memory

-----------------------------------------------------------------------------
(***************************************************************************)
(* updateDatasetDetailed with settings.                                    *)
(***************************************************************************)
ReadCurrent(r) ==
    /\ pc[r] = "readCurrent"
    /\ doc' = [doc EXCEPT ![r] = Merge(edit[r], store, base[r], Build[home[r]])]
    /\ crossed' = \/ crossed
                  \/ /\ kind[r] = "preset" /\ store # None
                     /\ store.dns # base[r].dns
    /\ Capture(r, None)
    /\ GoTo(r, "put")
    /\ UNCHANGED <<store, memory, kind, edit, change, seen>>

PutSettings(r) ==
    /\ pc[r] = "put"
    /\ store' = doc[r]
    /\ End({r})
    /\ seen' = [q \in Requests |-> None]
    /\ UNCHANGED <<memory, crossed>>

-----------------------------------------------------------------------------
(***************************************************************************)
(* The environment: KV or the resolver refuses the call a request awaits,  *)
(* or an isolate goes away with its memory and the requests it runs.       *)
(***************************************************************************)
CallFails(r) ==
    /\ Faults
    /\ Running(r)
    /\ Answer(r)
    /\ UNCHANGED memory

Evict(i) ==
    LET dying == {r \in Requests : home[r] = i} IN
    /\ Faults
    /\ memory[i] # Defaults(Build[i]) \/ dying # {}
    /\ memory' = [memory EXCEPT ![i] = Defaults(Build[i])]
    /\ End(dying)
    /\ seen' = [r \in Requests |-> IF r \in dying THEN None ELSE seen[r]]
    /\ UNCHANGED <<store, crossed>>

Step(r) ==
    \/ ReadSettings(r) \/ Migrate(r) \/ PutDefaults(r)
    \/ View(r) \/ Serve(r) \/ AwaitCommand(r) \/ ApplyPreset(r)
    \/ PatchList(r) \/ StoreList(r) \/ Command(r)
    \/ ReadCurrent(r) \/ PutSettings(r)

Next ==
    \/ \E r \in Requests, i \in Isolates :
         BeginLoad(r, i) \/ BeginList(r, i) \/ BeginForm(r, i) \/ BeginReset(r, i)
    \/ \E r \in Requests : Step(r) \/ CallFails(r)
    \/ \E i \in Isolates : Evict(i)

Spec == Init /\ [][Next]_vars

-----------------------------------------------------------------------------
TypeOK ==
    /\ store \in Settings \cup {None}
    /\ memory \in [Isolates -> Settings]
    /\ pc \in [Requests -> {"idle", "read", "migrate", "putDefaults", "loaded", "command",
                            "readCurrent", "put"}]
    /\ kind \in [Requests -> AllKinds \cup {None}]
    /\ home \in [Requests -> Isolates \cup {None}]
    /\ base \in [Requests -> Settings \cup {None}]
    /\ doc \in [Requests -> Settings \cup {None}]
    /\ edit \in [Requests -> Edits \cup {None}]
    /\ change \in [Requests -> Changes \cup {None}]
    /\ seen \in [Requests -> Settings \cup {None}]
    /\ crossed \in BOOLEAN

\* No isolate builds subscriptions from the settings of another build, whatever builds
\* serve at once, fail and are rolled back: what it holds and what it is about to apply
\* carry its own stamp.
ServedMatchesBuild ==
    /\ \A i \in Isolates : memory[i].version = Build[i]
    /\ \A r \in Requests : pc[r] = "loaded" => doc[r].version = Build[home[r]]

\* The host the configurations name is the one derived from the resolver shown in the
\* panel, in KV and in every isolate, although a stored host is carried from form to
\* form as a setting of its own: unless a preset crossed a change of the resolver.
HostMatches ==
    ~crossed =>
        /\ store # None => store.host = store.dns
        /\ \A i \in Isolates : memory[i].host = memory[i].dns

\* The deployment runs one build, the stored document is its own, and no request
\* decided otherwise.
Steady ==
    /\ store # None
    /\ \A i \in Isolates : Build[i] = store.version
    /\ \A r \in Requests : pc[r] \notin {"migrate", "putDefaults"}

\* Once a deployment is steady it stays so, and no request that only reads ever writes
\* the settings again: an operator's save that read the document of an older build does
\* not bring its stamp back.
SteadyReadsOnly ==
    [][Steady => Steady' /\ (store' # store => \E r \in Requests : PutSettings(r))]_vars

\* The document a request asks for, given the one stored when it began.
Asked(r) ==
    LET before == seen[r]
        rehost(dns) == IF dns = before.dns THEN before.host ELSE dns
    IN  CASE kind[r] = "patch"  -> [before EXCEPT !.list = Changed(@, change[r])]
          [] kind[r] = "preset" -> [before EXCEPT !.dns = PresetDNS, !.host = rehost(PresetDNS)]
          [] kind[r] = "form"   -> [before EXCEPT !.dns = edit[r].dns, !.host = rehost(edit[r].dns),
                                                  !.list = edit[r].list]

\* A panel edit that no other put overlapped changes what it asked for and nothing else,
\* whatever the isolates hold in memory and whatever other requests load meanwhile.
\* (A bot command promises less: it submits what is in memory when it runs.)
UncontestedEditIsExact ==
    [][\A r \in Requests : PutSettings(r) /\ kind[r] \in {"patch", "preset", "form"}
            /\ seen[r] # None /\ (seen[r].version = Build[home[r]] \/ kind[r] = "form")
          => store' = [Asked(r) EXCEPT !.version = Build[home[r]]]]_vars

\* DEPLOYMENT.md:95, 366: settings survive a redeploy or a rollback, and are migrated
\* when they are read.
MigrationKeepsSettings ==
    [][\A r \in Requests : PutDefaults(r) /\ store # None =>
           [store' EXCEPT !.version = store.version] = store]_vars

=============================================================================
