------------------------ MODULE SettingsStoreProofs -------------------------
(***************************************************************************)
(* SettingsStore for any number of isolates, builds and overlapping        *)
(* requests: the stamp, the host, the writes of a steady deployment and    *)
(* the edits nothing overlapped.                                           *)
(***************************************************************************)
EXTENDS SettingsStore, TLAPS

-----------------------------------------------------------------------------
(***************************************************************************)
(* The merge.                                                              *)
(***************************************************************************)
LEMMA MergeFacts ==
    ASSUME NEW submitted \in Edits, NEW current \in Settings \cup {None},
           NEW captured \in Settings, NEW version \in Builds
    PROVE  /\ Merge(submitted, current, captured, version) \in Settings
           /\ Merge(submitted, current, captured, version).version = version
BY SettingsAssumption DEF Merge, Else, Edits, Settings

\* The merge derives the host from the resolver it leaves, if the hosts it is given were,
\* or the submitted one was derived from the resolver that is stored.
LEMMA MergeMatches ==
    ASSUME NEW submitted \in Edits, NEW current \in Settings \cup {None},
           NEW captured \in Settings, NEW version \in Builds,
           current # None => current.host = current.dns,
           \/ submitted.host = None
           \/ submitted.host = submitted.dns
           \/ current = None
           \/ submitted.host = current.dns
    PROVE  Merge(submitted, current, captured, version).host =
           Merge(submitted, current, captured, version).dns
BY SettingsAssumption DEF Merge, Else, Edits, Settings

-----------------------------------------------------------------------------
(***************************************************************************)
(* What a request holds at each step.                                      *)
(***************************************************************************)
Holds(r) ==
    /\ Running(r) => home[r] \in Isolates
    /\ pc[r] \in {"read", "readCurrent"} => base[r] # None
    /\ pc[r] \in {"putDefaults", "loaded", "put"} => doc[r] # None
    /\ pc[r] = "readCurrent" => edit[r] # None
    /\ kind[r] = "patch" => edit[r] # None /\ change[r] # None
    /\ kind[r] = "preset" => pc[r] \in {"readCurrent", "put"}

Typed == TypeOK /\ \A r \in Requests : Holds(r)

\* PatchList and Command for a change that is given.
PatchOf(r, c) ==
    /\ Apply(r, "load")
    /\ IF Cardinality(Changed(doc[r].list, c)) > MaxCleanIPs
         THEN Answer(r)
         ELSE /\ change' = [change EXCEPT ![r] = c]
              /\ Capture(r, doc[r])
              /\ Submit(r, "patch", [dns |-> None, host |-> None, list |-> Changed(doc[r].list, c)],
                        "read")

CommandOf(r, c) ==
    /\ pc[r] = "command"
    /\ \/ Answer(r)
       \/ /\ Capture(r, memory[home[r]])
          /\ UNCHANGED change
          /\ Submit(r, "command", [dns  |-> memory[home[r]].dns, host |-> memory[home[r]].host,
                                   list |-> Changed(memory[home[r]].list, c)], "readCurrent")
    /\ UNCHANGED memory

\* A changed list is a list.
LEMMA ChangedFacts ==
    ASSUME NEW list \in SUBSET Entries, NEW c \in Changes
    PROVE  Changed(list, c) \in SUBSET Entries
BY DEF Changed, Changes

\* The defaults of a build are settings, with its stamp and a host of its resolver.
LEMMA DefaultsFacts ==
    ASSUME NEW b \in Builds
    PROVE  /\ Defaults(b) \in Settings
           /\ Defaults(b).host = Defaults(b).dns
           /\ Defaults(b).version = b
BY SettingsAssumption DEF Defaults, Settings

\* What an edit is merged to is settings with the stamp of the build.
LEMMA MergedFacts ==
    ASSUME Typed, NEW r \in Requests, ReadCurrent(r)
    PROVE  /\ edit[r] \in Edits /\ base[r] \in Settings /\ Build[home[r]] \in Builds
           /\ Merge(edit[r], store, base[r], Build[home[r]]) \in Settings
           /\ Merge(edit[r], store, base[r], Build[home[r]]).version = Build[home[r]]
<1>1. edit[r] \in Edits /\ base[r] \in Settings /\ Build[home[r]] \in Builds
  BY SettingsAssumption DEF ReadCurrent, Typed, TypeOK, Holds, Running
<1>2. store \in Settings \cup {None}
  BY DEF Typed, TypeOK
<1> QED BY <1>1, <1>2, MergeFacts

\* At first nobody holds anything.
LEMMA TypedInit == Init => Typed
<1> SUFFICES ASSUME Init
             PROVE  Typed
  OBVIOUS
<1>1. store \in Settings \cup {None}
  BY SettingsAssumption DEF Init
<1>2. memory \in [Isolates -> Settings]
  BY SettingsAssumption, DefaultsFacts DEF Init
<1>3. TypeOK
  BY <1>1, <1>2 DEF Init, TypeOK
<1>4. ASSUME NEW r \in Requests
      PROVE  Holds(r)
  BY SettingsAssumption DEF Init, Holds, Running, AllKinds
<1> QED BY <1>3, <1>4 DEF Typed

\* A request that ends leaves nothing, and the others as they were.
LEMMA EndTyped ==
    ASSUME Typed, NEW ending \in SUBSET Requests, End(ending),
           store' \in Settings \cup {None}, memory' \in [Isolates -> Settings],
           seen' \in [Requests -> Settings \cup {None}], crossed' \in BOOLEAN
    PROVE  Typed'
<1> USE DEF Typed, TypeOK, End
<1>1. pc' \in [Requests -> {"idle", "read", "migrate", "putDefaults", "loaded", "command",
                            "readCurrent", "put"}]
  OBVIOUS
<1>2. kind' \in [Requests -> AllKinds \cup {None}]
  OBVIOUS
<1>3. home' \in [Requests -> Isolates \cup {None}]
  OBVIOUS
<1>4. base' \in [Requests -> Settings \cup {None}] /\ doc' \in [Requests -> Settings \cup {None}]
  OBVIOUS
<1>5. edit' \in [Requests -> Edits \cup {None}] /\ change' \in [Requests -> Changes \cup {None}]
  OBVIOUS
<1>6. ASSUME NEW q \in Requests
      PROVE  Holds(q)'
  <2>1. CASE q \in ending
    <3>1. pc'[q] = "idle" /\ kind'[q] = None
      BY <2>1
    <3> QED BY <3>1, SettingsAssumption DEF Holds, Running, AllKinds
  <2>2. CASE q \notin ending
    <3>1. /\ pc'[q] = pc[q] /\ kind'[q] = kind[q] /\ home'[q] = home[q] /\ base'[q] = base[q]
          /\ doc'[q] = doc[q] /\ edit'[q] = edit[q]
      BY <2>2
    <3> QED BY <3>1 DEF Holds, Running
  <2> QED BY <2>1, <2>2
<1> QED BY <1>1, <1>2, <1>3, <1>4, <1>5, <1>6

\* No step leaves the types (settings/kv.ts).
THEOREM TypedStep == Typed /\ [Next]_vars => Typed'
<1> SUFFICES ASSUME Typed, [Next]_vars
             PROVE  Typed'
  OBVIOUS
<1> USE SettingsAssumption DEF Typed, TypeOK, Holds, Running
<1>1. ASSUME NEW r \in Requests, NEW i \in Isolates, BeginLoad(r, i)
      PROVE  Typed'
  BY <1>1 DEF BeginLoad, Begin
<1>2. ASSUME NEW r \in Requests, NEW i \in Isolates, BeginList(r, i)
      PROVE  Typed'
  BY <1>2 DEF BeginList, Begin, Edits, Changes
<1>3. ASSUME NEW r \in Requests, NEW i \in Isolates, BeginForm(r, i)
      PROVE  Typed'
  BY <1>3 DEF BeginForm, Begin, Edits
<1>4. ASSUME NEW r \in Requests, NEW i \in Isolates, BeginReset(r, i)
      PROVE  Typed'
  BY <1>4 DEF BeginReset, Begin
<1>5. ASSUME NEW r \in Requests, ReadSettings(r)
      PROVE  Typed'
  BY <1>5 DEF ReadSettings, GoTo, Capture, Else
<1>6. ASSUME NEW r \in Requests, Migrate(r)
      PROVE  Typed'
  BY <1>6 DEF Migrate, GoTo
<1>7. ASSUME NEW r \in Requests, PutDefaults(r)
      PROVE  Typed'
  BY <1>7 DEF PutDefaults, GoTo
<1>8. ASSUME NEW r \in Requests, View(r)
      PROVE  Typed'
  BY <1>8, EndTyped DEF View, Answer
<1>9. ASSUME NEW r \in Requests, Serve(r)
      PROVE  Typed'
  BY <1>9, EndTyped DEF Serve, Apply, Answer
<1>10. ASSUME NEW r \in Requests, AwaitCommand(r)
       PROVE  Typed'
  BY <1>10 DEF AwaitCommand, Apply, Submit, GoTo
<1>11. ASSUME NEW r \in Requests, ApplyPreset(r)
       PROVE  Typed'
  BY <1>11 DEF ApplyPreset, Apply, Submit, GoTo, Capture, Edits, Settings
<1>12. ASSUME NEW r \in Requests, PatchList(r)
       PROVE  Typed'
  <2>1. PICK c \in {"add", "remove"} \X Entries : PatchOf(r, c)
    BY <1>12 DEF PatchList, PatchOf
  <2>2. CASE Cardinality(Changed(doc[r].list, c)) > MaxCleanIPs
    BY <2>1, <2>2, EndTyped DEF PatchOf, Apply, Answer
  <2>3. CASE ~(Cardinality(Changed(doc[r].list, c)) > MaxCleanIPs)
    <3>1. Changed(doc[r].list, c) \in SUBSET Entries
      BY <2>1, ChangedFacts DEF PatchOf, Apply, Settings, Changes
    <3>2. [dns |-> None, host |-> None, list |-> Changed(doc[r].list, c)] \in Edits
      BY <3>1 DEF Edits
    <3>3. c \in Changes
      BY DEF Changes
    <3> QED BY <2>1, <2>3, <3>2, <3>3 DEF PatchOf, Apply, Submit, GoTo, Capture
  <2> QED BY <2>2, <2>3
<1>13. ASSUME NEW r \in Requests, StoreList(r)
       PROVE  Typed'
  BY <1>13 DEF StoreList, Apply, Submit, GoTo, Capture
<1>14. ASSUME NEW r \in Requests, Command(r)
       PROVE  Typed'
  <2>1. PICK c \in {"add", "remove"} \X Entries : CommandOf(r, c)
    BY <1>14 DEF Command, CommandOf
  <2>2. home[r] \in Isolates /\ memory[home[r]] \in Settings
    BY <2>1 DEF CommandOf
  <2>3. CASE pc'[r] = "idle"
    BY <2>1, <2>3, EndTyped DEF CommandOf, Answer, Submit, GoTo
  <2>4. CASE pc'[r] # "idle"
    <3>1. Changed(memory[home[r]].list, c) \in SUBSET Entries
      BY <2>2, ChangedFacts DEF Settings, Changes
    <3>2. [dns |-> memory[home[r]].dns, host |-> memory[home[r]].host,
           list |-> Changed(memory[home[r]].list, c)] \in Edits
      BY <2>2, <3>1 DEF Edits, Settings
    <3> QED BY <2>1, <2>2, <2>4, <3>2 DEF CommandOf, Submit, GoTo, Capture, Answer, End
  <2> QED BY <2>3, <2>4
<1>15. ASSUME NEW r \in Requests, ReadCurrent(r)
       PROVE  Typed'
  <2>1. Merge(edit[r], store, base[r], Build[home[r]]) \in Settings
    BY <1>15, MergedFacts
  <2>2. crossed' \in BOOLEAN
    BY <1>15, Zenon DEF ReadCurrent
  <2> QED BY <1>15, <2>1, <2>2 DEF ReadCurrent, GoTo, Capture
<1>16. ASSUME NEW r \in Requests, PutSettings(r)
       PROVE  Typed'
  BY <1>16, EndTyped DEF PutSettings
<1>17. ASSUME NEW r \in Requests, CallFails(r)
       PROVE  Typed'
  BY <1>17, EndTyped DEF CallFails, Answer
<1>18. ASSUME NEW i \in Isolates, Evict(i)
       PROVE  Typed'
  <2>1. {r \in Requests : home[r] = i} \in SUBSET Requests
    OBVIOUS
  <2>2. memory' \in [Isolates -> Settings]
    BY <1>18, DefaultsFacts DEF Evict
  <2> QED BY <1>18, <2>1, <2>2, EndTyped DEF Evict
<1>19. CASE UNCHANGED vars
  BY <1>19 DEF vars, requestVars, historyVars
<1> QED
  BY <1>1, <1>2, <1>3, <1>4, <1>5, <1>6, <1>7, <1>8, <1>9, <1>10, <1>11, <1>12, <1>13,
     <1>14, <1>15, <1>16, <1>17, <1>18, <1>19 DEF Next, Step

-----------------------------------------------------------------------------
(***************************************************************************)
(* The stamp.                                                              *)
(***************************************************************************)
Stamped(r) ==
    /\ base[r] # None => base[r].version = Build[home[r]]
    /\ doc[r] # None /\ pc[r] # "migrate" => doc[r].version = Build[home[r]]

AllStamped ==
    /\ \A i \in Isolates : memory[i].version = Build[i]
    /\ \A r \in Requests : Running(r) => Stamped(r)

\* Whatever a step captures, submits or remembers is stamped by its build (settings/kv.ts:
\* updateDataset).
THEOREM StampStep == Typed /\ AllStamped /\ [Next]_vars => AllStamped'
<1> SUFFICES ASSUME Typed, AllStamped, [Next]_vars
             PROVE  AllStamped'
  OBVIOUS
<1> USE SettingsAssumption DEF Typed, TypeOK, Holds, Running, AllStamped, Stamped
<1>1. ASSUME NEW r \in Requests, NEW i \in Isolates, BeginLoad(r, i)
      PROVE  AllStamped'
  BY <1>1 DEF BeginLoad, Begin
<1>2. ASSUME NEW r \in Requests, NEW i \in Isolates, BeginList(r, i)
      PROVE  AllStamped'
  BY <1>2 DEF BeginList, Begin
<1>3. ASSUME NEW r \in Requests, NEW i \in Isolates, BeginForm(r, i)
      PROVE  AllStamped'
  BY <1>3 DEF BeginForm, Begin
<1>4. ASSUME NEW r \in Requests, NEW i \in Isolates, BeginReset(r, i)
      PROVE  AllStamped'
  BY <1>4 DEF BeginReset, Begin
<1>5. ASSUME NEW r \in Requests, ReadSettings(r)
      PROVE  AllStamped'
  BY <1>5 DEF ReadSettings, GoTo, Capture, Else
<1>6. ASSUME NEW r \in Requests, Migrate(r)
      PROVE  AllStamped'
  BY <1>6 DEF Migrate, GoTo
<1>7. ASSUME NEW r \in Requests, PutDefaults(r)
      PROVE  AllStamped'
  BY <1>7 DEF PutDefaults, GoTo
<1>8. ASSUME NEW r \in Requests, View(r)
      PROVE  AllStamped'
  BY <1>8 DEF View, Answer, End
<1>9. ASSUME NEW r \in Requests, Serve(r)
      PROVE  AllStamped'
  BY <1>9 DEF Serve, Apply, Answer, End
<1>10. ASSUME NEW r \in Requests, AwaitCommand(r)
       PROVE  AllStamped'
  BY <1>10 DEF AwaitCommand, Apply, Submit, GoTo
<1>11. ASSUME NEW r \in Requests, ApplyPreset(r)
       PROVE  AllStamped'
  BY <1>11 DEF ApplyPreset, Apply, Submit, GoTo, Capture
<1>12. ASSUME NEW r \in Requests, NEW c \in {"add", "remove"} \X Entries, PatchOf(r, c)
       PROVE  AllStamped'
  BY <1>12 DEF PatchOf, Apply, Submit, GoTo, Capture, Answer, End
<1>13. ASSUME NEW r \in Requests, StoreList(r)
       PROVE  AllStamped'
  BY <1>13 DEF StoreList, Apply, Submit, GoTo, Capture
<1>14. ASSUME NEW r \in Requests, NEW c \in {"add", "remove"} \X Entries, CommandOf(r, c)
       PROVE  AllStamped'
  BY <1>14 DEF CommandOf, Submit, GoTo, Capture, Answer, End
<1>15. ASSUME NEW r \in Requests, ReadCurrent(r)
       PROVE  AllStamped'
  <2>1. Merge(edit[r], store, base[r], Build[home[r]]).version = Build[home[r]]
    BY <1>15, MergedFacts
  <2> QED BY <1>15, <2>1 DEF ReadCurrent, GoTo, Capture
<1>16. ASSUME NEW r \in Requests, PutSettings(r)
       PROVE  AllStamped'
  BY <1>16 DEF PutSettings, End
<1>17. ASSUME NEW r \in Requests, CallFails(r)
       PROVE  AllStamped'
  BY <1>17 DEF CallFails, Answer, End
<1>18. ASSUME NEW i \in Isolates, Evict(i)
       PROVE  AllStamped'
  BY <1>18 DEF Evict, End, Defaults
<1>19. CASE UNCHANGED vars
  BY <1>19 DEF vars, requestVars, historyVars
<1> QED
  BY <1>1, <1>2, <1>3, <1>4, <1>5, <1>6, <1>7, <1>8, <1>9, <1>10, <1>11, <1>12, <1>13,
     <1>14, <1>15, <1>16, <1>17, <1>18, <1>19 DEF Next, Step, PatchList, PatchOf, Command, CommandOf

-----------------------------------------------------------------------------
(***************************************************************************)
(* The host.  A request holds documents whose host was derived from their  *)
(* resolver, and submits no host, one derived from the resolver it         *)
(* submits, or, for a preset, the one of the resolver it loaded.           *)
(***************************************************************************)
Matched(r) ==
    /\ base[r] # None => base[r].host = base[r].dns
    /\ doc[r] # None => doc[r].host = doc[r].dns
    /\ edit[r] # None /\ pc[r] # "put" =>
         \/ edit[r].host = None
         \/ edit[r].host = edit[r].dns
         \/ kind[r] = "preset" /\ base[r] # None /\ edit[r].host = base[r].dns

AllMatched == ~crossed =>
    /\ store # None => store.host = store.dns
    /\ \A i \in Isolates : memory[i].host = memory[i].dns
    /\ \A r \in Requests : Matched(r)

\* No step takes a host apart from its resolver, unless a preset crossed it (settings/kv.ts:
\* updateDataset).
THEOREM MatchStep == Typed /\ AllMatched /\ [Next]_vars => AllMatched'
<1> SUFFICES ASSUME Typed, AllMatched, [Next]_vars
             PROVE  AllMatched'
  OBVIOUS
<1> USE SettingsAssumption DEF Typed, TypeOK, Holds, Running, AllMatched, Matched
<1>1. ASSUME NEW r \in Requests, NEW i \in Isolates, BeginLoad(r, i)
      PROVE  AllMatched'
  BY <1>1 DEF BeginLoad, Begin
<1>2. ASSUME NEW r \in Requests, NEW i \in Isolates, BeginList(r, i)
      PROVE  AllMatched'
  BY <1>2 DEF BeginList, Begin, Edits
<1>3. ASSUME NEW r \in Requests, NEW i \in Isolates, BeginForm(r, i)
      PROVE  AllMatched'
  BY <1>3 DEF BeginForm, Begin, Edits
<1>4. ASSUME NEW r \in Requests, NEW i \in Isolates, BeginReset(r, i)
      PROVE  AllMatched'
  BY <1>4 DEF BeginReset, Begin
<1>5. ASSUME NEW r \in Requests, ReadSettings(r)
      PROVE  AllMatched'
  BY <1>5 DEF ReadSettings, GoTo, Capture, Else
<1>6. ASSUME NEW r \in Requests, Migrate(r)
      PROVE  AllMatched'
  BY <1>6 DEF Migrate, GoTo
<1>7. ASSUME NEW r \in Requests, PutDefaults(r)
      PROVE  AllMatched'
  BY <1>7 DEF PutDefaults, GoTo
<1>8. ASSUME NEW r \in Requests, View(r)
      PROVE  AllMatched'
  BY <1>8 DEF View, Answer, End
<1>9. ASSUME NEW r \in Requests, Serve(r)
      PROVE  AllMatched'
  BY <1>9 DEF Serve, Apply, Answer, End
<1>10. ASSUME NEW r \in Requests, AwaitCommand(r)
       PROVE  AllMatched'
  BY <1>10 DEF AwaitCommand, Apply, Submit, GoTo
<1>11. ASSUME NEW r \in Requests, ApplyPreset(r)
       PROVE  AllMatched'
  BY <1>11 DEF ApplyPreset, Apply, Submit, GoTo, Capture
<1>12. ASSUME NEW r \in Requests, NEW c \in {"add", "remove"} \X Entries, PatchOf(r, c)
       PROVE  AllMatched'
  BY <1>12 DEF PatchOf, Apply, Submit, GoTo, Capture, Answer, End
<1>13. ASSUME NEW r \in Requests, StoreList(r)
       PROVE  AllMatched'
  BY <1>13 DEF StoreList, Apply, Submit, GoTo, Capture
<1>14. ASSUME NEW r \in Requests, NEW c \in {"add", "remove"} \X Entries, CommandOf(r, c)
       PROVE  AllMatched'
  BY <1>14 DEF CommandOf, Submit, GoTo, Capture, Answer, End
<1>15. ASSUME NEW r \in Requests, ReadCurrent(r)
       PROVE  AllMatched'
  <2>1. edit[r] \in Edits /\ base[r] \in Settings /\ Build[home[r]] \in Builds
    BY <1>15, MergedFacts
  <2>2. ASSUME ~crossed'
        PROVE  Merge(edit[r], store, base[r], Build[home[r]]).host =
               Merge(edit[r], store, base[r], Build[home[r]]).dns
    <3>1. ~crossed /\ (kind[r] = "preset" /\ store # None => store.dns = base[r].dns)
      BY <1>15, <2>2 DEF ReadCurrent
    <3>2. \/ edit[r].host = None
          \/ edit[r].host = edit[r].dns
          \/ store = None
          \/ edit[r].host = store.dns
      BY <1>15, <2>1, <3>1 DEF ReadCurrent
    <3> QED BY <2>1, <3>1, <3>2, MergeMatches
  <2>3. ~crossed' => ~crossed
    BY <1>15 DEF ReadCurrent
  <2> QED BY <1>15, <2>2, <2>3 DEF ReadCurrent, GoTo, Capture
<1>16. ASSUME NEW r \in Requests, PutSettings(r)
       PROVE  AllMatched'
  BY <1>16 DEF PutSettings, End
<1>17. ASSUME NEW r \in Requests, CallFails(r)
       PROVE  AllMatched'
  BY <1>17 DEF CallFails, Answer, End
<1>18. ASSUME NEW i \in Isolates, Evict(i)
       PROVE  AllMatched'
  BY <1>18 DEF Evict, End, Defaults
<1>19. CASE UNCHANGED vars
  BY <1>19 DEF vars, requestVars, historyVars
<1> QED
  BY <1>1, <1>2, <1>3, <1>4, <1>5, <1>6, <1>7, <1>8, <1>9, <1>10, <1>11, <1>12, <1>13,
     <1>14, <1>15, <1>16, <1>17, <1>18, <1>19 DEF Next, Step, PatchList, PatchOf, Command, CommandOf

-----------------------------------------------------------------------------
(***************************************************************************)
(* The edits nothing overlapped.  While no other request has put, the      *)
(* document is still the one seen, and what the request loads, submits and *)
(* is about to put is that document with the change asked for.             *)
(***************************************************************************)
Fresh(r) ==
    /\ Running(r)
    /\ seen[r] # None
    /\ seen[r].version = Build[home[r]] \/ kind[r] = "form"

\* What Asked says, stamped, of a request of kind k that saw `before`.
Wanted(before, k, e, c, b) ==
    LET rehost(dns) == IF dns = before.dns THEN before.host ELSE dns IN
    CASE k = "patch"  -> [before EXCEPT !.list = Changed(before.list, c), !.version = b]
      [] k = "preset" -> [before EXCEPT !.dns = PresetDNS, !.host = rehost(PresetDNS), !.version = b]
      [] k = "form"   -> [before EXCEPT !.dns = e.dns, !.host = rehost(e.dns), !.list = e.list,
                                        !.version = b]


Exact(r) ==
    /\ store = seen[r]
    /\ pc[r] \notin {"migrate", "putDefaults"}
    /\ pc[r] = "loaded" => doc[r] = seen[r]
    /\ kind[r] = "patch" /\ pc[r] # "put" =>
         edit[r] = [dns |-> None, host |-> None, list |-> Changed(seen[r].list, change[r])]
    /\ kind[r] = "preset" /\ pc[r] # "put" =>
         edit[r] = [dns |-> PresetDNS, host |-> seen[r].host, list |-> seen[r].list]
    /\ kind[r] = "form" => /\ pc[r] \in {"readCurrent", "put"}
                           /\ edit[r].dns # None /\ edit[r].host = None /\ edit[r].list # None
    /\ pc[r] = "put" /\ kind[r] \in {"patch", "preset", "form"} =>
         doc[r] = Wanted(seen[r], kind[r], edit[r], change[r], Build[home[r]])

AllExact == \A r \in Requests : Fresh(r) => Exact(r)

\* An edit merged with what it was made from changes just what was asked for.
LEMMA MergeExact ==
    ASSUME NEW k, NEW e \in Edits, NEW c, NEW before \in Settings, NEW captured \in Settings,
           NEW b \in Builds,
           \/ /\ k = "patch" /\ Changed(before.list, c) # None
              /\ e = [dns |-> None, host |-> None, list |-> Changed(before.list, c)]
           \/ k = "preset" /\ e = [dns |-> PresetDNS, host |-> before.host, list |-> before.list]
           \/ k = "form" /\ e.dns # None /\ e.host = None /\ e.list # None
    PROVE  Merge(e, before, captured, b) = Wanted(before, k, e, c, b)
<1>1. before # None /\ before.dns \in Resolvers /\ before.dns # None /\ PresetDNS # None
      /\ before.host # None /\ before.list # None
  BY SettingsAssumption DEF Settings
<1>2. CASE k = "patch"
  <2>1. e.dns = None /\ e.host = None /\ e.list = Changed(before.list, c)
    BY <1>2
  <2>2. Merge(e, before, captured, b) =
          [dns |-> before.dns, host |-> before.host, list |-> Changed(before.list, c), version |-> b]
    BY <1>1, <1>2, <2>1 DEF Merge, Else
  <2>3. Wanted(before, k, e, c, b) =
          [dns |-> before.dns, host |-> before.host, list |-> Changed(before.list, c), version |-> b]
    BY <1>2 DEF Wanted, Settings
  <2> QED BY <2>2, <2>3
<1>3. CASE k = "preset"
  <2> DEFINE host == IF PresetDNS # before.dns THEN PresetDNS ELSE before.host
  <2>1. e.dns = PresetDNS /\ e.host = before.host /\ e.list = before.list
    BY <1>3
  <2>2. Merge(e, before, captured, b) =
          [dns |-> PresetDNS, host |-> host, list |-> before.list, version |-> b]
    BY <1>1, <1>3, <2>1 DEF Merge, Else
  <2>3. Wanted(before, k, e, c, b) =
          [dns |-> PresetDNS, host |-> host, list |-> before.list, version |-> b]
    BY <1>3 DEF Wanted, Settings
  <2> QED BY <2>2, <2>3
<1>4. CASE k = "form"
  BY <1>1, <1>4 DEF Merge, Else, Wanted, Edits, Settings
<1> QED BY <1>2, <1>3, <1>4

\* While nobody else has put, an edit goes on being of the document it saw (settings/kv.ts).
THEOREM ExactStep == Typed /\ AllExact /\ [Next]_vars => AllExact'
<1> SUFFICES ASSUME Typed, AllExact, [Next]_vars
             PROVE  AllExact'
  OBVIOUS
<1> USE SettingsAssumption DEF Typed, TypeOK, Holds, Running, AllExact, Exact, Fresh
<1>1. ASSUME NEW r \in Requests, NEW i \in Isolates, BeginLoad(r, i)
      PROVE  AllExact'
  BY <1>1 DEF BeginLoad, Begin
<1>2. ASSUME NEW r \in Requests, NEW i \in Isolates, BeginList(r, i)
      PROVE  AllExact'
  <2>1. PICK e \in Entries : Begin(r, i, "patch", "read", None,
            [dns |-> None, host |-> None, list |-> {e}], <<"set", e>>)
    BY <1>2 DEF BeginList
  <2>2. /\ pc'[r] = "read" /\ kind'[r] = "patch" /\ seen'[r] = store /\ store' = store
        /\ edit'[r] = [dns |-> None, host |-> None, list |-> {e}] /\ change'[r] = <<"set", e>>
    BY <2>1 DEF Begin
  <2>3. Changed(seen'[r].list, change'[r]) = {e}
    BY <2>2 DEF Changed
  <2>4. Exact(r)'
    <3> HIDE DEF Typed, TypeOK, Holds, AllExact, Fresh
    <3>1. edit'[r] = [dns |-> None, host |-> None, list |-> Changed(seen'[r].list, change'[r])]
      BY <2>2, <2>3
    <3> QED BY <2>2, <3>1 DEF Exact
  <2>5. ASSUME NEW q \in Requests, q # r, Fresh(q)'
        PROVE  Exact(q)'
    BY <2>1, <2>5 DEF Begin
  <2> QED BY <2>4, <2>5
<1>3. ASSUME NEW r \in Requests, NEW i \in Isolates, BeginForm(r, i)
      PROVE  AllExact'
  BY <1>3 DEF BeginForm, Begin, Edits
<1>4. ASSUME NEW r \in Requests, NEW i \in Isolates, BeginReset(r, i)
      PROVE  AllExact'
  BY <1>4 DEF BeginReset, Begin
<1>5. ASSUME NEW r \in Requests, ReadSettings(r)
      PROVE  AllExact'
  BY <1>5 DEF ReadSettings, GoTo, Capture, Else
<1>6. ASSUME NEW r \in Requests, Migrate(r)
      PROVE  AllExact'
  BY <1>6 DEF Migrate, GoTo
<1>7. ASSUME NEW r \in Requests, PutDefaults(r)
      PROVE  AllExact'
  BY <1>7 DEF PutDefaults, GoTo
<1>8. ASSUME NEW r \in Requests, View(r)
      PROVE  AllExact'
  BY <1>8 DEF View, Answer, End
<1>9. ASSUME NEW r \in Requests, Serve(r)
      PROVE  AllExact'
  BY <1>9 DEF Serve, Apply, Answer, End
<1>10. ASSUME NEW r \in Requests, AwaitCommand(r)
       PROVE  AllExact'
  BY <1>10 DEF AwaitCommand, Apply, Submit, GoTo
<1>11. ASSUME NEW r \in Requests, ApplyPreset(r)
       PROVE  AllExact'
  BY <1>11 DEF ApplyPreset, Apply, Submit, GoTo, Capture
<1>12. ASSUME NEW r \in Requests, NEW c \in {"add", "remove"} \X Entries, PatchOf(r, c)
       PROVE  AllExact'
  BY <1>12 DEF PatchOf, Apply, Submit, GoTo, Capture, Answer, End
<1>13. ASSUME NEW r \in Requests, StoreList(r)
       PROVE  AllExact'
  BY <1>13 DEF StoreList, Apply, Submit, GoTo, Capture
<1>14. ASSUME NEW r \in Requests, NEW c \in {"add", "remove"} \X Entries, CommandOf(r, c)
       PROVE  AllExact'
  BY <1>14 DEF CommandOf, Submit, GoTo, Capture, Answer, End
<1>15. ASSUME NEW r \in Requests, ReadCurrent(r)
       PROVE  AllExact'
  <2>1. edit[r] \in Edits /\ base[r] \in Settings /\ Build[home[r]] \in Builds
    BY <1>15, MergedFacts
  <2>2. ASSUME Fresh(r), kind[r] \in {"patch", "preset", "form"}
        PROVE  Merge(edit[r], store, base[r], Build[home[r]]) =
               Wanted(seen[r], kind[r], edit[r], change[r], Build[home[r]])
    <3>1. seen[r] \in Settings /\ store = seen[r]
      BY <2>2
    <3>2. CASE kind[r] = "patch"
      <4>1. change[r] \in Changes /\ seen[r].list \in SUBSET Entries
        BY <3>1, <3>2 DEF Settings
      <4>2. Changed(seen[r].list, change[r]) # None
        BY <4>1, ChangedFacts
      <4> QED BY <1>15, <2>1, <2>2, <3>1, <3>2, <4>2, MergeExact DEF ReadCurrent
    <3>3. CASE kind[r] \in {"preset", "form"}
      BY <1>15, <2>1, <2>2, <3>1, <3>3, MergeExact DEF ReadCurrent
    <3> QED BY <2>2, <3>2, <3>3
  <2> QED BY <1>15, <2>2 DEF ReadCurrent, GoTo, Capture
<1>16. ASSUME NEW r \in Requests, PutSettings(r)
       PROVE  AllExact'
  BY <1>16 DEF PutSettings, End
<1>17. ASSUME NEW r \in Requests, CallFails(r)
       PROVE  AllExact'
  BY <1>17 DEF CallFails, Answer, End
<1>18. ASSUME NEW i \in Isolates, Evict(i)
       PROVE  AllExact'
  BY <1>18 DEF Evict, End, Defaults
<1>19. CASE UNCHANGED vars
  BY <1>19 DEF vars, requestVars, historyVars
<1> QED
  BY <1>1, <1>2, <1>3, <1>4, <1>5, <1>6, <1>7, <1>8, <1>9, <1>10, <1>11, <1>12, <1>13,
     <1>14, <1>15, <1>16, <1>17, <1>18, <1>19 DEF Next, Step, PatchList, PatchOf, Command, CommandOf

-----------------------------------------------------------------------------
(***************************************************************************)
(* A steady deployment.                                                    *)
(***************************************************************************)
LEMMA SteadyStep ==
    ASSUME Typed, AllStamped, [Next]_vars, Steady
    PROVE  Steady' /\ (store' # store => \E q \in Requests : PutSettings(q))
<1> DEFINE Goal == Steady' /\ (store' # store => \E q \in Requests : PutSettings(q))
<1> USE SettingsAssumption DEF Typed, TypeOK, Holds, AllStamped, Stamped, Steady, Running
<1>1. ASSUME NEW r \in Requests, NEW i \in Isolates, BeginLoad(r, i)
      PROVE  Goal
  BY <1>1 DEF BeginLoad, Begin
<1>2. ASSUME NEW r \in Requests, NEW i \in Isolates, BeginList(r, i)
      PROVE  Goal
  BY <1>2 DEF BeginList, Begin
<1>3. ASSUME NEW r \in Requests, NEW i \in Isolates, BeginForm(r, i)
      PROVE  Goal
  BY <1>3 DEF BeginForm, Begin
<1>4. ASSUME NEW r \in Requests, NEW i \in Isolates, BeginReset(r, i)
      PROVE  Goal
  BY <1>4 DEF BeginReset, Begin
<1>5. ASSUME NEW r \in Requests, ReadSettings(r)
      PROVE  Goal
  BY <1>5 DEF ReadSettings, GoTo, Capture, Else
<1>6. ASSUME NEW r \in Requests, Migrate(r)
      PROVE  Goal
  BY <1>6 DEF Migrate, GoTo
<1>7. ASSUME NEW r \in Requests, PutDefaults(r)
      PROVE  Goal
  BY <1>7 DEF PutDefaults, GoTo
<1>8. ASSUME NEW r \in Requests, View(r)
      PROVE  Goal
  BY <1>8 DEF View, Answer, End
<1>9. ASSUME NEW r \in Requests, Serve(r)
      PROVE  Goal
  BY <1>9 DEF Serve, Apply, Answer, End
<1>10. ASSUME NEW r \in Requests, AwaitCommand(r)
       PROVE  Goal
  BY <1>10 DEF AwaitCommand, Apply, Submit, GoTo
<1>11. ASSUME NEW r \in Requests, ApplyPreset(r)
       PROVE  Goal
  BY <1>11 DEF ApplyPreset, Apply, Submit, GoTo, Capture
<1>12. ASSUME NEW r \in Requests, NEW c \in {"add", "remove"} \X Entries, PatchOf(r, c)
       PROVE  Goal
  BY <1>12 DEF PatchOf, Apply, Submit, GoTo, Capture, Answer, End
<1>13. ASSUME NEW r \in Requests, StoreList(r)
       PROVE  Goal
  BY <1>13 DEF StoreList, Apply, Submit, GoTo, Capture
<1>14. ASSUME NEW r \in Requests, NEW c \in {"add", "remove"} \X Entries, CommandOf(r, c)
       PROVE  Goal
  BY <1>14 DEF CommandOf, Submit, GoTo, Capture, Answer, End
<1>15. ASSUME NEW r \in Requests, ReadCurrent(r)
       PROVE  Goal
  BY <1>15 DEF ReadCurrent, GoTo, Capture
<1>16. ASSUME NEW r \in Requests, PutSettings(r)
       PROVE  Goal
  BY <1>16 DEF PutSettings, End
<1>17. ASSUME NEW r \in Requests, CallFails(r)
       PROVE  Goal
  BY <1>17 DEF CallFails, Answer, End
<1>18. ASSUME NEW i \in Isolates, Evict(i)
       PROVE  Goal
  BY <1>18 DEF Evict, End, Defaults
<1>19. CASE UNCHANGED vars
  BY <1>19 DEF vars, requestVars, historyVars
<1> QED
  BY <1>1, <1>2, <1>3, <1>4, <1>5, <1>6, <1>7, <1>8, <1>9, <1>10, <1>11, <1>12, <1>13,
     <1>14, <1>15, <1>16, <1>17, <1>18, <1>19 DEF Next, Step, PatchList, PatchOf, Command, CommandOf

-----------------------------------------------------------------------------
Inv == Typed /\ AllStamped /\ AllMatched /\ AllExact

\* The invariant always holds.
THEOREM InvHolds == Spec => []Inv
<1>1. Init => Inv
  <2> SUFFICES ASSUME Init
               PROVE  Inv
    OBVIOUS
  <2>1. Typed
    BY TypedInit
  <2>2. \A i \in Isolates : memory[i] = Defaults(Build[i]) /\ Build[i] \in Builds
    BY SettingsAssumption DEF Init
  <2>3. AllStamped /\ AllExact
    BY <2>2, DefaultsFacts DEF Init, AllStamped, AllExact, Fresh, Running
  <2>4. store # None => store.host = store.dns
    BY SettingsAssumption DEF Init
  <2>5. AllMatched
    BY <2>2, <2>4, DefaultsFacts DEF Init, AllMatched, Matched
  <2> QED BY <2>1, <2>3, <2>5 DEF Inv
<1>2. Inv /\ [Next]_vars => Inv'
  BY TypedStep, StampStep, MatchStep, ExactStep DEF Inv
<1> QED BY <1>1, <1>2, PTL DEF Spec

\* The types, and so a document whole: whatever is submitted, every setting of what is put
\* has a value (updateDatasetDetailed, settings/kv.ts).
THEOREM TypeCorrect == Spec => []TypeOK
<1>1. Inv => TypeOK
  BY DEF Inv, Typed
<1> QED BY <1>1, InvHolds, PTL

\* However many builds serve at once, no isolate applies the settings of another
\* (getDataset, settings/kv.ts:30).
THEOREM ServesOwnBuild == Spec => []ServedMatchesBuild
<1>1. Inv => ServedMatchesBuild
  BY DEF Inv, Typed, Holds, AllStamped, Stamped, ServedMatchesBuild, Running
<1> QED BY <1>1, InvHolds, PTL

\* Unless a preset crossed a change of the resolver, the host is the resolver's own in KV
\* and in every isolate (getParam, settings/kv.ts:119).
THEOREM HostsMatch == Spec => []HostMatches
<1>1. Inv => HostMatches
  BY DEF Inv, AllMatched, HostMatches
<1> QED BY <1>1, InvHolds, PTL

\* A steady deployment stays steady, and only requests that submit settings write them
\* (the stamp of settings/kv.ts:220).
THEOREM SteadyStays == Spec => SteadyReadsOnly
<1>1. Inv /\ [Next]_vars =>
        [Steady => Steady' /\ (store' # store => \E r \in Requests : PutSettings(r))]_vars
  BY SteadyStep DEF Inv
<1> QED BY <1>1, InvHolds, PTL DEF Spec, SteadyReadsOnly

\* A panel edit no other put overlapped stores what was stored with what was asked
\* (updateDatasetDetailed and its callers).
THEOREM EditsAreExact == Spec => UncontestedEditIsExact
<1>1. ASSUME Inv, NEW r \in Requests, PutSettings(r), kind[r] \in {"patch", "preset", "form"},
             seen[r] # None, seen[r].version = Build[home[r]] \/ kind[r] = "form"
      PROVE  store' = [Asked(r) EXCEPT !.version = Build[home[r]]]
  <2>1. Fresh(r)
    BY <1>1 DEF Fresh, PutSettings, Running
  <2>2. doc[r] = Wanted(seen[r], kind[r], edit[r], change[r], Build[home[r]])
    BY <1>1, <2>1 DEF Inv, AllExact, Exact, PutSettings
  <2>3. seen[r] \in Settings
    BY <1>1 DEF Inv, Typed, TypeOK
  <2>4. Wanted(seen[r], kind[r], edit[r], change[r], Build[home[r]]) =
        [Asked(r) EXCEPT !.version = Build[home[r]]]
    BY <1>1, <2>3 DEF Wanted, Asked, Settings
  <2> QED BY <1>1, <2>2, <2>4 DEF PutSettings
<1>2. Inv => [\A r \in Requests : PutSettings(r) /\ kind[r] \in {"patch", "preset", "form"}
                /\ seen[r] # None /\ (seen[r].version = Build[home[r]] \/ kind[r] = "form")
              => store' = [Asked(r) EXCEPT !.version = Build[home[r]]]]_vars
  BY <1>1
<1> QED BY <1>2, InvHolds, PTL DEF Spec, UncontestedEditIsExact

=============================================================================
