--------------------------- MODULE DocumentProofs ---------------------------
(***************************************************************************)
(* The documents of KV.                                                    *)
(*                                                                         *)
(* Profiles for any number of links and overlapping requests, KV refusing  *)
(* calls included: the cap, the expiry, the count and the extent to which  *)
(* a revocation holds.  Then the quiet deployments of MCProfiles, where    *)
(* requests do not overlap: there limits hold and links are not lost.      *)
(*                                                                         *)
(* PlatformDocument for any number of calls: its types, that one flush     *)
(* covers everything queued before it, and that it implements              *)
(* AtomicDocument.  The two specifications have no constant or variable in *)
(* common, and neither's assumptions say anything of the other's.          *)
(***************************************************************************)
EXTENDS MCProfiles, PlatformDocument, TLAPS

\* The empty list is a list of no links.
LEMMA EmptyListFacts == EmptyList \in Lists /\ Listed(EmptyList) = {}
BY DEF EmptyList, Lists, Listed

\* A list has finitely many links.
LEMMA ListedFinite ==
    ASSUME NEW list
    PROVE  IsFiniteSet(Listed(list)) /\ Cardinality(Listed(list)) \in Nat
<1>1. Listed(list) \subseteq Tokens
  BY DEF Listed
<1> QED BY <1>1, ProfilesAssumption, FS_Subset, FS_CardinalityType

\* Changing one entry adds at most that entry.
LEMMA OneEntryAdds ==
    ASSUME NEW list, NEW other, NEW t \in Tokens, Listed(other) \subseteq Listed(list) \cup {t}
    PROVE  Cardinality(Listed(other)) <= Cardinality(Listed(list)) + 1
<1>1. IsFiniteSet(Listed(list)) /\ Cardinality(Listed(list)) \in Nat
  BY ListedFinite
<1>2. IsFiniteSet(Listed(list) \cup {t})
      /\ Cardinality(Listed(list) \cup {t}) <= Cardinality(Listed(list)) + 1
  <2>1. CASE t \in Listed(list)
    <3>1. Listed(list) \cup {t} = Listed(list)
      BY <2>1
    <3>2. IsFiniteSet(Listed(list) \cup {t})
      BY <3>1, <1>1, Zenon
    <3>3. Cardinality(Listed(list) \cup {t}) = Cardinality(Listed(list))
      BY <3>1, Zenon
    <3> HIDE <3>1
    <3> QED BY <3>2, <3>3, <1>1
  <2>2. CASE t \notin Listed(list)
    <3>1. Cardinality(Listed(list) \cup {t}) = Cardinality(Listed(list)) + 1
      BY <2>2, <1>1, FS_AddElement
    <3>2. IsFiniteSet(Listed(list) \cup {t})
      BY <1>1, FS_AddElement
    <3> QED BY <3>1, <3>2, <1>1
  <2> QED BY <2>1, <2>2
<1>3. Cardinality(Listed(other)) <= Cardinality(Listed(list) \cup {t})
  BY <1>2, FS_Subset
<1>4. Cardinality(Listed(other)) \in Nat /\ Cardinality(Listed(list) \cup {t}) \in Nat
  BY <1>2, ListedFinite, FS_CardinalityType
<1> QED BY <1>1, <1>2, <1>3, <1>4

\* A list of fewer links is not longer.
LEMMA FewerEntries ==
    ASSUME NEW list, NEW other, Listed(other) \subseteq Listed(list)
    PROVE  Cardinality(Listed(other)) <= Cardinality(Listed(list))
BY ListedFinite, FS_Subset

-----------------------------------------------------------------------------
(***************************************************************************)
(* The invariant.  A list that is stored, or that a request is about to    *)
(* put, is sound: its links were issued, carry the expiry they were        *)
(* created with and count no more fetches than were served.  A pending     *)
(* list honours the revocations its request knew of.                       *)
(***************************************************************************)
Sound(list, tokens, expiries, counts) == \A t \in Tokens : list[t] # None =>
    /\ t \in tokens
    /\ list[t].expiresAt = expiries[t]
    /\ list[t].requests <= counts[t]

Honours(list, tokens) == \A t \in tokens : list[t] # None => ~list[t].enabled

Capped(list) == Cardinality(Listed(list)) <= MaxProfiles

\* What the put of q will leave revoked, among what its request could know.
Upholds(q) == (q.knew \cup (IF q.op \in {"disable", "delete"} THEN {q.token} ELSE {}))
                \ (IF q.op = "enable" THEN {q.token} ELSE {})

SoundPut(q, tokens, expiries, counts) ==
    /\ Sound(q.list, tokens, expiries, counts)
    /\ Honours(q.list, Upholds(q))
    /\ Capped(q.list)
    /\ Upholds(q) \subseteq tokens

Pending == \A r \in Requests : request[r] # None => SoundPut(request[r], issued, expiry, served)

Inv == /\ TypeOK
       /\ Sound(store, issued, expiry, served)
       /\ Pending
       /\ revoked \subseteq issued
       /\ RevocationHolds
       /\ ExpiryExact

\* Issuing another token and serving more fetches leaves a sound list sound.
LEMMA SoundGrows ==
    ASSUME NEW list \in Lists, NEW tokens, NEW tokens2, tokens \subseteq tokens2,
           NEW expiries, NEW expiries2, \A t \in tokens : expiries2[t] = expiries[t],
           NEW counts \in [Tokens -> Nat], NEW counts2 \in [Tokens -> Nat],
           \A t \in Tokens : counts[t] <= counts2[t],
           Sound(list, tokens, expiries, counts)
    PROVE  Sound(list, tokens2, expiries2, counts2)
<1> SUFFICES ASSUME NEW t \in Tokens, list[t] # None
             PROVE  t \in tokens2 /\ list[t].expiresAt = expiries2[t] /\ list[t].requests <= counts2[t]
  BY DEF Sound
<1>1. t \in tokens /\ list[t].expiresAt = expiries[t] /\ list[t].requests <= counts[t]
  BY DEF Sound
<1>2. list[t].requests \in Nat
  BY DEF Lists, Profile
<1> QED BY <1>1, <1>2

\* Counting a use changes the count and the time it was seen, nothing else.
LEMMA CountedFacts ==
    ASSUME NEW profile \in Profile, TypeOK
    PROVE  /\ Counted(profile) \in Profile /\ Counted(profile) # None
           /\ Counted(profile).expiresAt = profile.expiresAt
           /\ Counted(profile).enabled = profile.enabled
           /\ Counted(profile).requests = profile.requests + 1
<1>1. now \in Nat /\ profile.requests \in Nat
  BY DEF TypeOK, Profile
<1>2. Counted(profile) \in Profile
  <2>1. [profile EXCEPT !.requests = profile.requests + 1] \in Profile
    BY <1>1 DEF Profile
  <2>2. \A p \in Profile : [p EXCEPT !.seen = now] \in Profile
    BY <1>1 DEF Profile
  <2> QED BY <2>1, <2>2 DEF Counted
<1>3. /\ Counted(profile).expiresAt = profile.expiresAt
      /\ Counted(profile).enabled = profile.enabled
      /\ Counted(profile).requests = profile.requests + 1
  BY DEF Counted, Profile
<1> QED BY <1>2, <1>3, NoneAssumption

\* Every list a request may read is sound, capped and honours what is revoked.
LEMMA ReadableFacts ==
    ASSUME Inv, NEW list \in Readable
    PROVE  /\ list \in Lists /\ Capped(list)
           /\ Sound(list, issued, expiry, served) /\ Honours(list, revoked)
<1>1. CASE list = store
  BY <1>1 DEF Inv, TypeOK, Capped, RevocationHolds, Honours
<1>2. CASE list = EmptyList
  <2>1. Capped(list)
    BY <1>2, EmptyListFacts, FS_EmptySet, ProfilesAssumption DEF Capped
  <2>2. Sound(list, issued, expiry, served) /\ Honours(list, revoked)
    BY <1>2 DEF EmptyList, Sound, Honours, Inv, TypeOK
  <2> QED BY <1>2, <2>1, <2>2, EmptyListFacts
<1> QED BY <1>1, <1>2 DEF Readable

\* What one request leaves of the slots: its own, filled or emptied, and the others.
LEMMA OthersKeep ==
    ASSUME TypeOK, Pending, NEW r \in Requests, NEW put \in PendingPut \cup {None},
           request' = [request EXCEPT ![r] = put],
           issued \subseteq issued', \A t \in issued : expiry'[t] = expiry[t],
           served' \in [Tokens -> Nat], \A t \in Tokens : served[t] <= served'[t],
           put # None => SoundPut(put, issued', expiry', served')
    PROVE  /\ request' \in [Requests -> PendingPut \cup {None}]
           /\ \A q \in Requests : request'[q] # None => Capped(request'[q].list)
           /\ Pending'
<1>1. request \in [Requests -> PendingPut \cup {None}] /\ served \in [Tokens -> Nat]
  BY DEF TypeOK
<1>2. request' \in [Requests -> PendingPut \cup {None}]
  BY <1>1
<1>3. ASSUME NEW q \in Requests, request'[q] # None
      PROVE  SoundPut(request'[q], issued', expiry', served')
  <2>1. CASE q = r
    BY <2>1, <1>1, <1>3
  <2>2. CASE q # r
    <3>1. request'[q] = request[q] /\ request[q] \in PendingPut
      BY <2>2, <1>1, <1>3
    <3>2. SoundPut(request[q], issued, expiry, served) /\ request[q].list \in Lists
      BY <3>1, <1>3 DEF Pending, PendingPut
    <3>3. Sound(request[q].list, issued', expiry', served')
      BY <3>2, <1>1, SoundGrows DEF SoundPut
    <3> QED BY <3>1, <3>2, <3>3 DEF SoundPut
  <2> QED BY <2>1, <2>2
<1>4. Pending'
  BY <1>3 DEF Pending
<1> QED BY <1>2, <1>3, <1>4 DEF SoundPut

-----------------------------------------------------------------------------
\* A deployment starts with lists that are as they should be.
LEMMA InitInv == Init => Inv
<1> SUFFICES ASSUME Init PROVE Inv
  OBVIOUS
<1>1. store = EmptyList /\ Capped(store)
  BY EmptyListFacts, FS_EmptySet, ProfilesAssumption DEF Init, Capped
<1>2. TypeOK
  BY <1>1, EmptyListFacts DEF Init, TypeOK, Capped
<1>3. Sound(store, issued, expiry, served) /\ Pending /\ RevocationHolds /\ ExpiryExact
  BY <1>1 DEF Init, Sound, EmptyList, Pending, RevocationHolds, ExpiryExact
<1> QED BY <1>2, <1>3 DEF Inv, Init

\* Serving a link keeps the invariant.
LEMMA FetchKeeps ==
    ASSUME Inv, NEW r \in Requests, NEW t \in Tokens, Fetch(r, t)
    PROVE  Inv'
<1>1. PICK list \in Readable :
        /\ Resolves(list, t)
        /\ served' = [served EXCEPT ![t] = @ + 1]
        /\ used' = IF list[t].limit = None THEN used ELSE [used EXCEPT ![t] = @ + 1]
        /\ late' = IF expiry[t] # None /\ expiry[t] <= now THEN late \cup {t} ELSE late
        /\ IF ShouldPersistUse(list[t])
             THEN WillPut(r, "fetch", t, RecordUse(list, t))
             ELSE UNCHANGED request
        /\ UNCHANGED <<store, now, issued, expiry, revoked>>
  BY DEF Fetch
<1>2. /\ list \in Lists /\ Capped(list)
      /\ Sound(list, issued, expiry, served) /\ Honours(list, revoked)
  BY ReadableFacts
<1>3. list[t] \in Profile /\ list[t] # None /\ Status(list[t], now) = "active"
  BY <1>1, <1>2 DEF Resolves, Lists
<1>4. list[t].enabled /\ ~Expired(list[t], now)
  BY <1>3 DEF Status
<1>5. /\ served' \in [Tokens -> Nat] /\ served'[t] = served[t] + 1
      /\ \A u \in Tokens : served[u] <= served'[u]
  BY <1>1 DEF Inv, TypeOK
<1>16. /\ issued' = issued /\ expiry' = expiry /\ store' = store
       /\ served \in [Tokens -> Nat] /\ store \in Lists
  BY <1>1 DEF Inv, TypeOK
<1>17. ASSUME NEW other \in Lists, Sound(other, issued, expiry, served)
       PROVE  Sound(other, issued', expiry', served')
  BY <1>5, <1>16, <1>17, SoundGrows
<1>6. Sound(store', issued', expiry', served')
  BY <1>16, <1>17 DEF Inv
<1>7. late' = {}
  <2>1. list[t].expiresAt = expiry[t] /\ expiry[t] \in Nat \cup {None} /\ now \in Nat
    BY <1>2, <1>3 DEF Sound, Inv, TypeOK
  <2>2. ~(expiry[t] # None /\ expiry[t] <= now)
    BY <2>1, <1>4 DEF Expired
  <2> QED BY <2>2, <1>1 DEF Inv, ExpiryExact
<1>8. used' \in [Tokens -> Nat]
  BY <1>1 DEF Inv, TypeOK
<1>9. /\ request' \in [Requests -> PendingPut \cup {None}]
      /\ \A q \in Requests : request'[q] # None => Capped(request'[q].list)
      /\ Pending'
  <2>1. CASE ShouldPersistUse(list[t])
    <3> DEFINE counted == Counted(list[t])
               next == RecordUse(list, t)
               put == [op |-> "fetch", token |-> t, list |-> next, knew |-> revoked]
    <3>1. /\ counted \in Profile /\ counted # None
          /\ counted.expiresAt = list[t].expiresAt /\ counted.enabled = list[t].enabled
          /\ counted.requests = list[t].requests + 1
      BY <1>3, CountedFacts DEF Inv
    <3>2. next = [list EXCEPT ![t] = counted]
      BY DEF RecordUse
    <3>3. next \in Lists /\ next[t] = counted /\ \A u \in Tokens : u # t => next[u] = list[u]
      <4> HIDE DEF counted, next
      <4> QED BY <3>1, <3>2, <1>2 DEF Lists
    <3>4. Listed(next) = Listed(list)
      <4> HIDE DEF counted, next
      <4> QED BY <3>1, <3>3, <1>3 DEF Listed
    <3>5. Sound(next, issued', expiry', served')
      <4> HIDE DEF counted, next
      <4> SUFFICES ASSUME NEW u \in Tokens, next[u] # None
                   PROVE  u \in issued /\ next[u].expiresAt = expiry[u] /\ next[u].requests <= served'[u]
        BY <1>1 DEF Sound
      <4>1. CASE u = t
        BY <4>1, <3>1, <3>3, <1>2, <1>3, <1>5 DEF Sound, Profile, Inv, TypeOK
      <4>2. CASE u # t
        BY <4>2, <3>3, <1>2, <1>16, <1>17 DEF Sound
      <4> QED BY <4>1, <4>2
    <3>6. Honours(next, revoked)
      <4> HIDE DEF counted, next
      <4> QED BY <3>1, <3>3, <1>2, <1>3, <1>4 DEF Honours, Inv, TypeOK
    <3>7. put \in PendingPut /\ Upholds(put) = revoked
      <4> HIDE DEF next
      <4> QED BY <3>3 DEF PendingPut, Operations, Upholds, Inv, TypeOK
    <3>8. SoundPut(put, issued', expiry', served')
      <4>1. put.list = next
        OBVIOUS
      <4> HIDE DEF put, next
      <4> QED BY <4>1, <3>4, <3>5, <3>6, <3>7, <1>2, <1>16 DEF SoundPut, Capped, Inv
    <3>9. request' = [request EXCEPT ![r] = put]
      BY <1>1, <2>1 DEF WillPut
    <3> HIDE DEF put
    <3> QED BY <3>7, <3>8, <3>9, <1>1, <1>5, OthersKeep DEF Inv
  <2>2. CASE ~ShouldPersistUse(list[t])
    <3>1. request' = [request EXCEPT ![r] = request[r]]
      BY <2>2, <1>1 DEF Inv, TypeOK
    <3>2. request[r] \in PendingPut \cup {None}
      BY DEF Inv, TypeOK
    <3>3. request[r] # None => SoundPut(request[r], issued', expiry', served')
      <4> SUFFICES ASSUME request[r] # None PROVE SoundPut(request[r], issued', expiry', served')
        OBVIOUS
      <4>1. SoundPut(request[r], issued, expiry, served) /\ request[r].list \in Lists
        BY <3>2 DEF Inv, Pending, PendingPut
      <4> QED BY <4>1, <1>16, <1>17 DEF SoundPut
    <3> QED BY <3>1, <3>2, <3>3, <1>1, <1>5, OthersKeep DEF Inv
  <2> QED BY <2>1, <2>2
<1>10. TypeOK'
  BY <1>1, <1>5, <1>7, <1>8, <1>9 DEF Inv, TypeOK, Capped
<1> QED BY <1>1, <1>6, <1>7, <1>9, <1>10 DEF Inv, RevocationHolds, ExpiryExact

\* So does issuing one.
LEMMA CreateKeeps ==
    ASSUME Inv, NEW r \in Requests, NEW t \in Tokens, NEW lifetime \in Lifetimes, NEW limit \in Limits,
           Create(r, t, lifetime, limit)
    PROVE  Inv'
<1> DEFINE profile == NewProfile(lifetime, limit)
<1>1. PICK list \in Readable :
        /\ t \notin issued
        /\ HasRoom(list)
        /\ issued' = issued \cup {t}
        /\ expiry' = [expiry EXCEPT ![t] = profile.expiresAt]
        /\ WillPut(r, "create", t, [list EXCEPT ![t] = profile])
        /\ UNCHANGED <<store, now, served, used, late, revoked>>
  BY DEF Create
<1>2. /\ list \in Lists /\ Capped(list)
      /\ Sound(list, issued, expiry, served) /\ Honours(list, revoked)
  BY ReadableFacts
<1>3. /\ profile \in Profile /\ profile # None
      /\ profile.expiresAt \in Nat \cup {None} /\ profile.requests = 0
  <2>1. /\ now \in Nat /\ lifetime \in Nat \cup {None} /\ 0 \in Nat
        /\ (IF lifetime = None THEN None ELSE now + lifetime) \in Nat \cup {None}
    BY ProfilesAssumption DEF Inv, TypeOK
  <2>2. profile \in Profile
    BY <2>1 DEF NewProfile, Profile
  <2>3. profile.expiresAt \in Nat \cup {None} /\ profile.requests = 0
    BY <2>1 DEF NewProfile
  <2> QED BY <2>2, <2>3, NoneAssumption
<1> DEFINE next == [list EXCEPT ![t] = profile]
           put == [op |-> "create", token |-> t, list |-> next, knew |-> revoked]
<1> HIDE DEF profile
<1>4. next \in Lists /\ next[t] = profile /\ \A u \in Tokens : u # t => next[u] = list[u]
  BY <1>2, <1>3 DEF Lists
<1>5. Capped(next)
  <2>1. Listed(next) \subseteq Listed(list) \cup {t}
    BY <1>4 DEF Listed
  <2>2. Cardinality(Listed(next)) <= Cardinality(Listed(list)) + 1
    BY <2>1, OneEntryAdds
  <2> QED BY <2>2, <1>1, ListedFinite, ProfilesAssumption DEF Capped, HasRoom
<1>6. /\ expiry' \in [Tokens -> Nat \cup {None}] /\ expiry'[t] = profile.expiresAt
      /\ \A u \in issued : expiry'[u] = expiry[u]
  BY <1>1, <1>3 DEF Inv, TypeOK
<1>7. served' \in [Tokens -> Nat] /\ \A u \in Tokens : served[u] <= served'[u]
  BY <1>1 DEF Inv, TypeOK
<1>8. Sound(next, issued', expiry', served')
  <2>1. Sound(list, issued', expiry', served')
    <3>1. issued \subseteq issued' /\ served \in [Tokens -> Nat]
      BY <1>1 DEF Inv, TypeOK
    <3> QED BY <3>1, <1>2, <1>6, <1>7, SoundGrows
  <2> HIDE DEF next
  <2> QED BY <2>1, <1>1, <1>3, <1>4, <1>6, <1>7 DEF Sound
<1>9. Honours(next, revoked)
  <2>1. t \notin revoked
    BY <1>1 DEF Inv
  <2> HIDE DEF next
  <2> QED BY <2>1, <1>2, <1>4 DEF Honours, Inv, TypeOK
<1>10. put \in PendingPut /\ put.list = next /\ Upholds(put) = revoked
  <2> HIDE DEF next
  <2> QED BY <1>4 DEF PendingPut, Operations, Upholds, Inv, TypeOK
<1>11. revoked \subseteq issued'
  BY <1>1 DEF Inv
<1>12. SoundPut(put, issued', expiry', served')
  <2> HIDE DEF put, next
  <2> QED BY <1>5, <1>8, <1>9, <1>10, <1>11 DEF SoundPut
<1>13. request' = [request EXCEPT ![r] = put]
  BY <1>1 DEF WillPut
<1>14. /\ request' \in [Requests -> PendingPut \cup {None}]
       /\ \A q \in Requests : request'[q] # None => Capped(request'[q].list)
       /\ Pending'
  <2>1. issued \subseteq issued'
    BY <1>1
  <2> HIDE DEF put
  <2> QED BY <2>1, <1>6, <1>7, <1>10, <1>12, <1>13, OthersKeep DEF Inv
<1>15. Sound(store', issued', expiry', served')
  <2>1. issued \subseteq issued' /\ served \in [Tokens -> Nat] /\ store' = store /\ store \in Lists
    BY <1>1 DEF Inv, TypeOK
  <2> QED BY <2>1, <1>6, <1>7, SoundGrows DEF Inv
<1>16. TypeOK'
  <2>1. issued' \subseteq Tokens
    BY <1>1 DEF Inv, TypeOK
  <2> QED BY <2>1, <1>1, <1>6, <1>14 DEF Inv, TypeOK, Capped
<1> QED BY <1>1, <1>11, <1>14, <1>15, <1>16 DEF Inv, RevocationHolds, ExpiryExact

\* The changed entry of an update: no later expiry, no higher count, and no
\* enabling but by "enable".
LEMMA UpdatedFacts ==
    ASSUME NEW list \in Lists, NEW t \in Tokens, list[t] # None,
           NEW action \in Actions, NEW limit \in Limits \cup {None}, action = "limit" => limit \in Limits
    PROVE  LET next == Updated(list, t, action, limit) IN
           /\ next \in Lists
           /\ \A u \in Tokens : u # t => next[u] = list[u]
           /\ next[t] # None => /\ next[t].expiresAt = list[t].expiresAt
                                /\ next[t].requests \in {0, list[t].requests}
                                /\ next[t].enabled /\ action # "enable" => list[t].enabled
           /\ action \in {"disable", "delete"} => next[t] = None \/ ~next[t].enabled
<1> DEFINE profile == list[t]
           entry == CASE action = "delete" -> None
                      [] action = "limit" -> [profile EXCEPT !.limit = limit]
                      [] action = "reset-count" -> [profile EXCEPT !.requests = 0]
                      [] OTHER -> [profile EXCEPT !.enabled = (action = "enable")]
           next == Updated(list, t, action, limit)
<1>1. next = [list EXCEPT ![t] = entry]
  BY DEF Updated
<1>2. profile \in Profile
  BY DEF Lists
<1> HIDE DEF profile
<1>3. CASE action = "delete"
  <2>1. entry = None
    BY <1>3
  <2> HIDE DEF entry
  <2> QED BY <2>1, <1>1, <1>3 DEF Lists
<1>4. CASE action = "limit"
  <2>1. entry = [profile EXCEPT !.limit = limit]
    BY <1>4
  <2> HIDE DEF entry
  <2>2. /\ entry \in Profile /\ entry.expiresAt = profile.expiresAt
        /\ entry.requests = profile.requests /\ entry.enabled = profile.enabled
    BY <2>1, <1>2, <1>4 DEF Profile
  <2> QED BY <2>2, <1>1, <1>4 DEF Lists, profile
<1>5. CASE action = "reset-count"
  <2>1. entry = [profile EXCEPT !.requests = 0]
    BY <1>5
  <2> HIDE DEF entry
  <2>2. /\ entry \in Profile /\ entry.expiresAt = profile.expiresAt
        /\ entry.requests = 0 /\ entry.enabled = profile.enabled
    BY <2>1, <1>2 DEF Profile
  <2> QED BY <2>2, <1>1, <1>5 DEF Lists, profile
<1>6. CASE action \in {"enable", "disable"}
  <2>1. entry = [profile EXCEPT !.enabled = (action = "enable")]
    BY <1>6
  <2> HIDE DEF entry
  <2>2. /\ entry \in Profile /\ entry.expiresAt = profile.expiresAt
        /\ entry.requests = profile.requests /\ entry.enabled = (action = "enable")
    BY <2>1, <1>2 DEF Profile
  <2> QED BY <2>2, <1>1, <1>6 DEF Lists, profile
<1> QED BY <1>3, <1>4, <1>5, <1>6 DEF Actions


\* So does revoking, renewing or limiting one.
LEMMA UpdateKeeps ==
    ASSUME Inv, NEW r \in Requests, NEW t \in Tokens, NEW action \in Actions,
           NEW limit \in Limits \cup {None}, action = "limit" => limit \in Limits,
           Update(r, t, action, limit)
    PROVE  Inv'
<1>1. PICK list \in Readable :
        /\ list[t] # None
        /\ WillPut(r, action, t, Updated(list, t, action, limit))
        /\ UNCHANGED <<store, now, history>>
  BY DEF Update
<1>2. /\ list \in Lists /\ Capped(list)
      /\ Sound(list, issued, expiry, served) /\ Honours(list, revoked)
  BY ReadableFacts
<1> DEFINE next == Updated(list, t, action, limit)
           put == [op |-> action, token |-> t, list |-> next, knew |-> revoked]
<1>3. /\ next \in Lists
      /\ \A u \in Tokens : u # t => next[u] = list[u]
      /\ next[t] # None => /\ next[t].expiresAt = list[t].expiresAt
                           /\ next[t].requests \in {0, list[t].requests}
                           /\ next[t].enabled /\ action # "enable" => list[t].enabled
      /\ action \in {"disable", "delete"} => next[t] = None \/ ~next[t].enabled
  BY <1>1, <1>2, UpdatedFacts
<1> HIDE DEF next
<1>4. UNCHANGED <<store, now, issued, expiry, served, used, late, revoked>>
  BY <1>1 DEF history
<1>5. Capped(next)
  <2>1. Listed(next) \subseteq Listed(list)
    BY <1>1, <1>3 DEF Listed
  <2> QED BY <2>1, <1>2, FewerEntries, ListedFinite, ProfilesAssumption DEF Capped
<1>6. Sound(next, issued, expiry, served)
  <2>1. served[t] \in Nat
    BY DEF Inv, TypeOK
  <2> QED BY <2>1, <1>1, <1>2, <1>3 DEF Sound
<1>7. put \in PendingPut /\ put.list = next
      /\ Upholds(put) = (revoked \cup (IF action \in {"disable", "delete"} THEN {t} ELSE {}))
                          \ (IF action = "enable" THEN {t} ELSE {})
  BY <1>3 DEF PendingPut, Operations, Upholds, Inv, TypeOK
<1>8. Upholds(put) \subseteq issued
  <2>1. t \in issued
    BY <1>1, <1>2 DEF Sound
  <2> HIDE DEF put
  <2> QED BY <2>1, <1>7 DEF Inv
<1>9. Honours(next, Upholds(put))
  <2> HIDE DEF put
  <2> SUFFICES ASSUME NEW u \in Upholds(put), next[u] # None PROVE ~next[u].enabled
    BY DEF Honours
  <2>1. u \in Tokens
    BY <1>8 DEF Inv, TypeOK
  <2>2. CASE u = t
    BY <2>2, <1>1, <1>2, <1>3, <1>7 DEF Honours
  <2>3. CASE u # t
    BY <2>1, <2>3, <1>2, <1>3, <1>7 DEF Honours
  <2> QED BY <2>2, <2>3
<1>10. SoundPut(put, issued, expiry, served)
  <2> HIDE DEF put
  <2> QED BY <1>5, <1>6, <1>7, <1>8, <1>9 DEF SoundPut
<1>11. request' = [request EXCEPT ![r] = put]
  BY <1>1 DEF WillPut, next
<1>12. /\ request' \in [Requests -> PendingPut \cup {None}]
       /\ \A q \in Requests : request'[q] # None => Capped(request'[q].list)
       /\ Pending'
  <2> HIDE DEF put
  <2>1. served' \in [Tokens -> Nat] /\ \A u \in Tokens : served[u] <= served'[u]
    BY <1>4 DEF Inv, TypeOK
  <2>2. issued \subseteq issued' /\ \A u \in issued : expiry'[u] = expiry[u]
    BY <1>4
  <2>3. SoundPut(put, issued', expiry', served')
    BY <1>4, <1>10
  <2> QED BY <2>1, <2>2, <2>3, <1>7, <1>11, OthersKeep DEF Inv
<1>13. TypeOK'
  BY <1>4, <1>12 DEF Inv, TypeOK, Capped
<1> QED BY <1>4, <1>12, <1>13 DEF Inv, RevocationHolds, ExpiryExact

\* Emptying a slot.
LEMMA FinishKeeps ==
    ASSUME Inv, NEW r \in Requests, Finish(r), UNCHANGED <<issued, expiry, served>>
    PROVE  /\ request' \in [Requests -> PendingPut \cup {None}]
           /\ \A q \in Requests : request'[q] # None => Capped(request'[q].list)
           /\ Pending'
<1>1. request' = [request EXCEPT ![r] = None]
  BY DEF Finish
<1>2. served' \in [Tokens -> Nat] /\ \A u \in Tokens : served[u] <= served'[u]
  BY DEF Inv, TypeOK
<1>3. issued \subseteq issued' /\ \A u \in issued : expiry'[u] = expiry[u]
  OBVIOUS
<1> QED BY <1>1, <1>2, <1>3, OthersKeep DEF Inv

\* What remains revoked after a put is what the put upholds.
LEMMA PutLandsKeeps ==
    ASSUME Inv, NEW r \in Requests, PutLands(r)
    PROVE  Inv'
<1> DEFINE q == request[r]
<1>1. /\ q # None /\ q \in PendingPut
      /\ SoundPut(q, issued, expiry, served)
  BY DEF PutLands, Inv, TypeOK, Pending
<1>2. /\ store' = q.list /\ revoked' = RevokedAfter(q)
      /\ used' = IF q.op \in {"limit", "reset-count"} THEN [used EXCEPT ![q.token] = 0] ELSE used
      /\ Finish(r)
      /\ UNCHANGED <<now, issued, expiry, served, late>>
  BY DEF PutLands
<1>3. /\ q.list \in Lists /\ q.token \in Tokens /\ q.knew \subseteq Tokens
      /\ Capped(q.list) /\ Sound(q.list, issued, expiry, served)
      /\ Honours(q.list, Upholds(q)) /\ Upholds(q) \subseteq issued
  BY <1>1 DEF SoundPut, PendingPut
<1> HIDE DEF q
<1>4. revoked' \subseteq Upholds(q)
  BY <1>2 DEF RevokedAfter, Upholds
<1>5. revoked' \subseteq issued' /\ RevocationHolds'
  BY <1>2, <1>3, <1>4 DEF Honours, RevocationHolds
<1>6. used' \in [Tokens -> Nat]
  BY <1>2, <1>3 DEF Inv, TypeOK
<1>7. /\ request' \in [Requests -> PendingPut \cup {None}]
      /\ \A p \in Requests : request'[p] # None => Capped(request'[p].list)
      /\ Pending'
  BY <1>2, FinishKeeps
<1>8. TypeOK'
  BY <1>2, <1>3, <1>5, <1>6, <1>7 DEF Inv, TypeOK, Capped
<1> QED BY <1>2, <1>3, <1>5, <1>7, <1>8 DEF Inv, ExpiryExact

\* So does a put that KV refuses.
LEMMA PutFailsKeeps ==
    ASSUME Inv, NEW r \in Requests, PutFails(r)
    PROVE  Inv'
<1>1. Finish(r) /\ UNCHANGED <<store, now, issued, expiry, served, used, late, revoked>>
  BY DEF PutFails, history
<1>2. /\ request' \in [Requests -> PendingPut \cup {None}]
      /\ \A p \in Requests : request'[p] # None => Capped(request'[p].list)
      /\ Pending'
  BY <1>1, FinishKeeps
<1>3. TypeOK'
  BY <1>1, <1>2 DEF Inv, TypeOK, Capped
<1> QED BY <1>1, <1>2, <1>3 DEF Inv, RevocationHolds, ExpiryExact

\* So does time that passes.
LEMMA QuietKeeps ==
    ASSUME Inv, UNCHANGED <<store, request, issued, expiry, served, used, late, revoked>>, now' \in Nat
    PROVE  Inv'
BY DEF Inv, TypeOK, Pending, RevocationHolds, ExpiryExact

\* Every step keeps the invariant.
LEMMA NextInv == Inv /\ [Next]_vars => Inv'
<1> SUFFICES ASSUME Inv, [Next]_vars PROVE Inv'
  OBVIOUS
<1>1. CASE Tick
  BY <1>1, QuietKeeps DEF Tick, history, Inv, TypeOK
<1>2. CASE Fetches
  BY <1>2, FetchKeeps DEF Fetches
<1>3. CASE Creates
  BY <1>3, CreateKeeps DEF Creates
<1>4. CASE Limitings
  BY <1>4, UpdateKeeps DEF Limitings, Actions
<1>5. CASE OtherUpdates
  BY <1>5, UpdateKeeps DEF OtherUpdates, Actions
<1>6. CASE \E r \in Requests : PutLands(r)
  BY <1>6, PutLandsKeeps
<1>7. CASE \E r \in Requests : PutFails(r)
  BY <1>7, PutFailsKeeps
<1>8. CASE UNCHANGED vars
  BY <1>8, QuietKeeps DEF vars, Inv, TypeOK
<1> QED BY <1>1, <1>2, <1>3, <1>4, <1>5, <1>6, <1>7, <1>8 DEF Next

\* Hence it always holds.
LEMMA Invariance == Spec => []Inv
BY InitInv, NextInv, PTL DEF Spec

-----------------------------------------------------------------------------
\* However requests overlap, every list is typed and none outgrows MAX_PROFILES,
\* so normaliseProfiles never cuts off a link (linkCreate's cap).
THEOREM ProfilesTypeCorrect == Spec => []TypeOK
BY Invariance, PTL DEF Inv

\* No overlap of requests and no refused call lets a link be served at or after the
\* expiry it was created with (profileStatus).
THEOREM ExpiryIsExact == Spec => []ExpiryExact
BY Invariance, PTL DEF Inv

\* The stored request count of a link never exceeds the fetches served for it
\* (recordUse and shouldPersistUse).
THEOREM CountIsALowerBound == Spec => []CountIsLowerBound
<1>1. Inv => CountIsLowerBound
  BY DEF Inv, Sound, CountIsLowerBound
<1> QED BY <1>1, Invariance, PTL

\* A revocation that was put is undone only by the operator, or by a request that
\* had read the list before it (linkUpdate and resolveProfileRequest).
THEOREM RevocationHoldsWhileSeen == Spec => []RevocationHolds
BY Invariance, PTL DEF Inv

-----------------------------------------------------------------------------
(***************************************************************************)
(* Quiet deployments.  There is one request at most.  Its list leaves no   *)
(* limited link with fewer uses counted than were served while limited, or *)
(* with more than its limit; while it is under way the list stored may be  *)
(* one use behind, but is within its limits all the same.                  *)
(***************************************************************************)
UsedAfter(q, counts) ==
    IF q.op \in {"limit", "reset-count"} THEN [counts EXCEPT ![q.token] = 0] ELSE counts

Within(list, counts) ==
    \A t \in Tokens : list[t] # None /\ list[t].limit # None =>
        counts[t] <= list[t].requests /\ counts[t] <= list[t].limit

\* The only link of list the request q is about to take away is the one it deletes.
Keeps(list, q) ==
    \A t \in Tokens : list[t] # None /\ q.list[t] = None => q.op = "delete" /\ q.token = t

Nobody == \A r \in Requests : request[r] = None

Single == \A r, q \in Requests : request[r] # None /\ request[q] # None => r = q

Calm ==
    /\ Single /\ LimitEnforced
    /\ Nobody => Within(store, used)
    /\ \A r \in Requests : request[r] # None =>
         Within(request[r].list, UsedAfter(request[r], used)) /\ Keeps(store, request[r])
    /\ \A t \in Tokens \ issued : used[t] = 0

\* At first all that was served is stored.
LEMMA InitialCalm == Init => Calm
BY DEF Init, Calm, Single, LimitEnforced, Nobody, Within, EmptyList

\* With no other request under way, a request starts one.
LEMMA StartKeepsCalm ==
    ASSUME Inv, Calm, Nobody, NEW r \in Requests, NEW put,
           request' = [request EXCEPT ![r] = put], store' = store,
           LimitEnforced', Within(put.list, UsedAfter(put, used')), Keeps(store, put),
           put # None, \A t \in Tokens \ issued' : used'[t] = 0
    PROVE  Calm'
<1>1. request'[r] = put /\ \A q \in Requests \ {r} : request'[q] = None
  BY DEF Nobody, Inv, TypeOK
<1>2. Single' /\ ~Nobody'
  BY <1>1 DEF Single, Nobody
<1>3. \A q \in Requests : request'[q] # None =>
         Within(request'[q].list, UsedAfter(request'[q], used')) /\ Keeps(store', request'[q])
  BY <1>1
<1> QED BY <1>2, <1>3 DEF Calm

\* A link served while nobody else is under way is one use ahead of what is stored.
LEMMA QuietFetchKeepsCalm ==
    ASSUME Inv, Calm, Nobody, NEW r \in Requests, NEW t \in Tokens, Fetch(r, t)
    PROVE  Calm'
<1> DEFINE profile == store[t]
           counted == Counted(profile)
           next == RecordUse(store, t)
           put == [op |-> "fetch", token |-> t, list |-> next, knew |-> revoked]
<1>1. /\ profile # None /\ Status(profile, now) = "active"
      /\ used' = IF profile.limit = None THEN used ELSE [used EXCEPT ![t] = @ + 1]
      /\ IF ShouldPersistUse(profile) THEN WillPut(r, "fetch", t, next) ELSE UNCHANGED request
      /\ UNCHANGED <<store, now, issued, expiry, revoked>>
  <2>1. PICK list \in Readable :
          /\ Resolves(list, t)
          /\ used' = IF list[t].limit = None THEN used ELSE [used EXCEPT ![t] = @ + 1]
          /\ IF ShouldPersistUse(list[t])
               THEN WillPut(r, "fetch", t, RecordUse(list, t)) ELSE UNCHANGED request
          /\ UNCHANGED <<store, now, issued, expiry, revoked>>
    BY DEF Fetch
  <2>2. list = store
    BY <2>1 DEF Readable, Resolves, EmptyList
  <2> QED BY <2>1, <2>2 DEF Resolves
<1>2. profile \in Profile /\ counted \in Profile /\ counted # None
  BY <1>1, CountedFacts DEF Inv, TypeOK, Lists
<1>3. counted.requests = profile.requests + 1 /\ counted.limit = profile.limit
  BY <1>2 DEF Counted, Profile
<1>4. /\ profile.requests \in Nat /\ used \in [Tokens -> Nat]
      /\ profile.limit # None => profile.limit \in Nat
  BY <1>2, ProfilesAssumption DEF Profile, Inv, TypeOK
<1>5. profile.limit # None => profile.requests < profile.limit
  BY <1>1, <1>4 DEF Status, Exhausted
<1>6. Within(store, used)
  BY DEF Calm
<1>7. profile.limit # None => used[t] <= profile.requests /\ used'[t] = used[t] + 1
  BY <1>1, <1>4, <1>6 DEF Within
<1>8. \A u \in Tokens : u # t \/ profile.limit = None => used'[u] = used[u]
  BY <1>1, <1>4
<1>9. \A u \in Tokens \ issued' : used'[u] = 0
  <2>1. t \in issued
    BY <1>1 DEF Inv, Sound
  <2> QED BY <2>1, <1>1, <1>8 DEF Calm
<1>10. next = [store EXCEPT ![t] = counted]
  BY DEF RecordUse
<1>11. next[t] = counted /\ \A u \in Tokens : u # t => next[u] = store[u]
  BY <1>10 DEF Inv, TypeOK, Lists
<1> HIDE DEF profile, counted, next
<1>12. LimitEnforced'
  <2> SUFFICES ASSUME NEW u \in Tokens, store[u] # None, store[u].limit # None
               PROVE  used'[u] <= store[u].limit
    BY <1>1 DEF LimitEnforced
  <2>1. CASE u = t
    BY <2>1, <1>4, <1>5, <1>7 DEF profile
  <2>2. CASE u # t
    BY <2>2, <1>8 DEF Calm, LimitEnforced
  <2> QED BY <2>1, <2>2
<1>13. CASE ShouldPersistUse(profile)
  <2>1. Within(next, used')
    <3> SUFFICES ASSUME NEW u \in Tokens, next[u] # None, next[u].limit # None
                 PROVE  used'[u] <= next[u].requests /\ used'[u] <= next[u].limit
      BY DEF Within
    <3>1. CASE u = t
      BY <3>1, <1>3, <1>4, <1>5, <1>7, <1>11
    <3>2. CASE u # t
      BY <3>2, <1>6, <1>8, <1>11 DEF Within
    <3> QED BY <3>1, <3>2
  <2>2. put.list = next /\ UsedAfter(put, used') = used'
    BY DEF UsedAfter
  <2>3. Keeps(store, put)
    BY <2>2, <1>2, <1>11 DEF Keeps
  <2>4. request' = [request EXCEPT ![r] = put]
    BY <1>1, <1>13 DEF WillPut
  <2>5. put # None
    <3>1. put \in PendingPut
      <4>1. next \in Lists
        BY <1>2, <1>10 DEF Inv, TypeOK, Lists
      <4> QED BY <4>1 DEF PendingPut, Operations, Inv, TypeOK
    <3> QED BY <3>1, NoneAssumption
  <2> HIDE DEF put
  <2> QED BY <2>1, <2>2, <2>3, <2>4, <2>5, <1>1, <1>9, <1>12, StartKeepsCalm
<1>14. CASE ~ShouldPersistUse(profile)
  <2>1. request' = request /\ profile.limit = None
    BY <1>1, <1>14 DEF ShouldPersistUse
  <2>2. used' = used
    BY <1>1, <2>1
  <2> QED BY <2>1, <2>2, <1>1, <1>9, <1>12 DEF Calm, Nobody, Single
<1> QED BY <1>13, <1>14

\* A link issued while nobody else is under way drops none that was stored.
LEMMA QuietCreateKeepsCalm ==
    ASSUME Inv, Calm, Nobody, NEW r \in Requests, NEW t \in Tokens,
           NEW lifetime \in Lifetimes, NEW limit \in Limits, Create(r, t, lifetime, limit),
           \A q \in Requests : request'[q] # None /\ request'[q].op = "create" =>
              Listed(store) \subseteq Listed(request'[q].list)
    PROVE  Calm'
<1> DEFINE profile == NewProfile(lifetime, limit)
<1>1. PICK list \in Readable :
        /\ t \notin issued /\ issued' = issued \cup {t}
        /\ WillPut(r, "create", t, [list EXCEPT ![t] = profile])
        /\ UNCHANGED <<store, served, used, revoked>>
  BY DEF Create
<1> DEFINE next == [list EXCEPT ![t] = profile]
           put == [op |-> "create", token |-> t, list |-> next, knew |-> revoked]
<1>2. profile.requests = 0 /\ profile.limit = limit
  BY DEF NewProfile
<1>3. profile \in Profile /\ profile # None
  <2>1. now \in Nat
    BY DEF Inv, TypeOK
  <2>2. (IF lifetime = None THEN None ELSE now + lifetime) \in Nat \cup {None}
    BY <2>1, ProfilesAssumption
  <2>3. profile \in Profile
    BY <2>2 DEF NewProfile, Profile
  <2> QED BY <2>3, NoneAssumption
<1> HIDE DEF profile
<1>4. list \in Lists
  BY ReadableFacts
<1>5. next \in Lists /\ next[t] = profile /\ \A u \in Tokens : u # t => next[u] = list[u]
  BY <1>3, <1>4 DEF Lists
<1> HIDE DEF next
<1>6. put \in PendingPut /\ put.list = next /\ put.op = "create"
  BY <1>5 DEF PendingPut, Operations, Inv, TypeOK
<1>7. put # None /\ UsedAfter(put, used') = used'
  BY <1>6, NoneAssumption DEF UsedAfter
<1>8. request' = [request EXCEPT ![r] = put]
  BY <1>1 DEF WillPut, next
<1> HIDE DEF put
<1>9. Listed(store) \subseteq Listed(next)
  <2>1. request'[r] = put
    BY <1>8 DEF Inv, TypeOK
  <2> QED BY <2>1, <1>6, <1>7
<1>10. \A u \in Tokens \ {t} : store[u] = next[u]
  <2>1. CASE list = store
    BY <2>1, <1>5
  <2>2. CASE list = EmptyList
    BY <2>2, <1>5, <1>9 DEF EmptyList, Listed
  <2> QED BY <2>1, <2>2 DEF Readable
<1>11. Within(store, used) /\ used[t] = 0
  BY <1>1 DEF Calm
<1>12. Within(next, used')
  <2> SUFFICES ASSUME NEW u \in Tokens, next[u] # None, next[u].limit # None
               PROVE  used[u] <= next[u].requests /\ used[u] <= next[u].limit
    BY <1>1 DEF Within
  <2>1. CASE u = t
    BY <2>1, <1>2, <1>5, <1>11, ProfilesAssumption
  <2>2. CASE u # t
    BY <2>2, <1>10, <1>11 DEF Within
  <2> QED BY <2>1, <2>2
<1>13. Keeps(store, put)
  BY <1>3, <1>5, <1>6, <1>10 DEF Keeps
<1>14. LimitEnforced' /\ \A u \in Tokens \ issued' : used'[u] = 0
  BY <1>1 DEF Calm, LimitEnforced
<1> QED BY <1>1, <1>6, <1>7, <1>8, <1>12, <1>13, <1>14, StartKeepsCalm

\* A link changed while nobody else is under way keeps its uses.
LEMMA QuietUpdateKeepsCalm ==
    ASSUME Inv, Calm, Nobody, NEW r \in Requests, NEW t \in Tokens, NEW action \in Actions,
           NEW limit \in Limits \cup {None}, action = "limit" => limit \in Limits,
           Update(r, t, action, limit)
    PROVE  Calm'
<1> DEFINE next == Updated(store, t, action, limit)
           put == [op |-> action, token |-> t, list |-> next, knew |-> revoked]
<1>1. store[t] # None /\ WillPut(r, action, t, next) /\ UNCHANGED <<store, issued, used, revoked>>
  <2>1. PICK list \in Readable :
          list[t] # None /\ WillPut(r, action, t, Updated(list, t, action, limit))
          /\ UNCHANGED <<store, now, history>>
    BY DEF Update
  <2>2. list = store
    BY <2>1 DEF Readable, EmptyList
  <2> QED BY <2>1, <2>2 DEF history
<1>2. store \in Lists /\ store[t] \in Profile
  BY <1>1 DEF Inv, TypeOK, Lists
<1>3. next \in Lists /\ \A u \in Tokens : u # t => next[u] = store[u]
  BY <1>1, <1>2, UpdatedFacts
<1>4. /\ action # "delete" => next[t] # None
      /\ action \in {"enable", "disable"} =>
           next[t].requests = store[t].requests /\ next[t].limit = store[t].limit
  <2> DEFINE profile == store[t]
             entry == CASE action = "delete" -> None
                        [] action = "limit" -> [profile EXCEPT !.limit = limit]
                        [] action = "reset-count" -> [profile EXCEPT !.requests = 0]
                        [] OTHER -> [profile EXCEPT !.enabled = (action = "enable")]
  <2>1. next = [store EXCEPT ![t] = entry]
    BY DEF Updated
  <2>2. next[t] = entry
    <3> HIDE DEF entry
    <3> QED BY <2>1, <1>2 DEF Lists
  <2> HIDE DEF next
  <2>3. CASE action = "delete"
    BY <2>3
  <2>4. CASE action = "limit"
    <3>1. entry = [profile EXCEPT !.limit = limit]
      BY <2>4
    <3>2. entry \in Profile
      BY <2>4, <3>1, <1>2 DEF Profile
    <3> QED BY <2>2, <2>4, <3>2, NoneAssumption
  <2>5. CASE action = "reset-count"
    <3>1. entry = [profile EXCEPT !.requests = 0]
      BY <2>5
    <3>2. entry \in Profile
      BY <3>1, <1>2 DEF Profile
    <3> QED BY <2>2, <2>5, <3>2, NoneAssumption
  <2>6. CASE action \in {"enable", "disable"}
    <3>1. entry = [profile EXCEPT !.enabled = (action = "enable")]
      BY <2>6
    <3> HIDE DEF entry, profile
    <3>2. profile \in Profile
      BY <1>2 DEF profile
    <3>3. entry \in Profile /\ entry.requests = profile.requests /\ entry.limit = profile.limit
      BY <3>1, <3>2 DEF Profile
    <3> QED BY <2>2, <2>6, <3>3, NoneAssumption DEF profile
  <2> QED BY <2>3, <2>4, <2>5, <2>6 DEF Actions
<1>5. next[t] # None /\ next[t].limit # None => next[t].requests \in Nat /\ next[t].limit \in Nat
  <2>1. next[t] # None => next[t] \in Profile
    BY <1>3 DEF Lists
  <2> QED BY <2>1, ProfilesAssumption DEF Profile
<1> HIDE DEF next
<1>6. put \in PendingPut /\ put.list = next /\ put.op = action /\ put.token = t
  BY <1>3 DEF PendingPut, Operations, Inv, TypeOK
<1>7. put # None
  BY <1>6, NoneAssumption
<1>8. request' = [request EXCEPT ![r] = put]
  BY <1>1 DEF WillPut
<1> HIDE DEF put
<1>9. Within(store, used) /\ used \in [Tokens -> Nat]
  BY DEF Calm, Inv, TypeOK
<1>10. Within(next, UsedAfter(put, used))
  <2> DEFINE after == UsedAfter(put, used)
  <2>1. /\ \A u \in Tokens \ {t} : after[u] = used[u]
        /\ after[t] = IF action \in {"limit", "reset-count"} THEN 0 ELSE used[t]
    BY <1>6, <1>9 DEF UsedAfter
  <2> HIDE DEF after
  <2> SUFFICES ASSUME NEW u \in Tokens, next[u] # None, next[u].limit # None
               PROVE  after[u] <= next[u].requests /\ after[u] <= next[u].limit
    BY DEF Within, after
  <2>2. CASE u # t
    BY <2>1, <2>2, <1>3, <1>9 DEF Within
  <2>3. CASE u = t /\ action \in {"limit", "reset-count"}
    BY <2>1, <2>3, <1>5
  <2>4. CASE u = t /\ action \in {"enable", "disable"}
    BY <2>1, <2>4, <1>1, <1>4, <1>9 DEF Within
  <2>5. CASE u = t /\ action = "delete"
    <3>1. next[t] = None
      BY <2>5, <1>1, <1>2 DEF Updated, Lists, next
    <3> QED BY <2>5, <3>1
  <2> QED BY <2>2, <2>3, <2>4, <2>5 DEF Actions
<1>11. Keeps(store, put)
  BY <1>3, <1>4, <1>6 DEF Keeps
<1>12. LimitEnforced' /\ \A u \in Tokens \ issued' : used'[u] = 0
  BY <1>1 DEF Calm, LimitEnforced
<1> QED BY <1>1, <1>6, <1>7, <1>8, <1>10, <1>11, <1>12, StartKeepsCalm

\* A put that lands makes up for what is ahead.
LEMMA QuietPutKeepsCalm ==
    ASSUME Inv, Calm, NEW r \in Requests, PutLands(r)
    PROVE  Calm'
<1> DEFINE q == request[r]
<1>1. /\ q # None /\ q \in PendingPut /\ store' = q.list /\ used' = UsedAfter(q, used)
      /\ request' = [request EXCEPT ![r] = None] /\ issued' = issued
  BY DEF PutLands, Finish, UsedAfter, Inv, TypeOK
<1>2. Within(q.list, UsedAfter(q, used))
  BY <1>1 DEF Calm
<1>3. \A p \in Requests : request'[p] = None
  BY <1>1 DEF Calm, Single, Inv, TypeOK
<1>4. q.token \in Tokens /\ used \in [Tokens -> Nat]
  BY <1>1 DEF PendingPut, Inv, TypeOK
<1> HIDE DEF q
<1>5. LimitEnforced' /\ Within(store', used')
  BY <1>1, <1>2 DEF LimitEnforced, Within
<1>6. \A t \in Tokens \ issued' : used'[t] = 0
  BY <1>1, <1>4 DEF Calm, UsedAfter
<1> QED BY <1>3, <1>5, <1>6 DEF Calm, Single

\* Every step of a quiet deployment keeps it calm.
LEMMA QuietKeepsCalm == Inv /\ Calm /\ QuietStep => Calm'
<1> SUFFICES ASSUME Inv, Calm, QuietStep PROVE Calm'
  OBVIOUS
<1>1. CASE Tick
  BY <1>1 DEF Tick, history, Calm, Single, Nobody, LimitEnforced
<1>2. CASE \E r \in Requests : PutLands(r)
  BY <1>2, QuietPutKeepsCalm
<1>3. CASE /\ Nobody
           /\ Fetches \/ Creates \/ Limitings \/ OtherUpdates
           /\ \A r \in Requests : request'[r] # None /\ request'[r].op = "create" =>
                Listed(store) \subseteq Listed(request'[r].list)
  <2>1. CASE Fetches
    BY <1>3, <2>1, QuietFetchKeepsCalm DEF Fetches
  <2>2. CASE Creates
    BY <1>3, <2>2, QuietCreateKeepsCalm DEF Creates
  <2>3. CASE Limitings
    BY <1>3, <2>3, QuietUpdateKeepsCalm DEF Limitings, Actions
  <2>4. CASE OtherUpdates
    BY <1>3, <2>4, QuietUpdateKeepsCalm DEF OtherUpdates, Actions
  <2> QED BY <1>3, <2>1, <2>2, <2>3, <2>4
<1> QED BY <1>1, <1>2, <1>3 DEF QuietStep, Nobody

\* Every step of a quiet or a busy deployment is one of Profiles.
LEMMA MCStepIsStep == MCNext => [Next]_vars
BY DEF MCNext, QuietStep, BusyStep, Next

\* Hence both invariants always hold.
LEMMA MCInvariance == MCSpec => [](Inv /\ (quiet => Calm))
<1> DEFINE MCInv == Inv /\ (quiet => Calm)
<1>1. MCInit => MCInv
  BY InitInv, InitialCalm DEF MCInit
<1>2. MCInv /\ [MCNext]_<<vars, quiet>> => MCInv'
  <2> SUFFICES ASSUME MCInv, [MCNext]_<<vars, quiet>> PROVE MCInv'
    OBVIOUS
  <2>1. CASE UNCHANGED <<vars, quiet>>
    <3>1. Inv'
      BY <2>1, NextInv
    <3> QED BY <2>1, <3>1 DEF vars, Calm, Single, Nobody, LimitEnforced
  <2>2. CASE MCNext
    <3>1. Inv'
      BY <2>2, MCStepIsStep, NextInv
    <3>2. quiet' => Calm'
      BY <2>2, QuietKeepsCalm DEF MCNext
    <3> QED BY <3>1, <3>2
  <2> QED BY <2>1, <2>2
<1> QED BY <1>1, <1>2, PTL DEF MCSpec

\* Where requests do not overlap and KV answers, a limited link is served no more often
\* than its limit allows since the limit was set or renewed (resolveProfileRequest puts
\* every use of a limited link: shouldPersistUse).
THEOREM QuietLimitsHold == MCSpec => []QuietLimits
<1>1. (quiet => Calm) => QuietLimits
  BY DEF Calm, QuietLimits
<1> QED BY <1>1, MCInvariance, PTL

\* There, a stored link goes only when the operator deletes it, although every request
\* that is recorded puts the whole list again (recordUse, linkCreate, linkUpdate).
THEOREM QuietLinksAreKept == MCSpec => QuietLinksKept
<1> DEFINE Kept == quiet => \A t \in Tokens : store[t] # None /\ store'[t] = None =>
                     \E r \in Requests :
                        request[r] # None /\ request[r].op = "delete" /\ request[r].token = t
<1>1. Inv /\ (quiet => Calm) /\ [MCNext]_<<vars, quiet>> => [Kept]_<<vars, quiet>>
  <2> SUFFICES ASSUME Inv, quiet, Calm, QuietStep,
                      NEW t \in Tokens, store[t] # None, store'[t] = None
               PROVE  \E r \in Requests :
                        request[r] # None /\ request[r].op = "delete" /\ request[r].token = t
    BY DEF MCNext
  <2>1. PICK r \in Requests : PutLands(r)
    <3>1. Tick \/ Fetches \/ Creates \/ Limitings \/ OtherUpdates => store' = store
      BY DEF Tick, Fetches, Fetch, Creates, Create, Limitings, OtherUpdates, Update
    <3> QED BY <3>1 DEF QuietStep
  <2>2. request[r] # None /\ store' = request[r].list
    BY <2>1 DEF PutLands
  <2>3. Keeps(store, request[r])
    BY <2>2 DEF Calm
  <2> QED BY <2>2, <2>3 DEF Keeps
<1> QED BY <1>1, MCInvariance, PTL DEF MCSpec, QuietLinksKept

-----------------------------------------------------------------------------
(***************************************************************************)
(* PlatformDocument: what createDocument does to one document.             *)
(***************************************************************************)
\* The list operations of the repositories stay within the retention bound.
LEMMA PrependBounded ==
    ASSUME NEW doc \in Documents, NEW e \in Entries
    PROVE  Prepend(doc, e) \in Documents
<1> DEFINE long == <<e>> \o doc
           n    == IF Len(doc) < Retain THEN Len(doc) + 1 ELSE Retain
<1>1. doc \in Seq(Entries) /\ Len(doc) \in Nat /\ Len(doc) <= Retain
      /\ Retain \in Nat \ {0}
  BY UpdatesAssumption DEF Documents
<1>2. long \in Seq(Entries) /\ Len(long) = Len(doc) + 1
  BY <1>1
<1>3. n \in Nat /\ n <= Retain /\ 1 <= n /\ n <= Len(long)
  BY <1>1, <1>2
<1>4. SubSeq(long, 1, n) \in Seq(Entries) /\ Len(SubSeq(long, 1, n)) = n
  <2> HIDE DEF long, n
  <2> QED BY <1>2, <1>3
<1> QED BY <1>3, <1>4 DEF Prepend, Documents

\* An update of a document gives a document.
LEMMA MutateBounded ==
    ASSUME NEW doc \in Documents, NEW u \in Updates
    PROVE  Mutate(doc, u) \in Documents
<1>1. Empty \in Documents
  BY UpdatesAssumption DEF Empty, Documents
<1>2. u \in Entries
  BY DEF Entries
<1> QED BY <1>1, <1>2, PrependBounded DEF Mutate

\* Undefined is not a document.
LEMMA NoneIsNoDocument == Undefined \notin Documents /\ Empty \in Documents
BY UpdatesAssumption DEF Documents, Entries, Empty

-----------------------------------------------------------------------------
(***************************************************************************)
(* The chain.                                                              *)
(***************************************************************************)
Elements(q) == {q[i] : i \in 1..Len(q)}
Distinct(q) == \A i, j \in 1..Len(q) : q[i] = q[j] => i = j

\* What is at the end of a queue that was not in it before.
LEMMA AppendFacts ==
    ASSUME NEW S, NEW q \in Seq(S), NEW u \in S, u \notin Elements(q), Distinct(q)
    PROVE  /\ Append(q, u) \in Seq(S)
           /\ Elements(Append(q, u)) = Elements(q) \cup {u}
           /\ Distinct(Append(q, u))
           /\ Append(q, u) # <<>>
           /\ q # <<>> => Head(Append(q, u)) = Head(q)
<1> DEFINE a == Append(q, u)
<1>1. a \in Seq(S) /\ Len(a) = Len(q) + 1 /\ Len(q) \in Nat
  OBVIOUS
<1>2. \A i \in 1..Len(q) : a[i] = q[i]
  OBVIOUS
<1>3. a[Len(q) + 1] = u
  OBVIOUS
<1>4. Head(a) = a[1]
  OBVIOUS
<1>5. q # <<>> => Head(q) = q[1] /\ 1 \in 1..Len(q)
  OBVIOUS
<1> HIDE DEF a
<1>6. Elements(a) = Elements(q) \cup {u}
  BY <1>1, <1>2, <1>3 DEF Elements
<1>7. Distinct(a)
  BY <1>1, <1>2, <1>3 DEF Distinct, Elements
<1>8. a # <<>>
  BY <1>1
<1> QED BY <1>1, <1>2, <1>4, <1>5, <1>6, <1>7, <1>8 DEF a

\* What is left of a queue without repetitions when its head is taken.
LEMMA TailFacts ==
    ASSUME NEW S, NEW q \in Seq(S), q # <<>>, Distinct(q)
    PROVE  /\ Head(q) \in S
           /\ Tail(q) \in Seq(S)
           /\ Elements(Tail(q)) = Elements(q) \ {Head(q)}
           /\ Distinct(Tail(q))
           /\ Head(q) \in Elements(q)
<1> DEFINE t == Tail(q)
<1>1. t \in Seq(S) /\ Len(t) = Len(q) - 1 /\ Len(q) \in Nat \ {0}
  OBVIOUS
<1>2. \A i \in 1..(Len(q) - 1) : t[i] = q[i + 1]
  OBVIOUS
<1>3. Head(q) = q[1] /\ q[1] \in S
  OBVIOUS
<1> HIDE DEF t
<1>4. \A i \in 2..Len(q) : i - 1 \in 1..(Len(q) - 1) /\ q[i] = t[i - 1]
  BY <1>1, <1>2
<1>5. Elements(t) = Elements(q) \ {q[1]}
  <2>1. ASSUME NEW x \in Elements(t) PROVE x \in Elements(q) /\ x # q[1]
    BY <1>1, <1>2, <2>1 DEF Elements, Distinct
  <2>2. ASSUME NEW x \in Elements(q), x # q[1] PROVE x \in Elements(t)
    BY <1>1, <1>4, <2>2 DEF Elements
  <2> QED BY <2>1, <2>2
<1>6. Distinct(t)
  BY <1>1, <1>2 DEF Distinct
<1>7. q[1] \in Elements(q)
  BY <1>1 DEF Elements
<1> QED BY <1>1, <1>3, <1>5, <1>6, <1>7 DEF t

-----------------------------------------------------------------------------
(***************************************************************************)
(* DTypeOK and Chain.                                                       *)
(***************************************************************************)
Structure == DTypeOK /\ Chain

\* A repository that has just been made has nothing queued.
LEMMA InitStructure == DInit => Structure
<1> SUFFICES ASSUME DInit PROVE Structure
  OBVIOUS
<1>1. \A o \in Others : <<o>> \in Documents
  BY UpdatesAssumption DEF Documents, Entries
<1>2. DTypeOK
  <2>1. stored \in Documents
    BY <1>1, NoneIsNoDocument DEF DInit
  <2>2. queue \in Seq(Updates)
    BY DEF DInit
  <2> QED BY <2>1, <2>2 DEF DInit, DTypeOK
<1>3. Chain
  BY DEF DInit, Chain, InQueue, Applied, Calls
<1> QED BY <1>2, <1>3 DEF Structure

\* A link settles: it leaves the chain, and nothing else in it changes.
LEMMA SettleStructure ==
    ASSUME Structure, NEW u \in Updates, NEW base \in Documents,
           pc[u] \in {"queued", "loading"}, IsNext(u), Settle(u, base),
           UNCHANGED <<stored, waiting, hand, inHand, written, covered>>
    PROVE  /\ Structure'
           /\ cached' \in Documents
           /\ InQueue' = InQueue \ {u}
           /\ Applied' \cup Rejected' = Applied \cup Rejected \cup {u}
           /\ Applied \subseteq Applied'
           /\ Rejected \subseteq Rejected'
           /\ \A v \in Updates : pc'[v] # "loading"
           /\ \A c \in Calls \ {u} : pc'[c] = pc[c]
           /\ Applied' # Applied => dirty'
           /\ dirty => dirty'
<1> USE DEF Structure
<1>0. u \in Calls /\ Flushers \subseteq Calls /\ u \notin Flushers /\ Updates \subseteq Calls
  BY CallsAssumption DEF Calls
<1>1. /\ queue' = Tail(queue)
      /\ cached' \in Documents
      /\ dirty' \in BOOLEAN
      /\ pc' \in [Calls -> {"idle", "queued", "loading", "applied", "rejected",
                            "done", "draining", "putting", "clean", "wrote", "failed"}]
      /\ pc'[u] \in {"applied", "rejected"}
      /\ pc'[u] = "applied" => dirty'
      /\ dirty => dirty'
      /\ \A c \in Calls \ {u} : pc'[c] = pc[c]
  <2>1. Mutate(base, u) \in Documents
    BY MutateBounded
  <2>2. dirty \in BOOLEAN
        /\ pc \in [Calls -> {"idle", "queued", "loading", "applied", "rejected",
                            "done", "draining", "putting", "clean", "wrote", "failed"}]
    BY DEF DTypeOK
  <2>3. CASE Throws(u)
    BY <1>0, <2>2, <2>3 DEF Settle, GoTo
  <2>4. CASE ~Throws(u)
    BY <1>0, <2>1, <2>2, <2>4 DEF Settle, GoTo
  <2> QED BY <2>3, <2>4
<1>2. queue \in Seq(Updates) /\ queue # <<>> /\ u = Head(queue) /\ Distinct(queue)
  BY DEF IsNext, DTypeOK, Chain, Distinct
<1>3. /\ queue' \in Seq(Updates)
      /\ InQueue' = InQueue \ {u}
      /\ Distinct(queue')
  <2>1. /\ Tail(queue) \in Seq(Updates)
        /\ Elements(Tail(queue)) = Elements(queue) \ {u}
        /\ Distinct(Tail(queue))
    BY <1>2, TailFacts
  <2>2. InQueue = Elements(queue) /\ InQueue' = Elements(queue')
    BY DEF InQueue, Elements
  <2> QED BY <1>1, <2>1, <2>2
<1>4. DTypeOK'
  BY <1>1, <1>3 DEF DTypeOK
<1>5. \A v \in Updates \ {u} : pc[v] # "loading"
  BY DEF Chain, IsNext
<1>6. Chain'
  <2>1. (\A v \in Updates : pc[v] \in {"queued", "loading"} <=> v \in InQueue)'
    BY <1>0, <1>1, <1>3 DEF Chain
  <2>2. (\A v \in Updates : pc[v] = "loading" => IsNext(v))'
    BY <1>0, <1>1, <1>5
  <2>3. (Applied # {} => cached # Undefined)'
    BY <1>1, NoneIsNoDocument
  <2>4. (\A f \in Flushers : pc[f] = "putting" => hand[f] \in Documents)'
    BY <1>0, <1>1 DEF Chain
  <2> QED BY <2>1, <2>2, <2>3, <2>4, <1>3 DEF Chain, Distinct
<1>7. /\ Applied' \cup Rejected' = Applied \cup Rejected \cup {u}
      /\ Applied \subseteq Applied' /\ Rejected \subseteq Rejected'
      /\ Applied' # Applied => dirty'
  BY <1>0, <1>1 DEF Applied, Rejected
<1> QED BY <1>0, <1>1, <1>3, <1>4, <1>5, <1>6, <1>7

\* What a load may answer is a document.
LEMMA LoadableType == DTypeOK => Loadable \subseteq Documents
BY NoneIsNoDocument DEF DTypeOK, Loadable

\* Every step keeps the queue, its head and the statuses together.
LEMMA StepStructure == Structure /\ [DNext]_documentVars => Structure'
<1> SUFFICES ASSUME Structure, [DNext]_documentVars PROVE Structure'
  OBVIOUS
<1> USE DEF Structure
<1>0. /\ Updates \subseteq Calls /\ Readers \subseteq Calls /\ Flushers \subseteq Calls
      /\ Updates \cap Readers = {} /\ Updates \cap Flushers = {} /\ Readers \cap Flushers = {}
      /\ InQueue \subseteq Updates /\ Applied \subseteq Updates
      /\ Loadable \subseteq Documents
  BY CallsAssumption, LoadableType DEF Calls, InQueue, Applied, DTypeOK
<1>1. ASSUME NEW u \in Updates, CallUpdate(u) PROVE Structure'
  <2>1. queue \in Seq(Updates) /\ Distinct(queue) /\ u \notin Elements(queue)
    BY <1>1 DEF DTypeOK, Chain, Distinct, InQueue, Elements, CallUpdate
  <2>2. /\ queue' \in Seq(Updates)
        /\ InQueue' = InQueue \cup {u}
        /\ Distinct(queue)'
        /\ queue' # <<>>
        /\ queue # <<>> => Head(queue') = Head(queue)
    BY <1>1, <2>1, AppendFacts DEF CallUpdate, InQueue, Elements, Distinct
  <2>3. DTypeOK'
    BY <1>0, <1>1, <2>2 DEF DTypeOK, CallUpdate, GoTo
  <2>4. /\ pc'[u] = "queued"
        /\ \A c \in Calls \ {u} : pc'[c] = pc[c]
        /\ Applied' = Applied
    BY <1>0, <1>1 DEF DTypeOK, CallUpdate, GoTo, Applied
  <2>5. (\A v \in Updates : pc[v] = "loading" => IsNext(v))'
    BY <1>0, <2>2, <2>4 DEF Chain, IsNext
  <2>6. (\A v \in Updates : pc[v] \in {"queued", "loading"} <=> v \in InQueue)'
    BY <1>0, <2>2, <2>4 DEF Chain
  <2>7. (Applied # {} => cached # Undefined)'
    BY <1>1, <2>4 DEF Chain, CallUpdate
  <2>8. (\A f \in Flushers : pc[f] = "putting" => hand[f] \in Documents)'
    BY <1>0, <1>1, <2>4 DEF Chain, CallUpdate
  <2> QED BY <2>2, <2>3, <2>5, <2>6, <2>7, <2>8 DEF Chain, Distinct
<1>2. ASSUME NEW u \in Updates, StartLoad(u) PROVE Structure'
  BY <1>0, <1>2 DEF DTypeOK, Chain, StartLoad, GoTo, IsNext, InQueue, Applied
<1>3. ASSUME NEW u \in Updates, Apply(u) PROVE Structure'
  <2>1. cached \in Documents
    BY <1>3 DEF Apply, DTypeOK
  <2> QED BY <1>3, <2>1, SettleStructure DEF Apply
<1>4. ASSUME NEW u \in Updates, LoadThenApply(u) PROVE Structure'
  <2>1. IsNext(u)
    BY <1>4 DEF LoadThenApply, Chain
  <2>2. PICK base \in Loadable : Settle(u, base)
    BY <1>4 DEF LoadThenApply
  <2> QED BY <1>0, <1>4, <2>1, <2>2, SettleStructure DEF LoadThenApply
<1>5. ASSUME NEW r \in Readers, CallRead(r) PROVE Structure'
  BY <1>0, <1>5 DEF DTypeOK, Chain, CallRead, GoTo, IsNext, InQueue, Applied
<1>6. ASSUME NEW r \in Readers, LoadThenRead(r) PROVE Structure'
  BY <1>0, <1>6, NoneIsNoDocument DEF DTypeOK, Chain, LoadThenRead, GoTo, IsNext, InQueue, Applied
<1>7. ASSUME NEW f \in Flushers, CallFlush(f) PROVE Structure'
  BY <1>0, <1>7 DEF DTypeOK, Chain, CallFlush, GoTo, IsNext, InQueue, Applied
<1>8. ASSUME NEW f \in Flushers, CheckDirty(f) PROVE Structure'
  <2>1. pc'[f] # "putting" \/ hand'[f] \in Documents
    BY <1>0, <1>8 DEF DTypeOK, CheckDirty, GoTo
  <2>2. /\ UNCHANGED <<stored, cached, dirty, queue, waiting, written, covered>>
        /\ pc' \in [Calls -> {"idle", "queued", "loading", "applied", "rejected",
                            "done", "draining", "putting", "clean", "wrote", "failed"}]
        /\ \A c \in Calls \ {f} : pc'[c] = pc[c]
        /\ hand' \in [Flushers -> Documents \cup {Undefined}]
        /\ inHand' \in [Flushers -> SUBSET Updates]
        /\ \A g \in Flushers \ {f} : hand'[g] = hand[g]
        /\ pc[f] = "draining" /\ pc'[f] \in {"clean", "putting"}
    BY <1>0, <1>8 DEF DTypeOK, CheckDirty, GoTo
  <2>3. DTypeOK'
    BY <2>2 DEF DTypeOK
  <2>4. Applied' = Applied /\ InQueue' = InQueue
    BY <1>0, <2>2 DEF Applied, InQueue
  <2>5. (\A u \in Updates : pc[u] = "loading" => IsNext(u))'
    BY <1>0, <2>2 DEF Chain, IsNext
  <2> QED BY <1>0, <2>1, <2>2, <2>3, <2>4, <2>5 DEF Chain
<1>9. ASSUME NEW f \in Flushers, FlushLands(f) PROVE Structure'
  <2>1. hand[f] \in Documents
    BY <1>9 DEF FlushLands, Chain
  <2>2. DTypeOK'
    BY <1>0, <1>9, <2>1 DEF DTypeOK, FlushLands, GoTo
  <2> QED BY <1>0, <1>9, <2>2 DEF DTypeOK, Chain, FlushLands, GoTo, IsNext, InQueue, Applied
<1>10. ASSUME NEW f \in Flushers, FlushFails(f) PROVE Structure'
  BY <1>0, <1>10 DEF DTypeOK, Chain, FlushFails, GoTo, IsNext, InQueue, Applied
<1>11. ASSUME NEW o \in Others, OtherWrites(o) PROVE Structure'
  <2>1. Prepend(stored, o) \in Documents
    BY PrependBounded DEF Entries, DTypeOK
  <2> QED BY <1>11, <2>1 DEF DTypeOK, Chain, OtherWrites, IsNext, InQueue, Applied
<1>12. CASE UNCHANGED documentVars
  BY <1>12 DEF documentVars, DTypeOK, Chain, IsNext, InQueue, Applied
<1> QED
  BY <1>1, <1>2, <1>3, <1>4, <1>5, <1>6, <1>7, <1>8, <1>9, <1>10, <1>11, <1>12 DEF DNext

\* repositories.ts: createDocument keeps its types whatever calls overlap, and no
\* list it caches or stores outgrows its retention bound.
THEOREM DocumentTypeCorrect == DSpec => []DTypeOK
<1>1. Structure => DTypeOK
  BY DEF Structure
<1> QED BY <1>1, InitStructure, StepStructure, PTL DEF DSpec



-----------------------------------------------------------------------------
(***************************************************************************)
(* One flush covers what was queued before it.                             *)
(***************************************************************************)
LEMMA InitOneFlush == DInit => OneFlush
BY CallsAssumption DEF DInit, OneFlush, Applied, Calls

\* With one flush, no step clears the dirty flag before it.
LEMMA StepOneFlush ==
    ASSUME \A f, g \in Flushers : f = g
    PROVE  Structure /\ OneFlush /\ [DNext]_documentVars => OneFlush'
<1> SUFFICES ASSUME Structure, OneFlush, [DNext]_documentVars PROVE OneFlush'
  OBVIOUS
<1>0. /\ Updates \subseteq Calls /\ Readers \subseteq Calls /\ Flushers \subseteq Calls
      /\ Updates \cap Readers = {} /\ Updates \cap Flushers = {} /\ Readers \cap Flushers = {}
      /\ InQueue \subseteq Updates /\ Applied \subseteq Updates
      /\ Loadable \subseteq Documents
      /\ DTypeOK /\ Chain
  BY CallsAssumption, LoadableType DEF Calls, InQueue, Applied, DTypeOK, Structure
<1>s. ASSUME NEW u \in Updates, NEW base \in Documents,
             pc[u] \in {"queued", "loading"}, IsNext(u), Settle(u, base),
             UNCHANGED <<stored, waiting, hand, inHand, written, covered>>
      PROVE  OneFlush'
  <2>1. /\ InQueue' = InQueue \ {u}
        /\ Applied' \cup Rejected' = Applied \cup Rejected \cup {u}
        /\ Applied \subseteq Applied' /\ Rejected \subseteq Rejected'
        /\ \A c \in Calls \ {u} : pc'[c] = pc[c]
        /\ Applied' # Applied => dirty'
        /\ dirty => dirty'
    BY <1>s, SettleStructure
  <2>2. \A f \in Flushers : pc'[f] = pc[f]
    BY <1>0, <2>1
  <2> QED BY <1>s, <2>1, <2>2 DEF OneFlush
<1>1. ASSUME NEW u \in Updates, CallUpdate(u) PROVE OneFlush'
  <2>1. \A f \in Flushers : pc'[f] = pc[f]
    BY <1>0, <1>1 DEF DTypeOK, CallUpdate, GoTo
  <2>2. Applied' = Applied /\ Rejected' = Rejected
    BY <1>0, <1>1 DEF DTypeOK, CallUpdate, GoTo, Applied, Rejected
  <2>3. InQueue \subseteq InQueue'
    BY <1>0, <1>1 DEF DTypeOK, CallUpdate, InQueue
  <2> QED BY <1>1, <2>1, <2>2, <2>3 DEF OneFlush, CallUpdate
<1>2. ASSUME NEW u \in Updates, StartLoad(u) PROVE OneFlush'
  <2>1. \A f \in Flushers : pc'[f] = pc[f]
    BY <1>0, <1>2 DEF DTypeOK, StartLoad, GoTo
  <2>2. Applied' = Applied /\ Rejected' = Rejected /\ InQueue' = InQueue
    BY <1>0, <1>2 DEF DTypeOK, StartLoad, GoTo, Applied, Rejected, InQueue
  <2> QED BY <1>2, <2>1, <2>2 DEF OneFlush, StartLoad
<1>3. ASSUME NEW u \in Updates, Apply(u) PROVE OneFlush'
  <2>1. cached \in Documents
    BY <1>0, <1>3 DEF Apply, DTypeOK
  <2> QED BY <1>3, <1>s, <2>1 DEF Apply
<1>4. ASSUME NEW u \in Updates, LoadThenApply(u) PROVE OneFlush'
  BY <1>0, <1>4, <1>s DEF LoadThenApply, Chain
<1>5. ASSUME NEW r \in Readers, CallRead(r) \/ LoadThenRead(r) PROVE OneFlush'
  <2>1. \A f \in Flushers : pc'[f] = pc[f]
    BY <1>0, <1>5 DEF DTypeOK, CallRead, LoadThenRead, GoTo
  <2>2. Applied' = Applied /\ Rejected' = Rejected /\ InQueue' = InQueue
    BY <1>0, <1>5 DEF DTypeOK, CallRead, LoadThenRead, GoTo, Applied, Rejected, InQueue
  <2> QED BY <1>5, <2>1, <2>2 DEF OneFlush, CallRead, LoadThenRead
<1>u. ASSUME NEW f \in Flushers, pc' = [pc EXCEPT ![f] = pc'[f]], UNCHANGED queue
      PROVE  Applied' = Applied /\ Rejected' = Rejected /\ InQueue' = InQueue
  BY <1>0, <1>u DEF DTypeOK, Applied, Rejected, InQueue
<1>7. ASSUME NEW f \in Flushers, CallFlush(f) PROVE OneFlush'
  <2>1. Applied' = Applied /\ Rejected' = Rejected /\ InQueue' = InQueue
    BY <1>0, <1>7, <1>u DEF DTypeOK, CallFlush, GoTo
  <2>2. covered'[f] = Applied \cup InQueue /\ waiting'[f] = InQueue /\ pc'[f] = "draining"
        /\ pc[f] = "idle"
    BY <1>0, <1>7 DEF DTypeOK, CallFlush, GoTo
  <2> QED BY <1>7, <2>1, <2>2 DEF OneFlush, CallFlush
<1>8. ASSUME NEW f \in Flushers, CheckDirty(f) PROVE OneFlush'
  <2>1. Applied' = Applied /\ Rejected' = Rejected /\ InQueue' = InQueue
    BY <1>0, <1>8, <1>u DEF DTypeOK, CheckDirty, GoTo
  <2>2. covered[f] \subseteq Applied \cup Rejected
    BY <1>8 DEF OneFlush, CheckDirty
  <2>3. CASE ~dirty \/ cached = Undefined
    <3>1. Applied = {}
      BY <1>0, <1>8, <2>3 DEF OneFlush, CheckDirty, Chain
    <3>2. pc'[f] = "clean"
      BY <1>0, <1>8, <2>3 DEF CheckDirty, GoTo, DTypeOK
    <3> QED BY <1>8, <2>1, <2>2, <3>1, <3>2 DEF OneFlush, CheckDirty
  <2>4. CASE ~(~dirty \/ cached = Undefined)
    <3>1. pc'[f] = "putting" /\ inHand'[f] = Applied
      BY <1>0, <1>8, <2>4 DEF CheckDirty, GoTo, DTypeOK
    <3> QED BY <1>8, <2>1, <2>2, <3>1 DEF OneFlush, CheckDirty
  <2> QED BY <2>3, <2>4
<1>9. ASSUME NEW f \in Flushers, FlushLands(f) PROVE OneFlush'
  <2>1. Applied' = Applied /\ Rejected' = Rejected /\ InQueue' = InQueue
    BY <1>0, <1>9, <1>u DEF DTypeOK, FlushLands, GoTo
  <2>2. pc'[f] = "wrote" /\ written' = written \cup inHand[f]
        /\ covered[f] \subseteq inHand[f] \cup Rejected
    BY <1>0, <1>9 DEF FlushLands, GoTo, DTypeOK, OneFlush
  <2> QED BY <1>9, <2>1, <2>2 DEF OneFlush, FlushLands
<1>10. ASSUME NEW f \in Flushers, FlushFails(f) PROVE OneFlush'
  <2>1. pc'[f] = "failed"
    BY <1>0, <1>10 DEF FlushFails, GoTo, DTypeOK
  <2> QED BY <1>10, <2>1 DEF OneFlush, FlushFails
<1>11. ASSUME NEW o \in Others, OtherWrites(o) PROVE OneFlush'
  BY <1>11 DEF OneFlush, OtherWrites, Applied, Rejected, InQueue
<1>12. CASE UNCHANGED documentVars
  BY <1>12 DEF documentVars, OneFlush, Applied, Rejected, InQueue
<1> QED
  BY <1>1, <1>2, <1>3, <1>4, <1>5, <1>7, <1>8, <1>9, <1>10, <1>11, <1>12 DEF DNext

\* repositories.ts:200: a flush answers only when everything queued before it is in
\* KV.  The assumption is how the platform uses a document: dispose flushes once.
THEOREM OneFlushCoversQueued ==
    ASSUME \A f, g \in Flushers : f = g
    PROVE  DSpec => []FlushCoversQueued
<1>1. OneFlush => FlushCoversQueued
  BY DEF OneFlush, FlushCoversQueued
<1>2. Structure /\ OneFlush /\ [DNext]_documentVars => OneFlush'
  BY StepOneFlush
<1> QED BY <1>1, <1>2, InitStructure, StepStructure, InitOneFlush, PTL DEF DSpec

-----------------------------------------------------------------------------
(***************************************************************************)
(* The refinement of AtomicDocument.                                       *)
(***************************************************************************)
LEMMA InitLoading == DInit => Loading
BY CallsAssumption DEF DInit, Loading, Applied, Calls

\* With orderly callers, no step lets a load overwrite what was updated.
LEMMA StepLoading ==
    ASSUME Orderly
    PROVE  Structure /\ Loading /\ [DNext]_documentVars => Loading'
<1> SUFFICES ASSUME Structure, Loading, [DNext]_documentVars PROVE Loading'
  OBVIOUS
<1>0. /\ Updates \subseteq Calls /\ Readers \subseteq Calls /\ Flushers \subseteq Calls
      /\ Updates \cap Readers = {} /\ Updates \cap Flushers = {} /\ Readers \cap Flushers = {}
      /\ Loadable \subseteq Documents
      /\ DTypeOK /\ Chain
  BY CallsAssumption, LoadableType DEF Calls, Structure
<1>s. ASSUME NEW u \in Updates, NEW base \in Documents,
             pc[u] \in {"queued", "loading"}, IsNext(u), Settle(u, base),
             UNCHANGED <<stored, waiting, hand, inHand, written, covered>>
      PROVE  Loading'
  <2>1. /\ \A v \in Updates : pc'[v] # "loading"
        /\ \A c \in Calls \ {u} : pc'[c] = pc[c]
    BY <1>s, SettleStructure
  <2>2. \A r \in Readers : pc[r] # "loading"
    BY <1>s DEF Loading, IsNext
  <2>3. \A r \in Readers : pc'[r] = pc[r]
    BY <1>0, <2>1
  <2> QED BY <2>1, <2>2, <2>3 DEF Loading
<1>1. ASSUME NEW u \in Updates, CallUpdate(u) PROVE Loading'
  BY <1>0, <1>1 DEF Loading, DTypeOK, CallUpdate, GoTo, Applied
<1>2. ASSUME NEW u \in Updates, StartLoad(u) PROVE Loading'
  BY <1>0, <1>2 DEF Loading, DTypeOK, StartLoad, GoTo, Applied
<1>3. ASSUME NEW u \in Updates, Apply(u) PROVE Loading'
  <2>1. cached \in Documents
    BY <1>0, <1>3 DEF Apply, DTypeOK
  <2> QED BY <1>3, <1>s, <2>1 DEF Apply
<1>4. ASSUME NEW u \in Updates, LoadThenApply(u) PROVE Loading'
  BY <1>0, <1>4, <1>s DEF LoadThenApply, Chain
<1>5. ASSUME NEW r \in Readers, CallRead(r) PROVE Loading'
  BY <1>0, <1>5 DEF Loading, DTypeOK, CallRead, GoTo, Applied, Chain
<1>6. ASSUME NEW r \in Readers, LoadThenRead(r) PROVE Loading'
  <2>1. \A u \in Updates : pc[u] # "loading"
    BY <1>0, <1>6 DEF Loading, LoadThenRead, Chain, IsNext
  <2> QED BY <1>0, <1>6, <2>1 DEF Loading, DTypeOK, LoadThenRead, GoTo, Applied
<1>7. ASSUME NEW f \in Flushers, CallFlush(f) \/ CheckDirty(f) \/ FlushLands(f) \/ FlushFails(f)
      PROVE  Loading'
  <2>1. /\ UNCHANGED <<cached, queue>>
        /\ \A c \in Updates \cup Readers : pc'[c] = pc[c]
    BY <1>0, <1>7 DEF DTypeOK, CallFlush, CheckDirty, FlushLands, FlushFails, GoTo
  <2> QED BY <2>1 DEF Loading, Applied
<1>11. ASSUME NEW o \in Others, OtherWrites(o) PROVE Loading'
  BY <1>11 DEF Loading, OtherWrites, Applied
<1>12. CASE UNCHANGED documentVars
  BY <1>12 DEF documentVars, Loading, Applied
<1> QED
  BY <1>1, <1>2, <1>3, <1>4, <1>5, <1>6, <1>7, <1>11, <1>12 DEF DNext

\* The status and the writes of AtomicDocument, as PlatformDocument holds them.
Statuses  == [u \in Updates |-> IF pc[u] \in {"queued", "loading"} THEN "called" ELSE pc[u]]
Writing == [f \in Flushers |-> IF pc[f] = "putting" THEN hand[f] ELSE Undefined]

\* The initial states are those of the atomic document.
LEMMA InitRefines == DInit => Atomic!AInit
<1> SUFFICES ASSUME DInit PROVE Atomic!AInit
  OBVIOUS
<1>1. \A c \in Calls : pc[c] = "idle"
  BY DEF DInit
<1>2. Updates \subseteq Calls /\ Flushers \subseteq Calls
  BY DEF Calls
<1>3. Statuses = [u \in Updates |-> "idle"]
  BY <1>1, <1>2 DEF Statuses
<1>4. Writing = [f \in Flushers |-> Undefined]
  BY <1>1, <1>2 DEF Writing
<1> QED BY <1>3, <1>4 DEF DInit, Atomic!AInit, Atomic!Empty, Empty, Statuses, Writing

\* Every step is a step of the atomic document or none.
LEMMA StepRefines ==
    ASSUME Structure, Loading, [DNext]_documentVars
    PROVE  Atomic!ANext \/ UNCHANGED <<stored, cached, queue, Statuses, Writing>>
<1>0. /\ Updates \subseteq Calls /\ Readers \subseteq Calls /\ Flushers \subseteq Calls
      /\ Updates \cap Readers = {} /\ Updates \cap Flushers = {} /\ Readers \cap Flushers = {}
      /\ Loadable \subseteq Documents
      /\ DTypeOK /\ Chain
  BY CallsAssumption, LoadableType DEF Calls, Structure
<1>l. Atomic!Loadable = Loadable
  BY DEF Atomic!Loadable, Loadable, Atomic!Empty, Empty
<1>w. ASSUME NEW c \in Updates \cup Readers, NEW step,
             pc' = [pc EXCEPT ![c] = step], UNCHANGED hand
      PROVE  Writing' = Writing
  BY <1>0, <1>w DEF DTypeOK, Writing
<1>u. ASSUME NEW c \in Readers \cup Flushers, NEW step, pc' = [pc EXCEPT ![c] = step]
      PROVE  Statuses' = Statuses
  BY <1>0, <1>u DEF DTypeOK, Statuses
<1>s. ASSUME NEW u \in Updates, NEW base,
             base \in IF cached = Undefined THEN Loadable ELSE {cached},
             IsNext(u), Settle(u, base), UNCHANGED <<stored, hand>>
      PROVE  Atomic!ASettle(u)
  <2>1. CASE Throws(u)
    <3>1. Writing' = Writing
      BY <1>s, <1>w, <2>1 DEF Settle, GoTo
    <3>2. Statuses' = [Statuses EXCEPT ![u] = "rejected"]
      BY <1>0, <1>s, <2>1 DEF DTypeOK, Settle, GoTo, Statuses
    <3> QED BY <1>l, <1>s, <2>1, <3>1, <3>2
            DEF Atomic!ASettle, Settle, IsNext, Statuses, Writing, Atomic!Throws, Throws
  <2>2. CASE ~Throws(u)
    <3>1. Writing' = Writing
      BY <1>s, <1>w, <2>2 DEF Settle, GoTo
    <3>2. Statuses' = [Statuses EXCEPT ![u] = "applied"]
      BY <1>0, <1>s, <2>2 DEF DTypeOK, Settle, GoTo, Statuses
    <3>3. Atomic!Mutate(base, u) = Mutate(base, u)
      BY DEF Atomic!Mutate, Mutate, Atomic!Prepend, Prepend, Atomic!Empty, Empty
    <3> QED BY <1>l, <1>s, <2>2, <3>1, <3>2, <3>3
            DEF Atomic!ASettle, Settle, IsNext, Statuses, Writing, Atomic!Throws, Throws
  <2> QED BY <2>1, <2>2
<1>1. ASSUME NEW u \in Updates, CallUpdate(u) PROVE Atomic!ACall(u)
  <2>1. Writing' = Writing
    BY <1>1, <1>w DEF CallUpdate, GoTo
  <2>2. Statuses' = [Statuses EXCEPT ![u] = "called"] /\ Statuses[u] = "idle"
    BY <1>0, <1>1 DEF DTypeOK, CallUpdate, GoTo, Statuses
  <2> QED BY <1>1, <2>1, <2>2 DEF Atomic!ACall, CallUpdate, Statuses, Writing
<1>2. ASSUME NEW u \in Updates, StartLoad(u)
      PROVE  UNCHANGED <<stored, cached, queue, Statuses, Writing>>
  <2>1. Writing' = Writing
    BY <1>2, <1>w DEF StartLoad, GoTo
  <2>2. Statuses' = Statuses
    BY <1>0, <1>2 DEF DTypeOK, StartLoad, GoTo, Statuses
  <2> QED BY <1>2, <2>1, <2>2 DEF StartLoad
<1>3. ASSUME NEW u \in Updates, Apply(u) PROVE Atomic!ASettle(u)
  BY <1>3, <1>s DEF Apply
<1>4. ASSUME NEW u \in Updates, LoadThenApply(u) PROVE Atomic!ASettle(u)
  BY <1>0, <1>4, <1>s DEF LoadThenApply, Loading, Chain
<1>5. ASSUME NEW r \in Readers, CallRead(r)
      PROVE  UNCHANGED <<stored, cached, queue, Statuses, Writing>>
  <2>1. Writing' = Writing
    BY <1>5, <1>w DEF CallRead, GoTo
  <2>2. Statuses' = Statuses
    BY <1>5, <1>u DEF CallRead, GoTo
  <2> QED BY <1>5, <2>1, <2>2 DEF CallRead
<1>6. ASSUME NEW r \in Readers, LoadThenRead(r) PROVE Atomic!ALoad
  <2>1. Writing' = Writing
    BY <1>6, <1>w DEF LoadThenRead, GoTo
  <2>2. Statuses' = Statuses
    BY <1>6, <1>u DEF LoadThenRead, GoTo
  <2>3. \A u \in Updates : Statuses[u] # "applied"
    BY <1>6 DEF LoadThenRead, Loading, Applied, Statuses
  <2> QED BY <1>6, <1>l, <2>1, <2>2, <2>3 DEF Atomic!ALoad, LoadThenRead, Statuses, Writing
<1>f. ASSUME NEW f \in Flushers, NEW step, step # "putting", pc[f] # "putting",
             pc' = [pc EXCEPT ![f] = step], UNCHANGED hand
      PROVE  Writing' = Writing
  BY <1>0, <1>f DEF DTypeOK, Writing
<1>e. ASSUME NEW f \in Flushers, NEW step, step # "putting",
             pc' = [pc EXCEPT ![f] = step], UNCHANGED hand
      PROVE  Writing' = [Writing EXCEPT ![f] = Undefined]
  BY <1>0, <1>e DEF DTypeOK, Writing
<1>7. ASSUME NEW f \in Flushers, CallFlush(f)
      PROVE  UNCHANGED <<stored, cached, queue, Statuses, Writing>>
  <2>1. Writing' = Writing
    BY <1>7, <1>f DEF CallFlush, GoTo
  <2>2. Statuses' = Statuses
    BY <1>7, <1>u DEF CallFlush, GoTo
  <2> QED BY <1>7, <2>1, <2>2 DEF CallFlush
<1>8. ASSUME NEW f \in Flushers, CheckDirty(f)
      PROVE  Atomic!ABeginWrite(f) \/ UNCHANGED <<stored, cached, queue, Statuses, Writing>>
  <2>1. Statuses' = Statuses
    BY <1>8, <1>u DEF CheckDirty, GoTo
  <2>2. CASE ~dirty \/ cached = Undefined
    <3>1. Writing' = Writing
      BY <1>8, <1>f, <2>2 DEF CheckDirty, GoTo
    <3> QED BY <1>8, <2>1, <3>1 DEF CheckDirty
  <2>3. CASE ~(~dirty \/ cached = Undefined)
    <3>1. Writing' = [Writing EXCEPT ![f] = cached] /\ Writing[f] = Undefined
      BY <1>0, <1>8, <2>3 DEF CheckDirty, GoTo, DTypeOK, Writing
    <3> QED BY <1>8, <2>1, <2>3, <3>1 DEF Atomic!ABeginWrite, CheckDirty, Statuses, Writing
  <2> QED BY <2>2, <2>3
<1>9. ASSUME NEW f \in Flushers, FlushLands(f) PROVE Atomic!AEndWrite(f)
  <2>1. Writing[f] = hand[f] /\ hand[f] # Undefined
    BY <1>0, <1>9, NoneIsNoDocument DEF FlushLands, Chain, Writing
  <2>2. Writing' = [Writing EXCEPT ![f] = Undefined]
    BY <1>9, <1>e DEF FlushLands, GoTo
  <2>3. Statuses' = Statuses
    BY <1>9, <1>u DEF FlushLands, GoTo
  <2> QED BY <1>9, <2>1, <2>2, <2>3 DEF Atomic!AEndWrite, FlushLands, Statuses, Writing
<1>10. ASSUME NEW f \in Flushers, FlushFails(f) PROVE Atomic!AFailWrite(f)
  <2>1. Writing[f] = hand[f] /\ hand[f] # Undefined
    BY <1>0, <1>10, NoneIsNoDocument DEF FlushFails, Chain, Writing
  <2>2. Writing' = [Writing EXCEPT ![f] = Undefined]
    BY <1>10, <1>e DEF FlushFails, GoTo
  <2>3. Statuses' = Statuses
    BY <1>10, <1>u DEF FlushFails, GoTo
  <2> QED BY <1>10, <2>1, <2>2, <2>3 DEF Atomic!AFailWrite, FlushFails, Statuses, Writing
<1>11. ASSUME NEW o \in Others, OtherWrites(o) PROVE Atomic!AOther(o)
  <2>1. Atomic!Prepend(stored, o) = Prepend(stored, o)
    BY DEF Atomic!Prepend, Prepend
  <2>2. Statuses' = Statuses /\ Writing' = Writing
    BY <1>11 DEF OtherWrites, Statuses, Writing
  <2> QED BY <1>11, <2>1, <2>2 DEF Atomic!AOther, OtherWrites, Statuses, Writing
<1>12. CASE UNCHANGED documentVars
  BY <1>12 DEF documentVars, Statuses, Writing
<1>13. ASSUME NEW u \in Updates, Atomic!ACall(u) \/ Atomic!ASettle(u) PROVE Atomic!ANext
  BY <1>13 DEF Atomic!ANext
<1>14. ASSUME NEW f \in Flushers, Atomic!ABeginWrite(f) \/ Atomic!AEndWrite(f) \/ Atomic!AFailWrite(f)
       PROVE  Atomic!ANext
  BY <1>14 DEF Atomic!ANext
<1>15. (Atomic!ALoad => Atomic!ANext) /\ \A o \in Others : Atomic!AOther(o) => Atomic!ANext
  BY DEF Atomic!ANext
<1> QED
  BY <1>1, <1>2, <1>3, <1>4, <1>5, <1>6, <1>7, <1>8, <1>9, <1>10, <1>11, <1>12,
     <1>13, <1>14, <1>15 DEF DNext

\* createDocument keeps the promises of AtomicDocument to orderly callers: updates
\* in call order, each on top of the last, and consistent writes.
THEOREM DocumentIsAtomic ==
    ASSUME Orderly
    PROVE  DSpec => ImplementsAtomic
<1>1. Structure /\ Loading /\ [DNext]_documentVars => [Atomic!ANext]_(Atomic!atomicVars)
  BY StepRefines DEF Atomic!atomicVars, Statuses, Writing
<1>2. Structure /\ Loading /\ [DNext]_documentVars => Loading'
  BY StepLoading
<1> QED
  BY <1>1, <1>2, InitRefines, InitStructure, StepStructure, InitLoading, PTL
  DEF DSpec, ImplementsAtomic, Atomic!ASpec

=============================================================================
