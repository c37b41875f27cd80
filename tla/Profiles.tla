------------------------------ MODULE Profiles ------------------------------
(***************************************************************************)
(* Subscription profiles: the links an operator shares, kept as one list   *)
(* under the KV key rz:profiles (features/profiles.ts).                    *)
(*                                                                         *)
(* Every request has its own platform document, so requests share the key  *)
(* and nothing else.  A request reads the list once and, in the step its   *)
(* get answers, decides its answer and computes the whole list it will     *)
(* put; the put is a second step.  A subscription fetch is served whatever *)
(* becomes of its put; an operator's request is acknowledged only after    *)
(* it.  Time is in hours, the unit of the use counter's throttle.          *)
(***************************************************************************)
EXTENDS Integers, FiniteSets, FiniteSetTheorems

CONSTANTS
    Tokens,       \* the tokens generateToken may draw
    Requests,     \* slots for requests in flight
    MaxInFlight,  \* how many requests may be between their get and their put
    MaxProfiles,  \* MAX_PROFILES
    Limits,       \* the request limits an operator may set, None for no limit
    Lifetimes,    \* the lifetimes in hours a link may be created with, None for no expiry
    Faults,       \* BOOLEAN: KV may refuse calls
    MaxHour,      \* bound on the clock
    MaxServed,    \* bound on the fetches served per link
    None

ASSUME ProfilesAssumption ==
    /\ IsFiniteSet(Tokens)
    /\ MaxInFlight \in Nat /\ MaxProfiles \in Nat /\ MaxHour \in Nat /\ MaxServed \in Nat
    /\ Limits \subseteq (Nat \ {0}) \cup {None} /\ Lifetimes \subseteq (Nat \ {0}) \cup {None}
    /\ Faults \in BOOLEAN
    /\ None \notin Nat

Actions == {"enable", "disable", "delete", "limit", "reset-count"}
Operations == {"fetch", "create"} \cup Actions

VARIABLES
    store,       \* rz:profiles: the profile of each token, None when absent
    now,
    request,     \* per slot: the list it will put, or None when the slot is free
    issued,      \* history: the tokens generated so far
    expiry,      \* history: the expiry each token was created with
    served,      \* history: the fetches served per token
    used,        \* history: those while limited, since the limit was last set or renewed
    late,        \* history: the tokens served at or after their expiry
    revoked      \* history: the tokens disabled or deleted, as far as no stale list was put since

history == <<issued, expiry, served, used, late, revoked>>
vars == <<store, now, request, issued, expiry, served, used, late, revoked>>

Profile == [enabled: BOOLEAN, expiresAt: Nat \cup {None}, requests: Nat,
            limit: Limits, seen: Nat \cup {None}]

Lists == [Tokens -> Profile \cup {None}]

\* What a request in flight is about to put; `knew` is history.
PendingPut == [op: Operations, token: Tokens, list: Lists, knew: SUBSET Tokens]

ASSUME NoneAssumption == None \notin Profile /\ None \notin PendingPut

EmptyList == [t \in Tokens |-> None]
Listed(list) == {t \in Tokens : list[t] # None}

Init ==
    /\ store = EmptyList
    /\ now = 0
    /\ request = [r \in Requests |-> None]
    /\ issued = {}
    /\ expiry = [t \in Tokens |-> None]
    /\ served = [t \in Tokens |-> 0]
    /\ used = [t \in Tokens |-> 0]
    /\ late = {}
    /\ revoked = {}

Tick ==
    /\ now < MaxHour
    /\ now' = now + 1
    /\ UNCHANGED <<store, request, history>>

-----------------------------------------------------------------------------
(***************************************************************************)
(* The rules of features/profiles.ts.                                      *)
(***************************************************************************)
\* Faulty variant: the hour of the expiry still counts.
Status_LateExpiry(profile, hour) ==
    IF profile.enabled /\ (profile.expiresAt = None \/ profile.expiresAt >= hour)
        /\ (profile.limit = None \/ profile.requests < profile.limit)
      THEN "active" ELSE "disabled"

Expired(profile, hour) == profile.expiresAt # None /\ profile.expiresAt <= hour
Exhausted(profile) == profile.limit # None /\ profile.requests >= profile.limit

Status(profile, hour) ==
    CASE ~profile.enabled -> "disabled"
      [] profile.enabled /\ Expired(profile, hour) -> "expired"
      [] profile.enabled /\ ~Expired(profile, hour) /\ Exhausted(profile) -> "exhausted"
      [] OTHER -> "active"

Resolves(list, t) == list[t] # None /\ Status(list[t], now) = "active"

\* Faulty variant: limited profiles are throttled like the others.
ShouldPersistUse_Throttled(profile) == profile.seen = None \/ now - profile.seen >= 1

ShouldPersistUse(profile) ==
    \/ profile.limit # None
    \/ profile.seen = None
    \/ now - profile.seen >= 1

Counted(profile) == [profile EXCEPT !.requests = @ + 1, !.seen = now]

\* Faulty variant: what is put is the profile used, not the list.
RecordUse_Alone(list, t) == [EmptyList EXCEPT ![t] = Counted(list[t])]

RecordUse(list, t) == [list EXCEPT ![t] = Counted(list[t])]

NewProfile(lifetime, limit) ==
    [enabled |-> TRUE, expiresAt |-> IF lifetime = None THEN None ELSE now + lifetime,
     requests |-> 0, limit |-> limit, seen |-> None]

\* Faulty variant: resetting the counter revives the link altogether.
Updated_Reviving(list, t, action, limit) ==
    [list EXCEPT ![t] =
        CASE action = "delete" -> None
          [] action = "limit" -> [@ EXCEPT !.limit = limit]
          [] action = "reset-count" -> [@ EXCEPT !.requests = 0, !.enabled = TRUE]
          [] OTHER -> [@ EXCEPT !.enabled = (action = "enable")]]

Updated(list, t, action, limit) ==
    [list EXCEPT ![t] =
        CASE action = "delete" -> None
          [] action = "limit" -> [@ EXCEPT !.limit = limit]
          [] action = "reset-count" -> [@ EXCEPT !.requests = 0]
          [] OTHER -> [@ EXCEPT !.enabled = (action = "enable")]]

-----------------------------------------------------------------------------
(***************************************************************************)
(* The get of a request and all it decides.                                *)
(***************************************************************************)
Free(r) == /\ request[r] = None
           /\ Cardinality({q \in Requests : request[q] # None}) < MaxInFlight

\* A list document KV refuses to give reads as an empty one.
Readable == {store} \cup (IF Faults THEN {EmptyList} ELSE {})

\* The request goes on to put `list`.  `knew` is history: what it could see revoked.
WillPut(r, op, t, list) ==
    request' = [request EXCEPT ![r] = [op |-> op, token |-> t, list |-> list, knew |-> revoked]]

\* resolveProfileRequest: a token the list does not resolve is answered with the
\* fallback page and leaves no trace, so only the fetches that are served are steps.
Fetch(r, t) == \E list \in Readable :
    /\ Free(r)
    /\ Resolves(list, t)
    /\ served[t] < MaxServed
    /\ served' = [served EXCEPT ![t] = @ + 1]
    /\ used' = IF list[t].limit = None THEN used ELSE [used EXCEPT ![t] = @ + 1]
    /\ late' = IF expiry[t] # None /\ expiry[t] <= now THEN late \cup {t} ELSE late
    /\ IF ShouldPersistUse(list[t])
         THEN WillPut(r, "fetch", t, RecordUse(list, t))
         ELSE UNCHANGED request
    /\ UNCHANGED <<store, now, issued, expiry, revoked>>

HasRoom(list) == Cardinality(Listed(list)) < MaxProfiles

\* linkCreate: the new profile is appended to the list read; a full list is a 400.
Create(r, t, lifetime, limit) == \E list \in Readable :
    /\ Free(r)
    /\ t \notin issued
    /\ HasRoom(list)
    /\ issued' = issued \cup {t}
    /\ expiry' = [expiry EXCEPT ![t] = NewProfile(lifetime, limit).expiresAt]
    /\ WillPut(r, "create", t, [list EXCEPT ![t] = NewProfile(lifetime, limit)])
    /\ UNCHANGED <<store, now, served, used, late, revoked>>

\* linkUpdate: a token the list does not hold is a 404 that writes nothing.
Update(r, t, action, limit) == \E list \in Readable :
    /\ Free(r)
    /\ list[t] # None
    /\ WillPut(r, action, t, Updated(list, t, action, limit))
    /\ UNCHANGED <<store, now, history>>

-----------------------------------------------------------------------------
(***************************************************************************)
(* The put of a request, and its answer.                                   *)
(***************************************************************************)
Finish(r) == request' = [request EXCEPT ![r] = None]

\* What the operator may rely on after a put: the revocations its request knew of,
\* and its own.
RevokedAfter(q) ==
    LET kept == revoked \cap q.knew
    IN  CASE q.op \in {"disable", "delete"} -> kept \cup {q.token}
          [] q.op = "enable" -> kept \ {q.token}
          [] OTHER -> kept

\* The put lands, although an operator may be answered 500 before or after: the flush
\* also puts the history and metrics documents, and rejects when KV refuses one.
PutLands(r) ==
    /\ request[r] # None
    /\ store' = request[r].list
    /\ revoked' = RevokedAfter(request[r])
    /\ used' = IF request[r].op \in {"limit", "reset-count"}
                 THEN [used EXCEPT ![request[r].token] = 0] ELSE used
    /\ Finish(r)
    /\ UNCHANGED <<now, issued, expiry, served, late>>

\* KV refuses the put: a fetch is served all the same, an operator sees a 500.
PutFails(r) ==
    /\ Faults
    /\ request[r] # None
    /\ Finish(r)
    /\ UNCHANGED <<store, now, history>>

-----------------------------------------------------------------------------
Fetches == \E r \in Requests, t \in Tokens : Fetch(r, t)

Creates == \E r \in Requests, t \in Tokens, lifetime \in Lifetimes, limit \in Limits :
    Create(r, t, lifetime, limit)

Limitings == \E r \in Requests, t \in Tokens, limit \in Limits : Update(r, t, "limit", limit)

OtherUpdates == \E r \in Requests, t \in Tokens, action \in Actions \ {"limit"} : Update(r, t, action, None)

Next ==
    \/ Tick
    \/ Fetches
    \/ Creates
    \/ Limitings
    \/ OtherUpdates
    \/ \E r \in Requests : PutLands(r)
    \/ \E r \in Requests : PutFails(r)

Spec == Init /\ [][Next]_vars

-----------------------------------------------------------------------------
(***************************************************************************)
(* Properties.                                                             *)
(***************************************************************************)
\* The types, and the cap: neither KV nor any list a request is about to put holds
\* more than MAX_PROFILES links, so normaliseProfiles never cuts one off.
TypeOK ==
    /\ store \in Lists /\ Cardinality(Listed(store)) <= MaxProfiles
    /\ now \in Nat
    /\ request \in [Requests -> PendingPut \cup {None}]
    /\ \A r \in Requests : request[r] # None => Cardinality(Listed(request[r].list)) <= MaxProfiles
    /\ issued \subseteq Tokens
    /\ expiry \in [Tokens -> Nat \cup {None}]
    /\ served \in [Tokens -> Nat]
    /\ used \in [Tokens -> Nat]
    /\ late \subseteq Tokens
    /\ revoked \subseteq Tokens

\* An expiry is enforced exactly: whatever requests overlap and whatever lists
\* overwrite one another, no fetch is served at or after the hour its link was
\* created to expire at.
ExpiryExact == late = {}

\* The stored count of a link is a lower bound on the fetches it served: lost
\* updates, refused puts and resets lower it, nothing raises it.
CountIsLowerBound == \A t \in Tokens : store[t] # None => store[t].requests <= served[t]

\* A link the operator disabled or deleted stays unusable until the operator enables
\* it, or a request that had read the list before the revocation was put puts its own.
RevocationHolds == \A t \in revoked : store[t] # None => ~store[t].enabled

\* A request limit is enforced exactly: since it was last set or renewed, a limited
\* link has been served no more often than its limit allows.
LimitEnforced == \A t \in Tokens :
    store[t] # None /\ store[t].limit # None => used[t] <= store[t].limit

=============================================================================
