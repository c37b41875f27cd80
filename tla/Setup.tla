------------------------------- MODULE Setup -------------------------------
(***************************************************************************)
(* The identity of a deployment that generates its own (identity.ts), the  *)
(* first-run page that hands it to its owner (handlers/setup.ts), and the  *)
(* part of a panel save that rewrites it (settings/main.ts), as they run   *)
(* in several isolates over one KV namespace.                              *)
(*                                                                         *)
(* An isolate runs any number of requests, interleaved at every await; its *)
(* module-level variables (`cached`, `resolvedIdentity`) are shared by the *)
(* requests it runs and by nothing else.  KV answers each get and put      *)
(* atomically, has no compare-and-swap, and may refuse any call.  An       *)
(* isolate may be evicted at any time with the requests it runs.           *)
(*                                                                         *)
(* Random values are named after the request that draws them: request r    *)
(* generates path <<"gen", r>>, an operator submits path <<"chosen", r>>,  *)
(* and r claims with email r and password r.  A path stands for the whole  *)
(* set of generated credentials (path, UUID, Trojan password).             *)
(***************************************************************************)
EXTENDS Naturals, FiniteSets

CONSTANTS
    Isolates,     \* the isolates serving the deployment
    Requests,     \* the requests of a behaviour
    Kinds,        \* the kinds of request that occur: page, claim, save
    Starts,       \* what KV may hold at first: absent, corrupt, deployed
    MaxInFlight,  \* how many requests may run at once
    Faults,       \* BOOLEAN: KV and PBKDF2 may fail, isolates may be evicted
    EnvPath,      \* RAYZEN_SECURE_PATH, None when it is not bound
    EnvEmail,     \* RAYZEN_ADMIN_EMAIL, None when it is not bound
    FirstPath,    \* the path of a document that is already there
    Corrupt,      \* a document that is not JSON
    None

VARIABLES
    kvIdentity,   \* the KV key rz:identity
    kvPassword,   \* the KV key pwd: whose password the verifier belongs to
    cached,       \* identity.ts: the identity cached by each isolate
    resolved,     \* settings.ts: the identity of the isolate's latest request
    pc,           \* where each request is
    home,         \* the isolate that runs it
    kind,         \* what it asks for
    ident,        \* the identity it was routed with
    doc,          \* the record it holds between a KV get and the next step
    form,         \* the path a save submits
    outcome,      \* how it was answered
    everStored,   \* history: every record the identity key has held
    overwritten,  \* history: a bootstrap replaced a stored document
    lateStart,    \* history: requests that began with a password in KV
    faulted       \* history: requests that met a failure

kvVars      == <<kvIdentity, kvPassword>>
isolateVars == <<cached, resolved>>
requestVars == <<pc, home, kind, ident, doc, form, outcome>>
historyVars == <<everStored, overwritten, lateStart, faulted>>
vars == <<kvVars, isolateVars, requestVars, historyVars>>

Paths   == ({"gen", "chosen"} \X Requests) \cup {FirstPath} \cup ({EnvPath} \ {None})
Emails  == Requests \cup {EnvEmail, None}
Records == [path : Paths, email : Emails]

KvSteps == {"get", "bootstrap", "needsSetup", "recheck", "readRecord",
            "writeRecord", "writePassword"}
Steps   == KvSteps \cup {"new", "install", "hash", "authenticate", "compare",
                         "invalidate", "answered"}
Outcomes == {"none", "error", "lost", "form", "gone", "refused",
             "hashRejected", "complete", "unauthorized", "unchanged", "saved"}

ASSUME ConstantsAssumption ==
    /\ Kinds \subseteq {"page", "claim", "save"}
    /\ Starts \subseteq {"absent", "corrupt", "deployed"}
    /\ MaxInFlight \in Nat
    /\ Faults \in BOOLEAN
    /\ None \notin Records \cup Requests
    /\ Corrupt \notin Records \cup {None}

Running(r) == pc[r] \notin {"new", "answered"}

(***************************************************************************)
(* emptyRecord: fresh credentials and no owner.  applyEnv: the bound       *)
(* variables laid over a record.                                           *)
(***************************************************************************)
EmptyRecord(r) == [path |-> <<"gen", r>>, email |-> None]

ApplyEnv(rec) ==
    [path  |-> IF EnvPath = None THEN rec.path ELSE EnvPath,
     email |-> IF EnvEmail = None THEN rec.email ELSE EnvEmail]

\* normaliseRecord of what a get returned: a missing document is a fresh one.
Normalise(stored, r) == IF stored = None THEN EmptyRecord(r) ELSE stored

\* The address a claim registers: the pinned one, or the one submitted.
ClaimEmail(r) == IF EnvEmail = None THEN r ELSE EnvEmail

StartDoc(s) ==
    CASE s = "absent"   -> None
      [] s = "corrupt"  -> Corrupt
      [] s = "deployed" -> [path |-> FirstPath, email |-> None]

Init ==
    /\ \E s \in Starts : kvIdentity = StartDoc(s)
    /\ kvPassword = None
    /\ cached = [i \in Isolates |-> None]
    /\ resolved = [i \in Isolates |-> None]
    /\ pc = [r \in Requests |-> "new"]
    /\ home \in [Requests -> Isolates]
    /\ kind \in [Requests -> Kinds]
    /\ ident = [r \in Requests |-> None]
    /\ doc = [r \in Requests |-> None]
    /\ form = [r \in Requests |-> None]
    /\ outcome = [r \in Requests |-> "none"]
    /\ everStored = {kvIdentity} \ {None, Corrupt}
    /\ overwritten = FALSE
    /\ lateStart = {}
    /\ faulted = {}

-----------------------------------------------------------------------------
(***************************************************************************)
(* Moving a request on, and answering it.                                  *)
(***************************************************************************)
GoTo(r, step) ==
    /\ pc' = [pc EXCEPT ![r] = step]
    /\ UNCHANGED outcome

Answer(r, how) ==
    /\ pc' = [pc EXCEPT ![r] = "answered"]
    /\ outcome' = [outcome EXCEPT ![r] = how]

\* Where a request goes once its identity is known: a save is routed to the
\* panel, the others to the setup routes.
Route(r) == IF kind[r] = "save" THEN "authenticate" ELSE "needsSetup"

\* init: the resolved identity becomes the isolate's and the request's.
Adopt(r, rec) ==
    /\ ident' = [ident EXCEPT ![r] = rec]
    /\ resolved' = [resolved EXCEPT ![home[r]] = rec]

StoreRecord(rec) ==
    /\ kvIdentity' = rec
    /\ everStored' = everStored \cup {rec}

-----------------------------------------------------------------------------
(***************************************************************************)
(* resolveIdentity.                                                        *)
(***************************************************************************)

\* A request arrives; a cached identity needs no storage.
Begin(r) ==
    /\ pc[r] = "new"
    /\ Cardinality({q \in Requests : Running(q)}) < MaxInFlight
    /\ lateStart' = IF kvPassword = None THEN lateStart ELSE lateStart \cup {r}
    /\ IF cached[home[r]] # None
         THEN Adopt(r, cached[home[r]]) /\ GoTo(r, Route(r))
         ELSE GoTo(r, "get") /\ UNCHANGED <<ident, resolved>>
    /\ UNCHANGED <<kvVars, cached, home, kind, doc, form,
                   everStored, overwritten, faulted>>

\* Faulty variant: an unreadable document is replaced by a fresh one.
GetIdentity_Regenerates(r) ==
    /\ pc[r] = "get"
    /\ LET stored == IF kvIdentity = Corrupt THEN None ELSE kvIdentity IN
         /\ doc' = [doc EXCEPT ![r] = ApplyEnv(Normalise(stored, r))]
         /\ GoTo(r, IF stored = None THEN "bootstrap" ELSE "install")
    /\ UNCHANGED <<kvVars, isolateVars, home, kind, ident, form, historyVars>>

\* Faulty variant: a reader steps aside once another has filled the cache, and
\* is never resumed.
GetIdentity_SingleFlight(r) ==
    /\ pc[r] = "get"
    /\ cached[home[r]] = None
    /\ kvIdentity # Corrupt
    /\ doc' = [doc EXCEPT ![r] = ApplyEnv(Normalise(kvIdentity, r))]
    /\ GoTo(r, IF kvIdentity = None THEN "bootstrap" ELSE "install")
    /\ UNCHANGED <<kvVars, isolateVars, home, kind, ident, form, historyVars>>

\* The get answers.  Only an absent document starts a bootstrap; one that does
\* not parse is an error.
GetIdentity(r) ==
    /\ pc[r] = "get"
    /\ \/ /\ kvIdentity = Corrupt
          /\ Answer(r, "error")
          /\ faulted' = faulted \cup {r}
          /\ UNCHANGED doc
       \/ /\ kvIdentity # Corrupt
          /\ doc' = [doc EXCEPT ![r] = ApplyEnv(Normalise(kvIdentity, r))]
          /\ GoTo(r, IF kvIdentity = None THEN "bootstrap" ELSE "install")
          /\ UNCHANGED faulted
    /\ UNCHANGED <<kvVars, isolateVars, home, kind, ident, form,
                   everStored, overwritten, lateStart>>

\* The put of a generated identity lands, whatever the key holds by now.
Bootstrap(r) ==
    /\ pc[r] = "bootstrap"
    /\ StoreRecord(doc[r])
    /\ overwritten' = (overwritten \/ kvIdentity # None)
    /\ GoTo(r, "install")
    /\ UNCHANGED <<kvPassword, isolateVars, home, kind, ident, doc, form,
                   lateStart, faulted>>

\* The request resumes with the identity it read or wrote and caches it.
Install(r) ==
    /\ pc[r] = "install"
    /\ cached' = [cached EXCEPT ![home[r]] = doc[r]]
    /\ Adopt(r, doc[r])
    /\ GoTo(r, Route(r))
    /\ UNCHANGED <<kvVars, home, kind, doc, form, historyVars>>

-----------------------------------------------------------------------------
(***************************************************************************)
(* handleSetup and claim.                                                  *)
(***************************************************************************)

\* Faulty variant: a deployment counts as claimed once it names an owner.
NeedsSetup_ByEmail(r) ==
    /\ pc[r] = "needsSetup"
    /\ \/ ident[r].email # None /\ Answer(r, "gone")
       \/ ident[r].email = None /\ kind[r] = "page" /\ Answer(r, "form")
       \/ ident[r].email = None /\ kind[r] = "claim" /\ GoTo(r, "recheck")
    /\ UNCHANGED <<kvVars, isolateVars, home, kind, ident, doc, form,
                   historyVars>>

\* needsSetup: the routes exist until a password does.
NeedsSetup(r) ==
    /\ pc[r] = "needsSetup"
    /\ \/ kvPassword # None /\ Answer(r, "gone")
       \/ kvPassword = None /\ kind[r] = "page" /\ Answer(r, "form")
       \/ kvPassword = None /\ kind[r] = "claim" /\ GoTo(r, "recheck")
    /\ UNCHANGED <<kvVars, isolateVars, home, kind, ident, doc, form,
                   historyVars>>

\* The check is repeated once the body has been read and validated.
Recheck(r) ==
    /\ pc[r] = "recheck"
    /\ \/ kvPassword # None /\ Answer(r, "refused")
       \/ kvPassword = None /\ GoTo(r, "hash")
    /\ UNCHANGED <<kvVars, isolateVars, home, kind, ident, doc, form,
                   historyVars>>

\* Faulty variant: the password is written before the owner.
Hash_PasswordFirst(r) ==
    /\ pc[r] = "hash"
    /\ kvPassword' = r
    /\ GoTo(r, "readRecord")
    /\ UNCHANGED <<kvIdentity, isolateVars, home, kind, ident, doc, form,
                   historyVars>>

\* hashPassword, before anything is written.
Hash(r) ==
    /\ pc[r] = "hash"
    /\ \/ GoTo(r, "readRecord") /\ UNCHANGED faulted
       \/ Faults /\ Answer(r, "hashRejected") /\ faulted' = faulted \cup {r}
    /\ UNCHANGED <<kvVars, isolateVars, home, kind, ident, doc, form,
                   everStored, overwritten, lateStart>>

\* storage.writePassword; the answer discloses the path captured on arrival.
WritePassword(r) ==
    /\ pc[r] = "writePassword"
    /\ kvPassword' = r
    /\ Answer(r, "complete")
    /\ UNCHANGED <<kvIdentity, isolateVars, home, kind, ident, doc, form,
                   historyVars>>

-----------------------------------------------------------------------------
(***************************************************************************)
(* readIdentityRecord and writeIdentityRecord, shared by claimIdentity and *)
(* persistIdentitySettings.                                                *)
(***************************************************************************)
\* Faulty variant: the update is built on the identity in memory.
ReadRecord_InMemory(r) ==
    /\ pc[r] = "readRecord"
    /\ doc' = [doc EXCEPT ![r] = ident[r]]
    /\ GoTo(r, "writeRecord")
    /\ UNCHANGED <<kvVars, isolateVars, home, kind, ident, form, historyVars>>

ReadRecord(r) ==
    /\ pc[r] = "readRecord"
    /\ \/ /\ kvIdentity = Corrupt
          /\ Answer(r, "error")
          /\ faulted' = faulted \cup {r}
          /\ UNCHANGED doc
       \/ /\ kvIdentity # Corrupt
          /\ doc' = [doc EXCEPT ![r] = Normalise(kvIdentity, r)]
          /\ GoTo(r, "writeRecord")
          /\ UNCHANGED faulted
    /\ UNCHANGED <<kvVars, isolateVars, home, kind, ident, form,
                   everStored, overwritten, lateStart>>

\* The record a claim or a save writes back, built on the one it read.
Changed(r) ==
    IF kind[r] = "claim" THEN [doc[r] EXCEPT !.email = ClaimEmail(r)]
                         ELSE [doc[r] EXCEPT !.path = form[r]]

WriteRecord(r) ==
    /\ pc[r] = "writeRecord"
    /\ StoreRecord(Changed(r))
    /\ GoTo(r, "invalidate")
    /\ UNCHANGED <<kvPassword, isolateVars, home, kind, ident, doc, form,
                   overwritten, lateStart, faulted>>

\* invalidateIdentityCache, in the writer's isolate.
Invalidate(r) ==
    /\ pc[r] = "invalidate"
    /\ cached' = [cached EXCEPT ![home[r]] = None]
    /\ IF kind[r] = "claim" THEN GoTo(r, "writePassword") ELSE Answer(r, "saved")
    /\ UNCHANGED <<kvVars, resolved, home, kind, ident, doc, form, historyVars>>

-----------------------------------------------------------------------------
(***************************************************************************)
(* updatePanelSettings and updateMainSettings of a signed-in operator.  A  *)
(* session exists once a password does, and its subject is the owner's     *)
(* email as the isolate knows it; an empty subject is refused.             *)
(***************************************************************************)
Authenticate(r) ==
    /\ pc[r] = "authenticate"
    /\ IF kvPassword # None /\ resolved[home[r]].email # None
         THEN GoTo(r, "compare")
         ELSE Answer(r, "unauthorized")
    /\ UNCHANGED <<kvVars, isolateVars, home, kind, ident, doc, form,
                   historyVars>>

\* compareMainSettings: the form holds a new path or one that was in effect when
\* the operator loaded it; a form equal to the isolate's identity writes nothing.
Compare(r) ==
    /\ pc[r] = "compare"
    /\ \E p \in {<<"chosen", r>>} \cup {ApplyEnv(d).path : d \in everStored} :
         /\ form' = [form EXCEPT ![r] = p]
         /\ IF p = resolved[home[r]].path THEN Answer(r, "unchanged")
                                          ELSE GoTo(r, "readRecord")
    /\ UNCHANGED <<kvVars, isolateVars, home, kind, ident, doc, historyVars>>

-----------------------------------------------------------------------------
(***************************************************************************)
(* The environment: KV refuses the call a request is waiting for, or an    *)
(* isolate goes away with everything it holds.                             *)
(***************************************************************************)
KvFails(r) ==
    /\ Faults
    /\ \/ pc[r] \in KvSteps /\ Answer(r, "error")
       \/ pc[r] = "authenticate" /\ Answer(r, "unauthorized")
    /\ faulted' = faulted \cup {r}
    /\ UNCHANGED <<kvVars, isolateVars, home, kind, ident, doc, form,
                   everStored, overwritten, lateStart>>

Evict(i) ==
    LET dying == {r \in Requests : home[r] = i /\ Running(r)} IN
    /\ Faults
    /\ cached[i] # None \/ dying # {}
    /\ cached' = [cached EXCEPT ![i] = None]
    /\ resolved' = [resolved EXCEPT ![i] = None]
    /\ pc' = [r \in Requests |-> IF r \in dying THEN "answered" ELSE pc[r]]
    /\ outcome' = [r \in Requests |-> IF r \in dying THEN "lost" ELSE outcome[r]]
    /\ faulted' = faulted \cup dying
    /\ UNCHANGED <<kvVars, home, kind, ident, doc, form,
                   everStored, overwritten, lateStart>>

Step(r) ==
    \/ GetIdentity(r) \/ Bootstrap(r) \/ Install(r)
    \/ NeedsSetup(r) \/ Recheck(r) \/ Hash(r) \/ WritePassword(r)
    \/ ReadRecord(r) \/ WriteRecord(r) \/ Invalidate(r)
    \/ Authenticate(r) \/ Compare(r)

Next ==
    \/ \E r \in Requests : Begin(r) \/ Step(r) \/ KvFails(r)
    \/ \E i \in Isolates : Evict(i)

Spec == Init /\ [][Next]_vars

\* The runtime resumes every request whose awaited call has been answered.
Fairness == \A r \in Requests : WF_vars(Step(r))

FairSpec == Spec /\ Fairness

-----------------------------------------------------------------------------
TypeOK ==
    /\ kvIdentity \in Records \cup {None, Corrupt}
    /\ kvPassword \in Requests \cup {None}
    /\ cached \in [Isolates -> Records \cup {None}]
    /\ resolved \in [Isolates -> Records \cup {None}]
    /\ pc \in [Requests -> Steps]
    /\ home \in [Requests -> Isolates]
    /\ kind \in [Requests -> Kinds]
    /\ ident \in [Requests -> Records \cup {None}]
    /\ doc \in [Requests -> Records \cup {None}]
    /\ form \in [Requests -> Paths \cup {None}]
    /\ outcome \in [Requests -> Outcomes]
    /\ everStored \subseteq Records
    /\ overwritten \in BOOLEAN
    /\ lateStart \subseteq Requests
    /\ faulted \subseteq Requests

\* Every request is on a step of its own kind, answered once, and one about to use
\* a record or a submitted path has it.
InHand ==
    \A r \in Requests :
        /\ pc[r] # "answered" => outcome[r] = "none"
        /\ pc[r] \in {"recheck", "hash", "writePassword"} => kind[r] = "claim"
        /\ pc[r] \in {"authenticate", "compare"} => kind[r] = "save"
        /\ pc[r] \in {"readRecord", "writeRecord", "invalidate"} => kind[r] # "page"
        /\ pc[r] \in {"bootstrap", "install", "writeRecord"} => doc[r] \in Records
        /\ pc[r] \in {"readRecord", "writeRecord"} /\ kind[r] # "claim"
               => form[r] \in Paths

-----------------------------------------------------------------------------
\* The identities the documents stored so far resolve to.
Served == {ApplyEnv(d) : d \in everStored}

\* The key holds a document and no request is still about to write a generated
\* one over it.
Settled == kvIdentity # None /\ \A r \in Requests : pc[r] # "bootstrap"

\* No isolate serves, and no claim discloses, an identity KV never held: a put
\* that fails leaves no trace in the cache (resolveIdentity caches last).
ServedWasStored ==
    /\ \A i \in Isolates : cached[i] # None => cached[i] \in Served
    /\ \A r \in Requests : outcome[r] = "complete" => ident[r] \in Served

\* Once settled, a deployment stays settled, and no step gives it credentials
\* that were neither stored before nor submitted by its operator: a failed read
\* or an unreadable document is never taken for a first request.
NeverRegenerated ==
    [][Settled =>
         /\ Settled'
         /\ \/ kvIdentity' = kvIdentity
            \/ /\ kvIdentity # Corrupt
               /\ kvIdentity'.path \in {d.path : d \in everStored \cup Served}
                                       \cup ({"chosen"} \X Requests)]_vars

\* A request that arrives once a password exists is never shown the setup form
\* and never takes the deployment, whichever isolate serves it.
SetupStaysClosed ==
    \A r \in lateStart : outcome[r] \notin {"form", "complete"}

\* A password always has an owner who can sign in with it: claim writes the
\* email first, and no save, failed claim or lost isolate takes it away.  Only a
\* bootstrap that overwrites a document can.
PasswordHasOwner ==
    kvPassword # None /\ ~overwritten =>
        /\ kvIdentity \in Records
        /\ kvIdentity.email # None

\* Requests that never got past the second password check.
TurnedAway(s) ==
    \/ kind[s] # "claim"
    \/ pc[s] \in {"new", "get", "bootstrap", "install", "needsSetup", "recheck"}
    \/ outcome[s] \in {"gone", "refused"}

\* No other claim got past the check, and no bootstrap overwrote a document.
Uncontested(r) ==
    /\ kind[r] = "claim"
    /\ ~overwritten
    /\ \A s \in Requests \ {r} : TurnedAway(s)

\* A completed claim that no other claim overlapped owns the deployment: the
\* email and the verifier in KV are both its own, whatever saves follow.
UncontestedClaimOwns ==
    \A r \in Requests :
        outcome[r] = "complete" /\ Uncontested(r)
            => kvPassword = r /\ kvIdentity.email = ClaimEmail(r)

\* setup.ts:140: when the runtime rejects the hash, the deployment is still
\* wholly unclaimed.
RejectedHashLeavesUnclaimed ==
    \A r \in Requests :
        /\ outcome[r] = "hashRejected"
        /\ \A s \in Requests \ {r} : kind[s] # "claim"
        => /\ kvPassword = None
           /\ kvIdentity.email \in {None, EnvEmail}

\* Setup cannot be wedged: whatever failed claims and evictions left behind, a
\* claim that meets no failure itself is answered with the deployment claimed.
NeverWedged ==
    \A r \in Requests :
        kind[r] = "claim" /\ pc[r] = "answered" /\ r \notin faulted
            => kvPassword # None

\* ... and it is answered.
ClaimSucceeds ==
    \A r \in Requests :
        (kind[r] = "claim" /\ Running(r)) ~> (kvPassword # None \/ r \in faulted)

(***************************************************************************)
(* What makes the invariants above inductive.                              *)
(***************************************************************************)
Routed(r) == pc[r] \in {"needsSetup", "recheck", "hash", "readRecord",
                        "writeRecord", "invalidate", "writePassword",
                        "authenticate", "compare"}

\* Everything an isolate or a routed request holds was in KV once, and a key
\* that never held a record makes nobody routed.
Provenance ==
    /\ kvIdentity \in Records => kvIdentity \in everStored
    /\ kvIdentity \notin Records => everStored = {}
    /\ \A i \in Isolates :
         /\ cached[i] # None => cached[i] \in Served
         /\ resolved[i] # None => resolved[i] \in Served
    /\ \A r \in Requests :
         /\ Routed(r) \/ outcome[r] \in {"complete", "hashRejected"}
              => ident[r] \in Served
         /\ pc[r] = "bootstrap" => ApplyEnv(doc[r]) = doc[r]
         /\ pc[r] = "install" => doc[r] \in Served
         /\ pc[r] = "writeRecord" => doc[r] \in everStored
         /\ pc[r] \in {"readRecord", "writeRecord"} /\ kind[r] # "claim" =>
              form[r] \in ({"chosen"} \X Requests) \cup {d.path : d \in Served}

\* An owner is in KV before the password is, and whoever rewrites the document
\* read it with its owner in place.
Ownership ==
    /\ \A r \in Requests :
         kind[r] = "save" /\ pc[r] \in {"compare", "readRecord", "writeRecord", "invalidate"}
             => kvPassword # None
    /\ ~overwritten =>
        /\ kvPassword # None => kvIdentity \in Records /\ kvIdentity.email # None
        /\ \A r \in Requests :
             /\ kind[r] = "claim" /\ pc[r] \in {"invalidate", "writePassword"}
                  => kvIdentity.email # None
             /\ kind[r] = "save" /\ pc[r] = "writeRecord" => doc[r].email # None

\* The claim that overlaps no other finds no password until it writes its own,
\* and from its first write on the document names its owner.
Possession ==
    \A r \in Requests : Uncontested(r) =>
        /\ pc[r] # "answered" => kvPassword = None
        /\ pc[r] \in {"invalidate", "writePassword"} \/ outcome[r] = "complete"
             => kvIdentity.email = ClaimEmail(r)
        /\ outcome[r] = "complete" =>
             /\ kvPassword = r
             /\ \A s \in Requests :
                  kind[s] = "save" /\ pc[s] = "writeRecord"
                      => doc[s].email = ClaimEmail(r)

\* Until the only claim has derived its verifier, nothing names an owner.
Untouched ==
    \A r \in Requests :
        /\ \A s \in Requests \ {r} : kind[s] # "claim"
        /\ \/ pc[r] \notin {"invalidate", "writePassword", "answered"}
           \/ outcome[r] = "hashRejected"
        => /\ kvPassword = None
           /\ \A d \in everStored : d.email \in {None, EnvEmail}
           /\ \A s \in Requests :
                pc[s] \in {"bootstrap", "writeRecord"} => doc[s].email \in {None, EnvEmail}

\* A late request never gets past the first password check.
LateIsOutside ==
    \A r \in lateStart :
        /\ kvPassword # None
        /\ pc[r] \notin {"recheck", "hash", "writePassword"}
        /\ kind[r] = "claim" => pc[r] \notin {"readRecord", "writeRecord", "invalidate"}

=============================================================================
