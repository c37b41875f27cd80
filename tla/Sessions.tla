------------------------------ MODULE Sessions ------------------------------
(***************************************************************************)
(* Who is signed in (auth/auth.ts, auth/password.ts, auth/jwt.ts) and the  *)
(* one-time codes that sign a companion in (handlers/quick-add.ts).        *)
(*                                                                         *)
(* KV holds the password verifier, the secret that signs sessions, drawn   *)
(* by the first request that needs it and finds none, and an entry for     *)
(* each code not yet used.  A request is a chain of KV calls; every action *)
(* below is what it does between two of them.  A secret is named after the *)
(* request that draws it, so that two are never equal, and a session after *)
(* the request it was issued to.                                           *)
(***************************************************************************)
EXTENDS Naturals, FiniteSets

CONSTANTS
    Requests,     \* the requests that occur
    Kinds,        \* what they may ask for
    Passwords,    \* what an operator may type
    Codes,        \* the tokens of one-time codes
    Installed,    \* the secret of a deployment that has been signed in to before
    MaxInFlight,  \* how many are in flight at once
    StartForms,   \* the forms of verifier a deployment may come with
    Perishable,   \* the codes and sessions that may expire
    Faults,       \* BOOLEAN: a KV call may be refused
    None

VARIABLES
    password,    \* the KV key pwd
    secret,      \* the KV key secretKey
    entries,     \* the codes with an entry under rz:quick_add:
    stale,       \* codes past expiresAt, sessions past exp
    pc,          \* where each request is
    kind,        \* what it asks for
    typed,       \* the password it carries, None without one the rule and the address allow
    cookie,      \* the session it presents, None without one
    code,        \* the code it carries or has drawn
    held,        \* what it holds of KV: the verifier it read, then the secret it signs with
    outcome,     \* how it was answered
    before,      \* history: the requests that had been answered when it began
    drawn,       \* history: the requests that put a secret of their own
    upgraded,    \* history: the requests that put a stronger verifier
    changed      \* history: the last request that put a new password

kvVars == <<password, secret, entries, stale>>
inputVars == <<kind, typed, cookie>>
historyVars == <<before, drawn, upgraded, changed>>
vars == <<kvVars, inputVars, pc, code, held, outcome, historyVars>>

AllKinds == {"login", "reset", "mint", "redeem", "revoke", "view"}

(***************************************************************************)
(* verifyPassword.  A verifier is the password itself, as first versions   *)
(* stored it, or is derived from it with fewer rounds than today, as many, *)
(* or more than the runtime computes; or it is unreadable.                 *)
(***************************************************************************)
Forms     == {"plain", "weak", "full", "over", "corrupt"}
Verifiers == [of : Passwords, form : Forms]
Secrets   == Requests \cup {Installed}

Steps == {"new", "readPassword", "putUpgrade", "readSecret", "putSecret", "authenticate",
          "readOld", "readOldUnsigned", "putPassword", "putCode", "getCode", "deleteCode",
          "ended"}
Outcomes == {"conflict", "refused", "session", "enrolled", "shown", "invalid", "changed",
             "minted", "revoked", "error"}

ASSUME SessionsAssumption ==
    /\ Kinds \subseteq AllKinds
    /\ MaxInFlight \in Nat
    /\ StartForms \subseteq Forms
    /\ Perishable \subseteq Codes \cup Requests \cup {Installed}
    /\ Faults \in BOOLEAN
    /\ None \notin Requests \cup Passwords \cup Codes \cup {Installed}
    /\ None \notin AllKinds \cup Outcomes \cup Verifiers
    /\ Installed \notin Requests

Valid(p, v)     == v # None /\ v.form \in {"plain", "weak", "full"} /\ v.of = p
NeedsUpgrade(v) == v.form \in {"plain", "weak"}
Unsupported(v)  == v # None /\ v.form = "over"

HashPassword(p) == [of |-> p, form |-> "full"]

Ended(r)   == pc[r] = "ended"
Answered   == {r \in Requests : Ended(r)}
InFlight   == {r \in Requests : pc[r] \notin {"new", "ended"}}
\* The requests a session was issued to: by login, or by redeeming a code.
SignedIn   == {r \in Answered : outcome[r] \in {"session", "enrolled"}}

Init ==
    /\ password \in [of : Passwords, form : StartForms] \cup {None}
    /\ secret \in {None, Installed}
    /\ entries \in SUBSET Codes
    /\ stale = {}
    /\ pc = [r \in Requests |-> "new"]
    /\ kind = [r \in Requests |-> None]
    /\ typed = [r \in Requests |-> None]
    /\ cookie = [r \in Requests |-> None]
    /\ code = [r \in Requests |-> None]
    /\ held = [r \in Requests |-> None]
    /\ outcome = [r \in Requests |-> None]
    /\ before = [r \in Requests |-> {}]
    /\ drawn = {}
    /\ upgraded = {}
    /\ changed = None

GoTo(r, step) ==
    /\ pc' = [pc EXCEPT ![r] = step]
    /\ UNCHANGED outcome

Answer(r, answer) ==
    /\ pc' = [pc EXCEPT ![r] = "ended"]
    /\ outcome' = [outcome EXCEPT ![r] = answer]

\* A session is presented by a browser that has one: the secret that signed it.
Sessions == SignedIn \cup {Installed}
SecretOf(s) == IF s = Installed THEN Installed ELSE held[s]

\* A request arrives.
Begin(r, k) ==
    /\ pc[r] = "new" /\ Cardinality(InFlight) < MaxInFlight
    /\ kind' = [kind EXCEPT ![r] = k]
    /\ \E p \in Passwords \cup {None} :
         /\ k \notin {"login", "reset"} => p = None
         /\ typed' = [typed EXCEPT ![r] = p]
    /\ \E s \in Sessions \cup {None} :
         /\ k \in {"login", "redeem"} => s = None
         /\ cookie' = [cookie EXCEPT ![r] = s]
    /\ \E c \in Codes \cup {None} :
         /\ (c # None) = (k \in {"redeem", "revoke"})
         /\ \A q \in Requests : kind[q] = "mint" /\ code[q] = c /\ c # None => outcome[q] = "minted"
         /\ code' = [code EXCEPT ![r] = c]
    /\ GoTo(r, CASE k = "login" -> "readPassword" [] k = "redeem" -> "getCode"
                 [] OTHER -> "authenticate")
    /\ before' = [before EXCEPT ![r] = Answered]
    /\ UNCHANGED <<kvVars, held, drawn, upgraded, changed>>

-----------------------------------------------------------------------------
(***************************************************************************)
(* generateJWTToken                                                        *)
(***************************************************************************)
ReadPassword(r) ==
    /\ pc[r] = "readPassword"
    /\ LET valid == Valid(typed[r], password) IN
         \/ Unsupported(password) /\ Answer(r, "conflict")
         \/ /\ ~Unsupported(password) /\ ~valid
            /\ Answer(r, "refused")
         \/ /\ valid
            /\ GoTo(r, IF NeedsUpgrade(password) THEN "putUpgrade" ELSE "readSecret")
    /\ UNCHANGED <<kvVars, inputVars, code, held, historyVars>>

\* The verifier that proved the password is replaced by one of today's cost, whatever KV
\* holds by now.
PutUpgrade(r) ==
    /\ pc[r] = "putUpgrade"
    /\ password' = HashPassword(typed[r])
    /\ upgraded' = upgraded \cup {r}
    /\ GoTo(r, "readSecret")
    /\ UNCHANGED <<secret, entries, stale, inputVars, code, held, before, drawn, changed>>

Issued(r) == IF kind[r] = "login" THEN "session" ELSE "enrolled"

\* Faulty variant: a new secret is drawn whether or not there is one.
ReadSecret_Redraw(r) ==
    /\ pc[r] = "readSecret"
    /\ held' = [held EXCEPT ![r] = r]
    /\ GoTo(r, "putSecret")
    /\ UNCHANGED <<kvVars, inputVars, code, historyVars>>

\* The secret is read, and drawn if there is none: the same lines in login and in redeem.
ReadSecret(r) ==
    /\ pc[r] = "readSecret"
    /\ \/ secret # None /\ held' = [held EXCEPT ![r] = secret] /\ Answer(r, Issued(r))
       \/ secret = None /\ held' = [held EXCEPT ![r] = r] /\ GoTo(r, "putSecret")
    /\ UNCHANGED <<kvVars, inputVars, code, historyVars>>

PutSecret(r) ==
    /\ pc[r] = "putSecret"
    /\ secret' = held[r]
    /\ drawn' = drawn \cup {r}
    /\ Answer(r, Issued(r))
    /\ UNCHANGED <<password, entries, stale, inputVars, code, held, before, upgraded, changed>>

-----------------------------------------------------------------------------
(***************************************************************************)
(* authenticate, and what its callers do with the answer.  Any failure,    *)
(* one of KV included, is a request without a session.                     *)
(***************************************************************************)
\* Faulty variant: a session is checked against the secret it carries.
Authentic_AnySecret(r) == cookie[r] # None /\ cookie[r] \notin stale

Authentic(r) ==
    /\ cookie[r] # None /\ cookie[r] \notin stale
    /\ secret # None /\ SecretOf(cookie[r]) = secret

Admit(r, authentic) ==
    \/ /\ kind[r] = "reset"
       /\ GoTo(r, IF authentic THEN "readOld" ELSE "readOldUnsigned")
       /\ UNCHANGED code
    \/ /\ kind[r] # "reset" /\ ~authentic
       /\ Answer(r, "refused") /\ UNCHANGED code
    \/ /\ kind[r] = "view" /\ authentic
       /\ Answer(r, "shown") /\ UNCHANGED code
    \/ /\ kind[r] = "revoke" /\ authentic
       /\ GoTo(r, "deleteCode") /\ UNCHANGED code
    \/ /\ kind[r] = "mint" /\ authentic
       /\ \E c \in Codes :                   \* randomUUID: a token nobody has had
            /\ \A q \in Requests : code[q] # c
            /\ c \notin entries
            /\ code' = [code EXCEPT ![r] = c]
       /\ GoTo(r, "putCode")

Authenticate(r) ==
    /\ pc[r] = "authenticate"
    /\ \/ Admit(r, Authentic(r))
       \/ Faults /\ Admit(r, FALSE)
    /\ UNCHANGED <<kvVars, inputVars, held, historyVars>>

\* resetPassword: only who has no password yet may go without a session.
ReadOld(r) ==
    /\ pc[r] \in {"readOld", "readOldUnsigned"}
    /\ LET signed == pc[r] = "readOld" IN
         \/ /\ password # None /\ ~signed
            /\ Answer(r, "refused")
         \/ /\ password = None \/ signed
            /\ typed[r] = None \/ Valid(typed[r], password)
            /\ Answer(r, "invalid")
         \/ /\ password = None \/ signed
            /\ typed[r] # None /\ ~Valid(typed[r], password)
            /\ GoTo(r, "putPassword")
    /\ UNCHANGED <<kvVars, inputVars, code, held, historyVars>>

\* Faulty variant: a verifier that is there is kept.
PutPassword_IfAbsent(r) ==
    /\ pc[r] = "putPassword"
    /\ password' = IF password = None THEN HashPassword(typed[r]) ELSE password
    /\ changed' = r
    /\ Answer(r, "changed")
    /\ UNCHANGED <<secret, entries, stale, inputVars, code, held, before, drawn, upgraded>>

PutPassword(r) ==
    /\ pc[r] = "putPassword"
    /\ password' = HashPassword(typed[r])
    /\ changed' = r
    /\ Answer(r, "changed")
    /\ UNCHANGED <<secret, entries, stale, inputVars, code, held, before, drawn, upgraded>>

-----------------------------------------------------------------------------
(***************************************************************************)
(* Quick-add codes                                                         *)
(***************************************************************************)
PutCode(r) ==
    /\ pc[r] = "putCode"
    /\ entries' = entries \cup {code[r]}
    /\ Answer(r, "minted")
    /\ UNCHANGED <<password, secret, stale, inputVars, code, held, historyVars>>

GetCode(r) ==
    /\ pc[r] = "getCode"
    /\ \/ /\ code[r] \in entries /\ code[r] \notin stale
          /\ GoTo(r, "deleteCode")
       \/ /\ code[r] \notin entries \/ code[r] \in stale
          /\ Answer(r, "refused")
    /\ UNCHANGED <<kvVars, inputVars, code, held, historyVars>>

\* Faulty variant: the entry is left to expire.
DeleteCode_Keep(r) ==
    /\ pc[r] = "deleteCode"
    /\ \/ kind[r] = "redeem" /\ GoTo(r, "readSecret")
       \/ kind[r] = "revoke" /\ Answer(r, "revoked")
    /\ UNCHANGED <<kvVars, inputVars, code, held, historyVars>>

DeleteCode(r) ==
    /\ pc[r] = "deleteCode"
    /\ entries' = entries \ {code[r]}
    /\ \/ kind[r] = "redeem" /\ GoTo(r, "readSecret")
       \/ kind[r] = "revoke" /\ Answer(r, "revoked")
    /\ UNCHANGED <<password, secret, stale, inputVars, code, held, historyVars>>

-----------------------------------------------------------------------------
\* A refused KV call throws, and the request is answered with an error; what it has put
\* stays.  authenticate catches its own.
CallFails(r) ==
    /\ Faults
    /\ pc[r] \notin {"new", "ended", "authenticate"}
    /\ Answer(r, "error")
    /\ UNCHANGED <<kvVars, inputVars, code, held, historyVars>>

\* Ten minutes pass, or a day.  KV drops the entry of a code no earlier than it expires.
Expires(x) ==
    /\ x \in (Codes \cup Sessions) \ stale
    /\ stale' = stale \cup {x}
    /\ UNCHANGED <<password, secret, entries, inputVars, pc, code, held, outcome, historyVars>>

Step(r) ==
    \/ \E k \in Kinds : Begin(r, k)
    \/ ReadPassword(r) \/ PutUpgrade(r) \/ ReadSecret(r) \/ PutSecret(r)
    \/ Authenticate(r) \/ ReadOld(r) \/ PutPassword(r)
    \/ PutCode(r) \/ GetCode(r) \/ DeleteCode(r)
    \/ CallFails(r)

Next ==
    \/ \E r \in Requests : Step(r)
    \/ \E x \in Perishable : Expires(x)

Spec == Init /\ [][Next]_vars

-----------------------------------------------------------------------------
\* Every variable has its type, and a request that has signed holds what it signed with.
TypeOK ==
    /\ password \in Verifiers \cup {None}
    /\ secret \in Secrets \cup {None}
    /\ entries \subseteq Codes
    /\ stale \subseteq Codes \cup Secrets
    /\ pc \in [Requests -> Steps]
    /\ kind \in [Requests -> Kinds \cup {None}]
    /\ typed \in [Requests -> Passwords \cup {None}]
    /\ cookie \in [Requests -> Secrets \cup {None}]
    /\ code \in [Requests -> Codes \cup {None}]
    /\ held \in [Requests -> Secrets \cup {None}]
    /\ outcome \in [Requests -> Outcomes \cup {None}]
    /\ before \in [Requests -> SUBSET Requests]
    /\ drawn \subseteq Requests /\ upgraded \subseteq Requests
    /\ changed \in Requests \cup {None}
    /\ \A r \in Requests : r \in SignedIn \/ pc[r] = "putSecret" => held[r] # None

\* A code signs in once, and not after it was revoked: whoever gets in with a code came
\* before every answered use of it (quick-add.ts: get, then delete, with no lock between).
CodeServesOnce ==
    \A r, q \in Requests :
        /\ Ended(r) /\ outcome[r] = "enrolled"
        /\ q \in before[r] /\ code[q] = code[r]
        => outcome[q] \notin {"enrolled", "revoked"}

\* A session is honoured until it expires, unless a first sign-in that had already begun when
\* it was issued put a secret of its own (auth.ts: read the secret, draw it, put it).
SessionsSurvive ==
    \A r \in SignedIn :
        held[r] = secret \/ \E q \in drawn \ {r} : r \notin before[q]

\* The password that opens the panel is the last one set, unless a sign-in that had already
\* begun when it was set put its own back (auth.ts: the upgrade puts what was typed).
LastPasswordHolds ==
    changed # None =>
        \/ password.of = typed[changed]
        \/ \E q \in upgraded : changed \notin before[q]

\* Whoever is let in, and whoever changes a password that had been set before it came, showed
\* a session the deployment's secret signed, unless a first sign-in that had not been answered
\* then put another secret (auth.ts: authenticate, and resetPassword's two conditions on it).
AdmitsOnlySessions ==
    \A r \in Answered :
        \/ outcome[r] \in {"shown", "minted", "revoked"}
        \/ outcome[r] = "changed" /\ \E q \in before[r] : outcome[q] = "changed"
        => /\ cookie[r] # None
           /\ SecretOf(cookie[r]) = secret \/ \E q \in drawn : q \notin before[r]

=============================================================================
