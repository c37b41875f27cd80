---------------------------- MODULE SessionsProofs -----------------------------
(***************************************************************************)
(* Theorems about Sessions, for every set of requests, passwords and       *)
(* codes, however many are in flight, whatever KV refuses and whenever a   *)
(* code or a session expires.                                              *)
(***************************************************************************)
EXTENDS Sessions, TLAPS

(***************************************************************************)
(* What a request is, at each of its steps.                                *)
(***************************************************************************)
InHand ==
    \A r \in Requests :
        /\ pc[r] # "ended" => outcome[r] = None
        /\ pc[r] \in {"readPassword", "putUpgrade"} => kind[r] = "login"
        /\ pc[r] = "authenticate" => kind[r] \notin {"login", "redeem"}
        /\ pc[r] \in {"readOld", "readOldUnsigned", "putPassword"} => kind[r] = "reset"
        /\ pc[r] \in {"putUpgrade", "putPassword"} => typed[r] # None
        /\ pc[r] = "putCode" => kind[r] = "mint" /\ code[r] # None
        /\ pc[r] = "getCode" => kind[r] = "redeem"
        /\ pc[r] = "deleteCode" => kind[r] \in {"redeem", "revoke"}
        /\ pc[r] \in {"readSecret", "putSecret"} => kind[r] \in {"login", "redeem"}
        /\ outcome[r] = "enrolled" => kind[r] = "redeem"
        /\ outcome[r] = "revoked" => kind[r] = "revoke"
        /\ kind[r] \in {"redeem", "revoke"} => code[r] # None
        /\ r \in upgraded => pc[r] # "new"

\* Histories speak of requests that have been answered, and a request carries a session
\* that one of them was given.
Past ==
    /\ \A r \in Requests :
         /\ before[r] \subseteq Answered
         /\ cookie[r] \in Sessions \cup {None}
    /\ drawn \subseteq Answered
    /\ changed \in Answered \cup {None}

(***************************************************************************)
(* Codes.                                                                  *)
(***************************************************************************)
\* A code under way to its entry is known to nobody else.
Unshared ==
    \A m, q \in Requests : pc[m] = "putCode" /\ q # m => code[q] # code[m]

\* A code that was used, or whose use has deleted it, has no entry and gets none again.
Used(q) ==
    \/ outcome[q] \in {"enrolled", "revoked"}
    \/ kind[q] = "redeem" /\ pc[q] \in {"readSecret", "putSecret"}

Spent == \A q \in Requests : Used(q) => code[q] \notin entries

\* Whoever comes with a used code is still to look it up, or was turned away.
TurnedAway ==
    \A r, q \in Requests :
        /\ q \in before[r] /\ outcome[q] \in {"enrolled", "revoked"}
        /\ kind[r] = "redeem" /\ code[q] = code[r]
        => pc[r] = "getCode" \/ outcome[r] \in {"refused", "error"}

(***************************************************************************)
(* The secret and the password.                                            *)
(***************************************************************************)
\* Nobody had been signed in when a request that draws a secret began.
FirstDraw ==
    /\ SignedIn # {} => secret # None
    /\ \A q \in Requests : pc[q] = "putSecret" =>
         held[q] = q /\ before[q] \cap SignedIn = {}

\* A password that was set is of today's form, and a sign-in that upgrades one had begun
\* before.
Upgrading ==
    /\ (changed # None \/ \E q \in Requests : outcome[q] = "changed") =>
         password # None /\ password.form = "full"
    /\ \A q \in Requests : pc[q] = "putUpgrade" => changed = None \/ changed \notin before[q]

(***************************************************************************)
(* Authentication.                                                         *)
(***************************************************************************)
Signed(r) ==
    \/ pc[r] \in {"readOld", "putCode"}
    \/ pc[r] = "deleteCode" /\ kind[r] = "revoke"
    \/ outcome[r] \in {"shown", "minted", "revoked"}

Proven(r) ==
    /\ cookie[r] # None
    /\ SecretOf(cookie[r]) = secret \/ \E q \in drawn : q \notin before[r]

Showed ==
    \A r \in Requests :
        /\ Signed(r) => Proven(r)
        /\ pc[r] = "putPassword" \/ outcome[r] = "changed" =>
             Proven(r) \/ \A q \in before[r] : outcome[q] # "changed"

-----------------------------------------------------------------------------
Inv ==
    /\ TypeOK /\ InHand /\ Past
    /\ Unshared /\ Spent /\ TurnedAway
    /\ FirstDraw /\ SessionsSurvive
    /\ Upgrading /\ LastPasswordHolds
    /\ Showed

-----------------------------------------------------------------------------
\* A panel nobody has signed in to is as it should be.
LEMMA InitInv == Init => Inv
<1> SUFFICES ASSUME Init PROVE Inv
  OBVIOUS
<1> USE SessionsAssumption
<1>1. \A r \in Requests : pc[r] = "new" /\ outcome[r] = None /\ kind[r] = None
        /\ code[r] = None /\ cookie[r] = None /\ before[r] = {}
  BY DEF Init
<1>2. Answered = {} /\ SignedIn = {}
  BY <1>1 DEF Answered, SignedIn, Ended
<1>3. None \notin Outcomes
  OBVIOUS
<1>4. TypeOK
  BY <1>1, <1>2 DEF Init, TypeOK, Verifiers, Forms, Secrets, Steps, Outcomes
<1>5. InHand
  BY <1>1, <1>3 DEF Init, InHand, Outcomes, AllKinds
<1>6. Past
  BY <1>1 DEF Init, Past
<1>7. Unshared /\ Spent /\ TurnedAway
  BY <1>1, <1>3 DEF Unshared, Spent, Used, TurnedAway, Outcomes
<1>8. FirstDraw /\ SessionsSurvive
  BY <1>1, <1>2 DEF FirstDraw, SessionsSurvive
<1>9. Upgrading /\ LastPasswordHolds
  BY <1>1, <1>3 DEF Init, Upgrading, LastPasswordHolds, Outcomes
<1>10. Showed
  BY <1>1, <1>3 DEF Showed, Signed, Outcomes
<1> QED BY <1>4, <1>5, <1>6, <1>7, <1>8, <1>9, <1>10 DEF Inv

(***************************************************************************)
(* What a request's step does to the requests, and what it leaves alone.   *)
(***************************************************************************)
LEMMA StepTypes == TypeOK /\ InHand /\ [Next]_vars => TypeOK'
<1> SUFFICES ASSUME TypeOK, InHand, [Next]_vars PROVE TypeOK'
  OBVIOUS
<1> USE SessionsAssumption DEF TypeOK, kvVars, inputVars, historyVars, GoTo, Answer
<1>1. ASSUME NEW r \in Requests, NEW k \in Kinds, Begin(r, k) PROVE TypeOK'
  <2>1. SignedIn \subseteq Requests /\ Answered \subseteq Requests
    BY DEF SignedIn, Answered
  <2> QED BY <1>1, <2>1 DEF Begin, Sessions, SignedIn, Answered, Ended, Secrets, Steps
<1>2. ASSUME NEW r \in Requests, ReadPassword(r) PROVE TypeOK'
  BY <1>2 DEF ReadPassword, SignedIn, Answered, Ended, Steps, Outcomes
<1>3. ASSUME NEW r \in Requests, PutUpgrade(r) PROVE TypeOK'
  <2>1. HashPassword(typed[r]) \in Verifiers
    BY <1>3 DEF PutUpgrade, InHand, HashPassword, Verifiers, Forms
  <2> QED BY <1>3, <2>1 DEF PutUpgrade, SignedIn, Answered, Ended, Steps
<1>4. ASSUME NEW r \in Requests, ReadSecret(r) PROVE TypeOK'
  BY <1>4 DEF ReadSecret, Issued, SignedIn, Answered, Ended, Steps, Outcomes, Secrets
<1>5. ASSUME NEW r \in Requests, PutSecret(r) PROVE TypeOK'
  BY <1>5 DEF PutSecret, Issued, SignedIn, Answered, Ended, Steps, Outcomes
<1>6. ASSUME NEW r \in Requests, Authenticate(r) PROVE TypeOK'
  <2>1. ASSUME NEW signed, Admit(r, signed) PROVE TypeOK'
    BY <1>6, <2>1 DEF Authenticate, Admit, SignedIn, Answered, Ended, Steps, Outcomes
  <2> QED BY <1>6, <2>1 DEF Authenticate
<1>7. ASSUME NEW r \in Requests, ReadOld(r) PROVE TypeOK'
  BY <1>7 DEF ReadOld, SignedIn, Answered, Ended, Steps, Outcomes
<1>8. ASSUME NEW r \in Requests, PutPassword(r) PROVE TypeOK'
  <2>1. HashPassword(typed[r]) \in Verifiers
    BY <1>8 DEF PutPassword, InHand, HashPassword, Verifiers, Forms
  <2> QED BY <1>8, <2>1 DEF PutPassword, SignedIn, Answered, Ended, Steps, Outcomes
<1>9. ASSUME NEW r \in Requests, PutCode(r) PROVE TypeOK'
  BY <1>9 DEF PutCode, InHand, SignedIn, Answered, Ended, Steps, Outcomes
<1>10. ASSUME NEW r \in Requests, GetCode(r) PROVE TypeOK'
  BY <1>10 DEF GetCode, SignedIn, Answered, Ended, Steps, Outcomes
<1>11. ASSUME NEW r \in Requests, DeleteCode(r) PROVE TypeOK'
  BY <1>11 DEF DeleteCode, SignedIn, Answered, Ended, Steps, Outcomes
<1>12. ASSUME NEW r \in Requests, CallFails(r) PROVE TypeOK'
  BY <1>12 DEF CallFails, SignedIn, Answered, Ended, Steps, Outcomes
<1>13. ASSUME NEW x \in Perishable, Expires(x) PROVE TypeOK'
  BY <1>13 DEF Expires, Secrets, SignedIn, Answered, Ended
<1>14. CASE UNCHANGED vars
  BY <1>14 DEF vars, SignedIn, Answered, Ended
<1> QED
  BY <1>1, <1>2, <1>3, <1>4, <1>5, <1>6, <1>7, <1>8, <1>9, <1>10, <1>11, <1>12, <1>13, <1>14
  DEF Next, Step

\* A step concerns one request, which has not been answered.
Same(q) ==
    /\ pc'[q] = pc[q] /\ outcome'[q] = outcome[q] /\ held'[q] = held[q]
    /\ kind'[q] = kind[q] /\ typed'[q] = typed[q] /\ cookie'[q] = cookie[q]
    /\ code'[q] = code[q] /\ before'[q] = before[q]

\* A step of a request is a step of that request only, and ends it with an outcome.
LEMMA StepIsLocal ==
    ASSUME TypeOK, InHand, NEW r \in Requests, Step(r)
    PROVE  /\ pc[r] # "ended" /\ outcome[r] = None
           /\ \A q \in Requests \ {r} : Same(q)
           /\ pc[r] # "new" => kind'[r] = kind[r] /\ typed'[r] = typed[r]
                               /\ cookie'[r] = cookie[r] /\ before'[r] = before[r]
           /\ pc'[r] # "ended" => outcome'[r] = None
           /\ pc'[r] # "new"
           /\ upgraded' \subseteq upgraded \cup {r}
<1> USE DEF TypeOK, Same, kvVars, inputVars, historyVars, GoTo, Answer
<1>1. CASE \E k \in Kinds : Begin(r, k)
  BY <1>1 DEF Begin, InHand
<1>2. CASE ReadPassword(r) \/ PutUpgrade(r) \/ ReadSecret(r) \/ PutSecret(r)
  BY <1>2 DEF ReadPassword, PutUpgrade, ReadSecret, PutSecret, InHand
<1>3. CASE Authenticate(r)
  <2>1. ASSUME NEW signed, Admit(r, signed) PROVE \A q \in Requests \ {r} :
          pc'[q] = pc[q] /\ outcome'[q] = outcome[q] /\ code'[q] = code[q]
    BY <2>1 DEF Admit
  <2>2. ASSUME NEW signed, Admit(r, signed)
        PROVE  (pc'[r] # "ended" => outcome'[r] = outcome[r]) /\ pc'[r] # "new"
    BY <2>2 DEF Admit
  <2>3. \E signed \in BOOLEAN : Admit(r, signed)
    BY <1>3 DEF Authenticate, Authentic
  <2> QED BY <1>3, <2>1, <2>2, <2>3 DEF Authenticate, InHand
<1>4. CASE ReadOld(r) \/ PutPassword(r) \/ PutCode(r)
  BY <1>4 DEF ReadOld, PutPassword, PutCode, InHand
<1>5. CASE GetCode(r) \/ DeleteCode(r) \/ CallFails(r)
  BY <1>5 DEF GetCode, DeleteCode, CallFails, InHand
<1> QED BY <1>1, <1>2, <1>3, <1>4, <1>5 DEF Step

\* What has been answered stays as it is, and so does what a session was signed with.
LEMMA AnswersStay ==
    ASSUME TypeOK, InHand, [Next]_vars
    PROVE  /\ \A q \in Requests : pc[q] = "ended" => Same(q)
           /\ Answered \subseteq Answered'
           /\ SignedIn \subseteq SignedIn'
           /\ \A s \in Sessions : SecretOf(s)' = SecretOf(s)
<1> USE DEF Same
<1>1. \A q \in Requests : pc[q] = "ended" => Same(q)
  <2>1. ASSUME NEW r \in Requests, Step(r) PROVE \A q \in Requests : pc[q] = "ended" => Same(q)
    BY <2>1, StepIsLocal
  <2>2. ASSUME NEW x \in Perishable, Expires(x) PROVE \A q \in Requests : Same(q)
    BY <2>2 DEF Expires, inputVars, historyVars
  <2>3. CASE UNCHANGED vars
    BY <2>3 DEF vars, inputVars, historyVars
  <2> QED BY <2>1, <2>2, <2>3 DEF Next
<1> QED BY <1>1 DEF Answered, SignedIn, Ended, Sessions, SecretOf

\* Whoever `authenticate` lets through as signed in has an authentic session.
LEMMA AuthenticateAdmits ==
    ASSUME NEW r \in Requests, Authenticate(r)
    PROVE  \E signed \in BOOLEAN : Admit(r, signed) /\ (signed => Authentic(r))
BY DEF Authenticate, Authentic

-----------------------------------------------------------------------------
(***************************************************************************)
(* Each part of the invariant is kept.                                     *)
(***************************************************************************)
LEMMA StepInHand == TypeOK /\ InHand /\ [Next]_vars => InHand'
<1> SUFFICES ASSUME TypeOK, InHand, [Next]_vars PROVE InHand'
  OBVIOUS
<1> USE SessionsAssumption
<1>1. ASSUME NEW r \in Requests, Step(r) PROVE InHand'
  <2> USE DEF kvVars, inputVars, historyVars, GoTo, Answer
  <2>1. /\ \A q \in Requests \ {r} : Same(q)
        /\ pc[r] # "ended" /\ outcome[r] = None
        /\ pc'[r] # "ended" => outcome'[r] = None
        /\ pc'[r] # "new" /\ upgraded' \subseteq upgraded \cup {r}
    BY <1>1, StepIsLocal
  <2>2. SUFFICES
          /\ pc'[r] \in {"readPassword", "putUpgrade"} => kind'[r] = "login"
          /\ pc'[r] = "authenticate" => kind'[r] \notin {"login", "redeem"}
          /\ pc'[r] \in {"readOld", "readOldUnsigned", "putPassword"} => kind'[r] = "reset"
          /\ pc'[r] \in {"putUpgrade", "putPassword"} => typed'[r] # None
          /\ pc'[r] = "putCode" => kind'[r] = "mint" /\ code'[r] # None
          /\ pc'[r] = "getCode" => kind'[r] = "redeem"
          /\ pc'[r] = "deleteCode" => kind'[r] \in {"redeem", "revoke"}
          /\ pc'[r] \in {"readSecret", "putSecret"} => kind'[r] \in {"login", "redeem"}
          /\ outcome'[r] = "enrolled" => kind'[r] = "redeem"
          /\ outcome'[r] = "revoked" => kind'[r] = "revoke"
          /\ kind'[r] \in {"redeem", "revoke"} => code'[r] # None
    BY <2>1 DEF InHand, Same
  <2>3. None \notin Outcomes
    OBVIOUS
  <2>4. CASE \E k \in Kinds : Begin(r, k)
    BY <2>1, <2>3, <2>4 DEF Begin, TypeOK, Outcomes
  <2>5. CASE ReadPassword(r)
    <3>1. Valid(typed[r], password) => typed[r] # None
      BY DEF Valid, TypeOK, Verifiers
    <3> QED BY <2>2, <2>5, <2>3, <3>1 DEF ReadPassword, InHand, TypeOK, Outcomes
  <2>6. CASE PutUpgrade(r) \/ ReadSecret(r) \/ PutSecret(r)
    BY <2>2, <2>3, <2>6 DEF PutUpgrade, ReadSecret, PutSecret, Issued, InHand, TypeOK, Outcomes
  <2>7. CASE Authenticate(r)
    <3>1. PICK signed \in BOOLEAN : Admit(r, signed)
      BY <2>7, AuthenticateAdmits
    <3> QED BY <2>2, <2>3, <2>7, <3>1 DEF Authenticate, Admit, InHand, TypeOK, Outcomes
  <2>8. CASE ReadOld(r) \/ PutPassword(r) \/ PutCode(r)
    BY <2>2, <2>3, <2>8 DEF ReadOld, PutPassword, PutCode, InHand, TypeOK, Outcomes
  <2>9. CASE GetCode(r) \/ DeleteCode(r) \/ CallFails(r)
    BY <2>2, <2>3, <2>9 DEF GetCode, DeleteCode, CallFails, InHand, TypeOK, Outcomes
  <2> QED BY <1>1, <2>4, <2>5, <2>6, <2>7, <2>8, <2>9 DEF Step
<1>2. ASSUME NEW x \in Perishable, Expires(x) PROVE InHand'
  BY <1>2 DEF Expires, inputVars, historyVars, InHand
<1>3. CASE UNCHANGED vars
  BY <1>3 DEF vars, inputVars, historyVars, InHand
<1> QED BY <1>1, <1>2, <1>3 DEF Next

\* What the histories say goes on being about answered requests.
LEMMA StepPast == TypeOK /\ InHand /\ Past /\ [Next]_vars => Past'
<1> SUFFICES ASSUME TypeOK, InHand, Past, [Next]_vars PROVE Past'
  OBVIOUS
<1> USE DEF kvVars, inputVars, historyVars
<1>0. Answered \subseteq Answered' /\ Sessions \subseteq Sessions'
  BY AnswersStay DEF Sessions
<1>1. ASSUME NEW r \in Requests, NEW k \in Kinds, Begin(r, k) PROVE Past'
  BY <1>0, <1>1 DEF Begin, Past, TypeOK
<1>2. ASSUME NEW r \in Requests, PutSecret(r) PROVE Past'
  BY <1>0, <1>2 DEF PutSecret, Answer, Past, TypeOK, Answered, Ended
<1>3. ASSUME NEW r \in Requests, PutPassword(r) PROVE Past'
  BY <1>0, <1>3 DEF PutPassword, Answer, Past, TypeOK, Answered, Ended
<1>4. ASSUME UNCHANGED <<before, cookie, drawn, changed>> PROVE Past'
  BY <1>0, <1>4 DEF Past
<1> QED
  BY <1>1, <1>2, <1>3, <1>4
  DEF Next, Step, vars, ReadPassword, PutUpgrade, ReadSecret, Authenticate, ReadOld, PutCode,
      GetCode, DeleteCode, CallFails, Expires

\* A code under way goes on being known to nobody else.
LEMMA StepUnshared == TypeOK /\ InHand /\ Unshared /\ [Next]_vars => Unshared'
<1> SUFFICES ASSUME TypeOK, InHand, Unshared, [Next]_vars PROVE Unshared'
  OBVIOUS
<1> USE SessionsAssumption
<1>1. ASSUME NEW r \in Requests, Step(r) PROVE Unshared'
  <2>1. \A q \in Requests \ {r} : pc'[q] = pc[q] /\ code'[q] = code[q]
    BY <1>1, StepIsLocal DEF Same
  <2>2. ASSUME NEW k \in Kinds, Begin(r, k) PROVE Unshared'
    <3>1. pc'[r] # "putCode"
      BY <2>2 DEF Begin, GoTo, TypeOK
    <3>2. ASSUME NEW m \in Requests \ {r}, pc[m] = "putCode" PROVE code'[r] # code[m]
      <4>1. kind[m] = "mint" /\ code[m] # None /\ outcome[m] = None
        BY <3>2 DEF InHand
      <4> QED BY <2>2, <3>2, <4>1 DEF Begin, TypeOK, Outcomes
    <3> QED BY <2>1, <3>1, <3>2 DEF Unshared
  <2>3. CASE Authenticate(r)
    <3>1. PICK signed \in BOOLEAN : Admit(r, signed)
      BY <2>3, AuthenticateAdmits
    <3>2. CASE UNCHANGED code
      <4>1. pc'[r] # "putCode"
        BY <2>3, <3>1, <3>2 DEF Authenticate, Admit, GoTo, Answer, TypeOK
      <4> QED BY <2>1, <3>2, <4>1 DEF Unshared
    <3>3. CASE ~ UNCHANGED code
      <4>1. \A q \in Requests \ {r} : code[q] # code'[r]
        BY <3>1, <3>3 DEF Admit, TypeOK
      <4> QED BY <2>1, <4>1 DEF Unshared
    <3> QED BY <3>2, <3>3
  <2>4. CASE UNCHANGED code /\ pc'[r] # "putCode"
    BY <2>1, <2>4 DEF Unshared
  <2> QED
    BY <1>1, <2>2, <2>3, <2>4
    DEF Step, ReadPassword, PutUpgrade, ReadSecret, PutSecret, ReadOld, PutPassword, PutCode,
        GetCode, DeleteCode, CallFails, GoTo, Answer, TypeOK, inputVars, historyVars, kvVars
<1>2. ASSUME UNCHANGED <<pc, code>> PROVE Unshared'
  BY <1>2 DEF Unshared
<1> QED BY <1>1, <1>2 DEF Next, Expires, vars

\* A used code never has an entry again.
LEMMA StepSpent ==
    TypeOK /\ InHand /\ Unshared /\ Spent /\ [Next]_vars => Spent'
<1> SUFFICES ASSUME TypeOK, InHand, Unshared, Spent, [Next]_vars PROVE Spent'
  OBVIOUS
<1> USE SessionsAssumption
<1>1. ASSUME NEW r \in Requests, Step(r) PROVE Spent'
  <2> USE DEF kvVars, inputVars, historyVars, GoTo, Answer
  <2>1. /\ \A q \in Requests \ {r} : Used(q)' = Used(q) /\ code'[q] = code[q]
        /\ outcome[r] = None /\ (pc'[r] # "ended" => outcome'[r] = None)
    BY <1>1, StepIsLocal DEF Same, Used
  <2>2. None \notin Outcomes
    OBVIOUS
  <2>3. CASE PutCode(r)
    <3>1. ASSUME NEW q \in Requests \ {r}, Used(q)' PROVE code'[q] \notin entries'
      <4>1. Used(q) /\ code'[q] = code[q] /\ code[q] # code[r]
        BY <2>1, <2>3, <3>1 DEF PutCode, Unshared
      <4> QED BY <2>3, <4>1 DEF PutCode, Spent
    <3>2. ~Used(r)'
      BY <2>3 DEF PutCode, Used, InHand, TypeOK
    <3> QED BY <3>1, <3>2 DEF Spent
  <2>4. CASE DeleteCode(r)
    <3>1. entries' = entries \ {code[r]} /\ code' = code
      BY <2>4 DEF DeleteCode
    <3> QED BY <2>1, <3>1 DEF Spent
  <2>5. CASE ReadSecret(r) \/ PutSecret(r)
    <3>1. entries' = entries /\ code' = code
      BY <2>5 DEF ReadSecret, PutSecret
    <3>2. Used(r)' => Used(r)
      BY <2>1, <2>2, <2>5 DEF ReadSecret, PutSecret, Issued, Used, InHand, TypeOK, Outcomes
    <3> QED BY <2>1, <3>1, <3>2 DEF Spent
  <2>6. ASSUME entries' = entries, ~Used(r)' PROVE Spent'
    BY <2>1, <2>6 DEF Spent
  <2>7. ASSUME NEW k \in Kinds, Begin(r, k) PROVE Spent'
    <3>1. ~Used(r)'
      BY <2>1, <2>2, <2>7 DEF Begin, Used, TypeOK, Outcomes
    <3> QED BY <2>6, <2>7, <3>1 DEF Begin
  <2>8. CASE ReadPassword(r) \/ PutUpgrade(r)
    <3>1. ~Used(r)'
      BY <2>1, <2>2, <2>8 DEF ReadPassword, PutUpgrade, Used, InHand, TypeOK, Outcomes
    <3> QED BY <2>6, <2>8, <3>1 DEF ReadPassword, PutUpgrade
  <2>9. CASE Authenticate(r)
    <3>1. PICK signed \in BOOLEAN : Admit(r, signed)
      BY <2>9, AuthenticateAdmits
    <3>2. ~Used(r)'
      BY <2>1, <2>2, <2>9, <3>1 DEF Authenticate, Admit, Used, TypeOK, Outcomes
    <3> QED BY <2>6, <2>9, <3>2 DEF Authenticate
  <2>10. CASE ReadOld(r) \/ PutPassword(r)
    <3>1. ~Used(r)'
      BY <2>1, <2>2, <2>10 DEF ReadOld, PutPassword, Used, TypeOK, Outcomes
    <3> QED BY <2>6, <2>10, <3>1 DEF ReadOld, PutPassword
  <2>11. CASE GetCode(r) \/ CallFails(r)
    <3>1. ~Used(r)'
      BY <2>1, <2>2, <2>11 DEF GetCode, CallFails, Used, TypeOK, Outcomes
    <3> QED BY <2>6, <2>11, <3>1 DEF GetCode, CallFails
  <2> QED
    BY <1>1, <2>3, <2>4, <2>5, <2>7, <2>8, <2>9, <2>10, <2>11 DEF Step
<1>2. ASSUME UNCHANGED <<pc, code, outcome, kind, entries>> PROVE Spent'
  BY <1>2 DEF Spent, Used
<1> QED BY <1>1, <1>2 DEF Next, Expires, vars, kvVars, inputVars

\* Whoever comes with a used code is yet to look, or turned away.
LEMMA StepTurnedAway ==
    TypeOK /\ InHand /\ Past /\ Spent /\ TurnedAway /\ [Next]_vars => TurnedAway'
<1> SUFFICES ASSUME TypeOK, InHand, Past, Spent, TurnedAway, [Next]_vars,
                    NEW r \in Requests, NEW q \in Requests,
                    q \in before'[r], outcome'[q] \in {"enrolled", "revoked"},
                    kind'[r] = "redeem", code'[q] = code'[r]
             PROVE  pc'[r] = "getCode" \/ outcome'[r] \in {"refused", "error"}
  BY DEF TurnedAway
<1> USE SessionsAssumption
<1>1. ASSUME Step(r)
      PROVE  pc'[r] = "getCode" \/ outcome'[r] \in {"refused", "error"}
  <2> USE DEF GoTo, Answer, kvVars, inputVars, historyVars
  <2>1. ASSUME NEW k \in Kinds, Begin(r, k) PROVE pc'[r] = "getCode"
    BY <2>1 DEF Begin, TypeOK
  <2>2. ASSUME pc[r] # "new"
        PROVE  /\ q \in before[r] /\ outcome[q] \in {"enrolled", "revoked"}
               /\ kind[r] = "redeem" /\ Same(q) /\ pc[r] # "ended" /\ outcome[r] = None
    BY <1>1, <2>2, StepIsLocal, AnswersStay DEF Past, Answered, Ended, Same
  <2>3. ASSUME pc[r] # "new", code'[r] = code[r] PROVE pc[r] = "getCode"
    BY <2>2, <2>3 DEF TurnedAway, Same, Outcomes
  <2>4. CASE GetCode(r)
    BY <2>2, <2>4 DEF GetCode, Spent, Used, Same, TypeOK
  <2>5. CASE CallFails(r)
    BY <2>5 DEF CallFails, TypeOK
  <2>6. CASE Authenticate(r)
    BY <2>2, <2>6 DEF Authenticate, InHand
  <2>7. CASE pc[r] \notin {"new", "getCode", "authenticate"} /\ code' = code
    BY <2>3, <2>7
  <2> QED
    BY <1>1, <2>1, <2>4, <2>5, <2>6, <2>7
    DEF Step, ReadPassword, PutUpgrade, ReadSecret, PutSecret, ReadOld, PutPassword, PutCode,
        DeleteCode
<1>2. ASSUME Same(r) PROVE pc'[r] = "getCode" \/ outcome'[r] \in {"refused", "error"}
  <2>1. q \in before[r] /\ kind[r] = "redeem" /\ Same(q)
    BY <1>2, AnswersStay DEF Same, Past, Answered, Ended
  <2> QED BY <1>2, <2>1 DEF TurnedAway, Same
<1>3. ASSUME NEW p \in Requests \ {r}, Step(p) PROVE Same(r)
  BY <1>3, StepIsLocal
<1>4. ASSUME UNCHANGED <<pc, outcome, held, inputVars, code, before>> PROVE Same(r)
  BY <1>4 DEF Same, inputVars
<1> QED BY <1>1, <1>2, <1>3, <1>4 DEF Next, Expires, vars, historyVars

\* Secrets are drawn by early requests only, so sessions survive.
LEMMA StepSecret ==
    TypeOK /\ InHand /\ Past /\ FirstDraw /\ SessionsSurvive /\ [Next]_vars =>
      FirstDraw' /\ SessionsSurvive'
<1> SUFFICES ASSUME TypeOK, InHand, Past, FirstDraw, SessionsSurvive, [Next]_vars
             PROVE  FirstDraw' /\ SessionsSurvive'
  OBVIOUS
<1> USE SessionsAssumption
<1>0. /\ \A q \in Answered : Same(q)
      /\ Answered \subseteq Answered'
      /\ drawn \subseteq Answered
  BY AnswersStay DEF Answered, Ended, Past
<1>1. ASSUME NEW r \in Requests, Step(r), secret' = secret, pc'[r] # "putSecret", drawn' = drawn,
             r \in SignedIn' => secret # None /\ held'[r] = secret
      PROVE  FirstDraw' /\ SessionsSurvive'
  <2>1. \A q \in Requests \ {r} : Same(q)
    BY <1>1, StepIsLocal
  <2>2. SignedIn' \subseteq SignedIn \cup {r}
    BY <2>1 DEF SignedIn, Answered, Ended, Same
  <2>3. FirstDraw'
    <3>1. ASSUME NEW q \in Requests, pc'[q] = "putSecret"
          PROVE  held'[q] = q /\ before'[q] \cap SignedIn' = {}
      <4>1. q # r /\ pc[q] = "putSecret" /\ Same(q)
        BY <1>1, <2>1, <3>1 DEF Same
      <4>2. r \notin before[q]
        BY <1>1, StepIsLocal DEF Past, Answered, Ended
      <4> QED BY <2>2, <4>1, <4>2 DEF FirstDraw, Same
    <3> QED BY <1>1, <2>2, <3>1 DEF FirstDraw
  <2>4. SessionsSurvive'
    <3>1. \A q \in drawn : Same(q)
      BY <1>0
    <3>2. \A q \in SignedIn : q # r /\ Same(q)
      BY <1>0, <1>1, StepIsLocal DEF SignedIn, Answered, Ended
    <3> QED BY <1>1, <2>2, <3>1, <3>2 DEF SessionsSurvive, Same
  <2> QED BY <2>3, <2>4
<1>2. ASSUME NEW r \in Requests, ReadSecret(r) PROVE FirstDraw' /\ SessionsSurvive'
  <2> USE DEF kvVars, inputVars, historyVars, GoTo, Answer
  <2>1. CASE secret # None
    <3>1. Step(r)
      BY <1>2 DEF Step
    <3>2. secret' = secret /\ pc'[r] = "ended" /\ drawn' = drawn /\ held'[r] = secret
      BY <1>2, <2>1 DEF ReadSecret, TypeOK
    <3> QED BY <1>1, <2>1, <3>1, <3>2
  <2>2. CASE secret = None
    <3>1. SignedIn = {}
      BY <2>2 DEF FirstDraw
    <3>2. /\ pc' = [pc EXCEPT ![r] = "putSecret"] /\ held' = [held EXCEPT ![r] = r]
          /\ outcome' = outcome /\ secret' = secret /\ before' = before
      BY <1>2, <2>2 DEF ReadSecret
    <3>3. SignedIn' = {}
      BY <1>2, <3>1, <3>2 DEF SignedIn, Answered, Ended, TypeOK
    <3>4. FirstDraw'
      BY <1>2, <3>2, <3>3 DEF FirstDraw, TypeOK
    <3> QED BY <3>3, <3>4 DEF SessionsSurvive
  <2> QED BY <2>1, <2>2
<1>3. ASSUME NEW r \in Requests, PutSecret(r) PROVE FirstDraw' /\ SessionsSurvive'
  <2> USE DEF kvVars, inputVars, historyVars, GoTo, Answer
  <2>1. /\ pc[r] = "putSecret" /\ held[r] = r /\ held' = held /\ secret' = r /\ r # None
        /\ before' = before /\ drawn' = drawn \cup {r} /\ pc' = [pc EXCEPT ![r] = "ended"]
    BY <1>3 DEF PutSecret, FirstDraw
  <2>2. r \notin Answered /\ SignedIn' \subseteq SignedIn \cup {r}
    BY <1>3, <2>1 DEF PutSecret, SignedIn, Answered, Ended, TypeOK
  <2>3. FirstDraw'
    <3>1. \A q \in Requests : r \notin before[q]
      BY <2>2 DEF Past
    <3> QED BY <2>1, <2>2, <3>1 DEF FirstDraw, TypeOK
  <2>4. SessionsSurvive'
    <3>1. ASSUME NEW s \in SignedIn', s # r PROVE r \in drawn' \ {s} /\ s \notin before'[r]
      <4>1. s \in SignedIn
        BY <2>2, <3>1
      <4> QED BY <1>3, <2>1, <3>1, <4>1 DEF FirstDraw
    <3> QED BY <2>1, <3>1 DEF SessionsSurvive
  <2> QED BY <2>3, <2>4
<1>4. ASSUME NEW r \in Requests, Step(r), secret' = secret, drawn' = drawn, r \notin SignedIn',
             pc'[r] # "putSecret"
      PROVE  FirstDraw' /\ SessionsSurvive'
  BY <1>1, <1>4
<1>5. ASSUME NEW r \in Requests, Step(r), ~ReadSecret(r), ~PutSecret(r)
      PROVE  FirstDraw' /\ SessionsSurvive'
  <2>1. SUFFICES /\ secret' = secret /\ drawn' = drawn /\ pc'[r] # "putSecret"
                 /\ (pc'[r] = "ended" => outcome'[r] \notin {"session", "enrolled"})
    BY <1>4, <1>5 DEF SignedIn, Answered, Ended
  <2> USE DEF kvVars, inputVars, historyVars, GoTo, Answer, TypeOK, Outcomes
  <2>2. CASE \E k \in Kinds : Begin(r, k)
    BY <2>2 DEF Begin
  <2>3. CASE ReadPassword(r) \/ PutUpgrade(r)
    BY <2>3 DEF ReadPassword, PutUpgrade
  <2>4. CASE Authenticate(r)
    <3>1. PICK signed \in BOOLEAN : Admit(r, signed)
      BY <2>4, AuthenticateAdmits
    <3> QED BY <2>4, <3>1 DEF Authenticate, Admit
  <2>5. CASE ReadOld(r) \/ PutPassword(r) \/ PutCode(r)
    BY <2>5 DEF ReadOld, PutPassword, PutCode
  <2>6. CASE GetCode(r) \/ DeleteCode(r) \/ CallFails(r)
    BY <2>6 DEF GetCode, DeleteCode, CallFails
  <2> QED BY <1>5, <2>2, <2>3, <2>4, <2>5, <2>6 DEF Step
<1>6. ASSUME UNCHANGED <<pc, outcome, held, secret, before, drawn>>
      PROVE  FirstDraw' /\ SessionsSurvive'
  BY <1>6 DEF FirstDraw, SessionsSurvive, SignedIn, Answered, Ended
<1> QED BY <1>2, <1>3, <1>5, <1>6 DEF Next, Expires, vars, historyVars, kvVars

\* Upgrades of verifiers are early or of the last password, so that one holds.
LEMMA StepPassword ==
    TypeOK /\ InHand /\ Past /\ Upgrading /\ LastPasswordHolds /\ [Next]_vars =>
      Upgrading' /\ LastPasswordHolds'
<1> SUFFICES ASSUME TypeOK, InHand, Past, Upgrading, LastPasswordHolds, [Next]_vars
             PROVE  Upgrading' /\ LastPasswordHolds'
  OBVIOUS
<1> USE SessionsAssumption DEF kvVars, inputVars, historyVars, GoTo, Answer
<1>0. \A p \in Passwords : /\ HashPassword(p) # None /\ HashPassword(p).of = p
                           /\ HashPassword(p).form = "full"
  BY DEF HashPassword, Verifiers, Forms
<1>1. ASSUME NEW r \in Requests, ReadPassword(r) PROVE Upgrading' /\ LastPasswordHolds'
  <2>1. pc'[r] = "putUpgrade" => changed = None
    BY <1>1 DEF ReadPassword, Valid, NeedsUpgrade, Upgrading, TypeOK
  <2>2. outcome'[r] # "changed" /\ \A q \in Requests \ {r} :
          outcome'[q] = outcome[q] /\ pc'[q] = pc[q]
    BY <1>1 DEF ReadPassword, InHand, TypeOK, Outcomes
  <2>3. UNCHANGED <<password, changed, before, typed, upgraded>>
    BY <1>1 DEF ReadPassword
  <2> QED BY <2>1, <2>2, <2>3 DEF Upgrading, LastPasswordHolds
<1>2. ASSUME NEW r \in Requests, PutUpgrade(r) PROVE Upgrading' /\ LastPasswordHolds'
  <2>1. typed[r] \in Passwords
    BY <1>2 DEF PutUpgrade, InHand, TypeOK
  <2>2. changed = None \/ changed \notin before[r]
    BY <1>2 DEF PutUpgrade, Upgrading
  <2> QED BY <1>0, <1>2, <2>1, <2>2 DEF PutUpgrade, Upgrading, LastPasswordHolds, TypeOK
<1>3. ASSUME NEW r \in Requests, PutPassword(r) PROVE Upgrading' /\ LastPasswordHolds'
  <2>1. typed[r] \in Passwords /\ \A q \in Requests : r \notin before[q]
    BY <1>3 DEF PutPassword, InHand, TypeOK, Past, Answered, Ended
  <2> QED BY <1>0, <1>3, <2>1 DEF PutPassword, Upgrading, LastPasswordHolds, TypeOK
<1>4. ASSUME NEW r \in Requests, Step(r), UNCHANGED <<password, changed, upgraded>>,
             pc'[r] # "putUpgrade", outcome'[r] # "changed"
      PROVE  Upgrading' /\ LastPasswordHolds'
  <2>1. \A q \in Requests \ {r} : Same(q)
    BY <1>4, StepIsLocal
  <2>2. Upgrading'
    BY <1>4, <2>1 DEF Upgrading, Same
  <2>3. ASSUME changed # None PROVE typed'[changed] = typed[changed]
    BY <2>3, AnswersStay DEF Past, Answered, Ended, Same
  <2>4. ASSUME NEW q \in upgraded PROVE before'[q] = before[q]
    BY <1>4, <2>1, <2>4, StepIsLocal DEF InHand, TypeOK, Same
  <2> QED BY <1>4, <2>2, <2>3, <2>4 DEF LastPasswordHolds, TypeOK
<1>5. ASSUME NEW r \in Requests, Step(r), ~ReadPassword(r), ~PutUpgrade(r), ~PutPassword(r)
      PROVE  Upgrading' /\ LastPasswordHolds'
  <2>1. SUFFICES /\ UNCHANGED <<password, changed, upgraded>>
                 /\ pc'[r] # "putUpgrade" /\ outcome'[r] # "changed"
    BY <1>4, <1>5
  <2> USE DEF TypeOK, Outcomes
  <2>2. outcome[r] = None
    BY <1>5, StepIsLocal
  <2>3. CASE \E k \in Kinds : Begin(r, k)
    BY <2>2, <2>3 DEF Begin
  <2>4. CASE ReadSecret(r) \/ PutSecret(r)
    BY <2>2, <2>4 DEF ReadSecret, PutSecret, Issued
  <2>5. CASE Authenticate(r)
    <3>1. PICK signed \in BOOLEAN : Admit(r, signed)
      BY <2>5, AuthenticateAdmits
    <3> QED BY <2>2, <2>5, <3>1 DEF Authenticate, Admit
  <2>6. CASE ReadOld(r) \/ PutCode(r)
    BY <2>2, <2>6 DEF ReadOld, PutCode
  <2>7. CASE GetCode(r) \/ DeleteCode(r) \/ CallFails(r)
    BY <2>2, <2>7 DEF GetCode, DeleteCode, CallFails
  <2> QED BY <1>5, <2>3, <2>4, <2>5, <2>6, <2>7 DEF Step
<1>6. ASSUME UNCHANGED <<password, pc, outcome, typed, before, upgraded, changed>>
      PROVE  Upgrading' /\ LastPasswordHolds'
  BY <1>6 DEF Upgrading, LastPasswordHolds
<1> QED BY <1>1, <1>2, <1>3, <1>5, <1>6 DEF Next, Expires, vars

\* What a request has proven stays proven: a secret that replaces the one it was checked
\* against is put by a request that had not been answered when it began.
LEMMA ProvenStays ==
    ASSUME TypeOK, InHand, Past, FirstDraw, [Next]_vars, NEW r \in Requests, Proven(r),
           cookie'[r] = cookie[r], before'[r] = before[r]
    PROVE  Proven(r)'
<1>1. SecretOf(cookie[r])' = SecretOf(cookie[r])
  BY AnswersStay DEF Proven, Past
<1>2. \/ secret' = secret /\ drawn' = drawn
      \/ \E q \in Requests : q \in drawn' /\ q \notin before[r] /\ drawn \subseteq drawn'
  <2>1. ASSUME NEW q \in Requests, PutSecret(q)
        PROVE  q \in drawn' /\ q \notin before[r] /\ drawn \subseteq drawn'
    BY <2>1 DEF PutSecret, Past, Answered, Ended
  <2>2. CASE \A q \in Requests : ~PutSecret(q)
    BY <2>2
    DEF Next, Step, Begin, ReadPassword, PutUpgrade, ReadSecret, Authenticate, ReadOld,
        PutPassword, PutCode, GetCode, DeleteCode, CallFails, Expires, vars, kvVars, historyVars
  <2> QED BY <2>1, <2>2
<1> QED BY <1>1, <1>2 DEF Proven

\* Nobody gets past `authenticate` without having shown a session.
LEMMA StepShowed ==
    TypeOK /\ InHand /\ Past /\ FirstDraw /\ Upgrading /\ Showed /\ [Next]_vars => Showed'
<1> SUFFICES ASSUME TypeOK, InHand, Past, FirstDraw, Upgrading, Showed, [Next]_vars
             PROVE  Showed'
  OBVIOUS
<1> USE SessionsAssumption DEF GoTo, Answer, kvVars, inputVars, historyVars
<1> DEFINE Fine(r) ==
      /\ Signed(r) => Proven(r)
      /\ pc[r] = "putPassword" \/ outcome[r] = "changed" =>
           Proven(r) \/ \A q \in before[r] : outcome[q] # "changed"
<1>1. ASSUME NEW r \in Requests, NEW q \in before[r], before'[r] = before[r]
      PROVE  outcome'[q] = outcome[q]
  BY <1>1, AnswersStay DEF Past, Answered, Ended, Same
<1>2. ASSUME NEW r \in Requests, Same(r) PROVE Fine(r)'
  <2>1. Signed(r)' = Signed(r) /\ cookie'[r] = cookie[r] /\ before'[r] = before[r]
    BY <1>2 DEF Signed, Same
  <2>2. Proven(r) => Proven(r)'
    BY <2>1, ProvenStays
  <2> QED BY <1>1, <1>2, <2>1, <2>2 DEF Showed, Same
<1>3. ASSUME NEW r \in Requests, Step(r) PROVE Fine(r)'
  <2>1. outcome[r] = None /\ (pc'[r] # "ended" => outcome'[r] = None)
    BY <1>3, StepIsLocal
  <2>2. pc[r] # "new" => cookie'[r] = cookie[r] /\ before'[r] = before[r] /\ kind'[r] = kind[r]
    BY <1>3, StepIsLocal
  <2>3. pc[r] # "new" /\ Proven(r) => Proven(r)'
    BY <2>2, ProvenStays
  <2>4. ASSUME ~Signed(r)', pc'[r] # "putPassword", outcome'[r] # "changed" PROVE Fine(r)'
    BY <2>4
  <2>5. CASE \E k \in Kinds : Begin(r, k)
    BY <2>1, <2>4, <2>5 DEF Begin, Signed, TypeOK, Outcomes
  <2>6. CASE ReadPassword(r) \/ PutUpgrade(r)
    BY <2>1, <2>4, <2>6 DEF ReadPassword, PutUpgrade, Signed, TypeOK, Outcomes
  <2>7. CASE ReadSecret(r) \/ PutSecret(r)
    BY <2>1, <2>4, <2>7 DEF ReadSecret, PutSecret, Issued, Signed, TypeOK, Outcomes
  <2>8. CASE Authenticate(r)
    <3>1. PICK signed \in BOOLEAN : Admit(r, signed) /\ (signed => Authentic(r))
      BY <2>8, AuthenticateAdmits
    <3>2. CASE signed
      <4>1. Proven(r)
        BY <3>1, <3>2 DEF Authentic, Proven
      <4>2. pc[r] = "authenticate" /\ pc'[r] # "putPassword" /\ outcome'[r] # "changed"
        BY <2>1, <2>8, <3>1 DEF Authenticate, Admit, TypeOK, Outcomes
      <4> QED BY <2>3, <4>1, <4>2
    <3>3. CASE ~signed
      BY <2>1, <2>4, <2>8, <3>1, <3>3 DEF Authenticate, Admit, Signed, TypeOK, Outcomes
    <3> QED BY <3>2, <3>3
  <2>9. CASE ReadOld(r)
    <3>1. ~Signed(r)'
      BY <2>1, <2>9 DEF ReadOld, Signed, TypeOK, Outcomes
    <3>2. CASE pc'[r] = "putPassword"
      <4>1. Proven(r) \/ \A q \in before[r] : outcome[q] # "changed"
        BY <2>9, <3>2 DEF ReadOld, Signed, Showed, Upgrading, Past, Answered, TypeOK
      <4> QED BY <1>1, <2>2, <2>3, <2>9, <3>1, <4>1 DEF ReadOld
    <3>3. CASE pc'[r] # "putPassword"
      BY <2>1, <2>4, <2>9, <3>1, <3>3 DEF ReadOld, TypeOK, Outcomes
    <3> QED BY <3>2, <3>3
  <2>10. CASE PutPassword(r)
    <3>1. ~Signed(r)'
      BY <2>1, <2>10 DEF PutPassword, Signed, TypeOK, Outcomes
    <3>2. Proven(r) \/ \A q \in before[r] : outcome[q] # "changed"
      BY <2>10 DEF PutPassword, Showed
    <3> QED BY <1>1, <2>2, <2>3, <2>10, <3>1, <3>2 DEF PutPassword
  <2>11. CASE PutCode(r)
    <3>1. Proven(r) /\ pc'[r] = "ended" /\ outcome'[r] = "minted"
      BY <2>11 DEF PutCode, Signed, Showed, TypeOK
    <3> QED BY <2>3, <2>11, <3>1 DEF PutCode
  <2>12. CASE GetCode(r)
    <3>1. kind[r] = "redeem"
      BY <2>12 DEF GetCode, InHand
    <3> QED BY <2>1, <2>2, <2>4, <2>12, <3>1 DEF GetCode, Signed, TypeOK, Outcomes
  <2>13. CASE DeleteCode(r)
    <3>1. Signed(r)' => Signed(r)
      BY <2>1, <2>2, <2>13 DEF DeleteCode, Signed, TypeOK, Outcomes
    <3>2. pc'[r] # "putPassword" /\ outcome'[r] # "changed"
      BY <2>1, <2>13 DEF DeleteCode, TypeOK, Outcomes
    <3> QED BY <2>3, <2>13, <3>1, <3>2 DEF DeleteCode, Showed
  <2>14. CASE CallFails(r)
    BY <2>1, <2>4, <2>14 DEF CallFails, Signed, TypeOK, Outcomes
  <2> QED
    BY <1>3, <2>5, <2>6, <2>7, <2>8, <2>9, <2>10, <2>11, <2>12, <2>13, <2>14 DEF Step
<1>4. ASSUME NEW x \in Perishable, Expires(x), NEW r \in Requests PROVE Same(r)
  BY <1>4 DEF Expires, Same
<1>5. ASSUME UNCHANGED vars, NEW r \in Requests PROVE Same(r)
  BY <1>5 DEF vars, Same
<1>6. \A r \in Requests : Fine(r)'
  <2> HIDE DEF Fine
  <2> QED BY <1>2, <1>3, <1>4, <1>5, StepIsLocal DEF Next
<1> QED BY <1>6 DEF Showed

-----------------------------------------------------------------------------
\* Inv holds in every state a deployment can reach.
THEOREM Invariance == Spec => []Inv
<1>1. Inv /\ [Next]_vars => Inv'
  BY StepTypes, StepInHand, StepPast, StepUnshared, StepSpent, StepTurnedAway, StepSecret,
     StepPassword, StepShowed
  DEF Inv
<1> QED BY InitInv, <1>1, PTL DEF Spec

\* Every request and every value in KV has its type (auth.ts, quick-add.ts).
THEOREM SessionsTypeCorrect == Spec => []TypeOK
BY Invariance, PTL DEF Inv

\* A code signs in once and not after its revocation, however the lookups and the deletions
\* of quick-add.ts interleave, and whichever of them KV refuses.
THEOREM CodesServeOnce == Spec => []CodeServesOnce
<1>1. Inv => CodeServesOnce
  <2> SUFFICES ASSUME Inv, NEW r \in Requests, NEW q \in Requests,
                      Ended(r), outcome[r] = "enrolled", q \in before[r], code[q] = code[r],
                      outcome[q] \in {"enrolled", "revoked"}
               PROVE  FALSE
    BY DEF CodeServesOnce
  <2>1. kind[r] = "redeem"
    BY DEF Inv, InHand
  <2> QED BY <2>1 DEF Inv, TurnedAway, Ended
<1> QED BY Invariance, <1>1, PTL

\* A session survives every other sign-in but a first one that was under way when it was
\* issued (auth.ts: the secret is drawn where none is found).
THEOREM SessionsStaySigned == Spec => []SessionsSurvive
BY Invariance, PTL DEF Inv

\* The last password set is the one that opens the panel, but for the upgrade of a sign-in
\* that was under way when it was set (auth.ts, password.ts).
THEOREM LastPasswordOpens == Spec => []LastPasswordHolds
BY Invariance, PTL DEF Inv

\* Whoever is let in showed a session the deployment signed, and so did whoever changed a
\* password that had been set (authenticate and resetPassword).
THEOREM OnlySessionsEnter == Spec => []AdmitsOnlySessions
<1>1. Inv => AdmitsOnlySessions
  <2> SUFFICES ASSUME Inv, NEW r \in Answered,
                      \/ outcome[r] \in {"shown", "minted", "revoked"}
                      \/ outcome[r] = "changed" /\ \E q \in before[r] : outcome[q] = "changed"
               PROVE  Proven(r)
    BY DEF AdmitsOnlySessions, Proven
  <2>1. r \in Requests
    BY DEF Answered
  <2> QED BY <2>1 DEF Inv, Showed, Signed
<1> QED BY Invariance, <1>1, PTL
=============================================================================
