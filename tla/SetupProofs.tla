---------------------------- MODULE SetupProofs ----------------------------
(***************************************************************************)
(* Theorems about Setup, for every set of isolates and requests, whatever  *)
(* the environment pins and whatever fails.                                *)
(***************************************************************************)
EXTENDS Setup, TLAPS

\* Answering a request and moving it on keep the types of what they change.
LEMMA MoveType ==
    ASSUME TypeOK, NEW r \in Requests,
           \/ \E step \in Steps : GoTo(r, step)
           \/ \E how \in Outcomes : Answer(r, how)
    PROVE  /\ pc' \in [Requests -> Steps]
           /\ outcome' \in [Requests -> Outcomes]
  BY DEF TypeOK, GoTo, Answer, Steps

\* Laying the environment over a record gives a record, and doing it twice
\* changes nothing more.
LEMMA ApplyEnvRecord ==
    ASSUME NEW rec \in Records
    PROVE  /\ ApplyEnv(rec) \in Records
           /\ ApplyEnv(ApplyEnv(rec)) = ApplyEnv(rec)
  BY DEF ApplyEnv, Records, Paths, Emails

\* A fresh or stored document is a record.
LEMMA NormaliseRecord ==
    ASSUME NEW r \in Requests, NEW d \in Records \cup {None}
    PROVE  Normalise(d, r) \in Records
  BY DEF Normalise, EmptyRecord, Records, Paths, Emails

\* So is what a claim or a save writes back.
LEMMA ChangedRecord ==
    ASSUME TypeOK, InHand, NEW r \in Requests, pc[r] = "writeRecord"
    PROVE  Changed(r) \in Records
  <1>1. doc[r] \in Records
    BY DEF InHand
  <1>2. CASE kind[r] = "claim"
    BY <1>1, <1>2 DEF Changed, ClaimEmail, Records, Emails
  <1>3. CASE kind[r] # "claim"
    <2>1. form[r] \in Paths
      BY <1>3 DEF InHand
    <2> QED  BY <1>1, <1>3, <2>1 DEF Changed, Records
  <1> QED  BY <1>2, <1>3

-----------------------------------------------------------------------------
\* A deployment starts in the types, with nothing in hand.
LEMMA InitTypeOK == Init => TypeOK /\ InHand
  <1> SUFFICES ASSUME Init PROVE TypeOK /\ InHand
    OBVIOUS
  <1>1. kvIdentity \in Records \cup {None, Corrupt}
    <2>1. PICK s \in Starts : kvIdentity = StartDoc(s)
      BY DEF Init
    <2>2. s \in {"absent", "corrupt", "deployed"}
      BY ConstantsAssumption
    <2>3. [path |-> FirstPath, email |-> None] \in Records
      BY DEF Records, Paths, Emails
    <2> QED  BY <2>1, <2>2, <2>3 DEF StartDoc
  <1>2. TypeOK
    BY <1>1 DEF Init, TypeOK, Steps, Outcomes
  <1>3. InHand
    BY DEF Init, InHand
  <1> QED  BY <1>2, <1>3

\* No step leaves the types.
LEMMA NextTypeOK == TypeOK /\ InHand /\ [Next]_vars => TypeOK'
  <1> SUFFICES ASSUME TypeOK, InHand, [Next]_vars PROVE TypeOK'
    OBVIOUS
  <1> USE DEF vars, kvVars, isolateVars, requestVars, historyVars
  <1>1. ASSUME NEW r \in Requests, Begin(r) PROVE TypeOK'
    <2>1. pc' \in [Requests -> Steps] /\ outcome' \in [Requests -> Outcomes]
      BY <1>1, MoveType DEF Begin, Route, Steps, KvSteps
    <2>2. ident' \in [Requests -> Records \cup {None}]
      BY <1>1 DEF Begin, Adopt, TypeOK
    <2>3. resolved' \in [Isolates -> Records \cup {None}]
      BY <1>1 DEF Begin, Adopt, TypeOK
    <2>4. lateStart' \subseteq Requests
      BY <1>1 DEF Begin, TypeOK
    <2> QED  BY <1>1, <2>1, <2>2, <2>3, <2>4 DEF Begin, TypeOK
  <1>2. ASSUME NEW r \in Requests, GetIdentity(r) PROVE TypeOK'
    <2>1. pc' \in [Requests -> Steps] /\ outcome' \in [Requests -> Outcomes]
      BY <1>2, MoveType DEF GetIdentity, Steps, KvSteps, Outcomes
    <2>2. kvIdentity # Corrupt =>
             ApplyEnv(Normalise(kvIdentity, r)) \in Records
      BY NormaliseRecord, ApplyEnvRecord DEF TypeOK
    <2> QED  BY <1>2, <2>1, <2>2 DEF GetIdentity, TypeOK
  <1>3. ASSUME NEW r \in Requests, Bootstrap(r) PROVE TypeOK'
    <2>1. pc' \in [Requests -> Steps] /\ outcome' \in [Requests -> Outcomes]
      BY <1>3, MoveType DEF Bootstrap, Steps, KvSteps
    <2>2. doc[r] \in Records
      BY <1>3 DEF Bootstrap, InHand
    <2> QED  BY <1>3, <2>1, <2>2 DEF Bootstrap, StoreRecord, TypeOK
  <1>4. ASSUME NEW r \in Requests, Install(r) PROVE TypeOK'
    <2>1. pc' \in [Requests -> Steps] /\ outcome' \in [Requests -> Outcomes]
      BY <1>4, MoveType DEF Install, Route, Steps, KvSteps
    <2>2. doc[r] \in Records
      BY <1>4 DEF Install, InHand
    <2> QED  BY <1>4, <2>1, <2>2 DEF Install, Adopt, TypeOK
  <1>5. ASSUME NEW r \in Requests,
               \/ NeedsSetup(r) \/ Recheck(r) \/ Hash(r) \/ Authenticate(r)
        PROVE  TypeOK'
    <2>1. pc' \in [Requests -> Steps] /\ outcome' \in [Requests -> Outcomes]
      BY <1>5, MoveType
         DEF NeedsSetup, Recheck, Hash, Authenticate, Steps, KvSteps, Outcomes
    <2> QED
      BY <1>5, <2>1 DEF NeedsSetup, Recheck, Hash, Authenticate, TypeOK
  <1>6. ASSUME NEW r \in Requests, WritePassword(r) PROVE TypeOK'
    <2>1. pc' \in [Requests -> Steps] /\ outcome' \in [Requests -> Outcomes]
      BY <1>6, MoveType DEF WritePassword, Outcomes
    <2> QED  BY <1>6, <2>1 DEF WritePassword, TypeOK
  <1>7. ASSUME NEW r \in Requests, ReadRecord(r) PROVE TypeOK'
    <2>1. pc' \in [Requests -> Steps] /\ outcome' \in [Requests -> Outcomes]
      BY <1>7, MoveType DEF ReadRecord, Steps, KvSteps, Outcomes
    <2>2. kvIdentity # Corrupt => Normalise(kvIdentity, r) \in Records
      BY NormaliseRecord DEF TypeOK
    <2> QED  BY <1>7, <2>1, <2>2 DEF ReadRecord, TypeOK
  <1>8. ASSUME NEW r \in Requests, WriteRecord(r) PROVE TypeOK'
    <2>1. pc' \in [Requests -> Steps] /\ outcome' \in [Requests -> Outcomes]
      BY <1>8, MoveType DEF WriteRecord, Steps
    <2>2. Changed(r) \in Records
      BY <1>8, ChangedRecord DEF WriteRecord
    <2> QED  BY <1>8, <2>1, <2>2 DEF WriteRecord, StoreRecord, TypeOK
  <1>9. ASSUME NEW r \in Requests, Invalidate(r) PROVE TypeOK'
    <2>1. pc' \in [Requests -> Steps] /\ outcome' \in [Requests -> Outcomes]
      BY <1>9, MoveType DEF Invalidate, Steps, KvSteps, Outcomes
    <2> QED  BY <1>9, <2>1 DEF Invalidate, TypeOK
  <1>10. ASSUME NEW r \in Requests, Compare(r) PROVE TypeOK'
    <2>1. pc' \in [Requests -> Steps] /\ outcome' \in [Requests -> Outcomes]
      BY <1>10, MoveType DEF Compare, Steps, KvSteps, Outcomes
    <2>2. \A d \in everStored : ApplyEnv(d).path \in Paths
      BY ApplyEnvRecord DEF TypeOK, Records
    <2>3. <<"chosen", r>> \in Paths
      BY DEF Paths
    <2>4. form' \in [Requests -> Paths \cup {None}]
      BY <1>10, <2>2, <2>3 DEF Compare, TypeOK
    <2> QED  BY <1>10, <2>1, <2>4 DEF Compare, TypeOK
  <1>11. ASSUME NEW r \in Requests, KvFails(r) PROVE TypeOK'
    <2>1. pc' \in [Requests -> Steps] /\ outcome' \in [Requests -> Outcomes]
      BY <1>11, MoveType DEF KvFails, Outcomes
    <2> QED  BY <1>11, <2>1 DEF KvFails, TypeOK
  <1>12. ASSUME NEW i \in Isolates, Evict(i) PROVE TypeOK'
    <2>1. pc' \in [Requests -> Steps] /\ outcome' \in [Requests -> Outcomes]
      BY <1>12 DEF Evict, TypeOK, Steps, Outcomes
    <2> QED  BY <1>12, <2>1 DEF Evict, TypeOK
  <1>13. CASE UNCHANGED vars
    BY <1>13 DEF TypeOK
  <1> QED
    BY <1>1, <1>2, <1>3, <1>4, <1>5, <1>6, <1>7, <1>8, <1>9, <1>10, <1>11,
       <1>12, <1>13 DEF Next, Step

\* A request that goes on to a step has what that step needs.
LEMMA NextInHand == TypeOK /\ InHand /\ [Next]_vars => InHand'
  <1> SUFFICES ASSUME TypeOK, InHand, [Next]_vars PROVE InHand'
    OBVIOUS
  <1> USE DEF vars, kvVars, isolateVars, requestVars, historyVars, InHand
  <1>1. ASSUME NEW r \in Requests, Begin(r) PROVE InHand'
    BY <1>1, ConstantsAssumption DEF Begin, GoTo, Route, TypeOK
  <1>2. ASSUME NEW r \in Requests, GetIdentity(r) PROVE InHand'
    <2>1. kvIdentity # Corrupt =>
             ApplyEnv(Normalise(kvIdentity, r)) \in Records
      BY NormaliseRecord, ApplyEnvRecord DEF TypeOK
    <2> QED  BY <1>2, <2>1 DEF GetIdentity, GoTo, Answer, TypeOK
  <1>3. ASSUME NEW r \in Requests, Bootstrap(r) PROVE InHand'
    BY <1>3 DEF Bootstrap, GoTo, TypeOK
  <1>4. ASSUME NEW r \in Requests, Install(r) PROVE InHand'
    BY <1>4 DEF Install, GoTo, Route, TypeOK
  <1>5. ASSUME NEW r \in Requests, NeedsSetup(r) PROVE InHand'
    BY <1>5 DEF NeedsSetup, GoTo, Answer, TypeOK
  <1>6. ASSUME NEW r \in Requests, Recheck(r) \/ Hash(r) PROVE InHand'
    BY <1>6 DEF Recheck, Hash, GoTo, Answer, TypeOK
  <1>7. ASSUME NEW r \in Requests, WritePassword(r) PROVE InHand'
    BY <1>7 DEF WritePassword, Answer, TypeOK
  <1>8. ASSUME NEW r \in Requests, ReadRecord(r) PROVE InHand'
    <2>1. kvIdentity # Corrupt => Normalise(kvIdentity, r) \in Records
      BY NormaliseRecord DEF TypeOK
    <2> QED  BY <1>8, <2>1 DEF ReadRecord, GoTo, Answer, TypeOK
  <1>9. ASSUME NEW r \in Requests, WriteRecord(r) PROVE InHand'
    BY <1>9 DEF WriteRecord, GoTo, TypeOK
  <1>10. ASSUME NEW r \in Requests, Invalidate(r) PROVE InHand'
    BY <1>10 DEF Invalidate, GoTo, Answer, TypeOK
  <1>11. ASSUME NEW r \in Requests, Authenticate(r) PROVE InHand'
    BY <1>11 DEF Authenticate, GoTo, Answer, TypeOK
  <1>12. ASSUME NEW r \in Requests, Compare(r) PROVE InHand'
    <2>1. PICK p : /\ p \in {<<"chosen", r>>}
                           \cup {ApplyEnv(d).path : d \in everStored}
                   /\ form' = [form EXCEPT ![r] = p]
                   /\ \/ Answer(r, "unchanged")
                      \/ GoTo(r, "readRecord")
      BY <1>12 DEF Compare
    <2>2. p \in Paths
      BY <2>1, ApplyEnvRecord DEF TypeOK, Records, Paths
    <2> QED  BY <1>12, <2>1, <2>2 DEF Compare, GoTo, Answer, TypeOK
  <1>13. ASSUME NEW r \in Requests, KvFails(r) PROVE InHand'
    BY <1>13 DEF KvFails, Answer, TypeOK
  <1>14. ASSUME NEW i \in Isolates, Evict(i) PROVE InHand'
    BY <1>14 DEF Evict, TypeOK
  <1>15. CASE UNCHANGED vars
    BY <1>15
  <1> QED
    BY <1>1, <1>2, <1>3, <1>4, <1>5, <1>6, <1>7, <1>8, <1>9, <1>10, <1>11,
       <1>12, <1>13, <1>14, <1>15 DEF Next, Step

\* The type invariant: every variable keeps its type, and no request is on a
\* step of another kind or without the record that step writes.
THEOREM TypeCorrect == Spec => [](TypeOK /\ InHand)
  <1>1. TypeOK /\ InHand /\ [Next]_vars => (TypeOK /\ InHand)'
    BY NextTypeOK, NextInHand
  <1> QED  BY InitTypeOK, <1>1, PTL DEF Spec

-----------------------------------------------------------------------------
(***************************************************************************)
(* Where identities come from.                                             *)
(***************************************************************************)

\* A routed request has seen a document, so there is one.
LEMMA RoutedHasDocument ==
    ASSUME TypeOK, Provenance, NEW r \in Requests, Routed(r)
    PROVE  kvIdentity \in Records /\ kvIdentity \in everStored
  BY DEF Provenance, Served

\* At first nothing is known but what is stored.
LEMMA InitProvenance == Init => Provenance
  <1> SUFFICES ASSUME Init PROVE Provenance
    OBVIOUS
  <1>1. everStored = {kvIdentity} \ {None, Corrupt}
    BY DEF Init
  <1>2. kvIdentity \in Records \cup {None, Corrupt}
    BY InitTypeOK DEF TypeOK
  <1> QED  BY <1>1, <1>2, ConstantsAssumption DEF Init, Provenance, Routed

\* Whatever a step caches, holds or discloses was stored before.
LEMMA NextProvenance == TypeOK /\ InHand /\ Provenance /\ [Next]_vars => Provenance'
  <1> SUFFICES ASSUME TypeOK, InHand, Provenance, [Next]_vars PROVE Provenance'
    OBVIOUS
  <1> USE DEF vars, kvVars, isolateVars, requestVars, historyVars, Provenance
  <1>1. ASSUME NEW r \in Requests, Begin(r) PROVE Provenance'
    BY <1>1 DEF Begin, Adopt, GoTo, Route, Served, Routed, TypeOK
  <1>2. ASSUME NEW r \in Requests, GetIdentity(r) PROVE Provenance'
    <2>1. kvIdentity # Corrupt =>
             LET d == ApplyEnv(Normalise(kvIdentity, r)) IN ApplyEnv(d) = d
      BY NormaliseRecord, ApplyEnvRecord DEF TypeOK
    <2>2. kvIdentity \notin {None, Corrupt} =>
             ApplyEnv(Normalise(kvIdentity, r)) \in Served
      BY DEF Served, TypeOK, Normalise
    <2> QED
      BY <1>2, <2>1, <2>2 DEF GetIdentity, GoTo, Answer, Served, Routed, TypeOK
  <1>3. ASSUME NEW r \in Requests, Bootstrap(r) PROVE Provenance'
    <2>1. doc[r] \in Records /\ ApplyEnv(doc[r]) = doc[r]
      BY <1>3 DEF Bootstrap, InHand
    <2>2. Served' = Served \cup {doc[r]}
      BY <1>3, <2>1 DEF Bootstrap, StoreRecord, Served
    <2> QED
      BY <1>3, <2>1, <2>2 DEF Bootstrap, StoreRecord, GoTo, Routed, TypeOK
  <1>4. ASSUME NEW r \in Requests, Install(r) PROVE Provenance'
    BY <1>4 DEF Install, Adopt, GoTo, Route, Served, Routed, TypeOK
  <1>5. ASSUME NEW r \in Requests,
               NeedsSetup(r) \/ Recheck(r) \/ WritePassword(r) \/ Authenticate(r)
        PROVE  Provenance'
    BY <1>5 DEF NeedsSetup, Recheck, WritePassword, Authenticate, GoTo, Answer,
                Served, Routed, TypeOK
  <1>6. ASSUME NEW r \in Requests, Hash(r) PROVE Provenance'
    <2>1. kind[r] = "claim"
      BY <1>6 DEF Hash, InHand
    <2> QED  BY <1>6, <2>1 DEF Hash, GoTo, Answer, Served, Routed, TypeOK
  <1>7. ASSUME NEW r \in Requests, ReadRecord(r) PROVE Provenance'
    <2>1. kvIdentity \in Records /\ kvIdentity \in everStored
      BY <1>7, RoutedHasDocument DEF ReadRecord, Routed
    <2>2. Normalise(kvIdentity, r) = kvIdentity
      BY <2>1, ConstantsAssumption DEF Normalise
    <2> QED
      BY <1>7, <2>1, <2>2 DEF ReadRecord, GoTo, Answer, Served, Routed, TypeOK
  <1>8. ASSUME NEW r \in Requests, WriteRecord(r) PROVE Provenance'
    <2>1. Changed(r) \in Records
      BY <1>8, ChangedRecord DEF WriteRecord
    <2>2. Served \subseteq Served'
      BY <1>8 DEF WriteRecord, StoreRecord, Served
    <2> QED
      BY <1>8, <2>1, <2>2 DEF WriteRecord, StoreRecord, GoTo, Routed, TypeOK
  <1>9. ASSUME NEW r \in Requests, Invalidate(r) PROVE Provenance'
    BY <1>9 DEF Invalidate, GoTo, Answer, Served, Routed, TypeOK
  <1>10. ASSUME NEW r \in Requests, Compare(r) PROVE Provenance'
    <2>1. PICK p : /\ p \in {<<"chosen", r>>}
                           \cup {ApplyEnv(d).path : d \in everStored}
                   /\ form' = [form EXCEPT ![r] = p]
                   /\ \/ Answer(r, "unchanged")
                      \/ GoTo(r, "readRecord")
      BY <1>10 DEF Compare
    <2>2. p \in ({"chosen"} \X Requests) \cup {d.path : d \in Served}
      BY <2>1 DEF Served
    <2> QED
      BY <1>10, <2>1, <2>2 DEF Compare, GoTo, Answer, Served, Routed, TypeOK
  <1>11. ASSUME NEW r \in Requests, KvFails(r) PROVE Provenance'
    BY <1>11 DEF KvFails, Answer, Served, Routed, TypeOK
  <1>12. ASSUME NEW i \in Isolates, Evict(i) PROVE Provenance'
    BY <1>12 DEF Evict, Served, Routed, TypeOK
  <1>13. CASE UNCHANGED vars
    BY <1>13 DEF Served, Routed
  <1> QED
    BY <1>1, <1>2, <1>3, <1>4, <1>5, <1>6, <1>7, <1>8, <1>9, <1>10, <1>11,
       <1>12, <1>13 DEF Next, Step

\* The types, what is in hand and where it comes from, always.
LEMMA ProvenanceCorrect == Spec => [](TypeOK /\ InHand /\ Provenance)
  <1>1. Init => TypeOK /\ InHand /\ Provenance
    BY InitTypeOK, InitProvenance
  <1>2. TypeOK /\ InHand /\ Provenance /\ [Next]_vars
           => (TypeOK /\ InHand /\ Provenance)'
    BY NextTypeOK, NextInHand, NextProvenance
  <1> QED  BY <1>1, <1>2, PTL DEF Spec

\* No isolate ever serves, and no claim ever discloses, an identity KV did not
\* hold, however many isolates bootstrap at once and whichever puts fail.
THEOREM ServedWasStoredAlways == Spec => []ServedWasStored
  <1>1. Provenance => ServedWasStored
    BY DEF Provenance, ServedWasStored
  <1> QED  BY <1>1, ProvenanceCorrect, PTL

\* Once a document is there and no bootstrap is in flight, no later step starts
\* one, and credentials change only to stored or operator-chosen ones.
THEOREM NeverRegeneratedAlways == Spec => NeverRegenerated
  <1> DEFINE Kept == /\ Settled'
                     /\ \/ kvIdentity' = kvIdentity
                        \/ /\ kvIdentity # Corrupt
                           /\ kvIdentity'.path
                                \in {d.path : d \in everStored \cup Served}
                                    \cup ({"chosen"} \X Requests)
  <1>1. ASSUME TypeOK, InHand, Provenance, [Next]_vars, Settled PROVE Kept
    <2> USE <1>1 DEF vars, kvVars, isolateVars, requestVars, historyVars
    <2>1. ASSUME NEW r \in Requests, WriteRecord(r) PROVE Kept
      <3>1. kvIdentity \in Records /\ Changed(r) \in Records
        BY <2>1, RoutedHasDocument, ChangedRecord DEF WriteRecord, Routed
      <3>2. Changed(r).path \in {d.path : d \in everStored \cup Served}
                                \cup ({"chosen"} \X Requests)
        <4>1. doc[r] \in everStored /\ doc[r] \in Records
          BY <2>1 DEF WriteRecord, Provenance, InHand
        <4>2. CASE kind[r] = "claim"
          BY <4>1, <4>2 DEF Changed, Records
        <4>3. CASE kind[r] # "claim"
          <5>1. Changed(r).path = form[r]
            BY <4>1, <4>3 DEF Changed, Records
          <5> QED  BY <2>1, <4>3, <5>1 DEF WriteRecord, Provenance
        <4> QED  BY <4>2, <4>3
      <3>3. kvIdentity' = Changed(r) /\ kvIdentity # Corrupt
        BY <2>1, <3>1, ConstantsAssumption DEF WriteRecord, StoreRecord
      <3>4. Settled'
        BY <2>1, <3>1, <3>3, ConstantsAssumption
           DEF WriteRecord, GoTo, Settled, TypeOK
      <3> QED  BY <3>2, <3>3, <3>4
    <2>2. ASSUME NEW r \in Requests, Begin(r) PROVE Kept
      BY <2>2 DEF Begin, GoTo, Route, Settled, TypeOK
    <2>3. ASSUME NEW r \in Requests,
                 GetIdentity(r) \/ Bootstrap(r) \/ Install(r)
          PROVE  Kept
      BY <2>3 DEF GetIdentity, Bootstrap, Install, GoTo, Answer, Route, Settled,
                  TypeOK
    <2>4. ASSUME NEW r \in Requests,
                 \/ NeedsSetup(r) \/ Recheck(r) \/ Hash(r) \/ WritePassword(r)
                 \/ Authenticate(r) \/ Compare(r)
          PROVE  Kept
      BY <2>4 DEF NeedsSetup, Recheck, Hash, WritePassword, Authenticate, Compare,
                  GoTo, Answer, Settled, TypeOK
    <2>5. ASSUME NEW r \in Requests, ReadRecord(r) \/ Invalidate(r) \/ KvFails(r)
          PROVE  Kept
      BY <2>5 DEF ReadRecord, Invalidate, KvFails, GoTo, Answer, Settled, TypeOK
    <2>6. ASSUME NEW i \in Isolates, Evict(i) PROVE Kept
      BY <2>6 DEF Evict, Settled, TypeOK
    <2>7. CASE UNCHANGED vars
      BY <2>7 DEF Settled
    <2> QED
      BY <2>1, <2>2, <2>3, <2>4, <2>5, <2>6, <2>7 DEF Next, Step
  <1>2. TypeOK /\ InHand /\ Provenance /\ [Next]_vars
           => [Settled => Kept]_vars
    BY <1>1
  <1> QED  BY <1>2, ProvenanceCorrect, PTL DEF Spec, NeverRegenerated

-----------------------------------------------------------------------------
(***************************************************************************)
(* Who owns the deployment.                                                *)
(***************************************************************************)
LEMMA InitOwnership == Init => Ownership
  BY DEF Init, Ownership

\* Nobody is routed, so nobody wrote a password, before a document exists.
LEMMA NextOwnership ==
    TypeOK /\ InHand /\ Provenance /\ Ownership /\ [Next]_vars => Ownership'
  <1> SUFFICES ASSUME TypeOK, InHand, Provenance, Ownership, [Next]_vars
               PROVE  Ownership'
    OBVIOUS
  <1> USE DEF vars, kvVars, isolateVars, requestVars, historyVars, Ownership
  <1>1. ASSUME NEW r \in Requests, Begin(r) PROVE Ownership'
    BY <1>1 DEF Begin, GoTo, Route, TypeOK
  <1>2. ASSUME NEW r \in Requests, GetIdentity(r) PROVE Ownership'
    BY <1>2 DEF GetIdentity, GoTo, Answer, TypeOK
  <1>3. ASSUME NEW r \in Requests, Bootstrap(r) PROVE Ownership'
    <2>1. CASE overwritten'
      BY <1>3, <2>1 DEF Bootstrap, GoTo, TypeOK
    <2>2. CASE ~overwritten'
      <3>1. kvIdentity = None /\ kvIdentity \notin Records /\ ~overwritten
        BY <1>3, <2>2, ConstantsAssumption DEF Bootstrap
      <3>2. kvPassword = None
        BY <3>1
      <3>3. \A q \in Requests : ~Routed(q)
        BY <3>1, RoutedHasDocument
      <3> QED
        BY <1>3, <3>2, <3>3 DEF Bootstrap, StoreRecord, GoTo, Routed, TypeOK
    <2> QED  BY <2>1, <2>2
  <1>4. ASSUME NEW r \in Requests, Install(r) PROVE Ownership'
    BY <1>4 DEF Install, GoTo, Route, TypeOK
  <1>5. ASSUME NEW r \in Requests, NeedsSetup(r) \/ Recheck(r) \/ Hash(r)
        PROVE  Ownership'
    BY <1>5 DEF NeedsSetup, Recheck, Hash, GoTo, Answer, TypeOK, InHand
  <1>6. ASSUME NEW r \in Requests, WritePassword(r) PROVE Ownership'
    <2>1. kvIdentity \in Records /\ kind[r] = "claim"
      BY <1>6, RoutedHasDocument DEF WritePassword, Routed, InHand
    <2>2. r # None
      BY ConstantsAssumption
    <2> QED  BY <1>6, <2>1, <2>2 DEF WritePassword, Answer, TypeOK
  <1>7. ASSUME NEW r \in Requests, ReadRecord(r) PROVE Ownership'
    <2>1. kvIdentity \in Records
      BY <1>7, RoutedHasDocument DEF ReadRecord, Routed
    <2>2. Normalise(kvIdentity, r) = kvIdentity
      BY <2>1, ConstantsAssumption DEF Normalise
    <2> QED  BY <1>7, <2>2 DEF ReadRecord, GoTo, Answer, TypeOK
  <1>8. ASSUME NEW r \in Requests, WriteRecord(r) PROVE Ownership'
    <2>1. doc[r] \in Records /\ Changed(r) \in Records
      BY <1>8, ChangedRecord DEF WriteRecord, InHand
    <2>2. kind[r] \in {"claim", "save"}
      BY <1>8, ConstantsAssumption DEF WriteRecord, TypeOK, InHand
    <2>3. ~overwritten => Changed(r).email # None
      <3>1. CASE kind[r] = "claim"
        <4>1. ClaimEmail(r) # None
          BY ConstantsAssumption DEF ClaimEmail
        <4> QED  BY <2>1, <3>1, <4>1 DEF Changed, Records
      <3>2. CASE kind[r] = "save"
        BY <1>8, <2>1, <3>2 DEF WriteRecord, Changed, Records
      <3> QED  BY <2>2, <3>1, <3>2
    <2> QED
      BY <1>8, <2>1, <2>3 DEF WriteRecord, StoreRecord, GoTo, TypeOK
  <1>9. ASSUME NEW r \in Requests, Invalidate(r) PROVE Ownership'
    BY <1>9 DEF Invalidate, GoTo, Answer, TypeOK
  <1>10. ASSUME NEW r \in Requests, Authenticate(r) \/ Compare(r) PROVE Ownership'
    BY <1>10 DEF Authenticate, Compare, GoTo, Answer, TypeOK
  <1>11. ASSUME NEW r \in Requests, KvFails(r) PROVE Ownership'
    BY <1>11 DEF KvFails, Answer, TypeOK
  <1>12. ASSUME NEW i \in Isolates, Evict(i) PROVE Ownership'
    BY <1>12 DEF Evict, TypeOK
  <1>13. CASE UNCHANGED vars
    BY <1>13
  <1> QED
    BY <1>1, <1>2, <1>3, <1>4, <1>5, <1>6, <1>7, <1>8, <1>9, <1>10, <1>11,
       <1>12, <1>13 DEF Next, Step

\* As long as no bootstrap overwrites a document, a stored password always comes
\* with an owner's email: no order of claims, saves and failures separates them.
THEOREM PasswordHasOwnerAlways == Spec => []PasswordHasOwner
  <1>1. Init => Ownership
    BY InitOwnership
  <1>2. TypeOK /\ InHand /\ Provenance /\ Ownership /\ [Next]_vars => Ownership'
    BY NextOwnership
  <1>3. Ownership => PasswordHasOwner
    BY DEF Ownership, PasswordHasOwner
  <1> QED  BY <1>1, <1>2, <1>3, ProvenanceCorrect, PTL DEF Spec

-----------------------------------------------------------------------------
(***************************************************************************)
(* Setup closes when a password is stored, and stays open until then.      *)
(***************************************************************************)
LEMMA NextLateIsOutside ==
    TypeOK /\ InHand /\ LateIsOutside /\ SetupStaysClosed /\ [Next]_vars
        => LateIsOutside' /\ SetupStaysClosed'
  <1> SUFFICES ASSUME TypeOK, InHand, LateIsOutside, SetupStaysClosed, [Next]_vars
               PROVE  LateIsOutside' /\ SetupStaysClosed'
    OBVIOUS
  <1> USE DEF vars, kvVars, isolateVars, requestVars, historyVars,
              LateIsOutside, SetupStaysClosed, TypeOK
  <1> DEFINE Goal == LateIsOutside' /\ SetupStaysClosed'
  <1>1. ASSUME NEW r \in Requests, Begin(r) PROVE Goal
    BY <1>1 DEF Begin, GoTo, Route, InHand
  <1>2. ASSUME NEW r \in Requests, GetIdentity(r) \/ Bootstrap(r) \/ Install(r)
        PROVE  Goal
    BY <1>2 DEF GetIdentity, Bootstrap, Install, GoTo, Answer, Route
  <1>3. ASSUME NEW r \in Requests, NeedsSetup(r) \/ Recheck(r) PROVE Goal
    BY <1>3 DEF NeedsSetup, Recheck, GoTo, Answer
  <1>4. ASSUME NEW r \in Requests, Hash(r) PROVE Goal
    BY <1>4 DEF Hash, GoTo, Answer
  <1>5. ASSUME NEW r \in Requests, WritePassword(r) PROVE Goal
    BY <1>5, ConstantsAssumption DEF WritePassword, Answer
  <1>6. ASSUME NEW r \in Requests, ReadRecord(r) \/ WriteRecord(r) \/ Invalidate(r)
        PROVE  Goal
    BY <1>6 DEF ReadRecord, WriteRecord, StoreRecord, Invalidate, GoTo, Answer
  <1>7. ASSUME NEW r \in Requests, Authenticate(r) \/ Compare(r) PROVE Goal
    BY <1>7 DEF Authenticate, Compare, GoTo, Answer, InHand
  <1>8. ASSUME NEW r \in Requests, KvFails(r) PROVE Goal
    BY <1>8 DEF KvFails, Answer
  <1>9. ASSUME NEW i \in Isolates, Evict(i) PROVE Goal
    BY <1>9 DEF Evict
  <1>10. CASE UNCHANGED vars
    BY <1>10
  <1> QED
    BY <1>1, <1>2, <1>3, <1>4, <1>5, <1>6, <1>7, <1>8, <1>9, <1>10 DEF Next, Step

\* A request that arrives after a password was stored is never shown the form and
\* never completes a claim, on any isolate.
THEOREM SetupStaysClosedAlways == Spec => []SetupStaysClosed
  <1>1. Init => LateIsOutside /\ SetupStaysClosed
    BY DEF Init, LateIsOutside, SetupStaysClosed
  <1>2. TypeOK /\ InHand /\ LateIsOutside /\ SetupStaysClosed /\ [Next]_vars
           => LateIsOutside' /\ SetupStaysClosed'
    BY NextLateIsOutside
  <1> QED  BY <1>1, <1>2, TypeCorrect, PTL DEF Spec

\* A claim that met no failure is answered with a password stored, and no step removes it.
LEMMA NextNeverWedged == TypeOK /\ InHand /\ NeverWedged /\ [Next]_vars => NeverWedged'
  <1> SUFFICES ASSUME TypeOK, InHand, NeverWedged, [Next]_vars PROVE NeverWedged'
    OBVIOUS
  <1> USE DEF vars, kvVars, isolateVars, requestVars, historyVars, NeverWedged,
              TypeOK
  <1>1. ASSUME NEW r \in Requests, Begin(r) PROVE NeverWedged'
    BY <1>1 DEF Begin, GoTo, Route
  <1>2. ASSUME NEW r \in Requests, GetIdentity(r) \/ Bootstrap(r) \/ Install(r)
        PROVE  NeverWedged'
    BY <1>2 DEF GetIdentity, Bootstrap, Install, GoTo, Answer, Route
  <1>3. ASSUME NEW r \in Requests, NeedsSetup(r) \/ Recheck(r) \/ Hash(r)
        PROVE  NeverWedged'
    BY <1>3 DEF NeedsSetup, Recheck, Hash, GoTo, Answer
  <1>4. ASSUME NEW r \in Requests, WritePassword(r) PROVE NeverWedged'
    BY <1>4, ConstantsAssumption DEF WritePassword, Answer
  <1>5. ASSUME NEW r \in Requests, ReadRecord(r) \/ WriteRecord(r) \/ Invalidate(r)
        PROVE  NeverWedged'
    BY <1>5 DEF ReadRecord, WriteRecord, Invalidate, GoTo, Answer
  <1>6. ASSUME NEW r \in Requests, Authenticate(r) \/ Compare(r)
        PROVE  NeverWedged'
    BY <1>6 DEF Authenticate, Compare, GoTo, Answer, InHand
  <1>7. ASSUME NEW r \in Requests, KvFails(r) PROVE NeverWedged'
    BY <1>7 DEF KvFails, Answer
  <1>8. ASSUME NEW i \in Isolates, Evict(i) PROVE NeverWedged'
    BY <1>8 DEF Evict
  <1>9. CASE UNCHANGED vars
    BY <1>9
  <1> QED
    BY <1>1, <1>2, <1>3, <1>4, <1>5, <1>6, <1>7, <1>8, <1>9 DEF Next, Step

\* A claim that meets no failure of its own leaves the deployment claimed,
\* whatever half-finished claims came before it.
THEOREM NeverWedgedAlways == Spec => []NeverWedged
  <1>1. Init => NeverWedged
    BY DEF Init, NeverWedged
  <1>2. TypeOK /\ InHand /\ NeverWedged /\ [Next]_vars => NeverWedged'
    BY NextNeverWedged
  <1> QED  BY <1>1, <1>2, TypeCorrect, PTL DEF Spec

-----------------------------------------------------------------------------
(***************************************************************************)
(* One claim among pages and saves.                                        *)
(***************************************************************************)
LEMMA NextPossession ==
    /\ TypeOK /\ InHand /\ Provenance /\ Ownership /\ Possession
    /\ [Next]_vars
    => Possession'
  <1> SUFFICES ASSUME TypeOK, InHand, Provenance, Ownership, Possession, [Next]_vars,
                      NEW r \in Requests, Uncontested(r)'
               PROVE  /\ pc'[r] # "answered" => kvPassword' = None
                      /\ pc'[r] \in {"invalidate", "writePassword"}
                         \/ outcome'[r] = "complete"
                           => kvIdentity'.email = ClaimEmail(r)
                      /\ outcome'[r] = "complete" =>
                           /\ kvPassword' = r
                           /\ \A s \in Requests :
                                kind'[s] = "save" /\ pc'[s] = "writeRecord"
                                    => doc'[s].email = ClaimEmail(r)
    BY DEF Possession, ClaimEmail
  <1> DEFINE Goal == /\ pc'[r] # "answered" => kvPassword' = None
                     /\ pc'[r] \in {"invalidate", "writePassword"}
                        \/ outcome'[r] = "complete"
                          => kvIdentity'.email = ClaimEmail(r)
                     /\ outcome'[r] = "complete" =>
                          /\ kvPassword' = r
                          /\ \A s \in Requests :
                               kind'[s] = "save" /\ pc'[s] = "writeRecord"
                                   => doc'[s].email = ClaimEmail(r)
  <1> USE DEF vars, kvVars, isolateVars, requestVars, historyVars, TypeOK,
              Uncontested, TurnedAway, Possession
  <1>1. ASSUME NEW q \in Requests, Begin(q) PROVE Goal
    BY <1>1 DEF Begin, GoTo, Route, InHand
  <1>2. ASSUME NEW q \in Requests, GetIdentity(q) PROVE Goal
    BY <1>2 DEF GetIdentity, GoTo, Answer, InHand
  <1>3. ASSUME NEW q \in Requests, Bootstrap(q) PROVE Goal
    <2>1. kvIdentity = None /\ kvIdentity \notin Records
      BY <1>3, ConstantsAssumption DEF Bootstrap
    <2>2. /\ kvPassword = None
          /\ \A s \in Requests : ~Routed(s) /\ outcome[s] # "complete"
      BY <1>3, <2>1 DEF Bootstrap, Ownership, Provenance, Served
    <2> QED
      BY <1>3, <2>2 DEF Bootstrap, StoreRecord, GoTo, Routed
  <1>4. ASSUME NEW q \in Requests, Install(q) PROVE Goal
    BY <1>4 DEF Install, GoTo, Route, InHand
  <1>5. ASSUME NEW q \in Requests, NeedsSetup(q) \/ Recheck(q) \/ Hash(q)
        PROVE  Goal
    BY <1>5 DEF NeedsSetup, Recheck, Hash, GoTo, Answer, InHand
  <1>6. ASSUME NEW q \in Requests, WritePassword(q) PROVE Goal
    <2>1. q = r
      BY <1>6 DEF WritePassword, Answer, InHand
    <2>2. kvPassword = None /\ kvIdentity.email = ClaimEmail(r)
      BY <1>6, <2>1 DEF WritePassword, Answer
    <2>3. \A s \in Requests : ~(kind[s] = "save" /\ pc[s] = "writeRecord")
      BY <2>2 DEF Ownership
    <2> QED  BY <1>6, <2>1, <2>2, <2>3 DEF WritePassword, Answer
  <1>7. ASSUME NEW q \in Requests, ReadRecord(q) PROVE Goal
    <2>1. kvIdentity \in Records
      BY <1>7, RoutedHasDocument DEF ReadRecord, Routed
    <2>2. Normalise(kvIdentity, q) = kvIdentity
      BY <2>1, ConstantsAssumption DEF Normalise
    <2> QED  BY <1>7, <2>2 DEF ReadRecord, GoTo, Answer, InHand
  <1>8. ASSUME NEW q \in Requests, WriteRecord(q) PROVE Goal
    <2>1. doc[q] \in Records /\ kind[q] \in {"claim", "save"}
      BY <1>8, ConstantsAssumption DEF WriteRecord, InHand
    <2>2. CASE q = r
      <3>1. Changed(q).email = ClaimEmail(r)
        BY <2>1, <2>2, <1>8 DEF WriteRecord, Changed, Records
      <3>2. kind[r] = "claim" /\ ClaimEmail(r)' = ClaimEmail(r)
        BY <1>8 DEF WriteRecord, ClaimEmail
      <3> QED  BY <1>8, <2>2, <3>1, <3>2 DEF WriteRecord, StoreRecord, GoTo, InHand
    <2>3. CASE q # r
      <3>1. kind[q] = "save" /\ kvPassword # None
        BY <1>8, <2>1, <2>3 DEF WriteRecord, GoTo, InHand, Ownership
      <3>2. pc[r] = "answered"
        BY <1>8, <2>3, <3>1 DEF WriteRecord, GoTo
      <3>3. outcome[r] = "complete" =>
               Changed(q).email = ClaimEmail(r) /\ kvPassword = r
        BY <1>8, <2>1, <2>3, <3>1 DEF WriteRecord, GoTo, Changed, Records
      <3> QED
        BY <1>8, <2>3, <3>1, <3>2, <3>3 DEF WriteRecord, StoreRecord, GoTo
    <2> QED  BY <2>2, <2>3
  <1>9. ASSUME NEW q \in Requests, Invalidate(q) PROVE Goal
    BY <1>9 DEF Invalidate, GoTo, Answer, InHand
  <1>10. ASSUME NEW q \in Requests, Authenticate(q) \/ Compare(q) PROVE Goal
    BY <1>10 DEF Authenticate, Compare, GoTo, Answer, InHand
  <1>11. ASSUME NEW q \in Requests, KvFails(q) PROVE Goal
    BY <1>11 DEF KvFails, Answer, InHand
  <1>12. ASSUME NEW i \in Isolates, Evict(i) PROVE Goal
    BY <1>12 DEF Evict, InHand
  <1>13. CASE UNCHANGED vars
    BY <1>13
  <1> QED
    BY <1>1, <1>2, <1>3, <1>4, <1>5, <1>6, <1>7, <1>8, <1>9, <1>10, <1>11,
       <1>12, <1>13 DEF Next, Step

\* A completed claim that overlapped no other owns the deployment, email and
\* verifier both, whatever saves, failures and evictions surround it.
THEOREM UncontestedClaimOwnsAlways == Spec => []UncontestedClaimOwns
  <1>1. Init => Ownership /\ Possession
    BY InitOwnership, ConstantsAssumption DEF Init, Possession
  <1>2. TypeOK /\ InHand /\ Provenance /\ Ownership /\ Possession /\ [Next]_vars
           => Ownership' /\ Possession'
    BY NextOwnership, NextPossession
  <1>3. Possession => UncontestedClaimOwns
    BY DEF Possession, UncontestedClaimOwns
  <1> QED  BY <1>1, <1>2, <1>3, ProvenanceCorrect, PTL DEF Spec

\* Every write of an owner by the only claim comes after its verifier.
LEMMA NextUntouched ==
    /\ TypeOK /\ InHand /\ Provenance /\ Ownership /\ Untouched
    /\ [Next]_vars
    => Untouched'
  <1> DEFINE Clean == /\ kvPassword = None
                      /\ \A d \in everStored : d.email \in {None, EnvEmail}
                      /\ \A s \in Requests :
                           pc[s] \in {"bootstrap", "writeRecord"}
                               => doc[s].email \in {None, EnvEmail}
  <1> SUFFICES ASSUME TypeOK, InHand, Provenance, Ownership, Untouched, [Next]_vars,
                      NEW r \in Requests,
                      \A s \in Requests \ {r} : kind'[s] # "claim",
                      \/ pc'[r] \notin {"invalidate", "writePassword", "answered"}
                      \/ outcome'[r] = "hashRejected"
               PROVE  Clean'
    BY DEF Untouched
  <1> USE DEF vars, kvVars, isolateVars, requestVars, historyVars, TypeOK
  <1>0. kind' = kind
    BY DEF Next, Step, Begin, GetIdentity, Bootstrap, Install, NeedsSetup,
           Recheck, Hash, WritePassword, ReadRecord, WriteRecord, Invalidate,
           Authenticate, Compare, KvFails, Evict
  <1>1. ASSUME NEW q \in Requests, Begin(q) PROVE Clean'
    BY <1>0, <1>1 DEF Begin, GoTo, Route, Untouched
  <1>2. ASSUME NEW q \in Requests, GetIdentity(q) PROVE Clean'
    <2>1. Clean
      BY <1>0, <1>2 DEF GetIdentity, GoTo, Answer, Untouched
    <2>2. kvIdentity = None =>
             ApplyEnv(Normalise(kvIdentity, q)).email \in {None, EnvEmail}
      BY DEF Normalise, EmptyRecord, ApplyEnv
    <2> QED  BY <1>2, <2>1, <2>2 DEF GetIdentity, GoTo, Answer
  <1>3. ASSUME NEW q \in Requests, Bootstrap(q) PROVE Clean'
    BY <1>0, <1>3 DEF Bootstrap, StoreRecord, GoTo, Untouched
  <1>4. ASSUME NEW q \in Requests, Install(q) PROVE Clean'
    BY <1>0, <1>4 DEF Install, GoTo, Route, Untouched
  <1>5. ASSUME NEW q \in Requests, NeedsSetup(q) \/ Recheck(q) \/ Hash(q)
        PROVE  Clean'
    BY <1>0, <1>5 DEF NeedsSetup, Recheck, Hash, GoTo, Answer, Untouched
  <1>6. ASSUME NEW q \in Requests, WritePassword(q) PROVE Clean'
    <2>1. q = r
      BY <1>0, <1>6 DEF WritePassword, InHand
    <2> QED  BY <1>6, <2>1 DEF WritePassword, Answer
  <1>7. ASSUME NEW q \in Requests, ReadRecord(q) PROVE Clean'
    <2>1. kvIdentity \in Records /\ kvIdentity \in everStored
      BY <1>7, RoutedHasDocument DEF ReadRecord, Routed
    <2>2. Normalise(kvIdentity, q) = kvIdentity
      BY <2>1, ConstantsAssumption DEF Normalise
    <2> QED
      BY <1>0, <1>7, <2>1, <2>2 DEF ReadRecord, GoTo, Answer, Untouched
  <1>8. ASSUME NEW q \in Requests, WriteRecord(q) PROVE Clean'
    <2>1. q # r
      BY <1>8 DEF WriteRecord, GoTo, InHand
    <2>2. kind[q] = "save"
      BY <1>0, <1>8, <2>1, ConstantsAssumption DEF WriteRecord, InHand
    <2>3. kvPassword # None
      BY <1>8, <2>2 DEF WriteRecord, Ownership
    <2>4. Clean
      BY <1>0, <1>8, <2>1 DEF WriteRecord, GoTo, Untouched
    <2> QED  BY <2>3, <2>4
  <1>9. ASSUME NEW q \in Requests, Invalidate(q) PROVE Clean'
    BY <1>0, <1>9 DEF Invalidate, GoTo, Answer, InHand, Untouched
  <1>10. ASSUME NEW q \in Requests, Authenticate(q) \/ Compare(q) PROVE Clean'
    BY <1>0, <1>10 DEF Authenticate, Compare, GoTo, Answer, Untouched
  <1>11. ASSUME NEW q \in Requests, KvFails(q) PROVE Clean'
    BY <1>0, <1>11 DEF KvFails, Answer, Untouched
  <1>12. ASSUME NEW i \in Isolates, Evict(i) PROVE Clean'
    BY <1>0, <1>12 DEF Evict, Untouched
  <1>13. CASE UNCHANGED vars
    BY <1>13 DEF Untouched
  <1> QED
    BY <1>1, <1>2, <1>3, <1>4, <1>5, <1>6, <1>7, <1>8, <1>9, <1>10, <1>11,
       <1>12, <1>13 DEF Next, Step

\* A claim whose hash the runtime rejects leaves the deployment wholly unclaimed.
THEOREM RejectedHashLeavesUnclaimedAlways == Spec => []RejectedHashLeavesUnclaimed
  <1>1. Init => Ownership /\ Untouched
    <2> SUFFICES ASSUME Init PROVE Untouched
      BY InitOwnership
    <2>1. PICK s \in Starts : kvIdentity = StartDoc(s)
      BY DEF Init
    <2>2. \A d \in everStored : d = [path |-> FirstPath, email |-> None]
      BY <2>1, ConstantsAssumption DEF Init, StartDoc
    <2> QED  BY <2>2 DEF Init, Untouched
  <1>2. TypeOK /\ InHand /\ Provenance /\ Ownership /\ Untouched /\ [Next]_vars
           => Ownership' /\ Untouched'
    BY NextOwnership, NextUntouched
  <1>3. TypeOK /\ InHand /\ Provenance /\ Untouched => RejectedHashLeavesUnclaimed
    <2> SUFFICES ASSUME TypeOK, InHand, Provenance, Untouched,
                        NEW r \in Requests, outcome[r] = "hashRejected",
                        \A s \in Requests \ {r} : kind[s] # "claim"
                 PROVE  /\ kvPassword = None
                        /\ kvIdentity.email \in {None, EnvEmail}
      BY DEF RejectedHashLeavesUnclaimed
    <2>1. kvIdentity \in everStored
      BY DEF Provenance, Served
    <2> QED  BY <2>1 DEF Untouched
  <1> QED  BY <1>1, <1>2, <1>3, ProvenanceCorrect, PTL DEF Spec

=============================================================================
