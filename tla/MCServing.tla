----------------------------- MODULE MCServing ------------------------------
(***************************************************************************)
(* Finite instances of what serves a request: the document it updates      *)
(* (PlatformDocument), the subscription it is answered with                *)
(* (Subscriptions), and the tunnel it opens (Relay).  The three share no   *)
(* state, so each is explored with the other two at rest.                  *)
(*                                                                         *)
(* The document: one update that appends, one that clears, one whose       *)
(* mutator throws.  The tunnel: requests for TCP, for DNS, for other UDP,  *)
(* and of a stranger.  The subscription: one request under each form, and  *)
(* two, which may overlap, under the settings of a new deployment.         *)
(***************************************************************************)
EXTENDS MCSubscriptions, PlatformDocument, Relay, TLC

CONSTANTS append1, append2, clear, throw

VARIABLES
    part,    \* which of the three
    overlap  \* history: the requests that waited while another did

MCMutation == (append1 :> "append") @@ (append2 :> "append") @@ (clear :> "clear") @@ (throw :> "throw")

Ask(user, command, port) ==
    [length |-> TRUE, user |-> user, command |-> command, port |-> port, address |-> TRUE]

MCHeaders == {Ask(TRUE, "tcp", 443), Ask(TRUE, "udp", 53), Ask(TRUE, "udp", 443), Ask(FALSE, "tcp", 443)}
-----------------------------------------------------------------------------
Waiting == {r \in Requests : phase[r] = "waiting"}
First   == CHOOSE r \in Requests : TRUE

\* (Bound: under a form that was saved, the first request only.)
SubscriptionStep ==
    /\ Next
    /\ settings' # Default => \A r \in Requests \ {First} : phase'[r] = "new"
    /\ overlap' = IF Cardinality(Waiting') > 1 THEN overlap \cup Waiting' ELSE overlap

\* Nothing was called, and a client that has sent nothing: no step of theirs is due.
DocumentAtRest == DInit /\ stored = Empty
TunnelAtRest ==
    /\ RelayInit /\ inbox = <<>> /\ up = Idle
    /\ protocol = "vless" /\ header = Ask(TRUE, "tcp", 443)
    /\ mode = "prefix" /\ configured = FALSE /\ resolves = FALSE

MCInit ==
    /\ Init /\ overlap = {}
    /\ \/ part = "document" /\ DInit /\ TunnelAtRest
       \/ part = "subscription" /\ DocumentAtRest /\ TunnelAtRest
       \/ part = "tunnel" /\ DocumentAtRest /\ RelayInit

MCNext ==
    /\ UNCHANGED part
    /\ \/ part = "document" /\ DNext /\ UNCHANGED <<vars, overlap, relayVars>>
       \/ part = "subscription" /\ SubscriptionStep /\ UNCHANGED <<documentVars, relayVars>>
       \/ part = "tunnel" /\ RelayNext /\ UNCHANGED <<vars, overlap, documentVars>>

\* The fairness of FairSpec and of RelaySpec.
MCSpec ==
    /\ MCInit /\ [][MCNext]_<<part, overlap, vars, documentVars, relayVars>>
    /\ \A c \in Calls : WF_documentVars(Step(c))
    /\ WF_relayVars(Worker)
-----------------------------------------------------------------------------
\* A request that no other overlaps is answered with the kind, for the client and under the
\* name it asks for, or not at all, whoever was served before it; and what is not a
\* configuration can be read (subscription.ts:100-180, zip.ts; the parts are in Subscriptions).
SoleRequestsServed == (\A r \in Requests \ overlap : AnsweredOwn(r)) /\ TextsReadable
=============================================================================
