----------------------------- MODULE MCProfiles -----------------------------
(***************************************************************************)
(* A finite instance of Profiles, of two kinds of deployment.  In a quiet  *)
(* one requests never overlap and KV answers every call: there a link may  *)
(* be served often, with a limit or without.  In a busy one two requests   *)
(* overlap and KV refuses calls: there every link is limited, expires, and *)
(* is served once.                                                         *)
(***************************************************************************)
EXTENDS Profiles, TLC

VARIABLE quiet

MCInit == Init /\ quiet \in BOOLEAN

QuietStep ==
    \/ Tick
    \/ \E r \in Requests : PutLands(r)
    \/ /\ \A r \in Requests : request[r] = None
       /\ Fetches \/ Creates \/ Limitings \/ OtherUpdates
       /\ \A r \in Requests : request'[r] # None /\ request'[r].op = "create" =>
            Listed(store) \subseteq Listed(request'[r].list)  \* no get was refused

Busy ==
    /\ \A t \in Tokens : served'[t] <= 1
    /\ \A r \in Requests : request'[r] # None =>
         \A t \in Listed(request'[r].list) : request'[r].list[t].limit # None /\ expiry'[t] # None

BusyStep == Next /\ Busy

MCNext == IF quiet THEN QuietStep /\ UNCHANGED quiet ELSE BusyStep /\ UNCHANGED quiet

MCSpec == MCInit /\ [][MCNext]_<<vars, quiet>>

\* Tokens and request slots are interchangeable.
MCSymmetry == Permutations(Tokens) \cup Permutations(Requests)

\* A request limit is enforced exactly where requests do not overlap and KV answers: the
\* use of a limited link is put every time (profiles.ts shouldPersistUse).
QuietLimits == quiet => LimitEnforced

\* Where requests do not overlap and KV answers, a stored link is lost to nothing but its
\* own deletion, although every use of every link puts the whole list again.
QuietLinksKept == [][
    quiet => \A t \in Tokens : store[t] # None /\ store'[t] = None =>
        \E r \in Requests : request[r] # None /\ request[r].op = "delete" /\ request[r].token = t]_<<vars, quiet>>

=============================================================================
