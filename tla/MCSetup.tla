------------------------------ MODULE MCSetup ------------------------------
(***************************************************************************)
(* A finite instance of Setup.  Requests and isolates are interchangeable: *)
(* the kinds come in one order and the first request runs in the first     *)
(* isolate.  (A symmetry set would make the check of ClaimSucceeds         *)
(* unsound.)                                                               *)
(***************************************************************************)
EXTENDS Setup, TLC

Rank == "page" :> 1 @@ "save" :> 2 @@ "claim" :> 3

MCInit ==
    /\ Init
    /\ \A q, r \in Requests : q < r =>
         /\ Rank[kind[q]] <= Rank[kind[r]]
         /\ kind[q] = kind[r] => home[q] <= home[r]
    /\ home[1] = 1
    /\ kind[3] = "claim"
    /\ kind[1] # "claim"

MCSpec == MCInit /\ [][Next]_vars /\ Fairness
=============================================================================
