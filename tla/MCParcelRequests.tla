-------------------------- MODULE MCParcelRequests --------------------------
(* Two requests in flight.  The quotes are one prepaid and one COD parcel  *)
(* at different totals, so an edit changes cash and fee.  Requests either  *)
(* come one by one, with two codes and every limit within reach, or        *)
(* overlap, with one code and one attempt.                                 *)
EXTENDS ParcelRequests, TLC

VARIABLE traffic

MCQuotes ==
  {[cod |-> 0, fee |-> 3, codFee |-> 0, back |-> 1],
   [cod |-> 5, fee |-> 4, codFee |-> 1, back |-> 1]}

First == CHOOSE k \in Codes : TRUE

MCInit == RequestsInit /\ traffic \in {"one by one", "overlapping"}

OneCode(code) == code \in {First, NoCode}

(* What requests ask for when they overlap.                                *)
Allowed ==
  IF traffic = "one by one" THEN overlaps' = 0
  ELSE \A r \in InFlight' :
         /\ OneCode(held'[r].after.hash) /\ OneCode(held'[r].typed)
         /\ held'[r].after.attempts <= 1

MCNext == RequestsNext /\ Allowed /\ UNCHANGED traffic

MCSpec == MCInit /\ [][MCNext]_<<requestVars, traffic>>

(* Request slots are interchangeable: no property names one. *)
MCSlots == Permutations(Requests)

=============================================================================
