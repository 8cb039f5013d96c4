------------------------------ MODULE MCLedger ------------------------------
(* Two admins and a courier.  One admin sends a parcel that earns money and*)
(* one that costs a fee, so a payout for the first can race the booking of *)
(* the second; the other sends one that earns, so that each admin can pay  *)
(* the other and they can lock each other out.                             *)
EXTENDS Ledger, TLC

CONSTANTS a1, a2, c1, p1, p2, p3

MCTerms ==
  p1 :> [sender |-> a1, fee |-> 0, cod |-> 1, back |-> 0] @@
  p2 :> [sender |-> a1, fee |-> 1, cod |-> 1, back |-> 1] @@
  p3 :> [sender |-> a2, fee |-> 0, cod |-> 1, back |-> 0]

=============================================================================
