----------------------------- MODULE MCPayments -----------------------------
(* One courier, one code and single tries keep the parcel small.  A        *)
(* behaviour books and edits with two quotes: a prepaid one and one for    *)
(* cash, so that a parcel can stop owing, or two prepaid ones, so that a   *)
(* fee can rise while the payer is on the gateway's page.  With the latter *)
(* one request at a time is in flight, the payer neither is declined nor   *)
(* gives up, and the parcel is followed until it is picked up, after which *)
(* its price is fixed.                                                     *)
EXTENDS Payments, FiniteSets

VARIABLE offered

Quote(cod, fee) == [cod |-> cod, fee |-> fee, codFee |-> IF cod > 0 THEN 1 ELSE 0, back |-> 1]

Prepaid == {Quote(0, 3), Quote(0, 4)}
Mixed == {Quote(0, 3), Quote(5, 3)}
MCQuotes == Prepaid \cup Mixed

MCInit == PaymentsInit /\ offered \in {Prepaid, Mixed}

MCNext ==
  /\ PaymentsNext
  /\ Exists(parcel') => \E q \in offered : parcel'.cod = q.cod /\ parcel'.fee = q.fee
  /\ offered = Prepaid =>
       /\ Cardinality({h \in Handlers : work'[h].stage # "idle"}) <= 1
       /\ parcel'.status \in {"UNBOOKED", "PENDING", "PICKED_UP", "CANCELLED"}
       /\ \A r \in reports' : r.val
  /\ UNCHANGED offered

MCSpec == MCInit /\ [][MCNext]_<<allVars, offered>>

(* What the platform and the gateway owe; it changes no reachable state.   *)
MCFairSpec == MCSpec /\ RequestsEnd /\ GatewayInsists

(* The gateway also answers validation calls in the end. *)
MCAnsweringSpec == MCFairSpec /\ GatewayAnswers

=============================================================================
