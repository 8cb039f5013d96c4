----------------------------- MODULE ParcelFlow -----------------------------
(***************************************************************************)
(* What the parcel routes promise: one parcel, from booking to its end,    *)
(* with every request served as if it were alone.  A request reads the     *)
(* row, passes the handler's guards and writes the row, its ledger entries *)
(* and its status-log row in one step.  ParcelRequests is the same code    *)
(* with the time between the read and the write made visible; with one     *)
(* request in flight at a time it implements this module.                  *)
(***************************************************************************)
EXTENDS ParcelOps

VARIABLES
  parcel,  \* the row of `parcels`
  books,   \* totals of the parcel's rows in `ledger_entries`, per type
  logged   \* the row of `parcel_status_logs` the latest save appended

vars == <<parcel, books, logged>>

LogRow == [status: RowStatus, by: Actors]

Init ==
  /\ parcel = NoParcel
  /\ books = NoEntries
  /\ logged = [status |-> "UNBOOKED", by |-> "sender"]

(* persist: the entity, its status-log row and its ledger entries, in one  *)
(* transaction; the entries of a cancellation are read inside it.  A direct*)
(* column update writes the columns only.                                  *)
Commit(c) ==
  /\ parcel' = c.after
  /\ books' = Posted(books, IF c.refund THEN cancellationEntries(books) ELSE c.entries)
  /\ logged' = IF c.via = "save" THEN [status |-> c.log, by |-> c.by] ELSE logged

-----------------------------------------------------------------------------
(* One action per handler *)

Create(a) == \E c \in create(parcel, a) : Commit(c)
UpdateStatusAlong(a) == \E c \in updateStatusAlong(parcel, a) : Commit(c)
UpdateStatusOut(a) == \E c \in updateStatusOut(parcel, a) : Commit(c)
UpdateStatusDelivered(a) == \E c \in updateStatusDelivered(parcel, a) : Commit(c)
UpdateStatusReturned(a) == \E c \in updateStatusReturned(parcel, a) : Commit(c)
UpdateStatusCancelled(a) == \E c \in updateStatusCancelled(parcel, a) : Commit(c)
RecordFailedAttempt(a) == \E c \in recordFailedAttempt(parcel, a) : Commit(c)
RescheduleDelivery(a) == \E c \in rescheduleDelivery(parcel, a) : Commit(c)
UpdateParcel(a) == \E c \in updateParcel(parcel, a) : Commit(c)
ReissueDeliveryCode(a) == \E c \in reissueDeliveryCode(parcel, a) : Commit(c)
AssignDeliveryPersonnel(a) == \E c \in assignDeliveryPersonnel(parcel, a) : Commit(c)
UnassignDeliveryPersonnel(a) == \E c \in unassignDeliveryPersonnel(parcel, a) : Commit(c)
CancelParcel(a) == \E c \in cancelParcel(parcel, a) : Commit(c)
ConfirmDelivery(a) == \E c \in confirmDelivery(parcel, a) : Commit(c)
SetBlocked(a) == \E c \in setBlocked(parcel, a) : Commit(c)
AttachProof(a) == \E c \in proofAfterwards(parcel, a) : Commit(c)

(* Proof at the door, with the right code or where none is needed. *)
HandOver(a, code) ==
  \E c \in proofOfHandover(parcel, a, code) :
    /\ code # NoCode => CodeAccepted(parcel, code)
    /\ Commit(c)

(* Proof at the door with a wrong code: only the count is written. *)
CountWrongCode(a, code) ==
  /\ proofOfHandover(parcel, a, code) # {}
  /\ \E c \in wrongCode(parcel, a, code) : Commit(c)

(* Called by the payment module once the gateway confirmed the money: a    *)
(* conditional update, so a parcel that owes nothing is left alone.        *)
MarkFeePaid ==
  /\ parcel.payment = "UNPAID"
  /\ Exists(parcel)
  /\ parcel' = [parcel EXCEPT !.payment = "PAID"]
  /\ UNCHANGED <<books, logged>>

Serve(a) ==
  \/ Create(a)
  \/ UpdateStatusAlong(a)
  \/ UpdateStatusOut(a)
  \/ UpdateStatusDelivered(a)
  \/ UpdateStatusReturned(a)
  \/ UpdateStatusCancelled(a)
  \/ RecordFailedAttempt(a)
  \/ RescheduleDelivery(a)
  \/ UpdateParcel(a)
  \/ ReissueDeliveryCode(a)
  \/ AssignDeliveryPersonnel(a)
  \/ UnassignDeliveryPersonnel(a)
  \/ CancelParcel(a)
  \/ ConfirmDelivery(a)
  \/ SetBlocked(a)
  \/ AttachProof(a)
  \/ \E code \in Codes \cup {NoCode} : HandOver(a, code)
  \/ \E code \in Codes : CountWrongCode(a, code)

Next == (\E a \in Actors : Serve(a)) \/ MarkFeePaid

Spec == Init /\ [][Next]_vars

-----------------------------------------------------------------------------
(* Properties *)

(* The row, the ledger totals and the log row have their types, and wrong  *)
(* codes are counted up to MAX_DELIVERY_CODE_ATTEMPTS only.                *)
TypeOK ==
  /\ parcel \in Parcel
  /\ parcel.tries <= MaxCodeTries
  /\ books \in Entries
  /\ logged \in LogRow

(* The fee the ledger charges is the fee on the row, through any number of *)
(* re-pricings, and nothing once the parcel is cancelled: bookingEntries,  *)
(* repricingEntries and cancellationEntries add up.                        *)
FeesMatchStatus ==
  feeChargedFor(books) = IF parcel.status = "CANCELLED" THEN 0 ELSE -parcel.fee

(* The cash is on the ledger exactly when the parcel is delivered, once in *)
(* the courier's hands and once on the merchant's balance, whichever of    *)
(* the three routes delivered it and however often proof is attached.      *)
CashMatchesStatus ==
  LET cash == IF parcel.status = "DELIVERED" THEN parcel.cod ELSE 0
  IN  books["COD_CREDIT"] = cash /\ books["COD_COLLECTED"] = cash

(* The trip back is charged, and the cash-handling fee given back, exactly *)
(* for a parcel that reached its sender again.                             *)
ReturnMatchesStatus ==
  LET returned == parcel.status = "RETURNED_TO_SENDER"
  IN  /\ books["RETURN_FEE"] = -parcel.returnFee
      /\ parcel.returnFee = IF returned THEN parcel.back ELSE 0
      /\ books["COD_FEE_REVERSAL"] = IF returned THEN parcel.codFee ELSE 0

(* A delivery code works only while the parcel is out for delivery: every  *)
(* route that takes it off the road forgets the code.                      *)
CodeOnlyWhileOut ==
  (parcel.hash # NoCode) = (parcel.status = "OUT_FOR_DELIVERY")

(* A parcel never goes out again after MAX_DELIVERY_ATTEMPTS failures, so  *)
(* the count never passes the limit.                                       *)
AttemptsWithinLimit ==
  /\ parcel.attempts <= MaxAttempts
  /\ parcel.status = "OUT_FOR_DELIVERY" => parcel.attempts < MaxAttempts

(* A new day for the next attempt is forgotten once the parcel goes out or *)
(* is handed over.                                                         *)
ReschedulesAreSpent ==
  parcel.rescheduledFor # "null" =>
    parcel.status \in {"FAILED_ATTEMPT", "RETURNING", "RETURNED_TO_SENDER", "CANCELLED"}

(* With REQUIRE_PAYMENT_BEFORE_PICKUP, a prepaid parcel on the road has    *)
(* been paid for: no later edit can make it owe its fee again.             *)
OnTheRoadIsPaid ==
  RequirePayment /\ parcel.status \notin {"UNBOOKED", "PENDING", "CANCELLED"} =>
    parcel.payment # "UNPAID"

(* deliveredAt is stamped on exactly the delivered parcels, whichever of   *)
(* the three routes closed them out.                                       *)
DeliveredIsStamped ==
  (parcel.deliveredAt # "null") = (parcel.status = "DELIVERED")

(* The newest log row tells where the parcel is: the status each handler   *)
(* passes for the timeline is the one its own edits left on the entity.    *)
TimelineMatches == logged.status = parcel.status

(* A fee paid online is frozen, and never becomes unpaid again. *)
PaidFeeIsFrozen ==
  [][parcel.payment = "PAID" =>
       parcel'.payment = "PAID" /\ parcel'.fee = parcel.fee]_vars

(* With REQUIRE_DELIVERY_OTP a courier closes a parcel only against a code *)
(* that is active and has tries left.                                      *)
CourierClosesWithCode ==
  [][/\ RequireOtp
     /\ parcel.status # "DELIVERED"
     /\ parcel'.status = "DELIVERED"
     /\ logged'.by \in Couriers
     => CodeUsable(parcel)]_vars

(* Every move of the parcel is one of PARCEL_STATUS_TRANSITIONS. *)
MovesAreLegal ==
  [][parcel'.status # parcel.status =>
       \/ TransitionAllowed(parcel, parcel'.status)
       \/ parcel.status = "UNBOOKED" /\ parcel'.status = "PENDING"]_vars

=============================================================================
