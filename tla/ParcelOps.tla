----------------------------- MODULE ParcelOps -----------------------------
(***************************************************************************)
(* What every mutating route of ParcelService may do to one parcel,        *)
(* as a function of the row the request READ.                              *)
(*                                                                         *)
(* Each handler is a set of changes: empty when the handler's guards       *)
(* refuse the request, otherwise one element per input (actor, target      *)
(* status, courier, quote, code) the handler accepts.  A change holds the  *)
(* whole in-memory entity the handler is about to save, because that, and  *)
(* not the columns it touched, is what TypeORM's save compares with the    *)
(* row.  ParcelFlow applies a change at once; ParcelRequests lets time     *)
(* pass between reading the row and saving the change.                     *)
(***************************************************************************)
EXTENDS Integers

CONSTANTS
  Couriers,        \* approved, active couriers
  NoCourier,       \* deliveryPersonnel = null
  Codes,           \* the six-digit delivery codes
  NoCode,          \* deliveryCodeHash = null, or a deliveryCode not sent
  Quotes,          \* what quote() can answer for the payloads considered
  MaxAttempts,     \* MAX_DELIVERY_ATTEMPTS
  MaxCodeTries,    \* MAX_DELIVERY_CODE_ATTEMPTS
  RequirePayment,  \* REQUIRE_PAYMENT_BEFORE_PICKUP
  RequireOtp       \* REQUIRE_DELIVERY_OTP

(* Who asks: an admin, the account that booked the parcel, the account it  *)
(* is addressed to, or a courier.  Anyone else is refused by every handler.*)
Staff == {"admin", "sender", "receiver"}
Actors == Staff \cup Couriers

(* A quote: the cash to collect, the fee it leads to, the share of the fee *)
(* charged for handling that cash, and what carrying the parcel back would *)
(* cost.  A prepaid parcel has no cash to handle.                          *)
QuoteType == [cod: Nat, fee: Nat, codFee: Nat, back: Nat]

ASSUME QuotesAssumption ==
  /\ Quotes \subseteq QuoteType
  /\ \A q \in Quotes : q.cod = 0 => q.codFee = 0
ASSUME CouriersAssumption ==
  /\ NoCourier \notin Couriers
  /\ Couriers \cap Staff = {}
ASSUME CodesAssumption == NoCode \notin Codes
ASSUME LimitsAssumption ==
  /\ MaxAttempts \in Nat \ {0}
  /\ MaxCodeTries \in Nat \ {0}
ASSUME FlagsAssumption == RequirePayment \in BOOLEAN /\ RequireOtp \in BOOLEAN

-----------------------------------------------------------------------------
(* The parcel row *)

ParcelStatus ==
  {"PENDING", "PICKED_UP", "IN_TRANSIT", "OUT_FOR_DELIVERY", "FAILED_ATTEMPT",
   "RETURNING", "DELIVERED", "CANCELLED", "RETURNED_TO_SENDER"}

(* "UNBOOKED" stands for the row not existing yet. *)
RowStatus == ParcelStatus \cup {"UNBOOKED"}

(* The pairs of the table of the same name. *)
PARCEL_STATUS_TRANSITIONS ==
  ({"PENDING"} \X {"PICKED_UP", "CANCELLED"})
  \cup ({"PICKED_UP"} \X {"IN_TRANSIT", "CANCELLED"})
  \cup ({"IN_TRANSIT"} \X {"OUT_FOR_DELIVERY", "DELIVERED", "RETURNING", "CANCELLED"})
  \cup ({"OUT_FOR_DELIVERY"} \X {"DELIVERED", "FAILED_ATTEMPT", "CANCELLED"})
  \cup ({"FAILED_ATTEMPT"} \X {"OUT_FOR_DELIVERY", "RETURNING", "CANCELLED"})
  \cup ({"RETURNING"} \X {"RETURNED_TO_SENDER"})

CLOSED_STATUSES == {"DELIVERED", "CANCELLED", "RETURNED_TO_SENDER"}

COURIER_STATUSES ==
  {"PICKED_UP", "IN_TRANSIT", "OUT_FOR_DELIVERY", "DELIVERED", "RETURNING",
   "RETURNED_TO_SENDER"}

PaymentStatus == {"NOT_REQUIRED", "UNPAID", "PAID"}

(* A date column: null, or some date. *)
Dates == {"null", "set"}

(* blocked: isBlocked; courier: deliveryPersonnel; cod: codAmount; fee:    *)
(* deliveryFee; codFee and back: what the frozen feeBreakdown says of the  *)
(* cash-handling share and of the trip back; payment: paymentStatus;       *)
(* codCollected: isCodCollected; attempts: deliveryAttempts; hash and      *)
(* tries: deliveryCodeHash (as the code it matches) and                    *)
(* deliveryCodeAttempts.                                                   *)
Parcel ==
  [status: RowStatus, blocked: BOOLEAN, courier: Couriers \cup {NoCourier},
   cod: Nat, fee: Nat, codFee: Nat, back: Nat, returnFee: Nat,
   payment: PaymentStatus, codCollected: BOOLEAN, deliveredAt: Dates,
   attempts: Nat, rescheduledFor: Dates,
   hash: Codes \cup {NoCode}, tries: Nat]

Columns ==
  {"status", "blocked", "courier", "cod", "fee", "codFee", "back", "returnFee",
   "payment", "codCollected", "deliveredAt", "attempts", "rescheduledFor", "hash",
   "tries"}

(* The `select: false` columns: a loaded entity does not carry them, so a  *)
(* save writes them exactly when the handler assigned them.                *)
Unselected == {"hash", "tries"}

NoParcel ==
  [status |-> "UNBOOKED", blocked |-> FALSE, courier |-> NoCourier,
   cod |-> 0, fee |-> 0, codFee |-> 0, back |-> 0, returnFee |-> 0,
   payment |-> "UNPAID", codCollected |-> FALSE, deliveredAt |-> "null",
   attempts |-> 0, rescheduledFor |-> "null", hash |-> NoCode, tries |-> 0]

Exists(p) == p.status # "UNBOOKED"

(* The entity after the handler assigned the fields of the record s. *)
With(p, s) == [c \in Columns |-> IF c \in DOMAIN s THEN s[c] ELSE p[c]]

-----------------------------------------------------------------------------
(* The ledger entries a parcel event posts, as totals per entry type *)

EntryTypes ==
  {"DELIVERY_FEE", "FEE_ADJUSTMENT", "FEE_REVERSAL", "COD_FEE_REVERSAL",
   "RETURN_FEE", "COD_CREDIT", "COD_COLLECTED"}

Entries == [EntryTypes -> Int]

NoEntries == [t \in EntryTypes |-> 0]

bookingEntries(fee) == [NoEntries EXCEPT !["DELIVERY_FEE"] = -fee]

(* Mutant: the new fee is charged in full. *)
repricingEntriesFull(fee, previousFee) ==
  [NoEntries EXCEPT !["FEE_ADJUSTMENT"] = -fee]

repricingEntries(fee, previousFee) ==
  [NoEntries EXCEPT !["FEE_ADJUSTMENT"] = -(fee - previousFee)]

(* Mutant: the merchant is credited, the courier's cash is forgotten. *)
deliveryEntriesOneSided(p) == [NoEntries EXCEPT !["COD_CREDIT"] = p.cod]

(* Only called with a courier on the parcel when there is cash: see        *)
(* HasHolder.                                                              *)
deliveryEntries(p) ==
  [t \in EntryTypes |-> IF t \in {"COD_COLLECTED", "COD_CREDIT"} THEN p.cod ELSE 0]

(* deliveryEntries throws on a COD parcel with no courier. *)
HasHolder(p) == p.cod > 0 => p.courier # NoCourier

(* Mutant: the cash-handling fee is kept. *)
returnEntriesKeepingCodFee(codFee, returnFee) ==
  [NoEntries EXCEPT !["RETURN_FEE"] = -returnFee]

returnEntries(codFee, returnFee) ==
  [t \in EntryTypes |-> IF t = "COD_FEE_REVERSAL" THEN codFee
                        ELSE IF t = "RETURN_FEE" THEN -returnFee ELSE 0]

(* feeChargedFor: the sum of the FEE_CHARGE_TYPES rows of the parcel. *)
feeChargedFor(books) ==
  books["DELIVERY_FEE"] + books["FEE_ADJUSTMENT"] + books["FEE_REVERSAL"]

cancellationEntries(books) ==
  [NoEntries EXCEPT !["FEE_REVERSAL"] = -feeChargedFor(books)]

Posted(books, entries) == [t \in EntryTypes |-> books[t] + entries[t]]

-----------------------------------------------------------------------------
(* A change: what a handler decided, before anything is written *)

Change ==
  [by: Actors,                           \* the actor of the status log
   log: RowStatus,                       \* the status the handler logs
   after: Parcel,                        \* the in-memory entity
   assigned: SUBSET Columns,             \* the columns the handler assigned
   entries: Entries,                     \* the drafts computed up front
   refund: BOOLEAN,                      \* drafts read in the transaction (cancel)
   typed: Codes \cup {NoCode},           \* the code to verify before saving
   via: {"save", "update"}]              \* persist, or a direct column update

Decides(p, actor, log, s, entries, refund, typed, via) ==
  [by |-> actor, log |-> log, after |-> With(p, s), assigned |-> DOMAIN s,
   entries |-> entries, refund |-> refund, typed |-> typed, via |-> via]

(* persist(parcel, { status: log, actor }, entries) after assigning s. *)
Saves(p, actor, log, s, entries) ==
  Decides(p, actor, log, s, entries, FALSE, NoCode, "save")

(* A direct update has no log row: the field repeats the status read. *)
Updates(p, actor, s) ==
  Decides(p, actor, p.status, s, NoEntries, FALSE, NoCode, "update")

(* Mutant: the reversal is computed from the parcel that was read. *)
CancelsByParcel(p, actor, log, s) ==
  Saves(p, actor, log, s, [NoEntries EXCEPT !["FEE_REVERSAL"] = p.fee])

Cancels(p, actor, log, s) ==
  Decides(p, actor, log, s, NoEntries, TRUE, NoCode, "save")

-----------------------------------------------------------------------------
(* Guards shared by several handlers *)

AttemptsLeft(p) == p.attempts < MaxAttempts

TransitionAllowed(p, to) == <<p.status, to>> \in PARCEL_STATUS_TRANSITIONS

IsAdminOrAssigned(p, actor) ==
  \/ actor = "admin"
  \/ actor \in Couriers /\ p.courier = actor

(* Mutant: REQUIRE_DELIVERY_OTP is only enforced by submitDeliveryProof. *)
MayUpdateStatusWithoutOtp(p, actor, to) ==
  /\ ~p.blocked
  /\ to # "FAILED_ATTEMPT"
  /\ IsAdminOrAssigned(p, actor)
  /\ actor \in Couriers => to \in COURIER_STATUSES
  /\ TransitionAllowed(p, to)
  /\ to = "PICKED_UP" => /\ p.courier # NoCourier
                         /\ RequirePayment => p.payment # "UNPAID"

(* The guards of updateStatus up to its switch.  FAILED_ATTEMPT has a      *)
(* route of its own, and with the one-time code required a courier closes  *)
(* a parcel through delivery proof only.                                   *)
MayUpdateStatus(p, actor, to) ==
  /\ ~p.blocked
  /\ to # "FAILED_ATTEMPT"
  /\ IsAdminOrAssigned(p, actor)
  /\ actor \in Couriers => to \in COURIER_STATUSES
  /\ TransitionAllowed(p, to)
  /\ to = "PICKED_UP" => /\ p.courier # NoCourier
                         /\ RequirePayment => p.payment # "UNPAID"
  /\ to = "DELIVERED" /\ RequireOtp => actor \notin Couriers

(* markDelivered refuses a COD parcel whose cash is not recorded, and      *)
(* throws (through deliveryEntries) when nobody holds the cash.            *)
MayBeDelivered(p) == (p.cod > 0 => p.codCollected) /\ HasHolder(p)

markDelivered ==
  [status |-> "DELIVERED", deliveredAt |-> "set", hash |-> NoCode, rescheduledFor |-> "null"]

-----------------------------------------------------------------------------
(* The handlers.  Each is the set of changes it may make for this actor to *)
(* the parcel it read; a set filtered by a guard alone is empty when the   *)
(* guard refuses.                                                          *)

paymentStatusFor(q) == IF q.cod > 0 THEN "NOT_REQUIRED" ELSE "UNPAID"

create(p, actor) ==
  {Saves(p, actor, "PENDING",
         [status |-> "PENDING", cod |-> q.cod, fee |-> q.fee, codFee |-> q.codFee,
          back |-> q.back, payment |-> paymentStatusFor(q)],
         bookingEntries(q.fee)) :
     q \in {x \in Quotes : ~Exists(p) /\ actor = "sender"}}

(* Mutant: the timeline is given the status the parcel leaves. *)
updateStatusAlongLoggingFrom(p, actor) ==
  {Saves(p, actor, p.status, [status |-> to, hash |-> NoCode], NoEntries) :
     to \in {x \in {"PICKED_UP", "IN_TRANSIT", "RETURNING"} : MayUpdateStatus(p, actor, x)}}

(* updateStatus, the default branch of its switch. *)
updateStatusAlong(p, actor) ==
  {Saves(p, actor, to, [status |-> to, hash |-> NoCode], NoEntries) :
     to \in {x \in {"PICKED_UP", "IN_TRANSIT", "RETURNING"} : MayUpdateStatus(p, actor, x)}}

(* Mutant: the rescheduled day outlives the next attempt. *)
updateStatusOutKeepingDay(p, actor) ==
  {Saves(p, actor, "OUT_FOR_DELIVERY",
         [status |-> "OUT_FOR_DELIVERY", hash |-> code, tries |-> 0], NoEntries) :
     code \in {x \in Codes : /\ MayUpdateStatus(p, actor, "OUT_FOR_DELIVERY")
                             /\ p.status = "FAILED_ATTEMPT" => AttemptsLeft(p)}}

updateStatusOut(p, actor) ==
  {Saves(p, actor, "OUT_FOR_DELIVERY",
         [status |-> "OUT_FOR_DELIVERY", hash |-> code, tries |-> 0,
          rescheduledFor |-> "null"], NoEntries) :
     code \in {x \in Codes : /\ MayUpdateStatus(p, actor, "OUT_FOR_DELIVERY")
                             /\ p.status = "FAILED_ATTEMPT" => AttemptsLeft(p)}}

updateStatusDelivered(p, actor) ==
  {c \in {Saves(p, actor, "DELIVERED", markDelivered, deliveryEntries(p))} :
     MayUpdateStatus(p, actor, "DELIVERED") /\ MayBeDelivered(p)}

updateStatusReturned(p, actor) ==
  {c \in {Saves(p, actor, "RETURNED_TO_SENDER",
                [status |-> "RETURNED_TO_SENDER", returnFee |-> p.back, hash |-> NoCode],
                returnEntries(p.codFee, p.back))} :
     MayUpdateStatus(p, actor, "RETURNED_TO_SENDER")}

updateStatusCancelled(p, actor) ==
  {c \in {Cancels(p, actor, "CANCELLED", [status |-> "CANCELLED", hash |-> NoCode])} :
     MayUpdateStatus(p, actor, "CANCELLED")}

(* Mutant: the code of the failed attempt stays valid. *)
recordFailedAttemptKeepingCode(p, actor) ==
  {Saves(p, actor, "FAILED_ATTEMPT",
         [status |-> "FAILED_ATTEMPT", attempts |-> p.attempts + 1, rescheduledFor |-> day],
         NoEntries) :
     day \in {x \in Dates : /\ IsAdminOrAssigned(p, actor)
                              /\ ~p.blocked
                              /\ TransitionAllowed(p, "FAILED_ATTEMPT")}}

recordFailedAttempt(p, actor) ==
  {Saves(p, actor, "FAILED_ATTEMPT",
         [status |-> "FAILED_ATTEMPT", attempts |-> p.attempts + 1, rescheduledFor |-> day,
          hash |-> NoCode], NoEntries) :
     day \in {x \in Dates : /\ IsAdminOrAssigned(p, actor)
                              /\ ~p.blocked
                              /\ TransitionAllowed(p, "FAILED_ATTEMPT")}}

rescheduleDelivery(p, actor) ==
  {c \in {Saves(p, actor, p.status, [rescheduledFor |-> "set"], NoEntries)} :
     /\ actor \in Staff
     /\ ~p.blocked
     /\ p.status = "FAILED_ATTEMPT"
     /\ AttemptsLeft(p)}

(* Mutant: a booking can be edited after pickup. *)
MayEditAnytime(p, actor) ==
  /\ actor \in {"admin", "sender"}
  /\ ~p.blocked
  /\ p.status \notin CLOSED_STATUSES \cup {"UNBOOKED"}

MayEdit(p, actor) ==
  /\ actor \in {"admin", "sender"}
  /\ ~p.blocked
  /\ p.status = "PENDING"

(* Mutant: a paid parcel is re-priced like any other. *)
MayRepricePaid(p, actor, q) == MayEdit(p, actor)

(* A paid fee is frozen: an edit that leaves it alone is still accepted.   *)
MayReprice(p, actor, q) ==
  MayEdit(p, actor) /\ (p.payment = "PAID" => q.fee = p.fee)

(* An edit re-prices when it names one of the PRICED_FIELDS, and leaves    *)
(* every column modelled here alone otherwise.                             *)
updateParcel(p, actor) ==
  {Saves(p, actor, p.status,
         [cod |-> q.cod, fee |-> q.fee, codFee |-> q.codFee, back |-> q.back,
          payment |-> IF p.payment = "PAID" THEN "PAID" ELSE paymentStatusFor(q)],
         repricingEntries(q.fee, p.fee)) :
     q \in {x \in Quotes : MayReprice(p, actor, x)}}
  \cup
  {c \in {Saves(p, actor, p.status, [status |-> p.status], NoEntries)} : MayEdit(p, actor)}

reissueDeliveryCode(p, actor) ==
  {Updates(p, actor, [hash |-> code, tries |-> 0]) :
     code \in {x \in Codes : /\ actor \in {"admin", "receiver"}
                             /\ ~p.blocked
                             /\ p.status = "OUT_FOR_DELIVERY"}}

assignDeliveryPersonnel(p, actor) ==
  {Saves(p, actor, p.status, [courier |-> d], NoEntries) :
     d \in {x \in Couriers : /\ actor = "admin"
                             /\ Exists(p)
                             /\ ~p.blocked
                             /\ p.status \notin CLOSED_STATUSES}}

unassignDeliveryPersonnel(p, actor) ==
  {c \in {Saves(p, actor, p.status, [courier |-> NoCourier], NoEntries)} :
     actor = "admin" /\ p.courier # NoCourier}

cancelParcel(p, actor) ==
  {c \in {Cancels(p, actor, "CANCELLED", [status |-> "CANCELLED"])} :
     /\ actor = "sender"
     /\ ~p.blocked
     /\ TransitionAllowed(p, "CANCELLED")
     /\ p.status = "PENDING"}

confirmDelivery(p, actor) ==
  {c \in {Saves(p, actor, "DELIVERED", markDelivered, deliveryEntries(p))} :
     /\ actor = "receiver"
     /\ ~p.blocked
     /\ TransitionAllowed(p, "DELIVERED")
     /\ MayBeDelivered(p)}

setBlocked(p, actor) ==
  {Saves(p, actor, p.status, [blocked |-> b], NoEntries) :
     b \in {x \in BOOLEAN : actor = "admin" /\ Exists(p) /\ p.blocked # x}}

-----------------------------------------------------------------------------
(* submitDeliveryProof, and the code the courier types in *)

MaySubmitProof(p, actor) ==
  /\ IsAdminOrAssigned(p, actor)
  /\ ~p.blocked
  /\ p.status # "CANCELLED"

(* Without a code only a courier is refused, and only when one is required.*)
MayOmitCode(actor) == RequireOtp => actor \notin Couriers

proofColumns(collected) ==
  [codCollected |-> collected, status |-> "DELIVERED", deliveredAt |-> "set",
   hash |-> NoCode, rescheduledFor |-> "null"]

(* Mutant: proof closes a parcel from any status it is accepted in. *)
proofOfHandoverUnchecked(p, actor, code) ==
  {Decides(p, actor, "DELIVERED", proofColumns(collected), deliveryEntries(p), FALSE, code,
           "save") :
     collected \in {x \in BOOLEAN : /\ MaySubmitProof(p, actor)
                                    /\ p.cod > 0 => x
                                    /\ Exists(p)
                                    /\ p.status # "DELIVERED"
                                    /\ HasHolder(p)
                                    /\ code = NoCode => MayOmitCode(actor)}}

(* Mutant: the proof is logged under the status the courier found. *)
proofOfHandoverLoggingOld(p, actor, code) ==
  {Decides(p, actor, p.status, proofColumns(collected), deliveryEntries(p), FALSE, code,
           "save") :
     collected \in {x \in BOOLEAN : /\ MaySubmitProof(p, actor)
                                    /\ p.cod > 0 => x
                                    /\ TransitionAllowed(p, "DELIVERED")
                                    /\ HasHolder(p)
                                    /\ code = NoCode => MayOmitCode(actor)}}

(* The handover itself, with the code that was typed or NoCode: the code   *)
(* is still to be verified, the money moves.                               *)
proofOfHandover(p, actor, code) ==
  {Decides(p, actor, "DELIVERED", proofColumns(collected), deliveryEntries(p), FALSE, code,
           "save") :
     collected \in {x \in BOOLEAN : /\ MaySubmitProof(p, actor)
                                    /\ p.cod > 0 => x
                                    /\ TransitionAllowed(p, "DELIVERED")
                                    /\ HasHolder(p)
                                    /\ code = NoCode => MayOmitCode(actor)}}

MayAttachProof(p, actor) == MaySubmitProof(p, actor) /\ p.status = "DELIVERED"

(* Mutant: the entries of markDelivered are posted again. *)
proofAfterwardsWithMoney(p, actor) ==
  {Saves(p, actor, "DELIVERED", proofColumns(collected), deliveryEntries(p)) :
     collected \in {x \in BOOLEAN : /\ MayAttachProof(p, actor)
                                    /\ p.cod > 0 => x
                                    /\ HasHolder(p)}}

(* Proof attached after the fact: markDelivered runs again, so it can      *)
(* still throw, but its entries are not posted.                            *)
proofAfterwards(p, actor) ==
  {Saves(p, actor, "DELIVERED", proofColumns(collected), NoEntries) :
     collected \in {x \in BOOLEAN : /\ MayAttachProof(p, actor)
                                    /\ p.cod > 0 => x
                                    /\ HasHolder(p)}}

(* verifyDeliveryCode, against the row as it is when the code is checked.  *)
(* Mutant: wrong codes are counted but the count is never consulted. *)
CodeUsableForever(stored) == stored.hash # NoCode

CodeUsable(stored) == stored.hash # NoCode /\ stored.tries < MaxCodeTries

CodeAccepted(stored, code) == CodeUsable(stored) /\ stored.hash = code

wrongCode(stored, actor, code) ==
  {c \in {Updates(stored, actor, [tries |-> stored.tries + 1])} :
     CodeUsable(stored) /\ stored.hash # code}

=============================================================================
