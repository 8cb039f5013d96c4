-------------------------- MODULE ParcelOps_proofs --------------------------
(***************************************************************************)
(* Facts about what is computed from one row or one payload: the handlers, *)
(* as functions of the row they read, make well-formed changes only, of    *)
(* booked parcels, which the other proof modules cite; and prices are what *)
(* the handlers assume of quotes.                                          *)
(***************************************************************************)
EXTENDS ParcelOps, Pricing, TLAPS

LEMMA NoEntriesType == NoEntries \in Entries
BY SMT DEF NoEntries, Entries, EntryTypes

LEMMA EntriesType ==
  ASSUME NEW fee \in Nat, NEW old \in Nat
  PROVE  /\ bookingEntries(fee) \in Entries
         /\ repricingEntries(fee, old) \in Entries
         /\ returnEntries(fee, old) \in Entries
BY SMT DEF bookingEntries, repricingEntries, returnEntries, NoEntries, Entries, EntryTypes

LEMMA DeliveryEntriesType ==
  ASSUME NEW p \in Parcel
  PROVE  deliveryEntries(p) \in Entries
BY SMT DEF deliveryEntries, Entries, EntryTypes, Parcel

(* feeChargedFor and cancellationEntries on well-typed books. *)
LEMMA CancellationType ==
  ASSUME NEW b \in Entries
  PROVE  feeChargedFor(b) \in Int /\ cancellationEntries(b) \in Entries
BY SMT DEF feeChargedFor, cancellationEntries, NoEntries, Entries, EntryTypes

LEMMA PostedType ==
  ASSUME NEW b \in Entries, NEW e \in Entries
  PROVE  /\ Posted(b, e) \in Entries
         /\ \A t \in EntryTypes : Posted(b, e)[t] = b[t] + e[t]
BY SMT DEF Posted, Entries

(* A cancellation leaves no fee charged, whatever was charged before. *)
LEMMA CancellationClears ==
  ASSUME NEW b \in Entries
  PROVE  feeChargedFor(Posted(b, cancellationEntries(b))) = 0
BY SMT DEF feeChargedFor, cancellationEntries, Posted, NoEntries, Entries, EntryTypes

(* Every status a handler logs is one of the row's. *)
LEMMA LogStatuses ==
  /\ ParcelStatus \subseteq RowStatus
  /\ \A s \in {"PENDING", "PICKED_UP", "IN_TRANSIT", "RETURNING", "OUT_FOR_DELIVERY",
              "FAILED_ATTEMPT", "DELIVERED", "CANCELLED", "RETURNED_TO_SENDER"} :
       s \in RowStatus
  /\ \A p \in Parcel : p.status \in RowStatus
BY SMT DEF RowStatus, ParcelStatus, Parcel

(* A save of a row, whatever was assigned, is a change. *)
LEMMA DecidesChange ==
  ASSUME NEW a \in Actors, NEW p, NEW log \in RowStatus, NEW s, NEW e \in Entries,
         NEW refund \in BOOLEAN, NEW typed \in Codes \cup {NoCode},
         NEW via \in {"save", "update"},
         With(p, s) \in Parcel, DOMAIN s \subseteq Columns
  PROVE  Decides(p, a, log, s, e, refund, typed, via) \in Change
BY SMT DEF Decides, Change

LEMMA SavesChange ==
  ASSUME NEW a \in Actors, NEW p, NEW log \in RowStatus, NEW s, NEW e \in Entries,
         With(p, s) \in Parcel, DOMAIN s \subseteq Columns
  PROVE  Saves(p, a, log, s, e) \in Change
BY DecidesChange, Zenon DEF Saves

LEMMA CancelsChange ==
  ASSUME NEW a \in Actors, NEW p, NEW log \in RowStatus, NEW s,
         With(p, s) \in Parcel, DOMAIN s \subseteq Columns
  PROVE  Cancels(p, a, log, s) \in Change
BY DecidesChange, NoEntriesType, Zenon DEF Cancels

LEMMA UpdatesChange ==
  ASSUME NEW a \in Actors, NEW p \in Parcel, NEW s,
         With(p, s) \in Parcel, DOMAIN s \subseteq Columns
  PROVE  Updates(p, a, s) \in Change
BY DecidesChange, NoEntriesType, LogStatuses, Zenon DEF Updates

-----------------------------------------------------------------------------
LEMMA CreateChange ==
  ASSUME NEW p \in Parcel, NEW a \in Actors, NEW c \in create(p, a)
  PROVE  c \in Change
<1>1. PICK q \in Quotes :
        c = Saves(p, a, "PENDING",
              [status |-> "PENDING", cod |-> q.cod, fee |-> q.fee, codFee |-> q.codFee,
               back |-> q.back, payment |-> paymentStatusFor(q)],
              bookingEntries(q.fee))
  BY DEF create
<1>2. q \in QuoteType /\ paymentStatusFor(q) \in PaymentStatus
  BY QuotesAssumption, SMT DEF paymentStatusFor, PaymentStatus
<1>3. bookingEntries(q.fee) \in Entries
  BY <1>2, EntriesType DEF QuoteType
<1>4. With(p, [status |-> "PENDING", cod |-> q.cod, fee |-> q.fee, codFee |-> q.codFee,
               back |-> q.back, payment |-> paymentStatusFor(q)]) \in Parcel
  BY <1>2, SMT DEF With, Columns, Parcel, Dates, QuoteType, RowStatus, ParcelStatus
<1>. QED
  BY <1>1, <1>3, <1>4, SavesChange, LogStatuses, SMT DEF Columns


LEMMA AlongChange ==
  ASSUME NEW p \in Parcel, NEW a \in Actors, NEW c \in updateStatusAlong(p, a)
  PROVE  c \in Change
<1>1. PICK to \in {"PICKED_UP", "IN_TRANSIT", "RETURNING"} :
        c = Saves(p, a, to, [status |-> to, hash |-> NoCode], NoEntries)
  BY DEF updateStatusAlong
<1>2. With(p, [status |-> to, hash |-> NoCode]) \in Parcel
  BY SMT DEF With, Columns, Parcel, Dates, RowStatus, ParcelStatus
<1>. QED
  BY <1>1, <1>2, SavesChange, LogStatuses, NoEntriesType, SMT DEF Columns

LEMMA OutChange ==
  ASSUME NEW p \in Parcel, NEW a \in Actors, NEW c \in updateStatusOut(p, a)
  PROVE  c \in Change
<1>1. PICK code \in Codes :
        c = Saves(p, a, "OUT_FOR_DELIVERY",
                  [status |-> "OUT_FOR_DELIVERY", hash |-> code, tries |-> 0,
                         rescheduledFor |-> "null"],
                  NoEntries)
  BY DEF updateStatusOut
<1>2. With(p, [status |-> "OUT_FOR_DELIVERY", hash |-> code, tries |-> 0,
               rescheduledFor |-> "null"]) \in Parcel
  BY SMT DEF With, Columns, Parcel, Dates, RowStatus, ParcelStatus
<1>. QED
  BY <1>1, <1>2, SavesChange, LogStatuses, NoEntriesType, SMT DEF Columns

LEMMA DeliveredChange ==
  ASSUME NEW p \in Parcel, NEW a \in Actors, NEW c \in updateStatusDelivered(p, a)
  PROVE  c \in Change
<1>1. c = Saves(p, a, "DELIVERED", markDelivered, deliveryEntries(p))
  BY DEF updateStatusDelivered
<1>2. With(p, markDelivered) \in Parcel
  BY SMT DEF With, Columns, Parcel, Dates, RowStatus, ParcelStatus, markDelivered
<1>. QED
  BY <1>1, <1>2, SavesChange, LogStatuses, DeliveryEntriesType, SMT DEF Columns, markDelivered

LEMMA ReturnedChange ==
  ASSUME NEW p \in Parcel, NEW a \in Actors, NEW c \in updateStatusReturned(p, a)
  PROVE  c \in Change
<1>1. c = Saves(p, a, "RETURNED_TO_SENDER",
                [status |-> "RETURNED_TO_SENDER", returnFee |-> p.back, hash |-> NoCode],
                  returnEntries(p.codFee, p.back))
  BY DEF updateStatusReturned
<1>2. With(p, [status |-> "RETURNED_TO_SENDER", returnFee |-> p.back, hash |-> NoCode]) \in Parcel
  BY SMT DEF With, Columns, Parcel, Dates, RowStatus, ParcelStatus
<1>. QED
  BY <1>1, <1>2, SavesChange, LogStatuses, EntriesType, SMT DEF Columns, Parcel

LEMMA CancelledChange ==
  ASSUME NEW p \in Parcel, NEW a \in Actors, NEW c \in updateStatusCancelled(p, a)
  PROVE  c \in Change
<1>1. c = Cancels(p, a, "CANCELLED", [status |-> "CANCELLED", hash |-> NoCode])
  BY DEF updateStatusCancelled
<1>2. With(p, [status |-> "CANCELLED", hash |-> NoCode]) \in Parcel
  BY SMT DEF With, Columns, Parcel, Dates, RowStatus, ParcelStatus
<1>. QED
  BY <1>1, <1>2, CancelsChange, LogStatuses, NoEntriesType, SMT DEF Columns

LEMMA FailedAttemptChange ==
  ASSUME NEW p \in Parcel, NEW a \in Actors, NEW c \in recordFailedAttempt(p, a)
  PROVE  c \in Change
<1>1. PICK day \in Dates :
        c = Saves(p, a, "FAILED_ATTEMPT",
                  [status |-> "FAILED_ATTEMPT", attempts |-> p.attempts + 1,
                         rescheduledFor |-> day,
                   hash |-> NoCode], NoEntries)
  BY DEF recordFailedAttempt
<1>2. With(p, [status |-> "FAILED_ATTEMPT", attempts |-> p.attempts + 1, rescheduledFor |-> day,
                   hash |-> NoCode]) \in Parcel
  BY SMT DEF With, Columns, Parcel, Dates, RowStatus, ParcelStatus
<1>. QED
  BY <1>1, <1>2, SavesChange, LogStatuses, NoEntriesType, SMT DEF Columns

LEMMA RescheduleChange ==
  ASSUME NEW p \in Parcel, NEW a \in Actors, NEW c \in rescheduleDelivery(p, a)
  PROVE  c \in Change
<1>1. c = Saves(p, a, p.status, [rescheduledFor |-> "set"], NoEntries)
  BY DEF rescheduleDelivery
<1>2. With(p, [rescheduledFor |-> "set"]) \in Parcel
  BY SMT DEF With, Columns, Parcel, Dates, RowStatus, ParcelStatus
<1>. QED
  BY <1>1, <1>2, SavesChange, LogStatuses, NoEntriesType, SMT DEF Columns

LEMMA ReissueChange ==
  ASSUME NEW p \in Parcel, NEW a \in Actors, NEW c \in reissueDeliveryCode(p, a)
  PROVE  c \in Change
<1>1. PICK code \in Codes : c = Updates(p, a, [hash |-> code, tries |-> 0])
  BY DEF reissueDeliveryCode
<1>2. With(p, [hash |-> code, tries |-> 0]) \in Parcel
  BY SMT DEF With, Columns, Parcel, Dates, RowStatus, ParcelStatus
<1>. QED
  BY <1>1, <1>2, UpdatesChange, LogStatuses, NoEntriesType, SMT DEF Columns

LEMMA AssignChange ==
  ASSUME NEW p \in Parcel, NEW a \in Actors, NEW c \in assignDeliveryPersonnel(p, a)
  PROVE  c \in Change
<1>1. PICK d \in Couriers : c = Saves(p, a, p.status, [courier |-> d], NoEntries)
  BY DEF assignDeliveryPersonnel
<1>2. With(p, [courier |-> d]) \in Parcel
  BY SMT DEF With, Columns, Parcel, Dates, RowStatus, ParcelStatus
<1>. QED
  BY <1>1, <1>2, SavesChange, LogStatuses, NoEntriesType, SMT DEF Columns

LEMMA UnassignChange ==
  ASSUME NEW p \in Parcel, NEW a \in Actors, NEW c \in unassignDeliveryPersonnel(p, a)
  PROVE  c \in Change
<1>1. c = Saves(p, a, p.status, [courier |-> NoCourier], NoEntries)
  BY DEF unassignDeliveryPersonnel
<1>2. With(p, [courier |-> NoCourier]) \in Parcel
  BY SMT DEF With, Columns, Parcel, Dates, RowStatus, ParcelStatus
<1>. QED
  BY <1>1, <1>2, SavesChange, LogStatuses, NoEntriesType, SMT DEF Columns

LEMMA CancelChange ==
  ASSUME NEW p \in Parcel, NEW a \in Actors, NEW c \in cancelParcel(p, a)
  PROVE  c \in Change
<1>1. c = Cancels(p, a, "CANCELLED", [status |-> "CANCELLED"])
  BY DEF cancelParcel
<1>2. With(p, [status |-> "CANCELLED"]) \in Parcel
  BY SMT DEF With, Columns, Parcel, Dates, RowStatus, ParcelStatus
<1>. QED
  BY <1>1, <1>2, CancelsChange, LogStatuses, NoEntriesType, SMT DEF Columns

LEMMA ConfirmChange ==
  ASSUME NEW p \in Parcel, NEW a \in Actors, NEW c \in confirmDelivery(p, a)
  PROVE  c \in Change
<1>1. c = Saves(p, a, "DELIVERED", markDelivered, deliveryEntries(p))
  BY DEF confirmDelivery
<1>2. With(p, markDelivered) \in Parcel
  BY SMT DEF With, Columns, Parcel, Dates, RowStatus, ParcelStatus, markDelivered
<1>. QED
  BY <1>1, <1>2, SavesChange, LogStatuses, DeliveryEntriesType, SMT DEF Columns, markDelivered

LEMMA SetBlockedChange ==
  ASSUME NEW p \in Parcel, NEW a \in Actors, NEW c \in setBlocked(p, a)
  PROVE  c \in Change
<1>1. PICK b \in BOOLEAN : c = Saves(p, a, p.status, [blocked |-> b], NoEntries)
  BY DEF setBlocked
<1>2. With(p, [blocked |-> b]) \in Parcel
  BY SMT DEF With, Columns, Parcel, Dates, RowStatus, ParcelStatus
<1>. QED
  BY <1>1, <1>2, SavesChange, LogStatuses, NoEntriesType, SMT DEF Columns

LEMMA AttachProofChange ==
  ASSUME NEW p \in Parcel, NEW a \in Actors, NEW c \in proofAfterwards(p, a)
  PROVE  c \in Change
<1>1. PICK collected \in BOOLEAN :
        c = Saves(p, a, "DELIVERED", proofColumns(collected), NoEntries)
  BY DEF proofAfterwards
<1>2. With(p, proofColumns(collected)) \in Parcel
  BY SMT DEF With, Columns, Parcel, Dates, RowStatus, ParcelStatus, proofColumns
<1>. QED
  BY <1>1, <1>2, SavesChange, LogStatuses, NoEntriesType, SMT DEF Columns, proofColumns

LEMMA HandOverChange ==
  ASSUME NEW p \in Parcel, NEW a \in Actors, NEW code \in Codes \cup {NoCode},
         NEW c \in proofOfHandover(p, a, code)
  PROVE  c \in Change
<1>1. PICK collected \in BOOLEAN :
        c = Decides(p, a, "DELIVERED",
                    proofColumns(collected), deliveryEntries(p), FALSE, code, "save")
  BY DEF proofOfHandover
<1>2. With(p, proofColumns(collected)) \in Parcel
  BY SMT DEF With, Columns, Parcel, Dates, RowStatus, ParcelStatus, proofColumns
<1>3. DOMAIN proofColumns(collected) \subseteq Columns
  BY SMT DEF Columns, proofColumns
<1>. QED
  BY <1>1, <1>2, <1>3, DecidesChange, LogStatuses, DeliveryEntriesType, Zenon

LEMMA WrongCodeChange ==
  ASSUME NEW p \in Parcel, NEW a \in Actors, NEW code \in Codes, NEW c \in wrongCode(p, a, code)
  PROVE  c \in Change
<1>1. c = Updates(p, a, [tries |-> p.tries + 1])
  BY DEF wrongCode
<1>2. With(p, [tries |-> p.tries + 1]) \in Parcel
  BY SMT DEF With, Columns, Parcel, Dates
<1>. QED
  BY <1>1, <1>2, UpdatesChange, LogStatuses, NoEntriesType, SMT DEF Columns

(* Both branches of updateParcel. *)
LEMMA UpdateParcelChange ==
  ASSUME NEW p \in Parcel, NEW a \in Actors, NEW c \in updateParcel(p, a)
  PROVE  c \in Change
<1>1. CASE c = Saves(p, a, p.status, [status |-> p.status], NoEntries)
  <2>1. With(p, [status |-> p.status]) \in Parcel
    BY SMT DEF With, Columns, Parcel, Dates
  <2>. QED
    BY <1>1, <2>1, SavesChange, LogStatuses, NoEntriesType, SMT DEF Columns
<1>2. ASSUME NEW q \in Quotes,
             c = Saves(p, a, p.status,
                   [cod |-> q.cod, fee |-> q.fee, codFee |-> q.codFee, back |-> q.back,
                    payment |-> IF p.payment = "PAID" THEN "PAID" ELSE paymentStatusFor(q)],
                   repricingEntries(q.fee, p.fee))
      PROVE  c \in Change
  <2>1. q \in QuoteType /\ paymentStatusFor(q) \in PaymentStatus
    BY QuotesAssumption, SMT DEF paymentStatusFor, PaymentStatus
  <2>2. repricingEntries(q.fee, p.fee) \in Entries
    BY <2>1, EntriesType DEF QuoteType, Parcel
  <2>3. With(p, [cod |-> q.cod, fee |-> q.fee, codFee |-> q.codFee, back |-> q.back,
                 payment |-> IF p.payment = "PAID" THEN "PAID" ELSE paymentStatusFor(q)])
          \in Parcel
    BY <2>1, SMT DEF With, Columns, Parcel, Dates, QuoteType, PaymentStatus
  <2>. QED
    BY <1>2, <2>2, <2>3, SavesChange, LogStatuses, SMT DEF Columns
<1>. QED
  BY <1>1, <1>2 DEF updateParcel

-----------------------------------------------------------------------------
(* What a change leaves a parcel *)

(* A row that does not exist yet has no courier: what the unassign route   *)
(* needs to be refused on it.                                              *)
Courierless(p) == ~Exists(p) => p.courier = NoCourier

(* A change of every handler but the handover: no code to verify, never of *)
(* a parcel that is not booked, and only the payment module's update makes *)
(* a parcel paid.                                                          *)
Plain(c, p) ==
  /\ c.typed = NoCode
  /\ c.after.status # "UNBOOKED"
  /\ c.after.payment = "PAID" => p.payment = "PAID"
  /\ Exists(p)

LEMMA SavesPlain ==
  ASSUME NEW p \in Parcel, NEW a, NEW log, NEW s, NEW e, Exists(p),
         "status" \in DOMAIN s => s.status # "UNBOOKED",
         "payment" \in DOMAIN s /\ s.payment = "PAID" => p.payment = "PAID"
  PROVE  Plain(Saves(p, a, log, s, e), p)
BY SMT DEF Plain, Saves, Decides, With, Columns, Exists

LEMMA CancelsPlain ==
  ASSUME NEW p \in Parcel, NEW a, NEW log, NEW s, TransitionAllowed(p, "CANCELLED"),
         "status" \in DOMAIN s, s.status = "CANCELLED", "payment" \notin DOMAIN s
  PROVE  Plain(Cancels(p, a, log, s), p)
BY SMT DEF Plain, Cancels, Decides, With, Columns, Exists, TransitionAllowed,
  PARCEL_STATUS_TRANSITIONS

LEMMA TransitionExists ==
  ASSUME NEW p \in Parcel, NEW to, TransitionAllowed(p, to)
  PROVE  Exists(p)
BY SMT DEF TransitionAllowed, PARCEL_STATUS_TRANSITIONS, Exists

LEMMA AlongPlain ==
  ASSUME NEW p \in Parcel, NEW a \in Actors, Courierless(p),
         NEW c \in updateStatusAlong(p, a)
  PROVE  Plain(c, p)
<1>1. PICK to \in {"PICKED_UP", "IN_TRANSIT", "RETURNING"} :
        c = Saves(p, a, to, [status |-> to, hash |-> NoCode], NoEntries)
  BY DEF updateStatusAlong
<1>2. Exists(p)
  BY TransitionExists, Zenon DEF updateStatusAlong, MayUpdateStatus
<1>. QED
  BY <1>1, <1>2, SavesPlain, SMT

LEMMA OutPlain ==
  ASSUME NEW p \in Parcel, NEW a \in Actors, Courierless(p),
         NEW c \in updateStatusOut(p, a)
  PROVE  Plain(c, p)
<1>1. PICK code \in Codes :
        c = Saves(p, a, "OUT_FOR_DELIVERY",
                  [status |-> "OUT_FOR_DELIVERY", hash |-> code, tries |-> 0,
                         rescheduledFor |-> "null"], NoEntries)
  BY DEF updateStatusOut
<1>2. Exists(p)
  BY TransitionExists, Zenon DEF updateStatusOut, MayUpdateStatus
<1>. QED
  BY <1>1, <1>2, SavesPlain, SMT

LEMMA DeliveredPlain ==
  ASSUME NEW p \in Parcel, NEW a \in Actors, Courierless(p),
         NEW c \in updateStatusDelivered(p, a)
  PROVE  Plain(c, p)
<1>1. c = Saves(p, a, "DELIVERED", markDelivered, deliveryEntries(p))
  BY DEF updateStatusDelivered
<1>2. Exists(p)
  BY TransitionExists, Zenon DEF updateStatusDelivered, MayUpdateStatus
<1>. QED
  BY <1>1, <1>2, SavesPlain, SMT DEF markDelivered

LEMMA ReturnedPlain ==
  ASSUME NEW p \in Parcel, NEW a \in Actors, Courierless(p),
         NEW c \in updateStatusReturned(p, a)
  PROVE  Plain(c, p)
<1>1. c = Saves(p, a, "RETURNED_TO_SENDER",
                [status |-> "RETURNED_TO_SENDER", returnFee |-> p.back, hash |-> NoCode],
                  returnEntries(p.codFee, p.back))
  BY DEF updateStatusReturned
<1>2. Exists(p)
  BY TransitionExists, Zenon DEF updateStatusReturned, MayUpdateStatus
<1>. QED
  BY <1>1, <1>2, SavesPlain, SMT

LEMMA CancelledPlain ==
  ASSUME NEW p \in Parcel, NEW a \in Actors, Courierless(p),
         NEW c \in updateStatusCancelled(p, a)
  PROVE  Plain(c, p)
<1>1. c = Cancels(p, a, "CANCELLED", [status |-> "CANCELLED", hash |-> NoCode])
  BY DEF updateStatusCancelled
<1>2. TransitionAllowed(p, "CANCELLED")
  BY DEF updateStatusCancelled, MayUpdateStatus
<1>. QED
  BY <1>1, <1>2, CancelsPlain, SMT

LEMMA FailedAttemptPlain ==
  ASSUME NEW p \in Parcel, NEW a \in Actors, Courierless(p),
         NEW c \in recordFailedAttempt(p, a)
  PROVE  Plain(c, p)
<1>1. PICK day \in Dates :
        c = Saves(p, a, "FAILED_ATTEMPT",
                  [status |-> "FAILED_ATTEMPT", attempts |-> p.attempts + 1,
                         rescheduledFor |-> day, hash |-> NoCode], NoEntries)
  BY DEF recordFailedAttempt
<1>2. Exists(p)
  BY TransitionExists, Zenon DEF recordFailedAttempt, IsAdminOrAssigned
<1>. QED
  BY <1>1, <1>2, SavesPlain, SMT

LEMMA ReschedulePlain ==
  ASSUME NEW p \in Parcel, NEW a \in Actors, Courierless(p),
         NEW c \in rescheduleDelivery(p, a)
  PROVE  Plain(c, p)
<1>1. c = Saves(p, a, p.status, [rescheduledFor |-> "set"], NoEntries)
  BY DEF rescheduleDelivery
<1>2. Exists(p)
  BY Zenon DEF rescheduleDelivery, Exists
<1>. QED
  BY <1>1, <1>2, SavesPlain, SMT

LEMMA UpdateParcelPlain ==
  ASSUME NEW p \in Parcel, NEW a \in Actors, Courierless(p),
         NEW c \in updateParcel(p, a)
  PROVE  Plain(c, p)
<1>1. Exists(p) /\ p.status # "UNBOOKED"
  BY Zenon DEF updateParcel, MayReprice, MayEdit, Exists, CLOSED_STATUSES
<1>2. CASE c = Saves(p, a, p.status, [status |-> p.status], NoEntries)
  <2> DEFINE t == [status |-> p.status]
  <2>1. t.status # "UNBOOKED" /\ "payment" \notin DOMAIN t
    BY <1>1, SMT
  <2> HIDE DEF t
  <2>2. c = Saves(p, a, p.status, t, NoEntries)
    BY <1>2 DEF t
  <2>. QED
    BY <1>1, <2>1, <2>2, SavesPlain, Zenon
<1> DEFINE s(q) ==
      [cod |-> q.cod, fee |-> q.fee, codFee |-> q.codFee, back |-> q.back,
       payment |-> IF p.payment = "PAID" THEN "PAID" ELSE paymentStatusFor(q)]
<1>3. ASSUME NEW q \in Quotes, c = Saves(p, a, p.status, s(q), repricingEntries(q.fee, p.fee))
      PROVE  Plain(c, p)
  <2>1. "status" \notin DOMAIN s(q) /\ (s(q).payment = "PAID" => p.payment = "PAID")
    BY SMT DEF paymentStatusFor
  <2> HIDE DEF s
  <2>. QED
    BY <1>1, <1>3, <2>1, SavesPlain, Zenon
<1>. QED
  BY <1>2, <1>3 DEF updateParcel

LEMMA ReissuePlain ==
  ASSUME NEW p \in Parcel, NEW a \in Actors, Courierless(p),
         NEW c \in reissueDeliveryCode(p, a)
  PROVE  Plain(c, p)
<1>1. PICK code \in Codes : c = Updates(p, a, [hash |-> code, tries |-> 0])
  BY DEF reissueDeliveryCode
<1>2. p.status = "OUT_FOR_DELIVERY"
  BY DEF reissueDeliveryCode
<1>. QED
  BY <1>1, <1>2, SMT DEF Plain, Updates, Decides, With, Columns, Exists

LEMMA AssignPlain ==
  ASSUME NEW p \in Parcel, NEW a \in Actors, Courierless(p),
         NEW c \in assignDeliveryPersonnel(p, a)
  PROVE  Plain(c, p)
<1>1. PICK d \in Couriers :
        c = Saves(p, a, p.status, [courier |-> d], NoEntries)
  BY DEF assignDeliveryPersonnel
<1>2. Exists(p)
  BY Zenon DEF assignDeliveryPersonnel, Exists
<1>. QED
  BY <1>1, <1>2, SavesPlain, SMT

LEMMA UnassignPlain ==
  ASSUME NEW p \in Parcel, NEW a \in Actors, Courierless(p),
         NEW c \in unassignDeliveryPersonnel(p, a)
  PROVE  Plain(c, p)
<1>1. c = Saves(p, a, p.status, [courier |-> NoCourier], NoEntries)
  BY DEF unassignDeliveryPersonnel
<1>2. Exists(p)
  BY Zenon DEF unassignDeliveryPersonnel, Courierless
<1>. QED
  BY <1>1, <1>2, SavesPlain, SMT

LEMMA CancelPlain ==
  ASSUME NEW p \in Parcel, NEW a \in Actors, Courierless(p),
         NEW c \in cancelParcel(p, a)
  PROVE  Plain(c, p)
<1>1. c = Cancels(p, a, "CANCELLED", [status |-> "CANCELLED"])
  BY DEF cancelParcel
<1>2. TransitionAllowed(p, "CANCELLED")
  BY DEF cancelParcel
<1>. QED
  BY <1>1, <1>2, CancelsPlain, SMT

LEMMA ConfirmPlain ==
  ASSUME NEW p \in Parcel, NEW a \in Actors, Courierless(p),
         NEW c \in confirmDelivery(p, a)
  PROVE  Plain(c, p)
<1>1. c = Saves(p, a, "DELIVERED", markDelivered, deliveryEntries(p))
  BY DEF confirmDelivery
<1>2. Exists(p)
  BY TransitionExists, Zenon DEF confirmDelivery, MayBeDelivered
<1>. QED
  BY <1>1, <1>2, SavesPlain, SMT DEF markDelivered

LEMMA SetBlockedPlain ==
  ASSUME NEW p \in Parcel, NEW a \in Actors, Courierless(p),
         NEW c \in setBlocked(p, a)
  PROVE  Plain(c, p)
<1>1. PICK b \in BOOLEAN :
        c = Saves(p, a, p.status, [blocked |-> b], NoEntries)
  BY DEF setBlocked
<1>2. Exists(p)
  BY Zenon DEF setBlocked, Exists
<1>. QED
  BY <1>1, <1>2, SavesPlain, SMT

LEMMA AttachProofPlain ==
  ASSUME NEW p \in Parcel, NEW a \in Actors, Courierless(p),
         NEW c \in proofAfterwards(p, a)
  PROVE  Plain(c, p)
<1>1. PICK collected \in BOOLEAN :
        c = Saves(p, a, "DELIVERED", proofColumns(collected), NoEntries)
  BY DEF proofAfterwards
<1>2. Exists(p)
  BY Zenon DEF proofAfterwards, MayAttachProof, Exists
<1>. QED
  BY <1>1, <1>2, SavesPlain, SMT DEF proofColumns

(* Every change but a handover. *)
Otherwise(p, a) ==
  updateStatusAlong(p, a) \cup updateStatusOut(p, a) \cup updateStatusDelivered(p, a)
  \cup updateStatusReturned(p, a) \cup updateStatusCancelled(p, a)
  \cup recordFailedAttempt(p, a) \cup rescheduleDelivery(p, a) \cup updateParcel(p, a)
  \cup reissueDeliveryCode(p, a) \cup assignDeliveryPersonnel(p, a)
  \cup unassignDeliveryPersonnel(p, a) \cup cancelParcel(p, a) \cup confirmDelivery(p, a)
  \cup setBlocked(p, a) \cup proofAfterwards(p, a)

LEMMA OtherwisePlain ==
  ASSUME NEW p \in Parcel, NEW a \in Actors, Courierless(p), NEW c \in Otherwise(p, a)
  PROVE  Plain(c, p)
BY AlongPlain, OutPlain, DeliveredPlain, ReturnedPlain, CancelledPlain, FailedAttemptPlain,
  ReschedulePlain, UpdateParcelPlain, ReissuePlain, AssignPlain, UnassignPlain, CancelPlain,
  ConfirmPlain, SetBlockedPlain, AttachProofPlain, Zenon DEF Otherwise

(* A handover. *)
LEMMA HandOverFacts ==
  ASSUME NEW p \in Parcel, NEW a \in Actors, NEW code, NEW c \in proofOfHandover(p, a, code)
  PROVE  /\ c.typed = code
         /\ c.after.status # "UNBOOKED"
         /\ c.after.payment = p.payment
         /\ Exists(p)
<1>1. PICK collected \in BOOLEAN :
        c = Decides(p, a, "DELIVERED",
                    proofColumns(collected), deliveryEntries(p), FALSE, code, "save")
  BY DEF proofOfHandover
<1>2. Exists(p)
  BY TransitionExists DEF proofOfHandover
<1> DEFINE s == proofColumns(collected)
<1>3. "status" \in DOMAIN s /\ s.status # "UNBOOKED" /\ "payment" \notin DOMAIN s
  BY SMT DEF proofColumns
<1> HIDE DEF s
<1>4. c = Decides(p, a, "DELIVERED", s, deliveryEntries(p), FALSE, code, "save")
  BY <1>1 DEF s
<1>. QED
  BY <1>2, <1>3, <1>4, SMT DEF Decides, With, Columns

-----------------------------------------------------------------------------
(* Prices, for any rates: that quotes are what ParcelOps assumes of them,  *)
(* that more weight is never cheaper, and that a parcel's way back never   *)
(* costs more than its way out.                                            *)


LEMMA RateTypes ==
  /\ \A route \in RouteType : Rates.base[route] \in Nat
  /\ Rates.perKg \in Nat /\ Rates.included \in Nat /\ Rates.codPercent \in Nat
  /\ Rates.express \in Nat /\ Rates.returnPercent \in Nat /\ Rates.minimum \in Nat
BY RatesAssumption DEF PricingRates

LEMMA RouteIsRoute ==
  ASSUME NEW from \in Zones, NEW to \in Zones
  PROVE  routeFor(from, to) \in RouteType
BY DEF routeFor, RouteType

LEMMA TimesNat == ASSUME NEW a \in Nat, NEW b \in Nat PROVE a * b \in Nat
OBVIOUS

LEMMA RoundNat ==
  ASSUME NEW amount \in Nat, NEW percent \in Nat
  PROVE  round2(amount, percent) \in Nat /\ (amount = 0 => round2(amount, percent) = 0)
<1>1. PICK product \in Nat : product = amount * percent BY TimesNat
<1>2. (product + 50) \div 100 \in Nat /\ (product = 0 => (product + 50) \div 100 = 0) BY <1>1
<1>3. amount = 0 => product = 0 BY <1>1
<1>. QED BY <1>1, <1>2, <1>3 DEF round2

LEMMA KgNat == ASSUME NEW w \in Nat PROVE chargeableKg(w) \in Nat
BY RateTypes DEF chargeableKg, Larger

LEMMA KgGrows ==
  ASSUME NEW w \in Nat, NEW v \in Nat, w <= v
  PROVE  chargeableKg(w) <= chargeableKg(v)
<1>1. PICK a \in Nat, b \in Nat :
        a = Larger(0, w - Rates.included) /\ b = Larger(0, v - Rates.included) /\ a <= b
  BY RateTypes DEF Larger
<1>2. (a + 999) \div 1000 <= (b + 999) \div 1000 BY <1>1
<1>. QED BY <1>1, <1>2 DEF chargeableKg

LEMMA TimesGrows ==
  ASSUME NEW a \in Nat, NEW b \in Nat, NEW c \in Nat, a <= b
  PROVE  a * c <= b * c
<1>1. PICK d \in Nat : b = a + d
  <2>1. b - a \in Nat /\ b = a + (b - a) OBVIOUS
  <2>. QED BY <2>1
<1>2. b * c = a * c + d * c BY <1>1
<1>3. d * c \in Nat /\ a * c \in Nat BY TimesNat
<1>. QED BY <1>2, <1>3

(* The parts of a breakdown. *)
LEMMA Parts ==
  ASSUME NEW p \in QuotePayload
  PROVE  LET b == calculateDeliveryFee(p) IN
           /\ b.baseFee = Rates.base[routeFor(p.from, p.to)]
           /\ b.weightFee = chargeableKg(p.weight) * Rates.perKg
           /\ b.codFee = round2(p.cod, Rates.codPercent)
           /\ b.expressFee = IF p.tier = "EXPRESS" THEN Rates.express ELSE 0
           /\ b.total = Larger(Rates.minimum, b.baseFee + b.weightFee + b.codFee + b.expressFee)
           /\ b.baseFee \in Nat /\ b.weightFee \in Nat /\ b.codFee \in Nat
           /\ b.expressFee \in Nat /\ b.total \in Nat
           /\ b.route = routeFor(p.from, p.to) /\ b.tier = p.tier
<1>. DEFINE b == calculateDeliveryFee(p)
<1>1. /\ b.baseFee = Rates.base[routeFor(p.from, p.to)]
      /\ b.weightFee = chargeableKg(p.weight) * Rates.perKg
      /\ b.codFee = round2(p.cod, Rates.codPercent)
      /\ b.expressFee = IF p.tier = "EXPRESS" THEN Rates.express ELSE 0
      /\ b.total = Larger(Rates.minimum, b.baseFee + b.weightFee + b.codFee + b.expressFee)
      /\ b.route = routeFor(p.from, p.to) /\ b.tier = p.tier
  BY DEF calculateDeliveryFee
<1>2. b.baseFee \in Nat BY <1>1, RouteIsRoute, RateTypes DEF QuotePayload
<1>3. b.weightFee \in Nat
  <2>1. chargeableKg(p.weight) \in Nat BY KgNat DEF QuotePayload
  <2>. QED BY <1>1, <2>1, RateTypes, TimesNat
<1>4. b.codFee \in Nat BY <1>1, RoundNat, RateTypes DEF QuotePayload
<1>5. b.expressFee \in Nat BY <1>1, RateTypes
<1>. HIDE DEF b
<1>6. b.total \in Nat BY <1>1, <1>2, <1>3, <1>4, <1>5, RateTypes DEF Larger
<1>. QED BY <1>1, <1>2, <1>3, <1>4, <1>5, <1>6 DEF b

-----------------------------------------------------------------------------
(* The quotes calculateDeliveryFee leads to are quotes as the parcel's     *)
(* lifecycle assumes them: amounts, and no cash fee where there is no cash.*)
THEOREM QuotesAreAssumed ==
  ASSUME NEW payloads \in SUBSET QuotePayload
  PROVE  /\ QuotesFor(payloads) \subseteq [cod: Nat, fee: Nat, codFee: Nat, back: Nat]
         /\ \A q \in QuotesFor(payloads) : q.cod = 0 => q.codFee = 0
<1>1. SUFFICES ASSUME NEW q \in QuotesFor(payloads)
               PROVE  /\ q \in [cod: Nat, fee: Nat, codFee: Nat, back: Nat]
                      /\ q.cod = 0 => q.codFee = 0
  OBVIOUS
<1>2. PICK p \in payloads :
        q = [cod |-> p.cod, fee |-> calculateDeliveryFee(p).total,
             codFee |-> calculateDeliveryFee(p).codFee,
             back |-> calculateReturnFee(calculateDeliveryFee(p))]
  BY DEF QuotesFor
<1>3. PICK b : b = calculateDeliveryFee(p) OBVIOUS
<1>4. /\ b.total \in Nat /\ b.codFee \in Nat /\ b.codFee = round2(p.cod, Rates.codPercent)
      /\ b.baseFee \in Nat /\ b.weightFee \in Nat /\ b.expressFee \in Nat
  BY <1>3, Parts
<1>5. p.cod \in Nat BY DEF QuotePayload
<1>6. calculateReturnFee(b) \in Nat
  <2>1. b.baseFee + b.weightFee + b.expressFee \in Nat BY <1>4
  <2>. QED BY <2>1, RateTypes, RoundNat DEF calculateReturnFee
<1>7. p.cod = 0 => b.codFee = 0 BY <1>4, <1>5, RateTypes, RoundNat
<1>. QED BY <1>2, <1>3, <1>4, <1>5, <1>6, <1>7

(* More weight on the same route, with the same cash and tier, never costs *)
(* less: part-kilograms round up and the minimum is a floor.               *)
THEOREM HeavierIsNoCheaper ==
  ASSUME NEW p \in QuotePayload, NEW q \in QuotePayload,
         p.from = q.from, p.to = q.to, p.tier = q.tier, p.cod = q.cod, p.weight <= q.weight
  PROVE  calculateDeliveryFee(p).total <= calculateDeliveryFee(q).total
<1>1. PICK b, c : b = calculateDeliveryFee(p) /\ c = calculateDeliveryFee(q) OBVIOUS
<1>2. b.baseFee = c.baseFee /\ b.codFee = c.codFee /\ b.expressFee = c.expressFee
  BY <1>1, Parts
<1>3. b.weightFee <= c.weightFee
  <2>1. chargeableKg(p.weight) \in Nat /\ chargeableKg(q.weight) \in Nat
    BY KgNat DEF QuotePayload
  <2>2. chargeableKg(p.weight) <= chargeableKg(q.weight) BY KgGrows DEF QuotePayload
  <2>. QED BY <1>1, <2>1, <2>2, RateTypes, Parts, TimesGrows
<1>4. /\ b.total = Larger(Rates.minimum, b.baseFee + b.weightFee + b.codFee + b.expressFee)
      /\ c.total = Larger(Rates.minimum, c.baseFee + c.weightFee + c.codFee + c.expressFee)
      /\ b.baseFee \in Nat /\ b.weightFee \in Nat /\ b.codFee \in Nat /\ b.expressFee \in Nat
      /\ c.weightFee \in Nat
  BY <1>1, Parts
<1>. QED BY <1>1, <1>2, <1>3, <1>4, RateTypes DEF Larger

(* Where the return share is at most the whole charge, as by default, the  *)
(* way back costs no more than the delivery did.                           *)
THEOREM ReturnCostsNoMore ==
  ASSUME NEW p \in QuotePayload, Rates.returnPercent <= 100
  PROVE  calculateReturnFee(calculateDeliveryFee(p)) <= calculateDeliveryFee(p).total
<1>1. PICK b : b = calculateDeliveryFee(p) OBVIOUS
<1>2. /\ b.total = Larger(Rates.minimum, b.baseFee + b.weightFee + b.codFee + b.expressFee)
      /\ b.baseFee \in Nat /\ b.weightFee \in Nat /\ b.codFee \in Nat /\ b.expressFee \in Nat
  BY <1>1, Parts
<1>3. PICK d \in Nat :
        d = b.baseFee + b.weightFee + b.expressFee /\ d <= b.total /\ b.total \in Nat
  BY <1>2, RateTypes DEF Larger
<1>4. PICK product \in Nat : product = d * Rates.returnPercent /\ product <= d * 100
  <2>1. Rates.returnPercent * d <= 100 * d BY RateTypes, TimesGrows
  <2>. QED BY <2>1, RateTypes, TimesNat
<1>5. (product + 50) \div 100 \in Nat /\ (product + 50) \div 100 <= d BY <1>4
<1>6. calculateReturnFee(b) = (product + 50) \div 100
  <2>1. calculateReturnFee(b) = round2(d, Rates.returnPercent) BY <1>3 DEF calculateReturnFee
  <2>. QED BY <1>4, <2>1 DEF round2
<1>. QED BY <1>1, <1>3, <1>5, <1>6

=============================================================================
