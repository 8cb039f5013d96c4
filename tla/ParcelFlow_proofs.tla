------------------------- MODULE ParcelFlow_proofs -------------------------
(***************************************************************************)
(* The invariants of ParcelFlow for any couriers, codes, quotes, limits    *)
(* and flags.                                                              *)
(***************************************************************************)
EXTENDS ParcelFlow, ParcelOps_proofs

(* What the invariants rest on besides each other: nothing is on the books *)
(* or the row of a parcel that does not exist, and no delivery failed      *)
(* before the parcel was first out.                                        *)
Unbooked ==
  parcel.status = "UNBOOKED" => parcel = NoParcel /\ books = NoEntries

NoAttemptsYet ==
  parcel.status \in {"UNBOOKED", "PENDING", "PICKED_UP", "IN_TRANSIT"} => parcel.attempts = 0

Journey ==
  /\ CodeOnlyWhileOut
  /\ AttemptsWithinLimit
  /\ NoAttemptsYet
  /\ ReschedulesAreSpent
  /\ OnTheRoadIsPaid
  /\ DeliveredIsStamped
  /\ TimelineMatches

Money ==
  /\ FeesMatchStatus
  /\ CashMatchesStatus
  /\ ReturnMatchesStatus

IInv == TypeOK /\ Unbooked /\ Journey /\ Money

LEMMA CommitType ==
  ASSUME TypeOK, NEW c \in Change, Commit(c)
  PROVE  parcel' \in Parcel /\ books' \in Entries /\ logged' \in LogRow
<1>1. parcel' \in Parcel
  BY SMT DEF Commit, Change
<1>2. books' \in Entries
  BY CancellationType, PostedType, SMT DEF TypeOK, Commit, Change
<1>3. logged' \in LogRow
  BY <1>1, SMT DEF TypeOK, Commit, Change, LogRow, Parcel
<1>. QED
  BY <1>1, <1>2, <1>3

(* What committing each kind of change does to the tables. *)
LEMMA PostedNothing ==
  ASSUME books \in Entries
  PROVE  Posted(books, NoEntries) = books
BY SMT DEF Posted, NoEntries, Entries

LEMMA CommitDecides ==
  ASSUME NEW a, NEW log, NEW s, NEW e, NEW code,
         Commit(Decides(parcel, a, log, s, e, FALSE, code, "save"))
  PROVE  /\ parcel' = With(parcel, s)
         /\ books' = Posted(books, e)
         /\ logged' = [status |-> log, by |-> a]
BY SMT DEF Commit, Decides

LEMMA CommitSaves ==
  ASSUME NEW a, NEW log, NEW s, NEW e, Commit(Saves(parcel, a, log, s, e))
  PROVE  /\ parcel' = With(parcel, s)
         /\ books' = Posted(books, e)
         /\ logged' = [status |-> log, by |-> a]
BY CommitDecides, Zenon DEF Saves

LEMMA CommitMoves ==
  ASSUME books \in Entries, NEW a, NEW log, NEW s, Commit(Saves(parcel, a, log, s, NoEntries))
  PROVE  /\ parcel' = With(parcel, s)
         /\ books' = books
         /\ logged' = [status |-> log, by |-> a]
BY CommitSaves, PostedNothing, Zenon

LEMMA CommitCancels ==
  ASSUME NEW a, NEW log, NEW s, Commit(Cancels(parcel, a, log, s))
  PROVE  /\ parcel' = With(parcel, s)
         /\ books' = Posted(books, cancellationEntries(books))
         /\ logged' = [status |-> log, by |-> a]
BY SMT DEF Commit, Decides, Cancels

LEMMA CommitUpdates ==
  ASSUME books \in Entries, NEW a, NEW s, Commit(Updates(parcel, a, s))
  PROVE  parcel' = With(parcel, s) /\ books' = books /\ logged' = logged
BY PostedNothing, SMT DEF Commit, Decides, Updates

(* The money invariants only look at the fee columns, the books and at     *)
(* which of three closed statuses the parcel is in.                        *)
SamePrice ==
  /\ parcel'.cod = parcel.cod
  /\ parcel'.fee = parcel.fee
  /\ parcel'.codFee = parcel.codFee
  /\ parcel'.back = parcel.back
  /\ parcel'.returnFee = parcel.returnFee

SameStage ==
  /\ parcel'.status = parcel.status
  /\ parcel'.hash = parcel.hash
  /\ parcel'.attempts = parcel.attempts
  /\ parcel'.rescheduledFor = parcel.rescheduledFor
  /\ parcel'.payment = parcel.payment
  /\ parcel'.deliveredAt = parcel.deliveredAt

LEMMA MoneyStays ==
  ASSUME Money, SamePrice, books' = books,
         \A s \in {"CANCELLED", "DELIVERED", "RETURNED_TO_SENDER"} :
           parcel'.status = s <=> parcel.status = s
  PROVE  Money'
BY SMT DEF Money, SamePrice, FeesMatchStatus, CashMatchesStatus, ReturnMatchesStatus,
  feeChargedFor

LEMMA JourneyStays ==
  ASSUME Journey, SameStage, logged' = logged \/ logged'.status = parcel.status
  PROVE  Journey'
BY SMT DEF Journey, SameStage, CodeOnlyWhileOut, AttemptsWithinLimit, NoAttemptsYet,
  ReschedulesAreSpent, OnTheRoadIsPaid, DeliveredIsStamped, TimelineMatches

-----------------------------------------------------------------------------

LEMMA AlongKeeps ==
  ASSUME IInv, NEW a \in Actors, UpdateStatusAlong(a)
  PROVE  IInv'
<1>1. PICK c \in updateStatusAlong(parcel, a) : Commit(c)
  BY DEF UpdateStatusAlong
<1>2. PICK to \in {"PICKED_UP", "IN_TRANSIT", "RETURNING"} :
        /\ MayUpdateStatus(parcel, a, to)
        /\ c = Saves(parcel, a, to, [status |-> to, hash |-> NoCode], NoEntries)
  BY <1>1 DEF updateStatusAlong
<1>3. /\ parcel' = With(parcel, [status |-> to, hash |-> NoCode])
      /\ books' = books
      /\ logged' = [status |-> to, by |-> a]
  BY <1>1, <1>2, CommitMoves, Zenon DEF IInv, TypeOK
<1>4. parcel' \in Parcel /\ books' \in Entries /\ logged' \in LogRow
  BY <1>1, AlongChange, CommitType DEF IInv, TypeOK
<1>5. /\ parcel'.status = to
      /\ parcel'.hash = NoCode
      /\ parcel'.attempts = parcel.attempts
      /\ parcel'.tries = parcel.tries
      /\ parcel'.rescheduledFor = parcel.rescheduledFor
      /\ parcel'.payment = parcel.payment
      /\ parcel'.deliveredAt = parcel.deliveredAt
      /\ SamePrice
  BY <1>3, SMT DEF With, Columns, SamePrice
<1>6. <<parcel.status, to>> \in PARCEL_STATUS_TRANSITIONS
  BY <1>2 DEF MayUpdateStatus, TransitionAllowed
<1>7. TypeOK'
  BY <1>4, <1>5, SMT DEF IInv, TypeOK
<1>8. Unbooked'
  BY <1>5, SMT DEF Unbooked
<1>9. Money'
  <2>1. parcel.status \notin {"CANCELLED", "DELIVERED", "RETURNED_TO_SENDER"}
    BY <1>6, SMT DEF PARCEL_STATUS_TRANSITIONS
  <2>. QED
    BY <1>3, <1>5, <2>1, MoneyStays, SMT DEF IInv
<1>10. Journey'
  BY <1>2, <1>3, <1>5, <1>6, SMT DEF IInv, MayUpdateStatus, PARCEL_STATUS_TRANSITIONS,
    Journey, CodeOnlyWhileOut, AttemptsWithinLimit,
    NoAttemptsYet, ReschedulesAreSpent, OnTheRoadIsPaid, DeliveredIsStamped, TimelineMatches
<1>. QED
  BY <1>7, <1>8, <1>9, <1>10 DEF IInv

LEMMA OutKeeps ==
  ASSUME IInv, NEW a \in Actors, UpdateStatusOut(a)
  PROVE  IInv'
<1>1. PICK c \in updateStatusOut(parcel, a) : Commit(c)
  BY DEF UpdateStatusOut
<1> DEFINE s(code) == [status |-> "OUT_FOR_DELIVERY", hash |-> code, tries |-> 0,
                       rescheduledFor |-> "null"]
<1>2. PICK code \in Codes :
        /\ MayUpdateStatus(parcel, a, "OUT_FOR_DELIVERY")
        /\ parcel.status = "FAILED_ATTEMPT" => AttemptsLeft(parcel)
        /\ c = Saves(parcel, a, "OUT_FOR_DELIVERY", s(code), NoEntries)
  BY <1>1 DEF updateStatusOut
<1>3. /\ parcel' = With(parcel, s(code))
      /\ books' = books
      /\ logged' = [status |-> "OUT_FOR_DELIVERY", by |-> a]
  <2> HIDE DEF s
  <2>. QED
    BY <1>1, <1>2, CommitMoves, Zenon DEF IInv, TypeOK
<1>4. parcel' \in Parcel /\ books' \in Entries /\ logged' \in LogRow
  BY <1>1, OutChange, CommitType DEF IInv, TypeOK
<1>5. /\ parcel'.status = "OUT_FOR_DELIVERY"
      /\ parcel'.hash = code
      /\ parcel'.attempts = parcel.attempts
      /\ parcel'.tries = 0
      /\ parcel'.rescheduledFor = "null"
      /\ parcel'.payment = parcel.payment
      /\ parcel'.deliveredAt = parcel.deliveredAt
      /\ SamePrice
  BY <1>3, SMT DEF With, Columns, SamePrice
<1>6. parcel.status \in {"IN_TRANSIT", "FAILED_ATTEMPT"}
  BY <1>2, SMT DEF MayUpdateStatus, TransitionAllowed, PARCEL_STATUS_TRANSITIONS
<1>7. TypeOK'
  BY <1>4, <1>5, LimitsAssumption, SMT DEF TypeOK
<1>8. Unbooked'
  BY <1>5, SMT DEF Unbooked
<1>9. Money'
  BY <1>3, <1>5, <1>6, MoneyStays, SMT DEF IInv
<1>10. Journey'
  BY <1>2, <1>3, <1>5, <1>6, CodesAssumption, LimitsAssumption, SMT DEF IInv, AttemptsLeft,
    TypeOK, Parcel, Journey, CodeOnlyWhileOut, AttemptsWithinLimit,
    NoAttemptsYet, ReschedulesAreSpent, OnTheRoadIsPaid, DeliveredIsStamped, TimelineMatches
<1>. QED
  BY <1>7, <1>8, <1>9, <1>10 DEF IInv

(* The handover, by whichever route: from a status that may be delivered,  *)
(* posting the cash.                                                       *)
LEMMA DeliveryKeeps ==
  ASSUME IInv, TransitionAllowed(parcel, "DELIVERED"),
         parcel' \in Parcel, books' \in Entries, logged' \in LogRow,
         /\ parcel'.status = "DELIVERED"
         /\ parcel'.hash = NoCode
         /\ parcel'.attempts = parcel.attempts
         /\ parcel'.tries = parcel.tries
         /\ parcel'.rescheduledFor = "null"
         /\ parcel'.payment = parcel.payment
         /\ parcel'.deliveredAt = "set"
         /\ SamePrice,
         books' = Posted(books, deliveryEntries(parcel)),
         logged'.status = "DELIVERED"
  PROVE  IInv'
<1>1. parcel.status \in {"IN_TRANSIT", "OUT_FOR_DELIVERY"}
  BY SMT DEF TransitionAllowed, PARCEL_STATUS_TRANSITIONS
<1>2. TypeOK'
  BY SMT DEF IInv, TypeOK
<1>3. Unbooked'
  BY SMT DEF Unbooked
<1>4. Money'
  <2>1. \A t \in EntryTypes : books'[t] = books[t] + deliveryEntries(parcel)[t]
    BY DeliveryEntriesType, PostedType DEF IInv, TypeOK
  <2>2. /\ books'["COD_COLLECTED"] = books["COD_COLLECTED"] + parcel.cod
        /\ books'["COD_CREDIT"] = books["COD_CREDIT"] + parcel.cod
        /\ \A t \in EntryTypes \ {"COD_COLLECTED", "COD_CREDIT"} : books'[t] = books[t]
    BY <2>1, SMT DEF deliveryEntries, EntryTypes, Entries, IInv, TypeOK
  <2>. QED
    BY <1>1, <2>2, SMT DEF IInv, TypeOK, Parcel, Entries, EntryTypes, Money, FeesMatchStatus,
      CashMatchesStatus, ReturnMatchesStatus, feeChargedFor, SamePrice
<1>5. Journey'
  BY <1>1, SMT DEF IInv, Journey, CodeOnlyWhileOut, AttemptsWithinLimit,
    NoAttemptsYet, ReschedulesAreSpent, OnTheRoadIsPaid, DeliveredIsStamped, TimelineMatches
<1>. QED
  BY <1>2, <1>3, <1>4, <1>5 DEF IInv

LEMMA MarkDeliveredKeeps ==
  ASSUME IInv, NEW a \in Actors, TransitionAllowed(parcel, "DELIVERED"),
         Saves(parcel, a, "DELIVERED", markDelivered, deliveryEntries(parcel)) \in Change,
         Commit(Saves(parcel, a, "DELIVERED", markDelivered, deliveryEntries(parcel)))
  PROVE  IInv'
<1>1. /\ parcel' = With(parcel, markDelivered)
      /\ books' = Posted(books, deliveryEntries(parcel))
      /\ logged' = [status |-> "DELIVERED", by |-> a]
  BY CommitSaves, Zenon
<1>2. parcel' \in Parcel /\ books' \in Entries /\ logged' \in LogRow
  BY CommitType DEF IInv
<1>3. /\ parcel'.status = "DELIVERED"
      /\ parcel'.hash = NoCode
      /\ parcel'.attempts = parcel.attempts
      /\ parcel'.tries = parcel.tries
      /\ parcel'.rescheduledFor = "null"
      /\ parcel'.payment = parcel.payment
      /\ parcel'.deliveredAt = "set"
      /\ SamePrice
  BY <1>1, SMT DEF With, Columns, SamePrice, markDelivered
<1>4. logged'.status = "DELIVERED"
  BY <1>1, <1>3, SMT
<1>. QED
  BY <1>1, <1>2, <1>3, <1>4, DeliveryKeeps

LEMMA DeliveredKeeps ==
  ASSUME IInv, NEW a \in Actors, UpdateStatusDelivered(a)
  PROVE  IInv'
<1>1. PICK c \in updateStatusDelivered(parcel, a) : Commit(c)
  BY DEF UpdateStatusDelivered
<1>2. c \in Change
  BY <1>1, DeliveredChange DEF IInv, TypeOK
<1>3. /\ c = Saves(parcel, a, "DELIVERED", markDelivered, deliveryEntries(parcel))
      /\ TransitionAllowed(parcel, "DELIVERED")
  BY <1>1 DEF updateStatusDelivered, MayUpdateStatus
<1>. QED
  BY <1>1, <1>2, <1>3, MarkDeliveredKeeps

LEMMA ConfirmKeeps ==
  ASSUME IInv, NEW a \in Actors, ConfirmDelivery(a)
  PROVE  IInv'
<1>1. PICK c \in confirmDelivery(parcel, a) : Commit(c)
  BY DEF ConfirmDelivery
<1>2. c \in Change
  BY <1>1, ConfirmChange DEF IInv, TypeOK
<1>3. /\ c = Saves(parcel, a, "DELIVERED", markDelivered, deliveryEntries(parcel))
      /\ TransitionAllowed(parcel, "DELIVERED")
  BY <1>1 DEF confirmDelivery
<1>. QED
  BY <1>1, <1>2, <1>3, MarkDeliveredKeeps

LEMMA HandOverKeeps ==
  ASSUME IInv, NEW a \in Actors, NEW code \in Codes \cup {NoCode}, HandOver(a, code)
  PROVE  IInv'
<1>1. PICK c \in proofOfHandover(parcel, a, code) : Commit(c)
  BY DEF HandOver
<1>2. PICK collected \in BOOLEAN :
        /\ TransitionAllowed(parcel, "DELIVERED")
        /\ c = Decides(parcel, a, "DELIVERED",
                       proofColumns(collected), deliveryEntries(parcel), FALSE, code,
                       "save")
  BY <1>1 DEF proofOfHandover
<1>3. /\ parcel' = With(parcel, proofColumns(collected))
      /\ books' = Posted(books, deliveryEntries(parcel))
      /\ logged' = [status |-> "DELIVERED", by |-> a]
  BY <1>1, <1>2, CommitDecides, Zenon
<1>4. parcel' \in Parcel /\ books' \in Entries /\ logged' \in LogRow
  BY <1>1, HandOverChange, CommitType DEF IInv, TypeOK
<1>5. /\ parcel'.status = "DELIVERED"
      /\ parcel'.hash = NoCode
      /\ parcel'.attempts = parcel.attempts
      /\ parcel'.tries = parcel.tries
      /\ parcel'.rescheduledFor = "null"
      /\ parcel'.payment = parcel.payment
      /\ parcel'.deliveredAt = "set"
      /\ SamePrice
  BY <1>3, SMT DEF With, Columns, SamePrice, proofColumns
<1>6. logged'.status = "DELIVERED"
  BY <1>3, <1>5, SMT
<1>. QED
  BY <1>2, <1>3, <1>4, <1>5, <1>6, DeliveryKeeps

LEMMA CreateKeeps ==
  ASSUME IInv, NEW a \in Actors, Create(a)
  PROVE  IInv'
<1>1. PICK c \in create(parcel, a) : Commit(c)
  BY DEF Create
<1> DEFINE s(q) == [status |-> "PENDING", cod |-> q.cod, fee |-> q.fee, codFee |-> q.codFee,
                    back |-> q.back, payment |-> paymentStatusFor(q)]
<1>2. PICK q \in Quotes :
        ~Exists(parcel) /\ c = Saves(parcel, a, "PENDING", s(q), bookingEntries(q.fee))
  BY <1>1 DEF create
<1>3. /\ parcel' = With(parcel, s(q))
      /\ books' = Posted(books, bookingEntries(q.fee))
      /\ logged' = [status |-> "PENDING", by |-> a]
  <2> HIDE DEF s
  <2>. QED
    BY <1>1, <1>2, CommitSaves, Zenon
<1>4. parcel' \in Parcel /\ books' \in Entries /\ logged' \in LogRow
  BY <1>1, CreateChange, CommitType DEF IInv, TypeOK
<1>5. /\ parcel'.status = "PENDING"
      /\ parcel'.hash = parcel.hash
      /\ parcel'.attempts = parcel.attempts
      /\ parcel'.tries = parcel.tries
      /\ parcel'.rescheduledFor = parcel.rescheduledFor
      /\ parcel'.payment = paymentStatusFor(q)
      /\ parcel'.deliveredAt = parcel.deliveredAt
      /\ parcel'.cod = q.cod
      /\ parcel'.fee = q.fee
      /\ parcel'.returnFee = parcel.returnFee
  BY <1>3, SMT DEF With, Columns
<1>6. parcel = NoParcel /\ books = NoEntries
  BY <1>2 DEF IInv, Unbooked, Exists
<1>7. TypeOK'
  BY <1>4, <1>5, SMT DEF IInv, TypeOK
<1>8. Unbooked'
  BY <1>5, SMT DEF Unbooked
<1>9. Money'
  <2>1. q.fee \in Nat
    BY QuotesAssumption DEF QuoteType
  <2>2. /\ books'["DELIVERY_FEE"] = -q.fee
        /\ \A t \in EntryTypes \ {"DELIVERY_FEE"} : books'[t] = 0
    BY <1>3, <1>6, <2>1, SMT DEF Posted, bookingEntries, NoEntries, EntryTypes
  <2>. QED
    BY <1>5, <1>6, <2>1, <2>2, SMT DEF NoParcel, EntryTypes, Money, FeesMatchStatus,
      CashMatchesStatus, ReturnMatchesStatus, feeChargedFor
<1>10. Journey'
  BY <1>3, <1>5, <1>6, LimitsAssumption, SMT DEF NoParcel, Journey, CodeOnlyWhileOut,
    AttemptsWithinLimit,
    NoAttemptsYet, ReschedulesAreSpent, OnTheRoadIsPaid, DeliveredIsStamped, TimelineMatches
<1>. QED
  BY <1>7, <1>8, <1>9, <1>10 DEF IInv

LEMMA ReturnedKeeps ==
  ASSUME IInv, NEW a \in Actors, UpdateStatusReturned(a)
  PROVE  IInv'
<1>1. PICK c \in updateStatusReturned(parcel, a) : Commit(c)
  BY DEF UpdateStatusReturned
<1> DEFINE s == [status |-> "RETURNED_TO_SENDER", returnFee |-> parcel.back, hash |-> NoCode]
<1>2. /\ TransitionAllowed(parcel, "RETURNED_TO_SENDER")
      /\ c = Saves(parcel, a, "RETURNED_TO_SENDER",
                   s, returnEntries(parcel.codFee, parcel.back))
  BY <1>1 DEF updateStatusReturned, MayUpdateStatus
<1>3. /\ parcel' = With(parcel, s)
      /\ books' = Posted(books, returnEntries(parcel.codFee, parcel.back))
      /\ logged' = [status |-> "RETURNED_TO_SENDER", by |-> a]
  <2> HIDE DEF s
  <2>. QED
    BY <1>1, <1>2, CommitSaves, Zenon
<1>4. parcel' \in Parcel /\ books' \in Entries /\ logged' \in LogRow
  BY <1>1, ReturnedChange, CommitType DEF IInv, TypeOK
<1>5. /\ parcel'.status = "RETURNED_TO_SENDER"
      /\ parcel'.hash = NoCode
      /\ parcel'.attempts = parcel.attempts
      /\ parcel'.tries = parcel.tries
      /\ parcel'.rescheduledFor = parcel.rescheduledFor
      /\ parcel'.payment = parcel.payment
      /\ parcel'.deliveredAt = parcel.deliveredAt
      /\ parcel'.cod = parcel.cod
      /\ parcel'.fee = parcel.fee
      /\ parcel'.codFee = parcel.codFee
      /\ parcel'.back = parcel.back
      /\ parcel'.returnFee = parcel.back
  BY <1>3, SMT DEF With, Columns
<1>6. parcel.status = "RETURNING"
  BY <1>2, SMT DEF TransitionAllowed, PARCEL_STATUS_TRANSITIONS
<1>7. TypeOK'
  BY <1>4, <1>5, SMT DEF IInv, TypeOK
<1>8. Unbooked'
  BY <1>5, SMT DEF Unbooked
<1>9. Money'
  <2>1. /\ books'["COD_FEE_REVERSAL"] = books["COD_FEE_REVERSAL"] + parcel.codFee
        /\ books'["RETURN_FEE"] = books["RETURN_FEE"] - parcel.back
        /\ \A t \in EntryTypes \ {"COD_FEE_REVERSAL", "RETURN_FEE"} : books'[t] = books[t]
    BY <1>3, SMT DEF Posted, returnEntries, EntryTypes, Entries, Parcel, IInv, TypeOK
  <2>. QED
    BY <1>5, <1>6, <2>1, SMT DEF IInv, TypeOK, Parcel, Entries, EntryTypes, Money,
      FeesMatchStatus, CashMatchesStatus, ReturnMatchesStatus, feeChargedFor
<1>10. Journey'
  BY <1>3, <1>5, <1>6, SMT DEF IInv, Journey, CodeOnlyWhileOut, AttemptsWithinLimit,
    NoAttemptsYet, ReschedulesAreSpent, OnTheRoadIsPaid, DeliveredIsStamped, TimelineMatches
<1>. QED
  BY <1>7, <1>8, <1>9, <1>10 DEF IInv

(* A cancellation, by either route: from a status that may be cancelled,   *)
(* giving back what the books say is charged.                              *)
LEMMA CancellationKeeps ==
  ASSUME IInv, TransitionAllowed(parcel, "CANCELLED"),
         parcel' \in Parcel, books' \in Entries, logged' \in LogRow,
         /\ parcel'.status = "CANCELLED"
         /\ parcel'.hash = NoCode
         /\ parcel'.attempts = parcel.attempts
         /\ parcel'.tries = parcel.tries
         /\ parcel'.rescheduledFor = parcel.rescheduledFor
         /\ parcel'.payment = parcel.payment
         /\ parcel'.deliveredAt = parcel.deliveredAt
         /\ SamePrice,
         books' = Posted(books, cancellationEntries(books)),
         logged'.status = "CANCELLED"
  PROVE  IInv'
<1>1. parcel.status \in {"PENDING", "PICKED_UP", "IN_TRANSIT", "OUT_FOR_DELIVERY",
                         "FAILED_ATTEMPT"}
  BY SMT DEF TransitionAllowed, PARCEL_STATUS_TRANSITIONS
<1>2. TypeOK'
  BY SMT DEF IInv, TypeOK
<1>3. Unbooked'
  BY SMT DEF Unbooked
<1>4. Money'
  <2>1. feeChargedFor(books') = 0
    BY CancellationClears DEF IInv, TypeOK
  <2>2. \A t \in EntryTypes \ {"FEE_REVERSAL"} : books'[t] = books[t]
    BY SMT DEF Posted, cancellationEntries, NoEntries, EntryTypes, Entries, IInv, TypeOK
  <2>. QED
    BY <1>1, <2>1, <2>2, SMT DEF IInv, EntryTypes, Money, FeesMatchStatus, CashMatchesStatus,
      ReturnMatchesStatus, SamePrice
<1>5. Journey'
  BY <1>1, SMT DEF IInv, Journey, CodeOnlyWhileOut, AttemptsWithinLimit,
    NoAttemptsYet, ReschedulesAreSpent, OnTheRoadIsPaid, DeliveredIsStamped, TimelineMatches
<1>. QED
  BY <1>2, <1>3, <1>4, <1>5 DEF IInv

LEMMA CancelledKeeps ==
  ASSUME IInv, NEW a \in Actors, UpdateStatusCancelled(a)
  PROVE  IInv'
<1>1. PICK c \in updateStatusCancelled(parcel, a) : Commit(c)
  BY DEF UpdateStatusCancelled
<1> DEFINE s == [status |-> "CANCELLED", hash |-> NoCode]
<1>2. TransitionAllowed(parcel, "CANCELLED") /\ c = Cancels(parcel, a, "CANCELLED", s)
  BY <1>1 DEF updateStatusCancelled, MayUpdateStatus
<1>3. /\ parcel' = With(parcel, s)
      /\ books' = Posted(books, cancellationEntries(books))
      /\ logged' = [status |-> "CANCELLED", by |-> a]
  <2> HIDE DEF s
  <2>. QED
    BY <1>1, <1>2, CommitCancels, Zenon
<1>4. parcel' \in Parcel /\ books' \in Entries /\ logged' \in LogRow
  BY <1>1, CancelledChange, CommitType DEF IInv, TypeOK
<1>5. /\ parcel'.status = "CANCELLED"
      /\ parcel'.hash = NoCode
      /\ parcel'.attempts = parcel.attempts
      /\ parcel'.tries = parcel.tries
      /\ parcel'.rescheduledFor = parcel.rescheduledFor
      /\ parcel'.payment = parcel.payment
      /\ parcel'.deliveredAt = parcel.deliveredAt
      /\ SamePrice
  BY <1>3, SMT DEF With, Columns, SamePrice
<1>6. logged'.status = "CANCELLED"
  BY <1>3, <1>5, SMT
<1>. QED
  BY <1>2, <1>3, <1>4, <1>5, <1>6, CancellationKeeps

LEMMA CancelKeeps ==
  ASSUME IInv, NEW a \in Actors, CancelParcel(a)
  PROVE  IInv'
<1>1. PICK c \in cancelParcel(parcel, a) : Commit(c)
  BY DEF CancelParcel
<1> DEFINE s == [status |-> "CANCELLED"]
<1>2. /\ TransitionAllowed(parcel, "CANCELLED")
      /\ parcel.status = "PENDING"
      /\ c = Cancels(parcel, a, "CANCELLED", s)
  BY <1>1 DEF cancelParcel
<1>3. /\ parcel' = With(parcel, s)
      /\ books' = Posted(books, cancellationEntries(books))
      /\ logged' = [status |-> "CANCELLED", by |-> a]
  <2> HIDE DEF s
  <2>. QED
    BY <1>1, <1>2, CommitCancels, Zenon
<1>4. parcel' \in Parcel /\ books' \in Entries /\ logged' \in LogRow
  BY <1>1, CancelChange, CommitType DEF IInv, TypeOK
<1>5. /\ parcel'.status = "CANCELLED"
      /\ parcel'.hash = parcel.hash
      /\ parcel'.attempts = parcel.attempts
      /\ parcel'.tries = parcel.tries
      /\ parcel'.rescheduledFor = parcel.rescheduledFor
      /\ parcel'.payment = parcel.payment
      /\ parcel'.deliveredAt = parcel.deliveredAt
      /\ SamePrice
  BY <1>3, SMT DEF With, Columns, SamePrice
<1>6. parcel.hash = NoCode
  BY <1>2, SMT DEF IInv, Journey, CodeOnlyWhileOut
<1>7. logged'.status = "CANCELLED"
  BY <1>3, <1>5, SMT
<1>. QED
  BY <1>2, <1>3, <1>4, <1>5, <1>6, <1>7, CancellationKeeps

LEMMA FailedAttemptKeeps ==
  ASSUME IInv, NEW a \in Actors, RecordFailedAttempt(a)
  PROVE  IInv'
<1>1. PICK c \in recordFailedAttempt(parcel, a) : Commit(c)
  BY DEF RecordFailedAttempt
<1> DEFINE s(day) == [status |-> "FAILED_ATTEMPT", attempts |-> parcel.attempts + 1,
                      rescheduledFor |-> day, hash |-> NoCode]
<1>2. PICK day \in Dates :
        /\ TransitionAllowed(parcel, "FAILED_ATTEMPT")
        /\ c = Saves(parcel, a, "FAILED_ATTEMPT", s(day), NoEntries)
  BY <1>1 DEF recordFailedAttempt
<1>3. /\ parcel' = With(parcel, s(day))
      /\ books' = books
      /\ logged' = [status |-> "FAILED_ATTEMPT", by |-> a]
  <2> HIDE DEF s
  <2>. QED
    BY <1>1, <1>2, CommitMoves, Zenon DEF IInv, TypeOK
<1>4. parcel' \in Parcel /\ books' \in Entries /\ logged' \in LogRow
  BY <1>1, FailedAttemptChange, CommitType DEF IInv, TypeOK
<1>5. /\ parcel'.status = "FAILED_ATTEMPT"
      /\ parcel'.hash = NoCode
      /\ parcel'.attempts = parcel.attempts + 1
      /\ parcel'.tries = parcel.tries
      /\ parcel'.rescheduledFor = day
      /\ parcel'.payment = parcel.payment
      /\ parcel'.deliveredAt = parcel.deliveredAt
      /\ SamePrice
  BY <1>3, SMT DEF With, Columns, SamePrice
<1>6. parcel.status = "OUT_FOR_DELIVERY"
  BY <1>2, SMT DEF TransitionAllowed, PARCEL_STATUS_TRANSITIONS
<1>7. TypeOK'
  BY <1>4, <1>5, SMT DEF IInv, TypeOK
<1>8. Unbooked'
  BY <1>5, SMT DEF Unbooked
<1>9. Money'
  BY <1>3, <1>5, <1>6, MoneyStays, SMT DEF IInv
<1>10. Journey'
  BY <1>3, <1>5, <1>6, LimitsAssumption, SMT DEF IInv, TypeOK, Parcel, Journey,
    CodeOnlyWhileOut, AttemptsWithinLimit,
    NoAttemptsYet, ReschedulesAreSpent, OnTheRoadIsPaid, DeliveredIsStamped, TimelineMatches
<1>. QED
  BY <1>7, <1>8, <1>9, <1>10 DEF IInv

LEMMA RescheduleKeeps ==
  ASSUME IInv, NEW a \in Actors, RescheduleDelivery(a)
  PROVE  IInv'
<1>1. PICK c \in rescheduleDelivery(parcel, a) : Commit(c)
  BY DEF RescheduleDelivery
<1> DEFINE s == [rescheduledFor |-> "set"]
<1>2. parcel.status = "FAILED_ATTEMPT" /\ c = Saves(parcel, a, parcel.status, s, NoEntries)
  BY <1>1 DEF rescheduleDelivery
<1>3. /\ parcel' = With(parcel, s)
      /\ books' = books
      /\ logged' = [status |-> parcel.status, by |-> a]
  <2> HIDE DEF s
  <2>. QED
    BY <1>1, <1>2, CommitMoves, Zenon DEF IInv, TypeOK
<1>4. parcel' \in Parcel /\ books' \in Entries /\ logged' \in LogRow
  BY <1>1, RescheduleChange, CommitType DEF IInv, TypeOK
<1>5. /\ parcel'.status = parcel.status
      /\ parcel'.hash = parcel.hash
      /\ parcel'.attempts = parcel.attempts
      /\ parcel'.tries = parcel.tries
      /\ parcel'.rescheduledFor = "set"
      /\ parcel'.payment = parcel.payment
      /\ parcel'.deliveredAt = parcel.deliveredAt
      /\ SamePrice
  BY <1>3, SMT DEF With, Columns, SamePrice
<1>6. TypeOK'
  BY <1>4, <1>5, SMT DEF IInv, TypeOK
<1>7. Unbooked'
  BY <1>2, <1>5, SMT DEF Unbooked
<1>8. Money'
  BY <1>3, <1>5, MoneyStays, SMT DEF IInv
<1>9. Journey'
  BY <1>2, <1>3, <1>5, SMT DEF IInv, Journey, CodeOnlyWhileOut, AttemptsWithinLimit,
    NoAttemptsYet, ReschedulesAreSpent, OnTheRoadIsPaid, DeliveredIsStamped, TimelineMatches
<1>. QED
  BY <1>6, <1>7, <1>8, <1>9 DEF IInv

(* A step that changes no column and no entry the invariants look at, of   *)
(* a parcel that exists.                                                   *)
LEMMA AsideKeeps ==
  ASSUME IInv, parcel.status # "UNBOOKED",
         parcel' \in Parcel, books' \in Entries, logged' \in LogRow,
         parcel'.tries <= MaxCodeTries, SameStage, SamePrice, books' = books,
         logged' = logged \/ logged'.status = parcel.status
  PROVE  IInv'
<1>1. TypeOK'
  BY DEF TypeOK
<1>2. Unbooked'
  BY SMT DEF Unbooked, SameStage
<1>3. Money'
  BY MoneyStays, SMT DEF IInv, SameStage
<1>4. Journey'
  BY JourneyStays DEF IInv
<1>. QED
  BY <1>1, <1>2, <1>3, <1>4 DEF IInv

LEMMA AssignKeeps ==
  ASSUME IInv, NEW a \in Actors, AssignDeliveryPersonnel(a)
  PROVE  IInv'
<1>1. PICK c \in assignDeliveryPersonnel(parcel, a) : Commit(c)
  BY DEF AssignDeliveryPersonnel
<1> DEFINE s(d) == [courier |-> d]
<1>2. PICK d \in Couriers :
        Exists(parcel) /\ c = Saves(parcel, a, parcel.status, s(d), NoEntries)
  BY <1>1 DEF assignDeliveryPersonnel
<1>3. /\ parcel' = With(parcel, s(d))
      /\ books' = books
      /\ logged' = [status |-> parcel.status, by |-> a]
  <2> HIDE DEF s
  <2>. QED
    BY <1>1, <1>2, CommitMoves, Zenon DEF IInv, TypeOK
<1>4. parcel' \in Parcel /\ books' \in Entries /\ logged' \in LogRow
  BY <1>1, AssignChange, CommitType DEF IInv, TypeOK
<1>5. SameStage /\ SamePrice /\ parcel'.tries = parcel.tries
  BY <1>3, SMT DEF With, Columns, SameStage, SamePrice
<1>6. logged'.status = parcel.status
  BY <1>3, <1>5, SMT DEF SameStage
<1>7. parcel.status # "UNBOOKED"
  BY <1>2 DEF Exists
<1>. QED
  BY <1>3, <1>4, <1>5, <1>6, <1>7, AsideKeeps, SMT DEF IInv, TypeOK

LEMMA UnassignKeeps ==
  ASSUME IInv, NEW a \in Actors, UnassignDeliveryPersonnel(a)
  PROVE  IInv'
<1>1. PICK c \in unassignDeliveryPersonnel(parcel, a) : Commit(c)
  BY DEF UnassignDeliveryPersonnel
<1> DEFINE s == [courier |-> NoCourier]
<1>2. parcel.courier # NoCourier /\ c = Saves(parcel, a, parcel.status, s, NoEntries)
  BY <1>1 DEF unassignDeliveryPersonnel
<1>3. /\ parcel' = With(parcel, s)
      /\ books' = books
      /\ logged' = [status |-> parcel.status, by |-> a]
  <2> HIDE DEF s
  <2>. QED
    BY <1>1, <1>2, CommitMoves, Zenon DEF IInv, TypeOK
<1>4. parcel' \in Parcel /\ books' \in Entries /\ logged' \in LogRow
  BY <1>1, UnassignChange, CommitType DEF IInv, TypeOK
<1>5. SameStage /\ SamePrice /\ parcel'.tries = parcel.tries
  BY <1>3, SMT DEF With, Columns, SameStage, SamePrice
<1>6. logged'.status = parcel.status
  BY <1>3, <1>5, SMT DEF SameStage
<1>7. parcel.status # "UNBOOKED"
  BY <1>2, SMT DEF IInv, Unbooked, NoParcel
<1>. QED
  BY <1>3, <1>4, <1>5, <1>6, <1>7, AsideKeeps, SMT DEF IInv, TypeOK

LEMMA SetBlockedKeeps ==
  ASSUME IInv, NEW a \in Actors, SetBlocked(a)
  PROVE  IInv'
<1>1. PICK c \in setBlocked(parcel, a) : Commit(c)
  BY DEF SetBlocked
<1> DEFINE s(b) == [blocked |-> b]
<1>2. PICK b \in BOOLEAN :
        Exists(parcel) /\ c = Saves(parcel, a, parcel.status, s(b), NoEntries)
  BY <1>1 DEF setBlocked
<1>3. /\ parcel' = With(parcel, s(b))
      /\ books' = books
      /\ logged' = [status |-> parcel.status, by |-> a]
  <2> HIDE DEF s
  <2>. QED
    BY <1>1, <1>2, CommitMoves, Zenon DEF IInv, TypeOK
<1>4. parcel' \in Parcel /\ books' \in Entries /\ logged' \in LogRow
  BY <1>1, SetBlockedChange, CommitType DEF IInv, TypeOK
<1>5. SameStage /\ SamePrice /\ parcel'.tries = parcel.tries
  BY <1>3, SMT DEF With, Columns, SameStage, SamePrice
<1>6. logged'.status = parcel.status
  BY <1>3, <1>5, SMT DEF SameStage
<1>7. parcel.status # "UNBOOKED"
  BY <1>2 DEF Exists
<1>. QED
  BY <1>3, <1>4, <1>5, <1>6, <1>7, AsideKeeps, SMT DEF IInv, TypeOK

LEMMA AttachProofKeeps ==
  ASSUME IInv, NEW a \in Actors, AttachProof(a)
  PROVE  IInv'
<1>1. PICK c \in proofAfterwards(parcel, a) : Commit(c)
  BY DEF AttachProof
<1>2. PICK collected \in BOOLEAN :
        /\ parcel.status = "DELIVERED"
        /\ c = Saves(parcel, a, "DELIVERED", proofColumns(collected), NoEntries)
  BY <1>1 DEF proofAfterwards, MayAttachProof
<1>3. /\ parcel' = With(parcel, proofColumns(collected))
      /\ books' = books
      /\ logged' = [status |-> "DELIVERED", by |-> a]
  BY <1>1, <1>2, CommitMoves, Zenon DEF IInv, TypeOK
<1>4. parcel' \in Parcel /\ books' \in Entries /\ logged' \in LogRow
  BY <1>1, AttachProofChange, CommitType DEF IInv, TypeOK
<1>5. /\ parcel'.status = "DELIVERED"
      /\ parcel'.hash = NoCode
      /\ parcel'.attempts = parcel.attempts
      /\ parcel'.tries = parcel.tries
      /\ parcel'.rescheduledFor = "null"
      /\ parcel'.payment = parcel.payment
      /\ parcel'.deliveredAt = "set"
      /\ SamePrice
  BY <1>3, SMT DEF With, Columns, SamePrice, proofColumns
<1>6. TypeOK'
  BY <1>4, <1>5, SMT DEF IInv, TypeOK
<1>7. Unbooked'
  BY <1>5, SMT DEF Unbooked
<1>8. Money'
  BY <1>2, <1>3, <1>5, MoneyStays, SMT DEF IInv
<1>9. Journey'
  BY <1>2, <1>3, <1>5, SMT DEF IInv, Journey, CodeOnlyWhileOut, AttemptsWithinLimit,
    NoAttemptsYet, ReschedulesAreSpent, OnTheRoadIsPaid, DeliveredIsStamped, TimelineMatches
<1>. QED
  BY <1>6, <1>7, <1>8, <1>9 DEF IInv

(* A new code while the parcel is out: the stage is kept, but for which    *)
(* code works.                                                             *)
LEMMA ReissueKeeps ==
  ASSUME IInv, NEW a \in Actors, ReissueDeliveryCode(a)
  PROVE  IInv'
<1>1. PICK c \in reissueDeliveryCode(parcel, a) : Commit(c)
  BY DEF ReissueDeliveryCode
<1> DEFINE s(code) == [hash |-> code, tries |-> 0]
<1>2. PICK code \in Codes :
        parcel.status = "OUT_FOR_DELIVERY" /\ c = Updates(parcel, a, s(code))
  BY <1>1 DEF reissueDeliveryCode
<1>3. parcel' = With(parcel, s(code)) /\ books' = books /\ logged' = logged
  <2> HIDE DEF s
  <2>. QED
    BY <1>1, <1>2, CommitUpdates, Zenon DEF IInv, TypeOK
<1>4. parcel' \in Parcel /\ books' \in Entries /\ logged' \in LogRow
  BY <1>1, ReissueChange, CommitType DEF IInv, TypeOK
<1>5. /\ parcel'.status = parcel.status
      /\ parcel'.hash = code
      /\ parcel'.attempts = parcel.attempts
      /\ parcel'.tries = 0
      /\ parcel'.rescheduledFor = parcel.rescheduledFor
      /\ parcel'.payment = parcel.payment
      /\ parcel'.deliveredAt = parcel.deliveredAt
      /\ SamePrice
  BY <1>3, SMT DEF With, Columns, SamePrice
<1>6. TypeOK'
  BY <1>4, <1>5, LimitsAssumption, SMT DEF TypeOK
<1>7. Unbooked'
  BY <1>2, <1>5, SMT DEF Unbooked
<1>8. Money'
  BY <1>3, <1>5, MoneyStays, SMT DEF IInv
<1>9. Journey'
  BY <1>2, <1>3, <1>5, CodesAssumption, SMT DEF IInv, Journey, CodeOnlyWhileOut,
    AttemptsWithinLimit,
    NoAttemptsYet, ReschedulesAreSpent, OnTheRoadIsPaid, DeliveredIsStamped, TimelineMatches
<1>. QED
  BY <1>6, <1>7, <1>8, <1>9 DEF IInv

LEMMA CountWrongCodeKeeps ==
  ASSUME IInv, NEW a \in Actors, NEW code \in Codes, CountWrongCode(a, code)
  PROVE  IInv'
<1>1. PICK c \in wrongCode(parcel, a, code) : Commit(c)
  BY DEF CountWrongCode
<1> DEFINE s == [tries |-> parcel.tries + 1]
<1>2. CodeUsable(parcel) /\ c = Updates(parcel, a, s)
  BY <1>1 DEF wrongCode
<1>3. parcel' = With(parcel, s) /\ books' = books /\ logged' = logged
  <2> HIDE DEF s
  <2>. QED
    BY <1>1, <1>2, CommitUpdates, Zenon DEF IInv, TypeOK
<1>4. parcel' \in Parcel /\ books' \in Entries /\ logged' \in LogRow
  BY <1>1, WrongCodeChange, CommitType DEF IInv, TypeOK
<1>5. SameStage /\ SamePrice /\ parcel'.tries = parcel.tries + 1
  BY <1>3, SMT DEF With, Columns, SameStage, SamePrice
<1>6. parcel.tries + 1 <= MaxCodeTries
  BY <1>2, LimitsAssumption, SMT DEF CodeUsable, IInv, TypeOK, Parcel
<1>7. parcel.status # "UNBOOKED"
  BY <1>2, SMT DEF CodeUsable, IInv, Unbooked, NoParcel
<1>. QED
  BY <1>3, <1>4, <1>5, <1>6, <1>7, AsideKeeps, SMT

LEMMA UpdateParcelKeeps ==
  ASSUME IInv, NEW a \in Actors, UpdateParcel(a)
  PROVE  IInv'
<1>1. PICK c \in updateParcel(parcel, a) : Commit(c)
  BY DEF UpdateParcel
<1>2. parcel' \in Parcel /\ books' \in Entries /\ logged' \in LogRow
  BY <1>1, UpdateParcelChange, CommitType DEF IInv, TypeOK
<1>3. parcel.status = "PENDING"
  BY <1>1 DEF updateParcel, MayReprice, MayEdit
<1>4. CASE c = Saves(parcel, a, parcel.status, [status |-> parcel.status], NoEntries)
  <2>1. /\ parcel' = With(parcel, [status |-> parcel.status])
        /\ books' = books
        /\ logged' = [status |-> parcel.status, by |-> a]
    BY <1>1, <1>4, CommitMoves, Zenon DEF IInv, TypeOK
  <2>2. SameStage /\ SamePrice /\ parcel'.tries = parcel.tries
    BY <2>1, SMT DEF With, Columns, SameStage, SamePrice
  <2>3. logged'.status = parcel.status
    BY <2>1, <2>2, SMT DEF SameStage
  <2>. QED
    BY <1>2, <1>3, <2>1, <2>2, <2>3, AsideKeeps, SMT DEF IInv, TypeOK
<1> DEFINE s(q) ==
      [cod |-> q.cod, fee |-> q.fee, codFee |-> q.codFee, back |-> q.back,
       payment |-> IF parcel.payment = "PAID" THEN "PAID" ELSE paymentStatusFor(q)]
<1>5. ASSUME NEW q \in Quotes,
             c = Saves(parcel, a, parcel.status, s(q), repricingEntries(q.fee, parcel.fee))
      PROVE  IInv'
  <2>1. /\ parcel' = With(parcel, s(q))
        /\ books' = Posted(books, repricingEntries(q.fee, parcel.fee))
        /\ logged' = [status |-> parcel.status, by |-> a]
    <3> HIDE DEF s
    <3>. QED
      BY <1>1, <1>5, CommitSaves, Zenon
  <2>2. /\ parcel'.status = parcel.status
        /\ parcel'.hash = parcel.hash
        /\ parcel'.attempts = parcel.attempts
        /\ parcel'.tries = parcel.tries
        /\ parcel'.rescheduledFor = parcel.rescheduledFor
        /\ parcel'.deliveredAt = parcel.deliveredAt
        /\ parcel'.returnFee = parcel.returnFee
        /\ parcel'.fee = q.fee
    BY <2>1, SMT DEF With, Columns
  <2>3. TypeOK'
    BY <1>2, <2>2, SMT DEF IInv, TypeOK
  <2>4. Unbooked'
    BY <1>3, <2>2, SMT DEF Unbooked
  <2>5. Money'
    <3>1. q.fee \in Nat
      BY QuotesAssumption DEF QuoteType
    <3>2. /\ books'["FEE_ADJUSTMENT"] = books["FEE_ADJUSTMENT"] - (q.fee - parcel.fee)
          /\ \A t \in EntryTypes \ {"FEE_ADJUSTMENT"} : books'[t] = books[t]
      BY <2>1, <3>1, SMT DEF Posted, repricingEntries, NoEntries, EntryTypes, Entries, Parcel,
        IInv, TypeOK
    <3>. QED
      BY <1>3, <2>2, <3>1, <3>2, SMT DEF IInv, TypeOK, Parcel, Entries, EntryTypes, Money,
        FeesMatchStatus, CashMatchesStatus, ReturnMatchesStatus, feeChargedFor
  <2>6. Journey'
    BY <1>3, <2>1, <2>2, SMT DEF IInv, Journey, CodeOnlyWhileOut, AttemptsWithinLimit,
      NoAttemptsYet, ReschedulesAreSpent, OnTheRoadIsPaid, DeliveredIsStamped, TimelineMatches
  <2>. QED
    BY <2>3, <2>4, <2>5, <2>6 DEF IInv
<1>. QED
  BY <1>1, <1>4, <1>5 DEF updateParcel

LEMMA MarkFeePaidKeeps ==
  ASSUME IInv, MarkFeePaid
  PROVE  IInv'
<1>1. /\ parcel' \in Parcel
      /\ books' = books
      /\ logged' = logged
      /\ SamePrice
      /\ parcel'.payment = "PAID"
      /\ parcel'.status = parcel.status
      /\ parcel'.hash = parcel.hash
      /\ parcel'.attempts = parcel.attempts
      /\ parcel'.tries = parcel.tries
      /\ parcel'.rescheduledFor = parcel.rescheduledFor
      /\ parcel'.deliveredAt = parcel.deliveredAt
  BY SMT DEF MarkFeePaid, IInv, TypeOK, Parcel, PaymentStatus, SamePrice
<1>2. parcel.status # "UNBOOKED"
  BY DEF MarkFeePaid, Exists
<1>3. TypeOK'
  BY <1>1, SMT DEF IInv, TypeOK
<1>4. Unbooked'
  BY <1>1, <1>2, SMT DEF Unbooked
<1>5. Money'
  BY <1>1, MoneyStays, SMT DEF IInv
<1>6. Journey'
  BY <1>1, SMT DEF IInv, Journey, CodeOnlyWhileOut, AttemptsWithinLimit,
    NoAttemptsYet, ReschedulesAreSpent, OnTheRoadIsPaid, DeliveredIsStamped, TimelineMatches
<1>. QED
  BY <1>3, <1>4, <1>5, <1>6 DEF IInv

-----------------------------------------------------------------------------
(* The theorems *)

LEMMA InitIInv == Init => IInv
<1>1. SUFFICES ASSUME Init PROVE IInv
  OBVIOUS
<1>2. TypeOK
  BY <1>1, LimitsAssumption, NoEntriesType, SMT DEF Init, TypeOK, NoParcel, Parcel, RowStatus,
    PaymentStatus,
    Dates, LogRow, Actors, Staff
<1>3. Unbooked
  BY <1>1 DEF Init, Unbooked
<1>4. Money
  <2>1. \A t \in EntryTypes : books[t] = 0
    BY <1>1, SMT DEF Init, NoEntries
  <2>2. parcel.status = "UNBOOKED" /\ parcel.fee = 0 /\ parcel.returnFee = 0
    BY <1>1, SMT DEF Init, NoParcel
  <2>. QED
    BY <2>1, <2>2, SMT DEF EntryTypes, Money, FeesMatchStatus, CashMatchesStatus,
      ReturnMatchesStatus, feeChargedFor
<1>5. Journey
  BY <1>1, LimitsAssumption, SMT DEF Init, NoParcel, Journey, CodeOnlyWhileOut,
    AttemptsWithinLimit,
    NoAttemptsYet, ReschedulesAreSpent, OnTheRoadIsPaid, DeliveredIsStamped, TimelineMatches
<1>. QED
  BY <1>2, <1>3, <1>4, <1>5 DEF IInv

LEMMA ServeKeeps ==
  ASSUME IInv, NEW a \in Actors, Serve(a)
  PROVE  IInv'
BY CreateKeeps, AlongKeeps, OutKeeps, DeliveredKeeps, ReturnedKeeps, CancelledKeeps,
  FailedAttemptKeeps, RescheduleKeeps, UpdateParcelKeeps, ReissueKeeps, AssignKeeps,
  UnassignKeeps, CancelKeeps, ConfirmKeeps, SetBlockedKeeps, AttachProofKeeps, HandOverKeeps,
  CountWrongCodeKeeps, Zenon DEF Serve

LEMMA StutterKeeps ==
  ASSUME IInv, UNCHANGED vars
  PROVE  IInv'
BY SMT DEF vars, IInv, TypeOK, Unbooked, Journey, Money, CodeOnlyWhileOut, AttemptsWithinLimit,
  NoAttemptsYet, ReschedulesAreSpent, OnTheRoadIsPaid, DeliveredIsStamped, TimelineMatches,
  FeesMatchStatus, CashMatchesStatus, ReturnMatchesStatus

LEMMA Invariance == Spec => []IInv
<1>1. IInv /\ [Next]_vars => IInv'
  BY ServeKeeps, MarkFeePaidKeeps, StutterKeeps, Zenon DEF Next
<1>. QED
  BY InitIInv, <1>1, PTL DEF Spec

(* Every reachable row, ledger and log row is well-typed, and wrong codes  *)
(* never pass MAX_DELIVERY_CODE_ATTEMPTS.                                  *)
THEOREM TypeCorrect == Spec => []TypeOK
BY Invariance, PTL DEF IInv

(* For any sequence of bookings, re-pricings, deliveries, returns and      *)
(* cancellations served one at a time, the fee the ledger charges is the   *)
(* fee on the row, and nothing is charged for a cancelled parcel.          *)
THEOREM FeesFollow == Spec => []FeesMatchStatus
BY Invariance, PTL DEF IInv, Money

(* The cash of a parcel is on the ledger, in both places, exactly while it *)
(* is delivered: by any route, once.                                       *)
THEOREM CashFollows == Spec => []CashMatchesStatus
BY Invariance, PTL DEF IInv, Money

(* The trip back is charged for returned parcels and no other.             *)
THEOREM ReturnsFollow == Spec => []ReturnMatchesStatus
BY Invariance, PTL DEF IInv, Money

(* A delivery code is active exactly while the parcel is out for delivery. *)
THEOREM CodesFollow == Spec => []CodeOnlyWhileOut
BY Invariance, PTL DEF IInv, Journey

(* A parcel never goes out again once its attempts are spent, for any      *)
(* MAX_DELIVERY_ATTEMPTS.                                                  *)
THEOREM AttemptsAreLimited == Spec => []AttemptsWithinLimit
BY Invariance, PTL DEF IInv, Journey

(* With payment required before pickup, no prepaid parcel travels unpaid.  *)
THEOREM PaidBeforePickup == Spec => []OnTheRoadIsPaid
BY Invariance, PTL DEF IInv, Journey

(* A day picked for the next attempt is forgotten by the attempt, on every *)
(* route that starts or ends one.                                          *)
THEOREM ReschedulesFollow == Spec => []ReschedulesAreSpent
BY Invariance, PTL DEF IInv, Journey

(* Whichever of the three routes delivers it, deliveredAt is set exactly   *)
(* on a parcel that was delivered.                                         *)
THEOREM StampsFollow == Spec => []DeliveredIsStamped
BY Invariance, PTL DEF IInv, Journey

(* The newest row of parcel_status_logs names the status the parcel is in. *)
THEOREM TimelineFollows == Spec => []TimelineMatches
BY Invariance, PTL DEF IInv, Journey

-----------------------------------------------------------------------------
(* What a step may never do.  Every handler decides a change that moves    *)
(* along the table of transitions, or keeps the status; that leaves a paid *)
(* fee alone; and that closes a parcel for a courier who has to give a     *)
(* code only with a code to verify.                                        *)

MovesAlong(p, c) ==
  \/ c.after.status = p.status
  \/ /\ c.via = "save"
     /\ \/ TransitionAllowed(p, c.after.status)
        \/ p.status = "UNBOOKED" /\ c.after.status = "PENDING"

KeepsPaidFee(p, c) ==
  p.payment = "PAID" => c.after.payment = "PAID" /\ c.after.fee = p.fee

ClosesByCode(p, c, code) ==
  /\ RequireOtp
  /\ p.status # "DELIVERED"
  /\ c.after.status = "DELIVERED"
  /\ c.by \in Couriers
  => code # NoCode

Proper(p, c, code) == MovesAlong(p, c) /\ KeepsPaidFee(p, c) /\ ClosesByCode(p, c, code)

LEMMA CreateProper ==
  ASSUME NEW p, NEW a, NEW c \in create(p, a), Exists(p) \/ p.payment = "UNPAID"
  PROVE  Proper(p, c, NoCode)
<1> DEFINE s(q) == [status |-> "PENDING", cod |-> q.cod, fee |-> q.fee, codFee |-> q.codFee,
                    back |-> q.back, payment |-> paymentStatusFor(q)]
<1>1. PICK q \in Quotes :
        ~Exists(p) /\ c = Saves(p, a, "PENDING", s(q), bookingEntries(q.fee))
  BY DEF create
<1>2. c.after = With(p, s(q)) /\ c.via = "save"
  <2> HIDE DEF s
  <2>. QED
    BY <1>1, SMT DEF Saves, Cancels, Decides
<1>3. c.after.status = "PENDING"
  BY <1>2, SMT DEF With, Columns
<1>4. p.status = "UNBOOKED" /\ p.payment = "UNPAID"
  BY <1>1 DEF Exists
<1>. QED
  BY <1>2, <1>3, <1>4, SMT DEF Proper, MovesAlong, KeepsPaidFee, ClosesByCode

(* The branches of updateStatus that assign neither fee nor payment. *)
LEMMA AlongProper ==
  ASSUME NEW p, NEW a, NEW c \in updateStatusAlong(p, a)
  PROVE  Proper(p, c, NoCode)
<1>1. PICK to \in {"PICKED_UP", "IN_TRANSIT", "RETURNING"} :
        /\ TransitionAllowed(p, to)
        /\ c = Saves(p, a, to, [status |-> to, hash |-> NoCode], NoEntries)
  BY DEF updateStatusAlong, MayUpdateStatus
<1>2. c.after = With(p, [status |-> to, hash |-> NoCode]) /\ c.via = "save"
  BY <1>1, SMT DEF Saves, Cancels, Decides
<1>3. c.after.status = to /\ c.after.payment = p.payment /\ c.after.fee = p.fee
  BY <1>2, SMT DEF With, Columns
<1>. QED
  BY <1>1, <1>2, <1>3, SMT DEF Proper, MovesAlong, KeepsPaidFee, ClosesByCode

LEMMA OutProper ==
  ASSUME NEW p, NEW a, NEW c \in updateStatusOut(p, a)
  PROVE  Proper(p, c, NoCode)
<1> DEFINE s(code) == [status |-> "OUT_FOR_DELIVERY", hash |-> code, tries |-> 0,
                       rescheduledFor |-> "null"]
<1>1. PICK code \in Codes :
        /\ TransitionAllowed(p, "OUT_FOR_DELIVERY")
        /\ c = Saves(p, a, "OUT_FOR_DELIVERY", s(code), NoEntries)
  BY DEF updateStatusOut, MayUpdateStatus
<1>2. c.after = With(p, s(code)) /\ c.via = "save"
  <2> HIDE DEF s
  <2>. QED
    BY <1>1, SMT DEF Saves, Cancels, Decides
<1>3. c.after.status = "OUT_FOR_DELIVERY" /\ c.after.payment = p.payment /\ c.after.fee = p.fee
  BY <1>2, SMT DEF With, Columns
<1>. QED
  BY <1>1, <1>2, <1>3, SMT DEF Proper, MovesAlong, KeepsPaidFee, ClosesByCode

(* markDelivered by a route a courier who needs a code cannot take. *)
LEMMA MarkDeliveredProper ==
  ASSUME NEW p, NEW a, NEW e, NEW c, c = Saves(p, a, "DELIVERED", markDelivered, e),
         TransitionAllowed(p, "DELIVERED"), RequireOtp => a \notin Couriers
  PROVE  Proper(p, c, NoCode)
<1>1. c.by = a /\ c.after = With(p, markDelivered) /\ c.via = "save"
  BY SMT DEF Saves, Decides
<1>2. c.after.status = "DELIVERED" /\ c.after.payment = p.payment /\ c.after.fee = p.fee
  BY <1>1, SMT DEF With, Columns, markDelivered
<1>. QED
  BY <1>1, <1>2, SMT DEF Proper, MovesAlong, KeepsPaidFee, ClosesByCode

LEMMA DeliveredProper ==
  ASSUME NEW p, NEW a, NEW c \in updateStatusDelivered(p, a)
  PROVE  Proper(p, c, NoCode)
BY MarkDeliveredProper, Zenon DEF updateStatusDelivered, MayUpdateStatus

LEMMA ConfirmProper ==
  ASSUME NEW p, NEW a, NEW c \in confirmDelivery(p, a)
  PROVE  Proper(p, c, NoCode)
<1>1. /\ c = Saves(p, a, "DELIVERED", markDelivered, deliveryEntries(p))
      /\ TransitionAllowed(p, "DELIVERED")
      /\ a = "receiver"
  BY DEF confirmDelivery
<1>2. a \notin Couriers
  BY <1>1, CouriersAssumption, SMT DEF Staff
<1>. QED
  BY <1>1, <1>2, MarkDeliveredProper, Zenon

LEMMA HandOverProper ==
  ASSUME NEW p, NEW a, NEW code, NEW c \in proofOfHandover(p, a, code)
  PROVE  Proper(p, c, code)
<1>1. PICK collected \in BOOLEAN :
        /\ TransitionAllowed(p, "DELIVERED")
        /\ code = NoCode => MayOmitCode(a)
        /\ c = Decides(p, a, "DELIVERED",
                       proofColumns(collected), deliveryEntries(p), FALSE, code, "save")
  BY DEF proofOfHandover
<1>2. /\ c.by = a
      /\ c.after = With(p, proofColumns(collected))
      /\ c.via = "save"
  BY <1>1, SMT DEF Decides
<1>3. c.after.status = "DELIVERED" /\ c.after.payment = p.payment /\ c.after.fee = p.fee
  BY <1>2, SMT DEF With, Columns, proofColumns
<1>4. ClosesByCode(p, c, code)
  BY <1>1, <1>2 DEF ClosesByCode, MayOmitCode
<1>. QED
  BY <1>1, <1>2, <1>3, <1>4 DEF Proper, MovesAlong, KeepsPaidFee

LEMMA ReturnedProper ==
  ASSUME NEW p, NEW a, NEW c \in updateStatusReturned(p, a)
  PROVE  Proper(p, c, NoCode)
<1> DEFINE s == [status |-> "RETURNED_TO_SENDER", returnFee |-> p.back, hash |-> NoCode]
<1>1. /\ TransitionAllowed(p, "RETURNED_TO_SENDER")
      /\ c = Saves(p, a, "RETURNED_TO_SENDER", s, returnEntries(p.codFee, p.back))
  BY DEF updateStatusReturned, MayUpdateStatus
<1>2. c.after = With(p, s) /\ c.via = "save"
  <2> HIDE DEF s
  <2>. QED
    BY <1>1, SMT DEF Saves, Cancels, Decides
<1>3. c.after.status = "RETURNED_TO_SENDER" /\ c.after.payment = p.payment /\ c.after.fee = p.fee
  BY <1>2, SMT DEF With, Columns
<1>. QED
  BY <1>1, <1>2, <1>3, SMT DEF Proper, MovesAlong, KeepsPaidFee, ClosesByCode

(* The two ways to cancel. *)
LEMMA CancelsProper ==
  ASSUME NEW p, NEW a, NEW c \in updateStatusCancelled(p, a) \cup cancelParcel(p, a)
  PROVE  Proper(p, c, NoCode)
<1> DEFINE s == [status |-> "CANCELLED", hash |-> NoCode]
           t == [status |-> "CANCELLED"]
<1>1. /\ TransitionAllowed(p, "CANCELLED")
      /\ c = Cancels(p, a, "CANCELLED", s) \/ c = Cancels(p, a, "CANCELLED", t)
  BY DEF updateStatusCancelled, cancelParcel, MayUpdateStatus
<1>2. (c.after = With(p, s) \/ c.after = With(p, t)) /\ c.via = "save"
  <2> HIDE DEF s, t
  <2>. QED
    BY <1>1, SMT DEF Saves, Cancels, Decides
<1>3. c.after.status = "CANCELLED" /\ c.after.payment = p.payment /\ c.after.fee = p.fee
  BY <1>2, SMT DEF With, Columns
<1>. QED
  BY <1>1, <1>2, <1>3, SMT DEF Proper, MovesAlong, KeepsPaidFee, ClosesByCode

LEMMA FailedAttemptProper ==
  ASSUME NEW p, NEW a, NEW c \in recordFailedAttempt(p, a)
  PROVE  Proper(p, c, NoCode)
<1> DEFINE s(day) == [status |-> "FAILED_ATTEMPT", attempts |-> p.attempts + 1,
                      rescheduledFor |-> day, hash |-> NoCode]
<1>1. PICK day \in Dates :
        /\ TransitionAllowed(p, "FAILED_ATTEMPT")
        /\ c = Saves(p, a, "FAILED_ATTEMPT", s(day), NoEntries)
  BY DEF recordFailedAttempt
<1>2. c.after = With(p, s(day)) /\ c.via = "save"
  <2> HIDE DEF s
  <2>. QED
    BY <1>1, SMT DEF Saves, Cancels, Decides
<1>3. c.after.status = "FAILED_ATTEMPT" /\ c.after.payment = p.payment /\ c.after.fee = p.fee
  BY <1>2, SMT DEF With, Columns
<1>. QED
  BY <1>1, <1>2, <1>3, SMT DEF Proper, MovesAlong, KeepsPaidFee, ClosesByCode

(* A change that leaves the status, the fee and the payment alone. *)
LEMMA AsideProper ==
  ASSUME NEW p, NEW c, c.after.status = p.status, c.after.payment = p.payment,
         c.after.fee = p.fee
  PROVE  Proper(p, c, NoCode)
BY DEF Proper, MovesAlong, KeepsPaidFee, ClosesByCode

LEMMA RescheduleProper ==
  ASSUME NEW p, NEW a, NEW c \in rescheduleDelivery(p, a)
  PROVE  Proper(p, c, NoCode)
<1>1. c.after = With(p, [rescheduledFor |-> "set"])
  BY SMT DEF rescheduleDelivery, Saves, Decides
<1>. QED
  BY <1>1, AsideProper, SMT DEF With, Columns

LEMMA AssignProper ==
  ASSUME NEW p, NEW a,
         NEW c \in assignDeliveryPersonnel(p, a) \cup unassignDeliveryPersonnel(p, a)
  PROVE  Proper(p, c, NoCode)
<1>1. PICK d : c = Saves(p, a, p.status, [courier |-> d], NoEntries)
  BY DEF assignDeliveryPersonnel, unassignDeliveryPersonnel
<1>2. c.after = With(p, [courier |-> d])
  BY <1>1, SMT DEF Saves, Cancels, Decides
<1>. QED
  BY <1>2, AsideProper, SMT DEF With, Columns

LEMMA SetBlockedProper ==
  ASSUME NEW p, NEW a, NEW c \in setBlocked(p, a)
  PROVE  Proper(p, c, NoCode)
<1>1. PICK b : c = Saves(p, a, p.status, [blocked |-> b], NoEntries)
  BY DEF setBlocked
<1>2. c.after = With(p, [blocked |-> b])
  BY <1>1, SMT DEF Saves, Cancels, Decides
<1>. QED
  BY <1>2, AsideProper, SMT DEF With, Columns

LEMMA AttachProofProper ==
  ASSUME NEW p, NEW a, NEW c \in proofAfterwards(p, a)
  PROVE  Proper(p, c, NoCode)
<1>1. PICK collected : p.status = "DELIVERED" /\ c = Saves(p, a, "DELIVERED",
                                                           proofColumns(collected), NoEntries)
  BY DEF proofAfterwards, MayAttachProof
<1>2. c.after = With(p, proofColumns(collected))
  BY <1>1, SMT DEF Saves, Cancels, Decides
<1>. QED
  BY <1>1, <1>2, AsideProper, SMT DEF With, Columns, proofColumns

LEMMA ReissueProper ==
  ASSUME NEW p, NEW a, NEW c \in reissueDeliveryCode(p, a)
  PROVE  Proper(p, c, NoCode)
<1> DEFINE s(code) == [hash |-> code, tries |-> 0]
<1>1. PICK code : c = Updates(p, a, s(code))
  BY DEF reissueDeliveryCode
<1>2. c.after = With(p, s(code))
  <2> HIDE DEF s
  <2>. QED
    BY <1>1, SMT DEF Updates, Decides
<1>. QED
  BY <1>2, AsideProper, SMT DEF With, Columns

LEMMA WrongCodeProper ==
  ASSUME NEW p, NEW a, NEW code, NEW c \in wrongCode(p, a, code)
  PROVE  Proper(p, c, NoCode)
<1>1. c.after = With(p, [tries |-> p.tries + 1])
  BY SMT DEF wrongCode, Updates, Decides
<1>. QED
  BY <1>1, AsideProper, SMT DEF With, Columns

(* A re-pricing: a paid parcel only accepts the fee it has. *)
LEMMA UpdateParcelProper ==
  ASSUME NEW p, NEW a, NEW c \in updateParcel(p, a)
  PROVE  Proper(p, c, NoCode)
<1>1. CASE c = Saves(p, a, p.status, [status |-> p.status], NoEntries)
  <2>1. c.after = With(p, [status |-> p.status])
    BY <1>1, SMT DEF Saves, Cancels, Decides
  <2>. QED
    BY <2>1, AsideProper, SMT DEF With, Columns
<1> DEFINE s(q) ==
      [cod |-> q.cod, fee |-> q.fee, codFee |-> q.codFee, back |-> q.back,
       payment |-> IF p.payment = "PAID" THEN "PAID" ELSE paymentStatusFor(q)]
<1>2. ASSUME NEW q \in Quotes, p.payment = "PAID" => q.fee = p.fee,
             c = Saves(p, a, p.status, s(q), repricingEntries(q.fee, p.fee))
      PROVE  Proper(p, c, NoCode)
  <2>1. c.after = With(p, s(q))
    <3> HIDE DEF s
    <3>. QED
      BY <1>2, SMT DEF Saves, Decides
  <2>2. /\ c.after.status = p.status
        /\ c.after.fee = q.fee
        /\ p.payment = "PAID" => c.after.payment = "PAID"
    BY <2>1, SMT DEF With, Columns
  <2>. QED
    BY <1>2, <2>2 DEF Proper, MovesAlong, KeepsPaidFee, ClosesByCode
<1>. QED
  BY <1>1, <1>2 DEF updateParcel, MayReprice

-----------------------------------------------------------------------------

(* The three promises, about one step. *)
StepMoves ==
  parcel'.status # parcel.status =>
    \/ TransitionAllowed(parcel, parcel'.status)
    \/ parcel.status = "UNBOOKED" /\ parcel'.status = "PENDING"

StepKeepsFee ==
  parcel.payment = "PAID" => parcel'.payment = "PAID" /\ parcel'.fee = parcel.fee

StepClosesWithCode ==
  /\ RequireOtp
  /\ parcel.status # "DELIVERED"
  /\ parcel'.status = "DELIVERED"
  /\ logged'.by \in Couriers
  => CodeUsable(parcel)

Promises == StepMoves /\ StepKeepsFee /\ StepClosesWithCode

LEMMA CommitPromises ==
  ASSUME NEW c, NEW code, Proper(parcel, c, code), Commit(c),
         code # NoCode => CodeUsable(parcel)
  PROVE  Promises
<1>1. parcel' = c.after /\ (c.via = "save" => logged'.by = c.by)
  BY DEF Commit
<1>2. StepMoves /\ StepKeepsFee
  BY <1>1 DEF Proper, MovesAlong, KeepsPaidFee, StepMoves, StepKeepsFee
<1>3. StepClosesWithCode
  BY <1>1 DEF Proper, MovesAlong, ClosesByCode, StepClosesWithCode
<1>. QED
  BY <1>2, <1>3 DEF Promises

LEMMA CommitPromisesPlain ==
  ASSUME NEW c, Proper(parcel, c, NoCode), Commit(c)
  PROVE  Promises
BY CommitPromises, Zenon

LEMMA HandOverPromises ==
  ASSUME NEW a \in Actors, NEW code \in Codes \cup {NoCode}, HandOver(a, code)
  PROVE  Promises
<1>1. PICK c \in proofOfHandover(parcel, a, code) :
        (code # NoCode => CodeAccepted(parcel, code)) /\ Commit(c)
  BY DEF HandOver
<1>2. Proper(parcel, c, code)
  BY <1>1, HandOverProper
<1>. QED
  BY <1>1, <1>2, CommitPromises DEF CodeAccepted

LEMMA ServePromises ==
  ASSUME IInv, NEW a \in Actors, Serve(a)
  PROVE  Promises
<1>1. CASE Create(a)
  <2>1. Exists(parcel) \/ parcel.payment = "UNPAID"
    BY SMT DEF IInv, Unbooked, Exists, NoParcel
  <2>. QED
    BY <1>1, <2>1, CreateProper, CommitPromisesPlain, Zenon DEF Create
<1>2. CASE UpdateStatusAlong(a)
  BY <1>2, AlongProper, CommitPromisesPlain, Zenon DEF UpdateStatusAlong
<1>3. CASE UpdateStatusOut(a)
  BY <1>3, OutProper, CommitPromisesPlain, Zenon DEF UpdateStatusOut
<1>4. CASE UpdateStatusDelivered(a)
  BY <1>4, DeliveredProper, CommitPromisesPlain, Zenon DEF UpdateStatusDelivered
<1>5. CASE UpdateStatusReturned(a)
  BY <1>5, ReturnedProper, CommitPromisesPlain, Zenon DEF UpdateStatusReturned
<1>6. CASE UpdateStatusCancelled(a) \/ CancelParcel(a)
  BY <1>6, CancelsProper, CommitPromisesPlain, Zenon DEF UpdateStatusCancelled, CancelParcel
<1>7. CASE RecordFailedAttempt(a)
  BY <1>7, FailedAttemptProper, CommitPromisesPlain, Zenon DEF RecordFailedAttempt
<1>8. CASE RescheduleDelivery(a)
  BY <1>8, RescheduleProper, CommitPromisesPlain, Zenon DEF RescheduleDelivery
<1>9. CASE UpdateParcel(a)
  BY <1>9, UpdateParcelProper, CommitPromisesPlain, Zenon DEF UpdateParcel
<1>10. CASE ReissueDeliveryCode(a)
  BY <1>10, ReissueProper, CommitPromisesPlain, Zenon DEF ReissueDeliveryCode
<1>11. CASE AssignDeliveryPersonnel(a) \/ UnassignDeliveryPersonnel(a)
  BY <1>11, AssignProper, CommitPromisesPlain, Zenon
    DEF AssignDeliveryPersonnel, UnassignDeliveryPersonnel
<1>12. CASE ConfirmDelivery(a)
  BY <1>12, ConfirmProper, CommitPromisesPlain, Zenon DEF ConfirmDelivery
<1>13. CASE SetBlocked(a)
  BY <1>13, SetBlockedProper, CommitPromisesPlain, Zenon DEF SetBlocked
<1>14. CASE AttachProof(a)
  BY <1>14, AttachProofProper, CommitPromisesPlain, Zenon DEF AttachProof
<1>15. CASE \E code \in Codes \cup {NoCode} : HandOver(a, code)
  BY <1>15, HandOverPromises, Zenon
<1>16. CASE \E code \in Codes : CountWrongCode(a, code)
  BY <1>16, WrongCodeProper, CommitPromisesPlain, Zenon DEF CountWrongCode
<1>. QED
  BY <1>1, <1>2, <1>3, <1>4, <1>5, <1>6, <1>7, <1>8, <1>9, <1>10, <1>11, <1>12, <1>13, <1>14,
    <1>15, <1>16, Zenon DEF Serve

LEMMA NextPromises ==
  ASSUME IInv, Next
  PROVE  Promises
<1>1. CASE MarkFeePaid
  BY <1>1, SMT DEF MarkFeePaid, Promises, StepMoves, StepKeepsFee, StepClosesWithCode, IInv,
    TypeOK, Parcel
<1>. QED
  BY <1>1, ServePromises, Zenon DEF Next

LEMMA KeepsPromises == Spec => [][Promises]_vars
BY NextPromises, Invariance, PTL DEF Spec

(* Served one at a time, no request moves a parcel outside the table of    *)
(* transitions, whoever asks and whatever happened before.                 *)
THEOREM MovesFollow == Spec => MovesAreLegal
<1>1. Promises => StepMoves
  BY DEF Promises
<1>. QED
  BY <1>1, KeepsPromises, PTL DEF MovesAreLegal, StepMoves

(* A fee paid online never becomes unpaid again and never changes, for any *)
(* edit the quotes allow.                                                  *)
THEOREM PaidFeesAreFrozen == Spec => PaidFeeIsFrozen
<1>1. Promises => StepKeepsFee
  BY DEF Promises
<1>. QED
  BY <1>1, KeepsPromises, PTL DEF PaidFeeIsFrozen, StepKeepsFee

(* With REQUIRE_DELIVERY_OTP no route lets a courier close a parcel whose  *)
(* code is spent or gone, for any number of tries.                         *)
THEOREM CouriersNeedCodes == Spec => CourierClosesWithCode
<1>1. Promises => StepClosesWithCode
  BY DEF Promises
<1>. QED
  BY <1>1, KeepsPromises, PTL DEF CourierClosesWithCode, StepClosesWithCode

-----------------------------------------------------------------------------
(* What is closed.  Nothing leaves the three closed statuses, the handlers *)
(* that post entries ask for a transition or an open parcel, and the ones  *)
(* that do not are an administrator's and the proof attached afterwards.   *)

LEMMA ClosedGoNowhere ==
  ASSUME NEW p, p.status \in CLOSED_STATUSES, NEW to
  PROVE  ~TransitionAllowed(p, to)
BY SMT DEF CLOSED_STATUSES, TransitionAllowed, PARCEL_STATUS_TRANSITIONS

LEMMA ClosedRefuses ==
  ASSUME NEW p, p.status \in CLOSED_STATUSES, NEW a, NEW code
  PROVE  /\ create(p, a) = {} /\ updateStatusAlong(p, a) = {} /\ updateStatusOut(p, a) = {}
         /\ updateStatusDelivered(p, a) = {} /\ updateStatusReturned(p, a) = {}
         /\ updateStatusCancelled(p, a) = {} /\ recordFailedAttempt(p, a) = {}
         /\ rescheduleDelivery(p, a) = {} /\ updateParcel(p, a) = {}
         /\ reissueDeliveryCode(p, a) = {} /\ cancelParcel(p, a) = {}
         /\ confirmDelivery(p, a) = {} /\ proofOfHandover(p, a, code) = {}
<1>1. \A to : ~TransitionAllowed(p, to)
  BY ClosedGoNowhere
<1>2. p.status \notin {"UNBOOKED", "PENDING", "OUT_FOR_DELIVERY", "FAILED_ATTEMPT"}
  BY DEF CLOSED_STATUSES
<1>3. create(p, a) = {} /\ reissueDeliveryCode(p, a) = {} /\ rescheduleDelivery(p, a) = {}
  BY <1>2, Zenon DEF create, Exists, reissueDeliveryCode, rescheduleDelivery
<1>4. \A q : ~MayEdit(p, a) /\ ~MayReprice(p, a, q)
  BY <1>2, Zenon DEF MayEdit, MayReprice
<1>5. updateParcel(p, a) = {}
  BY <1>4, Zenon DEF updateParcel
<1>6. \A to : ~MayUpdateStatus(p, a, to)
  BY <1>1, Zenon DEF MayUpdateStatus
<1>7. /\ updateStatusAlong(p, a) = {} /\ updateStatusOut(p, a) = {}
      /\ updateStatusDelivered(p, a) = {} /\ updateStatusReturned(p, a) = {}
      /\ updateStatusCancelled(p, a) = {}
  BY <1>6, Zenon DEF updateStatusAlong, updateStatusOut, updateStatusDelivered,
     updateStatusReturned, updateStatusCancelled
<1>8. /\ recordFailedAttempt(p, a) = {} /\ cancelParcel(p, a) = {}
      /\ confirmDelivery(p, a) = {} /\ proofOfHandover(p, a, code) = {}
  BY <1>1, Zenon DEF recordFailedAttempt, cancelParcel, confirmDelivery, proofOfHandover
<1>. QED
  BY <1>3, <1>5, <1>7, <1>8

BooksStay == parcel.status \in CLOSED_STATUSES => books' = books

LEMMA NextBooksStay ==
  ASSUME IInv, [Next]_vars
  PROVE  BooksStay
<1>. SUFFICES ASSUME parcel.status \in CLOSED_STATUSES PROVE books' = books
  BY DEF BooksStay
<1>1. books \in Entries
  BY DEF IInv, TypeOK
<1>2. ASSUME NEW a \in Actors, Serve(a) PROVE books' = books
  <2>1. CASE SetBlocked(a) \/ AttachProof(a) \/ AssignDeliveryPersonnel(a)
               \/ UnassignDeliveryPersonnel(a)
    <3>1. PICK log, s : Commit(Saves(parcel, a, log, s, NoEntries))
      BY <2>1, Zenon DEF SetBlocked, setBlocked, AttachProof, proofAfterwards,
         AssignDeliveryPersonnel, assignDeliveryPersonnel, UnassignDeliveryPersonnel,
         unassignDeliveryPersonnel
    <3>. QED
      BY <1>1, <3>1, CommitMoves
  <2>2. ~Create(a) /\ ~UpdateStatusAlong(a) /\ ~UpdateStatusOut(a) /\ ~UpdateStatusDelivered(a)
        /\ ~UpdateStatusReturned(a) /\ ~UpdateStatusCancelled(a) /\ ~RecordFailedAttempt(a)
        /\ ~RescheduleDelivery(a) /\ ~UpdateParcel(a) /\ ~ReissueDeliveryCode(a)
        /\ ~CancelParcel(a) /\ ~ConfirmDelivery(a)
    BY ClosedRefuses, Zenon DEF Create, UpdateStatusAlong, UpdateStatusOut, UpdateStatusDelivered,
       UpdateStatusReturned, UpdateStatusCancelled, RecordFailedAttempt, RescheduleDelivery,
       UpdateParcel, ReissueDeliveryCode, CancelParcel, ConfirmDelivery
  <2>3. \A code : ~HandOver(a, code) /\ ~CountWrongCode(a, code)
    BY ClosedRefuses, Zenon DEF HandOver, CountWrongCode
  <2>. QED
    BY <1>2, <2>1, <2>2, <2>3, Zenon DEF Serve
<1>3. CASE MarkFeePaid
  BY <1>3 DEF MarkFeePaid
<1>4. CASE UNCHANGED vars
  BY <1>4 DEF vars
<1>. QED
  BY <1>2, <1>3, <1>4, Zenon DEF Next

(* Served one at a time, no request posts anything for a parcel that was   *)
(* delivered, cancelled or brought back: its cash, its fees and what was   *)
(* given back stay as they were, whoever asks.                             *)
THEOREM ClosedBooksStay ==
  Spec => [][parcel.status \in CLOSED_STATUSES => books' = books]_vars
<1>1. IInv /\ [Next]_vars => BooksStay
  BY NextBooksStay
<1>. QED
  BY <1>1, Invariance, PTL DEF Spec, BooksStay

=============================================================================
