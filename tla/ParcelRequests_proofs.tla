----------------------- MODULE ParcelRequests_proofs -----------------------
(***************************************************************************)
(* What holds of ParcelRequests for any number of requests in flight, and  *)
(* that with no overlap it implements ParcelFlow.                          *)
(***************************************************************************)
EXTENDS ParcelRequests, ParcelFlow_proofs

(* Everything a request other than a booking may be about to do. *)
Decided(p, a) ==
  updateStatusAlong(p, a) \cup updateStatusOut(p, a) \cup updateStatusDelivered(p, a)
  \cup updateStatusReturned(p, a) \cup updateStatusCancelled(p, a)
  \cup recordFailedAttempt(p, a) \cup rescheduleDelivery(p, a) \cup updateParcel(p, a)
  \cup reissueDeliveryCode(p, a) \cup assignDeliveryPersonnel(p, a)
  \cup unassignDeliveryPersonnel(p, a) \cup cancelParcel(p, a) \cup confirmDelivery(p, a)
  \cup setBlocked(p, a) \cup proofAfterwards(p, a)
  \cup UNION {proofOfHandover(p, a, code) : code \in Codes \cup {NoCode}}

Paired(e) == e["COD_COLLECTED"] = e["COD_CREDIT"]

Cancelling(c) == c.after.status = "CANCELLED" /\ "status" \in c.assigned

(* The shape of every change decided for actor a from the row p: cash in   *)
(* pairs, direct updates of the code columns only, cancellations with      *)
(* their refund, an entity that differs from p only where assigned, and a  *)
(* timeline row for the status of that entity.                             *)
Shaped(c, p, a) ==
  /\ Paired(c.entries)
  /\ c.via = "update" => c.assigned \subseteq Unselected /\ ~c.refund
  /\ Cancelling(c) => c.refund
  /\ c.by = a
  /\ c.log = c.after.status
  /\ \A col \in Columns \ c.assigned : c.after[col] = p[col]

(* The status of the row once s is assigned. *)
StatusAfter(p, s) == IF "status" \in DOMAIN s THEN s.status ELSE p.status

LEMMA DecidesShape ==
  ASSUME NEW p, NEW a, NEW s, NEW e, NEW code, Paired(e),
         "status" \in DOMAIN s => s.status # "CANCELLED", NEW log, log = StatusAfter(p, s)
  PROVE  Shaped(Decides(p, a, log, s, e, FALSE, code, "save"), p, a)
BY SMT DEF Shaped, Decides, With, Columns, Cancelling, StatusAfter

LEMMA SavesShape ==
  ASSUME NEW p, NEW a, NEW s, NEW e, Paired(e),
         "status" \in DOMAIN s => s.status # "CANCELLED", NEW log, log = StatusAfter(p, s)
  PROVE  Shaped(Saves(p, a, log, s, e), p, a)
BY DecidesShape, Zenon DEF Saves

LEMMA NoEntriesPaired == Paired(NoEntries)
BY SMT DEF Paired, NoEntries, EntryTypes

LEMMA CancelsShape ==
  ASSUME NEW p, NEW a, NEW s, NEW log, log = StatusAfter(p, s)
  PROVE  Shaped(Cancels(p, a, log, s), p, a)
BY NoEntriesPaired, SMT DEF Shaped, Cancels, Decides, With, Columns, StatusAfter

LEMMA UpdatesShape ==
  ASSUME NEW p, NEW a, NEW s, DOMAIN s \subseteq Unselected
  PROVE  Shaped(Updates(p, a, s), p, a)
BY NoEntriesPaired, SMT DEF Shaped, Updates, Decides, Cancelling, Unselected, With, Columns

LEMMA EntriesPaired ==
  ASSUME NEW p
  PROVE  /\ Paired(deliveryEntries(p))
         /\ \A x, y : Paired(returnEntries(x, y)) /\ Paired(repricingEntries(x, y))
BY SMT DEF Paired, deliveryEntries, returnEntries, repricingEntries, NoEntries, EntryTypes

-----------------------------------------------------------------------------
(* Handler by handler *)

LEMMA AlongShape ==
  ASSUME NEW p \in Parcel, NEW a \in Actors, NEW c \in updateStatusAlong(p, a)
  PROVE  Shaped(c, p, a)
<1>1. PICK to \in {"PICKED_UP", "IN_TRANSIT", "RETURNING"} :
        c = Saves(p, a, to, [status |-> to, hash |-> NoCode], NoEntries)
  BY DEF updateStatusAlong
<1>. QED
  BY <1>1, SavesShape, NoEntriesPaired, SMT DEF StatusAfter

LEMMA OutShape ==
  ASSUME NEW p \in Parcel, NEW a \in Actors, NEW c \in updateStatusOut(p, a)
  PROVE  Shaped(c, p, a)
<1>1. PICK code \in Codes :
        c = Saves(p, a, "OUT_FOR_DELIVERY",
                  [status |-> "OUT_FOR_DELIVERY", hash |-> code, tries |-> 0,
                   rescheduledFor |-> "null"], NoEntries)
  BY DEF updateStatusOut
<1>. QED
  BY <1>1, SavesShape, NoEntriesPaired, SMT DEF StatusAfter

LEMMA DeliveredShape ==
  ASSUME NEW p \in Parcel, NEW a \in Actors, NEW c \in updateStatusDelivered(p, a)
  PROVE  Shaped(c, p, a)
<1>1. c = Saves(p, a, "DELIVERED", markDelivered, deliveryEntries(p))
  BY DEF updateStatusDelivered
<1>. QED
  BY <1>1, SavesShape, EntriesPaired, SMT DEF markDelivered, StatusAfter

LEMMA ReturnedShape ==
  ASSUME NEW p \in Parcel, NEW a \in Actors, NEW c \in updateStatusReturned(p, a)
  PROVE  Shaped(c, p, a)
<1>1. c = Saves(p, a, "RETURNED_TO_SENDER",
              [status |-> "RETURNED_TO_SENDER", returnFee |-> p.back, hash |-> NoCode],
              returnEntries(p.codFee, p.back))
  BY DEF updateStatusReturned
<1>. QED
  BY <1>1, SavesShape, EntriesPaired, SMT DEF StatusAfter

LEMMA CancelledShape ==
  ASSUME NEW p \in Parcel, NEW a \in Actors, NEW c \in updateStatusCancelled(p, a)
  PROVE  Shaped(c, p, a)
<1>1. c = Cancels(p, a, "CANCELLED", [status |-> "CANCELLED", hash |-> NoCode])
  BY DEF updateStatusCancelled
<1>. QED
  BY <1>1, CancelsShape, SMT DEF StatusAfter

LEMMA FailedAttemptShape ==
  ASSUME NEW p \in Parcel, NEW a \in Actors, NEW c \in recordFailedAttempt(p, a)
  PROVE  Shaped(c, p, a)
<1>1. PICK day \in Dates :
        c = Saves(p, a, "FAILED_ATTEMPT",
                  [status |-> "FAILED_ATTEMPT", attempts |-> p.attempts + 1,
                   rescheduledFor |-> day, hash |-> NoCode], NoEntries)
  BY DEF recordFailedAttempt
<1>. QED
  BY <1>1, SavesShape, NoEntriesPaired, SMT DEF StatusAfter

LEMMA RescheduleShape ==
  ASSUME NEW p \in Parcel, NEW a \in Actors, NEW c \in rescheduleDelivery(p, a)
  PROVE  Shaped(c, p, a)
<1>1. c = Saves(p, a, p.status, [rescheduledFor |-> "set"], NoEntries)
  BY DEF rescheduleDelivery
<1>. QED
  BY <1>1, SavesShape, NoEntriesPaired, SMT DEF StatusAfter

LEMMA ReissueShape ==
  ASSUME NEW p \in Parcel, NEW a \in Actors, NEW c \in reissueDeliveryCode(p, a)
  PROVE  Shaped(c, p, a)
<1>1. PICK code \in Codes : c = Updates(p, a, [hash |-> code, tries |-> 0])
  BY DEF reissueDeliveryCode
<1>. QED
  BY <1>1, UpdatesShape, SMT DEF Unselected

LEMMA AssignShape ==
  ASSUME NEW p \in Parcel, NEW a \in Actors, NEW c \in assignDeliveryPersonnel(p, a)
  PROVE  Shaped(c, p, a)
<1>1. PICK d \in Couriers : c = Saves(p, a, p.status, [courier |-> d], NoEntries)
  BY DEF assignDeliveryPersonnel
<1>. QED
  BY <1>1, SavesShape, NoEntriesPaired, SMT DEF StatusAfter

LEMMA UnassignShape ==
  ASSUME NEW p \in Parcel, NEW a \in Actors, NEW c \in unassignDeliveryPersonnel(p, a)
  PROVE  Shaped(c, p, a)
<1>1. c = Saves(p, a, p.status, [courier |-> NoCourier], NoEntries)
  BY DEF unassignDeliveryPersonnel
<1>. QED
  BY <1>1, SavesShape, NoEntriesPaired, SMT DEF StatusAfter

LEMMA CancelShape ==
  ASSUME NEW p \in Parcel, NEW a \in Actors, NEW c \in cancelParcel(p, a)
  PROVE  Shaped(c, p, a)
<1>1. c = Cancels(p, a, "CANCELLED", [status |-> "CANCELLED"])
  BY DEF cancelParcel
<1>. QED
  BY <1>1, CancelsShape, SMT DEF StatusAfter

LEMMA ConfirmShape ==
  ASSUME NEW p \in Parcel, NEW a \in Actors, NEW c \in confirmDelivery(p, a)
  PROVE  Shaped(c, p, a)
<1>1. c = Saves(p, a, "DELIVERED", markDelivered, deliveryEntries(p))
  BY DEF confirmDelivery
<1>. QED
  BY <1>1, SavesShape, EntriesPaired, SMT DEF markDelivered, StatusAfter

LEMMA SetBlockedShape ==
  ASSUME NEW p \in Parcel, NEW a \in Actors, NEW c \in setBlocked(p, a)
  PROVE  Shaped(c, p, a)
<1>1. PICK b \in BOOLEAN : c = Saves(p, a, p.status, [blocked |-> b], NoEntries)
  BY DEF setBlocked
<1>. QED
  BY <1>1, SavesShape, NoEntriesPaired, SMT DEF StatusAfter

LEMMA AttachProofShape ==
  ASSUME NEW p \in Parcel, NEW a \in Actors, NEW c \in proofAfterwards(p, a)
  PROVE  Shaped(c, p, a)
<1>1. PICK collected \in BOOLEAN :
        c = Saves(p, a, "DELIVERED", proofColumns(collected), NoEntries)
  BY DEF proofAfterwards
<1>. QED
  BY <1>1, SavesShape, NoEntriesPaired, SMT DEF proofColumns, StatusAfter

LEMMA HandOverShape ==
  ASSUME NEW p \in Parcel, NEW a \in Actors, NEW code \in Codes \cup {NoCode},
         NEW c \in proofOfHandover(p, a, code)
  PROVE  Shaped(c, p, a) /\ c.typed = code /\ c.via = "save"
<1>1. PICK collected \in BOOLEAN :
        c = Decides(p, a, "DELIVERED", proofColumns(collected), deliveryEntries(p), FALSE,
                    code, "save")
  BY DEF proofOfHandover
<1>2. Shaped(c, p, a)
  <2>1. /\ proofColumns(collected).status # "CANCELLED"
        /\ "DELIVERED" = StatusAfter(p, proofColumns(collected))
    BY SMT DEF proofColumns, StatusAfter
  <2>. QED
    BY <1>1, <2>1, DecidesShape, EntriesPaired, Zenon
<1>. QED
  BY <1>1, <1>2, SMT DEF Decides

LEMMA WrongCodeShape ==
  ASSUME NEW p \in Parcel, NEW a \in Actors, NEW code, NEW c \in wrongCode(p, a, code)
  PROVE  Shaped(c, p, a) /\ c.via = "update"
<1>1. c = Updates(p, a, [tries |-> p.tries + 1])
  BY DEF wrongCode
<1>2. Shaped(c, p, a)
  BY <1>1, UpdatesShape, SMT DEF Unselected
<1>. QED
  BY <1>1, <1>2, SMT DEF Updates, Decides

LEMMA UpdateParcelShape ==
  ASSUME NEW p \in Parcel, NEW a \in Actors, NEW c \in updateParcel(p, a)
  PROVE  Shaped(c, p, a)
<1>1. CASE c = Saves(p, a, p.status, [status |-> p.status], NoEntries) /\ MayEdit(p, a)
  <2> DEFINE t == [status |-> p.status]
  <2>1. t.status # "CANCELLED" /\ p.status = StatusAfter(p, t)
    BY <1>1, SMT DEF MayEdit, StatusAfter
  <2> HIDE DEF t
  <2>2. c = Saves(p, a, p.status, t, NoEntries)
    BY <1>1 DEF t
  <2>. QED
    BY <2>1, <2>2, SavesShape, NoEntriesPaired, Zenon
<1> DEFINE s(q) ==
      [cod |-> q.cod, fee |-> q.fee, codFee |-> q.codFee, back |-> q.back,
       payment |-> IF p.payment = "PAID" THEN "PAID" ELSE paymentStatusFor(q)]
<1>2. ASSUME NEW q \in Quotes,
             c = Saves(p, a, p.status, s(q), repricingEntries(q.fee, p.fee))
      PROVE  Shaped(c, p, a)
  <2>1. "status" \notin DOMAIN s(q) /\ p.status = StatusAfter(p, s(q))
    BY SMT DEF StatusAfter
  <2> HIDE DEF s
  <2>. QED
    BY <1>2, <2>1, SavesShape, EntriesPaired, Zenon
<1>. QED
  BY <1>1, <1>2 DEF updateParcel

LEMMA DecidedShape ==
  ASSUME NEW p \in Parcel, NEW a \in Actors, NEW c \in Decided(p, a)
  PROVE  Shaped(c, p, a)
BY AlongShape, OutShape, DeliveredShape, ReturnedShape, CancelledShape, FailedAttemptShape,
  RescheduleShape, UpdateParcelShape, ReissueShape, AssignShape, UnassignShape, CancelShape,
  ConfirmShape, SetBlockedShape, AttachProofShape, HandOverShape, Zenon DEF Decided

LEMMA DecidedChange ==
  ASSUME NEW p \in Parcel, NEW a \in Actors, NEW c \in Decided(p, a)
  PROVE  c \in Change
BY AlongChange, OutChange, DeliveredChange, ReturnedChange, CancelledChange,
  FailedAttemptChange, RescheduleChange, UpdateParcelChange, ReissueChange, AssignChange,
  UnassignChange, CancelChange, ConfirmChange, SetBlockedChange, AttachProofChange,
  HandOverChange, SMT DEF Decided

(* Every arrival holds a change decided from the row as it is. *)
LEMMA ReceiveHolds ==
  ASSUME NEW r, NEW a, Receive(r, a)
  PROVE  \E c \in Decided(parcel, a) : Hold(r, c)
<1>1. CASE ReceiveStatusAlong(r, a)
  BY <1>1, Zenon DEF ReceiveStatusAlong, Decided
<1>2. CASE ReceiveStatusOut(r, a)
  BY <1>2, Zenon DEF ReceiveStatusOut, Decided
<1>3. CASE ReceiveStatusDelivered(r, a)
  BY <1>3, Zenon DEF ReceiveStatusDelivered, Decided
<1>4. CASE ReceiveStatusReturned(r, a)
  BY <1>4, Zenon DEF ReceiveStatusReturned, Decided
<1>5. CASE ReceiveStatusCancelled(r, a)
  BY <1>5, Zenon DEF ReceiveStatusCancelled, Decided
<1>6. CASE ReceiveFailedAttempt(r, a)
  BY <1>6, Zenon DEF ReceiveFailedAttempt, Decided
<1>7. CASE ReceiveReschedule(r, a)
  BY <1>7, Zenon DEF ReceiveReschedule, Decided
<1>8. CASE ReceiveUpdateParcel(r, a)
  BY <1>8, Zenon DEF ReceiveUpdateParcel, Decided
<1>9. CASE ReceiveReissue(r, a)
  BY <1>9, Zenon DEF ReceiveReissue, Decided
<1>10. CASE ReceiveAssign(r, a)
  BY <1>10, Zenon DEF ReceiveAssign, Decided
<1>11. CASE ReceiveUnassign(r, a)
  BY <1>11, Zenon DEF ReceiveUnassign, Decided
<1>12. CASE ReceiveCancel(r, a)
  BY <1>12, Zenon DEF ReceiveCancel, Decided
<1>13. CASE ReceiveConfirm(r, a)
  BY <1>13, Zenon DEF ReceiveConfirm, Decided
<1>14. CASE ReceiveSetBlocked(r, a)
  BY <1>14, Zenon DEF ReceiveSetBlocked, Decided
<1>15. CASE ReceiveAttachProof(r, a)
  BY <1>15, Zenon DEF ReceiveAttachProof, Decided
<1>16. CASE ReceiveHandOver(r, a)
  BY <1>16, Zenon DEF ReceiveHandOver, Decided
<1>. QED
  BY <1>1, <1>2, <1>3, <1>4, <1>5, <1>6, <1>7, <1>8, <1>9, <1>10, <1>11, <1>12, <1>13, <1>14,
    <1>15, <1>16 DEF Receive

-----------------------------------------------------------------------------
(* The invariant, for any number of requests *)

RowsOK == parcel \in Parcel /\ books \in Entries /\ logged \in LogRow

(* What a request in flight carries keeps the shape it was decided with.   *)
Carries(c, st, columns) ==
  /\ Paired(c.entries)
  /\ c.via = "update" => st = "write" /\ columns \subseteq Unselected /\ ~c.refund
  /\ Cancelling(c) => c.refund
  /\ c.log = c.after.status
  /\ st = "verify" => c.typed \in Codes

HeldOK == \A r \in Requests : stage[r] # "idle" => Carries(held[r], stage[r], dirty[r])

RInv == RowsOK /\ SlotsOK /\ HeldOK /\ CashIsPaired

(* Slot r goes to stage st, holding h and about to set the columns cols.   *)
SlotTo(r, st, h, cols) ==
  /\ st \in Stages
  /\ h \in Change \cup {NoChange}
  /\ cols \in SUBSET Columns
  /\ stage' = [stage EXCEPT ![r] = st]
  /\ held' = [held EXCEPT ![r] = h]
  /\ dirty' = [dirty EXCEPT ![r] = cols]
  /\ overlaps' \in 0..MaxOverlaps
  /\ st = "idle" <=> h = NoChange
  /\ st \notin {"write", "commit"} => cols = {}
  /\ st # "idle" => Carries(h, st, cols)

(* A step of one slot keeps the invariant of the others. *)
LEMMA SlotStep ==
  ASSUME SlotsOK, HeldOK, NEW r \in Requests, NEW st, NEW h, NEW cols,
         SlotTo(r, st, h, cols)
  PROVE  SlotsOK' /\ HeldOK'
<1>1. SlotsOK'
  BY SMT DEF SlotsOK, SlotTo
<1>2. HeldOK'
  BY Zenon DEF SlotsOK, HeldOK, SlotTo
<1>. QED
  BY <1>1, <1>2

LEMMA ArrivesType ==
  ASSUME overlaps \in 0..MaxOverlaps, Arrives
  PROVE  overlaps' \in 0..MaxOverlaps
BY MaxOverlapsAssumption, SMT DEF Arrives

LEMMA SameRows ==
  ASSUME RInv, UNCHANGED tables
  PROVE  RowsOK' /\ CashIsPaired'
BY SMT DEF RInv, tables, vars, RowsOK, CashIsPaired

LEMMA ReceiveKeeps ==
  ASSUME RInv, NEW r \in Requests, NEW a \in Actors, Receive(r, a)
  PROVE  RInv'
<1>1. PICK c \in Decided(parcel, a) : Hold(r, c)
  BY ReceiveHolds
<1>2. c \in Change /\ Shaped(c, parcel, a)
  BY <1>1, DecidedChange, DecidedShape DEF RInv, RowsOK
<1>3. RowsOK' /\ CashIsPaired'
  BY <1>1, SameRows DEF Hold
<1>4. /\ NextStage(c) \in Stages \ {"idle"}
      /\ DirectColumns(c) \in SUBSET Columns
      /\ NextStage(c) # "write" => DirectColumns(c) = {}
      /\ c # NoChange
  BY <1>2, NoChangeAssumption, SMT DEF NextStage, Stages, DirectColumns, Change
<1>5. Carries(c, NextStage(c), DirectColumns(c))
  BY <1>2, SMT DEF Carries, Shaped, NextStage, DirectColumns, Change
<1>6. overlaps' \in 0..MaxOverlaps
  BY <1>1, ArrivesType DEF Hold, RInv, SlotsOK
<1>7. SlotTo(r, NextStage(c), c, DirectColumns(c))
  BY <1>1, <1>2, <1>4, <1>5, <1>6, SMT DEF Hold, SlotTo
<1>8. SlotsOK' /\ HeldOK'
  BY <1>7, SlotStep, Zenon DEF RInv
<1>. QED
  BY <1>3, <1>8 DEF RInv

(* What a slot in flight holds. *)
LEMMA HeldFacts ==
  ASSUME RInv, NEW r \in Requests, stage[r] # "idle"
  PROVE  /\ held[r] \in Change
         /\ held[r] # NoChange
         /\ Carries(held[r], stage[r], dirty[r])
         /\ dirty[r] \in SUBSET Columns
         /\ overlaps \in 0..MaxOverlaps
BY SMT DEF RInv, SlotsOK, HeldOK

LEMMA AcceptCodeKeeps ==
  ASSUME RInv, NEW r \in Requests, AcceptCode(r)
  PROVE  RInv'
<1>1. stage[r] = "verify"
  BY DEF AcceptCode
<1>2. RowsOK' /\ CashIsPaired'
  BY SameRows DEF AcceptCode
<1>3. Carries(held[r], "diff", {})
  BY <1>1, HeldFacts, SMT DEF Carries
<1>4. /\ dirty[r] = {}
      /\ held' = [held EXCEPT ![r] = held[r]]
      /\ dirty' = [dirty EXCEPT ![r] = {}]
  BY <1>1, SMT DEF AcceptCode, RInv, SlotsOK
<1>h. held[r] \in Change /\ held[r] # NoChange /\ overlaps \in 0..MaxOverlaps
  BY <1>1, HeldFacts, Zenon
<1>o. overlaps' \in 0..MaxOverlaps /\ {} \in SUBSET Columns
  BY <1>h, Zenon DEF AcceptCode
<1>s. "diff" \in Stages /\ "diff" # "idle" /\ stage' = [stage EXCEPT ![r] = "diff"]
  BY SMT DEF AcceptCode, Stages
<1>5. SlotTo(r, "diff", held[r], {})
  BY <1>1, <1>3, <1>4, <1>h, <1>o, <1>s, Zenon DEF SlotTo
<1>6. SlotsOK' /\ HeldOK'
  BY <1>5, SlotStep, Zenon DEF RInv
<1>. QED
  BY <1>2, <1>6 DEF RInv

LEMMA MissCodeKeeps ==
  ASSUME RInv, NEW r \in Requests, MissCode(r)
  PROVE  RInv'
<1>1. stage[r] = "verify"
  BY DEF MissCode
<1>2. PICK w \in wrongCode(parcel, held[r].by, held[r].typed) :
        /\ held' = [held EXCEPT ![r] = w]
        /\ dirty' = [dirty EXCEPT ![r] = w.assigned]
  BY DEF MissCode
<1>3. held[r].by \in Actors /\ held[r].typed \in Codes
  BY <1>1, HeldFacts, SMT DEF Carries, Change
<1>4. w \in Change /\ Shaped(w, parcel, held[r].by) /\ w.via = "update"
  BY <1>2, <1>3, WrongCodeChange, WrongCodeShape DEF RInv, RowsOK
<1>5. RowsOK' /\ CashIsPaired'
  BY SameRows DEF MissCode
<1>6. Carries(w, "write", w.assigned) /\ w.assigned \in SUBSET Columns /\ w # NoChange
  BY <1>4, NoChangeAssumption, SMT DEF Carries, Shaped, Change
<1>h. held[r] \in Change /\ held[r] # NoChange /\ overlaps \in 0..MaxOverlaps
  BY <1>1, HeldFacts, Zenon
<1>o. overlaps' \in 0..MaxOverlaps /\ {} \in SUBSET Columns
  BY <1>h, Zenon DEF MissCode
<1>s. "write" \in Stages /\ "write" # "idle" /\ stage' = [stage EXCEPT ![r] = "write"]
  BY SMT DEF MissCode, Stages
<1>7. SlotTo(r, "write", w, w.assigned)
  BY <1>1, <1>2, <1>4, <1>6, <1>h, <1>o, <1>s, Zenon DEF SlotTo
<1>8. SlotsOK' /\ HeldOK'
  BY <1>7, SlotStep, Zenon DEF RInv
<1>. QED
  BY <1>5, <1>8 DEF RInv

LEMMA ReleaseKeeps ==
  ASSUME RInv, NEW r \in Requests, Release(r)
  PROVE  SlotsOK' /\ HeldOK'
<1>1. SlotTo(r, "idle", NoChange, {})
  BY SMT DEF Release, RInv, SlotsOK, Stages, SlotTo
<1>. QED
  BY <1>1, SlotStep, Zenon DEF RInv

LEMMA RefuseCodeKeeps ==
  ASSUME RInv, NEW r \in Requests, RefuseCode(r)
  PROVE  RInv'
BY SameRows, ReleaseKeeps DEF RefuseCode, RInv

LEMMA DiffKeeps ==
  ASSUME RInv, NEW r \in Requests, Diff(r)
  PROVE  RInv'
<1> DEFINE cols == {c \in Columns \ Unselected : held[r].after[c] # parcel[c]}
                     \cup (held[r].assigned \cap Unselected)
<1>1. stage[r] = "diff" /\ dirty' = [dirty EXCEPT ![r] = cols]
  BY DEF Diff
<1>2. RowsOK' /\ CashIsPaired'
  BY SameRows DEF Diff
<1>3. cols \in SUBSET Columns
  BY SMT DEF Columns, Unselected
<1> HIDE DEF cols
<1>4. Carries(held[r], "write", cols)
  BY <1>1, HeldFacts, SMT DEF Carries
<1>5. held' = [held EXCEPT ![r] = held[r]]
  BY SMT DEF Diff, RInv, SlotsOK
<1>h. held[r] \in Change /\ held[r] # NoChange /\ overlaps \in 0..MaxOverlaps
  BY <1>1, HeldFacts, Zenon
<1>o. overlaps' \in 0..MaxOverlaps /\ {} \in SUBSET Columns
  BY <1>h, Zenon DEF Diff
<1>s. "write" \in Stages /\ "write" # "idle" /\ stage' = [stage EXCEPT ![r] = "write"]
  BY SMT DEF Diff, Stages
<1>6. SlotTo(r, "write", held[r], cols)
  BY <1>1, <1>3, <1>4, <1>5, <1>h, <1>o, <1>s, Zenon DEF SlotTo
<1>7. SlotsOK' /\ HeldOK'
  BY <1>6, SlotStep, Zenon DEF RInv
<1>. QED
  BY <1>2, <1>7 DEF RInv

LEMMA CancellationPaired ==
  ASSUME NEW b
  PROVE  Paired(cancellationEntries(b))
BY SMT DEF Paired, cancellationEntries, NoEntries, EntryTypes

LEMMA ReadFeesKeeps ==
  ASSUME RInv, NEW r \in Requests, ReadFees(r)
  PROVE  RInv'
<1> DEFINE h == [by |-> held[r].by, log |-> held[r].log, after |-> held[r].after,
                 assigned |-> held[r].assigned, entries |-> cancellationEntries(books),
                 refund |-> TRUE,
                 typed |-> held[r].typed, via |-> held[r].via]
<1>1. stage[r] = "write" /\ held[r].refund
  BY DEF ReadFees
<1>2. held' = [held EXCEPT ![r] = h]
  BY SMT DEF ReadFees, RInv, SlotsOK
<1>3. RowsOK' /\ CashIsPaired'
  BY SameRows DEF ReadFees
<1>4. h \in Change
  BY <1>1, HeldFacts, CancellationType, SMT DEF Change, RInv, RowsOK
<1>5. Carries(h, "commit", dirty[r])
  <2>1. held[r].via # "update" /\ held[r].log = held[r].after.status
    BY <1>1, HeldFacts, SMT DEF Carries
  <2>. QED
    BY <2>1, CancellationPaired, SMT DEF Carries, Cancelling
<1>6. h # NoChange
  BY <1>4, NoChangeAssumption
<1>7. stage' = [stage EXCEPT ![r] = "commit"] /\ dirty' = [dirty EXCEPT ![r] = dirty[r]]
  BY <1>1, SMT DEF ReadFees, RInv, SlotsOK
<1> HIDE DEF h
<1>h. dirty[r] \in SUBSET Columns /\ overlaps \in 0..MaxOverlaps
  BY <1>1, HeldFacts, Zenon
<1>o. overlaps' \in 0..MaxOverlaps
  BY <1>h, Zenon DEF ReadFees
<1>s. "commit" \in Stages /\ "commit" # "idle"
  BY DEF Stages
<1>8. SlotTo(r, "commit", h, dirty[r])
  BY <1>1, <1>2, <1>4, <1>5, <1>6, <1>7, <1>h, <1>o, <1>s, Zenon DEF SlotTo
<1>9. SlotsOK' /\ HeldOK'
  BY <1>8, SlotStep, Zenon DEF RInv
<1>. QED
  BY <1>3, <1>9 DEF RInv

LEMMA MergedType ==
  ASSUME NEW p \in Parcel, NEW e \in Parcel, NEW cols \in SUBSET Columns
  PROVE  Merged(p, e, cols) \in Parcel
BY SMT DEF Merged, Parcel, Columns

LEMMA WriteKeeps ==
  ASSUME RInv, NEW r \in Requests, Write(r)
  PROVE  RInv'
<1>1. /\ stage[r] # "idle"
      /\ parcel' = Merged(parcel, held[r].after, dirty[r])
      /\ books' = Posted(books, held[r].entries)
  BY DEF Write
<1>2. held[r] \in Change /\ dirty[r] \in SUBSET Columns /\ Paired(held[r].entries)
  BY <1>1, HeldFacts, SMT DEF Carries
<1>3. parcel' \in Parcel
  BY <1>1, <1>2, MergedType, SMT DEF RInv, RowsOK, Change
<1>4. held[r].entries \in Entries
  BY <1>2, SMT DEF Change
<1>5. books' \in Entries /\ CashIsPaired'
  BY <1>1, <1>2, <1>4, PostedType, SMT DEF CashIsPaired, Paired, EntryTypes, RInv, RowsOK
<1>6. logged' \in LogRow
  BY <1>2, SMT DEF Write, RInv, RowsOK, LogRow, Change, Parcel
<1>7. SlotsOK' /\ HeldOK'
  BY ReleaseKeeps DEF Write
<1>. QED
  BY <1>3, <1>5, <1>6, <1>7 DEF RInv, RowsOK

LEMMA BookKeeps ==
  ASSUME RInv, Book
  PROVE  RInv'
<1>0. PICK a \in Actors : Create(a)
  BY DEF Book
<1>1. PICK c \in create(parcel, a) : Commit(c)
  BY <1>0 DEF Create
<1>2. PICK q \in Quotes :
        c = Saves(parcel, a, "PENDING",
              [status |-> "PENDING", cod |-> q.cod, fee |-> q.fee, codFee |-> q.codFee,
               back |-> q.back, payment |-> paymentStatusFor(q)],
              bookingEntries(q.fee))
  BY <1>1 DEF create
<1>3. c \in Change
  BY <1>1, CreateChange DEF RInv, RowsOK
<1>4. Paired(c.entries) /\ ~c.refund
  <2>1. Paired(bookingEntries(q.fee))
    BY SMT DEF Paired, bookingEntries, NoEntries, EntryTypes
  <2>. QED
    BY <1>2, <2>1, SMT DEF Saves, Decides
<1>5. parcel' = c.after /\ books' = Posted(books, c.entries)
  BY <1>1, <1>4 DEF Commit
<1>6. parcel' \in Parcel
  BY <1>3, <1>5, SMT DEF Change
<1>7. books' \in Entries /\ CashIsPaired'
  BY <1>3, <1>4, <1>5, PostedType, SMT DEF CashIsPaired, Paired, EntryTypes, RInv, RowsOK,
    Change
<1>8. logged' \in LogRow
  BY <1>1, <1>3, SMT DEF Commit, RInv, RowsOK, LogRow, Change, Parcel
<1>9. SlotsOK' /\ HeldOK'
  BY SMT DEF Book, slots, RInv, SlotsOK, HeldOK
<1>. QED
  BY <1>6, <1>7, <1>8, <1>9 DEF RInv, RowsOK

LEMMA ConfirmPaymentKeeps ==
  ASSUME RInv, ConfirmPayment
  PROVE  RInv'
<1>1. parcel' \in Parcel /\ books' = books /\ logged' = logged
  BY SMT DEF ConfirmPayment, MarkFeePaid, RInv, RowsOK, Parcel, PaymentStatus
<1>2. overlaps' \in 0..MaxOverlaps
  BY ArrivesType DEF ConfirmPayment, RInv, SlotsOK
<1>3. SlotsOK' /\ HeldOK'
  BY <1>2, SMT DEF ConfirmPayment, slots, RInv, SlotsOK, HeldOK
<1>. QED
  BY <1>1, <1>3, SMT DEF RInv, RowsOK, CashIsPaired

LEMMA StepKeeps ==
  ASSUME RInv, RequestsNext
  PROVE  RInv'
BY BookKeeps, ReceiveKeeps, AcceptCodeKeeps, MissCodeKeeps, RefuseCodeKeeps, DiffKeeps,
  ReadFeesKeeps, WriteKeeps, ConfirmPaymentKeeps, Zenon DEF RequestsNext, Proceed

LEMMA InitRInv == RequestsInit => RInv
<1>1. SUFFICES ASSUME RequestsInit PROVE RInv
  OBVIOUS
<1>2. RowsOK
  BY <1>1, NoEntriesType, SMT DEF RequestsInit, Init, RowsOK, NoParcel, Parcel, RowStatus,
    PaymentStatus, Dates, LogRow, Actors, Staff
<1>3. SlotsOK
  BY <1>1, MaxOverlapsAssumption, SMT DEF RequestsInit, SlotsOK, Stages
<1>4. HeldOK
  BY <1>1, SMT DEF RequestsInit, HeldOK
<1>5. CashIsPaired
  BY <1>1, SMT DEF RequestsInit, Init, NoEntries, EntryTypes, CashIsPaired
<1>. QED
  BY <1>2, <1>3, <1>4, <1>5 DEF RInv

LEMMA RequestsInvariance == RequestsSpec => []RInv
<1>1. RInv /\ UNCHANGED requestVars => RInv'
  BY SMT DEF requestVars, RInv, RowsOK, SlotsOK, HeldOK, CashIsPaired, Carries, Cancelling
<1>. QED
  BY InitRInv, StepKeeps, <1>1, PTL DEF RequestsSpec

(* However many requests overlap, and however they interleave, the rows    *)
(* stay well-formed and the cash of a parcel is posted to the courier and  *)
(* the merchant together.                                                  *)
THEOREM CashStaysPaired == RequestsSpec => []CashIsPaired
BY RequestsInvariance, PTL DEF RInv

(* The slots are what the steps make of them. *)
THEOREM SlotsAreTyped == RequestsSpec => []SlotsOK
BY RequestsInvariance, PTL DEF RInv

-----------------------------------------------------------------------------
(* What a step may not do *)

(* Every step of a slot other than Write leaves the three tables alone. *)
LEMMA OnlyWritesTouchTables ==
  ASSUME NEW r \in Requests, Proceed(r), ~Write(r)
  PROVE  UNCHANGED tables
BY DEF Proceed, AcceptCode, MissCode, RefuseCode, Diff, ReadFees

LEMMA BookLogs ==
  ASSUME Book
  PROVE  logged'.status = parcel'.status
<1>1. PICK a \in Actors : Create(a)
  BY DEF Book
<1>2. PICK c \in create(parcel, a) : Commit(c)
  BY <1>1 DEF Create
<1>3. PICK q \in Quotes :
        c = Saves(parcel, a, "PENDING",
              [status |-> "PENDING", cod |-> q.cod, fee |-> q.fee, codFee |-> q.codFee,
               back |-> q.back, payment |-> paymentStatusFor(q)],
              bookingEntries(q.fee))
  BY <1>2 DEF create
<1>4. c.via = "save" /\ c.log = "PENDING" /\ c.after.status = "PENDING"
  BY <1>3, SMT DEF Saves, Decides, With, Columns
<1>. QED
  BY <1>2, <1>4, SMT DEF Commit

LEMMA WriteLogs ==
  ASSUME RInv, NEW r \in Requests, Write(r), parcel'.status # parcel.status
  PROVE  logged'.status = parcel'.status
<1>1. stage[r] # "idle" /\ parcel' = Merged(parcel, held[r].after, dirty[r])
  BY DEF Write
<1>2. "status" \in dirty[r] /\ parcel'.status = held[r].after.status
  BY <1>1, SMT DEF Merged, Columns
<1>3. held[r].via = "save" /\ held[r].log = held[r].after.status
  BY <1>1, <1>2, HeldFacts, SMT DEF Carries, Unselected, Change
<1>. QED
  BY <1>2, <1>3, SMT DEF Write

LEMMA StepLogs ==
  ASSUME RInv, RequestsNext, parcel'.status # parcel.status
  PROVE  logged'.status = parcel'.status
<1>1. CASE Book
  BY <1>1, BookLogs
<1>2. CASE ConfirmPayment
  BY <1>2, SMT DEF ConfirmPayment, MarkFeePaid, RInv, RowsOK, Parcel
<1>3. ASSUME NEW r \in Requests, NEW a \in Actors, Receive(r, a)
      PROVE  FALSE
  BY <1>3, ReceiveHolds, Zenon DEF Hold, tables, vars
<1>4. ASSUME NEW r \in Requests, Proceed(r)
      PROVE  logged'.status = parcel'.status
  BY <1>4, WriteLogs, OnlyWritesTouchTables, Zenon DEF tables, vars
<1>. QED
  BY <1>1, <1>2, <1>3, <1>4 DEF RequestsNext

(* persist writes the log row in the transaction of the UPDATE, and the    *)
(* direct updates name only the columns of the code: whatever overlaps, a  *)
(* status never changes without the log row that says so.                  *)
THEOREM MovesStayLogged == RequestsSpec => MovesAreLogged
<1>1. RInv /\ [RequestsNext]_requestVars
        => [parcel'.status # parcel.status => logged'.status = parcel'.status]_requestVars
  BY StepLogs, Zenon DEF requestVars
<1>. QED
  BY <1>1, RequestsInvariance, PTL DEF RequestsSpec, MovesAreLogged

(* Only a slot's own steps change what it is, what it holds or what it is  *)
(* about to set.                                                           *)
SameSlot(r) == stage'[r] = stage[r] /\ held'[r] = held[r] /\ dirty'[r] = dirty[r]

LEMMA OthersStay ==
  ASSUME RInv, NEW q \in Requests, NEW r \in Requests, q # r, Proceed(q)
  PROVE  SameSlot(r)
<1>1. /\ stage \in [Requests -> Stages]
      /\ held \in [Requests -> Change \cup {NoChange}]
      /\ dirty \in [Requests -> SUBSET Columns]
  BY DEF RInv, SlotsOK
<1>2. CASE AcceptCode(q)
  BY <1>1, <1>2, SMT DEF AcceptCode, SameSlot
<1>3. CASE MissCode(q)
  BY <1>1, <1>3, SMT DEF MissCode, SameSlot
<1>4. CASE RefuseCode(q)
  BY <1>1, <1>4, SMT DEF RefuseCode, Release, SameSlot
<1>5. CASE Diff(q)
  BY <1>1, <1>5, SMT DEF Diff, SameSlot
<1>6. CASE ReadFees(q)
  BY <1>1, <1>6, SMT DEF ReadFees, SameSlot
<1>7. CASE Write(q)
  BY <1>1, <1>7, SMT DEF Write, Release, SameSlot
<1>. QED
  BY <1>2, <1>3, <1>4, <1>5, <1>6, <1>7 DEF Proceed

(* What a cancellation is about to post is still exact when neither its    *)
(* slot nor the ledger changed.                                            *)
LEMMA StillExact ==
  ASSUME NEW r \in Requests, RefundIsExact(r), SameSlot(r), books' = books
  PROVE  RefundIsExact(r)'
BY Zenon DEF RefundIsExact, HoldsRow, SameSlot

LEMMA NotHolding ==
  ASSUME NEW r \in Requests, stage'[r] # "commit"
  PROVE  RefundIsExact(r)'
BY Zenon DEF RefundIsExact, HoldsRow

(* What one step may do about the refund of request r. *)
Refunds(r) ==
  /\ /\ Finishes(r)
     /\ "status" \in held[r].assigned \cap dirty[r]
     /\ held[r].after.status = "CANCELLED"
     => HoldsRow(r) /\ (RefundIsExact(r) => feeChargedFor(books') = 0)
  /\ RefundIsExact(r) =>
       RefundIsExact(r)' \/ \E o \in Requests : Finishes(o) /\ dirty[o] = {}

LEMMA SameSlotRefunds ==
  ASSUME NEW r \in Requests, SameSlot(r), books' = books
  PROVE  Refunds(r)
BY StillExact, Zenon DEF Refunds, Finishes, SameSlot

LEMMA WriteRefunds ==
  ASSUME RInv, NEW q \in Requests, Write(q), NEW r \in Requests
  PROVE  Refunds(r)
<1>1. stage[q] # "idle" /\ books' = Posted(books, held[q].entries) /\ Release(q)
  BY DEF Write
<1>2. stage'[q] = "idle"
  BY <1>1, SMT DEF Release, RInv, SlotsOK
<1>3. CASE q = r
  <2>1. RefundIsExact(r)'
    BY <1>2, <1>3, NotHolding
  <2>2. ASSUME "status" \in held[r].assigned \cap dirty[r], held[r].after.status = "CANCELLED"
        PROVE  HoldsRow(r)
    <3>1. held[r].refund
      BY <1>1, <1>3, <2>2, HeldFacts, SMT DEF Carries, Cancelling
    <3>. QED
      BY <1>3, <2>2, <3>1, SMT DEF Write, HoldsRow
  <2>3. HoldsRow(r) /\ RefundIsExact(r) => feeChargedFor(books') = 0
    BY <1>1, <1>3, Zenon DEF RefundIsExact
  <2>. QED
    BY <2>1, <2>2, <2>3, Zenon DEF Refunds
<1>4. CASE q # r
  <2>1. SameSlot(r)
    BY <1>4, OthersStay DEF Proceed
  <2>2. CASE dirty[q] = {}
    BY <1>1, <1>2, <2>1, <2>2, Zenon DEF Refunds, Finishes, SameSlot
  <2>3. CASE dirty[q] # {}
    <3>1. ~HoldsRow(r)
      BY <1>4, <2>3, SMT DEF Write, MayUpdateRow
    <3>2. RefundIsExact(r)'
      BY <2>1, <3>1, Zenon DEF RefundIsExact, HoldsRow, SameSlot
    <3>. QED
      BY <2>1, <3>2, Zenon DEF Refunds, Finishes, SameSlot
  <2>. QED
    BY <2>2, <2>3
<1>. QED
  BY <1>3, <1>4

(* A step of the slot itself that writes nothing either leaves it short of *)
(* its commit or has just summed what it gives back.                       *)
LEMMA QuietRefunds ==
  ASSUME RInv, NEW q \in Requests, Proceed(q), ~Write(q), NEW r \in Requests
  PROVE  Refunds(r)
<1>1. books' = books
  BY OnlyWritesTouchTables DEF tables, vars
<1>2. CASE q # r
  BY <1>1, <1>2, OthersStay, SameSlotRefunds
<1>3. CASE q = r
  <2>1. CASE RefuseCode(r)
    <3>1. dirty[r] = {}
      BY <2>1, SMT DEF RefuseCode, RInv, SlotsOK
    <3>2. stage'[r] = "idle"
      BY <2>1, SMT DEF RefuseCode, Release, RInv, SlotsOK
    <3>. QED
      BY <3>1, <3>2, NotHolding, Zenon DEF Refunds
  <2>2. CASE ReadFees(r)
    <3>1. stage'[r] = "commit" /\ held'[r].entries = cancellationEntries(books)
      BY <2>2, SMT DEF ReadFees, RInv, SlotsOK
    <3>2. feeChargedFor(Posted(books, cancellationEntries(books))) = 0
      BY CancellationClears DEF RInv, RowsOK
    <3>3. RefundIsExact(r)'
      BY <1>1, <3>1, <3>2, Zenon DEF RefundIsExact
    <3>. QED
      BY <3>1, <3>3, Zenon DEF Refunds, Finishes
  <2>3. CASE AcceptCode(r) \/ MissCode(r) \/ Diff(r)
    <3>1. stage'[r] \in {"diff", "write"}
      BY <2>3, SMT DEF AcceptCode, MissCode, Diff, RInv, SlotsOK
    <3>. QED
      BY <3>1, NotHolding, SMT DEF Refunds, Finishes
  <2>. QED
    BY <1>3, <2>1, <2>2, <2>3 DEF Proceed
<1>. QED
  BY <1>2, <1>3

LEMMA ReceiveRefunds ==
  ASSUME RInv, NEW q \in Requests, NEW a \in Actors, Receive(q, a), NEW r \in Requests
  PROVE  Refunds(r)
<1>1. PICK c \in Decided(parcel, a) : Hold(q, c)
  BY ReceiveHolds
<1>2. books' = books
  BY <1>1 DEF Hold, tables, vars
<1>3. CASE q = r
  <2>1. stage[r] = "idle" /\ stage'[r] # "commit"
    BY <1>1, <1>3, SMT DEF Hold, NextStage, RInv, SlotsOK
  <2>. QED
    BY <2>1, NotHolding, Zenon DEF Refunds, Finishes
<1>4. CASE q # r
  <2>1. SameSlot(r)
    BY <1>1, <1>4, SMT DEF Hold, SameSlot, RInv, SlotsOK
  <2>. QED
    BY <1>2, <2>1, SameSlotRefunds
<1>. QED
  BY <1>3, <1>4

LEMMA StepRefunds ==
  ASSUME RInv, RequestsNext, NEW r \in Requests
  PROVE  Refunds(r)
<1>1. CASE Book
  <2>1. stage'[r] = "idle" /\ stage[r] = "idle"
    BY <1>1, Zenon DEF Book, InFlight, slots
  <2>. QED
    BY <2>1, NotHolding, SMT DEF Refunds, Finishes
<1>2. CASE ConfirmPayment
  BY <1>2, SameSlotRefunds DEF ConfirmPayment, MarkFeePaid, slots, SameSlot
<1>3. ASSUME NEW q \in Requests, NEW a \in Actors, Receive(q, a)
      PROVE  Refunds(r)
  BY <1>3, ReceiveRefunds
<1>4. ASSUME NEW q \in Requests, Proceed(q)
      PROVE  Refunds(r)
  BY <1>4, WriteRefunds, QuietRefunds
<1>. QED
  BY <1>1, <1>2, <1>3, <1>4 DEF RequestsNext

(* A cancellation that moves the parcel sums what is still charged in the  *)
(* transaction whose UPDATE holds the row, so it gives back whatever was   *)
(* re-priced since the request read the parcel; only a save with nothing   *)
(* to update can post between that sum and the commit.                     *)
THEOREM CancellationsRefund == RequestsSpec => CancellationRefundsAll
<1>1. RInv /\ [RequestsNext]_requestVars
        => [\A r \in Requests : Refunds(r)]_requestVars
  BY StepRefunds, Zenon DEF requestVars
<1>. QED
  BY <1>1, RequestsInvariance, PTL DEF RequestsSpec, CancellationRefundsAll, Refunds

-----------------------------------------------------------------------------
(* Refinement: requests served one after the other (overlaps = 0)          *)
(* implement ParcelFlow.  The read, the checks, the second read of the     *)
(* code, the diff and the write of one handler amount to one step of it.   *)

(* What the serial argument needs of every change: with a code to verify   *)
(* it is a handover, and it is of a booked parcel.                         *)
LEMMA DecidedFacts ==
  ASSUME NEW p \in Parcel, NEW a \in Actors, Courierless(p), NEW c \in Decided(p, a)
  PROVE  /\ c.typed # NoCode => c \in proofOfHandover(p, a, c.typed)
         /\ c.after.status # "UNBOOKED"
         /\ Exists(p)
<1>1. CASE c \in Otherwise(p, a)
  BY <1>1, OtherwisePlain DEF Plain
<1>2. ASSUME NEW code \in Codes \cup {NoCode}, c \in proofOfHandover(p, a, code)
      PROVE  /\ c.typed # NoCode => c \in proofOfHandover(p, a, c.typed)
             /\ c.after.status # "UNBOOKED"
             /\ Exists(p)
  BY <1>2, HandOverFacts
<1>. QED
  BY <1>1, <1>2, Zenon DEF Decided, Otherwise

-----------------------------------------------------------------------------
(* What a request alone may save *)

(* The change may be committed to the row p in one step of ParcelFlow.     *)
Servable(c, p) ==
  \/ c \in Decided(p, c.by) /\ (c.typed # NoCode => CodeAccepted(p, c.typed))
  \/ \E code \in Codes :
       c \in wrongCode(p, c.by, code) /\ proofOfHandover(p, c.by, code) # {}

LEMMA OtherwiseServes ==
  ASSUME NEW a \in Actors, NEW c \in Otherwise(parcel, a), Commit(c)
  PROVE  Serve(a)
<1>1. CASE c \in updateStatusAlong(parcel, a)
  BY <1>1, Zenon DEF Serve, UpdateStatusAlong
<1>2. CASE c \in updateStatusOut(parcel, a)
  BY <1>2, Zenon DEF Serve, UpdateStatusOut
<1>3. CASE c \in updateStatusDelivered(parcel, a)
  BY <1>3, Zenon DEF Serve, UpdateStatusDelivered
<1>4. CASE c \in updateStatusReturned(parcel, a)
  BY <1>4, Zenon DEF Serve, UpdateStatusReturned
<1>5. CASE c \in updateStatusCancelled(parcel, a)
  BY <1>5, Zenon DEF Serve, UpdateStatusCancelled
<1>6. CASE c \in recordFailedAttempt(parcel, a)
  BY <1>6, Zenon DEF Serve, RecordFailedAttempt
<1>7. CASE c \in rescheduleDelivery(parcel, a)
  BY <1>7, Zenon DEF Serve, RescheduleDelivery
<1>8. CASE c \in updateParcel(parcel, a)
  BY <1>8, Zenon DEF Serve, UpdateParcel
<1>9. CASE c \in reissueDeliveryCode(parcel, a)
  BY <1>9, Zenon DEF Serve, ReissueDeliveryCode
<1>10. CASE c \in assignDeliveryPersonnel(parcel, a)
  BY <1>10, Zenon DEF Serve, AssignDeliveryPersonnel
<1>11. CASE c \in unassignDeliveryPersonnel(parcel, a)
  BY <1>11, Zenon DEF Serve, UnassignDeliveryPersonnel
<1>12. CASE c \in cancelParcel(parcel, a)
  BY <1>12, Zenon DEF Serve, CancelParcel
<1>13. CASE c \in confirmDelivery(parcel, a)
  BY <1>13, Zenon DEF Serve, ConfirmDelivery
<1>14. CASE c \in setBlocked(parcel, a)
  BY <1>14, Zenon DEF Serve, SetBlocked
<1>15. CASE c \in proofAfterwards(parcel, a)
  BY <1>15, Zenon DEF Serve, AttachProof
<1>. QED
  BY <1>1, <1>2, <1>3, <1>4, <1>5, <1>6, <1>7, <1>8,
    <1>9, <1>10, <1>11, <1>12, <1>13, <1>14, <1>15 DEF Otherwise

LEMMA ServableServes ==
  ASSUME NEW c, c.by \in Actors, Servable(c, parcel), parcel \in Parcel, Commit(c)
  PROVE  Serve(c.by)
<1>1. CASE c \in Otherwise(parcel, c.by)
  BY <1>1, OtherwiseServes
<1>2. ASSUME NEW code \in Codes \cup {NoCode}, c \in proofOfHandover(parcel, c.by, code),
             c.typed # NoCode => CodeAccepted(parcel, c.typed)
      PROVE  Serve(c.by)
  <2>1. c.typed = code
    BY <1>2, HandOverFacts
  <2>2. HandOver(c.by, code)
    BY <1>2, <2>1, Zenon DEF HandOver
  <2>. QED
    BY <2>2, Zenon DEF Serve
<1>3. ASSUME NEW code \in Codes, c \in wrongCode(parcel, c.by, code),
             proofOfHandover(parcel, c.by, code) # {}
      PROVE  Serve(c.by)
  <2>1. CountWrongCode(c.by, code)
    BY <1>3, Zenon DEF CountWrongCode
  <2>. QED
    BY <2>1, Zenon DEF Serve
<1>. QED
  BY <1>1, <1>2, <1>3, Zenon DEF Servable, Decided, Otherwise

(* The columns Diff finds. *)
Differing(c, p) ==
  {col \in Columns \ Unselected : c.after[col] # p[col]} \cup (c.assigned \cap Unselected)

(* The columns a request alone sets are enough to turn the row into its    *)
(* entity: everything else is as it was read.                              *)
LEMMA WholeEntity ==
  ASSUME NEW p \in Parcel, NEW c \in Change, NEW a, Shaped(c, p, a),
         NEW cols \in {Differing(c, p), c.assigned}
  PROVE  Merged(p, c.after, cols) = c.after
<1>1. \A col \in Columns : IF col \in cols THEN TRUE ELSE c.after[col] = p[col]
  BY SMT DEF Shaped, Differing, Unselected, Columns
<1>2. Merged(p, c.after, cols) = [col \in Columns |-> c.after[col]]
  BY <1>1, SMT DEF Merged
<1>3. c.after \in Parcel
  BY DEF Change
<1>. QED
  BY <1>2, <1>3, SMT DEF Parcel, Columns

-----------------------------------------------------------------------------
(* The invariant of requests served one at a time *)

(* c is d with what the cancellation has to give back filled in.           *)
Refunding(d, c) ==
  /\ d.refund
  /\ c.refund
  /\ c.by = d.by
  /\ c.via = d.via
  /\ c.log = d.log
  /\ c.after = d.after
  /\ c.entries = cancellationEntries(books)

Serial(c, st, cols) ==
  /\ st = "verify" => c \in Decided(parcel, c.by)
  /\ st \in {"diff", "write"} => Servable(c, parcel)
  /\ st = "write" => cols \in {Differing(c, parcel), c.assigned}
  /\ st = "commit" => \E d \in Change : /\ Servable(d, parcel)
                                        /\ cols \in {Differing(d, parcel), d.assigned}
                                        /\ Refunding(d, c)

Alone ==
  /\ overlaps = 0
  /\ \A q, r \in Requests : stage[q] # "idle" /\ stage[r] # "idle" => q = r
  /\ \A r \in Requests : stage[r] # "idle" => Serial(held[r], stage[r], dirty[r])
  /\ Exists(parcel) \/ (parcel.courier = NoCourier /\ InFlight = {})

SInv == RInv /\ Alone

LEMMA ServableShape ==
  ASSUME NEW p \in Parcel, NEW c, c.by \in Actors, Servable(c, p)
  PROVE  Shaped(c, p, c.by)
BY DecidedShape, WrongCodeShape, Zenon DEF Servable

LEMMA ServableBooked ==
  ASSUME NEW p \in Parcel, NEW c, c.by \in Actors, Servable(c, p), Exists(p)
  PROVE  c.after.status # "UNBOOKED"
<1>1. Courierless(p)
  BY DEF Courierless
<1>2. ASSUME NEW code \in Codes, c \in wrongCode(p, c.by, code)
      PROVE  c.after.status = p.status
  BY <1>2, SMT DEF wrongCode, Updates, Decides, With, Columns
<1>. QED
  BY <1>1, <1>2, DecidedFacts, Zenon DEF Servable, Exists

LEMMA HandOverSaves ==
  ASSUME NEW p, NEW a, NEW code, NEW c \in proofOfHandover(p, a, code)
  PROVE  c.via = "save"
BY SMT DEF proofOfHandover, Decides

(* With the only slot in flight going elsewhere and the row untouched, the *)
(* new content of the slot is all there is to check.                       *)
LEMMA AloneStep ==
  ASSUME SInv, NEW r \in Requests, NEW st, NEW h, NEW cols,
         stage' = [stage EXCEPT ![r] = st],
         held' = [held EXCEPT ![r] = h],
         dirty' = [dirty EXCEPT ![r] = cols],
         overlaps' = overlaps, parcel' = parcel, books' = books, Exists(parcel),
         \A q \in Requests : q # r => stage[q] = "idle",
         st # "idle" => Serial(h, st, cols)
  PROVE  Alone'
<1>1. /\ stage \in [Requests -> Stages]
      /\ held \in [Requests -> Change \cup {NoChange}]
      /\ dirty \in [Requests -> SUBSET Columns]
  BY DEF SInv, RInv, SlotsOK
<1>2. /\ \A q \in Requests : q # r => stage'[q] = "idle"
      /\ stage'[r] = st
      /\ held'[r] = h
      /\ dirty'[r] = cols
  BY <1>1, SMT
<1>3. overlaps' = 0 /\ Exists(parcel')
  BY SMT DEF SInv, Alone
<1>4. \A p, q \in Requests : stage'[p] # "idle" /\ stage'[q] # "idle" => p = q
  BY <1>2, Zenon
<1>5. \A q \in Requests : stage'[q] # "idle" => Serial(held'[q], stage'[q], dirty'[q])
  BY <1>2, Zenon
<1>6. ASSUME NEW q \in Requests, stage'[q] # "idle"
      PROVE  Serial(held[q], stage[q], dirty[q])'
  <2>1. Serial(held'[q], stage'[q], dirty'[q])
    BY <1>5, <1>6
  <2>. QED
    BY <2>1, Zenon DEF Serial, Refunding
<1>. QED
  BY <1>3, <1>4, <1>6, Zenon DEF Alone

(* Nothing arrives beside a request in flight. *)
LEMMA ArrivesAlone ==
  ASSUME overlaps' = 0, SInv, Arrives
  PROVE  InFlight = {} /\ overlaps' = overlaps
BY SMT DEF Arrives, SInv, Alone

LEMMA InFlightAlone ==
  ASSUME SInv, NEW r \in Requests, stage[r] # "idle"
  PROVE  /\ \A q \in Requests : q # r => stage[q] = "idle"
         /\ Serial(held[r], stage[r], dirty[r])
         /\ Exists(parcel)
         /\ parcel \in Parcel
         /\ held[r] \in Change
         /\ held[r].by \in Actors
BY SMT DEF SInv, Alone, RInv, SlotsOK, RowsOK, InFlight, Change

-----------------------------------------------------------------------------
(* Step by step: the invariant is kept, and ParcelFlow takes the step *)

Simulates == SInv' /\ [Next]_vars

LEMMA BookSimulates ==
  ASSUME SInv, Book
  PROVE  Simulates
<1>1. PICK a \in Actors : Create(a)
  BY DEF Book
<1>2. PICK c \in create(parcel, a) : Commit(c)
  BY <1>1 DEF Create
<1>3. ~Exists(parcel)
  BY <1>2, Zenon DEF create
<1>4. PICK q \in Quotes :
        c = Saves(parcel, a, "PENDING",
              [status |-> "PENDING", cod |-> q.cod, fee |-> q.fee, codFee |-> q.codFee,
               back |-> q.back, payment |-> paymentStatusFor(q)],
              bookingEntries(q.fee))
  BY <1>2 DEF create
<1>5. Exists(parcel')
  BY <1>2, <1>4, SMT DEF Saves, Decides, With, Columns, Commit, Exists
<1>6. Alone'
  <2>1. InFlight = {} /\ overlaps = 0
    BY <1>3 DEF SInv, Alone
  <2>2. UNCHANGED <<stage, held, dirty, overlaps>>
    BY DEF Book, slots
  <2>. QED
    BY <1>5, <2>1, <2>2, SMT DEF Alone, InFlight
<1>7. RInv'
  BY BookKeeps DEF SInv
<1>8. Next
  BY <1>1, Zenon DEF Next, Serve
<1>. QED
  BY <1>6, <1>7, <1>8 DEF Simulates, SInv

LEMMA ConfirmPaymentSimulates ==
  ASSUME overlaps' = 0, SInv, ConfirmPayment
  PROVE  Simulates
<1>1. RInv' /\ MarkFeePaid /\ Arrives /\ UNCHANGED slots
  BY ConfirmPaymentKeeps DEF SInv, ConfirmPayment
<1>2. InFlight = {} /\ overlaps' = overlaps /\ overlaps = 0
  BY <1>1, ArrivesAlone DEF SInv, Alone
<1>3. Exists(parcel')
  BY <1>1, SMT DEF MarkFeePaid, Exists, SInv, RInv, RowsOK, Parcel
<1>4. Alone'
  BY <1>1, <1>2, <1>3, SMT DEF slots, Alone, InFlight
<1>. QED
  BY <1>1, <1>4 DEF Simulates, SInv, Next

LEMMA ReceiveSimulates ==
  ASSUME overlaps' = 0, SInv, NEW r \in Requests, NEW a \in Actors, Receive(r, a)
  PROVE  Simulates
<1>1. PICK c \in Decided(parcel, a) : Hold(r, c)
  BY ReceiveHolds
<1>2. parcel \in Parcel /\ RInv'
  BY ReceiveKeeps DEF SInv, RInv, RowsOK
<1>3. InFlight = {} /\ overlaps' = overlaps
  BY <1>1, ArrivesAlone DEF Hold
<1>4. Courierless(parcel)
  BY DEF SInv, Alone, Courierless
<1>5. c \in Change /\ Shaped(c, parcel, a) /\ c.by = a
  BY <1>1, <1>2, DecidedChange, DecidedShape DEF Shaped
<1>6. /\ c.typed # NoCode => c \in proofOfHandover(parcel, a, c.typed)
      /\ Exists(parcel)
  BY <1>1, <1>2, <1>4, DecidedFacts
<1>7. c.via = "update" => c.typed = NoCode
  BY <1>6, HandOverSaves, SMT
<1>8. Serial(c, NextStage(c), DirectColumns(c))
  <2>1. NextStage(c) # "commit"
    BY SMT DEF NextStage
  <2>2. NextStage(c) # "verify" => Servable(c, parcel)
    BY <1>1, <1>5, <1>7, SMT DEF Servable, NextStage
  <2>3. NextStage(c) = "write" => c.via = "update"
    BY SMT DEF NextStage
  <2>. QED
    BY <1>1, <1>5, <2>1, <2>2, <2>3, Zenon DEF Serial, DirectColumns
<1>9. Alone'
  <2>1. \A q \in Requests : q # r => stage[q] = "idle"
    BY <1>3 DEF InFlight
  <2>. QED
    BY <1>1, <1>3, <1>6, <1>8, <2>1, AloneStep, Zenon DEF Hold, tables, vars
<1>. QED
  BY <1>1, <1>2, <1>9 DEF Simulates, SInv, Hold, tables

LEMMA AcceptCodeSimulates ==
  ASSUME SInv, NEW r \in Requests, AcceptCode(r)
  PROVE  Simulates
<1>1. stage[r] = "verify" /\ CodeAccepted(parcel, held[r].typed) /\ UNCHANGED tables
  BY DEF AcceptCode
<1>2. RInv'
  BY AcceptCodeKeeps DEF SInv
<1>3. /\ \A q \in Requests : q # r => stage[q] = "idle"
      /\ Serial(held[r], "verify", dirty[r])
      /\ Exists(parcel)
  BY <1>1, InFlightAlone
<1>4. Serial(held[r], "diff", dirty[r])
  BY <1>1, <1>3, Zenon DEF Serial, Servable
<1>5. /\ stage' = [stage EXCEPT ![r] = "diff"]
      /\ held' = [held EXCEPT ![r] = held[r]]
      /\ dirty' = [dirty EXCEPT ![r] = dirty[r]]
      /\ overlaps' = overlaps
      /\ parcel' = parcel
      /\ books' = books
  BY SMT DEF AcceptCode, SInv, RInv, SlotsOK, tables, vars
<1>6. Alone'
  BY <1>3, <1>4, <1>5, AloneStep, Zenon
<1>. QED
  BY <1>1, <1>2, <1>6 DEF Simulates, SInv, tables

LEMMA MissCodeSimulates ==
  ASSUME SInv, NEW r \in Requests, MissCode(r)
  PROVE  Simulates
<1>1. stage[r] = "verify" /\ UNCHANGED tables
  BY DEF MissCode
<1>2. RInv'
  BY MissCodeKeeps DEF SInv
<1>3. /\ \A q \in Requests : q # r => stage[q] = "idle"
      /\ Serial(held[r], "verify", dirty[r])
      /\ Exists(parcel)
      /\ parcel \in Parcel
      /\ held[r].by \in Actors
  BY <1>1, InFlightAlone
<1>4. PICK w \in wrongCode(parcel, held[r].by, held[r].typed) :
        /\ held' = [held EXCEPT ![r] = w]
        /\ dirty' = [dirty EXCEPT ![r] = w.assigned]
  BY DEF MissCode
<1>5. held[r].typed \in Codes /\ held[r].typed # NoCode
  BY <1>1, HeldFacts, CodesAssumption, SMT DEF SInv, Carries
<1>6. proofOfHandover(parcel, held[r].by, held[r].typed) # {}
  <2>1. held[r] \in Decided(parcel, held[r].by)
    BY <1>3, Zenon DEF Serial
  <2>2. Courierless(parcel)
    BY <1>3 DEF Courierless
  <2>. QED
    BY <1>3, <1>5, <2>1, <2>2, DecidedFacts, Zenon
<1>7. w.by = held[r].by
  BY <1>4, SMT DEF wrongCode, Updates, Decides
<1>8. Serial(w, "write", w.assigned)
  BY <1>4, <1>5, <1>6, <1>7, Zenon DEF Serial, Servable
<1>9. Alone'
  BY <1>3, <1>4, <1>8, AloneStep, Zenon DEF MissCode, tables, vars
<1>. QED
  BY <1>1, <1>2, <1>9 DEF Simulates, SInv, tables

LEMMA ReleaseAlone ==
  ASSUME SInv, NEW r \in Requests, stage[r] # "idle", Release(r), Exists(parcel')
  PROVE  Alone'
<1>1. \A q \in Requests : q # r => stage[q] = "idle"
  BY InFlightAlone
<1>2. \A q \in Requests : stage'[q] = "idle"
  BY <1>1, SMT DEF Release, SInv, RInv, SlotsOK
<1>3. overlaps' = 0
  BY SMT DEF Release, SInv, Alone
<1>. QED
  BY <1>2, <1>3, Zenon DEF Alone

LEMMA RefuseCodeSimulates ==
  ASSUME SInv, NEW r \in Requests, RefuseCode(r)
  PROVE  Simulates
<1>1. stage[r] # "idle" /\ Release(r) /\ UNCHANGED tables
  BY DEF RefuseCode
<1>2. Exists(parcel')
  BY <1>1, InFlightAlone DEF tables, vars
<1>3. RInv' /\ Alone'
  BY <1>1, <1>2, RefuseCodeKeeps, ReleaseAlone DEF SInv
<1>. QED
  BY <1>1, <1>3 DEF Simulates, SInv, tables

LEMMA DiffSimulates ==
  ASSUME SInv, NEW r \in Requests, Diff(r)
  PROVE  Simulates
<1>1. stage[r] = "diff" /\ UNCHANGED tables
  BY DEF Diff
<1>2. RInv'
  BY DiffKeeps DEF SInv
<1>3. /\ \A q \in Requests : q # r => stage[q] = "idle"
      /\ Serial(held[r], "diff", dirty[r])
      /\ Exists(parcel)
      /\ parcel \in Parcel
      /\ held[r].by \in Actors
  BY <1>1, InFlightAlone
<1>4. Servable(held[r], parcel)
  BY <1>3, Zenon DEF Serial
<1>5. Serial(held[r], "write", Differing(held[r], parcel))
  BY <1>4, Zenon DEF Serial
<1>6. /\ stage' = [stage EXCEPT ![r] = "write"]
      /\ held' = [held EXCEPT ![r] = held[r]]
      /\ dirty' = [dirty EXCEPT ![r] = Differing(held[r], parcel)]
      /\ overlaps' = overlaps
      /\ parcel' = parcel
      /\ books' = books
  BY SMT DEF Diff, Differing, SInv, RInv, SlotsOK, tables, vars
<1>7. Alone'
  BY <1>3, <1>5, <1>6, AloneStep, Zenon
<1>. QED
  BY <1>1, <1>2, <1>7 DEF Simulates, SInv, tables

LEMMA ReadFeesSimulates ==
  ASSUME SInv, NEW r \in Requests, ReadFees(r)
  PROVE  Simulates
<1> DEFINE h == [by |-> held[r].by, log |-> held[r].log, after |-> held[r].after,
                 assigned |-> held[r].assigned, entries |-> cancellationEntries(books),
                 refund |-> TRUE,
                 typed |-> held[r].typed, via |-> held[r].via]
<1>1. stage[r] = "write" /\ held[r].refund /\ UNCHANGED tables
  BY DEF ReadFees
<1>2. RInv'
  BY ReadFeesKeeps DEF SInv
<1>3. /\ \A q \in Requests : q # r => stage[q] = "idle"
      /\ Serial(held[r], "write", dirty[r])
      /\ Exists(parcel)
      /\ held[r] \in Change
  BY <1>1, InFlightAlone
<1>4. Refunding(held[r], h)
  BY <1>1, SMT DEF Refunding
<1>5. /\ stage' = [stage EXCEPT ![r] = "commit"]
      /\ held' = [held EXCEPT ![r] = h]
      /\ dirty' = [dirty EXCEPT ![r] = dirty[r]]
      /\ overlaps' = overlaps
      /\ parcel' = parcel
      /\ books' = books
  BY <1>1, SMT DEF ReadFees, SInv, RInv, SlotsOK, tables, vars
<1> HIDE DEF h
<1>6. Serial(h, "commit", dirty[r])
  BY <1>3, <1>4, Zenon DEF Serial
<1>7. Alone'
  BY <1>3, <1>5, <1>6, AloneStep, Zenon
<1>. QED
  BY <1>1, <1>2, <1>7 DEF Simulates, SInv, tables

(* What a write commits is a change that ParcelFlow may commit.            *)
LEMMA WriteServes ==
  ASSUME SInv, NEW r \in Requests, Write(r)
  PROVE  \E d \in Change : /\ Servable(d, parcel)
                            /\ d.by \in Actors
                            /\ dirty[r] \in {Differing(d, parcel), d.assigned}
                            /\ d.after = held[r].after
                            /\ d.by = held[r].by
                            /\ d.log = held[r].log
                            /\ d.via = held[r].via
                            /\ books' = Posted(books, IF d.refund THEN cancellationEntries(books)
                                                                 ELSE d.entries)
<1>1. /\ stage[r] \in {"write", "commit"}
      /\ held[r].refund => stage[r] = "commit"
      /\ books' = Posted(books, held[r].entries)
  BY DEF Write
<1>2. /\ Serial(held[r], stage[r], dirty[r])
      /\ held[r] \in Change
      /\ held[r].by \in Actors
  BY <1>1, InFlightAlone
<1>3. CASE stage[r] = "write"
  <2>1. ~held[r].refund
    BY <1>1, <1>3
  <2>2. /\ Servable(held[r], parcel)
        /\ dirty[r] \in {Differing(held[r], parcel), held[r].assigned}
    BY <1>2, <1>3, Zenon DEF Serial
  <2>. QED
    BY <1>1, <1>2, <2>1, <2>2
<1>4. CASE stage[r] = "commit"
  <2>1. PICK d \in Change : /\ Servable(d, parcel)
                            /\ dirty[r] \in {Differing(d, parcel), d.assigned}
                            /\ Refunding(d, held[r])
    BY <1>2, <1>4, Zenon DEF Serial
  <2>. QED
    BY <1>1, <1>2, <2>1 DEF Refunding
<1>. QED
  BY <1>1, <1>3, <1>4

LEMMA WriteSimulates ==
  ASSUME SInv, NEW r \in Requests, Write(r)
  PROVE  Simulates
<1>1. stage[r] # "idle" /\ Release(r)
  BY DEF Write
<1>2. RInv'
  BY WriteKeeps DEF SInv
<1>3. Exists(parcel) /\ parcel \in Parcel
  BY <1>1, InFlightAlone
<1>4. PICK d \in Change : /\ Servable(d, parcel)
                          /\ d.by \in Actors
                          /\ dirty[r] \in {Differing(d, parcel), d.assigned}
                          /\ d.after = held[r].after
                          /\ d.by = held[r].by
                          /\ d.log = held[r].log
                          /\ d.via = held[r].via
                          /\ books' = Posted(books, IF d.refund THEN cancellationEntries(books)
                                                               ELSE d.entries)
  BY WriteServes
<1>5. Shaped(d, parcel, d.by)
  BY <1>3, <1>4, ServableShape
<1>6. parcel' = d.after
  BY <1>3, <1>4, <1>5, WholeEntity DEF Write
<1>7. Commit(d)
  BY <1>4, <1>6 DEF Write, Commit
<1>8. Next
  BY <1>3, <1>4, <1>7, ServableServes DEF Next
<1>9. Exists(parcel')
  BY <1>3, <1>4, <1>6, ServableBooked DEF Exists
<1>10. Alone'
  BY <1>1, <1>9, ReleaseAlone
<1>. QED
  BY <1>2, <1>8, <1>10 DEF Simulates, SInv

LEMMA StepSimulates ==
  ASSUME overlaps' = 0, SInv, RequestsNext
  PROVE  Simulates
BY BookSimulates, ConfirmPaymentSimulates, ReceiveSimulates, AcceptCodeSimulates,
  MissCodeSimulates, RefuseCodeSimulates, DiffSimulates, ReadFeesSimulates, WriteSimulates,
  Zenon DEF RequestsNext, Proceed

LEMMA StutterSimulates ==
  ASSUME SInv, UNCHANGED requestVars
  PROVE  Simulates
<1>1. UNCHANGED <<parcel, books, logged, stage, held, dirty, overlaps>>
  BY DEF requestVars
<1>2. RInv'
  BY <1>1, SMT DEF SInv, RInv, RowsOK, SlotsOK, HeldOK, CashIsPaired, Carries, Cancelling
<1>3. Alone'
  BY <1>1, Zenon DEF SInv, Alone, Serial, Refunding, InFlight
<1>. QED
  BY <1>1, <1>2, <1>3 DEF Simulates, SInv, vars

LEMMA InitAlone == RequestsInit => SInv
BY InitRInv, SMT DEF RequestsInit, Init, NoParcel, SInv, Alone, InFlight

LEMMA OverlapsRemembered ==
  ASSUME RInv, RequestsNext, overlaps' = 0
  PROVE  overlaps = 0
<1>1. overlaps \in Nat
  BY MaxOverlapsAssumption, SMT DEF RInv, SlotsOK
<1>2. ASSUME Arrives
      PROVE  overlaps' = overlaps \/ overlaps' = overlaps + 1
  BY <1>2 DEF Arrives
<1>3. ASSUME NEW r \in Requests, NEW a \in Actors, Receive(r, a)
      PROVE  Arrives
  BY <1>3, ReceiveHolds, Zenon DEF Hold
<1>4. ASSUME NEW r \in Requests, Proceed(r)
      PROVE  overlaps' = overlaps
  BY <1>4 DEF Proceed, AcceptCode, MissCode, RefuseCode, Diff, ReadFees, Write, Release
<1>5. overlaps' = overlaps \/ overlaps' = overlaps + 1
  BY <1>2, <1>3, <1>4 DEF RequestsNext, Book, ConfirmPayment
<1>. QED
  BY <1>1, <1>5, SMT

(* As long as nothing has overlapped, reading the row, checking it, reading*)
(* the code, taking the diff and writing it make one step of ParcelFlow, so*)
(* every theorem about ParcelFlow holds of the code up to the first overlap*)
(* of requests for a parcel.                                               *)
THEOREM SerialRequestsImplementFlow == RequestsSpec => ImplementsFlow
<1> DEFINE Inv == RInv /\ (overlaps = 0 => Alone)
<1>1. RequestsInit => Inv /\ Init
  BY InitAlone DEF RequestsInit, SInv
<1>2. ASSUME Inv, RInv', [RequestsNext]_requestVars
      PROVE  Inv' /\ [overlaps' = 0 => [Next]_vars]_requestVars
  <2>1. CASE UNCHANGED requestVars
    <3>1. overlaps' = overlaps
      BY <2>1 DEF requestVars
    <3>2. CASE overlaps = 0
      BY <1>2, <2>1, <3>2, StutterSimulates DEF Simulates, SInv
    <3>. QED
      BY <1>2, <2>1, <3>1, <3>2
  <2>2. CASE RequestsNext /\ overlaps' = 0
    BY <1>2, <2>2, OverlapsRemembered, StepSimulates DEF Simulates, SInv
  <2>. QED
    BY <1>2, <2>1, <2>2
<1>. QED
  BY <1>1, <1>2, RequestsInvariance, PTL DEF RequestsSpec, ImplementsFlow

(* "money moves once, on the handover itself" (submitDeliveryProof) holds  *)
(* of the code as long as the requests for a parcel do not overlap, for    *)
(* any couriers, codes, quotes and limits: what refutes it is the overlap, *)
(* and nothing else.                                                       *)
THEOREM SerialCashMovesOnce ==
  ASSUME MaxOverlaps = 0
  PROVE  RequestsSpec => CashMovesOnce
<1>1. [parcel.status \in CLOSED_STATUSES => books' = books]_vars
        => [parcel.status = "DELIVERED" => books'["COD_CREDIT"] = books["COD_CREDIT"]]_requestVars
  <2>. SUFFICES ASSUME [parcel.status \in CLOSED_STATUSES => books' = books]_vars,
                       parcel.status = "DELIVERED"
                PROVE  books'["COD_CREDIT"] = books["COD_CREDIT"]
    OBVIOUS
  <2>1. books' = books
    BY DEF vars, CLOSED_STATUSES
  <2>. QED
    BY <2>1
<1>2. RInv' /\ [overlaps' = 0 => [Next]_vars]_requestVars => [Next]_vars
  BY SMT DEF RInv, SlotsOK, requestVars, vars
<1>3. RequestsSpec => Spec
  BY <1>2, RequestsInvariance, SerialRequestsImplementFlow, PTL DEF ImplementsFlow, Spec
<1>. QED
  BY <1>1, <1>3, ClosedBooksStay, PTL DEF CashMovesOnce

=============================================================================
