--------------------------- MODULE ParcelRequests ---------------------------
(***************************************************************************)
(* The parcel routes as they run: a request reads the row outside any      *)
(* transaction, decides, and saves later.                                  *)
(*                                                                         *)
(*   Receive...  findByTrackingIdOrFail, the guards and the in-memory edit *)
(*   ...Code     the second read, of the delivery code, when one was typed *)
(*   Diff        the SELECT of TypeORM's save: the columns whose in-memory *)
(*               value differs from the row now are the ones to be written *)
(*   ReadFees    a cancellation's UPDATE, and the sum of what it refunds   *)
(*   Write       UPDATE, status-log row and ledger rows, committed together*)
(*                                                                         *)
(* Nothing locks the row before the UPDATE and no version column is        *)
(* compared, so other requests may write between any two of these steps.   *)
(* From its UPDATE to its commit a request holds the row and reads nothing *)
(* but, for a cancellation, the ledger: the rest of the transaction is one *)
(* step.  A save whose diff is empty has no UPDATE and waits for nobody.   *)
(***************************************************************************)
EXTENDS ParcelFlow

CONSTANTS
  Requests,    \* request slots: how many requests may be in flight
  NoChange,    \* an empty slot
  MaxOverlaps  \* bound: how often something may arrive while a request is in
               \* flight; 0 serves one request at a time

ASSUME NoChangeAssumption == NoChange \notin Change
ASSUME MaxOverlapsAssumption == MaxOverlaps \in Nat

VARIABLES
  stage,    \* where each request is: idle, verify, diff, write, commit
  held,     \* the change each request is about to save
  dirty,    \* the columns its UPDATE will set
  overlaps  \* how many requests and payments arrived while another was in flight

tables == vars
slots == <<stage, held, dirty>>
requestVars == <<parcel, books, logged, stage, held, dirty, overlaps>>

Stages == {"idle", "verify", "diff", "write", "commit"}

(* Types of the slots; a slot holds a change exactly while its request     *)
(* runs, and columns to set only when it is about to write.                *)
SlotsOK ==
  /\ stage \in [Requests -> Stages]
  /\ held \in [Requests -> Change \cup {NoChange}]
  /\ dirty \in [Requests -> SUBSET Columns]
  /\ overlaps \in 0..MaxOverlaps
  /\ \A r \in Requests :
       /\ stage[r] = "idle" <=> held[r] = NoChange
       /\ stage[r] \notin {"write", "commit"} => dirty[r] = {}

RequestsInit ==
  /\ Init
  /\ stage = [r \in Requests |-> "idle"]
  /\ held = [r \in Requests |-> NoChange]
  /\ dirty = [r \in Requests |-> {}]
  /\ overlaps = 0

InFlight == {r \in Requests : stage[r] # "idle"}

(* What arrives while a request is in flight counts as an overlap. *)
Arrives ==
  \/ InFlight = {} /\ UNCHANGED overlaps
  \/ InFlight # {} /\ overlaps < MaxOverlaps /\ overlaps' = overlaps + 1

(* The transaction of r has updated the row and not committed yet. *)
HoldsRow(r) == stage[r] = "commit" /\ dirty[r] # {}

(* An UPDATE of the row waits for the transaction that holds it. *)
MayUpdateRow(r) == dirty[r] = {} \/ \A o \in Requests \ {r} : ~HoldsRow(o)

(* Booking inserts the row and its charge in one transaction, and nobody   *)
(* else can name the parcel before that commits: nothing can overlap it.   *)
Book ==
  /\ InFlight = {}
  /\ \E a \in Actors : Create(a)
  /\ UNCHANGED <<slots, overlaps>>

(* The payment module's confirmation is one conditional UPDATE, which may  *)
(* land between the steps of a request, and waits for one holding the row. *)
ConfirmPayment ==
  /\ \A r \in Requests : ~HoldsRow(r)
  /\ MarkFeePaid
  /\ Arrives
  /\ UNCHANGED slots

-----------------------------------------------------------------------------
(* Arrival *)

(* What the request does next: check the code it was given, go straight to *)
(* the UPDATE of a direct write, or let save look at the row.              *)
NextStage(c) ==
  IF c.via = "update" THEN "write" ELSE IF c.typed = NoCode THEN "diff" ELSE "verify"

(* Mutant: a direct update saves the entity it was computed from. *)
AllColumns(c) == IF c.via = "update" THEN Columns ELSE {}

(* A direct update sets the columns it names. *)
DirectColumns(c) == IF c.via = "update" THEN c.assigned ELSE {}

Hold(r, c) ==
  /\ stage[r] = "idle"
  /\ Arrives
  /\ stage' = [stage EXCEPT ![r] = NextStage(c)]
  /\ held' = [held EXCEPT ![r] = c]
  /\ dirty' = [dirty EXCEPT ![r] = DirectColumns(c)]
  /\ UNCHANGED tables

ReceiveStatusAlong(r, a) == \E c \in updateStatusAlong(parcel, a) : Hold(r, c)
ReceiveStatusOut(r, a) == \E c \in updateStatusOut(parcel, a) : Hold(r, c)
ReceiveStatusDelivered(r, a) == \E c \in updateStatusDelivered(parcel, a) : Hold(r, c)
ReceiveStatusReturned(r, a) == \E c \in updateStatusReturned(parcel, a) : Hold(r, c)
ReceiveStatusCancelled(r, a) == \E c \in updateStatusCancelled(parcel, a) : Hold(r, c)
ReceiveFailedAttempt(r, a) == \E c \in recordFailedAttempt(parcel, a) : Hold(r, c)
ReceiveReschedule(r, a) == \E c \in rescheduleDelivery(parcel, a) : Hold(r, c)
ReceiveUpdateParcel(r, a) == \E c \in updateParcel(parcel, a) : Hold(r, c)
ReceiveReissue(r, a) == \E c \in reissueDeliveryCode(parcel, a) : Hold(r, c)
ReceiveAssign(r, a) == \E c \in assignDeliveryPersonnel(parcel, a) : Hold(r, c)
ReceiveUnassign(r, a) == \E c \in unassignDeliveryPersonnel(parcel, a) : Hold(r, c)
ReceiveCancel(r, a) == \E c \in cancelParcel(parcel, a) : Hold(r, c)
ReceiveConfirm(r, a) == \E c \in confirmDelivery(parcel, a) : Hold(r, c)
ReceiveSetBlocked(r, a) == \E c \in setBlocked(parcel, a) : Hold(r, c)
ReceiveAttachProof(r, a) == \E c \in proofAfterwards(parcel, a) : Hold(r, c)
ReceiveHandOver(r, a) ==
  \E code \in Codes \cup {NoCode} :
    \E c \in proofOfHandover(parcel, a, code) : Hold(r, c)

Receive(r, a) ==
  \/ ReceiveStatusAlong(r, a)
  \/ ReceiveStatusOut(r, a)
  \/ ReceiveStatusDelivered(r, a)
  \/ ReceiveStatusReturned(r, a)
  \/ ReceiveStatusCancelled(r, a)
  \/ ReceiveFailedAttempt(r, a)
  \/ ReceiveReschedule(r, a)
  \/ ReceiveUpdateParcel(r, a)
  \/ ReceiveReissue(r, a)
  \/ ReceiveAssign(r, a)
  \/ ReceiveUnassign(r, a)
  \/ ReceiveCancel(r, a)
  \/ ReceiveConfirm(r, a)
  \/ ReceiveSetBlocked(r, a)
  \/ ReceiveAttachProof(r, a)
  \/ ReceiveHandOver(r, a)

-----------------------------------------------------------------------------
(* The rest of the request *)

(* The code typed at the door, compared with the row as it is now.         *)
AcceptCode(r) ==
  /\ stage[r] = "verify"
  /\ CodeAccepted(parcel, held[r].typed)
  /\ stage' = [stage EXCEPT ![r] = "diff"]
  /\ UNCHANGED <<held, dirty, overlaps>>
  /\ UNCHANGED tables

(* A wrong code: the request turns into an update of the count, computed   *)
(* from the count just read.                                               *)
MissCode(r) ==
  /\ stage[r] = "verify"
  /\ \E w \in wrongCode(parcel, held[r].by, held[r].typed) :
       /\ held' = [held EXCEPT ![r] = w]
       /\ dirty' = [dirty EXCEPT ![r] = w.assigned]
  /\ stage' = [stage EXCEPT ![r] = "write"]
  /\ UNCHANGED overlaps
  /\ UNCHANGED tables

Release(r) ==
  /\ stage' = [stage EXCEPT ![r] = "idle"]
  /\ held' = [held EXCEPT ![r] = NoChange]
  /\ dirty' = [dirty EXCEPT ![r] = {}]
  /\ UNCHANGED overlaps

(* No code is active, or its tries are spent: refused, nothing written.    *)
RefuseCode(r) ==
  /\ stage[r] = "verify"
  /\ ~CodeUsable(parcel)
  /\ Release(r)
  /\ UNCHANGED tables

(* Mutant: the columns a load does not select are never written. *)
DiffOfSelected(r) ==
  /\ stage[r] = "diff"
  /\ dirty' = [dirty EXCEPT ![r] =
       {c \in Columns \ Unselected : held[r].after[c] # parcel[c]}]
  /\ stage' = [stage EXCEPT ![r] = "write"]
  /\ UNCHANGED <<held, overlaps>>
  /\ UNCHANGED tables

(* save compares the entity with the row; the unselected columns are not   *)
(* read, so they are written whenever the handler assigned them.           *)
Diff(r) ==
  /\ stage[r] = "diff"
  /\ dirty' = [dirty EXCEPT ![r] =
       {c \in Columns \ Unselected : held[r].after[c] # parcel[c]}
         \cup (held[r].assigned \cap Unselected)]
  /\ stage' = [stage EXCEPT ![r] = "write"]
  /\ UNCHANGED <<held, overlaps>>
  /\ UNCHANGED tables

Merged(row, entity, columns) ==
  [c \in Columns |-> IF c \in columns THEN entity[c] ELSE row[c]]

(* The entries of a cancellation are read in its transaction, after the    *)
(* UPDATE.                                                                 *)
ReadFees(r) ==
  /\ stage[r] = "write"
  /\ held[r].refund
  /\ MayUpdateRow(r)
  /\ stage' = [stage EXCEPT ![r] = "commit"]
  /\ held' = [held EXCEPT ![r] =
       [by |-> @.by, log |-> @.log, after |-> @.after, assigned |-> @.assigned,
        entries |-> cancellationEntries(books), refund |-> TRUE,
        typed |-> @.typed, via |-> @.via]]
  /\ UNCHANGED <<dirty, overlaps>>
  /\ UNCHANGED tables

Write(r) ==
  /\ stage[r] \in {"write", "commit"}
  /\ held[r].refund => stage[r] = "commit"
  /\ MayUpdateRow(r)
  /\ parcel' = Merged(parcel, held[r].after, dirty[r])
  /\ books' = Posted(books, held[r].entries)
  /\ logged' = IF held[r].via = "save"
               THEN [status |-> held[r].log, by |-> held[r].by]
               ELSE logged
  /\ Release(r)

Proceed(r) ==
  AcceptCode(r) \/ MissCode(r) \/ RefuseCode(r) \/ Diff(r) \/ ReadFees(r) \/ Write(r)

RequestsNext ==
  \/ Book
  \/ \E r \in Requests : (\E a \in Actors : Receive(r, a)) \/ Proceed(r)
  \/ ConfirmPayment

RequestsSpec == RequestsInit /\ [][RequestsNext]_requestVars

-----------------------------------------------------------------------------
(* Properties that hold however many requests are in flight *)

(* However requests interleave, cash taken at the door and cash owed to    *)
(* the merchant are posted together: deliveryEntries' two rows and the     *)
(* transaction of persist.                                                 *)
CashIsPaired == books["COD_COLLECTED"] = books["COD_CREDIT"]

(* "A parcel never moves without its timeline entry": every step that      *)
(* changes the status also logs the new status.                            *)
MovesAreLogged ==
  [][parcel'.status # parcel.status => logged'.status = parcel'.status]_requestVars

(* What a cancellation that holds the row is about to post leaves no fee.  *)
RefundIsExact(r) == HoldsRow(r) => feeChargedFor(Posted(books, held[r].entries)) = 0

Finishes(r) == stage[r] # "idle" /\ stage'[r] = "idle"

(* The request that cancels the parcel leaves no fee charged at its commit,*)
(* including what a re-pricing charged after it had read the row: what it  *)
(* gives back is summed while it holds the row, and the only thing that    *)
(* can post between that sum and its commit is a save that found nothing   *)
(* to update, because another request had written the same values before.  *)
CancellationRefundsAll ==
  [][\A r \in Requests :
       /\ /\ Finishes(r)
          /\ "status" \in held[r].assigned \cap dirty[r]
          /\ held[r].after.status = "CANCELLED"
          => HoldsRow(r) /\ (RefundIsExact(r) => feeChargedFor(books') = 0)
       /\ RefundIsExact(r) =>
            RefundIsExact(r)' \/ \E o \in Requests : Finishes(o) /\ dirty[o] = {}
    ]_requestVars

-----------------------------------------------------------------------------
(* What documents and comments say, refuted by two overlapping requests *)

(* submitDeliveryProof: money moves once, on the handover itself, and not  *)
(* again for a parcel that was already delivered.                          *)
CashMovesOnce ==
  [][parcel.status = "DELIVERED" => books'["COD_CREDIT"] = books["COD_CREDIT"]]_requestVars

-----------------------------------------------------------------------------
(* As long as requests are served one after the other, each handler's read,*)
(* checks, save and commit amount to one step of ParcelFlow: the two-read, *)
(* two-write code does what ParcelFlow says until something else touches   *)
(* the parcel meanwhile.                                                   *)
ImplementsFlow == Init /\ [][overlaps' = 0 => [Next]_vars]_requestVars

=============================================================================
