------------------------------ MODULE Payments ------------------------------
(***************************************************************************)
(* Online payment of one parcel's fee, next to the routes of that parcel.  *)
(*                                                                         *)
(* An attempt is a row of `payments`, known to the gateway by its tran_id. *)
(* The gateway reports what became of it through the payer's browser       *)
(* (success, fail, cancel) and through its own server (ipn).  A report may *)
(* come late, twice, out of order or not at all, and each is handled by a  *)
(* request that reads the attempt, may wait for the validation call (up to *)
(* REQUEST_TIMEOUT_MS), and writes afterwards.  Requests may stop half way.*)
(* The gateway is external: it is what the callbacks and the validation    *)
(* answers the code reads say it is.                                       *)
(***************************************************************************)
EXTENDS ParcelFlow

CONSTANTS
  Attempts,   \* the payments rows, by tranId
  NoAttempt,
  Handlers,   \* checkout and callback requests in flight
  Parties     \* bound: who uses the parcel's routes meanwhile; Actors for all

ASSUME NoAttemptAssumption == NoAttempt \notin Attempts
ASSUME PartiesAssumption == Parties \subseteq Actors

VARIABLES
  payments,   \* the payments table
  credits,    \* how many FEE_PAYMENT rows the ledger has, per attempt
  gateway,    \* what the gateway knows of an attempt
  reports,    \* callbacks the gateway has sent, or may send again
  work,       \* what each request in flight is doing
  toldPaid,   \* attempts whose payer was sent to status=paid
  dropped     \* attempts whose ipn was answered 200 while nothing came of it

paymentVars == <<payments, credits, gateway, reports, work, toldPaid, dropped>>
allVars ==
  <<parcel, books, logged, payments, credits, gateway, reports, work, toldPaid,
    dropped>>

PaymentState == {"INITIATED", "PAID", "FAILED", "CANCELLED", "REVIEW"}

(* Mutant: an attempt that was declined cannot succeed any more. *)
OpenStatesNeverDeclined == {"INITIATED", "CANCELLED"}

(* The states a conditional update may leave: neither paid nor on hold. *)
OpenStates == {"INITIATED", "FAILED", "CANCELLED"}

Payment == [status: PaymentState \cup {"NONE"}, amount: Nat]
NoPayment == [status |-> "NONE", amount |-> 0]

GatewayStates ==
  {"none", "open", "declined", "cancelled", "risky", "cleared", "voided"}

Routes == {"success", "fail", "cancel", "ipn"}

(* val: whether the callback names a validation, which only one about     *)
(* money taken does.                                                      *)
Report == [route: Routes, tran: Attempts, val: BOOLEAN]

Stages == {"idle", "insert", "session", "validate", "record", "credit"}

(* fee: the parcel's fee as read; to: the state to be recorded. *)
Work ==
  [stage: Stages, route: Routes \cup {"checkout"}, tran: Attempts \cup {NoAttempt},
   fee: Nat, to: OpenStates \cup {"REVIEW"}]

Idle ==
  [stage |-> "idle", route |-> "checkout", tran |-> NoAttempt, fee |-> 0,
   to |-> "INITIATED"]

PaymentsInit ==
  /\ Init
  /\ payments = [t \in Attempts |-> NoPayment]
  /\ credits = [t \in Attempts |-> 0]
  /\ gateway = [t \in Attempts |-> "none"]
  /\ reports = {}
  /\ work = [h \in Handlers |-> Idle]
  /\ toldPaid = {}
  /\ dropped = {}

-----------------------------------------------------------------------------
(* checkout *)

Turns(h, stage, tran, fee) ==
  work' = [work EXCEPT ![h] =
    [stage |-> stage, route |-> "checkout", tran |-> tran, fee |-> fee,
     to |-> "INITIATED"]]

Ends(h) == work' = [work EXCEPT ![h] = Idle]

Payable(p) == Exists(p) /\ p.payment = "UNPAID" /\ p.status \notin CLOSED_STATUSES

(* The parcel is read, and a fresh tranId drawn: Attempts bounds how many. *)
Checkout(h) ==
  /\ work[h].stage = "idle"
  /\ Payable(parcel)
  /\ \E t \in Attempts :
       /\ payments[t] = NoPayment
       /\ \A g \in Handlers : work[g].tran # t
       /\ Turns(h, "insert", t, parcel.fee)
  /\ UNCHANGED <<vars, payments, credits, gateway, reports, toldPaid, dropped>>

(* Mutant: the gateway is asked before the row is saved. *)
OpenAttemptLater(h) ==
  /\ work[h].stage = "insert"
  /\ Turns(h, "session", work[h].tran, 0)
  /\ UNCHANGED <<vars, payments, credits, gateway, reports, toldPaid, dropped>>

(* The row is inserted for the fee that was read. *)
OpenAttempt(h) ==
  /\ work[h].stage = "insert"
  /\ payments' = [payments EXCEPT ![work[h].tran] =
       [status |-> "INITIATED", amount |-> work[h].fee]]
  /\ Turns(h, "session", work[h].tran, 0)
  /\ UNCHANGED <<vars, credits, gateway, reports, toldPaid, dropped>>

(* The payer is sent to the gateway's page. *)
SessionOpens(h) ==
  /\ work[h].stage = "session"
  /\ gateway' = [gateway EXCEPT ![work[h].tran] = "open"]
  /\ Ends(h)
  /\ UNCHANGED <<vars, payments, credits, reports, toldPaid, dropped>>

(* No session: the attempt fails, whatever it is by now. *)
SessionFails(h) ==
  /\ work[h].stage = "session"
  /\ payments' = [payments EXCEPT ![work[h].tran] =
       [status |-> "FAILED", amount |-> @.amount]]
  /\ Ends(h)
  /\ UNCHANGED <<vars, credits, gateway, reports, toldPaid, dropped>>

-----------------------------------------------------------------------------
(* The gateway *)

Ask(t, val, routes) ==
  reports' = reports \cup {[route |-> r, tran |-> t, val |-> val] : r \in routes}

(* On the gateway's page the payer may try again after a decline.          *)
StillOpen(t) == gateway[t] \in {"open", "declined", "cancelled"}

Decline(t) ==
  /\ StillOpen(t)
  /\ gateway' = [gateway EXCEPT ![t] = "declined"]
  /\ Ask(t, FALSE, {"fail", "ipn"})
  /\ UNCHANGED <<vars, payments, credits, work, toldPaid, dropped>>

GiveUp(t) ==
  /\ StillOpen(t)
  /\ gateway' = [gateway EXCEPT ![t] = "cancelled"]
  /\ Ask(t, FALSE, {"cancel"})
  /\ UNCHANGED <<vars, payments, credits, work, toldPaid, dropped>>

TakeMoney(t) ==
  /\ StillOpen(t)
  /\ \E s \in {"cleared", "risky"} : gateway' = [gateway EXCEPT ![t] = s]
  /\ Ask(t, TRUE, {"success", "ipn"})
  /\ UNCHANGED <<vars, payments, credits, work, toldPaid, dropped>>

(* Someone looked at a risky payment in the merchant panel. *)
Approve(t) ==
  /\ gateway[t] = "risky"
  /\ gateway' = [gateway EXCEPT ![t] = "cleared"]
  /\ UNCHANGED <<vars, payments, credits, reports, work, toldPaid, dropped>>

(* The gateway no longer stands by the payment. *)
Void(t) ==
  /\ gateway[t] \in {"cleared", "risky"}
  /\ gateway' = [gateway EXCEPT ![t] = "voided"]
  /\ UNCHANGED <<vars, payments, credits, reports, work, toldPaid, dropped>>

-----------------------------------------------------------------------------
(* confirm and abandon *)

Job(r, stage, fee, to) ==
  [stage |-> stage, route |-> r.route, tran |-> r.tran, fee |-> fee, to |-> to]

(* The request is answered: the payer's browser with an outcome, the       *)
(* gateway's server with 200 whatever the outcome.                         *)
Reply(route, tran, outcome) ==
  toldPaid' = IF route # "ipn" /\ outcome = "paid" THEN toldPaid \cup {tran} ELSE toldPaid

Answer(h, outcome) == Ends(h) /\ Reply(work[h].route, work[h].tran, outcome)

(* A callback about a paid attempt is answered "paid" at once. *)
ReceivePaid(h, r) ==
  /\ work[h].stage = "idle"
  /\ r \in reports
  /\ payments[r.tran].status = "PAID"
  /\ Reply(r.route, r.tran, "paid")
  /\ UNCHANGED <<vars, payments, credits, gateway, reports, work, dropped>>

(* confirm: the attempt and its parcel's fee are read.  Without a          *)
(* validation id the attempt has failed.                                   *)
ReceiveConfirm(h, r) ==
  /\ work[h].stage = "idle"
  /\ r \in reports
  /\ r.route \in {"success", "ipn"}
  /\ payments[r.tran].status # "PAID"
  /\ work' = [work EXCEPT ![h] =
       IF r.val THEN Job(r, "validate", parcel.fee, "INITIATED")
       ELSE Job(r, "record", 0, "FAILED")]
  /\ UNCHANGED <<vars, payments, credits, gateway, reports, toldPaid, dropped>>

ReceiveAbandon(h, r) ==
  /\ work[h].stage = "idle"
  /\ r \in reports
  /\ r.route \in {"fail", "cancel"}
  /\ payments[r.tran].status # "PAID"
  /\ work' = [work EXCEPT ![h] =
       Job(r, "record", 0, IF r.route = "cancel" THEN "CANCELLED" ELSE "FAILED")]
  /\ UNCHANGED <<vars, payments, credits, gateway, reports, toldPaid, dropped>>

(* The validation call fails or times out: nothing is written, and the ipn *)
(* is answered 200 like any other, so the gateway need not send it again.  *)
Unreachable(h) ==
  /\ work[h].stage = "validate"
  /\ dropped' = IF work[h].route = "ipn" THEN dropped \cup {work[h].tran} ELSE dropped
  /\ Answer(h, "failed")
  /\ UNCHANGED <<vars, payments, credits, gateway, reports>>

Goes(h, stage, to) ==
  /\ work' = [work EXCEPT ![h] =
       [stage |-> stage, route |-> @.route, tran |-> @.tran, fee |-> @.fee, to |-> to]]
  /\ UNCHANGED <<vars, payments, credits, gateway, reports, toldPaid, dropped>>

(* mismatch: validation does not confirm the payment. *)
Refuse(h) ==
  /\ work[h].stage = "validate"
  /\ gateway[work[h].tran] = "voided"
  /\ Goes(h, "record", "FAILED")

Flag(h) ==
  /\ work[h].stage = "validate"
  /\ gateway[work[h].tran] = "risky"
  /\ Goes(h, "record", "REVIEW")

(* Mutant: the risk level is not looked at. *)
AcceptAnyRisk(h) ==
  /\ work[h].stage = "validate"
  /\ gateway[work[h].tran] \in {"cleared", "risky"}
  /\ Goes(h, "credit", "INITIATED")

Accept(h) ==
  /\ work[h].stage = "validate"
  /\ gateway[work[h].tran] = "cleared"
  /\ Goes(h, "credit", "INITIATED")

(* What the payer reads for the state recorded. *)
OutcomeOf(to) ==
  IF to = "REVIEW" THEN "review" ELSE IF to = "CANCELLED" THEN "cancelled" ELSE "failed"

(* Mutant: settleUnpaid trusts the state that was read. *)
RecordAlways(h) ==
  /\ work[h].stage = "record"
  /\ payments' = [payments EXCEPT ![work[h].tran] =
       [status |-> work[h].to, amount |-> @.amount]]
  /\ Answer(h, OutcomeOf(work[h].to))
  /\ UNCHANGED <<vars, credits, gateway, reports, dropped>>

(* settleUnpaid: a conditional update. *)
Record(h) ==
  /\ work[h].stage = "record"
  /\ payments' = [payments EXCEPT ![work[h].tran] =
       IF @.status \in OpenStates THEN [status |-> work[h].to, amount |-> @.amount] ELSE @]
  /\ Answer(h, OutcomeOf(work[h].to))
  /\ UNCHANGED <<vars, credits, gateway, reports, dropped>>

(* Mutant: the parcel is marked paid without looking at what it owes. *)
markFeePaidAlways == parcel' = [parcel EXCEPT !.payment = "PAID"]

(* markFeePaid: a conditional update, so a parcel that owes nothing is     *)
(* left alone.                                                             *)
markFeePaid ==
  parcel' = [parcel EXCEPT !.payment = IF @ = "UNPAID" THEN "PAID" ELSE @]

(* Mutant: the ledger row and the parcel do not wait for the update to     *)
(* have changed a row.                                                     *)
CreditAlways(h) ==
  /\ work[h].stage = "credit"
  /\ payments' = [payments EXCEPT ![work[h].tran] =
       IF @.status \in OpenStates THEN [status |-> "PAID", amount |-> @.amount] ELSE @]
  /\ credits' = [credits EXCEPT ![work[h].tran] = @ + 1]
  /\ IF payments[work[h].tran].amount >= work[h].fee THEN markFeePaid
     ELSE UNCHANGED parcel
  /\ Answer(h, "paid")
  /\ UNCHANGED <<books, logged, gateway, reports, dropped>>

(* Mutant: the parcel is marked whether or not the update changed a row.   *)
CreditParcelAnyway(h) ==
  /\ work[h].stage = "credit"
  /\ IF payments[work[h].tran].status \in OpenStates
     THEN /\ payments' = [payments EXCEPT ![work[h].tran] =
               [status |-> "PAID", amount |-> @.amount]]
          /\ credits' = [credits EXCEPT ![work[h].tran] = @ + 1]
     ELSE UNCHANGED <<payments, credits>>
  /\ IF payments[work[h].tran].amount >= work[h].fee THEN markFeePaid
     ELSE UNCHANGED parcel
  /\ Answer(h, "paid")
  /\ UNCHANGED <<books, logged, gateway, reports, dropped>>

(* One transaction: the conditional update, the ledger row, and the parcel *)
(* when the amount covers the fee that was read.                           *)
Credit(h) ==
  /\ work[h].stage = "credit"
  /\ IF payments[work[h].tran].status \in OpenStates
     THEN /\ payments' = [payments EXCEPT ![work[h].tran] =
               [status |-> "PAID", amount |-> @.amount]]
          /\ credits' = [credits EXCEPT ![work[h].tran] = @ + 1]
          /\ IF payments[work[h].tran].amount >= work[h].fee THEN markFeePaid
             ELSE UNCHANGED parcel
     ELSE UNCHANGED <<payments, credits, parcel>>
  /\ Answer(h, "paid")
  /\ UNCHANGED <<books, logged, gateway, reports, dropped>>

(* The process stops, or the platform cuts the request off: what it had    *)
(* not committed is gone, and nobody is answered.                          *)
Stop(h) ==
  /\ work[h].stage # "idle"
  /\ Ends(h)
  /\ UNCHANGED <<vars, payments, credits, gateway, reports, toldPaid, dropped>>

-----------------------------------------------------------------------------
GatewayStep(t) == Decline(t) \/ GiveUp(t) \/ TakeMoney(t) \/ Approve(t) \/ Void(t)

Receive(h, r) == ReceivePaid(h, r) \/ ReceiveConfirm(h, r) \/ ReceiveAbandon(h, r)

Proceed(h) ==
  \/ OpenAttempt(h) \/ SessionOpens(h) \/ SessionFails(h)
  \/ Unreachable(h) \/ Refuse(h) \/ Flag(h) \/ Accept(h)
  \/ Record(h) \/ Credit(h)

ParcelStep == (\E a \in Parties : Serve(a)) /\ UNCHANGED paymentVars

PaymentsNext ==
  \/ \E t \in Attempts : GatewayStep(t)
  \/ \E h \in Handlers : Checkout(h) \/ Proceed(h) \/ Stop(h)
  \/ \E h \in Handlers, r \in Report : Receive(h, r)
  \/ ParcelStep

PaymentsSpec == PaymentsInit /\ [][PaymentsNext]_allVars

-----------------------------------------------------------------------------
(* Fairness *)

IpnJob(h, t) == work[h].route = "ipn" /\ work[h].tran = t

ValidationEnds(h) == Unreachable(h) \/ Refuse(h) \/ Flag(h) \/ Accept(h)

(* A request under way is not cut off for ever: fair platform.  A          *)
(* validation call gets an answer or a timeout, no matter which.           *)
RequestsEnd ==
  \A h \in Handlers :
    /\ WF_allVars(Proceed(h))
    /\ \A t \in Attempts :
         /\ SF_allVars(IpnJob(h, t) /\ ValidationEnds(h))
         /\ SF_allVars(IpnJob(h, t) /\ Record(h))
         /\ SF_allVars(IpnJob(h, t) /\ Credit(h))

IpnOf(t) == [route |-> "ipn", tran |-> t, val |-> TRUE]

(* The ipn of an attempt that took money is sent until it is answered 200. *)
(* A request that stopped half way answered nothing; one whose validation  *)
(* call failed answered 200, and after that the gateway owes no other.     *)
GatewayInsists ==
  \A t \in Attempts, h \in Handlers :
    SF_allVars(t \notin dropped /\ ReceiveConfirm(h, IpnOf(t)))

(* The validation call is answered in time now and then. *)
GatewayAnswers ==
  \A t \in Attempts, h \in Handlers :
    SF_allVars(work[h].tran = t /\ (Accept(h) \/ Flag(h) \/ Refuse(h)))

-----------------------------------------------------------------------------
(* Properties *)

(* Types; a request works on an attempt that exists once it has one.       *)
PaymentsOK ==
  /\ payments \in [Attempts -> Payment]
  /\ credits \in [Attempts -> Nat]
  /\ gateway \in [Attempts -> GatewayStates]
  /\ reports \subseteq Report
  /\ work \in [Handlers -> Work]
  /\ toldPaid \cup dropped \subseteq Attempts
  /\ \A h \in Handlers :
       /\ work[h].stage # "idle" => work[h].tran \in Attempts
       /\ work[h].stage \notin {"idle", "insert"} => payments[work[h].tran].status # "NONE"

(* The success redirect and the ipn, in whatever order, however often and  *)
(* however far apart their reads and writes, credit the fee once between   *)
(* them: the ledger has one FEE_PAYMENT row exactly for the paid attempts. *)
CreditedOnce ==
  \A t \in Attempts : credits[t] = IF payments[t].status = "PAID" THEN 1 ELSE 0

(* Nothing is credited that the gateway has not cleared: a payment it holds*)
(* as risky is never paid while it is held.                                *)
PaidWasCleared ==
  \A t \in Attempts : payments[t].status = "PAID" => gateway[t] \in {"cleared", "voided"}

(* "Never undoes a payment": a late fail, cancel or refused validation that*)
(* read the attempt before it was settled leaves PAID and REVIEW alone.    *)
SettledStays ==
  [][\A t \in Attempts :
       payments[t].status \in {"PAID", "REVIEW"} => payments'[t] = payments[t]]_allVars

(* A parcel counts as paid only when one of its attempts is paid.          *)
PaidIsBacked ==
  parcel.payment = "PAID" => \E t \in Attempts : payments[t].status = "PAID"

(* Whatever the callbacks do, the parcel moves as ParcelFlow says: a parcel*)
(* that owes nothing, or is paid, is not touched by a confirmation.        *)
KeepsParcelFlow == Spec

(* Money the gateway took is credited or held for review in the end, also  *)
(* after the attempt was recorded as failed or cancelled, and however often*)
(* a request stops half way.  The one way to lose it is an ipn answered 200*)
(* while the validation call failed.                                       *)
MoneyIsCredited ==
  \A t \in Attempts :
    gateway[t] = "cleared" ~>
      \/ payments[t].status \in {"PAID", "REVIEW"}
      \/ gateway[t] = "voided"
      \/ t \in dropped

-----------------------------------------------------------------------------
(* What documents and comments say, refuted by the code *)

(* "Leave it INITIATED: the IPN, or the sender retrying, will confirm it   *)
(* once the gateway answers again": a failed validation call costs nothing *)
(* but time.                                                               *)
MoneyIsConfirmed ==
  \A t \in Attempts :
    gateway[t] = "cleared" ~>
      payments[t].status \in {"PAID", "REVIEW"} \/ gateway[t] = "voided"

(* The payer who is sent to status=paid has a fee credited.                *)
ToldPaidIsPaid == \A t \in toldPaid : payments[t].status = "PAID"

=============================================================================
