-------------------------- MODULE Payments_proofs --------------------------
(***************************************************************************)
(* Crediting, for any number of attempts, requests in flight and callbacks,*)
(* and what becomes of the parcel meanwhile.                               *)
(***************************************************************************)
EXTENDS Payments, ParcelFlow_proofs

Typed ==
  /\ payments \in [Attempts -> Payment]
  /\ credits \in [Attempts -> Nat]
  /\ gateway \in [Attempts -> GatewayStates]
  /\ reports \subseteq Report
  /\ work \in [Handlers -> Work]
  /\ toldPaid \subseteq Attempts

(* A row, its ledger rows and what the gateway knows of the attempt. *)
RowOK(row, n, state) ==
  /\ state # "none" => row.status # "NONE"
  /\ row.status \in {"PAID", "REVIEW"} => state # "none"
  /\ row.status = "PAID" => state \in {"cleared", "voided"}
  /\ n = IF row.status = "PAID" THEN 1 ELSE 0

(* A request and the attempt it is about.  The gateway hears of an attempt *)
(* only once its row is there, and nothing is reported before that.        *)
JobOK(w) ==
  /\ w.stage = "idle" => w.tran = NoAttempt
  /\ w.stage # "idle" => w.tran \in Attempts
  /\ w.stage = "insert" => payments[w.tran].status = "NONE" /\ Exists(parcel)
  /\ w.stage = "session" => payments[w.tran].status # "NONE"
  /\ w.stage \in {"insert", "session"} => gateway[w.tran] = "none"
  /\ w.stage \in {"validate", "record", "credit"} => gateway[w.tran] # "none"
  /\ w.stage = "credit" => gateway[w.tran] \in {"cleared", "voided"}

(* Until its session opens, an attempt belongs to one checkout. *)
Unshared ==
  \A h, g \in Handlers :
    work[h].stage \in {"insert", "session"} /\ g # h => work[g].tran # work[h].tran

Sent == \A r \in reports : gateway[r.tran] # "none"

Booked == \A t \in Attempts : payments[t].status # "NONE" => Exists(parcel)

PInv ==
  /\ IInv
  /\ Typed
  /\ \A t \in Attempts : RowOK(payments[t], credits[t], gateway[t])
  /\ \A h \in Handlers : JobOK(work[h])
  /\ Unshared
  /\ Sent
  /\ Booked
  /\ PaidIsBacked

-----------------------------------------------------------------------------
(* Shapes of steps *)

LEMMA WorkType ==
  ASSUME NEW stage \in Stages, NEW route \in Routes \cup {"checkout"},
         NEW tran \in Attempts \cup {NoAttempt}, NEW fee \in Nat,
         NEW to \in OpenStates \cup {"REVIEW"}
  PROVE  [stage |-> stage, route |-> route, tran |-> tran, fee |-> fee, to |-> to] \in Work
BY DEF Work

LEMMA IdleType == Idle \in Work /\ Idle.stage = "idle" /\ Idle.tran = NoAttempt
<1>1. /\ "idle" \in Stages
      /\ "checkout" \in Routes \cup {"checkout"}
      /\ NoAttempt \in Attempts \cup {NoAttempt}
      /\ 0 \in Nat
      /\ "INITIATED" \in OpenStates \cup {"REVIEW"}
  BY DEF Stages, OpenStates
<1>2. Idle \in Work
  BY <1>1, WorkType, Zenon DEF Idle
<1>. QED
  BY <1>2, Zenon DEF Idle

LEMMA BecomesFacts ==
  ASSUME work \in [Handlers -> Work], NEW h \in Handlers, NEW w \in Work,
         work' = [work EXCEPT ![h] = w]
  PROVE  /\ work' \in [Handlers -> Work]
         /\ work'[h] = w
         /\ \A g \in Handlers : g # h => work'[g] = work[g]
OBVIOUS

LEMMA ReplyType ==
  ASSUME Typed, NEW tran \in Attempts, NEW route, NEW outcome, Reply(route, tran, outcome)
  PROVE  toldPaid' \subseteq Attempts
BY DEF Typed, Reply

(* A request goes on and writes nothing. *)
LEMMA MoveKeeps ==
  ASSUME PInv, NEW h \in Handlers, NEW w \in Work, JobOK(w),
         work' = [work EXCEPT ![h] = w],
         w.stage \in {"insert", "session"} =>
           \A g \in Handlers : g # h => work[g].tran # w.tran,
         UNCHANGED <<vars, payments, credits, gateway, reports>>,
         toldPaid' \subseteq Attempts
  PROVE  PInv'
<1>1. /\ work' \in [Handlers -> Work]
      /\ work'[h] = w
      /\ \A g \in Handlers : g # h => work'[g] = work[g]
  BY BecomesFacts DEF PInv, Typed
<1>2. IInv'
  BY StutterKeeps DEF PInv
<1>3. Typed' /\ Sent'
  BY <1>1 DEF PInv, Typed, Sent
<1>4. \A t \in Attempts : RowOK(payments[t], credits[t], gateway[t])'
  BY DEF PInv, RowOK
<1>5. ASSUME NEW g \in Handlers
      PROVE  JobOK(work[g])'
  <2>1. JobOK(work'[g])
    BY <1>1 DEF PInv
  <2>. QED
    BY <2>1 DEF JobOK, vars
<1>6. Unshared'
  <2>1. ASSUME NEW f \in Handlers, NEW g \in Handlers, g # f,
               work'[f].stage \in {"insert", "session"}
        PROVE  work'[g].tran # work'[f].tran
    <3>1. CASE f = h
      BY <1>1, <2>1, <3>1
    <3>2. CASE g = h
      <4>1. work'[f] = work[f] /\ JobOK(work[f])
        BY <1>1, <2>1, <3>2 DEF PInv
      <4>2. work[f].tran \in Attempts /\ gateway[work[f].tran] = "none"
        BY <2>1, <4>1 DEF JobOK
      <4>3. CASE w.stage \in {"insert", "session"}
        BY <1>1, <2>1, <3>2, <4>1, <4>3
      <4>4. CASE w.stage = "idle"
        BY <1>1, <3>2, <4>1, <4>2, <4>4, NoAttemptAssumption DEF JobOK
      <4>5. CASE w.stage \in {"validate", "record", "credit"}
        BY <1>1, <3>2, <4>1, <4>2, <4>5 DEF JobOK
      <4>. QED
        BY <4>3, <4>4, <4>5 DEF Work, Stages
    <3>3. CASE f # h /\ g # h
      BY <1>1, <2>1, <3>3 DEF PInv, Unshared
    <3>. QED
      BY <3>1, <3>2, <3>3
  <2>. QED
    BY <2>1 DEF Unshared
<1>7. Booked' /\ PaidIsBacked'
  BY DEF PInv, Booked, PaidIsBacked, vars
<1>. QED
  BY <1>2, <1>3, <1>4, <1>5, <1>6, <1>7 DEF PInv

LEMMA EndKeeps ==
  ASSUME PInv, NEW h \in Handlers, Ends(h),
         UNCHANGED <<vars, payments, credits, gateway, reports>>,
         toldPaid' \subseteq Attempts
  PROVE  PInv'
<1>1. JobOK(Idle)
  BY IdleType DEF JobOK
<1>. QED
  BY <1>1, IdleType, MoveKeeps DEF Ends

(* A request writes its attempt, and ends or goes on to open its session. *)
LEMMA RowKeeps ==
  ASSUME PInv, IInv', PaidIsBacked', Exists(parcel'),
         NEW h \in Handlers, NEW t \in Attempts, work[h].tran = t,
         NEW row \in Payment, row.status # "NONE", NEW n \in Nat,
         RowOK(row, n, gateway[t]),
         NEW w \in Work, JobOK(w)',
         \/ w = Idle
         \/ w.stage = "session" /\ w.tran = t /\ work[h].stage = "insert",
         payments' = [payments EXCEPT ![t] = row],
         credits' = [credits EXCEPT ![t] = n],
         work' = [work EXCEPT ![h] = w],
         UNCHANGED <<gateway, reports>>,
         toldPaid' \subseteq Attempts,
         work[h].stage \in {"insert", "session"} \/ gateway[t] # "none"
  PROVE  PInv'
<1>1. /\ work' \in [Handlers -> Work]
      /\ work'[h] = w
      /\ \A g \in Handlers : g # h => work'[g] = work[g]
  BY BecomesFacts DEF PInv, Typed
<1>2. /\ payments' \in [Attempts -> Payment]
      /\ payments'[t] = row
      /\ \A s \in Attempts : s # t => payments'[s] = payments[s]
      /\ credits' \in [Attempts -> Nat]
      /\ credits'[t] = n
      /\ \A s \in Attempts : s # t => credits'[s] = credits[s]
  BY DEF PInv, Typed
<1>3. Typed' /\ Sent' /\ Booked'
  BY <1>1, <1>2 DEF PInv, Typed, Sent, Booked
<1>4. ASSUME NEW s \in Attempts
      PROVE  RowOK(payments[s], credits[s], gateway[s])'
  <2>1. RowOK(payments'[s], credits'[s], gateway[s])
    BY <1>2 DEF PInv
  <2>. QED
    BY <2>1 DEF RowOK
<1>5. ASSUME NEW g \in Handlers
      PROVE  JobOK(work[g])'
  <2>1. CASE g = h
    BY <1>1, <2>1 DEF JobOK
  <2>2. CASE g # h
    <3>1. work'[g] = work[g] /\ JobOK(work[g])
      BY <1>1, <2>2 DEF PInv
    <3>2. work[g].stage = "insert" => work[g].tran # t
      BY <2>2, <3>1 DEF PInv, Unshared, JobOK
    <3>3. work[g].stage # "idle" => work[g].tran \in Attempts
      BY <3>1 DEF JobOK
    <3>. QED
      BY <1>2, <3>1, <3>2, <3>3 DEF JobOK
  <2>. QED
    BY <2>1, <2>2
<1>6. Unshared'
  <2>1. ASSUME NEW f \in Handlers, NEW g \in Handlers, g # f,
               work'[f].stage \in {"insert", "session"}
        PROVE  work'[g].tran # work'[f].tran
    <3>1. CASE f = h
      BY <1>1, <2>1, <3>1, IdleType DEF PInv, Unshared
    <3>2. CASE g = h
      BY <1>1, <2>1, <3>2, IdleType, NoAttemptAssumption DEF PInv, Unshared, JobOK
    <3>3. CASE f # h /\ g # h
      BY <1>1, <2>1, <3>3 DEF PInv, Unshared
    <3>. QED
      BY <3>1, <3>2, <3>3
  <2>. QED
    BY <2>1 DEF Unshared
<1>. QED
  BY <1>3, <1>4, <1>5, <1>6 DEF PInv

(* The gateway learns something about an attempt whose session is open.    *)
LEMMA GatewayKeeps ==
  ASSUME PInv, NEW t \in Attempts, NEW s \in GatewayStates, s # "none",
         gateway[t] # "none",
         gateway[t] \in {"cleared", "voided"} => s \in {"cleared", "voided"},
         gateway' = [gateway EXCEPT ![t] = s],
         reports' \subseteq Report,
         \A r \in reports' : r \in reports \/ r.tran = t,
         UNCHANGED <<vars, payments, credits, work, toldPaid, dropped>>
  PROVE  PInv'
<1>1. /\ gateway' \in [Attempts -> GatewayStates]
      /\ gateway'[t] = s
      /\ \A u \in Attempts : u # t => gateway'[u] = gateway[u]
  BY DEF PInv, Typed
<1>2. IInv'
  BY StutterKeeps DEF PInv
<1>3. Typed'
  BY <1>1 DEF PInv, Typed
<1>4. Sent'
  BY <1>1 DEF PInv, Typed, Sent, Report
<1>5. ASSUME NEW u \in Attempts
      PROVE  RowOK(payments[u], credits[u], gateway[u])'
  <2>1. RowOK(payments[u], credits[u], gateway[u])
    BY DEF PInv
  <2>2. RowOK(payments[u], credits[u], gateway'[u])
    BY <1>1, <2>1 DEF RowOK
  <2>. QED
    BY <2>2 DEF RowOK
<1>6. ASSUME NEW h \in Handlers
      PROVE  JobOK(work[h])'
  <2>1. JobOK(work[h])
    BY DEF PInv
  <2>2. work[h].stage # "idle" => work[h].tran \in Attempts
    BY <2>1 DEF JobOK
  <2>. QED
    BY <1>1, <2>1, <2>2 DEF JobOK, vars
<1>7. Unshared' /\ Booked' /\ PaidIsBacked'
  BY DEF PInv, Unshared, Booked, PaidIsBacked, vars
<1>. QED
  BY <1>2, <1>3, <1>4, <1>5, <1>6, <1>7 DEF PInv

-----------------------------------------------------------------------------
(* The parcel's own routes *)

(* No route unbooks a parcel, and none makes it paid. *)
LEMMA ServeFacts ==
  ASSUME IInv, NEW a \in Actors, Serve(a)
  PROVE  /\ Exists(parcel')
         /\ parcel'.payment = "PAID" => parcel.payment = "PAID"
<1>1. parcel \in Parcel
  BY DEF IInv, TypeOK
<1>2. Courierless(parcel)
  BY DEF IInv, Unbooked, NoParcel, Courierless, Exists
<1>3. ASSUME NEW c, Commit(c), c.after.status # "UNBOOKED",
             c.after.payment = "PAID" => parcel.payment = "PAID"
      PROVE  /\ Exists(parcel')
             /\ parcel'.payment = "PAID" => parcel.payment = "PAID"
  BY <1>3 DEF Commit, Exists
<1>4. ASSUME NEW c \in Otherwise(parcel, a), Commit(c)
      PROVE  /\ Exists(parcel')
             /\ parcel'.payment = "PAID" => parcel.payment = "PAID"
  BY <1>1, <1>2, <1>3, <1>4, OtherwisePlain DEF Plain
<1>5. ASSUME NEW c \in create(parcel, a), Commit(c)
      PROVE  /\ Exists(parcel')
             /\ parcel'.payment = "PAID" => parcel.payment = "PAID"
  <2>1. PICK q \in Quotes :
          c = Saves(parcel, a, "PENDING",
                [status |-> "PENDING", cod |-> q.cod, fee |-> q.fee, codFee |-> q.codFee,
                 back |-> q.back, payment |-> paymentStatusFor(q)],
                bookingEntries(q.fee))
    BY <1>5 DEF create
  <2>2. c.after.status = "PENDING" /\ c.after.payment # "PAID"
    BY <1>1, <2>1, SMT DEF Saves, Decides, With, Columns, paymentStatusFor
  <2>. QED
    BY <1>3, <1>5, <2>2
<1>6. ASSUME NEW code, NEW c \in proofOfHandover(parcel, a, code), Commit(c)
      PROVE  /\ Exists(parcel')
             /\ parcel'.payment = "PAID" => parcel.payment = "PAID"
  BY <1>1, <1>3, <1>6, HandOverFacts
<1>7. ASSUME NEW code \in Codes, NEW c \in wrongCode(parcel, a, code),
             proofOfHandover(parcel, a, code) # {}, Commit(c)
      PROVE  /\ Exists(parcel')
             /\ parcel'.payment = "PAID" => parcel.payment = "PAID"
  <2>1. Exists(parcel)
    BY <1>1, <1>7, HandOverFacts
  <2>2. c.after.status = parcel.status /\ c.after.payment = parcel.payment
    BY <1>1, <1>7, SMT DEF wrongCode, Updates, Decides, With, Columns
  <2>. QED
    BY <1>3, <1>7, <2>1, <2>2 DEF Exists
<1>8. CASE \/ UpdateStatusAlong(a) \/ UpdateStatusOut(a) \/ UpdateStatusDelivered(a)
           \/ UpdateStatusReturned(a) \/ UpdateStatusCancelled(a) \/ RecordFailedAttempt(a)
           \/ RescheduleDelivery(a) \/ UpdateParcel(a) \/ ReissueDeliveryCode(a)
  BY <1>4, <1>8, Zenon DEF Otherwise, UpdateStatusAlong, UpdateStatusOut,
    UpdateStatusDelivered, UpdateStatusReturned, UpdateStatusCancelled, RecordFailedAttempt,
    RescheduleDelivery, UpdateParcel, ReissueDeliveryCode
<1>9. CASE \/ AssignDeliveryPersonnel(a) \/ UnassignDeliveryPersonnel(a) \/ CancelParcel(a)
           \/ ConfirmDelivery(a) \/ SetBlocked(a) \/ AttachProof(a)
  BY <1>4, <1>9, Zenon DEF Otherwise, AssignDeliveryPersonnel, UnassignDeliveryPersonnel,
    CancelParcel, ConfirmDelivery, SetBlocked, AttachProof
<1>10. CASE \E code \in Codes \cup {NoCode} : HandOver(a, code)
  BY <1>6, <1>10, Zenon DEF HandOver
<1>11. CASE \E code \in Codes : CountWrongCode(a, code)
  BY <1>7, <1>11, Zenon DEF CountWrongCode
<1>12. CASE Create(a)
  BY <1>5, <1>12, Zenon DEF Create
<1>. QED
  BY <1>8, <1>9, <1>10, <1>11, <1>12, Zenon DEF Serve

LEMMA ParcelStepKeeps ==
  ASSUME PInv, ParcelStep
  PROVE  PInv'
<1>1. PICK a \in Actors : Serve(a)
  BY PartiesAssumption DEF ParcelStep
<1>2. UNCHANGED <<payments, credits, gateway, reports, work, toldPaid, dropped>>
  BY DEF ParcelStep, paymentVars
<1>3. IInv'
  BY <1>1, ServeKeeps DEF PInv
<1>4. Exists(parcel') /\ (parcel'.payment = "PAID" => parcel.payment = "PAID")
  BY <1>1, ServeFacts DEF PInv
<1>5. Typed' /\ Unshared' /\ Sent'
  BY <1>2 DEF PInv, Typed, Unshared, Sent
<1>6. ASSUME NEW h \in Handlers
      PROVE  JobOK(work[h])'
  BY <1>2, <1>4 DEF PInv, JobOK
<1>7. \A t \in Attempts : RowOK(payments[t], credits[t], gateway[t])'
  BY <1>2 DEF PInv, RowOK
<1>8. Booked' /\ PaidIsBacked'
  BY <1>2, <1>4 DEF PInv, Booked, PaidIsBacked
<1>. QED
  BY <1>3, <1>5, <1>6, <1>7, <1>8 DEF PInv

-----------------------------------------------------------------------------
(* The gateway's steps *)

LEMMA AskType ==
  ASSUME Typed, NEW t \in Attempts, NEW val \in BOOLEAN, NEW routes \in SUBSET Routes,
         Ask(t, val, routes)
  PROVE  /\ reports' \subseteq Report
         /\ \A r \in reports' : r \in reports \/ r.tran = t
BY DEF Typed, Ask, Report

LEMMA DeclineKeeps ==
  ASSUME PInv, NEW t \in Attempts, Decline(t)
  PROVE  PInv'
<1>1. FALSE \in BOOLEAN /\ {"fail", "ipn"} \in SUBSET Routes
  BY DEF Routes
<1>2. reports' \subseteq Report /\ \A r \in reports' : r \in reports \/ r.tran = t
  BY <1>1, AskType DEF Decline, PInv
<1>. QED
  BY <1>2, GatewayKeeps DEF Decline, StillOpen, GatewayStates

LEMMA GiveUpKeeps ==
  ASSUME PInv, NEW t \in Attempts, GiveUp(t)
  PROVE  PInv'
<1>1. FALSE \in BOOLEAN /\ {"cancel"} \in SUBSET Routes
  BY DEF Routes
<1>2. reports' \subseteq Report /\ \A r \in reports' : r \in reports \/ r.tran = t
  BY <1>1, AskType DEF GiveUp, PInv
<1>. QED
  BY <1>2, GatewayKeeps DEF GiveUp, StillOpen, GatewayStates

LEMMA TakeMoneyKeeps ==
  ASSUME PInv, NEW t \in Attempts, TakeMoney(t)
  PROVE  PInv'
<1>1. TRUE \in BOOLEAN /\ {"success", "ipn"} \in SUBSET Routes
  BY DEF Routes
<1>2. reports' \subseteq Report /\ \A r \in reports' : r \in reports \/ r.tran = t
  BY <1>1, AskType DEF TakeMoney, PInv
<1>3. PICK s \in {"cleared", "risky"} : gateway' = [gateway EXCEPT ![t] = s]
  BY DEF TakeMoney
<1>. QED
  BY <1>2, <1>3, GatewayKeeps DEF TakeMoney, StillOpen, GatewayStates

LEMMA LookedAtKeeps ==
  ASSUME PInv, NEW t \in Attempts, Approve(t) \/ Void(t)
  PROVE  PInv'
<1>1. reports' \subseteq Report /\ \A r \in reports' : r \in reports \/ r.tran = t
  BY DEF PInv, Typed, Approve, Void
<1>. QED
  BY <1>1, GatewayKeeps DEF Approve, Void, GatewayStates

-----------------------------------------------------------------------------
(* The steps of a request *)

LEMMA CheckoutKeeps ==
  ASSUME PInv, NEW h \in Handlers, Checkout(h)
  PROVE  PInv'
<1>1. PICK t \in Attempts :
        /\ payments[t] = NoPayment
        /\ \A g \in Handlers : work[g].tran # t
        /\ Turns(h, "insert", t, parcel.fee)
  BY DEF Checkout
<1> DEFINE w == [stage |-> "insert", route |-> "checkout", tran |-> t, fee |-> parcel.fee,
                 to |-> "INITIATED"]
<1>2. w \in Work
  BY WorkType DEF Stages, OpenStates, PInv, IInv, TypeOK, Parcel
<1>3. w.stage = "insert" /\ w.tran = t
  OBVIOUS
<1>4. work' = [work EXCEPT ![h] = w]
  BY <1>1 DEF Turns
<1>5. payments[t].status = "NONE" /\ gateway[t] = "none" /\ Exists(parcel)
  BY <1>1 DEF PInv, RowOK, NoPayment, Checkout, Payable
<1> HIDE DEF w
<1>6. JobOK(w)
  BY <1>3, <1>5 DEF JobOK
<1>. QED
  BY <1>1, <1>2, <1>3, <1>4, <1>6, MoveKeeps DEF Checkout, PInv, Typed

(* What is known of the request that takes a step. *)
LEMMA JobFacts ==
  ASSUME PInv, NEW h \in Handlers, work[h].stage # "idle"
  PROVE  /\ work[h] \in Work
         /\ JobOK(work[h])
         /\ work[h].tran \in Attempts
         /\ payments[work[h].tran] \in Payment
         /\ credits[work[h].tran] \in Nat
         /\ RowOK(payments[work[h].tran], credits[work[h].tran], gateway[work[h].tran])
BY DEF PInv, Typed, JobOK

LEMMA OpenAttemptKeeps ==
  ASSUME PInv, NEW h \in Handlers, OpenAttempt(h)
  PROVE  PInv'
<1>1. /\ work[h] \in Work
      /\ JobOK(work[h])
      /\ work[h].tran \in Attempts
      /\ credits[work[h].tran] \in Nat
      /\ RowOK(payments[work[h].tran], credits[work[h].tran], gateway[work[h].tran])
  BY JobFacts DEF OpenAttempt
<1>2. PICK t \in Attempts : t = work[h].tran
  BY <1>1
<1>3. /\ payments[t].status = "NONE"
      /\ Exists(parcel)
      /\ gateway[t] = "none"
      /\ credits[t] = 0
  BY <1>1, <1>2 DEF OpenAttempt, JobOK, RowOK
<1>4. PICK row \in Payment : /\ row.status = "INITIATED"
                             /\ payments' = [payments EXCEPT ![t] = row]
  <2> DEFINE new == [status |-> "INITIATED", amount |-> work[h].fee]
  <2>1. new \in Payment /\ new.status = "INITIATED"
    BY <1>1 DEF Payment, PaymentState, Work
  <2>2. payments' = [payments EXCEPT ![t] = new]
    BY <1>2 DEF OpenAttempt
  <2>. QED
    BY <2>1, <2>2
<1>5. PICK w \in Work : /\ w.stage = "session"
                        /\ w.tran = t
                        /\ work' = [work EXCEPT ![h] = w]
  <2> DEFINE new == [stage |-> "session", route |-> "checkout", tran |-> t, fee |-> 0,
                     to |-> "INITIATED"]
  <2>1. new \in Work /\ new.stage = "session" /\ new.tran = t
    BY WorkType DEF Stages, OpenStates
  <2>2. work' = [work EXCEPT ![h] = new]
    BY <1>2 DEF OpenAttempt, Turns
  <2>. QED
    BY <2>1, <2>2
<1>6. credits' = [credits EXCEPT ![t] = 0]
  BY <1>3 DEF OpenAttempt, PInv, Typed
<1>7. RowOK(row, 0, gateway[t])
  BY <1>3, <1>4 DEF RowOK
<1>8. JobOK(w)'
  <2>1. payments'[t] = row /\ gateway' = gateway
    BY <1>4 DEF PInv, Typed, OpenAttempt
  <2>. QED
    BY <1>3, <1>4, <1>5, <2>1 DEF JobOK
<1>9. IInv' /\ Exists(parcel')
  BY <1>3, StutterKeeps DEF PInv, OpenAttempt, vars
<1>10. PaidIsBacked'
  BY <1>3, <1>4 DEF PInv, Typed, PaidIsBacked, OpenAttempt, vars
<1>11. work[h].stage = "insert" /\ UNCHANGED <<gateway, reports, toldPaid, dropped>>
  BY DEF OpenAttempt
<1>. QED
  BY <1>2, <1>4, <1>5, <1>6, <1>7, <1>8, <1>9, <1>10, <1>11, RowKeeps DEF PInv, Typed

(* A row written over one that was not paid, with no money moved, by a     *)
(* request that ends.                                                      *)
LEMMA OverwriteKeeps ==
  ASSUME PInv, NEW h \in Handlers, work[h].stage # "idle", NEW row \in Payment,
         row.status \in {"INITIATED", "FAILED", "CANCELLED", "REVIEW"},
         payments[work[h].tran].status \notin {"PAID", "NONE"},
         row.status = "REVIEW" => gateway[work[h].tran] # "none",
         work[h].stage = "session" \/ gateway[work[h].tran] # "none",
         payments' = [payments EXCEPT ![work[h].tran] = row],
         Ends(h), UNCHANGED <<vars, credits, gateway, reports>>, toldPaid' \subseteq Attempts
  PROVE  PInv'
<1> DEFINE t == work[h].tran
<1>1. /\ t \in Attempts
      /\ credits[t] \in Nat
      /\ RowOK(payments[t], credits[t], gateway[t])
  BY JobFacts
<1>2. RowOK(row, credits[t], gateway[t])
  BY <1>1 DEF RowOK
<1>3. credits' = [credits EXCEPT ![t] = credits[t]]
  BY DEF PInv, Typed
<1>4. work' = [work EXCEPT ![h] = Idle] /\ JobOK(Idle)'
  BY IdleType DEF Ends, JobOK
<1>5. IInv' /\ Exists(parcel')
  BY <1>1, StutterKeeps DEF PInv, Booked, vars
<1>6. PaidIsBacked'
  BY <1>1 DEF PInv, Typed, PaidIsBacked, vars
<1>. QED
  BY <1>1, <1>2, <1>3, <1>4, <1>5, <1>6, IdleType, RowKeeps

LEMMA SessionFailsKeeps ==
  ASSUME PInv, NEW h \in Handlers, SessionFails(h)
  PROVE  PInv'
<1> DEFINE t == work[h].tran
           row == [status |-> "FAILED", amount |-> payments[t].amount]
<1>1. /\ t \in Attempts
      /\ payments[t] \in Payment
      /\ JobOK(work[h])
      /\ RowOK(payments[t], credits[t], gateway[t])
  BY JobFacts DEF SessionFails
<1>2. payments[t].status \notin {"PAID", "NONE"}
  BY <1>1 DEF SessionFails, JobOK, RowOK
<1>3. row \in Payment /\ row.status = "FAILED"
  BY <1>1 DEF Payment, PaymentState
<1>4. payments' = [payments EXCEPT ![t] = row]
  BY <1>1 DEF SessionFails, PInv, Typed
<1> HIDE DEF row
<1>. QED
  BY <1>1, <1>2, <1>3, <1>4, OverwriteKeeps DEF SessionFails, PInv, Typed

LEMMA RecordKeeps ==
  ASSUME PInv, NEW h \in Handlers, Record(h)
  PROVE  PInv'
<1> DEFINE t == work[h].tran
           row == [status |-> work[h].to, amount |-> payments[t].amount]
<1>1. /\ t \in Attempts
      /\ payments[t] \in Payment
      /\ work[h] \in Work
      /\ JobOK(work[h])
  BY JobFacts DEF Record
<1>2. gateway[t] # "none"
  BY <1>1 DEF Record, JobOK
<1>3. Ends(h) /\ toldPaid' \subseteq Attempts
  BY <1>1, ReplyType DEF Record, Answer, PInv
<1>4. CASE payments[t].status \in OpenStates
  <2>1. row \in Payment /\ row.status \in {"INITIATED", "FAILED", "CANCELLED", "REVIEW"}
    BY <1>1 DEF Payment, PaymentState, Work, OpenStates
  <2>2. payments' = [payments EXCEPT ![t] = row]
    BY <1>1, <1>4 DEF Record, PInv, Typed
  <2>3. payments[t].status \notin {"PAID", "NONE"}
    BY <1>4 DEF OpenStates
  <2> HIDE DEF row
  <2>. QED
    BY <1>2, <1>3, <2>1, <2>2, <2>3, OverwriteKeeps DEF Record
<1>5. CASE payments[t].status \notin OpenStates
  <2>1. UNCHANGED payments
    BY <1>1, <1>5 DEF Record, PInv, Typed
  <2>. QED
    BY <1>3, <2>1, EndKeeps DEF Record
<1>. QED
  BY <1>4, <1>5

(* The update of the parcel is MarkFeePaid, or matches no row. *)
LEMMA MarkedOrNot ==
  ASSUME parcel \in Parcel, Exists(parcel), markFeePaid \/ UNCHANGED parcel,
         UNCHANGED <<books, logged>>
  PROVE  MarkFeePaid \/ UNCHANGED vars
BY SMT DEF markFeePaid, MarkFeePaid, Parcel, vars

(* The fee is credited, or somebody else did it meanwhile. *)
LEMMA CreditKeeps ==
  ASSUME PInv, NEW h \in Handlers, Credit(h)
  PROVE  PInv'
<1>1. /\ work[h].tran \in Attempts
      /\ payments[work[h].tran] \in Payment
      /\ JobOK(work[h])
      /\ RowOK(payments[work[h].tran], credits[work[h].tran], gateway[work[h].tran])
  BY JobFacts DEF Credit
<1>2. PICK t \in Attempts : t = work[h].tran
  BY <1>1
<1>3. gateway[t] \in {"cleared", "voided"}
  BY <1>1, <1>2 DEF Credit, JobOK
<1>4. Ends(h) /\ toldPaid' \subseteq Attempts
  BY <1>1, ReplyType DEF Credit, Answer, PInv
<1>5. CASE payments[t].status \in OpenStates
  <2>1. PICK row \in Payment : /\ row.status = "PAID"
                               /\ payments' = [payments EXCEPT ![t] = row]
    <3> DEFINE new == [status |-> "PAID", amount |-> payments[t].amount]
    <3>1. new \in Payment /\ new.status = "PAID"
      BY <1>1, <1>2 DEF Payment, PaymentState
    <3>2. payments' = [payments EXCEPT ![t] = new]
      BY <1>2, <1>5 DEF Credit, PInv, Typed
    <3>. QED
      BY <3>1, <3>2
  <2>2. credits[t] = 0 /\ payments[t].status # "NONE"
    BY <1>1, <1>2, <1>5 DEF RowOK, OpenStates
  <2>3. credits' = [credits EXCEPT ![t] = 1]
    BY <1>2, <1>5, <2>2 DEF Credit, PInv, Typed
  <2>4. Exists(parcel)
    BY <2>2 DEF PInv, Booked
  <2>5. MarkFeePaid \/ UNCHANGED vars
    BY <1>2, <1>5, <2>4, MarkedOrNot DEF Credit, PInv, IInv, TypeOK
  <2>6. IInv' /\ Exists(parcel')
    BY <2>4, <2>5, MarkFeePaidKeeps, StutterKeeps, SMT
      DEF PInv, IInv, TypeOK, Parcel, Exists, MarkFeePaid, vars
  <2>7. PaidIsBacked'
    BY <2>1 DEF PInv, Typed, PaidIsBacked
  <2>8. RowOK(row, 1, gateway[t])
    BY <1>3, <2>1 DEF RowOK
  <2>9. work' = [work EXCEPT ![h] = Idle] /\ JobOK(Idle)'
    BY <1>4, IdleType DEF Ends, JobOK
  <2>10. UNCHANGED <<gateway, reports>>
    BY DEF Credit
  <2>. QED
    BY <1>2, <1>3, <1>4, <2>1, <2>3, <2>6, <2>7, <2>8, <2>9, <2>10, IdleType, RowKeeps
<1>6. CASE payments[t].status \notin OpenStates
  <2>1. UNCHANGED <<vars, payments, credits, gateway, reports>>
    BY <1>2, <1>6 DEF Credit, vars
  <2>. QED
    BY <1>4, <2>1, EndKeeps
<1>. QED
  BY <1>5, <1>6

(* The validation call has an answer, and the request goes on to write.    *)
LEMMA JudgedKeeps ==
  ASSUME PInv, NEW h \in Handlers, Refuse(h) \/ Flag(h) \/ Accept(h)
  PROVE  PInv'
<1>1. work[h] \in Work /\ work[h].tran \in Attempts /\ JobOK(work[h])
  BY JobFacts DEF Refuse, Flag, Accept
<1>2. gateway[work[h].tran] # "none"
  BY <1>1 DEF Refuse, Flag, Accept, JobOK
<1>3. PICK stage \in {"record", "credit"}, to \in OpenStates \cup {"REVIEW"} :
        /\ Goes(h, stage, to)
        /\ stage = "credit" => gateway[work[h].tran] = "cleared"
  BY DEF Refuse, Flag, Accept, OpenStates
<1> DEFINE w == [stage |-> stage, route |-> work[h].route, tran |-> work[h].tran,
                 fee |-> work[h].fee, to |-> to]
<1>4. w \in Work /\ w.stage = stage /\ w.tran = work[h].tran
  BY <1>1 DEF Work, Stages
<1>5. work' = [work EXCEPT ![h] = w]
  BY <1>3 DEF Goes, PInv, Typed
<1> HIDE DEF w
<1>6. JobOK(w)
  BY <1>1, <1>2, <1>3, <1>4 DEF JobOK
<1>. QED
  BY <1>3, <1>4, <1>5, <1>6, MoveKeeps DEF Goes, PInv, Typed

LEMMA ReceiveKeeps ==
  ASSUME PInv, NEW h \in Handlers, NEW r \in Report, ReceiveConfirm(h, r) \/ ReceiveAbandon(h, r)
  PROVE  PInv'
<1>1. r.tran \in Attempts /\ r.route \in Routes /\ gateway[r.tran] # "none"
  BY DEF Report, ReceiveConfirm, ReceiveAbandon, PInv, Sent
<1>2. PICK stage \in {"validate", "record"}, fee \in Nat, to \in OpenStates :
        work' = [work EXCEPT ![h] = Job(r, stage, fee, to)]
  BY DEF ReceiveConfirm, ReceiveAbandon, OpenStates, PInv, IInv, TypeOK, Parcel
<1> DEFINE w == Job(r, stage, fee, to)
<1>3. w \in Work /\ w.stage = stage /\ w.tran = r.tran
  BY <1>1 DEF Job, Work, Stages
<1> HIDE DEF w
<1>4. JobOK(w)
  BY <1>1, <1>3 DEF JobOK
<1>5. work' = [work EXCEPT ![h] = w]
  BY <1>2 DEF w
<1>6. UNCHANGED <<vars, payments, credits, gateway, reports, toldPaid, dropped>>
  BY DEF ReceiveConfirm, ReceiveAbandon
<1>. QED
  BY <1>3, <1>4, <1>5, <1>6, MoveKeeps DEF PInv, Typed

LEMMA ReceivePaidKeeps ==
  ASSUME PInv, NEW h \in Handlers, NEW r \in Report, ReceivePaid(h, r)
  PROVE  PInv'
<1>1. toldPaid' \subseteq Attempts
  BY ReplyType DEF ReceivePaid, Report, PInv
<1>2. UNCHANGED <<vars, payments, credits, gateway, reports, work>>
  BY DEF ReceivePaid
<1>3. IInv'
  BY <1>2, StutterKeeps DEF PInv
<1>4. Typed' /\ Unshared' /\ Sent'
  BY <1>1, <1>2 DEF PInv, Typed, Unshared, Sent
<1>5. \A g \in Handlers : JobOK(work[g])'
  BY <1>2 DEF PInv, JobOK, vars
<1>6. \A t \in Attempts : RowOK(payments[t], credits[t], gateway[t])'
  BY <1>2 DEF PInv, RowOK
<1>7. Booked' /\ PaidIsBacked'
  BY <1>2 DEF PInv, Booked, PaidIsBacked, vars
<1>. QED
  BY <1>3, <1>4, <1>5, <1>6, <1>7 DEF PInv

LEMMA EndedKeeps ==
  ASSUME PInv, NEW h \in Handlers, Unreachable(h) \/ Stop(h)
  PROVE  PInv'
<1>1. work[h].stage # "idle"
  BY DEF Unreachable, Stop
<1>2. toldPaid' \subseteq Attempts
  BY <1>1, JobFacts, ReplyType DEF Unreachable, Stop, Answer, PInv, Typed
<1>. QED
  BY <1>2, EndKeeps DEF Unreachable, Stop, Answer

(* The session opens: nobody but its checkout is about the attempt yet.    *)
LEMMA SessionOpensKeeps ==
  ASSUME PInv, NEW h \in Handlers, SessionOpens(h)
  PROVE  PInv'
<1>1. work[h].tran \in Attempts /\ JobOK(work[h])
  BY JobFacts DEF SessionOpens
<1>2. PICK t \in Attempts : t = work[h].tran
  BY <1>1
<1>3. payments[t].status # "NONE" /\ gateway[t] = "none"
  BY <1>1, <1>2 DEF JobOK, SessionOpens
<1>4. /\ work' \in [Handlers -> Work]
      /\ work'[h] = Idle
      /\ \A g \in Handlers : g # h => work'[g] = work[g]
  BY IdleType, BecomesFacts DEF SessionOpens, Ends, PInv, Typed
<1>5. /\ gateway' \in [Attempts -> GatewayStates]
      /\ gateway'[t] = "open"
      /\ \A u \in Attempts : u # t => gateway'[u] = gateway[u]
  BY <1>2 DEF SessionOpens, PInv, Typed, GatewayStates
<1>6. IInv'
  BY StutterKeeps DEF PInv, SessionOpens
<1>7. Typed'
  BY <1>4, <1>5 DEF PInv, Typed, SessionOpens
<1>8. Sent'
  BY <1>5 DEF PInv, Typed, Sent, Report, SessionOpens
<1>9. ASSUME NEW u \in Attempts
      PROVE  RowOK(payments[u], credits[u], gateway[u])'
  <2>1. RowOK(payments[u], credits[u], gateway[u])
    BY DEF PInv
  <2>2. RowOK(payments[u], credits[u], gateway'[u])
    BY <1>3, <1>5, <2>1 DEF RowOK
  <2>. QED
    BY <2>2 DEF RowOK, SessionOpens
<1>10. ASSUME NEW g \in Handlers
       PROVE  JobOK(work[g])'
  <2>1. CASE g = h
    BY <1>4, <2>1, IdleType DEF JobOK
  <2>2. CASE g # h
    <3>1. work'[g] = work[g] /\ JobOK(work[g])
      BY <1>4, <2>2 DEF PInv
    <3>2. work[g].stage # "idle" => work[g].tran \in Attempts /\ work[g].tran # t
      BY <1>2, <2>2, <3>1 DEF PInv, Unshared, JobOK, SessionOpens
    <3>. QED
      BY <1>5, <3>1, <3>2 DEF JobOK, SessionOpens, vars
  <2>. QED
    BY <2>1, <2>2
<1>11. Unshared'
  BY <1>1, <1>4, IdleType, NoAttemptAssumption DEF PInv, Unshared, JobOK
<1>12. Booked' /\ PaidIsBacked'
  BY DEF PInv, Booked, PaidIsBacked, SessionOpens, vars
<1>. QED
  BY <1>6, <1>7, <1>8, <1>9, <1>10, <1>11, <1>12 DEF PInv

-----------------------------------------------------------------------------
(* The theorems *)

LEMMA InitPInv == PaymentsInit => PInv
<1>1. SUFFICES ASSUME PaymentsInit PROVE PInv
  OBVIOUS
<1>2. IInv
  BY <1>1, InitIInv DEF PaymentsInit
<1>3. NoPayment \in Payment /\ NoPayment.status = "NONE"
  BY DEF NoPayment, Payment
<1>4. Typed
  BY <1>1, <1>3, IdleType DEF PaymentsInit, Typed, GatewayStates
<1>5. \A t \in Attempts : RowOK(payments[t], credits[t], gateway[t])
  BY <1>1, <1>3 DEF PaymentsInit, RowOK
<1>6. \A h \in Handlers : JobOK(work[h])
  BY <1>1, IdleType DEF PaymentsInit, JobOK
<1>7. Unshared /\ Sent /\ Booked
  BY <1>1, <1>3, IdleType DEF PaymentsInit, Unshared, Sent, Booked
<1>8. PaidIsBacked
  BY <1>1, SMT DEF PaymentsInit, Init, NoParcel, PaidIsBacked
<1>. QED
  BY <1>2, <1>4, <1>5, <1>6, <1>7, <1>8 DEF PInv

LEMMA StepKeeps ==
  ASSUME PInv, PaymentsNext
  PROVE  PInv'
<1>1. ASSUME NEW t \in Attempts, GatewayStep(t)
      PROVE  PInv'
  BY <1>1, DeclineKeeps, GiveUpKeeps, TakeMoneyKeeps, LookedAtKeeps, Zenon DEF GatewayStep
<1>2. ASSUME NEW h \in Handlers, Checkout(h) \/ Proceed(h) \/ Stop(h)
      PROVE  PInv'
  BY <1>2, CheckoutKeeps, OpenAttemptKeeps, SessionOpensKeeps, SessionFailsKeeps, EndedKeeps,
    JudgedKeeps, RecordKeeps, CreditKeeps, Zenon DEF Proceed
<1>3. ASSUME NEW h \in Handlers, NEW r \in Report, Receive(h, r)
      PROVE  PInv'
  BY <1>3, ReceivePaidKeeps, ReceiveKeeps, Zenon DEF Receive
<1>. QED
  BY <1>1, <1>2, <1>3, ParcelStepKeeps, Zenon DEF PaymentsNext

LEMMA NothingKeeps ==
  ASSUME PInv, UNCHANGED allVars
  PROVE  PInv'
<1>1. UNCHANGED <<vars, payments, credits, gateway, reports, work, toldPaid, dropped>>
  BY DEF allVars, vars
<1>2. IInv'
  BY <1>1, StutterKeeps DEF PInv
<1>3. Typed' /\ Unshared' /\ Sent'
  BY <1>1 DEF PInv, Typed, Unshared, Sent
<1>4. \A g \in Handlers : JobOK(work[g])'
  BY <1>1 DEF PInv, JobOK, vars
<1>5. \A t \in Attempts : RowOK(payments[t], credits[t], gateway[t])'
  BY <1>1 DEF PInv, RowOK
<1>6. Booked' /\ PaidIsBacked'
  BY <1>1 DEF PInv, Booked, PaidIsBacked, vars
<1>. QED
  BY <1>2, <1>3, <1>4, <1>5, <1>6 DEF PInv

LEMMA PaymentsInvariance == PaymentsSpec => []PInv
<1>1. PInv /\ [PaymentsNext]_allVars => PInv'
  BY StepKeeps, NothingKeeps
<1>. QED
  BY InitPInv, <1>1, PTL DEF PaymentsSpec

(* Only an ipn under way is dropped. *)
LEMMA DroppedKeeps ==
  ASSUME PInv, dropped \subseteq Attempts, [PaymentsNext]_allVars
  PROVE  dropped' \subseteq Attempts
<1>1. CASE UNCHANGED dropped
  BY <1>1
<1>2. CASE \E h \in Handlers : Unreachable(h)
  BY <1>2, JobFacts DEF Unreachable
<1>. QED
  BY <1>1, <1>2, Zenon DEF PaymentsNext, GatewayStep, Decline, GiveUp, TakeMoney, Approve,
    Void, Checkout, Proceed, OpenAttempt, SessionOpens, SessionFails, Refuse, Flag, Accept,
    Goes, Record, Credit, Stop, Receive, ReceivePaid, ReceiveConfirm, ReceiveAbandon,
    ParcelStep, paymentVars, allVars

(* Rows, reports and requests are well-typed, and a request past its       *)
(* insertion is about a row that exists, for any number of each.           *)
THEOREM PaymentsCorrect == PaymentsSpec => []PaymentsOK
<1>1. PaymentsInit => dropped \subseteq Attempts
  BY DEF PaymentsInit
<1>2. PInv /\ dropped \subseteq Attempts /\ [PaymentsNext]_allVars => (dropped \subseteq Attempts)'
  BY DroppedKeeps
<1>3. PInv /\ dropped \subseteq Attempts => PaymentsOK
  BY DEF PInv, Typed, PaymentsOK, JobOK, RowOK, Work, Stages
<1>. QED
  BY PaymentsInvariance, <1>1, <1>2, <1>3, PTL DEF PaymentsSpec

(* Whatever callbacks come, however often, late or out of order, an attempt*)
(* has one FEE_PAYMENT row if it is paid and none otherwise.               *)
THEOREM FeeIsCreditedOnce == PaymentsSpec => []CreditedOnce
<1>1. PInv => CreditedOnce
  BY DEF PInv, RowOK, CreditedOnce
<1>. QED
  BY PaymentsInvariance, <1>1, PTL

(* No fee is credited for money the gateway declined or still holds as     *)
(* risky.                                                                  *)
THEOREM OnlyClearedIsPaid == PaymentsSpec => []PaidWasCleared
<1>1. PInv => PaidWasCleared
  BY DEF PInv, RowOK, PaidWasCleared
<1>. QED
  BY PaymentsInvariance, <1>1, PTL

(* A parcel is never paid without a paid attempt, whatever its own routes  *)
(* do meanwhile.                                                           *)
THEOREM ParcelPaidIsBacked == PaymentsSpec => []PaidIsBacked
<1>1. PInv => PaidIsBacked
  BY DEF PInv
<1>. QED
  BY PaymentsInvariance, <1>1, PTL

(* No step undoes a payment. *)
LEMMA SettledStep ==
  ASSUME PInv, [PaymentsNext]_allVars, NEW t \in Attempts,
         payments[t].status \in {"PAID", "REVIEW"}
  PROVE  payments'[t] = payments[t]
<1>1. payments \in [Attempts -> Payment]
  BY DEF PInv, Typed
<1>2. CASE UNCHANGED payments
  BY <1>2
<1>3. CASE \E h \in Handlers : OpenAttempt(h) \/ SessionFails(h)
  <2>1. PICK h \in Handlers : OpenAttempt(h) \/ SessionFails(h)
    BY <1>3
  <2>2. JobOK(work[h]) /\ work[h].tran \in Attempts
    BY <2>1, JobFacts DEF OpenAttempt, SessionFails
  <2>3. RowOK(payments[t], credits[t], gateway[t])
    BY DEF PInv
  <2>4. gateway[work[h].tran] = "none" /\ gateway[t] # "none"
    BY <2>1, <2>2, <2>3 DEF OpenAttempt, SessionFails, JobOK, RowOK
  <2>. QED
    BY <1>1, <2>1, <2>2, <2>4 DEF OpenAttempt, SessionFails
<1>4. CASE \E h \in Handlers : Record(h) \/ Credit(h)
  BY <1>1, <1>4 DEF Record, Credit, OpenStates
<1>. QED
  BY <1>2, <1>3, <1>4, Zenon DEF PaymentsNext, GatewayStep, Decline, GiveUp,
    TakeMoney, Approve, Void, Checkout, Proceed, SessionOpens, Unreachable, Refuse, Flag,
    Accept, Goes, Stop, Receive, ReceivePaid, ReceiveConfirm, ReceiveAbandon, ParcelStep,
    paymentVars, allVars

(* A payment once made or held is never undone by a callback, a failed     *)
(* session or a refused validation that was decided on an older state.     *)
THEOREM SettledIsFinal == PaymentsSpec => SettledStays
<1>1. PInv /\ [PaymentsNext]_allVars =>
        [\A t \in Attempts :
           payments[t].status \in {"PAID", "REVIEW"} => payments'[t] = payments[t]]_allVars
  BY SettledStep
<1>. QED
  BY PaymentsInvariance, <1>1, PTL DEF PaymentsSpec, SettledStays

(* A payer who was sent to status=paid has an attempt that is paid or held *)
(* (confirm), and no callback or session that was decided on an older state*)
(* undoes that later (settleUnpaid).                                       *)
ToldPaidIsSettled == \A t \in toldPaid : payments[t].status \in {"PAID", "REVIEW"}

(* Whoever was sent to status=paid has an attempt that is paid or held for *)
(* review, and keeps it: a review is all that can stand between the        *)
(* redirect and a credited fee, as confirm answers "paid" either way.      *)
THEOREM ToldIsSettled == PaymentsSpec => []ToldPaidIsSettled
<1> DEFINE Settled(t) == payments[t].status \in {"PAID", "REVIEW"}
<1>1. ASSUME PInv, [PaymentsNext]_allVars, NEW t \in Attempts, t \in toldPaid' \ toldPaid
      PROVE  Settled(t)'
  <2>1. CASE \E h \in Handlers, r \in Report : ReceivePaid(h, r)
    <3>1. payments[t].status = "PAID" /\ UNCHANGED payments
      BY <1>1, <2>1 DEF ReceivePaid, Reply
    <3>. QED
      BY <3>1
  <2>2. CASE \E h \in Handlers : Credit(h)
    <3>1. PICK h \in Handlers : Credit(h)
      BY <2>2
    <3>2. JobOK(work[h]) /\ t = work[h].tran /\ payments \in [Attempts -> Payment]
      BY <1>1, <3>1 DEF Credit, Answer, Reply, PInv, Typed
    <3>3. CASE payments[t].status \in OpenStates
      BY <3>1, <3>2, <3>3 DEF Credit
    <3>4. CASE payments[t].status \notin OpenStates
      <4>1. UNCHANGED payments
        BY <3>1, <3>2, <3>4 DEF Credit
      <4>2. gateway[t] # "none"
        BY <3>1, <3>2 DEF Credit, JobOK
      <4>3. payments[t].status # "NONE"
        BY <1>1, <4>2 DEF PInv, RowOK
      <4>4. payments[t] \in Payment
        BY <3>2
      <4>. QED
        BY <3>4, <4>1, <4>3, <4>4 DEF Payment, PaymentState, OpenStates
    <3>. QED
      BY <3>3, <3>4
  <2>3. CASE \E h \in Handlers : Unreachable(h) \/ Record(h)
    BY <1>1, <2>3 DEF Unreachable, Record, Answer, Reply, OutcomeOf
  <2>. QED
    BY <1>1, <2>1, <2>2, <2>3, Zenon DEF PaymentsNext, GatewayStep, Decline, GiveUp,
      TakeMoney, Approve, Void, Checkout, Proceed, OpenAttempt, SessionOpens, SessionFails,
      Refuse, Flag, Accept, Goes, Stop, Receive, ReceiveConfirm, ReceiveAbandon, ParcelStep,
      paymentVars, allVars
<1>2. PaymentsInit => ToldPaidIsSettled
  BY DEF PaymentsInit, ToldPaidIsSettled
<1>3. PInv /\ ToldPaidIsSettled /\ [PaymentsNext]_allVars => ToldPaidIsSettled'
  <2>. SUFFICES ASSUME PInv, PInv', ToldPaidIsSettled, [PaymentsNext]_allVars,
                       NEW t \in toldPaid'
                PROVE  Settled(t)'
    BY StepKeeps, NothingKeeps DEF ToldPaidIsSettled
  <2>1. t \in Attempts
    BY DEF PInv, Typed
  <2>2. CASE t \in toldPaid
    BY <2>1, <2>2, SettledStep DEF ToldPaidIsSettled
  <2>3. CASE t \notin toldPaid
    BY <1>1, <2>1, <2>3
  <2>. QED
    BY <2>2, <2>3
<1>. QED
  BY PaymentsInvariance, <1>2, <1>3, PTL DEF PaymentsSpec

(* Payments implements ParcelFlow: a confirmation, however stale, moves the*)
(* parcel as MarkFeePaid does or not at all, so what ParcelFlow's theorems *)
(* say of a parcel also holds with real callbacks.                         *)
THEOREM PaymentsKeepParcelFlow == PaymentsSpec => KeepsParcelFlow
<1>1. PaymentsInit => Init
  BY DEF PaymentsInit
<1>2. ASSUME PInv, [PaymentsNext]_allVars
      PROVE  [Next]_vars
  <2>1. CASE UNCHANGED vars
    BY <2>1
  <2>2. CASE ParcelStep
    BY <2>2, PartiesAssumption DEF ParcelStep, Next
  <2>3. CASE \E h \in Handlers : Credit(h)
    <3>1. PICK h \in Handlers : Credit(h)
      BY <2>3
    <3>2. work[h].tran \in Attempts
      BY <1>2, <3>1, JobFacts DEF Credit
    <3>3. CASE payments[work[h].tran].status \in OpenStates
      <4>1. Exists(parcel)
        BY <1>2, <3>2, <3>3 DEF PInv, Booked, OpenStates
      <4>2. MarkFeePaid \/ UNCHANGED vars
        BY <1>2, <3>1, <3>3, <4>1, MarkedOrNot DEF Credit, PInv, IInv, TypeOK
      <4>. QED
        BY <4>2 DEF Next
    <3>4. CASE payments[work[h].tran].status \notin OpenStates
      BY <3>1, <3>4 DEF Credit, vars
    <3>. QED
      BY <3>3, <3>4
  <2>. QED
    BY <1>2, <2>1, <2>2, <2>3, Zenon DEF PaymentsNext, GatewayStep, Decline, GiveUp,
      TakeMoney, Approve, Void, Checkout, Proceed, OpenAttempt, SessionOpens, SessionFails,
      Unreachable, Refuse, Flag, Accept, Goes, Record, Stop, Receive, ReceivePaid,
      ReceiveConfirm, ReceiveAbandon, allVars, vars
<1>3. PInv /\ [PaymentsNext]_allVars => [Next]_vars
  BY <1>2
<1>. QED
  BY PaymentsInvariance, <1>1, <1>3, PTL DEF PaymentsSpec, KeepsParcelFlow, Spec

=============================================================================
