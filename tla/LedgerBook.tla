----------------------------- MODULE LedgerBook -----------------------------
(***************************************************************************)
(* What the ledger promises: balances moved by parcel events, which always *)
(* happen, and by deposits and payouts, which never take more than the     *)
(* account has.  Each happens at once; Ledger is the same with the         *)
(* transactions and the row locks they take.                               *)
(***************************************************************************)
EXTENDS Integers

CONSTANTS
  Users,      \* rows of `users`
  Couriers,   \* those with the courier role
  Admins,     \* those with the admin role
  Parcels,    \* cash-on-delivery parcels
  Terms,      \* per parcel: who sent it, its fee, its cash, what a return costs
  Amounts     \* bound: the amounts deposits and payouts are recorded for

TermsType == [sender: Users, fee: Nat, cod: Nat, back: Int]

ASSUME UsersAssumption == Couriers \subseteq Users /\ Admins \subseteq Users
ASSUME TermsAssumption == Terms \in [Parcels -> TermsType]
ASSUME AmountsAssumption == Amounts \subseteq Nat \ {0}

VARIABLES
  balance,   \* the sum of an account's rows in ledger_entries
  parcels    \* how far each parcel is, as far as money goes

bookVars == <<balance, parcels>>

(* Everyone may send parcels and so has a merchant's account. *)
Accounts == ({"MERCHANT"} \X Users) \cup ({"COURIER"} \X Couriers)

Phases == {"none", "booked", "cancelled", "delivered", "returned"}

ParcelEvents == {"none"} \X {"booked"} \cup {"booked"} \X {"cancelled", "delivered", "returned"}

(* The rows an event posts, as what they add to each account; c is the     *)
(* courier of the parcel.                                                  *)
MerchantRow(p, to) ==
  IF to = "booked" THEN -Terms[p].fee
  ELSE IF to = "cancelled" THEN Terms[p].fee
  ELSE IF to = "returned" THEN -Terms[p].back
  ELSE Terms[p].cod

EventRows(p, to, c) ==
  [a \in Accounts |->
     IF a = <<"MERCHANT", Terms[p].sender>> THEN MerchantRow(p, to)
     ELSE IF a = <<"COURIER", c>> /\ to = "delivered" THEN Terms[p].cod ELSE 0]

Post(rows) == balance' = [a \in Accounts |-> balance[a] + rows[a]]

BookInit ==
  /\ balance = [a \in Accounts |-> 0]
  /\ parcels = [p \in Parcels |-> "none"]

Event(p, to, c) ==
  /\ <<parcels[p], to>> \in ParcelEvents
  /\ parcels' = [parcels EXCEPT ![p] = to]
  /\ Post(EventRows(p, to, c))

(* recordDeposit and recordPayout: refused above the balance. *)
Withdraw(account, amount) ==
  /\ amount <= balance[account]
  /\ Post([a \in Accounts |-> IF a = account THEN -amount ELSE 0])
  /\ UNCHANGED parcels

BookNext ==
  \/ \E p \in Parcels, to \in Phases, c \in Couriers : Event(p, to, c)
  \/ \E account \in Accounts, amount \in Amounts : Withdraw(account, amount)

BookSpec == BookInit /\ [][BookNext]_bookVars

BookOK ==
  /\ balance \in [Accounts -> Int]
  /\ parcels \in [Parcels -> Phases]

(* Refused above what they hold, so a typo cannot leave a courier owed     *)
(* money they never had: no courier's balance is ever negative.            *)
CouriersAreNeverOwed == \A c \in Couriers : balance[<<"COURIER", c>>] >= 0

=============================================================================
