------------------------------- MODULE Ledger -------------------------------
(***************************************************************************)
(* The ledger's transactions.  A withdrawal locks the account's user row   *)
(* FOR UPDATE, sums the account, and posts.  Every row of ledger_entries   *)
(* names two users, its account and who created it, and inserting it takes *)
(* a KEY SHARE lock on both until the commit: that, and not the code, is   *)
(* what keeps a booking from being charged between a payout's check and    *)
(* its commit, and what two admins paying each other can deadlock on.      *)
(*                                                                         *)
(* One request per parcel at a time: ParcelRequests has the rest.          *)
(***************************************************************************)
EXTENDS LedgerBook

CONSTANTS
  Txs,        \* transactions in flight
  Nothing     \* no parcel, no account, no lock holder

ASSUME NothingAssumption ==
  Nothing \notin Txs /\ Nothing \notin Parcels /\ Nothing \notin Accounts

VARIABLES
  job,        \* what each transaction does
  locked,     \* per user row: who holds it FOR UPDATE
  shared      \* per user row: who holds it FOR KEY SHARE

ledgerVars == <<balance, parcels, job, locked, shared>>

Stages == {"idle", "lock", "check", "insert"}

(* users: the rows the inserted entries refer to. *)
Job ==
  [stage: Stages, users: SUBSET Users,
   parcel: Parcels \cup {Nothing}, to: Phases, courier: Couriers \cup {Nothing},
   account: Accounts \cup {Nothing}, amount: Nat]

Idle ==
  [stage |-> "idle", users |-> {}, parcel |-> Nothing, to |-> "none",
   courier |-> Nothing, account |-> Nothing, amount |-> 0]

LedgerInit ==
  /\ BookInit
  /\ job = [x \in Txs |-> Idle]
  /\ locked = [u \in Users |-> Nothing]
  /\ shared = [u \in Users |-> {}]

Goes(x, stage) ==
  job' = [job EXCEPT ![x] =
    [stage |-> stage, users |-> @.users, parcel |-> @.parcel, to |-> @.to,
     courier |-> @.courier, account |-> @.account, amount |-> @.amount]]

(* Mutant: the lock outlives the transaction. *)
ReleaseShared(x) ==
  /\ job' = [job EXCEPT ![x] = Idle]
  /\ shared' = [u \in Users |-> shared[u] \ {x}]
  /\ UNCHANGED locked

(* The transaction ends, and its locks with it. *)
Release(x) ==
  /\ job' = [job EXCEPT ![x] = Idle]
  /\ locked' = [u \in Users |-> IF locked[u] = x THEN Nothing ELSE locked[u]]
  /\ shared' = [u \in Users |-> shared[u] \ {x}]

-----------------------------------------------------------------------------
(* The sender books and cancels, the courier or an admin does the rest.    *)
ActorsFor(p, to, c) ==
  IF to \in {"booked", "cancelled"} THEN {Terms[p].sender} ELSE {c} \cup Admins

(* The rows name the merchant, the courier when there is cash, and whoever *)
(* acted (in the status log).                                              *)
UsersOf(p, to, c, by) ==
  {Terms[p].sender, by} \cup (IF to = "delivered" THEN {c} ELSE {})

BeginEvent(x, p, to, c) ==
  /\ job[x].stage = "idle"
  /\ \A y \in Txs : job[y].parcel # p
  /\ <<parcels[p], to>> \in ParcelEvents
  /\ \E by \in ActorsFor(p, to, c) :
       job' = [job EXCEPT ![x] =
         [stage |-> "insert", users |-> UsersOf(p, to, c, by), parcel |-> p, to |-> to,
          courier |-> c, account |-> Nothing, amount |-> 0]]
  /\ UNCHANGED <<bookVars, locked, shared>>

(* recordDeposit for a courier's account, recordPayout for a merchant's.   *)
BeginWithdraw(x, account, amount, by) ==
  /\ job[x].stage = "idle"
  /\ job' = [job EXCEPT ![x] =
       [stage |-> "lock", users |-> {account[2], by}, parcel |-> Nothing, to |-> "none",
        courier |-> Nothing, account |-> account, amount |-> amount]]
  /\ UNCHANGED <<bookVars, locked, shared>>

(* Mutant: the account is read without a lock. *)
LockNothing(x) ==
  /\ job[x].stage = "lock"
  /\ Goes(x, "check")
  /\ UNCHANGED <<bookVars, locked, shared>>

(* Mutant: a lock that only excludes other withdrawals, FOR NO KEY UPDATE. *)
LockWeakly(x) ==
  LET u == job[x].account[2] IN
  /\ job[x].stage = "lock"
  /\ locked[u] = Nothing
  /\ locked' = [locked EXCEPT ![u] = x]
  /\ Goes(x, "check")
  /\ UNCHANGED <<bookVars, shared>>

(* SELECT ... FOR UPDATE of the account's user row. *)
LockAccount(x) ==
  LET u == job[x].account[2] IN
  /\ job[x].stage = "lock"
  /\ locked[u] = Nothing
  /\ shared[u] = {}
  /\ locked' = [locked EXCEPT ![u] = x]
  /\ Goes(x, "check")
  /\ UNCHANGED <<bookVars, shared>>

(* The balance as committed by now; too little, and the transaction rolls  *)
(* back.                                                                   *)
Check(x) ==
  /\ job[x].stage = "check"
  /\ job[x].amount <= balance[job[x].account]
  /\ Goes(x, "insert")
  /\ UNCHANGED <<bookVars, locked, shared>>

(* Mutant: the refusal leaves the transaction, and its locks, open.        *)
RefuseAndHold(x) ==
  /\ job[x].stage = "check"
  /\ job[x].amount > balance[job[x].account]
  /\ job' = [job EXCEPT ![x] = Idle]
  /\ UNCHANGED <<bookVars, locked, shared>>

Refuse(x) ==
  /\ job[x].stage = "check"
  /\ job[x].amount > balance[job[x].account]
  /\ Release(x)
  /\ UNCHANGED bookVars

(* The foreign keys of an inserted row are checked one by one. *)
Share(x, u) ==
  /\ job[x].stage = "insert"
  /\ u \in job[x].users
  /\ x \notin shared[u]
  /\ locked[u] \in {Nothing, x}
  /\ shared' = [shared EXCEPT ![u] = @ \cup {x}]
  /\ UNCHANGED <<bookVars, job, locked>>

Inserted(x) == job[x].stage = "insert" /\ \A u \in job[x].users : x \in shared[u]

CommitEvent(x) ==
  /\ Inserted(x)
  /\ job[x].parcel # Nothing
  /\ parcels' = [parcels EXCEPT ![job[x].parcel] = job[x].to]
  /\ Post(EventRows(job[x].parcel, job[x].to, job[x].courier))
  /\ Release(x)

CommitWithdraw(x) ==
  /\ Inserted(x)
  /\ job[x].account # Nothing
  /\ Post([a \in Accounts |-> IF a = job[x].account THEN -job[x].amount ELSE 0])
  /\ UNCHANGED parcels
  /\ Release(x)

(* Whom x waits for. *)
WaitsFor(x) ==
  IF job[x].stage = "lock"
  THEN LET u == job[x].account[2] IN (shared[u] \cup {locked[u]}) \ {x, Nothing}
  ELSE IF job[x].stage = "insert"
  THEN {locked[u] : u \in {v \in job[x].users : x \notin shared[v]}} \ {x, Nothing}
  ELSE {}

(* Transactions that wait for one another. *)
Deadlocked(x) ==
  \E cycle \in SUBSET Txs :
    x \in cycle /\ \A y \in cycle : WaitsFor(y) \cap cycle # {}

(* PostgreSQL ends a transaction of a deadlock. *)
Abort(x) ==
  /\ Deadlocked(x)
  /\ Release(x)
  /\ UNCHANGED bookVars

(* A lost connection ends any. *)
Fail(x) ==
  /\ job[x].stage # "idle"
  /\ Release(x)
  /\ UNCHANGED bookVars

Begin(x) ==
  \/ \E p \in Parcels, to \in Phases, c \in Couriers : BeginEvent(x, p, to, c)
  \/ \E account \in Accounts, amount \in Amounts, by \in Admins :
       BeginWithdraw(x, account, amount, by)

Acquire(x) == LockAccount(x) \/ \E u \in Users : Share(x, u)

Proceed(x) ==
  \/ Acquire(x)
  \/ Check(x) \/ Refuse(x)
  \/ CommitEvent(x) \/ CommitWithdraw(x)

LedgerNext == \E x \in Txs : Begin(x) \/ Proceed(x) \/ Abort(x) \/ Fail(x)

LedgerSpec == LedgerInit /\ [][LedgerNext]_ledgerVars

(* Locks are granted in turn, and a deadlock is noticed. *)
FairLedgerSpec ==
  /\ LedgerSpec
  /\ \A x \in Txs : /\ WF_ledgerVars(Proceed(x))
                    /\ SF_ledgerVars(Acquire(x))
                    /\ WF_ledgerVars(Abort(x))

-----------------------------------------------------------------------------
(* Properties *)

(* Types; locks belong to transactions under way, and nobody shares a row  *)
(* another transaction has locked.                                         *)
LedgerOK ==
  /\ BookOK
  /\ job \in [Txs -> Job]
  /\ locked \in [Users -> Txs \cup {Nothing}]
  /\ shared \in [Users -> SUBSET Txs]
  /\ \A u \in Users :
       /\ locked[u] # Nothing => /\ job[locked[u]].stage \in {"check", "insert"}
                                 /\ shared[u] \subseteq {locked[u]}
       /\ \A x \in shared[u] : job[x].stage = "insert"

(* Deposits and payouts take what is there, whatever other withdrawals and *)
(* parcel events commit between their check and their commit: locks        *)
(* included, the ledger does what LedgerBook says.                         *)
ImplementsBook == BookSpec

(* Every transaction ends: locks are never left behind, and the deadlock of*)
(* two admins who pay each other costs one of them an error, not a wait.   *)
TransactionsEnd == \A x \in Txs : job[x].stage # "idle" ~> job[x].stage = "idle"

=============================================================================
