---------------------------- MODULE Ledger_proofs ----------------------------
(***************************************************************************)
(* The ledger's transactions implement LedgerBook, for any users, parcels, *)
(* amounts and number of transactions.  The invariant says what the locks  *)
(* are for: a withdrawal that passed its check holds its account's user    *)
(* row, no transaction that is about to post to that account can have the  *)
(* row's foreign keys checked, and so the balance still covers it.         *)
(***************************************************************************)
EXTENDS Ledger, TLAPS

Typed ==
  /\ BookOK
  /\ job \in [Txs -> Job]
  /\ locked \in [Users -> Txs \cup {Nothing}]
  /\ shared \in [Users -> SUBSET Txs]

Locks ==
  \A u \in Users :
    /\ locked[u] # Nothing => /\ job[locked[u]].stage \in {"check", "insert"}
                              /\ shared[u] \subseteq {locked[u]}
    /\ \A x \in shared[u] : job[x].stage = "insert"

(* A withdrawal names an account, and holds its row once it has looked at  *)
(* it; past the check, the account has the money.                          *)
Covered(x) ==
  job[x].account # Nothing =>
    /\ job[x].parcel = Nothing
    /\ job[x].amount \in Amounts
    /\ job[x].account[2] \in job[x].users
    /\ job[x].stage \in {"check", "insert"} => locked[job[x].account[2]] = x
    /\ job[x].stage = "insert" => job[x].amount <= balance[job[x].account]

(* A parcel event is legal, and names the accounts it posts to.            *)
Legal(x) ==
  job[x].parcel # Nothing =>
    /\ job[x].stage = "insert"
    /\ job[x].account = Nothing
    /\ job[x].courier \in Couriers
    /\ <<parcels[job[x].parcel], job[x].to>> \in ParcelEvents
    /\ Terms[job[x].parcel].sender \in job[x].users
    /\ job[x].to = "delivered" => job[x].courier \in job[x].users

Busy(x) ==
  /\ job[x].stage \in {"lock", "check"} => job[x].account # Nothing

Alone == \A x, y \in Txs : x # y /\ job[x].parcel # Nothing => job[y].parcel # job[x].parcel

LInv ==
  /\ Typed
  /\ Locks
  /\ \A x \in Txs : Covered(x) /\ Legal(x) /\ Busy(x)
  /\ Alone

-----------------------------------------------------------------------------
LEMMA AccountUser == ASSUME NEW a \in Accounts PROVE a[2] \in Users
  BY UsersAssumption DEF Accounts

LEMMA IdleJob == Idle \in Job
  BY DEF Idle, Job, Stages, Phases

LEMMA RowsTyped ==
  ASSUME NEW p \in Parcels, NEW to \in Phases, NEW c \in Couriers
  PROVE  EventRows(p, to, c) \in [Accounts -> Int]
  <1>1. Terms[p].fee \in Nat /\ Terms[p].cod \in Nat /\ Terms[p].back \in Int
    BY TermsAssumption DEF TermsType
  <1>2. MerchantRow(p, to) \in Int
    BY <1>1 DEF MerchantRow, Phases
  <1> QED
    BY <1>1, <1>2 DEF EventRows

LEMMA AmountsAreNumbers == \A n \in Amounts : n \in Nat /\ n \in Int
  BY AmountsAssumption

LEMMA CouriersHaveAccounts == \A c \in Couriers : <<"COURIER", c>> \in Accounts
  BY DEF Accounts

(* A parcel event only ever adds to what a courier holds. *)
LEMMA CouriersOnlyCollect ==
  ASSUME NEW p \in Parcels, NEW to \in Phases, NEW c \in Couriers, NEW d \in Couriers
  PROVE  EventRows(p, to, c)[<<"COURIER", d>>] >= 0
  <1> DEFINE account == <<"COURIER", d>>
  <1>1. account \in Accounts
    BY CouriersHaveAccounts
  <1>2. account # <<"MERCHANT", Terms[p].sender>>
    OBVIOUS
  <1>3. Terms[p].cod \in Nat
    BY TermsAssumption DEF TermsType
  <1> HIDE DEF account
  <1>4. EventRows(p, to, c)[account]
          = IF account = <<"COURIER", c>> /\ to = "delivered" THEN Terms[p].cod ELSE 0
    BY <1>1, <1>2, Zenon DEF EventRows
  <1>5. EventRows(p, to, c)[account] >= 0
    BY <1>3, <1>4
  <1> QED
    BY <1>5 DEF account

LEMMA PostTyped ==
  ASSUME balance \in [Accounts -> Int], NEW rows \in [Accounts -> Int], Post(rows)
  PROVE  balance' \in [Accounts -> Int]
  BY DEF Post

(* What a released transaction leaves behind: nothing.                     *)
LEMMA ReleaseKeeps ==
  ASSUME LInv, NEW x \in Txs, Release(x)
  PROVE  /\ job' \in [Txs -> Job]
         /\ locked' \in [Users -> Txs \cup {Nothing}]
         /\ shared' \in [Users -> SUBSET Txs]
         /\ Locks'
         /\ Alone'
         /\ job'[x] = Idle
         /\ \A y \in Txs \ {x} : job'[y] = job[y]
         /\ \A y \in Txs \ {x}, u \in Users : locked[u] = y => locked'[u] = y
  <1>1. job' \in [Txs -> Job] /\ job'[x] = Idle /\ \A y \in Txs \ {x} : job'[y] = job[y]
    BY IdleJob DEF LInv, Typed, Release
  <1>2. /\ locked' \in [Users -> Txs \cup {Nothing}]
        /\ shared' \in [Users -> SUBSET Txs]
        /\ \A y \in Txs \ {x}, u \in Users : locked[u] = y => locked'[u] = y
    BY DEF LInv, Typed, Release
  <1>3. Locks'
    <2> SUFFICES ASSUME NEW u \in Users
        PROVE  /\ locked'[u] # Nothing => /\ job'[locked'[u]].stage \in {"check", "insert"}
                                          /\ shared'[u] \subseteq {locked'[u]}
               /\ \A y \in shared'[u] : job'[y].stage = "insert"
      BY DEF Locks
    <2>1. locked'[u] # Nothing => locked'[u] = locked[u] /\ locked[u] \in Txs \ {x}
      BY DEF LInv, Typed, Release
    <2>2. shared'[u] = shared[u] \ {x} /\ shared[u] \subseteq Txs
      BY DEF LInv, Typed, Release
    <2> QED
      BY <1>1, <2>1, <2>2 DEF LInv, Locks
  <1>4. Alone'
    <2> SUFFICES ASSUME NEW y \in Txs, NEW z \in Txs, y # z, job'[y].parcel # Nothing
        PROVE  job'[z].parcel # job'[y].parcel
      BY DEF Alone
    <2>1. y # x
      BY <1>1 DEF Idle
    <2>2. CASE z = x
      BY <1>1, <2>1, <2>2 DEF Idle
    <2>3. CASE z # x
      BY <1>1, <2>1, <2>3 DEF LInv, Alone
    <2> QED
      BY <2>2, <2>3
  <1> QED
    BY <1>1, <1>2, <1>3, <1>4

(* A transaction that ends without posting.                                *)
LEMMA RollbackKeeps ==
  ASSUME LInv, NEW x \in Txs, Release(x), UNCHANGED bookVars
  PROVE  LInv'
  <1>1. Typed' /\ Locks' /\ Alone'
    BY ReleaseKeeps DEF LInv, Typed, BookOK, bookVars
  <1>2. ASSUME NEW y \in Txs PROVE Covered(y)' /\ Legal(y)' /\ Busy(y)'
    <2>1. CASE y = x
      BY ReleaseKeeps, <2>1 DEF Covered, Legal, Busy, Idle
    <2>2. CASE y # x
      <3>1. job'[y] = job[y] /\ Covered(y) /\ Legal(y) /\ Busy(y)
        BY ReleaseKeeps, <2>2 DEF LInv
      <3>2. Legal(y)' /\ Busy(y)'
        BY <3>1 DEF Legal, Busy, bookVars
      <3>3. job[y].account # Nothing => job[y].account[2] \in Users
        BY AccountUser DEF LInv, Typed, Job
      <3>4. Covered(y)'
        BY <3>1, <3>3, <2>2, ReleaseKeeps DEF Covered, bookVars
      <3> QED
        BY <3>2, <3>4
    <2> QED
      BY <2>1, <2>2
  <1> QED
    BY <1>1, <1>2 DEF LInv

(* Posting to accounts whose users' rows x shares leaves the balance of a  *)
(* withdrawal past its check alone: that one's row is locked.              *)
LEMMA PostingIsExcluded ==
  ASSUME LInv, NEW x \in Txs, NEW y \in Txs, y # x, Inserted(x),
         NEW rows \in [Accounts -> Int], Post(rows),
         \A a \in Accounts : rows[a] # 0 => a[2] \in job[x].users,
         job[y].account # Nothing, job[y].stage = "insert"
  PROVE  balance'[job[y].account] = balance[job[y].account]
  <1> DEFINE a == job[y].account
  <1>1. a \in Accounts /\ a[2] \in Users
    BY AccountUser DEF LInv, Typed, Job
  <1>2. locked[a[2]] = y
    BY DEF LInv, Covered
  <1>3. shared[a[2]] \subseteq {y}
    BY <1>1, <1>2, NothingAssumption DEF LInv, Locks
  <1>4. a[2] \notin job[x].users
    BY <1>3 DEF Inserted
  <1>5. rows[a] = 0
    BY <1>1, <1>4
  <1>6. balance[a] \in Int
    BY <1>1 DEF LInv, Typed, BookOK
  <1> QED
    BY <1>1, <1>5, <1>6 DEF Post

LEMMA CommitKeeps ==
  ASSUME LInv, NEW x \in Txs, Inserted(x), Release(x),
         NEW rows \in [Accounts -> Int], Post(rows),
         \A a \in Accounts : rows[a] # 0 => a[2] \in job[x].users,
         parcels' \in [Parcels -> Phases],
         \A p \in Parcels : p # job[x].parcel => parcels'[p] = parcels[p]
  PROVE  LInv'
  <1>1. balance' \in [Accounts -> Int]
    BY PostTyped DEF LInv, Typed, BookOK
  <1>2. Typed' /\ Locks' /\ Alone'
    BY <1>1, ReleaseKeeps DEF LInv, Typed, BookOK
  <1>3. ASSUME NEW y \in Txs PROVE Covered(y)' /\ Legal(y)' /\ Busy(y)'
    <2>1. CASE y = x
      BY ReleaseKeeps, <2>1 DEF Covered, Legal, Busy, Idle
    <2>2. CASE y # x
      <3>1. job'[y] = job[y] /\ Covered(y) /\ Legal(y) /\ Busy(y)
        BY ReleaseKeeps, <2>2 DEF LInv
      <3>2. job[y].parcel # Nothing => /\ job[y].parcel \in Parcels
                                       /\ job[y].parcel # job[x].parcel
        BY <2>2 DEF LInv, Alone, Typed, Job
      <3>3. Legal(y)' /\ Busy(y)'
        BY <3>1, <3>2 DEF Legal, Busy
      <3>4. job[y].account # Nothing => job[y].account[2] \in Users
        BY AccountUser DEF LInv, Typed, Job
      <3>5. job[y].account # Nothing /\ job[y].stage = "insert" =>
              balance'[job[y].account] = balance[job[y].account]
        BY <2>2, PostingIsExcluded
      <3>6. Covered(y)'
        BY <3>1, <3>4, <3>5, <2>2, ReleaseKeeps DEF Covered
      <3> QED
        BY <3>3, <3>6
    <2> QED
      BY <2>1, <2>2
  <1> QED
    BY <1>2, <1>3 DEF LInv

-----------------------------------------------------------------------------
(* A transaction that only changes its own job, being idle before.         *)
LEMMA BeginKeeps ==
  ASSUME LInv, NEW x \in Txs, job[x].stage = "idle",
         NEW j \in Job, job' = [job EXCEPT ![x] = j],
         UNCHANGED <<bookVars, locked, shared>>,
         Covered(x)' /\ Legal(x)' /\ Busy(x)',
         j.parcel # Nothing => \A y \in Txs : job[y].parcel # j.parcel
  PROVE  LInv'
  <1>1. job' \in [Txs -> Job] /\ job'[x] = j /\ \A y \in Txs \ {x} : job'[y] = job[y]
    BY DEF LInv, Typed
  <1>2. Typed'
    BY <1>1 DEF LInv, Typed, BookOK, bookVars
  <1>3. Locks'
    <2> SUFFICES ASSUME NEW u \in Users
        PROVE  /\ locked[u] # Nothing => /\ job'[locked[u]].stage \in {"check", "insert"}
                                         /\ shared[u] \subseteq {locked[u]}
               /\ \A y \in shared[u] : job'[y].stage = "insert"
      BY DEF Locks
    <2>1. locked[u] \in Txs \cup {Nothing} /\ shared[u] \subseteq Txs
      BY DEF LInv, Typed
    <2>2. locked[u] # x /\ x \notin shared[u]
      BY NothingAssumption DEF LInv, Locks
    <2> QED
      BY <1>1, <2>1, <2>2 DEF LInv, Locks
  <1>4. ASSUME NEW y \in Txs PROVE Covered(y)' /\ Legal(y)' /\ Busy(y)'
    <2>1. CASE y = x
      BY <2>1
    <2>2. CASE y # x
      <3>1. job'[y] = job[y] /\ Covered(y) /\ Legal(y) /\ Busy(y)
        BY <1>1, <2>2 DEF LInv
      <3> QED
        BY <3>1 DEF Covered, Legal, Busy, bookVars
    <2> QED
      BY <2>1, <2>2
  <1>5. Alone'
    <2> SUFFICES ASSUME NEW y \in Txs, NEW z \in Txs, y # z, job'[y].parcel # Nothing
        PROVE  job'[z].parcel # job'[y].parcel
      BY DEF Alone
    <2>1. CASE y = x
      BY <1>1, <2>1
    <2>2. CASE z = x
      BY <1>1, <2>2
    <2>3. CASE y # x /\ z # x
      BY <1>1, <2>3 DEF LInv, Alone
    <2> QED
      BY <2>1, <2>2, <2>3
  <1> QED
    BY <1>2, <1>3, <1>4, <1>5 DEF LInv

LEMMA BeginEventKeeps ==
  ASSUME LInv, NEW x \in Txs, NEW p \in Parcels, NEW to \in Phases, NEW c \in Couriers,
         BeginEvent(x, p, to, c)
  PROVE  LInv'
  <1>1. PICK by \in ActorsFor(p, to, c) :
          job' = [job EXCEPT ![x] =
            [stage |-> "insert", users |-> UsersOf(p, to, c, by), parcel |-> p, to |-> to,
             courier |-> c, account |-> Nothing, amount |-> 0]]
    BY DEF BeginEvent
  <1> DEFINE j == [stage |-> "insert", users |-> UsersOf(p, to, c, by), parcel |-> p,
                   to |-> to, courier |-> c, account |-> Nothing, amount |-> 0]
  <1>2. Terms[p].sender \in Users /\ by \in Users /\ c \in Users
    BY <1>1, TermsAssumption, UsersAssumption DEF TermsType, ActorsFor
  <1>3. j \in Job
    BY <1>2 DEF Job, Stages, UsersOf
  <1>4. job'[x] = j
    BY <1>1 DEF LInv, Typed
  <1>5. p # Nothing /\ <<parcels[p], to>> \in ParcelEvents /\ parcels' = parcels
    BY NothingAssumption DEF BeginEvent, bookVars
  <1>6. Terms[p].sender \in j.users /\ (to = "delivered" => c \in j.users)
    BY DEF UsersOf
  <1>7. j.stage = "insert" /\ j.parcel = p /\ j.to = to /\ j.courier = c /\ j.account = Nothing
    OBVIOUS
  <1> HIDE DEF j
  <1>8. Covered(x)' /\ Legal(x)' /\ Busy(x)'
    BY <1>4, <1>5, <1>6, <1>7 DEF Covered, Legal, Busy
  <1>9. /\ job[x].stage = "idle" /\ UNCHANGED <<bookVars, locked, shared>>
        /\ \A y \in Txs : job[y].parcel # j.parcel
    BY <1>7 DEF BeginEvent
  <1>10. job' = [job EXCEPT ![x] = j]
    BY <1>1 DEF j
  <1> QED
    BY <1>3, <1>8, <1>9, <1>10, BeginKeeps

LEMMA BeginWithdrawKeeps ==
  ASSUME LInv, NEW x \in Txs, NEW account \in Accounts, NEW amount \in Amounts,
         NEW by \in Admins, BeginWithdraw(x, account, amount, by)
  PROVE  LInv'
  <1> DEFINE j == [stage |-> "lock", users |-> {account[2], by}, parcel |-> Nothing,
                   to |-> "none", courier |-> Nothing, account |-> account,
                   amount |-> amount]
  <1>1. account[2] \in Users /\ by \in Users /\ amount \in Nat
    BY AccountUser, UsersAssumption, AmountsAssumption
  <1>2. j \in Job
    BY <1>1 DEF Job, Stages, Phases
  <1>3. job' = [job EXCEPT ![x] = j] /\ job'[x] = j
    BY DEF LInv, Typed, BeginWithdraw
  <1>4. /\ j.stage = "lock" /\ j.parcel = Nothing /\ j.account = account
        /\ j.amount = amount /\ j.account[2] \in j.users
    OBVIOUS
  <1> HIDE DEF j
  <1>5. Covered(x)' /\ Legal(x)' /\ Busy(x)'
    BY <1>3, <1>4, NothingAssumption DEF Covered, Legal, Busy
  <1>6. job[x].stage = "idle" /\ UNCHANGED <<bookVars, locked, shared>>
    BY DEF BeginWithdraw
  <1> QED
    BY <1>2, <1>3, <1>4, <1>5, <1>6, BeginKeeps

(* A step of x that only moves its stage on.                               *)
LEMMA GoesKeeps ==
  ASSUME LInv, NEW x \in Txs, NEW s \in Stages, Goes(x, s)
  PROVE  /\ job' \in [Txs -> Job]
         /\ Alone'
         /\ \A y \in Txs \ {x} : job'[y] = job[y]
         /\ job'[x].stage = s
         /\ job'[x].users = job[x].users
         /\ job'[x].parcel = job[x].parcel
         /\ job'[x].account = job[x].account
         /\ job'[x].amount = job[x].amount
  <1> DEFINE j == [stage |-> s, users |-> job[x].users, parcel |-> job[x].parcel,
                   to |-> job[x].to, courier |-> job[x].courier,
                   account |-> job[x].account, amount |-> job[x].amount]
  <1>1. job[x] \in Job
    BY DEF LInv, Typed
  <1>2. j \in Job
    BY <1>1 DEF Job
  <1>3. job' = [job EXCEPT ![x] = j]
    BY DEF LInv, Typed, Goes
  <1>4. /\ j.stage = s /\ j.users = job[x].users /\ j.parcel = job[x].parcel
        /\ j.account = job[x].account /\ j.amount = job[x].amount
    OBVIOUS
  <1> HIDE DEF j
  <1>5. /\ job' \in [Txs -> Job] /\ job'[x] = j
        /\ \A y \in Txs \ {x} : job'[y] = job[y]
    BY <1>2, <1>3 DEF LInv, Typed
  <1>6. \A y \in Txs : job'[y].parcel = job[y].parcel
    BY <1>4, <1>5
  <1>7. Alone'
    BY <1>6 DEF LInv, Alone
  <1> QED
    BY <1>4, <1>5, <1>7

LEMMA LockAccountKeeps ==
  ASSUME LInv, NEW x \in Txs, LockAccount(x)
  PROVE  LInv'
  <1> DEFINE u == job[x].account[2]
  <1>1. job[x].account \in Accounts /\ u \in Users
    BY AccountUser DEF LInv, Typed, Job, Busy, LockAccount
  <1>2. /\ job' \in [Txs -> Job] /\ Alone'
        /\ \A y \in Txs \ {x} : job'[y] = job[y]
        /\ job'[x].stage = "check" /\ job'[x].users = job[x].users
        /\ job'[x].parcel = job[x].parcel /\ job'[x].account = job[x].account
        /\ job'[x].amount = job[x].amount
    BY GoesKeeps DEF LockAccount, Stages
  <1>3. /\ locked' = [locked EXCEPT ![u] = x] /\ shared' = shared
        /\ locked[u] = Nothing /\ shared[u] = {} /\ job[x].stage = "lock"
        /\ balance' = balance /\ parcels' = parcels
    BY DEF LockAccount, bookVars
  <1>4. Typed'
    BY <1>1, <1>2, <1>3 DEF LInv, Typed, BookOK
  <1>5. Locks'
    <2> SUFFICES ASSUME NEW v \in Users
        PROVE  /\ locked'[v] # Nothing => /\ job'[locked'[v]].stage \in {"check", "insert"}
                                          /\ shared[v] \subseteq {locked'[v]}
               /\ \A y \in shared[v] : job'[y].stage = "insert"
      BY <1>3 DEF Locks
    <2>1. locked[v] \in Txs \cup {Nothing} /\ shared[v] \subseteq Txs
      BY DEF LInv, Typed
    <2>2. x \notin shared[v] /\ locked[v] # x
      BY <1>3, NothingAssumption DEF LInv, Locks
    <2>3. CASE v = u
      BY <1>1, <1>2, <1>3, <2>3 DEF LInv, Typed
    <2>4. CASE v # u
      <3>1. locked'[v] = locked[v]
        BY <1>3, <2>4 DEF LInv, Typed
      <3> QED
        BY <1>2, <2>1, <2>2, <3>1 DEF LInv, Locks
    <2> QED
      BY <2>3, <2>4
  <1>6. ASSUME NEW y \in Txs PROVE Covered(y)' /\ Legal(y)' /\ Busy(y)'
    <2>1. CASE y = x
      <3>1. Covered(x) /\ Legal(x) /\ Busy(x) /\ job[x].account # Nothing
        BY <1>3 DEF LInv, Busy
      <3>2. locked'[u] = x
        BY <1>1, <1>3 DEF LInv, Typed
      <3> QED
        BY <1>2, <2>1, <3>1, <3>2 DEF Covered, Legal, Busy
    <2>2. CASE y # x
      <3>1. job'[y] = job[y] /\ Covered(y) /\ Legal(y) /\ Busy(y)
        BY <1>2, <2>2 DEF LInv
      <3>2. job[y].account # Nothing => job[y].account[2] \in Users
        BY AccountUser DEF LInv, Typed, Job
      <3>3. job[y].account # Nothing /\ job[y].stage \in {"check", "insert"} =>
              locked'[job[y].account[2]] = y
        <4> SUFFICES ASSUME job[y].account # Nothing, job[y].stage \in {"check", "insert"}
            PROVE  locked'[job[y].account[2]] = y
          OBVIOUS
        <4>1. locked[job[y].account[2]] = y
          BY <3>1 DEF Covered
        <4>2. job[y].account[2] # u
          BY <4>1, <1>3, NothingAssumption
        <4> QED
          BY <4>1, <4>2, <3>2, <1>3 DEF LInv, Typed
      <3> QED
        BY <1>3, <3>1, <3>3 DEF Covered, Legal, Busy
    <2> QED
      BY <2>1, <2>2
  <1> QED
    BY <1>2, <1>4, <1>5, <1>6 DEF LInv

LEMMA CheckKeeps ==
  ASSUME LInv, NEW x \in Txs, Check(x)
  PROVE  LInv'
  <1>1. /\ job' \in [Txs -> Job] /\ Alone'
        /\ \A y \in Txs \ {x} : job'[y] = job[y]
        /\ job'[x].stage = "insert" /\ job'[x].users = job[x].users
        /\ job'[x].parcel = job[x].parcel /\ job'[x].account = job[x].account
        /\ job'[x].amount = job[x].amount
    BY GoesKeeps DEF Check, Stages
  <1>2. /\ job[x].stage = "check" /\ job[x].amount <= balance[job[x].account]
        /\ balance' = balance /\ parcels' = parcels /\ locked' = locked /\ shared' = shared
    BY DEF Check, bookVars
  <1>3. Typed'
    BY <1>1, <1>2 DEF LInv, Typed, BookOK
  <1>4. Locks'
    <2> SUFFICES ASSUME NEW v \in Users
        PROVE  /\ locked[v] # Nothing => /\ job'[locked[v]].stage \in {"check", "insert"}
                                         /\ shared[v] \subseteq {locked[v]}
               /\ \A y \in shared[v] : job'[y].stage = "insert"
      BY <1>2 DEF Locks
    <2>1. locked[v] \in Txs \cup {Nothing} /\ shared[v] \subseteq Txs
      BY DEF LInv, Typed
    <2> QED
      BY <1>1, <2>1 DEF LInv, Locks
  <1>5. ASSUME NEW y \in Txs PROVE Covered(y)' /\ Legal(y)' /\ Busy(y)'
    <2>1. CASE y = x
      <3>1. Covered(x) /\ Legal(x) /\ Busy(x) /\ job[x].account # Nothing
        BY <1>2 DEF LInv, Busy
      <3> QED
        BY <1>1, <1>2, <2>1, <3>1 DEF Covered, Legal, Busy
    <2>2. CASE y # x
      <3>1. job'[y] = job[y] /\ Covered(y) /\ Legal(y) /\ Busy(y)
        BY <1>1, <2>2 DEF LInv
      <3> QED
        BY <1>2, <3>1 DEF Covered, Legal, Busy
    <2> QED
      BY <2>1, <2>2
  <1> QED
    BY <1>1, <1>3, <1>4, <1>5 DEF LInv

LEMMA ShareKeeps ==
  ASSUME LInv, NEW x \in Txs, NEW u \in Users, Share(x, u)
  PROVE  LInv'
  <1>1. /\ job[x].stage = "insert" /\ locked[u] \in {Nothing, x}
        /\ shared' = [shared EXCEPT ![u] = @ \cup {x}]
        /\ balance' = balance /\ parcels' = parcels /\ locked' = locked /\ job' = job
    BY DEF Share, bookVars
  <1>2. Typed'
    BY <1>1 DEF LInv, Typed, BookOK
  <1>3. Locks'
    <2> SUFFICES ASSUME NEW v \in Users
        PROVE  /\ locked[v] # Nothing => /\ job[locked[v]].stage \in {"check", "insert"}
                                         /\ shared'[v] \subseteq {locked[v]}
               /\ \A y \in shared'[v] : job[y].stage = "insert"
      BY <1>1 DEF Locks
    <2>1. CASE v = u
      <3>1. shared'[v] = shared[v] \cup {x}
        BY <1>1, <2>1 DEF LInv, Typed
      <3> QED
        BY <1>1, <2>1, <3>1 DEF LInv, Locks
    <2>2. CASE v # u
      <3>1. shared'[v] = shared[v]
        BY <1>1, <2>2 DEF LInv, Typed
      <3> QED
        BY <3>1 DEF LInv, Locks
    <2> QED
      BY <2>1, <2>2
  <1>4. \A y \in Txs : Covered(y)' /\ Legal(y)' /\ Busy(y)'
    BY <1>1 DEF LInv, Covered, Legal, Busy
  <1>5. Alone'
    BY <1>1 DEF LInv, Alone
  <1> QED
    BY <1>2, <1>3, <1>4, <1>5 DEF LInv

-----------------------------------------------------------------------------
(* What a commit posts, it posts to users it shares.                       *)
LEMMA EventRowsAreShared ==
  ASSUME NEW p \in Parcels, NEW to \in Phases, NEW c \in Couriers, NEW users,
         Terms[p].sender \in users, to = "delivered" => c \in users,
         NEW a \in Accounts, EventRows(p, to, c)[a] # 0
  PROVE  a[2] \in users
  <1>1. CASE a = <<"MERCHANT", Terms[p].sender>>
    BY <1>1
  <1>2. CASE a = <<"COURIER", c>> /\ to = "delivered"
    BY <1>2
  <1> QED
    BY <1>1, <1>2 DEF EventRows

LEMMA CommitEventKeeps ==
  ASSUME LInv, NEW x \in Txs, CommitEvent(x)
  PROVE  /\ LInv'
         /\ Event(job[x].parcel, job[x].to, job[x].courier)
         /\ job[x].parcel \in Parcels /\ job[x].to \in Phases /\ job[x].courier \in Couriers
  <1> DEFINE p == job[x].parcel  to == job[x].to  c == job[x].courier
  <1>1. /\ Inserted(x) /\ Release(x) /\ p # Nothing
        /\ parcels' = [parcels EXCEPT ![p] = to] /\ Post(EventRows(p, to, c))
    BY DEF CommitEvent
  <1>2. p \in Parcels /\ to \in Phases
    BY <1>1 DEF LInv, Typed, Job
  <1>3. /\ c \in Couriers /\ <<parcels[p], to>> \in ParcelEvents
        /\ Terms[p].sender \in job[x].users /\ (to = "delivered" => c \in job[x].users)
    BY <1>1 DEF LInv, Legal
  <1> HIDE DEF p, to, c
  <1>4. EventRows(p, to, c) \in [Accounts -> Int]
    BY <1>2, <1>3, RowsTyped
  <1>5. \A a \in Accounts : EventRows(p, to, c)[a] # 0 => a[2] \in job[x].users
    BY <1>2, <1>3, EventRowsAreShared
  <1>6. /\ parcels' \in [Parcels -> Phases]
        /\ \A q \in Parcels : q # p => parcels'[q] = parcels[q]
    BY <1>1, <1>2 DEF LInv, Typed, BookOK
  <1>7. LInv'
    <2>1. \A q \in Parcels : q # job[x].parcel => parcels'[q] = parcels[q]
      BY <1>6 DEF p
    <2> QED
      BY <1>1, <1>4, <1>5, <1>6, <2>1, CommitKeeps
  <1>8. Event(p, to, c)
    BY <1>1, <1>3 DEF Event
  <1> QED
    BY <1>2, <1>3, <1>7, <1>8 DEF p, to, c

LEMMA CommitWithdrawKeeps ==
  ASSUME LInv, NEW x \in Txs, CommitWithdraw(x)
  PROVE  /\ LInv'
         /\ Withdraw(job[x].account, job[x].amount)
         /\ job[x].account \in Accounts /\ job[x].amount \in Amounts
  <1> DEFINE account == job[x].account  amount == job[x].amount
             rows == [a \in Accounts |-> IF a = account THEN -amount ELSE 0]
  <1>1. /\ Inserted(x) /\ Release(x) /\ account # Nothing /\ parcels' = parcels /\ Post(rows)
    BY DEF CommitWithdraw
  <1>2. account \in Accounts
    BY <1>1 DEF LInv, Typed, Job
  <1>3. amount \in Amounts /\ account[2] \in job[x].users /\ amount <= balance[account]
    BY <1>1 DEF LInv, Covered, Inserted
  <1>4. rows \in [Accounts -> Int]
    <2>1. amount \in Int
      BY <1>3, AmountsAreNumbers, Zenon
    <2> HIDE DEF account, amount
    <2> QED
      BY <2>1
  <1>5. \A a \in Accounts : rows[a] # 0 => a[2] \in job[x].users
    BY <1>3
  <1>6. Withdraw(account, amount)
    BY <1>1, <1>3 DEF Withdraw
  <1> HIDE DEF account, amount, rows
  <1>7. LInv'
    <2>1. parcels' \in [Parcels -> Phases]
      BY <1>1 DEF LInv, Typed, BookOK
    <2>2. \A q \in Parcels : q # job[x].parcel => parcels'[q] = parcels[q]
      BY <1>1
    <2> QED
      BY <1>1, <1>4, <1>5, <2>1, <2>2, CommitKeeps
  <1> QED
    BY <1>2, <1>3, <1>6, <1>7 DEF account, amount

LEMMA InitHolds == LedgerInit => LInv
  <1> SUFFICES ASSUME LedgerInit PROVE LInv
    OBVIOUS
  <1>1. Typed
    BY IdleJob DEF LedgerInit, BookInit, Typed, BookOK, Phases
  <1>2. Locks
    BY DEF LedgerInit, Locks
  <1>3. \A x \in Txs : job[x].account = Nothing /\ job[x].parcel = Nothing /\ job[x].stage = "idle"
    BY DEF LedgerInit, Idle
  <1> QED
    BY <1>1, <1>2, <1>3 DEF LInv, Covered, Legal, Busy, Alone

LEMMA StepKeeps ==
  ASSUME LInv, [LedgerNext]_ledgerVars
  PROVE  LInv' /\ [BookNext]_bookVars
  <1>1. CASE UNCHANGED ledgerVars
    BY <1>1 DEF ledgerVars, bookVars, LInv, Typed, BookOK, Locks, Covered, Legal, Busy, Alone
  <1>2. ASSUME NEW x \in Txs, Begin(x) PROVE LInv' /\ UNCHANGED bookVars
    <2>1. ASSUME NEW p \in Parcels, NEW to \in Phases, NEW c \in Couriers,
                 BeginEvent(x, p, to, c)
          PROVE  LInv' /\ UNCHANGED bookVars
      BY <2>1, BeginEventKeeps DEF BeginEvent
    <2>2. ASSUME NEW account \in Accounts, NEW amount \in Amounts, NEW by \in Admins,
                 BeginWithdraw(x, account, amount, by)
          PROVE  LInv' /\ UNCHANGED bookVars
      BY <2>2, BeginWithdrawKeeps DEF BeginWithdraw
    <2> QED
      BY <1>2, <2>1, <2>2 DEF Begin
  <1>3. ASSUME NEW x \in Txs, Proceed(x) PROVE LInv' /\ [BookNext]_bookVars
    <2>1. CASE LockAccount(x)
      BY <2>1, LockAccountKeeps DEF LockAccount
    <2>2. CASE Check(x)
      BY <2>2, CheckKeeps DEF Check
    <2>3. CASE Refuse(x)
      BY <2>3, RollbackKeeps DEF Refuse
    <2>4. ASSUME NEW u \in Users, Share(x, u) PROVE LInv' /\ UNCHANGED bookVars
      BY <2>4, ShareKeeps DEF Share
    <2>5. CASE CommitEvent(x)
      BY <2>5, CommitEventKeeps DEF BookNext
    <2>6. CASE CommitWithdraw(x)
      BY <2>6, CommitWithdrawKeeps DEF BookNext
    <2> QED
      BY <1>3, <2>1, <2>2, <2>3, <2>4, <2>5, <2>6 DEF Proceed, Acquire
  <1>4. ASSUME NEW x \in Txs, Abort(x) \/ Fail(x) PROVE LInv' /\ UNCHANGED bookVars
    BY <1>4, RollbackKeeps DEF Abort, Fail
  <1> QED
    BY <1>1, <1>2, <1>3, <1>4 DEF LedgerNext

-----------------------------------------------------------------------------
(* Types and locks, for any number of transactions: a row locked for a     *)
(* withdrawal is shared by nobody else, and no lock outlives its           *)
(* transaction.                                                            *)
THEOREM LedgerCorrect == LedgerSpec => []LedgerOK
  <1>1. LInv => LedgerOK
    BY DEF LInv, Typed, Locks, LedgerOK
  <1>2. LInv /\ [LedgerNext]_ledgerVars => LInv'
    BY StepKeeps
  <1> QED
    BY <1>1, <1>2, InitHolds, PTL DEF LedgerSpec

(* Whatever commits between a withdrawal's check and its commit, deposits  *)
(* and payouts take only what is there: the transactions do what           *)
(* LedgerBook says.                                                        *)
THEOREM LedgerImplementsBook == LedgerSpec => ImplementsBook
  <1>1. LedgerInit => BookInit
    BY DEF LedgerInit
  <1>2. LInv /\ [LedgerNext]_ledgerVars => LInv' /\ [BookNext]_bookVars
    BY StepKeeps
  <1> QED
    BY <1>1, <1>2, InitHolds, PTL DEF LedgerSpec, ImplementsBook, BookSpec

(* Cash is only ever collected and handed in: no courier's balance is      *)
(* negative, whatever is recorded and however it interleaves.              *)
THEOREM NoCourierIsOwed == LedgerSpec => []CouriersAreNeverOwed
  <1> DEFINE BInv == BookOK /\ CouriersAreNeverOwed
  <1>1. BookInit => BInv
    BY DEF BookInit, BookOK, CouriersAreNeverOwed, Accounts, Phases
  <1>2. BInv /\ [BookNext]_bookVars => BInv'
    <2> SUFFICES ASSUME BInv, [BookNext]_bookVars PROVE BInv'
      OBVIOUS
    <2>1. CASE UNCHANGED bookVars
      BY <2>1 DEF bookVars, BookOK, CouriersAreNeverOwed
    <2>2. ASSUME NEW p \in Parcels, NEW to \in Phases, NEW c \in Couriers, Event(p, to, c)
          PROVE  BInv'
      <3>1. EventRows(p, to, c) \in [Accounts -> Int]
        BY RowsTyped
      <3>2. BookOK'
        BY <2>2, <3>1, PostTyped DEF Event, BookOK
      <3>3. ASSUME NEW d \in Couriers PROVE balance'[<<"COURIER", d>>] >= 0
        <4> DEFINE account == <<"COURIER", d>>
        <4>1. account \in Accounts
          BY CouriersHaveAccounts
        <4>2. balance[account] >= 0 /\ EventRows(p, to, c)[account] >= 0
          BY CouriersOnlyCollect DEF CouriersAreNeverOwed
        <4> HIDE DEF account
        <4>3. balance'[account] >= 0
          BY <2>2, <3>1, <4>1, <4>2 DEF Event, Post, BookOK
        <4> QED
          BY <4>3 DEF account
      <3> QED
        BY <3>2, <3>3 DEF CouriersAreNeverOwed
    <2>3. ASSUME NEW account \in Accounts, NEW amount \in Amounts, Withdraw(account, amount)
          PROVE  BInv'
      <3>1. amount \in Nat
        BY AmountsAreNumbers
      <3>2. balance' = [a \in Accounts |-> balance[a] + (IF a = account THEN -amount ELSE 0)]
        BY <2>3 DEF Withdraw, Post
      <3>3. BookOK'
        BY <2>3, <3>1, <3>2 DEF Withdraw, BookOK
      <3>4. ASSUME NEW d \in Couriers PROVE balance'[<<"COURIER", d>>] >= 0
        <4> DEFINE own == <<"COURIER", d>>
        <4>1. own \in Accounts
          BY CouriersHaveAccounts
        <4>2. balance[own] >= 0 /\ balance[own] \in Int
          BY <4>1 DEF CouriersAreNeverOwed, BookOK
        <4>3. amount <= balance[account]
          BY <2>3 DEF Withdraw
        <4> HIDE DEF own
        <4>4. balance'[own] >= 0
          BY <3>1, <3>2, <4>1, <4>2, <4>3
        <4> QED
          BY <4>4 DEF own
      <3> QED
        BY <3>3, <3>4 DEF CouriersAreNeverOwed
    <2> QED
      BY <2>1, <2>2, <2>3 DEF BookNext
  <1>3. BInv => CouriersAreNeverOwed
    OBVIOUS
  <1>4. BookSpec => []CouriersAreNeverOwed
    <2> HIDE DEF BInv
    <2> QED
      BY <1>1, <1>2, <1>3, PTL DEF BookSpec
  <1> QED
    BY <1>4, LedgerImplementsBook DEF ImplementsBook

=============================================================================
