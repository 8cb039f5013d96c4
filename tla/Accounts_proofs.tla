--------------------------- MODULE Accounts_proofs --------------------------
(***************************************************************************)
(* What holds of the accounts for any number of them, of requests in       *)
(* flight and of failed sign-ins allowed.  A save writes back a copy that  *)
(* may be old, so what is said of the rows is said of the copies as well.  *)
(***************************************************************************)
EXTENDS Accounts, TLAPS

(* A row or a copy of an account that the code's rules for the super admin *)
(* have kept their hands off.                                              *)
Stands(user) == user.exists /\ user.active /\ ~user.deleted /\ user.role = "ADMIN"

(* A copy was read from a row, and the super admin's is safe to save; one  *)
(* to be inserted is new; no count reaches the limit; only the booking that*)
(* created an account goes on to invite.                                   *)
Fine(w) ==
  /\ w.copy.failed < MaxFailed
  /\ w.stage \in {"save", "update", "clear", "failed"} => users[w.user].exists
  /\ w.stage \in {"save", "update"} =>
       w.copy.exists /\ (w.user = SuperAdmin => Stands(w.copy))
  /\ w.stage \in {"insert", "placeholder"} =>
       w.copy.exists /\ w.copy.failed = 0 /\ w.copy.until = 0
  /\ w.stage = "insert" => w.copy.secret
  /\ w.stage = "invite" => w.new

Saving(w) == w.stage \in {"save", "update"}

(* Rows are inserted and never removed. *)
Copied ==
  /\ \A u \in Users :
       /\ ~users[u].exists => users[u] = Absent
       /\ users[u].failed < MaxFailed
  /\ \A h \in Handlers : Fine(work[h])

Standing == Stands(users[SuperAdmin])

(* A booking that created the account of u goes on to invite its owner. *)
Invites(w, u) == w.user = u /\ w.new /\ w.stage \in {"book", "invite"}

Accounted(u) == invites[u] = 1 \/ u \in cut \/ \E h \in Handlers : Invites(work[h], u)

Invited ==
  /\ \A u \in Users :
       /\ invites[u] <= 1
       /\ invites[u] = 1 => users[u].exists
       /\ users[u].exists /\ ~users[u].secret => Accounted(u)
       /\ \A h, k \in Handlers : Invites(work[h], u) /\ Invites(work[k], u) => h = k
       /\ \A h \in Handlers : Invites(work[h], u) => invites[u] = 0 /\ users[u].exists
  /\ \A h \in Handlers : Saving(work[h]) /\ ~work[h].copy.secret => Accounted(work[h].user)

-----------------------------------------------------------------------------
Trying(h, u) == At(h, "failed") /\ work[h].user = u

Read(h) == work[h].copy.failed

-----------------------------------------------------------------------------
(* Types *)

LEMMA AbsentType == Absent \in User
BY MaxFailedAssumption, SMT DEF Absent, User, Role

LEMMA IdleType == Idle \in Work
BY SuperAdminAssumption, AbsentType DEF Idle, Work, Stages

(* Every edit of an entity is one of its columns, or a few. *)
LEMMA EditTypes ==
  ASSUME NEW row \in User, NEW b \in BOOLEAN
  PROVE  /\ [row EXCEPT !.secret = b] \in User
         /\ [row EXCEPT !.deleted = b] \in User
         /\ [row EXCEPT !.verified = b] \in User
         /\ \A n \in 0 .. MaxFailed : [row EXCEPT !.failed = n] \in User
         /\ \A n \in 0 .. MaxFailed, m \in Nat : [row EXCEPT !.failed = n, !.until = m] \in User
<1>1. [row EXCEPT !.secret = b] \in User
  BY Zenon DEF User
<1>2. [row EXCEPT !.deleted = b] \in User
  BY Zenon DEF User
<1>3. [row EXCEPT !.verified = b] \in User
  BY Zenon DEF User
<1>5. ASSUME NEW n \in 0 .. MaxFailed PROVE [row EXCEPT !.failed = n] \in User
  BY Zenon DEF User
<1>6. ASSUME NEW n \in 0 .. MaxFailed, NEW m \in Nat
      PROVE  [row EXCEPT !.failed = n, !.until = m] \in User
  BY Zenon DEF User
<1>. QED
  BY <1>1, <1>2, <1>3, <1>5, <1>6, Zenon

(* A save leaves each column as the row has it or as the entity has it. *)
LEMMA WrittenFacts ==
  ASSUME NEW row \in User, NEW copy \in User, NEW seen \in User
  PROVE  LET new == Written(row, copy, seen) IN
         /\ new \in User
         /\ new.exists = row.exists \/ new.exists = copy.exists
         /\ new.role = row.role \/ new.role = copy.role
         /\ new.active = row.active \/ new.active = copy.active
         /\ new.deleted = row.deleted \/ new.deleted = copy.deleted
         /\ new.secret = row.secret \/ new.secret = copy.secret
         /\ new.failed = row.failed \/ new.failed = copy.failed
         /\ new.until = row.until \/ new.until = copy.until
BY SMT DEF Written, User

(* What a request may hold of an account it will write: a copy of the row, *)
(* as far as the rules let it differ.                                      *)
Faithful(copy, u) ==
  /\ users[u].exists /\ copy \in User /\ copy.exists
  /\ copy.failed = users[u].failed /\ copy.until = users[u].until
  /\ copy.secret \/ ~users[u].secret
  /\ users[u].deleted => copy.deleted
  /\ u = SuperAdmin /\ Stands(users[u]) => Stands(copy)

(* The requests that load an account, change it and go on to save it. *)
Loads(h, u) ==
  /\ \E copy \in User, new \in BOOLEAN : Faithful(copy, u) /\ Starts(h, "save", u, copy, new)
  /\ UNCHANGED <<users, links, histories>>

Loading(h, u, actor) ==
  updateProfile(h, u) \/ changePassword(h, u) \/ setUserActiveStatus(h, u, actor)
    \/ setDeliveryApproval(h, u, actor) \/ adminUpdateUser(h, u, actor)
    \/ removeAccount(h, u, actor) \/ resetPassword(h, u)

LEMMA LoadingLoads ==
  ASSUME AccountsOK, NEW h \in Handlers, NEW u \in Users, NEW actor \in Users,
         Loading(h, u, actor)
  PROVE  Loads(h, u)
<1>. PICK row \in User : row = users[u]
  BY DEF AccountsOK
<1>0. TRUE \in BOOLEAN /\ FALSE \in BOOLEAN
  OBVIOUS
<1>1. ASSUME NEW papers \in BOOLEAN, row.exists
      PROVE  /\ [row EXCEPT !.papers = @ \/ papers] \in User
             /\ Faithful([row EXCEPT !.papers = @ \/ papers], u)
  BY <1>1, SMT DEF Faithful, User, Stands
<1>2. CASE updateProfile(h, u)
  BY <1>0, <1>1, <1>2, Zenon DEF updateProfile, CanSignIn, Loads
<1>3. CASE changePassword(h, u)
  <2>1. Faithful(row, u)
    BY <1>3, SMT DEF Faithful, changePassword, CanSignIn
  <2>. QED
    BY <1>0, <1>3, <2>1, Zenon DEF changePassword, Loads
<1>4. CASE setUserActiveStatus(h, u, actor)
  <2>1. ASSUME NEW active \in BOOLEAN, row.exists, ~active => u # SuperAdmin
        PROVE  /\ [row EXCEPT !.active = active] \in User
               /\ Faithful([row EXCEPT !.active = active], u)
    BY <2>1, SMT DEF Faithful, User, Stands
  <2>. QED
    BY <1>0, <1>4, <2>1, Zenon DEF setUserActiveStatus, assertMayBeBlocked, isSuperAdmin, Found,
       Loads
<1>5. CASE setDeliveryApproval(h, u, actor)
  <2>1. ASSUME NEW role \in Role, row.exists, row.role = "PENDING_DELIVERY"
        PROVE  /\ [row EXCEPT !.role = role] \in User
               /\ Faithful([row EXCEPT !.role = role], u)
    BY <2>1, SMT DEF Faithful, User, Stands
  <2>2. PICK approved \in BOOLEAN :
          Starts(h, "save", u,
            [row EXCEPT !.role = IF approved THEN "DELIVERY_PERSONNEL" ELSE "SENDER"], FALSE)
    BY <1>5 DEF setDeliveryApproval
  <2>3. (IF approved THEN "DELIVERY_PERSONNEL" ELSE "SENDER") \in Role
    BY DEF Role
  <2>. QED
    BY <1>0, <1>5, <2>1, <2>2, <2>3, Zenon DEF setDeliveryApproval, Found, Loads
<1>6. CASE adminUpdateUser(h, u, actor)
  <2>1. ASSUME NEW role \in Role, NEW verified \in BOOLEAN, NEW papers \in BOOLEAN, row.exists,
               role # row.role => u # SuperAdmin
        PROVE  LET edited == [row EXCEPT !.role = role, !.verified = verified, !.papers = papers]
               IN  edited \in User /\ Faithful(edited, u)
    <3>. PICK edited : edited = [row EXCEPT !.role = role, !.verified = verified, !.papers = papers]
      OBVIOUS
    <3>1. edited \in User
      BY Zenon DEF User
    <3>2. /\ edited.exists = row.exists /\ edited.failed = row.failed /\ edited.until = row.until
          /\ edited.secret = row.secret /\ edited.active = row.active
          /\ edited.deleted = row.deleted /\ edited.role = role
      BY SMT DEF User
    <3>. QED
      BY <2>1, <3>1, <3>2, Zenon DEF Faithful, Stands
  <2>. QED
    BY <1>0, <1>6, <2>1, Zenon DEF adminUpdateUser, isSuperAdmin, Found, Loads
<1>7. CASE removeAccount(h, u, actor)
  <2>1. row.exists /\ u # SuperAdmin
    BY <1>7, Zenon DEF removeAccount, CanSignIn, Found, isSuperAdmin
  <2>2. /\ [row EXCEPT !.deleted = TRUE] \in User
        /\ Faithful([row EXCEPT !.deleted = TRUE], u)
    <3>. PICK edited : edited = [row EXCEPT !.deleted = TRUE]
      OBVIOUS
    <3>1. edited \in User
      BY <1>0, EditTypes, Zenon
    <3>2. /\ edited.exists = row.exists /\ edited.failed = row.failed /\ edited.until = row.until
          /\ edited.active = row.active /\ edited.role = row.role
          /\ edited.deleted /\ edited.secret = row.secret
      BY SMT DEF User
    <3>. QED
      BY <2>1, <3>1, <3>2, Zenon DEF Faithful, Stands
  <2>. QED
    BY <1>0, <1>7, <2>2, Zenon DEF removeAccount, Loads
<1>8. CASE resetPassword(h, u)
  <2>1. /\ [row EXCEPT !.secret = TRUE] \in User
        /\ Faithful([row EXCEPT !.secret = TRUE], u)
    <3>. PICK edited : edited = [row EXCEPT !.secret = TRUE]
      OBVIOUS
    <3>1. edited \in User
      BY <1>0, EditTypes, Zenon
    <3>2. /\ edited.exists = row.exists /\ edited.failed = row.failed /\ edited.until = row.until
          /\ edited.active = row.active /\ edited.role = row.role
          /\ edited.secret /\ edited.deleted = row.deleted
      BY SMT DEF User
    <3>. QED
      BY <1>8, <3>1, <3>2, Zenon DEF Faithful, Stands, resetPassword
  <2>2. (~row.verified \/ Stained(row)) \in BOOLEAN
    BY DEF Stained
  <2>. QED
    BY <1>8, <2>1, <2>2, Zenon DEF resetPassword, Loads
<1>. QED
  BY <1>2, <1>3, <1>4, <1>5, <1>6, <1>7, <1>8 DEF Loading

-----------------------------------------------------------------------------
(* The steps, by what they do to rows and jobs.                            *)

(* A request goes on, and neither rows nor counts change; no copy is taken *)
(* to be saved, and a booking to be invited stays one.                     *)
Quietly(h, w) ==
  /\ w \in Work /\ Fine(w) /\ ~Saving(w) /\ w.stage # "failed" /\ ~At(h, "failed")
  /\ \A u \in Users : Invites(w, u) <=> Invites(work[h], u)
  /\ work' = [work EXCEPT ![h] = w]
  /\ links' \in [Users -> 0 .. MaxLinks]
  /\ UNCHANGED <<users, histories>>

(* A request has a copy of a row in memory that it will save. *)
Copies(h, u, copy, new) ==
  /\ Faithful(copy, u) /\ new \in BOOLEAN
  /\ work[h].stage \in {"idle", "mark"}
  /\ Turns(h, "save", u, copy, new)
  /\ UNCHANGED <<users, links, histories>>

(* A request inserts the row of a new account. *)
Inserts(h) ==
  LET w == work[h] IN
  /\ w.stage \in {"insert", "placeholder"} /\ ~users[w.user].exists
  /\ users' = [users EXCEPT ![w.user] = w.copy]
  /\ IF w.stage = "insert" THEN Turns(h, "spend", w.user, Absent, FALSE)
     ELSE Turns(h, "book", w.user, w.copy, TRUE)
  /\ UNCHANGED <<links, histories>>

LEMMA SmallJobs ==
  ASSUME NEW u \in Users, NEW new \in BOOLEAN, NEW copy \in User, copy.failed < MaxFailed,
         NEW stage \in Stages \ {"save", "update", "insert", "placeholder"},
         stage \in {"clear", "failed"} => users[u].exists,
         stage = "invite" => new
  PROVE  LET w == [stage |-> stage, user |-> u, copy |-> copy, seen |-> Absent, new |-> new]
         IN  w \in Work /\ Fine(w)
<1>. PICK w : w = [stage |-> stage, user |-> u, copy |-> copy, seen |-> Absent, new |-> new]
  OBVIOUS
<1>1. w.stage = stage /\ w.copy = copy /\ w.user = u /\ w.new = new
  OBVIOUS
<1>2. w \in Work
  BY AbsentType DEF Work
<1>. QED
  BY <1>1, <1>2, Zenon DEF Fine

LEMMA IdleIsFine == Idle \in Work /\ Fine(Idle) /\ Idle.stage = "idle"
BY IdleType, MaxFailedAssumption, SMT DEF Idle, Fine, Absent

LEMMA AbsentCount == Absent.failed < MaxFailed
BY MaxFailedAssumption, SMT DEF Absent

LEMMA InsertsAreFine ==
  ASSUME NEW w, w.stage = "insert" \/ w.stage = "placeholder", w.copy.exists,
         w.copy.failed = 0, w.copy.until = 0, w.stage = "insert" => w.copy.secret
  PROVE  Fine(w)
<1>1. 0 < MaxFailed
  BY MaxFailedAssumption, SMT
<1>2. w.copy.failed < MaxFailed
  BY <1>1, Zenon
<1>3. w.stage \notin {"save", "update", "clear", "failed", "invite"}
  OBVIOUS
<1>. QED
  BY <1>2, <1>3, Zenon DEF Fine

(* A request that only moves on. *)
LEMMA MovesQuietly ==
  ASSUME NEW h \in Handlers, NEW w \in Work, Fine(w),
         work[h].stage \notin {"book", "invite", "failed"},
         w.stage \notin {"save", "update", "failed", "invite"}, ~w.new \/ w.stage # "book",
         work' = [work EXCEPT ![h] = w], links' \in [Users -> 0 .. MaxLinks],
         UNCHANGED <<users, histories>>
  PROVE  Quietly(h, w)
BY Zenon DEF Quietly, Invites, At, Saving

LEMMA FirstSteps ==
  ASSUME AccountsOK, Copied, NEW h \in Handlers, NEW u \in Users,
         createUser(h, u) \/ resendVerification(h, u) \/ verifyEmail(h, u)
           \/ login(h, u) \/ findOrCreateReceiver(h, u)
  PROVE  \E w \in Work : Quietly(h, w)
<1>0. /\ links' \in [Users -> 0 .. MaxLinks]
      /\ work[h].stage = "idle" /\ UNCHANGED <<users, histories>>
  <2>1. CASE verifyEmail(h, u)
    <3>1. links[u] \in 0 .. MaxLinks /\ links[u] > 0
      BY <2>1 DEF verifyEmail, AccountsOK
    <3>2. links[u] - 1 \in 0 .. MaxLinks
      BY <3>1, MaxLinksAssumption, SMT
    <3>. QED
      BY <2>1, <3>2 DEF verifyEmail, AccountsOK, Starts, At
  <2>. QED
    BY <2>1 DEF createUser, resendVerification, login, findOrCreateReceiver, AccountsOK, Starts, At
<1>1. TRUE \in BOOLEAN /\ FALSE \in BOOLEAN
  OBVIOUS
<1>2. CASE createUser(h, u)
  <2>1. PICK role \in Role, papers \in BOOLEAN :
          Starts(h, "insert", u,
            [Absent EXCEPT !.exists = TRUE, !.secret = TRUE, !.papers = papers,
                           !.role = resolveUserRole(role)], FALSE)
    BY <1>2 DEF createUser
  <2>. PICK copy : copy = [Absent EXCEPT !.exists = TRUE, !.secret = TRUE, !.papers = papers,
                                         !.role = resolveUserRole(role)]
    OBVIOUS
  <2>2. resolveUserRole(role) \in Role
    BY DEF resolveUserRole, Role
  <2>3. copy \in User
    BY <1>1, <2>2, AbsentType, Zenon DEF User
  <2>4. copy.exists /\ copy.secret /\ copy.failed = 0 /\ copy.until = 0
    BY Zenon DEF Absent
  <2>. PICK w : w = [stage |-> "insert", user |-> u, copy |-> copy, seen |-> Absent, new |-> FALSE]
    OBVIOUS
  <2>5. w.stage = "insert" /\ w.copy = copy /\ w.new = FALSE
    OBVIOUS
  <2>6. w \in Work
    BY <1>1, <2>3, AbsentType, Zenon DEF Work, Stages
  <2>7. Fine(w)
    BY <2>4, <2>5, InsertsAreFine, Zenon
  <2>8. work' = [work EXCEPT ![h] = w]
    BY <2>1, Zenon DEF Starts, Turns
  <2>. QED
    BY <1>0, <2>5, <2>6, <2>7, <2>8, MovesQuietly
<1>3. ASSUME NEW stage \in {"spend", "mark", "clear", "book"}, NEW copy \in User,
             copy.failed < MaxFailed, stage = "clear" => users[u].exists,
             Starts(h, stage, u, copy, FALSE)
      PROVE  \E w \in Work : Quietly(h, w)
  <2>. PICK w : w = [stage |-> stage, user |-> u, copy |-> copy, seen |-> Absent, new |-> FALSE]
    OBVIOUS
  <2>1. w.stage = stage /\ w.new = FALSE
    OBVIOUS
  <2>2. /\ stage \in Stages \ {"save", "update", "insert", "placeholder"}
        /\ stage \in {"clear", "failed"} => users[u].exists
        /\ stage # "invite"
    BY <1>3 DEF Stages
  <2>3. w \in Work /\ Fine(w)
    BY <1>1, <1>3, <2>2, SmallJobs, Zenon
  <2>4. work' = [work EXCEPT ![h] = w]
    BY <1>3, Zenon DEF Starts, Turns
  <2>. QED
    BY <1>0, <2>1, <2>3, <2>4, MovesQuietly
<1>4. users[u] \in User /\ users[u].failed < MaxFailed
  BY DEF AccountsOK, Copied
<1>5. CASE resendVerification(h, u)
  BY <1>3, <1>5, AbsentType, AbsentCount DEF resendVerification
<1>6. CASE verifyEmail(h, u)
  BY <1>3, <1>6, AbsentType, AbsentCount DEF verifyEmail
<1>7. CASE login(h, u)
  BY <1>3, <1>4, <1>7 DEF login, CanSignIn
<1>8. CASE findOrCreateReceiver(h, u)
  <2>1. CASE users[u].exists
    BY <1>3, <1>4, <1>8, <2>1 DEF findOrCreateReceiver
  <2>2. CASE ~users[u].exists
    <3>. PICK copy : copy = [Absent EXCEPT !.exists = TRUE, !.role = "RECEIVER"]
      OBVIOUS
    <3>1. Starts(h, "placeholder", u, copy, TRUE)
      BY <1>8, <2>2 DEF findOrCreateReceiver
    <3>2. copy \in User
      BY <1>1, AbsentType, Zenon DEF User, Role
    <3>3. copy.exists /\ copy.failed = 0 /\ copy.until = 0
      BY SMT DEF Absent
    <3>. PICK w : w = [stage |-> "placeholder", user |-> u, copy |-> copy,
                       seen |-> Absent, new |-> TRUE]
      OBVIOUS
    <3>4. w.stage = "placeholder" /\ w.copy = copy
      OBVIOUS
    <3>5. w \in Work
      BY <1>1, <3>2, AbsentType, Zenon DEF Work, Stages
    <3>6. Fine(w)
      BY <3>3, <3>4, InsertsAreFine, Zenon
    <3>7. work' = [work EXCEPT ![h] = w]
      BY <3>1, Zenon DEF Starts, Turns
    <3>. QED
      BY <1>0, <3>4, <3>5, <3>6, <3>7, MovesQuietly
  <2>. QED
    BY <2>1, <2>2
<1>. QED
  BY <1>2, <1>5, <1>6, <1>7, <1>8

(* The rest of the steps. *)
Kind(h) ==
  \/ \E w \in Work : Quietly(h, w)
  \/ \E u \in Users, copy \in User, new \in BOOLEAN : Copies(h, u, copy, new)
  \/ Inserts(h) \/ Select(h) \/ Save(h) \/ clearFailedLogins(h) \/ recordFailedLogin(h)
  \/ \E u \in Users : Guess(h, u)
  \/ Invite(h) \/ Stop(h)

LEMMA EndsQuietly ==
  ASSUME NEW h \in Handlers, work[h].stage \notin {"invite", "failed"},
         work[h].stage = "book" => ~work[h].new, Ends(h),
         links' \in [Users -> 0 .. MaxLinks], UNCHANGED <<users, histories>>
  PROVE  Kind(h)
<1>1. \A u \in Users : ~Invites(Idle, u) /\ ~Invites(work[h], u)
  BY IdleIsFine, Zenon DEF Invites
<1>2. Quietly(h, Idle)
  BY <1>1, IdleIsFine, Zenon DEF Quietly, Ends, At, Saving
<1>. QED
  BY <1>2, IdleIsFine, Zenon DEF Kind

LEMMA ProceedKinds ==
  ASSUME AccountsOK, Copied, NEW h \in Handlers, Proceed(h)
  PROVE  Kind(h)
<1>. PICK j \in Work : j = work[h] /\ j.copy.failed < MaxFailed
  BY DEF AccountsOK, Copied, Fine
<1>1. /\ j.user \in Users /\ j.copy \in User /\ j.new \in BOOLEAN
      /\ users[j.user] \in User /\ links[j.user] \in 0 .. MaxLinks
  BY DEF Work, AccountsOK
<1>2. links \in [Users -> 0 .. MaxLinks] /\ TRUE \in BOOLEAN /\ FALSE \in BOOLEAN
  BY DEF AccountsOK
<1>3. CASE Insert(h)
  <2>1. CASE users[j.user].exists
    BY <1>2, <1>3, <2>1, EndsQuietly, Zenon DEF Insert, At
  <2>2. CASE ~users[j.user].exists
    BY <1>3, <2>2, Zenon DEF Insert, At, Inserts, Kind
  <2>. QED
    BY <2>1, <2>2
<1>4. CASE SpendLinks(h)
  <2>. PICK w : w = [stage |-> "issue", user |-> j.user, copy |-> Absent,
                     seen |-> Absent, new |-> FALSE]
    OBVIOUS
  <2>1. w.stage = "issue" /\ w.new = FALSE
    OBVIOUS
  <2>2. "issue" \in Stages \ {"save", "update", "insert", "placeholder"}
    BY DEF Stages
  <2>3. w \in Work /\ Fine(w)
    BY <1>1, <1>2, <2>2, SmallJobs, AbsentType, AbsentCount, Zenon
  <2>4. work' = [work EXCEPT ![h] = w] /\ work[h].stage = "spend" /\ UNCHANGED <<users, histories>>
    BY <1>4, Zenon DEF SpendLinks, Turns, At
  <2>5. 0 \in 0 .. MaxLinks
    BY MaxLinksAssumption, SMT
  <2>6. links' \in [Users -> 0 .. MaxLinks]
    BY <1>2, <1>4, <2>5, Zenon DEF SpendLinks
  <2>7. Quietly(h, w)
    BY <2>1, <2>3, <2>4, <2>6, MovesQuietly
  <2>. QED
    BY <2>3, <2>7, Zenon DEF Kind
<1>5. CASE IssueLink(h)
  <2>1. links[j.user] + 1 \in 0 .. MaxLinks
    BY <1>1, <1>5, MaxLinksAssumption, SMT DEF IssueLink
  <2>2. links' \in [Users -> 0 .. MaxLinks]
    BY <1>2, <1>5, <2>1 DEF IssueLink
  <2>. QED
    BY <1>5, <2>2, EndsQuietly, Zenon DEF IssueLink, At
<1>6. CASE Select(h) \/ Save(h) \/ clearFailedLogins(h) \/ recordFailedLogin(h) \/ Invite(h)
  BY <1>6, Zenon DEF Kind
<1>7. CASE Mark(h)
  <2>1. CASE Found(j.user)
    <3>. PICK copy : copy = [users[j.user] EXCEPT !.verified = TRUE]
      OBVIOUS
    <3>1. copy \in User
      BY <1>1, <1>2, EditTypes, Zenon
    <3>2. /\ copy.exists = users[j.user].exists /\ copy.failed = users[j.user].failed
          /\ copy.until = users[j.user].until /\ copy.secret = users[j.user].secret
          /\ copy.active = users[j.user].active /\ copy.deleted = users[j.user].deleted
          /\ copy.role = users[j.user].role
      BY <1>1, Zenon DEF User
    <3>3. Faithful(copy, j.user)
      BY <2>1, <3>1, <3>2, Zenon DEF Faithful, Found, Stands
    <3>4. Copies(h, j.user, copy, Stained(j.copy))
      BY <1>1, <1>7, <2>1, <3>3, Zenon DEF Mark, Copies, At, Stained
    <3>5. Stained(j.copy) \in BOOLEAN
      BY DEF Stained
    <3>. QED
      BY <1>1, <3>1, <3>4, <3>5, Zenon DEF Kind
  <2>2. CASE ~Found(j.user)
    BY <1>2, <1>7, <2>2, EndsQuietly, Zenon DEF Mark, At
  <2>. QED
    BY <2>1, <2>2
<1>8. CASE InsertReceiver(h)
  <2>1. CASE users[j.user].exists
    BY <1>2, <1>8, <2>1, EndsQuietly, Zenon DEF InsertReceiver, At
  <2>2. CASE ~users[j.user].exists
    BY <1>8, <2>2, Zenon DEF InsertReceiver, At, Inserts, Kind
  <2>. QED
    BY <2>1, <2>2
<1>9. CASE Book(h)
  <2>1. CASE j.new
    <3>. PICK w : w = [stage |-> "invite", user |-> j.user, copy |-> j.copy,
                       seen |-> Absent, new |-> TRUE]
      OBVIOUS
    <3>1. w.stage = "invite" /\ w.new = TRUE /\ w.user = j.user
      OBVIOUS
    <3>2. "invite" \in Stages \ {"save", "update", "insert", "placeholder"}
      BY DEF Stages
    <3>3. w \in Work /\ Fine(w)
      BY <1>1, <1>2, <3>2, SmallJobs, Zenon
    <3>4. /\ work' = [work EXCEPT ![h] = w] /\ work[h].stage = "book"
          /\ UNCHANGED <<users, links, histories>>
      BY <1>9, <2>1, Zenon DEF Book, Turns, At
    <3>5. \A u \in Users : Invites(w, u) <=> Invites(work[h], u)
      BY <2>1, <3>1, <3>4, Zenon DEF Invites
    <3>6. links' \in [Users -> 0 .. MaxLinks]
      BY <1>2, <3>4
    <3>7. Quietly(h, w)
      BY <3>1, <3>3, <3>4, <3>5, <3>6, Zenon DEF Quietly, At, Saving
    <3>. QED
      BY <3>3, <3>7, Zenon DEF Kind
  <2>2. CASE ~j.new
    BY <1>2, <1>9, <2>2, EndsQuietly, Zenon DEF Book, At
  <2>. QED
    BY <2>1, <2>2
<1>. QED
  BY <1>3, <1>4, <1>5, <1>6, <1>7, <1>8, <1>9, Zenon DEF Proceed

(* Whatever happens is one of these. *)
LEMMA StepKinds ==
  ASSUME AccountsOK, Copied, AccountsNext
  PROVE  (\E h \in Handlers : Kind(h)) \/ \E u \in Users : LockEnds(u)
<1>1. ASSUME NEW h \in Handlers, NEW u \in Users, NEW actor \in Users, Loading(h, u, actor)
      PROVE  Kind(h)
  <2>1. PICK copy \in User, new \in BOOLEAN :
          Faithful(copy, u) /\ Starts(h, "save", u, copy, new)
    BY <1>1, LoadingLoads DEF Loads
  <2>2. UNCHANGED <<users, links, histories>>
    BY <1>1, LoadingLoads DEF Loads
  <2>3. Copies(h, u, copy, new)
    BY <2>1, <2>2, Zenon DEF Copies, Starts, At
  <2>. QED
    BY <2>3, Zenon DEF Kind
<1>2. ASSUME NEW h \in Handlers, NEW u \in Users,
             createUser(h, u) \/ OwnRequest(h, u) \/ Linked(h, u) \/ SignIn(h, u)
               \/ findOrCreateReceiver(h, u) \/ \E actor \in Users : Administer(h, u, actor)
      PROVE  Kind(h)
  <2>1. CASE createUser(h, u) \/ resendVerification(h, u) \/ verifyEmail(h, u) \/ login(h, u)
               \/ findOrCreateReceiver(h, u)
    BY <2>1, FirstSteps, Zenon DEF Kind
  <2>2. CASE Guess(h, u)
    BY <2>2, Zenon DEF Kind
  <2>3. CASE OwnRequest(h, u) \/ resetPassword(h, u)
    <3>1. Loading(h, u, u)
      BY <2>3, Zenon DEF OwnRequest, Loading
    <3>. QED
      BY <1>1, <3>1
  <2>4. ASSUME NEW actor \in Users, Administer(h, u, actor) PROVE Kind(h)
    <3>1. Loading(h, u, actor)
      BY <2>4, Zenon DEF Administer, Loading
    <3>. QED
      BY <1>1, <3>1
  <2>. QED
    BY <1>2, <2>1, <2>2, <2>3, <2>4, Zenon DEF Linked, SignIn
<1>3. ASSUME NEW h \in Handlers, Proceed(h) \/ Stop(h) PROVE Kind(h)
  BY <1>3, ProceedKinds, Zenon DEF Kind
<1>. QED
  BY <1>2, <1>3, Zenon DEF AccountsNext

-----------------------------------------------------------------------------
(* Types, copies and the super admin *)

CInv == AccountsOK /\ Copied /\ Standing

LEMMA CInvInit ==
  AccountsInit => CInv
<1>. SUFFICES ASSUME AccountsInit PROVE CInv
  OBVIOUS
<1>1. TRUE \in BOOLEAN /\ "ADMIN" \in Role /\ 0 < MaxFailed
  BY MaxFailedAssumption, SMT DEF Role
<1>. PICK root : root = [Absent EXCEPT !.exists = TRUE, !.role = "ADMIN", !.verified = TRUE,
                                       !.secret = TRUE]
  OBVIOUS
<1>2. root \in User
  BY <1>1, AbsentType, Zenon DEF User
<1>3. /\ root.exists /\ root.role = "ADMIN" /\ root.active = TRUE /\ root.deleted = FALSE
      /\ root.failed = 0
  BY Zenon DEF Absent
<1>4. users = [u \in Users |-> IF u = SuperAdmin THEN root ELSE Absent]
  BY Zenon DEF AccountsInit
<1>5. users \in [Users -> User] /\ users[SuperAdmin] = root
  BY <1>2, <1>4, AbsentType, SuperAdminAssumption, Zenon
<1>6. Standing
  BY <1>3, <1>5, Zenon DEF Standing, Stands
<1>7. 0 \in 0 .. MaxLinks /\ 0 \in Nat /\ 0 <= 0
  BY MaxLinksAssumption, SMT
<1>8. AccountsOK
  BY <1>5, <1>7, IdleIsFine, Zenon DEF AccountsInit, AccountsOK
<1>9. ASSUME NEW u \in Users
      PROVE  (~users[u].exists => users[u] = Absent) /\ users[u].failed < MaxFailed
  BY <1>1, <1>3, <1>4, AbsentCount, Zenon
<1>10. \A h \in Handlers : Fine(work[h])
  BY IdleIsFine, Zenon DEF AccountsInit
<1>. QED
  BY <1>6, <1>8, <1>9, <1>10, Zenon DEF CInv, Copied

(* What a step may do to the rows. *)
RowsKept ==
  /\ users' \in [Users -> User]
  /\ Standing'
  /\ \A v \in Users : /\ users[v].exists => users'[v].exists
                      /\ ~users'[v].exists => users'[v] = Absent
                      /\ users'[v].failed < MaxFailed

LEMMA RowKeeps ==
  ASSUME CInv, NEW u \in Users, NEW row \in User,
         users' = [users EXCEPT ![u] = row],
         row.exists, row.failed < MaxFailed, u = SuperAdmin => Stands(row)
  PROVE  RowsKept
<1>1. users \in [Users -> User] /\ Stands(users[SuperAdmin])
  BY DEF CInv, AccountsOK, Standing
<1>2. users' \in [Users -> User] /\ users'[u] = row /\ \A v \in Users \ {u} : users'[v] = users[v]
  BY <1>1, Zenon
<1>3. Standing'
  BY <1>1, <1>2, SuperAdminAssumption, Zenon DEF Standing, Stands
<1>4. ASSUME NEW v \in Users
      PROVE  /\ users[v].exists => users'[v].exists
             /\ ~users'[v].exists => users'[v] = Absent
             /\ users'[v].failed < MaxFailed
  BY <1>2, Zenon DEF CInv, Copied
<1>. QED
  BY <1>2, <1>3, <1>4, Zenon DEF RowsKept

LEMMA SameRows ==
  ASSUME CInv, UNCHANGED users
  PROVE  RowsKept
BY Zenon DEF CInv, AccountsOK, Copied, Standing, Stands, RowsKept

LEMMA FineStays ==
  ASSUME NEW w \in Work, Fine(w), RowsKept
  PROVE  Fine(w)'
<1>1. w.user \in Users
  BY DEF Work
<1>. QED
  BY <1>1, Zenon DEF Fine, Stands, RowsKept

LEMMA JobKeeps ==
  ASSUME CInv, RowsKept, NEW h \in Handlers, NEW w \in Work, work' = [work EXCEPT ![h] = w],
         Fine(w)'
  PROVE  Copied' /\ (work \in [Handlers -> Work])'
<1>1. work \in [Handlers -> Work] /\ \A k \in Handlers : Fine(work[k])
  BY DEF CInv, AccountsOK, Copied
<1>2. work' \in [Handlers -> Work]
  BY <1>1, Zenon
<1>3. ASSUME NEW k \in Handlers PROVE Fine(work[k])'
  <2>. PICK j \in Work : j = IF k = h THEN w ELSE work[k]
    BY <1>1
  <2>1. Fine(j)'
    <3>1. CASE k = h
      BY <3>1, Zenon
    <3>2. CASE k # h
      <4>1. j = work[k] /\ Fine(j)
        BY <1>1, <3>2
      <4>. QED
        BY <4>1, FineStays, Zenon
    <3>. QED
      BY <3>1, <3>2
  <2>2. work'[k] = j
    BY <1>1, Zenon
  <2>. QED
    BY <2>1, <2>2, Zenon DEF Fine, Stands
<1>. QED
  BY <1>2, <1>3, Zenon DEF Copied, RowsKept

(* A save puts back a copy, or what of it differs from the row, and the    *)
(* request ends or goes on to mark the address or to wipe the slate.       *)
LEMMA SaveGoesOn ==
  ASSUME CInv, NEW h \in Handlers, Save(h)
  PROVE  LET j == work[h] IN
         /\ j \in Work /\ Fine(j) /\ j.stage = "update"
         /\ j.user \in Users /\ j.copy \in User /\ j.seen \in User
         /\ users' = [users EXCEPT ![j.user] = Written(users[j.user], j.copy, j.seen)]
         /\ \E w \in Work :
              /\ work' = [work EXCEPT ![h] = w]
              /\ w.stage \in {"idle", "mark", "clear"}
              /\ RowsKept => Fine(w)'
<1>. PICK j \in Work : j = work[h] /\ Fine(j)
  BY DEF CInv, AccountsOK, Copied
<1>1. /\ j.stage = "update"
      /\ users' = [users EXCEPT ![j.user] = Written(users[j.user], j.copy, j.seen)]
  BY Zenon DEF Save, At
<1>2. /\ j.user \in Users /\ j.copy \in User /\ j.seen \in User
      /\ users[j.user].exists /\ j.copy.failed < MaxFailed
  BY <1>1 DEF Work, Fine
<1>3. \E w \in Work :
        /\ work' = [work EXCEPT ![h] = w]
        /\ w.stage \in {"idle", "mark", "clear"}
        /\ RowsKept => Fine(w)'
  <2>1. CASE ~j.new
    <3>1. work' = [work EXCEPT ![h] = Idle]
      BY <2>1, Zenon DEF Save, Ends
    <3>2. RowsKept => Fine(Idle)'
      BY FineStays, IdleIsFine, Zenon
    <3>. QED
      BY <3>1, <3>2, IdleIsFine, Zenon
  <2>2. CASE j.new
    <3>. PICK stage : stage = IF j.copy.verified THEN "clear" ELSE "mark"
      OBVIOUS
    <3>. PICK w : w = [stage |-> stage, user |-> j.user, copy |-> j.copy, seen |-> Absent,
                       new |-> FALSE]
      OBVIOUS
    <3>1. /\ stage \in Stages \ {"save", "update", "insert", "placeholder"}
          /\ stage \in {"idle", "mark", "clear"} /\ FALSE \in BOOLEAN
      BY DEF Stages
    <3>2. w \in Work /\ Fine(w)
      BY <1>2, <3>1, SmallJobs, Zenon
    <3>3. work' = [work EXCEPT ![h] = w]
      BY <2>2, Zenon DEF Save, Turns
    <3>4. RowsKept => Fine(w)'
      BY <3>2, FineStays, Zenon
    <3>. QED
      BY <3>1, <3>2, <3>3, <3>4, Zenon
  <2>. QED
    BY <2>1, <2>2
<1>. QED
  BY <1>1, <1>2, <1>3, Zenon

(* Reading the row again changes the request and nothing else. *)
LEMMA SelectGoesOn ==
  ASSUME CInv, NEW h \in Handlers, Select(h)
  PROVE  LET j == work[h] IN
         /\ j.stage = "save" /\ UNCHANGED <<users, links, histories>>
         /\ \E w \in Work :
              /\ work' = [work EXCEPT ![h] = w]
              /\ w.stage = "update" /\ w.user = j.user /\ w.copy = j.copy
              /\ Fine(w)
<1>. PICK j \in Work : j = work[h] /\ Fine(j)
  BY DEF CInv, AccountsOK, Copied
<1>1. /\ j.user \in Users /\ j.copy \in User /\ j.new \in BOOLEAN /\ users[j.user] \in User
  BY DEF Work, CInv, AccountsOK
<1>. PICK w : w = [stage |-> "update", user |-> j.user, copy |-> j.copy, seen |-> users[j.user],
                   new |-> j.new]
  OBVIOUS
<1>2. w.stage = "update" /\ w.user = j.user /\ w.copy = j.copy
  OBVIOUS
<1>3. w \in Work
  BY <1>1, AbsentType, Zenon DEF Work, Stages
<1>4. j.stage = "save" /\ UNCHANGED <<users, links, histories>>
  BY DEF Select, At
<1>5. work' = [work EXCEPT ![h] = w]
  BY Zenon DEF Select
<1>6. Fine(w)
  BY <1>2, <1>4, Zenon DEF Fine
<1>. QED
  BY <1>2, <1>3, <1>4, <1>5, <1>6, Zenon

(* The two updates of the lockout, as updates of a row. *)
LEMMA Clearing ==
  ASSUME CInv, NEW h \in Handlers, clearFailedLogins(h)
  PROVE  users' = [users EXCEPT ![work[h].user] =
           [users[work[h].user] EXCEPT !.failed = 0, !.until = 0]]
BY DEF clearFailedLogins, CInv, AccountsOK

LEMMA Recording ==
  ASSUME CInv, NEW h \in Handlers, recordFailedLogin(h)
  PROVE  LET u == work[h].user
             attempts == work[h].copy.failed + 1
         IN users' = [users EXCEPT ![u] =
              IF attempts >= MaxFailed
              THEN [users[u] EXCEPT !.failed = 0, !.until = locks[u] + 1]
              ELSE [users[u] EXCEPT !.failed = attempts]]
BY DEF recordFailedLogin, CInv, AccountsOK

(* A step of a request leaves all of it as it should be. *)
LEMMA CInvKind ==
  ASSUME CInv, NEW h \in Handlers, Kind(h)
  PROVE  RowsKept /\ Copied' /\ (work \in [Handlers -> Work])'
<1>. PICK j \in Work : j = work[h] /\ Fine(j)
  BY DEF CInv, AccountsOK, Copied
<1>1. /\ j.user \in Users /\ j.copy \in User /\ users[j.user] \in User
      /\ users[j.user].failed < MaxFailed
      /\ j.user = SuperAdmin => Stands(users[j.user])
  BY Zenon DEF CInv, AccountsOK, Copied, Standing, Work
<1>2. /\ TRUE \in BOOLEAN /\ FALSE \in BOOLEAN
      /\ 0 \in 0 .. MaxFailed /\ 0 < MaxFailed /\ 0 \in Nat
  BY MaxFailedAssumption, SMT
<1>3. ASSUME RowsKept, NEW w \in Work, work' = [work EXCEPT ![h] = w], Fine(w) \/ Fine(w)'
      PROVE  Copied' /\ (work \in [Handlers -> Work])'
  BY <1>3, FineStays, JobKeeps, Zenon
<1>4. ASSUME NEW w \in Work, Quietly(h, w)
      PROVE  RowsKept /\ Copied' /\ (work \in [Handlers -> Work])'
  BY <1>3, <1>4, SameRows, Zenon DEF Quietly
<1>5. ASSUME NEW u \in Users, NEW copy \in User, NEW new \in BOOLEAN, Copies(h, u, copy, new)
      PROVE  RowsKept /\ Copied' /\ (work \in [Handlers -> Work])'
  <2>1. RowsKept
    BY <1>5, SameRows, Zenon DEF Copies
  <2>. PICK w : w = [stage |-> "save", user |-> u, copy |-> copy, seen |-> Absent, new |-> new]
    OBVIOUS
  <2>2. w.stage = "save" /\ w.user = u /\ w.copy = copy
    OBVIOUS
  <2>3. w \in Work
    BY AbsentType, Zenon DEF Work, Stages
  <2>4. copy.exists /\ users[u].exists /\ copy.failed < MaxFailed
        /\ (u = SuperAdmin => Stands(copy))
    BY <1>5, Zenon DEF Copies, Faithful, CInv, Copied, Standing
  <2>5. Fine(w)
    BY <2>2, <2>4, Zenon DEF Fine
  <2>6. work' = [work EXCEPT ![h] = w]
    BY <1>5, Zenon DEF Copies, Turns
  <2>. QED
    BY <1>3, <2>1, <2>3, <2>5, <2>6, Zenon
<1>6. CASE Inserts(h)
  <2>1. /\ j.stage \in {"insert", "placeholder"} /\ ~users[j.user].exists
        /\ users' = [users EXCEPT ![j.user] = j.copy]
    BY <1>6, Zenon DEF Inserts
  <2>2. j.copy.exists /\ j.copy.failed < MaxFailed /\ j.user # SuperAdmin
    BY <2>1, Zenon DEF Fine, CInv, Standing, Stands
  <2>3. RowsKept
    BY <1>1, <2>1, <2>2, RowKeeps
  <2>4. CASE j.stage = "insert"
    <3>. PICK w : w = [stage |-> "spend", user |-> j.user, copy |-> Absent,
                       seen |-> Absent, new |-> FALSE]
      OBVIOUS
    <3>1. "spend" \in Stages \ {"save", "update", "insert", "placeholder"}
      BY DEF Stages
    <3>2. w \in Work /\ Fine(w)
      BY <1>1, <1>2, <3>1, AbsentType, AbsentCount, SmallJobs, Zenon
    <3>3. work' = [work EXCEPT ![h] = w]
      BY <1>6, <2>4, Zenon DEF Inserts, Turns
    <3>. QED
      BY <1>3, <2>3, <3>2, <3>3, Zenon
  <2>5. CASE j.stage = "placeholder"
    <3>. PICK w : w = [stage |-> "book", user |-> j.user, copy |-> j.copy,
                       seen |-> Absent, new |-> TRUE]
      OBVIOUS
    <3>1. "book" \in Stages \ {"save", "update", "insert", "placeholder"} /\ j.stage # "insert"
      BY <2>5 DEF Stages
    <3>2. w \in Work /\ Fine(w)
      BY <1>1, <1>2, <2>2, <3>1, SmallJobs, Zenon
    <3>3. work' = [work EXCEPT ![h] = w]
      BY <1>6, <3>1, Zenon DEF Inserts, Turns
    <3>. QED
      BY <1>3, <2>3, <3>2, <3>3, Zenon
  <2>. QED
    BY <2>1, <2>4, <2>5
<1>7. CASE Save(h)
  <2>. PICK row : row = Written(users[j.user], j.copy, j.seen)
    OBVIOUS
  <2>1. /\ j.stage = "update" /\ users' = [users EXCEPT ![j.user] = row] /\ j.seen \in User
        /\ \E w \in Work : work' = [work EXCEPT ![h] = w] /\ (RowsKept => Fine(w)')
    BY <1>7, SaveGoesOn, Zenon
  <2>2. /\ j.copy.exists /\ j.copy.failed < MaxFailed /\ users[j.user].exists
        /\ j.user = SuperAdmin => Stands(j.copy)
    BY <2>1, Zenon DEF Fine
  <2>3. row \in User /\ row.exists /\ row.failed < MaxFailed /\ (j.user = SuperAdmin => Stands(row))
    <3>1. /\ row \in User
          /\ row.exists = users[j.user].exists \/ row.exists = j.copy.exists
          /\ row.role = users[j.user].role \/ row.role = j.copy.role
          /\ row.active = users[j.user].active \/ row.active = j.copy.active
          /\ row.deleted = users[j.user].deleted \/ row.deleted = j.copy.deleted
          /\ row.failed = users[j.user].failed \/ row.failed = j.copy.failed
      BY <1>1, <2>1, WrittenFacts
    <3>. QED
      BY <1>1, <2>2, <3>1, Zenon DEF Stands
  <2>4. RowsKept
    BY <1>1, <2>1, <2>3, RowKeeps, Zenon
  <2>. QED
    BY <1>3, <2>1, <2>4, Zenon
<1>13. CASE Select(h)
  BY <1>3, <1>13, SelectGoesOn, SameRows, Zenon
<1>8. ASSUME Ends(h), RowsKept
      PROVE  RowsKept /\ Copied' /\ (work \in [Handlers -> Work])'
  BY <1>3, <1>8, IdleIsFine, Zenon DEF Ends
<1>9. CASE clearFailedLogins(h)
  <2>1. j.stage = "clear" /\ Ends(h) /\ users[j.user].exists
    BY <1>9, Zenon DEF clearFailedLogins, At, Fine
  <2>. PICK row : row = [users[j.user] EXCEPT !.failed = 0, !.until = 0]
    OBVIOUS
  <2>2. row \in User /\ row.exists /\ row.failed = 0 /\ (j.user = SuperAdmin => Stands(row))
    <3>1. row \in User
      BY <1>1, <1>2, EditTypes, Zenon
    <3>2. /\ row.exists = users[j.user].exists /\ row.failed = 0
          /\ row.active = users[j.user].active /\ row.deleted = users[j.user].deleted
          /\ row.role = users[j.user].role
      BY <1>1, Zenon DEF User
    <3>. QED
      BY <1>1, <2>1, <3>1, <3>2, Zenon DEF Stands
  <2>3. users' = [users EXCEPT ![j.user] = row]
    BY <1>1, <1>9, Clearing, Zenon
  <2>4. RowsKept
    BY <1>1, <1>2, <2>2, <2>3, RowKeeps, Zenon
  <2>. QED
    BY <1>8, <2>1, <2>4
<1>10. CASE recordFailedLogin(h)
  <2>1. j.stage = "failed" /\ Ends(h) /\ users[j.user].exists
    BY <1>10, Zenon DEF recordFailedLogin, At, Fine
  <2>. PICK attempts : attempts = j.copy.failed + 1
    OBVIOUS
  <2>. PICK m \in Nat : m = locks[j.user] + 1
    BY <1>1, SMT DEF CInv, AccountsOK
  <2>. PICK row : row = IF attempts >= MaxFailed
                        THEN [users[j.user] EXCEPT !.failed = 0, !.until = m]
                        ELSE [users[j.user] EXCEPT !.failed = attempts]
    OBVIOUS
  <2>2. row \in User /\ row.exists /\ row.failed < MaxFailed /\ (j.user = SuperAdmin => Stands(row))
    <3>1. CASE attempts >= MaxFailed
      <4>. PICK locked : locked = [users[j.user] EXCEPT !.failed = 0, !.until = m]
        OBVIOUS
      <4>1. locked \in User
        BY <1>1, <1>2, EditTypes, Zenon
      <4>2. /\ locked.exists = users[j.user].exists /\ locked.failed = 0
            /\ locked.active = users[j.user].active /\ locked.deleted = users[j.user].deleted
            /\ locked.role = users[j.user].role
        BY <1>1, Zenon DEF User
      <4>3. row = locked
        BY <3>1
      <4>. QED
        BY <1>1, <1>2, <2>1, <4>1, <4>2, <4>3, Zenon DEF Stands
    <3>2. CASE ~(attempts >= MaxFailed)
      <4>1. row = [users[j.user] EXCEPT !.failed = attempts]
        BY <3>2
      <4>2. attempts \in 0 .. MaxFailed /\ attempts < MaxFailed
        <5>1. j.copy.failed \in 0 .. MaxFailed
          BY <1>1 DEF User
        <5>. QED
          BY <3>2, <5>1, MaxFailedAssumption, SMT
      <4>3. row \in User
        BY <1>1, <4>1, <4>2, Zenon DEF User
      <4>4. /\ row.exists = users[j.user].exists /\ row.failed = attempts
            /\ row.active = users[j.user].active /\ row.deleted = users[j.user].deleted
            /\ row.role = users[j.user].role
        BY <1>1, <4>1, Zenon DEF User
      <4>. QED
        BY <1>1, <2>1, <4>2, <4>3, <4>4, Zenon DEF Stands
    <3>. QED
      BY <3>1, <3>2
  <2>3. users' = [users EXCEPT ![j.user] = row]
    BY <1>1, <1>10, Recording, Zenon
  <2>4. RowsKept
    BY <1>1, <2>2, <2>3, RowKeeps, Zenon
  <2>. QED
    BY <1>8, <2>1, <2>4
<1>11. ASSUME NEW u \in Users, Guess(h, u)
       PROVE  RowsKept /\ Copied' /\ (work \in [Handlers -> Work])'
  <2>. PICK w : w = [stage |-> "failed", user |-> u, copy |-> users[u],
                     seen |-> Absent, new |-> FALSE]
    OBVIOUS
  <2>1. "failed" \in Stages \ {"save", "update", "insert", "placeholder"}
    BY DEF Stages
  <2>2. users[u] \in User /\ users[u].failed < MaxFailed /\ users[u].exists
    BY <1>11, Zenon DEF CInv, AccountsOK, Copied, Guess
  <2>3. w \in Work /\ Fine(w)
    BY <1>2, <2>1, <2>2, SmallJobs, Zenon
  <2>4. work' = [work EXCEPT ![h] = w] /\ UNCHANGED users
    BY <1>11, Zenon DEF Guess, Starts, Turns
  <2>. QED
    BY <1>3, <2>3, <2>4, SameRows, Zenon
<1>12. CASE Invite(h) \/ Stop(h)
  BY <1>8, <1>12, SameRows, Zenon DEF Invite, Stop
<1>. QED
  BY <1>4, <1>5, <1>6, <1>7, <1>9, <1>10, <1>11, <1>12, <1>13, Zenon DEF Kind

CountersOK ==
  /\ links \in [Users -> 0 .. MaxLinks]
  /\ locks \in [Users -> Nat]
  /\ past \in [Users -> Nat]
  /\ tries \in [Users -> Nat]
  /\ invites \in [Users -> Nat]
  /\ cut \subseteq Users
  /\ \A u \in Users : past[u] <= locks[u]

LEMMA CountersKind ==
  ASSUME CInv, NEW h \in Handlers, Kind(h)
  PROVE  CountersOK'
<1>1. /\ links \in [Users -> 0 .. MaxLinks] /\ locks \in [Users -> Nat] /\ past \in [Users -> Nat]
      /\ tries \in [Users -> Nat] /\ invites \in [Users -> Nat] /\ cut \subseteq Users
      /\ \A v \in Users : past[v] <= locks[v]
      /\ work[h].user \in Users
  BY Zenon DEF CInv, AccountsOK, Work
<1>. PICK u \in Users : u = work[h].user
  BY <1>1
<1>2. /\ 0 \in Nat
      /\ \A v \in Users : tries[v] + 1 \in Nat
      /\ \A v \in Users : tries[v] > 0 => tries[v] - 1 \in Nat
      /\ invites[u] + 1 \in Nat
  BY <1>1, SMT
<1>3. CASE \E w \in Work : Quietly(h, w)
  BY <1>1, <1>3, Zenon DEF Quietly, histories, CountersOK
<1>4. CASE \E v \in Users, copy \in User, new \in BOOLEAN : Copies(h, v, copy, new)
  BY <1>1, <1>4, Zenon DEF Copies, histories, CountersOK
<1>5. CASE Inserts(h) \/ Select(h) \/ Save(h)
  BY <1>1, <1>5, Zenon DEF Inserts, Select, Save, histories, CountersOK
<1>6. CASE clearFailedLogins(h)
  <2>1. UNCHANGED <<links, locks, past, invites, cut>> /\ tries' = [tries EXCEPT ![u] = 0]
    BY <1>6, Zenon DEF clearFailedLogins
  <2>. QED
    BY <1>1, <1>2, <2>1, Zenon DEF CountersOK
<1>7. ASSUME NEW v \in Users, Guess(h, v) PROVE CountersOK'
  <2>1. /\ UNCHANGED <<links, locks, past, invites, cut>>
        /\ tries' = [tries EXCEPT ![v] = tries[v] + 1]
    BY <1>7, Zenon DEF Guess
  <2>. QED
    BY <1>1, <1>2, <2>1, Zenon DEF CountersOK
<1>8. CASE Invite(h)
  <2>1. /\ UNCHANGED <<links, locks, past, tries, cut>>
        /\ invites' = [invites EXCEPT ![u] = invites[u] + 1]
    BY <1>8, Zenon DEF Invite
  <2>. QED
    BY <1>1, <1>2, <2>1, Zenon DEF CountersOK
<1>9. CASE Stop(h)
  <2>1. UNCHANGED <<links, locks, past, invites>> /\ (cut' = cut \/ cut' = cut \cup {u})
    BY <1>9, Zenon DEF Stop
  <2>2. tries' = tries \/ (tries[u] > 0 /\ tries' = [tries EXCEPT ![u] = tries[u] - 1])
    BY <1>9, Zenon DEF Stop
  <2>3. tries' \in [Users -> Nat]
    BY <1>1, <1>2, <2>2, Zenon
  <2>. QED
    BY <1>1, <2>1, <2>3, Zenon DEF CountersOK
<1>10. CASE recordFailedLogin(h)
  <2>1. /\ UNCHANGED <<links, past, tries, invites, cut>>
        /\ locks' = locks \/ locks' = [locks EXCEPT ![u] = locks[u] + 1]
    BY <1>10, Zenon DEF recordFailedLogin
  <2>2. locks' \in [Users -> Nat] /\ \A v \in Users : past[v] <= locks'[v]
    BY <1>1, <2>1, SMT
  <2>. QED
    BY <1>1, <2>1, <2>2, Zenon DEF CountersOK
<1>. QED
  BY <1>3, <1>4, <1>5, <1>6, <1>7, <1>8, <1>9, <1>10, Zenon DEF Kind

(* A lockout of u is over. *)
LEMMA LockEndsKeeps ==
  ASSUME CInv, NEW u \in Users, LockEnds(u)
  PROVE  CInv' /\ RowsKept /\ UNCHANGED <<users, links, work, invites, cut>>
<1>1. /\ UNCHANGED <<users, links, work, locks, invites, cut>> /\ past[u] < locks[u]
      /\ past' = [past EXCEPT ![u] = past[u] + 1]
      /\ tries' = tries \/ tries' = [tries EXCEPT ![u] = 0]
  BY Zenon DEF LockEnds
<1>2. /\ tries \in [Users -> Nat] /\ past \in [Users -> Nat] /\ locks \in [Users -> Nat]
      /\ \A v \in Users : past[v] <= locks[v]
  BY DEF CInv, AccountsOK
<1>3. tries' \in [Users -> Nat]
  BY <1>1, <1>2, SMT
<1>4. past' \in [Users -> Nat] /\ \A v \in Users : past'[v] <= locks[v]
  BY <1>1, <1>2, SMT
<1>5. RowsKept
  BY <1>1, SameRows
<1>6. AccountsOK'
  BY <1>1, <1>3, <1>4, Zenon DEF CInv, AccountsOK
<1>7. Copied' /\ Standing'
  BY <1>1, Zenon DEF CInv, Copied, Standing, Fine, Stands
<1>. QED
  BY <1>1, <1>5, <1>6, <1>7, Zenon DEF CInv

LEMMA KindKeeps ==
  ASSUME CInv, NEW h \in Handlers, Kind(h)
  PROVE  CInv' /\ RowsKept
BY CInvKind, CountersKind, Zenon DEF CInv, AccountsOK, RowsKept, CountersOK

LEMMA CInvNext ==
  CInv /\ [AccountsNext]_accountVars => CInv'
<1>. SUFFICES ASSUME CInv, [AccountsNext]_accountVars PROVE CInv'
  OBVIOUS
<1>1. CASE AccountsNext
  <2>1. (\E h \in Handlers : Kind(h)) \/ \E u \in Users : LockEnds(u)
    BY <1>1, StepKinds, Zenon DEF CInv
  <2>. QED
    BY <2>1, KindKeeps, LockEndsKeeps, Zenon
<1>2. CASE UNCHANGED accountVars
  BY <1>2, Zenon DEF accountVars, CInv, AccountsOK, Copied, Standing, Fine, Stands
<1>. QED
  BY <1>1, <1>2

LEMMA CInvAlways == AccountsSpec => []CInv
BY CInvInit, CInvNext, PTL DEF AccountsSpec

(* Every row and every copy of one is an account of the table, the count of *)
(* failed sign-ins within its limit, and no more links are open than that.  *)
THEOREM AccountsTypes == AccountsSpec => []AccountsOK
<1>1. CInv => AccountsOK
  BY DEF CInv
<1>. QED
  BY <1>1, CInvAlways, PTL

(* Whatever administrators do to each other, at once and with stale copies, *)
(* one of them can still sign in: no copy of the super admin is ever one    *)
(* whose save would keep him out.                                           *)
THEOREM SomebodyCanUndo == AccountsSpec => []SomeoneCanUndo
<1>1. CInv => SomeoneCanUndo
  BY SuperAdminAssumption, Zenon
     DEF CInv, Standing, Stands, SomeoneCanUndo, IsAdmin, CanSignIn
<1>. QED
  BY <1>1, CInvAlways, PTL

-----------------------------------------------------------------------------
(* The invitations *)

LEMMA InvitedInit ==
  AccountsInit => Invited
<1>. SUFFICES ASSUME AccountsInit PROVE Invited
  OBVIOUS
<1>. PICK root : root = [Absent EXCEPT !.exists = TRUE, !.role = "ADMIN", !.verified = TRUE,
                                       !.secret = TRUE]
  OBVIOUS
<1>1. root.secret = TRUE /\ Absent.exists = FALSE /\ 0 <= 1 /\ 0 # 1
  BY SMT DEF Absent
<1>2. users = [u \in Users |-> IF u = SuperAdmin THEN root ELSE Absent]
  BY Zenon DEF AccountsInit
<1>3. \A u \in Users : ~(users[u].exists /\ ~users[u].secret)
  BY <1>1, <1>2, Zenon
<1>4. \A h \in Handlers : work[h] = Idle
  BY Zenon DEF AccountsInit
<1>5. \A h \in Handlers : ~Saving(work[h]) /\ \A u \in Users : ~Invites(work[h], u)
  BY <1>4, IdleIsFine, Zenon DEF Invites, Saving
<1>6. \A u \in Users : invites[u] <= 1 /\ invites[u] # 1
  <2>1. \A u \in Users : invites[u] = 0
    BY Zenon DEF AccountsInit
  <2>. QED
    BY <1>1, <2>1, Zenon
<1>. QED
  BY <1>3, <1>5, <1>6, Zenon DEF Invited

(* What has been said of an account's invitation stays true while every    *)
(* request that would issue it goes on to, or is cut off.                  *)
LEMMA AccountedStays ==
  ASSUME CInv, NEW h \in Handlers, NEW w, work' = [work EXCEPT ![h] = w], NEW u \in Users,
         invites'[u] = invites[u], cut \subseteq cut',
         Invites(work[h], u) => Invites(w, u) \/ u \in cut',
         Accounted(u)
  PROVE  Accounted(u)'
<1>1. work \in [Handlers -> Work]
  BY DEF CInv, AccountsOK
<1>2. work'[h] = w /\ \A k \in Handlers \ {h} : work'[k] = work[k]
  BY <1>1, Zenon
<1>3. CASE invites[u] = 1 \/ u \in cut
  BY <1>3, Zenon DEF Accounted
<1>4. ASSUME NEW k \in Handlers, Invites(work[k], u) PROVE Accounted(u)'
  <2>1. CASE k = h
    BY <1>2, <1>4, <2>1, Zenon DEF Accounted, Invites
  <2>2. CASE k # h
    BY <1>2, <1>4, <2>2, Zenon DEF Accounted, Invites
  <2>. QED
    BY <2>1, <2>2
<1>. QED
  BY <1>3, <1>4, Zenon DEF Accounted

LEMMA InvitedStep ==
  ASSUME CInv, RowsKept, Invited, NEW h \in Handlers, NEW w \in Work,
         work' = [work EXCEPT ![h] = w], UNCHANGED invites, cut \subseteq cut',
         \A u \in Users : Invites(work[h], u) => Invites(w, u) \/ u \in cut',
         \A u \in Users : Invites(w, u) =>
           Invites(work[h], u) \/ (~users[u].exists /\ users'[u].exists),
         \A u \in Users : users'[u].exists /\ ~users'[u].secret => Accounted(u) \/ Invites(w, u),
         Saving(w) /\ ~w.copy.secret => Accounted(w.user)
  PROVE  Invited'
<1>1. work \in [Handlers -> Work] /\ \A u \in Users : invites[u] \in Nat
  BY DEF CInv, AccountsOK
<1>2. work'[h] = w /\ \A k \in Handlers \ {h} : work'[k] = work[k]
  BY <1>1, Zenon
<1>3. ASSUME NEW u \in Users, Accounted(u) PROVE Accounted(u)'
  BY <1>3, AccountedStays, Zenon
<1>4. ASSUME NEW u \in Users, Invites(w, u) PROVE Accounted(u)'
  BY <1>2, <1>4, Zenon DEF Accounted
<1>5. ASSUME NEW u \in Users
      PROVE  /\ invites'[u] <= 1
             /\ invites'[u] = 1 => users'[u].exists
             /\ users'[u].exists /\ ~users'[u].secret => Accounted(u)'
  BY <1>3, <1>4, Zenon DEF Invited, RowsKept
<1>6. ASSUME NEW u \in Users, Invites(w, u), ~Invites(work[h], u)
      PROVE  /\ \A k \in Handlers : ~Invites(work[k], u)
             /\ invites[u] = 0 /\ users'[u].exists
  <2>1. ~users[u].exists /\ users'[u].exists
    BY <1>6
  <2>2. invites[u] <= 1 /\ invites[u] # 1
    BY <2>1, Zenon DEF Invited
  <2>3. invites[u] = 0
    BY <1>1, <2>2, SMT
  <2>. QED
    BY <2>1, <2>3, Zenon DEF Invited
<1>7. ASSUME NEW u \in Users, NEW k \in Handlers, NEW l \in Handlers,
             Invites(work'[k], u), Invites(work'[l], u)
      PROVE  k = l
  <2>1. CASE k # h /\ l # h
    BY <1>2, <1>7, <2>1, Zenon DEF Invited
  <2>2. CASE Invites(work[h], u)
    <3>1. Invites(work[k], u) /\ Invites(work[l], u)
      BY <1>2, <1>7, <2>2, Zenon
    <3>. QED
      BY <3>1, Zenon DEF Invited
  <2>3. CASE ~Invites(work[h], u) /\ (k = h \/ l = h)
    <3>1. Invites(w, u)
      BY <1>2, <1>7, <2>3, Zenon
    <3>2. \A m \in Handlers : ~Invites(work[m], u)
      BY <1>6, <2>3, <3>1, Zenon
    <3>. QED
      BY <1>2, <1>7, <3>2, Zenon
  <2>. QED
    BY <2>1, <2>2, <2>3
<1>8. ASSUME NEW u \in Users, NEW k \in Handlers, Invites(work'[k], u)
      PROVE  invites'[u] = 0 /\ users'[u].exists
  <2>1. CASE Invites(work[k], u)
    BY <2>1, Zenon DEF Invited, RowsKept
  <2>2. CASE ~Invites(work[k], u)
    BY <1>2, <1>6, <1>8, <2>2, Zenon
  <2>. QED
    BY <2>1, <2>2
<1>9. ASSUME NEW k \in Handlers, Saving(work'[k]), ~work'[k].copy.secret,
             NEW u \in Users, work'[k].user = u
      PROVE  Accounted(u)'
  <2>1. CASE k = h
    <3>1. w = work'[k]
      BY <1>2, <2>1
    <3>2. Accounted(u)
      BY <1>9, <3>1, Zenon
    <3>. QED
      BY <1>3, <3>2
  <2>2. CASE k # h
    <3>1. work[k] = work'[k]
      BY <1>2, <2>2
    <3>2. Accounted(u)
      BY <1>9, <3>1, Zenon DEF Invited
    <3>. QED
      BY <1>3, <3>2
  <2>. QED
    BY <2>1, <2>2
<1>10. (\A u \in Users :
          /\ invites[u] <= 1
          /\ invites[u] = 1 => users[u].exists
          /\ users[u].exists /\ ~users[u].secret => Accounted(u)
          /\ \A k, l \in Handlers : Invites(work[k], u) /\ Invites(work[l], u) => k = l
          /\ \A k \in Handlers : Invites(work[k], u) => invites[u] = 0 /\ users[u].exists)'
  BY <1>5, <1>7, <1>8, Zenon
<1>11. (\A k \in Handlers : Saving(work[k]) /\ ~work[k].copy.secret => Accounted(work[k].user))'
  <2>. SUFFICES ASSUME NEW k \in Handlers, Saving(work'[k]), ~work'[k].copy.secret
                PROVE  Accounted(work[k].user)'
    BY DEF Saving
  <2>. PICK u \in Users : u = work'[k].user
    BY <1>1, <1>2 DEF Work
  <2>1. Accounted(u)'
    BY <1>9, Zenon
  <2>. QED
    BY <2>1, Zenon DEF Accounted
<1>. QED
  BY <1>10, <1>11, Zenon DEF Invited

(* A step that changes neither who exists nor who has a password.          *)
LEMMA InvitedSameRows ==
  ASSUME CInv, RowsKept, Invited, NEW h \in Handlers, NEW w \in Work,
         work' = [work EXCEPT ![h] = w], UNCHANGED invites, cut \subseteq cut',
         \A u \in Users : Invites(work[h], u) => Invites(w, u) \/ u \in cut',
         \A u \in Users : Invites(w, u) => Invites(work[h], u),
         Saving(w) /\ ~w.copy.secret => Accounted(w.user),
         \A u \in Users : users'[u].exists = users[u].exists /\ users'[u].secret = users[u].secret
  PROVE  Invited'
<1>1. \A u \in Users : users'[u].exists /\ ~users'[u].secret => Accounted(u) \/ Invites(w, u)
  BY Zenon DEF Invited
<1>. QED
  BY <1>1, InvitedStep, Zenon

(* Who has an account, with a password, and whose is removed. *)
SameStanding ==
  \A v \in Users : /\ users'[v].exists = users[v].exists
                  /\ users'[v].secret = users[v].secret
                  /\ users'[v].deleted = users[v].deleted

(* The updates of the lockout leave that alone. *)
LEMMA LockoutRows ==
  ASSUME CInv, NEW u \in Users, NEW n, NEW m, NEW row,
         row = [users[u] EXCEPT !.failed = n, !.until = m] \/ row = [users[u] EXCEPT !.failed = n],
         users' = [users EXCEPT ![u] = row]
  PROVE  SameStanding
<1>1. users \in [Users -> User] /\ users[u] \in User
  BY DEF CInv, AccountsOK
<1>2. /\ row.exists = users[u].exists /\ row.secret = users[u].secret
      /\ row.deleted = users[u].deleted
  <2>1. CASE row = [users[u] EXCEPT !.failed = n, !.until = m]
    BY <1>1, <2>1, Zenon DEF User
  <2>2. CASE row = [users[u] EXCEPT !.failed = n]
    BY <1>1, <2>2, Zenon DEF User
  <2>. QED
    BY <2>1, <2>2
<1>3. users'[u] = row /\ \A v \in Users \ {u} : users'[v] = users[v]
  BY <1>1, Zenon
<1>. QED
  BY <1>2, <1>3, Zenon DEF SameStanding

LEMMA LockoutSteps ==
  ASSUME CInv, NEW h \in Handlers, clearFailedLogins(h) \/ recordFailedLogin(h)
  PROVE  SameStanding
<1>. PICK u \in Users : u = work[h].user
  BY DEF CInv, AccountsOK, Work
<1>1. CASE clearFailedLogins(h)
  BY <1>1, Clearing, LockoutRows, Zenon
<1>2. CASE recordFailedLogin(h)
  <2>. PICK attempts : attempts = work[h].copy.failed + 1
    OBVIOUS
  <2>1. CASE attempts >= MaxFailed
    <3>1. users' = [users EXCEPT ![u] = [users[u] EXCEPT !.failed = 0, !.until = locks[u] + 1]]
      BY <1>2, <2>1, Recording
    <3>. QED
      BY <3>1, LockoutRows, Zenon
  <2>2. CASE ~(attempts >= MaxFailed)
    <3>1. users' = [users EXCEPT ![u] = [users[u] EXCEPT !.failed = attempts]]
      BY <1>2, <2>2, Recording
    <3>. QED
      BY <3>1, LockoutRows, Zenon
  <2>. QED
    BY <2>1, <2>2
<1>. QED
  BY <1>1, <1>2

LEMMA InvitedKind ==
  ASSUME CInv, RowsKept, Invited, NEW h \in Handlers, Kind(h)
  PROVE  Invited'
<1>. PICK j \in Work : j = work[h] /\ Fine(j)
  BY DEF CInv, AccountsOK, Copied
<1>1. /\ users \in [Users -> User] /\ work \in [Handlers -> Work]
      /\ j.user \in Users /\ j.copy \in User
      /\ \A u \in Users : users[u].exists /\ ~users[u].secret => Accounted(u)
  BY Zenon DEF CInv, AccountsOK, Work, Invited
<1>2. CASE \E w \in Work : Quietly(h, w)
  <2>. PICK w \in Work : Quietly(h, w)
    BY <1>2
  <2>1. /\ work' = [work EXCEPT ![h] = w] /\ UNCHANGED <<users, invites, cut>>
        /\ \A u \in Users : Invites(w, u) <=> Invites(work[h], u)
        /\ ~Saving(w)
    BY Zenon DEF Quietly, histories
  <2>. QED
    BY <2>1, InvitedSameRows, Zenon
<1>3. ASSUME NEW u \in Users, NEW copy \in User, NEW new \in BOOLEAN, Copies(h, u, copy, new)
      PROVE  Invited'
  <2>. PICK w : w = [stage |-> "save", user |-> u, copy |-> copy, seen |-> Absent, new |-> new]
    OBVIOUS
  <2>1. w.stage = "save" /\ w.user = u /\ w.copy = copy
    OBVIOUS
  <2>2. w \in Work
    BY AbsentType, Zenon DEF Work, Stages
  <2>3. /\ work' = [work EXCEPT ![h] = w] /\ UNCHANGED <<users, invites, cut>>
        /\ work[h].stage \in {"idle", "mark"}
    BY <1>3, Zenon DEF Copies, Turns, histories
  <2>4. \A v \in Users : ~Invites(w, v) /\ ~Invites(work[h], v)
    BY <2>1, <2>3, Zenon DEF Invites
  <2>5. ~w.copy.secret => Accounted(w.user)
    BY <1>1, <1>3, <2>1, Zenon DEF Copies, Faithful
  <2>. QED
    BY <2>2, <2>3, <2>4, <2>5, InvitedSameRows, Zenon
<1>4. CASE Inserts(h)
  <2>1. /\ j.stage \in {"insert", "placeholder"} /\ ~users[j.user].exists
        /\ users' = [users EXCEPT ![j.user] = j.copy] /\ UNCHANGED <<invites, cut>>
    BY <1>4, Zenon DEF Inserts, histories
  <2>2. j.copy.exists /\ (j.stage = "insert" => j.copy.secret)
    BY <2>1, Zenon DEF Fine
  <2>3. users'[j.user] = j.copy /\ \A v \in Users \ {j.user} : users'[v] = users[v]
    BY <1>1, <2>1, Zenon
  <2>4. \A v \in Users : ~Invites(work[h], v)
    BY <2>1, Zenon DEF Invites
  <2>5. CASE j.stage = "insert"
    <3>. PICK w : w = [stage |-> "spend", user |-> j.user, copy |-> Absent,
                       seen |-> Absent, new |-> FALSE]
      OBVIOUS
    <3>1. w.stage = "spend"
      OBVIOUS
    <3>2. w \in Work
      BY <1>1, AbsentType, Zenon DEF Work, Stages
    <3>3. work' = [work EXCEPT ![h] = w]
      BY <1>4, <2>5, Zenon DEF Inserts, Turns
    <3>4. \A v \in Users : ~Invites(w, v)
      BY <3>1, Zenon DEF Invites
    <3>5. \A v \in Users : users'[v].exists /\ ~users'[v].secret => Accounted(v)
      BY <1>1, <2>2, <2>3, <2>5, Zenon
    <3>6. ~Saving(w)
      BY <3>1 DEF Saving
    <3>. QED
      BY <2>1, <2>4, <3>2, <3>3, <3>4, <3>5, <3>6, InvitedStep, Zenon
  <2>6. CASE j.stage = "placeholder"
    <3>. PICK w : w = [stage |-> "book", user |-> j.user, copy |-> j.copy,
                       seen |-> Absent, new |-> TRUE]
      OBVIOUS
    <3>1. w.stage = "book" /\ w.user = j.user /\ w.new = TRUE
      OBVIOUS
    <3>2. w \in Work
      BY <1>1, AbsentType, Zenon DEF Work, Stages
    <3>3. work' = [work EXCEPT ![h] = w]
      BY <1>4, <2>6, Zenon DEF Inserts, Turns
    <3>4. Invites(w, j.user) /\ \A v \in Users : Invites(w, v) => v = j.user
      BY <3>1, Zenon DEF Invites
    <3>5. \A v \in Users : users'[v].exists /\ ~users'[v].secret => Accounted(v) \/ Invites(w, v)
      BY <1>1, <2>3, <3>4, Zenon
    <3>6. \A v \in Users : Invites(w, v) => ~users[v].exists /\ users'[v].exists
      BY <2>1, <2>2, <2>3, <3>4, Zenon
    <3>7. ~Saving(w)
      BY <3>1 DEF Saving
    <3>. QED
      BY <2>1, <2>4, <3>2, <3>3, <3>5, <3>6, <3>7, InvitedStep, Zenon
  <2>. QED
    BY <2>1, <2>5, <2>6
<1>5. CASE Save(h)
  <2>. PICK row : row = Written(users[j.user], j.copy, j.seen)
    OBVIOUS
  <2>1. /\ j.stage = "update" /\ users' = [users EXCEPT ![j.user] = row] /\ j.seen \in User
        /\ UNCHANGED <<invites, cut>>
    BY <1>5, SaveGoesOn, Zenon DEF Save, histories
  <2>. PICK w \in Work : work' = [work EXCEPT ![h] = w] /\ w.stage \in {"idle", "mark", "clear"}
    BY <1>5, SaveGoesOn, Zenon
  <2>2. users'[j.user] = row /\ \A v \in Users \ {j.user} : users'[v] = users[v]
    BY <1>1, <2>1, Zenon
  <2>3. \A v \in Users : ~Invites(w, v) /\ ~Invites(work[h], v)
    BY <2>1, Zenon DEF Invites
  <2>4. ~row.secret => Accounted(j.user)
    <3>1. users[j.user] \in User /\ users[j.user].exists
      BY <1>1, <2>1, Zenon DEF Fine
    <3>2. row.secret = users[j.user].secret \/ row.secret = j.copy.secret
      BY <1>1, <2>1, <3>1, WrittenFacts
    <3>3. ~j.copy.secret => Accounted(j.user)
      BY <2>1, Zenon DEF Invited, Saving
    <3>. QED
      BY <1>1, <3>1, <3>2, <3>3, Zenon
  <2>5. \A v \in Users : users'[v].exists /\ ~users'[v].secret => Accounted(v)
    BY <1>1, <2>2, <2>4, Zenon
  <2>6. ~Saving(w)
    BY DEF Saving
  <2>. QED
    BY <2>1, <2>3, <2>5, <2>6, InvitedStep, Zenon
<1>11. CASE Select(h)
  <2>. PICK w \in Work : /\ work' = [work EXCEPT ![h] = w] /\ w.stage = "update"
                          /\ w.user = j.user /\ w.copy = j.copy
    BY <1>11, SelectGoesOn, Zenon
  <2>1. j.stage = "save" /\ UNCHANGED <<users, invites, cut>>
    BY <1>11, SelectGoesOn, Zenon DEF histories
  <2>2. \A v \in Users : ~Invites(w, v) /\ ~Invites(work[h], v)
    BY <2>1, Zenon DEF Invites
  <2>3. ~w.copy.secret => Accounted(w.user)
    BY <2>1, Zenon DEF Invited, Saving
  <2>. QED
    BY <2>1, <2>2, <2>3, InvitedSameRows, Zenon
<1>6. ASSUME Ends(h), \A v \in Users : ~Invites(work[h], v) \/ v \in cut',
             UNCHANGED invites, cut \subseteq cut',
             \A v \in Users :
               users'[v].exists = users[v].exists /\ users'[v].secret = users[v].secret
      PROVE  Invited'
  <2>1. \A v \in Users : ~Invites(Idle, v)
    BY IdleIsFine, Zenon DEF Invites
  <2>2. Idle \in Work /\ ~Saving(Idle) /\ work' = [work EXCEPT ![h] = Idle]
    BY <1>6, IdleIsFine, Zenon DEF Ends, Saving
  <2>. QED
    BY <1>6, <2>1, <2>2, InvitedSameRows, Zenon
<1>7. CASE clearFailedLogins(h) \/ recordFailedLogin(h)
  <2>1. j.stage \in {"clear", "failed"} /\ Ends(h) /\ UNCHANGED <<invites, cut>>
    BY <1>7, Zenon DEF clearFailedLogins, recordFailedLogin, At, histories
  <2>2. \A v \in Users : ~Invites(work[h], v)
    BY <2>1, Zenon DEF Invites
  <2>3. \A v \in Users : users'[v].exists = users[v].exists /\ users'[v].secret = users[v].secret
    BY <1>7, LockoutSteps, Zenon DEF SameStanding
  <2>. QED
    BY <1>6, <2>1, <2>2, <2>3, Zenon
<1>8. ASSUME NEW u \in Users, Guess(h, u) PROVE Invited'
  <2>. PICK w : w = [stage |-> "failed", user |-> u, copy |-> users[u],
                     seen |-> Absent, new |-> FALSE]
    OBVIOUS
  <2>1. w.stage = "failed"
    OBVIOUS
  <2>2. w \in Work
    BY <1>1, AbsentType, Zenon DEF Work, Stages
  <2>3. /\ work' = [work EXCEPT ![h] = w] /\ UNCHANGED <<users, invites, cut>>
        /\ work[h].stage = "idle"
    BY <1>8, Zenon DEF Guess, Starts, Turns, At
  <2>4. \A v \in Users : ~Invites(w, v) /\ ~Invites(work[h], v)
    BY <2>1, <2>3, Zenon DEF Invites
  <2>5. ~Saving(w)
    BY <2>1 DEF Saving
  <2>. QED
    BY <2>2, <2>3, <2>4, <2>5, InvitedSameRows, Zenon
<1>9. CASE Stop(h)
  <2>1. /\ Ends(h) /\ UNCHANGED <<users, invites>> /\ cut \subseteq cut'
        /\ j.stage \in {"book", "invite"} /\ j.new => j.user \in cut'
    BY <1>9, Zenon DEF Stop
  <2>2. \A v \in Users : ~Invites(work[h], v) \/ v \in cut'
    BY <2>1, Zenon DEF Invites
  <2>. QED
    BY <1>6, <2>1, <2>2, Zenon
<1>10. CASE Invite(h)
  <2>. PICK u \in Users : u = j.user
    BY <1>1
  <2>1. /\ j.stage = "invite" /\ Ends(h) /\ UNCHANGED <<users, cut>>
        /\ invites' = [invites EXCEPT ![u] = invites[u] + 1]
    BY <1>10, Zenon DEF Invite, At
  <2>2. Invites(work[h], u)
    BY <2>1, Zenon DEF Invites, Fine
  <2>3. /\ invites[u] = 0 /\ users[u].exists
        /\ \A k \in Handlers : Invites(work[k], u) => k = h
    BY <2>2, Zenon DEF Invited
  <2>4. invites \in [Users -> Nat]
    BY DEF CInv, AccountsOK
  <2>5. invites'[u] = 1 /\ \A v \in Users \ {u} : invites'[v] = invites[v]
    BY <2>1, <2>3, <2>4, SMT
  <2>6. work'[h] = Idle /\ \A k \in Handlers \ {h} : work'[k] = work[k]
    BY <1>1, <2>1, Zenon DEF Ends
  <2>7. ASSUME NEW v \in Users, Accounted(v) PROVE Accounted(v)'
    <3>1. CASE v = u
      BY <2>5, <3>1, Zenon DEF Accounted
    <3>2. CASE v # u
      <4>1. ~Invites(work[h], v)
        BY <3>2, Zenon DEF Invites
      <4>2. work' = [work EXCEPT ![h] = Idle] /\ invites'[v] = invites[v] /\ cut \subseteq cut'
        BY <2>1, <2>5, <3>2, Zenon DEF Ends
      <4>. QED
        BY <2>7, <4>1, <4>2, AccountedStays, Zenon
    <3>. QED
      BY <3>1, <3>2
  <2>8. ASSUME NEW k \in Handlers, NEW v \in Users, Invites(work'[k], v)
        PROVE  Invites(work[k], v) /\ v # u
    <3>1. k # h
      BY <2>6, <2>8, IdleIsFine, Zenon DEF Invites
    <3>2. Invites(work[k], v)
      BY <2>6, <2>8, <3>1, Zenon
    <3>. QED
      BY <2>3, <3>1, <3>2, Zenon
  <2>9. ASSUME NEW v \in Users
        PROVE  /\ invites'[v] <= 1
               /\ invites'[v] = 1 => users'[v].exists
               /\ users'[v].exists /\ ~users'[v].secret => Accounted(v)'
    <3>1. invites'[v] <= 1
      <4>1. invites[v] <= 1
        BY Zenon DEF Invited
      <4>. QED
        BY <2>5, <4>1, SMT
    <3>. QED
      BY <1>1, <2>1, <2>3, <2>5, <2>7, <3>1, Zenon DEF Invited
  <2>10. ASSUME NEW v \in Users
         PROVE  /\ \A k, l \in Handlers : Invites(work'[k], v) /\ Invites(work'[l], v) => k = l
                /\ \A k \in Handlers : Invites(work'[k], v) => invites'[v] = 0 /\ users'[v].exists
    BY <2>1, <2>5, <2>8, Zenon DEF Invited
  <2>11. (\A k \in Handlers : Saving(work[k]) /\ ~work[k].copy.secret => Accounted(work[k].user))'
    <3>. SUFFICES ASSUME NEW k \in Handlers, Saving(work'[k]), ~work'[k].copy.secret
                  PROVE  Accounted(work[k].user)'
      BY DEF Saving
    <3>1. work'[k] = work[k]
      BY <2>6, IdleIsFine, Zenon DEF Saving
    <3>. PICK v \in Users : v = work[k].user
      BY <1>1 DEF Work
    <3>2. Accounted(v)
      BY <3>1, Zenon DEF Invited
    <3>3. Accounted(v)'
      BY <2>7, <3>2
    <3>. QED
      BY <3>1, <3>3, Zenon DEF Accounted
  <2>12. (\A v \in Users :
            /\ invites[v] <= 1
            /\ invites[v] = 1 => users[v].exists
            /\ users[v].exists /\ ~users[v].secret => Accounted(v)
            /\ \A k, l \in Handlers : Invites(work[k], v) /\ Invites(work[l], v) => k = l
            /\ \A k \in Handlers : Invites(work[k], v) => invites[v] = 0 /\ users[v].exists)'
    BY <2>9, <2>10, Zenon
  <2>. QED
    BY <2>11, <2>12, Zenon DEF Invited
<1>. QED
  BY <1>2, <1>3, <1>4, <1>5, <1>7, <1>8, <1>9, <1>10, <1>11, Zenon DEF Kind

LEMMA InvitedNext ==
  CInv /\ Invited /\ [AccountsNext]_accountVars => Invited'
<1>. SUFFICES ASSUME CInv, Invited, [AccountsNext]_accountVars PROVE Invited'
  OBVIOUS
<1>1. ASSUME NEW h \in Handlers, Kind(h) PROVE Invited'
  BY <1>1, KindKeeps, InvitedKind, Zenon
<1>2. ASSUME NEW u \in Users, LockEnds(u) PROVE Invited'
  <2>1. UNCHANGED <<users, links, work, invites, cut>>
    BY <1>2, LockEndsKeeps, Zenon
  <2>4. \A v \in Users : Accounted(v)' <=> Accounted(v)
    BY <2>1, Zenon DEF Accounted
  <2>5. \A k \in Handlers : work[k].user \in Users
    BY DEF CInv, AccountsOK, Work
  <2>6. (\A v \in Users :
            /\ invites[v] <= 1
            /\ invites[v] = 1 => users[v].exists
            /\ users[v].exists /\ ~users[v].secret => Accounted(v)
            /\ \A k, l \in Handlers : Invites(work[k], v) /\ Invites(work[l], v) => k = l
            /\ \A k \in Handlers : Invites(work[k], v) => invites[v] = 0 /\ users[v].exists)'
    BY <2>1, <2>4, Zenon DEF Invited
  <2>7. (\A k \in Handlers : Saving(work[k]) /\ ~work[k].copy.secret => Accounted(work[k].user))'
    BY <2>1, Zenon DEF Invited, Saving, Accounted
  <2>. QED
    BY <2>6, <2>7, Zenon DEF Invited
<1>3. CASE AccountsNext
  <2>1. (\E h \in Handlers : Kind(h)) \/ \E u \in Users : LockEnds(u)
    BY <1>3, StepKinds, Zenon DEF CInv
  <2>. QED
    BY <1>1, <1>2, <2>1, Zenon
<1>4. CASE UNCHANGED accountVars
  BY <1>4, Zenon DEF accountVars, Invited, Accounted, Saving
<1>. QED
  BY <1>3, <1>4

(* Of the bookings that race to create a receiver's account only the one    *)
(* whose insert succeeds invites him, once; an account without a password   *)
(* was invited, is about to be, or its booking was cut off.                 *)
THEOREM PlaceholdersAreInvited == AccountsSpec => []PlaceholderIsInvited
<1>1. Invited => PlaceholderIsInvited
  BY Zenon DEF Invited, Accounted, Invites, PlaceholderIsInvited
<1>. QED
  BY <1>1, CInvAlways, InvitedInit, InvitedNext, PTL DEF AccountsSpec

-----------------------------------------------------------------------------
(* One request at a time *)

(* Counts are counts. *)
Counted ==
  /\ MaxFailed \in Nat
  /\ \A u \in Users : users[u].failed \in Nat /\ users[u].failed < MaxFailed /\ tries[u] \in Nat
  /\ \A h \in Handlers : Read(h) \in Nat /\ Read(h) < MaxFailed

LEMMA Counts ==
  CInv => Counted
<1>. SUFFICES ASSUME CInv PROVE Counted
  OBVIOUS
<1>1. MaxFailed \in Nat /\ \A n \in 0 .. MaxFailed : n \in Nat
  BY MaxFailedAssumption, SMT
<1>2. \A u \in Users : users[u].failed \in 0 .. MaxFailed /\ tries[u] \in Nat
  BY DEF CInv, AccountsOK, User
<1>3. \A h \in Handlers : Read(h) \in 0 .. MaxFailed
  BY DEF CInv, AccountsOK, Work, User, Read
<1>4. (\A u \in Users : users[u].failed < MaxFailed) /\ \A h \in Handlers : Read(h) < MaxFailed
  BY Zenon DEF CInv, Copied, Fine, Read
<1>. QED
  BY <1>1, <1>2, <1>3, <1>4, Zenon DEF Counted

(* The entity about to be saved has the lockout as the row has it: with one *)
(* request at a time nobody counts a wrong password in between.             *)
Held ==
  \A h \in Handlers : Saving(work[h]) =>
    LET row == users[work[h].user]
        copy == work[h].copy
    IN  copy.failed = row.failed /\ copy.until = row.until

(* What a step may do to the guessing at one account: nothing, wipe the    *)
(* slate, or a move of a guess.                                            *)
Aside(u) ==
  /\ tries'[u] = tries[u] /\ past'[u] = past[u]
  /\ users'[u].failed = users[u].failed /\ users'[u].until = users[u].until
  /\ \A h \in Handlers : (Trying(h, u)' <=> Trying(h, u)) /\ (Trying(h, u) => Read(h)' = Read(h))

GuessStep(h, u) ==
  \/ Aside(u)
  \/ tries'[u] = 0 /\ ~Trying(h, u)'
  \/ Guess(h, u)
  \/ recordFailedLogin(h) /\ work[h].user = u
  \/ Stop(h) /\ Trying(h, u)

(* An account nobody touched. *)
LEMMA TryingOthers ==
  ASSUME CInv, NEW h \in Handlers, NEW w \in Work, work' = [work EXCEPT ![h] = w]
  PROVE  /\ \A u \in Users : Trying(h, u)' <=> w.stage = "failed" /\ w.user = u
         /\ \A k \in Handlers \ {h} :
              Read(k)' = Read(k) /\ \A u \in Users : Trying(k, u)' <=> Trying(k, u)
<1>1. work \in [Handlers -> Work]
  BY DEF CInv, AccountsOK
<1>2. work'[h] = w /\ \A k \in Handlers \ {h} : work'[k] = work[k]
  BY <1>1, Zenon
<1>. QED
  BY <1>2, Zenon DEF Trying, At, Read

LEMMA GuessOther ==
  ASSUME CInv, NEW h \in Handlers, NEW w \in Work, work' = [work EXCEPT ![h] = w],
         NEW u \in Users, tries'[u] = tries[u], past'[u] = past[u],
         users'[u].failed = users[u].failed, users'[u].until = users[u].until,
         ~Trying(h, u), w.stage # "failed" \/ w.user # u
  PROVE  Aside(u)
<1>1. \A k \in Handlers : Trying(k, u)' <=> Trying(k, u)
  BY TryingOthers, Zenon
<1>2. \A k \in Handlers : Trying(k, u) => Read(k)' = Read(k)
  BY TryingOthers, Zenon
<1>. QED
  BY <1>1, <1>2, Zenon DEF Aside

LEMMA GuessKinds ==
  ASSUME CInv, Held, NEW h \in Handlers, Kind(h), NEW v \in Users
  PROVE  GuessStep(h, v)
<1>. PICK j \in Work : j = work[h] /\ Fine(j)
  BY DEF CInv, AccountsOK, Copied
<1>1. /\ users \in [Users -> User] /\ work \in [Handlers -> Work] /\ tries \in [Users -> Nat]
      /\ j.user \in Users /\ j.copy \in User /\ users[j.user] \in User
  BY Zenon DEF CInv, AccountsOK, Work
<1>2. ASSUME NEW w \in Work, work' = [work EXCEPT ![h] = w], UNCHANGED <<users, past, tries>>,
             ~Trying(h, v), w.stage # "failed" \/ w.user # v
      PROVE  GuessStep(h, v)
  BY <1>2, GuessOther, Zenon DEF GuessStep
<1>3. CASE \E w \in Work : Quietly(h, w)
  <2>. PICK w \in Work : Quietly(h, w)
    BY <1>3
  <2>1. /\ work' = [work EXCEPT ![h] = w] /\ UNCHANGED <<users, past, tries>>
        /\ w.stage # "failed" /\ ~At(h, "failed")
    BY Zenon DEF Quietly, histories
  <2>2. ~Trying(h, v)
    BY <2>1, Zenon DEF Trying
  <2>. QED
    BY <1>2, <2>1, <2>2, Zenon
<1>4. ASSUME NEW u \in Users, NEW copy \in User, NEW new \in BOOLEAN, Copies(h, u, copy, new)
      PROVE  GuessStep(h, v)
  <2>. PICK w : w = [stage |-> "save", user |-> u, copy |-> copy, seen |-> Absent, new |-> new]
    OBVIOUS
  <2>1. w.stage = "save"
    OBVIOUS
  <2>2. w \in Work
    BY AbsentType, Zenon DEF Work, Stages
  <2>3. /\ work' = [work EXCEPT ![h] = w] /\ UNCHANGED <<users, past, tries>>
        /\ work[h].stage \in {"idle", "mark"}
    BY <1>4, Zenon DEF Copies, Turns, histories
  <2>4. ~Trying(h, v) /\ w.stage # "failed"
    BY <2>1, <2>3, Zenon DEF Trying, At
  <2>. QED
    BY <1>2, <2>2, <2>3, <2>4, Zenon
<1>5. CASE Inserts(h)
  <2>1. /\ j.stage \in {"insert", "placeholder"} /\ ~users[j.user].exists
        /\ users' = [users EXCEPT ![j.user] = j.copy] /\ UNCHANGED <<past, tries>>
    BY <1>5, Zenon DEF Inserts, histories
  <2>2. j.copy.failed = 0 /\ j.copy.until = 0
    BY <2>1, Zenon DEF Fine
  <2>3. users[j.user].failed = 0 /\ users[j.user].until = 0
    <3>1. users[j.user] = Absent
      BY <1>1, <2>1, Zenon DEF CInv, Copied
    <3>. QED
      BY <3>1 DEF Absent
  <2>4. users'[j.user] = j.copy /\ \A x \in Users \ {j.user} : users'[x] = users[x]
    BY <1>1, <2>1, Zenon
  <2>5. users'[v].failed = users[v].failed /\ users'[v].until = users[v].until
    <3>1. CASE v = j.user
      BY <2>2, <2>3, <2>4, <3>1, Zenon
    <3>2. CASE v # j.user
      BY <2>4, <3>2, Zenon
    <3>. QED
      BY <3>1, <3>2
  <2>6. ~Trying(h, v) /\ tries'[v] = tries[v] /\ past'[v] = past[v]
    BY <2>1, Zenon DEF Trying, At
  <2>7. PICK w \in Work : work' = [work EXCEPT ![h] = w] /\ w.stage # "failed"
    <3>1. CASE j.stage = "insert"
      <4>. PICK w : w = [stage |-> "spend", user |-> j.user, copy |-> Absent,
                         seen |-> Absent, new |-> FALSE]
        OBVIOUS
      <4>1. w.stage # "failed"
        OBVIOUS
      <4>2. w \in Work
        BY <1>1, AbsentType, Zenon DEF Work, Stages
      <4>3. work' = [work EXCEPT ![h] = w]
        BY <1>5, <3>1, Zenon DEF Inserts, Turns
      <4>. QED
        BY <4>1, <4>2, <4>3, Zenon
    <3>2. CASE j.stage = "placeholder"
      <4>. PICK w : w = [stage |-> "book", user |-> j.user, copy |-> j.copy,
                         seen |-> Absent, new |-> TRUE]
        OBVIOUS
      <4>1. w.stage # "failed"
        OBVIOUS
      <4>2. w \in Work
        BY <1>1, AbsentType, Zenon DEF Work, Stages
      <4>3. work' = [work EXCEPT ![h] = w]
        BY <1>5, <3>2, Zenon DEF Inserts, Turns
      <4>. QED
        BY <4>1, <4>2, <4>3, Zenon
    <3>. QED
      BY <2>1, <3>1, <3>2
  <2>. QED
    BY <2>5, <2>6, <2>7, GuessOther, Zenon DEF GuessStep
<1>6. CASE Save(h)
  <2>. PICK row : row = Written(users[j.user], j.copy, j.seen)
    OBVIOUS
  <2>1. /\ j.stage = "update" /\ users' = [users EXCEPT ![j.user] = row] /\ j.seen \in User
        /\ UNCHANGED <<past, tries>>
    BY <1>6, SaveGoesOn, Zenon DEF Save, histories
  <2>. PICK w \in Work : work' = [work EXCEPT ![h] = w] /\ w.stage \in {"idle", "mark", "clear"}
    BY <1>6, SaveGoesOn, Zenon
  <2>2. /\ row.failed = users[j.user].failed \/ row.failed = j.copy.failed
        /\ row.until = users[j.user].until \/ row.until = j.copy.until
    BY <1>1, <2>1, WrittenFacts
  <2>3. j.copy.failed = users[j.user].failed /\ j.copy.until = users[j.user].until
    BY <2>1, Zenon DEF Held, Saving
  <2>4. users'[v].failed = users[v].failed /\ users'[v].until = users[v].until
    <3>1. CASE v = j.user
      <4>1. users'[v] = row
        BY <1>1, <2>1, <3>1, Zenon
      <4>. QED
        BY <2>2, <2>3, <3>1, <4>1, Zenon
    <3>2. CASE v # j.user
      BY <1>1, <2>1, <3>2, Zenon
    <3>. QED
      BY <3>1, <3>2
  <2>5. ~Trying(h, v) /\ w.stage # "failed" /\ tries'[v] = tries[v] /\ past'[v] = past[v]
    BY <2>1, Zenon DEF Trying, At
  <2>. QED
    BY <2>4, <2>5, GuessOther, Zenon DEF GuessStep
<1>13. CASE Select(h)
  <2>1. j.stage = "save" /\ UNCHANGED <<users, past, tries>>
    BY <1>13, SelectGoesOn, Zenon DEF histories
  <2>. PICK w \in Work : work' = [work EXCEPT ![h] = w] /\ w.stage = "update"
    BY <1>13, SelectGoesOn, Zenon
  <2>2. ~Trying(h, v) /\ w.stage # "failed"
    BY <2>1, Zenon DEF Trying, At
  <2>. QED
    BY <1>2, <2>1, <2>2, Zenon
<1>7. Idle \in Work /\ Idle.stage # "failed"
  BY IdleIsFine
<1>8. CASE clearFailedLogins(h)
  <2>1. /\ j.stage = "clear" /\ work' = [work EXCEPT ![h] = Idle] /\ UNCHANGED past
        /\ tries' = [tries EXCEPT ![j.user] = 0]
    BY <1>8, Zenon DEF clearFailedLogins, At, Ends
  <2>2. ~Trying(h, v) /\ ~Trying(h, v)'
    <3>1. ~Trying(h, v)
      BY <2>1, Zenon DEF Trying, At
    <3>2. Trying(h, v)' <=> Idle.stage = "failed" /\ Idle.user = v
      BY <1>7, <2>1, TryingOthers, Zenon
    <3>. QED
      BY <1>7, <3>1, <3>2, Zenon
  <2>3. CASE v = j.user
    BY <1>1, <2>1, <2>2, <2>3, Zenon DEF GuessStep
  <2>4. CASE v # j.user
    <3>1. users'[v] = users[v]
      BY <1>1, <1>8, <2>4, Clearing, Zenon
    <3>2. tries'[v] = tries[v]
      BY <1>1, <2>1, <2>4, Zenon
    <3>. QED
      BY <1>7, <2>1, <2>2, <3>1, <3>2, GuessOther, Zenon DEF GuessStep
  <2>. QED
    BY <2>3, <2>4
<1>9. CASE recordFailedLogin(h)
  <2>1. CASE v = j.user
    BY <1>9, <2>1, Zenon DEF GuessStep
  <2>2. CASE v # j.user
    <3>1. work' = [work EXCEPT ![h] = Idle] /\ UNCHANGED <<past, tries>>
      BY <1>9, Zenon DEF recordFailedLogin, Ends
    <3>2. \E row : users' = [users EXCEPT ![j.user] = row]
      BY <1>9, Recording, Zenon
    <3>3. users'[v] = users[v]
      BY <1>1, <2>2, <3>2, Zenon
    <3>4. ~Trying(h, v)
      BY <2>2, Zenon DEF Trying
    <3>. QED
      BY <1>7, <3>1, <3>3, <3>4, GuessOther, Zenon DEF GuessStep
  <2>. QED
    BY <2>1, <2>2
<1>10. ASSUME NEW u \in Users, Guess(h, u) PROVE GuessStep(h, v)
  <2>1. CASE v = u
    BY <1>10, <2>1, Zenon DEF GuessStep
  <2>2. CASE v # u
    <3>. PICK w : w = [stage |-> "failed", user |-> u, copy |-> users[u],
                       seen |-> Absent, new |-> FALSE]
      OBVIOUS
    <3>1. w.user = u
      OBVIOUS
    <3>2. w \in Work
      BY <1>1, AbsentType, Zenon DEF Work, Stages
    <3>3. /\ work' = [work EXCEPT ![h] = w] /\ UNCHANGED <<users, past>> /\ work[h].stage = "idle"
          /\ tries' = [tries EXCEPT ![u] = tries[u] + 1]
      BY <1>10, Zenon DEF Guess, Starts, Turns, At
    <3>4. ~Trying(h, v) /\ tries'[v] = tries[v] /\ users'[v] = users[v] /\ w.user # v
      BY <1>1, <2>2, <3>1, <3>3, Zenon DEF Trying, At
    <3>. QED
      BY <3>2, <3>3, <3>4, GuessOther, Zenon DEF GuessStep
  <2>. QED
    BY <2>1, <2>2
<1>11. CASE Invite(h)
  <2>1. work' = [work EXCEPT ![h] = Idle] /\ UNCHANGED <<users, past, tries>> /\ j.stage = "invite"
    BY <1>11, Zenon DEF Invite, Ends, At
  <2>2. ~Trying(h, v)
    BY <2>1, Zenon DEF Trying, At
  <2>. QED
    BY <1>2, <1>7, <2>1, <2>2, Zenon
<1>12. CASE Stop(h)
  <2>1. CASE Trying(h, v)
    BY <1>12, <2>1, Zenon DEF GuessStep
  <2>2. CASE ~Trying(h, v)
    <3>1. /\ work' = [work EXCEPT ![h] = Idle] /\ UNCHANGED <<users, past>>
          /\ tries' = IF At(h, "failed") /\ tries[j.user] > 0
                      THEN [tries EXCEPT ![j.user] = tries[j.user] - 1] ELSE tries
      BY <1>12, Zenon DEF Stop, Ends
    <3>2. tries'[v] = tries[v]
      <4>1. CASE At(h, "failed")
        <5>1. v # j.user
          BY <2>2, <4>1, Zenon DEF Trying
        <5>. QED
          BY <1>1, <3>1, <5>1, Zenon
      <4>2. CASE ~At(h, "failed")
        BY <3>1, <4>2, Zenon
      <4>. QED
        BY <4>1, <4>2
    <3>. QED
      BY <1>7, <2>2, <3>1, <3>2, GuessOther, Zenon DEF GuessStep
  <2>. QED
    BY <2>1, <2>2
<1>. QED
  BY <1>3, <1>4, <1>5, <1>6, <1>8, <1>9, <1>10, <1>11, <1>12, <1>13, Zenon DEF Kind

OneAtMost == \A x, y \in Handlers : x = y

(* What a request is about to save it has just loaded, or had already. *)
LEMMA SavesWhatItHas ==
  ASSUME CInv, NEW h \in Handlers, Kind(h)
  PROVE  \E w :
           /\ work' = [work EXCEPT ![h] = w]
           /\ Saving(w) =>
                /\ UNCHANGED users
                /\ \/ Faithful(w.copy, w.user)
                   \/ Saving(work[h]) /\ w.user = work[h].user /\ w.copy = work[h].copy
<1>. PICK j \in Work : j = work[h] /\ Fine(j)
  BY DEF CInv, AccountsOK, Copied
<1>1. ASSUME NEW w, work' = [work EXCEPT ![h] = w], w.stage \notin {"save", "update"}
      PROVE  \E x : work' = [work EXCEPT ![h] = x] /\ ~Saving(x)
  BY <1>1, Zenon DEF Saving
<1>2. ASSUME Ends(h) PROVE \E x : work' = [work EXCEPT ![h] = x] /\ ~Saving(x)
  BY <1>2, IdleIsFine, Zenon DEF Ends, Saving
<1>3. CASE \E w \in Work : Quietly(h, w)
  BY <1>3, Zenon DEF Quietly
<1>4. ASSUME NEW u \in Users, NEW copy \in User, NEW new \in BOOLEAN, Copies(h, u, copy, new)
      PROVE  \E w : work' = [work EXCEPT ![h] = w] /\ UNCHANGED users /\ Faithful(w.copy, w.user)
  <2>. PICK w : w = [stage |-> "save", user |-> u, copy |-> copy, seen |-> Absent, new |-> new]
    OBVIOUS
  <2>1. w.user = u /\ w.copy = copy
    OBVIOUS
  <2>. QED
    BY <1>4, <2>1, Zenon DEF Copies, Turns
<1>5. CASE Inserts(h)
  <2>1. CASE j.stage = "insert"
    <3>. PICK w : w = [stage |-> "spend", user |-> j.user, copy |-> Absent, seen |-> Absent,
                       new |-> FALSE]
      OBVIOUS
    <3>1. w.stage \notin {"save", "update"}
      OBVIOUS
    <3>2. work' = [work EXCEPT ![h] = w]
      BY <1>5, <2>1, Zenon DEF Inserts, Turns
    <3>. QED
      BY <1>1, <3>1, <3>2, Zenon
  <2>2. CASE j.stage # "insert"
    <3>. PICK w : w = [stage |-> "book", user |-> j.user, copy |-> j.copy, seen |-> Absent,
                       new |-> TRUE]
      OBVIOUS
    <3>1. w.stage \notin {"save", "update"}
      OBVIOUS
    <3>2. work' = [work EXCEPT ![h] = w]
      BY <1>5, <2>2, Zenon DEF Inserts, Turns
    <3>. QED
      BY <1>1, <3>1, <3>2, Zenon
  <2>. QED
    BY <2>1, <2>2
<1>6. CASE Select(h)
  BY <1>6, SelectGoesOn, Zenon DEF Saving
<1>7. CASE Save(h)
  <2>. PICK w \in Work : work' = [work EXCEPT ![h] = w] /\ w.stage \in {"idle", "mark", "clear"}
    BY <1>7, SaveGoesOn, Zenon
  <2>. QED
    BY <1>1, Zenon
<1>8. ASSUME NEW u \in Users, Guess(h, u)
      PROVE  \E x : work' = [work EXCEPT ![h] = x] /\ ~Saving(x)
  <2>. PICK w : w = [stage |-> "failed", user |-> u, copy |-> users[u], seen |-> Absent,
                     new |-> FALSE]
    OBVIOUS
  <2>1. w.stage \notin {"save", "update"}
    OBVIOUS
  <2>2. work' = [work EXCEPT ![h] = w]
    BY <1>8, Zenon DEF Guess, Starts, Turns
  <2>. QED
    BY <1>1, <2>1, <2>2, Zenon
<1>9. CASE clearFailedLogins(h) \/ recordFailedLogin(h) \/ Invite(h) \/ Stop(h)
  BY <1>2, <1>9, Zenon DEF clearFailedLogins, recordFailedLogin, Invite, Stop
<1>. QED
  BY <1>3, <1>4, <1>5, <1>6, <1>7, <1>8, <1>9, Zenon DEF Kind

LEMMA HeldKind ==
  ASSUME CInv, OneAtMost, Held, NEW h \in Handlers, Kind(h)
  PROVE  Held'
<1>. PICK w : /\ work' = [work EXCEPT ![h] = w]
              /\ Saving(w) =>
                   /\ UNCHANGED users
                   /\ \/ Faithful(w.copy, w.user)
                      \/ Saving(work[h]) /\ w.user = work[h].user /\ w.copy = work[h].copy
  BY SavesWhatItHas
<1>1. work \in [Handlers -> Work]
  BY DEF CInv, AccountsOK
<1>2. \A k \in Handlers : work'[k] = w
  BY <1>1, Zenon DEF OneAtMost
<1>3. Saving(w) => w.copy.failed = users'[w.user].failed /\ w.copy.until = users'[w.user].until
  BY Zenon DEF Faithful, Held
<1>4. \A k \in Handlers : Saving(work[k])' <=> Saving(w)
  BY <1>2, Zenon DEF Saving
<1>. QED
  BY <1>2, <1>3, <1>4, Zenon DEF Held

(* Guessing, one at a time: the count is what was compared, and who is      *)
(* comparing has read it.                                                   *)
Steady(u) ==
  IF Locked(u)
  THEN tries[u] <= MaxFailed /\ \A h \in Handlers : ~Trying(h, u)
  ELSE /\ tries[u] <= users[u].failed + 1
       /\ (\A h \in Handlers : ~Trying(h, u)) => tries[u] <= users[u].failed
       /\ \A h \in Handlers : Trying(h, u) => Read(h) = users[u].failed

LEMMA SteadyKind ==
  ASSUME CInv, CInv', OneAtMost, Held, NEW h \in Handlers, Kind(h), NEW u \in Users, Steady(u)
  PROVE  Steady(u)'
<1>1. Counted /\ Counted'
  BY Counts, PTL
<1>. PICK f \in Nat, n \in Nat, g \in Nat :
       f = users[u].failed /\ f < MaxFailed /\ n = tries[u] /\ g = Read(h) /\ MaxFailed \in Nat
  BY <1>1, Zenon DEF Counted
<1>2. \A k \in Handlers : k = h
  BY Zenon DEF OneAtMost
<1>3. /\ users \in [Users -> User] /\ tries \in [Users -> Nat] /\ users[u] \in User
      /\ work \in [Handlers -> Work]
  BY DEF CInv, AccountsOK
<1>4. CASE Aside(u)
  <2>1. Locked(u)' <=> Locked(u)
    BY <1>4, Zenon DEF Aside, Locked
  <2>. QED
    BY <1>4, <2>1, Zenon DEF Aside, Steady
<1>5. CASE tries'[u] = 0 /\ ~Trying(h, u)'
  <2>1. /\ users'[u].failed \in Nat /\ 0 <= users'[u].failed /\ 0 <= users'[u].failed + 1
        /\ 0 <= MaxFailed
    <3>1. users'[u].failed \in Nat
      BY <1>1, Zenon DEF Counted
    <3>. QED
      BY <3>1, SMT
  <2>2. MaxFailed' = MaxFailed
    OBVIOUS
  <2>. QED
    BY <1>2, <1>5, <2>1, <2>2, Zenon DEF Steady
<1>6. CASE Guess(h, u)
  <2>. PICK w : w = [stage |-> "failed", user |-> u, copy |-> users[u], seen |-> Absent,
                     new |-> FALSE]
    OBVIOUS
  <2>1. w.copy = users[u]
    OBVIOUS
  <2>2. /\ work' = [work EXCEPT ![h] = w] /\ UNCHANGED <<users, past>> /\ ~Locked(u)
        /\ tries' = [tries EXCEPT ![u] = tries[u] + 1] /\ work[h].stage = "idle"
    BY <1>6, Zenon DEF Guess, Starts, Turns, At
  <2>3. Trying(h, u)' /\ Read(h)' = f
    <3>1. work'[h] = w /\ w.stage = "failed" /\ w.user = u
      BY <1>3, <2>2
    <3>. QED
      BY <2>1, <3>1, Zenon DEF Trying, At, Read
  <2>4. n <= f
    BY <1>2, <2>2, Zenon DEF Steady, Trying, At
  <2>5. tries'[u] = n + 1 /\ n + 1 <= f + 1
    BY <1>3, <2>2, <2>4
  <2>6. ~Locked(u)'
    BY <2>2, Zenon DEF Locked
  <2>. QED
    BY <1>2, <2>2, <2>3, <2>5, <2>6, Zenon DEF Steady
<1>7. CASE recordFailedLogin(h) /\ work[h].user = u
  <2>1. Trying(h, u) /\ UNCHANGED <<tries, past>> /\ ~Trying(h, u)'
    <3>1. work' = [work EXCEPT ![h] = Idle]
      BY <1>7, Zenon DEF recordFailedLogin, Ends
    <3>2. work'[h] = Idle
      BY <1>3, <3>1, Zenon
    <3>. QED
      BY <1>7, <3>2, IdleIsFine, Zenon DEF recordFailedLogin, Trying, At
  <2>2. ~Locked(u) /\ g = f /\ n <= f + 1
    BY <2>1, Zenon DEF Steady
  <2>3. CASE g + 1 >= MaxFailed
    <3>. PICK row : row = [users[u] EXCEPT !.failed = 0, !.until = locks[u] + 1]
      OBVIOUS
    <3>1. users' = [users EXCEPT ![u] = row] /\ row.until = locks[u] + 1
      <4>1. row.until = locks[u] + 1
        BY <1>3 DEF User
      <4>2. users' = [users EXCEPT ![u] = row]
        BY <1>7, <2>3, Recording, Zenon DEF Read
      <4>. QED
        BY <4>1, <4>2
    <3>2. Locked(u)'
      <4>1. users'[u].until = locks[u] + 1
        BY <1>3, <3>1, Zenon
      <4>2. past[u] \in Nat /\ locks[u] \in Nat /\ past[u] <= locks[u]
        BY DEF CInv, AccountsOK
      <4>3. locks[u] + 1 > past[u]
        BY <4>2
      <4>. QED
        BY <2>1, <4>1, <4>3, Zenon DEF Locked
    <3>3. n <= MaxFailed
      BY <2>2, SMT
    <3>. QED
      BY <1>2, <2>1, <3>2, <3>3, Zenon DEF Steady
  <2>4. CASE ~(g + 1 >= MaxFailed)
    <3>. PICK row : row = [users[u] EXCEPT !.failed = g + 1]
      OBVIOUS
    <3>1. users' = [users EXCEPT ![u] = row] /\ row.failed = f + 1 /\ row.until = users[u].until
      <4>1. row.failed = f + 1 /\ row.until = users[u].until
        BY <1>3, <2>2, Zenon DEF User
      <4>2. users' = [users EXCEPT ![u] = row]
        BY <1>7, <2>4, Recording, Zenon DEF Read
      <4>. QED
        BY <4>1, <4>2
    <3>2. users'[u].failed = f + 1 /\ ~Locked(u)'
      BY <1>3, <2>1, <2>2, <3>1, Zenon DEF Locked
    <3>3. n <= f + 1 + 1
      BY <2>2, SMT
    <3>. QED
      BY <1>2, <2>1, <2>2, <3>2, <3>3, Zenon DEF Steady
  <2>. QED
    BY <2>3, <2>4
<1>8. CASE Stop(h) /\ Trying(h, u)
  <2>1. /\ UNCHANGED <<users, past>> /\ work' = [work EXCEPT ![h] = Idle]
        /\ tries' = IF tries[u] > 0 THEN [tries EXCEPT ![u] = tries[u] - 1] ELSE tries
    BY <1>8, Zenon DEF Stop, Ends, Trying
  <2>2. ~Locked(u) /\ n <= f + 1 /\ ~Locked(u)'
    BY <1>8, <2>1, Zenon DEF Steady, Locked
  <2>3. tries'[u] <= f /\ tries'[u] <= f + 1
    BY <1>3, <2>1, <2>2, SMT
  <2>4. ~Trying(h, u)'
    BY <1>3, <2>1, IdleIsFine, Zenon DEF Trying, At
  <2>. QED
    BY <1>2, <2>1, <2>2, <2>3, <2>4, Zenon DEF Steady
<1>. QED
  BY <1>4, <1>5, <1>6, <1>7, <1>8, GuessKinds, Zenon DEF GuessStep

(* A lockout that ends opens the account if it is the one in the row. *)
LEMMA SteadyLockEnds ==
  ASSUME CInv, CInv', NEW u \in Users, LockEnds(u), NEW v \in Users, Steady(v)
  PROVE  Steady(v)'
<1>1. /\ UNCHANGED <<users, work>> /\ past' = [past EXCEPT ![u] = past[u] + 1]
      /\ tries' = IF users[u].until = past[u] + 1 THEN [tries EXCEPT ![u] = 0] ELSE tries
      /\ past \in [Users -> Nat] /\ tries \in [Users -> Nat]
  BY LockEndsKeeps, Zenon DEF CInv, AccountsOK, LockEnds
<1>2. \A h \in Handlers, x \in Users : (Trying(h, x)' <=> Trying(h, x)) /\ Read(h)' = Read(h)
  BY <1>1, Zenon DEF Trying, At, Read
<1>3. users[u].until \in Nat /\ past[u] \in Nat
  BY <1>1 DEF CInv, AccountsOK, User
<1>4. CASE v = u /\ users[u].until = past[u] + 1
  <2>1. tries'[v] = 0 /\ past'[v] = past[u] + 1
    BY <1>1, <1>4, Zenon
  <2>2. Locked(v)
    BY <1>3, <1>4, SMT DEF Locked
  <2>3. 0 <= users'[v].failed /\ 0 <= users'[v].failed + 1 /\ 0 <= MaxFailed
    <3>1. Counted'
      BY Counts, PTL
    <3>2. users'[v].failed \in Nat /\ MaxFailed \in Nat
      BY <3>1, Zenon DEF Counted
    <3>. QED
      BY <3>2, SMT
  <2>4. \A h \in Handlers : ~Trying(h, v)'
    BY <1>2, <2>2, Zenon DEF Steady
  <2>. QED
    BY <2>1, <2>3, <2>4, Zenon DEF Steady
<1>5. CASE ~(v = u /\ users[u].until = past[u] + 1)
  <2>1. tries'[v] = tries[v]
    BY <1>1, <1>5, Zenon
  <2>2. Locked(v)' <=> Locked(v)
    <3>1. CASE v = u
      <4>1. past'[u] = past[u] + 1 /\ users'[u].until = users[u].until
        BY <1>1, Zenon
      <4>2. users[u].until > past[u] + 1 <=> users[u].until > past[u]
        BY <1>3, <1>5, <3>1, SMT
      <4>. QED
        BY <3>1, <4>1, <4>2, Zenon DEF Locked
    <3>2. CASE v # u
      BY <1>1, <3>2, Zenon DEF Locked
    <3>. QED
      BY <3>1, <3>2
  <2>. QED
    BY <1>1, <1>2, <2>1, <2>2, Zenon DEF Steady
<1>. QED
  BY <1>4, <1>5

Guessing == Held /\ \A u \in Users : Steady(u)

LEMMA GuessingNext ==
  ASSUME OneAtMost
  PROVE  CInv /\ Guessing /\ [AccountsNext]_accountVars => Guessing'
<1>. SUFFICES ASSUME CInv, Guessing, [AccountsNext]_accountVars PROVE Guessing'
  OBVIOUS
<1>1. CInv'
  BY CInvNext, Zenon
<1>2. ASSUME NEW h \in Handlers, Kind(h) PROVE Guessing'
  <2>1. Held' /\ \A v \in Users : Steady(v)'
    BY <1>1, <1>2, HeldKind, SteadyKind, Zenon DEF Guessing
  <2>. QED
    BY <2>1, Zenon DEF Guessing
<1>3. ASSUME NEW u \in Users, LockEnds(u) PROVE Guessing'
  <2>1. \A v \in Users : Steady(v)'
    BY <1>1, <1>3, SteadyLockEnds, Zenon DEF Guessing
  <2>2. UNCHANGED <<users, work>>
    BY <1>3, Zenon DEF LockEnds
  <2>3. Held'
    BY <2>2, Zenon DEF Guessing, Held, Saving
  <2>. QED
    BY <2>1, <2>3, Zenon DEF Guessing
<1>4. CASE AccountsNext
  <2>1. (\E h \in Handlers : Kind(h)) \/ \E u \in Users : LockEnds(u)
    BY <1>4, StepKinds, Zenon DEF CInv
  <2>. QED
    BY <1>2, <1>3, <2>1, Zenon
<1>5. CASE UNCHANGED accountVars
  <2>1. UNCHANGED <<users, tries, work, past>>
    BY <1>5 DEF accountVars, histories
  <2>. QED
    BY <2>1, Zenon DEF Guessing, Held, Saving, Steady, Locked, Trying, At, Read
<1>. QED
  BY <1>4, <1>5

(* "a guesser gets MAX_FAILED_LOGINS tries per window and no more", the     *)
(* promise of recordFailedLogin, holds of the count itself: with one        *)
(* request at a time, whatever the requests and wherever they are cut off,  *)
(* for every limit.  What breaks it is the overlap, as the run of two       *)
(* requests shows.                                                          *)
THEOREM OneGuesserGetsTheLimit ==
  ASSUME NEW a, Handlers \subseteq {a}
  PROVE  AccountsSpec => []TriesAreLimited
<1>1. OneAtMost
  BY Zenon DEF OneAtMost
<1>2. CInv /\ Guessing => TriesAreLimited
  <2>. SUFFICES ASSUME CInv, Guessing, NEW u \in Users PROVE tries[u] <= MaxFailed
    BY DEF TriesAreLimited
  <2>1. /\ MaxFailed \in Nat /\ tries[u] \in Nat
        /\ users[u].failed \in Nat /\ users[u].failed < MaxFailed
    BY Counts, Zenon DEF Counted
  <2>2. tries[u] <= MaxFailed \/ tries[u] <= users[u].failed + 1
    BY Zenon DEF Guessing, Steady
  <2>. QED
    BY <2>1, <2>2, SMT
<1>3. AccountsInit => Guessing
  <2>. SUFFICES ASSUME AccountsInit PROVE Guessing
    OBVIOUS
  <2>1. ASSUME NEW u \in Users PROVE Steady(u)
    <3>1. tries[u] = 0 /\ \A h \in Handlers : ~Trying(h, u)
      BY IdleIsFine, Zenon DEF AccountsInit, Trying, At
    <3>2. users[u].failed \in Nat /\ MaxFailed \in Nat
      BY CInvInit, Counts, Zenon DEF Counted
    <3>3. 0 <= MaxFailed /\ 0 <= users[u].failed /\ 0 <= users[u].failed + 1
      BY <3>2, SMT
    <3>. QED
      BY <3>1, <3>3, Zenon DEF Steady
  <2>2. \A h \in Handlers : ~Saving(work[h])
    BY IdleIsFine, Zenon DEF AccountsInit, Saving
  <2>. QED
    BY <2>1, <2>2, Zenon DEF Guessing, Held
<1>4. CInv /\ Guessing /\ [AccountsNext]_accountVars => Guessing'
  BY <1>1, GuessingNext
<1>. QED
  BY <1>2, <1>3, <1>4, CInvAlways, PTL DEF AccountsSpec

(* The copy about to be saved is not from before a removal. *)
Fresh ==
  \A h \in Handlers : Saving(work[h]) /\ users[work[h].user].deleted => work[h].copy.deleted

StayRemoved == \A u \in Users : users[u].deleted => users'[u].deleted

LEMMA FreshKind ==
  ASSUME CInv, OneAtMost, Fresh, NEW h \in Handlers, Kind(h)
  PROVE  Fresh'
<1>. PICK w : /\ work' = [work EXCEPT ![h] = w]
              /\ Saving(w) =>
                   /\ UNCHANGED users
                   /\ \/ Faithful(w.copy, w.user)
                      \/ Saving(work[h]) /\ w.user = work[h].user /\ w.copy = work[h].copy
  BY SavesWhatItHas
<1>1. work \in [Handlers -> Work]
  BY DEF CInv, AccountsOK
<1>2. \A k \in Handlers : work'[k] = w
  BY <1>1, Zenon DEF OneAtMost
<1>3. Saving(w) /\ users'[w.user].deleted => w.copy.deleted
  BY Zenon DEF Faithful, Fresh
<1>4. \A k \in Handlers : Saving(work[k])' <=> Saving(w)
  BY <1>2, Zenon DEF Saving
<1>. QED
  BY <1>2, <1>3, <1>4, Zenon DEF Fresh

LEMMA StayRemovedKind ==
  ASSUME CInv, Fresh, NEW h \in Handlers, Kind(h)
  PROVE  StayRemoved
<1>. PICK j \in Work : j = work[h] /\ Fine(j)
  BY DEF CInv, AccountsOK, Copied
<1>1. /\ users \in [Users -> User] /\ j.user \in Users
  BY Zenon DEF CInv, AccountsOK, Work
<1>2. ASSUME UNCHANGED users PROVE StayRemoved
  BY <1>2, Zenon DEF StayRemoved
<1>3. CASE Inserts(h)
  <2>1. ~users[j.user].exists /\ users' = [users EXCEPT ![j.user] = j.copy]
    BY <1>3, Zenon DEF Inserts
  <2>2. users[j.user].deleted = FALSE
    <3>1. users[j.user] = Absent
      BY <1>1, <2>1, Zenon DEF CInv, Copied
    <3>. QED
      BY <3>1 DEF Absent
  <2>3. \A v \in Users \ {j.user} : users'[v] = users[v]
    BY <1>1, <2>1, Zenon
  <2>. QED
    BY <2>2, <2>3, Zenon DEF StayRemoved
<1>4. CASE Save(h)
  <2>. PICK row : row = Written(users[j.user], j.copy, j.seen)
    OBVIOUS
  <2>1. /\ j.stage = "update" /\ users' = [users EXCEPT ![j.user] = row]
        /\ users[j.user] \in User /\ j.copy \in User /\ j.seen \in User
    BY <1>1, <1>4, SaveGoesOn, Zenon
  <2>2. row.deleted = users[j.user].deleted \/ row.deleted = j.copy.deleted
    BY <2>1, WrittenFacts
  <2>3. users[j.user].deleted => row.deleted
    <3>1. users[j.user].deleted => j.copy.deleted
      BY <2>1, Zenon DEF Fresh, Saving
    <3>. QED
      BY <2>2, <3>1, Zenon
  <2>4. users'[j.user] = row /\ \A v \in Users \ {j.user} : users'[v] = users[v]
    BY <1>1, <2>1, Zenon
  <2>. QED
    BY <2>3, <2>4, Zenon DEF StayRemoved
<1>5. CASE clearFailedLogins(h) \/ recordFailedLogin(h)
  BY <1>5, LockoutSteps, Zenon DEF SameStanding, StayRemoved
<1>6. CASE \E w \in Work : Quietly(h, w)
  BY <1>2, <1>6, Zenon DEF Quietly
<1>7. CASE \E u \in Users, copy \in User, new \in BOOLEAN : Copies(h, u, copy, new)
  BY <1>2, <1>7, Zenon DEF Copies
<1>8. CASE Select(h) \/ (\E u \in Users : Guess(h, u)) \/ Invite(h) \/ Stop(h)
  BY <1>2, <1>8, Zenon DEF Select, Guess, Invite, Stop
<1>. QED
  BY <1>3, <1>4, <1>5, <1>6, <1>7, <1>8, Zenon DEF Kind

LEMMA FreshNext ==
  ASSUME OneAtMost
  PROVE  CInv /\ Fresh /\ [AccountsNext]_accountVars => Fresh' /\ StayRemoved
<1>. SUFFICES ASSUME CInv, Fresh, [AccountsNext]_accountVars PROVE Fresh' /\ StayRemoved
  OBVIOUS
<1>1. ASSUME NEW u \in Users, LockEnds(u) PROVE Fresh' /\ StayRemoved
  <2>1. UNCHANGED <<users, work>>
    BY <1>1, LockEndsKeeps, Zenon
  <2>. QED
    BY <2>1, Zenon DEF StayRemoved, Fresh, Saving
<1>2. CASE AccountsNext
  <2>1. (\E h \in Handlers : Kind(h)) \/ \E u \in Users : LockEnds(u)
    BY <1>2, StepKinds, Zenon DEF CInv
  <2>. QED
    BY <1>1, <2>1, FreshKind, StayRemovedKind, Zenon
<1>3. CASE UNCHANGED accountVars
  BY <1>3, Zenon DEF accountVars, Fresh, Saving, StayRemoved
<1>. QED
  BY <1>2, <1>3

(* With one request at a time a removed account stays removed, whatever the *)
(* requests and wherever they are cut off: what brings one back is a copy   *)
(* read before the removal by another request, and nothing else.            *)
THEOREM SeriallyRemovedStaysRemoved ==
  ASSUME NEW a, Handlers \subseteq {a}
  PROVE  AccountsSpec => RemovedStaysRemoved
<1>1. OneAtMost
  BY Zenon DEF OneAtMost
<1>2. AccountsInit => Fresh
  BY IdleIsFine, Zenon DEF AccountsInit, Fresh, Saving
<1>3. CInv /\ Fresh /\ [AccountsNext]_accountVars => Fresh' /\ StayRemoved
  BY <1>1, FreshNext
<1>. QED
  BY <1>2, <1>3, CInvAlways, PTL DEF AccountsSpec, RemovedStaysRemoved, StayRemoved

=============================================================================
