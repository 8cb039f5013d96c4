------------------------------ MODULE Accounts ------------------------------
(***************************************************************************)
(* The users table under the requests that change it.  Most of them load   *)
(* an account, change a field or two and save the whole entity: the save   *)
(* reads the row again and then writes every column in which the entity    *)
(* and that row differ, so what was committed since the load is written    *)
(* back.  Wrong passwords are counted by updates of their own, from a      *)
(* count read before the comparison.  A booking addressed to an unknown    *)
(* e-mail creates a placeholder account, and invites its owner once the    *)
(* parcel is booked.                                                       *)
(*                                                                         *)
(* An account is named by its e-mail, which is unique in the table.  The   *)
(* sessions that end with a block or a password are in Sessions.           *)
(***************************************************************************)
EXTENDS Integers

CONSTANTS
  Users,       \* e-mail addresses
  SuperAdmin,  \* the one of SUPER_ADMIN_EMAIL, seeded before requests come
  Handlers,    \* requests in flight
  MaxFailed,   \* MAX_FAILED_LOGINS
  RequireVerified, \* REQUIRE_VERIFIED_EMAIL
  MaxLinks,    \* bound: confirmation links outstanding for one account
  MaxLocks,    \* bound: lockouts of one account
  MaxTries     \* bound: wrong passwords compared in one window

ASSUME SuperAdminAssumption == SuperAdmin \in Users
ASSUME MaxFailedAssumption == MaxFailed \in Nat \ {0}
ASSUME MaxLinksAssumption == MaxLinks \in Nat
ASSUME MaxLocksAssumption == MaxLocks \in Nat
ASSUME MaxTriesAssumption == MaxTries \in Nat
ASSUME RequireVerifiedAssumption == RequireVerified \in BOOLEAN

VARIABLES
  users,    \* the rows
  links,    \* email_verifications: how many are open, per account
  work,     \* what each request in flight is doing
  locks,    \* how many lockouts have begun, per account
  past,     \* how many of them are over: each lasts LOCKOUT_MINUTES
  tries,    \* history: wrong passwords compared in this window, per account
  invites,  \* history: claim links issued, per account
  cut       \* history: accounts whose first booking was cut off or failed

accountVars == <<users, links, work, locks, past, tries, invites, cut>>

Role == {"ADMIN", "SENDER", "RECEIVER", "DELIVERY_PERSONNEL", "PENDING_DELIVERY"}

(* papers: nidNumber and nidImage; secret: a password; failed: the count   *)
(* of wrong passwords; until: lockedUntil, n for the end of the n-th       *)
(* lockout of the account and 0 for none.                                  *)
User ==
  [exists: BOOLEAN, role: Role, active: BOOLEAN, deleted: BOOLEAN, verified: BOOLEAN,
   papers: BOOLEAN, secret: BOOLEAN, failed: 0 .. MaxFailed, until: Nat]

Absent ==
  [exists |-> FALSE, role |-> "SENDER", active |-> TRUE, deleted |-> FALSE,
   verified |-> FALSE, papers |-> FALSE, secret |-> FALSE, failed |-> 0, until |-> 0]

Stages ==
  {"idle", "insert", "save", "update", "mark", "clear", "spend", "issue", "failed",
   "placeholder", "book", "invite"}

(* copy: the entity in memory; seen: the row as its save has read it; new: *)
(* whether the request created the account, or has more to do once the     *)
(* entity is saved.                                                        *)
Work == [stage: Stages, user: Users, copy: User, seen: User, new: BOOLEAN]

Idle ==
  [stage |-> "idle", user |-> SuperAdmin, copy |-> Absent, seen |-> Absent, new |-> FALSE]

(* seedSuperAdmin, before the application listens. *)
AccountsInit ==
  /\ users = [u \in Users |->
       IF u = SuperAdmin
       THEN [Absent EXCEPT !.exists = TRUE, !.role = "ADMIN", !.verified = TRUE, !.secret = TRUE]
       ELSE Absent]
  /\ links = [u \in Users |-> 0]
  /\ work = [h \in Handlers |-> Idle]
  /\ locks = [u \in Users |-> 0]
  /\ past = [u \in Users |-> 0]
  /\ tries = [u \in Users |-> 0]
  /\ invites = [u \in Users |-> 0]
  /\ cut = {}

-----------------------------------------------------------------------------
(* getSignInBlockReason, and findEntityByIdOrFail. *)
CanSignIn(user) == user.exists /\ user.active /\ ~user.deleted

Found(u) == users[u].exists /\ ~users[u].deleted

IsAdmin(u) == CanSignIn(users[u]) /\ users[u].role = "ADMIN"

At(h, stage) == work[h].stage = stage

Turns(h, stage, u, copy, new) ==
  work' = [work EXCEPT ![h] =
    [stage |-> stage, user |-> u, copy |-> copy, seen |-> Absent, new |-> new]]

Starts(h, stage, u, copy, new) == At(h, "idle") /\ Turns(h, stage, u, copy, new)

Ends(h) == work' = [work EXCEPT ![h] = Idle]

histories == <<locks, past, tries, invites, cut>>

(* lockRemainingMs. *)
Locked(u) == users[u].until > past[u]

(* What a reset or a sign-in has to clear: a lock that is over as well.    *)
Stained(user) == user.failed # 0 \/ user.until # 0

-----------------------------------------------------------------------------
(* createUser: the check, then the insert, which the unique e-mail refuses *)
(* when another was quicker.  An administrator's token makes an ADMIN.     *)

resolveUserRole(role) == IF role = "DELIVERY_PERSONNEL" THEN "PENDING_DELIVERY" ELSE role

createUser(h, u) ==
  /\ ~users[u].exists
  /\ \E role \in Role \ {"PENDING_DELIVERY"}, papers \in BOOLEAN :
       /\ role = "ADMIN" => \E a \in Users : users[a].exists /\ users[a].role = "ADMIN"
       /\ Starts(h, "insert", u,
            [Absent EXCEPT !.exists = TRUE, !.secret = TRUE, !.papers = papers,
                           !.role = resolveUserRole(role)], FALSE)
  /\ UNCHANGED <<users, links, histories>>

Insert(h) ==
  /\ At(h, "insert")
  /\ LET w == work[h] IN
     IF users[w.user].exists
     THEN Ends(h) /\ UNCHANGED users
     ELSE /\ users' = [users EXCEPT ![w.user] = w.copy]
          /\ Turns(h, "spend", w.user, Absent, FALSE)
  /\ UNCHANGED <<links, histories>>

(* A new account, or one that asks again, is sent a confirmation link: the *)
(* open ones are spent, and one is inserted, in two statements.            *)
resendVerification(h, u) ==
  /\ users[u].exists /\ ~users[u].verified
  /\ Starts(h, "spend", u, Absent, FALSE)
  /\ UNCHANGED <<users, links, histories>>

SpendLinks(h) ==
  /\ At(h, "spend")
  /\ links' = [links EXCEPT ![work[h].user] = 0]
  /\ Turns(h, "issue", work[h].user, Absent, FALSE)
  /\ UNCHANGED <<users, histories>>

IssueLink(h) ==
  /\ At(h, "issue")
  /\ links[work[h].user] < MaxLinks
  /\ links' = [links EXCEPT ![work[h].user] = @ + 1]
  /\ Ends(h)
  /\ UNCHANGED <<users, histories>>

-----------------------------------------------------------------------------
(* Load, change, save *)

(* A request of the account's own: the guard loads it, or the service does *)
(* right after.                                                            *)
updateProfile(h, u) ==
  /\ CanSignIn(users[u])
  /\ \E papers \in BOOLEAN :
       Starts(h, "save", u, [users[u] EXCEPT !.papers = @ \/ papers], FALSE)
  /\ UNCHANGED <<users, links, histories>>

changePassword(h, u) ==
  /\ CanSignIn(users[u]) /\ users[u].secret
  /\ Starts(h, "save", u, users[u], FALSE)
  /\ UNCHANGED <<users, links, histories>>

(* Mutant: the super admin is like any other. *)
isNobody(u) == FALSE

(* The rules about whom an administrator may edit, block or delete.        *)
isSuperAdmin(u) == u = SuperAdmin

assertMayBeBlocked(u, actor) == u # actor /\ ~isSuperAdmin(u)

setUserActiveStatus(h, u, actor) ==
  /\ IsAdmin(actor) /\ Found(u)
  /\ \E active \in BOOLEAN :
       /\ ~active => assertMayBeBlocked(u, actor)
       /\ Starts(h, "save", u, [users[u] EXCEPT !.active = active], FALSE)
  /\ UNCHANGED <<users, links, histories>>

assertApplicationComplete(user) == user.papers /\ (RequireVerified => user.verified)

setDeliveryApproval(h, u, actor) ==
  /\ IsAdmin(actor) /\ Found(u)
  /\ users[u].role = "PENDING_DELIVERY"
  /\ \E approved \in BOOLEAN :
       /\ approved => assertApplicationComplete(users[u])
       /\ Starts(h, "save", u,
            [users[u] EXCEPT !.role = IF approved THEN "DELIVERY_PERSONNEL" ELSE "SENDER"], FALSE)
  /\ UNCHANGED <<users, links, histories>>

(* Nothing is saved when nothing changed. *)
adminUpdateUser(h, u, actor) ==
  /\ IsAdmin(actor) /\ Found(u)
  /\ \E role \in Role, verified, papers \in BOOLEAN :
       LET edited == [users[u] EXCEPT !.role = role, !.verified = verified, !.papers = papers] IN
       /\ edited # users[u]
       /\ role # users[u].role => u # actor /\ ~isSuperAdmin(u)
       /\ Starts(h, "save", u, edited, FALSE)
  /\ UNCHANGED <<users, links, histories>>

(* deleteOwnAccount, with the password, or adminDeleteUser. *)
removeAccount(h, u, actor) ==
  /\ IF actor = u THEN CanSignIn(users[u]) /\ users[u].secret ELSE IsAdmin(actor) /\ Found(u)
  /\ ~isSuperAdmin(u)
  /\ Starts(h, "save", u, [users[u] EXCEPT !.deleted = TRUE], FALSE)
  /\ UNCHANGED <<users, links, histories>>

(* The link is claimed, once, before the account is marked. *)
verifyEmail(h, u) ==
  /\ links[u] > 0
  /\ links' = [links EXCEPT ![u] = @ - 1]
  /\ Starts(h, "mark", u, Absent, FALSE)
  /\ UNCHANGED <<users, histories>>

(* resetPassword: the link's user as read with it, whatever its state.     *)
resetPassword(h, u) ==
  /\ users[u].exists
  /\ LET user == users[u] IN
     Starts(h, "save", u, [user EXCEPT !.secret = TRUE], ~user.verified \/ Stained(user))
  /\ UNCHANGED <<users, links, histories>>

(* A save begins by reading the row again.                                 *)
Select(h) ==
  /\ At(h, "save")
  /\ work' = [work EXCEPT ![h] =
       [stage |-> "update", user |-> @.user, copy |-> @.copy, seen |-> users[@.user],
        new |-> @.new]]
  /\ UNCHANGED <<users, links, histories>>

(* The columns in which the entity differs from the row that was read.     *)
Written(row, copy, seen) ==
  [c \in DOMAIN row |-> IF copy[c] # seen[c] THEN copy[c] ELSE row[c]]

(* After a reset the address is marked as verified, by a load and a save   *)
(* of their own, and the slate is wiped.                                   *)
Save(h) ==
  /\ At(h, "update")
  /\ LET w == work[h] IN
       /\ users' = [users EXCEPT ![w.user] = Written(@, w.copy, w.seen)]
       /\ IF ~w.new THEN Ends(h)
          ELSE Turns(h, IF w.copy.verified THEN "clear" ELSE "mark", w.user, w.copy, FALSE)
  /\ UNCHANGED <<links, histories>>

(* markVerified loads the account again, does not find a deleted one, and  *)
(* the request stops there.  A reset goes on to wipe the slate when the    *)
(* entity that came with its link says there is something to wipe.         *)
Mark(h) ==
  /\ At(h, "mark")
  /\ LET u == work[h].user IN
     IF Found(u)
     THEN Turns(h, "save", u, [users[u] EXCEPT !.verified = TRUE], Stained(work[h].copy))
     ELSE Ends(h)
  /\ UNCHANGED <<users, links, histories>>

(* The update of clearFailedLogins, which a clean entity does not get to.  *)
clearFailedLogins(h) ==
  /\ At(h, "clear")
  /\ LET u == work[h].user IN
       /\ users' = [users EXCEPT ![u].failed = 0, ![u].until = 0]
       /\ tries' = [tries EXCEPT ![u] = 0]
  /\ Ends(h)
  /\ UNCHANGED <<links, locks, past, invites, cut>>

-----------------------------------------------------------------------------
(* Signing in *)

(* login: assertNotLocked, then the comparison; this one fails. *)
Guess(h, u) ==
  /\ users[u].exists /\ users[u].secret
  /\ ~Locked(u)
  /\ tries[u] < MaxTries
  /\ Starts(h, "failed", u, users[u], FALSE)
  /\ tries' = [tries EXCEPT ![u] = @ + 1]
  /\ UNCHANGED <<users, links, locks, past, invites, cut>>

(* Mutant: the limit itself does not lock yet. *)
recordFailedLoginLate(h) ==
  /\ At(h, "failed")
  /\ LET u == work[h].user
         attempts == work[h].copy.failed + 1
     IN IF attempts > MaxFailed
        THEN /\ locks[u] < MaxLocks
             /\ locks' = [locks EXCEPT ![u] = @ + 1]
             /\ users' = [users EXCEPT ![u].failed = 0, ![u].until = locks[u] + 1]
        ELSE /\ users' = [users EXCEPT ![u].failed = attempts]
             /\ UNCHANGED locks
  /\ Ends(h)
  /\ UNCHANGED <<links, past, tries, invites, cut>>

(* The count read with the account, plus one, is written.                  *)
recordFailedLogin(h) ==
  /\ At(h, "failed")
  /\ LET u == work[h].user
         attempts == work[h].copy.failed + 1
     IN IF attempts >= MaxFailed
        THEN /\ locks[u] < MaxLocks
             /\ locks' = [locks EXCEPT ![u] = @ + 1]
             /\ users' = [users EXCEPT ![u].failed = 0, ![u].until = locks[u] + 1]
        ELSE /\ users' = [users EXCEPT ![u].failed = attempts]
             /\ UNCHANGED locks
  /\ Ends(h)
  /\ UNCHANGED <<links, past, tries, invites, cut>>

(* The right password; the slate is wiped unless it is clean, and a session*)
(* recorded.                                                               *)
login(h, u) ==
  /\ CanSignIn(users[u]) /\ users[u].secret
  /\ ~Locked(u)
  /\ Stained(users[u])
  /\ Starts(h, "clear", u, users[u], FALSE)
  /\ UNCHANGED <<users, links, histories>>

(* LOCKOUT_MINUTES pass after a lockout, whether or not it is still the one*)
(* in the row; if it is, a new window begins.                              *)
LockEnds(u) ==
  /\ past[u] < locks[u]
  /\ past' = [past EXCEPT ![u] = @ + 1]
  /\ tries' = IF users[u].until = past[u] + 1 THEN [tries EXCEPT ![u] = 0] ELSE tries
  /\ UNCHANGED <<users, links, work, locks, invites, cut>>

-----------------------------------------------------------------------------
(* Booking for a receiver, by e-mail *)

findOrCreateReceiver(h, u) ==
  /\ IF users[u].exists
     THEN CanSignIn(users[u]) /\ Starts(h, "book", u, users[u], FALSE)
     ELSE Starts(h, "placeholder", u,
            [Absent EXCEPT !.exists = TRUE, !.role = "RECEIVER"], TRUE)
  /\ UNCHANGED <<users, links, histories>>

(* Mutant: the booking that lost the race takes the account for its own. *)
InsertOrTakeReceiver(h) ==
  /\ At(h, "placeholder")
  /\ LET w == work[h] IN
       /\ users' = IF users[w.user].exists THEN users ELSE [users EXCEPT ![w.user] = w.copy]
       /\ Turns(h, "book", w.user, w.copy, TRUE)
  /\ UNCHANGED <<links, histories>>

(* The insert; the unique e-mail refuses the second, and its booking.      *)
InsertReceiver(h) ==
  /\ At(h, "placeholder")
  /\ LET w == work[h] IN
     IF users[w.user].exists
     THEN Ends(h) /\ UNCHANGED users
     ELSE /\ users' = [users EXCEPT ![w.user] = w.copy]
          /\ Turns(h, "book", w.user, w.copy, TRUE)
  /\ UNCHANGED <<links, histories>>

(* The parcel and its charge commit, and the booking is announced; only a  *)
(* booking that created the receiver goes on to invite.                    *)
Book(h) ==
  /\ At(h, "book")
  /\ LET w == work[h] IN
     IF w.new THEN Turns(h, "invite", w.user, w.copy, TRUE) ELSE Ends(h)
  /\ UNCHANGED <<users, links, histories>>

(* issueClaim. *)
Invite(h) ==
  /\ At(h, "invite")
  /\ invites' = [invites EXCEPT ![work[h].user] = @ + 1]
  /\ Ends(h)
  /\ UNCHANGED <<users, links, locks, past, tries, cut>>

(* A statement fails or the process stops: what was committed stays.       *)
Stop(h) ==
  /\ ~At(h, "idle")
  /\ cut' = IF work[h].stage \in {"book", "invite"} /\ work[h].new
            THEN cut \cup {work[h].user} ELSE cut
  /\ tries' = IF At(h, "failed") /\ tries[work[h].user] > 0
              THEN [tries EXCEPT ![work[h].user] = @ - 1] ELSE tries
  /\ Ends(h)
  /\ UNCHANGED <<users, links, locks, past, invites>>

-----------------------------------------------------------------------------
OwnRequest(h, u) == updateProfile(h, u) \/ changePassword(h, u) \/ removeAccount(h, u, u)

Administer(h, u, actor) ==
  \/ setUserActiveStatus(h, u, actor) \/ setDeliveryApproval(h, u, actor)
  \/ adminUpdateUser(h, u, actor) \/ (u # actor /\ removeAccount(h, u, actor))

Linked(h, u) == resendVerification(h, u) \/ verifyEmail(h, u) \/ resetPassword(h, u)

SignIn(h, u) == Guess(h, u) \/ login(h, u)

Proceed(h) ==
  \/ Insert(h) \/ SpendLinks(h) \/ IssueLink(h) \/ Select(h) \/ Save(h) \/ Mark(h)
  \/ clearFailedLogins(h) \/ recordFailedLogin(h)
  \/ InsertReceiver(h) \/ Book(h) \/ Invite(h)

AccountsNext ==
  \/ \E h \in Handlers : Proceed(h) \/ Stop(h)
  \/ \E h \in Handlers, u \in Users :
       \/ createUser(h, u) \/ OwnRequest(h, u) \/ Linked(h, u)
       \/ SignIn(h, u) \/ findOrCreateReceiver(h, u)
       \/ \E actor \in Users : Administer(h, u, actor)
  \/ \E u \in Users : LockEnds(u)

AccountsSpec == AccountsInit /\ [][AccountsNext]_accountVars

-----------------------------------------------------------------------------
(* Properties *)

AccountsOK ==
  /\ users \in [Users -> User]
  /\ links \in [Users -> 0 .. MaxLinks]
  /\ work \in [Handlers -> Work]
  /\ locks \in [Users -> Nat]
  /\ past \in [Users -> Nat]
  /\ tries \in [Users -> Nat]
  /\ invites \in [Users -> Nat]
  /\ cut \subseteq Users
  /\ \A u \in Users : past[u] <= locks[u]

(* "can leave nobody able to undo it": whatever administrators do to each  *)
(* other, at once and with stale copies, one of them can still sign in.    *)
SomeoneCanUndo == \E u \in Users : IsAdmin(u)

(* "a guesser gets MAX_FAILED_LOGINS tries per window and no more".  A try *)
(* cut off before its count is written is not one of them.                 *)
TriesAreLimited == \A u \in Users : tries[u] <= MaxFailed

(* Of the bookings that race to create a receiver's account one is told so,*)
(* and invites the owner; an account is left without its invitation only by*)
(* a booking that was cut off, or is on its way.                           *)
PlaceholderIsInvited ==
  \A u \in Users :
    /\ invites[u] <= 1
    /\ (users[u].exists /\ users[u].role = "RECEIVER" /\ ~users[u].secret) =>
         \/ invites[u] = 1
         \/ u \in cut
         \/ \E h \in Handlers :
              work[h].user = u /\ work[h].new /\ work[h].stage \in {"book", "invite"}

(* "the account can no longer sign in": an account that was deleted stays  *)
(* deleted.                                                                *)
RemovedStaysRemoved ==
  [][\A u \in Users : users[u].deleted => users'[u].deleted]_accountVars

=============================================================================
