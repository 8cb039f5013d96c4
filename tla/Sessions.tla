------------------------------ MODULE Sessions ------------------------------
(***************************************************************************)
(* The sessions of one account: refresh tokens that are rotated, reset     *)
(* links, and open sockets, under requests that run side by side and may   *)
(* stop half way.  A request is a sequence of database statements, and     *)
(* each of them is a step.                                                 *)
(*                                                                         *)
(* Whoever holds a token may present it: its owner, a second tab of        *)
(* theirs, or someone who copied it.  Passwords are left out: a sign-in is *)
(* one with the right password (Accounts counts the wrong ones).           *)
(***************************************************************************)
EXTENDS Integers, FiniteSets

CONSTANTS
  Tokens,    \* refresh tokens; the first of a family names the family
  Grants,    \* reset links
  Handlers,  \* requests in flight
  None,
  MaxSaves   \* bound: how often the password or the access is changed

ASSUME NoneAssumption == None \notin Tokens \cup Grants
ASSUME SavesAssumption == MaxSaves \in Nat
ASSUME HandlersAssumption == IsFiniteSet(Handlers)

VARIABLES
  rows,     \* refresh_tokens, with what becomes of each token
  grants,   \* password_resets
  sockets,  \* the sockets in the account's room, alike ones as one
  access,   \* isActive and isDeleted of the account
  work,     \* what each request in flight is doing
  era,      \* history: how often password or access were saved
  done,     \* history: the last such save whose sessions have been ended
  barred,   \* history: the last one whose sockets have been dropped too
  resets    \* history: how often each link has set a password

sessionVars == <<rows, grants, sockets, access, work, era, done, barred, resets>>

-----------------------------------------------------------------------------
(* live and lapsed rows have no revokedAt, a lapsed one is past expiresAt; *)
(* rotated becomes overdue REUSE_GRACE_MS later; an ended token is refused *)
(* and nothing more: revoked otherwise, expired since, or its row deleted. *)
RowStates == {"none", "live", "lapsed", "rotated", "overdue", "ended"}

Unrevoked == {"live", "lapsed"}

(* since: the era of the sign-in; late: the request that recorded the row, *)
(* or one before it in the family, was under way when sessions were ended. *)
(* Both are history, kept while the row is unrevoked.                      *)
Row ==
  [state: RowStates, family: Tokens \cup {None}, since: 0 .. MaxSaves, late: BOOLEAN]

NoRow == [state |-> "none", family |-> None, since |-> 0, late |-> FALSE]

GrantStates == {"none", "open", "lapsed", "spent"}

Socket == [since: 0 .. MaxSaves, late: BOOLEAN]

Access == {"allowed", "blocked", "deleted"}

Kinds ==
  {"none", "login", "refresh", "guarded", "forgot", "reset", "change",
   "block", "unblock", "remove", "socket"}

Stages ==
  {"idle", "record", "account", "family", "claim", "turn", "guarded", "spend",
   "issue", "grant", "save", "end", "drop", "join"}

(* token, family: the row a refresh read; copy: the account as read, to be *)
(* saved; era, late: history, of the session or socket the request is about*)
(* to record, or the era its save began.                                   *)
Work ==
  [kind: Kinds, stage: Stages, token: Tokens \cup {None}, family: Tokens \cup {None},
   grant: Grants \cup {None}, copy: Access, era: 0 .. MaxSaves, late: BOOLEAN]

Job(kind, stage, token, family, grant, copy, since, late) ==
  [kind |-> kind, stage |-> stage, token |-> token, family |-> family, grant |-> grant,
   copy |-> copy, era |-> since, late |-> late]

Idle == Job("none", "idle", None, None, None, "allowed", 0, FALSE)

SessionsInit ==
  /\ rows = [t \in Tokens |-> NoRow]
  /\ grants = [g \in Grants |-> "none"]
  /\ sockets = {}
  /\ access = "allowed"
  /\ work = [h \in Handlers |-> Idle]
  /\ era = 0
  /\ done = 0
  /\ barred = 0
  /\ resets = [g \in Grants |-> 0]

-----------------------------------------------------------------------------
(* How requests go on *)

Starts(h, job) == work[h].stage = "idle" /\ work' = [work EXCEPT ![h] = job]

(* A request that is to record a session or a socket, and one that is not. *)
Enters(kind, stage) == Job(kind, stage, None, None, None, "allowed", era, FALSE)

Task(kind, stage) == Job(kind, stage, None, None, None, "allowed", 0, FALSE)

At(h, stage) == work[h].stage = stage

As(w, kind, stage) == Job(kind, stage, w.token, w.family, w.grant, w.copy, w.era, w.late)

Goes(h, stage) == work' = [work EXCEPT ![h] = As(@, @.kind, stage)]

Ends(h) == work' = [work EXCEPT ![h] = Idle]

Continues(h, ok, stage) == IF ok THEN Goes(h, stage) ELSE Ends(h)

histories == <<era, done, barred, resets>>

(* A row that is revoked, or whose token no longer verifies. *)
Revoked(row, state) == [state |-> state, family |-> row.family, since |-> 0, late |-> FALSE]

Revoke(t, state) == rows' = [rows EXCEPT ![t] = Revoked(@, state)]

-----------------------------------------------------------------------------
(* Signing in *)

(* login: the account is read, the password compared, the block reason     *)
(* checked.                                                                *)
Login(h) ==
  /\ access = "allowed"
  /\ Starts(h, Enters("login", "record"))
  /\ UNCHANGED <<rows, grants, sockets, access, histories>>

(* createUserTokens signs a token that never existed (jwtid), and record   *)
(* inserts its row; without a family it is the first of its own.           *)
Records(h, family) ==
  \E t \in Tokens :
    /\ rows[t].state = "none"
    /\ rows' = [rows EXCEPT ![t] =
         [state |-> "live", family |-> IF family = None THEN t ELSE family,
          since |-> work[h].era, late |-> work[h].late]]

(* record, of a sign-in: a family of its own. *)
RecordLogin(h) ==
  /\ At(h, "record")
  /\ Records(h, None)
  /\ Ends(h)
  /\ UNCHANGED <<grants, sockets, access, histories>>

-----------------------------------------------------------------------------
(* refreshAccessToken *)

Presents(t, stage) ==
  Job("refresh", stage, t, rows[t].family, None, "allowed", rows[t].since, rows[t].late)

(* assertActive finds the row live... *)
Refresh(h, t) ==
  /\ rows[t].state = "live"
  /\ Starts(h, Presents(t, "account"))
  /\ UNCHANGED <<rows, grants, sockets, access, histories>>

(* ...or rotated away longer ago than two tabs explain. *)
Reused(h, t) ==
  /\ rows[t].state = "overdue"
  /\ Starts(h, Job("refresh", "family", None, rows[t].family, None, "allowed", 0, FALSE))
  /\ UNCHANGED <<rows, grants, sockets, access, histories>>

InFamily(t, f) == rows[t].family = f /\ rows[t].state \in Unrevoked

revokeFamily(h) ==
  /\ At(h, "family")
  /\ rows' = [t \in Tokens |->
       IF InFamily(t, work[h].family)
       THEN Revoked(rows[t], "ended") ELSE rows[t]]
  /\ Ends(h)
  /\ UNCHANGED <<grants, sockets, access, histories>>

(* findByEmail and assertCanSignIn. *)
CheckAccount(h) ==
  /\ At(h, "account")
  /\ Continues(h, access = "allowed", "claim")
  /\ UNCHANGED <<rows, grants, sockets, access, histories>>

(* Mutant: the update is not conditional on the row being live. *)
ClaimAnyway(h) ==
  /\ At(h, "claim")
  /\ Revoke(work[h].token, "rotated")
  /\ Goes(h, "turn")
  /\ UNCHANGED <<grants, sockets, access, histories>>

(* revoke 'rotated': a read, then an update of the row if still unrevoked. *)
(* A row that lapsed on the way is claimed or not, as the read fell.       *)
Claim(h) ==
  /\ At(h, "claim")
  /\ LET t == work[h].token
         s == rows[t].state
     IN \/ /\ s = "live"
           /\ Revoke(t, "rotated")
           /\ Goes(h, "turn")
        \/ /\ s = "lapsed"
           /\ Revoke(t, "ended")
           /\ Goes(h, "turn")
        \/ /\ s # "live"
           /\ Ends(h)
           /\ UNCHANGED rows
  /\ UNCHANGED <<grants, sockets, access, histories>>

(* Mutant: a rotation is recorded as if it were a sign-in of its own. *)
RecordTurnAlone(h) ==
  /\ At(h, "turn")
  /\ Records(h, None)
  /\ Ends(h)
  /\ UNCHANGED <<grants, sockets, access, histories>>

(* record, of a rotation: the family of the token that was presented. *)
RecordTurn(h) ==
  /\ At(h, "turn")
  /\ Records(h, work[h].family)
  /\ Ends(h)
  /\ UNCHANGED <<grants, sockets, access, histories>>

-----------------------------------------------------------------------------
(* Requests behind JwtAuthGuard, which reads the account first.  An access *)
(* token outlives the session it came with, and is left out.               *)

SignedInOnce == \E t \in Tokens : rows[t].state # "none"

Guarded(h) ==
  /\ access = "allowed"
  /\ SignedInOnce
  /\ Starts(h, Job("guarded", "guarded", None, None, None, access, 0, FALSE))
  /\ UNCHANGED <<rows, grants, sockets, access, histories>>

(* logout with a token: revoke again, a read and then an update.           *)
LogoutOne(h, t) ==
  /\ At(h, "guarded")
  /\ \/ rows[t].state \in Unrevoked /\ Revoke(t, "ended")
     \/ rows[t].state # "live" /\ UNCHANGED rows
  /\ Ends(h)
  /\ UNCHANGED <<grants, sockets, access, histories>>

(* endSession: revokeById does not look at the expiry. *)
endSession(h, t) ==
  /\ At(h, "guarded")
  /\ rows[t].state \in Unrevoked
  /\ Revoke(t, "ended")
  /\ Ends(h)
  /\ UNCHANGED <<grants, sockets, access, histories>>

(* The requests that are about to record a session or a socket. *)
Entering == {"record", "account", "claim", "turn", "join"}

Overtaken(w) == Job(w.kind, w.stage, w.token, w.family, w.grant, w.copy, w.era, TRUE)

(* revokeAllForUser: whoever is under way has been overtaken. *)
revokeAllForUser(h, next) ==
  /\ rows' = [t \in Tokens |->
       IF rows[t].state \in Unrevoked THEN Revoked(rows[t], "ended") ELSE rows[t]]
  /\ work' = [g \in Handlers |->
       IF g = h THEN next
       ELSE IF work[g].stage \in Entering THEN Overtaken(work[g]) ELSE work[g]]

(* logout without a token, or everywhere. *)
LogoutAll(h) ==
  /\ At(h, "guarded")
  /\ revokeAllForUser(h, Idle)
  /\ UNCHANGED <<grants, sockets, access, histories>>

(* changePassword and deleteOwnAccount: the password is compared with the  *)
(* hash the guard read, and that copy of the account is the one saved.     *)
GoesToSave(h) ==
  /\ At(h, "guarded")
  /\ \E kind \in {"change", "remove"} :
       work' = [work EXCEPT ![h] = As(@, kind, "save")]
  /\ UNCHANGED <<rows, grants, sockets, access, histories>>

-----------------------------------------------------------------------------
(* Reset links *)

(* forgotPassword for the account, or issueClaim for a booking. *)
forgotPassword(h) ==
  /\ access = "allowed"
  /\ Starts(h, Task("forgot", "spend"))
  /\ UNCHANGED <<rows, grants, sockets, access, histories>>

(* Mutant: the links outstanding are left open. *)
spendNothing(h) ==
  /\ At(h, "spend")
  /\ Goes(h, "issue")
  /\ UNCHANGED <<rows, grants, sockets, access, histories>>

(* createGrant: the links outstanding are spent, in one statement... *)
spendAllForUser(h) ==
  /\ At(h, "spend")
  /\ grants' = [g \in Grants |-> IF grants[g] \in {"open", "lapsed"} THEN "spent" ELSE grants[g]]
  /\ Goes(h, "issue")
  /\ UNCHANGED <<rows, sockets, access, histories>>

(* ...and the next is inserted, in another. *)
createGrant(h) ==
  /\ At(h, "issue")
  /\ \E g \in Grants : grants[g] = "none" /\ grants' = [grants EXCEPT ![g] = "open"]
  /\ Ends(h)
  /\ UNCHANGED <<rows, sockets, access, histories>>

(* consume: the grant is read with its user, blocked or not. *)
resetPassword(h, g) ==
  /\ grants[g] = "open"
  /\ Starts(h, Job("reset", "grant", None, None, g, access, 0, FALSE))
  /\ UNCHANGED <<rows, grants, sockets, access, histories>>

(* Mutant: the grant is marked used without asking whether it still was    *)
(* unused.                                                                 *)
consumeAnyway(h) ==
  /\ At(h, "grant")
  /\ grants' = [grants EXCEPT ![work[h].grant] = "spent"]
  /\ Goes(h, "save")
  /\ UNCHANGED <<rows, sockets, access, histories>>

(* consume: the claim, an update conditional on usedAt being null. *)
consume(h) ==
  /\ At(h, "grant")
  /\ LET unused == grants[work[h].grant] \in {"open", "lapsed"} IN
       /\ grants' = IF unused THEN [grants EXCEPT ![work[h].grant] = "spent"] ELSE grants
       /\ Continues(h, unused, "save")
  /\ UNCHANGED <<rows, sockets, access, histories>>

-----------------------------------------------------------------------------
(* Changing the password or the access, and what it ends *)

(* An administrator blocks, unblocks or deletes: findEntityByIdOrFail. *)
Administer(h) ==
  /\ access # "deleted"
  /\ \E kind \in {"block", "unblock", "remove"} : Starts(h, Task(kind, "save"))
  /\ UNCHANGED <<rows, grants, sockets, access, histories>>

(* The whole copy is saved, so a password change also saves the access it  *)
(* read.                                                                   *)
Saved(w) ==
  IF w.kind = "block" THEN "blocked"
  ELSE IF w.kind = "unblock" THEN "allowed"
  ELSE IF w.kind = "remove" THEN "deleted"
  ELSE w.copy

Save(h) ==
  /\ At(h, "save")
  /\ work[h].kind # "unblock"
  /\ era < MaxSaves
  /\ era' = era + 1
  /\ access' = Saved(work[h])
  /\ resets' = IF work[h].kind = "reset" THEN [resets EXCEPT ![work[h].grant] = @ + 1] ELSE resets
  /\ work' = [work EXCEPT ![h] = Job(@.kind, "end", None, None, None, "allowed", era + 1, FALSE)]
  /\ UNCHANGED <<rows, grants, sockets, done, barred>>

SaveUnblocked(h) ==
  /\ At(h, "save")
  /\ work[h].kind = "unblock"
  /\ access' = Saved(work[h])
  /\ Ends(h)
  /\ UNCHANGED <<rows, grants, sockets, histories>>

Later(a, b) == IF a > b THEN a ELSE b

(* Mutant: after a password change the other devices stay signed in. *)
EndOwnSession(h) ==
  /\ At(h, "end")
  /\ done' = Later(done, work[h].era)
  /\ IF work[h].kind \in {"block", "remove"}
     THEN revokeAllForUser(h, As(work[h], work[h].kind, "drop"))
     ELSE Ends(h) /\ UNCHANGED rows
  /\ UNCHANGED <<grants, sockets, access, era, barred, resets>>

(* revokeAllForUser, after the save; block and delete go on to announce. *)
EndSessions(h) ==
  /\ At(h, "end")
  /\ done' = Later(done, work[h].era)
  /\ revokeAllForUser(h, IF work[h].kind \in {"block", "remove"}
                         THEN As(work[h], work[h].kind, "drop") ELSE Idle)
  /\ UNCHANGED <<grants, sockets, access, era, barred, resets>>

(* announceAccessRevoked: every socket in the account's room is dropped.   *)
DropSockets(h) ==
  /\ At(h, "drop")
  /\ sockets' = {}
  /\ barred' = Later(barred, work[h].era)
  /\ work' = [g \in Handlers |->
       IF g = h THEN Idle
       ELSE IF work[g].stage = "join" THEN Overtaken(work[g]) ELSE work[g]]
  /\ UNCHANGED <<rows, grants, access, era, done, resets>>

-----------------------------------------------------------------------------
(* Sockets *)

(* The handshake reads the account... *)
Handshake(h) ==
  /\ access = "allowed"
  /\ SignedInOnce
  /\ Starts(h, Enters("socket", "join"))
  /\ UNCHANGED <<rows, grants, sockets, access, histories>>

(* ...and joins the room afterwards. *)
Join(h) ==
  /\ At(h, "join")
  /\ sockets' = sockets \cup {[since |-> work[h].era, late |-> work[h].late]}
  /\ Ends(h)
  /\ UNCHANGED <<rows, grants, access, histories>>

-----------------------------------------------------------------------------
(* Time, housekeeping, faults *)

Expire(t) ==
  /\ \/ rows[t].state = "live" /\ rows' = [rows EXCEPT ![t] = [@ EXCEPT !.state = "lapsed"]]
     \/ rows[t].state \in {"rotated", "overdue"} /\ Revoke(t, "ended")
  /\ UNCHANGED <<grants, sockets, access, work, histories>>

GraceOver(t) ==
  /\ rows[t].state = "rotated"
  /\ rows' = [rows EXCEPT ![t] = [@ EXCEPT !.state = "overdue"]]
  /\ UNCHANGED <<grants, sockets, access, work, histories>>

GrantExpires(g) ==
  /\ grants[g] = "open"
  /\ grants' = [grants EXCEPT ![g] = "lapsed"]
  /\ UNCHANGED <<rows, sockets, access, work, histories>>

(* pruneExpiredTokens deletes what has lapsed. *)
Prune ==
  /\ rows' = [t \in Tokens |->
       IF rows[t].state = "lapsed" THEN Revoked(rows[t], "ended") ELSE rows[t]]
  /\ grants' = [g \in Grants |-> IF grants[g] = "lapsed" THEN "spent" ELSE grants[g]]
  /\ UNCHANGED <<sockets, access, work, histories>>

(* The client goes away. *)
Disconnect ==
  /\ \E s \in sockets : sockets' = sockets \ {s}
  /\ UNCHANGED <<rows, grants, access, work, histories>>

(* A statement fails or the process stops: the request ends where it is.   *)
Stop(h) ==
  /\ work[h].stage # "idle"
  /\ Ends(h)
  /\ UNCHANGED <<rows, grants, sockets, access, histories>>

-----------------------------------------------------------------------------
Begin(h) ==
  \/ Login(h) \/ Guarded(h) \/ forgotPassword(h) \/ Administer(h) \/ Handshake(h)
  \/ \E t \in Tokens : Refresh(h, t) \/ Reused(h, t)
  \/ \E g \in Grants : resetPassword(h, g)

Proceed(h) ==
  \/ RecordLogin(h)
  \/ revokeFamily(h) \/ CheckAccount(h) \/ Claim(h) \/ RecordTurn(h)
  \/ LogoutAll(h) \/ GoesToSave(h)
  \/ \E t \in Tokens : LogoutOne(h, t) \/ endSession(h, t)
  \/ spendAllForUser(h) \/ createGrant(h) \/ consume(h)
  \/ Save(h) \/ SaveUnblocked(h) \/ EndSessions(h) \/ DropSockets(h)
  \/ Join(h)

Pass ==
  \/ \E t \in Tokens : Expire(t) \/ GraceOver(t)
  \/ \E g \in Grants : GrantExpires(g)
  \/ Prune \/ Disconnect

SessionsNext == (\E h \in Handlers : Begin(h) \/ Proceed(h) \/ Stop(h)) \/ Pass

SessionsSpec == SessionsInit /\ [][SessionsNext]_sessionVars

-----------------------------------------------------------------------------
(* Properties *)

(* Types; a request that presents a token presents one that was issued.    *)
SessionsOK ==
  /\ rows \in [Tokens -> Row]
  /\ grants \in [Grants -> GrantStates]
  /\ sockets \subseteq Socket
  /\ access \in Access
  /\ work \in [Handlers -> Work]
  /\ era \in 0 .. MaxSaves /\ done \in 0 .. MaxSaves /\ barred \in 0 .. MaxSaves
  /\ resets \in [Grants -> Nat]
  /\ \A t \in Tokens : rows[t].state # "none" => rows[t].family \in Tokens
  /\ \A h \in Handlers :
       work[h].stage \in {"account", "family", "claim", "turn"} =>
         work[h].family \in Tokens /\ rows[work[h].family].state # "none"

(* Who holds a family's place: its unrevoked tokens, and the rotations of  *)
(* it that have claimed one and not recorded the next.                     *)
Holders(f) ==
  {t \in Tokens : InFamily(t, f)} \cup {h \in Handlers : At(h, "turn") /\ work[h].family = f}

(* "Each family has at most one live token, so one row is one device":     *)
(* however many requests present the same token, one rotation goes on.     *)
OneTokenPerDevice ==
  \A f \in Tokens : \A x, y \in Holders(f) : x = y

(* What the owner sees of a family. *)
DeviceOf(f) ==
  IF \E t \in Tokens : InFamily(t, f) THEN "in"
  ELSE IF \E h \in Handlers : At(h, "turn") /\ work[h].family = f THEN "turning"
  ELSE IF rows[f].family = f THEN "out"
  ELSE "unused"

(* The sessions are the devices of Devices: one that is out stays out, and *)
(* only the exchange under way brings a device back in.                    *)
Shown == INSTANCE Devices WITH Device <- Tokens, device <- [f \in Tokens |-> DeviceOf(f)]
KeepsDevices == Shown!Spec

(* "a link opened twice at once is spent exactly once": a link sets the    *)
(* password once at most.                                                  *)
GrantSpentOnce == \A g \in Grants : resets[g] <= 1

(* Two requests for a link may both spend and then both insert; no more    *)
(* links than requests can be outstanding.                                 *)
LinksAreBounded == Cardinality({g \in Grants : grants[g] = "open"}) <= Cardinality(Handlers)

(* After a password change, a block or a deletion has ended the sessions,  *)
(* a session signed in before it is live only if the request that recorded *)
(* it was overtaken; and so for the sockets after a block.                 *)
OnlyTheOvertakenSurvive ==
  /\ \A t \in Tokens :
       rows[t].state \in Unrevoked /\ rows[t].since < done => rows[t].late
  /\ \A s \in sockets : s.since < barred => s.late

=============================================================================
