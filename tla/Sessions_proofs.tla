--------------------------- MODULE Sessions_proofs --------------------------
(***************************************************************************)
(* The sessions of an account, for any tokens, links and requests in       *)
(* flight.  Most steps only take rows away; the proofs single out the few  *)
(* that issue a token or pass a family's place on.                         *)
(***************************************************************************)
EXTENDS Sessions, FiniteSetTheorems, TLAPS

Typed ==
  /\ rows \in [Tokens -> Row]
  /\ grants \in [Grants -> GrantStates]
  /\ sockets \subseteq Socket
  /\ access \in Access
  /\ work \in [Handlers -> Work]
  /\ era \in 0 .. MaxSaves /\ done \in 0 .. MaxSaves /\ barred \in 0 .. MaxSaves
  /\ resets \in [Grants -> Nat]

-----------------------------------------------------------------------------
(* Types *)

LEMMA JobType ==
  ASSUME NEW kind \in Kinds, NEW stage \in Stages, NEW token \in Tokens \cup {None},
         NEW family \in Tokens \cup {None}, NEW grant \in Grants \cup {None},
         NEW copy \in Access, NEW since \in 0 .. MaxSaves, NEW late \in BOOLEAN
  PROVE  Job(kind, stage, token, family, grant, copy, since, late) \in Work
BY DEF Job, Work

LEMMA IdleType == Idle \in Work
<1>1. "allowed" \in Access /\ 0 \in 0 .. MaxSaves BY SavesAssumption DEF Access
<1>2. "none" \in Kinds /\ "idle" \in Stages BY DEF Kinds, Stages
<1>. QED BY <1>1, <1>2, JobType DEF Idle

LEMMA AsType ==
  ASSUME NEW w \in Work, NEW kind \in Kinds, NEW stage \in Stages
  PROVE  As(w, kind, stage) \in Work
<1>1. /\ w.token \in Tokens \cup {None} /\ w.family \in Tokens \cup {None}
      /\ w.grant \in Grants \cup {None} /\ w.copy \in Access
      /\ w.era \in 0 .. MaxSaves /\ w.late \in BOOLEAN
  BY DEF Work
<1>. QED BY <1>1, JobType DEF As

LEMMA OvertakenType == ASSUME NEW w \in Work PROVE Overtaken(w) \in Work
<1>1. /\ w.token \in Tokens \cup {None} /\ w.family \in Tokens \cup {None}
      /\ w.grant \in Grants \cup {None} /\ w.copy \in Access
      /\ w.era \in 0 .. MaxSaves /\ w.kind \in Kinds /\ w.stage \in Stages
  BY DEF Work
<1>. QED BY <1>1, JobType DEF Overtaken

LEMMA RowType ==
  ASSUME NEW state \in RowStates, NEW family \in Tokens \cup {None},
         NEW since \in 0 .. MaxSaves, NEW late \in BOOLEAN
  PROVE  [state |-> state, family |-> family, since |-> since, late |-> late] \in Row
BY DEF Row

LEMMA RevokedType ==
  ASSUME NEW row \in Row, NEW state \in RowStates
  PROVE  Revoked(row, state) \in Row
<1>1. row.family \in Tokens \cup {None} /\ 0 \in 0 .. MaxSaves
  BY SavesAssumption DEF Row
<1>. QED BY <1>1, RowType DEF Revoked

LEMMA FieldTypes ==
  ASSUME Typed, NEW h \in Handlers, NEW t \in Tokens
  PROVE  /\ work[h] \in Work /\ rows[t] \in Row
         /\ work[h].kind \in Kinds /\ work[h].stage \in Stages
         /\ work[h].token \in Tokens \cup {None} /\ work[h].family \in Tokens \cup {None}
         /\ work[h].grant \in Grants \cup {None} /\ work[h].copy \in Access
         /\ work[h].era \in 0 .. MaxSaves /\ work[h].late \in BOOLEAN
         /\ rows[t].state \in RowStates /\ rows[t].family \in Tokens \cup {None}
         /\ rows[t].since \in 0 .. MaxSaves /\ rows[t].late \in BOOLEAN
BY DEF Typed, Work, Row

LEMMA TypedInit == SessionsInit => Typed
<1>. SUFFICES ASSUME SessionsInit PROVE Typed
  OBVIOUS
<1>1. NoRow \in Row /\ 0 \in 0 .. MaxSaves
  BY SavesAssumption DEF NoRow, Row, RowStates
<1>2. "allowed" \in Access /\ "none" \in GrantStates
  BY DEF Access, GrantStates
<1>. QED BY <1>1, <1>2, IdleType DEF SessionsInit, Typed

(* The request in flight that takes a step, and the rows it revokes.       *)
LEMMA WorkTyped ==
  ASSUME Typed, NEW h \in Handlers, NEW w \in Work, work' = [work EXCEPT ![h] = w]
  PROVE  work' \in [Handlers -> Work]
BY DEF Typed

LEMMA RevokeTyped ==
  ASSUME Typed, NEW t \in Tokens, NEW state \in RowStates, Revoke(t, state)
  PROVE  rows' \in [Tokens -> Row]
<1>1. rows[t] \in Row BY DEF Typed
<1>2. Revoked(rows[t], state) \in Row BY <1>1, RevokedType
<1>. QED BY <1>2 DEF Revoke, Typed

LEMMA Constants ==
  /\ 0 \in 0 .. MaxSaves /\ FALSE \in BOOLEAN /\ TRUE \in BOOLEAN
  /\ None \in Tokens \cup {None} /\ None \in Grants \cup {None}
  /\ "allowed" \in Access
  /\ Idle \in Work
BY SavesAssumption, IdleType DEF Access

LEMMA TypedBegin ==
  ASSUME Typed, NEW h \in Handlers, Begin(h)
  PROVE  Typed'
<1>1. \A w \in Work : work' = [work EXCEPT ![h] = w] =>
        work' \in [Handlers -> Work]
  BY WorkTyped
<1>2. era \in 0 .. MaxSaves /\ access \in Access BY DEF Typed
<1>3. \E w \in Work : work' = [work EXCEPT ![h] = w]
  <2>1. CASE Login(h)
    <3>1. Enters("login", "record") \in Work
      <4>1. "login" \in Kinds /\ "record" \in Stages BY DEF Kinds, Stages
      <4>. QED BY <4>1, <1>2, JobType, Constants DEF Enters
    <3>. QED BY <2>1, <3>1 DEF Login, Starts
  <2>2. CASE Guarded(h)
    <3>1. Job("guarded", "guarded", None, None, None, access, 0, FALSE) \in Work
      <4>1. "guarded" \in Kinds /\ "guarded" \in Stages BY DEF Kinds, Stages
      <4>. QED BY <4>1, <1>2, JobType, Constants
    <3>. QED BY <2>2, <3>1 DEF Guarded, Starts
  <2>3. CASE forgotPassword(h)
    <3>1. Task("forgot", "spend") \in Work
      <4>1. "forgot" \in Kinds /\ "spend" \in Stages BY DEF Kinds, Stages
      <4>. QED BY <4>1, JobType, Constants DEF Task
    <3>. QED BY <2>3, <3>1 DEF forgotPassword, Starts
  <2>4. CASE Administer(h)
    <3>1. \A kind \in {"block", "unblock", "remove"} : Task(kind, "save") \in Work
      <4>1. SUFFICES ASSUME NEW kind \in {"block", "unblock", "remove"}
                     PROVE  Task(kind, "save") \in Work
        OBVIOUS
      <4>2. kind \in Kinds /\ "save" \in Stages BY DEF Kinds, Stages
      <4>. QED BY <4>2, JobType, Constants DEF Task
    <3>. QED BY <2>4, <3>1 DEF Administer, Starts
  <2>5. CASE Handshake(h)
    <3>1. Enters("socket", "join") \in Work
      <4>1. "socket" \in Kinds /\ "join" \in Stages BY DEF Kinds, Stages
      <4>. QED BY <4>1, <1>2, JobType, Constants DEF Enters
    <3>. QED BY <2>5, <3>1 DEF Handshake, Starts
  <2>6. ASSUME NEW t \in Tokens, Refresh(h, t)
        PROVE  \E w \in Work : work' = [work EXCEPT ![h] = w]
    <3>1. Presents(t, "account") \in Work
      <4>1. "refresh" \in Kinds /\ "account" \in Stages BY DEF Kinds, Stages
      <4>2. t \in Tokens \cup {None} OBVIOUS
      <4>. QED BY <4>1, <4>2, JobType, FieldTypes, Constants DEF Presents
    <3>. QED BY <2>6, <3>1 DEF Refresh, Starts
  <2>7. ASSUME NEW t \in Tokens, Reused(h, t)
        PROVE  \E w \in Work : work' = [work EXCEPT ![h] = w]
    <3>1. Job("refresh", "family", None, rows[t].family, None, "allowed", 0, FALSE) \in Work
      <4>1. "refresh" \in Kinds /\ "family" \in Stages BY DEF Kinds, Stages
      <4>. QED BY <4>1, JobType, FieldTypes, Constants
    <3>. QED BY <2>7, <3>1 DEF Reused, Starts
  <2>8. ASSUME NEW g \in Grants, resetPassword(h, g)
        PROVE  \E w \in Work : work' = [work EXCEPT ![h] = w]
    <3>1. Job("reset", "grant", None, None, g, access, 0, FALSE) \in Work
      <4>1. "reset" \in Kinds /\ "grant" \in Stages BY DEF Kinds, Stages
      <4>2. g \in Grants \cup {None} OBVIOUS
      <4>. QED BY <4>1, <4>2, <1>2, JobType, Constants
    <3>. QED BY <2>8, <3>1 DEF resetPassword, Starts
  <2>. QED BY <2>1, <2>2, <2>3, <2>4, <2>5, <2>6, <2>7, <2>8 DEF Begin
<1>4. UNCHANGED <<rows, grants, sockets, access, histories>>
  BY DEF Begin, Login, Guarded, forgotPassword, Administer, Handshake, Refresh, Reused,
         resetPassword
<1>. QED BY <1>1, <1>3, <1>4 DEF Typed, histories

LEMMA GoesTyped ==
  ASSUME Typed, NEW h \in Handlers, NEW stage \in Stages
  PROVE  /\ Goes(h, stage) => work' \in [Handlers -> Work]
         /\ Ends(h) => work' \in [Handlers -> Work]
<1>1. work[h] \in Work /\ work[h].kind \in Kinds BY DEF Typed, Work
<1>2. As(work[h], work[h].kind, stage) \in Work BY <1>1, AsType
<1>. QED BY <1>2, WorkTyped, Constants DEF Goes, Ends

LEMMA RecordsTyped ==
  ASSUME Typed, NEW h \in Handlers, NEW f \in Tokens \cup {None}, Records(h, f)
  PROVE  rows' \in [Tokens -> Row]
<1>1. PICK t \in Tokens :
        rows' = [rows EXCEPT ![t] =
          [state |-> "live", family |-> IF f = None THEN t ELSE f,
           since |-> work[h].era, late |-> work[h].late]]
  BY DEF Records
<1>2. "live" \in RowStates /\ (IF f = None THEN t ELSE f) \in Tokens \cup {None}
  BY DEF RowStates
<1>3. work[h].era \in 0 .. MaxSaves /\ work[h].late \in BOOLEAN BY FieldTypes
<1>. QED BY <1>1, <1>2, <1>3, RowType DEF Typed

LEMMA RevokeAllTyped ==
  ASSUME Typed, NEW h \in Handlers, NEW next \in Work, revokeAllForUser(h, next)
  PROVE  rows' \in [Tokens -> Row] /\ work' \in [Handlers -> Work]
<1>1. "ended" \in RowStates BY DEF RowStates
<1>2. \A t \in Tokens : rows[t] \in Row /\ Revoked(rows[t], "ended") \in Row
  BY <1>1, RevokedType DEF Typed
<1>3. \A g \in Handlers : work[g] \in Work /\ Overtaken(work[g]) \in Work
  BY OvertakenType DEF Typed
<1>. QED BY <1>2, <1>3 DEF revokeAllForUser

LEMMA TypedProceed ==
  ASSUME Typed, NEW h \in Handlers, Proceed(h)
  PROVE  Typed'
<1>. USE DEF Typed
<1>s. /\ "claim" \in Stages /\ "turn" \in Stages /\ "issue" \in Stages /\ "save" \in Stages
      /\ "drop" \in Stages /\ "end" \in Stages
  BY DEF Stages
<1>r. "rotated" \in RowStates /\ "ended" \in RowStates BY DEF RowStates
<1>k. \A kind \in {"change", "remove"} : kind \in Kinds BY DEF Kinds
<1>1. CASE RecordLogin(h)
  <2>1. rows' \in [Tokens -> Row] BY <1>1, RecordsTyped, Constants DEF RecordLogin
  <2>. QED BY <1>1, <2>1, <1>s, GoesTyped DEF RecordLogin, histories
<1>2. CASE revokeFamily(h)
  <2>1. \A t \in Tokens : rows[t] \in Row /\ Revoked(rows[t], "ended") \in Row
    BY <1>r, RevokedType
  <2>2. rows' \in [Tokens -> Row] BY <1>2, <2>1 DEF revokeFamily
  <2>. QED BY <1>2, <2>2, <1>s, GoesTyped DEF revokeFamily, histories
<1>3. CASE CheckAccount(h)
  BY <1>3, <1>s, GoesTyped DEF CheckAccount, Continues, histories
<1>4. CASE Claim(h)
  <2>1. CASE Ends(h) /\ UNCHANGED rows
    BY <1>4, <2>1, <1>s, GoesTyped DEF Claim, histories
  <2>2. CASE rows[work[h].token].state \in Unrevoked /\ Goes(h, "turn")
             /\ \E state \in {"rotated", "ended"} : Revoke(work[h].token, state)
    <3>1. rows' \in [Tokens -> Row]
      <4>1. PICK state \in {"rotated", "ended"} : Revoke(work[h].token, state) BY <2>2
      <4>2. CASE work[h].token \in Tokens BY <4>1, <4>2, <1>r, RevokeTyped
      <4>3. CASE work[h].token \notin Tokens BY <4>1, <4>3 DEF Revoke
      <4>. QED BY <4>2, <4>3
    <3>. QED BY <1>4, <2>2, <3>1, <1>s, GoesTyped DEF Claim, histories
  <2>. QED BY <1>4, <2>1, <2>2 DEF Claim, Unrevoked
<1>5. CASE RecordTurn(h)
  <2>1. rows' \in [Tokens -> Row]
    <3>1. work[h].family \in Tokens \cup {None} BY DEF Work
    <3>. QED BY <1>5, <3>1, RecordsTyped DEF RecordTurn
  <2>. QED BY <1>5, <2>1, <1>s, GoesTyped DEF RecordTurn, histories
<1>6. CASE LogoutAll(h)
  BY <1>6, RevokeAllTyped, Constants DEF LogoutAll, histories
<1>7. CASE GoesToSave(h)
  <2>1. PICK kind \in {"change", "remove"} :
          work' = [work EXCEPT ![h] = As(@, kind, "save")]
    BY <1>7 DEF GoesToSave
  <2>2. As(work[h], kind, "save") \in Work BY <1>s, <1>k, AsType
  <2>3. work' \in [Handlers -> Work] BY <2>1, <2>2, WorkTyped
  <2>. QED BY <1>7, <2>3 DEF GoesToSave, histories
<1>8. ASSUME NEW t \in Tokens, LogoutOne(h, t) \/ endSession(h, t) PROVE Typed'
  <2>1. Revoke(t, "ended") \/ UNCHANGED rows BY <1>8 DEF LogoutOne, endSession
  <2>2. rows' \in [Tokens -> Row] BY <2>1, <1>r, RevokeTyped
  <2>. QED BY <1>8, <2>2, <1>s, GoesTyped DEF LogoutOne, endSession, histories
<1>9. CASE spendAllForUser(h)
  <2>1. grants' \in [Grants -> GrantStates] BY <1>9 DEF spendAllForUser, GrantStates
  <2>. QED BY <1>9, <2>1, <1>s, GoesTyped DEF spendAllForUser, histories
<1>10. CASE createGrant(h)
  <2>1. grants' \in [Grants -> GrantStates] BY <1>10 DEF createGrant, GrantStates
  <2>. QED BY <1>10, <2>1, <1>s, GoesTyped DEF createGrant, histories
<1>11. CASE consume(h)
  <2>1. grants' \in [Grants -> GrantStates] BY <1>11 DEF consume, GrantStates
  <2>. QED BY <1>11, <2>1, <1>s, GoesTyped DEF consume, Continues, histories
<1>12. CASE Save(h)
  <2>1. era' \in 0 .. MaxSaves BY <1>12, SavesAssumption DEF Save
  <2>2. access' \in Access
    <3>1. work[h].copy \in Access BY DEF Work
    <3>. QED BY <1>12, <3>1 DEF Save, Saved, Access
  <2>3. resets' \in [Grants -> Nat]
    <3>1. CASE work[h].kind = "reset" /\ work[h].grant \in Grants BY <1>12, <3>1 DEF Save
    <3>2. CASE resets' = resets BY <3>2
    <3>3. CASE work[h].kind = "reset" /\ work[h].grant \notin Grants
      BY <1>12, <3>3 DEF Save
    <3>. QED BY <1>12, <3>1, <3>2, <3>3 DEF Save
  <2>4. Job(work[h].kind, "end", None, None, None, "allowed", era + 1, FALSE) \in Work
    <3>1. work[h].kind \in Kinds BY DEF Work
    <3>2. era + 1 \in 0 .. MaxSaves BY <1>12, <2>1 DEF Save
    <3>. QED BY <3>1, <3>2, <1>s, JobType, Constants
  <2>5. work' \in [Handlers -> Work] BY <1>12, <2>4, WorkTyped DEF Save
  <2>. QED BY <1>12, <2>1, <2>2, <2>3, <2>5 DEF Save
<1>13. CASE SaveUnblocked(h)
  <2>1. access' \in Access
    <3>1. work[h].copy \in Access BY DEF Work
    <3>. QED BY <1>13, <3>1 DEF SaveUnblocked, Saved, Access
  <2>. QED BY <1>13, <2>1, <1>s, GoesTyped DEF SaveUnblocked, histories
<1>14. CASE EndSessions(h)
  <2>1. As(work[h], work[h].kind, "drop") \in Work BY <1>s, AsType, FieldTypes DEF Work
  <2>2. rows' \in [Tokens -> Row] /\ work' \in [Handlers -> Work]
    <3>1. (IF work[h].kind \in {"block", "remove"}
           THEN As(work[h], work[h].kind, "drop") ELSE Idle) \in Work
      BY <2>1, Constants
    <3>. QED BY <1>14, <3>1, RevokeAllTyped DEF EndSessions
  <2>3. done' \in 0 .. MaxSaves
    <3>1. work[h].era \in 0 .. MaxSaves BY DEF Work
    <3>. QED BY <1>14, <3>1 DEF EndSessions, Later
  <2>. QED BY <1>14, <2>2, <2>3 DEF EndSessions
<1>15. CASE DropSockets(h)
  <2>1. barred' \in 0 .. MaxSaves
    <3>1. work[h].era \in 0 .. MaxSaves BY DEF Work
    <3>. QED BY <1>15, <3>1 DEF DropSockets, Later
  <2>2. work' \in [Handlers -> Work]
    <3>1. \A g \in Handlers : work[g] \in Work /\ Overtaken(work[g]) \in Work
      BY OvertakenType
    <3>. QED BY <1>15, <3>1, Constants DEF DropSockets
  <2>. QED BY <1>15, <2>1, <2>2 DEF DropSockets
<1>16. CASE Join(h)
  <2>1. sockets' \subseteq Socket
    <3>1. work[h].era \in 0 .. MaxSaves /\ work[h].late \in BOOLEAN BY DEF Work
    <3>2. [since |-> work[h].era, late |-> work[h].late] \in Socket BY <3>1 DEF Socket
    <3>. QED BY <1>16, <3>2 DEF Join
  <2>. QED BY <1>16, <2>1, <1>s, GoesTyped DEF Join, histories
<1>. QED
  BY <1>1, <1>2, <1>3, <1>4, <1>5, <1>6, <1>7, <1>8, <1>9, <1>10, <1>11, <1>12, <1>13,
     <1>14, <1>15, <1>16
  DEF Proceed

LEMMA TypedPass ==
  ASSUME Typed, Pass
  PROVE  Typed'
<1>. USE DEF Typed
<1>r. "ended" \in RowStates /\ "overdue" \in RowStates /\ "lapsed" \in RowStates
  BY DEF RowStates
<1>w. ASSUME NEW t \in Tokens, NEW state \in RowStates
      PROVE  [rows[t] EXCEPT !.state = state] \in Row
  BY DEF Row
<1>1. ASSUME NEW t \in Tokens, Expire(t) \/ GraceOver(t) PROVE Typed'
  <2>1. rows' \in [Tokens -> Row]
    <3>1. CASE Revoke(t, "ended") BY <3>1, <1>r, RevokeTyped
    <3>2. CASE \E state \in {"lapsed", "overdue"} :
                 rows' = [rows EXCEPT ![t] = [@ EXCEPT !.state = state]]
      BY <3>2, <1>r, <1>w
    <3>. QED BY <1>1, <3>1, <3>2 DEF Expire, GraceOver
  <2>. QED BY <1>1, <2>1 DEF Expire, GraceOver, histories
<1>2. ASSUME NEW g \in Grants, GrantExpires(g) PROVE Typed'
  <2>1. grants' \in [Grants -> GrantStates] BY <1>2 DEF GrantExpires, GrantStates
  <2>. QED BY <1>2, <2>1 DEF GrantExpires, histories
<1>3. CASE Prune
  <2>1. \A t \in Tokens : rows[t] \in Row /\ Revoked(rows[t], "ended") \in Row
    BY <1>r, RevokedType
  <2>2. rows' \in [Tokens -> Row] BY <1>3, <2>1 DEF Prune
  <2>3. grants' \in [Grants -> GrantStates] BY <1>3 DEF Prune, GrantStates
  <2>. QED BY <1>3, <2>2, <2>3 DEF Prune, histories
<1>4. CASE Disconnect BY <1>4 DEF Disconnect, histories
<1>. QED BY <1>1, <1>2, <1>3, <1>4 DEF Pass

LEMMA TypedStep == Typed /\ [SessionsNext]_sessionVars => Typed'
<1>. SUFFICES ASSUME Typed, [SessionsNext]_sessionVars PROVE Typed'
  OBVIOUS
<1>1. ASSUME NEW h \in Handlers, Stop(h) PROVE Typed'
  <2>1. "end" \in Stages BY DEF Stages
  <2>2. work' \in [Handlers -> Work] BY <1>1, <2>1, GoesTyped DEF Stop
  <2>. QED BY <1>1, <2>2 DEF Stop, Typed, histories
<1>2. CASE UNCHANGED sessionVars BY <1>2 DEF Typed, sessionVars
<1>. QED BY <1>1, <1>2, TypedBegin, TypedProceed, TypedPass DEF SessionsNext

-----------------------------------------------------------------------------
(* Families *)

(* A family's place is held by one unrevoked token or by one rotation that *)
(* has claimed a token and is to record the next.                          *)
HeldOnce(f) ==
  /\ \A t, u \in Tokens : InFamily(t, f) /\ InFamily(u, f) => t = u
  /\ \A h, g \in Handlers :
       At(h, "turn") /\ work[h].family = f /\ At(g, "turn") /\ work[g].family = f => h = g
  /\ \A t \in Tokens, h \in Handlers :
       ~(InFamily(t, f) /\ At(h, "turn") /\ work[h].family = f)

InStages == {"account", "family", "claim", "turn"}

(* A request that presents a token knows its family.                       *)
KnowsFamily(w) ==
  /\ w.stage \in InStages => w.family \in Tokens /\ rows[w.family].family = w.family
  /\ w.stage \in {"account", "claim"} =>
       /\ w.token \in Tokens /\ rows[w.token].family = w.family
       /\ rows[w.token].state # "none"

(* Every row's family is named by a row that is in it.                     *)
Rooted(t) ==
  /\ rows[t].family = None <=> rows[t].state = "none"
  /\ rows[t].state # "none" =>
       rows[t].family \in Tokens /\ rows[rows[t].family].family = rows[t].family

Families ==
  /\ \A t \in Tokens : Rooted(t)
  /\ \A h \in Handlers : KnowsFamily(work[h])
  /\ \A f \in Tokens : HeldOnce(f)

(* Most steps only revoke rows, or look on.                                *)
Shrinks ==
  \A t \in Tokens :
    /\ rows'[t].family = rows[t].family
    /\ rows'[t].state = "none" <=> rows[t].state = "none"
    /\ rows'[t].state \in Unrevoked => rows[t].state \in Unrevoked

(* Most steps of a request keep what it presents, or are about none.       *)
Calm(h) ==
  \/ work'[h].stage \notin InStages
  \/ /\ work'[h].family = work[h].family /\ work'[h].token = work[h].token
     /\ \/ work'[h].stage = work[h].stage
        \/ work[h].stage = "account" /\ work'[h].stage = "claim"

LEMMA FamiliesFrame ==
  ASSUME Families, Shrinks, \A h \in Handlers : Calm(h)
  PROVE  Families'
<1>1. ASSUME NEW t \in Tokens PROVE Rooted(t)'
  BY <1>1 DEF Families, Rooted, Shrinks
<1>2. ASSUME NEW h \in Handlers PROVE KnowsFamily(work[h])'
  <2>1. Calm(h) /\ KnowsFamily(work[h]) BY DEF Families
  <2>2. CASE work'[h].stage \notin InStages BY <2>2 DEF KnowsFamily, InStages
  <2>3. CASE /\ work'[h].family = work[h].family /\ work'[h].token = work[h].token
             /\ \/ work'[h].stage = work[h].stage
                \/ work[h].stage = "account" /\ work'[h].stage = "claim"
    BY <2>1, <2>3 DEF KnowsFamily, InStages, Shrinks
  <2>. QED BY <2>1, <2>2, <2>3 DEF Calm
<1>3. ASSUME NEW f \in Tokens PROVE HeldOnce(f)'
  <2>1. \A t \in Tokens : InFamily(t, f)' => InFamily(t, f) BY DEF Shrinks, InFamily
  <2>2. \A h \in Handlers :
          At(h, "turn")' /\ work'[h].family = f => At(h, "turn") /\ work[h].family = f
    BY DEF Calm, At, InStages
  <2>3. HeldOnce(f) BY DEF Families
  <2>. QED BY <2>1, <2>2, <2>3 DEF HeldOnce
<1>. QED BY <1>1, <1>2, <1>3 DEF Families

(* Few steps take a rotation from the place it has claimed.                *)
Steady(h) == At(h, "turn") => At(h, "turn")' /\ work'[h].family = work[h].family

Plain == Shrinks /\ \A h \in Handlers : Calm(h) /\ Steady(h)

LEMMA RevokeShrinks ==
  ASSUME Typed, NEW t \in Tokens, NEW state \in RowStates \ {"none", "live", "lapsed"},
         rows[t].state # "none", Revoke(t, state)
  PROVE  Shrinks
BY DEF Typed, Revoke, Revoked, Shrinks, Unrevoked, RowStates

LEMMA RevokeAllIsPlain ==
  ASSUME Typed, NEW h \in Handlers, NEW next, revokeAllForUser(h, next),
         next.stage \notin InStages, ~At(h, "turn")
  PROVE  Plain
<1>1. Shrinks BY DEF Typed, revokeAllForUser, Revoked, Shrinks, Unrevoked
<1>2. ASSUME NEW g \in Handlers PROVE Calm(g) /\ Steady(g)
  <2>1. CASE g = h BY <2>1 DEF Typed, revokeAllForUser, Calm, Steady
  <2>2. CASE g # h BY <2>2 DEF Typed, revokeAllForUser, Calm, Steady, At, Overtaken, Job
  <2>. QED BY <2>1, <2>2
<1>. QED BY <1>1, <1>2 DEF Plain

LEMMA LooksOn ==
  ASSUME Typed, UNCHANGED rows
  PROVE  Shrinks
BY DEF Shrinks

(* A request goes on to a stage that presents nothing, or ends.            *)
LEMMA GoesCalmly ==
  ASSUME Typed, NEW h \in Handlers, NEW w, w.stage \notin InStages,
         work' = [work EXCEPT ![h] = w]
  PROVE  \A g \in Handlers : Calm(g) /\ (~At(h, "turn") \/ g # h => Steady(g))
BY DEF Typed, Calm, Steady, At

LEMMA EndsCalmly ==
  ASSUME Typed, NEW h \in Handlers, Ends(h)
  PROVE  \A g \in Handlers : Calm(g) /\ (~At(h, "turn") \/ g # h => Steady(g))
<1>1. Idle.stage \notin InStages BY DEF Idle, Job, InStages
<1>. QED BY <1>1, GoesCalmly DEF Ends

LEMMA BeginsPlain ==
  ASSUME Typed, NEW h \in Handlers,
         \/ Login(h) \/ Guarded(h) \/ forgotPassword(h) \/ Administer(h) \/ Handshake(h)
         \/ \E g \in Grants : resetPassword(h, g)
  PROVE  Plain
<1>1. Shrinks
  BY LooksOn DEF Login, Guarded, forgotPassword, Administer, Handshake, resetPassword
<1>2. ~At(h, "turn")
  BY DEF Login, Guarded, forgotPassword, Administer, Handshake, resetPassword, Starts, At
<1>3. \E w : w.stage \notin InStages /\ work' = [work EXCEPT ![h] = w]
  <2>1. CASE Login(h) BY <2>1 DEF Login, Starts, Enters, Job, InStages
  <2>2. CASE Guarded(h) BY <2>2 DEF Guarded, Starts, Job, InStages
  <2>3. CASE forgotPassword(h) BY <2>3 DEF forgotPassword, Starts, Task, Job, InStages
  <2>4. CASE Administer(h)
    <3>1. PICK kind \in {"block", "unblock", "remove"} : Starts(h, Task(kind, "save"))
      BY <2>4 DEF Administer
    <3>. QED BY <3>1 DEF Starts, Task, Job, InStages
  <2>5. CASE Handshake(h) BY <2>5 DEF Handshake, Starts, Enters, Job, InStages
  <2>6. ASSUME NEW g \in Grants, resetPassword(h, g)
        PROVE  \E w : w.stage \notin InStages /\ work' = [work EXCEPT ![h] = w]
    BY <2>6 DEF resetPassword, Starts, Job, InStages
  <2>. QED BY <2>1, <2>2, <2>3, <2>4, <2>5, <2>6
<1>. QED BY <1>1, <1>2, <1>3, GoesCalmly DEF Plain

LEMMA ProceedsPlain ==
  ASSUME Typed, NEW h \in Handlers, Proceed(h),
         ~RecordLogin(h), ~Claim(h), ~RecordTurn(h)
  PROVE  Plain
<1>e. "ended" \in RowStates \ {"none", "live", "lapsed"} BY DEF RowStates
<1>g. ASSUME NEW stage \in Stages \ InStages, Goes(h, stage), ~At(h, "turn")
      PROVE  \A g \in Handlers : Calm(g) /\ Steady(g)
  <2>1. As(work[h], work[h].kind, stage).stage \notin InStages BY <1>g DEF As, Job
  <2>. QED BY <1>g, <2>1, GoesCalmly DEF Goes
<1>s. /\ "issue" \in Stages \ InStages /\ "save" \in Stages \ InStages
      /\ "drop" \in Stages \ InStages
  BY DEF Stages, InStages
<1>i. Idle.stage \notin InStages BY DEF Idle, Job, InStages
<1>1. CASE revokeFamily(h)
  <2>1. Shrinks BY <1>1 DEF Typed, revokeFamily, Revoked, Shrinks, Unrevoked, InFamily
  <2>. QED BY <1>1, <2>1, EndsCalmly DEF revokeFamily, At, Plain
<1>2. CASE CheckAccount(h)
  <2>1. CASE Ends(h) BY <1>2, <2>1, LooksOn, EndsCalmly DEF CheckAccount, At, Plain
  <2>2. CASE Goes(h, "claim")
    <3>1. \A g \in Handlers : Calm(g) /\ Steady(g)
      BY <1>2, <2>2 DEF CheckAccount, Goes, As, Job, Calm, Steady, At, Typed
    <3>. QED BY <1>2, <3>1, LooksOn DEF CheckAccount, Plain
  <2>. QED BY <1>2, <2>1, <2>2 DEF CheckAccount, Continues
<1>3. CASE LogoutAll(h)
  BY <1>3, <1>i, RevokeAllIsPlain DEF LogoutAll, At
<1>4. CASE GoesToSave(h)
  <2>1. PICK kind \in {"change", "remove"} :
          work' = [work EXCEPT ![h] = As(@, kind, "save")]
    BY <1>4 DEF GoesToSave
  <2>2. As(work[h], kind, "save").stage \notin InStages BY DEF As, Job, InStages
  <2>. QED BY <1>4, <2>1, <2>2, LooksOn, GoesCalmly DEF GoesToSave, At, Plain
<1>5. ASSUME NEW t \in Tokens, LogoutOne(h, t) \/ endSession(h, t) PROVE Plain
  <2>1. Ends(h) /\ ~At(h, "turn") BY <1>5 DEF LogoutOne, endSession, At
  <2>2. CASE rows[t].state # "none" /\ Revoke(t, "ended")
    BY <2>1, <2>2, <1>e, RevokeShrinks, EndsCalmly DEF Plain
  <2>3. CASE UNCHANGED rows BY <2>1, <2>3, LooksOn, EndsCalmly DEF Plain
  <2>. QED BY <1>5, <2>2, <2>3 DEF LogoutOne, endSession, Unrevoked
<1>6. CASE spendAllForUser(h)
  BY <1>6, <1>g, <1>s, LooksOn DEF spendAllForUser, At, Plain
<1>7. CASE createGrant(h)
  BY <1>7, LooksOn, EndsCalmly DEF createGrant, At, Plain
<1>8. CASE consume(h)
  BY <1>8, <1>g, <1>s, LooksOn, EndsCalmly DEF consume, Continues, At, Plain
<1>9. CASE Save(h)
  <2>1. Job(work[h].kind, "end", None, None, None, "allowed", era + 1, FALSE).stage
          \notin InStages
    BY DEF Job, InStages
  <2>. QED BY <1>9, <2>1, LooksOn, GoesCalmly DEF Save, At, Plain
<1>10. CASE SaveUnblocked(h)
  BY <1>10, LooksOn, EndsCalmly DEF SaveUnblocked, At, Plain
<1>11. CASE EndSessions(h)
  <2>1. (IF work[h].kind \in {"block", "remove"}
         THEN As(work[h], work[h].kind, "drop") ELSE Idle).stage \notin InStages
    BY <1>i DEF As, Job, InStages
  <2>. QED BY <1>11, <2>1, RevokeAllIsPlain DEF EndSessions, At
<1>12. CASE DropSockets(h)
  <2>1. \A g \in Handlers : Calm(g) /\ Steady(g)
    <3>1. ASSUME NEW g \in Handlers PROVE Calm(g) /\ Steady(g)
      <4>1. CASE g = h BY <1>12, <4>1, <1>i DEF DropSockets, Typed, Calm, Steady, At
      <4>2. CASE g # h
        BY <1>12, <4>2 DEF DropSockets, Typed, Calm, Steady, At, Overtaken, Job
      <4>. QED BY <4>1, <4>2
    <3>. QED BY <3>1
  <2>. QED BY <1>12, <2>1, LooksOn DEF DropSockets, Plain
<1>13. CASE Join(h)
  BY <1>13, LooksOn, EndsCalmly DEF Join, At, Plain
<1>. QED
  BY <1>1, <1>2, <1>3, <1>4, <1>5, <1>6, <1>7, <1>8, <1>9, <1>10, <1>11, <1>12, <1>13
  DEF Proceed

LEMMA PassesPlain ==
  ASSUME Typed, Pass \/ UNCHANGED sessionVars
  PROVE  Plain
<1>1. \A g \in Handlers : Calm(g) /\ Steady(g)
  <2>1. UNCHANGED work
    BY DEF Pass, Expire, GraceOver, GrantExpires, Prune, Disconnect, sessionVars
  <2>. QED BY <2>1 DEF Calm, Steady, At
<1>2. Shrinks
  <2>1. ASSUME NEW t \in Tokens, Expire(t) \/ GraceOver(t) PROVE Shrinks
    <3>1. CASE Expire(t)
      BY <3>1 DEF Expire, Revoke, Revoked, Typed, Shrinks, Unrevoked, Row
    <3>2. CASE GraceOver(t) BY <3>2 DEF GraceOver, Typed, Shrinks, Unrevoked, Row
    <3>. QED BY <2>1, <3>1, <3>2
  <2>2. CASE Prune BY <2>2 DEF Prune, Revoked, Typed, Shrinks, Unrevoked
  <2>3. CASE UNCHANGED rows BY <2>3, LooksOn
  <2>. QED BY <2>1, <2>2, <2>3 DEF Pass, GrantExpires, Disconnect, sessionVars
<1>. QED BY <1>1, <1>2 DEF Plain

-----------------------------------------------------------------------------
(* The steps that are not plain *)

(* A request starts with a token that is in its family. *)
LEMMA FamiliesPresent ==
  ASSUME Typed, Families, NEW h \in Handlers, NEW w, UNCHANGED rows,
         work' = [work EXCEPT ![h] = w], KnowsFamily(w), w.stage # "turn"
  PROVE  Families'
<1>1. \A t \in Tokens : Rooted(t)' BY DEF Families, Rooted
<1>2. ASSUME NEW g \in Handlers PROVE KnowsFamily(work[g])'
  <2>1. work'[g] = w \/ work'[g] = work[g] BY DEF Typed
  <2>. QED BY <2>1 DEF Families, KnowsFamily
<1>3. ASSUME NEW f \in Tokens PROVE HeldOnce(f)'
  <2>1. \A t \in Tokens : InFamily(t, f)' <=> InFamily(t, f) BY DEF InFamily
  <2>2. \A g \in Handlers :
          At(g, "turn")' /\ work'[g].family = f => At(g, "turn") /\ work[g].family = f
    BY DEF Typed, At
  <2>3. HeldOnce(f) BY DEF Families
  <2>. QED BY <2>1, <2>2, <2>3 DEF HeldOnce
<1>. QED BY <1>1, <1>2, <1>3 DEF Families

LEMMA FamiliesRefresh ==
  ASSUME Typed, Families, NEW h \in Handlers, NEW t \in Tokens,
         Refresh(h, t) \/ Reused(h, t)
  PROVE  Families'
<1>1. rows[t].state # "none" BY DEF Refresh, Reused
<1>2. rows[t].family \in Tokens /\ rows[rows[t].family].family = rows[t].family
  BY <1>1 DEF Families, Rooted
<1>3. CASE Refresh(h, t)
  <2>1. KnowsFamily(Presents(t, "account")) /\ Presents(t, "account").stage # "turn"
    BY <1>1, <1>2 DEF KnowsFamily, Presents, Job
  <2>. QED BY <1>3, <2>1, FamiliesPresent DEF Refresh, Starts
<1>4. CASE Reused(h, t)
  <2>. DEFINE w == Job("refresh", "family", None, rows[t].family, None, "allowed", 0, FALSE)
  <2>1. KnowsFamily(w) /\ w.stage # "turn" BY <1>2 DEF KnowsFamily, Job
  <2>2. UNCHANGED rows /\ work' = [work EXCEPT ![h] = w] BY <1>4 DEF Reused, Starts
  <2>. HIDE DEF w
  <2>. QED BY <2>1, <2>2, FamiliesPresent
<1>. QED BY <1>3, <1>4

(* A row is recorded in a family that nothing holds: a new one, or the one *)
(* whose place the request has claimed.                                    *)
LEMMA FamiliesRecord ==
  ASSUME Typed, Families, NEW h \in Handlers, NEW f \in Tokens, NEW t \in Tokens,
         rows[t].state = "none",
         rows'[t].state = "live" /\ rows'[t].family = f,
         \A u \in Tokens \ {t} : rows'[u] = rows[u],
         f = t \/ rows[f].family = f,
         \A u \in Tokens : ~InFamily(u, f),
         \A g \in Handlers \ {h} : ~(At(g, "turn") /\ work[g].family = f),
         Ends(h)
  PROVE  Families'
<1>0. f # None /\ rows[t].family = None BY NoneAssumption DEF Families, Rooted
<1>1. ASSUME NEW u \in Tokens PROVE Rooted(u)'
  <2>1. CASE u = t
    <3>1. rows'[f].family = f
      <4>1. CASE f = t BY <4>1
      <4>2. CASE f # t BY <4>2
      <4>. QED BY <4>1, <4>2
    <3>. QED BY <2>1, <3>1, <1>0 DEF Rooted
  <2>2. CASE u # t
    <3>1. rows'[u] = rows[u] /\ Rooted(u) BY <2>2 DEF Families
    <3>2. rows[u].state # "none" => rows[u].family # t
      BY <3>1, <1>0, NoneAssumption DEF Rooted
    <3>. QED BY <3>1, <3>2 DEF Rooted
  <2>. QED BY <2>1, <2>2
<1>2. ASSUME NEW g \in Handlers PROVE KnowsFamily(work[g])'
  <2>1. CASE g = h BY <2>1 DEF Ends, Idle, Job, Typed, KnowsFamily, InStages
  <2>2. CASE g # h
    <3>1. work'[g] = work[g] /\ KnowsFamily(work[g]) BY <2>2 DEF Ends, Typed, Families
    <3>2. work[g].stage \in InStages => work[g].family # t
      BY <3>1, <1>0, NoneAssumption DEF KnowsFamily
    <3>3. work[g].stage \in {"account", "claim"} => work[g].token # t
      BY <3>1 DEF KnowsFamily
    <3>. QED BY <3>1, <3>2, <3>3 DEF KnowsFamily
  <2>. QED BY <2>1, <2>2
<1>3. ASSUME NEW e \in Tokens PROVE HeldOnce(e)'
  <2>1. \A g \in Handlers :
          At(g, "turn")' /\ work'[g].family = e =>
            g # h /\ At(g, "turn") /\ work[g].family = e
    BY DEF Ends, Idle, Job, Typed, At
  <2>2. HeldOnce(e) BY DEF Families
  <2>3. CASE e = f
    <3>1. \A u \in Tokens : InFamily(u, e)' => u = t BY <2>3 DEF InFamily
    <3>. QED BY <2>1, <2>3, <3>1 DEF HeldOnce
  <2>4. CASE e # f
    <3>1. \A u \in Tokens : InFamily(u, e)' => InFamily(u, e) BY <2>4 DEF InFamily
    <3>. QED BY <2>1, <2>2, <3>1 DEF HeldOnce
  <2>. QED BY <2>3, <2>4
<1>. QED BY <1>1, <1>2, <1>3 DEF Families

(* What Records does. *)
LEMMA RecordsRow ==
  ASSUME Typed, NEW h \in Handlers, NEW f \in Tokens \cup {None}, Records(h, f)
  PROVE  \E t \in Tokens :
           /\ rows[t].state = "none"
           /\ rows'[t].state = "live" /\ rows'[t].family = IF f = None THEN t ELSE f
           /\ rows'[t].since = work[h].era /\ rows'[t].late = work[h].late
           /\ \A u \in Tokens \ {t} : rows'[u] = rows[u]
BY DEF Records, Typed

(* A family that is not there holds nothing. *)
LEMMA UnusedFamily ==
  ASSUME Families, NEW t \in Tokens, rows[t].state = "none"
  PROVE  /\ \A u \in Tokens : ~InFamily(u, t)
         /\ \A g \in Handlers : ~(At(g, "turn") /\ work[g].family = t)
<1>1. rows[t].family = None /\ None # t BY NoneAssumption DEF Families, Rooted
<1>2. ASSUME NEW u \in Tokens, InFamily(u, t) PROVE FALSE
  BY <1>1, <1>2 DEF InFamily, Unrevoked, Families, Rooted
<1>3. ASSUME NEW g \in Handlers, At(g, "turn"), work[g].family = t PROVE FALSE
  BY <1>1, <1>3 DEF At, Families, KnowsFamily, InStages
<1>. QED BY <1>2, <1>3

(* A claimed place is held by the rotation that claimed it alone. *)
LEMMA ClaimedPlace ==
  ASSUME Families, NEW h \in Handlers, At(h, "turn")
  PROVE  /\ work[h].family \in Tokens /\ rows[work[h].family].family = work[h].family
         /\ \A u \in Tokens : ~InFamily(u, work[h].family)
         /\ \A g \in Handlers \ {h} : ~(At(g, "turn") /\ work[g].family = work[h].family)
<1>1. work[h].family \in Tokens /\ rows[work[h].family].family = work[h].family
  BY DEF Families, KnowsFamily, InStages, At
<1>2. HeldOnce(work[h].family) BY <1>1 DEF Families
<1>. QED BY <1>1, <1>2 DEF HeldOnce

LEMMA FamiliesRecordLogin ==
  ASSUME Typed, Families, NEW h \in Handlers, RecordLogin(h)
  PROVE  Families'
<1>1. PICK t \in Tokens :
        /\ rows[t].state = "none"
        /\ rows'[t].state = "live" /\ rows'[t].family = t
        /\ \A u \in Tokens \ {t} : rows'[u] = rows[u]
  BY RecordsRow DEF RecordLogin
<1>. QED BY <1>1, UnusedFamily, FamiliesRecord DEF RecordLogin

LEMMA FamiliesRecordTurn ==
  ASSUME Typed, Families, NEW h \in Handlers, RecordTurn(h)
  PROVE  Families'
<1>0. At(h, "turn") /\ Ends(h) BY DEF RecordTurn
<1>1. work[h].family \in Tokens /\ work[h].family # None
  BY <1>0, ClaimedPlace, NoneAssumption
<1>2. PICK t \in Tokens :
        /\ rows[t].state = "none"
        /\ rows'[t].state = "live" /\ rows'[t].family = work[h].family
        /\ \A u \in Tokens \ {t} : rows'[u] = rows[u]
  <2>1. work[h].family \in Tokens \cup {None} /\ Records(h, work[h].family)
    BY <1>1 DEF RecordTurn
  <2>. QED BY <1>1, <2>1, RecordsRow
<1>. QED BY <1>0, <1>1, <1>2, ClaimedPlace, FamiliesRecord

(* A claim takes the family's one token and puts a rotation in its place,  *)
(* or comes too late and ends.                                             *)
LEMMA ClaimTakes ==
  ASSUME Typed, Families, NEW h \in Handlers, Claim(h)
  PROVE  \/ UNCHANGED rows /\ Ends(h)
         \/ /\ work[h].token \in Tokens /\ work[h].family \in Tokens
            /\ InFamily(work[h].token, work[h].family)
            /\ \E state \in {"rotated", "ended"} : Revoke(work[h].token, state)
            /\ Goes(h, "turn")
<1>1. KnowsFamily(work[h]) /\ At(h, "claim") BY DEF Families, Claim
<1>2. /\ work[h].token \in Tokens /\ work[h].family \in Tokens
      /\ rows[work[h].token].family = work[h].family
  BY <1>1 DEF KnowsFamily, At, InStages
<1>. QED BY <1>2 DEF Claim, InFamily, Unrevoked

LEMMA FamiliesClaim ==
  ASSUME Typed, Families, NEW h \in Handlers, Claim(h)
  PROVE  Families'
<1>1. CASE UNCHANGED rows /\ Ends(h)
  BY <1>1, LooksOn, EndsCalmly, FamiliesFrame
<1>2. ASSUME work[h].token \in Tokens, work[h].family \in Tokens,
             InFamily(work[h].token, work[h].family),
             NEW state \in {"rotated", "ended"}, Revoke(work[h].token, state),
             Goes(h, "turn")
      PROVE  Families'
  <2>1. PICK t \in Tokens, f \in Tokens :
          t = work[h].token /\ f = work[h].family BY <1>2
  <2>2. Shrinks
    <3>1. state \in RowStates \ {"none", "live", "lapsed"} BY DEF RowStates
    <3>2. rows[t].state # "none" BY <1>2, <2>1 DEF InFamily, Unrevoked
    <3>. QED BY <1>2, <2>1, <3>1, <3>2, RevokeShrinks
  <2>3. /\ At(h, "turn")' /\ work'[h].family = f
        /\ \A g \in Handlers \ {h} : work'[g] = work[g]
    BY <1>2, <2>1 DEF Goes, As, Job, At, Typed
  <2>4. \A u \in Tokens : Rooted(u)' BY <2>2 DEF Families, Rooted, Shrinks
  <2>5. ASSUME NEW g \in Handlers PROVE KnowsFamily(work[g])'
    <3>1. CASE g = h
      <4>1. KnowsFamily(work[h]) /\ rows[f].family = f
        BY <1>2, <2>1 DEF Families, InFamily, Unrevoked, Rooted
      <4>. QED BY <2>2, <2>3, <3>1, <4>1 DEF KnowsFamily, At, Shrinks
    <3>2. CASE g # h
      <4>1. work'[g] = work[g] /\ KnowsFamily(work[g]) BY <2>3, <3>2 DEF Families
      <4>. QED BY <2>2, <4>1 DEF KnowsFamily, Shrinks, InStages
    <3>. QED BY <3>1, <3>2
  <2>6. ASSUME NEW e \in Tokens PROVE HeldOnce(e)'
    <3>1. \A u \in Tokens : InFamily(u, e)' => InFamily(u, e) BY <2>2 DEF Shrinks, InFamily
    <3>2. HeldOnce(e) BY DEF Families
    <3>3. CASE e # f
      <4>1. \A g \in Handlers :
              At(g, "turn")' /\ work'[g].family = e => At(g, "turn") /\ work[g].family = e
        BY <2>3, <3>3 DEF At
      <4>. QED BY <3>1, <3>2, <4>1 DEF HeldOnce
    <3>4. CASE e = f
      <4>0. InFamily(t, e) /\ t = work[h].token BY <1>2, <2>1, <3>4
      <4>1. \A u \in Tokens : ~InFamily(u, e)'
        <5>1. ~InFamily(t, e)'
          BY <1>2, <2>1 DEF Revoke, Revoked, Typed, InFamily, Unrevoked
        <5>. QED BY <3>1, <3>2, <4>0, <5>1 DEF HeldOnce
      <4>2. \A g \in Handlers : At(g, "turn")' /\ work'[g].family = e => g = h
        <5>1. SUFFICES ASSUME NEW g \in Handlers, g # h, At(g, "turn")', work'[g].family = e
                       PROVE  FALSE
          OBVIOUS
        <5>2. At(g, "turn") /\ work[g].family = e BY <2>3, <5>1 DEF At
        <5>. QED BY <3>2, <4>0, <5>2 DEF HeldOnce
      <4>. QED BY <4>1, <4>2 DEF HeldOnce
    <3>. QED BY <3>3, <3>4
  <2>. QED BY <2>4, <2>5, <2>6 DEF Families
<1>. QED BY <1>1, <1>2, ClaimTakes

-----------------------------------------------------------------------------
LEMMA FamiliesInit == SessionsInit => Families
<1>. SUFFICES ASSUME SessionsInit PROVE Families
  OBVIOUS
<1>1. \A t \in Tokens : rows[t].state = "none" /\ rows[t].family = None
  BY DEF SessionsInit, NoRow
<1>2. \A h \in Handlers : work[h].stage = "idle" BY DEF SessionsInit, Idle, Job
<1>. QED
  BY <1>1, <1>2 DEF Families, Rooted, KnowsFamily, HeldOnce, InFamily, Unrevoked, At, InStages

LEMMA FamiliesStep == Typed /\ Families /\ [SessionsNext]_sessionVars => Families'
<1>. SUFFICES ASSUME Typed, Families, [SessionsNext]_sessionVars PROVE Families'
  OBVIOUS
<1>p. Plain => Families' BY FamiliesFrame DEF Plain
<1>1. ASSUME NEW h \in Handlers, Begin(h) PROVE Families'
  <2>1. CASE \E t \in Tokens : Refresh(h, t) \/ Reused(h, t) BY <2>1, FamiliesRefresh
  <2>2. CASE \/ Login(h) \/ Guarded(h) \/ forgotPassword(h) \/ Administer(h) \/ Handshake(h)
             \/ \E g \in Grants : resetPassword(h, g)
    BY <2>2, BeginsPlain, <1>p
  <2>. QED BY <1>1, <2>1, <2>2 DEF Begin
<1>2. ASSUME NEW h \in Handlers, Proceed(h) PROVE Families'
  BY <1>2, <1>p, ProceedsPlain, FamiliesRecordLogin, FamiliesRecordTurn, FamiliesClaim
<1>3. ASSUME NEW h \in Handlers, Stop(h) PROVE Families'
  BY <1>3, LooksOn, EndsCalmly, FamiliesFrame DEF Stop
<1>4. CASE Pass \/ UNCHANGED sessionVars BY <1>4, <1>p, PassesPlain
<1>. QED BY <1>1, <1>2, <1>3, <1>4 DEF SessionsNext

-----------------------------------------------------------------------------
(* Devices *)

Unrevokeds(f) == \E t \in Tokens : InFamily(t, f)
Turning(f) == \E h \in Handlers : At(h, "turn") /\ work[h].family = f
Begun(f) == rows[f].family = f

LEMMA DeviceIs ==
  ASSUME NEW f \in Tokens
  PROVE  DeviceOf(f) =
           IF Unrevokeds(f) THEN "in" ELSE IF Turning(f) THEN "turning"
           ELSE IF Begun(f) THEN "out" ELSE "unused"
BY DEF DeviceOf, Unrevokeds, Turning, Begun

LEMMA DeviceIsNext ==
  ASSUME NEW f \in Tokens
  PROVE  DeviceOf(f)' =
           IF Unrevokeds(f)' THEN "in" ELSE IF Turning(f)' THEN "turning"
           ELSE IF Begun(f)' THEN "out" ELSE "unused"
BY DEF DeviceOf, Unrevokeds, Turning, Begun

(* Every family that is held has begun, and is held once. *)
LEMMA HeldHasBegun ==
  ASSUME Families, NEW f \in Tokens
  PROVE  /\ Unrevokeds(f) \/ Turning(f) => Begun(f)
         /\ ~(Unrevokeds(f) /\ Turning(f))
<1>1. Unrevokeds(f) => Begun(f)
  BY NoneAssumption DEF Families, Unrevokeds, Begun, InFamily, Rooted, Unrevoked
<1>2. Turning(f) => Begun(f)
  BY DEF Families, Turning, Begun, KnowsFamily, At, InStages
<1>3. HeldOnce(f) BY DEF Families
<1>. QED BY <1>1, <1>2, <1>3 DEF HeldOnce, Unrevokeds, Turning

shown == [f \in Tokens |-> DeviceOf(f)]

LEMMA ShownNext == shown' = [f \in Tokens |-> DeviceOf(f)']
BY DEF shown

(* One device moves, and the others stay. *)
LEMMA OneMoves ==
  ASSUME NEW f \in Tokens, \A e \in Tokens \ {f} : DeviceOf(e)' = DeviceOf(e)
  PROVE  shown' = [shown EXCEPT ![f] = DeviceOf(f)']
BY ShownNext DEF shown

LEMMA SameDevice ==
  ASSUME NEW e \in Tokens, Unrevokeds(e)' <=> Unrevokeds(e), Turning(e)' <=> Turning(e),
         Begun(e)' <=> Begun(e)
  PROVE  DeviceOf(e)' = DeviceOf(e)
BY DeviceIs, DeviceIsNext

LEMMA PlainSignsOut ==
  ASSUME Typed, Families, Plain
  PROVE  [Shown!Next]_shown
<1>1. ASSUME NEW f \in Tokens
      PROVE  \/ DeviceOf(f)' = DeviceOf(f)
             \/ DeviceOf(f) = "in" /\ DeviceOf(f)' = "out"
  <2>1. Unrevokeds(f)' => Unrevokeds(f) BY DEF Plain, Shrinks, Unrevokeds, InFamily
  <2>2. Turning(f)' <=> Turning(f)
    <3>1. ASSUME NEW h \in Handlers
          PROVE  (At(h, "turn") /\ work[h].family = f)' <=> At(h, "turn") /\ work[h].family = f
      BY DEF Plain, Calm, Steady, At, InStages
    <3>. QED BY <3>1 DEF Turning
  <2>3. Begun(f)' <=> Begun(f) BY DEF Plain, Shrinks, Begun
  <2>. QED BY <2>1, <2>2, <2>3, DeviceIs, DeviceIsNext, HeldHasBegun
<1>. DEFINE D == {f \in Tokens : DeviceOf(f) = "in" /\ DeviceOf(f)' = "out"}
<1>2. D \in SUBSET {f \in Tokens : shown[f] = "in"} BY DEF shown
<1>3. shown' = [f \in Tokens |-> IF f \in D THEN "out" ELSE shown[f]]
  BY <1>1, ShownNext DEF shown
<1>. HIDE DEF D
<1>4. Shown!SignOut(D) BY <1>3 DEF Shown!SignOut, shown
<1>. QED BY <1>2, <1>4 DEF Shown!Next, shown

LEMMA SignInShown ==
  ASSUME Typed, Families, NEW h \in Handlers, RecordLogin(h)
  PROVE  Shown!Next
<1>1. PICK t \in Tokens :
        /\ rows[t].state = "none"
        /\ rows'[t].state = "live" /\ rows'[t].family = t
        /\ \A u \in Tokens \ {t} : rows'[u] = rows[u]
  BY RecordsRow DEF RecordLogin
<1>2. ~Unrevokeds(t) /\ ~Turning(t) BY <1>1, UnusedFamily DEF Unrevokeds, Turning
<1>3. ~Begun(t) BY <1>1, NoneAssumption DEF Families, Rooted, Begun
<1>4. Unrevokeds(t)' BY <1>1 DEF Unrevokeds, InFamily, Unrevoked
<1>5. DeviceOf(t) = "unused" /\ DeviceOf(t)' = "in"
  BY <1>2, <1>3, <1>4, DeviceIs, DeviceIsNext
<1>6. ASSUME NEW e \in Tokens \ {t} PROVE DeviceOf(e)' = DeviceOf(e)
  <2>1. \A u \in Tokens : InFamily(u, e)' <=> InFamily(u, e)
    BY <1>1 DEF InFamily, Unrevoked
  <2>2. \A g \in Handlers :
          (At(g, "turn") /\ work[g].family = e)' <=> At(g, "turn") /\ work[g].family = e
    BY DEF RecordLogin, Ends, Idle, Job, At, Typed
  <2>3. (Unrevokeds(e)' <=> Unrevokeds(e)) /\ (Turning(e)' <=> Turning(e))
    BY <2>1, <2>2 DEF Unrevokeds, Turning
  <2>4. Begun(e)' <=> Begun(e) BY <1>1 DEF Begun
  <2>. QED BY <2>3, <2>4, SameDevice
<1>7. Shown!SignIn(t) BY <1>5, <1>6, OneMoves DEF Shown!SignIn, Shown!Moves, shown
<1>. QED BY <1>7 DEF Shown!Next

LEMMA TurnShown ==
  ASSUME Typed, Families, NEW h \in Handlers, Claim(h)
  PROVE  [Shown!Next]_shown
<1>1. CASE UNCHANGED rows /\ Ends(h)
  <2>1. ~At(h, "turn") BY DEF Claim, At
  <2>. QED BY <1>1, <2>1, LooksOn, EndsCalmly, PlainSignsOut DEF Plain
<1>2. ASSUME work[h].token \in Tokens, work[h].family \in Tokens,
             InFamily(work[h].token, work[h].family),
             NEW state \in {"rotated", "ended"}, Revoke(work[h].token, state),
             Goes(h, "turn")
      PROVE  Shown!Next
  <2>1. PICK t \in Tokens, f \in Tokens : t = work[h].token /\ f = work[h].family
    BY <1>2
  <2>2. /\ rows'[t].family = rows[t].family /\ rows'[t].state \notin Unrevoked
        /\ \A u \in Tokens \ {t} : rows'[u] = rows[u]
    BY <1>2, <2>1 DEF Revoke, Revoked, Typed, Unrevoked
  <2>3. /\ At(h, "turn")' /\ work'[h].family = f /\ ~At(h, "turn")
        /\ \A g \in Handlers \ {h} : work'[g] = work[g]
    BY <1>2, <2>1 DEF Goes, As, Job, At, Typed, Claim
  <2>4. Unrevokeds(f) BY <1>2, <2>1 DEF Unrevokeds
  <2>5. ~Unrevokeds(f)'
    <3>1. HeldOnce(f) /\ InFamily(t, f) BY <1>2, <2>1 DEF Families
    <3>. QED BY <2>2, <3>1 DEF Unrevokeds, HeldOnce, InFamily
  <2>6. Turning(f)' BY <2>3 DEF Turning
  <2>7. DeviceOf(f) = "in" /\ DeviceOf(f)' = "turning"
    BY <2>4, <2>5, <2>6, DeviceIs, DeviceIsNext
  <2>8. ASSUME NEW e \in Tokens \ {f} PROVE DeviceOf(e)' = DeviceOf(e)
    <3>1. rows[t].family = f BY <1>2, <2>1 DEF InFamily
    <3>2. \A u \in Tokens : InFamily(u, e)' <=> InFamily(u, e)
      BY <2>2, <3>1 DEF InFamily
    <3>3. \A g \in Handlers :
            (At(g, "turn") /\ work[g].family = e)' <=> At(g, "turn") /\ work[g].family = e
      BY <2>3 DEF At
    <3>4. (Unrevokeds(e)' <=> Unrevokeds(e)) /\ (Turning(e)' <=> Turning(e))
      BY <3>2, <3>3 DEF Unrevokeds, Turning
    <3>5. Begun(e)' <=> Begun(e) BY <2>2 DEF Begun
    <3>. QED BY <3>4, <3>5, SameDevice
  <2>9. Shown!Turn(f) BY <2>7, <2>8, OneMoves DEF Shown!Turn, Shown!Moves, shown
  <2>. QED BY <2>9 DEF Shown!Next
<1>. QED BY <1>1, <1>2, ClaimTakes

LEMMA TurnedShown ==
  ASSUME Typed, Families, NEW h \in Handlers, RecordTurn(h)
  PROVE  Shown!Next
<1>0. At(h, "turn") /\ Ends(h) BY DEF RecordTurn
<1>1. PICK f \in Tokens : f = work[h].family /\ f # None
  BY <1>0, ClaimedPlace, NoneAssumption
<1>2. PICK t \in Tokens :
        /\ rows[t].state = "none"
        /\ rows'[t].state = "live" /\ rows'[t].family = f
        /\ \A u \in Tokens \ {t} : rows'[u] = rows[u]
  <2>1. f \in Tokens \cup {None} /\ Records(h, f) BY <1>1 DEF RecordTurn
  <2>. QED BY <1>1, <2>1, RecordsRow
<1>3. rows[t].family = None /\ f # t
  BY <1>0, <1>1, <1>2, ClaimedPlace, NoneAssumption DEF Families, Rooted
<1>4. ~Unrevokeds(f) /\ Turning(f) BY <1>0, <1>1, ClaimedPlace DEF Unrevokeds, Turning
<1>5. Unrevokeds(f)' BY <1>2 DEF Unrevokeds, InFamily, Unrevoked
<1>6. DeviceOf(f) = "turning" /\ DeviceOf(f)' = "in"
  BY <1>4, <1>5, DeviceIs, DeviceIsNext
<1>7. ASSUME NEW e \in Tokens \ {f} PROVE DeviceOf(e)' = DeviceOf(e)
  <2>1. \A u \in Tokens : InFamily(u, e)' <=> InFamily(u, e)
    BY <1>2 DEF InFamily, Unrevoked
  <2>2. \A g \in Handlers :
          (At(g, "turn") /\ work[g].family = e)' <=> At(g, "turn") /\ work[g].family = e
    BY <1>0, <1>1 DEF Ends, Idle, Job, At, Typed
  <2>3. (Unrevokeds(e)' <=> Unrevokeds(e)) /\ (Turning(e)' <=> Turning(e))
    BY <2>1, <2>2 DEF Unrevokeds, Turning
  <2>4. Begun(e)' <=> Begun(e)
    <3>1. CASE e = t BY <1>2, <1>3, <3>1, NoneAssumption DEF Begun
    <3>2. CASE e # t BY <1>2, <3>2 DEF Begun
    <3>. QED BY <3>1, <3>2
  <2>. QED BY <2>3, <2>4, SameDevice
<1>8. Shown!Turned(f) BY <1>6, <1>7, OneMoves DEF Shown!Turned, Shown!Moves, shown
<1>. QED BY <1>8 DEF Shown!Next

LEMMA StopShown ==
  ASSUME Typed, Families, NEW h \in Handlers, Stop(h)
  PROVE  [Shown!Next]_shown
<1>0. UNCHANGED rows /\ Ends(h) BY DEF Stop
<1>1. CASE ~At(h, "turn")
  BY <1>0, <1>1, LooksOn, EndsCalmly, PlainSignsOut DEF Plain
<1>2. CASE At(h, "turn")
  <2>1. PICK f \in Tokens : f = work[h].family BY <1>2, ClaimedPlace
  <2>2. \A g \in Handlers :
          At(g, "turn")' => g # h /\ At(g, "turn") /\ work'[g].family = work[g].family
    BY <1>0 DEF Ends, Idle, Job, At, Typed
  <2>3. Turning(f) /\ ~Unrevokeds(f) /\ Begun(f)
    BY <1>2, <2>1, ClaimedPlace DEF Turning, Unrevokeds, Begun
  <2>4. ~Turning(f)' BY <1>2, <2>1, <2>2, ClaimedPlace DEF Turning
  <2>5. \A e \in Tokens : (Unrevokeds(e)' <=> Unrevokeds(e)) /\ (Begun(e)' <=> Begun(e))
    BY <1>0 DEF Unrevokeds, Begun, InFamily
  <2>6. DeviceOf(f) = "turning" /\ DeviceOf(f)' = "out"
    BY <2>3, <2>4, <2>5, DeviceIs, DeviceIsNext
  <2>7. ASSUME NEW e \in Tokens \ {f} PROVE DeviceOf(e)' = DeviceOf(e)
    <3>1. \A g \in Handlers :
            (At(g, "turn") /\ work[g].family = e)' <=> At(g, "turn") /\ work[g].family = e
      BY <1>0, <2>1 DEF Ends, Idle, Job, At, Typed
    <3>2. Turning(e)' <=> Turning(e) BY <3>1 DEF Turning
    <3>. QED BY <2>5, <3>2, SameDevice
  <2>8. Shown!Lose(f) BY <2>6, <2>7, OneMoves DEF Shown!Lose, Shown!Moves, shown
  <2>. QED BY <2>8 DEF Shown!Next
<1>. QED BY <1>1, <1>2

LEMMA PresentShown ==
  ASSUME Typed, NEW h \in Handlers, NEW t \in Tokens, Refresh(h, t) \/ Reused(h, t)
  PROVE  UNCHANGED shown
<1>1. UNCHANGED rows BY DEF Refresh, Reused
<1>2. \A g \in Handlers :
        /\ At(g, "turn")' <=> At(g, "turn")
        /\ At(g, "turn") => work'[g].family = work[g].family
  BY DEF Refresh, Reused, Starts, Presents, Job, At, Typed
<1>3. ASSUME NEW e \in Tokens PROVE DeviceOf(e)' = DeviceOf(e)
  <2>1. (Unrevokeds(e)' <=> Unrevokeds(e)) /\ (Begun(e)' <=> Begun(e))
    BY <1>1 DEF Unrevokeds, Begun, InFamily
  <2>2. Turning(e)' <=> Turning(e) BY <1>2 DEF Turning
  <2>. QED BY <2>1, <2>2, SameDevice
<1>. QED BY <1>3, ShownNext DEF shown

LEMMA ShownStep == Typed /\ Families /\ [SessionsNext]_sessionVars => [Shown!Next]_shown
<1>. SUFFICES ASSUME Typed, Families, [SessionsNext]_sessionVars PROVE [Shown!Next]_shown
  OBVIOUS
<1>1. ASSUME NEW h \in Handlers, Begin(h) PROVE [Shown!Next]_shown
  <2>1. CASE \E t \in Tokens : Refresh(h, t) \/ Reused(h, t) BY <2>1, PresentShown
  <2>2. CASE \/ Login(h) \/ Guarded(h) \/ forgotPassword(h) \/ Administer(h) \/ Handshake(h)
             \/ \E g \in Grants : resetPassword(h, g)
    BY <2>2, BeginsPlain, PlainSignsOut
  <2>. QED BY <1>1, <2>1, <2>2 DEF Begin
<1>2. ASSUME NEW h \in Handlers, Proceed(h) PROVE [Shown!Next]_shown
  BY <1>2, PlainSignsOut, ProceedsPlain, SignInShown, TurnShown, TurnedShown
<1>3. ASSUME NEW h \in Handlers, Stop(h) PROVE [Shown!Next]_shown BY <1>3, StopShown
<1>4. CASE Pass \/ UNCHANGED sessionVars BY <1>4, PlainSignsOut, PassesPlain
<1>. QED BY <1>1, <1>2, <1>3, <1>4 DEF SessionsNext

LEMMA ShownInit == SessionsInit => Shown!Init
<1>. SUFFICES ASSUME SessionsInit PROVE Shown!Init
  OBVIOUS
<1>1. ASSUME NEW f \in Tokens PROVE DeviceOf(f) = "unused"
  <2>1. /\ \A t \in Tokens : rows[t].state = "none" /\ rows[t].family = None
        /\ \A h \in Handlers : work[h].stage = "idle"
    BY DEF SessionsInit, NoRow, Idle, Job
  <2>2. ~Unrevokeds(f) /\ ~Turning(f) /\ ~Begun(f)
    BY <2>1, NoneAssumption DEF Unrevokeds, Turning, Begun, InFamily, Unrevoked, At
  <2>. QED BY <2>2, DeviceIs
<1>. QED BY <1>1 DEF Shown!Init

-----------------------------------------------------------------------------
(* Reset links *)

Unused == {"none", "open", "lapsed"}

(* A request with a link to set the password with. *)
Resetting(h) == At(h, "save") /\ work[h].kind = "reset"

(* A link that is not spent has set nothing, and one that is spent is in   *)
(* the hands of one request that may still set the password once.          *)
Spending ==
  /\ \A g \in Grants : resets[g] <= 1 /\ (grants[g] \in Unused => resets[g] = 0)
  /\ \A h \in Handlers : At(h, "grant") =>
       work[h].kind = "reset" /\ work[h].grant \in Grants /\ grants[work[h].grant] # "none"
  /\ \A h \in Handlers : Resetting(h) =>
       /\ work[h].grant \in Grants /\ grants[work[h].grant] = "spent"
       /\ resets[work[h].grant] = 0
  /\ \A h, i \in Handlers : Resetting(h) /\ Resetting(i) /\ work[h].grant = work[i].grant => h = i

(* Links only get older... *)
Ages ==
  \A g \in Grants :
    /\ grants'[g] \in Unused => grants[g] \in Unused
    /\ grants'[g] = "none" => grants[g] = "none"
    /\ grants[g] = "spent" => grants'[g] = "spent"

(* ...while most requests hold on to the link they have, or have none.     *)
Keeps(h) ==
  \/ work'[h].stage \notin {"grant", "save"}
  \/ work'[h].stage = "save" /\ work'[h].kind # "reset"
  \/ /\ work'[h].stage = work[h].stage /\ work'[h].kind = work[h].kind
     /\ work'[h].grant = work[h].grant

LEMMA SpendingFrame ==
  ASSUME Typed, Spending, UNCHANGED resets, Ages, \A h \in Handlers : Keeps(h)
  PROVE  Spending'
<1>1. \A g \in Grants : resets'[g] <= 1 /\ (grants'[g] \in Unused => resets'[g] = 0)
  BY DEF Spending, Ages
<1>2. ASSUME NEW h \in Handlers
      PROVE  /\ At(h, "grant")' => At(h, "grant") /\ work'[h].kind = work[h].kind
                                  /\ work'[h].grant = work[h].grant
             /\ Resetting(h)' => Resetting(h) /\ work'[h].grant = work[h].grant
  BY <1>2 DEF Keeps, At, Resetting
<1>3. ASSUME NEW h \in Handlers, At(h, "grant")'
      PROVE  /\ work'[h].kind = "reset" /\ work'[h].grant \in Grants
             /\ grants'[work'[h].grant] # "none"
  BY <1>2, <1>3 DEF Spending, Ages
<1>4. ASSUME NEW h \in Handlers, Resetting(h)'
      PROVE  /\ work'[h].grant \in Grants /\ grants'[work'[h].grant] = "spent"
             /\ resets'[work'[h].grant] = 0
  BY <1>2, <1>4 DEF Spending, Ages
<1>5. ASSUME NEW h \in Handlers, NEW i \in Handlers, Resetting(h)', Resetting(i)',
             work'[h].grant = work'[i].grant
      PROVE  h = i
  BY <1>2, <1>5 DEF Spending
<1>. QED BY <1>1, <1>3, <1>4, <1>5 DEF Spending

(* A job that holds no link. *)
Linkless(w) ==
  \/ w.stage \notin {"grant", "save"}
  \/ w.stage = "save" /\ w.kind # "reset"

LEMMA KeepsOthers ==
  ASSUME Typed, NEW h \in Handlers, NEW w, work' = [work EXCEPT ![h] = w], Linkless(w)
  PROVE  \A i \in Handlers : Keeps(i)
BY DEF Typed, Keeps, Linkless

LEMMA EndsKeeps ==
  ASSUME Typed, NEW h \in Handlers, Ends(h)
  PROVE  \A i \in Handlers : Keeps(i)
<1>1. Linkless(Idle) BY DEF Idle, Job, Linkless
<1>. QED BY <1>1, KeepsOthers DEF Ends

LEMMA GoesKeeps ==
  ASSUME Typed, NEW h \in Handlers, NEW stage, stage \notin {"grant", "save"}, Goes(h, stage)
  PROVE  \A i \in Handlers : Keeps(i)
<1>1. Linkless(As(work[h], work[h].kind, stage)) BY DEF As, Job, Linkless
<1>. QED BY <1>1, KeepsOthers DEF Goes

LEMMA OthersOvertakenKeep ==
  ASSUME Typed, NEW h \in Handlers, NEW next, next.stage \notin {"grant", "save"},
         NEW S, work' = [i \in Handlers |-> IF i = h THEN next
                         ELSE IF work[i].stage \in S THEN Overtaken(work[i]) ELSE work[i]]
  PROVE  \A i \in Handlers : Keeps(i)
BY DEF Typed, Keeps, Overtaken, Job

LEMMA BeginSpending ==
  ASSUME Typed, Spending, NEW h \in Handlers, Begin(h)
  PROVE  Spending'
<1>0. UNCHANGED <<grants, resets>>
  BY DEF Begin, Login, Guarded, forgotPassword, Administer, Handshake, Refresh, Reused,
         resetPassword, histories
<1>a. Ages BY <1>0 DEF Ages
<1>1. CASE \E g \in Grants : resetPassword(h, g)
  <2>1. PICK g \in Grants : resetPassword(h, g) BY <1>1
  <2>2. /\ grants[g] = "open"
        /\ work' = [work EXCEPT ![h] = Job("reset", "grant", None, None, g, access, 0, FALSE)]
    BY <2>1 DEF resetPassword, Starts
  <2>3. /\ work'[h].stage = "grant" /\ work'[h].kind = "reset" /\ work'[h].grant = g
        /\ \A i \in Handlers \ {h} : work'[i] = work[i]
    BY <2>2 DEF Typed, Job
  <2>4. \A i \in Handlers : Resetting(i)' => i # h /\ Resetting(i) /\ work'[i] = work[i]
    BY <2>3 DEF Resetting, At
  <2>5. ASSUME NEW i \in Handlers, At(i, "grant")'
        PROVE  /\ work'[i].kind = "reset" /\ work'[i].grant \in Grants
               /\ grants'[work'[i].grant] # "none"
    <3>1. CASE i = h BY <1>0, <2>2, <2>3, <3>1
    <3>2. CASE i # h BY <1>0, <2>3, <2>5, <3>2 DEF Spending, At
    <3>. QED BY <3>1, <3>2
  <2>. QED BY <1>0, <2>4, <2>5 DEF Spending
<1>2. CASE ~\E g \in Grants : resetPassword(h, g)
  <2>1. \E w : Linkless(w) /\ work' = [work EXCEPT ![h] = w]
    <3>1. /\ Linkless(Enters("login", "record")) /\ Linkless(Enters("socket", "join"))
          /\ Linkless(Task("forgot", "spend"))
          /\ Linkless(Job("guarded", "guarded", None, None, None, access, 0, FALSE))
      BY DEF Linkless, Enters, Task, Job
    <3>2. \A kind \in {"block", "unblock", "remove"} : Linkless(Task(kind, "save"))
      BY DEF Linkless, Task, Job
    <3>3. \A t \in Tokens :
            /\ Linkless(Presents(t, "account"))
            /\ Linkless(Job("refresh", "family", None, rows[t].family, None, "allowed", 0, FALSE))
      BY DEF Linkless, Presents, Job
    <3>4. CASE Login(h) BY <3>1, <3>4 DEF Login, Starts
    <3>5. CASE Guarded(h) BY <3>1, <3>5 DEF Guarded, Starts
    <3>6. CASE forgotPassword(h) BY <3>1, <3>6 DEF forgotPassword, Starts
    <3>7. CASE Administer(h) BY <3>2, <3>7 DEF Administer, Starts
    <3>8. CASE Handshake(h) BY <3>1, <3>8 DEF Handshake, Starts
    <3>9. ASSUME NEW t \in Tokens, Refresh(h, t) \/ Reused(h, t)
          PROVE  \E w : Linkless(w) /\ work' = [work EXCEPT ![h] = w]
      BY <3>3, <3>9 DEF Refresh, Reused, Starts
    <3>. QED BY <1>2, <3>4, <3>5, <3>6, <3>7, <3>8, <3>9 DEF Begin
  <2>. QED BY <1>0, <1>a, <2>1, KeepsOthers, SpendingFrame
<1>. QED BY <1>1, <1>2

LEMMA ConsumeSpending ==
  ASSUME Typed, Spending, NEW h \in Handlers, consume(h)
  PROVE  Spending'
<1>0. At(h, "grant") /\ UNCHANGED resets BY DEF consume, histories
<1>1. PICK g \in Grants : g = work[h].grant /\ work[h].kind = "reset" /\ grants[g] # "none"
  BY <1>0 DEF Spending
<1>2. CASE grants[g] \in {"open", "lapsed"}
  <2>1. grants' = [grants EXCEPT ![g] = "spent"] /\ Goes(h, "save")
    BY <1>1, <1>2 DEF consume, Continues
  <2>2. /\ work'[h].stage = "save" /\ work'[h].kind = "reset" /\ work'[h].grant = g
        /\ \A i \in Handlers \ {h} : work'[i] = work[i]
    BY <1>1, <2>1 DEF Goes, As, Job, Typed
  <2>3. resets[g] = 0 BY <1>1, <1>2 DEF Spending, Unused
  <2>4. /\ grants'[g] = "spent"
        /\ \A e \in Grants \ {g} : grants'[e] = grants[e]
    BY <2>1 DEF Typed
  <2>5. \A e \in Grants : resets'[e] <= 1 /\ (grants'[e] \in Unused => resets'[e] = 0)
    BY <1>0, <2>3, <2>4 DEF Spending, Unused
  <2>6. ASSUME NEW i \in Handlers, At(i, "grant")'
        PROVE  /\ work'[i].kind = "reset" /\ work'[i].grant \in Grants
               /\ grants'[work'[i].grant] # "none"
    <3>1. i # h /\ work'[i] = work[i] /\ At(i, "grant") BY <2>2, <2>6 DEF At
    <3>. QED BY <2>4, <3>1 DEF Spending
  <2>7. ASSUME NEW i \in Handlers, Resetting(i), i # h
        PROVE  work[i].grant # g
    BY <1>2, <2>7 DEF Spending
  <2>8. ASSUME NEW i \in Handlers, Resetting(i)'
        PROVE  /\ work'[i].grant \in Grants /\ grants'[work'[i].grant] = "spent"
               /\ resets'[work'[i].grant] = 0
    <3>1. CASE i = h BY <1>0, <2>2, <2>3, <2>4, <3>1
    <3>2. CASE i # h
      <4>1. work'[i] = work[i] /\ Resetting(i) BY <2>2, <2>8, <3>2 DEF Resetting, At
      <4>. QED BY <1>0, <2>4, <4>1 DEF Spending
    <3>. QED BY <3>1, <3>2
  <2>9. ASSUME NEW i \in Handlers, NEW j \in Handlers, Resetting(i)', Resetting(j)',
               work'[i].grant = work'[j].grant
        PROVE  i = j
    <3>1. \A k \in Handlers \ {h} : Resetting(k)' => Resetting(k) /\ work'[k] = work[k]
      BY <2>2 DEF Resetting, At
    <3>2. CASE i # h /\ j # h BY <2>9, <3>1, <3>2 DEF Spending
    <3>3. CASE i = h /\ j # h BY <2>2, <2>7, <2>9, <3>1, <3>3
    <3>4. CASE j = h /\ i # h BY <2>2, <2>7, <2>9, <3>1, <3>4
    <3>. QED BY <3>2, <3>3, <3>4
  <2>. QED BY <2>5, <2>6, <2>8, <2>9 DEF Spending
<1>3. CASE grants[g] \notin {"open", "lapsed"}
  <2>1. grants' = grants /\ Ends(h) BY <1>1, <1>3 DEF consume, Continues
  <2>2. Ages BY <2>1 DEF Ages
  <2>. QED BY <1>0, <2>1, <2>2, EndsKeeps, SpendingFrame
<1>. QED BY <1>2, <1>3

LEMMA SaveSpending ==
  ASSUME Typed, Spending, NEW h \in Handlers, Save(h)
  PROVE  Spending'
<1>1. /\ work'[h].stage = "end" /\ \A i \in Handlers \ {h} : work'[i] = work[i]
      /\ grants' = grants
  BY DEF Save, Job, Typed
<1>2. \A i \in Handlers :
        /\ At(i, "grant")' => i # h /\ At(i, "grant") /\ work'[i] = work[i]
        /\ Resetting(i)' => i # h /\ Resetting(i) /\ work'[i] = work[i]
  BY <1>1 DEF At, Resetting
<1>3. CASE work[h].kind # "reset"
  <2>1. UNCHANGED resets BY <1>3 DEF Save
  <2>. QED BY <1>1, <1>2, <2>1 DEF Spending
<1>4. CASE work[h].kind = "reset"
  <2>1. Resetting(h) BY <1>4 DEF Save, Resetting
  <2>2. PICK g \in Grants : g = work[h].grant /\ grants[g] = "spent" /\ resets[g] = 0
    BY <2>1 DEF Spending
  <2>3. resets'[g] = 1 /\ \A e \in Grants \ {g} : resets'[e] = resets[e]
    BY <1>4, <2>2 DEF Save, Typed
  <2>4. \A e \in Grants : resets'[e] <= 1 /\ (grants'[e] \in Unused => resets'[e] = 0)
    BY <1>1, <2>2, <2>3 DEF Spending, Unused
  <2>5. \A i \in Handlers \ {h} : Resetting(i) => work[i].grant # g
    BY <2>1, <2>2 DEF Spending
  <2>6. ASSUME NEW i \in Handlers, Resetting(i)'
        PROVE  /\ work'[i].grant \in Grants /\ grants'[work'[i].grant] = "spent"
               /\ resets'[work'[i].grant] = 0
    BY <1>1, <1>2, <2>3, <2>5, <2>6 DEF Spending
  <2>. QED BY <1>1, <1>2, <2>4, <2>6 DEF Spending
<1>. QED BY <1>3, <1>4

LEMMA ProceedSpending ==
  ASSUME Typed, Spending, NEW h \in Handlers, Proceed(h)
  PROVE  Spending'
<1>a. UNCHANGED grants => Ages BY DEF Ages
<1>i. Idle.stage \notin {"grant", "save"} BY DEF Idle, Job
<1>1. CASE RecordLogin(h) \/ revokeFamily(h) \/ RecordTurn(h) \/ SaveUnblocked(h) \/ Join(h)
             \/ \E t \in Tokens : LogoutOne(h, t) \/ endSession(h, t)
  BY <1>1, <1>a, EndsKeeps, SpendingFrame
  DEF RecordLogin, revokeFamily, RecordTurn, SaveUnblocked, Join, LogoutOne, endSession, histories
<1>2. CASE CheckAccount(h)
  BY <1>2, <1>a, EndsKeeps, GoesKeeps, SpendingFrame DEF CheckAccount, Continues, histories
<1>3. CASE Claim(h)
  BY <1>3, <1>a, EndsKeeps, GoesKeeps, SpendingFrame DEF Claim, histories
<1>4. CASE LogoutAll(h)
  <2>1. \A i \in Handlers : Keeps(i)
    BY <1>4, <1>i, OthersOvertakenKeep DEF LogoutAll, revokeAllForUser
  <2>. QED BY <1>4, <1>a, <2>1, SpendingFrame DEF LogoutAll, histories
<1>5. CASE GoesToSave(h)
  <2>1. PICK kind \in {"change", "remove"} :
          work' = [work EXCEPT ![h] = As(@, kind, "save")]
    BY <1>5 DEF GoesToSave
  <2>2. Linkless(As(work[h], kind, "save")) BY DEF As, Job, Linkless
  <2>. QED BY <1>5, <1>a, <2>1, <2>2, KeepsOthers, SpendingFrame DEF GoesToSave, histories
<1>6. CASE spendAllForUser(h)
  <2>1. Ages BY <1>6 DEF spendAllForUser, Ages, Unused, Typed
  <2>. QED BY <1>6, <2>1, GoesKeeps, SpendingFrame DEF spendAllForUser, histories
<1>7. CASE createGrant(h)
  <2>1. Ages BY <1>7 DEF createGrant, Ages, Unused, Typed
  <2>. QED BY <1>7, <2>1, EndsKeeps, SpendingFrame DEF createGrant, histories
<1>8. CASE EndSessions(h)
  <2>1. PICK next : next.stage \notin {"grant", "save"} /\ revokeAllForUser(h, next)
    <3>1. As(work[h], work[h].kind, "drop").stage \notin {"grant", "save"} BY DEF As, Job
    <3>. QED BY <1>8, <1>i, <3>1 DEF EndSessions
  <2>2. \A i \in Handlers : Keeps(i)
    BY <2>1, OthersOvertakenKeep DEF revokeAllForUser
  <2>. QED BY <1>8, <1>a, <2>2, SpendingFrame DEF EndSessions
<1>9. CASE DropSockets(h)
  <2>1. \A i \in Handlers : Keeps(i)
    BY <1>9, <1>i DEF DropSockets, Typed, Keeps, Overtaken, Job
  <2>. QED BY <1>9, <1>a, <2>1, SpendingFrame DEF DropSockets
<1>. QED
  BY <1>1, <1>2, <1>3, <1>4, <1>5, <1>6, <1>7, <1>8, <1>9, ConsumeSpending, SaveSpending
  DEF Proceed

LEMMA PassSpending ==
  ASSUME Typed, Spending, Pass \/ UNCHANGED sessionVars
  PROVE  Spending'
<1>1. UNCHANGED <<work, resets>>
  BY DEF Pass, Expire, GraceOver, GrantExpires, Prune, Disconnect, sessionVars, histories
<1>2. \A h \in Handlers : Keeps(h) BY <1>1 DEF Keeps
<1>3. Ages
  <2>1. ASSUME NEW g \in Grants, GrantExpires(g) PROVE Ages
    BY <2>1 DEF GrantExpires, Ages, Unused, Typed
  <2>2. CASE Prune BY <2>2 DEF Prune, Ages, Unused, Typed
  <2>3. CASE UNCHANGED grants BY <2>3 DEF Ages
  <2>. QED BY <2>1, <2>2, <2>3 DEF Pass, Expire, GraceOver, Disconnect, sessionVars
<1>. QED BY <1>1, <1>2, <1>3, SpendingFrame

LEMMA SpendingInit == SessionsInit => Spending
BY DEF SessionsInit, Spending, Idle, Job, At, Resetting, Unused

LEMMA SpendingStep == Typed /\ Spending /\ [SessionsNext]_sessionVars => Spending'
<1>. SUFFICES ASSUME Typed, Spending, [SessionsNext]_sessionVars PROVE Spending'
  OBVIOUS
<1>1. ASSUME NEW h \in Handlers, Stop(h) PROVE Spending'
  <2>1. Ages BY <1>1 DEF Stop, Ages
  <2>. QED BY <1>1, <2>1, EndsKeeps, SpendingFrame DEF Stop, histories
<1>. QED BY <1>1, BeginSpending, ProceedSpending, PassSpending DEF SessionsNext

-----------------------------------------------------------------------------
(* Who survives *)

Signing == Entering \ {"join"}

(* A save is not later than the last, and what was under way when sessions *)
(* or sockets were ended knows that it was.                                *)
LateJob(w) ==
  /\ w.stage \in {"end", "drop"} => w.era <= era
  /\ w.stage \in Signing /\ w.era < done => w.late
  /\ w.stage = "join" /\ w.era < barred => w.late

Lateness ==
  /\ done <= era /\ barred <= era
  /\ \A h \in Handlers : LateJob(work[h])
  /\ OnlyTheOvertakenSurvive

(* No row and no socket is new. *)
Wanes ==
  /\ \A t \in Tokens : rows'[t].state \in Unrevoked =>
       /\ rows[t].state \in Unrevoked
       /\ rows'[t].since = rows[t].since /\ rows'[t].late = rows[t].late
  /\ sockets' \subseteq sockets

LEMMA LateFrame ==
  ASSUME Typed, Lateness, Wanes, UNCHANGED <<done, barred>>, era <= era', era' \in Nat,
         \A h \in Handlers : LateJob(work[h])'
  PROVE  Lateness'
<1>1. done \in Nat /\ barred \in Nat /\ era \in Nat BY SavesAssumption DEF Typed
<1>2. done' <= era' /\ barred' <= era' BY <1>1 DEF Lateness
<1>3. OnlyTheOvertakenSurvive' BY DEF Lateness, OnlyTheOvertakenSurvive, Wanes
<1>. QED BY <1>2, <1>3 DEF Lateness

LEMMA LateOne ==
  ASSUME Typed, Lateness, Wanes, UNCHANGED <<era, done, barred>>,
         NEW h \in Handlers, NEW w, work' = [work EXCEPT ![h] = w], LateJob(w)
  PROVE  Lateness'
<1>1. ASSUME NEW g \in Handlers PROVE LateJob(work[g])'
  <2>1. CASE g = h BY <2>1 DEF Typed, LateJob
  <2>2. CASE g # h BY <2>2 DEF Typed, LateJob, Lateness
  <2>. QED BY <2>1, <2>2
<1>2. era \in Nat /\ era <= era' BY SavesAssumption DEF Typed
<1>. QED BY <1>1, <1>2, LateFrame

LEMMA LateIdle == LateJob(Idle)
BY DEF LateJob, Idle, Job, Signing, Entering

LEMMA LateEnds ==
  ASSUME Typed, Lateness, Wanes, UNCHANGED histories, NEW h \in Handlers, Ends(h)
  PROVE  Lateness'
BY LateIdle, LateOne DEF Ends, histories

LEMMA LateGoes ==
  ASSUME Typed, Lateness, Wanes, UNCHANGED histories, NEW h \in Handlers, NEW stage,
         Goes(h, stage),
         \/ stage \notin Entering \cup {"end", "drop"}
         \/ stage \in Signing /\ work[h].stage \in Signing
  PROVE  Lateness'
<1>1. LateJob(work[h]) BY DEF Lateness
<1>2. LateJob(As(work[h], work[h].kind, stage))
  BY <1>1 DEF LateJob, As, Job, Signing, Entering
<1>. QED BY <1>2, LateOne DEF Goes, histories

LEMMA LateBegin ==
  ASSUME Typed, Lateness, NEW h \in Handlers, Begin(h)
  PROVE  Lateness'
<1>0. UNCHANGED <<rows, sockets, era, done, barred>>
  BY DEF Begin, Login, Guarded, forgotPassword, Administer, Handshake, Refresh, Reused,
         resetPassword, histories
<1>1. Wanes BY <1>0 DEF Wanes
<1>2. \E w : LateJob(w) /\ work' = [work EXCEPT ![h] = w]
  <2>0. /\ era \in Nat /\ done \in Nat /\ barred \in Nat
        /\ done <= era /\ barred <= era
    BY SavesAssumption DEF Typed, Lateness
  <2>1. /\ LateJob(Enters("login", "record")) /\ LateJob(Enters("socket", "join"))
        /\ LateJob(Task("forgot", "spend"))
        /\ LateJob(Job("guarded", "guarded", None, None, None, access, 0, FALSE))
    BY <2>0 DEF LateJob, Enters, Task, Job, Signing, Entering
  <2>2. \A kind \in {"block", "unblock", "remove"} : LateJob(Task(kind, "save"))
    BY DEF LateJob, Task, Job, Signing, Entering
  <2>3. \A g \in Grants : LateJob(Job("reset", "grant", None, None, g, access, 0, FALSE))
    BY DEF LateJob, Job, Signing, Entering
  <2>4. CASE Login(h) BY <2>1, <2>4 DEF Login, Starts
  <2>5. CASE Guarded(h) BY <2>1, <2>5 DEF Guarded, Starts
  <2>6. CASE forgotPassword(h) BY <2>1, <2>6 DEF forgotPassword, Starts
  <2>7. CASE Administer(h) BY <2>2, <2>7 DEF Administer, Starts
  <2>8. CASE Handshake(h) BY <2>1, <2>8 DEF Handshake, Starts
  <2>9. ASSUME NEW t \in Tokens, Refresh(h, t)
        PROVE  \E w : LateJob(w) /\ work' = [work EXCEPT ![h] = w]
    <3>1. rows[t].state \in Unrevoked /\ (rows[t].since < done => rows[t].late)
      BY <2>9 DEF Refresh, Unrevoked, Lateness, OnlyTheOvertakenSurvive
    <3>2. LateJob(Presents(t, "account"))
      BY <3>1 DEF LateJob, Presents, Job, Signing, Entering
    <3>. QED BY <2>9, <3>2 DEF Refresh, Starts
  <2>10. ASSUME NEW t \in Tokens, Reused(h, t)
         PROVE  \E w : LateJob(w) /\ work' = [work EXCEPT ![h] = w]
    <3>1. LateJob(Job("refresh", "family", None, rows[t].family, None, "allowed", 0, FALSE))
      BY DEF LateJob, Job, Signing, Entering
    <3>. QED BY <2>10, <3>1 DEF Reused, Starts
  <2>11. CASE \E g \in Grants : resetPassword(h, g)
    BY <2>3, <2>11 DEF resetPassword, Starts
  <2>. QED BY <2>4, <2>5, <2>6, <2>7, <2>8, <2>9, <2>10, <2>11 DEF Begin
<1>. QED BY <1>0, <1>1, <1>2, LateOne

(* A session is recorded as late as its request is. *)
LEMMA LateRecord ==
  ASSUME Typed, Lateness, NEW h \in Handlers, RecordLogin(h) \/ RecordTurn(h)
  PROVE  Lateness'
<1>0. work[h].stage \in Signing /\ Ends(h) /\ UNCHANGED <<sockets, era, done, barred>>
  BY DEF RecordLogin, RecordTurn, At, Signing, Entering, histories
<1>1. work[h].family \in Tokens \cup {None} /\ None \in Tokens \cup {None}
  BY DEF Typed, Work
<1>2. PICK t \in Tokens :
        /\ rows'[t].since = work[h].era /\ rows'[t].late = work[h].late
        /\ \A u \in Tokens \ {t} : rows'[u] = rows[u]
  BY <1>1, RecordsRow DEF RecordLogin, RecordTurn
<1>3. rows'[t].since < done => rows'[t].late
  <2>1. LateJob(work[h]) BY DEF Lateness
  <2>. QED BY <1>0, <1>2, <2>1 DEF LateJob
<1>4. OnlyTheOvertakenSurvive'
  BY <1>0, <1>2, <1>3 DEF Lateness, OnlyTheOvertakenSurvive
<1>5. \A g \in Handlers : LateJob(work[g])'
  <2>1. SUFFICES ASSUME NEW g \in Handlers PROVE LateJob(work[g])'
    OBVIOUS
  <2>2. work'[g] = Idle \/ work'[g] = work[g] BY <1>0 DEF Ends, Typed
  <2>3. LateJob(work'[g]) BY <2>2, LateIdle DEF Lateness
  <2>. QED BY <1>0, <2>3 DEF LateJob
<1>. QED BY <1>0, <1>4, <1>5 DEF Lateness

(* Whoever is under way when all sessions are revoked is late from then on.*)
LEMMA LateRevoke ==
  ASSUME Typed, Lateness, NEW h \in Handlers, NEW next, revokeAllForUser(h, next),
         LateJob(next), next.stage \notin Entering, UNCHANGED <<sockets, era, barred>>,
         done' <= era
  PROVE  Lateness'
<1>1. \A t \in Tokens : rows'[t].state \notin Unrevoked
  BY DEF revokeAllForUser, Revoked, Unrevoked
<1>2. OnlyTheOvertakenSurvive' BY <1>1 DEF Lateness, OnlyTheOvertakenSurvive
<1>3. ASSUME NEW g \in Handlers PROVE LateJob(work[g])'
  <2>0. LateJob(work[g]) BY DEF Lateness
  <2>1. CASE g = h
    <3>1. work'[g] = next BY <2>1 DEF revokeAllForUser
    <3>. QED BY <3>1 DEF LateJob, Signing
  <2>2. CASE g # h /\ work[g].stage \in Entering
    <3>1. work'[g] = Overtaken(work[g]) BY <2>2 DEF revokeAllForUser
    <3>2. Overtaken(work[g]).late = TRUE /\ Overtaken(work[g]).stage = work[g].stage
      BY DEF Overtaken, Job
    <3>. QED BY <2>2, <3>1, <3>2 DEF LateJob, Entering
  <2>3. CASE g # h /\ work[g].stage \notin Entering
    <3>1. work'[g] = work[g] BY <2>3 DEF revokeAllForUser
    <3>. QED BY <2>0, <2>3, <3>1 DEF LateJob, Signing, Entering
  <2>. QED BY <2>1, <2>2, <2>3
<1>. QED BY <1>2, <1>3 DEF Lateness

LEMMA LateProceed ==
  ASSUME Typed, Lateness, NEW h \in Handlers, Proceed(h)
  PROVE  Lateness'
<1>i. Idle.stage \notin Entering BY DEF Idle, Job, Entering
<1>n. /\ era \in Nat /\ done \in Nat /\ barred \in Nat /\ work[h].era \in Nat
      /\ done <= era /\ barred <= era
  BY SavesAssumption DEF Typed, Work, Lateness
<1>u. UNCHANGED <<rows, sockets>> => Wanes BY DEF Wanes
<1>r. ASSUME NEW t, NEW state \in {"rotated", "ended"}, Revoke(t, state), UNCHANGED sockets
      PROVE  Wanes
  BY <1>r DEF Wanes, Revoke, Revoked, Typed, Unrevoked
<1>1. CASE revokeFamily(h)
  <2>1. Wanes BY <1>1 DEF Wanes, revokeFamily, Revoked, Unrevoked
  <2>. QED BY <1>1, <2>1, LateEnds DEF revokeFamily
<1>2. CASE CheckAccount(h)
  BY <1>2, <1>u, LateEnds, LateGoes DEF CheckAccount, Continues, At, Signing, Entering
<1>3. CASE Claim(h)
  <2>1. Wanes BY <1>3, <1>u, <1>r DEF Claim
  <2>. QED BY <1>3, <2>1, LateEnds, LateGoes DEF Claim, At, Signing, Entering
<1>4. CASE LogoutAll(h)
  BY <1>4, <1>i, <1>n, LateIdle, LateRevoke DEF LogoutAll, histories
<1>5. CASE GoesToSave(h)
  <2>1. PICK kind \in {"change", "remove"} :
          work' = [work EXCEPT ![h] = As(@, kind, "save")]
    BY <1>5 DEF GoesToSave
  <2>2. LateJob(As(work[h], kind, "save")) BY DEF As, Job, LateJob, Signing, Entering
  <2>. QED BY <1>5, <1>u, <2>1, <2>2, LateOne DEF GoesToSave, histories
<1>6. ASSUME NEW t \in Tokens, LogoutOne(h, t) \/ endSession(h, t) PROVE Lateness'
  <2>1. UNCHANGED sockets /\ UNCHANGED histories /\ Ends(h)
    BY <1>6 DEF LogoutOne, endSession
  <2>2. CASE Revoke(t, "ended") BY <2>1, <2>2, <1>r, LateEnds
  <2>3. CASE UNCHANGED rows BY <2>1, <2>3, <1>u, LateEnds
  <2>. QED BY <1>6, <2>2, <2>3 DEF LogoutOne, endSession
<1>7. CASE spendAllForUser(h)
  BY <1>7, <1>u, LateGoes DEF spendAllForUser, Entering
<1>8. CASE createGrant(h) \/ SaveUnblocked(h)
  BY <1>8, <1>u, LateEnds DEF createGrant, SaveUnblocked
<1>9. CASE consume(h)
  BY <1>9, <1>u, LateEnds, LateGoes DEF consume, Continues, Entering
<1>10. CASE Save(h)
  <2>1. ASSUME NEW g \in Handlers PROVE LateJob(work[g])'
    <3>1. LateJob(work[g]) /\ work[g].era \in Nat
      BY SavesAssumption DEF Lateness, Typed, Work
    <3>2. era' = era + 1 /\ UNCHANGED <<done, barred>> BY <1>10 DEF Save
    <3>3. CASE g = h
      BY <1>10, <1>n, <3>2, <3>3 DEF Save, Typed, Job, LateJob, Signing, Entering
    <3>4. CASE g # h
      <4>1. work'[g] = work[g] BY <1>10, <3>4 DEF Save, Typed
      <4>. QED BY <1>n, <3>1, <3>2, <4>1 DEF LateJob
    <3>. QED BY <3>3, <3>4
  <2>2. era <= era' /\ era' \in Nat /\ UNCHANGED <<done, barred, rows, sockets>>
    BY <1>10, <1>n DEF Save
  <2>. QED BY <1>u, <2>1, <2>2, LateFrame
<1>11. CASE EndSessions(h)
  <2>1. LateJob(work[h]) /\ work[h].stage = "end" BY <1>11 DEF Lateness, EndSessions, At
  <2>2. work[h].era <= era BY <2>1 DEF LateJob
  <2>3. done' <= era BY <1>11, <1>n, <2>2 DEF EndSessions, Later
  <2>4. PICK next :
          LateJob(next) /\ next.stage \notin Entering /\ revokeAllForUser(h, next)
    <3>1. /\ LateJob(As(work[h], work[h].kind, "drop"))
          /\ As(work[h], work[h].kind, "drop").stage \notin Entering
      BY <2>2 DEF LateJob, As, Job, Signing, Entering
    <3>. QED BY <1>11, <1>i, <3>1, LateIdle DEF EndSessions
  <2>5. UNCHANGED <<sockets, era, barred>> BY <1>11 DEF EndSessions
  <2>. QED BY <2>3, <2>4, <2>5, LateRevoke
<1>12. CASE DropSockets(h)
  <2>1. LateJob(work[h]) /\ work[h].stage = "drop" BY <1>12 DEF Lateness, DropSockets, At
  <2>2. work[h].era <= era BY <2>1 DEF LateJob
  <2>3. barred' <= era BY <1>12, <1>n, <2>2 DEF DropSockets, Later
  <2>4. OnlyTheOvertakenSurvive'
    BY <1>12 DEF DropSockets, Lateness, OnlyTheOvertakenSurvive
  <2>5. ASSUME NEW g \in Handlers PROVE LateJob(work[g])'
    <3>0. LateJob(work[g]) /\ UNCHANGED <<era, done>> BY <1>12 DEF Lateness, DropSockets
    <3>1. CASE g = h
      <4>1. work'[g] = Idle BY <1>12, <3>1 DEF DropSockets
      <4>. QED BY <4>1 DEF LateJob, Idle, Job, Signing, Entering
    <3>2. CASE g # h /\ work[g].stage = "join"
      <4>1. work'[g] = Overtaken(work[g]) BY <1>12, <3>2 DEF DropSockets
      <4>2. Overtaken(work[g]).late = TRUE /\ Overtaken(work[g]).stage = "join"
        BY <3>2 DEF Overtaken, Job
      <4>. QED BY <4>1, <4>2 DEF LateJob
    <3>3. CASE g # h /\ work[g].stage # "join"
      <4>1. work'[g] = work[g] BY <1>12, <3>3 DEF DropSockets
      <4>. QED BY <3>0, <3>3, <4>1 DEF LateJob
    <3>. QED BY <3>1, <3>2, <3>3
  <2>. QED BY <1>12, <1>n, <2>3, <2>4, <2>5 DEF DropSockets, Lateness
<1>13. CASE Join(h)
  <2>1. LateJob(work[h]) /\ work[h].stage = "join" BY <1>13 DEF Lateness, Join, At
  <2>2. work[h].era < barred => work[h].late BY <2>1 DEF LateJob
  <2>3. UNCHANGED <<rows, era, done, barred>> /\ Ends(h) BY <1>13 DEF Join, histories
  <2>4. OnlyTheOvertakenSurvive'
    BY <1>13, <2>2, <2>3 DEF Join, Lateness, OnlyTheOvertakenSurvive
  <2>5. \A g \in Handlers : LateJob(work[g])'
    <3>1. SUFFICES ASSUME NEW g \in Handlers PROVE LateJob(work[g])'
      OBVIOUS
    <3>2. work'[g] = Idle \/ work'[g] = work[g] BY <2>3 DEF Ends, Typed
    <3>3. LateJob(work'[g]) BY <3>2, LateIdle DEF Lateness
    <3>. QED BY <2>3, <3>3 DEF LateJob
  <2>. QED BY <2>3, <2>4, <2>5 DEF Lateness
<1>. QED
  BY <1>1, <1>2, <1>3, <1>4, <1>5, <1>6, <1>7, <1>8, <1>9, <1>10, <1>11, <1>12, <1>13,
     LateRecord
  DEF Proceed

LEMMA LatePass ==
  ASSUME Typed, Lateness, Pass \/ UNCHANGED sessionVars
  PROVE  Lateness'
<1>1. UNCHANGED <<work, era, done, barred>>
  BY DEF Pass, Expire, GraceOver, GrantExpires, Prune, Disconnect, sessionVars, histories
<1>2. \A h \in Handlers : LateJob(work[h])' BY <1>1 DEF Lateness, LateJob
<1>3. era <= era' /\ era' \in Nat BY <1>1, SavesAssumption DEF Typed
<1>4. Wanes
  <2>1. ASSUME NEW t \in Tokens, Expire(t) \/ GraceOver(t) PROVE Wanes
    <3>1. CASE Expire(t)
      BY <3>1 DEF Expire, Revoke, Revoked, Typed, Wanes, Unrevoked, Row
    <3>2. CASE GraceOver(t) BY <3>2 DEF GraceOver, Typed, Wanes, Unrevoked, Row
    <3>. QED BY <2>1, <3>1, <3>2
  <2>2. CASE Prune BY <2>2 DEF Prune, Revoked, Wanes, Unrevoked
  <2>3. CASE Disconnect BY <2>3 DEF Disconnect, Wanes
  <2>4. CASE UNCHANGED <<rows, sockets>> BY <2>4 DEF Wanes
  <2>. QED BY <2>1, <2>2, <2>3, <2>4 DEF Pass, GrantExpires, sessionVars
<1>. QED BY <1>1, <1>2, <1>3, <1>4, LateFrame

LEMMA LateInit == SessionsInit => Lateness
<1>. SUFFICES ASSUME SessionsInit PROVE Lateness
  OBVIOUS
<1>1. \A h \in Handlers : LateJob(work[h]) BY LateIdle DEF SessionsInit
<1>2. OnlyTheOvertakenSurvive
  BY DEF SessionsInit, OnlyTheOvertakenSurvive, NoRow, Unrevoked
<1>. QED BY <1>1, <1>2 DEF SessionsInit, Lateness

LEMMA LateStep == Typed /\ Lateness /\ [SessionsNext]_sessionVars => Lateness'
<1>. SUFFICES ASSUME Typed, Lateness, [SessionsNext]_sessionVars PROVE Lateness'
  OBVIOUS
<1>1. ASSUME NEW h \in Handlers, Stop(h) PROVE Lateness'
  <2>1. Wanes BY <1>1 DEF Stop, Wanes
  <2>. QED BY <1>1, <2>1, LateEnds DEF Stop
<1>. QED BY <1>1, LateBegin, LateProceed, LatePass DEF SessionsNext

-----------------------------------------------------------------------------
(* How many links *)

Open == {g \in Grants : grants[g] = "open"}
Issuing == {h \in Handlers : At(h, "issue")}

(* A request about to insert a link stands for the link. *)
Bounded ==
  /\ IsFiniteSet(Open)
  /\ Cardinality(Open) + Cardinality(Issuing) <= Cardinality(Handlers)

LEMMA IssuingIsFinite == IsFiniteSet(Issuing) /\ Cardinality(Issuing) <= Cardinality(Handlers)
<1>1. Issuing \in SUBSET Handlers BY DEF Issuing
<1>. QED BY <1>1, HandlersAssumption, FS_Subset

LEMMA BoundedFrame ==
  ASSUME Bounded, Open' \subseteq Open, Issuing' \subseteq Issuing
  PROVE  Bounded'
<1>1. IsFiniteSet(Open') /\ Cardinality(Open') <= Cardinality(Open) BY FS_Subset DEF Bounded
<1>2. IsFiniteSet(Issuing') /\ Cardinality(Issuing') <= Cardinality(Issuing)
  BY IssuingIsFinite, FS_Subset
<1>3. /\ Cardinality(Open) \in Nat /\ Cardinality(Open') \in Nat
      /\ Cardinality(Issuing) \in Nat /\ Cardinality(Issuing') \in Nat
      /\ Cardinality(Handlers) \in Nat
  BY <1>1, <1>2, IssuingIsFinite, HandlersAssumption, FS_CardinalityType DEF Bounded
<1>. QED BY <1>1, <1>2, <1>3 DEF Bounded

LEMMA BoundedSpend ==
  ASSUME NEW h \in Handlers, spendAllForUser(h)
  PROVE  Bounded'
<1>1. Open' = {} BY DEF spendAllForUser, Open
<1>2. Issuing' \in SUBSET Handlers BY DEF Issuing
<1>3. Cardinality(Issuing') <= Cardinality(Handlers) /\ IsFiniteSet(Issuing')
  BY <1>2, HandlersAssumption, FS_Subset
<1>4. Cardinality(Issuing') \in Nat BY <1>3, FS_CardinalityType
<1>5. IsFiniteSet(Open') /\ Cardinality(Open') = 0 BY <1>1, FS_EmptySet
<1>. QED BY <1>3, <1>4, <1>5 DEF Bounded

LEMMA BoundedCreate ==
  ASSUME Typed, Bounded, NEW h \in Handlers, createGrant(h)
  PROVE  Bounded'
<1>1. PICK g \in Grants : grants[g] = "none" /\ grants' = [grants EXCEPT ![g] = "open"]
  BY DEF createGrant
<1>2. Open' = Open \cup {g} /\ g \notin Open BY <1>1 DEF Open, Typed
<1>3. h \in Issuing /\ Issuing' = Issuing \ {h}
  <2>1. h \in Issuing BY DEF createGrant, Issuing
  <2>2. ~At(h, "issue")' /\ \A i \in Handlers \ {h} : work'[i] = work[i]
    BY DEF createGrant, Ends, Idle, Job, At, Typed
  <2>. QED BY <2>1, <2>2 DEF Issuing, At
<1>4. IsFiniteSet(Open') /\ Cardinality(Open') = Cardinality(Open) + 1
  BY <1>2, FS_AddElement DEF Bounded
<1>5. Cardinality(Issuing') = Cardinality(Issuing) - 1
  BY <1>3, IssuingIsFinite, FS_RemoveElement
<1>6. /\ Cardinality(Open) \in Nat /\ Cardinality(Issuing) \in Nat
      /\ Cardinality(Handlers) \in Nat
  BY IssuingIsFinite, HandlersAssumption, FS_CardinalityType DEF Bounded
<1>7. Cardinality(Handlers)' = Cardinality(Handlers) OBVIOUS
<1>. QED BY <1>4, <1>5, <1>6, <1>7 DEF Bounded

(* Only spendAllForUser goes on to insert, and only createGrant inserts. *)
LEMMA BoundedBegin ==
  ASSUME Typed, Bounded, NEW h \in Handlers, Begin(h)
  PROVE  Bounded'
<1>1. UNCHANGED grants
  BY DEF Begin, Login, Guarded, forgotPassword, Administer, Handshake, Refresh, Reused,
         resetPassword
<1>2. \E w : w.stage # "issue" /\ work' = [work EXCEPT ![h] = w]
  <2>1. /\ Enters("login", "record").stage # "issue" /\ Enters("socket", "join").stage # "issue"
        /\ Task("forgot", "spend").stage # "issue"
        /\ Job("guarded", "guarded", None, None, None, access, 0, FALSE).stage # "issue"
    BY DEF Enters, Task, Job
  <2>2. \A kind \in {"block", "unblock", "remove"} : Task(kind, "save").stage # "issue"
    BY DEF Task, Job
  <2>3. \A g \in Grants : Job("reset", "grant", None, None, g, access, 0, FALSE).stage # "issue"
    BY DEF Job
  <2>4. \A t \in Tokens :
          /\ Presents(t, "account").stage # "issue"
          /\ Job("refresh", "family", None, rows[t].family, None, "allowed", 0, FALSE).stage
               # "issue"
    BY DEF Presents, Job
  <2>5. CASE Login(h) BY <2>1, <2>5 DEF Login, Starts
  <2>6. CASE Guarded(h) BY <2>1, <2>6 DEF Guarded, Starts
  <2>7. CASE forgotPassword(h) BY <2>1, <2>7 DEF forgotPassword, Starts
  <2>8. CASE Administer(h) BY <2>2, <2>8 DEF Administer, Starts
  <2>9. CASE Handshake(h) BY <2>1, <2>9 DEF Handshake, Starts
  <2>10. ASSUME NEW t \in Tokens, Refresh(h, t) \/ Reused(h, t)
         PROVE  \E w : w.stage # "issue" /\ work' = [work EXCEPT ![h] = w]
    BY <2>4, <2>10 DEF Refresh, Reused, Starts
  <2>11. CASE \E g \in Grants : resetPassword(h, g)
    BY <2>3, <2>11 DEF resetPassword, Starts
  <2>. QED BY <2>5, <2>6, <2>7, <2>8, <2>9, <2>10, <2>11 DEF Begin
<1>3. Issuing' \subseteq Issuing BY <1>2 DEF Issuing, At, Typed
<1>. QED BY <1>1, <1>3, BoundedFrame DEF Open

LEMMA BoundedProceed ==
  ASSUME Typed, Bounded, NEW h \in Handlers, Proceed(h)
  PROVE  Bounded'
<1>1. CASE spendAllForUser(h) \/ createGrant(h) BY <1>1, BoundedSpend, BoundedCreate
<1>2. CASE ~spendAllForUser(h) /\ ~createGrant(h)
  <2>1. Open' \subseteq Open
    <3>1. CASE consume(h) BY <3>1 DEF consume, Open, Typed
    <3>2. CASE UNCHANGED grants BY <3>2 DEF Open
    <3>. QED
      BY <1>2, <3>1, <3>2
      DEF Proceed, RecordLogin, revokeFamily, CheckAccount, Claim, RecordTurn, LogoutAll,
          GoesToSave, LogoutOne, endSession, Save, SaveUnblocked, EndSessions, DropSockets, Join
  <2>2. Issuing' \subseteq Issuing
    <3>i. Idle.stage # "issue" BY DEF Idle, Job
    <3>g. \A stage : As(work[h], work[h].kind, stage).stage = stage BY DEF As, Job
    <3>e. ASSUME NEW w, w.stage # "issue", work' = [work EXCEPT ![h] = w]
          PROVE  Issuing' \subseteq Issuing
      BY <3>e DEF Issuing, At, Typed
    <3>r. ASSUME NEW w, w.stage # "issue", NEW S,
                 work' = [i \in Handlers |-> IF i = h THEN w
                          ELSE IF work[i].stage \in S THEN Overtaken(work[i]) ELSE work[i]]
          PROVE  Issuing' \subseteq Issuing
      BY <3>r DEF Issuing, At, Overtaken, Job
    <3>1. CASE Ends(h) BY <3>1, <3>e, <3>i DEF Ends
    <3>2. CASE \E stage \in {"claim", "turn", "save"} : Goes(h, stage)
      BY <3>2, <3>e, <3>g DEF Goes
    <3>3. CASE GoesToSave(h)
      <4>1. PICK kind : work' = [work EXCEPT ![h] = As(@, kind, "save")]
        BY <3>3 DEF GoesToSave
      <4>2. As(work[h], kind, "save").stage # "issue" BY DEF As, Job
      <4>. QED BY <4>1, <4>2, <3>e
    <3>4. CASE Save(h)
      <4>1. Job(work[h].kind, "end", None, None, None, "allowed", era + 1, FALSE).stage # "issue"
        BY DEF Job
      <4>. QED BY <3>4, <4>1, <3>e DEF Save
    <3>5. CASE LogoutAll(h) BY <3>5, <3>i, <3>r DEF LogoutAll, revokeAllForUser
    <3>6. CASE EndSessions(h)
      <4>1. PICK next : next.stage # "issue" /\ revokeAllForUser(h, next)
        BY <3>6, <3>i, <3>g DEF EndSessions
      <4>. QED BY <4>1, <3>r DEF revokeAllForUser
    <3>7. CASE DropSockets(h) BY <3>7, <3>i DEF DropSockets, Issuing, At, Overtaken, Job
    <3>8. \/ Ends(h) \/ \E stage \in {"claim", "turn", "save"} : Goes(h, stage)
          \/ GoesToSave(h) \/ Save(h) \/ LogoutAll(h) \/ EndSessions(h) \/ DropSockets(h)
      BY <1>2
      DEF Proceed, RecordLogin, revokeFamily, CheckAccount, Continues, Claim, RecordTurn,
          LogoutOne, endSession, consume, SaveUnblocked, Join
    <3>. QED BY <3>1, <3>2, <3>3, <3>4, <3>5, <3>6, <3>7, <3>8
  <2>. QED BY <2>1, <2>2, BoundedFrame
<1>. QED BY <1>1, <1>2

LEMMA BoundedInit == SessionsInit => Bounded
<1>. SUFFICES ASSUME SessionsInit PROVE Bounded
  OBVIOUS
<1>1. Open = {} /\ Issuing = {} BY DEF SessionsInit, Open, Issuing, At, Idle, Job
<1>2. Cardinality(Handlers) \in Nat BY HandlersAssumption, FS_CardinalityType
<1>. QED BY <1>1, <1>2, FS_EmptySet DEF Bounded

LEMMA BoundedStep == Typed /\ Bounded /\ [SessionsNext]_sessionVars => Bounded'
<1>. SUFFICES ASSUME Typed, Bounded, [SessionsNext]_sessionVars PROVE Bounded'
  OBVIOUS
<1>1. ASSUME NEW h \in Handlers, Stop(h) PROVE Bounded'
  <2>1. Issuing' \subseteq Issuing BY <1>1 DEF Stop, Ends, Idle, Job, Issuing, At, Typed
  <2>. QED BY <1>1, <2>1, BoundedFrame DEF Stop, Open
<1>2. CASE Pass \/ UNCHANGED sessionVars
  <2>1. UNCHANGED work
    BY <1>2 DEF Pass, Expire, GraceOver, GrantExpires, Prune, Disconnect, sessionVars
  <2>2. Open' \subseteq Open
    BY <1>2 DEF Pass, Expire, GraceOver, GrantExpires, Prune, Disconnect, sessionVars, Open, Typed
  <2>. QED BY <2>1, <2>2, BoundedFrame DEF Issuing, At
<1>. QED BY <1>1, <1>2, BoundedBegin, BoundedProceed DEF SessionsNext

-----------------------------------------------------------------------------
(* Theorems *)

SessionsInv == Typed /\ Families /\ Spending /\ Lateness /\ Bounded

LEMMA SessionsInvariant == SessionsSpec => []SessionsInv
<1>1. SessionsInit => SessionsInv
  BY TypedInit, FamiliesInit, SpendingInit, LateInit, BoundedInit DEF SessionsInv
<1>2. SessionsInv /\ [SessionsNext]_sessionVars => SessionsInv'
  BY TypedStep, FamiliesStep, SpendingStep, LateStep, BoundedStep DEF SessionsInv
<1>. QED BY <1>1, <1>2, PTL DEF SessionsSpec

(* Types, and that a request that presents a token presents one that was   *)
(* issued, in its family: refreshAccessToken reads both from one row.      *)
THEOREM SessionsTypes == SessionsSpec => []SessionsOK
<1>1. SessionsInv => SessionsOK
  <2>. SUFFICES ASSUME SessionsInv PROVE SessionsOK
    OBVIOUS
  <2>1. \A t \in Tokens : rows[t].state # "none" => rows[t].family \in Tokens
    BY DEF SessionsInv, Families, Rooted
  <2>2. ASSUME NEW h \in Handlers, work[h].stage \in {"account", "family", "claim", "turn"}
        PROVE  work[h].family \in Tokens /\ rows[work[h].family].state # "none"
    <3>1. work[h].family \in Tokens /\ rows[work[h].family].family = work[h].family
      BY <2>2 DEF SessionsInv, Families, KnowsFamily, InStages
    <3>2. Rooted(work[h].family) BY <3>1 DEF SessionsInv, Families
    <3>. QED BY <3>1, <3>2, NoneAssumption DEF Rooted
  <2>. QED BY <2>1, <2>2 DEF SessionsInv, Typed, SessionsOK
<1>. QED BY <1>1, SessionsInvariant, PTL

(* One session per device: a family has one unrevoked token or one         *)
(* rotation under way, however many requests present the same token.       *)
THEOREM OneToken == SessionsSpec => []OneTokenPerDevice
<1>1. SessionsInv => OneTokenPerDevice
  <2>. SUFFICES ASSUME SessionsInv, NEW f \in Tokens, NEW x \in Holders(f), NEW y \in Holders(f)
                PROVE  x = y
    BY DEF OneTokenPerDevice
  <2>1. HeldOnce(f) BY DEF SessionsInv, Families
  <2>. QED BY <2>1 DEF Holders, HeldOnce
<1>. QED BY <1>1, SessionsInvariant, PTL

(* The sessions implement the list of devices an owner is shown: a sign-in *)
(* adds one, a rotation keeps it, and what is out never comes back.        *)
THEOREM DevicesKept == SessionsSpec => KeepsDevices
<1>1. SessionsInit => Shown!Init BY ShownInit
<1>2. SessionsInv /\ [SessionsNext]_sessionVars => [Shown!Next]_shown
  BY ShownStep DEF SessionsInv
<1>. QED BY <1>1, <1>2, SessionsInvariant, PTL DEF SessionsSpec, KeepsDevices, Shown!Spec, shown

(* A reset link sets the password once, however often it is opened. *)
THEOREM GrantsSpent == SessionsSpec => []GrantSpentOnce
<1>1. SessionsInv => GrantSpentOnce BY DEF SessionsInv, Spending, GrantSpentOnce
<1>. QED BY <1>1, SessionsInvariant, PTL

(* Requests for a link that overlap leave no more links than requests. *)
THEOREM LinksBounded == SessionsSpec => []LinksAreBounded
<1>1. SessionsInv => LinksAreBounded
  <2>. SUFFICES ASSUME SessionsInv PROVE LinksAreBounded
    OBVIOUS
  <2>1. Cardinality(Open) \in Nat /\ Cardinality(Issuing) \in Nat
    BY IssuingIsFinite, FS_CardinalityType DEF SessionsInv, Bounded
  <2>2. Cardinality(Handlers) \in Nat BY HandlersAssumption, FS_CardinalityType
  <2>. QED BY <2>1, <2>2 DEF SessionsInv, Bounded, LinksAreBounded, Open
<1>. QED BY <1>1, SessionsInvariant, PTL

(* When a password change, a block or a deletion has ended the sessions,   *)
(* none from before it is left but those recorded by a request that was    *)
(* already under way.                                                      *)
THEOREM OvertakenSurvive == SessionsSpec => []OnlyTheOvertakenSurvive
<1>1. SessionsInv => OnlyTheOvertakenSurvive BY DEF SessionsInv, Lateness
<1>. QED BY <1>1, SessionsInvariant, PTL

=============================================================================
