--------------------------- MODULE Announcements ----------------------------
(***************************************************************************)
(* What happens to a move of a parcel once it is committed.  The request   *)
(* reads the parcel again and leaves two tasks behind its response: one    *)
(* rewrites the parcel's vector in the assistant's index, the other writes *)
(* inbox rows, pushes to the open dashboards and queues e-mails, each of   *)
(* them a task in turn.  Nothing of this is stored: a crash loses what was *)
(* in flight, and an orderly shutdown has to wait for it.  An admin may    *)
(* rebuild the whole index meanwhile.                                      *)
(*                                                                         *)
(* A parcel is its place in the order of the ids; its log is the sequence  *)
(* of its moves as they were committed.  Its timeline is in the order in   *)
(* which their transactions began, and that order may be another.  A vector*)
(* is the length of the log it was written from, 0 where there is none.    *)
(* Calls to the database, the index and the mail server may fail.          *)
(***************************************************************************)
EXTENDS Integers, SequencesExt

CONSTANTS
  Ids,          \* the ids a parcel may have
  Gone,         \* those of parcels that were indexed and no longer exist
  Handlers,     \* the requests in flight
  Parties,      \* sender and receiver of the parcels
  Couriers,     \* who may be booked for one
  OptedOut,     \* the parties that want no e-mails
  Admins,       \* the active administrators
  PageSize      \* REINDEX_PAGE_SIZE

ASSUME AnnouncementsAssumption ==
  /\ Ids \subseteq Nat \ {0} /\ IsFiniteSet(Ids) /\ Gone \subseteq Ids
  /\ OptedOut \subseteq Parties
  /\ IsFiniteSet(Parties) /\ IsFiniteSet(Couriers) /\ IsFiniteSet(Admins)
  /\ PageSize \in Nat \ {0}

VARIABLES
  log,          \* [Ids -> sequence of entries]; empty: no such parcel
  begun,        \* [Handlers -> the transaction it has open, and what it began after]
  requests,     \* [Handlers -> the parcel whose move is committed, or 0]
  pending,      \* BackgroundService.pending: the tasks that have not settled
  index,        \* [Ids -> Nat]: the parcel vectors
  inbox,        \* the notification rows
  pushed,       \* what the dashboards were sent: [to, parcel, move, row]
  mailed,       \* what the mail server took: [to, parcel, move]
  rebuild,      \* the index rebuild that is running
  phase,        \* of the process
  awaited,      \* the tasks the drain is waiting for
  failed,       \* the channels of which a call has failed
  doubtful,     \* the parcels whose last vector write was not alone, or failed
  cut           \* [Ids -> Nat]: the moves committed when the process crashed

announcementVars == <<log, begun, requests, pending, index, inbox, pushed, mailed,
                      rebuild, phase, awaited, failed, doubtful, cut>>
people == <<inbox, pushed, mailed>>
process == <<phase, awaited, cut>>
entering == <<begun, process>>

Users == Parties \cup Couriers \cup Admins

(* Who moved the parcel; whether e-mails are sent for it as it is then; the *)
(* courier booked for it then; and whether the transaction began before that*)
(* of the entry which was the newest when it committed.                     *)
Entry == [by : Users, mail : BOOLEAN, courier : SUBSET Couriers, late : BOOLEAN]

NewestOf(p) == Len(log[p])

(* The last entry of the timeline, of a parcel that has been moved n times. *)
Latest(p, n) == Max({i \in 1 .. n : ~log[p][i].late})

Parcels == {p \in Ids : log[p] # <<>>}

NotBegun == [parcel |-> 0, after |-> 0]
NoRebuild == [stage |-> "none", cursor |-> 0, page |-> {}, ids |-> {}, stale |-> {}]

(* A task is started by a request, for a move it found; `to' are the people *)
(* a notification or an e-mail is for.                                      *)
Task(kind, p, by, move, stage, to) ==
  [kind |-> kind, parcel |-> p, by |-> by, move |-> move, stage |-> stage, to |-> to]

Tasks(kind, stage) == {t \in pending : t.kind = kind /\ t.stage = stage}

(* Mutant: only a task that succeeds is forgotten. *)
SettledIfDone(t, ok) ==
  (pending \ {t}) \cup
  (IF ok THEN {} ELSE {Task(t.kind, t.parcel, t.by, t.move, "rejected", t.to)})

(* A task leaves `pending' when it settles, whether its call failed or not. *)
Settled(t, ok) == pending \ {t}

Init ==
  /\ log \in [Ids -> {<<>>} \cup
                 {<<[by |-> u, mail |-> FALSE, courier |-> {}, late |-> FALSE]>> : u \in Parties}]
  /\ Parcels \cap Gone = {}
  /\ begun = [h \in Handlers |-> NotBegun]
  /\ requests = [h \in Handlers |-> 0]
  /\ pending = {}
  /\ index = [p \in Ids |-> IF p \in Parcels \cup Gone THEN 1 ELSE 0]
  /\ inbox = {} /\ pushed = {} /\ mailed = {}
  /\ rebuild = NoRebuild
  /\ phase = "up" /\ awaited = {}
  /\ failed = {} /\ doubtful = {} /\ cut = [p \in Ids |-> NewestOf(p)]

----------------------------------------------------------------------------
(* Requests: ParcelService.announce                                        *)

(* A request that is let in opens a transaction for a move of a parcel, or  *)
(* for the booking that starts its log; now() is the time of that.          *)
Begin(h, p) ==
  /\ phase = "up" /\ requests[h] = 0 /\ begun[h] = NotBegun /\ p \notin Gone
  /\ log[p] = <<>> => \A k \in Handlers : begun[k].parcel # p
  /\ begun' = [begun EXCEPT ![h] = [parcel |-> p, after |-> NewestOf(p)]]
  /\ UNCHANGED <<log, requests, pending, index, people, rebuild, process, failed, doubtful>>

Courier(entry) == \A c, d \in entry.courier : c = d

(* It commits, before or after a SIGTERM.                                   *)
Commit(h, p, entry) ==
  /\ p # 0 /\ begun[h].parcel = p /\ Courier(entry)
  /\ log[p] = <<>> => ~entry.mail
  /\ entry.late => log[p] # <<>> /\ Latest(p, NewestOf(p)) > begun[h].after
  /\ log' = [log EXCEPT ![p] = Append(@, entry)]
  /\ requests' = [requests EXCEPT ![h] = p]
  /\ begun' = [begun EXCEPT ![h] = NotBegun]
  /\ UNCHANGED <<pending, index, people, rebuild, process, failed, doubtful>>

(* It is rolled back, and nothing has happened.                             *)
RollBack(h) ==
  /\ begun[h] # NotBegun
  /\ begun' = [begun EXCEPT ![h] = NotBegun]
  /\ UNCHANGED <<log, requests, pending, index, people, rebuild, process, failed, doubtful>>

(* The vector of p is being written, or a rebuild is under way. *)
Unsure(p) ==
  \/ \E t \in pending : t.kind = "index" /\ t.parcel = p
  \/ rebuild.stage # "none"

(* Mutant: the parcel is read before its newest entry is committed. *)
RereadTooSoon(p) == Max({1, NewestOf(p) - 1})

(* What announce hands to its tasks is the parcel as it is by now. *)
Reread(p) == NewestOf(p)

Announce(h) ==
  LET p == requests[h] IN
  /\ p # 0
  /\ requests' = [requests EXCEPT ![h] = 0]
  /\ pending' = pending \cup {Task("index", p, h, Reread(p), "upsert", {}),
                             Task("notify", p, h, Reread(p), "lookup", {})}
  /\ doubtful' = IF Unsure(p) THEN doubtful \cup {p} ELSE doubtful \ {p}
  /\ UNCHANGED <<log, index, people, rebuild, entering, failed>>

----------------------------------------------------------------------------
(* The tasks                                                               *)

(* RagService.indexParcel: one vector, one call. *)
Upsert(t, ok) ==
  /\ t \in Tasks("index", "upsert")
  /\ pending' = Settled(t, ok)
  /\ index' = IF ok THEN [index EXCEPT ![t.parcel] = t.move] ELSE index
  /\ doubtful' = IF ok THEN doubtful ELSE doubtful \cup {t.parcel}
  /\ UNCHANGED <<log, requests, people, rebuild, entering, failed>>

(* The three parties and the administrators, without whom the parties are  *)
(* still told; but not who made the move, as the timeline has it.           *)
recipientIds(p, move, ok) ==
  (Parties \cup log[p][move].courier \cup (IF ok THEN Admins ELSE {}))
    \ {log[p][Latest(p, move)].by}

Becomes(t, stage, to) ==
  pending' = (pending \ {t}) \cup {Task(t.kind, t.parcel, t.by, t.move, stage, to)}

Lookup(t, ok) ==
  /\ t \in Tasks("notify", "lookup")
  /\ Becomes(t, "store", recipientIds(t.parcel, t.move, ok))
  /\ failed' = IF ok THEN failed ELSE failed \cup {"admins"}
  /\ UNCHANGED <<log, requests, index, people, rebuild, entering, doubtful>>

Row(u, t) == [to |-> u, parcel |-> t.parcel, move |-> t.move, by |-> t.by]

(* Mutant: a failure to store ends the announcement. *)
StoreOrStop(t, ok) ==
  /\ t \in Tasks("notify", "store")
  /\ IF ok THEN Becomes(t, "stored", t.to) ELSE pending' = pending \ {t}
  /\ inbox' = IF ok THEN inbox \cup {[row |-> Row(u, t), state |-> "unread"] : u \in t.to}
              ELSE inbox
  /\ failed' = IF ok THEN failed ELSE failed \cup {"inbox"}
  /\ UNCHANGED <<log, requests, index, pushed, mailed, rebuild, entering, doubtful>>

(* NotificationService.createForUsers: all the rows, or none. *)
Store(t, ok) ==
  /\ t \in Tasks("notify", "store")
  /\ Becomes(t, IF ok THEN "stored" ELSE "unstored", t.to)
  /\ inbox' = IF ok THEN inbox \cup {[row |-> Row(u, t), state |-> "unread"] : u \in t.to}
              ELSE inbox
  /\ failed' = IF ok THEN failed ELSE failed \cup {"inbox"}
  /\ UNCHANGED <<log, requests, index, pushed, mailed, rebuild, entering, doubtful>>

(* Both parties get the e-mail, the one who moved the parcel included. *)
statusMails(t) ==
  IF log[t.parcel][t.move].mail
  THEN {Task("mail", t.parcel, t.by, t.move, "send", {u}) : u \in Parties \ OptedOut}
  ELSE {}

(* A push carries the id of the row it was stored under, if it was. *)
Push(t) ==
  /\ t \in Tasks("notify", "stored") \cup Tasks("notify", "unstored")
  /\ pushed' = pushed \cup {[row |-> Row(u, t), kept |-> t.stage = "stored"] : u \in t.to}
  /\ pending' = (pending \ {t}) \cup statusMails(t)
  /\ UNCHANGED <<log, requests, index, inbox, mailed, rebuild, entering, failed, doubtful>>

Send(t, ok) ==
  /\ t \in Tasks("mail", "send")
  /\ pending' = Settled(t, ok)
  /\ mailed' = IF ok THEN mailed \cup {Row(u, t) : u \in t.to} ELSE mailed
  /\ failed' = IF ok THEN failed ELSE failed \cup {"mail"}
  /\ UNCHANGED <<log, requests, index, inbox, pushed, rebuild, entering, doubtful>>

TaskStep ==
  \E t \in pending :
    \/ \E ok \in BOOLEAN : Upsert(t, ok) \/ Lookup(t, ok) \/ Store(t, ok) \/ Send(t, ok)
    \/ Push(t)

----------------------------------------------------------------------------
(* The inbox                                                               *)

Mark(rows, state) ==
  /\ inbox' = (inbox \ rows) \cup {[row |-> r.row, state |-> state] : r \in rows}
  /\ UNCHANGED <<log, requests, pending, index, pushed, mailed, rebuild, entering,
                 failed, doubtful>>

Unread(u) == {r \in inbox : r.row.to = u /\ r.state = "unread"}

(* Opening the same notification twice changes nothing. *)
markRead(u) == phase = "up" /\ \E r \in Unread(u) : Mark({r}, "read")

markAllRead(u) == phase = "up" /\ Unread(u) # {} /\ Mark(Unread(u), "read")

(* Rows past their retention go, read or not; the oldest first. *)
pruneOld ==
  /\ phase = "up"
  /\ \E r \in inbox : r.state # "gone" /\ Mark({r}, "gone")

----------------------------------------------------------------------------
(* The administrators' routes to the index                                 *)

(* reindexAll reads a page of the parcels that follow the last one... *)
PageAfter(cursor) ==
  LET rest == {p \in Parcels : p > cursor}
  IN  {p \in rest : Cardinality({q \in rest : q < p}) < PageSize}

Snapshot(P) == {<<p, NewestOf(p)>> : p \in P}

Rebuilding(stage, cursor, page, ids, stale) ==
  [stage |-> stage, cursor |-> cursor, page |-> page, ids |-> ids, stale |-> stale]

reindexAll ==
  /\ phase = "up" /\ rebuild.stage = "none"
  /\ rebuild' = Rebuilding("read", 0, {}, {}, {})
  /\ UNCHANGED <<log, requests, pending, index, people, entering, failed, doubtful>>

ReadPage ==
  LET page == PageAfter(rebuild.cursor)
      busy == {t.parcel : t \in {t \in pending : t.kind = "index"}}
  IN
  /\ rebuild.stage = "read" /\ page # {}
  /\ rebuild' = Rebuilding("upsert", rebuild.cursor, Snapshot(page), rebuild.ids, {})
  /\ doubtful' = (doubtful \ page) \cup (page \cap busy)
  /\ UNCHANGED <<log, requests, pending, index, people, entering, failed>>

(* ...and writes its vectors in one call; a failure ends the rebuild. *)
UpsertPage(ok) ==
  LET page == {x[1] : x \in rebuild.page} IN
  /\ rebuild.stage = "upsert"
  /\ IF ok
     THEN /\ index' = [p \in Ids |-> IF p \in page
                                    THEN (CHOOSE x \in rebuild.page : x[1] = p)[2]
                                    ELSE index[p]]
          /\ rebuild' = Rebuilding("read", Max(page), {}, rebuild.ids \cup page, {})
          /\ UNCHANGED doubtful
     ELSE /\ rebuild' = NoRebuild
          /\ doubtful' = doubtful \cup page
          /\ UNCHANGED index
  /\ UNCHANGED <<log, requests, pending, people, entering, failed>>

(* pruneParcelsExcept: the ids in the index are listed a page at a time,    *)
(* of a size that is the index's affair, and those which the rebuild has not*)
(* met...                                                                   *)
ListStale ==
  /\ \/ rebuild.stage = "read" /\ PageAfter(rebuild.cursor) = {}
     \/ rebuild.stage = "list"
  /\ \E last \in Ids : LET from == IF rebuild.stage = "list" THEN rebuild.cursor ELSE 0 IN
       /\ last > from
       /\ rebuild' = Rebuilding("delete", last, {}, rebuild.ids,
            {p \in Ids : index[p] # 0 /\ from < p /\ p <= last} \ rebuild.ids)
  /\ UNCHANGED <<log, requests, pending, index, people, entering, failed, doubtful>>

(* ...are deleted before the next page is asked for.                        *)
DeleteStale ==
  /\ rebuild.stage = "delete"
  /\ index' = [p \in Ids |-> IF p \in rebuild.stale THEN 0 ELSE index[p]]
  /\ rebuild' = IF \E p \in Ids : p > rebuild.cursor
                THEN Rebuilding("list", rebuild.cursor, {}, rebuild.ids, {}) ELSE NoRebuild
  /\ UNCHANGED <<log, requests, pending, people, entering, failed, doubtful>>

(* Where the index refuses either, what is left stays.                      *)
PruneFails ==
  /\ \/ rebuild.stage = "read" /\ PageAfter(rebuild.cursor) = {}
     \/ rebuild.stage \in {"list", "delete"}
  /\ rebuild' = NoRebuild
  /\ UNCHANGED <<log, requests, pending, index, people, entering, failed, doubtful>>

RebuildStep ==
  \/ ReadPage \/ ListStale \/ DeleteStale \/ PruneFails
  \/ \E ok \in BOOLEAN : UpsertPage(ok)

(* indexParcel and deleteParcel by hand: what is written is what the client *)
(* sends, and the vector may be dropped.                                    *)
WriteByHand(p, vector) ==
  /\ phase = "up" /\ p \in Parcels \cup Gone
  /\ index' = [index EXCEPT ![p] = vector]
  /\ doubtful' = doubtful \cup {p}
  /\ UNCHANGED <<log, requests, pending, people, rebuild, entering, failed>>

----------------------------------------------------------------------------
(* Shutdown and crash                                                      *)

(* SIGTERM: nothing new is accepted; the requests in flight are answered... *)
Shutdown ==
  /\ phase = "up" /\ phase' = "closing"
  /\ UNCHANGED <<log, begun, requests, pending, index, people, rebuild, awaited, failed,
                 doubtful, cut>>

Serving == \E h \in Handlers : begun[h] # NotBegun \/ requests[h] # 0

(* ...then onApplicationShutdown drains. *)
StartDrain ==
  /\ phase = "closing" /\ rebuild.stage = "none" /\ ~Serving
  /\ phase' = "draining" /\ awaited' = {}
  /\ UNCHANGED <<log, begun, requests, pending, index, people, rebuild, failed, doubtful, cut>>

(* The names the tasks keep while they go through their stages. *)
Names(T) == {<<t.kind, t.parcel, t.by, t.move, IF t.kind = "mail" THEN t.to ELSE {}>> : t \in T}

(* Mutant: the loop ends when the first tasks it waited for have. *)
DrainedOnce == pending = {} \/ awaited # {}

Drained == pending = {}

(* Each turn of the loop waits for the tasks there are when it starts. *)
drain ==
  /\ phase = "draining" /\ awaited \cap Names(pending) = {}
  /\ IF Drained THEN phase' = "stopped" /\ awaited' = {}
     ELSE awaited' = Names(pending) /\ UNCHANGED phase
  /\ UNCHANGED <<log, begun, requests, pending, index, people, rebuild, failed, doubtful, cut>>

(* The process dies and is started again: what was in flight is lost. *)
Crash ==
  /\ phase # "stopped"
  /\ phase' = "up" /\ awaited' = {}
  /\ begun' = [h \in Handlers |-> NotBegun] /\ requests' = [h \in Handlers |-> 0]
  /\ pending' = {} /\ rebuild' = NoRebuild
  /\ cut' = [p \in Ids |-> NewestOf(p)]
  /\ doubtful' = doubtful \cup {t.parcel : t \in pending} \cup {x[1] : x \in rebuild.page}
                    \cup {requests[h] : h \in {h \in Handlers : requests[h] # 0}}
  /\ UNCHANGED <<log, index, people, failed>>

----------------------------------------------------------------------------
Progress ==
  \/ \E h \in Handlers : RollBack(h) \/ Announce(h)
  \/ TaskStep
  \/ RebuildStep
  \/ StartDrain \/ drain

Next ==
  \/ Progress
  \/ \E h \in Handlers, p \in Ids : Begin(h, p) \/ \E entry \in Entry : Commit(h, p, entry)
  \/ \E u \in Users : markRead(u) \/ markAllRead(u)
  \/ pruneOld
  \/ reindexAll
  \/ \E p \in Ids : \E vector \in {0, 1} : WriteByHand(p, vector)
  \/ Shutdown \/ Crash

Spec == Init /\ [][Next]_announcementVars

(* Promises settle and the calls they wait for return: what has started    *)
(* goes on.                                                                *)
FairSpec == Spec /\ WF_announcementVars(Progress)

----------------------------------------------------------------------------
Quiet == pending = {} /\ \A h \in Handlers : requests[h] = 0

(* The newest move reached everyone it concerns but the one who made it:   *)
(* each channel by itself, whatever the others did.                        *)
Told(p) ==
  LET n == NewestOf(p)
      who == recipientIds(p, n, "admins" \notin failed)
      reached(rows, u) == \E r \in rows : r.to = u /\ r.parcel = p /\ r.move = n
  IN
  /\ \A u \in who : reached({x.row : x \in pushed}, u)
  /\ "inbox" \notin failed => \A u \in who : reached({x.row : x \in inbox}, u)
  /\ log[p][n].mail /\ "mail" \notin failed =>
       \A u \in Parties \ OptedOut : reached(mailed, u)

(* A push that carries the id of an inbox row has that row.                *)
PushesAreKept == \A x \in pushed : x.kept => \E r \in inbox : r.row = x.row

(* Once nothing is in flight, the newest move of every parcel has been told *)
(* to whom it concerns, in whatever order the requests and their tasks ran  *)
(* (announce, notifyStatusChange); moves a crash cut off are not.           *)
NewestMoveIsTold ==
  /\ Quiet => \A p \in Parcels : NewestOf(p) > cut[p] => Told(p)
  /\ PushesAreKept

(* Once nothing is in flight, the assistant's copy of a parcel is the parcel *)
(* as it is (announce, reindexAll), unless its last writes failed or raced   *)
(* with one another.                                                         *)
QuietIndexIsCurrent ==
  Quiet /\ rebuild.stage = "none" =>
    \A p \in Parcels \ doubtful : index[p] = NewestOf(p)

(* An orderly exit leaves no task behind, those that tasks started included, *)
(* and no move untold (BackgroundService.drain).                             *)
NothingLeftBehind == phase = "stopped" => Quiet /\ ~Serving /\ rebuild.stage = "none"

(* A shutdown that has begun ends (drain): no task keeps it for ever. *)
ShutdownEnds == phase = "closing" ~> phase \in {"stopped", "up"}

=============================================================================
