------------------------ MODULE Announcements_proofs ------------------------
(***************************************************************************)
(* What holds of the announcements of moves for any number of parcels,     *)
(* requests, parties and administrators and any page size, however their   *)
(* tasks interleave with a rebuild, a shutdown and a crash; and of the     *)
(* assistant beside them, for any number of documents and clients.         *)
(***************************************************************************)
EXTENDS Assistant, FiniteSetTheorems, NaturalsInduction, WellFoundedInduction, TLAPS

(* A move of p is committed and not yet announced. *)
Requested(p) == \E h \in Handlers : requests[h] = p

(* The tasks that will write the vector of p, and the parcels of the page  *)
(* a rebuild has read and not yet written.                                 *)
Writers(p) == {t \in pending : t.kind = "index" /\ t.parcel = p}
Paged == {x[1] : x \in rebuild.page}

AnnouncementsOK ==
  /\ log \in [Ids -> Seq(Entry)]
  /\ begun \in [Handlers -> [parcel : Ids \cup {0}, after : Nat]]
  /\ requests \in [Handlers -> Ids \cup {0}]
  /\ \A h \in Handlers : begun[h].parcel # 0 => requests[h] = 0
  /\ index \in [Ids -> Nat]
  /\ cut \in [Ids -> Nat]
  /\ \A t \in pending : t.parcel \in Ids /\ t.move \in Nat
  /\ phase \in {"up", "closing", "draining", "stopped"}
  /\ rebuild.stage \in {"none", "read", "upsert", "list", "delete"}
  /\ rebuild.cursor \in Nat /\ rebuild.ids \subseteq Ids
  /\ rebuild.page \subseteq Ids \X Nat
  /\ rebuild.stage # "upsert" => rebuild.page = {}
  /\ rebuild.stage = "upsert" => rebuild.page # {}

(* The drain starts when nothing but tasks is left, and ends when none is. *)
Draining ==
  /\ phase \in {"draining", "stopped"} =>
       rebuild.stage = "none" /\ ~Serving
  /\ phase = "stopped" => pending = {}

-----------------------------------------------------------------------------
(* The index *)

(* A vector that is not in doubt has one writer at most. *)
Alone(p) ==
  p \notin doubtful =>
    /\ \A t, u \in Writers(p) : t = u
    /\ p \in Paged => Writers(p) = {}

(* Once its moves are announced, what is or will be written is the newest. *)
Fresh(p) ==
  p \in Parcels /\ p \notin doubtful /\ ~Requested(p) =>
    /\ \A t \in Writers(p) : t.move = NewestOf(p)
    /\ \A x \in rebuild.page : x[1] = p => x[2] = NewestOf(p)
    /\ Writers(p) = {} /\ p \notin Paged => index[p] = NewestOf(p)

(* A rebuild has met such a parcel, or will. *)
Met(p) ==
  p \in Parcels /\ p \notin doubtful /\ ~Requested(p) =>
    /\ rebuild.stage = "read" => p \in rebuild.ids \/ p > rebuild.cursor
    /\ rebuild.stage = "upsert" =>
         p \in rebuild.ids \cup Paged \/ \A q \in Paged : p > q
    /\ rebuild.stage \in {"list", "delete"} => p \in rebuild.ids /\ p \notin rebuild.stale

Indexing == \A p \in Ids : Alone(p) /\ Fresh(p) /\ Met(p)

-----------------------------------------------------------------------------
(* Telling people *)

Who(p) == recipientIds(p, NewestOf(p), "admins" \notin failed)

Reached(rows, p, n, u) == \E r \in rows : r.to = u /\ r.parcel = p /\ r.move = n

(* The newest move of p is on its way: the stage its task has reached says *)
(* what it still owes to whom.                                             *)
Carries(t, p) ==
  /\ t.kind = "notify" /\ t.parcel = p /\ t.move = NewestOf(p)
  /\ \/ t.stage = "lookup"
     \/ t.stage \in {"store", "stored"} /\ Who(p) \subseteq t.to
     \/ t.stage = "unstored" /\ Who(p) \subseteq t.to /\ "inbox" \in failed

OnItsWay(p) == \E t \in pending : Carries(t, p)

Rows(S) == {x.row : x \in S}

(* It was pushed, and stored if it could be; its e-mails are sent, failed, *)
(* or on their way.                                                        *)
Mailing(p, u) ==
  \/ Reached(mailed, p, NewestOf(p), u)
  \/ \E t \in pending : t.kind = "mail" /\ t.parcel = p /\ t.move = NewestOf(p) /\ u \in t.to

Delivered(p) ==
  /\ \A u \in Who(p) : Reached(Rows(pushed), p, NewestOf(p), u)
  /\ "inbox" \notin failed => \A u \in Who(p) : Reached(Rows(inbox), p, NewestOf(p), u)
  /\ log[p][NewestOf(p)].mail /\ "mail" \notin failed =>
       \A u \in Parties \ OptedOut : Mailing(p, u)

(* Every row a task says it stored is in the inbox. *)
Stored ==
  \A t \in pending : t.kind = "notify" /\ t.stage = "stored" =>
    \A u \in t.to : \E r \in inbox : r.row = Row(u, t)

Telling ==
  /\ \A p \in Ids : p \in Parcels /\ NewestOf(p) > cut[p] =>
       Requested(p) \/ OnItsWay(p) \/ Delivered(p)
  /\ Stored
  /\ PushesAreKept

AInv == AnnouncementsOK /\ Draining /\ Indexing /\ Telling

-----------------------------------------------------------------------------
(* Pages *)

LEMMA LeastNatural ==
  ASSUME NEW S, S \subseteq Nat, S # {}
  PROVE  \E x \in S : \A y \in S : x <= y
<1>1. PICK x \in S : \A y \in S : <<y, x>> \notin OpToRel(<, Nat)
  BY NatLessThanWellFounded, WFMin, Zenon
<1>2. \A y \in S : ~(y < x)
  BY <1>1 DEF OpToRel
<1>. QED
  BY <1>2, SMT

(* Among finitely many ids, those below one are fewer than those below a   *)
(* greater one.                                                            *)
Below(S, p) == {q \in S : q < p}

LEMMA BelowGrows ==
  ASSUME NEW S, S \subseteq Nat, IsFiniteSet(S), NEW p \in S, NEW r \in S, p < r
  PROVE  /\ Cardinality(Below(S, p)) \in Nat
         /\ Cardinality(Below(S, r)) \in Nat
         /\ Cardinality(Below(S, p)) < Cardinality(Below(S, r))
         /\ Cardinality(Below(S, r)) <= Cardinality(S)
<1>1. Below(S, r) \subseteq S /\ Below(S, p) \subseteq Below(S, r)
  <2>1. \A q \in S : q < p => q < r
    BY SMT
  <2>. QED
    BY <2>1, Zenon DEF Below
<1>2. p \in Below(S, r) /\ p \notin Below(S, p)
  BY SMT DEF Below
<1>3. IsFiniteSet(Below(S, r)) /\ IsFiniteSet(Below(S, p))
  BY <1>1, FS_Subset
<1>. QED
  BY <1>1, <1>2, <1>3, FS_Subset, FS_CardinalityType, SMT

(* A finite set of ids has a greatest one. *)
LEMMA GreatestNatural ==
  ASSUME NEW S, S \subseteq Nat, IsFiniteSet(S), S # {}
  PROVE  Max(S) \in S /\ \A y \in S : Max(S) >= y
<1> DEFINE gap(p) == Cardinality(S) - Cardinality(Below(S, p))
           gaps == {gap(p) : p \in S}
<1>1. \A p \in S : /\ Cardinality(Below(S, p)) \in Nat
                   /\ Cardinality(Below(S, p)) <= Cardinality(S)
  <2>1. \A p \in S : Below(S, p) \subseteq S
    BY DEF Below
  <2>. QED
    BY <2>1, FS_Subset, FS_CardinalityType, SMT
<1>2. gaps \subseteq Nat /\ gaps # {}
  <2>1. \A p \in S : gap(p) \in Nat
    BY <1>1, FS_CardinalityType, SMT
  <2>. QED
    BY <2>1, Zenon
<1>3. PICK x \in S : \A y \in S : gap(x) <= gap(y)
  <2>1. PICK g \in gaps : \A k \in gaps : g <= k
    <3> HIDE DEF gaps
    <3>. QED
      BY <1>2, LeastNatural, Zenon
  <2>. QED
    BY <2>1
<1>4. \A y \in S : x >= y
  <2>1. SUFFICES ASSUME NEW y \in S, ~(x >= y) PROVE FALSE
    OBVIOUS
  <2>2. x < y
    BY <2>1, SMT
  <2>3. Cardinality(Below(S, x)) < Cardinality(Below(S, y))
    BY <2>2, BelowGrows, Zenon
  <2>. QED
    BY <1>1, <1>3, <2>3, FS_CardinalityType, SMT
<1>. QED
  BY <1>4, Zenon DEF Max

(* A page holds ids beyond the cursor, leaves out greater ones only, and   *)
(* is empty at the end of the table only.                                  *)
LEMMA PageFacts ==
  ASSUME NEW c
  PROVE  /\ PageAfter(c) \subseteq Parcels
         /\ \A p \in Parcels : p > c /\ p \notin PageAfter(c) => \A q \in PageAfter(c) : p > q
         /\ PageAfter(c) = {} => \A p \in Parcels : ~(p > c)
<1> DEFINE rest == {p \in Parcels : p > c}
<1>1. rest \subseteq Parcels /\ Parcels \subseteq Ids /\ rest \subseteq Nat
  BY AnnouncementsAssumption DEF Parcels
<1>2. IsFiniteSet(rest)
  BY <1>1, AnnouncementsAssumption, FS_Subset
<1>3. PageAfter(c) = {p \in rest : Cardinality(Below(rest, p)) < PageSize}
  BY DEF PageAfter, Below
<1>4. PageSize \in Nat \ {0}
  BY AnnouncementsAssumption
<1>5. \A p \in rest : Cardinality(Below(rest, p)) \in Nat
  <2>1. \A p \in rest : Below(rest, p) \subseteq rest
    BY DEF Below
  <2>. QED
    BY <1>2, <2>1, FS_Subset, FS_CardinalityType
<1>6. ASSUME NEW p \in rest, p \notin PageAfter(c), NEW q \in PageAfter(c) PROVE p > q
  <2>1. SUFFICES ASSUME ~(p > q) PROVE FALSE
    OBVIOUS
  <2>2. q \in rest /\ p # q
    BY <1>3, <1>6
  <2>3. p < q
    BY <1>1, <2>1, <2>2, SMT
  <2>4. Cardinality(Below(rest, p)) < Cardinality(Below(rest, q))
    <3> HIDE DEF rest
    <3>. QED
      BY <1>1, <1>2, <1>6, <2>2, <2>3, BelowGrows, Zenon
  <2>. QED
    <3> HIDE DEF rest
    <3>. QED
      BY <1>3, <1>4, <1>5, <1>6, <2>2, <2>4, SMT
<1>7. ASSUME rest # {} PROVE PageAfter(c) # {}
  <2>1. PICK x \in rest : \A y \in rest : x <= y
    <3> HIDE DEF rest
    <3>. QED
      BY <1>1, <1>7, LeastNatural, Zenon
  <2>2. \A y \in rest : ~(y < x)
    <3> HIDE DEF rest
    <3>. QED
      BY <1>1, <2>1, SMT
  <2>3. Below(rest, x) = {}
    BY <2>2, Zenon DEF Below
  <2>4. Cardinality(Below(rest, x)) < PageSize
    BY <1>4, <2>3, FS_EmptySet, SMT
  <2>. QED
    BY <1>3, <2>4, Zenon
<1>. QED
  BY <1>1, <1>3, <1>6, <1>7, Zenon

LEMMA PagedFacts ==
  ASSUME AnnouncementsOK, rebuild.stage = "upsert"
  PROVE  /\ Paged \subseteq Ids
         /\ Max(Paged) \in Paged
         /\ Max(Paged) \in Nat
<1>1. Paged \subseteq Ids /\ Paged # {}
  BY SMT DEF AnnouncementsOK, Paged
<1>2. Paged \subseteq Nat /\ IsFiniteSet(Paged)
  BY <1>1, AnnouncementsAssumption, FS_Subset
<1>. QED
  BY <1>1, <1>2, GreatestNatural

-----------------------------------------------------------------------------
(* Types, and the shutdown *)

USE DEF people, process, entering

LEMMA EnterTypes ==
  ASSUME AnnouncementsOK, NEW h \in Handlers, (\E p \in Ids : Begin(h, p)) \/ RollBack(h)
  PROVE  AnnouncementsOK'
<1>1. CASE \E p \in Ids : Begin(h, p)
  <2>1. PICK p \in Ids : Begin(h, p)
    BY <1>1
  <2>2. NewestOf(p) \in Nat
    BY DEF AnnouncementsOK, NewestOf
  <2>. QED
    BY <2>1, <2>2, SMT DEF AnnouncementsOK, Begin
<1>2. CASE RollBack(h)
  BY <1>2, SMT DEF AnnouncementsOK, RollBack, NotBegun
<1>. QED
  BY <1>1, <1>2

LEMMA CommitTypes ==
  ASSUME AnnouncementsOK, NEW h \in Handlers, NEW p \in Ids, NEW entry \in Entry,
         Commit(h, p, entry)
  PROVE  AnnouncementsOK'
<1>1. Append(log[p], entry) \in Seq(Entry)
  BY DEF AnnouncementsOK
<1>2. begun' \in [Handlers -> [parcel : Ids \cup {0}, after : Nat]]
  BY SMT DEF AnnouncementsOK, Commit, NotBegun
<1>3. \A k \in Handlers : begun'[k].parcel # 0 => requests'[k] = 0
  BY SMT DEF AnnouncementsOK, Commit, NotBegun
<1>. QED
  BY <1>1, <1>2, <1>3, SMT DEF AnnouncementsOK, Commit

LEMMA AnnounceTypes ==
  ASSUME AnnouncementsOK, NEW h \in Handlers, Announce(h)
  PROVE  AnnouncementsOK'
<1>1. requests[h] \in Ids
  BY DEF AnnouncementsOK, Announce
<1>2. NewestOf(requests[h]) \in Nat
  BY <1>1 DEF AnnouncementsOK, NewestOf
<1>3. \A t \in pending' : t.parcel \in Ids /\ t.move \in Nat
  BY <1>1, <1>2, SMT DEF AnnouncementsOK, Announce, Task, Reread
<1>. QED
  BY <1>3, SMT DEF AnnouncementsOK, Announce

LEMMA TaskTypes ==
  ASSUME AnnouncementsOK, TaskStep
  PROVE  AnnouncementsOK'
<1>1. PICK t \in pending, ok \in BOOLEAN :
        Upsert(t, ok) \/ Lookup(t, ok) \/ Store(t, ok) \/ Send(t, ok) \/ Push(t)
  BY DEF TaskStep
<1>2. t.parcel \in Ids /\ t.move \in Nat
  BY DEF AnnouncementsOK
<1>3. \A u \in pending' : u.parcel \in Ids /\ u.move \in Nat
  <2>1. \A u \in pending' \ pending : u.parcel = t.parcel /\ u.move = t.move
    BY <1>1, SMT DEF Upsert, Lookup, Store, Send, Push, Settled, Becomes, statusMails, Task
  <2>. QED
    BY <1>2, <2>1 DEF AnnouncementsOK
<1>4. index' \in [Ids -> Nat]
  <2>1. index' = index \/ index' = [index EXCEPT ![t.parcel] = t.move]
    BY <1>1 DEF Upsert, Lookup, Store, Send, Push
  <2>. QED
    BY <1>2, <2>1 DEF AnnouncementsOK
<1>5. UNCHANGED <<log, begun, requests, cut, phase, rebuild>>
  BY <1>1 DEF Upsert, Lookup, Store, Send, Push
<1>. QED
  BY <1>3, <1>4, <1>5 DEF AnnouncementsOK

LEMMA ReadPageTypes ==
  ASSUME AnnouncementsOK, ReadPage
  PROVE  AnnouncementsOK'
<1> DEFINE page == PageAfter(rebuild.cursor)
<1>1. page \subseteq Parcels /\ Parcels \subseteq Ids /\ page # {}
  BY PageFacts DEF Parcels, ReadPage
<1>2. \A p \in page : NewestOf(p) \in Nat
  BY <1>1 DEF AnnouncementsOK, NewestOf
<1>3. Snapshot(page) \subseteq Ids \X Nat /\ Snapshot(page) # {}
  <2> HIDE DEF page
  <2>1. \A p \in page : <<p, NewestOf(p)>> \in Ids \X Nat
    BY <1>1, <1>2, SMT
  <2>. QED
    BY <1>1, <2>1, Zenon DEF Snapshot
<1>4. rebuild' = Rebuilding("upsert", rebuild.cursor, Snapshot(page), rebuild.ids, {})
  BY DEF ReadPage
<1>. QED
  <2> HIDE DEF page
  <2>. QED
    BY <1>3, <1>4, SMT DEF AnnouncementsOK, ReadPage, Rebuilding

(* The vector a rebuild writes is the one it took of that parcel. *)
LEMMA PageVector ==
  ASSUME NEW p \in Paged
  PROVE  /\ (CHOOSE x \in rebuild.page : x[1] = p) \in rebuild.page
         /\ (CHOOSE x \in rebuild.page : x[1] = p)[1] = p
<1>1. \E x \in rebuild.page : x[1] = p
  BY DEF Paged
<1>. QED
  BY <1>1, Zenon

LEMMA UpsertPageTypes ==
  ASSUME AnnouncementsOK, NEW ok \in BOOLEAN, UpsertPage(ok)
  PROVE  AnnouncementsOK'
<1>1. Paged = {x[1] : x \in rebuild.page} /\ rebuild.stage = "upsert"
  BY DEF Paged, UpsertPage
<1>2. CASE ok
  <2>1. rebuild' = Rebuilding("read", Max(Paged), {}, rebuild.ids \cup Paged, {})
    BY <1>1, <1>2 DEF UpsertPage
  <2>2. \A p \in Paged : (CHOOSE x \in rebuild.page : x[1] = p)[2] \in Nat
    BY PageVector, SMT DEF AnnouncementsOK
  <2>3. index' \in [Ids -> Nat]
    <3>1. index' = [p \in Ids |-> IF p \in Paged
                                   THEN (CHOOSE x \in rebuild.page : x[1] = p)[2]
                                   ELSE index[p]]
      BY <1>1, <1>2 DEF UpsertPage
    <3>. QED
      BY <2>2, <3>1 DEF AnnouncementsOK
  <2>4. UNCHANGED <<log, begun, requests, cut, phase, pending>>
    BY DEF UpsertPage
  <2>. QED
    BY <1>1, <2>1, <2>3, <2>4, PagedFacts, SMT DEF AnnouncementsOK, Rebuilding
<1>3. CASE ~ok
  BY <1>3, SMT DEF AnnouncementsOK, UpsertPage, NoRebuild
<1>. QED
  BY <1>2, <1>3

LEMMA OtherTypes ==
  ASSUME AnnouncementsOK,
         \/ \E u \in Users : markRead(u) \/ markAllRead(u)
         \/ pruneOld \/ reindexAll \/ ListStale \/ DeleteStale \/ PruneFails
         \/ \E p \in Ids : \E vector \in {0, 1} : WriteByHand(p, vector)
         \/ Shutdown \/ StartDrain \/ drain \/ Crash
  PROVE  AnnouncementsOK'
<1>1. CASE (\E u \in Users : markRead(u) \/ markAllRead(u)) \/ pruneOld
  BY <1>1, SMT DEF AnnouncementsOK, markRead, markAllRead, pruneOld, Mark
<1>2. CASE reindexAll \/ PruneFails
  BY <1>2, SMT DEF AnnouncementsOK, reindexAll, PruneFails, Rebuilding, NoRebuild
<1>3. CASE ListStale
  <2>1. PICK last, ids :
          last \in Ids /\ rebuild' = Rebuilding("delete", last, {}, rebuild.ids, ids)
    BY <1>3, Zenon DEF ListStale
  <2>2. last \in Nat
    BY <2>1, AnnouncementsAssumption
  <2>3. UNCHANGED <<log, begun, requests, index, cut, pending, phase>>
    BY <1>3 DEF ListStale
  <2>. QED
    BY <2>1, <2>2, <2>3, SMT DEF AnnouncementsOK, Rebuilding
<1>7. CASE DeleteStale
  BY <1>7, SMT DEF AnnouncementsOK, DeleteStale, NoRebuild, Rebuilding
<1>4. CASE \E p \in Ids : \E vector \in {0, 1} : WriteByHand(p, vector)
  BY <1>4, SMT DEF AnnouncementsOK, WriteByHand
<1>5. CASE Shutdown \/ StartDrain \/ drain
  BY <1>5, SMT DEF AnnouncementsOK, Shutdown, StartDrain, drain
<1>6. CASE Crash
  <2>1. \A p \in Ids : NewestOf(p) \in Nat
    BY DEF AnnouncementsOK, NewestOf
  <2>. QED
    BY <1>6, <2>1, SMT DEF AnnouncementsOK, Crash, NoRebuild, NotBegun
<1>. QED
  BY <1>1, <1>2, <1>3, <1>4, <1>5, <1>6, <1>7

LEMMA AnnouncementsTyped ==
  ASSUME AnnouncementsOK, [Next]_announcementVars
  PROVE  AnnouncementsOK'
<1>1. CASE UNCHANGED announcementVars
  BY <1>1, SMT DEF AnnouncementsOK, announcementVars
<1>. QED
  BY <1>1, EnterTypes, CommitTypes, AnnounceTypes, TaskTypes, ReadPageTypes, UpsertPageTypes,
     OtherTypes,
     Zenon DEF Next, Progress, RebuildStep

LEMMA DrainingKept ==
  ASSUME AnnouncementsOK, Draining, [Next]_announcementVars
  PROVE  Draining'
<1>1. CASE \E h \in Handlers, p \in Ids :
              Begin(h, p) \/ \E entry \in Entry : Commit(h, p, entry)
  <2>1. PICK h \in Handlers, p \in Ids :
          Begin(h, p) \/ \E entry \in Entry : Commit(h, p, entry)
    BY <1>1
  <2>2. phase = "up" \/ begun[h] # NotBegun
    BY <2>1, SMT DEF Begin, Commit, NotBegun
  <2>3. phase \notin {"draining", "stopped"}
    BY <2>2, SMT DEF Draining, Serving
  <2>4. phase' = phase
    BY <2>1 DEF Begin, Commit
  <2>. QED
    BY <2>3, <2>4 DEF Draining
<1>2. CASE \E h \in Handlers : RollBack(h) \/ Announce(h)
  <2>1. PICK h \in Handlers : RollBack(h) \/ Announce(h)
    BY <1>2
  <2>2. begun[h] # NotBegun \/ requests[h] # 0
    BY <2>1 DEF Announce, RollBack
  <2>3. phase \notin {"draining", "stopped"} /\ phase' = phase
    BY <2>1, <2>2 DEF Draining, Serving, Announce, RollBack
  <2>. QED
    BY <2>3 DEF Draining
<1>3. CASE TaskStep
  <2>1. pending # {} /\ UNCHANGED <<begun, requests, rebuild, phase>>
    BY <1>3, SMT DEF TaskStep, Upsert, Lookup, Store, Send, Push
  <2>. QED
    BY <2>1 DEF Draining, Serving
<1>4. CASE RebuildStep \/ reindexAll
  <2>1. phase \notin {"draining", "stopped"} /\ phase' = phase
    <3>1. rebuild.stage # "none" \/ phase = "up"
      BY <1>4 DEF RebuildStep, ReadPage, ListStale, UpsertPage, DeleteStale, PruneFails,
                    reindexAll
    <3>2. phase' = phase
      BY <1>4 DEF RebuildStep, ReadPage, ListStale, UpsertPage, DeleteStale, PruneFails,
                    reindexAll
    <3>. QED
      BY <3>1, <3>2, SMT DEF Draining
  <2>. QED
    BY <2>1 DEF Draining
<1>5. CASE (\E u \in Users : markRead(u) \/ markAllRead(u)) \/ pruneOld
  BY <1>5, SMT DEF Draining, Serving, markRead, markAllRead, pruneOld, Mark
<1>6. CASE \E p \in Ids : \E vector \in {0, 1} : WriteByHand(p, vector)
  BY <1>6, SMT DEF Draining, Serving, WriteByHand
<1>7. CASE Shutdown \/ StartDrain
  BY <1>7, SMT DEF Draining, Serving, Shutdown, StartDrain
<1>8. CASE drain
  BY <1>8, SMT DEF Draining, Serving, drain, Drained
<1>9. CASE Crash
  BY <1>9, SMT DEF Draining, Crash
<1>10. CASE UNCHANGED announcementVars
  BY <1>10, SMT DEF Draining, Serving, announcementVars
<1>. QED
  BY <1>1, <1>2, <1>3, <1>4, <1>5, <1>6, <1>7, <1>8, <1>9, <1>10, Zenon DEF Next, Progress

-----------------------------------------------------------------------------
(* The index, step by step *)

(* What a step leaves of one parcel's vector, its writers and its doubt. *)
SameVector(p) ==
  /\ Writers(p)' = Writers(p) /\ index'[p] = index[p] /\ log'[p] = log[p]
  /\ p \notin doubtful' => p \notin doubtful
  /\ ~Requested(p)' => ~Requested(p)

LEMMA SameVectorKept ==
  ASSUME AnnouncementsOK, NEW p \in Ids, SameVector(p), rebuild' = rebuild,
         Alone(p), Fresh(p), Met(p)
  PROVE  Alone(p)' /\ Fresh(p)' /\ Met(p)'
<1>1. NewestOf(p)' = NewestOf(p) /\ (p \in Parcels' => p \in Parcels) /\ Paged' = Paged
  BY DEF SameVector, NewestOf, Parcels, Paged
<1>2. Alone(p)'
  BY <1>1, Zenon DEF SameVector, Alone
<1>3. Fresh(p)'
  BY <1>1, Zenon DEF SameVector, Fresh
<1>4. Met(p)'
  BY <1>1, Zenon DEF SameVector, Met
<1>. QED
  BY <1>2, <1>3, <1>4

LEMMA IndexingUntouched ==
  ASSUME AnnouncementsOK, Indexing, UNCHANGED <<log, requests, index, rebuild, doubtful>>,
         \A t : t.kind = "index" => (t \in pending' <=> t \in pending)
  PROVE  Indexing'
<1>1. ASSUME NEW p \in Ids PROVE SameVector(p)
  <2>1. Writers(p)' = Writers(p)
    BY Zenon DEF Writers
  <2>2. Requested(p)' <=> Requested(p)
    BY DEF Requested
  <2>. QED
    BY <2>1, <2>2 DEF SameVector
<1>. QED
  BY <1>1, SameVectorKept, Zenon DEF Indexing

LEMMA EnterIndexing ==
  ASSUME AnnouncementsOK, Indexing, NEW h \in Handlers, (\E p \in Ids : Begin(h, p)) \/ RollBack(h)
  PROVE  Indexing'
<1>1. UNCHANGED <<log, requests, index, rebuild, doubtful, pending>>
  BY DEF Begin, RollBack
<1>. QED
  BY <1>1, IndexingUntouched

LEMMA CommitIndexing ==
  ASSUME AnnouncementsOK, Indexing, NEW h \in Handlers, NEW p \in Ids, NEW entry \in Entry,
         Commit(h, p, entry)
  PROVE  Indexing'
<1>1. p # 0 /\ 0 \notin Ids
  BY AnnouncementsAssumption
<1>2. \A q : Writers(q)' = Writers(q)
  BY DEF Commit, Writers
<1>3. ASSUME NEW q \in Ids, q # p PROVE SameVector(q)
  <2>1. ~Requested(q)' => ~Requested(q)
    BY <1>1, SMT DEF AnnouncementsOK, Requested, Commit
  <2>2. log'[q] = log[q]
    BY <1>3 DEF AnnouncementsOK, Commit
  <2>. QED
    BY <1>2, <2>1, <2>2 DEF SameVector, Commit
<1>4. Requested(p)'
  BY DEF AnnouncementsOK, Requested, Commit
<1>5. Alone(p)'
  BY <1>2 DEF Indexing, Alone, Commit, Paged
<1>6. Fresh(p)' /\ Met(p)'
  BY <1>4, Zenon DEF Fresh, Met
<1>7. rebuild' = rebuild
  BY DEF Commit
<1>. QED
  BY <1>3, <1>5, <1>6, <1>7, SameVectorKept, Zenon DEF Indexing

LEMMA AnnounceIndexing ==
  ASSUME AnnouncementsOK, Indexing, NEW h \in Handlers, Announce(h)
  PROVE  Indexing'
<1>1. PICK p \in Ids : p = requests[h]
  BY DEF AnnouncementsOK, Announce
<1>. PICK n : n = NewestOf(p)
  OBVIOUS
<1> DEFINE write == Task("index", p, h, n, "upsert", {})
           tell == Task("notify", p, h, n, "lookup", {})
<1>2. /\ pending' = pending \cup {write, tell}
      /\ requests' = [requests EXCEPT ![h] = 0]
      /\ doubtful' = IF Unsure(p) THEN doubtful \cup {p} ELSE doubtful \ {p}
      /\ UNCHANGED <<log, index, rebuild>>
  BY <1>1 DEF Announce, Reread
<1>3. write.kind = "index" /\ write.parcel = p /\ write.move = n /\ tell.kind = "notify"
  BY DEF Task
<1>4. ASSUME NEW q \in Ids, q # p PROVE SameVector(q)
  <2>1. Writers(q)' = Writers(q)
    <3>1. \A t : t \in Writers(q)' <=> t \in Writers(q)
      <4> HIDE DEF write, tell
      <4>. QED
        BY <1>2, <1>3, <1>4, Zenon DEF Writers
    <3>. QED
      BY <3>1, Zenon DEF Writers
  <2>2. ~Requested(q)' => ~Requested(q)
    BY <1>1, <1>2, <1>4 DEF AnnouncementsOK, Requested
  <2>3. q \notin doubtful' => q \notin doubtful
    BY <1>2, <1>4
  <2>. QED
    BY <1>2, <2>1, <2>2, <2>3 DEF SameVector
<1>5. ASSUME p \notin doubtful' PROVE Alone(p)' /\ Fresh(p)' /\ Met(p)'
  <2>1. ~Unsure(p)
    BY <1>2, <1>5
  <2>2. rebuild.stage = "none" /\ rebuild.page = {}
    BY <2>1 DEF AnnouncementsOK, Unsure
  <2>3. \A t : t \in Writers(p)' <=> t = write
    <3>1. \A t \in pending : ~(t.kind = "index" /\ t.parcel = p)
      BY <2>1, Zenon DEF Unsure
    <3> HIDE DEF write, tell
    <3>. QED
      BY <1>2, <1>3, <3>1, Zenon DEF Writers
  <2>4. NewestOf(p)' = NewestOf(p) /\ rebuild' = rebuild
    BY <1>2 DEF NewestOf
  <2>5. p \notin Paged' /\ rebuild'.page = {}
    BY <2>2, <2>4 DEF Paged
  <2>6. Alone(p)'
    <3> HIDE DEF write, tell
    <3>1. \A t, u \in Writers(p)' : t = u
      BY <2>3, SMT
    <3>. QED
      BY <2>5, <3>1 DEF Alone
  <2>7. Fresh(p)'
    <3> HIDE DEF write, tell
    <3>. QED
      BY <1>3, <2>3, <2>4, <2>5, SMT DEF Fresh
  <2>8. Met(p)'
    BY <2>2, <2>4 DEF Met
  <2>. QED
    BY <2>6, <2>7, <2>8
<1>6. ASSUME p \in doubtful' PROVE Alone(p)' /\ Fresh(p)' /\ Met(p)'
  BY <1>6, Zenon DEF Alone, Fresh, Met
<1>7. rebuild' = rebuild
  BY <1>2
<1>. QED
  BY <1>4, <1>5, <1>6, <1>7, SameVectorKept, Zenon DEF Indexing

LEMMA UpsertIndexing ==
  ASSUME AnnouncementsOK, Indexing, NEW t \in pending, NEW ok \in BOOLEAN, Upsert(t, ok)
  PROVE  Indexing'
<1> DEFINE p == t.parcel
<1>1. p \in Ids /\ t \in Writers(p) /\ t.kind = "index"
  BY DEF AnnouncementsOK, Upsert, Tasks, Writers
<1>2. /\ pending' = pending \ {t}
      /\ index' = IF ok THEN [index EXCEPT ![p] = t.move] ELSE index
      /\ doubtful' = IF ok THEN doubtful ELSE doubtful \cup {p}
      /\ UNCHANGED <<log, requests, rebuild>>
  BY DEF Upsert, Settled
<1>3. ASSUME NEW q \in Ids, q # p PROVE SameVector(q)
  <2>1. Writers(q)' = Writers(q)
    BY <1>2, <1>3 DEF Writers
  <2>2. index'[q] = index[q]
    BY <1>2, <1>3 DEF AnnouncementsOK
  <2>. QED
    BY <1>2, <2>1, <2>2 DEF SameVector, Requested
<1>4. ASSUME p \notin doubtful' PROVE Alone(p)' /\ Fresh(p)' /\ Met(p)'
  <2>1. ok /\ p \notin doubtful
    BY <1>2, <1>4
  <2>2. p \notin Paged /\ Writers(p) = {t}
    BY <1>1, <2>1 DEF Indexing, Alone
  <2>3. Writers(p)' = {} /\ p \notin Paged'
    BY <1>2, <2>2 DEF Writers, Paged
  <2>4. index'[p] = t.move
    BY <1>1, <1>2, <2>1 DEF AnnouncementsOK
  <2>5. /\ NewestOf(p)' = NewestOf(p) /\ Requested(p)' = Requested(p)
        /\ p \in Parcels' => p \in Parcels
        /\ rebuild' = rebuild
    BY <1>1, <1>2 DEF NewestOf, Requested, Parcels
  <2>6. Alone(p)'
    BY <2>3 DEF Alone
  <2>7. Fresh(p)'
    <3>1. Fresh(p)
      BY <1>1 DEF Indexing
    <3>. QED
      BY <1>1, <2>1, <2>3, <2>4, <2>5, <3>1, Zenon DEF Fresh
  <2>8. Met(p)'
    <3>1. Met(p) /\ Paged' = Paged
      BY <1>1, <1>2 DEF Indexing, Paged
    <3>. QED
      BY <2>1, <2>5, <3>1, Zenon DEF Met
  <2>. QED
    BY <2>6, <2>7, <2>8
<1>5. ASSUME p \in doubtful' PROVE Alone(p)' /\ Fresh(p)' /\ Met(p)'
  BY <1>5, Zenon DEF Alone, Fresh, Met
<1>6. rebuild' = rebuild
  BY <1>2
<1>. QED
  <2> HIDE DEF p
  <2>. QED
    BY <1>3, <1>4, <1>5, <1>6, SameVectorKept, Zenon DEF Indexing

LEMMA TaskIndexing ==
  ASSUME AnnouncementsOK, Indexing, TaskStep
  PROVE  Indexing'
<1>1. PICK t \in pending, ok \in BOOLEAN :
        Upsert(t, ok) \/ Lookup(t, ok) \/ Store(t, ok) \/ Send(t, ok) \/ Push(t)
  BY DEF TaskStep
<1>2. CASE Upsert(t, ok)
  BY <1>2, UpsertIndexing
<1>3. CASE Lookup(t, ok) \/ Store(t, ok) \/ Send(t, ok) \/ Push(t)
  <2>1. UNCHANGED <<log, requests, index, rebuild, doubtful>>
    BY <1>3 DEF Lookup, Store, Send, Push
  <2>2. t.kind # "index"
    BY <1>3, SMT DEF Lookup, Store, Send, Push, Tasks
  <2>3. \A u \in pending' \ pending : u.kind = t.kind \/ u.kind = "mail"
    BY <1>3, SMT DEF Lookup, Store, Send, Push, Settled, Becomes, statusMails, Task
  <2>4. pending \ {t} \subseteq pending'
    BY <1>3, SMT DEF Lookup, Store, Send, Push, Settled, Becomes
  <2>5. \A u : u.kind = "index" => (u \in pending' <=> u \in pending)
    BY <2>2, <2>3, <2>4, SMT
  <2>. QED
    BY <2>1, <2>5, IndexingUntouched, Zenon
<1>. QED
  BY <1>1, <1>2, <1>3

LEMMA ReadPageIndexing ==
  ASSUME AnnouncementsOK, Indexing, ReadPage
  PROVE  Indexing'
<1>. PICK page : page = PageAfter(rebuild.cursor)
  OBVIOUS
<1>1. /\ rebuild.stage = "read" /\ rebuild.page = {}
      /\ rebuild' = Rebuilding("upsert", rebuild.cursor, Snapshot(page), rebuild.ids, {})
      /\ doubtful' = (doubtful \ page) \cup
                       (page \cap {t.parcel : t \in {t \in pending : t.kind = "index"}})
      /\ UNCHANGED <<log, requests, pending, index>>
  BY DEF AnnouncementsOK, ReadPage
<1>2. /\ page \subseteq Parcels
      /\ \A p \in Parcels : p > rebuild.cursor /\ p \notin page => \A q \in page : p > q
  BY PageFacts
<1>3. Paged' = page /\ Paged = {}
  <2>1. Paged' = {x[1] : x \in Snapshot(page)}
    BY <1>1 DEF Rebuilding, Paged
  <2>2. \A p : p \in Paged' <=> p \in page
    <3>1. \A p \in page : <<p, NewestOf(p)>>[1] = p
      OBVIOUS
    <3>2. \A x \in Snapshot(page) : x[1] \in page
      BY SMT DEF Snapshot
    <3>3. \A p \in page : \E x \in Snapshot(page) : x[1] = p
      BY <3>1, Zenon DEF Snapshot
    <3>. QED
      BY <2>1, <3>2, <3>3, Zenon
  <2>3. Paged = {}
    BY <1>1 DEF Paged
  <2>. QED
    BY <2>2, <2>3
<1>4. \A p \in Ids : /\ Writers(p)' = Writers(p) /\ NewestOf(p)' = NewestOf(p)
                     /\ Requested(p)' = Requested(p)
  BY <1>1 DEF Writers, NewestOf, Requested
<1>5. Parcels' = Parcels
  BY <1>1 DEF Parcels
<1>6. \A x \in rebuild'.page : x[1] \in page /\ x[2] = NewestOf(x[1])
  <2>1. rebuild'.page = Snapshot(page)
    BY <1>1 DEF Rebuilding
  <2>. QED
    BY <2>1, SMT DEF Snapshot
<1>7. /\ rebuild'.stage = "upsert" /\ rebuild'.ids = rebuild.ids
  BY <1>1 DEF Rebuilding
<1>8. ASSUME NEW p \in page PROVE Alone(p)' /\ Fresh(p)' /\ Met(p)'
  <2>0. p \in Ids
    BY <1>2 DEF Parcels
  <2>1. p \notin doubtful' => Writers(p)' = {}
    <3>1. ASSUME NEW t \in Writers(p) PROVE p \in doubtful'
      BY <1>1, <1>8, <3>1, SMT DEF Writers
    <3>. QED
      BY <1>4, <2>0, <3>1
  <2>2. Alone(p)'
    BY <2>1 DEF Alone
  <2>3. Fresh(p)'
    BY <1>3, <1>4, <1>6, <1>8, <2>0, <2>1, SMT DEF Fresh
  <2>4. Met(p)'
    BY <1>3, <1>7, SMT DEF Met
  <2>. QED
    BY <2>2, <2>3, <2>4
<1>9. ASSUME NEW p \in Ids, p \notin page PROVE Alone(p)' /\ Fresh(p)' /\ Met(p)'
  <2>1. p \notin doubtful' => p \notin doubtful
    BY <1>1, <1>9
  <2>2. Alone(p)'
    BY <1>3, <1>4, <1>9, <2>1, Zenon DEF Indexing, Alone
  <2>3. Fresh(p)'
    <3>1. Fresh(p) /\ index'[p] = index[p]
      BY <1>1 DEF Indexing
    <3>. QED
      BY <1>3, <1>4, <1>5, <1>6, <1>9, <2>1, <3>1, SMT DEF Fresh
  <2>4. Met(p)'
    <3>1. Met(p)
      BY DEF Indexing
    <3>. QED
      BY <1>1, <1>2, <1>3, <1>4, <1>5, <1>7, <1>9, <2>1, <3>1, Zenon DEF Met
  <2>. QED
    BY <2>2, <2>3, <2>4
<1>. QED
  BY <1>8, <1>9, Zenon DEF Indexing

LEMMA UpsertPageIndexing ==
  ASSUME AnnouncementsOK, Indexing, NEW ok \in BOOLEAN, UpsertPage(ok)
  PROVE  Indexing'
<1>1. /\ rebuild.stage = "upsert"
      /\ UNCHANGED <<log, requests, pending>>
  BY DEF UpsertPage
<1>2. \A p \in Ids : /\ Writers(p)' = Writers(p) /\ NewestOf(p)' = NewestOf(p)
                     /\ Requested(p)' = Requested(p)
  BY <1>1 DEF Writers, NewestOf, Requested
<1>3. Parcels' = Parcels /\ Parcels \subseteq Nat /\ Paged \subseteq Nat
  BY <1>1, PagedFacts, AnnouncementsAssumption DEF Parcels
<1>4. Paged' = {} /\ rebuild'.page = {}
  BY DEF UpsertPage, Rebuilding, NoRebuild, Paged
<1>5. CASE ok
  <2>1. /\ rebuild' = Rebuilding("read", Max(Paged), {}, rebuild.ids \cup Paged, {})
        /\ index' = [p \in Ids |-> IF p \in Paged
                                   THEN (CHOOSE x \in rebuild.page : x[1] = p)[2]
                                   ELSE index[p]]
        /\ doubtful' = doubtful
    BY <1>5 DEF UpsertPage, Paged
  <2>2. /\ rebuild'.stage = "read" /\ rebuild'.cursor = Max(Paged)
        /\ rebuild'.ids = rebuild.ids \cup Paged
    BY <2>1 DEF Rebuilding
  <2>3. ASSUME NEW p \in Ids PROVE Alone(p)' /\ Fresh(p)' /\ Met(p)'
    <3>1. Alone(p) /\ Fresh(p) /\ Met(p)
      BY DEF Indexing
    <3>2. Alone(p)'
      BY <1>2, <1>4, <2>1, <3>1, Zenon DEF Alone
    <3>3. Fresh(p)'
      <4>1. CASE p \in Paged
        <5>1. p \notin doubtful => Writers(p) = {}
          BY <3>1, <4>1 DEF Alone
        <5>2. index'[p] = (CHOOSE x \in rebuild.page : x[1] = p)[2]
          BY <2>1, <4>1
        <5>3. p \in Parcels /\ p \notin doubtful /\ ~Requested(p) => index'[p] = NewestOf(p)
          BY <3>1, <4>1, <5>2, PageVector, SMT DEF Fresh
        <5>. QED
          BY <1>2, <1>3, <1>4, <2>1, <5>1, <5>3, SMT DEF Fresh
      <4>2. CASE p \notin Paged
        <5>1. index'[p] = index[p]
          BY <2>1, <4>2
        <5>. QED
          <6>1. doubtful' = doubtful
            BY <2>1
          <6>. QED
            BY <1>2, <1>3, <1>4, <3>1, <4>2, <5>1, <6>1, Zenon DEF Fresh
      <4>. QED
        BY <4>1, <4>2
    <3>4. Met(p)'
      <4>1. Max(Paged) \in Paged
        BY <1>1, PagedFacts
      <4>. QED
        <5>1. ASSUME p \in Parcels, p \notin doubtful, ~Requested(p)
              PROVE  p \in rebuild'.ids \/ p > rebuild'.cursor
          BY <1>1, <2>2, <3>1, <4>1, <5>1, SMT DEF Met
        <5>2. doubtful' = doubtful
          BY <2>1
        <5>. QED
          BY <1>2, <1>3, <2>2, <5>1, <5>2, SMT DEF Met
    <3>. QED
      BY <3>2, <3>3, <3>4
  <2>. QED
    BY <2>3 DEF Indexing
<1>6. CASE ~ok
  <2>1. rebuild'.stage = "none" /\ doubtful' = doubtful \cup Paged /\ index' = index
    BY <1>6 DEF UpsertPage, NoRebuild, Paged
  <2>2. ASSUME NEW p \in Ids PROVE Alone(p)' /\ Fresh(p)' /\ Met(p)'
    <3>1. Alone(p) /\ Fresh(p)
      BY DEF Indexing
    <3>2. Alone(p)'
      BY <1>2, <1>4, <2>1, <3>1, SMT DEF Alone
    <3>3. Fresh(p)'
      <4>1. p \notin doubtful' => p \notin doubtful /\ p \notin Paged
        BY <2>1
      <4>2. index'[p] = index[p]
        BY <2>1
      <4>. QED
        BY <1>2, <1>3, <1>4, <3>1, <4>1, <4>2, Zenon DEF Fresh
    <3>4. Met(p)'
      BY <2>1 DEF Met
    <3>. QED
      BY <3>2, <3>3, <3>4
  <2>. QED
    BY <2>2 DEF Indexing
<1>. QED
  BY <1>5, <1>6

(* Where the rebuild's page is empty before and after, what matters of a   *)
(* step is the parcel's own vector and what the rebuild is about to do.    *)
LEMMA IndexingBetweenPages ==
  ASSUME AnnouncementsOK, Indexing, UNCHANGED <<log, requests, pending>>,
         doubtful \subseteq doubtful', rebuild.page = {}, rebuild'.page = {},
         \A p \in Ids : p \in Parcels /\ p \notin doubtful /\ p \notin doubtful' /\ ~Requested(p) =>
           index'[p] = index[p],
         \A p \in Ids : Met(p)'
  PROVE  Indexing'
<1>1. \A p \in Ids : /\ Writers(p)' = Writers(p) /\ NewestOf(p)' = NewestOf(p)
                     /\ Requested(p)' = Requested(p)
  BY DEF Writers, NewestOf, Requested
<1>2. Parcels' = Parcels /\ Paged = {} /\ Paged' = {}
  BY DEF Parcels, Paged
<1>3. ASSUME NEW p \in Ids PROVE Alone(p)' /\ Fresh(p)'
  <2>1. Alone(p) /\ Fresh(p)
    BY DEF Indexing
  <2>2. Alone(p)'
    BY <1>1, <1>2, <2>1, SMT DEF Alone
  <2>3. Fresh(p)'
    BY <1>1, <1>2, <2>1, SMT DEF Fresh
  <2>. QED
    BY <2>2, <2>3
<1>. QED
  BY <1>3 DEF Indexing

LEMMA RebuildIndexing ==
  ASSUME AnnouncementsOK, Indexing,
         reindexAll \/ ListStale \/ DeleteStale \/ PruneFails
  PROVE  Indexing'
<1>1. CASE reindexAll
  <2>1. /\ rebuild.page = {}
        /\ rebuild'.page = {} /\ rebuild'.stage = "read" /\ rebuild'.cursor = 0
        /\ UNCHANGED <<log, requests, pending, index, doubtful>>
    BY <1>1 DEF AnnouncementsOK, reindexAll, Rebuilding
  <2>2. \A p \in Ids : p > 0
    BY AnnouncementsAssumption, SMT
  <2>3. \A p \in Ids : Met(p)'
    BY <2>1, <2>2, SMT DEF Met
  <2>. QED
    BY <2>1, <2>3, IndexingBetweenPages, Zenon
<1>2. CASE ListStale
  <2>1. PICK last, stale :
          /\ rebuild' = Rebuilding("delete", last, {}, rebuild.ids, stale)
          /\ stale \cap rebuild.ids = {}
    BY <1>2, SMT DEF ListStale
  <2>2. /\ rebuild.page = {}
        /\ rebuild'.page = {} /\ rebuild'.stage = "delete"
        /\ rebuild'.ids = rebuild.ids /\ rebuild'.stale \cap rebuild.ids = {}
        /\ UNCHANGED <<log, requests, pending, index, doubtful>>
    BY <1>2, <2>1 DEF AnnouncementsOK, ListStale, Rebuilding
  <2>3. rebuild.stage \in {"read", "list"}
        /\ (rebuild.stage = "read" => \A p \in Parcels : ~(p > rebuild.cursor))
    BY <1>2, PageFacts, SMT DEF ListStale
  <2>4. ASSUME NEW p \in Ids PROVE Met(p)'
    <3>1. Met(p) /\ (Requested(p)' <=> Requested(p)) /\ Parcels' = Parcels
      BY <2>2 DEF Indexing, Requested, Parcels
    <3>2. p \in Parcels /\ p \notin doubtful /\ ~Requested(p) => p \in rebuild.ids
      BY <2>3, <3>1, Zenon DEF Met
    <3>. QED
      BY <2>2, <3>1, <3>2, SMT DEF Met
  <2>. QED
    BY <2>2, <2>4, IndexingBetweenPages, Zenon
<1>3. CASE DeleteStale
  <2>1. /\ rebuild.stage = "delete" /\ rebuild.page = {}
        /\ index' = [p \in Ids |-> IF p \in rebuild.stale THEN 0 ELSE index[p]]
        /\ rebuild'.page = {} /\ rebuild'.stage \in {"none", "list"}
        /\ rebuild'.stage = "list" => rebuild'.ids = rebuild.ids /\ rebuild'.stale = {}
        /\ UNCHANGED <<log, requests, pending, doubtful>>
    BY <1>3, SMT DEF AnnouncementsOK, DeleteStale, NoRebuild, Rebuilding
  <2>2. ASSUME NEW p \in Ids PROVE Met(p)'
    <3>1. Met(p) /\ (Requested(p)' <=> Requested(p)) /\ Parcels' = Parcels
      BY <2>1 DEF Indexing, Requested, Parcels
    <3>. QED
      BY <2>1, <3>1, SMT DEF Met
  <2>3. ASSUME NEW p \in Ids, p \in Parcels, p \notin doubtful, ~Requested(p)
        PROVE  index'[p] = index[p]
    <3>1. p \notin rebuild.stale
      BY <2>1, <2>3 DEF Indexing, Met
    <3>. QED
      BY <2>1, <3>1
  <2>. QED
    BY <2>1, <2>2, <2>3, IndexingBetweenPages, Zenon
<1>4. CASE PruneFails
  <2>1. /\ rebuild.page = {}
        /\ rebuild'.page = {} /\ rebuild'.stage = "none"
        /\ UNCHANGED <<log, requests, pending, index, doubtful>>
    BY <1>4, SMT DEF AnnouncementsOK, PruneFails, NoRebuild
  <2>2. \A p \in Ids : Met(p)'
    BY <2>1 DEF Met
  <2>. QED
    BY <2>1, <2>2, IndexingBetweenPages, Zenon
<1>. QED
  BY <1>1, <1>2, <1>3, <1>4

LEMMA HandIndexing ==
  ASSUME AnnouncementsOK, Indexing, NEW p \in Ids, NEW vector \in {0, 1}, WriteByHand(p, vector)
  PROVE  Indexing'
<1>1. \A q \in Ids : Requested(q)' = Requested(q) /\ Writers(q)' = Writers(q)
  BY DEF WriteByHand, Requested, Writers
<1>2. \A q \in Ids : q # p => SameVector(q)
  BY <1>1, SMT DEF AnnouncementsOK, WriteByHand, SameVector
<1>3. Alone(p)' /\ Fresh(p)' /\ Met(p)'
  BY DEF WriteByHand, Alone, Fresh, Met
<1>4. rebuild' = rebuild
  BY DEF WriteByHand
<1>. QED
  BY <1>2, <1>3, <1>4, SameVectorKept, Zenon DEF Indexing

LEMMA CrashIndexing ==
  ASSUME AnnouncementsOK, Indexing, Crash
  PROVE  Indexing'
<1>1. /\ pending' = {} /\ rebuild' = NoRebuild
      /\ doubtful' = doubtful \cup {t.parcel : t \in pending} \cup Paged
                       \cup {requests[h] : h \in {h \in Handlers : requests[h] # 0}}
      /\ UNCHANGED <<log, index>>
  BY DEF Crash, Paged
<1>2. ASSUME NEW p \in Ids, p \notin doubtful'
      PROVE  /\ p \notin doubtful /\ p \notin Paged
             /\ Writers(p) = {} /\ ~Requested(p)
  <2>1. p \notin doubtful /\ p \notin Paged /\ p # 0
    BY <1>1, <1>2, AnnouncementsAssumption
  <2>2. Writers(p) = {}
    BY <1>1, <1>2, Zenon DEF Writers
  <2>3. ~Requested(p)
    BY <1>1, <1>2, <2>1, Zenon DEF Requested
  <2>. QED
    BY <2>1, <2>2, <2>3
<1>3. ASSUME NEW p \in Ids PROVE Alone(p)' /\ Fresh(p)' /\ Met(p)'
  <2>1. Writers(p)' = {} /\ rebuild'.page = {} /\ rebuild'.stage = "none"
    BY <1>1 DEF Writers, NoRebuild
  <2>2. (p \in Parcels' => p \in Parcels) /\ NewestOf(p)' = NewestOf(p)
    BY <1>1 DEF Parcels, NewestOf
  <2>3. Fresh(p)
    BY DEF Indexing
  <2>4. p \in Parcels' /\ p \notin doubtful' => index'[p] = NewestOf(p)'
    BY <1>1, <1>2, <2>2, <2>3, Zenon DEF Fresh
  <2>5. Fresh(p)'
    BY <2>1, <2>4, SMT DEF Fresh
  <2>6. Alone(p)' /\ Met(p)'
    BY <2>1, SMT DEF Alone, Met
  <2>. QED
    BY <2>5, <2>6
<1>. QED
  BY <1>3 DEF Indexing

LEMMA IndexingKept ==
  ASSUME AnnouncementsOK, Indexing, [Next]_announcementVars
  PROVE  Indexing'
<1>1. ASSUME NEW u \in Users, markRead(u) \/ markAllRead(u) PROVE Indexing'
  <2>1. UNCHANGED <<log, requests, index, rebuild, doubtful, pending>>
    BY <1>1 DEF markRead, markAllRead, Mark
  <2>. QED
    BY <2>1, IndexingUntouched
<1>2. CASE pruneOld \/ Shutdown \/ StartDrain \/ drain \/ UNCHANGED announcementVars
  <2>1. UNCHANGED <<log, requests, index, rebuild, doubtful, pending>>
    BY <1>2 DEF pruneOld, Mark, Shutdown, StartDrain, drain, announcementVars
  <2>. QED
    BY <2>1, IndexingUntouched
<1>. QED
  BY <1>1, <1>2, EnterIndexing, CommitIndexing, AnnounceIndexing, TaskIndexing, ReadPageIndexing,
     UpsertPageIndexing, RebuildIndexing, HandIndexing, CrashIndexing, Zenon
  DEF Next, Progress, RebuildStep

-----------------------------------------------------------------------------
(* Telling people, step by step *)

(* What every step but a commit and a crash does to what people were told. *)
Onward ==
  /\ UNCHANGED <<log, cut>>
  /\ failed \subseteq failed' /\ pushed \subseteq pushed' /\ mailed \subseteq mailed'
  /\ Rows(inbox) \subseteq Rows(inbox')

(* The order of a timeline does not change under a log that does not. *)
LEMMA LatestKept ==
  ASSUME NEW p, NEW n, log'[p] = log[p]
  PROVE  Latest(p, n)' = Latest(p, n)
<1>1. \A i : log'[p][i] = log[p][i]
  OBVIOUS
<1>. QED
  BY <1>1, Zenon DEF Latest

LEMMA OnwardFacts ==
  ASSUME Onward, NEW p \in Ids
  PROVE  /\ NewestOf(p)' = NewestOf(p) /\ Who(p)' \subseteq Who(p)
         /\ \A n, u : Reached(Rows(inbox), p, n, u) => Reached(Rows(inbox'), p, n, u)
         /\ \A n, u : Reached(Rows(pushed), p, n, u) => Reached(Rows(pushed'), p, n, u)
         /\ \A n, u : Reached(mailed, p, n, u) => Reached(mailed', p, n, u)
<1>1. Rows(pushed) \subseteq Rows(pushed')
  BY DEF Onward, Rows
<1>2. NewestOf(p)' = NewestOf(p)
  BY DEF Onward, NewestOf
<1>3. Who(p)' \subseteq Who(p)
  <2>1. Latest(p, NewestOf(p))' = Latest(p, NewestOf(p))
    BY <1>2, LatestKept, Zenon DEF Onward
  <2>. QED
    BY <1>2, <2>1, SMT DEF Onward, Who, recipientIds
<1>. QED
  BY <1>1, <1>2, <1>3 DEF Onward, Reached

LEMMA CarriesOn ==
  ASSUME Onward, NEW p \in Ids, NEW t, Carries(t, p)
  PROVE  Carries(t, p)'
BY OnwardFacts, SMT DEF Carries, Onward

LEMMA DeliveredKept ==
  ASSUME Onward, NEW p \in Ids, Delivered(p),
         "mail" \notin failed' => \A u : Mailing(p, u) => Mailing(p, u)'
  PROVE  Delivered(p)'
<1>1. \A u \in Who(p)' : Reached(Rows(pushed), p, NewestOf(p), u)'
  BY OnwardFacts, Zenon DEF Delivered
<1>2. "inbox" \notin failed' => \A u \in Who(p)' : Reached(Rows(inbox), p, NewestOf(p), u)'
  BY OnwardFacts, Zenon DEF Delivered, Onward
<1>3. log'[p] = log[p] /\ NewestOf(p)' = NewestOf(p) /\ failed \subseteq failed'
  BY OnwardFacts DEF Onward
<1>4. (log[p][NewestOf(p)].mail)' /\ "mail" \notin failed' =>
        \A u \in Parties \ OptedOut : Mailing(p, u)'
  BY <1>3, Zenon DEF Delivered
<1>. QED
  BY <1>1, <1>2, <1>4, Zenon DEF Delivered

LEMMA TellingOnward ==
  ASSUME AnnouncementsOK, Telling, Onward,
         \A p \in Ids : Requested(p) => Requested(p)' \/ OnItsWay(p)',
         \A t \in pending, p \in Ids : Carries(t, p) => OnItsWay(p)' \/ Delivered(p)',
         \A p \in Ids : \A u : Mailing(p, u) => Mailing(p, u)' \/ "mail" \in failed',
         Stored', PushesAreKept'
  PROVE  Telling'
<1>1. ASSUME NEW p \in Ids, p \in Parcels', NewestOf(p)' > cut'[p]
      PROVE  Requested(p)' \/ OnItsWay(p)' \/ Delivered(p)'
  <2>1. p \in Parcels /\ NewestOf(p) > cut[p]
    BY <1>1, OnwardFacts DEF Onward, Parcels
  <2>2. Requested(p) \/ OnItsWay(p) \/ Delivered(p)
    BY <2>1 DEF Telling
  <2>3. CASE Requested(p)
    BY <2>3
  <2>4. CASE OnItsWay(p)
    BY <2>4 DEF OnItsWay
  <2>5. CASE Delivered(p)
    BY <2>5, DeliveredKept, Zenon
  <2>. QED
    BY <2>2, <2>3, <2>4, <2>5
<1>. QED
  BY <1>1, Zenon DEF Telling

(* Where no task that tells people, and none that e-mails them, is touched. *)
LEMMA TellingAside ==
  ASSUME AnnouncementsOK, Telling, Onward, UNCHANGED pushed,
         \A p \in Ids : Requested(p) => Requested(p)' \/ OnItsWay(p)',
         \A t \in pending : t.kind \in {"notify", "mail"} => t \in pending',
         \A t \in pending' \ pending : t.kind = "notify" => t.stage # "stored"
  PROVE  Telling'
<1>1. ASSUME NEW t \in pending, NEW p \in Ids, Carries(t, p) PROVE OnItsWay(p)'
  <2>1. t \in pending'
    BY <1>1 DEF Carries
  <2>. QED
    BY <1>1, <2>1, CarriesOn DEF OnItsWay
<1>2. ASSUME NEW p \in Ids, NEW u, Mailing(p, u) PROVE Mailing(p, u)'
  <2>1. NewestOf(p)' = NewestOf(p)
    BY OnwardFacts
  <2>. QED
    BY <1>2, <2>1, OnwardFacts, Zenon DEF Mailing
<1>3. Stored'
  <2>1. ASSUME NEW t \in pending', t.kind = "notify", t.stage = "stored", NEW u \in t.to
        PROVE  \E r \in inbox' : r.row = Row(u, t)
    <3>1. t \in pending
      BY <2>1
    <3>2. Row(u, t) \in Rows(inbox)
      BY <2>1, <3>1 DEF Telling, Stored, Rows
    <3>. QED
      BY <3>2 DEF Onward, Rows
  <2>. QED
    BY <2>1 DEF Stored, Row
<1>4. PushesAreKept'
  BY DEF Telling, PushesAreKept, Onward, Rows
<1>. QED
  BY <1>1, <1>2, <1>3, <1>4, TellingOnward, Zenon

LEMMA CommitTelling ==
  ASSUME AnnouncementsOK, Telling, NEW h \in Handlers, NEW p \in Ids, NEW entry \in Entry,
         Commit(h, p, entry)
  PROVE  Telling'
<1>1. /\ requests[h] = 0 /\ 0 \notin Ids
      /\ log' = [log EXCEPT ![p] = Append(@, entry)]
      /\ requests' = [requests EXCEPT ![h] = p]
      /\ UNCHANGED <<pending, inbox, pushed, mailed, failed, cut>>
  BY AnnouncementsAssumption DEF AnnouncementsOK, Commit
<1>2. ASSUME NEW q \in Ids, q # p, q \in Parcels', NewestOf(q)' > cut'[q]
      PROVE  Requested(q)' \/ OnItsWay(q)' \/ Delivered(q)'
  <2>1. log'[q] = log[q]
    BY <1>1, <1>2 DEF AnnouncementsOK
  <2>2. /\ q \in Parcels /\ NewestOf(q) > cut[q]
        /\ NewestOf(q)' = NewestOf(q) /\ Who(q)' = Who(q)
    <3>1. NewestOf(q)' = NewestOf(q)
      BY <2>1 DEF NewestOf
    <3>2. Latest(q, NewestOf(q))' = Latest(q, NewestOf(q))
      BY <2>1, <3>1, LatestKept, Zenon
    <3>. QED
      BY <1>1, <1>2, <2>1, <3>1, <3>2, SMT DEF Parcels, Who, recipientIds
  <2>3. CASE Requested(q)
    BY <1>1, <2>3, SMT DEF AnnouncementsOK, Requested
  <2>4. CASE OnItsWay(q)
    BY <1>1, <2>2, <2>4 DEF OnItsWay, Carries
  <2>5. CASE Delivered(q)
    BY <1>1, <2>1, <2>2, <2>5, Zenon DEF Delivered, Mailing
  <2>. QED
    BY <2>2, <2>3, <2>4, <2>5 DEF Telling
<1>3. Requested(p)'
  BY <1>1 DEF AnnouncementsOK, Requested
<1>4. Stored' /\ PushesAreKept'
  BY <1>1 DEF Telling, Stored, PushesAreKept, Row
<1>. QED
  BY <1>2, <1>3, <1>4, Zenon DEF Telling

LEMMA AnnounceTelling ==
  ASSUME AnnouncementsOK, Telling, NEW h \in Handlers, Announce(h)
  PROVE  Telling'
<1>1. PICK p \in Ids : p = requests[h]
  BY DEF AnnouncementsOK, Announce
<1>. PICK n : n = NewestOf(p)
  OBVIOUS
<1> DEFINE write == Task("index", p, h, n, "upsert", {})
           tell == Task("notify", p, h, n, "lookup", {})
<1>2. /\ pending' = pending \cup {write, tell}
      /\ requests' = [requests EXCEPT ![h] = 0]
      /\ UNCHANGED <<log, inbox, pushed, mailed, failed, cut>>
  BY <1>1 DEF Announce, Reread
<1>3. /\ tell.kind = "notify" /\ tell.parcel = p /\ tell.move = n /\ tell.stage = "lookup"
      /\ write.kind = "index"
  BY DEF Task
<1>4. Onward
  BY <1>2 DEF Onward, Rows
<1> HIDE DEF write, tell
<1>5. ASSUME NEW q \in Ids, Requested(q) PROVE Requested(q)' \/ OnItsWay(q)'
  <2>1. CASE q = p
    <3>1. Carries(tell, q)'
      BY <1>2, <1>3, <1>4, <2>1, OnwardFacts, Zenon DEF Carries
    <3>. QED
      BY <1>2, <3>1 DEF OnItsWay
  <2>2. CASE q # p
    BY <1>1, <1>2, <1>5, <2>2 DEF AnnouncementsOK, Requested
  <2>. QED
    BY <2>1, <2>2
<1>6. \A t \in pending' \ pending : t.kind = "notify" => t.stage # "stored"
  BY <1>2, <1>3, SMT
<1>. QED
  BY <1>2, <1>4, <1>5, <1>6, TellingAside, Zenon

LEMMA LookupTelling ==
  ASSUME AnnouncementsOK, Telling, NEW t \in pending, NEW ok \in BOOLEAN, Lookup(t, ok)
  PROVE  Telling'
<1>. PICK to : to = recipientIds(t.parcel, t.move, ok)
  OBVIOUS
<1> DEFINE next == Task("notify", t.parcel, t.by, t.move, "store", to)
<1>1. /\ t.kind = "notify" /\ t.stage = "lookup"
      /\ failed' = IF ok THEN failed ELSE failed \cup {"admins"}
      /\ UNCHANGED <<log, requests, inbox, pushed, mailed, cut>>
  BY DEF Lookup, Tasks
<1>2. pending' = (pending \ {t}) \cup {next}
  BY <1>1, Zenon DEF Lookup, Becomes
<1>3. /\ next.kind = "notify" /\ next.parcel = t.parcel /\ next.move = t.move
      /\ next.stage = "store" /\ next.to = to
  BY DEF Task
<1>4. Onward
  BY <1>1 DEF Onward, Rows
<1>5. ASSUME NEW p \in Ids, Carries(t, p) PROVE Carries(next, p)'
  <2>1. /\ t.parcel = p /\ t.move = NewestOf(p) /\ NewestOf(p)' = NewestOf(p)
    BY <1>4, <1>5, OnwardFacts DEF Carries
  <2>2. Who(p)' \subseteq to
    <3>1. Latest(p, NewestOf(p))' = Latest(p, NewestOf(p))
      BY <1>1, <2>1, LatestKept, Zenon
    <3>. QED
      BY <1>1, <2>1, <3>1, SMT DEF Who, recipientIds
  <2>. QED
    <3> HIDE DEF next
    <3>. QED
      BY <1>3, <2>1, <2>2, Zenon DEF Carries
<1> HIDE DEF next
<1>6. \A p \in Ids : Requested(p) => Requested(p)'
  BY <1>1 DEF Requested
<1>7. ASSUME NEW v \in pending, NEW p \in Ids, Carries(v, p) PROVE OnItsWay(p)'
  <2>1. CASE v = t
    BY <1>2, <1>5, <1>7, <2>1 DEF OnItsWay
  <2>2. CASE v # t
    <3>1. v \in pending' /\ Carries(v, p)'
      BY <1>2, <1>4, <1>7, <2>2, CarriesOn
    <3>. QED
      BY <3>1 DEF OnItsWay
  <2>. QED
    BY <2>1, <2>2
<1>8. ASSUME NEW p \in Ids, NEW u, Mailing(p, u) PROVE Mailing(p, u)'
  <2>1. NewestOf(p)' = NewestOf(p) /\ mailed' = mailed
    BY <1>1, <1>4, OnwardFacts
  <2>2. \A v \in pending : v.kind = "mail" => v \in pending'
    BY <1>1, <1>2
  <2>. QED
    BY <1>8, <2>1, <2>2, Zenon DEF Mailing
<1>9. Stored'
  BY <1>1, <1>2, <1>3, SMT DEF Telling, Stored, Row
<1>10. PushesAreKept'
  BY <1>1 DEF Telling, PushesAreKept
<1>. QED
  BY <1>4, <1>6, <1>7, <1>8, <1>9, <1>10, TellingOnward, Zenon

LEMMA StoreTelling ==
  ASSUME AnnouncementsOK, Telling, NEW t \in pending, NEW ok \in BOOLEAN, Store(t, ok)
  PROVE  Telling'
<1> DEFINE next == Task("notify", t.parcel, t.by, t.move, IF ok THEN "stored" ELSE "unstored", t.to)
           rows == {[row |-> Row(u, t), state |-> "unread"] : u \in t.to}
<1>1. /\ t.kind = "notify" /\ t.stage = "store"
      /\ failed' = IF ok THEN failed ELSE failed \cup {"inbox"}
      /\ inbox' = IF ok THEN inbox \cup rows ELSE inbox
      /\ UNCHANGED <<log, requests, pushed, mailed, cut>>
  BY DEF Store, Tasks
<1>2. pending' = (pending \ {t}) \cup {next}
  BY <1>1, Zenon DEF Store, Becomes
<1>3. /\ next.kind = "notify" /\ next.parcel = t.parcel /\ next.move = t.move /\ next.by = t.by
      /\ next.stage = IF ok THEN "stored" ELSE "unstored"
      /\ next.to = t.to
  BY DEF Task
<1>4. inbox \subseteq inbox'
  BY <1>1
<1>5. Onward
  BY <1>1, <1>4 DEF Onward, Rows
<1>6. ok => \A u \in t.to : \E r \in inbox' : r.row = Row(u, t)
  <2>1. ASSUME ok, NEW u \in t.to PROVE \E r \in inbox' : r.row = Row(u, t)
    <3>1. [row |-> Row(u, t), state |-> "unread"] \in inbox'
      BY <1>1, <2>1
    <3>. QED
      BY <3>1
  <2>. QED
    BY <2>1
<1> HIDE DEF next, rows
<1>7. ASSUME NEW p \in Ids, Carries(t, p) PROVE Carries(next, p)'
  <2>1. /\ t.parcel = p /\ t.move = NewestOf(p) /\ NewestOf(p)' = NewestOf(p)
        /\ Who(p)' \subseteq t.to
    BY <1>1, <1>5, <1>7, OnwardFacts, SMT DEF Carries
  <2>. QED
    BY <1>1, <1>3, <2>1, SMT DEF Carries
<1>8. \A p \in Ids : Requested(p) => Requested(p)'
  BY <1>1 DEF Requested
<1>9. ASSUME NEW v \in pending, NEW p \in Ids, Carries(v, p) PROVE OnItsWay(p)'
  <2>1. CASE v = t
    BY <1>2, <1>7, <1>9, <2>1 DEF OnItsWay
  <2>2. CASE v # t
    <3>1. v \in pending' /\ Carries(v, p)'
      BY <1>2, <1>5, <1>9, <2>2, CarriesOn
    <3>. QED
      BY <3>1 DEF OnItsWay
  <2>. QED
    BY <2>1, <2>2
<1>10. ASSUME NEW p \in Ids, NEW u, Mailing(p, u) PROVE Mailing(p, u)'
  <2>1. NewestOf(p)' = NewestOf(p) /\ mailed' = mailed
    BY <1>1, <1>5, OnwardFacts
  <2>2. \A v \in pending : v.kind = "mail" => v \in pending'
    BY <1>1, <1>2
  <2>. QED
    BY <1>10, <2>1, <2>2, Zenon DEF Mailing
<1>11. Stored'
  <2>1. ASSUME NEW v \in pending', v.kind = "notify", v.stage = "stored", NEW u \in v.to
        PROVE  \E r \in inbox' : r.row = Row(u, v)
    <3>1. CASE v = next
      <4>1. ok /\ u \in t.to /\ Row(u, v) = Row(u, t)
        BY <1>3, <2>1, <3>1 DEF Row
      <4>. QED
        BY <1>6, <4>1
    <3>2. CASE v # next
      <4>1. v \in pending
        BY <1>2, <3>2
      <4>. QED
        BY <1>4, <2>1, <4>1 DEF Telling, Stored
    <3>. QED
      BY <3>1, <3>2
  <2>. QED
    BY <2>1 DEF Stored, Row
<1>12. PushesAreKept'
  BY <1>1, <1>4 DEF Telling, PushesAreKept
<1>. QED
  BY <1>5, <1>8, <1>9, <1>10, <1>11, <1>12, TellingOnward, Zenon

(* Who pushes the newest move has done all that is owed, but for e-mails    *)
(* that are now on their way.                                              *)
LEMMA PushTelling ==
  ASSUME AnnouncementsOK, Telling, NEW t \in pending, Push(t)
  PROVE  Telling'
<1>. PICK mails : mails = statusMails(t)
  OBVIOUS
<1> DEFINE pushes == {[row |-> Row(u, t), kept |-> t.stage = "stored"] : u \in t.to}
<1>1. /\ t.kind = "notify" /\ t.stage \in {"stored", "unstored"}
      /\ pushed' = pushed \cup pushes
      /\ pending' = (pending \ {t}) \cup mails
      /\ UNCHANGED <<log, requests, inbox, mailed, failed, cut>>
  BY DEF Push, Tasks
<1>2. Onward
  BY <1>1 DEF Onward, Rows
<1>3. \A v \in mails : v.kind = "mail"
  BY SMT DEF statusMails, Task
<1>4. \A u \in t.to : Row(u, t) \in Rows(pushed')
  <2>1. ASSUME NEW u \in t.to PROVE Row(u, t) \in Rows(pushed')
    <3>1. [row |-> Row(u, t), kept |-> t.stage = "stored"] \in pushed'
      BY <1>1, <2>1
    <3>2. \E x \in pushed' : x.row = Row(u, t)
      BY <3>1
    <3>. QED
      BY <3>2, Zenon DEF Rows
  <2>. QED
    BY <2>1
<1>5. t.stage = "stored" => \A u \in t.to : Row(u, t) \in Rows(inbox)
  BY <1>1 DEF Telling, Stored, Rows
<1>6. ASSUME NEW p \in Ids, NEW rows, NEW u, Row(u, t) \in rows, Carries(t, p)
      PROVE  Reached(rows, p, NewestOf(p), u)
  BY <1>6 DEF Reached, Row, Carries
<1>7. ASSUME NEW p \in Ids, Carries(t, p) PROVE Delivered(p)'
  <2>1. /\ NewestOf(p)' = NewestOf(p) /\ Who(p)' = Who(p) /\ Who(p) \subseteq t.to
        /\ t.parcel = p /\ t.move = NewestOf(p)
        /\ "inbox" \notin failed => t.stage = "stored"
    <3>1. NewestOf(p)' = NewestOf(p) /\ log'[p] = log[p] /\ failed' = failed
      BY <1>1, <1>2, OnwardFacts DEF Onward
    <3>2. Latest(p, NewestOf(p))' = Latest(p, NewestOf(p))
      BY <3>1, LatestKept, Zenon
    <3>3. Who(p)' = Who(p)
      BY <3>1, <3>2, SMT DEF Who, recipientIds
    <3>. QED
      BY <1>1, <1>7, <3>1, <3>3, SMT DEF Carries
  <2>2. \A u \in Who(p)' : Reached(Rows(pushed), p, NewestOf(p), u)'
    BY <1>4, <1>6, <1>7, <2>1, Zenon
  <2>3. "inbox" \notin failed' =>
          \A u \in Who(p)' : Reached(Rows(inbox), p, NewestOf(p), u)'
    <3>1. Rows(inbox') = Rows(inbox) /\ failed' = failed
      BY <1>1 DEF Rows
    <3>. QED
      BY <1>5, <1>6, <1>7, <2>1, <3>1, Zenon
  <2>4. ASSUME (log[p][NewestOf(p)].mail)', NEW u \in Parties \ OptedOut
        PROVE  Mailing(p, u)'
    <3>. PICK mail : mail = Task("mail", t.parcel, t.by, t.move, "send", {u})
      OBVIOUS
    <3>1. mail \in mails
      <4>1. log[t.parcel][t.move].mail
        BY <1>1, <2>1, <2>4
      <4>. QED
        BY <4>1, Zenon DEF statusMails
    <3>2. mail.kind = "mail" /\ mail.parcel = p /\ mail.move = NewestOf(p) /\ u \in mail.to
      BY <2>1 DEF Task
    <3>. QED
      BY <1>1, <2>1, <3>1, <3>2, Zenon DEF Mailing
  <2>. QED
    BY <2>2, <2>3, <2>4, Zenon DEF Delivered
<1> HIDE DEF pushes
<1>8. \A p \in Ids : Requested(p) => Requested(p)'
  BY <1>1 DEF Requested
<1>9. ASSUME NEW v \in pending, NEW p \in Ids, Carries(v, p) PROVE OnItsWay(p)' \/ Delivered(p)'
  <2>1. CASE v # t
    <3>1. v \in pending' /\ Carries(v, p)'
      BY <1>1, <1>2, <1>9, <2>1, CarriesOn
    <3>. QED
      BY <3>1 DEF OnItsWay
  <2>. QED
    BY <1>7, <1>9, <2>1
<1>10. ASSUME NEW p \in Ids, NEW u, Mailing(p, u) PROVE Mailing(p, u)'
  <2>1. NewestOf(p)' = NewestOf(p) /\ mailed' = mailed
    BY <1>1, <1>2, OnwardFacts
  <2>2. \A v \in pending : v.kind = "mail" => v \in pending'
    BY <1>1
  <2>. QED
    BY <1>10, <2>1, <2>2, Zenon DEF Mailing
<1>11. Stored'
  <2>1. \A v \in pending' : v.kind = "notify" => v \in pending
    BY <1>1, <1>3
  <2>. QED
    BY <1>1, <2>1, Zenon DEF Telling, Stored, Row
<1>12. PushesAreKept'
  <2>1. ASSUME NEW x \in pushed', x.kept PROVE \E r \in inbox' : r.row = x.row
    <3>1. CASE x \in pushed
      BY <1>1, <2>1, <3>1 DEF Telling, PushesAreKept
    <3>2. CASE x \in pushes
      <4>1. PICK u \in t.to : x = [row |-> Row(u, t), kept |-> t.stage = "stored"]
        BY <3>2 DEF pushes
      <4>2. x.row = Row(u, t) /\ t.stage = "stored"
        BY <2>1, <4>1
      <4>. QED
        BY <1>1, <1>5, <4>2 DEF Rows
    <3>. QED
      BY <1>1, <2>1, <3>1, <3>2
  <2>. QED
    BY <2>1 DEF PushesAreKept
<1>. QED
  BY <1>2, <1>8, <1>9, <1>10, <1>11, <1>12, TellingOnward, Zenon

LEMMA SendTelling ==
  ASSUME AnnouncementsOK, Telling, NEW t \in pending, NEW ok \in BOOLEAN, Send(t, ok)
  PROVE  Telling'
<1> DEFINE rows == {Row(u, t) : u \in t.to}
<1>1. /\ t.kind = "mail"
      /\ pending' = pending \ {t}
      /\ mailed' = IF ok THEN mailed \cup rows ELSE mailed
      /\ failed' = IF ok THEN failed ELSE failed \cup {"mail"}
      /\ UNCHANGED <<log, requests, inbox, pushed, cut>>
  BY DEF Send, Tasks, Settled
<1>2. Onward
  BY <1>1 DEF Onward, Rows
<1>3. ASSUME NEW p \in Ids, NEW u, Mailing(p, u), "mail" \notin failed'
      PROVE  Mailing(p, u)'
  <2>1. NewestOf(p)' = NewestOf(p) /\ ok
    BY <1>1, <1>2, <1>3, OnwardFacts
  <2>2. CASE Reached(mailed, p, NewestOf(p), u)
    BY <1>2, <2>1, <2>2, OnwardFacts, Zenon DEF Mailing
  <2>3. CASE \E v \in pending :
               v.kind = "mail" /\ v.parcel = p /\ v.move = NewestOf(p) /\ u \in v.to
    <3>1. PICK v \in pending :
            v.kind = "mail" /\ v.parcel = p /\ v.move = NewestOf(p) /\ u \in v.to
      BY <2>3
    <3>2. CASE v = t
      <4>1. Row(u, t) \in mailed'
        BY <1>1, <2>1, <3>1, <3>2
      <4>2. Reached(mailed', p, NewestOf(p), u)
        BY <3>1, <3>2, <4>1 DEF Reached, Row
      <4>. QED
        BY <2>1, <4>2, Zenon DEF Mailing
    <3>3. CASE v # t
      <4>1. v \in pending'
        BY <1>1, <3>3
      <4>. QED
        BY <2>1, <3>1, <4>1, Zenon DEF Mailing
    <3>. QED
      BY <3>2, <3>3
  <2>. QED
    BY <1>3, <2>2, <2>3 DEF Mailing
<1> HIDE DEF rows
<1>4. \A p \in Ids : Requested(p) => Requested(p)'
  BY <1>1 DEF Requested
<1>5. ASSUME NEW v \in pending, NEW p \in Ids, Carries(v, p) PROVE OnItsWay(p)'
  <2>1. v \in pending' /\ Carries(v, p)'
    <3>1. v # t
      BY <1>1, <1>5 DEF Carries
    <3>. QED
      BY <1>1, <1>2, <1>5, <3>1, CarriesOn
  <2>. QED
    BY <2>1 DEF OnItsWay
<1>6. Stored' /\ PushesAreKept'
  BY <1>1, Zenon DEF Telling, Stored, PushesAreKept, Row
<1>. QED
  BY <1>2, <1>3, <1>4, <1>5, <1>6, TellingOnward, Zenon

LEMMA TaskTelling ==
  ASSUME AnnouncementsOK, Telling, TaskStep
  PROVE  Telling'
<1>1. ASSUME NEW t \in pending, NEW ok \in BOOLEAN, Upsert(t, ok) PROVE Telling'
  <2>1. /\ t.kind = "index" /\ pending' = pending \ {t}
        /\ UNCHANGED <<log, requests, inbox, pushed, mailed, failed, cut>>
    BY <1>1 DEF Upsert, Tasks, Settled
  <2>2. Onward
    BY <2>1 DEF Onward, Rows
  <2>3. \A p \in Ids : Requested(p) => Requested(p)'
    BY <2>1 DEF Requested
  <2>4. \A v \in pending : v.kind \in {"notify", "mail"} => v \in pending'
    BY <2>1, SMT
  <2>5. \A v \in pending' \ pending : v.kind = "notify" => v.stage # "stored"
    BY <2>1
  <2>. QED
    BY <2>1, <2>2, <2>3, <2>4, <2>5, TellingAside, Zenon
<1>. QED
  BY <1>1, LookupTelling, StoreTelling, PushTelling, SendTelling, Zenon DEF TaskStep

(* Rows keep what they say whatever becomes of them. *)
LEMMA MarkTelling ==
  ASSUME AnnouncementsOK, Telling, NEW rows, NEW state, Mark(rows, state)
  PROVE  Telling'
<1>1. /\ inbox' = (inbox \ rows) \cup {[row |-> r.row, state |-> state] : r \in rows}
      /\ UNCHANGED <<log, requests, pending, pushed, mailed, failed, cut>>
  BY DEF Mark
<1>2. Rows(inbox) \subseteq Rows(inbox')
  <2>1. ASSUME NEW r \in inbox PROVE \E x \in inbox' : x.row = r.row
    <3>1. CASE r \in rows
      <4>1. [row |-> r.row, state |-> state] \in inbox'
        BY <1>1, <3>1
      <4>. QED
        BY <4>1
    <3>2. CASE r \notin rows
      BY <1>1, <2>1, <3>2
    <3>. QED
      BY <3>1, <3>2
  <2>. QED
    BY <2>1 DEF Rows
<1>3. Onward
  BY <1>1, <1>2 DEF Onward
<1>4. \A p \in Ids : Requested(p) => Requested(p)'
  BY <1>1 DEF Requested
<1>. QED
  BY <1>1, <1>3, <1>4, TellingAside, Zenon

LEMMA CrashTelling ==
  ASSUME AnnouncementsOK, Telling, Crash
  PROVE  Telling'
<1>1. /\ pending' = {} /\ cut' = [p \in Ids |-> NewestOf(p)]
      /\ UNCHANGED <<log, inbox, pushed>>
  BY DEF Crash
<1>2. \A p \in Ids : ~(NewestOf(p)' > cut'[p])
  <2>1. \A p \in Ids : NewestOf(p) \in Nat /\ NewestOf(p)' = NewestOf(p)
    BY <1>1 DEF AnnouncementsOK, NewestOf
  <2>2. \A p \in Ids : cut'[p] = NewestOf(p)
    BY <1>1
  <2>. QED
    BY <2>1, <2>2, SMT
<1>3. Stored' /\ PushesAreKept'
  BY <1>1 DEF Telling, Stored, PushesAreKept
<1>. QED
  BY <1>2, <1>3, Zenon DEF Telling

LEMMA TellingKept ==
  ASSUME AnnouncementsOK, Telling, [Next]_announcementVars
  PROVE  Telling'
<1>1. ASSUME UNCHANGED <<log, requests, pending, people, failed, cut>> PROVE Telling'
  <2>1. Onward
    BY <1>1 DEF Onward, Rows
  <2>2. \A p \in Ids : Requested(p) => Requested(p)'
    BY <1>1 DEF Requested
  <2>. QED
    BY <1>1, <2>1, <2>2, TellingAside, Zenon
<1>2. CASE \E u \in Users : markRead(u) \/ markAllRead(u)
  BY <1>2, MarkTelling, Zenon DEF markRead, markAllRead
<1>3. CASE pruneOld
  BY <1>3, MarkTelling, Zenon DEF pruneOld
<1>4. CASE RebuildStep \/ reindexAll
  BY <1>1, <1>4 DEF RebuildStep, ReadPage, ListStale, UpsertPage, DeleteStale, PruneFails,
                    reindexAll
<1>5. CASE \E p \in Ids : \E vector \in {0, 1} : WriteByHand(p, vector)
  BY <1>1, <1>5 DEF WriteByHand
<1>6. CASE Shutdown \/ StartDrain \/ drain \/ UNCHANGED announcementVars
  BY <1>1, <1>6 DEF Shutdown, StartDrain, drain, announcementVars
<1>7. CASE \E h \in Handlers : RollBack(h) \/ \E p \in Ids : Begin(h, p)
  BY <1>1, <1>7 DEF RollBack, Begin
<1>. QED
  BY <1>2, <1>3, <1>4, <1>5, <1>6, <1>7, CommitTelling, AnnounceTelling, TaskTelling, CrashTelling,
     Zenon DEF Next, Progress

-----------------------------------------------------------------------------
(* What holds of the announcements *)

LEMMA AInit ==
  ASSUME Init
  PROVE  AInv
<1>1. /\ begun = [h \in Handlers |-> NotBegun]
      /\ requests = [h \in Handlers |-> 0] /\ pending = {} /\ doubtful = {}
      /\ index = [p \in Ids |-> IF p \in Parcels \cup Gone THEN 1 ELSE 0]
      /\ inbox = {} /\ pushed = {} /\ mailed = {} /\ failed = {}
      /\ rebuild = NoRebuild /\ phase = "up"
      /\ cut = [p \in Ids |-> NewestOf(p)]
  BY DEF Init
<1>2. 0 \notin Ids
  BY AnnouncementsAssumption
<1>3. \A p \in Ids : log[p] \in Seq(Entry) /\ (log[p] # <<>> => NewestOf(p) = 1)
  <2> DEFINE booked(u) == [by |-> u, mail |-> FALSE, courier |-> {}, late |-> FALSE]
  <2>1. ASSUME NEW u \in Parties
        PROVE  <<booked(u)>> \in Seq(Entry)
    BY SMT DEF Entry, Users
  <2>2. \A u : Len(<<booked(u)>>) = 1
    OBVIOUS
  <2>3. \A p \in Ids : log[p] = <<>> \/ \E u \in Parties : log[p] = <<booked(u)>>
    BY Zenon DEF Init
  <2>4. <<>> \in Seq(Entry)
    OBVIOUS
  <2>. QED
    BY <2>1, <2>2, <2>3, <2>4, Zenon DEF NewestOf
<1>4. \A p \in Ids : NewestOf(p) \in Nat
  BY <1>3 DEF NewestOf
<1>5. AnnouncementsOK
  <2>1. log \in [Ids -> Seq(Entry)]
    BY <1>3 DEF Init
  <2>2. index \in [Ids -> Nat] /\ cut \in [Ids -> Nat]
    BY <1>1, <1>4
  <2>. QED
    BY <1>1, <2>1, <2>2, SMT DEF AnnouncementsOK, NoRebuild, NotBegun
<1>6. Draining
  BY <1>1 DEF Draining
<1>7. Indexing
  <2>1. ASSUME NEW p \in Ids PROVE Alone(p) /\ Fresh(p) /\ Met(p)
    <3>1. Writers(p) = {} /\ Paged = {}
      BY <1>1, SMT DEF Writers, Paged, NoRebuild
    <3>2. p \in Parcels => index[p] = NewestOf(p)
      BY <1>1, <1>3 DEF Parcels
    <3>. QED
      BY <1>1, <3>1, <3>2, SMT DEF Alone, Fresh, Met, NoRebuild
  <2>. QED
    BY <2>1 DEF Indexing
<1>8. Telling
  <2>1. \A p \in Ids : ~(NewestOf(p) > cut[p])
    BY <1>1, <1>4, SMT
  <2>. QED
    BY <1>1, <2>1, SMT DEF Telling, Stored, PushesAreKept
<1>. QED
  BY <1>5, <1>6, <1>7, <1>8 DEF AInv

LEMMA AStep ==
  ASSUME AInv, [Next]_announcementVars
  PROVE  AInv'
BY AnnouncementsTyped, DrainingKept, IndexingKept, TellingKept, Zenon DEF AInv

LEMMA AMeans ==
  ASSUME AInv
  PROVE  NewestMoveIsTold /\ QuietIndexIsCurrent /\ NothingLeftBehind
<1>1. Quiet => \A p \in Ids : ~Requested(p) /\ ~OnItsWay(p) /\ Writers(p) = {}
  <2>1. 0 \notin Ids
    BY AnnouncementsAssumption
  <2>. QED
    BY <2>1, SMT DEF Quiet, Requested, OnItsWay, Writers
<1>2. NewestMoveIsTold
  <2>1. ASSUME Quiet, NEW p \in Parcels, NewestOf(p) > cut[p] PROVE Told(p)
    <3>1. p \in Ids
      BY DEF Parcels
    <3>2. Delivered(p)
      BY <1>1, <2>1, <3>1 DEF AInv, Telling
    <3>3. \A u : Mailing(p, u) => Reached(mailed, p, NewestOf(p), u)
      BY <2>1 DEF Mailing, Quiet
    <3>. QED
      BY <3>2, <3>3, Zenon DEF Told, Delivered, Who, Reached, Rows
  <2>. QED
    BY <2>1 DEF NewestMoveIsTold, AInv, Telling
<1>3. QuietIndexIsCurrent
  <2>1. ASSUME Quiet, rebuild.stage = "none", NEW p \in Parcels \ doubtful
        PROVE  index[p] = NewestOf(p)
    <3>1. p \in Ids /\ p \notin Paged
      BY <2>1 DEF Parcels, Paged, AInv, AnnouncementsOK
    <3>. QED
      BY <1>1, <2>1, <3>1 DEF AInv, Indexing, Fresh
  <2>. QED
    BY <2>1 DEF QuietIndexIsCurrent
<1>4. NothingLeftBehind
  BY DEF AInv, Draining, NothingLeftBehind, Quiet, Serving
<1>. QED
  BY <1>2, <1>3, <1>4

LEMMA AInductive == Spec => []AInv
<1>1. Init => AInv
  BY AInit
<1>2. AInv /\ [Next]_announcementVars => AInv'
  BY AStep
<1>. QED
  BY <1>1, <1>2, PTL DEF Spec

(* The variables of the announcements keep their types (PrismaService's     *)
(* rows, BackgroundService.pending, the pages of reindexAll).               *)
THEOREM AnnouncementsTypes == Spec => []AnnouncementsOK
<1>1. AInv => AnnouncementsOK
  BY DEF AInv
<1>. QED
  BY <1>1, AInductive, PTL

(* Whatever the order of requests and tasks and whichever channels fail,    *)
(* once nothing is in flight everyone has been told of the newest move of   *)
(* every parcel by the channels that work (ParcelService.announce,          *)
(* notifyStatusChange), and no push names a row that was not stored.        *)
THEOREM NewestMoveTold == Spec => []NewestMoveIsTold
<1>1. AInv => NewestMoveIsTold
  BY AMeans
<1>. QED
  BY <1>1, AInductive, PTL

(* For any table, page size and interleaving of moves with a rebuild: a     *)
(* parcel whose last vector writes neither failed nor raced is in the index *)
(* as it is, and a rebuild's pruning spares it (announce, reindexAll).      *)
THEOREM IndexIsCurrent == Spec => []QuietIndexIsCurrent
<1>1. AInv => QuietIndexIsCurrent
  BY AMeans
<1>. QED
  BY <1>1, AInductive, PTL

(* An orderly exit leaves nothing in flight, however many tasks the tasks   *)
(* it waited for have started (BackgroundService.drain).                    *)
THEOREM DrainLeavesNothing == Spec => []NothingLeftBehind
<1>1. AInv => NothingLeftBehind
  BY AMeans
<1>. QED
  BY <1>1, AInductive, PTL

(* The assistant's requests change nothing of the announcements: the        *)
(* composed specification implements the one above, so that each of these   *)
(* theorems holds beside them as well (ChatController, RagService).         *)
THEOREM BesideTheAssistant == AssistantSpec => Spec
<1>1. AssistantInit => Init
  BY DEF AssistantInit
<1>2. [AssistantNext]_allVars => [Next]_announcementVars
  <2>1. ASSUME NEW c \in Clients, NEW s \in Sources, uploadPDF(c, s) \/ removePDF(c, s)
        PROVE  UNCHANGED announcementVars
    BY <2>1 DEF uploadPDF, removePDF, Take
  <2>2. ASSUME NEW c \in Clients, NEW scope, NEW chat, NEW streamed, ask(c, scope, chat, streamed)
        PROVE  UNCHANGED announcementVars
    BY <2>2 DEF ask, asked
  <2>3. ASSUME JobStep PROVE UNCHANGED announcementVars
    BY <2>3, Zenon DEF JobStep, ListChunks, DeletePage, DeleteByFilter, AddSome, AddChunks,
       DocumentFails, Retrieve, RetrieveFails, SayNothing, Token, Close, Complete, asked
  <2>4. ASSUME NEW c \in Clients, Leave(c) PROVE UNCHANGED announcementVars
    BY <2>4 DEF Leave, asked
  <2>5. ASSUME UNCHANGED allVars PROVE UNCHANGED announcementVars
    BY <2>5 DEF allVars
  <2>. QED
    BY <2>1, <2>2, <2>3, <2>4, <2>5, Zenon DEF AssistantNext
<1>. QED
  BY <1>1, <1>2, PTL DEF AssistantSpec, Spec

-----------------------------------------------------------------------------
(* The assistant's jobs *)

Stages == {"list", "delete", "add"}
Events == Finals \cup {"sources", "token"}

DocumentJob(job) ==
  \E s \in Sources, upload \in Nat \ {0}, size \in Nat, stage \in Stages, next \in Nat,
     ids \in SUBSET Positions :
    job = Document(s, upload, size, stage, next, ids)

QuestionJob(job) ==
  \E scope \in Scopes, chat \in BOOLEAN, streamed \in BOOLEAN,
     stage \in {"retrieve", "nothing", "stream", "ended"}, sent \in Seq(Events), gone \in BOOLEAN :
    job = Question(scope, chat, streamed, stage, sent, gone)

JobsOK ==
  /\ uploads \in Nat
  /\ chunks \in [Sources -> [Positions -> Nat \X Nat]]
  /\ jobs = [c \in Clients |-> jobs[c]]
  /\ \A c \in Clients : jobs[c] = NoJob \/ DocumentJob(jobs[c]) \/ QuestionJob(jobs[c])

(* The chunks of one document: all of one upload; all of them, or none.    *)
Held(stored) == {i \in Positions : stored[i] # NoChunk}
Same(stored) == \A i, j \in Held(stored) : stored[i] = stored[j]
Whole(stored) == \A i \in Held(stored) : Held(stored) = {j \in Positions : j < stored[i][2]}

(* What is left of the chunks a worker has come past: those it is about to  *)
(* delete; once it adds, there are only its own.                            *)
Knows(job, stored) ==
  /\ job.stage = "list" => \A i \in Held(stored) : job.next <= i
  /\ job.stage = "delete" => \A i \in Held(stored) : i \in job.ids \/ job.next <= i
  /\ job.stage = "add" =>
       \A i \in Held(stored) : i < job.size /\ stored[i] = <<job.upload, job.size>>

(* A document whose workers do not overlap has one at most, and is whole    *)
(* when it has none, unless the last of them did not come to its end.       *)
Uploading(s) ==
  s \notin mingled =>
    /\ \A c, d \in Workers(s) : c = d
    /\ Same(chunks[s])
    /\ Workers(s) = {} /\ s \notin torn => Whole(chunks[s])
    /\ \A c \in Workers(s) : Knows(jobs[c], chunks[s])

(* A stream: what is written so far, and whether it has ended. *)
Stream(sent, ended) ==
  /\ {i \in DOMAIN sent : sent[i] \in Finals} = IF ended THEN {Len(sent)} ELSE {}
  /\ \A i \in DOMAIN sent :
       /\ sent[i] = "token" => sent[1] = "sources"
       /\ sent[i] = "sources" => i = 1

(* It has its end, or goes on, or its client has left. *)
Streamed(job) ==
  \/ job.stage = "ended" /\ Stream(job.sent, TRUE)
  \/ (job.stage = "ended" => job.gone) /\ Stream(job.sent, FALSE)

(* The sources are written before the model is asked, unless the client has *)
(* left or takes its answer whole.                                          *)
Streaming(c) ==
  jobs[c].kind = "ask" =>
    LET job == jobs[c] IN
    /\ Streamed(job)
    /\ job.stage = "retrieve" => job.sent = <<>>
    /\ job.stage \in {"nothing", "stream"} /\ job.streamed /\ ~job.gone =>
         job.sent # <<>> /\ job.sent[1] = "sources"
    /\ ~job.streamed /\ job.stage # "ended" => job.sent = <<>>

JInv ==
  /\ JobsOK
  /\ \A s \in Sources : Uploading(s)
  /\ \A c \in Clients : Streaming(c)

-----------------------------------------------------------------------------
(* The assistant's jobs, step by step *)

LEMMA JobKinds ==
  /\ NoJob.kind = "none"
  /\ \A job : DocumentJob(job) => job.kind = "document"
  /\ \A job : QuestionJob(job) => job.kind = "ask"
BY SMT DEF NoJob, DocumentJob, QuestionJob, Document, Question

LEMMA DocumentFields ==
  ASSUME JobsOK, NEW c \in Clients, jobs[c].kind = "document"
  PROVE  /\ jobs[c].source \in Sources /\ jobs[c].upload \in Nat \ {0} /\ jobs[c].size \in Nat
         /\ jobs[c].stage \in Stages /\ jobs[c].next \in Nat /\ jobs[c].ids \subseteq Positions
<1>1. DocumentJob(jobs[c])
  BY JobKinds DEF JobsOK
<1>. QED
  BY <1>1, SMT DEF DocumentJob, Document

LEMMA QuestionFields ==
  ASSUME JobsOK, NEW c \in Clients, jobs[c].kind = "ask"
  PROVE  /\ jobs[c].scope \in Scopes /\ jobs[c].chat \in BOOLEAN /\ jobs[c].streamed \in BOOLEAN
         /\ jobs[c].stage \in {"retrieve", "nothing", "stream", "ended"}
         /\ jobs[c].sent \in Seq(Events) /\ jobs[c].gone \in BOOLEAN
<1>1. QuestionJob(jobs[c])
  BY JobKinds DEF JobsOK
<1>. QED
  BY <1>1, SMT DEF QuestionJob, Question

(* A step that gives one client another job, or none. *)
LEMMA OneJob ==
  ASSUME JobsOK, NEW c \in Clients, NEW job, jobs' = [jobs EXCEPT ![c] = job],
         job = NoJob \/ DocumentJob(job) \/ QuestionJob(job),
         uploads' \in Nat, chunks' \in [Sources -> [Positions -> Nat \X Nat]]
  PROVE  /\ JobsOK'
         /\ jobs'[c] = job /\ \A d \in Clients \ {c} : jobs'[d] = jobs[d]
<1>1. jobs'[c] = job /\ \A d \in Clients \ {c} : jobs'[d] = jobs[d]
  BY DEF JobsOK
<1>2. jobs' = [d \in Clients |-> jobs'[d]]
  BY DEF JobsOK
<1>3. \A d \in Clients : jobs'[d] = NoJob \/ DocumentJob(jobs'[d]) \/ QuestionJob(jobs'[d])
  BY <1>1, SMT DEF JobsOK
<1>. QED
  BY <1>1, <1>2, <1>3 DEF JobsOK, DocumentJob, QuestionJob

LEMMA StreamingAside ==
  ASSUME NEW c \in Clients, Streaming(c), jobs'[c] = jobs[c] \/ jobs'[c].kind # "ask"
  PROVE  Streaming(c)'
BY Zenon DEF Streaming, Streamed, Stream

LEMMA UploadingAside ==
  ASSUME NEW s \in Sources, Uploading(s), UNCHANGED <<chunks, mingled, torn>>,
         \A c \in Clients : \/ jobs'[c] = jobs[c]
                            \/ jobs[c].kind # "document" /\ jobs'[c].kind # "document"
  PROVE  Uploading(s)'
<1>1. Workers(s)' = Workers(s)
  BY SMT DEF Workers
<1>2. \A c \in Workers(s) : jobs'[c] = jobs[c]
  BY DEF Workers
<1>. QED
  BY <1>1, <1>2, Zenon DEF Uploading

(* The events of a stream, one more at a time. *)
LEMMA StreamGrows ==
  ASSUME NEW sent \in Seq(Events), Stream(sent, FALSE)
  PROVE  /\ sent # <<>> /\ sent[1] = "sources" =>
              /\ Stream(sent \o <<"token">>, FALSE)
              /\ sent \o <<"token">> # <<>> /\ (sent \o <<"token">>)[1] = "sources"
         /\ \A e \in Finals : Stream(sent \o <<e>>, TRUE)
         /\ sent \o <<>> = sent
<1>1. \A i \in DOMAIN sent : sent[i] \notin Finals
  BY Zenon DEF Stream
<1>2. sent \o <<>> = sent
  BY SMT
<1>3. ASSUME sent # <<>>, sent[1] = "sources"
      PROVE  /\ Stream(sent \o <<"token">>, FALSE)
             /\ sent \o <<"token">> # <<>> /\ (sent \o <<"token">>)[1] = "sources"
  <2>. PICK more : more = sent \o <<"token">>
    OBVIOUS
  <2>1. /\ DOMAIN more = 1 .. Len(sent) + 1 /\ DOMAIN sent = 1 .. Len(sent) /\ Len(sent) \in Nat
        /\ \A i \in DOMAIN sent : more[i] = sent[i]
        /\ more[Len(sent) + 1] = "token" /\ 1 \in DOMAIN sent
    BY <1>3, SMT
  <2>2. \A i \in DOMAIN more : more[i] \notin Finals
    BY <1>1, <2>1, SMT DEF Finals
  <2>3. more[1] = "sources" /\ more # <<>>
    BY <1>3, <2>1, SMT
  <2>4. \A i \in DOMAIN more : more[i] = "sources" => i = 1
    BY <2>1, SMT DEF Stream
  <2>. QED
    BY <2>2, <2>3, <2>4 DEF Stream
<1>4. ASSUME NEW e \in Finals PROVE Stream(sent \o <<e>>, TRUE)
  <2>. PICK more : more = sent \o <<e>>
    OBVIOUS
  <2>1. /\ DOMAIN more = 1 .. Len(sent) + 1 /\ DOMAIN sent = 1 .. Len(sent) /\ Len(sent) \in Nat
        /\ \A i \in DOMAIN sent : more[i] = sent[i]
        /\ more[Len(sent) + 1] = e /\ Len(more) = Len(sent) + 1
    BY SMT
  <2>2. \A i \in DOMAIN more : more[i] \in Finals <=> i = Len(more)
    BY <1>1, <1>4, <2>1, SMT
  <2>3. {i \in DOMAIN more : more[i] \in Finals} = {Len(more)}
    BY <2>1, <2>2, SMT
  <2>4. ASSUME NEW i \in DOMAIN more
        PROVE  /\ more[i] = "token" => more[1] = "sources"
               /\ more[i] = "sources" => i = 1
    <3>1. e # "token" /\ e # "sources"
      BY DEF Finals
    <3>. QED
      BY <2>1, <3>1, SMT DEF Stream
  <2>. QED
    BY <2>3, <2>4, Zenon DEF Stream
<1>. QED
  BY <1>2, <1>3, <1>4

(* A question's step: its new job has to be a stream that goes on as it should. *)
LEMMA QuestionStep ==
  ASSUME JInv, NEW c \in Clients, jobs[c].kind # "document", asked' = asked,
         NEW job, QuestionJob(job), jobs' = [jobs EXCEPT ![c] = job],
         Streamed(job),
         job.stage = "retrieve" => job.sent = <<>>,
         job.stage \in {"nothing", "stream"} /\ job.streamed /\ ~job.gone =>
           job.sent # <<>> /\ job.sent[1] = "sources",
         ~job.streamed /\ job.stage # "ended" => job.sent = <<>>
  PROVE  JInv'
<1>1. UNCHANGED <<chunks, uploads, mingled, torn>>
  BY DEF asked
<1>2. /\ JobsOK'
      /\ jobs'[c] = job /\ \A d \in Clients \ {c} : jobs'[d] = jobs[d]
  BY <1>1, OneJob, SMT DEF JInv, JobsOK
<1>3. \A s \in Sources : Uploading(s)'
  <2>1. \A d \in Clients : \/ jobs'[d] = jobs[d]
                           \/ jobs[d].kind # "document" /\ jobs'[d].kind # "document"
    BY <1>2, JobKinds, SMT
  <2>. QED
    BY <1>1, <2>1, UploadingAside, Zenon DEF JInv
<1>4. Streaming(c)'
  BY <1>2 DEF Streaming
<1>5. \A d \in Clients : Streaming(d)'
  BY <1>2, <1>4, StreamingAside, Zenon DEF JInv
<1>. QED
  BY <1>2, <1>3, <1>5 DEF JInv

(* To a client that has left nothing more is written. *)
LEMMA GoneKept ==
  ASSUME JInv, NEW c \in Clients, jobs[c].kind = "ask", jobs[c].stage # "ended", jobs[c].gone,
         NEW said, NEW final, NEW stage, Emits(c, said, final, stage), asked' = asked
  PROVE  JInv'
<1>. PICK job : job = jobs[c]
  OBVIOUS
<1>1. /\ job.scope \in Scopes /\ job.chat \in BOOLEAN /\ job.streamed \in BOOLEAN
      /\ job.sent \in Seq(Events) /\ Stream(job.sent, FALSE)
  BY QuestionFields DEF JInv, Streaming, Streamed
<1>. PICK next : next = Question(job.scope, job.chat, job.streamed, "ended", job.sent, TRUE)
  OBVIOUS
<1>2. jobs' = [jobs EXCEPT ![c] = next]
  <2>1. job.gone = TRUE
    BY QuestionFields DEF JInv
  <2>. QED
    BY <2>1 DEF Emits
<1>3. QuestionJob(next)
  <2>1. TRUE \in BOOLEAN /\ "ended" \in {"retrieve", "nothing", "stream", "ended"}
    OBVIOUS
  <2>. QED
    BY <1>1, <2>1, Zenon DEF QuestionJob
<1>4. next.sent = job.sent /\ next.stage = "ended" /\ next.gone /\ Streamed(next)
  BY <1>1 DEF Question, Streamed
<1>. QED
  BY <1>1, <1>2, <1>3, <1>4, QuestionStep

(* To the others, more of the stream or its end. *)
LEMMA EmitsKept ==
  ASSUME JInv, NEW c \in Clients, jobs[c].kind = "ask", jobs[c].stage # "ended", ~jobs[c].gone,
         NEW said, NEW final, NEW stage \in {"nothing", "stream", "ended"},
         Emits(c, said, final, stage), asked' = asked,
         NEW written \in Seq(Events),
         written = jobs[c].sent \o (IF jobs[c].streamed THEN said ELSE <<>>) \o final,
         stage = "ended" => Stream(written, TRUE),
         stage # "ended" => Stream(written, FALSE),
         stage # "ended" /\ jobs[c].streamed => written # <<>> /\ written[1] = "sources",
         stage # "ended" /\ ~jobs[c].streamed => written = <<>>
  PROVE  JInv'
<1>. PICK job : job = jobs[c]
  OBVIOUS
<1>1. /\ job.scope \in Scopes /\ job.chat \in BOOLEAN /\ job.streamed \in BOOLEAN
  BY QuestionFields DEF JInv
<1>. PICK next : next = Question(job.scope, job.chat, job.streamed, stage, written, FALSE)
  OBVIOUS
<1>2. jobs' = [jobs EXCEPT ![c] = next]
  <2>1. job.gone = FALSE
    BY QuestionFields DEF JInv
  <2>. QED
    BY <2>1 DEF Emits
<1>3. QuestionJob(next)
  <2>1. FALSE \in BOOLEAN /\ stage \in {"retrieve", "nothing", "stream", "ended"}
    OBVIOUS
  <2>. QED
    BY <1>1, <2>1, Zenon DEF QuestionJob
<1>4. /\ next.sent = written /\ next.stage = stage /\ next.streamed = job.streamed
      /\ ~next.gone
  BY DEF Question
<1>5. Streamed(next)
  BY <1>4 DEF Streamed
<1>. QED
  BY <1>2, <1>3, <1>4, <1>5, QuestionStep, Zenon

LEMMA QuestionKept ==
  ASSUME JInv, NEW c \in Clients, NEW ok \in BOOLEAN,
         Retrieve(c) \/ RetrieveFails(c) \/ SayNothing(c) \/ Token(c) \/ Complete(c, ok)
  PROVE  JInv'
<1>. PICK sent : sent = jobs[c].sent
  OBVIOUS
<1>1. /\ jobs[c].kind = "ask" /\ jobs[c].stage # "ended" /\ asked' = asked
  BY DEF Retrieve, RetrieveFails, SayNothing, Token, Complete, Job, asked
<1>2. /\ sent \in Seq(Events) /\ jobs[c].streamed \in BOOLEAN /\ Stream(sent, FALSE)
      /\ "sources" \in Events /\ "token" \in Events /\ Finals \subseteq Events
      /\ "done" \in Finals /\ "error" \in Finals
  BY <1>1, QuestionFields DEF JInv, Streaming, Streamed, Events, Finals
<1>3. sent \o <<>> = sent /\ \A e \in Finals : Stream(sent \o <<e>>, TRUE)
  BY <1>2, StreamGrows
<1>4. \A e \in Events : sent \o <<e>> \in Seq(Events)
  BY <1>2, SMT
<1>5. CASE jobs[c].gone /\ ~RetrieveFails(c)
  <2>1. PICK said, final, stage : Emits(c, said, final, stage)
    BY <1>5 DEF Retrieve, SayNothing, Token, Complete
  <2>. QED
    BY <1>1, <1>5, <2>1, GoneKept
<1>6. CASE ~jobs[c].gone /\ Retrieve(c)
  <2>1. sent = <<>>
    BY <1>1, <1>6 DEF JInv, Streaming, Retrieve, Job
  <2>2. /\ Stream(<<"sources">>, FALSE) /\ Stream(<<>>, FALSE)
        /\ <<"sources">> \in Seq(Events) /\ <<>> \in Seq(Events)
    BY <1>2, SMT DEF Stream, Finals
  <2>. PICK stage \in {"nothing", "stream"} : Emits(c, <<"sources">>, <<>>, stage)
    BY <1>6 DEF Retrieve
  <2>. PICK written : written = IF jobs[c].streamed THEN <<"sources">> ELSE <<>>
    OBVIOUS
  <2>3. written = jobs[c].sent \o (IF jobs[c].streamed THEN <<"sources">> ELSE <<>>) \o <<>>
    BY <2>1, SMT
  <2>4. written \in Seq(Events) /\ Stream(written, FALSE)
    BY <2>2
  <2>5. /\ jobs[c].streamed => written # <<>> /\ written[1] = "sources"
        /\ ~jobs[c].streamed => written = <<>>
        /\ stage \in {"nothing", "stream", "ended"}
    BY SMT
  <2>. QED
    <3>1. ~jobs[c].gone
      BY <1>6
    <3>. QED
      BY <1>1, <2>3, <2>4, <2>5, <3>1, EmitsKept
<1>7. CASE ~jobs[c].gone /\ Complete(c, ok)
  <2>. PICK e \in Finals : Emits(c, <<>>, <<e>>, "ended")
    BY <1>2, <1>7 DEF Complete
  <2>. PICK written : written = sent \o <<e>>
    OBVIOUS
  <2>1. written = sent \o (IF jobs[c].streamed THEN <<>> ELSE <<>>) \o <<e>>
    BY <1>3
  <2>2. written \in Seq(Events) /\ Stream(written, TRUE)
    BY <1>2, <1>3, <1>4
  <2>. QED
    BY <1>1, <1>7, <2>1, <2>2, EmitsKept
<1>8. CASE ~jobs[c].gone /\ (SayNothing(c) \/ Token(c))
  <2>1. /\ jobs[c].stage \in {"nothing", "stream"}
        /\ jobs[c].streamed /\ ~jobs[c].gone => sent # <<>> /\ sent[1] = "sources"
        /\ Token(c) => jobs[c].streamed
    BY <1>1, <1>8, SMT DEF JInv, Streaming, SayNothing, Token, Job
  <2>2. CASE SayNothing(c)
    <3>. PICK said : said = IF jobs[c].streamed THEN <<"token">> ELSE <<>>
      OBVIOUS
    <3>. PICK written : written = sent \o said \o <<"done">>
      OBVIOUS
    <3>1. Emits(c, <<"token">>, <<"done">>, "ended")
      BY <2>2 DEF SayNothing
    <3>2. sent \o said \in Seq(Events) /\ Stream(sent \o said, FALSE)
      BY <1>2, <1>3, <1>4, <1>8, <2>1, StreamGrows
    <3>3. written \in Seq(Events) /\ Stream(written, TRUE)
      <4>1. written \in Seq(Events)
        BY <1>2, <3>2, SMT
      <4>. QED
        BY <1>2, <3>2, <4>1, StreamGrows
    <3>. QED
      BY <1>1, <1>8, <3>1, <3>3, EmitsKept
  <2>3. CASE Token(c)
    <3>. PICK written : written = sent \o <<"token">>
      OBVIOUS
    <3>1. Emits(c, <<"token">>, <<>>, "stream") /\ jobs[c].streamed
      BY <2>3 DEF Token
    <3>2. /\ written \in Seq(Events) /\ Stream(written, FALSE)
          /\ written # <<>> /\ written[1] = "sources"
      BY <1>2, <1>4, <1>8, <2>1, <3>1, StreamGrows
    <3>3. written = sent \o (IF jobs[c].streamed THEN <<"token">> ELSE <<>>) \o <<>>
      BY <3>1, <3>2, SMT
    <3>. QED
      BY <1>1, <1>8, <3>1, <3>2, <3>3, EmitsKept
  <2>. QED
    BY <1>8, <2>2, <2>3
<1>9. CASE RetrieveFails(c)
  <2>. PICK old : old = jobs[c]
    OBVIOUS
  <2>. PICK job : job = Question(old.scope, old.chat, old.streamed, "ended", sent \o <<"error">>,
                                old.gone)
    OBVIOUS
  <2>1. jobs' = [jobs EXCEPT ![c] = job]
    BY <1>9 DEF RetrieveFails
  <2>2. QuestionJob(job)
    <3>1. /\ old.scope \in Scopes /\ old.chat \in BOOLEAN /\ old.streamed \in BOOLEAN
          /\ old.gone \in BOOLEAN
      BY <1>1, QuestionFields DEF JInv
    <3>2. sent \o <<"error">> \in Seq(Events)
          /\ "ended" \in {"retrieve", "nothing", "stream", "ended"}
      BY <1>2, <1>4
    <3>. QED
      BY <3>1, <3>2, Zenon DEF QuestionJob
  <2>3. job.sent = sent \o <<"error">> /\ job.stage = "ended" /\ Streamed(job)
    BY <1>2, <1>3 DEF Question, Streamed
  <2>. QED
    BY <1>1, <2>1, <2>2, <2>3, QuestionStep
<1>. QED
  BY <1>5, <1>6, <1>7, <1>8, <1>9

LEMMA AskKept ==
  ASSUME JInv, NEW c \in Clients, NEW scope \in Scopes, NEW chat \in BOOLEAN,
         NEW streamed \in BOOLEAN, ask(c, scope, chat, streamed)
  PROVE  JInv'
<1>. PICK job : job = Question(scope, chat, streamed, "retrieve", <<>>, FALSE)
  OBVIOUS
<1>1. jobs' = [jobs EXCEPT ![c] = job] /\ asked' = asked
  BY DEF ask, asked
<1>2. jobs[c].kind # "document"
  BY JobKinds DEF ask, Free
<1>3. QuestionJob(job)
  <2>1. /\ FALSE \in BOOLEAN /\ "retrieve" \in {"retrieve", "nothing", "stream", "ended"}
        /\ <<>> \in Seq(Events)
    OBVIOUS
  <2>. QED
    BY <2>1, Zenon DEF QuestionJob
<1>4. job.sent = <<>> /\ job.stage = "retrieve" /\ Streamed(job)
  <2>1. Stream(<<>>, FALSE)
    BY SMT DEF Stream
  <2>2. job.sent = <<>> /\ job.stage = "retrieve" /\ "retrieve" # "ended"
    BY DEF Question
  <2>. QED
    BY <2>1, <2>2, Zenon DEF Streamed
<1>. QED
  BY <1>1, <1>2, <1>3, <1>4, QuestionStep

LEMMA LeaveKept ==
  ASSUME JInv, NEW c \in Clients, Leave(c)
  PROVE  JInv'
<1>. PICK old : old = jobs[c]
  OBVIOUS
<1>. PICK job : job = Question(old.scope, old.chat, TRUE, old.stage, old.sent, TRUE)
  OBVIOUS
<1>1. /\ jobs' = [jobs EXCEPT ![c] = job] /\ asked' = asked
      /\ old.kind = "ask" /\ old.stage # "ended"
  BY DEF Leave, asked
<1>2. QuestionJob(job)
  BY <1>1, QuestionFields, Zenon DEF JInv, QuestionJob
<1>3. job.sent = old.sent /\ job.stage = old.stage /\ job.gone /\ job.streamed
  BY DEF Question
<1>4. Streamed(job) /\ (old.stage = "retrieve" => old.sent = <<>>)
  BY <1>1, <1>3 DEF JInv, Streaming, Streamed
<1>. QED
  BY <1>1, <1>2, <1>3, <1>4, QuestionStep

(* A question that has been answered leaves the documents alone. *)
LEMMA CloseKept ==
  ASSUME JInv, NEW c \in Clients, Close(c)
  PROVE  JInv'
<1>1. /\ jobs[c].kind = "ask" /\ jobs' = [jobs EXCEPT ![c] = NoJob]
      /\ UNCHANGED <<chunks, uploads, mingled, torn>>
  BY DEF Close, Job, Answered, asked
<1>. PICK job : job = NoJob
  OBVIOUS
<1>2. /\ JobsOK'
      /\ jobs'[c] = job /\ \A d \in Clients \ {c} : jobs'[d] = jobs[d]
  BY <1>1, OneJob DEF JInv, JobsOK
<1>3. \A s \in Sources : Uploading(s)'
  <2>1. \A d \in Clients : \/ jobs'[d] = jobs[d]
                           \/ jobs[d].kind # "document" /\ jobs'[d].kind # "document"
    BY <1>1, <1>2, JobKinds, SMT
  <2>. QED
    BY <1>1, <2>1, UploadingAside, Zenon DEF JInv
<1>4. \A d \in Clients : Streaming(d)'
  BY <1>2, JobKinds, StreamingAside, SMT DEF JInv
<1>. QED
  BY <1>2, <1>3, <1>4 DEF JInv

(* A crash is the end of all of them, and tears what they were about. *)
LEMMA CrashJobs ==
  ASSUME JInv, jobs' = [c \in Clients |-> NoJob], UNCHANGED <<chunks, uploads, mingled>>,
         torn' = torn \cup {s \in Sources : Busy(s)}
  PROVE  JInv'
<1>1. JobsOK'
  BY SMT DEF JInv, JobsOK
<1>2. ASSUME NEW s \in Sources PROVE Uploading(s)'
  <2>1. Workers(s)' = {}
    BY JobKinds DEF Workers
  <2>2. Uploading(s) /\ (s \notin torn' => s \notin torn /\ Workers(s) = {})
    BY DEF JInv, Busy
  <2>. QED
    BY <2>1, <2>2, Zenon DEF Uploading
<1>3. \A d \in Clients : Streaming(d)'
  BY JobKinds, StreamingAside, SMT DEF JInv
<1>. QED
  BY <1>1, <1>2, <1>3 DEF JInv

(* A step of a document's only worker, or of the one it gets: of the        *)
(* documents no other is concerned.                                         *)
LEMMA DocumentStep ==
  ASSUME JInv, NEW c \in Clients, NEW s \in Sources, NEW job,
         NEW stored \in [Positions -> Nat \X Nat],
         jobs' = [jobs EXCEPT ![c] = job],
         job = NoJob \/ (DocumentJob(job) /\ job.source = s),
         jobs[c].kind # "ask", jobs[c].kind = "document" => jobs[c].source = s,
         uploads' \in Nat, chunks' = [chunks EXCEPT ![s] = stored],
         \A r \in Sources \ {s} : (r \in mingled => r \in mingled') /\ (r \in torn => r \in torn'),
         s \notin mingled' =>
           /\ Workers(s) \subseteq {c}
           /\ Same(stored)
           /\ job = NoJob /\ s \notin torn' => Whole(stored)
           /\ job # NoJob => Knows(job, stored)
  PROVE  JInv'
<1>1. /\ chunks' \in [Sources -> [Positions -> Nat \X Nat]]
      /\ chunks'[s] = stored /\ \A r \in Sources \ {s} : chunks'[r] = chunks[r]
  BY DEF JInv, JobsOK
<1>2. /\ JobsOK'
      /\ jobs'[c] = job /\ \A d \in Clients \ {c} : jobs'[d] = jobs[d]
  BY <1>1, OneJob DEF JInv
<1>3. ASSUME NEW r \in Sources, r # s PROVE Uploading(r)'
  <2>1. Workers(r)' = Workers(r) /\ \A d \in Workers(r) : jobs'[d] = jobs[d]
    <3>1. ~(jobs[c].kind = "document" /\ jobs[c].source = r)
      BY <1>3
    <3>2. ~(jobs'[c].kind = "document" /\ jobs'[c].source = r)
      BY <1>2, <1>3, JobKinds
    <3>. QED
      BY <1>2, <3>1, <3>2, SMT DEF Workers
  <2>2. Uploading(r) /\ chunks'[r] = chunks[r]
        /\ (r \notin mingled' => r \notin mingled) /\ (r \notin torn' => r \notin torn)
    BY <1>1, <1>3 DEF JInv
  <2>. QED
    BY <2>1, <2>2, Zenon DEF Uploading
<1>4. Uploading(s)'
  <2>1. ASSUME s \notin mingled', job = NoJob PROVE Workers(s)' = {}
    BY <1>2, <2>1, JobKinds, SMT DEF Workers
  <2>2. ASSUME s \notin mingled', job # NoJob PROVE Workers(s)' = {c}
    BY <1>2, <2>2, JobKinds, SMT DEF Workers
  <2>3. ASSUME s \notin mingled' PROVE \A d \in Workers(s)' : d = c /\ job # NoJob
    BY <2>1, <2>2, <2>3, Zenon
  <2>4. s \notin mingled' => \A d \in Workers(s)' : Knows(jobs'[d], chunks'[s])
    BY <1>1, <1>2, <2>3, Zenon
  <2>5. s \notin mingled' /\ Workers(s)' = {} /\ s \notin torn' => Whole(chunks'[s])
    BY <1>1, <2>2, Zenon
  <2>6. s \notin mingled' => Same(chunks'[s])
    BY <1>1
  <2>. QED
    BY <2>3, <2>4, <2>5, <2>6, Zenon DEF Uploading
<1>5. \A d \in Clients : Streaming(d)'
  BY <1>2, JobKinds, StreamingAside, SMT DEF JInv
<1>. QED
  BY <1>2, <1>3, <1>4, <1>5 DEF JInv

LEMMA TakeKept ==
  ASSUME JInv, NEW c \in Clients, NEW s \in Sources, NEW size \in Nat, Take(c, s, size)
  PROVE  JInv'
<1>. PICK job : job = Document(s, uploads + 1, size, "list", 0, {})
  OBVIOUS
<1>. PICK stored : stored = chunks[s]
  OBVIOUS
<1>1. /\ jobs[c] = NoJob /\ jobs' = [jobs EXCEPT ![c] = job]
      /\ uploads' = uploads + 1 /\ chunks' = chunks /\ torn' = torn
      /\ mingled' = IF Workers(s) # {} THEN mingled \cup {s} ELSE mingled
  BY DEF Take, Free, Busy
<1>2. DocumentJob(job) /\ job.source = s /\ job.stage = "list" /\ job.next = 0
  <2>1. uploads + 1 \in Nat \ {0} /\ "list" \in Stages /\ {} \in SUBSET Positions /\ 0 \in Nat
    BY SMT DEF JInv, JobsOK, Stages
  <2>2. DocumentJob(job)
    BY <2>1, Zenon DEF DocumentJob
  <2>. QED
    BY <2>2 DEF Document
<1>3. /\ stored \in [Positions -> Nat \X Nat] /\ chunks' = [chunks EXCEPT ![s] = stored]
      /\ uploads' \in Nat
  BY <1>1, SMT DEF JInv, JobsOK
<1>4. s \notin mingled' => Workers(s) \subseteq {c} /\ Same(stored)
  BY <1>1 DEF JInv, Uploading
<1>5. Knows(job, stored)
  <2>1. \A i \in Held(stored) : 0 <= i
    BY AssistantAssumption, SMT DEF Held, Positions
  <2>. QED
    BY <1>2, <2>1 DEF Knows
<1>6. job # NoJob /\ jobs[c].kind # "ask" /\ jobs[c].kind # "document"
  BY <1>1, <1>2, JobKinds
<1>7. \A r \in Sources \ {s} : (r \in mingled => r \in mingled') /\ (r \in torn => r \in torn')
  BY <1>1
<1>8. jobs' = [jobs EXCEPT ![c] = job]
  BY <1>1
<1>. QED
  BY <1>2, <1>3, <1>4, <1>5, <1>6, <1>7, <1>8, DocumentStep

(* What the stage a document's sole worker has reached says of it. *)
LEMMA SoleWorker ==
  ASSUME JInv, NEW c \in Clients, jobs[c].kind = "document", NEW s, s = jobs[c].source
  PROVE  /\ s \in Sources /\ chunks[s] \in [Positions -> Nat \X Nat]
         /\ c \in Workers(s)
         /\ s \notin mingled => /\ Workers(s) \subseteq {c}
                                /\ Same(chunks[s]) /\ Knows(jobs[c], chunks[s])
<1>1. c \in Workers(s) /\ s \in Sources
  BY DocumentFields DEF Workers, JInv
<1>2. chunks[s] \in [Positions -> Nat \X Nat]
  BY <1>1 DEF JInv, JobsOK
<1>. QED
  BY <1>1, <1>2 DEF JInv, Uploading

LEMMA ListChunksKept ==
  ASSUME JInv, NEW c \in Clients, ListChunks(c)
  PROVE  JInv'
<1>. PICK old : old = jobs[c]
  OBVIOUS
<1>. PICK s : s = old.source
  OBVIOUS
<1>. PICK stored : stored = chunks[s]
  OBVIOUS
<1>1. /\ old.kind = "document" /\ old.stage = "list"
      /\ UNCHANGED <<chunks, uploads, mingled, torn>>
  BY DEF ListChunks, Job
<1>2. /\ s \in Sources /\ old.upload \in Nat \ {0} /\ old.size \in Nat /\ old.next \in Nat
      /\ stored \in [Positions -> Nat \X Nat]
  BY <1>1, DocumentFields, SoleWorker DEF JInv
<1>3. PICK next \in old.next + 1 .. MaxChunks :
        jobs' = [jobs EXCEPT ![c] = Document(s, old.upload, old.size, "delete", next,
                   {i \in ChunksOf(s) : old.next <= i /\ i < next})]
  <2>1. PICK next \in old.next + 1 .. MaxChunks :
          At(c, "delete", next, {i \in ChunksOf(s) : old.next <= i /\ i < next})
    BY DEF ListChunks
  <2>2. jobs' = [jobs EXCEPT ![c] = Document(s, old.upload, old.size, "delete", next,
                   {i \in ChunksOf(s) : old.next <= i /\ i < next})]
    BY <2>1 DEF At
  <2>. QED
    BY <2>1, <2>2
<1>. PICK ids : ids = {i \in Held(stored) : old.next <= i /\ i < next}
  OBVIOUS
<1>. PICK job : job = Document(s, old.upload, old.size, "delete", next, ids)
  OBVIOUS
<1>4. jobs' = [jobs EXCEPT ![c] = job]
  <2>1. ids = {i \in ChunksOf(s) : old.next <= i /\ i < next}
    BY Zenon DEF Held, ChunksOf
  <2>. QED
    BY <1>3, <2>1
<1>5. next \in Nat /\ ids \in SUBSET Positions
  BY <1>2, AssistantAssumption, SMT DEF Held
<1>6. DocumentJob(job) /\ job.source = s /\ job.stage = "delete" /\ job.next = next /\ job.ids = ids
  <2>1. "delete" \in Stages
    BY DEF Stages
  <2>2. DocumentJob(job)
    BY <1>2, <1>5, <2>1, Zenon DEF DocumentJob
  <2>. QED
    BY <2>2 DEF Document
<1>7. s \notin mingled => Workers(s) \subseteq {c} /\ Same(stored) /\ Knows(job, stored)
  <2>1. ASSUME s \notin mingled, NEW i \in Held(stored) PROVE i \in ids \/ next <= i
    <3>1. old.next <= i
      BY <1>1, <2>1, SoleWorker DEF Knows
    <3>2. i \in Nat
      BY AssistantAssumption, SMT DEF Held, Positions
    <3>. QED
      BY <1>5, <3>1, <3>2, SMT
  <2>2. s \notin mingled => Knows(job, stored)
    BY <1>6, <2>1, Zenon DEF Knows
  <2>. QED
    BY <1>1, <2>2, SoleWorker
<1>8. chunks' = [chunks EXCEPT ![s] = stored] /\ uploads' \in Nat
  BY <1>1, SMT DEF JInv, JobsOK
<1>9. job # NoJob
  BY <1>6, JobKinds
<1>10. \A r \in Sources \ {s} : (r \in mingled => r \in mingled') /\ (r \in torn => r \in torn')
  BY <1>1
<1>. QED
  BY <1>1, <1>2, <1>4, <1>6, <1>7, <1>8, <1>9, <1>10, DocumentStep

(* What a deletion leaves. *)
LEMMA ClearedFacts ==
  ASSUME JInv, NEW s \in Sources, NEW ids, chunks' = Cleared(s, ids)
  PROVE  \E stored \in [Positions -> Nat \X Nat] :
           /\ chunks' = [chunks EXCEPT ![s] = stored]
           /\ Held(stored) = Held(chunks[s]) \ ids
           /\ Same(chunks[s]) => Same(stored)
<1>. PICK stored : stored = [i \in Positions |-> IF i \in ids THEN NoChunk ELSE chunks[s][i]]
  OBVIOUS
<1>1. chunks' = [chunks EXCEPT ![s] = stored]
  BY DEF Cleared
<1>2. stored \in [Positions -> Nat \X Nat]
  <2>1. NoChunk \in Nat \X Nat
    BY SMT DEF NoChunk
  <2>. QED
    BY <2>1 DEF JInv, JobsOK
<1>3. \A i \in Positions : stored[i] = IF i \in ids THEN NoChunk ELSE chunks[s][i]
  OBVIOUS
<1>4. Held(stored) = Held(chunks[s]) \ ids
  BY <1>3 DEF Held
<1>5. Same(chunks[s]) => Same(stored)
  BY <1>3, <1>4, SMT DEF Same, Held
<1>. QED
  BY <1>1, <1>2, <1>4, <1>5

(* Once everything is deleted, a worker starts from nothing. *)
LEMMA GoesOnKept ==
  ASSUME JInv, NEW c \in Clients, GoesOn(c), uploads' = uploads,
         jobs[c].kind = "document", NEW s, s = jobs[c].source,
         NEW stored \in [Positions -> Nat \X Nat], chunks' = [chunks EXCEPT ![s] = stored],
         s \notin mingled => Held(stored) = {}
  PROVE  JInv'
<1>. PICK old : old = jobs[c]
  OBVIOUS
<1>. PICK add : add = Document(s, old.upload, old.size, "add", MaxChunks, {})
  OBVIOUS
<1>. PICK job : job = IF old.size = 0 THEN NoJob ELSE add
  OBVIOUS
<1>1. /\ s \in Sources /\ old.upload \in Nat \ {0} /\ old.size \in Nat
      /\ chunks'[s] = stored
  BY DocumentFields DEF JInv, JobsOK
<1>2. /\ jobs' = [jobs EXCEPT ![c] = job]
      /\ mingled' = {r \in mingled :
                     Workers(r) # {c} \/ \E i \in Positions : chunks'[r][i] # NoChunk}
      /\ torn' = IF old.size = 0 THEN torn \ {s} ELSE torn
  BY DEF GoesOn, Answered, At
<1>3. job = NoJob \/ (DocumentJob(job) /\ job.source = s)
  <2>1. "add" \in Stages /\ {} \in SUBSET Positions /\ MaxChunks \in Nat
    BY AssistantAssumption DEF Stages
  <2>2. DocumentJob(add)
    BY <1>1, <2>1, Zenon DEF DocumentJob
  <2>3. add.source = s
    BY DEF Document
  <2>. QED
    BY <2>2, <2>3
<1>4. ASSUME s \notin mingled' PROVE Workers(s) \subseteq {c} /\ Held(stored) = {}
  <2>1. CASE s \notin mingled
    BY <2>1, SoleWorker
  <2>2. CASE s \in mingled
    <3>1. Workers(s) = {c} /\ \A i \in Positions : stored[i] = NoChunk
      BY <1>1, <1>2, <1>4, <2>2, Zenon
    <3>. QED
      BY <3>1, Zenon DEF Held
  <2>. QED
    BY <2>1, <2>2
<1>5. Held(stored) = {} => Same(stored) /\ Whole(stored) /\ Knows(job, stored)
  BY Zenon DEF Same, Whole, Knows
<1>6. \A r \in Sources \ {s} : (r \in mingled => r \in mingled') /\ (r \in torn => r \in torn')
  <2>1. \A r \in Sources \ {s} : c \notin Workers(r)
    BY DEF Workers
  <2>. QED
    BY <1>2, <2>1, SMT
<1>7. uploads' \in Nat
  BY DEF JInv, JobsOK
<1>. QED
  BY <1>1, <1>2, <1>3, <1>4, <1>5, <1>6, <1>7, DocumentStep

LEMMA DeletePageKept ==
  ASSUME JInv, NEW c \in Clients, DeletePage(c)
  PROVE  JInv'
<1>. PICK old : old = jobs[c]
  OBVIOUS
<1>. PICK s : s = old.source
  OBVIOUS
<1>1. /\ old.kind = "document" /\ old.stage = "delete"
      /\ chunks' = Cleared(s, old.ids) /\ uploads' = uploads
  BY DEF DeletePage, Job
<1>2. /\ s \in Sources /\ old.upload \in Nat \ {0} /\ old.size \in Nat /\ old.next \in Nat
  BY <1>1, DocumentFields DEF JInv
<1>3. PICK stored \in [Positions -> Nat \X Nat] :
        /\ chunks' = [chunks EXCEPT ![s] = stored]
        /\ Held(stored) = Held(chunks[s]) \ old.ids
        /\ Same(chunks[s]) => Same(stored)
  BY <1>1, <1>2, ClearedFacts
<1>4. ASSUME s \notin mingled
      PROVE  /\ Workers(s) \subseteq {c} /\ Same(stored)
             /\ \A i \in Held(stored) : old.next <= i
  BY <1>1, <1>3, <1>4, SoleWorker DEF Knows
<1>5. CASE old.next < MaxChunks
  <2>. PICK job : job = Document(s, old.upload, old.size, "list", old.next, {})
    OBVIOUS
  <2>1. jobs' = [jobs EXCEPT ![c] = job] /\ UNCHANGED <<mingled, torn>>
    BY <1>5 DEF DeletePage, At
  <2>2. DocumentJob(job) /\ job.source = s /\ job.stage = "list" /\ job.next = old.next
    <3>1. "list" \in Stages /\ {} \in SUBSET Positions
      BY DEF Stages
    <3>2. DocumentJob(job)
      BY <1>2, <3>1, Zenon DEF DocumentJob
    <3>. QED
      BY <3>2 DEF Document
  <2>3. s \notin mingled' => Workers(s) \subseteq {c} /\ Same(stored) /\ Knows(job, stored)
    BY <1>4, <2>1, <2>2 DEF Knows
  <2>4. uploads' \in Nat /\ job # NoJob
    BY <1>1, <2>2, JobKinds DEF JInv, JobsOK
  <2>5. \A r \in Sources \ {s} : (r \in mingled => r \in mingled') /\ (r \in torn => r \in torn')
    BY <2>1
  <2>. QED
    BY <1>1, <1>2, <1>3, <2>1, <2>2, <2>3, <2>4, <2>5, DocumentStep
<1>6. CASE ~(old.next < MaxChunks)
  <2>1. GoesOn(c)
    BY <1>6 DEF DeletePage
  <2>2. s \notin mingled => Held(stored) = {}
    <3>1. ASSUME s \notin mingled, NEW i \in Held(stored) PROVE FALSE
      <4>1. old.next <= i
        BY <1>4, <3>1
      <4>2. i \in Nat /\ i < MaxChunks /\ MaxChunks \in Nat
        BY AssistantAssumption, SMT DEF Held, Positions
      <4>. QED
        BY <1>2, <1>6, <4>1, <4>2, SMT
    <3>. QED
      BY <3>1
  <2>. QED
    BY <1>1, <1>3, <2>1, <2>2, GoesOnKept
<1>. QED
  BY <1>5, <1>6

LEMMA DeleteByFilterKept ==
  ASSUME JInv, NEW c \in Clients, DeleteByFilter(c)
  PROVE  JInv'
<1>. PICK s : s = jobs[c].source
  OBVIOUS
<1>1. /\ jobs[c].kind = "document"
      /\ chunks' = Cleared(s, Positions) /\ uploads' = uploads /\ GoesOn(c)
  BY DEF DeleteByFilter, Job
<1>2. s \in Sources
  BY <1>1, DocumentFields DEF JInv
<1>3. PICK stored \in [Positions -> Nat \X Nat] :
        /\ chunks' = [chunks EXCEPT ![s] = stored]
        /\ Held(stored) = Held(chunks[s]) \ Positions
  BY <1>1, <1>2, ClearedFacts
<1>4. Held(stored) = {}
  BY <1>3 DEF Held
<1>. QED
  BY <1>1, <1>3, <1>4, GoesOnKept

(* What an upload that has come to its chunks does to the document. *)
Mine(job) == {i \in Positions : i < job.size}

Adding(job, ids, stored) ==
  [i \in Positions |-> IF i \in ids THEN <<job.upload, job.size>> ELSE stored[i]]

LEMMA AddedFacts ==
  ASSUME NEW job, job.upload \in Nat \ {0}, job.size \in Nat, job.stage = "add",
         NEW ids, ids \subseteq Mine(job), NEW old \in [Positions -> Nat \X Nat],
         NEW stored, stored = Adding(job, ids, old)
  PROVE  /\ stored \in [Positions -> Nat \X Nat]
         /\ Knows(job, old) =>
              Same(stored) /\ Knows(job, stored) /\ ids \subseteq Held(stored)
<1>. PICK mine : mine = <<job.upload, job.size>>
  OBVIOUS
<1>1. stored = [i \in Positions |-> IF i \in ids THEN mine ELSE old[i]]
  BY DEF Adding
<1>2. mine \in Nat \X Nat /\ mine # NoChunk
  BY SMT DEF NoChunk
<1>3. stored \in [Positions -> Nat \X Nat]
  BY <1>1, <1>2
<1>4. \A i \in Positions : stored[i] = IF i \in ids THEN mine ELSE old[i]
  BY <1>1
<1>5. \A i \in ids : i \in Positions /\ i < job.size
  BY DEF Mine
<1>6. ids \subseteq Held(stored)
  BY <1>2, <1>4, <1>5 DEF Held
<1>7. ASSUME Knows(job, old) PROVE \A i \in Held(stored) : i < job.size /\ stored[i] = mine
  <2>1. \A i \in Held(old) : i < job.size /\ old[i] = mine
    BY <1>7 DEF Knows
  <2>2. \A i \in Held(stored) : i \in ids \/ i \in Held(old)
    BY <1>4 DEF Held
  <2>3. \A i \in Held(stored) : stored[i] = mine \/ stored[i] = old[i]
    BY <1>4 DEF Held
  <2>4. \A i \in ids : stored[i] = mine
    BY <1>4, <1>5
  <2>5. \A i \in Held(old) : stored[i] = mine
    BY <1>4, <2>1 DEF Held
  <2>. QED
    BY <1>5, <2>1, <2>2, <2>4, <2>5, Zenon
<1>8. ASSUME Knows(job, old) PROVE Same(stored) /\ Knows(job, stored)
  <2>1. Same(stored)
    BY <1>7, <1>8, Zenon DEF Same
  <2>2. Knows(job, stored)
    BY <1>7, <1>8 DEF Knows
  <2>. QED
    BY <2>1, <2>2
<1>. QED
  BY <1>3, <1>6, <1>8

LEMMA AddSomeKept ==
  ASSUME JInv, NEW c \in Clients, AddSome(c)
  PROVE  JInv'
<1>. PICK job : job = jobs[c]
  OBVIOUS
<1>. PICK s : s = job.source
  OBVIOUS
<1>1. /\ job.kind = "document" /\ job.stage = "add"
      /\ UNCHANGED <<jobs, uploads, mingled, torn>>
  BY DEF AddSome, Job
<1>2. PICK i \in Positions : i < job.size /\ chunks' = Added(job, {i})
  BY DEF AddSome
<1>. PICK old : old = chunks[s]
  OBVIOUS
<1>. PICK stored : stored = Adding(job, {i}, old)
  OBVIOUS
<1>3. /\ stored \in [Positions -> Nat \X Nat] /\ chunks' = [chunks EXCEPT ![s] = stored]
      /\ s \notin mingled => Same(stored) /\ Knows(job, stored)
  <2>1. {i} \subseteq Mine(job)
    BY <1>2 DEF Mine
  <2>2. /\ job.upload \in Nat \ {0} /\ job.size \in Nat /\ old \in [Positions -> Nat \X Nat]
        /\ s \notin mingled => Knows(job, old)
    BY <1>1, DocumentFields, SoleWorker DEF JInv
  <2>3. chunks' = [chunks EXCEPT ![s] = stored]
    BY <1>2 DEF Added, Adding
  <2>. QED
    BY <1>1, <2>1, <2>2, <2>3, AddedFacts
<1>4. /\ DocumentJob(job) /\ job # NoJob /\ s \in Sources
      /\ jobs' = [jobs EXCEPT ![c] = job] /\ uploads' \in Nat
  BY <1>1, JobKinds, SoleWorker DEF JInv, JobsOK
<1>5. s \notin mingled => Workers(s) \subseteq {c}
  BY <1>1, SoleWorker
<1>6. \A r \in Sources \ {s} : (r \in mingled => r \in mingled') /\ (r \in torn => r \in torn')
  BY <1>1
<1>. QED
  BY <1>1, <1>3, <1>4, <1>5, <1>6, DocumentStep

LEMMA AddChunksKept ==
  ASSUME JInv, NEW c \in Clients, AddChunks(c)
  PROVE  JInv'
<1>. PICK job : job = jobs[c]
  OBVIOUS
<1>. PICK s : s = job.source
  OBVIOUS
<1>1. /\ job.kind = "document" /\ job.stage = "add"
      /\ chunks' = Added(job, Mine(job))
      /\ jobs' = [jobs EXCEPT ![c] = NoJob]
      /\ torn' = torn \ {s} /\ UNCHANGED <<uploads, mingled>>
  BY DEF AddChunks, Job, Answered, Mine
<1>. PICK old : old = chunks[s]
  OBVIOUS
<1>. PICK stored : stored = Adding(job, Mine(job), old)
  OBVIOUS
<1>2. /\ stored \in [Positions -> Nat \X Nat] /\ chunks' = [chunks EXCEPT ![s] = stored]
      /\ s \notin mingled =>
           Same(stored) /\ Knows(job, stored) /\ Mine(job) \subseteq Held(stored)
  <2>1. /\ job.upload \in Nat \ {0} /\ job.size \in Nat /\ old \in [Positions -> Nat \X Nat]
        /\ s \notin mingled => Knows(job, old)
    BY <1>1, DocumentFields, SoleWorker DEF JInv
  <2>2. chunks' = [chunks EXCEPT ![s] = stored]
    BY <1>1 DEF Added, Adding
  <2>3. Mine(job) \subseteq Mine(job)
    OBVIOUS
  <2>. QED
    BY <1>1, <2>1, <2>2, <2>3, AddedFacts
<1>3. ASSUME s \notin mingled PROVE Whole(stored)
  <2>1. \A i \in Held(stored) : i < job.size /\ stored[i] = <<job.upload, job.size>>
    BY <1>1, <1>2, <1>3 DEF Knows
  <2>2. Held(stored) = {j \in Positions : j < job.size}
    BY <1>2, <1>3, <2>1 DEF Held, Mine
  <2>3. \A i \in Held(stored) : stored[i][2] = job.size
    BY <2>1
  <2>. QED
    BY <2>2, <2>3 DEF Whole
<1>4. s \in Sources /\ uploads' \in Nat /\ (s \notin mingled => Workers(s) \subseteq {c})
  BY <1>1, SoleWorker DEF JInv, JobsOK
<1>5. \A r \in Sources \ {s} : (r \in mingled => r \in mingled') /\ (r \in torn => r \in torn')
  BY <1>1
<1>. PICK none : none = NoJob
  OBVIOUS
<1>. QED
  BY <1>1, <1>2, <1>3, <1>4, <1>5, DocumentStep

(* What fails where it stands leaves chunks of no other upload. *)
LEMMA DocumentFailsKept ==
  ASSUME JInv, NEW c \in Clients, DocumentFails(c)
  PROVE  JInv'
<1>. PICK s : s = jobs[c].source
  OBVIOUS
<1>. PICK stored : stored = chunks[s]
  OBVIOUS
<1>. PICK job : job = NoJob
  OBVIOUS
<1>1. /\ jobs[c].kind = "document" /\ jobs' = [jobs EXCEPT ![c] = job]
      /\ torn' = torn \cup {s} /\ UNCHANGED <<chunks, uploads, mingled>>
  BY DEF DocumentFails, Answered
<1>2. /\ s \in Sources /\ stored \in [Positions -> Nat \X Nat]
      /\ s \notin mingled => Workers(s) \subseteq {c} /\ Same(stored)
  BY <1>1, SoleWorker
<1>3. chunks' = [chunks EXCEPT ![s] = stored] /\ uploads' \in Nat
  BY <1>1, SMT DEF JInv, JobsOK
<1>4. \A r \in Sources \ {s} : (r \in mingled => r \in mingled') /\ (r \in torn => r \in torn')
  BY <1>1
<1>. QED
  BY <1>1, <1>2, <1>3, <1>4, DocumentStep

LEMMA JStep ==
  ASSUME JInv, [AssistantNext]_allVars
  PROVE  JInv'
<1>1. ASSUME NEW c \in Clients, NEW s \in Sources, uploadPDF(c, s) \/ removePDF(c, s)
      PROVE  JInv'
  <2>1. PICK size \in Nat : Take(c, s, size)
    <3>1. 1 .. MaxChunks \subseteq Nat /\ 0 \in Nat
      BY AssistantAssumption, SMT
    <3>. QED
      BY <1>1, <3>1, Zenon DEF uploadPDF, removePDF
  <2>. QED
    BY <2>1, TakeKept
<1>2. ASSUME UNCHANGED assistantVars PROVE JInv'
  <2>1. \A s \in Sources : Uploading(s)'
    BY <1>2, UploadingAside DEF JInv, assistantVars
  <2>2. \A c \in Clients : Streaming(c)'
    BY <1>2, StreamingAside DEF JInv, assistantVars
  <2>3. JobsOK'
    BY <1>2, SMT DEF JInv, JobsOK, assistantVars
  <2>. QED
    BY <2>1, <2>2, <2>3 DEF JInv
<1>3. ASSUME Served PROVE JInv'
  <2>1. CASE ~Crash
    BY <1>2, <1>3, <2>1 DEF Served, assistantVars
  <2>2. CASE Crash
    BY <1>3, <2>2, CrashJobs DEF Served
  <2>. QED
    BY <2>1, <2>2
<1>5. ASSUME JobStep PROVE JInv'
  <2>1. TRUE \in BOOLEAN
    OBVIOUS
  <2>. QED
    BY <1>5, <2>1, ListChunksKept, DeletePageKept, DeleteByFilterKept, AddSomeKept,
       AddChunksKept, DocumentFailsKept, QuestionKept, CloseKept, Zenon DEF JobStep
<1>6. CASE UNCHANGED allVars
  BY <1>2, <1>6 DEF allVars, assistantVars
<1>. QED
  BY <1>1, <1>3, <1>5, <1>6, AskKept, LeaveKept, Zenon DEF AssistantNext

LEMMA JInit ==
  ASSUME AssistantInit
  PROVE  JInv
<1>1. /\ chunks = [s \in Sources |-> [i \in Positions |-> NoChunk]]
      /\ jobs = [c \in Clients |-> NoJob] /\ uploads = 0
  BY DEF AssistantInit
<1>2. JobsOK
  <2>1. NoChunk \in Nat \X Nat
    BY SMT DEF NoChunk
  <2>. QED
    BY <1>1, <2>1 DEF JobsOK
<1>3. ASSUME NEW s \in Sources PROVE Uploading(s)
  <2>1. Workers(s) = {} /\ Held(chunks[s]) = {}
    BY <1>1, JobKinds DEF Workers, Held
  <2>. QED
    BY <2>1, Zenon DEF Uploading, Same, Whole
<1>4. \A c \in Clients : Streaming(c)
  BY <1>1, JobKinds DEF Streaming
<1>. QED
  BY <1>2, <1>3, <1>4 DEF JInv

LEMMA JInductive == AssistantSpec => []JInv
<1>1. AssistantInit => JInv
  BY JInit
<1>2. JInv /\ [AssistantNext]_allVars => JInv'
  BY JStep
<1>. QED
  BY <1>1, <1>2, PTL DEF AssistantSpec

(* For any documents, clients, lengths, pages and batches: chunks of two    *)
(* uploads of a document are never in the index together, and it is there   *)
(* whole or not at all once an upload or a deletion has come to its end, if *)
(* no other overlapped with it (ingestPDF, deletePDF).                      *)
THEOREM WholeDocuments == AssistantSpec => []DocumentsAreWhole
<1>1. ASSUME JInv PROVE DocumentsAreWhole
  <2>1. \A s : ChunksOf(s) = Held(chunks[s])
    BY Zenon DEF ChunksOf, Held
  <2>. QED
    BY <1>1, <2>1, Zenon DEF JInv, Uploading, Same, Whole, DocumentsAreWhole, Busy
<1>. QED
  BY <1>1, JInductive, PTL

(* For answers of any length: a stream to a client that stays ends with one *)
(* `done' or `error' and cites its sources first (askStream).               *)
THEOREM StreamsEndOnce == AssistantSpec => []StreamEndsOnce
<1>1. ASSUME JInv PROVE StreamEndsOnce
  <2>. DEFINE finals(c) == {i \in DOMAIN jobs[c].sent : jobs[c].sent[i] \in Finals}
  <2>1. ASSUME NEW c \in Clients, jobs[c].kind = "ask"
        PROVE  /\ finals(c) \subseteq IF jobs[c].stage = "ended" THEN {Len(jobs[c].sent)} ELSE {}
               /\ jobs[c].stage = "ended" /\ ~jobs[c].gone => finals(c) # {}
               /\ \A i \in DOMAIN jobs[c].sent :
                    /\ jobs[c].sent[i] = "token" => jobs[c].sent[1] = "sources"
                    /\ jobs[c].sent[i] = "sources" => i = 1
    <3>1. Streamed(jobs[c])
      BY <1>1, <2>1 DEF JInv, Streaming
    <3>2. CASE jobs[c].stage = "ended" /\ Stream(jobs[c].sent, TRUE)
      BY <3>2, Zenon DEF Stream
    <3>3. CASE (jobs[c].stage = "ended" => jobs[c].gone) /\ Stream(jobs[c].sent, FALSE)
      BY <3>3, Zenon DEF Stream
    <3>. QED
      BY <3>1, <3>2, <3>3 DEF Streamed
  <2>. QED
    BY <2>1, Zenon DEF StreamEndsOnce
<1>. QED
  BY <1>1, JInductive, PTL

=============================================================================
