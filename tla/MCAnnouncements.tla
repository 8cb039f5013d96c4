--------------------------- MODULE MCAnnouncements --------------------------
(* Moves, rebuilds, the inbox and crashes are explored a few at a time.  A *)
(* traffic names the parcels there may be and how many moves they make     *)
(* between them, who makes them and whether e-mails are sent for them,     *)
(* what else happens (the requests the assistant gets among it), which     *)
(* channels may fail, and the tasks that are `quick': run before anything  *)
(* else goes on.                                                           *)
EXTENDS Assistant

CONSTANT MaxUploads

VARIABLE traffic

Traffic(parcels, moves, by, mails, also, failures, quick) ==
  [parcels |-> parcels, moves |-> moves, by |-> by, mails |-> mails, also |-> also,
   failures |-> failures, quick |-> quick]

Sender == CHOOSE u \in Parties : TRUE
Telling == {"notify", "mail"}

MCTraffic ==
  {\* how the announcements of moves overlap...
   Traffic({1}, 3, {Sender}, {FALSE}, {"crash"}, {}, {"index"}),
   Traffic({1}, 2, Users, {FALSE}, {"overlap", "courier"}, {}, {"index"} \cup Telling),
   Traffic({1}, 2, {Sender}, {FALSE}, {"overlap", "courier", "shutdown"}, {}, {"index"}),
   Traffic({1}, 2, {Sender} \cup Admins, BOOLEAN, {}, {"mail", "inbox"}, {"index"}),
   Traffic({1}, 2, {Sender}, BOOLEAN, {"shutdown"}, {"mail", "admins"}, {"index"}),
   Traffic({1}, 2, {Sender}, {FALSE}, {"inbox"}, {"inbox"}, {"index", "mail"}),
   \* ...and how the writers of the index do
   Traffic({1}, 3, {Sender}, {FALSE}, {"crash", "shutdown"}, {}, Telling),
   Traffic({1, 3}, 2, {Sender}, {FALSE}, {"rebuild", "crash"}, {}, Telling),
   Traffic({1}, 2, {Sender}, {FALSE}, {"rebuild", "hand"}, {}, Telling),
   \* ...and what the assistant is asked
   Traffic({}, 0, {}, {}, {"document", "crash"}, {}, {}),
   Traffic({}, 0, {}, {}, {"document", "ask", "crash", "shutdown"}, {}, {}),
   Traffic({1}, 1, {Sender}, {FALSE}, {"ask"}, {}, {"index"} \cup Telling)}

Moves(l) == MapThenSumSet(LAMBDA p : Len(l[p]), Ids)

MCInit ==
  /\ AssistantInit /\ traffic \in MCTraffic
  /\ Parcels \subseteq traffic.parcels /\ Moves(log) <= traffic.moves - Min({traffic.moves, 1})
  /\ \A p \in Parcels : log[p][1].by \in traffic.by

(* The transactions that are open: one at a time where they do not matter. *)
Open == {h \in Handlers : begun[h] # NotBegun}

Without(what, nothing) == what \notin traffic.also => nothing

Allowed ==
  /\ \A c \in Clients : jobs'[c].kind \in traffic.also \cup {"none"}
  /\ Moves(log') + Cardinality(Open') <= traffic.moves
  /\ Without("overlap", Open # {} => Open' = {})
  /\ \A h \in Open' : begun'[h].parcel \in traffic.parcels
  /\ \A p \in Ids : log'[p] # log[p] =>
       /\ Last(log'[p]).by \in traffic.by /\ Last(log'[p]).mail \in traffic.mails
       /\ Without("courier", Last(log'[p]).courier = {})
  /\ failed' \subseteq traffic.failures
  /\ Without("shutdown", phase' = "up")
  /\ Without("rebuild", rebuild' = NoRebuild)
  /\ Without("inbox", \A r \in inbox' : r.state = "unread")
  /\ Without("hand", <<index, doubtful>>' # <<index, doubtful>> =>
                        <<pending, rebuild>>' # <<pending, rebuild>>)
  /\ Without("crash", ~Crash)
  /\ uploads' <= IF "ask" \in traffic.also THEN 1 ELSE MaxUploads
  /\ Cardinality({c \in Clients : jobs'[c].kind = "ask"}) <= 1
  /\ LET quick == {t \in pending : t.kind \in traffic.quick}
     IN  quick # {} => \E t \in quick : t \notin pending'

MCNext == AssistantNext /\ Allowed /\ UNCHANGED traffic

(* Fairness is asked for only once a shutdown has begun.                   *)
MCProgress ==
  /\ phase \in {"closing", "draining"}
  /\ (Progress /\ Served) \/ JobStep
  /\ Allowed /\ UNCHANGED traffic

MCSpec ==
  /\ MCInit /\ [][MCNext]_<<allVars, traffic>>
  /\ WF_<<allVars, traffic>>(MCProgress)

=============================================================================
