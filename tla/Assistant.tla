------------------------------ MODULE Assistant -----------------------------
(***************************************************************************)
(* The assistant beside the announcements that feed it: the policy         *)
(* documents an administrator uploads, stored in the index chunk by chunk  *)
(* under ids that are positions, and the questions, whose answers are      *)
(* streamed event by event to a client that may leave.                     *)
(***************************************************************************)
EXTENDS Announcements

CONSTANTS
  Sources,      \* the names of the documents
  Clients,      \* the requests in flight
  MaxChunks,    \* the chunks of the longest document
  MaxTokens     \* bound: of one answer

ASSUME AssistantAssumption == MaxChunks \in Nat \ {0} /\ MaxTokens \in Nat

VARIABLES
  chunks,       \* [Sources -> [positions -> the upload and its length]]
  jobs,         \* [Clients -> the request]
  uploads,      \* how many there have been
  mingled,      \* the documents whose last uploads or deletions overlapped
  torn          \* those whose last upload or deletion failed or was cut off

assistantVars == <<chunks, jobs, uploads, mingled, torn>>

Positions == 0 .. MaxChunks - 1
NoChunk == <<0, 0>>
Finals == {"done", "error"}

NoJob == [kind |-> "none", stage |-> "none"]
Free(c) == phase = "up" /\ jobs[c] = NoJob
Job(c, kind, stage) == jobs[c].stage = stage /\ jobs[c].kind = kind
Answered(c) == jobs' = [jobs EXCEPT ![c] = NoJob]

AssistantInit ==
  /\ Init
  /\ chunks = [s \in Sources |-> [i \in Positions |-> NoChunk]]
  /\ jobs = [c \in Clients |-> NoJob]
  /\ uploads = 0 /\ mingled = {} /\ torn = {}

----------------------------------------------------------------------------
(* ingestPDF and deletePDF                                                 *)

(* The listing has come to position `next', of which `ids' are to go.       *)
Document(source, upload, size, stage, next, ids) ==
  [kind |-> "document", stage |-> stage, source |-> source, upload |-> upload,
   size |-> size, next |-> next, ids |-> ids]

At(c, stage, next, ids) ==
  jobs' = [jobs EXCEPT ![c] = Document(@.source, @.upload, @.size, stage, next, ids)]

Workers(s) == {c \in Clients : jobs[c].kind = "document" /\ jobs[c].source = s}
Busy(s) == Workers(s) # {}

(* An upload whose bytes are a PDF's, or a deletion: an upload of nothing.  *)
Take(c, s, size) ==
  /\ Free(c)
  /\ jobs' = [jobs EXCEPT ![c] = Document(s, uploads + 1, size, "list", 0, {})]
  /\ uploads' = uploads + 1
  /\ mingled' = IF Busy(s) THEN mingled \cup {s} ELSE mingled
  /\ UNCHANGED <<chunks, torn, announcementVars>>

uploadPDF(c, s) == \E size \in 1 .. MaxChunks : Take(c, s, size)

removePDF(c, s) == Take(c, s, 0)

ChunksOf(s) == {i \in Positions : chunks[s][i] # NoChunk}

(* deletePDF lists the chunks by the prefix of their ids, a page at a time, *)
(* of a size that is the index's affair...                                  *)
ListChunks(c) ==
  /\ Job(c, "document", "list")
  /\ \E next \in jobs[c].next + 1 .. MaxChunks :
       At(c, "delete", next,
          {i \in ChunksOf(jobs[c].source) : jobs[c].next <= i /\ i < next})
  /\ UNCHANGED <<chunks, uploads, mingled, torn, announcementVars>>

Cleared(s, ids) ==
  [chunks EXCEPT ![s] = [i \in Positions |-> IF i \in ids THEN NoChunk ELSE @[i]]]

(* With the chunks gone an upload goes on and a deletion is done.           *)
GoesOn(c) ==
  /\ IF jobs[c].size = 0 THEN Answered(c) ELSE At(c, "add", MaxChunks, {})
  /\ mingled' = {s \in mingled : Workers(s) # {c} \/ \E i \in Positions : chunks'[s][i] # NoChunk}
  /\ torn' = IF jobs[c].size = 0 THEN torn \ {jobs[c].source} ELSE torn

(* Mutant: the first page is taken for all there is. *)
DeleteFirstPage(c) ==
  /\ Job(c, "document", "delete")
  /\ chunks' = Cleared(jobs[c].source, jobs[c].ids)
  /\ GoesOn(c)
  /\ UNCHANGED <<uploads, announcementVars>>

(* ...and deletes those before it asks for the next.                        *)
DeletePage(c) ==
  /\ Job(c, "document", "delete")
  /\ chunks' = Cleared(jobs[c].source, jobs[c].ids)
  /\ IF jobs[c].next < MaxChunks
     THEN At(c, "list", jobs[c].next, {}) /\ UNCHANGED <<mingled, torn>>
     ELSE GoesOn(c)
  /\ UNCHANGED <<uploads, announcementVars>>

(* Where the index refuses one of these calls, the filter deletes what the  *)
(* pages have left.                                                         *)
DeleteByFilter(c) ==
  /\ Job(c, "document", "list") \/ Job(c, "document", "delete")
  /\ chunks' = Cleared(jobs[c].source, Positions)
  /\ GoesOn(c)
  /\ UNCHANGED <<uploads, announcementVars>>

Added(job, ids) ==
  [chunks EXCEPT ![job.source] =
    [i \in Positions |-> IF i \in ids THEN <<job.upload, job.size>> ELSE @[i]]]

(* addDocuments, under positional ids.  It may be some time until the last  *)
(* of them is in.                                                           *)
AddSome(c) ==
  /\ Job(c, "document", "add")
  /\ \E i \in Positions \ ChunksOf(jobs[c].source) :
       i < jobs[c].size /\ chunks' = Added(jobs[c], {i})
  /\ UNCHANGED <<jobs, uploads, mingled, torn, announcementVars>>

AddChunks(c) ==
  /\ Job(c, "document", "add")
  /\ chunks' = Added(jobs[c], {i \in Positions : i < jobs[c].size})
  /\ Answered(c)
  /\ torn' = torn \ {jobs[c].source}
  /\ UNCHANGED <<uploads, mingled, announcementVars>>

(* The index refuses the filter, or the new chunks: the request fails where *)
(* it stands.                                                               *)
DocumentFails(c) ==
  /\ jobs[c].kind = "document"
  /\ Answered(c)
  /\ torn' = torn \cup {jobs[c].source}
  /\ UNCHANGED <<chunks, uploads, mingled, announcementVars>>

----------------------------------------------------------------------------
(* ask and askStream                                                       *)

Question(scope, chat, streamed, stage, sent, gone) ==
  [kind |-> "ask", stage |-> stage, scope |-> scope, chat |-> chat,
   streamed |-> streamed, sent |-> sent, gone |-> gone]

(* buildRetrievalFilter: documents are for everyone, parcels for            *)
(* administrators and for their own parties.                                *)
Scope(viewer, filter) ==
  (IF filter = "parcel" THEN {} ELSE {"pdf"}) \cup
  (IF filter # "pdf" /\ viewer \in Users THEN {"parcel"} ELSE {})

Found(scope) ==
  \/ "pdf" \in scope /\ \E s \in Sources : \E i \in Positions : chunks[s][i] # NoChunk
  \/ "parcel" \in scope /\ \E p \in Ids : index[p] # 0

Scopes == {Scope(v, f) : v \in Users \cup {"stranger"}, f \in {"all", "pdf", "parcel"}}

asked == <<chunks, uploads, mingled, torn, announcementVars>>

ask(c, scope, chat, streamed) ==
  /\ Free(c)
  /\ jobs' = [jobs EXCEPT ![c] = Question(scope, chat, streamed, "retrieve", <<>>, FALSE)]
  /\ UNCHANGED asked

(* The controller stops at the first event a client is not there for; an    *)
(* answer that is not streamed is only its end.                             *)
Emits(c, said, final, stage) ==
  LET job == jobs[c]
      written == job.sent \o (IF job.streamed THEN said ELSE <<>>) \o final
  IN  jobs' = [jobs EXCEPT ![c] =
        Question(job.scope, job.chat, job.streamed, IF job.gone THEN "ended" ELSE stage,
                 IF job.gone THEN job.sent ELSE written, job.gone)]

(* A question that found nothing is answered without the model, unless it   *)
(* is small talk, which looks nothing up.                                   *)
hasNothingToAnswerFrom(c) == ~jobs[c].chat /\ ~Found(jobs[c].scope)

Retrieve(c) ==
  /\ Job(c, "ask", "retrieve")
  /\ Emits(c, <<"sources">>, <<>>, IF hasNothingToAnswerFrom(c) THEN "nothing" ELSE "stream")
  /\ UNCHANGED asked

(* Once headers are out a failed retrieval is an event as well, written    *)
(* whether or not the client is there.                                      *)
RetrieveFails(c) ==
  /\ Job(c, "ask", "retrieve") /\ ~jobs[c].chat
  /\ jobs' = [jobs EXCEPT ![c] =
       Question(@.scope, @.chat, @.streamed, "ended", @.sent \o <<"error">>, @.gone)]
  /\ UNCHANGED asked

(* Mutant: no return after the answer that found nothing. *)
SayNothingAndGoOn(c) ==
  /\ Job(c, "ask", "nothing")
  /\ Emits(c, <<"token">>, <<"done">>, "stream")
  /\ UNCHANGED asked

SayNothing(c) ==
  /\ Job(c, "ask", "nothing")
  /\ Emits(c, <<"token">>, <<"done">>, "ended")
  /\ UNCHANGED asked

Token(c) ==
  /\ Job(c, "ask", "stream") /\ Len(jobs[c].sent) <= MaxTokens
  /\ jobs[c].streamed /\ Emits(c, <<"token">>, <<>>, "stream")
  /\ UNCHANGED asked

Complete(c, ok) ==
  /\ Job(c, "ask", "stream")
  /\ Emits(c, <<>>, <<IF ok THEN "done" ELSE "error">>, "ended")
  /\ UNCHANGED asked

(* The client closes the connection. *)
Leave(c) ==
  /\ jobs[c].kind = "ask" /\ jobs[c].stage # "ended"
  /\ jobs[c].streamed /\ ~jobs[c].gone
  /\ jobs' = [jobs EXCEPT ![c] = Question(@.scope, @.chat, TRUE, @.stage, @.sent, TRUE)]
  /\ UNCHANGED asked

(* The connection is given back. *)
Close(c) ==
  /\ Job(c, "ask", "ended") /\ Answered(c)
  /\ UNCHANGED asked

----------------------------------------------------------------------------
JobStep ==
  \E c \in Clients :
    \/ ListChunks(c) \/ DeletePage(c) \/ DeleteByFilter(c)
    \/ AddSome(c) \/ AddChunks(c) \/ DocumentFails(c)
    \/ Retrieve(c) \/ RetrieveFails(c) \/ SayNothing(c) \/ Token(c) \/ Close(c)
    \/ \E ok \in BOOLEAN : Complete(c, ok)

Idle == \A c \in Clients : jobs[c] = NoJob

(* The server waits for these requests too before it drains, and a crash    *)
(* cuts them off.                                                           *)
Served ==
  /\ StartDrain => Idle
  /\ jobs' = IF Crash THEN [c \in Clients |-> NoJob] ELSE jobs
  /\ torn' = IF Crash THEN torn \cup {s \in Sources : Busy(s)} ELSE torn
  /\ UNCHANGED <<chunks, uploads, mingled>>

AssistantNext ==
  \/ Next /\ Served
  \/ \E c \in Clients, s \in Sources : uploadPDF(c, s) \/ removePDF(c, s)
  \/ \E c \in Clients, scope \in Scopes, chat, streamed \in BOOLEAN :
        ask(c, scope, chat, streamed)
  \/ JobStep
  \/ \E c \in Clients : Leave(c)

allVars == <<announcementVars, assistantVars>>

AssistantSpec ==
  AssistantInit /\ [][AssistantNext]_allVars /\ WF_allVars((Progress /\ Served) \/ JobStep)

----------------------------------------------------------------------------
(* "a shorter re-upload would overwrite the first N and leave the old tail  *)
(* answering questions": at no time, wherever a call fails and the process  *)
(* dies, are chunks of two uploads of a document in the index, and once its *)
(* last upload or deletion has succeeded it is there whole, or not at all   *)
(* (ingestPDF, deletePDF); unless uploads of one name overlapped.           *)
DocumentsAreWhole ==
  \A s \in Sources \ mingled :
    /\ \A i, j \in ChunksOf(s) : chunks[s][i] = chunks[s][j]
    /\ ~Busy(s) /\ s \notin torn =>
         \A i \in ChunksOf(s) : ChunksOf(s) = {j \in Positions : j < chunks[s][i][2]}

(* A streamed answer to a client that stays ends with exactly one `done' or *)
(* `error', after which nothing is written, and cites its sources before it *)
(* says anything (askStream).                                               *)
StreamEndsOnce ==
  \A c \in Clients :
    jobs[c].kind = "ask" =>
      LET sent == jobs[c].sent
          finals == {i \in DOMAIN sent : sent[i] \in Finals}
      IN  /\ finals \subseteq IF jobs[c].stage = "ended" THEN {Len(sent)} ELSE {}
          /\ jobs[c].stage = "ended" /\ ~jobs[c].gone => finals # {}
          /\ \A i \in DOMAIN sent :
               /\ sent[i] = "token" => sent[1] = "sources"
               /\ sent[i] = "sources" => i = 1

=============================================================================
