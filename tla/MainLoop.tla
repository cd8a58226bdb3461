------------------------------ MODULE MainLoop ------------------------------
(***************************************************************************)
(* pipeline::mainLoop (src/src/pipeline.cc): the main thread answers the   *)
(* client's messages, applies index updates and reports progress.  A       *)
(* request on a file that is not indexed yet goes to the backlog and is    *)
(* run again when the file's index arrives, or, with handler.overdue set,  *)
(* when its deadline has passed.                                           *)
(*                                                                         *)
(* The stdin thread and the indexers are reduced to what the main thread   *)
(* sees of them: messages on on_request, updates on on_indexed and the     *)
(* counters of IndexStats (IndexPipeline has the indexers in full).        *)
(* Deadlines are arrival times plus a constant, so they pass in the order  *)
(* in which messages arrived.                                              *)
(***************************************************************************)
EXTENDS Integers, FiniteSets, ThreadedQueue

CONSTANTS
  Paths,       (* files                                                     *)
  Script,      (* bound: the client sends a subsequence of these messages,  *)
               (* [id, kind, path] records                                  *)
  Project,     (* Seq(Paths): what is being indexed when the loop starts    *)
  Mentions,    (* [Paths -> SUBSET Paths]: files an index gives a stub def  *)
  UpdateBatch, (* updates applied in one round of the loop (20 in the code) *)
  Indexers     (* how many indexer threads there are                        *)

ASSUME BatchAssumption == UpdateBatch \in Nat \ {0} /\ Indexers \in Nat \ {0}

(* query: a request that calls findOrFail(path); open and close: didOpen    *)
(* and didClose of path; exit.                                              *)
Kinds == {"query", "open", "close", "exit"}

Messages == {Script[k] : k \in DOMAIN Script}

(* A message is an object of its own: two with the same text have different *)
(* ids here, be they requests or not.                                       *)
ASSUME MessagesAssumption ==
  /\ Script \in Seq(Messages)
  /\ \A j, k \in DOMAIN Script : Script[j] = Script[k] => j = k
  /\ \A m \in Messages : m.kind \in Kinds /\ (m.kind # "exit" => m.path \in Paths)

ASSUME ProjectAssumption ==
  Project \in Seq(Paths) /\ Mentions \in [Paths -> SUBSET Paths]

Queries == {m \in Messages : m.kind = "query"}

VARIABLES
  read,          (* position in Script of the message read last             *)
  expired,       (* position up to which deadlines have passed              *)
  on_request, on_indexed,
  index_request, (* here only the paths of the requests                     *)
  counting,      (* indexers that have pushed and not yet counted           *)
  enqueued, completed, last_idle,   (* IndexStats                           *)
  pc,            (* where the main thread is                                *)
  batch,         (* messages, the rest of the vector dequeueAll returned    *)
  updates_left,  (* the countdown of the update loop                        *)
  did_work,
  now,           (* the deadlines passed when the backlog was looked at     *)
  backlog,       (* deque of [message, waiting]: waiting is false once      *)
                 (* backlog_path was cleared                                *)
  path2backlog,  (* [Paths -> Seq(Messages)]: pointers into backlog         *)
  open, indexed, (* WorkingFiles; files the database has a definition of    *)
  last_completed, in_progress,
  g_quit,
  replies,       (* history: how often each query was answered              *)
  threw          (* history: NotIndexed escaped the loop                    *)

clientVars == <<read, expired>>
indexVars == <<index_request, counting, completed>>
progressVars == <<last_idle, last_completed, in_progress>>
vars == <<clientVars, on_request, on_indexed, indexVars, enqueued, progressVars,
          pc, batch, updates_left, did_work, now, backlog, path2backlog, open,
          indexed, g_quit, replies, threw>>

BacklogEntry == [message: Messages, waiting: BOOLEAN]

Pcs == {"backlog", "messages", "updates", "wait", "quit"}

TypeOK ==
  /\ read \in 0 .. Len(Script) /\ expired \in 0 .. read
  /\ on_request \in QueueOf(Messages) /\ on_indexed \in QueueOf(Paths)
  /\ index_request \in QueueOf(Paths) /\ counting \in 0 .. Indexers
  /\ enqueued \in Nat /\ completed \in Nat /\ last_idle \in Nat
  /\ pc \in Pcs /\ batch \in Seq(Messages)
  /\ updates_left \in 0 .. UpdateBatch /\ did_work \in BOOLEAN
  /\ now \in Nat
  /\ backlog \in Seq(BacklogEntry)
  /\ path2backlog \in [Paths -> Seq(Messages)]
  /\ open \subseteq Paths /\ indexed \subseteq Paths
  /\ last_completed \in Nat /\ in_progress \in BOOLEAN
  /\ g_quit \in BOOLEAN
  /\ replies \in [Queries -> Nat]
  /\ threw \in BOOLEAN

Init ==
  /\ read = 0 /\ expired = 0
  /\ on_request = EmptyQueue /\ on_indexed = EmptyQueue
  /\ index_request = [priority |-> <<>>, queue |-> Project, total |-> Len(Project)]
  /\ counting = 0
  /\ enqueued = Len(Project) /\ completed = 0 /\ last_idle = 0
  /\ pc = "backlog" /\ batch = <<>> /\ updates_left = 0 /\ did_work = FALSE
  /\ now = 0
  /\ backlog = <<>> /\ path2backlog = [p \in Paths |-> <<>>]
  /\ open = {} /\ indexed = {}
  /\ last_completed = 0 /\ in_progress = FALSE
  /\ g_quit = FALSE
  /\ replies = [q \in Queries |-> 0]
  /\ threw = FALSE

-----------------------------------------------------------------------------
(* The surroundings.                                                        *)

mainVars == <<enqueued, progressVars, pc, batch, updates_left, did_work, now,
              backlog, path2backlog, open, indexed, g_quit, replies, threw>>

(* The stdin thread reads a message; it stops after exit. *)
StdinRead(k) ==
  /\ k > read
  /\ read > 0 => Script[read].kind # "exit"
  /\ read' = k
  /\ on_request' = PushBack(on_request, Script[k], FALSE)
  /\ UNCHANGED <<expired, on_indexed, indexVars, mainVars>>

(* Time passes: the deadline of the next request is reached. *)
Expire ==
  /\ \E n \in expired + 1 .. read :
       /\ Script[n].kind = "query"
       /\ \A k \in expired + 1 .. n - 1 : Script[k].kind # "query"
       /\ expired' = n
  /\ UNCHANGED <<read, on_request, on_indexed, indexVars, mainVars>>

(* An indexer pushes the index of a requested file, or returns without one  *)
(* (the parse failed, or there was nothing to do); the RAII destructor      *)
(* counts the request afterwards.                                           *)
IndexerPush ==
  /\ CanPop(index_request)
  /\ counting < Indexers
  /\ on_indexed' = PushBack(on_indexed, Front(index_request),
                            index_request.priority # <<>>)
  /\ index_request' = PopFront(index_request)
  /\ counting' = counting + 1
  /\ UNCHANGED <<clientVars, on_request, completed, mainVars>>

IndexerNothing ==
  /\ CanPop(index_request)
  /\ counting < Indexers
  /\ index_request' = PopFront(index_request)
  /\ counting' = counting + 1
  /\ UNCHANGED <<clientVars, on_request, on_indexed, completed, mainVars>>

IndexerCount ==
  /\ counting > 0
  /\ counting' = counting - 1
  /\ completed' = completed + 1
  /\ UNCHANGED <<clientVars, on_request, on_indexed, index_request, mainVars>>

-----------------------------------------------------------------------------
(* MessageHandler::run of a query.  findOrFail replies with an error when   *)
(* the file is not open, throws NotIndexed when it is not indexed and the   *)
(* request is not overdue, and otherwise the handler replies.               *)
ThrowsNotIndexed(m, isIndexed, overdue) ==
  m.path \in open /\ ~isIndexed /\ ~overdue

(* Which queries among ms end in NotIndexed in this run. *)
Thrown(ms, nowIndexed, overdue) ==
  {k \in DOMAIN ms : ThrowsNotIndexed(ms[k], ms[k].path \in nowIndexed, overdue)}

(* One more reply to each of ms. *)
Answer(ms) ==
  [q \in Queries |-> replies[q] + Cardinality({k \in DOMAIN ms : ms[k] = q})]

surroundings == <<clientVars, indexVars>>

(* Mutants: the last deadline is never over; the popped entry stays listed. *)
DueLate(entry, n) == \E k \in 1 .. n - 1 : Script[k] = entry.message
UnlistNothing(path) == path2backlog

(* path2backlog[path].pop_front(). *)
Unlist(path) == [path2backlog EXCEPT ![path] = Tail(@)]

(* The deadline of a backlog entry is among the first n. *)
Due(entry, n) == \E k \in 1 .. n : Script[k] = entry.message

(* The front of the backlog is dropped if an update has answered it, and    *)
(* run with handler.overdue if its deadline has passed.                     *)
BacklogStep ==
  LET front == backlog[1]
  IN  /\ pc = "backlog"
      /\ backlog # <<>>
      /\ front.waiting => Due(front, now)
      /\ backlog' = Tail(backlog)
      /\ IF front.waiting
           THEN /\ threw' = (threw \/ Thrown(<<front.message>>, indexed, TRUE) # {})
                /\ replies' = Answer(<<front.message>>)
                /\ path2backlog' = Unlist(front.message.path)
           ELSE UNCHANGED <<threw, replies, path2backlog>>
      /\ UNCHANGED <<surroundings, on_request, on_indexed, enqueued,
                     progressVars, pc, batch, updates_left, did_work, now,
                     open, indexed, g_quit>>

(* Then on_request->dequeueAll(). *)
BacklogOver ==
  backlog # <<>> => backlog[1].waiting /\ ~Due(backlog[1], now)

DequeueAll ==
  /\ pc = "backlog"
  /\ BacklogOver
  /\ batch' = Contents(on_request)
  /\ on_request' = EmptyQueue
  /\ did_work' = (batch' # <<>>)
  /\ now' = 0
  /\ pc' = "messages"
  /\ UNCHANGED <<surroundings, on_indexed, enqueued, progressVars,
                 updates_left, backlog, path2backlog, open, indexed,
                 g_quit, replies, threw>>

(* handler.run on the next message of the batch. *)
RunQuery ==
  LET m == Head(batch)
  IN  /\ pc = "messages"
      /\ batch # <<>>
      /\ m.kind = "query"
      /\ batch' = Tail(batch)
      /\ IF Thrown(<<m>>, indexed, FALSE) # {}
           THEN /\ backlog' = Append(backlog, [message |-> m, waiting |-> TRUE])
                /\ path2backlog' = [path2backlog EXCEPT ![m.path] = Append(@, m)]
                /\ UNCHANGED replies
           ELSE /\ replies' = Answer(<<m>>)
                /\ UNCHANGED <<backlog, path2backlog>>
      /\ UNCHANGED <<surroundings, on_request, on_indexed, enqueued,
                     progressVars, pc, updates_left, did_work, now, open,
                     indexed, g_quit, threw>>

(* stats.enqueued++ in pipeline::index. *)
EnqueuedAfter == enqueued + 1

(* didOpen, reduced to the buffer and the index request; didClose; exit.    *)
RunNotification ==
  LET m == Head(batch)
  IN  /\ pc = "messages"
      /\ batch # <<>>
      /\ m.kind # "query"
      /\ batch' = Tail(batch)
      /\ open' = CASE m.kind = "open" -> open \cup {m.path}
                   [] m.kind = "close" -> open \ {m.path}
                   [] OTHER -> open
      /\ IF m.kind = "open"
           THEN /\ enqueued' = EnqueuedAfter
                /\ index_request' = PushBack(index_request, m.path, TRUE)
           ELSE UNCHANGED <<enqueued, index_request>>
      /\ g_quit' = (g_quit \/ m.kind = "exit")
      /\ UNCHANGED <<clientVars, counting, completed, on_request, on_indexed,
                     progressVars, pc, updates_left, did_work, now, backlog,
                     path2backlog, indexed, replies, threw>>

(* All messages are run; after exit, apply() clears the index requests, of  *)
(* which it sees those in queue_.                                           *)
MessagesDone ==
  /\ pc = "messages"
  /\ batch = <<>>
  /\ index_request' = IF g_quit THEN ApplyClear(index_request) ELSE index_request
  /\ updates_left' = UpdateBatch
  /\ pc' = "updates"
  /\ UNCHANGED <<clientVars, counting, completed, on_request, on_indexed,
                 enqueued, progressVars, batch, did_work, now, backlog,
                 path2backlog, open, indexed, g_quit, replies, threw>>

(* Mutants: one update too many; a served entry keeps its backlog_path. *)
MoreUpdatesLate == updates_left >= 0 /\ CanPop(on_indexed)
ServedStay(again) == backlog

(* The condition of the update loop. *)
MoreUpdates == updates_left > 0 /\ CanPop(on_indexed)

(* The backlog once the messages in again are served. *)
Served(again) ==
  [k \in DOMAIN backlog |->
     [backlog[k] EXCEPT !.waiting =
        @ /\ \A j \in DOMAIN again : again[j] # backlog[k].message]]

(* Apply one update and run again what waited for its file.  This run is    *)
(* not inside a try block.                                                  *)
ApplyUpdate ==
  LET p == Front(on_indexed)
      again == path2backlog[p]
  IN  /\ pc = "updates"
      /\ MoreUpdates
      /\ on_indexed' = PopFront(on_indexed)
      /\ indexed' = indexed \cup {p} \cup Mentions[p]
      /\ updates_left' = updates_left - 1
      /\ did_work' = TRUE
      /\ threw' = (threw \/ Thrown(again, indexed', FALSE) # {})
      /\ replies' = Answer(again)
      /\ backlog' = Served(again)
      /\ path2backlog' = [path2backlog EXCEPT ![p] = <<>>]
      /\ UNCHANGED <<surroundings, on_request, enqueued, progressVars, pc,
                     batch, now, open, g_quit>>

(* Mutant: the count of requests is not asked. *)
ReportsAlways == completed # last_completed

(* $/progress: begin and report while requests are outstanding, end when    *)
(* there are none, nothing unless the count has changed.                    *)
Reports == completed # last_completed /\ completed # enqueued
Ends == completed # last_completed /\ completed = enqueued /\ in_progress

Progress ==
  /\ pc = "updates"
  /\ ~MoreUpdates
  /\ pc' = "wait"
  /\ updates_left' = 0
  /\ last_completed' = completed
  /\ in_progress' = (Reports \/ (in_progress /\ ~Ends))
  /\ last_idle' = IF Ends THEN enqueued ELSE last_idle
  /\ UNCHANGED <<surroundings, on_request, on_indexed, enqueued, batch,
                 did_work, now, backlog, path2backlog, open, indexed, g_quit,
                 replies, threw>>

(* Another round, sleep until there is something to do, or quit.  The clock *)
(* is read at the start of the round.                                       *)
CanWake ==
  \/ did_work
  \/ ~IsEmpty(on_request) \/ ~IsEmpty(on_indexed)
  \/ IF backlog = <<>> THEN g_quit ELSE Due(backlog[1], expired)

Wait ==
  /\ pc = "wait"
  /\ CanWake
  /\ IF did_work /\ g_quit
       THEN pc' = "quit" /\ UNCHANGED now
       ELSE pc' = "backlog" /\ now' = expired
  /\ did_work' = FALSE
  /\ UNCHANGED <<surroundings, on_request, on_indexed, enqueued,
                 progressVars, batch, updates_left, backlog,
                 path2backlog, open, indexed, g_quit, replies, threw>>

Main ==
  \/ BacklogStep \/ DequeueAll \/ RunQuery \/ RunNotification
  \/ MessagesDone \/ ApplyUpdate \/ Progress \/ Wait

Next ==
  \/ \E k \in DOMAIN Script : StdinRead(k)
  \/ Expire
  \/ IndexerPush \/ IndexerNothing \/ IndexerCount
  \/ Main

(* The main thread runs, time passes and an indexer that started finishes;  *)
(* the client need not send anything and no index need ever arrive.         *)
Fairness == WF_vars(Main) /\ WF_vars(Expire) /\ WF_vars(IndexerCount)

Spec == Init /\ [][Next]_vars
FairSpec == Spec /\ Fairness

-----------------------------------------------------------------------------
(* Properties.                                                              *)

(* A message is in the backlog once, and path2backlog holds a pointer to    *)
(* exactly the entries that still wait for the path, in the order of the    *)
(* backlog.  An entry popped from the front of the deque is the one popped  *)
(* from its path's list, so neither a pointer to a destroyed message nor a  *)
(* waiting message that an update can no longer find is left behind.        *)
PointsTo(p, i, k) == path2backlog[p][i] = backlog[k].message

BacklogIndexed ==
  /\ \A j, k \in DOMAIN backlog : backlog[j].message = backlog[k].message => j = k
  /\ \A p \in Paths :
       /\ \A i \in DOMAIN path2backlog[p] : \E k \in DOMAIN backlog : PointsTo(p, i, k)
       /\ \A k \in DOMAIN backlog :
            backlog[k].waiting /\ backlog[k].message.path = p
              <=> \E i \in DOMAIN path2backlog[p] : PointsTo(p, i, k)
       /\ \A i, j \in DOMAIN path2backlog[p], k, l \in DOMAIN backlog :
            i < j /\ PointsTo(p, i, k) /\ PointsTo(p, j, l) => k < l

(* A request is answered at most once, whichever of the three ways of       *)
(* running it comes first: on arrival, with the update of its file, or when *)
(* its deadline has passed.  The latter two are outside the try block of    *)
(* mainLoop and never throw NotIndexed.                                     *)
AtMostOneReply == ~threw /\ \A q \in Queries : replies[q] <= 1

(* percentage = 100 * (completed - last_idle) / (enqueued - last_idle): the *)
(* divisor is positive and the result in 0 .. 100 whenever it is computed.  *)
(* Between rounds the client is shown progress only if, at the last look,   *)
(* some request was outstanding.                                            *)
ProgressShown ==
  /\ pc = "updates" /\ Reports =>
       last_idle < enqueued /\ completed \in last_idle .. enqueued
  /\ pc \in {"backlog", "wait"} /\ in_progress => last_completed < enqueued

(* Every request that was read is answered, be its file indexed or not,     *)
(* unless the server is told to exit.                                       *)
Answered ==
  \A q \in Queries : read > 0 /\ Script[read] = q ~> (replies[q] > 0 \/ g_quit)
=============================================================================
