----------------------------- MODULE Lifecycle -----------------------------
(***************************************************************************)
(* The life of a ccls process (src/src/main.cc, src/src/pipeline.cc,       *)
(* src/src/messages/initialize.cc): which threads there are, how they are  *)
(* started, put to sleep and woken, and how all of them are brought to an  *)
(* end by exit, by the end of the input or, in the stand-alone mode, by    *)
(* the last entry being indexed.                                           *)
(*                                                                         *)
(* A MultiQueueWaiter::wait is split where g_quit can change: the thread   *)
(* takes the queue's mutex and looks (state "held"), then goes to sleep in *)
(* cv.wait, which gives the mutex back.  What the threads compute is left  *)
(* to IndexPipeline, MainLoop and SemaManager.                             *)
(***************************************************************************)
EXTENDS Integers, FiniteSets, ThreadedQueue

CONSTANTS
  Sessions,      (* bound: the runs of the program that are looked at       *)
  UpdateBatch    (* updates applied in a round of the main loop             *)

(* initialize, one without rootUri, a request answered at once, didOpen, a  *)
(* completion request, shutdown, exit, a message that is not JSON-RPC 2.0   *)
(* and one without a method (a client's response).                          *)
Kinds == {"initialize", "noroot", "query", "open", "complete", "shutdown",
          "exit", "invalid", "response"}

(* The requests that the main thread answers itself.                        *)
Direct == {"initialize", "noroot", "query", "shutdown"}

(* A run of ccls: stand-alone (ccls --index) or with a client that sends    *)
(* the messages of script; index.threads and the entries of the project.  A *)
(* client initializes the server at most once.  A polite one asks nothing   *)
(* after shutdown, and sends exit only when it has read the reply to that.  *)
ASSUME SessionsAssumption ==
  /\ UpdateBatch \in Nat \ {0}
  /\ \A s \in Sessions :
       /\ s.standalone \in BOOLEAN /\ s.polite \in BOOLEAN
       /\ s.threads \in Nat \ {0} /\ s.entries \in Nat
       /\ s.script \in Seq(Kinds)
       /\ \A k \in DOMAIN s.script :
            s.script[k] \in {"open", "complete"} =>
              \E j \in 1 .. k - 1 : s.script[j] = "initialize"
       /\ \A j, k \in DOMAIN s.script :
            j < k => /\ ~(s.script[j] = "initialize" /\ s.script[k] = "initialize")
                     /\ s.polite /\ s.script[j] = "shutdown" => s.script[k] \notin Direct

(* The threads of SemaManager. *)
SemaThreads == {"preamble", "comp", "diag"}

VARIABLES
  session,       (* the run of the program, one of Sessions                 *)
  sent,          (* messages the stdin thread has read                      *)
  stdin,         (* "read" or "gone"                                        *)
  on_request,    (* the queue, here the positions of messages; 0 is the     *)
                 (* exit made up at the end of the input                    *)
  index_request, (* requests: "initial", "open" or "dummy"                  *)
  on_indexed,    (* how many updates wait                                   *)
  for_stdout,    (* replies: the positions of the requests                  *)
  main, batch, did_work,
  indexer,       (* "unborn", "parse" (looking for a request), "wait",      *)
                 (* "held", "asleep", "gone" or the kind of its request     *)
  stdout, writing, written,
  sema,          (* state of each thread of SemaManager                     *)
  comp_tasks,    (* completion requests; 0 is the null task quit() pushes   *)
  task,          (* the task completionMain took                            *)
  active_threads,
  enqueued, completed,
  g_quit,
  failed,        (* history: initial requests whose parse failed            *)
  crashed        (* a null CompTask was used                                *)

queues == <<on_request, index_request, on_indexed, for_stdout, comp_tasks>>
semaVars == <<sema, task>>
vars == <<session, sent, stdin, queues, main, batch, did_work,
          indexer, stdout, writing, written, semaVars, active_threads,
          enqueued, completed, g_quit, failed, crashed>>

MaxThreads == CHOOSE n \in {s.threads : s \in Sessions} :
                \A s \in Sessions : s.threads <= n

Ids == 1 .. Len(session.script)
Indexers == 1 .. session.threads

(* main() up to mainLoop or standalone: the stdin and stdout threads exist  *)
(* only in the server, the constructor of SemaManager spawns three.         *)
Init ==
  /\ session \in Sessions
  /\ sent = 0
  /\ stdin = IF session.standalone THEN "gone" ELSE "read"
  /\ stdout = IF session.standalone THEN "gone" ELSE "take"
  /\ on_request = <<>> /\ index_request = EmptyQueue /\ on_indexed = 0
  /\ for_stdout = <<>> /\ writing = <<>> /\ written = <<>>
  /\ main = IF session.standalone THEN "init" ELSE "round"
  /\ batch = <<>> /\ did_work = FALSE
  /\ indexer = [i \in Indexers |-> "unborn"]
  /\ sema = [t \in SemaThreads |-> "dequeue"]
  /\ comp_tasks = <<>> /\ task = 0
  /\ active_threads = IF session.standalone THEN 3 ELSE 5
  /\ enqueued = 0 /\ completed = 0 /\ g_quit = FALSE
  /\ failed = 0 /\ crashed = FALSE

-----------------------------------------------------------------------------
(* Sleeping and waking.                                                     *)

(* Whoever is in "held" has the mutex of its queue. *)
IndexMutexFree == \A i \in Indexers : indexer[i] # "held"
StdoutMutexFree == stdout # "held"

Asleep == {i \in Indexers : indexer[i] = "asleep"}

(* notify_one and notify_all of indexer_waiter: the states after it. *)
NotifyOneIndexer(states) ==
  IF \E i \in Indexers : states[i] = "asleep"
    THEN {[states EXCEPT ![i] = "wait"] : i \in {j \in Indexers : states[j] = "asleep"}}
    ELSE {states}

NotifyAllIndexers ==
  [i \in Indexers |-> IF indexer[i] = "asleep" THEN "wait" ELSE indexer[i]]

(* The main thread and the stdout thread sleep alone. *)
Woken(state) == IF state = "asleep" THEN "wait" ELSE state

(* pipeline::reply and replyError: a push to for_stdout. *)
Reply(id) ==
  /\ StdoutMutexFree
  /\ for_stdout' = Append(for_stdout, id)
  /\ stdout' = Woken(stdout)

NoReply == UNCHANGED <<for_stdout, stdout>>

(* Mutant: a thread counts itself once it runs. *)
EnterLate(n) == active_threads

(* threadEnter, which spawnThread calls before the thread exists, n times;  *)
(* threadLeave.                                                             *)
Enter(n) == active_threads + n
Leave == active_threads - 1

(* pipeline::index: a push to index_request, which wakes one indexer. *)
Index(request, isPriority) ==
  /\ IndexMutexFree
  /\ index_request' = PushBack(index_request, request, isPriority)
  /\ indexer' \in NotifyOneIndexer(indexer)
  /\ enqueued' = IF request = "dummy" THEN enqueued ELSE enqueued + 1

-----------------------------------------------------------------------------
(* The stdin thread.                                                        *)

stdinElse == <<session, index_request, on_indexed, for_stdout,
               comp_tasks, batch, did_work, indexer, stdout, writing, written,
               semaVars, enqueued, completed, g_quit, failed, crashed>>

(* The client sends its next message.  A polite one sends exit only after   *)
(* it has read the reply to shutdown.                                       *)
ClientReady ==
  /\ sent < Len(session.script)
  /\ session.polite /\ session.script[sent + 1] = "exit" =>
       \E k \in 1 .. sent : session.script[k] = "shutdown" /\ k \in {written[j] : j \in DOMAIN written}

(* A message is pushed to the main thread; one without a method is skipped. *)
(* The thread ends with exit.                                               *)
StdinMessage ==
  /\ stdin = "read"
  /\ ClientReady
  /\ session.script[sent + 1] # "invalid"
  /\ sent' = sent + 1
  /\ IF session.script[sent'] = "response"
       THEN UNCHANGED <<on_request, main>>
       ELSE on_request' = Append(on_request, sent') /\ main' = Woken(main)
  /\ IF session.script[sent'] = "exit"
       THEN stdin' = "gone" /\ active_threads' = Leave
       ELSE UNCHANGED <<stdin, active_threads>>
  /\ UNCHANGED stdinElse

(* End of file, or a message that is not JSON-RPC 2.0: the thread makes up  *)
(* an exit.                                                                 *)
StdinQuit ==
  /\ stdin = "read"
  /\ sent' \in {sent, sent + 1}
  /\ sent' > sent => ClientReady /\ session.script[sent + 1] = "invalid"
  /\ on_request' = Append(on_request, 0)
  /\ main' = Woken(main)
  /\ stdin' = "gone"
  /\ active_threads' = Leave
  /\ UNCHANGED stdinElse

-----------------------------------------------------------------------------
(* The main thread.                                                         *)

mainElse == <<session, sent, stdin, writing, written, semaVars,
              completed, failed, crashed>>

(* do_initialize: reply, then start the indexers.  A stand-alone process    *)
(* has no id to reply to.                                                   *)
Initialize(id) ==
  /\ IF session.standalone THEN NoReply ELSE Reply(id)
  /\ indexer' = [i \in Indexers |-> "parse"]
  /\ active_threads' = Enter(Cardinality(Indexers))
  /\ main' = "dispatch"

StandaloneInitialize ==
  /\ main = "init"
  /\ Initialize(0)
  /\ UNCHANGED <<mainElse, on_request, index_request, on_indexed, comp_tasks,
                 batch, did_work, enqueued, g_quit>>

(* Project::index, a request for each entry and the dummy request. *)
Dispatch ==
  /\ main = "dispatch"
  /\ Index(IF enqueued < session.entries THEN "initial" ELSE "dummy", FALSE)
  /\ main' = IF enqueued < session.entries THEN "dispatch"
              ELSE IF session.standalone THEN "poll" ELSE "messages"
  /\ UNCHANGED <<mainElse, on_request, on_indexed, comp_tasks, for_stdout, stdout,
                 batch, did_work, active_threads, g_quit>>

(* A round of mainLoop begins with dequeueAll. *)
Round ==
  /\ main = "round"
  /\ batch' = on_request /\ on_request' = <<>>
  /\ did_work' = (batch' # <<>>)
  /\ main' = "messages"
  /\ UNCHANGED <<mainElse, index_request, on_indexed, for_stdout, comp_tasks,
                 indexer, stdout, active_threads, enqueued, g_quit>>

KindOf(id) == IF id = 0 THEN "exit" ELSE session.script[id]

(* MessageHandler::run: initialize; the requests that are answered at once; *)
(* didOpen and completion, which leave work to other threads; exit.         *)
RunInitialize ==
  /\ main = "messages" /\ batch # <<>>
  /\ KindOf(Head(batch)) = "initialize"
  /\ Initialize(Head(batch))
  /\ batch' = Tail(batch)
  /\ UNCHANGED <<mainElse, on_request, index_request, on_indexed, comp_tasks,
                 did_work, enqueued, g_quit>>

RunRequest ==
  /\ main = "messages" /\ batch # <<>>
  /\ KindOf(Head(batch)) \in {"noroot", "query", "shutdown"}
  /\ Reply(Head(batch))
  /\ batch' = Tail(batch)
  /\ UNCHANGED <<mainElse, on_request, index_request, on_indexed, comp_tasks, main,
                 did_work, indexer, active_threads, enqueued, g_quit>>

RunOpen ==
  /\ main = "messages" /\ batch # <<>>
  /\ KindOf(Head(batch)) = "open"
  /\ Index("open", TRUE)
  /\ batch' = Tail(batch)
  /\ UNCHANGED <<mainElse, on_request, on_indexed, for_stdout, comp_tasks, main,
                 did_work, stdout, active_threads, g_quit>>

RunComplete ==
  /\ main = "messages" /\ batch # <<>>
  /\ KindOf(Head(batch)) = "complete"
  /\ comp_tasks' = Append(comp_tasks, Head(batch))
  /\ batch' = Tail(batch)
  /\ UNCHANGED <<mainElse, on_request, index_request, on_indexed, for_stdout,
                 main, did_work, indexer, stdout, active_threads, enqueued,
                 g_quit>>

RunExit ==
  /\ main = "messages" /\ batch # <<>>
  /\ KindOf(Head(batch)) = "exit"
  /\ g_quit' = TRUE
  /\ batch' = Tail(batch)
  /\ UNCHANGED <<mainElse, on_request, index_request, on_indexed, for_stdout,
                 comp_tasks, main, did_work, indexer, stdout, active_threads,
                 enqueued>>

(* After the messages: once told to exit, apply() empties queue_. *)
MessagesDone ==
  /\ main = "messages" /\ batch = <<>>
  /\ IF g_quit
       THEN IndexMutexFree /\ index_request' = ApplyClear(index_request)
       ELSE UNCHANGED index_request
  /\ main' = "updates"
  /\ UNCHANGED <<mainElse, on_request, on_indexed, for_stdout, comp_tasks, batch,
                 did_work, indexer, stdout, active_threads, enqueued, g_quit>>

ApplyUpdates ==
  /\ main = "updates"
  /\ on_indexed' = IF on_indexed > UpdateBatch THEN on_indexed - UpdateBatch ELSE 0
  /\ did_work' = (did_work \/ on_indexed > 0)
  /\ main' = "wait"
  /\ UNCHANGED <<mainElse, on_request, index_request, for_stdout, comp_tasks,
                 batch, indexer, stdout, active_threads, enqueued, g_quit>>

(* The end of a round: leave the loop, go on, or sleep until a push to      *)
(* on_request or on_indexed.                                                *)
MainWait ==
  /\ main = "wait"
  /\ main' = IF did_work THEN (IF g_quit THEN "quit" ELSE "round")
              ELSE IF on_request # <<>> \/ on_indexed > 0 THEN "round" ELSE "asleep"
  /\ UNCHANGED <<mainElse, queues, batch, did_work, indexer, stdout,
                 active_threads, enqueued, g_quit>>

(* standalone(): look at the counters every 100 ms. *)
Poll ==
  /\ main = "poll"
  /\ on_indexed' = 0
  /\ main' = IF completed = enqueued THEN "quit" ELSE "poll"
  /\ UNCHANGED <<mainElse, on_request, index_request, for_stdout, comp_tasks,
                 batch, did_work, indexer, stdout, active_threads, enqueued,
                 g_quit>>

(* quit(): g_quit, SemaManager::quit, then for each waiter a look into the  *)
(* critical section, so that nobody is between the check of g_quit and      *)
(* cv.wait, and the notification.  Mutant: it does not look.                *)
Quit ==
  /\ main = "quit"
  /\ g_quit' = TRUE
  /\ comp_tasks' = Append(comp_tasks, 0)
  /\ main' = "lockIndex"
  /\ UNCHANGED <<mainElse, on_request, index_request, on_indexed, for_stdout,
                 batch, did_work, indexer, stdout, active_threads, enqueued>>

PassNow(isFree) == TRUE
Pass(isFree) == isFree

QuitLock ==
  /\ \/ main = "lockIndex" /\ Pass(IndexMutexFree) /\ main' = "notifyIndex"
     \/ main = "lockStdout" /\ Pass(StdoutMutexFree) /\ main' = "notifyStdout"
  /\ UNCHANGED <<mainElse, queues, batch, did_work, indexer, stdout,
                 active_threads, enqueued, g_quit>>

QuitNotify ==
  /\ \/ /\ main = "notifyIndex"
        /\ indexer' = NotifyAllIndexers
        /\ main' = "lockStdout" /\ UNCHANGED stdout
     \/ /\ main = "notifyStdout"
        /\ stdout' = Woken(stdout)
        /\ main' = "join" /\ UNCHANGED indexer
  /\ UNCHANGED <<mainElse, queues, batch, did_work, active_threads, enqueued,
                 g_quit>>

Join ==
  /\ main = "join"
  /\ active_threads = 0
  /\ main' = "done"
  /\ UNCHANGED <<mainElse, queues, batch, did_work, indexer, stdout,
                 active_threads, enqueued, g_quit>>

Main ==
  \/ StandaloneInitialize \/ Dispatch \/ Round
  \/ RunInitialize \/ RunRequest \/ RunOpen \/ RunComplete \/ RunExit
  \/ MessagesDone \/ ApplyUpdates \/ MainWait \/ Poll
  \/ Quit \/ QuitLock \/ QuitNotify \/ Join

-----------------------------------------------------------------------------
(* The indexer threads: indexer_Main.                                       *)

indexerElse == <<session, sent, stdin, on_request, comp_tasks, batch,
                 did_work, writing, written, semaVars, enqueued, g_quit,
                 crashed>>

(* tryPopFront; the dummy request gives an update and, like an empty queue, *)
(* the result false, which sends the thread to wait.                        *)
IndexerPop(i) ==
  /\ indexer[i] = "parse"
  /\ IndexMutexFree
  /\ IF CanPop(index_request)
       THEN /\ index_request' = PopFront(index_request)
            /\ IF Front(index_request) = "dummy"
                 THEN /\ on_indexed' = on_indexed + 1
                      /\ main' = Woken(main)
                      /\ indexer' = [indexer EXCEPT ![i] = "wait"]
                 ELSE /\ indexer' = [indexer EXCEPT ![i] = Front(index_request)]
                      /\ UNCHANGED <<on_indexed, main>>
       ELSE /\ indexer' = [indexer EXCEPT ![i] = "wait"]
            /\ UNCHANGED <<index_request, on_indexed, main>>
  /\ UNCHANGED <<indexerElse, for_stdout, stdout, active_threads, completed,
                 failed>>

Working(i) == indexer[i] \in {"initial", "open"}

(* The request is done: with an update, with nothing to do (the result is   *)
(* false), or with a failed parse.                                          *)
IndexerDone(i) ==
  /\ Working(i)
  /\ \/ /\ on_indexed' = on_indexed + 1 /\ main' = Woken(main)
        /\ indexer' = [indexer EXCEPT ![i] = "parse"]
     \/ /\ indexer' = [indexer EXCEPT ![i] = "wait"]
        /\ UNCHANGED <<on_indexed, main>>
  /\ completed' = completed + 1
  /\ UNCHANGED <<indexerElse, index_request, for_stdout, stdout,
                 active_threads, failed>>

InitId == CHOOSE k \in Ids : session.script[k] = "initialize"

(* Mutant: the id of initialize is given to every request. *)
AnyHasId(request) == ~session.standalone

(* request.id.valid(): the initial requests carry initialize's id. *)
HasId(request) == request = "initial" /\ ~session.standalone

IndexerFailed(i) ==
  /\ Working(i)
  /\ IF HasId(indexer[i]) THEN Reply(InitId) ELSE NoReply
  /\ failed' = failed + (IF indexer[i] = "initial" THEN 1 ELSE 0)
  /\ indexer' = [indexer EXCEPT ![i] = "parse"]
  /\ completed' = completed + 1
  /\ UNCHANGED <<indexerElse, index_request, on_indexed, main, active_threads>>

(* Mutant: whether there are requests is not asked. *)
IndexerMaySleepAlways == TRUE

(* MultiQueueWaiter::wait on index_request. *)
IndexerMaySleep == IsEmpty(index_request)

IndexerWait(i) ==
  /\ indexer[i] = "wait"
  /\ IndexMutexFree
  /\ IF g_quit
       THEN /\ indexer' = [indexer EXCEPT ![i] = "gone"]
            /\ active_threads' = Leave
       ELSE /\ indexer' = [indexer EXCEPT ![i] =
                             IF IndexerMaySleep THEN "held" ELSE "parse"]
            /\ UNCHANGED active_threads
  /\ UNCHANGED <<indexerElse, index_request, on_indexed, main, for_stdout,
                 stdout, completed, failed>>

IndexerSleep(i) ==
  /\ indexer[i] = "held"
  /\ indexer' = [indexer EXCEPT ![i] = "asleep"]
  /\ UNCHANGED <<indexerElse, index_request, on_indexed, main, for_stdout,
                 stdout, active_threads, completed, failed>>

Indexer(i) ==
  \/ IndexerPop(i) \/ IndexerDone(i) \/ IndexerFailed(i)
  \/ IndexerWait(i) \/ IndexerSleep(i)

-----------------------------------------------------------------------------
(* The stdout thread.                                                       *)

stdoutElse == <<session, sent, stdin, on_request, index_request,
                on_indexed, comp_tasks, main, batch, did_work, indexer, semaVars,
                enqueued, completed, g_quit, failed, crashed>>

StdoutTake ==
  /\ stdout = "take"
  /\ writing' = for_stdout /\ for_stdout' = <<>>
  /\ stdout' = "write"
  /\ UNCHANGED <<stdoutElse, written, active_threads>>

StdoutWrite ==
  /\ stdout = "write"
  /\ writing # <<>>
  /\ written' = Append(written, Head(writing))
  /\ writing' = Tail(writing)
  /\ UNCHANGED <<stdoutElse, for_stdout, stdout, active_threads>>

(* wait(g_quit, for_stdout): g_quit first, the queue second. *)
StdoutWait ==
  /\ stdout = "wait" \/ (stdout = "write" /\ writing = <<>>)
  /\ stdout' = IF g_quit THEN "gone" ELSE IF for_stdout # <<>> THEN "take" ELSE "held"
  /\ active_threads' = IF g_quit THEN Leave ELSE active_threads
  /\ UNCHANGED <<stdoutElse, for_stdout, writing, written>>

StdoutSleep ==
  /\ stdout = "held"
  /\ stdout' = "asleep"
  /\ UNCHANGED <<stdoutElse, for_stdout, writing, written, active_threads>>

Stdout == StdoutTake \/ StdoutWrite \/ StdoutWait \/ StdoutSleep

-----------------------------------------------------------------------------
(* The threads of SemaManager.  Of their work only what completionMain does *)
(* before it works is here.                                                 *)

semaElse == <<session, sent, stdin, on_request, index_request, on_indexed,
              main, batch, did_work, indexer, writing, written, enqueued,
              completed, g_quit, failed>>

(* preambleMain and diagnosticMain leave when a dequeue() returns, be it    *)
(* with the task of SemaManager::quit, and g_quit is set.                   *)
SemaLeave(t) ==
  /\ t # "comp" /\ sema[t] = "dequeue"
  /\ g_quit /\ main \in {"lockIndex", "notifyIndex", "lockStdout", "notifyStdout", "join"}
  /\ sema' = [sema EXCEPT ![t] = "gone"]
  /\ active_threads' = Leave
  /\ NoReply
  /\ UNCHANGED <<semaElse, comp_tasks, task, crashed>>

(* completionMain: dequeue() and the check of g_quit. *)
CompDequeue ==
  /\ sema["comp"] = "dequeue"
  /\ comp_tasks # <<>>
  /\ comp_tasks' = Tail(comp_tasks)
  /\ task' = Head(comp_tasks)
  /\ sema' = [sema EXCEPT !["comp"] = IF g_quit THEN "gone" ELSE "taken"]
  /\ active_threads' = IF g_quit THEN Leave ELSE active_threads
  /\ NoReply
  /\ UNCHANGED <<semaElse, crashed>>

(* It drops its task for a newer one as long as there is one; the check of  *)
(* g_quit leaves only this loop.                                            *)
CompDrop ==
  /\ sema["comp"] = "taken"
  /\ comp_tasks # <<>>
  /\ Reply(task)
  /\ comp_tasks' = Tail(comp_tasks)
  /\ task' = Head(comp_tasks)
  /\ sema' = [sema EXCEPT !["comp"] = IF g_quit THEN "busy" ELSE "taken"]
  /\ UNCHANGED <<semaElse, active_threads, crashed>>

CompKeep ==
  /\ sema["comp"] = "taken"
  /\ comp_tasks = <<>>
  /\ sema' = [sema EXCEPT !["comp"] = "busy"]
  /\ NoReply
  /\ UNCHANGED <<semaElse, comp_tasks, task, active_threads, crashed>>

(* The rest of the loop: a null task ends the process; otherwise the task   *)
(* is answered, or given up when clang fails.                               *)
CompWork ==
  /\ sema["comp"] = "busy"
  /\ crashed' = (task = 0)
  /\ sema' = [sema EXCEPT !["comp"] = "dequeue"]
  /\ NoReply \/ (task # 0 /\ Reply(task))
  /\ UNCHANGED <<semaElse, comp_tasks, task, active_threads>>

Sema(t) ==
  \/ SemaLeave(t)
  \/ t = "comp" /\ (CompDequeue \/ CompDrop \/ CompKeep \/ CompWork)

-----------------------------------------------------------------------------
Stdin == StdinMessage \/ StdinQuit

Alive == ~crashed /\ main # "done"

Next ==
  /\ Alive
  /\ \/ Stdin \/ Main \/ Stdout
     \/ \E t \in SemaThreads : Sema(t)
     \/ \E i \in Indexers : Indexer(i)

(* Every thread that can run does; parses end.  The client need not send.   *)
Fairness ==
  /\ WF_vars(Alive /\ Main) /\ WF_vars(Alive /\ Stdout)
  /\ \A i \in 1 .. MaxThreads : WF_vars(Alive /\ i \in Indexers /\ Indexer(i))
  /\ \A t \in SemaThreads : WF_vars(Alive /\ Sema(t))

Spec == Init /\ [][Next]_vars
FairSpec == Spec /\ Fairness

-----------------------------------------------------------------------------
(* Properties.                                                              *)

(* No lost wake-up: while an indexer sleeps, until the server is told to    *)
(* exit, every queued request has an indexer of its own that is awake and   *)
(* free.  Each push notifies one thread only, and a notified thread may     *)
(* find that another took the request.                                      *)
Free == {i \in Indexers : indexer[i] \in {"parse", "wait"}}

WakeUp ==
  Asleep # {} /\ ~g_quit =>
    Len(Contents(index_request)) <= Cardinality(Free)

(* When mainLoop or standalone returns, and with it the Project,            *)
(* WorkingFiles, VFS and SemaManager on its stack go away, no thread that   *)
(* uses them is left; and the stand-alone mode has indexed every entry.     *)
CleanExit ==
  main = "done" =>
    /\ stdin = "gone" /\ stdout = "gone"
    /\ \A i \in Indexers : indexer[i] \in {"unborn", "gone"}
    /\ \A t \in SemaThreads : sema[t] = "gone"
    /\ session.standalone => completed = session.entries

(* A request is answered at most once, dropped, sent round or answered      *)
(* whichever thread does it, but for initialize: each initial request whose *)
(* parse fails answers it again.  A client that sends exit after it has     *)
(* read the reply to shutdown has read the replies to all that it asked     *)
(* of the main thread before.                                               *)
Replied == written \o writing \o for_stdout

RepliesTo(k) == Cardinality({j \in DOMAIN Replied : Replied[j] = k})

Exited == sent > 0 /\ session.script[sent] = "exit"

Replies ==
  /\ \A k \in 1 .. sent :
       RepliesTo(k) <= IF session.script[k] = "initialize" THEN 1 + failed ELSE 1
  /\ session.polite /\ Exited =>
       \A k \in 1 .. sent :
         session.script[k] \in Direct =>
           \E j \in DOMAIN written : written[j] = k

(* However the threads are when the input ends, or the last entry is        *)
(* indexed, the process comes to its end (or is ended by the null task).    *)
Terminates == stdin = "gone" ~> ~Alive
=============================================================================
