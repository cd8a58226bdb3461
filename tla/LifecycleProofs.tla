-------------------------- MODULE LifecycleProofs --------------------------
(***************************************************************************)
(* Theorems about Lifecycle, for every number of indexers, of entries and  *)
(* of messages: no wake-up of an indexer is lost, nobody outlives the end  *)
(* of the process, and every request is answered at most once and in       *)
(* order.                                                                  *)
(***************************************************************************)
EXTENDS Lifecycle, Counting

-----------------------------------------------------------------------------
(* Types.                                                                   *)

Requests == {"initial", "open", "dummy"}

(* The states of a thread of indexer_Main that exists. *)
Running == {"parse", "wait", "held", "asleep", "initial", "open"}

(* The states of the main thread in each of its two loops. *)
ServerStates == {"round", "dispatch", "messages", "updates", "wait", "asleep"}
PollStates == {"init", "dispatch", "poll"}
QuitStates == {"quit", "lockIndex", "notifyIndex", "lockStdout", "notifyStdout",
               "join", "done"}

(* Positions of messages, 0 included. *)
MessageIds == 0 .. Len(session.script)

TypeOK ==
  /\ session \in Sessions
  /\ sent \in MessageIds
  /\ stdin \in {"read", "gone"}
  /\ stdout \in {"take", "write", "wait", "held", "asleep", "gone"}
  /\ main \in QuitStates \cup IF session.standalone THEN PollStates ELSE ServerStates
  /\ on_request \in Seq(MessageIds) /\ batch \in Seq(MessageIds)
  /\ for_stdout \in Seq(MessageIds) /\ writing \in Seq(MessageIds)
  /\ written \in Seq(MessageIds) /\ comp_tasks \in Seq(MessageIds)
  /\ task \in MessageIds
  /\ index_request \in QueueOf(Requests)
  /\ indexer \in [Indexers -> Running \cup {"unborn", "gone"}]
  /\ sema \in [SemaThreads -> {"dequeue", "taken", "busy", "gone"}]
  /\ on_indexed \in Nat /\ active_threads \in Int
  /\ enqueued \in Nat /\ completed \in Nat /\ failed \in Nat
  /\ did_work \in BOOLEAN /\ g_quit \in BOOLEAN /\ crashed \in BOOLEAN

(* Indexers are started all at once; in the server, by initialize. *)
Unborn == \A i \in Indexers : indexer[i] = "unborn"

StartedOnce ==
  /\ Unborn \/ \A i \in Indexers : indexer[i] # "unborn"
  /\ ~Unborn /\ ~session.standalone =>
       \E k \in Ids : session.script[k] = "initialize"

-----------------------------------------------------------------------------
(* The invariant behind WakeUp: until exit the counter of index_request is  *)
(* right; who holds the mutex to go to sleep has seen the queue empty.      *)
NoLostWakeUp ==
  ~g_quit =>
    /\ index_request.total = Len(Contents(index_request))
    /\ ~IndexMutexFree => Contents(index_request) = <<>>
    /\ Asleep # {} => Len(Contents(index_request)) <= Cardinality(Free)

-----------------------------------------------------------------------------
(* The invariant behind CleanExit: active_threads counts the threads, and   *)
(* in the stand-alone mode each entry that was enqueued is queued, being    *)
(* indexed or completed.                                                    *)
ThreadsCounted ==
  active_threads =
    Bit(stdin # "gone") + Bit(stdout # "gone")
    + Cardinality({i \in Indexers : indexer[i] \in Running})
    + Cardinality({t \in SemaThreads : sema[t] # "gone"})

Work == {"initial", "open"}

EntriesCounted ==
  session.standalone =>
    /\ stdin = "gone" /\ stdout = "gone"
    /\ main = "init" => Unborn
    /\ main \in {"init", "dispatch"} => enqueued <= session.entries
    /\ main \notin {"init", "dispatch"} => enqueued = session.entries
    /\ main \in QuitStates => completed = enqueued
    /\ completed + Cardinality({i \in Indexers : indexer[i] \in Work})
         + Count(Contents(index_request), Work) = enqueued

-----------------------------------------------------------------------------
(* The invariant behind Replies.                                            *)

(* The messages the main thread has yet to look at, in order. *)
Pending == batch \o on_request

(* The task completionMain has in its hands, if any. *)
HeldTasks == IF sema["comp"] \in {"taken", "busy"} THEN {task} ELSE {}
Held(k) == k \in HeldTasks

Answered(k) == \E j \in DOMAIN Replied : Replied[j] = k
DirectAnswered(n) == \A k \in 1 .. n - 1 : session.script[k] \in Direct => Answered(k)

(* Messages are handled in the order in which they were read, a batch to    *)
(* its end; the indexers do not exist before initialize is handled.         *)
PendingInOrder ==
  /\ session.standalone \/ main \notin {"messages", "dispatch"} => batch = <<>>
  /\ \A n \in DOMAIN Pending : Pending[n] <= sent
  /\ \A m, n \in DOMAIN Pending : m < n => Pending[n] = 0 \/ Pending[m] < Pending[n]
  /\ ~session.standalone =>
       \A k \in Ids :
         /\ session.script[k] = "initialize"
         /\ k > sent \/ \E j \in DOMAIN Pending : Pending[j] = k
         => Unborn

(* A message is pending, with the completion thread, or answered. *)
AnsweredOnce ==
  \A k \in Ids :
    /\ k > sent => /\ Count(Pending, {k}) = 0 /\ Count(Replied, {k}) = 0
                   /\ Count(comp_tasks, {k}) = 0 /\ ~Held(k)
    /\ session.script[k] = "initialize" =>
         /\ Count(comp_tasks, {k}) = 0 /\ ~Held(k)
         /\ Count(Replied, {k}) <= IF Unborn THEN 0 ELSE 1 + failed
    /\ session.script[k] # "initialize" =>
         Count(Pending, {k}) + Count(Replied, {k}) + Count(comp_tasks, {k})
           + Bit(Held(k)) <= 1

(* Direct requests are pending or answered; whatever is answered, or left   *)
(* to another thread that will answer it, has every earlier one before it.  *)
AnsweredInOrder ==
  /\ \A k \in 1 .. sent : session.script[k] \in Direct =>
       Answered(k) \/ \E j \in DOMAIN Pending : Pending[j] = k
  /\ \A n \in DOMAIN Replied : \A k \in 1 .. Replied[n] - 1 :
       session.script[k] \in Direct => \E m \in 1 .. n - 1 : Replied[m] = k
  /\ \A n \in DOMAIN comp_tasks : DirectAnswered(comp_tasks[n])
  /\ \A k \in Ids : Held(k) => DirectAnswered(k)
  /\ \A k \in Ids :
       session.script[k] = "initialize" /\ ~session.standalone /\ ~Unborn => DirectAnswered(k)

(* stdout takes a new batch only when it has written the last. *)
AllWritten == stdout # "write" => writing = <<>>

(* What a polite client has read when it has sent exit. *)
PoliteExit ==
  session.polite /\ Exited =>
    \A k \in 1 .. sent :
      session.script[k] \in Direct => \E j \in DOMAIN written : written[j] = k

-----------------------------------------------------------------------------
(* What the assumption says of the session that runs.                       *)
LEMMA SessionFacts ==
  ASSUME session \in Sessions
  PROVE  /\ session.script \in Seq(Kinds) /\ Len(session.script) \in Nat
         /\ Ids = DOMAIN session.script /\ Ids = 1 .. Len(session.script)
         /\ session.standalone \in BOOLEAN /\ session.polite \in BOOLEAN
         /\ session.threads \in Nat \ {0} /\ session.entries \in Nat
         /\ IsFiniteSet(Indexers) /\ Indexers # {} /\ 1 \in Indexers
         /\ Cardinality(Indexers) = session.threads
         /\ UpdateBatch \in Nat \ {0}
<1>1. /\ session.script \in Seq(Kinds)
      /\ session.standalone \in BOOLEAN /\ session.polite \in BOOLEAN
      /\ session.threads \in Nat \ {0} /\ session.entries \in Nat
      /\ UpdateBatch \in Nat \ {0}
  BY SessionsAssumption
<1>2. Len(session.script) \in Nat /\ DOMAIN session.script = 1 .. Len(session.script)
  BY <1>1, LenProperties
<1>3. IsFiniteSet(1 .. session.threads) /\ Cardinality(1 .. session.threads) = session.threads
  <2>1. session.threads \in Int /\ ~(1 > session.threads) /\ session.threads - 1 + 1 = session.threads
    BY <1>1
  <2> HIDE <1>1
  <2>2. QED
    BY <2>1, FS_Interval
<1>4. 1 \in Indexers
  BY <1>1 DEF Indexers
<1>5. QED
  BY <1>1, <1>2, <1>3, <1>4 DEF Ids, Indexers

(* The server is initialized once.                                          *)
LEMMA OneInitialize ==
  ASSUME session \in Sessions, NEW j \in Ids, NEW k \in Ids,
         session.script[j] = "initialize", session.script[k] = "initialize"
  PROVE  j = k
<1>1. Ids = DOMAIN session.script /\ Ids = 1 .. Len(session.script)
      /\ Len(session.script) \in Nat
  BY SessionFacts
<1>2. ~(j < k) /\ ~(k < j)
  BY <1>1, SessionsAssumption
<1>3. QED
  BY <1>1, <1>2

(* The program runs one session.                                            *)
LEMMA SameSession ==
  ASSUME [Next]_vars
  PROVE  session' = session
  BY DEF Next, vars, Stdin, StdinMessage, StdinQuit, stdinElse, Main, mainElse,
         StandaloneInitialize, Dispatch, Round, RunInitialize, RunRequest, RunOpen,
         RunComplete, RunExit, MessagesDone, ApplyUpdates, MainWait, Poll, Quit,
         QuitLock, QuitNotify, Join, Stdout, stdoutElse, StdoutTake, StdoutWrite,
         StdoutWait, StdoutSleep, Sema, semaElse, SemaLeave, CompDequeue, CompDrop,
         CompKeep, CompWork, Indexer, indexerElse, IndexerPop, IndexerDone,
         IndexerFailed, IndexerWait, IndexerSleep

(* An indexer that is notified was asleep; nobody else changes.             *)
LEMMA NotifyOneProperties ==
  ASSUME TypeOK, NEW states, states \in NotifyOneIndexer(indexer)
  PROVE  /\ states \in [Indexers -> Running \cup {"unborn", "gone"}]
         /\ \/ Asleep = {} /\ states = indexer
            \/ \E i \in Asleep : states = [indexer EXCEPT ![i] = "wait"]
  BY DEF NotifyOneIndexer, Asleep, TypeOK, Running

(* An indexer that exists changes its state.                                *)
LEMMA IndexerSet ==
  ASSUME TypeOK, StartedOnce, session' = session,
         NEW i \in Indexers, indexer[i] # "unborn",
         NEW v \in Running \cup {"gone"}, indexer' = [indexer EXCEPT ![i] = v]
  PROVE  /\ indexer' \in [Indexers -> Running \cup {"unborn", "gone"}]
         /\ indexer'[i] = v /\ \A j \in Indexers : j # i => indexer'[j] = indexer[j]
         /\ ~Unborn /\ ~Unborn' /\ StartedOnce'
<1>1. Indexers' = Indexers /\ Ids' = Ids
  BY DEF Indexers, Ids
<1>2. indexer \in [Indexers -> Running \cup {"unborn", "gone"}]
  BY DEF TypeOK
<1>3. /\ indexer' \in [Indexers -> Running \cup {"unborn", "gone"}]
      /\ indexer'[i] = v /\ \A j \in Indexers : j # i => indexer'[j] = indexer[j]
  BY <1>2
<1>4. v # "unborn"
  BY DEF Running
<1>5. ~Unborn /\ ~Unborn'
  BY <1>1, <1>3, <1>4 DEF Unborn
<1>6. QED
  BY <1>1, <1>3, <1>4, <1>5 DEF StartedOnce

(* A notification starts and ends no indexer.                               *)
LEMMA NotifyStarted ==
  ASSUME TypeOK, StartedOnce, session' = session, indexer' \in NotifyOneIndexer(indexer)
  PROVE  /\ indexer' \in [Indexers -> Running \cup {"unborn", "gone"}]
         /\ (Unborn' <=> Unborn) /\ StartedOnce'
<1>1. CASE indexer' = indexer
  BY <1>1 DEF TypeOK, StartedOnce, Unborn, Indexers, Ids
<1>2. CASE \E i \in Asleep : indexer' = [indexer EXCEPT ![i] = "wait"]
  <2>1. PICK i \in Asleep : indexer' = [indexer EXCEPT ![i] = "wait"]
    BY <1>2
  <2>2. i \in Indexers /\ indexer[i] # "unborn" /\ "wait" \in Running \cup {"gone"}
    BY DEF Asleep, Running
  <2>3. QED
    BY <2>1, <2>2, IndexerSet
<1>3. QED
  BY <1>1, <1>2, NotifyOneProperties

(* A reply, or none, is well typed.                                         *)
LEMMA ReplyType ==
  ASSUME TypeOK, NEW id \in MessageIds, Reply(id) \/ NoReply
  PROVE  /\ for_stdout' \in Seq(MessageIds)
         /\ stdout' \in {"take", "write", "wait", "held", "asleep", "gone"}
<1>1. for_stdout \in Seq(MessageIds) /\ Append(for_stdout, id) \in Seq(MessageIds)
  BY AppendProperties DEF TypeOK
<1>2. for_stdout' \in Seq(MessageIds)
  BY <1>1 DEF Reply, NoReply
<1>3. QED
  BY <1>2 DEF Reply, NoReply, Woken, TypeOK

(* Everything starts well typed.                                            *)
LEMMA InitType == Init => TypeOK /\ StartedOnce
<1> SUFFICES ASSUME Init PROVE TypeOK /\ StartedOnce
  OBVIOUS
<1>1. session \in Sessions
  BY DEF Init
<1>2. /\ Len(session.script) \in Nat /\ session.standalone \in BOOLEAN
  BY <1>1, SessionFacts
<1>3. TypeOK
  <2>1. indexer \in [Indexers -> Running \cup {"unborn", "gone"}]
    BY DEF Init
  <2>2. sema \in [SemaThreads -> {"dequeue", "taken", "busy", "gone"}]
    BY DEF Init
  <2>3. index_request \in QueueOf(Requests)
    BY EmptyQueueProperties DEF Init
  <2>4. /\ on_request \in Seq(MessageIds) /\ batch \in Seq(MessageIds)
        /\ for_stdout \in Seq(MessageIds) /\ writing \in Seq(MessageIds)
        /\ written \in Seq(MessageIds) /\ comp_tasks \in Seq(MessageIds)
    BY EmptySeq DEF Init
  <2>5. /\ stdin \in {"read", "gone"} /\ stdout \in {"take", "gone"}
        /\ main \in IF session.standalone THEN PollStates ELSE ServerStates
    BY DEF Init, ServerStates, PollStates
  <2>6. /\ sent \in MessageIds /\ task \in MessageIds
        /\ on_indexed \in Nat /\ active_threads \in Int
        /\ enqueued \in Nat /\ completed \in Nat /\ failed \in Nat
    BY <1>2 DEF Init, MessageIds
  <2>7. did_work \in BOOLEAN /\ g_quit \in BOOLEAN /\ crashed \in BOOLEAN
    BY DEF Init
  <2>8. QED
    BY <1>1, <2>1, <2>2, <2>3, <2>4, <2>5, <2>6, <2>7 DEF TypeOK
<1>4. StartedOnce
  BY DEF Init, StartedOnce, Unborn
<1>5. QED
  BY <1>3, <1>4

(* Every step of every thread keeps the types.                              *)
LEMMA NextType ==
  ASSUME TypeOK, StartedOnce, [Next]_vars
  PROVE  TypeOK' /\ StartedOnce'
<1>1. session' = session
  BY SameSession
<1>2. /\ MessageIds' = MessageIds /\ Indexers' = Indexers /\ Ids' = Ids
  BY <1>1 DEF MessageIds, Indexers, Ids
<1>3. /\ Len(session.script) \in Nat /\ session.standalone \in BOOLEAN
      /\ Cardinality(Indexers) \in Nat /\ UpdateBatch \in Nat \ {0}
      /\ Ids = 1 .. Len(session.script) /\ 1 \in Indexers
  BY SessionFacts DEF TypeOK
<1> USE <1>1, <1>2, <1>3
<1>4. CASE UNCHANGED vars
  BY <1>4 DEF vars, queues, semaVars, TypeOK, StartedOnce, Unborn
<1>5. CASE StdinMessage
  <2>1. sent' \in MessageIds /\ on_request' \in Seq(MessageIds)
    <3>1. sent' \in MessageIds /\ on_request \in Seq(MessageIds)
      <4>1. sent' = sent + 1 /\ sent < Len(session.script)
        BY <1>5 DEF StdinMessage, ClientReady
      <4>2. sent \in Nat /\ on_request \in Seq(MessageIds)
        BY DEF TypeOK, MessageIds
      <4>3. QED
        BY <4>1, <4>2 DEF MessageIds
    <3>2. on_request' = on_request \/ on_request' = Append(on_request, sent')
      BY <1>5 DEF StdinMessage
    <3>3. Append(on_request, sent') \in Seq(MessageIds)
      BY <3>1, AppendProperties
    <3>4. QED
      BY <3>1, <3>2, <3>3
  <2>2. /\ main' = main \/ main' = Woken(main)
        /\ stdin' \in {"read", "gone"} /\ active_threads' \in Int
    BY <1>5 DEF StdinMessage, Leave, TypeOK
  <2>3. UNCHANGED stdinElse
    BY <1>5 DEF StdinMessage
  <2>4. QED
    BY <2>1, <2>2, <2>3 DEF stdinElse, semaVars, TypeOK, StartedOnce, Unborn, Woken,
                            ServerStates, PollStates, QuitStates
<1>6. CASE StdinQuit
  BY <1>6 DEF StdinQuit, stdinElse, semaVars, TypeOK, StartedOnce, Unborn, ClientReady,
              MessageIds, Woken, Leave, ServerStates, PollStates, QuitStates
<1>7. CASE StandaloneInitialize
  BY <1>7 DEF StandaloneInitialize, Initialize, NoReply, Reply, Enter, mainElse,
              semaVars, TypeOK, StartedOnce, Unborn, ServerStates, PollStates,
              QuitStates, Running
<1>8. CASE Dispatch
  <2>1. PICK r \in Requests, p \in BOOLEAN : Index(r, p)
    BY <1>8 DEF Dispatch, Requests
  <2>2. index_request' \in QueueOf(Requests) /\ enqueued' \in Nat
    BY <2>1, PushBackProperties DEF Index, TypeOK
  <2>3. indexer' \in [Indexers -> Running \cup {"unborn", "gone"}] /\ StartedOnce'
    BY <2>1, NotifyStarted DEF Index
  <2>4. QED
    BY <1>8, <2>2, <2>3 DEF Dispatch, mainElse, semaVars, TypeOK, ServerStates,
                             PollStates, QuitStates
<1>9. CASE Round
  BY <1>9 DEF Round, mainElse, semaVars, TypeOK, StartedOnce, Unborn, ServerStates,
              PollStates, QuitStates
<1>10. CASE RunInitialize
  <2>1. ~session.standalone /\ Head(batch) \in MessageIds /\ batch' \in Seq(MessageIds)
    BY <1>10 DEF RunInitialize, TypeOK, PollStates, QuitStates
  <2>2. /\ for_stdout' \in Seq(MessageIds)
        /\ stdout' \in {"take", "write", "wait", "held", "asleep", "gone"}
    BY <1>10, <2>1, ReplyType DEF RunInitialize, Initialize
  <2>3. indexer' \in [Indexers -> Running] /\ \A i \in Indexers : indexer'[i] = "parse"
    BY <1>10 DEF RunInitialize, Initialize, Running
  <2>4. Head(batch) \in Ids /\ session.script[Head(batch)] = "initialize"
    BY <1>10, <2>1 DEF RunInitialize, KindOf, MessageIds
  <2>5. StartedOnce'
    BY <2>3, <2>4 DEF StartedOnce, Unborn
  <2>6. QED
    BY <1>10, <2>1, <2>2, <2>3, <2>5 DEF RunInitialize, Initialize, Enter, mainElse,
                                         semaVars, TypeOK, ServerStates
<1>11. CASE RunRequest
  BY <1>11 DEF RunRequest, Reply, mainElse, semaVars, TypeOK, StartedOnce, Unborn, Woken
<1>12. CASE RunOpen
  <2>1. PICK r \in Requests, p \in BOOLEAN : Index(r, p)
    BY <1>12 DEF RunOpen, Requests
  <2>2. index_request' \in QueueOf(Requests) /\ enqueued' \in Nat
    BY <2>1, PushBackProperties DEF Index, TypeOK
  <2>3. indexer' \in [Indexers -> Running \cup {"unborn", "gone"}] /\ StartedOnce'
    BY <2>1, NotifyStarted DEF Index
  <2>4. QED
    BY <1>12, <2>2, <2>3 DEF RunOpen, mainElse, semaVars, TypeOK, ServerStates,
                             PollStates, QuitStates
<1>13. CASE RunComplete
  BY <1>13, SMTT(30) DEF RunComplete, mainElse, semaVars, TypeOK, StartedOnce, Unborn
<1>14. CASE RunExit
  BY <1>14 DEF RunExit, mainElse, semaVars, TypeOK, StartedOnce, Unborn
<1>15. CASE MessagesDone
  BY <1>15, ApplyClearProperties DEF MessagesDone, mainElse, semaVars, TypeOK,
                                     StartedOnce, Unborn, ServerStates, PollStates,
                                     QuitStates
<1>16. CASE ApplyUpdates
  BY <1>16 DEF ApplyUpdates, mainElse, semaVars, TypeOK, StartedOnce, Unborn,
               ServerStates, PollStates, QuitStates
<1>17. CASE MainWait
  BY <1>17 DEF MainWait, mainElse, queues, semaVars, TypeOK, StartedOnce, Unborn,
               ServerStates, PollStates, QuitStates
<1>18. CASE Poll
  BY <1>18 DEF Poll, mainElse, semaVars, TypeOK, StartedOnce, Unborn, ServerStates,
               PollStates, QuitStates
<1>19. CASE Quit
  BY <1>19 DEF Quit, mainElse, semaVars, TypeOK, StartedOnce, Unborn, QuitStates, MessageIds
<1>20. CASE QuitLock
  BY <1>20 DEF QuitLock, mainElse, queues, semaVars, TypeOK, StartedOnce, Unborn, QuitStates
<1>21. CASE QuitNotify
  BY <1>21 DEF QuitNotify, mainElse, queues, semaVars, TypeOK, StartedOnce, Unborn,
               QuitStates, NotifyAllIndexers, Woken, Running
<1>22. CASE Join
  BY <1>22 DEF Join, mainElse, queues, semaVars, TypeOK, StartedOnce, Unborn, QuitStates
<1>23. CASE Stdout
  <2>1. /\ for_stdout' \in Seq(MessageIds) /\ writing' \in Seq(MessageIds)
        /\ written' \in Seq(MessageIds)
    <3>1. /\ for_stdout \in Seq(MessageIds) /\ writing \in Seq(MessageIds)
          /\ written \in Seq(MessageIds) /\ <<>> \in Seq(MessageIds)
      BY EmptySeq DEF TypeOK
    <3>2. writing # <<>> => /\ Tail(writing) \in Seq(MessageIds)
                            /\ Append(written, Head(writing)) \in Seq(MessageIds)
      BY <3>1, HeadTailProperties, AppendProperties
    <3>3. QED
      BY <1>23, <3>1, <3>2 DEF Stdout, StdoutTake, StdoutWrite, StdoutWait, StdoutSleep
  <2>2. /\ stdout' \in {"take", "write", "wait", "held", "asleep", "gone"}
        /\ active_threads' \in Int
    BY <1>23 DEF Stdout, StdoutTake, StdoutWrite, StdoutWait, StdoutSleep, TypeOK, Leave
  <2>3. UNCHANGED stdoutElse
    BY <1>23 DEF Stdout, StdoutTake, StdoutWrite, StdoutWait, StdoutSleep
  <2>4. QED
    BY <2>1, <2>2, <2>3 DEF stdoutElse, semaVars, TypeOK, StartedOnce, Unborn
<1>24. ASSUME NEW t \in SemaThreads, Sema(t)
       PROVE  TypeOK' /\ StartedOnce'
  <2>1. UNCHANGED semaElse /\ (comp_tasks' = comp_tasks \/ (comp_tasks # <<>> /\ comp_tasks' = Tail(comp_tasks)))
    BY <1>24 DEF Sema, SemaLeave, CompDequeue, CompDrop, CompKeep, CompWork
  <2>2. comp_tasks' \in Seq(MessageIds)
    <3>1. comp_tasks \in Seq(MessageIds)
      BY DEF TypeOK
    <3>2. QED
      BY <2>1, <3>1, HeadTailProperties
  <2>3. task' \in MessageIds
    BY <1>24 DEF Sema, SemaLeave, CompDequeue, CompDrop, CompKeep, CompWork, TypeOK
  <2>4. NoReply \/ Reply(task)
    BY <1>24 DEF Sema, SemaLeave, CompDequeue, CompDrop, CompKeep, CompWork
  <2>5. /\ for_stdout' \in Seq(MessageIds)
        /\ stdout' \in {"take", "write", "wait", "held", "asleep", "gone"}
    BY <2>4, ReplyType DEF TypeOK
  <2>6. sema' \in [SemaThreads -> {"dequeue", "taken", "busy", "gone"}]
    BY <1>24 DEF Sema, SemaLeave, CompDequeue, CompDrop, CompKeep, CompWork, TypeOK
  <2>7. active_threads' \in Int /\ crashed' \in BOOLEAN
    <3>1. active_threads' \in {active_threads, Leave}
      BY <1>24 DEF Sema, SemaLeave, CompDequeue, CompDrop, CompKeep, CompWork
    <3>2. crashed' = crashed \/ crashed' = (task = 0)
      BY <1>24 DEF Sema, SemaLeave, CompDequeue, CompDrop, CompKeep, CompWork
    <3>3. active_threads' \in Int
      BY <3>1 DEF TypeOK, Leave
    <3>4. crashed' \in BOOLEAN
      BY <3>2, Zenon DEF TypeOK
    <3>5. QED
      BY <3>3, <3>4
  <2>8. QED
    BY <2>1, <2>2, <2>3, <2>5, <2>6, <2>7 DEF semaElse, TypeOK, StartedOnce, Unborn
<1>25. ASSUME NEW i \in Indexers, IndexerPop(i)
       PROVE  TypeOK' /\ StartedOnce'
  <2>1. index_request' \in QueueOf(Requests)
    BY <1>25, PopFrontProperties, ZenonT(30) DEF IndexerPop, TypeOK
  <2>2. PICK v \in Running : indexer' = [indexer EXCEPT ![i] = v]
    <3>1. CanPop(index_request) => Front(index_request) \in Requests
      BY PopFrontProperties DEF TypeOK
    <3>2. QED
      BY <1>25, <3>1 DEF IndexerPop, Running, Requests
  <2>3. indexer[i] # "unborn"
    BY <1>25 DEF IndexerPop
  <2>4. indexer' \in [Indexers -> Running \cup {"unborn", "gone"}] /\ StartedOnce'
    BY <2>2, <2>3, IndexerSet
  <2>5. QED
    BY <1>25, <2>1, <2>4 DEF IndexerPop, indexerElse, semaVars, TypeOK, Woken,
                             ServerStates, PollStates, QuitStates
<1>26. ASSUME NEW i \in Indexers, IndexerDone(i)
       PROVE  TypeOK' /\ StartedOnce'
  <2>1. PICK v \in Running : indexer' = [indexer EXCEPT ![i] = v]
    BY <1>26 DEF IndexerDone, Running
  <2>2. indexer[i] # "unborn"
    BY <1>26 DEF IndexerDone, Working
  <2>3. indexer' \in [Indexers -> Running \cup {"unborn", "gone"}] /\ StartedOnce'
    BY <2>1, <2>2, IndexerSet
  <2>4. QED
    BY <1>26, <2>3 DEF IndexerDone, indexerElse, semaVars, TypeOK, Woken,
                       ServerStates, PollStates, QuitStates
<1>27. ASSUME NEW i \in Indexers, IndexerFailed(i)
       PROVE  TypeOK' /\ StartedOnce'
  <2>1. indexer' = [indexer EXCEPT ![i] = "parse"] /\ "parse" \in Running
    BY <1>27 DEF IndexerFailed, Running
  <2>2. indexer[i] # "unborn"
    BY <1>27 DEF IndexerFailed, Working
  <2>3. /\ indexer' \in [Indexers -> Running \cup {"unborn", "gone"}] /\ StartedOnce'
        /\ ~Unborn
    BY <2>1, <2>2, IndexerSet
  <2>4. HasId(indexer[i]) => InitId \in MessageIds
    BY <2>3 DEF HasId, InitId, StartedOnce, MessageIds
  <2>5. /\ for_stdout' \in Seq(MessageIds)
        /\ stdout' \in {"take", "write", "wait", "held", "asleep", "gone"}
    <3>1. 0 \in MessageIds
      BY DEF MessageIds
    <3>2. \E id \in MessageIds : Reply(id) \/ NoReply
      BY <1>27, <2>4, <3>1 DEF IndexerFailed
    <3>3. QED
      BY <3>2, ReplyType
  <2>6. QED
    BY <1>27, <2>3, <2>5 DEF IndexerFailed, indexerElse, semaVars, TypeOK
<1>28. ASSUME NEW i \in Indexers, IndexerWait(i) \/ IndexerSleep(i)
       PROVE  TypeOK' /\ StartedOnce'
  <2>1. PICK v \in Running \cup {"gone"} : indexer' = [indexer EXCEPT ![i] = v]
    BY <1>28 DEF IndexerWait, IndexerSleep, Running
  <2>2. indexer[i] # "unborn"
    BY <1>28 DEF IndexerWait, IndexerSleep
  <2>3. indexer' \in [Indexers -> Running \cup {"unborn", "gone"}] /\ StartedOnce'
    BY <2>1, <2>2, IndexerSet
  <2>4. active_threads' \in Int
    BY <1>28 DEF IndexerWait, IndexerSleep, Leave, TypeOK
  <2>5. UNCHANGED <<session, sent, stdin, on_request, comp_tasks, batch, did_work, writing,
                    written, semaVars, enqueued, g_quit, crashed, index_request, on_indexed,
                    main, for_stdout, stdout, completed, failed>>
    BY <1>28 DEF IndexerWait, IndexerSleep, indexerElse
  <2>6. QED
    BY <2>3, <2>4, <2>5 DEF semaVars, TypeOK
<1>29. QED
  BY <1>4, <1>5, <1>6, <1>7, <1>8, <1>9, <1>10, <1>11, <1>12, <1>13, <1>14, <1>15,
     <1>16, <1>17, <1>18, <1>19, <1>20, <1>21, <1>22, <1>23, <1>24, <1>25, <1>26,
     <1>27, <1>28 DEF Next, Stdin, Main, Indexer

-----------------------------------------------------------------------------
(* The threads of indexer_Main and their queue: the steps that touch        *)
(* neither, and the others.                                                 *)
IndexersUntouched == UNCHANGED <<session, indexer, index_request, g_quit>>

(* The steps that may change an indexer, index_request or g_quit are these: *)
(* the handlers that enqueue requests, the steps of quit, and the indexers' *)
(* own.                                                                     *)
LEMMA IndexerSteps ==
  ASSUME [Next]_vars
  PROVE  \/ IndexersUntouched
         \/ StandaloneInitialize \/ RunInitialize
         \/ Dispatch \/ RunOpen
         \/ RunExit \/ Quit
         \/ MessagesDone /\ g_quit
         \/ QuitNotify /\ indexer' = NotifyAllIndexers
         \/ \E i \in Indexers : Indexer(i)
<1>1. CASE UNCHANGED vars
  BY <1>1 DEF vars, queues, IndexersUntouched
<1>2. CASE Stdin
  BY <1>2 DEF Stdin, StdinMessage, StdinQuit, stdinElse, IndexersUntouched
<1>3. CASE Stdout
  BY <1>3 DEF Stdout, StdoutTake, StdoutWrite, StdoutWait, StdoutSleep, stdoutElse,
              IndexersUntouched
<1>4. ASSUME NEW t \in SemaThreads, Sema(t)
      PROVE  IndexersUntouched
  BY <1>4 DEF Sema, SemaLeave, CompDequeue, CompDrop, CompKeep, CompWork, semaElse,
              IndexersUntouched
<1>5. CASE Round \/ RunRequest \/ RunComplete \/ ApplyUpdates \/ MainWait \/ Poll
           \/ QuitLock \/ Join
  BY <1>5 DEF Round, RunRequest, RunComplete, ApplyUpdates, MainWait, Poll, QuitLock,
              Join, mainElse, queues, IndexersUntouched
<1>6. CASE MessagesDone /\ ~g_quit
  BY <1>6 DEF MessagesDone, mainElse, IndexersUntouched
<1>7. CASE QuitNotify
  BY <1>7 DEF QuitNotify, mainElse, queues, IndexersUntouched
<1>8. QED
  BY <1>1, <1>2, <1>3, <1>4, <1>5, <1>6, <1>7 DEF Next, Main

(* When one indexer changes its state, the number of those in a set of      *)
(* states changes accordingly.                                              *)
LEMMA OneIndexer ==
  ASSUME TypeOK, session' = session, NEW i \in Indexers, NEW v,
         indexer' = [indexer EXCEPT ![i] = v], NEW P
  PROVE  /\ Cardinality({j \in Indexers : indexer'[j] \in P}) =
              Cardinality({j \in Indexers : indexer[j] \in P})
                - Bit(indexer[i] \in P) + Bit(v \in P)
         /\ Cardinality({j \in Indexers : indexer[j] \in P}) \in Nat
         /\ Cardinality({j \in Indexers : indexer'[j] \in P}) \in Nat
         /\ Cardinality({j \in Indexers : indexer[j] \in P}) >= Bit(indexer[i] \in P)
<1> DEFINE S == {j \in Indexers : indexer[j] \in P}
           T == {j \in Indexers : indexer'[j] \in P}
<1>1. /\ IsFiniteSet(Indexers)
      /\ indexer'[i] = v /\ \A j \in Indexers : j # i => indexer'[j] = indexer[j]
  BY SessionFacts DEF TypeOK
<1>2. IsFiniteSet(S) /\ IsFiniteSet(T)
  BY <1>1, FS_Subset
<1>3. S \ {i} = T \ {i}
  BY <1>1
<1>4. (i \in S <=> indexer[i] \in P) /\ (i \in T <=> v \in P)
  BY <1>1
<1>5. Bit(i \in S) = Bit(indexer[i] \in P) /\ Bit(i \in T) = Bit(v \in P)
  BY <1>4 DEF Bit
<1> HIDE DEF S, T
<1>6. /\ Cardinality(T) = Cardinality(S) - Bit(i \in S) + Bit(i \in T)
      /\ Cardinality(S) \in Nat /\ Cardinality(T) \in Nat
      /\ Cardinality(S) >= Bit(i \in S)
  BY <1>2, <1>3, CardinalityChange
<1>7. QED
  BY <1>5, <1>6 DEF S, T

(* NoLostWakeUp holds of the start.                                         *)
LEMMA InitWakeUp == Init => NoLostWakeUp
<1> SUFFICES ASSUME Init PROVE NoLostWakeUp
  OBVIOUS
<1>1. /\ index_request.total = 0 /\ Contents(index_request) = <<>>
  BY EmptyQueueProperties DEF Init
<1>2. Asleep = {} /\ IndexMutexFree
  BY DEF Init, Asleep, IndexMutexFree
<1>3. QED
  BY <1>1, <1>2 DEF NoLostWakeUp

(* No step loses a wake-up: a push wakes a sleeper, who becomes free for    *)
(* the request; a thread that takes a request is no longer free; and one    *)
(* goes to sleep only under the mutex, with the queue empty.                *)
LEMMA NextWakeUp ==
  ASSUME TypeOK, StartedOnce, NoLostWakeUp, [Next]_vars
  PROVE  NoLostWakeUp'
<1> DEFINE n == session.threads
           len == Len(Contents(index_request))
<1>1. session' = session /\ Indexers' = Indexers
  BY SameSession DEF Indexers
<1>2. /\ n \in Nat /\ Indexers = 1 .. n /\ IsFiniteSet(Indexers)
      /\ index_request \in QueueOf(Requests)
      /\ indexer \in [Indexers -> Running \cup {"unborn", "gone"}]
  BY SessionFacts DEF TypeOK, Indexers
<1>3. TypeOK'
  BY NextType
<1>4. /\ Contents(index_request) \in Seq(Requests) /\ len \in Nat
  <2>1. index_request.priority \in Seq(Requests) /\ index_request.queue \in Seq(Requests)
    BY <1>2 DEF QueueOf
  <2>2. QED
    BY <2>1, ConcatProperties, LenProperties DEF Contents
<1>5. Cardinality(Free) \in Nat /\ Cardinality(Free') \in Nat
  <2>1. IsFiniteSet(Free) /\ IsFiniteSet(Free')
    BY <1>1, <1>2, FS_Subset DEF Free
  <2>2. QED
    BY <2>1, FS_CardinalityType
<1> HIDE DEF n, len
<1>6. CASE IndexersUntouched
  BY <1>6 DEF IndexersUntouched, NoLostWakeUp, IndexMutexFree, Asleep, Free, Indexers
<1>7. CASE RunExit \/ Quit \/ (MessagesDone /\ g_quit)
  BY <1>7 DEF RunExit, Quit, MessagesDone, NoLostWakeUp
<1>8. CASE StandaloneInitialize \/ RunInitialize
  <2>1. /\ index_request' = index_request /\ g_quit' = g_quit
        /\ indexer' = [i \in Indexers |-> "parse"]
    BY <1>8 DEF StandaloneInitialize, RunInitialize, Initialize
  <2>2. Asleep' = {} /\ IndexMutexFree'
    BY <1>1, <2>1 DEF Asleep, IndexMutexFree
  <2>3. QED
    BY <2>1, <2>2 DEF NoLostWakeUp
<1>9. CASE QuitNotify /\ indexer' = NotifyAllIndexers
  <2>1. index_request' = index_request /\ g_quit' = g_quit
    BY <1>9 DEF QuitNotify, queues, mainElse
  <2>2. Asleep' = {} /\ (IndexMutexFree => IndexMutexFree')
    BY <1>1, <1>2, <1>9 DEF Asleep, IndexMutexFree, NotifyAllIndexers
  <2>3. QED
    BY <2>1, <2>2 DEF NoLostWakeUp
<1>10. CASE Dispatch \/ RunOpen
  <2>1. PICK r \in Requests, p \in BOOLEAN : Index(r, p)
    BY <1>10 DEF Dispatch, RunOpen, Requests
  <2>2. g_quit' = g_quit /\ IndexMutexFree
    BY <1>10 DEF Dispatch, RunOpen, Index
  <2>3. /\ Len(Contents(index_request')) = len + 1
        /\ index_request'.total = index_request.total + 1
    BY <1>2, <2>1, PushBackProperties DEF Index, len
  <2>4. CASE Asleep = {} /\ indexer' = indexer
    <3>1. Asleep' = {} /\ IndexMutexFree'
      BY <1>1, <2>2, <2>4 DEF Asleep, IndexMutexFree
    <3>2. QED
      BY <1>4, <2>2, <2>3, <3>1 DEF NoLostWakeUp, len
  <2>5. ASSUME NEW i \in Asleep, indexer' = [indexer EXCEPT ![i] = "wait"]
        PROVE  NoLostWakeUp'
    <3>1. /\ i \in 1 .. n /\ indexer[i] = "asleep" /\ indexer'[i] = "wait"
          /\ \A j \in 1 .. n : j # i => indexer'[j] = indexer[j]
      BY <1>2, <2>5 DEF Asleep
    <3>2. Cardinality(Free') = Cardinality(Free) + 1
      <4>1. i \in Indexers
        BY <1>2, <3>1
      <4>2. Cardinality(Free') = Cardinality(Free) - Bit(indexer[i] \in {"parse", "wait"})
                                   + Bit("wait" \in {"parse", "wait"})
        BY <1>1, <2>5, <4>1, OneIndexer DEF Free
      <4>3. /\ Bit(indexer[i] \in {"parse", "wait"}) = 0
            /\ Bit("wait" \in {"parse", "wait"}) = 1
        BY <3>1 DEF Bit
      <4>4. QED
        BY <1>5, <4>2, <4>3
    <3>3. IndexMutexFree'
      BY <1>1, <1>2, <2>2, <3>1 DEF IndexMutexFree
    <3>4. Asleep # {}
      BY <2>5
    <3>5. QED
      BY <1>4, <1>5, <2>2, <2>3, <3>2, <3>3, <3>4 DEF NoLostWakeUp, len
  <2>6. QED
    BY <2>1, <2>4, <2>5, NotifyOneProperties DEF Index
<1>11. ASSUME NEW i \in Indexers, Indexer(i)
       PROVE  NoLostWakeUp'
  <2>1. g_quit' = g_quit
    BY <1>11 DEF Indexer, IndexerPop, IndexerDone, IndexerFailed, IndexerWait,
                 IndexerSleep, indexerElse
  <2> SUFFICES ASSUME ~g_quit PROVE NoLostWakeUp'
    BY <2>1 DEF NoLostWakeUp
  <2>2. PICK v : indexer' = [indexer EXCEPT ![i] = v]
    BY <1>11 DEF Indexer, IndexerPop, IndexerDone, IndexerFailed, IndexerWait, IndexerSleep
  <2>3. /\ i \in 1 .. n /\ indexer'[i] = v
        /\ \A j \in 1 .. n : j # i => indexer'[j] = indexer[j]
    BY <1>2, <2>2
  <2>4. Cardinality(Free') = Cardinality(Free) - Bit(indexer[i] \in {"parse", "wait"})
                               + Bit(v \in {"parse", "wait"})
    BY <1>1, <2>2, OneIndexer DEF Free
  <2>5. /\ v # "asleep" => Asleep' \subseteq Asleep
        /\ v # "held" /\ IndexMutexFree => IndexMutexFree'
    BY <1>1, <1>2, <2>3 DEF Asleep, IndexMutexFree
  <2>6. CASE IndexerPop(i)
    <3>1. IndexMutexFree /\ indexer[i] = "parse" /\ Bit(indexer[i] \in {"parse", "wait"}) = 1
      BY <2>6 DEF IndexerPop, Bit
    <3>2. CASE CanPop(index_request)
      <4>1. /\ Len(Contents(index_request')) = len - 1
            /\ index_request'.total = index_request.total - 1
            /\ Front(index_request) \in Requests
        BY <1>2, <2>6, <3>2, PopFrontProperties DEF IndexerPop, len
      <4>2. v \notin {"held", "asleep"}
        BY <1>2, <2>3, <2>6, <3>2, <4>1 DEF IndexerPop, Requests
      <4>3. Bit(v \in {"parse", "wait"}) \in {0, 1}
        BY DEF Bit
      <4>4. QED
        BY <1>4, <1>5, <2>1, <2>4, <2>5, <3>1, <4>1, <4>2, <4>3 DEF NoLostWakeUp, len
    <3>3. CASE ~CanPop(index_request)
      <4>1. v = "wait" /\ index_request' = index_request
        BY <1>2, <2>3, <2>6, <3>3 DEF IndexerPop
      <4>2. Bit(v \in {"parse", "wait"}) = 1
        BY <4>1 DEF Bit
      <4>3. QED
        BY <1>4, <1>5, <2>1, <2>4, <2>5, <3>1, <4>1, <4>2 DEF NoLostWakeUp, len
    <3>4. QED
      BY <3>2, <3>3
  <2>7. CASE IndexerDone(i) \/ IndexerFailed(i)
    <3>1. /\ indexer[i] \in {"initial", "open"} /\ v \in {"parse", "wait"}
          /\ index_request' = index_request
      BY <1>2, <2>3, <2>7 DEF IndexerDone, IndexerFailed, Working
    <3>2. Bit(v \in {"parse", "wait"}) = 1 /\ Bit(indexer[i] \in {"parse", "wait"}) = 0
      BY <3>1 DEF Bit
    <3>3. IndexMutexFree' <=> IndexMutexFree
      BY <1>1, <1>2, <2>3, <3>1 DEF IndexMutexFree
    <3>4. QED
      BY <1>4, <1>5, <2>1, <2>4, <2>5, <3>1, <3>2, <3>3 DEF NoLostWakeUp, len
  <2>8. CASE IndexerWait(i)
    <3>1. /\ indexer[i] = "wait" /\ index_request' = index_request /\ IndexMutexFree
          /\ v = IF IsEmpty(index_request) THEN "held" ELSE "parse"
      BY <1>2, <2>3, <2>8 DEF IndexerWait, IndexerMaySleep
    <3>2. CASE IsEmpty(index_request)
      <4>1. len = 0 /\ Contents(index_request) = <<>>
        BY <1>4, <3>2 DEF NoLostWakeUp, IsEmpty, len
      <4>2. QED
        BY <1>4, <1>5, <2>1, <3>1, <4>1 DEF NoLostWakeUp, len
    <3>3. CASE ~IsEmpty(index_request)
      <4>1. Bit(v \in {"parse", "wait"}) = 1 /\ Bit(indexer[i] \in {"parse", "wait"}) = 1
        BY <3>1, <3>3 DEF Bit
      <4>2. QED
        BY <1>4, <1>5, <2>1, <2>4, <2>5, <3>1, <3>3, <4>1 DEF NoLostWakeUp, len
    <3>4. QED
      BY <3>2, <3>3
  <2>9. CASE IndexerSleep(i)
    <3>1. index_request' = index_request /\ ~IndexMutexFree
      BY <1>2, <2>9 DEF IndexerSleep, IndexMutexFree
    <3>2. Contents(index_request) = <<>> /\ len = 0
      BY <3>1 DEF NoLostWakeUp, len
    <3>3. QED
      BY <1>5, <2>1, <3>1, <3>2 DEF NoLostWakeUp, len
  <2>10. QED
    BY <1>11, <2>6, <2>7, <2>8, <2>9 DEF Indexer
<1>12. QED
  BY <1>6, <1>7, <1>8, <1>9, <1>10, <1>11, IndexerSteps

(* WakeUp: while an indexer sleeps, and until exit, every request in        *)
(* index_request has an indexer of its own that is awake and free.          *)
THEOREM NoWakeUpLost == Spec => []WakeUp
<1>1. Init => TypeOK /\ StartedOnce /\ NoLostWakeUp
  BY InitType, InitWakeUp
<1>2. TypeOK /\ StartedOnce /\ NoLostWakeUp /\ [Next]_vars
        => (TypeOK /\ StartedOnce /\ NoLostWakeUp)'
  BY NextType, NextWakeUp
<1>3. NoLostWakeUp => WakeUp
  BY DEF NoLostWakeUp, WakeUp
<1>4. QED
  BY <1>1, <1>2, <1>3, PTL DEF Spec

-----------------------------------------------------------------------------
(* The messages that wait for the main thread: what a step does to them.    *)
Run == RunInitialize \/ RunRequest \/ RunOpen \/ RunComplete \/ RunExit

(* A message is added at the back by the stdin thread, and taken from the   *)
(* front by the main thread when it runs its handler; nothing else moves    *)
(* one.                                                                     *)
LEMMA PendingSteps ==
  ASSUME TypeOK, PendingInOrder, [Next]_vars
  PROVE  /\ Pending \in Seq(MessageIds)
         /\ \/ sent' = sent /\ Pending' = Pending /\ ~Run
            \/ StdinMessage /\ Pending' = Pending /\ sent' = sent + 1
                 /\ session.script[sent'] = "response"
            \/ StdinMessage /\ Pending' = Append(Pending, sent') /\ sent' = sent + 1
            \/ StdinQuit /\ Pending' = Append(Pending, 0) /\ sent' \in {sent, sent + 1}
                 /\ (sent' # sent => session.script[sent'] = "invalid")
            \/ /\ Run /\ batch # <<>> /\ Pending # <<>>
               /\ Head(Pending) = Head(batch) /\ Head(batch) \in MessageIds
               /\ Pending' = Tail(Pending) /\ sent' = sent
<1>1. /\ batch \in Seq(MessageIds) /\ on_request \in Seq(MessageIds)
      /\ sent \in MessageIds /\ Len(session.script) \in Nat
  BY SessionFacts DEF TypeOK
<1>2. Pending \in Seq(MessageIds)
  BY <1>1, ConcatProperties DEF Pending
<1>3. CASE UNCHANGED <<sent, batch, on_request>> /\ ~Run
  BY <1>2, <1>3 DEF Pending
<1>4. CASE Round
  <2>1. batch = <<>> /\ batch' = on_request /\ on_request' = <<>> /\ sent' = sent
    BY <1>4 DEF Round, PendingInOrder, mainElse
  <2>2. on_request \o <<>> = on_request /\ <<>> \o on_request = on_request
    BY <1>1, ConcatEmptySeq
  <2>3. ~Run
    BY <1>4 DEF Round, Run, RunInitialize, RunRequest, RunOpen, RunComplete, RunExit
  <2>4. QED
    BY <1>2, <2>1, <2>2, <2>3 DEF Pending
<1>5. ASSUME NEW x \in MessageIds, batch' = batch, on_request' = Append(on_request, x)
      PROVE  Pending' = Append(Pending, x)
  <2>1. /\ Append(on_request, x) = on_request \o <<x>> /\ <<x>> \in Seq(MessageIds)
        /\ Append(Pending, x) = Pending \o <<x>>
    BY <1>1, <1>2, AppendIsConcat
  <2>2. batch \o (on_request \o <<x>>) = (batch \o on_request) \o <<x>>
    BY <1>1, <2>1, ConcatAssociative
  <2>3. QED
    BY <1>5, <2>1, <2>2, Zenon DEF Pending
<1>6. CASE StdinMessage
  <2>1. /\ sent' = sent + 1 /\ batch' = batch /\ sent' \in MessageIds
        /\ IF session.script[sent'] = "response"
             THEN on_request' = on_request ELSE on_request' = Append(on_request, sent')
    BY <1>1, <1>6 DEF StdinMessage, stdinElse, ClientReady, MessageIds
  <2>2. CASE session.script[sent'] = "response"
    <3>1. Pending' = Pending
      BY <2>1, <2>2 DEF Pending
    <3>2. QED
      BY <1>2, <1>6, <2>1, <2>2, <3>1
  <2>3. CASE session.script[sent'] # "response"
    BY <1>2, <1>5, <1>6, <2>1, <2>3
  <2>4. QED
    BY <2>2, <2>3
<1>7. CASE StdinQuit
  <2>1. /\ sent' \in {sent, sent + 1} /\ batch' = batch /\ 0 \in MessageIds
        /\ on_request' = Append(on_request, 0)
        /\ (sent' # sent => session.script[sent'] = "invalid")
    BY <1>1, <1>7 DEF StdinQuit, stdinElse, MessageIds
  <2>2. QED
    BY <1>2, <1>5, <1>7, <2>1
<1>8. CASE Run
  <2>1. batch # <<>> /\ batch' = Tail(batch) /\ on_request' = on_request /\ sent' = sent
    BY <1>8 DEF Run, RunInitialize, RunRequest, RunOpen, RunComplete, RunExit, mainElse
  <2>2. Tail(batch) \o on_request = Tail(batch \o on_request)
    BY <1>1, <2>1, TailConcat
  <2>3. Pending # <<>> /\ Head(Pending) = Head(batch) /\ Head(batch) \in MessageIds
    BY <1>1, <2>1 DEF Pending
  <2>4. QED
    BY <1>2, <1>8, <2>1, <2>2, <2>3 DEF Pending
<1>9. CASE UNCHANGED vars
  BY <1>3, <1>9, <1>8 DEF vars, queues
<1>10. CASE Stdout
  <2>1. UNCHANGED <<sent, batch, on_request>>
    BY <1>10 DEF Stdout, StdoutTake, StdoutWrite, StdoutWait, StdoutSleep, stdoutElse
  <2>2. QED
    BY <1>3, <1>8, <2>1
<1>11. CASE \E t \in SemaThreads : Sema(t)
  <2>1. UNCHANGED <<sent, batch, on_request>>
    BY <1>11 DEF Sema, SemaLeave, CompDequeue, CompDrop, CompKeep, CompWork, semaElse
  <2>2. QED
    BY <1>3, <1>8, <2>1
<1>12. CASE \E i \in Indexers : Indexer(i)
  <2>1. UNCHANGED <<sent, batch, on_request>>
    BY <1>12 DEF Indexer, IndexerPop, IndexerDone, IndexerFailed, IndexerWait,
                 IndexerSleep, indexerElse
  <2>2. QED
    BY <1>3, <1>8, <2>1
<1>13. CASE Main
  <2>1. CASE \/ StandaloneInitialize \/ Dispatch \/ MessagesDone \/ ApplyUpdates
             \/ MainWait \/ Poll \/ Quit \/ QuitLock \/ QuitNotify \/ Join
    <3>1. UNCHANGED <<sent, batch, on_request>>
      BY <2>1 DEF StandaloneInitialize, Dispatch, MessagesDone, ApplyUpdates, MainWait,
                  Poll, Quit, QuitLock, QuitNotify, Join, mainElse, queues
    <3>2. QED
      BY <1>3, <1>8, <3>1
  <2>2. QED
    BY <1>4, <1>8, <1>13, <2>1 DEF Main, Run
<1>14. QED
  BY <1>6, <1>7, <1>9, <1>10, <1>11, <1>12, <1>13 DEF Next, Stdin

(* No indexer exists at first, and only initialize makes them.              *)
LEMMA UnbornSteps ==
  ASSUME TypeOK, StartedOnce, [Next]_vars
  PROVE  \/ Unborn' <=> Unborn
         \/ StandaloneInitialize /\ ~Unborn'
         \/ RunInitialize /\ ~Unborn'
<1>1. session' = session /\ Indexers' = Indexers /\ 1 \in Indexers
  BY SameSession, SessionFacts DEF Indexers, TypeOK
<1>2. CASE indexer' = indexer
  BY <1>1, <1>2 DEF Unborn
<1>3. CASE StandaloneInitialize \/ RunInitialize
  BY <1>1, <1>3 DEF StandaloneInitialize, RunInitialize, Initialize, Unborn
<1>4. CASE Dispatch \/ RunOpen
  BY <1>1, <1>4, NotifyStarted DEF Dispatch, RunOpen, Index
<1>5. CASE RunExit \/ Quit \/ MessagesDone
  BY <1>2, <1>5 DEF RunExit, Quit, MessagesDone
<1>6. CASE indexer' = NotifyAllIndexers
  BY <1>1, <1>6 DEF NotifyAllIndexers, Unborn
<1>7. ASSUME NEW i \in Indexers, Indexer(i)
      PROVE  Unborn' <=> Unborn
  <2>1. indexer[i] # "unborn"
    BY <1>7 DEF Indexer, IndexerPop, IndexerDone, IndexerFailed, IndexerWait,
                IndexerSleep, Working
  <2>2. CanPop(index_request) => Front(index_request) \in Requests
    BY PopFrontProperties DEF TypeOK
  <2>3. \E v \in Running \cup {"gone"} : indexer' = [indexer EXCEPT ![i] = v]
    BY <1>7, <2>2 DEF Indexer, IndexerPop, IndexerDone, IndexerFailed, IndexerWait,
                      IndexerSleep, Running, Requests
  <2>4. QED
    BY <1>1, <2>1, <2>3, IndexerSet
<1>8. QED
  BY <1>2, <1>3, <1>4, <1>5, <1>6, <1>7, IndexerSteps DEF IndexersUntouched

(* The order of the messages is kept.                                       *)
LEMMA InitPending == Init => PendingInOrder
<1> SUFFICES ASSUME Init PROVE PendingInOrder
  OBVIOUS
<1>1. Pending = <<>>
  BY DEF Init, Pending
<1>2. Unborn
  BY DEF Init, Unborn
<1>3. QED
  BY <1>1, <1>2 DEF Init, PendingInOrder

(* So what waits is in the order in which it was read, and while an         *)
(* initialize is among it no indexer was started.                           *)
LEMMA NextPending ==
  ASSUME TypeOK, StartedOnce, PendingInOrder, [Next]_vars
  PROVE  PendingInOrder'
<1>1. session' = session /\ Ids' = Ids
  BY SameSession DEF Ids
<1>2. /\ Len(session.script) \in Nat /\ sent \in Nat /\ sent <= Len(session.script)
      /\ Ids = 1 .. Len(session.script)
  BY SessionFacts DEF TypeOK, MessageIds
<1>3. /\ Pending \in Seq(MessageIds) /\ Len(Pending) \in Nat
      /\ DOMAIN Pending = 1 .. Len(Pending)
      /\ \A n \in DOMAIN Pending : Pending[n] \in Nat
  BY PendingSteps, LenProperties, ElementOfSeq DEF MessageIds
<1>4. (session.standalone \/ main \notin {"messages", "dispatch"} => batch = <<>>)'
  <2>1. CASE UNCHANGED vars
    BY <2>1 DEF vars, PendingInOrder
  <2>2. CASE Stdin
    BY <2>2 DEF Stdin, StdinMessage, StdinQuit, stdinElse, Woken, PendingInOrder
  <2>3. CASE Main
    <3>1. CASE Round \/ RunInitialize \/ RunRequest \/ RunOpen \/ RunComplete \/ RunExit
      <4>1. main' \in {"messages", "dispatch"}
        BY <3>1 DEF Initialize, Round, RunInitialize, RunRequest, RunOpen, RunComplete,
                    RunExit
      <4>2. ~session.standalone
        BY <3>1 DEF Round, RunInitialize, RunRequest, RunOpen, RunComplete, RunExit,
                    TypeOK, PollStates, QuitStates
      <4>3. QED
        BY <1>1, <4>1, <4>2
    <3>2. CASE MessagesDone
      BY <3>2 DEF MessagesDone
    <3>5. CASE StandaloneInitialize
      BY <1>1, <3>5 DEF StandaloneInitialize, PendingInOrder
    <3>6. CASE Dispatch
      BY <1>1, <3>6 DEF Dispatch, PendingInOrder
    <3>3. CASE ApplyUpdates \/ MainWait \/ Poll \/ Quit \/ QuitLock \/ QuitNotify \/ Join
      <4>1. batch' = batch /\ main \notin {"messages", "dispatch"}
        BY <3>3 DEF ApplyUpdates, MainWait, Poll, Quit, QuitLock, QuitNotify, Join
      <4>2. QED
        BY <4>1 DEF PendingInOrder
    <3>4. QED
      BY <2>3, <3>1, <3>2, <3>3, <3>5, <3>6 DEF Main
  <2>4. CASE Stdout
    BY <2>4 DEF Stdout, StdoutTake, StdoutWrite, StdoutWait, StdoutSleep, stdoutElse,
                PendingInOrder
  <2>5. CASE \E t \in SemaThreads : Sema(t)
    BY <2>5 DEF Sema, SemaLeave, CompDequeue, CompDrop, CompKeep, CompWork, semaElse,
                PendingInOrder
  <2>6. CASE \E i \in Indexers : Indexer(i)
    BY <2>6 DEF Indexer, IndexerPop, IndexerDone, IndexerFailed, IndexerWait,
                IndexerSleep, indexerElse, Woken, PendingInOrder
  <2>7. QED
    BY <2>1, <2>2, <2>3, <2>4, <2>5, <2>6 DEF Next
<1> DEFINE Ordered(p, n) ==
      /\ \A j \in DOMAIN p : p[j] <= n
      /\ \A j, k \in DOMAIN p : j < k => p[k] = 0 \/ p[j] < p[k]
<1>5. Ordered(Pending', sent')
  <2>1. Ordered(Pending, sent)
    BY DEF PendingInOrder
  <2>2. ASSUME NEW x \in MessageIds, NEW n \in Nat, n >= sent, x = 0 \/ (x > sent /\ x <= n)
        PROVE  Ordered(Append(Pending, x), n)
    <3>1. /\ DOMAIN Append(Pending, x) = 1 .. Len(Pending) + 1
          /\ \A j \in 1 .. Len(Pending) : Append(Pending, x)[j] = Pending[j]
          /\ Append(Pending, x)[Len(Pending) + 1] = x
      BY <1>3
    <3>2. x \in Nat
      BY DEF MessageIds
    <3>3. QED
      BY <1>2, <1>3, <2>1, <2>2, <3>1, <3>2
  <2>3. Pending # <<>> => Ordered(Tail(Pending), sent)
    <3>1. Pending # <<>> =>
            /\ DOMAIN Tail(Pending) = 1 .. Len(Pending) - 1
            /\ \A j \in 1 .. Len(Pending) - 1 : Tail(Pending)[j] = Pending[j + 1]
      BY <1>3
    <3>2. QED
      BY <1>3, <2>1, <3>1
  <2>4. \A n \in Nat : n >= sent => Ordered(Pending, n)
    BY <1>2, <1>3, <2>1
  <2> HIDE DEF Ordered
  <2>5. sent' \in Nat /\ sent' \in {sent, sent + 1} /\ sent + 1 \in Nat
    BY <1>2, PendingSteps
  <2>6. StdinMessage => sent' \in MessageIds
    BY <1>2 DEF StdinMessage, ClientReady, MessageIds
  <2>7. 0 \in MessageIds
    BY <1>2 DEF MessageIds
  <2>8. CASE StdinMessage /\ Pending' = Append(Pending, sent') /\ sent' = sent + 1
    <3>1. sent' > sent /\ sent' <= sent' /\ sent' >= sent
      BY <1>2, <2>5, <2>8
    <3>2. Ordered(Append(Pending, sent'), sent')
      BY <2>2, <2>5, <2>6, <2>8, <3>1
    <3>3. QED
      BY <2>8, <3>2
  <2>9. CASE StdinQuit /\ Pending' = Append(Pending, 0)
    <3>1. sent' >= sent
      BY <1>2, <2>5
    <3>2. Ordered(Append(Pending, 0), sent')
      BY <2>2, <2>5, <2>7, <3>1
    <3>3. QED
      BY <2>9, <3>2
  <2>10. CASE Pending' = Pending
    <3>1. sent' >= sent
      BY <1>2, <2>5
    <3>2. Ordered(Pending, sent')
      BY <2>4, <2>5, <3>1
    <3>3. QED
      BY <2>10, <3>2
  <2>11. CASE Pending # <<>> /\ Pending' = Tail(Pending) /\ sent' = sent
    BY <2>3, <2>11
  <2>12. QED
    BY <2>8, <2>9, <2>10, <2>11, PendingSteps
<1>6. ASSUME ~session.standalone, NEW k \in Ids, session.script[k] = "initialize",
             k > sent' \/ (\E j \in DOMAIN Pending' : Pending'[j] = k)
      PROVE  Unborn'
  <2>1. k \in Nat /\ k # 0
    BY <1>2
  <2>2. k > sent \/ (\E j \in DOMAIN Pending : Pending[j] = k)
    <3>1. CASE k > sent'
      BY <1>2, <2>1, <3>1, PendingSteps
    <3>2. CASE \E j \in DOMAIN Pending' : Pending'[j] = k
      <4>1. ASSUME NEW x \in MessageIds, Pending' = Append(Pending, x), x \in {0, sent + 1}
            PROVE  k > sent \/ (\E j \in DOMAIN Pending : Pending[j] = k)
        BY <1>2, <1>3, <2>1, <3>2, <4>1
      <4>2. ASSUME Pending # <<>>, Pending' = Tail(Pending)
            PROVE  \E j \in DOMAIN Pending : Pending[j] = k
        BY <1>3, <3>2, <4>2
      <4>3. StdinMessage => sent' \in MessageIds
        BY <1>2 DEF StdinMessage, ClientReady, MessageIds
      <4>4. 0 \in MessageIds
        BY <1>2 DEF MessageIds
      <4>5. QED
        BY <3>2, <4>1, <4>2, <4>3, <4>4, PendingSteps
    <3>3. QED
      BY <1>6, <3>1, <3>2
  <2>3. Unborn
    BY <1>6, <2>2 DEF PendingInOrder
  <2>4. ~StandaloneInitialize
    BY <1>6 DEF StandaloneInitialize, TypeOK, ServerStates, QuitStates
  <2>5. ASSUME RunInitialize PROVE FALSE
    <3>1. /\ Pending # <<>> /\ Head(Pending) = Head(batch) /\ Head(batch) \in MessageIds
          /\ Pending' = Tail(Pending) /\ sent' = sent
      BY <2>5, PendingSteps DEF Run, RunInitialize, StdinMessage, StdinQuit, stdinElse
    <3>2. Head(batch) \in Ids /\ session.script[Head(batch)] = "initialize"
      BY <1>2, <2>5, <3>1 DEF RunInitialize, KindOf, MessageIds
    <3>3. Head(batch) = k
      BY <1>6, <3>2, OneInitialize DEF TypeOK
    <3>4. 1 \in DOMAIN Pending /\ Pending[1] = k /\ k <= sent
      BY <1>3, <3>1, <3>3 DEF PendingInOrder
    <3>5. PICK j \in DOMAIN Tail(Pending) : Tail(Pending)[j] = k
      BY <1>2, <1>6, <3>1, <3>4
    <3>6. j \in Nat /\ j + 1 \in DOMAIN Pending /\ 1 < j + 1 /\ Pending[j + 1] = k
      BY <1>3, <3>1, <3>5
    <3>7. QED
      BY <2>1, <3>4, <3>6 DEF PendingInOrder
  <2>6. QED
    BY <2>3, <2>4, <2>5, UnbornSteps
<1>7. QED
  BY <1>1, <1>4, <1>5, <1>6 DEF PendingInOrder

-----------------------------------------------------------------------------
(* Counting the threads.                                                    *)
IndexersIn(P) == Cardinality({i \in Indexers : indexer[i] \in P})
SemaRunning == Cardinality({t \in SemaThreads : sema[t] # "gone"})

(* The number of indexers in a set of states, when one or none changes.     *)
LEMMA IndexersInChange ==
  ASSUME TypeOK, session' = session, NEW P
  PROVE  /\ IndexersIn(P) \in Nat
         /\ indexer' = indexer => IndexersIn(P)' = IndexersIn(P)
         /\ \A i \in Indexers : \A v : indexer' = [indexer EXCEPT ![i] = v] =>
              /\ IndexersIn(P)' = IndexersIn(P) - Bit(indexer[i] \in P) + Bit(v \in P)
              /\ IndexersIn(P)' \in Nat /\ IndexersIn(P) >= Bit(indexer[i] \in P)
<1>1. Indexers' = Indexers /\ IsFiniteSet(Indexers)
  BY SessionFacts DEF Indexers, TypeOK
<1>2. IndexersIn(P) \in Nat
  <2>1. IsFiniteSet({i \in Indexers : indexer[i] \in P})
    BY <1>1, FS_Subset
  <2>2. QED
    BY <2>1, FS_CardinalityType DEF IndexersIn
<1>3. ASSUME indexer' = indexer
      PROVE  IndexersIn(P)' = IndexersIn(P)
  BY <1>1, <1>3, Zenon DEF IndexersIn
<1>4. ASSUME NEW i \in Indexers, NEW v, indexer' = [indexer EXCEPT ![i] = v]
      PROVE  /\ IndexersIn(P)' = IndexersIn(P) - Bit(indexer[i] \in P) + Bit(v \in P)
             /\ IndexersIn(P)' \in Nat /\ IndexersIn(P) >= Bit(indexer[i] \in P)
  BY <1>1, <1>4, OneIndexer DEF IndexersIn
<1>5. QED
  BY <1>2, <1>3, <1>4

(* A push to index_request changes no number of indexers but that of the    *)
(* sleeping and the waiting.                                                *)
LEMMA IndexersInIndex ==
  ASSUME TypeOK, session' = session, indexer' \in NotifyOneIndexer(indexer),
         NEW P, "asleep" \in P <=> "wait" \in P
  PROVE  IndexersIn(P)' = IndexersIn(P)
<1>1. CASE indexer' = indexer
  BY <1>1, IndexersInChange
<1>2. ASSUME NEW i \in Asleep, indexer' = [indexer EXCEPT ![i] = "wait"]
      PROVE  IndexersIn(P)' = IndexersIn(P)
  <2>1. i \in Indexers /\ indexer[i] = "asleep"
    BY DEF Asleep
  <2>2. /\ IndexersIn(P)' = IndexersIn(P) - Bit(indexer[i] \in P) + Bit("wait" \in P)
        /\ IndexersIn(P) \in Nat
    BY <1>2, <2>1, IndexersInChange, ZenonT(30)
  <2>3. Bit(indexer[i] \in P) = Bit("wait" \in P) /\ Bit("wait" \in P) \in Nat
    BY <2>1 DEF Bit
  <2>4. QED
    BY <2>2, <2>3
<1>3. QED
  BY <1>1, <1>2, NotifyOneProperties

(* All indexers unborn, or all at once parsing.                             *)
LEMMA IndexersInUnborn ==
  ASSUME TypeOK, Unborn, NEW P, "unborn" \notin P
  PROVE  IndexersIn(P) = 0
<1>1. {i \in Indexers : indexer[i] \in P} = {}
  BY DEF Unborn
<1>2. QED
  BY <1>1, FS_EmptySet, Zenon DEF IndexersIn

(* pipeline::init's threads all begin in their loop, none of them with an   *)
(* entry in hand.                                                           *)
LEMMA IndexersInParse ==
  ASSUME TypeOK, session' = session, indexer' = [i \in Indexers |-> "parse"]
  PROVE  /\ IndexersIn(Running)' = Cardinality(Indexers)
         /\ IndexersIn(Work)' = 0
<1>1. Indexers' = Indexers
  BY DEF Indexers
<1>2. /\ {i \in Indexers : indexer'[i] \in Running} = Indexers
      /\ {i \in Indexers : indexer'[i] \in Work} = {}
  BY DEF Running, Work
<1>3. QED
  BY <1>1, <1>2, FS_EmptySet, Zenon DEF IndexersIn

(* The number of threads of SemaManager that run, and when one changes.     *)
LEMMA SemaRunningType ==
  /\ IsFiniteSet(SemaThreads)
  /\ SemaRunning \in Nat
  /\ SemaRunning = 0 <=> \A t \in SemaThreads : sema[t] = "gone"
<1> DEFINE S == {t \in SemaThreads : sema[t] # "gone"}
<1>1. IsFiniteSet(SemaThreads)
  <2>1. SemaThreads = ({"preamble"} \cup {"comp"}) \cup {"diag"}
    BY DEF SemaThreads
  <2>2. IsFiniteSet({"preamble"})
    BY FS_Singleton
  <2>3. IsFiniteSet({"preamble"} \cup {"comp"})
    BY <2>2, FS_AddElement
  <2>4. QED
    BY <2>1, <2>3, FS_AddElement
<1>2. IsFiniteSet(S)
  BY <1>1, FS_Subset
<1>3. SemaRunning \in Nat /\ (SemaRunning = 0 <=> S = {})
  BY <1>2, FS_CardinalityType, FS_EmptySet DEF SemaRunning
<1>4. QED
  BY <1>1, <1>3

(* A thread of SemaManager that leaves its loop lowers the number of        *)
(* running ones by one, and any other step leaves it as it was.             *)
LEMMA SemaRunningChange ==
  ASSUME TypeOK, NEW t \in SemaThreads, NEW v, sema' = [sema EXCEPT ![t] = v],
         sema[t] # "gone"
  PROVE  SemaRunning' = IF v = "gone" THEN SemaRunning - 1 ELSE SemaRunning
<1> DEFINE S == {u \in SemaThreads : sema[u] # "gone"}
           T == {u \in SemaThreads : sema'[u] # "gone"}
<1>1. IsFiniteSet(S) /\ IsFiniteSet(T)
  BY SemaRunningType, FS_Subset
<1>2. sema'[t] = v /\ \A u \in SemaThreads : u # t => sema'[u] = sema[u]
  BY DEF TypeOK
<1>3. S \ {t} = T \ {t}
  BY <1>2
<1>4. t \in S /\ (t \in T <=> v # "gone")
  BY <1>2
<1>5. Bit(t \in S) = 1 /\ Bit(t \in T) = IF v = "gone" THEN 0 ELSE 1
  BY <1>4 DEF Bit
<1> HIDE DEF S, T
<1>6. Cardinality(T) = Cardinality(S) - Bit(t \in S) + Bit(t \in T) /\ Cardinality(S) \in Nat
  BY <1>1, <1>3, CardinalityChange
<1>7. Cardinality(T) = IF v = "gone" THEN Cardinality(S) - 1 ELSE Cardinality(S)
  BY <1>5, <1>6
<1>8. QED
  BY <1>7 DEF SemaRunning, S, T

(* At the start, the stdin and the stdout thread of a server and the three  *)
(* threads of SemaManager.                                                  *)
LEMMA InitThreads == Init => ThreadsCounted /\ EntriesCounted
<1> SUFFICES ASSUME Init PROVE ThreadsCounted /\ EntriesCounted
  OBVIOUS
<1>1. TypeOK /\ Unborn
  BY InitType DEF Init, Unborn
<1>2. IndexersIn(Running) = 0 /\ IndexersIn(Work) = 0
  BY <1>1, IndexersInUnborn DEF Running, Work
<1>3. SemaRunning = 3
  <2>1. {t \in SemaThreads : sema[t] # "gone"} = ({"preamble"} \cup {"comp"}) \cup {"diag"}
    BY DEF Init, SemaThreads
  <2>2. /\ IsFiniteSet({"preamble"}) /\ Cardinality({"preamble"}) = 1
    BY FS_Singleton
  <2>3. /\ IsFiniteSet({"preamble"} \cup {"comp"})
        /\ Cardinality({"preamble"} \cup {"comp"}) = 2
    BY <2>2, FS_AddElement
  <2>4. Cardinality(({"preamble"} \cup {"comp"}) \cup {"diag"}) = 3
    BY <2>3, FS_AddElement
  <2>5. QED
    BY <2>1, <2>4 DEF SemaRunning
<1>4. ThreadsCounted
  BY <1>2, <1>3 DEF ThreadsCounted, Init, Bit, IndexersIn, SemaRunning
<1>5. EntriesCounted
  <2>1. session.entries \in Nat
    BY <1>1, SessionFacts DEF TypeOK
  <2>2. Count(Contents(index_request), Work) = 0
    BY EmptyQueueProperties, CountEmpty DEF Init
  <2>3. QED
    BY <1>1, <1>2, <2>1, <2>2 DEF EntriesCounted, Init, IndexersIn, QuitStates
<1>6. QED
  BY <1>4, <1>5

(* active_threads goes up by the threads that are started and down when one *)
(* leaves, and with nothing else.                                           *)
LEMMA NextThreads ==
  ASSUME TypeOK, StartedOnce, PendingInOrder, EntriesCounted, ThreadsCounted, [Next]_vars
  PROVE  ThreadsCounted'
<1> DEFINE idx == IndexersIn(Running)
           sem == SemaRunning
           in == Bit(stdin # "gone")
           out == Bit(stdout # "gone")
<1>1. session' = session /\ Indexers' = Indexers
  BY SameSession DEF Indexers
<1>2. /\ idx \in Nat /\ sem \in Nat /\ in \in Nat /\ out \in Nat /\ active_threads \in Int
      /\ Cardinality(Indexers) \in Nat
  BY <1>1, IndexersInChange, SemaRunningType, SessionFacts DEF Bit, TypeOK
<1>3. active_threads = in + out + idx + sem
  BY DEF ThreadsCounted, IndexersIn, SemaRunning
<1>4. SUFFICES active_threads' = in' + out' + idx' + sem'
  BY DEF ThreadsCounted, IndexersIn, SemaRunning
<1>5. indexer' = indexer => idx' = idx
  BY <1>1, IndexersInChange
<1>6. sema' = sema => sem' = sem
  BY Zenon DEF SemaRunning
<1>7. /\ stdin' = stdin => in' = in
      /\ (stdin = "read" /\ stdin' = "gone") => in = 1 /\ in' = 0
      /\ stdout' \in {stdout, Woken(stdout)} => out' = out
      /\ (stdout # "gone" /\ stdout' # "gone") => out' = out
      /\ (stdout # "gone" /\ stdout' = "gone") => out = 1 /\ out' = 0
  BY DEF Bit, Woken
<1> HIDE DEF idx, sem, in, out
<1>8. CASE UNCHANGED <<stdin, stdout, indexer, sema, active_threads>>
  BY <1>3, <1>5, <1>6, <1>7, <1>8
<1>9. CASE Stdin
  <2>1. /\ UNCHANGED <<stdout, indexer, sema>>
        /\ \/ stdin' = stdin /\ active_threads' = active_threads
           \/ stdin = "read" /\ stdin' = "gone" /\ active_threads' = active_threads - 1
    BY <1>9 DEF Stdin, StdinMessage, StdinQuit, stdinElse, semaVars, Leave
  <2>2. QED
    BY <1>2, <1>3, <1>5, <1>6, <1>7, <2>1
<1>10. CASE StandaloneInitialize \/ RunInitialize
  <2>1. /\ UNCHANGED <<stdin, sema>> /\ stdout' \in {stdout, Woken(stdout)}
        /\ indexer' = [i \in Indexers |-> "parse"]
        /\ active_threads' = active_threads + Cardinality(Indexers)
    BY <1>10 DEF StandaloneInitialize, RunInitialize, Initialize, Reply, NoReply, Enter,
                 mainElse, semaVars
  <2>2. Unborn
    <3>1. CASE StandaloneInitialize
      BY <3>1 DEF StandaloneInitialize, EntriesCounted, TypeOK, ServerStates, QuitStates
    <3>2. CASE RunInitialize
      <4>1. /\ batch # <<>> /\ ~session.standalone /\ KindOf(Head(batch)) = "initialize"
        BY <3>2 DEF RunInitialize, TypeOK, PollStates, QuitStates
      <4>2. /\ Pending \in Seq(MessageIds) /\ Pending # <<>> /\ Head(Pending) = Head(batch)
            /\ Head(batch) \in MessageIds
        BY <3>2, PendingSteps DEF Run, RunInitialize, StdinMessage, StdinQuit, stdinElse
      <4>3. Head(batch) \in Ids /\ session.script[Head(batch)] = "initialize"
        <5>1. Ids = 1 .. Len(session.script) /\ Len(session.script) \in Nat
          BY SessionFacts DEF TypeOK
        <5>2. QED
          BY <4>1, <4>2, <5>1 DEF KindOf, MessageIds
      <4>4. 1 \in DOMAIN Pending /\ Pending[1] = Head(batch)
        BY <4>2
      <4>5. QED
        BY <4>1, <4>3, <4>4 DEF PendingInOrder
    <3>3. QED
      BY <1>10, <3>1, <3>2
  <2>3. idx = 0 /\ idx' = Cardinality(Indexers)
    BY <1>1, <2>1, <2>2, IndexersInUnborn, IndexersInParse DEF Running, idx
  <2>4. QED
    BY <1>2, <1>3, <1>6, <1>7, <2>1, <2>3
<1>11. CASE Dispatch \/ RunOpen
  <2>1. /\ UNCHANGED <<stdin, sema, stdout, active_threads>>
        /\ indexer' \in NotifyOneIndexer(indexer)
    BY <1>11 DEF Dispatch, RunOpen, Index, mainElse, semaVars
  <2>2. idx' = idx
    BY <1>1, <2>1, IndexersInIndex DEF Running, idx
  <2>3. QED
    BY <1>3, <1>6, <1>7, <2>1, <2>2
<1>12. CASE RunRequest
  <2>1. /\ UNCHANGED <<stdin, sema, indexer, active_threads>>
        /\ stdout' \in {stdout, Woken(stdout)}
    BY <1>12 DEF RunRequest, Reply, mainElse, semaVars
  <2>2. QED
    BY <1>3, <1>5, <1>6, <1>7, <2>1
<1>13. CASE \/ Round \/ RunComplete \/ RunExit \/ MessagesDone \/ ApplyUpdates
            \/ MainWait \/ Poll \/ Quit \/ QuitLock \/ Join
  <2>1. UNCHANGED <<stdin, stdout, indexer, sema, active_threads>>
    BY <1>13 DEF Round, RunComplete, RunExit, MessagesDone, ApplyUpdates, MainWait, Poll,
                 Quit, QuitLock, Join, mainElse, semaVars
  <2>2. QED
    BY <1>8, <2>1
<1>14. CASE QuitNotify
  <2>1. /\ UNCHANGED <<stdin, sema, active_threads>>
        /\ stdout' \in {stdout, Woken(stdout)}
        /\ indexer' = indexer \/ indexer' = NotifyAllIndexers
    BY <1>14 DEF QuitNotify, mainElse, semaVars
  <2>2. CASE indexer' = NotifyAllIndexers
    <3>1. {i \in Indexers : indexer'[i] \in Running} = {i \in Indexers : indexer[i] \in Running}
      BY <2>2 DEF NotifyAllIndexers, Running
    <3>2. idx' = idx
      BY <1>1, <3>1, Zenon DEF idx, IndexersIn
    <3>3. QED
      BY <1>3, <1>6, <1>7, <2>1, <3>2
  <2>3. QED
    BY <1>3, <1>5, <1>6, <1>7, <2>1, <2>2
<1>15. CASE Stdout
  <2>1. /\ UNCHANGED <<stdin, sema, indexer>>
        /\ stdout # "gone"
        /\ active_threads' = IF stdout' = "gone" THEN active_threads - 1 ELSE active_threads
    <3>1. CASE StdoutTake \/ StdoutWrite \/ StdoutSleep
      BY <3>1 DEF StdoutTake, StdoutWrite, StdoutSleep, stdoutElse, semaVars
    <3>2. CASE StdoutWait
      <4>1. /\ UNCHANGED <<stdin, sema, indexer>> /\ stdout # "gone"
            /\ active_threads' = IF g_quit THEN active_threads - 1 ELSE active_threads
        BY <3>2 DEF StdoutWait, stdoutElse, semaVars, Leave
      <4>2. stdout' = "gone" <=> g_quit
        BY <3>2 DEF StdoutWait, TypeOK
      <4>3. QED
        BY <4>1, <4>2
    <3>3. QED
      BY <1>15, <3>1, <3>2 DEF Stdout
  <2>2. QED
    BY <1>2, <1>3, <1>5, <1>6, <1>7, <2>1
<1>16. ASSUME NEW t \in SemaThreads, Sema(t)
       PROVE  active_threads' = in' + out' + idx' + sem'
  <2>1. UNCHANGED <<stdin, indexer>>
    BY <1>16 DEF Sema, SemaLeave, CompDequeue, CompDrop, CompKeep, CompWork, semaElse
  <2>2. stdout' \in {stdout, Woken(stdout)}
    BY <1>16 DEF Sema, SemaLeave, CompDequeue, CompDrop, CompKeep, CompWork, Reply, NoReply
  <2>3. \E v : /\ sema[t] # "gone" /\ sema' = [sema EXCEPT ![t] = v]
               /\ active_threads' = IF v = "gone" THEN active_threads - 1 ELSE active_threads
    BY <1>16 DEF Sema, SemaLeave, CompDequeue, CompDrop, CompKeep, CompWork, Leave
  <2>4. PICK v : /\ sema[t] # "gone" /\ sema' = [sema EXCEPT ![t] = v]
                 /\ active_threads' = IF v = "gone" THEN active_threads - 1 ELSE active_threads
    BY <2>3
  <2>5. sem' = IF v = "gone" THEN sem - 1 ELSE sem
    BY <2>4, SemaRunningChange DEF sem
  <2>6. QED
    BY <1>2, <1>3, <1>5, <1>7, <2>1, <2>2, <2>4, <2>5
<1>17. ASSUME NEW i \in Indexers, Indexer(i)
       PROVE  active_threads' = in' + out' + idx' + sem'
  <2>1. UNCHANGED <<stdin, sema>>
    BY <1>17 DEF Indexer, IndexerPop, IndexerDone, IndexerFailed, IndexerWait,
                 IndexerSleep, indexerElse, semaVars
  <2>2. stdout' \in {stdout, Woken(stdout)}
    BY <1>17 DEF Indexer, IndexerPop, IndexerDone, IndexerFailed, IndexerWait,
                 IndexerSleep, Reply, NoReply
  <2>3. CanPop(index_request) => Front(index_request) \in Requests
    BY PopFrontProperties DEF TypeOK
  <2>4. \E v : /\ indexer[i] \in Running /\ indexer' = [indexer EXCEPT ![i] = v]
               /\ \/ v \in Running /\ active_threads' = active_threads
                  \/ v = "gone" /\ active_threads' = active_threads - 1
    BY <1>17, <2>3 DEF Indexer, IndexerPop, IndexerDone, IndexerFailed, IndexerWait,
                 IndexerSleep, Working, Running, Requests, Leave
  <2>5. PICK v : /\ indexer[i] \in Running /\ indexer' = [indexer EXCEPT ![i] = v]
                 /\ \/ v \in Running /\ active_threads' = active_threads
                    \/ v = "gone" /\ active_threads' = active_threads - 1
    BY <2>4
  <2>6. idx' = idx - Bit(indexer[i] \in Running) + Bit(v \in Running)
    BY <1>1, <2>5, IndexersInChange DEF idx
  <2>7. /\ Bit(indexer[i] \in Running) = 1 /\ (v \in Running => Bit(v \in Running) = 1)
        /\ (v = "gone" => Bit(v \in Running) = 0)
    BY <2>5 DEF Bit, Running
  <2>8. QED
    BY <1>2, <1>3, <1>6, <1>7, <2>1, <2>2, <2>5, <2>6, <2>7
<1>18. CASE UNCHANGED vars
  BY <1>8, <1>18 DEF vars, semaVars
<1>19. QED
  BY <1>9, <1>10, <1>11, <1>12, <1>13, <1>14, <1>15, <1>16, <1>17, <1>18 DEF Next, Main

(* In the stand-alone mode an entry that was enqueued is queued, with an    *)
(* indexer or completed, so that when as many are completed as were         *)
(* enqueued there is nothing left to do.                                    *)
LEMMA NextEntries ==
  ASSUME TypeOK, StartedOnce, EntriesCounted, [Next]_vars
  PROVE  EntriesCounted'
<1> DEFINE working == IndexersIn(Work)
           queued == Count(Contents(index_request), Work)
<1>1. session' = session /\ Indexers' = Indexers
  BY SameSession DEF Indexers
<1>2. SUFFICES ASSUME session.standalone PROVE EntriesCounted'
  BY <1>1 DEF EntriesCounted
<1>3. /\ main \in QuitStates \cup PollStates /\ stdin = "gone" /\ stdout = "gone"
      /\ main = "init" => Unborn
      /\ main \in {"init", "dispatch"} => enqueued <= session.entries
      /\ main \notin {"init", "dispatch"} => enqueued = session.entries
      /\ main \in QuitStates => completed = enqueued
      /\ completed + working + queued = enqueued
  BY <1>2 DEF EntriesCounted, TypeOK, IndexersIn
<1>4. /\ index_request \in QueueOf(Requests) /\ working \in Nat /\ queued \in Nat
      /\ enqueued \in Nat /\ completed \in Nat /\ session.entries \in Nat
  <2>1. index_request.priority \in Seq(Requests) /\ index_request.queue \in Seq(Requests)
    BY DEF TypeOK, QueueOf
  <2>2. Contents(index_request) \in Seq(Requests)
    BY <2>1, ConcatProperties DEF Contents
  <2>3. QED
    BY <1>1, <2>2, IndexersInChange, CountType, SessionFacts DEF TypeOK
<1>5. /\ indexer' = indexer => working' = working
      /\ index_request' = index_request => queued' = queued
  BY <1>1, IndexersInChange
<1>6. SUFFICES /\ stdin' = "gone" /\ stdout' = "gone"
               /\ main' = "init" => Unborn'
               /\ main' \in {"init", "dispatch"} => enqueued' <= session.entries
               /\ main' \notin {"init", "dispatch"} => enqueued' = session.entries
               /\ main' \in QuitStates => completed' = enqueued'
               /\ completed' + working' + queued' = enqueued'
  BY <1>1 DEF EntriesCounted, IndexersIn
<1> HIDE DEF working, queued
<1>7. ASSUME UNCHANGED <<stdin, stdout, indexer, index_request, enqueued, completed>>,
             \/ main' = main
             \/ main = "poll" /\ main' = "quit" /\ completed = enqueued
             \/ main \in QuitStates /\ main' \in QuitStates
      PROVE  /\ stdin' = "gone" /\ stdout' = "gone"
             /\ main' = "init" => Unborn'
             /\ main' \in {"init", "dispatch"} => enqueued' <= session.entries
             /\ main' \notin {"init", "dispatch"} => enqueued' = session.entries
             /\ main' \in QuitStates => completed' = enqueued'
             /\ completed' + working' + queued' = enqueued'
  <2>1. Unborn' <=> Unborn
    BY <1>1, <1>7 DEF Unborn
  <2>2. QED
    BY <1>3, <1>5, <1>7, <2>1 DEF QuitStates
<1>8. CASE UNCHANGED vars
  BY <1>7, <1>8 DEF vars, queues
<1>9. ~Stdin /\ ~Stdout
  BY <1>3 DEF Stdin, StdinMessage, StdinQuit, Stdout, StdoutTake, StdoutWrite,
              StdoutWait, StdoutSleep
<1>10. \A t \in SemaThreads : Sema(t) =>
         UNCHANGED <<stdin, indexer, index_request, enqueued, completed, main>>
  BY DEF Sema, SemaLeave, CompDequeue, CompDrop, CompKeep, CompWork, semaElse
<1>11. \A t \in SemaThreads : Sema(t) => stdout' = stdout
  BY <1>3 DEF Sema, SemaLeave, CompDequeue, CompDrop, CompKeep, CompWork, Reply, NoReply,
              Woken
<1>12. CASE StandaloneInitialize
  <2>1. /\ UNCHANGED <<stdin, stdout, index_request, enqueued, completed>>
        /\ main' = "dispatch" /\ main = "init" /\ indexer' = [i \in Indexers |-> "parse"]
    BY <1>2, <1>12 DEF StandaloneInitialize, Initialize, NoReply, mainElse
  <2>2. working = 0 /\ working' = 0
    BY <1>1, <1>3, <2>1, IndexersInUnborn, IndexersInParse DEF Work, working
  <2>3. QED
    BY <1>3, <1>5, <2>1, <2>2 DEF QuitStates
<1>13. CASE Dispatch
  <2>1. /\ UNCHANGED <<stdin, stdout, completed>> /\ main = "dispatch"
        /\ indexer' \in NotifyOneIndexer(indexer)
    BY <1>13 DEF Dispatch, Index, mainElse
  <2>2. working' = working
    BY <1>1, <2>1, IndexersInIndex DEF Work, working
  <2>3. CASE enqueued < session.entries
    <3>1. /\ enqueued' = enqueued + 1 /\ main' = "dispatch"
          /\ index_request' = PushBack(index_request, "initial", FALSE)
      BY <1>13, <2>3 DEF Dispatch, Index
    <3>2. queued' = queued + Bit("initial" \in Work)
      <4>1. "initial" \in Requests /\ FALSE \in BOOLEAN
        BY DEF Requests
      <4>2. \A S : Count(Contents(PushBack(index_request, "initial", FALSE)), S) =
                     Count(Contents(index_request), S) + Bit("initial" \in S)
        BY <1>4, <4>1, PushBackProperties, ZenonT(30)
      <4>3. QED
        BY <3>1, <4>2, Zenon DEF queued
    <3>3. Bit("initial" \in Work) = 1
      BY DEF Bit, Work
    <3>4. QED
      BY <1>3, <1>4, <2>1, <2>2, <2>3, <3>1, <3>2, <3>3 DEF QuitStates
  <2>4. CASE ~(enqueued < session.entries)
    <3>1. /\ enqueued' = enqueued /\ main' = "poll"
          /\ index_request' = PushBack(index_request, "dummy", FALSE)
      BY <1>2, <1>13, <2>4 DEF Dispatch, Index
    <3>2. queued' = queued + Bit("dummy" \in Work)
      <4>1. "dummy" \in Requests /\ FALSE \in BOOLEAN
        BY DEF Requests
      <4>2. \A S : Count(Contents(PushBack(index_request, "dummy", FALSE)), S) =
                     Count(Contents(index_request), S) + Bit("dummy" \in S)
        BY <1>4, <4>1, PushBackProperties
      <4>3. QED
        BY <3>1, <4>2, Zenon DEF queued
    <3>3. Bit("dummy" \in Work) = 0
      BY DEF Bit, Work
    <3>4. enqueued = session.entries /\ queued' = queued
      BY <1>3, <1>4, <2>1, <2>4, <3>2, <3>3
    <3>5. QED
      BY <1>3, <1>4, <2>1, <2>2, <3>1, <3>4 DEF QuitStates
  <2>5. QED
    BY <2>3, <2>4
<1>14. CASE \/ Round \/ RunInitialize \/ RunRequest \/ RunOpen \/ RunComplete \/ RunExit
            \/ MessagesDone \/ ApplyUpdates \/ MainWait
  BY <1>3, <1>14 DEF Round, RunInitialize, RunRequest, RunOpen, RunComplete, RunExit,
                     MessagesDone, ApplyUpdates, MainWait, QuitStates, PollStates
<1>15. CASE Poll \/ Quit \/ QuitLock \/ Join
  <2>1. /\ UNCHANGED <<stdin, stdout, indexer, index_request, enqueued, completed>>
        /\ \/ main' = main
           \/ main = "poll" /\ main' = "quit" /\ completed = enqueued
           \/ main \in QuitStates /\ main' \in QuitStates
    BY <1>15 DEF Poll, Quit, QuitLock, Join, mainElse, queues, QuitStates
  <2>2. QED
    BY <1>7, <2>1
<1>16. CASE QuitNotify
  <2>1. /\ UNCHANGED <<stdin, index_request, enqueued, completed>> /\ stdout' = stdout
        /\ main \in QuitStates /\ main' \in QuitStates
        /\ indexer' = indexer \/ indexer' = NotifyAllIndexers
    BY <1>3, <1>16 DEF QuitNotify, mainElse, queues, QuitStates, Woken
  <2>2. working' = working
    <3>1. CASE indexer' = NotifyAllIndexers
      <4>1. {i \in Indexers : indexer'[i] \in Work} = {i \in Indexers : indexer[i] \in Work}
        BY <3>1 DEF NotifyAllIndexers, Work
      <4>2. QED
        BY <1>1, <4>1, Zenon DEF working, IndexersIn
    <3>2. QED
      BY <1>5, <2>1, <3>1
  <2>3. QED
    BY <1>3, <1>5, <2>1, <2>2 DEF QuitStates
<1>17. ASSUME NEW i \in Indexers, Indexer(i)
       PROVE  /\ stdin' = "gone" /\ stdout' = "gone"
              /\ main' = "init" => Unborn'
              /\ main' \in {"init", "dispatch"} => enqueued' <= session.entries
              /\ main' \notin {"init", "dispatch"} => enqueued' = session.entries
              /\ main' \in QuitStates => completed' = enqueued'
              /\ completed' + working' + queued' = enqueued'
  <2>1. /\ UNCHANGED <<stdin, enqueued>> /\ stdout' = stdout
    BY <1>2, <1>3, <1>17 DEF Indexer, IndexerPop, IndexerDone, IndexerFailed, IndexerWait,
                 IndexerSleep, indexerElse, NoReply, HasId
  <2>2. main' = main
    BY <1>3, <1>17 DEF Indexer, IndexerPop, IndexerDone, IndexerFailed, IndexerWait,
                 IndexerSleep, Woken, QuitStates, PollStates
  <2>3. indexer[i] # "unborn"
    BY <1>17 DEF Indexer, IndexerPop, IndexerDone, IndexerFailed, IndexerWait,
                 IndexerSleep, Working
  <2>4. main # "init"
    BY <1>3, <2>3 DEF Unborn
  <2>5. CanPop(index_request) => Front(index_request) \in Requests
    BY <1>4, PopFrontProperties
  <2>6. PICK v : indexer' = [indexer EXCEPT ![i] = v]
    BY <1>17 DEF Indexer, IndexerPop, IndexerDone, IndexerFailed, IndexerWait, IndexerSleep
  <2>7. /\ working' = working - Bit(indexer[i] \in Work) + Bit(v \in Work)
        /\ working' \in Nat /\ working >= Bit(indexer[i] \in Work)
    BY <1>1, <2>6, IndexersInChange DEF working
  <2>8. indexer'[i] = v
    BY <2>6 DEF TypeOK
  <2>9. CASE IndexerPop(i)
    <3>1. Bit(indexer[i] \in Work) = 0 /\ completed' = completed
      BY <2>9 DEF IndexerPop, Work, Bit
    <3>2. CASE CanPop(index_request)
      <4>1. index_request' = PopFront(index_request)
        BY <2>9, <3>2 DEF IndexerPop
      <4>2. queued = Bit(Front(index_request) \in Work) + queued'
        BY <1>4, <3>2, <4>1, PopFrontProperties DEF queued
      <4>3. Bit(v \in Work) = Bit(Front(index_request) \in Work)
        BY <2>5, <2>8, <2>9, <3>2 DEF IndexerPop, Work, Requests, Bit, TypeOK
      <4>4. queued' \in Nat
        <5>1. PopFront(index_request) \in QueueOf(Requests)
          BY <1>4, <3>2, PopFrontProperties
        <5>2. /\ PopFront(index_request).priority \in Seq(Requests)
              /\ PopFront(index_request).queue \in Seq(Requests)
          BY <5>1 DEF QueueOf
        <5>3. Contents(PopFront(index_request)) \in Seq(Requests)
          BY <5>2, ConcatProperties DEF Contents
        <5>4. QED
          BY <4>1, <5>3, CountType DEF queued
      <4>5. Bit(v \in Work) \in Nat
        BY DEF Bit
      <4>6. QED
        BY <1>3, <1>4, <2>1, <2>2, <2>4, <2>7, <3>1, <4>2, <4>3, <4>4, <4>5
    <3>3. CASE ~CanPop(index_request)
      <4>1. v = "wait" /\ index_request' = index_request
        BY <2>8, <2>9, <3>3 DEF IndexerPop, TypeOK
      <4>2. Bit(v \in Work) = 0
        BY <4>1 DEF Bit, Work
      <4>3. QED
        BY <1>3, <1>4, <1>5, <2>1, <2>2, <2>4, <2>7, <3>1, <4>1, <4>2
    <3>4. QED
      BY <3>2, <3>3
  <2>10. CASE IndexerDone(i) \/ IndexerFailed(i)
    <3>1. /\ indexer[i] \in Work /\ completed' = completed + 1
          /\ index_request' = index_request /\ v \notin Work
      BY <2>8, <2>10 DEF IndexerDone, IndexerFailed, Working, Work, TypeOK
    <3>2. Bit(indexer[i] \in Work) = 1 /\ Bit(v \in Work) = 0
      BY <3>1 DEF Bit
    <3>3. QED
      BY <1>3, <1>4, <1>5, <2>1, <2>2, <2>4, <2>7, <3>1, <3>2
  <2>11. CASE IndexerWait(i) \/ IndexerSleep(i)
    <3>1. /\ indexer[i] \notin Work /\ completed' = completed
          /\ index_request' = index_request /\ v \notin Work
      BY <2>8, <2>11 DEF IndexerWait, IndexerSleep, Work, TypeOK
    <3>2. Bit(indexer[i] \in Work) = 0 /\ Bit(v \in Work) = 0
      BY <3>1 DEF Bit
    <3>3. QED
      BY <1>3, <1>4, <1>5, <2>1, <2>2, <2>4, <2>7, <3>1, <3>2
  <2>12. QED
    BY <1>17, <2>9, <2>10, <2>11 DEF Indexer
<1>18. QED
  BY <1>7, <1>8, <1>9, <1>10, <1>11, <1>12, <1>13, <1>14, <1>15, <1>16, <1>17
     DEF Next, Main

(* CleanExit: when the process ends no thread is left that uses what goes   *)
(* away with the main thread's stack, and the stand-alone mode has indexed  *)
(* every entry of the project.                                              *)
THEOREM ExitIsClean == Spec => []CleanExit
<1> DEFINE Inv == /\ TypeOK /\ StartedOnce /\ PendingInOrder
                  /\ EntriesCounted /\ ThreadsCounted
                  /\ (main = "done" => active_threads = 0)
<1>1. Init => Inv
  BY InitType, InitPending, InitThreads DEF Init
<1>2. ASSUME Inv, [Next]_vars
      PROVE  (main = "done" => active_threads = 0)'
  <2>1. CASE UNCHANGED vars
    BY <1>2, <2>1 DEF vars
  <2>2. CASE Next
    <3>1. main # "done"
      BY <2>2 DEF Next, Alive
    <3>2. CASE Join
      BY <3>2 DEF Join
    <3>3. CASE Stdin
      BY <3>1, <3>3 DEF Stdin, StdinMessage, StdinQuit, Woken
    <3>4. CASE Main /\ ~Join
      BY <3>1, <3>4 DEF Main, StandaloneInitialize, Initialize, Dispatch, Round,
           RunInitialize, RunRequest, RunOpen, RunComplete, RunExit, MessagesDone,
           ApplyUpdates, MainWait, Poll, Quit, QuitLock, QuitNotify
    <3>5. CASE Stdout
      BY <3>1, <3>5 DEF Stdout, StdoutTake, StdoutWrite, StdoutWait, StdoutSleep, stdoutElse
    <3>6. CASE \E t \in SemaThreads : Sema(t)
      BY <3>1, <3>6 DEF Sema, SemaLeave, CompDequeue, CompDrop, CompKeep, CompWork, semaElse
    <3>7. CASE \E i \in Indexers : Indexer(i)
      BY <3>1, <3>7 DEF Indexer, IndexerPop, IndexerDone, IndexerFailed, IndexerWait,
                        IndexerSleep, Woken
    <3>8. QED
      BY <2>2, <3>2, <3>3, <3>4, <3>5, <3>6, <3>7 DEF Next
  <2>3. QED
    BY <1>2, <2>1, <2>2
<1>3. Inv /\ [Next]_vars => Inv'
  BY <1>2, NextType, NextPending, NextEntries, NextThreads
<1>4. Inv => CleanExit
  <2> SUFFICES ASSUME Inv, main = "done" PROVE CleanExit
    BY DEF CleanExit
  <2>1. /\ IndexersIn(Running) \in Nat /\ SemaRunning \in Nat
        /\ IsFiniteSet(Indexers)
    <3>1. IsFiniteSet(Indexers)
      BY SessionFacts DEF TypeOK
    <3>2. IsFiniteSet({i \in Indexers : indexer[i] \in Running})
      BY <3>1, FS_Subset
    <3>3. QED
      BY <3>1, <3>2, FS_CardinalityType, SemaRunningType DEF IndexersIn
  <2> DEFINE in == Bit(stdin # "gone")
             out == Bit(stdout # "gone")
             idx == IndexersIn(Running)
             sem == SemaRunning
  <2>2. in \in Nat /\ out \in Nat /\ idx \in Nat /\ sem \in Nat
    BY <2>1 DEF Bit
  <2>3. in + out + idx + sem = 0
    BY DEF ThreadsCounted, IndexersIn, SemaRunning
  <2> HIDE DEF in, out, idx, sem
  <2>4. in = 0 /\ out = 0 /\ idx = 0 /\ sem = 0
    BY <2>2, <2>3
  <2>5. stdin = "gone" /\ stdout = "gone"
    BY <2>4 DEF Bit, in, out
  <2>6. \A t \in SemaThreads : sema[t] = "gone"
    BY <2>4, SemaRunningType DEF sem
  <2>7. \A i \in Indexers : indexer[i] \in {"unborn", "gone"}
    <3>1. IsFiniteSet({i \in Indexers : indexer[i] \in Running})
      BY <2>1, FS_Subset
    <3>2. {i \in Indexers : indexer[i] \in Running} = {}
      BY <2>4, <3>1, FS_EmptySet DEF IndexersIn, idx
    <3>3. QED
      BY <3>2 DEF TypeOK
  <2>8. session.standalone => completed = session.entries
    BY DEF EntriesCounted, QuitStates
  <2>9. QED
    BY <2>5, <2>6, <2>7, <2>8 DEF CleanExit
<1>5. QED
  BY <1>1, <1>3, <1>4, PTL DEF Spec

-----------------------------------------------------------------------------
(* The replies.  What the client will read, in order, grows at its end and  *)
(* is not changed by the thread that writes it.                             *)
LEMMA RepliedGrows ==
  ASSUME TypeOK
  PROVE  /\ Replied \in Seq(MessageIds)
         /\ UNCHANGED <<for_stdout, writing, written>> => Replied' = Replied
         /\ \A x \in MessageIds :
              for_stdout' = Append(for_stdout, x) /\ UNCHANGED <<writing, written>>
                => Replied' = Append(Replied, x)
         /\ Stdout /\ AllWritten => Replied' = Replied
<1>1. /\ for_stdout \in Seq(MessageIds) /\ writing \in Seq(MessageIds)
      /\ written \in Seq(MessageIds)
  BY DEF TypeOK
<1>2. written \o writing \in Seq(MessageIds) /\ Replied \in Seq(MessageIds)
  BY <1>1, ConcatProperties DEF Replied
<1>3. UNCHANGED <<for_stdout, writing, written>> => Replied' = Replied
  BY DEF Replied
<1>4. ASSUME NEW x \in MessageIds, for_stdout' = Append(for_stdout, x),
             UNCHANGED <<writing, written>>
      PROVE  Replied' = Append(Replied, x)
  <2>1. /\ Append(for_stdout, x) = for_stdout \o <<x>> /\ <<x>> \in Seq(MessageIds)
        /\ Append(Replied, x) = Replied \o <<x>>
    BY <1>1, <1>2, AppendIsConcat
  <2>2. (written \o writing) \o (for_stdout \o <<x>>) = ((written \o writing) \o for_stdout) \o <<x>>
    BY <1>1, <1>2, <2>1, ConcatAssociative, SMTT(30)
  <2>3. QED
    BY <1>4, <2>1, <2>2, Zenon DEF Replied
<1>5. ASSUME StdoutTake, AllWritten
      PROVE  Replied' = Replied
  <2>1. writing = <<>> /\ writing' = for_stdout /\ for_stdout' = <<>> /\ written' = written
    BY <1>5 DEF StdoutTake, AllWritten
  <2>2. /\ written \o <<>> = written /\ written \o for_stdout \in Seq(MessageIds)
        /\ (written \o for_stdout) \o <<>> = written \o for_stdout
    BY <1>1, ConcatProperties, ConcatEmptySeq
  <2>3. QED
    BY <2>1, <2>2, Zenon DEF Replied
<1>6. ASSUME StdoutWrite
      PROVE  Replied' = Replied
  <2>1. /\ writing # <<>> /\ written' = Append(written, Head(writing))
        /\ writing' = Tail(writing) /\ for_stdout' = for_stdout
    BY <1>6 DEF StdoutWrite
  <2>2. /\ Head(writing) \in MessageIds /\ Tail(writing) \in Seq(MessageIds)
        /\ <<Head(writing)>> \in Seq(MessageIds)
        /\ writing = <<Head(writing)>> \o Tail(writing)
    BY <1>1, <2>1
  <2>3. Append(written, Head(writing)) = written \o <<Head(writing)>>
    BY <1>1, <2>2, AppendIsConcat
  <2>4. (written \o <<Head(writing)>>) \o Tail(writing) = written \o (<<Head(writing)>> \o Tail(writing))
    BY <1>1, <2>2, ConcatAssociative
  <2>5. QED
    BY <2>1, <2>2, <2>3, <2>4, Zenon DEF Replied
<1>7. StdoutWait \/ StdoutSleep => UNCHANGED <<for_stdout, writing, written>>
  BY DEF StdoutWait, StdoutSleep
<1>8. QED
  BY <1>2, <1>3, <1>4, <1>5, <1>6, <1>7 DEF Stdout

(* The stdout thread takes a batch when it has written the last.            *)
LEMMA NextWritten ==
  ASSUME TypeOK, AllWritten, [Next]_vars
  PROVE  AllWritten'
<1>1. CASE Stdout
  BY <1>1 DEF Stdout, StdoutTake, StdoutWrite, StdoutWait, StdoutSleep, AllWritten
<1>2. CASE writing' = writing /\ stdout' \in {stdout, Woken(stdout)}
  BY <1>2 DEF AllWritten, Woken
<1>3. CASE UNCHANGED vars
  BY <1>2, <1>3 DEF vars
<1>4. CASE Stdin
  BY <1>2, <1>4 DEF Stdin, StdinMessage, StdinQuit, stdinElse
<1>5. CASE Main
  <2>1. writing' = writing
    BY <1>5 DEF Main, StandaloneInitialize, Dispatch, Round, RunInitialize, RunRequest,
         RunOpen, RunComplete, RunExit, MessagesDone, ApplyUpdates, MainWait, Poll, Quit,
         QuitLock, QuitNotify, Join, mainElse
  <2>2. stdout' \in {stdout, Woken(stdout)}
    BY <1>5 DEF Main, StandaloneInitialize, Initialize, Dispatch, Round, RunInitialize,
         RunRequest, RunOpen, RunComplete, RunExit, MessagesDone, ApplyUpdates, MainWait,
         Poll, Quit, QuitLock, QuitNotify, Join, Reply, NoReply
  <2>3. QED
    BY <1>2, <2>1, <2>2
<1>6. CASE \E t \in SemaThreads : Sema(t)
  BY <1>2, <1>6 DEF Sema, SemaLeave, CompDequeue, CompDrop, CompKeep, CompWork, semaElse,
                    Reply, NoReply
<1>7. CASE \E i \in Indexers : Indexer(i)
  BY <1>2, <1>7 DEF Indexer, IndexerPop, IndexerDone, IndexerFailed, IndexerWait,
                    IndexerSleep, indexerElse, Reply, NoReply
<1>8. QED
  BY <1>1, <1>3, <1>4, <1>5, <1>6, <1>7 DEF Next

(* Who answers what: the main thread, an indexer whose parse failed, and    *)
(* completionMain.                                                          *)
Quiet == UNCHANGED <<Replied, comp_tasks, HeldTasks>> /\ failed' \in {failed, failed + 1}

MainAnswers ==
  /\ RunInitialize \/ RunRequest
  /\ Replied' = Append(Replied, Head(batch))
  /\ UNCHANGED <<comp_tasks, HeldTasks, failed>>

MainDelegates ==
  /\ RunComplete
  /\ comp_tasks' = Append(comp_tasks, Head(batch))
  /\ UNCHANGED <<Replied, HeldTasks, failed>>

(* The null task of SemaManager::quit. *)
MainQuits ==
  /\ comp_tasks' = Append(comp_tasks, 0)
  /\ UNCHANGED <<sent, Pending, Replied, HeldTasks, failed>>

IndexerAnswers ==
  /\ ~session.standalone /\ ~Unborn /\ UNCHANGED <<sent, Pending>>
  /\ InitId \in Ids /\ session.script[InitId] = "initialize"
  /\ Replied' = Append(Replied, InitId) /\ failed' = failed + 1
  /\ UNCHANGED <<comp_tasks, HeldTasks>>

CompletionSteps ==
  /\ UNCHANGED <<sent, Pending, failed>>
  /\ \/ /\ comp_tasks # <<>> /\ comp_tasks' = Tail(comp_tasks)
        /\ \/ HeldTasks = {} /\ Replied' = Replied /\ HeldTasks' \subseteq {Head(comp_tasks)}
           \/ /\ HeldTasks = {task} /\ Replied' = Append(Replied, task)
              /\ HeldTasks' = {Head(comp_tasks)}
     \/ /\ comp_tasks' = comp_tasks /\ HeldTasks = {task} /\ HeldTasks' = {}
        /\ Replied' = Replied \/ Replied' = Append(Replied, task)

(* Every step is of one of these kinds, as far as answers are concerned.    *)
LEMMA AnswerSteps ==
  ASSUME TypeOK, StartedOnce, AllWritten, [Next]_vars
  PROVE  \/ Quiet /\ ~RunInitialize /\ ~RunRequest /\ ~RunComplete
         \/ MainAnswers \/ MainDelegates \/ MainQuits
         \/ IndexerAnswers \/ CompletionSteps
<1>1. failed \in Nat /\ sema \in [SemaThreads -> {"dequeue", "taken", "busy", "gone"}]
  BY DEF TypeOK
<1>2. ASSUME UNCHANGED <<sema, task, comp_tasks, failed>>, Replied' = Replied
      PROVE  Quiet
  BY <1>1, <1>2 DEF Quiet, HeldTasks
<1>3. batch' = batch => ~RunInitialize /\ ~RunRequest /\ ~RunComplete
  <2>1. batch \in Seq(MessageIds)
    BY DEF TypeOK
  <2>2. batch # <<>> => Tail(batch) # batch
    BY <2>1
  <2>3. QED
    BY <2>2 DEF RunInitialize, RunRequest, RunComplete
<1>4. CASE UNCHANGED vars
  BY <1>2, <1>3, <1>4, RepliedGrows DEF vars, queues, semaVars
<1>5. CASE Stdin \/ Stdout
  <2>1. UNCHANGED <<sema, task, comp_tasks, failed, batch>>
    BY <1>5 DEF Stdin, StdinMessage, StdinQuit, stdinElse, Stdout, StdoutTake,
                StdoutWrite, StdoutWait, StdoutSleep, stdoutElse, semaVars
  <2>2. Stdin => UNCHANGED <<for_stdout, writing, written>>
    BY DEF Stdin, StdinMessage, StdinQuit, stdinElse
  <2>3. QED
    BY <1>2, <1>3, <1>5, <2>1, <2>2, RepliedGrows
<1>6. CASE RunInitialize \/ RunRequest
  <2>1. /\ batch # <<>> /\ ~session.standalone /\ Reply(Head(batch))
        /\ UNCHANGED <<writing, written, sema, task, comp_tasks, failed>>
    BY <1>6 DEF RunInitialize, RunRequest, Initialize, mainElse, semaVars, TypeOK,
                PollStates, QuitStates
  <2>2. Head(batch) \in MessageIds
    BY <2>1 DEF TypeOK
  <2>3. Replied' = Append(Replied, Head(batch))
    BY <2>1, <2>2, RepliedGrows DEF Reply
  <2>4. MainAnswers
    BY <1>6, <2>1, <2>3 DEF MainAnswers, HeldTasks
  <2>5. QED
    BY <2>4
<1>7. CASE RunComplete
  <2>1. /\ comp_tasks' = Append(comp_tasks, Head(batch))
        /\ UNCHANGED <<for_stdout, writing, written, sema, task, failed>>
    BY <1>7 DEF RunComplete, mainElse, semaVars
  <2>2. MainDelegates
    BY <1>7, <2>1, RepliedGrows DEF MainDelegates, HeldTasks
  <2>3. QED
    BY <2>2
<1>8. CASE \/ StandaloneInitialize \/ Dispatch \/ Round \/ RunOpen \/ RunExit
           \/ MessagesDone \/ ApplyUpdates \/ MainWait \/ Poll \/ QuitLock \/ QuitNotify
           \/ Join
  <2>1. UNCHANGED <<writing, written, sema, task, comp_tasks, failed>>
    BY <1>8 DEF StandaloneInitialize, Dispatch, Round, RunOpen, RunExit, MessagesDone,
         ApplyUpdates, MainWait, Poll, QuitLock, QuitNotify, Join, mainElse, queues, semaVars
  <2>2. for_stdout' = for_stdout
    BY <1>8 DEF StandaloneInitialize, Initialize, NoReply, Dispatch, Round, RunOpen,
         RunExit, MessagesDone, ApplyUpdates, MainWait, Poll, QuitLock, QuitNotify, Join,
         queues, TypeOK, ServerStates, QuitStates
  <2>3. Quiet
    BY <1>2, <2>1, <2>2, RepliedGrows
  <2>4. QED
    BY <1>6, <1>7, <2>3
<1>9. CASE Quit
  <2>1. /\ comp_tasks' = Append(comp_tasks, 0)
        /\ UNCHANGED <<sent, batch, on_request, for_stdout, writing, written, sema, task, failed>>
    BY <1>9 DEF Quit, mainElse, semaVars
  <2>2. MainQuits
    BY <2>1, RepliedGrows DEF MainQuits, HeldTasks, Pending
  <2>3. QED
    BY <2>2
<1>10. ASSUME NEW t \in SemaThreads, SemaLeave(t)
       PROVE  Quiet /\ batch' = batch
  <2>1. /\ UNCHANGED <<for_stdout, writing, written, task, comp_tasks, failed, batch>>
        /\ sema'["comp"] = sema["comp"]
    BY <1>1, <1>10 DEF SemaLeave, NoReply, semaElse, SemaThreads
  <2>2. QED
    BY <1>1, <2>1, RepliedGrows DEF Quiet, HeldTasks
<1>11. CASE CompKeep
  <2>1. /\ UNCHANGED <<for_stdout, writing, written, task, comp_tasks, failed, batch>>
        /\ sema["comp"] = "taken" /\ sema'["comp"] = "busy"
    BY <1>1, <1>11 DEF CompKeep, NoReply, semaElse, SemaThreads
  <2>2. Quiet
    BY <1>1, <2>1, RepliedGrows DEF Quiet, HeldTasks
  <2>3. QED
    BY <1>3, <2>1, <2>2
<1>12. CASE CompDequeue
  <2>1. /\ UNCHANGED <<sent, batch, on_request, for_stdout, writing, written, failed>>
        /\ comp_tasks # <<>> /\ comp_tasks' = Tail(comp_tasks) /\ task' = Head(comp_tasks)
        /\ sema["comp"] = "dequeue"
    BY <1>12 DEF CompDequeue, NoReply, semaElse
  <2>2. CompletionSteps
    BY <2>1, RepliedGrows DEF CompletionSteps, HeldTasks, Pending
  <2>3. QED
    BY <2>2
<1>13. CASE CompDrop
  <2>1. /\ UNCHANGED <<sent, batch, on_request, writing, written, failed>> /\ Reply(task)
        /\ comp_tasks # <<>> /\ comp_tasks' = Tail(comp_tasks) /\ task' = Head(comp_tasks)
        /\ sema["comp"] = "taken" /\ sema'["comp"] \in {"taken", "busy"}
    BY <1>1, <1>13 DEF CompDrop, semaElse, SemaThreads
  <2>2. Replied' = Append(Replied, task)
    BY <2>1, RepliedGrows DEF Reply, TypeOK
  <2>3. CompletionSteps
    BY <2>1, <2>2 DEF CompletionSteps, HeldTasks, Pending
  <2>4. QED
    BY <2>3
<1>14. CASE CompWork
  <2>1. /\ UNCHANGED <<sent, batch, on_request, writing, written, failed, comp_tasks>>
        /\ NoReply \/ Reply(task)
        /\ sema["comp"] = "busy" /\ sema'["comp"] = "dequeue"
    BY <1>1, <1>14 DEF CompWork, semaElse, SemaThreads
  <2>2. Replied' = Replied \/ Replied' = Append(Replied, task)
    BY <2>1, RepliedGrows DEF Reply, NoReply, TypeOK
  <2>3. CompletionSteps
    BY <2>1, <2>2 DEF CompletionSteps, HeldTasks, Pending
  <2>4. QED
    BY <2>3
<1>15. ASSUME NEW i \in Indexers, Indexer(i)
       PROVE  (Quiet /\ batch' = batch) \/ IndexerAnswers
  <2>1. UNCHANGED <<sent, batch, on_request, writing, written, sema, task, comp_tasks>>
    BY <1>15 DEF Indexer, IndexerPop, IndexerDone, IndexerFailed, IndexerWait,
                 IndexerSleep, indexerElse, semaVars
  <2>2. CASE UNCHANGED for_stdout
    <3>1. failed' \in {failed, failed + 1}
      BY <1>1, <1>15 DEF Indexer, IndexerPop, IndexerDone, IndexerFailed, IndexerWait,
                         IndexerSleep
    <3>2. QED
      BY <2>1, <2>2, <3>1, RepliedGrows DEF Quiet, HeldTasks
  <2>3. CASE IndexerFailed(i) /\ HasId(indexer[i])
    <3>1. /\ indexer[i] = "initial" /\ ~session.standalone /\ failed' = failed + 1
          /\ Reply(InitId)
      BY <2>3 DEF IndexerFailed, HasId
    <3>2. ~Unborn
      BY <3>1 DEF Unborn
    <3>3. InitId \in Ids /\ session.script[InitId] = "initialize"
      BY <3>1, <3>2 DEF InitId, StartedOnce
    <3>4. InitId \in MessageIds
      BY <3>3, SessionFacts DEF MessageIds, TypeOK
    <3>5. Replied' = Append(Replied, InitId)
      BY <2>1, <3>1, <3>4, RepliedGrows DEF Reply
    <3>6. QED
      BY <2>1, <3>1, <3>2, <3>3, <3>5 DEF IndexerAnswers, HeldTasks, Pending
  <2>4. QED
    BY <1>15, <2>2, <2>3 DEF Indexer, IndexerPop, IndexerDone, IndexerFailed,
                             IndexerWait, IndexerSleep, NoReply
<1>16. QED
  BY <1>3, <1>4, <1>5, <1>6, <1>7, <1>8, <1>9, <1>10, <1>11, <1>12, <1>13, <1>14, <1>15
     DEF Next, Main, Sema

(* Where message k is, as numbers. *)
InPending(k) == Count(Pending, {k})
InReplied(k) == Count(Replied, {k})
InTasks(k) == Count(comp_tasks, {k})

(* A message that is pending is counted once more by StdinMessage and once  *)
(* less when it is run.                                                     *)
LEMMA PendingCount ==
  ASSUME TypeOK, PendingInOrder, [Next]_vars, NEW k \in Ids
  PROVE  /\ InPending(k) \in Nat /\ InPending(k)' \in Nat
         /\ sent' \in {sent, sent + 1}
         /\ Run => /\ InPending(k) = Bit(Head(batch) = k) + InPending(k)'
                   /\ sent' = sent /\ Head(batch) <= sent /\ Head(batch) \in MessageIds
         /\ ~Run => \/ InPending(k)' = InPending(k)
                    \/ InPending(k)' = InPending(k) + 1 /\ k = sent + 1 /\ sent' = sent + 1
<1>1. /\ Pending \in Seq(MessageIds) /\ k \in Nat \ {0} /\ sent \in Nat
      /\ Len(session.script) \in Nat
  <2>1. Len(session.script) \in Nat /\ Ids = 1 .. Len(session.script)
    BY SessionFacts DEF TypeOK
  <2>2. Pending \in Seq(MessageIds)
    BY PendingSteps
  <2>3. QED
    BY <2>1, <2>2 DEF TypeOK, MessageIds
<1>2. InPending(k) \in Nat
  BY <1>1, CountType DEF InPending
<1>3. ASSUME NEW x \in MessageIds, Pending' = Append(Pending, x)
      PROVE  /\ InPending(k)' = InPending(k) + Bit(x = k)
  <2>1. Count(Append(Pending, x), {k}) = Count(Pending, {k}) + Bit(x \in {k})
    BY <1>1, CountAppend
  <2>2. Bit(x \in {k}) = Bit(x = k)
    BY DEF Bit
  <2>3. QED
    BY <1>3, <2>1, <2>2, Zenon DEF InPending
<1>4. ASSUME Pending # <<>>, Pending' = Tail(Pending)
      PROVE  /\ InPending(k) = Bit(Head(Pending) = k) + InPending(k)'
             /\ InPending(k)' \in Nat
  <2>1. Count(Pending, {k}) = Bit(Head(Pending) \in {k}) + Count(Tail(Pending), {k})
    BY <1>1, <1>4, CountTail
  <2>2. Bit(Head(Pending) \in {k}) = Bit(Head(Pending) = k)
    BY DEF Bit
  <2>3. Tail(Pending) \in Seq(MessageIds)
    BY <1>1, <1>4, HeadTailProperties
  <2>4. Count(Tail(Pending), {k}) \in Nat
    BY <2>3, CountType
  <2>5. QED
    BY <1>4, <2>1, <2>2, <2>4, Zenon DEF InPending
<1>5. CASE sent' = sent /\ Pending' = Pending /\ ~Run
  BY <1>2, <1>5 DEF InPending
<1>6. StdinMessage \/ StdinQuit => ~Run
  <2>1. batch \in Seq(MessageIds)
    BY DEF TypeOK
  <2>2. batch # <<>> => Tail(batch) # batch
    BY <2>1
  <2>3. StdinMessage \/ StdinQuit => batch' = batch
    BY DEF StdinMessage, StdinQuit, stdinElse
  <2>4. QED
    BY <2>2, <2>3 DEF Run, RunInitialize, RunRequest, RunOpen, RunComplete, RunExit
<1>7. CASE StdinMessage /\ Pending' = Pending /\ sent' = sent + 1
  BY <1>2, <1>6, <1>7 DEF InPending
<1>8. CASE StdinMessage /\ Pending' = Append(Pending, sent') /\ sent' = sent + 1
  <2>1. sent' \in MessageIds
    BY <1>1, <1>8 DEF StdinMessage, ClientReady, MessageIds
  <2>2. InPending(k)' = InPending(k) + Bit(sent' = k)
    BY <1>3, <1>8, <2>1
  <2>3. Bit(sent' = k) = IF k = sent + 1 THEN 1 ELSE 0
    BY <1>8 DEF Bit
  <2>4. QED
    BY <1>2, <1>6, <1>8, <2>2, <2>3
<1>9. CASE StdinQuit /\ Pending' = Append(Pending, 0) /\ sent' \in {sent, sent + 1}
  <2>1. 0 \in MessageIds
    BY <1>1 DEF MessageIds
  <2>2. InPending(k)' = InPending(k) + Bit(0 = k)
    BY <1>3, <1>9, <2>1
  <2>3. Bit(0 = k) = 0
    BY <1>1 DEF Bit
  <2>4. QED
    BY <1>2, <1>6, <1>9, <2>2, <2>3
<1>10. CASE /\ Run /\ Pending # <<>> /\ Head(Pending) = Head(batch)
            /\ Head(batch) \in MessageIds /\ Pending' = Tail(Pending) /\ sent' = sent
  <2>1. 1 \in DOMAIN Pending /\ Pending[1] = Head(Pending)
    BY <1>1, <1>10
  <2>2. Head(batch) <= sent
    BY <1>10, <2>1 DEF PendingInOrder
  <2>3. QED
    BY <1>2, <1>4, <1>10, <2>2
<1>11. QED
  BY <1>5, <1>7, <1>8, <1>9, <1>10, PendingSteps

(* Appending a reply or a task, and taking a task.                          *)
LEMMA AnswerCount ==
  ASSUME TypeOK, NEW k \in Ids
  PROVE  /\ InReplied(k) \in Nat /\ InTasks(k) \in Nat
         /\ Replied' = Replied => InReplied(k)' = InReplied(k)
         /\ comp_tasks' = comp_tasks => InTasks(k)' = InTasks(k)
         /\ \A x \in MessageIds :
              Replied' = Append(Replied, x) => InReplied(k)' = InReplied(k) + Bit(x = k)
         /\ \A x \in MessageIds :
              comp_tasks' = Append(comp_tasks, x) => InTasks(k)' = InTasks(k) + Bit(x = k)
         /\ comp_tasks # <<>> /\ comp_tasks' = Tail(comp_tasks) =>
              /\ InTasks(k) = Bit(Head(comp_tasks) = k) + InTasks(k)'
              /\ InTasks(k)' \in Nat /\ Head(comp_tasks) \in MessageIds
<1>1. Replied \in Seq(MessageIds) /\ comp_tasks \in Seq(MessageIds)
  BY RepliedGrows DEF TypeOK
<1>2. InReplied(k) \in Nat /\ InTasks(k) \in Nat
  BY <1>1, CountType DEF InReplied, InTasks
<1>3. ASSUME NEW x \in MessageIds
      PROVE  /\ Count(Append(Replied, x), {k}) = InReplied(k) + Bit(x = k)
             /\ Count(Append(comp_tasks, x), {k}) = InTasks(k) + Bit(x = k)
  <2>1. /\ Count(Append(Replied, x), {k}) = Count(Replied, {k}) + Bit(x \in {k})
        /\ Count(Append(comp_tasks, x), {k}) = Count(comp_tasks, {k}) + Bit(x \in {k})
    BY <1>1, CountAppend
  <2>2. Bit(x \in {k}) = Bit(x = k)
    BY DEF Bit
  <2>3. QED
    BY <2>1, <2>2, Zenon DEF InReplied, InTasks
<1>4. ASSUME comp_tasks # <<>>, comp_tasks' = Tail(comp_tasks)
      PROVE  /\ InTasks(k) = Bit(Head(comp_tasks) = k) + InTasks(k)'
             /\ InTasks(k)' \in Nat /\ Head(comp_tasks) \in MessageIds
  <2>1. Count(comp_tasks, {k}) = Bit(Head(comp_tasks) \in {k}) + Count(Tail(comp_tasks), {k})
    BY <1>1, <1>4, CountTail
  <2>2. Bit(Head(comp_tasks) \in {k}) = Bit(Head(comp_tasks) = k)
    BY DEF Bit
  <2>3. Tail(comp_tasks) \in Seq(MessageIds) /\ Head(comp_tasks) \in MessageIds
    BY <1>1, <1>4, HeadTailProperties
  <2>4. Count(Tail(comp_tasks), {k}) \in Nat
    BY <2>3, CountType
  <2>5. QED
    BY <1>4, <2>1, <2>2, <2>3, <2>4, Zenon DEF InTasks
<1>5. QED
  BY <1>2, <1>3, <1>4, Zenon DEF InReplied, InTasks

(* Before the first message nothing was asked, answered or delegated.       *)
LEMMA InitAnswers == Init => AnsweredOnce /\ AnsweredInOrder /\ AllWritten /\ PoliteExit
<1> SUFFICES ASSUME Init PROVE AnsweredOnce /\ AnsweredInOrder /\ AllWritten /\ PoliteExit
  OBVIOUS
<1>1. Pending = <<>> /\ Replied = <<>> /\ comp_tasks = <<>>
  BY DEF Init, Pending, Replied
<1>2. HeldTasks = {} /\ sent = 0 /\ failed = 0 /\ Unborn
  BY DEF Init, HeldTasks, SemaThreads, Unborn
<1>3. \A k \in Ids : /\ Count(Pending, {k}) = 0 /\ Count(Replied, {k}) = 0
                     /\ Count(comp_tasks, {k}) = 0 /\ Bit(Held(k)) = 0 /\ ~Held(k)
  BY <1>1, <1>2, CountEmpty DEF Held, Bit
<1>4. AnsweredOnce
  BY <1>2, <1>3 DEF AnsweredOnce
<1>5. AnsweredInOrder
  BY <1>1, <1>2 DEF AnsweredInOrder, Held
<1>6. AllWritten /\ PoliteExit
  BY <1>2 DEF Init, AllWritten, PoliteExit, Exited
<1>7. QED
  BY <1>4, <1>5, <1>6

(* A message goes from the queue to the batch, from there to an answer or   *)
(* to the completion thread, and from that to an answer; initialize is      *)
(* answered again by each failed parse.                                     *)
LEMMA NextAnsweredOnce ==
  ASSUME TypeOK, StartedOnce, PendingInOrder, AllWritten, AnsweredOnce, [Next]_vars
  PROVE  AnsweredOnce'
<1>1. session' = session /\ Ids' = Ids
  BY SameSession DEF Ids
<1>2. SUFFICES ASSUME NEW k \in Ids
      PROVE /\ k > sent' => /\ InPending(k)' = 0 /\ InReplied(k)' = 0
                            /\ InTasks(k)' = 0 /\ ~Held(k)'
            /\ session.script[k] = "initialize" =>
                 /\ InTasks(k)' = 0 /\ ~Held(k)'
                 /\ InReplied(k)' <= IF Unborn' THEN 0 ELSE 1 + failed'
            /\ session.script[k] # "initialize" =>
                 InPending(k)' + InReplied(k)' + InTasks(k)' + Bit(Held(k)') <= 1
  BY <1>1 DEF AnsweredOnce, InPending, InReplied, InTasks
<1> DEFINE p == InPending(k)
           r == InReplied(k)
           c == InTasks(k)
           h == IF Held(k) THEN 1 ELSE 0
           pp == InPending(k)'
           rr == InReplied(k)'
           cc == InTasks(k)'
           hh == IF Held(k)' THEN 1 ELSE 0
           init == session.script[k] = "initialize"
           OnceNow == /\ k > sent => p = 0 /\ r = 0 /\ c = 0 /\ h = 0
                      /\ init => c = 0 /\ h = 0 /\ r <= IF Unborn THEN 0 ELSE 1 + failed
                      /\ ~init => p + r + c + h <= 1
           OnceThen == /\ k > sent' => pp = 0 /\ rr = 0 /\ cc = 0 /\ hh = 0
                       /\ init => cc = 0 /\ hh = 0 /\ rr <= IF Unborn' THEN 0 ELSE 1 + failed'
                       /\ ~init => pp + rr + cc + hh <= 1
<1>3. SUFFICES OnceThen
  BY <1>3 DEF Bit
<1>4. OnceNow
  BY <1>2 DEF AnsweredOnce, InPending, InReplied, InTasks, Bit
<1>5. /\ p \in Nat /\ pp \in Nat /\ sent' \in {sent, sent + 1}
      /\ Run => /\ p = Bit(Head(batch) = k) + pp
                /\ sent' = sent /\ Head(batch) <= sent /\ Head(batch) \in MessageIds
      /\ ~Run => \/ pp = p
                 \/ pp = p + 1 /\ k = sent + 1 /\ sent' = sent + 1
  BY PendingCount
<1>6. /\ r \in Nat /\ c \in Nat
      /\ Replied' = Replied => rr = r
      /\ comp_tasks' = comp_tasks => cc = c
      /\ \A x \in MessageIds : Replied' = Append(Replied, x) => rr = r + Bit(x = k)
      /\ \A x \in MessageIds : comp_tasks' = Append(comp_tasks, x) => cc = c + Bit(x = k)
      /\ comp_tasks # <<>> /\ comp_tasks' = Tail(comp_tasks) =>
           /\ c = Bit(Head(comp_tasks) = k) + cc
           /\ cc \in Nat /\ Head(comp_tasks) \in MessageIds
  BY AnswerCount
<1>7. /\ Len(session.script) \in Nat /\ Ids = 1 .. Len(session.script)
  BY SessionFacts DEF TypeOK
<1>8. /\ sent \in Nat /\ k \in Nat /\ k # 0 /\ failed \in Nat /\ task \in MessageIds
      /\ 0 \in MessageIds
  BY <1>7 DEF TypeOK, MessageIds
<1>9. \A x \in MessageIds : x # 0 => x \in Ids
  BY <1>7 DEF MessageIds
<1>10. h \in {0, 1} /\ hh \in {0, 1} /\ (HeldTasks' = HeldTasks => hh = h)
  BY DEF Held
<1>11. Unborn' => Unborn
  BY UnbornSteps
<1>12. p # 0 /\ init /\ ~session.standalone => Unborn
  <2>1. Pending \in Seq(MessageIds)
    BY PendingSteps
  <2>2. p # 0 => \E j \in DOMAIN Pending : Pending[j] \in {k}
    BY <2>1, CountType DEF InPending
  <2>3. QED
    BY <2>2 DEF PendingInOrder
<1> HIDE DEF p, r, c, h, pp, rr, cc, hh, init
<1>13. CASE Quiet
  <2>1. rr = r /\ cc = c /\ hh = h /\ failed' \in {failed, failed + 1}
    BY <1>6, <1>10, <1>13 DEF Quiet
  <2>2. failed' \in Nat /\ failed' >= failed
    BY <1>8, <2>1
  <2>3. pp <= p \/ (pp = p + 1 /\ k = sent + 1 /\ sent' = sent + 1)
    <3>1. CASE Run
      BY <1>5, <3>1 DEF Bit
    <3>2. CASE ~Run
      BY <1>5, <3>2
    <3>3. QED
      BY <3>1, <3>2
  <2>4. k > sent' => pp <= p /\ k > sent
    BY <1>5, <1>8, <2>3
  <2>5. k > sent' => pp = 0 /\ rr = 0 /\ cc = 0 /\ hh = 0
    BY <1>4, <1>5, <2>1, <2>4
  <2>6. init => cc = 0 /\ hh = 0 /\ rr <= IF Unborn' THEN 0 ELSE 1 + failed'
    <3>1. init => c = 0 /\ h = 0 /\ (Unborn => r <= 0) /\ (~Unborn => r <= 1 + failed)
      BY <1>4
    <3> DEFINE f == failed
               ff == failed'
    <3>2. f \in Nat /\ ff \in Nat /\ f <= ff
      BY <1>8, <2>2
    <3> HIDE DEF f, ff
    <3>3. init => (Unborn' => rr <= 0) /\ (~Unborn' => rr <= 1 + failed')
      <4>1. init => (Unborn' => rr <= 0) /\ (~Unborn' => rr <= 1 + ff)
        BY <1>6, <1>11, <2>1, <3>1, <3>2 DEF f
      <4>2. QED
        BY <4>1 DEF ff
    <3>4. QED
      BY <2>1, <3>1, <3>3
  <2>7. ~init => pp + rr + cc + hh <= 1
    <3>1. CASE pp <= p
      BY <1>4, <1>5, <1>6, <1>10, <2>1, <3>1
    <3>2. CASE pp = p + 1 /\ k = sent + 1
      BY <1>4, <1>5, <1>6, <1>8, <1>10, <2>1, <3>2
    <3>3. QED
      BY <2>3, <3>1, <3>2
  <2>8. QED
    BY <2>5, <2>6, <2>7
<1>14. CASE MainAnswers
  <2>1. Run /\ failed' = failed /\ cc = c /\ hh = h
    BY <1>6, <1>10, <1>14 DEF MainAnswers, Run
  <2>2. sent' = sent /\ Head(batch) <= sent /\ Head(batch) \in MessageIds
    BY <1>5, <2>1
  <2>3. rr = r + Bit(Head(batch) = k)
    BY <1>6, <1>14, <2>2 DEF MainAnswers
  <2>4. CASE Head(batch) # k
    <3>1. rr = r /\ pp = p
      BY <1>5, <1>6, <2>1, <2>3, <2>4 DEF Bit
    <3>2. QED
      BY <1>4, <1>5, <1>6, <1>8, <1>10, <1>11, <2>1, <2>2, <3>1
  <2>5. CASE Head(batch) = k
    <3>1. rr = r + 1 /\ p = pp + 1
      BY <1>5, <1>6, <2>1, <2>3, <2>5 DEF Bit
    <3>2. RunRequest => ~init
      BY <1>8, <2>5 DEF RunRequest, KindOf, init
    <3>3. CASE RunInitialize /\ init
      <4>1. ~session.standalone
        BY <3>3 DEF RunInitialize, TypeOK, PollStates, QuitStates
      <4>2. Unborn
        BY <1>5, <1>12, <3>1, <3>3, <4>1
      <4>3. ~Unborn'
        BY <1>1, <3>3, SessionFacts DEF RunInitialize, Initialize, Unborn, Indexers, TypeOK
      <4>4. QED
        BY <1>4, <1>5, <1>6, <1>8, <1>10, <2>1, <2>2, <2>5, <3>1, <3>3, <4>2, <4>3
    <3>4. CASE ~init
      BY <1>4, <1>5, <1>6, <1>8, <1>10, <2>1, <2>2, <2>5, <3>1, <3>4
    <3>5. QED
      BY <1>14, <3>2, <3>3, <3>4 DEF MainAnswers
  <2>6. QED
    BY <2>4, <2>5
<1>15. CASE MainDelegates
  <2>1. Run /\ failed' = failed /\ rr = r /\ hh = h
    BY <1>6, <1>10, <1>15 DEF MainDelegates, Run
  <2>2. sent' = sent /\ Head(batch) <= sent /\ Head(batch) \in MessageIds
    BY <1>5, <2>1
  <2>3. cc = c + Bit(Head(batch) = k)
    BY <1>6, <1>15, <2>2 DEF MainDelegates
  <2>4. CASE Head(batch) # k
    <3>1. cc = c /\ pp = p
      BY <1>5, <1>6, <2>1, <2>3, <2>4 DEF Bit
    <3>2. QED
      BY <1>4, <1>5, <1>6, <1>8, <1>10, <1>11, <2>1, <2>2, <3>1
  <2>5. CASE Head(batch) = k
    <3>1. cc = c + 1 /\ p = pp + 1
      BY <1>5, <1>6, <2>1, <2>3, <2>5 DEF Bit
    <3>2. ~init
      BY <1>8, <1>15, <2>5 DEF MainDelegates, RunComplete, KindOf, init
    <3>3. QED
      BY <1>4, <1>5, <1>6, <1>8, <1>10, <2>1, <2>2, <2>5, <3>1, <3>2
  <2>6. QED
    BY <2>4, <2>5
<1>16. CASE MainQuits
  <2>1. sent' = sent /\ pp = p /\ failed' = failed /\ rr = r /\ hh = h
    BY <1>6, <1>10, <1>16 DEF MainQuits, InPending, p, pp
  <2>2. cc = c + Bit(0 = k)
    BY <1>6, <1>8, <1>16 DEF MainQuits
  <2>3. cc = c
    BY <1>6, <1>8, <2>2 DEF Bit
  <2>4. QED
    BY <1>4, <1>5, <1>6, <1>8, <1>10, <1>11, <2>1, <2>3
<1>17. CASE IndexerAnswers
  <2>1. sent' = sent /\ pp = p /\ failed' = failed + 1 /\ cc = c /\ hh = h /\ ~Unborn
    BY <1>6, <1>10, <1>17 DEF IndexerAnswers, InPending, p, pp
  <2>2. InitId \in MessageIds
    BY <1>7, <1>17 DEF IndexerAnswers, MessageIds
  <2>3. rr = r + Bit(InitId = k)
    BY <1>6, <1>17, <2>2 DEF IndexerAnswers
  <2>4. InitId = k => init /\ ~(k > sent)
    BY <1>17 DEF IndexerAnswers, PendingInOrder, init
  <2>5. CASE InitId = k
    <3>1. rr = r + 1
      BY <1>6, <2>3, <2>5 DEF Bit
    <3>2. QED
      BY <1>4, <1>5, <1>6, <1>8, <1>10, <1>11, <2>1, <2>4, <2>5, <3>1
  <2>6. CASE InitId # k
    <3>1. rr = r
      BY <1>6, <2>3, <2>6 DEF Bit
    <3>2. QED
      BY <1>4, <1>5, <1>6, <1>8, <1>10, <1>11, <2>1, <3>1
  <2>7. QED
    BY <2>5, <2>6
<1>18. CASE CompletionSteps
  <2>1. sent' = sent /\ pp = p /\ failed' = failed
    BY <1>18 DEF CompletionSteps, InPending, p, pp
  <2>2. CASE /\ comp_tasks # <<>> /\ comp_tasks' = Tail(comp_tasks)
             /\ HeldTasks = {} /\ Replied' = Replied /\ HeldTasks' \subseteq {Head(comp_tasks)}
    <3>1. h = 0 /\ (hh = 1 => Head(comp_tasks) = k) /\ rr = r
      BY <1>6, <2>2 DEF Held, h, hh
    <3>2. c = Bit(Head(comp_tasks) = k) + cc /\ cc \in Nat
      BY <1>6, <2>2
    <3>3. cc + hh <= c
      BY <1>6, <1>10, <3>1, <3>2 DEF Bit
    <3>4. QED
      BY <1>4, <1>5, <1>6, <1>8, <1>10, <1>11, <2>1, <3>1, <3>2, <3>3
  <2>3. CASE /\ comp_tasks # <<>> /\ comp_tasks' = Tail(comp_tasks)
             /\ HeldTasks = {task} /\ Replied' = Append(Replied, task)
             /\ HeldTasks' = {Head(comp_tasks)}
    <3>1. h = Bit(task = k) /\ hh = Bit(Head(comp_tasks) = k)
      BY <2>3 DEF Held, h, hh, Bit
    <3>2. rr = r + Bit(task = k)
      BY <1>6, <1>8, <2>3
    <3>3. c = Bit(Head(comp_tasks) = k) + cc /\ cc \in Nat
      BY <1>6, <2>3
    <3>4. rr = r + h /\ c = hh + cc
      BY <3>1, <3>2, <3>3, Zenon
    <3>5. QED
      BY <1>4, <1>5, <1>6, <1>8, <1>10, <1>11, <2>1, <3>3, <3>4
  <2>4. CASE /\ comp_tasks' = comp_tasks /\ HeldTasks = {task} /\ HeldTasks' = {}
             /\ Replied' = Replied \/ Replied' = Append(Replied, task)
    <3>1. h = Bit(task = k) /\ hh = 0 /\ cc = c
      BY <1>6, <2>4 DEF Held, h, hh, Bit
    <3>2. rr = r \/ rr = r + Bit(task = k)
      BY <1>6, <1>8, <2>4
    <3>3. rr = r \/ rr = r + h
      BY <3>1, <3>2, Zenon
    <3>4. QED
      BY <1>4, <1>5, <1>6, <1>8, <1>10, <1>11, <2>1, <3>1, <3>3
  <2>5. QED
    BY <1>18, <2>2, <2>3, <2>4 DEF CompletionSteps
<1>19. QED
  BY <1>13, <1>14, <1>15, <1>16, <1>17, <1>18, AnswerSteps

(* What is answered stays answered.                                         *)
LEMMA AnsweredGrows ==
  ASSUME TypeOK, session' = session,
         Replied' = Replied \/ \E x \in MessageIds : Replied' = Append(Replied, x)
  PROVE  /\ \A k : Answered(k) => Answered(k)'
         /\ \A n : DirectAnswered(n) => DirectAnswered(n)'
<1>1. Replied \in Seq(MessageIds)
  BY RepliedGrows
<1>2. ASSUME NEW k, Answered(k)
      PROVE  Answered(k)'
  <2>1. PICK j \in DOMAIN Replied : Replied[j] = k
    BY <1>2 DEF Answered
  <2>2. CASE Replied' = Replied
    BY <2>1, <2>2 DEF Answered
  <2>3. CASE \E x \in MessageIds : Replied' = Append(Replied, x)
    <3>1. PICK x \in MessageIds : Replied' = Append(Replied, x)
      BY <2>3
    <3>2. j \in DOMAIN Append(Replied, x) /\ Append(Replied, x)[j] = k
      BY <1>1, <2>1, AppendProperties, LenProperties
    <3>3. QED
      BY <3>1, <3>2 DEF Answered
  <2>4. QED
    BY <2>2, <2>3
<1>3. ASSUME NEW n, DirectAnswered(n)
      PROVE  DirectAnswered(n)'
  BY <1>2, <1>3 DEF DirectAnswered
<1>4. QED
  BY <1>2, <1>3

(* When the main thread runs a message, it has answered what it had to      *)
(* answer before.                                                           *)
LEMMA DirectFirst ==
  ASSUME TypeOK, PendingInOrder, AnsweredInOrder, [Next]_vars, Run
  PROVE  /\ DirectAnswered(Head(batch)) /\ Head(batch) \in MessageIds
         /\ Pending # <<>> /\ Pending \in Seq(MessageIds)
         /\ Head(Pending) = Head(batch) /\ Pending' = Tail(Pending) /\ sent' = sent
<1>1. /\ Pending # <<>> /\ Pending \in Seq(MessageIds) /\ Head(batch) \in MessageIds
      /\ Head(Pending) = Head(batch) /\ Pending' = Tail(Pending) /\ sent' = sent
  <2>1. batch \in Seq(MessageIds)
    BY DEF TypeOK
  <2>2. batch # <<>> /\ batch' = Tail(batch)
    BY DEF Run, RunInitialize, RunRequest, RunOpen, RunComplete, RunExit
  <2>3. batch' # batch
    BY <2>1, <2>2
  <2>4. ~StdinMessage /\ ~StdinQuit
    BY <2>3 DEF StdinMessage, StdinQuit, stdinElse
  <2>5. QED
    BY <2>4, PendingSteps
<1>2. sent \in Nat /\ MessageIds \subseteq Nat
  <2>1. Len(session.script) \in Nat
    BY SessionFacts DEF TypeOK
  <2>2. QED
    BY <2>1 DEF TypeOK, MessageIds
<1>3. /\ Len(Pending) \in Nat \ {0} /\ DOMAIN Pending = 1 .. Len(Pending)
      /\ Pending[1] = Head(batch) /\ \A j \in DOMAIN Pending : Pending[j] \in Nat
  <2>1. Len(Pending) \in Nat /\ DOMAIN Pending = 1 .. Len(Pending)
    BY <1>1, LenProperties
  <2>2. Len(Pending) # 0
    BY <1>1, EmptySeq
  <2>3. Pending[1] = Head(Pending)
    BY <1>1
  <2>4. \A j \in DOMAIN Pending : Pending[j] \in MessageIds
    BY <1>1, <2>1, ElementOfSeq
  <2>5. QED
    BY <1>1, <1>2, <2>1, <2>2, <2>3, <2>4
<1>4. Head(batch) <= sent /\ Head(batch) \in Nat
  BY <1>1, <1>2, <1>3 DEF PendingInOrder
<1>5. ASSUME NEW k \in 1 .. Head(batch) - 1, session.script[k] \in Direct
      PROVE  Answered(k)
  <2>1. k \in 1 .. sent /\ k < Head(batch) /\ k \in Nat /\ k # 0
    BY <1>2, <1>4
  <2>2. SUFFICES ASSUME NEW j \in DOMAIN Pending, Pending[j] = k
        PROVE  FALSE
    BY <1>5, <2>1 DEF AnsweredInOrder
  <2>3. j # 1 /\ 1 < j /\ 1 \in DOMAIN Pending
    BY <1>3, <2>1, <2>2
  <2>4. Pending[j] = 0 \/ Pending[1] < Pending[j]
    BY <2>3 DEF PendingInOrder
  <2>5. QED
    BY <1>3, <1>4, <2>1, <2>2, <2>4
<1>6. QED
  BY <1>1, <1>5 DEF DirectAnswered

(* Whatever is answered next has all direct requests before it answered.    *)
LEMMA AnswersFollow ==
  ASSUME TypeOK, StartedOnce, PendingInOrder, AllWritten, AnsweredInOrder, [Next]_vars
  PROVE  \/ Replied' = Replied
         \/ \E x \in MessageIds : DirectAnswered(x) /\ Replied' = Append(Replied, x)
<1>1. Len(session.script) \in Nat /\ Ids = 1 .. Len(session.script) /\ task \in MessageIds
  BY SessionFacts DEF TypeOK
<1>2. CASE MainAnswers
  BY <1>2, DirectFirst DEF MainAnswers, Run
<1>3. CASE IndexerAnswers
  BY <1>1, <1>3 DEF IndexerAnswers, AnsweredInOrder, MessageIds
<1>4. ASSUME HeldTasks = {task}
      PROVE  DirectAnswered(task)
  <2>1. CASE task = 0
    BY <2>1 DEF DirectAnswered
  <2>2. CASE task # 0
    <3>1. task \in Ids /\ Held(task)
      BY <1>1, <1>4, <2>2 DEF MessageIds, Held
    <3>2. QED
      BY <3>1 DEF AnsweredInOrder
  <2>3. QED
    BY <2>1, <2>2
<1>5. CASE CompletionSteps
  BY <1>1, <1>4, <1>5 DEF CompletionSteps
<1>6. QED
  BY <1>2, <1>3, <1>5, AnswerSteps DEF Quiet, MainDelegates, MainQuits

(* The direct requests are answered in the order in which they were sent,   *)
(* and before whatever was sent after them.                                 *)
LEMMA NextAnsweredInOrder ==
  ASSUME TypeOK, StartedOnce, PendingInOrder, AllWritten, AnsweredInOrder, [Next]_vars
  PROVE  AnsweredInOrder'
<1>1. session' = session /\ Ids' = Ids /\ MessageIds' = MessageIds
  BY SameSession DEF Ids, MessageIds
<1>2. Len(session.script) \in Nat /\ Ids = 1 .. Len(session.script)
  BY SessionFacts DEF TypeOK
<1>3. sent \in Nat /\ MessageIds \subseteq Nat /\ \A x \in MessageIds : x # 0 => x \in Ids
  BY <1>2 DEF TypeOK, MessageIds
<1>4. /\ Replied \in Seq(MessageIds) /\ comp_tasks \in Seq(MessageIds)
      /\ Pending \in Seq(MessageIds)
  BY RepliedGrows, PendingSteps DEF TypeOK
<1>5. /\ \A k : Answered(k) => Answered(k)'
      /\ \A n : DirectAnswered(n) => DirectAnswered(n)'
  BY <1>1, AnsweredGrows, AnswersFollow
<1>6. ASSUME NEW k \in 1 .. sent', session.script[k] \in Direct
      PROVE  Answered(k)' \/ \E j \in DOMAIN Pending' : Pending'[j] = k
  <2>1. ASSUME NEW x \in MessageIds, Pending' = Append(Pending, x)
        PROVE  /\ \A j \in DOMAIN Pending : j \in DOMAIN Pending' /\ Pending'[j] = Pending[j]
               /\ \E j \in DOMAIN Pending' : Pending'[j] = x
    BY <1>4, <2>1, AppendProperties, LenProperties
  <2>2. k \in 1 .. sent => Answered(k) \/ \E j \in DOMAIN Pending : Pending[j] = k
    BY <1>6 DEF AnsweredInOrder
  <2>3. CASE sent' = sent /\ Pending' = Pending
    BY <1>5, <2>2, <2>3
  <2>4. CASE sent' = sent + 1 /\ Pending' = Pending /\ session.script[sent'] = "response"
    BY <1>3, <1>5, <1>6, <2>2, <2>4 DEF Direct
  <2>5. CASE StdinMessage /\ Pending' = Append(Pending, sent') /\ sent' = sent + 1
    <3>1. sent' \in MessageIds
      BY <1>2, <1>3, <2>5 DEF StdinMessage, ClientReady, MessageIds
    <3>2. k = sent' \/ k \in 1 .. sent
      BY <1>3, <2>5
    <3>3. QED
      BY <1>5, <2>1, <2>2, <2>5, <3>1, <3>2
  <2>6. CASE /\ Pending' = Append(Pending, 0) /\ sent' \in {sent, sent + 1}
             /\ (sent' # sent => session.script[sent'] = "invalid")
    <3>1. 0 \in MessageIds
      BY <1>2 DEF MessageIds
    <3>2. k \in 1 .. sent
      BY <1>3, <1>6, <2>6 DEF Direct
    <3>3. QED
      BY <1>5, <2>1, <2>2, <2>6, <3>1, <3>2
  <2>7. CASE Run
    <3>1. /\ Head(batch) \in MessageIds /\ Pending # <<>>
          /\ Head(Pending) = Head(batch) /\ Pending' = Tail(Pending) /\ sent' = sent
      BY <2>7, DirectFirst
    <3>2. CASE Answered(k)
      BY <1>5, <3>2
    <3>3. CASE \E j \in DOMAIN Pending : Pending[j] = k
      <4>1. PICK j \in DOMAIN Pending : Pending[j] = k
        BY <3>3
      <4>2. CASE j = 1
        <5>1. Head(batch) = k /\ k # 0
          BY <1>3, <1>4, <3>1, <4>1, <4>2
        <5>2. RunInitialize \/ RunRequest
          BY <1>6, <2>7, <5>1 DEF Run, RunOpen, RunComplete, RunExit, KindOf, Direct
        <5>3. Replied' = Append(Replied, k)
          <6>1. ~RunComplete
            BY <5>2 DEF RunInitialize, RunRequest, RunComplete
          <6>2. Pending' # Pending
            BY <1>4, <3>1
          <6>3. MainAnswers
            BY <5>2, <6>1, <6>2, AnswerSteps DEF MainDelegates, MainQuits, IndexerAnswers,
                                                 CompletionSteps
          <6>4. QED
            BY <5>1, <6>3 DEF MainAnswers
        <5>4. QED
          BY <1>4, <3>1, <5>1, <5>3, AppendProperties, SMTT(30) DEF Answered
      <4>3. CASE j # 1
        <5>1. j - 1 \in DOMAIN Tail(Pending) /\ Tail(Pending)[j - 1] = k
          BY <1>4, <3>1, <4>1, <4>3
        <5>2. QED
          BY <3>1, <5>1
      <4>4. QED
        BY <4>2, <4>3
    <3>4. QED
      BY <2>2, <3>1, <3>2, <3>3
  <2>8. QED
    BY <2>3, <2>4, <2>5, <2>6, <2>7, PendingSteps
<1>7. ASSUME NEW n \in DOMAIN Replied', NEW k \in 1 .. Replied'[n] - 1,
             session.script[k] \in Direct
      PROVE  \E m \in 1 .. n - 1 : Replied'[m] = k
  <2>1. /\ Len(Replied) \in Nat /\ DOMAIN Replied = 1 .. Len(Replied)
    BY <1>4, LenProperties
  <2>2. CASE Replied' = Replied
    BY <1>7, <2>2 DEF AnsweredInOrder
  <2>3. ASSUME NEW x \in MessageIds, DirectAnswered(x), Replied' = Append(Replied, x)
        PROVE  \E m \in 1 .. n - 1 : Replied'[m] = k
    <3>1. /\ DOMAIN Replied' = 1 .. Len(Replied) + 1 /\ Replied'[Len(Replied) + 1] = x
          /\ \A m \in 1 .. Len(Replied) : Replied'[m] = Replied[m]
      BY <1>4, <2>1, <2>3, AppendProperties, LenProperties
    <3>2. CASE n = Len(Replied) + 1
      <4>1. PICK m \in DOMAIN Replied : Replied[m] = k
        BY <1>7, <2>3, <3>1, <3>2 DEF DirectAnswered, Answered
      <4>2. QED
        BY <2>1, <3>1, <3>2, <4>1
    <3>3. CASE n \in DOMAIN Replied
      <4>1. PICK m \in 1 .. n - 1 : Replied[m] = k
        BY <1>7, <2>1, <3>1, <3>3 DEF AnsweredInOrder
      <4>2. QED
        BY <2>1, <3>1, <3>3, <4>1
    <3>4. QED
      BY <2>1, <3>1, <3>2, <3>3
  <2>4. QED
    BY <2>2, <2>3, AnswersFollow
<1>8. ASSUME NEW n \in DOMAIN comp_tasks', NEW k \in 1 .. comp_tasks'[n] - 1,
             session.script[k] \in Direct
      PROVE  Answered(k)'
  <2>1. ASSUME NEW j \in DOMAIN comp_tasks, comp_tasks'[n] = comp_tasks[j]
        PROVE  Answered(k)'
    BY <1>5, <1>8, <2>1 DEF AnsweredInOrder, DirectAnswered
  <2>2. ASSUME NEW x, DirectAnswered(x), comp_tasks'[n] = x
        PROVE  Answered(k)'
    BY <1>5, <1>8, <2>2 DEF DirectAnswered
  <2>3. CASE comp_tasks' = comp_tasks
    BY <2>1, <2>3
  <2>4. ASSUME NEW x \in MessageIds, DirectAnswered(x), comp_tasks' = Append(comp_tasks, x)
        PROVE  Answered(k)'
    <3>1. comp_tasks'[n] = x \/ \E j \in DOMAIN comp_tasks : comp_tasks'[n] = comp_tasks[j]
      BY <1>4, <2>4, AppendProperties, LenProperties
    <3>2. QED
      BY <2>1, <2>2, <2>4, <3>1
  <2>5. CASE comp_tasks # <<>> /\ comp_tasks' = Tail(comp_tasks)
    <3>1. n + 1 \in DOMAIN comp_tasks /\ comp_tasks'[n] = comp_tasks[n + 1]
      BY <1>4, <2>5
    <3>2. QED
      BY <2>1, <3>1
  <2>6. CASE MainDelegates
    BY <2>4, <2>6, DirectFirst DEF MainDelegates, Run
  <2>7. CASE MainQuits
    <3>1. 0 \in MessageIds /\ DirectAnswered(0)
      BY <1>2 DEF MessageIds, DirectAnswered
    <3>2. QED
      BY <2>4, <2>7, <3>1 DEF MainQuits
  <2>8. QED
    BY <2>3, <2>5, <2>6, <2>7, AnswerSteps DEF Quiet, MainAnswers, IndexerAnswers,
       CompletionSteps
<1>9. ASSUME NEW k \in Ids, Held(k)'
      PROVE  DirectAnswered(k)'
  <2>1. CASE Held(k)
    BY <1>5, <2>1 DEF AnsweredInOrder
  <2>2. CASE comp_tasks # <<>> /\ HeldTasks' \subseteq {Head(comp_tasks)}
    <3>1. k = comp_tasks[1] /\ 1 \in DOMAIN comp_tasks
      BY <1>4, <1>9, <2>2 DEF Held
    <3>2. QED
      BY <1>5, <3>1 DEF AnsweredInOrder
  <2>3. QED
    BY <1>9, <2>1, <2>2, AnswerSteps DEF Quiet, MainAnswers, MainDelegates, MainQuits,
       IndexerAnswers, CompletionSteps, Held
<1>10. ASSUME NEW k \in Ids, session.script[k] = "initialize", ~session.standalone, ~Unborn'
       PROVE  DirectAnswered(k)'
  <2>1. CASE ~Unborn
    BY <1>5, <1>10, <2>1 DEF AnsweredInOrder
  <2>2. CASE RunInitialize
    <3>1. DirectAnswered(Head(batch)) /\ Head(batch) \in MessageIds
      BY <2>2, DirectFirst DEF Run
    <3>2. Head(batch) \in Ids /\ session.script[Head(batch)] = "initialize"
      BY <1>3, <2>2, <3>1 DEF RunInitialize, KindOf
    <3>3. Head(batch) = k
      BY <1>10, <3>2, OneInitialize DEF TypeOK
    <3>4. QED
      BY <1>5, <3>1, <3>3
  <2>3. ~StandaloneInitialize
    BY <1>10 DEF StandaloneInitialize, TypeOK, ServerStates, QuitStates
  <2>4. QED
    BY <1>10, <2>1, <2>2, <2>3, UnbornSteps
<1>11. QED
  <2>1. \A n \in DOMAIN comp_tasks' : DirectAnswered(comp_tasks[n])'
    BY <1>1, <1>8 DEF DirectAnswered
  <2>2. \A k \in Ids : Held(k)' => DirectAnswered(k)'
    BY <1>9
  <2>3. \A k \in Ids : session.script[k] = "initialize" /\ ~session.standalone /\ ~Unborn'
                         => DirectAnswered(k)'
    BY <1>10
  <2>4. \A k \in 1 .. sent' : session.script[k] \in Direct =>
           Answered(k)' \/ \E j \in DOMAIN Pending' : Pending'[j] = k
    BY <1>6
  <2>5. \A n \in DOMAIN Replied' : \A k \in 1 .. Replied'[n] - 1 :
           session.script[k] \in Direct => \E m \in 1 .. n - 1 : Replied'[m] = k
    BY <1>7
  <2>6. QED
    BY <1>1, <2>1, <2>2, <2>3, <2>4, <2>5 DEF AnsweredInOrder

(* Who has read the answer to shutdown has read all that came before it;    *)
(* and a client that says exit has.                                         *)
LEMMA NextPolite ==
  ASSUME TypeOK, StartedOnce, PendingInOrder, AnsweredInOrder, PoliteExit, [Next]_vars
  PROVE  PoliteExit'
<1>1. session' = session
  BY SameSession
<1>2. /\ Len(session.script) \in Nat /\ DOMAIN session.script = 1 .. Len(session.script)
  BY SessionFacts DEF TypeOK
<1>3. /\ sent \in Nat /\ sent <= Len(session.script) /\ written \in Seq(MessageIds)
      /\ writing \in Seq(MessageIds) /\ for_stdout \in Seq(MessageIds)
  BY <1>2 DEF TypeOK, MessageIds
<1>4. \A j \in DOMAIN written : j \in DOMAIN written' /\ written'[j] = written[j]
  <2>1. CASE written' = written
    BY <2>1
  <2>2. CASE StdoutWrite
    <3>1. Head(writing) \in MessageIds /\ written' = Append(written, Head(writing))
      BY <1>3, <2>2 DEF StdoutWrite
    <3>2. QED
      BY <1>3, <3>1, AppendProperties, LenProperties
  <2>3. Main => written' = written
    BY DEF Main, StandaloneInitialize, Dispatch, Round, RunInitialize, RunRequest,
         RunOpen, RunComplete, RunExit, MessagesDone, ApplyUpdates, MainWait, Poll, Quit,
         QuitLock, QuitNotify, Join, mainElse
  <2>4. Stdin \/ StdoutTake \/ StdoutWait \/ StdoutSleep => written' = written
    BY DEF Stdin, StdinMessage, StdinQuit, stdinElse, StdoutTake, StdoutWait, StdoutSleep
  <2>5. (\E t \in SemaThreads : Sema(t)) => written' = written
    BY DEF Sema, SemaLeave, CompDequeue, CompDrop, CompKeep, CompWork, semaElse
  <2>6. (\E i \in Indexers : Indexer(i)) => written' = written
    BY DEF Indexer, IndexerPop, IndexerDone, IndexerFailed, IndexerWait, IndexerSleep,
           indexerElse
  <2>7. QED
    BY <2>1, <2>2, <2>3, <2>4, <2>5, <2>6 DEF Next, vars, Stdout
<1>5. SUFFICES ASSUME session.polite, Exited', NEW k \in 1 .. sent',
                      session.script[k] \in Direct
               PROVE  \E j \in DOMAIN written : written[j] = k
  BY <1>1, <1>4 DEF PoliteExit
<1>6. CASE sent' = sent
  BY <1>1, <1>5, <1>6 DEF PoliteExit, Exited
<1>7. CASE StdinMessage /\ sent' = sent + 1
  <2>1. session.script[sent + 1] = "exit"
    BY <1>1, <1>5, <1>7 DEF Exited
  <2>2. PICK z \in 1 .. sent : /\ session.script[z] = "shutdown"
                               /\ \E j \in DOMAIN written : written[j] = z
    BY <1>5, <1>7, <2>1 DEF StdinMessage, ClientReady
  <2>3. k \in 1 .. sent
    BY <1>3, <1>5, <1>7, <2>1 DEF Direct
  <2>4. ~(z < k)
    <3>1. z \in DOMAIN session.script /\ k \in DOMAIN session.script
      BY <1>2, <1>3, <2>3
    <3>2. QED
      BY <1>5, <2>2, <3>1, SessionsAssumption DEF TypeOK
  <2>5. CASE k = z
    BY <2>2, <2>5
  <2>6. CASE k < z
    <3>1. PICK j \in DOMAIN written : written[j] = z
      BY <2>2
    <3>2. /\ DOMAIN written = 1 .. Len(written) /\ Len(written) \in Nat
          /\ DOMAIN written \subseteq DOMAIN Replied
          /\ \A m \in DOMAIN written : Replied[m] = written[m]
      <4>1. written \o writing \in Seq(MessageIds) /\ Len(written \o writing) = Len(written) + Len(writing)
            /\ \A m \in 1 .. Len(written) : (written \o writing)[m] = written[m]
            /\ Len(written) \in Nat /\ Len(writing) \in Nat /\ Len(for_stdout) \in Nat
            /\ DOMAIN written = 1 .. Len(written)
        BY <1>3, ConcatProperties, LenProperties
      <4>2. /\ DOMAIN Replied = 1 .. Len(written \o writing) + Len(for_stdout)
            /\ \A m \in 1 .. Len(written \o writing) : Replied[m] = (written \o writing)[m]
        BY <1>3, <4>1, ConcatProperties, LenProperties DEF Replied
      <4>3. /\ DOMAIN written \subseteq DOMAIN Replied
            /\ DOMAIN written \subseteq 1 .. Len(written \o writing)
        <5> DEFINE a == Len(written)
                   b == Len(writing)
                   c == Len(for_stdout)
        <5>1. /\ a \in Nat /\ b \in Nat /\ c \in Nat /\ DOMAIN written = 1 .. a
              /\ DOMAIN Replied = 1 .. a + b + c /\ Len(written \o writing) = a + b
          BY <4>1, <4>2
        <5> HIDE DEF a, b, c
        <5>2. QED
          BY <5>1
      <4>4. \A m \in DOMAIN written : Replied[m] = written[m]
        <5>1. SUFFICES ASSUME NEW m \in DOMAIN written PROVE Replied[m] = written[m]
          OBVIOUS
        <5>2. m \in 1 .. Len(written) /\ m \in 1 .. Len(written \o writing)
          BY <4>1, <4>3, <5>1
        <5>3. QED
          BY <4>1, <4>2, <5>2, Zenon
      <4>5. QED
        BY <4>1, <4>3, <4>4
    <3>3. PICK m \in 1 .. j - 1 : Replied[m] = k
      <4>1. j \in DOMAIN Replied /\ k \in 1 .. Replied[j] - 1
        BY <2>2, <2>3, <2>6, <3>1, <3>2
      <4>2. QED
        BY <1>5, <4>1 DEF AnsweredInOrder
    <3>4. QED
      BY <3>1, <3>2, <3>3
  <2>7. QED
    BY <2>3, <2>4, <2>5, <2>6
<1>8. CASE sent' # sent /\ session.script[sent'] \in {"invalid", "response"}
  BY <1>1, <1>5, <1>8 DEF Exited
<1>9. QED
  BY <1>6, <1>7, <1>8, PendingSteps

(* Every request is answered at most once, but for initialize, which is     *)
(* also answered by each parse of an entry that fails; a client that waits  *)
(* for the answer to shutdown before it says exit has then read every       *)
(* answer the main thread gave (pipeline.cc reply and replyError, and who   *)
(* calls them).                                                             *)
THEOREM AnsweredAtMostOnce == Spec => []Replies
<1> DEFINE Inv == /\ TypeOK /\ StartedOnce /\ PendingInOrder /\ AllWritten
                  /\ AnsweredOnce /\ AnsweredInOrder /\ PoliteExit
<1>1. Init => Inv
  BY InitType, InitPending, InitAnswers
<1>2. Inv /\ [Next]_vars => Inv'
  BY NextType, NextPending, NextWritten, NextAnsweredOnce, NextAnsweredInOrder, NextPolite
<1>3. Inv => Replies
  <2>1. SUFFICES ASSUME Inv PROVE Replies
    OBVIOUS
  <2>2. /\ Len(session.script) \in Nat /\ Ids = 1 .. Len(session.script)
        /\ sent \in Nat /\ sent <= Len(session.script)
    <3>1. Len(session.script) \in Nat /\ Ids = 1 .. Len(session.script)
      BY <2>1, SessionFacts DEF TypeOK
    <3>2. QED
      BY <2>1, <3>1 DEF TypeOK, MessageIds
  <2>3. ASSUME NEW k \in 1 .. sent
        PROVE  RepliesTo(k) <= IF session.script[k] = "initialize" THEN 1 + failed ELSE 1
    <3> DEFINE r == Count(Replied, {k})
    <3>1. k \in Ids
      BY <2>2
    <3>2. RepliesTo(k) = r
      <4>1. {j \in DOMAIN Replied : Replied[j] = k} = At(Replied, {k})
        BY DEF At
      <4>2. QED
        BY <4>1, Zenon DEF RepliesTo, Count
    <3>3. /\ r \in Nat /\ Count(Pending, {k}) \in Nat /\ Count(comp_tasks, {k}) \in Nat
          /\ Bit(Held(k)) \in {0, 1} /\ failed \in Nat
      <4>1. batch \in Seq(MessageIds) /\ on_request \in Seq(MessageIds)
            /\ comp_tasks \in Seq(MessageIds)
        BY <2>1 DEF TypeOK
      <4>2. Pending \in Seq(MessageIds) /\ Replied \in Seq(MessageIds)
        BY <2>1, <4>1, ConcatProperties, RepliedGrows DEF Pending
      <4>3. QED
        BY <2>1, <4>1, <4>2, CountType DEF Bit, TypeOK
    <3>4. CASE session.script[k] = "initialize"
      <4>1. r <= IF Unborn THEN 0 ELSE 1 + failed
        BY <2>1, <3>1, <3>4 DEF AnsweredOnce
      <4> HIDE DEF r
      <4>2. QED
        BY <3>2, <3>3, <3>4, <4>1
    <3>5. CASE session.script[k] # "initialize"
      <4> DEFINE p == Count(Pending, {k})
                 c == Count(comp_tasks, {k})
                 h == Bit(Held(k))
      <4>1. p + r + c + h <= 1
        BY <2>1, <3>1, <3>5 DEF AnsweredOnce
      <4>2. p \in Nat /\ c \in Nat /\ h \in {0, 1} /\ r \in Nat
        BY <3>3
      <4> HIDE DEF p, c, h, r
      <4>3. r <= 1
        BY <4>1, <4>2
      <4>4. QED
        BY <3>2, <3>5, <4>3
    <3>6. QED
      BY <3>4, <3>5
  <2>4. QED
    BY <2>1, <2>3 DEF Replies, PoliteExit
<1>4. QED
  BY <1>1, <1>2, <1>3, PTL DEF Spec
=============================================================================
