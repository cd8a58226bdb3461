--------------------------- MODULE MainLoopProofs ---------------------------
(***************************************************************************)
(* Theorems about MainLoop, for every script, project and number of        *)
(* indexers: the backlog and its index by path agree, no request is        *)
(* answered twice, and the progress shown is that of the requests.         *)
(***************************************************************************)
EXTENDS MainLoop, Counting

-----------------------------------------------------------------------------
(* The order of messages.                                                   *)

(* When a message was sent. *)
Pos(m) == CHOOSE k \in DOMAIN Script : Script[k] = m

Ascending(s) == \A j, k \in DOMAIN s : j < k => Pos(s[j]) < Pos(s[k])
Before(S, T) == \A a \in S, b \in T : Pos(a) < Pos(b)

(* A message is where it was sent.                                          *)
LEMMA PosProperties ==
  /\ Len(Script) \in Nat /\ DOMAIN Script = 1 .. Len(Script)
  /\ \A k \in DOMAIN Script : Script[k] \in Messages /\ Pos(Script[k]) = k
  /\ \A m \in Messages : Pos(m) \in DOMAIN Script /\ Pos(m) \in Nat /\ Script[Pos(m)] = m
<1>1. Len(Script) \in Nat /\ DOMAIN Script = 1 .. Len(Script)
  BY MessagesAssumption, LenProperties
<1>2. \A m \in Messages : Pos(m) \in DOMAIN Script /\ Script[Pos(m)] = m
  BY DEF Messages, Pos
<1>3. \A k \in DOMAIN Script : Script[k] \in Messages /\ Pos(Script[k]) = k
  BY <1>2, MessagesAssumption DEF Messages
<1>4. QED
  BY <1>1, <1>2, <1>3

(* What Append does to the elements of a sequence and to their order.       *)
LEMMA AppendInOrder ==
  ASSUME NEW s \in Seq(Messages), NEW m \in Messages
  PROVE  /\ Append(s, m) \in Seq(Messages)
         /\ Elements(Append(s, m)) = Elements(s) \cup {m}
         /\ Ascending(s) /\ Before(Elements(s), {m}) => Ascending(Append(s, m))
<1>1. /\ Len(s) \in Nat /\ DOMAIN s = 1 .. Len(s) /\ Append(s, m) \in Seq(Messages)
      /\ DOMAIN Append(s, m) = 1 .. Len(s) + 1 /\ Append(s, m)[Len(s) + 1] = m
      /\ \A k \in 1 .. Len(s) : Append(s, m)[k] = s[k]
  BY AppendProperties, LenProperties
<1>2. Elements(Append(s, m)) = Elements(s) \cup {m}
  BY <1>1 DEF Elements
<1>3. Ascending(s) /\ Before(Elements(s), {m}) => Ascending(Append(s, m))
  BY <1>1 DEF Ascending, Before, Elements
<1>4. QED
  BY <1>1, <1>2, <1>3

(* What Head and Tail do.                                                   *)
LEMMA TailInOrder ==
  ASSUME NEW s \in Seq(Messages), s # <<>>
  PROVE  /\ Head(s) \in Messages /\ Tail(s) \in Seq(Messages)
         /\ Head(s) \in Elements(s) /\ Elements(Tail(s)) \subseteq Elements(s)
         /\ Elements(s) = {Head(s)} \cup Elements(Tail(s))
         /\ Ascending(s) => Ascending(Tail(s)) /\ Before({Head(s)}, Elements(Tail(s)))
<1>1. /\ Len(s) \in Nat \ {0} /\ DOMAIN s = 1 .. Len(s)
      /\ Head(s) \in Messages /\ Head(s) = s[1]
      /\ Tail(s) \in Seq(Messages) /\ DOMAIN Tail(s) = 1 .. Len(s) - 1
      /\ \A k \in 1 .. Len(s) - 1 : Tail(s)[k] = s[k + 1]
  OBVIOUS
<1>2. /\ Head(s) \in Elements(s) /\ Elements(Tail(s)) \subseteq Elements(s)
      /\ Elements(s) = {Head(s)} \cup Elements(Tail(s))
  <2>1. ASSUME NEW k \in DOMAIN s, k # 1
        PROVE  k - 1 \in DOMAIN Tail(s) /\ Tail(s)[k - 1] = s[k]
    <3>1. k - 1 \in 1 .. Len(s) - 1 /\ k - 1 + 1 = k
      BY <1>1, <2>1
    <3>2. QED
      BY <1>1, <3>1, Zenon
  <2>2. ASSUME NEW k \in DOMAIN Tail(s)
        PROVE  k + 1 \in DOMAIN s /\ Tail(s)[k] = s[k + 1]
    BY <1>1, <2>2
  <2>3. 1 \in DOMAIN s /\ Head(s) = s[1]
    BY <1>1
  <2>4. Head(s) \in Elements(s)
    BY <2>3, Zenon DEF Elements
  <2>5. Elements(Tail(s)) \subseteq Elements(s)
    BY <2>2, Zenon DEF Elements
  <2>6. Elements(s) \subseteq {Head(s)} \cup Elements(Tail(s))
    <3>1. SUFFICES ASSUME NEW k \in DOMAIN s
          PROVE  s[k] \in {Head(s)} \cup Elements(Tail(s))
      BY Zenon DEF Elements
    <3>2. CASE k = 1
      BY <2>3, <3>2
    <3>3. CASE k # 1
      BY <2>1, <3>3, Zenon DEF Elements
    <3>4. QED
      BY <3>2, <3>3
  <2>7. QED
    BY <2>4, <2>5, <2>6, Zenon
<1>3. Ascending(s) => Ascending(Tail(s))
  BY <1>1 DEF Ascending
<1>4. Ascending(s) => Before({Head(s)}, Elements(Tail(s)))
  BY <1>1 DEF Ascending, Before, Elements
<1>5. QED
  BY <1>1, <1>2, <1>3, <1>4

(* Messages in order are all different.                                     *)
LEMMA BeforeDiffers ==
  ASSUME NEW S \in SUBSET Messages, NEW T \in SUBSET Messages, Before(S, T)
  PROVE  S \cap T = {}
  BY PosProperties DEF Before

-----------------------------------------------------------------------------
(* Types.                                                                   *)

(* The parameters of a message.                                             *)
LEMMA MessageFacts ==
  /\ \A m \in Messages : m.kind \in Kinds /\ (m.kind # "exit" => m.path \in Paths)
  /\ \A q \in Queries : q \in Messages /\ q.path \in Paths
  /\ UpdateBatch \in Nat \ {0} /\ Indexers \in Nat \ {0}
  /\ Mentions \in [Paths -> SUBSET Paths] /\ Project \in Seq(Paths)
  BY MessagesAssumption, ProjectAssumption, BatchAssumption DEF Queries

(* Everything starts well typed.                                            *)
LEMMA InitType == Init => TypeOK
<1> SUFFICES ASSUME Init PROVE TypeOK
  OBVIOUS
<1>1. Len(Project) \in Nat /\ Project \in Seq(Paths) /\ Len(Script) \in Nat
  BY MessageFacts, PosProperties, LenProperties
<1>2. index_request \in QueueOf(Paths)
  BY <1>1 DEF Init, QueueOf
<1>3. on_request \in QueueOf(Messages) /\ on_indexed \in QueueOf(Paths)
  BY EmptyQueueProperties DEF Init
<1>4. backlog \in Seq(BacklogEntry) /\ batch \in Seq(Messages)
      /\ path2backlog \in [Paths -> Seq(Messages)] /\ replies \in [Queries -> Nat]
  BY EmptySeq DEF Init
<1>5. counting \in 0 .. Indexers /\ updates_left \in 0 .. UpdateBatch
  BY MessageFacts DEF Init
<1>6. read \in 0 .. Len(Script) /\ expired \in 0 .. read
  BY <1>1 DEF Init
<1>7. /\ enqueued \in Nat /\ completed \in Nat /\ last_idle \in Nat /\ now \in Nat
      /\ last_completed \in Nat /\ pc \in Pcs /\ open \subseteq Paths /\ indexed \subseteq Paths
  BY <1>1 DEF Init, Pcs
<1>8. did_work \in BOOLEAN /\ in_progress \in BOOLEAN /\ g_quit \in BOOLEAN /\ threw \in BOOLEAN
  BY DEF Init
<1>9. QED
  BY <1>2, <1>3, <1>4, <1>5, <1>6, <1>7, <1>8 DEF TypeOK

(* Answer gives each query a number of replies.                             *)
LEMMA AnswerType ==
  ASSUME TypeOK, NEW ms \in Seq(Messages)
  PROVE  /\ Answer(ms) \in [Queries -> Nat]
         /\ \A q \in Queries : q \notin Elements(ms) => Answer(ms)[q] = replies[q]
         /\ \A q \in Queries :
              Ascending(ms) => Answer(ms)[q] \in {replies[q], replies[q] + 1}
<1>1. replies \in [Queries -> Nat]
  BY DEF TypeOK
<1>2. /\ Len(ms) \in Nat /\ DOMAIN ms = 1 .. Len(ms) /\ IsFiniteSet(1 .. Len(ms))
      /\ \A k \in DOMAIN ms : ms[k] \in Messages
  BY LenProperties, ElementOfSeq, FS_Interval
<1>3. ASSUME NEW q \in Queries
      PROVE  /\ Cardinality({k \in DOMAIN ms : ms[k] = q}) \in Nat
             /\ q \notin Elements(ms) => Cardinality({k \in DOMAIN ms : ms[k] = q}) = 0
             /\ Ascending(ms) => Cardinality({k \in DOMAIN ms : ms[k] = q}) \in {0, 1}
  <2> DEFINE S == {k \in DOMAIN ms : ms[k] = q}
  <2>1. IsFiniteSet(S) /\ Cardinality(S) \in Nat
    <3>1. S \subseteq 1 .. Len(ms)
      BY <1>2
    <3>2. QED
      BY <1>2, <3>1, FS_Subset, FS_CardinalityType
  <2>2. q \notin Elements(ms) => Cardinality(S) = 0
    <3>1. q \notin Elements(ms) => S = {}
      BY DEF Elements
    <3>2. QED
      BY <3>1, FS_EmptySet
  <2>3. ASSUME Ascending(ms)
        PROVE  Cardinality(S) \in {0, 1}
    <3>1. \A j, k \in S : j = k
      BY <1>2, <2>3, PosProperties DEF Ascending
    <3>2. CASE S = {}
      BY <3>2, FS_EmptySet
    <3>3. CASE \E k \in S : S = {k}
      BY <3>3, FS_Singleton
    <3>4. QED
      BY <3>1, <3>2, <3>3
  <2>4. QED
    BY <2>1, <2>2, <2>3
<1>4. QED
  BY <1>1, <1>3 DEF Answer

(* Serving messages changes no entry of the backlog but for its waiting.    *)
LEMMA ServedProperties ==
  ASSUME TypeOK, NEW again
  PROVE  /\ Served(again) \in Seq(BacklogEntry)
         /\ DOMAIN Served(again) = DOMAIN backlog
         /\ \A k \in DOMAIN backlog :
              /\ Served(again)[k].message = backlog[k].message
              /\ Served(again)[k].waiting <=>
                   /\ backlog[k].waiting
                   /\ \A j \in DOMAIN again : again[j] # backlog[k].message
<1>1. /\ Len(backlog) \in Nat /\ DOMAIN backlog = 1 .. Len(backlog)
      /\ \A k \in DOMAIN backlog : backlog[k] \in BacklogEntry
  BY LenProperties, ElementOfSeq DEF TypeOK
<1>2. ASSUME NEW k \in DOMAIN backlog
      PROVE  /\ Served(again)[k].message = backlog[k].message
             /\ Served(again)[k].waiting <=>
                   /\ backlog[k].waiting
                   /\ \A j \in DOMAIN again : again[j] # backlog[k].message
             /\ Served(again)[k] \in BacklogEntry
  BY <1>1, <1>2 DEF Served, BacklogEntry
<1>3. DOMAIN Served(again) = DOMAIN backlog
  BY DEF Served
<1>4. Served(again) \in [1 .. Len(backlog) -> BacklogEntry]
  BY <1>1, <1>2 DEF Served
<1>5. Served(again) \in Seq(BacklogEntry)
  BY <1>1, <1>4, SeqDef
<1>6. QED
  BY <1>2, <1>3, <1>5

(* Every step keeps the types.                                              *)
LEMMA NextType ==
  ASSUME TypeOK, BacklogIndexed, [Next]_vars
  PROVE  TypeOK'
<1>1. /\ Len(Script) \in Nat /\ DOMAIN Script = 1 .. Len(Script)
      /\ \A k \in DOMAIN Script : Script[k] \in Messages
  BY PosProperties
<1> USE MessageFacts
<1>2. CASE UNCHANGED vars
  BY <1>2 DEF vars, clientVars, indexVars, progressVars, TypeOK
<1>3. ASSUME NEW k \in DOMAIN Script, StdinRead(k)
      PROVE  TypeOK'
  <2>1. on_request' \in QueueOf(Messages)
    BY <1>1, <1>3, PushBackProperties DEF StdinRead, TypeOK
  <2>2. read' \in 0 .. Len(Script) /\ expired' \in 0 .. read'
    BY <1>1, <1>3 DEF StdinRead, TypeOK
  <2>3. UNCHANGED <<on_indexed, indexVars, mainVars>>
    BY <1>3 DEF StdinRead
  <2>4. QED
    BY <2>1, <2>2, <2>3 DEF indexVars, mainVars, progressVars, TypeOK
<1>4. CASE Expire
  <2>1. expired' \in 0 .. read'
    <3>1. PICK n \in expired + 1 .. read : expired' = n /\ read' = read
      BY <1>4 DEF Expire
    <3>2. expired \in Nat /\ read \in Nat
      BY <1>1 DEF TypeOK
    <3>3. QED
      BY <3>1, <3>2
  <2>2. UNCHANGED <<read, on_request, on_indexed, indexVars, mainVars>>
    BY <1>4 DEF Expire
  <2>3. QED
    BY <2>1, <2>2 DEF indexVars, mainVars, progressVars, TypeOK
<1>5. CASE IndexerPush \/ IndexerNothing
  <2>1. /\ index_request' \in QueueOf(Paths) /\ Front(index_request) \in Paths
        /\ counting' \in 0 .. Indexers
    BY <1>5, PopFrontProperties, SMTT(30) DEF IndexerPush, IndexerNothing, TypeOK
  <2>2. (index_request.priority # <<>>) \in BOOLEAN
    OBVIOUS
  <2>3. on_indexed' \in QueueOf(Paths)
    <3>1. on_indexed \in QueueOf(Paths)
      BY DEF TypeOK
    <3>2. PushBack(on_indexed, Front(index_request), index_request.priority # <<>>)
            \in QueueOf(Paths)
      BY <2>1, <2>2, <3>1, PushBackProperties
    <3>3. QED
      BY <1>5, <3>1, <3>2 DEF IndexerPush, IndexerNothing
  <2>4. UNCHANGED <<clientVars, on_request, completed, mainVars>>
    BY <1>5 DEF IndexerPush, IndexerNothing
  <2>5. QED
    BY <2>1, <2>3, <2>4 DEF clientVars, mainVars, progressVars, TypeOK
<1>6. CASE IndexerCount
  <2>1. counting' \in 0 .. Indexers /\ completed' \in Nat
    BY <1>6, SMTT(30) DEF IndexerCount, TypeOK
  <2>2. UNCHANGED <<clientVars, on_request, on_indexed, index_request, mainVars>>
    BY <1>6 DEF IndexerCount
  <2>3. QED
    BY <2>1, <2>2 DEF clientVars, mainVars, progressVars, TypeOK
<1>7. CASE BacklogStep
  <2>1. backlog \in Seq(BacklogEntry) /\ backlog # <<>> /\ backlog' = Tail(backlog)
    BY <1>7 DEF BacklogStep, TypeOK
  <2>2. backlog' \in Seq(BacklogEntry) /\ backlog[1] \in BacklogEntry /\ 1 \in DOMAIN backlog
    BY <2>1
  <2>3. backlog[1].message \in Messages
    BY <2>2 DEF BacklogEntry
  <2>4. replies' \in [Queries -> Nat]
    <3>1. <<backlog[1].message>> \in Seq(Messages)
      BY <2>3
    <3>2. QED
      BY <1>7, <3>1, AnswerType DEF BacklogStep, TypeOK
  <2>5. path2backlog' \in [Paths -> Seq(Messages)]
    <3> DEFINE p == backlog[1].message.path
    <3>1. path2backlog \in [Paths -> Seq(Messages)]
      BY DEF TypeOK
    <3>2. CASE backlog[1].waiting /\ p \in Paths
      <4>1. path2backlog[p] \in Seq(Messages)
        BY <3>1, <3>2
      <4>2. path2backlog[p] # <<>>
        BY <2>2, <3>2 DEF BacklogIndexed
      <4>3. Tail(path2backlog[p]) \in Seq(Messages)
        BY <4>1, <4>2
      <4>4. path2backlog' = [path2backlog EXCEPT ![p] = Tail(path2backlog[p])]
        BY <1>7, <3>1, <3>2 DEF BacklogStep, Unlist
      <4>5. QED
        BY <3>1, <4>3, <4>4
    <3>3. CASE p \notin Paths
      BY <1>7, <3>1, <3>3, ZenonT(30) DEF BacklogStep, Unlist
    <3>4. CASE ~backlog[1].waiting
      BY <1>7, <3>1, <3>4 DEF BacklogStep
    <3>5. QED
      BY <3>2, <3>3, <3>4
  <2>6. threw' \in BOOLEAN
    BY <1>7 DEF BacklogStep, TypeOK
  <2>7. UNCHANGED <<surroundings, on_request, on_indexed, enqueued, progressVars, pc,
                    batch, updates_left, did_work, now, open, indexed, g_quit>>
    BY <1>7 DEF BacklogStep
  <2>8. QED
    BY <2>2, <2>4, <2>5, <2>6, <2>7 DEF surroundings, clientVars, indexVars, progressVars,
                                        TypeOK
<1>8. CASE DequeueAll
  <2>1. batch' \in Seq(Messages) /\ on_request' \in QueueOf(Messages)
    <3>1. on_request.priority \in Seq(Messages) /\ on_request.queue \in Seq(Messages)
      BY DEF TypeOK, QueueOf
    <3>2. Contents(on_request) \in Seq(Messages)
      BY <3>1, ConcatProperties DEF Contents
    <3>3. QED
      BY <1>8, <3>2, EmptyQueueProperties DEF DequeueAll
  <2>2. QED
    BY <1>8, <2>1 DEF DequeueAll, surroundings, clientVars, indexVars, progressVars,
                      TypeOK, Pcs
<1>9. CASE RunQuery
  <2> DEFINE m == Head(batch)
  <2>1. /\ batch \in Seq(Messages) /\ batch # <<>> /\ m.kind = "query"
        /\ backlog \in Seq(BacklogEntry) /\ path2backlog \in [Paths -> Seq(Messages)]
    BY <1>9 DEF RunQuery, TypeOK
  <2>2. batch' \in Seq(Messages) /\ m \in Messages
    BY <1>9, <2>1 DEF RunQuery
  <2>3. m.path \in Paths
    BY <2>1, <2>2
  <2> HIDE DEF m
  <2>4. replies' \in [Queries -> Nat]
    <3>1. <<m>> \in Seq(Messages)
      BY <2>2
    <3>2. QED
      BY <1>9, <3>1, AnswerType DEF RunQuery, TypeOK, m
  <2>5. backlog' \in Seq(BacklogEntry)
    <3>1. [message |-> m, waiting |-> TRUE] \in BacklogEntry
      BY <2>2 DEF BacklogEntry
    <3>2. Append(backlog, [message |-> m, waiting |-> TRUE]) \in Seq(BacklogEntry)
      BY <2>1, <3>1, AppendProperties
    <3>3. QED
      BY <1>9, <2>1, <3>2 DEF RunQuery, m
  <2>6. path2backlog' \in [Paths -> Seq(Messages)]
    <3>1. Append(path2backlog[m.path], m) \in Seq(Messages)
      BY <2>1, <2>2, <2>3, AppendProperties
    <3>2. \/ path2backlog' = path2backlog
          \/ path2backlog' = [path2backlog EXCEPT ![m.path] = Append(path2backlog[m.path], m)]
      BY <1>9 DEF RunQuery, m
    <3>3. QED
      BY <2>1, <3>1, <3>2
  <2>7. UNCHANGED <<surroundings, on_request, on_indexed, enqueued, progressVars, pc,
                    updates_left, did_work, now, open, indexed, g_quit, threw>>
    BY <1>9 DEF RunQuery
  <2>8. QED
    BY <2>2, <2>4, <2>5, <2>6, <2>7 DEF surroundings, clientVars, indexVars, progressVars,
                                        TypeOK
<1>10. CASE RunNotification
  <2> DEFINE m == Head(batch)
  <2>1. /\ batch \in Seq(Messages) /\ batch # <<>> /\ batch' = Tail(batch)
    BY <1>10 DEF RunNotification, TypeOK
  <2>2. batch' \in Seq(Messages) /\ m \in Messages
    BY <2>1
  <2>3. m.kind # "exit" => m.path \in Paths
    BY <2>2
  <2> HIDE DEF m
  <2>4. open' \subseteq Paths
    BY <1>10, <2>3 DEF RunNotification, TypeOK, m
  <2>5. index_request' \in QueueOf(Paths) /\ enqueued' \in Nat
    <3>1. index_request \in QueueOf(Paths) /\ enqueued \in Nat
      BY DEF TypeOK
    <3>2. CASE m.kind = "open"
      <4>1. PushBack(index_request, m.path, TRUE) \in QueueOf(Paths)
        BY <2>3, <3>1, <3>2, PushBackProperties
      <4>2. enqueued' = enqueued + 1 /\ index_request' = PushBack(index_request, m.path, TRUE)
        BY <1>10, <3>2, Zenon DEF RunNotification, EnqueuedAfter, m
      <4>3. index_request' \in QueueOf(Paths)
        BY <4>1, <4>2, Zenon
      <4>4. enqueued' \in Nat
        BY <3>1, <4>2
      <4>5. QED
        BY <4>3, <4>4
    <3>3. CASE m.kind # "open"
      BY <1>10, <3>1, <3>3 DEF RunNotification, m
    <3>4. QED
      BY <3>2, <3>3
  <2>6. g_quit' \in BOOLEAN
    BY <1>10 DEF RunNotification, TypeOK
  <2>7. UNCHANGED <<clientVars, counting, completed, on_request, on_indexed, progressVars,
                    pc, updates_left, did_work, now, backlog, path2backlog, indexed,
                    replies, threw>>
    BY <1>10 DEF RunNotification
  <2>8. QED
    BY <2>2, <2>4, <2>5, <2>6, <2>7 DEF clientVars, progressVars, TypeOK
<1>11. CASE MessagesDone
  <2>1. index_request' \in QueueOf(Paths)
    BY <1>11, ApplyClearProperties DEF MessagesDone, TypeOK
  <2>2. QED
    BY <1>11, <2>1, SMTT(30) DEF MessagesDone, clientVars, progressVars, TypeOK, Pcs
<1>12. CASE ApplyUpdate
  <2> DEFINE p == Front(on_indexed)
  <2>1. p \in Paths /\ on_indexed' \in QueueOf(Paths)
    BY <1>12, PopFrontProperties DEF ApplyUpdate, MoreUpdates, TypeOK
  <2>2. path2backlog \in [Paths -> Seq(Messages)] /\ path2backlog[p] \in Seq(Messages)
    BY <2>1 DEF TypeOK
  <2> HIDE DEF p
  <2>3. indexed' \subseteq Paths /\ path2backlog' \in [Paths -> Seq(Messages)]
    BY <1>12, <2>1, <2>2, SMTT(30) DEF ApplyUpdate, TypeOK, p
  <2>4. replies' \in [Queries -> Nat]
    BY <1>12, <2>2, AnswerType DEF ApplyUpdate, p
  <2>5. updates_left' \in 0 .. UpdateBatch
    BY <1>12, SMTT(30) DEF ApplyUpdate, MoreUpdates, TypeOK
  <2>6. backlog' \in Seq(BacklogEntry)
    BY <1>12, ServedProperties DEF ApplyUpdate
  <2>7. threw' \in BOOLEAN /\ did_work' \in BOOLEAN
    BY <1>12 DEF ApplyUpdate, TypeOK
  <2>8. UNCHANGED <<surroundings, on_request, enqueued, progressVars, pc, batch, now,
                    open, g_quit>>
    BY <1>12 DEF ApplyUpdate
  <2>9. QED
    BY <2>1, <2>3, <2>4, <2>5, <2>6, <2>7, <2>8 DEF surroundings, clientVars, indexVars,
       progressVars, TypeOK
<1>13. CASE Progress
  BY <1>13, SMTT(30) DEF Progress, surroundings, clientVars, indexVars, Reports, Ends, TypeOK, Pcs
<1>14. CASE Wait
  <2>1. pc' \in Pcs /\ did_work' \in BOOLEAN
    BY <1>14 DEF Wait, Pcs
  <2>2. now' \in Nat
    BY <1>1, <1>14 DEF Wait, TypeOK
  <2>3. UNCHANGED <<surroundings, on_request, on_indexed, enqueued, progressVars, batch,
                    updates_left, backlog, path2backlog, open, indexed, g_quit, replies,
                    threw>>
    BY <1>14 DEF Wait
  <2>4. QED
    BY <2>1, <2>2, <2>3 DEF surroundings, clientVars, indexVars, progressVars, TypeOK
<1>15. QED
  BY <1>2, <1>3, <1>4, <1>5, <1>6, <1>7, <1>8, <1>9, <1>10, <1>11, <1>12, <1>13, <1>14
     DEF Next, Main

-----------------------------------------------------------------------------
(* Progress.  Every request that was enqueued is queued, in an indexer's    *)
(* hands or counted as completed, unless exit dropped it; and the count     *)
(* when the loop was last idle is one the client has been told.             *)
RequestsCounted ==
  /\ completed + counting + Len(Contents(index_request)) <= enqueued
  /\ last_idle <= last_completed /\ last_completed <= completed
  /\ in_progress => last_completed < enqueued

(* At the start exactly the project's files are enqueued.                   *)
LEMMA InitRequests == Init => RequestsCounted
<1> SUFFICES ASSUME Init PROVE RequestsCounted
  OBVIOUS
<1>1. Len(Project) \in Nat /\ Project \in Seq(Paths)
  BY MessageFacts, LenProperties
<1>2. Contents(index_request) = <<>> \o Project
  BY DEF Init, Contents
<1>3. <<>> \o Project = Project
  BY <1>1, ConcatEmptySeq
<1>4. Len(Contents(index_request)) = Len(Project)
  BY <1>2, <1>3, Zenon
<1>5. QED
  BY <1>1, <1>4 DEF Init, RequestsCounted

(* A request that is enqueued, taken, completed or dropped by exit is       *)
(* counted on one side at most once, so the sum never exceeds what was      *)
(* enqueued.                                                                *)
LEMMA NextRequests ==
  ASSUME TypeOK, RequestsCounted, [Next]_vars
  PROVE  RequestsCounted'
<1> DEFINE n == Len(Contents(index_request))
           nn == Len(Contents(index_request)')
<1>1. /\ completed \in Nat /\ counting \in Nat /\ enqueued \in Nat /\ n \in Nat
      /\ last_idle \in Nat /\ last_completed \in Nat /\ index_request \in QueueOf(Paths)
  <2>1. index_request.priority \in Seq(Paths) /\ index_request.queue \in Seq(Paths)
    BY DEF TypeOK, QueueOf
  <2>2. Contents(index_request) \in Seq(Paths)
    BY <2>1, ConcatProperties DEF Contents
  <2>3. n \in Nat
    BY <2>2, LenProperties
  <2>4. QED
    BY <2>3, MessageFacts DEF TypeOK
<1>2. SUFFICES /\ completed' + counting' + nn <= enqueued'
               /\ last_idle' <= last_completed' /\ last_completed' <= completed'
               /\ in_progress' => last_completed' < enqueued'
  BY DEF RequestsCounted
<1>3. /\ completed + counting + n <= enqueued
      /\ last_idle <= last_completed /\ last_completed <= completed
      /\ in_progress => last_completed < enqueued
  BY DEF RequestsCounted
<1>4. index_request' = index_request => nn = n
  BY DEF Contents
<1> HIDE DEF n, nn
<1>5. CASE UNCHANGED <<completed, counting, enqueued, index_request, last_idle,
                       last_completed, in_progress>>
  BY <1>3, <1>4, <1>5
<1>6. CASE IndexerPush \/ IndexerNothing
  <2>1. nn = n - 1
    <3>1. Len(Contents(PopFront(index_request))) = Len(Contents(index_request)) - 1
      BY <1>1, <1>6, PopFrontProperties DEF IndexerPush, IndexerNothing
    <3>2. Contents(index_request)' = Contents(PopFront(index_request))
      BY <1>6 DEF IndexerPush, IndexerNothing, Contents
    <3>3. QED
      BY <3>1, <3>2, Zenon DEF n, nn
  <2>2. counting' = counting + 1
        /\ UNCHANGED <<completed, enqueued, last_idle, last_completed, in_progress>>
    BY <1>6 DEF IndexerPush, IndexerNothing, mainVars, progressVars
  <2>3. QED
    BY <1>1, <1>3, <2>1, <2>2
<1>7. CASE IndexerCount
  <2>1. /\ counting' = counting - 1 /\ completed' = completed + 1
        /\ UNCHANGED <<enqueued, index_request, last_idle, last_completed, in_progress>>
    BY <1>7 DEF IndexerCount, mainVars, progressVars
  <2>2. QED
    BY <1>1, <1>3, <1>4, <2>1
<1>8. CASE RunNotification
  <2>1. UNCHANGED <<completed, counting, last_idle, last_completed, in_progress>>
    BY <1>8 DEF RunNotification, progressVars
  <2>2. CASE Head(batch).kind = "open"
    <3>1. enqueued' = enqueued + 1
      BY <1>8, <2>2 DEF RunNotification, EnqueuedAfter
    <3>2. Head(batch).path \in Paths
      <4>1. batch \in Seq(Messages) /\ batch # <<>>
        BY <1>8 DEF RunNotification, TypeOK
      <4>2. Head(batch) \in Messages
        BY <4>1
      <4>3. QED
        BY <2>2, <4>2, MessageFacts
    <3>3. index_request' = PushBack(index_request, Head(batch).path, TRUE)
      BY <1>8, <2>2, Zenon DEF RunNotification
    <3>4. Len(Contents(PushBack(index_request, Head(batch).path, TRUE)))
            = Len(Contents(index_request)) + 1
      BY <1>1, <3>2, PushBackProperties
    <3>5. nn = n + 1
      BY <3>3, <3>4, Zenon DEF n, nn, Contents
    <3>6. QED
      BY <1>1, <1>3, <2>1, <3>1, <3>5
  <2>3. CASE Head(batch).kind # "open"
    <3>1. UNCHANGED <<enqueued, index_request>>
      BY <1>8, <2>3 DEF RunNotification
    <3>2. QED
      BY <1>5, <2>1, <3>1
  <2>4. QED
    BY <2>2, <2>3
<1>9. CASE MessagesDone
  <2>1. UNCHANGED <<completed, counting, enqueued, last_idle, last_completed, in_progress>>
    BY <1>9 DEF MessagesDone, progressVars
  <2>2. nn <= n /\ nn \in Nat
    <3>1. CASE index_request' = index_request
      BY <1>1, <1>4, <3>1
    <3>2. CASE index_request' = ApplyClear(index_request)
      <4>1. index_request.priority \in Seq(Paths) /\ index_request.queue \in Seq(Paths)
        BY <1>1 DEF QueueOf
      <4>2. Contents(index_request)' = index_request.priority
        BY <1>1, <3>2, ApplyClearProperties DEF Contents
      <4> DEFINE a == Len(index_request.priority)
                 b == Len(index_request.queue)
      <4>3. n = a + b /\ a \in Nat /\ b \in Nat
        BY <4>1, ConcatProperties, LenProperties DEF n, Contents
      <4>4. nn = a
        BY <4>2, Zenon DEF nn
      <4> HIDE DEF a, b
      <4>5. QED
        BY <4>3, <4>4
    <3>3. QED
      BY <1>9, <3>1, <3>2 DEF MessagesDone
  <2>3. QED
    BY <1>1, <1>3, <2>1, <2>2
<1>10. CASE Progress
  <2>1. /\ UNCHANGED <<completed, counting, enqueued, index_request>>
        /\ last_completed' = completed
    BY <1>10 DEF Progress, surroundings, indexVars
  <2>2. last_idle' <= last_completed'
    BY <1>1, <1>3, <1>10, <2>1 DEF Progress, Ends
  <2>3. in_progress' => last_completed' < enqueued'
    <3>1. in_progress' => Reports \/ (in_progress /\ ~Ends)
      BY <1>10 DEF Progress
    <3>2. Reports => completed < enqueued
      BY <1>1, <1>3 DEF Reports
    <3>3. in_progress /\ ~Ends => completed < enqueued
      BY <1>1, <1>3 DEF Ends
    <3>4. QED
      BY <2>1, <3>1, <3>2, <3>3
  <2>4. QED
    BY <1>1, <1>3, <1>4, <2>1, <2>2, <2>3
<1>11. CASE \/ UNCHANGED vars \/ Expire \/ BacklogStep \/ DequeueAll \/ RunQuery
            \/ ApplyUpdate \/ Wait \/ \E k \in DOMAIN Script : StdinRead(k)
  BY <1>5, <1>11 DEF vars, Expire, BacklogStep, DequeueAll, RunQuery, ApplyUpdate, Wait,
     StdinRead, surroundings, indexVars, progressVars, mainVars
<1>12. QED
  BY <1>6, <1>7, <1>8, <1>9, <1>10, <1>11 DEF Next, Main

-----------------------------------------------------------------------------
(* Who waits.  The entries of the backlog, of the batch and of on_request   *)
(* are in the order in which they were sent, one after the other.           *)
Waiters == [k \in DOMAIN backlog |-> backlog[k].message]

InOrder ==
  /\ Ascending(Waiters) /\ Ascending(batch) /\ Ascending(Contents(on_request))
  /\ Before(Elements(Waiters), Elements(batch))
  /\ Before(Elements(Waiters), Elements(Contents(on_request)))
  /\ Before(Elements(batch), Elements(Contents(on_request)))
  /\ \A m \in Elements(Waiters) \cup Elements(batch) \cup Elements(Contents(on_request)) :
       Pos(m) <= read

(* A query that has yet to be run was not answered. *)
Waits(q) == \E k \in DOMAIN backlog : backlog[k].waiting /\ backlog[k].message = q

Outstanding(q) ==
  \/ Pos(q) > read \/ Waits(q)
  \/ q \in Elements(batch) \/ q \in Elements(Contents(on_request))

AnsweredOnce ==
  /\ ~threw
  /\ \A q \in Queries : replies[q] <= 1 /\ (Outstanding(q) => replies[q] = 0)

(* The three queues a message goes through are sequences of messages.       *)
LEMMA QueueTypes ==
  ASSUME TypeOK
  PROVE  /\ Waiters \in Seq(Messages) /\ batch \in Seq(Messages)
         /\ Contents(on_request) \in Seq(Messages)
         /\ DOMAIN Waiters = DOMAIN backlog /\ DOMAIN backlog = 1 .. Len(backlog)
         /\ Len(Waiters) = Len(backlog) /\ Len(backlog) \in Nat /\ read \in Nat
         /\ \A k \in DOMAIN backlog : Waiters[k] = backlog[k].message
         /\ \A k \in DOMAIN backlog : backlog[k].message \in Messages
         /\ Elements(Waiters) \subseteq Messages /\ Elements(batch) \subseteq Messages
         /\ Elements(Contents(on_request)) \subseteq Messages
<1>1. /\ Len(backlog) \in Nat /\ DOMAIN backlog = 1 .. Len(backlog)
      /\ \A k \in DOMAIN backlog : backlog[k] \in BacklogEntry
  BY LenProperties, ElementOfSeq DEF TypeOK
<1>2. \A k \in DOMAIN backlog : backlog[k].message \in Messages
  BY <1>1 DEF BacklogEntry
<1>3. Waiters \in [1 .. Len(backlog) -> Messages]
  BY <1>1, <1>2 DEF Waiters
<1>4. Waiters \in Seq(Messages)
  BY <1>1, <1>3, SeqDef
<1>5. DOMAIN Waiters = DOMAIN backlog /\ \A k \in DOMAIN backlog : Waiters[k] = backlog[k].message
  BY DEF Waiters
<1>6. Len(Waiters) = Len(backlog)
  BY <1>1, <1>4, <1>5, LenProperties
<1>7. on_request.priority \in Seq(Messages) /\ on_request.queue \in Seq(Messages)
  BY DEF TypeOK, QueueOf
<1>8. Contents(on_request) \in Seq(Messages) /\ batch \in Seq(Messages)
  BY <1>7, ConcatProperties DEF Contents, TypeOK
<1>9. ASSUME NEW s \in Seq(Messages)
      PROVE  Elements(s) \subseteq Messages
  BY ElementOfSeq, LenProperties DEF Elements
<1>10. read \in Nat
  BY PosProperties DEF TypeOK
<1>11. QED
  BY <1>1, <1>2, <1>4, <1>5, <1>6, <1>8, <1>9, <1>10

(* How messages move.                                                       *)
Unmoved == UNCHANGED <<read, Waiters, batch, Contents(on_request)>>

Read(k) ==
  /\ k > read /\ read' = k
  /\ Contents(on_request)' = Append(Contents(on_request), Script[k])
  /\ UNCHANGED <<backlog, path2backlog, batch, replies, threw>>

Dequeued ==
  /\ batch' = Contents(on_request) /\ Contents(on_request)' = <<>>
  /\ UNCHANGED <<read, backlog, path2backlog, replies, threw>>

Ran ==
  /\ batch # <<>> /\ batch' = Tail(batch)
  /\ UNCHANGED <<read, Contents(on_request)>>
  /\ Waiters' = Waiters \/ Waiters' = Append(Waiters, Head(batch))

(* Every step is of one of these kinds: each takes a message from one queue *)
(* at most, and puts it into one queue at most.                             *)
LEMMA MessageSteps ==
  ASSUME TypeOK, [Next]_vars
  PROVE  \/ Unmoved /\ UNCHANGED <<backlog, path2backlog, replies, threw>>
         \/ Unmoved /\ ApplyUpdate
         \/ (\E k \in DOMAIN Script : Read(k)) \/ Dequeued
         \/ Ran /\ RunQuery
         \/ Ran /\ UNCHANGED <<backlog, path2backlog, replies, threw>>
         \/ /\ BacklogStep /\ Waiters # <<>> /\ Waiters' = Tail(Waiters)
            /\ UNCHANGED <<read, batch, Contents(on_request)>>
<1>1. on_request' = on_request => Contents(on_request)' = Contents(on_request)
  BY DEF Contents
<1>2. backlog' = backlog => Waiters' = Waiters
  BY DEF Waiters
<1>3. /\ Waiters \in Seq(Messages) /\ DOMAIN Waiters = DOMAIN backlog
      /\ DOMAIN backlog = 1 .. Len(backlog) /\ Len(Waiters) = Len(backlog)
      /\ Len(backlog) \in Nat
      /\ \A k \in DOMAIN backlog : Waiters[k] = backlog[k].message
  BY QueueTypes
<1>4. backlog \in Seq(BacklogEntry)
  BY DEF TypeOK
<1>5. ASSUME NEW k \in DOMAIN Script, StdinRead(k)
      PROVE  Read(k)
  <2>1. on_request \in QueueOf(Messages) /\ Script[k] \in Messages
    BY PosProperties DEF TypeOK
  <2>2. Contents(PushBack(on_request, Script[k], FALSE)) = Append(Contents(on_request), Script[k])
    BY <2>1, PushBackContents
  <2>3. Contents(on_request)' = Append(Contents(on_request), Script[k])
    BY <1>5, <2>2 DEF StdinRead, Contents
  <2>4. QED
    BY <1>5, <2>3 DEF StdinRead, Read, mainVars
<1>6. CASE DequeueAll
  <2>1. Contents(on_request)' = <<>>
    BY <1>6, EmptyQueueProperties DEF DequeueAll, Contents
  <2>2. Dequeued
    BY <1>6, <2>1 DEF DequeueAll, Dequeued, surroundings, clientVars
  <2>3. QED
    BY <2>2
<1>7. CASE RunNotification
  <2>1. Ran
    BY <1>1, <1>2, <1>7 DEF RunNotification, Ran, clientVars
  <2>2. QED
    BY <1>7, <2>1 DEF RunNotification
<1>8. CASE RunQuery
  <2>1. /\ batch # <<>> /\ batch' = Tail(batch) /\ UNCHANGED <<read, Contents(on_request)>>
    BY <1>1, <1>8 DEF RunQuery, surroundings, clientVars
  <2>2. \/ backlog' = backlog
        \/ backlog' = Append(backlog, [message |-> Head(batch), waiting |-> TRUE])
    BY <1>8 DEF RunQuery
  <2>3. CASE backlog' = Append(backlog, [message |-> Head(batch), waiting |-> TRUE])
    <3> DEFINE e == [message |-> Head(batch), waiting |-> TRUE]
               W == [k \in DOMAIN Append(backlog, e) |-> Append(backlog, e)[k].message]
    <3>1. Head(batch) \in Messages /\ e \in BacklogEntry /\ e.message = Head(batch)
      <4>1. batch \in Seq(Messages)
        BY DEF TypeOK
      <4>2. QED
        BY <2>1, <4>1 DEF BacklogEntry
    <3> HIDE DEF e
    <3>2. /\ DOMAIN Append(backlog, e) = 1 .. Len(backlog) + 1
          /\ Append(backlog, e)[Len(backlog) + 1] = e
          /\ \A k \in 1 .. Len(backlog) : Append(backlog, e)[k] = backlog[k]
      BY <1>3, <1>4, <3>1, AppendProperties, LenProperties
    <3>3. /\ DOMAIN Append(Waiters, Head(batch)) = 1 .. Len(backlog) + 1
          /\ Append(Waiters, Head(batch))[Len(backlog) + 1] = Head(batch)
          /\ \A k \in 1 .. Len(backlog) : Append(Waiters, Head(batch))[k] = Waiters[k]
          /\ Append(Waiters, Head(batch)) \in Seq(Messages)
      BY <1>3, <3>1, AppendProperties, LenProperties
    <3>4. ASSUME NEW k \in 1 .. Len(backlog) + 1
          PROVE  W[k] = Append(Waiters, Head(batch))[k]
      BY <1>3, <3>1, <3>2, <3>3
    <3>5. W = Append(Waiters, Head(batch))
      <4>1. Append(Waiters, Head(batch)) \in [1 .. Len(backlog) + 1 -> Messages]
        BY <3>3, LenProperties
      <4>2. W \in [1 .. Len(backlog) + 1 -> Messages]
        BY <3>2, <3>4, <4>1
      <4> HIDE DEF W
      <4>3. Len(Append(Waiters, Head(batch))) = Len(backlog) + 1 /\ Len(backlog) + 1 \in Nat
        BY <1>3, <4>1, FunctionIsSeq
      <4>4. QED
        BY <3>3, <3>4, <4>2, <4>3, FunctionIsSeq
    <3>6. Waiters' = W
      BY <2>3 DEF Waiters, e
    <3>7. QED
      BY <1>8, <2>1, <3>5, <3>6 DEF Ran
  <2>4. QED
    BY <1>2, <1>8, <2>1, <2>2, <2>3 DEF Ran
<1>9. CASE BacklogStep
  <2>1. /\ backlog # <<>> /\ backlog' = Tail(backlog)
        /\ UNCHANGED <<read, batch, Contents(on_request)>>
    BY <1>1, <1>9 DEF BacklogStep, surroundings, clientVars
  <2>2. Waiters # <<>> /\ Len(backlog) # 0
    BY <1>3, <1>4, <2>1, EmptySeq
  <2>3. /\ DOMAIN Tail(backlog) = 1 .. Len(backlog) - 1
        /\ \A k \in 1 .. Len(backlog) - 1 : Tail(backlog)[k] = backlog[k + 1]
    BY <1>4, <2>1
  <2>4. /\ DOMAIN Tail(Waiters) = 1 .. Len(backlog) - 1
        /\ \A k \in 1 .. Len(backlog) - 1 : Tail(Waiters)[k] = Waiters[k + 1]
        /\ Tail(Waiters) \in Seq(Messages)
    BY <1>3, <2>2
  <2> DEFINE W == [k \in DOMAIN Tail(backlog) |-> Tail(backlog)[k].message]
  <2>5. ASSUME NEW k \in 1 .. Len(backlog) - 1
        PROVE  W[k] = Tail(Waiters)[k]
    BY <1>3, <2>3, <2>4
  <2>6. W = Tail(Waiters)
    <3>1. Tail(Waiters) \in [1 .. Len(backlog) - 1 -> Messages]
      BY <2>4, LenProperties
    <3>2. W \in [1 .. Len(backlog) - 1 -> Messages]
      BY <2>3, <2>5, <3>1
    <3> HIDE DEF W
    <3>3. Len(Tail(Waiters)) = Len(backlog) - 1 /\ Len(backlog) - 1 \in Nat
      <4>1. Len(backlog) - 1 \in Nat
        BY <1>3, <2>2
      <4>2. Len(Tail(Waiters)) = Len(Waiters) - 1
        BY <1>3, <2>2, HeadTailProperties
      <4>3. QED
        BY <1>3, <4>1, <4>2
    <3>4. QED
      BY <2>4, <2>5, <3>2, <3>3, FunctionIsSeq
  <2>7. QED
    BY <1>9, <2>1, <2>2, <2>6 DEF Waiters
<1>10. CASE ApplyUpdate
  <2>1. backlog' = Served(path2backlog[Front(on_indexed)])
        /\ UNCHANGED <<read, batch, Contents(on_request)>>
    BY <1>1, <1>10 DEF ApplyUpdate, surroundings, clientVars
  <2>2. Waiters' = Waiters
    BY <1>3, <2>1, ServedProperties DEF Waiters
  <2>3. QED
    BY <1>10, <2>1, <2>2 DEF Unmoved
<1>11. CASE UNCHANGED <<read, batch, on_request, backlog, path2backlog, replies, threw>>
  BY <1>1, <1>2, <1>11 DEF Unmoved
<1>12. CASE \/ UNCHANGED vars \/ Expire \/ IndexerPush \/ IndexerNothing \/ IndexerCount
            \/ MessagesDone \/ Progress \/ Wait
  BY <1>11, <1>12 DEF vars, Expire, IndexerPush, IndexerNothing, IndexerCount,
     MessagesDone, Progress, Wait, clientVars, surroundings, mainVars
<1>13. QED
  BY <1>5, <1>6, <1>7, <1>8, <1>9, <1>10, <1>12 DEF Next, Main

(* The order is kept: a message is only appended behind those sent before.  *)
LEMMA NextInOrder ==
  ASSUME TypeOK, InOrder, [Next]_vars
  PROVE  InOrder'
<1> DEFINE W == Waiters
           B == batch
           C == Contents(on_request)
<1>1. /\ W \in Seq(Messages) /\ B \in Seq(Messages) /\ C \in Seq(Messages) /\ read \in Nat
      /\ Elements(W) \subseteq Messages /\ Elements(B) \subseteq Messages
      /\ Elements(C) \subseteq Messages
  BY QueueTypes
<1>2. /\ Ascending(W) /\ Ascending(B) /\ Ascending(C)
      /\ Before(Elements(W), Elements(B)) /\ Before(Elements(W), Elements(C))
      /\ Before(Elements(B), Elements(C))
      /\ \A m \in Elements(W) \cup Elements(B) \cup Elements(C) : Pos(m) <= read
  BY DEF InOrder
<1>3. SUFFICES
        /\ Ascending(W') /\ Ascending(B') /\ Ascending(C')
        /\ Before(Elements(W'), Elements(B')) /\ Before(Elements(W'), Elements(C'))
        /\ Before(Elements(B'), Elements(C'))
        /\ \A m \in Elements(W') \cup Elements(B') \cup Elements(C') : Pos(m) <= read'
  BY DEF InOrder, Ascending, Before, Elements
<1> HIDE DEF W, B, C
<1>4. CASE UNCHANGED <<read, W, B, C>>
  BY <1>2, <1>4
<1>5. CASE \E k \in DOMAIN Script : Read(k)
  <2> PICK k \in DOMAIN Script : Read(k)
    BY <1>5
  <2>1. /\ k > read /\ read' = k /\ C' = Append(C, Script[k]) /\ W' = W /\ B' = B
    BY DEF Read, W, B, C, Waiters
  <2>2. Script[k] \in Messages /\ Pos(Script[k]) = k /\ k \in Nat
    BY PosProperties
  <2>3. \A m \in Messages : Pos(m) \in Nat
    BY PosProperties
  <2>4. /\ Before(Elements(W), {Script[k]}) /\ Before(Elements(B), {Script[k]})
        /\ Before(Elements(C), {Script[k]})
    BY <1>1, <1>2, <2>1, <2>2, <2>3 DEF Before
  <2>5. Ascending(C') /\ Elements(C') = Elements(C) \cup {Script[k]}
    BY <1>1, <1>2, <2>1, <2>2, <2>4, AppendInOrder
  <2>6. Before(Elements(W), Elements(C')) /\ Before(Elements(B), Elements(C'))
    BY <1>2, <2>4, <2>5 DEF Before
  <2>7. \A m \in Elements(W) \cup Elements(B) \cup Elements(C') : Pos(m) <= read'
    BY <1>1, <1>2, <2>1, <2>2, <2>3, <2>5
  <2>8. QED
    BY <1>2, <2>1, <2>5, <2>6, <2>7
<1>6. CASE Dequeued
  <2>1. read' = read /\ B' = C /\ C' = <<>> /\ W' = W
    BY <1>6 DEF Dequeued, W, B, C, Waiters
  <2>2. Ascending(<<>>) /\ Elements(<<>>) = {}
    BY DEF Ascending, Elements
  <2>3. QED
    BY <1>2, <2>1, <2>2 DEF Before
<1>7. CASE Ran
  <2>1. /\ B # <<>> /\ B' = Tail(B) /\ C' = C /\ read' = read
        /\ W' = W \/ W' = Append(W, Head(B))
    BY <1>7 DEF Ran, W, B, C
  <2>2. /\ Head(B) \in Messages /\ Tail(B) \in Seq(Messages) /\ Head(B) \in Elements(B)
        /\ Elements(Tail(B)) \subseteq Elements(B)
        /\ Ascending(Tail(B)) /\ Before({Head(B)}, Elements(Tail(B)))
    BY <1>1, <1>2, <2>1, TailInOrder
  <2>3. /\ Before(Elements(W), Elements(Tail(B))) /\ Before(Elements(Tail(B)), Elements(C))
    BY <1>2, <2>2 DEF Before
  <2>4. CASE W' = W
    BY <1>2, <2>1, <2>2, <2>3, <2>4
  <2>5. CASE W' = Append(W, Head(B))
    <3>1. Before(Elements(W), {Head(B)}) /\ Before({Head(B)}, Elements(C))
      BY <1>2, <2>2 DEF Before
    <3>2. Ascending(W') /\ Elements(W') = Elements(W) \cup {Head(B)}
      BY <1>1, <1>2, <2>2, <2>5, <3>1, AppendInOrder
    <3>3. Before(Elements(W'), Elements(Tail(B))) /\ Before(Elements(W'), Elements(C))
      BY <1>2, <2>2, <2>3, <3>1, <3>2 DEF Before
    <3>4. \A m \in Elements(W') \cup Elements(Tail(B)) \cup Elements(C) : Pos(m) <= read
      BY <1>2, <2>2, <3>2
    <3>5. QED
      BY <1>2, <2>1, <2>2, <2>3, <3>2, <3>3, <3>4
  <2>6. QED
    BY <2>1, <2>4, <2>5
<1>8. CASE W # <<>> /\ W' = Tail(W) /\ UNCHANGED <<read, B, C>>
  <2>1. /\ Elements(Tail(W)) \subseteq Elements(W) /\ Ascending(Tail(W))
    BY <1>1, <1>2, <1>8, TailInOrder
  <2>2. Before(Elements(Tail(W)), Elements(B)) /\ Before(Elements(Tail(W)), Elements(C))
    BY <1>2, <2>1 DEF Before
  <2>3. QED
    BY <1>2, <1>8, <2>1, <2>2
<1>9. QED
  <2>1. \/ Unmoved \/ (\E k \in DOMAIN Script : Read(k)) \/ Dequeued \/ Ran
        \/ Waiters # <<>> /\ Waiters' = Tail(Waiters)
             /\ UNCHANGED <<read, batch, Contents(on_request)>>
    BY MessageSteps
  <2>2. QED
    BY <1>4, <1>5, <1>6, <1>7, <1>8, <2>1 DEF Unmoved, W, B, C

-----------------------------------------------------------------------------
(* The index of the backlog.  BacklogIndexed says this of the list of each  *)
(* path.                                                                    *)
Indexed(p, list, log) ==
  /\ \A i \in DOMAIN list : \E k \in DOMAIN log : list[i] = log[k].message
  /\ \A k \in DOMAIN log :
       log[k].waiting /\ log[k].message.path = p
         <=> \E i \in DOMAIN list : list[i] = log[k].message
  /\ \A i, j \in DOMAIN list, k, l \in DOMAIN log :
       i < j /\ list[i] = log[k].message /\ list[j] = log[l].message => k < l

Different(log) == \A j, k \in DOMAIN log : log[j].message = log[k].message => j = k

(* BacklogIndexed in these terms.                                           *)
LEMMA BacklogIs ==
  BacklogIndexed <=> /\ Different(backlog)
                     /\ \A p \in Paths : Indexed(p, path2backlog[p], backlog)
  BY DEF BacklogIndexed, Different, Indexed, PointsTo

(* A request that has to wait goes to the end of both.                      *)
LEMMA IndexedAppend ==
  ASSUME NEW p, NEW list \in Seq(Messages), NEW log \in Seq(BacklogEntry),
         NEW m \in Messages, \A k \in DOMAIN log : log[k].message # m,
         Indexed(p, list, log)
  PROVE  /\ m.path = p =>
              Indexed(p, Append(list, m), Append(log, [message |-> m, waiting |-> TRUE]))
         /\ m.path # p =>
              Indexed(p, list, Append(log, [message |-> m, waiting |-> TRUE]))
<1> DEFINE e == [message |-> m, waiting |-> TRUE]
           a == Len(list)
           b == Len(log)
           list2 == Append(list, m)
           log2 == Append(log, e)
<1>1. e \in BacklogEntry /\ e.message = m /\ e.waiting
  BY DEF BacklogEntry
<1> HIDE DEF e
<1>2. /\ a \in Nat /\ b \in Nat /\ DOMAIN list = 1 .. a /\ DOMAIN log = 1 .. b
      /\ DOMAIN list2 = 1 .. a + 1 /\ list2[a + 1] = m
      /\ \A i \in 1 .. a : list2[i] = list[i]
      /\ DOMAIN log2 = 1 .. b + 1 /\ log2[b + 1] = e
      /\ \A k \in 1 .. b : log2[k] = log[k]
  BY <1>1, AppendProperties, LenProperties
<1> HIDE DEF a, b, list2, log2
<1>3. \A i \in 1 .. a : \E k \in 1 .. b : list[i] = log[k].message
  BY <1>2 DEF Indexed
<1>4. \A i \in 1 .. a : list[i] # m
  BY <1>2, <1>3
<1>5. \A i \in 1 .. a + 1 : i \in 1 .. a \/ i = a + 1
  BY <1>2
<1>6. \A k \in 1 .. b + 1 : k \in 1 .. b \/ k = b + 1
  BY <1>2
<1>7. ASSUME m.path = p
      PROVE  Indexed(p, list2, log2)
  <2>1. \A i \in DOMAIN list2 : \E k \in DOMAIN log2 : list2[i] = log2[k].message
    <3>1. \A i \in 1 .. a : \E k \in 1 .. b + 1 : list2[i] = log2[k].message
      BY <1>2, <1>3
    <3>2. b + 1 \in 1 .. b + 1
      BY <1>2
    <3>3. QED
      BY <1>1, <1>2, <1>5, <3>1, <3>2
  <2>2. ASSUME NEW k \in DOMAIN log2
        PROVE  log2[k].waiting /\ log2[k].message.path = p
                 <=> \E i \in DOMAIN list2 : list2[i] = log2[k].message
    <3>1. CASE k = b + 1
      <4>1. a + 1 \in DOMAIN list2 /\ list2[a + 1] = log2[k].message
        BY <1>1, <1>2, <3>1
      <4>2. QED
        BY <1>1, <1>2, <1>7, <3>1, <4>1
    <3>2. CASE k \in 1 .. b
      <4>1. log2[k] = log[k] /\ log[k].message # m
        BY <1>2, <3>2
      <4>2. (\E i \in DOMAIN list2 : list2[i] = log[k].message)
               <=> \E i \in DOMAIN list : list[i] = log[k].message
        BY <1>2, <1>5, <4>1
      <4>3. QED
        BY <1>2, <3>2, <4>1, <4>2 DEF Indexed
    <3>3. QED
      BY <1>2, <1>6, <2>2, <3>1, <3>2
  <2>3. ASSUME NEW i \in DOMAIN list2, NEW j \in DOMAIN list2,
               NEW k \in DOMAIN log2, NEW l \in DOMAIN log2,
               i < j, list2[i] = log2[k].message, list2[j] = log2[l].message
        PROVE  k < l
    <3>1. i \in 1 .. a
      BY <1>2, <2>3
    <3>2. list2[i] # m /\ list2[i] = list[i]
      BY <1>2, <1>4, <3>1
    <3>3. k \in 1 .. b
      BY <1>1, <1>2, <1>6, <2>3, <3>2
    <3>4. CASE l = b + 1
      BY <1>2, <3>3, <3>4
    <3>5. CASE l \in 1 .. b
      <4>1. log2[l].message # m
        BY <1>2, <3>5
      <4>2. j \in 1 .. a
        BY <1>2, <1>5, <2>3, <4>1
      <4>3. QED
        BY <1>2, <2>3, <3>1, <3>3, <3>5, <4>2 DEF Indexed
    <3>6. QED
      BY <1>2, <1>6, <3>4, <3>5
  <2>4. QED
    BY <2>1, <2>2, <2>3 DEF Indexed
<1>8. ASSUME m.path # p
      PROVE  Indexed(p, list, log2)
  <2>1. ASSUME NEW i \in DOMAIN list
        PROVE  \E k \in DOMAIN log2 : list[i] = log2[k].message
    <3>1. PICK k \in 1 .. b : list[i] = log[k].message
      BY <1>2, <1>3
    <3>2. k \in DOMAIN log2 /\ log2[k] = log[k]
      BY <1>2
    <3>3. QED
      BY <3>1, <3>2
  <2>2. ASSUME NEW k \in DOMAIN log2
        PROVE  log2[k].waiting /\ log2[k].message.path = p
                 <=> \E i \in DOMAIN list : list[i] = log2[k].message
    <3>1. CASE k = b + 1
      BY <1>1, <1>2, <1>4, <1>8, <3>1
    <3>2. CASE k \in 1 .. b
      BY <1>2, <3>2 DEF Indexed
    <3>3. QED
      BY <1>2, <1>6, <3>1, <3>2
  <2>3. ASSUME NEW i \in DOMAIN list, NEW j \in DOMAIN list,
               NEW k \in DOMAIN log2, NEW l \in DOMAIN log2,
               i < j, list[i] = log2[k].message, list[j] = log2[l].message
        PROVE  k < l
    <3>1. k \in 1 .. b /\ l \in 1 .. b
      BY <1>1, <1>2, <1>4, <1>6, <2>3
    <3>2. QED
      BY <1>2, <2>3, <3>1 DEF Indexed
  <2>4. QED
    BY <2>1, <2>2, <2>3 DEF Indexed
<1>9. QED
  BY <1>7, <1>8 DEF e, list2, log2

(* The front of the backlog, if it waits, is the front of its path's list,  *)
(* and both go.                                                             *)
LEMMA IndexedTail ==
  ASSUME NEW p, NEW list \in Seq(Messages), NEW log \in Seq(BacklogEntry),
         log # <<>>, Different(log), Indexed(p, list, log)
  PROVE  /\ log[1].waiting /\ log[1].message.path = p =>
              /\ list # <<>> /\ Head(list) = log[1].message
              /\ Indexed(p, Tail(list), Tail(log))
         /\ ~(log[1].waiting /\ log[1].message.path = p) => Indexed(p, list, Tail(log))
<1> DEFINE a == Len(list)
           b == Len(log)
           list2 == Tail(list)
           log2 == Tail(log)
<1>1. /\ a \in Nat /\ b \in Nat \ {0} /\ DOMAIN list = 1 .. a /\ DOMAIN log = 1 .. b
      /\ DOMAIN log2 = 1 .. b - 1 /\ \A k \in 1 .. b - 1 : log2[k] = log[k + 1]
  BY LenProperties, EmptySeq
<1>2. list # <<>> => /\ a # 0 /\ DOMAIN list2 = 1 .. a - 1 /\ Head(list) = list[1]
                     /\ \A k \in 1 .. a - 1 : list2[k] = list[k + 1]
  BY EmptySeq
<1> HIDE DEF a, b, list2, log2
<1>3. /\ \A k \in 1 .. b - 1 : k + 1 \in 1 .. b
      /\ \A k \in 1 .. b : k = 1 \/ (k - 1 \in 1 .. b - 1 /\ log2[k - 1] = log[k])
  <2>1. ASSUME NEW k \in 1 .. b, k # 1
        PROVE  k - 1 \in 1 .. b - 1 /\ log2[k - 1] = log[k]
    <3>1. k - 1 \in 1 .. b - 1 /\ k - 1 + 1 = k
      BY <1>1, <2>1
    <3>2. QED
      BY <1>1, <3>1, Zenon
  <2>2. QED
    BY <1>1, <2>1
<1>4. ASSUME log[1].waiting, log[1].message.path = p
      PROVE  /\ list # <<>> /\ Head(list) = log[1].message
             /\ Indexed(p, list2, log2)
  <2>1. PICK f \in 1 .. a : list[f] = log[1].message
    BY <1>1, <1>4 DEF Indexed
  <2>2. 1 \in 1 .. a /\ list # <<>>
    <3>1. 1 \in 1 .. a
      BY <1>1, <2>1
    <3>2. QED
      BY <1>1, <3>1
  <2>3. f = 1
    <3>1. PICK k \in 1 .. b : list[1] = log[k].message
      BY <1>1, <2>2 DEF Indexed
    <3>2. 1 < f => k < 1
      <4>1. 1 \in DOMAIN list /\ f \in DOMAIN list /\ k \in DOMAIN log /\ 1 \in DOMAIN log
        BY <1>1, <2>1, <2>2, <3>1
      <4>2. QED
        BY <2>1, <3>1, <4>1, Zenon DEF Indexed
    <3>3. QED
      BY <1>1, <2>1, <3>1, <3>2
  <2>4. \A i \in 1 .. a - 1 : i + 1 \in 1 .. a /\ list2[i] = list[i + 1]
    BY <1>1, <1>2, <2>2
  <2>5. ASSUME NEW i \in 1 .. a - 1, NEW k \in 1 .. b, list[i + 1] = log[k].message
        PROVE  k # 1 /\ k - 1 \in 1 .. b - 1 /\ list2[i] = log2[k - 1].message
    <3>1. 1 < i + 1 /\ i + 1 \in 1 .. a
      BY <1>1
    <3>2. 1 < k
      <4>1. 1 \in DOMAIN list /\ i + 1 \in DOMAIN list /\ k \in DOMAIN log /\ 1 \in DOMAIN log
        BY <1>1, <2>2, <3>1
      <4>2. list[1] = log[1].message
        BY <2>1, <2>3
      <4>3. ASSUME NEW j \in DOMAIN list, NEW l \in DOMAIN log,
                   1 < j, list[1] = log[1].message, list[j] = log[l].message
            PROVE  1 < l
        BY <4>1, <4>3 DEF Indexed
      <4>4. QED
        BY <2>5, <3>1, <4>1, <4>2, <4>3
    <3>3. QED
      BY <1>3, <2>4, <2>5, <3>2
  <2>6. \A i \in DOMAIN list2 : \E k \in DOMAIN log2 : list2[i] = log2[k].message
    <3>1. ASSUME NEW i \in 1 .. a - 1
          PROVE  \E k \in 1 .. b - 1 : list2[i] = log2[k].message
      <4>1. PICK k \in 1 .. b : list[i + 1] = log[k].message
        BY <1>1, <2>4 DEF Indexed
      <4>2. QED
        BY <2>5, <4>1
    <3>2. QED
      BY <1>1, <1>2, <2>2, <3>1
  <2>7. ASSUME NEW k \in DOMAIN log2
        PROVE  log2[k].waiting /\ log2[k].message.path = p
                 <=> \E i \in DOMAIN list2 : list2[i] = log2[k].message
    <3>1. k \in 1 .. b - 1 /\ k + 1 \in 1 .. b /\ log2[k] = log[k + 1] /\ k + 1 # 1
      BY <1>1, <1>3, <2>7
    <3>2. ASSUME NEW i \in 1 .. a, list[i] = log[k + 1].message
          PROVE  \E j \in DOMAIN list2 : list2[j] = log2[k].message
      <4>1. i # 1
        BY <1>1, <2>1, <2>3, <3>1, <3>2 DEF Different
      <4>2. i - 1 \in 1 .. a - 1 /\ i - 1 + 1 = i
        BY <1>1, <4>1
      <4>3. list2[i - 1] = list[i] /\ i - 1 \in DOMAIN list2
        BY <1>2, <2>2, <2>4, <4>2
      <4>4. QED
        BY <3>1, <3>2, <4>3
    <3>3. ASSUME NEW i \in DOMAIN list2, list2[i] = log2[k].message
          PROVE  \E j \in 1 .. a : list[j] = log[k + 1].message
      BY <1>2, <2>2, <2>4, <3>1, <3>3
    <3>4. log[k + 1].waiting /\ log[k + 1].message.path = p
            <=> \E i \in 1 .. a : list[i] = log[k + 1].message
      BY <1>1, <3>1 DEF Indexed
    <3>5. QED
      BY <3>1, <3>2, <3>3, <3>4
  <2>8. ASSUME NEW i \in DOMAIN list2, NEW j \in DOMAIN list2,
               NEW k \in DOMAIN log2, NEW l \in DOMAIN log2,
               i < j, list2[i] = log2[k].message, list2[j] = log2[l].message
        PROVE  k < l
    <3>1. /\ i \in 1 .. a - 1 /\ j \in 1 .. a - 1 /\ k \in 1 .. b - 1 /\ l \in 1 .. b - 1
      BY <1>1, <1>2, <2>2
    <3>2. /\ i + 1 \in 1 .. a /\ j + 1 \in 1 .. a /\ k + 1 \in 1 .. b /\ l + 1 \in 1 .. b
          /\ i + 1 < j + 1
      BY <1>1, <2>8, <3>1
    <3>3. list[i + 1] = log[k + 1].message /\ list[j + 1] = log[l + 1].message
      BY <1>1, <2>4, <2>8, <3>1
    <3>4. k + 1 < l + 1
      BY <1>1, <3>2, <3>3 DEF Indexed
    <3>5. QED
      BY <3>1, <3>4
  <2>9. Indexed(p, list2, log2)
    BY <2>6, <2>7, <2>8 DEF Indexed
  <2>10. QED
    BY <1>2, <2>1, <2>2, <2>3, <2>9
<1>5. ASSUME ~(log[1].waiting /\ log[1].message.path = p)
      PROVE  Indexed(p, list, log2)
  <2>1. \A i \in 1 .. a : list[i] # log[1].message
    BY <1>1, <1>5 DEF Indexed
  <2>2. \A i \in DOMAIN list : \E k \in DOMAIN log2 : list[i] = log2[k].message
    <3>1. ASSUME NEW i \in 1 .. a
          PROVE  \E k \in 1 .. b - 1 : list[i] = log2[k].message
      <4>1. PICK k \in 1 .. b : list[i] = log[k].message
        BY <1>1 DEF Indexed
      <4>2. k # 1
        BY <2>1, <4>1
      <4>3. QED
        BY <1>3, <4>1, <4>2
    <3>2. QED
      BY <1>1, <3>1
  <2>3. ASSUME NEW k \in DOMAIN log2
        PROVE  log2[k].waiting /\ log2[k].message.path = p
                 <=> \E i \in DOMAIN list : list[i] = log2[k].message
    <3>1. k + 1 \in DOMAIN log /\ log2[k] = log[k + 1]
      BY <1>1, <1>3, <2>3
    <3>2. QED
      BY <3>1 DEF Indexed
  <2>4. ASSUME NEW i \in DOMAIN list, NEW j \in DOMAIN list,
               NEW k \in DOMAIN log2, NEW l \in DOMAIN log2,
               i < j, list[i] = log2[k].message, list[j] = log2[l].message
        PROVE  k < l
    <3>1. k \in 1 .. b - 1 /\ l \in 1 .. b - 1 /\ k + 1 \in 1 .. b /\ l + 1 \in 1 .. b
      BY <1>1
    <3>2. list[i] = log[k + 1].message /\ list[j] = log[l + 1].message
      BY <1>1, <2>4, <3>1
    <3>3. k + 1 < l + 1
      BY <1>1, <2>4, <3>1, <3>2 DEF Indexed
    <3>4. QED
      BY <3>1, <3>3
  <2>5. QED
    BY <2>2, <2>3, <2>4 DEF Indexed
<1>6. QED
  BY <1>4, <1>5 DEF list2, log2

(* Messages in order are different.                                         *)
LEMMA WaitersDiffer ==
  ASSUME NEW log \in Seq(BacklogEntry), Ascending([k \in DOMAIN log |-> log[k].message])
  PROVE  Different(log)
<1>1. /\ Len(log) \in Nat /\ DOMAIN log = 1 .. Len(log)
      /\ \A k \in DOMAIN log : log[k] \in BacklogEntry
  BY LenProperties, ElementOfSeq
<1>2. \A k \in DOMAIN log : log[k].message \in Messages
  BY <1>1 DEF BacklogEntry
<1>3. \A m \in Messages : Pos(m) \in Nat
  BY PosProperties
<1>4. SUFFICES ASSUME NEW j \in DOMAIN log, NEW k \in DOMAIN log, j < k
               PROVE  log[j].message # log[k].message
  BY <1>1 DEF Different
<1>5. Pos(log[j].message) < Pos(log[k].message)
  BY <1>4 DEF Ascending
<1>6. QED
  BY <1>2, <1>3, <1>5

(* Whatever the main thread does to the backlog, the index follows.         *)
LEMMA NextBacklog ==
  ASSUME TypeOK, InOrder, BacklogIndexed, [Next]_vars
  PROVE  BacklogIndexed'
<1>1. TypeOK' /\ InOrder'
  BY NextType, NextInOrder
<1>2. Different(backlog) /\ \A p \in Paths : Indexed(p, path2backlog[p], backlog)
  BY BacklogIs
<1>3. Different(backlog')
  <2>1. backlog' \in Seq(BacklogEntry)
    BY <1>1 DEF TypeOK
  <2>2. Ascending([k \in DOMAIN backlog' |-> backlog'[k].message])
    BY <1>1 DEF InOrder, Ascending, Waiters
  <2>3. QED
    BY <2>1, <2>2, WaitersDiffer
<1>4. SUFFICES ASSUME NEW p \in Paths
               PROVE  Indexed(p, path2backlog'[p], backlog')
  <2>1. (\A p \in Paths : Indexed(p, path2backlog[p], backlog))' => BacklogIndexed'
    BY <1>3 DEF BacklogIndexed, Different, Indexed, PointsTo
  <2>2. QED
    BY <1>4, <2>1 DEF Indexed
<1>5. /\ backlog \in Seq(BacklogEntry) /\ path2backlog \in [Paths -> Seq(Messages)]
      /\ path2backlog[p] \in Seq(Messages) /\ Indexed(p, path2backlog[p], backlog)
  BY <1>2 DEF TypeOK
<1>6. CASE UNCHANGED <<backlog, path2backlog>>
  BY <1>5, <1>6
<1>7. CASE BacklogStep
  <2> DEFINE front == backlog[1]
             q == front.message.path
  <2>1. /\ backlog # <<>> /\ backlog' = Tail(backlog)
        /\ front.waiting => path2backlog' = [path2backlog EXCEPT ![q] = Tail(path2backlog[q])]
        /\ ~front.waiting => path2backlog' = path2backlog
    BY <1>7 DEF BacklogStep, Unlist
  <2> HIDE DEF front, q
  <2>2. CASE front.waiting /\ q = p
    <3>1. Indexed(p, Tail(path2backlog[p]), Tail(backlog))
      BY <1>2, <1>5, <2>1, <2>2, IndexedTail DEF front, q
    <3>2. path2backlog'[p] = Tail(path2backlog[p])
      BY <1>5, <2>1, <2>2
    <3>3. QED
      BY <2>1, <3>1, <3>2
  <2>3. CASE ~(front.waiting /\ q = p)
    <3>1. Indexed(p, path2backlog[p], Tail(backlog))
      BY <1>2, <1>5, <2>1, <2>3, IndexedTail DEF front, q
    <3>2. path2backlog'[p] = path2backlog[p]
      BY <1>5, <2>1, <2>3
    <3>3. QED
      BY <2>1, <3>1, <3>2
  <2>4. QED
    BY <2>2, <2>3
<1>8. CASE RunQuery
  <2> DEFINE m == Head(batch)
  <2>1. batch # <<>> /\ m \in Messages /\ m \in Elements(batch)
    <3>1. batch # <<>> /\ batch \in Seq(Messages)
      BY <1>8 DEF RunQuery, TypeOK
    <3>2. QED
      BY <3>1, TailInOrder
  <2>2. \A k \in DOMAIN backlog : backlog[k].message # m
    <3>1. /\ Elements(Waiters) \subseteq Messages /\ Elements(batch) \subseteq Messages
          /\ DOMAIN Waiters = DOMAIN backlog
          /\ \A k \in DOMAIN backlog : Waiters[k] = backlog[k].message
      BY QueueTypes
    <3>2. Elements(Waiters) \cap Elements(batch) = {}
      BY <3>1, BeforeDiffers DEF InOrder
    <3>3. \A k \in DOMAIN backlog : backlog[k].message \in Elements(Waiters)
      BY <3>1 DEF Elements
    <3>4. QED
      BY <2>1, <3>2, <3>3
  <2>3. CASE UNCHANGED <<backlog, path2backlog>>
    BY <1>6, <2>3
  <2>4. CASE /\ backlog' = Append(backlog, [message |-> m, waiting |-> TRUE])
             /\ path2backlog' = [path2backlog EXCEPT ![m.path] = Append(@, m)]
    <3> DEFINE log2 == Append(backlog, [message |-> m, waiting |-> TRUE])
    <3>1. /\ m.path = p => Indexed(p, Append(path2backlog[p], m), log2)
          /\ m.path # p => Indexed(p, path2backlog[p], log2)
      BY <1>5, <2>1, <2>2, IndexedAppend
    <3>2. /\ m.path = p => path2backlog'[p] = Append(path2backlog[p], m)
          /\ m.path # p => path2backlog'[p] = path2backlog[p]
      BY <1>5, <2>4
    <3> HIDE DEF m, log2
    <3>3. QED
      BY <2>4, <3>1, <3>2 DEF log2
  <2>5. QED
    BY <1>8, <2>3, <2>4 DEF RunQuery
<1>9. CASE ApplyUpdate
  <2> DEFINE f == Front(on_indexed)
             again == path2backlog[f]
             log2 == Served(again)
  <2>1. /\ backlog' = log2 /\ path2backlog' = [path2backlog EXCEPT ![f] = <<>>]
    BY <1>9 DEF ApplyUpdate
  <2>2. f \in Paths
    BY <1>9, PopFrontProperties DEF ApplyUpdate, MoreUpdates, TypeOK
  <2>3. Indexed(f, again, backlog)
    BY <1>2, <2>2
  <2>4. /\ DOMAIN log2 = DOMAIN backlog
        /\ \A k \in DOMAIN backlog :
             /\ log2[k].message = backlog[k].message
             /\ log2[k].waiting <=>
                  /\ backlog[k].waiting
                  /\ \A j \in DOMAIN again : again[j] # backlog[k].message
    BY ServedProperties
  <2> HIDE DEF f, again, log2
  <2>5. CASE p = f
    <3>1. path2backlog'[p] = <<>>
      BY <1>5, <2>1, <2>5
    <3>2. \A k \in DOMAIN log2 : ~(log2[k].waiting /\ log2[k].message.path = p)
      BY <2>3, <2>4, <2>5 DEF Indexed
    <3>3. Indexed(p, <<>>, log2)
      BY <3>2 DEF Indexed
    <3>4. QED
      BY <2>1, <3>1, <3>3
  <2>6. CASE p # f
    <3>1. path2backlog'[p] = path2backlog[p]
      BY <1>5, <2>1, <2>6
    <3>2. ASSUME NEW k \in DOMAIN backlog, backlog[k].message.path = p
          PROVE  log2[k].waiting <=> backlog[k].waiting
      BY <2>3, <2>4, <2>6, <3>2 DEF Indexed
    <3>3. ASSUME NEW k \in DOMAIN log2
          PROVE  log2[k].waiting /\ log2[k].message.path = p
                   <=> \E i \in DOMAIN path2backlog[p] : path2backlog[p][i] = log2[k].message
      <4>1. /\ k \in DOMAIN backlog /\ log2[k].message = backlog[k].message
        BY <2>4
      <4>2. backlog[k].waiting /\ backlog[k].message.path = p
              <=> \E i \in DOMAIN path2backlog[p] : path2backlog[p][i] = backlog[k].message
        BY <1>5, <4>1 DEF Indexed
      <4>3. QED
        BY <3>2, <4>1, <4>2
    <3>4. Indexed(p, path2backlog[p], log2)
      <4> DEFINE list == path2backlog[p]
      <4>1. \A i \in DOMAIN list : \E k \in DOMAIN log2 : list[i] = log2[k].message
        BY <1>5, <2>4, ZenonT(30) DEF Indexed
      <4>2. \A i, j \in DOMAIN list, k, l \in DOMAIN log2 :
              i < j /\ list[i] = log2[k].message /\ list[j] = log2[l].message => k < l
        BY <1>5, <2>4 DEF Indexed
      <4>3. QED
        BY <3>3, <4>1, <4>2 DEF Indexed
    <3>5. QED
      BY <2>1, <3>1, <3>4
  <2>7. QED
    BY <2>5, <2>6
<1>10. QED
  BY <1>6, <1>7, <1>8, <1>9, MessageSteps DEF Read, Dequeued

-----------------------------------------------------------------------------
(* A request is answered when it is run, and then it is no more             *)
(* outstanding.                                                             *)
LEMMA NextAnswered ==
  ASSUME TypeOK, InOrder, BacklogIndexed, AnsweredOnce, [Next]_vars
  PROVE  AnsweredOnce'
<1> DEFINE W == Waiters
           B == batch
           C == Contents(on_request)
<1>1. /\ W \in Seq(Messages) /\ B \in Seq(Messages) /\ C \in Seq(Messages) /\ read \in Nat
      /\ Elements(W) \subseteq Messages /\ Elements(B) \subseteq Messages
      /\ Elements(C) \subseteq Messages
      /\ DOMAIN W = DOMAIN backlog /\ \A k \in DOMAIN backlog : W[k] = backlog[k].message
      /\ \A k \in DOMAIN backlog : backlog[k].message \in Messages
  BY QueueTypes
<1>2. /\ Ascending(W) /\ Ascending(B) /\ Ascending(C)
      /\ Before(Elements(W), Elements(B)) /\ Before(Elements(W), Elements(C))
      /\ Before(Elements(B), Elements(C))
      /\ \A m \in Elements(W) \cup Elements(B) \cup Elements(C) : Pos(m) <= read
  BY DEF InOrder
<1>3. /\ Elements(W) \cap Elements(B) = {} /\ Elements(W) \cap Elements(C) = {}
      /\ Elements(B) \cap Elements(C) = {}
  BY <1>1, <1>2, BeforeDiffers
<1>4. \A q : Outstanding(q) <=>
        Pos(q) > read \/ Waits(q) \/ q \in Elements(B) \/ q \in Elements(C)
  BY DEF Outstanding
<1>5. \A q : Outstanding(q)' <=>
        Pos(q) > read' \/ Waits(q)' \/ q \in Elements(B') \/ q \in Elements(C')
  BY DEF Outstanding, Elements, Pos
<1>6. ~threw /\ \A q \in Queries : replies[q] <= 1 /\ (Outstanding(q) => replies[q] = 0)
  BY DEF AnsweredOnce
<1>7. /\ \A q : Waits(q) => q \in Elements(W)
      /\ backlog' = backlog => \A q : Waits(q)' <=> Waits(q)
  BY <1>1 DEF Waits, Elements
<1>8. /\ \A m \in Messages : Pos(m) \in Nat /\ Queries \subseteq Messages
      /\ replies \in [Queries -> Nat]
  BY PosProperties DEF Queries, TypeOK
<1> HIDE DEF W, B, C
<1>9. ASSUME NEW ms \in Seq(Messages), Ascending(ms), replies' = Answer(ms), threw' = threw,
             \A q \in Elements(ms) : Outstanding(q) /\ ~Outstanding(q)',
             \A q \in Queries : q \notin Elements(ms) /\ Outstanding(q)' => Outstanding(q)
      PROVE  AnsweredOnce'
  <2>1. ASSUME NEW q \in Queries
        PROVE  replies'[q] <= 1 /\ (Outstanding(q)' => replies'[q] = 0)
    <3>1. CASE q \in Elements(ms)
      <4>1. replies[q] = 0 /\ ~Outstanding(q)'
        BY <1>6, <1>9, <3>1
      <4>2. Answer(ms)[q] \in {replies[q], replies[q] + 1}
        BY <1>9, AnswerType
      <4>3. QED
        BY <1>9, <4>1, <4>2
    <3>2. CASE q \notin Elements(ms)
      <4>1. Answer(ms)[q] = replies[q]
        BY <3>2, AnswerType
      <4>2. QED
        BY <1>6, <1>9, <3>2, <4>1
    <3>3. QED
      BY <3>1, <3>2
  <2>2. QED
    BY <1>6, <1>9, <2>1 DEF AnsweredOnce
<1>10. ASSUME UNCHANGED <<replies, threw>>,
              \A q \in Queries : Outstanding(q)' => Outstanding(q)
       PROVE  AnsweredOnce'
  BY <1>6, <1>10 DEF AnsweredOnce
<1>11. ASSUME NEW m \in Messages
       PROVE  /\ <<m>> \in Seq(Messages) /\ Ascending(<<m>>) /\ Elements(<<m>>) = {m}
  BY DEF Ascending, Elements
<1>11a. ASSUME NEW m \in Messages, replies' = Answer(<<m>>), threw' = threw,
              Outstanding(m), ~Outstanding(m)',
              \A q \in Queries : Outstanding(q)' => Outstanding(q)
       PROVE  AnsweredOnce'
  <2>1. \A q \in Elements(<<m>>) : q = m
    BY <1>11
  <2>2. \A q \in Elements(<<m>>) : Outstanding(q) /\ ~Outstanding(q)'
    BY <1>11a, <2>1
  <2>3. QED
    BY <1>9, <1>11, <1>11a, <2>2
<1>12. CASE Unmoved /\ UNCHANGED <<backlog, path2backlog, replies, threw>>
  <2>1. read' = read /\ B' = B /\ C' = C
    BY <1>12 DEF Unmoved, B, C
  <2>2. \A q \in Queries : Outstanding(q)' => Outstanding(q)
    BY <1>4, <1>5, <1>7, <1>12, <2>1
  <2>3. QED
    BY <1>10, <1>12, <2>2
<1>13. CASE \E k \in DOMAIN Script : Read(k)
  <2> PICK k \in DOMAIN Script : Read(k)
    BY <1>13
  <2>1. /\ k > read /\ read' = k /\ C' = Append(C, Script[k]) /\ B' = B
        /\ UNCHANGED <<backlog, replies, threw>>
    BY DEF Read, B, C
  <2>2. Script[k] \in Messages /\ Pos(Script[k]) = k /\ k \in Nat
    BY PosProperties
  <2>3. Elements(C') = Elements(C) \cup {Script[k]}
    BY <1>1, <2>1, <2>2, AppendInOrder
  <2>4. ASSUME NEW q \in Queries, Outstanding(q)'
        PROVE  Outstanding(q)
    <3>1. CASE Pos(q) > k
      BY <1>1, <1>4, <1>8, <2>1, <2>2, <3>1
    <3>2. CASE q = Script[k]
      BY <1>4, <2>1, <2>2, <3>2
    <3>3. CASE Waits(q)' \/ q \in Elements(B) \/ q \in Elements(C)
      BY <1>4, <1>7, <2>1, <3>3
    <3>4. QED
      BY <1>5, <2>1, <2>3, <2>4, <3>1, <3>2, <3>3
  <2>5. QED
    BY <1>10, <2>1, <2>4
<1>14. CASE Dequeued
  <2>1. read' = read /\ B' = C /\ C' = <<>> /\ UNCHANGED <<backlog, replies, threw>>
    BY <1>14 DEF Dequeued, B, C
  <2>2. Elements(<<>>) = {}
    BY DEF Elements
  <2>3. \A q \in Queries : Outstanding(q)' => Outstanding(q)
    BY <1>4, <1>5, <1>7, <2>1, <2>2
  <2>4. QED
    BY <1>10, <2>1, <2>3
<1>15. ASSUME Ran
       PROVE  /\ Head(B) \in Messages /\ Head(B) \in Elements(B) /\ Head(B) \notin Elements(B')
              /\ Elements(B) = {Head(B)} \cup Elements(B') /\ C' = C /\ read' = read
              /\ Elements(B') \subseteq Elements(B)
  <2>1. B # <<>> /\ B' = Tail(B) /\ C' = C /\ read' = read
    BY <1>15 DEF Ran, B, C
  <2>2. /\ Head(B) \in Messages /\ Head(B) \in Elements(B)
        /\ Elements(B) = {Head(B)} \cup Elements(Tail(B))
        /\ Elements(Tail(B)) \subseteq Elements(B)
        /\ Before({Head(B)}, Elements(Tail(B)))
    BY <1>1, <1>2, <2>1, TailInOrder
  <2>3. Head(B) \notin Elements(Tail(B))
    BY <1>1, <2>2, BeforeDiffers
  <2>4. QED
    BY <2>1, <2>2, <2>3
<1>16. CASE Ran /\ UNCHANGED <<backlog, path2backlog, replies, threw>>
  <2>1. \A q \in Queries : Outstanding(q)' => Outstanding(q)
    BY <1>4, <1>5, <1>7, <1>15, <1>16
  <2>2. QED
    BY <1>10, <1>16, <2>1
<1>17. CASE Ran /\ RunQuery
  <2> PICK m \in Messages : m = Head(B)
    BY <1>15, <1>17
  <2>1. /\ m \in Elements(B) /\ m \notin Elements(B')
        /\ Elements(B) = {m} \cup Elements(B') /\ C' = C /\ read' = read /\ threw' = threw
        /\ Elements(B') \subseteq Elements(B)
    BY <1>15, <1>17 DEF RunQuery
  <2>2. CASE /\ backlog' = Append(backlog, [message |-> m, waiting |-> TRUE])
             /\ replies' = replies
    <3>1. \A q : Waits(q)' => Waits(q) \/ q = m
      <4> DEFINE e == [message |-> m, waiting |-> TRUE]
      <4>1. backlog \in Seq(BacklogEntry) /\ e \in BacklogEntry /\ e.message = m
        BY <2>1 DEF TypeOK, BacklogEntry
      <4> HIDE DEF e
      <4>2. \A k \in DOMAIN Append(backlog, e) :
              \/ k \in DOMAIN backlog /\ Append(backlog, e)[k] = backlog[k]
              \/ Append(backlog, e)[k] = e
        BY <4>1, AppendProperties, LenProperties
      <4>3. backlog' = Append(backlog, e)
        BY <2>2 DEF e
      <4>4. QED
        BY <4>1, <4>2, <4>3 DEF Waits
    <3>2. \A q \in Queries : Outstanding(q)' => Outstanding(q)
      BY <1>4, <1>5, <2>1, <3>1
    <3>3. QED
      BY <1>10, <2>1, <2>2, <3>2
  <2>3. CASE replies' = Answer(<<m>>) /\ backlog' = backlog
    <3>1. Outstanding(m)
      BY <1>4, <2>1
    <3>2. ~Outstanding(m)'
      <4>1. Pos(m) <= read /\ Pos(m) \in Nat
        BY <1>2, <1>8, <2>1
      <4>2. m \notin Elements(W) /\ m \notin Elements(C)
        BY <1>3, <2>1
      <4>3. ~Waits(m)' /\ m \notin Elements(B') /\ m \notin Elements(C')
        BY <1>7, <2>1, <2>3, <4>2
      <4>4. ~(Pos(m) > read')
        BY <1>1, <2>1, <4>1
      <4>5. QED
        BY <1>5, <4>3, <4>4
    <3>3. \A q \in Queries : Outstanding(q)' => Outstanding(q)
      BY <1>4, <1>5, <1>7, <2>1, <2>3
    <3>4. QED
      BY <1>11a, <2>1, <2>3, <3>1, <3>2, <3>3
  <2>4. QED
    BY <1>17, <2>1, <2>2, <2>3 DEF RunQuery, B
<1>18. CASE /\ BacklogStep /\ W # <<>> /\ W' = Tail(W)
            /\ UNCHANGED <<read, B, C>>
  <2>1. backlog # <<>> /\ backlog' = Tail(backlog) /\ backlog \in Seq(BacklogEntry)
    BY <1>18 DEF BacklogStep, TypeOK
  <2>2. /\ 1 \in DOMAIN backlog
        /\ \A k \in DOMAIN backlog' : k + 1 \in DOMAIN backlog /\ backlog'[k] = backlog[k + 1]
    BY <2>1
  <2>3. \A q : Waits(q)' => Waits(q)
    BY <2>2 DEF Waits
  <2>4. \A q \in Queries : Outstanding(q)' => Outstanding(q)
    BY <1>4, <1>5, <1>18, <2>3
  <2>5. CASE ~backlog[1].waiting
    <3>1. UNCHANGED <<replies, threw>>
      BY <1>18, <2>5 DEF BacklogStep
    <3>2. QED
      BY <1>10, <2>4, <3>1
  <2>6. CASE backlog[1].waiting
    <3> PICK m : m = backlog[1].message
      OBVIOUS
    <3>1. replies' = Answer(<<m>>) /\ threw' = (threw \/ Thrown(<<m>>, indexed, TRUE) # {})
      BY <1>18, <2>6 DEF BacklogStep
    <3>2. threw' = threw
      <4>1. Thrown(<<m>>, indexed, TRUE) = {}
        BY DEF Thrown, ThrowsNotIndexed
      <4>2. QED
        BY <3>1, <4>1 DEF TypeOK
    <3>3. m \in Messages /\ m \in Elements(W) /\ Waits(m)
      BY <1>1, <2>2, <2>6 DEF Elements, Waits
    <3>4. ~Waits(m)'
      <4>1. Different(backlog)
        BY BacklogIs
      <4>2. \A k \in DOMAIN backlog' : backlog'[k].message # m
        <5>1. SUFFICES ASSUME NEW k \in DOMAIN backlog', backlog'[k].message = m
                       PROVE  FALSE
          OBVIOUS
        <5>2. k + 1 = 1
          BY <2>2, <4>1, <5>1 DEF Different
        <5>3. k \in Nat /\ k # 0
          BY <2>1
        <5>4. QED
          BY <5>2, <5>3
      <4>3. QED
        BY <4>2 DEF Waits
    <3>5. Outstanding(m) /\ ~Outstanding(m)'
      <4>1. Pos(m) <= read /\ Pos(m) \in Nat /\ m \notin Elements(B) /\ m \notin Elements(C)
        BY <1>2, <1>3, <1>8, <3>3
      <4>2. m \notin Elements(B') /\ m \notin Elements(C') /\ ~(Pos(m) > read')
        BY <1>1, <1>18, <4>1
      <4>3. QED
        BY <1>4, <1>5, <3>3, <3>4, <4>2
    <3>6. QED
      BY <1>11a, <2>4, <3>1, <3>2, <3>3, <3>5
  <2>7. QED
    BY <2>5, <2>6
<1>19. CASE Unmoved /\ ApplyUpdate
  <2> DEFINE f == Front(on_indexed)
             again == path2backlog[f]
  <2>1. /\ backlog' = Served(again) /\ replies' = Answer(again)
        /\ threw' = (threw \/ Thrown(again, indexed', FALSE) # {})
        /\ indexed' = indexed \cup {f} \cup Mentions[f]
        /\ read' = read /\ B' = B /\ C' = C
    BY <1>19 DEF ApplyUpdate, Unmoved, B, C
  <2>2. f \in Paths /\ again \in Seq(Messages)
    BY <1>19, PopFrontProperties DEF ApplyUpdate, MoreUpdates, TypeOK
  <2>3. Indexed(f, again, backlog)
    BY <2>2, BacklogIs
  <2>4. /\ DOMAIN Served(again) = DOMAIN backlog
        /\ \A k \in DOMAIN backlog :
             /\ Served(again)[k].message = backlog[k].message
             /\ Served(again)[k].waiting <=>
                  /\ backlog[k].waiting
                  /\ \A j \in DOMAIN again : again[j] # backlog[k].message
    BY ServedProperties
  <2> HIDE DEF f, again
  <2>5. \A j \in DOMAIN again : \E k \in DOMAIN backlog :
          /\ again[j] = backlog[k].message /\ backlog[k].waiting /\ again[j].path = f
    <3>1. SUFFICES ASSUME NEW j \in DOMAIN again
          PROVE  \E k \in DOMAIN backlog :
                   again[j] = backlog[k].message /\ backlog[k].waiting /\ again[j].path = f
      OBVIOUS
    <3>2. PICK k \in DOMAIN backlog : again[j] = backlog[k].message
      BY <2>3 DEF Indexed
    <3>3. backlog[k].waiting /\ backlog[k].message.path = f
      BY <2>3, <3>2 DEF Indexed
    <3>4. QED
      BY <3>2, <3>3
  <2>6. threw' = threw
    <3>1. Thrown(again, indexed', FALSE) = {}
      BY <2>1, <2>5 DEF Thrown, ThrowsNotIndexed
    <3>2. QED
      BY <2>1, <3>1 DEF TypeOK
  <2>7. Ascending(again)
    <3>1. SUFFICES ASSUME NEW i \in DOMAIN again, NEW j \in DOMAIN again, i < j
                   PROVE  Pos(again[i]) < Pos(again[j])
      BY DEF Ascending
    <3>2. PICK k \in DOMAIN backlog : again[i] = backlog[k].message
      BY <2>5
    <3>3. PICK l \in DOMAIN backlog : again[j] = backlog[l].message
      BY <2>5
    <3>4. k < l
      BY <2>3, <3>1, <3>2, <3>3 DEF Indexed
    <3>5. QED
      BY <1>1, <1>2, <3>2, <3>3, <3>4 DEF Ascending
  <2>8. \A q : Waits(q)' => Waits(q) /\ q \notin Elements(again)
    BY <2>1, <2>4 DEF Waits, Elements
  <2>9. \A q \in Queries : Outstanding(q)' => Outstanding(q)
    BY <1>4, <1>5, <2>1, <2>8
  <2>10. ASSUME NEW q \in Elements(again)
         PROVE  Outstanding(q) /\ ~Outstanding(q)'
    <3>1. Waits(q)
      BY <2>5 DEF Waits, Elements
    <3>2. q \in Elements(W) /\ q \in Messages
      BY <1>1, <1>7, <3>1
    <3>3. Pos(q) <= read /\ Pos(q) \in Nat /\ q \notin Elements(B) /\ q \notin Elements(C)
      BY <1>2, <1>3, <1>8, <3>2
    <3>4. QED
      BY <1>1, <1>4, <1>5, <2>1, <2>8, <3>1, <3>3
  <2>11. QED
    BY <1>9, <2>1, <2>2, <2>6, <2>7, <2>9, <2>10
<1>20. QED
  BY <1>12, <1>13, <1>14, <1>16, <1>17, <1>18, <1>19, MessageSteps DEF W, B, C

-----------------------------------------------------------------------------
(* The theorems.                                                            *)

(* Before anything was read every queue is empty and nothing was answered.  *)
LEMMA InitAnswers == Init => InOrder /\ BacklogIndexed /\ AnsweredOnce
<1> SUFFICES ASSUME Init PROVE InOrder /\ BacklogIndexed /\ AnsweredOnce
  OBVIOUS
<1>1. /\ read = 0 /\ on_request = EmptyQueue /\ batch = <<>> /\ backlog = <<>>
      /\ path2backlog = [p \in Paths |-> <<>>] /\ replies = [q \in Queries |-> 0]
      /\ threw = FALSE
  BY DEF Init
<1>2. Contents(on_request) = <<>>
  BY <1>1 DEF EmptyQueue, Contents
<1>3. Waiters = <<>>
  BY <1>1 DEF Waiters
<1>4. Elements(<<>>) = {} /\ Ascending(<<>>)
  BY DEF Elements, Ascending
<1>5. InOrder
  BY <1>1, <1>2, <1>3, <1>4 DEF InOrder, Before
<1>6. BacklogIndexed
  <2>1. DOMAIN backlog = {} /\ \A p \in Paths : DOMAIN path2backlog[p] = {}
    BY <1>1
  <2>2. QED
    BY <2>1 DEF BacklogIndexed
<1>7. AnsweredOnce
  BY <1>1 DEF AnsweredOnce
<1>8. QED
  BY <1>5, <1>6, <1>7

(* What mainLoop keeps between its steps: the three queues are in the order *)
(* of arrival, the backlog and its index agree, what is outstanding was not *)
(* answered, and every index request is accounted for.                      *)
Inv == TypeOK /\ InOrder /\ BacklogIndexed /\ AnsweredOnce /\ RequestsCounted

(* The parts of Inv hold together: each is preserved by every step from a   *)
(* state in which the others hold.                                          *)
LEMMA Inductive == Spec => []Inv
<1>1. Init => Inv
  BY InitType, InitAnswers, InitRequests DEF Inv
<1>2. Inv /\ [Next]_vars => Inv'
  BY NextType, NextInOrder, NextBacklog, NextAnswered, NextRequests DEF Inv
<1>3. QED
  BY <1>1, <1>2, PTL DEF Spec

(* Every variable of the main loop keeps its type.  The pop_front of a      *)
(* path's list is the reason why this needs BacklogIndexed: it is never     *)
(* done on an empty deque.                                                  *)
THEOREM TypeCorrect == Spec => []TypeOK
<1>1. Inv => TypeOK
  BY DEF Inv
<1>2. QED
  BY <1>1, Inductive, PTL

(* path2backlog points to exactly the waiting entries of the backlog, in    *)
(* their order, whatever arrives, is indexed or expires in which order.     *)
THEOREM PointersValid == Spec => []BacklogIndexed
<1>1. Inv => BacklogIndexed
  BY DEF Inv
<1>2. QED
  BY <1>1, Inductive, PTL

(* No request is answered twice, and NotIndexed never escapes mainLoop from *)
(* the two runs of a handler that no try block surrounds.                   *)
THEOREM NeverAnsweredTwice == Spec => []AtMostOneReply
<1>1. Inv => AtMostOneReply
  BY DEF Inv, AnsweredOnce, AtMostOneReply
<1>2. QED
  BY <1>1, Inductive, PTL

(* The percentage is never computed with a divisor of zero and lies between *)
(* 0 and 100, and progress is shown only while a request is outstanding.    *)
THEOREM ProgressIsSound == Spec => []ProgressShown
<1>1. Inv => ProgressShown
  <2>1. SUFFICES ASSUME Inv PROVE ProgressShown
    OBVIOUS
  <2>2. /\ completed \in Nat /\ counting \in Nat /\ enqueued \in Nat
        /\ last_idle \in Nat /\ last_completed \in Nat
    BY <2>1, MessageFacts DEF Inv, TypeOK
  <2>3. Len(Contents(index_request)) \in Nat
    <3>1. index_request.priority \in Seq(Paths) /\ index_request.queue \in Seq(Paths)
      BY <2>1 DEF Inv, TypeOK, QueueOf
    <3>2. Contents(index_request) \in Seq(Paths)
      BY <3>1, ConcatProperties DEF Contents
    <3>3. QED
      BY <3>2, LenProperties
  <2>4. /\ completed <= enqueued /\ last_idle <= completed
        /\ in_progress => last_completed < enqueued
    <3> DEFINE n == Len(Contents(index_request))
    <3>1. /\ completed + counting + n <= enqueued /\ n \in Nat
          /\ last_idle <= last_completed /\ last_completed <= completed
          /\ in_progress => last_completed < enqueued
      BY <2>1, <2>3 DEF Inv, RequestsCounted
    <3> HIDE DEF n
    <3>2. QED
      BY <2>2, <3>1
  <2>5. QED
    BY <2>2, <2>4 DEF ProgressShown, Reports
<1>2. QED
  BY <1>1, Inductive, PTL
=============================================================================
