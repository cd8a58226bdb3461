------------------------ MODULE IndexPipelineProofs ------------------------
(***************************************************************************)
(* Theorems about IndexPipeline, for any project, any number of indexers   *)
(* and any behaviour of the client: its variables keep their types, and    *)
(* VFS::stamp hands out each version of a file once unless a stamp is      *)
(* moved back.  While updates are applied in the order in which they were  *)
(* pushed, the cache that the next delta is taken against is what the      *)
(* database holds or is about to receive; with one indexer and a client    *)
(* that lets background work finish first they always are.                 *)
(***************************************************************************)
EXTENDS IndexPipeline, Counting

(* What the locals of an indexer are at each point: a parse meets each file *)
(* once, and what it claims it has a write time of.                         *)
Locals(w) ==
  /\ w.pc # "idle" => w.req.path \in Files
  /\ w.pc \in {"idle", "stamp", "cache", "load", "deps", "depload"} => w.claims = {}
  /\ w.pc \in {"write", "push", "count"} => w.file \in w.claims
  /\ w.pc = "depload" => w.file \in Files
  /\ w.pc \in {"load", "deps", "depload"} => w.prev # NoIndex
  /\ w.pc = "parse" => ~w.deleted /\ Distinct(w.todo) /\ Elements(w.todo) \cap w.claims = {}
  /\ ~w.deleted => \A f \in w.claims : w.seen[f] # 0

Parsing == \A i \in Indexers : Locals(worker[i])

-----------------------------------------------------------------------------
(* Sequences that are selected or sorted by counting.                       *)

(* Selected elements are elements, as many as positions were selected.      *)
LEMMA SelectedProperties ==
  ASSUME NEW T, NEW s \in Seq(T), NEW at \in SUBSET DOMAIN s
  PROVE  /\ Selected(s, at) \in Seq(T) /\ Len(Selected(s, at)) = Cardinality(at)
         /\ \A p \in DOMAIN Selected(s, at) : \E k \in at : Selected(s, at)[p] = s[k]
<1> DEFINE n == Cardinality(at)
           R == {jk \in at \X at : jk[1] <= jk[2]}
           pos(k) == Cardinality(UpTo(at, R, k))
<1>1. DOMAIN s = 1 .. Len(s) /\ Len(s) \in Nat
  BY LenProperties
<1>2. IsFiniteSet(at) /\ n \in Nat
  <2>1. IsFiniteSet(1 .. Len(s))
    BY <1>1, FS_Interval
  <2>2. QED
    BY <1>1, <2>1, FS_Subset, FS_CardinalityType
<1>3. at \subseteq Nat
  BY <1>1
<1>4. TotalOrder(at, R)
  <2>1. \A a, b \in at : <<a, b>> \in R <=> a <= b
    OBVIOUS
  <2> HIDE DEF R
  <2>2. QED
    BY <1>3, <2>1 DEF TotalOrder
<1>5. \A p \in 1 .. n : \E k \in at : pos(k) = p
  <2> HIDE DEF R
  <2>1. \A p \in 1 .. Cardinality(at) :
          \E k \in at : Cardinality(UpTo(at, R, k)) = p
    BY <1>2, <1>4, RankExists
  <2>2. QED
    BY <2>1
<1>6. \A k \in at : UpTo(at, R, k) = {j \in at : j <= k}
  BY DEF UpTo
<1>7. \A p \in 1 .. n : \E k \in at : Cardinality({j \in at : j <= k}) = p
  BY <1>5, <1>6
<1> DEFINE c(p) == CHOOSE k \in at : Cardinality({j \in at : j <= k}) = p
<1>8. \A p \in 1 .. n : c(p) \in at
  BY <1>7
<1>9. Selected(s, at) = [p \in 1 .. n |-> s[c(p)]]
  BY DEF Selected
<1> HIDE DEF c, n
<1>10. \A k \in at : s[k] \in T
  BY <1>1, ElementOfSeq
<1>11. Selected(s, at) \in [1 .. n -> T]
  BY <1>8, <1>9, <1>10
<1>12. Selected(s, at) \in Seq(T) /\ Len(Selected(s, at)) = n
  BY <1>2, <1>11, FunctionIsSeq
<1>13. \A p \in DOMAIN Selected(s, at) : \E k \in at : Selected(s, at)[p] = s[k]
  BY <1>8, <1>9
<1>14. QED
  BY <1>12, <1>13 DEF n

(* Sorting keeps the elements what they are.                                *)
LEMMA StableSortProperties ==
  ASSUME NEW T, NEW q \in Seq(T), NEW rank \in [DOMAIN q -> Int]
  PROVE  /\ StableSort(q, rank) \in Seq(T) /\ Len(StableSort(q, rank)) = Len(q)
         /\ \A p \in DOMAIN StableSort(q, rank) :
              \E k \in DOMAIN q : StableSort(q, rank)[p] = q[k]
<1> DEFINE S == DOMAIN q
           n == Len(q)
           before(j, k) == rank[j] > rank[k] \/ (rank[j] = rank[k] /\ j <= k)
           R == {jk \in S \X S : before(jk[1], jk[2])}
<1>1. S = 1 .. n /\ n \in Nat /\ S \subseteq Nat
  BY LenProperties
<1>2. IsFiniteSet(S) /\ Cardinality(S) = n
  <2>1. /\ IsFiniteSet(1 .. n)
        /\ Cardinality(1 .. n) = IF 1 > n THEN 0 ELSE n - 1 + 1
    BY <1>1, FS_Interval
  <2>2. QED
    BY <1>1, <2>1
<1>3. \A a, b \in S : <<a, b>> \in R <=> before(a, b)
  OBVIOUS
<1>4. \A a \in S : rank[a] \in Int
  OBVIOUS
<1>5. TotalOrder(S, R)
  <2>1. \A a, b \in S : <<a, b>> \in R <=> rank[a] > rank[b] \/ (rank[a] = rank[b] /\ a <= b)
    BY <1>3
  <2> HIDE DEF R, S
  <2>2. \A a \in S : <<a, a>> \in R
    BY <1>1, <1>4, <2>1
  <2>3. \A a, b \in S : a # b => (<<a, b>> \in R <=> ~(<<b, a>> \in R))
    BY <1>1, <1>4, <2>1, SMTT(30)
  <2>4. \A a, b, c \in S : <<a, b>> \in R /\ <<b, c>> \in R => <<a, c>> \in R
    BY <1>1, <1>4, <2>1
  <2>5. QED
    BY <2>2, <2>3, <2>4 DEF TotalOrder
<1>6. \A p \in 1 .. n : \E k \in S : Cardinality(UpTo(S, R, k)) = p
  <2> HIDE DEF R, S, n
  <2>1. \A p \in 1 .. Cardinality(S) :
          \E k \in S : Cardinality(UpTo(S, R, k)) = p
    BY <1>2, <1>5, RankExists
  <2>2. QED
    BY <1>2, <2>1
<1>7. \A k \in S : UpTo(S, R, k) = {j \in S : before(j, k)}
  BY DEF UpTo
<1>8. \A p \in S : \E k \in S : Cardinality({j \in S : before(j, k)}) = p
  BY <1>1, <1>6, <1>7
<1> DEFINE c(p) == CHOOSE k \in S : Cardinality({j \in S : before(j, k)}) = p
<1>9. \A p \in S : c(p) \in S
  BY <1>8
<1>10. StableSort(q, rank) = [p \in S |-> q[c(p)]]
  BY DEF StableSort
<1> HIDE DEF c
<1>11. \A k \in S : q[k] \in T
  BY <1>1, ElementOfSeq
<1> HIDE DEF S, n
<1>12. StableSort(q, rank) \in [1 .. n -> T]
  BY <1>1, <1>9, <1>10, <1>11
<1>13. StableSort(q, rank) \in Seq(T) /\ Len(StableSort(q, rank)) = n
  BY <1>1, <1>12, FunctionIsSeq
<1>14. \A p \in DOMAIN StableSort(q, rank) :
         \E k \in S : StableSort(q, rank)[p] = q[k]
  BY <1>9, <1>10
<1>15. QED
  BY <1>13, <1>14 DEF n, S

-----------------------------------------------------------------------------
(* Requests, updates and indexes.                                           *)

(* Facts about the constants that many steps use.                           *)
LEMMA Facts ==
  /\ NoPath \notin Files /\ NoPath \notin Indexers
  /\ Entries \in Seq(Files) /\ Len(Entries) \in Nat /\ DOMAIN Entries = 1 .. Len(Entries)
  /\ \A k \in DOMAIN Entries : Entries[k] \in Files
  /\ Sources \subseteq Files
  /\ MaxMtime \in Nat /\ Mtimes \subseteq Nat /\ 0 \in Mtimes /\ 1 \in Mtimes
  /\ EmptyIndex \in IndexData /\ NoDeps \in [Files -> Mtimes]
  /\ DeletedIndex \in IndexFiles
<1>1. /\ Entries \in Seq(Files) /\ Len(Entries) \in Nat /\ DOMAIN Entries = 1 .. Len(Entries)
      /\ \A k \in DOMAIN Entries : Entries[k] \in Files
  BY FilesAssumption, LenProperties, ElementOfSeq
<1>2. Sources \subseteq Files
  BY <1>1 DEF Sources
<1>3. MaxMtime \in Nat /\ Mtimes \subseteq Nat /\ 0 \in Mtimes /\ 1 \in Mtimes
  BY IndexAssumption DEF Mtimes
<1>4. EmptyIndex \in IndexData /\ NoDeps \in [Files -> Mtimes]
  BY <1>3 DEF EmptyIndex, IndexData, NoDeps
<1>5. DeletedIndex \in IndexFiles
  BY <1>3, <1>4 DEF DeletedIndex, IndexFiles
<1>6. QED
  BY <1>1, <1>2, <1>3, <1>4, <1>5, FilesAssumption

(* Requests are requests.                                                   *)
LEMMA RequestType ==
  ASSUME NEW f \in Files \cup {NoPath}, NEW mode \in Modes, NEW must \in BOOLEAN,
         NEW ts \in Nat
  PROVE  Request(f, mode, must, ts) \in Requests
  BY DEF Request, Requests

(* Several requests go to the two deques; without an interactive one,       *)
(* priority_ stays what it was.                                             *)
LEMMA PushRequestsType ==
  ASSUME NEW q \in QueueOf(Requests), NEW reqs \in Seq(Requests)
  PROVE  /\ PushRequests(q, reqs) \in QueueOf(Requests)
         /\ (\A k \in DOMAIN reqs : reqs[k].mode = "Background") =>
              PushRequests(q, reqs).priority = q.priority
         /\ \A k \in DOMAIN PushRequests(q, reqs).queue :
              \/ \E j \in DOMAIN q.queue : PushRequests(q, reqs).queue[k] = q.queue[j]
              \/ \E j \in DOMAIN reqs : /\ PushRequests(q, reqs).queue[k] = reqs[j]
                                        /\ reqs[j].mode = "Background"
<1> DEFINE inter == {k \in DOMAIN reqs : Interactive(reqs[k])}
           a == Selected(reqs, inter)
           b == Selected(reqs, DOMAIN reqs \ inter)
           r == PushRequests(q, reqs)
<1>1. /\ a \in Seq(Requests) /\ Len(a) = Cardinality(inter)
      /\ b \in Seq(Requests)
      /\ \A p \in DOMAIN b : \E k \in DOMAIN reqs \ inter : b[p] = reqs[k]
  <2>1. inter \in SUBSET DOMAIN reqs /\ DOMAIN reqs \ inter \in SUBSET DOMAIN reqs
    OBVIOUS
  <2> DEFINE other == DOMAIN reqs \ inter
  <2> HIDE DEF inter, other
  <2>2. a \in Seq(Requests) /\ Len(a) = Cardinality(inter)
    BY <2>1, SelectedProperties
  <2>3. /\ Selected(reqs, other) \in Seq(Requests)
        /\ \A p \in DOMAIN Selected(reqs, other) :
             \E k \in other : Selected(reqs, other)[p] = reqs[k]
    <3>1. other \in SUBSET DOMAIN reqs
      BY DEF other
    <3>2. QED
      BY <3>1, SelectedProperties
  <2>4. QED
    BY <2>2, <2>3 DEF other
<1>2. q.priority \in Seq(Requests) /\ q.queue \in Seq(Requests) /\ q.total \in Int
  BY DEF QueueOf
<1>3. Len(reqs) \in Nat
  BY LenProperties
<1>4. r = [priority |-> q.priority \o a, queue |-> q.queue \o b, total |-> q.total + Len(reqs)]
  BY DEF PushRequests
<1>5. \A k \in DOMAIN reqs \ inter : reqs[k].mode = "Background"
  BY DEF Interactive
<1>6. (\A k \in DOMAIN reqs : reqs[k].mode = "Background") => inter = {}
  BY DEF Interactive
<1> HIDE DEF inter, a, b
<1>7. q.priority \o a \in Seq(Requests) /\ q.queue \o b \in Seq(Requests)
  BY <1>1, <1>2
<1>8. r \in QueueOf(Requests)
  <2>1. q.total + Len(reqs) \in Int
    BY <1>2, <1>3
  <2>2. QED
    BY <1>4, <1>7, <2>1 DEF QueueOf
<1>9. ASSUME \A k \in DOMAIN reqs : reqs[k].mode = "Background"
      PROVE  r.priority = q.priority
  <2>1. Len(a) = 0
    BY <1>1, <1>6, <1>9, FS_EmptySet
  <2>2. a = <<>>
    BY <1>1, <2>1, EmptySeq
  <2>3. q.priority \o a = q.priority
    BY <1>2, <2>2, ConcatEmptySeq
  <2>4. QED
    BY <1>4, <2>3
<1>10. ASSUME NEW k \in DOMAIN r.queue
       PROVE  \/ \E j \in DOMAIN q.queue : r.queue[k] = q.queue[j]
              \/ \E j \in DOMAIN reqs : r.queue[k] = reqs[j] /\ reqs[j].mode = "Background"
  <2> DEFINE s == q.queue
             n == Len(s)
  <2>1. r.queue = s \o b
    BY <1>4
  <2>2. /\ DOMAIN (s \o b) = 1 .. n + Len(b) /\ n \in Nat /\ Len(b) \in Nat
        /\ \A l \in 1 .. n : (s \o b)[l] = s[l]
        /\ \A l \in n + 1 .. n + Len(b) : (s \o b)[l] = b[l - n]
        /\ DOMAIN s = 1 .. n /\ DOMAIN b = 1 .. Len(b)
    BY <1>1, <1>2, ConcatProperties, LenProperties
  <2> HIDE DEF s, n
  <2>3. CASE k \in 1 .. n
    BY <2>1, <2>2, <2>3 DEF s
  <2>4. CASE k \in n + 1 .. n + Len(b)
    <3>1. k - n \in DOMAIN b /\ r.queue[k] = b[k - n]
      BY <2>1, <2>2, <2>4
    <3>2. PICK l \in DOMAIN reqs \ inter : b[k - n] = reqs[l]
      BY <1>1, <3>1
    <3>3. QED
      BY <1>5, <3>1, <3>2
  <2>5. k \in 1 .. n + Len(b)
    BY <1>10, <2>1, <2>2
  <2>6. QED
    BY <2>2, <2>3, <2>4, <2>5
<1>11. QED
  BY <1>8, <1>9, <1>10

(* Project::index queues requests; with no file open, Background ones only. *)
LEMMA ProjectIndexedType ==
  ASSUME NEW q \in QueueOf(Requests), NEW opened, NEW from \in Nat
  PROVE  /\ ProjectIndexed(q, opened, from) \in QueueOf(Requests)
         /\ opened = {} =>
              /\ ProjectIndexed(q, opened, from).priority = q.priority
              /\ \A k \in DOMAIN ProjectIndexed(q, opened, from).queue :
                   \/ \E j \in DOMAIN q.queue :
                        ProjectIndexed(q, opened, from).queue[k] = q.queue[j]
                   \/ ProjectIndexed(q, opened, from).queue[k].mode = "Background"
<1> DEFINE n == Len(Entries)
           s == ProjectRequests(opened, from)
           d == DummyRequest(from + n)
           reqs == Append(s, d)
<1>1. n \in Nat /\ \A i \in 1 .. n : Entries[i] \in Files
  BY Facts
<1>2. s \in [1 .. n -> Requests] /\ d \in Requests /\ d.mode = "Background"
  <2>1. \A i \in 1 .. n :
          Request(Entries[i], IF Entries[i] \in opened THEN "Normal" ELSE "Background",
                  FALSE, from + i - 1) \in Requests
    <3>1. SUFFICES ASSUME NEW i \in 1 .. n
                   PROVE  Request(Entries[i],
                                  IF Entries[i] \in opened THEN "Normal" ELSE "Background",
                                  FALSE, from + i - 1) \in Requests
      OBVIOUS
    <3>2. /\ from + i - 1 \in Nat
          /\ (IF Entries[i] \in opened THEN "Normal" ELSE "Background") \in Modes
      BY <1>1 DEF Modes
    <3>3. QED
      BY <1>1, <3>2, RequestType
  <2>2. s \in [1 .. n -> Requests]
    BY <2>1 DEF ProjectRequests
  <2>3. d \in Requests
    <3>1. from + n \in Nat /\ NoPath \in Files \cup {NoPath} /\ "Background" \in Modes
      BY <1>1 DEF Modes
    <3> HIDE DEF n
    <3>2. QED
      BY <3>1, RequestType DEF DummyRequest
  <2>4. d.mode = "Background"
    BY DEF DummyRequest, Request
  <2>5. QED
    BY <2>2, <2>3, <2>4
<1>3. opened = {} => \A i \in 1 .. n : s[i].mode = "Background"
  BY DEF ProjectRequests, Request
<1>4. ProjectIndexed(q, opened, from) = PushRequests(q, reqs)
  BY DEF ProjectIndexed
<1> HIDE DEF s, d, n
<1>5. s \in Seq(Requests) /\ Len(s) = n
  BY <1>1, <1>2, FunctionIsSeq
<1>6. /\ reqs \in Seq(Requests) /\ DOMAIN reqs = 1 .. n + 1 /\ reqs[n + 1] = d
      /\ \A i \in 1 .. n : reqs[i] = s[i]
  BY <1>1, <1>2, <1>5, AppendProperties, LenProperties
<1>7. opened = {} => \A k \in DOMAIN reqs : reqs[k].mode = "Background"
  BY <1>1, <1>2, <1>3, <1>6
<1> HIDE DEF reqs
<1> DEFINE r == PushRequests(q, reqs)
<1>8. /\ r \in QueueOf(Requests)
      /\ (\A k \in DOMAIN reqs : reqs[k].mode = "Background") => r.priority = q.priority
      /\ \A k \in DOMAIN r.queue :
           \/ \E j \in DOMAIN q.queue : r.queue[k] = q.queue[j]
           \/ \E j \in DOMAIN reqs : r.queue[k] = reqs[j] /\ reqs[j].mode = "Background"
  BY <1>6, PushRequestsType
<1> HIDE DEF r
<1>9. /\ r \in QueueOf(Requests)
      /\ opened = {} => r.priority = q.priority
      /\ \A k \in DOMAIN r.queue :
           \/ \E j \in DOMAIN q.queue : r.queue[k] = q.queue[j]
           \/ r.queue[k].mode = "Background"
  BY <1>7, <1>8
<1>10. QED
  BY <1>4, <1>9, Zenon DEF r

(* didOpen's requests: the file itself, then those of the same stem.        *)
LEMMA OpenRequestsType ==
  ASSUME NEW f \in Files, tick \in Nat
  PROVE  OpenRequests(f) \in Seq(Requests)
<1> DEFINE at == {k \in DOMAIN Entries : Entries[k] \in Related[f] /\ Entries[k] # f}
           related == Selected(Entries, at)
           self == IF f \in Sources \/ completed = enqueued THEN <<f>> ELSE <<>>
           all == self \o related
           n == Len(all)
           req(k) == IF k <= Len(self) THEN Request(f, "Normal", FALSE, tick)
                     ELSE Request(all[k], "Background", TRUE, tick + k - 1)
<1>1. related \in Seq(Files)
  <2>1. at \in SUBSET DOMAIN Entries /\ Entries \in Seq(Files)
    BY Facts
  <2> HIDE DEF at
  <2>2. QED
    BY <2>1, SelectedProperties
<1>2. self \in Seq(Files)
  OBVIOUS
<1>3. OpenRequests(f) = [k \in 1 .. n |-> req(k)]
  BY DEF OpenRequests
<1> HIDE DEF related, self
<1>4. all \in Seq(Files) /\ n \in Nat /\ \A k \in 1 .. n : all[k] \in Files
  BY <1>1, <1>2, LenProperties, ElementOfSeq
<1>5. ASSUME NEW k \in 1 .. n PROVE req(k) \in Requests
  <2> HIDE DEF n, all
  <2>1. tick + k - 1 \in Nat /\ "Normal" \in Modes /\ "Background" \in Modes
    BY <1>4 DEF Modes
  <2>2. Request(f, "Normal", FALSE, tick) \in Requests
    BY <2>1, RequestType
  <2>3. Request(all[k], "Background", TRUE, tick + k - 1) \in Requests
    BY <1>4, <2>1, RequestType
  <2>4. QED
    BY <2>2, <2>3
<1> HIDE DEF n, req
<1>6. [k \in 1 .. n |-> req(k)] \in [1 .. n -> Requests]
  BY <1>5
<1>7. QED
  BY <1>3, <1>4, <1>6, FunctionIsSeq

(* indexerSort permutes queue_.                                             *)
LEMMA IndexerSortType ==
  ASSUME NEW q \in QueueOf(Requests), NEW opened \in SUBSET Files
  PROVE  IndexerSort(q, opened) \in QueueOf(Requests)
<1> DEFINE s == q.queue
           rank == [k \in DOMAIN s |-> IF s[k].path = NoPath THEN 0 ELSE Prio(opened, s[k].path)]
<1>1. s \in Seq(Requests) /\ q.priority \in Seq(Requests) /\ q.total \in Int
  BY DEF QueueOf
<1>2. \A k \in DOMAIN s : s[k].path \in Files \cup {NoPath}
  <2>1. \A k \in DOMAIN s : s[k] \in Requests
    BY <1>1, ElementOfSeq, LenProperties
  <2>2. QED
    BY <2>1 DEF Requests
<1>3. rank \in [DOMAIN s -> Int]
  <2>1. \A k \in DOMAIN s : (IF s[k].path = NoPath THEN 0 ELSE Prio(opened, s[k].path)) \in Int
    BY <1>2, PrioAssumption
  <2>2. QED
    BY <2>1
<1>4. IndexerSort(q, opened) = [q EXCEPT !.queue = StableSort(s, rank)]
  BY DEF IndexerSort
<1> HIDE DEF rank
<1>5. StableSort(s, rank) \in Seq(Requests)
  BY <1>1, <1>3, StableSortProperties
<1>6. QED
  BY <1>1, <1>4, <1>5 DEF QueueOf

(* What an index contributes, and the delta between two.                    *)
LEMMA UpdateProperties ==
  ASSUME NEW f \in Files, NEW prev \in IndexFiles \cup {NoIndex}, NEW curr \in IndexFiles
  PROVE  /\ Data(prev) \in IndexData
         /\ Update(f, prev, curr) \in Updates
         /\ Update(f, prev, curr).path = f /\ Update(f, prev, curr).curr = curr.data
         /\ Update(f, prev, curr).prev = Data(prev)
<1>1. Data(prev) \in IndexData
  BY Facts DEF Data, IndexFiles
<1>2. curr.data \in IndexData /\ curr.mtime \in Mtimes
  BY DEF IndexFiles
<1>3. QED
  BY <1>1, <1>2 DEF Update, Updates

(* The index a parse made of a file that it claimed.                        *)
LEMMA MadeIndexType ==
  ASSUME NEW w \in WorkerType, NEW f \in Files, w.deleted \/ w.seen[f] # 0
  PROVE  MadeIndex(w, f) \in IndexFiles
<1>1. CASE w.deleted
  BY <1>1, Facts DEF MadeIndex
<1>2. CASE ~w.deleted
  <2> DEFINE deps == [d \in Files |-> IF d \in {f, w.req.path} THEN 0 ELSE w.seen[d]]
             link == NoLinkage(w.req)
             data == IndexAt[f][w.seen[f]]
  <2>1. w.seen \in [Files -> Mtimes]
    BY DEF WorkerType
  <2>2. w.seen[f] \in Mtimes /\ w.seen[f] \in 1 .. MaxMtime
    BY <1>2, <2>1, Facts DEF Mtimes
  <2>3. deps \in [Files -> Mtimes]
    BY <2>1, Facts
  <2>4. data \in IndexData
    BY <2>2, IndexAssumption
  <2>5. link \in BOOLEAN
    BY ConfigAssumption DEF NoLinkage, Interactive
  <2>6. MadeIndex(w, f) = [mtime |-> w.seen[f], noLinkage |-> link, deps |-> deps, data |-> data]
    BY <1>2 DEF MadeIndex
  <2> HIDE DEF deps, link, data
  <2>7. QED
    BY <2>2, <2>3, <2>4, <2>5, <2>6 DEF IndexFiles
<1>3. QED
  BY <1>1, <1>2

(* rawCacheLoad returns an index or none.                                   *)
LEMMA RawCacheLoadType ==
  ASSUME CacheType, NEW f \in Files
  PROVE  RawCacheLoad(f) \in IndexFiles \cup {NoIndex}
  BY DEF RawCacheLoad, CacheType

(* applyIndexUpdate keeps the database a database.                          *)
LEMMA ApplyType ==
  ASSUME NEW d \in DBType, NEW u, u.path \in Files
  PROVE  ApplyIndexUpdate(d, u) \in DBType
<1>1. /\ d.files \in [Files -> FileDefs] /\ d.refcnt \in [Occs -> Int]
      /\ d.uses \in [Occs -> Nat] /\ d.rels \in [Rels -> Nat]
      /\ d.defs \in [Usrs -> SUBSET Files]
  BY DEF DBType
<1>2. \A f \in Files : FileDefAfter(d, u, f) \in FileDefs
  BY <1>1 DEF FileDefAfter, FileDefs
<1>3. \A o \in Occs : d.refcnt[o] - RefsTo(u.prev, o) + RefsTo(u.curr, o) \in Int
  BY <1>1 DEF RefsTo, One
<1>4. \A n \in Nat : \A p, q : RemoveAdd(n, p, q) \in Nat
  BY DEF RemoveAdd, One
<1>5. \A x \in Usrs : DefsAfter(d, u, x) \in SUBSET Files
  BY <1>1 DEF DefsAfter
<1>6. QED
  BY <1>1, <1>2, <1>3, <1>4, <1>5 DEF ApplyIndexUpdate, DBType

(* lastWriteTime is a time, 0 for a file that is not there.                 *)
LEMMA LastWriteTimeType ==
  ASSUME ClientType, NEW f \in Files
  PROVE  LastWriteTime(f) \in Mtimes
  BY Facts DEF LastWriteTime, ClientType

-----------------------------------------------------------------------------
(* The indexers.                                                            *)

(* One indexer changes its own locals.                                      *)
LEMMA WorkerChange ==
  ASSUME worker \in [Indexers -> WorkerType], Parsing,
         NEW i \in Indexers, NEW new \in WorkerType, Locals(new),
         worker' = [worker EXCEPT ![i] = new]
  PROVE  /\ worker' \in [Indexers -> WorkerType] /\ Parsing'
         /\ worker'[i] = new /\ \A j \in Indexers \ {i} : worker'[j] = worker[j]
<1>1. /\ worker' \in [Indexers -> WorkerType]
      /\ worker'[i] = new /\ \A j \in Indexers \ {i} : worker'[j] = worker[j]
  OBVIOUS
<1>2. \A j \in Indexers : Locals(worker'[j])
  <2>1. SUFFICES ASSUME NEW j \in Indexers PROVE Locals(worker'[j])
    OBVIOUS
  <2>2. CASE j = i
    BY <1>1, <2>2, Zenon
  <2>3. CASE j # i
    <3>1. worker'[j] = worker[j]
      BY <1>1, <2>3
    <3>2. Locals(worker[j])
      BY DEF Parsing
    <3>3. QED
      BY <3>1, <3>2, Zenon
  <2>4. QED
    BY <2>2, <2>3
<1>3. QED
  BY <1>1, <1>2, Zenon DEF Parsing

(* The state of a thread that waits for a request.                          *)
LEMMA IdleWorkerType == IdleWorker \in WorkerType /\ Locals(IdleWorker)
<1>1. Request(NoPath, "Background", FALSE, 0) \in Requests
  <2>1. NoPath \in Files \cup {NoPath} /\ "Background" \in Modes
    BY DEF Modes
  <2>2. QED
    BY <2>1, RequestType
<1>2. <<>> \in Seq(Files)
  OBVIOUS
<1>3. IdleWorker \in WorkerType
  <2> DEFINE r == Request(NoPath, "Background", FALSE, 0)
             e == <<>>
  <2>1. IdleWorker = [pc |-> "idle", req |-> r, time |-> 0, deleted |-> FALSE, reparse |-> 0,
                      prev |-> NoIndex, todo |-> e, deps |-> {}, seen |-> NoDeps,
                      claims |-> {}, file |-> NoPath, retained |-> FALSE]
    BY DEF IdleWorker
  <2>2. "idle" \in Pcs /\ 0 \in Mtimes /\ 0 \in 0 .. 2 /\ NoDeps \in [Files -> Mtimes]
    BY Facts DEF Pcs
  <2>3. r \in Requests /\ e \in Seq(Files)
    BY <1>1, <1>2
  <2> HIDE DEF r, e
  <2>4. QED
    BY <2>1, <2>2, <2>3 DEF WorkerType
<1>4. Locals(IdleWorker)
  BY DEF IdleWorker, Locals
<1>5. QED
  BY <1>3, <1>4

(* Going to the parse: its files are met in the order of the includes, each *)
(* once.                                                                    *)
LEMMA ToParseType ==
  ASSUME NEW w \in WorkerType, w.req.path \in Files, w.claims = {}
  PROVE  /\ ToParse(w) \in WorkerType /\ Locals(ToParse(w))
         /\ ToParse(w).deleted \/ ToParse(w).claims = {}
<1> DEFINE f == w.req.path
           s == Includes[f]
           t == <<f>> \o s
<1>1. CASE w.deleted
  <2> DEFINE n == [w EXCEPT !.pc = "store", !.claims = {f}]
  <2>1. ToParse(w) = n
    BY <1>1 DEF ToParse
  <2>2. n \in WorkerType
    BY DEF WorkerType, Pcs
  <2>3. n.pc = "store" /\ n.deleted = w.deleted /\ n.req = w.req
    BY DEF WorkerType
  <2> HIDE DEF n
  <2>4. Locals(n)
    BY <1>1, <2>3 DEF Locals
  <2>5. QED
    BY <1>1, <2>1, <2>2, <2>3, <2>4, Zenon
<1>2. CASE ~w.deleted
  <2> DEFINE n == [w EXCEPT !.pc = "parse", !.todo = t]
  <2>1. ToParse(w) = n
    BY <1>2 DEF ToParse
  <2>2. s \in Seq(Files) /\ Len(s) \in Nat /\ DOMAIN s = 1 .. Len(s)
    BY IncludesAssumption, LenProperties
  <2>3. \A j, k \in DOMAIN s : s[j] # f /\ (s[j] = s[k] => j = k)
    BY IncludesAssumption
  <2> HIDE DEF s
  <2>4. /\ t \in Seq(Files) /\ DOMAIN t = 1 .. Len(s) + 1 /\ t[1] = f
        /\ \A k \in 2 .. Len(s) + 1 : t[k] = s[k - 1]
    <3>1. <<f>> \in Seq(Files) /\ Len(<<f>>) = 1 /\ <<f>>[1] = f
      OBVIOUS
    <3>2. /\ t \in Seq(Files) /\ Len(t) = 1 + Len(s)
          /\ \A k \in 1 .. 1 + Len(s) : t[k] = IF k <= 1 THEN <<f>>[k] ELSE s[k - 1]
      BY <2>2, <3>1, ConcatProperties
    <3>3. DOMAIN t = 1 .. Len(s) + 1
      BY <2>2, <3>2, LenProperties
    <3> HIDE DEF t
    <3>4. QED
      BY <2>2, <3>1, <3>2, <3>3
  <2> HIDE DEF t
  <2>5. Distinct(t)
    <3>1. SUFFICES ASSUME NEW j \in DOMAIN t, NEW k \in DOMAIN t, t[j] = t[k], j < k
                   PROVE  FALSE
      <4>1. \A j, k \in DOMAIN t : j \in Nat /\ k \in Nat
        BY <2>4
      <4>2. QED
        BY <4>1 DEF Distinct
    <3>2. k \in 2 .. Len(s) + 1 /\ k - 1 \in DOMAIN s /\ t[k] = s[k - 1]
      BY <2>2, <2>4, <3>1
    <3>3. CASE j = 1
      BY <2>3, <2>4, <3>1, <3>2, <3>3
    <3>4. CASE j # 1
      <4>1. j \in 2 .. Len(s) + 1 /\ j - 1 \in DOMAIN s /\ t[j] = s[j - 1]
        BY <2>2, <2>4, <3>4
      <4>2. j - 1 = k - 1
        BY <2>3, <3>1, <3>2, <4>1
      <4>3. QED
        BY <2>4, <3>1, <4>2
    <3>5. QED
      BY <3>3, <3>4
  <2>6. n \in WorkerType
    BY <2>4 DEF WorkerType, Pcs
  <2>7. n.pc = "parse" /\ n.deleted = w.deleted /\ n.req = w.req /\ n.claims = {} /\ n.todo = t
    BY DEF WorkerType
  <2> HIDE DEF n
  <2>8. Locals(n)
    BY <1>2, <2>5, <2>7 DEF Locals
  <2>9. QED
    BY <2>1, <2>6, <2>7, <2>8, Zenon
<1>3. QED
  BY <1>1, <1>2

(* An indexer whose locals change from w to v makes no new claim.           *)
NoNewClaim(w, v) ==
  \/ v.deleted
  \/ \A f \in v.claims : /\ f \in w.claims /\ ~w.deleted
                         /\ v.seen[f] = w.seen[f] /\ NoLinkage(v.req) = NoLinkage(w.req)

(* How a step of an indexer changes its locals: each action gives it a      *)
(* record of the right type, with what is known at its new position; only   *)
(* SeenFile adds a claim.                                                   *)
NewLocals(i) ==
  \E new \in WorkerType : Locals(new) /\ worker' = [worker EXCEPT ![i] = new]

KeptLocals(i) ==
  \E new \in WorkerType : /\ Locals(new) /\ NoNewClaim(worker[i], new)
                          /\ worker' = [worker EXCEPT ![i] = new]

(* A thread that waits claims nothing.                                      *)
LEMMA IdleClaims == \A w : NoNewClaim(w, IdleWorker)
  BY DEF NoNewClaim, IdleWorker

(* A request is taken.                                                      *)
LEMMA PopLocals ==
  ASSUME TypeOK, NEW i \in Indexers, Pop(i)
  PROVE  KeptLocals(i)
<1> DEFINE req == Front(index_request)
           delete == req.mode = "Delete"
           time == IF delete THEN 0 ELSE LastWriteTime(req.path)
           new == [IdleWorker EXCEPT
                     !.pc = "stamp", !.req = req, !.time = time,
                     !.deleted = (time = 0),
                     !.reparse = IF delete THEN 2 ELSE 0]
<1>1. worker' = [worker EXCEPT ![i] = new] /\ req.path # NoPath /\ CanPop(index_request)
  BY DEF Pop
<1>2. req \in Requests
  <2>1. index_request \in QueueOf(Requests)
    BY DEF TypeOK, QueueType
  <2>2. QED
    BY <1>1, <2>1, PopFrontProperties
<1>3. req.path \in Files
  BY <1>1, <1>2 DEF Requests
<1>4. time \in Mtimes
  BY <1>3, LastWriteTimeType, Facts DEF TypeOK
<1>5. IdleWorker \in WorkerType /\ IdleWorker.claims = {} /\ IdleWorker.prev = NoIndex
  BY IdleWorkerType DEF IdleWorker
<1>6. (time = 0) \in BOOLEAN /\ (IF delete THEN 2 ELSE 0) \in 0 .. 2 /\ "stamp" \in Pcs
  BY DEF Pcs
<1> HIDE DEF req, delete, time
<1>7. new \in WorkerType
  BY <1>2, <1>4, <1>5, <1>6 DEF WorkerType
<1>8. new.pc = "stamp" /\ new.req = req /\ new.claims = {}
  BY <1>5 DEF WorkerType
<1> HIDE DEF new
<1>9. Locals(new)
  BY <1>3, <1>8 DEF Locals
<1>10. QED
  BY <1>1, <1>7, <1>8, <1>9 DEF KeptLocals, NoNewClaim

(* The stamp of the request is tried.                                       *)
LEMMA StampLocals ==
  ASSUME TypeOK, Parsing, NEW i \in Indexers, Stamp(i)
  PROVE  KeptLocals(i)
<1> DEFINE w == worker[i]
           f == w.req.path
           step == IF NoLinkage(w.req) THEN 2 ELSE 0
           stamped == ~w.deleted /\ CanStamp(f, w.time, step)
           reparse == IF stamped THEN 1 ELSE w.reparse
           a == [w EXCEPT !.reparse = reparse]
           b == [w EXCEPT !.pc = "cache", !.reparse = reparse]
<1>1. w \in WorkerType /\ w.pc = "stamp" /\ Locals(w)
  BY DEF TypeOK, Parsing, Stamp
<1>2. f \in Files /\ w.claims = {}
  BY <1>1 DEF Locals
<1>3. \/ worker' = [worker EXCEPT ![i] = IdleWorker]
      \/ worker' = [worker EXCEPT ![i] = ToParse(a)]
      \/ worker' = [worker EXCEPT ![i] = b]
  BY DEF Stamp, Finish
<1>4. reparse \in 0 .. 2 /\ "cache" \in Pcs
  BY <1>1 DEF WorkerType, Pcs
<1> HIDE DEF reparse
<1>5. a \in WorkerType /\ a.req = w.req /\ a.claims = {}
  BY <1>1, <1>2, <1>4 DEF WorkerType
<1>6. b \in WorkerType /\ b.pc = "cache" /\ b.req = w.req /\ b.claims = {}
  BY <1>1, <1>2, <1>4 DEF WorkerType
<1> HIDE DEF a, b, w
<1>7. /\ ToParse(a) \in WorkerType /\ Locals(ToParse(a))
      /\ ToParse(a).deleted \/ ToParse(a).claims = {}
  BY <1>2, <1>5, ToParseType
<1>8. Locals(b)
  BY <1>2, <1>6 DEF Locals
<1>9. NoNewClaim(worker[i], ToParse(a)) /\ NoNewClaim(worker[i], b)
  BY <1>6, <1>7 DEF NoNewClaim
<1>10. QED
  BY <1>3, <1>6, <1>7, <1>8, <1>9, IdleWorkerType, IdleClaims DEF KeptLocals

(* The cache is looked at: parse, load, or nothing to do.                   *)
LEMMA CacheCheckLocals ==
  ASSUME TypeOK, Parsing, NEW i \in Indexers, CacheCheck(i)
  PROVE  KeptLocals(i)
<1> DEFINE w == worker[i]
           f == w.req.path
           prev == RawCacheLoad(f)
           b == [w EXCEPT !.pc = "load", !.prev = prev]
<1>1. w \in WorkerType /\ w.pc = "cache" /\ Locals(w)
  BY DEF TypeOK, Parsing, CacheCheck
<1>2. f \in Files /\ w.claims = {}
  BY <1>1 DEF Locals
<1>3. \/ worker' = [worker EXCEPT ![i] = IdleWorker]
      \/ worker' = [worker EXCEPT ![i] = ToParse(w)]
      \/ /\ worker' = [worker EXCEPT ![i].pc = "load", ![i].prev = prev]
         /\ prev # NoIndex
  BY DEF CacheCheck, Finish, MustParse
<1>4. [worker EXCEPT ![i].pc = "load", ![i].prev = prev] = [worker EXCEPT ![i] = b]
  BY DEF TypeOK
<1>5. prev \in IndexFiles \cup {NoIndex} /\ "load" \in Pcs
  BY <1>2, RawCacheLoadType DEF TypeOK, Pcs
<1> HIDE DEF prev
<1>6. b \in WorkerType /\ b.pc = "load" /\ b.req = w.req /\ b.claims = {} /\ b.prev = prev
  BY <1>1, <1>2, <1>5 DEF WorkerType
<1> HIDE DEF b, w
<1>7. /\ ToParse(w) \in WorkerType /\ Locals(ToParse(w))
      /\ ToParse(w).deleted \/ ToParse(w).claims = {}
  BY <1>1, <1>2, ToParseType
<1>8. prev # NoIndex => Locals(b)
  BY <1>2, <1>6 DEF Locals
<1>9. NoNewClaim(worker[i], ToParse(w)) /\ NoNewClaim(worker[i], b)
  BY <1>6, <1>7 DEF NoNewClaim
<1>10. QED
  BY <1>3, <1>4, <1>6, <1>7, <1>8, <1>9, IdleWorkerType, IdleClaims DEF KeptLocals

(* The cached index and those of its dependencies are loaded.               *)
LEMMA LoadLocals ==
  ASSUME TypeOK, Parsing, NEW i \in Indexers,
         CacheLoad(i) \/ DepStamp(i) \/ DepLoad(i)
  PROVE  KeptLocals(i)
<1> DEFINE w == worker[i]
           f == w.req.path
<1>1. w \in WorkerType /\ Locals(w) /\ worker \in [Indexers -> WorkerType]
  BY DEF TypeOK, Parsing
<1>2. w.pc \in {"load", "deps", "depload"}
  BY Zenon DEF CacheLoad, DepStamp, DepLoad
<1>3. f \in Files /\ w.claims = {} /\ w.prev # NoIndex
  BY <1>1, <1>2 DEF Locals
<1>4. CASE CacheLoad(i)
  <2> DEFINE deps == {d \in Files : w.prev.deps[d] # 0}
             b == [w EXCEPT !.pc = "deps", !.deps = deps]
  <2>1. worker' = [worker EXCEPT ![i] = b]
    BY <1>1, <1>4 DEF CacheLoad
  <2>2. deps \in SUBSET Files /\ "deps" \in Pcs
    BY DEF Pcs
  <2> HIDE DEF deps
  <2>3. b \in WorkerType /\ b.pc = "deps" /\ b.req = w.req /\ b.claims = {} /\ b.prev = w.prev
    BY <1>1, <1>3, <2>2 DEF WorkerType
  <2> HIDE DEF b, w
  <2>4. Locals(b)
    BY <1>3, <2>3 DEF Locals
  <2>5. QED
    BY <2>1, <2>3, <2>4 DEF KeptLocals, NoNewClaim
<1>5. CASE DepStamp(i)
  <2>1. PICK d \in w.deps :
          worker' = [worker EXCEPT ![i].deps = @ \ {d},
                       ![i].pc = IF CanStamp(d, w.prev.deps[d], 1) THEN "depload" ELSE @,
                       ![i].file = d]
    BY <1>5 DEF DepStamp
  <2> DEFINE pc == IF CanStamp(d, w.prev.deps[d], 1) THEN "depload" ELSE "deps"
             b == [w EXCEPT !.deps = w.deps \ {d}, !.pc = pc, !.file = d]
  <2>2. w.pc = "deps" /\ w.deps \in SUBSET Files /\ d \in Files
    BY <1>1, <1>5, <2>1 DEF DepStamp, WorkerType
  <2>3. worker' = [worker EXCEPT ![i] = b]
    BY <1>1, <2>1, <2>2
  <2>4. pc \in Pcs /\ pc \in {"deps", "depload"}
    BY DEF Pcs
  <2> HIDE DEF pc
  <2>5. /\ b \in WorkerType /\ b.pc = pc /\ b.req = w.req /\ b.claims = {}
        /\ b.prev = w.prev /\ b.file = d
    BY <1>1, <1>3, <2>2, <2>4 DEF WorkerType
  <2> HIDE DEF b, w
  <2>6. Locals(b)
    BY <1>3, <2>2, <2>4, <2>5 DEF Locals
  <2>7. QED
    BY <2>3, <2>5, <2>6 DEF KeptLocals, NoNewClaim
<1>6. CASE DepLoad(i)
  <2> DEFINE b == [w EXCEPT !.pc = "deps", !.file = NoPath]
  <2>1. worker' = [worker EXCEPT ![i] = b]
    BY <1>1, <1>6 DEF DepLoad
  <2>2. b \in WorkerType /\ b.pc = "deps" /\ b.req = w.req /\ b.claims = {} /\ b.prev = w.prev
    BY <1>1, <1>3 DEF WorkerType, Pcs
  <2> HIDE DEF b, w
  <2>3. Locals(b)
    BY <1>3, <2>2 DEF Locals
  <2>4. QED
    BY <2>1, <2>2, <2>3 DEF KeptLocals, NoNewClaim
<1>7. QED
  BY <1>4, <1>5, <1>6

(* The parse meets a file that it has not met before.                       *)
LEMMA SeenFileLocals ==
  ASSUME TypeOK, Parsing, NEW i \in Indexers, SeenFile(i)
  PROVE  /\ NewLocals(i)
         /\ Head(worker[i].todo) \in Files \ worker[i].claims
<1> DEFINE w == worker[i]
           f == Head(w.todo)
           time == LastWriteTime(f)
           step == IF NoLinkage(w.req) THEN 3 ELSE 1
           claimed == time # 0 /\ CanStamp(f, time, step)
           claims == IF claimed THEN w.claims \cup {f} ELSE w.claims
           b == [w EXCEPT !.todo = Tail(w.todo), !.seen = [w.seen EXCEPT ![f] = time],
                          !.claims = claims]
<1>1. w \in WorkerType /\ Locals(w) /\ worker \in [Indexers -> WorkerType]
  BY DEF TypeOK, Parsing
<1>2. w.pc = "parse" /\ w.todo # <<>>
  BY DEF SeenFile
<1>3. /\ w.todo \in Seq(Files) /\ w.seen \in [Files -> Mtimes] /\ w.claims \in SUBSET Files
      /\ Distinct(w.todo) /\ Elements(w.todo) \cap w.claims = {} /\ ~w.deleted
      /\ w.req.path \in Files /\ \A g \in w.claims : w.seen[g] # 0
  BY <1>1, <1>2 DEF WorkerType, Locals
<1>4. /\ f \in Files /\ f \in Elements(w.todo) /\ Tail(w.todo) \in Seq(Files)
      /\ Distinct(Tail(w.todo)) /\ Elements(Tail(w.todo)) \subseteq Elements(w.todo) \ {f}
  BY <1>2, <1>3, TailDistinct
<1>5. f \in Files \ w.claims
  BY <1>3, <1>4
<1>6. time \in Mtimes
  BY <1>4, LastWriteTimeType DEF TypeOK
<1>7. worker' = [worker EXCEPT ![i] = b]
  <2>1. worker' = [worker EXCEPT ![i].todo = Tail(@), ![i].seen[f] = time,
                     ![i].claims = IF claimed THEN @ \cup {f} ELSE @]
    BY DEF SeenFile
  <2> HIDE DEF claimed, time, f
  <2>2. QED
    BY <1>1, <2>1
<1>8. /\ claims \in SUBSET Files /\ claims \subseteq w.claims \cup {f}
      /\ f \in claims => time # 0
  BY <1>3, <1>5
<1> HIDE DEF claims, time, f
<1>9. /\ b \in WorkerType /\ b.pc = "parse" /\ b.req = w.req /\ b.deleted = w.deleted
      /\ b.claims = claims /\ b.todo = Tail(w.todo) /\ b.seen = [w.seen EXCEPT ![f] = time]
  BY <1>1, <1>2, <1>3, <1>4, <1>6, <1>8 DEF WorkerType
<1> HIDE DEF b, w
<1>10. \A g \in claims : b.seen[g] # 0
  BY <1>3, <1>4, <1>8, <1>9
<1>11. Elements(Tail(w.todo)) \cap claims = {}
  BY <1>3, <1>4, <1>8
<1>12. Locals(b)
  BY <1>3, <1>4, <1>9, <1>10, <1>11 DEF Locals
<1>13. QED
  BY <1>5, <1>7, <1>9, <1>12 DEF NewLocals, w, f

(* The claimed files are stored, one after the other.                       *)
LEMMA StoreLocals ==
  ASSUME TypeOK, Parsing, NEW i \in Indexers,
         \/ ParseEnd(i) \/ StoreRead(i) \/ StoreWrite(i) \/ StorePush(i) \/ StoreCount(i)
  PROVE  KeptLocals(i)
<1> DEFINE w == worker[i]
<1>1. w \in WorkerType /\ Locals(w) /\ worker \in [Indexers -> WorkerType]
  BY DEF TypeOK, Parsing
<1>2. w.pc \in {"parse", "store", "write", "push", "count"}
  BY DEF ParseEnd, StoreRead, StoreWrite, StorePush, StoreCount
<1>3. w.req.path \in Files /\ w.claims \in SUBSET Files
  BY <1>1, <1>2 DEF Locals, WorkerType
<1>4. CASE ParseEnd(i)
  <2> DEFINE b == [w EXCEPT !.pc = "store"]
  <2>1. worker' = [worker EXCEPT ![i] = b]
    BY <1>1, <1>4 DEF ParseEnd
  <2>2. /\ b \in WorkerType /\ b.pc = "store" /\ b.req = w.req /\ b.claims = w.claims
        /\ b.seen = w.seen /\ b.deleted = w.deleted
    BY <1>1 DEF WorkerType, Pcs
  <2> HIDE DEF b, w
  <2>3. Locals(b)
    BY <1>1, <1>3, <2>2 DEF Locals
  <2>4. NoNewClaim(w, b)
    BY <2>2 DEF NoNewClaim
  <2>5. QED
    BY <2>1, <2>2, <2>3, <2>4 DEF KeptLocals, w
<1>5. CASE StoreRead(i)
  <2>1. PICK f \in w.claims :
          worker' = [worker EXCEPT ![i].pc = "write", ![i].file = f,
                ![i].prev = DeltaBase(f), ![i].retained = Retained(f)]
    BY <1>5 DEF StoreRead
  <2> DEFINE p == DeltaBase(f)
             r == Retained(f)
             b == [w EXCEPT !.pc = "write", !.file = f, !.prev = p, !.retained = r]
  <2>2. worker' = [worker EXCEPT ![i] = b]
    BY <1>1, <2>1
  <2>3. p \in IndexFiles \cup {NoIndex}
    BY <1>3, RawCacheLoadType DEF DeltaBase, TypeOK
  <2>4. r \in BOOLEAN
    BY DEF Retained
  <2> HIDE DEF p, r
  <2>5. /\ b \in WorkerType /\ b.pc = "write" /\ b.req = w.req /\ b.claims = w.claims
        /\ b.seen = w.seen /\ b.deleted = w.deleted /\ b.file = f
    BY <1>1, <1>3, <2>3, <2>4 DEF WorkerType, Pcs
  <2> HIDE DEF b, w
  <2>6. Locals(b)
    BY <1>1, <1>3, <2>1, <2>5 DEF Locals
  <2>7. NoNewClaim(w, b)
    BY <2>5 DEF NoNewClaim
  <2>8. QED
    BY <2>2, <2>5, <2>6, <2>7 DEF KeptLocals, w
<1>6. CASE StoreWrite(i) \/ StorePush(i)
  <2>1. PICK pc \in {"push", "count"} : worker' = [worker EXCEPT ![i].pc = pc]
    BY <1>6 DEF StoreWrite, StorePush
  <2> DEFINE b == [w EXCEPT !.pc = pc]
  <2>2. worker' = [worker EXCEPT ![i] = b]
    BY <1>1, <2>1
  <2>3. pc \in Pcs
    BY DEF Pcs
  <2>4. /\ b \in WorkerType /\ b.pc = pc /\ b.req = w.req /\ b.claims = w.claims
        /\ b.seen = w.seen /\ b.deleted = w.deleted /\ b.file = w.file
    BY <1>1, <2>3 DEF WorkerType
  <2>5. w.file \in w.claims
    BY <1>1, <1>6 DEF Locals, StoreWrite, StorePush
  <2> HIDE DEF b, w
  <2>6. Locals(b)
    BY <1>1, <1>3, <2>4, <2>5 DEF Locals
  <2>7. NoNewClaim(w, b)
    BY <2>4 DEF NoNewClaim
  <2>8. QED
    BY <2>2, <2>4, <2>6, <2>7 DEF KeptLocals, w
<1>7. CASE StoreCount(i)
  <2> DEFINE f == w.file
             b == [w EXCEPT !.pc = "store", !.file = NoPath, !.claims = w.claims \ {f},
                            !.prev = NoIndex]
  <2>1. worker' = [worker EXCEPT ![i] = b]
    BY <1>1, <1>7 DEF StoreCount
  <2>2. /\ b \in WorkerType /\ b.pc = "store" /\ b.req = w.req /\ b.claims = w.claims \ {f}
        /\ b.seen = w.seen /\ b.deleted = w.deleted
    BY <1>1, <1>3 DEF WorkerType, Pcs
  <2> HIDE DEF b, w
  <2>3. Locals(b)
    BY <1>1, <1>3, <2>2 DEF Locals
  <2>4. NoNewClaim(w, b)
    BY <2>2 DEF NoNewClaim
  <2>5. QED
    BY <2>1, <2>2, <2>3, <2>4 DEF KeptLocals, w
<1>8. QED
  BY <1>4, <1>5, <1>6, <1>7

(* Every step of an indexer but SeenFile.                                   *)
LEMMA IndexerLocals ==
  ASSUME TypeOK, Parsing, NEW i \in Indexers, Indexer(i)
  PROVE  SeenFile(i) \/ KeptLocals(i) \/ UNCHANGED worker
<1>1. ASSUME Finish(i)
      PROVE  KeptLocals(i)
  BY <1>1, IdleClaims, IdleWorkerType DEF Finish, KeptLocals
<1>2. CASE PopDummy(i)
  BY <1>2 DEF PopDummy
<1>3. CASE PopNoEntry(i) \/ DepsDone(i) \/ ParseGone(i) \/ ParseCrash(i) \/ StoreDone(i)
  BY <1>1, <1>3 DEF PopNoEntry, DepsDone, ParseGone, ParseCrash, StoreDone
<1>4. CASE Pop(i)
  BY <1>4, PopLocals
<1>5. CASE Stamp(i)
  BY <1>5, StampLocals
<1>6. CASE CacheCheck(i)
  BY <1>6, CacheCheckLocals
<1>7. CASE CacheLoad(i) \/ DepStamp(i) \/ DepLoad(i)
  BY <1>7, LoadLocals
<1>8. CASE ParseEnd(i) \/ StoreRead(i) \/ StoreWrite(i) \/ StorePush(i) \/ StoreCount(i)
  BY <1>8, StoreLocals
<1>9. QED
  BY <1>2, <1>3, <1>4, <1>5, <1>6, <1>7, <1>8 DEF Indexer

(* Every step keeps the indexers' locals in order.                          *)
LEMMA NextWorkers ==
  ASSUME TypeOK, Parsing, [Next]_vars
  PROVE  worker' \in [Indexers -> WorkerType] /\ Parsing'
<1>1. worker \in [Indexers -> WorkerType]
  BY DEF TypeOK
<1>2. ASSUME NEW i \in Indexers, NewLocals(i)
      PROVE  worker' \in [Indexers -> WorkerType] /\ Parsing'
  <2>1. PICK new \in WorkerType : Locals(new) /\ worker' = [worker EXCEPT ![i] = new]
    BY <1>2 DEF NewLocals
  <2>2. QED
    BY <1>1, <2>1, WorkerChange
<1>3. CASE UNCHANGED worker
  BY <1>1, <1>3 DEF Parsing
<1>4. \A i \in Indexers : KeptLocals(i) => NewLocals(i)
  BY DEF KeptLocals, NewLocals
<1>5. CASE \E i \in Indexers : Indexer(i)
  BY <1>2, <1>3, <1>4, <1>5, IndexerLocals, SeenFileLocals
<1>6. CASE CleanRestart \/ Crash
  <2>1. worker' = [i \in Indexers |-> IdleWorker]
    BY <1>6 DEF CleanRestart, Crash, Restart
  <2>2. worker' \in [Indexers -> WorkerType] /\ \A i \in Indexers : worker'[i] = IdleWorker
    BY <2>1, IdleWorkerType
  <2>3. \A i \in Indexers : Locals(worker'[i])
    BY <2>2, IdleWorkerType, Zenon
  <2>4. QED
    BY <2>2, <2>3, Zenon DEF Parsing
<1>7. CASE OnIndexed
  BY <1>3, <1>7 DEF OnIndexed
<1>8. CASE DidChangeConfiguration \/ Reload
  BY <1>3, <1>8 DEF DidChangeConfiguration, Reload, unchangedByClient
<1>9. CASE \E f \in Files : \/ Edit(f) \/ Remove(f) \/ DidSave(f)
                            \/ DidChangeWatchedFiles(f) \/ DidOpen(f) \/ DidClose(f)
  BY <1>3, <1>9 DEF Edit, Remove, DidSave, DidChangeWatchedFiles, DidOpen, DidClose,
                    unchangedByClient
<1>10. CASE UNCHANGED vars
  BY <1>3, <1>10 DEF vars
<1>11. QED
  BY <1>5, <1>6, <1>7, <1>8, <1>9, <1>10 DEF Next, Client

-----------------------------------------------------------------------------
(* The other variables keep their types.                                    *)

(* What the client sees and does.                                           *)
LEMMA NextClient ==
  ASSUME TypeOK, Parsing, [Next]_vars
  PROVE  ClientType'
<1> DEFINE rest == <<disk, open, index_content, unsaved, budget>>
<1>1. /\ disk \in [Files -> [exists: BOOLEAN, mtime: Mtimes]]
      /\ open \subseteq Files /\ unsaved \subseteq Files /\ rewound \subseteq Files
      /\ index_content \in [Files -> Mtimes] /\ budget \in [Operations -> Nat]
  BY DEF TypeOK, ClientType
<1>2. \A S : StillClaimed(S) \subseteq S
  BY DEF StillClaimed
<1>3. NoteRewound => rewound' \subseteq Files
  BY <1>1, <1>2 DEF NoteRewound
<1>4. rewound' = StillClaimed(rewound) => rewound' \subseteq Files
  BY <1>1, <1>2
<1>5. \A op : Spend(op) => budget' \in [Operations -> Nat]
  <2>1. SUFFICES ASSUME NEW op, Spend(op) PROVE budget' \in [Operations -> Nat]
    OBVIOUS
  <2>2. budget[op] > 0 /\ budget' = [budget EXCEPT ![op] = budget[op] - 1]
    BY <2>1 DEF Spend
  <2>3. CASE op \in Operations
    <3>1. budget[op] - 1 \in Nat
      BY <1>1, <2>2, <2>3
    <3>2. QED
      BY <1>1, <2>2, <3>1
  <2>4. CASE op \notin Operations
    <3>1. budget' = budget
      BY <1>1, <2>2, <2>4
    <3>2. QED
      BY <1>1, <3>1
  <2>5. QED
    BY <2>3, <2>4
<1>6. CASE \E i \in Indexers : Indexer(i)
  <2>1. PICK i \in Indexers : Indexer(i)
    BY <1>6
  <2>2. rewound' \subseteq Files
    <3>1. CASE \/ UNCHANGED rewound \/ rewound' = StillClaimed(rewound) \/ NoteRewound
      BY <1>1, <1>3, <1>4, <3>1, SMTT(30)
    <3>2. CASE PopDummy(i) \/ PopNoEntry(i) \/ Pop(i) \/ DepStamp(i) \/ DepsDone(i)
      BY <3>1, <3>2, ZenonT(30) DEF PopDummy, PopNoEntry, Pop, DepStamp, DepsDone, Finish
    <3>3. CASE Stamp(i) \/ CacheCheck(i) \/ CacheLoad(i) \/ DepLoad(i)
      BY <3>1, <3>3, ZenonT(30) DEF Stamp, CacheCheck, CacheLoad, DepLoad, Finish
    <3>4. CASE SeenFile(i) \/ ParseEnd(i) \/ ParseGone(i) \/ ParseCrash(i) \/ StoreRead(i)
      BY <3>1, <3>4 DEF SeenFile, ParseEnd, ParseGone, ParseCrash, StoreRead, Finish
    <3>5. CASE StoreWrite(i) \/ StorePush(i) \/ StoreCount(i) \/ StoreDone(i)
      BY <3>1, <3>5 DEF StoreWrite, StorePush, StoreCount, StoreDone, Finish
    <3>6. QED
      BY <2>1, <3>2, <3>3, <3>4, <3>5 DEF Indexer
  <2>3. CASE ParseCrash(i)
    BY <1>1, <1>5, <2>2, <2>3 DEF ParseCrash, ClientType
  <2>4. CASE ~ParseCrash(i)
    <3>1. UNCHANGED rest
      BY <2>1, <2>4, Zenon DEF Indexer, PopDummy, PopNoEntry, Pop, Stamp, CacheCheck, CacheLoad,
           DepStamp, DepLoad, DepsDone, SeenFile, ParseEnd, ParseGone, StoreRead,
           StoreWrite, StorePush, StoreCount, StoreDone, mainVars, clientVars
    <3>2. QED
      BY <1>1, <2>2, <3>1 DEF ClientType
  <2>5. QED
    BY <2>3, <2>4
<1>7. CASE OnIndexed
  <2> DEFINE u == Front(on_indexed)
  <2>1. u \in Updates
    <3>1. on_indexed \in QueueOf(Updates) /\ CanPop(on_indexed)
      BY <1>7 DEF TypeOK, QueueType, OnIndexed
    <3>2. QED
      BY <3>1, PopFrontProperties
  <2>2. u.content \in Mtimes
    BY <2>1 DEF Updates
  <2>3. IndexContentAfter(u) \in [Files -> Mtimes]
    BY <1>1, <2>2 DEF IndexContentAfter
  <2>4. UNCHANGED <<disk, open, unsaved, budget, rewound>>
    BY <1>7 DEF OnIndexed, clientVars
  <2>5. index_content' = index_content \/ index_content' = IndexContentAfter(u)
    BY <1>7 DEF OnIndexed
  <2>6. QED
    BY <1>1, <2>3, <2>4, <2>5 DEF ClientType
<1>8. ASSUME NEW f \in Files, Edit(f) \/ Remove(f)
      PROVE  ClientType'
  <2>1. UNCHANGED <<open, index_content, rewound>> /\ unsaved' = unsaved \cup {f}
    BY <1>8 DEF Edit, Remove, unchangedByClient
  <2>2. budget' \in [Operations -> Nat]
    BY <1>5, <1>8 DEF Edit, Remove
  <2>3. disk' \in [Files -> [exists: BOOLEAN, mtime: Mtimes]]
    <3>1. CASE Edit(f)
      <4>1. disk[f].mtime + 1 \in Mtimes
        BY <1>1, <3>1, Facts DEF Edit, Mtimes
      <4>2. QED
        BY <1>1, <3>1, <4>1 DEF Edit
    <3>2. CASE Remove(f)
      BY <1>1, <3>2 DEF Remove
    <3>3. QED
      BY <1>8, <3>1, <3>2
  <2>4. QED
    BY <1>1, <2>1, <2>2, <2>3 DEF ClientType
<1>9. ASSUME NEW f \in Files, DidSave(f) \/ DidChangeWatchedFiles(f)
      PROVE  ClientType'
  <2>1. UNCHANGED <<disk, open, index_content, rewound>> /\ unsaved' \subseteq unsaved
    BY <1>9 DEF DidSave, DidChangeWatchedFiles, unchangedByClient
  <2>2. budget' \in [Operations -> Nat]
    BY <1>1, <1>5, <1>9 DEF DidSave, DidChangeWatchedFiles
  <2>3. QED
    BY <1>1, <2>1, <2>2 DEF ClientType
<1>10. ASSUME NEW f \in Files, DidOpen(f) \/ DidClose(f)
       PROVE  ClientType'
  <2>1. UNCHANGED <<disk, rewound>> /\ unsaved' \subseteq unsaved
    BY <1>10 DEF DidOpen, DidClose
  <2>2. budget' \in [Operations -> Nat] /\ open' \subseteq Files
    BY <1>1, <1>5, <1>10 DEF DidOpen, DidClose
  <2>3. LoadIndexedContent(f) \in Mtimes
    <3>1. \A x \in IndexFiles : x.mtime \in Mtimes
      BY DEF IndexFiles
    <3>2. disk_cache[f] \in IndexFiles \cup {NoIndex} /\ g_index[f] \in IndexFiles \cup {NoIndex}
      BY DEF TypeOK, CacheType
    <3>3. QED
      BY <3>1, <3>2, Facts DEF LoadIndexedContent
  <2>4. index_content' \in [Files -> Mtimes]
    BY <1>1, <1>10, <2>3, Facts DEF DidOpen, DidClose
  <2>5. QED
    BY <1>1, <2>1, <2>2, <2>4 DEF ClientType
<1>11. CASE DidChangeConfiguration
  <2>1. UNCHANGED <<disk, open, index_content, rewound>> /\ unsaved' \subseteq unsaved
    BY <1>11 DEF DidChangeConfiguration, unchangedByClient
  <2>2. budget' \in [Operations -> Nat]
    BY <1>5, <1>11 DEF DidChangeConfiguration
  <2>3. QED
    BY <1>1, <2>1, <2>2 DEF ClientType
<1>12. CASE Reload
  <2>1. UNCHANGED <<disk, open, index_content>> /\ unsaved' \subseteq unsaved
    BY <1>12 DEF Reload
  <2>2. budget' \in [Operations -> Nat] /\ rewound' \subseteq Files
    BY <1>3, <1>5, <1>12 DEF Reload
  <2>3. QED
    BY <1>1, <2>1, <2>2 DEF ClientType
<1>13. CASE CleanRestart \/ Crash
  <2>1. /\ disk' = disk /\ open' = {} /\ index_content' = [f \in Files |-> 0]
        /\ rewound' = {} /\ unsaved' \subseteq unsaved
    BY <1>13 DEF CleanRestart, Crash, Restart
  <2>2. budget' \in [Operations -> Nat]
    BY <1>5, <1>13 DEF CleanRestart, Crash
  <2>3. QED
    BY <1>1, <2>1, <2>2, Facts DEF ClientType
<1>14. CASE UNCHANGED vars
  BY <1>1, <1>14 DEF vars, clientVars, ClientType
<1>15. QED
  BY <1>6, <1>7, <1>8, <1>9, <1>10, <1>11, <1>12, <1>13, <1>14 DEF Next, Client

(* The queues and their counters.                                           *)
LEMMA NextQueues ==
  ASSUME TypeOK, Parsing, [Next]_vars
  PROVE  QueueType'
<1>1. /\ index_request \in QueueOf(Requests) /\ on_indexed \in QueueOf(Updates)
      /\ enqueued \in Nat /\ completed \in Nat /\ tick \in Nat /\ loaded_ts \in Nat
  BY DEF TypeOK, QueueType
<1>2. \A i \in Indexers : worker[i] \in WorkerType /\ Locals(worker[i])
  BY DEF TypeOK, Parsing
<1>3. RefreshUpdate \in Updates
  BY Facts DEF RefreshUpdate, Updates
<1>4. \A r \in Requests : Interactive(r) \in BOOLEAN
  BY DEF Interactive
<1>5. ASSUME NEW i \in Indexers, Indexer(i)
      PROVE  QueueType'
  <2> DEFINE w == worker[i]
  <2>1. w \in WorkerType /\ Locals(w) /\ w.req \in Requests /\ Interactive(w.req) \in BOOLEAN
    BY <1>2, <1>4 DEF WorkerType
  <2>2. CASE PopDummy(i) \/ PopNoEntry(i) \/ Pop(i)
    <3>1. CanPop(index_request) /\ index_request' = PopFront(index_request)
      BY <2>2 DEF PopDummy, PopNoEntry, Pop
    <3>2. index_request' \in QueueOf(Requests)
      BY <1>1, <3>1, PopFrontProperties
    <3>3. on_indexed' = on_indexed \/ on_indexed' = PushBack(on_indexed, RefreshUpdate, FALSE)
      BY <2>2 DEF PopDummy, PopNoEntry, Pop
    <3>4. on_indexed' \in QueueOf(Updates)
      BY <1>1, <1>3, <3>3, PushBackProperties
    <3>5. /\ UNCHANGED <<enqueued, tick, loaded_ts>>
          /\ completed' = completed \/ completed' = completed + 1
      BY <2>2 DEF PopDummy, PopNoEntry, Pop, Finish, mainVars
    <3>6. QED
      BY <1>1, <3>2, <3>4, <3>5 DEF QueueType
  <2>3. CASE /\ UNCHANGED <<index_request, on_indexed, enqueued, tick, loaded_ts>>
             /\ completed' = completed \/ completed' = completed + 1
    BY <1>1, <2>3 DEF QueueType
  <2>4. CASE \E u \in Updates : on_indexed' = PushBack(on_indexed, u, Interactive(w.req))
    <3>1. PICK u \in Updates : on_indexed' = PushBack(on_indexed, u, Interactive(w.req))
      BY <2>4
    <3>2. on_indexed' \in QueueOf(Updates)
      BY <1>1, <2>1, <3>1, PushBackProperties
    <3>3. CASE CacheLoad(i) \/ DepLoad(i) \/ StorePush(i)
      <4>1. UNCHANGED <<index_request, enqueued, tick, loaded_ts, completed>>
        BY <3>3 DEF CacheLoad, DepLoad, StorePush, mainVars
      <4>2. QED
        BY <1>1, <3>2, <4>1, SMTT(30) DEF QueueType
    <3>4. CASE PopDummy(i) \/ PopNoEntry(i) \/ Pop(i)
      BY <2>2, <3>4
    <3>5. CASE ~(CacheLoad(i) \/ DepLoad(i) \/ StorePush(i) \/ PopDummy(i) \/ PopNoEntry(i)
                 \/ Pop(i))
      <4>1. /\ UNCHANGED <<index_request, on_indexed, enqueued, tick, loaded_ts>>
            /\ completed' = completed \/ completed' = completed + 1
        BY <1>5, <3>5, Zenon DEF Indexer, Stamp, CacheCheck,
           DepStamp, DepsDone, SeenFile, ParseEnd, ParseGone, ParseCrash, StoreRead,
           StoreWrite, StoreCount, StoreDone, mainVars, Finish
      <4>2. QED
        BY <2>3, <4>1
    <3>6. QED
      BY <3>3, <3>4, <3>5
  <2>5. CASE CacheLoad(i)
    <3>1. w.pc = "load" /\ w.req.path \in Files /\ w.prev \in IndexFiles
      BY <2>1, <2>5 DEF CacheLoad, Locals, WorkerType
    <3>2. Update(w.req.path, NoIndex, w.prev) \in Updates
      BY <3>1, UpdateProperties
    <3>3. QED
      BY <2>4, <2>5, <3>2 DEF CacheLoad
  <2>6. CASE DepLoad(i)
    <3> DEFINE prev == RawCacheLoad(w.file)
    <3>1. w.file \in Files
      BY <2>1, <2>6 DEF DepLoad, Locals
    <3>2. prev \in IndexFiles \cup {NoIndex}
      BY <3>1, RawCacheLoadType DEF TypeOK
    <3>3. \/ on_indexed' = on_indexed
          \/ prev # NoIndex
             /\ on_indexed' = PushBack(on_indexed, Update(w.file, NoIndex, prev), Interactive(w.req))
      BY <2>6 DEF DepLoad
    <3> HIDE DEF prev
    <3>4. prev # NoIndex => Update(w.file, NoIndex, prev) \in Updates
      BY <3>1, <3>2, UpdateProperties
    <3>5. UNCHANGED <<index_request, enqueued, tick, loaded_ts, completed>>
      BY <2>6 DEF DepLoad, mainVars
    <3>6. QED
      BY <2>3, <2>4, <3>3, <3>4, <3>5
  <2>7. CASE StorePush(i)
    <3>1. w.file \in w.claims /\ w.claims \in SUBSET Files /\ (w.deleted \/ w.seen[w.file] # 0)
      BY <2>1, <2>7 DEF StorePush, Locals, WorkerType
    <3>2. MadeIndex(w, w.file) \in IndexFiles
      BY <2>1, <3>1, MadeIndexType
    <3>3. w.prev \in IndexFiles \cup {NoIndex}
      BY <2>1 DEF WorkerType
    <3>4. Update(w.file, w.prev, MadeIndex(w, w.file)) \in Updates
      BY <3>1, <3>2, <3>3, UpdateProperties
    <3>5. QED
      BY <2>4, <2>7, <3>4 DEF StorePush
  <2>8. CASE ~(CacheLoad(i) \/ DepLoad(i) \/ StorePush(i) \/ PopDummy(i) \/ PopNoEntry(i)
               \/ Pop(i))
    <3>1. /\ UNCHANGED <<index_request, on_indexed, enqueued, tick, loaded_ts>>
          /\ completed' = completed \/ completed' = completed + 1
      BY <1>5, <2>8, Zenon DEF Indexer, Stamp, CacheCheck,
         DepStamp, DepsDone, SeenFile, ParseEnd, ParseGone, ParseCrash, StoreRead,
         StoreWrite, StoreCount, StoreDone, mainVars, Finish
    <3>2. QED
      BY <2>3, <3>1
  <2>9. QED
    BY <2>2, <2>5, <2>6, <2>7, <2>8
<1>6. CASE OnIndexed
  <2>1. CanPop(on_indexed) /\ on_indexed' = PopFront(on_indexed)
    BY <1>6 DEF OnIndexed
  <2>2. on_indexed' \in QueueOf(Updates)
    BY <1>1, <2>1, PopFrontProperties
  <2>3. UNCHANGED <<index_request, enqueued, tick, loaded_ts, completed>>
    BY <1>6 DEF OnIndexed, queueVars
  <2>4. QED
    BY <1>1, <2>2, <2>3 DEF QueueType
<1>7. ASSUME NEW f \in Files, Edit(f) \/ Remove(f) \/ DidClose(f)
      PROVE  QueueType'
  <2>1. UNCHANGED <<index_request, on_indexed, enqueued, tick, loaded_ts, completed>>
    BY <1>7 DEF Edit, Remove, DidClose, queueVars, unchangedByClient
  <2>2. QED
    BY <1>1, <2>1 DEF QueueType
<1>8. ASSUME NEW f \in Files, DidSave(f) \/ DidChangeWatchedFiles(f)
      PROVE  QueueType'
  <2>1. PICK mode \in Modes, must \in BOOLEAN : Index(f, mode, must)
    <3>1. "Normal" \in Modes /\ WatchedMode(f) \in Modes /\ (WatchedMode(f) # "Delete") \in BOOLEAN
      BY DEF Modes, WatchedMode
    <3>2. QED
      BY <1>8, <3>1 DEF DidSave, DidChangeWatchedFiles
  <2>2. UNCHANGED <<on_indexed, completed>>
    BY <1>8 DEF DidSave, DidChangeWatchedFiles, unchangedByClient
  <2>3. Request(f, mode, must, tick) \in Requests /\ (mode # "Background") \in BOOLEAN
    BY <1>1, RequestType
  <2>4. index_request' \in QueueOf(Requests)
    BY <1>1, <2>1, <2>3, PushBackProperties DEF Index, Enqueue
  <2>5. enqueued' = enqueued + 1 /\ tick' = tick + 1 /\ loaded_ts' = loaded_ts
    BY <2>1 DEF Index
  <2>6. QED
    BY <1>1, <2>2, <2>4, <2>5 DEF QueueType
<1>9. ASSUME NEW f \in Files, DidOpen(f)
      PROVE  QueueType'
  <2> DEFINE reqs == OpenRequests(f)
  <2>1. reqs \in Seq(Requests) /\ Len(reqs) \in Nat
    BY <1>1, OpenRequestsType, LenProperties
  <2>2. /\ index_request' = IndexerSort(PushRequests(index_request, reqs), open \cup {f})
        /\ enqueued' = enqueued + Len(reqs) /\ tick' = tick + Len(reqs)
        /\ UNCHANGED <<on_indexed, completed, loaded_ts>>
    BY <1>9 DEF DidOpen
  <2>3. open \cup {f} \in SUBSET Files
    BY DEF TypeOK, ClientType
  <2> HIDE DEF reqs
  <2>4. PushRequests(index_request, reqs) \in QueueOf(Requests)
    BY <1>1, <2>1, PushRequestsType
  <2>5. index_request' \in QueueOf(Requests)
    BY <2>2, <2>3, <2>4, IndexerSortType
  <2>6. QED
    BY <1>1, <2>1, <2>2, <2>5 DEF QueueType
<1>10. CASE DidChangeConfiguration \/ Reload
  <2>1. /\ ProjectIndex(open) /\ UNCHANGED <<on_indexed, completed>>
    BY <1>10 DEF DidChangeConfiguration, Reload, unchangedByClient
  <2>2. index_request' \in QueueOf(Requests)
    BY <1>1, <2>1, ProjectIndexedType DEF ProjectIndex
  <2>3. QED
    BY <1>1, <2>1, <2>2, Facts DEF QueueType, ProjectIndex
<1>11. CASE CleanRestart \/ Crash
  <2>1. /\ index_request' = ProjectIndexed(EmptyQueue, {}, 0) /\ on_indexed' = EmptyQueue
        /\ enqueued' = Len(Entries) /\ completed' = 0
        /\ tick' = Len(Entries) + 1 /\ loaded_ts' = Len(Entries)
    BY <1>11 DEF CleanRestart, Crash, Restart
  <2>2. EmptyQueue \in QueueOf(Requests) /\ EmptyQueue \in QueueOf(Updates)
    BY EmptyQueueProperties
  <2>3. index_request' \in QueueOf(Requests)
    BY <2>1, <2>2, ProjectIndexedType
  <2>4. QED
    BY <2>1, <2>2, <2>3, Facts DEF QueueType
<1>12. CASE UNCHANGED vars
  BY <1>1, <1>12 DEF vars, QueueType
<1>13. QED
  BY <1>5, <1>6, <1>7, <1>8, <1>9, <1>10, <1>11, <1>12 DEF Next, Client

(* The stamps, the caches and the file mutexes.                             *)
LEMMA NextCaches ==
  ASSUME TypeOK, Parsing, [Next]_vars
  PROVE  CacheType'
<1>1. /\ vfs \in [Files -> FileState] /\ g_index \in [Files -> IndexFiles \cup {NoIndex}]
      /\ disk_cache \in [Files -> IndexFiles \cup {NoIndex}]
      /\ file_mutex \in [Files -> Indexers \cup {NoPath}]
  BY DEF TypeOK, CacheType
<1>2. \A i \in Indexers : worker[i] \in WorkerType /\ Locals(worker[i])
  BY DEF TypeOK, Parsing
<1>3. \A f \in Files, ts \in Mtimes, step \in 0 .. 3 : Stamped(f, ts, step) \in [Files -> FileState]
  BY <1>1, ZenonT(30) DEF Stamped, FileState
<1>4. [f \in Files |-> FreshState] \in [Files -> FileState]
  BY Facts DEF FreshState, FileState
<1>5. ASSUME NEW i \in Indexers, Indexer(i)
      PROVE  CacheType'
  <2> DEFINE w == worker[i]
  <2>1. w \in WorkerType /\ Locals(w)
    BY <1>2
  <2>2. CASE UNCHANGED indexerVars
    BY <1>1, <2>2 DEF CacheType, indexerVars
  <2>3. CASE \/ PopDummy(i) \/ PopNoEntry(i) \/ Pop(i) \/ DepsDone(i) \/ ParseEnd(i)
             \/ ParseGone(i) \/ ParseCrash(i) \/ StorePush(i) \/ StoreDone(i)
    BY <2>2, <2>3, Zenon DEF PopDummy, PopNoEntry, Pop, DepsDone, ParseEnd, ParseGone, ParseCrash,
                      StorePush, StoreDone
  <2>4. CASE Stamp(i) \/ DepStamp(i) \/ SeenFile(i)
    <3>1. UNCHANGED <<g_index, disk_cache, file_mutex>>
      BY <2>4, Zenon DEF Stamp, DepStamp, SeenFile
    <3>2. vfs' \in [Files -> FileState]
      <4>1. CASE Stamp(i)
        <5>1. w.req.path \in Files /\ w.time \in Mtimes
          BY <2>1, <4>1 DEF Stamp, Locals, WorkerType
        <5>2. vfs' = vfs \/ \E step \in 0 .. 3 : vfs' = Stamped(w.req.path, w.time, step)
          BY <4>1 DEF Stamp
        <5>3. QED
          BY <1>1, <1>3, <5>1, <5>2
      <4>2. CASE DepStamp(i)
        <5>1. PICK d \in w.deps : vfs' = Stamped(d, w.prev.deps[d], 1)
          BY <4>2 DEF DepStamp
        <5>2. d \in Files /\ w.prev \in IndexFiles
          BY <2>1, <4>2, <5>1 DEF DepStamp, Locals, WorkerType
        <5>3. w.prev.deps[d] \in Mtimes
          BY <5>2 DEF IndexFiles
        <5>4. QED
          BY <1>3, <5>1, <5>2, <5>3
      <4>3. CASE SeenFile(i)
        <5> DEFINE f == Head(w.todo)
        <5>1. f \in Files /\ LastWriteTime(f) \in Mtimes
          BY <4>3, SeenFileLocals, LastWriteTimeType DEF TypeOK
        <5>2. vfs' = vfs \/ \E step \in 0 .. 3 : vfs' = Stamped(f, LastWriteTime(f), step)
          BY <4>3 DEF SeenFile
        <5>3. QED
          BY <1>1, <1>3, <5>1, <5>2
      <4>4. QED
        BY <2>4, <4>1, <4>2, <4>3
    <3>3. QED
      BY <1>1, <3>1, <3>2 DEF CacheType
  <2>5. CASE CacheCheck(i)
    <3>1. UNCHANGED <<vfs, g_index, disk_cache>>
      BY <2>5 DEF CacheCheck
    <3>2. file_mutex' = file_mutex \/ file_mutex' = [file_mutex EXCEPT ![w.req.path] = i]
      BY <2>5 DEF CacheCheck
    <3>3. QED
      BY <1>1, <3>1, <3>2 DEF CacheType
  <2>6. CASE CacheLoad(i)
    <3> DEFINE f == w.req.path
               step == IF w.prev.noLinkage THEN 2 ELSE vfs[f].step
    <3>1. UNCHANGED <<g_index, disk_cache>> /\ file_mutex' = [file_mutex EXCEPT ![f] = NoPath]
      BY <2>6 DEF CacheLoad, Release
    <3>2. f \in Files
      BY <2>1, <2>6 DEF CacheLoad, Locals
    <3>3. vfs' = [vfs EXCEPT ![f].loaded = vfs[f].loaded + 1, ![f].step = step]
      BY <1>1, <2>6, <3>2 DEF CacheLoad
    <3>4. vfs[f] \in FileState /\ step \in 0 .. 3 /\ vfs[f].loaded + 1 \in Nat
      BY <1>1, <3>2, SMTT(30) DEF FileState
    <3> HIDE DEF step
    <3>5. vfs' \in [Files -> FileState]
      BY <1>1, <3>2, <3>3, <3>4 DEF FileState
    <3>6. QED
      BY <1>1, <3>1, <3>5 DEF CacheType
  <2>7. CASE DepLoad(i)
    <3> DEFINE d == w.file
               prev == RawCacheLoad(d)
               step == IF prev.noLinkage THEN 3 ELSE vfs[d].step
    <3>1. UNCHANGED <<g_index, disk_cache, file_mutex>>
      BY <2>7 DEF DepLoad
    <3>2. d \in Files
      BY <2>1, <2>7, SMTT(30) DEF DepLoad, Locals
    <3>3. \/ vfs' = vfs
          \/ /\ prev # NoIndex
             /\ vfs' = [vfs EXCEPT ![d].loaded = vfs[d].loaded + 1, ![d].timestamp = prev.mtime,
                                   ![d].step = step]
      BY <1>1, <2>7, <3>2 DEF DepLoad
    <3>4. prev \in IndexFiles \cup {NoIndex}
      BY <3>2, RawCacheLoadType DEF TypeOK
    <3>5. vfs[d] \in FileState /\ step \in 0 .. 3 /\ vfs[d].loaded + 1 \in Nat
      BY <1>1, <3>2 DEF FileState
    <3> HIDE DEF step, prev
    <3>6. prev # NoIndex => prev.mtime \in Mtimes
      BY <3>4 DEF IndexFiles
    <3>7. vfs' \in [Files -> FileState]
      BY <1>1, <3>2, <3>3, <3>5, <3>6 DEF FileState
    <3>8. QED
      BY <1>1, <3>1, <3>7 DEF CacheType
  <2>8. CASE StoreRead(i)
    <3>1. UNCHANGED <<vfs, g_index, disk_cache>>
      BY <2>8 DEF StoreRead
    <3>2. \E f \in w.claims : file_mutex' = [file_mutex EXCEPT ![f] = i]
      BY <2>8 DEF StoreRead
    <3>3. QED
      BY <1>1, <3>1, <3>2 DEF CacheType
  <2>9. CASE StoreWrite(i)
    <3> DEFINE f == w.file
               made == MadeIndex(w, f)
    <3>1. f \in w.claims /\ w.claims \in SUBSET Files /\ (w.deleted \/ w.seen[f] # 0)
      BY <2>1, <2>9 DEF StoreWrite, Locals, WorkerType
    <3>2. made \in IndexFiles
      BY <2>1, <3>1, MadeIndexType
    <3>3. /\ UNCHANGED <<vfs, file_mutex>>
          /\ g_index' = g_index \/ g_index' = [g_index EXCEPT ![f] = made]
          /\ \/ disk_cache' = disk_cache \/ disk_cache' = [disk_cache EXCEPT ![f] = NoIndex]
             \/ disk_cache' = [disk_cache EXCEPT ![f] = made]
      BY <2>9 DEF StoreWrite
    <3> HIDE DEF made
    <3>4. QED
      BY <1>1, <3>2, <3>3 DEF CacheType
  <2>10. CASE StoreCount(i)
    <3>1. /\ UNCHANGED <<g_index, disk_cache>>
          /\ file_mutex' = [file_mutex EXCEPT ![w.file] = NoPath]
          /\ vfs' = [vfs EXCEPT ![w.file].loaded = vfs[w.file].loaded + 1]
      BY <2>10 DEF StoreCount, Release, Counted
    <3>2. w.file \in Files
      BY <2>1, <2>10 DEF StoreCount, Locals, WorkerType
    <3> DEFINE f == w.file
    <3>3. f \in Files /\ vfs' = [vfs EXCEPT ![f].loaded = vfs[f].loaded + 1]
      BY <3>1, <3>2
    <3> HIDE DEF f
    <3>4. vfs[f] \in FileState /\ vfs[f].loaded + 1 \in Nat
      BY <1>1, <3>3 DEF FileState
    <3>5. vfs' \in [Files -> FileState]
      BY <1>1, <3>3, <3>4 DEF FileState
    <3>6. QED
      BY <1>1, <3>1, <3>5 DEF CacheType
  <2>11. QED
    BY <1>5, <2>3, <2>4, <2>5, <2>6, <2>7, <2>8, <2>9, <2>10 DEF Indexer
<1>6. CASE OnIndexed
  BY <1>1, <1>6 DEF OnIndexed, indexerVars, CacheType
<1>7. ASSUME NEW f \in Files,
             \/ Edit(f) \/ Remove(f) \/ DidSave(f) \/ DidChangeWatchedFiles(f) \/ DidOpen(f)
      PROVE  CacheType'
  BY <1>1, <1>7 DEF Edit, Remove, DidSave, DidChangeWatchedFiles, DidOpen,
                    unchangedByClient, CacheType
<1>8. ASSUME NEW f \in Files, DidClose(f)
      PROVE  CacheType'
  BY <1>1, <1>8 DEF DidClose, CacheType
<1>9. CASE DidChangeConfiguration
  BY <1>1, <1>9 DEF DidChangeConfiguration, unchangedByClient, CacheType
<1>10. CASE Reload
  <2>1. vfs' = [f \in Files |-> FreshState] /\ UNCHANGED <<g_index, disk_cache, file_mutex>>
    BY <1>10 DEF Reload
  <2>2. QED
    BY <1>1, <1>4, <2>1 DEF CacheType
<1>11. CASE CleanRestart \/ Crash
  <2>1. /\ vfs' = [f \in Files |-> FreshState] /\ UNCHANGED disk_cache
        /\ g_index' = [f \in Files |-> NoIndex] /\ file_mutex' = [f \in Files |-> NoPath]
    BY <1>11 DEF CleanRestart, Crash, Restart
  <2>2. QED
    BY <1>1, <1>4, <2>1 DEF CacheType
<1>12. CASE UNCHANGED vars
  BY <1>1, <1>12 DEF vars, indexerVars, CacheType
<1>13. QED
  BY <1>5, <1>6, <1>7, <1>8, <1>9, <1>10, <1>11, <1>12 DEF Next, Client

(* The database.                                                            *)
LEMMA NextDatabase ==
  ASSUME TypeOK, Parsing, [Next]_vars
  PROVE  DatabaseType'
<1>1. db \in DBType /\ applied \in [Files -> IndexData]
  BY DEF TypeOK, DatabaseType
<1>2. CASE UNCHANGED <<db, applied>>
  BY <1>1, <1>2 DEF DatabaseType
<1>3. ASSUME NEW i \in Indexers, Indexer(i)
      PROVE  UNCHANGED <<db, applied>>
  BY <1>3, Zenon DEF Indexer, PopDummy, PopNoEntry, Pop, Stamp, CacheCheck, CacheLoad,
       DepStamp, DepLoad, DepsDone, SeenFile, ParseEnd, ParseGone, ParseCrash, StoreRead,
       StoreWrite, StorePush, StoreCount, StoreDone, mainVars
<1>4. CASE OnIndexed
  <2> DEFINE u == Front(on_indexed)
  <2>1. u \in Updates
    <3>1. on_indexed \in QueueOf(Updates) /\ CanPop(on_indexed)
      BY <1>4 DEF TypeOK, QueueType, OnIndexed
    <3>2. QED
      BY <3>1, PopFrontProperties
  <2>2. u.curr \in IndexData /\ u.path \in Files \cup {NoPath}
    BY <2>1 DEF Updates
  <2>3. \/ UNCHANGED <<db, applied>>
        \/ /\ u.path # NoPath /\ db' = ApplyIndexUpdate(db, u)
           /\ applied' = [applied EXCEPT ![u.path] = u.curr]
    BY <1>4 DEF OnIndexed
  <2> HIDE DEF u
  <2>4. u.path # NoPath => ApplyIndexUpdate(db, u) \in DBType
    BY <1>1, <2>2, ApplyType
  <2>5. QED
    BY <1>1, <1>2, <2>2, <2>3, <2>4 DEF DatabaseType
<1>5. ASSUME NEW f \in Files,
             \/ Edit(f) \/ Remove(f) \/ DidSave(f) \/ DidChangeWatchedFiles(f) \/ DidOpen(f)
             \/ DidClose(f)
      PROVE  UNCHANGED <<db, applied>>
  BY <1>5 DEF Edit, Remove, DidSave, DidChangeWatchedFiles, DidOpen, DidClose,
              unchangedByClient
<1>6. CASE DidChangeConfiguration
  BY <1>2, <1>6 DEF DidChangeConfiguration, unchangedByClient
<1>7. CASE Reload \/ CleanRestart \/ Crash
  <2>1. db' = EmptyDB /\ applied' = [f \in Files |-> EmptyIndex]
    BY <1>7 DEF Reload, CleanRestart, Crash, Restart
  <2>2. EmptyDB \in DBType
    BY DEF EmptyDB, DBType, FileDefs
  <2>3. QED
    BY <2>1, <2>2, Facts DEF DatabaseType
<1>8. CASE UNCHANGED vars
  BY <1>2, <1>8 DEF vars
<1>9. QED
  BY <1>2, <1>3, <1>4, <1>5, <1>6, <1>7, <1>8 DEF Next, Client

(* The initial state.                                                       *)
LEMMA InitType ==
  ASSUME Init
  PROVE  TypeOK /\ Parsing
<1>1. ClientType
  BY Facts, BudgetAssumption DEF Init, ClientType, InitialFile
<1>2. QueueType
  <2>1. EmptyQueue \in QueueOf(Requests) /\ EmptyQueue \in QueueOf(Updates)
    BY EmptyQueueProperties
  <2>2. index_request \in QueueOf(Requests)
    BY <2>1, ProjectIndexedType DEF Init
  <2>3. QED
    BY <2>1, <2>2, Facts DEF Init, QueueType
<1>3. CacheType
  <2>1. FreshState \in FileState
    BY Facts DEF FreshState, FileState
  <2>2. QED
    BY <2>1 DEF Init, CacheType
<1>4. DatabaseType
  <2>1. EmptyDB \in DBType
    BY DEF EmptyDB, DBType, FileDefs
  <2>2. QED
    BY <2>1, Facts DEF Init, DatabaseType
<1>5. worker \in [Indexers -> WorkerType] /\ \A i \in Indexers : worker[i] = IdleWorker
  BY IdleWorkerType DEF Init
<1>6. \A i \in Indexers : Locals(worker[i])
  BY <1>5, IdleWorkerType, Zenon
<1>7. QED
  BY <1>1, <1>2, <1>3, <1>4, <1>5, <1>6 DEF TypeOK, Parsing

(* Types and locals are inductive together.                                 *)
LEMMA NextType ==
  ASSUME TypeOK, Parsing, [Next]_vars
  PROVE  TypeOK' /\ Parsing'
  BY NextClient, NextQueues, NextCaches, NextDatabase, NextWorkers DEF TypeOK

(* Every variable keeps its type.  In particular a queue only ever holds    *)
(* requests or updates with their parts in order, both caches hold indexes  *)
(* made of a readable file, applyIndexUpdate never leaves a count of uses   *)
(* below zero, and an indexer that stores a file has a write time of it.    *)
THEOREM TypeCorrect == Spec => []TypeOK
<1>1. Init => TypeOK /\ Parsing
  BY InitType
<1>2. TypeOK /\ Parsing /\ [Next]_vars => (TypeOK /\ Parsing)'
  BY NextType
<1>3. QED
  BY <1>1, <1>2, PTL DEF Spec

-----------------------------------------------------------------------------
(* Claims.  The stamp of a file that an indexer claimed stays at or beyond  *)
(* the pair that the claim was made with, until it is moved back.           *)

ClaimStamp(w, f) ==
  [timestamp |-> w.seen[f], step |-> IF NoLinkage(w.req) THEN 3 ELSE 1]

Stamps ==
  \A i \in Indexers : \A f \in worker[i].claims \ rewound :
    ~worker[i].deleted => ~Behind(vfs[f], ClaimStamp(worker[i], f))

(* No stamp that a claim depends on moves back unnoticed.                   *)
Forward ==
  \A j \in Indexers : \A f \in worker'[j].claims \ rewound' :
    f \notin rewound /\ ~Behind(vfs'[f], vfs[f])

(* Stamps are pairs of numbers.                                             *)
LEMMA StampFields ==
  ASSUME NEW v \in [Files -> FileState], NEW g \in Files
  PROVE  v[g].timestamp \in Int /\ v[g].step \in Int
<1>1. v[g] \in FileState
  OBVIOUS
<1>2. QED
  BY <1>1, IndexAssumption DEF FileState, Mtimes

(* Stamps are ordered as VFS::stamp compares them.                          *)
LEMMA BehindOrder ==
  ASSUME NEW a, NEW b, NEW c,
         a.timestamp \in Int, a.step \in Int, b.timestamp \in Int, b.step \in Int,
         c.timestamp \in Int, c.step \in Int
  PROVE  /\ ~Behind(a, a)
         /\ ~Behind(a, b) /\ ~Behind(b, c) => ~Behind(a, c)
  BY DEF Behind

(* The fields of a claim's stamp; two claims of one version have the same.  *)
LEMMA ClaimStampProperties ==
  ASSUME NEW w \in WorkerType, NEW f \in Files
  PROVE  /\ ClaimStamp(w, f).timestamp = w.seen[f] /\ w.seen[f] \in Int
         /\ ClaimStamp(w, f).step = (IF NoLinkage(w.req) THEN 3 ELSE 1)
         /\ ClaimStamp(w, f).step \in Int
<1>1. w.seen \in [Files -> Mtimes]
  BY DEF WorkerType
<1>2. w.seen[f] \in Int
  BY <1>1, IndexAssumption DEF Mtimes
<1>3. QED
  BY <1>2 DEF ClaimStamp

(* What OneClaim says of the locals W of the indexers: a version is told by *)
(* its time and its linkage, so by the stamp of the claim.                  *)
Apart(W, moved) ==
  \A i, j \in Indexers : \A f \in (W[i].claims \cap W[j].claims) \ moved :
    i # j /\ ~W[i].deleted /\ ~W[j].deleted => ClaimStamp(W[i], f) # ClaimStamp(W[j], f)

(* OneClaim speaks of times and linkage, Apart of both in one.              *)
LEMMA OneClaimStamps ==
  ASSUME NEW W, NEW moved
  PROVE  Apart(W, moved) <=>
           \A i, j \in Indexers :
             \A f \in (W[i].claims \cap W[j].claims) \ moved :
               /\ i # j
               /\ ~W[i].deleted /\ ~W[j].deleted
               /\ W[i].seen[f] = W[j].seen[f]
               => NoLinkage(W[i].req) # NoLinkage(W[j].req)
<1>1. \A x, y : NoLinkage(x) \in BOOLEAN /\ NoLinkage(y) \in BOOLEAN
  BY ConfigAssumption DEF NoLinkage, Interactive
<1>2. ASSUME NEW i \in Indexers, NEW j \in Indexers, NEW f
      PROVE  (W[i].seen[f] = W[j].seen[f]
                => NoLinkage(W[i].req) # NoLinkage(W[j].req))
             <=> ClaimStamp(W[i], f) # ClaimStamp(W[j], f)
  <2> DEFINE s == W[i].seen[f]
             t == W[j].seen[f]
             n == NoLinkage(W[i].req)
             m == NoLinkage(W[j].req)
             x == IF n THEN 3 ELSE 1
             y == IF m THEN 3 ELSE 1
  <2>1. /\ ClaimStamp(W[i], f) = [timestamp |-> s, step |-> x]
        /\ ClaimStamp(W[j], f) = [timestamp |-> t, step |-> y]
    BY DEF ClaimStamp
  <2>2. n \in BOOLEAN /\ m \in BOOLEAN
    BY <1>1
  <2> HIDE DEF s, t, n, m
  <2>3. (n # m) <=> x # y
    BY <2>2
  <2> HIDE DEF x, y
  <2>4. [timestamp |-> s, step |-> x] = [timestamp |-> t, step |-> y] <=> s = t /\ x = y
    OBVIOUS
  <2>5. QED
    BY <2>1, <2>3, <2>4, Zenon DEF s, t, n, m
<1>3. QED
  BY <1>2, Zenon DEF Apart

(* Steps that make no claim and move no stamp back.                         *)
LEMMA ClaimsKept ==
  ASSUME TypeOK, TypeOK', Stamps, OneClaim, Forward,
         \A j \in Indexers : NoNewClaim(worker[j], worker'[j])
  PROVE  Stamps' /\ OneClaim'
<1>1. /\ worker \in [Indexers -> WorkerType] /\ worker' \in [Indexers -> WorkerType]
      /\ vfs \in [Files -> FileState] /\ vfs' \in [Files -> FileState]
  BY DEF TypeOK, CacheType
<1>2. \A i \in Indexers : /\ worker[i] \in WorkerType /\ worker'[i] \in WorkerType
                          /\ worker[i].claims \subseteq Files /\ worker'[i].claims \subseteq Files
  BY <1>1 DEF WorkerType
<1>3. ASSUME NEW i \in Indexers, NEW f \in worker'[i].claims \ rewound', ~worker'[i].deleted
      PROVE  /\ f \in Files /\ f \in worker[i].claims \ rewound /\ ~worker[i].deleted
             /\ ClaimStamp(worker'[i], f) = ClaimStamp(worker[i], f)
             /\ ~Behind(vfs'[f], vfs[f])
  <2>1. f \notin rewound /\ ~Behind(vfs'[f], vfs[f]) /\ f \in Files
    BY <1>2, <1>3 DEF Forward
  <2>2. /\ f \in worker[i].claims /\ ~worker[i].deleted
        /\ worker'[i].seen[f] = worker[i].seen[f]
        /\ NoLinkage(worker'[i].req) = NoLinkage(worker[i].req)
    BY <1>3 DEF NoNewClaim
  <2>3. ClaimStamp(worker'[i], f) = ClaimStamp(worker[i], f)
    BY <2>2, Zenon DEF ClaimStamp
  <2>4. QED
    BY <2>1, <2>2, <2>3
<1>4. ASSUME NEW i \in Indexers, NEW f \in worker'[i].claims \ rewound', ~worker'[i].deleted
      PROVE  ~Behind(vfs'[f], ClaimStamp(worker'[i], f))
  <2> DEFINE c == ClaimStamp(worker[i], f)
  <2>1. /\ f \in Files /\ f \in worker[i].claims \ rewound /\ ~worker[i].deleted
        /\ ClaimStamp(worker'[i], f) = c /\ ~Behind(vfs'[f], vfs[f])
    BY <1>3, <1>4
  <2>2. ~Behind(vfs[f], c)
    BY <2>1 DEF Stamps
  <2>3. c.timestamp \in Int /\ c.step \in Int
    BY <1>2, <2>1, ClaimStampProperties
  <2> HIDE DEF c
  <2>4. /\ vfs[f].timestamp \in Int /\ vfs[f].step \in Int
        /\ vfs'[f].timestamp \in Int /\ vfs'[f].step \in Int
    BY <1>1, <2>1, StampFields
  <2>5. ~Behind(vfs'[f], c)
    BY <2>1, <2>2, <2>3, <2>4, BehindOrder
  <2>6. QED
    BY <2>1, <2>5, Zenon
<1>5. Apart(worker, rewound)
  BY OneClaimStamps, Zenon DEF OneClaim
<1>6. Stamps'
  <2>1. \A i \in Indexers : \A f \in worker'[i].claims \ rewound' :
          ~worker'[i].deleted => ~Behind(vfs'[f], ClaimStamp(worker'[i], f))
    BY <1>4
  <2>2. QED
    BY <2>1, Zenon DEF Stamps, ClaimStamp, NoLinkage, Interactive
<1>7. OneClaim'
  <2>1. SUFFICES ASSUME NEW i \in Indexers, NEW j \in Indexers,
                        NEW f \in (worker'[i].claims \cap worker'[j].claims) \ rewound',
                        i # j, ~worker'[i].deleted, ~worker'[j].deleted,
                        ClaimStamp(worker'[i], f) = ClaimStamp(worker'[j], f)
                 PROVE  FALSE
    <3>1. \A i, j \in Indexers : \A f \in (worker'[i].claims \cap worker'[j].claims) \ rewound' :
            i # j /\ ~worker'[i].deleted /\ ~worker'[j].deleted
              => ClaimStamp(worker'[i], f) # ClaimStamp(worker'[j], f)
      BY <2>1
    <3>2. Apart(worker', rewound')
      BY <3>1, Zenon DEF Apart
    <3>3. QED
      BY <3>2, OneClaimStamps, Zenon DEF OneClaim
  <2>2. /\ f \in (worker[i].claims \cap worker[j].claims) \ rewound
        /\ ~worker[i].deleted /\ ~worker[j].deleted
        /\ ClaimStamp(worker[i], f) = ClaimStamp(worker[j], f)
    <3>1. f \in worker'[i].claims \ rewound' /\ f \in worker'[j].claims \ rewound'
      BY <2>1
    <3>2. QED
      BY <1>3, <2>1, <3>1
  <2>3. QED
    BY <1>5, <2>1, <2>2 DEF Apart
<1>8. QED
  BY <1>6, <1>7

(* Stamping moves a stamp forward; counting a load leaves it.               *)
LEMMA StampedForward ==
  ASSUME TypeOK, NEW f \in Files, NEW ts \in Mtimes, NEW step \in 0 .. 3, NEW g \in Files
  PROVE  /\ ~Behind(Stamped(f, ts, step)[g], vfs[g])
         /\ ~Behind(Counted(f)[g], vfs[g])
         /\ CanStamp(f, ts, step) => /\ Stamped(f, ts, step)[f].timestamp = ts
                                     /\ Stamped(f, ts, step)[f].step = step
<1>1. vfs \in [Files -> FileState]
  BY DEF TypeOK, CacheType
<1>2. /\ vfs[f].timestamp \in Int /\ vfs[f].step \in Int /\ ts \in Int /\ step \in Int
      /\ vfs[g].timestamp \in Int /\ vfs[g].step \in Int
  BY <1>1, StampFields, IndexAssumption DEF Mtimes
<1>3. ASSUME CanStamp(f, ts, step)
      PROVE  /\ Stamped(f, ts, step)[f].timestamp = ts /\ Stamped(f, ts, step)[f].step = step
             /\ g # f => Stamped(f, ts, step)[g] = vfs[g]
  BY <1>1, <1>3 DEF Stamped, FileState
<1>4. /\ Counted(f)[g].timestamp = vfs[g].timestamp /\ Counted(f)[g].step = vfs[g].step
  BY <1>1 DEF Counted, FileState
<1>5. ~Behind(Counted(f)[g], vfs[g])
  BY <1>2, <1>4 DEF Behind
<1>6. ~Behind(Stamped(f, ts, step)[g], vfs[g])
  <2>1. CASE ~CanStamp(f, ts, step)
    BY <1>2, <2>1 DEF Stamped, Behind
  <2>2. CASE CanStamp(f, ts, step) /\ f # g
    BY <1>2, <1>3, <2>2 DEF Behind
  <2>3. CASE CanStamp(f, ts, step) /\ f = g
    BY <1>2, <1>3, <2>3 DEF Behind, CanStamp
  <2>4. QED
    BY <2>1, <2>2, <2>3
<1>7. QED
  BY <1>3, <1>5, <1>6

(* The steps of an indexer that claim nothing.                              *)
LEMMA IndexerClaims ==
  ASSUME TypeOK, Parsing, NEW i \in Indexers, Indexer(i), ~SeenFile(i)
  PROVE  \A j \in Indexers : NoNewClaim(worker[j], worker'[j])
<1>1. worker \in [Indexers -> WorkerType]
  BY DEF TypeOK
<1>2. \A j \in Indexers : NoNewClaim(worker[j], worker[j])
  BY Zenon DEF NoNewClaim
<1>3. CASE UNCHANGED worker
  BY <1>2, <1>3
<1>4. CASE KeptLocals(i)
  <2>1. PICK new \in WorkerType : /\ NoNewClaim(worker[i], new)
                                  /\ worker' = [worker EXCEPT ![i] = new]
    BY <1>4 DEF KeptLocals
  <2>2. worker'[i] = new /\ \A j \in Indexers \ {i} : worker'[j] = worker[j]
    BY <1>1, <2>1
  <2>3. SUFFICES ASSUME NEW j \in Indexers PROVE NoNewClaim(worker[j], worker'[j])
    OBVIOUS
  <2>4. CASE j = i
    BY <2>1, <2>2, <2>4, Zenon
  <2>5. CASE j # i
    <3>1. worker'[j] = worker[j]
      BY <2>2, <2>5
    <3>2. QED
      BY <1>2, <3>1, Zenon
  <2>6. QED
    BY <2>4, <2>5
<1>5. QED
  BY <1>3, <1>4, IndexerLocals

(* No stamp moves back unnoticed in a step of an indexer.                   *)
LEMMA IndexerForward ==
  ASSUME TypeOK, TypeOK', Parsing, NEW i \in Indexers, Indexer(i)
  PROVE  Forward
<1> DEFINE w == worker[i]
<1>1. /\ w \in WorkerType /\ Locals(w) /\ vfs \in [Files -> FileState]
      /\ \A j \in Indexers : worker'[j].claims \subseteq Files
  BY DEF TypeOK, CacheType, Parsing, WorkerType
<1>2. \A g \in Files : ~Behind(vfs[g], vfs[g])
  <2>1. \A g \in Files : vfs[g].timestamp \in Int /\ vfs[g].step \in Int
    BY <1>1, StampFields
  <2>2. QED
    BY <2>1 DEF Behind
<1>3. ASSUME rewound' = rewound \/ rewound' = StillClaimed(rewound),
             \A g \in Files : ~Behind(vfs'[g], vfs[g])
      PROVE  Forward
  BY <1>1, <1>3 DEF Forward, StillClaimed
<1>4. ASSUME NoteRewound
      PROVE  Forward
  BY <1>1, <1>4, SMTT(30) DEF Forward, StillClaimed, NoteRewound
<1>5. CASE CacheLoad(i) \/ DepLoad(i)
  BY <1>4, <1>5 DEF CacheLoad, DepLoad
<1>6. CASE \/ PopDummy(i) \/ PopNoEntry(i) \/ Pop(i) \/ CacheCheck(i) \/ DepsDone(i)
           \/ ParseEnd(i) \/ ParseGone(i) \/ ParseCrash(i)
           \/ StoreRead(i) \/ StoreWrite(i) \/ StorePush(i) \/ StoreDone(i)
  <2>1. vfs' = vfs
    BY <1>6, ZenonT(30) DEF PopDummy, PopNoEntry, Pop, CacheCheck, DepsDone, ParseEnd, ParseGone,
                ParseCrash, StoreRead, StoreWrite, StorePush, StoreDone, indexerVars
  <2>2. rewound' = rewound \/ rewound' = StillClaimed(rewound)
    BY <1>6 DEF PopDummy, PopNoEntry, Pop, CacheCheck, DepsDone, ParseEnd, ParseGone,
                ParseCrash, StoreRead, StoreWrite, StorePush, StoreDone, Finish
  <2>3. QED
    BY <1>2, <1>3, <2>1, <2>2, SMTT(30)
<1>7. CASE Stamp(i)
  <2> DEFINE f == w.req.path
             step == IF NoLinkage(w.req) THEN 2 ELSE 0
  <2>1. vfs' = vfs \/ vfs' = Stamped(f, w.time, step)
    BY <1>7 DEF Stamp
  <2>2. rewound' = rewound \/ rewound' = StillClaimed(rewound)
    BY <1>7 DEF Stamp, Finish
  <2>3. f \in Files /\ w.time \in Mtimes /\ step \in 0 .. 3
    BY <1>1, <1>7 DEF Stamp, Locals, WorkerType
  <2> HIDE DEF f, step
  <2>4. \A g \in Files : ~Behind(vfs'[g], vfs[g])
    BY <1>2, <2>1, <2>3, StampedForward
  <2>5. QED
    BY <1>3, <2>2, <2>4
<1>8. CASE DepStamp(i)
  <2>1. PICK d \in w.deps : vfs' = Stamped(d, w.prev.deps[d], 1)
    BY <1>8 DEF DepStamp
  <2>2. w.prev \in IndexFiles /\ d \in Files
    BY <1>1, <1>8, <2>1 DEF DepStamp, Locals, WorkerType
  <2>3. w.prev.deps[d] \in Mtimes /\ 1 \in 0 .. 3
    BY <2>2 DEF IndexFiles
  <2>4. \A g \in Files : ~Behind(vfs'[g], vfs[g])
    BY <2>1, <2>2, <2>3, StampedForward
  <2>5. QED
    BY <1>3, <1>8, <2>4 DEF DepStamp
<1>9. CASE SeenFile(i)
  <2> DEFINE f == Head(w.todo)
             time == LastWriteTime(f)
             step == IF NoLinkage(w.req) THEN 3 ELSE 1
  <2>1. vfs' = vfs \/ vfs' = Stamped(f, time, step)
    BY <1>9 DEF SeenFile
  <2>2. f \in Files /\ step \in 0 .. 3
    BY <1>9, SeenFileLocals
  <2>3. time \in Mtimes
    BY <2>2, LastWriteTimeType DEF TypeOK
  <2> HIDE DEF f, step, time
  <2>4. \A g \in Files : ~Behind(vfs'[g], vfs[g])
    BY <1>2, <2>1, <2>2, <2>3, StampedForward
  <2>5. QED
    BY <1>3, <1>9, <2>4 DEF SeenFile
<1>10. CASE StoreCount(i)
  <2>1. w.file \in Files /\ vfs' = Counted(w.file) /\ rewound' = StillClaimed(rewound)
    BY <1>1, <1>10 DEF StoreCount, Locals, WorkerType
  <2>2. 0 \in Mtimes /\ 0 \in 0 .. 3
    BY Facts
  <2>3. \A g \in Files : ~Behind(vfs'[g], vfs[g])
    BY <2>1, <2>2, StampedForward
  <2>4. QED
    BY <1>3, <2>1, <2>3
<1>11. QED
  BY <1>5, <1>6, <1>7, <1>8, <1>9, <1>10 DEF Indexer

(* A parse claims a file when its stamp moves forward: beyond every claim   *)
(* that another indexer has on it.                                          *)
LEMMA SeenFileClaims ==
  ASSUME TypeOK, TypeOK', Parsing, Stamps, OneClaim, NEW i \in Indexers, SeenFile(i)
  PROVE  Stamps' /\ OneClaim'
<1> DEFINE w == worker[i]
           v == worker'[i]
           f == Head(w.todo)
           time == LastWriteTime(f)
           step == IF NoLinkage(w.req) THEN 3 ELSE 1
           claimed == time # 0 /\ CanStamp(f, time, step)
<1>1. /\ worker \in [Indexers -> WorkerType] /\ worker' \in [Indexers -> WorkerType]
      /\ w \in WorkerType /\ v \in WorkerType
      /\ vfs \in [Files -> FileState] /\ vfs' \in [Files -> FileState]
  BY DEF TypeOK, CacheType
<1>2. f \in Files \ w.claims /\ step \in 0 .. 3
  BY SeenFileLocals
<1>3. time \in Mtimes
  BY <1>2, LastWriteTimeType DEF TypeOK
<1>4. /\ v.req = w.req /\ v.deleted = w.deleted /\ v.seen = [w.seen EXCEPT ![f] = time]
      /\ v.claims = IF claimed THEN w.claims \cup {f} ELSE w.claims
      /\ \A j \in Indexers \ {i} : worker'[j] = worker[j]
      /\ rewound' = rewound
      /\ vfs' = IF claimed THEN Stamped(f, time, step) ELSE vfs
  <2>1. /\ worker' = [worker EXCEPT ![i].todo = Tail(@), ![i].seen[f] = time,
                        ![i].claims = IF claimed THEN @ \cup {f} ELSE @]
        /\ rewound' = rewound /\ vfs' = IF claimed THEN Stamped(f, time, step) ELSE vfs
    BY DEF SeenFile
  <2> HIDE DEF claimed, time, f, step
  <2>2. QED
    BY <1>1, <2>1 DEF WorkerType
<1>5. w.seen \in [Files -> Mtimes]
  BY <1>1 DEF WorkerType
<1>6. ClaimStamp(v, f) = [timestamp |-> time, step |-> step]
  BY <1>2, <1>4, <1>5 DEF ClaimStamp
<1>7. \A g \in Files \ {f} : ClaimStamp(v, g) = ClaimStamp(w, g)
  BY <1>4, <1>5 DEF ClaimStamp
<1>8. claimed => /\ vfs'[f].timestamp = time /\ vfs'[f].step = step
                 /\ Behind(vfs[f], [timestamp |-> time, step |-> step])
  <2>1. claimed => /\ vfs'[f].timestamp = time /\ vfs'[f].step = step
    BY <1>2, <1>3, <1>4, StampedForward
  <2>2. claimed => Behind(vfs[f], [timestamp |-> time, step |-> step])
    BY DEF Behind, CanStamp
  <2>3. QED
    BY <2>1, <2>2
<1>9. \A g \in Files : ~Behind(vfs'[g], vfs[g])
  <2>1. \A g \in Files : vfs[g].timestamp \in Int /\ vfs[g].step \in Int
    BY <1>1, StampFields
  <2>2. \A g \in Files : ~Behind(vfs[g], vfs[g])
    BY <2>1 DEF Behind
  <2> HIDE DEF time, step, f, claimed
  <2>3. vfs' = vfs \/ vfs' = Stamped(f, time, step)
    BY <1>4
  <2>4. f \in Files
    BY <1>2
  <2>5. QED
    BY <1>2, <1>3, <2>2, <2>3, <2>4, StampedForward
<1>10. ASSUME NEW j \in Indexers, NEW g \in worker'[j].claims, ~(j = i /\ g = f)
       PROVE  /\ g \in Files /\ g \in worker[j].claims
              /\ worker'[j].deleted = worker[j].deleted
              /\ ClaimStamp(worker'[j], g) = ClaimStamp(worker[j], g)
  <2>1. g \in Files
    BY <1>1 DEF WorkerType
  <2>2. CASE j # i
    BY <1>4, <2>1, <2>2
  <2>3. CASE j = i
    <3> HIDE DEF f, claimed
    <3>1. g # f /\ g \in v.claims
      BY <1>10, <2>3
    <3>2. g \in w.claims
      BY <1>4, <3>1
    <3>3. ClaimStamp(v, g) = ClaimStamp(w, g)
      BY <1>7, <2>1, <3>1
    <3>4. QED
      BY <1>4, <2>1, <2>3, <3>2, <3>3, Zenon
  <2>4. QED
    BY <2>2, <2>3
<1>11. f \in v.claims => claimed
  BY <1>2, <1>4
<1> HIDE DEF f, time, step, claimed
<1>12. Stamps'
  <2>1. SUFFICES ASSUME NEW j \in Indexers, NEW g \in worker'[j].claims \ rewound',
                        ~worker'[j].deleted
                 PROVE  ~Behind(vfs'[g], ClaimStamp(worker'[j], g))
    BY Zenon DEF Stamps, ClaimStamp, NoLinkage, Interactive
  <2>2. CASE j = i /\ g = f
    <3>1. claimed
      BY <1>11, <2>1, <2>2
    <3>2. vfs'[f].timestamp = time /\ vfs'[f].step = step /\ time \in Int /\ step \in Int
      BY <1>2, <1>3, <1>8, <3>1, IndexAssumption DEF Mtimes
    <3>3. ~Behind(vfs'[f], [timestamp |-> time, step |-> step])
      BY <3>2 DEF Behind
    <3>4. QED
      BY <1>6, <2>2, <3>3, Zenon
  <2>3. CASE ~(j = i /\ g = f)
    <3> DEFINE c == ClaimStamp(worker[j], g)
    <3>1. /\ g \in Files /\ g \in worker[j].claims \ rewound /\ ~worker[j].deleted
          /\ ClaimStamp(worker'[j], g) = c
      BY <1>4, <1>10, <2>1, <2>3
    <3>2. ~Behind(vfs[g], c) /\ ~Behind(vfs'[g], vfs[g])
      BY <1>9, <3>1 DEF Stamps
    <3>3. c.timestamp \in Int /\ c.step \in Int
      BY <1>1, <3>1, ClaimStampProperties
    <3> HIDE DEF c
    <3>4. /\ vfs[g].timestamp \in Int /\ vfs[g].step \in Int
          /\ vfs'[g].timestamp \in Int /\ vfs'[g].step \in Int
      BY <1>1, <3>1, StampFields
    <3>5. ~Behind(vfs'[g], c)
      BY <3>2, <3>3, <3>4, BehindOrder
    <3>6. QED
      BY <3>1, <3>5, Zenon
  <2>4. QED
    BY <2>2, <2>3
<1>13. Apart(worker, rewound)
  BY OneClaimStamps, Zenon DEF OneClaim
<1>14. ASSUME NEW j \in Indexers \ {i}, f \in worker'[j].claims \ rewound', f \in v.claims,
              ~worker'[j].deleted
       PROVE  ClaimStamp(v, f) # ClaimStamp(worker'[j], f)
  <2>1. worker'[j] = worker[j] /\ rewound' = rewound
    BY <1>4
  <2>2. ~Behind(vfs[f], ClaimStamp(worker[j], f))
    BY <1>14, <2>1 DEF Stamps
  <2>3. Behind(vfs[f], ClaimStamp(v, f))
    BY <1>6, <1>8, <1>11, <1>14, Zenon
  <2>4. QED
    BY <2>1, <2>2, <2>3, Zenon
<1>15. Apart(worker', rewound')
  <2>1. SUFFICES ASSUME NEW j \in Indexers, NEW k \in Indexers,
                        NEW g \in (worker'[j].claims \cap worker'[k].claims) \ rewound',
                        j # k, ~worker'[j].deleted, ~worker'[k].deleted
                 PROVE  ClaimStamp(worker'[j], g) # ClaimStamp(worker'[k], g)
    BY Zenon DEF Apart
  <2>2. CASE j = i /\ g = f
    BY <1>14, <2>1, <2>2
  <2>3. CASE k = i /\ g = f
    BY <1>14, <2>1, <2>3
  <2>4. CASE ~(j = i /\ g = f) /\ ~(k = i /\ g = f)
    <3>1. /\ g \in worker[j].claims \ rewound /\ ~worker[j].deleted
          /\ ClaimStamp(worker'[j], g) = ClaimStamp(worker[j], g)
      BY <1>4, <1>10, <2>1, <2>4
    <3>2. /\ g \in worker[k].claims \ rewound /\ ~worker[k].deleted
          /\ ClaimStamp(worker'[k], g) = ClaimStamp(worker[k], g)
      BY <1>4, <1>10, <2>1, <2>4
    <3>3. ClaimStamp(worker[j], g) # ClaimStamp(worker[k], g)
      BY <1>13, <2>1, <3>1, <3>2 DEF Apart
    <3>4. QED
      BY <3>1, <3>2, <3>3
  <2>5. QED
    BY <2>2, <2>3, <2>4
<1>16. OneClaim'
  BY <1>15, OneClaimStamps, Zenon DEF OneClaim
<1>17. QED
  BY <1>12, <1>16

(* Every step keeps the claims apart.                                       *)
LEMMA NextClaims ==
  ASSUME TypeOK, TypeOK', Parsing, Stamps, OneClaim, [Next]_vars
  PROVE  Stamps' /\ OneClaim'
<1>1. CASE \E i \in Indexers : Indexer(i)
  <2>1. PICK i \in Indexers : Indexer(i)
    BY <1>1
  <2>2. CASE SeenFile(i)
    BY <2>2, SeenFileClaims
  <2>3. CASE ~SeenFile(i)
    BY <2>1, <2>3, IndexerClaims, IndexerForward, ClaimsKept
  <2>4. QED
    BY <2>2, <2>3
<1>2. CASE UNCHANGED <<worker, vfs, rewound>>
  <2>1. Stamps'
    BY <1>2, Zenon DEF Stamps, ClaimStamp, NoLinkage, Interactive, Behind
  <2>2. OneClaim'
    <3>1. SUFFICES ASSUME NEW i \in Indexers, NEW j \in Indexers,
                          NEW f \in (worker'[i].claims \cap worker'[j].claims) \ rewound',
                          i # j, ~worker'[i].deleted, ~worker'[j].deleted,
                          worker'[i].seen[f] = worker'[j].seen[f]
                   PROVE  (NoLinkage(worker[i].req) # NoLinkage(worker[j].req))'
      BY DEF OneClaim
    <3>2. NoLinkage(worker[i].req) # NoLinkage(worker[j].req)
      BY <1>2, <3>1, Zenon DEF OneClaim
    <3>3. QED
      BY <1>2, <3>2, Zenon DEF NoLinkage, Interactive
  <2>3. QED
    BY <2>1, <2>2
<1>3. CASE OnIndexed
  BY <1>2, <1>3 DEF OnIndexed, indexerVars
<1>4. CASE \E f \in Files : \/ Edit(f) \/ Remove(f) \/ DidSave(f)
                            \/ DidChangeWatchedFiles(f) \/ DidOpen(f) \/ DidClose(f)
  BY <1>2, <1>4 DEF Edit, Remove, DidSave, DidChangeWatchedFiles, DidOpen, DidClose,
                    unchangedByClient
<1>5. CASE DidChangeConfiguration
  BY <1>2, <1>5 DEF DidChangeConfiguration, unchangedByClient
<1>6. CASE Reload
  <2>1. worker' = worker /\ NoteRewound
    BY <1>6 DEF Reload
  <2>2. \A j \in Indexers : worker'[j].claims \subseteq Files
    BY DEF TypeOK, WorkerType
  <2>3. Forward
    BY <2>1, <2>2 DEF Forward, StillClaimed, NoteRewound
  <2>4. \A j \in Indexers : NoNewClaim(worker[j], worker'[j])
    BY <2>1, Zenon DEF NoNewClaim
  <2>5. QED
    BY <2>3, <2>4, ClaimsKept
<1>7. CASE CleanRestart \/ Crash
  <2>1. worker' = [i \in Indexers |-> IdleWorker]
    BY <1>7 DEF CleanRestart, Crash, Restart
  <2>2. \A j \in Indexers : worker'[j].claims = {}
    BY <2>1 DEF IdleWorker
  <2>3. QED
    BY <2>2 DEF Stamps, OneClaim
<1>8. CASE UNCHANGED vars
  BY <1>2, <1>8 DEF vars, indexerVars
<1>9. QED
  BY <1>1, <1>3, <1>4, <1>5, <1>6, <1>7, <1>8 DEF Next, Client

(* VFS::stamp hands each version of a file to one indexer, whatever the     *)
(* client does and however many indexers there are, unless its stamp was    *)
(* moved back meanwhile.                                                    *)
THEOREM VersionClaimedOnce == Spec => []OneClaim
<1> DEFINE ClaimInv == TypeOK /\ Parsing /\ Stamps /\ OneClaim
<1>1. Init => ClaimInv
  <2>1. SUFFICES ASSUME Init PROVE Stamps /\ OneClaim
    BY InitType
  <2>2. \A i \in Indexers : worker[i].claims = {}
    BY <2>1 DEF Init, IdleWorker
  <2>3. QED
    BY <2>2 DEF Stamps, OneClaim
<1>2. ClaimInv /\ [Next]_vars => ClaimInv'
  BY NextType, NextClaims
<1>3. QED
  BY <1>1, <1>2, PTL DEF Spec

-----------------------------------------------------------------------------
(* The last update of a file.                                               *)

(* The last update for f is the one after which no other is for f.          *)
LEMMA LastForIs ==
  ASSUME NEW f, NEW s \in Seq(Updates), NEW o, NEW k \in DOMAIN s, s[k].path = f,
         \A j \in DOMAIN s : s[j].path = f => j <= k
  PROVE  LastFor(f, s, o) = s[k].curr
<1> DEFINE at == {j \in DOMAIN s : s[j].path = f}
           c == CHOOSE j \in at : \A l \in at : l <= j
<1>1. k \in at /\ \A l \in at : l <= k
  OBVIOUS
<1>2. at \subseteq Nat
  BY LenProperties
<1>3. c \in at /\ \A l \in at : l <= c
  BY <1>1
<1>4. c = k
  BY <1>1, <1>2, <1>3
<1>5. LastFor(f, s, o) = IF at = {} THEN o ELSE s[c].curr
  BY DEF LastFor
<1>6. QED
  BY <1>1, <1>4, <1>5

(* Without an update for f.                                                 *)
LEMMA LastForNone ==
  ASSUME NEW f, NEW s, NEW o, \A j \in DOMAIN s : s[j].path # f
  PROVE  LastFor(f, s, o) = o
  BY DEF LastFor

(* A sequence of updates has a last one for f, or none.                     *)
LEMMA LastForCases ==
  ASSUME NEW f, NEW s \in Seq(Updates)
  PROVE  \/ \A j \in DOMAIN s : s[j].path # f
         \/ \E k \in DOMAIN s : s[k].path = f /\ \A j \in DOMAIN s : s[j].path = f => j <= k
<1> DEFINE at == {j \in DOMAIN s : s[j].path = f}
<1>1. CASE at = {}
  BY <1>1
<1>2. CASE at # {}
  <2>1. Len(s) \in Nat /\ at \in SUBSET (1 .. Len(s))
    BY LenProperties
  <2>2. PICK k \in at : \A j \in at : j <= k
    BY <1>2, <2>1, GreatestExists
  <2>3. QED
    BY <2>2
<1>3. QED
  BY <1>1, <1>2

(* A push is the last update of its file and of no other.                   *)
LEMMA LastForAppend ==
  ASSUME NEW f, NEW s \in Seq(Updates), NEW u \in Updates, NEW o
  PROVE  LastFor(f, Append(s, u), o) = IF u.path = f THEN u.curr ELSE LastFor(f, s, o)
<1> DEFINE t == Append(s, u)
           n == Len(s)
<1>1. /\ t \in Seq(Updates) /\ n \in Nat /\ DOMAIN s = 1 .. n /\ DOMAIN t = 1 .. n + 1
      /\ t[n + 1] = u /\ \A k \in 1 .. n : t[k] = s[k]
  <2>1. t \in Seq(Updates) /\ Len(t) = n + 1
    OBVIOUS
  <2>2. QED
    BY <2>1, LenProperties
<1> HIDE DEF t, n
<1>2. CASE u.path = f
  <2>1. n + 1 \in DOMAIN t /\ t[n + 1].path = f /\ \A j \in DOMAIN t : j <= n + 1
    BY <1>1, <1>2
  <2>2. LastFor(f, t, o) = t[n + 1].curr
    BY <1>1, <2>1, LastForIs
  <2>3. QED
    BY <1>1, <1>2, <2>2 DEF t
<1>3. CASE u.path # f
  <2>1. \A j \in DOMAIN t : t[j].path = f => j \in DOMAIN s /\ t[j] = s[j]
    <3>1. SUFFICES ASSUME NEW j \in DOMAIN t, t[j].path = f PROVE j \in 1 .. n
      BY <1>1
    <3>2. j # n + 1
      BY <1>1, <1>3, <3>1
    <3>3. QED
      BY <1>1, <3>2
  <2>2. CASE \A j \in DOMAIN s : s[j].path # f
    <3>1. \A j \in DOMAIN t : t[j].path # f
      BY <2>1, <2>2
    <3>2. LastFor(f, t, o) = o /\ LastFor(f, s, o) = o
      BY <2>2, <3>1, LastForNone
    <3>3. QED
      BY <1>3, <3>2 DEF t
  <2>3. CASE \E k \in DOMAIN s : s[k].path = f /\ \A j \in DOMAIN s : s[j].path = f => j <= k
    <3>1. PICK k \in DOMAIN s : s[k].path = f /\ \A j \in DOMAIN s : s[j].path = f => j <= k
      BY <2>3
    <3>2. k \in DOMAIN t /\ t[k] = s[k]
      BY <1>1
    <3>3. \A j \in DOMAIN t : t[j].path = f => j <= k
      BY <2>1, <3>1
    <3>4. LastFor(f, s, o) = s[k].curr
      BY <3>1, LastForIs
    <3>5. LastFor(f, t, o) = t[k].curr
      BY <1>1, <3>1, <3>2, <3>3, LastForIs
    <3>6. QED
      BY <1>3, <3>2, <3>4, <3>5 DEF t
  <2>4. QED
    BY <2>2, <2>3, LastForCases
<1>4. QED
  BY <1>2, <1>3

(* Applying the first of the updates leaves what the last one brings.       *)
LEMMA LastForTail ==
  ASSUME NEW f, NEW s \in Seq(Updates), s # <<>>, NEW o
  PROVE  LastFor(f, s, o) =
           LastFor(f, Tail(s), IF Head(s).path = f THEN Head(s).curr ELSE o)
<1> DEFINE t == Tail(s)
           p == IF Head(s).path = f THEN Head(s).curr ELSE o
<1>1. /\ t \in Seq(Updates) /\ Len(t) = Len(s) - 1 /\ Head(s) = s[1]
      /\ \A k \in 1 .. Len(t) : t[k] = s[k + 1]
      /\ Len(s) \in Nat \ {0} /\ DOMAIN s = 1 .. Len(s) /\ DOMAIN t = 1 .. Len(t)
  <2>1. t \in Seq(Updates)
    BY HeadTailProperties
  <2>2. QED
    BY <2>1, HeadTailProperties, EmptySeq, LenProperties
<1> HIDE DEF t
<1>2. CASE \A j \in DOMAIN t : t[j].path # f
  <2>1. LastFor(f, t, p) = p
    BY <1>2, LastForNone
  <2>2. \A j \in DOMAIN s : s[j].path = f => j = 1
    <3>1. SUFFICES ASSUME NEW j \in DOMAIN s, s[j].path = f, j # 1 PROVE FALSE
      OBVIOUS
    <3>2. j - 1 \in DOMAIN t /\ t[j - 1] = s[j]
      BY <1>1, <3>1
    <3>3. QED
      BY <1>2, <3>1, <3>2
  <2>3. CASE s[1].path = f
    <3>1. 1 \in DOMAIN s /\ \A j \in DOMAIN s : s[j].path = f => j <= 1
      BY <1>1, <2>2
    <3>2. LastFor(f, s, o) = s[1].curr
      BY <2>3, <3>1, LastForIs
    <3>3. QED
      BY <1>1, <2>1, <2>3, <3>2 DEF t
  <2>4. CASE s[1].path # f
    <3>1. \A j \in DOMAIN s : s[j].path # f
      BY <2>2, <2>4
    <3>2. LastFor(f, s, o) = o
      BY <3>1, LastForNone
    <3>3. QED
      BY <1>1, <2>1, <2>4, <3>2 DEF t
  <2>5. QED
    BY <2>3, <2>4
<1>3. CASE \E k \in DOMAIN t : t[k].path = f /\ \A j \in DOMAIN t : t[j].path = f => j <= k
  <2>1. PICK k \in DOMAIN t : t[k].path = f /\ \A j \in DOMAIN t : t[j].path = f => j <= k
    BY <1>3
  <2>2. LastFor(f, t, p) = t[k].curr
    BY <1>1, <2>1, LastForIs, SMTT(30)
  <2>3. k + 1 \in DOMAIN s /\ s[k + 1] = t[k]
    BY <1>1
  <2>4. \A j \in DOMAIN s : s[j].path = f => j <= k + 1
    <3>1. SUFFICES ASSUME NEW j \in DOMAIN s, s[j].path = f, j # 1 PROVE j <= k + 1
      BY <1>1, <2>3
    <3>2. j - 1 \in DOMAIN t /\ t[j - 1] = s[j]
      BY <1>1, <3>1
    <3>3. j - 1 <= k
      BY <2>1, <3>1, <3>2
    <3>4. QED
      BY <1>1, <3>3
  <2>5. LastFor(f, s, o) = s[k + 1].curr
    <3> DEFINE l == k + 1
    <3>1. l \in DOMAIN s /\ s[l].path = f /\ \A j \in DOMAIN s : s[j].path = f => j <= l
      BY <2>1, <2>3, <2>4
    <3> HIDE DEF l
    <3>2. LastFor(f, s, o) = s[l].curr
      BY <3>1, LastForIs
    <3>3. QED
      BY <3>2 DEF l
  <2>6. QED
    BY <2>2, <2>3, <2>5 DEF t
<1>4. QED
  BY <1>1, <1>2, <1>3, LastForCases

-----------------------------------------------------------------------------
(* The chain of deltas, as long as the updates are pushed in turn.          *)

Cached(f) == Data(RawCacheLoad(f))

(* An index in memory is also what the cache directory holds, and is        *)
(* replaced by the next store.                                              *)
InMemory ==
  \A f \in Files : g_index[f] # NoIndex =>
    /\ Retain > 0 /\ Retain <= vfs[f].loaded + 1
    /\ HasCacheDir => Data(g_index[f]) = Data(disk_cache[f])

(* The file whose mutex an indexer holds. *)
Holds(w) == w.pc \in {"load", "write", "push", "count"}
HeldFile(w) == IF w.pc = "load" THEN w.req.path ELSE w.file

(* Where the chain of f is in the hands of an indexer with locals w, given  *)
(* what was loaded, cached and pushed.                                      *)
Link(w, f, loaded, cached, pushed) ==
  /\ w.pc = "load" => loaded = 0 /\ cached = Data(w.prev) /\ pushed = EmptyIndex
  /\ w.pc = "write" => /\ w.retained <=> (Retain > 0 /\ Retain <= loaded + 1)
                       /\ pushed = Data(w.prev)
                       /\ pushed = IF loaded > 0 THEN cached ELSE EmptyIndex
  /\ w.pc = "push" => pushed = Data(w.prev) /\ cached = MadeIndex(w, f).data
  /\ w.pc = "count" => pushed = cached

Linked(w, i) ==
  Holds(w) => \E f \in Files : /\ f = HeldFile(w) /\ file_mutex[f] = i
                               /\ Link(w, f, vfs[f].loaded, Cached(f), LastPushed(f))

Chained == \A i \in Indexers : Linked(worker[i], i)

(* What is loaded, cached and pushed of f stays, and so does its mutex.     *)
SameFile(f) ==
  /\ vfs'[f].loaded = vfs[f].loaded /\ file_mutex'[f] = file_mutex[f]
  /\ Cached(f)' = Cached(f) /\ LastPushed(f)' = LastPushed(f)

(* A step that changes one file f in the hands of indexer i, or in nobody's, *)
(* leaves the chains of the others.                                         *)
LEMMA ChainFrame ==
  ASSUME TypeOK, TypeOK', Chained, CacheIsLastPushed, NEW i \in Indexers,
         \A j \in Indexers \ {i} : worker'[j] = worker[j],
         NEW f \in Files, file_mutex[f] \in {i, NoPath},
         \A g \in Files \ {f} : SameFile(g),
         Holds(worker'[i]) =>
           /\ f = HeldFile(worker'[i]) /\ file_mutex'[f] = i
           /\ Link(worker'[i], f, vfs'[f].loaded, Cached(f)', LastPushed(f)'),
         file_mutex'[f] = NoPath =>
           LastPushed(f)' = IF vfs'[f].loaded > 0 THEN Cached(f)' ELSE EmptyIndex
  PROVE  Chained' /\ CacheIsLastPushed'
<1>1. ASSUME NEW j \in Indexers
      PROVE  Holds(worker'[j]) =>
               \E g \in Files : /\ g = HeldFile(worker'[j]) /\ file_mutex'[g] = j
                  /\ Link(worker'[j], g, vfs'[g].loaded, Cached(g)', LastPushed(g)')
  <2>1. CASE j = i
    BY <2>1
  <2>2. CASE j # i
    <3>1. worker'[j] = worker[j] /\ j \notin {i, NoPath}
      BY <2>2, Facts
    <3>2. SUFFICES ASSUME Holds(worker[j])
                   PROVE  \E g \in Files : /\ g = HeldFile(worker[j]) /\ file_mutex'[g] = j
                            /\ Link(worker[j], g, vfs'[g].loaded, Cached(g)', LastPushed(g)')
      BY <3>1, Zenon
    <3>3. PICK g \in Files : /\ g = HeldFile(worker[j]) /\ file_mutex[g] = j
                             /\ Link(worker[j], g, vfs[g].loaded, Cached(g), LastPushed(g))
      BY <3>2, Zenon DEF Chained, Linked
    <3>4. g # f
      BY <3>1, <3>3
    <3>5. SameFile(g)
      BY <3>4
    <3>6. QED
      BY <3>3, <3>5, Zenon DEF SameFile
  <2>3. QED
    BY <2>1, <2>2
<1>2. Chained'
  BY <1>1, Zenon DEF Chained, Linked, Holds, HeldFile, Link
<1>3. ASSUME NEW g \in Files, file_mutex'[g] = NoPath
      PROVE  LastPushed(g)' = IF vfs'[g].loaded > 0 THEN Cached(g)' ELSE EmptyIndex
  <2>1. CASE g = f
    BY <1>3, <2>1, Zenon
  <2>2. CASE g # f
    <3>1. SameFile(g)
      BY <2>2
    <3>2. LastPushed(g) = IF vfs[g].loaded > 0 THEN Cached(g) ELSE EmptyIndex
      BY <1>3, <3>1 DEF CacheIsLastPushed, SameFile, Cached
    <3>3. QED
      BY <3>1, <3>2, Zenon DEF SameFile
  <2>3. QED
    BY <2>1, <2>2
<1>4. CacheIsLastPushed'
  BY <1>3, Zenon DEF CacheIsLastPushed, Cached
<1>5. QED
  BY <1>2, <1>4

(* A step that changes no file and takes no file in hand.                   *)
LEMMA ChainKept ==
  ASSUME TypeOK, TypeOK', Chained, CacheIsLastPushed,
         \A j \in Indexers : worker'[j] = worker[j] \/ ~Holds(worker'[j]),
         \A g \in Files : SameFile(g)
  PROVE  Chained' /\ CacheIsLastPushed'
<1>1. ASSUME NEW j \in Indexers
      PROVE  Holds(worker'[j]) =>
               \E g \in Files : /\ g = HeldFile(worker'[j]) /\ file_mutex'[g] = j
                  /\ Link(worker'[j], g, vfs'[g].loaded, Cached(g)', LastPushed(g)')
  <2>1. CASE ~Holds(worker'[j])
    BY <2>1
  <2>2. CASE worker'[j] = worker[j]
    <3>1. SUFFICES ASSUME Holds(worker[j])
                   PROVE  \E g \in Files : /\ g = HeldFile(worker[j]) /\ file_mutex'[g] = j
                            /\ Link(worker[j], g, vfs'[g].loaded, Cached(g)', LastPushed(g)')
      BY <2>2, Zenon
    <3>2. PICK g \in Files : /\ g = HeldFile(worker[j]) /\ file_mutex[g] = j
                             /\ Link(worker[j], g, vfs[g].loaded, Cached(g), LastPushed(g))
      BY <3>1, Zenon DEF Chained, Linked
    <3>3. QED
      BY <3>2, Zenon DEF SameFile
  <2>3. QED
    BY <2>1, <2>2
<1>2. Chained'
  BY <1>1, Zenon DEF Chained, Linked, Holds, HeldFile, Link
<1>3. ASSUME NEW g \in Files, file_mutex'[g] = NoPath
      PROVE  LastPushed(g)' = IF vfs'[g].loaded > 0 THEN Cached(g)' ELSE EmptyIndex
  <2>1. LastPushed(g) = IF vfs[g].loaded > 0 THEN Cached(g) ELSE EmptyIndex
    BY <1>3 DEF CacheIsLastPushed, SameFile, Cached
  <2>2. QED
    BY <2>1, Zenon DEF SameFile
<1>4. CacheIsLastPushed'
  BY <1>3, Zenon DEF CacheIsLastPushed, Cached
<1>5. QED
  BY <1>2, <1>4

(* A push that overtakes nothing comes last.                                *)
LEMMA PushContents ==
  ASSUME TypeOK, NEW u \in Updates, NEW p \in BOOLEAN,
         on_indexed' = PushBack(on_indexed, u, p), InTurn
  PROVE  /\ Contents(on_indexed) \in Seq(Updates)
         /\ Contents(on_indexed)' = Append(Contents(on_indexed), u)
<1> DEFINE q == on_indexed
           s == Contents(q)
<1>1. q \in QueueOf(Updates) /\ q.priority \in Seq(Updates) /\ q.queue \in Seq(Updates)
  BY DEF TypeOK, QueueType, QueueOf
<1>2. s \in Seq(Updates)
  BY <1>1, ConcatProperties DEF Contents
<1>3. Contents(PushBack(q, u, p)) = Append(s, u)
  <2>1. CASE p = FALSE
    BY <1>1, <2>1, PushBackContents
  <2>2. CASE p = TRUE
    <3> DEFINE r == PushBack(q, u, TRUE)
    <3>1. r.priority = Append(q.priority, u) /\ r.queue = q.queue
      BY <1>1, PushBackDeques
    <3>2. Len(Append(q.priority, u)) = Len(q.priority) + 1 /\ Len(q.priority) \in Nat
      BY <1>1
    <3>3. Len(on_indexed'.priority) > Len(on_indexed.priority)
      <4>1. on_indexed' = r
        BY <2>2
      <4> HIDE DEF r
      <4>2. on_indexed'.priority = Append(q.priority, u)
        BY <3>1, <4>1, Zenon
      <4>3. QED
        BY <3>2, <4>2
    <3>4. q.queue = <<>>
      BY <3>3 DEF InTurn
    <3>5. /\ Append(q.priority, u) \o <<>> = Append(q.priority, u)
          /\ q.priority \o <<>> = q.priority
      BY <1>1
    <3>6. QED
      BY <2>2, <3>1, <3>4, <3>5 DEF Contents
  <2>3. QED
    BY <2>1, <2>2
<1>4. QED
  BY <1>2, <1>3 DEF Contents

(* What waits for the main thread after a push that overtakes nothing.      *)
LEMMA PushInTurn ==
  ASSUME TypeOK, NEW u \in Updates, NEW p \in BOOLEAN,
         on_indexed' = PushBack(on_indexed, u, p), InTurn, applied' = applied,
         NEW f
  PROVE  LastPushed(f)' = IF u.path = f THEN u.curr ELSE LastPushed(f)
<1> DEFINE s == Contents(on_indexed)
<1>1. s \in Seq(Updates) /\ Contents(on_indexed)' = Append(s, u)
  BY PushContents
<1>2. LastPushed(f) = LastFor(f, s, applied[f])
  BY DEF LastPushed
<1>3. LastPushed(f)' = LastFor(f, Append(s, u), applied[f])
  BY <1>1 DEF LastPushed, LastFor
<1> HIDE DEF s
<1>4. QED
  BY <1>1, <1>2, <1>3, LastForAppend

(* A file about which nothing changed; counting and stamping.               *)
LEMMA FileUnchanged ==
  ASSUME TypeOK
  PROVE  /\ \A f \in Files : UNCHANGED <<g_index, disk_cache>> => Cached(f)' = Cached(f)
         /\ \A f : UNCHANGED <<on_indexed, applied>> => LastPushed(f)' = LastPushed(f)
         /\ \A f, g \in Files : \A ts, step : Stamped(f, ts, step)[g].loaded = vfs[g].loaded
         /\ \A f, g \in Files :
              Counted(f)[g].loaded = IF f = g THEN vfs[g].loaded + 1 ELSE vfs[g].loaded
<1>1. vfs \in [Files -> FileState]
  BY DEF TypeOK, CacheType
<1>2. ASSUME NEW f \in Files, UNCHANGED <<g_index, disk_cache>> PROVE Cached(f)' = Cached(f)
  BY <1>2 DEF Cached, RawCacheLoad
<1>3. ASSUME NEW f, UNCHANGED <<on_indexed, applied>> PROVE LastPushed(f)' = LastPushed(f)
  BY <1>3 DEF LastPushed, Contents
<1>4. ASSUME NEW f \in Files, NEW g \in Files, NEW ts, NEW step
      PROVE  Stamped(f, ts, step)[g].loaded = vfs[g].loaded
  BY <1>1 DEF Stamped, FileState
<1>5. ASSUME NEW f \in Files, NEW g \in Files
      PROVE  Counted(f)[g].loaded = IF f = g THEN vfs[g].loaded + 1 ELSE vfs[g].loaded
  BY <1>1 DEF Counted, FileState
<1>6. QED
  BY <1>2, <1>3, <1>4, <1>5

(* The steps of an indexer that change no file's chain.                     *)
LEMMA QuietSteps ==
  ASSUME TypeOK, TypeOK', Parsing, Chained, CacheIsLastPushed, InTurn, NEW i \in Indexers,
         \/ PopDummy(i) \/ PopNoEntry(i) \/ Pop(i) \/ Stamp(i) \/ DepStamp(i) \/ DepsDone(i)
         \/ SeenFile(i) \/ ParseEnd(i) \/ ParseGone(i) \/ ParseCrash(i) \/ StoreDone(i)
  PROVE  Chained' /\ CacheIsLastPushed'
<1> DEFINE w == worker[i]
<1>1. /\ worker \in [Indexers -> WorkerType] /\ w \in WorkerType /\ Locals(w)
  BY DEF TypeOK, Parsing
<1>2. /\ UNCHANGED <<g_index, disk_cache, file_mutex, applied>>
      /\ on_indexed' = on_indexed \/ on_indexed' = PushBack(on_indexed, RefreshUpdate, FALSE)
  BY Zenon DEF PopDummy, PopNoEntry, Pop, Stamp, DepStamp, DepsDone, SeenFile, ParseEnd, ParseGone,
         ParseCrash, StoreDone, mainVars, indexerVars
<1>3. \A g \in Files : LastPushed(g)' = LastPushed(g)
  <2>1. CASE on_indexed' = on_indexed
    BY <1>2, <2>1, FileUnchanged
  <2>2. CASE on_indexed' = PushBack(on_indexed, RefreshUpdate, FALSE)
    <3>1. RefreshUpdate \in Updates /\ RefreshUpdate.path = NoPath
      BY Facts DEF RefreshUpdate, Updates
    <3>2. FALSE \in BOOLEAN /\ applied' = applied
      BY <1>2
    <3>3. QED
      BY <2>2, <3>1, <3>2, PushInTurn, Facts
  <2>3. QED
    BY <1>2, <2>1, <2>2
<1>4. \A g \in Files : vfs'[g].loaded = vfs[g].loaded
  <2>1. CASE vfs' = vfs
    BY <2>1
  <2>2. CASE \E f \in Files : \E ts, step : vfs' = Stamped(f, ts, step)
    BY <2>2, FileUnchanged
  <2>3. CASE Stamp(i)
    <3>1. w.req.path \in Files
      BY <1>1, <2>3, SMTT(30) DEF Stamp, Locals
    <3>2. QED
      BY <2>1, <2>2, <2>3, <3>1 DEF Stamp
  <2>4. CASE DepStamp(i)
    <3>1. w.deps \in SUBSET Files
      BY <1>1, SMTT(30) DEF WorkerType
    <3>2. QED
      BY <2>2, <2>4, <3>1 DEF DepStamp
  <2>5. CASE SeenFile(i)
    <3>1. Head(w.todo) \in Files
      BY <2>5, SeenFileLocals
    <3>2. QED
      BY <2>1, <2>2, <2>5, <3>1 DEF SeenFile
  <2>6. QED
    BY <2>1, <2>3, <2>4, <2>5 DEF PopDummy, PopNoEntry, Pop, DepsDone, ParseEnd, ParseGone,
         ParseCrash, StoreDone, mainVars, indexerVars
<1>5. \A g \in Files : SameFile(g)
  BY <1>2, <1>3, <1>4, FileUnchanged DEF SameFile
<1>6. worker'[i].pc \in {"idle", "stamp", "cache", "deps", "depload", "parse", "store"}
  <2>0. ASSUME Finish(i) PROVE worker'[i].pc = "idle"
    <3>1. worker'[i] = IdleWorker
      BY <1>1, <2>0 DEF Finish
    <3>2. QED
      BY <3>1 DEF IdleWorker
  <2>1. CASE PopDummy(i)
    BY <2>1 DEF PopDummy
  <2>2. CASE PopNoEntry(i) \/ DepsDone(i) \/ ParseGone(i) \/ ParseCrash(i) \/ StoreDone(i)
    <3>1. Finish(i)
      BY <2>2 DEF PopNoEntry, DepsDone, ParseGone, ParseCrash, StoreDone
    <3>2. QED
      BY <3>1, <2>0
  <2>3. CASE Pop(i)
    BY <1>1, <2>3 DEF Pop, IdleWorker
  <2>4. CASE Stamp(i)
    <3>1. \/ Finish(i)
          \/ \E r : worker' = [worker EXCEPT ![i] = ToParse([w EXCEPT !.reparse = r])]
          \/ \E r : worker' = [worker EXCEPT ![i] = [w EXCEPT !.pc = "cache", !.reparse = r]]
      BY <2>4 DEF Stamp
    <3>2. ASSUME NEW r, worker' = [worker EXCEPT ![i] = ToParse([w EXCEPT !.reparse = r])]
          PROVE  worker'[i].pc \in {"parse", "store"}
      <4>1. worker'[i] = ToParse([w EXCEPT !.reparse = r])
        BY <1>1, <3>2
      <4>2. QED
        BY <1>1, <4>1 DEF ToParse, WorkerType
    <3>3. ASSUME NEW r,
                 worker' = [worker EXCEPT ![i] = [w EXCEPT !.pc = "cache", !.reparse = r]]
          PROVE  worker'[i].pc = "cache"
      BY <1>1, <3>3 DEF WorkerType
    <3>4. QED
      BY <2>0, <3>1, <3>2, <3>3
  <2>5. CASE DepStamp(i)
    <3>1. PICK d \in w.deps :
            worker' = [worker EXCEPT ![i].deps = @ \ {d},
                         ![i].pc = IF CanStamp(d, w.prev.deps[d], 1) THEN "depload" ELSE @,
                         ![i].file = d]
      BY <2>5 DEF DepStamp
    <3> DEFINE can == CanStamp(d, w.prev.deps[d], 1)
    <3>2. worker' = [worker EXCEPT ![i].deps = @ \ {d}, ![i].pc = IF can THEN "depload" ELSE @,
                       ![i].file = d]
      BY <3>1
    <3>3. w.pc = "deps"
      BY <2>5 DEF DepStamp
    <3> HIDE DEF can
    <3>4. worker'[i].pc = IF can THEN "depload" ELSE w.pc
      BY <1>1, <3>2 DEF WorkerType
    <3>5. QED
      BY <3>3, <3>4, SMTT(30)
  <2>6. CASE SeenFile(i) \/ ParseEnd(i)
    <3>1. CASE ParseEnd(i)
      BY <1>1, <3>1 DEF ParseEnd, WorkerType
    <3>2. CASE SeenFile(i)
      <4>1. PICK t, f, time, c : worker' = [worker EXCEPT ![i].todo = t, ![i].seen[f] = time,
                                              ![i].claims = c]
        BY <1>1, <3>2 DEF SeenFile
      <4>2. w.pc = "parse"
        BY <3>2 DEF SeenFile
      <4>3. worker'[i].pc = w.pc
        BY <1>1, <4>1, SMTT(30) DEF WorkerType
      <4>4. QED
        BY <4>2, <4>3
    <3>3. QED
      BY <2>6, <3>1, <3>2
  <2>7. QED
    BY <2>1, <2>2, <2>3, <2>4, <2>5, <2>6
<1>7. \A j \in Indexers \ {i} : worker'[j] = worker[j]
  BY <1>1 DEF PopDummy, PopNoEntry, Pop, Stamp, DepStamp, DepsDone, SeenFile, ParseEnd, ParseGone,
         ParseCrash, StoreDone, Finish
<1>8. QED
  BY <1>5, <1>6, <1>7, ChainKept DEF Holds

(* Loading a cached index: the check, the load of the file itself and that  *)
(* of a dependency.                                                         *)
LEMMA CacheSteps ==
  ASSUME TypeOK, TypeOK', Parsing, Chained, CacheIsLastPushed, InTurn, NEW i \in Indexers,
         CacheCheck(i) \/ CacheLoad(i) \/ DepLoad(i)
  PROVE  Chained' /\ CacheIsLastPushed'
<1> DEFINE w == worker[i]
<1>1. /\ worker \in [Indexers -> WorkerType] /\ w \in WorkerType /\ Locals(w)
      /\ vfs \in [Files -> FileState] /\ file_mutex \in [Files -> Indexers \cup {NoPath}]
  BY SMTT(30) DEF TypeOK, Parsing, CacheType
<1>2. \A j \in Indexers \ {i} : worker'[j] = worker[j]
  BY <1>1 DEF CacheCheck, CacheLoad, DepLoad, Finish
<1>3. UNCHANGED <<g_index, disk_cache, applied>>
  BY Zenon DEF CacheCheck, CacheLoad, DepLoad, mainVars
<1>4. \A g \in Files : Cached(g)' = Cached(g)
  BY <1>3, FileUnchanged
<1>5. \A g \in Files : vfs[g].loaded \in Nat
  BY <1>1 DEF FileState
<1>6. CASE CacheCheck(i)
  <2>1. PICK f \in Files : f = w.req.path /\ file_mutex[f] = NoPath
    BY <1>1, <1>6 DEF CacheCheck, Locals
  <2> DEFINE prev == RawCacheLoad(f)
  <2>2. UNCHANGED <<vfs, on_indexed>>
    BY <1>6 DEF CacheCheck
  <2>3. \A g \in Files : LastPushed(g)' = LastPushed(g) /\ vfs'[g].loaded = vfs[g].loaded
    BY <1>3, <2>2, FileUnchanged
  <2>4. \/ UNCHANGED file_mutex /\ worker' = [worker EXCEPT ![i] = IdleWorker]
        \/ UNCHANGED file_mutex /\ worker' = [worker EXCEPT ![i] = ToParse(w)]
        \/ /\ worker' = [worker EXCEPT ![i].pc = "load", ![i].prev = prev]
           /\ file_mutex' = [file_mutex EXCEPT ![f] = i]
           /\ vfs[f].loaded = 0
    BY <1>6, <2>1 DEF CacheCheck, Finish
  <2>5. ASSUME UNCHANGED file_mutex, ~Holds(worker'[i])
        PROVE  Chained' /\ CacheIsLastPushed'
    <3>1. \A g \in Files : SameFile(g)
      BY <1>4, <2>3, <2>5 DEF SameFile
    <3>2. QED
      BY <1>2, <2>5, <3>1, ChainKept
  <2>6. CASE UNCHANGED file_mutex /\ worker' = [worker EXCEPT ![i] = IdleWorker]
    <3>1. worker'[i] = IdleWorker
      BY <1>1, <2>6
    <3>2. ~Holds(worker'[i])
      BY <3>1 DEF Holds, IdleWorker
    <3>3. QED
      BY <2>5, <2>6, <3>2
  <2>7. CASE UNCHANGED file_mutex /\ worker' = [worker EXCEPT ![i] = ToParse(w)]
    <3>1. worker'[i] = ToParse(w)
      BY <1>1, <2>7
    <3>2. ~Holds(worker'[i])
      BY <1>1, <3>1 DEF Holds, ToParse, WorkerType
    <3>3. QED
      BY <2>5, <2>7, <3>2
  <2>8. CASE /\ worker' = [worker EXCEPT ![i].pc = "load", ![i].prev = prev]
             /\ file_mutex' = [file_mutex EXCEPT ![f] = i]
             /\ vfs[f].loaded = 0
    <3> DEFINE v == worker'[i]
    <3>1. v.pc = "load" /\ v.prev = prev /\ v.req = w.req
      <4> HIDE DEF prev
      <4>1. QED
        BY <1>1, <2>8 DEF WorkerType
    <3>2. file_mutex'[f] = i /\ \A g \in Files \ {f} : file_mutex'[g] = file_mutex[g]
      BY <1>1, <2>1, <2>8
    <3>3. \A g \in Files \ {f} : SameFile(g)
      BY <1>4, <2>3, <3>2 DEF SameFile
    <3>4. LastPushed(f) = EmptyIndex
      BY <2>1, <2>8 DEF CacheIsLastPushed
    <3>5. Link(v, f, vfs'[f].loaded, Cached(f)', LastPushed(f)')
      <4>1. vfs'[f].loaded = 0 /\ LastPushed(f)' = EmptyIndex /\ Cached(f)' = Cached(f)
        BY <1>4, <2>1, <2>3, <2>8, <3>4
      <4>2. Cached(f) = Data(v.prev)
        BY <3>1 DEF Cached
      <4>3. QED
        BY <3>1, <4>1, <4>2, Zenon DEF Link
    <3>6. f = HeldFile(v) /\ file_mutex'[f] # NoPath
      BY <2>1, <3>1, <3>2, Facts DEF HeldFile
    <3> HIDE DEF v, prev
    <3>7. QED
      BY <1>2, <2>1, <3>2, <3>3, <3>5, <3>6, ChainFrame DEF v
  <2>9. QED
    BY <2>4, <2>6, <2>7, <2>8
<1>7. CASE CacheLoad(i)
  <2>1. PICK f \in Files : f = w.req.path
    BY <1>1, <1>7 DEF CacheLoad, Locals
  <2>0. w.pc = "load" /\ w.prev \in IndexFiles /\ w.prev # NoIndex
    BY <1>1, <1>7 DEF CacheLoad, Locals, WorkerType
  <2> DEFINE u == Update(f, NoIndex, w.prev)
  <2>2. /\ file_mutex[f] = i /\ vfs[f].loaded = 0 /\ Cached(f) = Data(w.prev)
    <3>1. Holds(w) /\ HeldFile(w) = f
      BY <2>0, <2>1 DEF Holds, HeldFile
    <3>2. /\ file_mutex[f] = i
          /\ Link(w, f, vfs[f].loaded, Cached(f), LastPushed(f))
      BY <3>1 DEF Chained, Linked
    <3>3. QED
      BY <2>0, <3>2 DEF Link
  <2>3. u \in Updates /\ u.path = f /\ u.curr = w.prev.data
    BY <2>0, UpdateProperties
  <2>4. Interactive(w.req) \in BOOLEAN /\ on_indexed' = PushBack(on_indexed, u, Interactive(w.req))
    BY <1>7, <2>1 DEF CacheLoad, Interactive
  <2>5. \A g \in Files : LastPushed(g)' = IF f = g THEN w.prev.data ELSE LastPushed(g)
    <3> HIDE DEF u
    <3>1. QED
      BY <1>3, <2>3, <2>4, PushInTurn
  <2>6. \A g \in Files : vfs'[g].loaded = IF f = g THEN vfs[g].loaded + 1 ELSE vfs[g].loaded
    <3>1. PICK step : vfs' = [vfs EXCEPT ![f].loaded = @ + 1, ![f].step = step]
      BY <1>1, <1>7, <2>1 DEF CacheLoad
    <3>2. QED
      BY <1>1, <2>1, <3>1, SMTT(30) DEF FileState
  <2>7. file_mutex'[f] = NoPath /\ \A g \in Files \ {f} : file_mutex'[g] = file_mutex[g]
    BY <1>1, <1>7, <2>1 DEF CacheLoad, Release
  <2>8. ~Holds(worker'[i])
    <3>1. PICK deps : worker' = [worker EXCEPT ![i].pc = "deps", ![i].deps = deps]
      BY <1>7 DEF CacheLoad
    <3>2. worker'[i].pc = "deps"
      BY <1>1, <3>1 DEF WorkerType
    <3>3. QED
      BY <3>2 DEF Holds
  <2> HIDE DEF u
  <2>9. \A g \in Files \ {f} : SameFile(g)
    BY <1>4, <2>5, <2>6, <2>7 DEF SameFile
  <2>10. LastPushed(f)' = IF vfs'[f].loaded > 0 THEN Cached(f)' ELSE EmptyIndex
    <3>1. vfs'[f].loaded > 0
      BY <1>5, <2>1, <2>6
    <3>2. LastPushed(f)' = Data(w.prev)
      BY <2>0, <2>5 DEF Data
    <3>3. QED
      BY <1>4, <2>1, <2>2, <3>1, <3>2
  <2>11. QED
    BY <1>2, <2>1, <2>2, <2>8, <2>9, <2>10, ChainFrame
<1>8. CASE DepLoad(i)
  <2>1. PICK d \in Files : d = w.file /\ file_mutex[d] = NoPath /\ UNCHANGED file_mutex
    BY <1>1, <1>8 DEF DepLoad, Locals
  <2> DEFINE prev == RawCacheLoad(d)
             load == prev # NoIndex /\ vfs[d].loaded = 0
             u == Update(d, NoIndex, prev)
  <2>2. ~Holds(worker'[i])
    <3>1. worker' = [worker EXCEPT ![i].pc = "deps", ![i].file = NoPath]
      BY <1>8 DEF DepLoad
    <3>2. worker'[i].pc = "deps"
      BY <1>1, <3>1 DEF WorkerType
    <3>3. QED
      BY <3>2 DEF Holds
  <2>3. CASE ~load
    <3>1. UNCHANGED <<vfs, on_indexed>>
      BY <1>8, <2>1, <2>3 DEF DepLoad
    <3>2. \A g \in Files : SameFile(g)
      BY <1>3, <1>4, <2>1, <3>1, FileUnchanged DEF SameFile
    <3>3. QED
      BY <1>2, <2>2, <3>2, ChainKept
  <2>4. CASE load
    <3>1. prev \in IndexFiles /\ prev # NoIndex
      BY <2>1, <2>4, RawCacheLoadType DEF TypeOK
    <3>2. u \in Updates /\ u.path = d /\ u.curr = prev.data
      BY <2>1, <3>1, UpdateProperties
    <3>3. Interactive(w.req) \in BOOLEAN /\ on_indexed' = PushBack(on_indexed, u, Interactive(w.req))
      BY <1>8, <2>1, <2>4 DEF DepLoad, Interactive
    <3>4. \A g \in Files : LastPushed(g)' = IF d = g THEN prev.data ELSE LastPushed(g)
      <4> HIDE DEF u, prev
      <4>1. QED
        BY <1>3, <3>2, <3>3, PushInTurn
    <3>5. \A g \in Files : vfs'[g].loaded = IF d = g THEN vfs[g].loaded + 1 ELSE vfs[g].loaded
      <4>1. PICK time, step : vfs' = [vfs EXCEPT ![d].loaded = @ + 1, ![d].timestamp = time,
                                                 ![d].step = step]
        BY <1>1, <1>8, <2>1, <2>4, ZenonT(30) DEF DepLoad
      <4>2. QED
        BY <1>1, <2>1, <4>1 DEF FileState
    <3>6. Cached(d) = prev.data
      BY <3>1 DEF Cached, Data
    <3> HIDE DEF u, prev, load
    <3>7. \A g \in Files \ {d} : SameFile(g)
      BY <1>4, <2>1, <3>4, <3>5 DEF SameFile
    <3>8. LastPushed(d)' = IF vfs'[d].loaded > 0 THEN Cached(d)' ELSE EmptyIndex
      <4>1. vfs'[d].loaded > 0
        BY <1>5, <2>1, <3>5
      <4>2. QED
        BY <1>4, <2>1, <3>4, <3>6, <4>1
    <3>9. QED
      BY <1>2, <2>1, <2>2, <3>7, <3>8, ChainFrame
  <2>5. QED
    BY <2>3, <2>4
<1>9. QED
  BY <1>6, <1>7, <1>8

(* Storing a claimed file: its chain passes from the cache to the indexer,  *)
(* through both caches and the queue, and back.                             *)
LEMMA StoreSteps ==
  ASSUME TypeOK, TypeOK', Parsing, InMemory, Chained, CacheIsLastPushed, InTurn,
         NEW i \in Indexers,
         StoreRead(i) \/ StoreWrite(i) \/ StorePush(i) \/ StoreCount(i)
  PROVE  Chained' /\ CacheIsLastPushed'
<1> DEFINE w == worker[i]
<1>1. /\ worker \in [Indexers -> WorkerType] /\ w \in WorkerType /\ Locals(w)
      /\ vfs \in [Files -> FileState] /\ file_mutex \in [Files -> Indexers \cup {NoPath}]
      /\ g_index \in [Files -> IndexFiles \cup {NoIndex}]
      /\ disk_cache \in [Files -> IndexFiles \cup {NoIndex}]
  BY DEF TypeOK, Parsing, CacheType
<1>2. \A j \in Indexers \ {i} : worker'[j] = worker[j]
  BY <1>1 DEF StoreRead, StoreWrite, StorePush, StoreCount
<1>3. UNCHANGED applied
  BY DEF StoreRead, StoreWrite, StorePush, StoreCount, mainVars
<1>4. \A g \in Files : vfs[g].loaded \in Nat
  BY <1>1 DEF FileState
<1>5. w.claims \in SUBSET Files
  BY <1>1 DEF WorkerType
<1>6. CASE StoreRead(i)
  <2>1. PICK f \in w.claims :
          /\ file_mutex[f] = NoPath
          /\ file_mutex' = [file_mutex EXCEPT ![f] = i]
          /\ worker' = [worker EXCEPT ![i].pc = "write", ![i].file = f,
                          ![i].prev = DeltaBase(f), ![i].retained = Retained(f)]
    BY <1>6 DEF StoreRead
  <2>2. f \in Files /\ UNCHANGED <<vfs, g_index, disk_cache, on_indexed>>
    BY <1>5, <1>6, <2>1 DEF StoreRead
  <2>3. \A g \in Files : /\ LastPushed(g)' = LastPushed(g) /\ vfs'[g].loaded = vfs[g].loaded
                         /\ Cached(g)' = Cached(g)
    BY <1>3, <2>2, FileUnchanged
  <2>4. file_mutex'[f] = i /\ \A g \in Files \ {f} : file_mutex'[g] = file_mutex[g]
    BY <1>1, <2>1, <2>2
  <2>5. \A g \in Files \ {f} : SameFile(g)
    BY <2>3, <2>4 DEF SameFile
  <2> DEFINE base == DeltaBase(f)
             take == Retained(f)
             v == worker'[i]
  <2>6. v.pc = "write" /\ v.file = f /\ v.prev = base /\ v.retained = take
    <3> HIDE DEF base, take
    <3>1. worker' = [worker EXCEPT ![i].pc = "write", ![i].file = f, ![i].prev = base,
                                   ![i].retained = take]
      BY <2>1 DEF base, take
    <3>2. QED
      BY <1>1, <3>1 DEF WorkerType
  <2>7. LastPushed(f) = Data(base)
    <3>1. LastPushed(f) = IF vfs[f].loaded > 0 THEN Data(RawCacheLoad(f)) ELSE EmptyIndex
      BY <2>1, <2>2 DEF CacheIsLastPushed
    <3>2. QED
      BY <3>1 DEF DeltaBase, Data
  <2>8. take <=> (Retain > 0 /\ Retain <= vfs[f].loaded + 1)
    BY DEF Retained
  <2> HIDE DEF base, take
  <2>9. Link(v, f, vfs'[f].loaded, Cached(f)', LastPushed(f)')
    <3>1. LastPushed(f)' = Data(v.prev)
      BY <2>2, <2>3, <2>6, <2>7
    <3>2. v.retained <=> (Retain > 0 /\ Retain <= vfs'[f].loaded + 1)
      BY <2>2, <2>3, <2>6, <2>8
    <3>3. LastPushed(f)' = IF vfs'[f].loaded > 0 THEN Cached(f)' ELSE EmptyIndex
      BY <2>1, <2>2, <2>3, Zenon DEF CacheIsLastPushed, Cached
    <3>4. QED
      BY <2>6, <3>1, <3>2, <3>3 DEF Link
  <2>10. f = HeldFile(v) /\ file_mutex'[f] # NoPath
    BY <2>4, <2>6, Facts DEF HeldFile
  <2> HIDE DEF v
  <2>11. QED
    BY <1>2, <2>1, <2>2, <2>4, <2>5, <2>9, <2>10, ChainFrame DEF v
<1>7. ASSUME w.pc \in {"write", "push", "count"}
      PROVE  \E f \in Files : /\ f = w.file /\ f \in w.claims /\ file_mutex[f] = i
                              /\ Link(w, f, vfs[f].loaded, Cached(f), LastPushed(f))
  <2>1. Holds(w) /\ HeldFile(w) = w.file /\ w.file \in w.claims
    BY <1>1, <1>7 DEF Holds, HeldFile, Locals
  <2>2. QED
    BY <2>1 DEF Chained, Linked
<1>8. CASE StoreWrite(i)
  <2>1. w.pc = "write"
    BY <1>8 DEF StoreWrite
  <2>2. PICK f \in Files : /\ f = w.file /\ f \in w.claims /\ file_mutex[f] = i
                           /\ Link(w, f, vfs[f].loaded, Cached(f), LastPushed(f))
    BY <1>7, <2>1
  <2> DEFINE made == MadeIndex(w, f)
             v == worker'[i]
  <2>3. /\ UNCHANGED <<vfs, on_indexed, file_mutex>>
        /\ g_index' = IF w.retained THEN [g_index EXCEPT ![f] = made] ELSE g_index
        /\ disk_cache' = IF ~HasCacheDir THEN disk_cache
                         ELSE [disk_cache EXCEPT ![f] = IF w.deleted THEN NoIndex ELSE made]
    BY <1>8, <2>2 DEF StoreWrite
  <2>4. made \in IndexFiles
    <3>1. w.deleted \/ w.seen[f] # 0
      BY <1>1, <2>2 DEF Locals
    <3>2. QED
      BY <1>1, <3>1, MadeIndexType
  <2>5. w.deleted => made.data = EmptyIndex
    BY DEF MadeIndex, DeletedIndex
  <2>6. \A g \in Files : LastPushed(g)' = LastPushed(g) /\ vfs'[g].loaded = vfs[g].loaded
    BY <1>3, <2>3, FileUnchanged
  <2>7. v.pc = "push" /\ v.file = f /\ v.prev = w.prev /\ MadeIndex(v, f) = made
    <3>1. worker' = [worker EXCEPT ![i].pc = "push"]
      BY <1>8 DEF StoreWrite
    <3>2. /\ v.pc = "push" /\ v.file = f /\ v.prev = w.prev /\ v.deleted = w.deleted
          /\ v.seen = w.seen /\ v.req = w.req
      BY <1>1, <2>2, <3>1 DEF WorkerType
    <3>3. QED
      BY <3>2, Zenon DEF MadeIndex
  <2>8. w.retained <=> (Retain > 0 /\ Retain <= vfs[f].loaded + 1)
    BY <2>1, <2>2 DEF Link
  <2>9. LastPushed(f) = Data(w.prev)
    BY <2>1, <2>2 DEF Link
  <2> HIDE DEF made
  <2>10. Cached(f)' = made.data
    <3>1. CASE w.retained
      <4>1. g_index'[f] = made /\ made # NoIndex /\ Retain > 0
        BY <1>1, <2>3, <2>4, <2>8, <3>1, NoIndexAssumption
      <4>2. QED
        BY <4>1 DEF Cached, RawCacheLoad, Data
    <3>2. CASE ~w.retained
      <4>1. ~(Retain > 0 /\ g_index[f] # NoIndex)
        BY <1>4, <2>8, <3>2 DEF InMemory
      <4>2. HasCacheDir
        BY <1>4, <2>8, <3>2, CacheAssumption
      <4>3. g_index' = g_index /\ disk_cache'[f] = IF w.deleted THEN NoIndex ELSE made
        BY <1>1, <2>3, <3>2, <4>2
      <4>4. Cached(f)' = Data(disk_cache'[f])
        BY <4>1, <4>2, <4>3 DEF Cached, RawCacheLoad, Data
      <4>5. QED
        BY <2>4, <2>5, <4>3, <4>4, NoIndexAssumption DEF Data
    <3>3. QED
      BY <3>1, <3>2
  <2>11. \A g \in Files \ {f} : SameFile(g)
    <3>1. \A g \in Files \ {f} : g_index'[g] = g_index[g] /\ disk_cache'[g] = disk_cache[g]
      BY <1>1, <2>3
    <3>2. \A g \in Files \ {f} : Cached(g)' = Cached(g)
      BY <3>1 DEF Cached, RawCacheLoad, Data
    <3>3. QED
      BY <2>3, <2>6, <3>2 DEF SameFile
  <2>12. Link(v, f, vfs'[f].loaded, Cached(f)', LastPushed(f)')
    <3>1. LastPushed(f)' = Data(v.prev) /\ Cached(f)' = MadeIndex(v, f).data
      BY <2>6, <2>7, <2>9, <2>10
    <3>2. QED
      BY <2>7, <3>1 DEF Link
  <2>13. f = HeldFile(v) /\ file_mutex'[f] = i /\ file_mutex'[f] # NoPath
    BY <2>2, <2>3, <2>7, Facts DEF HeldFile
  <2> HIDE DEF v
  <2>14. QED
    BY <1>2, <2>2, <2>11, <2>12, <2>13, ChainFrame DEF v
<1>9. CASE StorePush(i)
  <2>1. w.pc = "push"
    BY <1>9 DEF StorePush
  <2>2. PICK f \in Files : /\ f = w.file /\ f \in w.claims /\ file_mutex[f] = i
                           /\ Link(w, f, vfs[f].loaded, Cached(f), LastPushed(f))
    BY <1>7, <2>1
  <2> DEFINE made == MadeIndex(w, f)
             u == Update(f, w.prev, made)
             v == worker'[i]
  <2>3. /\ UNCHANGED <<vfs, g_index, disk_cache, file_mutex>>
        /\ on_indexed' = PushBack(on_indexed, u, Interactive(w.req))
    BY <1>9, <2>2 DEF StorePush, indexerVars
  <2>4. made \in IndexFiles /\ w.prev \in IndexFiles \cup {NoIndex}
    <3>1. w.deleted \/ w.seen[f] # 0
      BY <1>1, <2>2 DEF Locals
    <3>2. QED
      BY <1>1, <3>1, MadeIndexType DEF WorkerType
  <2>5. Cached(f) = made.data
    BY <2>1, <2>2 DEF Link
  <2> HIDE DEF made
  <2>6. u \in Updates /\ u.path = f /\ u.curr = made.data
    BY <2>4, UpdateProperties
  <2>7. \A g \in Files : LastPushed(g)' = IF f = g THEN made.data ELSE LastPushed(g)
    <3> HIDE DEF u
    <3>1. Interactive(w.req) \in BOOLEAN
      BY DEF Interactive
    <3>2. QED
      BY <1>3, <2>3, <2>6, <3>1, PushInTurn
  <2>8. \A g \in Files : Cached(g)' = Cached(g) /\ vfs'[g].loaded = vfs[g].loaded
    BY <2>3, FileUnchanged
  <2>9. v.pc = "count" /\ v.file = f
    <3>1. worker' = [worker EXCEPT ![i].pc = "count"]
      BY <1>9 DEF StorePush
    <3>2. QED
      BY <1>1, <2>2, <3>1 DEF WorkerType
  <2>10. \A g \in Files \ {f} : SameFile(g)
    BY <2>3, <2>7, <2>8 DEF SameFile
  <2>11. Link(v, f, vfs'[f].loaded, Cached(f)', LastPushed(f)')
    <3>1. LastPushed(f)' = Cached(f)'
      BY <2>5, <2>7, <2>8
    <3>2. QED
      BY <2>9, <3>1 DEF Link
  <2>12. f = HeldFile(v) /\ file_mutex'[f] = i /\ file_mutex'[f] # NoPath
    BY <2>2, <2>3, <2>9, Facts DEF HeldFile
  <2> HIDE DEF v
  <2>13. QED
    BY <1>2, <2>2, <2>10, <2>11, <2>12, ChainFrame DEF v
<1>10. CASE StoreCount(i)
  <2>1. w.pc = "count"
    BY <1>10 DEF StoreCount
  <2>2. PICK f \in Files : /\ f = w.file /\ f \in w.claims /\ file_mutex[f] = i
                           /\ Link(w, f, vfs[f].loaded, Cached(f), LastPushed(f))
    BY <1>7, <2>1
  <2>3. /\ UNCHANGED <<on_indexed, g_index, disk_cache>> /\ vfs' = Counted(f)
        /\ file_mutex' = [file_mutex EXCEPT ![f] = NoPath]
    BY <1>10, <2>2 DEF StoreCount, Release
  <2>4. LastPushed(f) = Cached(f)
    BY <2>1, <2>2 DEF Link
  <2>5. \A g \in Files : /\ LastPushed(g)' = LastPushed(g) /\ Cached(g)' = Cached(g)
                         /\ vfs'[g].loaded = IF f = g THEN vfs[g].loaded + 1 ELSE vfs[g].loaded
    BY <1>3, <2>3, FileUnchanged
  <2>6. \A g \in Files \ {f} : SameFile(g)
    BY <1>1, <2>3, <2>5 DEF SameFile
  <2>7. ~Holds(worker'[i])
    <3>1. PICK claims : worker' = [worker EXCEPT ![i].pc = "store", ![i].file = NoPath,
                                     ![i].claims = claims, ![i].prev = NoIndex]
      BY <1>1, <1>10 DEF StoreCount
    <3>2. worker'[i].pc = "store"
      BY <1>1, <3>1 DEF WorkerType
    <3>3. QED
      BY <3>2 DEF Holds
  <2>8. LastPushed(f)' = IF vfs'[f].loaded > 0 THEN Cached(f)' ELSE EmptyIndex
    BY <1>4, <2>4, <2>5
  <2>9. QED
    BY <1>2, <2>2, <2>6, <2>7, <2>8, ChainFrame
<1>11. QED
  BY <1>6, <1>8, <1>9, <1>10

(* What is in memory agrees with the cache directory and is replaced by the *)
(* next store.                                                              *)
LEMMA NextInMemory ==
  ASSUME TypeOK, TypeOK', Parsing, InMemory, Chained, [Next /\ Undisturbed]_vars
  PROVE  InMemory'
<1>1. /\ vfs \in [Files -> FileState] /\ g_index \in [Files -> IndexFiles \cup {NoIndex}]
      /\ disk_cache \in [Files -> IndexFiles \cup {NoIndex}]
      /\ vfs' \in [Files -> FileState]
  BY DEF TypeOK, CacheType
<1>2. \A f \in Files : vfs[f].loaded \in Nat /\ vfs'[f].loaded \in Nat
  BY <1>1 DEF FileState
<1>3. ASSUME UNCHANGED <<g_index, disk_cache>>,
             \A f \in Files : vfs'[f].loaded >= vfs[f].loaded
      PROVE  InMemory'
  <2>1. SUFFICES ASSUME NEW f \in Files, g_index[f] # NoIndex
                 PROVE  /\ Retain > 0 /\ Retain <= vfs'[f].loaded + 1
                        /\ HasCacheDir => Data(g_index[f]) = Data(disk_cache[f])
    BY <1>3 DEF InMemory, Data
  <2>2. Retain <= vfs[f].loaded + 1 /\ Retain \in Int /\ vfs'[f].loaded >= vfs[f].loaded
    BY <1>3, <2>1, ConfigAssumption DEF InMemory
  <2>3. QED
    BY <1>2, <2>1, <2>2 DEF InMemory
<1>4. CASE UNCHANGED <<vfs, g_index, disk_cache>>
  BY <1>2, <1>3, <1>4
<1>5. CASE \E i \in Indexers : Indexer(i)
  <2>1. PICK i \in Indexers : Indexer(i)
    BY <1>5
  <2> DEFINE w == worker[i]
  <2>2. w \in WorkerType /\ Locals(w)
    BY DEF TypeOK, Parsing
  <2>3. ASSUME NEW f \in Files, NEW ts, NEW step, vfs' = Stamped(f, ts, step),
               UNCHANGED <<g_index, disk_cache>>
        PROVE  InMemory'
    <3>1. \A g \in Files : vfs'[g].loaded = vfs[g].loaded
      BY <2>3, FileUnchanged, SMTT(30)
    <3>2. QED
      BY <1>2, <1>3, <2>3, <3>1
  <2>4. CASE \/ PopDummy(i) \/ PopNoEntry(i) \/ Pop(i) \/ CacheCheck(i) \/ DepsDone(i)
             \/ ParseEnd(i) \/ ParseGone(i) \/ ParseCrash(i)
             \/ StoreRead(i) \/ StorePush(i) \/ StoreDone(i)
    BY <1>4, <2>4 DEF PopDummy, PopNoEntry, Pop, CacheCheck, DepsDone, ParseEnd, ParseGone,
                ParseCrash, StoreRead, StorePush, StoreDone, indexerVars
  <2>5. CASE Stamp(i)
    <3>1. w.req.path \in Files
      BY <2>2, <2>5 DEF Stamp, Locals
    <3>2. QED
      BY <1>4, <2>3, <2>5, <3>1 DEF Stamp
  <2>6. CASE DepStamp(i)
    <3>1. w.deps \in SUBSET Files
      BY <2>2 DEF WorkerType
    <3>2. QED
      BY <2>3, <2>6, <3>1 DEF DepStamp
  <2>7. CASE SeenFile(i)
    <3>1. Head(w.todo) \in Files
      BY <2>7, SeenFileLocals
    <3>2. QED
      BY <1>4, <2>3, <2>7, <3>1 DEF SeenFile
  <2>8. CASE CacheLoad(i)
    <3>1. PICK f \in Files : \E step :
            vfs' = [vfs EXCEPT ![f].loaded = @ + 1, ![f].step = step]
      BY <1>1, <2>2, <2>8 DEF CacheLoad, Locals
    <3>2. \A g \in Files : vfs'[g].loaded = IF f = g THEN vfs[g].loaded + 1 ELSE vfs[g].loaded
      BY <1>1, <3>1 DEF FileState
    <3>3. UNCHANGED <<g_index, disk_cache>>
      BY <2>8 DEF CacheLoad
    <3>4. QED
      BY <1>2, <1>3, <3>2, <3>3, SMTT(30)
  <2>9. CASE DepLoad(i)
    <3>1. UNCHANGED <<g_index, disk_cache>>
      BY <2>9 DEF DepLoad
    <3>2. CASE vfs' = vfs
      BY <1>4, <3>1, <3>2
    <3>3. CASE vfs' # vfs
      <4>1. PICK f \in Files : \E time, step :
              vfs' = [vfs EXCEPT ![f].loaded = @ + 1, ![f].timestamp = time, ![f].step = step]
        BY <1>1, <2>2, <2>9, <3>3 DEF DepLoad, Locals
      <4>2. \A g \in Files : vfs'[g].loaded = IF f = g THEN vfs[g].loaded + 1 ELSE vfs[g].loaded
        BY <1>1, <4>1 DEF FileState
      <4>3. QED
        BY <1>2, <1>3, <3>1, <4>2, SMTT(30)
    <3>4. QED
      BY <3>2, <3>3
  <2>10. CASE StoreCount(i)
    <3>1. PICK f \in Files : vfs' = Counted(f)
      BY <2>2, <2>10 DEF StoreCount, Locals, WorkerType
    <3>2. \A g \in Files : vfs'[g].loaded = IF f = g THEN vfs[g].loaded + 1 ELSE vfs[g].loaded
      BY <3>1, FileUnchanged
    <3>3. QED
      BY <1>2, <1>3, <2>10, <3>2 DEF StoreCount
  <2>11. CASE StoreWrite(i)
    <3>1. PICK f \in Files : f = w.file /\ f \in w.claims
      BY <2>2, <2>11 DEF StoreWrite, Locals, WorkerType
    <3> DEFINE made == MadeIndex(w, f)
    <3>2. /\ UNCHANGED vfs
          /\ g_index' = IF w.retained THEN [g_index EXCEPT ![f] = made] ELSE g_index
          /\ disk_cache' = IF ~HasCacheDir THEN disk_cache
                           ELSE [disk_cache EXCEPT ![f] = IF w.deleted THEN NoIndex ELSE made]
      BY <2>11, <3>1 DEF StoreWrite
    <3>3. w.retained <=> (Retain > 0 /\ Retain <= vfs[f].loaded + 1)
      <4>1. w.pc = "write" /\ Holds(w) /\ HeldFile(w) = f
        BY <2>11, <3>1 DEF StoreWrite, Holds, HeldFile
      <4>2. Link(w, f, vfs[f].loaded, Cached(f), LastPushed(f))
        BY <4>1 DEF Chained, Linked
      <4>3. QED
        BY <4>1, <4>2 DEF Link
    <3>4. w.deleted => made.data = EmptyIndex
      BY DEF MadeIndex, DeletedIndex
    <3> HIDE DEF made
    <3>5. SUFFICES ASSUME NEW g \in Files, g_index'[g] # NoIndex
                   PROVE  /\ Retain > 0 /\ Retain <= vfs'[g].loaded + 1
                          /\ HasCacheDir => Data(g_index'[g]) = Data(disk_cache'[g])
      BY DEF InMemory, Data
    <3>6. CASE g # f
      <4>1. g_index'[g] = g_index[g] /\ disk_cache'[g] = disk_cache[g] /\ vfs' = vfs
        BY <1>1, <3>2, <3>6
      <4>2. QED
        BY <3>5, <4>1 DEF InMemory
    <3>7. CASE g = f /\ w.retained
      <4>1. g_index'[f] = made /\ Retain > 0 /\ Retain <= vfs'[f].loaded + 1
        BY <1>1, <3>2, <3>3, <3>7
      <4>2. HasCacheDir => disk_cache'[f] = IF w.deleted THEN NoIndex ELSE made
        BY <1>1, <3>2
      <4>3. QED
        BY <3>4, <3>7, <4>1, <4>2 DEF Data
    <3>8. CASE g = f /\ ~w.retained
      <4>1. g_index[f] # NoIndex
        BY <3>2, <3>5, <3>8
      <4>2. Retain <= vfs[f].loaded + 1 /\ ~(Retain > 0)
        BY <3>3, <3>8, <4>1 DEF InMemory
      <4>3. QED
        BY <4>2, <4>1 DEF InMemory
    <3>9. QED
      BY <3>6, <3>7, <3>8
  <2>12. QED
    BY <2>1, <2>4, <2>5, <2>6, <2>7, <2>8, <2>9, <2>10, <2>11 DEF Indexer
<1>6. CASE OnIndexed
  BY <1>4, <1>6 DEF OnIndexed, indexerVars
<1>7. CASE \E f \in Files : \/ Edit(f) \/ Remove(f) \/ DidSave(f)
                            \/ DidChangeWatchedFiles(f) \/ DidOpen(f)
  BY <1>4, <1>7 DEF Edit, Remove, DidSave, DidChangeWatchedFiles, DidOpen,
                    unchangedByClient
<1>8. ASSUME NEW f \in Files, DidClose(f) PROVE InMemory'
  <2>1. /\ UNCHANGED <<vfs, disk_cache>>
        /\ g_index' = g_index \/ g_index' = [g_index EXCEPT ![f] = NoIndex]
    BY <1>8 DEF DidClose
  <2>2. \A g \in Files : g_index'[g] # NoIndex => g_index'[g] = g_index[g]
    BY <1>1, <2>1
  <2>3. QED
    BY <2>1, <2>2 DEF InMemory, Data
<1>9. CASE DidChangeConfiguration
  BY <1>4, <1>9 DEF DidChangeConfiguration, unchangedByClient
<1>10. CASE Reload /\ Retain <= 1
  <2>1. UNCHANGED <<g_index, disk_cache>>
    BY <1>10 DEF Reload
  <2>2. \A f \in Files : Retain <= vfs'[f].loaded + 1
    BY <1>2, <1>10, ConfigAssumption
  <2>3. QED
    BY <2>1, <2>2 DEF InMemory, Data
<1>11. CASE CleanRestart \/ Crash
  BY <1>11 DEF CleanRestart, Crash, Restart, InMemory
<1>12. CASE UNCHANGED vars
  BY <1>4, <1>12 DEF vars, indexerVars
<1>13. QED
  BY <1>5, <1>6, <1>7, <1>8, <1>9, <1>10, <1>11, <1>12 DEF Next, Client, Undisturbed

(* Every undisturbed step continues the chain of every file.                *)
LEMMA NextChained ==
  ASSUME TypeOK, TypeOK', Parsing, InMemory, Chained, CacheIsLastPushed,
         [Next /\ Undisturbed]_vars
  PROVE  Chained' /\ CacheIsLastPushed'
<1>1. CASE UNCHANGED <<vfs, g_index, disk_cache, file_mutex, worker, on_indexed, applied>>
  <2>1. \A g \in Files : SameFile(g)
    BY <1>1, FileUnchanged DEF SameFile
  <2>2. QED
    BY <1>1, <2>1, ChainKept
<1>2. CASE (\E i \in Indexers : Indexer(i)) /\ InTurn
  <2>1. PICK i \in Indexers : Indexer(i)
    BY <1>2
  <2>2. QED
    BY <1>2, <2>1, QuietSteps, CacheSteps, StoreSteps DEF Indexer
<1>3. CASE OnIndexed
  <2> DEFINE s == Contents(on_indexed)
             u == Front(on_indexed)
  <2>1. CanPop(on_indexed) /\ on_indexed' = PopFront(on_indexed)
    BY <1>3 DEF OnIndexed
  <2>2. UNCHANGED <<vfs, g_index, disk_cache, file_mutex, worker>>
    BY <1>3 DEF OnIndexed, indexerVars
  <2>3. /\ applied' = applied /\ u.path = NoPath
        \/ applied' = [applied EXCEPT ![u.path] = u.curr]
    BY <1>3 DEF OnIndexed
  <2>4. on_indexed \in QueueOf(Updates) /\ applied \in [Files -> IndexData]
    BY DEF TypeOK, QueueType, DatabaseType
  <2>5. s \in Seq(Updates) /\ s # <<>> /\ u = Head(s) /\ Contents(on_indexed)' = Tail(s)
    BY <2>1, <2>4, PopFrontProperties DEF CanPop, Front, Contents
  <2>6. \A f \in Files : applied'[f] = IF u.path = f THEN u.curr ELSE applied[f]
    BY <2>3, <2>4, Facts
  <2>7. ASSUME NEW f \in Files PROVE LastPushed(f)' = LastPushed(f)
    <3>1. LastPushed(f)' = LastFor(f, Tail(s), applied'[f])
      BY <2>5 DEF LastPushed, LastFor
    <3>2. LastPushed(f) = LastFor(f, s, applied[f])
      BY DEF LastPushed
    <3> HIDE DEF s, u
    <3>3. QED
      BY <2>5, <2>6, <3>1, <3>2, LastForTail
  <2>8. \A g \in Files : SameFile(g)
    BY <2>2, <2>7, FileUnchanged DEF SameFile
  <2>9. QED
    BY <2>2, <2>8, ChainKept
<1>4. CASE \E f \in Files : \/ Edit(f) \/ Remove(f) \/ DidSave(f)
                            \/ DidChangeWatchedFiles(f) \/ DidOpen(f)
  BY <1>1, <1>4 DEF Edit, Remove, DidSave, DidChangeWatchedFiles, DidOpen,
                    unchangedByClient
<1>5. ASSUME NEW f \in Files, DidClose(f)
      PROVE  Chained' /\ CacheIsLastPushed'
  <2>1. /\ UNCHANGED <<vfs, disk_cache, file_mutex, worker, on_indexed, applied>>
        /\ \/ g_index' = g_index
           \/ HasCacheDir /\ g_index' = [g_index EXCEPT ![f] = NoIndex]
    BY <1>5 DEF DidClose
  <2>2. g_index \in [Files -> IndexFiles \cup {NoIndex}]
    BY DEF TypeOK, CacheType
  <2>3. ASSUME NEW g \in Files PROVE Cached(g)' = Cached(g)
    <3>1. CASE g_index'[g] = g_index[g]
      BY <2>1, <3>1 DEF Cached, RawCacheLoad
    <3>2. CASE HasCacheDir /\ g_index'[g] = NoIndex /\ g_index[g] # NoIndex
      <4>1. Data(g_index[g]) = Data(disk_cache[g])
        BY <3>2 DEF InMemory
      <4>2. Cached(g)' = Data(disk_cache[g])
        BY <2>1, <3>2 DEF Cached, RawCacheLoad, Data
      <4>3. QED
        BY <3>2, <4>1, <4>2 DEF Cached, RawCacheLoad
    <3>3. QED
      BY <2>1, <2>2, <3>1, <3>2
  <2>4. \A g \in Files : SameFile(g)
    BY <2>1, <2>3, FileUnchanged DEF SameFile
  <2>5. QED
    BY <2>1, <2>4, ChainKept
<1>6. CASE DidChangeConfiguration
  BY <1>1, <1>6 DEF DidChangeConfiguration, unchangedByClient
<1>7. ASSUME \A j \in Indexers : worker'[j].pc = "idle",
             Contents(on_indexed)' = <<>>,
             applied' = [f \in Files |-> EmptyIndex], vfs' = [f \in Files |-> FreshState]
      PROVE  Chained' /\ CacheIsLastPushed'
  <2>1. Chained'
    BY <1>7 DEF Chained, Linked, Holds
  <2>2. ASSUME NEW f \in Files
        PROVE  LastPushed(f)' = EmptyIndex /\ vfs'[f].loaded = 0
    <3>1. LastPushed(f)' = LastFor(f, <<>>, EmptyIndex)
      BY <1>7 DEF LastPushed, LastFor
    <3>2. LastFor(f, <<>>, EmptyIndex) = EmptyIndex
      BY LastForNone
    <3>3. QED
      BY <1>7, <3>1, <3>2 DEF FreshState
  <2>3. CacheIsLastPushed'
    BY <2>2 DEF CacheIsLastPushed
  <2>4. QED
    BY <2>1, <2>3
<1>8. CASE Reload /\ Idle
  BY <1>7, <1>8 DEF Reload, Idle, Contents
<1>9. CASE CleanRestart \/ Crash
  <2>1. /\ worker' = [i \in Indexers |-> IdleWorker] /\ on_indexed' = EmptyQueue
        /\ applied' = [f \in Files |-> EmptyIndex] /\ vfs' = [f \in Files |-> FreshState]
    BY <1>9 DEF CleanRestart, Crash, Restart
  <2>2. \A j \in Indexers : worker'[j].pc = "idle"
    BY <2>1 DEF IdleWorker
  <2>3. Contents(on_indexed)' = <<>>
    BY <2>1, EmptyQueueProperties DEF Contents
  <2>4. QED
    BY <1>7, <2>1, <2>2, <2>3
<1>10. CASE UNCHANGED vars
  BY <1>1, <1>10 DEF vars, indexerVars
<1>11. QED
  BY <1>2, <1>3, <1>4, <1>5, <1>6, <1>8, <1>9, <1>10 DEF Next, Client, Undisturbed

(* The invariant of undisturbed behaviours. *)
ChainInv == TypeOK /\ Parsing /\ InMemory /\ Chained /\ CacheIsLastPushed

(* At the start nothing is loaded, cached or on its way.                    *)
LEMMA InitChain == ASSUME Init PROVE ChainInv
<1>1. \A i \in Indexers : worker[i].pc = "idle"
  BY DEF Init, IdleWorker
<1>2. Chained
  BY <1>1 DEF Chained, Linked, Holds
<1>3. InMemory
  BY DEF Init, InMemory
<1>4. Contents(on_indexed) = <<>>
  BY EmptyQueueProperties DEF Init
<1>5. \A f \in Files : LastPushed(f) = EmptyIndex /\ vfs[f].loaded = 0
  BY <1>4, LastForNone DEF Init, FreshState, LastPushed
<1>6. CacheIsLastPushed
  BY <1>5 DEF CacheIsLastPushed
<1>7. QED
  BY <1>2, <1>3, <1>6, InitType DEF ChainInv

(* The invariant is inductive.                                              *)
LEMMA NextChain == ASSUME ChainInv, [Next /\ Undisturbed]_vars PROVE ChainInv'
<1>1. TypeOK /\ Parsing /\ InMemory /\ Chained /\ CacheIsLastPushed /\ [Next]_vars
  BY DEF ChainInv
<1>2. TypeOK' /\ Parsing'
  BY <1>1, NextType
<1>3. QED
  BY <1>1, <1>2, NextInMemory, NextChained DEF ChainInv

(* As long as no update overtakes another and reloads find the pipeline     *)
(* idle, the delta of the next store of a file is taken against exactly     *)
(* what the database holds or is about to receive, whatever else the client *)
(* does, however many indexers there are, and through crashes.              *)
THEOREM DeltasChain == Spec /\ UpdatesInTurn => []CacheIsLastPushed
<1>1. Init => ChainInv
  BY InitChain
<1>2. ChainInv /\ [Next /\ Undisturbed]_vars => ChainInv'
  BY NextChain
<1>3. ChainInv => CacheIsLastPushed
  BY DEF ChainInv
<1>4. QED
  BY <1>1, <1>2, <1>3, PTL DEF Spec, UpdatesInTurn

-----------------------------------------------------------------------------
(* Where UpdatesInTurn comes from: one indexer, and a client that lets      *)
(* background work finish before it asks for something interactive.         *)

OneAtATime == ~Overlap /\ Retain <= 1 /\ \A i, j \in Indexers : i = j

(* Each request is in the deque of its class; the dummy is not interactive. *)
Urgent == {r \in Requests : Interactive(r) /\ r.path # NoPath}
Patient == {r \in Requests : ~Interactive(r)}

Classed(q) == q.priority \in Seq(Urgent) /\ q.queue \in Seq(Patient)

(* Interactive work is to be done; background work is being done. *)
Foreground ==
  \/ index_request.priority # <<>>
  \/ \E i \in Indexers : worker[i].pc # "idle" /\ Interactive(worker[i].req)

Underway ==
  \/ on_indexed.queue # <<>>
  \/ \E i \in Indexers : worker[i].pc # "idle" /\ ~Interactive(worker[i].req)

Turns == Classed(index_request) /\ ~(Foreground /\ Underway)

(* A sequence whose elements are in S is one over S.                        *)
LEMMA SeqNarrow ==
  ASSUME NEW T, NEW s \in Seq(T), NEW S, \A k \in DOMAIN s : s[k] \in S
  PROVE  s \in Seq(S)
<1>1. Len(s) \in Nat /\ DOMAIN s = 1 .. Len(s) /\ s = [k \in 1 .. Len(s) |-> s[k]]
  BY LenProperties
<1>2. s \in [1 .. Len(s) -> S]
  BY <1>1
<1>3. QED
  BY <1>1, <1>2, FunctionIsSeq

(* Several requests are pushed to the deques of their classes.              *)
LEMMA PushRequestsClassed ==
  ASSUME NEW q, Classed(q), NEW reqs \in Seq(Requests),
         \A k \in DOMAIN reqs : Interactive(reqs[k]) => reqs[k].path # NoPath
  PROVE  Classed(PushRequests(q, reqs))
<1> DEFINE at == {k \in DOMAIN reqs : Interactive(reqs[k])}
           other == DOMAIN reqs \ at
           a == Selected(reqs, at)
           b == Selected(reqs, other)
<1>1. at \in SUBSET DOMAIN reqs /\ other \in SUBSET DOMAIN reqs
  OBVIOUS
<1>2. \A k \in DOMAIN reqs : reqs[k] \in Requests
  BY ElementOfSeq, LenProperties
<1>3. /\ \A k \in at : reqs[k] \in Urgent
      /\ \A k \in other : reqs[k] \in Patient
  BY <1>2 DEF Urgent, Patient
<1>4. PushRequests(q, reqs) = [priority |-> q.priority \o a, queue |-> q.queue \o b,
                              total |-> q.total + Len(reqs)]
  BY DEF PushRequests
<1> HIDE DEF at, other
<1>5. /\ a \in Seq(Requests) /\ \A p \in DOMAIN a : \E k \in at : a[p] = reqs[k]
      /\ b \in Seq(Requests) /\ \A p \in DOMAIN b : \E k \in other : b[p] = reqs[k]
  BY <1>1, SelectedProperties
<1> HIDE DEF a, b
<1>6. a \in Seq(Urgent)
  <2>1. \A p \in DOMAIN a : a[p] \in Urgent
    BY <1>3, <1>5
  <2>2. QED
    BY <1>5, <2>1, SeqNarrow
<1>7. b \in Seq(Patient)
  <2>1. \A p \in DOMAIN b : b[p] \in Patient
    BY <1>3, <1>5
  <2>2. QED
    BY <1>5, <2>1, SeqNarrow
<1>8. QED
  BY <1>4, <1>6, <1>7, ConcatProperties DEF Classed

(* So are those of Project::index, ...                                      *)
LEMMA ProjectIndexedClassed ==
  ASSUME NEW q \in QueueOf(Requests), Classed(q), NEW opened, NEW from \in Nat
  PROVE  Classed(ProjectIndexed(q, opened, from))
<1> DEFINE n == Len(Entries)
           s == ProjectRequests(opened, from)
           d == DummyRequest(from + n)
           reqs == Append(s, d)
<1>1. n \in Nat /\ \A i \in 1 .. n : Entries[i] \in Files
  BY Facts
<1>2. d \in Requests /\ ~Interactive(d)
  BY <1>1 DEF DummyRequest, Request, Requests, Interactive, Modes
<1>3. \A i \in 1 .. n : s[i] \in Requests /\ s[i].path = Entries[i]
  <2>1. SUFFICES ASSUME NEW i \in 1 .. n PROVE s[i] \in Requests /\ s[i].path = Entries[i]
    OBVIOUS
  <2>2. from + i - 1 \in Nat /\ Entries[i] \in Files
    BY <1>1
  <2>3. QED
    BY <2>2 DEF ProjectRequests, Request, Requests, Modes
<1>4. s = [i \in 1 .. n |-> s[i]]
  BY DEF ProjectRequests
<1> HIDE DEF s, d, n
<1>5. s \in Seq(Requests) /\ Len(s) = n
  <2>1. s \in [1 .. n -> Requests]
    BY <1>3, <1>4
  <2>2. QED
    BY <1>1, <2>1, FunctionIsSeq
<1>6. /\ reqs \in Seq(Requests) /\ DOMAIN reqs = 1 .. n + 1 /\ reqs[n + 1] = d
      /\ \A i \in 1 .. n : reqs[i] = s[i]
  BY <1>1, <1>2, <1>5, AppendProperties, LenProperties
<1> HIDE DEF reqs
<1>7. \A k \in DOMAIN reqs : Interactive(reqs[k]) => reqs[k].path # NoPath
  <2>1. SUFFICES ASSUME NEW k \in DOMAIN reqs, Interactive(reqs[k]) PROVE reqs[k].path # NoPath
    OBVIOUS
  <2>2. k \in 1 .. n
    BY <1>1, <1>2, <1>6, <2>1
  <2>3. reqs[k].path \in Files
    BY <1>1, <1>3, <1>6, <2>2
  <2>4. QED
    BY <2>3, Facts
<1>8. ProjectIndexed(q, opened, from) = PushRequests(q, reqs)
  BY DEF ProjectIndexed, reqs, s, d, n
<1>9. QED
  BY <1>6, <1>7, <1>8, PushRequestsClassed

(* ... those of didOpen, with the sort that follows, ...                    *)
LEMMA OpenedClassed ==
  ASSUME NEW q \in QueueOf(Requests), Classed(q), NEW f \in Files, tick \in Nat,
         NEW opened \in SUBSET Files
  PROVE  Classed(IndexerSort(PushRequests(q, OpenRequests(f)), opened))
<1> DEFINE reqs == OpenRequests(f)
           r == PushRequests(q, reqs)
           s == r.queue
           rank == [k \in DOMAIN s |-> IF s[k].path = NoPath THEN 0 ELSE Prio(opened, s[k].path)]
<1>1. reqs \in Seq(Requests)
  BY OpenRequestsType
<1>2. \A k \in DOMAIN reqs : Interactive(reqs[k]) => reqs[k].path # NoPath
  BY Facts DEF OpenRequests, Request, Interactive
<1>3. IndexerSort(r, opened) = [r EXCEPT !.queue = StableSort(s, rank)]
  BY DEF IndexerSort
<1> HIDE DEF reqs
<1>4. Classed(r) /\ r \in QueueOf(Requests)
  BY <1>1, <1>2, PushRequestsClassed, PushRequestsType
<1> HIDE DEF r
<1>5. s \in Seq(Patient)
  BY <1>4 DEF Classed
<1>6. rank \in [DOMAIN s -> Int]
  <2>1. \A k \in DOMAIN s : s[k].path \in Files \cup {NoPath}
    <3>1. \A k \in DOMAIN s : s[k] \in Patient
      BY <1>5, ElementOfSeq, LenProperties
    <3>2. QED
      BY <3>1 DEF Patient, Requests
  <2>2. \A k \in DOMAIN s : (IF s[k].path = NoPath THEN 0 ELSE Prio(opened, s[k].path)) \in Int
    BY <2>1, PrioAssumption
  <2>3. QED
    BY <2>2
<1> HIDE DEF rank
<1>7. StableSort(s, rank) \in Seq(Patient)
  BY <1>5, <1>6, StableSortProperties
<1>8. /\ IndexerSort(r, opened).priority = r.priority
      /\ IndexerSort(r, opened).queue = StableSort(s, rank)
  BY <1>3, <1>4 DEF QueueOf
<1>9. Classed(IndexerSort(r, opened))
  BY <1>4, <1>7, <1>8 DEF Classed
<1>10. QED
  BY <1>9 DEF r, reqs

(* ... and the single ones.                                                 *)
LEMMA EnqueueClassed ==
  ASSUME NEW q \in QueueOf(Requests), Classed(q), NEW f \in Files, NEW mode \in Modes,
         NEW must \in BOOLEAN, NEW ts \in Nat
  PROVE  /\ Classed(Enqueue(q, f, mode, must, ts))
         /\ mode = "Background" => Enqueue(q, f, mode, must, ts).priority = q.priority
<1> DEFINE x == Request(f, mode, must, ts)
           r == Enqueue(q, f, mode, must, ts)
<1>1. x \in IF mode = "Background" THEN Patient ELSE Urgent
  BY Facts DEF Request, Requests, Interactive, Urgent, Patient
<1>2. mode # "Background" => r.priority = Append(q.priority, x) /\ r.queue = q.queue
  BY PushBackDeques DEF Enqueue
<1>3. mode = "Background" => r.priority = q.priority /\ r.queue = Append(q.queue, x)
  BY PushBackDeques DEF Enqueue
<1> HIDE DEF x
<1>4. CASE mode # "Background"
  <2>1. Append(q.priority, x) \in Seq(Urgent)
    BY <1>1, <1>4, AppendProperties DEF Classed
  <2>2. QED
    BY <1>2, <1>4, <2>1, Zenon DEF Classed
<1>5. CASE mode = "Background"
  <2>1. Append(q.queue, x) \in Seq(Patient)
    BY <1>1, <1>5, AppendProperties DEF Classed
  <2>2. QED
    BY <1>3, <1>5, <2>1, Zenon DEF Classed
<1>6. QED
  BY <1>4, <1>5

(* An interactive request is taken as long as there is one.                 *)
LEMMA PopClassed ==
  ASSUME NEW q \in QueueOf(Requests), Classed(q), CanPop(q)
  PROVE  /\ Classed(PopFront(q))
         /\ q.priority # <<>> => Front(q) \in Urgent
         /\ q.priority = <<>> => PopFront(q).priority = <<>> /\ Front(q) \in Patient
<1>1. q.priority \in Seq(Urgent) /\ q.queue \in Seq(Patient)
  BY DEF Classed
<1>2. CASE q.priority # <<>>
  <2>1. PopFront(q).priority = Tail(q.priority) /\ PopFront(q).queue = q.queue
    BY <1>2 DEF PopFront, QueueOf
  <2>2. Front(q) = Head(q.priority)
    BY <1>2 DEF Front, Contents, QueueOf
  <2>3. QED
    BY <1>1, <1>2, <2>1, <2>2, HeadTailProperties DEF Classed
<1>3. CASE q.priority = <<>>
  <2>1. q.queue # <<>> /\ Front(q) = Head(q.queue)
    BY <1>3 DEF Front, Contents, CanPop, QueueOf
  <2>2. PopFront(q).priority = <<>> /\ PopFront(q).queue = Tail(q.queue)
    BY <1>3 DEF PopFront, QueueOf
  <2>3. QED
    BY <1>1, <1>3, <2>1, <2>2, HeadTailProperties DEF Classed
<1>4. QED
  BY <1>2, <1>3

(* No work, no turns to keep.                                               *)
LEMMA StartTurns ==
  /\ EmptyQueue \in QueueOf(Requests) /\ Classed(EmptyQueue)
  /\ Classed(ProjectIndexed(EmptyQueue, {}, 0))
<1>1. EmptyQueue \in QueueOf(Requests) /\ Classed(EmptyQueue)
  BY EmptySeq DEF EmptyQueue, QueueOf, Classed
<1>2. QED
  BY <1>1, ProjectIndexedClassed

(* Start-up only queues background requests.                                *)
LEMMA InitTurns == Init => Turns
<1> SUFFICES ASSUME Init PROVE Turns
  OBVIOUS
<1>1. on_indexed.queue = <<>> /\ \A i \in Indexers : worker[i].pc = "idle"
  BY DEF Init, EmptyQueue, IdleWorker
<1>2. QED
  BY <1>1, StartTurns DEF Init, Turns, Underway

(* An indexer works on one request until it is idle again, and pushes       *)
(* updates of that request's class.                                         *)
LEMMA IndexerWorks ==
  ASSUME TypeOK, Parsing, NEW i \in Indexers, Indexer(i),
         ~(PopDummy(i) \/ PopNoEntry(i) \/ Pop(i))
  PROVE  /\ worker[i].pc # "idle" /\ index_request' = index_request
         /\ worker'[i].pc = "idle" \/ worker'[i].req = worker[i].req
         /\ \/ on_indexed' = on_indexed
            \/ \E u : on_indexed' = PushBack(on_indexed, u, Interactive(worker[i].req))
<1> DEFINE w == worker[i]
<1>1. w \in WorkerType /\ worker \in [Indexers -> WorkerType]
  BY DEF TypeOK
<1>2. \A v \in WorkerType : ToParse(v).req = v.req
  BY DEF ToParse, WorkerType
<1>3. ASSUME Finish(i) PROVE worker'[i].pc = "idle"
  BY <1>1, <1>3 DEF Finish, IdleWorker
<1>4. CASE Stamp(i)
  <2> DEFINE step == IF NoLinkage(w.req) THEN 2 ELSE 0
             stamped == ~w.deleted /\ CanStamp(w.req.path, w.time, step)
             reparse == IF stamped THEN 1 ELSE w.reparse
             a == [w EXCEPT !.reparse = reparse]
             b == [w EXCEPT !.pc = "cache", !.reparse = reparse]
  <2>1. \/ worker' = [worker EXCEPT ![i] = IdleWorker]
        \/ worker' = [worker EXCEPT ![i] = ToParse(a)]
        \/ worker' = [worker EXCEPT ![i] = b]
    BY <1>4 DEF Stamp, Finish
  <2>2. reparse \in 0 .. 2
    BY <1>1 DEF WorkerType
  <2> HIDE DEF reparse
  <2>3. a \in WorkerType /\ a.req = w.req /\ b.req = w.req
    BY <1>1, <2>2 DEF WorkerType
  <2>4. w.pc # "idle" /\ index_request' = index_request /\ on_indexed' = on_indexed
    BY <1>4 DEF Stamp
  <2> HIDE DEF a, b
  <2>5. ToParse(a).req = w.req
    BY <1>2, <2>3
  <2>6. worker'[i] = IdleWorker \/ worker'[i] = ToParse(a) \/ worker'[i] = b
    BY <1>1, <2>1
  <2>7. worker'[i].pc = "idle" \/ worker'[i].req = w.req
    BY <2>3, <2>5, <2>6 DEF IdleWorker
  <2>8. QED
    BY <2>4, <2>7
<1>5. CASE CacheCheck(i)
  BY <1>1, <1>2, <1>3, <1>5, SMTT(30) DEF CacheCheck, WorkerType
<1>6. CASE CacheLoad(i)
  BY <1>1, <1>6 DEF CacheLoad, WorkerType
<1>7. CASE DepStamp(i)
  BY <1>1, <1>7 DEF DepStamp, WorkerType
<1>8. CASE DepLoad(i)
  BY <1>1, <1>8 DEF DepLoad, WorkerType
<1>9. CASE DepsDone(i) \/ ParseGone(i) \/ ParseCrash(i) \/ StoreDone(i)
  BY <1>3, <1>9 DEF DepsDone, ParseGone, ParseCrash, StoreDone
<1>10. CASE SeenFile(i)
  <2>1. w.pc # "idle" /\ index_request' = index_request /\ on_indexed' = on_indexed
    BY <1>10 DEF SeenFile
  <2>2. worker'[i].req = w.req
    <3> DEFINE f == Head(w.todo)
               time == LastWriteTime(f)
               step == IF NoLinkage(w.req) THEN 3 ELSE 1
               claimed == time # 0 /\ CanStamp(f, time, step)
               b == [w EXCEPT !.todo = Tail(w.todo), !.seen = [w.seen EXCEPT ![f] = time],
                       !.claims = IF claimed THEN w.claims \cup {f} ELSE w.claims]
    <3>1. worker' = [worker EXCEPT ![i].todo = Tail(@), ![i].seen[f] = time,
                       ![i].claims = IF claimed THEN @ \cup {f} ELSE @]
      BY <1>10 DEF SeenFile
    <3> HIDE DEF claimed, time, f
    <3>2. worker'[i] = b
      BY <1>1, <3>1
    <3>3. b.req = w.req
      BY <1>1 DEF WorkerType
    <3>4. QED
      BY <3>2, <3>3
  <2>3. QED
    BY <2>1, <2>2
<1>11. CASE ParseEnd(i) \/ StoreWrite(i) \/ StoreCount(i)
  BY <1>1, <1>11 DEF ParseEnd, StoreWrite, StoreCount, WorkerType
<1>12. CASE StoreRead(i)
  <2>1. w.pc # "idle" /\ index_request' = index_request /\ on_indexed' = on_indexed
    BY <1>12 DEF StoreRead
  <2>2. PICK f \in w.claims :
          worker' = [worker EXCEPT ![i].pc = "write", ![i].file = f,
                       ![i].prev = DeltaBase(f), ![i].retained = Retained(f)]
    BY <1>12, Zenon DEF StoreRead
  <2> DEFINE p == DeltaBase(f)
             r == Retained(f)
             b == [w EXCEPT !.pc = "write", !.file = f, !.prev = p, !.retained = r]
  <2>3. worker'[i] = b
    BY <1>1, <2>2
  <2> HIDE DEF p, r
  <2>4. b.req = w.req
    BY <1>1 DEF WorkerType
  <2>5. QED
    BY <2>1, <2>3, <2>4
<1>13. CASE StorePush(i)
  BY <1>1, <1>13 DEF StorePush, WorkerType
<1>14. QED
  BY <1>4, <1>5, <1>6, <1>7, <1>8, <1>9, <1>10, <1>11, <1>12, <1>13 DEF Indexer

(* With one indexer, an update in the foreground meets no other.            *)
LEMMA IndexerTurns ==
  ASSUME OneAtATime, TypeOK, Parsing, Turns, NEW i \in Indexers, Indexer(i)
  PROVE  Turns' /\ InTurn
<1> DEFINE w == worker[i]
           q == index_request
<1>1. /\ q \in QueueOf(Requests) /\ on_indexed \in QueueOf(Updates)
      /\ worker \in [Indexers -> WorkerType]
  BY DEF TypeOK, QueueType
<1>2. \A j \in Indexers : j = i
  BY DEF OneAtATime
<1>3. Classed(q) /\ ~(Foreground /\ Underway)
  BY DEF Turns
<1>4. /\ Foreground <=> q.priority # <<>> \/ (w.pc # "idle" /\ Interactive(w.req))
      /\ Underway <=> on_indexed.queue # <<>> \/ (w.pc # "idle" /\ ~Interactive(w.req))
  BY <1>2 DEF Foreground, Underway
<1>5. /\ Foreground' <=> q'.priority # <<>>
                         \/ (worker'[i].pc # "idle" /\ Interactive(worker'[i].req))
      /\ Underway' <=> on_indexed'.queue # <<>>
                       \/ (worker'[i].pc # "idle" /\ ~Interactive(worker'[i].req))
  BY <1>2 DEF Foreground, Underway, Interactive
<1>6. Len(on_indexed.priority) \in Nat
  BY <1>1, LenProperties DEF QueueOf
<1>7. on_indexed'.priority = on_indexed.priority \/ on_indexed.queue = <<>> => InTurn
  BY <1>6 DEF InTurn
<1>8. CASE PopDummy(i) \/ PopNoEntry(i) \/ Pop(i)
  <2>1. CanPop(q) /\ q' = PopFront(q) /\ w.pc = "idle"
    BY <1>8 DEF PopDummy, PopNoEntry, Pop
  <2>2. /\ Classed(q)'
        /\ q.priority # <<>> => Front(q) \in Urgent
        /\ q.priority = <<>> => q'.priority = <<>> /\ Front(q) \in Patient
    BY <1>1, <1>3, <2>1, PopClassed DEF Classed
  <2>3. CASE PopDummy(i)
    <3>1. Front(q) \notin Urgent
      BY <2>3 DEF PopDummy, Urgent
    <3>2. on_indexed'.priority = on_indexed.priority /\ worker' = worker
      BY <1>1, <2>3, PushBackDeques DEF PopDummy
    <3>3. QED
      BY <1>5, <1>7, <2>1, <2>2, <3>1, <3>2 DEF Turns
  <2>4. CASE PopNoEntry(i)
    <3>1. worker'[i].pc = "idle" /\ on_indexed' = on_indexed
      BY <1>1, <2>4 DEF PopNoEntry, Finish, IdleWorker
    <3>2. QED
      BY <1>3, <1>4, <1>5, <1>7, <2>2, <3>1 DEF Turns
  <2>5. CASE Pop(i)
    <3>1. worker'[i].req = Front(q) /\ on_indexed' = on_indexed
      BY <1>1, <2>5 DEF Pop, IdleWorker
    <3>2. /\ q.priority # <<>> => Interactive(Front(q))
          /\ q.priority = <<>> => ~Interactive(Front(q))
      BY <2>2 DEF Urgent, Patient
    <3>3. QED
      BY <1>3, <1>4, <1>5, <1>7, <2>2, <3>1, <3>2 DEF Turns
  <2>6. QED
    BY <1>8, <2>3, <2>4, <2>5
<1>9. CASE ~(PopDummy(i) \/ PopNoEntry(i) \/ Pop(i))
  <2>1. /\ w.pc # "idle" /\ q' = q
        /\ worker'[i].pc = "idle" \/ worker'[i].req = w.req
        /\ \/ on_indexed' = on_indexed
           \/ \E u : on_indexed' = PushBack(on_indexed, u, Interactive(w.req))
    BY <1>9, IndexerWorks
  <2>2. Classed(q)'
    BY <1>3, <2>1 DEF Classed
  <2>3. CASE Interactive(w.req)
    <3>1. on_indexed.queue = <<>>
      BY <1>3, <1>4, <2>1, <2>3
    <3>2. on_indexed'.queue = on_indexed.queue
      <4>1. CASE on_indexed' # on_indexed
        <5>1. PICK u : on_indexed' = PushBack(on_indexed, u, Interactive(w.req))
          BY <2>1, <4>1
        <5>2. on_indexed' = [on_indexed EXCEPT !.priority = Append(@, u), !.total = @ + 1]
          BY <2>3, <5>1 DEF PushBack
        <5>3. QED
          BY <1>1, <5>2 DEF QueueOf
      <4>2. QED
        BY <4>1
    <3>3. QED
      BY <1>5, <1>7, <2>1, <2>2, <2>3, <3>1, <3>2 DEF Turns
  <2>4. CASE ~Interactive(w.req)
    <3>1. q.priority = <<>>
      BY <1>3, <1>4, <2>1, <2>4
    <3>2. on_indexed'.priority = on_indexed.priority
      <4>1. CASE on_indexed' # on_indexed
        <5>1. PICK u : on_indexed' = PushBack(on_indexed, u, Interactive(w.req))
          BY <2>1, <4>1
        <5>2. on_indexed' = [on_indexed EXCEPT !.queue = Append(@, u), !.total = @ + 1]
          BY <2>4, <5>1 DEF PushBack
        <5>3. QED
          BY <1>1, <5>2 DEF QueueOf
      <4>2. QED
        BY <4>1
    <3>3. QED
      BY <1>5, <1>7, <2>1, <2>2, <2>4, <3>1, <3>2 DEF Turns
  <2>5. QED
    BY <2>3, <2>4
<1>10. QED
  BY <1>8, <1>9

(* The main thread applies an update: the deques get no longer.             *)
LEMMA OnIndexedTurns ==
  ASSUME TypeOK, Turns, OnIndexed
  PROVE  Turns' /\ InTurn
<1>1. on_indexed \in QueueOf(Updates)
  BY DEF TypeOK, QueueType
<1>2. on_indexed' = PopFront(on_indexed) /\ CanPop(on_indexed)
  BY DEF OnIndexed
<1>3. UNCHANGED <<index_request, worker>>
  BY DEF OnIndexed, queueVars
<1>4. CASE on_indexed.priority # <<>>
  <2>1. on_indexed' = [on_indexed EXCEPT !.priority = Tail(@), !.total = @ - 1]
    BY <1>2, <1>4 DEF PopFront
  <2>2. on_indexed'.queue = on_indexed.queue /\ on_indexed'.priority = Tail(on_indexed.priority)
    BY <1>1, <2>1 DEF QueueOf
  <2>3. Len(Tail(on_indexed.priority)) = Len(on_indexed.priority) - 1
    BY <1>1, <1>4, HeadTailProperties DEF QueueOf
  <2>4. Len(on_indexed.priority) \in Nat
    BY <1>1, LenProperties DEF QueueOf
  <2>5. InTurn
    BY <2>2, <2>3, <2>4 DEF InTurn
  <2>6. QED
    BY <1>3, <2>2, <2>5 DEF Turns, Foreground, Underway, Classed, Interactive
<1>5. CASE on_indexed.priority = <<>>
  <2>1. on_indexed' = [on_indexed EXCEPT !.queue = Tail(@), !.total = @ - 1]
    BY <1>2, <1>5 DEF PopFront
  <2>2. on_indexed'.priority = on_indexed.priority
    BY <1>1, <2>1 DEF QueueOf
  <2>3. on_indexed.queue # <<>>
    BY <1>1, <1>2, <1>5 DEF CanPop, Contents, QueueOf
  <2>4. ~Foreground
    BY <2>3 DEF Turns, Underway
  <2>5. ~Foreground' /\ Classed(index_request)'
    BY <1>3, <2>4 DEF Foreground, Interactive, Turns, Classed
  <2>6. Len(on_indexed.priority) \in Nat
    BY <1>1, LenProperties DEF QueueOf
  <2>7. QED
    BY <2>2, <2>5, <2>6 DEF Turns, InTurn
<1>6. QED
  BY <1>4, <1>5

(* Requests are queued: either none is interactive or no background work is *)
(* under way.                                                               *)
LEMMA QueuedTurns ==
  ASSUME ~Overlap, TypeOK, Turns, UNCHANGED <<on_indexed, worker>>,
         Classed(index_request)',
         index_request'.priority = index_request.priority \/ Calm
  PROVE  Turns' /\ InTurn
<1>1. InTurn
  <2>1. Len(on_indexed.priority) \in Nat
    BY LenProperties DEF TypeOK, QueueType, QueueOf
  <2>2. QED
    BY <2>1 DEF InTurn
<1>2. Underway' <=> Underway
  BY DEF Underway, Interactive
<1>3. CASE index_request'.priority = index_request.priority
  <2>1. Foreground' <=> Foreground
    BY <1>3 DEF Foreground, Interactive
  <2>2. QED
    BY <1>1, <1>2, <2>1 DEF Turns
<1>4. CASE Calm
  <2>1. ~Underway
    BY <1>4 DEF Calm, Underway
  <2>2. QED
    BY <1>1, <1>2, <2>1 DEF Turns
<1>5. QED
  BY <1>3, <1>4

(* What the client asks for.                                                *)
LEMMA ClientTurns ==
  ASSUME OneAtATime, TypeOK, Turns, Client
  PROVE  Turns' /\ InTurn
<1>1. ~Overlap /\ Classed(index_request)
  BY DEF OneAtATime, Turns
<1>2. index_request \in QueueOf(Requests) /\ tick \in Nat /\ open \in SUBSET Files
  BY DEF TypeOK, QueueType, ClientType
<1>3. ASSUME NEW f \in Files, Edit(f) \/ Remove(f) \/ DidClose(f)
      PROVE  Turns' /\ InTurn
  <2>1. UNCHANGED <<index_request, on_indexed, worker>>
    BY <1>3 DEF Edit, Remove, DidClose, queueVars, unchangedByClient
  <2>2. Classed(index_request)'
    BY <1>1, <2>1 DEF Classed
  <2>3. QED
    BY <1>1, <2>1, <2>2, QueuedTurns
<1>4. ASSUME NEW f \in Files, DidSave(f)
      PROVE  Turns' /\ InTurn
  <2>1. /\ UNCHANGED <<on_indexed, worker>> /\ Calm
        /\ index_request' = Enqueue(index_request, f, "Normal", FALSE, tick)
    BY <1>4 DEF DidSave, Index, unchangedByClient
  <2>2. Classed(index_request)'
    BY <1>1, <1>2, <2>1, EnqueueClassed DEF Classed, Modes
  <2>3. QED
    BY <1>1, <2>1, <2>2, QueuedTurns
<1>5. ASSUME NEW f \in Files, DidChangeWatchedFiles(f)
      PROVE  Turns' /\ InTurn
  <2> DEFINE mode == WatchedMode(f)
             must == mode # "Delete"
  <2>1. mode \in Modes /\ must \in BOOLEAN
    BY DEF WatchedMode, Modes
  <2>2. /\ UNCHANGED <<on_indexed, worker>>
        /\ mode # "Background" => Calm
        /\ index_request' = Enqueue(index_request, f, mode, must, tick)
    BY <1>5 DEF DidChangeWatchedFiles, Index, unchangedByClient
  <2> HIDE DEF mode, must
  <2>3. /\ Classed(index_request)'
        /\ mode = "Background" => index_request'.priority = index_request.priority
    BY <1>1, <1>2, <2>1, <2>2, EnqueueClassed DEF Classed
  <2>4. QED
    BY <1>1, <2>2, <2>3, QueuedTurns
<1>6. ASSUME NEW f \in Files, DidOpen(f)
      PROVE  Turns' /\ InTurn
  <2>1. /\ UNCHANGED <<on_indexed, worker>> /\ Calm
        /\ index_request' = IndexerSort(PushRequests(index_request, OpenRequests(f)),
                                        open \cup {f})
    BY <1>6 DEF DidOpen
  <2>2. Classed(index_request)'
    BY <1>1, <1>2, <2>1, OpenedClassed DEF Classed
  <2>3. QED
    BY <1>1, <2>1, <2>2, QueuedTurns
<1>7. ASSUME DidChangeConfiguration
      PROVE  Turns' /\ InTurn
  <2>1. /\ UNCHANGED <<on_indexed, worker>>
        /\ open # {} => Calm
        /\ index_request' = ProjectIndexed(index_request, open, tick)
    BY <1>7 DEF DidChangeConfiguration, ProjectIndex, unchangedByClient
  <2>2. Classed(index_request)'
    BY <1>1, <1>2, <2>1, ProjectIndexedClassed DEF Classed
  <2>3. open = {} => index_request'.priority = index_request.priority
    BY <1>2, <2>1, ProjectIndexedType
  <2>4. QED
    BY <1>1, <2>1, <2>2, <2>3, QueuedTurns
<1>8. ASSUME Reload
      PROVE  Turns' /\ InTurn
  <2>1. /\ UNCHANGED <<on_indexed, worker>> /\ Idle
        /\ index_request' = ProjectIndexed(index_request, open, tick)
    BY <1>1, <1>8 DEF Reload, ProjectIndex
  <2>2. Classed(index_request)'
    BY <1>1, <1>2, <2>1, ProjectIndexedClassed DEF Classed
  <2>3. Calm
    <3>1. index_request.queue = <<>> /\ on_indexed.queue = <<>>
      BY <2>1 DEF Idle, Contents, TypeOK, QueueType, QueueOf
    <3>2. QED
      BY <2>1, <3>1 DEF Calm, Idle
  <2>4. QED
    BY <1>1, <2>1, <2>2, <2>3, QueuedTurns
<1>9. ASSUME Restart
      PROVE  Turns' /\ InTurn
  <2>1. /\ on_indexed'.queue = <<>> /\ on_indexed'.priority = <<>>
        /\ \A i \in Indexers : worker'[i].pc = "idle"
    BY <1>9 DEF Restart, EmptyQueue, IdleWorker
  <2>2. Classed(index_request)' /\ ~Underway'
    BY <1>9, <2>1, StartTurns DEF Restart, Underway, Classed
  <2>3. InTurn
    <3>1. Len(on_indexed.priority) \in Nat
      BY LenProperties DEF TypeOK, QueueType, QueueOf
    <3>2. Len(on_indexed'.priority) = 0
      BY <2>1, EmptySeq
    <3>3. QED
      BY <3>1, <3>2 DEF InTurn
  <2>4. QED
    BY <2>2, <2>3 DEF Turns
<1>10. QED
  BY <1>3, <1>4, <1>5, <1>6, <1>7, <1>8, <1>9 DEF Client, CleanRestart, Crash

(* Turns is inductive and every step keeps to them.                         *)
LEMMA NextTurns ==
  ASSUME OneAtATime, TypeOK, Parsing, Turns, [Next]_vars
  PROVE  Turns' /\ [Undisturbed]_vars
<1>1. CASE UNCHANGED vars
  <2>1. UNCHANGED <<index_request, on_indexed, worker>>
    BY <1>1 DEF vars
  <2>2. QED
    BY <1>1, <2>1 DEF Turns, Foreground, Underway, Classed, Interactive
<1>2. CASE Next
  <2>1. Turns' /\ InTurn
    BY <1>2, IndexerTurns, OnIndexedTurns, ClientTurns DEF Next
  <2>2. Reload => Idle /\ Retain <= 1
    BY DEF Reload, OneAtATime
  <2>3. QED
    BY <2>1, <2>2 DEF Undisturbed
<1>3. QED
  BY <1>1, <1>2

(* The discipline that DeltasChain asks for is not a wish: with one indexer *)
(* thread (index.threads 1), at most one retained store, and a client that  *)
(* asks for interactive work only when no background indexing is under way, *)
(* main_OnIndexed never sees an update overtake another.                    *)
THEOREM OneIndexerInTurn ==
  ASSUME OneAtATime
  PROVE  Spec => UpdatesInTurn
<1>1. Init => TypeOK /\ Parsing /\ Turns
  BY InitType, InitTurns
<1>2. TypeOK /\ Parsing /\ Turns /\ [Next]_vars => (TypeOK /\ Parsing /\ Turns)'
  BY NextType, NextTurns
<1>3. TypeOK /\ Parsing /\ Turns /\ [Next]_vars => [Undisturbed]_vars
  BY NextTurns
<1>4. QED
  BY <1>1, <1>2, <1>3, PTL DEF Spec, UpdatesInTurn
=============================================================================
