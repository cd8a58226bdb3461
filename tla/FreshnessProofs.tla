-------------------------- MODULE FreshnessProofs --------------------------
(***************************************************************************)
(* "Saving files will incrementally update the index": with one indexer,   *)
(* updates in turn, and neither removed files nor crashes, the database of *)
(* an idle pipeline holds the present contents of every file of the        *)
(* project whose last change was announced.                                *)
(***************************************************************************)
EXTENDS IndexPipelineRefinement

-----------------------------------------------------------------------------
(* The requests that wait, in whatever order.                               *)

Asked(q) == Elements(q.priority) \cup Elements(q.queue)

(* Concatenation unites.                                                    *)
LEMMA ElementsConcat ==
  ASSUME NEW T, NEW s \in Seq(T), NEW t \in Seq(T)
  PROVE  Elements(s \o t) = Elements(s) \cup Elements(t)
<1> DEFINE n == Len(s)
           r == s \o t
<1>1. /\ n \in Nat /\ Len(t) \in Nat /\ DOMAIN s = 1 .. n /\ DOMAIN t = 1 .. Len(t)
      /\ DOMAIN r = 1 .. n + Len(t)
      /\ \A k \in 1 .. n : r[k] = s[k]
      /\ \A k \in n + 1 .. n + Len(t) : r[k] = t[k - n]
  BY ConcatProperties, LenProperties
<1>2. \A k \in DOMAIN t : k + n \in DOMAIN r /\ r[k + n] = t[k]
  BY <1>1
<1> HIDE DEF n, r
<1>3. Elements(r) \subseteq Elements(s) \cup Elements(t)
  <2>1. SUFFICES ASSUME NEW k \in DOMAIN r PROVE r[k] \in Elements(s) \cup Elements(t)
    BY DEF Elements
  <2>2. CASE k \in 1 .. n
    BY <1>1, <2>2 DEF Elements
  <2>3. CASE k \in n + 1 .. n + Len(t)
    <3>1. k - n \in DOMAIN t /\ r[k] = t[k - n]
      BY <1>1, <2>3
    <3>2. QED
      BY <3>1 DEF Elements
  <2>4. QED
    BY <1>1, <2>1, <2>2, <2>3
<1>4. Elements(s) \subseteq Elements(r) /\ Elements(t) \subseteq Elements(r)
  <2>1. \A k \in DOMAIN s : k \in DOMAIN r /\ r[k] = s[k]
    BY <1>1
  <2>2. QED
    BY <1>2, <2>1 DEF Elements
<1>5. QED
  BY <1>3, <1>4 DEF r

(* A sequence is its head and its tail.                                     *)
LEMMA ElementsOf ==
  ASSUME NEW T, NEW s \in Seq(T)
  PROVE  /\ \A x \in T : Elements(Append(s, x)) = Elements(s) \cup {x}
         /\ s # <<>> => Elements(s) = {Head(s)} \cup Elements(Tail(s))
         /\ Elements(<<>>) = {} /\ Elements(s) \subseteq T
<1>1. Len(s) \in Nat /\ DOMAIN s = 1 .. Len(s) /\ \A k \in 1 .. Len(s) : s[k] \in T
  BY LenProperties, ElementOfSeq
<1>2. ASSUME NEW x \in T PROVE Elements(Append(s, x)) = Elements(s) \cup {x}
  <2> DEFINE o == <<x>>
  <2>1. Append(s, x) = s \o o /\ o \in Seq(T)
    BY AppendIsConcat
  <2>2. Elements(o) = {x}
    BY DEF Elements
  <2> HIDE DEF o
  <2>3. QED
    BY <2>1, <2>2, ElementsConcat
<1>3. ASSUME s # <<>> PROVE Elements(s) = {Head(s)} \cup Elements(Tail(s))
  <2> DEFINE o == <<Head(s)>>
             t == Tail(s)
  <2>1. o \in Seq(T) /\ t \in Seq(T) /\ s = o \o t
    BY <1>3
  <2>2. Elements(o) = {Head(s)}
    BY DEF Elements
  <2> HIDE DEF o, t
  <2>3. Elements(o \o t) = Elements(o) \cup Elements(t)
    BY <2>1, ElementsConcat
  <2>4. QED
    BY <2>1, <2>2, <2>3, Zenon DEF t
<1>4. Elements(<<>>) = {} /\ Elements(s) \subseteq T
  BY <1>1 DEF Elements
<1>5. QED
  BY <1>2, <1>3, <1>4

(* A request is pushed, or the next one taken.                              *)
LEMMA AskedOne ==
  ASSUME NEW T, NEW q \in QueueOf(T)
  PROVE  /\ \A x \in T, p \in BOOLEAN : Asked(PushBack(q, x, p)) = Asked(q) \cup {x}
         /\ CanPop(q) => Asked(q) = {Front(q)} \cup Asked(PopFront(q))
         /\ Contents(q) = <<>> => Asked(q) = {}
         /\ Asked(q) \subseteq T
<1>1. q.priority \in Seq(T) /\ q.queue \in Seq(T)
  BY DEF QueueOf
<1>2. ASSUME NEW x \in T, NEW p \in BOOLEAN
      PROVE  Asked(PushBack(q, x, p)) = Asked(q) \cup {x}
  <2>1. /\ Elements(Append(q.priority, x)) = Elements(q.priority) \cup {x}
        /\ Elements(Append(q.queue, x)) = Elements(q.queue) \cup {x}
    BY <1>1, ElementsOf
  <2>2. Asked(PushBack(q, x, TRUE)) = Asked(q) \cup {x}
    <3>1. /\ PushBack(q, x, TRUE).priority = Append(q.priority, x)
          /\ PushBack(q, x, TRUE).queue = q.queue
      BY PushBackDeques
    <3>2. QED
      BY <2>1, <3>1, Zenon DEF Asked
  <2>3. Asked(PushBack(q, x, FALSE)) = Asked(q) \cup {x}
    <3>1. /\ PushBack(q, x, FALSE).queue = Append(q.queue, x)
          /\ PushBack(q, x, FALSE).priority = q.priority
      BY PushBackDeques
    <3>2. QED
      BY <2>1, <3>1, Zenon DEF Asked
  <2>4. QED
    BY <2>2, <2>3, Zenon
<1>3. ASSUME CanPop(q) PROVE Asked(q) = {Front(q)} \cup Asked(PopFront(q))
  <2>1. CASE q.priority # <<>>
    <3>1. PopFront(q).priority = Tail(q.priority) /\ PopFront(q).queue = q.queue
      BY <2>1 DEF PopFront, QueueOf
    <3>2. Front(q) = Head(q.priority)
      BY <2>1 DEF Front, Contents, QueueOf
    <3>3. Elements(q.priority) = {Head(q.priority)} \cup Elements(Tail(q.priority))
      BY <1>1, <2>1, ElementsOf
    <3>4. QED
      BY <3>1, <3>2, <3>3, Zenon DEF Asked
  <2>2. CASE q.priority = <<>>
    <3>1. q.queue # <<>> /\ Front(q) = Head(q.queue)
      BY <1>3, <2>2 DEF Front, Contents, CanPop, QueueOf
    <3>2. PopFront(q).priority = <<>> /\ PopFront(q).queue = Tail(q.queue)
      BY <2>2 DEF PopFront, QueueOf
    <3>3. Elements(q.queue) = {Head(q.queue)} \cup Elements(Tail(q.queue))
      BY <1>1, <3>1, ElementsOf
    <3>4. QED
      BY <2>2, <3>1, <3>2, <3>3, Zenon DEF Asked
  <2>3. QED
    BY <2>1, <2>2
<1>4. Contents(q) = <<>> => Asked(q) = {}
  <2>1. Contents(q) = <<>> => q.priority = <<>> /\ q.queue = <<>>
    BY <1>1 DEF Contents
  <2>2. QED
    BY <1>1, <2>1, ElementsOf DEF Asked
<1>5. Asked(q) \subseteq T
  BY <1>1, ElementsOf DEF Asked
<1>6. QED
  BY <1>2, <1>3, <1>4, <1>5

(* Several are pushed, each to the deque of its class.                      *)
LEMMA AskedMany ==
  ASSUME NEW q \in QueueOf(Requests), NEW reqs \in Seq(Requests)
  PROVE  Asked(PushRequests(q, reqs)) = Asked(q) \cup Elements(reqs)
<1> DEFINE at == {k \in DOMAIN reqs : Interactive(reqs[k])}
           other == DOMAIN reqs \ at
           a == Selected(reqs, at)
           b == Selected(reqs, other)
<1>1. at \in SUBSET DOMAIN reqs /\ other \in SUBSET DOMAIN reqs /\ at \cup other = DOMAIN reqs
  OBVIOUS
<1>2. /\ PushRequests(q, reqs).priority = q.priority \o a
      /\ PushRequests(q, reqs).queue = q.queue \o b
  BY DEF PushRequests
<1> HIDE DEF at, other
<1>3. ASSUME NEW S \in SUBSET DOMAIN reqs
      PROVE  /\ Selected(reqs, S) \in Seq(Requests)
             /\ Elements(Selected(reqs, S)) = {reqs[k] : k \in S}
  <2> DEFINE r == Selected(reqs, S)
  <2>1. /\ r \in Seq(Requests) /\ Len(r) = Cardinality(S)
        /\ \A p \in DOMAIN r : \E k \in S : r[p] = reqs[k]
    BY SelectedProperties
  <2>2. /\ DOMAIN r = 1 .. Cardinality(S)
        /\ \A k \in S : Rank(S, k) \in 1 .. Cardinality(S)
    BY <2>1, RankProperties, LenProperties
  <2>3. \A k \in S : r[Rank(S, k)] = reqs[k]
    BY SelectedAt
  <2> HIDE DEF r
  <2>4. {reqs[k] : k \in S} \subseteq Elements(r)
    BY <2>2, <2>3 DEF Elements
  <2>5. Elements(r) \subseteq {reqs[k] : k \in S}
    BY <2>1 DEF Elements
  <2>6. QED
    BY <2>1, <2>4, <2>5 DEF r
<1>4. a \in Seq(Requests) /\ Elements(a) = {reqs[k] : k \in at}
  BY <1>1, <1>3
<1>5. b \in Seq(Requests) /\ Elements(b) = {reqs[k] : k \in other}
  BY <1>1, <1>3
<1> HIDE DEF a, b
<1>6. q.priority \in Seq(Requests) /\ q.queue \in Seq(Requests)
  BY DEF QueueOf
<1>7. /\ Elements(q.priority \o a) = Elements(q.priority) \cup Elements(a)
      /\ Elements(q.queue \o b) = Elements(q.queue) \cup Elements(b)
  BY <1>4, <1>5, <1>6, ElementsConcat
<1>8. Elements(reqs) = Elements(a) \cup Elements(b)
  BY <1>1, <1>4, <1>5 DEF Elements
<1>9. QED
  BY <1>2, <1>7, <1>8, Zenon DEF Asked

(* A sort loses nothing.                                                    *)
LEMMA SortedElements ==
  ASSUME NEW T, NEW q \in Seq(T), NEW rank \in [DOMAIN q -> Int]
  PROVE  Elements(StableSort(q, rank)) = Elements(q)
<1> DEFINE S == DOMAIN q
           before(j, k) == rank[j] > rank[k] \/ (rank[j] = rank[k] /\ j <= k)
           R == {jk \in S \X S : before(jk[1], jk[2])}
           pos(k) == Cardinality({j \in S : before(j, k)})
           c(p) == CHOOSE k \in S : pos(k) = p
<1>1. S = 1 .. Len(q) /\ Len(q) \in Nat /\ S \subseteq Nat
  BY LenProperties
<1>2. IsFiniteSet(S) /\ Cardinality(S) = Len(q)
  <2>1. /\ IsFiniteSet(1 .. Len(q))
        /\ Cardinality(1 .. Len(q)) = IF 1 > Len(q) THEN 0 ELSE Len(q) - 1 + 1
    BY <1>1, FS_Interval
  <2>2. QED
    BY <1>1, <2>1
<1>3. TotalOrder(S, R)
  <2>1. \A a, b \in S : <<a, b>> \in R <=> rank[a] > rank[b] \/ (rank[a] = rank[b] /\ a <= b)
    OBVIOUS
  <2>2. \A a \in S : rank[a] \in Int
    OBVIOUS
  <2> HIDE DEF R, S
  <2>3. \A a \in S : <<a, a>> \in R
    BY <1>1, <2>1, <2>2
  <2>4. \A a, b \in S : a # b => (<<a, b>> \in R <=> ~(<<b, a>> \in R))
    BY <1>1, <2>1, <2>2, SMTT(30)
  <2>5. ASSUME NEW a \in S, NEW b \in S, NEW d \in S, <<a, b>> \in R, <<b, d>> \in R
        PROVE  <<a, d>> \in R
    <3>1. /\ rank[a] \in Int /\ rank[b] \in Int /\ rank[d] \in Int
          /\ a \in Nat /\ b \in Nat /\ d \in Nat
      BY <1>1, <2>2
    <3>2. /\ rank[a] > rank[b] \/ (rank[a] = rank[b] /\ a <= b)
          /\ rank[b] > rank[d] \/ (rank[b] = rank[d] /\ b <= d)
      BY <2>1, <2>5
    <3>3. rank[a] > rank[d] \/ (rank[a] = rank[d] /\ a <= d)
      BY <3>1, <3>2
    <3>4. QED
      BY <2>1, <3>3
  <2>6. QED
    BY <2>3, <2>4, <2>5 DEF TotalOrder
<1>4. \A k \in S : UpTo(S, R, k) = {j \in S : before(j, k)}
  BY DEF UpTo
<1>5. \A k, l \in S : pos(k) = pos(l) => k = l
  <2>1. \A k \in S : pos(k) = Cardinality(UpTo(S, R, k))
    BY <1>4
  <2> HIDE DEF R, S, pos
  <2>2. \A k, l \in S : Cardinality(UpTo(S, R, k)) = Cardinality(UpTo(S, R, l)) => k = l
    BY <1>2, <1>3, RankExists
  <2>3. QED
    BY <2>1, <2>2
<1>6. \A k \in S : pos(k) \in S
  <2>1. SUFFICES ASSUME NEW k \in S PROVE pos(k) \in S
    OBVIOUS
  <2> DEFINE U == {j \in S : before(j, k)}
  <2>2. U \subseteq S /\ k \in U
    BY <1>1
  <2> HIDE DEF U, S
  <2>3. IsFiniteSet(U) /\ Cardinality(U) <= Cardinality(S) /\ Cardinality(U) \in Nat
    BY <1>2, <2>2, FS_Subset, FS_CardinalityType
  <2>4. Cardinality(U) # 0
    BY <2>2, <2>3, FS_EmptySet
  <2>5. Cardinality(U) \in S
    BY <1>1, <1>2, <2>3, <2>4
  <2>6. QED
    BY <2>5 DEF U
<1>7. \A k \in S : c(pos(k)) = k
  <2>1. SUFFICES ASSUME NEW k \in S PROVE c(pos(k)) = k
    OBVIOUS
  <2>2. c(pos(k)) \in S /\ pos(c(pos(k))) = pos(k)
    <3> HIDE DEF pos, S
    <3>1. QED
      OBVIOUS
  <2> HIDE DEF pos, c
  <2>3. QED
    BY <1>5, <2>2
<1>8. StableSort(q, rank) = [p \in S |-> q[c(p)]]
  BY DEF StableSort
<1> HIDE DEF c, pos
<1>9. Elements(q) \subseteq Elements(StableSort(q, rank))
  BY <1>6, <1>7, <1>8 DEF Elements
<1>10. Elements(StableSort(q, rank)) \subseteq Elements(q)
  BY StableSortProperties DEF Elements
<1>11. QED
  BY <1>9, <1>10

(* So does indexerSort.                                                     *)
LEMMA AskedSorted ==
  ASSUME NEW q \in QueueOf(Requests), NEW opened \in SUBSET Files
  PROVE  Asked(IndexerSort(q, opened)) = Asked(q)
<1> DEFINE s == q.queue
           rank == [k \in DOMAIN s |-> IF s[k].path = NoPath THEN 0 ELSE Prio(opened, s[k].path)]
<1>1. s \in Seq(Requests)
  BY DEF QueueOf
<1>2. rank \in [DOMAIN s -> Int]
  <2>1. \A k \in DOMAIN s : s[k].path \in Files \cup {NoPath}
    <3>1. \A k \in DOMAIN s : s[k] \in Requests
      BY <1>1, ElementOfSeq, LenProperties
    <3>2. QED
      BY <3>1 DEF Requests
  <2>2. \A k \in DOMAIN s : (IF s[k].path = NoPath THEN 0 ELSE Prio(opened, s[k].path)) \in Int
    BY <2>1, PrioAssumption
  <2>3. QED
    BY <2>2
<1>3. /\ IndexerSort(q, opened).priority = q.priority
      /\ IndexerSort(q, opened).queue = StableSort(s, rank)
  BY DEF IndexerSort, QueueOf
<1> HIDE DEF rank
<1>4. Elements(StableSort(s, rank)) = Elements(s)
  BY <1>1, <1>2, SortedElements
<1>5. QED
  BY <1>3, <1>4, Zenon DEF Asked

(* A request that findEntry has an entry for will make the indexer look at  *)
(* the file.                                                                *)
Asks(r, f) == r.path = f /\ FindEntry(r)

(* Project::index asks for every source.                                    *)
LEMMA AskedProject ==
  ASSUME NEW q \in QueueOf(Requests), NEW opened, NEW from \in Nat
  PROVE  LET p == Asked(ProjectIndexed(q, opened, from))
         IN  /\ Asked(q) \subseteq p
             /\ \A r \in p \ Asked(q) : r.mode # "Delete"
             /\ \A s \in Sources : \E r \in p : Asks(r, s)
<1> DEFINE n == Len(Entries)
           s == ProjectRequests(opened, from)
           d == DummyRequest(from + n)
           reqs == Append(s, d)
<1>1. n \in Nat /\ \A i \in 1 .. n : Entries[i] \in Files
  BY Facts
<1>2. d \in Requests /\ d.mode # "Delete"
  BY <1>1 DEF DummyRequest, Request, Requests, Modes
<1>3. \A i \in 1 .. n : s[i] \in Requests /\ s[i].mode # "Delete" /\ Asks(s[i], Entries[i])
  <2>1. SUFFICES ASSUME NEW i \in 1 .. n
                 PROVE  s[i] \in Requests /\ s[i].mode # "Delete" /\ Asks(s[i], Entries[i])
    OBVIOUS
  <2>2. from + i - 1 \in Nat /\ Entries[i] \in Files
    BY <1>1
  <2>3. s[i] = Request(Entries[i], IF Entries[i] \in opened THEN "Normal" ELSE "Background",
                       FALSE, from + i - 1)
    BY DEF ProjectRequests
  <2>4. QED
    BY <2>2, <2>3 DEF Request, Requests, Modes, Asks, FindEntry
<1>4. s = [i \in 1 .. n |-> s[i]]
  BY DEF ProjectRequests
<1>5. \A x \in Sources : \E i \in 1 .. n : x = Entries[i]
  BY Facts DEF Sources
<1> HIDE DEF s, d, n
<1>6. s \in Seq(Requests) /\ Len(s) = n
  <2>1. s \in [1 .. n -> Requests]
    BY <1>3, <1>4
  <2>2. QED
    BY <1>1, <2>1, FunctionIsSeq
<1>7. reqs \in Seq(Requests) /\ Elements(reqs) = Elements(s) \cup {d}
  BY <1>2, <1>6, ElementsOf
<1> HIDE DEF reqs
<1>8. Asked(PushRequests(q, reqs)) = Asked(q) \cup Elements(reqs)
  BY <1>7, AskedMany
<1>9. ProjectIndexed(q, opened, from) = PushRequests(q, reqs)
  BY DEF ProjectIndexed, reqs, s, d, n
<1>10. DOMAIN s = 1 .. n
  BY <1>1, <1>6, LenProperties
<1>11. \A r \in Elements(reqs) : r.mode # "Delete"
  BY <1>2, <1>3, <1>7, <1>10 DEF Elements
<1>12. \A x \in Sources : \E r \in Elements(reqs) : Asks(r, x)
  <2>1. \A i \in 1 .. n : s[i] \in Elements(reqs)
    BY <1>7, <1>10 DEF Elements
  <2>2. QED
    BY <1>3, <1>5, <2>1
<1>13. QED
  BY <1>8, <1>9, <1>11, <1>12

(* So do those of didOpen: the file itself may be a guess, those of the     *)
(* same stem have entries.                                                  *)
LEMMA OpenRequestsAsk ==
  ASSUME NEW f \in Files, tick \in Nat
  PROVE  \A r \in Elements(OpenRequests(f)) : r.mode # "Delete" /\ FindEntry(r)
<1> DEFINE at == {k \in DOMAIN Entries : Entries[k] \in Related[f] /\ Entries[k] # f}
           related == Selected(Entries, at)
           self == IF f \in Sources \/ completed = enqueued THEN <<f>> ELSE <<>>
           all == self \o related
           n == Len(all)
           req(k) == IF k <= Len(self) THEN Request(f, "Normal", FALSE, tick)
                     ELSE Request(all[k], "Background", TRUE, tick + k - 1)
<1>1. related \in Seq(Files) /\ \A p \in DOMAIN related : related[p] \in Sources
  <2>1. at \in SUBSET DOMAIN Entries /\ Entries \in Seq(Files)
    BY Facts
  <2>2. \A k \in at : Entries[k] \in Sources
    BY DEF Sources
  <2> HIDE DEF at
  <2>3. /\ related \in Seq(Files)
        /\ \A p \in DOMAIN related : \E k \in at : related[p] = Entries[k]
    BY <2>1, SelectedProperties
  <2>4. QED
    BY <2>2, <2>3
<1>2. self \in Seq(Files)
  OBVIOUS
<1>3. OpenRequests(f) = [k \in 1 .. n |-> req(k)]
  BY DEF OpenRequests
<1> HIDE DEF related, self
<1>4. /\ n = Len(self) + Len(related) /\ Len(self) \in Nat /\ Len(related) \in Nat
      /\ DOMAIN related = 1 .. Len(related)
      /\ \A k \in Len(self) + 1 .. n : all[k] = related[k - Len(self)]
  BY <1>1, <1>2, ConcatProperties, LenProperties
<1> HIDE DEF n, all
<1>5. ASSUME NEW k \in 1 .. n PROVE req(k).mode # "Delete" /\ FindEntry(req(k))
  <2>1. CASE k <= Len(self)
    BY <2>1 DEF Request, FindEntry
  <2>2. CASE ~(k <= Len(self))
    <3>1. k - Len(self) \in DOMAIN related /\ k \in Len(self) + 1 .. n
      BY <1>4, <2>2
    <3>2. all[k] \in Sources
      BY <1>1, <1>4, <3>1
    <3>3. QED
      BY <2>2, <3>2 DEF Request, FindEntry
  <2>3. QED
    BY <2>1, <2>2
<1>6. QED
  <2> HIDE DEF req
  <2>1. QED
    BY <1>3, <1>5 DEF Elements

-----------------------------------------------------------------------------
(* The invariant.                                                           *)

(* What a parse of f meets besides f, and with it. *)
Inc(f) == Elements(Includes[f])
Unit(f) == {f} \cup Inc(f)

(* One indexer; a parse meets what the files it meets include; no file is   *)
(* ever removed, and neither the server nor a parse crashes.  Each of these *)
(* is needed: see README.md.                                                *)
OneIndexer == \E i : Indexers = {i}
IncludesClosed == \A f \in Files : \A g \in Inc(f) : Inc(g) \subseteq Inc(f)
Accidents == {"remove", "crash", "parsecrash"}
Orderly == OneIndexer /\ IncludesClosed /\ \A op \in Accidents : Budget[op] = 0

(* The indexer and its locals, what rawCacheLoad returns, the files that    *)
(* requests wait for.                                                       *)
Solo == CHOOSE i \in Indexers : TRUE
work == worker[Solo]
Cache == [f \in Files |-> RawCacheLoad(f)]
Due == {f \in Files : \E r \in Asked(index_request) : Asks(r, f)}

(* Nothing is removed, nothing crashes. *)
Spared ==
  /\ \A op \in Accidents : budget[op] = 0
  /\ \A r \in Asked(index_request) : r.mode # "Delete"

(* The caches agree. *)
Copied ==
  \A f \in Files : HasCacheDir /\ g_index[f] # NoIndex => g_index[f] = disk_cache[f]

(* Every file exists, and no time that the indexer has is of the future. *)
Written ==
  /\ \A f \in Files : /\ disk[f].exists /\ 1 <= disk[f].mtime
                      /\ vfs[f].timestamp <= disk[f].mtime
                      /\ work.seen[f] <= disk[f].mtime
  /\ work.pc # "idle" => /\ 1 <= work.time /\ work.time <= disk[work.req.path].mtime
                         /\ ~work.deleted /\ work.reparse # 2

(* An index was made from the contents it is labelled with, by a parse that *)
(* met all that the file includes.                                          *)
Genuine(f, index) ==
  /\ MadeFrom(f, index.data, index.mtime)
  /\ \E q \in Files : /\ f \in Unit(q)
                      /\ \A d \in Files : index.deps[d] # 0 <=> d \in Inc(q) \ {f}

AllGenuine == \A f \in Files : Cache[f] # NoIndex => Genuine(f, Cache[f])

(* Version t of f, or a later one, is cached; or it will be. *)
CacheHas(f, t) == Cache[f] # NoIndex /\ t <= Cache[f].mtime
Covers(f, t) == CacheHas(f, t) \/ (f \in work.claims /\ t <= work.seen[f])

(* A cached index is not newer than its file or than a claim on it, and the *)
(* versions it depends on are covered.                                      *)
Supported ==
  \A f \in Files : Cache[f] # NoIndex =>
    /\ Cache[f].mtime <= disk[f].mtime
    /\ f \in work.claims => Cache[f].mtime <= work.seen[f]
    /\ \A d \in Files : Cache[f].deps[d] # 0 => Covers(d, Cache[f].deps[d])

(* The parse is still to come, and it will claim its main file. *)
Ahead(f) ==
  /\ work.req.path = f /\ vfs[f].step < (IF NoLinkage(work.req) THEN 3 ELSE 1)
  /\ \/ work.pc = "cache" /\ work.reparse = 1
     \/ work.pc = "parse" /\ work.seen[f] = 0

(* A stamp is a promise: the version is cached and counted as loaded, or    *)
(* about to be. *)
Promised(f) ==
  \/ /\ CacheHas(f, vfs[f].timestamp)
     /\ \/ vfs[f].loaded > 0
        \/ work.pc = "load" /\ work.req.path = f
        \/ work.pc = "depload" /\ work.file = f
  \/ f \in work.claims /\ vfs[f].timestamp <= work.seen[f]
  \/ Ahead(f)

AllPromised == \A f \in Files : vfs[f].timestamp > 0 => Promised(f)

(* What the indexer knows while it loads from the cache ... *)
Loads ==
  /\ work.pc \in {"idle", "stamp", "cache", "load", "deps", "depload"} => work.seen = NoDeps
  /\ work.pc \in {"cache", "load", "deps", "depload"} => vfs[work.req.path].timestamp > 0
  /\ work.pc \in {"load", "deps", "depload"} => work.prev = Cache[work.req.path]
  /\ work.pc \in {"deps", "depload"} =>
       \A d \in Files : /\ d \in work.deps => work.prev.deps[d] # 0
                        /\ work.prev.deps[d] # 0 => d \in work.deps \/ vfs[d].timestamp > 0
  /\ work.pc = "depload" => work.prev.deps[work.file] # 0 /\ vfs[work.file].timestamp > 0

(* ... and while it parses and stores. *)
Parses ==
  /\ work.pc \in {"parse", "store", "write", "push", "count"} =>
       \A g \in Files :
         /\ g \in Unit(work.req.path) =>
              g \in Elements(work.todo) \/ (work.seen[g] > 0 /\ vfs[g].timestamp > 0)
         /\ g \in Elements(work.todo) \/ g \in work.claims \/ work.seen[g] > 0
              => g \in Unit(work.req.path)
         /\ work.seen[g] > 0 => Covers(g, work.seen[g])
  /\ work.pc = "parse" /\ work.seen[work.req.path] = 0 =>
       work.todo # <<>> /\ Head(work.todo) = work.req.path
  /\ work.pc \in {"store", "write", "push", "count"} => work.todo = <<>>
  /\ work.pc \in {"push", "count"} =>
       Cache[work.file] # NoIndex /\ Cache[work.file].mtime = work.seen[work.file]

(* What a loaded file includes has a stamp, or the loop over dependencies   *)
(* is still to meet it. *)
LoadedWhole ==
  \A f \in Files : vfs[f].loaded > 0 =>
    \A h \in Inc(f) : \/ vfs[h].timestamp > 0
                      \/ work.pc \in {"deps", "depload"} /\ h \in work.deps

(* Every source has a stamp or a request. *)
SourcesMet ==
  \A s \in Sources : \/ vfs[s].timestamp > 0 \/ s \in Due
                     \/ work.pc = "stamp" /\ work.req.path = s

(* If the last change of f was announced, what is cached or claimed of it   *)
(* is its present version, or will be replaced. *)
Current ==
  \A f \in Files \ unsaved :
    \/ f \in Due
    \/ f \in work.claims /\ work.seen[f] = disk[f].mtime
    \/ /\ f \notin work.claims
       /\ \/ Cache[f] = NoIndex
          \/ Cache[f].mtime = disk[f].mtime
          \/ work.req.path = f /\ \/ work.pc = "stamp" /\ work.time = disk[f].mtime
                                  \/ work.pc = "cache" /\ vfs[f].timestamp = disk[f].mtime
                                  \/ work.pc = "parse" /\ work.seen[f] = 0
Kept ==
  /\ Written /\ AllGenuine /\ Supported /\ AllPromised /\ Loads /\ Parses
  /\ LoadedWhole /\ SourcesMet /\ Current

-----------------------------------------------------------------------------
(* Steps of the client.                                                     *)

(* The one indexer. *)
LEMMA TheIndexer == ASSUME OneIndexer PROVE Indexers = {Solo} /\ Solo \in Indexers
<1>1. PICK i : Indexers = {i}
  BY DEF OneIndexer
<1>2. QED
  BY <1>1 DEF Solo

(* The types of what the invariant speaks of. *)
LEMMA ViewTypes ==
  ASSUME TypeOK, Parsing, OneIndexer
  PROVE  /\ work \in WorkerType /\ Locals(work)
         /\ Cache \in [Files -> IndexFiles \cup {NoIndex}]
         /\ vfs \in [Files -> FileState]
         /\ disk \in [Files -> [exists: BOOLEAN, mtime: Mtimes]]
         /\ Due \subseteq Files /\ Mtimes \subseteq Nat
<1>1. work \in WorkerType /\ Locals(work)
  BY TheIndexer, Zenon DEF TypeOK, Parsing, work
<1>2. \A f \in Files : RawCacheLoad(f) \in IndexFiles \cup {NoIndex}
  BY RawCacheLoadType DEF TypeOK
<1>3. Cache \in [Files -> IndexFiles \cup {NoIndex}]
  BY <1>2 DEF Cache
<1>4. QED
  BY <1>1, <1>3, Facts DEF TypeOK, CacheType, ClientType, Due

(* While the caches agree, only what is on disk counts, if there is a       *)
(* cache directory.                                                         *)
LEMMA CacheIs ==
  /\ Copied => \A f \in Files : Cache[f] = IF HasCacheDir THEN disk_cache[f] ELSE g_index[f]
  /\ Copied' => \A f \in Files : Cache'[f] = IF HasCacheDir THEN disk_cache'[f] ELSE g_index'[f]
  BY CacheAssumption DEF Cache, RawCacheLoad, Copied

(* A step that changes neither leaves the cache.                            *)
LEMMA CacheKept ==
  ASSUME UNCHANGED <<g_index, disk_cache>> PROVE Cache' = Cache
  BY DEF Cache, RawCacheLoad

(* A step of the client that neither rewrites a file in secret nor forgets  *)
(* a request.                                                               *)
LEMMA ClientKeeps ==
  ASSUME TypeOK, TypeOK', Parsing, OneIndexer, Kept,
         worker' = worker, vfs' = vfs, Cache' = Cache,
         \A f \in Files : disk'[f].exists /\ disk[f].mtime <= disk'[f].mtime,
         Due \subseteq Due',
         \A f \in Files \ unsaved' :
           f \in Due' \/ (f \notin unsaved /\ disk'[f].mtime = disk[f].mtime)
  PROVE  Kept'
<1>1. work' = work
  BY DEF work
<1>2. /\ Written /\ AllGenuine /\ Supported /\ AllPromised /\ Loads /\ Parses
      /\ LoadedWhole /\ SourcesMet /\ Current
  BY DEF Kept
<1>3. /\ work \in WorkerType /\ Locals(work)
      /\ Cache \in [Files -> IndexFiles \cup {NoIndex}] /\ vfs \in [Files -> FileState]
      /\ disk \in [Files -> [exists: BOOLEAN, mtime: Mtimes]]
      /\ disk' \in [Files -> [exists: BOOLEAN, mtime: Mtimes]]
      /\ Mtimes \subseteq Nat
  BY ViewTypes DEF TypeOK, ClientType
<1>4. \A f \in Files : /\ vfs[f].timestamp \in Nat /\ work.seen[f] \in Nat /\ work.time \in Nat
                       /\ disk[f].mtime \in Nat /\ disk'[f].mtime \in Nat
                       /\ Cache[f] # NoIndex => Cache[f].mtime \in Nat
  BY <1>3 DEF WorkerType, FileState, IndexFiles
<1>5. Written'
  <2>1. \A f \in Files : /\ disk'[f].exists /\ 1 <= disk'[f].mtime
                         /\ vfs[f].timestamp <= disk'[f].mtime
                         /\ work.seen[f] <= disk'[f].mtime
    BY <1>2, <1>4 DEF Written
  <2>2. work.pc # "idle" => /\ 1 <= work.time /\ work.time <= disk'[work.req.path].mtime
                            /\ ~work.deleted /\ work.reparse # 2
    <3>1. work.pc # "idle" => work.req.path \in Files
      BY <1>3 DEF Locals
    <3>2. QED
      BY <1>2, <1>4, <3>1 DEF Written
  <2>3. QED
    BY <1>1, <2>1, <2>2 DEF Written
<1>6. AllGenuine'
  BY <1>2 DEF AllGenuine, Genuine, MadeFrom
<1>7. Supported'
  BY <1>1, <1>2, <1>4 DEF Supported, Covers, CacheHas
<1>8. AllPromised'
  BY <1>1, <1>2 DEF AllPromised, Promised, Ahead, CacheHas
<1>9. Loads' /\ Parses' /\ LoadedWhole'
  BY <1>1, <1>2 DEF Loads, Parses, LoadedWhole, Covers, CacheHas
<1>10. SourcesMet'
  BY <1>1, <1>2 DEF SourcesMet
<1>11. Current'
  BY <1>1, <1>2 DEF Current
<1>12. QED
  BY <1>5, <1>6, <1>7, <1>8, <1>9, <1>10, <1>11 DEF Kept

(* Requests that are added are due.                                         *)
LEMMA DueGrows ==
  ASSUME Asked(index_request) \subseteq Asked(index_request)'
  PROVE  /\ Due \subseteq Due'
         /\ \A f \in Files : (\E r \in Asked(index_request)' : Asks(r, f)) => f \in Due'
  BY DEF Due, Asks, FindEntry

(* What the environment spends is never what it may not do at all.          *)
LEMMA SpendSpares ==
  ASSUME budget \in [Operations -> Nat], \A op \in Accidents : budget[op] = 0,
         NEW op \in Operations, Spend(op)
  PROVE  op \notin Accidents /\ \A a \in Accidents : budget'[a] = 0
<1>1. budget[op] > 0 /\ budget' = [budget EXCEPT ![op] = @ - 1]
  BY DEF Spend
<1>2. op \notin Accidents
  BY <1>1
<1>3. Accidents \subseteq Operations
  BY DEF Accidents, Operations
<1>4. ASSUME NEW a \in Accidents PROVE budget'[a] = 0
  BY <1>1, <1>2, <1>3, <1>4
<1>5. QED
  BY <1>2, <1>4

(* One request is queued: didSave and watched files.                        *)
LEMMA IndexAsks ==
  ASSUME TypeOK, NEW f \in Files, NEW mode \in Modes, NEW must \in BOOLEAN,
         Index(f, mode, must)
  PROVE  /\ Asked(index_request)' = Asked(index_request) \cup {Request(f, mode, must, tick)}
         /\ must => (Asks(Request(f, mode, must, tick), f) <=> f \in Sources)
         /\ ~must => Asks(Request(f, mode, must, tick), f)
         /\ Request(f, mode, must, tick).mode = mode
<1> DEFINE r == Request(f, mode, must, tick)
           urgent == mode # "Background"
<1>1. r \in Requests /\ index_request \in QueueOf(Requests) /\ urgent \in BOOLEAN
  BY RequestType DEF TypeOK, QueueType
<1>2. index_request' = PushBack(index_request, r, urgent)
  BY DEF Index, Enqueue
<1>3. r.path = f /\ r.mustExist = must /\ r.mode = mode
  BY DEF Request
<1> HIDE DEF r, urgent
<1>4. Asked(PushBack(index_request, r, urgent)) = Asked(index_request) \cup {r}
  BY <1>1, AskedOne
<1>5. Asked(index_request)' = Asked(index_request')
  BY DEF Asked, Elements
<1>6. QED
  BY <1>2, <1>3, <1>4, <1>5 DEF r, Asks, FindEntry

(* No step of the client disturbs the invariant, and the main thread's own  *)
(* step touches nothing of it.                                              *)
LEMMA ClientStep ==
  ASSUME TypeOK, TypeOK', Parsing, Orderly, Spared, Copied, Kept,
         \/ OnIndexed \/ UNCHANGED vars \/ DidChangeConfiguration
         \/ \E f \in Files : \/ Edit(f) \/ Remove(f) \/ DidSave(f)
                             \/ DidChangeWatchedFiles(f) \/ DidOpen(f) \/ DidClose(f)
  PROVE  Spared' /\ Copied' /\ Kept'
<1>1. /\ OneIndexer /\ Written /\ budget \in [Operations -> Nat]
      /\ disk \in [Files -> [exists: BOOLEAN, mtime: Mtimes]] /\ Mtimes \subseteq Nat
      /\ index_request \in QueueOf(Requests) /\ tick \in Nat /\ open \subseteq Files
      /\ (\A op \in Accidents : budget[op] = 0)
      /\ (\A r \in Asked(index_request) : r.mode # "Delete")
  BY Facts DEF Orderly, Kept, TypeOK, ClientType, QueueType, Spared
<1>2. \A f \in Files : disk[f].exists /\ disk[f].mtime \in Nat
  BY <1>1 DEF Written
<1>3. Asked(index_request)' = Asked(index_request')
  BY DEF Asked, Elements
<1>4. UNCHANGED <<g_index, disk_cache>> => Copied'
  BY DEF Copied
<1>5. ASSUME UNCHANGED index_request
      PROVE  Asked(index_request)' = Asked(index_request) /\ Due' = Due
  BY <1>3, <1>5 DEF Due, Asks, FindEntry
<1>6. CASE OnIndexed \/ UNCHANGED vars
  <2>1. UNCHANGED <<disk, unsaved, budget, index_request, vfs, g_index, disk_cache, worker>>
    BY <1>6 DEF OnIndexed, vars, clientVars, queueVars, indexerVars
  <2>2. Spared'
    BY <1>1, <1>5, <2>1 DEF Spared
  <2>3. Kept'
    BY <1>1, <1>2, <1>5, <2>1, CacheKept, ClientKeeps
  <2>4. QED
    BY <1>4, <2>1, <2>2, <2>3
<1>7. ASSUME NEW f \in Files, Edit(f) PROVE Spared' /\ Copied' /\ Kept'
  <2>1. /\ Spend("edit") /\ unsaved' = unsaved \cup {f}
        /\ disk' = [disk EXCEPT ![f] = [exists |-> TRUE, mtime |-> @.mtime + 1]]
        /\ UNCHANGED <<index_request, vfs, g_index, disk_cache, worker>>
    BY <1>7 DEF Edit, queueVars, unchangedByClient
  <2>2. Spared'
    <3>1. "edit" \in Operations
      BY DEF Operations
    <3>2. QED
      BY <1>1, <1>5, <2>1, <3>1, SpendSpares DEF Spared
  <2>3. /\ \A g \in Files : disk'[g].exists /\ disk[g].mtime <= disk'[g].mtime
        /\ \A g \in Files \ unsaved' : g \notin unsaved /\ disk'[g].mtime = disk[g].mtime
    BY <1>1, <1>2, <2>1
  <2>4. Kept'
    BY <1>1, <1>5, <2>1, <2>3, CacheKept, ClientKeeps
  <2>5. QED
    BY <1>4, <2>1, <2>2, <2>4
<1>8. ASSUME NEW f \in Files, Remove(f) PROVE FALSE
  BY <1>1, <1>8 DEF Remove, Spend, Accidents
<1>9. ASSUME NEW f \in Files, DidSave(f) PROVE Spared' /\ Copied' /\ Kept'
  <2>1. /\ Index(f, "Normal", FALSE) /\ unsaved' = unsaved \ {f}
        /\ UNCHANGED <<disk, budget, vfs, g_index, disk_cache, worker>>
    BY <1>9 DEF DidSave, unchangedByClient
  <2> DEFINE r == Request(f, "Normal", FALSE, tick)
  <2>2. Asked(index_request)' = Asked(index_request) \cup {r} /\ Asks(r, f) /\ r.mode = "Normal"
    <3>1. "Normal" \in Modes
      BY DEF Modes
    <3>2. QED
      BY <2>1, <3>1, IndexAsks
  <2> HIDE DEF r
  <2>3. Spared'
    BY <1>1, <2>1, <2>2 DEF Spared
  <2>4. Due \subseteq Due' /\ f \in Due'
    BY <2>2, DueGrows
  <2>5. Kept'
    BY <1>1, <1>2, <2>1, <2>4, CacheKept, ClientKeeps
  <2>6. QED
    BY <1>4, <2>1, <2>3, <2>5
<1>10. ASSUME NEW f \in Files, DidChangeWatchedFiles(f) PROVE Spared' /\ Copied' /\ Kept'
  <2> DEFINE mode == WatchedMode(f)
             r == Request(f, mode, TRUE, tick)
  <2>1. mode \in {"Normal", "Background"}
    BY <1>2 DEF WatchedMode
  <2>2. /\ Spend("watch") /\ Index(f, mode, TRUE)
        /\ unsaved' = IF f \in Sources THEN unsaved \ {f} ELSE unsaved
        /\ UNCHANGED <<disk, vfs, g_index, disk_cache, worker>>
    BY <1>10, <2>1 DEF DidChangeWatchedFiles, unchangedByClient
  <2> HIDE DEF mode
  <2>3. /\ Asked(index_request)' = Asked(index_request) \cup {r} /\ r.mode = mode
        /\ f \in Sources => Asks(r, f)
    <3>1. mode \in Modes
      BY <2>1 DEF Modes
    <3>2. QED
      BY <2>2, <3>1, IndexAsks
  <2> HIDE DEF r
  <2>4. Spared'
    <3>1. "watch" \in Operations
      BY DEF Operations
    <3>2. \A op \in Accidents : budget'[op] = 0
      BY <1>1, <2>2, <3>1, SpendSpares
    <3>3. QED
      BY <1>1, <2>1, <2>3, <3>2 DEF Spared
  <2>5. Due \subseteq Due' /\ (f \in Sources => f \in Due')
    BY <2>3, DueGrows
  <2>6. Kept'
    BY <1>1, <1>2, <2>2, <2>5, CacheKept, ClientKeeps
  <2>7. QED
    BY <1>4, <2>2, <2>4, <2>6
<1>11. ASSUME NEW f \in Files, DidOpen(f) PROVE Spared' /\ Copied' /\ Kept'
  <2> DEFINE reqs == OpenRequests(f)
             q == PushRequests(index_request, reqs)
  <2>1. /\ Spend("open") /\ open' = open \cup {f}
        /\ index_request' = IndexerSort(q, open')
        /\ unsaved' = IF f \in {reqs[k].path : k \in DOMAIN reqs} THEN unsaved \ {f} ELSE unsaved
        /\ UNCHANGED <<disk, vfs, g_index, disk_cache, worker>>
    BY <1>11 DEF DidOpen
  <2>2. reqs \in Seq(Requests) /\ \A r \in Elements(reqs) : r.mode # "Delete" /\ FindEntry(r)
    BY <1>1, OpenRequestsType, OpenRequestsAsk
  <2>3. \A k \in DOMAIN reqs : reqs[k] \in Elements(reqs)
    BY DEF Elements
  <2> HIDE DEF reqs
  <2>4. q \in QueueOf(Requests) /\ Asked(q) = Asked(index_request) \cup Elements(reqs)
    BY <1>1, <2>2, PushRequestsType, AskedMany
  <2> HIDE DEF q
  <2>5. Asked(index_request)' = Asked(index_request) \cup Elements(reqs)
    BY <1>1, <1>3, <2>1, <2>4, AskedSorted
  <2>6. Spared'
    <3>1. "open" \in Operations
      BY DEF Operations
    <3>2. \A op \in Accidents : budget'[op] = 0
      BY <1>1, <2>1, <3>1, SpendSpares
    <3>3. QED
      BY <1>1, <2>2, <2>5, <3>2 DEF Spared
  <2>7. Due \subseteq Due' /\ (f \in {reqs[k].path : k \in DOMAIN reqs} => f \in Due')
    BY <2>2, <2>3, <2>5, DueGrows DEF Asks
  <2>8. Kept'
    BY <1>1, <1>2, <2>1, <2>7, CacheKept, ClientKeeps
  <2>9. QED
    BY <1>4, <2>1, <2>6, <2>8
<1>12. ASSUME NEW f \in Files, DidClose(f) PROVE Spared' /\ Copied' /\ Kept'
  <2>1. /\ Spend("close") /\ disk_cache' = disk_cache
        /\ g_index' = IF HasCacheDir THEN [g_index EXCEPT ![f] = NoIndex] ELSE g_index
        /\ UNCHANGED <<disk, unsaved, index_request, vfs, worker>>
    BY <1>12 DEF DidClose, queueVars
  <2>2. Spared'
    <3>1. "close" \in Operations
      BY DEF Operations
    <3>2. \A op \in Accidents : budget'[op] = 0
      BY <1>1, <2>1, <3>1, SpendSpares
    <3>3. QED
      BY <1>1, <1>5, <2>1, <3>2 DEF Spared
  <2>3. g_index \in [Files -> IndexFiles \cup {NoIndex}]
    BY DEF TypeOK, CacheType
  <2>4. Copied'
    BY <2>1, <2>3 DEF Copied
  <2>5. Cache' = Cache
    <3>1. \A g \in Files : Cache[g] = IF HasCacheDir THEN disk_cache[g] ELSE g_index[g]
      BY CacheIs
    <3>2. \A g \in Files : Cache'[g] = IF HasCacheDir THEN disk_cache'[g] ELSE g_index'[g]
      BY <2>4, CacheIs
    <3>3. \A g \in Files : Cache'[g] = Cache[g]
      BY <2>1, <3>1, <3>2
    <3>4. QED
      BY <3>3 DEF Cache
  <2>6. Kept'
    BY <1>1, <1>2, <1>5, <2>1, <2>5, ClientKeeps
  <2>7. QED
    BY <2>2, <2>4, <2>6
<1>13. CASE DidChangeConfiguration
  <2>1. /\ Spend("configure") /\ unsaved' = unsaved \ ExistingSources
        /\ index_request' = ProjectIndexed(index_request, open, tick)
        /\ UNCHANGED <<disk, vfs, g_index, disk_cache, worker>>
    BY <1>13 DEF DidChangeConfiguration, ProjectIndex, unchangedByClient
  <2> DEFINE p == Asked(ProjectIndexed(index_request, open, tick))
  <2>2. /\ Asked(index_request)' = p /\ Asked(index_request) \subseteq p
        /\ \A r \in p \ Asked(index_request) : r.mode # "Delete"
        /\ \A s \in Sources : \E r \in p : Asks(r, s)
    BY <1>1, <1>3, <2>1, AskedProject
  <2> HIDE DEF p
  <2>3. Spared'
    <3>1. "configure" \in Operations
      BY DEF Operations
    <3>2. \A op \in Accidents : budget'[op] = 0
      BY <1>1, <2>1, <3>1, SpendSpares
    <3>3. QED
      BY <1>1, <2>2, <3>2 DEF Spared
  <2>4. Due \subseteq Due' /\ Sources \subseteq Due'
    BY <2>2, DueGrows, Facts
  <2>5. Kept'
    BY <1>1, <1>2, <2>1, <2>4, CacheKept, ClientKeeps DEF ExistingSources
  <2>6. QED
    BY <1>4, <2>1, <2>3, <2>5
<1>14. QED
  BY <1>6, <1>7, <1>8, <1>9, <1>10, <1>11, <1>12, <1>13

(* The server starts again with what is cached or with nothing, while       *)
(* nothing was under way.                                                   *)
LEMMA StartKeeps ==
  ASSUME TypeOK, Parsing, OneIndexer, Kept,
         work.pc = "idle", Due = {},
         work'.pc = "idle", work'.claims = {}, work'.seen = NoDeps,
         vfs' = [f \in Files |-> FreshState], disk' = disk,
         Cache' = Cache \/ \A f \in Files : Cache'[f] = NoIndex,
         Sources \subseteq Due', unsaved' = unsaved \ ExistingSources
  PROVE  Kept'
<1>1. /\ Written /\ AllGenuine /\ Supported /\ Loads /\ Current
  BY DEF Kept
<1>2. /\ work \in WorkerType /\ work.claims = {}
      /\ Cache \in [Files -> IndexFiles \cup {NoIndex}]
      /\ disk \in [Files -> [exists: BOOLEAN, mtime: Mtimes]] /\ Mtimes \subseteq Nat
  BY ViewTypes DEF Locals
<1>3. \A f \in Files : /\ vfs'[f].timestamp = 0 /\ vfs'[f].loaded = 0 /\ work'.seen[f] = 0
                       /\ disk[f].mtime \in Nat
  BY <1>2 DEF FreshState, NoDeps
<1>4. Written'
  BY <1>1, <1>3 DEF Written
<1>5. AllGenuine'
  BY <1>1 DEF AllGenuine, Genuine, MadeFrom
<1>6. Supported'
  <2>1. CASE Cache' = Cache
    BY <1>1, <1>2, <2>1 DEF Supported, Covers, CacheHas
  <2>2. CASE \A f \in Files : Cache'[f] = NoIndex
    BY <2>2 DEF Supported
  <2>3. QED
    BY <2>1, <2>2
<1>7. AllPromised' /\ LoadedWhole'
  BY <1>3 DEF AllPromised, LoadedWhole
<1>8. Loads' /\ Parses'
  BY DEF Loads, Parses
<1>9. SourcesMet'
  BY DEF SourcesMet
<1>10. Current'
  <2>1. SUFFICES ASSUME NEW f \in Files \ unsaved', f \notin Due'
                 PROVE  Cache'[f] = NoIndex \/ Cache'[f].mtime = disk'[f].mtime
    BY DEF Current
  <2>2. f \notin unsaved
    BY <2>1 DEF ExistingSources
  <2>3. Cache[f] = NoIndex \/ Cache[f].mtime = disk[f].mtime
    BY <1>1, <1>2, <2>2 DEF Current
  <2>4. QED
    BY <2>3
<1>11. QED
  BY <1>4, <1>5, <1>6, <1>7, <1>8, <1>9, <1>10 DEF Kept

(* $ccls/reload and a restart.                                              *)
LEMMA StartStep ==
  ASSUME TypeOK, Parsing, Orderly, Spared, Copied, Kept, Undisturbed,
         Reload \/ CleanRestart \/ Crash
  PROVE  Spared' /\ Copied' /\ Kept'
<1>1. /\ OneIndexer /\ budget \in [Operations -> Nat] /\ tick \in Nat
      /\ index_request \in QueueOf(Requests)
      /\ (\A op \in Accidents : budget[op] = 0)
      /\ (\A r \in Asked(index_request) : r.mode # "Delete")
  BY DEF Orderly, TypeOK, ClientType, QueueType, Spared
<1>2. Asked(index_request)' = Asked(index_request')
  BY DEF Asked, Elements
<1>3. ~Crash
  BY <1>1 DEF Crash, Spend, Accidents
<1>4. Idle
  BY <1>3 DEF Undisturbed, CleanRestart
<1>5. work.pc = "idle" /\ Asked(index_request) = {} /\ Due = {}
  <2>1. work.pc = "idle"
    BY <1>1, <1>4, TheIndexer DEF Idle, work
  <2>2. Asked(index_request) = {}
    BY <1>1, <1>4, AskedOne DEF Idle
  <2>3. QED
    BY <2>1, <2>2 DEF Due
<1>6. Loads
  BY DEF Kept
<1>7. ASSUME NEW q \in QueueOf(Requests), NEW opened, NEW from \in Nat,
             index_request' = ProjectIndexed(q, opened, from), Asked(q) = {}
      PROVE  /\ \A r \in Asked(index_request)' : r.mode # "Delete"
             /\ Sources \subseteq Due'
  <2>1. /\ \A r \in Asked(index_request)' : r.mode # "Delete"
        /\ \A s \in Sources : \E r \in Asked(index_request)' : Asks(r, s)
    BY <1>2, <1>7, AskedProject
  <2>2. QED
    BY <1>5, <2>1, DueGrows, Facts
<1>8. CASE Reload
  <2>1. /\ Spend("reload") /\ unsaved' = unsaved \ ExistingSources
        /\ index_request' = ProjectIndexed(index_request, open, tick)
        /\ vfs' = [f \in Files |-> FreshState]
        /\ UNCHANGED <<disk, g_index, disk_cache, worker>>
    BY <1>8 DEF Reload, ProjectIndex
  <2>2. (\A r \in Asked(index_request)' : r.mode # "Delete") /\ Sources \subseteq Due'
    BY <1>1, <1>5, <1>7, <2>1
  <2>3. Spared'
    <3>1. "reload" \in Operations
      BY DEF Operations
    <3>2. QED
      BY <1>1, <2>1, <2>2, <3>1, SpendSpares DEF Spared
  <2>4. Copied' /\ Cache' = Cache
    BY <2>1, CacheKept DEF Copied
  <2>5. work' = work /\ work.claims = {} /\ work.seen = NoDeps
    BY <1>1, <1>5, <1>6, <2>1, ViewTypes DEF work, Locals, Loads
  <2>6. Kept'
    BY <1>1, <1>5, <2>1, <2>2, <2>4, <2>5, StartKeeps
  <2>7. QED
    BY <2>3, <2>4, <2>6
<1>9. CASE CleanRestart
  <2>1. /\ Spend("restart") /\ unsaved' = unsaved \ ExistingSources
        /\ index_request' = ProjectIndexed(EmptyQueue, {}, 0)
        /\ vfs' = [f \in Files |-> FreshState]
        /\ g_index' = [f \in Files |-> NoIndex]
        /\ worker' = [i \in Indexers |-> IdleWorker]
        /\ UNCHANGED <<disk, disk_cache>>
    BY <1>9 DEF CleanRestart, Restart
  <2>2. (\A r \in Asked(index_request)' : r.mode # "Delete") /\ Sources \subseteq Due'
    <3>1. EmptyQueue \in QueueOf(Requests) /\ Asked(EmptyQueue) = {}
      BY EmptyQueueProperties, AskedOne
    <3>2. QED
      BY <1>7, <2>1, <3>1
  <2>3. Spared'
    <3>1. "restart" \in Operations
      BY DEF Operations
    <3>2. QED
      BY <1>1, <2>1, <2>2, <3>1, SpendSpares DEF Spared
  <2>4. Copied'
    BY <2>1 DEF Copied
  <2>5. Cache' = Cache \/ \A f \in Files : Cache'[f] = NoIndex
    <3>1. CASE HasCacheDir
      <4>1. \A f \in Files : Cache'[f] = Cache[f]
        BY <2>1, <2>4, <3>1, CacheIs
      <4>2. QED
        BY <4>1 DEF Cache
    <3>2. CASE ~HasCacheDir
      BY <2>1, <2>4, <3>2, CacheIs
    <3>3. QED
      BY <3>1, <3>2
  <2>6. work'.pc = "idle" /\ work'.claims = {} /\ work'.seen = NoDeps
    <3>1. work' = IdleWorker
      BY <1>1, <2>1, TheIndexer DEF work
    <3>2. QED
      BY <3>1 DEF IdleWorker
  <2>7. Kept'
    BY <1>1, <1>5, <2>1, <2>2, <2>5, <2>6, StartKeeps
  <2>8. QED
    BY <2>3, <2>4, <2>7
<1>10. QED
  BY <1>3, <1>8, <1>9

-----------------------------------------------------------------------------
(* Steps of the indexer.                                                    *)

(* The numbers that the steps compare.                                      *)
LEMMA Numbers ==
  ASSUME TypeOK, Parsing, OneIndexer
  PROVE  /\ work \in WorkerType /\ worker \in [Indexers -> WorkerType] /\ Solo \in Indexers
         /\ \A f \in Files : /\ vfs[f].timestamp \in Nat /\ vfs[f].loaded \in Nat
                             /\ vfs[f].step \in Nat /\ work.seen[f] \in Nat
                             /\ disk[f].mtime \in Nat
                             /\ Cache[f] # NoIndex => Cache[f].mtime \in Nat
                             /\ LastWriteTime(f) = IF disk[f].exists THEN disk[f].mtime ELSE 0
         /\ work.time \in Nat
<1>1. /\ work \in WorkerType /\ Mtimes \subseteq Nat
      /\ Cache \in [Files -> IndexFiles \cup {NoIndex}]
      /\ vfs \in [Files -> FileState]
      /\ disk \in [Files -> [exists: BOOLEAN, mtime: Mtimes]]
  BY ViewTypes
<1>2. \A f \in Files : /\ vfs[f].timestamp \in Nat /\ vfs[f].loaded \in Nat
                       /\ vfs[f].step \in Nat /\ disk[f].mtime \in Nat
  <2>1. SUFFICES ASSUME NEW f \in Files
                 PROVE  /\ vfs[f].timestamp \in Nat /\ vfs[f].loaded \in Nat
                        /\ vfs[f].step \in Nat /\ disk[f].mtime \in Nat
    OBVIOUS
  <2>2. vfs[f] \in FileState /\ disk[f] \in [exists: BOOLEAN, mtime: Mtimes]
    BY <1>1
  <2>3. /\ vfs[f].timestamp \in Mtimes /\ vfs[f].loaded \in Nat
        /\ vfs[f].step \in 0 .. 3 /\ disk[f].mtime \in Mtimes
    BY <2>2, Zenon DEF FileState
  <2>4. \A n \in 0 .. 3 : n \in Nat
    OBVIOUS
  <2>5. QED
    BY <1>1, <2>3, <2>4, Zenon
<1>3. work.time \in Nat /\ \A f \in Files : work.seen[f] \in Nat
  BY <1>1 DEF WorkerType
<1>4. \A f \in Files : Cache[f] # NoIndex => Cache[f].mtime \in Nat
  BY <1>1 DEF IndexFiles
<1>5. QED
  BY <1>1, <1>2, <1>3, <1>4, TheIndexer DEF TypeOK, LastWriteTime

(* A step that takes no request leaves what is due.                         *)
LEMMA SameDue == ASSUME UNCHANGED index_request PROVE Due' = Due
<1>1. Asked(index_request)' = Asked(index_request)
  BY DEF Asked, Elements
<1>2. QED
  BY <1>1 DEF Due, Asks, FindEntry

(* Nothing is on its way: every stamp has been made good. *)
Settled ==
  /\ work.claims = {}
  /\ \A f \in Files : vfs[f].timestamp > 0 =>
       CacheHas(f, vfs[f].timestamp) /\ vfs[f].loaded > 0
  /\ \A f \in Files : vfs[f].loaded > 0 => \A h \in Inc(f) : vfs[h].timestamp > 0
  /\ \A s \in Sources : vfs[s].timestamp > 0 \/ s \in Due
  /\ \A f \in Files \ unsaved :
       f \in Due \/ Cache[f] = NoIndex \/ Cache[f].mtime = disk[f].mtime

(* Before a request is taken, and once it has been served, that is so.      *)
LEMMA Settles ==
  ASSUME TypeOK, Parsing, OneIndexer, Kept, work.claims = {},
         work.pc \in {"idle", "store"} \/ (work.pc = "deps" /\ work.deps = {})
  PROVE  Settled
<1>1. AllPromised /\ LoadedWhole /\ SourcesMet /\ Current
  BY DEF Kept
<1>2. /\ work.pc \notin {"load", "depload", "cache", "parse", "stamp"}
      /\ work.pc \in {"deps", "depload"} => work.deps = {}
  OBVIOUS
<1>3. \A f \in Files : vfs[f].timestamp > 0 => CacheHas(f, vfs[f].timestamp) /\ vfs[f].loaded > 0
  BY <1>1, <1>2 DEF AllPromised, Promised, Ahead
<1>4. \A f \in Files : vfs[f].loaded > 0 => \A h \in Inc(f) : vfs[h].timestamp > 0
  BY <1>1, <1>2 DEF LoadedWhole
<1>5. \A s \in Sources : vfs[s].timestamp > 0 \/ s \in Due
  BY <1>1, <1>2 DEF SourcesMet
<1>6. \A f \in Files \ unsaved :
        f \in Due \/ Cache[f] = NoIndex \/ Cache[f].mtime = disk[f].mtime
  BY <1>1, <1>2 DEF Current
<1>7. QED
  BY <1>3, <1>4, <1>5, <1>6 DEF Settled

(* A request is done with.                                                  *)
LEMMA FinishKeeps ==
  ASSUME TypeOK, Parsing, OneIndexer, Kept, Settled,
         work'.pc = "idle", work'.claims = {}, work'.seen = NoDeps,
         UNCHANGED <<vfs, disk, unsaved>>, Cache' = Cache, Due' = Due
  PROVE  Kept'
<1>1. Written /\ AllGenuine /\ Supported
  BY DEF Kept
<1>2. \A f \in Files : work'.seen[f] = 0 /\ disk[f].mtime \in Nat
  BY Numbers DEF NoDeps
<1>3. Written'
  BY <1>1, <1>2 DEF Written
<1>4. AllGenuine'
  BY <1>1 DEF AllGenuine, Genuine, MadeFrom
<1>5. Supported'
  BY <1>1 DEF Supported, Covers, CacheHas, Settled
<1>6. AllPromised'
  BY DEF AllPromised, Promised, CacheHas, Settled
<1>7. Loads' /\ Parses'
  BY DEF Loads, Parses
<1>8. LoadedWhole' /\ SourcesMet' /\ Current'
  BY DEF LoadedWhole, SourcesMet, Current, Settled
<1>9. QED
  BY <1>3, <1>4, <1>5, <1>6, <1>7, <1>8 DEF Kept

(* IdleWorker has nothing in hand.                                          *)
LEMMA FinishIdle ==
  ASSUME TypeOK, Parsing, OneIndexer, Finish(Solo)
  PROVE  work'.pc = "idle" /\ work'.claims = {} /\ work'.seen = NoDeps
<1>1. work' = IdleWorker
  BY Numbers DEF Finish, work
<1>2. QED
  BY <1>1 DEF IdleWorker

(* The next request is taken: it asks for a file that exists, or is of no   *)
(* consequence.                                                             *)
LEMMA PopStep ==
  ASSUME TypeOK, TypeOK', Parsing, OneIndexer, Spared, Kept,
         PopDummy(Solo) \/ PopNoEntry(Solo) \/ Pop(Solo)
  PROVE  Spared' /\ Kept'
<1> DEFINE r == Front(index_request)
<1>1. /\ work.pc = "idle" /\ CanPop(index_request) /\ index_request' = PopFront(index_request)
      /\ UNCHANGED <<disk, unsaved, budget, vfs, g_index, disk_cache>>
  BY DEF PopDummy, PopNoEntry, Pop, work, mainVars, clientVars, indexerVars
<1>2. index_request \in QueueOf(Requests) /\ r \in Requests
  <2>1. index_request \in QueueOf(Requests)
    BY DEF TypeOK, QueueType
  <2>2. QED
    BY <1>1, <2>1, PopFrontProperties
<1>3. Asked(index_request) = {r} \cup Asked(index_request)'
  <2>1. Asked(index_request)' = Asked(index_request')
    BY DEF Asked, Elements
  <2>2. QED
    BY <1>1, <1>2, <2>1, AskedOne
<1>4. r.mode # "Delete" /\ Spared'
  BY <1>1, <1>3 DEF Spared
<1>5. Cache' = Cache /\ Settled
  <2>1. work.claims = {}
    BY <1>1, ViewTypes DEF Locals
  <2>2. QED
    BY <1>1, <2>1, CacheKept, Settles
<1>6. /\ Due' \subseteq Due
      /\ \A f \in Files : f \in Due => f \in Due' \/ (f = r.path /\ FindEntry(r))
  BY <1>3 DEF Due, Asks, FindEntry
<1> HIDE DEF r
<1>7. CASE r.path = NoPath \/ ~FindEntry(r)
  <2>1. Due' = Due
    BY <1>6, <1>7, Facts DEF Due
  <2>2. /\ work'.pc = "idle" /\ work'.claims = {} /\ work'.seen = NoDeps
    <3>1. CASE PopDummy(Solo)
      <4>1. work' = work
        BY <3>1 DEF PopDummy, work
      <4>2. QED
        BY <1>1, <1>5, <4>1 DEF Settled, Kept, Loads
    <3>2. CASE PopNoEntry(Solo)
      BY <3>2, FinishIdle DEF PopNoEntry
    <3>3. ~Pop(Solo)
      BY <1>7 DEF Pop, r
    <3>4. QED
      BY <3>1, <3>2, <3>3
  <2>3. Kept'
    BY <1>1, <1>5, <2>1, <2>2, FinishKeeps
  <2>4. QED
    BY <1>4, <2>3
<1>8. CASE r.path # NoPath /\ FindEntry(r)
  <2> DEFINE q == r.path
  <2>1. q \in Files
    BY <1>2, <1>8 DEF Requests
  <2>2. /\ Written /\ AllGenuine /\ Supported
        /\ \A f \in Files : disk[f].exists /\ 1 <= disk[f].mtime /\ disk[f].mtime \in Nat
    BY Numbers DEF Kept, Written
  <2>3. /\ work'.pc = "stamp" /\ work'.req = r /\ work'.time = disk[q].mtime
        /\ ~work'.deleted /\ work'.reparse = 0 /\ work'.claims = {} /\ work'.seen = NoDeps
    <3> DEFINE t == LastWriteTime(q)
               e == t = 0
    <3>1. t = disk[q].mtime /\ e = FALSE
      BY <2>1, <2>2 DEF LastWriteTime
    <3>2. Pop(Solo)
      BY <1>8 DEF PopDummy, PopNoEntry, r
    <3>3. worker' = [worker EXCEPT ![Solo] = [IdleWorker EXCEPT !.pc = "stamp", !.req = r,
                        !.time = t, !.deleted = e, !.reparse = 0]]
      BY <1>4, <3>2 DEF Pop, r
    <3> HIDE DEF t, e
    <3>4. work' = [IdleWorker EXCEPT !.pc = "stamp", !.req = r,
                        !.time = t, !.deleted = e, !.reparse = 0]
      BY <3>3, Numbers DEF work
    <3>5. QED
      BY <3>1, <3>4 DEF IdleWorker
  <2>4. \A f \in Files : work'.seen[f] = 0
    BY <2>3 DEF NoDeps
  <2>5. Written'
    BY <1>1, <2>1, <2>2, <2>3, <2>4 DEF Written
  <2>6. AllGenuine'
    BY <1>5, <2>2 DEF AllGenuine, Genuine, MadeFrom
  <2>7. Supported' /\ AllPromised'
    BY <1>1, <1>5, <2>2, <2>3 DEF Supported, AllPromised, Promised, Covers, CacheHas, Settled
  <2>8. Loads' /\ Parses'
    BY <2>3 DEF Loads, Parses
  <2>9. LoadedWhole'
    BY <1>1, <1>5 DEF LoadedWhole, Settled
  <2>10. SourcesMet'
    BY <1>1, <1>5, <1>6, <2>3, Facts DEF SourcesMet, Settled
  <2>11. Current'
    BY <1>1, <1>5, <1>6, <2>3 DEF Current, Settled
  <2>12. QED
    BY <1>4, <2>5, <2>6, <2>7, <2>8, <2>9, <2>10, <2>11 DEF Kept
<1>9. QED
  BY <1>7, <1>8

(* What a parse meets are files; a file does not include itself.            *)
LEMMA Units == \A f \in Files : Inc(f) \subseteq Files /\ f \notin Inc(f) /\ Unit(f) \subseteq Files
<1>1. SUFFICES ASSUME NEW f \in Files PROVE Inc(f) \subseteq Files /\ f \notin Inc(f)
  BY DEF Unit
<1>2. Includes[f] \in Seq(Files)
  BY IncludesAssumption
<1>3. Inc(f) \subseteq Files
  BY <1>2, ElementsOf DEF Inc
<1>4. f \notin Inc(f)
  BY IncludesAssumption DEF Inc, Elements
<1>5. QED
  BY <1>3, <1>4

(* A step that takes no request and spends nothing.                         *)
LEMMA SameSpared == ASSUME Spared, UNCHANGED <<budget, index_request>> PROVE Spared'
<1>1. Asked(index_request)' = Asked(index_request)
  BY DEF Asked, Elements
<1>2. QED
  BY <1>1 DEF Spared

(* The request's stamp moves forward, and the parse or the load is still to *)
(* come; or another one has seen that version already.                      *)
LEMMA StampStep ==
  ASSUME TypeOK, Parsing, OneIndexer, Kept, Stamp(Solo)
  PROVE  Kept'
<1> DEFINE q == work.req.path
           step == IF NoLinkage(work.req) THEN 2 ELSE 0
           can == CanStamp(q, work.time, step)
           reparse == IF can THEN 1 ELSE work.reparse
<1>1. /\ work.pc = "stamp" /\ q \in Files /\ work.claims = {} /\ work.seen = NoDeps
      /\ ~work.deleted /\ work.reparse # 2 /\ 1 <= work.time /\ work.time <= disk[q].mtime
      /\ work.time > 0
  <2>1. work.pc = "stamp"
    BY DEF Stamp, work
  <2>2. QED
    BY <2>1, ViewTypes, Numbers DEF Locals, Kept, Loads, Written
<1>2. /\ UNCHANGED <<disk, unsaved, index_request, g_index, disk_cache>>
      /\ vfs' = IF can THEN Stamped(q, work.time, step) ELSE vfs
      /\ \/ /\ reparse = 0 /\ Finish(Solo)
         \/ worker' = [worker EXCEPT ![Solo] = [work EXCEPT !.pc = "cache", !.reparse = reparse]]
  BY <1>1 DEF Stamp, mainVars, clientVars, work
<1>3. /\ Written /\ AllGenuine /\ Supported /\ AllPromised /\ LoadedWhole /\ SourcesMet /\ Current
      /\ Cache' = Cache /\ Due' = Due
  BY <1>2, CacheKept, SameDue DEF Kept
<1>4. \A f \in Files : vfs[f].timestamp > 0 =>
        CacheHas(f, vfs[f].timestamp) /\ vfs[f].loaded > 0
  BY <1>1, <1>3 DEF AllPromised, Promised, Ahead
<1>5. ASSUME reparse # 0
      PROVE  /\ work'.pc = "cache" /\ work'.reparse = reparse /\ work'.req = work.req
             /\ work'.time = work.time /\ work'.deleted = work.deleted
             /\ work'.claims = {} /\ work'.seen = NoDeps
  <2> HIDE DEF reparse
  <2>1. work' = [work EXCEPT !.pc = "cache", !.reparse = reparse]
    BY <1>2, <1>5, Numbers DEF work
  <2>2. QED
    BY <1>1, <2>1, Numbers DEF WorkerType
<1>6. CASE can
  <2>1. /\ vfs'[q].timestamp = work.time /\ vfs'[q].step = step /\ vfs'[q].loaded = vfs[q].loaded
        /\ \A f \in Files \ {q} : vfs'[f] = vfs[f]
    <3>1. vfs' = [vfs EXCEPT ![q].timestamp = work.time, ![q].step = step]
      BY <1>2, <1>6 DEF Stamped
    <3>2. vfs \in [Files -> FileState]
      BY ViewTypes
    <3> HIDE DEF step
    <3>3. QED
      BY <1>1, <3>1, <3>2 DEF FileState
  <2>2. /\ work'.pc = "cache" /\ work'.reparse = 1 /\ work'.req = work.req
        /\ work'.time = work.time /\ ~work'.deleted
        /\ work'.claims = {} /\ work'.seen = NoDeps
    BY <1>1, <1>5, <1>6
  <2>3. vfs'[q].step < (IF NoLinkage(work'.req) THEN 3 ELSE 1)
    BY <2>1, <2>2
  <2>4. \A f \in Files : /\ vfs[f].timestamp > 0 => vfs'[f].timestamp > 0
                         /\ vfs'[f].loaded = vfs[f].loaded
                         /\ work'.seen[f] = 0
    BY <1>1, <2>1, <2>2, Numbers DEF NoDeps
  <2> HIDE DEF step, can, reparse
  <2>5. Written'
    BY <1>1, <1>2, <1>3, <2>1, <2>2, <2>4, Numbers DEF Written
  <2>6. AllGenuine' /\ Supported'
    BY <1>1, <1>2, <1>3, <2>2 DEF AllGenuine, Genuine, MadeFrom, Supported, Covers, CacheHas
  <2>7. AllPromised'
    <3>1. SUFFICES ASSUME NEW f \in Files, vfs'[f].timestamp > 0 PROVE Promised(f)'
      BY DEF AllPromised
    <3>2. CASE f = q
      <4>1. Ahead(f)'
        BY <2>2, <2>3, <3>2 DEF Ahead, NoLinkage, Interactive
      <4>2. QED
        BY <4>1 DEF Promised
    <3>3. CASE f # q
      BY <1>3, <1>4, <2>1, <3>1, <3>3 DEF Promised, CacheHas
    <3>4. QED
      BY <3>2, <3>3
  <2>8. Loads' /\ Parses'
    BY <1>1, <2>1, <2>2 DEF Loads, Parses
  <2>9. LoadedWhole' /\ SourcesMet'
    BY <1>1, <1>3, <2>1, <2>2, <2>4, Units, Facts DEF LoadedWhole, SourcesMet
  <2>10. Current'
    BY <1>1, <1>2, <1>3, <2>1, <2>2 DEF Current
  <2>11. QED
    BY <2>5, <2>6, <2>7, <2>8, <2>9, <2>10 DEF Kept
<1>7. CASE ~can
  <2>1. vfs' = vfs /\ reparse = work.reparse
    BY <1>2, <1>7
  <2>2. work.time <= vfs[q].timestamp /\ vfs[q].timestamp <= disk[q].mtime
    BY <1>1, <1>3, <1>7, Numbers DEF CanStamp, Written
  <2>3. CASE Finish(Solo)
    <3>1. /\ \A f \in Files : vfs[f].loaded > 0 => \A h \in Inc(f) : vfs[h].timestamp > 0
          /\ \A s \in Sources : vfs[s].timestamp > 0 \/ s \in Due
      BY <1>1, <1>3, <2>2, Numbers DEF LoadedWhole, SourcesMet
    <3>2. ASSUME NEW f \in Files \ unsaved, f \notin Due, Cache[f] # NoIndex
          PROVE  Cache[f].mtime = disk[f].mtime
      <4>1. CASE f = q /\ work.time = disk[f].mtime
        BY <1>1, <1>3, <1>4, <2>2, <3>2, <4>1, Numbers DEF CacheHas, Supported
      <4>2. CASE ~(f = q /\ work.time = disk[f].mtime)
        BY <1>1, <1>3, <3>2, <4>2 DEF Current
      <4>3. QED
        BY <4>1, <4>2
    <3>3. Settled
      BY <1>1, <1>4, <3>1, <3>2 DEF Settled
    <3>4. QED
      BY <1>2, <1>3, <2>1, <2>3, <3>3, FinishIdle, FinishKeeps
  <2>4. CASE ~Finish(Solo)
    <3>1. /\ work'.pc = "cache" /\ work'.reparse # 2 /\ work'.req = work.req
          /\ work'.time = work.time /\ ~work'.deleted
          /\ work'.claims = {} /\ work'.seen = NoDeps
      <4>1. work' = [work EXCEPT !.pc = "cache", !.reparse = work.reparse]
        <5> HIDE DEF reparse
        <5>1. worker' = [worker EXCEPT ![Solo] =
                [work EXCEPT !.pc = "cache", !.reparse = work.reparse]]
          BY <1>2, <2>1, <2>4
        <5>2. QED
          BY <5>1, Numbers DEF work
      <4>2. QED
        BY <1>1, <4>1, Numbers DEF WorkerType
    <3> HIDE DEF step, can, reparse
    <3>2. Written'
      BY <1>1, <1>2, <1>3, <2>1, <3>1, Numbers DEF Written
    <3>3. AllGenuine' /\ Supported' /\ AllPromised'
      BY <1>1, <1>2, <1>3, <1>4, <2>1, <3>1
         DEF AllGenuine, Genuine, MadeFrom, Supported, Covers, CacheHas, AllPromised, Promised
    <3>4. Loads' /\ Parses'
      BY <1>1, <2>1, <2>2, <3>1, Numbers DEF Loads, Parses
    <3>5. LoadedWhole' /\ SourcesMet'
      BY <1>1, <1>3, <2>1, <2>2, <3>1, Numbers, Facts DEF LoadedWhole, SourcesMet
    <3>6. Current'
      BY <1>1, <1>2, <1>3, <2>1, <2>2, <3>1, Numbers DEF Current
    <3>7. QED
      BY <3>2, <3>3, <3>4, <3>5, <3>6 DEF Kept
  <2>5. QED
    BY <2>3, <2>4
<1>8. QED
  BY <1>6, <1>7

(* The cache section: the parse will meet all of the unit; or the cached    *)
(* index is at least as new as the stamp.                                   *)
LEMMA CacheCheckStep ==
  ASSUME TypeOK, Parsing, OneIndexer, Kept, CacheCheck(Solo)
  PROVE  Kept'
<1> DEFINE q == work.req.path
           prev == Cache[q]
           todo == <<q>> \o Includes[q]
<1>1. /\ work.pc = "cache" /\ q \in Files /\ work.claims = {} /\ work.seen = NoDeps
      /\ vfs[q].timestamp > 0 /\ ~work.deleted /\ work.reparse # 2 /\ 1 <= work.time
      /\ work.time <= disk[q].mtime
  <2>1. work.pc = "cache"
    BY DEF CacheCheck, work
  <2>2. QED
    BY <2>1, ViewTypes DEF Locals, Kept, Loads, Written
<1>2. /\ Written /\ AllGenuine /\ Supported /\ AllPromised /\ LoadedWhole /\ SourcesMet /\ Current
  BY DEF Kept
<1>3. prev = RawCacheLoad(q)
  BY <1>1 DEF Cache
<1>4. /\ UNCHANGED <<disk, unsaved, index_request, vfs, g_index, disk_cache>>
      /\ \/ worker' = [worker EXCEPT ![Solo] = ToParse(work)]
         \/ /\ prev # NoIndex /\ ~(prev.mtime < vfs[q].timestamp)
            /\ \/ worker' = [worker EXCEPT ![Solo].pc = "load", ![Solo].prev = prev]
               \/ /\ Finish(Solo) /\ ~(work.reparse = 1 /\ vfs[q].loaded = 0)
  BY <1>3 DEF CacheCheck, MustParse, CacheInvalid, mainVars, clientVars, work
<1>5. Cache' = Cache /\ Due' = Due
  BY <1>4, CacheKept, SameDue
<1>6. \A f \in Files : /\ work'.seen = NoDeps => work'.seen[f] = 0
                       /\ vfs[f].timestamp > 0 =>
                            \/ CacheHas(f, vfs[f].timestamp) /\ vfs[f].loaded > 0
                            \/ f = q /\ Ahead(f)
  BY <1>1, <1>2 DEF AllPromised, Promised, Ahead, NoDeps
<1> HIDE DEF prev
<1>7. CASE worker' = [worker EXCEPT ![Solo] = ToParse(work)]
  <2>1. Elements(todo) = Unit(q) /\ todo # <<>> /\ Head(todo) = q
    <3> DEFINE o == <<q>>
    <3>1. Includes[q] \in Seq(Files) /\ o \in Seq(Files)
      BY <1>1, IncludesAssumption
    <3>2. Elements(o) = {q}
      BY DEF Elements
    <3>3. todo # <<>> /\ Head(todo) = q
      BY <1>1, <3>1
    <3> HIDE DEF o
    <3>4. Elements(o \o Includes[q]) = Elements(o) \cup Elements(Includes[q])
      BY <3>1, ElementsConcat
    <3>5. Elements(todo) = {q} \cup Elements(Includes[q])
      BY <3>2, <3>4, Zenon DEF o
    <3>6. QED
      BY <3>3, <3>5, Zenon DEF Unit, Inc
  <2> HIDE DEF todo
  <2>2. /\ work'.pc = "parse" /\ work'.todo = todo /\ work'.req = work.req
        /\ work'.time = work.time /\ ~work'.deleted /\ work'.reparse # 2
        /\ work'.claims = {} /\ work'.seen = NoDeps
    <3>1. work' = [work EXCEPT !.pc = "parse", !.todo = todo]
      BY <1>1, <1>7, Numbers DEF work, ToParse, todo
    <3>2. QED
      BY <1>1, <3>1, Numbers DEF WorkerType
  <2>3. Written'
    BY <1>1, <1>2, <1>4, <1>6, <2>2, Numbers DEF Written
  <2>4. AllGenuine' /\ Supported'
    BY <1>1, <1>2, <1>4, <1>5, <2>2 DEF AllGenuine, Genuine, MadeFrom, Supported, Covers, CacheHas
  <2>5. AllPromised'
    <3>1. SUFFICES ASSUME NEW f \in Files, vfs[f].timestamp > 0 PROVE Promised(f)'
      BY <1>4 DEF AllPromised
    <3>2. CASE CacheHas(f, vfs[f].timestamp) /\ vfs[f].loaded > 0
      BY <1>4, <1>5, <3>2 DEF Promised, CacheHas
    <3>3. CASE f = q /\ Ahead(f)
      <4>1. Ahead(f)'
        BY <1>4, <1>6, <2>2, <3>3 DEF Ahead, NoLinkage, Interactive
      <4>2. QED
        BY <4>1 DEF Promised
    <3>4. QED
      BY <1>6, <3>1, <3>2, <3>3
  <2>6. Loads' /\ Parses'
    <3>1. Unit(work'.req.path) = Elements(work'.todo)
      BY <2>1, <2>2
    <3>2. QED
      BY <1>6, <2>1, <2>2, <3>1 DEF Loads, Parses
  <2>7. LoadedWhole' /\ SourcesMet'
    BY <1>1, <1>2, <1>4, <1>5 DEF LoadedWhole, SourcesMet
  <2>8. Current'
    BY <1>1, <1>2, <1>4, <1>5, <1>6, <2>2 DEF Current
  <2>9. QED
    BY <2>3, <2>4, <2>5, <2>6, <2>7, <2>8 DEF Kept
<1>8. CASE worker' # [worker EXCEPT ![Solo] = ToParse(work)]
  <2>1. CacheHas(q, vfs[q].timestamp)
    BY <1>1, <1>4, <1>8, Numbers DEF CacheHas, prev
  <2>2. ASSUME NEW f \in Files \ unsaved, f \notin Due, Cache[f] # NoIndex
        PROVE  Cache[f].mtime = disk[f].mtime
    <3>1. CASE f = q /\ vfs[q].timestamp = disk[q].mtime
      BY <1>1, <1>2, <2>1, <2>2, <3>1, Numbers DEF CacheHas, Supported
    <3>2. CASE ~(f = q /\ vfs[q].timestamp = disk[q].mtime)
      BY <1>1, <1>2, <2>2, <3>2 DEF Current
    <3>3. QED
      BY <3>1, <3>2
  <2>3. CASE Finish(Solo) /\ ~(work.reparse = 1 /\ vfs[q].loaded = 0)
    <3>1. \A f \in Files : vfs[f].timestamp > 0 =>
            CacheHas(f, vfs[f].timestamp) /\ vfs[f].loaded > 0
      BY <1>1, <1>6, <2>1, <2>3, Numbers DEF Ahead
    <3>2. Settled
      BY <1>1, <1>2, <2>2, <3>1 DEF Settled, LoadedWhole, SourcesMet
    <3>3. QED
      BY <1>4, <1>5, <2>3, <3>2, FinishIdle, FinishKeeps
  <2>4. CASE worker' = [worker EXCEPT ![Solo].pc = "load", ![Solo].prev = prev]
    <3>1. /\ work'.pc = "load" /\ work'.prev = prev /\ work'.req = work.req
          /\ work'.time = work.time /\ ~work'.deleted /\ work'.reparse # 2
          /\ work'.claims = {} /\ work'.seen = NoDeps
      <4>1. work' = [work EXCEPT !.pc = "load", !.prev = prev]
        BY <2>4, Numbers DEF work
      <4>2. QED
        BY <1>1, <4>1, Numbers DEF WorkerType
    <3>2. Written'
      BY <1>1, <1>2, <1>4, <1>6, <3>1, Numbers DEF Written
    <3>3. AllGenuine' /\ Supported'
      BY <1>1, <1>2, <1>4, <1>5, <3>1
         DEF AllGenuine, Genuine, MadeFrom, Supported, Covers, CacheHas
    <3>4. AllPromised'
      BY <1>4, <1>5, <1>6, <2>1, <3>1 DEF AllPromised, Promised, CacheHas
    <3>5. Loads' /\ Parses'
      BY <1>1, <1>4, <1>5, <3>1 DEF Loads, Parses, prev
    <3>6. LoadedWhole' /\ SourcesMet'
      BY <1>1, <1>2, <1>4, <1>5 DEF LoadedWhole, SourcesMet
    <3>7. Current'
      BY <1>4, <1>5, <2>2, <3>1 DEF Current
    <3>8. QED
      BY <3>2, <3>3, <3>4, <3>5, <3>6, <3>7 DEF Kept
  <2>5. QED
    BY <1>4, <1>8, <2>3, <2>4
<1>9. QED
  BY <1>7, <1>8

(* An index names all that its file includes.                               *)
LEMMA GenuineDeps ==
  ASSUME IncludesClosed, NEW f \in Files, NEW index, Genuine(f, index)
  PROVE  /\ \A h \in Inc(f) : index.deps[h] # 0
         /\ \A d \in Files : index.deps[d] # 0 =>
              \A h \in Inc(d) : h = f \/ index.deps[h] # 0
<1>1. PICK q \in Files : /\ f \in Unit(q)
                         /\ \A d \in Files : index.deps[d] # 0 <=> d \in Inc(q) \ {f}
  BY DEF Genuine
<1>2. Inc(f) \subseteq Inc(q)
  BY <1>1 DEF IncludesClosed, Unit
<1>3. \A h \in Inc(f) : index.deps[h] # 0
  BY <1>1, <1>2, Units
<1>4. ASSUME NEW d \in Files, index.deps[d] # 0, NEW h \in Inc(d), h # f
      PROVE  index.deps[h] # 0
  <2>1. d \in Inc(q)
    BY <1>1, <1>4
  <2>2. Inc(d) \subseteq Inc(q)
    BY <1>1, <2>1 DEF IncludesClosed
  <2>3. h \in Inc(q) /\ h \in Files
    BY <1>1, <1>4, <2>2, Units
  <2>4. QED
    BY <1>1, <1>4, <2>3
<1>5. QED
  BY <1>3, <1>4

(* The cached index of the request is loaded; its dependencies are next.    *)
LEMMA CacheLoadStep ==
  ASSUME TypeOK, Parsing, OneIndexer, IncludesClosed, Kept, CacheLoad(Solo)
  PROVE  Kept'
<1> DEFINE q == work.req.path
           deps == {d \in Files : work.prev.deps[d] # 0}
<1>1. /\ work.pc = "load" /\ q \in Files /\ work.claims = {} /\ work.seen = NoDeps
      /\ vfs[q].timestamp > 0 /\ ~work.deleted /\ work.reparse # 2 /\ 1 <= work.time
      /\ work.time <= disk[q].mtime /\ work.prev = Cache[q] /\ work.prev # NoIndex
  <2>1. work.pc = "load"
    BY DEF CacheLoad, work
  <2>2. QED
    BY <2>1, ViewTypes DEF Locals, Kept, Loads, Written
<1>2. /\ Written /\ AllGenuine /\ Supported /\ AllPromised /\ LoadedWhole /\ SourcesMet /\ Current
  BY DEF Kept
<1>3. UNCHANGED <<disk, unsaved, index_request, g_index, disk_cache>>
  BY DEF CacheLoad, mainVars, clientVars
<1>4. Cache' = Cache /\ Due' = Due
  BY <1>3, CacheKept, SameDue
<1>5. /\ work'.pc = "deps" /\ work'.deps = deps /\ work'.req = work.req
      /\ work'.time = work.time /\ ~work'.deleted /\ work'.reparse # 2
      /\ work'.prev = work.prev /\ work'.claims = {} /\ work'.seen = NoDeps
  <2>1. worker' = [worker EXCEPT ![Solo].pc = "deps", ![Solo].deps = deps]
    BY DEF CacheLoad, work
  <2> HIDE DEF deps
  <2>2. work' = [work EXCEPT !.pc = "deps", !.deps = deps]
    BY <2>1, Numbers, SMTT(30) DEF work
  <2>3. QED
    BY <1>1, <2>2, Numbers DEF WorkerType
<1>6. /\ \A f \in Files : vfs'[f].timestamp = vfs[f].timestamp /\ work'.seen[f] = 0
      /\ \A f \in Files \ {q} : vfs'[f].loaded = vfs[f].loaded
      /\ vfs'[q].loaded > 0
  <2> DEFINE step == IF work.prev.noLinkage THEN 2 ELSE vfs[q].step
  <2>1. vfs' = [vfs EXCEPT ![q].loaded = @ + 1, ![q].step = step]
    BY DEF CacheLoad, work
  <2>2. vfs \in [Files -> FileState] /\ vfs[q].loaded \in Nat
    BY <1>1, ViewTypes, Numbers
  <2> HIDE DEF step
  <2>3. QED
    BY <1>1, <1>5, <2>1, <2>2 DEF FileState, NoDeps
<1>7. Written'
  BY <1>1, <1>2, <1>3, <1>5, <1>6, Numbers DEF Written
<1>8. AllGenuine' /\ Supported'
  BY <1>1, <1>2, <1>3, <1>4, <1>5 DEF AllGenuine, Genuine, MadeFrom, Supported, Covers, CacheHas
<1>9. AllPromised'
  BY <1>1, <1>2, <1>4, <1>5, <1>6 DEF AllPromised, Promised, CacheHas, Ahead
<1>10. Loads' /\ Parses'
  BY <1>1, <1>4, <1>5, <1>6 DEF Loads, Parses
<1>11. LoadedWhole'
  <2>1. SUFFICES ASSUME NEW f \in Files, vfs'[f].loaded > 0, NEW h \in Inc(f)
                 PROVE  vfs'[h].timestamp > 0 \/ h \in deps
    BY <1>5 DEF LoadedWhole
  <2>2. h \in Files
    BY Units
  <2>3. CASE f = q
    <3>1. Genuine(q, work.prev)
      BY <1>1, <1>2 DEF AllGenuine
    <3>2. QED
      BY <1>1, <2>2, <2>3, <3>1, GenuineDeps
  <2>4. CASE f # q
    BY <1>1, <1>2, <1>6, <2>1, <2>2, <2>4 DEF LoadedWhole
  <2>5. QED
    BY <2>3, <2>4
<1>12. SourcesMet' /\ Current'
  BY <1>1, <1>2, <1>3, <1>4, <1>5, <1>6, Facts DEF SourcesMet, Current
<1>13. QED
  BY <1>7, <1>8, <1>9, <1>10, <1>11, <1>12 DEF Kept

(* A dependency is stamped: the version that the index depends on is in the *)
(* cache.                                                                   *)
LEMMA DepStampStep ==
  ASSUME TypeOK, Parsing, OneIndexer, Kept, DepStamp(Solo)
  PROVE  Kept'
<1> DEFINE q == work.req.path
<1>1. /\ work.pc = "deps" /\ q \in Files /\ work.claims = {} /\ work.seen = NoDeps
      /\ vfs[q].timestamp > 0 /\ ~work.deleted /\ work.reparse # 2 /\ 1 <= work.time
      /\ work.time <= disk[q].mtime /\ work.prev = Cache[q] /\ work.prev # NoIndex
      /\ work.deps \subseteq Files
      /\ \A d \in Files : /\ d \in work.deps => work.prev.deps[d] # 0
                          /\ work.prev.deps[d] # 0 => d \in work.deps \/ vfs[d].timestamp > 0
  <2>1. work.pc = "deps"
    BY DEF DepStamp, work
  <2>2. work.deps \subseteq Files
    BY ViewTypes DEF WorkerType
  <2>3. QED
    BY <2>1, <2>2, ViewTypes DEF Locals, Kept, Loads, Written
<1>2. /\ Written /\ AllGenuine /\ Supported /\ AllPromised /\ LoadedWhole /\ SourcesMet /\ Current
  BY DEF Kept
<1>3. UNCHANGED <<disk, unsaved, index_request, g_index, disk_cache>>
  BY DEF DepStamp, mainVars, clientVars
<1>4. Cache' = Cache /\ Due' = Due
  BY <1>3, CacheKept, SameDue
<1>5. PICK d \in work.deps :
        /\ vfs' = Stamped(d, work.prev.deps[d], 1)
        /\ worker' = [worker EXCEPT ![Solo].deps = @ \ {d},
             ![Solo].pc = IF CanStamp(d, work.prev.deps[d], 1) THEN "depload" ELSE @,
             ![Solo].file = d]
  BY Zenon DEF DepStamp, work
<1> DEFINE t == work.prev.deps[d]
           pc == IF CanStamp(d, t, 1) THEN "depload" ELSE "deps"
<1>6. d \in Files /\ CacheHas(d, t) /\ t \in Nat /\ t > 0 /\ t <= disk[d].mtime
  <2>1. t \in Nat /\ t # 0 /\ d \in Files
    <3>1. work.prev \in IndexFiles /\ Mtimes \subseteq Nat /\ d \in Files
      BY <1>1, ViewTypes DEF WorkerType
    <3>2. QED
      BY <1>1, <3>1 DEF IndexFiles
  <2>2. CacheHas(d, t)
    BY <1>1, <1>2, <2>1 DEF Supported, Covers
  <2>3. QED
    BY <1>2, <2>1, <2>2, Numbers DEF Supported, CacheHas
<1>7. /\ work'.pc = pc /\ work'.deps = work.deps \ {d} /\ work'.req = work.req
      /\ work'.file = d /\ work'.time = work.time /\ ~work'.deleted /\ work'.reparse # 2
      /\ work'.prev = work.prev /\ work'.claims = {} /\ work'.seen = NoDeps
  <2> DEFINE deps == work.deps \ {d}
  <2>1. worker' = [worker EXCEPT ![Solo].deps = deps, ![Solo].pc = pc, ![Solo].file = d]
    BY <1>1, <1>5, Numbers DEF work
  <2> HIDE DEF deps, pc
  <2>2. work' = [work EXCEPT !.deps = deps, !.pc = pc, !.file = d]
    BY <2>1, Numbers DEF work
  <2>3. QED
    BY <1>1, <2>2, Numbers, SMTT(30) DEF WorkerType, deps
<1>8. /\ \A f \in Files \ {d} : vfs'[f] = vfs[f]
      /\ vfs'[d].loaded = vfs[d].loaded
      /\ IF CanStamp(d, t, 1) THEN vfs'[d].timestamp = t
         ELSE vfs'[d] = vfs[d] /\ t <= vfs[d].timestamp
  <2>1. vfs \in [Files -> FileState]
    BY ViewTypes
  <2> HIDE DEF t
  <2>2. CASE CanStamp(d, t, 1)
    <3>1. vfs' = [vfs EXCEPT ![d].timestamp = t, ![d].step = 1]
      BY <1>5, <2>2 DEF Stamped, t
    <3>2. QED
      BY <1>6, <2>1, <2>2, <3>1 DEF FileState
  <2>3. CASE ~CanStamp(d, t, 1)
    <3>1. vfs' = vfs /\ t <= vfs[d].timestamp
      BY <1>5, <1>6, <2>3, Numbers DEF Stamped, t, CanStamp
    <3>2. QED
      BY <2>3, <3>1
  <2>4. QED
    BY <2>2, <2>3
<1>9. \A f \in Files : /\ vfs[f].timestamp > 0 => vfs'[f].timestamp > 0
                       /\ vfs'[f].loaded = vfs[f].loaded /\ work'.seen[f] = 0
  BY <1>6, <1>7, <1>8, Numbers DEF NoDeps
<1>10. vfs'[d].timestamp > 0 /\ vfs'[d].timestamp <= disk[d].mtime
  BY <1>2, <1>6, <1>8, Numbers DEF Written
<1>11. pc \in {"deps", "depload"} /\ (pc = "depload" <=> CanStamp(d, t, 1))
  OBVIOUS
<1> HIDE DEF pc, t
<1>12. Written'
  BY <1>1, <1>2, <1>3, <1>7, <1>8, <1>9, <1>10, Numbers DEF Written
<1>13. AllGenuine' /\ Supported'
  BY <1>1, <1>2, <1>3, <1>4, <1>7 DEF AllGenuine, Genuine, MadeFrom, Supported, Covers, CacheHas
<1>14. AllPromised'
  <2>1. \A f \in Files : vfs[f].timestamp > 0 =>
          CacheHas(f, vfs[f].timestamp) /\ vfs[f].loaded > 0
    BY <1>1, <1>2 DEF AllPromised, Promised, Ahead
  <2>2. SUFFICES ASSUME NEW f \in Files, vfs'[f].timestamp > 0 PROVE Promised(f)'
    BY DEF AllPromised
  <2>3. CASE f = d /\ pc = "depload"
    BY <1>4, <1>6, <1>7, <1>8, <1>11, <2>3 DEF Promised, CacheHas
  <2>4. CASE ~(f = d /\ pc = "depload")
    <3>1. vfs'[f] = vfs[f]
      BY <1>8, <1>11, <2>4
    <3>2. QED
      BY <1>4, <2>1, <2>2, <3>1 DEF Promised, CacheHas
  <2>5. QED
    BY <2>3, <2>4
<1>15. Loads' /\ Parses'
  BY <1>1, <1>4, <1>7, <1>9, <1>10, <1>11 DEF Loads, Parses
<1>16. LoadedWhole'
  BY <1>1, <1>2, <1>7, <1>9, <1>10, <1>11, Units DEF LoadedWhole
<1>17. SourcesMet' /\ Current'
  BY <1>1, <1>2, <1>3, <1>4, <1>7, <1>9, Facts DEF SourcesMet, Current
<1>18. QED
  BY <1>12, <1>13, <1>14, <1>15, <1>16, <1>17 DEF Kept

(* The dependency is loaded, unless it was; what it includes is among the   *)
(* other dependencies.                                                      *)
LEMMA DepLoadStep ==
  ASSUME TypeOK, Parsing, OneIndexer, IncludesClosed, Kept, DepLoad(Solo)
  PROVE  Kept'
<1> DEFINE q == work.req.path
           d == work.file
           prev == Cache[d]
<1>1. /\ work.pc = "depload" /\ q \in Files /\ work.claims = {} /\ work.seen = NoDeps
      /\ vfs[q].timestamp > 0 /\ ~work.deleted /\ work.reparse # 2 /\ 1 <= work.time
      /\ work.time <= disk[q].mtime /\ work.prev = Cache[q] /\ work.prev # NoIndex
      /\ d \in Files /\ work.prev.deps[d] # 0 /\ vfs[d].timestamp > 0
      /\ \A x \in Files : /\ x \in work.deps => work.prev.deps[x] # 0
                          /\ work.prev.deps[x] # 0 => x \in work.deps \/ vfs[x].timestamp > 0
  <2>1. work.pc = "depload"
    BY DEF DepLoad, work
  <2>2. QED
    BY <2>1, ViewTypes DEF Locals, Kept, Loads, Written
<1>2. /\ Written /\ AllGenuine /\ Supported /\ AllPromised /\ LoadedWhole /\ SourcesMet /\ Current
  BY DEF Kept
<1>3. UNCHANGED <<disk, unsaved, index_request, g_index, disk_cache>>
  BY DEF DepLoad, mainVars, clientVars
<1>4. Cache' = Cache /\ Due' = Due
  BY <1>3, CacheKept, SameDue
<1>5. \A f \in Files : vfs[f].timestamp > 0 =>
        CacheHas(f, vfs[f].timestamp) /\ (vfs[f].loaded > 0 \/ f = d)
  BY <1>1, <1>2 DEF AllPromised, Promised, Ahead
<1>6. prev # NoIndex /\ vfs[d].timestamp <= prev.mtime /\ prev.mtime <= disk[d].mtime
  BY <1>1, <1>2, <1>5 DEF CacheHas, Supported
<1>7. /\ work'.pc = "deps" /\ work'.deps = work.deps /\ work'.req = work.req
      /\ work'.time = work.time /\ ~work'.deleted /\ work'.reparse # 2
      /\ work'.prev = work.prev /\ work'.claims = {} /\ work'.seen = NoDeps
  <2>1. worker' = [worker EXCEPT ![Solo].pc = "deps", ![Solo].file = NoPath]
    BY DEF DepLoad, work
  <2>2. work' = [work EXCEPT !.pc = "deps", !.file = NoPath]
    BY <2>1, Numbers DEF work
  <2>3. QED
    BY <1>1, <2>2, Numbers DEF WorkerType
<1>8. /\ \A f \in Files \ {d} : vfs'[f] = vfs[f]
      /\ vfs'[d].loaded > 0 /\ vfs'[d].timestamp \in {vfs[d].timestamp, prev.mtime}
  <2>1. vfs \in [Files -> FileState] /\ vfs[d].loaded \in Nat
    BY <1>1, ViewTypes, Numbers
  <2>2. prev = RawCacheLoad(d)
    BY <1>1 DEF Cache
  <2> DEFINE step == IF prev.noLinkage THEN 3 ELSE vfs[d].step
             m == prev.mtime
  <2>3. vfs' = IF vfs[d].loaded = 0
                 THEN [vfs EXCEPT ![d].loaded = @ + 1, ![d].timestamp = m, ![d].step = step]
                 ELSE vfs
    BY <1>6, <2>2 DEF DepLoad, work
  <2> HIDE DEF step, m
  <2>4. CASE vfs[d].loaded = 0
    <3>1. vfs' = [vfs EXCEPT ![d].loaded = @ + 1, ![d].timestamp = m, ![d].step = step]
      BY <2>3, <2>4
    <3>2. QED
      BY <1>1, <2>1, <3>1 DEF FileState, m
  <2>5. CASE vfs[d].loaded # 0
    BY <2>1, <2>3, <2>5
  <2>6. QED
    BY <2>4, <2>5
<1>9. /\ vfs'[d].timestamp > 0 /\ vfs'[d].timestamp <= disk[d].mtime
      /\ vfs'[d].timestamp <= prev.mtime
  BY <1>1, <1>2, <1>6, <1>8, Numbers DEF Written
<1>10. \A f \in Files : /\ vfs[f].timestamp > 0 => vfs'[f].timestamp > 0
                        /\ work'.seen[f] = 0
  BY <1>7, <1>8, <1>9, Numbers DEF NoDeps
<1>11. Written'
  BY <1>1, <1>2, <1>3, <1>7, <1>8, <1>9, <1>10, Numbers DEF Written
<1>12. AllGenuine' /\ Supported'
  BY <1>1, <1>2, <1>3, <1>4, <1>7 DEF AllGenuine, Genuine, MadeFrom, Supported, Covers, CacheHas
<1>13. AllPromised'
  BY <1>4, <1>5, <1>6, <1>8, <1>9 DEF AllPromised, Promised, CacheHas
<1>14. Loads' /\ Parses'
  BY <1>1, <1>4, <1>7, <1>10 DEF Loads, Parses
<1>15. LoadedWhole'
  <2>1. SUFFICES ASSUME NEW f \in Files, vfs'[f].loaded > 0, NEW h \in Inc(f)
                 PROVE  vfs'[h].timestamp > 0 \/ h \in work.deps
    BY <1>7 DEF LoadedWhole
  <2>2. h \in Files
    BY Units
  <2>3. CASE f = d
    <3>1. Genuine(q, work.prev)
      BY <1>1, <1>2 DEF AllGenuine
    <3>2. h = q \/ work.prev.deps[h] # 0
      BY <1>1, <2>3, <3>1, GenuineDeps
    <3>3. QED
      BY <1>1, <1>10, <2>2, <3>2
  <2>4. CASE f # d
    BY <1>2, <1>8, <1>10, <2>1, <2>2, <2>4 DEF LoadedWhole
  <2>5. QED
    BY <2>3, <2>4
<1>16. SourcesMet' /\ Current'
  BY <1>1, <1>2, <1>3, <1>4, <1>7, <1>10, Facts DEF SourcesMet, Current
<1>17. QED
  BY <1>11, <1>12, <1>13, <1>14, <1>15, <1>16 DEF Kept

(* The request has been served.                                             *)
LEMMA DoneStep ==
  ASSUME TypeOK, Parsing, OneIndexer, Kept, DepsDone(Solo) \/ StoreDone(Solo)
  PROVE  Kept'
<1>1. /\ Finish(Solo)
      /\ \/ work.pc = "deps" /\ work.deps = {}
         \/ work.pc = "store" /\ work.claims = {}
      /\ UNCHANGED <<disk, unsaved, index_request, vfs, g_index, disk_cache>>
  BY DEF DepsDone, StoreDone, work, mainVars, clientVars, indexerVars
<1>2. work.claims = {}
  BY <1>1, ViewTypes DEF Locals
<1>3. Settled
  BY <1>1, <1>2, Settles
<1>4. Cache' = Cache /\ Due' = Due
  BY <1>1, CacheKept, SameDue
<1>5. QED
  BY <1>1, <1>3, <1>4, FinishIdle, FinishKeeps

(* The parse meets a file: it claims the present version, or that version   *)
(* is cached already.                                                       *)
LEMMA SeenFileStep ==
  ASSUME TypeOK, Parsing, OneIndexer, Kept, SeenFile(Solo)
  PROVE  Kept'
<1> DEFINE q == work.req.path
           step == IF NoLinkage(work.req) THEN 3 ELSE 1
<1>1. /\ work.pc = "parse" /\ work.todo # <<>> /\ work.todo \in Seq(Files) /\ q \in Files
      /\ Elements(work.todo) \cap work.claims = {} /\ work.claims \subseteq Files
      /\ ~work.deleted /\ work.reparse # 2 /\ 1 <= work.time /\ work.time <= disk[q].mtime
      /\ work.seen \in [Files -> Mtimes]
  <2>1. work.pc = "parse" /\ work.todo # <<>>
    BY DEF SeenFile, work
  <2>2. /\ work.todo \in Seq(Files) /\ work.claims \subseteq Files
        /\ work.seen \in [Files -> Mtimes]
    BY ViewTypes DEF WorkerType
  <2>3. QED
    BY <2>1, <2>2, ViewTypes DEF Locals, Kept, Written
<1>2. /\ Written /\ AllGenuine /\ Supported /\ AllPromised /\ LoadedWhole /\ SourcesMet /\ Current
      /\ Parses
  BY DEF Kept
<1>3. UNCHANGED <<disk, unsaved, index_request, g_index, disk_cache>>
  BY DEF SeenFile, mainVars, clientVars
<1>4. Cache' = Cache /\ Due' = Due
  BY <1>3, CacheKept, SameDue
<1>5. PICK f \in Files : /\ f = Head(work.todo) /\ f \notin work.claims
                         /\ Elements(work.todo) = {f} \cup Elements(Tail(work.todo))
  BY <1>1, ElementsOf
<1>6. PICK now \in Nat : now = disk[f].mtime /\ 1 <= now /\ LastWriteTime(f) = now
  BY <1>2, <1>5, Numbers DEF Written
<1>7. work.seen[q] = 0 => f = q
  BY <1>1, <1>2, <1>5 DEF Parses
<1> DEFINE can == CanStamp(f, now, step)
           claims == IF can THEN work.claims \cup {f} ELSE work.claims
           todo == Tail(work.todo)
           seen == [work.seen EXCEPT ![f] = now]
           new == [work EXCEPT !.todo = todo, !.seen = seen, !.claims = claims]
<1>8. /\ vfs' = IF can THEN Stamped(f, now, step) ELSE vfs
      /\ worker' = [worker EXCEPT ![Solo] = new]
  <2> DEFINE time == LastWriteTime(f)
             claimed == time # 0 /\ CanStamp(f, time, step)
  <2>1. /\ vfs' = IF claimed THEN Stamped(f, time, step) ELSE vfs
        /\ worker' = [worker EXCEPT ![Solo].todo = Tail(@), ![Solo].seen[f] = time,
                        ![Solo].claims = IF claimed THEN @ \cup {f} ELSE @]
    BY <1>5 DEF SeenFile, work
  <2>2. time = now /\ (claimed <=> can)
    BY <1>6
  <2> HIDE DEF time, claimed, can, step
  <2>3. CASE can
    <3> DEFINE more == work.claims \cup {f}
    <3>1. worker' = [worker EXCEPT ![Solo].todo = todo, ![Solo].seen = seen, ![Solo].claims = more]
      BY <2>1, <2>2, <2>3, Numbers DEF work, WorkerType
    <3>2. claims = more
      BY <2>3
    <3> HIDE DEF todo, seen, more, claims
    <3>3. QED
      BY <2>1, <2>2, <2>3, <3>1, <3>2, Numbers DEF work
  <2>4. CASE ~can
    <3>1. worker' = [worker EXCEPT ![Solo].todo = todo, ![Solo].seen = seen]
      BY <2>1, <2>2, <2>4, Numbers DEF work, WorkerType
    <3>2. claims = work.claims
      BY <2>4
    <3> HIDE DEF todo, seen, claims
    <3>3. new = [work EXCEPT !.todo = todo, !.seen = seen]
      BY <3>2, Numbers DEF WorkerType
    <3> HIDE DEF new
    <3>4. worker' = [worker EXCEPT ![Solo] = new]
      BY <3>1, <3>3, Numbers DEF work
    <3>5. QED
      BY <2>1, <2>2, <2>4, <3>4
  <2>5. QED
    BY <2>3, <2>4
<1>9. /\ work'.pc = "parse" /\ work'.todo = Tail(work.todo) /\ work'.req = work.req
      /\ work'.time = work.time /\ ~work'.deleted /\ work'.reparse # 2
      /\ work'.claims = claims
      /\ work'.seen[f] = now /\ \A g \in Files \ {f} : work'.seen[g] = work.seen[g]
  <2>1. seen[f] = now /\ \A g \in Files \ {f} : seen[g] = work.seen[g]
    BY <1>1, <1>5
  <2> HIDE DEF todo, seen, claims, new
  <2>2. work' = new
    BY <1>8, Numbers DEF work
  <2>3. QED
    BY <1>1, <2>1, <2>2, Numbers DEF WorkerType, todo, new
<1>10. /\ \A g \in Files \ {f} : vfs'[g] = vfs[g]
       /\ vfs'[f].loaded = vfs[f].loaded /\ vfs'[f].timestamp = now
       /\ ~can => vfs' = vfs /\ step <= vfs[f].step
  <2>1. vfs \in [Files -> FileState]
    BY ViewTypes
  <2>2. CASE can
    <3>1. vfs' = [vfs EXCEPT ![f].timestamp = now, ![f].step = step]
      BY <1>8, <2>2 DEF Stamped
    <3> HIDE DEF step, can
    <3>2. QED
      BY <1>5, <2>1, <2>2, <3>1 DEF FileState
  <2>3. CASE ~can
    <3>1. vfs' = vfs
      BY <1>8, <2>3
    <3>2. vfs[f].timestamp = now /\ step <= vfs[f].step
      BY <1>2, <1>5, <1>6, <2>3, Numbers DEF CanStamp, Written
    <3>3. QED
      BY <3>1, <3>2
  <2>4. QED
    BY <2>2, <2>3
<1>11. ~can => CacheHas(f, now)
  <2>1. SUFFICES ASSUME ~can PROVE CacheHas(f, now)
    OBVIOUS
  <2>2. vfs[f].timestamp = now /\ vfs[f].timestamp > 0 /\ ~(vfs[f].step < step)
    BY <1>5, <1>6, <1>10, <2>1, Numbers
  <2>3. Promised(f) /\ ~Ahead(f)
    BY <1>2, <1>5, <2>2 DEF AllPromised, Ahead
  <2>4. QED
    BY <1>5, <2>2, <2>3 DEF Promised
<1>12. /\ f \in claims <=> can
       /\ \A g \in Files \ {f} : g \in claims <=> g \in work.claims
       /\ claims \subseteq Files
  BY <1>1, <1>5
<1> HIDE DEF can, step, claims, new
<1> DEFINE next(g, t) == CacheHas(g, t) \/ (g \in claims /\ t <= work'.seen[g])
<1>13. \A g \in Files : \A t : Covers(g, t) => next(g, t)
  BY <1>5, <1>9, <1>12 DEF Covers
<1>14. next(f, now)
  BY <1>6, <1>9, <1>11, <1>12
<1>15. Written'
  <2>1. \A g \in Files : /\ disk[g].exists /\ 1 <= disk[g].mtime
                         /\ vfs'[g].timestamp <= disk[g].mtime
                         /\ work'.seen[g] <= disk[g].mtime
    BY <1>2, <1>6, <1>9, <1>10, Numbers DEF Written
  <2>2. QED
    BY <1>1, <1>3, <1>9, <2>1 DEF Written
<1>16. AllGenuine'
  BY <1>2, <1>4 DEF AllGenuine, Genuine, MadeFrom
<1>17. Supported'
  <2>1. SUFFICES ASSUME NEW g \in Files, Cache[g] # NoIndex
                 PROVE  /\ Cache[g].mtime <= disk[g].mtime
                        /\ g \in claims => Cache[g].mtime <= work'.seen[g]
                        /\ \A d \in Files : Cache[g].deps[d] # 0 => next(d, Cache[g].deps[d])
    BY <1>3, <1>4, <1>9 DEF Supported, Covers, CacheHas
  <2>2. Cache[g].mtime <= disk[g].mtime
    BY <1>2, <2>1 DEF Supported
  <2>3. g \in claims => Cache[g].mtime <= work'.seen[g]
    BY <1>2, <1>6, <1>9, <1>12, <2>1, <2>2 DEF Supported
  <2> HIDE DEF next
  <2>4. \A d \in Files : Cache[g].deps[d] # 0 => next(d, Cache[g].deps[d])
    BY <1>2, <1>13, <2>1 DEF Supported
  <2>5. QED
    BY <2>2, <2>3, <2>4
<1>18. AllPromised'
  <2>1. SUFFICES ASSUME NEW g \in Files, vfs'[g].timestamp > 0 PROVE Promised(g)'
    BY DEF AllPromised
  <2>2. CASE g = f /\ can
    BY <1>6, <1>9, <1>10, <1>12, <2>2 DEF Promised
  <2>3. CASE ~(g = f /\ can)
    <3>1. vfs'[g] = vfs[g] /\ Promised(g)
      BY <1>2, <1>10, <2>1, <2>3 DEF AllPromised
    <3>2. ~Ahead(g)
      <4>1. CASE g = f
        BY <1>5, <1>6, <1>10, <2>3, <4>1, Numbers DEF Ahead, step
      <4>2. CASE g # f
        BY <1>1, <1>7, <4>2 DEF Ahead
      <4>3. QED
        BY <4>1, <4>2
    <3>3. QED
      BY <1>1, <1>4, <1>5, <1>9, <1>12, <2>3, <3>1, <3>2 DEF Promised, CacheHas
  <2>4. QED
    BY <2>2, <2>3
<1>19. Loads'
  BY <1>9 DEF Loads
<1>20. Parses'
  <2>1. work'.seen[q] # 0
    BY <1>1, <1>6, <1>7, <1>9
  <2> DEFINE rest == Tail(work.todo)
             met(g) == /\ g \in Unit(q) =>
                            g \in Elements(rest) \/ (work'.seen[g] > 0 /\ vfs'[g].timestamp > 0)
                       /\ g \in Elements(rest) \/ g \in claims \/ work'.seen[g] > 0 => g \in Unit(q)
                       /\ work'.seen[g] > 0 => next(g, work'.seen[g])
  <2>2. ASSUME NEW g \in Files PROVE met(g)
    <3>1. /\ g \in Unit(q) =>
               g \in Elements(work.todo) \/ (work.seen[g] > 0 /\ vfs[g].timestamp > 0)
          /\ g \in Elements(work.todo) \/ g \in work.claims \/ work.seen[g] > 0 => g \in Unit(q)
          /\ work.seen[g] > 0 => Covers(g, work.seen[g])
      BY <1>1, <1>2 DEF Parses
    <3> HIDE DEF next
    <3>2. CASE g = f
      BY <1>5, <1>6, <1>9, <1>10, <1>14, <3>1, <3>2
    <3>3. CASE g # f
      BY <1>5, <1>9, <1>10, <1>12, <1>13, <3>1, <3>3, Numbers
    <3>4. QED
      BY <3>2, <3>3
  <2> HIDE DEF next, rest
  <2>3. \A g \in Files :
          /\ g \in Unit(work'.req.path) =>
               g \in Elements(work'.todo) \/ (work'.seen[g] > 0 /\ vfs'[g].timestamp > 0)
          /\ g \in Elements(work'.todo) \/ g \in work'.claims \/ work'.seen[g] > 0
               => g \in Unit(work'.req.path)
    BY <1>9, <2>2 DEF rest
  <2>4. \A g \in Files : work'.seen[g] > 0 => next(g, work'.seen[g])
    BY <2>2
  <2>5. \A g \in Files : work'.seen[g] > 0 => Covers(g, work.seen[g])'
    BY <1>4, <1>9, <2>4 DEF next, Covers, CacheHas
  <2>6. QED
    BY <1>9, <2>1, <2>3, <2>5 DEF Parses
<1>21. LoadedWhole' /\ SourcesMet'
  <2>1. \A g \in Files : /\ vfs[g].timestamp > 0 => vfs'[g].timestamp > 0
                         /\ vfs'[g].loaded = vfs[g].loaded
    BY <1>6, <1>10
  <2>2. LoadedWhole'
    BY <1>1, <1>2, <2>1, Units DEF LoadedWhole
  <2>3. SourcesMet'
    BY <1>1, <1>2, <1>4, <2>1, Facts DEF SourcesMet
  <2>4. QED
    BY <2>2, <2>3
<1>22. Current'
  <2>1. SUFFICES ASSUME NEW g \in Files \ unsaved, g \notin Due
                 PROVE  \/ g \in claims /\ work'.seen[g] = disk[g].mtime
                        \/ /\ g \notin claims
                           /\ \/ Cache[g] = NoIndex
                              \/ Cache[g].mtime = disk[g].mtime
                              \/ q = g /\ work'.seen[g] = 0
    BY <1>3, <1>4, <1>9 DEF Current
  <2>2. CASE g = f
    BY <1>2, <1>6, <1>9, <1>11, <1>12, <2>2, Numbers DEF CacheHas, Supported
  <2>3. CASE g # f
    BY <1>1, <1>2, <1>9, <1>12, <2>1, <2>3 DEF Current
  <2>4. QED
    BY <2>2, <2>3
<1>23. QED
  BY <1>15, <1>16, <1>17, <1>18, <1>19, <1>20, <1>21, <1>22 DEF Kept

(* The parse ends having seen its main file; a store reads what it needs,   *)
(* and pushes what it wrote.                                                *)
LEMMA StorePlainStep ==
  ASSUME TypeOK, Parsing, OneIndexer, Kept,
         ParseEnd(Solo) \/ StoreRead(Solo) \/ StorePush(Solo)
  PROVE  Kept'
<1> DEFINE q == work.req.path
<1>1. /\ Written /\ AllGenuine /\ Supported /\ AllPromised /\ LoadedWhole /\ SourcesMet /\ Current
      /\ Parses
  BY DEF Kept
<1>2. UNCHANGED <<disk, unsaved, index_request, vfs, g_index, disk_cache>>
  BY Zenon DEF ParseEnd, StoreRead, StorePush, mainVars, clientVars, indexerVars
<1>3. Cache' = Cache /\ Due' = Due
  BY <1>2, CacheKept, SameDue
<1>4. /\ work.pc \in {"parse", "store", "push"} /\ q \in Files
      /\ work.pc = "parse" => work.todo = <<>>
  <2>1. /\ work.pc \in {"parse", "store", "push"}
        /\ work.pc = "parse" => work.todo = <<>>
    BY Zenon DEF ParseEnd, StoreRead, StorePush, work
  <2>2. QED
    BY <2>1, ViewTypes DEF Locals
<1>5. /\ work'.req = work.req /\ work'.time = work.time /\ work'.deleted = work.deleted
      /\ work'.reparse = work.reparse /\ work'.todo = work.todo
      /\ work'.claims = work.claims /\ work'.seen = work.seen
      /\ \/ work.pc \in {"parse", "store"} /\ work'.pc \in {"store", "write"}
         \/ work.pc = "push" /\ work'.pc = "count" /\ work'.file = work.file
  <2>1. CASE ParseEnd(Solo)
    <3>1. work' = [work EXCEPT !.pc = "store"]
      BY <2>1, Numbers DEF ParseEnd, work
    <3>2. work.pc = "parse"
      BY <2>1 DEF ParseEnd, work
    <3>3. QED
      BY <3>1, <3>2, Numbers DEF WorkerType
  <2>2. CASE StorePush(Solo)
    <3>1. work' = [work EXCEPT !.pc = "count"]
      BY <2>2, Numbers DEF StorePush, work
    <3>2. work.pc = "push"
      BY <2>2 DEF StorePush, work
    <3>3. QED
      BY <3>1, <3>2, Numbers DEF WorkerType
  <2>3. CASE StoreRead(Solo)
    <3>1. PICK f : worker' = [worker EXCEPT ![Solo].pc = "write", ![Solo].file = f,
                                ![Solo].prev = DeltaBase(f), ![Solo].retained = Retained(f)]
      BY <2>3, Zenon DEF StoreRead
    <3> DEFINE base == DeltaBase(f)
               keep == Retained(f)
    <3>2. worker' = [worker EXCEPT ![Solo].pc = "write", ![Solo].file = f,
                                ![Solo].prev = base, ![Solo].retained = keep]
      BY <3>1, Zenon
    <3> HIDE DEF base, keep
    <3>3. work' = [work EXCEPT !.pc = "write", !.file = f, !.prev = base, !.retained = keep]
      BY <3>2, Numbers DEF work
    <3>4. work.pc = "store"
      BY <2>3, Zenon DEF StoreRead, work
    <3>5. QED
      BY <3>3, <3>4, Numbers DEF WorkerType
  <2>4. QED
    BY <2>1, <2>2, <2>3
<1>6. work.pc = "parse" => work.seen[q] # 0
  BY <1>1, <1>4 DEF Parses
<1>7. Written' /\ AllGenuine' /\ Supported'
  BY <1>1, <1>2, <1>3, <1>4, <1>5
     DEF Written, AllGenuine, Genuine, MadeFrom, Supported, Covers, CacheHas
<1>8. AllPromised'
  BY <1>1, <1>2, <1>3, <1>4, <1>5, <1>6 DEF AllPromised, Promised, Ahead, CacheHas
<1>9. Loads'
  BY <1>5 DEF Loads
<1>10. Parses'
  <2>1. /\ work.pc \in {"parse", "store", "write", "push", "count"}
        /\ work'.pc \notin {"parse", "push"}
        /\ work'.pc = "count" => work.pc = "push" /\ work'.file = work.file
        /\ work.todo = <<>>
    BY <1>1, <1>4, <1>5 DEF Parses
  <2>2. QED
    BY <1>1, <1>2, <1>3, <1>5, <2>1 DEF Parses, Covers, CacheHas
<1>11. LoadedWhole' /\ SourcesMet' /\ Current'
  BY <1>1, <1>2, <1>3, <1>4, <1>5, <1>6 DEF LoadedWhole, SourcesMet, Current
<1>12. QED
  BY <1>7, <1>8, <1>9, <1>10, <1>11 DEF Kept

(* A parse fails only when its main file is gone or clang crashes.          *)
LEMMA NoFailure ==
  ASSUME TypeOK, Parsing, OneIndexer, Spared, Kept
  PROVE  ~ParseGone(Solo) /\ ~ParseCrash(Solo)
<1>1. ~ParseCrash(Solo)
  BY DEF Spared, ParseCrash, Spend, Accidents
<1>2. ASSUME ParseGone(Solo) PROVE FALSE
  <2>1. work.pc = "parse" /\ LastWriteTime(work.req.path) = 0
    BY <1>2 DEF ParseGone, work
  <2>2. work.req.path \in Files
    BY <2>1, ViewTypes DEF Locals
  <2>3. QED
    BY <2>1, <2>2, Numbers DEF Kept, Written
<1>3. QED
  BY <1>1, <1>2

(* The load is counted: what the claim promised is cached now, and what the *)
(* file includes has been met.                                              *)
LEMMA StoreCountStep ==
  ASSUME TypeOK, Parsing, OneIndexer, IncludesClosed, Kept, StoreCount(Solo)
  PROVE  Kept'
<1> DEFINE q == work.req.path
<1>1. /\ work.pc = "count" /\ q \in Files /\ work.file \in work.claims
      /\ work.claims \subseteq Files /\ work.todo = <<>>
      /\ Cache[work.file] # NoIndex /\ Cache[work.file].mtime = work.seen[work.file]
  <2>1. work.pc = "count"
    BY DEF StoreCount, work
  <2>2. QED
    BY <2>1, ViewTypes DEF Locals, Kept, Parses, WorkerType
<1>2. PICK f \in Files : f = work.file
  BY <1>1
<1>3. /\ Written /\ AllGenuine /\ Supported /\ AllPromised /\ LoadedWhole /\ SourcesMet /\ Current
      /\ Parses
  BY DEF Kept
<1>4. UNCHANGED <<disk, unsaved, index_request, g_index, disk_cache>>
  BY DEF StoreCount, mainVars, clientVars
<1>5. Cache' = Cache /\ Due' = Due
  BY <1>4, CacheKept, SameDue
<1>6. /\ work'.pc = "store" /\ work'.req = work.req /\ work'.time = work.time
      /\ work'.deleted = work.deleted /\ work'.reparse = work.reparse
      /\ work'.todo = work.todo /\ work'.claims = work.claims \ {f} /\ work'.seen = work.seen
  <2> DEFINE claims == work.claims \ {f}
  <2>1. worker' = [worker EXCEPT ![Solo].pc = "store", ![Solo].file = NoPath,
                     ![Solo].claims = claims, ![Solo].prev = NoIndex]
    BY <1>2, Numbers DEF StoreCount, work
  <2> HIDE DEF claims
  <2>2. work' = [work EXCEPT !.pc = "store", !.file = NoPath, !.claims = claims, !.prev = NoIndex]
    BY <2>1, Numbers DEF work
  <2>3. QED
    BY <2>2, Numbers DEF WorkerType, claims
<1>7. /\ \A g \in Files : vfs'[g].timestamp = vfs[g].timestamp /\ vfs'[g].step = vfs[g].step
      /\ \A g \in Files \ {f} : vfs'[g].loaded = vfs[g].loaded
      /\ vfs'[f].loaded > 0
  <2>1. vfs' = [vfs EXCEPT ![f].loaded = @ + 1]
    BY <1>2 DEF StoreCount, Counted, work
  <2>2. vfs \in [Files -> FileState] /\ vfs[f].loaded \in Nat
    BY ViewTypes, Numbers
  <2>3. QED
    BY <2>1, <2>2 DEF FileState
<1>8. Written' /\ AllGenuine'
  BY <1>1, <1>3, <1>4, <1>5, <1>6, <1>7 DEF Written, AllGenuine, Genuine, MadeFrom
<1>9. Supported'
  <2>1. ASSUME NEW g \in Files, Cache[g] # NoIndex, NEW d \in Files, Cache[g].deps[d] # 0
        PROVE  \/ CacheHas(d, Cache[g].deps[d])
               \/ d \in work'.claims /\ Cache[g].deps[d] <= work.seen[d]
    BY <1>1, <1>2, <1>3, <1>6, <2>1 DEF Supported, Covers, CacheHas
  <2>2. QED
    BY <1>3, <1>4, <1>5, <1>6, <2>1 DEF Supported, Covers, CacheHas
<1>10. AllPromised'
  <2>1. SUFFICES ASSUME NEW g \in Files, vfs[g].timestamp > 0 PROVE Promised(g)'
    BY <1>7 DEF AllPromised
  <2>2. \/ CacheHas(g, vfs[g].timestamp) /\ vfs[g].loaded > 0
        \/ g \in work.claims /\ vfs[g].timestamp <= work.seen[g]
    BY <1>1, <1>3, <2>1 DEF AllPromised, Promised, Ahead
  <2>3. QED
    BY <1>1, <1>2, <1>5, <1>6, <1>7, <2>2 DEF Promised, CacheHas
<1>11. Loads'
  BY <1>6 DEF Loads
<1>12. Parses'
  <2>1. ASSUME NEW g \in Files, work.seen[g] > 0
        PROVE  CacheHas(g, work.seen[g]) \/ (g \in work'.claims /\ work.seen[g] <= work.seen[g])
    BY <1>1, <1>2, <1>3, <1>6, <2>1 DEF Parses, Covers, CacheHas
  <2>2. QED
    BY <1>1, <1>3, <1>5, <1>6, <1>7, <2>1 DEF Parses, Covers, CacheHas
<1>13. LoadedWhole'
  <2>1. SUFFICES ASSUME NEW g \in Files, vfs'[g].loaded > 0, NEW h \in Inc(g)
                 PROVE  vfs[h].timestamp > 0
    BY <1>7, Units DEF LoadedWhole
  <2>2. CASE g = f
    <3>1. f \in Unit(q)
      BY <1>1, <1>2, <1>3 DEF Parses
    <3>2. Inc(f) \subseteq Inc(q)
      BY <1>1, <3>1 DEF IncludesClosed, Unit
    <3>3. h \in Unit(q) /\ h \in Files
      BY <2>2, <3>2, Units DEF Unit
    <3>4. h \notin Elements(work.todo)
      BY <1>1 DEF Elements
    <3>5. QED
      BY <1>1, <1>3, <3>3, <3>4 DEF Parses
  <2>3. CASE g # f
    BY <1>1, <1>3, <1>7, <2>1, <2>3 DEF LoadedWhole
  <2>4. QED
    BY <2>2, <2>3
<1>14. SourcesMet'
  BY <1>1, <1>3, <1>5, <1>7, Facts DEF SourcesMet
<1>15. Current'
  BY <1>1, <1>2, <1>3, <1>4, <1>5, <1>6 DEF Current
<1>16. QED
  BY <1>8, <1>9, <1>10, <1>11, <1>12, <1>13, <1>14, <1>15 DEF Kept

(* The index is written: it is of the version that was claimed, it names    *)
(* all that the parse met, and both caches get it.                          *)
LEMMA StoreWriteStep ==
  ASSUME TypeOK, Parsing, InMemory, Chained, OneIndexer, Copied, Kept, StoreWrite(Solo)
  PROVE  Copied' /\ Kept'
<1> DEFINE q == work.req.path
<1>1. /\ work.pc = "write" /\ q \in Files /\ work.file \in work.claims
      /\ work.claims \subseteq Files /\ work.todo = <<>> /\ ~work.deleted
      /\ \A g \in work.claims : work.seen[g] # 0
  <2>1. work.pc = "write"
    BY DEF StoreWrite, work
  <2>2. ~work.deleted /\ work.todo = <<>>
    BY <2>1 DEF Kept, Parses, Written
  <2>3. QED
    BY <2>1, <2>2, ViewTypes DEF Locals, WorkerType
<1>2. PICK f \in Files : f = work.file
  BY <1>1
<1>3. /\ Written /\ AllGenuine /\ Supported /\ AllPromised /\ LoadedWhole /\ SourcesMet /\ Current
      /\ Parses
  BY DEF Kept
<1>4. UNCHANGED <<disk, unsaved, index_request, vfs>> /\ Due' = Due
  <2>1. UNCHANGED <<disk, unsaved, index_request, vfs>>
    BY DEF StoreWrite, mainVars, clientVars
  <2>2. QED
    BY <2>1, SameDue
<1>5. PICK made \in IndexFiles : made = MadeIndex(work, f)
  BY <1>1, <1>2, MadeIndexType, Numbers
<1>6. /\ made.mtime = work.seen[f] /\ made.data = IndexAt[f][work.seen[f]]
      /\ \A d \in Files : made.deps[d] = IF d \in {f, q} THEN 0 ELSE work.seen[d]
  BY <1>1, <1>5 DEF MadeIndex
<1>7. /\ g_index' = IF work.retained THEN [g_index EXCEPT ![f] = made] ELSE g_index
      /\ disk_cache' = IF ~HasCacheDir THEN disk_cache ELSE [disk_cache EXCEPT ![f] = made]
  BY <1>1, <1>2, <1>5 DEF StoreWrite, work
<1>8. work.retained <=> (Retain > 0 /\ Retain <= vfs[f].loaded + 1)
  <2>1. Linked(work, Solo)
    BY Numbers DEF Chained, work
  <2>2. QED
    BY <1>1, <1>2, <2>1 DEF Linked, Holds, HeldFile, Link
<1>9. /\ g_index \in [Files -> IndexFiles \cup {NoIndex}]
      /\ disk_cache \in [Files -> IndexFiles \cup {NoIndex}]
      /\ made # NoIndex
  BY NoIndexAssumption DEF TypeOK, CacheType
<1>10. Copied'
  <2>1. ASSUME NEW g \in Files, HasCacheDir, g_index'[g] # NoIndex
        PROVE  g_index'[g] = disk_cache'[g]
    <3>1. CASE g = f
      <4>1. CASE work.retained
        BY <1>7, <1>9, <2>1, <3>1, <4>1
      <4>2. CASE ~work.retained
        BY <1>7, <1>8, <2>1, <3>1, <4>2 DEF InMemory
      <4>3. QED
        BY <4>1, <4>2
    <3>2. CASE g # f
      BY <1>7, <1>9, <2>1, <3>2 DEF Copied
    <3>3. QED
      BY <3>1, <3>2
  <2>2. QED
    BY <2>1 DEF Copied
<1>11. Cache'[f] = made /\ \A g \in Files \ {f} : Cache'[g] = Cache[g]
  <2>1. CASE HasCacheDir
    BY <1>7, <1>9, <1>10, <2>1, CacheIs
  <2>2. CASE ~HasCacheDir
    <3>1. Retain = 1 /\ vfs[f].loaded \in Nat
      BY <2>2, CacheAssumption, Numbers
    <3>2. work.retained
      BY <1>8, <3>1
    <3>3. QED
      BY <1>7, <1>9, <1>10, <2>2, <3>2, CacheIs
  <2>3. QED
    BY <2>1, <2>2
<1>12. /\ work'.pc = "push" /\ work'.req = work.req /\ work'.time = work.time
       /\ work'.deleted = work.deleted /\ work'.reparse = work.reparse /\ work'.file = f
       /\ work'.todo = work.todo /\ work'.claims = work.claims /\ work'.seen = work.seen
  <2>1. work' = [work EXCEPT !.pc = "push"]
    BY Numbers DEF StoreWrite, work
  <2>2. QED
    BY <1>2, <2>1, Numbers DEF WorkerType
<1>13. \A g \in Files : \A t \in Nat : CacheHas(g, t) => Cache'[g] # NoIndex /\ t <= Cache'[g].mtime
  <2>1. Cache[f] # NoIndex => Cache[f].mtime <= made.mtime /\ Cache[f].mtime \in Nat
    BY <1>1, <1>2, <1>3, <1>6, Numbers DEF Supported
  <2>2. made.mtime \in Nat
    BY <1>6, Numbers
  <2>3. QED
    BY <1>9, <1>11, <2>1, <2>2 DEF CacheHas
<1>14. \A d \in Files : \A t \in Nat : Covers(d, t) =>
         \/ Cache'[d] # NoIndex /\ t <= Cache'[d].mtime
         \/ d \in work.claims /\ t <= work.seen[d]
  BY <1>13 DEF Covers
<1>15. Written'
  BY <1>1, <1>3, <1>4, <1>12 DEF Written
<1>16. AllGenuine'
  <2>1. Genuine(f, made)
    <3>1. MadeFrom(f, made.data, made.mtime)
      <4>1. work.seen[f] \in 1 .. MaxMtime
        <5>1. work.seen[f] \in Mtimes /\ work.seen[f] # 0
          BY <1>1, <1>2, Numbers DEF WorkerType
        <5>2. QED
          BY <5>1, Facts DEF Mtimes
      <4>2. QED
        BY <1>6, <4>1 DEF MadeFrom
    <3>2. f \in Unit(q) /\ \A g \in Files : /\ g \in Unit(q) => work.seen[g] # 0
                                            /\ work.seen[g] # 0 => g \in Unit(q)
      <4>1. Elements(work.todo) = {}
        BY <1>1 DEF Elements
      <4>2. QED
        BY <1>1, <1>2, <1>3, <4>1, Numbers DEF Parses
    <3>3. \A d \in Files : made.deps[d] # 0 <=> d \in Inc(q) \ {f}
      BY <1>1, <1>6, <3>2, Units DEF Unit
    <3>4. QED
      BY <1>1, <3>1, <3>2, <3>3 DEF Genuine
  <2>2. \A g \in Files : Cache'[g] # NoIndex => Genuine(g, Cache'[g])
    BY <1>3, <1>11, <2>1 DEF AllGenuine
  <2>3. QED
    BY <2>2 DEF AllGenuine, Genuine, MadeFrom
<1>17. Supported'
  <2>1. SUFFICES ASSUME NEW g \in Files, Cache'[g] # NoIndex
                 PROVE  /\ Cache'[g].mtime <= disk[g].mtime
                        /\ g \in work.claims => Cache'[g].mtime <= work.seen[g]
                        /\ \A d \in Files : Cache'[g].deps[d] # 0 =>
                             \/ Cache'[d] # NoIndex /\ Cache'[g].deps[d] <= Cache'[d].mtime
                             \/ d \in work.claims /\ Cache'[g].deps[d] <= work.seen[d]
    BY <1>4, <1>12 DEF Supported, Covers, CacheHas
  <2>2. CASE g = f
    <3>1. made.mtime <= disk[f].mtime /\ made.mtime <= work.seen[f]
      BY <1>3, <1>6, Numbers DEF Written
    <3>2. ASSUME NEW d \in Files, made.deps[d] # 0
          PROVE  \/ Cache'[d] # NoIndex /\ made.deps[d] <= Cache'[d].mtime
                 \/ d \in work.claims /\ made.deps[d] <= work.seen[d]
      <4>1. made.deps[d] = work.seen[d] /\ work.seen[d] \in Nat /\ work.seen[d] > 0
        BY <1>6, <3>2, Numbers
      <4>2. Covers(d, work.seen[d])
        BY <1>1, <1>3, <4>1 DEF Parses
      <4>3. QED
        BY <1>14, <4>1, <4>2
    <3>3. QED
      BY <1>11, <2>2, <3>1, <3>2
  <2>3. CASE g # f
    <3>1. Cache'[g] = Cache[g] /\ Cache[g] # NoIndex
      BY <1>11, <2>1, <2>3
    <3>2. \A d \in Files : Cache[g].deps[d] \in Nat
      <4>1. Cache[g] \in IndexFiles /\ Mtimes \subseteq Nat
        BY <3>1, ViewTypes
      <4>2. QED
        BY <4>1 DEF IndexFiles
    <3>3. /\ Cache[g].mtime <= disk[g].mtime
          /\ g \in work.claims => Cache[g].mtime <= work.seen[g]
          /\ \A d \in Files : Cache[g].deps[d] # 0 => Covers(d, Cache[g].deps[d])
      BY <1>3, <3>1 DEF Supported
    <3>4. QED
      BY <1>14, <3>1, <3>2, <3>3
  <2>4. QED
    BY <2>2, <2>3
<1>18. AllPromised'
  <2>1. SUFFICES ASSUME NEW g \in Files, vfs[g].timestamp > 0 PROVE Promised(g)'
    BY <1>4 DEF AllPromised
  <2>2. \/ CacheHas(g, vfs[g].timestamp) /\ vfs[g].loaded > 0
        \/ g \in work.claims /\ vfs[g].timestamp <= work.seen[g]
    BY <1>1, <1>3, <2>1 DEF AllPromised, Promised, Ahead
  <2>3. vfs[g].timestamp \in Nat
    BY Numbers
  <2>4. QED
    BY <1>4, <1>12, <1>13, <2>2, <2>3 DEF Promised, CacheHas
<1>19. Loads'
  BY <1>12 DEF Loads
<1>20. Parses'
  <2>1. ASSUME NEW g \in Files, work.seen[g] > 0
        PROVE  \/ Cache'[g] # NoIndex /\ work.seen[g] <= Cache'[g].mtime
               \/ g \in work.claims /\ work.seen[g] <= work.seen[g]
    BY <1>1, <1>3, <1>14, <2>1, Numbers DEF Parses
  <2>2. QED
    BY <1>1, <1>3, <1>4, <1>6, <1>9, <1>11, <1>12, <2>1 DEF Parses, Covers, CacheHas
<1>21. LoadedWhole' /\ SourcesMet'
  BY <1>1, <1>3, <1>4 DEF LoadedWhole, SourcesMet
<1>22. Current'
  BY <1>1, <1>2, <1>3, <1>4, <1>11, <1>12 DEF Current
<1>23. QED
  BY <1>10, <1>15, <1>16, <1>17, <1>18, <1>19, <1>20, <1>21, <1>22 DEF Kept

(* No step of the indexer disturbs the invariant.                           *)
LEMMA IndexerStep ==
  ASSUME ChainInv, TypeOK', Orderly, Spared, Copied, Kept, Indexer(Solo)
  PROVE  Spared' /\ Copied' /\ Kept'
<1>1. /\ TypeOK /\ Parsing /\ InMemory /\ Chained /\ OneIndexer /\ IncludesClosed
  BY DEF ChainInv, Orderly
<1>2. CASE PopDummy(Solo) \/ PopNoEntry(Solo) \/ Pop(Solo)
  <2>1. UNCHANGED <<g_index, disk_cache>>
    BY <1>2, Zenon DEF PopDummy, PopNoEntry, Pop, indexerVars
  <2>2. Copied'
    BY <2>1 DEF Copied
  <2>3. QED
    BY <1>1, <1>2, <2>2, PopStep
<1>3. ~ParseGone(Solo) /\ ~ParseCrash(Solo)
  BY <1>1, NoFailure
<1>4. CASE \/ Stamp(Solo) \/ CacheCheck(Solo) \/ CacheLoad(Solo) \/ DepStamp(Solo)
           \/ DepLoad(Solo) \/ DepsDone(Solo) \/ SeenFile(Solo) \/ ParseEnd(Solo)
           \/ StoreRead(Solo) \/ StorePush(Solo) \/ StoreCount(Solo) \/ StoreDone(Solo)
  <2>1. UNCHANGED <<budget, index_request, g_index, disk_cache>>
    BY <1>4, Zenon
       DEF Stamp, CacheCheck, CacheLoad, DepStamp, DepLoad, DepsDone, SeenFile, ParseEnd,
           StoreRead, StorePush, StoreCount, StoreDone, mainVars, clientVars, indexerVars
  <2>2. Copied' /\ Spared'
    BY <2>1, SameSpared DEF Copied
  <2>3. Kept'
    BY <1>1, <1>4, StampStep, CacheCheckStep, CacheLoadStep, DepStampStep, DepLoadStep,
       DoneStep, SeenFileStep, StorePlainStep, StoreCountStep
  <2>4. QED
    BY <2>2, <2>3
<1>5. CASE StoreWrite(Solo)
  <2>1. UNCHANGED <<budget, index_request>>
    BY <1>5 DEF StoreWrite, mainVars, clientVars
  <2>2. QED
    BY <1>1, <1>5, <2>1, SameSpared, StoreWriteStep
<1>6. QED
  BY <1>2, <1>3, <1>4, <1>5 DEF Indexer

-----------------------------------------------------------------------------
(* The theorem.                                                             *)

FreshInv == ChainInv /\ Held /\ Spared /\ Copied /\ Kept

(* At the start every source has a request.                                 *)
LEMMA InitFresh == ASSUME Orderly, Init PROVE FreshInv
<1>1. ChainInv /\ Held /\ OneIndexer
  BY InitChain DEF Init, Held, Orderly
<1>2. /\ work.pc = "idle" /\ work.claims = {} /\ work.seen = NoDeps
  <2>1. work = IdleWorker
    BY <1>1, TheIndexer DEF Init, work
  <2>2. QED
    BY <2>1 DEF IdleWorker
<1>3. /\ \A f \in Files : /\ disk[f].exists /\ disk[f].mtime = 1 /\ work.seen[f] = 0
                          /\ vfs[f].timestamp = 0 /\ vfs[f].loaded = 0
      /\ \A f \in Files : g_index[f] = NoIndex /\ disk_cache[f] = NoIndex
  BY <1>2 DEF Init, InitialFile, FreshState, NoDeps
<1>4. \A f \in Files : Cache[f] = NoIndex
  BY <1>3 DEF Cache, RawCacheLoad
<1>5. /\ \A r \in Asked(index_request) : r.mode # "Delete"
      /\ \A s \in Sources : \E r \in Asked(index_request) : Asks(r, s)
  <2>1. EmptyQueue \in QueueOf(Requests) /\ Asked(EmptyQueue) = {}
    BY EmptyQueueProperties, AskedOne
  <2>2. index_request = ProjectIndexed(EmptyQueue, {}, 0)
    BY DEF Init
  <2>3. QED
    BY <2>1, <2>2, AskedProject
<1>6. Spared /\ Copied
  BY <1>3, <1>5 DEF Spared, Copied, Init, Orderly
<1>7. Written /\ AllGenuine /\ Supported /\ AllPromised /\ Current
  BY <1>2, <1>3, <1>4 DEF Written, AllGenuine, Supported, AllPromised, Current
<1>8. Loads /\ Parses /\ LoadedWhole
  BY <1>2, <1>3 DEF Loads, Parses, LoadedWhole
<1>9. SourcesMet
  BY <1>5, Facts DEF SourcesMet, Due
<1>10. QED
  BY <1>1, <1>6, <1>7, <1>8, <1>9 DEF FreshInv, Kept

(* The invariant is inductive.                                              *)
LEMMA NextFresh == ASSUME Orderly, FreshInv, [Next /\ Undisturbed]_vars PROVE FreshInv'
<1>1. /\ ChainInv /\ Held /\ Spared /\ Copied /\ Kept /\ TypeOK /\ Parsing /\ OneIndexer
      /\ [Next]_vars
  BY DEF FreshInv, ChainInv, Orderly
<1>2. ChainInv' /\ Held' /\ TypeOK'
  <2>1. ChainInv'
    BY <1>1, NextChain
  <2>2. QED
    BY <1>1, <2>1, NextHeld DEF ChainInv
<1>3. CASE \E i \in Indexers : Indexer(i)
  <2>1. Indexer(Solo)
    BY <1>1, <1>3, TheIndexer
  <2>2. QED
    BY <1>1, <1>2, <2>1, IndexerStep DEF FreshInv
<1>4. CASE Reload \/ CleanRestart \/ Crash
  <2>1. Undisturbed \/ UNCHANGED vars
    OBVIOUS
  <2>2. CASE Undisturbed
    BY <1>1, <1>2, <1>4, <2>2, StartStep DEF FreshInv
  <2>3. CASE UNCHANGED vars
    BY <1>1, <1>2, <2>3, ClientStep DEF FreshInv
  <2>4. QED
    BY <2>1, <2>2, <2>3
<1>5. CASE \/ OnIndexed \/ UNCHANGED vars \/ DidChangeConfiguration
           \/ \E f \in Files : \/ Edit(f) \/ Remove(f) \/ DidSave(f)
                               \/ DidChangeWatchedFiles(f) \/ DidOpen(f) \/ DidClose(f)
  BY <1>1, <1>2, <1>5, ClientStep DEF FreshInv
<1>6. QED
  BY <1>3, <1>4, <1>5 DEF Next, Client

(* At rest nothing is due and nothing is on its way: the cache of a covered *)
(* file has its present version, and the database has what is cached.       *)
LEMMA RestIsFresh == ASSUME Orderly, FreshInv PROVE Fresh
<1>1. /\ TypeOK /\ Parsing /\ CacheIsLastPushed /\ Held /\ Kept /\ OneIndexer
  BY DEF FreshInv, ChainInv, Orderly
<1>2. SUFFICES ASSUME Idle, NEW f \in Covered \ unsaved PROVE applied[f] = Wanted(f)
  BY DEF Fresh
<1>3. work.pc = "idle" /\ Due = {}
  <2>1. work.pc = "idle"
    BY <1>1, <1>2, TheIndexer DEF Idle, work
  <2>2. Asked(index_request) = {}
    <3>1. index_request \in QueueOf(Requests)
      BY <1>1 DEF TypeOK, QueueType
    <3>2. QED
      BY <1>2, <3>1, AskedOne DEF Idle
  <2>3. QED
    BY <2>1, <2>2 DEF Due
<1>4. Settled
  <2>1. work.claims = {}
    BY <1>1, <1>3, ViewTypes DEF Locals
  <2>2. QED
    BY <1>1, <1>3, <2>1, Settles
<1>5. PICK s \in Sources : f \in Unit(s)
  <2>1. \A s \in Sources : (\E k \in DOMAIN Includes[s] : Includes[s][k] = f) => f \in Inc(s)
    BY DEF Inc, Elements
  <2>2. QED
    BY <2>1 DEF Covered, Unit
<1>6. f \in Files /\ s \in Files
  BY <1>5, Facts, Units
<1>7. vfs[f].timestamp > 0
  <2>1. vfs[s].timestamp > 0 /\ vfs[s].loaded > 0
    BY <1>3, <1>4, <1>6 DEF Settled
  <2>2. QED
    BY <1>4, <1>5, <1>6, <2>1 DEF Settled, Unit
<1>8. /\ vfs[f].loaded > 0 /\ Cache[f] # NoIndex
      /\ Cache[f].mtime = disk[f].mtime
  BY <1>2, <1>3, <1>4, <1>6, <1>7 DEF Settled, CacheHas
<1>9. Cache[f].data = Wanted(f)
  BY <1>1, <1>6, <1>8 DEF Kept, Written, AllGenuine, Genuine, MadeFrom, Wanted
<1>10. file_mutex[f] = NoPath
  <2>1. file_mutex[f] \in Indexers \cup {NoPath}
    BY <1>1, <1>6 DEF TypeOK, CacheType
  <2>2. QED
    BY <1>1, <1>2, <1>6, <2>1 DEF Held, Holds, Idle
<1>11. LastPushed(f) = applied[f]
  BY <1>2, LastForNone DEF Idle, LastPushed
<1>12. Data(RawCacheLoad(f)) = Cache[f].data
  BY <1>6, <1>8 DEF Cache, Data
<1>13. QED
  BY <1>1, <1>6, <1>8, <1>9, <1>10, <1>11, <1>12 DEF CacheIsLastPushed

(* "Saving files will incrementally update the index", as long as updates   *)
(* are pushed in turn: with one indexer, a project whose parses meet the    *)
(* includes of what they include, and neither removed files nor crashes,    *)
(* the database of an idle pipeline holds the present contents of every     *)
(* file of the project whose last change was announced, whether they were   *)
(* parsed for its own sake, met by the parse of another file or loaded from *)
(* the cache, however the client's edits, saves, reloads and restarts       *)
(* interleave with the indexing.                                            *)
THEOREM FreshAtRest ==
  ASSUME Orderly
  PROVE  Spec /\ UpdatesInTurn => []Fresh
<1>1. Init => FreshInv
  BY InitFresh
<1>2. FreshInv /\ [Next /\ Undisturbed]_vars => FreshInv'
  BY NextFresh
<1>3. FreshInv => Fresh
  BY RestIsFresh
<1>4. QED
  BY <1>1, <1>2, <1>3, PTL DEF Spec, UpdatesInTurn

(* With a patient client, updates in turn are no hypothesis either.         *)
THEOREM OneIndexerFresh ==
  ASSUME Orderly, OneAtATime
  PROVE  Spec => []Fresh
<1>1. Spec => UpdatesInTurn
  BY OneIndexerInTurn
<1>2. Spec /\ UpdatesInTurn => []Fresh
  BY FreshAtRest
<1>3. QED
  BY <1>1, <1>2, PTL
=============================================================================
