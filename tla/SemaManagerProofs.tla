------------------------- MODULE SemaManagerProofs -------------------------
(***************************************************************************)
(* Theorems about SemaManager, for every number of files, sessions and     *)
(* messages: the LRU cache keeps its bound, a completion request has one   *)
(* owner, a debounced change is covered by a task that waits, and marking  *)
(* a header as seen loses no change of it.                                 *)
(***************************************************************************)
EXTENDS SemaManager, Counting

-----------------------------------------------------------------------------
(* The messages that were sent are within the bound. *)
InBudget ==
  /\ clock + budget.messages <= MaxMessages + 1 /\ sent + budget.messages <= MaxMessages
  /\ \A p \in Paths : buffer[p].open => buffer[p].text \in Texts

(* What the threads hold while they work.  Each queue uses one of its two   *)
(* deques only.                                                             *)
Working ==
  /\ main.pc # "idle" => main.path \in Paths
  /\ preambler.pc # "idle" => preambler.path \in Paths
  /\ preambler.pc = "idle" => preambler.comp = NoRequest
  /\ preambler.pc = "store" => /\ preambler.session \in Sessions
                               /\ preambler.built.includes = Includes[preambler.path]
  /\ completer.pc # "idle" => completer.path \in Paths /\ completer.id \in Requests
  /\ completer.pc = "idle" => completer.id = NoRequest
  /\ diagnoser.pc # "idle" => diagnoser.path \in Paths
  /\ diagnoser.pc = "check" => diagnoser.session \in Sessions

OneDeque ==
  /\ comp_tasks.priority = <<>> /\ comp_tasks.total = Len(comp_tasks.queue)
  /\ diag_tasks.priority = <<>>
  /\ preamble_tasks.queue = <<>>

(* Timestamps are of the past, and a file that was saved since it was       *)
(* changed is on disk as it is in its buffer.                               *)
InTime ==
  /\ \A p \in Paths : buffer[p].timestamp <= clock /\ disk[p].mtime <= clock
  /\ \A s \in Sessions, h \in Paths : session[s].preamble.seen[h] <= clock
  /\ \A h \in Paths : preambler.built.seen[h] <= clock
  /\ \A h \in Paths : buffer[h].open /\ buffer[h].timestamp \in 1 .. disk[h].mtime
                        => disk[h].text = buffer[h].text

(* A session in the cache has a file.  A thread that holds a session holds  *)
(* it for its file; another session of the file, inserted since, has no     *)
(* preamble yet.                                                            *)
HeldSessions ==
  /\ \A k \in DOMAIN sessions : session[sessions[k]].path \in Paths
  /\ preambler.pc = "store" =>
       /\ session[preambler.session].path = preambler.path
       /\ \A k \in DOMAIN sessions : session[sessions[k]].path = preambler.path =>
            \/ sessions[k] = preambler.session
            \/ session[sessions[k]].preamble = NoPreamble
  /\ diagnoser.pc = "check" =>
       /\ session[diagnoser.session].path = diagnoser.path
       /\ diagnoser.current => session[diagnoser.session].preamble = diagnoser.preamble

(* The diagnostics thread has asked for a rebuild that is still queued.     *)
RebuildQueued(p) ==
  \E k \in DOMAIN preamble_tasks.priority :
    preamble_tasks.priority[k].path = p /\ preamble_tasks.priority[k].from_diag

(* What was built is current, or its timestamps will tell that it is not,   *)
(* or it will be built again.                                               *)
BuiltSeen ==
  preambler.pc = "store" =>
    LET p == preambler.path
        built == preambler.built
    IN  \A h \in Headers(p) : buffer[h].open =>
          /\ buffer[h].timestamp \in 1 .. built.seen[h] => built.text[h] = buffer[h].text
          /\ built.seen[h] = 0 /\ buffer[h].timestamp > 0 =>
               \/ built.text[h] = buffer[h].text
               \/ \A g \in Paths :
                    session[preambler.session].preamble.seen[g] < buffer[h].timestamp
               \/ RebuildQueued(p) \/ p \in excused

-----------------------------------------------------------------------------
(* The constants and what is made of them.                                  *)

(* Texts, requests and sessions are numbers.                                *)
LEMMA Facts ==
  /\ MaxMessages \in Nat /\ Texts = 1 .. MaxMessages + 1 /\ Texts \subseteq Nat \ {0}
  /\ Requests = 1 .. MaxMessages /\ Requests \subseteq Nat \ {0} /\ 1 \in Texts
  /\ Sessions \subseteq Nat \ {0}
  /\ NoText = 0 /\ NoRequest = 0
  /\ NoPreamble \in PreambleSet /\ NoPreamble.includes = <<>>
  /\ \A h \in Paths : NoPreamble.seen[h] = 0
  /\ \A t \in Texts \cup {NoText} : BoundsOfText(t) \in Nat
  /\ \A p \in Paths : Headers(p) \subseteq Paths /\ Includes[p] \in Seq(Paths)
  /\ OnOpen \in Nat /\ OnSave \in Nat /\ OnChange \in Nat
<1>1. MaxMessages \in Nat /\ BoundsOf \in [Texts -> Nat]
  BY BoundsAssumption
<1>2. /\ Texts = 1 .. MaxMessages + 1 /\ Texts \subseteq Nat \ {0} /\ 1 \in Texts
      /\ Requests = 1 .. MaxMessages /\ Requests \subseteq Nat \ {0}
  BY <1>1 DEF Texts, Requests
<1>3. Sessions \subseteq Nat \ {0}
  <2>1. \A start \in Starts : start.maxNum + 3 \in Nat
    BY StartsAssumption
  <2>2. QED
    BY <2>1 DEF Sessions
<1>4. /\ NoPreamble \in PreambleSet /\ NoPreamble.includes = <<>>
      /\ \A h \in Paths : NoPreamble.seen[h] = 0
  BY DEF NoPreamble, PreambleSet, NoText
<1>5. \A t \in Texts \cup {NoText} : BoundsOfText(t) \in Nat
  BY <1>1 DEF BoundsOfText
<1>6. \A p \in Paths : Headers(p) \subseteq Paths /\ Includes[p] \in Seq(Paths)
  BY IncludesAssumption, ElementOfSeq, LenProperties DEF Headers
<1>7. QED
  BY <1>1, <1>2, <1>3, <1>4, <1>5, <1>6, DebounceAssumption DEF NoText, NoRequest

(* std::sort of the headers of a preamble: the same headers, in the order   *)
(* of their paths.                                                          *)
LEMMA SortedProperties ==
  ASSUME NEW s \in Seq(Paths), Distinct(s)
  PROVE  /\ Sorted(s) \in Seq(Paths) /\ Len(Sorted(s)) = Len(s)
         /\ \A k \in DOMAIN Sorted(s) : Sorted(s)[k] \in Elements(s)
         /\ \A j, k \in DOMAIN Sorted(s) : j < k => Rank[Sorted(s)[j]] < Rank[Sorted(s)[k]]
<1> DEFINE n == Len(s)
           E == Elements(s)
           LE(h) == {g \in E : Rank[g] <= Rank[h]}
           f == [h \in E |-> Cardinality(LE(h))]
<1>1. n \in Nat /\ DOMAIN s = 1 .. n /\ E \subseteq Paths /\ E = {s[k] : k \in DOMAIN s}
  BY LenProperties, ElementOfSeq DEF Elements
<1>2. IsFiniteSet(E) /\ Cardinality(E) = n
  <2>1. s \in Bijection(1 .. n, E)
    <3>1. s \in [1 .. n -> E]
      BY <1>1
    <3>2. \A j, k \in 1 .. n : s[j] = s[k] => j = k
      BY <1>1 DEF Distinct
    <3>3. \A h \in E : \E k \in 1 .. n : s[k] = h
      BY <1>1
    <3> HIDE DEF n, E
    <3>4. s \in Injection(1 .. n, E)
      BY <3>1, <3>2, Fun_IsInj
    <3>5. s \in Surjection(1 .. n, E)
      BY <3>1, <3>3 DEF Surjection
    <3>6. QED
      BY <3>4, <3>5, Zenon DEF Bijection
  <2>2. ExistsBijection(1 .. n, E)
    BY <2>1 DEF ExistsBijection
  <2>3. Cardinality(E) = n
    BY <1>1, <2>2, FS_CountingElements
  <2>4. IsFiniteSet(E)
    BY <1>1, <2>2, FS_NatBijection
  <2>5. QED
    BY <2>3, <2>4
<1>3. \A h \in E : Rank[h] \in Nat
  BY <1>1, RankAssumption
<1>4. \A g, h \in E : Rank[g] = Rank[h] => g = h
  BY <1>1, RankAssumption
<1> HIDE DEF n, E
<1>5. ASSUME NEW h \in E
      PROVE  /\ IsFiniteSet(LE(h)) /\ Cardinality(LE(h)) \in 1 .. n
  <2>1. LE(h) \in SUBSET E /\ h \in LE(h)
    BY <1>3
  <2>2. IsFiniteSet(LE(h)) /\ Cardinality(LE(h)) <= n
    BY <1>2, <2>1, FS_Subset
  <2>3. Cardinality(LE(h)) \in Nat
    BY <2>2, FS_CardinalityType
  <2>4. Cardinality(LE(h)) # 0
    BY <2>1, <2>2, FS_EmptySet
  <2> HIDE DEF LE
  <2>5. QED
    BY <1>1, <2>2, <2>3, <2>4
<1>6. ASSUME NEW g \in E, NEW h \in E, Rank[g] < Rank[h]
      PROVE  Cardinality(LE(g)) < Cardinality(LE(h))
  <2>1. LE(g) \in SUBSET LE(h) /\ h \in LE(h) /\ h \notin LE(g)
    BY <1>3, <1>6
  <2> HIDE DEF LE
  <2>2. IsFiniteSet(LE(h)) /\ Cardinality(LE(g)) \in Nat /\ Cardinality(LE(h)) \in Nat
    BY <1>1, <1>5
  <2>3. Cardinality(LE(g)) <= Cardinality(LE(h))
    BY <2>1, <2>2, FS_Subset
  <2>4. Cardinality(LE(g)) # Cardinality(LE(h))
    BY <2>1, <2>2, FS_Subset
  <2>5. QED
    BY <2>2, <2>3, <2>4
<1>7. ASSUME NEW k \in 1 .. n
      PROVE  \E h \in E : Cardinality(LE(h)) = k
  <2>1. SUFFICES ASSUME \A h \in E : Cardinality(LE(h)) # k PROVE FALSE
    OBVIOUS
  <2> DEFINE U == (1 .. n) \ {k}
  <2>2. f \in [E -> U]
    BY <1>5, <2>1
  <2>3. IsFiniteSet(U) /\ Cardinality(U) < Cardinality(E)
    <3>1. IsFiniteSet(1 .. n) /\ Cardinality(1 .. n) = n
      <4>1. /\ IsFiniteSet(1 .. n)
            /\ Cardinality(1 .. n) = IF 1 > n THEN 0 ELSE n - 1 + 1
        BY <1>1, FS_Interval
      <4>2. QED
        BY <1>1, <4>1
    <3>2. IsFiniteSet(U) /\ Cardinality(U) = n - 1
      BY <3>1, FS_RemoveElement
    <3>3. QED
      BY <1>1, <1>2, <3>2
  <2>4. PICK x \in E, y \in E : x # y /\ f[x] = f[y]
    <3> HIDE DEF f, U
    <3>1. QED
      BY <1>2, <2>2, <2>3, FS_PigeonHole
  <2>5. Cardinality(LE(x)) = Cardinality(LE(y))
    BY <2>4
  <2>6. Rank[x] < Rank[y] \/ Rank[y] < Rank[x]
    BY <1>3, <1>4, <2>4
  <2> HIDE DEF LE
  <2>7. Cardinality(LE(x)) \in Nat /\ Cardinality(LE(y)) \in Nat
    BY <1>1, <1>5
  <2>8. QED
    BY <1>6, <2>5, <2>6, <2>7
<1> DEFINE r == Sorted(s)
<1>8. DOMAIN r = 1 .. n /\ \A k \in 1 .. n : r[k] = CHOOSE h \in E : Cardinality(LE(h)) = k
  BY <1>1 DEF Sorted
<1>9. \A k \in 1 .. n : r[k] \in E /\ Cardinality(LE(r[k])) = k
  BY <1>7, <1>8
<1>10. r \in [1 .. n -> Paths]
  BY <1>1, <1>8, <1>9 DEF Sorted
<1> HIDE DEF r, LE
<1>11. r \in Seq(Paths) /\ Len(r) = n
  BY <1>1, <1>10, FunctionIsSeq
<1>12. ASSUME NEW j \in 1 .. n, NEW k \in 1 .. n, j < k
       PROVE  Rank[r[j]] < Rank[r[k]]
  <2>1. r[j] \in E /\ r[k] \in E /\ Cardinality(LE(r[j])) = j /\ Cardinality(LE(r[k])) = k
    BY <1>9
  <2>2. Rank[r[j]] \in Nat /\ Rank[r[k]] \in Nat
    BY <1>3, <2>1
  <2>3. ~(Rank[r[k]] < Rank[r[j]])
    <3>1. Rank[r[k]] < Rank[r[j]] => k < j
      BY <1>6, <2>1
    <3>2. QED
      BY <1>1, <1>12, <3>1
  <2>4. r[j] # r[k]
    BY <1>12, <2>1
  <2>5. Rank[r[j]] # Rank[r[k]]
    BY <1>4, <2>1, <2>4
  <2>6. QED
    BY <2>2, <2>3, <2>5
<1>13. QED
  BY <1>8, <1>9, <1>11, <1>12 DEF r, n, E

-----------------------------------------------------------------------------
(* The LRU cache.                                                           *)

SessionRecord == [path: Paths \cup {NoPath}, preamble: PreambleSet]

(* CacheType in terms of the set of items.                                  *)
LEMMA UniquePaths ==
  ASSUME NEW items, NEW of
  PROVE  (\A k, l \in DOMAIN items : of[items[k]].path = of[items[l]].path => k = l)
           <=> /\ Distinct(items)
               /\ \A a, b \in Elements(items) : of[a].path = of[b].path => a = b
<1>1. ASSUME \A k, l \in DOMAIN items : of[items[k]].path = of[items[l]].path => k = l
      PROVE  /\ Distinct(items)
             /\ \A a, b \in Elements(items) : of[a].path = of[b].path => a = b
  <2>1. Distinct(items)
    BY <1>1 DEF Distinct
  <2>2. ASSUME NEW a \in Elements(items), NEW b \in Elements(items), of[a].path = of[b].path
        PROVE  a = b
    <3>1. PICK k \in DOMAIN items : a = items[k]
      BY DEF Elements
    <3>2. PICK l \in DOMAIN items : b = items[l]
      BY DEF Elements
    <3>3. k = l
      BY <1>1, <2>2, <3>1, <3>2
    <3>4. QED
      BY <3>1, <3>2, <3>3
  <2>3. QED
    BY <2>1, <2>2
<1>2. ASSUME Distinct(items), \A a, b \in Elements(items) : of[a].path = of[b].path => a = b,
             NEW k \in DOMAIN items, NEW l \in DOMAIN items,
             of[items[k]].path = of[items[l]].path
      PROVE  k = l
  <2>1. items[k] = items[l]
    BY <1>2 DEF Elements
  <2>2. QED
    BY <1>2, <2>1 DEF Distinct
<1>3. QED
  BY <1>1, <1>2

(* get, take and onClose: the item of a path is found, and everything else  *)
(* stays.                                                                   *)
LEMMA TakeProperties ==
  ASSUME CacheType, NEW p \in Paths
  PROVE  /\ sessions \in Seq(Sessions) /\ Distinct(sessions)
         /\ Elements(sessions) \subseteq Sessions
         /\ Take(p) \in Seq(Sessions) /\ Len(Take(p)) <= Len(sessions) /\ Distinct(Take(p))
         /\ Elements(Take(p)) = {s \in Elements(sessions) : session[s].path # p}
         /\ Found(p) # {} =>
              /\ SessionFor(p) \in Elements(sessions) /\ session[SessionFor(p)].path = p
              /\ <<SessionFor(p)>> \o Take(p) \in Seq(Sessions)
              /\ Len(<<SessionFor(p)>> \o Take(p)) = Len(sessions)
              /\ Distinct(<<SessionFor(p)>> \o Take(p))
              /\ Elements(<<SessionFor(p)>> \o Take(p)) = Elements(sessions)
         /\ Found(p) = {} => \A s \in Elements(sessions) : session[s].path # p
<1>1. sessions \in Seq(Sessions) /\ Len(sessions) \in Nat /\ Elements(sessions) \subseteq Sessions
  BY LenProperties, ElementOfSeq DEF CacheType, Elements
<1>2. /\ Distinct(sessions)
      /\ \A a, b \in Elements(sessions) : session[a].path = session[b].path => a = b
  BY UniquePaths DEF CacheType
<1>3. CASE Found(p) = {}
  <2>1. Take(p) = sessions
    BY <1>3 DEF Take
  <2>2. \A s \in Elements(sessions) : session[s].path # p
    BY <1>3 DEF Found, Elements
  <2>3. QED
    BY <1>1, <1>2, <1>3, <2>1, <2>2
<1>4. CASE Found(p) # {}
  <2> DEFINE k == CHOOSE k \in Found(p) : TRUE
             x == sessions[k]
  <2>1. k \in DOMAIN sessions /\ session[x].path = p
    BY <1>4 DEF Found
  <2>2. Take(p) = Drop(sessions, k) /\ SessionFor(p) = x
    BY <1>4 DEF Take, Without, Drop, SessionFor
  <2> HIDE DEF k
  <2>3. /\ Take(p) \in Seq(Sessions) /\ Len(Take(p)) = Len(sessions) - 1
        /\ Distinct(Take(p)) /\ Elements(Take(p)) = Elements(sessions) \ {x}
    BY <1>1, <1>2, <2>1, <2>2, DropProperties
  <2>4. x \in Elements(sessions) /\ x \in Sessions
    BY <1>1, <2>1 DEF Elements
  <2> HIDE DEF x
  <2>5. Elements(Take(p)) = {s \in Elements(sessions) : session[s].path # p}
    BY <1>2, <2>1, <2>3, <2>4
  <2>6. /\ <<x>> \o Take(p) \in Seq(Sessions) /\ Len(<<x>> \o Take(p)) = Len(Take(p)) + 1
        /\ Distinct(<<x>> \o Take(p)) /\ Elements(<<x>> \o Take(p)) = {x} \cup Elements(Take(p))
    BY <2>3, <2>4, PushFrontProperties
  <2>7. Len(Take(p)) <= Len(sessions) /\ Len(<<x>> \o Take(p)) = Len(sessions)
    BY <1>1, <2>3, <2>6
  <2>8. Elements(<<x>> \o Take(p)) = Elements(sessions)
    BY <2>3, <2>4, <2>6
  <2>9. QED
    BY <1>1, <1>2, <1>4, <2>1, <2>2, <2>3, <2>4, <2>5, <2>6, <2>7, <2>8
<1>5. QED
  BY <1>3, <1>4

(* What ensureSession(p) does when it returns s. *)
Ensured(p, s) ==
  /\ s \in Sessions
  /\ sessions' \in Seq(Sessions) /\ Len(sessions') <= maxNum /\ Distinct(sessions')
  /\ session' \in [Sessions -> SessionRecord]
  /\ s \in Elements(sessions')
  /\ PreambleFor(p) \in PreambleSet
  /\ session'[s] = [path |-> p, preamble |-> PreambleFor(p)]
  /\ \A t \in Elements(sessions') : t # s => t \in Elements(sessions) /\ session[t].path # p
  /\ \A t \in Sessions : t # s => session'[t] = session[t]
  /\ \/ s \in Elements(sessions) /\ session' = session
     \/ /\ PreambleFor(p) = NoPreamble
        /\ s \notin Elements(sessions) /\ s # preambler.session /\ s # diagnoser.session

(* It returns the session of p, with the preamble that it had, or a new one *)
(* that nobody holds.                                                       *)
LEMMA EnsureSessionProperties ==
  ASSUME ClientType, CacheType, NEW p \in Paths, EnsureSession(p)
  PROVE  Ensured(p, SessionFor(p))
<1>1. /\ sessions \in Seq(Sessions) /\ Distinct(sessions) /\ Len(sessions) \in Nat
      /\ Elements(sessions) \subseteq Sessions
      /\ session \in [Sessions -> SessionRecord] /\ Len(sessions) <= maxNum
  BY TakeProperties, LenProperties DEF CacheType, SessionRecord
<1>2. maxNum \in Nat \ {0} /\ 1 .. maxNum + 3 \subseteq Sessions
  <2>1. PICK start \in Starts : maxNum = start.maxNum
    BY DEF ClientType
  <2>2. QED
    BY <2>1, StartsAssumption DEF Sessions
<1>3. NoPreamble \in PreambleSet
  BY Facts
<1>4. CASE Found(p) # {}
  <2> DEFINE s == SessionFor(p)
  <2>1. sessions' = <<s>> \o Take(p) /\ session' = session
    BY <1>4 DEF EnsureSession
  <2>2. s \in Elements(sessions) /\ session[s].path = p
    BY <1>4, TakeProperties
  <2>3. /\ sessions' \in Seq(Sessions) /\ Len(sessions') = Len(sessions)
        /\ Distinct(sessions') /\ Elements(sessions') = Elements(sessions)
    BY <1>4, <2>1, TakeProperties
  <2>4. PreambleFor(p) = session[s].preamble
    BY <1>4 DEF PreambleFor
  <2> HIDE DEF s
  <2>5. s \in Sessions /\ session[s] \in SessionRecord
    BY <1>1, <2>2
  <2>6. PreambleFor(p) \in PreambleSet /\ session[s] = [path |-> p, preamble |-> PreambleFor(p)]
    BY <2>2, <2>4, <2>5 DEF SessionRecord
  <2>7. \A t \in Elements(sessions) : session[t].path = p => t = s
    BY <2>2, UniquePaths DEF CacheType
  <2>8. Ensured(p, s)
    BY <1>1, <2>1, <2>2, <2>3, <2>5, <2>6, <2>7 DEF Ensured
  <2>9. QED
    BY <2>8 DEF s
<1>5. CASE Found(p) = {}
  <2> DEFINE s == SessionFor(p)
             new == [path |-> p, preamble |-> NoPreamble]
             kept == IF Len(sessions) >= maxNum THEN SubSeq(sessions, 1, Len(sessions) - 1)
                     ELSE sessions
  <2>1. s \in Free
    <3>1. Sessions \ (Elements(sessions) \cup {preambler.session, diagnoser.session}) # {}
      BY <1>1, <1>2, FreshExists
    <3>2. Free # {}
      BY <3>1 DEF Free, Elements
    <3>3. QED
      BY <1>5, <3>2 DEF SessionFor
  <2>2. /\ s \in Sessions /\ s \notin Elements(sessions)
        /\ s # preambler.session /\ s # diagnoser.session
    BY <2>1 DEF Free, Elements
  <2>3. sessions' = <<s>> \o kept /\ session' = [session EXCEPT ![s] = new]
    BY <1>5 DEF EnsureSession, Insert
  <2>4. PreambleFor(p) = NoPreamble
    BY <1>5 DEF PreambleFor
  <2>5. \A t \in Elements(sessions) : session[t].path # p
    BY <1>5, TakeProperties
  <2> HIDE DEF s
  <2>6. /\ kept \in Seq(Sessions) /\ Len(kept) + 1 <= maxNum /\ Len(kept) \in Nat
        /\ Distinct(kept) /\ Elements(kept) \subseteq Elements(sessions)
    <3>1. CASE Len(sessions) >= maxNum
      <4>1. Len(sessions) - 1 \in 0 .. Len(sessions) /\ Len(sessions) = maxNum
        BY <1>1, <1>2, <3>1
      <4>2. QED
        BY <1>1, <1>2, <3>1, <4>1, PrefixProperties
    <3>2. CASE ~(Len(sessions) >= maxNum)
      BY <1>1, <1>2, <3>2
    <3>3. QED
      BY <3>1, <3>2
  <2> HIDE DEF kept
  <2>7. /\ sessions' \in Seq(Sessions) /\ Len(sessions') <= maxNum /\ Distinct(sessions')
        /\ Elements(sessions') = {s} \cup Elements(kept)
    <3>1. s \notin Elements(kept)
      BY <2>2, <2>6
    <3>2. QED
      BY <2>2, <2>3, <2>6, <3>1, PushFrontProperties
  <2>8. /\ session' \in [Sessions -> SessionRecord] /\ session'[s] = new
        /\ \A t \in Sessions : t # s => session'[t] = session[t]
    <3>1. new \in SessionRecord
      BY <1>3 DEF SessionRecord
    <3> HIDE DEF new
    <3>2. QED
      BY <1>1, <2>2, <2>3, <3>1
  <2>9. Ensured(p, s)
    BY <1>3, <2>2, <2>4, <2>5, <2>6, <2>7, <2>8 DEF Ensured
  <2>10. QED
    BY <2>9 DEF s
<1>6. QED
  BY <1>4, <1>5

-----------------------------------------------------------------------------
(* Types.                                                                   *)

(* A message or a failure is taken from the budget.                         *)
LEMMA SpendProperties ==
  ASSUME ClientType
  PROVE  /\ Spend("messages") =>
              /\ budget' \in [messages: 0 .. MaxMessages, failures: Nat]
              /\ budget'.messages = budget.messages - 1 /\ budget.messages > 0
         /\ Spend("failures") =>
              /\ budget' \in [messages: 0 .. MaxMessages, failures: Nat]
              /\ budget'.messages = budget.messages
         /\ budget.messages \in Nat /\ clock \in Nat /\ sent \in Nat
<1>1. budget \in [messages: 0 .. MaxMessages, failures: Nat] /\ MaxMessages \in Nat
  BY Facts DEF ClientType
<1>2. budget.messages \in 0 .. MaxMessages /\ budget.failures \in Nat
  BY <1>1
<1>3. Spend("messages") => budget' = [messages |-> budget.messages - 1,
                                      failures |-> budget.failures] /\ budget.messages > 0
  BY <1>1 DEF Spend
<1>4. Spend("failures") => budget' = [messages |-> budget.messages,
                                      failures |-> budget.failures - 1] /\ budget.failures > 0
  BY <1>1 DEF Spend
<1>5. clock \in Nat /\ sent \in Nat
  BY Facts DEF ClientType
<1>6. QED
  BY <1>1, <1>2, <1>3, <1>4, <1>5

(* The client's messages keep the types of its buffers.                     *)
LEMMA NextClient ==
  ASSUME TypeOK, InBudget, Working, [Next]_vars
  PROVE  ClientType' /\ InBudget'
<1> DEFINE Buf == [open: BOOLEAN, text: Texts \cup {NoText}, timestamp: Texts \cup {0}]
           File == [text: Texts, mtime: Texts]
           n == budget.messages
<1>1. /\ clock \in Texts /\ disk \in [Paths -> File]
      /\ buffer \in [Paths -> Buf] /\ sent \in Requests \cup {NoRequest}
      /\ maxNum \in {start.maxNum : start \in Starts}
      /\ budget \in [messages: 0 .. MaxMessages, failures: Nat] /\ ClientType
  BY DEF ClientType, TypeOK
<1>2. /\ clock + n <= MaxMessages + 1 /\ sent + n <= MaxMessages
      /\ n \in Nat /\ clock \in Nat /\ sent \in Nat /\ MaxMessages \in Nat
      /\ \A p \in Paths : buffer[p].open => buffer[p].text \in Texts
  BY <1>1, Facts, SpendProperties DEF InBudget
<1>3. CASE UNCHANGED <<clientVars, budget>>
  BY <1>1, <1>2, <1>3 DEF clientVars, ClientType, InBudget
<1>4. CASE Spend("failures") /\ UNCHANGED clientVars
  BY <1>1, <1>2, <1>4, SpendProperties DEF clientVars, ClientType, InBudget
<1>5. ASSUME Spend("messages")
      PROVE  /\ budget' \in [messages: 0 .. MaxMessages, failures: Nat]
             /\ budget'.messages = n - 1 /\ n > 0
  BY <1>1, <1>5, SpendProperties
<1> DEFINE nn == budget'.messages
           Typed == /\ clock' \in Texts /\ disk' \in [Paths -> File]
                    /\ buffer' \in [Paths -> Buf] /\ sent' \in Requests \cup {NoRequest}
                    /\ maxNum' = maxNum
                    /\ clock' <= clock + 1 /\ sent' <= sent + 1
                    /\ \A q \in Paths : buffer'[q].open => buffer'[q].text \in Texts
<1>6. SUFFICES ASSUME Spend("messages") PROVE Typed
  <2>1. ASSUME Spend("messages"), Typed
        PROVE  ClientType' /\ InBudget'
    <3>1. nn = n - 1 /\ n > 0 /\ budget' \in [messages: 0 .. MaxMessages, failures: Nat]
      BY <1>5, <2>1
    <3>2. clock' \in Nat /\ sent' \in Nat
      BY <2>1, Facts
    <3>3. ClientType'
      BY <1>1, <2>1, <3>1 DEF ClientType
    <3>4. clock' + nn <= MaxMessages + 1 /\ sent' + nn <= MaxMessages
      BY <1>2, <2>1, <3>1, <3>2
    <3>5. QED
      BY <2>1, <3>3, <3>4 DEF InBudget
  <2>2. CASE ~Spend("messages")
    BY <1>3, <1>4, <2>2 DEF Next, vars, Client, Main, PreambleMain, CompletionMain,
       DiagnosticMain, mainVars, DidOpen, DidChange, DidSave, DidClose, Completion, Clear,
       OnView, Schedule, OnClose, PreambleTake, PreambleSession, PreambleStore, PreambleFail,
       PreambleForward, CompTake, CompDrop, CompSession, CompRebuild, CompParse, CompReply,
       CompFail, DiagTake, DiagSession, DiagRebuild, DiagCheck, DiagRead, DiagPublish,
       DiagFail, Tick
  <2>3. QED
    BY <2>1, <2>2
<1>7. n > 0
  BY <1>5, <1>6
<1>8. CASE UNCHANGED clientVars
  BY <1>1, <1>2, <1>8 DEF clientVars
<1>9. ASSUME NEW p \in Paths, NEW b \in Buf, b.open => b.text \in Texts,
             buffer' = [buffer EXCEPT ![p] = b]
      PROVE  /\ buffer' \in [Paths -> Buf]
             /\ \A q \in Paths : buffer'[q].open => buffer'[q].text \in Texts
  <2> HIDE DEF Buf
  <2>1. QED
    BY <1>1, <1>2, <1>9
<1>10. ASSUME NEW p \in Paths, DidOpen(p)
       PROVE  Typed
  <2>1. disk[p].text \in Texts
    BY <1>1
  <2>2. UNCHANGED <<clock, disk, sent, maxNum>>
    BY <1>10 DEF DidOpen
  <2> DEFINE b == [open |-> TRUE, text |-> disk[p].text, timestamp |-> 0]
  <2>3. buffer' = [buffer EXCEPT ![p] = b] /\ b \in Buf /\ b.text \in Texts
    BY <1>10, <2>1 DEF DidOpen
  <2> HIDE DEF b, Buf
  <2>4. QED
    BY <1>1, <1>2, <1>9, <2>2, <2>3
<1>11. ASSUME NEW p \in Paths, DidChange(p)
       PROVE  Typed
  <2>1. clock' = clock + 1 /\ clock' \in Texts
    BY <1>2, <1>7, <1>11, Facts DEF DidChange
  <2>2. UNCHANGED <<disk, sent, maxNum>>
    BY <1>11 DEF DidChange
  <2> DEFINE b == [open |-> TRUE, text |-> clock', timestamp |-> clock']
  <2>3. buffer' = [buffer EXCEPT ![p] = b] /\ b \in Buf /\ b.text \in Texts
    BY <1>11, <2>1 DEF DidChange
  <2> HIDE DEF b, Buf
  <2>4. QED
    BY <1>1, <1>2, <1>9, <2>1, <2>2, <2>3
<1>12. ASSUME NEW p \in Paths, DidSave(p)
       PROVE  Typed
  <2>1. UNCHANGED <<clock, buffer, sent, maxNum>>
    BY <1>12 DEF DidSave
  <2>2. buffer[p].text \in Texts
    BY <1>2, <1>12 DEF DidSave
  <2>3. disk' \in [Paths -> File]
    BY <1>1, <1>12, <2>2 DEF DidSave
  <2> HIDE DEF Buf, File
  <2>4. QED
    BY <1>1, <1>2, <2>1, <2>3
<1>13. ASSUME NEW p \in Paths, DidClose(p)
       PROVE  Typed
  <2>1. UNCHANGED <<clock, disk, sent, maxNum>>
    BY <1>13 DEF DidClose
  <2> DEFINE b == [open |-> FALSE, text |-> NoText, timestamp |-> 0]
  <2>2. buffer' = [buffer EXCEPT ![p] = b] /\ b \in Buf /\ b.open = FALSE
    BY <1>13 DEF DidClose
  <2> HIDE DEF b, Buf
  <2>3. QED
    BY <1>1, <1>2, <1>9, <2>1, <2>2
<1>14. ASSUME NEW p \in Paths, Completion(p)
       PROVE  Typed
  <2>1. UNCHANGED <<clock, disk, buffer, maxNum>> /\ sent' = sent + 1
    BY <1>14 DEF Completion
  <2>2. sent' \in Requests
    BY <1>2, <1>7, <2>1, Facts
  <2> HIDE DEF Buf, File
  <2>3. QED
    BY <1>1, <1>2, <2>1, <2>2
<1>15. QED
  <2> HIDE DEF Buf, File
  <2>1. \/ UNCHANGED clientVars
        \/ \E p \in Paths :
             DidOpen(p) \/ DidChange(p) \/ DidSave(p) \/ DidClose(p) \/ Completion(p)
    BY DEF Next, vars, Client, Main, PreambleMain, CompletionMain, DiagnosticMain, mainVars,
       Clear, OnView, Schedule, OnClose, PreambleTake, PreambleSession, PreambleStore,
       PreambleFail, PreambleForward, CompTake, CompDrop, CompSession, CompRebuild, CompParse,
       CompReply, CompFail, DiagTake, DiagSession, DiagRebuild, DiagCheck, DiagRead,
       DiagPublish, DiagFail, Tick
  <2>2. QED
    BY <1>8, <1>10, <1>11, <1>12, <1>13, <1>14, <2>1

-----------------------------------------------------------------------------
(* The timestamps of a preamble.                                            *)

(* A remapped header takes the timestamp of some header of the old preamble *)
(* or none.                                                                 *)
LEMMA OldTimestampIs ==
  ASSUME NEW h \in Paths, NEW old, old.includes \in Seq(Paths), old.seen \in [Paths -> Nat]
  PROVE  /\ OldTimestamp(h, old) \in Nat
         /\ OldTimestamp(h, old) = 0 \/ \E g \in Paths : OldTimestamp(h, old) = old.seen[g]
<1> DEFINE at == {k \in DOMAIN old.includes : Rank[old.includes[k]] >= Rank[h]}
           least == CHOOSE k \in at : \A j \in at : k <= j
<1>1. CASE at = {}
  BY <1>1 DEF OldTimestamp
<1>2. CASE at # {}
  <2>1. at \subseteq Nat
    BY LenProperties
  <2>2. \E k \in at : \A j \in at : k <= j
    BY <1>2, <2>1, LeastExists
  <2>3. least \in at
    BY <2>2
  <2>4. old.includes[least] \in Paths
    BY <2>3, LenProperties, ElementOfSeq
  <2>5. OldTimestamp(h, old) = old.seen[old.includes[least]]
    BY <1>2 DEF OldTimestamp
  <2> HIDE DEF least
  <2>6. QED
    BY <2>4, <2>5
<1>3. QED
  BY <1>1, <1>2

(* What buildPreamble stores is a preamble, whatever preamble there was.    *)
LEMMA MergeSeenType ==
  ASSUME NEW p \in Paths, NEW built \in PreambleSet, NEW old \in PreambleSet,
         built.includes = Includes[p]
  PROVE  MergeSeen(built, old) \in PreambleSet
<1>1. Sorted(Includes[p]) \in Seq(Paths)
  <2>1. Includes[p] \in Seq(Paths) /\ Distinct(Includes[p])
    BY IncludesAssumption DEF Distinct
  <2>2. QED
    BY <2>1, SortedProperties
<1>2. \A h \in Paths : OldTimestamp(h, old) \in Nat
  <2>1. SUFFICES ASSUME NEW h \in Paths PROVE OldTimestamp(h, old) \in Nat
    OBVIOUS
  <2>2. old.includes \in Seq(Paths) /\ old.seen \in [Paths -> Nat]
    BY DEF PreambleSet
  <2>3. QED
    BY <2>2, OldTimestampIs
<1>3. CASE old = NoPreamble
  BY <1>3 DEF MergeSeen
<1>4. CASE old # NoPreamble
  <2> DEFINE seen == [h \in Paths |->
                        IF built.seen[h] = 0
                           /\ \E k \in DOMAIN built.includes : built.includes[k] = h
                        THEN OldTimestamp(h, old) ELSE built.seen[h]]
  <2>1. MergeSeen(built, old) =
          [built EXCEPT !.includes = Sorted(Includes[p]), !.seen = seen]
    BY <1>4 DEF MergeSeen, PreambleSet
  <2>2. seen \in [Paths -> Nat]
    BY <1>2 DEF PreambleSet
  <2> HIDE DEF seen
  <2>3. QED
    BY <1>1, <2>1, <2>2 DEF PreambleSet
<1>5. QED
  BY <1>3, <1>4

(* What was answered, lost and published keeps its type.                    *)
LEMMA NextHistory ==
  ASSUME TypeOK, InBudget, Working, [Next]_vars
  PROVE  HistoryType'
<1> DEFINE Pub == [text: Texts \cup {NoText}, fits: BOOLEAN]
<1>1. /\ replies \in [Requests -> Nat] /\ dropped \subseteq Requests
      /\ lost \subseteq Requests /\ excused \subseteq Paths
      /\ published \in [Paths -> Pub]
  BY DEF TypeOK, HistoryType
<1>2. SUFFICES /\ replies' \in [Requests -> Nat] /\ dropped' \subseteq Requests
               /\ lost' \subseteq Requests /\ excused' \subseteq Paths
               /\ published' \in [Paths -> Pub]
  BY DEF HistoryType
<1>3. ASSUME NEW r, replies' = [replies EXCEPT ![r] = @ + 1]
      PROVE  replies' \in [Requests -> Nat]
  <2>1. CASE r \in Requests
    <3>1. replies[r] + 1 \in Nat
      BY <1>1, <2>1
    <3>2. QED
      BY <1>1, <1>3, <3>1
  <2>2. CASE r \notin Requests
    BY <1>1, <1>3, <2>2
  <2>3. QED
    BY <2>1, <2>2
<1>4. ASSUME NEW p, NEW x \in Pub, published' = [published EXCEPT ![p] = x]
      PROVE  published' \in [Paths -> Pub]
  <2> HIDE DEF Pub
  <2>1. QED
    BY <1>1, <1>4
<1>5. CASE UNCHANGED history
  BY <1>1, <1>5 DEF history
<1>6. CASE \E p \in Paths : DidOpen(p)
  <2> PICK p \in Paths : DidOpen(p)
    BY <1>6
  <2>1. UNCHANGED <<replies, dropped, lost, excused>>
    BY DEF DidOpen
  <2>2. published' = [published EXCEPT ![p] = Unpublished]
    BY DEF DidOpen
  <2>3. Unpublished \in Pub
    BY DEF Unpublished
  <2> HIDE DEF Pub
  <2>4. QED
    BY <1>1, <1>4, <2>1, <2>2, <2>3
<1>7. CASE \E p \in Paths : Completion(p)
  <2>1. UNCHANGED <<dropped, lost, excused, published>>
    BY <1>7 DEF Completion
  <2>2. replies' = [replies EXCEPT ![sent'] = @ + 1] \/ replies' = replies
    BY <1>7 DEF Completion
  <2>3. QED
    BY <1>1, <1>3, <2>1, <2>2
<1>8. CASE PreambleTake
  <2>1. UNCHANGED <<replies, dropped, published>>
    BY <1>8 DEF PreambleTake
  <2>2. /\ lost' = lost \cup ({t.comp : t \in Erased} \ {NoRequest})
        /\ excused' = excused \cup {t.path : t \in Erased}
    BY <1>8 DEF PreambleTake
  <2>3. Erased \subseteq PreambleTask
    <3>1. preamble_tasks.priority \in Seq(PreambleTask)
      BY DEF TypeOK, QueueType, QueueOf
    <3>2. maxNum \in Nat
      BY StartsAssumption DEF TypeOK, ClientType
    <3>3. QED
      BY <3>1, <3>2, LenProperties, ElementOfSeq DEF Erased
  <2>4. \A t \in PreambleTask : t.comp \in Requests \cup {NoRequest} /\ t.path \in Paths
    BY DEF PreambleTask
  <2>5. lost' \subseteq Requests /\ excused' \subseteq Paths
    BY <1>1, <2>2, <2>3, <2>4
  <2> HIDE DEF Pub
  <2>6. QED
    BY <1>1, <2>1, <2>5
<1>9. CASE PreambleFail \/ DiagFail
  <2>1. UNCHANGED <<replies, dropped, lost, published>>
    BY <1>9 DEF PreambleFail, DiagFail
  <2>2. excused' = excused \cup {preambler.path} \/ excused' = excused \cup {diagnoser.path}
    BY <1>9 DEF PreambleFail, DiagFail
  <2>3. PreambleFail => preambler.path \in Paths
    BY DEF PreambleFail, Working
  <2>4. DiagFail => diagnoser.path \in Paths
    BY DEF DiagFail, Working
  <2>5. excused' \subseteq Paths
    BY <1>1, <1>9, <2>3, <2>4 DEF PreambleFail, DiagFail
  <2> HIDE DEF Pub
  <2>6. QED
    BY <1>1, <2>1, <2>5
<1>10. CASE CompDrop \/ CompReply
  <2>1. UNCHANGED <<lost, excused, published>>
    BY <1>10 DEF CompDrop, CompReply
  <2>2. replies' = [replies EXCEPT ![completer.id] = @ + 1]
    BY <1>10 DEF CompDrop, CompReply
  <2>3. completer.id \in Requests
    BY <1>10 DEF CompDrop, CompReply, Working
  <2>4. dropped' \subseteq Requests
    BY <1>1, <1>10, <2>3 DEF CompDrop, CompReply
  <2> HIDE DEF Pub
  <2>5. QED
    BY <1>1, <1>3, <2>1, <2>2, <2>4
<1>11. CASE CompFail
  <2>1. UNCHANGED <<replies, dropped, excused, published>>
    BY <1>11 DEF CompFail
  <2>2. completer.id \in Requests /\ lost' = lost \cup {completer.id}
    BY <1>11 DEF CompFail, Working
  <2> HIDE DEF Pub
  <2>3. QED
    BY <1>1, <2>1, <2>2
<1>12. CASE DiagPublish
  <2>1. UNCHANGED <<replies, dropped, lost, excused>>
    BY <1>12 DEF DiagPublish
  <2> DEFINE x == [text |-> diagnoser.text,
                   fits |-> PreambleFits(diagnoser.preamble.bounds, diagnoser.text)]
  <2>2. published' = [published EXCEPT ![diagnoser.path] = x]
    BY <1>12 DEF DiagPublish
  <2>3. x \in Pub
    <3>1. diagnoser.text \in Texts \cup {NoText}
      BY DEF TypeOK, ThreadType
    <3>2. PreambleFits(diagnoser.preamble.bounds, diagnoser.text) \in BOOLEAN
      BY DEF PreambleFits
    <3>3. QED
      BY <3>1, <3>2
  <2> HIDE DEF Pub, x
  <2>4. QED
    BY <1>1, <1>4, <2>1, <2>2, <2>3
<1>13. QED
  BY <1>5, <1>6, <1>7, <1>8, <1>9, <1>10, <1>11, <1>12
     DEF Next, vars, Client, Main, PreambleMain, CompletionMain, DiagnosticMain, DidChange,
     DidSave, DidClose, Clear, OnView, Schedule, OnClose, PreambleSession, PreambleStore,
     PreambleForward, CompTake, CompSession, CompRebuild, CompParse, DiagTake, DiagSession,
     DiagRebuild, DiagCheck, DiagRead, Tick

(* The LRU cache keeps its bound and one session for each file.             *)
LEMMA NextCache ==
  ASSUME TypeOK, Working, [Next]_vars
  PROVE  CacheType'
<1>1. /\ ClientType /\ CacheType /\ sessions \in Seq(Sessions) /\ Len(sessions) \in Nat
      /\ Len(sessions) <= maxNum /\ session \in [Sessions -> SessionRecord]
      /\ Distinct(sessions)
      /\ \A a, b \in Elements(sessions) : session[a].path = session[b].path => a = b
  BY UniquePaths, LenProperties DEF TypeOK, CacheType, SessionRecord
<1>2. maxNum' = maxNum /\ maxNum \in Nat \ {0}
  <2>1. maxNum \in Nat \ {0}
    BY StartsAssumption DEF TypeOK, ClientType
  <2>2. maxNum' = maxNum
    BY DEF Next, vars, clientVars, Client, Main, PreambleMain, CompletionMain, DiagnosticMain,
       mainVars, DidOpen, DidChange, DidSave, DidClose, Completion, Clear, OnView, Schedule,
       OnClose, PreambleTake, PreambleSession, PreambleStore, PreambleFail, PreambleForward,
       CompTake, CompDrop, CompSession, CompRebuild, CompParse, CompReply, CompFail, DiagTake,
       DiagSession, DiagRebuild, DiagCheck, DiagRead, DiagPublish, DiagFail, Tick
  <2>3. QED
    BY <2>1, <2>2
<1>3. SUFFICES /\ sessions' \in Seq(Sessions) /\ Len(sessions') <= maxNum
               /\ session' \in [Sessions -> SessionRecord] /\ Distinct(sessions')
               /\ \A a, b \in Elements(sessions') : session'[a].path = session'[b].path => a = b
  BY <1>2, UniquePaths DEF CacheType, SessionRecord
<1>4. CASE UNCHANGED <<sessions, session>>
  BY <1>1, <1>4
<1>5. ASSUME sessions' \in Seq(Sessions), Len(sessions') <= Len(sessions), session' = session,
             Distinct(sessions'), Elements(sessions') \subseteq Elements(sessions)
      PROVE  /\ sessions' \in Seq(Sessions) /\ Len(sessions') <= maxNum
             /\ session' \in [Sessions -> SessionRecord] /\ Distinct(sessions')
             /\ \A a, b \in Elements(sessions') : session'[a].path = session'[b].path => a = b
  <2>1. Len(sessions') \in Nat
    BY <1>5, LenProperties
  <2>2. QED
    BY <1>1, <1>2, <1>5, <2>1
<1>6. CASE OnView
  <2>1. main.path \in Paths /\ session' = session
    BY <1>6 DEF OnView, Working
  <2>2. \/ sessions' = sessions
        \/ Found(main.path) # {} /\ sessions' = <<SessionFor(main.path)>> \o Take(main.path)
    BY <1>6 DEF OnView
  <2>3. CASE sessions' = sessions
    BY <1>4, <2>1, <2>3
  <2>4. CASE Found(main.path) # {} /\ sessions' = <<SessionFor(main.path)>> \o Take(main.path)
    <3>1. /\ sessions' \in Seq(Sessions) /\ Len(sessions') = Len(sessions)
          /\ Distinct(sessions') /\ Elements(sessions') = Elements(sessions)
      BY <1>1, <2>1, <2>4, TakeProperties
    <3>2. QED
      BY <1>1, <1>5, <2>1, <3>1
  <2>5. QED
    BY <2>2, <2>3, <2>4
<1>7. CASE OnClose
  <2>1. main.path \in Paths /\ session' = session /\ sessions' = Take(main.path)
    BY <1>7 DEF OnClose, Working
  <2>2. /\ sessions' \in Seq(Sessions) /\ Len(sessions') <= Len(sessions)
        /\ Distinct(sessions') /\ Elements(sessions') \subseteq Elements(sessions)
    BY <1>1, <2>1, TakeProperties, ZenonT(30)
  <2>3. QED
    BY <1>5, <2>1, <2>2
<1>8. CASE Clear
  <2>1. sessions' = <<>> /\ session' = session
    BY <1>8 DEF Clear
  <2>2. /\ <<>> \in Seq(Sessions) /\ Len(<<>>) = 0 /\ Distinct(<<>>)
        /\ Elements(<<>>) = {}
    BY DEF Distinct, Elements
  <2>3. QED
    BY <1>1, <1>5, <2>1, <2>2
<1>9. ASSUME NEW p \in Paths, EnsureSession(p)
      PROVE  /\ sessions' \in Seq(Sessions) /\ Len(sessions') <= maxNum
             /\ session' \in [Sessions -> SessionRecord] /\ Distinct(sessions')
             /\ \A a, b \in Elements(sessions') : session'[a].path = session'[b].path => a = b
  <2>1. PICK s : Ensured(p, s)
    BY <1>1, <1>9, EnsureSessionProperties
  <2>2. Elements(sessions') \subseteq Sessions
    BY <2>1, LenProperties, ElementOfSeq DEF Ensured, Elements
  <2>3. ASSUME NEW t \in Elements(sessions'), t # s
        PROVE  t \in Elements(sessions) /\ session'[t] = session[t] /\ session[t].path # p
    BY <2>1, <2>2, <2>3 DEF Ensured
  <2>4. session'[s].path = p
    BY <2>1 DEF Ensured
  <2>5. \A a, b \in Elements(sessions') : session'[a].path = session'[b].path => a = b
    BY <1>1, <2>3, <2>4
  <2>6. QED
    BY <2>1, <2>5 DEF Ensured
<1>10. CASE PreambleSession \/ CompSession \/ DiagSession
  <2>1. \E p \in Paths : EnsureSession(p)
    <3>1. CASE PreambleSession
      BY <3>1 DEF PreambleSession, Working
    <3>2. CASE CompSession
      BY <3>2 DEF CompSession, Working
    <3>3. CASE DiagSession
      BY <3>3 DEF DiagSession, Working
    <3>4. QED
      BY <1>10, <3>1, <3>2, <3>3
  <2>2. QED
    BY <1>9, <2>1
<1>11. ASSUME NEW s, NEW b \in PreambleSet, sessions' = sessions,
              session' = [session EXCEPT ![s].preamble = b]
       PROVE  /\ sessions' \in Seq(Sessions) /\ Len(sessions') <= maxNum
              /\ session' \in [Sessions -> SessionRecord] /\ Distinct(sessions')
              /\ \A a, c \in Elements(sessions') : session'[a].path = session'[c].path => a = c
  <2>1. \A t \in Sessions : session[t] \in SessionRecord
    BY <1>1
  <2>2. \A t \in Sessions : session'[t].path = session[t].path
    BY <1>1, <1>11, <2>1 DEF SessionRecord
  <2>3. session' \in [Sessions -> SessionRecord]
    BY <1>1, <1>11, <2>1 DEF SessionRecord
  <2>4. Elements(sessions) \subseteq Sessions
    BY <1>1, LenProperties, ElementOfSeq DEF Elements
  <2>5. QED
    BY <1>1, <1>11, <2>2, <2>3, <2>4
<1>12. CASE PreambleStore
  <2> DEFINE s == preambler.session
             b == MergeSeen(preambler.built, session[s].preamble)
  <2>1. /\ sessions' = sessions /\ session' = [session EXCEPT ![s].preamble = b]
        /\ s \in Sessions
    BY <1>12 DEF PreambleStore, Working
  <2>2. /\ preambler.built \in PreambleSet /\ session[s].preamble \in PreambleSet
        /\ preambler.built.includes = Includes[preambler.path] /\ preambler.path \in Paths
    BY <1>1, <1>12, <2>1 DEF PreambleStore, Working, SessionRecord, TypeOK, ThreadType
  <2>3. b \in PreambleSet
    BY <2>2, MergeSeenType
  <2> HIDE DEF b
  <2>4. QED
    BY <1>11, <2>1, <2>3
<1>13. CASE DiagRebuild
  <2>1. sessions' = sessions
    BY <1>13 DEF DiagRebuild
  <2>2. CASE session' = session
    BY <1>4, <2>1, <2>2
  <2>3. CASE session' # session
    <3> DEFINE s == diagnoser.session
               old == session[s].preamble
               b == [old EXCEPT !.seen = [h \in Paths |-> IF h \in Outdated
                                          THEN buffer[h].timestamp ELSE old.seen[h]]]
    <3>1. session' = [session EXCEPT ![s].preamble.seen =
                         [h \in Paths |-> IF h \in Outdated
                                          THEN buffer[h].timestamp ELSE @[h]]]
      BY <1>13, <2>3 DEF DiagRebuild
    <3>2. s \in Sessions /\ session[s] \in SessionRecord
      BY <1>1, <1>13 DEF DiagRebuild, Working
    <3>3. session' = [session EXCEPT ![s].preamble = b]
      BY <1>1, <3>1, <3>2 DEF SessionRecord
    <3>4. b \in PreambleSet
      <4>1. old \in PreambleSet
        BY <3>2 DEF SessionRecord
      <4>2. \A h \in Paths : buffer[h].timestamp \in Nat
        BY Facts DEF TypeOK, ClientType
      <4> HIDE DEF old
      <4>3. QED
        BY <4>1, <4>2 DEF PreambleSet
    <3> HIDE DEF b, s
    <3>5. QED
      BY <1>11, <2>1, <3>3, <3>4
  <2>4. QED
    BY <2>2, <2>3
<1>14. QED
  BY <1>4, <1>6, <1>7, <1>8, <1>10, <1>12, <1>13
     DEF Next, vars, Client, Main, PreambleMain, CompletionMain, DiagnosticMain, sessionVars,
     DidOpen, DidChange, DidSave, DidClose, Completion, Schedule, PreambleTake, PreambleFail,
     PreambleForward, CompTake, CompDrop, CompRebuild, CompParse, CompReply, CompFail,
     DiagTake, DiagCheck, DiagRead, DiagPublish, DiagFail, Tick

(* scheduleDiag and the pushes to the preamble queue.                       *)
LEMMA ScheduleType ==
  ASSUME QueueType, OneDeque, NEW p \in Paths, NEW d \in Nat, ScheduleDiag(p, d)
  PROVE  /\ next_diag' \in [Paths -> Nat] /\ diag_tasks' \in QueueOf(DiagTask)
         /\ diag_tasks'.priority = <<>>
<1>1. next_diag \in [Paths -> Nat] /\ diag_tasks \in QueueOf(DiagTask)
      /\ diag_tasks.priority = <<>>
  BY DEF QueueType, OneDeque
<1>2. CASE Due(p)
  <2> DEFINE t == [path |-> p, wait |-> d]
  <2>1. t \in DiagTask
    BY DEF DiagTask
  <2>2. diag_tasks' = PushBack(diag_tasks, t, FALSE) /\ next_diag' = [next_diag EXCEPT ![p] = d]
    BY <1>2 DEF ScheduleDiag
  <2> HIDE DEF t
  <2>3. QED
    BY <1>1, <2>1, <2>2, PushBackProperties, PushBackDeques
<1>3. CASE ~Due(p)
  BY <1>1, <1>3 DEF ScheduleDiag
<1>4. QED
  BY <1>2, <1>3

(* A preamble task is always queued in the priority deque.                  *)
LEMMA PushPreambleType ==
  ASSUME QueueType, OneDeque, NEW p \in Paths, NEW r \in Requests \cup {NoRequest},
         NEW b \in BOOLEAN, PushPreamble(p, r, b)
  PROVE  /\ preamble_tasks' \in QueueOf(PreambleTask) /\ preamble_tasks'.queue = <<>>
         /\ preamble_tasks'.priority =
              Append(preamble_tasks.priority, [path |-> p, comp |-> r, from_diag |-> b])
<1> DEFINE t == [path |-> p, comp |-> r, from_diag |-> b]
<1>1. t \in PreambleTask
  BY DEF PreambleTask
<1>2. preamble_tasks' = PushBack(preamble_tasks, t, TRUE)
  BY DEF PushPreamble
<1>3. preamble_tasks \in QueueOf(PreambleTask) /\ preamble_tasks.queue = <<>>
  BY DEF QueueType, OneDeque
<1> HIDE DEF t
<1>4. /\ preamble_tasks' \in QueueOf(PreambleTask) /\ preamble_tasks'.queue = <<>>
      /\ preamble_tasks'.priority = Append(preamble_tasks.priority, t)
  BY <1>1, <1>2, <1>3, PushBackProperties, PushBackDeques
<1>5. QED
  BY <1>4 DEF t

(* A push to the completion queue, and a dequeue() from it.                 *)
LEMMA CompTasksType ==
  ASSUME QueueType, OneDeque
  PROVE  /\ comp_tasks.queue \in Seq(CompTask)
         /\ \A t \in CompTask : comp_tasks' = PushBack(comp_tasks, t, FALSE) =>
              /\ comp_tasks' \in QueueOf(CompTask) /\ comp_tasks'.priority = <<>>
              /\ comp_tasks'.total = Len(comp_tasks'.queue)
              /\ comp_tasks'.queue = Append(comp_tasks.queue, t)
         /\ ~IsEmpty(comp_tasks) => CanPop(comp_tasks)
         /\ CanPop(comp_tasks) =>
              /\ comp_tasks.queue # <<>> /\ DequeueItem(comp_tasks, 0) \in CompTask
              /\ DequeueItem(comp_tasks, 0) = Head(comp_tasks.queue)
              /\ DequeueRest(comp_tasks, 0) \in QueueOf(CompTask)
              /\ DequeueRest(comp_tasks, 0).priority = <<>>
              /\ DequeueRest(comp_tasks, 0).queue = Tail(comp_tasks.queue)
              /\ DequeueRest(comp_tasks, 0).total = Len(DequeueRest(comp_tasks, 0).queue)
<1> DEFINE q == comp_tasks
<1>1. /\ q \in QueueOf(CompTask) /\ q.priority = <<>> /\ q.total = Len(q.queue)
      /\ q.queue \in Seq(CompTask) /\ Len(q.queue) \in Nat
  BY LenProperties DEF QueueType, OneDeque, QueueOf
<1>2. ASSUME NEW t \in CompTask, comp_tasks' = PushBack(comp_tasks, t, FALSE)
      PROVE  /\ comp_tasks' \in QueueOf(CompTask) /\ comp_tasks'.priority = <<>>
             /\ comp_tasks'.total = Len(comp_tasks'.queue)
             /\ comp_tasks'.queue = Append(comp_tasks.queue, t)
  <2>1. /\ comp_tasks' \in QueueOf(CompTask) /\ comp_tasks'.total = q.total + 1
        /\ comp_tasks'.queue = Append(q.queue, t) /\ comp_tasks'.priority = <<>>
    BY <1>1, <1>2, PushBackProperties, PushBackDeques
  <2>2. Len(Append(q.queue, t)) = Len(q.queue) + 1
    BY <1>1, AppendProperties
  <2>3. QED
    BY <1>1, <2>1, <2>2
<1>3. ~IsEmpty(q) => CanPop(q)
  <2>1. Contents(q) = q.queue
    BY <1>1, ConcatEmptySeq DEF Contents
  <2>2. QED
    BY <1>1, <2>1, EmptySeq DEF IsEmpty, CanPop
<1>4. ASSUME CanPop(q)
      PROVE  /\ q.queue # <<>> /\ DequeueItem(q, 0) \in CompTask
             /\ DequeueItem(q, 0) = Head(q.queue)
             /\ DequeueRest(q, 0) \in QueueOf(CompTask)
             /\ DequeueRest(q, 0).priority = <<>> /\ DequeueRest(q, 0).queue = Tail(q.queue)
             /\ DequeueRest(q, 0).total = Len(DequeueRest(q, 0).queue)
  <2>1. /\ q.queue # <<>> /\ DequeueItem(q, 0) \in CompTask
        /\ DequeueItem(q, 0) = Head(q.queue)
        /\ DequeueRest(q, 0) \in QueueOf(CompTask)
        /\ DequeueRest(q, 0).priority = <<>> /\ DequeueRest(q, 0).queue = Tail(q.queue)
        /\ DequeueRest(q, 0).total = q.total - 1
    BY <1>1, <1>4, DequeueOldest
  <2>2. Len(Tail(q.queue)) = Len(q.queue) - 1
    BY <1>1, <2>1, HeadTailProperties
  <2>3. QED
    BY <1>1, <2>1, <2>2
<1>5. QED
  BY <1>1, <1>2, <1>3, <1>4

(* Each task queue holds tasks, in one of its deques.                       *)
LEMMA NextQueues ==
  ASSUME TypeOK, InBudget, Working, OneDeque, [Next]_vars
  PROVE  QueueType' /\ OneDeque'
<1> DEFINE Diag == /\ next_diag' \in [Paths -> Nat] /\ diag_tasks' \in QueueOf(DiagTask)
                   /\ diag_tasks'.priority = <<>>
           Comp == /\ comp_tasks' \in QueueOf(CompTask) /\ comp_tasks'.priority = <<>>
                   /\ comp_tasks'.total = Len(comp_tasks'.queue)
           Pre == /\ preamble_tasks' \in QueueOf(PreambleTask) /\ preamble_tasks'.queue = <<>>
<1>1. QueueType /\ ThreadType /\ ClientType
  BY DEF TypeOK
<1>2. Diag /\ Comp /\ Pre => QueueType' /\ OneDeque'
  BY DEF QueueType, OneDeque
<1>3. UNCHANGED <<next_diag, diag_tasks>> => Diag
  BY <1>1 DEF QueueType, OneDeque
<1>4. UNCHANGED comp_tasks => Comp
  BY <1>1 DEF QueueType, OneDeque
<1>5. UNCHANGED preamble_tasks => Pre
  BY <1>1 DEF QueueType, OneDeque
<1>6. ASSUME NEW p \in Paths, NEW d \in Nat, ScheduleDiag(p, d) PROVE Diag
  BY <1>1, <1>6, ScheduleType
<1>7. ASSUME NEW p \in Paths, NEW r \in Requests \cup {NoRequest}, NEW b \in BOOLEAN,
             PushPreamble(p, r, b)
      PROVE  Pre
  BY <1>1, <1>7, PushPreambleType
<1>8. ASSUME NEW t \in CompTask, comp_tasks' = PushBack(comp_tasks, t, FALSE) PROVE Comp
  BY <1>1, <1>8, CompTasksType
<1> HIDE DEF Diag, Comp, Pre
<1>9. CASE UNCHANGED <<next_diag, diag_tasks, comp_tasks, preamble_tasks>>
  BY <1>2, <1>3, <1>4, <1>5, <1>9
<1>10. CASE OnView
  <2>1. UNCHANGED <<next_diag, comp_tasks, diag_tasks>> /\ main.path \in Paths
    BY <1>10 DEF OnView, Working
  <2>2. UNCHANGED preamble_tasks \/ PushPreamble(main.path, NoRequest, FALSE)
    BY <1>10 DEF OnView
  <2>3. QED
    BY <1>2, <1>3, <1>4, <1>5, <1>7, <2>1, <2>2
<1>11. CASE Schedule
  <2>1. UNCHANGED <<comp_tasks, preamble_tasks>> /\ main.path \in Paths
    BY <1>11 DEF Schedule, Working
  <2>2. ScheduleDiag(main.path, OnChange) /\ OnChange \in Nat
    BY <1>11, DebounceAssumption DEF Schedule
  <2>3. QED
    BY <1>2, <1>4, <1>5, <1>6, <2>1, <2>2
<1>12. CASE \E p \in Paths : DidSave(p)
  <2>1. UNCHANGED <<next_diag, comp_tasks, diag_tasks>>
    BY <1>12 DEF DidSave
  <2>2. \E p \in Paths : PushPreamble(p, NoRequest, FALSE)
    BY <1>12 DEF DidSave
  <2>3. QED
    BY <1>2, <1>3, <1>4, <1>7, <2>1, <2>2
<1>13. CASE \E p \in Paths : Completion(p)
  <2> PICK p \in Paths : Completion(p)
    BY <1>13
  <2>1. UNCHANGED <<next_diag, diag_tasks, preamble_tasks>>
    BY DEF Completion
  <2>2. [id |-> sent', path |-> p] \in CompTask
    <3>1. budget.messages > 0 /\ budget.messages \in Nat /\ sent \in Nat /\ sent' = sent + 1
      BY <1>1, SpendProperties DEF Completion
    <3>2. sent' \in Requests
      BY <3>1, Facts DEF InBudget
    <3>3. QED
      BY <3>2 DEF CompTask
  <2>3. UNCHANGED comp_tasks \/ comp_tasks' = PushBack(comp_tasks, [id |-> sent', path |-> p], FALSE)
    BY DEF Completion
  <2>4. Comp
    BY <1>4, <1>8, <2>2, <2>3
  <2>5. QED
    BY <1>2, <1>3, <1>5, <2>1, <2>4
<1>14. CASE PreambleTake
  <2>1. UNCHANGED <<next_diag, comp_tasks, diag_tasks>>
    BY <1>14 DEF PreambleTake
  <2>2. maxNum \in Nat \ {0}
    BY <1>1, StartsAssumption DEF ClientType
  <2>3. /\ preamble_tasks' = DequeueRest(preamble_tasks, maxNum) /\ CanPop(preamble_tasks)
        /\ preamble_tasks \in QueueOf(PreambleTask) /\ preamble_tasks.queue = <<>>
    BY <1>1, <1>14 DEF PreambleTake, QueueType, OneDeque
  <2>4. Pre
    BY <2>2, <2>3, DequeueTrimmed DEF Pre
  <2>5. QED
    BY <1>2, <1>3, <1>4, <2>1, <2>4
<1>15. CASE PreambleForward
  <2>1. UNCHANGED preamble_tasks /\ preambler.path \in Paths
    BY <1>15 DEF PreambleForward, Working
  <2>2. Comp
    <3> DEFINE t == [id |-> preambler.comp, path |-> preambler.path]
    <3>1. /\ ForCompletion => comp_tasks' = PushBack(comp_tasks, t, FALSE)
          /\ ~ForCompletion => UNCHANGED comp_tasks
      BY <1>15 DEF PreambleForward
    <3>2. ForCompletion => t \in CompTask
      BY <1>1, <2>1 DEF ForCompletion, ThreadType, CompTask
    <3> HIDE DEF t
    <3>3. QED
      BY <1>4, <1>8, <3>1, <3>2
  <2>3. Diag
    <3>1. UNCHANGED <<next_diag, diag_tasks>> \/ ScheduleDiag(preambler.path, ForwardDebounce)
      BY <1>15 DEF PreambleForward
    <3>2. ForwardDebounce \in Nat
      BY DebounceAssumption DEF ForwardDebounce
    <3>3. QED
      BY <1>3, <1>6, <2>1, <3>1, <3>2
  <2>4. QED
    BY <1>2, <1>5, <2>1, <2>2, <2>3
<1>16. CASE CompTake \/ CompDrop
  <2>1. UNCHANGED <<next_diag, diag_tasks, preamble_tasks>>
    BY <1>16 DEF CompTake, CompDrop
  <2>2. comp_tasks' = DequeueRest(comp_tasks, 0) /\ CanPop(comp_tasks)
    BY <1>1, <1>16, CompTasksType DEF CompTake, CompDrop, Drops
  <2>3. Comp
    BY <1>1, <2>2, CompTasksType DEF Comp
  <2>4. QED
    BY <1>2, <1>3, <1>5, <2>1, <2>3
<1>17. CASE CompRebuild
  <2>1. UNCHANGED <<next_diag, comp_tasks, diag_tasks>>
    BY <1>17 DEF CompRebuild
  <2>2. /\ PushPreamble(completer.path, completer.id, FALSE)
        /\ completer.path \in Paths /\ completer.id \in Requests
    BY <1>17 DEF CompRebuild, Working
  <2>3. QED
    BY <1>2, <1>3, <1>4, <1>7, <2>1, <2>2
<1>18. CASE DiagTake
  <2>1. UNCHANGED <<next_diag, comp_tasks, preamble_tasks>>
    BY <1>18 DEF DiagTake
  <2>2. diag_tasks' = DequeueRest(diag_tasks, 0) /\ CanPop(diag_tasks)
    BY <1>18 DEF DiagTake
  <2>3. /\ diag_tasks \in QueueOf(DiagTask) /\ diag_tasks.priority = <<>>
        /\ next_diag \in [Paths -> Nat]
    BY <1>1 DEF QueueType, OneDeque
  <2>4. Diag
    BY <2>1, <2>2, <2>3, DequeueOldest DEF Diag
  <2>5. QED
    BY <1>2, <1>4, <1>5, <2>1, <2>4
<1>19. CASE DiagRebuild
  <2>1. UNCHANGED <<next_diag, comp_tasks, diag_tasks>>
    BY <1>19 DEF DiagRebuild
  <2>2. PushPreamble(diagnoser.path, NoRequest, TRUE) /\ diagnoser.path \in Paths
    BY <1>19 DEF DiagRebuild, Working
  <2>3. QED
    BY <1>2, <1>3, <1>4, <1>7, <2>1, <2>2
<1>20. CASE Tick
  <2>1. UNCHANGED <<comp_tasks, preamble_tasks>>
    BY <1>20 DEF Tick
  <2>2. next_diag' = [p \in Paths |-> Less(next_diag[p])] /\ next_diag \in [Paths -> Nat]
    BY <1>1, <1>20 DEF Tick, QueueType
  <2>3. \A n \in Nat : Less(n) \in Nat
    BY DEF Less
  <2>4. diag_tasks' \in QueueOf(DiagTask) /\ diag_tasks'.priority = <<>>
    <3> DEFINE s == diag_tasks.queue
               r == Aged(s)
    <3>1. /\ diag_tasks \in QueueOf(DiagTask) /\ diag_tasks.priority = <<>>
          /\ s \in Seq(DiagTask) /\ DOMAIN s = 1 .. Len(s) /\ Len(s) \in Nat
      BY <1>1, LenProperties DEF QueueType, OneDeque, QueueOf
    <3>2. diag_tasks' = [diag_tasks EXCEPT !.queue = r]
      BY <1>20 DEF Tick
    <3>3. \A t \in DiagTask : [t EXCEPT !.wait = Less(@)] \in DiagTask
      BY <2>3 DEF DiagTask
    <3>4. r \in [1 .. Len(s) -> DiagTask]
      <4>1. \A k \in DOMAIN s : s[k] \in DiagTask
        BY <3>1, ElementOfSeq
      <4> HIDE DEF s
      <4>2. QED
        BY <3>1, <3>3, <4>1 DEF Aged
    <3> HIDE DEF r
    <3>5. r \in Seq(DiagTask)
      BY <3>1, <3>4, FunctionIsSeq
    <3>6. QED
      BY <3>1, <3>2, <3>5 DEF QueueOf
  <2>5. Diag
    BY <2>2, <2>3, <2>4 DEF Diag
  <2>6. QED
    BY <1>2, <1>4, <1>5, <2>1, <2>5
<1>21. QED
  BY <1>9, <1>10, <1>11, <1>12, <1>13, <1>14, <1>15, <1>16, <1>17, <1>18, <1>19, <1>20
     DEF Next, vars, Client, Main, PreambleMain, CompletionMain, DiagnosticMain, DidOpen,
     DidChange, DidClose, Clear, OnClose, PreambleSession, PreambleStore, PreambleFail,
     CompSession, CompParse, CompReply, CompFail, DiagSession, DiagCheck, DiagRead,
     DiagPublish, DiagFail

(* What buildPreamble makes is a preamble of the file.                      *)
LEMMA BuiltType ==
  ASSUME ClientType, NEW p \in Paths, NEW old
  PROVE  Built(p, old) \in PreambleSet /\ Built(p, old).includes = Includes[p]
<1>1. GetContent(p) \in Texts \cup {NoText}
  BY DEF GetContent, ClientType
<1>2. BoundsOfText(GetContent(p)) \in Int
  BY <1>1, Facts
<1>3. Includes[p] \in Seq(Paths)
  BY Facts
<1>4. \A h \in Paths : disk[h].mtime \in Nat /\ disk[h].text \in Nat /\ buffer[h].text \in Nat
  BY Facts, SMTT(30) DEF ClientType
<1> DEFINE seen == [h \in Paths |->
                      IF h \in Headers(p) \ Remapped(p, old) THEN disk[h].mtime ELSE 0]
           text == [h \in Paths |-> IF h \in Remapped(p, old) THEN buffer[h].text
                                    ELSE IF h \in Headers(p) THEN disk[h].text
                                    ELSE NoText]
<1>5. seen \in [Paths -> Nat] /\ text \in [Paths -> Nat]
  BY <1>4, Facts
<1>6. Built(p, old) = [bounds |-> BoundsOfText(GetContent(p)), includes |-> Includes[p],
                       seen |-> seen, text |-> text]
  BY DEF Built
<1> HIDE DEF seen, text
<1>7. QED
  BY <1>2, <1>3, <1>5, <1>6 DEF PreambleSet

(* Each thread is where its task is.                                        *)
LEMMA NextThreads ==
  ASSUME TypeOK, InBudget, Working, OneDeque, [Next]_vars
  PROVE  ThreadType' /\ Working'
<1> DEFINE MainSet == [pc: {"idle", "opened", "changed", "schedule", "closed"},
                       path: Paths \cup {NoPath}]
           PreSet == [pc: {"idle", "session", "store", "forward"},
                      path: Paths \cup {NoPath}, comp: Requests \cup {NoRequest},
                      from_diag: BOOLEAN, session: Sessions \cup {0},
                      created: BOOLEAN, built: PreambleSet]
           CompSet == [pc: {"idle", "drop", "check", "parse"},
                       id: Requests \cup {NoRequest}, path: Paths \cup {NoPath},
                       bounds: Int]
           DiagSet == [pc: {"idle", "sleep", "check", "read", "parse"},
                       path: Paths \cup {NoPath}, wait: Nat, session: Sessions \cup {0},
                       preamble: PreambleSet, current: BOOLEAN,
                       text: Texts \cup {NoText}]
           MainOK(m) == m \in MainSet /\ (m.pc # "idle" => m.path \in Paths)
           PreOK(x) == /\ x \in PreSet
                       /\ x.pc # "idle" => x.path \in Paths
                       /\ x.pc = "idle" => x.comp = NoRequest
                       /\ x.pc = "store" => x.session \in Sessions
                                            /\ x.built.includes = Includes[x.path]
           CompOK(x) == /\ x \in CompSet
                        /\ x.pc # "idle" => x.path \in Paths /\ x.id \in Requests
                        /\ x.pc = "idle" => x.id = NoRequest
           DiagOK(x) == /\ x \in DiagSet
                        /\ x.pc # "idle" => x.path \in Paths
                        /\ x.pc = "check" => x.session \in Sessions
<1>1. MainOK(main) /\ PreOK(preambler) /\ CompOK(completer) /\ DiagOK(diagnoser)
  BY DEF TypeOK, ThreadType, Working
<1>2. SUFFICES MainOK(main') /\ PreOK(preambler') /\ CompOK(completer') /\ DiagOK(diagnoser')
  BY DEF ThreadType, Working
<1>3. /\ MainOK(IdleMain) /\ PreOK(IdlePreambler) /\ CompOK(IdleCompleter)
      /\ DiagOK(IdleDiagnoser)
  BY Facts DEF IdleMain, IdlePreambler, IdleCompleter, IdleDiagnoser
<1>4. ClientType /\ CacheType /\ QueueType
  BY DEF TypeOK
<1>5. /\ \A p \in Paths, c \in {"opened", "changed", "schedule", "closed"} :
           MainOK([pc |-> c, path |-> p])
      /\ main.pc = "changed" => MainOK([main EXCEPT !.pc = "schedule"])
  BY <1>1
<1>6. ASSUME NEW t \in CompTask PROVE CompOK(ToDrop(t))
  <2>1. t.id \in Requests /\ t.path \in Paths /\ IdleCompleter \in CompSet
    BY <1>3 DEF CompTask
  <2>2. ToDrop(t) = [IdleCompleter EXCEPT !.pc = "drop", !.id = t.id, !.path = t.path]
    BY DEF ToDrop
  <2>3. QED
    BY <2>1, <2>2
<1>7. CASE UNCHANGED <<main, preambler, completer, diagnoser>>
  BY <1>1, <1>7
<1>8. CASE UNCHANGED <<preambler, completer, diagnoser>>
  <2>1. MainOK(main')
    <3>1. \/ UNCHANGED main \/ main' = IdleMain
          \/ main.pc = "changed" /\ main' = [main EXCEPT !.pc = "schedule"]
          \/ \E p \in Paths, c \in {"opened", "changed", "schedule", "closed"} :
               main' = [pc |-> c, path |-> p]
      BY DEF Next, vars, mainVars, Client, Main, PreambleMain, CompletionMain, DiagnosticMain,
         DidOpen, DidChange, DidSave, DidClose, Completion, Clear, OnView, Schedule, OnClose,
         PreambleTake, PreambleSession, PreambleStore, PreambleFail, PreambleForward, CompTake,
         CompDrop, CompSession, CompRebuild, CompParse, CompReply, CompFail, DiagTake,
         DiagSession, DiagRebuild, DiagCheck, DiagRead, DiagPublish, DiagFail, Tick
    <3> HIDE DEF MainOK
    <3>2. CASE UNCHANGED main \/ main' = IdleMain
      BY <1>1, <1>3, <3>2
    <3>3. CASE main.pc = "changed" /\ main' = [main EXCEPT !.pc = "schedule"]
      BY <1>5, <3>3, Zenon
    <3>4. CASE \E p \in Paths, c \in {"opened", "changed", "schedule", "closed"} :
                 main' = [pc |-> c, path |-> p]
      <4>1. PICK p \in Paths, c \in {"opened", "changed", "schedule", "closed"} :
                main' = [pc |-> c, path |-> p]
        BY <3>4
      <4>2. MainOK([pc |-> c, path |-> p])
        BY <1>5
      <4>3. QED
        BY <4>1, <4>2, Zenon
    <3>5. QED
      BY <3>1, <3>2, <3>3, <3>4
  <2> HIDE DEF MainOK, PreOK, CompOK, DiagOK
  <2>2. QED
    BY <1>1, <1>8, <2>1
<1>9. ASSUME PreambleMain \/ CompletionMain \/ DiagnosticMain \/ Tick
      PROVE  MainOK(main')
  <2>1. main' = main
    BY <1>9 DEF mainVars, PreambleMain, CompletionMain, DiagnosticMain,
       PreambleTake, PreambleSession, PreambleStore, PreambleFail, PreambleForward, CompTake,
       CompDrop, CompSession, CompRebuild, CompParse, CompReply, CompFail, DiagTake,
       DiagSession, DiagRebuild, DiagCheck, DiagRead, DiagPublish, DiagFail, Tick
  <2>2. QED
    BY <1>1, <2>1
<1>10. CASE PreambleTake
  <2> DEFINE t == DequeueItem(preamble_tasks, maxNum)
             x == [IdlePreambler EXCEPT !.pc = "session", !.path = t.path,
                     !.comp = t.comp, !.from_diag = t.from_diag]
  <2>1. preambler' = x /\ UNCHANGED <<completer, diagnoser>> /\ CanPop(preamble_tasks)
    BY <1>10 DEF PreambleTake
  <2>2. t \in PreambleTask
    <3>1. maxNum \in Nat \ {0}
      BY <1>4, StartsAssumption DEF ClientType
    <3>2. QED
      BY <1>4, <2>1, <3>1, DequeueTrimmed DEF QueueType, OneDeque
  <2> HIDE DEF t
  <2>3. PreOK(x)
    BY <2>2, Facts DEF IdlePreambler, PreambleTask
  <2> HIDE DEF x, MainOK, PreOK, CompOK, DiagOK
  <2>4. QED
    BY <1>1, <1>9, <1>10, <2>1, <2>3 DEF PreambleMain
<1>11. ASSUME NEW p \in Paths, EnsureSession(p)
       PROVE  SessionFor(p) \in Sessions /\ PreambleFor(p) \in PreambleSet
  BY <1>4, <1>11, EnsureSessionProperties DEF Ensured
<1>12. CASE PreambleSession
  <2> DEFINE p == preambler.path
             s == SessionFor(p)
             b == Built(p, PreambleFor(p))
             c == Found(p) = {}
             started == [preambler EXCEPT !.session = s, !.created = c]
  <2>1. /\ UNCHANGED <<completer, diagnoser>>
        /\ \/ preambler' = [started EXCEPT !.pc = "store", !.built = b]
           \/ preambler' = [started EXCEPT !.pc = "forward"]
    BY <1>12 DEF PreambleSession
  <2>2. p \in Paths /\ EnsureSession(p)
    BY <1>12 DEF PreambleSession, Working
  <2>3. s \in Sessions /\ b \in PreambleSet /\ b.includes = Includes[p] /\ c \in BOOLEAN
    BY <1>4, <1>11, <2>2, BuiltType
  <2> HIDE DEF s, b, c
  <2>4. /\ PreOK([started EXCEPT !.pc = "store", !.built = b])
        /\ PreOK([started EXCEPT !.pc = "forward"])
    BY <1>1, <2>2, <2>3, ZenonT(30)
  <2> HIDE DEF started, MainOK, PreOK, CompOK, DiagOK
  <2>5. QED
    BY <1>1, <1>9, <1>12, <2>1, <2>4 DEF PreambleMain
<1>13. CASE PreambleStore
  <2> DEFINE x == [preambler EXCEPT !.pc = "forward", !.built = NoPreamble]
             c == diagnoser.current /\ diagnoser.session # preambler.session
             y == [diagnoser EXCEPT !.current = c]
  <2>1. preambler' = x /\ diagnoser' = y /\ completer' = completer /\ preambler.path \in Paths
    BY <1>13 DEF PreambleStore, Working
  <2>2. PreOK(x)
    BY <1>1, <2>1, Facts
  <2>3. c \in BOOLEAN
    BY <1>1
  <2> HIDE DEF c
  <2>4. DiagOK(y)
    BY <1>1, <2>3
  <2> HIDE DEF x, y, MainOK, PreOK, CompOK, DiagOK
  <2>5. QED
    BY <1>1, <1>9, <1>13, <2>1, <2>2, <2>4 DEF PreambleMain
<1>14. CASE PreambleFail
  <2> DEFINE x == [preambler EXCEPT !.pc = "forward", !.built = NoPreamble]
  <2>1. preambler' = x /\ UNCHANGED <<completer, diagnoser>> /\ preambler.path \in Paths
    BY <1>14 DEF PreambleFail, Working
  <2>2. PreOK(x)
    BY <1>1, <2>1, Facts
  <2> HIDE DEF x, MainOK, PreOK, CompOK, DiagOK
  <2>3. QED
    BY <1>1, <1>9, <1>14, <2>1, <2>2 DEF PreambleMain
<1>15. CASE PreambleForward
  <2>1. preambler' = IdlePreambler /\ UNCHANGED <<completer, diagnoser>>
    BY <1>15 DEF PreambleForward
  <2> HIDE DEF MainOK, PreOK, CompOK, DiagOK
  <2>2. QED
    BY <1>1, <1>3, <1>9, <1>15, <2>1 DEF PreambleMain
<1>16. ASSUME CompletionMain, CompOK(completer')
       PROVE  MainOK(main') /\ PreOK(preambler') /\ CompOK(completer') /\ DiagOK(diagnoser')
  <2>1. UNCHANGED <<preambler, diagnoser>>
    BY <1>16 DEF CompletionMain, CompTake, CompDrop, CompSession, CompRebuild, CompParse,
       CompReply, CompFail
  <2> HIDE DEF MainOK, PreOK, CompOK, DiagOK
  <2>2. QED
    BY <1>1, <1>9, <1>16, <2>1
<1>17. CASE CompTake \/ CompDrop
  <2>1. completer' = ToDrop(DequeueItem(comp_tasks, 0)) /\ CanPop(comp_tasks)
    BY <1>4, <1>17, CompTasksType DEF CompTake, CompDrop, Drops
  <2>2. DequeueItem(comp_tasks, 0) \in CompTask
    BY <1>4, <2>1, CompTasksType
  <2> HIDE DEF MainOK, PreOK, CompOK, DiagOK
  <2>3. QED
    BY <1>6, <1>16, <1>17, <2>1, <2>2 DEF CompletionMain
<1>18. CASE CompSession
  <2> DEFINE b == PreambleFor(completer.path).bounds
  <2>1. completer' = [completer EXCEPT !.pc = "check", !.bounds = b] /\ completer.pc = "drop"
    BY <1>18 DEF CompSession
  <2>2. b \in Int
    BY <1>11, <1>18 DEF CompSession, Working, PreambleSet
  <2> HIDE DEF b
  <2>3. CompOK(completer')
    BY <1>1, <2>1, <2>2
  <2> HIDE DEF MainOK, PreOK, CompOK, DiagOK
  <2>4. QED
    BY <1>16, <1>18, <2>3 DEF CompletionMain
<1>19. CASE CompParse
  <2> DEFINE none == -1
  <2>1. /\ completer' = [completer EXCEPT !.pc = "parse", !.bounds = none]
        /\ completer.pc = "check" /\ none \in Int
    BY <1>19 DEF CompParse
  <2> HIDE DEF none
  <2>2. CompOK(completer')
    BY <1>1, <2>1
  <2> HIDE DEF MainOK, PreOK, CompOK, DiagOK
  <2>3. QED
    BY <1>16, <1>19, <2>2 DEF CompletionMain
<1>20. CASE CompRebuild \/ CompReply \/ CompFail
  <2>1. completer' = IdleCompleter
    BY <1>20 DEF CompRebuild, CompReply, CompFail
  <2> HIDE DEF MainOK, PreOK, CompOK, DiagOK
  <2>2. QED
    BY <1>3, <1>16, <1>20, <2>1 DEF CompletionMain
<1>21. ASSUME DiagnosticMain \/ Tick, DiagOK(diagnoser')
       PROVE  MainOK(main') /\ PreOK(preambler') /\ CompOK(completer') /\ DiagOK(diagnoser')
  <2>1. UNCHANGED <<preambler, completer>>
    BY <1>21 DEF DiagnosticMain, DiagTake, DiagSession, DiagRebuild, DiagCheck, DiagRead,
       DiagPublish, DiagFail, Tick
  <2> HIDE DEF MainOK, PreOK, CompOK, DiagOK
  <2>2. QED
    BY <1>1, <1>9, <1>21, <2>1
<1>22. CASE DiagTake
  <2> DEFINE t == DequeueItem(diag_tasks, 0)
  <2>1. /\ diagnoser' = [IdleDiagnoser EXCEPT !.pc = "sleep", !.path = t.path, !.wait = t.wait]
        /\ CanPop(diag_tasks)
    BY <1>22 DEF DiagTake
  <2>2. t \in DiagTask
    BY <1>4, <2>1, DequeueOldest DEF QueueType, OneDeque
  <2> HIDE DEF t
  <2>3. DiagOK(diagnoser')
    BY <2>1, <2>2, Facts DEF IdleDiagnoser, DiagTask
  <2> HIDE DEF MainOK, PreOK, CompOK, DiagOK
  <2>4. QED
    BY <1>21, <1>22, <2>3 DEF DiagnosticMain
<1>23. CASE DiagSession
  <2> DEFINE p == diagnoser.path
             s == SessionFor(p)
             b == PreambleFor(p)
  <2>1. /\ diagnoser' = [diagnoser EXCEPT !.pc = "check", !.session = s,
                           !.preamble = b, !.current = TRUE]
        /\ p \in Paths /\ EnsureSession(p)
    BY <1>23 DEF DiagSession, Working
  <2>2. s \in Sessions /\ b \in PreambleSet
    BY <1>11, <2>1
  <2> HIDE DEF s, b
  <2>3. DiagOK(diagnoser')
    BY <1>1, <2>1, <2>2
  <2> HIDE DEF MainOK, PreOK, CompOK, DiagOK
  <2>4. QED
    BY <1>21, <1>23, <2>3 DEF DiagnosticMain
<1>24. CASE DiagCheck
  <2>1. diagnoser' = [diagnoser EXCEPT !.pc = "read"] /\ diagnoser.pc = "check"
    BY <1>24 DEF DiagCheck
  <2>2. DiagOK(diagnoser')
    BY <1>1, <2>1
  <2> HIDE DEF MainOK, PreOK, CompOK, DiagOK
  <2>3. QED
    BY <1>21, <1>24, <2>2 DEF DiagnosticMain
<1>25. CASE DiagRead
  <2> DEFINE t == GetContent(diagnoser.path)
  <2>1. diagnoser' = [diagnoser EXCEPT !.pc = "parse", !.text = t] /\ diagnoser.path \in Paths
    BY <1>25 DEF DiagRead, Working
  <2>2. t \in Texts \cup {NoText}
    BY <1>4, <2>1 DEF GetContent, ClientType
  <2> HIDE DEF t
  <2>3. DiagOK(diagnoser')
    BY <1>1, <2>1, <2>2
  <2> HIDE DEF MainOK, PreOK, CompOK, DiagOK
  <2>4. QED
    BY <1>21, <1>25, <2>3 DEF DiagnosticMain
<1>26. CASE DiagRebuild \/ DiagPublish \/ DiagFail
  <2>1. diagnoser' = IdleDiagnoser
    BY <1>26 DEF DiagRebuild, DiagPublish, DiagFail
  <2> HIDE DEF MainOK, PreOK, CompOK, DiagOK
  <2>2. QED
    BY <1>3, <1>21, <1>26, <2>1 DEF DiagnosticMain
<1>27. CASE Tick
  <2>1. diagnoser' = [diagnoser EXCEPT !.wait = Less(@)]
    BY <1>27 DEF Tick
  <2>2. DiagOK(diagnoser')
    BY <1>1, <2>1 DEF Less
  <2> HIDE DEF MainOK, PreOK, CompOK, DiagOK
  <2>3. QED
    BY <1>21, <1>27, <2>2
<1>28. QED
  <2> HIDE DEF MainOK, PreOK, CompOK, DiagOK
  <2>1. CASE UNCHANGED vars \/ Client \/ Main
    <3>1. UNCHANGED <<preambler, completer, diagnoser>>
      BY <2>1 DEF vars, Client, Main, threads, DidOpen, DidChange, DidSave, DidClose, Completion,
         Clear, OnView, Schedule, OnClose
    <3>2. QED
      BY <1>8, <3>1
  <2>2. CASE PreambleMain
    BY <1>10, <1>12, <1>13, <1>14, <1>15, <2>2 DEF PreambleMain
  <2>3. CASE CompletionMain
    BY <1>17, <1>18, <1>19, <1>20, <2>3 DEF CompletionMain
  <2>4. CASE DiagnosticMain
    BY <1>22, <1>23, <1>24, <1>25, <1>26, <2>4 DEF DiagnosticMain
  <2>5. QED
    BY <1>27, <2>1, <2>2, <2>3, <2>4 DEF Next

-----------------------------------------------------------------------------
(* A task that waits for the end of the debounce time of its file.          *)

(* The time passes for a task as it does for its file, and nothing but the  *)
(* diagnostics thread takes a task away, which then sleeps.                 *)
LEMMA NextDebounce ==
  ASSUME TypeOK, OneDeque, Working, DebounceCovered, [Next]_vars
  PROVE  DebounceCovered'
<1> DEFINE n == next_diag
           s == diag_tasks.queue
           Sleeps(p, w) == diagnoser.pc = "sleep" /\ diagnoser.path = p /\ diagnoser.wait = w
           SleepsNow(p, w) ==
             diagnoser'.pc = "sleep" /\ diagnoser'.path = p /\ diagnoser'.wait = w
<1>1. /\ n \in [Paths -> Nat] /\ diag_tasks \in QueueOf(DiagTask) /\ diag_tasks.priority = <<>>
      /\ s \in Seq(DiagTask) /\ DOMAIN s = 1 .. Len(s) /\ Len(s) \in Nat
  BY LenProperties DEF TypeOK, QueueType, OneDeque, QueueOf
<1>2. \A p \in Paths : n[p] > 0 =>
        \/ \E k \in DOMAIN s : s[k] = [path |-> p, wait |-> n[p]]
        \/ Sleeps(p, n[p])
  BY DEF DebounceCovered
<1>3. SUFFICES ASSUME NEW p \in Paths, next_diag'[p] > 0
               PROVE  \/ \E k \in DOMAIN diag_tasks'.queue :
                           diag_tasks'.queue[k] = [path |-> p, wait |-> next_diag'[p]]
                      \/ SleepsNow(p, next_diag'[p])
  BY DEF DebounceCovered
<1>4. ASSUME NEW q \in Paths, NEW d \in Nat, ScheduleDiag(q, d), UNCHANGED diagnoser
      PROVE  \/ \E k \in DOMAIN diag_tasks'.queue :
                  diag_tasks'.queue[k] = [path |-> p, wait |-> next_diag'[p]]
             \/ SleepsNow(p, next_diag'[p])
  <2>1. CASE ~Due(q)
    <3>1. UNCHANGED <<next_diag, diag_tasks, diagnoser>>
      BY <1>4, <2>1 DEF ScheduleDiag
    <3>2. QED
      BY <1>2, <1>3, <3>1
  <2>2. CASE Due(q)
    <3> DEFINE t == [path |-> q, wait |-> d]
    <3>1. t \in DiagTask
      BY DEF DiagTask
    <3>2. diag_tasks' = PushBack(diag_tasks, t, FALSE) /\ next_diag' = [n EXCEPT ![q] = d]
      BY <1>4, <2>2 DEF ScheduleDiag
    <3> HIDE DEF t
    <3>3. diag_tasks'.queue = Append(s, t)
      BY <1>1, <3>1, <3>2, PushBackDeques
    <3>4. /\ DOMAIN Append(s, t) = 1 .. Len(s) + 1 /\ Append(s, t)[Len(s) + 1] = t
          /\ \A k \in DOMAIN s : Append(s, t)[k] = s[k]
      BY <1>1, <3>1, AppendProperties, LenProperties
    <3>5. CASE p = q
      <4>1. next_diag'[p] = d
        BY <1>1, <3>2, <3>5
      <4>2. t = [path |-> p, wait |-> next_diag'[p]]
        BY <3>5, <4>1 DEF t
      <4>3. Len(s) + 1 \in DOMAIN diag_tasks'.queue /\ diag_tasks'.queue[Len(s) + 1] = t
        BY <1>1, <3>3, <3>4
      <4>4. QED
        BY <4>2, <4>3
    <3>6. CASE p # q
      <4>1. next_diag'[p] = n[p]
        BY <1>1, <3>2, <3>6
      <4>2. CASE Sleeps(p, n[p])
        BY <1>4, <4>1, <4>2
      <4>3. CASE \E k \in DOMAIN s : s[k] = [path |-> p, wait |-> n[p]]
        <5>1. PICK k \in DOMAIN s : s[k] = [path |-> p, wait |-> n[p]]
          BY <4>3
        <5>2. k \in DOMAIN diag_tasks'.queue /\ diag_tasks'.queue[k] = s[k]
          BY <1>1, <3>3, <3>4
        <5>3. QED
          BY <4>1, <5>1, <5>2
      <4>4. QED
        BY <1>2, <1>3, <4>1, <4>2, <4>3
    <3>7. QED
      BY <3>5, <3>6
  <2>3. QED
    BY <2>1, <2>2
<1>5. CASE Schedule
  <2>1. main.path \in Paths /\ ScheduleDiag(main.path, OnChange) /\ UNCHANGED diagnoser
    BY <1>5 DEF Schedule, Working, threads
  <2>2. QED
    BY <1>4, <2>1, DebounceAssumption
<1>6. CASE UNCHANGED <<next_diag, diag_tasks, diagnoser>>
  BY <1>2, <1>3, <1>6
<1>7. CASE PreambleForward
  <2>1. preambler.path \in Paths /\ UNCHANGED diagnoser
    BY <1>7 DEF PreambleForward, Working
  <2>2. UNCHANGED <<next_diag, diag_tasks>> \/ ScheduleDiag(preambler.path, ForwardDebounce)
    BY <1>7 DEF PreambleForward
  <2>3. ForwardDebounce \in Nat
    BY DebounceAssumption DEF ForwardDebounce
  <2>4. CASE UNCHANGED <<next_diag, diag_tasks>>
    BY <1>6, <2>1, <2>4
  <2>5. CASE ScheduleDiag(preambler.path, ForwardDebounce)
    BY <1>4, <2>1, <2>3, <2>5
  <2>6. QED
    BY <2>2, <2>4, <2>5
<1>8. CASE PreambleStore
  <2>1. UNCHANGED <<next_diag, diag_tasks>>
    BY <1>8 DEF PreambleStore
  <2>2. /\ diagnoser'.pc = diagnoser.pc /\ diagnoser'.path = diagnoser.path
        /\ diagnoser'.wait = diagnoser.wait
    BY <1>8 DEF PreambleStore, TypeOK, ThreadType
  <2>3. QED
    BY <1>2, <1>3, <2>1, <2>2
<1>9. CASE UNCHANGED <<next_diag, diag_tasks>> /\ ~Sleeps(p, n[p])
  BY <1>2, <1>3, <1>9
<1>10. CASE DiagSession
  <2>1. UNCHANGED <<next_diag, diag_tasks>> /\ diagnoser.wait = 0
    BY <1>10 DEF DiagSession, Awake
  <2>2. QED
    BY <1>1, <1>3, <1>9, <2>1
<1>11. CASE DiagRebuild \/ DiagCheck \/ DiagRead \/ DiagPublish \/ DiagFail
  <2>1. UNCHANGED <<next_diag, diag_tasks>> /\ diagnoser.pc # "sleep"
    BY <1>11 DEF DiagRebuild, DiagCheck, DiagRead, DiagPublish, DiagFail
  <2>2. QED
    BY <1>9, <2>1
<1>12. CASE DiagTake
  <2>1. UNCHANGED next_diag /\ diagnoser.pc = "idle" /\ CanPop(diag_tasks)
    BY <1>12 DEF DiagTake
  <2>2. /\ s # <<>> /\ DequeueItem(diag_tasks, 0) = Head(s) /\ diag_tasks'.queue = Tail(s)
        /\ DequeueItem(diag_tasks, 0) \in DiagTask
    BY <1>1, <1>12, <2>1, DequeueOldest DEF DiagTake
  <2>3. PICK k \in DOMAIN s : s[k] = [path |-> p, wait |-> n[p]]
    BY <1>2, <1>3, <2>1
  <2>4. CASE k = 1
    <3> DEFINE t == Head(s)
    <3>1. t = [path |-> p, wait |-> n[p]]
      BY <2>3, <2>4
    <3>2. diagnoser' = [IdleDiagnoser EXCEPT !.pc = "sleep", !.path = t.path, !.wait = t.wait]
      BY <1>12, <2>2 DEF DiagTake
    <3>3. t.path = p /\ t.wait = n[p]
      BY <3>1
    <3> HIDE DEF t
    <3>4. SleepsNow(p, n[p])
      BY <3>2, <3>3 DEF IdleDiagnoser
    <3>5. QED
      BY <2>1, <3>4
  <2>5. CASE k # 1
    <3>1. /\ Tail(s) \in Seq(DiagTask) /\ DOMAIN Tail(s) = 1 .. Len(s) - 1
          /\ \A i \in 1 .. Len(s) - 1 : Tail(s)[i] = s[i + 1]
      <4>1. /\ Tail(s) \in Seq(DiagTask) /\ Len(Tail(s)) = Len(s) - 1
            /\ \A i \in 1 .. Len(Tail(s)) : Tail(s)[i] = s[i + 1]
        BY <1>1, <2>2, HeadTailProperties
      <4>2. DOMAIN Tail(s) = 1 .. Len(Tail(s))
        BY <4>1, LenProperties
      <4>3. QED
        BY <4>1, <4>2
    <3>2. k - 1 \in 1 .. Len(s) - 1 /\ (k - 1) + 1 = k
      BY <1>1, <2>3, <2>5
    <3>3. Tail(s)[k - 1] = s[k]
      BY <3>1, <3>2
    <3>4. k - 1 \in DOMAIN diag_tasks'.queue
      BY <2>2, <3>1, <3>2
    <3>5. diag_tasks'.queue[k - 1] = [path |-> p, wait |-> next_diag'[p]]
      BY <2>1, <2>2, <2>3, <3>3
    <3>6. QED
      BY <3>4, <3>5
  <2>6. QED
    BY <2>4, <2>5
<1>13. CASE Tick
  <2>1. /\ next_diag' = [q \in Paths |-> Less(n[q])]
        /\ diag_tasks' = [diag_tasks EXCEPT !.queue = Aged(s)]
        /\ diagnoser' = [diagnoser EXCEPT !.wait = Less(diagnoser.wait)]
    BY <1>13 DEF Tick, TypeOK, ThreadType
  <2>2. next_diag'[p] = Less(n[p]) /\ n[p] > 0
    BY <1>1, <1>3, <2>1 DEF Less
  <2>3. diag_tasks'.queue = Aged(s)
    BY <1>1, <2>1 DEF QueueOf
  <2>4. CASE Sleeps(p, n[p])
    <3>1. /\ diagnoser'.pc = diagnoser.pc /\ diagnoser'.path = diagnoser.path
          /\ diagnoser'.wait = Less(diagnoser.wait)
      BY <2>1 DEF TypeOK, ThreadType
    <3>2. QED
      BY <2>2, <2>4, <3>1
  <2>5. CASE \E k \in DOMAIN s : s[k] = [path |-> p, wait |-> n[p]]
    <3>1. PICK k \in DOMAIN s : s[k] = [path |-> p, wait |-> n[p]]
      BY <2>5
    <3> DEFINE w == Less(n[p])
    <3>2. k \in DOMAIN Aged(s) /\ Aged(s)[k] = [s[k] EXCEPT !.wait = Less(s[k].wait)]
      BY DEF Aged
    <3>3. s[k].wait = n[p] /\ s[k].path = p
      BY <3>1
    <3>4. Aged(s)[k] = [s[k] EXCEPT !.wait = w]
      BY <3>2, <3>3
    <3> HIDE DEF w
    <3>5. Aged(s)[k] = [path |-> p, wait |-> w]
      BY <3>1, <3>4
    <3>6. QED
      BY <2>2, <2>3, <3>2, <3>5 DEF w
  <2>6. QED
    BY <1>2, <2>2, <2>4, <2>5
<1>14. QED
  <2> HIDE DEF Sleeps, SleepsNow
  <2>1. CASE UNCHANGED vars \/ Client \/ Main \/ PreambleMain \/ CompletionMain
    BY <1>5, <1>6, <1>7, <1>8, <2>1 DEF vars, Client, Main, PreambleMain, CompletionMain,
       threads, DidOpen, DidChange, DidSave, DidClose, Completion, Clear, OnView, OnClose,
       PreambleTake, PreambleSession, PreambleFail, CompTake, CompDrop, CompSession,
       CompRebuild, CompParse, CompReply, CompFail
  <2>2. CASE DiagnosticMain \/ Tick
    BY <1>10, <1>11, <1>12, <1>13, <2>2 DEF DiagnosticMain
  <2>3. QED
    BY <2>1, <2>2 DEF Next

-----------------------------------------------------------------------------
(* Who holds a completion request.                                          *)

CompOf(r) == {t \in CompTask : t.id = r}
PreambleOf(r) == {t \in PreambleTask : t.comp = r}

(* A request that was given up counts once.                                 *)
LEMMA MemberBit ==
  ASSUME NEW r, NEW gone
  PROVE  Cardinality({r} \cap gone) = Bit(r \in gone)
<1>1. CASE r \in gone
  <2>1. {r} \cap gone = {r}
    BY <1>1
  <2>2. QED
    BY <1>1, <2>1, FS_Singleton DEF Bit
<1>2. CASE r \notin gone
  <2>1. {r} \cap gone = {}
    BY <1>2
  <2>2. QED
    BY <1>2, <2>1, FS_EmptySet DEF Bit
<1>3. QED
  BY <1>1, <1>2

(* The holders of a request, counted with Count and Bit.                    *)
LEMMA HoldersCount ==
  ASSUME NEW r, NEW q \in Seq(CompTask), NEW s \in Seq(PreambleTask), NEW b \in BOOLEAN,
         NEW gone
  PROVE  /\ Cardinality({k \in DOMAIN q : q[k].id = r}) = Count(q, CompOf(r))
         /\ Cardinality({k \in DOMAIN s : s[k].comp = r}) = Count(s, PreambleOf(r))
         /\ Cardinality({t \in {1} : b}) = Bit(b)
         /\ Cardinality({r} \cap gone) = Bit(r \in gone)
<1>1. Cardinality({k \in DOMAIN q : q[k].id = r}) = Count(q, CompOf(r))
  <2>1. \A k \in DOMAIN q : q[k] \in CompTask
    BY LenProperties, ElementOfSeq
  <2>2. {k \in DOMAIN q : q[k].id = r} = At(q, CompOf(r))
    BY <2>1 DEF At, CompOf
  <2>3. QED
    BY <2>2, Zenon DEF Count
<1>2. Cardinality({k \in DOMAIN s : s[k].comp = r}) = Count(s, PreambleOf(r))
  <2>1. \A k \in DOMAIN s : s[k] \in PreambleTask
    BY LenProperties, ElementOfSeq
  <2>2. {k \in DOMAIN s : s[k].comp = r} = At(s, PreambleOf(r))
    BY <2>1 DEF At, PreambleOf
  <2>3. QED
    BY <2>2, Zenon DEF Count
<1>3. Cardinality({t \in {1} : b}) = Bit(b)
  <2>1. CASE b
    <3>1. {t \in {1} : b} = {1}
      BY <2>1
    <3>2. QED
      BY <2>1, <3>1, FS_Singleton DEF Bit
  <2>2. CASE ~b
    <3>1. {t \in {1} : b} = {}
      BY <2>2
    <3>2. QED
      BY <2>2, <3>1, FS_EmptySet DEF Bit
  <2>3. QED
    BY <2>1, <2>2
<1>4. Cardinality({r} \cap gone) = Bit(r \in gone)
  BY MemberBit, Zenon
<1>5. QED
  BY <1>1, <1>2, <1>3, <1>4

(* Each step hands a request on, answers it or gives it up, once.           *)
LEMMA NextOwner ==
  ASSUME TypeOK, InBudget, Working, OneDeque, OneOwner, [Next]_vars,
         QueueType', HistoryType'
  PROVE  OneOwner'
<1>1. /\ comp_tasks.queue \in Seq(CompTask) /\ preamble_tasks.priority \in Seq(PreambleTask)
      /\ replies \in [Requests -> Nat] /\ QueueType
  BY DEF TypeOK, QueueType, QueueOf, HistoryType
<1>2. /\ comp_tasks'.queue \in Seq(CompTask) /\ preamble_tasks'.priority \in Seq(PreambleTask)
      /\ replies' \in [Requests -> Nat]
  BY DEF QueueType, QueueOf, HistoryType
<1>3. SUFFICES ASSUME NEW r \in Requests
               PROVE  Count(comp_tasks'.queue, CompOf(r))
                      + Count(preamble_tasks'.priority, PreambleOf(r))
                      + Bit(completer'.id = r) + Bit(preambler'.comp = r)
                      + replies'[r] + Bit(r \in lost') = Bit(r <= sent')
  <2>1. ASSUME NEW r \in Requests
        PROVE  /\ Cardinality({k \in DOMAIN comp_tasks'.queue : comp_tasks'.queue[k].id = r})
                    = Count(comp_tasks'.queue, CompOf(r))
               /\ Cardinality({k \in DOMAIN preamble_tasks'.priority :
                                 preamble_tasks'.priority[k].comp = r})
                    = Count(preamble_tasks'.priority, PreambleOf(r))
               /\ Cardinality({t \in {1} : completer'.id = r}) = Bit(completer'.id = r)
               /\ Cardinality({t \in {1} : preambler'.comp = r}) = Bit(preambler'.comp = r)
               /\ Cardinality({r} \cap lost') = Bit(r \in lost')
    <3> DEFINE c == completer'.id = r
               d == preambler'.comp = r
    <3>1. c \in BOOLEAN /\ d \in BOOLEAN
      OBVIOUS
    <3> HIDE DEF c, d
    <3>2. /\ Cardinality({t \in {1} : c}) = Bit(c) /\ Cardinality({t \in {1} : d}) = Bit(d)
      BY <1>2, <3>1, HoldersCount, ZenonT(30)
    <3>3. /\ Cardinality({k \in DOMAIN comp_tasks'.queue : comp_tasks'.queue[k].id = r})
               = Count(comp_tasks'.queue, CompOf(r))
          /\ Cardinality({k \in DOMAIN preamble_tasks'.priority :
                            preamble_tasks'.priority[k].comp = r})
               = Count(preamble_tasks'.priority, PreambleOf(r))
      BY <1>2, <3>1, HoldersCount
    <3>4. Cardinality({r} \cap lost') = Bit(r \in lost')
      BY MemberBit, ZenonT(30)
    <3>5. QED
      BY <3>2, <3>3, <3>4, Zenon DEF c, d
  <2>2. QED
    BY <2>1, ZenonT(30) DEF OneOwner, Holders, Bit
<1> DEFINE a == Count(comp_tasks.queue, CompOf(r))
           b == Count(preamble_tasks.priority, PreambleOf(r))
           c == Bit(completer.id = r)
           d == Bit(preambler.comp = r)
           e == replies[r]
           f == Bit(r \in lost)
           an == Count(comp_tasks'.queue, CompOf(r))
           bn == Count(preamble_tasks'.priority, PreambleOf(r))
           cn == Bit(completer'.id = r)
           dn == Bit(preambler'.comp = r)
           en == replies'[r]
           fn == Bit(r \in lost')
<1>4. a + b + c + d + e + f = Bit(r <= sent)
  <2>1. /\ Cardinality({k \in DOMAIN comp_tasks.queue : comp_tasks.queue[k].id = r}) = a
        /\ Cardinality({k \in DOMAIN preamble_tasks.priority :
                           preamble_tasks.priority[k].comp = r}) = b
        /\ Cardinality({t \in {1} : completer.id = r}) = c
        /\ Cardinality({t \in {1} : preambler.comp = r}) = d
        /\ Cardinality({r} \cap lost) = f
    <3> DEFINE x == completer.id = r
               y == preambler.comp = r
    <3>1. x \in BOOLEAN /\ y \in BOOLEAN
      OBVIOUS
    <3> HIDE DEF x, y
    <3>2. /\ Cardinality({t \in {1} : x}) = Bit(x) /\ Cardinality({t \in {1} : y}) = Bit(y)
      BY <1>1, <3>1, HoldersCount
    <3>3. QED
      BY <1>1, <3>1, <3>2, HoldersCount DEF x, y
  <2>2. QED
    BY <2>1, Zenon DEF OneOwner, Holders, Bit
<1>5. /\ a \in Nat /\ b \in Nat /\ c \in {0, 1} /\ d \in {0, 1} /\ e \in Nat /\ f \in {0, 1}
      /\ an \in Nat /\ bn \in Nat /\ cn \in {0, 1} /\ dn \in {0, 1} /\ en \in Nat
      /\ fn \in {0, 1}
  BY <1>1, <1>2, CountType DEF Bit
<1>6. r \in Nat \ {0} /\ r # NoRequest /\ sent \in Nat
  BY Facts, SpendProperties DEF TypeOK
<1>7. \A x \in BOOLEAN : Bit(x) \in {0, 1} /\ (x <=> Bit(x) = 1) /\ (~x <=> Bit(x) = 0)
  BY DEF Bit
<1> DEFINE Goal == an + bn + cn + dn + en + fn = Bit(r <= sent')
<1>8. SUFFICES Goal
  OBVIOUS
<1>9. UNCHANGED comp_tasks => an = a
  OBVIOUS
<1>10. UNCHANGED preamble_tasks => bn = b
  OBVIOUS
<1>11. UNCHANGED completer => cn = c
  OBVIOUS
<1>12. UNCHANGED preambler => dn = d
  OBVIOUS
<1>13. UNCHANGED replies => en = e
  OBVIOUS
<1>14. UNCHANGED lost => fn = f
  OBVIOUS
<1>15. ASSUME UNCHANGED sent, an + bn + cn + dn + en + fn = a + b + c + d + e + f
       PROVE  Goal
  BY <1>4, <1>15
<1>16. ASSUME NEW p \in Paths, NEW x \in Requests \cup {NoRequest}, NEW y \in BOOLEAN,
              PushPreamble(p, x, y)
       PROVE  bn = b + Bit(x = r)
  <2> DEFINE t == [path |-> p, comp |-> x, from_diag |-> y]
  <2>1. t \in PreambleTask /\ (t \in PreambleOf(r) <=> x = r)
    BY DEF PreambleTask, PreambleOf
  <2>2. preamble_tasks'.priority = Append(preamble_tasks.priority, t)
    BY <1>1, <1>16, PushPreambleType
  <2> HIDE DEF t
  <2>3. bn = b + Bit(t \in PreambleOf(r))
    BY <1>1, <2>1, <2>2, CountAppend
  <2>4. QED
    BY <2>1, <2>3 DEF Bit
<1>17. Bit(NoRequest = r) = 0
  BY <1>6 DEF Bit
<1>18. ASSUME NEW t \in CompTask, comp_tasks' = PushBack(comp_tasks, t, FALSE)
       PROVE  an = a + Bit(t.id = r)
  <2>1. comp_tasks'.queue = Append(comp_tasks.queue, t)
    BY <1>1, <1>18, CompTasksType
  <2>2. an = a + Bit(t \in CompOf(r))
    BY <1>1, <2>1, CountAppend
  <2>3. t \in CompOf(r) <=> t.id = r
    BY DEF CompOf
  <2>4. QED
    BY <2>2, <2>3 DEF Bit
<1>19. ASSUME CanPop(comp_tasks), comp_tasks' = DequeueRest(comp_tasks, 0),
              completer' = ToDrop(DequeueItem(comp_tasks, 0))
       PROVE  a = an + cn
  <2> DEFINE q == comp_tasks.queue
             t == Head(q)
  <2>1. q # <<>> /\ t \in CompTask /\ comp_tasks'.queue = Tail(q) /\ completer' = ToDrop(t)
    BY <1>1, <1>19, CompTasksType
  <2>2. a = Bit(t \in CompOf(r)) + an
    BY <1>1, <2>1, CountTail
  <2> HIDE DEF t
  <2>3. completer'.id = t.id
    BY <2>1 DEF ToDrop, IdleCompleter
  <2>4. (t \in CompOf(r)) <=> (completer'.id = r)
    BY <2>1, <2>3 DEF CompOf
  <2>5. cn = Bit(t \in CompOf(r))
    BY <2>4 DEF Bit
  <2> HIDE DEF a, an, cn
  <2>6. QED
    BY <1>5, <2>2, <2>5
<1> HIDE DEF Goal, a, b, c, d, e, f, an, bn, cn, dn, en, fn
<1>20. CASE UNCHANGED <<comp_tasks, preamble_tasks, completer, preambler, replies, lost, sent>>
  BY <1>9, <1>10, <1>11, <1>12, <1>13, <1>14, <1>15, <1>20
<1>21. CASE OnView \/ (\E p \in Paths : DidSave(p)) \/ DiagRebuild
  <2>1. UNCHANGED <<comp_tasks, completer, preambler, replies, lost, sent>>
    BY <1>21 DEF OnView, DidSave, DiagRebuild, clientVars, mainVars, threads, history
  <2>2. \/ UNCHANGED preamble_tasks
        \/ \E p \in Paths, y \in BOOLEAN : PushPreamble(p, NoRequest, y)
    <3>1. CASE OnView
      BY <3>1 DEF OnView, Working
    <3>2. CASE \E p \in Paths : DidSave(p)
      BY <3>2 DEF DidSave
    <3>3. CASE DiagRebuild
      BY <3>3 DEF DiagRebuild, Working
    <3>4. QED
      BY <1>21, <3>1, <3>2, <3>3
  <2>3. bn = b
    <3>1. CASE UNCHANGED preamble_tasks
      BY <1>10, <3>1
    <3>2. CASE \E p \in Paths, y \in BOOLEAN : PushPreamble(p, NoRequest, y)
      <4>1. bn = b + Bit(NoRequest = r)
        BY <1>16, <3>2
      <4>2. QED
        BY <1>5, <1>17, <4>1
    <3>3. QED
      BY <2>2, <3>1, <3>2
  <2>4. QED
    BY <1>9, <1>11, <1>12, <1>13, <1>14, <1>15, <2>1, <2>3
<1>22. CASE \E p \in Paths : Completion(p)
  <2> PICK p \in Paths : Completion(p)
    BY <1>22
  <2>1. UNCHANGED <<preamble_tasks, completer, preambler, lost>> /\ sent' = sent + 1
    BY DEF Completion, threads
  <2>2. bn = b /\ cn = c /\ dn = d /\ fn = f
    BY <1>10, <1>11, <1>12, <1>14, <2>1
  <2>3. sent' \in Requests
    <3>1. budget.messages > 0 /\ budget.messages \in Nat
      BY SpendProperties DEF Completion, TypeOK
    <3>2. QED
      BY <1>6, <2>1, <3>1, Facts DEF InBudget
  <2> DEFINE v == Bit(sent' = r)
             w == Bit(r <= sent)
  <2>4. an + en = a + e + v
    <3>1. CASE comp_tasks' = PushBack(comp_tasks, [id |-> sent', path |-> p], FALSE)
               /\ UNCHANGED replies
      <4> DEFINE t == [id |-> sent', path |-> p]
      <4>1. t \in CompTask /\ t.id = sent'
        BY <2>3 DEF CompTask
      <4> HIDE DEF t
      <4>2. an = a + Bit(t.id = r)
        BY <1>18, <3>1, <4>1 DEF t
      <4>3. an = a + v /\ en = e /\ v \in {0, 1}
        BY <1>13, <3>1, <4>1, <4>2 DEF Bit
      <4> HIDE DEF v
      <4>4. QED
        BY <1>5, <4>3
    <3>2. CASE replies' = [replies EXCEPT ![sent'] = @ + 1] /\ UNCHANGED comp_tasks
      <4>1. en = e + v
        BY <1>1, <2>3, <3>2 DEF en, e, Bit
      <4>2. an = a /\ v \in {0, 1}
        BY <1>9, <3>2 DEF Bit
      <4> HIDE DEF v
      <4>3. QED
        BY <1>5, <4>1, <4>2
    <3>3. QED
      BY <3>1, <3>2 DEF Completion
  <2>5. Bit(r <= sent') = w + v
    BY <1>6, <2>1 DEF Bit
  <2>6. v \in {0, 1} /\ w \in {0, 1} /\ a + b + c + d + e + f = w
    BY <1>4 DEF Bit
  <2> HIDE DEF v, w
  <2>7. an + bn + cn + dn + en + fn = w + v
    BY <1>5, <2>2, <2>4, <2>6
  <2>8. QED
    BY <2>5, <2>7 DEF Goal
<1>23. CASE PreambleForward
  <2>1. UNCHANGED <<preamble_tasks, completer, replies, lost, sent>>
    BY <1>23 DEF PreambleForward, clientVars, mainVars, history
  <2>2. preambler' = IdlePreambler /\ preambler.path \in Paths
    BY <1>23 DEF PreambleForward, Working
  <2>3. dn = 0
    BY <1>6, <2>2 DEF dn, Bit, IdlePreambler
  <2>4. CASE ForCompletion
    <3> DEFINE t == [id |-> preambler.comp, path |-> preambler.path]
    <3>1. comp_tasks' = PushBack(comp_tasks, t, FALSE)
      BY <1>23, <2>4 DEF PreambleForward
    <3>2. t \in CompTask /\ t.id = preambler.comp
      BY <2>2, <2>4 DEF ForCompletion, TypeOK, ThreadType, CompTask
    <3> HIDE DEF t
    <3>3. an = a + d
      BY <1>18, <3>1, <3>2 DEF d
    <3>4. QED
      BY <1>5, <1>10, <1>11, <1>13, <1>14, <1>15, <2>1, <2>3, <3>3
  <2>5. CASE ~ForCompletion
    <3>1. UNCHANGED comp_tasks /\ preambler.comp = NoRequest
      BY <1>23, <2>5 DEF PreambleForward, ForCompletion
    <3>2. d = 0
      BY <1>6, <3>1 DEF d, Bit
    <3>3. QED
      BY <1>5, <1>9, <1>10, <1>11, <1>13, <1>14, <1>15, <2>1, <2>3, <3>1, <3>2
  <2>6. QED
    BY <2>4, <2>5
<1>24. CASE PreambleSession \/ PreambleStore \/ PreambleFail
  <2>1. UNCHANGED <<comp_tasks, preamble_tasks, completer, replies, lost, sent>>
    BY <1>24 DEF PreambleSession, PreambleStore, PreambleFail, clientVars, mainVars, history
  <2>2. preambler'.comp = preambler.comp
    BY <1>24 DEF PreambleSession, PreambleStore, PreambleFail, TypeOK, ThreadType
  <2>3. dn = d
    BY <2>2 DEF dn, d
  <2>4. QED
    BY <1>9, <1>10, <1>11, <1>13, <1>14, <1>15, <2>1, <2>3
<1>25. CASE CompTake
  <2>1. UNCHANGED <<preamble_tasks, preambler, replies, lost, sent>>
    BY <1>25 DEF CompTake, clientVars, mainVars, history
  <2>2. a = an + cn
    BY <1>19, <1>25 DEF CompTake
  <2>3. c = 0
    BY <1>6, <1>25 DEF CompTake, Working, c, Bit
  <2>4. QED
    BY <1>5, <1>10, <1>12, <1>13, <1>14, <1>15, <2>1, <2>2, <2>3
<1>26. ASSUME CompDrop \/ CompReply
       PROVE  en = e + c /\ completer.id \in Requests
  <2>1. replies' = [replies EXCEPT ![completer.id] = @ + 1] /\ completer.id \in Requests
    BY <1>26 DEF CompDrop, CompReply, Working
  <2>2. QED
    BY <1>1, <2>1 DEF en, e, c, Bit
<1>27. CASE CompDrop
  <2>1. UNCHANGED <<preamble_tasks, preambler, lost, sent>>
    BY <1>27 DEF CompDrop, clientVars, mainVars
  <2>2. a = an + cn
    <3>1. CanPop(comp_tasks)
      BY <1>1, <1>27, CompTasksType DEF CompDrop, Drops
    <3>2. QED
      BY <1>19, <1>27, <3>1 DEF CompDrop
  <2>3. QED
    BY <1>5, <1>10, <1>12, <1>14, <1>15, <1>26, <1>27, <2>1, <2>2
<1>28. CASE CompSession \/ CompParse
  <2>1. UNCHANGED <<comp_tasks, preamble_tasks, preambler, replies, lost, sent>>
    BY <1>28 DEF CompSession, CompParse, clientVars, mainVars, history
  <2>2. completer'.id = completer.id
    BY <1>28 DEF CompSession, CompParse, TypeOK, ThreadType
  <2>3. cn = c
    BY <2>2 DEF cn, c
  <2>4. QED
    BY <1>9, <1>10, <1>12, <1>13, <1>14, <1>15, <2>1, <2>3
<1>29. ASSUME CompRebuild \/ CompReply \/ CompFail
       PROVE  cn = 0
  <2>1. completer' = IdleCompleter
    BY <1>29 DEF CompRebuild, CompReply, CompFail
  <2>2. QED
    BY <1>6, <2>1 DEF cn, Bit, IdleCompleter
<1>30. CASE CompRebuild
  <2>1. UNCHANGED <<comp_tasks, preambler, replies, lost, sent>>
    BY <1>30 DEF CompRebuild, clientVars, mainVars, history
  <2>2. bn = b + c
    <3>1. /\ PushPreamble(completer.path, completer.id, FALSE)
          /\ completer.path \in Paths /\ completer.id \in Requests
      BY <1>30 DEF CompRebuild, Working
    <3>2. QED
      BY <1>16, <3>1 DEF c
  <2>3. QED
    BY <1>5, <1>9, <1>12, <1>13, <1>14, <1>15, <1>29, <1>30, <2>1, <2>2
<1>31. CASE CompReply
  <2>1. UNCHANGED <<comp_tasks, preamble_tasks, preambler, lost, sent>>
    BY <1>31 DEF CompReply, clientVars, mainVars
  <2>2. QED
    BY <1>5, <1>9, <1>10, <1>12, <1>14, <1>15, <1>26, <1>29, <1>31, <2>1
<1>32. CASE CompFail
  <2>1. UNCHANGED <<comp_tasks, preamble_tasks, preambler, replies, sent>>
    BY <1>32 DEF CompFail, clientVars, mainVars
  <2>2. lost' = lost \cup {completer.id}
    BY <1>32 DEF CompFail
  <2>3. c = 0 => fn = f
    BY <2>2 DEF c, f, fn, Bit
  <2>4. c = 1 => fn = 1 /\ f = 0
    <3>1. c = 1 => fn = 1
      BY <2>2 DEF c, fn, Bit
    <3>2. c = 1 => f = 0
      BY <1>4, <1>5 DEF Bit
    <3>3. QED
      BY <3>1, <3>2
  <2>5. QED
    BY <1>5, <1>9, <1>10, <1>12, <1>13, <1>15, <1>29, <1>32, <2>1, <2>3, <2>4
<1>33. CASE PreambleTake
  <2>1. UNCHANGED <<comp_tasks, completer, replies, sent>>
    BY <1>33 DEF PreambleTake, clientVars, mainVars
  <2>2. d = 0
    BY <1>6, <1>33 DEF PreambleTake, Working, d, Bit
  <2> DEFINE s == preamble_tasks.priority
             n == Len(s) - maxNum
             x == SubSeq(s, 1, n)
             y == LastOf(s, maxNum)
             t == Head(y)
             S == PreambleOf(r)
  <2>3. maxNum \in Nat \ {0}
    BY StartsAssumption DEF TypeOK, ClientType
  <2>4. /\ preamble_tasks'.priority = Tail(y) /\ s # <<>>
        /\ DequeueItem(preamble_tasks, maxNum) = t /\ t \in PreambleTask
    <3>1. /\ CanPop(preamble_tasks) /\ preamble_tasks \in QueueOf(PreambleTask)
          /\ preamble_tasks.queue = <<>>
          /\ preamble_tasks' = DequeueRest(preamble_tasks, maxNum)
      BY <1>1, <1>33 DEF PreambleTake, QueueType, OneDeque
    <3>2. QED
      BY <2>3, <3>1, DequeueTrimmed
  <2>5. /\ y \in Seq(PreambleTask) /\ y # <<>> /\ x \in Seq(PreambleTask) /\ s = x \o y
    BY <1>1, <2>3, <2>4, LastOfProperties
  <2>6. preambler'.comp = t.comp
    <3>1. preambler' = [IdlePreambler EXCEPT !.pc = "session", !.path = t.path,
                         !.comp = t.comp, !.from_diag = t.from_diag]
      BY <1>33, <2>4 DEF PreambleTake
    <3> HIDE DEF t
    <3>2. QED
      BY <3>1 DEF IdlePreambler
  <2>7. dn = Bit(t \in S)
    <3>1. t \in S <=> preambler'.comp = r
      BY <2>4, <2>6 DEF PreambleOf
    <3>2. QED
      BY <3>1 DEF dn, Bit
  <2>8. Count(s, S) = Count(x, S) + Count(y, S)
    <3> HIDE DEF x, y, s, S
    <3>1. Count(x \o y, S) = Count(x, S) + Count(y, S)
      BY <2>5, CountConcat
    <3>2. QED
      BY <2>5, <3>1
  <2>9. Count(y, S) = Bit(t \in S) + bn
    <3>1. Count(y, S) = Bit(Head(y) \in S) + Count(Tail(y), S)
      <4> HIDE DEF y, S
      <4>1. QED
        BY <2>5, CountTail
    <3>2. QED
      BY <2>4, <3>1 DEF bn
  <2>10. Count(x, S) \in Nat /\ (Count(x, S) = 0 <=> \A k \in DOMAIN x : x[k] \notin S)
    <3> HIDE DEF x, S
    <3>1. QED
      BY <2>5, CountType
  <2>11. r \in lost' <=> (r \in lost \/ \E k \in DOMAIN x : x[k] \in S)
    <3>1. Erased = Elements(x)
      <4>1. Len(s) \in Nat /\ n \in Int /\ n <= Len(s) /\ s \in Seq(PreambleTask)
        BY <1>1, <2>3, LenProperties
      <4>2. DOMAIN x = 1 .. n /\ \A k \in 1 .. n : x[k] = s[k]
        BY <4>1 DEF x
      <4>3. Erased = {s[k] : k \in 1 .. n}
        BY DEF Erased
      <4> HIDE DEF x, n, s
      <4>4. QED
        BY <4>2, <4>3 DEF Elements
    <3>2. lost' = lost \cup ({u.comp : u \in Erased} \ {NoRequest})
      BY <1>33 DEF PreambleTake
    <3>3. \A k \in DOMAIN x : x[k] \in PreambleTask
      <4> HIDE DEF x
      <4>1. QED
        BY <2>5, LenProperties, ElementOfSeq
    <3> HIDE DEF x
    <3>4. r \in lost' <=> (r \in lost \/ \E u \in Elements(x) : u.comp = r)
      BY <1>6, <3>1, <3>2
    <3>5. QED
      BY <3>3, <3>4 DEF Elements, PreambleOf
  <2>12. b = Count(s, S)
    BY DEF b
  <2> HIDE DEF s, x, y, S, t
  <2>13. Count(x, S) + f <= 1
    <3> DEFINE u == Count(x, S)
               v == Bit(t \in S)
               w == Bit(r <= sent)
    <3>1. /\ u \in Nat /\ v \in {0, 1} /\ w \in {0, 1} /\ b = u + (v + bn)
          /\ a + b + c + d + e + f = w
      BY <1>4, <2>8, <2>9, <2>10, <2>12 DEF Bit
    <3> HIDE DEF u, v, w
    <3>2. u + f <= 1
      BY <1>5, <3>1
    <3>3. QED
      BY <3>2 DEF u
  <2>14. fn = f + Count(x, S)
    <3>1. CASE Count(x, S) = 0
      <4>1. r \in lost' <=> r \in lost
        BY <2>10, <2>11, <3>1
      <4>2. fn = f
        BY <4>1 DEF fn, f, Bit
      <4>3. QED
        BY <1>5, <3>1, <4>2
    <3>2. CASE Count(x, S) # 0
      <4>1. r \in lost'
        BY <2>10, <2>11, <3>2
      <4>2. fn = 1
        BY <4>1 DEF fn, Bit
      <4>3. QED
        BY <1>5, <2>10, <2>13, <3>2, <4>2
    <3>3. QED
      BY <3>1, <3>2
  <2>15. an + bn + cn + dn + en + fn = a + b + c + d + e + f
    <3>1. an = a /\ cn = c /\ en = e
      BY <1>9, <1>11, <1>13, <2>1
    <3> DEFINE u == Count(x, S)
               v == Bit(t \in S)
    <3>2. u \in Nat /\ v \in {0, 1} /\ dn = v /\ b = u + (v + bn) /\ fn = f + u
      BY <2>7, <2>8, <2>9, <2>10, <2>12, <2>14 DEF Bit
    <3> HIDE DEF u, v
    <3>3. QED
      BY <1>5, <2>2, <3>1, <3>2
  <2>16. QED
    BY <1>15, <2>1, <2>15
<1>34. QED
  <2>1. CASE UNCHANGED vars \/ Client \/ Main
    BY <1>20, <1>21, <1>22, <2>1 DEF vars, clientVars, history, threads, Client, Main, DidOpen,
       DidChange, DidClose, Clear, Schedule, OnClose
  <2>2. CASE PreambleMain \/ CompletionMain
    BY <1>23, <1>24, <1>25, <1>27, <1>28, <1>30, <1>31, <1>32, <1>33, <2>2
       DEF PreambleMain, CompletionMain
  <2>3. CASE DiagnosticMain \/ Tick
    BY <1>20, <1>21, <2>3 DEF DiagnosticMain, mainVars, clientVars, history, DiagTake,
       DiagSession, DiagCheck, DiagRead, DiagPublish, DiagFail, Tick
  <2>4. QED
    BY <2>1, <2>2, <2>3 DEF Next

-----------------------------------------------------------------------------
(* Changes of the buffers, and what is known of them.                       *)

(* A buffer changes in a second of its own, or starts afresh.               *)
BuffersStep ==
  /\ clock \in Nat /\ clock' \in {clock, clock + 1}
  /\ \A h \in Paths :
       /\ buffer[h].timestamp \in Nat
       /\ \/ buffer'[h] = buffer[h]
          \/ buffer'[h].timestamp = 0
          \/ buffer'[h].timestamp = clock + 1 /\ clock' = clock + 1

(* Only the client's messages change them.                                  *)
LEMMA NextBuffers ==
  ASSUME TypeOK, [Next]_vars
  PROVE  BuffersStep
<1>1. /\ clock \in Nat /\ DOMAIN buffer = Paths
      /\ \A h \in Paths : buffer[h].timestamp \in Nat
  BY Facts DEF TypeOK, ClientType
<1>2. CASE UNCHANGED <<clock, buffer>>
  BY <1>1, <1>2 DEF BuffersStep
<1>3. ASSUME NEW q \in Paths, NEW b, buffer' = [buffer EXCEPT ![q] = b],
             clock' \in {clock, clock + 1},
             b.timestamp = 0 \/ (b.timestamp = clock + 1 /\ clock' = clock + 1)
      PROVE  BuffersStep
  BY <1>1, <1>3 DEF BuffersStep
<1>4. CASE \E q \in Paths : DidOpen(q)
  <2>1. PICK q \in Paths : DidOpen(q)
    BY <1>4
  <2> DEFINE b == [open |-> TRUE, text |-> disk[q].text, timestamp |-> 0]
  <2>2. buffer' = [buffer EXCEPT ![q] = b] /\ clock' = clock /\ b.timestamp = 0
    BY <2>1 DEF DidOpen
  <2> HIDE DEF b
  <2>3. QED
    BY <1>3, <2>2
<1>5. CASE \E q \in Paths : DidChange(q)
  <2>1. PICK q \in Paths : DidChange(q)
    BY <1>5
  <2> DEFINE b == [open |-> TRUE, text |-> clock', timestamp |-> clock']
  <2>2. buffer' = [buffer EXCEPT ![q] = b] /\ clock' = clock + 1 /\ b.timestamp = clock + 1
    BY <2>1 DEF DidChange
  <2> HIDE DEF b
  <2>3. QED
    BY <1>3, <2>2
<1>6. CASE \E q \in Paths : DidClose(q)
  <2>1. PICK q \in Paths : DidClose(q)
    BY <1>6
  <2> DEFINE b == [open |-> FALSE, text |-> NoText, timestamp |-> 0]
  <2>2. buffer' = [buffer EXCEPT ![q] = b] /\ clock' = clock /\ b.timestamp = 0
    BY <2>1 DEF DidClose
  <2> HIDE DEF b
  <2>3. QED
    BY <1>3, <2>2
<1>7. QED
  BY <1>2, <1>4, <1>5, <1>6 DEF Next, vars, clientVars, mainVars, Client, Main, PreambleMain,
     CompletionMain, DiagnosticMain, DidSave, Completion, Clear, OnView, Schedule, OnClose,
     PreambleTake, PreambleSession, PreambleStore, PreambleFail, PreambleForward, CompTake,
     CompDrop, CompSession, CompRebuild, CompParse, CompReply, CompFail, DiagTake, DiagSession,
     DiagRebuild, DiagCheck, DiagRead, DiagPublish, DiagFail, Tick

(* What a step may do to the sessions in the cache and to those a thread    *)
(* holds, unless it stores or marks a preamble.                             *)
SessionsKept ==
  /\ \A t \in Elements(sessions') :
       \/ t \in Elements(sessions) /\ session'[t] = session[t]
       \/ session'[t].path \in Paths /\ session'[t].preamble = NoPreamble
  /\ \A s \in Sessions : \/ session'[s] = session[s]
                         \/ /\ s # preambler.session /\ s # diagnoser.session
                            /\ session'[s].preamble = NoPreamble

(* ensureSession finds a session as it is, or inserts an empty one.         *)
LEMMA EnsureKeeps ==
  ASSUME ClientType, CacheType, NEW p \in Paths, EnsureSession(p)
  PROVE  SessionsKept
<1>1. PICK s : Ensured(p, s)
  BY EnsureSessionProperties
<1>2. Elements(sessions') \subseteq Sessions
  BY <1>1, LenProperties, ElementOfSeq DEF Ensured, Elements
<1>3. s \in Sessions /\ session'[s].path = p /\ session'[s].preamble = PreambleFor(p)
  BY <1>1 DEF Ensured
<1>4. \/ s \in Elements(sessions) /\ session' = session
      \/ /\ session'[s].preamble = NoPreamble
         /\ s # preambler.session /\ s # diagnoser.session
  BY <1>1, <1>3 DEF Ensured
<1>5. /\ \A t \in Elements(sessions') : t # s => t \in Elements(sessions)
      /\ \A t \in Sessions : t # s => session'[t] = session[t]
  BY <1>1 DEF Ensured
<1>6. QED
  BY <1>2, <1>3, <1>4, <1>5 DEF SessionsKept

(* So do all steps but two.                                                 *)
LEMMA NextSessions ==
  ASSUME TypeOK, Working, [Next]_vars
  PROVE  PreambleStore \/ DiagRebuild \/ SessionsKept
<1>1. ClientType /\ CacheType
  BY DEF TypeOK
<1>2. ASSUME session' = session, Elements(sessions') \subseteq Elements(sessions)
      PROVE  SessionsKept
  BY <1>2 DEF SessionsKept
<1>3. CASE UNCHANGED <<sessions, session>>
  BY <1>2, <1>3
<1>4. CASE OnView
  <2>1. main.path \in Paths /\ session' = session
    BY <1>4 DEF OnView, Working
  <2>2. \/ sessions' = sessions
        \/ Found(main.path) # {} /\ sessions' = <<SessionFor(main.path)>> \o Take(main.path)
    BY <1>4 DEF OnView
  <2>3. Elements(sessions') = Elements(sessions)
    BY <1>1, <2>1, <2>2, TakeProperties
  <2>4. QED
    BY <1>2, <2>1, <2>3
<1>5. CASE OnClose
  <2>1. main.path \in Paths /\ session' = session /\ sessions' = Take(main.path)
    BY <1>5 DEF OnClose, Working
  <2>2. Elements(sessions') \subseteq Elements(sessions)
    BY <1>1, <2>1, TakeProperties
  <2>3. QED
    BY <1>2, <2>1, <2>2
<1>6. CASE Clear
  <2>1. sessions' = <<>> /\ session' = session
    BY <1>6 DEF Clear
  <2>2. Elements(<<>>) = {}
    BY DEF Elements
  <2>3. QED
    BY <1>2, <2>1, <2>2
<1>7. CASE PreambleSession \/ CompSession \/ DiagSession
  <2>1. \E p \in Paths : EnsureSession(p)
    <3>1. CASE PreambleSession
      BY <3>1 DEF PreambleSession, Working
    <3>2. CASE CompSession
      BY <3>2 DEF CompSession, Working
    <3>3. CASE DiagSession
      BY <3>3 DEF DiagSession, Working
    <3>4. QED
      BY <1>7, <3>1, <3>2, <3>3
  <2>2. QED
    BY <1>1, <2>1, EnsureKeeps
<1>8. QED
  BY <1>3, <1>4, <1>5, <1>6, <1>7
     DEF Next, vars, Client, Main, PreambleMain, CompletionMain, DiagnosticMain, sessionVars,
     DidOpen, DidChange, DidSave, DidClose, Completion, Schedule, PreambleTake, PreambleFail,
     PreambleForward, CompTake, CompDrop, CompRebuild, CompParse, CompReply, CompFail,
     DiagTake, DiagCheck, DiagRead, DiagPublish, DiagFail, Tick

(* What the two others do: PreambleStore replaces the preamble of the       *)
(* session it holds,                                                        *)
LEMMA StoreChanges ==
  ASSUME TypeOK, Working, PreambleStore
  PROVE  /\ sessions' = sessions /\ preambler.session \in Sessions
         /\ \A t \in Sessions : /\ session'[t].path = session[t].path
                                /\ t # preambler.session => session'[t] = session[t]
         /\ session'[preambler.session].preamble =
              MergeSeen(preambler.built, session[preambler.session].preamble)
         /\ preambler.built \in PreambleSet /\ preambler.path \in Paths
         /\ preambler.built.includes = Includes[preambler.path]
         /\ session[preambler.session].preamble \in PreambleSet
<1> DEFINE s == preambler.session
           b == MergeSeen(preambler.built, session[s].preamble)
<1>1. /\ sessions' = sessions /\ session' = [session EXCEPT ![s].preamble = b]
      /\ s \in Sessions /\ preambler.built \in PreambleSet /\ preambler.path \in Paths
      /\ preambler.built.includes = Includes[preambler.path]
  BY DEF PreambleStore, Working, TypeOK, ThreadType
<1>2. session \in [Sessions -> SessionRecord]
  BY DEF TypeOK, CacheType, SessionRecord
<1>3. session[s].preamble \in PreambleSet
  BY <1>1, <1>2 DEF SessionRecord
<1> HIDE DEF b
<1>4. /\ session'[s].preamble = b
      /\ \A t \in Sessions : /\ session'[t].path = session[t].path
                             /\ t # s => session'[t] = session[t]
  BY <1>1, <1>2 DEF SessionRecord
<1>5. QED
  BY <1>1, <1>3, <1>4 DEF b

(* and DiagRebuild marks that of the session it holds, if it has one still. *)
LEMMA RebuildChanges ==
  ASSUME TypeOK, Working, DiagRebuild
  PROVE  /\ sessions' = sessions /\ diagnoser.session \in Sessions
         /\ diagnoser.path \in Paths
         /\ \A t \in Sessions :
              /\ session'[t].path = session[t].path
              /\ session'[t] # session[t] => t = diagnoser.session /\ diagnoser.current
              /\ \A h \in Paths :
                   \/ session'[t].preamble.seen[h] = session[t].preamble.seen[h]
                   \/ session'[t].preamble.seen[h] = buffer[h].timestamp
<1>1. /\ sessions' = sessions /\ diagnoser.session \in Sessions /\ diagnoser.path \in Paths
  BY DEF DiagRebuild, Working
<1>2. session \in [Sessions -> SessionRecord]
  BY DEF TypeOK, CacheType, SessionRecord
<1>3. CASE ~diagnoser.current
  <2>1. session' = session
    BY <1>3 DEF DiagRebuild
  <2>2. QED
    BY <1>1, <2>1
<1>4. CASE diagnoser.current
  <2> DEFINE s == diagnoser.session
             old == session[s].preamble
             seen == [h \in Paths |-> IF h \in Outdated
                                      THEN buffer[h].timestamp ELSE old.seen[h]]
             b == [old EXCEPT !.seen = seen]
  <2>1. session' = [session EXCEPT ![s].preamble.seen =
                       [h \in Paths |-> IF h \in Outdated
                                        THEN buffer[h].timestamp ELSE @[h]]]
    BY <1>4 DEF DiagRebuild
  <2>2. s \in Sessions /\ session[s] \in SessionRecord
    BY <1>1, <1>2
  <2>3. session' = [session EXCEPT ![s].preamble = b]
    BY <1>2, <2>1, <2>2 DEF SessionRecord
  <2>4. old \in PreambleSet
    BY <2>2 DEF SessionRecord
  <2>5. \A h \in Paths : seen[h] = old.seen[h] \/ seen[h] = buffer[h].timestamp
    OBVIOUS
  <2> HIDE DEF old, seen
  <2>6. b.seen = seen
    BY <2>4 DEF PreambleSet
  <2> HIDE DEF b
  <2>7. session'[s].preamble = b /\ session'[s].path = session[s].path
    BY <1>2, <2>2, <2>3 DEF SessionRecord
  <2>8. \A t \in Sessions : t # s => session'[t] = session[t]
    BY <1>2, <2>2, <2>3
  <2>9. QED
    BY <1>1, <1>4, <2>5, <2>6, <2>7, <2>8 DEF old
<1>5. QED
  BY <1>3, <1>4 DEF TypeOK, ThreadType

(* What buildPreamble takes a header's timestamp to be, and its text.       *)
LEMMA BuiltIs ==
  ASSUME ClientType, NEW p \in Paths, NEW old, NEW h \in Paths
  PROVE  /\ Built(p, old).seen[h] \in {0, disk[h].mtime} /\ disk[h].mtime \in Nat \ {0}
         /\ h \in Headers(p) /\ buffer[h].open =>
              \/ Built(p, old).seen[h] = 0 /\ Built(p, old).text[h] = buffer[h].text
              \/ /\ Built(p, old).seen[h] = disk[h].mtime
                 /\ Built(p, old).text[h] = disk[h].text
<1>1. /\ Built(p, old).seen =
           [g \in Paths |-> IF g \in Headers(p) \ Remapped(p, old) THEN disk[g].mtime ELSE 0]
      /\ Built(p, old).text =
           [g \in Paths |-> IF g \in Remapped(p, old) THEN buffer[g].text
                            ELSE IF g \in Headers(p) THEN disk[g].text ELSE NoText]
  BY DEF Built
<1>2. disk[h].mtime \in Nat \ {0}
  BY Facts DEF ClientType
<1>3. QED
  BY <1>1, <1>2

(* What is stored: the timestamp that was built, or one of the preamble     *)
(* that was there before.                                                   *)
LEMMA MergeSeenIs ==
  ASSUME NEW p \in Paths, NEW built \in PreambleSet, NEW old \in PreambleSet, NEW h \in Paths,
         built.includes = Includes[p]
  PROVE  /\ MergeSeen(built, old).text = built.text
         /\ \/ MergeSeen(built, old).seen[h] = built.seen[h]
            \/ /\ built.seen[h] = 0
               /\ \E g \in Paths : MergeSeen(built, old).seen[h] = old.seen[g]
<1>1. CASE old = NoPreamble
  BY <1>1 DEF MergeSeen
<1>2. CASE old # NoPreamble
  <2> DEFINE seen == [g \in Paths |->
                        IF built.seen[g] = 0
                           /\ \E k \in DOMAIN built.includes : built.includes[k] = g
                        THEN OldTimestamp(g, old) ELSE built.seen[g]]
             sorted == Sorted(built.includes)
  <2>1. MergeSeen(built, old) = [built EXCEPT !.includes = sorted, !.seen = seen]
    BY <1>2 DEF MergeSeen, PreambleSet
  <2>2. \/ seen[h] = built.seen[h]
        \/ built.seen[h] = 0 /\ seen[h] = OldTimestamp(h, old)
    OBVIOUS
  <2> HIDE DEF seen, sorted
  <2>3. MergeSeen(built, old).text = built.text /\ MergeSeen(built, old).seen = seen
    BY <2>1 DEF PreambleSet
  <2>4. OldTimestamp(h, old) = 0 \/ \E g \in Paths : OldTimestamp(h, old) = old.seen[g]
    <3>1. old.includes \in Seq(Paths) /\ old.seen \in [Paths -> Nat]
      BY DEF PreambleSet
    <3>2. QED
      BY <3>1, OldTimestampIs
  <2>5. QED
    BY <2>2, <2>3, <2>4
<1>3. QED
  BY <1>1, <1>2

(* No timestamp is ahead of the clock, which is what makes a change         *)
(* recognisable.                                                            *)
LEMMA NextTime ==
  ASSUME TypeOK, Working, InTime, [Next]_vars
  PROVE  InTime'
<1>1. /\ BuffersStep /\ ClientType
      /\ \A h \in Paths : disk[h].mtime \in Nat
      /\ \A s \in Sessions, h \in Paths : session[s].preamble.seen[h] \in Nat
      /\ \A h \in Paths : preambler.built.seen[h] \in Nat
  <2>1. BuffersStep /\ ClientType
    BY NextBuffers DEF TypeOK
  <2>2. \A h \in Paths : disk[h].mtime \in Nat
    BY <2>1, Facts DEF ClientType
  <2>3. \A b \in PreambleSet : \A h \in Paths : b.seen[h] \in Nat
    BY DEF PreambleSet
  <2>4. \A s \in Sessions : session[s].preamble \in PreambleSet
    BY DEF TypeOK, CacheType
  <2>5. preambler.built \in PreambleSet
    BY DEF TypeOK, ThreadType
  <2>6. QED
    BY <2>1, <2>2, <2>3, <2>4, <2>5
<1>2. clock \in Nat /\ clock' \in Nat /\ clock <= clock'
  BY <1>1 DEF BuffersStep
<1>3. /\ \A h \in Paths : disk'[h].mtime \in Nat /\ disk'[h].mtime <= clock'
      /\ \A h \in Paths : disk'[h] # disk[h] =>
           disk'[h].text = buffer[h].text /\ UNCHANGED buffer
  <2>1. CASE UNCHANGED disk
    BY <1>1, <1>2, <2>1 DEF InTime
  <2>2. CASE \E q \in Paths : DidSave(q)
    <3>1. PICK q \in Paths : DidSave(q)
      BY <2>2
    <3> DEFINE f == [text |-> buffer[q].text, mtime |-> clock]
    <3>2. /\ disk' = [disk EXCEPT ![q] = f] /\ UNCHANGED <<buffer, clock>>
          /\ f.text = buffer[q].text /\ f.mtime = clock
      BY <3>1 DEF DidSave
    <3> HIDE DEF f
    <3>3. DOMAIN disk = Paths
      BY <1>1 DEF ClientType
    <3>4. QED
      BY <1>1, <1>2, <3>2, <3>3 DEF InTime
  <2>3. QED
    BY <2>1, <2>2 DEF Next, vars, clientVars, mainVars, Client, Main, PreambleMain,
       CompletionMain, DiagnosticMain, DidOpen, DidChange, DidClose, Completion, Clear, OnView,
       Schedule, OnClose, PreambleTake, PreambleSession, PreambleStore, PreambleFail,
       PreambleForward, CompTake, CompDrop, CompSession, CompRebuild, CompParse, CompReply,
       CompFail, DiagTake, DiagSession, DiagRebuild, DiagCheck, DiagRead, DiagPublish,
       DiagFail, Tick
<1>4. \A h \in Paths : buffer'[h].timestamp <= clock'
  BY <1>1, <1>2 DEF InTime, BuffersStep
<1>5. ASSUME NEW h \in Paths, buffer'[h].open, buffer'[h].timestamp \in 1 .. disk'[h].mtime
      PROVE  disk'[h].text = buffer'[h].text
  <2>1. CASE disk'[h] # disk[h]
    BY <1>3, <2>1
  <2>2. CASE disk'[h] = disk[h] /\ buffer'[h] = buffer[h]
    BY <1>5, <2>2 DEF InTime
  <2>3. CASE disk'[h] = disk[h] /\ buffer'[h] # buffer[h]
    <3>1. buffer'[h].timestamp = 0 \/ buffer'[h].timestamp = clock + 1
      BY <1>1, <2>3 DEF BuffersStep
    <3>2. disk[h].mtime \in Nat /\ disk[h].mtime <= clock
      BY <1>1 DEF InTime
    <3>3. QED
      BY <1>2, <1>5, <2>3, <3>1, <3>2
  <2>4. QED
    BY <2>1, <2>2, <2>3
<1>6. ASSUME NEW s \in Sessions, NEW h \in Paths
      PROVE  session'[s].preamble.seen[h] <= clock'
  <2>1. session[s].preamble.seen[h] <= clock /\ session[s].preamble.seen[h] \in Nat
    BY <1>1 DEF InTime
  <2>2. CASE session'[s] = session[s]
    BY <1>2, <2>1, <2>2
  <2>3. CASE SessionsKept
    <3>1. session'[s] = session[s] \/ session'[s].preamble = NoPreamble
      BY <2>3 DEF SessionsKept
    <3>2. CASE session'[s].preamble = NoPreamble
      <4>1. session'[s].preamble.seen[h] = 0
        BY <3>2, Facts
      <4>2. QED
        BY <1>2, <4>1
    <3>3. QED
      BY <2>2, <3>1, <3>2
  <2>4. CASE PreambleStore
    <3> DEFINE built == preambler.built
               old == session[preambler.session].preamble
    <3>1. /\ preambler.session \in Sessions /\ built \in PreambleSet /\ old \in PreambleSet
          /\ preambler.path \in Paths /\ built.includes = Includes[preambler.path]
          /\ session'[preambler.session].preamble = MergeSeen(built, old)
          /\ s # preambler.session => session'[s] = session[s]
      BY <2>4, StoreChanges
    <3>2. /\ built.seen[h] \in Nat /\ built.seen[h] <= clock
          /\ \A g \in Paths : old.seen[g] \in Nat /\ old.seen[g] <= clock
      BY <1>1, <3>1 DEF InTime
    <3> HIDE DEF built, old
    <3>3. \/ MergeSeen(built, old).seen[h] = built.seen[h]
          \/ \E g \in Paths : MergeSeen(built, old).seen[h] = old.seen[g]
      BY <3>1, MergeSeenIs
    <3>4. MergeSeen(built, old).seen[h] <= clock /\ MergeSeen(built, old).seen[h] \in Nat
      BY <3>2, <3>3
    <3>5. CASE s = preambler.session
      <4>1. session'[s].preamble.seen[h] \in Nat /\ session'[s].preamble.seen[h] <= clock
        BY <3>1, <3>4, <3>5
      <4>2. QED
        BY <1>2, <4>1
    <3>6. QED
      BY <2>2, <3>1, <3>5
  <2>5. CASE DiagRebuild
    <3>1. \/ session'[s].preamble.seen[h] = session[s].preamble.seen[h]
          \/ session'[s].preamble.seen[h] = buffer[h].timestamp
      BY <2>5, RebuildChanges
    <3>2. buffer[h].timestamp \in Nat /\ buffer[h].timestamp <= clock
      BY <1>1 DEF InTime, BuffersStep
    <3>3. QED
      BY <1>2, <2>1, <3>1, <3>2
  <2>6. QED
    BY <2>3, <2>4, <2>5, NextSessions
<1>7. ASSUME NEW h \in Paths
      PROVE  preambler'.built.seen[h] <= clock'
  <2>1. CASE preambler'.built = preambler.built
    <3>1. preambler.built.seen[h] <= clock /\ preambler.built.seen[h] \in Nat
      BY <1>1 DEF InTime
    <3>2. QED
      BY <1>2, <2>1, <3>1
  <2>2. CASE preambler'.built = NoPreamble
    <3>1. preambler'.built.seen[h] = 0
      BY <2>2, Facts
    <3>2. QED
      BY <1>2, <3>1
  <2>3. CASE PreambleSession
    <3> DEFINE p == preambler.path
               b == Built(p, PreambleFor(p))
               started == [preambler EXCEPT !.session = SessionFor(p), !.created = Found(p) = {}]
    <3>1. \/ preambler' = [started EXCEPT !.pc = "store", !.built = b]
          \/ preambler' = [started EXCEPT !.pc = "forward"]
      BY <2>3 DEF PreambleSession
    <3>2. p \in Paths /\ UNCHANGED clock
      BY <2>3 DEF PreambleSession, Working, mainVars, clientVars
    <3>3. b.seen[h] \in {0, disk[h].mtime}
      BY <1>1, <3>2, BuiltIs
    <3> HIDE DEF b
    <3>4. preambler'.built = b \/ preambler'.built = preambler.built
      BY <3>1 DEF TypeOK, ThreadType
    <3>5. CASE preambler'.built = b
      <4>1. disk[h].mtime \in Nat /\ disk[h].mtime <= clock
        BY <1>1 DEF InTime
      <4>2. b.seen[h] <= clock
        BY <1>2, <3>3, <4>1
      <4>3. QED
        BY <3>2, <3>5, <4>2
    <3>6. QED
      BY <2>1, <3>4, <3>5
  <2>4. CASE PreambleTake
    <3>1. preambler'.built = NoPreamble
      BY <2>4 DEF PreambleTake, IdlePreambler
    <3>2. QED
      BY <2>2, <3>1
  <2>5. CASE PreambleStore \/ PreambleFail
    <3>1. preambler'.built = NoPreamble
      BY <2>5 DEF PreambleStore, PreambleFail, TypeOK, ThreadType
    <3>2. QED
      BY <2>2, <3>1
  <2>6. CASE PreambleForward
    <3>1. preambler'.built = NoPreamble
      BY <2>6 DEF PreambleForward, IdlePreambler
    <3>2. QED
      BY <2>2, <3>1
  <2>7. QED
    BY <2>1, <2>3, <2>4, <2>5, <2>6 DEF Next, vars, Client, Main, PreambleMain, threads,
       CompletionMain, DiagnosticMain, DidOpen, DidChange, DidSave, DidClose, Completion, Clear,
       OnView, Schedule, OnClose, CompTake, CompDrop, CompSession, CompRebuild, CompParse,
       CompReply, CompFail, DiagTake, DiagSession, DiagRebuild, DiagCheck, DiagRead,
       DiagPublish, DiagFail, Tick
<1>8. QED
  BY <1>3, <1>4, <1>5, <1>6, <1>7 DEF InTime

-----------------------------------------------------------------------------
(* The sessions that threads hold.                                          *)

(* A thread's session stays the session of its file, and the only one of it *)
(* with a preamble that is in the cache.                                    *)
LEMMA NextHeld ==
  ASSUME TypeOK, Working, HeldSessions, [Next]_vars, CacheType', Working'
  PROVE  HeldSessions'
<1>1. /\ ClientType /\ CacheType /\ Elements(sessions) \subseteq Sessions
      /\ Elements(sessions') \subseteq Sessions
  BY LenProperties, ElementOfSeq DEF TypeOK, CacheType, Elements
<1>2. /\ \A t \in Elements(sessions) : session[t].path \in Paths
      /\ preambler.pc = "store" =>
           /\ session[preambler.session].path = preambler.path
           /\ \A t \in Elements(sessions) : session[t].path = preambler.path =>
                t = preambler.session \/ session[t].preamble = NoPreamble
      /\ diagnoser.pc = "check" =>
           /\ session[diagnoser.session].path = diagnoser.path
           /\ diagnoser.current => session[diagnoser.session].preamble = diagnoser.preamble
  BY DEF HeldSessions, Elements
<1> DEFINE Filed == \A t \in Elements(sessions') : session'[t].path \in Paths
           PreHeld == preambler'.pc = "store" =>
             /\ session'[preambler'.session].path = preambler'.path
             /\ \A t \in Elements(sessions') : session'[t].path = preambler'.path =>
                  t = preambler'.session \/ session'[t].preamble = NoPreamble
           DiagHeld == diagnoser'.pc = "check" =>
             /\ session'[diagnoser'.session].path = diagnoser'.path
             /\ diagnoser'.current => session'[diagnoser'.session].preamble = diagnoser'.preamble
<1>3. SUFFICES Filed /\ PreHeld /\ DiagHeld
  BY DEF HeldSessions, Elements
<1>4. Filed
  <2>1. CASE SessionsKept
    BY <1>2, <2>1 DEF SessionsKept
  <2>2. CASE PreambleStore
    BY <1>1, <1>2, <2>2, StoreChanges
  <2>3. CASE DiagRebuild
    BY <1>1, <1>2, <2>3, RebuildChanges
  <2>4. QED
    BY <2>1, <2>2, <2>3, NextSessions
<1>5. PreHeld
  <2>1. SUFFICES ASSUME preambler'.pc = "store" PROVE PreHeld
    OBVIOUS
  <2>2. CASE PreambleSession
    <3> DEFINE p == preambler.path
               s == SessionFor(p)
    <3>1. p \in Paths /\ EnsureSession(p) /\ preambler'.session = s /\ preambler'.path = p
      BY <2>2, ZenonT(30) DEF PreambleSession, Working, TypeOK, ThreadType
    <3>2. Ensured(p, s)
      BY <1>1, <3>1, EnsureSessionProperties
    <3> HIDE DEF s
    <3>3. session'[s].path = p
      BY <3>2 DEF Ensured
    <3>4. \A t \in Elements(sessions') : session'[t].path = p => t = s
      BY <1>1, <3>2 DEF Ensured
    <3>5. QED
      BY <3>1, <3>3, <3>4
  <2>3. CASE UNCHANGED preambler
    <3>1. preambler.pc = "store" /\ preambler.session \in Sessions
      BY <2>1, <2>3 DEF Working
    <3>2. CASE SessionsKept
      <4>1. session'[preambler.session] = session[preambler.session]
        BY <3>1, <3>2 DEF SessionsKept
      <4>2. \A t \in Elements(sessions') :
              \/ t \in Elements(sessions) /\ session'[t] = session[t]
              \/ session'[t].preamble = NoPreamble
        BY <3>2 DEF SessionsKept
      <4>3. QED
        BY <1>2, <2>3, <3>1, <4>1, <4>2
    <3>3. CASE DiagRebuild
      <4>1. /\ sessions' = sessions /\ diagnoser.session \in Sessions
            /\ \A t \in Sessions :
                 /\ session'[t].path = session[t].path
                 /\ session'[t] # session[t] => t = diagnoser.session /\ diagnoser.current
        BY <3>3, RebuildChanges
      <4>2. diagnoser.current => session[diagnoser.session].preamble # NoPreamble
        BY <1>2, <3>3 DEF DiagRebuild, Rebuild
      <4>3. QED
        BY <1>1, <1>2, <2>3, <3>1, <4>1, <4>2
    <3>4. CASE PreambleStore
      BY <2>1, <3>4 DEF PreambleStore, TypeOK, ThreadType
    <3>5. QED
      BY <3>2, <3>3, <3>4, NextSessions
  <2>4. preambler' = preambler \/ PreambleSession
    <3>1. CASE PreambleTake
      BY <2>1, <3>1 DEF PreambleTake, IdlePreambler
    <3>2. CASE PreambleStore \/ PreambleFail
      BY <2>1, <3>2 DEF PreambleStore, PreambleFail, TypeOK, ThreadType
    <3>3. CASE PreambleForward
      BY <2>1, <3>3 DEF PreambleForward, IdlePreambler
    <3>4. QED
      BY <3>1, <3>2, <3>3 DEF Next, vars, Client, Main, PreambleMain, threads,
         CompletionMain, DiagnosticMain, DidOpen, DidChange, DidSave, DidClose, Completion,
         Clear, OnView, Schedule, OnClose, CompTake, CompDrop, CompSession, CompRebuild,
         CompParse, CompReply, CompFail, DiagTake, DiagSession, DiagRebuild, DiagCheck,
         DiagRead, DiagPublish, DiagFail, Tick
  <2>5. QED
    BY <2>2, <2>3, <2>4
<1>6. DiagHeld
  <2>1. SUFFICES ASSUME diagnoser'.pc = "check" PROVE DiagHeld
    OBVIOUS
  <2>2. CASE DiagSession
    <3> DEFINE p == diagnoser.path
               s == SessionFor(p)
               b == PreambleFor(p)
    <3>1. /\ p \in Paths /\ EnsureSession(p)
          /\ diagnoser'.session = s /\ diagnoser'.path = p /\ diagnoser'.preamble = b
      BY <2>2 DEF DiagSession, Working, TypeOK, ThreadType
    <3>2. Ensured(p, s)
      BY <1>1, <3>1, EnsureSessionProperties
    <3>3. session'[s].path = p /\ session'[s].preamble = b
      BY <3>2 DEF Ensured
    <3> HIDE DEF s, b
    <3>4. QED
      BY <3>1, <3>3
  <2>3. CASE PreambleStore
    <3>1. /\ diagnoser'.pc = diagnoser.pc /\ diagnoser'.path = diagnoser.path
          /\ diagnoser'.session = diagnoser.session /\ diagnoser'.preamble = diagnoser.preamble
          /\ diagnoser'.current =>
               diagnoser.current /\ diagnoser.session # preambler.session
      BY <2>3 DEF PreambleStore, TypeOK, ThreadType
    <3>2. diagnoser.session \in Sessions
      BY <2>1, <3>1 DEF Working
    <3>3. \A t \in Sessions : /\ session'[t].path = session[t].path
                              /\ t # preambler.session => session'[t] = session[t]
      BY <2>3, StoreChanges
    <3>4. QED
      BY <1>2, <2>1, <3>1, <3>2, <3>3
  <2>4. CASE /\ diagnoser'.pc = diagnoser.pc /\ diagnoser'.path = diagnoser.path
             /\ diagnoser'.session = diagnoser.session
             /\ diagnoser'.preamble = diagnoser.preamble
             /\ diagnoser'.current = diagnoser.current
    <3>1. diagnoser.session \in Sessions
      BY <2>1, <2>4 DEF Working
    <3>2. CASE SessionsKept
      <4>1. session'[diagnoser.session] = session[diagnoser.session]
        BY <3>1, <3>2 DEF SessionsKept
      <4>2. QED
        BY <1>2, <2>1, <2>4, <4>1
    <3>3. CASE DiagRebuild
      BY <2>1, <3>3 DEF DiagRebuild, IdleDiagnoser
    <3>4. QED
      BY <2>3, <3>2, <3>3, NextSessions
  <2>5. CASE DiagnosticMain
    <3>1. CASE DiagTake
      BY <2>1, <3>1 DEF DiagTake, IdleDiagnoser
    <3>2. CASE DiagRebuild \/ DiagPublish \/ DiagFail
      <4>1. diagnoser' = IdleDiagnoser
        BY <3>2 DEF DiagRebuild, DiagPublish, DiagFail
      <4>2. QED
        BY <2>1, <4>1 DEF IdleDiagnoser
    <3>3. CASE DiagCheck \/ DiagRead
      <4>1. diagnoser'.pc = "read" \/ diagnoser'.pc = "parse"
        BY <3>3 DEF DiagCheck, DiagRead, TypeOK, ThreadType
      <4>2. QED
        BY <2>1, <4>1
    <3>4. QED
      BY <2>2, <2>5, <3>1, <3>2, <3>3 DEF DiagnosticMain
  <2>6. CASE Tick
    <3>1. /\ diagnoser'.pc = diagnoser.pc /\ diagnoser'.path = diagnoser.path
          /\ diagnoser'.session = diagnoser.session
          /\ diagnoser'.preamble = diagnoser.preamble
          /\ diagnoser'.current = diagnoser.current
      BY <2>6 DEF Tick, TypeOK, ThreadType
    <3>2. QED
      BY <2>4, <3>1
  <2>7. CASE UNCHANGED diagnoser
    BY <2>4, <2>7
  <2>8. QED
    BY <2>3, <2>5, <2>6, <2>7 DEF Next, vars, Client, Main, PreambleMain, threads,
       CompletionMain, DidOpen, DidChange, DidSave, DidClose, Completion, Clear, OnView,
       Schedule, OnClose, PreambleTake, PreambleSession, PreambleFail, PreambleForward,
       CompTake, CompDrop, CompSession, CompRebuild, CompParse, CompReply, CompFail
<1>7. QED
  BY <1>4, <1>5, <1>6

-----------------------------------------------------------------------------
(* The rebuilds that are still to come.                                     *)

Rebuilding(p) ==
  preambler.pc \in {"session", "store"} /\ preambler.path = p /\ preambler.from_diag

(* A step that only adds to the preamble queue keeps them.                  *)
LEMMA PushKeepsQueued ==
  ASSUME QueueType, OneDeque, NEW q \in Paths, NEW r \in Requests \cup {NoRequest},
         NEW b \in BOOLEAN, PushPreamble(q, r, b), NEW p
  PROVE  /\ RebuildQueued(p) => RebuildQueued(p)'
         /\ p = q /\ b => RebuildQueued(p)'
<1> DEFINE s == preamble_tasks.priority
           t == [path |-> q, comp |-> r, from_diag |-> b]
<1>1. s \in Seq(PreambleTask) /\ Len(s) \in Nat /\ DOMAIN s = 1 .. Len(s)
  BY LenProperties DEF QueueType, QueueOf
<1>2. preamble_tasks'.priority = Append(s, t)
  BY PushPreambleType
<1>3. t \in PreambleTask /\ t.path = q /\ t.from_diag = b
  BY DEF PreambleTask
<1> HIDE DEF t
<1>4. /\ DOMAIN Append(s, t) = 1 .. Len(s) + 1 /\ Append(s, t)[Len(s) + 1] = t
      /\ \A k \in 1 .. Len(s) : Append(s, t)[k] = s[k]
  BY <1>1, <1>3, AppendProperties, LenProperties
<1>5. ASSUME RebuildQueued(p) PROVE RebuildQueued(p)'
  <2>1. PICK k \in DOMAIN s : s[k].path = p /\ s[k].from_diag
    BY <1>5 DEF RebuildQueued
  <2>2. k \in DOMAIN Append(s, t) /\ Append(s, t)[k] = s[k]
    BY <1>1, <1>4
  <2>3. QED
    BY <1>2, <2>1, <2>2 DEF RebuildQueued
<1>6. ASSUME p = q, b PROVE RebuildQueued(p)'
  <2>1. Len(s) + 1 \in DOMAIN Append(s, t)
    BY <1>1, <1>4
  <2>2. QED
    BY <1>2, <1>3, <1>4, <1>6, <2>1 DEF RebuildQueued
<1>7. QED
  BY <1>5, <1>6

(* A rebuild that is asked for is queued until the preamble thread takes    *)
(* it, unless it is erased.                                                 *)
LEMMA NextQueued ==
  ASSUME TypeOK, Working, OneDeque, [Next]_vars, NEW p, RebuildQueued(p), p \notin excused'
  PROVE  \/ RebuildQueued(p)'
         \/ PreambleTake /\ Rebuilding(p)'
<1>1. QueueType
  BY DEF TypeOK
<1>2. CASE UNCHANGED preamble_tasks
  BY <1>2 DEF RebuildQueued
<1>3. CASE \E q \in Paths, r \in Requests \cup {NoRequest}, b \in BOOLEAN :
             PushPreamble(q, r, b)
  BY <1>1, <1>3, PushKeepsQueued
<1>4. CASE OnView \/ (\E q \in Paths : DidSave(q)) \/ DiagRebuild \/ CompRebuild
  <2>1. \/ UNCHANGED preamble_tasks
        \/ \E q \in Paths, r \in Requests \cup {NoRequest}, b \in BOOLEAN :
             PushPreamble(q, r, b)
    <3>1. CASE OnView
      BY <3>1 DEF OnView, Working
    <3>2. CASE \E q \in Paths : DidSave(q)
      BY <3>2 DEF DidSave
    <3>3. CASE DiagRebuild
      BY <3>3 DEF DiagRebuild, Working
    <3>4. CASE CompRebuild
      BY <3>4 DEF CompRebuild, Working
    <3>5. QED
      BY <1>4, <3>1, <3>2, <3>3, <3>4
  <2>2. QED
    BY <1>2, <1>3, <2>1
<1>5. CASE PreambleTake
  <2> DEFINE s == preamble_tasks.priority
             n == Len(s) - maxNum
             x == SubSeq(s, 1, n)
             y == LastOf(s, maxNum)
             t == Head(y)
  <2>1. maxNum \in Nat \ {0}
    BY StartsAssumption DEF TypeOK, ClientType
  <2>2. /\ preamble_tasks'.priority = Tail(y) /\ s # <<>> /\ s \in Seq(PreambleTask)
        /\ DequeueItem(preamble_tasks, maxNum) = t /\ t \in PreambleTask
    <3>1. /\ CanPop(preamble_tasks) /\ preamble_tasks \in QueueOf(PreambleTask)
          /\ preamble_tasks.queue = <<>>
          /\ preamble_tasks' = DequeueRest(preamble_tasks, maxNum)
      BY <1>1, <1>5 DEF PreambleTake, QueueType, OneDeque
    <3>2. QED
      BY <2>1, <3>1, DequeueTrimmed
  <2>3. /\ y \in Seq(PreambleTask) /\ y # <<>> /\ x \in Seq(PreambleTask) /\ s = x \o y
    BY <2>1, <2>2, LastOfProperties
  <2>4. PICK k \in DOMAIN s : s[k].path = p /\ s[k].from_diag
    BY DEF RebuildQueued
  <2>5. Len(s) \in Nat /\ DOMAIN s = 1 .. Len(s) /\ n \in Int /\ n <= Len(s)
    BY <2>1, <2>2, LenProperties
  <2>6. k \notin 1 .. n
    <3>1. excused' = excused \cup {u.path : u \in Erased}
      BY <1>5 DEF PreambleTake
    <3>2. ASSUME k \in 1 .. n PROVE s[k] \in Erased
      BY <3>2 DEF Erased
    <3>3. QED
      BY <2>4, <3>1, <3>2
  <2>7. DOMAIN x = 1 .. n
    BY <2>2, <2>5
  <2>8. /\ Len(x) \in Nat /\ DOMAIN x = 1 .. Len(x) /\ Len(y) \in Nat /\ DOMAIN y = 1 .. Len(y)
        /\ Len(s) = Len(x) + Len(y)
        /\ \A i \in Len(x) + 1 .. Len(x) + Len(y) : s[i] = y[i - Len(x)]
    <3> HIDE DEF x, y, s
    <3>1. QED
      BY <2>3, LenProperties, ConcatProperties
  <2>9. PICK j \in DOMAIN y : y[j] = s[k]
    <3> DEFINE j == k - Len(x)
    <3>1. k \in Len(x) + 1 .. Len(x) + Len(y)
      <4>1. k \notin 1 .. Len(x)
        BY <2>6, <2>7, <2>8
      <4> HIDE DEF x, y, s
      <4>2. QED
        BY <2>4, <2>5, <2>8, <4>1
    <3> HIDE DEF x, y, s
    <3>2. j \in DOMAIN y
      BY <2>8, <3>1
    <3>3. y[j] = s[k]
      BY <2>8, <3>1
    <3>4. QED
      BY <3>2, <3>3
  <2>10. CASE j = 1
    <3>1. preambler' = [IdlePreambler EXCEPT !.pc = "session", !.path = t.path,
                          !.comp = t.comp, !.from_diag = t.from_diag]
      BY <1>5, <2>2 DEF PreambleTake
    <3>2. t.path = p /\ t.from_diag
      BY <2>4, <2>9, <2>10
    <3> HIDE DEF t
    <3>3. preambler'.pc = "session" /\ preambler'.path = p /\ preambler'.from_diag
      BY <3>1, <3>2 DEF IdlePreambler
    <3>4. Rebuilding(p)'
      BY <3>3 DEF Rebuilding
    <3>5. QED
      BY <1>5, <3>4
  <2>11. CASE j # 1
    <3> HIDE DEF y, s
    <3>1. /\ Len(Tail(y)) = Len(y) - 1 /\ Tail(y) \in Seq(PreambleTask)
          /\ \A i \in 1 .. Len(Tail(y)) : Tail(y)[i] = y[i + 1]
      BY <2>3, HeadTailProperties
    <3>2. DOMAIN Tail(y) = 1 .. Len(y) - 1
      BY <3>1, LenProperties
    <3>3. j - 1 \in 1 .. Len(y) - 1 /\ (j - 1) + 1 = j
      BY <2>8, <2>9, <2>11
    <3>4. j - 1 \in DOMAIN Tail(y) /\ Tail(y)[j - 1] = y[j]
      BY <3>1, <3>2, <3>3
    <3>5. QED
      BY <2>2, <2>4, <2>9, <3>4 DEF RebuildQueued
  <2>12. QED
    BY <2>10, <2>11
<1>6. QED
  BY <1>2, <1>4, <1>5 DEF Next, vars, Client, Main, PreambleMain, CompletionMain,
     DiagnosticMain, DidOpen, DidChange, DidClose, Completion, Clear, Schedule, OnClose,
     PreambleSession, PreambleStore, PreambleFail, PreambleForward, CompTake, CompDrop,
     CompSession, CompParse, CompReply, CompFail, DiagTake, DiagSession, DiagCheck,
     DiagRead, DiagPublish, DiagFail, Tick

(* A rebuild that the preamble thread works on is done or fails.            *)
LEMMA NextRebuilding ==
  ASSUME TypeOK, [Next]_vars, NEW p, Rebuilding(p), p \notin excused'
  PROVE  Rebuilding(p)' \/ (PreambleStore /\ p = preambler.path)
<1>1. CASE UNCHANGED preambler
  BY <1>1 DEF Rebuilding
<1>2. CASE PreambleTake \/ PreambleForward
  BY <1>2 DEF PreambleTake, PreambleForward, Rebuilding
<1>3. CASE PreambleSession
  <2> DEFINE q == preambler.path
             s == SessionFor(q)
             b == Built(q, PreambleFor(q))
             c == Found(q) = {}
             started == [preambler EXCEPT !.session = s, !.created = c]
  <2>1. \/ preambler' = [started EXCEPT !.pc = "store", !.built = b]
        \/ ~preambler.from_diag
    BY <1>3 DEF PreambleSession
  <2> HIDE DEF s, b, c
  <2>2. /\ preambler'.pc = "store" /\ preambler'.path = preambler.path
        /\ preambler'.from_diag = preambler.from_diag
    BY <2>1, ZenonT(30) DEF Rebuilding, TypeOK, ThreadType
  <2>3. QED
    BY <2>2 DEF Rebuilding
<1>4. CASE PreambleStore
  BY <1>4 DEF Rebuilding
<1>5. CASE PreambleFail
  BY <1>5 DEF PreambleFail, Rebuilding
<1>6. QED
  BY <1>1, <1>2, <1>3, <1>4, <1>5 DEF Next, vars, Client, Main, PreambleMain, threads,
     CompletionMain, DiagnosticMain, DidOpen, DidChange, DidSave, DidClose, Completion, Clear,
     OnView, Schedule, OnClose, CompTake, CompDrop, CompSession, CompRebuild, CompParse,
     CompReply, CompFail, DiagTake, DiagSession, DiagRebuild, DiagCheck, DiagRead,
     DiagPublish, DiagFail, Tick

(* A file that is excused stays so.                                         *)
LEMMA NextExcused ==
  ASSUME [Next]_vars
  PROVE  excused \subseteq excused'
  BY DEF Next, vars, history, Client, Main, PreambleMain, CompletionMain, DiagnosticMain,
     DidOpen, DidChange, DidSave, DidClose, Completion, Clear, OnView, Schedule, OnClose,
     PreambleTake, PreambleSession, PreambleStore, PreambleFail, PreambleForward, CompTake,
     CompDrop, CompSession, CompRebuild, CompParse, CompReply, CompFail, DiagTake, DiagSession,
     DiagRebuild, DiagCheck, DiagRead, DiagPublish, DiagFail, Tick

-----------------------------------------------------------------------------
(* What was built, and what is in the cache.                                *)

(* While a preamble waits to be stored its headers may change: then their   *)
(* timestamps are newer than any that the preamble can get.                 *)
LEMMA NextBuilt ==
  ASSUME TypeOK, Working, OneDeque, InTime, HeldSessions, BuiltSeen, [Next]_vars
  PROVE  BuiltSeen'
<1>1. ClientType /\ CacheType /\ QueueType /\ BuffersStep /\ excused \subseteq excused'
  BY NextBuffers, NextExcused DEF TypeOK
<1>2. CASE preambler'.pc # "store"
  BY <1>2 DEF BuiltSeen
<1>3. CASE PreambleSession /\ preambler'.pc = "store"
  <2> DEFINE p == preambler.path
             b == Built(p, PreambleFor(p))
             started == [preambler EXCEPT !.session = SessionFor(p), !.created = Found(p) = {}]
  <2>1. /\ \/ preambler' = [started EXCEPT !.pc = "store", !.built = b]
           \/ preambler' = [started EXCEPT !.pc = "forward"]
        /\ UNCHANGED buffer
    BY <1>3 DEF PreambleSession, mainVars, clientVars
  <2>2. p \in Paths /\ Headers(p) \subseteq Paths
    BY <1>3, Facts DEF PreambleSession, Working
  <2>3. ASSUME NEW h \in Headers(p), buffer[h].open
        PROVE  /\ buffer[h].timestamp \in 1 .. b.seen[h] => b.text[h] = buffer[h].text
               /\ b.seen[h] = 0 => b.text[h] = buffer[h].text
    <3>1. /\ \/ b.seen[h] = 0 /\ b.text[h] = buffer[h].text
             \/ b.seen[h] = disk[h].mtime /\ b.text[h] = disk[h].text
          /\ disk[h].mtime \in Nat \ {0}
      BY <1>1, <2>2, <2>3, BuiltIs
    <3>2. buffer[h].timestamp \in 1 .. disk[h].mtime => disk[h].text = buffer[h].text
      BY <2>2, <2>3 DEF InTime
    <3> HIDE DEF b
    <3>3. QED
      BY <3>1, <3>2
  <2> HIDE DEF b
  <2>4. preambler'.built = b /\ preambler'.path = p
    BY <1>3, <2>1 DEF TypeOK, ThreadType
  <2>5. QED
    BY <2>1, <2>3, <2>4 DEF BuiltSeen
<1>4. CASE UNCHANGED preambler /\ preambler.pc = "store"
  <2> DEFINE b == preambler.built
             s == preambler.session
  <2>0. PICK p : p = preambler.path
    OBVIOUS
  <2>1. /\ p \in Paths /\ Headers(p) \subseteq Paths /\ s \in Sessions
        /\ session[s].path = p
    BY <1>4, <2>0, Facts DEF Working, HeldSessions
  <2>2. SUFFICES ASSUME NEW h \in Headers(p), buffer'[h].open
                 PROVE  /\ buffer'[h].timestamp \in 1 .. b.seen[h] => b.text[h] = buffer'[h].text
                        /\ b.seen[h] = 0 /\ buffer'[h].timestamp > 0 =>
                             \/ b.text[h] = buffer'[h].text
                             \/ \A g \in Paths :
                                  session'[s].preamble.seen[g] < buffer'[h].timestamp
                             \/ RebuildQueued(p)' \/ p \in excused'
    <3>1. preambler' = preambler
      BY <1>4
    <3>2. QED
      BY <2>0, <2>2, <3>1 DEF BuiltSeen, RebuildQueued
  <2>3. /\ h \in Paths /\ b.seen[h] \in Nat /\ b.seen[h] <= clock
        /\ \A g \in Paths :
             session[s].preamble.seen[g] \in Nat /\ session[s].preamble.seen[g] <= clock
    <3>1. h \in Paths
      BY <2>1
    <3>2. b \in PreambleSet /\ session[s].preamble \in PreambleSet
      BY <2>1 DEF TypeOK, ThreadType, CacheType
    <3> HIDE DEF b, s
    <3>3. b.seen[h] \in Nat /\ \A g \in Paths : session[s].preamble.seen[g] \in Nat
      BY <3>1, <3>2 DEF PreambleSet
    <3>4. QED
      BY <2>1, <3>1, <3>3 DEF InTime, b
  <2>4. ~PreambleStore
    BY <1>4 DEF PreambleStore, TypeOK, ThreadType
  <2>5. session'[s] = session[s] \/ RebuildQueued(p)'
    <3>1. CASE SessionsKept
      BY <2>1, <3>1 DEF SessionsKept
    <3>2. CASE DiagRebuild
      <4>1. session'[s] # session[s] => s = diagnoser.session
        BY <2>1, <3>2, RebuildChanges
      <4>2. session[diagnoser.session].path = diagnoser.path /\ diagnoser.path \in Paths
        BY <3>2 DEF HeldSessions, DiagRebuild, Working
      <4>3. PushPreamble(diagnoser.path, NoRequest, TRUE)
        BY <3>2 DEF DiagRebuild
      <4>4. p = diagnoser.path => RebuildQueued(p)'
        BY <1>1, <4>2, <4>3, PushKeepsQueued
      <4>5. QED
        BY <2>1, <4>1, <4>2, <4>4
    <3>3. QED
      BY <2>4, <3>1, <3>2, NextSessions
  <2>6. RebuildQueued(p) => RebuildQueued(p)' \/ p \in excused'
    <3>1. ~PreambleTake
      BY <1>4 DEF PreambleTake
    <3>2. QED
      BY <3>1, NextQueued
  <2>7. CASE buffer'[h] = buffer[h]
    <3>1. /\ buffer[h].timestamp \in 1 .. b.seen[h] => b.text[h] = buffer[h].text
          /\ b.seen[h] = 0 /\ buffer[h].timestamp > 0 =>
               \/ b.text[h] = buffer[h].text
               \/ \A g \in Paths : session[s].preamble.seen[g] < buffer[h].timestamp
               \/ RebuildQueued(p) \/ p \in excused
      BY <1>4, <2>0, <2>2, <2>7 DEF BuiltSeen
    <3> HIDE DEF b, s
    <3>2. QED
      BY <1>1, <2>5, <2>6, <2>7, <3>1
  <2>8. CASE buffer'[h] # buffer[h]
    <3>1. buffer'[h].timestamp = 0 \/ buffer'[h].timestamp = clock + 1
      BY <1>1, <2>3, <2>8 DEF BuffersStep
    <3>2. clock \in Nat
      BY <1>1 DEF BuffersStep
    <3> DEFINE ts == buffer'[h].timestamp
               c == clock
    <3>3. ts = 0 \/ ts = c + 1
      BY <3>1
    <3> HIDE DEF ts, b, s
    <3>4. ts \notin 1 .. b.seen[h]
      BY <2>3, <3>2, <3>3
    <3>5. ts > 0 => \A g \in Paths : session[s].preamble.seen[g] < ts
      BY <2>3, <3>2, <3>3
    <3>6. QED
      BY <2>5, <3>4, <3>5 DEF ts
  <2>9. QED
    BY <2>7, <2>8
<1>5. QED
  <2>1. UNCHANGED preambler \/ PreambleSession \/ preambler'.pc # "store"
    <3>1. CASE PreambleTake
      BY <3>1 DEF PreambleTake, IdlePreambler
    <3>2. CASE PreambleStore \/ PreambleFail
      BY <3>2 DEF PreambleStore, PreambleFail, TypeOK, ThreadType
    <3>3. CASE PreambleForward
      BY <3>3 DEF PreambleForward, IdlePreambler
    <3>4. QED
      BY <3>1, <3>2, <3>3 DEF Next, vars, Client, Main, PreambleMain, threads,
         CompletionMain, DiagnosticMain, DidOpen, DidChange, DidSave, DidClose, Completion,
         Clear, OnView, Schedule, OnClose, CompTake, CompDrop, CompSession, CompRebuild,
         CompParse, CompReply, CompFail, DiagTake, DiagSession, DiagRebuild, DiagCheck,
         DiagRead, DiagPublish, DiagFail, Tick
  <2>2. QED
    BY <1>2, <1>3, <1>4, <2>1

(* A preamble that counts as up to date is, or is about to be rebuilt.      *)
LEMMA NextHeader ==
  ASSUME TypeOK, Working, OneDeque, InTime, HeldSessions, BuiltSeen, HeaderSeen, [Next]_vars,
         CacheType', HeldSessions'
  PROVE  HeaderSeen'
<1>1. /\ BuffersStep /\ excused \subseteq excused' /\ QueueType
      /\ Elements(sessions) \subseteq Sessions /\ Elements(sessions') \subseteq Sessions
      /\ \A t \in Elements(sessions') : session'[t].path \in Paths
  <2>1. BuffersStep /\ excused \subseteq excused' /\ QueueType
    BY NextBuffers, NextExcused DEF TypeOK
  <2>2. Elements(sessions) \subseteq Sessions /\ Elements(sessions') \subseteq Sessions
    BY LenProperties, ElementOfSeq DEF TypeOK, CacheType, Elements
  <2>3. \A t \in Elements(sessions') : session'[t].path \in Paths
    BY DEF HeldSessions, Elements
  <2>4. QED
    BY <2>1, <2>2, <2>3
<1>2. \A p : RebuildPending(p) <=> RebuildQueued(p) \/ Rebuilding(p)
  BY DEF RebuildPending, RebuildQueued, Rebuilding
<1>3. \A p : RebuildPending(p)' <=> RebuildQueued(p)' \/ Rebuilding(p)'
  BY DEF RebuildPending, RebuildQueued, Rebuilding
<1>4. \A t \in Elements(sessions) : \A h \in Headers(session[t].path) :
        /\ session[t].preamble # NoPreamble /\ session[t].path \notin excused
        /\ ~RebuildPending(session[t].path)
        /\ buffer[h].open /\ buffer[h].timestamp \in 1 .. session[t].preamble.seen[h]
        => session[t].preamble.text[h] = buffer[h].text
  BY DEF HeaderSeen, Elements
<1>5. SUFFICES ASSUME NEW t \in Elements(sessions'), NEW p \in Paths, session'[t].path = p,
                      NEW b, session'[t].preamble = b, b # NoPreamble,
                      p \notin excused', ~RebuildPending(p)', NEW h \in Headers(p),
                      buffer'[h].open, buffer'[h].timestamp \in 1 .. b.seen[h]
               PROVE  b.text[h] = buffer'[h].text
  <2>1. SUFFICES ASSUME NEW k \in DOMAIN sessions',
                        session'[sessions'[k]].preamble # NoPreamble,
                        session'[sessions'[k]].path \notin excused',
                        NEW p, p = session'[sessions'[k]].path, ~RebuildPending(p)',
                        NEW h \in Headers(p), buffer'[h].open,
                        buffer'[h].timestamp \in 1 .. session'[sessions'[k]].preamble.seen[h]
                 PROVE  session'[sessions'[k]].preamble.text[h] = buffer'[h].text
    BY DEF HeaderSeen, RebuildPending
  <2>2. sessions'[k] \in Elements(sessions')
    BY DEF Elements
  <2>3. QED
    BY <1>1, <1>5, <2>1, <2>2
<1>6. h \in Paths /\ t \in Sessions
  BY <1>1, <1>5, Facts
<1>7. ~RebuildQueued(p)' /\ ~Rebuilding(p)'
  BY <1>3, <1>5
<1>8. /\ RebuildQueued(p) => FALSE
      /\ Rebuilding(p) => PreambleStore /\ p = preambler.path
  BY <1>5, <1>7, NextQueued, NextRebuilding
<1>9. p \notin excused
  BY <1>1, <1>5
<1>10. CASE /\ t \in Elements(sessions) /\ session'[t] = session[t]
            /\ ~(PreambleStore /\ p = preambler.path)
  <2>1. ~RebuildPending(p)
    BY <1>2, <1>8, <1>10
  <2>2. session[t].path = p /\ session[t].preamble = b
    BY <1>5, <1>10
  <2>3. CASE buffer'[h] = buffer[h]
    BY <1>4, <1>5, <1>9, <1>10, <2>1, <2>2, <2>3
  <2>4. CASE buffer'[h] # buffer[h]
    <3>1. buffer'[h].timestamp = 0 \/ buffer'[h].timestamp = clock + 1
      BY <1>1, <1>6, <2>4 DEF BuffersStep
    <3>2. clock \in Nat
      BY <1>1 DEF BuffersStep
    <3>3. b.seen[h] <= clock /\ b.seen[h] \in Nat
      <4>1. session[t].preamble \in PreambleSet
        BY <1>6 DEF TypeOK, CacheType
      <4>2. b.seen[h] \in Nat
        BY <1>6, <2>2, <4>1 DEF PreambleSet
      <4>3. b.seen[h] <= clock
        BY <1>6, <2>2 DEF InTime
      <4>4. QED
        BY <4>2, <4>3
    <3>4. QED
      BY <1>5, <3>1, <3>2, <3>3
  <2>5. QED
    BY <2>3, <2>4
<1>11. CASE SessionsKept /\ ~PreambleStore
  <2>1. t \in Elements(sessions) /\ session'[t] = session[t]
    BY <1>5, <1>11 DEF SessionsKept
  <2>2. QED
    BY <1>10, <1>11, <2>1
<1>12. CASE DiagRebuild
  <2>1. /\ sessions' = sessions /\ session'[t].path = session[t].path
        /\ session'[t] # session[t] => t = diagnoser.session
    BY <1>6, <1>12, RebuildChanges
  <2>2. session[diagnoser.session].path = diagnoser.path /\ diagnoser.path \in Paths
    BY <1>12 DEF HeldSessions, DiagRebuild, Working
  <2>3. PushPreamble(diagnoser.path, NoRequest, TRUE)
    BY <1>12 DEF DiagRebuild
  <2>4. p # diagnoser.path
    BY <1>1, <1>7, <2>2, <2>3, PushKeepsQueued
  <2>5. session'[t] = session[t]
    BY <1>5, <2>1, <2>2, <2>4
  <2>6. ~PreambleStore
    BY <1>12 DEF DiagRebuild, PreambleStore, TypeOK, ThreadType
  <2>7. QED
    BY <1>10, <2>1, <2>5, <2>6
<1>13. CASE PreambleStore
  <2> DEFINE s == preambler.session
             built == preambler.built
             old == session[s].preamble
             new == MergeSeen(built, old)
  <2>1. /\ sessions' = sessions /\ s \in Sessions /\ session'[t].path = session[t].path
        /\ t # s => session'[t] = session[t]
        /\ session'[s].preamble = new /\ session'[s].path = session[s].path
        /\ built \in PreambleSet /\ preambler.path \in Paths
        /\ built.includes = Includes[preambler.path] /\ old \in PreambleSet
    BY <1>6, <1>13, StoreChanges
  <2>2. /\ preambler.pc = "store" /\ session[s].path = preambler.path
        /\ \A k \in DOMAIN sessions : session[sessions[k]].path = preambler.path =>
             sessions[k] = s \/ session[sessions[k]].preamble = NoPreamble
    BY <1>13 DEF PreambleStore, HeldSessions
  <2>3. CASE t # s
    <3>1. t \in Elements(sessions) /\ session[t].path = p /\ session[t].preamble = b
      BY <1>5, <2>1, <2>3
    <3>2. p # preambler.path
      BY <1>5, <2>2, <2>3, <3>1 DEF Elements
    <3>3. QED
      BY <1>10, <2>1, <2>3, <3>1, <3>2
  <2>4. CASE t = s
    <3>1. p = preambler.path /\ b = new
      BY <1>5, <2>1, <2>2, <2>4
    <3>2. buffer' = buffer
      BY <1>13 DEF PreambleStore, mainVars, clientVars
    <3>3. /\ buffer[h].timestamp \in 1 .. built.seen[h] => built.text[h] = buffer[h].text
          /\ built.seen[h] = 0 /\ buffer[h].timestamp > 0 =>
               \/ built.text[h] = buffer[h].text
               \/ \A g \in Paths : old.seen[g] < buffer[h].timestamp
               \/ RebuildQueued(p) \/ p \in excused
      BY <1>5, <2>2, <3>1, <3>2 DEF BuiltSeen
    <3> DEFINE ts == buffer[h].timestamp
    <3>4. /\ ts \in Nat /\ ts \in 1 .. new.seen[h] /\ b.text = new.text
          /\ built.seen[h] \in Nat /\ \A g \in Paths : old.seen[g] \in Nat
      <4>1. ts \in Nat
        BY <1>1, <1>6 DEF BuffersStep
      <4>2. ts \in 1 .. new.seen[h] /\ b.text = new.text
        BY <1>5, <3>1, <3>2
      <4> HIDE DEF built, old
      <4>3. built.seen[h] \in Nat /\ \A g \in Paths : old.seen[g] \in Nat
        BY <1>6, <2>1 DEF PreambleSet
      <4>4. QED
        BY <4>1, <4>2, <4>3
    <3> HIDE DEF built, old, s
    <3>5. /\ new.text = built.text
          /\ \/ new.seen[h] = built.seen[h]
             \/ built.seen[h] = 0 /\ \E g \in Paths : new.seen[h] = old.seen[g]
      BY <1>6, <2>1, MergeSeenIs
    <3> HIDE DEF new
    <3>6. built.text[h] = buffer[h].text
      <4>1. CASE new.seen[h] = built.seen[h]
        BY <3>3, <3>4, <4>1
      <4>2. CASE built.seen[h] = 0 /\ \E g \in Paths : new.seen[h] = old.seen[g]
        <5>1. PICK g \in Paths : new.seen[h] = old.seen[g]
          BY <4>2
        <5>2. old.seen[g] \in Nat /\ ts \in 1 .. old.seen[g]
          BY <3>4, <5>1
        <5>3. ts > 0 /\ ~(old.seen[g] < ts)
          BY <3>4, <5>2
        <5>4. QED
          BY <1>8, <1>9, <3>3, <4>2, <5>3
      <4>3. QED
        BY <3>5, <4>1, <4>2
    <3>7. QED
      BY <3>2, <3>4, <3>5, <3>6
  <2>5. QED
    BY <2>3, <2>4
<1>14. QED
  BY <1>11, <1>12, <1>13, NextSessions

-----------------------------------------------------------------------------
(* The inductive invariant.                                                 *)

Inv ==
  /\ TypeOK /\ InBudget /\ Working /\ OneDeque
  /\ InTime /\ HeldSessions /\ BuiltSeen
  /\ OneOwner /\ DebounceCovered /\ HeaderSeen

(* The files that are open at first have the sessions 1, 2, ... in the      *)
(* cache, and nobody has anything to do.                                    *)
LEMMA InitInv ==
  ASSUME Init
  PROVE  Inv
<1> USE Facts
<1> DEFINE opened(start) == {start.opened[k] : k \in DOMAIN start.opened}
           first(p) == [bounds   |-> BoundsOf[1],
                        includes |-> Includes[p],
                        seen     |-> [h \in Paths |-> IF h \in Headers(p) THEN 1 ELSE 0],
                        text     |-> [h \in Paths |-> IF h \in Headers(p) THEN 1 ELSE NoText]]
<1>1. PICK start \in Starts :
        /\ maxNum = start.maxNum
        /\ budget = [messages |-> start.messages, failures |-> start.failures]
        /\ buffer = [p \in Paths |-> [open |-> p \in opened(start), timestamp |-> 0,
                                      text |-> IF p \in opened(start) THEN 1 ELSE NoText]]
        /\ sessions = [k \in DOMAIN start.opened |-> k]
        /\ session = [s \in Sessions |->
             IF s \in DOMAIN start.opened
             THEN [path |-> start.opened[s], preamble |-> first(start.opened[s])]
             ELSE [path |-> NoPath, preamble |-> NoPreamble]]
        /\ published = [p \in Paths |-> IF p \in opened(start) THEN [text |-> 1, fits |-> TRUE]
                                        ELSE Unpublished]
  BY Zenon DEF Init
<1>2. /\ clock = 1 /\ disk = [p \in Paths |-> [text |-> 1, mtime |-> 1]]
      /\ sent = NoRequest /\ main = IdleMain /\ next_diag = [p \in Paths |-> 0]
      /\ comp_tasks = EmptyQueue /\ diag_tasks = EmptyQueue /\ preamble_tasks = EmptyQueue
      /\ preambler = IdlePreambler /\ completer = IdleCompleter /\ diagnoser = IdleDiagnoser
      /\ replies = [r \in Requests |-> 0]
      /\ dropped = {} /\ lost = {} /\ excused = {}
  BY DEF Init
<1> DEFINE files == start.opened
           n == Len(files)
<1>3. /\ start.maxNum \in Nat \ {0} /\ start.messages \in 0 .. MaxMessages
      /\ start.failures \in Nat /\ files \in Seq(Paths) /\ n <= start.maxNum
      /\ \A k, l \in DOMAIN files : files[k] = files[l] => k = l
      /\ n \in Nat /\ DOMAIN files = 1 .. n /\ \A k \in 1 .. n : files[k] \in Paths
      /\ 1 .. start.maxNum + 3 \subseteq Sessions
  BY StartsAssumption, LenProperties, ElementOfSeq DEF Sessions
<1>4. ClientType /\ InBudget
  <2>1. ASSUME NEW p \in Paths
        PROVE  /\ buffer[p] \in [open: BOOLEAN, text: Texts \cup {NoText},
                                 timestamp: Texts \cup {0}]
               /\ buffer[p].open => buffer[p].text \in Texts
    <3> DEFINE o == p \in opened(start)
    <3>1. /\ buffer[p] = [open |-> o, timestamp |-> 0, text |-> IF o THEN 1 ELSE NoText]
          /\ o \in BOOLEAN
      BY <1>1
    <3> HIDE DEF o
    <3>2. QED
      BY <3>1
  <2>2. buffer \in [Paths -> [open: BOOLEAN, text: Texts \cup {NoText},
                              timestamp: Texts \cup {0}]]
    BY <1>1, <2>1
  <2>3. disk \in [Paths -> [text: Texts, mtime: Texts]]
    BY <1>2
  <2>4. /\ budget \in [messages: 0 .. MaxMessages, failures: Nat]
        /\ budget.messages \in 0 .. MaxMessages
    BY <1>1, <1>3
  <2>5. ClientType
    BY <1>1, <1>2, <2>2, <2>3, <2>4 DEF ClientType
  <2>6. QED
    BY <1>2, <2>1, <2>4, <2>5 DEF InBudget
<1>5. /\ \A k \in 1 .. n : /\ k \in Sessions /\ session[k].path = files[k]
                           /\ first(files[k]) \in PreambleSet
      /\ session \in [Sessions -> SessionRecord]
  <2>1. \A k \in 1 .. n : k \in Sessions
    <3> DEFINE m == start.maxNum
    <3>1. m \in Nat /\ n \in Nat /\ n <= m /\ 1 .. m + 3 \subseteq Sessions
      BY <1>3
    <3> HIDE DEF m, n
    <3>2. QED
      BY <3>1
  <2>2. \A p \in Paths : first(p) \in PreambleSet
    <3>1. BoundsOf[1] \in Int
      BY BoundsAssumption
    <3>2. QED
      BY <3>1 DEF PreambleSet
  <2> HIDE DEF first
  <2>3. \A s \in Sessions : session[s] \in SessionRecord
    BY <1>1, <1>3, <2>2 DEF SessionRecord
  <2>4. QED
    BY <1>1, <1>3, <2>1, <2>2, <2>3
<1>6. sessions \in Seq(Sessions) /\ Len(sessions) = n /\ DOMAIN sessions = 1 .. n
      /\ \A k \in 1 .. n : sessions[k] = k
  <2>1. sessions \in [1 .. n -> Sessions]
    BY <1>1, <1>3, <1>5
  <2>2. sessions \in Seq(Sessions) /\ Len(sessions) = n
    BY <1>3, <2>1, FunctionIsSeq
  <2>3. QED
    BY <1>1, <1>3, <2>2
<1>7. CacheType
  <2>1. Len(sessions) <= maxNum
    BY <1>1, <1>3, <1>6
  <2>2. \A k, l \in 1 .. n : session[k].path = session[l].path => k = l
    BY <1>3, <1>5, ZenonT(30)
  <2> HIDE DEF n, files
  <2>3. \A k, l \in DOMAIN sessions :
          session[sessions[k]].path = session[sessions[l]].path => k = l
    BY <1>6, <2>2
  <2>4. QED
    BY <1>5, <1>6, <2>1, <2>3 DEF CacheType, SessionRecord
<1>8. QueueType /\ OneDeque
  BY <1>2, EmptyQueueProperties DEF QueueType, OneDeque, EmptyQueue
<1>9. ThreadType /\ Working
  BY <1>2 DEF ThreadType, Working, IdleMain, IdlePreambler, IdleCompleter, IdleDiagnoser
<1>10. HistoryType
  <2>1. \A p \in Paths : published[p] \in [text: Texts \cup {NoText}, fits: BOOLEAN]
    BY <1>1 DEF Unpublished
  <2>2. QED
    BY <1>1, <1>2, <2>1 DEF HistoryType
<1>11. \A s \in Sessions, h \in Paths : session[s].preamble.seen[h] <= 1
  <2>1. \A p, h \in Paths : first(p).seen[h] <= 1
    OBVIOUS
  <2>2. \A h \in Paths : NoPreamble.seen[h] <= 1
    OBVIOUS
  <2> HIDE DEF first
  <2>3. QED
    BY <1>1, <1>3, <2>1, <2>2
<1>12. InTime
  <2>1. \A h \in Paths : preambler.built.seen[h] <= 1
    BY <1>2 DEF IdlePreambler
  <2>2. \A h \in Paths : buffer[h].timestamp = 0 /\ disk[h].mtime = 1
    BY <1>1, <1>2
  <2>3. QED
    BY <1>2, <1>11, <2>1, <2>2 DEF InTime
<1>13. HeldSessions /\ BuiltSeen
  BY <1>2, <1>3, <1>5, <1>6
     DEF HeldSessions, BuiltSeen, IdlePreambler, IdleDiagnoser
<1>14. HeaderSeen
  <2>1. \A k \in DOMAIN sessions : session[sessions[k]].path \in Paths
    BY <1>3, <1>5, <1>6
  <2>2. \A h \in Paths : buffer[h].timestamp = 0
    BY <1>1
  <2>3. QED
    BY <2>1, <2>2 DEF HeaderSeen
<1>15. DebounceCovered
  BY <1>2 DEF DebounceCovered
<1>16. OneOwner
  <2>1. SUFFICES ASSUME NEW r \in Requests
                 PROVE  Holders(r) + replies[r] + Cardinality({r} \cap lost) =
                          IF r <= sent THEN 1 ELSE 0
    BY DEF OneOwner
  <2>2. completer.id # r /\ preambler.comp # r /\ replies[r] = 0 /\ ~(r <= sent)
    BY <1>2 DEF IdleCompleter, IdlePreambler
  <2>3. comp_tasks.queue = <<>> /\ preamble_tasks.priority = <<>> /\ r \notin lost
    BY <1>2 DEF EmptyQueue
  <2>4. /\ {k \in DOMAIN comp_tasks.queue : comp_tasks.queue[k].id = r} = {}
        /\ {k \in DOMAIN preamble_tasks.priority :
              preamble_tasks.priority[k].comp = r} = {}
        /\ {t \in {1} : completer.id = r} = {} /\ {t \in {1} : preambler.comp = r} = {}
        /\ {r} \cap lost = {}
    BY <2>2, <2>3
  <2>5. Cardinality({}) = 0
    BY FS_EmptySet
  <2>6. Holders(r) = 0 + 0 + 0 + 0 /\ Cardinality({r} \cap lost) = 0
    BY <2>4, <2>5, Zenon DEF Holders
  <2>7. QED
    BY <2>2, <2>6
<1>17. QED
  BY <1>4, <1>7, <1>8, <1>9, <1>10, <1>12, <1>13, <1>14, <1>15, <1>16 DEF Inv, TypeOK

(* Every step keeps the invariant.                                          *)
LEMMA NextInv ==
  ASSUME Inv, [Next]_vars
  PROVE  Inv'
<1>1. /\ TypeOK /\ InBudget /\ Working /\ OneDeque /\ InTime /\ HeldSessions /\ BuiltSeen
      /\ OneOwner /\ DebounceCovered /\ HeaderSeen
  BY DEF Inv
<1>2. ClientType' /\ InBudget'
  BY <1>1, NextClient
<1>3. CacheType'
  BY <1>1, NextCache
<1>4. QueueType' /\ OneDeque'
  BY <1>1, NextQueues
<1>5. ThreadType' /\ Working'
  BY <1>1, NextThreads
<1>6. HistoryType'
  BY <1>1, NextHistory
<1>7. InTime'
  BY <1>1, NextTime
<1>8. HeldSessions'
  BY <1>1, <1>3, <1>5, NextHeld
<1>9. BuiltSeen'
  BY <1>1, NextBuilt
<1>10. HeaderSeen'
  BY <1>1, <1>3, <1>8, NextHeader
<1>11. DebounceCovered'
  BY <1>1, NextDebounce
<1>12. OneOwner'
  BY <1>1, <1>4, <1>6, NextOwner
<1>13. QED
  BY <1>2, <1>3, <1>4, <1>5, <1>6, <1>7, <1>8, <1>9, <1>10, <1>11, <1>12 DEF Inv, TypeOK

(* So it always holds.                                                      *)
LEMMA Invariance ==
  Spec => []Inv
<1>1. Init => Inv
  BY InitInv
<1>2. Inv /\ [Next]_vars => Inv'
  BY NextInv
<1>3. QED
  BY <1>1, <1>2, PTL DEF Spec

-----------------------------------------------------------------------------
(* However the three threads and the main thread come between each other,   *)
(* the LRU cache holds at most session.maxNum sessions, of different files. *)
THEOREM CacheBounded ==
  Spec => []TypeOK
<1>1. Inv => TypeOK
  BY DEF Inv
<1>2. QED
  BY <1>1, Invariance, PTL

(* A completion request is held by one thread or queue until it is answered *)
(* and never afterwards: it is answered at most once, and one that is not   *)
(* was erased from the preamble queue or clang failed on it.                *)
THEOREM RequestHasOneOwner ==
  Spec => []OneOwner
<1>1. Inv => OneOwner
  BY DEF Inv
<1>2. QED
  BY <1>1, Invariance, PTL

(* A change that scheduleDiag does not schedule, because it is within the   *)
(* debounce time of its file, is covered by a task that still waits.        *)
THEOREM DebounceLosesNothing ==
  Spec => []DebounceCovered
<1>1. Inv => DebounceCovered
  BY DEF Inv
<1>2. QED
  BY <1>1, Invariance, PTL

(* Marking a header as seen before the preamble is rebuilt loses no change  *)
(* of it: a preamble that counts as up to date with the header's buffer     *)
(* contains its text, or is about to be rebuilt, unless that rebuild was    *)
(* erased from the queue or failed.                                         *)
THEOREM SeenHeadersCurrent ==
  Spec => []HeaderSeen
<1>1. Inv => HeaderSeen
  BY DEF Inv
<1>2. QED
  BY <1>1, Invariance, PTL
=============================================================================
