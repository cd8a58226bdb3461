------------------------------ MODULE Counting ------------------------------
(***************************************************************************)
(* Counting, for the proofs: how a cardinality changes when the membership *)
(* of one element does, how often members of a set occur in a sequence,    *)
(* and what the operations of ThreadedQueue do to those numbers.  A thread *)
(* or a message that is counted exactly once wherever it is can neither be *)
(* lost nor be doubled.                                                    *)
(***************************************************************************)
EXTENDS ThreadedQueue, FiniteSets, FiniteSetTheorems, FunctionTheorems,
        SequenceTheorems, TLAPS

(* A Boolean as a number. *)
Bit(b) == IF b THEN 1 ELSE 0

(* The positions of s that hold a member of S, and how many there are. *)
At(s, S) == {k \in DOMAIN s : s[k] \in S}
Count(s, S) == Cardinality(At(s, S))

-----------------------------------------------------------------------------
(* Changing the membership of one element changes a cardinality by the      *)
(* difference.                                                              *)
LEMMA CardinalityChange ==
  ASSUME NEW S, NEW T, NEW x, IsFiniteSet(S), IsFiniteSet(T), S \ {x} = T \ {x}
  PROVE  /\ Cardinality(T) = Cardinality(S) - Bit(x \in S) + Bit(x \in T)
         /\ Cardinality(S) \in Nat /\ Cardinality(T) \in Nat
         /\ Cardinality(S) >= Bit(x \in S)
<1>1. ASSUME NEW U, IsFiniteSet(U)
      PROVE  /\ Cardinality(U) = Cardinality(U \ {x}) + Bit(x \in U)
             /\ Cardinality(U \ {x}) \in Nat
  <2>1. /\ IsFiniteSet(U \ {x})
        /\ Cardinality(U \ {x}) =
             IF x \in U THEN Cardinality(U) - 1 ELSE Cardinality(U)
    BY <1>1, FS_RemoveElement, Zenon
  <2>2. Cardinality(U) \in Nat /\ Cardinality(U \ {x}) \in Nat
    BY <1>1, <2>1, FS_CardinalityType, Zenon
  <2>3. QED
    BY <2>1, <2>2 DEF Bit
<1>2. /\ Cardinality(S) = Cardinality(S \ {x}) + Bit(x \in S)
      /\ Cardinality(S \ {x}) \in Nat
      /\ Cardinality(T) = Cardinality(T \ {x}) + Bit(x \in T)
  BY <1>1, Zenon
<1>3. Cardinality(S \ {x}) = Cardinality(T \ {x})
  BY Zenon
<1>4. Bit(x \in S) \in {0, 1} /\ Bit(x \in T) \in {0, 1}
  BY DEF Bit
<1>5. QED
  BY <1>2, <1>3, <1>4

-----------------------------------------------------------------------------
(* Counts are natural numbers; a count is zero when there is no such        *)
(* position.                                                                *)
LEMMA CountType ==
  ASSUME NEW T, NEW s \in Seq(T), NEW S
  PROVE  /\ IsFiniteSet(At(s, S)) /\ Count(s, S) \in Nat
         /\ Count(s, S) = 0 <=> \A k \in DOMAIN s : s[k] \notin S
<1>1. IsFiniteSet(DOMAIN s)
  <2>1. DOMAIN s = 1 .. Len(s) /\ Len(s) \in Nat
    BY LenProperties
  <2>2. QED
    BY <2>1, FS_Interval
<1>2. IsFiniteSet(At(s, S))
  BY <1>1, FS_Subset DEF At
<1>3. Count(s, S) \in Nat
  BY <1>2, FS_CardinalityType DEF Count
<1>4. Count(s, S) = 0 <=> At(s, S) = {}
  BY <1>2, FS_EmptySet DEF Count
<1>5. QED
  BY <1>2, <1>3, <1>4 DEF At

(* Nothing occurs in the empty sequence.                                    *)
LEMMA CountEmpty ==
  ASSUME NEW S
  PROVE  Count(<<>>, S) = 0
<1>1. At(<<>>, S) = {}
  BY DEF At
<1>2. QED
  BY <1>1, FS_EmptySet, Zenon DEF Count

(* Concatenation adds.                                                      *)
LEMMA CountConcat ==
  ASSUME NEW T, NEW s \in Seq(T), NEW t \in Seq(T), NEW S
  PROVE  Count(s \o t, S) = Count(s, S) + Count(t, S)
<1> DEFINE n == Len(s)
           U == {k \in n + 1 .. n + Len(t) : t[k - n] \in S}
<1>1. /\ n \in Nat /\ Len(t) \in Nat /\ DOMAIN s = 1 .. n /\ DOMAIN t = 1 .. Len(t)
      /\ DOMAIN (s \o t) = 1 .. n + Len(t)
      /\ \A k \in 1 .. n : (s \o t)[k] = s[k]
      /\ \A k \in n + 1 .. n + Len(t) : (s \o t)[k] = t[k - n]
  BY ConcatProperties, LenProperties
<1>2. IsFiniteSet(At(s, S)) /\ IsFiniteSet(At(t, S))
  BY CountType
<1>3. IsFiniteSet(U) /\ Cardinality(U) = Count(t, S)
  <2> DEFINE shift == [k \in At(t, S) |-> k + n]
  <2>1. shift \in Bijection(At(t, S), U)
    <3>1. shift \in [At(t, S) -> U]
      BY <1>1 DEF At
    <3>2. \A j, k \in At(t, S) : shift[j] = shift[k] => j = k
      BY <1>1 DEF At
    <3>3. \A k \in U : k - n \in At(t, S) /\ shift[k - n] = k
      BY <1>1 DEF At
    <3>4. \A k \in U : \E j \in At(t, S) : shift[j] = k
      BY <3>3
    <3> HIDE DEF shift, U
    <3>5. QED
      BY <3>1, <3>2, <3>4 DEF Bijection, Injection, Surjection, IsInjective
  <2>2. ExistsBijection(At(t, S), U)
    BY <2>1 DEF ExistsBijection
  <2> HIDE DEF U
  <2>3. QED
    BY <1>2, <2>2, FS_Bijection DEF Count
<1>4. At(s \o t, S) = At(s, S) \cup U
  BY <1>1 DEF At
<1>5. At(s, S) \cap U = {}
  BY <1>1 DEF At
<1> HIDE DEF U, n
<1>6. Cardinality(At(s, S) \cap U) = 0
  BY <1>5, FS_EmptySet, Zenon
<1>7. Cardinality(At(s, S) \cup U) =
        Cardinality(At(s, S)) + Cardinality(U) - Cardinality(At(s, S) \cap U)
  BY <1>2, <1>3, FS_Union, Zenon
<1>8. Count(s \o t, S) = Cardinality(At(s, S) \cup U)
  BY <1>4, Zenon DEF Count
<1>9. Count(s, S) \in Nat /\ Count(t, S) \in Nat /\ Count(s, S) = Cardinality(At(s, S))
  BY CountType DEF Count
<1>10. QED
  BY <1>3, <1>6, <1>7, <1>8, <1>9

(* A sequence of one element.                                               *)
LEMMA CountOne ==
  ASSUME NEW x, NEW S
  PROVE  Count(<<x>>, S) = Bit(x \in S)
<1>1. CASE x \in S
  <2>1. At(<<x>>, S) = {1}
    BY <1>1 DEF At
  <2>2. Cardinality(At(<<x>>, S)) = 1
    BY <2>1, FS_Singleton, Zenon
  <2>3. QED
    BY <1>1, <2>2 DEF Count, Bit
<1>2. CASE x \notin S
  <2>1. At(<<x>>, S) = {}
    BY <1>2 DEF At
  <2>2. Cardinality(At(<<x>>, S)) = 0
    BY <2>1, FS_EmptySet, Zenon
  <2>3. QED
    BY <1>2, <2>2 DEF Count, Bit
<1>3. QED
  BY <1>1, <1>2

(* What Append adds and Tail takes away.                                    *)
LEMMA CountAppend ==
  ASSUME NEW T, NEW s \in Seq(T), NEW x \in T, NEW S
  PROVE  Count(Append(s, x), S) = Count(s, S) + Bit(x \in S)
<1>1. Append(s, x) = s \o <<x>> /\ <<x>> \in Seq(T)
  BY AppendIsConcat
<1>2. Count(s \o <<x>>, S) = Count(s, S) + Count(<<x>>, S)
  BY <1>1, CountConcat
<1>3. QED
  BY <1>1, <1>2, CountOne

(* What is taken from the front of a sequence is counted no longer.         *)
LEMMA CountTail ==
  ASSUME NEW T, NEW s \in Seq(T), NEW S, s # <<>>
  PROVE  Count(s, S) = Bit(Head(s) \in S) + Count(Tail(s), S)
<1>1. s = <<Head(s)>> \o Tail(s) /\ <<Head(s)>> \in Seq(T) /\ Tail(s) \in Seq(T)
  OBVIOUS
<1>2. Count(<<Head(s)>> \o Tail(s), S) = Count(<<Head(s)>>, S) + Count(Tail(s), S)
  BY <1>1, CountConcat, Zenon
<1>3. Count(s, S) = Count(<<Head(s)>>, S) + Count(Tail(s), S)
  BY <1>1, <1>2, Zenon
<1>4. QED
  BY <1>3, CountOne

(* A function on 1 .. n is a sequence of length n, and the one with those   *)
(* elements.                                                                *)
LEMMA FunctionIsSeq ==
  ASSUME NEW T, NEW n \in Nat, NEW f \in [1 .. n -> T]
  PROVE  /\ f \in Seq(T) /\ Len(f) = n
         /\ \A s \in Seq(T) : Len(s) = n /\ (\A k \in 1 .. n : s[k] = f[k]) => s = f
<1>1. f \in Seq(T)
  BY SeqDef
<1>2. Len(f) = n
  <2>1. DOMAIN f = 1 .. Len(f) /\ Len(f) \in Nat /\ DOMAIN f = 1 .. n
    BY <1>1, LenProperties
  <2>2. QED
    BY <2>1
<1>3. QED
  BY <1>1, <1>2, SeqEqual

(* The tail of a concatenation whose first part is not empty.               *)
LEMMA TailConcat ==
  ASSUME NEW T, NEW s \in Seq(T), NEW t \in Seq(T), s # <<>>
  PROVE  Tail(s) \o t = Tail(s \o t)
<1>1. /\ Tail(s) \in Seq(T) /\ Len(Tail(s)) = Len(s) - 1
      /\ \A k \in 1 .. Len(Tail(s)) : Tail(s)[k] = s[k + 1]
      /\ Len(s) \in Nat \ {0} /\ Len(t) \in Nat
  BY HeadTailProperties, EmptySeq, LenProperties
<1>2. /\ s \o t \in Seq(T) /\ Len(s \o t) = Len(s) + Len(t)
      /\ \A k \in 1 .. Len(s) + Len(t) :
           (s \o t)[k] = IF k <= Len(s) THEN s[k] ELSE t[k - Len(s)]
  BY ConcatProperties
<1>3. /\ Tail(s) \o t \in Seq(T) /\ Len(Tail(s) \o t) = Len(Tail(s)) + Len(t)
      /\ \A k \in 1 .. Len(Tail(s)) + Len(t) :
           (Tail(s) \o t)[k] =
             IF k <= Len(Tail(s)) THEN Tail(s)[k] ELSE t[k - Len(Tail(s))]
  BY <1>1, ConcatProperties
<1>4. s \o t # <<>>
  BY <1>1, <1>2
<1>5. /\ Tail(s \o t) \in Seq(T) /\ Len(Tail(s \o t)) = Len(s \o t) - 1
      /\ \A k \in 1 .. Len(Tail(s \o t)) : Tail(s \o t)[k] = (s \o t)[k + 1]
  BY <1>2, <1>4, HeadTailProperties
<1>6. Len(Tail(s) \o t) = Len(Tail(s \o t))
  BY <1>1, <1>2, <1>3, <1>5
<1>7. ASSUME NEW k \in 1 .. Len(Tail(s) \o t)
      PROVE  (Tail(s) \o t)[k] = Tail(s \o t)[k]
  BY <1>1, <1>2, <1>3, <1>5
<1>8. QED
  BY <1>3, <1>5, <1>6, <1>7, SeqEqual

-----------------------------------------------------------------------------
(* PushBack makes the queue one element longer, tail or middle.             *)
LEMMA PushBackProperties ==
  ASSUME NEW T, NEW q \in QueueOf(T), NEW x \in T, NEW p \in BOOLEAN
  PROVE  /\ PushBack(q, x, p) \in QueueOf(T)
         /\ PushBack(q, x, p).total = q.total + 1
         /\ Contents(q) \in Seq(T) /\ Contents(PushBack(q, x, p)) \in Seq(T)
         /\ Len(Contents(PushBack(q, x, p))) = Len(Contents(q)) + 1
         /\ \A S : Count(Contents(PushBack(q, x, p)), S) =
                     Count(Contents(q), S) + Bit(x \in S)
<1> DEFINE r == PushBack(q, x, p)
<1>1. q.priority \in Seq(T) /\ q.queue \in Seq(T) /\ q.total \in Int
  BY DEF QueueOf
<1>2. /\ r = [priority |-> IF p THEN Append(q.priority, x) ELSE q.priority,
              queue |-> IF p THEN q.queue ELSE Append(q.queue, x),
              total |-> q.total + 1]
  BY DEF PushBack, QueueOf
<1> HIDE DEF r
<1>3. r \in QueueOf(T) /\ r.total = q.total + 1
  BY <1>1, <1>2 DEF QueueOf
<1>4. r.priority \in Seq(T) /\ r.queue \in Seq(T)
  BY <1>3 DEF QueueOf
<1>5. /\ Contents(q) \in Seq(T) /\ Contents(r) \in Seq(T)
      /\ Len(Contents(q)) = Len(q.priority) + Len(q.queue)
      /\ Len(Contents(r)) = Len(r.priority) + Len(r.queue)
  BY <1>1, <1>4, ConcatProperties DEF Contents
<1>6. Len(r.priority) + Len(r.queue) = Len(q.priority) + Len(q.queue) + 1
  <2>1. /\ r.priority = IF p THEN Append(q.priority, x) ELSE q.priority
        /\ r.queue = IF p THEN q.queue ELSE Append(q.queue, x)
    BY <1>2
  <2>2. /\ Len(Append(q.priority, x)) = Len(q.priority) + 1
        /\ Len(Append(q.queue, x)) = Len(q.queue) + 1
    BY <1>1, AppendProperties
  <2> DEFINE m == Len(q.priority)
             n == Len(q.queue)
  <2>0. m \in Nat /\ n \in Nat
    BY <1>1, LenProperties
  <2>3. CASE p
    <3>1. Len(r.priority) = m + 1 /\ Len(r.queue) = n
      BY <2>1, <2>2, <2>3, Zenon
    <3> HIDE DEF m, n
    <3>2. Len(r.priority) + Len(r.queue) = m + n + 1
      BY <2>0, <3>1
    <3>3. QED
      BY <3>2 DEF m, n
  <2>4. CASE ~p
    <3>1. Len(r.priority) = m /\ Len(r.queue) = n + 1
      BY <2>1, <2>2, <2>4, Zenon
    <3> HIDE DEF m, n
    <3>2. Len(r.priority) + Len(r.queue) = m + n + 1
      BY <2>0, <3>1
    <3>3. QED
      BY <3>2 DEF m, n
  <2>5. QED
    BY <2>3, <2>4
<1>7. ASSUME NEW S
      PROVE  Count(Contents(r), S) = Count(Contents(q), S) + Bit(x \in S)
  <2>1. /\ Count(Contents(q), S) = Count(q.priority, S) + Count(q.queue, S)
        /\ Count(Contents(r), S) = Count(r.priority, S) + Count(r.queue, S)
    BY <1>1, <1>4, CountConcat DEF Contents
  <2>2. /\ Count(q.priority, S) \in Nat /\ Count(q.queue, S) \in Nat
        /\ Bit(x \in S) \in Nat
    BY <1>1, CountType DEF Bit
  <2>3. CASE p
    <3>1. r.priority = Append(q.priority, x) /\ r.queue = q.queue
      BY <1>2, <2>3
    <3>2. Count(r.priority, S) = Count(q.priority, S) + Bit(x \in S)
      BY <1>1, <3>1, CountAppend
    <3>3. QED
      BY <2>1, <2>2, <3>1, <3>2
  <2>4. CASE ~p
    <3>1. r.queue = Append(q.queue, x) /\ r.priority = q.priority
      BY <1>2, <2>4
    <3>2. Count(r.queue, S) = Count(q.queue, S) + Bit(x \in S)
      BY <1>1, <3>1, CountAppend
    <3>3. QED
      BY <2>1, <2>2, <3>1, <3>2
  <2>5. QED
    BY <2>3, <2>4
<1>8. QED
  BY <1>3, <1>5, <1>6, <1>7 DEF r

(* A push without priority goes to the end of what the queue holds.         *)
LEMMA PushBackContents ==
  ASSUME NEW T, NEW q \in QueueOf(T), NEW x \in T
  PROVE  Contents(PushBack(q, x, FALSE)) = Append(Contents(q), x)
<1>1. q.priority \in Seq(T) /\ q.queue \in Seq(T) /\ <<x>> \in Seq(T)
  BY DEF QueueOf
<1>2. /\ PushBack(q, x, FALSE).priority = q.priority
      /\ PushBack(q, x, FALSE).queue = Append(q.queue, x)
  BY DEF PushBack, QueueOf
<1>3. Contents(q) \in Seq(T)
  BY <1>1, ConcatProperties DEF Contents
<1>4. /\ Append(q.queue, x) = q.queue \o <<x>>
      /\ Append(Contents(q), x) = Contents(q) \o <<x>>
  BY <1>1, <1>3, AppendIsConcat
<1>5. q.priority \o (q.queue \o <<x>>) = (q.priority \o q.queue) \o <<x>>
  <2> DEFINE a == q.priority
             b == q.queue
             c == <<x>>
  <2>1. a \in Seq(T) /\ b \in Seq(T) /\ c \in Seq(T)
    BY <1>1
  <2> HIDE DEF a, b, c
  <2>2. a \o (b \o c) = (a \o b) \o c
    BY <2>1, ConcatAssociative, SMTT(30)
  <2>3. QED
    BY <2>2 DEF a, b, c
<1>6. QED
  BY <1>2, <1>4, <1>5, Zenon DEF Contents

(* PopFront takes the front element away and nothing else.                  *)
LEMMA PopFrontProperties ==
  ASSUME NEW T, NEW q \in QueueOf(T), CanPop(q)
  PROVE  /\ Front(q) \in T
         /\ PopFront(q) \in QueueOf(T)
         /\ PopFront(q).total = q.total - 1
         /\ Contents(q) \in Seq(T)
         /\ Contents(PopFront(q)) = Tail(Contents(q))
         /\ Len(Contents(PopFront(q))) = Len(Contents(q)) - 1
         /\ \A S : Count(Contents(q), S) =
                     Bit(Front(q) \in S) + Count(Contents(PopFront(q)), S)
<1> DEFINE r == PopFront(q)
<1>1. q.priority \in Seq(T) /\ q.queue \in Seq(T) /\ q.total \in Int
  BY DEF QueueOf
<1>2. Contents(q) \in Seq(T) /\ Contents(q) # <<>>
  BY <1>1, ConcatProperties DEF Contents, CanPop
<1>3. /\ q.priority # <<>> =>
           /\ r.priority = Tail(q.priority) /\ r.queue = q.queue
           /\ r \in [priority : {r.priority}, queue : {r.queue}, total : {q.total - 1}]
      /\ q.priority = <<>> =>
           /\ r.priority = <<>> /\ r.queue = Tail(q.queue)
           /\ r \in [priority : {r.priority}, queue : {r.queue}, total : {q.total - 1}]
  BY DEF PopFront, QueueOf
<1>4. q.priority = <<>> => q.queue # <<>>
  BY <1>1, <1>2 DEF Contents
<1> HIDE DEF r
<1>5. r \in QueueOf(T) /\ r.total = q.total - 1
  <2>1. /\ q.priority # <<>> => Tail(q.priority) \in Seq(T)
        /\ q.queue # <<>> => Tail(q.queue) \in Seq(T)
        /\ <<>> \in Seq(T)
    BY <1>1, HeadTailProperties
  <2>2. r.priority \in Seq(T) /\ r.queue \in Seq(T)
    BY <1>1, <1>3, <1>4, <2>1, Zenon
  <2>0. q.total - 1 \in Int
    BY <1>1
  <2>3. r \in [priority : {r.priority}, queue : {r.queue}, total : {q.total - 1}]
    BY <1>3
  <2>4. QED
    BY <2>0, <2>2, <2>3 DEF QueueOf
<1>6. Contents(r) = Tail(Contents(q))
  <2>1. CASE q.priority # <<>>
    <3>1. r.priority = Tail(q.priority) /\ r.queue = q.queue
      BY <1>3, <2>1
    <3>2. QED
      BY <1>1, <2>1, <3>1, TailConcat, Zenon DEF Contents
  <2>2. CASE q.priority = <<>>
    <3>1. r.priority = <<>> /\ r.queue = Tail(q.queue)
      BY <1>3, <2>2
    <3>2. Tail(q.queue) \in Seq(T)
      BY <1>1, <1>4, <2>2
    <3>3. <<>> \o Tail(q.queue) = Tail(q.queue) /\ <<>> \o q.queue = q.queue
      BY <1>1, <3>2, ConcatEmptySeq
    <3>4. QED
      BY <2>2, <3>1, <3>3, Zenon DEF Contents
  <2>3. QED
    BY <2>1, <2>2
<1>7. /\ Front(q) \in T /\ Len(Contents(r)) = Len(Contents(q)) - 1
  BY <1>2, <1>6 DEF Front
<1>8. \A S : Count(Contents(q), S) = Bit(Front(q) \in S) + Count(Contents(r), S)
  BY <1>2, <1>6, CountTail DEF Front
<1>9. QED
  BY <1>2, <1>5, <1>6, <1>7, <1>8 DEF r

(* ApplyClear leaves a queue, its counter untouched.                        *)
LEMMA ApplyClearProperties ==
  ASSUME NEW T, NEW q \in QueueOf(T)
  PROVE  /\ ApplyClear(q) \in QueueOf(T)
         /\ ApplyClear(q).total = q.total
         /\ Contents(ApplyClear(q)) = q.priority
<1>1. ApplyClear(q) = [priority |-> q.priority, queue |-> <<>>, total |-> q.total]
  BY DEF ApplyClear, QueueOf
<1>2. q.priority \in Seq(T) /\ <<>> \in Seq(T) /\ q.total \in Int
  BY DEF QueueOf
<1>3. QED
  BY <1>1, <1>2 DEF QueueOf, Contents

(* A new queue is empty, by its deques and by its counter.                  *)
LEMMA EmptyQueueProperties ==
  ASSUME NEW T
  PROVE  /\ EmptyQueue \in QueueOf(T)
         /\ EmptyQueue.total = 0
         /\ Contents(EmptyQueue) = <<>>
  BY DEF EmptyQueue, QueueOf, Contents

-----------------------------------------------------------------------------
(* Sequences without repetition.                                            *)

Elements(s) == {s[k] : k \in DOMAIN s}
Distinct(s) == \A j, k \in DOMAIN s : s[j] = s[k] => j = k

(* A sequence without its k-th element. *)
Drop(s, k) == SubSeq(s, 1, k - 1) \o SubSeq(s, k + 1, Len(s))

(* Dropping an element of a sequence without repetition removes it from the *)
(* elements, and putting it in front again gives the same elements.         *)
LEMMA DropProperties ==
  ASSUME NEW T, NEW s \in Seq(T), NEW k \in DOMAIN s, Distinct(s)
  PROVE  /\ Drop(s, k) \in Seq(T) /\ Len(Drop(s, k)) = Len(s) - 1
         /\ Distinct(Drop(s, k)) /\ Elements(Drop(s, k)) = Elements(s) \ {s[k]}
<1> DEFINE a == SubSeq(s, 1, k - 1)
           b == SubSeq(s, k + 1, Len(s))
           r == a \o b
<1>1. Len(s) \in Nat /\ DOMAIN s = 1 .. Len(s) /\ \A i \in 1 .. Len(s) : s[i] \in T
  BY LenProperties, ElementOfSeq
<1>2. a \in Seq(T) /\ Len(a) = k - 1 /\ \A i \in 1 .. k - 1 : a[i] = s[i]
  <2>1. /\ a \in Seq(T) /\ Len(a) = IF 1 <= k - 1 THEN k - 1 - 1 + 1 ELSE 0
        /\ \A i \in 1 .. k - 1 - 1 + 1 : a[i] = s[1 + i - 1]
    BY <1>1, SubSeqProperties
  <2>2. QED
    BY <1>1, <2>1
<1>3. b \in Seq(T) /\ Len(b) = Len(s) - k /\ \A i \in 1 .. Len(s) - k : b[i] = s[k + i]
  <2>1. /\ b \in Seq(T) /\ Len(b) = IF k + 1 <= Len(s) THEN Len(s) - (k + 1) + 1 ELSE 0
        /\ \A i \in 1 .. Len(s) - (k + 1) + 1 : b[i] = s[k + 1 + i - 1]
    BY <1>1, SubSeqProperties
  <2> HIDE DEF b
  <2>2. Len(b) = Len(s) - k
    BY <1>1, <2>1
  <2>3. ASSUME NEW i \in 1 .. Len(s) - k PROVE b[i] = s[k + i]
    <3>1. i \in 1 .. Len(s) - (k + 1) + 1 /\ k + 1 + i - 1 = k + i
      BY <1>1
    <3>2. QED
      BY <2>1, <3>1
  <2>4. QED
    BY <2>1, <2>2, <2>3
<1> HIDE DEF a, b
<1>4. /\ r \in Seq(T) /\ Len(r) = Len(s) - 1 /\ DOMAIN r = 1 .. Len(s) - 1
      /\ \A i \in 1 .. Len(s) - 1 : r[i] = IF i <= k - 1 THEN a[i] ELSE b[i - (k - 1)]
  <2>1. /\ r \in Seq(T) /\ Len(r) = Len(a) + Len(b)
        /\ \A i \in 1 .. Len(a) + Len(b) : r[i] = IF i <= Len(a) THEN a[i] ELSE b[i - Len(a)]
    BY <1>2, <1>3, ConcatProperties
  <2>2. Len(a) + Len(b) = Len(s) - 1 /\ Len(a) = k - 1
    BY <1>1, <1>2, <1>3
  <2> HIDE DEF r
  <2>3. DOMAIN r = 1 .. Len(r)
    BY <2>1, LenProperties
  <2>4. QED
    BY <2>1, <2>2, <2>3
<1> HIDE DEF r
<1>5. ASSUME NEW i \in 1 .. Len(s) - 1
      PROVE  r[i] = IF i < k THEN s[i] ELSE s[i + 1]
  <2>1. CASE i < k
    BY <1>1, <1>2, <1>4, <2>1
  <2>2. CASE ~(i < k)
    <3>1. i - (k - 1) \in 1 .. Len(s) - k /\ k + (i - (k - 1)) = i + 1 /\ ~(i <= k - 1)
      BY <1>1, <2>2
    <3>2. QED
      BY <1>3, <1>4, <2>2, <3>1
  <2>3. QED
    BY <2>1, <2>2
<1> DEFINE from(i) == IF i < k THEN i ELSE i + 1
<1>5a. \A i \in 1 .. Len(s) - 1 : from(i) \in DOMAIN s /\ from(i) # k /\ r[i] = s[from(i)]
  BY <1>1, <1>5
<1>5b. \A i, j \in 1 .. Len(s) - 1 : from(i) = from(j) => i = j
  BY <1>1
<1> HIDE DEF from
<1>6. Distinct(r)
  BY <1>4, <1>5a, <1>5b, SMTT(30) DEF Distinct
<1>7. Elements(r) = Elements(s) \ {s[k]}
  <2>1. Elements(r) \subseteq Elements(s) \ {s[k]}
    BY <1>4, <1>5a DEF Elements, Distinct
  <2>2. ASSUME NEW i \in DOMAIN s, s[i] # s[k]
        PROVE  s[i] \in Elements(r)
    <3>1. CASE i < k
      BY <1>1, <1>4, <1>5, <3>1 DEF Elements
    <3>2. CASE i > k
      <4>1. i - 1 \in 1 .. Len(s) - 1 /\ ~(i - 1 < k) /\ i - 1 + 1 = i
        BY <1>1, <3>2
      <4>2. r[i - 1] = s[i]
        BY <1>5, <4>1
      <4>3. QED
        BY <1>4, <4>1, <4>2 DEF Elements
    <3>3. QED
      BY <1>1, <2>2, <3>1, <3>2
  <2>3. QED
    BY <2>1, <2>2 DEF Elements
<1>8. r = Drop(s, k)
  BY DEF r, a, b, Drop
<1>9. QED
  BY <1>4, <1>6, <1>7, <1>8

(* A new element in front.                                                  *)
LEMMA PushFrontProperties ==
  ASSUME NEW T, NEW s \in Seq(T), NEW x \in T, Distinct(s), x \notin Elements(s)
  PROVE  /\ <<x>> \o s \in Seq(T) /\ Len(<<x>> \o s) = Len(s) + 1
         /\ Distinct(<<x>> \o s) /\ Elements(<<x>> \o s) = {x} \cup Elements(s)
<1> DEFINE r == <<x>> \o s
<1>1. Len(s) \in Nat /\ DOMAIN s = 1 .. Len(s)
  BY LenProperties
<1>2. /\ r \in Seq(T) /\ Len(r) = Len(s) + 1 /\ DOMAIN r = 1 .. Len(s) + 1
      /\ r[1] = x /\ \A i \in 2 .. Len(s) + 1 : r[i] = s[i - 1]
  <2>1. <<x>> \in Seq(T) /\ Len(<<x>>) = 1 /\ <<x>>[1] = x
    OBVIOUS
  <2>2. /\ r \in Seq(T) /\ Len(r) = 1 + Len(s) /\ DOMAIN r = 1 .. Len(r)
        /\ \A i \in 1 .. 1 + Len(s) : r[i] = IF i <= 1 THEN <<x>>[i] ELSE s[i - 1]
    BY <2>1, ConcatProperties, LenProperties
  <2>3. QED
    BY <1>1, <2>1, <2>2
<1> HIDE DEF r
<1>3. Distinct(r)
  <2>1. \A i \in DOMAIN r : i # 1 => i - 1 \in DOMAIN s /\ r[i] = s[i - 1] /\ i \in Nat
    BY <1>1, <1>2
  <2>2. \A i \in DOMAIN r : i # 1 => r[i] # x
    BY <2>1 DEF Elements
  <2>3. ASSUME NEW i \in DOMAIN r, NEW j \in DOMAIN r, r[i] = r[j], i # 1, j # 1
        PROVE  i = j
    <3>1. i - 1 = j - 1
      BY <2>1, <2>3 DEF Distinct
    <3>2. QED
      BY <2>1, <2>3, <3>1
  <2>4. QED
    BY <1>2, <2>2, <2>3 DEF Distinct
<1>4. Elements(r) = {x} \cup Elements(s)
  <2>1. Elements(r) \subseteq {x} \cup Elements(s)
    BY <1>1, <1>2, SMTT(30) DEF Elements
  <2>2. x \in Elements(r)
    BY <1>1, <1>2 DEF Elements
  <2>3. ASSUME NEW i \in DOMAIN s PROVE s[i] \in Elements(r)
    <3>1. i + 1 \in 2 .. Len(s) + 1 /\ i + 1 - 1 = i
      BY <1>1
    <3>2. r[i + 1] = s[i]
      BY <1>2, <3>1
    <3>3. QED
      BY <1>1, <1>2, <3>1, <3>2 DEF Elements
  <2>4. QED
    BY <2>1, <2>2, <2>3 DEF Elements
<1>5. QED
  BY <1>2, <1>3, <1>4 DEF r

(* A prefix of a sequence without repetition.                               *)
LEMMA PrefixProperties ==
  ASSUME NEW T, NEW s \in Seq(T), NEW n \in 0 .. Len(s), Distinct(s)
  PROVE  /\ SubSeq(s, 1, n) \in Seq(T) /\ Len(SubSeq(s, 1, n)) = n
         /\ Distinct(SubSeq(s, 1, n)) /\ Elements(SubSeq(s, 1, n)) \subseteq Elements(s)
<1> DEFINE r == SubSeq(s, 1, n)
<1>1. Len(s) \in Nat /\ DOMAIN s = 1 .. Len(s) /\ \A i \in 1 .. Len(s) : s[i] \in T
  BY LenProperties, ElementOfSeq
<1>2. r \in Seq(T) /\ Len(r) = n /\ DOMAIN r = 1 .. n /\ \A i \in 1 .. n : r[i] = s[i]
  <2>1. /\ r \in Seq(T) /\ Len(r) = IF 1 <= n THEN n - 1 + 1 ELSE 0
        /\ \A i \in 1 .. n - 1 + 1 : r[i] = s[1 + i - 1]
    BY <1>1, SubSeqProperties
  <2>2. QED
    BY <1>1, <2>1, LenProperties
<1> HIDE DEF r
<1>3. Distinct(r) /\ Elements(r) \subseteq Elements(s)
  BY <1>1, <1>2 DEF Distinct, Elements
<1>4. QED
  BY <1>2, <1>3 DEF r

(* The elements of a sequence of length n are no more than n: there is      *)
(* always a fresh one among n + 3 if two others are in use.                 *)
LEMMA FreshExists ==
  ASSUME NEW n \in Nat, NEW S, 1 .. n + 3 \subseteq S,
         NEW s \in Seq(S), Len(s) <= n, NEW a, NEW b
  PROVE  S \ (Elements(s) \cup {a, b}) # {}
<1> DEFINE U == (Elements(s) \cup {a}) \cup {b}
<1>1. Len(s) \in Nat /\ DOMAIN s = 1 .. Len(s)
  BY LenProperties
<1>2. IsFiniteSet(1 .. Len(s)) /\ Cardinality(1 .. Len(s)) = Len(s)
  <2>1. 1 \in Int /\ Len(s) \in Int
    BY <1>1
  <2>2. /\ IsFiniteSet(1 .. Len(s))
        /\ Cardinality(1 .. Len(s)) = IF 1 > Len(s) THEN 0 ELSE Len(s) - 1 + 1
    BY <2>1, FS_Interval
  <2>3. QED
    BY <1>1, <2>2
<1>3. IsFiniteSet(Elements(s)) /\ Cardinality(Elements(s)) <= Len(s)
  <2>1. s \in Surjection(1 .. Len(s), Elements(s))
    BY <1>1 DEF Surjection, Elements
  <2>2. QED
    BY <1>2, <2>1, FS_Surjection
<1>4. IsFiniteSet(U) /\ Cardinality(U) <= n + 2
  <2>1. /\ IsFiniteSet(Elements(s) \cup {a})
        /\ Cardinality(Elements(s) \cup {a}) <= n + 1
    <3>1. Cardinality(Elements(s)) \in Nat
      BY <1>3, FS_CardinalityType
    <3>2. /\ IsFiniteSet(Elements(s) \cup {a})
          /\ Cardinality(Elements(s) \cup {a}) =
               IF a \in Elements(s) THEN Cardinality(Elements(s))
               ELSE Cardinality(Elements(s)) + 1
      BY <1>3, FS_AddElement
    <3>3. QED
      BY <1>1, <1>3, <3>1, <3>2
  <2>2. Cardinality(Elements(s) \cup {a}) \in Nat
    BY <2>1, FS_CardinalityType
  <2>3. /\ IsFiniteSet(U)
        /\ Cardinality(U) =
             IF b \in Elements(s) \cup {a} THEN Cardinality(Elements(s) \cup {a})
             ELSE Cardinality(Elements(s) \cup {a}) + 1
    BY <2>1, FS_AddElement
  <2>4. QED
    BY <2>1, <2>2, <2>3
<1>5. IsFiniteSet(1 .. n + 3) /\ Cardinality(1 .. n + 3) = n + 3
  BY FS_Interval
<1>6. ~(1 .. n + 3 \subseteq U)
  <2>1. SUFFICES ASSUME 1 .. n + 3 \subseteq U PROVE FALSE
    OBVIOUS
  <2>2. Cardinality(1 .. n + 3) <= Cardinality(U)
    BY <1>4, <2>1, FS_Subset
  <2>3. Cardinality(U) \in Nat
    BY <1>4, FS_CardinalityType
  <2>4. QED
    BY <1>4, <1>5, <2>2, <2>3
<1>7. QED
  BY <1>6

-----------------------------------------------------------------------------
(* Queues of which one deque is used only.                                  *)

(* A push changes the deque it is meant for.                                *)
LEMMA PushBackDeques ==
  ASSUME NEW T, NEW q \in QueueOf(T), NEW x
  PROVE  /\ PushBack(q, x, FALSE).queue = Append(q.queue, x)
         /\ PushBack(q, x, FALSE).priority = q.priority
         /\ PushBack(q, x, TRUE).priority = Append(q.priority, x)
         /\ PushBack(q, x, TRUE).queue = q.queue
  BY DEF PushBack, QueueOf

(* dequeue() of a queue without priority elements takes the oldest one.     *)
LEMMA DequeueOldest ==
  ASSUME NEW T, NEW q \in QueueOf(T), q.priority = <<>>, CanPop(q)
  PROVE  /\ q.queue # <<>> /\ q.queue \in Seq(T)
         /\ DequeueItem(q, 0) = Head(q.queue) /\ DequeueItem(q, 0) \in T
         /\ DequeueRest(q, 0) \in QueueOf(T)
         /\ DequeueRest(q, 0).queue = Tail(q.queue)
         /\ DequeueRest(q, 0).priority = <<>> /\ DequeueRest(q, 0).total = q.total - 1
<1>1. q.queue \in Seq(T) /\ q.total \in Int
  BY DEF QueueOf
<1>2. Contents(q) = q.queue
  BY <1>1, ConcatEmptySeq DEF Contents
<1>3. TrimFront(q, 0) = q
  BY DEF TrimFront, Trim, QueueOf
<1>4. q.queue # <<>>
  BY <1>2 DEF CanPop
<1>5. Head(q.queue) \in T /\ Tail(q.queue) \in Seq(T)
  BY <1>1, <1>4, HeadTailProperties
<1>6. DequeueItem(q, 0) = Head(q.queue)
  BY <1>2, <1>3 DEF DequeueItem, Front
<1>7. DequeueRest(q, 0) = [priority |-> <<>>, queue |-> Tail(q.queue), total |-> q.total - 1]
  BY <1>3 DEF DequeueRest, PopFront, QueueOf
<1>8. DequeueRest(q, 0) \in QueueOf(T)
  <2>1. <<>> \in Seq(T) /\ q.total - 1 \in Int
    BY <1>1
  <2>2. [priority |-> <<>>, queue |-> Tail(q.queue), total |-> q.total - 1]
          \in [priority : Seq(T), queue : Seq(T), total : Int]
    BY <1>5, <2>1
  <2>3. QED
    BY <1>7, <2>2, Zenon DEF QueueOf
<1>9. /\ DequeueRest(q, 0).queue = Tail(q.queue) /\ DequeueRest(q, 0).priority = <<>>
      /\ DequeueRest(q, 0).total = q.total - 1
  <2> DEFINE u == [priority |-> <<>>, queue |-> Tail(q.queue), total |-> q.total - 1]
  <2>1. u.queue = Tail(q.queue) /\ u.priority = <<>> /\ u.total = q.total - 1
    OBVIOUS
  <2>2. QED
    BY <1>7, <2>1, Zenon
<1>10. QED
  BY <1>1, <1>4, <1>5, <1>6, <1>8, <1>9, Zenon

(* The last n elements of a sequence and those before them.                 *)
LEMMA LastOfProperties ==
  ASSUME NEW T, NEW s \in Seq(T), NEW n \in Nat \ {0}, s # <<>>
  PROVE  /\ LastOf(s, n) \in Seq(T) /\ LastOf(s, n) # <<>>
         /\ SubSeq(s, 1, Len(s) - n) \in Seq(T)
         /\ s = SubSeq(s, 1, Len(s) - n) \o LastOf(s, n)
<1> DEFINE m == Len(s)
           a == SubSeq(s, 1, m - n)
           b == LastOf(s, n)
<1>1. m \in Nat \ {0} /\ DOMAIN s = 1 .. m /\ \A i \in 1 .. m : s[i] \in T
  BY LenProperties, ElementOfSeq, EmptySeq
<1>2. CASE m <= n
  <2>1. a = <<>>
    <3>1. m - n < 1 /\ 1 \in Int /\ m - n \in Int
      BY <1>1, <1>2
    <3>2. QED
      BY <3>1, SubSeqEmpty
  <2>2. b = s
    BY <1>1, <1>2 DEF LastOf
  <2>3. <<>> \o s = s /\ <<>> \in Seq(T)
    BY ConcatEmptySeq
  <2>4. QED
    BY <2>1, <2>2, <2>3, Zenon
<1>3. CASE m > n
  <2>1. a \in Seq(T) /\ Len(a) = m - n /\ \A i \in 1 .. m - n : a[i] = s[i]
    <3>1. /\ a \in Seq(T) /\ Len(a) = IF 1 <= m - n THEN m - n - 1 + 1 ELSE 0
          /\ \A i \in 1 .. m - n - 1 + 1 : a[i] = s[1 + i - 1]
      BY <1>1, <1>3, SubSeqProperties
    <3> HIDE DEF a
    <3>2. Len(a) = m - n
      <4>1. 1 <= m - n /\ m - n - 1 + 1 = m - n
        BY <1>1, <1>3
      <4>2. QED
        BY <3>1, <4>1
    <3>3. ASSUME NEW i \in 1 .. m - n PROVE a[i] = s[i]
      <4>1. i \in 1 .. m - n - 1 + 1 /\ 1 + i - 1 = i
        BY <1>1, <1>3
      <4>2. QED
        BY <3>1, <4>1
    <3>4. QED
      BY <3>1, <3>2, <3>3
  <2>2. b = SubSeq(s, m - n + 1, m)
    BY <1>3 DEF LastOf
  <2>3. b \in Seq(T) /\ Len(b) = n /\ \A i \in 1 .. n : b[i] = s[m - n + i]
    <3> DEFINE c == SubSeq(s, m - n + 1, m)
    <3>1. /\ c \in Seq(T)
          /\ Len(c) = IF m - n + 1 <= m THEN m - (m - n + 1) + 1 ELSE 0
          /\ \A i \in 1 .. m - (m - n + 1) + 1 : c[i] = s[m - n + 1 + i - 1]
      BY <1>1, <1>3, SubSeqProperties
    <3> HIDE DEF c
    <3>2. Len(c) = n
      BY <1>1, <1>3, <3>1
    <3>3. ASSUME NEW i \in 1 .. n PROVE c[i] = s[m - n + i]
      <4>1. i \in 1 .. m - (m - n + 1) + 1 /\ m - n + 1 + i - 1 = m - n + i
        BY <1>1, <1>3
      <4>2. QED
        BY <3>1, <4>1
    <3>4. b = c
      BY <2>2 DEF c
    <3>5. QED
      BY <3>1, <3>2, <3>3, <3>4, Zenon
  <2> HIDE DEF a, b
  <2>4. /\ a \o b \in Seq(T) /\ Len(a \o b) = m - n + n
        /\ \A i \in 1 .. m - n + n : (a \o b)[i] = IF i <= m - n THEN a[i] ELSE b[i - (m - n)]
    <3>1. /\ a \o b \in Seq(T) /\ Len(a \o b) = Len(a) + Len(b)
          /\ \A i \in 1 .. Len(a) + Len(b) :
               (a \o b)[i] = IF i <= Len(a) THEN a[i] ELSE b[i - Len(a)]
      BY <2>1, <2>3, ConcatProperties
    <3>2. Len(a) = m - n /\ Len(b) = n
      BY <2>1, <2>3
    <3>3. QED
      BY <3>1, <3>2, Zenon
  <2>5. ASSUME NEW i \in 1 .. m PROVE (a \o b)[i] = s[i]
    <3>1. CASE i <= m - n
      BY <1>1, <1>3, <2>1, <2>4, <3>1
    <3>2. CASE ~(i <= m - n)
      <4>1. i - (m - n) \in 1 .. n /\ m - n + (i - (m - n)) = i
        BY <1>1, <1>3, <3>2
      <4>2. QED
        BY <1>1, <2>3, <2>4, <3>2, <4>1, SMTT(30)
    <3>3. QED
      BY <3>1, <3>2
  <2>6. Len(a \o b) = m
    BY <1>1, <2>4
  <2>7. a \o b = s
    BY <1>1, <2>4, <2>5, <2>6, SeqEqual
  <2>8. b # <<>>
    BY <2>3
  <2>9. QED
    BY <2>1, <2>3, <2>7, <2>8 DEF a, b
<1>4. QED
  BY <1>1, <1>2, <1>3

(* dequeue(n) of a queue of priority elements erases all but the latest n   *)
(* and takes the oldest of these.                                           *)
LEMMA DequeueTrimmed ==
  ASSUME NEW T, NEW q \in QueueOf(T), q.queue = <<>>, CanPop(q), NEW n \in Nat \ {0}
  PROVE  /\ q.priority # <<>> /\ q.priority \in Seq(T)
         /\ DequeueItem(q, n) = Head(LastOf(q.priority, n)) /\ DequeueItem(q, n) \in T
         /\ DequeueRest(q, n) \in QueueOf(T)
         /\ DequeueRest(q, n).priority = Tail(LastOf(q.priority, n))
         /\ DequeueRest(q, n).queue = <<>>
<1> DEFINE s == q.priority
           t == LastOf(s, n)
<1>1. s \in Seq(T) /\ q.total \in Int
  BY DEF QueueOf
<1>2. s # <<>>
  BY DEF CanPop, Contents
<1>3. t \in Seq(T) /\ t # <<>>
  BY <1>1, <1>2, LastOfProperties
<1>4. TrimFront(q, n) = [priority |-> t, queue |-> <<>>, total |-> q.total]
  BY <1>2 DEF TrimFront, Trim, QueueOf
<1>5. Head(t) \in T /\ Tail(t) \in Seq(T)
  BY <1>3, HeadTailProperties
<1> HIDE DEF t
<1>6. DequeueItem(q, n) = Head(t)
  <2>1. t \o <<>> = t
    BY <1>3, ConcatEmptySeq
  <2>2. QED
    BY <1>4, <2>1 DEF DequeueItem, Front, Contents
<1>7. DequeueRest(q, n) = [priority |-> Tail(t), queue |-> <<>>, total |-> q.total - 1]
  <2> DEFINE u == [priority |-> t, queue |-> <<>>, total |-> q.total]
  <2>1. PopFront(u) = [priority |-> Tail(t), queue |-> <<>>, total |-> q.total - 1]
    BY <1>3 DEF PopFront
  <2>2. QED
    BY <1>4, <2>1 DEF DequeueRest
<1>8. DequeueRest(q, n) \in QueueOf(T)
  <2>1. <<>> \in Seq(T) /\ q.total - 1 \in Int
    BY <1>1
  <2>2. QED
    BY <1>5, <1>7, <2>1 DEF QueueOf
<1>9. QED
  BY <1>1, <1>2, <1>5, <1>6, <1>7, <1>8 DEF t

(* A set of natural numbers has a least element.                            *)
LEMMA LeastExists ==
  ASSUME NEW S \in SUBSET Nat, S # {}
  PROVE  \E k \in S : \A j \in S : k <= j
<1>1. IsWellFoundedOn(OpToRel(<, Nat), Nat)
  BY NatLessThanWellFounded
<1>2. \E k \in S : \A j \in S : ~(<<j, k>> \in OpToRel(<, Nat))
  BY <1>1, WFMin
<1>3. \A j, k \in S : j < k => <<j, k>> \in OpToRel(<, Nat)
  <2>1. SUFFICES ASSUME NEW j \in S, NEW k \in S, j < k
                 PROVE  <<j, k>> \in OpToRel(<, Nat)
    OBVIOUS
  <2>2. <<j, k>> \in Nat \X Nat /\ <<j, k>>[1] < <<j, k>>[2]
    BY <2>1
  <2>3. QED
    BY <2>2 DEF OpToRel
<1>4. PICK k \in S : \A j \in S : ~(<<j, k>> \in OpToRel(<, Nat))
  BY <1>2
<1>5. \A j \in S : ~(j < k) /\ j \in Nat /\ k \in Nat
  BY <1>3, <1>4
<1>6. QED
  BY <1>5

(* A bounded set of natural numbers has a greatest element.                 *)
LEMMA GreatestExists ==
  ASSUME NEW n \in Nat, NEW S \in SUBSET (1 .. n), S # {}
  PROVE  \E k \in S : \A j \in S : j <= k
<1> DEFINE D == {n - k : k \in S}
<1>1. D \in SUBSET Nat /\ D # {}
  <2>1. \A k \in S : k \in Nat /\ k <= n
    OBVIOUS
  <2>2. \A k \in S : n - k \in Nat
    BY <2>1
  <2>3. \A d \in D : d \in Nat
    BY <2>2
  <2>4. D # {}
    OBVIOUS
  <2>5. QED
    BY <2>3, <2>4
<1>2. PICK d \in D : \A e \in D : d <= e
  BY <1>1, LeastExists
<1>3. PICK k \in S : d = n - k
  BY <1>2
<1>4. \A j \in S : n - k <= n - j /\ j \in Nat /\ k \in Nat
  BY <1>2, <1>3
<1>5. QED
  BY <1>4

(* The elements of S up to k in the order R, a set of pairs. *)
UpTo(S, R, k) == {j \in S : <<j, k>> \in R}

(* R orders S. *)
TotalOrder(S, R) ==
  /\ \A a \in S : <<a, a>> \in R
  /\ \A a, b \in S : a # b => (<<a, b>> \in R <=> ~(<<b, a>> \in R))
  /\ \A a, b, c \in S : <<a, b>> \in R /\ <<b, c>> \in R => <<a, c>> \in R

(* In a finite set with a total order R, every number up to the size of the *)
(* set is the number of elements up to some element, and of one only.       *)
LEMMA RankExists ==
  ASSUME NEW S, IsFiniteSet(S), NEW R, TotalOrder(S, R)
  PROVE  /\ \A p \in 1 .. Cardinality(S) :
              \E k \in S : Cardinality(UpTo(S, R, k)) = p
         /\ \A k, l \in S : Cardinality(UpTo(S, R, k)) =
                              Cardinality(UpTo(S, R, l)) => k = l
<1> DEFINE n == Cardinality(S)
           LE(k) == {j \in S : <<j, k>> \in R}
           f == [k \in S |-> Cardinality(LE(k))]
<1> USE DEF TotalOrder
<1>1. n \in Nat
  BY FS_CardinalityType
<1>2. ASSUME NEW k \in S
      PROVE  IsFiniteSet(LE(k)) /\ Cardinality(LE(k)) \in 1 .. n
  <2>1. LE(k) \in SUBSET S /\ k \in LE(k)
    OBVIOUS
  <2> HIDE DEF LE
  <2>2. IsFiniteSet(LE(k)) /\ Cardinality(LE(k)) <= n
    BY <2>1, FS_Subset
  <2>3. Cardinality(LE(k)) \in Nat
    BY <2>2, FS_CardinalityType
  <2>4. Cardinality(LE(k)) # 0
    BY <2>1, <2>2, FS_EmptySet
  <2>5. QED
    BY <1>1, <2>2, <2>3, <2>4
<1>3. ASSUME NEW k \in S, NEW l \in S, k # l, <<k, l>> \in R
      PROVE  Cardinality(LE(k)) # Cardinality(LE(l))
  <2>1. LE(k) \in SUBSET LE(l)
    BY <1>3
  <2>2. l \in LE(l) /\ l \notin LE(k)
    BY <1>3
  <2> HIDE DEF LE
  <2>3. QED
    BY <1>2, <2>1, <2>2, FS_Subset
<1>4. \A k, l \in S : Cardinality(LE(k)) = Cardinality(LE(l)) => k = l
  <2> HIDE DEF LE
  <2>1. SUFFICES ASSUME NEW k \in S, NEW l \in S, k # l
                 PROVE  Cardinality(LE(k)) # Cardinality(LE(l))
    OBVIOUS
  <2>2. <<k, l>> \in R \/ <<l, k>> \in R
    BY <2>1
  <2>3. QED
    BY <1>3, <2>1, <2>2
<1>5. ASSUME NEW p \in 1 .. n
      PROVE  \E k \in S : Cardinality(LE(k)) = p
  <2>1. SUFFICES ASSUME \A k \in S : Cardinality(LE(k)) # p PROVE FALSE
    OBVIOUS
  <2> DEFINE U == (1 .. n) \ {p}
  <2>2. f \in [S -> U]
    <3> HIDE DEF LE
    <3>1. QED
      BY <1>2, <2>1
  <2>3. IsFiniteSet(U) /\ Cardinality(U) < n
    <3>1. /\ IsFiniteSet(1 .. n)
          /\ Cardinality(1 .. n) = IF 1 > n THEN 0 ELSE n - 1 + 1
      <4> HIDE DEF n
      <4>1. QED
        BY <1>1, FS_Interval
    <3>2. Cardinality(1 .. n) = n
      <4> HIDE DEF n
      <4>1. QED
        BY <1>1, <3>1
    <3>3. IsFiniteSet(U) /\ Cardinality(U) = n - 1
      <4> HIDE DEF n
      <4>1. QED
        BY <3>1, <3>2, FS_RemoveElement
    <3> HIDE DEF n, U
    <3>4. QED
      BY <1>1, <3>3
  <2>4. PICK x \in S, y \in S : x # y /\ f[x] = f[y]
    <3> HIDE DEF f, U
    <3>1. QED
      BY <2>2, <2>3, FS_PigeonHole
  <2>5. Cardinality(LE(x)) = Cardinality(LE(y))
    BY <2>4
  <2> HIDE DEF LE
  <2>6. QED
    BY <1>4, <2>4, <2>5
<1>6. \A k \in S : UpTo(S, R, k) = LE(k)
  BY DEF UpTo
<1> HIDE DEF LE, f
<1>7. \A p \in 1 .. n : \E k \in S : Cardinality(UpTo(S, R, k)) = p
  BY <1>5, <1>6
<1>8. QED
  BY <1>4, <1>6, <1>7

(* Taking the first element off a sequence without repetition.              *)
LEMMA TailDistinct ==
  ASSUME NEW T, NEW s \in Seq(T), s # <<>>, Distinct(s)
  PROVE  /\ Head(s) \in T /\ Head(s) \in Elements(s) /\ Tail(s) \in Seq(T)
         /\ Distinct(Tail(s))
         /\ Elements(Tail(s)) \subseteq Elements(s) \ {Head(s)}
<1> DEFINE t == Tail(s)
<1>1. /\ Head(s) \in T /\ t \in Seq(T) /\ Len(t) = Len(s) - 1 /\ Head(s) = s[1]
      /\ \A k \in 1 .. Len(t) : t[k] = s[k + 1]
      /\ Len(s) \in Nat \ {0} /\ DOMAIN s = 1 .. Len(s) /\ DOMAIN t = 1 .. Len(t)
  <2>1. t \in Seq(T) /\ Head(s) \in T
    BY HeadTailProperties
  <2>2. QED
    BY <2>1, HeadTailProperties, EmptySeq, LenProperties
<1> HIDE DEF t
<1>2. \A k \in DOMAIN t : k + 1 \in DOMAIN s /\ k + 1 # 1 /\ t[k] = s[k + 1] /\ k \in Nat
  BY <1>1
<1>3. 1 \in DOMAIN s
  BY <1>1
<1>4. Distinct(t)
  <2>1. SUFFICES ASSUME NEW j \in DOMAIN t, NEW k \in DOMAIN t, t[j] = t[k] PROVE j = k
    BY DEF Distinct
  <2>2. s[j + 1] = s[k + 1]
    BY <1>2, <2>1
  <2>3. j + 1 = k + 1
    BY <1>2, <2>2 DEF Distinct
  <2>4. QED
    BY <1>2, <2>3
<1>5. \A k \in DOMAIN t : t[k] \in Elements(s) /\ t[k] # s[1]
  BY <1>2, <1>3 DEF Distinct, Elements
<1>6. QED
  BY <1>1, <1>3, <1>4, <1>5 DEF Elements, t
=============================================================================
