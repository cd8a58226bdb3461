---------------------- MODULE IndexPipelineRefinement ----------------------
(***************************************************************************)
(* IndexPipeline implements IndexUpdates as long as no update overtakes    *)
(* another and reloads find the pipeline idle, so what IndexUpdatesProofs  *)
(* says of the database holds of the pipeline's: its reference counts,     *)
(* uses, relations and definitions are exactly those of the indexes it was *)
(* given, and the assertion in applyIndexUpdate never fails.  Under the    *)
(* same conditions the contents kept for an open file are those that its   *)
(* index in the database was made from.                                    *)
(***************************************************************************)
EXTENDS IndexPipelineProofs

-----------------------------------------------------------------------------
(* Selecting the elements of a sequence at some positions.                  *)

(* Where position k of those in at comes. *)
Rank(at, k) == Cardinality({j \in at : j <= k})

(* The positions are numbered from 1 without gaps, in their order.          *)
LEMMA RankProperties ==
  ASSUME NEW T, NEW s \in Seq(T), NEW at \in SUBSET DOMAIN s
  PROVE  /\ IsFiniteSet(at) /\ at \subseteq Nat /\ Cardinality(at) \in Nat
         /\ \A k \in at : Rank(at, k) \in 1 .. Cardinality(at)
         /\ \A j, k \in at : j < k => Rank(at, j) < Rank(at, k)
         /\ \A p \in 1 .. Cardinality(at) : \E k \in at : Rank(at, k) = p
<1> DEFINE R == {jk \in at \X at : jk[1] <= jk[2]}
           U(k) == {x \in at : x <= k}
<1>1. IsFiniteSet(at) /\ at \subseteq Nat /\ Cardinality(at) \in Nat
  <2>1. DOMAIN s = 1 .. Len(s) /\ Len(s) \in Nat
    BY LenProperties
  <2>2. IsFiniteSet(1 .. Len(s))
    BY <2>1, FS_Interval
  <2>3. QED
    BY <2>1, <2>2, FS_Subset, FS_CardinalityType
<1>2. ASSUME NEW k \in at
      PROVE  /\ IsFiniteSet(U(k)) /\ Cardinality(U(k)) \in 1 .. Cardinality(at)
             /\ U(k) \in SUBSET at /\ k \in U(k)
  <2>1. U(k) \in SUBSET at /\ k \in U(k)
    OBVIOUS
  <2>2. IsFiniteSet(U(k)) /\ Cardinality(U(k)) <= Cardinality(at) /\ Cardinality(U(k)) \in Nat
    BY <1>1, <2>1, FS_Subset, FS_CardinalityType
  <2>3. Cardinality(U(k)) # 0
    BY <2>1, <2>2, FS_EmptySet
  <2>4. QED
    BY <1>1, <2>1, <2>2, <2>3
<1>3. ASSUME NEW j \in at, NEW k \in at, j < k
      PROVE  Cardinality(U(j)) < Cardinality(U(k))
  <2>1. U(j) \in SUBSET U(k) /\ k \notin U(j)
    <3>1. j \in Nat /\ k \in Nat /\ at \subseteq Nat
      BY <1>1
    <3>2. \A l \in at : l <= j => l <= k
      BY <1>3, <3>1
    <3>3. \A x : x \in U(j) => x \in at /\ x <= j
      OBVIOUS
    <3>4. \A x \in at : x <= k => x \in U(k)
      OBVIOUS
    <3>5. k \notin U(j)
      BY <1>3, <3>1, <3>3
    <3> HIDE DEF U
    <3>6. QED
      BY <3>2, <3>3, <3>4, <3>5
  <2>2. Cardinality(U(j)) <= Cardinality(U(k)) /\ (Cardinality(U(k)) = Cardinality(U(j)) => U(k) = U(j))
    BY <1>2, <2>1, FS_Subset
  <2>3. k \in U(k) /\ Cardinality(U(j)) \in Nat /\ Cardinality(U(k)) \in Nat
    <3> HIDE DEF U
    <3>1. QED
      BY <1>1, <1>2
  <2> HIDE DEF U
  <2>4. QED
    BY <2>1, <2>2, <2>3
<1>4. TotalOrder(at, R)
  <2>1. \A a, b \in at : <<a, b>> \in R <=> a <= b
    OBVIOUS
  <2> HIDE DEF R
  <2>2. QED
    BY <1>1, <2>1 DEF TotalOrder
<1>5. \A p \in 1 .. Cardinality(at) : \E k \in at : Cardinality(UpTo(at, R, k)) = p
  <2>1. IsFiniteSet(at) /\ Cardinality(at) \in Nat
    BY <1>1
  <2> HIDE DEF R
  <2>2. \A p \in 1 .. Cardinality(at) : \E k \in at : Cardinality(UpTo(at, R, k)) = p
    BY <2>1, <1>4, RankExists
  <2>3. QED
    BY <2>2
<1>6. \A k \in at : UpTo(at, R, k) = U(k)
  BY DEF UpTo
<1>7. \A k \in at : Rank(at, k) = Cardinality(U(k))
  BY DEF Rank
<1> HIDE DEF R, U
<1>8. QED
  BY <1>1, <1>2, <1>3, <1>5, <1>6, <1>7

(* Selected puts the element at position k where k comes, and is the only   *)
(* sequence that does.                                                      *)
LEMMA SelectedAt ==
  ASSUME NEW T, NEW s \in Seq(T), NEW at \in SUBSET DOMAIN s
  PROVE  /\ \A k \in at : Selected(s, at)[Rank(at, k)] = s[k]
         /\ \A r \in Seq(T) : /\ Len(r) = Cardinality(at)
                              /\ \A k \in at : r[Rank(at, k)] = s[k]
                              => r = Selected(s, at)
<1> DEFINE n == Cardinality(at)
           c(p) == CHOOSE k \in at : Rank(at, k) = p
           S == Selected(s, at)
<1>1. S = [p \in 1 .. n |-> s[c(p)]]
  BY DEF Selected, Rank
<1>2. S \in Seq(T) /\ Len(S) = n
  BY SelectedProperties
<1>3. /\ n \in Nat /\ at \subseteq Nat
      /\ \A k \in at : Rank(at, k) \in 1 .. n
      /\ \A j, k \in at : j < k => Rank(at, j) < Rank(at, k)
      /\ \A p \in 1 .. n : \E k \in at : Rank(at, k) = p
  BY RankProperties
<1>4. ASSUME NEW k \in at PROVE S[Rank(at, k)] = s[k]
  <2> DEFINE p == Rank(at, k)
  <2>1. c(p) \in at /\ Rank(at, c(p)) = p
    OBVIOUS
  <2>2. p \in 1 .. n
    BY <1>3
  <2> HIDE DEF c
  <2>3. c(p) = k
    BY <1>3, <2>1
  <2>4. QED
    BY <1>1, <2>2, <2>3
<1> HIDE DEF S
<1>5. ASSUME NEW r \in Seq(T), Len(r) = n, \A k \in at : r[Rank(at, k)] = s[k]
      PROVE  r = S
  <2>1. \A p \in 1 .. n : r[p] = S[p]
    BY <1>3, <1>4, <1>5
  <2>2. QED
    BY <1>2, <1>5, <2>1, SeqEqual
<1>6. QED
  BY <1>4, <1>5 DEF S

(* Selecting from a longer sequence.                                        *)
LEMMA SelectedAppend ==
  ASSUME NEW T, NEW s \in Seq(T), NEW x \in T, NEW at \in SUBSET DOMAIN s
  PROVE  /\ Selected(Append(s, x), at) = Selected(s, at)
         /\ Selected(Append(s, x), at \cup {Len(s) + 1}) = Append(Selected(s, at), x)
<1> DEFINE t == Append(s, x)
           n == Len(s)
           bt == at \cup {n + 1}
           S == Selected(s, at)
           c == Cardinality(at)
<1>1. /\ t \in Seq(T) /\ n \in Nat /\ DOMAIN s = 1 .. n /\ DOMAIN t = 1 .. n + 1
      /\ t[n + 1] = x /\ \A k \in 1 .. n : t[k] = s[k]
  <2>1. t \in Seq(T) /\ Len(t) = n + 1
    OBVIOUS
  <2>2. QED
    BY <2>1, LenProperties
<1>2. S \in Seq(T) /\ Len(S) = c
  BY SelectedProperties
<1>3. /\ IsFiniteSet(at) /\ at \subseteq Nat /\ c \in Nat
      /\ \A k \in at : Rank(at, k) \in 1 .. c
  BY RankProperties
<1>4. \A k \in at : S[Rank(at, k)] = s[k]
  BY SelectedAt
<1>5. at \in SUBSET DOMAIN t /\ bt \in SUBSET DOMAIN t /\ n + 1 \notin at
  BY <1>1
<1>6. \A k \in at : t[k] = s[k]
  BY <1>1
<1> HIDE DEF t, S
<1>7. S = Selected(t, at)
  <2>1. \A r \in Seq(T) : /\ Len(r) = Cardinality(at)
                          /\ \A k \in at : r[Rank(at, k)] = t[k]
                          => r = Selected(t, at)
    BY <1>1, <1>5, SelectedAt
  <2>2. QED
    BY <1>2, <1>4, <1>6, <2>1
<1> DEFINE r == Append(S, x)
<1>8. /\ r \in Seq(T) /\ Len(r) = c + 1 /\ r[c + 1] = x
      /\ \A p \in 1 .. c : r[p] = S[p]
  BY <1>2, <1>3
<1>9. Cardinality(bt) = c + 1
  BY <1>3, <1>5, FS_AddElement
<1>10. ASSUME NEW k \in bt PROVE r[Rank(bt, k)] = t[k]
  <2>1. CASE k \in at
    <3>1. {j \in bt : j <= k} = {j \in at : j <= k}
      BY <1>1, <2>1
    <3>2. Rank(bt, k) = Rank(at, k)
      BY <3>1, Zenon DEF Rank
    <3> HIDE DEF r, bt
    <3>3. QED
      BY <1>3, <1>4, <1>6, <1>8, <2>1, <3>2
  <2>2. CASE k = n + 1
    <3>1. {j \in bt : j <= n + 1} = bt
      BY <1>1
    <3>2. Rank(bt, k) = c + 1
      BY <1>9, <2>2, <3>1, Zenon DEF Rank
    <3> HIDE DEF r, bt
    <3>3. QED
      BY <1>1, <1>8, <2>2, <3>2
  <2>3. QED
    BY <2>1, <2>2
<1> HIDE DEF r, bt
<1>11. r = Selected(t, bt)
  <2>1. \A q \in Seq(T) : /\ Len(q) = Cardinality(bt)
                          /\ \A k \in bt : q[Rank(bt, k)] = t[k]
                          => q = Selected(t, bt)
    BY <1>1, <1>5, SelectedAt
  <2>2. QED
    BY <1>8, <1>9, <1>10, <2>1
<1>12. QED
  BY <1>7, <1>11 DEF t, S, r, bt

(* Positions counted from the second element on.                            *)
LEMMA ShiftedCardinality ==
  ASSUME NEW A, NEW B, IsFiniteSet(A), A \subseteq Nat, B \subseteq Nat,
         \A k \in Nat : k \in B <=> k + 1 \in A
  PROVE  IsFiniteSet(B) /\ Cardinality(B) = Cardinality(A \ {0})
<1> DEFINE f == [a \in A \ {0} |-> a - 1]
<1>1. f \in Bijection(A \ {0}, B)
  <2>1. f \in [A \ {0} -> B]
    <3>1. ASSUME NEW a \in A \ {0} PROVE a - 1 \in B
      <4>1. a - 1 \in Nat /\ (a - 1) + 1 = a
        OBVIOUS
      <4>2. QED
        BY <4>1
    <3>2. QED
      BY <3>1
  <2>2. \A a, b \in A \ {0} : f[a] = f[b] => a = b
    <3>1. SUFFICES ASSUME NEW a \in A \ {0}, NEW b \in A \ {0}, a - 1 = b - 1 PROVE a = b
      OBVIOUS
    <3>2. a \in Nat /\ b \in Nat
      OBVIOUS
    <3>3. QED
      BY <3>1, <3>2
  <2>3. ASSUME NEW b \in B PROVE \E a \in A \ {0} : f[a] = b
    <3>1. b + 1 \in A \ {0} /\ (b + 1) - 1 = b
      OBVIOUS
    <3>2. QED
      BY <3>1
  <2>4. QED
    BY <2>1, <2>2, <2>3, Fun_IsBij
<1>2. IsFiniteSet(A \ {0})
  BY FS_Subset
<1>3. ExistsBijection(A \ {0}, B)
  BY <1>1 DEF ExistsBijection
<1>4. QED
  BY <1>2, <1>3, FS_Bijection

(* Selecting from the rest of a sequence.                                   *)
LEMMA SelectedTail ==
  ASSUME NEW T, NEW s \in Seq(T), s # <<>>, NEW at \in SUBSET DOMAIN s,
         NEW bt, bt = {k \in DOMAIN Tail(s) : k + 1 \in at}
  PROVE  IF 1 \in at
           THEN /\ Selected(s, at) # <<>> /\ Head(Selected(s, at)) = s[1]
                /\ Selected(Tail(s), bt) = Tail(Selected(s, at))
           ELSE Selected(Tail(s), bt) = Selected(s, at)
<1> DEFINE t == Tail(s)
           S == Selected(s, at)
           c == Cardinality(at)
           first == IF 1 \in at THEN 1 ELSE 0
<1>1. /\ t \in Seq(T) /\ Len(t) = Len(s) - 1 /\ Len(s) \in Nat \ {0}
      /\ \A k \in 1 .. Len(t) : t[k] = s[k + 1]
      /\ DOMAIN s = 1 .. Len(s) /\ DOMAIN t = 1 .. Len(t)
  <2>1. t \in Seq(T)
    BY HeadTailProperties
  <2>2. QED
    BY <2>1, HeadTailProperties, EmptySeq, LenProperties
<1>2. S \in Seq(T) /\ Len(S) = c
  BY SelectedProperties
<1>3. /\ IsFiniteSet(at) /\ at \subseteq Nat /\ c \in Nat
      /\ \A k \in at : Rank(at, k) \in 1 .. c
      /\ \A j, k \in at : j < k => Rank(at, j) < Rank(at, k)
  BY RankProperties
<1>4. \A k \in at : S[Rank(at, k)] = s[k]
  BY SelectedAt
<1> HIDE DEF t
<1>5. /\ bt \in SUBSET DOMAIN t /\ bt \subseteq Nat /\ 0 \notin at
      /\ \A k \in Nat : k \in bt <=> k + 1 \in at \ {1}
  <2>1. bt = {k \in 1 .. Len(t) : k + 1 \in at}
    BY <1>1 DEF t
  <2>2. at \subseteq 1 .. Len(t) + 1 /\ Len(t) \in Nat
    BY <1>1
  <2>3. ASSUME NEW k \in Nat PROVE k \in bt <=> k + 1 \in at \ {1}
    BY <2>1, <2>2
  <2>4. QED
    BY <1>1, <2>1, <2>2, <2>3
<1>6. Cardinality(bt) = c - first
  <2> DEFINE A == at \ {1}
  <2>1. IsFiniteSet(A) /\ A \subseteq Nat /\ A \ {0} = A /\ Cardinality(A) = c - first
    <3>1. A \subseteq Nat /\ A \ {0} = A
      BY <1>3, <1>5
    <3>2. IsFiniteSet(A) /\ Cardinality(A) = IF 1 \in at THEN c - 1 ELSE c
      BY <1>3, FS_RemoveElement
    <3> HIDE DEF A, c
    <3>3. QED
      BY <1>3, <3>1, <3>2
  <2>2. \A k \in Nat : k \in bt <=> k + 1 \in A
    BY <1>5
  <2> HIDE DEF A
  <2>3. Cardinality(bt) = Cardinality(A \ {0})
    BY <1>5, <2>1, <2>2, ShiftedCardinality
  <2>4. QED
    BY <2>1, <2>3
<1>7. ASSUME NEW k \in bt
      PROVE  k + 1 \in at /\ k + 1 # 1 /\ t[k] = s[k + 1] /\ Rank(bt, k) = Rank(at, k + 1) - first
  <2>1. k \in Nat /\ k \in 1 .. Len(t) /\ k + 1 \in at \ {1}
    BY <1>1, <1>5
  <2> DEFINE W == {j \in at : j <= k + 1}
             A == W \ {1}
             B == {j \in bt : j <= k}
  <2>2. W \in SUBSET at /\ (1 \in W <=> 1 \in at)
    BY <2>1
  <2>3. IsFiniteSet(W) /\ Cardinality(W) = Rank(at, k + 1) /\ Cardinality(B) = Rank(bt, k)
    BY <1>3, <2>2, FS_Subset DEF Rank
  <2>4. /\ A \subseteq Nat /\ B \subseteq Nat /\ 0 \notin A
        /\ \A j \in Nat : j \in B <=> j + 1 \in A
    BY <1>3, <1>5, <2>1
  <2> HIDE DEF W, B
  <2>5. IsFiniteSet(A) /\ Cardinality(A) = Cardinality(W) - first
    <3>1. IsFiniteSet(A) /\ Cardinality(A) = IF 1 \in W THEN Cardinality(W) - 1 ELSE Cardinality(W)
      BY <2>3, FS_RemoveElement
    <3>2. Cardinality(W) \in Nat
      BY <2>3, FS_CardinalityType
    <3> HIDE DEF A
    <3>3. QED
      BY <2>2, <3>1, <3>2
  <2> HIDE DEF A
  <2>6. Cardinality(B) = Cardinality(A \ {0})
    BY <2>4, <2>5, ShiftedCardinality
  <2>7. A \ {0} = A
    BY <2>4
  <2>8. QED
    BY <1>1, <2>1, <2>3, <2>5, <2>6, <2>7
<1> HIDE DEF S, c
<1>8. ASSUME NEW r \in Seq(T), Len(r) = Cardinality(bt), \A k \in bt : r[Rank(bt, k)] = t[k]
      PROVE  r = Selected(t, bt)
  <2>1. \A q \in Seq(T) : /\ Len(q) = Cardinality(bt)
                          /\ \A k \in bt : q[Rank(bt, k)] = t[k]
                          => q = Selected(t, bt)
    BY <1>1, <1>5, SelectedAt, ZenonT(30)
  <2>2. QED
    BY <1>8, <2>1
<1>9. CASE 1 \notin at
  <2>1. \A k \in bt : S[Rank(bt, k)] = t[k]
    <3>1. ASSUME NEW k \in bt PROVE S[Rank(bt, k)] = t[k]
      <4>1. Rank(bt, k) = Rank(at, k + 1) /\ k + 1 \in at /\ t[k] = s[k + 1]
        BY <1>3, <1>7, <1>9
      <4>2. QED
        BY <1>4, <4>1
    <3>2. QED
      BY <3>1
  <2>2. Len(S) = Cardinality(bt)
    BY <1>2, <1>3, <1>6, <1>9
  <2>3. S = Selected(t, bt)
    BY <1>2, <1>8, <2>1, <2>2
  <2>4. QED
    BY <1>9, <2>3 DEF t, S
<1>10. CASE 1 \in at
  <2>1. Rank(at, 1) = 1
    <3>1. {j \in at : j <= 1} = {1}
      BY <1>3, <1>5, <1>10
    <3>2. QED
      BY <3>1, FS_Singleton, Zenon DEF Rank
  <2>2. S[1] = s[1] /\ Len(S) # 0
    BY <1>2, <1>3, <1>4, <1>10, <2>1
  <2>3. /\ S # <<>> /\ Head(S) = s[1] /\ Tail(S) \in Seq(T) /\ Len(Tail(S)) = c - 1
        /\ \A p \in 1 .. c - 1 : Tail(S)[p] = S[p + 1]
    BY <1>2, <1>3, <2>2, HeadTailProperties, EmptySeq
  <2> DEFINE r == Tail(S)
  <2> HIDE DEF r
  <2>4. ASSUME NEW k \in bt PROVE r[Rank(bt, k)] = t[k]
    <3>1. /\ Rank(bt, k) = Rank(at, k + 1) - 1 /\ k + 1 \in at /\ t[k] = s[k + 1] /\ k \in Nat
          /\ k + 1 # 1
      BY <1>5, <1>7, <1>10
    <3>2. Rank(at, 1) < Rank(at, k + 1) /\ Rank(at, k + 1) \in 1 .. c
      BY <1>3, <1>10, <3>1
    <3>3. Rank(bt, k) \in 1 .. c - 1 /\ Rank(bt, k) + 1 = Rank(at, k + 1)
      <4>1. c \in Nat
        BY <1>3
      <4>2. QED
        BY <2>1, <3>1, <3>2, <4>1
    <3>4. QED
      BY <1>4, <2>3, <3>1, <3>3 DEF r
  <2>5. Len(r) = Cardinality(bt)
    BY <1>6, <1>10, <2>3 DEF r
  <2>6. r = Selected(t, bt)
    BY <1>8, <2>3, <2>4, <2>5 DEF r
  <2>7. QED
    BY <1>10, <2>3, <2>6 DEF t, S, r
<1>11. QED
  BY <1>9, <1>10-----------------------------------------------------------------------------

(* What IndexUpdates sees of the updates that wait.                         *)

DeltaType == [path: Files \cup {NoPath}, prev: IndexData, curr: IndexData]

AllDeltas(s) == [k \in DOMAIN s |-> Delta(s[k])]

(* The deltas of a sequence of updates, one by one.                         *)
LEMMA AllDeltasProperties ==
  ASSUME NEW s \in Seq(Updates)
  PROVE  /\ AllDeltas(s) \in Seq(DeltaType) /\ Len(AllDeltas(s)) = Len(s)
         /\ DOMAIN AllDeltas(s) = DOMAIN s
         /\ \A u \in Updates : AllDeltas(Append(s, u)) = Append(AllDeltas(s), Delta(u))
         /\ s # <<>> => /\ AllDeltas(s) # <<>> /\ AllDeltas(s)[1] = Delta(Head(s))
                        /\ AllDeltas(Tail(s)) = Tail(AllDeltas(s))
<1>1. \A u \in Updates : Delta(u) \in DeltaType
  BY DEF Updates, DeltaType, Delta, CreateDelta
<1>2. ASSUME NEW r \in Seq(Updates)
      PROVE  /\ AllDeltas(r) \in Seq(DeltaType) /\ Len(AllDeltas(r)) = Len(r)
             /\ DOMAIN AllDeltas(r) = 1 .. Len(r) /\ DOMAIN r = 1 .. Len(r) /\ Len(r) \in Nat
             /\ \A k \in 1 .. Len(r) : AllDeltas(r)[k] = Delta(r[k])
  <2>1. DOMAIN r = 1 .. Len(r) /\ Len(r) \in Nat /\ \A k \in 1 .. Len(r) : r[k] \in Updates
    BY LenProperties, ElementOfSeq
  <2>2. AllDeltas(r) = [k \in 1 .. Len(r) |-> Delta(r[k])]
    BY <2>1 DEF AllDeltas
  <2> HIDE DEF AllDeltas
  <2>3. AllDeltas(r) \in [1 .. Len(r) -> DeltaType]
    BY <1>1, <2>1, <2>2
  <2>4. AllDeltas(r) \in Seq(DeltaType) /\ Len(AllDeltas(r)) = Len(r)
    BY <2>1, <2>3, FunctionIsSeq
  <2>5. QED
    BY <2>1, <2>2, <2>4
<1> DEFINE D == AllDeltas(s)
<1>3. ASSUME NEW u \in Updates PROVE AllDeltas(Append(s, u)) = Append(D, Delta(u))
  <2> DEFINE t == Append(s, u)
             E == AllDeltas(t)
             x == Delta(u)
  <2>1. /\ t \in Seq(Updates) /\ Len(t) = Len(s) + 1 /\ t[Len(s) + 1] = u
        /\ \A k \in 1 .. Len(s) : t[k] = s[k]
    BY AppendProperties
  <2> HIDE DEF t
  <2>2. /\ E \in Seq(DeltaType) /\ Len(E) = Len(s) + 1
        /\ \A k \in 1 .. Len(s) + 1 : E[k] = Delta(t[k])
    BY <1>2, <2>1
  <2>3. /\ D \in Seq(DeltaType) /\ Len(D) = Len(s) /\ Len(s) \in Nat
        /\ \A k \in 1 .. Len(s) : D[k] = Delta(s[k])
    BY <1>2
  <2>4. x \in DeltaType
    BY <1>1
  <2> HIDE DEF D, E, x
  <2>5. /\ Append(D, x) \in Seq(DeltaType) /\ Len(Append(D, x)) = Len(s) + 1
        /\ Append(D, x)[Len(s) + 1] = x /\ \A k \in 1 .. Len(s) : Append(D, x)[k] = D[k]
    BY <2>3, <2>4
  <2>6. \A k \in 1 .. Len(s) + 1 : E[k] = Append(D, x)[k]
    <3>1. E[Len(s) + 1] = x
      BY <2>1, <2>2, <2>3 DEF x
    <3>2. \A k \in 1 .. Len(s) : E[k] = D[k]
      BY <2>1, <2>2, <2>3
    <3>3. QED
      BY <2>3, <2>5, <3>1, <3>2
  <2>7. E = Append(D, x)
    BY <2>2, <2>5, <2>6, SeqEqual
  <2>8. QED
    BY <2>7 DEF D, E, x, t
<1>4. ASSUME s # <<>>
      PROVE  /\ D # <<>> /\ D[1] = Delta(Head(s))
             /\ AllDeltas(Tail(s)) = Tail(D)
  <2> DEFINE t == Tail(s)
             E == AllDeltas(t)
  <2>1. /\ t \in Seq(Updates) /\ Len(t) = Len(s) - 1 /\ Head(s) = s[1]
        /\ \A k \in 1 .. Len(t) : t[k] = s[k + 1]
        /\ Len(s) \in Nat \ {0}
    <3>1. t \in Seq(Updates)
      BY <1>4, HeadTailProperties
    <3>2. QED
      BY <1>4, <3>1, HeadTailProperties, EmptySeq, LenProperties
  <2> HIDE DEF t
  <2>2. /\ E \in Seq(DeltaType) /\ Len(E) = Len(s) - 1
        /\ \A k \in 1 .. Len(s) - 1 : E[k] = Delta(t[k])
    BY <1>2, <2>1
  <2>3. /\ D \in Seq(DeltaType) /\ Len(D) = Len(s)
        /\ \A k \in 1 .. Len(s) : D[k] = Delta(s[k])
    BY <1>2
  <2> HIDE DEF D, E
  <2>4. D # <<>> /\ D[1] = Delta(Head(s))
    BY <2>1, <2>3, EmptySeq
  <2>5. /\ Tail(D) \in Seq(DeltaType) /\ Len(Tail(D)) = Len(s) - 1
        /\ \A k \in 1 .. Len(s) - 1 : Tail(D)[k] = D[k + 1]
    BY <2>1, <2>3, <2>4, HeadTailProperties
  <2>6. \A k \in 1 .. Len(s) - 1 : E[k] = Tail(D)[k]
    <3>1. ASSUME NEW k \in 1 .. Len(s) - 1 PROVE E[k] = Tail(D)[k]
      <4>1. k \in 1 .. Len(t) /\ k + 1 \in 1 .. Len(s)
        BY <2>1
      <4>2. E[k] = Delta(s[k + 1])
        BY <2>1, <2>2, <4>1
      <4>3. QED
        BY <2>3, <2>5, <4>1, <4>2
    <3>2. QED
      BY <3>1
  <2>7. E = Tail(D)
    BY <2>2, <2>5, <2>6, SeqEqual
  <2>8. QED
    BY <2>4, <2>7 DEF E, t
<1>5. QED
  BY <1>2, <1>3, <1>4

(* The positions of the updates that are not dummies. *)
Real(s) == {k \in DOMAIN s : s[k].path # NoPath}

(* What the deltas become when an update is pushed and when the first is    *)
(* taken; the dummies leave no trace.                                       *)
LEMMA DeltasOfProperties ==
  ASSUME NEW s \in Seq(Updates)
  PROVE  /\ DeltasOf(s) \in Seq(DeltaType)
         /\ \A u \in Updates :
              DeltasOf(Append(s, u)) =
                IF u.path = NoPath THEN DeltasOf(s) ELSE Append(DeltasOf(s), Delta(u))
         /\ s # <<>> =>
              IF Head(s).path = NoPath
                THEN DeltasOf(Tail(s)) = DeltasOf(s)
                ELSE /\ DeltasOf(s) # <<>> /\ Head(DeltasOf(s)) = Delta(Head(s))
                     /\ DeltasOf(Tail(s)) = Tail(DeltasOf(s))
<1> DEFINE D == AllDeltas(s)
           n == Len(s)
<1>1. \A r : DeltasOf(r) = Selected(AllDeltas(r), Real(r))
  BY DEF DeltasOf, AllDeltas, Real
<1>2. /\ D \in Seq(DeltaType) /\ Len(D) = n /\ DOMAIN D = DOMAIN s
      /\ n \in Nat /\ DOMAIN s = 1 .. n
  BY AllDeltasProperties, LenProperties
<1>3. Real(s) \in SUBSET DOMAIN D
  BY <1>2 DEF Real
<1>4. DeltasOf(s) \in Seq(DeltaType)
  <2> HIDE DEF D
  <2>1. Selected(D, Real(s)) \in Seq(DeltaType)
    BY <1>2, <1>3, SelectedProperties
  <2>2. QED
    BY <1>1, <2>1 DEF D
<1>5. ASSUME NEW u \in Updates
      PROVE  DeltasOf(Append(s, u)) =
               IF u.path = NoPath THEN DeltasOf(s) ELSE Append(DeltasOf(s), Delta(u))
  <2> DEFINE t == Append(s, u)
             x == Delta(u)
  <2>1. /\ t \in Seq(Updates) /\ DOMAIN t = 1 .. n + 1 /\ t[n + 1] = u
        /\ \A k \in 1 .. n : t[k] = s[k]
    <3>1. t \in Seq(Updates) /\ Len(t) = n + 1
      BY AppendProperties
    <3>2. QED
      BY <3>1, AppendProperties, LenProperties
  <2>2. AllDeltas(t) = Append(D, x)
    BY AllDeltasProperties
  <2>3. x \in DeltaType
    BY DEF Updates, DeltaType, Delta, CreateDelta
  <2>4. Real(t) = IF u.path = NoPath THEN Real(s) ELSE Real(s) \cup {n + 1}
    <3> HIDE DEF t
    <3>1. \A k \in 1 .. n + 1 : k \in 1 .. n \/ k = n + 1
      BY <1>2
    <3>2. \A k : k \in Real(t) <=> (k \in 1 .. n /\ k \in Real(s)) \/ (k = n + 1 /\ u.path # NoPath)
      BY <1>2, <2>1, <3>1 DEF Real
    <3>3. \A k : k \in Real(s) => k \in 1 .. n
      BY <1>2 DEF Real
    <3>4. QED
      BY <3>2, <3>3
  <2> HIDE DEF D, t, x
  <2>5. /\ Selected(Append(D, x), Real(s)) = Selected(D, Real(s))
        /\ Selected(Append(D, x), Real(s) \cup {n + 1}) = Append(Selected(D, Real(s)), x)
    <3>1. /\ Selected(Append(D, x), Real(s)) = Selected(D, Real(s))
          /\ Selected(Append(D, x), Real(s) \cup {Len(D) + 1}) = Append(Selected(D, Real(s)), x)
      BY <1>2, <1>3, <2>3, SelectedAppend, ZenonT(30)
    <3>2. QED
      BY <1>2, <3>1
  <2>6. DeltasOf(t) = IF u.path = NoPath THEN DeltasOf(s) ELSE Append(DeltasOf(s), x)
    BY <1>1, <2>2, <2>4, <2>5 DEF D
  <2>7. QED
    BY <2>6 DEF t, x
<1>6. ASSUME s # <<>>
      PROVE  IF Head(s).path = NoPath
               THEN DeltasOf(Tail(s)) = DeltasOf(s)
               ELSE /\ DeltasOf(s) # <<>> /\ Head(DeltasOf(s)) = Delta(Head(s))
                    /\ DeltasOf(Tail(s)) = Tail(DeltasOf(s))
  <2> DEFINE t == Tail(s)
  <2>1. /\ t \in Seq(Updates) /\ Head(s) = s[1] /\ n # 0
        /\ DOMAIN t = 1 .. n - 1 /\ \A k \in 1 .. n - 1 : t[k] = s[k + 1]
    <3>1. t \in Seq(Updates)
      BY <1>6, HeadTailProperties
    <3>2. QED
      BY <1>6, <3>1, HeadTailProperties, EmptySeq, LenProperties
  <2>2. D # <<>> /\ D[1] = Delta(Head(s)) /\ AllDeltas(t) = Tail(D)
    BY <1>6, AllDeltasProperties
  <2> HIDE DEF D, t
  <2>3. DOMAIN Tail(D) = 1 .. n - 1
    <3>1. Tail(D) \in Seq(DeltaType) /\ Len(Tail(D)) = n - 1
      BY <1>2, <2>2, HeadTailProperties
    <3>2. QED
      BY <3>1, LenProperties
  <2>4. Real(t) = {k \in DOMAIN Tail(D) : k + 1 \in Real(s)}
    <3>1. \A k \in 1 .. n - 1 : k + 1 \in DOMAIN s /\ t[k] = s[k + 1]
      BY <1>2, <2>1
    <3>2. QED
      BY <2>1, <2>3, <3>1 DEF Real
  <2>5. 1 \in Real(s) <=> Head(s).path # NoPath
    BY <1>2, <2>1 DEF Real
  <2>6. IF 1 \in Real(s)
          THEN /\ Selected(D, Real(s)) # <<>> /\ Head(Selected(D, Real(s))) = D[1]
               /\ Selected(Tail(D), Real(t)) = Tail(Selected(D, Real(s)))
          ELSE Selected(Tail(D), Real(t)) = Selected(D, Real(s))
    BY <1>2, <1>3, <2>2, <2>4, SelectedTail
  <2>7. DeltasOf(t) = Selected(Tail(D), Real(t)) /\ DeltasOf(s) = Selected(D, Real(s))
    BY <1>1, <2>2 DEF D
  <2>8. QED
    BY <2>2, <2>5, <2>6, <2>7 DEF t
<1>7. QED
  BY <1>4, <1>5, <1>6

(* Nothing waits.                                                           *)
LEMMA DeltasOfEmpty == DeltasOf(<<>>) = <<>>
<1>1. <<>> \in Seq(Updates) /\ DOMAIN <<>> = {}
  OBVIOUS
<1>2. AllDeltas(<<>>) \in Seq(DeltaType) /\ Real(<<>>) = {}
  BY <1>1, AllDeltasProperties DEF Real
<1>3. /\ Selected(AllDeltas(<<>>), Real(<<>>)) \in Seq(DeltaType)
      /\ Len(Selected(AllDeltas(<<>>), Real(<<>>))) = 0
  BY <1>2, SelectedProperties, FS_EmptySet
<1>4. DeltasOf(<<>>) = Selected(AllDeltas(<<>>), Real(<<>>))
  BY DEF DeltasOf, AllDeltas, Real
<1>5. QED
  BY <1>3, <1>4, EmptySeq

-----------------------------------------------------------------------------
(* What the caches hold of a file is what a parse of it can yield.          *)

Yields(f) == {IndexAt[f][v] : v \in 1 .. MaxMtime} \cup {EmptyIndex}

(* The indexes of a file that agree with the contents they came with; the   *)
(* empty one of a deleted file has none.                                    *)
Made(f) ==
  {NoIndex} \cup {index \in IndexFiles :
                    index.data = EmptyIndex \/ MadeFrom(f, index.data, index.mtime)}

Yielded == \A f \in Files : g_index[f] \in Made(f) /\ disk_cache[f] \in Made(f)

(* What an indexer stores for a file that it claimed is such an index.      *)
LEMMA MadeIndexMade ==
  ASSUME NEW w \in WorkerType, Locals(w), NEW f \in w.claims
  PROVE  f \in Files /\ MadeIndex(w, f) \in IndexFiles /\ MadeIndex(w, f) \in Made(f)
<1>1. f \in Files /\ (w.deleted \/ w.seen[f] # 0)
  BY DEF Locals, WorkerType
<1>2. MadeIndex(w, f) \in IndexFiles
  BY <1>1, MadeIndexType
<1>3. CASE w.deleted
  BY <1>1, <1>2, <1>3 DEF MadeIndex, DeletedIndex, Made
<1>4. CASE ~w.deleted
  <2>1. w.seen[f] \in 1 .. MaxMtime
    BY <1>1, <1>4, IndexAssumption DEF WorkerType, Mtimes
  <2>2. MadeIndex(w, f).data = IndexAt[f][w.seen[f]] /\ MadeIndex(w, f).mtime = w.seen[f]
    BY <1>4 DEF MadeIndex
  <2>3. QED
    BY <1>1, <1>2, <2>1, <2>2 DEF Made, MadeFrom
<1>5. QED
  BY <1>3, <1>4

(* So is what rawCacheLoad returns.                                         *)
LEMMA RawCacheLoadMade ==
  ASSUME Yielded, NEW f \in Files PROVE RawCacheLoad(f) \in Made(f)
<1>1. g_index[f] \in Made(f) /\ disk_cache[f] \in Made(f) /\ NoIndex \in Made(f)
  BY DEF Yielded, Made
<1> HIDE DEF Made
<1>2. QED
  BY <1>1 DEF RawCacheLoad

(* What such an index contributes to the database a parse can yield.        *)
LEMMA MadeYields ==
  ASSUME NEW f \in Files, NEW index \in Made(f)
  PROVE  Data(index) \in Yields(f)
<1>1. CASE index = NoIndex
  BY <1>1 DEF Data, Yields
<1>2. CASE index \in IndexFiles /\ index.data = EmptyIndex
  BY <1>2, NoIndexAssumption DEF Data, Yields
<1>3. CASE index \in IndexFiles /\ MadeFrom(f, index.data, index.mtime)
  BY <1>3, NoIndexAssumption DEF Data, Yields, MadeFrom
<1>4. QED
  BY <1>1, <1>2, <1>3 DEF Made

(* So does what the next delta is taken against.                            *)
LEMMA CachedYielded ==
  ASSUME Yielded, NEW f \in Files PROVE Cached(f) \in Yields(f)
  BY RawCacheLoadMade, MadeYields DEF Cached

(* Only a store writes an index into a cache.                               *)
LEMMA NextYielded ==
  ASSUME TypeOK, Parsing, Yielded, [Next]_vars
  PROVE  Yielded'
<1>1. /\ g_index \in [Files -> IndexFiles \cup {NoIndex}]
      /\ disk_cache \in [Files -> IndexFiles \cup {NoIndex}]
      /\ worker \in [Indexers -> WorkerType]
  BY DEF TypeOK, CacheType
<1>2. \A f \in Files : NoIndex \in Made(f)
  BY DEF Made
<1>3. ASSUME \A f \in Files : /\ g_index'[f] \in {g_index[f], NoIndex}
                              /\ disk_cache'[f] \in {disk_cache[f], NoIndex}
      PROVE  Yielded'
  <2>1. \A f \in Files : g_index[f] \in Made(f) /\ disk_cache[f] \in Made(f)
    BY DEF Yielded
  <2> HIDE DEF Made
  <2>2. \A f \in Files : g_index'[f] \in Made(f) /\ disk_cache'[f] \in Made(f)
    BY <1>2, <1>3, <2>1
  <2>3. QED
    BY <2>2, Zenon DEF Yielded, Made
<1>4. CASE UNCHANGED <<g_index, disk_cache>>
  BY <1>3, <1>4
<1>5. ASSUME NEW i \in Indexers, StoreWrite(i) PROVE Yielded'
  <2> DEFINE w == worker[i]
             f == w.file
             made == MadeIndex(w, f)
  <2>1. w \in WorkerType /\ Locals(w) /\ w.pc = "write" /\ f \in w.claims
    BY <1>1, <1>5 DEF Parsing, StoreWrite, Locals
  <2>2. f \in Files /\ made \in Made(f)
    BY <2>1, MadeIndexMade
  <2>3. /\ g_index' = g_index \/ g_index' = [g_index EXCEPT ![f] = made]
        /\ \/ disk_cache' = disk_cache
           \/ disk_cache' = [disk_cache EXCEPT ![f] = NoIndex]
           \/ disk_cache' = [disk_cache EXCEPT ![f] = made]
    BY <1>5 DEF StoreWrite
  <2> HIDE DEF made, f
  <2>4. ASSUME NEW g \in Files
        PROVE  g_index'[g] \in Made(g) /\ disk_cache'[g] \in Made(g)
    <3>1. g_index[g] \in Made(g) /\ disk_cache[g] \in Made(g)
      BY DEF Yielded
    <3>2. /\ g_index'[g] = g_index[g] \/ (g = f /\ g_index'[g] = made)
          /\ \/ disk_cache'[g] \in {disk_cache[g], NoIndex}
             \/ g = f /\ disk_cache'[g] = made
      BY <1>1, <2>3
    <3> HIDE DEF Made
    <3>3. QED
      BY <1>2, <2>2, <3>1, <3>2
  <2>5. QED
    BY <2>4, Zenon DEF Yielded, Made
<1>6. ASSUME NEW i \in Indexers, Indexer(i), ~StoreWrite(i) PROVE Yielded'
  <2>1. UNCHANGED <<g_index, disk_cache>>
    BY <1>6, Zenon DEF Indexer, PopDummy, PopNoEntry, Pop, Stamp, CacheCheck, CacheLoad, DepStamp,
         DepLoad, DepsDone, SeenFile, ParseEnd, ParseGone, ParseCrash, StoreRead, StorePush,
         StoreCount, StoreDone, indexerVars
  <2>2. QED
    BY <1>4, <2>1
<1>7. CASE OnIndexed
  BY <1>4, <1>7 DEF OnIndexed, indexerVars
<1>8. ASSUME NEW f \in Files, DidClose(f) PROVE Yielded'
  <2>1. /\ g_index' = g_index \/ g_index' = [g_index EXCEPT ![f] = NoIndex]
        /\ disk_cache' = disk_cache
    BY <1>8 DEF DidClose
  <2>2. QED
    BY <1>1, <1>3, <2>1
<1>9. CASE \E f \in Files : Edit(f) \/ Remove(f) \/ DidSave(f)
                            \/ DidChangeWatchedFiles(f) \/ DidOpen(f)
  BY <1>4, <1>9 DEF Edit, Remove, DidSave, DidChangeWatchedFiles, DidOpen, unchangedByClient
<1>10. CASE DidChangeConfiguration \/ Reload
  BY <1>4, <1>10 DEF DidChangeConfiguration, Reload, unchangedByClient
<1>11. CASE CleanRestart \/ Crash
  <2>1. g_index' = [f \in Files |-> NoIndex] /\ disk_cache' = disk_cache
    BY <1>11 DEF CleanRestart, Crash, Restart
  <2>2. QED
    BY <1>3, <2>1
<1>12. CASE UNCHANGED vars
  BY <1>4, <1>12 DEF vars, indexerVars
<1>13. QED
  BY <1>5, <1>6, <1>7, <1>8, <1>9, <1>10, <1>11, <1>12 DEF Next, Client

-----------------------------------------------------------------------------
(* Every step of the pipeline is a step of IndexUpdates, or none.           *)

(* The operators of QueryDB mean the same in the instance.                  *)
LEMMA SameDatabase ==
  /\ AbstractUpdates!EmptyIndex = EmptyIndex /\ AbstractUpdates!EmptyDB = EmptyDB
  /\ \A f, prev, curr : AbstractUpdates!CreateDelta(f, prev, curr) = CreateDelta(f, prev, curr)
  /\ \A d, u : AbstractUpdates!ApplyIndexUpdate(d, u) = ApplyIndexUpdate(d, u)
<1>1. AbstractUpdates!EmptyIndex = EmptyIndex /\ AbstractUpdates!EmptyDB = EmptyDB
  BY DEF AbstractUpdates!EmptyIndex, EmptyIndex, AbstractUpdates!EmptyDB, EmptyDB
<1>2. ASSUME NEW f, NEW prev, NEW curr
      PROVE  AbstractUpdates!CreateDelta(f, prev, curr) = CreateDelta(f, prev, curr)
  BY DEF AbstractUpdates!CreateDelta, CreateDelta
<1>3. ASSUME NEW d, NEW u
      PROVE  AbstractUpdates!ApplyIndexUpdate(d, u) = ApplyIndexUpdate(d, u)
  BY Zenon DEF AbstractUpdates!ApplyIndexUpdate, ApplyIndexUpdate,
       AbstractUpdates!FileDefAfter, FileDefAfter, AbstractUpdates!RefsTo, RefsTo,
       AbstractUpdates!RemoveAdd, RemoveAdd, AbstractUpdates!One, One,
       AbstractUpdates!DefsAfter, DefsAfter
<1>4. QED
  BY <1>1, <1>2, <1>3

(* The update that is applied and its delta do the same to the database.    *)
LEMMA DeltaApplies ==
  ASSUME NEW d, NEW u
  PROVE  ApplyIndexUpdate(d, Delta(u)) = ApplyIndexUpdate(d, u)
<1>1. Delta(u).path = u.path /\ Delta(u).prev = u.prev /\ Delta(u).curr = u.curr
  BY DEF Delta, CreateDelta
<1> DEFINE v == Delta(u)
<1>2. v.path = u.path /\ v.prev = u.prev /\ v.curr = u.curr
  BY <1>1
<1> HIDE DEF v
<1>3. ApplyIndexUpdate(d, v) = ApplyIndexUpdate(d, u)
  BY <1>2, Zenon DEF ApplyIndexUpdate, FileDefAfter, RefsTo, RemoveAdd, One, DefsAfter
<1>4. QED
  BY <1>3 DEF v

(* A push of an update that continues the chain of its file is a store.     *)
LEMMA PushStores ==
  ASSUME TypeOK, NEW f \in Files, NEW u \in Updates, NEW p \in BOOLEAN,
         on_indexed' = PushBack(on_indexed, u, p), InTurn, UNCHANGED <<db, applied>>,
         u.path = f, u.prev = LastPushed(f), u.curr \in Yields(f)
  PROVE  AbstractUpdates!Next
<1> DEFINE s == Contents(on_indexed)
           index == u.curr
<1>1. s \in Seq(Updates) /\ Contents(on_indexed)' = Append(s, u)
  BY PushContents
<1>2. \A g \in Files : LastPushed(g)' = IF g = f THEN index ELSE LastPushed(g)
  BY PushInTurn
<1>3. Deltas = DeltasOf(s) /\ Deltas' = DeltasOf(Append(s, u))
  BY <1>1 DEF Deltas, DeltasOf, Selected
<1>4. DeltasOf(Append(s, u)) = Append(DeltasOf(s), Delta(u))
  <2> HIDE DEF s
  <2>1. QED
    BY <1>1, DeltasOfProperties, Facts
<1>5. Delta(u) = CreateDelta(f, LastPushed(f), index)
  BY DEF Delta
<1>6. AbstractUpdates!CreateDelta(f, LastPushed(f), index) = CreateDelta(f, LastPushed(f), index)
  BY SameDatabase
<1> HIDE DEF s, index
<1>7. Deltas' = Append(Deltas, AbstractUpdates!CreateDelta(f, LastPushed(f), index))
  BY <1>3, <1>4, <1>5, <1>6
<1>8. [g \in Files |-> LastPushed(g)'] = [[g \in Files |-> LastPushed(g)] EXCEPT ![f] = index]
  BY <1>2
<1>9. [g \in Files |-> LastPushed(g)][f] = LastPushed(f)
  OBVIOUS
<1>10. ~(0 > 0)
  OBVIOUS
<1>11. AbstractUpdates!Store(f, index)
  BY <1>7, <1>8, <1>9, <1>10, Zenon DEF AbstractUpdates!Store
<1>12. index \in [g \in Files |-> {IndexAt[g][v] : v \in 1 .. MaxMtime}][f]
                  \cup {AbstractUpdates!EmptyIndex}
  BY SameDatabase DEF index, Yields
<1>13. QED
  BY <1>11, <1>12, Zenon DEF AbstractUpdates!Next

(* A step that leaves the files' last updates and the deltas alone is none. *)
LEMMA Stutters ==
  ASSUME Deltas' = Deltas, UNCHANGED <<db, applied>>,
         \A f \in Files : LastPushed(f)' = LastPushed(f)
  PROVE  UNCHANGED AbstractUpdates!vars
<1>1. [f \in Files |-> LastPushed(f)'] = [f \in Files |-> LastPushed(f)]
  OBVIOUS
<1>2. QED
  BY <1>1, Zenon DEF AbstractUpdates!vars

(* So is one that leaves the queue and the database alone.                  *)
LEMMA QuietStutters ==
  ASSUME TypeOK, UNCHANGED <<on_indexed, db, applied>>
  PROVE  UNCHANGED AbstractUpdates!vars
<1>1. Deltas' = Deltas
  BY DEF Deltas, DeltasOf, Contents, Selected
<1>2. \A f \in Files : LastPushed(f)' = LastPushed(f)
  BY FileUnchanged
<1>3. QED
  BY <1>1, <1>2, Stutters

(* The steps of an indexer: what it pushes continues the chain.             *)
LEMMA IndexerRefines ==
  ASSUME ChainInv, Yielded, InTurn, NEW i \in Indexers, Indexer(i)
  PROVE  AbstractUpdates!Next \/ UNCHANGED AbstractUpdates!vars
<1> DEFINE w == worker[i]
<1>1. /\ TypeOK /\ w \in WorkerType /\ Locals(w) /\ Linked(w, i)
      /\ Interactive(w.req) \in BOOLEAN
  BY DEF ChainInv, TypeOK, Parsing, Chained, Interactive
<1>2. UNCHANGED <<db, applied>>
  BY Zenon DEF Indexer, PopDummy, PopNoEntry, Pop, Stamp, CacheCheck, CacheLoad, DepStamp,
         DepLoad, DepsDone, SeenFile, ParseEnd, ParseGone, ParseCrash, StoreRead, StoreWrite,
         StorePush, StoreCount, StoreDone, mainVars
<1>3. CASE UNCHANGED on_indexed
  BY <1>1, <1>2, <1>3, QuietStutters
<1>4. CASE PopDummy(i)
  <2> DEFINE s == Contents(on_indexed)
  <2>1. on_indexed' = PushBack(on_indexed, RefreshUpdate, FALSE)
    BY <1>4 DEF PopDummy
  <2>2. RefreshUpdate \in Updates /\ RefreshUpdate.path = NoPath
    BY Facts DEF RefreshUpdate, Updates
  <2>3. s \in Seq(Updates) /\ Contents(on_indexed)' = Append(s, RefreshUpdate)
    BY <1>1, <2>1, <2>2, PushContents
  <2>4. Deltas = DeltasOf(s) /\ Deltas' = DeltasOf(Append(s, RefreshUpdate))
    BY <2>3 DEF Deltas, DeltasOf, Selected
  <2>5. \A f \in Files : LastPushed(f)' = LastPushed(f)
    BY <1>1, <1>2, <2>1, <2>2, PushInTurn, Facts
  <2> HIDE DEF s
  <2>6. DeltasOf(Append(s, RefreshUpdate)) = DeltasOf(s)
    BY <2>2, <2>3, DeltasOfProperties
  <2>7. QED
    BY <1>2, <2>4, <2>5, <2>6, Stutters
<1>5. CASE CacheLoad(i)
  <2>1. w.pc = "load" /\ w.prev \in IndexFiles /\ w.prev # NoIndex
    BY <1>1, <1>5 DEF CacheLoad, Locals, WorkerType
  <2>2. PICK f \in Files : f = w.req.path
    BY <1>1, <2>1 DEF Locals
  <2> DEFINE u == Update(f, NoIndex, w.prev)
  <2>3. Cached(f) = Data(w.prev) /\ LastPushed(f) = EmptyIndex
    <3>1. Holds(w) /\ HeldFile(w) = f
      BY <2>1, <2>2 DEF Holds, HeldFile
    <3>2. Link(w, f, vfs[f].loaded, Cached(f), LastPushed(f))
      BY <1>1, <3>1 DEF Linked
    <3>3. QED
      BY <2>1, <3>2 DEF Link
  <2>4. u \in Updates /\ u.path = f /\ u.curr = Data(w.prev) /\ u.prev = EmptyIndex
    BY <2>1, UpdateProperties DEF Data
  <2>5. on_indexed' = PushBack(on_indexed, u, Interactive(w.req))
    BY <1>5, <2>2 DEF CacheLoad
  <2>6. Data(w.prev) \in Yields(f)
    BY <2>3, CachedYielded
  <2> HIDE DEF u
  <2>7. QED
    BY <1>1, <1>2, <2>3, <2>4, <2>5, <2>6, PushStores
<1>6. CASE DepLoad(i) /\ ~UNCHANGED on_indexed
  <2>1. PICK d \in Files : d = w.file /\ file_mutex[d] = NoPath
    BY <1>1, <1>6 DEF DepLoad, Locals
  <2> DEFINE prev == RawCacheLoad(d)
             u == Update(d, NoIndex, prev)
  <2>2. /\ prev # NoIndex /\ vfs[d].loaded = 0
        /\ on_indexed' = PushBack(on_indexed, u, Interactive(w.req))
    BY <1>6, <2>1 DEF DepLoad
  <2>3. prev \in IndexFiles
    BY <1>1, <2>1, <2>2, RawCacheLoadType DEF TypeOK
  <2>4. u \in Updates /\ u.path = d /\ u.curr = Data(prev) /\ u.prev = EmptyIndex
    BY <2>1, <2>2, <2>3, UpdateProperties, ZenonT(30) DEF Data
  <2>5. LastPushed(d) = EmptyIndex
    BY <2>1, <2>2 DEF ChainInv, CacheIsLastPushed
  <2>6. Data(prev) \in Yields(d)
    BY <2>1, CachedYielded DEF Cached
  <2> HIDE DEF u, prev
  <2>7. QED
    BY <1>1, <1>2, <2>2, <2>4, <2>5, <2>6, PushStores
<1>7. CASE StorePush(i)
  <2>1. w.pc = "push"
    BY <1>7 DEF StorePush
  <2>2. PICK f \in Files : /\ f = w.file /\ f \in w.claims
                           /\ Link(w, f, vfs[f].loaded, Cached(f), LastPushed(f))
    <3>1. Holds(w) /\ HeldFile(w) = w.file /\ w.file \in w.claims
      BY <1>1, <2>1 DEF Holds, HeldFile, Locals
    <3>2. QED
      BY <1>1, <3>1 DEF Linked
  <2> DEFINE made == MadeIndex(w, f)
             u == Update(f, w.prev, made)
  <2>3. on_indexed' = PushBack(on_indexed, u, Interactive(w.req))
    BY <1>7, <2>2 DEF StorePush
  <2>4. made \in IndexFiles /\ w.prev \in IndexFiles \cup {NoIndex}
    <3>1. w.deleted \/ w.seen[f] # 0
      BY <1>1, <2>2 DEF Locals
    <3>2. QED
      BY <1>1, <2>2, <3>1, MadeIndexType DEF WorkerType
  <2>5. Cached(f) = made.data /\ LastPushed(f) = Data(w.prev)
    BY <2>1, <2>2 DEF Link
  <2> HIDE DEF made
  <2>6. u \in Updates /\ u.path = f /\ u.curr = made.data /\ u.prev = Data(w.prev)
    BY <2>4, UpdateProperties
  <2>7. made.data \in Yields(f)
    BY <2>5, CachedYielded
  <2> HIDE DEF u
  <2>8. QED
    BY <1>1, <1>2, <2>3, <2>5, <2>6, <2>7, PushStores
<1>8. CASE \/ PopNoEntry(i) \/ Pop(i) \/ Stamp(i) \/ CacheCheck(i) \/ DepStamp(i) \/ DepsDone(i)
           \/ SeenFile(i) \/ ParseEnd(i) \/ ParseGone(i) \/ ParseCrash(i) \/ StoreRead(i)
           \/ StoreWrite(i) \/ StoreCount(i) \/ StoreDone(i)
  <2>1. UNCHANGED on_indexed
    BY <1>8, Zenon DEF PopNoEntry, Pop, Stamp, CacheCheck, DepStamp, DepsDone, SeenFile, ParseEnd,
         ParseGone, ParseCrash, StoreRead, StoreWrite, StoreCount, StoreDone
  <2>2. QED
    BY <1>3, <2>1
<1>9. QED
  BY <1>3, <1>4, <1>5, <1>6, <1>7, <1>8 DEF Indexer

(* The main thread applies the first update, or drops a dummy.              *)
LEMMA OnIndexedRefines ==
  ASSUME TypeOK, OnIndexed
  PROVE  AbstractUpdates!Next \/ UNCHANGED AbstractUpdates!vars
<1> DEFINE s == Contents(on_indexed)
           u == Front(on_indexed)
           v == Delta(u)
<1>1. CanPop(on_indexed) /\ on_indexed' = PopFront(on_indexed)
  BY DEF OnIndexed
<1>2. on_indexed \in QueueOf(Updates) /\ applied \in [Files -> IndexData]
  BY DEF TypeOK, QueueType, DatabaseType
<1>3. s \in Seq(Updates) /\ s # <<>> /\ u = Head(s) /\ Contents(on_indexed)' = Tail(s) /\ u \in Updates
  BY <1>1, <1>2, PopFrontProperties DEF CanPop, Front, Contents
<1>4. /\ u.path = NoPath => UNCHANGED <<db, applied>>
      /\ u.path # NoPath => /\ db' = ApplyIndexUpdate(db, u)
                            /\ applied' = [applied EXCEPT ![u.path] = u.curr]
  BY DEF OnIndexed
<1>5. \A f \in Files : applied'[f] = IF u.path = f THEN u.curr ELSE applied[f]
  BY <1>2, <1>4, Facts
<1>6. ASSUME NEW f \in Files PROVE LastPushed(f)' = LastPushed(f)
  <2>1. LastPushed(f)' = LastFor(f, Tail(s), applied'[f])
    BY <1>3 DEF LastPushed, LastFor
  <2>2. LastPushed(f) = LastFor(f, s, applied[f])
    BY DEF LastPushed
  <2> HIDE DEF s, u
  <2>3. QED
    BY <1>3, <1>5, <2>1, <2>2, LastForTail
<1>7. Deltas = DeltasOf(s) /\ Deltas' = DeltasOf(Tail(s))
  BY <1>3 DEF Deltas, DeltasOf, Selected
<1>8. IF u.path = NoPath
        THEN DeltasOf(Tail(s)) = DeltasOf(s)
        ELSE /\ DeltasOf(s) # <<>> /\ Head(DeltasOf(s)) = v
             /\ DeltasOf(Tail(s)) = Tail(DeltasOf(s))
  <2> HIDE DEF s, u
  <2>1. QED
    BY <1>3, DeltasOfProperties
<1>9. CASE u.path = NoPath
  BY <1>4, <1>6, <1>7, <1>8, <1>9, Stutters
<1>10. CASE u.path # NoPath
  <2>1. v.path = u.path /\ v.curr = u.curr
    BY DEF Delta, CreateDelta
  <2>2. AbstractUpdates!ApplyIndexUpdate(db, v) = ApplyIndexUpdate(db, u)
    BY SameDatabase, DeltaApplies, Zenon
  <2>3. /\ Deltas # <<>> /\ Head(Deltas) = v /\ Deltas' = Tail(Deltas)
    BY <1>7, <1>8, <1>10
  <2>4. /\ db' = AbstractUpdates!ApplyIndexUpdate(db, v)
        /\ applied' = [applied EXCEPT ![v.path] = v.curr]
    BY <1>4, <1>10, <2>1, <2>2
  <2>5. [f \in Files |-> LastPushed(f)'] = [f \in Files |-> LastPushed(f)]
    BY <1>6
  <2> HIDE DEF v
  <2>6. AbstractUpdates!Apply
    BY <2>3, <2>4, <2>5, Zenon DEF AbstractUpdates!Apply
  <2>7. QED
    BY <2>6 DEF AbstractUpdates!Next
<1>11. QED
  BY <1>9, <1>10

(* A reload of an idle pipeline and a start of the server empty the         *)
(* database and find nothing on its way there.                              *)
LEMMA ResetRefines ==
  ASSUME Contents(on_indexed)' = <<>>, db' = EmptyDB, applied' = [f \in Files |-> EmptyIndex]
  PROVE  AbstractUpdates!Next
<1>1. Deltas' = <<>>
  <2>1. Deltas' = DeltasOf(<<>>)
    BY DEF Deltas, DeltasOf, Selected
  <2>2. QED
    BY <2>1, DeltasOfEmpty
<1>2. ASSUME NEW f \in Files PROVE LastPushed(f)' = EmptyIndex
  <2>1. LastPushed(f)' = LastFor(f, <<>>, EmptyIndex)
    BY DEF LastPushed, LastFor
  <2>2. QED
    BY <2>1, LastForNone
<1>3. [f \in Files |-> LastPushed(f)'] = [f \in Files |-> AbstractUpdates!EmptyIndex]
  BY <1>2, SameDatabase
<1>4. AbstractUpdates!Reset
  BY <1>1, <1>3, SameDatabase, Zenon DEF AbstractUpdates!Reset
<1>5. QED
  BY <1>4 DEF AbstractUpdates!Next

(* Every undisturbed step is a step of IndexUpdates or leaves what it sees. *)
LEMMA NextRefines ==
  ASSUME ChainInv, Yielded, [Next /\ Undisturbed]_vars
  PROVE  [AbstractUpdates!Next]_AbstractUpdates!vars
<1>1. TypeOK
  BY DEF ChainInv
<1>2. CASE (\E i \in Indexers : Indexer(i)) /\ InTurn
  BY <1>2, IndexerRefines
<1>3. CASE OnIndexed
  BY <1>1, <1>3, OnIndexedRefines
<1>4. CASE \E f \in Files : \/ Edit(f) \/ Remove(f) \/ DidSave(f)
                            \/ DidChangeWatchedFiles(f) \/ DidOpen(f) \/ DidClose(f)
  <2>1. UNCHANGED <<on_indexed, db, applied>>
    BY <1>4 DEF Edit, Remove, DidSave, DidChangeWatchedFiles, DidOpen, DidClose,
                unchangedByClient
  <2>2. QED
    BY <1>1, <2>1, QuietStutters
<1>5. CASE DidChangeConfiguration
  <2>1. UNCHANGED <<on_indexed, db, applied>>
    BY <1>5 DEF DidChangeConfiguration, unchangedByClient
  <2>2. QED
    BY <1>1, <2>1, QuietStutters
<1>6. CASE Reload /\ Idle
  BY <1>6, ResetRefines DEF Reload, Idle, Contents
<1>7. CASE CleanRestart \/ Crash
  <2>1. /\ on_indexed' = EmptyQueue /\ db' = EmptyDB
        /\ applied' = [f \in Files |-> EmptyIndex]
    BY <1>7 DEF CleanRestart, Crash, Restart
  <2>2. Contents(on_indexed)' = <<>>
    BY <2>1, EmptyQueueProperties DEF Contents
  <2>3. QED
    BY <2>1, <2>2, ResetRefines
<1>8. CASE UNCHANGED vars
  <2>1. UNCHANGED <<on_indexed, db, applied>>
    BY <1>8 DEF vars
  <2>2. QED
    BY <1>1, <2>1, QuietStutters
<1>9. QED
  BY <1>2, <1>3, <1>4, <1>5, <1>6, <1>7, <1>8 DEF Next, Client, Undisturbed

(* The pipeline starts where IndexUpdates does.                             *)
LEMMA InitRefines ==
  ASSUME Init
  PROVE  ChainInv /\ Yielded /\ AbstractUpdates!Init
<1>1. ChainInv
  BY InitChain DEF ChainInv
<1>2. Yielded
  BY DEF Init, Yielded, Made
<1>3. Contents(on_indexed) = <<>>
  BY EmptyQueueProperties DEF Init
<1>4. Deltas = <<>>
  BY <1>3, DeltasOfEmpty DEF Deltas
<1>5. \A f \in Files : LastPushed(f) = EmptyIndex
  BY <1>3, LastForNone DEF Init, LastPushed
<1>6. [f \in Files |-> LastPushed(f)] = [f \in Files |-> AbstractUpdates!EmptyIndex]
  BY <1>5, SameDatabase
<1>7. db = AbstractUpdates!EmptyDB /\ applied = [f \in Files |-> AbstractUpdates!EmptyIndex]
  BY SameDatabase DEF Init
<1>8. AbstractUpdates!Init
  BY <1>4, <1>6, <1>7, Zenon DEF AbstractUpdates!Init
<1>9. QED
  BY <1>1, <1>2, <1>8

(* The indexing pipeline implements IndexUpdates: while no update overtakes *)
(* another and reloads find the server idle, what the indexers push and     *)
(* the main thread applies is, for every file, a chain of deltas from       *)
(* nothing, whatever else the client does, however many indexers there are, *)
(* and through crashes and restarts on the same cache directory.            *)
THEOREM PipelineImplementsUpdates ==
  Spec /\ UpdatesInTurn => ImplementsIndexUpdates
<1>1. Init => ChainInv /\ Yielded /\ AbstractUpdates!Init
  BY InitRefines
<1>2. ChainInv /\ Yielded /\ [Next /\ Undisturbed]_vars => (ChainInv /\ Yielded)'
  <2>1. SUFFICES ASSUME ChainInv, Yielded, [Next /\ Undisturbed]_vars
                 PROVE  (ChainInv /\ Yielded)'
    OBVIOUS
  <2>2. [Next]_vars /\ TypeOK /\ Parsing
    BY <2>1 DEF ChainInv
  <2>3. Yielded'
    BY <2>1, <2>2, NextYielded
  <2>4. QED
    BY <2>1, <2>3, NextChain
<1>3. ChainInv /\ Yielded /\ [Next /\ Undisturbed]_vars
        => [AbstractUpdates!Next]_AbstractUpdates!vars
  BY NextRefines
<1>4. QED
  BY <1>1, <1>2, <1>3, PTL DEF Spec, UpdatesInTurn, ImplementsIndexUpdates, AbstractUpdates!Spec

-----------------------------------------------------------------------------
(* What is proved of IndexUpdates, for the pipeline.                        *)

Proved ==
  INSTANCE IndexUpdatesProofs WITH
    IndexesOf <- [f \in Files |-> {IndexAt[f][v] : v \in 1 .. MaxMtime}],
    MaxQueue <- 0,
    current <- [f \in Files |-> LastPushed(f)],
    queue <- Deltas

(* The assumptions of IndexUpdates hold of the pipeline's constants.        *)
LEMMA UpdatesAssumptions ==
  Proved!IndexesAssumption /\ Proved!FilesAssumption /\ Proved!MaxQueueAssumption
<1>1. \A f \in Files : {IndexAt[f][v] : v \in 1 .. MaxMtime} \in SUBSET Proved!IndexData
  BY IndexAssumption DEF IndexData, Proved!IndexData
<1>2. Proved!IndexesAssumption
  BY <1>1 DEF Proved!IndexesAssumption
<1>3. Proved!FilesAssumption
  BY FilesAssumption, Zenon DEF Proved!FilesAssumption, IsFiniteSet, Proved!IsFiniteSet
<1>4. Proved!MaxQueueAssumption
  BY DEF Proved!MaxQueueAssumption
<1>5. QED
  BY <1>2, <1>3, <1>4

(* The two instances are of one specification.                              *)
LEMMA SameUpdates ==
  /\ AbstractUpdates!Init => Proved!Init
  /\ [AbstractUpdates!Next]_AbstractUpdates!vars => [Proved!Next]_Proved!vars
<1>1. AbstractUpdates!Init => Proved!Init
  BY Zenon DEF AbstractUpdates!Init, Proved!Init, AbstractUpdates!EmptyIndex, Proved!EmptyIndex,
               AbstractUpdates!EmptyDB, Proved!EmptyDB
<1>2. AbstractUpdates!vars = Proved!vars /\ AbstractUpdates!vars' = Proved!vars'
  BY Zenon DEF AbstractUpdates!vars, Proved!vars
<1>3. AbstractUpdates!EmptyIndex = Proved!EmptyIndex
  BY DEF AbstractUpdates!EmptyIndex, Proved!EmptyIndex
<1>4. ASSUME NEW f, NEW index, AbstractUpdates!Store(f, index) PROVE Proved!Store(f, index)
  BY <1>4, Zenon DEF AbstractUpdates!Store, Proved!Store, AbstractUpdates!CreateDelta,
                     Proved!CreateDelta
<1>5. ASSUME NEW d, NEW u
      PROVE  AbstractUpdates!ApplyIndexUpdate(d, u) = Proved!ApplyIndexUpdate(d, u)
  BY Zenon DEF AbstractUpdates!ApplyIndexUpdate, Proved!ApplyIndexUpdate,
       AbstractUpdates!FileDefAfter, Proved!FileDefAfter, AbstractUpdates!RefsTo, Proved!RefsTo,
       AbstractUpdates!RemoveAdd, Proved!RemoveAdd, AbstractUpdates!One, Proved!One,
       AbstractUpdates!DefsAfter, Proved!DefsAfter
<1>6. AbstractUpdates!Apply => Proved!Apply
  BY <1>5, Zenon DEF AbstractUpdates!Apply, Proved!Apply
<1>7. AbstractUpdates!Reset => Proved!Reset
  BY Zenon DEF AbstractUpdates!Reset, Proved!Reset, AbstractUpdates!EmptyIndex,
       Proved!EmptyIndex, AbstractUpdates!EmptyDB, Proved!EmptyDB
<1>8. AbstractUpdates!Next => Proved!Next
  BY <1>3, <1>4, <1>6, <1>7, Zenon DEF AbstractUpdates!Next, Proved!Next
<1>9. QED
  BY <1>1, <1>2, <1>8, Zenon

(* The pipeline implements the specification IndexUpdatesProofs is about.   *)
LEMMA PipelineImplementsProved == Spec /\ UpdatesInTurn => Proved!Spec
<1>1. AbstractUpdates!Init => Proved!Init
  BY SameUpdates
<1>2. [AbstractUpdates!Next]_AbstractUpdates!vars => [Proved!Next]_Proved!vars
  BY SameUpdates
<1>3. QED
  BY <1>1, <1>2, PipelineImplementsUpdates, PTL
     DEF ImplementsIndexUpdates, AbstractUpdates!Spec, Proved!Spec

(* assert(v >= 0) in applyIndexUpdate never fails: the update that the main *)
(* thread applies next takes away no reference the database does not hold.  *)
THEOREM AssertionNeverFails == Spec /\ UpdatesInTurn => []RefcntAssertion
<1>1. Proved!Spec => []Proved!RefcntAssertion
  BY Proved!AssertionHolds, UpdatesAssumptions, PTL
     DEF Proved!IndexesAssumption, Proved!FilesAssumption, Proved!MaxQueueAssumption
<1>2. TypeOK /\ Proved!RefcntAssertion => RefcntAssertion
  <2>1. SUFFICES ASSUME TypeOK, Proved!RefcntAssertion, CanPop(on_indexed),
                        Front(on_indexed).path # NoPath
                 PROVE  AssertRefcnt(db, Front(on_indexed))
    BY DEF RefcntAssertion
  <2> DEFINE s == Contents(on_indexed)
             u == Front(on_indexed)
             v == Delta(u)
  <2>2. s \in Seq(Updates) /\ s # <<>> /\ u = Head(s)
    BY <2>1, PopFrontProperties DEF TypeOK, QueueType, CanPop, Front
  <2>3. Deltas = DeltasOf(s)
    BY DEF Deltas
  <2>4. v.prev = u.prev
    BY DEF Delta, CreateDelta
  <2>5. DeltasOf(s) # <<>> /\ Head(DeltasOf(s)) = v
    <3> HIDE DEF s, u
    <3>1. u.path # NoPath
      BY <2>1 DEF u
    <3>2. QED
      BY <2>2, <3>1, DeltasOfProperties
  <2>6. Proved!AssertRefcnt(db, v)
    <3> HIDE DEF v, s
    <3>1. QED
      BY <2>1, <2>3, <2>5, Zenon DEF Proved!RefcntAssertion
  <2> HIDE DEF v, u
  <2>7. AssertRefcnt(db, u)
    BY <2>4, <2>6, Zenon DEF AssertRefcnt, RefsTo, One, Proved!AssertRefcnt, Proved!RefsTo,
                             Proved!One
  <2>8. QED
    BY <2>7 DEF u
<1>3. QED
  BY <1>1, <1>2, PipelineImplementsProved, TypeCorrect, PTL

(* The database is exact, updated incrementally as it is: reference counts, *)
(* uses, relations and definitions are those of the indexes that were       *)
(* applied last, nothing left over and nothing missing.                     *)
THEOREM DatabaseExact ==
  Spec /\ UpdatesInTurn
    => [](Proved!RefcntExact /\ Proved!UsesExact /\ Proved!RelsExact /\ Proved!DefsExact)
<1>1. Proved!Spec => []Proved!RefcntExact
  BY Proved!RefcntStaysExact, UpdatesAssumptions, PTL
     DEF Proved!IndexesAssumption, Proved!FilesAssumption, Proved!MaxQueueAssumption
<1>2. Proved!Spec => []Proved!UsesExact
  BY Proved!UsesStayExact, UpdatesAssumptions, PTL
     DEF Proved!IndexesAssumption, Proved!FilesAssumption, Proved!MaxQueueAssumption
<1>3. Proved!Spec => []Proved!RelsExact
  BY Proved!RelsStayExact, UpdatesAssumptions, PTL
     DEF Proved!IndexesAssumption, Proved!FilesAssumption, Proved!MaxQueueAssumption
<1>4. Proved!Spec => []Proved!DefsExact
  BY Proved!DefsStayExact, UpdatesAssumptions, PTL
     DEF Proved!IndexesAssumption, Proved!FilesAssumption, Proved!MaxQueueAssumption
<1>5. QED
  BY <1>1, <1>2, <1>3, <1>4, PipelineImplementsProved, PTL

-----------------------------------------------------------------------------
(* The text that positions of an open file are translated through.          *)

(* A cached index that is about to be loaded agrees with its contents. *)
Loading ==
  \A i \in Indexers : worker[i].pc = "load" => worker[i].prev \in Made(worker[i].req.path)

(* So does an update, which takes the contents of its index along. *)
LabelledUpdates ==
  {u \in Updates : u.path \in Files /\ u.curr # EmptyIndex => MadeFrom(u.path, u.curr, u.content)}

Labelled == on_indexed \in QueueOf(LabelledUpdates)

(* An update of f waits for the main thread, or is about to: the cache has  *)
(* been written already. *)
Waits(f) == \E k \in DOMAIN Contents(on_indexed) : Contents(on_indexed)[k].path = f
Writes(f) == \E i \in Indexers : worker[i].pc = "push" /\ worker[i].file = f

(* The contents of an open file match its index, or an update will bring    *)
(* both.                                                                    *)
Translated ==
  \A f \in open : \/ Waits(f) \/ Writes(f) \/ applied[f] = EmptyIndex
                  \/ MadeFrom(f, applied[f], index_content[f])

(* A step of an indexer leaves the locals of the others.                    *)
LEMMA OthersKept ==
  ASSUME TypeOK, Parsing, NEW i \in Indexers, Indexer(i)
  PROVE  /\ worker' \in [Indexers -> WorkerType]
         /\ \A j \in Indexers \ {i} : worker'[j] = worker[j]
<1>1. worker \in [Indexers -> WorkerType]
  BY DEF TypeOK
<1>2. ASSUME NewLocals(i)
      PROVE  /\ worker' \in [Indexers -> WorkerType]
             /\ \A j \in Indexers \ {i} : worker'[j] = worker[j]
  BY <1>1, <1>2 DEF NewLocals
<1>3. KeptLocals(i) => NewLocals(i)
  BY DEF KeptLocals, NewLocals
<1>4. QED
  BY <1>1, <1>2, <1>3, IndexerLocals, SeenFileLocals

(* Only the cache section takes a cached index in hand to load it, and only *)
(* a store writes a cache.                                                  *)
LEMMA IndexerLoads ==
  ASSUME TypeOK, Parsing, NEW i \in Indexers, Indexer(i), worker'[i].pc = "load"
  PROVE  \/ worker'[i] = worker[i]
         \/ \E f \in Files : worker'[i].req.path = f /\ worker'[i].prev = RawCacheLoad(f)
<1> DEFINE w == worker[i]
<1>1. w \in WorkerType /\ worker \in [Indexers -> WorkerType] /\ Locals(w)
  BY DEF TypeOK, Parsing
<1>2. \A v \in WorkerType : ToParse(v).pc \in {"store", "parse"}
  BY DEF ToParse, WorkerType
<1>3. ASSUME Finish(i) PROVE worker'[i].pc = "idle"
  BY <1>1, <1>3 DEF Finish, IdleWorker
<1>4. CASE PopDummy(i)
  BY <1>4 DEF PopDummy
<1>5. CASE PopNoEntry(i) \/ DepsDone(i) \/ ParseGone(i) \/ ParseCrash(i) \/ StoreDone(i)
  BY <1>3, <1>5 DEF PopNoEntry, DepsDone, ParseGone, ParseCrash, StoreDone
<1>6. CASE Pop(i)
  BY <1>1, <1>6 DEF Pop, IdleWorker
<1>7. CASE Stamp(i)
  <2> DEFINE step == IF NoLinkage(w.req) THEN 2 ELSE 0
             stamped == ~w.deleted /\ CanStamp(w.req.path, w.time, step)
             reparse == IF stamped THEN 1 ELSE w.reparse
             a == [w EXCEPT !.reparse = reparse]
             b == [w EXCEPT !.pc = "cache", !.reparse = reparse]
  <2>1. \/ worker' = [worker EXCEPT ![i] = IdleWorker]
        \/ worker' = [worker EXCEPT ![i] = ToParse(a)]
        \/ worker' = [worker EXCEPT ![i] = b]
    BY <1>7 DEF Stamp, Finish
  <2>2. reparse \in 0 .. 2
    BY <1>1 DEF WorkerType
  <2> HIDE DEF reparse
  <2>3. a \in WorkerType /\ b.pc = "cache"
    BY <1>1, <2>2 DEF WorkerType
  <2> HIDE DEF a, b
  <2>4. worker'[i] = IdleWorker \/ worker'[i] = ToParse(a) \/ worker'[i] = b
    BY <1>1, <2>1
  <2>5. worker'[i].pc # "load"
    BY <1>2, <2>3, <2>4 DEF IdleWorker
  <2>6. QED
    BY <2>5
<1>8. CASE CacheCheck(i)
  <2> DEFINE prev == RawCacheLoad(w.req.path)
  <2>1. \/ worker' = [worker EXCEPT ![i] = ToParse(w)]
        \/ worker' = [worker EXCEPT ![i].pc = "load", ![i].prev = prev]
        \/ Finish(i)
    BY <1>8 DEF CacheCheck
  <2>2. w.req.path \in Files
    BY <1>1, <1>8 DEF CacheCheck, Locals
  <2> HIDE DEF prev
  <2>3. CASE worker' = [worker EXCEPT ![i] = ToParse(w)]
    BY <1>1, <1>2, <2>3
  <2>4. CASE worker' = [worker EXCEPT ![i].pc = "load", ![i].prev = prev]
    <3>1. worker'[i].req.path = w.req.path /\ worker'[i].prev = prev
      BY <1>1, <2>4 DEF WorkerType
    <3>2. QED
      BY <2>2, <3>1 DEF prev
  <2>5. QED
    BY <1>3, <2>1, <2>3, <2>4
<1>9. CASE CacheLoad(i) \/ DepStamp(i) \/ DepLoad(i)
  <2>1. CASE CacheLoad(i)
    BY <1>1, <2>1 DEF CacheLoad, WorkerType
  <2>2. CASE DepStamp(i)
    BY <1>1, <2>2 DEF DepStamp, WorkerType
  <2>3. CASE DepLoad(i)
    BY <1>1, <2>3 DEF DepLoad, WorkerType
  <2>4. QED
    BY <1>9, <2>1, <2>2, <2>3
<1>10. CASE SeenFile(i)
  <2> DEFINE f == Head(w.todo)
             time == LastWriteTime(f)
             step == IF NoLinkage(w.req) THEN 3 ELSE 1
             claimed == time # 0 /\ CanStamp(f, time, step)
  <2>1. worker' = [worker EXCEPT ![i].todo = Tail(@), ![i].seen[f] = time,
                     ![i].claims = IF claimed THEN @ \cup {f} ELSE @]
    BY <1>10 DEF SeenFile
  <2>2. w.pc = "parse"
    BY <1>10 DEF SeenFile
  <2> HIDE DEF claimed, time, f
  <2>3. worker'[i].pc = w.pc
    BY <1>1, <2>1 DEF WorkerType
  <2>4. QED
    BY <2>2, <2>3
<1>11. CASE ParseEnd(i) \/ StoreWrite(i) \/ StorePush(i) \/ StoreCount(i)
  BY <1>1, <1>11 DEF ParseEnd, StoreWrite, StorePush, StoreCount, WorkerType
<1>12. CASE StoreRead(i)
  <2>1. PICK f \in w.claims :
          worker' = [worker EXCEPT ![i].pc = "write", ![i].file = f,
                       ![i].prev = DeltaBase(f), ![i].retained = Retained(f)]
    BY <1>12, Zenon DEF StoreRead
  <2> DEFINE p == DeltaBase(f)
             r == Retained(f)
  <2>2. worker' = [worker EXCEPT ![i].pc = "write", ![i].file = f,
                     ![i].prev = p, ![i].retained = r]
    BY <2>1
  <2> HIDE DEF p, r
  <2>3. worker'[i].pc = "write"
    BY <1>1, <2>2 DEF WorkerType
  <2>4. QED
    BY <2>3
<1>13. QED
  BY <1>4, <1>5, <1>6, <1>7, <1>8, <1>9, <1>10, <1>11, <1>12 DEF Indexer

(* A cached index that an indexer holds was in the cache.                   *)
LEMMA NextLoading ==
  ASSUME TypeOK, Parsing, Yielded, Loading, [Next]_vars
  PROVE  Loading'
<1>1. SUFFICES ASSUME NEW j \in Indexers, worker'[j].pc = "load"
               PROVE  worker'[j].prev \in Made(worker'[j].req.path)
  BY Zenon DEF Loading, Made
<1>2. worker[j].pc = "load" => worker[j].prev \in Made(worker[j].req.path)
  BY DEF Loading
<1>3. CASE worker'[j] = worker[j]
  BY <1>1, <1>2, <1>3, Zenon
<1>4. ASSUME NEW i \in Indexers, Indexer(i)
      PROVE  worker'[j].prev \in Made(worker'[j].req.path)
  <2>1. CASE i # j
    <3>1. worker'[j] = worker[j]
      BY <1>4, <2>1, OthersKept
    <3>2. QED
      BY <1>3, <3>1, Zenon
  <2>2. CASE i = j
    <3>1. \/ worker'[j] = worker[j]
          \/ \E f \in Files : worker'[j].req.path = f /\ worker'[j].prev = RawCacheLoad(f)
      BY <1>1, <1>4, <2>2, IndexerLoads
    <3>2. CASE \E f \in Files : worker'[j].req.path = f /\ worker'[j].prev = RawCacheLoad(f)
      BY <3>2, RawCacheLoadMade, Zenon
    <3>3. QED
      BY <1>3, <3>1, <3>2, Zenon
  <2>3. QED
    BY <2>1, <2>2
<1>5. CASE CleanRestart \/ Crash
  <2>1. worker' = [i \in Indexers |-> IdleWorker]
    BY <1>5 DEF CleanRestart, Crash, Restart
  <2>2. worker'[j].pc = "idle"
    BY <2>1 DEF IdleWorker
  <2>3. QED
    BY <1>1, <2>2
<1>6. CASE OnIndexed \/ DidChangeConfiguration \/ Reload
  BY <1>3, <1>6 DEF OnIndexed, DidChangeConfiguration, Reload, unchangedByClient
<1>7. CASE \E f \in Files : \/ Edit(f) \/ Remove(f) \/ DidSave(f)
                            \/ DidChangeWatchedFiles(f) \/ DidOpen(f) \/ DidClose(f)
  BY <1>3, <1>7 DEF Edit, Remove, DidSave, DidChangeWatchedFiles, DidOpen, DidClose,
                    unchangedByClient
<1>8. CASE UNCHANGED vars
  BY <1>3, <1>8 DEF vars
<1>9. QED
  BY <1>4, <1>5, <1>6, <1>7, <1>8 DEF Next, Client

(* What an indexer pushes agrees with the contents it takes along; a store  *)
(* pushes an update of the file it wrote.                                   *)
LEMMA IndexerPushes ==
  ASSUME TypeOK, Parsing, Yielded, Loading, NEW i \in Indexers, Indexer(i)
  PROVE  \/ on_indexed' = on_indexed /\ worker[i].pc # "push"
         \/ \E u \in LabelledUpdates : \E p \in BOOLEAN :
              /\ on_indexed' = PushBack(on_indexed, u, p)
              /\ worker[i].pc = "push" => u.path = worker[i].file
<1> DEFINE w == worker[i]
<1>1. /\ w \in WorkerType /\ Locals(w) /\ Interactive(w.req) \in BOOLEAN
      /\ w.pc = "load" => w.prev \in Made(w.req.path)
  BY DEF TypeOK, Parsing, Loading, Interactive
<1>2. ASSUME NEW f \in Files, NEW prev \in IndexFiles \cup {NoIndex},
             NEW curr \in IndexFiles, curr \in Made(f)
      PROVE  Update(f, prev, curr) \in LabelledUpdates /\ Update(f, prev, curr).path = f
  <2> DEFINE u == Update(f, prev, curr)
  <2>1. u \in Updates /\ u.path = f /\ u.curr = curr.data /\ u.content = curr.mtime
    BY UpdateProperties DEF Update
  <2>2. curr.data = EmptyIndex \/ MadeFrom(f, curr.data, curr.mtime)
    BY <1>2, NoIndexAssumption DEF Made
  <2> HIDE DEF u
  <2>3. u \in LabelledUpdates
    BY <2>1, <2>2, Zenon DEF LabelledUpdates
  <2>4. QED
    BY <2>1, <2>3 DEF u
<1>3. CASE PopDummy(i)
  <2>1. on_indexed' = PushBack(on_indexed, RefreshUpdate, FALSE) /\ w.pc = "idle"
    BY <1>3 DEF PopDummy
  <2>2. RefreshUpdate \in LabelledUpdates
    BY Facts DEF RefreshUpdate, Updates, LabelledUpdates
  <2>3. QED
    BY <2>1, <2>2
<1>4. CASE CacheLoad(i)
  <2>1. w.pc = "load" /\ w.prev \in IndexFiles /\ w.req.path \in Files
    BY <1>1, <1>4 DEF CacheLoad, Locals, WorkerType
  <2> DEFINE u == Update(w.req.path, NoIndex, w.prev)
  <2>2. u \in LabelledUpdates
    BY <1>1, <1>2, <2>1
  <2>3. on_indexed' = PushBack(on_indexed, u, Interactive(w.req))
    BY <1>4 DEF CacheLoad
  <2> HIDE DEF u
  <2>4. QED
    BY <1>1, <2>1, <2>2, <2>3
<1>5. CASE DepLoad(i)
  <2>1. w.pc = "depload" /\ w.file \in Files
    BY <1>1, <1>5 DEF DepLoad, Locals
  <2> DEFINE prev == RawCacheLoad(w.file)
             u == Update(w.file, NoIndex, prev)
  <2>2. \/ on_indexed' = on_indexed
        \/ prev # NoIndex /\ on_indexed' = PushBack(on_indexed, u, Interactive(w.req))
    BY <1>5 DEF DepLoad
  <2>3. prev \in Made(w.file)
    BY <2>1, RawCacheLoadMade
  <2>4. prev # NoIndex => prev \in IndexFiles
    BY <2>3 DEF Made
  <2> HIDE DEF prev
  <2>5. prev # NoIndex => u \in LabelledUpdates
    BY <1>2, <2>1, <2>3, <2>4
  <2> HIDE DEF u
  <2>6. QED
    BY <1>1, <2>1, <2>2, <2>5
<1>6. CASE StorePush(i)
  <2>1. w.pc = "push" /\ w.file \in w.claims
    BY <1>1, <1>6 DEF StorePush, Locals
  <2> DEFINE made == MadeIndex(w, w.file)
             u == Update(w.file, w.prev, made)
  <2>2. w.file \in Files /\ made \in IndexFiles /\ made \in Made(w.file)
    BY <1>1, <2>1, MadeIndexMade
  <2>3. on_indexed' = PushBack(on_indexed, u, Interactive(w.req))
    BY <1>6 DEF StorePush
  <2>4. w.prev \in IndexFiles \cup {NoIndex}
    BY <1>1 DEF WorkerType
  <2> HIDE DEF made
  <2>5. u \in LabelledUpdates /\ u.path = w.file
    BY <1>2, <2>2, <2>4
  <2> HIDE DEF u
  <2>6. QED
    BY <1>1, <2>3, <2>5
<1>7. CASE \/ PopNoEntry(i) \/ Pop(i) \/ Stamp(i) \/ CacheCheck(i) \/ DepStamp(i) \/ DepsDone(i)
           \/ SeenFile(i) \/ ParseEnd(i) \/ ParseGone(i) \/ ParseCrash(i) \/ StoreRead(i)
           \/ StoreWrite(i) \/ StoreCount(i) \/ StoreDone(i)
  <2>1. on_indexed' = on_indexed
    BY <1>7, ZenonT(30) DEF PopNoEntry, Pop, Stamp, CacheCheck, DepStamp, DepsDone, SeenFile, ParseEnd,
         ParseGone, ParseCrash, StoreRead, StoreWrite, StoreCount, StoreDone
  <2>2. w.pc # "push"
    BY <1>7, Zenon DEF PopNoEntry, Pop, Stamp, CacheCheck, DepStamp, DepsDone, SeenFile, ParseEnd,
         ParseGone, ParseCrash, StoreRead, StoreWrite, StoreCount, StoreDone
  <2>3. QED
    BY <2>1, <2>2
<1>8. QED
  BY <1>3, <1>4, <1>5, <1>6, <1>7 DEF Indexer

(* The queue holds only such updates.                                       *)
LEMMA NextLabelled ==
  ASSUME TypeOK, Parsing, Yielded, Loading, Labelled, [Next]_vars
  PROVE  Labelled'
<1>1. on_indexed \in QueueOf(LabelledUpdates)
  BY DEF Labelled
<1>2. SUFFICES on_indexed' \in QueueOf(LabelledUpdates)
  BY DEF Labelled, LabelledUpdates
<1>3. CASE on_indexed' = on_indexed
  BY <1>1, <1>3
<1>4. CASE \E i \in Indexers : Indexer(i)
  BY <1>1, <1>3, <1>4, IndexerPushes, PushBackProperties
<1>5. CASE OnIndexed
  BY <1>1, <1>5, PopFrontProperties DEF OnIndexed
<1>6. CASE CleanRestart \/ Crash
  <2>1. on_indexed' = EmptyQueue
    BY <1>6 DEF CleanRestart, Crash, Restart
  <2>2. QED
    BY <2>1, EmptyQueueProperties
<1>7. CASE DidChangeConfiguration \/ Reload
  BY <1>3, <1>7 DEF DidChangeConfiguration, Reload, unchangedByClient
<1>8. CASE \E f \in Files : \/ Edit(f) \/ Remove(f) \/ DidSave(f)
                            \/ DidChangeWatchedFiles(f) \/ DidOpen(f) \/ DidClose(f)
  BY <1>3, <1>8 DEF Edit, Remove, DidSave, DidChangeWatchedFiles, DidOpen, DidClose,
                    unchangedByClient
<1>9. CASE UNCHANGED vars
  BY <1>3, <1>9 DEF vars
<1>10. QED
  BY <1>4, <1>5, <1>6, <1>7, <1>8, <1>9 DEF Next, Client

(* A file mutex is held by the indexer that is in its critical section. *)
Held ==
  \A f \in Files : file_mutex[f] # NoPath =>
    Holds(worker[file_mutex[f]]) /\ HeldFile(worker[file_mutex[f]]) = f

(* A step of an indexer keeps the mutex it holds, takes one while it holds  *)
(* none, or releases the one it holds.                                      *)
LEMMA IndexerHolds ==
  ASSUME TypeOK, Parsing, NEW i \in Indexers, Indexer(i)
  PROVE  \/ /\ file_mutex' = file_mutex
            /\ Holds(worker[i]) => /\ Holds(worker'[i])
                                   /\ HeldFile(worker'[i]) = HeldFile(worker[i])
         \/ \E g \in Files : /\ ~Holds(worker[i]) /\ file_mutex' = [file_mutex EXCEPT ![g] = i]
                             /\ Holds(worker'[i]) /\ HeldFile(worker'[i]) = g
         \/ file_mutex' = [file_mutex EXCEPT ![HeldFile(worker[i])] = NoPath]
<1> DEFINE w == worker[i]
<1>1. w \in WorkerType /\ worker \in [Indexers -> WorkerType] /\ Locals(w)
  BY DEF TypeOK, Parsing
<1>2. CASE \/ PopDummy(i) \/ PopNoEntry(i) \/ Pop(i) \/ Stamp(i) \/ DepStamp(i) \/ DepLoad(i)
           \/ DepsDone(i) \/ SeenFile(i) \/ ParseEnd(i) \/ ParseGone(i) \/ ParseCrash(i)
           \/ StoreDone(i)
  <2>1. file_mutex' = file_mutex
    BY <1>2, Zenon DEF PopDummy, PopNoEntry, Pop, Stamp, DepStamp, DepLoad, DepsDone, SeenFile,
         ParseEnd, ParseGone, ParseCrash, StoreDone, indexerVars
  <2>2. w.pc \in {"idle", "stamp", "deps", "depload", "parse", "store"}
    BY <1>2, Zenon DEF PopDummy, PopNoEntry, Pop, Stamp, DepStamp, DepLoad, DepsDone, SeenFile,
         ParseEnd, ParseGone, ParseCrash, StoreDone
  <2>3. ~Holds(w)
    BY <2>2 DEF Holds
  <2>4. QED
    BY <2>1, <2>3
<1>3. CASE CacheCheck(i)
  <2> DEFINE f == w.req.path
             prev == RawCacheLoad(f)
  <2>1. ~Holds(w) /\ f \in Files
    BY <1>1, <1>3 DEF CacheCheck, Holds, Locals
  <2>2. \/ file_mutex' = file_mutex
        \/ /\ worker' = [worker EXCEPT ![i].pc = "load", ![i].prev = prev]
           /\ file_mutex' = [file_mutex EXCEPT ![f] = i]
    BY <1>3 DEF CacheCheck
  <2> HIDE DEF prev
  <2>3. CASE worker' = [worker EXCEPT ![i].pc = "load", ![i].prev = prev]
    <3>1. worker'[i].pc = "load" /\ worker'[i].req = w.req
      BY <1>1, <2>3 DEF WorkerType
    <3>2. Holds(worker'[i]) /\ HeldFile(worker'[i]) = f
      BY <3>1 DEF Holds, HeldFile
    <3>3. QED
      BY <2>1, <2>2, <3>2
  <2>4. QED
    BY <2>1, <2>2, <2>3
<1>4. CASE CacheLoad(i)
  BY <1>4 DEF CacheLoad, HeldFile, Release
<1>5. CASE StoreRead(i)
  <2>1. PICK f \in w.claims :
          /\ file_mutex' = [file_mutex EXCEPT ![f] = i]
          /\ worker' = [worker EXCEPT ![i].pc = "write", ![i].file = f,
                          ![i].prev = DeltaBase(f), ![i].retained = Retained(f)]
    BY <1>5, Zenon DEF StoreRead
  <2> DEFINE p == DeltaBase(f)
             r == Retained(f)
  <2>2. worker' = [worker EXCEPT ![i].pc = "write", ![i].file = f,
                     ![i].prev = p, ![i].retained = r]
    BY <2>1
  <2> HIDE DEF p, r
  <2>3. worker'[i].pc = "write" /\ worker'[i].file = f /\ f \in Files
    BY <1>1, <2>2 DEF WorkerType
  <2>4. Holds(worker'[i]) /\ HeldFile(worker'[i]) = f
    BY <2>3 DEF Holds, HeldFile
  <2>5. ~Holds(w)
    BY <1>5 DEF StoreRead, Holds
  <2>6. QED
    BY <2>1, <2>3, <2>4, <2>5
<1>6. CASE StoreWrite(i) \/ StorePush(i)
  <2>1. PICK pc \in {"push", "count"} : worker' = [worker EXCEPT ![i].pc = pc]
    BY <1>6 DEF StoreWrite, StorePush
  <2>2. worker'[i].pc = pc /\ worker'[i].file = w.file
    BY <1>1, <2>1 DEF WorkerType
  <2>3. Holds(worker'[i]) /\ HeldFile(worker'[i]) = w.file
    BY <2>2 DEF Holds, HeldFile
  <2>4. file_mutex' = file_mutex /\ HeldFile(w) = w.file
    BY <1>6 DEF StoreWrite, StorePush, indexerVars, HeldFile
  <2>5. QED
    BY <2>3, <2>4
<1>7. CASE StoreCount(i)
  BY <1>7 DEF StoreCount, HeldFile, Release
<1>8. QED
  BY <1>2, <1>3, <1>4, <1>5, <1>6, <1>7 DEF Indexer

(* Nobody but the holder of a mutex releases it.                            *)
LEMMA NextHeld ==
  ASSUME TypeOK, Parsing, Held, [Next]_vars
  PROVE  Held'
<1>1. /\ file_mutex \in [Files -> Indexers \cup {NoPath}] /\ NoPath \notin Indexers
  BY FilesAssumption DEF TypeOK, CacheType
<1>2. SUFFICES ASSUME NEW f \in Files, file_mutex'[f] # NoPath
               PROVE  /\ Holds(worker'[file_mutex'[f]])
                      /\ HeldFile(worker'[file_mutex'[f]]) = f
  BY Zenon DEF Held, Holds, HeldFile
<1>3. file_mutex[f] # NoPath =>
        Holds(worker[file_mutex[f]]) /\ HeldFile(worker[file_mutex[f]]) = f
  BY DEF Held
<1>4. CASE UNCHANGED <<file_mutex, worker>>
  BY <1>2, <1>3, <1>4
<1>5. ASSUME NEW i \in Indexers, Indexer(i)
      PROVE  /\ Holds(worker'[file_mutex'[f]])
             /\ HeldFile(worker'[file_mutex'[f]]) = f
  <2>1. \A j \in Indexers \ {i} : worker'[j] = worker[j]
    BY <1>5, OthersKept
  <2>2. CASE /\ file_mutex' = file_mutex
             /\ Holds(worker[i]) => /\ Holds(worker'[i])
                                    /\ HeldFile(worker'[i]) = HeldFile(worker[i])
    <3>1. file_mutex[f] \in Indexers
      BY <1>1, <1>2, <2>2
    <3>2. QED
      BY <1>2, <1>3, <2>1, <2>2, <3>1
  <2>3. CASE \E g \in Files :
               /\ ~Holds(worker[i]) /\ file_mutex' = [file_mutex EXCEPT ![g] = i]
               /\ Holds(worker'[i]) /\ HeldFile(worker'[i]) = g
    <3>1. PICK g \in Files :
            /\ ~Holds(worker[i]) /\ file_mutex' = [file_mutex EXCEPT ![g] = i]
            /\ Holds(worker'[i]) /\ HeldFile(worker'[i]) = g
      BY <2>3
    <3>2. CASE f = g
      BY <1>1, <3>1, <3>2
    <3>3. CASE f # g
      <4>1. file_mutex'[f] = file_mutex[f] /\ file_mutex[f] \in Indexers
        BY <1>1, <1>2, <3>1, <3>3
      <4>2. file_mutex[f] # i
        BY <1>2, <1>3, <3>1, <4>1
      <4>3. QED
        BY <1>2, <1>3, <2>1, <4>1, <4>2
    <3>4. QED
      BY <3>2, <3>3
  <2>4. CASE file_mutex' = [file_mutex EXCEPT ![HeldFile(worker[i])] = NoPath]
    <3>1. f # HeldFile(worker[i]) /\ file_mutex'[f] = file_mutex[f]
      BY <1>1, <1>2, <2>4
    <3>2. file_mutex[f] \in Indexers /\ file_mutex[f] # i
      BY <1>1, <1>2, <1>3, <3>1
    <3>3. QED
      BY <1>2, <1>3, <2>1, <3>1, <3>2
  <2>5. QED
    BY <1>5, <2>2, <2>3, <2>4, IndexerHolds
<1>6. CASE CleanRestart \/ Crash
  <2>1. file_mutex' = [g \in Files |-> NoPath]
    BY <1>6 DEF CleanRestart, Crash, Restart
  <2>2. QED
    BY <1>2, <2>1
<1>7. CASE OnIndexed \/ DidChangeConfiguration \/ Reload
  BY <1>4, <1>7 DEF OnIndexed, DidChangeConfiguration, Reload, unchangedByClient, indexerVars
<1>8. CASE \E g \in Files : \/ Edit(g) \/ Remove(g) \/ DidSave(g)
                            \/ DidChangeWatchedFiles(g) \/ DidOpen(g) \/ DidClose(g)
  BY <1>4, <1>8 DEF Edit, Remove, DidSave, DidChangeWatchedFiles, DidOpen, DidClose,
                    unchangedByClient
<1>9. CASE UNCHANGED vars
  BY <1>4, <1>9 DEF vars, indexerVars
<1>10. QED
  BY <1>5, <1>6, <1>7, <1>8, <1>9 DEF Next, Client

(* loadIndexedContent reads the contents of the index that the next delta   *)
(* would be taken against, from memory or from the cache directory.         *)
LEMMA LoadedContent ==
  ASSUME ChainInv, Yielded, NEW f \in Files, Cached(f) # EmptyIndex
  PROVE  MadeFrom(f, Cached(f), LoadIndexedContent(f))
<1> DEFINE x == IF HasCacheDir THEN disk_cache[f] ELSE g_index[f]
<1>1. x \in Made(f)
  BY DEF Yielded
<1>2. Data(x) = Cached(f)
  <2>1. CASE Retain > 0 /\ g_index[f] # NoIndex
    <3>1. RawCacheLoad(f) = g_index[f]
      BY <2>1 DEF RawCacheLoad
    <3>2. HasCacheDir => Data(g_index[f]) = Data(disk_cache[f])
      BY <2>1 DEF ChainInv, InMemory
    <3>3. QED
      BY <3>1, <3>2, Zenon DEF Cached
  <2>2. CASE ~(Retain > 0 /\ g_index[f] # NoIndex)
    <3>1. ~HasCacheDir => g_index[f] = NoIndex
      BY <2>2, CacheAssumption
    <3>2. RawCacheLoad(f) = x
      BY <2>2, <3>1 DEF RawCacheLoad
    <3> HIDE DEF x
    <3>3. QED
      BY <3>2, Zenon DEF Cached
  <2>3. QED
    BY <2>1, <2>2
<1>3. LoadIndexedContent(f) = IF x = NoIndex THEN 0 ELSE x.mtime
  BY DEF LoadIndexedContent
<1> HIDE DEF x
<1>4. x # NoIndex /\ x.data = Cached(f)
  BY <1>2 DEF Data
<1>5. x.data = EmptyIndex \/ MadeFrom(f, x.data, x.mtime)
  BY <1>1, <1>4 DEF Made
<1>6. QED
  BY <1>3, <1>4, <1>5, Zenon

(* A file that is opened gets the contents that go with its index, unless   *)
(* an update of it is on its way.                                           *)
LEMMA OpenedTranslated ==
  ASSUME ChainInv, Yielded, Held, NEW f \in Files
  PROVE  \/ Waits(f) \/ Writes(f) \/ applied[f] = EmptyIndex
         \/ MadeFrom(f, applied[f], LoadIndexedContent(f))
<1>1. SUFFICES ASSUME ~Waits(f), ~Writes(f), applied[f] # EmptyIndex
               PROVE  applied[f] = Cached(f)
  BY LoadedContent
<1>2. LastPushed(f) = applied[f]
  BY <1>1, LastForNone DEF Waits, LastPushed
<1>3. CASE file_mutex[f] = NoPath
  BY <1>1, <1>2, <1>3 DEF ChainInv, CacheIsLastPushed, Cached
<1>4. CASE file_mutex[f] # NoPath
  <2> DEFINE i == file_mutex[f]
             w == worker[i]
  <2>1. i \in Indexers
    BY <1>4 DEF ChainInv, TypeOK, CacheType
  <2>2. Holds(w) /\ HeldFile(w) = f
    BY <1>4 DEF Held
  <2>3. Linked(w, i)
    BY <2>1 DEF ChainInv, Chained
  <2> HIDE DEF i, w
  <2>4. Link(w, f, vfs[f].loaded, Cached(f), LastPushed(f))
    BY <2>2, <2>3 DEF Linked
  <2>5. w.pc = "load" => LastPushed(f) = EmptyIndex
    BY <2>4 DEF Link
  <2>6. w.pc = "write" => LastPushed(f) = Cached(f) \/ LastPushed(f) = EmptyIndex
    BY <2>4 DEF Link
  <2>7. w.pc = "count" => LastPushed(f) = Cached(f)
    BY <2>4 DEF Link
  <2>8. w.pc # "push"
    <3>1. w.pc = "push" => w.file = f
      BY <2>2 DEF HeldFile
    <3>2. QED
      BY <1>1, <2>1, <3>1 DEF Writes, w
  <2>9. w.pc \in {"load", "write", "push", "count"}
    BY <2>2 DEF Holds
  <2>10. QED
    BY <1>1, <1>2, <2>5, <2>6, <2>7, <2>8, <2>9
<1>5. QED
  BY <1>3, <1>4

(* The contents of an open file go with its index or are about to.          *)
LEMMA NextTranslated ==
  ASSUME ChainInv, Yielded, Loading, Labelled, Held, Translated,
         [Next /\ Undisturbed]_vars
  PROVE  Translated'
<1> DEFINE s == Contents(on_indexed)
<1>1. TypeOK /\ Parsing /\ open \subseteq Files /\ open' \subseteq Files
  <2>1. TypeOK'
    BY NextChain DEF ChainInv
  <2>2. QED
    BY <2>1 DEF ChainInv, TypeOK, ClientType
<1>2. SUFFICES ASSUME NEW f \in open', ~Waits(f)', ~Writes(f)', applied'[f] # EmptyIndex
               PROVE  MadeFrom(f, applied'[f], index_content'[f])
  BY Zenon DEF Translated, MadeFrom
<1>3. ASSUME f \in open, applied'[f] = applied[f], index_content'[f] = index_content[f],
             Waits(f) => Waits(f)', Writes(f) => (Waits(f) \/ Writes(f))'
      PROVE  MadeFrom(f, applied'[f], index_content'[f])
  <2>1. \/ Waits(f) \/ Writes(f) \/ applied[f] = EmptyIndex
        \/ MadeFrom(f, applied[f], index_content[f])
    BY <1>3 DEF Translated
  <2>2. ~Waits(f) /\ ~Writes(f)
    BY <1>2, <1>3, Zenon
  <2>3. QED
    BY <1>2, <1>3, <2>1, <2>2, Zenon
<1>4. CASE UNCHANGED <<open, applied, index_content, on_indexed, worker>>
  <2>1. (Waits(f) => Waits(f)') /\ (Writes(f) => Writes(f)')
    BY <1>4 DEF Waits, Writes
  <2>2. f \in open /\ applied'[f] = applied[f] /\ index_content'[f] = index_content[f]
    BY <1>4
  <2>3. QED
    BY <1>3, <2>1, <2>2, Zenon
<1>5. ASSUME NEW i \in Indexers, Indexer(i), InTurn
      PROVE  MadeFrom(f, applied'[f], index_content'[f])
  <2>1. UNCHANGED <<open, applied, index_content>>
    BY <1>5, Zenon DEF Indexer, PopDummy, PopNoEntry, Pop, Stamp, CacheCheck, CacheLoad, DepStamp,
         DepLoad, DepsDone, SeenFile, ParseEnd, ParseGone, ParseCrash, StoreRead, StoreWrite,
         StorePush, StoreCount, StoreDone, mainVars, clientVars
  <2>2. \A j \in Indexers \ {i} : worker'[j] = worker[j]
    BY <1>1, <1>5, OthersKept
  <2>3. CASE on_indexed' = on_indexed /\ worker[i].pc # "push"
    <3>1. Waits(f) => Waits(f)'
      BY <2>3 DEF Waits
    <3>2. Writes(f) => Writes(f)'
      BY <2>2, <2>3 DEF Writes
    <3>3. QED
      BY <1>3, <2>1, <3>1, <3>2
  <2>4. ASSUME NEW u \in LabelledUpdates, NEW p \in BOOLEAN,
               on_indexed' = PushBack(on_indexed, u, p),
               worker[i].pc = "push" => u.path = worker[i].file
        PROVE  MadeFrom(f, applied'[f], index_content'[f])
    <3>1. u \in Updates
      BY DEF LabelledUpdates
    <3>2. s \in Seq(Updates) /\ Contents(on_indexed)' = Append(s, u)
      BY <1>1, <1>5, <2>4, <3>1, PushContents
    <3> HIDE DEF s
    <3>3. /\ DOMAIN Append(s, u) = 1 .. Len(s) + 1 /\ DOMAIN s = 1 .. Len(s) /\ Len(s) \in Nat
          /\ Append(s, u)[Len(s) + 1] = u /\ \A k \in 1 .. Len(s) : Append(s, u)[k] = s[k]
      BY <3>1, <3>2, LenProperties, AppendProperties
    <3>4. Waits(f) => Waits(f)'
      <4>1. SUFFICES ASSUME NEW k \in DOMAIN s, s[k].path = f
                     PROVE  Waits(f)'
        BY DEF Waits, s
      <4>2. k \in DOMAIN Append(s, u) /\ Append(s, u)[k] = s[k]
        BY <3>3
      <4>3. QED
        BY <3>2, <4>1, <4>2, Zenon DEF Waits
    <3>5. u.path = f => Waits(f)'
      <4>1. Len(s) + 1 \in DOMAIN Append(s, u)
        BY <3>3
      <4>2. QED
        BY <3>2, <3>3, <4>1, Zenon DEF Waits
    <3>6. Writes(f) => (Waits(f) \/ Writes(f))'
      <4>1. SUFFICES ASSUME NEW j \in Indexers, worker[j].pc = "push", worker[j].file = f
                     PROVE  (Waits(f) \/ Writes(f))'
        BY DEF Writes
      <4>2. CASE j = i
        BY <2>4, <3>5, <4>1, <4>2
      <4>3. CASE j # i
        BY <2>2, <4>1, <4>3 DEF Writes
      <4>4. QED
        BY <4>2, <4>3
    <3>7. QED
      BY <1>3, <2>1, <3>4, <3>6
  <2>5. QED
    BY <1>1, <1>5, <2>3, <2>4, IndexerPushes
<1>6. CASE OnIndexed
  <2> DEFINE u == Front(on_indexed)
  <2>1. /\ on_indexed' = PopFront(on_indexed) /\ CanPop(on_indexed) /\ open' = open
        /\ u.path = NoPath => UNCHANGED <<applied, index_content>>
        /\ u.path # NoPath => /\ applied' = [applied EXCEPT ![u.path] = u.curr]
                              /\ index_content' = IndexContentAfter(u)
        /\ UNCHANGED worker
    BY <1>6 DEF OnIndexed, clientVars
  <2>2. /\ s \in Seq(LabelledUpdates) /\ s # <<>> /\ u = Head(s)
        /\ Contents(on_indexed)' = Tail(s) /\ u \in LabelledUpdates
    BY <2>1, PopFrontProperties DEF Labelled, CanPop, Front, Contents
  <2>3. applied \in [Files -> IndexData] /\ index_content \in [Files -> Mtimes] /\ f \in Files
    BY <1>1, <1>2 DEF TypeOK, DatabaseType, ClientType
  <2> HIDE DEF s, u
  <2>4. CASE u.path = f
    <3>1. u.path # NoPath /\ u.path \in open
      BY <2>1, <2>3, <2>4, <1>2, Facts
    <3>2. applied'[f] = u.curr /\ index_content'[f] = u.content
      BY <2>1, <2>3, <2>4, <3>1 DEF IndexContentAfter
    <3>3. u.curr # EmptyIndex => MadeFrom(f, u.curr, u.content)
      BY <2>2, <2>3, <2>4 DEF LabelledUpdates
    <3>4. QED
      BY <1>2, <3>2, <3>3, Zenon
  <2>5. CASE u.path # f
    <3>1. applied'[f] = applied[f] /\ index_content'[f] = index_content[f]
      BY <2>1, <2>3, <2>5 DEF IndexContentAfter
    <3>2. Waits(f) => Waits(f)'
      <4>1. SUFFICES ASSUME NEW k \in DOMAIN s, s[k].path = f
                     PROVE  Waits(f)'
        BY DEF Waits, s
      <4>2. /\ DOMAIN s = 1 .. Len(s) /\ Len(s) \in Nat /\ s[1] = u
            /\ Len(Tail(s)) = Len(s) - 1 /\ DOMAIN Tail(s) = 1 .. Len(s) - 1
            /\ \A l \in 1 .. Len(s) - 1 : Tail(s)[l] = s[l + 1]
        <5>1. Tail(s) \in Seq(LabelledUpdates)
          BY <2>2, HeadTailProperties
        <5>2. QED
          BY <2>2, <5>1, HeadTailProperties, LenProperties
      <4>3. k # 1
        BY <2>5, <4>1, <4>2
      <4>4. k - 1 \in DOMAIN Tail(s) /\ Tail(s)[k - 1] = s[k]
        BY <4>2, <4>3
      <4>5. QED
        BY <2>2, <4>1, <4>4, Zenon DEF Waits
    <3>3. Writes(f) => Writes(f)'
      BY <2>1 DEF Writes
    <3>4. QED
      BY <1>2, <1>3, <2>1, <3>1, <3>2, <3>3
  <2>6. QED
    BY <2>4, <2>5
<1>7. ASSUME NEW g \in Files, DidOpen(g)
      PROVE  MadeFrom(f, applied'[f], index_content'[f])
  <2>1. /\ open' = open \cup {g} /\ g \notin open /\ UNCHANGED <<applied, on_indexed, worker>>
        /\ index_content' = [index_content EXCEPT ![g] = LoadIndexedContent(g)]
    BY <1>7 DEF DidOpen
  <2>2. (Waits(f) => Waits(f)') /\ (Writes(f) => Writes(f)')
    BY <2>1 DEF Waits, Writes
  <2>3. index_content \in [Files -> Mtimes]
    BY <1>1 DEF TypeOK, ClientType
  <2>4. CASE f = g
    <3>1. \/ Waits(f) \/ Writes(f) \/ applied[f] = EmptyIndex
          \/ MadeFrom(f, applied[f], LoadIndexedContent(f))
      BY <2>4, OpenedTranslated
    <3>2. index_content'[f] = LoadIndexedContent(f) /\ applied'[f] = applied[f]
      BY <2>1, <2>3, <2>4
    <3>3. QED
      BY <1>2, <2>2, <3>1, <3>2, Zenon
  <2>5. CASE f # g
    <3>1. f \in open /\ index_content'[f] = index_content[f] /\ applied'[f] = applied[f]
      BY <1>2, <2>1, <2>3, <2>5
    <3>2. QED
      BY <1>3, <2>2, <3>1, Zenon
  <2>6. QED
    BY <2>4, <2>5
<1>8. ASSUME NEW g \in Files, DidClose(g)
      PROVE  MadeFrom(f, applied'[f], index_content'[f])
  <2>1. /\ open' = open \ {g} /\ UNCHANGED <<applied, on_indexed, worker>>
        /\ index_content' = [index_content EXCEPT ![g] = 0]
    BY <1>8 DEF DidClose
  <2>2. (Waits(f) => Waits(f)') /\ (Writes(f) => Writes(f)')
    BY <2>1 DEF Waits, Writes
  <2>3. f \in open /\ f # g /\ index_content'[f] = index_content[f] /\ applied'[f] = applied[f]
    BY <1>1, <1>2, <2>1 DEF TypeOK, ClientType
  <2>4. QED
    BY <1>3, <2>2, <2>3, Zenon
<1>9. CASE DidChangeConfiguration \/ \E g \in Files : \/ Edit(g) \/ Remove(g) \/ DidSave(g)
                                                      \/ DidChangeWatchedFiles(g)
  BY <1>4, <1>9 DEF DidChangeConfiguration, Edit, Remove, DidSave, DidChangeWatchedFiles,
                    unchangedByClient
<1>10. CASE Reload
  <2>1. applied' = [g \in Files |-> EmptyIndex]
    BY <1>10 DEF Reload
  <2>2. QED
    BY <1>1, <1>2, <2>1
<1>11. CASE CleanRestart \/ Crash
  BY <1>2, <1>11 DEF CleanRestart, Crash, Restart
<1>12. CASE UNCHANGED vars
  BY <1>4, <1>12 DEF vars, clientVars
<1>13. QED
  BY <1>5, <1>6, <1>7, <1>8, <1>9, <1>10, <1>11, <1>12 DEF Next, Client, Undisturbed

ContentInv == ChainInv /\ Yielded /\ Loading /\ Labelled /\ Held /\ Translated

(* Once the pipeline is idle, positions of an open file are translated      *)
(* through a text that the index in the database was made from: whether the *)
(* text came with an update (setIndexContent) or from the cache when the    *)
(* file was opened (loadIndexedContent), whichever of the two caches holds  *)
(* it, however opening and closing the file interleave with its stores, and *)
(* through reloads, crashes and restarts.                                   *)
THEOREM IndexContentCorrect == Spec /\ UpdatesInTurn => []IndexContentMatches
<1>1. Init => ContentInv
  <2>1. SUFFICES ASSUME Init PROVE ContentInv
    OBVIOUS
  <2>2. ChainInv /\ Yielded
    BY <2>1, InitRefines
  <2>3. \A i \in Indexers : worker[i].pc = "idle"
    BY <2>1 DEF Init, IdleWorker
  <2>4. Loading
    BY <2>3 DEF Loading
  <2>5. Labelled
    BY <2>1, EmptyQueueProperties DEF Init, Labelled
  <2>6. Held
    BY <2>1 DEF Init, Held
  <2>7. Translated
    BY <2>1 DEF Init, Translated
  <2>8. QED
    BY <2>2, <2>4, <2>5, <2>6, <2>7 DEF ContentInv
<1>2. ContentInv /\ [Next /\ Undisturbed]_vars => ContentInv'
  <2>1. SUFFICES ASSUME ContentInv, [Next /\ Undisturbed]_vars
                 PROVE  ContentInv'
    OBVIOUS
  <2>2. /\ ChainInv /\ Yielded /\ Loading /\ Labelled /\ Held /\ Translated
        /\ TypeOK /\ Parsing /\ [Next]_vars
    BY <2>1 DEF ContentInv, ChainInv
  <2>3. ChainInv'
    BY <2>1, <2>2, NextChain
  <2>4. Yielded' /\ Loading' /\ Labelled' /\ Held'
    BY <2>2, NextYielded, NextLoading, NextLabelled, NextHeld
  <2>5. Translated'
    BY <2>1, <2>2, NextTranslated
  <2>6. QED
    BY <2>3, <2>4, <2>5 DEF ContentInv
<1>3. ContentInv => IndexContentMatches
  <2>1. SUFFICES ASSUME Translated, Idle, NEW f \in open, applied[f] # EmptyIndex
                 PROVE  MadeFrom(f, applied[f], index_content[f])
    BY DEF ContentInv, IndexContentMatches
  <2>2. ~Writes(f)
    BY <2>1 DEF Idle, Writes
  <2>3. ~Waits(f)
    BY <2>1 DEF Idle, Waits
  <2>4. QED
    BY <2>1, <2>2, <2>3 DEF Translated
<1>4. QED
  BY <1>1, <1>2, <1>3, PTL DEF Spec, UpdatesInTurn

(* With one indexer and a patient client no hypothesis is left: the         *)
(* assertion of applyIndexUpdate never fails, every delta starts from what  *)
(* the database will hold, the pipeline is the sequence of updates that     *)
(* IndexUpdates describes, and the positions of open files are translated   *)
(* through the right text.                                                  *)
THEOREM OneIndexerExact ==
  ASSUME OneAtATime
  PROVE  Spec => /\ ImplementsIndexUpdates /\ []CacheIsLastPushed /\ []RefcntAssertion
                 /\ []IndexContentMatches
<1>1. Spec => UpdatesInTurn
  BY OneIndexerInTurn
<1>2. QED
  BY <1>1, DeltasChain, PipelineImplementsUpdates, AssertionNeverFails, IndexContentCorrect, PTL
=============================================================================
