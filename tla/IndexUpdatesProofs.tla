------------------------- MODULE IndexUpdatesProofs -------------------------
(***************************************************************************)
(* Theorems about IndexUpdates: for any files, symbols, occurrences and    *)
(* indexes, updates that form a chain keep the database exactly equal to   *)
(* the union of the indexes applied, and never trip applyIndexUpdate's     *)
(* assertions.                                                             *)
(***************************************************************************)
EXTENDS IndexUpdates, FiniteSetTheorems, TLAPS

(* What parsing f, or deleting it, can contribute. *)
Possible(f) == IndexesOf[f] \cup {EmptyIndex}

(* Every index in the system is one that its file can yield. *)
Contributed ==
  /\ \A f \in Files : current[f] \in Possible(f) /\ applied[f] \in Possible(f)
  /\ \A k \in DOMAIN queue : queue[k].curr \in Possible(queue[k].path)

(* The inductive invariant. *)
IInv ==
  /\ TypeOK /\ Contributed /\ DeltaChain
  /\ DefsExact /\ UsesExact /\ RelsExact /\ RefcntExact

-----------------------------------------------------------------------------
(* The empty index is an index, and every possible index is one.            *)
LEMMA PossibleType ==
  /\ EmptyIndex \in IndexData
  /\ \A f \in Files : Possible(f) \subseteq IndexData
<1>1. EmptyIndex \in IndexData
  BY DEF EmptyIndex, IndexData
<1>2. QED
  BY <1>1, IndexesAssumption DEF Possible

(* The empty database is a database.                                        *)
LEMMA EmptyDBType == EmptyDB \in DBType
  BY DEF EmptyDB, DBType, FileDefs

(* applyIndexUpdate keeps the database a database: a uses or relation count *)
(* that is cleared or grows by one stays natural.                           *)
LEMMA ApplyType ==
  ASSUME NEW d \in DBType, NEW u \in UpdateType
  PROVE  ApplyIndexUpdate(d, u) \in DBType
<1>1. /\ d.files \in [Files -> FileDefs] /\ d.refcnt \in [Occs -> Int]
      /\ d.uses \in [Occs -> Nat] /\ d.rels \in [Rels -> Nat]
      /\ d.defs \in [Usrs -> SUBSET Files] /\ u.path \in Files
  BY DEF DBType, UpdateType
<1>2. \A f \in Files : FileDefAfter(d, u, f) \in FileDefs
  BY <1>1 DEF FileDefAfter, FileDefs
<1>3. \A o \in Occs : d.refcnt[o] - RefsTo(u.prev, o) + RefsTo(u.curr, o) \in Int
  BY <1>1 DEF RefsTo, One
<1>4. \A n \in Nat : \A p, q : RemoveAdd(n, p, q) \in Nat
  BY DEF RemoveAdd, One
<1>5. \A x \in Usrs : DefsAfter(d, u, x) \in SUBSET Files
  BY <1>1 DEF DefsAfter
<1>6. QED
  BY <1>1, <1>2, <1>3, <1>4, <1>5 DEF ApplyIndexUpdate, DBType

(* The cardinality of a finite set counts any one element once or not at    *)
(* all.                                                                     *)
LEMMA CardinalitySplit ==
  ASSUME NEW S, NEW x, IsFiniteSet(S)
  PROVE  /\ Cardinality(S) = Cardinality(S \ {x}) + One(x \in S)
         /\ Cardinality(S \ {x}) \in Nat
<1>1. Cardinality(S) \in Nat /\ Cardinality(S \ {x}) \in Nat
  BY FS_RemoveElement, FS_CardinalityType
<1>2. CASE x \in S
  <2>1. Cardinality(S \ {x}) = Cardinality(S) - 1
    BY <1>2, FS_RemoveElement
  <2>2. One(x \in S) = 1
    BY <1>2 DEF One
  <2>3. QED
    BY <1>1, <2>1, <2>2
<1>3. CASE x \notin S
  <2>1. S \ {x} = S
    BY <1>3
  <2>2. Cardinality(S \ {x}) = Cardinality(S)
    BY <2>1, Zenon
  <2>3. One(x \in S) = 0
    BY <1>3 DEF One
  <2>4. QED
    BY <1>1, <2>2, <2>3
<1>4. QED
  BY <1>2, <1>3

(* Changing the membership of one element changes a cardinality by the      *)
(* difference.                                                              *)
LEMMA CardinalityOneChanges ==
  ASSUME NEW S, NEW T, NEW x, IsFiniteSet(S), IsFiniteSet(T), S \ {x} = T \ {x}
  PROVE  /\ Cardinality(T) = Cardinality(S) - One(x \in S) + One(x \in T)
         /\ Cardinality(S) \in Nat
         /\ Cardinality(S) >= One(x \in S)
<1>1. /\ Cardinality(S) = Cardinality(S \ {x}) + One(x \in S)
      /\ Cardinality(S \ {x}) \in Nat
  BY CardinalitySplit
<1>2. /\ Cardinality(T) = Cardinality(T \ {x}) + One(x \in T)
  BY CardinalitySplit
<1>3. Cardinality(S \ {x}) = Cardinality(T \ {x})
  BY Zenon
<1>4. One(x \in S) \in Nat /\ One(x \in T) \in Nat
  BY DEF One
<1>5. QED
  BY <1>1, <1>2, <1>3, <1>4

-----------------------------------------------------------------------------
(* The update at the head of the queue is a delta from the index of its     *)
(* file that the database holds.                                            *)
LEMMA HeadOfChain ==
  ASSUME TypeOK, Contributed, DeltaChain, queue # <<>>
  PROVE  /\ Head(queue) \in UpdateType
         /\ Head(queue).path \in Files
         /\ Head(queue).prev = applied[Head(queue).path]
         /\ Head(queue).curr \in Possible(Head(queue).path)
<1>1. queue \in Seq(UpdateType) /\ 1 \in DOMAIN queue /\ Head(queue) = queue[1]
  BY DEF TypeOK
<1>2. Head(queue) \in UpdateType
  BY <1>1
<1>3. ~ \E j \in 1 .. 1 - 1 : queue[j].path = queue[1].path
  OBVIOUS
<1>4. queue[1].prev = applied[queue[1].path]
  BY <1>1, <1>3 DEF DeltaChain
<1>5. QED
  BY <1>1, <1>2, <1>4 DEF Contributed, UpdateType

(* The invariant holds of the empty database.                               *)
LEMMA InitIInv == Init => IInv
<1> SUFFICES ASSUME Init PROVE IInv
  OBVIOUS
<1>1. TypeOK
  BY PossibleType, EmptyDBType DEF Init, TypeOK
<1>2. Contributed
  BY DEF Init, Contributed, Possible
<1>3. DeltaChain
  BY DEF Init, DeltaChain
<1>4. DefsExact /\ UsesExact /\ RelsExact
  BY DEF Init, DefsExact, UsesExact, RelsExact, EmptyDB, EmptyIndex, One
<1>5. RefcntExact
  <2> SUFFICES ASSUME NEW o \in Occs
               PROVE  db.refcnt[o] =
                        Cardinality({f \in Files : o \in applied[f].uses})
                        + Cardinality({f \in Files : o \in applied[f].spells})
    BY DEF RefcntExact
  <2>1. /\ {f \in Files : o \in applied[f].uses} = {}
        /\ {f \in Files : o \in applied[f].spells} = {}
    BY DEF Init, EmptyIndex
  <2>2. /\ Cardinality({f \in Files : o \in applied[f].uses}) = 0
        /\ Cardinality({f \in Files : o \in applied[f].spells}) = 0
    BY <2>1, FS_EmptySet, Zenon
  <2>3. db.refcnt[o] = 0
    BY DEF Init, EmptyDB
  <2>4. QED
    BY <2>2, <2>3
<1>6. QED
  BY <1>1, <1>2, <1>3, <1>4, <1>5 DEF IInv

-----------------------------------------------------------------------------
(* Store appends a delta from the last index pushed: the chain grows by a   *)
(* link and nothing else changes.                                           *)
LEMMA StoreKeepsChain ==
  ASSUME TypeOK, Contributed, DeltaChain,
         NEW f \in Files, NEW index \in Possible(f), Store(f, index)
  PROVE  TypeOK' /\ Contributed' /\ DeltaChain'
<1> DEFINE u == CreateDelta(f, current[f], index)
<1>1. index \in IndexData /\ current[f] \in IndexData
  BY PossibleType DEF TypeOK
<1>2. u \in UpdateType /\ u.path = f /\ u.prev = current[f] /\ u.curr = index
  BY <1>1 DEF CreateDelta, UpdateType
<1> HIDE DEF u
<1>3. /\ queue' = Append(queue, u) /\ current' = [current EXCEPT ![f] = index]
      /\ db' = db /\ applied' = applied
  BY DEF Store, u
<1>4. queue \in Seq(UpdateType) /\ Len(queue) \in Nat
  BY DEF TypeOK
<1>5. /\ Len(queue') = Len(queue) + 1 /\ DOMAIN queue' = 1 .. Len(queue) + 1
      /\ DOMAIN queue = 1 .. Len(queue)
      /\ queue'[Len(queue) + 1] = u
      /\ \A k \in DOMAIN queue : queue'[k] = queue[k]
  BY <1>2, <1>3, <1>4
<1>6. TypeOK'
  BY <1>1, <1>2, <1>3, <1>4 DEF TypeOK
<1>7. Contributed'
  BY <1>2, <1>3, <1>5 DEF Contributed, TypeOK
<1>8. ASSUME NEW k \in DOMAIN queue'
      PROVE  IF \E j \in 1 .. k - 1 : queue'[j].path = queue'[k].path
               THEN \E j \in 1 .. k - 1 :
                      /\ queue'[j].path = queue'[k].path
                      /\ queue'[k].prev = queue'[j].curr
                      /\ \A l \in j + 1 .. k - 1 : queue'[l].path # queue'[k].path
               ELSE queue'[k].prev = applied'[queue'[k].path]
  <2>1. CASE k \in DOMAIN queue
    <3>1. /\ queue'[k] = queue[k]
          /\ \A j \in 1 .. k - 1 : queue'[j] = queue[j]
      BY <2>1, <1>4, <1>5
    <3>2. IF \E j \in 1 .. k - 1 : queue[j].path = queue[k].path
            THEN \E j \in 1 .. k - 1 :
                   /\ queue[j].path = queue[k].path
                   /\ queue[k].prev = queue[j].curr
                   /\ \A l \in j + 1 .. k - 1 : queue[l].path # queue[k].path
            ELSE queue[k].prev = applied[queue[k].path]
      BY <2>1 DEF DeltaChain
    <3>3. k \in Nat
      BY <1>4, <1>5, <2>1
    <3>4. CASE \E j \in 1 .. k - 1 : queue[j].path = queue[k].path
      <4>1. PICK j \in 1 .. k - 1 :
                   /\ queue[j].path = queue[k].path
                   /\ queue[k].prev = queue[j].curr
                   /\ \A l \in j + 1 .. k - 1 : queue[l].path # queue[k].path
        BY <3>2, <3>4
      <4>2. \A l \in j + 1 .. k - 1 : l \in 1 .. k - 1
        BY <3>3
      <4>3. \A l \in j + 1 .. k - 1 : queue'[l].path # queue'[k].path
        BY <3>1, <4>1, <4>2
      <4>4. queue'[j].path = queue'[k].path /\ queue'[k].prev = queue'[j].curr
        BY <3>1, <4>1
      <4>5. QED
        BY <4>3, <4>4
    <3>5. CASE ~ \E j \in 1 .. k - 1 : queue[j].path = queue[k].path
      BY <1>3, <3>1, <3>2, <3>5
    <3>6. QED
      BY <3>4, <3>5
  <2>2. CASE k = Len(queue) + 1
    <3>1. queue'[k] = u /\ \A j \in 1 .. k - 1 : queue'[j] = queue[j]
      BY <2>2, <1>4, <1>5
    <3>2. IF \E j \in 1 .. Len(queue) : queue[j].path = f
            THEN \E j \in 1 .. Len(queue) :
                   /\ queue[j].path = f
                   /\ current[f] = queue[j].curr
                   /\ \A l \in j + 1 .. Len(queue) : queue[l].path # f
            ELSE current[f] = applied[f]
      BY <1>5 DEF DeltaChain
    <3>3. k - 1 = Len(queue)
      BY <2>2, <1>4
    <3>4. QED
      BY <1>2, <1>3, <1>4, <3>1, <3>2, <3>3, SMTT(30)
  <2>3. QED
    BY <1>4, <1>5, <2>1, <2>2
<1>9. ASSUME NEW g \in Files
      PROVE  IF \E j \in DOMAIN queue' : queue'[j].path = g
               THEN \E j \in DOMAIN queue' :
                      /\ queue'[j].path = g
                      /\ current'[g] = queue'[j].curr
                      /\ \A l \in j + 1 .. Len(queue') : queue'[l].path # g
               ELSE current'[g] = applied'[g]
  <2>1. CASE g = f
    <3>1. current'[g] = index
      BY <1>3, <2>1 DEF TypeOK
    <3>2. /\ Len(queue) + 1 \in DOMAIN queue'
          /\ \A l \in Len(queue) + 2 .. Len(queue') : queue'[l].path # g
      BY <1>4, <1>5
    <3>3. QED
      BY <1>2, <1>4, <1>5, <2>1, <3>1, <3>2
  <2>2. CASE g # f
    <3>1. current'[g] = current[g]
      BY <1>3, <2>2 DEF TypeOK
    <3>2. IF \E j \in DOMAIN queue : queue[j].path = g
            THEN \E j \in DOMAIN queue :
                   /\ queue[j].path = g
                   /\ current[g] = queue[j].curr
                   /\ \A l \in j + 1 .. Len(queue) : queue[l].path # g
            ELSE current[g] = applied[g]
      BY DEF DeltaChain
    <3>3. queue'[Len(queue) + 1].path # g
      BY <1>2, <1>5, <2>2
    <3>4. CASE \E j \in DOMAIN queue : queue[j].path = g
      <4>1. PICK j \in DOMAIN queue :
                   /\ queue[j].path = g
                   /\ current[g] = queue[j].curr
                   /\ \A l \in j + 1 .. Len(queue) : queue[l].path # g
        BY <3>2, <3>4
      <4>2. \A l \in j + 1 .. Len(queue') : queue'[l].path # g
        BY <1>4, <1>5, <3>3, <4>1
      <4>3. QED
        BY <1>4, <1>5, <3>1, <4>1, <4>2
    <3>5. CASE ~ \E j \in DOMAIN queue : queue[j].path = g
      BY <1>3, <1>4, <1>5, <3>1, <3>2, <3>3, <3>5
    <3>6. QED
      BY <3>4, <3>5
  <2>3. QED
    BY <2>1, <2>2
<1>10. DeltaChain'
  BY <1>8, <1>9 DEF DeltaChain
<1>11. QED
  BY <1>6, <1>7, <1>10

(* Apply takes the head off the chain: what followed it for the same file   *)
(* now follows what the database holds.                                     *)
LEMMA ApplyKeepsChain ==
  ASSUME TypeOK, Contributed, DeltaChain, Apply
  PROVE  TypeOK' /\ Contributed' /\ DeltaChain'
<1> DEFINE u == Head(queue)
<1>1. /\ u \in UpdateType /\ u.path \in Files /\ u.curr \in IndexData
      /\ u.curr \in Possible(u.path)
  BY HeadOfChain, PossibleType DEF Apply
<1>2. /\ queue' = Tail(queue) /\ current' = current /\ queue # <<>>
      /\ applied' = [applied EXCEPT ![u.path] = u.curr]
      /\ db' = ApplyIndexUpdate(db, u)
  BY DEF Apply
<1>3. queue \in Seq(UpdateType) /\ Len(queue) \in Nat /\ Len(queue) > 0
  BY <1>2 DEF TypeOK
<1>4. /\ Len(queue') = Len(queue) - 1 /\ u = queue[1]
      /\ DOMAIN queue = 1 .. Len(queue) /\ DOMAIN queue' = 1 .. Len(queue) - 1
      /\ \A k \in 1 .. Len(queue) - 1 : queue'[k] = queue[k + 1]
  BY <1>2, <1>3
<1>5. TypeOK'
  <2>1. db' \in DBType
    BY <1>1, <1>2, ApplyType DEF TypeOK
  <2>2. queue' \in Seq(UpdateType)
    BY <1>2, <1>3
  <2>3. QED
    BY <1>1, <1>2, <2>1, <2>2 DEF TypeOK
<1> HIDE DEF u
<1>6. Contributed'
  <2>1. \A f \in Files : applied'[f] \in Possible(f)
    BY <1>1, <1>2 DEF Contributed, TypeOK
  <2>2. \A k \in DOMAIN queue' : queue'[k].curr \in Possible(queue'[k].path)
    BY <1>3, <1>4, SMTT(30) DEF Contributed
  <2>3. QED
    BY <1>2, <2>1, <2>2 DEF Contributed
<1>7. /\ applied'[u.path] = u.curr
      /\ \A f \in Files : f # u.path => applied'[f] = applied[f]
  BY <1>1, <1>2 DEF TypeOK
<1>8. ASSUME NEW k \in DOMAIN queue'
      PROVE  IF \E j \in 1 .. k - 1 : queue'[j].path = queue'[k].path
               THEN \E j \in 1 .. k - 1 :
                      /\ queue'[j].path = queue'[k].path
                      /\ queue'[k].prev = queue'[j].curr
                      /\ \A l \in j + 1 .. k - 1 : queue'[l].path # queue'[k].path
               ELSE queue'[k].prev = applied'[queue'[k].path]
  <2>1. /\ k \in Nat /\ k >= 1 /\ k + 1 \in DOMAIN queue
        /\ queue'[k] = queue[k + 1] /\ queue[k + 1].path \in Files
        /\ \A j \in 1 .. k - 1 : queue'[j] = queue[j + 1]
    <3>1. k \in Nat /\ k >= 1 /\ k + 1 \in DOMAIN queue
      BY <1>3, <1>4
    <3>2. queue[k + 1] \in UpdateType
      BY <1>3, <3>1
    <3>3. \A j \in 1 .. k - 1 : j \in 1 .. Len(queue) - 1
      BY <1>3, <1>4, <3>1
    <3>4. QED
      BY <1>4, <3>1, <3>2, <3>3 DEF UpdateType
  <2>2. IF \E j \in 1 .. k : queue[j].path = queue[k + 1].path
          THEN \E j \in 1 .. k :
                 /\ queue[j].path = queue[k + 1].path
                 /\ queue[k + 1].prev = queue[j].curr
                 /\ \A l \in j + 1 .. k : queue[l].path # queue[k + 1].path
          ELSE queue[k + 1].prev = applied[queue[k + 1].path]
    <3>1. k + 1 - 1 = k
      BY <2>1
    <3>2. QED
      BY <2>1, <3>1 DEF DeltaChain
  <2>3. CASE ~ \E j \in 1 .. k : queue[j].path = queue[k + 1].path
    <3>1. queue[1].path # queue[k + 1].path
      BY <2>1, <2>3
    <3>2. ~ \E j \in 1 .. k - 1 : queue'[j].path = queue'[k].path
      BY <2>1, <2>3
    <3>3. queue'[k].prev = applied'[queue'[k].path]
      BY <1>4, <1>7, <2>1, <2>2, <2>3, <3>1
    <3>4. QED
      BY <3>2, <3>3
  <2>4. ASSUME NEW j \in 1 .. k,
               queue[j].path = queue[k + 1].path,
               queue[k + 1].prev = queue[j].curr,
               \A l \in j + 1 .. k : queue[l].path # queue[k + 1].path
        PROVE  IF \E i \in 1 .. k - 1 : queue'[i].path = queue'[k].path
                 THEN \E i \in 1 .. k - 1 :
                        /\ queue'[i].path = queue'[k].path
                        /\ queue'[k].prev = queue'[i].curr
                        /\ \A l \in i + 1 .. k - 1 : queue'[l].path # queue'[k].path
                 ELSE queue'[k].prev = applied'[queue'[k].path]
    <3>1. CASE j = 1
      <4>1. ~ \E i \in 1 .. k - 1 : queue'[i].path = queue'[k].path
        <5>1. \A i \in 1 .. k - 1 : i + 1 \in j + 1 .. k
          BY <2>1, <3>1
        <5>2. QED
          BY <2>1, <2>4, <5>1
      <4>2. queue'[k].prev = applied'[queue'[k].path]
        BY <1>4, <1>7, <2>1, <2>4, <3>1
      <4>3. QED
        BY <4>1, <4>2
    <3>2. CASE j # 1
      <4>1. /\ j - 1 \in 1 .. k - 1 /\ queue'[j - 1] = queue[j]
        BY <2>1, <3>2
      <4>2. \A l \in (j - 1) + 1 .. k - 1 : queue'[l].path # queue'[k].path
        <5>1. \A l \in (j - 1) + 1 .. k - 1 :
                 l \in 1 .. k - 1 /\ l + 1 \in j + 1 .. k
          BY <2>1, <3>2
        <5>2. QED
          BY <2>1, <2>4, <5>1
      <4>3. queue'[j - 1].path = queue'[k].path /\ queue'[k].prev = queue'[j - 1].curr
        BY <2>1, <2>4, <4>1
      <4>4. QED
        BY <4>1, <4>2, <4>3
    <3>3. QED
      BY <3>1, <3>2
  <2>5. QED
    BY <2>2, <2>3, <2>4
<1>9. ASSUME NEW g \in Files
      PROVE  IF \E j \in DOMAIN queue' : queue'[j].path = g
               THEN \E j \in DOMAIN queue' :
                      /\ queue'[j].path = g
                      /\ current'[g] = queue'[j].curr
                      /\ \A l \in j + 1 .. Len(queue') : queue'[l].path # g
               ELSE current'[g] = applied'[g]
  <2>1. IF \E j \in DOMAIN queue : queue[j].path = g
          THEN \E j \in DOMAIN queue :
                 /\ queue[j].path = g
                 /\ current[g] = queue[j].curr
                 /\ \A l \in j + 1 .. Len(queue) : queue[l].path # g
          ELSE current[g] = applied[g]
    BY DEF DeltaChain
  <2>2. CASE ~ \E j \in DOMAIN queue : queue[j].path = g
    <3>1. g # u.path
      BY <1>3, <1>4, <2>2
    <3>2. ~ \E j \in DOMAIN queue' : queue'[j].path = g
      BY <1>3, <1>4, <2>2, SMTT(30)
    <3>3. QED
      BY <1>2, <1>7, <2>1, <2>2, <3>1, <3>2
  <2>3. ASSUME NEW j \in DOMAIN queue, queue[j].path = g,
               current[g] = queue[j].curr,
               \A l \in j + 1 .. Len(queue) : queue[l].path # g
        PROVE  IF \E i \in DOMAIN queue' : queue'[i].path = g
                 THEN \E i \in DOMAIN queue' :
                        /\ queue'[i].path = g
                        /\ current'[g] = queue'[i].curr
                        /\ \A l \in i + 1 .. Len(queue') : queue'[l].path # g
                 ELSE current'[g] = applied'[g]
    <3>1. CASE j = 1
      <4>1. ~ \E i \in DOMAIN queue' : queue'[i].path = g
        <5>1. \A i \in DOMAIN queue' : i + 1 \in j + 1 .. Len(queue)
          BY <1>3, <1>4, <3>1
        <5>2. QED
          BY <1>3, <1>4, <2>3, <5>1
      <4>2. current'[g] = applied'[g]
        BY <1>2, <1>4, <1>7, <2>3, <3>1
      <4>3. QED
        BY <4>1, <4>2
    <3>2. CASE j # 1
      <4>1. j - 1 \in DOMAIN queue' /\ queue'[j - 1] = queue[j]
        BY <1>3, <1>4, <3>2
      <4>2. \A l \in (j - 1) + 1 .. Len(queue') : queue'[l].path # g
        <5>1. \A l \in (j - 1) + 1 .. Len(queue') :
                 l \in 1 .. Len(queue) - 1 /\ l + 1 \in j + 1 .. Len(queue)
          BY <1>3, <1>4, <3>2
        <5>2. QED
          BY <1>4, <2>3, <5>1
      <4>3. QED
        BY <1>2, <2>3, <4>1, <4>2
    <3>3. QED
      BY <3>1, <3>2
  <2>4. QED
    BY <2>1, <2>2, <2>3
<1>10. DeltaChain'
  BY <1>8, <1>9 DEF DeltaChain
<1>11. QED
  BY <1>5, <1>6, <1>10

-----------------------------------------------------------------------------
(* Applying the head of the chain replaces, in each part of the database,   *)
(* what its file contributed by what it contributes now.                    *)
LEMMA ApplyKeepsExact ==
  ASSUME IInv, Apply
  PROVE  DefsExact' /\ UsesExact' /\ RelsExact' /\ RefcntExact'
<1> DEFINE u == Head(queue)
<1>1. /\ u \in UpdateType /\ u.path \in Files /\ u.prev = applied[u.path]
      /\ u.curr \in Possible(u.path)
  BY HeadOfChain DEF Apply, IInv
<1>2. /\ applied' = [applied EXCEPT ![u.path] = u.curr]
      /\ db' = ApplyIndexUpdate(db, u)
  BY DEF Apply
<1>3. db \in DBType /\ applied \in [Files -> IndexData]
  BY DEF IInv, TypeOK
<1> HIDE DEF u
<1>4. /\ applied'[u.path] = u.curr
      /\ \A f \in Files : f # u.path => applied'[f] = applied[f]
  BY <1>1, <1>2, <1>3
<1>5. DefsExact'
  <2> SUFFICES ASSUME NEW x \in Usrs
               PROVE  db'.defs[x] = {f \in Files : x \in applied'[f].defs}
    BY DEF DefsExact
  <2>1. db.defs[x] = {f \in Files : x \in applied[f].defs}
    BY DEF IInv, DefsExact
  <2>2. db'.defs[x] = DefsAfter(db, u, x)
    BY <1>2 DEF ApplyIndexUpdate
  <2>3. QED
    BY <1>1, <1>4, <2>1, <2>2 DEF DefsAfter
<1>6. UsesExact'
  <2> SUFFICES ASSUME NEW o \in Occs, OwnedUse(o)
               PROVE  db'.uses[o] = One(\E f \in Files : o \in applied'[f].uses)
    BY DEF UsesExact, OwnedUse
  <2>1. db.uses[o] = One(\E f \in Files : o \in applied[f].uses)
    BY DEF IInv, UsesExact
  <2>2. db'.uses[o] = RemoveAdd(db.uses[o], o \in u.prev.uses, o \in u.curr.uses)
    BY <1>2 DEF ApplyIndexUpdate
  <2>3. \A f \in Files : o \in applied[f].uses => applied[f] \in IndexesOf[f]
    BY DEF IInv, Contributed, Possible, EmptyIndex
  <2>4. o \in u.curr.uses => u.curr \in IndexesOf[u.path]
    BY <1>1 DEF Possible, EmptyIndex
  <2>5. \A f \in Files :
          o \in applied[f].uses /\ (o \in u.prev.uses \/ o \in u.curr.uses)
            => f = u.path
    BY <1>1, <2>3, <2>4 DEF OwnedUse
  <2>6. (\E f \in Files : o \in applied'[f].uses) <=>
          \/ o \in u.curr.uses
          \/ o \notin u.prev.uses /\ \E f \in Files : o \in applied[f].uses
    BY <1>1, <1>4, <2>5
  <2>7. o \notin u.prev.uses /\ o \in u.curr.uses
          => ~ \E f \in Files : o \in applied[f].uses
    BY <1>1, <2>5
  <2>8. QED
    BY <2>1, <2>2, <2>6, <2>7 DEF RemoveAdd, One
<1>7. RelsExact'
  <2> SUFFICES ASSUME NEW r \in Rels, OwnedRel(r)
               PROVE  db'.rels[r] = One(\E f \in Files : r \in applied'[f].rels)
    BY DEF RelsExact, OwnedRel
  <2>1. db.rels[r] = One(\E f \in Files : r \in applied[f].rels)
    BY DEF IInv, RelsExact
  <2>2. db'.rels[r] = RemoveAdd(db.rels[r], r \in u.prev.rels, r \in u.curr.rels)
    BY <1>2 DEF ApplyIndexUpdate
  <2>3. \A f \in Files : r \in applied[f].rels => applied[f] \in IndexesOf[f]
    BY DEF IInv, Contributed, Possible, EmptyIndex
  <2>4. r \in u.curr.rels => u.curr \in IndexesOf[u.path]
    BY <1>1 DEF Possible, EmptyIndex
  <2>5. \A f \in Files :
          r \in applied[f].rels /\ (r \in u.prev.rels \/ r \in u.curr.rels)
            => f = u.path
    BY <1>1, <2>3, <2>4 DEF OwnedRel
  <2>6. (\E f \in Files : r \in applied'[f].rels) <=>
          \/ r \in u.curr.rels
          \/ r \notin u.prev.rels /\ \E f \in Files : r \in applied[f].rels
    BY <1>1, <1>4, <2>5
  <2>7. r \notin u.prev.rels /\ r \in u.curr.rels
          => ~ \E f \in Files : r \in applied[f].rels
    BY <1>1, <2>5
  <2>8. QED
    BY <2>1, <2>2, <2>6, <2>7 DEF RemoveAdd, One
<1>8. RefcntExact'
  <2> SUFFICES ASSUME NEW o \in Occs
               PROVE  db'.refcnt[o] =
                        Cardinality({f \in Files : o \in applied'[f].uses})
                        + Cardinality({f \in Files : o \in applied'[f].spells})
    BY DEF RefcntExact
  <2> DEFINE U == {f \in Files : o \in applied[f].uses}
             V == {f \in Files : o \in applied'[f].uses}
             S == {f \in Files : o \in applied[f].spells}
             T == {f \in Files : o \in applied'[f].spells}
  <2>1. IsFiniteSet(U) /\ IsFiniteSet(V) /\ IsFiniteSet(S) /\ IsFiniteSet(T)
    <3>1. U \subseteq Files /\ V \subseteq Files /\ S \subseteq Files /\ T \subseteq Files
      OBVIOUS
    <3>2. QED
      BY <3>1, FilesAssumption, FS_Subset
  <2>2. U \ {u.path} = V \ {u.path} /\ S \ {u.path} = T \ {u.path}
    BY <1>4
  <2>3. /\ u.path \in U <=> o \in u.prev.uses
        /\ u.path \in S <=> o \in u.prev.spells
        /\ u.path \in V <=> o \in u.curr.uses
        /\ u.path \in T <=> o \in u.curr.spells
    BY <1>1, <1>4
  <2>4. /\ db'.refcnt[o] = db.refcnt[o] - RefsTo(u.prev, o) + RefsTo(u.curr, o)
        /\ db.refcnt[o] = Cardinality(U) + Cardinality(S)
    <3>1. db'.refcnt[o] = db.refcnt[o] - RefsTo(u.prev, o) + RefsTo(u.curr, o)
      BY <1>2 DEF ApplyIndexUpdate
    <3>2. QED
      BY <3>1 DEF IInv, RefcntExact
  <2> HIDE DEF U, V, S, T
  <2>5. /\ Cardinality(V) = Cardinality(U) - One(u.path \in U) + One(u.path \in V)
        /\ Cardinality(U) \in Nat
    BY <2>1, <2>2, CardinalityOneChanges
  <2>6. /\ Cardinality(T) = Cardinality(S) - One(u.path \in S) + One(u.path \in T)
        /\ Cardinality(S) \in Nat
    BY <2>1, <2>2, CardinalityOneChanges
  <2>7. db'.refcnt[o] = Cardinality(V) + Cardinality(T)
    BY <2>3, <2>4, <2>5, <2>6 DEF RefsTo, One
  <2>8. QED
    BY <2>7 DEF V, T
<1>9. QED
  BY <1>5, <1>6, <1>7, <1>8

(* Every step keeps the invariant.                                          *)
LEMMA NextIInv == IInv /\ [Next]_vars => IInv'
<1> SUFFICES ASSUME IInv, [Next]_vars PROVE IInv'
  OBVIOUS
<1>1. ASSUME NEW f \in Files, NEW index \in IndexesOf[f] \cup {EmptyIndex},
             Store(f, index)
      PROVE  IInv'
  <2>1. TypeOK' /\ Contributed' /\ DeltaChain'
    BY <1>1, StoreKeepsChain DEF IInv, Possible
  <2>2. DefsExact' /\ UsesExact' /\ RelsExact' /\ RefcntExact'
    BY <1>1 DEF IInv, Store, DefsExact, UsesExact, RelsExact, RefcntExact,
                OwnedUse, OwnedRel
  <2>3. QED
    BY <2>1, <2>2 DEF IInv
<1>2. CASE Apply
  BY <1>2, ApplyKeepsChain, ApplyKeepsExact DEF IInv
<1>3. CASE Reset
  <2>1. Init'
    BY <1>3 DEF Reset, Init
  <2>2. QED
    BY <2>1, InitIInv, PTL
<1>4. CASE UNCHANGED vars
  <2>1. TypeOK' /\ Contributed'
    BY <1>4 DEF IInv, vars, TypeOK, Contributed
  <2>2. DeltaChain'
    BY <1>4 DEF IInv, vars, DeltaChain
  <2>3. DefsExact' /\ UsesExact' /\ RelsExact' /\ RefcntExact'
    BY <1>4 DEF IInv, vars, DefsExact, UsesExact, RelsExact, RefcntExact,
                OwnedUse, OwnedRel
  <2>4. QED
    BY <2>1, <2>2, <2>3 DEF IInv
<1>5. QED
  BY <1>1, <1>2, <1>3, <1>4 DEF Next

-----------------------------------------------------------------------------
(* The inductive invariant holds throughout.                                *)
THEOREM Invariance == Spec => []IInv
<1>1. Init => IInv
  BY InitIInv
<1>2. IInv /\ [Next]_vars => IInv'
  BY NextIInv
<1>3. QED
  BY <1>1, <1>2, PTL DEF Spec

(* Type correctness: current, queue, db and applied keep their types; in    *)
(* particular no uses or relation count leaves the naturals.                *)
THEOREM TypeCorrect == Spec => []TypeOK
<1>1. IInv => TypeOK
  BY DEF IInv
<1>2. QED
  BY <1>1, Invariance, PTL

(* Updates are deltas from what the database will hold when they are        *)
(* applied (createDelta against the cached index).                          *)
THEOREM ChainKept == Spec => []DeltaChain
<1>1. IInv => DeltaChain
  BY DEF IInv
<1>2. QED
  BY <1>1, Invariance, PTL

(* DB::applyIndexUpdate keeps uses exact: for every occurrence of one file's *)
(* own, one entry if the file's index has it and none otherwise.            *)
THEOREM UsesStayExact == Spec => []UsesExact
<1>1. IInv => UsesExact
  BY DEF IInv
<1>2. QED
  BY <1>1, Invariance, PTL

(* The same for derived and instances.                                      *)
THEOREM RelsStayExact == Spec => []RelsExact
<1>1. IInv => RelsExact
  BY DEF IInv
<1>2. QED
  BY <1>1, Invariance, PTL

(* removeUsrs and DB::update keep each symbol's definitions exactly those   *)
(* of the files whose index defines it.                                     *)
THEOREM DefsStayExact == Spec => []DefsExact
<1>1. IInv => DefsExact
  BY DEF IInv
<1>2. QED
  BY <1>1, Invariance, PTL

(* symbol2refcnt is exactly the number of indexes that refer to an          *)
(* occurrence, however many files share it.                                 *)
THEOREM RefcntStaysExact == Spec => []RefcntExact
<1>1. IInv => RefcntExact
  BY DEF IInv
<1>2. QED
  BY <1>1, Invariance, PTL

(* Neither assert(v >= 0) of applyIndexUpdate can fail while updates form a *)
(* chain.                                                                   *)
THEOREM AssertionHolds == Spec => []RefcntAssertion
<1>1. IInv => RefcntAssertion
  <2> SUFFICES ASSUME IInv, queue # <<>>, NEW o \in Occs
               PROVE  db.refcnt[o] >= RefsTo(Head(queue).prev, o)
    BY DEF RefcntAssertion, AssertRefcnt
  <2> DEFINE p == Head(queue).path
             U == {f \in Files : o \in applied[f].uses}
             S == {f \in Files : o \in applied[f].spells}
  <2>1. p \in Files /\ Head(queue).prev = applied[p]
    BY HeadOfChain DEF IInv
  <2>2. db.refcnt[o] = Cardinality(U) + Cardinality(S)
    BY DEF IInv, RefcntExact
  <2>3. IsFiniteSet(U) /\ IsFiniteSet(S)
    <3>1. U \subseteq Files /\ S \subseteq Files
      OBVIOUS
    <3>2. QED
      BY <3>1, FilesAssumption, FS_Subset
  <2>4. /\ p \in U <=> o \in Head(queue).prev.uses
        /\ p \in S <=> o \in Head(queue).prev.spells
    BY <2>1
  <2> HIDE DEF p, U, S
  <2>5. /\ Cardinality(U) \in Nat /\ Cardinality(U) >= One(p \in U)
        /\ Cardinality(S) \in Nat /\ Cardinality(S) >= One(p \in S)
    BY <2>3, CardinalityOneChanges
  <2>6. QED
    BY <2>2, <2>4, <2>5 DEF RefsTo, One
<1>2. QED
  BY <1>1, Invariance, PTL
=============================================================================
