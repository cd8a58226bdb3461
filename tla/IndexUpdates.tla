---------------------------- MODULE IndexUpdates ----------------------------
(***************************************************************************)
(* What the indexers promise the database: for each file, the updates that *)
(* reach the main thread form a chain, each one a delta from the index the *)
(* one before it brought.  IndexPipeline implements this specification as  *)
(* long as no update overtakes another (IndexPipelineRefinement).          *)
(***************************************************************************)
EXTENDS QueryDB, Sequences

CONSTANTS
  IndexesOf,  (* [Files -> SUBSET IndexData]: what parsing a file can yield *)
  MaxQueue    (* bound: updates waiting for the main thread; 0: no bound    *)

ASSUME IndexesAssumption == IndexesOf \in [Files -> SUBSET IndexData]

ASSUME FilesAssumption == IsFiniteSet(Files)

ASSUME MaxQueueAssumption == MaxQueue \in Nat

VARIABLES
  current,  (* the index of each file the indexers pushed last (the cache)  *)
  queue,    (* on_indexed                                                   *)
  db,       (* DB                                                           *)
  applied   (* history: the index of each file the database received last   *)

vars == <<current, queue, db, applied>>

TypeOK ==
  /\ current \in [Files -> IndexData]
  /\ queue \in Seq(UpdateType)
  /\ db \in DBType
  /\ applied \in [Files -> IndexData]

Init ==
  /\ current = [f \in Files |-> EmptyIndex]
  /\ queue = <<>>
  /\ db = EmptyDB
  /\ applied = [f \in Files |-> EmptyIndex]

(* An indexer stores a new index of f and pushes the delta; EmptyIndex is   *)
(* the index of a deleted file.                                             *)
Store(f, index) ==
  /\ MaxQueue > 0 => Len(queue) < MaxQueue
  /\ current' = [current EXCEPT ![f] = index]
  /\ queue' = Append(queue, CreateDelta(f, current[f], index))
  /\ UNCHANGED <<db, applied>>

(* The main thread applies the next update. *)
Apply ==
  /\ queue # <<>>
  /\ db' = ApplyIndexUpdate(db, Head(queue))
  /\ applied' = [applied EXCEPT ![Head(queue).path] = Head(queue).curr]
  /\ queue' = Tail(queue)
  /\ UNCHANGED current

(* The server starts over: $ccls/reload of an idle pipeline, or a restart.  *)
Reset ==
  /\ current' = [f \in Files |-> EmptyIndex]
  /\ queue' = <<>>
  /\ db' = EmptyDB
  /\ applied' = [f \in Files |-> EmptyIndex]

Next ==
  \/ \E f \in Files : \E index \in IndexesOf[f] \cup {EmptyIndex} : Store(f, index)
  \/ Apply
  \/ Reset

Spec == Init /\ [][Next]_vars

-----------------------------------------------------------------------------
(* Occurrences and relations that the indexes of only one file contain.     *)
OwnedUse(o) ==
  \A f, g \in Files :
    \A a \in IndexesOf[f], b \in IndexesOf[g] :
      o \in a.uses /\ o \in b.uses => f = g

OwnedRel(r) ==
  \A f, g \in Files :
    \A a \in IndexesOf[f], b \in IndexesOf[g] :
      r \in a.rels /\ r \in b.rels => f = g

(* Every update waiting in on_indexed is a delta from what the database     *)
(* will hold for its file when the update's turn comes, and the cache holds *)
(* what the last of them brings (createDelta against rawCacheLoad).         *)
DeltaChain ==
  /\ \A k \in DOMAIN queue :
       IF \E j \in 1 .. k - 1 : queue[j].path = queue[k].path
         THEN \E j \in 1 .. k - 1 :
                /\ queue[j].path = queue[k].path
                /\ queue[k].prev = queue[j].curr
                /\ \A l \in j + 1 .. k - 1 : queue[l].path # queue[k].path
         ELSE queue[k].prev = applied[queue[k].path]
  /\ \A f \in Files :
       IF \E j \in DOMAIN queue : queue[j].path = f
         THEN \E j \in DOMAIN queue :
                /\ queue[j].path = f
                /\ current[f] = queue[j].curr
                /\ \A l \in j + 1 .. Len(queue) : queue[l].path # f
         ELSE current[f] = applied[f]

(* A definition of a symbol is listed for exactly the files whose index     *)
(* defines it (removeUsrs and DB::update).                                  *)
DefsExact ==
  \A u \in Usrs : db.defs[u] = {f \in Files : u \in applied[f].defs}

(* An occurrence of one file's own is in the entity's uses exactly once if  *)
(* that file's index has it and not at all otherwise: no duplicates, no     *)
(* leftovers, nothing missing.                                              *)
UsesExact ==
  \A o \in Occs : OwnedUse(o) =>
    db.uses[o] = One(\E f \in Files : o \in applied[f].uses)

(* The same for derived and instances. *)
RelsExact ==
  \A r \in Rels : OwnedRel(r) =>
    db.rels[r] = One(\E f \in Files : r \in applied[f].rels)

(* symbol2refcnt counts the indexes that refer to an occurrence, shared or  *)
(* not.                                                                     *)
RefcntExact ==
  \A o \in Occs :
    db.refcnt[o] = Cardinality({f \in Files : o \in applied[f].uses})
                   + Cardinality({f \in Files : o \in applied[f].spells})

(* assert(v >= 0) holds for the update applied next. *)
RefcntAssertion == queue # <<>> => AssertRefcnt(db, Head(queue))
=============================================================================
