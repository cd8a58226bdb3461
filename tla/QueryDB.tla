------------------------------ MODULE QueryDB ------------------------------
(***************************************************************************)
(* The in-memory query database (struct DB, src/src/query.hh) and the two  *)
(* operations that change it: IndexUpdate::createDelta, which turns a      *)
(* previous and a current file index into an update, and                   *)
(* DB::applyIndexUpdate.                                                   *)
(*                                                                         *)
(* An occurrence stands for one (usr, kind, range, extent, role, file_id): *)
(* a use, a declaration or the spelling of a definition.  A relation       *)
(* stands for one element of a `derived' or `instances' vector: a pair of  *)
(* usrs, with no file in it.                                               *)
(***************************************************************************)
EXTENDS Integers, FiniteSets

CONSTANTS
  Files,   (* paths; file_id is a one-to-one renaming of them              *)
  Usrs,    (* unified symbol resolutions                                   *)
  Occs,    (* occurrences                                                  *)
  Rels     (* derived / instances pairs                                    *)

(* What one IndexFile contributes: the uses and declarations, the          *)
(* definitions, the spellings of those of them that have one, the derived  *)
(* and instances pairs, and the other files its lid2path names.            *)
IndexData ==
  [uses: SUBSET Occs, defs: SUBSET Usrs, spells: SUBSET Occs,
   rels: SUBSET Rels, lids: SUBSET Files]

EmptyIndex ==
  [uses |-> {}, defs |-> {}, spells |-> {}, rels |-> {}, lids |-> {}]

(* QueryFile::def is absent, a stub that only knows its path (made for a    *)
(* file another index mentions), or the definition of its own index.        *)
FileDefs == {"absent", "stub", "indexed"}

DBType ==
  [files: [Files -> FileDefs], refcnt: [Occs -> Int], uses: [Occs -> Nat],
   rels: [Rels -> Nat], defs: [Usrs -> SUBSET Files]]

(* DB::clear(), and the database at start-up. *)
EmptyDB ==
  [files  |-> [f \in Files |-> "absent"],
   refcnt |-> [o \in Occs |-> 0],
   uses   |-> [o \in Occs |-> 0],
   rels   |-> [r \in Rels |-> 0],
   defs   |-> [u \in Usrs |-> {}]]

(* IndexUpdate::createDelta(previous, current): both sides are kept, each   *)
(* with its own lid2path; no previous index is the static empty one.        *)
UpdateType == [path: Files, prev: IndexData, curr: IndexData]

(* Mutants: the two sides exchanged; no previous index used. *)
CreateDeltaSwapped(f, prev, curr) == [path |-> f, prev |-> curr, curr |-> prev]
CreateDeltaFromNothing(f, prev, curr) ==
  [path |-> f, prev |-> EmptyIndex, curr |-> curr]

CreateDelta(f, prev, curr) == [path |-> f, prev |-> prev, curr |-> curr]

One(b) == IF b THEN 1 ELSE 0

(* Mutant: spellings are not counted. *)
RefsToUsesOnly(index, o) == One(o \in index.uses)

(* How often an index refers to o: a spelling and a use are distinct        *)
(* ExtentRefs, so at most one of the two in real data.                      *)
RefsTo(index, o) == One(o \in index.uses) + One(o \in index.spells)

(* Mutant: nothing is erased. *)
RemoveAddKeeps(n, removed, added) == n + One(added)

(* removeRange erases every element equal to one to remove; addRange        *)
(* appends one copy of each.                                                *)
RemoveAdd(n, removed, added) == (IF removed THEN 0 ELSE n) + One(added)

(* lid2path of the new index gives the files it names a stub definition.    *)
FileDefAfter(db, u, f) ==
  IF f = u.path THEN "indexed"
  ELSE IF f \in u.curr.lids /\ db.files[f] = "absent" THEN "stub"
  ELSE db.files[f]

(* Mutant: removeUsrs is not called. *)
DefsAfterKeeps(db, u, usr) ==
  db.defs[usr] \cup (IF usr \in u.curr.defs THEN {u.path} ELSE {})

(* removeUsrs erases the definition whose file_id is this file's, update    *)
(* replaces or appends it.                                                  *)
DefsAfter(db, u, usr) ==
  (db.defs[usr] \ (IF usr \in u.prev.defs THEN {u.path} ELSE {}))
    \cup (IF usr \in u.curr.defs THEN {u.path} ELSE {})

(* DB::applyIndexUpdate.  A reference count that reaches zero is erased     *)
(* from symbol2refcnt, which reads as zero here.                            *)
ApplyIndexUpdate(db, u) ==
  [files  |-> [f \in Files |-> FileDefAfter(db, u, f)],
   refcnt |-> [o \in Occs |->
                 db.refcnt[o] - RefsTo(u.prev, o) + RefsTo(u.curr, o)],
   uses   |-> [o \in Occs |->
                 RemoveAdd(db.uses[o], o \in u.prev.uses, o \in u.curr.uses)],
   rels   |-> [r \in Rels |->
                 RemoveAdd(db.rels[r], r \in u.prev.rels, r \in u.curr.rels)],
   defs   |-> [usr \in Usrs |-> DefsAfter(db, u, usr)]]

(* The assertions `assert(v >= 0)' of applyIndexUpdate's ref and refDecl:   *)
(* no removal takes a count below zero.                                     *)
AssertRefcnt(db, u) == \A o \in Occs : db.refcnt[o] >= RefsTo(u.prev, o)
=============================================================================
