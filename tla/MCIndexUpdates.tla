--------------------------- MODULE MCIndexUpdates ---------------------------
(***************************************************************************)
(* IndexUpdates for TLC: a source file and a header.  Each has a use of    *)
(* its own; both contain the macro use m (spelled in the header, recorded  *)
(* by both indexes), both contribute the derived pair d and both define    *)
(* the symbol u.                                                           *)
(***************************************************************************)
EXTENDS IndexUpdates

CONSTANTS a, h, u, oa, oh, sp, m, ra, d

MCFiles == {a, h}
MCUsrs == {u}
MCOccs == {oa, oh, sp, m}
MCRels == {ra, d}

Index(uses, defs, spells, rels, lids) ==
  [uses |-> uses, defs |-> defs, spells |-> spells, rels |-> rels, lids |-> lids]

MCIndexesOf ==
  [f \in MCFiles |->
     IF f = a
       THEN {Index({oa, m}, {u}, {sp}, {ra, d}, {h}),
             Index({oa}, {}, {}, {d}, {}),
             Index({m}, {u}, {}, {ra}, {h})}
       ELSE {Index({oh, m}, {u}, {}, {d}, {}),
             Index({oh}, {}, {}, {}, {})}]
=============================================================================
