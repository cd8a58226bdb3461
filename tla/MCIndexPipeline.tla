-------------------------- MODULE MCIndexPipeline --------------------------
(***************************************************************************)
(* IndexPipeline for TLC: a source file that includes a header.  Each      *)
(* version of a file has an occurrence of its own and one that every       *)
(* version has.                                                            *)
(***************************************************************************)
EXTENDS IndexPipeline, TLC

CONSTANTS
  a, h,         (* files; h is the header                                   *)
  i1, i2        (* indexer threads                                          *)

(* One source and the header. *)
SmallFiles == {a, h}
SmallEntries == <<a>>

MCIncludes == [f \in Files |-> IF f = h THEN <<>> ELSE <<h>>]
MCRelated == [f \in Files |-> IF f = h THEN {a} ELSE {}]

(* All files are in one directory. *)
MCPrio(opened, f) == Cardinality(opened)

MCOccs == Files \X (0 .. MaxMtime)
MCIndexAt ==
  [f \in Files |-> [v \in 1 .. MaxMtime |->
     [uses |-> {<<f, 0>>, <<f, v>>}, defs |-> {}, spells |-> {}, rels |-> {},
      lids |-> {}]]]

Allow(ops, n) == [op \in Operations |-> IF op \in ops THEN n ELSE 0]

(* No file is ever open: all updates are of the background class.           *)
BackgroundBudget ==
  Allow({"edit", "remove", "configure", "crash"}, 1)

(* One user working on open files with one indexer. *)
EditorBudget ==
  [Allow({"open", "edit", "close", "restart"}, 1) EXCEPT
     !["open"] = 2, !["edit"] = 2]

(* The same without a cache directory, with reloads of an idle server. *)
MemoryBudget ==
  [Allow({"open", "edit", "remove", "watch", "reload", "parsecrash"}, 1) EXCEPT
     !["watch"] = 2, !["reload"] = 2]

(* Files are opened and saved while the project is being indexed. *)
OverlapBudget == Allow({"open", "edit"}, 1)

(* Two changes of a file are announced while two indexers run. *)
TwoIndexersBudget == Allow({"edit", "watch"}, 1)

Symmetry == Permutations(Indexers)
=============================================================================
