------------------------------ MODULE Project ------------------------------
(***************************************************************************)
(* The compiler arguments of a file (src/src/project.cc): the entries that *)
(* compile_commands.json and .ccls files make, the arguments with which    *)
(* Project::index sends each of them to the indexers, and the ones that    *)
(* findEntry makes when the file is saved, opened or completed in.         *)
(*                                                                         *)
(* A file is its directory (names from the root), the letters of its stem  *)
(* and its extension; paths are canonical.  An argument has a kind:        *)
(* "plain"; "drop" (-MD, or matched by clang.excludeArgs); "pair" (-MF,    *)
(* -MT, -MQ, -Xclang), which goes with its successor; "percent", for the   *)
(* languages in on; "cdb", the line %compile_commands.json.                *)
(***************************************************************************)
EXTENDS Integers, Sequences, SequencesExt, FiniteSets, FiniteSetsExt

CONSTANTS
  PrependArgs, ExtraArgs   (* clang.prependArgs and clang.extraArgs         *)

ASSUME ArgsAssumption ==
  \A arg \in ToSet(PrependArgs \o ExtraArgs) : DOMAIN arg = {"kind", "text", "on"}

VARIABLES
  root2folder    (* the folders: entries, path2entry_index, dot_ccls, and   *)
                 (* whether the last load listed the directory              *)

EmptyFolder == [entries |-> <<>>, path2entry_index |-> <<>>, dot_ccls |-> <<>>, listed |-> FALSE]

Plain(text) == [kind |-> "plain", text |-> text, on |-> {}]

-----------------------------------------------------------------------------
(* Arguments.                                                               *)

(* lookupExtension: the language and whether it is a header's extension. *)
LookupExtension(file) ==
  CASE file.ext = "c" -> <<"C", FALSE>>
    [] file.ext = "h" -> <<"C", TRUE>>
    [] file.ext = "cc" -> <<"Cpp", FALSE>>
    [] file.ext = "hh" -> <<"Cpp", TRUE>>
    [] file.ext = "cu" -> <<"Cuda", FALSE>>
    [] file.ext = "m" -> <<"ObjC", FALSE>>
    [] file.ext = "mm" -> <<"ObjCpp", FALSE>>
    [] OTHER -> <<"Unknown", FALSE>>

(* The prefixes of an argument in .ccls that hold for the file. *)
Selected(file) ==
  LET lang == LookupExtension(file)
  IN  CASE lang[1] = "C" -> {"%c"} \cup (IF lang[2] THEN {"%h"} ELSE {})
        [] lang[1] = "Cpp" -> {"%cpp"} \cup (IF lang[2] THEN {"%hpp"} ELSE {})
        [] lang[1] = "Cuda" -> {"%cu"}
        [] lang[1] = "ObjC" -> {"%objective-c"}
        [] lang[1] = "ObjCpp" -> {"%objective-cpp"}
        [] OTHER -> {}

(* ProjectProcessor::excludesArg in a loop over arguments: some are dropped *)
(* and some take their successor with them.                                 *)
Excluded(arg) == arg.kind \in {"drop", "pair"}
StartArgs == [args |-> <<>>, skip |-> FALSE]
Take(st, arg) ==
  IF st.skip THEN [st EXCEPT !.skip = FALSE]
  ELSE IF Excluded(arg) THEN [st EXCEPT !.skip = arg.kind = "pair"]
  ELSE [st EXCEPT !.args = Append(@, arg)]

(* The arguments of a compile command. *)
Command(args) == FoldLeft(Take, StartArgs, args).args

(* ProjectProcessor::process: the first size arguments stay, %c and the     *)
(* like are expanded in the others.                                         *)
Process(args, size, file) ==
  LET Expand(st, arg) ==
        IF st.skip \/ arg.kind \notin {"percent", "cdb"} THEN Take(st, arg)
        ELSE IF arg.on \cap Selected(file) # {} THEN [st EXCEPT !.args = Append(@, Plain(arg.text))]
        ELSE st
  IN  SubSeq(args, 1, size) \o FoldLeft(Expand, StartArgs, SubSeq(args, size + 1, Len(args))).args

FileArg(file) == Plain(<<"file", file>>)

(* getFallback. *)
Fallback(file) ==
  <<Plain(<<"clang">>)>> \o (IF file.ext = "h" THEN <<Plain(<<"-xobjective-c++-header">>)>> ELSE <<>>)
  \o <<FileArg(file)>>

(* appendToCDB. *)
AppendToCDB(args) == args # <<>> /\ args[1].kind = "cdb"

(* What a .ccls that does not append makes of a file. *)
FromDotCcls(args, file) == IF args = <<>> THEN Fallback(file) ELSE Append(args, FileArg(file))

(* What is added around the arguments in the end. *)
Final(args, directory) ==
  LET all == args \o ExtraArgs \o <<Plain(<<"-working-directory", directory>>)>>
  IN  <<all[1]>> \o PrependArgs \o Tail(all)

-----------------------------------------------------------------------------
(* Loading a folder.                                                        *)

Inside(dir, file) == IsPrefix(dir, file.dir)

(* The entries of compile_commands.json: a sequence of commands, each with  *)
(* its directory, file and arguments.  The first of a file counts.          *)
CdbEntries(root, commands) ==
  LET entry(c) == [root |-> root, directory |-> c.directory, filename |-> c.file,
                   args |-> Command(c.args), compdb_size |-> Len(Command(c.args))]
      add(es, c) == IF \E k \in DOMAIN es : es[k].filename = c.file THEN es ELSE Append(es, entry(c))
  IN  FoldLeft(add, <<>>, commands)

(* getDotCcls: the nearest .ccls above the file, or that of the root. *)
GetDotCcls(dot_ccls, root, file) ==
  LET above == {n \in 0 .. Len(file.dir) : SubSeq(file.dir, 1, n) \in DOMAIN dot_ccls}
  IN  dot_ccls[IF above = {} THEN root ELSE SubSeq(file.dir, 1, Max(above))]

(* loadDirectoryListing: the .ccls files are read, but one that was read    *)
(* before keeps its contents; entries of compile_commands.json get the      *)
(* options of a .ccls that appends; other sources get an entry of their own *)
(* from a .ccls that does not.                                              *)
ReadDotCcls(old, root, disk) ==
  LET new == {d \in DOMAIN disk.dot_ccls : IsPrefix(root, d)}
  IN  [d \in DOMAIN old \cup new |-> IF d \in DOMAIN old THEN old[d] ELSE disk.dot_ccls[d]]

Appended(e, args) ==
  IF ~AppendToCDB(args) THEN e
  ELSE [e EXCEPT !.args = Process(@ \o Tail(args), e.compdb_size, e.filename)]

Listed(root, file, args) ==
  [root |-> root, directory |-> root, filename |-> file,
   args |-> Process(FromDotCcls(args, file), 0, file), compdb_size |-> 0]

IsSource(file) == LookupExtension(file)[1] # "Unknown" /\ ~LookupExtension(file)[2]

WithListing(root, dot_ccls, entries, disk) ==
  LET args(file) == GetDotCcls(dot_ccls, root, file)
      own == SelectSeq(disk.files, LAMBDA f :
               /\ Inside(root, f) /\ IsSource(f) /\ ~AppendToCDB(args(f))
               /\ \A k \in DOMAIN entries : entries[k].filename # f)
  IN  [k \in DOMAIN entries |-> Appended(entries[k], args(entries[k].filename))]
      \o [k \in DOMAIN own |-> Listed(root, own[k], args(own[k]))]

(* Project::load and loadDirectory.  path2entry_index keeps what it has of  *)
(* files that have no entry any more.                                       *)
Loaded(folder, root, disk) ==
  LET fromCdb == CdbEntries(root, disk.commands)
      listed == disk.ok /\ root \in DOMAIN disk.dot_ccls
      dots == IF listed THEN ReadDotCcls(folder.dot_ccls, root, disk) ELSE folder.dot_ccls
      entries == IF ~disk.ok THEN <<>>
                 ELSE IF listed THEN WithListing(root, dots, fromCdb, disk)
                 ELSE fromCdb
      now == {entries[k].filename : k \in DOMAIN entries}
      old == folder.path2entry_index
  IN  [entries |-> entries, dot_ccls |-> dots, listed |-> listed,
       path2entry_index |->
         [f \in DOMAIN old \cup now |->
            IF f \in now THEN CHOOSE k \in DOMAIN entries : entries[k].filename = f ELSE old[f]]]

FolderOf(root) == IF root \in DOMAIN root2folder THEN root2folder[root] ELSE EmptyFolder

(* initialize and didChangeWorkspaceFolders load a folder that is new,      *)
(* didChangeConfiguration loads every folder again; disk.ok is false when   *)
(* compilationDatabaseCommand fails.                                        *)
LoadFolder(root, disk) ==
  root2folder' = [r \in DOMAIN root2folder \cup {root} |->
                    IF r = root THEN Loaded(FolderOf(root), root, disk) ELSE root2folder[r]]

(* didChangeWorkspaceFolders removes a folder. *)
Erase(root) ==
  /\ root \in DOMAIN root2folder
  /\ root2folder' = [r \in DOMAIN root2folder \ {root} |-> root2folder[r]]

-----------------------------------------------------------------------------
(* Project::index: what each entry is indexed with. *)
RequestArgs(e) == Final(e.args, e.directory)

(* findEntry.  order is the order in which root2folder is iterated; a       *)
(* result that is not there is the empty sequence.                          *)
Containing(order, file) == SelectSeq(order, LAMBDA root : Inside(root, file))

(* The best-fit .ccls of all folders the file is in. *)
BestDotCcls(roots, file) ==
  LET dots(root) == {d \in DOMAIN root2folder[root].dot_ccls : Inside(d, file)}
      longer(best, root) ==
        LET lens == {Len(d) : d \in dots(root)}
        IN  IF lens = {} \/ (best # <<>> /\ Max(lens) <= Len(best[1].dir)) THEN best
            ELSE <<[root |-> root, dir |-> SubSeq(file.dir, 1, Max(lens))]>>
  IN  FoldLeft(longer, <<>>, roots)

(* The entry path2entry_index has for the file, of the first folder where   *)
(* it counts.  A position left over from an earlier load that is past the   *)
(* end of the entries is not looked into here: the code does, undefined.    *)
StartMatch == [match |-> FALSE, exact |-> FALSE, best |-> <<>>]
MatchEntry(roots, file, canRedirect) ==
  LET look(st, root) ==
        LET folder == root2folder[root]
            known == file \in DOMAIN folder.path2entry_index
                     /\ folder.path2entry_index[file] \in DOMAIN folder.entries
            e == folder.entries[folder.path2entry_index[file]]
            exact == e.compdb_size > 0 /\ e.filename = file
            match == exact \/ canRedirect
        IN  IF st.match \/ ~known THEN st
            ELSE [match |-> match, exact |-> exact,
                  best |-> IF match /\ e.compdb_size > 0 THEN <<e>> ELSE st.best]
  IN  FoldLeft(look, StartMatch, roots)

(* computeGuessScore: names of directories and letters of file names that   *)
(* the two have in common, as often as both have them, against the depths.  *)
ExtLetters(ext) ==
  CASE ext = "c" -> <<".", "c">> [] ext = "h" -> <<".", "h">> [] ext = "cc" -> <<".", "c", "c">>
    [] ext = "hh" -> <<".", "h", "h">> [] ext = "cu" -> <<".", "c", "u">> [] ext = "m" -> <<".", "m">>
    [] ext = "mm" -> <<".", "m", "m">> [] OTHER -> <<".">>
Letters(file) == file.stem \o ExtLetters(file.ext)

InCommon(s, t) ==
  LET count(seq, x) == Cardinality({k \in DOMAIN seq : seq[k] = x})
  IN  MapThenSumSet(LAMBDA x : Min({count(s, x), count(t, x)}), ToSet(s) \cap ToSet(t))

ComputeGuessScore(a, b) ==
  31 * InCommon(a.dir, b.dir) - 9 * (Len(a.dir) + 1 + Len(b.dir) + 1) + InCommon(Letters(a), Letters(b))

(* Infer args from a similar path: the first of the best. *)
Guess(roots, file) ==
  LET all == FoldLeft(LAMBDA es, root : es \o root2folder[root].entries, <<>>, roots)
      from == SelectSeq(all, LAMBDA e : e.compdb_size > 0)
      lang == LookupExtension(file)
      score(e) == ComputeGuessScore(file, e.filename)
                  - IF lang[1] # LookupExtension(e.filename)[1] /\ lang # <<"C", TRUE>> THEN 30 ELSE 0
      better(best, e) == IF best = <<>> \/ score(e) > score(best[1]) THEN <<e>> ELSE best
  IN  FoldLeft(better, <<>>, from)

(* Mutant: the trailing .ccls options are not deleted. *)
BaseArgsAll(e) == e.args

(* The arguments of an entry of compile_commands.json without the options   *)
(* of .ccls.                                                                *)
BaseArgs(e) == SubSeq(e.args, 1, e.compdb_size)

(* The entry findEntry returns: its file (none if it must exist and does    *)
(* not), directory and arguments.  Its id is always -1.                     *)
NoEntry == [filename |-> <<>>, directory |-> <<>>, args |-> <<>>, id |-> -1]

FindEntry(order, file, canRedirect, mustExist) ==
  LET roots == Containing(order, file)
      dot == BestDotCcls(roots, file)
      dotArgs == IF dot = <<>> THEN <<>> ELSE root2folder[dot[1].root].dot_ccls[dot[1].dir]
      append == AppendToCDB(dotArgs)
      m == MatchEntry(roots, file, canRedirect)
      best == IF m.best = <<>> THEN Guess(roots, file) ELSE m.best
      options == IF append THEN Tail(dotArgs) ELSE <<>>
      entry(directory, args) ==
        [filename |-> <<file>>, directory |-> directory, args |-> Final(args, directory), id |-> -1]
  IN  IF dot # <<>> /\ ~append /\ ~m.exact
        THEN entry(dot[1].root, Process(FromDotCcls(dotArgs, file), 0, file))
      ELSE IF mustExist /\ ~m.match /\ (dot = <<>> \/ append) THEN NoEntry
      ELSE IF best # <<>>
        THEN entry(best[1].directory, Process(BaseArgs(best[1]) \o options, 0, file))
      ELSE IF dot # <<>>
        THEN entry(<<>>, Process(Fallback(file) \o options, 0, file))
      ELSE entry(<<>>, Fallback(file))

-----------------------------------------------------------------------------
(* The property.                                                            *)

AgreesWith(e, answer) == answer.filename = <<e.filename>> /\ answer.args = RequestArgs(e)

Orders == SetToSeqs(DOMAIN root2folder)

(* The arguments a file is indexed with at the start are the ones that      *)
(* findEntry gives the indexer after a save (can_redirect, whether or not   *)
(* it must exist) and the completion and diagnostics threads: cacheInvalid  *)
(* compares them with the cached ones, so a difference would parse the file *)
(* anew at every start, and diagnose it with options it is not indexed      *)
(* with.  For the files of one folder and inside of it, whatever loads and  *)
(* failed loads came before, unless the .ccls of the root was removed.      *)
ArgsAgree ==
  \A order \in Orders, root \in DOMAIN root2folder :
    LET folder == root2folder[root]
    IN  folder.listed \/ folder.dot_ccls = <<>> =>
          \A k \in DOMAIN folder.entries :
            LET e == folder.entries[k]
            IN  Containing(order, e.filename) = <<root>> =>
                  \A flags \in {<<TRUE, TRUE>>, <<TRUE, FALSE>>, <<FALSE, FALSE>>} :
                    AgreesWith(e, FindEntry(order, e.filename, flags[1], flags[2]))
=============================================================================
