---------------------------- MODULE MCAlgorithms ----------------------------
(***************************************************************************)
(* Five parts that do not meet, each checked against what it means by      *)
(* definition: one open buffer that is edited, reindexed and looked into;  *)
(* cache files of small indexes; completion; workspace symbols; folders    *)
(* that are loaded and removed.  A behaviour is of one of them.            *)
(***************************************************************************)
EXTENDS WorkingFiles, Serializer, Completion, Project

CONSTANTS
  MaxLines,      (* lines of a text                                         *)
  MaxLoads       (* bound: loads of folders                                 *)

VARIABLES
  part,          (* which of them the behaviour is of                       *)
  loads          (* folders loaded so far                                   *)

pvars == <<root2folder, loads>>
vars == <<part, wfiles, svars, cvars, pvars>>

-----------------------------------------------------------------------------
(* Texts: sequences of these lines, the longest without empty lines, with   *)
(* and without a last newline.                                              *)
LineTexts == {<<>>, <<"a", "b">>, <<"b", "a", "b">>}
Joined(ls) == FoldLeft(LAMBDA text, l : text \o l \o <<"n">>, <<>>, ls)
IndexTexts == {Joined(ls) : ls \in UNION {[1 .. n -> LineTexts] : n \in 1 .. MaxLines - 1}
                                  \cup [1 .. MaxLines -> LineTexts \ {<<>>}]}
Unended == {Front(t) : t \in IndexTexts}
BufferTexts == IndexTexts \cup Unended \cup {<<"L", "C", "a", "b", "n">>, <<"L", "C", "b", "n", "a", "b">>}

Places == {<<0, 0>>, <<0, 1>>, <<0, 9>>, <<1, 0>>, <<1, 2>>, <<9, 0>>}
Changes == [whole : {TRUE}, from : {<<0, 0>>}, to : {<<0, 0>>}, text : {<<>>, <<"a", "b">>}] \cup
           [whole : {FALSE}, from : Places, to : Places, text : {<<>>, <<"b">>, <<"a", "b", "n">>}]
Forward(c) == c.whole \/ c.from[1] < c.to[1] \/ (c.from[1] = c.to[1] /\ c.from[2] <= c.to[2])
Twice == <<[whole |-> FALSE, from |-> <<0, 0>>, to |-> <<1, 0>>, text |-> <<>>],
           [whole |-> FALSE, from |-> <<0, 0>>, to |-> <<0, 0>>, text |-> <<"b", "a", "b", "n">>]>>
(* An edit that leaves these texts is out of bounds. *)
InBounds == \A f \in DOMAIN wfiles' : wfiles'[f].buffer_content \in BufferTexts

Cached == [known : {TRUE}, text : IndexTexts] \cup {[known |-> FALSE, text |-> <<>>]}

TextNext ==
  \/ wfiles = <<>> /\ \E t \in BufferTexts, c \in Cached : OnOpen("f", t, c)
  \/ wfiles # <<>> /\ \E c \in Cached : OnOpen("f", <<"b", "a", "b">>, c)
  \/ \E c \in Changes : Forward(c) /\ OnChange("f", <<c>>) /\ InBounds
  \/ OnChange("f", Twice) /\ InBounds
  \/ OnClose("f")
  \/ \E t \in IndexTexts, onChange \in BOOLEAN : OnIndexed("f", t, onChange)
  \/ Lookup("f")

-----------------------------------------------------------------------------
(* Indexes: one with something in every member, and each change of one      *)
(* member of it, at any depth, to a value at a boundary.                    *)
MCVersions == {<<3, 0>>, <<3, 1>>, <<4, 0>>}
MCPathMappings == <<<<<<7>>>>, <<<<1, 2>>, <<3>>>>, <<<<4>>, <<>>>>>>

UIntSamples(size) ==
  {n \in {Radix - 4, Radix - 3, Radix ^ 2 - 1, Radix ^ 2, Radix ^ 4 - 1, Radix ^ 4, Radix ^ 8 - 1} :
     n < Radix ^ size}
IntSamples(size) ==
  LET half == (Radix ^ size) \div 2
      sizes == {Radix \div 2 - 2, Radix \div 2 - 1, Radix ^ 2 \div 2, half - 1}
  IN  {n \in sizes \cup {-n - 1 : n \in sizes} : -half <= n /\ n < half}
APath == <<5, 1, 2, 6>>
StringSamples == {<<>>, <<4, 1, 2, 1, 2>>}

RECURSIVE Rich(_)
Rich(type) ==
  CASE type.t = "bool" -> TRUE
    [] type.t \in {"byte", "uint", "int"} -> 1
    [] type.t = "string" -> APath
    [] type.t = "maybe" -> <<Rich(type.of)>>
    [] type.t = "vector" -> <<Rich(type.of), Rich(type.of)>>
    [] type.t = "usrmap" -> LET r == Rich(type.of) IN (1 :> r) @@ (Radix :> [r EXCEPT !.usr = Radix])
    [] type.t = "dependencies" -> (APath :> 5) @@ (<<6>> :> -1)
    [] OTHER -> FoldLeft(LAMBDA v, m : v @@ (m[1] :> Rich(m[2])), <<>>, type.members)

RECURSIVE Samples(_)
Samples(type) ==
  CASE type.t = "bool" -> BOOLEAN
    [] type.t = "byte" -> {0, Radix - 1}
    [] type.t = "uint" -> UIntSamples(type.size)
    [] type.t = "int" -> IntSamples(type.size)
    [] type.t = "string" -> StringSamples
    [] type.t = "maybe" -> {<<>>} \cup {<<x>> : x \in Samples(type.of)}
    [] type.t = "vector" -> {<<>>} \cup {<<x>> : x \in Samples(type.of)}
                            \cup {[i \in 1 .. n |-> Rich(type.of)] : n \in {Radix - 3, Radix}}
    [] type.t = "usrmap" -> {<<>>} \cup {x.usr :> x : x \in Samples(type.of)}
    [] type.t = "dependencies" -> {<<>>} \cup {APath :> n : n \in IntSamples(8)}
    [] OTHER -> LET r == Rich(type)
                IN  UNION {{[r EXCEPT ![m[1]] = x] : x \in Samples(m[2])} : m \in ToSet(type.members)}

SampleFiles == Samples(IndexFileT)
RichFile == Rich(IndexFileT)

CacheNext ==
  \/ cache = NoCache /\ version = <<3, 0>> /\
       \E file \in SampleFiles, format \in {"binary", "json"} : Store(format, file, TRUE)
  \/ cache = NoCache /\ \E format \in {"binary", "json"}, up \in BOOLEAN : Store(format, RichFile, up)
  \/ cache = NoCache /\ \E name \in MemberNames(IndexFileT) : StoreOther(RichFile, name, "absent")
  \/ cache = NoCache /\ \E name \in MemberNames(IndexFileT) \ {"dependencies"} : StoreOther(RichFile, name, "other")
  \/ cache = NoCache /\ \E format \in {"binary", "json"}, n \in 0 .. 7 : StoreTorn(format, RichFile, n)
  \/ cache # NoCache /\ \E v \in Versions : Upgrade(v)
  \/ Load

-----------------------------------------------------------------------------
(* Completion.                                                              *)
MCCharOrder ==
  <<" ", " -> ", " : ", "#", "$0", "$1", "P", "(", ")", ",", "-", ".", "/", ":", "<", ">", "A", "B", "_", "a", "b">>
MCMinScore == -536870912

Chunk(kind, text) == [kind |-> kind, text |-> text]
Result(decl, chunks, fixIts, priority) ==
  [available |-> decl # "hidden", decl |-> decl, pattern |-> decl = "pattern", chunks |-> chunks,
   fixIts |-> fixIts, priority |-> priority]
Fix(from, to, text, same) == <<[from |-> from, to |-> to, text |-> text, same |-> same]>>

Typed(s) == <<Chunk("typed", s)>>
Call(s) == <<Chunk("result", <<"b">>), Chunk("qualifier", <<"B", ":", ":">>)>> \o Typed(s)
           \o <<Chunk("other", <<"(">>), Chunk("placeholder", <<"a">>),
                [kind |-> "optional", chunks |-> <<Chunk("other", <<",">>), Chunk("placeholder", <<"b">>)>>],
                Chunk("other", <<")">>), Chunk("informative", <<" ", "a">>)>>
Bare(s) == Typed(s) \o <<Chunk("other", <<"(", ")">>)>>

Results(begin) ==
  <<Result("other", Typed(<<"a", "b">>), <<>>, 1),
    Result("other", Call(<<"a", "_", "B">>), <<>>, 2),
    Result("other", Bare(<<"A", "B">>), Fix(begin - 1, begin, <<"-", ">">>, TRUE), 1),
    Result("other", Typed(<<"b", "a", "B">>), Fix(begin - 2, begin, <<".">>, TRUE), 1),
    Result("other", Typed(<<"a", "B">>), Fix(begin - 1, begin, <<"-", ">">>, FALSE), 3),
    Result("other", Typed(<<"A">>), Fix(0, 0, <<"b">>, TRUE), 1),
    Result("pattern", Typed(<<"B">>) \o <<Chunk("other", <<" ">>), Chunk("placeholder", <<"a">>)>>, <<>>, 4),
    Result("destructor", Typed(<<"a", "b">>), <<>>, 1),
    Result("hidden", Typed(<<"b">>), <<>>, 1)>>

(* Pairs of results, and all of them in two orders. *)
ResultSeqs(begin) ==
  LET all == Results(begin)
      pairs == {p \in (DOMAIN all) \X (DOMAIN all) : p[1] <= p[2]}
  IN  {<<all[p[1]], all[p[2]]>> : p \in pairs} \cup {all, Reverse(all), <<>>}

Config(snippet, detailed, sort, sensitivity) ==
  [snippetSupport |-> snippet, placeholder |-> detailed, duplicateOptional |-> snippet, detailedLabel |-> detailed,
   filterAndSort |-> sort, caseSensitivity |-> sensitivity]
Configs == {Config(TRUE, TRUE, TRUE, 1), Config(TRUE, FALSE, TRUE, 2), Config(FALSE, TRUE, TRUE, 0),
            Config(FALSE, FALSE, FALSE, 2)}

(* The line of the cursor: an object, one of the operators, what was typed  *)
(* and what comes after.                                                    *)
Cursor(head, typed, rest) ==
  [line |-> head \o typed \o rest, begin |-> Len(head), end |-> Len(head) + Len(typed)]
Cursors == {Cursor(<<"b", "-", ">">>, <<"a", "b">>, <<>>), Cursor(<<"b", "b", ".">>, <<"A">>, <<" ", "(", ")">>),
            Cursor(<<" ", "b", "-", ">">>, <<>>, <<"a">>), Cursor(<<"#", "a", "<">>, <<"b">>, <<>>)}
Triggers == {"none", "<", ":", ">"}

CompletionNext ==
  \/ \E c \in Cursors, cfg \in Configs : \E results \in ResultSeqs(c.begin) :
       Complete([kind |-> "completion", context |-> "other", trigger |-> "none", results |-> results,
                 line |-> c.line, begin |-> c.begin, end |-> c.end, cfg |-> cfg])
  \/ \E c \in Cursors, context \in {"other", "recovery"}, trigger \in Triggers :
       Complete([kind |-> "completion", context |-> context, trigger |-> trigger, results |-> Results(c.begin),
                 line |-> c.line, begin |-> c.begin, end |-> c.end, cfg |-> Config(TRUE, TRUE, TRUE, 1)])

(* workspace/symbol. *)
Symbol(scope, short, defs, decls, local) ==
  [detailed |-> scope \o short, short |-> short, defs |-> defs, decls |-> decls, local |-> local]
Symbols ==
  <<Symbol(<<>>, <<"b", "A", "a">>, <<1>>, <<>>, FALSE),
    Symbol(<<"a", ":", ":">>, <<"A", "b", "_", "B">>, <<2, 1>>, <<1>>, FALSE),
    Symbol(<<"a", ":", ":">>, <<"b">>, <<2>>, <<1>>, FALSE),
    Symbol(<<>>, <<"a", "b">>, <<>>, <<2, 1>>, FALSE),
    Symbol(<<>>, <<"a", "A", "B">>, <<1>>, <<>>, TRUE),
    Symbol(<<"A", ":", ":", "b", ":", ":">>, <<"A", "A", "_", "A">>, <<1>>, <<>>, FALSE)>>
Queries == UNION {[1 .. n -> {"a", "A", "b", " "}] : n \in 0 .. 3} \cup {<<"a", ":", "b">>}

SymbolNext ==
  \E query \in Queries, folder \in {{1}, {2}, {1, 2}}, setting \in 0 .. 2, sort \in BOOLEAN :
    WorkspaceSymbol([kind |-> "symbol", syms |-> Symbols, query |-> query, folder |-> folder,
                     setting |-> setting, sort |-> sort])

-----------------------------------------------------------------------------
(* Folders: the project and, inside of it, another.                         *)
MCPrependArgs == <<Plain(<<"-nostdinc">>)>>
MCExtraArgs == <<Plain(<<"-Wall">>)>>

File(dir, stem, ext) == [dir |-> dir, stem |-> stem, ext |-> ext]
Outer == <<"p">>
Inner == <<"p", "s">>
FileA == File(Outer, <<"a">>, "c")
FileB == File(Inner, <<"b">>, "cc")
FileX == File(<<"x">>, <<"a">>, "c")

Arg(kind, text, on) == [kind |-> kind, text |-> <<text>>, on |-> on]
Clang == Plain(<<"clang">>)
CommandOf(file, args) == [directory |-> Outer, file |-> file, args |-> <<Clang>> \o args]
CommandA == CommandOf(FileA, <<Arg("pair", "-MF", {}), Plain(<<"a.d">>), Plain(<<"-DA">>)>>)
CommandB == CommandOf(FileB, <<Plain(<<"-DB">>), Arg("drop", "-MD", {})>>)
Commands == {<<>>, <<CommandA, CommandB>>,
             <<CommandB, CommandOf(FileX, <<>>), CommandOf(FileB, <<Plain(<<"-DC">>)>>)>>}

DotArgs == {<<>>, <<Clang, Arg("percent", "-std", {"%cpp", "%cu"}), Plain(<<"-DD">>)>>,
            <<Arg("cdb", "", {}), Arg("percent", "-std", {"%c"}), Arg("pair", "-Xclang", {}),
              Arg("percent", "-x", {"%c"})>>}
DotCcls == UNION {[dirs -> DotArgs] : dirs \in {{}, {Outer}, {Inner}, {Outer, Inner}}}

Disks == [ok : {TRUE}, commands : Commands, dot_ccls : DotCcls,
          files : {<<FileA, FileB, File(Outer, <<"a">>, "h"), File(Inner, <<"a">>, "txt")>>}]
         \cup [ok : {FALSE}, commands : {<<>>}, dot_ccls : {<<>>}, files : {<<>>}]

ProjectNext ==
  \/ \E root \in {Outer, Inner}, disk \in Disks : loads < MaxLoads /\ LoadFolder(root, disk) /\ loads' = loads + 1
  \/ \E root \in {Outer, Inner} : Erase(root) /\ UNCHANGED loads

-----------------------------------------------------------------------------
Init ==
  /\ part \in {"text", "cache", "completion", "symbol", "project"}
  /\ wfiles = <<>>
  /\ SInit /\ (version = <<3, 0>> \/ part = "cache")
  /\ request = <<>> /\ reply = <<>>
  /\ root2folder = <<>> /\ loads = 0

Next ==
  /\ UNCHANGED part
  /\ \/ part = "text" /\ TextNext /\ UNCHANGED <<svars, cvars, pvars>>
     \/ part = "cache" /\ CacheNext /\ UNCHANGED <<wfiles, cvars, pvars>>
     \/ part = "completion" /\ request = <<>> /\ CompletionNext /\ UNCHANGED <<wfiles, svars, pvars>>
     \/ part = "symbol" /\ request = <<>> /\ SymbolNext /\ UNCHANGED <<wfiles, svars, pvars>>
     \/ part = "project" /\ ProjectNext /\ UNCHANGED <<wfiles, svars, cvars>>

Spec == Init /\ [][Next]_vars
=============================================================================
