----------------------------- MODULE Serializer -----------------------------
(***************************************************************************)
(* The index of a file on disk (src/src/serializer.hh, serializer.cc): the *)
(* binary format, read byte by byte with nothing but the order of the      *)
(* members to go by, and JSON, read by the names of the members.           *)
(*                                                                         *)
(* The overloads of reflect become one writer and one reader per format    *)
(* that follow a description of the type.  A byte has Radix values where   *)
(* the code has 256, so that every width and every boundary is reached     *)
(* with small numbers.  A string is a sequence of bytes that are not 0.    *)
(* The text of JSON is its tree; of a string that holds numbers, the       *)
(* numbers that are printed.  The test mode is not modelled.               *)
(***************************************************************************)
EXTENDS Integers, FiniteSets, SequencesExt

CONSTANTS
  Radix,         (* the values of a byte, 256 in the code                   *)
  Versions,      (* pairs <<kMajorVersion, kMinorVersion>> of the program   *)
  PathMappings   (* g_config->clang.pathMappings, each <<from, to>>, or     *)
                 (* <<text>> if it has no separator                         *)

ASSUME RadixAssumption == Radix \in Nat /\ Radix > 4 /\ Radix % 2 = 0

VARIABLES
  version,       (* of the program that runs                                *)
  cache,         (* the cache file, and what was written to it              *)
  loaded         (* whether the cache was read, and what deserialize made   *)
                 (* of it: <<>> or <<file>>                                 *)

svars == <<version, cache, loaded>>

-----------------------------------------------------------------------------
(* Types.                                                                   *)

BoolT == [t |-> "bool"]
ByteT == [t |-> "byte"]
UIntT(size) == [t |-> "uint", size |-> size]
IntT(size) == [t |-> "int", size |-> size]
StringT == [t |-> "string"]
MaybeT(of) == [t |-> "maybe", of |-> of]
VectorT(of) == [t |-> "vector", of |-> of]
UsrMapT(of) == [t |-> "usrmap", of |-> of]
DependenciesT == [t |-> "dependencies"]
StructT(members) == [t |-> "struct", members |-> members]
(* Printed as one string in JSON, its members in the given order. *)
TextT(members, printed) == [t |-> "text", members |-> members, printed |-> printed]

Usr == UIntT(8)
PairT(l, r) == StructT(<<<<"L", l>>, <<"R", r>>>>)

(* Pos and Range: line and column of the start, then of the end. *)
RangeT == TextT(<<<<"start_line", UIntT(2)>>, <<"start_column", IntT(2)>>,
                  <<"end_line", UIntT(2)>>, <<"end_column", IntT(2)>>>>,
                <<"start_line", "start_column", "end_line", "end_column">>)
SymbolRefT == TextT(<<<<"range", RangeT>>, <<"usr", Usr>>, <<"kind", ByteT>>, <<"role", UIntT(2)>>>>,
                    <<"range", "usr", "kind", "role">>)
UseT == TextT(<<<<"range", RangeT>>, <<"role", UIntT(2)>>, <<"file_id", IntT(4)>>>>,
              <<"range", "role", "file_id">>)
DeclRefT == TextT(UseT.members \o <<<<"extent", RangeT>>>>, <<"range", "extent", "role", "file_id">>)

IndexIncludeT == StructT(<<<<"line", IntT(4)>>, <<"resolved_path", StringT>>>>)

NameMembers ==
  <<<<"usr", Usr>>, <<"detailed_name", StringT>>, <<"qual_name_offset", IntT(2)>>,
    <<"short_name_offset", IntT(2)>>, <<"short_name_size", IntT(2)>>>>
HoverMembers == <<<<"hover", StringT>>, <<"comments", StringT>>>>
SpellMember == <<<<"spell", MaybeT(DeclRefT)>>>>
KindMembers == <<<<"kind", ByteT>>, <<"parent_kind", ByteT>>>>
StorageMember == <<<<"storage", ByteT>>>>
DeclarationsMember == <<<<"declarations", VectorT(DeclRefT)>>>>
UsesMember == <<<<"uses", VectorT(UseT)>>>>

IndexFuncT ==
  StructT(NameMembers \o SpellMember \o HoverMembers
          \o <<<<"bases", VectorT(Usr)>>, <<"vars", VectorT(Usr)>>, <<"callees", VectorT(SymbolRefT)>>>>
          \o KindMembers \o StorageMember
          \o DeclarationsMember \o <<<<"derived", VectorT(Usr)>>>> \o UsesMember)

IndexTypeT ==
  StructT(NameMembers \o HoverMembers \o SpellMember
          \o <<<<"bases", VectorT(Usr)>>, <<"funcs", VectorT(Usr)>>, <<"types", VectorT(Usr)>>,
               <<"vars", VectorT(PairT(Usr, IntT(8)))>>, <<"alias_of", Usr>>>>
          \o KindMembers
          \o DeclarationsMember
          \o <<<<"derived", VectorT(Usr)>>, <<"instances", VectorT(Usr)>>>> \o UsesMember)

IndexVarT ==
  StructT(NameMembers \o HoverMembers \o SpellMember \o <<<<"type", Usr>>>>
          \o KindMembers \o StorageMember \o DeclarationsMember \o UsesMember)

IndexFileT ==
  StructT(<<<<"mtime", IntT(8)>>, <<"language", IntT(4)>>, <<"no_linkage", BoolT>>,
            <<"lid2path", VectorT(PairT(IntT(4), StringT))>>, <<"import_file", StringT>>,
            <<"args", VectorT(StringT)>>, <<"dependencies", DependenciesT>>,
            <<"includes", VectorT(IndexIncludeT)>>, <<"skipped_ranges", VectorT(RangeT)>>,
            <<"usr2func", UsrMapT(IndexFuncT)>>, <<"usr2type", UsrMapT(IndexTypeT)>>,
            <<"usr2var", UsrMapT(IndexVarT)>>>>)

(* What a member is constructed with. *)
RECURSIVE DefaultOf(_)
DefaultOf(type) ==
  CASE type.t = "bool" -> FALSE
    [] type.t \in {"byte", "uint", "int"} -> 0
    [] type.t \in {"string", "maybe", "vector", "usrmap", "dependencies"} -> <<>>
    [] OTHER -> FoldLeft(LAMBDA v, m : v @@ (m[1] :> DefaultOf(m[2])), <<>>, type.members)

(* The cast of a number to a type of some bytes. *)
Cast(type, n) ==
  LET values == Radix ^ type.size
      u == n % values
  IN  IF type.t = "int" /\ 2 * u >= values THEN u - values ELSE u

MemberNames(type) == {type.members[i][1] : i \in DOMAIN type.members}
MemberType(type, name) == (CHOOSE m \in ToSet(type.members) : m[1] = name)[2]

(* An iteration over the keys; an unordered map has no order of its own.    *)
KeySeq(keys, up) ==
  FoldLeft(LAMBDA s, i :
             LET left == keys \ ToSet(s)
             IN  Append(s, CHOOSE k \in left : \A l \in left : IF up THEN k <= l ELSE k >= l),
           <<>>, [i \in 1 .. Cardinality(keys) |-> i])

(* Paths are compared by length and then by bytes, in the model only. *)
PathRank(s) == FoldLeft(LAMBDA n, c : n * Radix + c, 0, s)
PathSeq(paths, up) ==
  LET ranks == KeySeq({PathRank(s) : s \in paths}, up)
  IN  [i \in DOMAIN ranks |-> CHOOSE s \in paths : PathRank(s) = ranks[i]]

-----------------------------------------------------------------------------
(* BinaryWriter.                                                            *)

(* pack: the bytes of an integer, the lowest first. *)
Pack(n, size) == [i \in 1 .. size |-> (n \div Radix ^ (i - 1)) % Radix]

(* Mutant: the least number of four bytes is written in two. *)
WriteVarUIntTwo(n) ==
  CASE n < Radix - 3 -> <<n>>
    [] n >= Radix - 3 /\ n <= Radix ^ 2 -> <<Radix - 3>> \o Pack(n, 2)
    [] n > Radix ^ 2 /\ n < Radix ^ 4 -> <<Radix - 2>> \o Pack(n, 4)
    [] OTHER -> <<Radix - 1>> \o Pack(n, 8)

WriteVarUInt(n) ==
  CASE n < Radix - 3 -> <<n>>
    [] n >= Radix - 3 /\ n < Radix ^ 2 -> <<Radix - 3>> \o Pack(n, 2)
    [] n >= Radix ^ 2 /\ n < Radix ^ 4 -> <<Radix - 2>> \o Pack(n, 4)
    [] OTHER -> <<Radix - 1>> \o Pack(n, 8)

(* varInt: the sign becomes the lowest bit. *)
WriteVarInt(n) == WriteVarUInt(IF n >= 0 THEN 2 * n ELSE -2 * n - 1)

RECURSIVE Write(_, _, _)

WriteScalar(type, v) ==
  CASE type.t = "bool" -> <<IF v THEN 1 ELSE 0>>
    [] type.t = "byte" -> <<v>>
    [] type.t = "uint" -> WriteVarUInt(v)
    [] type.t = "int" -> WriteVarInt(v)
    [] OTHER -> v \o <<0>>

WriteMaybe(of, v, up) == IF v = <<>> THEN <<0>> ELSE <<1>> \o Write(of, v[1], up)

WriteVector(of, s, up) == FoldLeft(LAMBDA bytes, x : bytes \o Write(of, x, up), WriteVarUInt(Len(s)), s)

WriteUsrMap(of, v, up) ==
  LET keys == KeySeq(DOMAIN v, up) IN WriteVector(of, [i \in DOMAIN keys |-> v[keys[i]]], up)

WriteDependencies(v, up) ==
  LET keys == PathSeq(DOMAIN v, up)
  IN  WriteVector(PairT(StringT, IntT(8)), [i \in DOMAIN keys |-> [L |-> keys[i], R |-> v[keys[i]]]], up)

WriteMembers(type, v, up) ==
  FoldLeft(LAMBDA bytes, m : bytes \o Write(m[2], v[m[1]], up), <<>>, type.members)

Write(type, v, up) ==
  CASE type.t = "maybe" -> WriteMaybe(type.of, v, up)
    [] type.t = "vector" -> WriteVector(type.of, v, up)
    [] type.t = "usrmap" -> WriteUsrMap(type.of, v, up)
    [] type.t = "dependencies" -> WriteDependencies(v, up)
    [] type.t \in {"struct", "text"} -> WriteMembers(type, v, up)
    [] OTHER -> WriteScalar(type, v)

-----------------------------------------------------------------------------
(* BinaryReader.  A result is the value and the place after it.             *)

Unpack(s, p, size) ==
  [v |-> FoldLeft(LAMBDA n, i : n + s[p + i] * Radix ^ i, 0, [i \in 1 .. size |-> i - 1]), p |-> p + size]

ReadVarUInt(s, p) ==
  CASE s[p] < Radix - 3 -> [v |-> s[p], p |-> p + 1]
    [] s[p] = Radix - 3 -> Unpack(s, p + 1, 2)
    [] s[p] = Radix - 2 -> Unpack(s, p + 1, 4)
    [] OTHER -> Unpack(s, p + 1, 8)

ReadVarInt(s, p) ==
  LET x == ReadVarUInt(s, p)
  IN  [x EXCEPT !.v = IF @ % 2 = 0 THEN @ \div 2 ELSE -((@ + 1) \div 2)]

ReadString(s, p) ==
  LET end == CHOOSE q \in p .. Len(s) : s[q] = 0 /\ \A r \in p .. q - 1 : s[r] # 0
  IN  [v |-> SubSeq(s, p, end - 1), p |-> end + 1]

RECURSIVE Read(_, _, _)

ReadScalar(type, s, p) ==
  CASE type.t = "bool" -> [v |-> s[p] # 0, p |-> p + 1]
    [] type.t = "byte" -> [v |-> s[p], p |-> p + 1]
    [] type.t = "uint" -> [ReadVarUInt(s, p) EXCEPT !.v = Cast(type, @)]
    [] type.t = "int" -> [ReadVarInt(s, p) EXCEPT !.v = Cast(type, @)]
    [] OTHER -> ReadString(s, p)

ReadMaybe(of, s, p) ==
  IF s[p] = 0 THEN [v |-> <<>>, p |-> p + 1] ELSE [Read(of, s, p + 1) EXCEPT !.v = <<@>>]

ReadVector(of, s, p) ==
  LET n == ReadVarUInt(s, p)
  IN  FoldLeft(LAMBDA acc, i : LET r == Read(of, s, acc.p) IN [v |-> Append(acc.v, r.v), p |-> r.p],
               [v |-> <<>>, p |-> n.p], [i \in 1 .. n.v |-> i])

ReadUsrMap(of, s, p) ==
  [ReadVector(of, s, p) EXCEPT !.v = FoldLeft(LAMBDA f, x : (x.usr :> x) @@ f, <<>>, @)]

ReadDependencies(s, p) ==
  [ReadVector(PairT(StringT, IntT(8)), s, p) EXCEPT !.v = FoldLeft(LAMBDA f, x : (x.L :> x.R) @@ f, <<>>, @)]

ReadMembers(type, s, p) ==
  FoldLeft(LAMBDA acc, m : LET r == Read(m[2], s, acc.p) IN [v |-> acc.v @@ (m[1] :> r.v), p |-> r.p],
           [v |-> <<>>, p |-> p], type.members)

Read(type, s, p) ==
  CASE type.t = "maybe" -> ReadMaybe(type.of, s, p)
    [] type.t = "vector" -> ReadVector(type.of, s, p)
    [] type.t = "usrmap" -> ReadUsrMap(type.of, s, p)
    [] type.t = "dependencies" -> ReadDependencies(s, p)
    [] type.t \in {"struct", "text"} -> ReadMembers(type, s, p)
    [] OTHER -> ReadScalar(type, s, p)

-----------------------------------------------------------------------------
(* JsonWriter.  A tree: numbers, truth values, strings, arrays, objects.    *)

Num(n) == [j |-> "num", n |-> n]
Null == [j |-> "null"]

(* Positions are printed from 1: the members of a Pos, and only they. *)
IsCoordinate(name) == name \in {"start_line", "start_column", "end_line", "end_column"}

RECURSIVE Printed(_, _)
Printed(type, v) ==
  FoldLeft(LAMBDA out, name :
             out \o (IF MemberType(type, name).t = "text" THEN Printed(MemberType(type, name), v[name])
                     ELSE <<IF IsCoordinate(name) THEN v[name] + 1 ELSE v[name]>>),
           <<>>, type.printed)

RECURSIVE ToJson(_, _)

ScalarJson(type, v) ==
  CASE type.t = "bool" -> [j |-> "bool", b |-> v]
    [] type.t \in {"byte", "uint", "int"} -> Num(v)
    [] OTHER -> [j |-> "string", s |-> v]

MaybeJson(of, v) == IF v = <<>> THEN Null ELSE ToJson(of, v[1])

VectorJson(of, s) == [j |-> "array", e |-> [i \in DOMAIN s |-> ToJson(of, s[i])]]

(* In the order of the usrs. *)
UsrMapJson(of, v) ==
  LET keys == KeySeq(DOMAIN v, TRUE) IN VectorJson(of, [i \in DOMAIN keys |-> v[keys[i]]])

DependenciesJson(v) == [j |-> "object", m |-> [s \in DOMAIN v |-> Num(v[s])]]

(* A member that is an invalid Maybe is left out. *)
MembersJson(type, v) ==
  LET written == {n \in MemberNames(type) : ~(MemberType(type, n).t = "maybe" /\ v[n] = <<>>)}
  IN  [j |-> "object", m |-> [name \in written |-> ToJson(MemberType(type, name), v[name])]]

ToJson(type, v) ==
  CASE type.t = "text" -> [j |-> "string", s |-> Printed(type, v)]
    [] type.t = "maybe" -> MaybeJson(type.of, v)
    [] type.t = "vector" -> VectorJson(type.of, v)
    [] type.t = "usrmap" -> UsrMapJson(type.of, v)
    [] type.t = "dependencies" -> DependenciesJson(v)
    [] type.t = "struct" -> MembersJson(type, v)
    [] OTHER -> ScalarJson(type, v)

-----------------------------------------------------------------------------
(* JsonReader.                                                              *)

(* The kinds of value that do not make the reader throw.  A string that is  *)
(* not one, and the object of the dependencies, are asserted, not checked.  *)
RECURSIVE Fits(_, _)

FitsScalar(type, json) ==
  json.j = CASE type.t = "bool" -> "bool" [] type.t = "string" -> "string" [] OTHER -> "num"

FitsArray(of, json) == json.j = "array" /\ \A i \in DOMAIN json.e : Fits(of, json.e[i])

FitsMembers(type, json) ==
  /\ json.j = "object"
  /\ \A name \in MemberNames(type) \cap DOMAIN json.m : Fits(MemberType(type, name), json.m[name])

Fits(type, json) ==
  CASE type.t \in {"text", "dependencies"} -> TRUE
    [] type.t = "maybe" -> json.j = "null" \/ Fits(type.of, json)
    [] type.t \in {"vector", "usrmap"} -> FitsArray(type.of, json)
    [] type.t = "struct" -> FitsMembers(type, json)
    [] OTHER -> FitsScalar(type, json)

(* The numbers that a text type has in a string, as a value and the rest.   *)
(* fromString: strtoul and strtol, minus one, cut to sixteen bits.          *)
RECURSIVE Parsed(_, _)
Parsed(type, s) ==
  FoldLeft(LAMBDA acc, name :
             LET of == MemberType(type, name)
                 r == IF of.t = "text" THEN Parsed(of, acc.s)
                      ELSE [v |-> IF of.t = "byte" THEN Head(acc.s)
                                  ELSE Cast(of, IF IsCoordinate(name) THEN Cast(of, Head(acc.s)) - 1 ELSE Head(acc.s)),
                            s |-> Tail(acc.s)]
             IN  [v |-> acc.v @@ (name :> r.v), s |-> r.s],
           [v |-> <<>>, s |-> s], type.printed)

RECURSIVE FromJson(_, _)

JsonScalar(type, json) ==
  CASE type.t = "bool" -> json.b
    [] type.t = "byte" -> json.n % Radix
    [] type.t = "string" -> json.s
    [] OTHER -> Cast(type, json.n)

JsonMaybe(of, json) == IF json.j = "null" THEN <<>> ELSE <<FromJson(of, json)>>

JsonVector(of, json) == [i \in DOMAIN json.e |-> FromJson(of, json.e[i])]

JsonUsrMap(of, json) == FoldLeft(LAMBDA f, v : (v.usr :> v) @@ f, <<>>, JsonVector(of, json))

JsonDependencies(json) == [s \in DOMAIN json.m |-> json.m[s].n]

(* A member that is not in the object keeps what it was constructed with.   *)
JsonMembers(type, json) ==
  [name \in MemberNames(type) |->
     IF name \in DOMAIN json.m THEN FromJson(MemberType(type, name), json.m[name])
     ELSE DefaultOf(MemberType(type, name))]

FromJson(type, json) ==
  CASE type.t = "text" -> Parsed(type, json.s).v
    [] type.t = "maybe" -> JsonMaybe(type.of, json)
    [] type.t = "vector" -> JsonVector(type.of, json)
    [] type.t = "usrmap" -> JsonUsrMap(type.of, json)
    [] type.t = "dependencies" -> JsonDependencies(json)
    [] type.t = "struct" -> JsonMembers(type, json)
    [] OTHER -> JsonScalar(type, json)

-----------------------------------------------------------------------------
(* doPathMapping: the first occurrence, of each mapping in turn.            *)
Mapped(path) ==
  FoldLeft(LAMBDA s, m :
             LET at == IF Len(m) < 2 THEN {}
                       ELSE {i \in 0 .. Len(s) - Len(m[1]) : SubSeq(s, i + 1, i + Len(m[1])) = m[1]}
                 first == CHOOSE i \in at : \A j \in at : i <= j
             IN  IF at = {} THEN s
                 ELSE SubSeq(s, 1, first) \o m[2] \o SubSeq(s, first + Len(m[1]) + 1, Len(s)),
           path, PathMappings)

(* The end of deserialize: the paths of this machine. *)
Restored(file) ==
  LET deps == file.dependencies
  IN  [file EXCEPT
        !.import_file = Mapped(@),
        !.args = [i \in DOMAIN @ |-> Mapped(@[i])],
        !.lid2path = [i \in DOMAIN @ |-> [@[i] EXCEPT !.R = Mapped(@)]],
        !.includes = [i \in DOMAIN @ |-> [@[i] EXCEPT !.resolved_path = Mapped(@)]],
        !.dependencies = [s \in {Mapped(t) : t \in DOMAIN deps} |->
                            deps[CHOOSE t \in DOMAIN deps : Mapped(t) = s]]]

VersionBytes(v) == WriteVarInt(v[1]) \o WriteVarInt(v[2])

(* serialize. *)
Serialize(format, file, v, up) ==
  IF format = "binary"
  THEN [format |-> "binary", bytes |-> VersionBytes(v) \o Write(IndexFileT, file, up)]
  ELSE [format |-> "json", major |-> v[1], json |-> ToJson(IndexFileT, file)]

SameVersion(content, v) ==
  IF content.format = "json" THEN content.major = v[1]
  ELSE LET major == ReadVarInt(content.bytes, 1)
       IN  major.v = v[1] /\ ReadVarInt(content.bytes, major.p).v = v[2]

(* deserialize, of content that is whole or too short to be anything. *)
Deserialize(content, v) ==
  LET empty == IF content.format = "binary" THEN Len(content.bytes) < 8 ELSE content.json = Null
      start == ReadVarInt(content.bytes, ReadVarInt(content.bytes, 1).p).p
  IN  CASE empty -> <<>>
        [] ~empty /\ ~SameVersion(content, v) -> <<>>
        [] ~empty /\ SameVersion(content, v) /\ content.format = "binary" ->
             <<Restored(Read(IndexFileT, content.bytes, start).v)>>
        [] OTHER ->
             IF Fits(IndexFileT, content.json) THEN <<Restored(FromJson(IndexFileT, content.json))>> ELSE <<>>

-----------------------------------------------------------------------------
NoCache == [content |-> <<>>, file |-> <<>>, by |-> <<>>]
NotLoaded == [done |-> FALSE, file |-> <<>>]

SInit == /\ version \in Versions
         /\ cache = NoCache
         /\ loaded = NotLoaded

(* indexer_Parse stores an index. *)
Store(format, file, up) ==
  /\ cache' = [content |-> <<Serialize(format, file, version, up)>>, file |-> <<file>>, by |-> version]
  /\ loaded' = NotLoaded
  /\ UNCHANGED version

(* The file is written by a version of the same major number whose          *)
(* IndexFile has no such member, or has one of another type.                *)
StoreOther(file, name, change) ==
  LET json == ToJson(IndexFileT, file)
      left == [n \in DOMAIN json.m \ {name} |-> json.m[n]]
  IN  /\ cache' = [content |-> <<[format |-> "json", major |-> version[1],
                                  json |-> [json EXCEPT !.m = IF change = "absent" THEN left
                                                              ELSE (name :> Null) @@ left]]>>,
                   file |-> IF change = "absent"
                            THEN <<[file EXCEPT ![name] = DefaultOf(MemberType(IndexFileT, name))]>>
                            ELSE <<>>,
                   by |-> version]
      /\ loaded' = NotLoaded
      /\ UNCHANGED version

(* The program dies while it writes the file.  JSON that ends early does    *)
(* not parse; of the binary file only the first bytes are here, as the      *)
(* reader does not know where a longer one ends.                            *)
StoreTorn(format, file, n) ==
  LET whole == Serialize(format, file, version, TRUE)
  IN  /\ cache' = [content |-> <<IF format = "binary" THEN [whole EXCEPT !.bytes = SubSeq(@, 1, n)]
                                 ELSE [whole EXCEPT !.json = Null]>>,
                   file |-> <<>>, by |-> version]
      /\ loaded' = NotLoaded
      /\ UNCHANGED version

Upgrade(v) ==
  /\ v # version
  /\ version' = v
  /\ loaded' = NotLoaded
  /\ UNCHANGED cache

(* rawCacheLoad. *)
Load ==
  /\ cache.content # <<>>
  /\ loaded' = [done |-> TRUE, file |-> Deserialize(cache.content[1], version)]
  /\ UNCHANGED <<version, cache>>

-----------------------------------------------------------------------------
(* A cache file that this version wrote, or in JSON any with this major     *)
(* version, is read as the index that was stored, with the paths of this    *)
(* machine, whatever the order of the maps, the sizes of the numbers and    *)
(* the members another version lacks; any other file, or the beginning of   *)
(* one, is read as nothing (serialize, deserialize).                        *)
RoundTrip ==
  loaded.done =>
    LET content == cache.content[1]
        accepted == IF content.format = "json" THEN cache.by[1] = version[1] ELSE cache.by = version
    IN  /\ loaded.file = IF accepted /\ cache.file # <<>> THEN <<Restored(cache.file[1])>> ELSE <<>>
        /\ content.format = "binary" /\ cache.file # <<>> =>
             Read(IndexFileT, content.bytes, Len(VersionBytes(cache.by)) + 1).p = Len(content.bytes) + 1
=============================================================================
