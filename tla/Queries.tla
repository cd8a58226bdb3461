------------------------------ MODULE Queries ------------------------------
(***************************************************************************)
(* The read-only requests (src/src/query.cc, src/src/messages/): what the  *)
(* handlers answer from the query database and the open buffers.           *)
(*                                                                         *)
(* QueryDB and IndexUpdates say how a database follows a sequence of       *)
(* updates; here one parse of a unit (Indexer) is applied to an empty      *)
(* database and the requests are answered from it.  A symbol is            *)
(* <<kind, usr>>, a file a number, and the order of URIs the order of      *)
(* these numbers.                                                          *)
(***************************************************************************)
EXTENDS Indexer, WorkingFiles

CONSTANTS
  MaxNum       (* xref.maxNum                                               *)

VARIABLES
  db,          (* struct DB: the entities and the files' definitions        *)
  request,     (* the request handled last                                  *)
  reply        (* and the replies to it                                     *)

vars == <<unit, todo, param, wfiles, db, request, reply>>

NoDB == [ent |-> <<>>, refs |-> <<>>, files |-> <<>>]

-----------------------------------------------------------------------------
(* Applying the indexes of the parse, in any order: applyIndexUpdate with   *)
(* no previous index.  The IndexParam of the parse is gone by then.         *)

WithFile(o, f) == [o EXCEPT !.file = IF @ = 0 THEN f ELSE @]
WithFiles(s, f) == [i \in DOMAIN s |-> WithFile(s[i], f)]

(* DB::update(..., Def): only an entity that has a name has a Def. *)
DefsIn(f, x) ==
  IF x.name = <<>> THEN <<>>
  ELSE <<[file |-> f, name |-> x.name, skind |-> x.skind, pkind |-> x.pkind,
          static |-> x.static, comments |-> x.comments,
          spell |-> IF x.spell = NoRef THEN NoRef ELSE WithFile(x.spell, f),
          bases |-> x.bases, funcs |-> x.funcs, types |-> x.types, vars |-> x.vars,
          callees |-> x.callees, type |-> x.type, alias |-> x.alias]>>

(* updateUses: the uses of functions that are implicit are widened. *)
UsesIn(sym, f, x) ==
  [i \in DOMAIN x.uses |->
     LET use == WithFile(x.uses[i], f)
     IN  IF sym[1] = "Func" /\ "Implicit" \in use.role
           THEN [use EXCEPT !.range = Widened(@)] ELSE use]

(* file->symbol2refcnt: the occurrences in f with a positive count, which   *)
(* are the ones the entities list (IndexUpdates, RefcntExact).              *)
SpellsOf(x) == {d.spell : d \in ToSet(x.defs)} \ {NoRef}
RefsIn(ent, f) ==
  UNION {{[sym |-> s, range |-> o.range, extent |-> o.extent, role |-> o.role] :
            o \in {p \in ToSet(ent[s].uses) \cup ToSet(ent[s].decls) \cup SpellsOf(ent[s]) :
                     p.file = f}} : s \in DOMAIN ent}

DatabaseOf(result, order) ==
  LET of(sym) == SelectSeq(order, LAMBDA f : sym \in DOMAIN result[f].ent)
      x(sym, f) == result[f].ent[sym]
      Each(sym, Part(_)) == FlattenSeq([i \in DOMAIN of(sym) |-> Part(of(sym)[i])])
      ent == [sym \in UNION {DOMAIN result[f].ent : f \in DOMAIN result} |->
          [defs      |-> Each(sym, LAMBDA f : DefsIn(f, x(sym, f))),
           decls     |-> Each(sym, LAMBDA f : WithFiles(x(sym, f).decls, f)),
           uses      |-> Each(sym, LAMBDA f : UsesIn(sym, f, x(sym, f))),
           derived   |-> Each(sym, LAMBDA f : x(sym, f).derived),
           instances |-> Each(sym, LAMBDA f : x(sym, f).instances)]]
  IN  [ent |-> ent,
       refs |-> [f \in DOMAIN result |-> RefsIn(ent, f)],
       files |-> [f \in DOMAIN result |->
          [includes |-> result[f].includes, skipped |-> result[f].skipped,
           language |-> result[f].language, deps |-> result[f].deps]]]

(* The buffers that are open when the requests come. *)
OpenBuffers ==
  [f \in DOMAIN unit.buffers |->
     ComputeLineMapping(SetIndexContent(NewWorkingFile(unit.buffers[f]), unit.texts[f]))]

Apply ==
  /\ todo = <<>> /\ db = NoDB /\ DOMAIN IndexResult # {}
  /\ \E order \in SetToAllKPermutations(DOMAIN IndexResult) :
       /\ Len(order) = Cardinality(DOMAIN IndexResult)
       /\ db' = DatabaseOf(IndexResult, order)
  /\ wfiles' = OpenBuffers
  /\ param' = NoParam
  /\ UNCHANGED <<unit, todo, request, reply>>

-----------------------------------------------------------------------------
(* Entities.                                                                *)

Syms == DOMAIN db.ent
Known(sym) == sym \in Syms
Entity(sym) == db.ent[sym]

(* QueryEntity::anyDef: the first Def with a spelling, or else the last. *)
Spelled(sym) == SelectSeq(Entity(sym).defs, LAMBDA d : d.spell # NoRef)
HasDef(sym) == Known(sym) /\ Entity(sym).defs # <<>>
AnyDef(sym) == IF Spelled(sym) # <<>> THEN Spelled(sym)[1] ELSE Last(Entity(sym).defs)

(* DB::getSymbolName and NameMixin::name: qualified, or its last component. *)
SymbolName(sym, qualified) ==
  CASE HasDef(sym) /\ qualified -> AnyDef(sym).name
    [] HasDef(sym) /\ ~qualified -> Last(AnyDef(sym).name)
    [] OTHER -> <<>>

(* getSymbolKind. *)
SymbolKind(sym) == IF HasDef(sym) THEN Entity(sym).defs[1].skind ELSE "Unknown"

(* DB::getFileSet: a folder is the set of the files in it. *)
FileSet(folders) == IF folders = {} THEN DOMAIN db.files ELSE UNION folders

(* VarDef::is_local. *)
IsLocal(d) ==
  /\ d.spell # NoRef /\ ~d.static
  /\ d.pkind \in {"Function", "Method", "StaticMethod", "Constructor"}

(* getDefinitionSpell, eachOccurrence, getNonDefDeclarations. *)
DefinitionSpell(sym) == IF Spelled(sym) # <<>> THEN Spelled(sym)[1].spell ELSE NoRef
SpellRefs(sym) == {Spelled(sym)[k].spell : k \in DOMAIN Spelled(sym)}
DeclRefs(sym) == ToSet(Entity(sym).decls)
Occurrences(sym, withDecls) ==
  ToSet(Entity(sym).uses) \cup (IF withDecls THEN SpellRefs(sym) \cup DeclRefs(sym) ELSE {})

(* getDeclarations: one place for each entity. *)
DeclarationOf(sym) ==
  CASE Spelled(sym) # <<>> -> {DefinitionSpell(sym)}
    [] Spelled(sym) = <<>> /\ Entity(sym).decls # <<>> -> {Entity(sym).decls[1]}
    [] OTHER -> {}
Declarations(kind, usrs) == UNION {DeclarationOf(<<kind, u>>) : u \in usrs}

(* getVarDeclarations: of the kinds asked for. *)
VarDeclarations(usrs, kinds) ==
  UNION {IF Spelled(<<"Var", u>>) # <<>>
            /\ Spelled(<<"Var", u>>)[1].skind \in {"Field", "Variable", "Parameter"} \ kinds
           THEN {} ELSE DeclarationOf(<<"Var", u>>) : u \in usrs}

(* getUsesForAllBases, getUsesForAllDerived: along the functions that have  *)
(* a definition, the first one's own uses excepted.                         *)
BasesOf(sym) ==
  IF HasDef(sym) THEN {<<sym[1], u>> : u \in ToSet(AnyDef(sym).bases)} ELSE {}
DerivedOf(sym) == {<<sym[1], u>> : u \in ToSet(Entity(sym).derived)}
Defined(syms) == {s \in syms : HasDef(s)}

RECURSIVE AllBases(_, _)
AllBases(seen, new) ==
  LET next == Defined(UNION {BasesOf(s) : s \in new}) \ seen
  IN  IF next = {} THEN seen ELSE AllBases(seen \cup next, next)

RECURSIVE AllDerived(_, _)
AllDerived(seen, new) ==
  LET next == Defined(UNION {DerivedOf(s) : s \in new}) \ seen
  IN  IF next = {} THEN seen ELSE AllDerived(seen \cup next, next)

UsesForAllBases(sym) == UNION {ToSet(Entity(s).uses) : s \in AllBases({sym}, {sym}) \ {sym}}
UsesForAllDerived(sym) == UNION {ToSet(Entity(s).uses) : s \in AllDerived({sym}, {sym}) \ {sym}}

Symbol2refcnt(f) == IF f \in DOMAIN db.refs THEN db.refs[f] ELSE {}

WithExtent(f) == {s \in Symbol2refcnt(f) : Valid(s.extent)}

-----------------------------------------------------------------------------
(* Positions in the client's buffers.                                       *)

IsMapped(f) == f \in DOMAIN wfiles /\ wfiles[f].index_lines # <<>>

(* getLsRange: none when one end does not map; an end that maps to before   *)
(* the start is put as many lines below it as it was.                       *)
RangeBetween(s, e, r) ==
  LET endLine == IF e[1] < s[1] THEN s[1] + Line(r.end) - Line(r.start) ELSE e[1]
      endColumn == IF endLine = s[1] /\ s[2] > e[2] THEN s[2] ELSE e[2]
  IN  IF s = <<>> \/ e = <<>> THEN NoRange
      ELSE [start |-> At(s[1], s[2]), end |-> At(endLine, endColumn)]

LsRange(f, r) ==
  IF ~IsMapped(f) THEN r
  ELSE RangeBetween(GetBufferPosFromIndexPos(wfiles[f], Line(r.start), Column(r.start), FALSE),
                    GetBufferPosFromIndexPos(wfiles[f], Line(r.end), Column(r.end), TRUE), r)

(* getLsLocation. *)
LsLocations(refs) ==
  {l \in {[file |-> o.file, range |-> LsRange(o.file, o.range)] : o \in refs} : Valid(l.range)}

(* getLocationLink: both the range and the extent must map; the target is   *)
(* the extent if the range lies in it.                                      *)
LinkTo(f, sel, ext) ==
  [file |-> f, sel |-> IF Valid(ext) THEN sel ELSE NoRange,
   target |-> IF Includes(ext, sel) THEN ext ELSE sel]
LocationLinks(refs) ==
  {l \in {LinkTo(o.file, LsRange(o.file, o.range), LsRange(o.file, o.extent)) : o \in refs} :
     Valid(l.sel)}

(* ReplyOnce::replyLocationLink: sort, remove what is double, truncate.     *)
(* Links that select the same range are equal, whatever their targets:      *)
(* which of them is kept is up to the sort.                                 *)
LinkKey(l) == <<l.file, l.sel.start, l.sel.end>>
LexLess(a, b) ==
  \E i \in DOMAIN a : a[i] < b[i] /\ \A j \in 1 .. i - 1 : a[j] = b[j]
LinkLess(l, m) == LexLess(LinkKey(l), LinkKey(m))

Truncate(s) == IF Len(s) > MaxNum THEN SubSeq(s, 1, MaxNum) ELSE s

ReplyLocationLink(links) ==
  LET kept == {CHOOSE l \in links : LinkKey(l) = k : k \in {LinkKey(l) : l \in links}}
  IN  Truncate(Sorted(kept, LinkLess))

(* The index position of a position in the buffer; findSymbolsAtLocation    *)
(* puts it into the request's parameters.                                   *)
Nowhere == -1
PosAt(found) == IF found = <<>> THEN Nowhere ELSE At(found[1], found[2])
IndexPos(f, pos) ==
  IF ~IsMapped(f) THEN pos
  ELSE PosAt(GetIndexPosFromBufferPos(wfiles[f], Line(pos), Column(pos), FALSE))

(* computeRangeSize. *)
RangeSize(r) ==
  IF Line(r.start) # Line(r.end) THEN Columns * Columns ELSE r.end - r.start

KindRank(kind) == CASE kind = "Type" -> 2 [] kind = "Func" -> 3 [] OTHER -> 4
Lacks(s, role) == IF role \in s.role THEN 0 ELSE 1

(* The order in which symbols at a position are tried: shorter ranges,      *)
(* macro expansions, definitions, Var before Func before Type; the keys     *)
(* after the usr only settle what the code leaves open.                     *)
Precedence(s) ==
  <<RangeSize(s.range), Lacks(s, "Dynamic"), Lacks(s, "Definition"), -KindRank(s.sym[1]),
    s.sym[2], s.range.start, s.extent.start, s.extent.end>>
Precedes(s, t) == LexLess(Precedence(s), Precedence(t))

(* smallest: those before the first with another range or kind. *)
SameSymbols(s) ==
  LET differ == {k \in DOMAIN s : s[k].range # s[1].range \/ s[k].sym[1] # s[1].sym[1]}
  IN  IF differ = {} THEN s ELSE SubSeq(s, 1, (CHOOSE k \in differ : \A j \in differ : k <= j) - 1)

SymbolsContaining(f, ipos) ==
  IF ipos = Nowhere THEN <<>>
  ELSE Sorted({s \in Symbol2refcnt(f) : RangeContains(s.range, ipos)}, Precedes)

FindSymbolsAtLocation(f, pos, smallest) ==
  LET sorted == SymbolsContaining(f, IndexPos(f, pos))
  IN  IF smallest THEN SameSymbols(sorted) ELSE sorted

SymbolsAt(f, pos) == {s.sym : s \in ToSet(FindSymbolsAtLocation(f, pos, FALSE))}

(* The first of them, as a set with at most one element. *)
FirstAt(f, pos) ==
  {s[1] : s \in {FindSymbolsAtLocation(f, pos, FALSE)} \ {<<>>}}

(* An occurrence the cursor is on. *)
UnderCursor(o, f, ipos) == o.file = f /\ RangeContains(o.range, ipos)

-----------------------------------------------------------------------------
(* Handling a request. *)

NoRequest == [method |-> "none"]
NotOpened == [error |-> "not opened", result |-> {}]
NotIndexed == [error |-> "not indexed", result |-> {}]
Success(result) == [error |-> "", result |-> result]

(* findOrFail: what it replies when it fails.  A request on a file that is  *)
(* not indexed is parked and fails in the end (MainLoop).                   *)
FindOrFail(f, allowUnopened) ==
  CASE f \notin DOMAIN wfiles /\ ~allowUnopened -> <<NotOpened>>
    [] (f \in DOMAIN wfiles \/ allowUnopened) /\ f \notin DOMAIN db.files -> <<NotIndexed>>
    [] OTHER -> <<>>

(* One request after the indexes are in; handlers change nothing else. *)
Idle == db # NoDB /\ request = NoRequest
Serve(req, replies) ==
  /\ request' = req /\ reply' = replies
  /\ UNCHANGED <<unit, todo, param, wfiles, db>>

(* A handler that needs an open and indexed file; results is what it may    *)
(* reply then.                                                              *)
Handle(req, allowUnopened, results) ==
  LET fail == FindOrFail(req.file, allowUnopened)
  IN  IF fail # <<>> THEN Serve(req, fail)
      ELSE \E result \in results : Serve(req, <<Success(result)>>)

(* The positions a client may send for a file: in the buffer or past it. *)
Cursors(f) ==
  IF f \in DOMAIN wfiles
    THEN {At(l, c) : l \in 0 .. Len(wfiles[f].buffer_lines), c \in unit.columns} ELSE {0}

(* A request that was answered, and the answer. *)
Succeeded(method) == request.method = method /\ reply # <<>> /\ reply[1].error = ""
Result == reply[1].result

(* The buffers of the files that are open hold the text that was indexed. *)
Unchanged(f) == f \in DOMAIN wfiles => wfiles[f].buffer_lines = wfiles[f].index_lines
AllUnchanged == \A f \in unit.files : Unchanged(f)
=============================================================================
