------------------------------ MODULE Outline ------------------------------
(***************************************************************************)
(* The requests about a whole file: documentSymbol, documentLink,          *)
(* foldingRange, codeLens and the command behind a lens, navigate,         *)
(* switchSourceHeader, info and semantic tokens (src/src/messages/,        *)
(* src/src/message_handler.cc).                                            *)
(***************************************************************************)
EXTENDS Queries

-----------------------------------------------------------------------------
(* textDocument/documentSymbol. *)
AllRoles == {"Declaration", "Definition", "Reference", "Read", "Write", "Call", "Dynamic",
             "Address", "Implicit"}
DefaultExcludeRole == AllRoles \ {"Definition", "Declaration", "Dynamic"}

Allows(s, excludeRole) == s.role \cap excludeRole = {}

(* ignore(def). *)
Ignored(sym) ==
  \/ sym[1] = "Type" /\ (~HasDef(sym) \/ AnyDef(sym).skind = "TypeParameter")
  \/ sym[1] = "Var" /\ (~HasDef(sym) \/ IsLocal(AnyDef(sym)))

(* The ranges alone, of the lines asked for. *)
SymbolRanges(f, excludeRole, startLine, endLine) ==
  {r \in {LsRange(f, s.range) :
            s \in {t \in Symbol2refcnt(f) : /\ Allows(t, excludeRole)
                                            /\ startLine <= Line(t.range.start)
                                            /\ Line(t.range.start) <= endLine}} : Valid(r)}

(* The tree: nodes in order, each with the number of its parent.  A symbol  *)
(* that is not in the buffer any more is at its start.                      *)
OutlineNode(sym, sel, ext) ==
  LET zero == [start |-> 0, end |-> 0]
  IN  [sym |-> sym, parent |-> 0, sel |-> IF Valid(sel) THEN sel ELSE zero,
       range |-> CASE ~Valid(sel) -> zero
                   [] Valid(sel) /\ Valid(ext) /\ Includes(ext, sel) -> ext
                   [] OTHER -> sel]

(* Mutant: a scope that ends where the next symbol starts stays open. *)
OpenScopesUntil(nodes, scopes, start) ==
  LET ended == {k \in DOMAIN scopes : \A j \in k .. Len(scopes) : nodes[scopes[j]].range.end < start}
  IN  SubSeq(scopes, 1, Len(scopes) - Cardinality(ended))

(* Drop the scopes which are before the selection range. *)
OpenScopes(nodes, scopes, start) ==
  LET ended == {k \in DOMAIN scopes : \A j \in k .. Len(scopes) : nodes[scopes[j]].range.end <= start}
  IN  SubSeq(scopes, 1, Len(scopes) - Cardinality(ended))

AddNode(acc, node) ==
  LET scopes == OpenScopes(acc.nodes, acc.scopes, node.sel.start)
      parent == IF scopes = <<>> THEN 0 ELSE Last(scopes)
  IN  [nodes |-> Append(acc.nodes, [node EXCEPT !.parent = parent]),
       scopes |-> Append(scopes, Len(acc.nodes) + 1)]

(* Sorted by the start of the name, the widest first. *)
OutlineKey(s) == <<s.range.start, -s.extent.end, KindRank(s.sym[1]), s.sym[2], s.range.end, s.extent.start>>
OutlineBefore(s, t) == LexLess(OutlineKey(s), OutlineKey(t))

Listed(s, excludeRole) ==
  /\ HasDef(s.sym) /\ ~Ignored(s.sym)
  /\ AnyDef(s.sym).skind = "Namespace" \/ Allows(s, excludeRole)

SymbolTree(f, excludeRole) ==
  LET listed == {s \in WithExtent(f) : Listed(s, excludeRole)}
      add(acc, s) == AddNode(acc, OutlineNode(s.sym, LsRange(f, s.range), LsRange(f, s.extent)))
  IN  FoldLeft(add, [nodes |-> <<>>, scopes |-> <<>>], Sorted(listed, OutlineBefore)).nodes

(* Without hierarchicalDocumentSymbolSupport: getSymbolInfo and a location. *)
SymbolInfos(f, excludeRole) ==
  {i \in {[sym |-> s.sym, name |-> SymbolName(s.sym, TRUE), kind |-> SymbolKind(s.sym),
           range |-> LsRange(f, s.range)] :
            s \in {t \in Symbol2refcnt(f) : Allows(t, excludeRole) /\ ~Ignored(t.sym)}} : Valid(i.range)}

DocumentSymbol ==
  \E f \in unit.files, form \in {"tree", "flat", "ranges"},
     excludeRole \in {DefaultExcludeRole, {"Declaration"}} :
    Handle([method |-> "documentSymbol", file |-> f, form |-> form, excludeRole |-> excludeRole], TRUE,
           {CASE form = "tree" -> SymbolTree(f, excludeRole)
              [] form = "flat" -> SymbolInfos(f, excludeRole)
              [] OTHER -> SymbolRanges(f, excludeRole, 1, 4)})

-----------------------------------------------------------------------------
(* textDocument/documentLink: from the first to the last quote of the line  *)
(* in the buffer ("." stands for a quote as well).                          *)
DocumentLinks(f) ==
  LET at(i) == GetBufferPosFromIndexPos(wfiles[f], i.line, 0, FALSE)
      quotes(i) == {c \in DOMAIN wfiles[f].buffer_lines[at(i)[1] + 1] :
                      wfiles[f].buffer_lines[at(i)[1] + 1][c] = "."}
      first(i) == CHOOSE c \in quotes(i) : \A d \in quotes(i) : c <= d
      last(i) == CHOOSE c \in quotes(i) : \A d \in quotes(i) : d <= c
  IN  {[range |-> [start |-> At(at(i)[1], first(i)), end |-> At(at(i)[1], last(i) - 1)], target |-> i.path] :
         i \in {j \in ToSet(db.files[f].includes) : at(j) # <<>> /\ Cardinality(quotes(j)) > 1}}

DocumentLink ==
  \E f \in unit.files :
    Handle([method |-> "documentLink", file |-> f], FALSE, {DocumentLinks(f)})

Folds(f) ==
  {r \in {LsRange(f, s.extent) : s \in {t \in WithExtent(f) : t.sym[1] \in {"Func", "Type"}}} : Valid(r)}

FoldingRange ==
  \E f \in unit.files : Handle([method |-> "foldingRange", file |-> f], FALSE, {Folds(f)})

(* emitSkippedRanges, which follows an update of an open file. *)
SkippedRanges(f) ==
  {r \in {LsRange(f, x) : x \in ToSet(db.files[f].skipped)} : Valid(r)}

PublishSkippedRanges ==
  \E f \in DOMAIN wfiles \cap DOMAIN db.files :
    Serve([method |-> "publishSkippedRanges", file |-> f], <<Success(SkippedRanges(f))>>)

-----------------------------------------------------------------------------
(* textDocument/codeLens: counts at the names that have an extent; of the   *)
(* symbols that share a range, one is shown.                                *)
Lens(sym, field, num, always) == IF num > 0 \/ always THEN {<<sym, field, num>>} ELSE {}

LensesOf(sym) ==
  LET x == Entity(sym)
      uses(syms) == FoldSet(LAMBDA s, n : n + Len(Entity(s).uses), 0, syms \ {sym})
      ofBases == uses(AllBases({sym}, {sym}))
      ofDerived == uses(AllDerived({sym}, {sym}))
  IN  CASE sym[1] = "Func" /\ HasDef(sym) ->
             UNION {Lens(sym, "uses", Len(x.uses), ofBases = 0),
                    Lens(sym, "bases uses", ofBases, FALSE),
                    Lens(sym, "derived uses", ofDerived, FALSE),
                    IF ofBases = 0 THEN Lens(sym, "bases", Len(AnyDef(sym).bases), FALSE) ELSE {},
                    Lens(sym, "derived", Len(x.derived), FALSE)}
        [] sym[1] = "Type" ->
             UNION {Lens(sym, "uses", Len(x.uses), TRUE), Lens(sym, "derived", Len(x.derived), FALSE),
                    Lens(sym, "instances", Len(x.instances), FALSE)}
        [] sym[1] = "Var" /\ HasDef(sym) /\ ~IsLocal(AnyDef(sym)) ->
             Lens(sym, "uses", Len(x.uses), AnyDef(sym).skind # "Macro")
        [] OTHER -> {}

CodeLenses(f) ==
  LET ranges == {s.range : s \in WithExtent(f)}
      at(r) == {s.sym : s \in {t \in WithExtent(f) : t.range = r}}
      shared == {r \in ranges : Cardinality(at(r)) > 1}
      choices == {c \in [shared -> UNION {at(r) : r \in shared}] : \A r \in shared : c[r] \in at(r)}
      shown(c, r) == IF r \in shared THEN c[r] ELSE CHOOSE sym \in at(r) : TRUE
      lenses(sym, r) == IF Valid(LsRange(f, r)) THEN {<<LsRange(f, r), l>> : l \in LensesOf(sym)} ELSE {}
  IN  {UNION {lenses(shown(c, r), r) : r \in ranges} : c \in choices}

CodeLens ==
  \E f \in unit.files : Handle([method |-> "codeLens", file |-> f], FALSE, CodeLenses(f))

(* workspace/executeCommand: what a lens shows.  A call without arguments,  *)
(* or of another command, is not answered at all.                           *)
XrefLocations(sym, field) ==
  LET x == Entity(sym)
  IN  CASE field = "uses" -> LsLocations(ToSet(x.uses))
        [] field = "bases" /\ HasDef(sym) -> LsLocations(Declarations("Func", ToSet(AnyDef(sym).bases)))
        [] field = "bases uses" -> LsLocations(UsesForAllBases(sym))
        [] field = "derived" -> LsLocations(Declarations(sym[1], ToSet(x.derived)))
        [] field = "derived uses" -> LsLocations(UsesForAllDerived(sym))
        [] field = "instances" ->
             LsLocations(VarDeclarations(ToSet(x.instances), {"Field", "Variable", "Parameter"}))
        [] OTHER -> {}

FieldsOf(kind) ==
  CASE kind = "Func" -> {"uses", "bases", "bases uses", "derived", "derived uses"}
    [] kind = "Type" -> {"uses", "derived", "instances"}
    [] OTHER -> {"uses"}

ExecuteCommand ==
  \/ Serve([method |-> "executeCommand", arguments |-> <<>>], <<>>)
  \/ \E sym \in Syms : \E field \in FieldsOf(sym[1]) :
       Serve([method |-> "executeCommand", arguments |-> <<sym, field>>],
             <<Success(XrefLocations(sym, field))>>)

-----------------------------------------------------------------------------
(* $ccls/navigate. *)
FindParent(f, pos) ==
  LET around == {s.extent : s \in {t \in WithExtent(f) : t.extent.start <= pos /\ pos < t.extent.end}}
  IN  {p \in around : \A q \in around :
         q.start < p.start \/ (q.start = p.start /\ q.end <= p.end)}

NavigateTo(f, pos, direction) ==
  LET extents == {s.extent : s \in WithExtent(f)}
      parent == FindParent(f, pos)
      skip == {p \in parent : Line(p.start) = Line(pos) /\ pos < p.end}
      from == IF skip = {} THEN pos
              ELSE LET e == (CHOOSE p \in skip : TRUE).end IN IF Column(e) > 0 THEN e - 1 ELSE e
      below == {r \in extents : pos < r.start /\ \A p \in parent : r.end <= p.end}
      left == {r \in extents : r.end <= pos}
      right == {r \in extents : from < r.start}
      up == {r \in extents : r.start < pos /\ pos < r.end}
  IN  CASE direction = "D" -> {r \in below : \A q \in below : r.start <= q.start}
        [] direction = "L" -> {r \in left : \A q \in left :
                                 q.end < r.end \/ (q.end = r.end /\ r.start <= q.start)}
        [] direction = "R" -> {r \in right : \A q \in right :
                                 r.start < q.start \/ (r.start = q.start /\ q.end <= r.end)}
        [] OTHER -> {r \in up : \A q \in up : q.start <= r.start}

(* Of the extents that tie, any; a position that is not in the index stays  *)
(* as it is.                                                                *)
Navigate ==
  \E f \in unit.files : \E pos \in Cursors(f), direction \in {"D", "L", "R", "U"} :
    LET ipos == IF f \notin DOMAIN wfiles \/ IndexPos(f, pos) = Nowhere THEN pos ELSE IndexPos(f, pos)
        to == NavigateTo(f, ipos, direction)
        shown(r) == IF Valid(LsRange(f, r)) THEN <<LsRange(f, r)>> ELSE <<>>
    IN  Handle([method |-> "navigate", file |-> f, pos |-> pos, direction |-> direction], FALSE,
               IF to = {} THEN {<<>>} ELSE {shown(r) : r \in to})

-----------------------------------------------------------------------------
(* textDocument/switchSourceHeader: the file with the most definitions of   *)
(* what a header declares, or declarations of what a source file defines.   *)
Votes(f, g) ==
  LET syms == {s \in WithExtent(f) : s.sym[1] # "Type"}
      defs(s) == SelectSeq(Entity(s.sym).defs, LAMBDA d : d.spell # NoRef /\ d.file = g)
      decls(s) == SelectSeq(Entity(s.sym).decls, LAMBDA o : o.file = g)
  IN  FoldSet(LAMBDA s, n : n + (IF f \in unit.headers THEN Len(defs(s)) ELSE Len(decls(s))), 0, syms)

MostVotes(f) ==
  LET voted == {g \in DOMAIN db.files \ {f} : Votes(f, g) > 0}
  IN  {g \in voted : \A h \in voted : Votes(f, h) < Votes(f, g) \/ (Votes(f, h) = Votes(f, g) /\ g <= h)}

(* Without votes: a source file that includes the header; an included file  *)
(* with the same stem.  Which of several is the first in the database is    *)
(* left open; 0 is null.                                                    *)
Counterparts(f) ==
  LET includes(g, h) == \E i \in ToSet(db.files[g].includes) : i.path = h
      sources == {g \in DOMAIN db.files \ unit.headers : includes(g, f)}
      sameStem == SelectSeq(db.files[f].includes, LAMBDA i : unit.stem[i.path] = unit.stem[f])
  IN  CASE MostVotes(f) # {} -> MostVotes(f)
        [] MostVotes(f) = {} /\ f \in unit.headers /\ sources # {} -> sources
        [] MostVotes(f) = {} /\ f \notin unit.headers /\ sameStem # <<>> -> {sameStem[1].path}
        [] OTHER -> {0}

(* After findOrFail has replied with an error, null is replied as well. *)
SwitchSourceHeader ==
  \E f \in unit.files :
    LET req == [method |-> "switchSourceHeader", file |-> f]
        fail == FindOrFail(f, FALSE)
    IN  IF fail # <<>> THEN Serve(req, Append(fail, Success(0)))
        ELSE \E g \in Counterparts(f) : Serve(req, <<Success(g)>>)

-----------------------------------------------------------------------------
(* $ccls/info, $ccls/fileInfo.  A file that is not known is not answered.   *)
Count(kind) == Cardinality({s \in Syms : s[1] = kind})

Info ==
  Serve([method |-> "info"],
        <<Success([files |-> Cardinality(DOMAIN db.files), funcs |-> Count("Func"),
                   types |-> Count("Type"), vars |-> Count("Var")])>>)

FileInfo ==
  \E f \in unit.files, dependencies \in BOOLEAN :
    Serve([method |-> "fileInfo", file |-> f, dependencies |-> dependencies],
          IF f \notin DOMAIN db.files THEN <<>>
          ELSE <<Success([language |-> db.files[f].language,
                          deps |-> IF dependencies THEN db.files[f].deps ELSE {}])>>)

-----------------------------------------------------------------------------
(* computeSemanticTokens.  Of functions, only occurrences where the name is *)
(* written in the indexed text.                                             *)
SymbolKindOrder ==
  <<"Unknown", "File", "Namespace", "Class", "Method", "Field", "Constructor", "Enum", "Interface",
    "Function", "Variable", "EnumMember", "Struct", "TypeParameter", "TypeAlias", "Parameter",
    "StaticMethod", "Macro">>
KindOrder(kind) == CHOOSE k \in DOMAIN SymbolKindOrder : SymbolKindOrder[k] = kind

NameIsThere(f, s) ==
  LET lines == wfiles[f].index_lines
      name == SymbolName(s.sym, FALSE)
      line == Line(s.range.start) + 1
      from == Column(s.range.start)
  IN  /\ line <= Len(lines) /\ from + Len(name) <= Len(lines[line])
      /\ SubSeq(lines[line], from + 1, from + Len(name)) = name

Highlighted(f) ==
  {s \in Symbol2refcnt(f) : s.sym[1] = "Func" => HasDef(s.sym) /\ NameIsThere(f, s)}

(* The kind of the first definition with a spelling, or of the last. *)
HighlightOf(f, s) ==
  [sym |-> s.sym, role |-> s.role, kind |-> IF HasDef(s.sym) THEN AnyDef(s.sym).skind ELSE "Unknown",
   range |-> LsRange(f, IF s.sym[1] # "Func" THEN s.range
                        ELSE [s.range EXCEPT !.end = s.range.start + Len(SymbolName(s.sym, FALSE))])]

Occurs(f) == {o \in {HighlightOf(f, s) : s \in Highlighted(f)} : Valid(o.range)}

(* ScanLineEvent: an insertion and a deletion for each range. *)
ScanKey(e) ==
  <<e.pos, -e.end, KindOrder(e.occ.kind), e.occ.sym[2], KindRank(e.occ.sym[1]), e.occ.range.start,
    IF e.insert THEN 1 ELSE 0, Cardinality(e.occ.role), Lacks(e.occ, "Definition"), Lacks(e.occ, "Dynamic")>>
ScanBefore(d, e) == LexLess(ScanKey(d), ScanKey(e))
ScanLineEvents(occurs) ==
  Sorted({[pos |-> o.range.start, end |-> o.range.end, insert |-> TRUE, occ |-> o] : o \in occurs}
           \cup {[pos |-> o.range.end, end |-> o.range.end, insert |-> FALSE, occ |-> o] : o \in occurs},
         ScanBefore)

(* Mutant: a range leaves the stack only when it is on top. *)
ScanStepTop(acc, e) ==
  LET top == Len(acc.stack)
      segment == [sym |-> acc.stack[top].sym, range |-> [start |-> acc.pos, end |-> e.pos],
                  role |-> e.occ.role]
  IN  [stack |-> IF e.insert THEN Append(acc.stack, e.occ)
                 ELSE IF top > 0 /\ acc.stack[top] = e.occ THEN Front(acc.stack) ELSE acc.stack,
       deleted |-> {}, pos |-> e.pos,
       out |-> IF top > 0 /\ acc.pos # e.pos THEN Append(acc.out, segment) ELSE acc.out]

(* One event: the ranges that were deleted leave the top of the stack; the  *)
(* text since the last event belongs to the range on top.                   *)
ScanStep(acc, e) ==
  LET live == {k \in DOMAIN acc.stack : acc.stack[k] \notin acc.deleted}
      top == IF live = {} THEN 0 ELSE CHOOSE k \in live : \A j \in live : j <= k
      stack == SubSeq(acc.stack, 1, top)
      segment == [sym |-> stack[top].sym, range |-> [start |-> acc.pos, end |-> e.pos], role |-> e.occ.role]
  IN  [stack |-> IF e.insert THEN Append(stack, e.occ) ELSE stack,
       deleted |-> IF e.insert THEN acc.deleted ELSE acc.deleted \cup {e.occ},
       pos |-> e.pos,
       out |-> IF top > 0 /\ acc.pos # e.pos THEN Append(acc.out, segment) ELSE acc.out]

SemanticTokens(f) ==
  FoldLeft(ScanStep, [stack |-> <<>>, deleted |-> {}, pos |-> 0, out |-> <<>>],
           ScanLineEvents(Occurs(f))).out

(* textDocument/semanticTokens: positions relative to the token before. The *)
(* range that semanticTokens/range asks for is not looked at.               *)
ParentKindOf(sym) ==
  IF Spelled(sym) # <<>> THEN Spelled(sym)[1].pkind
  ELSE IF sym[1] = "Func" /\ HasDef(sym) THEN AnyDef(sym).pkind ELSE "Unknown"

Functions == {"Constructor", "Function", "Method", "StaticMethod"}
Scope(kind, parentKind) ==
  CASE kind \in {"Constructor", "Field", "Method", "StaticMethod"} -> {"ClassScope"}
    [] kind \notin {"Constructor", "Field", "Method", "StaticMethod"}
         /\ parentKind \in {"File", "Namespace"} -> {"NamespaceScope"}
    [] kind \notin {"Constructor", "Field", "Method", "StaticMethod"}
         /\ parentKind \in Functions -> {"FunctionScope"}
    [] OTHER -> {}

Modifiers(sym, kind, role) ==
  (role \cap {"Declaration", "Definition", "Read", "Write"})
    \cup (IF kind = "StaticMethod" \/ (HasDef(sym) /\ AnyDef(sym).static) THEN {"Static"} ELSE {})
    \cup Scope(kind, ParentKindOf(sym))

EncodeToken(acc, t) ==
  LET kind == IF HasDef(t.sym) THEN AnyDef(t.sym).skind ELSE "Unknown"
      column == IF Line(t.range.start) = acc.line THEN acc.column ELSE 0
  IN  [line |-> Line(t.range.start), column |-> Column(t.range.start),
       data |-> Append(acc.data,
         [deltaLine |-> Line(t.range.start) - acc.line,
          deltaStart |-> Column(t.range.start) - column,
          length |-> Column(t.range.end) - Column(t.range.start),
          type |-> IF kind = "StaticMethod" THEN "Method" ELSE kind,
          modifiers |-> Modifiers(t.sym, kind, t.role)])]

EncodedTokens(f) ==
  FoldLeft(EncodeToken, [line |-> 0, column |-> 0, data |-> <<>>], SemanticTokens(f)).data

SemanticTokensFull ==
  \E f \in unit.files :
    Handle([method |-> "semanticTokens", file |-> f], FALSE, {EncodedTokens(f)})

(* emitSemanticHighlight: as numbers of characters from the start of the    *)
(* buffer; a range with an end that the buffer does not have is left out.   *)
HasPosition(content, pos) ==
  LET start == LineStart(content, Line(pos))
      end == OffsetForPosition(content, Line(pos), Column(pos))
  IN  /\ Line(pos) <= Cardinality({i \in DOMAIN content : content[i] = "n"})
      /\ StartsIn(content, start, end) = Column(pos)
CharOffset(content, pos) ==
  StartsIn(content, 0, OffsetForPosition(content, Line(pos), Column(pos)))

HighlightRanges(f) ==
  LET content == wfiles[f].buffer_content
      inside == SelectSeq(SemanticTokens(f), LAMBDA t : HasPosition(content, t.range.start)
                                                       /\ HasPosition(content, t.range.end))
  IN  [k \in DOMAIN inside |->
         [sym |-> inside[k].sym, from |-> CharOffset(content, inside[k].range.start),
          to |-> CharOffset(content, inside[k].range.end)]]

PublishSemanticHighlight ==
  \E f \in DOMAIN wfiles \cap DOMAIN db.files :
    /\ ~unit.semanticTokensRefresh /\ Len(wfiles[f].buffer_content) <= unit.largeFileSize
    /\ Serve([method |-> "publishSemanticHighlight", file |-> f], <<Success(HighlightRanges(f))>>)

-----------------------------------------------------------------------------
(* Properties. *)

Within(r, p) == r.start <= p /\ p < r.end

(* The outline lists every symbol once, below one that it is written in: in *)
(* a buffer that was not edited a declaration whose extent includes another *)
(* one is an ancestor of it, and what follows a declaration is no child of  *)
(* it (textDocument_documentSymbol, the stack of scopes).                   *)
RECURSIVE AncestorsOf(_, _)
AncestorsOf(nodes, k) ==
  IF nodes[k].parent = 0 THEN {} ELSE {nodes[k].parent} \cup AncestorsOf(nodes, nodes[k].parent)

OutlineNested ==
  Succeeded("documentSymbol") /\ request.form = "tree" /\ AllUnchanged =>
    /\ Len(Result) = Cardinality({s \in WithExtent(request.file) : Listed(s, request.excludeRole)})
    /\ \A k \in DOMAIN Result :
         /\ Result[k].parent < k
         /\ Result[k].parent # 0 => Within(Result[Result[k].parent].range, Result[k].sel.start)
         /\ \A j \in 1 .. k - 1 :
              Includes(Result[j].range, Result[k].range) /\ Result[k].sel.start < Result[j].range.end =>
                j \in AncestorsOf(Result, k)

(* The semantic tokens of a buffer do not overlap, come in the order of     *)
(* the text when their relative positions are added up, lie inside an       *)
(* occurrence of their symbol, and every character of an occurrence belongs *)
(* to the innermost one around it (computeSemanticTokens, the scan line).   *)
Absolute(data) ==
  FoldLeft(LAMBDA acc, t :
             LET line == acc.line + t.deltaLine
                 column == (IF t.deltaLine = 0 THEN acc.column ELSE 0) + t.deltaStart
             IN  [line |-> line, column |-> column,
                  out |-> Append(acc.out, [start |-> At(line, column), end |-> At(line, column + t.length)])],
           [line |-> 0, column |-> 0, out |-> <<>>], data).out

Innermost(occurs, p) ==
  LET around == {o \in occurs : Within(o.range, p)}
  IN  {o \in around : \A q \in around :
         q.range.start < o.range.start \/ (q.range.start = o.range.start /\ o.range.end <= q.range.end)}

HighlightInnermost ==
  Succeeded("semanticTokens") =>
    LET f == request.file
        segments == SemanticTokens(f)
        occurs == Occurs(f)
        tokens == Absolute(Result)
    IN  /\ \A k \in DOMAIN tokens :
             /\ Line(segments[k].range.start) = Line(segments[k].range.end) => tokens[k] = segments[k].range
             /\ \E o \in occurs : o.sym = segments[k].sym /\ Includes(o.range, segments[k].range)
        /\ \A k \in 2 .. Len(segments) : segments[k - 1].range.end <= segments[k].range.start
        /\ \A p \in UNION {o.range.start .. o.range.end - 1 : o \in occurs} :
             \E k \in DOMAIN segments :
               /\ Within(segments[k].range, p)
               /\ segments[k].sym \in {o.sym : o \in Innermost(occurs, p)}
=============================================================================
