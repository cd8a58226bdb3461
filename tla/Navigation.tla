----------------------------- MODULE Navigation -----------------------------
(***************************************************************************)
(* The requests about the symbol at a position: declaration, definition,   *)
(* typeDefinition, references, documentHighlight, rename, hover and vars   *)
(* (src/src/messages/).                                                    *)
(***************************************************************************)
EXTENDS Queries

-----------------------------------------------------------------------------
(* textDocument/declaration. *)
DeclarationLinks(f, pos) ==
  LET ipos == IndexPos(f, pos)
  IN  ReplyLocationLink(LocationLinks(
        {o \in UNION {DeclRefs(s) : s \in SymbolsAt(f, pos)} : ~UnderCursor(o, f, ipos)}))

Declaration ==
  \E f \in unit.files : \E pos \in Cursors(f) :
    Handle([method |-> "declaration", file |-> f, pos |-> pos], FALSE, {DeclarationLinks(f, pos)})

-----------------------------------------------------------------------------
(* textDocument/definition. *)

OnDef(sym, f, ipos) == \E o \in SpellRefs(sym) : UnderCursor(o, f, ipos)

(* Mutant: the place the cursor is on is not left out. *)
JumpFromAll(sym, f, ipos) ==
  IF ~OnDef(sym, f, ipos) /\ SpellRefs(sym) # {} THEN SpellRefs(sym) ELSE DeclRefs(sym)

(* From a use to the definitions; from a definition, or where there is      *)
(* none, to the other declarations.                                         *)
JumpFrom(sym, f, ipos) ==
  IF ~OnDef(sym, f, ipos) /\ SpellRefs(sym) # {} THEN SpellRefs(sym)
  ELSE {o \in DeclRefs(sym) : ~UnderCursor(o, f, ipos)}

(* on_def: the definition under the cursor that was met last, which stands  *)
(* in for a symbol that leads nowhere.                                      *)
OnDefAfter(syms, k, f, ipos) ==
  LET met == {j \in 1 .. k : OnDef(syms[j].sym, f, ipos)}
      s == syms[CHOOSE j \in met : \A i \in met : i <= j].sym
      first == CHOOSE i \in DOMAIN Spelled(s) :
                 /\ UnderCursor(Spelled(s)[i].spell, f, ipos)
                 /\ \A h \in 1 .. i - 1 : ~UnderCursor(Spelled(s)[h].spell, f, ipos)
  IN  IF met = {} THEN {} ELSE {Spelled(s)[first].spell}

DefinitionTargets(syms, f, ipos) ==
  LET from(k) == JumpFrom(syms[k].sym, f, ipos)
  IN  UNION {IF from(k) # {} THEN from(k) ELSE OnDefAfter(syms, k, f, ipos) : k \in DOMAIN syms}

(* A link to the start of an included file. *)
FileLink(path) ==
  [file |-> path, sel |-> [start |-> 0, end |-> 0], target |-> [start |-> 0, end |-> 0]]
IncludesOn(f, pos) ==
  SelectSeq(db.files[f].includes, LAMBDA i : pos # Nowhere /\ i.line = Line(pos))

(* The best match of an identifier, without qualifiers: in the same file,   *)
(* then on the nearest line; functions before types before variables.  The  *)
(* identifier is read in the buffer at the position in the index.           *)
BestMatch(f, pos, ipos) ==
  LET line == IF ipos = Nowhere THEN -1 ELSE Line(ipos)
      column == IF ipos = Nowhere THEN Column(pos) ELSE Column(ipos)
      query == LexIdentifierAroundPos(wfiles[f].buffer_content, line, column)
      named == {s \in Syms : /\ HasDef(s) /\ SymbolName(s, FALSE) = query
                             /\ DefinitionSpell(s) # NoRef
                             /\ ~(s[1] = "Var" /\ IsLocal(Entity(s).defs[1]))}
      away(l) == IF l < line THEN line - l ELSE l - line
      score(s) == LET o == DefinitionSpell(s)
                  IN  <<IF o.file = f THEN 0 ELSE 1, away(Line(o.range.start)),
                        CASE s[1] = "Func" -> 0 [] s[1] = "Type" -> 1 [] OTHER -> 2>>
  IN  {DefinitionSpell(s) : s \in {t \in named : \A u \in named : ~LexLess(score(u), score(t))}}

(* Candidates of the same kind that tie are taken in the order of the       *)
(* database, which is not modelled: any of them may be the reply.           *)
FirstFound(links, includes, best) ==
  CASE links # {} -> {ReplyLocationLink(links)}
    [] links = {} /\ includes # <<>> -> {<<FileLink(includes[1].path)>>}
    [] links = {} /\ includes = <<>> /\ best # {} ->
         {ReplyLocationLink(LocationLinks({o})) : o \in best}
    [] OTHER -> {<<>>}

DefinitionLinks(f, pos) ==
  LET ipos == IndexPos(f, pos)
  IN  FirstFound(LocationLinks(DefinitionTargets(FindSymbolsAtLocation(f, pos, TRUE), f, ipos)),
                 IncludesOn(f, ipos), BestMatch(f, pos, ipos))

Definition ==
  \E f \in unit.files : \E pos \in Cursors(f) :
    Handle([method |-> "definition", file |-> f, pos |-> pos], FALSE, DefinitionLinks(f, pos))

-----------------------------------------------------------------------------
(* textDocument/typeDefinition: the type of a variable, the target of an    *)
(* alias.  Declarations only count while nothing has been found.            *)
TypeOf(sym) ==
  CASE sym[1] = "Var" /\ HasDef(sym) /\ AnyDef(sym).type # NoSym -> <<AnyDef(sym).type>>
    [] sym[1] = "Type" ->
         LET aliases == SelectSeq(Entity(sym).defs, LAMBDA d : d.alias # NoSym)
         IN  IF aliases = <<>> THEN <<>> ELSE <<aliases[1].alias>>
    [] OTHER -> <<>>

TypeDefinitionLinks(f, pos) ==
  LET syms == FindSymbolsAtLocation(f, pos, FALSE)
      types == FlattenSeq([k \in DOMAIN syms |-> TypeOf(syms[k].sym)])
      add(found, u) ==
        LET all == found \cup LocationLinks(SpellRefs(<<"Type", u>>))
        IN  IF all = {} THEN LocationLinks(DeclRefs(<<"Type", u>>)) ELSE all
  IN  ReplyLocationLink(FoldLeft(add, {}, types))

TypeDefinition ==
  \E f \in unit.files : \E pos \in Cursors(f) :
    Handle([method |-> "typeDefinition", file |-> f, pos |-> pos], FALSE,
           {TypeDefinitionLinks(f, pos)})

-----------------------------------------------------------------------------
(* textDocument/references, of the first symbol; a function's bases count,  *)
(* found through the first definition that has a spelling.                  *)
RECURSIVE SpelledBases(_, _)
SpelledBases(seen, new) ==
  LET next == UNION {{<<s[1], u>> : u \in ToSet(Spelled(s)[1].bases)} :
                       s \in {t \in new : Known(t) /\ Spelled(t) # <<>>}} \ seen
  IN  IF next = {} THEN seen ELSE SpelledBases(seen \cup next, next)

ReferencesTo(sym, ctx) ==
  LET from == IF ctx.base /\ sym[1] = "Func" THEN SpelledBases({sym}, {sym}) ELSE {sym}
      refs == UNION {Occurrences(s, ctx.decls) : s \in {t \in from : Known(t)}}
  IN  {o \in refs : o.file \in FileSet(ctx.folders) /\ ctx.role \subseteq o.role
                    /\ ctx.excludeRole \cap o.role = {}}

(* Where a file is included: the first inclusion in every file.             *)
InclusionsOf(path) ==
  UNION {LET lines == SelectSeq(db.files[g].includes, LAMBDA i : i.path = path)
         IN  IF lines = <<>> THEN {}
             ELSE {[file |-> g, range |-> [start |-> At(lines[1].line, 0), end |-> At(lines[1].line, 0)]]}
           : g \in DOMAIN db.files}

(* On an include line the file it names; on the first line and from the     *)
(* last line of the buffer on, the file itself.                             *)
PathAt(f, pos) ==
  LET includes == IncludesOn(f, IndexPos(f, pos))
  IN  CASE includes # <<>> -> {includes[1].path}
        [] includes = <<>> /\ (Line(pos) = 0 \/ Line(pos) >= Len(wfiles[f].buffer_lines) - 1) -> {f}
        [] OTHER -> {}

(* The order of the result is abstracted: which of too many elements stay   *)
(* is left open.                                                            *)
Truncations(set) == IF Cardinality(set) >= MaxNum THEN kSubset(MaxNum, set) ELSE {set}

ReferenceLocations(f, pos, ctx) ==
  LET locations == LsLocations(UNION {ReferencesTo(s.sym, ctx) : s \in FirstAt(f, pos)})
  IN  IF locations # {} THEN locations ELSE UNION {InclusionsOf(p) : p \in PathAt(f, pos)}

References ==
  \E f \in unit.files : \E pos \in Cursors(f), ctx \in unit.contexts :
    Handle([method |-> "references", file |-> f, pos |-> pos, ctx |-> ctx], FALSE,
           Truncations(ReferenceLocations(f, pos, ctx)))

-----------------------------------------------------------------------------
(* textDocument/documentHighlight: what is at the position, in this file.   *)
HighlightKind(role) ==
  IF "Write" \in role THEN "Write" ELSE IF "Read" \in role THEN "Read" ELSE "Text"

Highlights(f, pos) ==
  LET syms == {s.sym : s \in ToSet(FindSymbolsAtLocation(f, pos, TRUE))}
      here == {s \in Symbol2refcnt(f) : s.sym \in syms}
  IN  {h \in {[range |-> LsRange(f, s.range), kind |-> HighlightKind(s.role), role |-> s.role] :
                 s \in here} : Valid(h.range)}

DocumentHighlight ==
  \E f \in unit.files : \E pos \in Cursors(f) :
    Handle([method |-> "documentHighlight", file |-> f, pos |-> pos], FALSE, {Highlights(f, pos)})

-----------------------------------------------------------------------------
(* textDocument/rename.  In an open file a range whose text is not the old  *)
(* name is left alone; other files are not looked at.                       *)
TextIn(content, r) ==
  SubSeq(content, OffsetForPosition(content, Line(r.start), Column(r.start)) + 1,
         OffsetForPosition(content, Line(r.end), Column(r.end)))

(* Mutant: the text in the buffer is not compared. *)
IsOldTextAny(l, old) == TRUE

IsOldText(l, old) ==
  l.file \in DOMAIN wfiles => TextIn(wfiles[l.file].buffer_content, l.range) = old

(* buildWorkspaceEdit. *)
WorkspaceEdit(sym, old) ==
  LET locations == LsLocations({o \in Occurrences(sym, TRUE) : o.file \in DOMAIN db.files})
  IN  [docs |-> {l.file : l \in locations}, edits |-> {l \in locations : IsOldText(l, old)}]

(* The old name is read in the buffer at the position in the index.         *)
RenameEdit(f, pos) ==
  LET ipos == IndexPos(f, pos)
      old == LexIdentifierAroundPos(wfiles[f].buffer_content, Line(ipos), Column(ipos))
      none == [docs |-> {}, edits |-> {}]
  IN  IF FirstAt(f, pos) = {} THEN none
      ELSE WorkspaceEdit((CHOOSE s \in FirstAt(f, pos) : TRUE).sym, old)

Rename ==
  \E f \in unit.files : \E pos \in Cursors(f) :
    Handle([method |-> "rename", file |-> f, pos |-> pos], FALSE, {RenameEdit(f, pos)})

-----------------------------------------------------------------------------
(* textDocument/hover: the longest hover text of the definitions up to the  *)
(* one in this file; how long the texts are is left open.                   *)
HoverDefs(sym, f) ==
  LET defs == Entity(sym).defs
      here == {i \in DOMAIN defs : defs[i].spell # NoRef /\ defs[i].spell.file = f}
  IN  IF here = {} THEN defs ELSE SubSeq(defs, 1, CHOOSE i \in here : \A j \in here : i <= j)

(* getHover: the definition the comment is from, or 0. *)
HoverComment(sym, f) ==
  LET defs == HoverDefs(sym, f)
      spelled == {i \in DOMAIN defs : defs[i].comments /\ defs[i].spell # NoRef}
      any == {i \in DOMAIN defs : defs[i].comments}
  IN  CASE spelled # {} -> CHOOSE i \in spelled : \A j \in spelled : j <= i
        [] spelled = {} /\ any # {} -> CHOOSE i \in any : \A j \in any : i <= j
        [] OTHER -> 0

HoverTexts(sym, f) ==
  LET defs == HoverDefs(sym, f)
      spelled == {i \in DOMAIN defs : defs[i].spell # NoRef}
  IN  IF spelled # {} THEN spelled ELSE {1}

(* The first symbol that has anything to show and is in the buffer. *)
HoverAnswers(f, pos) ==
  LET shown == SelectSeq(FindSymbolsAtLocation(f, pos, FALSE),
                         LAMBDA s : Valid(LsRange(f, s.range)) /\ HasDef(s.sym))
      sym == shown[1].sym
  IN  IF shown = <<>> THEN {<<>>}
      ELSE {<<sym, LsRange(f, shown[1].range), text, HoverComment(sym, f)>> :
              text \in HoverTexts(sym, f)}

Hover ==
  \E f \in unit.files : \E pos \in Cursors(f) :
    Handle([method |-> "hover", file |-> f, pos |-> pos], FALSE, HoverAnswers(f, pos))

-----------------------------------------------------------------------------
(* $ccls/vars: the instances of the type, or of the variable's type. *)
VarsLocations(f, pos, kinds) ==
  LET type(sym) ==
        CASE sym[1] = "Type" -> {sym}
          [] sym[1] = "Var" /\ HasDef(sym) /\ AnyDef(sym).type # NoSym ->
               {<<"Type", AnyDef(sym).type>>}
          [] OTHER -> {}
      types == UNION {type(s) : s \in SymbolsAt(f, pos)}
      instances == UNION {ToSet(Entity(t).instances) : t \in types}
  IN  LocationLinks(VarDeclarations(instances, kinds))

Vars ==
  \E f \in unit.files : \E pos \in Cursors(f), kinds \in {{"Field"}, {"Field", "Variable", "Parameter"}} :
    Handle([method |-> "vars", file |-> f, pos |-> pos, kinds |-> kinds], FALSE,
           {VarsLocations(f, pos, kinds)})

-----------------------------------------------------------------------------
(* Properties: the replies against the tokens of the program.               *)

(* The tokens of a unit that are in a file the parse indexed, as the        *)
(* database should have them.                                               *)
TokenAt(sym, file, range, roles) == [sym |-> sym, file |-> file, range |-> range, role |-> roles]
TokensOf(e) ==
  LET t == TokenOf(e)
      implicit == e.ev = "occurrence" /\ "Implicit" \in RoleOf(e) /\ t.key[1] = "Func"
      token == TokenAt(t.key, IF t.file = 0 THEN t.into ELSE t.file,
                       IF implicit THEN Widened(t.range) ELSE t.range,
                       CASE e.ev = "occurrence" -> RoleOf(e)
                         [] e.ev = "define" -> {"Definition"}
                         [] OTHER -> {"Dynamic"})
  IN  {token} \cup IF e.ev = "occurrence" /\ e.mac # "no"
                     THEN {TokenAt(t.key, e.spelling.file, ToRange(e.spelling.range), {"Dynamic"})}
                     ELSE {}

Tokens ==
  UNION {TokensOf(unit.events[i]) :
           i \in {j \in DOMAIN unit.events :
                    /\ IsToken(unit.events[j]) /\ ~Redefined(j)
                    /\ TokenOf(unit.events[j]).into \in DOMAIN db.files}}
DefinitionTokens(sym) == {t \in Tokens : t.sym = sym /\ "Definition" \in t.role}

LinksTo(t) == \E k \in DOMAIN Result :
                Result[k].file = t.file /\ Result[k].sel = t.range

(* The shortest tokens at the cursor. *)
TokensAtCursor ==
  LET at == {t \in Tokens : t.file = request.file /\ RangeContains(t.range, request.pos)}
  IN  {t \in at : \A u \in at : RangeSize(t.range) <= RangeSize(u.range)}

(* Go to definition from a token that is not a definition leads to the      *)
(* definitions of a shortest token at the cursor; nothing leads back to     *)
(* where the cursor is unless nothing else is known; and where no token is, *)
(* an include line leads to the included file.  Macros, constructors called *)
(* implicitly and definitions in other files and buffers make this hard     *)
(* (textDocument_definition, findSymbolsAtLocation).                        *)
JumpLands ==
  Succeeded("definition") /\ AllUnchanged =>
    LET here == TokensAtCursor
        leads(t) == \A d \in DefinitionTokens(t.sym) : LinksTo(d)
        use == {t \in here : "Definition" \notin t.role /\ DefinitionTokens(t.sym) # {}}
        includes == IncludesOn(request.file, request.pos)
    IN  /\ here # {} /\ use = here => \E t \in here : leads(t)
        /\ here # {} =>
             \A k \in DOMAIN Result :
               LET l == Result[k]
               IN  l.file = request.file /\ RangeContains(l.sel, request.pos) => Len(Result) = 1
        /\ here = {} /\ includes # <<>> => Result = <<FileLink(includes[1].path)>>

(* What references, documentHighlight and rename find are the tokens of the *)
(* symbol at the cursor: all of them and no others.  In the open files a    *)
(* rename touches only the ones that are written as the name at the cursor, *)
(* so that implicit calls are left out.                                     *)
SymbolAtCursor == {s.sym : s \in FirstAt(request.file, request.pos)}
SymbolTokens == {t \in Tokens : t.sym \in SymbolAtCursor}
PlacesOf(tokens) == {[file |-> t.file, range |-> t.range] : t \in tokens}

TextOfIndex(l) == TextIn(unit.texts[l.file], l.range)

OccurrencesExact ==
  /\ Succeeded("references") /\ AllUnchanged /\ SymbolAtCursor # {} /\ request.ctx.role = {} =>
       LET wanted == {t \in SymbolTokens :
                        request.ctx.decls \/ t.role \cap {"Definition", "Declaration"} = {}}
       IN  /\ Result \subseteq PlacesOf(wanted) \/ request.ctx.base \/ wanted = {}
           /\ Cardinality(PlacesOf(wanted)) < MaxNum => PlacesOf(wanted) \subseteq Result
  /\ Succeeded("documentHighlight") /\ AllUnchanged /\ SymbolAtCursor # {} =>
       {t.range : t \in {u \in SymbolTokens : u.file = request.file}}
         \subseteq {h.range : h \in Result}
  /\ Succeeded("rename") /\ AllUnchanged =>
       LET old == LexIdentifierAroundPos(wfiles[request.file].buffer_content,
                                         Line(request.pos), Column(request.pos))
       IN  Result.edits =
             {l \in PlacesOf(SymbolTokens) : l.file \in DOMAIN wfiles => TextOfIndex(l) = old}
=============================================================================
