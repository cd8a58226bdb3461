------------------------------ MODULE Indexer ------------------------------
(***************************************************************************)
(* One parse of a translation unit (src/src/indexer.cc): the callbacks of  *)
(* clang's preprocessor and of its indexing consumer, in the order clang   *)
(* makes them, build one IndexFile for each file that this parse may       *)
(* index; idx::index finishes them.                                        *)
(*                                                                         *)
(* clang is outside: a unit is its main file, the files it may index (the  *)
(* ones VFS::stamp grants), a table of declarations and the sequence of    *)
(* callbacks.  Names are sequences of components, a usr is a number and    *)
(* hashing is one-to-one; formatting of names, comments and initializers   *)
(* is left out.                                                            *)
(***************************************************************************)
EXTENDS Positions, FiniteSets, SequencesExt

VARIABLES
  unit,    (* what is parsed                                                *)
  todo,    (* the callbacks still to come                                   *)
  param    (* struct IndexParam: seen (uid2file) and the IndexFiles made    *)

NoSym == 0
NoRef == [file |-> 0, range |-> NoRange, extent |-> NoRange, role |-> {}]

Decl(d) == unit.decls[d]
UsrOf(d) == unit.decls[d].usr

-----------------------------------------------------------------------------
(* getKind: the ccls kind and the symbol kind of a clang declaration.  A    *)
(* CXXRecord is a class here, a Record a struct.                            *)
KindTable ==
  [Namespace |-> <<"Type", "Namespace">>, NamespaceAlias |-> <<"Type", "Namespace">>,
   Concept |-> <<"Type", "Interface">>, ClassTemplate |-> <<"Type", "Class">>,
   FunctionTemplate |-> <<"Func", "Function">>, VarTemplate |-> <<"Var", "Variable">>,
   TypeAliasTemplate |-> <<"Type", "TypeAlias">>,
   TemplateTypeParm |-> <<"Type", "TypeParameter">>, Enum |-> <<"Type", "Enum">>,
   CXXRecord |-> <<"Type", "Class">>, Record |-> <<"Type", "Struct">>,
   ClassTemplateSpecialization |-> <<"Type", "Class">>,
   ClassTemplatePartialSpecialization |-> <<"Type", "Class">>,
   TypeAlias |-> <<"Type", "TypeAlias">>, Typedef |-> <<"Type", "TypeAlias">>,
   Using |-> <<"Invalid", "Null">>, Binding |-> <<"Var", "Variable">>,
   Field |-> <<"Var", "Field">>, Function |-> <<"Func", "Function">>,
   CXXMethod |-> <<"Func", "Method">>, CXXConstructor |-> <<"Func", "Constructor">>,
   CXXConversion |-> <<"Func", "Method">>, CXXDestructor |-> <<"Func", "Method">>,
   Var |-> <<"Var", "Variable">>, ParmVar |-> <<"Var", "Parameter">>,
   EnumConstant |-> <<"Var", "EnumMember">>]

IsRecord(d) == d # 0 /\ Decl(d).ck \in {"CXXRecord", "Record", "ClassTemplateSpecialization",
                                       "ClassTemplatePartialSpecialization"}
IsStaticMember(d) == Decl(d).ck = "Var" /\ Decl(d).static /\ IsRecord(Decl(d).parent)
IsStaticMethod(d) == Decl(d).ck = "CXXMethod" /\ Decl(d).static

GetKind(d) ==
  CASE d = 0 -> <<"Invalid", "Unknown">>                 \* TranslationUnit
    [] d # 0 /\ IsStaticMethod(d) -> <<"Func", "StaticMethod">>
    [] d # 0 /\ IsStaticMember(d) -> <<"Var", "Field">>
    [] d # 0 /\ ~IsStaticMethod(d) /\ ~IsStaticMember(d) /\ Decl(d).ck \in DOMAIN KindTable ->
         KindTable[Decl(d).ck]
    [] OTHER -> <<"Invalid", "Unknown">>                 \* LinkageSpec and the rest

(* getDeclLanguage. *)
Language(d) ==
  IF Decl(d).ck \in {"CXXConstructor", "CXXConversion", "CXXDestructor", "CXXMethod",
       "CXXRecord", "ClassTemplate", "ClassTemplatePartialSpecialization",
       "ClassTemplateSpecialization", "FunctionTemplate", "LinkageSpec", "Namespace",
       "NamespaceAlias", "TemplateTypeParm", "Using"}
    THEN {"Cpp"} ELSE {}

(* getBaseType: the type without pointers, references, arrays and `auto'. *)
Derivations == {"Pointer", "Reference", "Array", "Vector", "Paren", "Auto"}
RECURSIVE BaseType(_)
BaseType(t) == IF t.tc \in Derivations THEN BaseType(t.to) ELSE t

(* getTypeDecl: through typedefs to the declaration of a record, an enum or *)
(* a template; of a typedef of anything else, the typedef itself.           *)
RECURSIVE NamedDecl(_)
NamedDecl(t) ==
  CASE t.tc = "Typedef" ->
         LET under == NamedDecl(Decl(t.decl).type) IN IF under = 0 THEN t.decl ELSE under
    [] t.tc \in {"Record", "Enum", "TemplateTypeParm", "InjectedClassName",
                 "TemplateSpecialization"} -> t.decl
    [] t.tc \in {"Elaborated", "Auto"} -> NamedDecl(t.to)
    [] OTHER -> 0
TypeDecl(t) == NamedDecl(BaseType(t))

(* *specialization is set on the way to the declaration. *)
RECURSIVE NamesSpecialization(_)
NamesSpecialization(t) ==
  CASE t.tc = "Typedef" -> NamesSpecialization(Decl(t.decl).type)
    [] t.tc \in {"Elaborated", "Auto"} -> NamesSpecialization(t.to)
    [] OTHER -> t.tc = "TemplateSpecialization"
IsSpecialization(t) == NamesSpecialization(BaseType(t))

(* getAdjustedDecl: from an implicit instantiation to its template. *)
RECURSIVE AdjustedDecl(_)
AdjustedDecl(d) ==
  IF d # 0 /\ Decl(d).pattern # 0 /\ ~Decl(d).explicit
     /\ Decl(d).ck \in {"CXXRecord", "ClassTemplateSpecialization",
                        "ClassTemplatePartialSpecialization", "Enum"}
    THEN AdjustedDecl(Decl(d).pattern) ELSE d

(* The enclosing declaration that is not an anonymous namespace. *)
RECURSIVE Enclosing(_)
Enclosing(d) ==
  IF d # 0 /\ Decl(d).ck = "Namespace" /\ Decl(d).anonymous
    THEN Enclosing(Decl(d).parent) ELSE d

-----------------------------------------------------------------------------
(* IndexFile: entities by <<kind, usr>>; the file of a reference is the     *)
(* path of its lid, or 0 for the file the index is of.                      *)
BlankEntity ==
  [skind |-> "Unknown", pkind |-> "Unknown", name |-> <<>>, comments |-> FALSE,
   spell |-> NoRef, decls |-> <<>>, uses |-> <<>>, bases |-> <<>>, derived |-> <<>>,
   funcs |-> <<>>, types |-> <<>>, vars |-> <<>>, callees |-> <<>>, type |-> NoSym,
   alias |-> NoSym, instances |-> <<>>, static |-> FALSE]

BlankIndex ==
  [ent |-> <<>>, includes |-> <<>>, skipped |-> <<>>, language |-> {}, lids |-> {},
   deps |-> {}]

(* toFunc, toType, toVar. *)
ToEntity(db, key) ==
  IF key \in DOMAIN db.ent THEN db ELSE [db EXCEPT !.ent = @ @@ (key :> BlankEntity)]

Push(db, key, field, x) ==
  LET d == ToEntity(db, key) IN [d EXCEPT !.ent[key][field] = Append(@, x)]

Put(db, key, field, x) ==
  LET d == ToEntity(db, key) IN [d EXCEPT !.ent[key][field] = x]

(* IndexParam::seenFile: one stamp for each file of a parse. *)
SeenFile(p, f) ==
  IF f \in p.seen THEN p
  ELSE [seen |-> p.seen \cup {f},
        idx  |-> IF f \in unit.fresh THEN p.idx @@ (f :> BlankIndex) ELSE p.idx]

(* consumeFile, and what is done to the IndexFile it returns, if any. *)
Consumed(p, f) == f \in DOMAIN SeenFile(p, f).idx
Store(p, f, db) == [SeenFile(p, f) EXCEPT !.idx[f] = db]

-----------------------------------------------------------------------------
(* handleDeclOccurrence.  An occurrence e has the expansion and the         *)
(* spelling location, which differ inside a macro; mac tells where.         *)

IsDef(e) == "Definition" \in e.roles \/ ("Declaration" \in e.roles /\ Decl(e.decl).ck = "Binding")
IsDecl(e) == "Declaration" \in e.roles

Where(e) == IF e.mac = "arg" THEN e.spelling ELSE e.expansion

(* The range: of the whole name for a definition of `operator X' or ~X. *)
Loc(e) ==
  IF IsDef(e) /\ e.mac = "no" /\ Valid(e.name)
     /\ Decl(e.decl).ck \in {"CXXConversion", "CXXDestructor", "CXXMethod", "Function"}
    THEN ToRange(e.name) ELSE ToRange(Where(e).range)

(* index.multiVersion: the occurrences in such a file go to the index of    *)
(* the main file.                                                           *)
Multi(f) == f \in unit.multi
TargetFile(e) == IF Multi(Where(e).file) THEN unit.main ELSE Where(e).file
Lid(e) ==
  IF Multi(Where(e).file) /\ Where(e).file # unit.main THEN Where(e).file ELSE 0

(* A reference to an instantiation is one to its template. *)
Adjusted(e) == IF IsDef(e) THEN e.decl ELSE AdjustedDecl(e.decl)

(* An implicit call, of a constructor or a conversion, spans one more       *)
(* column on either side in the database.                                   *)
RoleOf(e) ==
  e.roles \cup (IF ~IsDef(e) /\ ~IsDecl(e)
                   /\ Decl(Adjusted(e)).ck \in {"CXXConstructor", "CXXConversion"}
                  THEN {"Implicit"} ELSE {})

UseOf(e) == [file |-> Lid(e), range |-> Loc(e), extent |-> NoRange, role |-> RoleOf(e)]
DeclRefOf(e) ==
  [UseOf(e) EXCEPT !.extent = ToRangeDefaulted(e.source, Where(e).file, Loc(e))]

ParentKind(d) == IF GetKind(d)[2] = "Unknown" THEN "File" ELSE GetKind(d)[2]

(* getComment: whether the declaration, or another one of the entity, has a *)
(* comment.                                                                 *)
GetComment(e) == e.comment

(* do_def_decl. *)
DoDefDecl(db, key, e) ==
  LET commented(d) ==
        IF d.ent[key].comments THEN d ELSE Put(d, key, "comments", GetComment(e))
  IN  CASE IsDef(e) -> commented(Put(Put(db, key, "spell", DeclRefOf(e)), key, "pkind",
                                     ParentKind(Enclosing(Decl(e.orig).parent))))
        [] ~IsDef(e) /\ IsDecl(e) -> commented(Push(db, key, "decls", DeclRefOf(e)))
        [] OTHER -> Push(db, key, "uses", UseOf(e))

(* addMacroUse: the spelling of a token that a macro expanded to. *)
AddMacroUse(db, key, e) ==
  IF e.mac = "no" THEN db
  ELSE [Push(db, key, "uses", [file |-> e.spelling.file, range |-> ToRange(e.spelling.range),
                               extent |-> NoRange, role |-> {"Dynamic"}])
          EXCEPT !.lids = @ \cup {e.spelling.file}]

(* setName, setVarName: the first occurrence names the entity, and, for a   *)
(* type, a definition does so again.                                        *)
SetName(db, key, e) ==
  IF db.ent[key].name = <<>> \/ (key[1] = "Type" /\ IsDef(e))
    THEN Put(db, key, "name", Decl(Adjusted(e)).name) ELSE db

SetVarName(db, key, e) ==
  IF db.ent[key].name = <<>>
    THEN Put(Put(db, key, "name", Decl(Adjusted(e)).name), key, "static", Decl(Adjusted(e)).static)
    ELSE db

(* Members are listed by the declaration they are declared in; a call is    *)
(* listed by the function it is written in.                                 *)
Container(e) == Enclosing(Decl(e.orig).parent)

AddMember(db, key, e) ==
  LET dc == Container(e)
      lex == Enclosing(e.lex)
      in(kind) == GetKind(dc)[1] = kind
  IN  CASE key[1] = "Func" /\ (IsDef(e) \/ IsDecl(e)) ->
             IF in("Type") THEN Push(db, <<"Type", UsrOf(dc)>>, "funcs", key[2]) ELSE db
        [] key[1] = "Func" /\ ~IsDef(e) /\ ~IsDecl(e) ->
             IF GetKind(lex)[1] = "Func"
               THEN Push(db, <<"Func", UsrOf(lex)>>, "callees",
                         [usr |-> key[2], range |-> Loc(e), role |-> RoleOf(e)])
               ELSE db
        [] key[1] = "Type" /\ (IsDef(e) \/ IsDecl(e)) ->
             IF in("Type") THEN Push(db, <<"Type", UsrOf(dc)>>, "types", key[2]) ELSE db
        [] key[1] = "Var" /\ (IsDef(e) \/ IsDecl(e)) ->
             LET known == IF GetKind(dc)[2] = "Unknown" THEN db
                          ELSE Put(db, key, "pkind", GetKind(dc)[2])
             IN  IF in("Func") THEN Push(known, <<"Func", UsrOf(dc)>>, "vars", key[2])
                 ELSE IF in("Type") /\ Decl(dc).ck \notin {"CXXRecord", "Record"}
                   THEN Push(known, <<"Type", UsrOf(dc)>>, "vars", <<key[2], -1>>) ELSE known
        [] OTHER -> db

(* The type of a variable, and the variable as its instance; a variable     *)
(* met by a use alone, such as a lambda parameter, gets its spelling.       *)
RECURSIVE Desugared(_)
Desugared(t) ==
  CASE t.tc = "Typedef" -> Desugared(Decl(t.decl).type)
    [] t.tc \in {"Elaborated", "Paren", "Auto"} -> Desugared(t.to)
    [] OTHER -> t

TypeUsr(d) ==
  LET t == Desugared(Decl(d).type)
      target == AdjustedDecl(TypeDecl(Decl(d).type))
  IN  IF t.tc = "Builtin" THEN t.kind ELSE IF target = 0 THEN NoSym ELSE UsrOf(target)

SetType(db, key, e) ==
  LET d == Adjusted(e)
      u == TypeUsr(d)
      home == Decl(d).at
      self == [file |-> Lid(e), range |-> ToRange(home.range), extent |-> ToRange(home.extent),
               role |-> {"Definition"}]
  IN  CASE key[1] # "Var" -> db
        [] key[1] = "Var" /\ (IsDef(e) \/ IsDecl(e)) ->
             IF u = NoSym THEN db
             ELSE LET typed == Put(db, key, "type", u)
                  IN  IF Decl(d).ck = "EnumConstant" THEN typed
                      ELSE Push(typed, <<"Type", u>>, "instances", key[2])
        [] OTHER ->
             IF db.ent[key].spell = NoRef /\ db.ent[key].decls = <<>> /\ home.file = Where(e).file
               THEN Put(Put(db, key, "spell", self), key, "pkind", "Method") ELSE db

(* Mutant: only one side of the relation is recorded. *)
RelateBase(db, key, u) == Push(ToEntity(db, <<key[1], u>>), key, "bases", u)

(* bases of the one, derived of the other. *)
Relate(db, key, u) == Push(Push(db, key, "bases", u), <<key[1], u>>, "derived", key[2])

RelateAll(db, key, ds) == FoldLeft(LAMBDA x, d : Relate(x, key, UsrOf(d)), db, ds)

(* validateRecord: the layout is known only if that of every field is. *)
RecordOf(f) == TypeDecl(Decl(f.decl).type)
RECURSIVE ValidateRecord(_)
ValidateRecord(d) ==
  \A f \in ToSet(Decl(d).fields) :
    LET r == IF f.name THEN RecordOf(f) ELSE f.decl
    IN  r # 0 /\ Decl(r).fields # <<>> => Decl(r).complete /\ ValidateRecord(r)

(* collectRecordMembers: the fields, and then those of anonymous records in *)
(* it, the last one first, with no offset when the layout is not known.     *)
RECURSIVE RecordMembers(_, _)
RecordMembers(d, known) ==
  LET ok == known /\ Decl(d).complete /\ ValidateRecord(d)
      fields == Decl(d).fields
      named == SelectSeq(fields, LAMBDA f : f.name)
      nested == Reverse(SelectSeq(fields, LAMBDA f : ~f.name))
  IN  [i \in DOMAIN named |-> <<UsrOf(named[i].decl), IF ok THEN named[i].offset ELSE -1>>]
        \o FlattenSeq([i \in DOMAIN nested |-> RecordMembers(nested[i].decl, ok)])

BaseDecls(d) ==
  SelectSeq([i \in DOMAIN Decl(d).bases |-> AdjustedDecl(TypeDecl(Decl(d).bases[i]))],
            LAMBDA b : b # 0)

(* The last switch: bases, aliases, members, overridden methods. *)
ByDeclKind(db, key, e) ==
  LET d == Adjusted(e)
      ck == Decl(d).ck
      members(x) == [x EXCEPT !.ent[key].vars = @ \o RecordMembers(e.orig, TRUE)]
      target == AdjustedDecl(TypeDecl(Decl(d).type))
      outer == Decl(d).parent
  IN  CASE ck = "Namespace" ->
             IF Decl(d).first /\ outer # 0 /\ Decl(outer).ck = "Namespace"
               THEN Relate(db, key, UsrOf(outer)) ELSE db
        [] ck = "CXXRecord" /\ IsDef(e) -> members(RelateAll(db, key, BaseDecls(d)))
        [] ck = "Record" /\ IsDef(e) -> members(db)
        [] ck \in {"ClassTemplateSpecialization", "ClassTemplatePartialSpecialization"}
             /\ IsDef(e) ->
             IF Decl(d).pattern = 0 THEN members(db)
             ELSE Relate(members(db), key, UsrOf(Decl(d).pattern))
        [] ck \in {"TypeAlias", "Typedef", "NamespaceAlias"} /\ target # 0 ->
             LET aliased == Put(ToEntity(db, <<"Type", UsrOf(target)>>), key, "alias",
                                UsrOf(target))
             IN  IF IsSpecialization(Decl(d).type) /\ Decl(d).typeLoc.file = Where(e).file
                   THEN Push(aliased, <<"Type", UsrOf(target)>>, "uses",
                             [file |-> Lid(e), range |-> ToRange(Decl(d).typeLoc.range),
                              extent |-> NoRange, role |-> {"Reference"}])
                   ELSE aliased
        [] ck = "CXXMethod" /\ (IsDef(e) \/ IsDecl(e)) -> RelateAll(db, key, Decl(d).overrides)
        [] OTHER -> db

(* Without linkage only the files given by --index or the multi-version     *)
(* ones are indexed in full; a header's locals are not.                     *)
Skipped(e) == ~unit.noLinkage /\ ~Decl(e.decl).linkage

DeclOccurrence(p, e) ==
  LET key == <<GetKind(e.decl)[1], UsrOf(Adjusted(e))>>
      p1 == SeenFile(SeenFile(p, TargetFile(e)), Where(e).file)
      db0 == [p1.idx[TargetFile(e)] EXCEPT !.language = @ \cup Language(e.decl),
                                           !.lids = @ \cup ({Lid(e)} \ {0})]
      db1 == DoDefDecl(Put(db0, key, "skind", GetKind(e.decl)[2]), key, e)
      db2 == AddMacroUse(db1, key, e)
      named == IF key[1] = "Var" THEN SetVarName(db2, key, e) ELSE SetName(db2, key, e)
      db3 == SetType(AddMember(named, key, e), key, e)
  IN  CASE Skipped(e) -> p
        [] ~Skipped(e) /\ ~Consumed(p, TargetFile(e)) -> SeenFile(p, TargetFile(e))
        [] ~Skipped(e) /\ Consumed(p, TargetFile(e)) /\ GetKind(e.decl)[1] = "Invalid" ->
             Store(p1, TargetFile(e), db0)
        [] OTHER -> Store(p1, TargetFile(e), ByDeclKind(db3, key, e))

-----------------------------------------------------------------------------
(* The preprocessor's callbacks.  A macro is a Var without a declaration.   *)

InclusionDirective(p, e) ==
  IF Consumed(p, e.file)
    THEN [SeenFile(p, e.file) EXCEPT
            !.idx[e.file].includes = Append(@, [line |-> Line(ToPos(e.range.start)), path |-> e.path])]
    ELSE SeenFile(p, e.file)

(* A macro that is defined again keeps its earlier definition as a          *)
(* declaration.                                                             *)
MacroDefined(p, e) ==
  LET key == <<"Var", e.macro>>
      p1 == SeenFile(p, e.file)
      db == ToEntity(p1.idx[e.file], key)
      old == db.ent[key].spell
      kept == IF old = NoRef THEN db ELSE Push(db, key, "decls", old)
      spell == [file |-> 0, range |-> ToRange(e.range), extent |-> ToRange(e.extent),
                role |-> {"Definition"}]
  IN  IF ~Consumed(p, e.file) THEN p1
      ELSE [p1 EXCEPT !.idx[e.file] =
              Put(Put(Put(Put(kept, key, "spell", spell), key, "name", <<e.name>>),
                      key, "skind", "Macro"), key, "pkind", "File")]

(* MacroExpands, and MacroUndefined, which calls it. *)
MacroExpands(p, e) ==
  IF Consumed(p, e.file)
    THEN [SeenFile(p, e.file) EXCEPT
            !.idx[e.file] = Push(@, <<"Var", e.macro>>, "uses",
                                 [file |-> 0, range |-> ToRange(e.range), extent |-> NoRange,
                                  role |-> {"Dynamic"}])]
    ELSE SeenFile(p, e.file)

SourceRangeSkipped(p, e) ==
  IF Consumed(p, e.file)
    THEN [SeenFile(p, e.file) EXCEPT !.idx[e.file].skipped = Append(@, ToRange(e.range))]
    ELSE SeenFile(p, e.file)

(* SkipProcessed::shouldSkipFunctionBody: clang does not parse, and does    *)
(* not report, the body of a function of a file that is not indexed here.   *)
SkipsBody(p, e) ==
  e.ev = "occurrence" /\ e.body /\ ~Multi(e.expansion.file) /\ ~Consumed(p, e.expansion.file)

-----------------------------------------------------------------------------
(* idx::index, after the parse. *)

(* uniquify: the first of equal elements stays.  Two uses are equal when    *)
(* their ranges are: the role does not count.                               *)
Uniquify(s) ==
  FoldLeft(LAMBDA kept, x : IF x \in ToSet(kept) THEN kept ELSE Append(kept, x), <<>>, s)
UniquifyUses(s) ==
  FoldLeft(LAMBDA kept, x : IF \E y \in ToSet(kept) : y.file = x.file /\ y.range = x.range
                              THEN kept ELSE Append(kept, x), <<>>, s)

FinishedEntity(key, x) ==
  [x EXCEPT !.uses = UniquifyUses(@), !.derived = Uniquify(@),
            !.bases = IF key[1] = "Type" THEN Uniquify(@) ELSE @,
            !.funcs = Uniquify(@)]

(* import_file is the main file and no dependency. *)
FinishedIndex(f, db) ==
  [db EXCEPT !.ent = [key \in DOMAIN @ |-> FinishedEntity(key, @[key])],
             !.deps = param.seen \ {f, unit.main}]

-----------------------------------------------------------------------------
NoParam == [seen |-> {}, idx |-> <<>>]
IndexerInit == todo = unit.events /\ param = NoParam

(* The callback that is due. *)
Callback(kind, next) ==
  /\ todo # <<>> /\ Head(todo).ev = kind
  /\ param' = next
  /\ todo' = Tail(todo)
  /\ UNCHANGED unit

FileChanged == Callback("enter", SeenFile(param, Head(todo).file))
Include == Callback("include", InclusionDirective(param, Head(todo)))
Define == Callback("define", MacroDefined(param, Head(todo)))
Expand == Callback("expand", MacroExpands(param, Head(todo)))
Skip == Callback("skip", SourceRangeSkipped(param, Head(todo)))
HandleDeclOccurrence ==
  Callback("occurrence", IF SkipsBody(param, Head(todo)) THEN param
                         ELSE DeclOccurrence(param, Head(todo)))

Parse == FileChanged \/ Include \/ Define \/ Expand \/ Skip \/ HandleDeclOccurrence

(* What idx::index returns: its indexes. *)
IndexResult == [f \in DOMAIN param.idx |-> FinishedIndex(f, param.idx[f])]

-----------------------------------------------------------------------------
(* Properties of a finished parse.                                          *)

Recorded(db, key) ==
  ToSet(db.ent[key].uses) \cup ToSet(db.ent[key].decls) \cup {db.ent[key].spell}

(* The tokens of a unit, with the index they belong in. *)
TokenOf(e) ==
  IF e.ev = "occurrence"
    THEN [into |-> TargetFile(e), key |-> <<GetKind(e.decl)[1], UsrOf(Adjusted(e))>>,
          file |-> Lid(e), range |-> Loc(e)]
    ELSE [into |-> e.file, key |-> <<"Var", e.macro>>, file |-> 0, range |-> ToRange(e.range)]

IsToken(e) ==
  \/ e.ev \in {"define", "expand"}
  \/ e.ev = "occurrence" /\ ~Skipped(e) /\ GetKind(e.decl)[1] # "Invalid"

(* A later definition of the same symbol in the same index takes the place  *)
(* of an earlier one, such as the first of two equal typedefs.              *)
Redefined(i) ==
  /\ unit.events[i].ev = "occurrence" /\ IsDef(unit.events[i])
  /\ \E j \in i + 1 .. Len(unit.events) :
       /\ unit.events[j].ev = "occurrence" /\ IsToken(unit.events[j]) /\ IsDef(unit.events[j])
       /\ TokenOf(unit.events[j]).key = TokenOf(unit.events[i]).key
       /\ TokenOf(unit.events[j]).into = TokenOf(unit.events[i]).into

(* Every token of a file that this parse indexes is in exactly the index it *)
(* belongs in, as a use, a declaration or a spelling of its symbol, macro   *)
(* redefinitions included, and a relation is recorded on both of its sides: *)
(* the occurrence lists of handleDeclOccurrence and MacroDefined lose       *)
(* nothing but the earlier of two definitions.                              *)
TokensKept ==
  todo = <<>> /\ param # NoParam =>
    /\ \A i \in DOMAIN unit.events :
         LET e == unit.events[i]
         IN  IsToken(e) /\ ~Redefined(i) /\ TokenOf(e).into \in DOMAIN param.idx =>
               LET t == TokenOf(e)
                   db == IndexResult[t.into]
               IN  /\ t.key \in DOMAIN db.ent
                   /\ \E o \in Recorded(db, t.key) : o.file = t.file /\ o.range = t.range
                   /\ \A f \in DOMAIN IndexResult \ {t.into} :
                        t.key \in DOMAIN IndexResult[f].ent =>
                          ~\E o \in Recorded(IndexResult[f], t.key) :
                             o.file = t.into /\ o.range = t.range
    /\ \A f \in DOMAIN IndexResult :
         \A key \in DOMAIN IndexResult[f].ent, u \in unit.usrs :
           u \in ToSet(IndexResult[f].ent[key].bases) <=>
             /\ <<key[1], u>> \in DOMAIN IndexResult[f].ent
             /\ key[2] \in ToSet(IndexResult[f].ent[<<key[1], u>>].derived)
=============================================================================
