----------------------------- MODULE Hierarchy -----------------------------
(***************************************************************************)
(* The trees of calls, of base and derived classes and of members          *)
(* (src/src/messages/ccls_call.cc, ccls_inheritance.cc, ccls_member.cc,    *)
(* src/src/hierarchy.hh).                                                  *)
(*                                                                         *)
(* A node is [sym, loc, n, children]: n is numChildren, loc a set with at  *)
(* most one location, children a set: the replies list them sorted, or     *)
(* flattened into a sorted list of locations.                              *)
(***************************************************************************)
EXTENDS Queries

CONSTANTS
  LastBuiltin  (* BuiltinType::LastKind: the usrs up to it are builtin types *)

Node(sym, loc, n, children) == [sym |-> sym, loc |-> loc, n |-> n, children |-> children]

(* getLsLocation of a reference, if any. *)
LocationOf(o) == IF o = NoRef THEN {} ELSE LsLocations({o})

(* flattenHierarchy: the locations of all nodes but the root. *)
RECURSIVE Flatten(_)
Flatten(node) ==
  UNION {c.loc \cup Flatten(c) : c \in node.children}

-----------------------------------------------------------------------------
(* Calls. *)

CalleesOf(sym) ==
  IF ~HasDef(sym) THEN <<>>
  ELSE LET d == AnyDef(sym)
       IN  [k \in DOMAIN d.callees |->
              [sym |-> <<"Func", d.callees[k].usr>>, file |-> d.file, range |-> d.callees[k].range]]

(* Mutant: the outermost function around a use. *)
OutermostAround(use) ==
  LET around == {s \in WithExtent(use.file) : s.sym[1] = "Func" /\ Includes(s.extent, use.range)}
  IN  {s \in around : \A t \in around : s.extent.start <= t.extent.start}

(* The function a use is written in: the extent around it that starts last. *)
FunctionsAround(use) ==
  LET around == {s \in WithExtent(use.file) : s.sym[1] = "Func" /\ Includes(s.extent, use.range)}
  IN  {s \in around : \A t \in around : t.extent.start <= s.extent.start}

CallersOf(sym) ==
  FlattenSeq([k \in DOMAIN Entity(sym).uses |->
    LET use == Entity(sym).uses[k]
        s == CHOOSE t \in FunctionsAround(use) : TRUE
    IN  IF FunctionsAround(use) = {} THEN <<>>
        ELSE <<[sym |-> s.sym, file |-> use.file, range |-> s.range]>>])

CallRefs(sym, callee) == IF callee THEN CalleesOf(sym) ELSE CallersOf(sym)

(* expand: the calls of the function, of its bases and of what derives from *)
(* it; one child for each place.                                            *)
RECURSIVE CallTree(_, _, _, _, _)
CallTree(sym, loc, callee, types, levels) ==
  LET bases == IF "Base" \in types THEN AllBases({sym}, {sym}) ELSE {sym}
      all == IF "Derived" \in types THEN AllDerived(bases, {sym}) ELSE bases
      refs == UNION {ToSet(CallRefs(s, callee)) : s \in all}
      n == FoldSet(LAMBDA s, m : m + Len(CallRefs(s, callee)), 0, all)
      child(r) == CallTree(r.sym, LsLocations({r}), callee, types, levels - 1)
      children == {child(r) : r \in {q \in refs : HasDef(q.sym)}}
      places == {c.loc : c \in children}
  IN  IF ~HasDef(sym) THEN Node(sym, loc, 0, {})
      ELSE Node(sym, loc, n, IF levels = 0 THEN {}
                             ELSE {CHOOSE c \in children : c.loc = l : l \in places})

(* $ccls/call: of the first function at the position, or of a usr.  An id   *)
(* that is no number is not answered; levels is at most MaxLevels.          *)
CallTypes == {{}, {"Base"}, {"Base", "Derived"}}

Call ==
  \E callee \in BOOLEAN, types \in CallTypes, levels \in unit.levels :
    \/ \E u \in unit.usrs :
         LET sym == <<"Func", u>>
             root == IF Known(sym) THEN CallTree(sym, {}, callee, types, levels) ELSE Node(sym, {}, 0, {})
         IN  Serve([method |-> "call", id |-> u, callee |-> callee, types |-> types], <<Success(root)>>)
    \/ \E f \in unit.files : \E pos \in Cursors(f) :
         LET funcs == SelectSeq(FindSymbolsAtLocation(f, pos, FALSE), LAMBDA s : s.sym[1] = "Func")
             sym == funcs[1].sym
             spell == DefinitionSpell(sym)
             root == CallTree(sym, LocationOf(spell), callee, types, levels)
         IN  Handle([method |-> "call", file |-> f, pos |-> pos, callee |-> callee, types |-> types], FALSE,
                    {IF funcs = <<>> \/ ~HasDef(sym) THEN {} ELSE Flatten(root)})

(* callHierarchy/incomingCalls, outgoingCalls: the ranges by function; the  *)
(* file of the first one stands for all, and ranges in others are dropped.  *)
ByFunction(refs) ==
  {[sym |-> s, file |-> (SelectSeq(refs, LAMBDA r : r.sym = s))[1].file,
    ranges |-> {r.range : r \in {q \in ToSet(refs) :
                  q.sym = s /\ q.file = (SelectSeq(refs, LAMBDA p : p.sym = s))[1].file}}] :
     s \in {t \in {r.sym : r \in ToSet(refs)} : HasDef(t)}}

IncomingCalls ==
  \E sym \in {s \in Syms : s[1] = "Func"} :
    Serve([method |-> "incomingCalls", sym |-> sym], <<Success(ByFunction(CallersOf(sym)))>>)

OutgoingCalls ==
  \E sym \in {s \in Syms : s[1] = "Func"} :
    Serve([method |-> "outgoingCalls", sym |-> sym], <<Success(ByFunction(CalleesOf(sym)))>>)

PrepareCallHierarchy ==
  \E f \in unit.files : \E pos \in Cursors(f) :
    LET at == {s \in ToSet(FindSymbolsAtLocation(f, pos, FALSE)) : s.sym[1] = "Func" /\ HasDef(s.sym)}
    IN  Handle([method |-> "prepareCallHierarchy", file |-> f, pos |-> pos], FALSE,
               {{[sym |-> s.sym, range |-> LsRange(f, s.range)] :
                   s \in {t \in at : Valid(LsRange(f, t.range))}}})

-----------------------------------------------------------------------------
(* Base and derived classes and methods. *)

InheritanceLocation(sym) ==
  LET d == AnyDef(sym)
  IN  CASE ~HasDef(sym) -> {}
        [] HasDef(sym) /\ d.spell # NoRef -> LocationOf(d.spell)
        [] HasDef(sym) /\ d.spell = NoRef /\ Entity(sym).decls # <<>> -> LocationOf(Entity(sym).decls[1])
        [] OTHER -> {}

(* expandHelper: a node that is not expanded counts what may be undefined.  *)
RECURSIVE InheritanceTree(_, _, _)
InheritanceTree(sym, derived, levels) ==
  LET related == IF derived THEN Entity(sym).derived ELSE AnyDef(sym).bases
      next == {<<sym[1], u>> : u \in ToSet(related)}
      children == {InheritanceTree(s, derived, levels - 1) : s \in {t \in next : derived \/ HasDef(t)}}
  IN  CASE ~HasDef(sym) /\ ~derived -> Node(sym, {}, 0, {})
        [] (HasDef(sym) \/ derived) /\ levels > 0 ->
             Node(sym, InheritanceLocation(sym), Cardinality(children), children)
        [] OTHER -> Node(sym, InheritanceLocation(sym), Len(related), {})

(* $ccls/inheritance, textDocument/implementation. *)
Inheritance ==
  \E derived \in BOOLEAN, levels \in unit.levels :
    \/ \E sym \in {s \in Syms : s[1] \in {"Func", "Type"}} :
         Serve([method |-> "inheritance", sym |-> sym, derived |-> derived, levels |-> levels],
               <<Success(IF derived \/ HasDef(sym) THEN {InheritanceTree(sym, derived, levels)} ELSE {})>>)
    \/ \E f \in unit.files : \E pos \in Cursors(f) :
         LET at == SelectSeq(FindSymbolsAtLocation(f, pos, FALSE), LAMBDA s : s.sym[1] # "Var")
         IN  Handle([method |-> "implementation", file |-> f, pos |-> pos, derived |-> derived], FALSE,
                    {IF at = <<>> THEN {} ELSE Flatten(InheritanceTree(at[1].sym, derived, levels))})

-----------------------------------------------------------------------------
(* Members of types, and local variables of functions.                      *)

(* The walk from a type to its bases does not look at what it has seen: it  *)
(* comes to a type once for each way to it, and never ends on a cycle.      *)
WalkedBases(sym) ==
  IF AnyDef(sym).skind = "Namespace" THEN <<>>
  ELSE SelectSeq([k \in DOMAIN AnyDef(sym).bases |-> <<"Type", AnyDef(sym).bases[k]>>],
                 LAMBDA b : HasDef(b))

RECURSIVE WalkedFrom(_)
WalkedFrom(seen) ==
  LET next == UNION {ToSet(WalkedBases(s)) : s \in seen} \ seen
  IN  IF next = {} THEN seen ELSE WalkedFrom(seen \cup next)
Endless(sym) ==
  \E s \in WalkedFrom({sym}) : s \in WalkedFrom(ToSet(WalkedBases(s)))

RECURSIVE Walk(_)
Walk(sym) == <<sym>> \o FlattenSeq([k \in DOMAIN WalkedBases(sym) |-> Walk(WalkedBases(sym)[k])])

(* The members a type's definitions list, each once. *)
MembersIn(sym, field) ==
  Uniquify(FlattenSeq([k \in DOMAIN Entity(sym).defs |-> Entity(sym).defs[k][field]]))
MemberVars(sym) ==
  Uniquify(LET vs == MembersIn(sym, "vars") IN [k \in DOMAIN vs |-> vs[k][1]])

Forever == -1
Builtin(u) == 0 < u /\ u <= LastBuiltin

RECURSIVE MemberTrees(_, _, _, _)

(* doField: nothing for a field whose type is not defined. *)
DoField(v, levels) ==
  LET def == AnyDef(<<"Var", v>>)
  IN  CASE ~HasDef(<<"Var", v>>) -> <<>>
        [] HasDef(<<"Var", v>>) /\ def.type = NoSym ->
             <<Node(<<"Type", NoSym>>, LocationOf(def.spell), 0, {})>>
        [] OTHER -> MemberTrees(def.type, LocationOf(def.spell), "Var", levels)

ParentOf(sym, loc, members) == Node(sym, loc, Len(members), ToSet(members))

(* expand: at most one node. *)
MemberTrees(u, loc, kind, levels) ==
  LET sym == <<"Type", u>>
      d == AnyDef(sym)
      leaf(s) == IF HasDef(s) THEN <<Node(s, InheritanceLocation(s), 0, {})>> ELSE <<>>
      target(t) == <<"Type", AnyDef(t).alias>>
      aliased(t) ==
        MemberTrees(AnyDef(t).alias,
                    IF HasDef(target(t)) /\ AnyDef(target(t)).spell # NoRef
                      THEN LocationOf(AnyDef(target(t)).spell) ELSE LocationOf(AnyDef(t).spell),
                    kind, levels - 1)
      each(s, Tree(_)) == FlattenSeq([k \in DOMAIN s |-> Tree(s[k])])
      membersOf(t) ==
        CASE AnyDef(t).alias # NoSym -> aliased(t)
          [] AnyDef(t).alias = NoSym /\ kind = "Func" ->
               each(MembersIn(t, "funcs"), LAMBDA m : leaf(<<"Func", m>>))
          [] AnyDef(t).alias = NoSym /\ kind = "Type" ->
               each(MembersIn(t, "types"), LAMBDA m : leaf(<<"Type", m>>))
          [] OTHER -> each(MemberVars(t), LAMBDA v : DoField(v, levels - 1))
  IN  CASE Builtin(u) -> <<Node(sym, loc, 0, {})>>
        [] ~Builtin(u) /\ ~HasDef(sym) -> <<>>
        [] ~Builtin(u) /\ HasDef(sym) /\ levels <= 0 ->
             <<Node(sym, loc, IF d.alias # NoSym THEN 1 ELSE Len(d.vars), {})>>
        [] ~Builtin(u) /\ HasDef(sym) /\ levels > 0 /\ Endless(sym) ->
             <<Node(sym, loc, Forever, {})>>
        [] OTHER -> <<ParentOf(sym, loc, each(Walk(sym), membersOf))>>

(* buildInitial: of a function, the variables of its definition. *)
MembersAt(sym, kind, levels) ==
  LET d == AnyDef(sym)
  IN  CASE ~HasDef(sym) -> <<>>
        [] HasDef(sym) /\ sym[1] = "Func" ->
             <<Node(sym, LocationOf(d.spell), 0,
                    ToSet(FlattenSeq([k \in DOMAIN d.vars |-> DoField(d.vars[k], levels - 1)])))>>
        [] HasDef(sym) /\ sym[1] = "Type" -> MemberTrees(sym[2], LocationOf(d.spell), kind, levels)
        [] OTHER ->
             IF d.type = NoSym \/ ~HasDef(<<"Type", d.type>>) THEN <<>>
             ELSE MemberTrees(d.type, LocationOf(AnyDef(<<"Type", d.type>>).spell), kind, levels)

RECURSIVE Ends(_)
Ends(node) == node.n # Forever /\ \A c \in node.children : Ends(c)

(* $ccls/member.  A walk that does not end is never answered. *)
Member ==
  \E kind \in {"Func", "Type", "Var"}, levels \in unit.levels :
    \/ \E sym \in {s \in Syms : s[1] = "Type"} :
         \E trees \in {MemberTrees(sym[2], {}, kind, levels)} :
             Serve([method |-> "member", sym |-> sym, kind |-> kind, levels |-> levels],
                   IF \A t \in ToSet(trees) : Ends(t) THEN <<Success(ToSet(trees))>> ELSE <<>>)
    \/ \E f \in unit.files : \E pos \in Cursors(f) :
         LET req == [method |-> "memberAt", file |-> f, pos |-> pos, kind |-> kind]
         IN  \E trees \in {UNION {ToSet(MembersAt(s.sym, kind, levels)) : s \in FirstAt(f, pos)}} :
               IF \A t \in trees : Ends(t)
                 THEN Handle(req, FALSE, {UNION {Flatten(t) : t \in trees}})
                 ELSE Serve(req, <<>>)

-----------------------------------------------------------------------------
(* The ids of call, inheritance and member items are strings; one that is   *)
(* no number ends the handler without a reply.                              *)
BadId ==
  \E method \in {"call", "inheritance", "member", "incomingCalls", "outgoingCalls"} :
    Serve([method |-> method, id |-> "not a number"], <<>>)

-----------------------------------------------------------------------------
DefinedFuncs == {s \in Syms : s[1] = "Func" /\ HasDef(s)}
ClassesAndFuncs == {s \in Syms : HasDef(s) /\ SymbolKind(s) \in {"Class", "Function", "Method"}}

(* The two directions of a hierarchy agree.  A function is listed among the *)
(* callers of another, found through the extents around its uses, exactly   *)
(* when the other is among the callees recorded for it, also where          *)
(* functions are nested; and a class or method is listed as derived from    *)
(* another exactly when the other is listed as its base.                    *)
HierarchyDual ==
  /\ Succeeded("incomingCalls") =>
       {c.sym : c \in Result} = {g \in DefinedFuncs : \E r \in ToSet(CalleesOf(g)) : r.sym = request.sym}
  /\ Succeeded("inheritance") /\ request.derived /\ request.levels > 0 /\ Result # {} =>
       LET root == CHOOSE r \in Result : TRUE
           bases(s) == InheritanceTree(s, FALSE, 1).children
       IN  request.sym \in ClassesAndFuncs =>
             {c.sym : c \in root.children} =
               {s \in ClassesAndFuncs : \E c \in bases(s) : c.sym = request.sym}
=============================================================================
