----------------------------- MODULE MCRequests -----------------------------
(***************************************************************************)
(* Small programs, the callbacks clang makes for them and the buffers open *)
(* on them; every request at every position.                               *)
(***************************************************************************)
EXTENDS Navigation, Outline, Hierarchy

AA == <<"a", "a">>
AB == <<"a", "b">>
BA == <<"b", "a">>
BB == <<"b", "b">>
MAC == <<"b", "a", "b">>
Dot == <<".">>
NL == <<"n">>
Row(parts) == FlattenSeq(parts) \o NL
Text(rows) == FlattenSeq(rows)

Span(l, c, n) == [start |-> At(l, c), end |-> At(l, c + n)]
Extent(l, c, l2, c2) == [start |-> At(l, c), end |-> At(l2, c2)]
In(f, r) == [file |-> f, range |-> r]

(* Declarations: 1 B, 2 B::ab, 3 D, 4 D::ab, 5 bb, 6 the constructor of D,  *)
(* 7 ab, a function that is declared twice and not defined.                 *)
NoType == [tc |-> "None"]
RecordType(d) == [tc |-> "Record", decl |-> d]
BlankDecl ==
  [ck |-> "CXXRecord", usr |-> 0, name |-> <<>>, parent |-> 0, anonymous |-> FALSE,
   linkage |-> TRUE, type |-> NoType, bases |-> <<>>, overrides |-> <<>>, fields |-> <<>>,
   complete |-> TRUE, pattern |-> 0, explicit |-> FALSE, static |-> FALSE, first |-> TRUE,
   at |-> [file |-> 0, range |-> NoRange, extent |-> NoRange],
   typeLoc |-> [file |-> 0, range |-> NoRange]]

Decls == <<
  [BlankDecl EXCEPT !.usr = 11, !.name = <<AA>>],
  [BlankDecl EXCEPT !.ck = "CXXMethod", !.usr = 12, !.name = <<AA, AB>>, !.parent = 1],
  [BlankDecl EXCEPT !.usr = 13, !.name = <<BA>>, !.bases = <<RecordType(1)>>],
  [BlankDecl EXCEPT !.ck = "CXXMethod", !.usr = 14, !.name = <<BA, AB>>, !.parent = 3,
                    !.overrides = <<2>>],
  [BlankDecl EXCEPT !.ck = "Var", !.usr = 15, !.name = <<BB>>, !.type = RecordType(3)],
  [BlankDecl EXCEPT !.ck = "CXXConstructor", !.usr = 16, !.name = <<BA, BA>>, !.parent = 3],
  [BlankDecl EXCEPT !.ck = "Function", !.usr = 18, !.name = <<AB>>] >>

Occ(d, roles, f, r, ext, lex) ==
  [ev |-> "occurrence", decl |-> d, orig |-> d, roles |-> roles, expansion |-> In(f, r),
   spelling |-> In(f, r), mac |-> "no", name |-> NoRange,
   source |-> [startFile |-> f, endFile |-> f, range |-> ext], lex |-> lex,
   comment |-> FALSE, body |-> lex # 0]

Def(d, f, r, ext) == Occ(d, {"Definition", "Declaration"}, f, r, ext, 0)
Dcl(d, f, r, ext) == Occ(d, {"Declaration"}, f, r, ext, 0)
Ref(d, f, r, roles, lex) == Occ(d, roles, f, r, NoRange, lex)

HeaderText == Text(<<Row(<<AA, Dot>>), Row(<<Dot, AB>>), Row(<<Dot, Dot, AB>>)>>)
SourceText == Text(<<
  Row(<<Dot, Dot>>),                \* 0  #include "1"
  Row(<<BA, Dot, AA>>),             \* 1  struct D : B {
  Row(<<Dot, AB>>),                 \* 2    void ab();
  Row(<<Dot, Dot, AB>>),            \* 3  }; void ab();
  Row(<<BA, Dot, BB>>),             \* 4  D bb;
  Row(<<BA, Dot, AB>>),             \* 5  void D::ab() {
  Row(<<Dot, AB, Dot, BB>>),        \* 6    B::ab(); bb = ...
  Row(<<Dot>>),                     \* 7  }
  Row(<<MAC, Dot>>),                \* 8  #define bab
  Row(<<MAC, Dot, BB>>),            \* 9  #define bab bb
  Row(<<MAC>>),                     \* 10 bab
  Row(<<Dot, BB>>),                 \* 11 bb
  Row(<<BB>>)>>)                    \* 12 bb, beyond the last line of a Pos

HeaderEvents == <<
  [ev |-> "enter", file |-> 1],
  Def(1, 1, Span(0, 0, 2), Extent(0, 0, 2, 1)),
  Dcl(2, 1, Span(1, 1, 2), Span(1, 0, 3)),
  Dcl(7, 1, Span(2, 2, 2), Span(2, 1, 3))>>

SourceEvents(implicit, far) ==
  <<Def(3, 2, Span(1, 0, 2), Extent(1, 0, 3, 2)),
    Ref(1, 2, Span(1, 3, 2), {"Reference"}, 0),
    Dcl(4, 2, Span(2, 1, 2), Span(2, 0, 3)),
    Dcl(7, 2, Span(3, 2, 2), Span(3, 1, 3)),
    Ref(3, 2, Span(4, 0, 2), {"Reference"}, 0),
    Def(5, 2, Span(4, 3, 2), Span(4, 0, 5))>>
  \o (IF implicit THEN <<Ref(6, 2, Span(4, 3, 2), {"Call"}, 0)>> ELSE <<>>)
  \o <<Ref(3, 2, Span(5, 0, 2), {"Reference"}, 0),
       Def(4, 2, Span(5, 3, 2), Extent(5, 0, 7, 1)),
       Ref(2, 2, Span(6, 1, 2), {"Call"}, 4),
       Ref(5, 2, Span(6, 4, 2), {"Write"}, 4),
       [ev |-> "define", file |-> 2, macro |-> 17, name |-> MAC, range |-> Span(8, 0, 3),
        extent |-> Span(8, 0, 4)],
       [ev |-> "define", file |-> 2, macro |-> 17, name |-> MAC, range |-> Span(9, 0, 3),
        extent |-> Span(9, 0, 6)],
       [ev |-> "expand", file |-> 2, macro |-> 17, range |-> Span(10, 0, 3)],
       [Ref(5, 2, Span(10, 0, 3), {"Read"}, 0) EXCEPT !.spelling = In(2, Span(9, 4, 2)),
                                                     !.mac = "body"],
       Ref(5, 2, Span(11, 1, 2), {"Read"}, 0)>>
  \o (IF far THEN <<Ref(5, 2, Span(12, 0, 2), {"Read"}, 0)>> ELSE <<>>)

(* No buffer on the header, the same text, a line more before it, or less. *)
Shifted == Text(<<Row(<<Dot, Dot, Dot>>)>>) \o SourceText
Cut == SubSeq(SourceText, 1, 3) \o SubSeq(SourceText, 13, Len(SourceText))

Contexts == {[decls |-> d, base |-> b, role |-> {}, excludeRole |-> {}, folders |-> {}] :
               d \in BOOLEAN, b \in BOOLEAN}
            \cup {[decls |-> TRUE, base |-> FALSE, role |-> {"Write"}, excludeRole |-> {"Read"},
                   folders |-> {{2}}]}

Program(implicit, far, fresh, buffers) ==
  [main |-> 2, noLinkage |-> TRUE, multi |-> {}, fresh |-> fresh, decls |-> Decls,
   events |-> <<[ev |-> "enter", file |-> 2],
                [ev |-> "include", file |-> 2, range |-> Span(0, 0, 2), path |-> 1]>>
              \o HeaderEvents \o SourceEvents(implicit, far),
   usrs |-> 11 .. 18, texts |-> (1 :> HeaderText @@ 2 :> SourceText), buffers |-> buffers,
   files |-> {1, 2}, contexts |-> Contexts, levels |-> {0, 1, 2},
   columns |-> {0, 1, 3, 4, 6}, headers |-> {1}, stem |-> (1 :> 0 @@ 2 :> 0),
   semanticTokensRefresh |-> FALSE, largeFileSize |-> 100]

-----------------------------------------------------------------------------
(* A class template that derives from another instance of itself, with an   *)
(* anonymous struct in it; a typedef of an instance; a function with a      *)
(* local struct, whose method calls the function that it calls as well.     *)
SpecializationOf(d) == [tc |-> "TemplateSpecialization", decl |-> d]
Nested == <<
  [BlankDecl EXCEPT !.ck = "Namespace", !.usr = 21, !.name = <<AA>>],
  [BlankDecl EXCEPT !.usr = 22, !.name = <<AA, AB>>, !.parent = 1, !.bases = <<SpecializationOf(4)>>,
                    !.fields = <<[name |-> TRUE, decl |-> 3, offset |-> 0],
                                 [name |-> FALSE, decl |-> 9]>>],
  [BlankDecl EXCEPT !.ck = "Field", !.usr = 23, !.name = <<AA, AB, BA>>, !.parent = 2,
                    !.type = [tc |-> "Builtin", kind |-> 1]],
  [BlankDecl EXCEPT !.ck = "ClassTemplateSpecialization", !.usr = 28, !.name = <<AA, AB>>,
                    !.parent = 1, !.pattern = 2],
  [BlankDecl EXCEPT !.ck = "Typedef", !.usr = 25, !.name = <<AA, MAC>>, !.parent = 1,
                    !.type = [tc |-> "Elaborated", to |-> SpecializationOf(4)],
                    !.typeLoc = In(3, Span(4, 0, 2))],
  [BlankDecl EXCEPT !.ck = "Function", !.usr = 26, !.name = <<AA, AA>>, !.parent = 1],
  [BlankDecl EXCEPT !.usr = 27, !.name = <<BA>>, !.parent = 6, !.linkage = FALSE],
  [BlankDecl EXCEPT !.ck = "CXXMethod", !.usr = 29, !.name = <<BA, AB>>, !.parent = 7,
                    !.linkage = FALSE],
  [BlankDecl EXCEPT !.usr = 30, !.name = <<AA, AB, Dot>>, !.parent = 2, !.complete = FALSE,
                    !.fields = <<[name |-> TRUE, decl |-> 10, offset |-> 32]>>],
  [BlankDecl EXCEPT !.ck = "Field", !.usr = 31, !.name = <<AA, AB, BB>>, !.parent = 9,
                    !.type = RecordType(7)],
  [BlankDecl EXCEPT !.ck = "Var", !.usr = 32, !.name = <<BA>>, !.parent = 6, !.linkage = FALSE,
                    !.static = TRUE, !.type = [tc |-> "Typedef", decl |-> 5]],
  [BlankDecl EXCEPT !.ck = "Function", !.usr = 33, !.name = <<AA, BB>>, !.parent = 1] >>

NestedText == Text(<<
  Row(<<AA, Dot>>),                 \* 0  namespace aa {
  Row(<<Dot, AB, Dot, AB>>),        \* 1  template <...> struct ab : ab<...> {
  Row(<<Dot, BA>>),                 \* 2    int ba;
  Row(<<Dot, Dot, BB>>),            \* 3    struct { ... bb; }; };
  Row(<<AB, Dot, MAC>>),            \* 4  typedef ab<int> bab;
  Row(<<BB>>),                      \* 5  void bb();
  Row(<<AA, Dot>>),                 \* 6  void aa() {
  Row(<<Dot, BA, Dot>>),            \* 7    struct ba {
  Row(<<Dot, AB, Dot, BB>>),        \* 8      void ab() { bb(); }
  Row(<<Dot, MAC, Dot, BA>>),       \* 9    }; static bab ba;
  Row(<<BB, Dot, BA>>),             \* 10   bb(); a macro's argument ba
  Row(<<Dot>>)>>)                   \* 11 } }

NestedEvents == <<
  [ev |-> "enter", file |-> 3],
  Def(1, 3, Span(0, 0, 2), Extent(0, 0, 11, 1)),
  Def(2, 3, Span(1, 1, 2), Extent(1, 0, 3, 5)),
  Ref(2, 3, Span(1, 4, 2), {"Reference"}, 0),
  Def(3, 3, Span(2, 1, 2), Span(2, 0, 3)),
  Def(9, 3, Span(3, 1, 1), Span(3, 0, 4)),
  Def(10, 3, Span(3, 2, 2), Span(3, 2, 2)),
  Ref(4, 3, Span(4, 0, 2), {"Reference"}, 0),
  Def(5, 3, Span(4, 3, 3), Span(4, 0, 6)),
  Dcl(12, 3, Span(5, 0, 2), Span(5, 0, 2)),
  Def(6, 3, Span(6, 0, 2), Extent(6, 0, 11, 1)),
  Def(7, 3, Span(7, 1, 2), Extent(7, 0, 9, 0)),
  Def(8, 3, Span(8, 1, 2), Span(8, 0, 6)),
  Ref(12, 3, Span(8, 4, 2), {"Call"}, 8),
  Ref(5, 3, Span(9, 1, 3), {"Reference"}, 6),
  Def(11, 3, Span(9, 5, 2), Span(9, 0, 7)),
  Ref(12, 3, Span(10, 0, 2), {"Call"}, 6),
  [Ref(11, 3, Span(10, 2, 1), {"Read"}, 6) EXCEPT !.spelling = In(3, Span(10, 3, 2)), !.mac = "arg"],
  [ev |-> "skip", file |-> 3, range |-> Span(11, 0, 1)]>>

NestedProgram(noLinkage, buffers) ==
  [main |-> 3, noLinkage |-> noLinkage, multi |-> {}, fresh |-> {3}, decls |-> Nested,
   events |-> NestedEvents, usrs |-> 1 .. 33, texts |-> (3 :> NestedText), buffers |-> buffers,
   files |-> {3}, contexts |-> Contexts, levels |-> {0, 2},
   columns |-> {0, 1, 3, 5}, headers |-> {}, stem |-> (3 :> 0),
   semanticTokensRefresh |-> TRUE, largeFileSize |-> 10]

Units ==
  {Program(TRUE, FALSE, {1, 2}, 1 :> HeaderText @@ 2 :> SourceText),
   Program(FALSE, TRUE, {1, 2}, 2 :> SourceText),
   Program(TRUE, FALSE, {1, 2}, 2 :> Shifted),
   Program(TRUE, FALSE, {2}, 2 :> Cut),
   NestedProgram(TRUE, 3 :> NestedText), NestedProgram(FALSE, <<>>)}

Init ==
  /\ unit \in Units
  /\ IndexerInit
  /\ wfiles = <<>> /\ db = NoDB /\ request = NoRequest /\ reply = <<>>

ParseStep == Parse /\ UNCHANGED <<wfiles, db, request, reply>>

Next ==
  \/ ParseStep \/ Apply
  \/ /\ Idle
     /\ \/ Declaration \/ Definition \/ TypeDefinition \/ References \/ DocumentHighlight
        \/ Rename \/ Hover \/ Vars
        \/ DocumentSymbol \/ DocumentLink \/ FoldingRange \/ PublishSkippedRanges \/ CodeLens
        \/ ExecuteCommand \/ Navigate \/ SwitchSourceHeader \/ Info \/ FileInfo
        \/ SemanticTokensFull \/ PublishSemanticHighlight
        \/ Call \/ IncomingCalls \/ OutgoingCalls \/ PrepareCallHierarchy \/ Inheritance \/ Member
        \/ BadId

Spec == Init /\ [][Next]_vars
=============================================================================
