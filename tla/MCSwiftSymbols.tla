--------------------------- MODULE MCSwiftSymbols ---------------------------
(***************************************************************************)
(* Symbols of Swift for TLC: each kind of type, declaration and function, with what   *)
(* is optional in it there and not there, and what the compiler makes of them.        *)
(***************************************************************************)
EXTENDS SwiftGrammar

SomeSymbolNames == {"app", "lib", "work", "Box", "Item", "Shape", "left", "right", "Index"}

Name(name) == Leaf("Identifier", name)
App == Leaf("Module", "app")
Lib == Leaf("Module", "lib")
Declare(kind, context, name) == Make(kind, <<context, Name(name)>>)
BoxNode == Declare("Class", App, "Box")
ItemNode == Declare("Structure", BoxNode, "Item")
ShapeNode == Declare("Protocol", App, "Shape")
Integer == SwiftType("Structure", "Int")
Box == CreateType(BoxNode)
Item == CreateType(ItemNode)
Shape == CreateType(ShapeNode)
Param(depth, index) == CreateType(GetDependentGenericParamType(depth, index))
X == Param(0, 0)

\* Types that are associated with a parameter: directly or with another one, perhaps of
\* a protocol that is named.
Assoc(name) == Leaf("DependentAssociatedTypeRef", name)
Of(name, protocol) == Node("DependentAssociatedTypeRef", name, <<protocol>>)
Member(base, name) == CreateType(Make("DependentMemberType", <<base, name>>))
Deep == Member(Member(X, Assoc("Item")), Of("Index", Shape))
Members == {Member(X, Assoc("Item")), Member(X, Of("Item", Shape)), Member(Param(0, 1), Assoc("Index")),
            Member(Param(1, 0), Assoc("Item")), Deep, Member(Member(Param(1, 1), Assoc("Item")), Assoc("Index"))}

Element(type) == Make("TupleElement", <<type>>)
Named(name, type) == Make("TupleElement", <<Leaf("TupleElementName", name), type>>)
Variadic(type) == Make("TupleElement", <<Leaf("VariadicMarker", ""), type>>)
Tuple(elements) == CreateType(Node("Tuple", "", elements))
Pair == Tuple(<<Element(Integer), Element(Box)>>)
Tuples == {EmptyTuple, Pair, Tuple(<<Named("left", Integer), Element(Box), Named("right", Item)>>),
           Tuple(<<Element(Integer), Variadic(Box)>>)}

Arguments(type) ==
    LET child == type.kids[1]
    IN Node("ArgumentTuple", Numeral(IF child.kind = "Tuple" THEN Len(child.kids) ELSE 1), <<type>>)
Function(kind, throws, from, to) ==
    CreateType(Make(kind, (IF throws THEN <<Leaf("ThrowsAnnotation", "")>> ELSE <<>>)
                             \o <<Arguments(from), Make("ReturnType", <<to>>)>>))
Functions == {Function(f[2], throws, from, to) :
                 f \in FunctionTypes, throws \in BOOLEAN, from \in {EmptyTuple, Integer, Pair}, to \in {EmptyTuple, Box}}

-----------------------------------------------------------------------------
(* Types with arguments, in each other, in extensions, and with conformances that are   *)
(* in another module.                                                           *)

List(nodes) == Node("TypeList", "", nodes)
BoundTo(node, args) == Make("BoundGeneric" \o node.kind, <<CreateType(node), List(args)>>)
BoxOf(args) == BoundTo(BoxNode, args)
Own == BoxOf(<<Integer>>)
InOwn == Declare("Structure", Own, "Item")
Extended == Make("Extension", <<Lib, BoxNode>>)
Signed(requirements) == Node("DependentGenericSignature", "", <<Leaf("DependentGenericParamCount", Numeral(1))>> \o requirements)
Conforms(type, to) == Make("DependentGenericConformanceRequirement", <<type, to>>)

Elsewhere == Make("ConcreteProtocolConformance",
                  <<Box, Make("ProtocolConformanceRefInOtherModule", <<Shape, Lib>>), Leaf("AnyProtocolConformanceList", "")>>)
InModule(where) == Make("ProtocolConformanceRefIn" \o where \o "Module", <<Shape>>)
Root(text) == Node("DependentProtocolConformanceRoot", text, <<Shape, X>>)
Inherited(text) == Node("DependentProtocolConformanceInherited", text, <<Root(""), Shape>>)
Concretes == {Make("ConcreteProtocolConformance", <<Box, InModule(where), Node("AnyProtocolConformanceList", "", list)>>) :
                 where \in {"Type", "Protocol"}, list \in {<<>>, <<Elsewhere>>, <<Root("#1"), Elsewhere>>}}
AllConformances == Concretes \cup {Elsewhere} \cup {Root(t) : t \in {"", "#0", "#2"}} \cup {Inherited(t) : t \in {"", "#1"}}
Retroactive(n, conformance) == Node("RetroactiveConformance", Numeral(n), <<conformance>>)

BoundNodes ==
    {BoundTo(Declare(kind, App, "Box"), <<Integer, X>>) : kind \in Nominals}
    \cup {Own, BoxOf(<<CreateType(Own), Box>>), BoundTo(Optional.kids[1], <<Integer>>), BoundTo(Optional.kids[1], <<CreateType(Own)>>),
          InOwn, BoundTo(InOwn, <<Box>>), BoundTo(ItemNode, <<X>>), Declare("Enum", BoundTo(InOwn, <<Integer>>), "Index"),
          BoundTo(Declare("Structure", Extended, "Item"), <<Integer>>),
          Declare("Structure", Make("Extension", <<Lib, Own, Signed(<<Conforms(X, Shape)>>)>>), "Item"),
          AddChild(Own, List(<<Retroactive(0, Elsewhere)>>)),
          AddChild(Own, List(<<Retroactive(0, Elsewhere), Retroactive(1, Root(""))>>))}

-----------------------------------------------------------------------------
(* Signatures: requirements of each form, and parameters at several depths.        *)

Layout(type, name, numbers) ==
    Make("DependentGenericLayoutRequirement", <<type, Name(name)>> \o [i \in DOMAIN numbers |-> Leaf("Number", Numeral(numbers[i]))])
Layouts == {<<"U", <<>>>>, <<"T", <<>>>>, <<"E", <<3, 4>>>>, <<"e", <<2>>>>, <<"M", <<1, 2>>>>, <<"m", <<5>>>>}
Constrained == {X, Param(0, 2), Param(2, 1)} \cup Members
Requirement(type) == {Conforms(type, Shape), Conforms(type, Box), Make("DependentGenericSameTypeRequirement", <<type, Integer>>)}
AllRequirements == UNION {Requirement(c) \cup {Layout(c, "C", <<>>)} : c \in Constrained}
                       \cup {Layout(X, l[1], l[2]) : l \in Layouts}
Counted(counts) == Node("DependentGenericSignature", "", [i \in DOMAIN counts |-> Leaf("DependentGenericParamCount", Numeral(counts[i]))])
Signatures == {Signed(<<r>>) : r \in AllRequirements}
    \cup UNION {{Signed(<<Conforms(m, Shape), second>>) : second \in {Conforms(m, Box), Layout(m, "D", <<>>)}} : m \in Members}
    \cup {Signed(<<Conforms(Deep, Box), Make("DependentGenericSameTypeRequirement", <<Deep, Deep>>)>>)}
    \cup {Counted(counts) : counts \in {<<>>, <<1>>, <<2>>, <<0, 2>>, <<1, 1>>}}
Generic(signature, type) == CreateType(Make("DependentGenericType", <<signature, type>>))
Plain == Signed(<<>>)

-----------------------------------------------------------------------------
(* Other types: of protocols, metatypes, boxes, the compiler's own, and functions as     *)
(* its intermediate language has them.                                             *)

Protocols(list) == Make("ProtocolList", <<List(list)>>)
Lists == {Protocols(list) : list \in {<<>>, <<Shape>>, <<Shape, CreateType(Declare("Protocol", Lib, "Index"))>>}}
Existentials == Lists \cup {Make("ProtocolListWithAnyObject", <<l>>) : l \in Lists}
                    \cup {Make("ProtocolListWithClass", <<l, Box>>) : l \in Lists}
Representation(kind, as) == Make(kind, <<Leaf("MetatypeRepresentation", as), Box>>)
Metatypes == {Representation(kind, as) : kind \in {"Metatype", "ExistentialMetatype"}, as \in Range(Representations)}
Field(mutable, type) == Make(IF mutable THEN "SILBoxMutableField" ELSE "SILBoxImmutableField", <<type>>)
Fields(fields) == Node("SILBoxLayout", "", fields)
Boxes == {Make("SILBoxTypeWithLayout", <<Fields(f)>>) : f \in {<<>>, <<Field(TRUE, Integer)>>, <<Field(FALSE, Box), Field(TRUE, X)>>}}
    \cup {Make("SILBoxTypeWithLayout", <<Fields(<<Field(TRUE, X)>>), Plain, List(args)>>) : args \in {<<Integer>>, <<Box, Item>>}}
BuiltinTypes == {Leaf("BuiltinTypeName", text) : text \in Range(Builtins) \cup {"FPIEEE8", "Int1", "Int8", "Vec4xInt8", "Vec2xRawPointer"}}

Escaping == Leaf("ImplEscaping", "")
Convention(text) == Leaf("ImplConvention", text)
Converted(kind, text) == Make(kind, <<Convention(text), Box>>)
Impl(parts) == Node("ImplFunctionType", "", parts)
Thin == Convention("@convention(thin)")
ImplFunctions ==
    {Impl(<<Convention(callee), Converted("ImplParameter", param)>>) :
        callee \in Range(CalleeConventions), param \in Range(ParamConventions)}
    \cup {Impl(<<Escaping, Thin, Leaf("ImplFunctionAttribute", attribute), Converted("ImplParameter", "@in"),
                 Converted("ImplResult", result)>>) : attribute \in Range(ImplAttributes), result \in Range(ResultConventions)}
    \cup {Impl(<<Thin, signature, Converted("ImplParameter", "@owned"), Converted("ImplResult", "@out"),
                 Converted("ImplErrorResult", "@owned")>>) :
             signature \in {Plain, ChangeKind(Plain, "DependentPseudogenericSignature")}}
    \cup {Impl(<<Thin>>)}

\* Nodes in a type.
TypeNodes == {t.kids[1] : t \in {Integer, Box, Item, Shape, X, Param(0, 1), Param(1, 2)} \cup Members \cup Tuples \cup Functions}
    \cup BoundNodes \cup Existentials \cup Metatypes \cup Boxes \cup BuiltinTypes \cup ImplFunctions
    \cup {Generic(s, X).kids[1] : s \in Signatures} \cup {Declare("AssociatedTypeRef", BoxNode, "Item")}

-----------------------------------------------------------------------------
(* Declarations.                                                               *)

Local == Make("LocalDeclName", <<Leaf("Number", Numeral(1)), Name("work")>>)
Private == Make("PrivateDeclName", <<Name("Index"), Name("work")>>)
Hidden == Make("PrivateDeclName", <<Name("Index")>>)
Related == Node("RelatedEntityDeclName", "e", <<Name("work")>>)
Labels(labels) == Node("LabelList", "", labels)
Marker == Leaf("FirstElementMarker", "")
Unlabelled == Labels(<<>>)
LabelsOf == {<<Function("FunctionType", throws, EmptyTuple, Integer), <<>>>> : throws \in BOOLEAN}
    \cup {<<Function("FunctionType", FALSE, Integer, EmptyTuple), <<l>>>> : l \in {Unlabelled, Labels(<<Name("left")>>)}}
    \cup {<<Function("FunctionType", TRUE, Pair, Box), <<l>>>> :
             l \in {Unlabelled, Labels(<<Marker, Name("left")>>), Labels(<<Name("left"), Name("right")>>)}}
Places == {App, BoxNode, ItemNode, Extended, ShapeNode}
FunctionIn(place, name, of, signature) ==
    Make("Function", <<place, name>> \o of[2] \o <<IF signature = Null THEN of[1] ELSE Generic(signature, of[1])>>)
Work == FunctionIn(App, Name("work"), <<Function("FunctionType", FALSE, EmptyTuple, EmptyTuple), <<>>>>, Null)

\* Types in a function with arguments, and in a closure of one; and one of the library.
BoundWork == Make("BoundGenericFunction", <<Work, List(<<Integer>>)>>)
Closure == Make("ExplicitClosure", <<BoundWork, Leaf("Number", Numeral(0)), Box>>)
LocalNodes == {Make("Structure", <<place, Local>>) : place \in {Work, BoundWork, Closure}}
    \cup {BoundTo(Make("Structure", <<place, Local>>), <<Box>>) : place \in {Work, BoundWork, Closure}}
    \cup {Declare("Structure", Leaf("Module", "Swift"), "Index")}

FunctionNodes ==
    {FunctionIn(App, name, of, Null) : name \in {Name("work"), Local, Private, Related}, of \in LabelsOf}
    \cup {FunctionIn(place, Name("work"), of, signature) :
             place \in Places, of \in LabelsOf, signature \in {Null, Plain, Signed(<<Conforms(X, Shape)>>)}}

Variable(place, name, type) == Make("Variable", <<place, name, type>>)
Variables == {Variable(place, name, Integer) : place \in Places \cup {Work}, name \in {Name("left"), Private}}
    \cup {Make("Variable", <<App, Name("left"), Labels(<<>>), Function("FunctionType", FALSE, Integer, Integer)>>)}
Subscripts == {Make("Subscript", <<BoxNode>> \o of[2] \o <<of[1]>> \o private) : of \in LabelsOf, private \in {<<>>, <<Hidden>>}}
\* Variables that do not own what they refer to.
References == {Variable(BoxNode, Name("left"), CreateType(Make(kind, <<Box>>))) : kind \in Range(ReferenceStorage)}
Storage == Variables \cup Subscripts \cup References
Accessed == Storage \cup {Make(kind, <<s>>) : kind \in AccessorKinds, s \in {Variable(BoxNode, Name("left"), Integer)} \cup Subscripts}

Entities == FunctionNodes \cup Accessed
    \cup {Make(kind, <<place>>) : kind \in Range(PlainEntities), place \in {BoxNode, Variable(App, Name("left"), Integer)}}
    \cup {Make(kind, <<BoxNode>> \o of[2] \o <<of[1]>> \o private) :
             kind \in Range(Constructors), of \in LabelsOf, private \in {<<>>, <<Hidden>>}}
    \cup {Make(kind, <<Work, Leaf("Number", Numeral(n)), Function("FunctionType", FALSE, EmptyTuple, Integer)>>) :
             kind \in Range(Closures), n \in {0, 2}}
    \cup {Make("DefaultArgumentInitializer", <<Work, Leaf("Number", Numeral(1))>>),
          Make("GenericTypeParamDecl", <<Work, Name("Item"), X>>),
          Make("AnonymousContext", <<Name("Index"), App, List(<<>>)>>),
          Make("AnonymousContext", <<Name("Index"), App, List(<<Integer, Box>>)>>)}

-----------------------------------------------------------------------------
(* What the compiler makes of declarations and types.                             *)

ProtocolConformances == {Make("ProtocolConformance", <<type, Shape, App>> \o name) :
    type \in {Box, CreateType(Own), Generic(Signed(<<Conforms(X, Shape)>>), CreateType(BoxOf(<<X>>)))}, name \in {<<>>, <<Name("Index")>>}}
Conformance == CHOOSE c \in ProtocolConformances : c.kids = <<Box, Shape, App>>

\* Something for most ways in which a row takes its children.
Sample == [Type |-> Box, child |-> BoxNode, generic |-> BoxNode, entity |-> Work, context |-> BoxNode, module |-> App,
           protocol |-> Shape, assoc |-> Of("Item", Shape), conformance |-> Conformance,
           path |-> Make("AssocTypePath", <<Assoc("Item"), Assoc("Index")>>), any |-> Name("work"), name |-> Name("Index")]
OfRow(row) == Make(row.kind, [i \in DOMAIN row.takes |-> Sample[row.takes[i]]])
Alone == {row \in CompilerRows : (row.takes # <<>> \/ row.typed) /\ Range(row.takes) \subseteq DOMAIN Sample}

Pass(n) == <<Leaf("SpecializationPassID", Numeral(n))>>
Serialized == <<Leaf("IsSerialized", "")>>
Specialized(kind, types) == [i \in DOMAIN types |-> Make("GenericSpecializationParam", <<types[i]>>)]
Specs ==
    {Node(kind, "", flag \o Pass(3) \o Specialized(kind, types)) :
        kind \in Range(Specializations), flag \in {<<>>, Serialized}, types \in {<<Integer>>, <<Box, X>>}}
    \cup {Node(kind, "", Pass(0) \o Specialized(kind, <<Box>>)) : kind \in Range(Partials)}
Fate(index, kind, payload) ==
    Node("FunctionSignatureSpecializationParam", index,
         <<Leaf("FunctionSignatureSpecializationParamKind", Numeral(kind))>> \o payload)
Payload(text) == Leaf("FunctionSignatureSpecializationParamPayload", text)
Unchanged(index) == Leaf("FunctionSignatureSpecializationParam", index)
Fates == {<<5, <<Payload("work")>>>>, <<5, <<Payload("work"), Integer, Box>>>>, <<0, <<Payload("work")>>>>, <<1, <<Payload("left")>>>>,
          <<2, <<Payload("#7")>>>>, <<3, <<Payload("#2")>>>>, <<4, <<Payload("u8"), Payload("left")>>>>,
          <<4, <<Payload("objc"), Payload("left")>>>>}
    \cup {<<n, <<>>>> : n \in {6, 7, 64, 128, 256, 512, 1024, 64 + 128, 64 + 256, 128 + 256, 512 + 256,
                                64 + 128 + 512 + 256, 1024 + 64 + 256, 1024 + 128 + 512}}
FunctionSpecs ==
    {Node("FunctionSignatureSpecialization", "", Pass(1) \o params) :
        params \in {<<Fate("#0", f[1], f[2])>> : f \in Fates}
                   \cup {<<Fate("#0", f[1], f[2]), Unchanged("#1"), Fate("#2", 5, <<Payload("right"), Item>>)>> : f \in Fates}
                   \cup {<<Unchanged("#0"), Fate("result", 128, <<>>)>>}}
KeyPaths ==
    {Make(kind, <<decl>> \o sig \o types \o flag) :
        kind \in {"KeyPathGetterThunkHelper", "KeyPathSetterThunkHelper"}, decl \in {Variable(BoxNode, Name("left"), Integer), Work},
        sig \in {<<>>, <<Plain>>}, types \in {<<Box>>, <<Box, Integer>>}, flag \in {<<>>, Serialized}}
KeyPathEquality ==
    {Make(kind, types \o sig \o flag) :
        kind \in {"KeyPathEqualsThunkHelper", "KeyPathHashThunkHelper"}, sig \in {<<>>, <<Plain>>},
        types \in {<<Box>>, <<Box, Integer>>}, flag \in {<<>>, Serialized}}

FunctionOf(kind) == CreateType(Impl(<<Thin, Converted("ImplParameter", kind)>>))
Thunks ==
    {Make(kind, sig \o <<FunctionOf("@in"), FunctionOf("@owned")>>) :
        kind \in {"ReabstractionThunk", "ReabstractionThunkHelper"}, sig \in {<<>>, <<Plain>>}}
    \cup {Make("Outlined" \o Outlined[c], <<type>> \o sig) : c \in DOMAIN Outlined, type \in {Box, X}, sig \in {<<>>, <<Plain>>}}
    \cup {Make("FieldOffset", <<Leaf("Directness", Numeral(n)), Variable(BoxNode, Name("left"), Integer)>>) : n \in {0, 1}}
    \cup KeyPaths \cup KeyPathEquality
    \cup {Make("ProtocolWitness", <<c, Work>>) : c \in ProtocolConformances}

Made == {Leaf(a, "") : a \in Range(Attributes) \ Forwarders} \cup Specs \cup FunctionSpecs \cup {Leaf("OutlinedVariable", Numeral(2))}
Global(nodes) == Node("Global", "", nodes)
SomeSymbols ==
    {Global(<<Make("TypeMangling", <<CreateType(t)>>)>>) : t \in TypeNodes \cup LocalNodes}
    \cup {Global(<<t>>) : t \in BoundNodes}
    \cup {Global(<<e>>) : e \in Entities \cup Thunks \cup AllConformances}
    \cup {Global(<<OfRow(row)>>) : row \in Alone}
    \cup {Global(<<Make("TypeMangling", <<Labels(<<>>), Function("FunctionType", FALSE, Pair, Box)>>)>>)}
    \cup {Global(<<a, Work>>) : a \in Made}
    \cup {Global(<<a, b, Work>>) : a \in {Leaf("MergedFunction", "")} \cup Specs, b \in {Leaf("ObjCAttribute", "")}}
    \cup {Global(<<Leaf("MergedFunction", ""), Node(f, "", <<a, Work>>)>>) : f \in Forwarders, a \in Specs}
=============================================================================
