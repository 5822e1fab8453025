--------------------------- MODULE SwiftSymbols ---------------------------
(***************************************************************************)
(* The demangler of Swift's symbols (Demangler.cpp), for the report's stack traces:     *)
(* operator by operator it takes what it has read so far off a stack of nodes and      *)
(* puts the node it makes of it there, until one symbol is left.                     *)
(*                                                                         *)
(* The order in which an operator takes its nodes is nowhere in the text: that an        *)
(* optional signature, list of labels or private name is there is only seen from the     *)
(* kind of the node on top, and a type that was read before is known by its number,      *)
(* which holds only if every operator counted as the compiler did.                   *)
(***************************************************************************)
EXTENDS SwiftMangler

CONSTANTS
    SymbolTrees,   \* the symbols
    SymbolNames    \* the names in them

VARIABLES
    tree,          \* the symbol
    mangled,       \* its text, and what the compiler has numbers for
    reader         \* the demangler: its place, stack and substitutions, what it took last,
                   \* and the symbol it made

vars == <<tree, mangled, reader>>

Char(d) == IF d.pos \in DOMAIN mangled.text THEN mangled.text[d.pos] ELSE ""
NextChar(d) == [d EXCEPT !.pos = @ + 1]
NextIf(d, c) == IF Char(d) = c THEN NextChar(d) ELSE d

\* What an operator took or made; addSubstitution.
Give(d, node) == [d EXCEPT !.got = node]
Keep(d) == IF d.got = Null THEN d ELSE [d EXCEPT !.known = Append(@, d.got)]

Pop(d, kinds) ==
    IF d.nodes # <<>> /\ Last(d.nodes).kind \in kinds THEN [d EXCEPT !.nodes = Front(@), !.got = Last(d.nodes)]
    ELSE Give(d, Null)

\* As many nodes of a kind as are on top, in the order in which they were read.
PopWhile(d, kind) ==
    LET others == {i \in DOMAIN d.nodes : d.nodes[i].kind # kind}
        from == Max(others \cup {0})
    IN [d EXCEPT !.nodes = SubSeq(@, 1, from), !.got = Node("TypeList", "", SubSeq(d.nodes, from + 1, Len(d.nodes)))]

\* demangleIndex, which is negative if there is none.
IndexAt(d) == IF \E n \in 0 .. 9 : Char(d) = Numeral(n) THEN CHOOSE n \in 0 .. 9 : Char(d) = Numeral(n) ELSE -1000
SkipIndex(d) == IF IndexAt(d) < 0 THEN d ELSE NextChar(d)
IndexAsNode(d) == Give(SkipIndex(d), IF IndexAt(d) < 0 THEN Null ELSE Leaf("Number", Char(d)))

\* Another node instead of the one that was taken, or another way to take one.
AsKind(d, kind) == Give(d, ChangeKind(d.got, kind))
Only(d, kinds) == IF d.got.kind \in kinds THEN d ELSE Give(d, Null)
Instead(d, node) == IF d.got = Null THEN d ELSE Give(d, node)
OrElse(d, other) == IF d.got # Null THEN d ELSE other

-----------------------------------------------------------------------------
(* What an operator takes, each by how it is taken, the last first; and the node it    *)
(* makes of all of it.  What may be missing is taken as Null.                        *)

RECURSIVE PopAs(_, _)
Noted(d, kids) == [d |-> d, kids |-> <<d.got>> \o kids]
PopAll(d, takes) == FoldRight(LAMBDA how, r : Noted(PopAs(r.d, how), r.kids), takes, [d |-> d, kids |-> <<>>])
Built(all, Of(_)) == Give(all.d, Of(all.kids))

Wrap(d) == Give(d, CreateType(d.got))
CreateWith(d, kind, takes) == Built(PopAll(d, takes), LAMBDA kids : Make(kind, kids))

IsProtocolNode(type) == type.kids[1].kind = "Protocol"

PopModule(d) == OrElse(AsKind(Pop(d, {"Identifier"}), "Module"), Pop(d, {"Module"}))
ChildOf(d) == IF d.got = Null THEN d ELSE Give(d, d.got.kids[1])
PopTypeAndGetChild(d) == ChildOf(Pop(d, {"Type"}))
PopTypeAndGetAnyGeneric(d) == Only(PopTypeAndGetChild(d), Nominals)
PopContext(d) == OrElse(PopModule(d), OrElse(Only(PopTypeAndGetChild(d), Contexts), Pop(d, Contexts)))

ProtocolType(d) == IF d.got # Null /\ IsProtocolNode(d.got) THEN d ELSE Give(d, Null)
PopProtocol(d) ==
    OrElse(ProtocolType(Pop(d, {"Type"})), Wrap(CreateWith(d, "Protocol", <<"context", "name">>)))

\* The name of an associated type, perhaps with its protocol.
AssocTypeName(name, protocol) ==
    IF protocol = Null THEN ChangeKind(name, "DependentAssociatedTypeRef")
    ELSE IF IsProtocolNode(protocol) THEN AddChild(ChangeKind(name, "DependentAssociatedTypeRef"), protocol)
    ELSE Null
PopAssocTypeName(d) ==
    Built(PopAll(d, <<"Identifier", "Type">>), LAMBDA kids : AssocTypeName(kids[1], kids[2]))

Generic(signature, type) ==
    IF signature = Null THEN type ELSE CreateType(Make("DependentGenericType", <<signature, type>>))

\* It may have a signature, and, behind its type, a name.
PopProtocolConformance(d) ==
    Built(PopAll(d, <<"Type", "Identifier", "protocol", "module", "DependentGenericSignature">>), LAMBDA kids :
        Make("ProtocolConformance", <<Generic(kids[5], kids[1]), kids[3], kids[4]>> \o Opt(kids[2])))

ConformanceKinds == {"ConcreteProtocolConformance", "DependentProtocolConformanceRoot",
                     "DependentProtocolConformanceInherited"}
ConformanceRefs == {"ProtocolConformanceRefInTypeModule", "ProtocolConformanceRefInProtocolModule"}
PopConformanceRef(d) ==
    OrElse(Pop(d, ConformanceRefs), CreateWith(d, "ProtocolConformanceRefInOtherModule", <<"protocol", "module">>))

\* A part of a tuple: its type, name, and whether there may be more of it.
PopTupleElement(d) ==
    Built(PopAll(d, <<"Type", "Identifier", "VariadicMarker">>), LAMBDA kids :
        Make("TupleElement", Opt(kids[3]) \o Opt(ChangeKind(kids[2], "TupleElementName")) \o <<kids[1]>>))

\* What is between the parentheses of a function, and what it returns.
ParamCount(params) == Numeral(IF params.kind = "Tuple" THEN Len(params.kids) ELSE 1)
FunctionParams(type, kind) ==
    Node(kind, IF kind = "ArgumentTuple" THEN ParamCount(type.kids[1]) ELSE "", <<type>>)
AsFunctionParams(d, kind) == IF d.got = Null THEN d ELSE Give(d, FunctionParams(d.got, kind))
PopFunctionParams(d, kind) ==
    AsFunctionParams(OrElse(Instead(Pop(d, {"EmptyList"}), EmptyTuple), Pop(d, {"Type"})), kind)
PopFunctionType(d, kind) ==
    Built(PopAll(d, <<"ReturnType", "ArgumentTuple", "ThrowsAnnotation">>), LAMBDA kids :
        CreateType(Make(kind, Opt(kids[3]) \o <<kids[2], kids[1]>>)))

\* As many labels as the function has parameters, up to one that is none.
LabelList(labels) ==
    Node("LabelList", "", IF \E i \in DOMAIN labels : labels[i].kind = "Identifier" THEN labels ELSE <<>>)
PopLabels(d, count) ==
    LET Nth(n) == d.nodes[Len(d.nodes) + 1 - n]
        bad == {n \in 1 .. count : n > Len(d.nodes) \/ Nth(n).kind \notin {"Identifier", "FirstElementMarker"}}
        rest == Max({0, Len(d.nodes) - Min(bad \cup {count})})
    IN [d EXCEPT !.nodes = SubSeq(@, 1, rest),
                 !.got = IF bad # {} THEN Null ELSE LabelList(SubSeq(d.nodes, rest + 1, Len(d.nodes)))]

\* The function of a type, its parameters, and its labels, if it has any.
FunctionOf(child) == IF child.kind = "DependentGenericType" THEN child.kids[2].kids[1] ELSE child
ArgumentsOf(function) ==
    IF function.kids[1].kind = "ThrowsAnnotation" THEN function.kids[2] ELSE function.kids[1]
LabelsOf(d, function) ==
    IF function.kind \notin {"FunctionType", "NoEscapeFunctionType"} \/ ArgumentsOf(function).text = Numeral(0)
    THEN Give(d, Null)
    ELSE PopLabels(d, Number(ArgumentsOf(function).text))
\* Those of the type that was taken last.
PopFunctionParamLabels(d) ==
    OrElse(Instead(Pop(d, {"EmptyList"}), Leaf("LabelList", "")),
           IF d.got = Null THEN d ELSE LabelsOf(d, FunctionOf(d.got.kids[1])))

\* Parts of a list, from the last to the one behind whose marker it begins.
RECURSIVE PopElements(_, _, _)
MoreElements(d, how, elements, first) ==
    IF d.got = Null THEN d
    ELSE IF first THEN Give(d, Node("TypeList", "", elements))
    ELSE PopElements(d, how, elements)
WithElement(d, how, behind, first) == MoreElements(d, how, <<d.got>> \o behind, first)
PopElements(d, how, behind) ==
    LET marker == Pop(d, {"FirstElementMarker"})
    IN WithElement(PopAs(marker, how), how, behind, marker.got # Null)
PopList(d, how) == OrElse(Instead(Pop(d, {"EmptyList"}), Leaf("TypeList", "")), PopElements(d, how, <<>>))

\* Protocols in the order they were written, none of them if the list is empty.
DemangleProtocolList(d) == CreateWith(d, "ProtocolList", <<"protocols">>)

PopAs(d, how) ==
    CASE how = "any" -> Pop(d, {node.kind : node \in Range(d.nodes)})
      [] how = "name" -> Pop(d, DeclNames)
      [] how = "entity" -> Pop(d, Contexts \cup {"Type"})
      [] how = "child" -> PopTypeAndGetChild(d)
      [] how = "generic" -> PopTypeAndGetAnyGeneric(d)
      [] how = "module" -> PopModule(d)
      [] how = "context" -> PopContext(d)
      [] how = "protocol" -> PopProtocol(d)
      [] how = "protocols" -> PopList(d, "protocol")
      [] how = "protocolList" -> DemangleProtocolList(d)
      [] how = "assoc" -> PopAssocTypeName(d)
      [] how = "assocs" -> PopElements(d, "assoc", <<>>)
      [] how = "path" -> AsKind(PopElements(d, "assoc", <<>>), "AssocTypePath")
      [] how = "conformance" -> PopProtocolConformance(d)
      [] how = "conformanceRef" -> PopConformanceRef(d)
      [] how = "anyConformance" -> Pop(d, ConformanceKinds)
      [] how = "nested" -> Pop(d, ConformanceKinds \ {"ConcreteProtocolConformance"})
      [] how = "conformances" -> AsKind(PopList(d, "anyConformance"), "AnyProtocolConformanceList")
      [] how = "element" -> PopTupleElement(d)
      [] how = "tuple" -> AsKind(PopList(d, "element"), "Tuple")
      [] how = "types" -> PopList(d, "Type")
      [] how = "typesOnTop" -> PopWhile(d, "Type")
      [] how \in {"ArgumentTuple", "ReturnType"} -> PopFunctionParams(d, how)
      [] how = "function" -> PopFunctionType(d, "FunctionType")
      [] how = "labels" -> PopFunctionParamLabels(d)
      [] how = "index" -> IndexAsNode(d)
      [] OTHER -> Pop(d, {how})

ReadRow(d, row) ==
    Built(PopAll(d, row.takes), LAMBDA kids :
        IF row.typed THEN CreateType(Make(row.kind, kids)) ELSE Make(row.kind, kids))

DemangleAnyGenericType(d, kind) == Keep(Wrap(CreateWith(d, kind, <<"context", "name">>)))

-----------------------------------------------------------------------------
(* Functions, variables and other entities.                                      *)

DemangleTypeMangling(d) ==
    Built(PopAll(d, <<"labels", "Type">>), LAMBDA kids : Make("TypeMangling", Opt(kids[1]) \o <<kids[2]>>))

DemanglePlainFunction(d) ==
    Built(PopAll(d, <<"context", "name", "labels", "function", "DependentGenericSignature">>), LAMBDA kids :
        Make("Function", SubSeq(kids, 1, 2) \o Opt(kids[3]) \o <<Generic(kids[5], kids[4])>>))

\* An entity whose labels and private name may be missing.
DemangleEntity(d, kind) ==
    Built(PopAll(d, <<"context", "name", "labels", "Type">>), LAMBDA kids :
        Make(kind, SubSeq(kids, 1, 2) \o Opt(kids[3]) \o <<kids[4]>>))
PopPrivateEntity(d, kind) ==
    Built(PopAll(d, <<"context", "labels", "Type", "PrivateDeclName">>), LAMBDA kids :
        Make(kind, <<kids[1]>> \o Opt(kids[2]) \o <<kids[3]>> \o Opt(kids[4])))

\* The variable or the subscript, or one of its accessors.
IsAt(d, op) == \A i \in DOMAIN op : Char([d EXCEPT !.pos = @ + i - 1]) = op[i]
AccessorAt(d) == {a \in Accessors : IsAt(d, a[1])}
ReadAccessor(d, accessor) == [d EXCEPT !.pos = @ + Len(accessor[1]), !.got = Make(accessor[2], <<@>>)]
DemangleAccessor(d) ==
    IF Char(d) = "p" THEN NextChar(d)
    ELSE IF AccessorAt(d) = {} THEN Give(d, Null)
    ELSE ReadAccessor(d, CHOOSE a \in AccessorAt(d) : TRUE)

DemangleVariable(d) == DemangleAccessor(DemangleEntity(d, "Variable"))
DemangleSubscript(d) == DemangleAccessor(PopPrivateEntity(d, "Subscript"))

DemangleFunctionEntity(d) ==
    LET c == Char(d)
        next == NextChar(d)
    IN CASE c \in DOMAIN PlainEntities -> CreateWith(next, PlainEntities[c], <<"context">>)
         [] c \in DOMAIN Constructors -> PopPrivateEntity(next, Constructors[c])
         [] c \in DOMAIN Closures ->
                Built(PopAll(next, <<"context", "Type", "index">>), LAMBDA kids :
                    Make(Closures[c], <<kids[1], kids[3], kids[2]>>))
         [] c = "A" -> CreateWith(next, "DefaultArgumentInitializer", <<"context", "index">>)
         [] c = "p" -> DemangleEntity(next, "GenericTypeParamDecl")
         [] OTHER -> Give(d, Null)

RelatedLetters == {"a", "b", "c", "d", "e", "f", "g", "h", "i", "j", "A", "B", "C", "D", "E", "F", "G", "H", "I", "J"}
DemangleLocalIdentifier(d) ==
    LET c == Char(d)
        next == NextChar(d)
    IN CASE c = "L" ->
                Built(PopAll(next, <<"name", "Identifier">>), LAMBDA kids : Make("PrivateDeclName", Reverse(kids)))
         [] c = "l" -> CreateWith(next, "PrivateDeclName", <<"Identifier">>)
         [] c \in RelatedLetters ->
                Built(PopAll(next, <<"any">>), LAMBDA kids : AddChild(Leaf("RelatedEntityDeclName", c), kids[1]))
         [] OTHER -> CreateWith(d, "LocalDeclName", <<"index", "name">>)

DemangleExtensionContext(d) ==
    Built(PopAll(d, <<"generic", "module", "DependentGenericSignature">>), LAMBDA kids :
        Make("Extension", <<kids[2], kids[1]>> \o Opt(kids[3])))

-----------------------------------------------------------------------------
(* Types with arguments: the lists of arguments, that of the innermost type first.    *)

RECURSIVE PopArgLists(_, _)
NextArgList(d, lists) ==
    IF Pop(d, {"EmptyList"}).got # Null THEN [d |-> Pop(d, {"EmptyList"}), lists |-> Append(lists, d.got)]
    ELSE IF Pop(d, {"FirstElementMarker"}).got = Null THEN [d |-> Give(d, Null), lists |-> <<>>]
    ELSE PopArgLists(Pop(d, {"FirstElementMarker"}), Append(lists, d.got))
PopArgLists(d, lists) == NextArgList(PopWhile(d, "Type"), lists)

NodeConsumesGenericArgs(node) ==
    node.kind \notin {"Variable", "Subscript", "ImplicitClosure", "ExplicitClosure",
                      "DefaultArgumentInitializer", "Initializer"}

BoundNode(nominal, args) ==
    CASE nominal = Null \/ args.kids = <<>> -> nominal
      [] nominal.kind \in Nominals -> Make("BoundGeneric" \o nominal.kind, <<CreateType(nominal), args>>)
      [] nominal.kind \in {"Function", "Constructor"} -> Make("BoundGenericFunction", <<nominal, args>>)
      [] OTHER -> Null

RECURSIVE DemangleBoundGenericArgs(_, _, _)
BoundParent(context, lists, at) ==
    IF context.kind # "Extension" THEN DemangleBoundGenericArgs(context, lists, at)
    ELSE Make("Extension", <<context.kids[1], DemangleBoundGenericArgs(context.kids[2], lists, at)>>
                               \o SubSeq(context.kids, 3, Len(context.kids)))
Rebuilt(nominal, lists, at) ==
    IF at > Len(lists) THEN nominal
    ELSE Make(nominal.kind, <<BoundParent(nominal.kids[1], lists, at)>> \o Tail(nominal.kids))
DemangleBoundGenericArgs(nominal, lists, at) ==
    IF nominal = Null \/ at > Len(lists) \/ nominal.kids = <<>> THEN Null
    ELSE IF NodeConsumesGenericArgs(nominal) THEN BoundNode(Rebuilt(nominal, lists, at + 1), lists[at])
    ELSE Rebuilt(nominal, lists, at)

\* The arguments, and what they are arguments of, are under the conformances.
BindAll(d, lists, conformances) ==
    Give(d, FoldLeft(AddChild, DemangleBoundGenericArgs(d.got, lists, 1), conformances))
BindArgs(args, conformances) ==
    Keep(Wrap(BindAll(PopTypeAndGetAnyGeneric(args.d), args.lists, conformances)))
BindUnder(d) == BindArgs(PopArgLists(d, <<>>), IF d.got.kids = <<>> THEN <<>> ELSE <<d.got>>)
DemangleBoundGenericType(d) == BindUnder(PopWhile(d, "RetroactiveConformance"))

-----------------------------------------------------------------------------
(* Generic parameters, associated types, signatures and requirements.             *)

FirstParam == GetDependentGenericParamType(0, 0)

DemangleGenericParamIndex(d) ==
    LET deep == NextChar(d)
    IN CASE Char(d) = "d" -> Give(NextChar(NextChar(deep)),
                                  GetDependentGenericParamType(IndexAt(deep) + 1, IndexAt(NextChar(deep))))
         [] Char(d) = "z" -> Give(NextChar(d), FirstParam)
         [] OTHER -> Give(NextChar(d), GetDependentGenericParamType(0, IndexAt(d) + 1))

\* A type that is associated with the parameter that was read.
Member(base, name) == Make("DependentMemberType", <<CreateType(base), name>>)
DemangleAssociatedTypeSimple(d) ==
    Built(PopAll(d, <<"assoc">>), LAMBDA kids : CreateType(Member(d.got, kids[1])))
DemangleAssociatedTypeCompound(d) ==
    Built(PopAll(d, <<"assocs">>), LAMBDA kids :
        IF kids[1] = Null THEN Null ELSE CreateType(FoldLeft(Member, d.got, kids[1].kids)))

DemangleArchetype(d) ==
    LET c == Char(d)
        next == NextChar(d)
    IN CASE c = "a" -> Keep(Wrap(CreateWith(next, "AssociatedTypeRef", <<"child", "Identifier">>)))
         [] c = "y" -> Keep(DemangleAssociatedTypeSimple(DemangleGenericParamIndex(next)))
         [] c = "z" -> Keep(DemangleAssociatedTypeSimple(Give(next, FirstParam)))
         [] c = "Y" -> Keep(DemangleAssociatedTypeCompound(DemangleGenericParamIndex(next)))
         [] c = "Z" -> Keep(DemangleAssociatedTypeCompound(Give(next, FirstParam)))
         [] OTHER -> Give(d, Null)

\* How many parameters there are at each depth, up to the l.
RECURSIVE ParamCounts(_, _)
ParamCounts(d, counts) ==
    LET count == IF Char(d) = "z" THEN 0 ELSE IndexAt(d) + 1
    IN IF Char(d) = "l" THEN Give(NextChar(d), Node("DependentGenericSignature", "", counts))
       ELSE IF count < 0 THEN Give(d, Null)
       ELSE ParamCounts(NextChar(d), Append(counts, Leaf("DependentGenericParamCount", Numeral(count))))

RECURSIVE PopRequirements(_, _)
PopRequirements(d, behind) ==
    LET requirement == Pop(d, Requirements)
    IN IF d.got = Null \/ requirement.got = Null THEN [d EXCEPT !.got.kids = @ \o behind]
       ELSE PopRequirements(Give(requirement, d.got), <<requirement.got>> \o behind)

DemangleGenericSignature(d, hasParamCounts) ==
    PopRequirements(IF hasParamCounts THEN ParamCounts(d, <<>>)
                    ELSE Give(d, Node("DependentGenericSignature", "", <<Leaf("DependentGenericParamCount", Numeral(1))>>)),
                    <<>>)

DemangleGenericType(d) ==
    Built(PopAll(d, <<"Type", "DependentGenericSignature">>), LAMBDA kids :
        CreateType(Make("DependentGenericType", Reverse(kids))))

LayoutNumbers == [U |-> 0, R |-> 0, N |-> 0, C |-> 0, D |-> 0, T |-> 0, E |-> 2, e |-> 1, M |-> 2, m |-> 1]
DemangleLayout(d, type) ==
    LET c == Char(d)
        size == IndexAsNode(NextChar(d))
        alignment == IndexAsNode(size)
        read == CASE LayoutNumbers[c] = 0 -> NextChar(d) [] LayoutNumbers[c] = 1 -> size [] OTHER -> alignment
        numbers == SubSeq(<<size.got, alignment.got>>, 1, LayoutNumbers[c])
    IN IF c \notin DOMAIN LayoutNumbers \/ (LayoutNumbers[c] > 0 /\ size.got = Null) THEN Give(d, Null)
       ELSE Give(read, Make("DependentGenericLayoutRequirement",
                            <<type, Leaf("Identifier", c)>> \o SelectSeq(numbers, LAMBDA n : n # Null)))

\* Of which type something is required, and what is.
ConstrainedType(d, how) ==
    CASE how = 1 -> Wrap(DemangleGenericParamIndex(d))
      [] how = 2 -> Keep(DemangleAssociatedTypeSimple(DemangleGenericParamIndex(d)))
      [] how = 3 -> Keep(DemangleAssociatedTypeCompound(DemangleGenericParamIndex(d)))
      [] how = 4 -> Pop(d, {"Type"})
Required(d, constraint) ==
    IF constraint = "layout" THEN DemangleLayout(d, d.got)
    ELSE Built(PopAll(d, <<IF constraint = "protocol" THEN "protocol" ELSE "Type">>), LAMBDA kids :
            Make(IF constraint = "same" THEN "DependentGenericSameTypeRequirement"
                 ELSE "DependentGenericConformanceRequirement", <<d.got, kids[1]>>))
DemangleGenericRequirement(d) ==
    LET lettered == {<<k, h>> \in (DOMAIN Constraints) \X (1 .. 4) : Constraints[k][h] = Char(d)}
        is == IF lettered = {} THEN <<"protocol", 1>> ELSE CHOOSE x \in lettered : TRUE
    IN Required(ConstrainedType(IF lettered = {} THEN d ELSE NextChar(d), is[2]), is[1])

-----------------------------------------------------------------------------
(* Conformances.                                                              *)

\* A number that is one more than what it says, or none.
ConformanceNode(kind, d) == Leaf(kind, IF IndexAt(d) > 0 THEN Numeral(IndexAt(d) - 1) ELSE "")

DemangleDependentProtocolConformanceRoot(d) ==
    Built(PopAll(SkipIndex(d), <<"Type", "protocol">>), LAMBDA kids :
        FoldLeft(AddChild, ConformanceNode("DependentProtocolConformanceRoot", d), Reverse(kids)))
DemangleDependentProtocolConformanceInherited(d) ==
    Built(PopAll(SkipIndex(d), <<"nested", "protocol">>), LAMBDA kids :
        FoldLeft(AddChild, ConformanceNode("DependentProtocolConformanceInherited", d), kids))

DemangleRetroactiveConformance(d) ==
    Built(PopAll(SkipIndex(d), <<"anyConformance">>), LAMBDA kids :
        IF IndexAt(d) < 0 THEN Null ELSE AddChild(Leaf("RetroactiveConformance", Char(d)), kids[1]))

-----------------------------------------------------------------------------
(* Types of the compiler.                                                       *)

Vector(d, size) ==
    IF d.got.kind # "BuiltinTypeName" THEN Give(d, Null)
    ELSE Give(d, Leaf("BuiltinTypeName", "Vec" \o ToString(size) \o "x" \o d.got.text))
DemangleBuiltinType(d) ==
    LET c == Char(d)
        next == NextChar(d)
        size == IndexAt(next) - 1
    IN Wrap(CASE c \in DOMAIN Builtins -> Give(next, Leaf("BuiltinTypeName", Builtins[c]))
              [] c \in DOMAIN SizedBuiltins /\ size > 0 ->
                    Give(NextChar(next), Leaf("BuiltinTypeName", SizedBuiltins[c] \o ToString(size)))
              [] c = "v" /\ size > 0 -> Vector(PopTypeAndGetChild(NextChar(next)), size)
              [] OTHER -> Give(d, Null))

\* The type of a function is made as its letters are read.
Add(d, kid) == Give(d, AddChild(d.got, kid))
AddLeaf(d, kind, table) == IF Char(d) \in DOMAIN table THEN Add(NextChar(d), Leaf(kind, table[Char(d)])) ELSE d
AddConvention(d, kind, table) == Add(NextChar(d), Node(kind, "", <<Leaf("ImplConvention", table[Char(d)])>>))
AddError(d) ==
    CASE Char(d) # "z" -> d
      [] Char(NextChar(d)) \in DOMAIN ResultConventions -> AddConvention(NextChar(d), "ImplErrorResult", ResultConventions)
      [] OTHER -> Give(d, Null)
AddCallee(d) == IF Char(d) \in DOMAIN CalleeConventions THEN AddLeaf(d, "ImplConvention", CalleeConventions) ELSE Give(d, Null)

\* Conventions of one kind, as many as there are.
RECURSIVE DemangleConventions(_, _, _)
DemangleConventions(d, kind, table) ==
    IF Char(d) \notin DOMAIN table THEN d ELSE DemangleConventions(AddConvention(d, kind, table), kind, table)

\* The types of the parameters and results are on the stack, the last on top.
Converted == {"ImplParameter", "ImplResult", "ImplErrorResult"}
FillConverted(kid, r) ==
    IF kid.kind \notin Converted THEN [r EXCEPT !.kids = <<kid>> \o @]
    ELSE Noted(Add(Give(Pop(r.d, {"Type"}), kid), Pop(r.d, {"Type"}).got), r.kids)
ImplTypes(d) ==
    IF d.got = Null \/ Char(d) # "_" THEN Give(d, Null)
    ELSE Built(FoldRight(FillConverted, d.got.kids, [d |-> NextChar(d), kids |-> <<>>]), LAMBDA kids :
            CreateType(Make("ImplFunctionType", kids)))
ImplConventions(d) == AddError(DemangleConventions(DemangleConventions(d, "ImplParameter", ParamConventions),
                                                   "ImplResult", ResultConventions))
ImplFunction(d, signature) ==
    LET start == AddLeaf(Give(d, Leaf("ImplFunctionType", "")), "ImplEscaping", [e |-> ""])
        attributed == AddLeaf(AddCallee(start), "ImplFunctionAttribute", ImplAttributes)
    IN ImplTypes(ImplConventions(IF signature = Null THEN attributed ELSE Add(attributed, signature)))
ImplSignature(d) ==
    IF d.got # Null /\ Char(d) = "P" THEN ImplFunction(NextChar(d), ChangeKind(d.got, "DependentPseudogenericSignature"))
    ELSE ImplFunction(d, d.got)
DemangleImplFunctionType(d) == ImplSignature(Pop(d, {"DependentGenericSignature"}))

\* A box: its fields, of which those that are in out are mutable.
SILBoxField(type) ==
    IF type.kids[1].kind = "InOut" THEN Make("SILBoxMutableField", <<CreateType(type.kids[1].kids[1])>>)
    ELSE Make("SILBoxImmutableField", <<type>>)
SILBoxLayout(fields) ==
    IF fields = Null THEN Null
    ELSE Make("SILBoxLayout", [i \in DOMAIN fields.kids |-> SILBoxField(fields.kids[i])])
DemangleBox(d, generic) ==
    Built(PopAll(d, IF generic THEN <<"types", "types", "DependentGenericSignature">> ELSE <<"types">>), LAMBDA kids :
        CreateType(Make("SILBoxTypeWithLayout", <<SILBoxLayout(kids[1])>> \o Reverse(Tail(kids)))))

DemangleSpecialType(d) ==
    LET c == Char(d)
        next == NextChar(d)
        functions == {f \in FunctionTypes : f[1] = <<"X", c>>}
    IN CASE functions # {} -> PopFunctionType(next, (CHOOSE f \in functions : TRUE)[2])
         [] c \in {"M", "m"} /\ Char(next) \in DOMAIN Representations ->
                Built(PopAll(NextChar(next), <<"Type">>), LAMBDA kids :
                    CreateType(Make(IF c = "M" THEN "Metatype" ELSE "ExistentialMetatype",
                                    <<Leaf("MetatypeRepresentation", Representations[Char(next)]), kids[1]>>)))
         [] c \in {"X", "x"} -> DemangleBox(next, c = "X")
         [] c = "Y" -> DemangleAnyGenericType(next, "OtherNominalType")
         [] c = "Z" ->
                Built(PopAll(next, <<"context", "Identifier", "types">>), LAMBDA kids :
                    Make("AnonymousContext", <<kids[2], kids[1], kids[3]>>))
         [] OTHER -> Give(d, Null)

-----------------------------------------------------------------------------
(* What the compiler made of a function.                                         *)

\* The q that some operators may have behind them.
Serialized(d) == IF Char(d) = "q" THEN <<Leaf("IsSerialized", "")>> ELSE <<>>
SkipSerialized(d) == NextIf(d, "q")

DemangleSpecAttributes(d, kind) ==
    LET pass == SkipSerialized(d)
    IN IF IndexAt(pass) < 0 THEN Give(d, Null)
       ELSE Give(NextChar(pass), Node(kind, "", Append(Serialized(d), Leaf("SpecializationPassID", Char(pass)))))

Param(type) == Make("GenericSpecializationParam", <<type>>)
SpecializedFor(spec, types) ==
    IF types = Null THEN Null ELSE FoldLeft(LAMBDA node, type : AddChild(node, Param(type)), spec, types.kids)
SpecTypes(d) == Built(PopAll(d, <<"types">>), LAMBDA kids : SpecializedFor(d.got, kids[1]))
SpecType(d) == Built(PopAll(d, <<"Type">>), LAMBDA kids : AddChild(d.got, Param(kids[1])))
DemangleGenericSpecialization(d, kind) == SpecTypes(DemangleSpecAttributes(d, kind))
DemanglePartialSpecialization(d, kind) == SpecType(DemangleSpecAttributes(d, kind))

\* The options behind the letter of a fate, each at most once and in their order.
RECURSIVE SpecOptionBits(_, _, _)
SpecOptionBits(d, letters, value) ==
    IF letters = <<>> THEN [d |-> d, value |-> value]
    ELSE SpecOptionBits(NextIf(d, Head(letters)), Tail(letters),
                        value + (IF Char(d) = Head(letters) THEN OptionBits[Head(letters)] ELSE 0))

\* demangleFuncSpecParam: what was done with a parameter.
Fate(param, value, payload) ==
    Node("FunctionSignatureSpecializationParam", param,
         <<Leaf("FunctionSignatureSpecializationParamKind", Numeral(value))>> \o payload)
Payloads(text) == <<Leaf("FunctionSignatureSpecializationParamPayload", text)>>
OptionalFate(options, param) == Give(options.d, Fate(param, options.value, <<>>))
FateWith(d, param, value) ==
    CASE value \in {2, 3} ->
            IF IndexAt(d) < 0 THEN Give(d, Null) ELSE Give(NextChar(d), Fate(param, value, Payloads(Char(d))))
      [] value = 4 ->
            IF Char(d) \notin DOMAIN Encodings THEN Give(d, Null)
            ELSE Give(NextChar(d), Fate(param, value, Payloads(Encodings[Char(d)])))
      [] OTHER -> Give(d, Fate(param, value, <<>>))
DemangleFuncSpecParam(d, param) ==
    LET c == Char(d)
        is == {k \in SpecKinds : IsAt(d, k[1])}
        kind == CHOOSE k \in is : TRUE
    IN CASE c = "n" -> Give(NextChar(d), Leaf("FunctionSignatureSpecializationParam", param))
         [] c \in DOMAIN SpecOptions ->
                OptionalFate(SpecOptionBits(NextChar(d), SpecOptions[c][2], SpecOptions[c][1]), param)
         [] is # {} -> FateWith([d EXCEPT !.pos = @ + Len(kind[1])], param, kind[2])
         [] OTHER -> Give(d, Null)

\* Parameters are added to what was read, up to the end and, behind it, the result.
AddFate(d, spec) == Give(d, AddChild(spec, d.got))
ParamsOf(spec) == Kids(spec, {"FunctionSignatureSpecializationParam"})
RECURSIVE FuncSpecParams(_)
FuncSpecParams(d) ==
    CASE d.got = Null -> d
      [] Char(d) # "_" -> FuncSpecParams(AddFate(DemangleFuncSpecParam(d, Numeral(Len(ParamsOf(d.got)))), d.got))
      [] Char(NextChar(d)) = "n" -> NextChar(NextChar(d))
      [] OTHER -> AddFate(DemangleFuncSpecParam(NextChar(d), "result"), d.got)

\* The names and types of the parameters, from the last one to the first.
HasPayload(param) ==
    param.kind = "FunctionSignatureSpecializationParam" /\ param.kids # <<>>
        /\ param.kids[1].text \in {Numeral(n) : n \in {0, 1, 4, 5}}
Named(param, name, types) ==
    IF name = Null \/ (param.kids[1].text # Numeral(5) /\ types # <<>>) THEN Null
    ELSE [param EXCEPT !.kids = @ \o Payloads(name.text) \o types]
FillParam(param, r) ==
    IF ~HasPayload(param) THEN [r EXCEPT !.kids = <<param>> \o @]
    ELSE LET all == PopAll(r.d, <<"Identifier", "typesOnTop">>)
         IN [d |-> all.d, kids |-> <<Named(param, all.kids[1], all.kids[2].kids)>> \o r.kids]
FillParams(d) ==
    IF d.got = Null THEN d
    ELSE Built(FoldRight(FillParam, d.got.kids, [d |-> d, kids |-> <<>>]), LAMBDA kids : Make(d.got.kind, kids))
DemangleFunctionSpecialization(d) ==
    FillParams(FuncSpecParams(DemangleSpecAttributes(d, "FunctionSignatureSpecialization")))

\* A key path's getter or setter, of a declaration; or its comparison or hash.
KeyPathAccessors == [K |-> "KeyPathGetterThunkHelper", k |-> "KeyPathSetterThunkHelper"]
KeyPathEqualities == [H |-> "KeyPathEqualsThunkHelper", h |-> "KeyPathHashThunkHelper"]
DemangleKeyPathAccessor(d, kind) ==
    Built(PopAll(SkipSerialized(d), <<"any", "DependentGenericSignature", "typesOnTop">>), LAMBDA kids :
        IF kids[3].kids = <<>> THEN Null
        ELSE Make(kind, <<kids[1]>> \o Opt(kids[2]) \o kids[3].kids \o Serialized(d)))
\* It takes all there is.
DemangleKeyPathEquality(d, kind) ==
    Built(PopAll(SkipSerialized(d), <<"any", "typesOnTop", "DependentGenericSignature">>), LAMBDA kids :
        IF kids[1] # Null \/ (kids[2].kids = <<>> /\ kids[3] = Null) THEN Null
        ELSE Make(kind, kids[2].kids \o Opt(kids[3]) \o Serialized(d)))

DemangleReabstraction(d, kind) ==
    Built(PopAll(d, <<"Type", "Type", "DependentGenericSignature">>), LAMBDA kids :
        Make(kind, Opt(kids[3]) \o SubSeq(kids, 1, 2)))

DemangleThunkOrSpecialization(d) ==
    LET c == Char(d)
        next == NextChar(d)
    IN CASE c = "R" -> DemangleReabstraction(next, "ReabstractionThunkHelper")
         [] c = "r" -> DemangleReabstraction(next, "ReabstractionThunk")
         [] c \in DOMAIN Specializations -> DemangleGenericSpecialization(next, Specializations[c])
         [] c \in DOMAIN Partials -> DemanglePartialSpecialization(next, Partials[c])
         [] c = "f" -> DemangleFunctionSpecialization(next)
         [] c \in DOMAIN KeyPathAccessors -> DemangleKeyPathAccessor(next, KeyPathAccessors[c])
         [] c \in DOMAIN KeyPathEqualities -> DemangleKeyPathEquality(next, KeyPathEqualities[c])
         [] c = "v" -> AsKind(IndexAsNode(next), "OutlinedVariable")
         [] OTHER -> Give(d, Null)

Directness(c) == Leaf("Directness", Numeral(IF c = "d" THEN 0 ELSE 1))
DemangleWitness(d) ==
    LET next == NextChar(d)
    IN CASE Char(d) = "v" /\ Char(next) \in {"d", "i"} ->
                Built(PopAll(NextChar(next), <<"entity">>), LAMBDA kids :
                    Make("FieldOffset", <<Directness(Char(next)), kids[1]>>))
         [] Char(d) = "O" /\ Char(next) \in DOMAIN Outlined ->
                Built(PopAll(NextChar(next), <<"Type", "DependentGenericSignature">>), LAMBDA kids :
                    Make("Outlined" \o Outlined[Char(next)], <<kids[1]>> \o Opt(kids[2])))
         [] OTHER -> Give(d, Null)

-----------------------------------------------------------------------------
(* One operator, and what is left when the text is read.                          *)

DemangleStandardSubstitution(d) ==
    CASE Char(d) = "g" ->
            Keep(Wrap(Built(PopAll(NextChar(d), <<"Type">>), LAMBDA kids :
                Make("BoundGenericEnum", <<Optional, Make("TypeList", kids)>>))))
      [] Char(d) = "i" -> Give(NextChar(d), SwiftType("Structure", "Int"))
      [] OTHER -> Give(d, Null)

\* What has the number that follows; a name, which gets one as well.
DemangleSubstitution(d) ==
    LET n == IndexAt(d) + 1
    IN IF n \in DOMAIN d.known THEN Give(NextChar(d), d.known[n]) ELSE Give(d, Null)
DemangleIdentifier(d) ==
    IF Char(d) \in SymbolNames THEN Keep(Give(NextChar(d), Leaf("Identifier", Char(d)))) ELSE Give(d, Null)

DemangleConformance(d) ==
    CASE Char(d) = "D" -> DemangleDependentProtocolConformanceRoot(NextChar(d))
      [] Char(d) = "I" -> DemangleDependentProtocolConformanceInherited(NextChar(d))
      [] OTHER -> Give(d, Null)

NominalLetters == [C |-> "Class", O |-> "Enum", P |-> "Protocol", V |-> "Structure", a |-> "TypeAlias"]
RowsAt(d) == {row \in Rows : IsAt(d, row.op)}

DemangleOperator(d) ==
    LET rows == RowsAt(d)
        row == CHOOSE r \in rows : TRUE
        c == Char(d)
        next == NextChar(d)
    IN CASE rows # {} -> ReadRow([d EXCEPT !.pos = @ + Len(row.op)], row)
         [] c \in DOMAIN NominalLetters -> DemangleAnyGenericType(next, NominalLetters[c])
         [] c = "A" -> DemangleSubstitution(next)
         [] c = "B" -> DemangleBuiltinType(next)
         [] c = "D" -> DemangleTypeMangling(next)
         [] c = "E" -> DemangleExtensionContext(next)
         [] c = "F" -> DemanglePlainFunction(next)
         [] c = "G" -> DemangleBoundGenericType(next)
         [] c = "H" -> DemangleConformance(next)
         [] c = "I" -> DemangleImplFunctionType(next)
         [] c = "L" -> DemangleLocalIdentifier(next)
         [] c = "Q" -> DemangleArchetype(next)
         [] c = "R" -> DemangleGenericRequirement(next)
         [] c = "S" -> DemangleStandardSubstitution(next)
         [] c = "T" -> DemangleThunkOrSpecialization(next)
         [] c = "W" -> DemangleWitness(next)
         [] c = "X" -> DemangleSpecialType(next)
         [] c = "c" -> PopFunctionType(next, "FunctionType")
         [] c = "f" -> DemangleFunctionEntity(next)
         [] c = "g" -> DemangleRetroactiveConformance(next)
         [] c = "i" -> DemangleSubscript(next)
         [] c = "l" -> DemangleGenericSignature(next, FALSE)
         [] c = "q" -> Wrap(DemangleGenericParamIndex(next))
         [] c = "r" -> DemangleGenericSignature(next, TRUE)
         [] c = "s" -> Give(next, Leaf("Module", "Swift"))
         [] c = "t" -> Wrap(PopAs(next, "tuple"))
         [] c = "u" -> DemangleGenericType(next)
         [] c = "v" -> DemangleVariable(next)
         [] c = "x" -> Wrap(Give(next, FirstParam))
         [] OTHER -> DemangleIdentifier(d)

\* What was made of the symbol, the last first: a forwarder has what comes after it, and
\* the symbol, as its children.
RECURSIVE PopAttributes(_, _, _)
PopAttributes(nodes, kind, before) ==
    LET attribute == Last(nodes)
        Symbol(node) == IF node.kind = "Type" THEN node.kids[1] ELSE node
        rest == Front(nodes)
    IN IF nodes = <<>> \/ attribute.kind \notin FunctionAttrs
       THEN Node(kind, "", before \o [i \in DOMAIN nodes |-> Symbol(nodes[i])])
       ELSE IF attribute.kind \in Forwarders
       THEN Node(kind, "", Append(before, PopAttributes(rest, attribute.kind, attribute.kids)))
       ELSE PopAttributes(rest, kind, Append(before, attribute))

-----------------------------------------------------------------------------
Unread == [pos |-> 1, nodes |-> <<>>, known |-> <<>>, got |-> Null, symbol |-> Null]

Init == tree \in SymbolTrees /\ mangled = Mangle(tree) /\ reader = Unread

PushNode(d) ==
    IF d.got = Null THEN [d EXCEPT !.pos = 0] ELSE [d EXCEPT !.nodes = Append(@, d.got), !.got = Null]

\* parseAndPushNodes: one operator, until one cannot be read.
ReadOperator ==
    /\ reader.pos \in DOMAIN mangled.text
    /\ reader' = PushNode(DemangleOperator(reader))
    /\ UNCHANGED <<tree, mangled>>

\* demangleSymbol, behind the last operator.
Finish ==
    /\ reader.pos = Len(mangled.text) + 1
    /\ reader.symbol = Null
    /\ reader' = [reader EXCEPT !.symbol = PopAttributes(reader.nodes, "Global", <<>>)]
    /\ UNCHANGED <<tree, mangled>>

Next == ReadOperator \/ Finish
Spec == Init /\ [][Next]_vars

\* Every symbol the compiler writes is read as what it is: no operator fails or takes
\* what belongs to another one, and at the end reader and compiler count the same.
\* Only how a reference is stored is not told right: weak, unowned and unmanaged ones
\* may come out as owned (Demangler.cpp:2568-2576), in a symbol that is otherwise the
\* same; so trees are compared without it.
Numbers(known) == [i \in DOMAIN known |-> IF known[i].kind = "Type" THEN known[i].kids[1] ELSE known[i]]
RECURSIVE ButStorage(_)
ButStorage(node) ==
    [node EXCEPT !.kind = IF @ \in Range(ReferenceStorage) THEN "Owned" ELSE @,
                 !.kids = [i \in DOMAIN @ |-> ButStorage(@[i])]]
AllButStorage(nodes) == [i \in DOMAIN nodes |-> ButStorage(nodes[i])]
SymbolsAreRead ==
    /\ reader.pos \in 1 .. Len(mangled.text) + 1
    /\ reader.symbol # Null =>
          /\ ButStorage(reader.symbol) = ButStorage(tree)
          /\ AllButStorage(Numbers(reader.known)) = AllButStorage(mangled.known)
=============================================================================
