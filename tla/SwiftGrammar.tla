--------------------------- MODULE SwiftGrammar ---------------------------
(***************************************************************************)
(* The trees Demangler.cpp makes of the symbols of Swift, the operators their text     *)
(* is made of, and how the compiler writes a tree.  The compiler is not a part of     *)
(* this code: what it writes is what the operators of the demangler read, children     *)
(* first, with a number for what was written before.                             *)
(*                                                                         *)
(* A text is a sequence of tokens: an operator is one token for each of its           *)
(* characters, a name is one, and so is a number (demangleIndex), here "#" and the     *)
(* number.  How names are spelled and how the numbers of substitutions are merged is    *)
(* that of SwiftNames.  A number in a node is its text.                            *)
(***************************************************************************)
EXTENDS Integers, SequencesExt, TLC

Node(kind, text, kids) == [kind |-> kind, text |-> text, kids |-> kids]
Null == Node("null", "", <<>>)
Leaf(kind, text) == Node(kind, text, <<>>)
Numeral(n) == "#" \o ToString(n)

Make(kind, kids) == IF Null \in Range(kids) THEN Null ELSE Node(kind, "", kids)
CreateType(node) == Make("Type", <<node>>)
AddChild(node, kid) == IF Null \in {node, kid} THEN Null ELSE [node EXCEPT !.kids = Append(@, kid)]
ChangeKind(node, kind) == IF node = Null THEN Null ELSE [node EXCEPT !.kind = kind]
Opt(node) == IF node = Null THEN <<>> ELSE <<node>>

SwiftType(kind, name) == CreateType(Make(kind, <<Leaf("Module", "Swift"), Leaf("Identifier", name)>>))
Optional == SwiftType("Enum", "Optional")
EmptyTuple == CreateType(Leaf("Tuple", ""))

\* getDependentGenericParamType, whose text is the name it is printed with.
ParamLetters == <<"A", "B", "C", "D", "E">>
GetDependentGenericParamType(depth, index) ==
    IF depth < 0 \/ index < 0 THEN Null
    ELSE Node("DependentGenericParamType", ParamLetters[index + 1] \o (IF depth = 0 THEN "" ELSE ToString(depth)),
              <<Leaf("Index", Numeral(depth)), Leaf("Index", Numeral(index))>>)

-----------------------------------------------------------------------------
(* Kinds of nodes.                                                           *)

Nominals == {"Class", "Enum", "Protocol", "Structure", "TypeAlias", "OtherNominalType"}
DeclNames == {"Identifier", "LocalDeclName", "PrivateDeclName", "RelatedEntityDeclName"}
Requirements == {"DependentGenericSameTypeRequirement", "DependentGenericLayoutRequirement",
                 "DependentGenericConformanceRequirement"}
Specializations == [g |-> "GenericSpecialization", G |-> "GenericSpecializationNotReAbstracted",
                    i |-> "InlinedGenericFunction"]
Partials == [p |-> "GenericPartialSpecialization", P |-> "GenericPartialSpecializationNotReAbstracted"]
Attributes == [o |-> "ObjCAttribute", O |-> "NonObjCAttribute", D |-> "DynamicAttribute",
               d |-> "DirectMethodReferenceAttribute", a |-> "PartialApplyObjCForwarder",
               A |-> "PartialApplyForwarder", m |-> "MergedFunction",
               X |-> "DynamicallyReplaceableFunctionVar", x |-> "DynamicallyReplaceableFunctionKey",
               I |-> "DynamicallyReplaceableFunctionImpl"]
Forwarders == {"PartialApplyForwarder", "PartialApplyObjCForwarder"}
FunctionAttrs == Range(Attributes) \cup Range(Specializations) \cup Range(Partials)
                     \cup {"FunctionSignatureSpecialization", "OutlinedVariable"}

\* What follows a variable or a subscript: itself or one of its accessors.
Accessors == {<<<<"m">>, "MaterializeForSet">>, <<<<"s">>, "Setter">>, <<<<"g">>, "Getter">>,
              <<<<"G">>, "GlobalGetter">>, <<<<"w">>, "WillSet">>, <<<<"W">>, "DidSet">>,
              <<<<"r">>, "ReadAccessor">>, <<<<"M">>, "ModifyAccessor">>,
              <<<<"a", "O">>, "OwningMutableAddressor">>, <<<<"a", "o">>, "NativeOwningMutableAddressor">>,
              <<<<"a", "P">>, "NativePinningMutableAddressor">>, <<<<"a", "u">>, "UnsafeMutableAddressor">>,
              <<<<"l", "O">>, "OwningAddressor">>, <<<<"l", "o">>, "NativeOwningAddressor">>,
              <<<<"l", "p">>, "NativePinningAddressor">>, <<<<"l", "u">>, "UnsafeAddressor">>}
AccessorKinds == {a[2] : a \in Accessors}

\* Behind f: what has no more than a context, a type, a type and a number, or a number.
PlainEntities == [D |-> "Deallocator", d |-> "Destructor", E |-> "IVarDestroyer", e |-> "IVarInitializer",
                  i |-> "Initializer"]
Constructors == [C |-> "Allocator", c |-> "Constructor"]
Closures == [U |-> "ExplicitClosure", u |-> "ImplicitClosure"]
FunctionTypes == {<<<<"c">>, "FunctionType">>, <<<<"X", "E">>, "NoEscapeFunctionType">>,
                  <<<<"X", "A">>, "EscapingAutoClosureType">>, <<<<"X", "f">>, "ThinFunctionType">>,
                  <<<<"X", "K">>, "AutoClosureType">>, <<<<"X", "U">>, "UncurriedFunctionType">>,
                  <<<<"X", "B">>, "ObjCBlock">>, <<<<"X", "C">>, "CFunctionPointer">>}

Contexts == Nominals \cup AccessorKinds \cup Range(PlainEntities) \cup Range(Constructors) \cup Range(Closures)
    \cup {"AnonymousContext", "DefaultArgumentInitializer", "Extension", "Function", "Module", "Static",
          "Subscript", "Variable"}

-----------------------------------------------------------------------------
(* Operators that take some nodes off the stack and make one with these as its        *)
(* children, each by how it is taken; the last child is taken first.               *)

Row(op, kind, takes) == [op |-> op, kind |-> kind, takes |-> takes, typed |-> FALSE]
Typed(op, kind, takes) == [Row(op, kind, takes) EXCEPT !.typed = TRUE]

PlainRows ==
    {Row(<<"K">>, "ThrowsAnnotation", <<>>), Row(<<"d">>, "VariadicMarker", <<>>),
     Row(<<"y">>, "EmptyList", <<>>), Row(<<"_">>, "FirstElementMarker", <<>>),
     Row(<<"N">>, "TypeMetadata", <<"Type">>), Row(<<"Z">>, "Static", <<"entity">>),
     Typed(<<"h">>, "Shared", <<"child">>), Typed(<<"n">>, "Owned", <<"child">>),
     Typed(<<"z">>, "InOut", <<"child">>), Typed(<<"m">>, "Metatype", <<"Type">>),
     Typed(<<"p">>, "ProtocolList", <<"protocols">>),
     Row(<<"H", "C">>, "ConcreteProtocolConformance", <<"Type", "conformanceRef", "conformances">>),
     Row(<<"H", "P">>, "ProtocolConformanceRefInTypeModule", <<"protocol">>),
     Row(<<"H", "p">>, "ProtocolConformanceRefInProtocolModule", <<"protocol">>)}

MetatypeRows ==
    {Row(<<"M", r[1]>>, r[2], <<r[3]>>) : r \in {
        <<"c", "ProtocolConformanceDescriptor", "conformance">>, <<"f", "FullTypeMetadata", "Type">>,
        <<"P", "GenericTypeMetadataPattern", "Type">>, <<"a", "TypeMetadataAccessFunction", "Type">>,
        <<"I", "TypeMetadataInstantiationCache", "Type">>, <<"i", "TypeMetadataInstantiationFunction", "Type">>,
        <<"r", "TypeMetadataCompletionFunction", "Type">>,
        <<"l", "TypeMetadataSingletonInitializationCache", "Type">>, <<"L", "TypeMetadataLazyCache", "Type">>,
        <<"m", "Metaclass", "Type">>, <<"n", "NominalTypeDescriptor", "Type">>,
        <<"o", "ClassMetadataBaseOffset", "Type">>, <<"p", "ProtocolDescriptor", "protocol">>,
        <<"S", "ProtocolSelfConformanceDescriptor", "protocol">>, <<"u", "MethodLookupFunction", "Type">>,
        <<"U", "ObjCMetadataUpdateFunction", "Type">>, <<"B", "ReflectionMetadataBuiltinDescriptor", "Type">>,
        <<"F", "ReflectionMetadataFieldDescriptor", "Type">>,
        <<"A", "ReflectionMetadataAssocTypeDescriptor", "conformance">>,
        <<"C", "ReflectionMetadataSuperclassDescriptor", "generic">>, <<"V", "PropertyDescriptor", "entity">>}}

PrivateRows ==
    {Row(<<"M", "X", "E">>, "ExtensionDescriptor", <<"context">>),
     Row(<<"M", "X", "M">>, "ModuleDescriptor", <<"module">>),
     Row(<<"M", "X", "Y">>, "AnonymousDescriptor", <<"context", "any">>),
     Row(<<"M", "X", "X">>, "AnonymousDescriptor", <<"context">>),
     Row(<<"M", "X", "A">>, "AssociatedTypeGenericParamRef", <<"Type", "path">>)}

ThunkRows ==
    {Row(<<"T", c>>, Attributes[c], <<>>) : c \in DOMAIN Attributes}
    \cup {Row(<<"T", "c">>, "CurryThunk", <<"entity">>), Row(<<"T", "j">>, "DispatchThunk", <<"entity">>),
          Row(<<"T", "q">>, "MethodDescriptor", <<"entity">>),
          Row(<<"T", "C">>, "CoroutineContinuationPrototype", <<"Type">>),
          Row(<<"T", "V">>, "VTableThunk", <<"entity", "entity">>),
          Row(<<"T", "W">>, "ProtocolWitness", <<"conformance", "entity">>),
          Row(<<"T", "S">>, "ProtocolSelfConformanceWitness", <<"entity">>),
          Row(<<"T", "l">>, "AssociatedTypeDescriptor", <<"assoc">>),
          Row(<<"T", "L">>, "ProtocolRequirementsBaseDescriptor", <<"protocol">>),
          Row(<<"T", "M">>, "DefaultAssociatedTypeMetadataAccessor", <<"assoc">>),
          Row(<<"T", "n">>, "AssociatedConformanceDescriptor", <<"Type", "path", "protocol">>),
          Row(<<"T", "N">>, "DefaultAssociatedConformanceAccessor", <<"Type", "path", "protocol">>),
          Row(<<"T", "b">>, "BaseConformanceDescriptor", <<"Type", "protocol">>)}

\* Behind WO: they may have a signature as well.
Outlined == [y |-> "Copy", e |-> "Consume", r |-> "Retain", s |-> "Release", b |-> "InitializeWithTake",
             c |-> "InitializeWithCopy", d |-> "AssignWithTake", f |-> "AssignWithCopy", h |-> "Destroy"]
WitnessRows ==
    {Row(<<"W", r[1]>>, r[2], r[3]) : r \in {
        <<"C", "EnumCase", <<"entity">>>>, <<"V", "ValueWitnessTable", <<"Type">>>>,
        <<"S", "ProtocolSelfConformanceWitnessTable", <<"protocol">>>>,
        <<"P", "ProtocolWitnessTable", <<"conformance">>>>,
        <<"p", "ProtocolWitnessTablePattern", <<"conformance">>>>,
        <<"G", "GenericProtocolWitnessTable", <<"conformance">>>>,
        <<"I", "GenericProtocolWitnessTableInstantiationFunction", <<"conformance">>>>,
        <<"r", "ResilientProtocolWitnessTable", <<"conformance">>>>,
        <<"l", "LazyProtocolWitnessTableAccessor", <<"Type", "conformance">>>>,
        <<"L", "LazyProtocolWitnessTableCacheVariable", <<"Type", "conformance">>>>,
        <<"a", "ProtocolWitnessTableAccessor", <<"conformance">>>>,
        <<"t", "AssociatedTypeMetadataAccessor", <<"conformance", "name">>>>,
        <<"T", "AssociatedTypeWitnessTableAccessor", <<"conformance", "path", "Type">>>>,
        <<"b", "BaseWitnessTableAccessor", <<"conformance", "Type">>>>}}

\* References that are not owned: what the compiler means by Xo, Xu and Xw, all of
\* which this demangler reads as an owned one.
ReferenceStorage == [o |-> "Unowned", u |-> "Unmanaged", w |-> "Weak"]
StorageRow(c, kind) == Typed(<<"X", c>>, kind, <<"Type">>)
SpecialRows ==
    {StorageRow(c, "Owned") : c \in DOMAIN ReferenceStorage}
    \cup {Typed(<<"X", "b">>, "SILBoxType", <<"Type">>), Typed(<<"X", "D">>, "DynamicSelf", <<"Type">>),
          Typed(<<"X", "c">>, "ProtocolListWithClass", <<"protocolList", "Type">>),
          Typed(<<"X", "l">>, "ProtocolListWithAnyObject", <<"protocolList">>),
          Typed(<<"X", "p">>, "ExistentialMetatype", <<"Type">>), Typed(<<"X", "e">>, "ErrorType", <<>>),
          Typed(<<"X", "S", "q">>, "SugaredOptional", <<"Type">>), Typed(<<"X", "S", "a">>, "SugaredArray", <<"Type">>),
          Typed(<<"X", "S", "D">>, "SugaredDictionary", <<"Type", "Type">>),
          Typed(<<"X", "S", "p">>, "SugaredParen", <<"Type">>)}

\* The letters of a requirement: that of a generic parameter, of an associated type
\* of one, of one of such a type, and of a type that was written before.
Constraints == [protocol |-> <<"", "p", "P", "Q">>, base |-> <<"b", "c", "C", "B">>,
                same |-> <<"s", "t", "T", "S">>, layout |-> <<"l", "m", "M", "L">>]

\* Those of functions as the compiler's intermediate language has them.
CalleeConventions == [y |-> "@callee_unowned", g |-> "@callee_guaranteed", x |-> "@callee_owned",
                      t |-> "@convention(thin)"]
ImplAttributes == [B |-> "@convention(block)", C |-> "@convention(c)", M |-> "@convention(method)",
                   O |-> "@convention(objc_method)", K |-> "@convention(closure)",
                   W |-> "@convention(witness_method)"]
ParamConventions == [i |-> "@in", c |-> "@in_constant", l |-> "@inout", b |-> "@inout_aliasable",
                     n |-> "@in_guaranteed", x |-> "@owned", g |-> "@guaranteed", e |-> "@deallocating",
                     y |-> "@unowned"]
ResultConventions == [r |-> "@out", o |-> "@owned", d |-> "@unowned", u |-> "@unowned_inner_pointer",
                      a |-> "@autoreleased"]

\* What became of a parameter in a specialization; and that one has more than one fate.
SpecKinds == {<<<<"p", "f">>, 0>>, <<<<"p", "g">>, 1>>, <<<<"p", "i">>, 2>>, <<<<"p", "d">>, 3>>,
              <<<<"p", "s">>, 4>>, <<<<"c">>, 5>>, <<<<"i">>, 6>>, <<<<"s">>, 7>>, <<<<"x">>, 256>>}
SpecOptions == [e |-> <<1024, <<"D", "G", "O", "X">>>>, d |-> <<64, <<"G", "O", "X">>>>,
                g |-> <<128, <<"X">>>>, o |-> <<512, <<"X">>>>]
OptionBits == [D |-> 64, G |-> 128, X |-> 256, O |-> 512]
Encodings == [b |-> "u8", w |-> "u16", c |-> "objc"]

\* Metatypes with a representation, and types the compiler knows, without the prefix
\* (Builtin.) of their names.
Representations == [t |-> "@thin", T |-> "@thick", o |-> "@objc_metatype"]
Builtins == [b |-> "BridgeObject", B |-> "UnsafeValueBuffer", I |-> "IntLiteral", O |-> "UnknownObject",
             o |-> "NativeObject", p |-> "RawPointer", t |-> "SILToken", w |-> "Word"]
SizedBuiltins == [f |-> "FPIEEE", i |-> "Int"]

\* The operators as this demangler reads them, and as the compiler writes them.
Rows == PlainRows \cup MetatypeRows \cup PrivateRows \cup ThunkRows \cup WitnessRows \cup SpecialRows
CompilerRows == {row \in Rows : ~\E c \in DOMAIN ReferenceStorage : row.op = <<"X", c>>}
                    \cup {StorageRow(c, ReferenceStorage[c]) : c \in DOMAIN ReferenceStorage}
=============================================================================
