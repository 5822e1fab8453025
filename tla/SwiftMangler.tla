--------------------------- MODULE SwiftMangler ---------------------------
(***************************************************************************)
(* How the compiler writes the tree of a symbol, external to this code.             *)
(***************************************************************************)
EXTENDS SwiftGrammar

Op(tokens) == [i \in DOMAIN tokens |-> Leaf("op", tokens[i])]
LetterOf(table, text) == CHOOSE c \in DOMAIN table : table[c] = text
Number(text) == CHOOSE n \in 0 .. 9 : Numeral(n) = text

Listed(nodes) == IF nodes = <<>> THEN Op(<<"y">>) ELSE <<Head(nodes)>> \o Op(<<"_">>) \o Tail(nodes)
Kids(node, kinds) == SelectSeq(node.kids, LAMBDA kid : kid.kind \in kinds)
IsType(kid) == kid.kind = "Type"
Types(node) == SelectSeq(node.kids, IsType)

\* A protocol without its operator, where nothing else can stand.
Bare(protocol) == Node("bare", "", <<protocol>>)
Bares(protocols) == [i \in DOMAIN protocols |-> Bare(protocols[i])]

\* A generic parameter: by its depth and number, or by a letter if it is the first one.
ParamOp(param, prefix, first) ==
    LET depth == Number(param.kids[1].text)
        index == Number(param.kids[2].text)
    IN IF depth > 0 THEN prefix \o <<"d", Numeral(depth - 1), Numeral(index)>>
       ELSE IF index > 0 THEN Append(prefix, Numeral(index - 1)) ELSE first

\* The names of a type that is associated with one that may be one itself.
RECURSIVE Chain(_), Base(_)
Chain(node) == IF node.kind # "DependentMemberType" THEN <<>> ELSE Append(Chain(node.kids[1].kids[1]), node.kids[2])
Base(node) == IF node.kind # "DependentMemberType" THEN node ELSE Base(node.kids[1].kids[1])
ChainParts(names) == IF Len(names) = 1 THEN names ELSE Listed(names)

-----------------------------------------------------------------------------
(* A type with arguments: without them, and then those of each type it is in.       *)

BoundKinds == {"BoundGeneric" \o kind : kind \in Nominals \cup {"Function"}}
Inner(node) == CASE node.kind = "BoundGenericFunction" -> node.kids[1]
                 [] node.kind \in BoundKinds -> node.kids[1].kids[1]
                 [] OTHER -> node

\* Declarations that have no arguments of their own, but are in something that has.
NoArguments == {"Variable", "Subscript", "ImplicitClosure", "ExplicitClosure", "DefaultArgumentInitializer", "Initializer"}

RECURSIVE Levels(_), Unbound(_), HasArguments(_)
Levels(node) ==
    CASE node.kind = "Module" -> <<>>
      [] node.kind = "Extension" -> Levels(node.kids[2])
      [] node.kind \in NoArguments -> Levels(node.kids[1])
      [] OTHER -> Append(Levels(Inner(node).kids[1]), IF node.kind \in BoundKinds THEN node.kids[2].kids ELSE <<>>)
Unbound(node) ==
    CASE node.kind = "Module" -> node
      [] node.kind = "Extension" -> [node EXCEPT !.kids[2] = Unbound(@)]
      [] OTHER -> [Inner(node) EXCEPT !.kids[1] = Unbound(@)]
HasArguments(node) ==
    \/ node.kind \in BoundKinds
    \/ node.kind \in Nominals \cup NoArguments /\ HasArguments(node.kids[1])
    \/ node.kind = "Extension" /\ HasArguments(node.kids[2])

Separated(levels) ==
    FlattenSeq([i \in DOMAIN levels |-> Op(<<IF i = 1 THEN "y" ELSE "_">>) \o levels[i]])
BoundParts(node) ==
    <<Unbound(node)>> \o Separated(Levels(node))
        \o (IF node.kind \in BoundKinds /\ Len(node.kids) = 3 THEN node.kids[3].kids ELSE <<>>)

-----------------------------------------------------------------------------
(* Functions of the intermediate language, and specializations.                  *)

ImplLetters(node) ==
    [i \in DOMAIN node.kids |->
        LET kid == node.kids[i]
        IN CASE kid.kind = "DependentPseudogenericSignature" -> <<>>
             [] kid.kind = "DependentGenericSignature" -> <<>>
             [] kid.kind = "ImplEscaping" -> <<"e">>
             [] kid.kind = "ImplConvention" -> <<LetterOf(CalleeConventions, kid.text)>>
             [] kid.kind = "ImplFunctionAttribute" -> <<LetterOf(ImplAttributes, kid.text)>>
             [] kid.kind = "ImplParameter" -> <<LetterOf(ParamConventions, kid.kids[1].text)>>
             [] kid.kind = "ImplResult" -> <<LetterOf(ResultConventions, kid.kids[1].text)>>
             [] kid.kind = "ImplErrorResult" -> <<"z", LetterOf(ResultConventions, kid.kids[1].text)>>]
ImplParts(node) ==
    LET converted == Kids(node, {"ImplParameter", "ImplResult", "ImplErrorResult"})
        pseudo == Kids(node, {"DependentPseudogenericSignature"})
    IN [i \in DOMAIN converted |-> converted[i].kids[2]] \o Kids(node, {"DependentGenericSignature"})
          \o [i \in DOMAIN pseudo |-> ChangeKind(pseudo[i], "DependentGenericSignature")]
          \o Op(<<"I">> \o (IF pseudo = <<>> THEN <<>> ELSE <<"P">>) \o FlattenSeq(ImplLetters(node)) \o <<"_">>)

SpecOps(node, op) == op \o (IF Kids(node, {"IsSerialized"}) = <<>> THEN <<>> ELSE <<"q">>)
                        \o [i \in DOMAIN Kids(node, {"SpecializationPassID"}) |-> Kids(node, {"SpecializationPassID"})[i].text]
ParamTypes(node) ==
    LET params == Kids(node, {"GenericSpecializationParam"})
    IN [i \in DOMAIN params |-> params[i].kids[1]]

\* The letters of a parameter, and its name and types, which are written before.
Words == UNION {{<<c>> \o SelectSeq(SpecOptions[c][2], LAMBDA x : x \in chosen) :
                    chosen \in SUBSET Range(SpecOptions[c][2])} : c \in DOMAIN SpecOptions}
WordValue(word) == SpecOptions[word[1]][1] + FoldLeft(LAMBDA sum, x : sum + OptionBits[x], 0, Tail(word))
SpecLetters(param) ==
    LET value == param.kids[1].text
        plain == {k[1] : k \in {k \in SpecKinds : Numeral(k[2]) = value}}
        letters == IF plain # {} THEN CHOOSE k \in plain : TRUE ELSE CHOOSE w \in Words : Numeral(WordValue(w)) = value
    IN IF param.kids = <<>> THEN <<"n">>
       ELSE letters \o (CASE value \in {Numeral(2), Numeral(3)} -> <<param.kids[2].text>>
                          [] value = Numeral(4) -> <<LetterOf(Encodings, param.kids[2].text)>>
                          [] OTHER -> <<>>)
Payload(param) ==
    LET value == param.kids[1].text
        from == IF value = Numeral(4) THEN 3 ELSE 2
    IN IF param.kids = <<>> \/ value \notin {Numeral(n) : n \in {0, 1, 4, 5}} THEN <<>>
       ELSE <<Leaf("Identifier", param.kids[from].text)>> \o SubSeq(param.kids, from + 1, Len(param.kids))
FunctionSpecParts(node) ==
    LET params == Kids(node, {"FunctionSignatureSpecializationParam"})
        IsResult(i) == params[i].text = "result"
        Letters(i) == (IF IsResult(i) THEN <<"_">> ELSE <<>>) \o SpecLetters(params[i])
        end == IF params # <<>> /\ IsResult(Len(params)) THEN <<>> ELSE <<"_", "n">>
    IN FlattenSeq([i \in DOMAIN params |-> Payload(params[i])])
          \o Op(SpecOps(node, <<"T", "f">>) \o FlattenSeq([i \in DOMAIN params |-> Letters(i)]) \o end)

-----------------------------------------------------------------------------
(* What a node is written as: other nodes and operators.                         *)

Counts(node) ==
    LET counts == Kids(node, {"DependentGenericParamCount"})
        Count(i) == IF counts[i].text = Numeral(0) THEN "z" ELSE Numeral(Number(counts[i].text) - 1)
    IN IF Len(counts) = 1 /\ counts[1].text = Numeral(1) THEN <<"l">>
       ELSE <<"r">> \o [i \in DOMAIN counts |-> Count(i)] \o <<"l">>

\* A symbol: what it is of, and then what was made of it, the last of it first.
AttributeParts(node) ==
    LET IsAttribute(kid) == kid.kind \in FunctionAttrs
    IN SelectSeq(node.kids, LAMBDA kid : ~IsAttribute(kid)) \o Reverse(SelectSeq(node.kids, IsAttribute))

RowPart(how, kid) ==
    CASE how = "protocol" -> <<Bare(kid)>>
      [] how = "protocols" -> Listed(Bares(kid.kids))
      [] how = "protocolList" -> Listed(Bares(kid.kids[1].kids))
      [] OTHER -> <<kid>>
RowParts(row, node) == FlattenSeq([i \in DOMAIN node.kids |-> RowPart(row.takes[i], node.kids[i])]) \o Op(row.op)
PathParts(node) == <<Head(node.kids)>> \o Op(<<"_">>) \o Tail(node.kids)

StorageParts(node) == node.kids \o Op(<<IF node.kind = "Variable" THEN "v" ELSE "i">>)

\* A type of the compiler: by its letter, its letter and size, or as so many of another.
BuiltinParts(text) ==
    LET sized == {<<c, n>> \in (DOMAIN SizedBuiltins) \X (1 .. 8) : SizedBuiltins[c] \o ToString(n) = text}
        size == CHOOSE s \in sized : TRUE
        vector == CHOOSE <<n, of>> \in (1 .. 8) \X (Range(Builtins) \cup {"Int8"}) : "Vec" \o ToString(n) \o "x" \o of = text
    IN CASE text \in Range(Builtins) -> Op(<<"B", LetterOf(Builtins, text)>>)
         [] sized # {} -> Op(<<"B", size[1], Numeral(size[2] + 1)>>)
         [] OTHER -> <<Leaf("BuiltinTypeName", vector[2])>> \o Op(<<"B", "v", Numeral(vector[1] + 1)>>)

TypeParts(node) ==
    LET kids == node.kids
        kind == node.kind
        functions == {f \in FunctionTypes : f[2] = kind}
        fields == IF kind # "SILBoxTypeWithLayout" THEN <<>> ELSE
            [i \in DOMAIN kids[1].kids |->
                LET field == kids[1].kids[i]
                IN IF field.kind = "SILBoxMutableField" THEN Make("InOut", <<field.kids[1].kids[1]>>) ELSE field.kids[1]]
    IN CASE functions # {} -> Reverse(kids) \o Op((CHOOSE f \in functions : TRUE)[1])
         [] kind \in {"ArgumentTuple", "ReturnType"} -> IF kids = <<EmptyTuple>> THEN Op(<<"y">>) ELSE kids
         [] kind = "Tuple" -> Listed(kids) \o Op(<<"t">>)
         [] kind = "TupleElement" -> Reverse(kids)
         [] kind \in {"TypeList", "AnyProtocolConformanceList"} -> Listed(kids)
         [] kind \in {"Metatype", "ExistentialMetatype"} ->
                Tail(kids) \o Op(<<"X", IF kind = "Metatype" THEN "M" ELSE "m", LetterOf(Representations, kids[1].text)>>)
         [] kind = "DependentGenericType" -> Reverse(kids) \o Op(<<"u">>)
         [] kind = "DependentGenericSignature" -> Kids(node, Requirements) \o Op(Counts(node))
         [] kind = "DependentGenericParamType" -> Op(ParamOp(node, <<"q">>, <<"x">>))
         [] kind = "ImplFunctionType" -> ImplParts(node)
         [] kind = "BuiltinTypeName" -> BuiltinParts(node.text)
         [] kind = "SILBoxTypeWithLayout" ->
                Listed(fields) \o (IF Len(kids) = 1 THEN Op(<<"X", "x">>) ELSE <<kids[3], kids[2]>> \o Op(<<"X", "X">>))

\* Where a function is declared, its name, labels and parameters, and its signature.
FunctionParts(node) ==
    LET type == Last(node.kids).kids[1]
        function == IF type.kind = "DependentGenericType" THEN type.kids[2].kids[1] ELSE type
    IN Front(node.kids) \o Reverse(function.kids)
          \o (IF type.kind = "DependentGenericType" THEN <<type.kids[1]>> ELSE <<>>) \o Op(<<"F">>)
ConformanceParts(node) ==
    LET generic == node.kids[1].kids[1]
        type == IF generic.kind = "DependentGenericType" THEN generic.kids[2] ELSE node.kids[1]
        signature == IF generic.kind = "DependentGenericType" THEN <<generic.kids[1]>> ELSE <<>>
    IN <<type>> \o Kids(node, {"Identifier"}) \o <<Bare(node.kids[2]), node.kids[3]>> \o signature

DeclParts(node) ==
    LET kids == node.kids
        kind == node.kind
        accessors == {a \in Accessors : a[2] = kind}
    IN CASE accessors # {} -> StorageParts(kids[1]) \o Op((CHOOSE a \in accessors : TRUE)[1])
         [] kind \in {"Variable", "Subscript"} -> StorageParts(node) \o Op(<<"p">>)
         [] kind = "Function" -> FunctionParts(node)
         [] kind = "GenericTypeParamDecl" -> kids \o Op(<<"f", "p">>)
         [] kind \in Range(PlainEntities) -> kids \o Op(<<"f", LetterOf(PlainEntities, kind)>>)
         [] kind \in Range(Constructors) -> kids \o Op(<<"f", LetterOf(Constructors, kind)>>)
         [] kind \in Range(Closures) -> <<kids[1], kids[3]>> \o Op(<<"f", LetterOf(Closures, kind), kids[2].text>>)
         [] kind = "DefaultArgumentInitializer" -> <<kids[1]>> \o Op(<<"f", "A", kids[2].text>>)
         [] kind = "Extension" -> <<kids[2], kids[1]>> \o Kids(node, {"DependentGenericSignature"}) \o Op(<<"E">>)
         [] kind = "AnonymousContext" -> <<kids[2], kids[1], kids[3]>> \o Op(<<"X", "Z">>)
         [] kind = "LabelList" -> IF kids = <<>> THEN Op(<<"y">>) ELSE kids
         [] kind = "LocalDeclName" -> <<kids[2]>> \o Op(<<"L", kids[1].text>>)
         [] kind = "PrivateDeclName" -> Reverse(kids) \o Op(<<"L", IF Len(kids) = 2 THEN "L" ELSE "l">>)
         [] kind = "RelatedEntityDeclName" -> kids \o Op(<<"L", node.text>>)
         [] kind = "AssocTypePath" -> PathParts(node)

AfterText(node) == Numeral(IF node.text = "" THEN 0 ELSE Number(node.text) + 1)

\* Conformances, and what the linker finds in a symbol.
SymbolParts(node) ==
    LET kids == node.kids
        kind == node.kind
        serialized == IF Kids(node, {"IsSerialized"}) = <<>> THEN <<>> ELSE <<"q">>
        keyPaths == [K |-> "KeyPathGetterThunkHelper", k |-> "KeyPathSetterThunkHelper",
                     H |-> "KeyPathEqualsThunkHelper", h |-> "KeyPathHashThunkHelper"]
    IN CASE kind \in {"Global"} -> AttributeParts(node)
         [] kind \in Forwarders -> AttributeParts(node) \o Op(<<"T", LetterOf(Attributes, kind)>>)
         [] kind = "TypeMangling" -> kids \o Op(<<"D">>)
         [] kind = "ProtocolConformance" -> ConformanceParts(node)
         [] kind = "ProtocolConformanceRefInOtherModule" -> <<Bare(kids[1]), kids[2]>>
         [] kind = "DependentProtocolConformanceRoot" -> <<kids[2], Bare(kids[1])>> \o Op(<<"H", "D", AfterText(node)>>)
         [] kind = "DependentProtocolConformanceInherited" -> <<kids[1], Bare(kids[2])>> \o Op(<<"H", "I", AfterText(node)>>)
         [] kind = "RetroactiveConformance" -> kids \o Op(<<"g", node.text>>)
         [] kind \in {"ReabstractionThunk", "ReabstractionThunkHelper"} ->
                Types(node) \o Kids(node, {"DependentGenericSignature"})
                    \o Op(<<"T", IF kind = "ReabstractionThunk" THEN "r" ELSE "R">>)
         [] kind \in Range(Specializations) ->
                Listed(ParamTypes(node)) \o Op(SpecOps(node, <<"T", LetterOf(Specializations, kind)>>))
         [] kind \in Range(Partials) -> ParamTypes(node) \o Op(SpecOps(node, <<"T", LetterOf(Partials, kind)>>))
         [] kind = "FunctionSignatureSpecialization" -> FunctionSpecParts(node)
         [] kind = "OutlinedVariable" -> Op(<<"T", "v", node.text>>)
         [] kind \in Range(keyPaths) ->
                SelectSeq(kids, LAMBDA kid : kid.kind # "IsSerialized") \o Op(<<"T", LetterOf(keyPaths, kind)>> \o serialized)
         [] kind = "FieldOffset" -> <<kids[2]>> \o Op(<<"W", "v", IF kids[1].text = Numeral(0) THEN "d" ELSE "i">>)
         [] kind \in {"Outlined" \o Outlined[c] : c \in DOMAIN Outlined} ->
                kids \o Op(<<"W", "O", CHOOSE c \in DOMAIN Outlined : "Outlined" \o Outlined[c] = kind>>)

TypeKinds == {f[2] : f \in FunctionTypes}
    \cup {"ArgumentTuple", "ReturnType", "Tuple", "TupleElement", "TypeList", "AnyProtocolConformanceList",
          "Metatype", "ExistentialMetatype",
          "DependentGenericType", "DependentGenericSignature", "DependentGenericParamType", "ImplFunctionType",
          "BuiltinTypeName", "SILBoxTypeWithLayout"}
DeclKinds == AccessorKinds \cup Range(PlainEntities) \cup Range(Constructors) \cup Range(Closures)
    \cup {"Variable", "Subscript", "Function", "GenericTypeParamDecl", "DefaultArgumentInitializer", "Extension",
          "AnonymousContext", "LabelList", "LocalDeclName", "PrivateDeclName", "RelatedEntityDeclName", "AssocTypePath"}

NominalOps == [Class |-> <<"C">>, Enum |-> <<"O">>, Protocol |-> <<"P">>, Structure |-> <<"V">>,
               TypeAlias |-> <<"a">>, OtherNominalType |-> <<"X", "Y">>]

Parts(node) ==
    LET Fits(row, i) == row.takes[i] \in {"child", "Type"} => (row.takes[i] = "Type") = IsType(node.kids[i])
        rows == {row \in CompilerRows : row.kind = node.kind /\ Len(row.takes) = Len(node.kids) /\ \A i \in DOMAIN row.takes : Fits(row, i)}
    IN CASE node.kind = "bare" -> node.kids[1].kids[1].kids
         [] node.kind = "Type" -> node.kids
         [] node.kind = "DependentAssociatedTypeRef" -> <<Leaf("Identifier", node.text)>> \o node.kids
         [] node.kind \in BoundKinds /\ node.kids[1] = Optional -> node.kids[2].kids \o Op(<<"S", "g">>)
         [] node.kind \in BoundKinds \cup Nominals /\ HasArguments(node) -> BoundParts(node) \o Op(<<"G">>)
         [] node.kind \in Nominals -> node.kids \o Op(NominalOps[node.kind])
         [] node.kind = "AssociatedTypeRef" -> node.kids \o Op(<<"Q", "a">>)
         [] rows # {} -> RowParts(CHOOSE row \in rows : TRUE, node)
         [] node.kind \in TypeKinds -> TypeParts(node)
         [] node.kind \in DeclKinds -> DeclParts(node)
         [] OTHER -> SymbolParts(node)

-----------------------------------------------------------------------------
(* The text so far, and what was written that has a number: names and types.        *)

Say(w, tokens) == [w EXCEPT !.text = @ \o tokens]
Remember(w, node) == [w EXCEPT !.known = Append(@, node)]
Repeat(w, node) == Say(w, <<"A", Numeral(SelectInSeq(w.known, LAMBDA k : k = node) - 1)>>)
Numbered == Nominals \cup BoundKinds \cup {"AssociatedTypeRef"}
NameKinds == {"Identifier", "Module", "TupleElementName"}

RECURSIVE Write(_, _)
WriteAll(w, nodes) == FoldLeft(LAMBDA so, node : Write(so, node), w, nodes)

WriteName(w, name) ==
    IF Leaf("Identifier", name) \in Range(w.known) THEN Repeat(w, Leaf("Identifier", name))
    ELSE Remember(Say(w, <<name>>), Leaf("Identifier", name))

\* An associated type behind its names.
WriteMember(w, node) ==
    LET one == Len(Chain(node)) = 1
        named == Remember(WriteAll(w, ChainParts(Chain(node))), node)
        letters == IF one THEN <<"y", "z">> ELSE <<"Y", "Z">>
    IN IF node \in Range(w.known) THEN Repeat(w, node)
       ELSE Say(named, ParamOp(Base(node), <<"Q", letters[1]>>, <<"Q", letters[2]>>))

\* A requirement: what is required, of which type, and the layout.
ConstraintOf(node) ==
    CASE node.kind = "DependentGenericLayoutRequirement" -> "layout"
      [] node.kind = "DependentGenericSameTypeRequirement" -> "same"
      [] node.kids[2].kids[1].kind = "Protocol" -> "protocol"
      [] OTHER -> "base"
WriteRequirement(w, node) ==
    LET constraint == ConstraintOf(node)
        type == node.kids[1].kids[1]
        before == CASE constraint = "layout" -> w
                    [] constraint = "protocol" -> Write(w, Bare(node.kids[2]))
                    [] OTHER -> Write(w, node.kids[2])
        how == CASE Chain(type) = <<>> -> 1
                 [] type \in Range(before.known) -> 4
                 [] OTHER -> IF Len(Chain(type)) = 1 THEN 2 ELSE 3
        letter == Constraints[constraint][how]
        op == <<"R">> \o (IF letter = "" THEN <<>> ELSE <<letter>>)
        named == Remember(WriteAll(before, ChainParts(Chain(type))), type)
        written == CASE how = 4 -> Say(Repeat(before, type), op)
                     [] how = 1 -> Say(before, ParamOp(type, op, Append(op, "z")))
                     [] OTHER -> Say(named, ParamOp(Base(type), op, Append(op, "z")))
    IN IF constraint = "layout" THEN Say(written, [i \in 1 .. Len(node.kids) - 1 |-> node.kids[i + 1].text])
       ELSE written

Write(w, node) ==
    CASE node.kind = "op" -> Say(w, <<node.text>>)
      [] node.kind = "Module" /\ node.text = "Swift" -> Say(w, <<"s">>)
      [] node.kind \in NameKinds -> WriteName(w, node.text)
      [] node = SwiftType("Structure", "Int").kids[1] -> Say(w, <<"S", "i">>)
      [] node.kind = "DependentMemberType" -> WriteMember(w, node)
      [] node.kind \in Requirements -> WriteRequirement(w, node)
      [] node.kind \in Numbered /\ node \in Range(w.known) -> Repeat(w, node)
      [] node.kind \in Numbered -> Remember(WriteAll(w, Parts(node)), node)
      [] OTHER -> WriteAll(w, Parts(node))

Mangle(symbol) == Write([text |-> <<>>, known |-> <<>>], symbol)
=============================================================================
