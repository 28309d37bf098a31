------------------------------- MODULE Executor -------------------------------
(***************************************************************************)
(* How generated.go turns what the resolvers return into an answer: one    *)
(* marshaller per type and one per field, which report a null where the    *)
(* schema allows none and let it swallow the value around it.              *)
(***************************************************************************)
EXTENDS Schema, Naturals, FiniteSets, SequencesExt

\* An answer: its kind, its type's name, its items, and whether an error was reported.
Answer(kind, type, items, failed) == [k |-> kind, t |-> type, v |-> items, e |-> failed]
Null(failed) == Answer("null", "", <<>>, failed)

\* A selected field: its name, its argument and what is selected of its value.
Sel(f, sub) == [f |-> f, arg |-> <<>>, sub |-> sub]
Sels(fields) == [i \in DOMAIN fields |-> Sel(fields[i], <<>>)]

-----------------------------------------------------------------------------
(* The marshaller each field is resolved with. *)

BoardFields ==
  [id |-> R(T("ID")), title |-> R(T("String")), objectCount |-> R(T("Int")),
   lastActiveAt |-> T("String"), createdAt |-> R(T("String"))]

MutationFields == [createBoard |-> R(T("Board")), deleteBoard |-> R(T("Boolean"))]

QueryFields ==
  [boards |-> R(L(R(T("Board")))), board |-> T("Board"), _entities |-> R(L(T("_Entity"))),
   _service |-> R(T("_Service"))]

MetaFields == [__type |-> T("__Type"), __schema |-> T("__Schema")]

ServiceFields == [sdl |-> T("String")]

DirectiveFields ==
  [name |-> R(T("String")), description |-> T("String"), isRepeatable |-> R(T("Boolean")),
   locations |-> R(L(R(T("__DirectiveLocation")))), args |-> R(L(R(T("__InputValue"))))]

EnumValueFields ==
  [name |-> R(T("String")), description |-> T("String"), isDeprecated |-> R(T("Boolean")),
   deprecationReason |-> T("String")]

FieldFields ==
  [name |-> R(T("String")), description |-> T("String"), args |-> R(L(R(T("__InputValue")))),
   type |-> R(T("__Type")), isDeprecated |-> R(T("Boolean")), deprecationReason |-> T("String")]

InputValueFields ==
  [name |-> R(T("String")), description |-> T("String"), type |-> R(T("__Type")),
   defaultValue |-> T("String"), isDeprecated |-> R(T("Boolean")), deprecationReason |-> T("String")]

SchemaFields ==
  [description |-> T("String"), types |-> R(L(R(T("__Type")))), queryType |-> R(T("__Type")),
   mutationType |-> T("__Type"), subscriptionType |-> T("__Type"),
   directives |-> R(L(R(T("__Directive"))))]

TypeScalarFields ==
  [kind |-> R(T("__TypeKind")), name |-> T("String"), description |-> T("String"),
   specifiedByURL |-> T("String")]

TypeListFields ==
  [fields |-> L(R(T("__Field"))), interfaces |-> L(R(T("__Type"))),
   possibleTypes |-> L(R(T("__Type"))), enumValues |-> L(R(T("__EnumValue"))),
   inputFields |-> L(R(T("__InputValue")))]

TypeRestFields == [ofType |-> T("__Type"), isOneOf |-> T("Boolean")]

-----------------------------------------------------------------------------
(* The fields whose null costs the object (out.Invalids). *)

BoardRequired == {"id", "title", "objectCount", "createdAt"}
MutationRequired == {"createBoard", "deleteBoard"}

\* Slip: the list of boards is taken for a nullable one.
QueryRequiredWithoutBoards == {"_entities", "_service"}

QueryRequired == {"boards", "_entities", "_service"}

ServiceRequired == {}
DirectiveRequired == {"name", "isRepeatable", "locations", "args"}
EnumValueRequired == {"name", "isDeprecated"}
FieldRequired == {"name", "args", "type", "isDeprecated"}
InputValueRequired == {"name", "type", "isDeprecated"}
SchemaRequired == {"types", "queryType", "directives"}
TypeRequired == {"kind"}

Fields(t) ==
  CASE t = "Board" -> BoardFields
    [] t = "Mutation" -> MutationFields
    [] t = "Query" -> QueryFields @@ MetaFields
    [] t = "_Service" -> ServiceFields
    [] t = "__Directive" -> DirectiveFields
    [] t = "__EnumValue" -> EnumValueFields
    [] t = "__Field" -> FieldFields
    [] t = "__InputValue" -> InputValueFields
    [] t = "__Schema" -> SchemaFields
    [] t = "__Type" -> TypeScalarFields @@ TypeListFields @@ TypeRestFields

Required(t) ==
  CASE t = "Board" -> BoardRequired
    [] t = "Mutation" -> MutationRequired
    [] t = "Query" -> QueryRequired
    [] t = "_Service" -> ServiceRequired
    [] t = "__Directive" -> DirectiveRequired
    [] t = "__EnumValue" -> EnumValueRequired
    [] t = "__Field" -> FieldRequired
    [] t = "__InputValue" -> InputValueRequired
    [] t = "__Schema" -> SchemaRequired
    [] t = "__Type" -> TypeRequired

-----------------------------------------------------------------------------
(* What an object's fields resolve to. *)

\* A board as the registry describes it: toBoard.
BoardGet(info, f) ==
  CASE f = "id" -> Scalar(info.id)
    [] f = "lastActiveAt" -> IF info.active THEN Scalar("time") ELSE Nil
    [] f = "objectCount" -> Scalar(info.count)
    [] OTHER -> Scalar(f)

\* The answers of gqlgen's introspection package, whose code is not here: what Schema declares.
\* An object's key is a type reference, a name and its type, or a name.
TypeGet(t, f) ==
  LET wraps == t[1] \in {"!", "[]"}
      of(kind) == ~wraps /\ Kind(t[1]) = kind
      objects(type, keys) == List([key \in keys |-> Object(type, key)])
  IN  CASE f = "kind" -> Scalar(IF t[1] = "!" THEN "NON_NULL" ELSE IF wraps THEN "LIST" ELSE Kind(t[1]))
        [] f = "name" -> IF wraps THEN Nil ELSE Scalar(t[1])
        [] f = "ofType" -> IF wraps THEN Object("__Type", Tail(t)) ELSE Nil
        [] f = "fields" -> objects("__Field", IF of("OBJECT")
                             THEN {<<t[1], g>> : g \in DOMAIN Declared[t[1]] \ {"__type", "__schema"}}
                             ELSE {})
        [] f = "possibleTypes" -> objects("__Type", IF of("UNION") THEN {T(u) : u \in PossibleTypes[t[1]]}
                                                                 ELSE {})
        [] f = "enumValues" -> objects("__EnumValue", IF of("ENUM") THEN {<<"value">>} ELSE {})
        [] f \in {"interfaces", "inputFields"} -> List(<<>>)
        [] f = "isOneOf" -> Scalar(FALSE)
        [] OTHER -> Nil

\* Arguments are <<name, type>> pairs.
Arguments(args) == List([a \in DOMAIN args |-> Object("__InputValue", <<a, args[a]>>)])

IntrospectionGet(t, key, f) ==
  CASE t = "__Type" -> TypeGet(key, f)
    [] f = "name" -> Scalar(IF t = "__Field" THEN key[2] ELSE key[1])
    [] f \in {"isDeprecated", "isRepeatable"} -> Scalar(FALSE)
    [] t = "__Field" /\ f = "args" -> Arguments(DeclaredArgs(key[1], key[2]))
    [] t = "__Field" /\ f = "type" -> Object("__Type", Declared[key[1]][key[2]])
    [] t = "__InputValue" /\ f = "type" -> Object("__Type", key[2])
    [] t = "__Directive" /\ f = "args" -> Arguments(DirectiveArgs[key[1]])
    [] t = "__Directive" /\ f = "locations" -> List(<<Scalar("OBJECT")>>)
    [] f = "types" -> List([u \in TypeNames |-> Object("__Type", T(u))])
    [] f = "queryType" -> Object("__Type", T("Query"))
    [] f = "mutationType" -> Object("__Type", T("Mutation"))
    [] f = "directives" -> List([d \in DOMAIN DirectiveArgs |-> Object("__Directive", <<d>>)])
    [] OTHER -> Nil

Get(t, key, f) ==
  CASE t = "Board" -> BoardGet(key, f)
    [] t = "_Service" -> Scalar("sdl")
    [] OTHER -> IntrospectionGet(t, key, f)

-----------------------------------------------------------------------------
(* The marshallers. *)

AnyFailed(answers) == \E i \in DOMAIN answers : answers[i].e
AnyNull(answers) == \E i \in DOMAIN answers : answers[i].k = "null"

RECURSIVE ResolveField(_, _, _), FieldSet(_, _, _)

\* An object: its fields, which the resolvers gave as raws; a required null costs all of it.
FieldSet(t, sel, raws) ==
  LET answers == [i \in DOMAIN sel |-> ResolveField(Fields(t)[sel[i].f], sel[i].sub, raws[i])]
      invalid == \E i \in DOMAIN sel : sel[i].f \in Required(t) /\ answers[i].k = "null"
  IN  IF invalid THEN Null(AnyFailed(answers))
      ELSE Answer("object", t, [i \in DOMAIN sel |-> [f |-> sel[i].f, a |-> answers[i]]],
                  AnyFailed(answers))

\* A value whose type is not a list.
Marshal(sel, raw) ==
  CASE raw.k = "object" -> FieldSet(raw.t, sel, [i \in DOMAIN sel |-> Get(raw.t, raw.v, sel[i].f)])
    [] raw.k = "scalar" -> Answer("scalar", "", raw.v, FALSE)
    [] OTHER -> Null(raw.k = "error")

\* A list whose elements may not be null: one that is takes the list with it.
ListOfNonNull(answers) ==
  IF AnyNull(answers) THEN Null(AnyFailed(answers))
  ELSE Answer("list", "", answers, AnyFailed(answers))

\* Slip: the list of entities is made of those that were found.
ListOfEntityCompacted(answers) ==
  Answer("list", "", SelectSeq(answers, LAMBDA a : a.k # "null"), AnyFailed(answers))

\* The list of entities may have nulls.
ListOfEntity(answers) == Answer("list", "", answers, AnyFailed(answers))

\* marshalO...: a null stays a null.
MarshalO(t, sel, raw) ==
  IF raw.k # "list" THEN Marshal(sel, raw)
  ELSE LET answers == [i \in DOMAIN raw.v |-> ResolveField(Tail(t), sel, raw.v[i])]
       IN  IF t[2] = "!" THEN ListOfNonNull(answers) ELSE ListOfEntity(answers)

\* marshalN...: a null is an error, unless one was reported for it already.
MarshalN(t, sel, raw) ==
  LET answer == MarshalO(t, sel, raw)
  IN  IF answer.k = "null" THEN Null(TRUE) ELSE answer

\* A resolver's error is reported and leaves a null; anything else is for the marshallers.
ResolveField(t, sel, raw) ==
  IF t[1] = "!" THEN MarshalN(Tail(t), sel, raw) ELSE MarshalO(t, sel, raw)
=============================================================================
