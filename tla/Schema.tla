-------------------------------- MODULE Schema --------------------------------
(***************************************************************************)
(* The GraphQL contract of a gateway: what schema.graphqls and the         *)
(* federation sources embedded in generated.go declare, and the values a   *)
(* resolver may return.  Executor makes answers of them; Contract says     *)
(* what it means for an answer to keep the contract.                       *)
(***************************************************************************)
EXTENDS Sequences

\* A type reference is its wrappers, outermost first, and the name: [Board!]! is
\* <<"!", "[]", "!", "Board">>.
T(name) == <<name>>
R(t) == <<"!">> \o t
L(t) == <<"[]">> \o t

BoardSchema ==
  [Board |-> [id |-> R(T("ID")), title |-> R(T("String")), objectCount |-> R(T("Int")),
              lastActiveAt |-> T("String"), createdAt |-> R(T("String"))],
   Mutation |-> [createBoard |-> R(T("Board")), deleteBoard |-> R(T("Boolean"))]]

FederationSchema ==
  [Entity |-> [findBoardByID |-> R(T("Board"))],
   _Service |-> [sdl |-> T("String")],
   Query |-> [boards |-> R(L(R(T("Board")))), board |-> T("Board"),
              _entities |-> R(L(T("_Entity"))), _service |-> R(T("_Service")),
              __type |-> T("__Type"), __schema |-> R(T("__Schema"))]]

\* The types every GraphQL service has for describing itself.
IntrospectionSchema ==
  [__Schema |-> [description |-> T("String"), types |-> R(L(R(T("__Type")))),
                 queryType |-> R(T("__Type")), mutationType |-> T("__Type"),
                 subscriptionType |-> T("__Type"), directives |-> R(L(R(T("__Directive"))))],
   __Type |-> [kind |-> R(T("__TypeKind")), name |-> T("String"), description |-> T("String"),
               specifiedByURL |-> T("String"), fields |-> L(R(T("__Field"))),
               interfaces |-> L(R(T("__Type"))), possibleTypes |-> L(R(T("__Type"))),
               enumValues |-> L(R(T("__EnumValue"))), inputFields |-> L(R(T("__InputValue"))),
               ofType |-> T("__Type"), isOneOf |-> T("Boolean")],
   __Field |-> [name |-> R(T("String")), description |-> T("String"),
                args |-> R(L(R(T("__InputValue")))), type |-> R(T("__Type")),
                isDeprecated |-> R(T("Boolean")), deprecationReason |-> T("String")],
   __InputValue |-> [name |-> R(T("String")), description |-> T("String"), type |-> R(T("__Type")),
                     defaultValue |-> T("String"), isDeprecated |-> R(T("Boolean")),
                     deprecationReason |-> T("String")],
   __EnumValue |-> [name |-> R(T("String")), description |-> T("String"),
                    isDeprecated |-> R(T("Boolean")), deprecationReason |-> T("String")],
   __Directive |-> [name |-> R(T("String")), description |-> T("String"),
                    isRepeatable |-> R(T("Boolean")),
                    locations |-> R(L(R(T("__DirectiveLocation")))),
                    args |-> R(L(R(T("__InputValue"))))]]

ObjectTypes ==
  DOMAIN BoardSchema \union DOMAIN FederationSchema \union DOMAIN IntrospectionSchema
Declared ==
  [t \in ObjectTypes |-> IF t \in DOMAIN BoardSchema THEN BoardSchema[t]
                         ELSE IF t \in DOMAIN FederationSchema THEN FederationSchema[t]
                         ELSE IntrospectionSchema[t]]

DeclaredArgs(t, f) ==
  CASE f \in {"board", "findBoardByID"} -> [id |-> R(T("ID"))]
    [] t = "Query" /\ f = "_entities" -> [representations |-> R(L(R(T("_Any"))))]
    [] t = "Query" /\ f = "__type" -> [name |-> R(T("String"))]
    [] t = "Mutation" /\ f = "createBoard" -> [title |-> R(T("String"))]
    [] t = "Mutation" /\ f = "deleteBoard" -> [id |-> R(T("ID"))]
    [] t = "__Type" /\ f \in {"fields", "enumValues"} -> [includeDeprecated |-> T("Boolean")]
    [] f = "args" -> [includeDeprecated |-> T("Boolean")]
    [] OTHER -> <<>>

\* The directives of the federation sources, with their arguments.
DirectiveArgs ==
  LET strings(name) == R(L(R(L(R(T(name)))))) IN
  [key |-> [fields |-> R(T("FieldSet")), resolvable |-> T("Boolean")],
   composeDirective |-> [name |-> R(T("String"))],
   link |-> [import |-> L(R(T("String"))), url |-> R(T("String"))],
   override |-> [from |-> R(T("String")), label |-> T("String")],
   policy |-> [policies |-> strings("federation__Policy")],
   requiresScopes |-> [scopes |-> strings("federation__Scope")],
   provides |-> [fields |-> R(T("FieldSet"))], requires |-> [fields |-> R(T("FieldSet"))],
   tag |-> [name |-> R(T("String"))],
   authenticated |-> <<>>, extends |-> <<>>, external |-> <<>>, inaccessible |-> <<>>,
   interfaceObject |-> <<>>, shareable |-> <<>>, computedRequires |-> <<>>]

PossibleTypes == [_Entity |-> {"Board"}]
EnumTypes == {"__TypeKind", "__DirectiveLocation"}
ScalarTypes ==
  {"ID", "String", "Int", "Boolean", "_Any", "FieldSet", "federation__Policy", "federation__Scope"}
TypeNames == ObjectTypes \union DOMAIN PossibleTypes \union EnumTypes \union ScalarTypes

Kind(t) ==
  CASE t \in ObjectTypes -> "OBJECT"
    [] t \in DOMAIN PossibleTypes -> "UNION"
    [] t \in EnumTypes -> "ENUM"
    [] OTHER -> "SCALAR"

-----------------------------------------------------------------------------
(* What a resolver returns.  An object is named; its fields are resolved   *)
(* when they are selected.                                                 *)

Raw(kind, type, value) == [k |-> kind, t |-> type, v |-> value]
Error == Raw("error", "", <<>>)      \* the resolver returned an error, or had none to offer
Nil == Raw("null", "", <<>>)
Scalar(v) == Raw("scalar", "", v)
Object(type, key) == Raw("object", type, key)
List(items) == Raw("list", "", items)
=============================================================================
