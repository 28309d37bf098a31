------------------------------- MODULE Contract -------------------------------
(***************************************************************************)
(* What goes over the wire: Executor makes the answer to each request of   *)
(* GraphQL from what its resolvers returned, and the answer keeps the      *)
(* contract of Schema.  Lobby knows of an answer only whether it has       *)
(* errors and which boards it lists; AnswerTells says that it gets both.   *)
(***************************************************************************)
EXTENDS Lobby, Executor

(* What is selected of each root field. *)

TypeSel[n \in 0 .. 6] ==
  IF n = 0 THEN Sels(<<"kind", "name">>)
  ELSE Sels(<<"kind", "name">>) \o <<Sel("ofType", TypeSel[n - 1])>>
InputSel == Sels(<<"name", "description", "defaultValue", "isDeprecated", "deprecationReason">>)
              \o <<Sel("type", TypeSel[6])>>
FieldSel == Sels(<<"name", "description", "isDeprecated", "deprecationReason">>)
              \o <<Sel("type", TypeSel[4]), Sel("args", InputSel)>>
DescribedSel ==
  Sels(<<"kind", "name", "description", "specifiedByURL", "isOneOf">>)
    \o <<Sel("fields", FieldSel), Sel("possibleTypes", TypeSel[0]), Sel("interfaces", TypeSel[0]),
         Sel("inputFields", InputSel),
         Sel("enumValues", Sels(<<"name", "description", "isDeprecated", "deprecationReason">>))>>
DirectiveSel ==
  Sels(<<"name", "description", "isRepeatable", "locations">>) \o <<Sel("args", InputSel)>>
SchemaSel ==
  Sels(<<"description">>)
    \o <<Sel("types", DescribedSel), Sel("queryType", TypeSel[0]), Sel("mutationType", TypeSel[0]),
         Sel("subscriptionType", TypeSel[0]), Sel("directives", DirectiveSel)>>
BoardSel == Sels(<<"id", "title", "objectCount", "lastActiveAt", "createdAt">>)

Selection(f) ==
  CASE f = "__schema" -> SchemaSel
    [] f = "__type" -> DescribedSel
    [] f = "_service" -> Sels(<<"sdl">>)
    [] f = "deleteBoard" -> <<>>
    [] OTHER -> BoardSel

\* Exec: _Query or _Mutation over the selected root fields.
Response(d, outcomes) ==
  FieldSet(d.op,
           [k \in DOMAIN d.calls |-> Sel(d.calls[k].f, Selection(d.calls[k].f))],
           [k \in DOMAIN d.calls |-> Result(d, outcomes, k)])

\* The answer to the introspection query is always the same.
Described == Response(DescribeDoc, <<>>)
Answered(d, outcomes) == IF d = DescribeDoc THEN Described ELSE Response(d, outcomes)

-----------------------------------------------------------------------------
\* Value val, the answer to a selection, is one that type t allows.
RECURSIVE Allows(_, _)
Allows(t, val) ==
  CASE t[1] = "!" -> val.k # "null" /\ Allows(Tail(t), val)
    [] t[1] # "!" /\ val.k = "null" -> TRUE
    [] t[1] = "[]" /\ val.k # "null" ->
         val.k = "list" /\ \A i \in DOMAIN val.v : Allows(Tail(t), val.v[i])
    [] OTHER ->
         IF val.k = "object"
         THEN /\ val.t \in (IF Kind(t[1]) = "UNION" THEN PossibleTypes[t[1]] ELSE {t[1]})
              /\ \A i \in DOMAIN val.v : Allows(Declared[val.t][val.v[i].f], val.v[i].a)
         ELSE val.k = "scalar" /\ Kind(t[1]) \in {"SCALAR", "ENUM"}

\* An answer keeps the contract: only a failed one may have no data, and then says so.
Conforms(root, val) == IF val.k = "null" THEN val.e ELSE Allows(T(root), val)

-----------------------------------------------------------------------------
(***************************************************************************)
(* Whatever the registry answers and whichever statement fails, no client  *)
(* is sent a null where the schema allows none, and no answer without data *)
(* comes without an error (generated.go's marshallers against              *)
(* schema.graphqls:10-32).                                                 *)
(***************************************************************************)
ResponseConforms ==
  [][\A r \in Requests : Answering(r) =>
       Conforms(doc[r].op, Answered(doc[r], done[r]))]_<<regVars, gqlVars>>

\* The board an object is, NoId for anything else; of a list, one for each element.
Shown(x, id(_)) ==
  LET of(y) == IF y.k = "object" THEN id(y) ELSE NoId
  IN  IF x.k = "list" THEN [i \in DOMAIN x.v |-> of(x.v[i])] ELSE of(x)

(***************************************************************************)
(* The marshallers lose no board, move none to another slot and hide no    *)
(* error: an answer says that something failed exactly if something did,   *)
(* and shows the boards the resolvers returned, each in its place (what    *)
(* gql.ts:10-12 and a federation router rely on).  A failure that GetBoard *)
(* takes for an absent board (boards.go:180) is none to its resolver, and  *)
(* none here.                                                              *)
(***************************************************************************)
AnswerTells ==
  [][\A r \in Requests :
       Answering(r) => LET answer == Answered(doc[r], done[r]) IN
         /\ answer.e <=> Failed(doc[r], done[r])
         /\ answer.k # "null" /\ doc[r] # DescribeDoc => \A k \in DOMAIN doc[r].calls :
              Shown(answer.v[k].a, LAMBDA a : a.v[1].a.v)
                = Shown(Result(doc[r], done[r], k), LAMBDA raw : raw.v.id)]_<<regVars, gqlVars>>
=============================================================================
