------------------------------- MODULE GraphQL -------------------------------
(***************************************************************************)
(* The control plane of a gateway (internal/gql): requests run over the    *)
(* registry.  The fields of a query, and the representations of _entities, *)
(* are resolved by goroutines in any order; the fields of a mutation one   *)
(* after the other.  Contract then makes the answer of what they returned. *)
(***************************************************************************)
EXTENDS Registry, Schema

CONSTANTS Requests,      \* slots for the requests under way at a time, numbered from 1
          MaxRequests,   \* bound on the requests of a behaviour
          NoId           \* an argument without an id

ASSUME RequestsAreNumbers == Requests = 1 .. Cardinality(Requests)
ASSUME MaxRequestsNat == MaxRequests \in Nat
ASSUME NoIdIsNone == NoId \notin Ids

VARIABLES
  started,   \* requests so far
  doc,       \* doc[r]: what request r asks, Idle if there is none
  done,      \* done[r]: what its resolvers have returned
  half,      \* requests between the two statements of a deleteBoard
  steady     \* steady[r]: the boards registered ever since r, asking for entities, began

gqlVars == <<started, doc, done, half, steady>>

-----------------------------------------------------------------------------
(* What is asked. *)

Call(f, arg) == [f |-> f, arg |-> arg]
Rep(type, id) == [type |-> type, id |-> id]
Query(calls) == [op |-> "Query", calls |-> calls]
Mutation(calls) == [op |-> "Mutation", calls |-> calls]
Idle == Query(<<>>)

BoardCall(b) == Call("board", <<Rep("Board", b)>>)
DeleteCall(b) == Call("deleteBoard", <<Rep("Board", b)>>)
CreateCall(b) == Call("createBoard", <<Rep("Board", b)>>)
BlankCall == Call("createBoard", <<>>)           \* the title is empty but for spaces

ListDoc == Query(<<Call("boards", <<>>)>>)
LookDoc(b) == Query(<<BoardCall(b), Call("boards", <<>>)>>)
EntitiesDoc(reps) == Query(<<Call("_entities", reps)>>)
DescribeDoc == Query(<<Call("__schema", <<>>), Call("__type", <<Rep("Board", NoId)>>),
                       Call("__type", <<Rep("Nothing", NoId)>>), Call("_service", <<>>)>>)
CreateDoc(b) == Mutation(<<CreateCall(b)>>)
DeleteDoc(b) == Mutation(<<DeleteCall(b)>>)
SeveralDoc(b, d) == Mutation(<<CreateCall(b), DeleteCall(d), BlankCall>>)

\* Two boards, or one after something that cannot be resolved: a representation without a
\* type, of another type, without its key, or that is no object.
Odd == {Rep("", NoId), Rep("Other", NoId), Rep("Board", NoId), Rep("notAMap", NoId)}
BoardReps(S) == {Rep("Board", b) : b \in S}
Reps == {x \in BoardReps(known) \X BoardReps(known) : x[1] # x[2]} \union (Odd \X BoardReps(Boards))

-----------------------------------------------------------------------------
(* What the resolvers do: one element of Work for each goroutine or, in a  *)
(* mutation, for each field in its turn.                                   *)

\* unmarshalN_Any: one representation that is no object spoils the argument.
Spoilt(call) == \E i \in DOMAIN call.arg : call.arg[i].type = "notAMap"

\* buildRepresentationGroups: a representation without a type has no goroutine.
Grouped(call) == IF Spoilt(call) THEN {} ELSE {i \in DOMAIN call.arg : call.arg[i].type # ""}

WorkOf(call) ==
  CASE call.f \in {"boards", "board", "deleteBoard"} -> {1}
    [] call.f = "createBoard" -> DOMAIN call.arg
    [] call.f = "_entities" -> Grouped(call)
    [] OTHER -> {}

Work(d) == UNION {{k} \X WorkOf(d.calls[k]) : k \in DOMAIN d.calls}

\* The fields of a mutation wait for those before them.
Todo(r, f) ==
  {t \in Work(doc[r]) \ DOMAIN done[r] :
     /\ doc[r].calls[t[1]].f = f
     /\ doc[r].op = "Mutation" => \A u \in Work(doc[r]) : u[1] < t[1] => u \in DOMAIN done[r]}

Outcome(ok, infos) == [ok |-> ok, infos |-> infos]
Return(r, t, outcome) ==
  done' = [done EXCEPT ![r] = [u \in DOMAIN done[r] \union {t} |->
                                 IF u = t THEN outcome ELSE done[r][u]]]
ArgId(r, t) == doc[r].calls[t[1]].arg[t[2]].id

ResolveBoards(r) ==
  \E t \in Todo(r, "boards"), ok \in BOOLEAN :
    /\ MayFail(ok)
    /\ Return(r, t, Outcome(ok, IF ok THEN ListBoards ELSE <<>>))
    /\ UNCHANGED <<regVars, half>>

ResolveBoard(r) ==
  \E t \in Todo(r, "board"), ok \in BOOLEAN :
    /\ MayFail(ok)
    /\ Return(r, t, Outcome(ok, GetBoard(ArgId(r, t), ok)))
    /\ UNCHANGED <<regVars, half>>

\* Slip: a goroutine that fails does not say that it is done.
ResolveEntityForgetsDone(r) ==
  \E t \in Todo(r, "_entities"), ok \in BOOLEAN :
    /\ MayFail(ok) /\ ArgId(r, t) # NoId
    /\ Return(r, t, Outcome(ok, GetBoard(ArgId(r, t), ok)))
    /\ UNCHANGED <<regVars, half>>

\* resolveEntity: FindBoardByID for a Board with a key, an error for anything else.
ResolveEntity(r) ==
  \E t \in Todo(r, "_entities"), ok \in BOOLEAN :
    /\ MayFail(ok)
    /\ Return(r, t, Outcome(ok, IF ArgId(r, t) = NoId THEN <<>> ELSE GetBoard(ArgId(r, t), ok)))
    /\ UNCHANGED <<regVars, half>>

ResolveCreate(r) ==
  \E t \in Todo(r, "createBoard"), ok \in BOOLEAN :
    /\ CreateBoard(ArgId(r, t), ok)
    /\ Return(r, t, Outcome(ok, <<[id |-> ArgId(r, t), count |-> 0, active |-> FALSE]>>))
    /\ UNCHANGED half

\* Slip: the second statement is executed even if the first failed.
ResolveDeleteAnyway(r) ==
  \E t \in Todo(r, "deleteBoard"), ok \in BOOLEAN :
    IF backend = "postgres" /\ r \notin half
    THEN /\ DeleteBoardBegins(ArgId(r, t), ok)
         /\ half' = half \union {r}
         /\ UNCHANGED done
    ELSE /\ DeleteBoardEnds(ArgId(r, t), ok)
         /\ Return(r, t, Outcome(ok, <<>>))
         /\ half' = half \ {r}

ResolveDelete(r) ==
  \E t \in Todo(r, "deleteBoard"), ok \in BOOLEAN :
    IF backend = "postgres" /\ r \notin half
    THEN /\ DeleteBoardBegins(ArgId(r, t), ok)
         /\ IF ok THEN half' = half \union {r} /\ UNCHANGED done
                  ELSE Return(r, t, Outcome(FALSE, <<>>)) /\ UNCHANGED half
    ELSE /\ DeleteBoardEnds(ArgId(r, t), ok)
         /\ Return(r, t, Outcome(ok, <<>>))
         /\ half' = half \ {r}

Resolve(r) ==
  \/ ResolveBoards(r) \/ ResolveBoard(r) \/ ResolveEntity(r)
  \/ ResolveCreate(r) \/ ResolveDelete(r)

-----------------------------------------------------------------------------
(* What is answered. *)

BoardOrNil(infos) == IF infos = <<>> THEN Nil ELSE Object("Board", infos[1])

\* Slip: the index within the group is taken for that of the representation.
EntityListByGroup(call, outcomes) ==
  LET group(type) == SetToSortSeq({i \in Grouped(call) : call.arg[i].type = type}, <)
      at(i) == IF i \in DOMAIN group("Board") THEN group("Board")[i] ELSE 0
  IN  List([i \in DOMAIN call.arg |->
        IF at(i) # 0 /\ call.arg[at(i)].id # NoId THEN BoardOrNil(outcomes[at(i)].infos) ELSE Error])

\* __resolve_entities: every entity in the slot of its representation; no type, another type
\* and a missing key are errors and leave the slot empty.
EntityList(call, outcomes) ==
  List([i \in DOMAIN call.arg |->
    IF i \in Grouped(call) /\ call.arg[i].type = "Board" /\ call.arg[i].id # NoId
    THEN BoardOrNil(outcomes[i].infos) ELSE Error])

\* What the resolver of a root field returned.
Returned(call, outcomes) ==
  CASE call.f = "boards" ->
         IF outcomes[1].ok
         THEN List([i \in DOMAIN outcomes[1].infos |-> Object("Board", outcomes[1].infos[i])])
         ELSE Error
    [] call.f = "board" -> BoardOrNil(outcomes[1].infos)
    [] call.f = "_entities" -> IF Spoilt(call) THEN Error ELSE EntityList(call, outcomes)
    [] call.f = "createBoard" ->
         IF call.arg # <<>> /\ outcomes[1].ok THEN Object("Board", outcomes[1].infos[1]) ELSE Error
    [] call.f = "deleteBoard" -> IF outcomes[1].ok THEN Scalar(TRUE) ELSE Error
    [] call.f = "_service" -> Object("_Service", <<>>)
    [] call.f = "__schema" -> Object("__Schema", <<>>)
    [] call.f = "__type" -> IF call.arg[1].type \in TypeNames
                            THEN Object("__Type", T(call.arg[1].type)) ELSE Nil

Result(d, outcomes, k) ==
  Returned(d.calls[k], [i \in WorkOf(d.calls[k]) |-> outcomes[<<k, i>>]])

\* An error was reported: by the resolver of a root field, or for one element of its list.
Failed(d, outcomes) ==
  \E k \in DOMAIN d.calls :
    LET result == Result(d, outcomes, k) IN
    \/ result.k = "error"
    \/ result.k = "list" /\ \E i \in DOMAIN result.v : result.v[i].k = "error"

-----------------------------------------------------------------------------
(* Requests come and go. *)

GraphQLInit ==
  /\ RegistryInit
  /\ started = 0
  /\ doc = [r \in Requests |-> Idle]
  /\ done = [r \in Requests |-> <<>>]
  /\ half = {}
  /\ steady = [r \in Requests |-> {}]

\* Ids newBoardID may draw next.
Asked(b) == \E r \in Requests : \E k \in DOMAIN doc[r].calls :
              \E i \in DOMAIN doc[r].calls[k].arg : doc[r].calls[k].arg[i].id = b
Fresh == {b \in Ids \ known : ~Asked(b)}

\* The request goes to the lowest free slot.
Start(r, d) ==
  /\ started < MaxRequests
  /\ doc[r] = Idle /\ \A q \in Requests : q < r => doc[q] # Idle
  /\ started' = started + 1
  /\ doc' = [doc EXCEPT ![r] = d]
  /\ UNCHANGED <<regVars, done, half>>

\* All WaitGroups have come to zero: the answer is made and leaves.
Answers(r) ==
  /\ doc[r] # Idle /\ DOMAIN done[r] = Work(doc[r])
  /\ doc' = [doc EXCEPT ![r] = Idle]
  /\ done' = [done EXCEPT ![r] = <<>>]
  /\ UNCHANGED <<regVars, started, half>>

Working(r) == Resolve(r) /\ UNCHANGED <<started, doc>>

\* Browsers draw and the recorder's writer works on meanwhile.
Drawing ==
  /\ \E x \in Ids \X Objects : Draw(x) \/ Flush(x)
  /\ UNCHANGED <<started, doc, done, half>>

\* History, part of every step.
Watch ==
  steady' = [r \in Requests |->
    CASE doc'[r] = Idle \/ doc'[r].calls[1].f # "_entities" -> {}
      [] doc[r] = Idle /\ doc'[r] # Idle /\ doc'[r].calls[1].f = "_entities" -> ToSet(listed')
      [] OTHER -> steady[r] \intersect ToSet(listed')]

-----------------------------------------------------------------------------
Answering(r) == doc[r] # Idle /\ doc'[r] = Idle

(***************************************************************************)
(* The goroutines of all entity types write one list, and each board ends  *)
(* up in the slot of its own representation; a board registered all the    *)
(* while is there unless its statement failed, and what cannot be resolved *)
(* leaves its slot empty and the others alone (federation.go:39-133).      *)
(***************************************************************************)
EntitiesBySlot ==
  [][\A r \in Requests :
       LET call == doc[r].calls[1]
           slots == Result(doc[r], done[r], 1).v
       IN  Answering(r) /\ call.f = "_entities" /\ ~Spoilt(call) =>
             \A i \in DOMAIN call.arg :
               /\ slots[i].k = "object" =>
                    call.arg[i].type = "Board" /\ slots[i].v.id = call.arg[i].id
               /\ call.arg[i].id \in steady[r] /\ done[r][<<1, i>>].ok => slots[i].k = "object"
    ]_<<regVars, gqlVars>>

(***************************************************************************)
(* Every request gets to its answer: whatever its goroutines met, one that *)
(* has not reported back can still do so, and when all have nothing holds  *)
(* the answer back (federation.go:53-62, 116-132).  As a request has       *)
(* finitely many of them it is answered if Postgres answers and goroutines *)
(* are scheduled.  The WaitGroups are not modelled, a goroutine whose      *)
(* resolver has returned is taken to call Done; nor are panics, which      *)
(* resolveEntity makes errors (federation.go:149-153).                     *)
(***************************************************************************)
NoRequestHangs ==
  \A r \in Requests :
    doc[r] # Idle => ENABLED (Working(r) /\ Watch) \/ ENABLED (Answers(r) /\ Watch)
=============================================================================
