-------------------------------- MODULE Lobby --------------------------------
(***************************************************************************)
(* The lobby page (web/src/components/Lobby.tsx, lib/gql.ts) as a client   *)
(* of the control plane, beside other clients: another browser, the        *)
(* playground, a federation router.  It shows the boards it loaded,        *)
(* removes one before the server has answered, and goes back to the list   *)
(* it remembered if the deletion fails.                                    *)
(***************************************************************************)
EXTENDS GraphQL

VARIABLES
  page,        \* the lobby is open
  boards,      \* the list it shows, NotLoaded until there is one
  busy,        \* it is creating a board
  pending,     \* pending[r]: what the page waits for from request r, or Nothing
  told,        \* boards whose deletion the page was told succeeded
  crossed      \* boards it was deleting while it was deleting another

lobbyVars == <<page, boards, busy, pending, told, crossed>>
vars == <<regVars, gqlVars, lobbyVars>>

NotLoaded == [loaded |-> FALSE, ids |-> <<>>]
Showing(ids) == [loaded |-> TRUE, ids |-> ids]

Wait(kind, id, prev) == [kind |-> kind, id |-> id, prev |-> prev]
Nothing == Wait("nothing", NoId, NotLoaded)

Deleting == {r \in Requests : pending[r].kind = "delete"}

\* The page is not open yet, or has been open for a while.
LobbyInit ==
  /\ GraphQLInit
  /\ page \in BOOLEAN
  /\ boards = (IF page THEN Showing(listed) ELSE NotLoaded)
  /\ busy = FALSE
  /\ pending = [r \in Requests |-> Nothing]
  /\ told = {} /\ crossed = {}

\* fetch: the request goes out and its promise is kept.
Fetch(r, d, wait) ==
  /\ Start(r, d)
  /\ pending' = [pending EXCEPT ![r] = wait]

\* The page is opened: the effect asks for the boards.
Mount(r) ==
  /\ ~page
  /\ page' = TRUE
  /\ Fetch(r, ListDoc, Wait("load", NoId, NotLoaded))
  /\ UNCHANGED <<boards, busy, told, crossed>>

Create(r) ==
  /\ page /\ ~busy
  /\ busy' = TRUE
  /\ \E b \in Fresh : Fetch(r, CreateDoc(b), Wait("create", b, NotLoaded))
  /\ UNCHANGED <<page, boards, told, crossed>>

\* del, confirmed: remembers the list, and removes the board from it at once.
Del(r, b) ==
  /\ page /\ boards.loaded /\ b \in ToSet(boards.ids)
  /\ Fetch(r, DeleteDoc(b), Wait("delete", b, boards))
  /\ boards' = Showing(Without(boards.ids, b))
  /\ crossed' = crossed \union
       (IF Deleting = {} THEN {} ELSE {b} \union {pending[q].id : q \in Deleting})
  /\ UNCHANGED <<page, busy, told>>

\* Slip: answers on the way are still waited for.
LeaveWaiting ==
  /\ page' = FALSE
  /\ boards' = NotLoaded /\ busy' = FALSE
  /\ told' = {} /\ crossed' = {}
  /\ UNCHANGED pending

\* The page is left, by a link, for a scratch board or for the one just created; the
\* browser drops what it waited for, the server does not.
Leave ==
  /\ page' = FALSE
  /\ boards' = NotLoaded /\ busy' = FALSE
  /\ pending' = [r \in Requests |-> Nothing]
  /\ told' = {} /\ crossed' = {}

Succeeds(r) ==
  LET w == pending[r]
      list == Result(doc[r], done[r], 1).v
  IN
  IF w.kind = "create" THEN Leave
  ELSE /\ boards' = IF w.kind = "load"
                    THEN Showing([i \in DOMAIN list |-> list[i].v.id])
                    ELSE boards
       /\ told' = IF w.kind = "delete" THEN told \union {w.id} ELSE told
       /\ pending' = [pending EXCEPT ![r] = Nothing]
       /\ UNCHANGED <<page, busy, crossed>>

\* Slip: the error is shown and the list left as it is.
FailsSilently(r) ==
  LET w == pending[r] IN
  /\ busy' = (busy /\ w.kind # "create")
  /\ pending' = [pending EXCEPT ![r] = Nothing]
  /\ UNCHANGED <<page, boards, told, crossed>>

\* The catch clauses: a failed deletion is rolled back, a failed creation can be repeated.
Fails(r) ==
  LET w == pending[r] IN
  /\ boards' = IF w.kind = "delete" THEN w.prev ELSE boards
  /\ busy' = (busy /\ w.kind # "create")
  /\ pending' = [pending EXCEPT ![r] = Nothing]
  /\ UNCHANGED <<page, told, crossed>>

\* gql: any error in the answer is thrown, whatever data came with it.
Arrives(r) ==
  /\ Answers(r)
  /\ CASE pending[r] = Nothing -> UNCHANGED lobbyVars
       [] pending[r] # Nothing /\ Failed(doc[r], done[r]) -> Fails(r)
       [] OTHER -> Succeeds(r)

\* fetch fails: the request, or its answer, is lost on the way; the server goes on with it.
Lost(r) ==
  /\ "network" \in Faults /\ pending[r] # Nothing
  /\ Fails(r)
  /\ UNCHANGED <<regVars, started, doc, done, half>>

\* Another client's request.  Queries change nothing, so that one at a time is enough
\* (a bound).
Other(r) ==
  /\ \/ /\ \A q \in Requests : doc[q] = Idle \/ doc[q].op = "Mutation"
        /\ \E d \in {DescribeDoc} \union {LookDoc(b) : b \in Ids} \union {EntitiesDoc(reps) : reps \in Reps} :
             Start(r, d)
     \/ \E b \in Fresh : Start(r, CreateDoc(b)) \/ \E d \in known : Start(r, SeveralDoc(b, d))
     \/ \E d \in known : Start(r, DeleteDoc(d))
  /\ UNCHANGED lobbyVars

Step ==
  \/ \E r \in Requests :
       \/ Mount(r) \/ Create(r) \/ (\E b \in Ids : Del(r, b)) \/ Other(r)
       \/ Working(r) /\ UNCHANGED lobbyVars
       \/ Arrives(r) \/ Lost(r)
  \/ page /\ Leave /\ UNCHANGED <<regVars, started, doc, done, half>>
  \/ Drawing /\ UNCHANGED lobbyVars

Next == Step /\ Watch

Spec == LobbyInit /\ [][Next]_vars

-----------------------------------------------------------------------------
\* The state has the shape of the code's; a list has no board twice, a board in the middle
\* of a deletion has a request deleting it, and the page waits for requests that run.
TypeOK ==
  /\ backend \in {"memory", "postgres"}
  /\ known \subseteq Ids /\ Boards \subseteq known /\ Len(listed) = Cardinality(Boards)
  /\ rows \union queue \subseteq known \X Objects
  /\ gone \subseteq known /\ late \subseteq rows
  /\ backend = "memory" => queue = {} /\ half = {}
  /\ started \in 0 .. MaxRequests
  /\ \A r \in Requests :
       /\ DOMAIN done[r] \subseteq Work(doc[r])
       /\ r \in half => Todo(r, "deleteBoard") # {}
       /\ pending[r] # Nothing => page /\ doc[r] # Idle
  /\ Len(boards.ids) = Cardinality(ToSet(boards.ids))
  /\ busy <=> \E r \in Requests : pending[r].kind = "create"

\* A board the page was told is deleted does not come back.
StaysAway ==
  \A b \in (told \intersect told') \ crossed : page' => b \notin ToSet(boards'.ids)
\* A board goes from the list only when its deletion is asked for.
GoesForADeletion ==
  \A b \in ToSet(boards.ids) \ (ToSet(boards'.ids) \union crossed) :
    page' => \E r \in Requests : pending'[r] = Wait("delete", b, boards)
\* A board whose deletion is over without success is on the list.
ComesBack ==
  \A r \in Deleting :
    page' /\ pending'[r] = Nothing /\ pending[r].id \notin told' \union crossed
      => pending[r].id \in ToSet(boards'.ids)

(***************************************************************************)
(* The optimistic list tells the truth about the page's own deletions      *)
(* (Lobby.tsx:48-58): a board it was told is deleted does not come back,   *)
(* and one whose deletion failed does; except for boards it was deleting   *)
(* at the same time, where each rollback restores a list from before the   *)
(* other.                                                                  *)
(***************************************************************************)
DeletionsShowTruly == [][StaysAway /\ GoesForADeletion /\ ComesBack]_vars
=============================================================================
