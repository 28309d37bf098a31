------------------------------ MODULE HubBinding ------------------------------
(***************************************************************************)
(* The board registry of a gateway node (internal/hub/hub.go) and the      *)
(* reference-counted Redis subscriptions that follow it (redis.go).        *)
(*                                                                         *)
(* Hub.add and Hub.remove change the registry under Hub.mu and call        *)
(* BindBoard / UnbindBoard after unlocking; those change the count under   *)
(* RedisBroadcaster.mu and call Subscribe / Unsubscribe after unlocking.   *)
(* Each critical section and each PubSub call is one step of the goroutine *)
(* of its connection, so the goroutines interleave wherever no lock is     *)
(* held.                                                                   *)
(***************************************************************************)
EXTENDS Naturals, FiniteSets

CONSTANTS Clients,   \* connection slots: one stands for a connection, then for a later one
          Nodes,     \* gateway processes
          Boards,    \* board ids
          Nowhere    \* where a slot without a connection is

Slots == Nodes \X Boards     \* one entry of one node's maps: <<node, board>>

ASSUME ClientsFinite == IsFiniteSet(Clients)
ASSUME NowhereIsNoSlot == Nowhere \notin Slots

VARIABLES
  boards,       \* boards[<<n, b>>]: the clients of b in n's Hub.boards; {} is the absent entry
  refs,         \* refs[<<n, b>>]: n's RedisBroadcaster.refs of b; 0 is the absent entry
  subscribed,   \* the <<n, b>> whose channel n's PubSub is subscribed to
  at,           \* the slot each connection belongs to
  pc            \* what the goroutine of each connection does next

bindVars == <<boards, refs, subscribed, at, pc>>

Phases == {"off", "bind", "subscribe", "open", "unbind", "unsubscribe"}

Init ==
  /\ boards = [s \in Slots |-> {}]
  /\ refs = [s \in Slots |-> 0]
  /\ subscribed = {}
  /\ at = [c \in Clients |-> Nowhere]
  /\ pc = [c \in Clients |-> "off"]

(***************************************************************************)
(* Hub.add: the critical section.  The first client of a board on a node   *)
(* still has to bind it; any other is served at once.                      *)
(***************************************************************************)
Add(c, s) ==
  /\ pc[c] = "off"
  /\ boards' = [boards EXCEPT ![s] = @ \union {c}]
  /\ at' = [at EXCEPT ![c] = s]
  /\ pc' = [pc EXCEPT ![c] = IF boards[s] = {} THEN "bind" ELSE "open"]
  /\ UNCHANGED <<refs, subscribed>>

\* Slip: the binding is counted only when it subscribes.
BindBoardUncounted(c) ==
  /\ pc[c] = "bind"
  /\ refs' = [refs EXCEPT ![at[c]] = IF @ = 0 THEN 1 ELSE @]
  /\ pc' = [pc EXCEPT ![c] = IF refs[at[c]] = 0 THEN "subscribe" ELSE "open"]
  /\ UNCHANGED <<boards, subscribed, at>>

\* BindBoard: count the binding; only a count that was 0 asks for a subscription.
BindBoard(c) ==
  /\ pc[c] = "bind"
  /\ refs' = [refs EXCEPT ![at[c]] = @ + 1]
  /\ pc' = [pc EXCEPT ![c] = IF refs[at[c]] = 0 THEN "subscribe" ELSE "open"]
  /\ UNCHANGED <<boards, subscribed, at>>

\* PubSub.Subscribe, serialized by the PubSub's own lock.
Subscribe(c) ==
  /\ pc[c] = "subscribe"
  /\ subscribed' = subscribed \union {at[c]}
  /\ pc' = [pc EXCEPT ![c] = "open"]
  /\ UNCHANGED <<boards, refs, at>>

\* The slot of a goroutine that has returned can hold a later connection.
Leave(c, next) ==
  /\ pc' = [pc EXCEPT ![c] = next]
  /\ at' = IF next = "off" THEN [at EXCEPT ![c] = Nowhere] ELSE at

\* Slip: len(m) == 0 is tested before the client is deleted.
RemoveTestsBeforeDelete(c) ==
  /\ pc[c] = "open"
  /\ boards' = [boards EXCEPT ![at[c]] = @ \ {c}]
  /\ Leave(c, IF boards[at[c]] = {} THEN "unbind" ELSE "off")
  /\ UNCHANGED <<refs, subscribed>>

(***************************************************************************)
(* Hub.remove, run once the socket is closed: the last client of a board   *)
(* deletes the entry and has to unbind it.                                 *)
(***************************************************************************)
Remove(c) ==
  /\ pc[c] = "open"
  /\ boards' = [boards EXCEPT ![at[c]] = @ \ {c}]
  /\ Leave(c, IF boards[at[c]] = {c} THEN "unbind" ELSE "off")
  /\ UNCHANGED <<refs, subscribed>>

\* Slip: n < 0 where the code has n <= 0.
UnbindBoardOffByOne(c) ==
  /\ pc[c] = "unbind"
  /\ refs' = [refs EXCEPT ![at[c]] = IF @ = 0 THEN 0 ELSE @ - 1]
  /\ Leave(c, IF refs[at[c]] = 0 THEN "unsubscribe" ELSE "off")
  /\ UNCHANGED <<boards, subscribed>>

\* Slip: a count that stays positive is not stored back.
UnbindBoardForgets(c) ==
  /\ pc[c] = "unbind"
  /\ refs' = [refs EXCEPT ![at[c]] = IF @ <= 1 THEN 0 ELSE @]
  /\ Leave(c, IF refs[at[c]] <= 1 THEN "unsubscribe" ELSE "off")
  /\ UNCHANGED <<boards, subscribed>>

\* UnbindBoard: give the binding back; a count of 0 or less deletes the entry.
UnbindBoard(c) ==
  /\ pc[c] = "unbind"
  /\ refs' = [refs EXCEPT ![at[c]] = IF @ <= 1 THEN 0 ELSE @ - 1]
  /\ Leave(c, IF refs[at[c]] <= 1 THEN "unsubscribe" ELSE "off")
  /\ UNCHANGED <<boards, subscribed>>

\* PubSub.Unsubscribe.
Unsubscribe(c) ==
  /\ pc[c] = "unsubscribe"
  /\ subscribed' = subscribed \ {at[c]}
  /\ Leave(c, "off")
  /\ UNCHANGED <<boards, refs>>

\* What a goroutine inside add or remove does without waiting for its client.
Progress(c) == BindBoard(c) \/ Subscribe(c) \/ UnbindBoard(c) \/ Unsubscribe(c)

Next ==
  \E c \in Clients :
    \/ \E s \in Slots : Add(c, s)
    \/ Progress(c)
    \/ Remove(c)

Spec == Init /\ [][Next]_bindVars

\* The Go scheduler runs every runnable goroutine and both PubSub calls return.
FairSpec == Spec /\ \A c \in Clients : WF_bindVars(Progress(c))

-----------------------------------------------------------------------------
\* The state has the shape of the code's maps; no count outgrows the connections.
TypeOK ==
  /\ boards \in [Slots -> SUBSET Clients]
  /\ refs \in [Slots -> 0 .. Cardinality(Clients)]
  /\ subscribed \subseteq Slots
  /\ at \in [Clients -> Slots \union {Nowhere}]
  /\ pc \in [Clients -> Phases]

\* The connections of slot s whose goroutine is at one of the given phases.
Among(s, phases) == {c \in Clients : at[c] = s /\ pc[c] \in phases}

(***************************************************************************)
(* The count of a board is 1 while the node hosts it, plus the unbinds and *)
(* minus the binds that are decided (under Hub.mu) and not yet counted     *)
(* (under RedisBroadcaster.mu): the two locks never lose track of each     *)
(* other however add and remove interleave (hub.go:66-99, redis.go:76-97). *)
(***************************************************************************)
RefsBalanced ==
  \A s \in Slots :
    refs[s] + Cardinality(Among(s, {"bind"})) =
      (IF boards[s] = {} THEN 0 ELSE 1) + Cardinality(Among(s, {"unbind"}))

(***************************************************************************)
(* "A node never carries traffic for boards it isn't serving"              *)
(* (DECISIONS.md:53): a subscription to a board without clients always has *)
(* a goroutine on its way to drop it.  No order of the unlocked Subscribe  *)
(* and Unsubscribe calls leaves one behind.                                *)
(***************************************************************************)
NoLeakedSubscription ==
  \A s \in subscribed :
    boards[s] = {} => Among(s, {"unbind", "unsubscribe"}) # {}

\* The same as progress: no board stays subscribed for ever without clients.
DropsIdleBoard ==
  \A s \in Slots : []<>(boards[s] # {} \/ s \notin subscribed)

(***************************************************************************)
(* "a node listens to a board's channel while it has clients there"        *)
(* (DECISIONS.md:52): with no add or remove under way for the board, its   *)
(* clients can hear the other nodes.                                       *)
(***************************************************************************)
ServedBoardIsSubscribed ==
  \A s \in Slots :
    boards[s] # {} /\ Among(s, Phases \ {"open"}) = {} => s \in subscribed
=============================================================================
