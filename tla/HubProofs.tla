------------------------------- MODULE HubProofs -------------------------------
(***************************************************************************)
(* HubBinding and Relay, which extends it.  First HubBinding, for every    *)
(* number of connections, nodes and boards.  Then Relay, for any faults    *)
(* and number of frames as well: the types, nobody hears a frame twice,    *)
(* out of its author's order or from itself, every frame is recorded once, *)
(* and who has begun to hear somebody hears the rest.  Of its three        *)
(* invariants, Relayed says where a frame can be at the same time:         *)
(* whatever still is to reach a client through the channel comes after all *)
(* it has heard of the author; Running, that nothing is left of a process  *)
(* that has died; Following, that behind a frame on its way all later ones *)
(* of its author are too.                                                  *)
(***************************************************************************)
EXTENDS Relay, FiniteSetTheorems, TLAPS

-----------------------------------------------------------------------------
(* HubBinding. *)

Typing ==
  /\ boards \in [Slots -> SUBSET Clients]
  /\ refs \in [Slots -> Nat]
  /\ subscribed \subseteq Slots
  /\ at \in [Clients -> Slots \union {Nowhere}]
  /\ pc \in [Clients -> Phases]

Entering == {"bind", "subscribe"}

\* A connection has a slot exactly while its goroutine runs.
Placed == \A c \in Clients : at[c] = Nowhere <=> pc[c] = "off"

\* It is registered there from Hub.add to Hub.remove.
Hosted ==
  \A c \in Clients, s \in Slots :
    c \in boards[s] <=> at[c] = s /\ pc[c] \in Entering \union {"open"}

\* Only the first client of a board is on its way to subscribing to it.
OneBinder ==
  \A c, d \in Clients :
    pc[c] \in Entering /\ pc[d] \in Entering /\ at[c] = at[d] => c = d

\* A subscription is counted, or somebody is about to drop it.
SubscriptionBacked ==
  \A s \in subscribed : refs[s] > 0 \/ \E c \in Clients : at[c] = s /\ pc[c] = "unsubscribe"

IInv ==
  Typing /\ Placed /\ Hosted /\ OneBinder /\ RefsBalanced /\ SubscriptionBacked

-----------------------------------------------------------------------------
\* Any group of connections of a slot can be counted.
LEMMA AmongFinite ==
  ASSUME NEW s, NEW P
  PROVE  IsFiniteSet(Among(s, P)) /\ Cardinality(Among(s, P)) \in Nat
<1>1. Among(s, P) \subseteq Clients
  BY DEF Among
<1> QED
  BY <1>1, ClientsFinite, FS_Subset, FS_CardinalityType

\* Two finite sets that agree outside c differ in size by c alone.
LEMMA SizeStep ==
  ASSUME NEW G, NEW H, NEW c, IsFiniteSet(G), H \ {c} = G \ {c}
  PROVE  /\ c \notin G /\ c \in H => Cardinality(H) = Cardinality(G) + 1
         /\ c \in G /\ c \notin H => Cardinality(H) = Cardinality(G) - 1
         /\ (c \in G <=> c \in H) => Cardinality(H) = Cardinality(G)
<1>1. CASE c \notin G /\ c \in H
  <2>1. H = G \union {c}
    BY <1>1
  <2> QED
    BY <1>1, <2>1, FS_AddElement
<1>2. CASE c \in G /\ c \notin H
  <2>1. H = G \ {c}
    BY <1>2
  <2> QED
    BY <1>2, <2>1, FS_RemoveElement
<1>3. CASE c \in G <=> c \in H
  <2>1. H = G
    BY <1>3
  <2> QED
    BY <1>3, <2>1
<1> QED
  BY <1>1, <1>2, <1>3

\* The two counts RefsBalanced speaks of, for every slot.
Binds == [s \in Slots |-> Cardinality(Among(s, {"bind"}))]
Unbinds == [s \in Slots |-> Cardinality(Among(s, {"unbind"}))]

(***************************************************************************)
(* A step that moves only c changes a count by c alone.                    *)
(***************************************************************************)
LEMMA CountStep ==
  ASSUME NEW c \in Clients,
         \A d \in Clients \ {c} : at'[d] = at[d] /\ pc'[d] = pc[d]
  PROVE  \A s \in Slots :
           LET wasBinding == at[c] = s /\ pc[c] = "bind"
               isBinding == at'[c] = s /\ pc'[c] = "bind"
               wasUnbinding == at[c] = s /\ pc[c] = "unbind"
               isUnbinding == at'[c] = s /\ pc'[c] = "unbind"
           IN  /\ ~wasBinding /\ isBinding => Binds'[s] = Binds[s] + 1
               /\ wasBinding /\ ~isBinding => Binds'[s] = Binds[s] - 1
               /\ (wasBinding <=> isBinding) => Binds'[s] = Binds[s]
               /\ ~wasUnbinding /\ isUnbinding => Unbinds'[s] = Unbinds[s] + 1
               /\ wasUnbinding /\ ~isUnbinding => Unbinds'[s] = Unbinds[s] - 1
               /\ (wasUnbinding <=> isUnbinding) => Unbinds'[s] = Unbinds[s]
<1> TAKE s \in Slots
<1> DEFINE B == Among(s, {"bind"})
           U == Among(s, {"unbind"})
<1>1. /\ Binds[s] = Cardinality(B) /\ Binds'[s] = Cardinality(B')
      /\ Unbinds[s] = Cardinality(U) /\ Unbinds'[s] = Cardinality(U')
  BY DEF Binds, Unbinds
<1>2. /\ B' \ {c} = B \ {c}
      /\ c \in B <=> at[c] = s /\ pc[c] = "bind"
      /\ c \in B' <=> at'[c] = s /\ pc'[c] = "bind"
  BY DEF Among
<1>3. /\ U' \ {c} = U \ {c}
      /\ c \in U <=> at[c] = s /\ pc[c] = "unbind"
      /\ c \in U' <=> at'[c] = s /\ pc'[c] = "unbind"
  BY DEF Among
<1>4. IsFiniteSet(B) /\ IsFiniteSet(U)
  BY AmongFinite
<1> HIDE DEF B, U
<1>5. /\ c \notin B /\ c \in B' => Cardinality(B') = Cardinality(B) + 1
      /\ c \in B /\ c \notin B' => Cardinality(B') = Cardinality(B) - 1
      /\ (c \in B <=> c \in B') => Cardinality(B') = Cardinality(B)
  BY <1>2, <1>4, SizeStep
<1>6. /\ c \notin U /\ c \in U' => Cardinality(U') = Cardinality(U) + 1
      /\ c \in U /\ c \notin U' => Cardinality(U') = Cardinality(U) - 1
      /\ (c \in U <=> c \in U') => Cardinality(U') = Cardinality(U)
  BY <1>3, <1>4, SizeStep
<1> QED
  BY <1>1, <1>2, <1>3, <1>5, <1>6

\* RefsBalanced with its two counts as naturals, slot by slot.
LEMMA Balance ==
  /\ RefsBalanced <=>
       \A s \in Slots : refs[s] + Binds[s] = (IF boards[s] = {} THEN 0 ELSE 1) + Unbinds[s]
  /\ \A s \in Slots : Binds[s] \in Nat /\ Unbinds[s] \in Nat
  BY AmongFinite DEF RefsBalanced, Binds, Unbinds

\* The same after a step.
LEMMA BalanceNext ==
  (\A s \in Slots : refs'[s] + Binds'[s] = (IF boards'[s] = {} THEN 0 ELSE 1) + Unbinds'[s])
    => RefsBalanced'
  BY DEF RefsBalanced, Binds, Unbinds

(***************************************************************************)
(* What the counts say of one slot: at most one client is binding it, and  *)
(* whoever is subscribing or unbinding finds it counted.                   *)
(***************************************************************************)
LEMMA SlotFacts ==
  ASSUME IInv, NEW s \in Slots
  PROVE  /\ \A c \in Clients : at[c] = s /\ pc[c] = "subscribe" => refs[s] >= 1
         /\ \A c \in Clients : at[c] = s /\ pc[c] = "unbind" => refs[s] >= 1
<1> DEFINE B == Among(s, {"bind"})
           U == Among(s, {"unbind"})
           h == IF boards[s] = {} THEN 0 ELSE 1
<1> USE DEF IInv
<1>1. refs[s] \in Nat /\ refs[s] + Cardinality(B) = h + Cardinality(U)
  BY DEF Typing, RefsBalanced
<1>2. Cardinality(B) \in Nat /\ Cardinality(U) \in Nat /\ IsFiniteSet(B) /\ IsFiniteSet(U)
  BY AmongFinite
<1>3. Cardinality(B) <= h
  <2>1. CASE B = {}
    BY <2>1, FS_EmptySet
  <2>2. CASE B # {}
    <3>1. PICK b \in B : TRUE
      BY <2>2
    <3>2. B = {b}
      BY <3>1 DEF OneBinder, Among, Entering
    <3>3. b \in boards[s]
      BY <3>1 DEF Hosted, Among, Entering
    <3>4. Cardinality(B) = 1
      BY <3>2, FS_Singleton
    <3> QED
      BY <3>3, <3>4
  <2> QED
    BY <2>1, <2>2
<1>4. ASSUME NEW c \in Clients, at[c] = s, pc[c] = "subscribe"
      PROVE  refs[s] >= 1
  <2>1. B = {}
    BY <1>4 DEF OneBinder, Among, Entering
  <2>2. Cardinality(B) = 0
    BY <2>1, FS_EmptySet
  <2>3. c \in boards[s]
    BY <1>4 DEF Hosted, Entering
  <2> QED
    BY <1>1, <1>2, <2>2, <2>3
<1>5. ASSUME NEW c \in Clients, at[c] = s, pc[c] = "unbind"
      PROVE  refs[s] >= 1
  <2>1. c \in U
    BY <1>5 DEF Among
  <2>2. Cardinality(U) # 0
    BY <2>1, <1>2, FS_EmptySet
  <2> QED
    BY <1>1, <1>2, <1>3, <2>2
<1> QED
  BY <1>4, <1>5

LEMMA InitIInv == Init => IInv
<1> SUFFICES ASSUME Init PROVE IInv
  OBVIOUS
<1>1. Typing /\ Placed /\ Hosted /\ OneBinder /\ SubscriptionBacked
  BY NowhereIsNoSlot
  DEF Init, Typing, Placed, Hosted, OneBinder, SubscriptionBacked, Entering, Phases
<1>2. RefsBalanced
  <2> SUFFICES ASSUME NEW s \in Slots
               PROVE  refs[s] + Cardinality(Among(s, {"bind"})) =
                        (IF boards[s] = {} THEN 0 ELSE 1) + Cardinality(Among(s, {"unbind"}))
    BY DEF RefsBalanced
  <2>1. Among(s, {"bind"}) = {} /\ Among(s, {"unbind"}) = {}
    BY DEF Init, Among
  <2> QED
    BY <2>1, FS_EmptySet DEF Init
<1> QED
  BY <1>1, <1>2 DEF IInv

-----------------------------------------------------------------------------
(***************************************************************************)
(* One lemma per action.  Each first shows the parts that say where the    *)
(* connections are, then the counts, then the subscriptions.               *)
(***************************************************************************)
LEMMA AddStep ==
  ASSUME IInv, NEW c \in Clients, NEW s \in Slots, Add(c, s)
  PROVE  IInv'
<1>0. Typing /\ Placed /\ Hosted /\ OneBinder /\ RefsBalanced /\ SubscriptionBacked
  BY DEF IInv
<1>1. /\ pc[c] = "off" /\ at[c] = Nowhere
      /\ refs' = refs /\ subscribed' = subscribed
      /\ \A d \in Clients \ {c} : at'[d] = at[d] /\ pc'[d] = pc[d]
      /\ at'[c] = s
      /\ pc'[c] = IF boards[s] = {} THEN "bind" ELSE "open"
      /\ \A z \in Slots : boards'[z] = IF z = s THEN boards[s] \union {c} ELSE boards[z]
  BY <1>0 DEF Add, Typing, Placed
<1>2. Typing'
  BY <1>0 DEF Add, Typing, Phases
<1>3. Placed' /\ Hosted'
  BY <1>0, <1>1, NowhereIsNoSlot DEF Typing, Placed, Hosted, Entering
<1>4. OneBinder'
  BY <1>0, <1>1 DEF OneBinder, Hosted, Entering
<1>5. RefsBalanced'
  <2>1. \A z \in Slots :
          /\ Unbinds'[z] = Unbinds[z]
          /\ Binds'[z] = IF z = s /\ boards[s] = {} THEN Binds[z] + 1 ELSE Binds[z]
    BY <1>1, CountStep
  <2>2. \A z \in Slots : boards'[z] = {} <=> boards[z] = {} /\ z # s
    BY <1>1
  <2> QED
    BY <1>0, <1>1, <2>1, <2>2, Balance, BalanceNext DEF Typing
<1>6. SubscriptionBacked'
  BY <1>0, <1>1 DEF SubscriptionBacked
<1> QED
  BY <1>2, <1>3, <1>4, <1>5, <1>6 DEF IInv

LEMMA BindBoardStep ==
  ASSUME IInv, NEW c \in Clients, BindBoard(c)
  PROVE  IInv'
<1>0. Typing /\ Placed /\ Hosted /\ OneBinder /\ RefsBalanced /\ SubscriptionBacked
  BY DEF IInv
<1>1. /\ pc[c] = "bind" /\ at[c] \in Slots
      /\ at' = at /\ boards' = boards /\ subscribed' = subscribed
      /\ \A d \in Clients \ {c} : pc'[d] = pc[d]
      /\ pc'[c] = IF refs[at[c]] = 0 THEN "subscribe" ELSE "open"
      /\ \A z \in Slots : refs'[z] = IF z = at[c] THEN refs[z] + 1 ELSE refs[z]
  BY <1>0 DEF BindBoard, Typing, Placed
<1>2. Typing'
  BY <1>0, <1>1 DEF BindBoard, Typing, Phases
<1>3. Placed' /\ Hosted' /\ OneBinder'
  BY <1>0, <1>1 DEF Typing, Placed, Hosted, OneBinder, Entering
<1>4. RefsBalanced'
  <2>1. \A z \in Slots :
          /\ Unbinds'[z] = Unbinds[z]
          /\ Binds'[z] = IF z = at[c] THEN Binds[z] - 1 ELSE Binds[z]
    BY <1>1, CountStep
  <2> QED
    BY <1>0, <1>1, <2>1, Balance, BalanceNext DEF Typing
<1>5. SubscriptionBacked'
  BY <1>0, <1>1 DEF Typing, SubscriptionBacked
<1> QED
  BY <1>2, <1>3, <1>4, <1>5 DEF IInv

LEMMA SubscribeStep ==
  ASSUME IInv, NEW c \in Clients, Subscribe(c)
  PROVE  IInv'
<1>0. Typing /\ Placed /\ Hosted /\ OneBinder /\ RefsBalanced /\ SubscriptionBacked
  BY DEF IInv
<1>1. /\ pc[c] = "subscribe" /\ at[c] \in Slots
      /\ at' = at /\ boards' = boards /\ refs' = refs
      /\ subscribed' = subscribed \union {at[c]}
      /\ \A d \in Clients \ {c} : pc'[d] = pc[d]
      /\ pc'[c] = "open"
  BY <1>0 DEF Subscribe, Typing, Placed
<1>2. Typing'
  BY <1>0, <1>1 DEF Subscribe, Typing, Phases
<1>3. Placed' /\ Hosted' /\ OneBinder'
  BY <1>0, <1>1 DEF Typing, Placed, Hosted, OneBinder, Entering
<1>4. RefsBalanced'
  <2>1. \A z \in Slots : Unbinds'[z] = Unbinds[z] /\ Binds'[z] = Binds[z]
    BY <1>1, CountStep
  <2> QED
    BY <1>0, <1>1, <2>1, Balance, BalanceNext DEF Typing
<1>5. SubscriptionBacked'
  <2>1. refs[at[c]] > 0
    BY <1>0, <1>1, SlotFacts DEF Typing
  <2> QED
    BY <1>0, <1>1, <2>1 DEF SubscriptionBacked
<1> QED
  BY <1>2, <1>3, <1>4, <1>5 DEF IInv

LEMMA RemoveStep ==
  ASSUME IInv, NEW c \in Clients, Remove(c)
  PROVE  IInv'
<1>0. Typing /\ Placed /\ Hosted /\ OneBinder /\ RefsBalanced /\ SubscriptionBacked
  BY DEF IInv
<1>1. /\ pc[c] = "open" /\ at[c] \in Slots /\ c \in boards[at[c]]
      /\ refs' = refs /\ subscribed' = subscribed
      /\ \A d \in Clients \ {c} : at'[d] = at[d] /\ pc'[d] = pc[d]
      /\ pc'[c] = IF boards[at[c]] = {c} THEN "unbind" ELSE "off"
      /\ at'[c] = IF boards[at[c]] = {c} THEN at[c] ELSE Nowhere
      /\ \A z \in Slots : boards'[z] = IF z = at[c] THEN boards[z] \ {c} ELSE boards[z]
  <2>1. pc[c] = "open" /\ at[c] \in Slots /\ c \in boards[at[c]]
    BY <1>0 DEF Remove, Typing, Placed, Hosted
  <2>2. CASE boards[at[c]] = {c}
    BY <1>0, <2>1, <2>2 DEF Remove, Leave, Typing
  <2>3. CASE boards[at[c]] # {c}
    BY <1>0, <2>1, <2>3 DEF Remove, Leave, Typing
  <2> QED
    BY <2>2, <2>3
<1>2. Typing'
  BY <1>0, <1>1 DEF Remove, Leave, Typing, Phases
<1>3. Placed' /\ Hosted' /\ OneBinder'
  <2>1. at[c] # Nowhere
    BY <1>1, NowhereIsNoSlot
  <2>2. Placed'
    BY <1>0, <1>1, <2>1 DEF Placed
  <2>3. Hosted'
    <3> SUFFICES ASSUME NEW d \in Clients, NEW z \in Slots
                 PROVE  d \in boards'[z] <=> at'[d] = z /\ pc'[d] \in Entering \union {"open"}
      BY DEF Hosted, Entering
    <3>1. d \in boards[z] <=> at[d] = z /\ pc[d] \in Entering \union {"open"}
      BY <1>0 DEF Hosted
    <3>2. CASE d = c
      BY <1>1, <3>1, <3>2, NowhereIsNoSlot DEF Entering
    <3>3. CASE d # c
      <4>1. d \in boards'[z] <=> d \in boards[z]
        BY <1>1, <3>3
      <4> QED
        BY <1>1, <3>1, <3>3, <4>1
    <3> QED
      BY <3>2, <3>3
  <2>4. OneBinder'
    BY <1>0, <1>1 DEF OneBinder, Entering
  <2> QED
    BY <2>2, <2>3, <2>4
<1>4. RefsBalanced'
  <2> DEFINE last(z) == z = at[c] /\ boards[at[c]] = {c}
  <2>1. \A z \in Slots :
          /\ Binds'[z] = Binds[z]
          /\ Unbinds'[z] = IF last(z) THEN Unbinds[z] + 1 ELSE Unbinds[z]
    BY <1>1, CountStep
  <2>2. \A z \in Slots : boards'[z] = {} <=> boards[z] = {} \/ last(z)
    BY <1>1
  <2>3. \A z \in Slots : last(z) => boards[z] # {}
    OBVIOUS
  <2> QED
    BY <1>0, <1>1, <2>1, <2>2, <2>3, Balance, BalanceNext DEF Typing
<1>5. SubscriptionBacked'
  BY <1>0, <1>1 DEF SubscriptionBacked
<1> QED
  BY <1>2, <1>3, <1>4, <1>5 DEF IInv

LEMMA UnbindBoardStep ==
  ASSUME IInv, NEW c \in Clients, UnbindBoard(c)
  PROVE  IInv'
<1>0. Typing /\ Placed /\ Hosted /\ OneBinder /\ RefsBalanced /\ SubscriptionBacked
  BY DEF IInv
<1>1. /\ pc[c] = "unbind" /\ at[c] \in Slots
      /\ boards' = boards /\ subscribed' = subscribed
      /\ \A d \in Clients \ {c} : at'[d] = at[d] /\ pc'[d] = pc[d]
      /\ pc'[c] = IF refs[at[c]] <= 1 THEN "unsubscribe" ELSE "off"
      /\ at'[c] = IF refs[at[c]] <= 1 THEN at[c] ELSE Nowhere
  BY <1>0 DEF UnbindBoard, Leave, Typing, Placed
<1>2. refs[at[c]] >= 1 /\ refs[at[c]] \in Nat
  BY <1>0, <1>1, SlotFacts DEF Typing
<1>3. \A z \in Slots : refs'[z] = IF z = at[c] THEN refs[z] - 1 ELSE refs[z]
  BY <1>0, <1>2 DEF UnbindBoard, Typing
<1>4. Typing'
  BY <1>0, <1>1, <1>2 DEF UnbindBoard, Leave, Typing, Phases
<1>5. Placed' /\ Hosted' /\ OneBinder'
  BY <1>0, <1>1, NowhereIsNoSlot DEF Typing, Placed, Hosted, OneBinder, Entering
<1>6. RefsBalanced'
  <2>1. \A z \in Slots :
          /\ Binds'[z] = Binds[z]
          /\ Unbinds'[z] = IF z = at[c] THEN Unbinds[z] - 1 ELSE Unbinds[z]
    BY <1>1, CountStep
  <2>2. \A z \in Slots :
          /\ refs[z] \in Nat /\ Binds[z] \in Nat /\ Unbinds[z] \in Nat
          /\ refs[z] + Binds[z] = (IF boards[z] = {} THEN 0 ELSE 1) + Unbinds[z]
    BY <1>0, Balance DEF Typing
  <2>3. \A z \in Slots :
          refs'[z] + Binds'[z] = (IF boards'[z] = {} THEN 0 ELSE 1) + Unbinds'[z]
    <3> TAKE z \in Slots
    <3>1. boards'[z] = boards[z]
      BY <1>1
    <3>2. CASE z = at[c]
      BY <1>3, <2>1, <2>2, <3>1, <3>2
    <3>3. CASE z # at[c]
      BY <1>3, <2>1, <2>2, <3>1, <3>3
    <3> QED
      BY <3>2, <3>3
  <2> QED
    BY <2>3, BalanceNext
<1>7. SubscriptionBacked'
  BY <1>0, <1>1, <1>2, <1>3 DEF Typing, SubscriptionBacked
<1> QED
  BY <1>4, <1>5, <1>6, <1>7 DEF IInv

LEMMA UnsubscribeStep ==
  ASSUME IInv, NEW c \in Clients, Unsubscribe(c)
  PROVE  IInv'
<1>0. Typing /\ Placed /\ Hosted /\ OneBinder /\ RefsBalanced /\ SubscriptionBacked
  BY DEF IInv
<1>1. /\ pc[c] = "unsubscribe" /\ at[c] \in Slots
      /\ boards' = boards /\ refs' = refs
      /\ subscribed' = subscribed \ {at[c]}
      /\ \A d \in Clients \ {c} : at'[d] = at[d] /\ pc'[d] = pc[d]
      /\ pc'[c] = "off" /\ at'[c] = Nowhere
  BY <1>0 DEF Unsubscribe, Leave, Typing, Placed
<1>2. Typing'
  BY <1>0, <1>1 DEF Unsubscribe, Leave, Typing, Phases
<1>3. Placed' /\ Hosted' /\ OneBinder'
  BY <1>0, <1>1, NowhereIsNoSlot DEF Typing, Placed, Hosted, OneBinder, Entering
<1>4. RefsBalanced'
  <2>1. \A z \in Slots : Unbinds'[z] = Unbinds[z] /\ Binds'[z] = Binds[z]
    BY <1>1, CountStep
  <2> QED
    BY <1>0, <1>1, <2>1, Balance, BalanceNext DEF Typing
<1>5. SubscriptionBacked'
  BY <1>0, <1>1 DEF Typing, SubscriptionBacked
<1> QED
  BY <1>2, <1>3, <1>4, <1>5 DEF IInv

LEMMA NextIInv == IInv /\ [Next]_bindVars => IInv'
<1> SUFFICES ASSUME IInv, [Next]_bindVars
             PROVE  IInv'
  OBVIOUS
<1>1. ASSUME NEW c \in Clients, NEW s \in Slots, Add(c, s)
      PROVE  IInv'
  BY <1>1, AddStep
<1>2. ASSUME NEW c \in Clients, BindBoard(c)
      PROVE  IInv'
  BY <1>2, BindBoardStep
<1>3. ASSUME NEW c \in Clients, Subscribe(c)
      PROVE  IInv'
  BY <1>3, SubscribeStep
<1>4. ASSUME NEW c \in Clients, Remove(c)
      PROVE  IInv'
  BY <1>4, RemoveStep
<1>5. ASSUME NEW c \in Clients, UnbindBoard(c)
      PROVE  IInv'
  BY <1>5, UnbindBoardStep
<1>6. ASSUME NEW c \in Clients, Unsubscribe(c)
      PROVE  IInv'
  BY <1>6, UnsubscribeStep
<1>7. CASE UNCHANGED bindVars
  BY <1>7 DEF bindVars, IInv, Typing, Placed, Hosted, OneBinder, RefsBalanced,
              SubscriptionBacked, Among
<1> QED
  BY <1>1, <1>2, <1>3, <1>4, <1>5, <1>6, <1>7 DEF Next, Progress

\* The inductive invariant holds in every reachable state.
THEOREM InductiveInvariant == Spec => []IInv
  BY InitIInv, NextIInv, PTL DEF Spec

-----------------------------------------------------------------------------
(***************************************************************************)
(* The counts of the two locked maps of a node always agree, up to the     *)
(* binds and unbinds that Hub.add and Hub.remove have decided and the      *)
(* RedisBroadcaster has not counted yet (hub.go:66-99, redis.go:76-103).   *)
(***************************************************************************)
THEOREM RefsAlwaysBalanced == Spec => []RefsBalanced
  BY InductiveInvariant, PTL DEF IInv

(***************************************************************************)
(* No interleaving of the unlocked Subscribe and Unsubscribe calls leaves  *)
(* a board subscribed that nobody serves or is about to drop               *)
(* (redis.go:82-86, 98-102).                                               *)
(***************************************************************************)
THEOREM SubscriptionsNeverLeak == Spec => []NoLeakedSubscription
<1>1. IInv => NoLeakedSubscription
  <2> SUFFICES ASSUME IInv, NEW s \in subscribed, boards[s] = {},
                      Among(s, {"unbind", "unsubscribe"}) = {}
               PROVE  FALSE
    BY DEF NoLeakedSubscription
  <2>1. s \in Slots /\ refs[s] \in Nat
    BY DEF IInv, Typing
  <2>2. refs[s] > 0
    BY DEF IInv, SubscriptionBacked, Among
  <2>3. Among(s, {"unbind"}) = {}
    BY DEF Among
  <2>4. refs[s] + Cardinality(Among(s, {"bind"})) = Cardinality(Among(s, {"unbind"}))
    BY <2>1, AmongFinite DEF IInv, RefsBalanced
  <2> QED
    BY <2>1, <2>2, <2>3, <2>4, AmongFinite, FS_EmptySet
<1> QED
  BY <1>1, InductiveInvariant, PTL

(***************************************************************************)
(* Type correctness; a board's count never exceeds the connections.        *)
(***************************************************************************)
THEOREM TypeCorrect == Spec => []TypeOK
<1>1. IInv => TypeOK
  <2> SUFFICES ASSUME IInv, NEW s \in Slots
               PROVE  refs[s] <= Cardinality(Clients)
    BY ClientsFinite, FS_CardinalityType DEF IInv, Typing, TypeOK
  <2> DEFINE B == Among(s, {"bind"})
             U == Among(s, {"unbind"})
  <2>1. /\ refs[s] \in Nat /\ Cardinality(B) \in Nat /\ Cardinality(U) \in Nat
        /\ Cardinality(Clients) \in Nat
        /\ refs[s] + Cardinality(B) = (IF boards[s] = {} THEN 0 ELSE 1) + Cardinality(U)
    BY ClientsFinite, FS_CardinalityType, AmongFinite DEF IInv, Typing, RefsBalanced
  <2>2. CASE boards[s] = {}
    <3>1. Cardinality(U) <= Cardinality(Clients)
      BY ClientsFinite, FS_Subset DEF Among
    <3> QED
      BY <2>1, <2>2, <3>1
  <2>3. CASE boards[s] # {}
    <3>1. PICK h \in boards[s] : TRUE
      BY <2>3
    <3>2. h \in Clients /\ h \notin U
      BY <3>1 DEF IInv, Typing, Hosted, Entering, Among
    <3>3. Cardinality(U \union {h}) = Cardinality(U) + 1
      BY <3>2, AmongFinite, FS_AddElement
    <3>4. Cardinality(U \union {h}) <= Cardinality(Clients)
      BY <3>2, ClientsFinite, FS_Subset DEF Among
    <3> QED
      BY <2>1, <2>3, <3>3, <3>4
  <2> QED
    BY <2>2, <2>3
<1> QED
  BY <1>1, InductiveInvariant, PTL

-----------------------------------------------------------------------------
(* Relay. *)

OnBoard == {"bind", "subscribe", "open"}
Tagged == [origin : Nodes, board : Boards, frame : Frames]

\* Where the connections are, as in HubBinding.
Places ==
  /\ boards \in [Slots -> SUBSET Clients]
  /\ at \in [Clients -> Slots \union {Nowhere}]
  /\ pc \in [Clients -> Phases]
  /\ \A c \in Clients : at[c] = Nowhere <=> pc[c] = "off"
  /\ \A c \in Clients, s \in Slots : c \in boards[s] <=> at[c] = s /\ pc[c] \in OnBoard

Shape ==
  /\ sent \in 0 .. MaxFrames
  /\ author \in [Frames -> Clients \union {Nowhere}]
  /\ pub \in [Clients -> {<<>>} \union (Frames \X {"relay", "record"})]
  /\ wire \in [Nodes -> Seq(Tagged)]
  /\ inbox \in [Clients -> Seq(Frames)]
  /\ stored \in [Frames -> Nat]

\* Only frames that were sent are anywhere.
Numbered ==
  /\ \A f \in Frames : f > sent => author[f] = Nowhere /\ stored[f] = 0
  /\ \A c \in Clients : \A i \in DOMAIN inbox[c] : inbox[c][i] <= sent
  /\ \A n \in Nodes : \A i \in DOMAIN wire[n] : wire[n][i].frame <= sent

\* Authors and listeners are connected; what is published was not recorded yet.
Present ==
  /\ \A f \in Frames : author[f] # Nowhere => pc[author[f]] = "open"
  /\ \A c \in Clients : inbox[c] # <<>> => pc[c] \in OnBoard
  /\ \A c \in Clients : pub[c] # <<>> =>
       pc[c] = "open" /\ author[pub[c][1]] = c /\ stored[pub[c][1]] = 0

\* f and g are two frames, and f the earlier one if both are of one author, as who says.
Before(who, f, g) == f # g /\ (who[f] = who[g] /\ who[f] # Nowhere => f < g)

InboxOrder ==
  \A c \in Clients : \A i, j \in DOMAIN inbox[c] : i < j => Before(author, inbox[c][i], inbox[c][j])

WireOrder ==
  \A n \in Nodes : \A i, j \in DOMAIN wire[n] : i < j => Before(author, wire[n][i].frame, wire[n][j].frame)

\* The tag is the node of the author.
WireTags ==
  \A n \in Nodes : \A i \in DOMAIN wire[n] :
    author[wire[n][i].frame] # Nowhere => wire[n][i].origin = at[author[wire[n][i].frame]][1]

NotOwn == \A c \in Clients : \A i \in DOMAIN inbox[c] : author[inbox[c][i]] # c

\* What will be delivered to c comes after what c has heard.
HeardBeforeWire ==
  \A c \in Clients : \A i \in DOMAIN inbox[c] : \A n \in Nodes : \A j \in DOMAIN wire[n] :
    n = at[c][1] /\ wire[n][j].origin # n => Before(author, inbox[c][i], wire[n][j].frame)

\* What is about to be relayed comes after what is on any wire, and what is heard elsewhere.
BeforeRelay ==
  \A a \in Clients : pub[a] # <<>> /\ pub[a][2] = "relay" =>
    /\ \A n \in Nodes : \A j \in DOMAIN wire[n] : Before(author, wire[n][j].frame, pub[a][1])
    /\ \A c \in Clients : \A i \in DOMAIN inbox[c] :
         at[c][1] # at[a][1] => Before(author, inbox[c][i], pub[a][1])

Order == InboxOrder /\ WireOrder /\ WireTags /\ NotOwn /\ HeardBeforeWire /\ BeforeRelay

Relayed == Places /\ Shape /\ Numbered /\ Present /\ Order /\ StoredOnce

-----------------------------------------------------------------------------
\* Sequences with an element more at the end, one less at the head, or cut off.
LEMMA Appended ==
  ASSUME NEW S, NEW s \in Seq(S), NEW x \in S
  PROVE  /\ Append(s, x) \in Seq(S) /\ Append(s, x) # <<>>
         /\ DOMAIN Append(s, x) = 1 .. Len(s) + 1 /\ DOMAIN s = 1 .. Len(s) /\ Len(s) \in Nat
         /\ \A i \in 1 .. Len(s) : Append(s, x)[i] = s[i]
         /\ Append(s, x)[Len(s) + 1] = x
  OBVIOUS

LEMMA Tailed ==
  ASSUME NEW S, NEW s \in Seq(S), s # <<>>
  PROVE  /\ Tail(s) \in Seq(S) /\ Head(s) \in S /\ Head(s) = s[1] /\ 1 \in DOMAIN s
         /\ DOMAIN s \subseteq Nat /\ DOMAIN Tail(s) \subseteq Nat \ {0}
         /\ \A i \in DOMAIN Tail(s) : i + 1 \in DOMAIN s /\ Tail(s)[i] = s[i + 1]
  OBVIOUS

LEMMA Cut ==
  ASSUME NEW S, NEW s \in Seq(S), NEW k \in DOMAIN s
  PROVE  /\ SubSeq(s, 1, k - 1) \in Seq(S)
         /\ \A i \in DOMAIN SubSeq(s, 1, k - 1) :
              i \in DOMAIN s /\ SubSeq(s, 1, k - 1)[i] = s[i]
  OBVIOUS

\* What waits on a wire, and what was heard.
LEMMA WireElement ==
  ASSUME NEW w \in [Nodes -> Seq(Tagged)], NEW n \in Nodes, NEW i \in DOMAIN w[n]
  PROVE  w[n][i] \in Tagged /\ w[n][i].frame \in Frames /\ w[n][i].origin \in Nodes
<1>1. w[n] \in Seq(Tagged)
  OBVIOUS
<1>2. w[n][i] \in Tagged
  BY <1>1
<1> QED BY <1>2 DEF Tagged

LEMMA InboxElement ==
  ASSUME NEW b \in [Clients -> Seq(Frames)], NEW c \in Clients, NEW i \in DOMAIN b[c]
  PROVE  b[c][i] \in Frames /\ b[c] # <<>>
<1>1. b[c] \in Seq(Frames)
  OBVIOUS
<1> QED BY <1>1

-----------------------------------------------------------------------------
(* Where the connections are. *)

LEMMA PlacesAdd ==
  ASSUME Places, NEW c \in Clients, NEW s \in Slots, Add(c, s)
  PROVE  Places' /\ pc[c] = "off" /\ \A d \in Clients \ {c} : at'[d] = at[d] /\ pc'[d] = pc[d]
<1>1. /\ pc[c] = "off" /\ at[c] = Nowhere /\ at'[c] = s
      /\ pc'[c] = IF boards[s] = {} THEN "bind" ELSE "open"
      /\ \A d \in Clients \ {c} : at'[d] = at[d] /\ pc'[d] = pc[d]
      /\ \A z \in Slots : boards'[z] = IF z = s THEN boards[z] \union {c} ELSE boards[z]
  <2>1. pc[c] = "off" /\ at[c] = Nowhere
    BY DEF Places, Add
  <2>2. /\ at' = [at EXCEPT ![c] = s] /\ at \in [Clients -> Slots \union {Nowhere}]
        /\ boards' = [boards EXCEPT ![s] = @ \union {c}] /\ boards \in [Slots -> SUBSET Clients]
        /\ pc' = [pc EXCEPT ![c] = IF boards[s] = {} THEN "bind" ELSE "open"]
        /\ pc \in [Clients -> Phases]
    BY DEF Places, Add
  <2> QED BY <2>1, <2>2
<1>2. /\ boards' \in [Slots -> SUBSET Clients]
      /\ at' \in [Clients -> Slots \union {Nowhere}]
      /\ pc' \in [Clients -> Phases]
  BY DEF Places, Add, Phases
<1>3. \A d \in Clients : at'[d] = Nowhere <=> pc'[d] = "off"
  BY <1>1, NowhereIsNoSlot DEF Places
<1>4. ASSUME NEW d \in Clients, NEW z \in Slots
      PROVE  d \in boards'[z] <=> at'[d] = z /\ pc'[d] \in OnBoard
  <2>1. CASE d = c
    <3>1. c \notin boards[z] /\ at'[c] = s /\ pc'[c] \in OnBoard
      BY <1>1, NowhereIsNoSlot DEF Places, OnBoard
    <3> QED BY <1>1, <2>1, <3>1
  <2>2. CASE d # c
    <3>1. d \in boards[z] <=> at[d] = z /\ pc[d] \in OnBoard
      BY DEF Places
    <3>2. d \in boards'[z] <=> d \in boards[z]
      <4>1. CASE z = s
        <5>1. boards'[z] = boards[z] \union {c}
          BY <1>1, <4>1
        <5> QED BY <5>1, <2>2
      <4>2. CASE z # s
        BY <1>1, <4>2
      <4> QED BY <4>1, <4>2
    <3> QED BY <1>1, <2>2, <3>1, <3>2
  <2> QED BY <2>1, <2>2
<1> QED BY <1>1, <1>2, <1>3, <1>4 DEF Places

\* A goroutine inside add or remove moves on; its connection stays, or is over already.
LEMMA PlacesProgress ==
  ASSUME Places, NEW c \in Clients, Progress(c)
  PROVE  /\ Places'
         /\ pc[c] \in {"bind", "subscribe"} => pc'[c] \in OnBoard /\ at'[c] = at[c]
         /\ pc[c] \notin {"off", "open"}
         /\ \A d \in Clients \ {c} : at'[d] = at[d] /\ pc'[d] = pc[d]
<1>1. CASE pc[c] \in {"bind", "subscribe"}
  <2>1. /\ at' = at /\ boards' = boards /\ pc'[c] \in {"subscribe", "open"}
        /\ pc' \in [Clients -> Phases]
        /\ \A d \in Clients \ {c} : pc'[d] = pc[d]
    BY <1>1 DEF Progress, BindBoard, Subscribe, UnbindBoard, Unsubscribe, Places, Phases
  <2>2. Places'
    BY <1>1, <2>1 DEF Places, OnBoard
  <2> QED BY <1>1, <2>1, <2>2 DEF OnBoard
<1>2. CASE pc[c] \in {"unbind", "unsubscribe"}
  <2>1. /\ boards' = boards
        /\ \/ pc'[c] = "unsubscribe" /\ at'[c] = at[c]
           \/ pc'[c] = "off" /\ at'[c] = Nowhere
        /\ pc' \in [Clients -> Phases] /\ at' \in [Clients -> Slots \union {Nowhere}]
        /\ \A d \in Clients \ {c} : at'[d] = at[d] /\ pc'[d] = pc[d]
    BY <1>2 DEF Progress, BindBoard, Subscribe, UnbindBoard, Unsubscribe, Leave, Places, Phases
  <2>2. Places'
    BY <1>2, <2>1, NowhereIsNoSlot DEF Places, OnBoard
  <2> QED BY <1>2, <2>1, <2>2
<1> QED
  BY <1>1, <1>2 DEF Progress, BindBoard, Subscribe, UnbindBoard, Unsubscribe

LEMMA PlacesRemove ==
  ASSUME Places, NEW c \in Clients, Remove(c)
  PROVE  Places' /\ pc[c] = "open" /\ \A d \in Clients \ {c} : at'[d] = at[d] /\ pc'[d] = pc[d]
<1>1. pc[c] = "open" /\ at[c] \in Slots
  BY DEF Places, Remove
<1>2. /\ \/ pc'[c] = "unbind" /\ at'[c] = at[c]
         \/ pc'[c] = "off" /\ at'[c] = Nowhere
      /\ pc' \in [Clients -> Phases] /\ at' \in [Clients -> Slots \union {Nowhere}]
      /\ \A d \in Clients \ {c} : at'[d] = at[d] /\ pc'[d] = pc[d]
  BY <1>1 DEF Places, Remove, Leave, Phases
<1>3. /\ boards' \in [Slots -> SUBSET Clients]
      /\ \A z \in Slots : boards'[z] = IF z = at[c] THEN boards[z] \ {c} ELSE boards[z]
  BY <1>1 DEF Places, Remove
<1>4. \A d \in Clients : at'[d] = Nowhere <=> pc'[d] = "off"
  BY <1>1, <1>2, NowhereIsNoSlot DEF Places
<1>5. \A d \in Clients, z \in Slots : d \in boards'[z] <=> at'[d] = z /\ pc'[d] \in OnBoard
  BY <1>1, <1>2, <1>3, NowhereIsNoSlot DEF Places, OnBoard
<1> QED BY <1>1, <1>2, <1>3, <1>4, <1>5 DEF Places

-----------------------------------------------------------------------------
LEMMA RelayedInit == RelayInit => Relayed
<1> SUFFICES ASSUME RelayInit PROVE Relayed
  OBVIOUS
<1>1. Places
  BY NowhereIsNoSlot DEF RelayInit, Init, Places, Phases, OnBoard
<1>2. Shape /\ Numbered /\ Present
  BY MaxFramesNat DEF RelayInit, Shape, Numbered, Present, Frames
<1>3. Order
  BY DEF RelayInit, Order, InboxOrder, WireOrder, WireTags, NotOwn, HeardBeforeWire, BeforeRelay
<1>4. StoredOnce
  BY NowhereIsNoClient DEF RelayInit, StoredOnce, By
<1> QED BY <1>1, <1>2, <1>3, <1>4 DEF Relayed

\* No frame moves, and who is on a board stays there.
LEMMA QuietStep ==
  ASSUME Relayed, UNCHANGED relayVars, Places',
         \A d \in Clients : pc[d] \in OnBoard => pc'[d] \in OnBoard /\ at'[d] = at[d],
         \A d \in Clients : pc[d] = "open" => pc'[d] = "open"
  PROVE  Relayed'
<1>0. Places /\ Shape /\ Numbered /\ Present /\ Order /\ StoredOnce
  BY DEF Relayed
<1>1. Shape' /\ Numbered' /\ StoredOnce'
  BY <1>0 DEF relayVars, Shape, Numbered, StoredOnce, By
<1>2. Present'
  BY <1>0 DEF relayVars, Shape, Present
<1>3. /\ \A a \in Clients : pub[a] # <<>> => at'[a] = at[a]
      /\ \A f \in Frames : author[f] # Nowhere => at'[author[f]] = at[author[f]]
      /\ \A c \in Clients : \A i \in DOMAIN inbox[c] : at'[c] = at[c]
  <2>1. \A a \in Clients : pub[a] # <<>> => at'[a] = at[a]
    BY <1>0 DEF Present, OnBoard
  <2>2. ASSUME NEW f \in Frames, author[f] # Nowhere PROVE at'[author[f]] = at[author[f]]
    <3>1. author[f] \in Clients /\ pc[author[f]] = "open"
      BY <1>0, <2>2 DEF Present, Shape
    <3> QED BY <3>1 DEF OnBoard
  <2>3. ASSUME NEW c \in Clients, NEW i \in DOMAIN inbox[c] PROVE at'[c] = at[c]
    <3>1. inbox[c] # <<>>
      BY <1>0, InboxElement DEF Shape
    <3> QED BY <1>0, <3>1 DEF Present
  <2> QED BY <2>1, <2>2, <2>3
<1>4. author' = author
  BY DEF relayVars
<1>5. InboxOrder' /\ WireOrder' /\ NotOwn'
  BY <1>0, <1>4 DEF Order, InboxOrder, WireOrder, NotOwn, relayVars
<1>6. WireTags'
  <2> SUFFICES ASSUME NEW n \in Nodes, NEW i \in DOMAIN wire[n],
                      author[wire[n][i].frame] # Nowhere
               PROVE  wire[n][i].origin = at'[author[wire[n][i].frame]][1]
    BY DEF WireTags, relayVars
  <2>1. wire[n][i].frame \in Frames
    BY <1>0, WireElement DEF Shape
  <2>2. wire[n][i].origin = at[author[wire[n][i].frame]][1]
    BY <1>0 DEF Order, WireTags
  <2> QED BY <1>3, <2>1, <2>2
<1>7. HeardBeforeWire'
  BY <1>0, <1>3, <1>4 DEF Order, HeardBeforeWire, relayVars
<1>8. BeforeRelay'
  BY <1>0, <1>3, <1>4 DEF Order, BeforeRelay, relayVars
<1> QED BY <1>1, <1>2, <1>5, <1>6, <1>7, <1>8 DEF Relayed, Order

\* The same for wires that lose their newest frames while nobody leaves.
LEMMA WireShrinks ==
  ASSUME Relayed, Places', UNCHANGED <<boards, at, pc, sent, stored, author, pub, inbox>>,
         wire' \in [Nodes -> Seq(Tagged)],
         \A n \in Nodes : \A i \in DOMAIN wire'[n] : i \in DOMAIN wire[n] /\ wire'[n][i] = wire[n][i]
  PROVE  Relayed'
<1>0. Places /\ Shape /\ Numbered /\ Present /\ Order /\ StoredOnce
  BY DEF Relayed
<1>1. Shape' /\ Present' /\ StoredOnce'
  BY <1>0 DEF Shape, Present, StoredOnce, By
<1>2. Numbered'
  BY <1>0 DEF Numbered
<1>3. InboxOrder' /\ NotOwn' /\ WireOrder'
  BY <1>0 DEF Order, InboxOrder, NotOwn, WireOrder
<1>4. WireTags'
  BY <1>0 DEF Order, WireTags
<1>5. HeardBeforeWire' /\ BeforeRelay'
  BY <1>0 DEF Order, HeardBeforeWire, BeforeRelay
<1> QED BY <1>1, <1>2, <1>3, <1>4, <1>5 DEF Relayed, Order

LEMMA RelayedConnect ==
  ASSUME Relayed, NEW c \in Clients, NEW s \in Slots, Connect(c, s)
  PROVE  Relayed'
<1>1. Places /\ Add(c, s) /\ UNCHANGED relayVars
  BY DEF Relayed, Connect
<1>2. Places' /\ pc[c] = "off" /\ \A d \in Clients \ {c} : at'[d] = at[d] /\ pc'[d] = pc[d]
  BY <1>1, PlacesAdd
<1> QED BY <1>1, <1>2, QuietStep DEF OnBoard

LEMMA RelayedProgress ==
  ASSUME Relayed, NEW c \in Clients, Progress(c), UNCHANGED relayVars
  PROVE  Relayed'
<1>1. /\ Places'
      /\ pc[c] \in {"bind", "subscribe"} => pc'[c] \in OnBoard /\ at'[c] = at[c]
      /\ pc[c] \notin {"off", "open"}
      /\ \A d \in Clients \ {c} : at'[d] = at[d] /\ pc'[d] = pc[d]
  BY PlacesProgress DEF Relayed
<1> QED BY <1>1, QuietStep DEF OnBoard

\* Some connections end; nothing else moves but for wires that lose their newest frames.
LEMMA ForgetStep ==
  ASSUME Relayed, NEW cs \in SUBSET Clients, Forget(cs), Places',
         \A d \in Clients \ cs : at'[d] = at[d] /\ pc'[d] = pc[d],
         \A d \in cs : pub'[d] = <<>>, \A d \in Clients \ cs : pub'[d] = pub[d],
         pub' \in [Clients -> {<<>>} \union (Frames \X {"relay", "record"})],
         wire' \in [Nodes -> Seq(Tagged)],
         \A n \in Nodes : \A i \in DOMAIN wire'[n] : i \in DOMAIN wire[n] /\ wire'[n][i] = wire[n][i],
         UNCHANGED <<sent, stored>>
  PROVE  Relayed'
<1>0. Places /\ Shape /\ Numbered /\ Present /\ Order /\ StoredOnce
  BY DEF Relayed
<1>1. /\ \A f \in Frames : author'[f] = IF author[f] \in cs THEN Nowhere ELSE author[f]
      /\ \A c \in Clients : inbox'[c] = IF c \in cs THEN <<>> ELSE inbox[c]
      /\ author' \in [Frames -> Clients \union {Nowhere}]
      /\ inbox' \in [Clients -> Seq(Frames)]
  BY <1>0 DEF Forget, Shape
<1>2. Shape'
  BY <1>0, <1>1 DEF Shape
<1>3. \A c \in Clients : \A i \in DOMAIN inbox'[c] :
        c \notin cs /\ i \in DOMAIN inbox[c] /\ inbox'[c][i] = inbox[c][i] /\ inbox[c][i] \in Frames
  BY <1>0, <1>1 DEF Shape
<1>4. \A f, g \in Frames : Before(author, f, g) => Before(author', f, g)
  BY <1>1 DEF Before
<1>5. \A n \in Nodes : \A i \in DOMAIN wire[n] : wire[n][i].frame \in Frames
  BY <1>0, WireElement DEF Shape
<1>6. ASSUME NEW a \in Clients, pub'[a] # <<>>
      PROVE  a \notin cs /\ pub'[a] = pub[a] /\ pub[a][1] \in Frames
  <2>1. a \notin cs /\ pub'[a] = pub[a]
    BY <1>6
  <2>2. pub[a] \in {<<>>} \union (Frames \X {"relay", "record"})
    BY <1>0 DEF Shape
  <2> QED BY <1>6, <2>1, <2>2
<1>7. Numbered'
  <2>1. \A f \in Frames : f > sent => author'[f] = Nowhere /\ stored[f] = 0
    BY <1>0, <1>1 DEF Numbered
  <2>2. \A c \in Clients : \A i \in DOMAIN inbox'[c] : inbox'[c][i] <= sent
    BY <1>0, <1>3 DEF Numbered
  <2>3. \A n \in Nodes : \A i \in DOMAIN wire'[n] : wire'[n][i].frame <= sent
    BY <1>0 DEF Numbered
  <2> QED BY <2>1, <2>2, <2>3 DEF Numbered
<1>8. Present'
  BY <1>0, <1>1, <1>3, <1>6 DEF Present, Shape, Places
<1>9. StoredOnce'
  <2>1. \A c \in Clients : By(c)' \subseteq By(c) /\ (c \in cs => By(c)' = {})
    <3> SUFFICES ASSUME NEW c \in Clients, NEW f \in By(c)'
                 PROVE  f \in By(c) /\ c \notin cs
      OBVIOUS
    <3>1. f \in Frames /\ author'[f] = c /\ c # Nowhere
      BY NowhereIsNoClient DEF By
    <3> QED BY <1>1, <3>1 DEF By
  <2>2. \A c \in Clients \ cs : pub'[c] = pub[c]
    OBVIOUS
  <2>3. \A f \in Frames : stored'[f] <= 1
    BY <1>0 DEF StoredOnce
  <2> QED BY <1>0, <2>1, <2>2, <2>3 DEF StoredOnce
<1>10. InboxOrder' /\ NotOwn'
  <2>1. InboxOrder'
    BY <1>0, <1>3, <1>4 DEF Order, InboxOrder
  <2>2. NotOwn'
    BY <1>0, <1>1, <1>3, NowhereIsNoClient DEF Order, NotOwn
  <2> QED BY <2>1, <2>2
<1>11. WireOrder'
  BY <1>0, <1>4, <1>5 DEF Order, WireOrder
<1>12. WireTags'
  <2> SUFFICES ASSUME NEW n \in Nodes, NEW i \in DOMAIN wire'[n],
                      author'[wire'[n][i].frame] # Nowhere
               PROVE  wire'[n][i].origin = at'[author'[wire'[n][i].frame]][1]
    BY DEF WireTags
  <2> DEFINE f == wire[n][i].frame
  <2>1. i \in DOMAIN wire[n] /\ wire'[n][i] = wire[n][i] /\ f \in Frames
    BY <1>5
  <2>2. author'[f] = author[f] /\ author[f] \in Clients \ cs
    BY <1>0, <1>1, <2>1 DEF Shape
  <2>3. wire[n][i].origin = at[author[f]][1]
    BY <1>0, <2>1, <2>2, NowhereIsNoClient DEF Order, WireTags
  <2> QED BY <2>1, <2>2, <2>3
<1>13. HeardBeforeWire'
  <2> SUFFICES ASSUME NEW c \in Clients, NEW i \in DOMAIN inbox'[c], NEW n \in Nodes,
                      NEW j \in DOMAIN wire'[n], n = at'[c][1], wire'[n][j].origin # n
               PROVE  Before(author', inbox'[c][i], wire'[n][j].frame)
    BY DEF HeardBeforeWire
  <2>1. c \notin cs /\ i \in DOMAIN inbox[c] /\ inbox'[c][i] = inbox[c][i] /\ inbox[c][i] \in Frames
    BY <1>3
  <2>2. j \in DOMAIN wire[n] /\ wire'[n][j] = wire[n][j] /\ wire[n][j].frame \in Frames
    BY <1>5
  <2>3. at'[c] = at[c]
    BY <2>1
  <2>4. Before(author, inbox[c][i], wire[n][j].frame)
    BY <1>0, <2>1, <2>2, <2>3 DEF Order, HeardBeforeWire
  <2> QED BY <1>4, <2>1, <2>2, <2>4
<1>14. BeforeRelay'
  <2> SUFFICES ASSUME NEW a \in Clients, pub'[a] # <<>>, pub'[a][2] = "relay"
               PROVE  /\ \A n \in Nodes : \A j \in DOMAIN wire'[n] :
                            Before(author', wire'[n][j].frame, pub'[a][1])
                      /\ \A c \in Clients : \A i \in DOMAIN inbox'[c] :
                            at'[c][1] # at'[a][1] => Before(author', inbox'[c][i], pub'[a][1])
    BY DEF BeforeRelay
  <2>1. a \notin cs /\ pub'[a] = pub[a] /\ pub[a][1] \in Frames /\ at'[a] = at[a]
    BY <1>6
  <2>2. ASSUME NEW n \in Nodes, NEW j \in DOMAIN wire'[n]
        PROVE  Before(author', wire'[n][j].frame, pub'[a][1])
    <3>1. j \in DOMAIN wire[n] /\ wire'[n][j] = wire[n][j] /\ wire[n][j].frame \in Frames
      BY <1>5
    <3>2. Before(author, wire[n][j].frame, pub[a][1])
      BY <1>0, <2>1, <3>1 DEF Order, BeforeRelay
    <3> QED BY <1>4, <2>1, <3>1, <3>2
  <2>3. ASSUME NEW c \in Clients, NEW i \in DOMAIN inbox'[c], at'[c][1] # at'[a][1]
        PROVE  Before(author', inbox'[c][i], pub'[a][1])
    <3>1. c \notin cs /\ i \in DOMAIN inbox[c] /\ inbox'[c][i] = inbox[c][i] /\ inbox[c][i] \in Frames
      BY <1>3
    <3>2. Before(author, inbox[c][i], pub[a][1])
      BY <1>0, <2>1, <2>3, <3>1 DEF Order, BeforeRelay
    <3> QED BY <1>4, <2>1, <3>1, <3>2
  <2> QED BY <2>2, <2>3
<1> QED BY <1>2, <1>7, <1>8, <1>9, <1>10, <1>11, <1>12, <1>13, <1>14 DEF Relayed, Order

LEMMA RelayedDisconnect ==
  ASSUME Relayed, NEW c \in Clients, Disconnect(c)
  PROVE  Relayed'
<1>1. Places /\ Shape /\ Remove(c) /\ pub[c] = <<>> /\ Forget({c}) /\ UNCHANGED <<sent, stored, pub, wire>>
  BY DEF Relayed, Disconnect
<1>2. Places' /\ \A d \in Clients \ {c} : at'[d] = at[d] /\ pc'[d] = pc[d]
  BY <1>1, PlacesRemove
<1> QED BY <1>1, <1>2, ForgetStep DEF Shape

LEMMA RelayedLose ==
  ASSUME Relayed, NEW n \in Nodes, Lose(n)
  PROVE  Relayed'
<1>1. Places /\ Shape
  BY DEF Relayed
<1>2. PICK k \in DOMAIN wire[n] : wire' = [wire EXCEPT ![n] = SubSeq(@, 1, k - 1)]
  BY DEF Lose
<1>3. wire[n] \in Seq(Tagged)
  BY <1>1 DEF Shape
<1>4. /\ SubSeq(wire[n], 1, k - 1) \in Seq(Tagged)
      /\ \A i \in DOMAIN SubSeq(wire[n], 1, k - 1) :
           i \in DOMAIN wire[n] /\ SubSeq(wire[n], 1, k - 1)[i] = wire[n][i]
  BY <1>2, <1>3, Cut
<1>5. /\ wire' \in [Nodes -> Seq(Tagged)]
      /\ \A m \in Nodes : \A i \in DOMAIN wire'[m] : i \in DOMAIN wire[m] /\ wire'[m][i] = wire[m][i]
  BY <1>1, <1>2, <1>4 DEF Shape
<1>6. UNCHANGED <<boards, at, pc, sent, stored, author, pub, inbox>>
  BY DEF Lose, bindVars
<1>7. Places'
  BY <1>1, <1>6 DEF Places
<1> QED BY <1>1, <1>5, <1>6, <1>7, WireShrinks

LEMMA RelayedCrash ==
  ASSUME Relayed, NEW n \in Nodes, Crash(n)
  PROVE  Relayed'
<1> DEFINE here == {c \in Clients : at[c] # Nowhere /\ at[c][1] = n}
<1>1. Places /\ Shape
  BY DEF Relayed
<1>2. /\ boards' = [s \in Slots |-> IF s[1] = n THEN {} ELSE boards[s]]
      /\ at' = [c \in Clients |-> IF c \in here THEN Nowhere ELSE at[c]]
      /\ pc' = [c \in Clients |-> IF c \in here THEN "off" ELSE pc[c]]
      /\ pub' = [c \in Clients |-> IF c \in here THEN <<>> ELSE pub[c]]
      /\ wire' = [wire EXCEPT ![n] = <<>>]
      /\ Forget(here) /\ UNCHANGED <<sent, stored>>
  BY DEF Crash
<1>3. here \in SUBSET Clients
  OBVIOUS
<1>4. \A c \in here : at[c] \in Slots /\ at[c][1] = n
  BY <1>1 DEF Places
<1>5. \A c \in Clients \ here : at[c] \in Slots => at[c][1] # n
  BY NowhereIsNoSlot
<1> HIDE DEF here
<1>6. Places'
  <2>1. /\ boards' \in [Slots -> SUBSET Clients]
        /\ at' \in [Clients -> Slots \union {Nowhere}]
        /\ pc' \in [Clients -> Phases]
    BY <1>1, <1>2 DEF Places, Phases
  <2>2. \A c \in Clients : at'[c] = Nowhere <=> pc'[c] = "off"
    BY <1>1, <1>2 DEF Places
  <2>3. ASSUME NEW c \in Clients, NEW s \in Slots
        PROVE  c \in boards'[s] <=> at'[c] = s /\ pc'[c] \in OnBoard
    <3>1. c \in boards[s] <=> at[c] = s /\ pc[c] \in OnBoard
      BY <1>1 DEF Places
    <3>2. CASE c \in here
      BY <1>2, <1>4, <3>1, <3>2, NowhereIsNoSlot DEF OnBoard
    <3>3. CASE c \notin here
      BY <1>2, <1>5, <3>1, <3>3
    <3> QED BY <3>2, <3>3
  <2> QED BY <2>1, <2>2, <2>3 DEF Places
<1>7. /\ \A d \in Clients \ here : at'[d] = at[d] /\ pc'[d] = pc[d] /\ pub'[d] = pub[d]
      /\ \A d \in here : pub'[d] = <<>>
  BY <1>2, <1>3
<1>8. pub' \in [Clients -> {<<>>} \union (Frames \X {"relay", "record"})]
  BY <1>1, <1>2 DEF Shape
<1>9. /\ wire' \in [Nodes -> Seq(Tagged)]
      /\ \A m \in Nodes : \A i \in DOMAIN wire'[m] : i \in DOMAIN wire[m] /\ wire'[m][i] = wire[m][i]
  BY <1>1, <1>2 DEF Shape
<1> QED BY <1>2, <1>3, <1>6, <1>7, <1>8, <1>9, ForgetStep

-----------------------------------------------------------------------------
\* Delivered frames come last, and only to clients of the board.
LEMMA Delivered ==
  ASSUME inbox \in [Clients -> Seq(Frames)], NEW s, NEW sender, NEW f \in Frames,
         DeliverLocal(s, sender, f)
  PROVE  /\ inbox' \in [Clients -> Seq(Frames)]
         /\ \A c \in Clients : \A i \in DOMAIN inbox'[c] :
              \/ i \in DOMAIN inbox[c] /\ inbox'[c][i] = inbox[c][i]
              \/ c \in boards[s] \ sender /\ inbox'[c][i] = f
         /\ \A c \in Clients : \A i, j \in DOMAIN inbox'[c] :
              i < j => i \in DOMAIN inbox[c] /\ inbox'[c][i] = inbox[c][i]
         /\ \A c \in Clients : inbox'[c] # <<>> => inbox[c] # <<>> \/ c \in boards[s]
<1>1. PICK full \in SUBSET (boards[s] \ sender) :
        inbox' = [c \in Clients |-> IF c \in boards[s] \ (sender \union full)
                                  THEN Append(inbox[c], f) ELSE inbox[c]]
  BY DEF DeliverLocal
<1>2. ASSUME NEW c \in Clients
      PROVE  /\ inbox'[c] \in Seq(Frames)
             /\ \A i \in DOMAIN inbox'[c] :
                  \/ i \in DOMAIN inbox[c] /\ inbox'[c][i] = inbox[c][i]
                  \/ c \in boards[s] \ sender /\ inbox'[c][i] = f
             /\ \A i, j \in DOMAIN inbox'[c] :
                  i < j => i \in DOMAIN inbox[c] /\ inbox'[c][i] = inbox[c][i]
             /\ inbox'[c] # <<>> => inbox[c] # <<>> \/ c \in boards[s]
  <2>1. inbox[c] \in Seq(Frames)
    OBVIOUS
  <2>2. CASE c \in boards[s] \ (sender \union full)
    <3>1. inbox'[c] = Append(inbox[c], f)
      BY <1>1, <2>2
    <3>2. /\ Append(inbox[c], f) \in Seq(Frames)
          /\ DOMAIN Append(inbox[c], f) = 1 .. Len(inbox[c]) + 1
          /\ DOMAIN inbox[c] = 1 .. Len(inbox[c]) /\ Len(inbox[c]) \in Nat
          /\ \A i \in 1 .. Len(inbox[c]) : Append(inbox[c], f)[i] = inbox[c][i]
          /\ Append(inbox[c], f)[Len(inbox[c]) + 1] = f
      BY <2>1, Appended
    <3> QED BY <2>2, <3>1, <3>2
  <2>3. CASE c \notin boards[s] \ (sender \union full)
    <3>1. inbox'[c] = inbox[c]
      BY <1>1, <2>3
    <3> QED BY <2>1, <3>1
  <2> QED BY <2>2, <2>3
<1>3. inbox' \in [Clients -> Seq(Frames)]
  BY <1>1, <1>2
<1> QED BY <1>2, <1>3

LEMMA RelayedPublishLocal ==
  ASSUME Relayed, NEW c \in Clients, PublishLocal(c)
  PROVE  Relayed'
<1>0. Places /\ Shape /\ Numbered /\ Present /\ Order /\ StoredOnce
  BY DEF Relayed
<1>1. /\ pc[c] = "open" /\ pub[c] = <<>> /\ sent < MaxFrames /\ sent' = sent + 1
      /\ UNCHANGED <<boards, at, pc, wire, stored>>
      /\ DeliverLocal(at[c], {c}, sent')
      /\ author' = [author EXCEPT ![sent'] = c]
      /\ pub' = [pub EXCEPT ![c] = <<sent', "relay">>]
  BY DEF PublishLocal, bindVars
<1>2. /\ sent' \in Frames /\ sent' \in Nat
      /\ \A f \in Frames : f <= sent => f < sent' /\ f <= sent' /\ f # sent'
  BY <1>0, <1>1, MaxFramesNat DEF Shape, Frames
<1>3. at[c] \in Slots
  BY <1>0, <1>1 DEF Places
<1>4. /\ author'[sent'] = c /\ author' \in [Frames -> Clients \union {Nowhere}]
      /\ \A f \in Frames : f # sent' => author'[f] = author[f]
      /\ pub'[c] = <<sent', "relay">> /\ \A d \in Clients \ {c} : pub'[d] = pub[d]
      /\ pub' \in [Clients -> {<<>>} \union (Frames \X {"relay", "record"})]
  BY <1>0, <1>1, <1>2 DEF Shape
<1>5. /\ inbox' \in [Clients -> Seq(Frames)]
      /\ \A d \in Clients : \A i \in DOMAIN inbox'[d] :
           \/ i \in DOMAIN inbox[d] /\ inbox'[d][i] = inbox[d][i]
           \/ d \in boards[at[c]] \ {c} /\ inbox'[d][i] = sent'
      /\ \A d \in Clients : \A i, j \in DOMAIN inbox'[d] :
           i < j => i \in DOMAIN inbox[d] /\ inbox'[d][i] = inbox[d][i]
      /\ \A d \in Clients : inbox'[d] # <<>> => inbox[d] # <<>> \/ d \in boards[at[c]]
  BY <1>0, <1>1, <1>2, Delivered DEF Shape
<1>6. \A d \in boards[at[c]] : d \in Clients /\ at[d] = at[c] /\ pc[d] \in OnBoard
  BY <1>0, <1>3 DEF Places
<1>7. /\ \A d \in Clients : \A i \in DOMAIN inbox[d] : inbox[d][i] \in Frames /\ inbox[d][i] <= sent
      /\ \A n \in Nodes : \A i \in DOMAIN wire[n] : wire[n][i].frame \in Frames /\ wire[n][i].frame <= sent
  BY <1>0, InboxElement, WireElement DEF Shape, Numbered
<1>8. \A a \in Clients : pub[a] # <<>> => pub[a][1] \in Frames /\ author[pub[a][1]] = a /\ pub[a][1] <= sent
  <2> SUFFICES ASSUME NEW a \in Clients, pub[a] # <<>>
               PROVE  pub[a][1] \in Frames /\ author[pub[a][1]] = a /\ pub[a][1] <= sent
    OBVIOUS
  <2>1. pub[a][1] \in Frames /\ author[pub[a][1]] = a
    BY <1>0 DEF Shape, Present
  <2> QED BY <1>0, <2>1, NowhereIsNoClient DEF Numbered, Frames, Shape
\* The new frame comes after every other one; between those nothing changes.
<1>9. /\ \A f \in Frames : f <= sent => Before(author', f, sent')
      /\ \A f, g \in Frames : f <= sent /\ g <= sent /\ Before(author, f, g) => Before(author', f, g)
  BY <1>2, <1>4 DEF Before
<1>10. Places'
  BY <1>0, <1>1 DEF Places
<1>11. Shape'
  BY <1>0, <1>1, <1>2, <1>4, <1>5, MaxFramesNat DEF Shape, Frames
<1>12. Numbered'
  <2>1. \A f \in Frames : f > sent' => author'[f] = Nowhere /\ stored'[f] = 0
    BY <1>0, <1>1, <1>2, <1>4 DEF Numbered, Frames, Shape
  <2>2. ASSUME NEW d \in Clients, NEW i \in DOMAIN inbox'[d]
        PROVE  inbox'[d][i] <= sent'
    <3>1. sent' <= sent'
      BY <1>2
    <3>2. i \in DOMAIN inbox[d] => inbox[d][i] <= sent'
      BY <1>2, <1>7
    <3> QED BY <1>5, <3>1, <3>2
  <2>3. \A n \in Nodes : \A i \in DOMAIN wire[n] : wire[n][i].frame <= sent'
    BY <1>2, <1>7
  <2> QED BY <1>1, <2>1, <2>2, <2>3 DEF Numbered
<1>13. Present'
  <2>1. \A f \in Frames : author'[f] # Nowhere => pc[author'[f]] = "open"
    BY <1>0, <1>1, <1>4 DEF Present
  <2>2. \A d \in Clients : inbox'[d] # <<>> => pc[d] \in OnBoard
    BY <1>0, <1>5, <1>6 DEF Present
  <2>3. ASSUME NEW d \in Clients, pub'[d] # <<>>
        PROVE  pc[d] = "open" /\ author'[pub'[d][1]] = d /\ stored[pub'[d][1]] = 0
    <3>1. CASE d = c
      BY <1>0, <1>1, <1>2, <1>4, <3>1 DEF Numbered, Frames, Shape
    <3>2. CASE d # c
      <4>1. /\ pub'[d] = pub[d] /\ pub[d] # <<>>
            /\ pub[d][1] \in Frames /\ pub[d][1] <= sent
        BY <1>4, <1>8, <2>3, <3>2
      <4>2. author'[pub[d][1]] = author[pub[d][1]]
        BY <1>2, <1>4, <4>1
      <4>3. pc[d] = "open" /\ author[pub[d][1]] = d /\ stored[pub[d][1]] = 0
        BY <1>0, <4>1 DEF Present
      <4> QED BY <4>1, <4>2, <4>3
    <3> QED BY <3>1, <3>2
  <2> QED BY <1>1, <2>1, <2>2, <2>3 DEF Present
<1>14. StoredOnce'
  <2>1. \A d \in Clients : By(d)' \subseteq By(d) \union (IF d = c THEN {sent'} ELSE {})
    BY <1>2, <1>4 DEF By
  <2>2. \A f \in Frames : stored'[f] <= 1
    BY <1>0, <1>1 DEF StoredOnce
  <2>3. ASSUME NEW d \in Clients, NEW f \in By(d)'
        PROVE  stored'[f] = 1 \/ (pub'[d] # <<>> /\ pub'[d][1] = f)
    <3>1. CASE f \in By(d)
      BY <1>0, <1>1, <1>4, <3>1 DEF StoredOnce
    <3>2. CASE f = sent' /\ d = c
      BY <1>4, <3>2
    <3> QED BY <2>1, <3>1, <3>2
  <2> QED BY <2>2, <2>3 DEF StoredOnce
<1>15. InboxOrder'
  <2> SUFFICES ASSUME NEW d \in Clients, NEW i \in DOMAIN inbox'[d], NEW j \in DOMAIN inbox'[d], i < j
               PROVE  Before(author', inbox'[d][i], inbox'[d][j])
    BY DEF InboxOrder
  <2>1. i \in DOMAIN inbox[d] /\ inbox'[d][i] = inbox[d][i]
    BY <1>5
  <2>2. CASE inbox'[d][j] = sent'
    BY <1>7, <1>9, <2>1, <2>2
  <2>3. CASE j \in DOMAIN inbox[d] /\ inbox'[d][j] = inbox[d][j]
    BY <1>0, <1>7, <1>9, <2>1, <2>3 DEF Order, InboxOrder
  <2> QED BY <1>5, <2>2, <2>3
<1>16. WireOrder'
  BY <1>0, <1>1, <1>7, <1>9 DEF Order, WireOrder
<1>17. WireTags'
  BY <1>0, <1>1, <1>2, <1>4, <1>7 DEF Order, WireTags
<1>18. NotOwn'
  <2> SUFFICES ASSUME NEW d \in Clients, NEW i \in DOMAIN inbox'[d]
               PROVE  author'[inbox'[d][i]] # d
    BY DEF NotOwn
  <2>1. CASE i \in DOMAIN inbox[d] /\ inbox'[d][i] = inbox[d][i]
    <3>1. author'[inbox[d][i]] = author[inbox[d][i]]
      BY <1>2, <1>4, <1>7, <2>1
    <3> QED BY <1>0, <2>1, <3>1 DEF Order, NotOwn
  <2>2. CASE d \in boards[at[c]] \ {c} /\ inbox'[d][i] = sent'
    BY <1>4, <2>2
  <2> QED BY <1>5, <2>1, <2>2
<1>19. HeardBeforeWire'
  <2> SUFFICES ASSUME NEW d \in Clients, NEW i \in DOMAIN inbox'[d], NEW n \in Nodes,
                      NEW j \in DOMAIN wire[n], n = at[d][1], wire[n][j].origin # n
               PROVE  Before(author', inbox'[d][i], wire[n][j].frame)
    BY <1>1 DEF HeardBeforeWire
  <2>1. CASE i \in DOMAIN inbox[d] /\ inbox'[d][i] = inbox[d][i]
    BY <1>0, <1>7, <1>9, <2>1 DEF Order, HeardBeforeWire
  <2>2. CASE d \in boards[at[c]] /\ inbox'[d][i] = sent'
    <3>1. at[d] = at[c]
      BY <1>6, <2>2
    <3>2. author'[wire[n][j].frame] = author[wire[n][j].frame] /\ wire[n][j].frame # sent'
      BY <1>2, <1>4, <1>7
    <3>3. author[wire[n][j].frame] # c
      BY <1>0, <3>1, NowhereIsNoClient DEF Order, WireTags
    <3> QED BY <1>4, <2>2, <3>2, <3>3 DEF Before
  <2> QED BY <1>5, <2>1, <2>2
<1>20. BeforeRelay'
  <2> SUFFICES ASSUME NEW a \in Clients, pub'[a] # <<>>, pub'[a][2] = "relay"
               PROVE  /\ \A n \in Nodes : \A j \in DOMAIN wire[n] :
                            Before(author', wire[n][j].frame, pub'[a][1])
                      /\ \A d \in Clients : \A i \in DOMAIN inbox'[d] :
                            at[d][1] # at[a][1] => Before(author', inbox'[d][i], pub'[a][1])
    BY <1>1 DEF BeforeRelay
  <2>1. CASE a = c
    <3>1. pub'[a][1] = sent'
      BY <1>4, <2>1
    <3>2. ASSUME NEW d \in Clients, NEW i \in DOMAIN inbox'[d], at[d][1] # at[a][1]
          PROVE  i \in DOMAIN inbox[d] /\ inbox'[d][i] = inbox[d][i]
      BY <1>5, <1>6, <2>1, <3>2
    <3> QED BY <1>7, <1>9, <3>1, <3>2
  <2>2. CASE a # c
    <3>1. pub'[a] = pub[a] /\ pub[a][1] \in Frames /\ author[pub[a][1]] = a /\ pub[a][1] <= sent
      BY <1>4, <1>8, <2>2
    <3>2. \A n \in Nodes : \A j \in DOMAIN wire[n] : Before(author', wire[n][j].frame, pub[a][1])
      BY <1>0, <1>7, <1>9, <3>1 DEF Order, BeforeRelay
    <3>3. ASSUME NEW d \in Clients, NEW i \in DOMAIN inbox'[d], at[d][1] # at[a][1]
          PROVE  Before(author', inbox'[d][i], pub[a][1])
      <4>1. CASE i \in DOMAIN inbox[d] /\ inbox'[d][i] = inbox[d][i]
        BY <1>0, <1>7, <1>9, <3>1, <3>3, <4>1 DEF Order, BeforeRelay
      <4>2. CASE inbox'[d][i] = sent'
        BY <1>2, <1>4, <2>2, <3>1, <4>2 DEF Before
      <4> QED BY <1>5, <4>1, <4>2
    <3> QED BY <3>1, <3>2, <3>3
  <2> QED BY <2>1, <2>2
<1> QED
  BY <1>10, <1>11, <1>12, <1>13, <1>14, <1>15, <1>16, <1>17, <1>18, <1>19, <1>20 DEF Relayed, Order

LEMMA RelayedPublishRelay ==
  ASSUME Relayed, NEW c \in Clients, PublishRelay(c)
  PROVE  Relayed'
<1> DEFINE f == pub[c][1]
           tagged == [origin |-> at[c][1], board |-> at[c][2], frame |-> f]
<1>0. Places /\ Shape /\ Numbered /\ Present /\ Order /\ StoredOnce
  BY DEF Relayed
<1>1. /\ pub[c] # <<>> /\ pub[c][2] = "relay"
      /\ pub' = [pub EXCEPT ![c] = <<f, "record">>]
      /\ UNCHANGED <<boards, at, pc, sent, author, inbox, stored>>
      /\ \/ wire' = wire
         \/ wire' = [n \in Nodes |-> IF n \in Channel(at[c][2]) THEN Append(wire[n], tagged) ELSE wire[n]]
  BY DEF PublishRelay, bindVars
<1>2. f \in Frames /\ author[f] = c /\ stored[f] = 0 /\ pc[c] = "open" /\ f <= sent
  <2>1. f \in Frames /\ author[f] = c /\ stored[f] = 0 /\ pc[c] = "open"
    BY <1>0, <1>1 DEF Shape, Present
  <2>2. ~ (f > sent)
    BY <1>0, <2>1, NowhereIsNoClient DEF Numbered
  <2>3. f \in Nat /\ sent \in Nat
    BY <1>0, <2>1 DEF Shape, Frames
  <2> QED BY <2>1, <2>2, <2>3
<1>3. at[c] \in Slots
  BY <1>0, <1>2 DEF Places
<1>4. tagged \in Tagged /\ tagged.frame = f /\ tagged.origin = at[c][1]
  BY <1>2, <1>3 DEF Tagged, Slots
<1> HIDE DEF f, tagged
<1>5. /\ pub'[c] = <<f, "record">> /\ \A d \in Clients \ {c} : pub'[d] = pub[d]
      /\ pub' \in [Clients -> {<<>>} \union (Frames \X {"relay", "record"})]
  BY <1>0, <1>1, <1>2 DEF Shape
<1>6. ASSUME NEW n \in Nodes
      PROVE  /\ wire'[n] \in Seq(Tagged)
             /\ \A i \in DOMAIN wire'[n] :
                  \/ i \in DOMAIN wire[n] /\ wire'[n][i] = wire[n][i]
                  \/ wire'[n][i] = tagged
             /\ \A i, j \in DOMAIN wire'[n] : i < j => i \in DOMAIN wire[n] /\ wire'[n][i] = wire[n][i]
  <2>1. wire[n] \in Seq(Tagged)
    BY <1>0 DEF Shape
  <2>2. CASE wire'[n] = wire[n]
    BY <2>1, <2>2
  <2>3. CASE wire'[n] = Append(wire[n], tagged)
    <3>1. /\ Append(wire[n], tagged) \in Seq(Tagged)
          /\ DOMAIN Append(wire[n], tagged) = 1 .. Len(wire[n]) + 1
          /\ DOMAIN wire[n] = 1 .. Len(wire[n]) /\ Len(wire[n]) \in Nat
          /\ \A i \in 1 .. Len(wire[n]) : Append(wire[n], tagged)[i] = wire[n][i]
          /\ Append(wire[n], tagged)[Len(wire[n]) + 1] = tagged
      BY <1>4, <2>1, Appended
    <3> QED BY <2>3, <3>1
  <2> QED BY <1>1, <2>2, <2>3
<1>7. /\ \A d \in Clients : \A i \in DOMAIN inbox[d] : inbox[d][i] \in Frames
      /\ \A n \in Nodes : \A i \in DOMAIN wire[n] : wire[n][i].frame \in Frames
  BY <1>0, InboxElement, WireElement DEF Shape
\* What is on a wire, or heard on another node, comes before the frame relayed.
<1>8. /\ \A n \in Nodes : \A j \in DOMAIN wire[n] : Before(author, wire[n][j].frame, f)
      /\ \A d \in Clients : \A i \in DOMAIN inbox[d] :
            at[d][1] # at[c][1] => Before(author, inbox[d][i], f)
  BY <1>0, <1>1 DEF Order, BeforeRelay, f
<1>9. Places'
  BY <1>0, <1>1 DEF Places
<1>10. Shape'
  <2>1. wire' \in [Nodes -> Seq(Tagged)]
    BY <1>0, <1>1, <1>6 DEF Shape
  <2> QED BY <1>0, <1>1, <1>5, <2>1 DEF Shape
<1>11. Numbered'
  <2>1. \A n \in Nodes : \A i \in DOMAIN wire'[n] : wire'[n][i].frame <= sent
    BY <1>0, <1>2, <1>4, <1>6 DEF Numbered
  <2> QED BY <1>0, <1>1, <2>1 DEF Numbered
<1>12. Present'
  BY <1>0, <1>1, <1>2, <1>5 DEF Present
<1>13. StoredOnce'
  <2>1. \A d \in Clients : pub[d] # <<>> => pub'[d] # <<>> /\ pub'[d][1] = pub[d][1]
    BY <1>5 DEF f
  <2> QED BY <1>0, <1>1, <2>1 DEF StoredOnce, By
<1>14. InboxOrder' /\ NotOwn'
  BY <1>0, <1>1 DEF Order, InboxOrder, NotOwn
<1>15. WireOrder'
  <2> SUFFICES ASSUME NEW n \in Nodes, NEW i \in DOMAIN wire'[n], NEW j \in DOMAIN wire'[n], i < j
               PROVE  Before(author, wire'[n][i].frame, wire'[n][j].frame)
    BY <1>1 DEF WireOrder
  <2>1. i \in DOMAIN wire[n] /\ wire'[n][i] = wire[n][i]
    BY <1>6
  <2>2. CASE wire'[n][j] = tagged
    BY <1>4, <1>8, <2>1, <2>2
  <2>3. CASE j \in DOMAIN wire[n] /\ wire'[n][j] = wire[n][j]
    BY <1>0, <2>1, <2>3 DEF Order, WireOrder
  <2> QED BY <1>6, <2>2, <2>3
<1>16. WireTags'
  <2> SUFFICES ASSUME NEW n \in Nodes, NEW i \in DOMAIN wire'[n], author[wire'[n][i].frame] # Nowhere
               PROVE  wire'[n][i].origin = at[author[wire'[n][i].frame]][1]
    BY <1>1 DEF WireTags
  <2>1. CASE wire'[n][i] = tagged
    BY <1>2, <1>4, <2>1
  <2>2. CASE i \in DOMAIN wire[n] /\ wire'[n][i] = wire[n][i]
    BY <1>0, <2>2 DEF Order, WireTags
  <2> QED BY <1>6, <2>1, <2>2
<1>17. HeardBeforeWire'
  <2> SUFFICES ASSUME NEW d \in Clients, NEW i \in DOMAIN inbox[d], NEW n \in Nodes,
                      NEW j \in DOMAIN wire'[n], n = at[d][1], wire'[n][j].origin # n
               PROVE  Before(author, inbox[d][i], wire'[n][j].frame)
    BY <1>1 DEF HeardBeforeWire
  <2>1. CASE wire'[n][j] = tagged
    BY <1>4, <1>8, <2>1
  <2>2. CASE j \in DOMAIN wire[n] /\ wire'[n][j] = wire[n][j]
    BY <1>0, <2>2 DEF Order, HeardBeforeWire
  <2> QED BY <1>6, <2>1, <2>2
<1>18. BeforeRelay'
  <2> SUFFICES ASSUME NEW a \in Clients, pub'[a] # <<>>, pub'[a][2] = "relay"
               PROVE  /\ \A n \in Nodes : \A j \in DOMAIN wire'[n] :
                            Before(author, wire'[n][j].frame, pub'[a][1])
                      /\ \A d \in Clients : \A i \in DOMAIN inbox[d] :
                            at[d][1] # at[a][1] => Before(author, inbox[d][i], pub'[a][1])
    BY <1>1 DEF BeforeRelay
  <2>1. a # c /\ pub'[a] = pub[a]
    BY <1>5
  <2>2. author[pub[a][1]] = a
    BY <1>0, <2>1 DEF Present
  <2>3. Before(author, f, pub[a][1])
    BY <1>2, <2>1, <2>2 DEF Before
  <2> QED BY <1>0, <1>4, <1>6, <2>1, <2>3 DEF Order, BeforeRelay
<1> QED
  BY <1>9, <1>10, <1>11, <1>12, <1>13, <1>14, <1>15, <1>16, <1>17, <1>18 DEF Relayed, Order

LEMMA RelayedRecord ==
  ASSUME Relayed, NEW c \in Clients, Record(c)
  PROVE  Relayed'
<1> DEFINE f == pub[c][1]
<1>0. Places /\ Shape /\ Numbered /\ Present /\ Order /\ StoredOnce
  BY DEF Relayed
<1>1. /\ pub[c] # <<>> /\ pub' = [pub EXCEPT ![c] = <<>>]
      /\ stored' = [stored EXCEPT ![f] = @ + 1]
      /\ UNCHANGED <<boards, at, pc, sent, author, inbox, wire>>
  BY DEF Record, bindVars
<1>2. f \in Frames /\ author[f] = c /\ stored[f] = 0
  BY <1>0, <1>1 DEF Shape, Present
<1> HIDE DEF f
<1>3. /\ stored'[f] = 1 /\ \A g \in Frames : g # f => stored'[g] = stored[g]
      /\ stored' \in [Frames -> Nat]
      /\ pub'[c] = <<>> /\ \A d \in Clients \ {c} : pub'[d] = pub[d]
      /\ pub' \in [Clients -> {<<>>} \union (Frames \X {"relay", "record"})]
  BY <1>0, <1>1, <1>2 DEF Shape
<1>4. Places' /\ Shape'
  BY <1>0, <1>1, <1>3 DEF Places, Shape
<1>5. Numbered'
  BY <1>0, <1>1, <1>2, <1>3, NowhereIsNoClient DEF Numbered
<1>6. Present'
  <2>1. ASSUME NEW d \in Clients, pub'[d] # <<>>
        PROVE  pc[d] = "open" /\ author[pub'[d][1]] = d /\ stored'[pub'[d][1]] = 0
    <3>1. d # c /\ pub'[d] = pub[d] /\ pub[d][1] \in Frames
      BY <1>0, <1>3, <2>1 DEF Shape
    <3>2. pc[d] = "open" /\ author[pub[d][1]] = d /\ stored[pub[d][1]] = 0
      BY <1>0, <2>1, <3>1 DEF Present
    <3> QED BY <1>2, <1>3, <3>1, <3>2
  <2> QED BY <1>0, <1>1, <2>1 DEF Present
<1>7. StoredOnce'
  <2>1. \A g \in Frames : stored'[g] <= 1
    BY <1>0, <1>3 DEF StoredOnce
  <2>2. ASSUME NEW d \in Clients, NEW g \in By(d)'
        PROVE  stored'[g] = 1 \/ (pub'[d] # <<>> /\ pub'[d][1] = g)
    <3>1. g \in By(d) /\ g \in Frames
      BY <1>1 DEF By
    <3>2. CASE g = f
      BY <1>3, <3>2
    <3>3. CASE g # f
      BY <1>0, <1>3, <3>1, <3>3 DEF StoredOnce, f
    <3> QED BY <3>2, <3>3
  <2> QED BY <2>1, <2>2 DEF StoredOnce
<1>8. InboxOrder' /\ NotOwn' /\ WireOrder' /\ WireTags' /\ HeardBeforeWire'
  BY <1>0, <1>1 DEF Order, InboxOrder, NotOwn, WireOrder, WireTags, HeardBeforeWire
<1>9. BeforeRelay'
  BY <1>0, <1>1, <1>3 DEF Order, BeforeRelay
<1> QED BY <1>4, <1>5, <1>6, <1>7, <1>8, <1>9 DEF Relayed, Order

LEMMA RelayedReceive ==
  ASSUME Relayed, NEW n \in Nodes, Receive(n)
  PROVE  Relayed'
<1> DEFINE m == wire[n][1]
           to == boards[<<n, m.board>>]
<1>0. Places /\ Shape /\ Numbered /\ Present /\ Order /\ StoredOnce
  BY DEF Relayed
<1>1. /\ wire[n] # <<>> /\ wire' = [wire EXCEPT ![n] = Tail(@)]
      /\ UNCHANGED <<boards, at, pc, sent, author, pub, stored>>
      /\ \/ Head(wire[n]).origin = n /\ inbox' = inbox
         \/ Head(wire[n]).origin # n /\ DeliverLocal(<<n, Head(wire[n]).board>>, {}, Head(wire[n]).frame)
  BY DEF Receive, bindVars
<1>2. /\ Tail(wire[n]) \in Seq(Tagged) /\ Head(wire[n]) = m /\ 1 \in DOMAIN wire[n]
      /\ DOMAIN wire[n] \subseteq Nat /\ DOMAIN Tail(wire[n]) \subseteq Nat \ {0}
      /\ \A i \in DOMAIN Tail(wire[n]) : i + 1 \in DOMAIN wire[n] /\ Tail(wire[n])[i] = wire[n][i + 1]
  <2>1. wire[n] \in Seq(Tagged)
    BY <1>0 DEF Shape
  <2> QED BY <1>1, <2>1, Tailed
<1>3. m \in Tagged /\ m.frame \in Frames /\ m.frame <= sent /\ m.board \in Boards
  BY <1>0, <1>2, WireElement DEF Shape, Numbered, Tagged
\* What is left on the wires was there, and on n's behind m.
<1>4. /\ wire' \in [Nodes -> Seq(Tagged)]
      /\ wire'[n] = Tail(wire[n]) /\ \A k \in Nodes \ {n} : wire'[k] = wire[k]
  BY <1>0, <1>1, <1>2 DEF Shape
<1>5. \A d \in to : d \in Clients /\ at[d] = <<n, m.board>> /\ pc[d] \in OnBoard
  BY <1>0, <1>3 DEF Places, Slots
<1>6. /\ inbox' \in [Clients -> Seq(Frames)]
      /\ \A d \in Clients : \A i \in DOMAIN inbox'[d] :
           \/ i \in DOMAIN inbox[d] /\ inbox'[d][i] = inbox[d][i]
           \/ d \in to /\ inbox'[d][i] = m.frame /\ m.origin # n
      /\ \A d \in Clients : \A i, j \in DOMAIN inbox'[d] :
           i < j => i \in DOMAIN inbox[d] /\ inbox'[d][i] = inbox[d][i]
      /\ \A d \in Clients : inbox'[d] # <<>> => inbox[d] # <<>> \/ d \in to
  <2>1. CASE m.origin = n
    <3>1. inbox' = inbox
      BY <1>1, <1>2, <2>1
    <3> QED BY <1>0, <3>1 DEF Shape
  <2>2. CASE m.origin # n
    <3>1. PICK s, x, none :
              s = <<n, m.board>> /\ x = m.frame /\ none = {} /\ DeliverLocal(s, none, x)
      BY <1>1, <1>2, <2>2
    <3>2. inbox \in [Clients -> Seq(Frames)] /\ x \in Frames
      BY <1>0, <1>3, <3>1 DEF Shape
    <3>3. /\ inbox' \in [Clients -> Seq(Frames)]
          /\ \A d \in Clients : \A i \in DOMAIN inbox'[d] :
               \/ i \in DOMAIN inbox[d] /\ inbox'[d][i] = inbox[d][i]
               \/ d \in boards[s] \ none /\ inbox'[d][i] = x
          /\ \A d \in Clients : \A i, j \in DOMAIN inbox'[d] :
               i < j => i \in DOMAIN inbox[d] /\ inbox'[d][i] = inbox[d][i]
          /\ \A d \in Clients : inbox'[d] # <<>> => inbox[d] # <<>> \/ d \in boards[s]
      <4>1. DeliverLocal(s, none, x)
        BY <3>1
      <4>2. x \in Frames
        BY <3>2
      <4>3. inbox \in [Clients -> Seq(Frames)]
        BY <3>2
      <4> HIDE DEF m, to
      <4> QED BY <4>1, <4>2, <4>3, Delivered
    <3> QED BY <2>2, <3>1, <3>3
  <2> QED BY <2>1, <2>2
<1> HIDE DEF m, to
<1>7. \A k \in Nodes : \A j \in DOMAIN wire'[k] :
        \E h \in DOMAIN wire[k] : wire'[k][j] = wire[k][h] /\ (k = n => h > 1)
  <2> SUFFICES ASSUME NEW k \in Nodes, NEW j \in DOMAIN wire'[k]
               PROVE  \E h \in DOMAIN wire[k] : wire'[k][j] = wire[k][h] /\ (k = n => h > 1)
    OBVIOUS
  <2>1. CASE k = n
    <3>1. j \in DOMAIN Tail(wire[n]) /\ wire'[k][j] = Tail(wire[n])[j]
      BY <1>4, <2>1
    <3>2. j + 1 \in DOMAIN wire[n] /\ Tail(wire[n])[j] = wire[n][j + 1] /\ j + 1 > 1
      <4>1. j \in Nat \ {0}
        BY <1>2, <3>1
      <4>2. j + 1 > 1
        BY <4>1
      <4> QED BY <1>2, <3>1, <4>2
    <3> QED BY <2>1, <3>1, <3>2
  <2>2. CASE k # n
    BY <1>4, <2>2
  <2> QED BY <2>1, <2>2
<1>8. m = wire[n][1]
  BY DEF m
<1>9. Places' /\ Shape'
  BY <1>0, <1>1, <1>4, <1>6 DEF Places, Shape
<1>10. Numbered'
  <2>1. \A k \in Nodes : \A j \in DOMAIN wire'[k] : wire'[k][j].frame <= sent
    BY <1>0, <1>7 DEF Numbered
  <2>2. \A d \in Clients : \A i \in DOMAIN inbox'[d] : inbox'[d][i] <= sent
    BY <1>0, <1>3, <1>6 DEF Numbered
  <2> QED BY <1>0, <1>1, <2>1, <2>2 DEF Numbered
<1>11. Present'
  BY <1>0, <1>1, <1>5, <1>6 DEF Present
<1>12. StoredOnce'
  BY <1>0, <1>1 DEF StoredOnce, By
<1>13. InboxOrder'
  <2> SUFFICES ASSUME NEW d \in Clients, NEW i \in DOMAIN inbox'[d], NEW j \in DOMAIN inbox'[d], i < j
               PROVE  Before(author, inbox'[d][i], inbox'[d][j])
    BY <1>1 DEF InboxOrder
  <2>1. i \in DOMAIN inbox[d] /\ inbox'[d][i] = inbox[d][i]
    BY <1>6
  <2>2. CASE d \in to /\ inbox'[d][j] = m.frame /\ m.origin # n
    <3>1. n = at[d][1]
      BY <1>5, <2>2
    <3> QED BY <1>0, <1>2, <1>8, <2>1, <2>2, <3>1 DEF Order, HeardBeforeWire
  <2>3. CASE j \in DOMAIN inbox[d] /\ inbox'[d][j] = inbox[d][j]
    BY <1>0, <2>1, <2>3 DEF Order, InboxOrder
  <2> QED BY <1>6, <2>2, <2>3
<1>14. WireOrder'
  <2> SUFFICES ASSUME NEW k \in Nodes, NEW i \in DOMAIN wire'[k], NEW j \in DOMAIN wire'[k], i < j
               PROVE  Before(author, wire'[k][i].frame, wire'[k][j].frame)
    BY <1>1 DEF WireOrder
  <2>1. CASE k = n
    <3>1. /\ i + 1 \in DOMAIN wire[k] /\ j + 1 \in DOMAIN wire[k] /\ i + 1 < j + 1
          /\ wire'[k][i] = wire[k][i + 1] /\ wire'[k][j] = wire[k][j + 1]
      <4>1. i \in DOMAIN Tail(wire[n]) /\ j \in DOMAIN Tail(wire[n])
        BY <1>4, <2>1
      <4>2. i \in Nat /\ j \in Nat
        BY <1>2, <4>1
      <4>3. i + 1 < j + 1
        BY <4>2
      <4>4. /\ i + 1 \in DOMAIN wire[n] /\ Tail(wire[n])[i] = wire[n][i + 1]
            /\ j + 1 \in DOMAIN wire[n] /\ Tail(wire[n])[j] = wire[n][j + 1]
        BY <1>2, <4>1
      <4> QED BY <1>4, <2>1, <4>3, <4>4
    <3> QED BY <1>0, <3>1 DEF Order, WireOrder
  <2>2. CASE k # n
    BY <1>0, <1>4, <2>2 DEF Order, WireOrder
  <2> QED BY <2>1, <2>2
<1>15. WireTags'
  <2>1. author' = author /\ at' = at
    BY <1>1
  <2>2. ASSUME NEW k \in Nodes, NEW j \in DOMAIN wire'[k], author[wire'[k][j].frame] # Nowhere
        PROVE  wire'[k][j].origin = at[author[wire'[k][j].frame]][1]
    <3>1. PICK h \in DOMAIN wire[k] : wire'[k][j] = wire[k][h]
      BY <1>7
    <3> QED BY <1>0, <2>2, <3>1 DEF Order, WireTags
  <2> QED BY <2>1, <2>2 DEF WireTags
<1>16. NotOwn'
  <2> SUFFICES ASSUME NEW d \in Clients, NEW i \in DOMAIN inbox'[d], author[inbox'[d][i]] = d
               PROVE  FALSE
    BY <1>1 DEF NotOwn
  <2>1. d \in to /\ inbox'[d][i] = m.frame /\ m.origin # n
    BY <1>0, <1>6 DEF Order, NotOwn
  <2>2. at[d] = <<n, m.board>> /\ d # Nowhere
    BY <1>5, <2>1, NowhereIsNoClient
  <2>3. m.origin = at[d][1]
    BY <1>0, <1>2, <1>8, <2>1, <2>2 DEF Order, WireTags
  <2> QED BY <2>1, <2>2, <2>3
<1>17. HeardBeforeWire'
  <2> SUFFICES ASSUME NEW d \in Clients, NEW i \in DOMAIN inbox'[d], NEW k \in Nodes,
                      NEW j \in DOMAIN wire'[k], k = at[d][1], wire'[k][j].origin # k
               PROVE  Before(author, inbox'[d][i], wire'[k][j].frame)
    BY <1>1 DEF HeardBeforeWire
  <2>1. PICK h \in DOMAIN wire[k] : wire'[k][j] = wire[k][h] /\ (k = n => h > 1)
    BY <1>7
  <2>2. CASE i \in DOMAIN inbox[d] /\ inbox'[d][i] = inbox[d][i]
    BY <1>0, <2>1, <2>2 DEF Order, HeardBeforeWire
  <2>3. CASE d \in to /\ inbox'[d][i] = m.frame
    <3>1. k = n
      BY <1>5, <2>3
    <3>2. 1 < h
      BY <1>2, <2>1, <3>1
    <3> QED BY <1>0, <1>2, <1>8, <2>1, <2>3, <3>1, <3>2 DEF Order, WireOrder
  <2> QED BY <1>6, <2>2, <2>3
<1>18. BeforeRelay'
  <2> SUFFICES ASSUME NEW a \in Clients, pub[a] # <<>>, pub[a][2] = "relay"
               PROVE  /\ \A k \in Nodes : \A j \in DOMAIN wire'[k] :
                            Before(author, wire'[k][j].frame, pub[a][1])
                      /\ \A d \in Clients : \A i \in DOMAIN inbox'[d] :
                            at[d][1] # at[a][1] => Before(author, inbox'[d][i], pub[a][1])
    BY <1>1 DEF BeforeRelay
  <2>1. \A k \in Nodes : \A j \in DOMAIN wire[k] : Before(author, wire[k][j].frame, pub[a][1])
    BY <1>0 DEF Order, BeforeRelay
  <2>2. Before(author, m.frame, pub[a][1])
    BY <1>2, <1>8, <2>1
  <2>3. \A k \in Nodes : \A j \in DOMAIN wire'[k] : Before(author, wire'[k][j].frame, pub[a][1])
    BY <1>7, <2>1
  <2>4. ASSUME NEW d \in Clients, NEW i \in DOMAIN inbox'[d], at[d][1] # at[a][1]
        PROVE  Before(author, inbox'[d][i], pub[a][1])
    BY <1>0, <1>6, <2>2, <2>4 DEF Order, BeforeRelay
  <2> QED BY <2>3, <2>4
<1> QED
  BY <1>9, <1>10, <1>11, <1>12, <1>13, <1>14, <1>15, <1>16, <1>17, <1>18 DEF Relayed, Order

LEMMA RelayedBoot ==
  ASSUME Relayed, NEW n \in Nodes, Boot(n)
  PROVE  Relayed'
<1>1. UNCHANGED <<boards, at, pc, sent, stored, author, pub, inbox, wire>>
  BY DEF Boot, bindVars
<1>2. Places' /\ wire' \in [Nodes -> Seq(Tagged)]
  BY <1>1 DEF Relayed, Places, Shape
<1> QED BY <1>1, <1>2, WireShrinks

LEMMA RelayedNext ==
  ASSUME Relayed, [RelayNext]_vars
  PROVE  Relayed'
<1>1. CASE UNCHANGED vars
  <2>1. UNCHANGED <<boards, at, pc, sent, stored, author, pub, inbox, wire>>
    BY <1>1 DEF vars, bindVars, relayVars
  <2>2. Places' /\ wire' \in [Nodes -> Seq(Tagged)]
    BY <2>1 DEF Relayed, Places, Shape
  <2> QED BY <2>1, <2>2, WireShrinks
<1>2. CASE RelayNext
  BY <1>2, RelayedConnect, RelayedProgress, RelayedDisconnect, RelayedPublishLocal,
     RelayedPublishRelay, RelayedRecord, RelayedReceive, RelayedLose, RelayedCrash, RelayedBoot
     DEF RelayNext, Publishing
<1> QED BY <1>1, <1>2

(***************************************************************************)
(* In every state the frames are where Relayed says, whatever joins,       *)
(* leaves, fails or restarts (hub.go:104-133, redis.go:60-117).            *)
(***************************************************************************)
THEOREM AlwaysRelayed == RelaySpec => []Relayed
<1>1. RelayInit => Relayed
  BY RelayedInit
<1>2. Relayed /\ [RelayNext]_vars => Relayed'
  BY RelayedNext
<1> QED BY <1>1, <1>2, PTL DEF RelaySpec

(***************************************************************************)
(* Only the node that read a frame from its author's socket records it     *)
(* (hub.go:102-107): no frame is stored twice, and none of a connection    *)
(* that stays is skipped.                                                  *)
(***************************************************************************)
THEOREM FramesStoredOnce == RelaySpec => []StoredOnce
<1>1. Relayed => StoredOnce
  BY DEF Relayed
<1> QED BY <1>1, AlwaysRelayed, PTL

(***************************************************************************)
(* A node skips its own frames when Redis returns them (redis.go:112-114): *)
(* nobody hears a frame twice, hears itself, or hears the frames of one    *)
(* author in another order than they were sent in.                         *)
(***************************************************************************)
THEOREM NobodyHearsTwice == RelaySpec => []HeardOnceInOrder
<1>1. Relayed => HeardOnceInOrder
  <2> SUFFICES ASSUME Relayed, NEW c \in Clients
               PROVE  /\ Heard(c) \intersect By(c) = {}
                      /\ \A i, j \in DOMAIN inbox[c] :
                           i < j => /\ inbox[c][i] # inbox[c][j]
                                    /\ author[inbox[c][i]] = author[inbox[c][j]]
                                         /\ author[inbox[c][i]] # Nowhere
                                         => inbox[c][i] < inbox[c][j]
    BY DEF HeardOnceInOrder
  <2>1. InboxOrder /\ NotOwn
    BY DEF Relayed, Order
  <2>2. Heard(c) \intersect By(c) = {}
    BY <2>1 DEF NotOwn, Heard, By
  <2> QED BY <2>1, <2>2 DEF InboxOrder, Before
<1> QED BY <1>1, AlwaysRelayed, PTL

-----------------------------------------------------------------------------
(* What the node lets through: its processes and its subscriptions. *)

\* Only a process that runs has connections, subscriptions and frames to read.
Running ==
  /\ up \subseteq Nodes
  /\ \A c \in Clients : at[c] # Nowhere => at[c][1] \in up
  /\ subscribed \subseteq {s \in Slots : s[1] \in up}
  /\ \A n \in Nodes : wire[n] # <<>> => n \in up
  /\ missed \subseteq Frames \X Nodes
  /\ dropped \subseteq Frames \X Clients

\* Whom a fan-out skips is a client.
LEMMA DroppedClients ==
  ASSUME Relayed, NEW s, boards[s] \subseteq Clients, NEW sender, NEW f \in Frames, DeliverLocal(s, sender, f),
         dropped \subseteq Frames \X Clients
  PROVE  dropped' \subseteq Frames \X Clients
BY DEF DeliverLocal

LEMMA RunningInit == RelayInit => Running
BY DEF RelayInit, Init, Running

LEMMA RunningConnect ==
  ASSUME Relayed, Running, NEW c \in Clients, NEW s \in Slots, Connect(c, s)
  PROVE  Running'
BY DEF Running, Connect, Add, relayVars, Relayed, Places

\* Who is inside add or remove has a slot; it leaves it or keeps it.
LEMMA RunningProgress ==
  ASSUME Relayed, Running, NEW c \in Clients, Progress(c), UNCHANGED relayVars
  PROVE  Running'
<1>1. at[c] \in Slots /\ at[c][1] \in up
  <2>1. pc[c] # "off" /\ at[c] \in Slots \union {Nowhere} /\ at[c] # Nowhere
    BY DEF Progress, BindBoard, Subscribe, UnbindBoard, Unsubscribe, Relayed, Places
  <2> QED BY <2>1 DEF Running
<1>2. \A d \in Clients : at'[d] = at[d] \/ at'[d] = Nowhere
  BY DEF Progress, BindBoard, Subscribe, UnbindBoard, Unsubscribe, Leave, Relayed, Places
<1>3. subscribed' \subseteq subscribed \union {at[c]}
  BY DEF Progress, BindBoard, Subscribe, UnbindBoard, Unsubscribe
<1> QED BY <1>1, <1>2, <1>3 DEF Running, relayVars

LEMMA RunningDisconnect ==
  ASSUME Relayed, Running, NEW c \in Clients, Disconnect(c)
  PROVE  Running'
<1>1. \A d \in Clients : at'[d] = at[d] \/ at'[d] = Nowhere
  BY DEF Disconnect, Remove, Leave, Relayed, Places
<1> QED BY <1>1 DEF Running, Disconnect, Remove, Forget

LEMMA RunningPublish ==
  ASSUME Relayed, Running, NEW c \in Clients, PublishLocal(c) \/ Publishing(c)
  PROVE  Running'
<1>1. CASE PublishLocal(c)
  <2>1. PICK s, sender, f : s = at[c] /\ sender = {c} /\ f = sent + 1 /\ DeliverLocal(s, sender, f)
    BY <1>1 DEF PublishLocal
  <2>2. f \in Frames /\ boards[s] \subseteq Clients
    BY <1>1, <2>1, MaxFramesNat DEF PublishLocal, Relayed, Shape, Places, Frames
  <2>3. dropped' \subseteq Frames \X Clients
    BY <2>1, <2>2, DroppedClients DEF Running
  <2> QED BY <1>1, <2>3 DEF Running, PublishLocal, bindVars
<1>2. CASE Record(c)
  BY <1>2 DEF Running, Record, bindVars
<1>3. CASE PublishRelay(c)
  <2> DEFINE b == at[c][2]
             tagged == [origin |-> at[c][1], board |-> b, frame |-> pub[c][1]]
  <2>1. UNCHANGED <<up, at, subscribed>>
    BY <1>3 DEF PublishRelay, bindVars
  <2>2. pub[c][1] \in Frames
    BY <1>3 DEF PublishRelay, Relayed, Shape
  <2>3. missed' \subseteq Frames \X Nodes
    BY <1>3, <2>2 DEF PublishRelay, Running
  <2>4. \/ wire' = wire
        \/ wire' = [n \in Nodes |-> IF n \in Channel(b) THEN Append(wire[n], tagged) ELSE wire[n]]
    BY <1>3 DEF PublishRelay
  <2> HIDE DEF b, tagged
  <2>5. \A n \in Nodes : n \in Channel(b) => n \in up
    BY DEF Channel, Running
  <2>6. \A n \in Nodes : wire'[n] # <<>> => n \in up
    BY <2>4, <2>5 DEF Running
  <2>7. dropped' = dropped
    BY <1>3 DEF PublishRelay
  <2> QED BY <2>1, <2>3, <2>6, <2>7 DEF Running
<1> QED BY <1>1, <1>2, <1>3 DEF Publishing

LEMMA RunningReceive ==
  ASSUME Relayed, Running, NEW n \in Nodes, Receive(n)
  PROVE  Running'
<1>1. /\ wire[n] # <<>> /\ UNCHANGED <<up, at, subscribed, missed>>
      /\ \A k \in Nodes \ {n} : wire'[k] = wire[k]
  BY DEF Receive, bindVars, Relayed, Shape
<1>2. dropped' \subseteq Frames \X Clients
  <2>1. wire[n] \in Seq(Tagged)
    BY DEF Relayed, Shape
  <2>2. Head(wire[n]) \in Tagged
    BY <1>1, <2>1, Tailed
  <2>3. Head(wire[n]).frame \in Frames /\ <<n, Head(wire[n]).board>> \in Slots
    BY <2>2 DEF Tagged, Slots
  <2>4. CASE dropped' = dropped
    BY <2>4 DEF Running
  <2>5. CASE DeliverLocal(<<n, Head(wire[n]).board>>, {}, Head(wire[n]).frame)
    <3>1. PICK s, sender, f :
            s = <<n, Head(wire[n]).board>> /\ sender = {} /\ f = Head(wire[n]).frame /\ DeliverLocal(s, sender, f)
      BY <2>5
    <3>2. f \in Frames /\ boards[s] \subseteq Clients
      BY <2>3, <3>1 DEF Relayed, Places
    <3> QED BY <3>1, <3>2, DroppedClients DEF Running
  <2> QED BY <2>4, <2>5 DEF Receive
<1> QED BY <1>1, <1>2 DEF Running

LEMMA RunningLose ==
  ASSUME Relayed, Running, NEW n \in Nodes, Lose(n)
  PROVE  Running'
<1>1. PICK i \in DOMAIN wire[n] :
        /\ missed' = missed \union {<<f, n>> : f \in {wire[n][j].frame : j \in i .. Len(wire[n])}
                                                       \ By(Nowhere)}
        /\ wire' = [wire EXCEPT ![n] = SubSeq(@, 1, i - 1)]
  BY DEF Lose
<1>2. wire[n] \in Seq(Tagged) /\ wire[n] # <<>>
  <2>1. wire[n] \in Seq(Tagged)
    BY DEF Relayed, Shape
  <2> QED BY <1>1, <2>1
<1>3. \A j \in i .. Len(wire[n]) : wire[n][j].frame \in Frames
  <2>1. \A j \in i .. Len(wire[n]) : j \in DOMAIN wire[n]
    BY <1>1, <1>2
  <2> QED BY <2>1, WireElement DEF Relayed, Shape
<1>4. missed' \subseteq Frames \X Nodes
  BY <1>1, <1>3 DEF Running
<1>5. /\ UNCHANGED <<up, at, subscribed, dropped>>
      /\ \A k \in Nodes \ {n} : wire'[k] = wire[k]
  BY <1>1 DEF Lose, bindVars, Relayed, Shape
<1> QED BY <1>2, <1>4, <1>5 DEF Running

LEMMA RunningCrash ==
  ASSUME Relayed, Running, NEW n \in Nodes, Crash(n)
  PROVE  Running'
<1>1. /\ up' = up \ {n} /\ wire'[n] = <<>> /\ \A k \in Nodes \ {n} : wire'[k] = wire[k]
      /\ subscribed' = {s \in subscribed : s[1] # n}
      /\ missed' \subseteq missed /\ dropped' \subseteq dropped
  BY DEF Crash, Forget, Relayed, Shape
<1>2. \A d \in Clients : at'[d] = IF at[d] # Nowhere /\ at[d][1] = n THEN Nowhere ELSE at[d]
  BY DEF Crash
<1> QED BY <1>1, <1>2 DEF Running

LEMMA RunningBoot ==
  ASSUME Running, NEW n \in Nodes, Boot(n)
  PROVE  Running'
BY DEF Running, Boot, bindVars

LEMMA RunningNext ==
  ASSUME Relayed, Running, [RelayNext]_vars
  PROVE  Running'
<1>1. CASE UNCHANGED vars
  BY <1>1 DEF vars, bindVars, relayVars, Running
<1>2. CASE RelayNext
  BY <1>2, RunningConnect, RunningProgress, RunningDisconnect, RunningPublish,
     RunningReceive, RunningLose, RunningCrash, RunningBoot DEF RelayNext
<1> QED BY <1>1, <1>2

(***************************************************************************)
(* The state has the shape of the code's; only a connection on the board   *)
(* publishes, and nothing waits for a process that does not run.           *)
(***************************************************************************)
THEOREM RelayTypeCorrect == RelaySpec => []RelayTypeOK
<1>1. RelayInit => Running
  BY RunningInit
<1>2. Relayed /\ Running /\ [RelayNext]_vars => Running'
  BY RunningNext
<1>3. Relayed /\ Running => RelayTypeOK
  <2> SUFFICES ASSUME Relayed, Running PROVE RelayTypeOK
    OBVIOUS
  <2>1. \A c \in Clients : pub[c] # <<>> => pub[c] \in Frames \X {"relay", "record"} /\ pc[c] = "open"
    BY DEF Relayed, Shape, Present
  <2>2. \A n \in Nodes : wire[n] \in Seq([origin : Nodes, board : Boards, frame : Frames])
    BY DEF Relayed, Shape, Tagged
  <2> QED BY <2>1, <2>2 DEF Relayed, Shape, Running, RelayTypeOK
<1> QED BY <1>1, <1>2, <1>3, AlwaysRelayed, PTL DEF RelaySpec

-----------------------------------------------------------------------------
(* Nothing of what follows is lost on the way. *)

\* What a connection publishes is the last it has sent.
Latest == \A a \in Clients : pub[a] # <<>> => \A f \in By(a) : f <= pub[a][1]

\* The channel a frame is in, and who hears it, are those of its author's board.
BoardTags ==
  \A n \in Nodes : \A i \in DOMAIN wire[n] :
    author[wire[n][i].frame] # Nowhere => wire[n][i].board = at[author[wire[n][i].frame]][2]

HeardBoard ==
  \A d \in Clients : \A i \in DOMAIN inbox[d] :
    author[inbox[d][i]] # Nowhere => at[author[inbox[d][i]]][2] = at[d][2]

Coming(f, n) == OnItsWay(f, n) \/ <<f, n>> \in missed

\* The frames DeliverLocal had for d, those its channel had no room for included.
Got(d) == Heard(d) \union {f \in Frames : <<f, d>> \in dropped}

\* Who has heard a on a's node got the rest too; on another node the rest is coming,
RestHere ==
  \A d, a \in Clients : \A e, f \in By(a) :
    e < f /\ e \in Heard(d) /\ at[d][1] = at[a][1] => f \in Got(d)

RestElsewhere ==
  \A d, a \in Clients : \A e, f \in By(a) :
    e < f /\ e \in Heard(d) /\ at[d][1] # at[a][1] => f \in Got(d) \/ Coming(f, at[d][1])

\* and so it is behind a frame that itself is still to be heard there.
RestOnWire ==
  \A n \in Nodes : \A i \in DOMAIN wire[n] : \A a \in Clients : \A f \in By(a) :
    wire[n][i].frame \in By(a) /\ wire[n][i].frame < f => Coming(f, n)

Following == Latest /\ BoardTags /\ HeardBoard /\ RestHere /\ RestElsewhere /\ RestOnWire

LEMMA FollowingInit == RelayInit => Following
BY DEF RelayInit, Init, Following, Latest, BoardTags, HeardBoard, RestHere, RestElsewhere, RestOnWire, Heard

\* A connection that was sent a frame has a place, and so has the author of one.
LEMMA SitsInSlot ==
  ASSUME Relayed
  PROVE  /\ \A d \in Clients : inbox[d] # <<>> => at[d] \in Slots /\ d \in boards[at[d]]
         /\ \A a \in Clients : \A f \in By(a) : at[a] \in Slots /\ pc[a] = "open"
         /\ \A d \in Clients : \A e \in Heard(d) : e \in Frames /\ inbox[d] # <<>>
<1>0. Places /\ Shape /\ Present
  BY DEF Relayed
<1>1. ASSUME NEW d \in Clients, inbox[d] # <<>>
      PROVE  at[d] \in Slots /\ d \in boards[at[d]]
  <2>1. pc[d] \in OnBoard /\ pc[d] # "off"
    BY <1>0, <1>1 DEF Present, OnBoard
  <2>2. at[d] \in Slots
    BY <1>0, <2>1 DEF Places
  <2> QED BY <1>0, <2>1, <2>2 DEF Places
<1>2. ASSUME NEW a \in Clients, NEW f \in By(a)
      PROVE  at[a] \in Slots /\ pc[a] = "open"
  <2>1. f \in Frames /\ author[f] = a /\ a # Nowhere
    BY NowhereIsNoClient DEF By
  <2>2. pc[a] = "open"
    BY <1>0, <2>1 DEF Present
  <2> QED BY <1>0, <2>2 DEF Places
<1>3. ASSUME NEW d \in Clients, NEW e \in Heard(d)
      PROVE  e \in Frames /\ inbox[d] # <<>>
  BY <1>0, InboxElement DEF Heard, Shape
<1> QED BY <1>1, <1>2, <1>3

\* What a client that is still there had no room for is remembered, unless its author has left.
StillDropped ==
  \A f \in Frames, d \in Clients :
    author'[f] # Nowhere /\ inbox'[d] # <<>> /\ <<f, d>> \in dropped => <<f, d>> \in dropped'

(***************************************************************************)
(* A step in which no frame is sent or heard: connections may end, nodes   *)
(* may be gone, and a wire holds what it held or the last of its author.   *)
(***************************************************************************)
LEMMA NothingHeard ==
  ASSUME Relayed, Following, NEW gone \in SUBSET Nodes,
         \A f \in Frames : author'[f] # Nowhere => author'[f] = author[f] /\ at'[author[f]] = at[author[f]],
         \A d \in Clients : inbox'[d] # <<>> => inbox'[d] = inbox[d] /\ at'[d] = at[d] /\ at[d][1] \notin gone,
         \A a \in Clients : pub'[a] # <<>> => pub[a] # <<>> /\ pub'[a][1] = pub[a][1],
         \A n \in Nodes : \A i \in DOMAIN wire'[n] :
           n \notin gone /\
           \/ \E j \in DOMAIN wire[n] : wire'[n][i] = wire[n][j]
           \/ \E c \in Clients : /\ wire'[n][i].frame \in By(c) /\ wire'[n][i].board = at[c][2]
                                 /\ \A f \in By(c) : f <= wire'[n][i].frame,
         \A f \in Frames, n \in Nodes \ gone : author'[f] # Nowhere /\ Coming(f, n) => Coming(f, n)',
         StillDropped
  PROVE  Following'
<1>0. Latest /\ BoardTags /\ HeardBoard /\ RestHere /\ RestElsewhere /\ RestOnWire
  BY DEF Following
<1>1. \A a \in Clients : \A f \in By(a)' :
        f \in Frames /\ f \in By(a) /\ author'[f] # Nowhere /\ author[f] = a /\ at'[a] = at[a]
  BY NowhereIsNoClient DEF By
<1>2. \A d \in Clients : \A e \in Heard(d)' :
        /\ e \in Heard(d) /\ Heard(d)' = Heard(d) /\ at'[d] = at[d]
        /\ at[d][1] \in Nodes \ gone
  <2> SUFFICES ASSUME NEW d \in Clients, NEW e \in Heard(d)'
               PROVE  /\ e \in Heard(d) /\ Heard(d)' = Heard(d) /\ at'[d] = at[d]
                      /\ at[d][1] \in Nodes \ gone
    OBVIOUS
  <2>1. inbox'[d] # <<>>
    BY DEF Heard
  <2>2. inbox'[d] = inbox[d] /\ at'[d] = at[d] /\ at[d][1] \notin gone
    BY <2>1
  <2>3. at[d] \in Slots
    BY <2>1, <2>2, SitsInSlot
  <2> QED BY <2>2, <2>3 DEF Heard, Slots
<1>3. Latest'
  BY <1>0, <1>1 DEF Latest
<1>4. BoardTags'
  <2> SUFFICES ASSUME NEW n \in Nodes, NEW i \in DOMAIN wire'[n], author'[wire'[n][i].frame] # Nowhere
               PROVE  wire'[n][i].board = at'[author'[wire'[n][i].frame]][2]
    BY DEF BoardTags
  <2>1. CASE \E j \in DOMAIN wire[n] : wire'[n][i] = wire[n][j]
    <3>1. PICK j \in DOMAIN wire[n] : wire'[n][i] = wire[n][j]
      BY <2>1
    <3>2. wire[n][j].frame \in Frames
      BY WireElement DEF Relayed, Shape
    <3> QED BY <1>0, <3>1, <3>2 DEF BoardTags
  <2>2. CASE \E c \in Clients : wire'[n][i].frame \in By(c) /\ wire'[n][i].board = at[c][2]
    BY <2>2 DEF By
  <2> QED BY <2>1, <2>2
<1>5. HeardBoard'
  <2> SUFFICES ASSUME NEW d \in Clients, NEW i \in DOMAIN inbox'[d], author'[inbox'[d][i]] # Nowhere
               PROVE  at'[author'[inbox'[d][i]]][2] = at'[d][2]
    BY DEF HeardBoard
  <2>1. inbox'[d][i] \in Heard(d)'
    BY DEF Heard
  <2>2. inbox'[d] = inbox[d] /\ at'[d] = at[d]
    <3>1. inbox'[d] # <<>>
      OBVIOUS
    <3> QED BY <3>1
  <2>3. inbox[d][i] \in Frames
    BY <1>2, <2>1, <2>2, SitsInSlot
  <2> QED BY <1>0, <2>2, <2>3 DEF HeardBoard
\* Who had heard something has got what it had.
<1>9. ASSUME NEW d \in Clients, NEW e \in Heard(d)', NEW a \in Clients, NEW f \in By(a)', f \in Got(d)
      PROVE  f \in Got(d)'
  <2>1. inbox'[d] # <<>>
    BY DEF Heard
  <2>2. Heard(d)' = Heard(d) /\ f \in Frames /\ author'[f] # Nowhere
    BY <1>1, <1>2
  <2>3. <<f, d>> \in dropped => <<f, d>> \in dropped'
    BY <2>1, <2>2 DEF StillDropped
  <2> QED BY <1>9, <2>2, <2>3 DEF Got
<1>6. RestHere'
  <2> SUFFICES ASSUME NEW d \in Clients, NEW a \in Clients, NEW e \in By(a)', NEW f \in By(a)',
                      e < f, e \in Heard(d)', at'[d][1] = at'[a][1]
               PROVE  f \in Got(d)'
    BY DEF RestHere
  <2>1. f \in Got(d)
    BY <1>0, <1>1, <1>2 DEF RestHere
  <2> QED BY <1>9, <2>1
<1>7. RestElsewhere'
  <2> SUFFICES ASSUME NEW d \in Clients, NEW a \in Clients, NEW e \in By(a)', NEW f \in By(a)',
                      e < f, e \in Heard(d)', at'[d][1] # at'[a][1]
               PROVE  f \in Got(d)' \/ Coming(f, at[d][1])'
    BY DEF RestElsewhere
  <2>1. /\ e \in By(a) /\ f \in By(a) /\ e \in Heard(d) /\ Heard(d)' = Heard(d)
        /\ at[d][1] # at[a][1] /\ at[d][1] \in Nodes \ gone /\ f \in Frames /\ author'[f] # Nowhere
    BY <1>1, <1>2
  <2>2. f \in Got(d) \/ Coming(f, at[d][1])
    BY <1>0, <2>1 DEF RestElsewhere
  <2>3. at'[d] = at[d]
    BY <1>2
  <2> DEFINE n == at[d][1]
  <2> HIDE DEF n
  <2>4. \A k \in Nodes \ gone : Coming(f, k) => Coming(f, k)'
    BY <2>1
  <2> QED BY <1>9, <2>1, <2>2, <2>3, <2>4 DEF n
<1>8. RestOnWire'
  <2> SUFFICES ASSUME NEW n \in Nodes, NEW i \in DOMAIN wire'[n], NEW a \in Clients, NEW f \in By(a)',
                      wire'[n][i].frame \in By(a)', wire'[n][i].frame < f
               PROVE  Coming(f, n)'
    BY DEF RestOnWire
  <2>1. /\ f \in By(a) /\ wire'[n][i].frame \in By(a) /\ f \in Frames /\ author'[f] # Nowhere
        /\ wire'[n][i].frame \in Frames /\ author[f] = a /\ author[wire'[n][i].frame] = a
    BY <1>1
  <2>2. CASE \E j \in DOMAIN wire[n] : wire'[n][i] = wire[n][j]
    <3>1. Coming(f, n)
      BY <1>0, <2>1, <2>2 DEF RestOnWire
    <3> QED BY <2>1, <3>1
  <2>3. CASE \E c \in Clients : /\ wire'[n][i].frame \in By(c)
                                /\ \A g \in By(c) : g <= wire'[n][i].frame
    <3>1. f <= wire'[n][i].frame
      BY <2>1, <2>3 DEF By
    <3> QED BY <2>1, <3>1 DEF Frames
  <2> QED BY <2>2, <2>3
<1> QED BY <1>3, <1>4, <1>5, <1>6, <1>7, <1>8 DEF Following

\* The same for a step in which every node goes on, and no wire holds more.
LEMMA NoneGone ==
  ASSUME Relayed, Following,
         \A f \in Frames : author'[f] # Nowhere => author'[f] = author[f] /\ at'[author[f]] = at[author[f]],
         \A d \in Clients : inbox'[d] # <<>> => inbox'[d] = inbox[d] /\ at'[d] = at[d],
         \A a \in Clients : pub'[a] # <<>> => pub'[a] = pub[a],
         \A n \in Nodes : \A i \in DOMAIN wire'[n] : i \in DOMAIN wire[n] /\ wire'[n][i] = wire[n][i],
         \A f \in Frames, n \in Nodes : author'[f] # Nowhere /\ Coming(f, n) => Coming(f, n)',
         StillDropped
  PROVE  Following'
<1> DEFINE gone == {}
<1>1. /\ gone \in SUBSET Nodes
      /\ \A d \in Clients : inbox'[d] # <<>> => inbox'[d] = inbox[d] /\ at'[d] = at[d] /\ at[d][1] \notin gone
      /\ \A f \in Frames, n \in Nodes \ gone : author'[f] # Nowhere /\ Coming(f, n) => Coming(f, n)'
  OBVIOUS
<1>2. \A a \in Clients : pub'[a] # <<>> => pub[a] # <<>> /\ pub'[a][1] = pub[a][1]
  OBVIOUS
<1>3. \A n \in Nodes : \A i \in DOMAIN wire'[n] :
        n \notin gone /\ \E j \in DOMAIN wire[n] : wire'[n][i] = wire[n][j]
  OBVIOUS
<1> HIDE DEF gone
<1> QED BY <1>1, <1>2, <1>3, NothingHeard

\* Nothing about frames changes, and who is on a board stays there.
LEMMA FollowingQuiet ==
  ASSUME Relayed, Following, UNCHANGED <<author, pub, wire, inbox, missed, dropped>>,
         \A d \in Clients : pc[d] \in OnBoard => at'[d] = at[d]
  PROVE  Following'
<1>1. \A f \in Frames : author[f] # Nowhere => at'[author[f]] = at[author[f]]
  <2> SUFFICES ASSUME NEW f \in Frames, author[f] # Nowhere PROVE at'[author[f]] = at[author[f]]
    OBVIOUS
  <2>1. author[f] \in Clients /\ pc[author[f]] = "open"
    BY DEF Relayed, Present, Shape
  <2> QED BY <2>1 DEF OnBoard
<1>2. \A d \in Clients : inbox[d] # <<>> => at'[d] = at[d]
  BY DEF Relayed, Present
<1>3. \A f \in Frames, n \in Nodes : Coming(f, n) => Coming(f, n)'
  BY DEF Coming, OnItsWay
<1>4. StillDropped
  BY DEF StillDropped
<1> QED BY <1>1, <1>2, <1>3, <1>4, NoneGone

LEMMA FollowingConnect ==
  ASSUME Relayed, Following, NEW c \in Clients, NEW s \in Slots, Connect(c, s)
  PROVE  Following'
<1>1. Places /\ Add(c, s) /\ UNCHANGED relayVars
  BY DEF Relayed, Connect
<1>2. pc[c] = "off" /\ \A d \in Clients \ {c} : at'[d] = at[d]
  BY <1>1, PlacesAdd
<1> QED BY <1>1, <1>2, FollowingQuiet DEF OnBoard, relayVars

LEMMA FollowingProgress ==
  ASSUME Relayed, Following, NEW c \in Clients, Progress(c), UNCHANGED relayVars
  PROVE  Following'
<1>1. /\ pc[c] \in {"bind", "subscribe"} => at'[c] = at[c]
      /\ pc[c] # "open"
      /\ \A d \in Clients \ {c} : at'[d] = at[d]
  BY PlacesProgress DEF Relayed
<1> QED BY <1>1, FollowingQuiet DEF OnBoard, relayVars

LEMMA FollowingBoot ==
  ASSUME Relayed, Following, NEW n \in Nodes, Boot(n)
  PROVE  Following'
BY FollowingQuiet DEF Boot, bindVars

LEMMA FollowingRecord ==
  ASSUME Relayed, Following, NEW c \in Clients, Record(c)
  PROVE  Following'
<1>1. /\ UNCHANGED <<at, author, inbox, wire, missed, dropped>>
      /\ pub[c] # <<>> /\ pub[c][2] = "record" /\ pub' = [pub EXCEPT ![c] = <<>>]
  BY DEF Record, bindVars
<1>2. /\ pub'[c] = <<>> /\ \A a \in Clients \ {c} : pub'[a] = pub[a]
  BY <1>1 DEF Relayed, Shape
<1>3. \A f \in Frames, n \in Nodes : Coming(f, n) => Coming(f, n)'
  BY <1>1, <1>2 DEF Coming, OnItsWay
<1>4. \A a \in Clients : pub'[a] # <<>> => pub'[a] = pub[a]
  BY <1>2
<1>5. StillDropped
  BY <1>1 DEF StillDropped
<1> QED BY <1>1, <1>3, <1>4, <1>5, NoneGone

\* Frames that are cut off the wire were missed, unless their author has left.
LEMMA FollowingLose ==
  ASSUME Relayed, Following, NEW n \in Nodes, Lose(n)
  PROVE  Following'
<1>1. PICK i \in DOMAIN wire[n] :
        /\ missed' = missed \union {<<f, n>> : f \in {wire[n][j].frame : j \in i .. Len(wire[n])}
                                                       \ By(Nowhere)}
        /\ wire' = [wire EXCEPT ![n] = SubSeq(@, 1, i - 1)]
  BY DEF Lose
<1>2. UNCHANGED <<at, author, inbox, pub>> /\ StillDropped
  BY DEF Lose, bindVars, StillDropped
<1>3. wire[n] \in Seq(Tagged)
  BY DEF Relayed, Shape
<1>4. /\ wire'[n] = SubSeq(wire[n], 1, i - 1) /\ \A k \in Nodes \ {n} : wire'[k] = wire[k]
  BY <1>1 DEF Relayed, Shape
<1>5. /\ \A j \in DOMAIN SubSeq(wire[n], 1, i - 1) :
           j \in DOMAIN wire[n] /\ SubSeq(wire[n], 1, i - 1)[j] = wire[n][j]
      /\ \A j \in DOMAIN wire[n] : j < i =>
           j \in DOMAIN SubSeq(wire[n], 1, i - 1) /\ SubSeq(wire[n], 1, i - 1)[j] = wire[n][j]
      /\ \A j \in DOMAIN wire[n] : j < i \/ j \in i .. Len(wire[n])
  BY <1>1, <1>3
<1>6. \A k \in Nodes : \A j \in DOMAIN wire'[k] : j \in DOMAIN wire[k] /\ wire'[k][j] = wire[k][j]
  BY <1>4, <1>5
<1>7. ASSUME NEW f \in Frames, NEW k \in Nodes, author[f] # Nowhere, Coming(f, k)
      PROVE  Coming(f, k)'
  <2>1. CASE (\E a \in Clients : pub[a] = <<f, "relay">>) \/ <<f, k>> \in missed
    BY <1>1, <1>2, <2>1 DEF Coming, OnItsWay
  <2>2. CASE \E j \in DOMAIN wire[k] : wire[k][j].frame = f
    <3>1. PICK j \in DOMAIN wire[k] : wire[k][j].frame = f
      BY <2>2
    <3>2. CASE k # n
      BY <1>4, <3>1, <3>2 DEF Coming, OnItsWay
    <3>3. CASE k = n /\ j < i
      BY <1>4, <1>5, <3>1, <3>3 DEF Coming, OnItsWay
    <3>4. CASE k = n /\ j \in i .. Len(wire[n])
      <4>1. f \in {wire[n][h].frame : h \in i .. Len(wire[n])} \ By(Nowhere)
        BY <1>7, <3>1, <3>4 DEF By
      <4>2. <<f, n>> \in missed'
        BY <1>1, <4>1
      <4> QED BY <3>4, <4>2 DEF Coming
    <3> QED BY <1>5, <3>1, <3>2, <3>3, <3>4
  <2> QED BY <1>7, <2>1, <2>2 DEF Coming, OnItsWay
<1> QED BY <1>2, <1>6, <1>7, NoneGone

LEMMA FollowingDisconnect ==
  ASSUME Relayed, Following, NEW c \in Clients, Disconnect(c)
  PROVE  Following'
<1>1. Places /\ Remove(c) /\ pub[c] = <<>> /\ Forget({c}) /\ UNCHANGED <<pub, wire>>
  BY DEF Relayed, Disconnect
<1>2. \A d \in Clients \ {c} : at'[d] = at[d]
  BY <1>1, PlacesRemove
<1>3. /\ \A f \in Frames : author'[f] # Nowhere => author[f] # c /\ author'[f] = author[f] /\ author[f] \in Clients
      /\ \A d \in Clients : inbox'[d] # <<>> => d # c /\ inbox'[d] = inbox[d]
      /\ missed' = {m \in missed : author[m[1]] # c}
  BY <1>1 DEF Forget, Relayed, Shape
<1>4. \A f \in Frames, n \in Nodes : author'[f] # Nowhere /\ Coming(f, n) => Coming(f, n)'
  BY <1>1, <1>3 DEF Coming, OnItsWay
<1>5. \A f \in Frames : author'[f] # Nowhere => author'[f] = author[f] /\ at'[author[f]] = at[author[f]]
  BY <1>2, <1>3
<1>6. \A d \in Clients : inbox'[d] # <<>> => inbox'[d] = inbox[d] /\ at'[d] = at[d]
  BY <1>2, <1>3
<1>7. StillDropped
  BY <1>1, <1>3 DEF Forget, StillDropped
<1> QED BY <1>1, <1>4, <1>5, <1>6, <1>7, NoneGone

LEMMA FollowingCrash ==
  ASSUME Relayed, Following, NEW n \in Nodes, Crash(n)
  PROVE  Following'
<1> DEFINE here == {c \in Clients : at[c] # Nowhere /\ at[c][1] = n}
<1>1. /\ \A c \in Clients : at'[c] = IF c \in here THEN Nowhere ELSE at[c]
      /\ \A c \in Clients : pub'[c] = IF c \in here THEN <<>> ELSE pub[c]
      /\ wire' = [wire EXCEPT ![n] = <<>>]
      /\ Forget(here)
  BY DEF Crash
<1>2. wire'[n] = <<>> /\ \A k \in Nodes \ {n} : wire'[k] = wire[k]
  BY <1>1 DEF Relayed, Shape
<1>3. /\ \A f \in Frames : author'[f] # Nowhere =>
           author[f] \notin here /\ author'[f] = author[f] /\ author[f] \in Clients
      /\ \A d \in Clients : inbox'[d] # <<>> => d \notin here /\ inbox'[d] = inbox[d]
      /\ missed' = {m \in missed : author[m[1]] \notin here}
  BY <1>1 DEF Forget, Relayed, Shape
<1>4. \A d \in Clients : inbox'[d] # <<>> => at[d][1] # n
  <2> SUFFICES ASSUME NEW d \in Clients, inbox'[d] # <<>> PROVE at[d][1] # n
    OBVIOUS
  <2>1. d \notin here /\ inbox[d] # <<>>
    BY <1>3
  <2>2. at[d] \in Slots
    BY <2>1, SitsInSlot
  <2> QED BY <2>1, <2>2, NowhereIsNoSlot
\* Who was publishing on n has left.
<1>5. ASSUME NEW f \in Frames, NEW k \in Nodes \ {n}, author'[f] # Nowhere, Coming(f, k)
      PROVE  Coming(f, k)'
  <2>1. CASE \E a \in Clients : pub[a] = <<f, "relay">>
    <3>1. PICK a \in Clients : pub[a] = <<f, "relay">>
      BY <2>1
    <3>2. author[f] = a
      BY <3>1 DEF Relayed, Present
    <3>3. pub'[a] = <<f, "relay">>
      BY <1>1, <1>3, <1>5, <3>1, <3>2
    <3> QED BY <3>3 DEF Coming, OnItsWay
  <2>2. CASE \E j \in DOMAIN wire[k] : wire[k][j].frame = f
    BY <1>2, <2>2 DEF Coming, OnItsWay
  <2>3. CASE <<f, k>> \in missed
    BY <1>3, <1>5, <2>3 DEF Coming
  <2> QED BY <1>5, <2>1, <2>2, <2>3 DEF Coming, OnItsWay
<1>6. \A k \in Nodes : \A i \in DOMAIN wire'[k] : k # n /\ i \in DOMAIN wire[k] /\ wire'[k][i] = wire[k][i]
  BY <1>2
<1>7. \A f \in Frames : author'[f] # Nowhere => author'[f] = author[f] /\ at'[author[f]] = at[author[f]]
  BY <1>1, <1>3
<1>8. \A d \in Clients : inbox'[d] # <<>> => inbox'[d] = inbox[d] /\ at'[d] = at[d] /\ at[d][1] \notin {n}
  BY <1>1, <1>3, <1>4
<1>9. \A a \in Clients : pub'[a] # <<>> => pub[a] # <<>> /\ pub'[a][1] = pub[a][1]
  BY <1>1
<1> DEFINE gone == {n}
<1>10. /\ gone \in SUBSET Nodes
       /\ \A d \in Clients : inbox'[d] # <<>> => inbox'[d] = inbox[d] /\ at'[d] = at[d] /\ at[d][1] \notin gone
       /\ \A f \in Frames, k \in Nodes \ gone : author'[f] # Nowhere /\ Coming(f, k) => Coming(f, k)'
  BY <1>5, <1>8
<1>11. \A k \in Nodes : \A i \in DOMAIN wire'[k] :
         k \notin gone /\
         \/ \E j \in DOMAIN wire[k] : wire'[k][i] = wire[k][j]
         \/ \E c \in Clients : /\ wire'[k][i].frame \in By(c) /\ wire'[k][i].board = at[c][2]
                               /\ \A f \in By(c) : f <= wire'[k][i].frame
  BY <1>6
<1>12. StillDropped
  BY <1>1, <1>3 DEF Forget, StillDropped
<1> HIDE DEF here, gone
<1> QED BY <1>7, <1>9, <1>10, <1>11, <1>12, NothingHeard

\* The frame relayed is the last of its author, and reaches a node's wire or is missed there.
LEMMA FollowingPublishRelay ==
  ASSUME Relayed, Following, NEW c \in Clients, PublishRelay(c)
  PROVE  Following'
<1> DEFINE f == pub[c][1]
           reached == Channel(at[c][2])
           tagged == [origin |-> at[c][1], board |-> at[c][2], frame |-> f]
           gone == {}
<1>0. Shape /\ Present /\ Latest
  BY DEF Relayed, Following
<1>1. /\ pub[c] # <<>> /\ pub[c][2] = "relay"
      /\ pub' = [pub EXCEPT ![c] = <<f, "record">>]
      /\ UNCHANGED <<at, author, inbox>>
      /\ \/ /\ wire' = [n \in Nodes |-> IF n \in reached THEN Append(wire[n], tagged) ELSE wire[n]]
            /\ missed' = missed \union {<<f, n>> : n \in Nodes \ reached}
         \/ /\ wire' = wire
            /\ missed' = missed \union {<<f, n>> : n \in Nodes}
  BY DEF PublishRelay, bindVars
<1>2. f \in Frames /\ f \in By(c) /\ at[c] \in Slots /\ pub[c] = <<f, "relay">>
  <2>1. f \in Frames /\ author[f] = c
    BY <1>0, <1>1 DEF Shape, Present
  <2>2. pub[c] = <<f, "relay">>
    BY <1>0, <1>1 DEF Shape
  <2> QED BY <2>1, <2>2, SitsInSlot DEF By
<1>3. \A g \in By(c) : g <= f
  BY <1>0, <1>1 DEF Latest
<1>4. tagged \in Tagged /\ tagged.frame = f /\ tagged.board = at[c][2]
  BY <1>2 DEF Tagged, Slots
<1> HIDE DEF f, reached, tagged
<1>5. /\ pub'[c] = <<f, "record">> /\ \A a \in Clients \ {c} : pub'[a] = pub[a]
  BY <1>0, <1>1 DEF Shape
<1>6. ASSUME NEW n \in Nodes
      PROVE  /\ \A i \in DOMAIN wire[n] : i \in DOMAIN wire'[n] /\ wire'[n][i] = wire[n][i]
             /\ \A i \in DOMAIN wire'[n] : (\E j \in DOMAIN wire[n] : wire'[n][i] = wire[n][j])
                                           \/ wire'[n][i] = tagged
             /\ (\E i \in DOMAIN wire'[n] : wire'[n][i] = tagged) \/ <<f, n>> \in missed'
  <2>1. wire[n] \in Seq(Tagged)
    BY <1>0 DEF Shape
  <2>2. /\ DOMAIN Append(wire[n], tagged) = 1 .. Len(wire[n]) + 1
        /\ DOMAIN wire[n] = 1 .. Len(wire[n]) /\ Len(wire[n]) \in Nat
        /\ \A i \in 1 .. Len(wire[n]) : Append(wire[n], tagged)[i] = wire[n][i]
        /\ Append(wire[n], tagged)[Len(wire[n]) + 1] = tagged
    BY <1>4, <2>1, Appended
  <2>3. CASE wire'[n] = Append(wire[n], tagged)
    BY <2>2, <2>3
  <2>4. CASE wire'[n] = wire[n] /\ <<f, n>> \in missed'
    BY <2>4
  <2> QED BY <1>1, <2>3, <2>4
<1>7. ASSUME NEW g \in Frames, NEW n \in Nodes, Coming(g, n)
      PROVE  Coming(g, n)'
  <2>1. CASE g = f
    BY <1>4, <1>6, <2>1 DEF Coming, OnItsWay
  <2>2. CASE g # f
    <3>1. CASE \E a \in Clients : pub[a] = <<g, "relay">>
      <4>1. PICK a \in Clients : pub[a] = <<g, "relay">>
        BY <3>1
      <4>2. pub'[a] = <<g, "relay">>
        BY <1>2, <1>5, <2>2, <4>1
      <4> QED BY <4>2 DEF Coming, OnItsWay
    <3>2. CASE \E j \in DOMAIN wire[n] : wire[n][j].frame = g
      BY <1>6, <3>2 DEF Coming, OnItsWay
    <3>3. CASE <<g, n>> \in missed
      BY <1>1, <3>3 DEF Coming
    <3> QED BY <1>7, <3>1, <3>2, <3>3 DEF Coming, OnItsWay
  <2> QED BY <2>1, <2>2
<1>8. \A f_1 \in Frames : author'[f_1] # Nowhere => author'[f_1] = author[f_1] /\ at'[author[f_1]] = at[author[f_1]]
  BY <1>1
<1>9. \A d \in Clients : inbox'[d] # <<>> => inbox'[d] = inbox[d] /\ at'[d] = at[d] /\ at[d][1] \notin gone
  BY <1>1
<1>10. \A a \in Clients : pub'[a] # <<>> => pub[a] # <<>> /\ pub'[a][1] = pub[a][1]
  BY <1>1, <1>5 DEF f
<1>11. \A n \in Nodes : \A i \in DOMAIN wire'[n] :
         n \notin gone /\
         \/ \E j \in DOMAIN wire[n] : wire'[n][i] = wire[n][j]
         \/ \E a \in Clients : /\ wire'[n][i].frame \in By(a) /\ wire'[n][i].board = at[a][2]
                               /\ \A g \in By(a) : g <= wire'[n][i].frame
  <2> SUFFICES ASSUME NEW n \in Nodes, NEW i \in DOMAIN wire'[n], wire'[n][i] = tagged
               PROVE  /\ wire'[n][i].frame \in By(c) /\ wire'[n][i].board = at[c][2]
                      /\ \A g \in By(c) : g <= wire'[n][i].frame
    BY <1>6
  <2> QED BY <1>2, <1>3, <1>4
<1>12. /\ gone \in SUBSET Nodes
       /\ \A g \in Frames, n \in Nodes \ gone : author'[g] # Nowhere /\ Coming(g, n) => Coming(g, n)'
  BY <1>7
<1>13. StillDropped
  BY DEF PublishRelay, StillDropped
<1> HIDE DEF gone
<1> QED BY <1>8, <1>9, <1>10, <1>11, <1>12, <1>13, NothingHeard

\* Who gets a delivered frame: every client of the board but the sender, and nobody else.
LEMMA Hears ==
  ASSUME inbox \in [Clients -> Seq(Frames)], NEW s, NEW sender, NEW f \in Frames,
         DeliverLocal(s, sender, f), NEW d \in Clients
  PROVE  /\ Heard(d) \subseteq Heard(d)'
         /\ Heard(d)' \subseteq IF d \in boards[s] \ sender THEN Heard(d) \union {f} ELSE Heard(d)
         /\ Got(d)' = IF d \in boards[s] \ sender THEN Got(d) \union {f} ELSE Got(d)
<1>1. PICK full \in SUBSET (boards[s] \ sender) :
        /\ inbox' = [c \in Clients |-> IF c \in boards[s] \ (sender \union full)
                                     THEN Append(inbox[c], f) ELSE inbox[c]]
        /\ dropped' = dropped \union ({f} \X full)
  BY DEF DeliverLocal
<1>2. \A g \in Frames : <<g, d>> \in dropped' <=> <<g, d>> \in dropped \/ (g = f /\ d \in full)
  BY <1>1
<1>3. CASE d \in boards[s] \ (sender \union full)
  <2>1. inbox[d] \in Seq(Frames)
    OBVIOUS
  <2>2. /\ DOMAIN Append(inbox[d], f) = 1 .. Len(inbox[d]) + 1
        /\ DOMAIN inbox[d] = 1 .. Len(inbox[d]) /\ Len(inbox[d]) \in Nat
        /\ \A i \in 1 .. Len(inbox[d]) : Append(inbox[d], f)[i] = inbox[d][i]
        /\ Append(inbox[d], f)[Len(inbox[d]) + 1] = f
    BY <2>1, Appended
  <2>3. inbox'[d] = Append(inbox[d], f)
    BY <1>1, <1>3
  <2>4. \A i \in 1 .. Len(inbox[d]) + 1 : i \in 1 .. Len(inbox[d]) \/ i = Len(inbox[d]) + 1
    BY <2>2
  <2>5. \A i \in 1 .. Len(inbox[d]) : i \in 1 .. Len(inbox[d]) + 1
    BY <2>2
  <2>6. Len(inbox[d]) + 1 \in 1 .. Len(inbox[d]) + 1
    BY <2>2
  <2>7. Heard(d)' = Heard(d) \union {f}
    BY <2>2, <2>3, <2>4, <2>5, <2>6 DEF Heard
  <2> QED BY <1>2, <1>3, <2>7 DEF Got
<1>4. CASE d \notin boards[s] \ (sender \union full)
  <2>1. Heard(d)' = Heard(d)
    BY <1>1, <1>4 DEF Heard
  <2>2. d \in boards[s] \ sender <=> d \in full
    BY <1>4
  <2> QED BY <1>2, <2>1, <2>2 DEF Got
<1> QED BY <1>3, <1>4

\* A new frame is the last of its author; whoever of the node heard that one hears it at once.
LEMMA FollowingPublishLocal ==
  ASSUME Relayed, Following, NEW c \in Clients, PublishLocal(c)
  PROVE  Following'
<1>0. /\ Places /\ Shape /\ Numbered /\ Present /\ NotOwn
      /\ Latest /\ BoardTags /\ HeardBoard /\ RestHere /\ RestElsewhere /\ RestOnWire
  BY DEF Relayed, Order, Following
<1>1. PICK new : /\ pc[c] = "open" /\ pub[c] = <<>> /\ sent < MaxFrames /\ new = sent + 1
                 /\ UNCHANGED <<boards, at, pc, wire, missed>>
                 /\ DeliverLocal(at[c], {c}, new)
                 /\ author' = [author EXCEPT ![new] = c]
                 /\ pub' = [pub EXCEPT ![c] = <<new, "relay">>]
  BY DEF PublishLocal, bindVars
<1>2. new \in Frames /\ \A f \in Frames : f <= sent => f < new
  BY <1>0, <1>1, MaxFramesNat DEF Shape, Frames
<1>3. at[c] \in Slots
  BY <1>0, <1>1 DEF Places
<1>4. /\ author'[new] = c /\ \A f \in Frames : f # new => author'[f] = author[f]
      /\ pub'[c] = <<new, "relay">> /\ \A d \in Clients \ {c} : pub'[d] = pub[d]
  BY <1>0, <1>1, <1>2 DEF Shape
<1>5. \A d \in Clients :
        /\ Heard(d)' \subseteq Heard(d) \union {new}
        /\ Got(d)' = IF d \in boards[at[c]] \ {c} THEN Got(d) \union {new} ELSE Got(d)
  BY <1>0, <1>1, <1>2, Hears DEF Shape
<1>6. /\ \A d \in Clients : \A i \in DOMAIN inbox'[d] :
           \/ i \in DOMAIN inbox[d] /\ inbox'[d][i] = inbox[d][i]
           \/ d \in boards[at[c]] \ {c} /\ inbox'[d][i] = new
  BY <1>0, <1>1, <1>2, Delivered DEF Shape
<1>7. \A a \in Clients : \A f \in By(a) : f \in Frames /\ f < new /\ author[f] = a
  <2> SUFFICES ASSUME NEW a \in Clients, NEW f \in By(a) PROVE f \in Frames /\ f < new /\ author[f] = a
    OBVIOUS
  <2>1. f \in Frames /\ author[f] = a /\ a # Nowhere
    BY NowhereIsNoClient DEF By
  <2>2. ~ (f > sent)
    BY <1>0, <2>1 DEF Numbered
  <2>3. f <= sent
    BY <1>0, <2>1, <2>2 DEF Shape, Frames
  <2> QED BY <1>2, <2>1, <2>3
<1>8. \A a \in Clients : By(a)' = IF a = c THEN By(a) \union {new} ELSE By(a)
  <2> SUFFICES ASSUME NEW a \in Clients, NEW f
               PROVE  f \in By(a)' <=> f \in By(a) \/ (a = c /\ f = new)
    OBVIOUS
  <2>1. f \in By(a) => f # new
    BY <1>2, <1>7 DEF Frames
  <2> QED BY <1>2, <1>4, <2>1 DEF By
<1>9. \A f \in Frames : f # new => author'[f] = author[f]
  BY <1>4
<1>10. /\ \A n \in Nodes : \A i \in DOMAIN wire[n] : wire[n][i].frame \in Frames /\ wire[n][i].frame < new
       /\ \A d \in Clients : \A i \in DOMAIN inbox[d] : inbox[d][i] \in Frames /\ inbox[d][i] < new
  BY <1>0, <1>2, InboxElement, WireElement DEF Shape, Numbered
<1>11. new \in Nat /\ new <= new /\ ~ (new < new)
  BY <1>2 DEF Frames
<1>12. \A f, n : Coming(f, n) => Coming(f, n)'
  BY <1>1, <1>4 DEF Coming, OnItsWay
<1>13. \A n : Coming(new, n)'
  BY <1>4 DEF Coming, OnItsWay
<1>14. Latest'
  <2> SUFFICES ASSUME NEW a \in Clients, pub'[a] # <<>>, NEW f \in By(a)'
               PROVE  f <= pub'[a][1]
    BY DEF Latest
  <2>1. CASE a = c
    <3>1. pub'[a][1] = new /\ (f \in By(c) \/ f = new)
      BY <1>4, <1>8, <2>1
    <3>2. f \in By(c) => f \in Nat /\ f < new
      BY <1>7 DEF Frames
    <3>3. f \in By(c) => f <= new
      BY <1>11, <3>2
    <3> QED BY <1>11, <3>1, <3>3
  <2>2. CASE a # c
    BY <1>0, <1>4, <1>8, <2>2 DEF Latest
  <2> QED BY <2>1, <2>2
<1>15. BoardTags'
  <2> SUFFICES ASSUME NEW n \in Nodes, NEW i \in DOMAIN wire[n], author'[wire[n][i].frame] # Nowhere
               PROVE  wire[n][i].board = at[author'[wire[n][i].frame]][2]
    BY <1>1 DEF BoardTags
  <2>1. wire[n][i].frame # new /\ wire[n][i].frame \in Frames
    BY <1>10, <1>11
  <2> QED BY <1>0, <1>9, <2>1 DEF BoardTags
<1>16. HeardBoard'
  <2> SUFFICES ASSUME NEW d \in Clients, NEW i \in DOMAIN inbox'[d], author'[inbox'[d][i]] # Nowhere
               PROVE  at[author'[inbox'[d][i]]][2] = at[d][2]
    BY <1>1 DEF HeardBoard
  <2>1. CASE i \in DOMAIN inbox[d] /\ inbox'[d][i] = inbox[d][i]
    <3>1. inbox[d][i] # new /\ inbox[d][i] \in Frames
      BY <1>10, <1>11, <2>1
    <3> QED BY <1>0, <1>9, <2>1, <3>1 DEF HeardBoard
  <2>2. CASE d \in boards[at[c]] /\ inbox'[d][i] = new
    <3>1. at[d] = at[c]
      BY <1>0, <1>3, <2>2 DEF Places
    <3> QED BY <1>4, <2>2, <3>1
  <2> QED BY <1>6, <2>1, <2>2
\* Where e was heard, f was the new frame or sent before.
<1>17. ASSUME NEW d \in Clients, NEW a \in Clients, NEW e \in By(a)', NEW f \in By(a)',
              e < f, e \in Heard(d)'
       PROVE  /\ e \in By(a) /\ e \in Heard(d)
              /\ f \in By(a) \/ (f = new /\ a = c)
  <2>1. f \in By(a) \/ (f = new /\ a = c)
    BY <1>8
  <2>2. e # new
    <3>1. f \in By(a) => f \in Nat /\ f < new
      BY <1>7 DEF Frames
    <3> QED BY <1>11, <1>17, <2>1, <3>1
  <2> QED BY <1>5, <1>8, <1>17, <2>1, <2>2
<1>18. RestHere'
  <2> SUFFICES ASSUME NEW d \in Clients, NEW a \in Clients, NEW e \in By(a)', NEW f \in By(a)',
                      e < f, e \in Heard(d)', at[d][1] = at[a][1]
               PROVE  f \in Got(d)'
    BY <1>1 DEF RestHere
  <2>1. e \in By(a) /\ e \in Heard(d) /\ (f \in By(a) \/ (f = new /\ a = c))
    BY <1>17
  <2>2. CASE f \in By(a)
    <3>1. f \in Got(d)
      BY <1>0, <2>1, <2>2 DEF RestHere
    <3> QED BY <1>5, <3>1
  <2>3. CASE f = new /\ a = c
    <3>1. PICK i \in DOMAIN inbox[d] : inbox[d][i] = e
      BY <2>1 DEF Heard
    <3>2. author[e] = c /\ c # Nowhere
      BY <2>1, <2>3, NowhereIsNoClient DEF By
    <3>3. at[c][2] = at[d][2] /\ d # c
      BY <1>0, <3>1, <3>2 DEF HeardBoard, NotOwn
    <3>4. at[d] \in Slots /\ d \in boards[at[d]]
      BY <2>1, SitsInSlot
    <3>5. at[d] = at[c]
      BY <1>3, <2>3, <3>3, <3>4 DEF Slots
    <3> QED BY <1>5, <2>3, <3>3, <3>4, <3>5
  <2> QED BY <2>1, <2>2, <2>3
<1>19. RestElsewhere'
  <2> SUFFICES ASSUME NEW d \in Clients, NEW a \in Clients, NEW e \in By(a)', NEW f \in By(a)',
                      e < f, e \in Heard(d)', at[d][1] # at[a][1]
               PROVE  f \in Got(d)' \/ Coming(f, at[d][1])'
    BY <1>1 DEF RestElsewhere
  <2>1. e \in By(a) /\ e \in Heard(d) /\ (f \in By(a) \/ (f = new /\ a = c))
    BY <1>17
  <2>2. CASE f \in By(a)
    <3>1. PICK n : n = at[d][1]
      OBVIOUS
    <3>2. f \in Got(d) \/ Coming(f, n)
      BY <1>0, <2>1, <2>2, <3>1 DEF RestElsewhere
    <3>3. f \in Got(d) => f \in Got(d)'
      BY <1>5
    <3>4. f \in Got(d)' \/ Coming(f, n)'
      BY <1>12, <3>2, <3>3
    <3> QED BY <1>1, <3>1, <3>4
  <2>3. CASE f = new
    <3>1. PICK n : n = at[d][1]
      OBVIOUS
    <3>2. Coming(f, n)'
      BY <1>13, <2>3
    <3> QED BY <1>1, <3>1, <3>2
  <2> QED BY <2>1, <2>2, <2>3
<1>20. RestOnWire'
  <2> SUFFICES ASSUME NEW n \in Nodes, NEW i \in DOMAIN wire[n], NEW a \in Clients, NEW f \in By(a)',
                      wire[n][i].frame \in By(a)', wire[n][i].frame < f
               PROVE  Coming(f, n)'
    BY <1>1 DEF RestOnWire
  <2>1. CASE f = new
    BY <1>13, <2>1
  <2>2. CASE f # new
    <3>1. f \in By(a) /\ wire[n][i].frame \in By(a)
      BY <1>8, <1>10, <1>11, <2>2
    <3> QED BY <1>0, <1>12, <3>1 DEF RestOnWire
  <2> QED BY <2>1, <2>2
<1> QED BY <1>14, <1>15, <1>16, <1>18, <1>19, <1>20 DEF Following

\* Head of a wire: what is heard goes on behind it, and nothing of its author is before it.
LEMMA FollowingReceive ==
  ASSUME Relayed, Following, NEW n \in Nodes, Receive(n)
  PROVE  Following'
<1>0. /\ Places /\ Shape /\ WireOrder /\ WireTags
      /\ Latest /\ BoardTags /\ HeardBoard /\ RestHere /\ RestElsewhere /\ RestOnWire
  BY DEF Relayed, Order, Following
<1>1. PICK m, to :
        /\ wire[n] # <<>> /\ wire' = [wire EXCEPT ![n] = Tail(@)] /\ m = wire[n][1]
        /\ to = IF m.origin = n THEN {} ELSE boards[<<n, m.board>>]
        /\ \/ m.origin = n /\ inbox' = inbox /\ dropped' = dropped
           \/ m.origin # n /\ DeliverLocal(<<n, m.board>>, {}, m.frame)
  <2>1. Head(wire[n]) = wire[n][1]
    BY <1>0, Tailed DEF Receive, Shape
  <2> QED BY <2>1 DEF Receive
<1>2. UNCHANGED <<boards, at, pc, author, pub, missed>>
  BY DEF Receive, bindVars
<1>3. /\ 1 \in DOMAIN wire[n] /\ DOMAIN wire[n] \subseteq Nat \ {0}
      /\ DOMAIN Tail(wire[n]) \subseteq Nat \ {0}
      /\ \A i \in DOMAIN Tail(wire[n]) : i + 1 \in DOMAIN wire[n] /\ Tail(wire[n])[i] = wire[n][i + 1]
      /\ \A i \in DOMAIN wire[n] : i = 1 \/ (i - 1 \in DOMAIN Tail(wire[n]) /\ Tail(wire[n])[i - 1] = wire[n][i])
  <2>1. wire[n] \in Seq(Tagged) /\ wire[n] # <<>>
    BY <1>0, <1>1 DEF Shape
  <2> QED BY <2>1
<1>4. m \in Tagged /\ m.frame \in Frames /\ m.board \in Boards /\ m.origin \in Nodes
  BY <1>0, <1>1, <1>3, WireElement DEF Shape, Tagged
<1>5. wire'[n] = Tail(wire[n]) /\ \A k \in Nodes \ {n} : wire'[k] = wire[k]
  BY <1>0, <1>1 DEF Shape
<1>6. \A k \in Nodes : \A j \in DOMAIN wire'[k] :
        \E h \in DOMAIN wire[k] : wire'[k][j] = wire[k][h] /\ (k = n => 1 < h)
  <2> SUFFICES ASSUME NEW k \in Nodes, NEW j \in DOMAIN wire'[k]
               PROVE  \E h \in DOMAIN wire[k] : wire'[k][j] = wire[k][h] /\ (k = n => 1 < h)
    OBVIOUS
  <2>1. CASE k = n
    <3>1. j \in Nat \ {0} /\ j + 1 \in DOMAIN wire[n] /\ wire'[n][j] = wire[n][j + 1]
      BY <1>3, <1>5, <2>1
    <3>2. 1 < j + 1
      BY <3>1
    <3> QED BY <2>1, <3>1, <3>2
  <2>2. CASE k # n
    BY <1>5, <2>2
  <2> QED BY <2>1, <2>2
\* On the wire there was m, and what still is there.
<1>7. \A k \in Nodes : \A h \in DOMAIN wire[k] :
        (k = n /\ wire[k][h] = m) \/ \E j \in DOMAIN wire'[k] : wire'[k][j] = wire[k][h]
  <2> SUFFICES ASSUME NEW k \in Nodes, NEW h \in DOMAIN wire[k]
               PROVE  (k = n /\ wire[k][h] = m) \/ \E j \in DOMAIN wire'[k] : wire'[k][j] = wire[k][h]
    OBVIOUS
  <2>1. CASE k = n /\ h = 1
    BY <1>1, <2>1
  <2>2. CASE k = n /\ h # 1
    <3>1. h - 1 \in DOMAIN wire'[k] /\ wire'[k][h - 1] = wire[k][h]
      BY <1>3, <1>5, <2>2
    <3> QED BY <3>1
  <2>3. CASE k # n
    BY <1>5, <2>3
  <2> QED BY <2>1, <2>2, <2>3
<1>8. \A d \in Clients :
        /\ Heard(d)' \subseteq IF d \in to THEN Heard(d) \union {m.frame} ELSE Heard(d)
        /\ Got(d)' = IF d \in to THEN Got(d) \union {m.frame} ELSE Got(d)
  <2>1. CASE m.origin = n
    BY <1>1, <2>1 DEF Heard, Got
  <2>2. CASE m.origin # n
    <3>1. PICK s, x, none :
              s = <<n, m.board>> /\ x = m.frame /\ none = {} /\ DeliverLocal(s, none, x)
      BY <1>1, <2>2
    <3>2. inbox \in [Clients -> Seq(Frames)] /\ x \in Frames
      BY <1>0, <1>4, <3>1 DEF Shape
    <3>3. \A d \in Clients :
            /\ Heard(d)' \subseteq IF d \in boards[s] \ none THEN Heard(d) \union {x} ELSE Heard(d)
            /\ Got(d)' = IF d \in boards[s] \ none THEN Got(d) \union {x} ELSE Got(d)
      BY <3>1, <3>2, Hears
    <3> QED BY <1>1, <2>2, <3>1, <3>3
  <2> QED BY <2>1, <2>2
<1>9. \A d \in to : d \in Clients /\ at[d] = <<n, m.board>> /\ m.origin # n
  BY <1>0, <1>1, <1>4 DEF Places, Slots
\* Of a living author m has the tags.
<1>10. \A a \in Clients : m.frame \in By(a) => m.origin = at[a][1] /\ m.board = at[a][2] /\ at[a] \in Slots
  <2> SUFFICES ASSUME NEW a \in Clients, m.frame \in By(a)
               PROVE  m.origin = at[a][1] /\ m.board = at[a][2] /\ at[a] \in Slots
    OBVIOUS
  <2>1. author[m.frame] = a /\ a # Nowhere
    BY NowhereIsNoClient DEF By
  <2>2. m.origin = at[a][1] /\ m.board = at[a][2]
    BY <1>0, <1>1, <1>3, <2>1 DEF WireTags, BoardTags
  <2> QED BY <2>2, SitsInSlot
<1>11. \A a \in Clients : By(a)' = By(a)
  BY <1>2 DEF By
\* What was coming and is not m on n's own wire still is.
<1>12. \A f, k : k \in Nodes /\ Coming(f, k) => Coming(f, k)' \/ (k = n /\ f = m.frame)
  <2> SUFFICES ASSUME NEW f, NEW k \in Nodes, Coming(f, k)
               PROVE  Coming(f, k)' \/ (k = n /\ f = m.frame)
    OBVIOUS
  <2>1. CASE (\E a \in Clients : pub[a] = <<f, "relay">>) \/ <<f, k>> \in missed
    BY <1>2, <2>1 DEF Coming, OnItsWay
  <2>2. CASE \E h \in DOMAIN wire[k] : wire[k][h].frame = f
    <3>1. PICK h \in DOMAIN wire[k] : wire[k][h].frame = f
      BY <2>2
    <3>2. CASE k = n /\ wire[k][h] = m
      BY <3>1, <3>2
    <3>3. CASE \E j \in DOMAIN wire'[k] : wire'[k][j] = wire[k][h]
      <4>1. \E j \in DOMAIN wire'[k] : wire'[k][j].frame = f
        BY <3>1, <3>3
      <4> QED BY <4>1 DEF Coming, OnItsWay
    <3> QED BY <1>7, <3>2, <3>3
  <2> QED BY <2>1, <2>2 DEF Coming, OnItsWay
<1>13. Latest'
  BY <1>0, <1>2, <1>11 DEF Latest
<1>14. BoardTags'
  <2> SUFFICES ASSUME NEW k \in Nodes, NEW j \in DOMAIN wire'[k], author[wire'[k][j].frame] # Nowhere
               PROVE  wire'[k][j].board = at[author[wire'[k][j].frame]][2]
    BY <1>2 DEF BoardTags
  <2>1. PICK h \in DOMAIN wire[k] : wire'[k][j] = wire[k][h]
    BY <1>6
  <2> QED BY <1>0, <2>1 DEF BoardTags
<1>15. HeardBoard'
  <2> SUFFICES ASSUME NEW d \in Clients, NEW i \in DOMAIN inbox'[d], author[inbox'[d][i]] # Nowhere
               PROVE  at[author[inbox'[d][i]]][2] = at[d][2]
    BY <1>2 DEF HeardBoard
  <2> DEFINE x == inbox'[d][i]
  <2>1. x \in Heard(d) \/ (d \in to /\ x = m.frame)
    <3>1. x \in Heard(d)'
      BY DEF Heard
    <3> QED BY <1>8, <3>1
  <2>2. CASE x \in Heard(d)
    BY <1>0, <2>2 DEF HeardBoard, Heard
  <2>3. CASE d \in to /\ x = m.frame
    <3>1. author[x] \in Clients /\ m.frame \in By(author[x])
      BY <1>0, <1>4, <2>3 DEF Shape, By
    <3> QED BY <1>9, <1>10, <2>3, <3>1
  <2> QED BY <2>1, <2>2, <2>3
<1>16. RestHere'
  <2> SUFFICES ASSUME NEW d \in Clients, NEW a \in Clients, NEW e \in By(a), NEW f \in By(a),
                      e < f, e \in Heard(d)', at[d][1] = at[a][1]
               PROVE  f \in Got(d)'
    BY <1>2, <1>11 DEF RestHere
  <2>1. e \in Heard(d)
    <3>1. CASE d \in to /\ e = m.frame
      BY <1>9, <1>10, <3>1
    <3> QED BY <1>8, <3>1
  <2> QED BY <1>0, <1>8, <2>1 DEF RestHere
<1>17. ASSUME NEW k \in Nodes, NEW h \in DOMAIN wire[k], k = n => 1 < h,
              NEW a \in Clients, wire[k][h].frame \in By(a), NEW f \in By(a), wire[k][h].frame < f
       PROVE  Coming(f, k)'
  <2>1. Coming(f, k)
    BY <1>0, <1>17 DEF RestOnWire
  <2>2. CASE k = n /\ f = m.frame
    <3>1. Before(author, m.frame, wire[k][h].frame)
      BY <1>0, <1>1, <1>3, <1>17, <2>2 DEF WireOrder
    <3>2. f < wire[k][h].frame
      BY <1>17, <2>2, <3>1, NowhereIsNoClient DEF Before, By
    <3> QED BY <1>17, <3>2 DEF By, Frames
  <2> QED BY <1>12, <2>1, <2>2
<1>18. RestElsewhere'
  <2> SUFFICES ASSUME NEW d \in Clients, NEW a \in Clients, NEW e \in By(a), NEW f \in By(a),
                      e < f, e \in Heard(d)', at[d][1] # at[a][1], f \notin Got(d)'
               PROVE  Coming(f, at[d][1])'
    BY <1>2, <1>11 DEF RestElsewhere
  <2>1. f \notin Got(d) /\ at' = at
    BY <1>2, <1>8
  <2>2. CASE e \in Heard(d)
    <3>1. PICK k : k = at[d][1]
      OBVIOUS
    <3>2. inbox[d] # <<>> /\ at[d] \in Slots /\ d \in boards[at[d]]
      BY <2>2, SitsInSlot
    <3>3. k \in Nodes /\ Coming(f, k)
      BY <1>0, <2>1, <2>2, <3>1, <3>2 DEF RestElsewhere, Slots
    <3>4. CASE k = n /\ f = m.frame
      <4>1. m.origin = at[a][1] /\ m.board = at[a][2] /\ m.origin # n
        BY <1>10, <3>1, <3>4
      <4>2. at[a][2] = at[d][2]
        BY <1>0, <2>2, NowhereIsNoClient DEF HeardBoard, Heard, By
      <4>3. at[d] = <<n, m.board>>
        <5>1. at[d][1] = n /\ at[d][2] = m.board
          BY <3>1, <3>4, <4>1, <4>2
        <5>2. at[d] = <<at[d][1], at[d][2]>>
          BY <3>2 DEF Slots
        <5> QED BY <5>1, <5>2
      <4>4. d \in to
        BY <1>1, <3>2, <4>1, <4>3
      <4> QED BY <1>8, <3>4, <4>4
    <3>5. CASE ~ (k = n /\ f = m.frame)
      <4>1. Coming(f, k)'
        BY <1>12, <3>3, <3>5
      <4> QED BY <2>1, <3>1, <4>1
    <3> QED BY <3>4, <3>5
  <2>3. CASE d \in to /\ e = m.frame
    <3>1. PICK k : k = at[d][1]
      OBVIOUS
    <3>2. k = n /\ k \in Nodes
      BY <1>9, <2>3, <3>1
    <3>3. Coming(f, k)
      BY <1>0, <1>1, <1>3, <2>3, <3>2 DEF RestOnWire
    <3>4. f # m.frame
      BY <2>3 DEF By, Frames
    <3>5. Coming(f, k)'
      BY <1>12, <3>2, <3>3, <3>4
    <3> QED BY <2>1, <3>1, <3>5
  <2> QED BY <1>8, <2>2, <2>3
<1>19. RestOnWire'
  <2> SUFFICES ASSUME NEW k \in Nodes, NEW j \in DOMAIN wire'[k], NEW a \in Clients, NEW f \in By(a),
                      wire'[k][j].frame \in By(a), wire'[k][j].frame < f
               PROVE  Coming(f, k)'
    BY <1>11 DEF RestOnWire
  <2>1. PICK h \in DOMAIN wire[k] : wire'[k][j] = wire[k][h] /\ (k = n => 1 < h)
    BY <1>6
  <2> QED BY <1>17, <2>1
<1> QED BY <1>13, <1>14, <1>15, <1>16, <1>18, <1>19 DEF Following

LEMMA FollowingNext ==
  ASSUME Relayed, Following, [RelayNext]_vars
  PROVE  Following'
<1>1. CASE UNCHANGED vars
  BY <1>1, FollowingQuiet DEF vars, bindVars, relayVars
<1>2. CASE RelayNext
  BY <1>2, FollowingConnect, FollowingProgress, FollowingDisconnect, FollowingPublishLocal,
     FollowingPublishRelay, FollowingRecord, FollowingReceive, FollowingLose, FollowingCrash,
     FollowingBoot DEF RelayNext, Publishing
<1> QED BY <1>1, <1>2

(***************************************************************************)
(* A client that has begun to hear somebody hears all they send from then  *)
(* on, or it is on its way, except what Redis did not carry, what was      *)
(* relayed while the client's node was not subscribed and what its own     *)
(* send channel had no room for: no interleaving of joins, leaves, relays  *)
(* and restarts loses a frame anywhere else, and a slow client costs       *)
(* nobody else a frame (hub.go:104-133, redis.go:68-117).                  *)
(***************************************************************************)
THEOREM AlwaysHearsTheRest == RelaySpec => []HearsTheRest
<1>1. RelayInit => Following
  BY FollowingInit
<1>2. Relayed /\ Following /\ [RelayNext]_vars => Following'
  BY FollowingNext
<1>3. Following => HearsTheRest
  BY DEF Following, RestHere, RestElsewhere, Coming, Got, HearsTheRest
<1> QED BY <1>1, <1>2, <1>3, AlwaysRelayed, PTL DEF RelaySpec
================================================================================
