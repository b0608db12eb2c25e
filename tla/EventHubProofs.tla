--------------------------- MODULE EventHubProofs ---------------------------
(***************************************************************************)
(* Proofs about EventHub, for any clients, channels, requests and sizes of *)
(* the buffers.                                                            *)
(*                                                                         *)
(* The tables: a client is closed once its handler has gone, and a handler *)
(* that has gone does not register again.  The order: whatever run and     *)
(* broadcast still hold is newer than whatever a connection has seen or    *)
(* has in its buffer.                                                      *)
(***************************************************************************)
EXTENDS EventHub, SequenceTheorems, TLAPS

(* Events in the order of their numbers, and all after or before n.        *)
Increasing(s) == \A i, j \in 1 .. Len(s) : i < j => s[i].id < s[j].id
Above(s, n)   == \A i \in 1 .. Len(s) : n < s[i].id
Below(s, n)   == \A i \in 1 .. Len(s) : s[i].id < n

Types ==
    /\ TypeOK
    /\ events \in [Client -> Seq(Event)]
    /\ seen \in [Client -> 0 .. MaxEvents]

(* A connection is in the table before its handler has gone, and closed    *)
(* afterwards; run forgets the channels it has chosen, which are all it is *)
(* listed in.                                                              *)
Tables ==
    /\ OpenWhileListed
    /\ \A c \in closed : at[c] = "gone"
    /\ hub.kind = "register" => at[hub.client] \in {"subscribing", "serving", "leaving"}
    /\ hub.kind = "unregister" => at[hub.client] = "gone"
    /\ \A ch \in Channel : \A c \in members[ch] : ch \in chosen[c]

(* The numbers of the events that are on their way, and the next one.      *)
Pending(n) ==
    \/ n = published + 1
    \/ \E i \in 1 .. Len(broadcast) : n = broadcast[i].id
    \/ hub.kind = "event" /\ n = hub.event.id

OrderOf(c) ==
    /\ Increasing(events[c]) /\ Above(events[c], seen[c])
    /\ \A n \in Nat : Pending(n) => seen[c] < n /\ Below(events[c], n)

Order ==
    /\ Increasing(broadcast) /\ Below(broadcast, published + 1)
    /\ hub.kind = "event" =>
          hub.event.id <= published /\ Above(broadcast, hub.event.id)
    /\ \A c \in Client : OrderOf(c)

HubInv == Types /\ Tables /\ Order

-----------------------------------------------------------------------------
(* What is left of a queue is in order and after what was taken.           *)
LEMMA TailOrder ==
  ASSUME NEW s \in Seq(Event), s # <<>>
  PROVE  /\ Head(s) \in Event /\ Tail(s) \in Seq(Event) /\ Len(Tail(s)) = Len(s) - 1
         /\ Head(s) = s[1] /\ 1 \in 1 .. Len(s)
         /\ \A i \in 1 .. Len(Tail(s)) : Tail(s)[i] = s[i + 1] /\ i + 1 \in 1 .. Len(s)
         /\ Increasing(s) => Increasing(Tail(s)) /\ Above(Tail(s), Head(s).id)
         /\ \A n \in Nat : Below(s, n) => Below(Tail(s), n)
  <1>1. /\ Head(s) \in Event /\ Tail(s) \in Seq(Event) /\ Len(Tail(s)) = Len(s) - 1
        /\ \A i \in 1 .. Len(Tail(s)) : Tail(s)[i] = s[i + 1]
    BY HeadTailProperties
  <1>2. Head(s) = s[1] /\ Len(s) \in Nat /\ Len(s) # 0
    BY EmptySeq
  <1>3. 1 \in 1 .. Len(s) /\ \A i \in 1 .. Len(Tail(s)) : i + 1 \in 1 .. Len(s)
    BY <1>1, <1>2
  <1>4. Increasing(s) => Increasing(Tail(s)) /\ Above(Tail(s), Head(s).id)
    BY <1>1, <1>2, <1>3 DEF Increasing, Above
  <1>5. \A n \in Nat : Below(s, n) => Below(Tail(s), n)
    BY <1>1, <1>3 DEF Below
  <1> QED
    BY <1>1, <1>2, <1>3, <1>4, <1>5

(* A newer event comes last.                                               *)
LEMMA AppendOrder ==
  ASSUME NEW s \in Seq(Event), NEW e \in Event, Increasing(s), Below(s, e.id)
  PROVE  /\ Append(s, e) \in Seq(Event) /\ Len(Append(s, e)) = Len(s) + 1
         /\ \A i \in 1 .. Len(Append(s, e)) :
               (i \in 1 .. Len(s) /\ Append(s, e)[i] = s[i]) \/ Append(s, e)[i] = e
         /\ Increasing(Append(s, e))
         /\ \A n \in Nat : Above(s, n) /\ n < e.id => Above(Append(s, e), n)
         /\ \A n \in Nat : Below(s, n) /\ e.id < n => Below(Append(s, e), n)
  <1> DEFINE t == Append(s, e)
  <1>1. /\ t \in Seq(Event) /\ Len(t) = Len(s) + 1
        /\ \A i \in 1 .. Len(s) : t[i] = s[i]
        /\ t[Len(s) + 1] = e
    BY AppendProperties
  <1>2. Len(s) \in Nat
    OBVIOUS
  <1> HIDE DEF t
  <1>3. \A i \in 1 .. Len(t) : i \in 1 .. Len(s) \/ i = Len(s) + 1
    BY <1>1, <1>2
  <1>4. \A i \in 1 .. Len(t) : (i \in 1 .. Len(s) /\ t[i] = s[i]) \/ t[i] = e
    BY <1>1, <1>3
  <1>5. Increasing(t)
    <2> SUFFICES ASSUME NEW i \in 1 .. Len(t), NEW j \in 1 .. Len(t), i < j
                 PROVE  t[i].id < t[j].id
      BY DEF Increasing
    <2>1. i \in 1 .. Len(s)
      BY <1>1, <1>2
    <2> QED
      BY <1>1, <1>3, <2>1 DEF Increasing, Below
  <1>6. \A n \in Nat : Above(s, n) /\ n < e.id => Above(t, n)
    BY <1>4 DEF Above
  <1>7. \A n \in Nat : Below(s, n) /\ e.id < n => Below(t, n)
    BY <1>4 DEF Below
  <1> QED
    BY <1>1, <1>4, <1>5, <1>6, <1>7 DEF t

-----------------------------------------------------------------------------
(* run holds nothing, a client that comes or goes, or an event.            *)
LEMMA HubHolds ==
  ASSUME TypeOK
  PROVE  /\ hub = Idle <=> hub.kind = "idle"
         /\ hub.kind = "register" => hub.client \in Client
         /\ hub.kind = "unregister" => hub.client \in Client
         /\ hub.kind = "event" => hub.event \in Event
  BY DEF TypeOK, Idle

(* The numbers of events.                                                  *)
LEMMA Numbers ==
  ASSUME Types
  PROVE  /\ MaxEvents \in Nat /\ published \in Nat
         /\ \A e \in Event : e.id \in Nat
         /\ \A c \in Client : seen[c] \in Nat
  BY HubAssumption DEF Types, TypeOK, Event

(* What run copies to the buffers is well typed and fits.                  *)
LEMMA SendTypes ==
  ASSUME Types, SendEvent, NEW c \in Client
  PROVE  /\ events'[c] \in Seq(Event) /\ Len(events'[c]) <= ClientBuffer
         /\ \/ events'[c] = events[c]
            \/ events'[c] = Append(events[c], hub.event) /\ Len(events[c]) < ClientBuffer
  <1>1. hub.event \in Event
    BY HubHolds DEF Types, SendEvent
  <1>2. \/ events'[c] = events[c]
        \/ events'[c] = Append(events[c], hub.event) /\ Len(events[c]) < ClientBuffer
    BY DEF SendEvent
  <1>3. events[c] \in Seq(Event) /\ Len(events[c]) <= ClientBuffer
        /\ ClientBuffer \in Nat /\ Len(events[c]) \in Nat
    BY HubAssumption DEF Types, TypeOK
  <1>4. /\ Append(events[c], hub.event) \in Seq(Event)
        /\ Len(Append(events[c], hub.event)) = Len(events[c]) + 1
    BY <1>1, <1>3, AppendProperties
  <1>5. Len(events[c]) < ClientBuffer => Len(events[c]) + 1 <= ClientBuffer
    BY <1>3
  <1>6. CASE events'[c] = events[c]
    BY <1>3, <1>6
  <1>7. CASE events'[c] = Append(events[c], hub.event) /\ Len(events[c]) < ClientBuffer
    BY <1>4, <1>5, <1>7
  <1> QED
    BY <1>2, <1>6, <1>7

(* A publisher that need not wait, whether it came by Publish or Notify.   *)
Publishes(ch) ==
    /\ published < MaxEvents /\ Len(broadcast) < HubBuffer
    /\ published' = published + 1
    /\ broadcast' = Append(broadcast, [id |-> published + 1, channel |-> ch])

(* A published event is numbered next and fits into broadcast.             *)
LEMMA PublishTypes ==
  ASSUME Types, NEW ch \in Channel \cup {Everyone}, Publishes(ch)
  PROVE  /\ [id |-> published + 1, channel |-> ch] \in Event
         /\ published' \in 0 .. MaxEvents
         /\ broadcast' \in Seq(Event) /\ Len(broadcast') <= HubBuffer
  <1>1. /\ published \in Nat /\ MaxEvents \in Nat /\ HubBuffer \in Nat
        /\ broadcast \in Seq(Event) /\ Len(broadcast) \in Nat
    BY HubAssumption DEF Types, TypeOK
  <1>2. [id |-> published + 1, channel |-> ch] \in Event
    BY <1>1 DEF Publishes, Event
  <1>3. broadcast' \in Seq(Event) /\ Len(broadcast') = Len(broadcast) + 1
    BY <1>1, <1>2, AppendProperties DEF Publishes
  <1> QED
    BY <1>1, <1>2, <1>3 DEF Publishes

(* Every step keeps the types.                                             *)
LEMMA NextTypes == Types /\ [Next]_vars => Types'
  <1> SUFFICES ASSUME Types, [Next]_vars PROVE Types'
    OBVIOUS
  <1> USE DEF Types, handlers, tables, globals
  <1>1. ASSUME NEW c \in Client,
               Connect(c) \/ Register(c) \/ Subscribe(c) \/ Serve(c)
                  \/ Disconnect(c) \/ Unregister(c)
        PROVE  Types'
    <2>1. UNCHANGED <<broadcast, events, published, globals, seen>>
      BY <1>1 DEF Connect, Register, Subscribe, Serve, Disconnect, Unregister
    <2>2. /\ at' \in [Client -> {"new", "registering", "subscribing", "serving",
                                "leaving", "gone"}]
          /\ todo' \in [Client -> SUBSET Channel]
          /\ clients' \subseteq Client /\ closed' \subseteq Client
          /\ members' \in [Channel -> SUBSET Client]
          /\ chosen' \in [Client -> SUBSET Channel]
      <3>1. CASE Subscribe(c)
        <4>1. PICK ch \in todo[c] :
                 /\ todo' = [todo EXCEPT ![c] = @ \ {ch}]
                 /\ \/ /\ chosen' = [chosen EXCEPT ![c] = @ \cup {ch}]
                       /\ members' = [members EXCEPT ![ch] = @ \cup {c}]
                    \/ UNCHANGED <<chosen, members>>
          BY <3>1 DEF Subscribe
        <4>2. ch \in Channel
          BY DEF TypeOK
        <4>3. UNCHANGED <<at, clients, closed>>
          BY <3>1 DEF Subscribe
        <4>4. /\ todo \in [Client -> SUBSET Channel] /\ chosen \in [Client -> SUBSET Channel]
              /\ members \in [Channel -> SUBSET Client]
          BY DEF TypeOK
        <4>5. todo' \in [Client -> SUBSET Channel]
          <5>1. todo[c] \ {ch} \in SUBSET Channel
            BY <4>4
          <5> QED
            BY <4>1, <4>4, <5>1
        <4>6. chosen' \in [Client -> SUBSET Channel]
          <5>1. chosen[c] \cup {ch} \in SUBSET Channel
            BY <4>2, <4>4
          <5> QED
            BY <4>1, <4>4, <5>1
        <4>7. members' \in [Channel -> SUBSET Client]
          <5>1. members[ch] \cup {c} \in SUBSET Client
            BY <4>2, <4>4
          <5> QED
            BY <4>1, <4>4, <5>1
        <4> QED
          BY <4>3, <4>5, <4>6, <4>7 DEF TypeOK
      <3>2. CASE ~Subscribe(c)
        BY <1>1, <3>2, HubAssumption
           DEF Connect, Register, Serve, Disconnect, Unregister, TypeOK
      <3> QED
        BY <3>1, <3>2
    <2>3. \/ hub' = hub
          \/ hub' \in [kind : {"register", "unregister"}, client : Client]
      BY <1>1 DEF Connect, Register, Subscribe, Serve, Disconnect, Unregister
    <2> QED
      BY <2>1, <2>2, <2>3 DEF TypeOK
  <1>2. ASSUME NEW c \in Client, Receive(c) PROVE Types'
    <2>1. /\ events[c] \in Seq(Event) \ {<<>>} /\ Len(events[c]) <= ClientBuffer
          /\ ClientBuffer \in Nat /\ Len(events[c]) \in Nat
      BY <1>2, HubAssumption DEF Receive, TypeOK
    <2>2. /\ Head(events[c]) \in Event /\ Tail(events[c]) \in Seq(Event)
          /\ Len(Tail(events[c])) = Len(events[c]) - 1
      BY <2>1, TailOrder
    <2>3. Head(events[c]).id \in 0 .. MaxEvents
      BY <2>2, HubAssumption DEF Event
    <2>4. Len(Tail(events[c])) <= ClientBuffer
      BY <2>1, <2>2
    <2>5. /\ seen' = [seen EXCEPT ![c] = Head(events[c]).id]
          /\ events' = [events EXCEPT ![c] = Tail(events[c])]
      BY <1>2 DEF Receive
    <2>6. events' \in [Client -> Seq(Event)] /\ seen' \in [Client -> 0 .. MaxEvents]
      BY <2>2, <2>3, <2>5
    <2>7. \A d \in Client : Len(events'[d]) <= ClientBuffer
      BY <2>4, <2>5 DEF TypeOK
    <2> QED
      BY <1>2, <2>6, <2>7 DEF Receive, TypeOK
  <1>3. CASE AddClient
    BY <1>3, HubHolds DEF AddClient, TypeOK
  <1>4. CASE RemoveClient
    <2>1. hub.client \in Client /\ UNCHANGED <<at, todo, seen, chosen, broadcast, events,
                                               published, global, once>>
      BY <1>4, HubHolds DEF RemoveClient
    <2>2. /\ clients' \subseteq Client /\ closed' \subseteq Client
          /\ members' \in [Channel -> SUBSET Client] /\ hub' = Idle
      <3>1. \/ /\ members' = [ch \in Channel |->
                     IF ch \in chosen[hub.client] THEN members[ch] \ {hub.client}
                     ELSE members[ch]]
               /\ clients' = clients \ {hub.client}
               /\ closed' = closed \cup {hub.client}
            \/ UNCHANGED <<members, clients, closed>>
        BY <1>4 DEF RemoveClient
      <3>2. hub' = Idle
        BY <1>4 DEF RemoveClient
      <3>3. /\ clients \subseteq Client /\ closed \subseteq Client
            /\ members \in [Channel -> SUBSET Client]
        BY DEF TypeOK
      <3> QED
        BY <2>1, <3>1, <3>2, <3>3
    <2> QED
      BY <2>1, <2>2 DEF TypeOK
  <1>5. CASE TakeEvent
    <2>1. /\ broadcast \in Seq(Event) \ {<<>>} /\ Len(broadcast) <= HubBuffer
          /\ HubBuffer \in Nat /\ Len(broadcast) \in Nat
      BY <1>5, HubAssumption DEF TakeEvent, TypeOK
    <2>2. /\ Head(broadcast) \in Event /\ Tail(broadcast) \in Seq(Event)
          /\ Len(Tail(broadcast)) = Len(broadcast) - 1
      BY <2>1, TailOrder
    <2>3. Len(Tail(broadcast)) <= HubBuffer
      BY <2>1, <2>2
    <2> QED
      BY <1>5, <2>2, <2>3 DEF TakeEvent, TypeOK
  <1>6. CASE SendEvent
    <2>1. \A c \in Client : events'[c] \in Seq(Event) /\ Len(events'[c]) <= ClientBuffer
      BY <1>6, SendTypes
    <2>2. events' \in [Client -> Seq(Event)]
      BY <1>6, <2>1 DEF SendEvent
    <2> QED
      BY <1>6, <2>1, <2>2 DEF SendEvent, TypeOK
  <1>7. ASSUME NEW ch \in Channel \cup {Everyone}, Publish(ch) \/ Notify(ch)
        PROVE  Types'
    <2>1. /\ UNCHANGED <<at, todo, seen, clients, members, chosen, closed, hub, events>>
          /\ global' \in {"nil", "served", "another"} /\ once' \in BOOLEAN
      BY <1>7 DEF Publish, Notify, TypeOK
    <2>2. Publishes(ch) \/ UNCHANGED <<broadcast, published>>
      BY <1>7 DEF Publish, Notify, Publishes
    <2>3. /\ published' \in 0 .. MaxEvents
          /\ broadcast' \in Seq(Event) /\ Len(broadcast') <= HubBuffer
      BY <2>2, PublishTypes DEF TypeOK
    <2> QED
      BY <2>1, <2>3 DEF TypeOK
  <1>8. CASE SetGlobalHub \/ UNCHANGED vars
    BY <1>8 DEF SetGlobalHub, vars, TypeOK
  <1> QED
    BY <1>1, <1>2, <1>3, <1>4, <1>5, <1>6, <1>7, <1>8 DEF Next, Handler, Run

(* Every step keeps the tables.  A client is added while its handler waits *)
(* or is served, hence before anybody closes it.                           *)
LEMMA NextTables == Types /\ Tables /\ [Next]_vars => Tables'
  <1> SUFFICES ASSUME Types, Tables, [Next]_vars PROVE Tables'
    OBVIOUS
  <1> USE DEF handlers, tables, globals
  <1>1. /\ clients \subseteq Client /\ closed \subseteq Client
        /\ members \in [Channel -> SUBSET Client]
        /\ chosen \in [Client -> SUBSET Channel]
        /\ todo \in [Client -> SUBSET Channel]
        /\ DOMAIN at = Client
    BY DEF Types, TypeOK
  <1>2. /\ clients \cap closed = {}
        /\ \A ch \in Channel : members[ch] \subseteq clients
        /\ \A c \in closed : at[c] = "gone"
        /\ \A ch \in Channel : \A c \in members[ch] : ch \in chosen[c]
        /\ hub.kind = "register" => at[hub.client] \in {"subscribing", "serving", "leaving"}
        /\ hub.kind = "unregister" => at[hub.client] = "gone"
    BY DEF Tables, OpenWhileListed
  <1>3. /\ hub.kind = "register" => hub.client \in Client
        /\ hub.kind = "unregister" => hub.client \in Client
        /\ hub = Idle => hub.kind = "idle"
    BY HubHolds DEF Types
  \* a handler moves, and is not gone before run has nothing else in hand
  <1>4. ASSUME NEW c \in Client, Connect(c) \/ Serve(c) \/ Receive(c) \/ Disconnect(c)
        PROVE  Tables'
    <2>1. UNCHANGED <<clients, closed, members, chosen, hub>>
      BY <1>4 DEF Connect, Serve, Receive, Disconnect
    <2>2. \A d \in Client : /\ at[d] = "gone" => at'[d] = "gone"
                            /\ at[d] \in {"subscribing", "serving", "leaving"}
                               => at'[d] \in {"subscribing", "serving", "leaving"}
      BY <1>4, <1>1 DEF Connect, Serve, Receive, Disconnect
    <2> QED
      BY <1>1, <1>2, <1>3, <2>1, <2>2 DEF Tables, OpenWhileListed
  <1>5. ASSUME NEW c \in Client, Register(c) PROVE Tables'
    <2>1. /\ UNCHANGED <<clients, closed, members, chosen>>
          /\ hub' = [kind |-> "register", client |-> c] /\ at'[c] = "subscribing"
          /\ \A d \in Client : at[d] = "gone" => at'[d] = "gone"
      BY <1>5, <1>1 DEF Register
    <2>2. hub'.kind = "register" /\ hub'.client = c
      BY <2>1
    <2> QED
      BY <1>1, <1>2, <2>1, <2>2 DEF Tables, OpenWhileListed
  <1>6. ASSUME NEW c \in Client, Unregister(c) PROVE Tables'
    <2>1. /\ UNCHANGED <<clients, closed, members, chosen>>
          /\ hub' = [kind |-> "unregister", client |-> c] /\ at'[c] = "gone"
          /\ \A d \in Client : at[d] = "gone" => at'[d] = "gone"
      BY <1>6, <1>1 DEF Unregister
    <2>2. hub'.kind = "unregister" /\ hub'.client = c
      BY <2>1
    <2> QED
      BY <1>1, <1>2, <2>1, <2>2 DEF Tables, OpenWhileListed
  <1>7. ASSUME NEW c \in Client, Subscribe(c) PROVE Tables'
    <2>1. UNCHANGED <<at, clients, closed, hub>>
      BY <1>7 DEF Subscribe
    <2>2. CASE UNCHANGED <<chosen, members>>
      BY <1>2, <2>1, <2>2 DEF Tables, OpenWhileListed
    <2>3. CASE ~UNCHANGED <<chosen, members>>
      <3>1. PICK ch \in todo[c] :
               /\ c \in clients
               /\ chosen' = [chosen EXCEPT ![c] = chosen[c] \cup {ch}]
               /\ members' = [members EXCEPT ![ch] = members[ch] \cup {c}]
        BY <1>7, <2>3 DEF Subscribe
      <3>2. \A d \in Client : chosen'[d] = IF d = c THEN chosen[c] \cup {ch} ELSE chosen[d]
        BY <1>1, <3>1
      <3>3. \A h \in Channel : members'[h] = IF h = ch THEN members[ch] \cup {c} ELSE members[h]
        BY <1>1, <3>1
      <3>4. \A h \in Channel : members'[h] \subseteq clients
        BY <1>2, <3>1, <3>3
      <3>5. \A h \in Channel : \A d \in members'[h] : h \in chosen'[d]
        <4> SUFFICES ASSUME NEW h \in Channel, NEW d \in members'[h]
                     PROVE  h \in chosen'[d]
          OBVIOUS
        <4>1. d \in Client
          BY <1>1, <3>4
        <4>2. d \in members[h] \/ (h = ch /\ d = c)
          BY <3>3
        <4> QED
          BY <1>2, <3>2, <4>1, <4>2
      <3> QED
        BY <1>2, <2>1, <3>4, <3>5 DEF Tables, OpenWhileListed
    <2> QED
      BY <2>2, <2>3
  <1>8. CASE AddClient
    <2>1. /\ UNCHANGED <<at, closed, members, chosen>> /\ hub' = Idle
          /\ clients' = clients \cup {hub.client}
          /\ hub.client \notin closed
      BY <1>8, <1>2 DEF AddClient
    <2> QED
      BY <1>2, <2>1 DEF Tables, OpenWhileListed, Idle
  <1>9. CASE RemoveClient
    <2>1. UNCHANGED <<at, chosen>> /\ hub' = Idle /\ hub.client \in Client
          /\ at[hub.client] = "gone"
      BY <1>9, <1>2, <1>3 DEF RemoveClient
    <2>2. CASE UNCHANGED <<members, clients, closed>>
      BY <1>2, <2>1, <2>2 DEF Tables, OpenWhileListed, Idle
    <2>3. CASE ~UNCHANGED <<members, clients, closed>>
      <3> DEFINE c == hub.client
      <3>1. /\ members' = [ch \in Channel |->
                     IF ch \in chosen[c] THEN members[ch] \ {c} ELSE members[ch]]
            /\ clients' = clients \ {c}
            /\ closed' = closed \cup {c}
        BY <1>9, <2>3 DEF RemoveClient
      <3> HIDE DEF c
      <3>2. \A ch \in Channel : members'[ch] = members[ch] \ {c}
        BY <1>2, <3>1
      <3> QED
        BY <1>2, <2>1, <3>1, <3>2 DEF Tables, OpenWhileListed, Idle, c
    <2> QED
      BY <2>2, <2>3
  <1>10. CASE TakeEvent \/ SendEvent
    <2>1. UNCHANGED <<at, clients, closed, members, chosen>>
          /\ hub'.kind \notin {"register", "unregister"}
      BY <1>10 DEF TakeEvent, SendEvent, Idle
    <2> QED
      BY <1>2, <2>1 DEF Tables, OpenWhileListed
  <1>11. CASE \/ \E ch \in Channel \cup {Everyone} : Publish(ch) \/ Notify(ch)
              \/ SetGlobalHub \/ UNCHANGED vars
    <2>1. UNCHANGED <<at, clients, closed, members, chosen, hub>>
      BY <1>11 DEF Publish, Notify, SetGlobalHub, vars
    <2> QED
      BY <1>2, <2>1 DEF Tables, OpenWhileListed
  <1> QED
    BY <1>4, <1>5, <1>6, <1>7, <1>8, <1>9, <1>10, <1>11 DEF Next, Handler, Run

(* Nothing is out of order for a connection while nothing new is on its    *)
(* way to it and it takes nothing.                                         *)
LEMMA OrderOfKept ==
  ASSUME NEW c \in Client, OrderOf(c),
         events'[c] = events[c], seen'[c] = seen[c],
         \A n \in Nat : Pending(n)' => Pending(n)
  PROVE  OrderOf(c)'
  BY DEF OrderOf, Increasing, Above, Below

(* Every step keeps the order: run takes the events from broadcast one by  *)
(* one, and a publisher numbers its event after all of them.               *)
LEMMA NextOrder == Types /\ Order /\ [Next]_vars => Order'
  <1> SUFFICES ASSUME Types, Order, [Next]_vars PROVE Order'
    OBVIOUS
  <1> USE DEF handlers, tables, globals
  <1>1. /\ broadcast \in Seq(Event) /\ Increasing(broadcast)
        /\ Below(broadcast, published + 1)
        /\ hub.kind = "event" => /\ hub.event \in Event /\ hub.event.id <= published
                                 /\ Above(broadcast, hub.event.id)
        /\ \A c \in Client : OrderOf(c)
    BY HubHolds DEF Types, TypeOK, Order
  <1>2. /\ published \in Nat /\ \A e \in Event : e.id \in Nat
        /\ \A c \in Client : events[c] \in Seq(Event) /\ seen[c] \in Nat
    BY Numbers DEF Types
  <1>3. ASSUME \/ \E c \in Client : \/ Connect(c) \/ Register(c) \/ Subscribe(c)
                                    \/ Serve(c) \/ Disconnect(c) \/ Unregister(c)
               \/ AddClient \/ RemoveClient \/ SetGlobalHub \/ UNCHANGED vars
        PROVE  Order'
    <2>1. UNCHANGED <<broadcast, published, events, seen>>
      BY <1>3 DEF Connect, Register, Subscribe, Serve, Disconnect, Unregister,
                  AddClient, RemoveClient, SetGlobalHub, vars
    <2>2. hub' = hub \/ hub'.kind # "event"
      BY <1>3 DEF Connect, Register, Subscribe, Serve, Disconnect, Unregister,
                  AddClient, RemoveClient, SetGlobalHub, vars, Idle
    <2>3. \A n \in Nat : Pending(n)' => Pending(n)
      BY <2>1, <2>2 DEF Pending
    <2>4. \A c \in Client : OrderOf(c)'
      BY <1>1, <2>1, <2>3, OrderOfKept
    <2>5. Increasing(broadcast)' /\ Below(broadcast, published + 1)'
      BY <1>1, <2>1 DEF Increasing, Below
    <2>6. hub'.kind = "event" =>
             hub'.event.id <= published' /\ Above(broadcast, hub.event.id)'
      BY <1>1, <2>1, <2>2 DEF Above
    <2> QED
      BY <2>4, <2>5, <2>6 DEF Order
  <1>4. ASSUME NEW c \in Client, Receive(c) PROVE Order'
    <2>1. /\ UNCHANGED <<broadcast, published, hub>> /\ events[c] # <<>>
          /\ events'[c] = Tail(events[c]) /\ seen'[c] = Head(events[c]).id
          /\ \A d \in Client \ {c} : events'[d] = events[d] /\ seen'[d] = seen[d]
      BY <1>4 DEF Receive, Types
    <2>2. \A n \in Nat : Pending(n)' => Pending(n)
      BY <2>1 DEF Pending
    <2>3. OrderOf(c)'
      <3> DEFINE s == events[c]
      <3>1. s \in Seq(Event) /\ s # <<>> /\ Increasing(s)
        BY <1>1, <1>2, <2>1 DEF OrderOf
      <3>2. /\ Increasing(Tail(s)) /\ Above(Tail(s), Head(s).id)
            /\ Head(s) = s[1] /\ 1 \in 1 .. Len(s)
            /\ \A n \in Nat : Below(s, n) => Below(Tail(s), n)
        BY <3>1, TailOrder
      <3>3. \A n \in Nat : Pending(n) => Below(s, n)
        BY <1>1 DEF OrderOf
      <3> HIDE DEF s
      <3>4. \A n \in Nat : Pending(n)' => Head(s).id < n /\ Below(Tail(s), n)
        BY <2>2, <3>2, <3>3 DEF Below
      <3>5. events'[c] = Tail(s) /\ seen'[c] = Head(s).id
        BY <2>1 DEF s
      <3> QED
        BY <3>2, <3>4, <3>5 DEF OrderOf, Increasing, Above, Below
    <2>4. \A d \in Client \ {c} : OrderOf(d)'
      BY <1>1, <2>1, <2>2, OrderOfKept
    <2>5. /\ Increasing(broadcast)' /\ Below(broadcast, published + 1)'
          /\ hub'.kind = "event" =>
                hub'.event.id <= published' /\ Above(broadcast, hub.event.id)'
      BY <1>1, <2>1 DEF Increasing, Below, Above
    <2> QED
      BY <2>3, <2>4, <2>5 DEF Order
  <1>5. CASE TakeEvent
    <2>1. /\ UNCHANGED <<published, events, seen>> /\ broadcast # <<>>
          /\ broadcast' = Tail(broadcast)
          /\ hub' = [kind |-> "event", event |-> Head(broadcast)]
      BY <1>5 DEF TakeEvent
    <2>2. hub'.kind = "event" /\ hub'.event = Head(broadcast)
      BY <2>1
    <2>3. /\ Increasing(Tail(broadcast)) /\ Above(Tail(broadcast), Head(broadcast).id)
          /\ Head(broadcast) \in Event
          /\ Head(broadcast) = broadcast[1] /\ 1 \in 1 .. Len(broadcast)
          /\ \A i \in 1 .. Len(Tail(broadcast)) :
                Tail(broadcast)[i] = broadcast[i + 1] /\ i + 1 \in 1 .. Len(broadcast)
          /\ Below(Tail(broadcast), published + 1)
      BY <1>1, <1>2, <2>1, TailOrder
    <2>4. Head(broadcast).id <= published
      BY <1>1, <1>2, <2>3 DEF Below
    <2>5. \A n \in Nat : Pending(n)' => Pending(n)
      BY <2>1, <2>2, <2>3 DEF Pending
    <2>6. \A c \in Client : OrderOf(c)'
      BY <1>1, <2>1, <2>5, OrderOfKept
    <2>7. Increasing(broadcast)' /\ Below(broadcast, published + 1)'
      BY <2>1, <2>3 DEF Increasing, Below
    <2>8. hub'.event.id <= published' /\ Above(broadcast, hub.event.id)'
      BY <2>1, <2>2, <2>3, <2>4 DEF Above
    <2> QED
      BY <2>6, <2>7, <2>8 DEF Order
  <1>6. CASE SendEvent
    <2> DEFINE e == hub.event
    <2>1. /\ UNCHANGED <<broadcast, published, seen>> /\ hub' = Idle
          /\ hub.kind = "event" /\ hub'.kind # "event"
      BY <1>6 DEF SendEvent, Idle
    <2>2. e \in Event /\ e.id \in Nat /\ e.id <= published /\ Above(broadcast, e.id)
      BY <1>1, <1>2, <2>1
    <2>3. \A n \in Nat : Pending(n)' => Pending(n) /\ e.id < n
      BY <1>2, <2>1, <2>2 DEF Pending, Above
    <2>4. \A c \in Client : events'[c] = events[c] \/ events'[c] = Append(events[c], e)
      BY <1>6, SendTypes
    <2>5. Pending(e.id)
      BY <2>1 DEF Pending
    <2> HIDE DEF e
    <2>6. ASSUME NEW c \in Client PROVE OrderOf(c)'
      <3>1. CASE events'[c] = events[c]
        BY <1>1, <2>1, <2>3, <3>1, OrderOfKept
      <3>2. CASE events'[c] = Append(events[c], e)
        <4>1. /\ events[c] \in Seq(Event) /\ seen[c] \in Nat /\ seen[c] < e.id
              /\ Increasing(events[c]) /\ Below(events[c], e.id) /\ Above(events[c], seen[c])
              /\ \A n \in Nat : Pending(n) => seen[c] < n /\ Below(events[c], n)
          BY <1>1, <1>2, <2>2, <2>5 DEF OrderOf
        <4>2. /\ Increasing(Append(events[c], e)) /\ Above(Append(events[c], e), seen[c])
              /\ \A n \in Nat : Pending(n)' => seen[c] < n /\ Below(Append(events[c], e), n)
          BY <2>2, <2>3, <4>1, AppendOrder
        <4> QED
          BY <2>1, <3>2, <4>2 DEF OrderOf, Increasing, Above, Below
      <3> QED
        BY <2>4, <3>1, <3>2
    <2>7. Increasing(broadcast)' /\ Below(broadcast, published + 1)'
      BY <1>1, <2>1 DEF Increasing, Below
    <2> QED
      BY <2>1, <2>6, <2>7 DEF Order
  <1>7. ASSUME NEW ch \in Channel \cup {Everyone}, Publish(ch) \/ Notify(ch)
        PROVE  Order'
    <2>1. UNCHANGED <<hub, events, seen>>
      BY <1>7 DEF Publish, Notify
    <2>2. CASE UNCHANGED <<broadcast, published>>
      <3>1. \A n \in Nat : Pending(n)' => Pending(n)
        BY <2>1, <2>2 DEF Pending
      <3>2. \A c \in Client : OrderOf(c)'
        BY <1>1, <2>1, <3>1, OrderOfKept
      <3> QED
        BY <1>1, <2>1, <2>2, <3>2 DEF Order, Increasing, Below, Above
    <2>3. CASE Publishes(ch)
      <3> DEFINE e == [id |-> published + 1, channel |-> ch]
      <3>1. /\ published' = published + 1 /\ broadcast' = Append(broadcast, e)
            /\ e \in Event /\ e.id = published + 1
        BY <2>3, PublishTypes DEF Publishes
      <3> HIDE DEF e
      <3>2. /\ Increasing(broadcast')
            /\ \A i \in 1 .. Len(broadcast') :
                  (i \in 1 .. Len(broadcast) /\ broadcast'[i] = broadcast[i])
                     \/ broadcast'[i] = e
            /\ \A n \in Nat : Above(broadcast, n) /\ n < e.id => Above(broadcast', n)
            /\ \A n \in Nat : Below(broadcast, n) /\ e.id < n => Below(broadcast', n)
        BY <1>1, <1>2, <3>1, AppendOrder
      <3>3. Below(broadcast', published' + 1)
        BY <1>1, <1>2, <3>1, <3>2 DEF Below
      <3>4. hub'.kind = "event" =>
               hub'.event.id <= published' /\ Above(broadcast', hub'.event.id)
        BY <1>1, <1>2, <2>1, <3>1, <3>2
      <3>5. \A n \in Nat : Pending(n)' => Pending(n) \/ n = published + 2
        BY <1>2, <2>1, <3>1, <3>2 DEF Pending
      <3>6. ASSUME NEW c \in Client PROVE OrderOf(c)'
        <4>1. \A n \in Nat : Pending(n) => seen[c] < n /\ Below(events[c], n)
          BY <1>1 DEF OrderOf
        <4>2. Pending(published + 1)
          BY DEF Pending
        <4>3. seen[c] < published + 2 /\ Below(events[c], published + 2)
          <5>1. seen[c] < published + 1 /\ Below(events[c], published + 1)
            BY <1>2, <4>1, <4>2
          <5>2. \A i \in 1 .. Len(events[c]) : events[c][i].id \in Nat
            BY <1>2
          <5> QED
            BY <1>2, <5>1, <5>2 DEF Below
        <4>4. \A n \in Nat : Pending(n)' => seen[c] < n /\ Below(events[c], n)
          BY <3>5, <4>1, <4>3
        <4> QED
          BY <1>1, <2>1, <4>4 DEF OrderOf, Increasing, Above, Below
      <3> QED
        BY <3>2, <3>3, <3>4, <3>6 DEF Order, Increasing, Below, Above
    <2> QED
      BY <1>7, <2>2, <2>3 DEF Publish, Notify, Publishes
  <1> QED
    BY <1>3, <1>4, <1>5, <1>6, <1>7 DEF Next, Handler, Run

(* The hub starts empty.                                                   *)
LEMMA InitInv == Init => HubInv
  <1> SUFFICES ASSUME Init PROVE HubInv
    OBVIOUS
  <1>1. /\ broadcast = <<>> /\ published = 0 /\ hub = Idle /\ hub.kind = "idle"
        /\ events = [c \in Client |-> <<>>] /\ seen = [c \in Client |-> 0]
        /\ clients = {} /\ closed = {} /\ members = [ch \in Channel |-> {}]
    BY DEF Init, Idle
  <1>2. <<>> \in Seq(Event) /\ Len(<<>>) = 0
    BY EmptySeq
  <1>3. Types
    <2>1. /\ \A c \in Client : events[c] \in Seq(Event) /\ Len(events[c]) <= ClientBuffer
                                /\ seen[c] \in 0 .. MaxEvents
          /\ broadcast \in Seq(Event) /\ Len(broadcast) <= HubBuffer
          /\ published \in 0 .. MaxEvents
      BY <1>1, <1>2, HubAssumption
    <2>2. events \in [Client -> Seq(Event)] /\ seen \in [Client -> 0 .. MaxEvents]
      BY <1>1, <1>2, HubAssumption
    <2> QED
      BY <1>1, <2>1, <2>2 DEF Init, Types, TypeOK
  <1>4. Tables
    BY <1>1 DEF Tables, OpenWhileListed
  <1>5. Order
    BY <1>1, <1>2 DEF Order, OrderOf, Pending, Increasing, Above, Below
  <1> QED
    BY <1>3, <1>4, <1>5 DEF HubInv

(* The inductive invariant holds in every state of the hub.                *)
THEOREM HubInvariant == Spec => []HubInv
  <1>1. HubInv /\ [Next]_vars => HubInv'
    BY NextTypes, NextTables, NextOrder DEF HubInv
  <1> QED
    BY <1>1, InitInv, PTL DEF Spec

(* The buffers stay within their limits, and run never sends on a closed   *)
(* channel: whoever is in a table or listed in a channel has its Events    *)
(* open, however connections, publishers and run interleave.               *)
THEOREM HubConsistent == Spec => []Consistent
  <1>1. HubInv => Consistent
    BY DEF HubInv, Types, Tables, Consistent
  <1> QED
    BY <1>1, HubInvariant, PTL

(* A connection sees events in the order they were published, each once,   *)
(* also if its full buffer makes it miss some.                             *)
THEOREM EventsInOrder == Spec => []InOrder
  <1>1. HubInv => InOrder
    <2> SUFFICES ASSUME HubInv, NEW c \in Client
                 PROVE  LET ids == <<seen[c]>> \o [k \in DOMAIN events[c] |-> events[c][k].id]
                        IN  \A i, j \in DOMAIN ids : i < j => ids[i] < ids[j]
      BY DEF InOrder
    <2> DEFINE s    == events[c]
               rest == [k \in DOMAIN events[c] |-> events[c][k].id]
               ids  == <<seen[c]>> \o rest
    <2>1. /\ s \in Seq(Event) /\ seen[c] \in Nat /\ \A e \in Event : e.id \in Nat
          /\ Increasing(s) /\ Above(s, seen[c])
      BY Numbers DEF HubInv, Types, Order, OrderOf
    <2>2. Len(s) \in Nat /\ DOMAIN s = 1 .. Len(s)
      BY <2>1
    <2>3. /\ rest \in Seq(Nat) /\ Len(rest) = Len(s)
          /\ \A k \in 1 .. Len(s) : rest[k] = s[k].id
      <3>1. rest = [k \in 1 .. Len(s) |-> s[k].id]
        BY <2>2
      <3>2. \A k \in 1 .. Len(s) : s[k].id \in Nat
        BY <2>1
      <3> QED
        BY <2>2, <3>1, <3>2
    <2>4. <<seen[c]>> \in Seq(Nat) /\ Len(<<seen[c]>>) = 1
      BY <2>1
    <2> HIDE DEF rest, s
    <2>5. /\ ids \in Seq(Nat) /\ Len(ids) = 1 + Len(s)
          /\ \A i \in 1 .. 1 + Len(s) :
                ids[i] = IF i <= 1 THEN <<seen[c]>>[i] ELSE rest[i - 1]
      BY <2>3, <2>4, ConcatProperties
    <2> HIDE DEF ids
    <2>6. DOMAIN ids = 1 .. 1 + Len(s)
      BY <2>5
    <2>7. ids[1] = seen[c]
      <3>1. 1 \in 1 .. 1 + Len(s) /\ 1 <= 1
        BY <2>2
      <3>2. ids[1] = <<seen[c]>>[1]
        BY <2>5, <3>1
      <3> QED
        BY <3>2
    <2>8. \A i \in 2 .. 1 + Len(s) : i - 1 \in 1 .. Len(s) /\ ids[i] = s[i - 1].id
      <3> SUFFICES ASSUME NEW i \in 2 .. 1 + Len(s)
                   PROVE  i - 1 \in 1 .. Len(s) /\ ids[i] = s[i - 1].id
        OBVIOUS
      <3>1. i - 1 \in 1 .. Len(s) /\ i \in 1 .. 1 + Len(s) /\ ~(i <= 1)
        BY <2>2
      <3>2. ids[i] = rest[i - 1]
        BY <2>5, <3>1
      <3> QED
        BY <2>3, <3>1, <3>2
    <2>9. ASSUME NEW i \in DOMAIN ids, NEW j \in DOMAIN ids, i < j
          PROVE  ids[i] < ids[j]
      <3>1. j \in 2 .. 1 + Len(s)
        BY <2>2, <2>6, <2>9
      <3>2. CASE i = 1
        BY <2>1, <2>7, <2>8, <3>1, <3>2 DEF Above
      <3>3. CASE i \in 2 .. 1 + Len(s)
        BY <2>1, <2>2, <2>8, <2>9, <3>1, <3>3 DEF Increasing
      <3> QED
        BY <2>2, <2>6, <3>2, <3>3
    <2> QED
      BY <2>9 DEF ids, rest
  <1> QED
    BY <1>1, HubInvariant, PTL
=============================================================================
