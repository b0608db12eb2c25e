------------------------------ MODULE EventHub ------------------------------
(***************************************************************************)
(* The server-sent events of pkg/sse: one goroutine (run) owns the table   *)
(* of clients, handlers (ServeHTTP) register themselves over an unbuffered *)
(* channel and subscribe under the mutex, publishers put events into a     *)
(* buffered channel, and run copies each event to the buffers of the       *)
(* clients concerned, skipping those that are full.                        *)
(*                                                                         *)
(* Code that holds the hub publishes with Publish; the SQL functions of    *)
(* pkg/funcs/sse.go find a hub with GetHub.  An event is its number and    *)
(* its channel.                                                            *)
(***************************************************************************)
EXTENDS Naturals, Sequences

CONSTANTS
    Client, Channel,
    Everyone,      \* the channel "*"
    Wants,         \* the channels in each client's request
    HubBuffer,     \* capacity of broadcast (256)
    ClientBuffer,  \* capacity of a client's Events (32)
    MaxEvents      \* bound: events published

ASSUME HubAssumption ==
    /\ Everyone \notin Channel
    /\ Wants \in [Client -> SUBSET Channel]
    /\ HubBuffer \in Nat \ {0} /\ ClientBuffer \in Nat \ {0}
    /\ MaxEvents \in Nat

VARIABLES
    at,         \* where each client's handler is
    todo,       \* channels it has yet to subscribe to
    clients,    \* Hub.clients
    members,    \* Hub.channels
    chosen,     \* Client.Channels
    closed,     \* clients whose Events is closed
    hub,        \* what run has received and not yet acted on
    broadcast,  \* Hub.broadcast
    events,     \* Client.Events
    seen,       \* history: the last event written to the client's connection
    published,  \* number of events published
    global,     \* globalHub: "nil", "served" (this hub) or "another"
    once        \* has hubOnce fired ?

handlers == <<at, todo, seen>>
tables   == <<clients, members, chosen, closed>>
globals  == <<global, once>>
vars     == <<handlers, tables, hub, broadcast, events, published, globals>>

Idle  == [kind |-> "idle"]
Event == [id : 1 .. MaxEvents, channel : Channel \cup {Everyone}]

Init ==
    /\ at        = [c \in Client |-> "new"]
    /\ todo      = [c \in Client |-> {}]
    /\ clients   = {}
    /\ members   = [ch \in Channel |-> {}]
    /\ chosen    = [c \in Client |-> {}]
    /\ closed    = {}
    /\ hub       = Idle
    /\ broadcast = <<>>
    /\ events    = [c \in Client |-> <<>>]
    /\ seen      = [c \in Client |-> 0]
    /\ published = 0
    /\ global    = "nil"
    /\ once      = FALSE

-----------------------------------------------------------------------------
(* The handler of a connection.                                            *)

Connect(c) ==
    /\ at[c] = "new" /\ global # "nil"
    /\ at' = [at EXCEPT ![c] = "registering"]
    /\ UNCHANGED <<todo, seen, tables, hub, broadcast, events, published, globals>>

\* h.register <- client: the handler goes on as soon as run has received it
Register(c) ==
    /\ at[c] = "registering" /\ hub = Idle
    /\ hub' = [kind |-> "register", client |-> c]
    /\ at' = [at EXCEPT ![c] = "subscribing"]
    /\ todo' = [todo EXCEPT ![c] = Wants[c]]
    /\ UNCHANGED <<seen, tables, broadcast, events, published, globals>>

\* Subscribe returns silently if the client is not in the table
Subscribe(c) ==
    /\ at[c] = "subscribing"
    /\ \E ch \in todo[c] :
        /\ todo' = [todo EXCEPT ![c] = @ \ {ch}]
        /\ IF c \in clients
           THEN /\ chosen' = [chosen EXCEPT ![c] = @ \cup {ch}]
                /\ members' = [members EXCEPT ![ch] = @ \cup {c}]
           ELSE UNCHANGED <<chosen, members>>
    /\ UNCHANGED <<at, seen, clients, closed, hub, broadcast, events, published,
                   globals>>

Serve(c) ==
    /\ at[c] = "subscribing" /\ todo[c] = {}
    /\ at' = [at EXCEPT ![c] = "serving"]
    /\ UNCHANGED <<todo, seen, tables, hub, broadcast, events, published, globals>>

Receive(c) ==
    /\ at[c] = "serving" /\ events[c] # <<>>
    /\ seen' = [seen EXCEPT ![c] = Head(events[c]).id]
    /\ events' = [events EXCEPT ![c] = Tail(@)]
    /\ UNCHANGED <<at, todo, tables, hub, broadcast, published, globals>>

Disconnect(c) ==
    /\ at[c] = "serving"
    /\ at' = [at EXCEPT ![c] = "leaving"]
    /\ UNCHANGED <<todo, seen, tables, hub, broadcast, events, published, globals>>

\* the deferred h.unregister <- client
Unregister(c) ==
    /\ at[c] = "leaving" /\ hub = Idle
    /\ hub' = [kind |-> "unregister", client |-> c]
    /\ at' = [at EXCEPT ![c] = "gone"]
    /\ UNCHANGED <<todo, seen, tables, broadcast, events, published, globals>>

-----------------------------------------------------------------------------
(* run.                                                                    *)

AddClient ==
    /\ hub.kind = "register"
    /\ clients' = clients \cup {hub.client}
    /\ hub' = Idle
    /\ UNCHANGED <<handlers, members, chosen, closed, broadcast, events,
                   published, globals>>

\* forgets the client's channels
DropFromClients ==
    /\ hub.kind = "unregister"
    /\ clients' = clients \ {hub.client}
    /\ closed' = closed \cup {hub.client}
    /\ hub' = Idle
    /\ UNCHANGED <<handlers, members, chosen, broadcast, events, published,
                   globals>>

\* forgets the table
DropFromChannels ==
    /\ hub.kind = "unregister"
    /\ members' = [ch \in Channel |-> members[ch] \ {hub.client}]
    /\ hub' = Idle
    /\ UNCHANGED <<handlers, clients, chosen, closed, broadcast, events,
                   published, globals>>

RemoveClient ==
    /\ hub.kind = "unregister"
    /\ LET c == hub.client
       IN  IF c \in clients
           THEN /\ members' = [ch \in Channel |->
                      IF ch \in chosen[c] THEN members[ch] \ {c} ELSE members[ch]]
                /\ clients' = clients \ {c}
                /\ closed' = closed \cup {c}
           ELSE UNCHANGED <<members, clients, closed>>
    /\ hub' = Idle
    /\ UNCHANGED <<handlers, chosen, broadcast, events, published, globals>>

TakeEvent ==
    /\ hub = Idle /\ broadcast # <<>>
    /\ hub' = [kind |-> "event", event |-> Head(broadcast)]
    /\ broadcast' = Tail(broadcast)
    /\ UNCHANGED <<handlers, tables, events, published, globals>>

Concerned(event) ==
    IF event.channel = Everyone THEN clients ELSE members[event.channel]

\* a send that waits for room in each buffer
SendBlocking ==
    /\ hub.kind = "event"
    /\ \A c \in Concerned(hub.event) : Len(events[c]) < ClientBuffer
    /\ events' = [c \in Client |->
          IF c \in Concerned(hub.event)
          THEN Append(events[c], hub.event) ELSE events[c]]
    /\ hub' = Idle
    /\ UNCHANGED <<handlers, tables, broadcast, published, globals>>

\* an event that is sent again until nobody misses it
RetryUntilSent ==
    /\ hub.kind = "event"
    /\ events' = [c \in Client |->
          IF c \in Concerned(hub.event) /\ Len(events[c]) < ClientBuffer
          THEN Append(events[c], hub.event) ELSE events[c]]
    /\ hub' = IF \E c \in Concerned(hub.event) : Len(events[c]) = ClientBuffer
              THEN hub ELSE Idle
    /\ UNCHANGED <<handlers, tables, broadcast, published, globals>>

\* under the read lock, without waiting
SendEvent ==
    /\ hub.kind = "event"
    /\ events' = [c \in Client |->
          IF c \in Concerned(hub.event) /\ Len(events[c]) < ClientBuffer
          THEN Append(events[c], hub.event) ELSE events[c]]
    /\ hub' = Idle
    /\ UNCHANGED <<handlers, tables, broadcast, published, globals>>

-----------------------------------------------------------------------------
(* Publishers.  A full broadcast makes them wait.                          *)

Publish(ch) ==
    /\ global # "nil"
    /\ published < MaxEvents /\ Len(broadcast) < HubBuffer
    /\ published' = published + 1
    /\ broadcast' = Append(broadcast, [id |-> published + 1, channel |-> ch])
    /\ UNCHANGED <<handlers, tables, hub, events, globals>>

\* main, before the server accepts connections and the first page runs
SetGlobalHub ==
    /\ global = "nil"
    /\ global' = "served"
    /\ UNCHANGED <<handlers, tables, hub, broadcast, events, published, once>>

\* sse_notify: GetHub, whose first call makes a hub, and Publish
Notify(ch) ==
    /\ global # "nil"
    /\ once' = TRUE
    /\ global' = IF once THEN global ELSE "another"
    /\ IF global' = "served"
       THEN /\ published < MaxEvents /\ Len(broadcast) < HubBuffer
            /\ published' = published + 1
            /\ broadcast' = Append(broadcast, [id |-> published + 1, channel |-> ch])
       ELSE UNCHANGED <<broadcast, published>>
    /\ UNCHANGED <<handlers, tables, hub, events>>

-----------------------------------------------------------------------------
Handler(c) ==
    \/ Connect(c) \/ Register(c) \/ Subscribe(c) \/ Serve(c) \/ Receive(c)
    \/ Disconnect(c) \/ Unregister(c)

Run == AddClient \/ RemoveClient \/ TakeEvent \/ SendEvent

Next ==
    \/ \E c \in Client : Handler(c)
    \/ Run
    \/ \E ch \in Channel \cup {Everyone} : Publish(ch) \/ Notify(ch)
    \/ SetGlobalHub

Spec == Init /\ [][Next]_vars

(* run never stops, and its select picks among the ready channels at       *)
(* random, so a handler that waits in one of them is served in the end.    *)
(* Clients need not read, connect or leave.                                *)
Fairness ==
    /\ WF_vars(Run)
    /\ \A c \in Client : SF_vars(Register(c)) /\ SF_vars(Unregister(c))
    /\ \A c \in Client : WF_vars(Subscribe(c)) /\ WF_vars(Serve(c))

FairSpec == Spec /\ Fairness

-----------------------------------------------------------------------------
TypeOK ==
    /\ at \in [Client -> {"new", "registering", "subscribing", "serving",
                          "leaving", "gone"}]
    /\ todo \in [Client -> SUBSET Channel]
    /\ clients \subseteq Client /\ closed \subseteq Client
    /\ members \in [Channel -> SUBSET Client]
    /\ chosen \in [Client -> SUBSET Channel]
    /\ \/ hub = Idle
       \/ hub \in [kind : {"register", "unregister"}, client : Client]
       \/ hub \in [kind : {"event"}, event : Event]
    /\ broadcast \in Seq(Event) /\ Len(broadcast) <= HubBuffer
    /\ \A c \in Client :
          /\ events[c] \in Seq(Event) /\ Len(events[c]) <= ClientBuffer
          /\ seen[c] \in 0 .. MaxEvents
    /\ published \in 0 .. MaxEvents
    /\ global \in {"nil", "served", "another"} /\ once \in BOOLEAN

(* run never sends on a closed channel: whoever is in a table or listed in *)
(* a channel has its Events open.                                          *)
OpenWhileListed ==
    /\ clients \cap closed = {}
    /\ \A ch \in Channel : members[ch] \subseteq clients

(* The types, the buffers within their limits, and no send on a closed     *)
(* channel.                                                                *)
Consistent == TypeOK /\ OpenWhileListed

(* A connection sees events in the order they were published, each once.   *)
InOrder ==
    \A c \in Client :
        LET ids == <<seen[c]>> \o [i \in DOMAIN events[c] |-> events[c][i].id]
        IN  \A i, j \in DOMAIN ids : i < j => ids[i] < ids[j]

(* Clients that do not read never make publishers wait for ever.           *)
PublishersGoOn == Len(broadcast) = HubBuffer ~> Len(broadcast) < HubBuffer

(* A connection that ends leaves nothing behind in the hub.                *)
Forgotten ==
    \A c \in Client :
        at[c] = "leaving" ~>
            c \notin clients /\ \A ch \in Channel : c \notin members[ch]

(* Documented: Subscribe adds a client to a channel, so that a connection  *)
(* that is being served is in every channel of its request.                *)
Subscribed ==
    \A c \in Client : at[c] = "serving" =>
        \A ch \in Wants[c] : c \in members[ch]
=============================================================================
