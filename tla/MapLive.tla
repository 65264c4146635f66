------------------------------- MODULE MapLive -------------------------------
(***************************************************************************)
(* The map live WebSocket (service/map-live-service.ts): clients subscribe *)
(* to one game server each; one refresh loop per server reads the map from *)
(* the game server while it has subscribers and sends every subscriber the *)
(* entities that changed since the snapshot kept for it.                   *)
(*                                                                         *)
(* Every action is the code between two awaits or callbacks of the single  *)
(* Node.js thread.  A ServerSubscription is an object of Objects: loops    *)
(* and sockets hold on to one after the map of subscriptions forgot it.    *)
(* The map of a server is a function from its entities to their version.   *)
(***************************************************************************)
EXTENDS Integers, FiniteSets

CONSTANTS
    Sockets,        \* clients, each with one connection
    Servers,        \* game servers
    Objects,        \* ServerSubscription objects that exist at once
    Entities,       \* claims, players, markers and offers of a server
    GlobalOffers,   \* of these, the offers of the global marketplace
    Versions,       \* contents an entity can have
    None,           \* undefined
    MAX_SEQUENCE,   \* bound: delta messages of one subscription
    MAX_CHANGES     \* bound: changes of a map

Maps == [Entities -> Versions \cup {None}]

ASSUME MapLiveAssumption ==
    /\ None \notin Sockets \cup Servers \cup Objects \cup Versions \cup Maps
    /\ GlobalOffers \subseteq Entities
    /\ MAX_SEQUENCE \in Nat
    /\ MAX_CHANGES \in Nat

VARIABLES
    sock,           \* readyState of each connection, "none" before it
    phase,          \* how far the first message of a socket got
    wanted,         \* serverId of the first message
    deadline,       \* subscribeTimeout is armed
    subscribed,     \* the closure's subscribedServerId
    subscriptions,  \* server -> its ServerSubscription
    owner,          \* object -> server whose loop closes over it, None if free
    members,        \* object -> sockets in its subscribers map
    loop,           \* object -> running, waiting for its timer, or neither
    sequence,       \* object -> its last sequence number
    snapshot,       \* socket -> subscriber.snapshot
    shutdown,       \* close() was called
    world,          \* server -> its map at the game server
    changes,        \* changes of the maps so far
    view            \* socket -> map the client shows

socketVars == <<sock, phase, wanted, deadline, subscribed>>
subVars == <<subscriptions, owner, members, loop, sequence>>
clientVars == <<world, changes, view>>
vars == <<socketVars, subVars, snapshot, shutdown, clientVars>>

Init ==
    /\ sock = [s \in Sockets |-> "none"]
    /\ phase = [s \in Sockets |-> "idle"]
    /\ wanted = [s \in Sockets |-> None]
    /\ deadline = [s \in Sockets |-> FALSE]
    /\ subscribed = [s \in Sockets |-> None]
    /\ subscriptions = [srv \in Servers |-> None]
    /\ owner = [o \in Objects |-> None]
    /\ members = [o \in Objects |-> {}]
    /\ loop = [o \in Objects |-> "idle"]
    /\ sequence = [o \in Objects |-> 0]
    /\ snapshot = [s \in Sockets |-> None]
    /\ shutdown = FALSE
    /\ world = [srv \in Servers |-> [e \in Entities |-> None]]
    /\ changes = 0
    /\ view = [s \in Sockets |-> None]

-----------------------------------------------------------------------------
(* Connections and subscriptions.                                           *)

Connect(s) ==
    /\ ~shutdown
    /\ sock[s] = "none"
    /\ sock' = [sock EXCEPT ![s] = "open"]
    /\ deadline' = [deadline EXCEPT ![s] = TRUE]
    /\ UNCHANGED <<phase, wanted, subscribed, subVars, snapshot, shutdown, clientVars>>

\* socket.close() of an open connection; the 'close' event follows later.
CloseSockets(S) ==
    sock' = [s \in Sockets |-> IF s \in S /\ sock[s] = "open" THEN "closing" ELSE sock[s]]

\* once('message'): parsing, the user and the server record are awaited.  A
\* connection that is closing still delivers what the peer had sent.
FirstMessage(s, srv) ==
    /\ sock[s] \in {"open", "closing"}
    /\ phase[s] = "idle"
    /\ phase' = [phase EXCEPT ![s] = "checking"]
    /\ wanted' = [wanted EXCEPT ![s] = srv]
    /\ UNCHANGED <<sock, deadline, subscribed, subVars, snapshot, shutdown, clientVars>>

\* A message that does not parse, no user where one is required, no server.
Refuse(s) ==
    /\ phase[s] = "checking"
    /\ phase' = [phase EXCEPT ![s] = "refused"]
    /\ deadline' = [deadline EXCEPT ![s] = FALSE]
    /\ CloseSockets({s})
    /\ UNCHANGED <<wanted, subscribed, subVars, snapshot, shutdown, clientVars>>

SubscribeTimeout(s) ==
    /\ deadline[s]
    /\ deadline' = [deadline EXCEPT ![s] = FALSE]
    /\ CloseSockets({s})
    /\ UNCHANGED <<phase, wanted, subscribed, subVars, snapshot, shutdown, clientVars>>

\* Mutant: every subscriber gets a subscription object of its own.
MutSubscriptionFor(srv, o) == owner[o] = None
\* subscriptionFor: the registered object, or a new one.
SubscriptionFor(srv, o) ==
    IF subscriptions[srv] # None THEN o = subscriptions[srv] ELSE owner[o] = None

\* The continuation of the checks, whatever became of the socket meanwhile;
\* startServerLoop returns at once when the subscription has its loop.
Subscribe(s, o) ==
    LET srv == wanted[s] IN
    /\ phase[s] = "checking"
    /\ SubscriptionFor(srv, o)
    /\ phase' = [phase EXCEPT ![s] = "subscribed"]
    /\ deadline' = [deadline EXCEPT ![s] = FALSE]
    /\ subscribed' = [subscribed EXCEPT ![s] = srv]
    /\ subscriptions' = [subscriptions EXCEPT ![srv] = o]
    /\ owner' = [owner EXCEPT ![o] = srv]
    /\ members' = [members EXCEPT ![o] = @ \cup {s}]
    /\ loop' = [loop EXCEPT ![o] = IF @ = "idle" THEN "running" ELSE @]
    /\ UNCHANGED <<sock, wanted, sequence, snapshot, shutdown, clientVars>>

\* Mutant: the numbering of a new subscription starts one too low.
MutFirstSequence == -1
FirstSequence == 0

\* Garbage: no map entry, loop or timer leads to the object any more.
Free(o) ==
    /\ owner' = [owner EXCEPT ![o] = None]
    /\ sequence' = [sequence EXCEPT ![o] = FirstSequence]

\* Mutant: the last subscriber leaves a pending timer behind.
MutStopsLoop(o, rest) == FALSE
\* removeSubscriber stops an empty loop that waits; a running one stops itself.
StopsLoop(o, rest) == rest = {} /\ loop[o] # "running"

RemoveSubscriber(s, o) ==
    LET rest == members[o] \ {s} IN
    /\ members' = [members EXCEPT ![o] = rest]
    /\ IF StopsLoop(o, rest)
       THEN /\ loop' = [loop EXCEPT ![o] = "idle"]
            /\ subscriptions' = [subscriptions EXCEPT ![subscribed[s]] = None]
            /\ Free(o)
       ELSE UNCHANGED <<loop, subscriptions, owner, sequence>>

\* The 'close' event: the peer left, missed a ping, or answered our close.
SocketClosed(s) ==
    LET o == IF subscribed[s] = None THEN None ELSE subscriptions[subscribed[s]] IN
    /\ sock[s] \in {"open", "closing"}
    /\ sock' = [sock EXCEPT ![s] = "closed"]
    /\ deadline' = [deadline EXCEPT ![s] = FALSE]
    /\ IF o = None
       THEN UNCHANGED <<subVars, snapshot>>
       ELSE RemoveSubscriber(s, o) /\ snapshot' = [snapshot EXCEPT ![s] = None]
    /\ view' = [view EXCEPT ![s] = None]
    /\ UNCHANGED <<phase, wanted, subscribed, shutdown, world, changes>>

\* close(): no more upgrades, timers are cleared, sockets are told to go away
\* and the map is emptied.  Loops that are running and their members stay.
Shutdown ==
    LET Registered == {subscriptions[srv] : srv \in Servers} \ {None}
        Waiting == {o \in Registered : loop[o] = "timer"}
    IN  /\ ~shutdown
        /\ shutdown' = TRUE
        /\ CloseSockets(UNION {members[o] : o \in Registered})
        /\ subscriptions' = [srv \in Servers |-> None]
        /\ loop' = [o \in Objects |-> IF o \in Waiting THEN "idle" ELSE loop[o]]
        /\ members' = [o \in Objects |-> IF o \in Waiting THEN {} ELSE members[o]]
        /\ owner' = [o \in Objects |-> IF o \in Waiting THEN None ELSE owner[o]]
        /\ sequence' = [o \in Objects |-> IF o \in Waiting THEN 0 ELSE sequence[o]]
        /\ UNCHANGED <<phase, wanted, deadline, subscribed, snapshot, clientVars>>

-----------------------------------------------------------------------------
(* The refresh loop of a subscription.                                      *)

\* The entities that are compared and told of: global offers are kept in the
\* snapshot, but there is no delta for them.
Told == Entities \ GlobalOffers

\* Mutant: entities that are gone are not in the delta.
MutRemovedEntities(old, new) == {}
RemovedEntities(old, new) == {e \in Told : old[e] # None /\ new[e] = None}

\* mapLiveChanges: what was upserted and what was removed.
MapLiveChanges(old, new) ==
    [upserted |-> {e \in Told : new[e] # None /\ old[e] # new[e]},
     removed |-> RemovedEntities(old, new)]

HasChanges(delta) == delta.upserted # {} \/ delta.removed # {}

\* The client applies the delta to the map it shows.
ApplyChanges(map, delta, new) ==
    [e \in Entities |-> IF e \in delta.upserted THEN new[e]
                        ELSE IF e \in delta.removed THEN None
                        ELSE map[e]]

\* The finally block of run.
FinishRun(o) ==
    IF members[o] # {}
    THEN /\ loop' = [loop EXCEPT ![o] = "timer"]
         /\ UNCHANGED <<subscriptions, owner>>
    ELSE /\ loop' = [loop EXCEPT ![o] = "idle"]
         /\ subscriptions' = [subscriptions EXCEPT ![owner[o]] = None]
         /\ owner' = [owner EXCEPT ![o] = None]

\* Mutant: a connection with a full send buffer is skipped, not terminated.
MutTerminated(slow) == {}
Terminated(slow) == slow

\* publishChanges: the first snapshot of a subscriber is only kept, a later
\* one is compared and the changes sent to it if it is open; a connection
\* whose send buffer is full (slow) is terminated instead.
RefreshPublishes(o, slow) ==
    LET new == world[owner[o]]
        Outdated == {s \in members[o] :
                        snapshot[s] # None /\ HasChanges(MapLiveChanges(snapshot[s], new))}
        Sent == {s \in Outdated : sock[s] = "open"} \ slow
    IN  /\ loop[o] = "running"
        /\ slow \subseteq {s \in Outdated : sock[s] = "open"}
        /\ Outdated # {} => sequence[o] < MAX_SEQUENCE
        /\ snapshot' = [s \in Sockets |-> IF s \in members[o] THEN new ELSE snapshot[s]]
        /\ sequence' = [sequence EXCEPT ![o] =
                            IF members[o] = {} THEN 0 ELSE IF Outdated # {} THEN @ + 1 ELSE @]
        /\ CloseSockets(Terminated(slow))
        /\ view' = [s \in Sockets |->
                        IF s \in Sent /\ view[s] # None
                        THEN ApplyChanges(view[s], MapLiveChanges(snapshot[s], new), new)
                        ELSE view[s]]
        /\ FinishRun(o)
        /\ UNCHANGED <<phase, wanted, deadline, subscribed, members, shutdown, world, changes>>

\* The server record is gone, the game server gives no data, or a call fails.
RefreshFails(o) ==
    /\ loop[o] = "running"
    /\ FinishRun(o)
    /\ sequence' = [sequence EXCEPT ![o] = IF members[o] = {} THEN 0 ELSE @]
    /\ UNCHANGED <<socketVars, members, snapshot, shutdown, clientVars>>

\* The timer of the loop: run returns at once if there is no subscriber.
TimerFires(o) ==
    /\ loop[o] = "timer"
    /\ loop' = [loop EXCEPT ![o] = IF members[o] = {} THEN "idle" ELSE "running"]
    /\ UNCHANGED <<socketVars, subscriptions, owner, members, sequence, snapshot,
                   shutdown, clientVars>>

-----------------------------------------------------------------------------
(* The game server and the REST routes the client loads its map from.       *)

MapChanges(srv, e, v) ==
    /\ changes < MAX_CHANGES
    /\ world[srv][e] # v
    /\ world' = [world EXCEPT ![srv][e] = v]
    /\ changes' = changes + 1
    /\ UNCHANGED <<socketVars, subVars, snapshot, shutdown, view>>

FetchMap(s) ==
    /\ sock[s] = "open"
    /\ wanted[s] # None
    /\ view[s] = None
    /\ view' = [view EXCEPT ![s] = world[wanted[s]]]
    /\ UNCHANGED <<socketVars, subVars, snapshot, shutdown, world, changes>>

Next ==
    \/ \E s \in Sockets :
          \/ Connect(s)
          \/ \E srv \in Servers : FirstMessage(s, srv)
          \/ Refuse(s)
          \/ SubscribeTimeout(s)
          \/ \E o \in Objects : Subscribe(s, o)
          \/ SocketClosed(s)
          \/ FetchMap(s)
    \/ \E o \in Objects :
          \/ \E slow \in SUBSET Sockets : RefreshPublishes(o, slow)
          \/ RefreshFails(o)
          \/ TimerFires(o)
    \/ \E srv \in Servers, e \in Entities, v \in Versions \cup {None} : MapChanges(srv, e, v)
    \/ Shutdown

\* Timers fire, awaited calls return, a closing connection ends, a client
\* loads its map; a game server that is asked again and again answers.
Fairness ==
    /\ \A s \in Sockets :
          /\ WF_vars((\E o \in Objects : Subscribe(s, o)) \/ Refuse(s))
          /\ WF_vars(sock[s] = "closing" /\ SocketClosed(s))
          /\ WF_vars(FetchMap(s))
    /\ \A o \in Objects :
          /\ WF_vars(TimerFires(o))
          /\ SF_vars(\E slow \in SUBSET Sockets : RefreshPublishes(o, slow))

Spec == Init /\ [][Next]_vars
FairSpec == Spec /\ Fairness

-----------------------------------------------------------------------------
Busy(o) == loop[o] # "idle"

TypeOK ==
    /\ sock \in [Sockets -> {"none", "open", "closing", "closed"}]
    /\ phase \in [Sockets -> {"idle", "checking", "subscribed", "refused"}]
    /\ wanted \in [Sockets -> Servers \cup {None}]
    /\ deadline \in [Sockets -> BOOLEAN]
    /\ subscribed \in [Sockets -> Servers \cup {None}]
    /\ subscriptions \in [Servers -> Objects \cup {None}]
    /\ owner \in [Objects -> Servers \cup {None}]
    /\ members \in [Objects -> SUBSET Sockets]
    /\ loop \in [Objects -> {"idle", "running", "timer"}]
    /\ sequence \in [Objects -> 0 .. MAX_SEQUENCE]
    /\ snapshot \in [Sockets -> Maps \cup {None}]
    /\ shutdown \in BOOLEAN
    /\ world \in [Servers -> Maps]
    /\ changes \in 0 .. MAX_CHANGES
    /\ view \in [Sockets -> Maps \cup {None}]

\* One game server is never polled by two loops while the service is up,
\* however subscribing and leaving interleave with its runs (lines 187-221).
OneLoopPerServer ==
    ~shutdown => \A o1, o2 \in Objects :
        Busy(o1) /\ Busy(o2) /\ owner[o1] = owner[o2] => o1 = o2

\* A registered subscription always has its loop and a waiting loop always has
\* a subscriber: nobody waits for a loop that stopped, and no timer goes on
\* for a server everybody left (lines 209-219 and 353-365).
LoopsMatchSubscribers ==
    ~shutdown => \A o \in Objects :
        /\ members[o] # {} => Busy(o) /\ subscriptions[owner[o]] = o
        /\ loop[o] = "timer" => members[o] # {}

\* Two maps agree but for the global offers, or neither is there.
Agree(map, other) ==
    IF map = None \/ other = None THEN map = other ELSE \A e \in Told : map[e] = other[e]

\* A client that shows the map kept for it, global offers aside, goes on doing
\* so with every delta, unless its connection is being closed (lines 243-281):
\* nothing is missing from a delta because an earlier one was not sent.
ClientStaysInSync ==
    [][\A s \in Sockets :
          sock[s] = "open" /\ snapshot[s] # None /\ Agree(view[s], snapshot[s])
            => sock'[s] # "open" \/ Agree(view'[s], snapshot'[s])]_vars

\* A client that shows the map kept for it, global offers aside, is told of
\* every later change: it shows the map of the game server again, global
\* offers aside, once that is quiet.
ChangesArrive ==
    \A s \in Sockets, srv \in Servers :
        (sock[s] = "open" /\ subscribed[s] = srv /\ view[s] # None /\ Agree(view[s], snapshot[s]))
            ~> (sock[s] # "open" \/ shutdown \/ Agree(view[s], world[srv]))

\* README.md:179-180: the backend "refreshes only servers with active
\* subscribers": a loop whose subscribers have all gone comes to an end.
RefreshOnlyWithSubscribers ==
    \A o \in Objects :
        (Busy(o) /\ \A s \in members[o] : sock[s] = "closed")
            ~> (shutdown \/ ~Busy(o) \/ \E s \in members[o] : sock[s] # "closed")
=============================================================================
