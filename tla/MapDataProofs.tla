----------------------------- MODULE MapDataProofs -----------------------------
(***************************************************************************)
(* The map and its live feed: one refresh loop per game server, clients    *)
(* that stay in sync, layers and claims that are what the payloads of an   *)
(* entry say, and a cache that stays up to date, for any number of         *)
(* clients, servers and refreshes and all payloads.                        *)
(***************************************************************************)
EXTENDS MapData, SequenceTheorems, WellFoundedInduction, TLAPS

-----------------------------------------------------------------------------
(* The live feed.                                                           *)

\* The messages and loops of a state name servers that exist.
NamesInv ==
    /\ \A s \in Sockets : phase[s] = "checking" => wanted[s] \in Servers
    /\ \A o \in Objects : Busy(o) => owner[o] \in Servers

\* While the service is up, the map of subscriptions and the objects whose
\* loop runs or waits are the same, one to one.
LoopInv ==
    /\ \A o \in Objects : Busy(o) => subscriptions[owner[o]] = o
    /\ \A srv \in Servers : subscriptions[srv] # None =>
           Busy(subscriptions[srv]) /\ owner[subscriptions[srv]] = srv
    /\ \A o \in Objects : members[o] # {} => Busy(o)
    /\ \A o \in Objects : loop[o] = "timer" => members[o] # {}

IInv == TypeOK /\ NamesInv /\ (~shutdown => LoopInv)

USE MapLiveAssumption DEF MapLiveAssumption

LEMMA InitIInv == Init => IInv
<1> SUFFICES ASSUME Init PROVE IInv
  OBVIOUS
<1> USE DEF Init
<1>1. TypeOK
  <2>1. deadline \in [Sockets -> BOOLEAN] /\ shutdown \in BOOLEAN
    OBVIOUS
  <2>2. world \in [Servers -> Maps]
    BY DEF Maps
  <2>3. sequence \in [Objects -> 0 .. MAX_SEQUENCE] /\ changes \in 0 .. MAX_CHANGES
    OBVIOUS
  <2> QED
    BY <2>1, <2>2, <2>3 DEF TypeOK
<1>2. NamesInv /\ LoopInv
  BY DEF NamesInv, LoopInv, Busy
<1> QED
  BY <1>1, <1>2 DEF IInv

\* CloseSockets keeps the type of sock.
LEMMA CloseSocketsType ==
    ASSUME TypeOK, NEW S, CloseSockets(S)
    PROVE  sock' \in [Sockets -> {"none", "open", "closing", "closed"}]
BY DEF TypeOK, CloseSockets

\* The end of a run keeps loops and subscriptions one to one.
LEMMA FinishRunInv ==
    ASSUME IInv, NEW o \in Objects, loop[o] = "running", FinishRun(o),
           UNCHANGED <<members, phase, wanted, shutdown>>
    PROVE  /\ loop' \in [Objects -> {"idle", "running", "timer"}]
           /\ subscriptions' \in [Servers -> Objects \cup {None}]
           /\ owner' \in [Objects -> Servers \cup {None}]
           /\ NamesInv'
           /\ ~shutdown => LoopInv'
<1> USE DEF IInv, TypeOK, NamesInv, LoopInv, Busy, FinishRun
<1>1. CASE members[o] # {}
  BY <1>1
<1>2. CASE members[o] = {}
  BY <1>2
<1> QED
  BY <1>1, <1>2

LEMMA NextIInv == IInv /\ [Next]_vars => IInv'
<1> SUFFICES ASSUME IInv, [Next]_vars PROVE IInv'
  OBVIOUS
<1> USE DEF IInv, TypeOK, NamesInv, LoopInv, Busy, socketVars, subVars, clientVars
<1>1. ASSUME NEW s \in Sockets, Connect(s) PROVE IInv'
  BY <1>1 DEF Connect
<1>2. ASSUME NEW s \in Sockets, NEW srv \in Servers, FirstMessage(s, srv) PROVE IInv'
  BY <1>2 DEF FirstMessage
<1>3. ASSUME NEW s \in Sockets, Refuse(s) PROVE IInv'
  BY <1>3, CloseSocketsType DEF Refuse
<1>4. ASSUME NEW s \in Sockets, SubscribeTimeout(s) PROVE IInv'
  BY <1>4, CloseSocketsType DEF SubscribeTimeout
<1>5. ASSUME NEW s \in Sockets, NEW o \in Objects, Subscribe(s, o) PROVE IInv'
  BY <1>5 DEF Subscribe, SubscriptionFor
<1>6. ASSUME NEW s \in Sockets, SocketClosed(s) PROVE IInv'
  <2> DEFINE o == IF subscribed[s] = None THEN None ELSE subscriptions[subscribed[s]]
  <2>1. CASE o = None
    BY <1>6, <2>1 DEF SocketClosed
  <2>2. CASE o # None /\ StopsLoop(o, members[o] \ {s})
    BY <1>6, <2>2 DEF SocketClosed, RemoveSubscriber, StopsLoop, Free, FirstSequence
  <2>3. CASE o # None /\ ~StopsLoop(o, members[o] \ {s})
    BY <1>6, <2>3 DEF SocketClosed, RemoveSubscriber, StopsLoop
  <2> QED
    BY <2>1, <2>2, <2>3
<1>7. CASE Shutdown
  BY <1>7, CloseSocketsType DEF Shutdown
<1>8. ASSUME NEW o \in Objects, NEW slow \in SUBSET Sockets, RefreshPublishes(o, slow)
      PROVE  IInv'
  <2>1. /\ sock' \in [Sockets -> {"none", "open", "closing", "closed"}]
        /\ sequence' \in [Objects -> 0 .. MAX_SEQUENCE]
    BY <1>8, CloseSocketsType DEF RefreshPublishes
  <2>2. snapshot' \in [Sockets -> Maps \cup {None}]
    BY <1>8 DEF RefreshPublishes
  <2>3. view' \in [Sockets -> Maps \cup {None}]
    BY <1>8 DEF RefreshPublishes, ApplyChanges, MapLiveChanges, Maps
  <2>4. FinishRun(o) /\ loop[o] = "running" /\ UNCHANGED <<members, phase, wanted, shutdown>>
    BY <1>8 DEF RefreshPublishes
  <2> QED
    BY <1>8, <2>1, <2>2, <2>3, <2>4, FinishRunInv DEF RefreshPublishes
<1>9. ASSUME NEW o \in Objects, RefreshFails(o) PROVE IInv'
  <2>1. FinishRun(o) /\ loop[o] = "running" /\ UNCHANGED <<members, phase, wanted, shutdown>>
    BY <1>9 DEF RefreshFails
  <2> QED
    BY <1>9, <2>1, FinishRunInv DEF RefreshFails
<1>10. ASSUME NEW o \in Objects, TimerFires(o) PROVE IInv'
  BY <1>10 DEF TimerFires
<1>11. ASSUME NEW srv \in Servers, NEW e \in Entities, NEW v \in Versions \cup {None},
              MapChanges(srv, e, v)
       PROVE  IInv'
  BY <1>11 DEF MapChanges, Maps
<1>12. ASSUME NEW s \in Sockets, FetchMap(s) PROVE IInv'
  BY <1>12 DEF FetchMap
<1>13. CASE UNCHANGED vars
  BY <1>13 DEF vars
<1> QED
  BY <1>1, <1>2, <1>3, <1>4, <1>5, <1>6, <1>7, <1>8, <1>9, <1>10, <1>11, <1>12, <1>13
     DEF Next

LEMMA Invariance == Spec => []IInv
BY InitIInv, NextIInv, PTL DEF Spec

\* The state of the service is always well formed.
THEOREM TypeCorrect == Spec => []TypeOK
<1>1. IInv => TypeOK
  BY DEF IInv
<1> QED
  BY <1>1, Invariance, PTL

\* No game server is ever polled by two refresh loops.
THEOREM OneLoop == Spec => []OneLoopPerServer
<1>1. IInv => OneLoopPerServer
  BY DEF IInv, LoopInv, OneLoopPerServer, Busy
<1> QED
  BY <1>1, Invariance, PTL

\* Subscribers have a loop, and a waiting loop has subscribers.
THEOREM LoopsServeSubscribers == Spec => []LoopsMatchSubscribers
<1>1. IInv => LoopsMatchSubscribers
  BY DEF IInv, LoopInv, LoopsMatchSubscribers, Busy
<1> QED
  BY <1>1, Invariance, PTL

-----------------------------------------------------------------------------
\* A map that agrees with the old one agrees with the new one after the delta
\* between the two.
LEMMA DeltaRoundTrip ==
    ASSUME NEW map \in Maps, NEW old \in Maps, NEW new \in Maps, Agree(map, old)
    PROVE  Agree(ApplyChanges(map, MapLiveChanges(old, new), new), new)
<1> DEFINE delta == MapLiveChanges(old, new)
           made == ApplyChanges(map, delta, new)
<1>1. /\ delta.upserted = {e \in Told : new[e] # None /\ old[e] # new[e]}
      /\ delta.removed = {e \in Told : old[e] # None /\ new[e] = None}
  BY DEF MapLiveChanges, RemovedEntities
<1>2. made = [e \in Entities |-> IF e \in delta.upserted THEN new[e]
                                 ELSE IF e \in delta.removed THEN None ELSE map[e]]
  BY DEF ApplyChanges
<1>3. \A e \in Told : e \in Entities /\ map[e] = old[e]
  BY DEF Agree, Told
<1> HIDE DEF delta, made
<1>4. \A e \in Told : made[e] = new[e]
  BY <1>1, <1>2, <1>3
<1>5. made \in Maps
  BY <1>1, <1>2 DEF Maps
<1> QED
  BY <1>4, <1>5 DEF Agree, made, delta

\* Maps between which there is no delta agree with the same maps.
LEMMA NoDelta ==
    ASSUME NEW map \in Maps \cup {None}, NEW old \in Maps, NEW new \in Maps,
           Agree(map, old), ~HasChanges(MapLiveChanges(old, new))
    PROVE  Agree(map, new)
<1>1. /\ {e \in Told : new[e] # None /\ old[e] # new[e]} = {}
      /\ {e \in Told : old[e] # None /\ new[e] = None} = {}
  BY DEF HasChanges, MapLiveChanges, RemovedEntities
<1>2. \A e \in Told : old[e] = new[e]
  BY <1>1
<1>3. map # None /\ \A e \in Told : map[e] = old[e]
  BY DEF Agree
<1> QED
  BY <1>2, <1>3 DEF Agree

\* A client in sync with the map kept for it stays so, or is being closed.
THEOREM SyncIsKept == Spec => ClientStaysInSync
<1> DEFINE InSync(s) == sock[s] = "open" /\ snapshot[s] # None /\ Agree(view[s], snapshot[s])
           Kept(s) == InSync(s) => sock'[s] # "open" \/ Agree(view'[s], snapshot'[s])
<1>1. ASSUME IInv, Next, NEW s \in Sockets PROVE Kept(s)
  <2> USE <1>1 DEF IInv, TypeOK
  <2>1. ASSUME NEW o \in Objects, NEW slow \in SUBSET Sockets, RefreshPublishes(o, slow),
               InSync(s)
        PROVE  sock'[s] # "open" \/ Agree(view'[s], snapshot'[s])
    <3> DEFINE new == world[owner[o]]
               delta == MapLiveChanges(snapshot[s], new)
    <3>1. new \in Maps /\ snapshot[s] \in Maps /\ view[s] \in Maps
      BY <2>1 DEF NamesInv, Busy, RefreshPublishes, Agree
    <3>2. CASE s \notin members[o]
      <4>1. view'[s] = view[s] /\ snapshot'[s] = snapshot[s]
        BY <2>1, <3>2 DEF RefreshPublishes
      <4> QED
        BY <2>1, <4>1
    <3>3. CASE s \in members[o] /\ ~HasChanges(delta)
      <4>1. view'[s] = view[s] /\ snapshot'[s] = new
        BY <2>1, <3>3 DEF RefreshPublishes
      <4> QED
        BY <2>1, <3>1, <3>3, <4>1, NoDelta
    <3>4. CASE s \in slow
      BY <2>1, <3>4 DEF RefreshPublishes, CloseSockets, Terminated
    <3>5. CASE s \in members[o] \ slow /\ HasChanges(delta)
      <4>1. view'[s] = ApplyChanges(view[s], delta, new)
        BY <2>1, <3>1, <3>5 DEF RefreshPublishes
      <4>2. snapshot'[s] = new
        BY <2>1, <3>5 DEF RefreshPublishes
      <4> QED
        BY <2>1, <3>1, <4>1, <4>2, DeltaRoundTrip
    <3> QED
      BY <3>2, <3>3, <3>4, <3>5
  <2>2. CASE \E q \in Sockets : SocketClosed(q)
    BY <2>2 DEF SocketClosed
  <2>3. CASE \E q \in Sockets : FetchMap(q)
    <3>1. PICK q \in Sockets : FetchMap(q)
      BY <2>3
    <3>2. InSync(s) => view[s] # None
      BY DEF Agree
    <3>3. InSync(s) => view'[s] = view[s] /\ snapshot'[s] = snapshot[s]
      BY <3>1, <3>2 DEF FetchMap
    <3> QED
      BY <3>3
  <2>4. CASE UNCHANGED <<view, snapshot>>
    BY <2>4
  <2> QED
    BY <2>1, <2>2, <2>3, <2>4 DEF Next, Connect, FirstMessage, Refuse, SubscribeTimeout,
       Subscribe, Shutdown, RefreshFails, TimerFires, MapChanges, clientVars
<1>2. IInv /\ [Next]_vars => [\A s \in Sockets : Kept(s)]_vars
  BY <1>1
<1> QED
  BY <1>2, Invariance, PTL DEF Spec, ClientStaysInSync

-----------------------------------------------------------------------------
(* Loops over a payload.                                                    *)

\* What holds of 0 and is passed on from n to n + 1 holds of every number.
LEMMA Induction ==
    ASSUME NEW T, 0 \in T, \A n \in Nat : n \in T => n + 1 \in T
    PROVE  Nat \subseteq T
<1> SUFFICES ASSUME Nat \ T # {} PROVE FALSE
  OBVIOUS
<1>1. PICK m \in Nat \ T : \A j \in Nat \ T : ~(<<j, m>> \in OpToRel(<, Nat))
  <2> DEFINE U == Nat \ T
  <2>1. U \subseteq Nat /\ U # {}
    OBVIOUS
  <2> HIDE DEF U
  <2>2. \E m \in U : \A j \in U : ~(<<j, m>> \in OpToRel(<, Nat))
    BY <2>1, NatLessThanWellFounded, WFMin
  <2> QED
    BY <2>2 DEF U
<1>2. m - 1 \in Nat /\ m - 1 < m
  OBVIOUS
<1>3. m - 1 \in T
  BY <1>1, <1>2 DEF OpToRel
<1> QED
  BY <1>2, <1>3

\* What is kept of a sequence is what it has of the set, and nothing else.
LEMMA KeptFacts ==
    ASSUME NEW A, NEW s \in Seq(A), NEW S
    PROVE  /\ Layers!Kept(s, S) \in Seq(S)
           /\ Layers!ToSet(Layers!Kept(s, S)) = Layers!ToSet(s) \cap S
<1> DEFINE Value(g, n) == IF n = 0 THEN <<>>
                          ELSE IF s[n] \in S THEN Append(g[n - 1], s[n])
                          ELSE g[n - 1]
           Loop(g) == g = [n \in 0 .. Len(s) |-> Value(g, n)]
           kept == CHOOSE g : Loop(g)
<1>1. Loop(kept)
  <2> DEFINE LoopTo(N, g) == g = [n \in 0 .. N |-> Value(g, n)]
             E == {N \in Nat : \E g : LoopTo(N, g)}
  <2>1. 0 \in E
    <3>1. LoopTo(0, [n \in 0 .. 0 |-> <<>>])
      OBVIOUS
    <3> HIDE DEF LoopTo
    <3> QED
      BY <3>1
  <2>2. ASSUME NEW N \in Nat, N \in E PROVE N + 1 \in E
    <3>1. PICK g : LoopTo(N, g)
      BY <2>2
    <3>2. \A n \in 0 .. N : g[n] = Value(g, n)
      <4> HIDE DEF Value
      <4> QED
        BY <3>1
    <3> DEFINE h == [n \in 0 .. (N + 1) |-> IF n = N + 1 THEN Value(g, n) ELSE g[n]]
    <3>3. LoopTo(N + 1, h)
      <4> SUFFICES ASSUME NEW n \in 0 .. (N + 1) PROVE h[n] = Value(h, n)
        OBVIOUS
      <4>1. n # 0 => h[n - 1] = g[n - 1]
        OBVIOUS
      <4>2. Value(h, n) = Value(g, n)
        BY <4>1
      <4>3. n # N + 1 => g[n] = Value(g, n)
        BY <3>2
      <4> QED
        BY <4>2, <4>3
    <3> HIDE DEF h, LoopTo
    <3> QED
      BY <3>3
  <2>3. Len(s) \in Nat
    OBVIOUS
  <2> HIDE DEF E
  <2>4. Len(s) \in E
    BY <2>1, <2>2, <2>3, Induction
  <2>5. \E g : Loop(g)
    <3> HIDE DEF Value
    <3> QED
      BY <2>4 DEF E
  <2> HIDE DEF Loop
  <2> QED
    BY <2>5
<1>2. Layers!Kept(s, S) = kept[Len(s)]
  BY DEF Layers!Kept
<1> HIDE DEF kept
<1>3. \A n \in 0 .. Len(s) : kept[n] = Value(kept, n)
  <2> HIDE DEF Value
  <2> QED
    BY <1>1
<1> HIDE DEF Loop
<1> DEFINE T == {n \in Nat : n <= Len(s) =>
                    /\ kept[n] \in Seq(S)
                    /\ \A x : (\E i \in 1 .. Len(kept[n]) : kept[n][i] = x)
                              <=> x \in S /\ \E i \in 1 .. n : s[i] = x}
<1>4. 0 \in T
  <2>1. kept[0] = <<>>
    BY <1>3
  <2>2. kept[0] \in Seq(S) /\ Len(kept[0]) = 0
    BY <2>1
  <2>3. (1 .. 0) = {}
    OBVIOUS
  <2> QED
    BY <2>2, <2>3
<1>5. ASSUME NEW n \in Nat, n \in T PROVE n + 1 \in T
  <2> SUFFICES ASSUME n + 1 <= Len(s)
               PROVE  /\ kept[n + 1] \in Seq(S)
                      /\ \A x : (\E i \in 1 .. Len(kept[n + 1]) : kept[n + 1][i] = x)
                              <=> x \in S /\ \E i \in 1 .. (n + 1) : s[i] = x
    OBVIOUS
  <2>1. /\ kept[n] \in Seq(S)
        /\ \A x : (\E i \in 1 .. Len(kept[n]) : kept[n][i] = x)
                              <=> x \in S /\ \E i \in 1 .. n : s[i] = x
    BY <1>5
  <2>2. kept[n + 1] = IF s[n + 1] \in S THEN Append(kept[n], s[n + 1]) ELSE kept[n]
    BY <1>3
  <2> HIDE DEF T
  <2>3. \A i \in 1 .. (n + 1) : i \in 1 .. n \/ i = n + 1
    OBVIOUS
  <2>4. CASE s[n + 1] \in S
    <3> DEFINE k == kept[n]
               new == kept[n + 1]
    <3>1. k \in Seq(S) /\ new = Append(k, s[n + 1])
      BY <2>1, <2>2, <2>4
    <3>2. \A x : (\E i \in 1 .. Len(k) : k[i] = x) <=> x \in S /\ \E i \in 1 .. n : s[i] = x
      BY <2>1
    <3> HIDE DEF k, new
    <3>3. /\ new \in Seq(S) /\ Len(k) \in Nat /\ Len(new) = Len(k) + 1
          /\ new[Len(k) + 1] = s[n + 1]
          /\ \A i \in 1 .. Len(k) : new[i] = k[i]
      BY <2>4, <3>1
    <3>4. \A x : (\E i \in 1 .. Len(new) : new[i] = x)
                    <=> (\E i \in 1 .. Len(k) : k[i] = x) \/ s[n + 1] = x
      BY <3>3
    <3>5. \A x : (\E i \in 1 .. (n + 1) : s[i] = x)
                    <=> (\E i \in 1 .. n : s[i] = x) \/ s[n + 1] = x
      BY <2>3
    <3>6. \A x : (\E i \in 1 .. Len(new) : new[i] = x)
                    <=> x \in S /\ \E i \in 1 .. (n + 1) : s[i] = x
      BY <2>4, <3>2, <3>4, <3>5
    <3> QED
      BY <3>3, <3>6 DEF new
  <2>5. CASE s[n + 1] \notin S
    <3> DEFINE k == kept[n]
               new == kept[n + 1]
    <3>1. new = k
      BY <2>2, <2>5
    <3>2. /\ k \in Seq(S)
          /\ \A x : (\E i \in 1 .. Len(k) : k[i] = x) <=> x \in S /\ \E i \in 1 .. n : s[i] = x
      BY <2>1
    <3> HIDE DEF k, new
    <3>3. \A x : (\E i \in 1 .. (n + 1) : s[i] = x)
                    <=> (\E i \in 1 .. n : s[i] = x) \/ s[n + 1] = x
      BY <2>3
    <3>4. \A x : (\E i \in 1 .. Len(k) : k[i] = x)
                    <=> x \in S /\ \E i \in 1 .. (n + 1) : s[i] = x
      BY <2>5, <3>2, <3>3
    <3> QED
      BY <3>1, <3>2, <3>4 DEF new
  <2> QED
    BY <2>4, <2>5
<1> HIDE DEF T
<1>6. Len(s) \in T
  BY <1>4, <1>5, Induction
<1> DEFINE r == kept[Len(s)]
<1>7. /\ r \in Seq(S)
      /\ \A x : (\E i \in 1 .. Len(r) : r[i] = x) <=> x \in S /\ \E i \in 1 .. Len(s) : s[i] = x
  BY <1>6 DEF T
<1> HIDE DEF r
<1>8. {r[i] : i \in DOMAIN r} = {s[i] : i \in DOMAIN s} \cap S
  <2>1. DOMAIN r = 1 .. Len(r) /\ DOMAIN s = 1 .. Len(s)
    BY <1>7
  <2> QED
    BY <2>1, <1>7
<1> QED
  BY <1>2, <1>7, <1>8 DEF r, Layers!ToSet

-----------------------------------------------------------------------------
(* The layers.                                                              *)

\* A payload is what its route gives; the items of a list are those of its kind.
PayloadsTyped ==
    /\ DOMAIN data = Layers!Keys
    /\ data.marketZones # None => data.marketZones \in Seq(Zones)
    /\ data.claimSales # None => data.claimSales \in Seq(Listings)
    /\ data.renewZones # None => data.renewZones \in Seq(RenewZones)
    /\ data.worldAreas # None /\ data.worldAreas.areas # None
          => data.worldAreas.areas \in Seq(Areas)
    /\ data.playerlist # None /\ data.playerlist.players # None
          => data.playerlist.players \in Seq(PlayerItems)

\* The routes are read in their order: markets before the offers of markets.
RoutesInOrder ==
    \E k \in 0 .. 12 :
        /\ toRead \in Seq(Layers!Keys)
        /\ Len(toRead) = 12 - k
        /\ \A n \in 1 .. Len(toRead) : toRead[n] = Layers!RouteSpecs[k + n]
        /\ k < 11 => data.offers = None

OffersOfMarkets ==
    data.offers # None => data.offers \subseteq Layers!AreasWithOffers(data.marketZones)

LayersInv == PayloadsTyped /\ RoutesInOrder /\ OffersOfMarkets

\* The routes by name.
LEMMA KeysAre ==
    Layers!Keys = {"landClaim", "worldAreas", "playerlist", "marketZones", "shopZones",
                   "claimSales", "renewZones", "globalMarkers", "criers", "traders",
                   "offers", "globalOffers"}
BY DEF Layers!Keys, Layers!ToSet, Layers!RouteSpecs

\* What can be read from a route.
LEMMA BoundedSeqIsSeq ==
    ASSUME NEW A, NEW n \in Nat
    PROVE  Layers!BoundedSeq(A, n) \subseteq Seq(A)
<1> SUFFICES ASSUME NEW m \in 0 .. n, NEW s \in [1 .. m -> A] PROVE s \in Seq(A)
  BY DEF Layers!BoundedSeq, Layers!SeqOf
<1> QED
  OBVIOUS

LEMMA LayersInit == Layers!Init => LayersInv
<1> SUFFICES ASSUME Layers!Init PROVE LayersInv
  OBVIOUS
<1>1. data = [key \in Layers!Keys |-> None] /\ toRead = Layers!RouteSpecs
  BY DEF Layers!Init
<1>2. PayloadsTyped
  BY <1>1, KeysAre DEF PayloadsTyped
<1>3. RoutesInOrder
  <2>1. toRead \in Seq(Layers!Keys) /\ Len(toRead) = 12 /\ data.offers = None
    BY <1>1, KeysAre DEF Layers!RouteSpecs
  <2> QED
    BY <1>1, <2>1 DEF RoutesInOrder
<1>4. OffersOfMarkets
  BY <1>1, KeysAre DEF OffersOfMarkets
<1> QED
  BY <1>2, <1>3, <1>4 DEF LayersInv

LEMMA PayloadTypes ==
    ASSUME NEW key \in Layers!Keys, NEW payload \in Layers!Payloads(key)
    PROVE  /\ key = "marketZones" => payload \in Seq(Zones)
           /\ key = "claimSales" => payload \in Seq(Listings)
           /\ key = "renewZones" => payload \in Seq(RenewZones)
           /\ key = "worldAreas" => \/ payload.areas = None
                                    \/ payload.areas \in Seq(Areas)
           /\ key = "playerlist" => \/ payload.players = None
                                    \/ payload.players \in Seq(PlayerItems)
           /\ key = "offers" => payload \subseteq Layers!AreasWithOffers(data.marketZones)
<1>1. key = "marketZones" => payload \in Seq(Zones)
  BY BoundedSeqIsSeq, MapDataAssumption DEF Layers!Payloads, MapDataAssumption
<1>2. key = "claimSales" => payload \in Seq(Listings)
  BY BoundedSeqIsSeq, MapDataAssumption DEF Layers!Payloads, MapDataAssumption
<1>3. key = "renewZones" => payload \in Seq(RenewZones)
  BY BoundedSeqIsSeq, MapDataAssumption DEF Layers!Payloads, MapDataAssumption
<1>4. key = "worldAreas" => payload.areas = None \/ payload.areas \in Seq(Areas)
  BY BoundedSeqIsSeq DEF Layers!Payloads
<1>5. key = "playerlist" => payload.players = None \/ payload.players \in Seq(PlayerItems)
  BY BoundedSeqIsSeq DEF Layers!Payloads
<1>6. key = "offers" => payload \subseteq Layers!AreasWithOffers(data.marketZones)
  BY DEF Layers!Payloads
<1> QED
  BY <1>1, <1>2, <1>3, <1>4, <1>5, <1>6

LEMMA LayersNext == LayersInv /\ [Layers!Next]_layerVars => LayersInv'
<1> SUFFICES ASSUME LayersInv, [Layers!Next]_layerVars PROVE LayersInv'
  OBVIOUS
<1> USE DEF LayersInv
<1>1. CASE UNCHANGED layerVars
  BY <1>1 DEF layerVars, PayloadsTyped, RoutesInOrder, OffersOfMarkets, Layers!AreasWithOffers
<1>2. ASSUME NEW n \in DOMAIN toRead, Layers!ReadRoute(n) PROVE LayersInv'
  <2>1. PICK k \in 0 .. 12 :
           /\ toRead \in Seq(Layers!Keys)
           /\ Len(toRead) = 12 - k
           /\ \A i \in 1 .. Len(toRead) : toRead[i] = Layers!RouteSpecs[k + i]
           /\ k < 11 => data.offers = None
    BY DEF RoutesInOrder
  <2>2. n \in 1 .. (12 - k) /\ toRead[n] = Layers!RouteSpecs[k + n] /\ toRead[n] \in Layers!Keys
    BY <2>1
  <2> DEFINE key == toRead[n]
  <2>3. PICK payload \in Layers!Payloads(key) : data' = [data EXCEPT ![key] = payload]
    BY <1>2 DEF Layers!ReadRoute
  <2>4. toRead' = SubSeq(toRead, n + 1, Len(toRead))
    BY <1>2 DEF Layers!ReadRoute
  <2>5. PayloadsTyped'
    BY <2>2, <2>3, PayloadTypes, KeysAre DEF PayloadsTyped
  <2>6. key = "offers" => k + n = 11
    BY <2>2 DEF Layers!RouteSpecs
  <2>7. key = "marketZones" => k + n = 4
    BY <2>2 DEF Layers!RouteSpecs
  <2>8. RoutesInOrder'
    <3> DEFINE rest == SubSeq(toRead, n + 1, 12 - k)
    <3>a. toRead' = rest
      BY <2>1, <2>4
    <3>b. \A i \in (n + 1) .. (12 - k) : toRead[i] \in Layers!Keys
      BY <2>1, <2>2
    <3>c. /\ rest \in Seq(Layers!Keys)
          /\ Len(rest) = (IF n + 1 <= 12 - k THEN (12 - k) - (n + 1) + 1 ELSE 0)
          /\ \A i \in 1 .. (12 - k) - (n + 1) + 1 : rest[i] = toRead[(n + 1) + i - 1]
      <4> DEFINE from == n + 1
                 to == 12 - k
      <4>1. from \in Int /\ to \in Int /\ \A i \in from .. to : toRead[i] \in Layers!Keys
        BY <2>2, <3>b
      <4> HIDE DEF from, to
      <4>2. LET r == SubSeq(toRead, from, to)
            IN  /\ r \in Seq(Layers!Keys)
                /\ Len(r) = (IF from <= to THEN to - from + 1 ELSE 0)
                /\ \A i \in 1 .. to - from + 1 : r[i] = toRead[from + i - 1]
        BY ONLY <4>1, SubSeqProperties
      <4> QED
        BY <4>2 DEF from, to
    <3> HIDE DEF rest
    <3>d. Len(rest) = 12 - (k + n) /\ \A i \in 1 .. Len(rest) : rest[i] = toRead[n + i]
      BY <3>c, <2>2
    <3>1. /\ toRead' \in Seq(Layers!Keys)
          /\ Len(toRead') = 12 - (k + n)
          /\ \A i \in 1 .. Len(toRead') : toRead'[i] = toRead[n + i]
      BY <3>a, <3>c, <3>d
    <3>2. \A i \in 1 .. Len(toRead') : toRead'[i] = Layers!RouteSpecs[(k + n) + i]
      <4> SUFFICES ASSUME NEW i \in 1 .. Len(toRead')
                   PROVE  toRead'[i] = Layers!RouteSpecs[(k + n) + i]
        OBVIOUS
      <4>1. k \in 0 .. 12 /\ n \in 1 .. (12 - k) /\ i \in 1 .. (12 - (k + n))
        BY <2>2, <3>1
      <4>2. n + i \in 1 .. (12 - k) /\ k + (n + i) = (k + n) + i
        BY <4>1
      <4> QED
        BY <2>1, <3>1, <4>2
    <3>3. k + n < 11 => data'.offers = None
      BY <2>1, <2>2, <2>3, <2>6, KeysAre DEF PayloadsTyped
    <3>4. k + n \in 0 .. 12
      BY <2>2
    <3> QED
      BY <3>1, <3>2, <3>3, <3>4 DEF RoutesInOrder
  <2>9. OffersOfMarkets'
    <3>1. CASE key = "offers"
      BY <2>2, <2>3, <3>1, PayloadTypes, KeysAre
         DEF OffersOfMarkets, PayloadsTyped, Layers!AreasWithOffers
    <3>2. CASE key = "marketZones"
      BY <2>1, <2>2, <2>3, <2>7, <3>2, KeysAre DEF OffersOfMarkets, PayloadsTyped
    <3>3. CASE key \notin {"offers", "marketZones"}
      BY <2>2, <2>3, <3>3, KeysAre DEF OffersOfMarkets, PayloadsTyped, Layers!AreasWithOffers
    <3> QED
      BY <3>1, <3>2, <3>3
  <2> QED
    BY <2>5, <2>8, <2>9
<1> QED
  BY <1>1, <1>2 DEF Layers!Next

LEMMA LayersInvariance == SpecData => []LayersInv
<1>1. LayersInv /\ [NextData]_dataVars => LayersInv'
  BY LayersNext DEF NextData, FeedMoves, CacheMoves, LayersMove, dataVars
<1>2. InitData => LayersInv
  BY LayersInit DEF InitData
<1> QED
  BY <1>1, <1>2, PTL DEF SpecData

\* The areas marked in a list of zones are those offers are asked for.
LEMMA MarkedAreas ==
    ASSUME NEW zones
    PROVE  Layers!IdsOrNone(zones) = Layers!AreasWithOffers(zones)
BY DEF Layers!IdsOrNone, Layers!CachedAreaIds, Layers!AreasWithOffers

\* What is known of a claim that is shown.
LEMMA ClaimOfArea ==
    ASSUME LayersInv, Layers!MapClaims # None, NEW i \in DOMAIN Layers!MapClaims
    PROVE  /\ data.worldAreas # None /\ data.worldAreas.areas # None
           /\ \E a \in Areas \ {Junk} :
                 /\ a \in Layers!ToSet(Layers!Items(data.worldAreas.areas))
                 /\ Layers!Shown(a, data.worldAreas.settings)
                 /\ Layers!MapClaims[i] = Layers!ClaimOf(a, data.worldAreas.settings)
<1> DEFINE areas == data.worldAreas.areas
           settings == data.worldAreas.settings
           S == {a \in Layers!ToSet(areas) \ {Junk} : Layers!Shown(a, settings)}
           shown == Layers!Kept(areas, S)
<1>1. data.worldAreas # None /\ areas # None
  BY DEF Layers!MapClaims
<1>2. areas \in Seq(Areas)
  BY <1>1 DEF LayersInv, PayloadsTyped
<1>3. Layers!MapClaims = [j \in DOMAIN shown |-> Layers!ClaimOf(shown[j], settings)]
  BY <1>1 DEF Layers!MapClaims
<1> DEFINE present == Layers!ToSet(areas) \ {Junk}
<1> HIDE DEF areas, settings, shown, S, present
<1>4. i \in DOMAIN shown /\ Layers!MapClaims[i] = Layers!ClaimOf(shown[i], settings)
  BY <1>3
<1>5. shown[i] \in Layers!ToSet(shown)
  BY <1>4 DEF Layers!ToSet
<1>6. Layers!ToSet(shown) = Layers!ToSet(areas) \cap S
  BY <1>2, KeptFacts DEF shown
<1>7. shown[i] \in present /\ Layers!Shown(shown[i], settings)
  BY <1>5, <1>6 DEF S, present
<1>8. Layers!ToSet(Layers!Items(areas)) = present
  BY <1>2, KeptFacts DEF Layers!Items, present
<1>9. shown[i] \in Areas \ {Junk}
  BY <1>2, <1>7 DEF present, Layers!ToSet
<1> QED
  BY <1>1, <1>4, <1>7, <1>8, <1>9 DEF areas, settings

\* Without the long-term offline, the players are those of the full layer
\* that are not.
LEMMA PlayersAgree ==
    ASSUME LayersInv, Layers!MapPlayers(TRUE) # None
    PROVE  Layers!ToSet(Layers!MapPlayers(FALSE)) =
               {p \in Layers!ToSet(Layers!MapPlayers(TRUE)) : p.state # "long-term-offline"}
<1> DEFINE players == data.playerlist.players
           Wanted(b) == {p \in Layers!ToSet(players) \ {Junk} :
                            b \/ Layers!PlayerState(p) # "long-term-offline"}
           Entry(p) == [id |-> p.id, state |-> Layers!PlayerState(p),
                        lastSeen |-> Layers!Epoch(p.lastseen)]
           shown(b) == Layers!Kept(players, Wanted(b))
<1>1. data.playerlist # None /\ players # None
  BY DEF Layers!MapPlayers
<1>2. players \in Seq(PlayerItems)
  BY <1>1 DEF LayersInv, PayloadsTyped
<1>3. \A b \in BOOLEAN : Layers!MapPlayers(b) = [i \in DOMAIN shown(b) |-> Entry(shown(b)[i])]
  BY <1>1 DEF Layers!MapPlayers
<1>4. ASSUME NEW b \in BOOLEAN
      PROVE  Layers!ToSet(Layers!MapPlayers(b)) = {Entry(p) : p \in Wanted(b)}
  <2> DEFINE r == shown(b)
             W == Wanted(b)
  <2>1. Layers!MapPlayers(b) = [i \in DOMAIN r |-> Entry(r[i])]
    BY <1>3
  <2>2. W \subseteq Layers!ToSet(players)
    OBVIOUS
  <2>3. r = Layers!Kept(players, W)
    OBVIOUS
  <2> HIDE DEF W, r, players, Entry
  <2>4. Layers!ToSet(r) = Layers!ToSet(players) \cap W
    BY <1>2, <2>3, KeptFacts
  <2>5. Layers!ToSet(r) = W
    BY <2>2, <2>4
  <2> QED
    BY <2>1, <2>5 DEF Layers!ToSet, W
<1>5. \A p : Entry(p).state = Layers!PlayerState(p)
  OBVIOUS
<1> HIDE DEF Entry
<1> QED
  BY <1>4, <1>5

\* The parts of a snapshot fit together.
LEMMA LayersFit == LayersInv => LayersAgree
<1> SUFFICES ASSUME LayersInv PROVE Layers!LayersAgree
  BY DEF LayersAgree
<1> DEFINE live == Layers!LiveSnapshot
<1>1. /\ live.claims = Layers!OrEmpty(Layers!MapClaims)
      /\ live.players = Layers!OrEmpty(Layers!MapPlayers(TRUE))
      /\ live.gpsGlobalMarkers = Layers!OrEmpty(Layers!Dated(data.globalMarkers))
      /\ live.marketplaceOffers = IF data.offers = None THEN {} ELSE data.offers
      /\ live.capabilities = Layers!Capabilities
  BY DEF Layers!LiveSnapshot
<1>2. /\ Layers!Capabilities.claims = (Layers!MapClaims # None)
      /\ Layers!Capabilities.players = (Layers!MapPlayers(TRUE) # None)
      /\ Layers!Capabilities.gpsGlobalMarkers = (Layers!Dated(data.globalMarkers) # None)
      /\ Layers!Capabilities.marketplace = (Layers!CachedAreaIds(data.marketZones) # None)
  BY DEF Layers!Capabilities
<1> HIDE DEF live
<1>3. ASSUME NEW c \in Layers!ToSet(live.claims), c.marketplace
      PROVE  c.areaId \in Layers!AreasWithOffers(data.marketZones)
  <2>1. Layers!MapClaims # None
    BY <1>1, <1>3 DEF Layers!OrEmpty, Layers!ToSet
  <2>2. PICK i \in DOMAIN Layers!MapClaims : c = Layers!MapClaims[i]
    BY <1>1, <1>3, <2>1 DEF Layers!OrEmpty, Layers!ToSet
  <2>3. PICK a \in Areas : c = Layers!ClaimOf(a, data.worldAreas.settings)
    BY <2>1, <2>2, ClaimOfArea
  <2>4. c.areaId = a.id /\ c.marketplace = (a.id \in Layers!IdsOrNone(data.marketZones))
    BY <2>3 DEF Layers!ClaimOf
  <2> QED
    BY <1>3, <2>4, MarkedAreas
<1>4. live.marketplaceOffers \subseteq Layers!IdsOrNone(data.marketZones)
  BY <1>1, MarkedAreas DEF LayersInv, OffersOfMarkets
<1>5. live.marketplaceOffers # {} => live.capabilities.marketplace
  <2> SUFFICES ASSUME live.marketplaceOffers # {}
               PROVE  Layers!CachedAreaIds(data.marketZones) # None
    BY <1>1, <1>2
  <2>1. data.marketZones # None
    BY <1>4 DEF Layers!IdsOrNone
  <2>2. data.marketZones \in Seq(Zones)
    BY <2>1 DEF LayersInv, PayloadsTyped
  <2>3. Layers!ToSet(Layers!Items(data.marketZones)) \subseteq Zones
    <3>1. Layers!ToSet(Layers!Items(data.marketZones)) \subseteq Layers!ToSet(data.marketZones)
      BY <2>2, KeptFacts DEF Layers!Items
    <3> QED
      BY <2>2, <3>1 DEF Layers!ToSet
  <2> QED
    BY <2>1, <2>3, MapDataAssumption DEF MapDataAssumption, Layers!CachedAreaIds
<1>6. ASSUME NEW l \in {"claims", "players", "gpsGlobalMarkers"}, live[l] # <<>>
      PROVE  live.capabilities[l]
  BY <1>1, <1>2, <1>6 DEF Layers!OrEmpty
<1> QED
  BY <1>3, <1>4, <1>5, <1>6, PlayersAgree DEF Layers!LayersAgree, live

\* Whatever payloads a refresh reads, the layers made of them fit together.
THEOREM LayersAlwaysAgree == SpecData => []LayersAgree
BY LayersInvariance, LayersFit, PTL

-----------------------------------------------------------------------------
(* The claims.                                                              *)

\* The number of a set that is at most, at least, every other.
LEMMA MinIs ==
    ASSUME NEW S \in SUBSET Int, NEW x \in S, \A y \in S : x <= y
    PROVE  Layers!Min(S) = x
<1>1. \E z \in S : \A y \in S : z <= y
  OBVIOUS
<1>2. Layers!Min(S) \in S /\ \A y \in S : Layers!Min(S) <= y
  BY <1>1 DEF Layers!Min
<1> DEFINE m == Layers!Min(S)
<1> HIDE DEF m
<1>3. m \in Int /\ x \in Int /\ m <= x /\ x <= m
  BY <1>2 DEF m
<1>4. m = x
  BY <1>3
<1> QED
  BY <1>4 DEF m

LEMMA MaxIs ==
    ASSUME NEW S \in SUBSET Int, NEW x \in S, \A y \in S : y <= x
    PROVE  Layers!Max(S) = x
<1>1. \E z \in S : \A y \in S : z >= y
  OBVIOUS
<1>2. Layers!Max(S) \in S /\ \A y \in S : Layers!Max(S) >= y
  BY <1>1 DEF Layers!Max
<1> DEFINE m == Layers!Max(S)
<1> HIDE DEF m
<1>3. m \in Int /\ x \in Int /\ m <= x /\ x <= m
  BY <1>2 DEF m
<1>4. m = x
  BY <1>3
<1> QED
  BY <1>4 DEF m

\* An area is for sale when it has an active listing, at the first one's price.
LEMMA SalesFacts ==
    ASSUME data.claimSales \in Seq(Listings), data.claimSales # None, NEW id, id > 0
    PROVE  /\ id \in DOMAIN Layers!ClaimSales <=> Layers!ActiveListings(id) # {}
           /\ id \in DOMAIN Layers!ClaimSales =>
                 Layers!ClaimSales[id] = data.claimSales[Layers!Min(Layers!ActiveListings(id))].price
<1> DEFINE s == data.claimSales
           Value(g, n) == IF n = 0 THEN <<>> ELSE Layers!WithListing(g[n - 1], s[n])
           Loop(N, g) == g = [n \in 0 .. N |-> Value(g, n)]
           sales == CHOOSE g : Loop(Len(s), g)
           E == {N \in Nat : \E g : Loop(N, g)}
<1>1. 0 \in E
  <2>1. Loop(0, [n \in 0 .. 0 |-> <<>>])
    OBVIOUS
  <2> HIDE DEF Loop
  <2> QED
    BY <2>1
<1>2. ASSUME NEW N \in Nat, N \in E PROVE N + 1 \in E
  <2>1. PICK g : Loop(N, g)
    BY <1>2
  <2>2. \A n \in 0 .. N : g[n] = Value(g, n)
    <3> HIDE DEF Value
    <3> QED
      BY <2>1
  <2> DEFINE h == [n \in 0 .. (N + 1) |-> IF n = N + 1 THEN Value(g, n) ELSE g[n]]
  <2>3. Loop(N + 1, h)
    <3> SUFFICES ASSUME NEW n \in 0 .. (N + 1) PROVE h[n] = Value(h, n)
      OBVIOUS
    <3>1. n # 0 => h[n - 1] = g[n - 1]
      OBVIOUS
    <3>2. Value(h, n) = Value(g, n)
      BY <3>1
    <3>3. n # N + 1 => g[n] = Value(g, n)
      BY <2>2
    <3> QED
      BY <3>2, <3>3
  <2> HIDE DEF h, Loop
  <2> QED
    BY <2>3
<1>3. Len(s) \in Nat
  OBVIOUS
<1>4. Loop(Len(s), sales)
  <2> HIDE DEF E
  <2>1. Len(s) \in E
    BY <1>1, <1>2, <1>3, Induction
  <2> HIDE DEF Loop
  <2> QED
    BY <2>1 DEF E
<1>5. Layers!ClaimSales = sales[Len(s)]
  BY DEF Layers!ClaimSales
<1> HIDE DEF sales, E
<1>6. \A n \in 0 .. Len(s) : sales[n] = Value(sales, n)
  <2> HIDE DEF Value
  <2> QED
    BY <1>4
<1> HIDE DEF Loop
<1> DEFINE Active(n) == {l \in 1 .. n : s[l] # Junk /\ s[l].areaId = id /\ s[l].status = "ACTIVE"}
           Right(n) ==
               /\ id \in DOMAIN sales[n] <=> Active(n) # {}
               /\ id \in DOMAIN sales[n] =>
                     \E l \in Active(n) :
                         /\ \A k \in Active(n) : l <= k
                         /\ sales[n][id] = s[l].price
           T == {n \in Nat : n <= Len(s) => Right(n)}
<1>7. 0 \in T
  <2>1. sales[0] = <<>>
    BY <1>6
  <2> QED
    BY <2>1
<1>8. ASSUME NEW n \in Nat, n \in T PROVE n + 1 \in T
  <2> SUFFICES ASSUME n + 1 <= Len(s) PROVE Right(n + 1)
    OBVIOUS
  <2>1. Right(n)
    <3> HIDE DEF Right
    <3> QED
      BY <1>8
  <2>2. sales[n + 1] = Layers!WithListing(sales[n], s[n + 1])
    BY <1>6
  <2> DEFINE new == s[n + 1]
             counts == new # Junk /\ new.areaId = id /\ new.status = "ACTIVE"
  <2>3. Active(n + 1) = IF counts THEN Active(n) \cup {n + 1} ELSE Active(n)
    OBVIOUS
  <2>4. Active(n) \subseteq 1 .. n
    OBVIOUS
  <2> HIDE DEF T, Active
  <2>5. CASE ~counts
    <3>1. (id \in DOMAIN sales[n + 1] <=> id \in DOMAIN sales[n])
          /\ (id \in DOMAIN sales[n] => sales[n + 1][id] = sales[n][id])
      BY <2>2, <2>5 DEF Layers!WithListing
    <3> QED
      BY <2>1, <2>3, <2>5, <3>1
  <2>6. CASE counts
    <3>1. /\ id \in DOMAIN sales[n + 1]
          /\ sales[n + 1][id] = IF id \in DOMAIN sales[n] THEN sales[n][id] ELSE new.price
      BY <2>2, <2>6 DEF Layers!WithListing
    <3>2. CASE id \in DOMAIN sales[n]
      BY <2>1, <2>3, <2>4, <2>6, <3>1, <3>2
    <3>3. CASE id \notin DOMAIN sales[n]
      <4>1. Active(n + 1) = {n + 1}
        BY <2>1, <2>3, <2>6, <3>3
      <4>2. n + 1 \in Active(n + 1) /\ \A k \in Active(n + 1) : n + 1 <= k
        BY <4>1
      <4>3. sales[n + 1][id] = s[n + 1].price
        BY <3>1, <3>3
      <4> HIDE DEF new, s
      <4> QED
        BY <3>1, <4>2, <4>3
    <3> QED
      BY <3>2, <3>3
  <2> QED
    BY <2>5, <2>6
<1>9. Right(Len(s))
  <2> HIDE DEF T
  <2>1. Len(s) \in T
    BY <1>3, <1>7, <1>8, Induction
  <2> QED
    BY <2>1, <1>3 DEF T
<1>10. Active(Len(s)) = Layers!ActiveListings(id)
  BY DEF Layers!ActiveListings
<1>11. Active(Len(s)) \in SUBSET Int
  OBVIOUS
<1> QED
  BY <1>5, <1>9, <1>10, <1>11, MinIs

\* An area is renewed when a zone has it, in the colour of the last one.
LEMMA ZonesFacts ==
    ASSUME data.renewZones \in Seq(RenewZones), data.renewZones # None, NEW id, id > 0
    PROVE  /\ id \in DOMAIN Layers!CachedRenewZones <=> Layers!ZonesOf(id) # {}
           /\ id \in DOMAIN Layers!CachedRenewZones =>
                 Layers!CachedRenewZones[id].colour = data.renewZones[Layers!Max(Layers!ZonesOf(id))].colour
<1> DEFINE s == data.renewZones
           Value(g, n) == IF n = 0 THEN <<>> ELSE Layers!WithZone(g[n - 1], s[n])
           Loop(N, g) == g = [n \in 0 .. N |-> Value(g, n)]
           zones == CHOOSE g : Loop(Len(s), g)
           E == {N \in Nat : \E g : Loop(N, g)}
<1>1. 0 \in E
  <2>1. Loop(0, [n \in 0 .. 0 |-> <<>>])
    OBVIOUS
  <2> HIDE DEF Loop
  <2> QED
    BY <2>1
<1>2. ASSUME NEW N \in Nat, N \in E PROVE N + 1 \in E
  <2>1. PICK g : Loop(N, g)
    BY <1>2
  <2>2. \A n \in 0 .. N : g[n] = Value(g, n)
    <3> HIDE DEF Value
    <3> QED
      BY <2>1
  <2> DEFINE h == [n \in 0 .. (N + 1) |-> IF n = N + 1 THEN Value(g, n) ELSE g[n]]
  <2>3. Loop(N + 1, h)
    <3> SUFFICES ASSUME NEW n \in 0 .. (N + 1) PROVE h[n] = Value(h, n)
      OBVIOUS
    <3>1. n # 0 => h[n - 1] = g[n - 1]
      OBVIOUS
    <3>2. Value(h, n) = Value(g, n)
      BY <3>1
    <3>3. n # N + 1 => g[n] = Value(g, n)
      BY <2>2
    <3> QED
      BY <3>2, <3>3
  <2> HIDE DEF h, Loop
  <2> QED
    BY <2>3
<1>3. Len(s) \in Nat
  OBVIOUS
<1>4. Loop(Len(s), zones)
  <2> HIDE DEF E
  <2>1. Len(s) \in E
    BY <1>1, <1>2, <1>3, Induction
  <2> HIDE DEF Loop
  <2> QED
    BY <2>1 DEF E
<1>5. Layers!CachedRenewZones = zones[Len(s)]
  BY DEF Layers!CachedRenewZones
<1> HIDE DEF zones, E
<1>6. \A n \in 0 .. Len(s) : zones[n] = Value(zones, n)
  <2> HIDE DEF Value
  <2> QED
    BY <1>4
<1> HIDE DEF Loop
<1> DEFINE Naming(n) == {l \in 1 .. n : s[l] # Junk /\ s[l].areaId = id}
           Right(n) ==
               /\ id \in DOMAIN zones[n] <=> Naming(n) # {}
               /\ id \in DOMAIN zones[n] =>
                     \E l \in Naming(n) :
                         /\ \A k \in Naming(n) : k <= l
                         /\ zones[n][id].colour = s[l].colour
           T == {n \in Nat : n <= Len(s) => Right(n)}
<1>7. 0 \in T
  <2>1. zones[0] = <<>>
    BY <1>6
  <2> QED
    BY <2>1
<1>8. ASSUME NEW n \in Nat, n \in T PROVE n + 1 \in T
  <2> SUFFICES ASSUME n + 1 <= Len(s) PROVE Right(n + 1)
    OBVIOUS
  <2>1. Right(n)
    <3> HIDE DEF Right
    <3> QED
      BY <1>8
  <2>2. zones[n + 1] = Layers!WithZone(zones[n], s[n + 1])
    BY <1>6
  <2> DEFINE new == s[n + 1]
             counts == new # Junk /\ new.areaId = id
  <2>3. Naming(n + 1) = IF counts THEN Naming(n) \cup {n + 1} ELSE Naming(n)
    OBVIOUS
  <2>4. Naming(n) \subseteq 1 .. n
    OBVIOUS
  <2> HIDE DEF T, Naming
  <2>5. CASE ~counts
    <3>1. (id \in DOMAIN zones[n + 1] <=> id \in DOMAIN zones[n])
          /\ (id \in DOMAIN zones[n] => zones[n + 1][id] = zones[n][id])
      BY <2>2, <2>5 DEF Layers!WithZone
    <3> QED
      BY <2>1, <2>3, <2>5, <3>1
  <2>6. CASE counts
    <3>1. id \in DOMAIN zones[n + 1] /\ zones[n + 1][id].colour = new.colour
      BY <2>2, <2>6 DEF Layers!WithZone
    <3>2. n + 1 \in Naming(n + 1) /\ \A k \in Naming(n + 1) : k <= n + 1
      BY <2>3, <2>4, <2>6
    <3> HIDE DEF s
    <3> QED
      BY <3>1, <3>2
  <2> QED
    BY <2>5, <2>6
<1>9. Right(Len(s))
  <2> HIDE DEF T
  <2>1. Len(s) \in T
    BY <1>3, <1>7, <1>8, Induction
  <2> QED
    BY <2>1, <1>3 DEF T
<1>10. Naming(Len(s)) = Layers!ZonesOf(id)
  BY DEF Layers!ZonesOf
<1>11. Naming(Len(s)) \in SUBSET Int
  OBVIOUS
<1> QED
  BY <1>5, <1>9, <1>10, <1>11, MaxIs

\* The colour of a permission is that of one of the kinds.
LEMMA PermissionColours ==
    ASSUME NEW settings, NEW permission
    PROVE  Layers!PermissionColour(settings, permission)
               \in {Layers!Colour(settings, k) : k \in Layers!ToSet(Layers!Kinds)}
<1> DEFINE I == {i \in 1 .. Len(Layers!Kinds) :
                    Layers!PermissionOf(settings, Layers!Kinds[i]) = permission}
           last == IF I # {} THEN Layers!Max(I) ELSE 0
<1>1. Len(Layers!Kinds) = 3 /\ Layers!ToSet(Layers!Kinds) = {"renew", "leasehold", "default"}
  BY DEF Layers!Kinds, Layers!ToSet
<1>2. \A i \in 1 .. 3 : Layers!Kinds[i] \in {"renew", "leasehold", "default"}
  BY DEF Layers!Kinds
<1>3. Layers!PermissionColour(settings, permission)
        = Layers!Colour(settings, IF last = 0 THEN "default" ELSE Layers!Kinds[last])
  BY DEF Layers!PermissionColour, Layers!SelectLastInSeq
<1>4. last \in 0 .. 3
  <2>1. CASE I = {}
    BY <2>1
  <2>2. CASE I # {}
    <3>1. \E x \in I : \A y \in I : x >= y
      BY <1>1, <2>2
    <3> HIDE DEF I
    <3>2. Layers!Max(I) \in I
      BY <3>1 DEF Layers!Max
    <3> QED
      BY <1>1, <2>2, <3>2 DEF I
  <2> QED
    BY <2>1, <2>2
<1> HIDE DEF last
<1> QED
  BY <1>1, <1>2, <1>3, <1>4

\* Half a block at most is lost where an area begins, nothing where it ends.
LEMMA RoundingCovers ==
    ASSUME NEW from \in Int, NEW to \in Int
    PROVE  /\ 4 * Layers!Round(from) <= from + 2
           /\ 4 * (Layers!Round(from) + Layers!Extent(from, to)) >= to
BY DEF Layers!Round, Layers!Extent, Layers!Ceil

\* A claim is what its area, the listings and the zones of the entry say.
LEMMA ClaimsFit == LayersInv => ClaimsAsPromised
<1> SUFFICES ASSUME LayersInv, Layers!MapClaims # None, NEW i \in DOMAIN Layers!MapClaims
             PROVE  \E a \in Layers!ToSet(Layers!Items(data.worldAreas.areas)) :
                       LET c == Layers!MapClaims[i]
                           settings == data.worldAreas.settings
                           zone == data.renewZones[Layers!Max(Layers!ZonesOf(c.areaId))]
                       IN  /\ c.areaId = a.id
                           /\ 4 * c.minX <= a.x[1] + 2 /\ 4 * (c.minX + c.width) >= a.x[2]
                           /\ 4 * c.minZ <= a.z[1] + 2 /\ 4 * (c.minZ + c.depth) >= a.z[2]
                           /\ c.renewZone <=> Layers!ZonesOf(c.areaId) # {}
                           /\ IF Layers!ActiveListings(c.areaId) # {}
                              THEN /\ c.salePrice = data.claimSales[Layers!Min(Layers!ActiveListings(c.areaId))].price
                                   /\ c.colour = Layers!Colour(settings, "sale")
                              ELSE /\ c.salePrice = None
                                   /\ c.renewZone /\ zone.colour # None => c.colour = zone.colour
                                   /\ ~c.renewZone => c.colour \in {Layers!Colour(settings, k) : k \in Layers!ToSet(Layers!Kinds)}
  BY DEF ClaimsAsPromised, Layers!ClaimsAsPromised
<1> DEFINE c == Layers!MapClaims[i]
           settings == data.worldAreas.settings
<1>1. PICK a \in Areas \ {Junk} :
         /\ a \in Layers!ToSet(Layers!Items(data.worldAreas.areas))
         /\ Layers!Shown(a, settings)
         /\ c = Layers!ClaimOf(a, settings)
  BY ClaimOfArea
<1>2. a.id > 0
  BY <1>1 DEF Layers!Shown
<1> DEFINE sales == Layers!SalesOrNone
           zones == Layers!ZonesOrNone
           forSale == a.id \in DOMAIN sales
           renewed == a.id \in DOMAIN zones
           ownColour == Layers!PermissionColour(settings, a.permission)
<1>3. /\ c.areaId = a.id
      /\ c.minX = Layers!Round(a.x[1]) /\ c.width = Layers!Extent(a.x[1], a.x[2])
      /\ c.minZ = Layers!Round(a.z[1]) /\ c.depth = Layers!Extent(a.z[1], a.z[2])
      /\ c.colour = CASE forSale -> Layers!Colour(settings, "sale")
                      [] ~forSale /\ renewed ->
                            IF zones[a.id].colour = None THEN ownColour ELSE zones[a.id].colour
                      [] OTHER -> ownColour
      /\ c.salePrice = IF forSale THEN sales[a.id] ELSE None
      /\ c.renewZone = renewed
  BY <1>1 DEF Layers!ClaimOf
<1> HIDE DEF c, settings, ownColour
<1>4. /\ forSale <=> Layers!ActiveListings(a.id) # {}
      /\ forSale => sales[a.id] = data.claimSales[Layers!Min(Layers!ActiveListings(a.id))].price
  <2>1. CASE data.claimSales = None
    <3>1. DOMAIN sales = {} /\ Layers!ActiveListings(a.id) = {}
      BY <2>1 DEF Layers!SalesOrNone, Layers!ActiveListings
    <3> QED
      BY <3>1
  <2>2. CASE data.claimSales # None
    <3>1. sales = Layers!ClaimSales
      BY <2>2 DEF Layers!SalesOrNone
    <3> QED
      BY <1>2, <2>2, <3>1, SalesFacts DEF LayersInv, PayloadsTyped
  <2> QED
    BY <2>1, <2>2
<1>5. /\ renewed <=> Layers!ZonesOf(a.id) # {}
      /\ renewed => zones[a.id].colour = data.renewZones[Layers!Max(Layers!ZonesOf(a.id))].colour
  <2>1. CASE data.renewZones = None
    <3>1. DOMAIN zones = {} /\ Layers!ZonesOf(a.id) = {}
      BY <2>1 DEF Layers!ZonesOrNone, Layers!ZonesOf
    <3> QED
      BY <3>1
  <2>2. CASE data.renewZones # None
    <3>1. zones = Layers!CachedRenewZones
      BY <2>2 DEF Layers!ZonesOrNone
    <3> QED
      BY <1>2, <2>2, <3>1, ZonesFacts DEF LayersInv, PayloadsTyped
  <2> QED
    BY <2>1, <2>2
<1>6. /\ 4 * c.minX <= a.x[1] + 2 /\ 4 * (c.minX + c.width) >= a.x[2]
      /\ 4 * c.minZ <= a.z[1] + 2 /\ 4 * (c.minZ + c.depth) >= a.z[2]
  <2>1. a.x[1] \in Int /\ a.x[2] \in Int /\ a.z[1] \in Int /\ a.z[2] \in Int
    BY MapDataAssumption DEF MapDataAssumption
  <2> QED
    BY <1>3, <2>1, RoundingCovers
<1>7. c.renewZone <=> Layers!ZonesOf(c.areaId) # {}
  BY <1>3, <1>5
<1>8. CASE Layers!ActiveListings(c.areaId) # {}
  <2>1. /\ c.salePrice = data.claimSales[Layers!Min(Layers!ActiveListings(c.areaId))].price
        /\ c.colour = Layers!Colour(settings, "sale")
    BY <1>3, <1>4, <1>8
  <2> QED
    BY <1>1, <1>3, <1>6, <1>7, <1>8, <2>1 DEF c, settings
<1>9. CASE Layers!ActiveListings(c.areaId) = {}
  <2>1. ~forSale /\ c.salePrice = None
    BY <1>3, <1>4, <1>9
  <2>2. c.renewZone => zones[a.id].colour
                         = data.renewZones[Layers!Max(Layers!ZonesOf(c.areaId))].colour
    BY <1>3, <1>5
  <2>3. c.renewZone /\ data.renewZones[Layers!Max(Layers!ZonesOf(c.areaId))].colour # None
          => c.colour = data.renewZones[Layers!Max(Layers!ZonesOf(c.areaId))].colour
    BY <1>3, <2>1, <2>2
  <2>4. ~c.renewZone => c.colour \in {Layers!Colour(settings, k) : k \in Layers!ToSet(Layers!Kinds)}
    BY <1>3, <2>1, PermissionColours DEF ownColour
  <2> QED
    BY <1>1, <1>3, <1>6, <1>7, <1>9, <2>1, <2>3, <2>4 DEF c, settings
<1> QED
  BY <1>8, <1>9

\* Whatever payloads a refresh reads, claims have the sales, renewal zones and
\* colours they promise, and cover their areas.
THEOREM ClaimsKeepPromise == SpecData => []ClaimsAsPromised
BY LayersInvariance, ClaimsFit, PTL

-----------------------------------------------------------------------------
\* Next to the cache and the layers, the feed keeps all it promises.
THEOREM FeedNextToCache ==
    SpecData => [](TypeOK /\ OneLoopPerServer /\ LoopsMatchSubscribers) /\ ClientStaysInSync
<1>1. InitData => Init
  BY DEF InitData
<1>2. [NextData]_dataVars => [Next]_vars
  BY DEF NextData, FeedMoves, CacheMoves, LayersMove, dataVars
<1>3. SpecData => Spec
  BY <1>1, <1>2, PTL DEF SpecData, Spec
<1> QED
  BY <1>3, TypeCorrect, OneLoop, LoopsServeSubscribers, SyncIsKept, PTL

-----------------------------------------------------------------------------
(* The cache.                                                               *)

Refreshing ==
    [step : {"idle", "lists", "routes", "areaOffers", "globalOffers", "read", "infoSaved",
             "found", "playersSaved"},
     awaits : SUBSET {"pluginlist", "playerlist", "noPlugins"},
     current : BOOLEAN, seen : BOOLEAN, info : BOOLEAN, found : BOOLEAN]

CacheTypes ==
    /\ entry \in {None} \cup [current : BOOLEAN, age : {"new", "old", "expired"}]
    /\ record \in BOOLEAN
    /\ refresh \in [Refreshes -> Refreshing]
    /\ settled \in BOOLEAN

\* A refresh goes on with the routes when both lists have come.
ListsFirst == \A r \in Refreshes : refresh[r].step # "lists" => refresh[r].awaits = {}

CacheInv == CacheTypes /\ ListsFirst

LEMMA CacheInit == Cache!Init => CacheInv
<1>1. Cache!Idle \in Refreshing /\ Cache!Idle.awaits = {}
  BY DEF Cache!Idle, Refreshing
<1> QED
  BY <1>1 DEF Cache!Init, CacheInv, CacheTypes, ListsFirst

\* A refresh that will set the entry has read what the server would answer now;
\* one that got no list of plugins will not set it.
WillBeCurrent(r) ==
    \/ refresh[r].step = "idle"
    \/ refresh[r].current
    \/ "noPlugins" \in refresh[r].awaits

UpToDate ==
    /\ entry = None \/ entry.current
    /\ \A r \in Refreshes : WillBeCurrent(r)

StaysUpToDate == settled /\ UpToDate => UpToDate'

\* A refresh that becomes f.
LEMMA RefreshBecomes ==
    ASSUME CacheInv, NEW r \in Refreshes, NEW f \in Refreshing,
           refresh' = [refresh EXCEPT ![r] = f],
           f.step # "lists" => f.awaits = {},
           settled /\ UpToDate => f.step = "idle" \/ f.current \/ "noPlugins" \in f.awaits
    PROVE  /\ refresh' \in [Refreshes -> Refreshing]
           /\ ListsFirst'
           /\ settled /\ UpToDate => \A q \in Refreshes : WillBeCurrent(q)'
BY DEF CacheInv, CacheTypes, ListsFirst, UpToDate, WillBeCurrent

\* A refresh that becomes f, and perhaps sets the entry to what it has read.
LEMMA RefreshGoes ==
    ASSUME CacheInv, NEW r \in Refreshes, NEW f \in Refreshing,
           refresh' = [refresh EXCEPT ![r] = f],
           f.step # "lists" => f.awaits = {},
           settled /\ WillBeCurrent(r)
              => f.step = "idle" \/ f.current \/ "noPlugins" \in f.awaits,
           \/ entry' = entry
           \/ /\ entry' = [current |-> refresh[r].current, age |-> "new"]
              /\ refresh[r].step \notin {"idle", "lists"},
           record' \in BOOLEAN, settled' = settled
    PROVE  CacheInv' /\ StaysUpToDate
<1>1. refresh[r] \in Refreshing
  BY DEF CacheInv, CacheTypes
<1>2. /\ refresh' \in [Refreshes -> Refreshing]
      /\ ListsFirst'
      /\ settled /\ UpToDate => \A q \in Refreshes : WillBeCurrent(q)'
  BY RefreshBecomes DEF UpToDate
<1>3. entry' \in {None} \cup [current : BOOLEAN, age : {"new", "old", "expired"}]
  BY <1>1 DEF CacheInv, CacheTypes, Refreshing
<1>4. UpToDate => entry' = None \/ entry'.current
  <2>1. CASE entry' = entry
    BY <2>1 DEF UpToDate
  <2>2. CASE entry' = [current |-> refresh[r].current, age |-> "new"]
             /\ refresh[r].step \notin {"idle", "lists"}
    BY <2>2 DEF UpToDate, WillBeCurrent, CacheInv, ListsFirst
  <2> QED
    BY <2>1, <2>2
<1> QED
  BY <1>2, <1>3, <1>4 DEF CacheInv, CacheTypes, StaysUpToDate, UpToDate

\* The step of a refresh that has its lists.
LEMMA RefreshGoesOn ==
    ASSUME CacheInv, NEW r \in Refreshes, NEW f \in Refreshing,
           refresh' = [refresh EXCEPT ![r] = f],
           refresh[r].step # "idle", refresh[r].awaits = {}, f.awaits = {},
           settled /\ refresh[r].current => f.current,
           entry' = entry, record' \in BOOLEAN, settled' = settled
    PROVE  CacheInv' /\ StaysUpToDate
BY RefreshGoes DEF WillBeCurrent

\* The step of one refresh.
LEMMA RefreshStep ==
    ASSUME CacheInv, NEW r \in Refreshes, Cache!Proceeds(r)
    PROVE  CacheInv' /\ StaysUpToDate
<1>1. refresh \in [Refreshes -> Refreshing] /\ refresh[r] \in Refreshing
  BY DEF CacheInv, CacheTypes
<1>2. Cache!Idle \in Refreshing /\ Cache!Idle.awaits = {} /\ Cache!Idle.step = "idle"
  BY DEF Cache!Idle, Refreshing
<1>3. refresh[r].step # "lists" => refresh[r].awaits = {}
  BY DEF CacheInv, ListsFirst
<1>4. record \in BOOLEAN
  BY DEF CacheInv, CacheTypes
<1>5. ASSUME NEW list \in {"pluginlist", "playerlist"}, NEW ok \in BOOLEAN,
             Cache!ListAnswers(r, list, ok)
      PROVE  CacheInv' /\ StaysUpToDate
  <2> DEFINE f == [refresh[r] EXCEPT
                     !.awaits = (@ \ {list}) \cup (IF ok THEN {} ELSE Cache!Without(list)),
                     !.current = @ /\ ok]
  <2>1. refresh' = [refresh EXCEPT ![r] = f]
    BY <1>1, <1>5 DEF Cache!ListAnswers
  <2>2. f \in Refreshing
    BY <1>1 DEF Refreshing, Cache!Without
  <2>3. f.step = refresh[r].step /\ f.step = "lists"
    BY <1>1, <1>5 DEF Cache!ListAnswers, Refreshing
  <2>4. settled => ok
    BY <1>5 DEF Cache!ListAnswers
  <2>5. ok /\ refresh[r].current => f.current
    BY <1>1 DEF Refreshing
  <2>6. "noPlugins" \in refresh[r].awaits => "noPlugins" \in f.awaits
    BY <1>1 DEF Refreshing
  <2>7. UNCHANGED <<entry, record, settled>>
    BY <1>5 DEF Cache!ListAnswers
  <2> HIDE DEF f
  <2>8. WillBeCurrent(r) /\ settled => f.step = "idle" \/ f.current \/ "noPlugins" \in f.awaits
    BY <2>3, <2>4, <2>5, <2>6 DEF WillBeCurrent
  <2> QED
    BY <1>4, <2>1, <2>2, <2>3, <2>7, <2>8, RefreshGoes
<1>6. ASSUME NEW ok \in BOOLEAN, Cache!Routes(r, ok)
      PROVE  CacheInv' /\ StaysUpToDate
  <2> DEFINE f == [refresh[r] EXCEPT !.step = "areaOffers", !.current = @ /\ ok, !.info = ok]
  <2>1. refresh' = [refresh EXCEPT ![r] = f]
    BY <1>1, <1>6 DEF Cache!Routes
  <2>2. /\ refresh[r].step # "idle" /\ refresh[r].awaits = {}
        /\ entry' = entry /\ record' \in BOOLEAN /\ settled' = settled /\ (settled => ok)
    BY <1>1, <1>3, <1>4, <1>6 DEF Cache!Routes, Refreshing
  <2>3. f \in Refreshing
    BY <1>1, <1>4 DEF Refreshing
  <2>4. f.awaits = refresh[r].awaits /\ (f.current <=> refresh[r].current /\ ok)
    BY <1>1 DEF Refreshing
  <2> HIDE DEF f
  <2> QED
    BY <2>1, <2>2, <2>3, <2>4, RefreshGoesOn
<1>7. ASSUME NEW ok \in BOOLEAN, Cache!Offers(r, ok)
      PROVE  CacheInv' /\ StaysUpToDate
  <2> DEFINE f == [refresh[r] EXCEPT !.step = IF @ = "areaOffers" THEN "globalOffers" ELSE "read",
                                    !.current = @ /\ ok]
  <2>1. refresh' = [refresh EXCEPT ![r] = f]
    BY <1>1, <1>7 DEF Cache!Offers
  <2>2. /\ refresh[r].step # "idle" /\ refresh[r].awaits = {}
        /\ entry' = entry /\ record' \in BOOLEAN /\ settled' = settled /\ (settled => ok)
    BY <1>1, <1>3, <1>4, <1>7 DEF Cache!Offers, Refreshing
  <2>3. f \in Refreshing
    BY <1>1, <1>4 DEF Refreshing
  <2>4. f.awaits = refresh[r].awaits /\ (f.current <=> refresh[r].current /\ ok)
    BY <1>1 DEF Refreshing
  <2> HIDE DEF f
  <2> QED
    BY <2>1, <2>2, <2>3, <2>4, RefreshGoesOn
<1>8. CASE Cache!Lists(r)
  <2> DEFINE f == [refresh[r] EXCEPT !.step = "routes"]
  <2>1. refresh' = [refresh EXCEPT ![r] = f]
    BY <1>1, <1>8 DEF Cache!Lists
  <2>2. /\ refresh[r].step # "idle" /\ refresh[r].awaits = {}
        /\ entry' = entry /\ record' \in BOOLEAN /\ settled' = settled
    BY <1>1, <1>3, <1>4, <1>8 DEF Cache!Lists, Refreshing
  <2>3. f \in Refreshing
    BY <1>1, <1>4 DEF Refreshing
  <2>4. f.awaits = refresh[r].awaits /\ (f.current <=> refresh[r].current)
    BY <1>1 DEF Refreshing
  <2> HIDE DEF f
  <2> QED
    BY <2>1, <2>2, <2>3, <2>4, RefreshGoesOn
<1>9. CASE Cache!SaveInfo(r) \/ Cache!KeepInfo(r)
  <2> DEFINE f == [refresh[r] EXCEPT !.step = "infoSaved", !.seen = FALSE, !.info = FALSE]
  <2>1. refresh' = [refresh EXCEPT ![r] = f]
    BY <1>1, <1>9 DEF Cache!SaveInfo, Cache!KeepInfo, Cache!InfoDone
  <2>2. /\ refresh[r].step # "idle" /\ refresh[r].awaits = {}
        /\ entry' = entry /\ record' \in BOOLEAN /\ settled' = settled
    BY <1>1, <1>3, <1>4, <1>9 DEF Cache!SaveInfo, Cache!KeepInfo, Cache!InfoDone, Refreshing
  <2>3. f \in Refreshing
    BY <1>1, <1>4 DEF Refreshing
  <2>4. f.awaits = refresh[r].awaits /\ (f.current <=> refresh[r].current)
    BY <1>1 DEF Refreshing
  <2> HIDE DEF f
  <2> QED
    BY <2>1, <2>2, <2>3, <2>4, RefreshGoesOn
<1>10. CASE Cache!FindPlayers(r)
  <2> DEFINE f == [refresh[r] EXCEPT !.step = "found", !.found = record]
  <2>1. refresh' = [refresh EXCEPT ![r] = f]
    BY <1>1, <1>10 DEF Cache!FindPlayers
  <2>2. /\ refresh[r].step # "idle" /\ refresh[r].awaits = {}
        /\ entry' = entry /\ record' \in BOOLEAN /\ settled' = settled
    BY <1>1, <1>3, <1>4, <1>10 DEF Cache!FindPlayers, Refreshing
  <2>3. f \in Refreshing
    BY <1>1, <1>4 DEF Refreshing
  <2>4. f.awaits = refresh[r].awaits /\ (f.current <=> refresh[r].current)
    BY <1>1 DEF Refreshing
  <2> HIDE DEF f
  <2> QED
    BY <2>1, <2>2, <2>3, <2>4, RefreshGoesOn
<1>11. CASE Cache!SavePlayers(r)
  <2> DEFINE f == [refresh[r] EXCEPT !.step = "playersSaved", !.found = FALSE]
  <2>1. refresh' = [refresh EXCEPT ![r] = f]
    BY <1>1, <1>11 DEF Cache!SavePlayers
  <2>2. /\ refresh[r].step # "idle" /\ refresh[r].awaits = {}
        /\ entry' = entry /\ record' \in BOOLEAN /\ settled' = settled
    BY <1>1, <1>3, <1>4, <1>11 DEF Cache!SavePlayers, Refreshing
  <2>3. f \in Refreshing
    BY <1>1, <1>4 DEF Refreshing
  <2>4. f.awaits = refresh[r].awaits /\ (f.current <=> refresh[r].current)
    BY <1>1 DEF Refreshing
  <2> HIDE DEF f
  <2> QED
    BY <2>1, <2>2, <2>3, <2>4, RefreshGoesOn
<1>12. CASE Cache!Skip(r) \/ Cache!SaveFails(r) \/ Cache!SetEntry(r)
  <2>1. /\ refresh' = [refresh EXCEPT ![r] = Cache!Idle]
        /\ record' = record /\ settled' = settled
    BY <1>12 DEF Cache!Skip, Cache!SaveFails, Cache!SetEntry
  <2>2. \/ entry' = entry
        \/ /\ entry' = [current |-> refresh[r].current, age |-> "new"]
           /\ refresh[r].step \notin {"idle", "lists"}
    BY <1>12 DEF Cache!Skip, Cache!SaveFails, Cache!SetEntry, Cache!NewEntry
  <2> QED
    BY <1>2, <1>4, <2>1, <2>2, RefreshGoes
<1> QED
  BY <1>5, <1>6, <1>7, <1>8, <1>9, <1>10, <1>11, <1>12 DEF Cache!Proceeds

LEMMA CacheStep ==
    ASSUME CacheInv, [NextData]_dataVars
    PROVE  CacheInv' /\ StaysUpToDate
<1> USE DEF CacheInv, CacheTypes, ListsFirst, Refreshing, StaysUpToDate, UpToDate, WillBeCurrent
<1>1. ASSUME NEW r \in Refreshes, Cache!Started(r)
      PROVE  /\ refresh' \in [Refreshes -> Refreshing]
             /\ ListsFirst'
             /\ \A q \in Refreshes : WillBeCurrent(q) => WillBeCurrent(q)'
  BY <1>1 DEF Cache!Started, Cache!Idle
<1>2. Cache!Looked \in {None, entry}
  BY DEF Cache!Looked
<1>3. ASSUME NEW r \in Refreshes, Cache!LoopRefreshes(r)
      PROVE  CacheInv' /\ StaysUpToDate
  BY <1>1, <1>3 DEF Cache!LoopRefreshes
<1>4. ASSUME NEW r \in Refreshes, NEW limited \in BOOLEAN, Cache!EnsureRefreshes(r, limited)
      PROVE  CacheInv' /\ StaysUpToDate
  BY <1>1, <1>2, <1>4 DEF Cache!EnsureRefreshes
<1>5. CASE Cache!Look
  BY <1>2, <1>5 DEF Cache!Look
<1>6. CASE Cache!Age
  BY <1>6 DEF Cache!Age, Cache!Ages, Cache!Unexpired
<1>7. CASE Cache!GameChanges
  <2> DEFINE f(r) == [refresh[r] EXCEPT !.current = FALSE, !.seen = FALSE, !.info = FALSE,
                                       !.found = FALSE]
  <2>1. ASSUME NEW r \in Refreshes
        PROVE  refresh'[r] \in Refreshing /\ (refresh'[r].step # "lists" => refresh'[r].awaits = {})
    <3>1. refresh[r] \in Refreshing
      OBVIOUS
    <3>2. f(r) \in Refreshing /\ f(r).step = refresh[r].step /\ f(r).awaits = refresh[r].awaits
      BY <3>1
    <3>3. Cache!Idle \in Refreshing /\ Cache!Idle.awaits = {}
      BY DEF Cache!Idle
    <3> HIDE DEF f
    <3>4. refresh'[r] \in {Cache!Idle, f(r)}
      BY <1>7 DEF Cache!GameChanges, f
    <3> QED
      BY <3>2, <3>3, <3>4
  <2>2. refresh' = [r \in Refreshes |-> refresh'[r]]
    BY <1>7 DEF Cache!GameChanges
  <2> HIDE DEF f
  <2>3. entry' \in {None} \cup [current : BOOLEAN, age : {"new", "old", "expired"}]
    BY <1>7 DEF Cache!GameChanges
  <2> QED
    BY <1>7, <2>1, <2>2, <2>3 DEF Cache!GameChanges
<1>8. CASE Cache!Settles
  BY <1>8 DEF Cache!Settles
<1>9. CASE UNCHANGED cacheVars
  BY <1>9 DEF cacheVars
<1>10. CASE Cache!Next
  BY <1>3, <1>4, <1>5, <1>6, <1>7, <1>8, <1>10, RefreshStep DEF Cache!Next
<1> QED
  BY <1>9, <1>10 DEF NextData, FeedMoves, CacheMoves, LayersMove, dataVars

\* Once requests succeed and the data at the game server stays as it is, what
\* readers get stays up to date, whichever of the refreshes that overlap ends
\* last: the safety half of CacheCatchesUp.
THEOREM CacheStaysCurrent == SpecData => []CacheInv /\ [][StaysUpToDate]_dataVars
<1>1. InitData => CacheInv
  BY CacheInit DEF InitData
<1>2. CacheInv /\ [NextData]_dataVars => CacheInv' /\ StaysUpToDate
  BY CacheStep
<1> QED
  BY <1>1, <1>2, PTL DEF SpecData
=============================================================================
