--------------------------- MODULE StatusFeedProofs ---------------------------
(***************************************************************************)
(* Proofs about StatusFeed, for any number of clients, fields, statuses    *)
(* and bounds: it implements StatusBoard.  The last part is about the      *)
(* requests to plugin routes beside it (StatusRequests, NativeRequests),   *)
(* for any number of calls and credentials.                                *)
(*                                                                         *)
(* The statuses a client shows one after the other, from the one it shows  *)
(* now to the one after the last frame on its way, are a trail.  Each step *)
(* of a client's trail is what it does with the next frame, each status in *)
(* it was on the record or published, and it ends with the status the      *)
(* backend believes the client shows.                                      *)
(***************************************************************************)
EXTENDS StatusRequests, WellFoundedInduction, TLAPS

Shows == Statuses \cup {None}

Frame ==
    {SnapshotFrame(v) : v \in Shows} \cup {Changes(p[1], p[2]) : p \in Statuses \X Statuses}

Buffered == frames \in [Clients -> Seq(Frame)]

\* Whatever a client gets to see was on the record or is published.
WasKnown ==
    /\ stored \in recorded
    /\ \A record \in recorded : Response(record) \in known
    /\ \A w \in Writers : pending[w] \in known \cup {None}
    /\ \A c \in Clients :
          /\ request[c] # None => request[c].value \in known \cup {None}
          /\ subscriber[c] \in known \cup {None}

Unconnected ==
    \A c \in Clients : sock[c] = "none" =>
        request[c] = None /\ subscriber[c] = None /\ frames[c] = <<>> /\ view[c] = None

IsTrail(c, t) ==
    /\ t[0] = view[c]
    /\ \A i \in 1 .. Len(frames[c]) : t[i] = Apply(t[i - 1], frames[c][i])
    /\ sock[c] = "open" => t[Len(frames[c])] = subscriber[c]

HasTrail(c) == \E t \in [0 .. Len(frames[c]) -> known \cup {None}] : IsTrail(c, t)

IInv ==
    /\ TypeOK
    /\ Buffered
    /\ WasKnown
    /\ Unconnected
    /\ \A c \in Clients : HasTrail(c)

-----------------------------------------------------------------------------
(* Frames.                                                                  *)

LEMMA StatusFunctions ==
    ASSUME NEW s \in Statuses
    PROVE  s # None /\ s = [f \in Fields |-> s[f]]
BY FeedAssumption DEF Statuses

LEMMA ResponseType ==
    ASSUME NEW s \in Statuses
    PROVE  Response(s) \in Statuses
BY DEF Response, Statuses, Values, Fields

\* Changes that are sent make the new status of the old one.
LEMMA ApplyChanges ==
    ASSUME NEW old \in Statuses, NEW new \in Statuses
    PROVE  Apply(old, Changes(old, new)) = new
<1> DEFINE delta == Changes(old, new)
<1>1. /\ delta.kind = "changed"
      /\ delta.value = [f \in {g \in Fields : new[g] # None /\ new[g] # old[g]} |-> new[f]]
      /\ delta.removed = {f \in Fields : new[f] = None /\ old[f] # None}
  BY DEF Changes, RemovedFields
<1>2. old # None
  BY StatusFunctions
<1>3. Apply(old, delta) = [f \in Fields |-> IF f \in DOMAIN delta.value THEN delta.value[f]
                                            ELSE IF f \in delta.removed THEN None ELSE old[f]]
  BY <1>1, <1>2 DEF Apply
<1>4. ASSUME NEW f \in Fields
      PROVE  Apply(old, delta)[f] = new[f]
  <2>1. CASE f \in DOMAIN delta.value
    BY <1>1, <1>3, <2>1
  <2>2. CASE f \notin DOMAIN delta.value
    BY <1>1, <1>3, <2>2
  <2> QED
    BY <2>1, <2>2
<1>5. new = [f \in Fields |-> new[f]]
  BY StatusFunctions
<1>6. Apply(old, delta) = [f \in Fields |-> Apply(old, delta)[f]]
  BY <1>3, Zenon
<1>7. Apply(old, delta) = new
  <2> HIDE DEF delta
  <2> QED
    BY <1>4, <1>5, <1>6
<1> QED
  BY <1>7

\* Nothing is sent only when nothing has changed.
LEMMA EmptyChanges ==
    ASSUME NEW old \in Statuses, NEW new \in Statuses, IsEmpty(Changes(old, new))
    PROVE  old = new
<1>1. {g \in Fields : new[g] # None /\ new[g] # old[g]} = {}
  BY DEF IsEmpty, Changes
<1>2. {f \in Fields : new[f] = None /\ old[f] # None} = {}
  BY DEF IsEmpty, Changes, RemovedFields
<1>3. \A f \in Fields : old[f] = new[f]
  BY <1>1, <1>2
<1>4. old = [f \in Fields |-> old[f]] /\ new = [f \in Fields |-> new[f]]
  BY StatusFunctions
<1> QED
  BY <1>3, <1>4

\* A client with a trail that is not changed, while known grows.
LEMMA TrailStays ==
    ASSUME NEW c \in Clients, HasTrail(c), known \subseteq known',
           view'[c] = view[c], frames'[c] = frames[c],
           sock'[c] = "open" => sock[c] = "open" /\ subscriber'[c] = subscriber[c]
    PROVE  HasTrail(c)'
<1>1. PICK t \in [0 .. Len(frames[c]) -> known \cup {None}] : IsTrail(c, t)
  BY DEF HasTrail
<1>2. t \in [0 .. Len(frames'[c]) -> known' \cup {None}]
  BY <1>1
<1>3. IsTrail(c, t)'
  BY <1>1 DEF IsTrail
<1> QED
  BY <1>2, <1>3 DEF HasTrail

\* A client to which a frame is sent that brings it to the new subscriber[c].
LEMMA TrailGrows ==
    ASSUME NEW c \in Clients, HasTrail(c), frames[c] \in Seq(Frame), NEW f \in Frame,
           known \subseteq known', view'[c] = view[c], sock[c] = "open",
           frames'[c] = Append(frames[c], f),
           subscriber'[c] = Apply(subscriber[c], f), subscriber'[c] \in known' \cup {None}
    PROVE  HasTrail(c)'
<1> DEFINE n == Len(frames[c])
<1>1. PICK t \in [0 .. n -> known \cup {None}] : IsTrail(c, t)
  BY DEF HasTrail
<1> PICK u : u = [i \in 0 .. n + 1 |-> IF i = n + 1 THEN subscriber'[c] ELSE t[i]]
  OBVIOUS
<1>2. n \in Nat /\ Len(frames'[c]) = n + 1 /\ frames'[c][n + 1] = f
  OBVIOUS
<1>3. \A i \in 1 .. n : frames'[c][i] = frames[c][i]
  OBVIOUS
<1>4. u \in [0 .. n + 1 -> known' \cup {None}]
  BY <1>1, <1>2
<1>5. u[0] = view'[c] /\ u[n + 1] = subscriber'[c]
  BY <1>1, <1>2 DEF IsTrail
<1>6. ASSUME NEW i \in 1 .. n + 1
      PROVE  u[i] = Apply(u[i - 1], frames'[c][i])
  <2>1. CASE i = n + 1
    <3>1. u[i] = subscriber'[c] /\ u[i - 1] = t[n]
      BY <2>1, <1>2
    <3>2. t[n] = subscriber[c]
      BY <1>1 DEF IsTrail
    <3> QED
      BY <3>1, <3>2, <2>1, <1>2
  <2>2. CASE i \in 1 .. n
    <3>1. u[i] = t[i] /\ u[i - 1] = t[i - 1]
      BY <2>2, <1>2
    <3>2. t[i] = Apply(t[i - 1], frames[c][i])
      BY <1>1, <2>2 DEF IsTrail
    <3> QED
      BY <3>1, <3>2, <2>2, <1>3
  <2> QED
    BY <2>1, <2>2, <1>2
<1>7. IsTrail(c, u)'
  BY <1>2, <1>5, <1>6 DEF IsTrail
<1> QED
  BY <1>2, <1>4, <1>7 DEF HasTrail

\* A client without frames that shows what it is believed to show.
LEMMA TrailStarts ==
    ASSUME NEW c \in Clients, frames[c] = <<>>, view[c] \in known \cup {None},
           sock[c] = "open" => view[c] = subscriber[c]
    PROVE  HasTrail(c)
<1> DEFINE t == [i \in 0 .. 0 |-> view[c]]
<1>1. Len(frames[c]) = 0
  OBVIOUS
<1>2. t \in [0 .. Len(frames[c]) -> known \cup {None}] /\ t[0] = view[c]
  BY <1>1
<1> HIDE DEF t
<1>3. IsTrail(c, t)
  BY <1>1, <1>2 DEF IsTrail
<1> QED
  BY <1>2, <1>3 DEF HasTrail

\* The same after a step.
LEMMA TrailRestarts ==
    ASSUME NEW c \in Clients, frames'[c] = <<>>, view'[c] \in known' \cup {None},
           sock'[c] = "open" => view'[c] = subscriber'[c]
    PROVE  HasTrail(c)'
<1> PICK t : t = [i \in 0 .. 0 |-> view'[c]]
  OBVIOUS
<1>1. Len(frames'[c]) = 0
  OBVIOUS
<1>2. t \in [0 .. Len(frames'[c]) -> known' \cup {None}] /\ t[0] = view'[c]
  BY <1>1
<1>3. IsTrail(c, t)'
  BY <1>1, <1>2 DEF IsTrail
<1> QED
  BY <1>2, <1>3 DEF HasTrail

-----------------------------------------------------------------------------
(* The send buffer.                                                         *)

LEMMA BufferStays ==
    ASSUME NEW c \in Clients, InBuffer(c), frames'[c] = frames[c]
    PROVE  InBuffer(c)'
BY DEF InBuffer

LEMMA BufferDrains ==
    ASSUME NEW c \in Clients, InBuffer(c), frames[c] \in Seq(Frame), frames[c] # <<>>,
           frames'[c] = Tail(frames[c]), MAX_FRAMES \in Nat
    PROVE  InBuffer(c)'
<1>1. Len(frames'[c]) = Len(frames[c]) - 1 /\ Len(frames[c]) \in Nat
  OBVIOUS
<1>2. ASSUME NEW n \in DOMAIN frames'[c], frames'[c][n].kind = "changed"
      PROVE  n <= MAX_FRAMES + 1
  <2>1. n \in Nat /\ n + 1 \in DOMAIN frames[c] /\ frames'[c][n] = frames[c][n + 1]
    BY <1>1
  <2>2. n + 1 <= MAX_FRAMES + 1
    BY <1>2, <2>1 DEF InBuffer
  <2> QED
    BY <2>1, <2>2
<1> QED
  BY <1>2 DEF InBuffer

LEMMA BufferFills ==
    ASSUME NEW c \in Clients, InBuffer(c), frames[c] \in Seq(Frame), NEW f \in Frame,
           frames'[c] = Append(frames[c], f), MAX_FRAMES \in Nat,
           f.kind = "changed" => Len(frames[c]) <= MAX_FRAMES
    PROVE  InBuffer(c)'
<1> DEFINE l == Len(frames[c])
<1>1. l \in Nat /\ DOMAIN frames'[c] = 1 .. l + 1 /\ DOMAIN frames[c] = 1 .. l
  OBVIOUS
<1>2. frames'[c][l + 1] = f /\ \A n \in 1 .. l : frames'[c][n] = frames[c][n]
  OBVIOUS
<1>3. ASSUME NEW n \in 1 .. l + 1, frames'[c][n].kind = "changed"
      PROVE  n <= MAX_FRAMES + 1
  <2>1. CASE n = l + 1
    BY <1>1, <1>2, <1>3, <2>1
  <2>2. CASE n \in 1 .. l
    BY <1>1, <1>2, <1>3, <2>2 DEF InBuffer
  <2> QED
    BY <1>1, <2>1, <2>2
<1> QED
  BY <1>1, <1>3 DEF InBuffer

-----------------------------------------------------------------------------
(* The invariant.                                                           *)

LEMMA InitIInv == Init => IInv
<1> SUFFICES ASSUME Init PROVE IInv
  OBVIOUS
<1> USE FeedAssumption DEF Init
<1>1. TypeOK
  <2>1. Response(stored) \in Statuses
    BY ResponseType
  <2> QED
    BY <2>1 DEF TypeOK, InBuffer
<1>2. Buffered
  BY DEF Buffered
<1>3. WasKnown
  BY DEF WasKnown
<1>4. Unconnected
  BY DEF Unconnected
<1>5. ASSUME NEW c \in Clients PROVE HasTrail(c)
  BY TrailStarts
<1> QED
  BY <1>1, <1>2, <1>3, <1>4, <1>5 DEF IInv

\* What publishers find, store and publish are statuses.
LEMMA AnswerTypes ==
    /\ \A a \in DataAnswers \cup PlayersAnswers \cup NoAnswers : a \in Statuses
    /\ \A p \in Players : Answer("online", None, p, None) \in Statuses
BY FeedAssumption DEF DataAnswers, PlayersAnswers, NoAnswers, Answer, Statuses, Values, Fields

LEMMA OverType ==
    ASSUME NEW patch \in Statuses, NEW base \in Statuses
    PROVE  Over(patch, base) \in Statuses
BY DEF Over, Statuses

LEMMA FieldType ==
    ASSUME NEW s \in Statuses, NEW f \in Fields, NEW v \in Values \cup {None}
    PROVE  [s EXCEPT ![f] = v] \in Statuses
BY DEF Statuses

LEMMA PublisherIInv ==
    ASSUME IInv, NEW w \in Writers, NEW status \in Statuses \cup {None},
           stored' \in Statuses, WillPublish(w, status)
    PROVE  IInv'
<1> USE DEF IInv, WillPublish
<1>1. Response(stored') \in Statuses
  BY ResponseType
<1>2. known \subseteq known' /\ recorded' = recorded \cup {stored'}
  OBVIOUS
<1>3. TypeOK'
  BY <1>1, FeedAssumption DEF TypeOK, InBuffer, connVars
<1>4. Buffered'
  BY DEF Buffered
<1>5. WasKnown'
  <2>1. stored' \in recorded' /\ \A record \in recorded' : Response(record) \in known'
    BY <1>1, StatusFunctions DEF WasKnown
  <2>2. \A v \in Writers : pending'[v] \in known' \cup {None}
    BY DEF WasKnown, TypeOK
  <2>3. \A c \in Clients :
            /\ request'[c] # None => request'[c].value \in known' \cup {None}
            /\ subscriber'[c] \in known' \cup {None}
    BY <1>2 DEF WasKnown, connVars
  <2> QED
    BY <2>1, <2>2, <2>3 DEF WasKnown
<1>6. Unconnected'
  BY DEF Unconnected, connVars
<1>7. ASSUME NEW d \in Clients PROVE HasTrail(d)'
  BY <1>2, TrailStays DEF connVars
<1> QED
  BY <1>3, <1>4, <1>5, <1>6, <1>7

LEMMA StoresIInv ==
    ASSUME IInv, NEW w \in Writers, NEW record \in Statuses, NEW status \in Statuses,
           Stores(w, record, status)
    PROVE  IInv'
BY PublisherIInv DEF Stores

LEMMA WriteIInv ==
    ASSUME IInv, NEW w \in Writers, Write(w)
    PROVE  IInv'
<1>1. PICK copy \in recorded :
          \/ \E base \in recorded :
                \/ \E response \in DataAnswers \cup PlayersAnswers \cup NoAnswers :
                      PersistLiveStatus(w, copy, base, response)
                \/ \E players \in Players :
                      \/ RefreshOnlinePlayers(w, copy, base, players)
                      \/ AcceptPlayerStatus(w, copy, base, players)
          \/ \E answer \in DataAnswers \cup NoAnswers : RefreshQueryData(w, copy, answer)
          \/ \E players \in LivePlayers : PublishLivePlayers(w, copy, players)
  BY DEF Write
<1>2. recorded \subseteq Statuses /\ copy \in Statuses /\ stored \in Statuses
  BY DEF IInv, TypeOK
<1>3. copy["queryData"] \in Values \cup {None}
  BY <1>2 DEF Statuses, Fields
<1>4. ASSUME NEW a \in Statuses
      PROVE  [a EXCEPT !["queryData"] = IF @ # None THEN @ ELSE copy["queryData"]] \in Statuses
  BY <1>3 DEF Statuses, Fields
<1>5. ASSUME NEW base \in recorded,
             NEW response \in DataAnswers \cup PlayersAnswers \cup NoAnswers,
             PersistLiveStatus(w, copy, base, response)
      PROVE  IInv'
  BY <1>2, <1>4, <1>5, AnswerTypes, OverType, StoresIInv DEF PersistLiveStatus
<1>6. ASSUME NEW s \in Statuses, NEW players \in Players \cup LivePlayers
      PROVE  [s EXCEPT !["onlinePlayers"] = players] \in Statuses
  BY FieldType DEF Fields, Values
<1>7. ASSUME NEW base \in recorded, NEW players \in Players,
             RefreshOnlinePlayers(w, copy, base, players)
      PROVE  IInv'
  BY <1>2, <1>6, <1>7, ResponseType, StoresIInv DEF RefreshOnlinePlayers
<1>8. ASSUME NEW base \in recorded, NEW players \in Players,
             AcceptPlayerStatus(w, copy, base, players)
      PROVE  IInv'
  <2>1. [copy EXCEPT !["status"] = "online", !["onlinePlayers"] = players,
                     !["errorMessage"] = None] \in Statuses
    BY <1>2 DEF Statuses, Values, Fields
  <2> QED
    BY <1>2, <1>8, <2>1, AnswerTypes, OverType, StoresIInv DEF AcceptPlayerStatus
<1>9. ASSUME NEW answer \in DataAnswers \cup NoAnswers, RefreshQueryData(w, copy, answer)
      PROVE  IInv'
  <2> DEFINE refreshed == [answer EXCEPT !["queryData"] = IF @ # None THEN @ ELSE copy["queryData"]]
  <2>1. refreshed \in Statuses /\ Response(refreshed) \in Statuses
    BY <1>4, AnswerTypes, ResponseType
  <2>2. Stores(w, refreshed, Response(refreshed))
    BY <1>9 DEF RefreshQueryData
  <2> HIDE DEF refreshed
  <2> QED
    BY <2>1, <2>2, StoresIInv
<1>10. ASSUME NEW players \in LivePlayers, PublishLivePlayers(w, copy, players)
       PROVE  IInv'
  BY <1>2, <1>6, <1>10, ResponseType, PublisherIInv DEF PublishLivePlayers
<1> QED
  BY <1>1, <1>5, <1>7, <1>8, <1>9, <1>10

LEMMA NextIInv == IInv /\ [Next]_vars => IInv'
<1> SUFFICES ASSUME IInv, [Next]_vars PROVE IInv'
  OBVIOUS
<1> USE FeedAssumption DEF IInv
<1>1. ASSUME NEW c \in Clients, Connect(c) PROVE IInv'
  <2> USE <1>1 DEF Connect, storeVars
  <2>1. TypeOK'
    BY DEF TypeOK, InBuffer
  <2>2. Buffered'
    BY DEF TypeOK, Buffered
  <2>3. WasKnown'
    BY DEF TypeOK, WasKnown
  <2>4. Unconnected'
    BY DEF TypeOK, Unconnected
  <2>5. ASSUME NEW d \in Clients PROVE HasTrail(d)'
    <3>1. CASE d = c
      BY <3>1, TrailRestarts DEF TypeOK, Unconnected
    <3>2. CASE d # c
      BY <3>2, TrailStays DEF TypeOK
    <3> QED
      BY <3>1, <3>2
  <2> QED
    BY <2>1, <2>2, <2>3, <2>4, <2>5
<1>2. ASSUME NEW c \in Clients, SubscribeTimeout(c) PROVE IInv'
  <2> USE <1>2 DEF SubscribeTimeout, storeVars
  <2>1. TypeOK'
    BY DEF TypeOK, InBuffer
  <2>2. Buffered'
    BY DEF TypeOK, Buffered
  <2>3. WasKnown'
    BY DEF TypeOK, WasKnown
  <2>4. Unconnected'
    BY DEF TypeOK, Unconnected
  <2>5. ASSUME NEW d \in Clients PROVE HasTrail(d)'
    BY TrailStays DEF TypeOK
  <2> QED
    BY <2>1, <2>2, <2>3, <2>4, <2>5
<1>3. ASSUME NEW c \in Clients, SocketClosed(c) PROVE IInv'
  <2> USE <1>3 DEF SocketClosed, storeVars
  <2>1. TypeOK'
    <3>1. ASSUME NEW d \in Clients PROVE InBuffer(d)'
      BY BufferStays DEF TypeOK, Buffered, InBuffer
    <3> QED
      BY <3>1 DEF TypeOK
  <2>2. Buffered'
    BY DEF TypeOK, Buffered
  <2>3. WasKnown'
    BY DEF TypeOK, WasKnown
  <2>4. Unconnected'
    BY DEF TypeOK, Unconnected
  <2>5. ASSUME NEW d \in Clients PROVE HasTrail(d)'
    <3>1. CASE d = c
      <4>1. frames'[d] = <<>> /\ view'[d] = None /\ sock'[d] = "closed"
        BY <3>1 DEF TypeOK, Buffered
      <4> QED
        BY <4>1, TrailRestarts
    <3>2. CASE d # c
      BY <3>2, TrailStays DEF TypeOK, Buffered
    <3> QED
      BY <3>1, <3>2
  <2> QED
    BY <2>1, <2>2, <2>3, <2>4, <2>5
<1>4. ASSUME NEW c \in Clients, NEW follows \in BOOLEAN, Request(c, follows) PROVE IInv'
  <2> USE <1>4 DEF Request, storeVars
  <2>1. TypeOK'
    BY DEF TypeOK, InBuffer
  <2>2. Buffered'
    BY DEF TypeOK, Buffered
  <2>3. WasKnown'
    BY DEF TypeOK, WasKnown
  <2>4. Unconnected'
    BY DEF TypeOK, Unconnected
  <2>5. ASSUME NEW d \in Clients PROVE HasTrail(d)'
    BY TrailStays DEF TypeOK
  <2> QED
    BY <2>1, <2>2, <2>3, <2>4, <2>5
<1>5. ASSUME NEW c \in Clients, ReadSnapshot(c) PROVE IInv'
  <2> DEFINE r == [request[c] EXCEPT !.read = TRUE,
                                    !.value = IF request[c].follows THEN Response(stored) ELSE None]
  <2>1. request' = [request EXCEPT ![c] = r]
    BY <1>5 DEF ReadSnapshot
  <2>2. request[c] \in [follows : BOOLEAN, read : BOOLEAN, value : Statuses \cup {None}]
    BY <1>5 DEF ReadSnapshot, TypeOK
  <2>3. /\ r \in [follows : BOOLEAN, read : BOOLEAN, value : Statuses \cup {None}]
        /\ r.value \in {Response(stored), None}
    BY <2>2, ResponseType DEF TypeOK
  <2> HIDE DEF r
  <2>4. UNCHANGED <<storeVars, sock, deadline, accepted, requests, subscriber, frames, view>>
    BY <1>5 DEF ReadSnapshot
  <2>5. \A d \in Clients : request'[d] = IF d = c THEN r ELSE request[d]
    BY <2>1 DEF TypeOK
  <2>6. TypeOK'
    BY <2>1, <2>3, <2>4 DEF TypeOK, InBuffer, storeVars
  <2>7. Buffered'
    BY <2>4 DEF Buffered
  <2>8. WasKnown'
    BY <2>3, <2>4, <2>5 DEF WasKnown, storeVars
  <2>9. Unconnected'
    BY <1>5, <2>4, <2>5 DEF Unconnected, ReadSnapshot
  <2>10. ASSUME NEW d \in Clients PROVE HasTrail(d)'
    BY <2>4, TrailStays DEF storeVars
  <2> QED
    BY <2>6, <2>7, <2>8, <2>9, <2>10
<1>6. ASSUME NEW c \in Clients, RequestFails(c) PROVE IInv'
  <2> USE <1>6 DEF RequestFails, storeVars
  <2>1. TypeOK'
    <3>1. ASSUME NEW d \in Clients PROVE InBuffer(d)'
      BY BufferStays DEF TypeOK
    <3>2. /\ sock' \in [Clients -> {"none", "open", "closing", "closed"}]
          /\ deadline' \in [Clients -> BOOLEAN]
      <4>1. CASE accepted[c]
        BY <4>1 DEF TypeOK
      <4>2. CASE ~accepted[c]
        <5> HIDE DEF storeVars
        <5>1. /\ deadline' = [deadline EXCEPT ![c] = FALSE]
              /\ sock' = [sock EXCEPT ![c] = IF @ = "open" THEN "closing" ELSE @]
          BY <4>2
        <5>2. /\ deadline \in [Clients -> BOOLEAN]
              /\ sock \in [Clients -> {"none", "open", "closing", "closed"}]
          BY DEF TypeOK
        <5> HIDE DEF RequestFails, IInv
        <5> QED
          BY <5>1, <5>2
      <4> QED
        BY <4>1, <4>2
    <3> QED
      BY <3>1, <3>2 DEF TypeOK
  <2>2. Buffered'
    BY DEF TypeOK, Buffered
  <2>3. WasKnown'
    BY DEF TypeOK, WasKnown
  <2>4. Unconnected'
    BY DEF TypeOK, Unconnected
  <2>5. ASSUME NEW d \in Clients PROVE HasTrail(d)'
    BY TrailStays DEF TypeOK
  <2> QED
    BY <2>1, <2>2, <2>3, <2>4, <2>5
<1>7. ASSUME NEW c \in Clients, Subscribe(c) PROVE IInv'
  <2> DEFINE v == request[c].value
             f == SnapshotFrame(v)
  <2>1. /\ request[c] # None
        /\ request' = [request EXCEPT ![c] = None]
        /\ accepted' = [accepted EXCEPT ![c] = TRUE]
        /\ deadline' = [deadline EXCEPT ![c] = FALSE]
        /\ subscriber' = [subscriber EXCEPT ![c] = v]
        /\ frames' = IF sock[c] = "open" THEN [frames EXCEPT ![c] = Append(@, f)] ELSE frames
        /\ UNCHANGED <<storeVars, sock, requests, view>>
    BY <1>7 DEF Subscribe, KeptSnapshot
  <2>2. v \in known \cup {None} /\ v \in Shows
    BY <2>1 DEF WasKnown, TypeOK, Shows
  <2>3. f \in Frame /\ Apply(subscriber[c], f) = v /\ f.kind = "snapshot"
    BY <2>2 DEF Frame, SnapshotFrame, Apply
  <2>4. sock[c] # "none"
    BY <2>1 DEF Unconnected
  <2> HIDE DEF v, f
  <2>8. frames' \in [Clients -> Seq(Frame)]
    BY <2>1, <2>3 DEF Buffered
  <2>9. Buffered'
    BY <2>8 DEF Buffered
  <2>10. TypeOK'
    <3>1. ASSUME NEW d \in Clients PROVE InBuffer(d)'
      <4>1. CASE d = c /\ sock[c] = "open"
        <5>1. frames'[d] = Append(frames[d], f) /\ frames[d] \in Seq(Frame)
          BY <2>1, <4>1 DEF Buffered
        <5> QED
          BY <2>3, <4>1, <5>1, BufferFills DEF TypeOK
      <4>2. CASE ~(d = c /\ sock[c] = "open")
        BY <2>1, <4>2, BufferStays DEF Buffered, TypeOK
      <4> QED
        BY <4>1, <4>2
    <3>2. subscriber' \in [Clients -> Statuses \cup {None}]
      BY <2>1, <2>2 DEF TypeOK, Shows
    <3> QED
      BY <2>1, <3>1, <3>2 DEF TypeOK, storeVars
  <2>11. WasKnown'
    BY <2>1, <2>2 DEF WasKnown, TypeOK, storeVars
  <2>12. Unconnected'
    BY <2>1, <2>4 DEF Unconnected, TypeOK, Buffered
  <2>13. ASSUME NEW d \in Clients PROVE HasTrail(d)'
    <3>1. CASE d = c /\ sock[c] = "open"
      <4>1. frames'[c] = Append(frames[c], f) /\ subscriber'[c] = v
        BY <2>1, <3>1 DEF Buffered, TypeOK
      <4>2. frames[c] \in Seq(Frame)
        BY DEF Buffered
      <4> QED
        BY <2>1, <2>2, <2>3, <3>1, <4>1, <4>2, TrailGrows DEF storeVars
    <3>2. CASE d = c /\ sock[c] # "open"
      BY <2>1, <3>2, TrailStays DEF storeVars
    <3>3. CASE d # c
      <4>1. frames'[d] = frames[d] /\ subscriber'[d] = subscriber[d]
        BY <2>1, <3>3 DEF Buffered, TypeOK
      <4> QED
        BY <2>1, <4>1, TrailStays DEF storeVars
    <3> QED
      BY <3>1, <3>2, <3>3
  <2> QED
    BY <2>9, <2>10, <2>11, <2>12, <2>13
<1>8. ASSUME NEW c \in Clients, Deliver(c) PROVE IInv'
  <2>1. PICK t \in [0 .. Len(frames[c]) -> known \cup {None}] : IsTrail(c, t)
    BY DEF HasTrail
  <2>2. /\ frames[c] \in Seq(Frame) /\ frames[c] # <<>>
        /\ view' = [view EXCEPT ![c] = Apply(view[c], Head(frames[c]))]
        /\ frames' = [frames EXCEPT ![c] = Tail(@)]
        /\ UNCHANGED <<storeVars, connVars, subscriber>>
    BY <1>8 DEF Deliver, Buffered
  <2>3. view' = [view EXCEPT ![c] = t[1]]
    <3>1. 1 \in 1 .. Len(frames[c]) /\ Head(frames[c]) = frames[c][1]
      BY <2>2
    <3>2. t[1] = Apply(t[1 - 1], frames[c][1]) /\ t[0] = view[c]
      BY <2>1, <3>1 DEF IsTrail
    <3>3. t[1] = Apply(view[c], Head(frames[c]))
      BY <3>1, <3>2
    <3> QED
      BY <2>2, <3>3
  <2>4. t[1] \in known \cup {None} /\ t[1] \in Shows
    <3>1. 1 \in 0 .. Len(frames[c])
      BY <2>2
    <3> QED
      BY <2>1, <3>1 DEF TypeOK, Shows
  <2>5. frames' \in [Clients -> Seq(Frame)]
    BY <2>2 DEF Buffered
  <2>6. TypeOK' /\ Buffered'
    <3>1. ASSUME NEW d \in Clients PROVE InBuffer(d)'
      BY <2>2, BufferStays, BufferDrains DEF Buffered, TypeOK
    <3>3. view' \in [Clients -> Statuses \cup {None}]
      BY <2>3, <2>4 DEF TypeOK, Shows
    <3>4. TypeOK'
      BY <2>2, <3>1, <3>3 DEF TypeOK, storeVars, connVars
    <3> QED
      BY <2>5, <3>4 DEF Buffered
  <2>7. WasKnown'
    BY <2>2 DEF WasKnown, storeVars, connVars
  <2>8. Unconnected'
    <3>1. sock[c] # "none"
      BY <2>2 DEF Unconnected
    <3> QED
      BY <2>2, <3>1 DEF Unconnected, connVars, TypeOK, Buffered
  <2>9. ASSUME NEW d \in Clients PROVE HasTrail(d)'
    <3>1. CASE d = c
      <4> DEFINE n == Len(frames[c])
      <4> PICK u : u = [i \in 0 .. n - 1 |-> t[i + 1]]
        OBVIOUS
      <4>1. n \in Nat /\ n > 0 /\ frames'[c] = Tail(frames[c]) /\ Len(frames'[c]) = n - 1
        BY <2>2 DEF Buffered
      <4>2. \A i \in 1 .. n - 1 : frames'[c][i] = frames[c][i + 1]
        BY <2>2, <4>1
      <4>3. u \in [0 .. n - 1 -> known' \cup {None}]
        BY <2>1, <2>2, <4>1 DEF storeVars
      <4>4. u[0] = view'[c] /\ u[n - 1] = t[n]
        BY <2>3, <4>1 DEF TypeOK
      <4>5. ASSUME NEW i \in 1 .. n - 1
            PROVE  u[i] = Apply(u[i - 1], frames'[c][i])
        <5>1. u[i] = t[i + 1] /\ u[i - 1] = t[i]
          BY <4>1
        <5>2. t[i + 1] = Apply(t[i + 1 - 1], frames[c][i + 1])
          <6>1. i + 1 \in 1 .. n
            BY <4>1
          <6> QED
            BY <2>1, <6>1 DEF IsTrail
        <5> QED
          BY <5>1, <5>2, <4>2, <4>1
      <4>6. sock'[c] = "open" => u[n - 1] = subscriber'[c]
        BY <2>1, <2>2, <4>4 DEF IsTrail, connVars
      <4>7. IsTrail(c, u)'
        BY <4>1, <4>4, <4>5, <4>6 DEF IsTrail
      <4> QED
        BY <3>1, <4>1, <4>3, <4>7 DEF HasTrail
    <3>2. CASE d # c
      BY <2>2, <3>2, TrailStays DEF TypeOK, Buffered, storeVars, connVars
    <3> QED
      BY <3>1, <3>2
  <2> QED
    BY <2>6, <2>7, <2>8, <2>9
<1>9. ASSUME NEW w \in Writers, Write(w) PROVE IInv'
  BY <1>9, WriteIInv
<1>11. ASSUME NEW w \in Writers, Publish(w) PROVE IInv'
  <2> PICK status : status = pending[w]
    OBVIOUS
  <2> DEFINE F(d) == subscriber[d] # None
             A(d) == F(d) /\ sock[d] = "open" /\ ~IsEmpty(Changes(subscriber[d], status))
             S(d) == A(d) /\ Overfull(d)
             f(d) == Changes(subscriber[d], status)
  <2>1. /\ status # None
        /\ pending' = [pending EXCEPT ![w] = None]
        /\ UNCHANGED <<stored, recorded, known, changes, deadline, accepted, requests, request, view>>
    BY <1>11 DEF Publish
  <2>2. /\ subscriber' = [d \in Clients |-> IF F(d) THEN status ELSE subscriber[d]]
        /\ frames' = [d \in Clients |-> IF A(d) /\ ~S(d) THEN Append(frames[d], f(d)) ELSE frames[d]]
        /\ sock' = [d \in Clients |-> IF S(d) THEN "closing" ELSE sock[d]]
    BY <1>11 DEF Publish, Terminated
  <2>3. /\ status \in known /\ known' = known /\ known \subseteq known'
        /\ status \in Statuses
    BY <2>1 DEF WasKnown, TypeOK
  <2>4. ASSUME NEW d \in Clients, F(d)
        PROVE  subscriber[d] \in Statuses /\ f(d) \in Frame
    <3>1. subscriber[d] \in Statuses
      BY <2>4 DEF TypeOK
    <3>2. <<subscriber[d], status>> \in Statuses \X Statuses
      BY <2>3, <3>1
    <3>3. f(d) \in {Changes(p[1], p[2]) : p \in Statuses \X Statuses}
      BY <3>2
    <3> QED
      BY <3>1, <3>3 DEF Frame
  <2>5. frames' \in [Clients -> Seq(Frame)]
    <3>1. \A d \in Clients : frames[d] \in Seq(Frame)
      BY DEF Buffered
    <3> HIDE DEF A, S, f
    <3>2. ASSUME NEW d \in Clients, A(d) PROVE Append(frames[d], f(d)) \in Seq(Frame)
      <4>1. f(d) \in Frame
        BY <2>4, <3>2 DEF A
      <4> QED
        BY <3>1, <4>1
    <3> QED
      BY <2>2, <3>1, <3>2
  <2>6. ASSUME NEW d \in Clients PROVE InBuffer(d)'
    <3>1. frames[d] \in Seq(Frame) /\ InBuffer(d)
      BY DEF Buffered, TypeOK
    <3>2. CASE A(d) /\ ~S(d)
      <4>1. frames'[d] = Append(frames[d], f(d)) /\ f(d) \in Frame
        BY <2>2, <2>4, <3>2
      <4>2. Len(frames[d]) <= MAX_FRAMES
        BY <3>1, <3>2 DEF Overfull
      <4> HIDE DEF A, S, f
      <4> QED
        BY <3>1, <4>1, <4>2, BufferFills
    <3>3. CASE ~(A(d) /\ ~S(d))
      <4> HIDE DEF A, S, f
      <4> QED
        BY <2>2, <3>1, <3>3, BufferStays
    <3> QED
      BY <3>2, <3>3
  <2>8. TypeOK'
    <3>1. sock' \in [Clients -> {"none", "open", "closing", "closed"}]
      <4> HIDE DEF S
      <4> QED
        BY <2>2 DEF TypeOK
    <3>2. subscriber' \in [Clients -> Statuses \cup {None}]
      BY <2>2, <2>3 DEF TypeOK
    <3> QED
      BY <2>1, <2>6, <3>1, <3>2 DEF TypeOK
  <2>9. Buffered'
    BY <2>5 DEF Buffered
  <2>10. WasKnown'
    BY <2>1, <2>2, <2>3 DEF WasKnown
  <2>11. Unconnected'
    <3>1. ASSUME NEW d \in Clients, sock'[d] = "none"
          PROVE  sock[d] = "none" /\ subscriber'[d] = subscriber[d] /\ frames'[d] = frames[d]
      <4>1. sock[d] = "none"
        BY <2>2, <3>1
      <4>2. ~F(d)
        BY <4>1 DEF Unconnected
      <4> QED
        BY <2>2, <4>1, <4>2
    <3> QED
      BY <2>1, <3>1 DEF Unconnected
  <2>12. ASSUME NEW d \in Clients PROVE HasTrail(d)'
    <3>1. CASE A(d) /\ ~S(d)
      <4>1. frames'[d] = Append(frames[d], f(d)) /\ subscriber'[d] = status
        BY <2>2, <3>1
      <4>2. f(d) \in Frame /\ Apply(subscriber[d], f(d)) = status
        BY <2>3, <2>4, <3>1, ApplyChanges
      <4>3. frames[d] \in Seq(Frame)
        BY DEF Buffered
      <4> HIDE DEF f
      <4> QED
        BY <2>1, <2>3, <3>1, <4>1, <4>2, <4>3, TrailGrows
    <3>2. CASE ~(A(d) /\ ~S(d))
      <4>1. frames'[d] = frames[d] /\ view'[d] = view[d]
        BY <2>1, <2>2, <3>2
      <4>2. ASSUME sock'[d] = "open" PROVE sock[d] = "open" /\ subscriber'[d] = subscriber[d]
        <5>1. sock[d] = "open" /\ ~S(d)
          BY <2>2, <4>2
        <5>2. CASE F(d)
          <6>1. IsEmpty(Changes(subscriber[d], status))
            BY <3>2, <5>1, <5>2
          <6>2. subscriber[d] = status
            BY <2>3, <2>4, <5>2, <6>1, EmptyChanges
          <6> QED
            BY <2>2, <5>1, <5>2, <6>2
        <5>3. CASE ~F(d)
          BY <2>2, <5>1, <5>3
        <5> QED
          BY <5>2, <5>3
      <4> QED
        BY <2>3, <4>1, <4>2, TrailStays
    <3> QED
      BY <3>1, <3>2
  <2> QED
    BY <2>8, <2>9, <2>10, <2>11, <2>12
<1>12. CASE UNCHANGED vars
  <2> USE <1>12 DEF vars, storeVars, connVars
  <2>1. TypeOK'
    BY DEF TypeOK, InBuffer
  <2>2. Buffered'
    BY DEF Buffered
  <2>3. WasKnown'
    BY DEF WasKnown
  <2>4. Unconnected'
    BY DEF Unconnected
  <2>5. ASSUME NEW d \in Clients PROVE HasTrail(d)'
    BY TrailStays
  <2> QED
    BY <2>1, <2>2, <2>3, <2>4, <2>5
<1> QED
  BY <1>1, <1>2, <1>3, <1>4, <1>5, <1>6, <1>7, <1>8, <1>9, <1>11, <1>12 DEF Next

-----------------------------------------------------------------------------
(* The theorems.                                                            *)

LEMMA SpecIInv == Spec => []IInv
<1>1. Init => IInv
  BY InitIInv
<1>2. IInv /\ [Next]_vars => IInv'
  BY NextIInv
<1> QED
  BY <1>1, <1>2, PTL DEF Spec

\* The state of the feed has its types, and changes are never queued behind
\* more frames than the send buffer may hold.
THEOREM TypeCorrect == Spec => []TypeOK
<1>1. IInv => TypeOK
  BY DEF IInv
<1> QED
  BY <1>1, SpecIInv, PTL

\* The statuses a client shows one after the other are its trail.
LEMMA TrailIsShown ==
    ASSUME NEW c \in Clients, frames[c] \in Seq(Frame),
           NEW t \in [0 .. Len(frames[c]) -> known \cup {None}], IsTrail(c, t)
    PROVE  Shown(c)[Len(frames[c])] = t[Len(frames[c])]
<1> DEFINE n == Len(frames[c])
           Equation(g) == g = [i \in 0 .. n |->
                                 IF i = 0 THEN view[c] ELSE Apply(g[i - 1], frames[c][i])]
<1>1. n \in Nat
  OBVIOUS
<1>2. Equation(t)
  <2>1. ASSUME NEW i \in 0 .. n
        PROVE  t[i] = IF i = 0 THEN view[c] ELSE Apply(t[i - 1], frames[c][i])
    BY <1>1 DEF IsTrail
  <2> QED
    BY <2>1
<1>3. Shown(c) = CHOOSE g : Equation(g)
  BY DEF Shown
<1>4. PICK s : s = Shown(c)
  OBVIOUS
<1>5. Equation(s)
  BY <1>2, <1>3, <1>4
<1> DEFINE T == {i \in 0 .. n : s[i] # t[i]}
<1>6. ASSUME T # {} PROVE FALSE
  <2>1. T \subseteq Nat
    BY <1>1
  <2>2. PICK i \in T : \A j \in T : ~(<<j, i>> \in OpToRel(<, Nat))
    BY <2>1, <1>6, NatLessThanWellFounded, WFMin
  <2>3. i # 0
    BY <1>1, <1>2, <1>5
  <2>4. i - 1 \notin T
    BY <1>1, <2>2, <2>3 DEF OpToRel
  <2>5. s[i - 1] = t[i - 1]
    BY <1>1, <2>3, <2>4
  <2> QED
    BY <1>1, <1>2, <1>5, <2>2, <2>3, <2>5
<1> QED
  BY <1>1, <1>4, <1>6

\* Whatever is sent, and whatever is skipped because nothing has changed,
\* after the frames on their way a client shows what the backend has noted
\* for it.
THEOREM FramesFit == Spec => []FramesLeadToSnapshot
<1>1. IInv => FramesLeadToSnapshot
  <2> SUFFICES ASSUME IInv, NEW c \in Clients, sock[c] = "open"
               PROVE  Shown(c)[Len(frames[c])] = subscriber[c]
    BY DEF FramesLeadToSnapshot
  <2>1. frames[c] \in Seq(Frame)
    BY DEF IInv, Buffered
  <2>2. PICK t \in [0 .. Len(frames[c]) -> known \cup {None}] : IsTrail(c, t)
    BY DEF IInv, HasTrail
  <2> QED
    BY <2>1, <2>2, TrailIsShown DEF IsTrail
<1> QED
  BY <1>1, SpecIInv, PTL

LEMMA InitBoard == Init => Board!Init
BY FeedAssumption, ResponseType DEF Init, Board!Init

\* A step shows a client a status of its trail, or nothing, or makes statuses
\* known, or changes nothing of the board.
LEMMA NextBoard ==
    IInv /\ [Next]_vars => [Board!Next]_<<known, view>>
<1> SUFFICES ASSUME IInv, [Next]_vars, ~UNCHANGED <<known, view>>
             PROVE  Board!Next
  OBVIOUS
<1>1. ASSUME NEW c \in Clients, Deliver(c) PROVE Board!Next
  <2>1. PICK t \in [0 .. Len(frames[c]) -> known \cup {None}] : IsTrail(c, t)
    BY DEF IInv, HasTrail
  <2>2. frames[c] \in Seq(Frame) /\ frames[c] # <<>>
    BY <1>1 DEF IInv, Buffered, Deliver
  <2>3. 1 \in 1 .. Len(frames[c]) /\ Head(frames[c]) = frames[c][1]
    BY <2>2
  <2>4. t[1] = Apply(t[1 - 1], frames[c][1]) /\ t[0] = view[c]
    BY <2>1, <2>3 DEF IsTrail
  <2>5. t[1] = Apply(view[c], Head(frames[c]))
    BY <2>3, <2>4
  <2>6. view' = [view EXCEPT ![c] = t[1]] /\ UNCHANGED known
    BY <1>1, <2>5 DEF Deliver, storeVars
  <2>7. 1 \in 0 .. Len(frames[c])
    BY <2>2
  <2>8. t[1] \in known \cup {None} /\ known \subseteq Statuses
    BY <2>1, <2>7 DEF IInv, TypeOK
  <2> QED
    BY <2>6, <2>8 DEF Board!Next, Board!Show
<1>2. ASSUME NEW c \in Clients, SocketClosed(c) PROVE Board!Next
  BY <1>2 DEF SocketClosed, storeVars, Board!Next, Board!Show
<1>3. ASSUME NEW w \in Writers, Write(w) PROVE Board!Next
  <2>1. known \subseteq known' /\ UNCHANGED view
    BY <1>3 DEF Write, PersistLiveStatus, RefreshOnlinePlayers, AcceptPlayerStatus,
                RefreshQueryData, PublishLivePlayers, Stores, WillPublish
  <2>2. known' \subseteq Statuses
    BY NextIInv DEF IInv, TypeOK
  <2> QED
    BY <2>1, <2>2 DEF Board!Next, Board!Learn
<1>4. ASSUME NEW c \in Clients,
             \/ Connect(c) \/ SubscribeTimeout(c)
             \/ \E follows \in BOOLEAN : Request(c, follows)
             \/ ReadSnapshot(c) \/ RequestFails(c) \/ Subscribe(c)
      PROVE  UNCHANGED <<known, view>>
  BY <1>4 DEF Connect, SubscribeTimeout, Request, ReadSnapshot, RequestFails, Subscribe, storeVars
<1>5. ASSUME UNCHANGED vars \/ \E w \in Writers : Publish(w)
      PROVE  UNCHANGED <<known, view>>
  BY <1>5 DEF Publish, vars, storeVars
<1> QED
  BY <1>1, <1>2, <1>3, <1>4, <1>5 DEF Next

\* The feed implements StatusBoard: a client never shows a mixture of two
\* statuses, nor one that was neither on the record nor published, although
\* it is told only what changes, and that of statuses which overtake each
\* other and are made of old copies.
THEOREM FeedImplementsBoard == Spec => ShowsRealStatuses
<1> QED
  BY SpecIInv, InitBoard, NextBoard, PTL DEF Spec, ShowsRealStatuses, Board!Spec

-----------------------------------------------------------------------------
(* The feed and the requests.                                               *)

LEMMA BothStepFeed == [NextBoth]_bothVars => [Next]_vars
BY DEF NextBoth, FeedMoves, RequestsMove, bothVars

\* What is proved of the feed holds beside the requests too.
THEOREM FeedNextToRequests ==
    SpecBoth => [](TypeOK /\ FramesLeadToSnapshot) /\ ShowsRealStatuses
<1>1. InitBoth => Init
  BY DEF InitBoth
<1>2. SpecBoth => Spec
  BY <1>1, BothStepFeed, PTL DEF SpecBoth, Spec
<1> QED
  BY <1>2, TypeCorrect, FramesFit, FeedImplementsBoard, PTL

Keys == Credentials \cup {None}

Call ==
    [step : {"idle", "ready", "waits", "sent", "resets"},
     key : Keys, awaits : Calls \cup {None}]

RequestsTypes ==
    /\ credential \in Keys
    /\ accepts \in Keys
    /\ failure \in {None} \cup [key : Keys, paused : BOOLEAN]
    /\ awaited \in Calls \cup {None}
    /\ call \in [Calls -> Call]

InFlight(c) == call[c].step \in {"sent", "resets"}

\* The request that newcomers wait for is on its way.
AwaitedInFlight == awaited # None => InFlight(awaited)

\* No call waits for a request that has ended.
NoneWaitsInVain ==
    \A c \in Calls : call[c].step = "waits" => call[c].awaits \in Calls /\ InFlight(call[c].awaits)

\* The credential that a reset is asked for is one the game server rejects,
\* and still will when the reset is done.
ResetsRejected ==
    \A c \in Calls : call[c].step = "resets" => call[c].key # None /\ call[c].key # accepts

\* A late 401 takes no credential away that the game server accepts ...
AcceptedKept == accepts # None => credential = accepts

\* ... and does not pause it either.
AcceptedNotPaused == accepts # None => ~Requests!Paused(failure, accepts)

NotBlamed == accepts # None /\ failure # None => failure.key # accepts

RequestsInv ==
    /\ RequestsTypes
    /\ AwaitedInFlight
    /\ NoneWaitsInVain
    /\ ResetsRejected
    /\ AcceptedKept
    /\ NotBlamed

LEMMA InitRequests == Requests!Init => RequestsInv
BY DEF Requests!Init, Requests!Idle, Requests!At, RequestsInv, RequestsTypes, Keys, Call,
       AwaitedInFlight, NoneWaitsInVain, ResetsRejected, AcceptedKept, NotBlamed

\* A call that changes alone, and neither ends a request nor makes one.
LEMMA CallMoves ==
    ASSUME RequestsInv, NEW c \in Calls,
           \/ Requests!Load(c) \/ Requests!Drop(c) \/ Requests!Wait(c)
           \/ Requests!RejectedReset(c)
    PROVE  RequestsInv'
<1> USE DEF RequestsInv, RequestsTypes, Keys, Call
<1>1. CASE Requests!Load(c)
  BY <1>1 DEF Requests!Load, Requests!Idle, Requests!At, AwaitedInFlight, NoneWaitsInVain,
              ResetsRejected, AcceptedKept, NotBlamed, InFlight
<1>2. CASE Requests!Drop(c)
  BY <1>2 DEF Requests!Drop, Requests!Idle, Requests!At, AwaitedInFlight, NoneWaitsInVain,
              ResetsRejected, AcceptedKept, NotBlamed, InFlight
<1>3. CASE Requests!Wait(c)
  BY <1>3 DEF Requests!Wait, AwaitedInFlight, NoneWaitsInVain,
              ResetsRejected, AcceptedKept, NotBlamed, InFlight
<1>4. CASE Requests!RejectedReset(c)
  BY <1>4 DEF Requests!RejectedReset, Requests!Rejected, AwaitedInFlight, NoneWaitsInVain,
              ResetsRejected, AcceptedKept, NotBlamed, InFlight
<1> QED
  BY <1>1, <1>2, <1>3, <1>4

LEMMA CallSends ==
    ASSUME RequestsInv, NEW c \in Calls, Requests!Send(c)
    PROVE  RequestsInv'
BY DEF RequestsInv, RequestsTypes, Keys, Call, Requests!Send, AwaitedInFlight, NoneWaitsInVain,
       ResetsRejected, AcceptedKept, NotBlamed, InFlight

\* The calls that waited for a request go on when it ends, and those who wait
\* for another one have not lost theirs.
LEMMA RequestEnds ==
    ASSUME RequestsInv, NEW c \in Calls, InFlight(c),
           NEW f \in {None} \cup [key : Keys, paused : BOOLEAN],
           accepts # None /\ f # None => f.key # accepts,
           Requests!Ends(c, f), UNCHANGED <<credential, accepts>>
    PROVE  RequestsInv'
<1> DEFINE woken == {w \in Calls : call[w].step = "waits" /\ call[w].awaits = c}
           sending == {w \in woken : ~Requests!Paused(f, call[w].key)}
<1>1. /\ failure' = f
      /\ call' = [w \in Calls |->
                     CASE w \in sending -> Requests!At("sent", call[w].key)
                       [] w \in (woken \ sending) \cup {c} -> Requests!At("ready", call[w].key)
                       [] OTHER -> call[w]]
      /\ awaited' \in IF sending # {} THEN sending
                      ELSE {IF awaited = c THEN None ELSE awaited}
  BY DEF Requests!Ends
<1>2. sending \subseteq woken /\ woken \subseteq Calls /\ c \notin woken
  BY DEF InFlight
<1>3. \A w \in woken : call[w].step = "waits" /\ call[w].awaits = c
  OBVIOUS
<1>4. \A w \in Calls : call[w].step = "waits" /\ call[w].awaits = c => w \in woken
  OBVIOUS
<1> HIDE DEF woken, sending
<1>5. ASSUME NEW w \in sending
      PROVE  call'[w].step = "sent" /\ call'[w] \in Call
  <2>1. call'[w] = Requests!At("sent", call[w].key)
    BY <1>1, <1>2
  <2>2. call'[w] = [step |-> "sent", key |-> call[w].key, awaits |-> None]
    BY <2>1 DEF Requests!At
  <2>3. call[w].key \in Keys
    BY <1>2 DEF RequestsInv, RequestsTypes, Call
  <2> QED
    BY <2>2, <2>3 DEF Call
<1>6. ASSUME NEW w \in (woken \ sending) \cup {c}
      PROVE  call'[w].step = "ready" /\ call'[w] \in Call
  <2>1. call'[w] = Requests!At("ready", call[w].key)
    BY <1>1, <1>2
  <2>2. call'[w] = [step |-> "ready", key |-> call[w].key, awaits |-> None]
    BY <2>1 DEF Requests!At
  <2>3. call[w].key \in Keys
    BY <1>2 DEF RequestsInv, RequestsTypes, Call
  <2> QED
    BY <2>2, <2>3 DEF Call
<1>7. \A w \in Calls \ (woken \cup {c}) : call'[w] = call[w]
  BY <1>1, <1>2
<1>9. RequestsTypes'
  <2>1. awaited' \in Calls \cup {None}
    BY <1>1, <1>2 DEF RequestsInv, RequestsTypes
  <2>2. \A w \in Calls : call'[w] \in Call
    BY <1>2, <1>5, <1>6, <1>7 DEF RequestsInv, RequestsTypes
  <2>3. call' = [w \in Calls |-> call'[w]]
    BY <1>1
  <2> QED
    BY <1>1, <2>1, <2>2, <2>3 DEF RequestsInv, RequestsTypes
<1>10. \A w \in Calls : InFlight(w) /\ w # c => InFlight(w)'
  <2> SUFFICES ASSUME NEW w \in Calls, InFlight(w), w # c PROVE InFlight(w)'
    OBVIOUS
  <2>1. w \notin woken
    BY <1>3 DEF InFlight
  <2> QED
    BY <1>7, <2>1 DEF InFlight
<1>11. \A w \in sending : InFlight(w)'
  BY <1>5 DEF InFlight
<1>12. AwaitedInFlight'
  <2>1. CASE sending # {}
    BY <1>1, <1>11, <2>1 DEF AwaitedInFlight, InFlight
  <2>2. CASE sending = {} /\ awaited # c
    BY <1>1, <1>10, <2>2 DEF RequestsInv, RequestsTypes, AwaitedInFlight, InFlight
  <2>3. CASE sending = {} /\ awaited = c
    BY <1>1, <2>3 DEF AwaitedInFlight
  <2> QED
    BY <2>1, <2>2, <2>3
<1>13. NoneWaitsInVain'
  <2> SUFFICES ASSUME NEW w \in Calls, call'[w].step = "waits"
               PROVE  /\ call'[w].awaits \in Calls
                      /\ call'[call'[w].awaits].step \in {"sent", "resets"}
    BY DEF NoneWaitsInVain, InFlight
  <2>1. w \notin woken \cup {c}
    BY <1>5, <1>6
  <2>2. call'[w] = call[w] /\ call[w].awaits # c
    BY <1>4, <1>7, <2>1
  <2>3. call[w].awaits \in Calls /\ InFlight(call[w].awaits)
    BY <2>2 DEF RequestsInv, NoneWaitsInVain
  <2>4. call'[call[w].awaits].step \in {"sent", "resets"}
    <3> DEFINE d == call[w].awaits
    <3>1. d \notin woken /\ d # c
      BY <1>3, <2>2, <2>3 DEF InFlight
    <3>2. call'[d] = call[d]
      BY <1>7, <2>3, <3>1
    <3> QED
      BY <2>3, <3>2 DEF InFlight
  <2> QED
    BY <2>2, <2>3, <2>4
<1>14. ResetsRejected'
  <2> SUFFICES ASSUME NEW w \in Calls, call'[w].step = "resets"
               PROVE  call'[w].key # None /\ call'[w].key # accepts
    BY DEF ResetsRejected
  <2>1. w \notin woken \cup {c}
    BY <1>5, <1>6
  <2> QED
    BY <1>7, <2>1 DEF RequestsInv, ResetsRejected
<1> QED
  BY <1>1, <1>9, <1>12, <1>13, <1>14 DEF RequestsInv, AcceptedKept, NotBlamed

LEMMA CallEnds ==
    ASSUME RequestsInv, NEW c \in Calls, Requests!End(c)
    PROVE  RequestsInv'
<1>1. CASE Requests!Answered(c)
  BY <1>1, RequestEnds DEF Requests!Answered, Requests!Forgiven, InFlight
<1>2. CASE Requests!Failed(c)
  BY <1>2, RequestEnds DEF Requests!Failed, InFlight, RequestsInv, RequestsTypes, NotBlamed
<1>3. Requests!Rejection(c) \in [key : Keys, paused : BOOLEAN]
  BY DEF Requests!Rejection, RequestsInv, RequestsTypes, Call
<1>4. CASE Requests!RejectedAlone(c)
  <2>1. accepts # None => Requests!Rejection(c).key # accepts
    BY <1>4 DEF Requests!RejectedAlone, Requests!Rejected, Requests!Rejection
  <2> QED
    BY <1>3, <1>4, <2>1, RequestEnds DEF Requests!RejectedAlone, Requests!Rejected, InFlight
<1>5. CASE Requests!RejectedReset(c)
  BY <1>5, CallMoves
<1>6. CASE Requests!ResetDone(c)
  <2>1. Requests!Rejection(c).key # accepts
    BY <1>6 DEF Requests!ResetDone, Requests!Rejection, RequestsInv, ResetsRejected
  <2> QED
    BY <1>3, <1>6, <2>1, RequestEnds DEF Requests!ResetDone, InFlight
<1> QED
  BY <1>1, <1>2, <1>4, <1>5, <1>6 DEF Requests!End

\* A credential that the game server is given is a new one: no call and no
\* failure has it.
LEMMA AroundCalls ==
    ASSUME RequestsInv,
           \/ Requests!PauseEnds \/ Requests!Evict \/ Requests!Authenticate \/ Requests!GameForgets
           \/ \E k \in Credentials : Requests!Provision(k)
    PROVE  RequestsInv'
<1>1. UNCHANGED <<awaited, call>>
  BY DEF Requests!PauseEnds, Requests!Evict, Requests!Authenticate, Requests!GameForgets,
         Requests!Provision
<1>2. AwaitedInFlight' /\ NoneWaitsInVain'
  BY <1>1 DEF RequestsInv, AwaitedInFlight, NoneWaitsInVain, InFlight
<1>3. RequestsTypes' /\ ResetsRejected' /\ AcceptedKept' /\ NotBlamed'
  <2> USE DEF RequestsInv, RequestsTypes, Keys, ResetsRejected, AcceptedKept, NotBlamed
  <2>1. CASE Requests!PauseEnds
    BY <1>1, <2>1 DEF Requests!PauseEnds
  <2>2. CASE Requests!Evict \/ Requests!Authenticate
    BY <1>1, <2>2 DEF Requests!Evict, Requests!Authenticate
  <2>3. CASE Requests!GameForgets
    BY <1>1, <2>3 DEF Requests!GameForgets
  <2>4. ASSUME NEW k \in Credentials, Requests!Provision(k)
        PROVE  RequestsTypes' /\ ResetsRejected' /\ AcceptedKept' /\ NotBlamed'
    BY <1>1, <2>4 DEF Requests!Provision
  <2> QED
    BY <2>1, <2>2, <2>3, <2>4
<1> QED
  BY <1>2, <1>3 DEF RequestsInv

LEMMA NextRequests == RequestsInv /\ [NextBoth]_bothVars => RequestsInv'
<1> SUFFICES ASSUME RequestsInv, [NextBoth]_bothVars PROVE RequestsInv'
  OBVIOUS
<1>1. CASE Requests!Next
  BY <1>1, CallMoves, CallSends, CallEnds, AroundCalls DEF Requests!Next
<1>2. CASE UNCHANGED requestVars
  BY <1>2 DEF requestVars, RequestsInv, RequestsTypes, AwaitedInFlight, NoneWaitsInVain,
              ResetsRejected, AcceptedKept, NotBlamed, InFlight
<1> QED
  BY <1>1, <1>2 DEF NextBoth, FeedMoves, RequestsMove, bothVars

\* A 401 may come late, after the connector was given another credential: it
\* neither takes that one from the server's record nor pauses it, and a call
\* never waits for a request that has ended.
THEOREM RequestsRight ==
    SpecBoth => [](AcceptedKept /\ AcceptedNotPaused /\ AwaitedInFlight /\ NoneWaitsInVain)
<1>1. InitBoth => RequestsInv
  BY InitRequests DEF InitBoth
<1>2. RequestsInv => AcceptedKept /\ AcceptedNotPaused /\ AwaitedInFlight /\ NoneWaitsInVain
  BY DEF RequestsInv, NotBlamed, AcceptedNotPaused, Requests!Paused
<1> QED
  BY <1>1, <1>2, NextRequests, PTL DEF SpecBoth
=============================================================================
