------------------------------ MODULE StatusFeed ------------------------------
(***************************************************************************)
(* The server status WebSocket (service/server-status-live-service.ts and  *)
(* service/server-live-update-service.ts), for one game server: a client   *)
(* gets the stored status as a snapshot and then the fields that change    *)
(* with each status that is published.                                     *)
(*                                                                         *)
(* Five publish: a check (persistLiveStatus), the player list loop, the    *)
(* game connector, the query data loop and the map feed.  Each works on a  *)
(* copy of the record that it read some time ago, and what it publishes    *)
(* need not be what the record then says: updateServer keeps the fields    *)
(* that an update leaves undefined, and the map feed stores nothing.       *)
(*                                                                         *)
(* Messages of one connection are handled one after the other, so a client *)
(* has at most one request in progress.  lastChecked is left out: it is    *)
(* sent along with other changes only; infoData is handled as queryData    *)
(* is, and left out too.                                                   *)
(***************************************************************************)
EXTENDS Integers, Sequences

CONSTANTS
    Clients,        \* clients, each with one connection
    Writers,        \* publishers at work at the same time
    Data,           \* values of queryData
    Players,        \* lists of players that a server answers
    LivePlayers,    \* the lists with each player marked online
    Empty,          \* the list without players
    Errors,         \* error messages
    Records,        \* what the server record may say at the start
    Watched,        \* statuses that are followed on their way to the clients
    None,           \* undefined
    MAX_FRAMES,     \* MAX_BUFFERED_BYTES, in frames
    MAX_REQUESTS,   \* bound: requests of one client
    MAX_CHANGES     \* bound: statuses that are stored or published

Fields == {"status", "queryData", "onlinePlayers", "errorMessage"}
Values == {"online", "offline"} \cup Data \cup Players \cup LivePlayers \cup Errors

\* The fields of a record, or of a response that is made from it.
Statuses == [Fields -> Values \cup {None}]

ASSUME FeedAssumption ==
    /\ None \notin Clients \cup Values \cup Statuses
    /\ Empty \in Players
    /\ Records \subseteq Statuses /\ Watched \subseteq Statuses
    /\ MAX_FRAMES \in Nat /\ MAX_REQUESTS \in Nat /\ MAX_CHANGES \in Nat

VARIABLES
    stored,     \* the status on the server record
    recorded,   \* what has been on the record (history)
    known,      \* statuses that were on the record or are published (history)
    changes,    \* statuses stored or published so far
    pending,    \* writer -> status it is about to publish, or None
    sock,       \* client -> readyState
    deadline,   \* client -> subscribeTimeout is armed
    accepted,   \* client -> the closure's subscribed flag
    requests,   \* client -> requests it has made
    request,    \* client -> request in progress, or None
    subscriber, \* client -> what subscribers keeps for the server, or None
    frames,     \* client -> frames on their way to it
    view        \* client -> status the client shows

storeVars == <<stored, recorded, known, changes, pending>>
connVars == <<sock, deadline, accepted, requests, request>>
vars == <<storeVars, connVars, subscriber, frames, view>>

\* storedLiveStatusResponse: a record that was never checked has no status.
Response(record) ==
    [record EXCEPT !["status"] = IF @ # None THEN @
                                 ELSE IF record["queryData"] # None THEN "online" ELSE "offline"]

Init ==
    /\ stored \in Records
    /\ recorded = {stored}
    /\ known = {Response(stored)}
    /\ changes = 0
    /\ pending = [w \in Writers |-> None]
    /\ sock = [c \in Clients |-> "none"]
    /\ deadline = [c \in Clients |-> FALSE]
    /\ accepted = [c \in Clients |-> FALSE]
    /\ requests = [c \in Clients |-> 0]
    /\ request = [c \in Clients |-> None]
    /\ subscriber = [c \in Clients |-> None]
    /\ frames = [c \in Clients |-> <<>>]
    /\ view = [c \in Clients |-> None]

-----------------------------------------------------------------------------
(* Frames.                                                                  *)

SnapshotFrame(status) == [kind |-> "snapshot", value |-> status]

\* Mutant: a field that is gone is not told to the client.
MutRemovedFields(old, new) == {}
RemovedFields(old, new) == {f \in Fields : new[f] = None /\ old[f] # None}

\* serverLiveStatusChanges: the fields with another value, those without one.
Changes(old, new) ==
    [kind |-> "changed",
     value |-> [f \in {g \in Fields : new[g] # None /\ new[g] # old[g]} |-> new[f]],
     removed |-> RemovedFields(old, new)]

IsEmpty(delta) == DOMAIN delta.value = {} /\ delta.removed = {}

\* The client: a snapshot replaces everything it shows, changes are merged.
Apply(status, frame) ==
    IF frame.kind = "snapshot" THEN frame.value
    ELSE IF status = None THEN None
    ELSE [f \in Fields |-> IF f \in DOMAIN frame.value THEN frame.value[f]
                           ELSE IF f \in frame.removed THEN None
                           ELSE status[f]]

-----------------------------------------------------------------------------
(* Connections.                                                             *)

Connect(c) ==
    /\ sock[c] = "none"
    /\ sock' = [sock EXCEPT ![c] = "open"]
    /\ deadline' = [deadline EXCEPT ![c] = TRUE]
    /\ UNCHANGED <<storeVars, accepted, requests, request, subscriber, frames, view>>

SubscribeTimeout(c) ==
    /\ deadline[c]
    /\ deadline' = [deadline EXCEPT ![c] = FALSE]
    /\ sock' = [sock EXCEPT ![c] = "closing"]
    /\ UNCHANGED <<storeVars, accepted, requests, request, subscriber, frames, view>>

\* The 'close' event; a request in progress goes on.
SocketClosed(c) ==
    /\ sock[c] \in {"open", "closing"}
    /\ sock' = [sock EXCEPT ![c] = "closed"]
    /\ deadline' = [deadline EXCEPT ![c] = FALSE]
    /\ subscriber' = [subscriber EXCEPT ![c] = None]
    /\ frames' = [frames EXCEPT ![c] = <<>>]
    /\ view' = [view EXCEPT ![c] = None]
    /\ UNCHANGED <<storeVars, accepted, requests, request>>

\* subscribe or set-servers: with the server among the ids, or without it.
Request(c, follows) ==
    /\ sock[c] \in {"open", "closing"}
    /\ request[c] = None
    /\ requests[c] < MAX_REQUESTS
    /\ requests' = [requests EXCEPT ![c] = @ + 1]
    /\ request' = [request EXCEPT ![c] = [follows |-> follows, read |-> FALSE, value |-> None]]
    /\ UNCHANGED <<storeVars, sock, deadline, accepted, subscriber, frames, view>>

\* snapshotItemsFor reads the server record.
ReadSnapshot(c) ==
    /\ request[c] # None
    /\ ~request[c].read
    /\ request' = [request EXCEPT ![c].read = TRUE,
                                  ![c].value = IF request[c].follows THEN Response(stored)
                                                ELSE None]
    /\ UNCHANGED <<storeVars, sock, deadline, accepted, requests, subscriber, frames, view>>

\* An invalid message, no user, no server: a first request ends the
\* connection, a later one changes nothing.
RequestFails(c) ==
    /\ request[c] # None
    /\ request' = [request EXCEPT ![c] = None]
    /\ IF accepted[c]
       THEN UNCHANGED <<sock, deadline>>
       ELSE /\ deadline' = [deadline EXCEPT ![c] = FALSE]
            /\ sock' = [sock EXCEPT ![c] = IF @ = "open" THEN "closing" ELSE @]
    /\ UNCHANGED <<storeVars, accepted, requests, subscriber, frames, view>>

\* Mutant: set-servers keeps the snapshot of a server that was followed.
MutKeptSnapshot(c) ==
    IF subscriber[c] # None /\ request[c].value # None THEN subscriber[c] ELSE request[c].value
KeptSnapshot(c) == request[c].value

\* The snapshot that was read, perhaps some updates ago, is kept and sent.
Subscribe(c) ==
    /\ request[c] # None
    /\ request[c].read
    /\ request' = [request EXCEPT ![c] = None]
    /\ accepted' = [accepted EXCEPT ![c] = TRUE]
    /\ deadline' = [deadline EXCEPT ![c] = FALSE]
    /\ subscriber' = [subscriber EXCEPT ![c] = KeptSnapshot(c)]
    /\ frames' = IF sock[c] = "open"
                 THEN [frames EXCEPT ![c] = Append(@, SnapshotFrame(request[c].value))]
                 ELSE frames
    /\ UNCHANGED <<storeVars, sock, requests, view>>

Deliver(c) ==
    /\ frames[c] # <<>>
    /\ view' = [view EXCEPT ![c] = Apply(@, Head(frames[c]))]
    /\ frames' = [frames EXCEPT ![c] = Tail(@)]
    /\ UNCHANGED <<storeVars, connVars, subscriber>>

-----------------------------------------------------------------------------
(* Publishers.                                                              *)

Answer(status, data, players, error) ==
    [f \in Fields |-> CASE f = "status" -> status
                        [] f = "queryData" -> data
                        [] f = "onlinePlayers" -> players
                        [] f = "errorMessage" -> error]

\* What a game server answers: query data, with its players or without, or
\* an error, with its players or without anybody.
DataAnswers == {Answer("online", d, p, None) : d \in Data, p \in Players \cup {None}}
PlayersAnswers == {Answer("online", None, p, e) : p \in Players, e \in Errors}
NoAnswers == {Answer("offline", None, Empty, e) : e \in Errors}

\* What updateServer makes of the base: a patch does not undefine a field.
Over(patch, base) == [f \in Fields |-> IF patch[f] # None THEN patch[f] ELSE base[f]]

\* w is about to publish status, if that is not None.
WillPublish(w, status) ==
    /\ pending[w] = None
    /\ pending' = [pending EXCEPT ![w] = status]
    /\ recorded' = recorded \cup {stored'}
    /\ known' = known \cup ({Response(stored'), status} \ {None})
    /\ changes' = changes + 1
    /\ changes' <= MAX_CHANGES
    /\ UNCHANGED <<connVars, subscriber, frames, view>>

\* Once the record is stored, which the database may fail to tell.  Its answer
\* may overtake that to another write.
Stores(w, record, status) ==
    /\ stored' = record
    /\ \E told \in {status, None} : WillPublish(w, told)

\* persistLiveStatus: base is what updateServer reads again.
PersistLiveStatus(w, copy, base, response) ==
    Stores(w, Over([response EXCEPT !["queryData"] = IF @ # None THEN @ ELSE copy["queryData"]],
                   base),
           response)

\* refreshOnlinePlayersForServer, if the server was online.
RefreshOnlinePlayers(w, copy, base, players) ==
    /\ copy["status"] = "online"
    /\ Stores(w, [base EXCEPT !["onlinePlayers"] = players],
              Response([copy EXCEPT !["onlinePlayers"] = players]))

\* acceptConnectorPlayerStatus: the error is published as gone and stays on
\* the record.
AcceptPlayerStatus(w, copy, base, players) ==
    Stores(w, Over(Answer("online", None, players, None), base),
           [copy EXCEPT !["status"] = "online", !["onlinePlayers"] = players,
                        !["errorMessage"] = None])

\* refreshQueryData: the whole copy is saved, the query data among it.
RefreshQueryData(w, copy, answer) ==
    LET refreshed == [answer EXCEPT !["queryData"] = IF @ # None THEN @ ELSE copy["queryData"]]
    IN  Stores(w, refreshed, Response(refreshed))

\* publishLivePlayerStatus of the map feed, which stores nothing.
PublishLivePlayers(w, copy, players) ==
    /\ stored' = stored
    /\ WillPublish(w, Response([copy EXCEPT !["onlinePlayers"] = players]))

\* A writer's copy was read at some time before.
Write(w) ==
    \E copy \in recorded :
        \/ \E base \in recorded :
              \/ \E response \in DataAnswers \cup PlayersAnswers \cup NoAnswers :
                    PersistLiveStatus(w, copy, base, response)
              \/ \E players \in Players :
                    \/ RefreshOnlinePlayers(w, copy, base, players)
                    \/ AcceptPlayerStatus(w, copy, base, players)
        \/ \E answer \in DataAnswers \cup NoAnswers : RefreshQueryData(w, copy, answer)
        \/ \E players \in LivePlayers : PublishLivePlayers(w, copy, players)

-----------------------------------------------------------------------------
(* The listener of the published statuses.                                  *)

\* Mutant: the send buffer has no limit.
MutOverfull(c) == FALSE
Overfull(c) == Len(frames[c]) > MAX_FRAMES

\* Mutant: a connection with a full send buffer is skipped, not terminated.
MutTerminated(slow) == {}
Terminated(slow) == slow

\* The listener of publishServerLiveUpdate.
Publish(w) ==
    LET status == pending[w]
        followers == {c \in Clients : subscriber[c] # None}
        affected == {c \in followers : sock[c] = "open" /\ ~IsEmpty(Changes(subscriber[c], status))}
        slow == {c \in affected : Overfull(c)}
    IN  /\ status # None
        /\ pending' = [pending EXCEPT ![w] = None]
        /\ subscriber' = [c \in Clients |-> IF c \in followers THEN status ELSE subscriber[c]]
        /\ frames' = [c \in Clients |->
                         IF c \in affected \ slow
                         THEN Append(frames[c], Changes(subscriber[c], status))
                         ELSE frames[c]]
        /\ sock' = [c \in Clients |-> IF c \in Terminated(slow) THEN "closing" ELSE sock[c]]
        /\ UNCHANGED <<stored, recorded, known, changes, deadline, accepted, requests, request, view>>

Next ==
    \/ \E c \in Clients :
          \/ Connect(c)
          \/ SubscribeTimeout(c)
          \/ SocketClosed(c)
          \/ \E follows \in BOOLEAN : Request(c, follows)
          \/ ReadSnapshot(c)
          \/ RequestFails(c)
          \/ Subscribe(c)
          \/ Deliver(c)
    \/ \E w \in Writers : Write(w) \/ Publish(w)

\* Frames arrive on an open connection, and a writer whose write has been
\* confirmed goes on to publish.  Nobody has to write, ask or check.
Fairness ==
    /\ \A c \in Clients : WF_vars(Deliver(c))
    /\ \A w \in Writers : WF_vars(Publish(w))

Spec == Init /\ [][Next]_vars
FairSpec == Spec /\ Fairness

-----------------------------------------------------------------------------
\* Changes are sent only behind at most MAX_FRAMES frames.
InBuffer(c) ==
    \A n \in DOMAIN frames[c] : frames[c][n].kind = "changed" => n <= MAX_FRAMES + 1

TypeOK ==
    /\ stored \in Statuses
    /\ recorded \subseteq Statuses
    /\ known \subseteq Statuses
    /\ changes \in 0 .. MAX_CHANGES
    /\ pending \in [Writers -> Statuses \cup {None}]
    /\ sock \in [Clients -> {"none", "open", "closing", "closed"}]
    /\ deadline \in [Clients -> BOOLEAN]
    /\ accepted \in [Clients -> BOOLEAN]
    /\ requests \in [Clients -> 0 .. MAX_REQUESTS]
    /\ request \in [Clients -> {None} \cup [follows : BOOLEAN, read : BOOLEAN,
                                             value : Statuses \cup {None}]]
    /\ subscriber \in [Clients -> Statuses \cup {None}]
    /\ \A c \in Clients : InBuffer(c)
    /\ view \in [Clients -> Statuses \cup {None}]

\* What c shows after the first n of the frames on their way to it.
Shown(c) ==
    LET shown[n \in 0 .. Len(frames[c])] ==
            IF n = 0 THEN view[c] ELSE Apply(shown[n - 1], frames[c][n])
    IN  shown

\* What a client will show once every frame on its way has arrived is the
\* status the backend believes it shows, so that the next changes fit it
\* (lines 58-80 and 101-118).
FramesLeadToSnapshot ==
    \A c \in Clients : sock[c] = "open" => Shown(c)[Len(frames[c])] = subscriber[c]

\* A client never shows a mixture of two statuses: what it shows was on the
\* record, or was published, as a whole.  Field deltas are as good as whole
\* statuses, of whatever copies they are made.
Board == INSTANCE StatusBoard
ShowsRealStatuses == Board!Spec

Follows(c) == sock[c] = "open" /\ subscriber[c] # None

\* A status that is about to be published reaches every client that follows
\* the server, unless the connection is lost or the client turns away: none
\* is overwritten by another or forgotten in a full buffer (lines 101-119 and
\* 133-140).
StatusArrives ==
    \A c \in Clients, status \in Watched :
        ((\E w \in Writers : pending[w] = status) /\ Follows(c))
            ~> (view[c] = status \/ ~Follows(c))
=============================================================================
