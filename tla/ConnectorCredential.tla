------------------------- MODULE ConnectorCredential -------------------------
(***************************************************************************)
(* The credential that pairs one game server with the backend: how the     *)
(* connector WebSocket (service/game-connector-websocket-service.ts)       *)
(* issues, checks and re-encrypts it, how protected requests to the game   *)
(* server use it and reset it when they are refused                        *)
(* (service/native-plugin-request-service.ts), and how the master-list     *)
(* catalog saves and prunes the record it is kept in (db/manager-store.ts, *)
(* on MongoDB).                                                            *)
(*                                                                         *)
(* Every await is a place where the others step in: an operation is split  *)
(* into the database call and what is done with its answer.  The plugin at *)
(* the game server ("Tools") is external.                                  *)
(***************************************************************************)
EXTENDS Integers

CONSTANTS
    Connections,    \* sockets of the connector endpoint, reused once closed
    Requests,       \* protected requests to the game server in progress
    None,           \* undefined
    MAX_SECRETS     \* bound: secrets generated

ASSUME ConnectorAssumption ==
    /\ None \notin Connections
    /\ MAX_SECRETS \in Nat \ {0}

VARIABLES
    record,     \* the catalog has a record of the server
    cred,       \* its connectorCredential
    issued,     \* secrets generated so far
    retired,    \* secrets whose credential left the store (history)
    tools,      \* the secret Tools has on disk, 0 if none (external)
    line,       \* the connection Tools is using (external)
    sock,       \* connection -> readyState
    stage,      \* connection -> how far its first message is handled
    deadline,   \* connection -> its provision timeout is armed
    secret,     \* connection -> secret it presented, or was issued
    seen,       \* connection -> credential in the record that was listed
    frame,      \* connection -> frame on its way to Tools
    session,    \* sessions.get(serverId)
    req,        \* request -> how far it is
    used,       \* request -> credential of the record it was made with
    catalog,    \* the record a catalog refresh read and will save, or None
    pruning     \* a prune deleted the record and will close the session

storeVars == <<record, cred, retired>>
toolsVars == <<tools, line>>
connVars == <<sock, stage, deadline, secret, seen, frame, session>>
reqVars == <<req, used>>
catVars == <<catalog, pruning>>
vars == <<storeVars, issued, toolsVars, connVars, reqVars, catVars>>

Secrets == 1 .. MAX_SECRETS
\* The encryption key: GAME_CONNECTOR_CREDENTIAL_KEY, one of the previous
\* keys, or one that is configured no longer.
Keys == {"current", "previous", "lost"}
NoCred == [secret |-> 0, key |-> "none"]
Creds == [secret : Secrets, key : Keys]
Encrypt(s) == [secret |-> s, key |-> "current"]
Decryptable(credential) == credential.key \in {"current", "previous"}

\* A pairing of an earlier run of the backend that both sides, one or none of
\* them may have lost.
Init ==
    /\ record \in BOOLEAN
    /\ issued = 1
    /\ cred \in {NoCred} \cup (IF record THEN [secret : {1}, key : Keys] ELSE {})
    /\ retired = {1} \ {cred.secret}
    /\ tools \in {0, 1}
    /\ line = None
    /\ sock = [c \in Connections |-> "closed"]
    /\ stage = [c \in Connections |-> "done"]
    /\ deadline = [c \in Connections |-> FALSE]
    /\ secret = [c \in Connections |-> 0]
    /\ seen = [c \in Connections |-> NoCred]
    /\ frame = [c \in Connections |-> "none"]
    /\ session = None
    /\ req = [r \in Requests |-> "idle"]
    /\ used = [r \in Requests |-> NoCred]
    /\ catalog = None
    /\ pruning = FALSE

-----------------------------------------------------------------------------
(* The record in the store.                                                 *)

\* Every write of the credential; one that leaves the store is retired.
SetCred(new) ==
    /\ cred' = new
    /\ retired' = retired \cup ({cred.secret} \ {0, new.secret})

\* claimServerConnectorCredential matched: nobody else paired the server.
Claimed == record /\ cred = NoCred

\* Mutant: the replacement is an upsert.
MutReplaced == TRUE
\* replaceServerConnectorCredential matched.
Replaced == record

\* Mutant: the rotation matches the record by its id alone.
MutStillCurrent(credential) == TRUE
\* The filter { id, connectorCredential } of the two conditional updates.
StillCurrent(credential) == record /\ cred = credential

-----------------------------------------------------------------------------
(* Tools, and the life of a connection.                                     *)

Close(S) == sock' = [c \in Connections |-> IF c \in S /\ sock[c] = "open" THEN "closing" ELSE sock[c]]

\* Tools connects, after it lost or gave up its previous connection, and
\* presents the secret it has.
Connect(c) ==
    /\ sock[c] = "closed" /\ stage[c] \in {"done", "session"} /\ session # c
    /\ line' = c
    /\ sock' = [sock EXCEPT ![c] = "open"]
    /\ stage' = [stage EXCEPT ![c] = "connected"]
    /\ deadline' = [deadline EXCEPT ![c] = TRUE]
    /\ secret' = [secret EXCEPT ![c] = tools]
    /\ UNCHANGED <<storeVars, issued, tools, seen, frame, session, reqVars, catVars>>

\* The 'close' event; frames that did not arrive are lost.
SocketClosed(c) ==
    /\ sock[c] # "closed"
    /\ sock' = [sock EXCEPT ![c] = "closed"]
    /\ stage' = [stage EXCEPT ![c] = IF @ = "connected" THEN "done" ELSE @]
    /\ deadline' = [deadline EXCEPT ![c] = FALSE]
    /\ frame' = [frame EXCEPT ![c] = "none"]
    /\ session' = IF session = c THEN None ELSE session
    /\ line' = IF line = c THEN None ELSE line
    /\ secret' = [secret EXCEPT ![c] = IF stage[c] \in {"connected", "done"} THEN 0 ELSE @]
    /\ UNCHANGED <<storeVars, issued, tools, seen, reqVars, catVars>>

\* closeWithError; what the handler has begun goes on.
ProvisionTimeout(c) ==
    /\ deadline[c]
    /\ deadline' = [deadline EXCEPT ![c] = FALSE]
    /\ Close({c})
    /\ UNCHANGED <<storeVars, issued, toolsVars, stage, secret, seen, frame, session,
                   reqVars, catVars>>

\* The first message is handled: its locals are gone.
Handled(c, outcome) ==
    /\ stage' = [stage EXCEPT ![c] = outcome]
    /\ deadline' = [deadline EXCEPT ![c] = FALSE]
    /\ seen' = [seen EXCEPT ![c] = NoCred]

Refuse(c) ==
    /\ Handled(c, "done")
    /\ secret' = [secret EXCEPT ![c] = 0]
    /\ Close({c})

\* Tools stores the credential it was sent, or deletes the one it has and
\* leaves; it does not read a connection it gave up.
ToolsReceives(c) ==
    /\ frame[c] # "none"
    /\ frame' = [frame EXCEPT ![c] = "none"]
    /\ tools' = IF line # c THEN tools ELSE IF frame[c] = "provisioned" THEN secret[c] ELSE 0
    /\ line' = IF line = c THEN None ELSE line
    /\ UNCHANGED <<storeVars, issued, sock, stage, deadline, secret, seen, session,
                   reqVars, catVars>>

\* Tools is installed anew, or an operator deletes the credential, while the
\* game server is down.
ToolsForgets ==
    /\ line = None
    /\ tools' = 0
    /\ UNCHANGED <<storeVars, issued, line, connVars, reqVars, catVars>>

-----------------------------------------------------------------------------
(* The first message.                                                       *)

\* listServers answers: provision generates a credential for the one server
\* of the peer, authenticate looks for the presented secret.
FirstMessage(c) ==
    LET provision == secret[c] = 0
        matches == Decryptable(cred) /\ cred.secret = secret[c]
    IN  /\ stage[c] = "connected"
        /\ \/ /\ provision /\ record
              /\ issued < MAX_SECRETS
              /\ issued' = issued + 1
              /\ secret' = [secret EXCEPT ![c] = issued + 1]
              /\ stage' = [stage EXCEPT ![c] = "storing"]
              /\ seen' = [seen EXCEPT ![c] = cred]
              /\ UNCHANGED <<sock, deadline>>
           \/ /\ ~provision /\ matches
              /\ stage' = [stage EXCEPT ![c] = IF cred.key = "current" THEN "matched"
                                               ELSE "rotating"]
              /\ seen' = [seen EXCEPT ![c] = cred]
              /\ UNCHANGED <<issued, secret, sock, deadline>>
           \/ /\ ~(IF provision THEN record ELSE matches)
              /\ Refuse(c)
              /\ UNCHANGED issued
        /\ UNCHANGED <<storeVars, toolsVars, frame, session, reqVars, catVars>>

\* Mutant: a pairing whose write matched nothing goes on all the same.
MutStore(c) ==
    /\ stage[c] = "storing"
    /\ IF IF seen[c] = NoCred THEN Claimed ELSE Replaced
       THEN SetCred(Encrypt(secret[c]))
       ELSE UNCHANGED <<cred, retired>>
    /\ stage' = [stage EXCEPT ![c] = "stored"]
    /\ UNCHANGED <<record, issued, toolsVars, sock, deadline, secret, seen, frame, session,
                   reqVars, catVars>>

\* Claim when the listed record had no credential, otherwise replace.
Store(c) ==
    LET stored == IF seen[c] = NoCred THEN Claimed ELSE Replaced IN
    /\ stage[c] = "storing"
    /\ IF stored
       THEN /\ SetCred(Encrypt(secret[c]))
            /\ stage' = [stage EXCEPT ![c] = "stored"]
            /\ UNCHANGED <<sock, deadline, secret, seen>>
       ELSE /\ Refuse(c)
            /\ UNCHANGED <<cred, retired>>
    /\ UNCHANGED <<record, issued, toolsVars, frame, session, reqVars, catVars>>

\* sendThenClose: the frame is flushed before the socket is closed.
Provisioned(c) ==
    /\ stage[c] = "stored"
    /\ Handled(c, "done")
    /\ frame' = [frame EXCEPT ![c] = IF sock[c] = "open" THEN "provisioned" ELSE @]
    /\ Close({c})
    /\ UNCHANGED <<storeVars, issued, toolsVars, secret, session, reqVars, catVars>>

\* replaceServerConnectorCredentialIfCurrent; its result is not looked at.
Rotate(c) ==
    /\ stage[c] = "rotating"
    /\ IF StillCurrent(seen[c])
       THEN SetCred(Encrypt(secret[c]))
       ELSE UNCHANGED <<cred, retired>>
    /\ stage' = [stage EXCEPT ![c] = "matched"]
    /\ UNCHANGED <<record, issued, toolsVars, sock, deadline, secret, seen, frame, session,
                   reqVars, catVars>>

\* Mutant: the session that is replaced is not closed.
MutPrevious == {}
Previous == {session} \ {None}

\* The session is registered whatever became of its socket meanwhile.
Register(c) ==
    /\ stage[c] = "matched"
    /\ Handled(c, "session")
    /\ secret' = [secret EXCEPT ![c] = 0]
    /\ Close(Previous)
    /\ session' = c
    /\ UNCHANGED <<storeVars, issued, toolsVars, frame, reqVars, catVars>>

-----------------------------------------------------------------------------
(* Protected requests.                                                      *)

Done(r) ==
    /\ req' = [req EXCEPT ![r] = "idle"]
    /\ used' = [used EXCEPT ![r] = NoCred]

\* A record is read, its credential decrypted and the request sent.
Send(r) ==
    /\ req[r] = "idle"
    /\ Decryptable(cred)
    /\ req' = [req EXCEPT ![r] = "sent"]
    /\ used' = [used EXCEPT ![r] = cred]
    /\ UNCHANGED <<storeVars, issued, toolsVars, connVars, catVars>>

\* The game server answers 401 to a secret Tools does not have.
Verdict(r) ==
    /\ req[r] = "sent"
    /\ IF used[r].secret = tools
       THEN Done(r)
       ELSE req' = [req EXCEPT ![r] = "rejected"] /\ used' = used
    /\ UNCHANGED <<storeVars, issued, toolsVars, connVars, catVars>>

\* Timeout, network error, or another status.
RequestFails(r) ==
    /\ req[r] = "sent"
    /\ Done(r)
    /\ UNCHANGED <<storeVars, issued, toolsVars, connVars, catVars>>

\* requestGameConnectorCredentialReset: the frame goes to whatever session is
\* open now, before the store is asked about the credential.
Rejected(r) ==
    LET reached == session # None /\ sock[session] = "open" IN
    /\ req[r] = "rejected"
    /\ IF reached
       THEN /\ req' = [req EXCEPT ![r] = "resetting"]
            /\ frame' = [frame EXCEPT ![session] = "reset"]
            /\ used' = used
       ELSE Done(r) /\ frame' = frame
    /\ UNCHANGED <<storeVars, issued, toolsVars, sock, stage, deadline, secret, seen, session,
                   catVars>>

\* resetServerConnectorCredential.
Reset(r) ==
    /\ req[r] = "resetting"
    /\ Done(r)
    /\ IF StillCurrent(used[r])
       THEN SetCred(NoCred)
       ELSE UNCHANGED <<cred, retired>>
    /\ UNCHANGED <<record, issued, toolsVars, connVars, catVars>>

-----------------------------------------------------------------------------
(* The master-list catalog.                                                 *)

CatalogReads ==
    /\ catalog = None
    /\ catalog' = cred
    /\ UNCHANGED <<storeVars, issued, toolsVars, connVars, reqVars, pruning>>

\* Mutant: the snapshot is saved with the credential it was read with.
MutSavedCredential == catalog
\* The fields that saveMasterServer sets: all but the credential.
SavedCredential == cred

\* saveMasterServer: an upsert by endpoint.
CatalogSaves ==
    /\ catalog # None
    /\ catalog' = None
    /\ record' = TRUE
    /\ SetCred(SavedCredential)
    /\ UNCHANGED <<issued, toolsVars, connVars, reqVars, pruning>>

\* removeStaleMasterServers, then closeGameConnectorSession.
PruneRecord ==
    /\ record
    /\ ~pruning
    /\ record' = FALSE
    /\ SetCred(NoCred)
    /\ pruning' = TRUE
    /\ UNCHANGED <<issued, toolsVars, connVars, reqVars, catalog>>

PruneSession ==
    /\ pruning
    /\ pruning' = FALSE
    /\ session' = None
    /\ Close({session})
    /\ UNCHANGED <<storeVars, issued, toolsVars, stage, deadline, secret, seen, frame, reqVars,
                   catalog>>

\* The backend is restarted: the store is all that remains.
Restart ==
    /\ line' = None
    /\ sock' = [c \in Connections |-> "closed"]
    /\ stage' = [c \in Connections |-> "done"]
    /\ deadline' = [c \in Connections |-> FALSE]
    /\ frame' = [c \in Connections |-> "none"]
    /\ session' = None
    /\ req' = [r \in Requests |-> "idle"]
    /\ used' = [r \in Requests |-> NoCred]
    /\ catalog' = None
    /\ pruning' = FALSE
    /\ secret' = [c \in Connections |-> 0]
    /\ seen' = [c \in Connections |-> NoCred]
    /\ UNCHANGED <<storeVars, issued, tools>>

Next ==
    \/ \E c \in Connections :
          \/ Connect(c)
          \/ SocketClosed(c)
          \/ ProvisionTimeout(c)
          \/ ToolsReceives(c)
          \/ FirstMessage(c)
          \/ Store(c)
          \/ Provisioned(c)
          \/ Rotate(c)
          \/ Register(c)
    \/ \E r \in Requests :
          \/ Send(r)
          \/ Verdict(r)
          \/ RequestFails(r)
          \/ Rejected(r)
          \/ Reset(r)
    \/ ToolsForgets
    \/ CatalogReads
    \/ CatalogSaves
    \/ PruneRecord
    \/ PruneSession
    \/ Restart

Spec == Init /\ [][Next]_vars

-----------------------------------------------------------------------------
TypeOK ==
    /\ record \in BOOLEAN
    /\ cred \in Creds \cup {NoCred}
    /\ ~record => cred = NoCred
    /\ issued \in Secrets
    /\ cred.secret \in 0 .. issued
    /\ retired \subseteq 1 .. issued
    /\ tools \in 0 .. issued
    /\ line \in Connections \cup {None}
    /\ sock \in [Connections -> {"open", "closing", "closed"}]
    /\ stage \in [Connections -> {"connected", "storing", "stored", "rotating", "matched",
                                  "session", "done"}]
    /\ deadline \in [Connections -> BOOLEAN]
    /\ secret \in [Connections -> 0 .. issued]
    /\ seen \in [Connections -> Creds \cup {NoCred}]
    /\ frame \in [Connections -> {"none", "provisioned", "reset"}]
    /\ session \in Connections \cup {None}
    /\ req \in [Requests -> {"idle", "sent", "rejected", "resetting"}]
    /\ used \in [Requests -> Creds \cup {NoCred}]
    /\ catalog \in Creds \cup {NoCred, None}
    /\ pruning \in BOOLEAN

\* A secret that a reset, a re-pairing or a prune took out of the store never
\* comes back: no rotation or catalog save that began before writes the
\* credential it had read (manager-store.ts:189 and 244-247).
RetiredStaysRetired == cred.secret \notin retired

\* A server has at most one session that can speak for it: the sockets of
\* all others are closed, or being closed (lines 96-98).
OneLiveSession ==
    \A c \in Connections : stage[c] = "session" /\ sock[c] = "open" => session = c

\* Tools is never given a secret that did not become the server's credential:
\* of pairings that overlap, the one refused by the store tells nobody
\* (lines 155-160).
HeldWasStored == tools \in {0, cred.secret} \cup retired

\* README.md:251-254: the backend "conditionally removes only the rejected
\* credential and sends connector.reset; Tools deletes its matching local
\* credential": a connector that is told to reset does not hold the
\* credential that is valid.
ResetSparesValidPairing ==
    \A c \in Connections :
        frame[c] = "reset" /\ line = c /\ cred # NoCred => tools # cred.secret
=============================================================================
