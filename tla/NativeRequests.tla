---------------------------- MODULE NativeRequests ----------------------------
(***************************************************************************)
(* Requests to the protected plugin routes of one game server              *)
(* (service/native-plugin-request-service.ts): fetchNativePluginJson lets  *)
(* a call wait for the request in flight and refuses it while a credential *)
(* the game rejected is paused.                                            *)
(*                                                                         *)
(* The maps failures and requests are keyed by server and meet only at the *)
(* bound of failures, so one server is modelled, and Evict for the others. *)
(* The length of a pause (5 to 30 minutes, by the number of attempts) and  *)
(* the data of an answer are left out.                                     *)
(***************************************************************************)
EXTENDS FiniteSets

CONSTANTS
    Calls,          \* callers at once: refreshes, history and status requests
    Credentials,    \* connector credentials
    None            \* undefined

VARIABLES
    credential,     \* connectorCredential of the server's record
    accepted,       \* credential the game server accepts
    failure,        \* failures.get(server.id)
    pending,        \* requests.get(server.id): the call that made the request
    call            \* caller -> how far its fetchNativePluginJson is

vars == <<credential, accepted, failure, pending, call>>

\* key is the credential of the ServerConfig object the caller holds.
At(step, key) == [step |-> step, key |-> key, awaits |-> None]
Idle == At("idle", None)

Init ==
    /\ credential = None
    /\ accepted = None
    /\ failure = None
    /\ pending = None
    /\ call = [c \in Calls |-> Idle]

\* failure && failure.credential === credential && failure.until > now
Paused(f, key) == f # None /\ f.key = key /\ f.paused

\* nativePluginAccessState of a server with plugin data
AccessState == IF failure # None THEN "noAccess" ELSE "available"

-----------------------------------------------------------------------------
(* Calls.                                                                   *)

\* A caller reads the server's record and goes on with this object, ...
Load(c) ==
    /\ call[c] = Idle
    /\ call' = [call EXCEPT ![c] = At("ready", credential)]
    /\ UNCHANGED <<credential, accepted, failure, pending>>

\* ... for some calls.
Drop(c) ==
    /\ call[c].step = "ready"
    /\ call' = [call EXCEPT ![c] = Idle]
    /\ UNCHANGED <<credential, accepted, failure, pending>>

\* fetchNativePluginJson waits for the request in flight ...
Wait(c) ==
    /\ call[c].step = "ready"
    /\ pending # None
    /\ call' = [call EXCEPT ![c] = [@ EXCEPT !.step = "waits", !.awaits = pending]]
    /\ UNCHANGED <<credential, accepted, failure, pending>>

\* ... or makes one, unless the credential is paused.
Send(c) ==
    /\ call[c].step = "ready"
    /\ pending = None
    /\ ~Paused(failure, call[c].key)
    /\ call' = [call EXCEPT ![c].step = "sent"]
    /\ pending' = c
    /\ UNCHANGED <<credential, accepted, failure>>

\* The request of c has ended and left f as the failure: c forgets it, then
\* the calls that waited for it go on, none looking at requests again.
Ends(c, f) ==
    LET woken == {w \in Calls : call[w].step = "waits" /\ call[w].awaits = c}
        sending == {w \in woken : ~Paused(f, call[w].key)}
    IN  /\ failure' = f
        /\ call' = [w \in Calls |->
                       CASE w \in sending -> At("sent", call[w].key)
                         [] w \in (woken \ sending) \cup {c} -> At("ready", call[w].key)
                         [] OTHER -> call[w]]
        /\ pending' \in IF sending # {} THEN sending
                        ELSE {IF pending = c THEN None ELSE pending}

\* Mutant: an answer leaves the failure of the credential before it.
MutForgiven == failure
\* failures.delete(server.id)
Forgiven == None

\* The game server admits the request and answers with JSON.
Answered(c) ==
    /\ call[c].step = "sent"
    /\ call[c].key # None
    /\ call[c].key = accepted
    /\ Ends(c, Forgiven)
    /\ UNCHANGED <<credential, accepted>>

\* Another status, no answer in time, or no JSON.
Failed(c) ==
    /\ call[c].step = "sent"
    /\ Ends(c, failure)
    /\ UNCHANGED <<credential, accepted>>

Rejection(c) == [key |-> call[c].key, paused |-> TRUE]

Rejected(c) ==
    /\ call[c].step = "sent"
    /\ call[c].key = None \/ call[c].key # accepted

\* 401: without a credential, or with no connector session that is open and
\* authenticated, there is nobody to ask for a new one.
RejectedAlone(c) ==
    /\ Rejected(c)
    /\ Ends(c, Rejection(c))
    /\ UNCHANGED <<credential, accepted>>

\* 401 with a session: connector.reset goes out, and the credential is
\* removed from the record if it still is the rejected one.
RejectedReset(c) ==
    /\ Rejected(c)
    /\ call[c].key # None
    /\ call' = [call EXCEPT ![c].step = "resets"]
    /\ credential' = IF credential = call[c].key THEN None ELSE credential
    /\ UNCHANGED <<accepted, failure, pending>>

\* resetServerConnectorCredential has returned.
ResetDone(c) ==
    /\ call[c].step = "resets"
    /\ Ends(c, Rejection(c))
    /\ UNCHANGED <<credential, accepted>>

End(c) ==
    Answered(c) \/ Failed(c) \/ RejectedAlone(c) \/ RejectedReset(c) \/ ResetDone(c)

-----------------------------------------------------------------------------
(* What happens around them.                                                *)

\* failure.until is over.
PauseEnds ==
    /\ failure # None
    /\ failure.paused
    /\ failure' = [failure EXCEPT !.paused = FALSE]
    /\ UNCHANGED <<credential, accepted, pending, call>>

\* The failure of another server takes the place of this one.
Evict ==
    /\ failure # None
    /\ failure' = None
    /\ UNCHANGED <<credential, accepted, pending, call>>

\* A connector authenticates: resetNativePluginAccess.
Authenticate ==
    /\ credential # None
    /\ failure # None
    /\ failure' = None
    /\ UNCHANGED <<credential, accepted, pending, call>>

\* The connector is provisioned with a credential nobody else holds, which
\* its game server accepts from then on.
Provision(k) ==
    /\ k \notin {credential, accepted} \cup {call[c].key : c \in Calls}
    /\ failure # None => failure.key # k
    /\ credential' = k
    /\ accepted' = k
    /\ UNCHANGED <<failure, pending, call>>

\* The game server loses its credential, or drops it on connector.reset.
GameForgets ==
    /\ accepted # None
    /\ accepted' = None
    /\ UNCHANGED <<credential, failure, pending, call>>

Next ==
    \/ \E c \in Calls :
          Load(c) \/ Drop(c) \/ Wait(c) \/ Send(c) \/ End(c)
    \/ PauseEnds \/ Evict \/ Authenticate \/ GameForgets
    \/ \E k \in Credentials : Provision(k)

\* A request has a timeout and a pause an end.  Callers go on to ask, now and
\* then with a record read anew, and a game server that is asked again and
\* again with the credential it accepts answers.
Fairness ==
    /\ WF_vars(PauseEnds)
    /\ WF_vars(\E c \in Calls : Load(c))
    /\ SF_vars(\E c \in Calls : Wait(c) \/ Send(c))
    /\ SF_vars(\E c \in Calls : Answered(c))
    /\ \A c \in Calls : SF_vars(Drop(c)) /\ WF_vars(End(c))

Spec == Init /\ [][Next]_vars /\ Fairness

-----------------------------------------------------------------------------
\* The back-off ends by itself: once the server's record keeps the credential
\* its game server accepts, the plugins are accessible for good some time
\* later, whatever late 401s of older credentials were noted (lines 25-72).
AccessComesBack ==
    \A k \in Credentials :
        <>[](credential = k /\ accepted = k) => <>[](AccessState = "available")
=============================================================================
