---------------------------- MODULE StatusRequests ----------------------------
(***************************************************************************)
(* The status feed (StatusFeed) and the requests to protected plugin       *)
(* routes (NativeRequests), by which the polls behind the feed learn the   *)
(* details of a server.                                                    *)
(*                                                                         *)
(* The feed starts from a status that is stored, whatever requests it came *)
(* from: the two specifications have no variable in common, and what is    *)
(* claimed of one holds of the whole when it holds while the other stands  *)
(* still.  part says which of them moves.                                  *)
(***************************************************************************)
EXTENDS StatusFeed

CONSTANTS Calls, Credentials    \* NativeRequests

VARIABLES
    part,                                               \* the one that moves
    credential, accepts, failure, awaited, call         \* NativeRequests

Requests == INSTANCE NativeRequests WITH accepted <- accepts, pending <- awaited

requestVars == <<credential, accepts, failure, awaited, call>>
bothVars == <<vars, part, requestVars>>

InitBoth ==
    /\ part \in {"feed", "requests"}
    /\ Init
    /\ part = "requests" => stored = CHOOSE record \in Records : TRUE
    /\ Requests!Init

FeedMoves == part = "feed" /\ Next /\ UNCHANGED <<part, requestVars>>
RequestsMove == part = "requests" /\ Requests!Next /\ UNCHANGED <<part, vars>>

NextBoth == FeedMoves \/ RequestsMove

\* The fairness of StatusFeed and of NativeRequests, each for its own part.
FeedFairness ==
    /\ \A c \in Clients : WF_vars(part = "feed" /\ Deliver(c))
    /\ \A w \in Writers : WF_vars(part = "feed" /\ Publish(w))

RequestsFairness ==
    /\ WF_requestVars(part = "requests" /\ Requests!PauseEnds)
    /\ WF_requestVars(part = "requests" /\ \E c \in Calls : Requests!Load(c))
    /\ SF_requestVars(part = "requests" /\ \E c \in Calls : Requests!Wait(c) \/ Requests!Send(c))
    /\ SF_requestVars(part = "requests" /\ \E c \in Calls : Requests!Answered(c))
    /\ \A c \in Calls :
          /\ SF_requestVars(part = "requests" /\ Requests!Drop(c))
          /\ WF_requestVars(part = "requests" /\ Requests!End(c))

SpecBoth == InitBoth /\ [][NextBoth]_bothVars /\ FeedFairness /\ RequestsFairness

-----------------------------------------------------------------------------
\* NativeRequests: a server whose credential is accepted becomes accessible.
AccessComesBack == part = "requests" => Requests!AccessComesBack
=============================================================================
