---------------------------- MODULE MCStatusFeed ----------------------------
(* A new server, and two publishers at work at the same time.               *)
(* Three requests are enough for two that go out together when the one they *)
(* waited for has ended.                                                    *)
EXTENDS StatusRequests

CONSTANTS c1, w1, w2, a1, a2, a3, k1, k2

MCCalls == {a1, a2, a3}
MCCredentials == {k1, k2}

MCWriters == {w1, w2}
MCData == {"data"}
MCPlayers == {"nobody"}
MCLivePlayers == {"marked"}
MCErrors == {"error"}

\* Never checked.
MCRecords == {Answer(None, None, None, None)}

\* What the map feed publishes after a check, which the record never says.
MCWatched == {Answer("online", "data", "marked", None)}
=============================================================================
