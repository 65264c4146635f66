----------------------------- MODULE MCStoredData -----------------------------
(* The import of MCLegacyMigration.  Statistics: two servers, samples of    *)
(* two hours, bounds of requests on and off an hour, past the year 9999,    *)
(* missing and invalid.  Players: two of them, and an entry without a uid.  *)
EXTENDS MCLegacyMigration, StoredData

CONSTANTS ada, bob, w1

MCServers == {1, 2}
MCSample(server, at, count, uids) ==
    [server |-> server, at |-> at, online |-> TRUE, count |-> count, uids |-> uids]
MCSamples ==
    {[MCSample(1, at, 0, {}) EXCEPT !.online = FALSE] : at \in {0, 2}}
    \cup {MCSample(1, at, 1, {ada}) : at \in 0 .. 2}
    \cup {MCSample(1, 1, 2, {ada, bob}), MCSample(2, 1, 2, {bob}), MCSample(2, 2, 0, {})}
MCCached == <<<< <<ada, None>> >>, << <<bob, "Bob">> >> >>
MCKnown == <<<< <<ada, "Ada">>, <<bob, "Robert">> >>, << <<ada, "Adele">> >> >>
MCBounds == {None, Invalid} \cup 0 .. 3 \cup {5}
MCUids == {ada, bob}
MCOthers == {w1}
=============================================================================
