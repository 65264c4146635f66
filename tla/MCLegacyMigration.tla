-------------------------- MODULE MCLegacyMigration --------------------------
(* A server and two statistics buckets in data.json, one more server that   *)
(* only Mongo can hold, and two versions of every record.  The other server *)
(* has the address of the first one in one of its versions.                 *)
EXTENDS LegacyMigration

CONSTANTS s1, s2, b1, b2

MCIds == {s1, s2, b1, b2}
MCStatistics == {b1, b2}
MCLegacyIds == {s1, b1, b2}
MCLegacy == [id \in MCLegacyIds |-> IF id = b2 THEN 2 ELSE 1]
MCValues == {1, 2}
MCClashes == {{<<s1, 1>>, <<s2, 2>>}}
==============================================================================
