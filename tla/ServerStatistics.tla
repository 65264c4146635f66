--------------------------- MODULE ServerStatistics ---------------------------
(***************************************************************************)
(* The hourly statistics of the servers: samples of status checks put into *)
(* buckets (db/server-statistics-store.ts), and the answers made from them *)
(* (service/server-statistics-service.ts).                                 *)
(*                                                                         *)
(* A sample carries the time its check started at, so samples of two       *)
(* checks can be recorded in another order than they were taken in, into   *)
(* an hour that is over.  MongoDB applies an update to a bucket as one     *)
(* step; the in-memory store makes it without an await.                    *)
(***************************************************************************)
EXTENDS Integers, FiniteSets, SequencesExt

CONSTANTS
    Servers,        \* servers, in the order of their ids: 1 .. n
    Samples,        \* [server, at, online, count, uids] of a check
    Cached, Known,  \* server -> <<uid, name>> of its cached and known players
    None,           \* no bucket, no name, no bound
    Invalid,        \* a bound that is no date
    Hour,           \* length of an hour in units of time
    LastInstant,    \* last instant of the year 9999
    Bounds,         \* values of from and to in a request
    MAX_SAMPLES     \* bound: samples recorded

VARIABLES
    store,        \* "mongo" or "memory"
    buckets,        \* <<server, hour>> -> bucket, or None
    recorded,       \* samples recorded, in their order
    listed          \* servers findServerById finds

Hours == {(s.at \div Hour) * Hour : s \in Samples}
BucketIds == Servers \X Hours

\* clampToHour and bucketId.
BucketId(sample) == <<sample.server, (sample.at \div Hour) * Hour>>

Init ==
    /\ store \in {"mongo", "memory"}
    /\ buckets = [id \in BucketIds |-> None]
    /\ recorded = <<>>
    /\ listed = Servers

-----------------------------------------------------------------------------
(* Recording.                                                               *)

One(condition) == IF condition THEN 1 ELSE 0
Larger(a, b) == IF a > b THEN a ELSE b
NewBucket == [samples |-> 0, online |-> 0, total |-> 0, most |-> 0, uids |-> {}, updated |-> 0]

\* $inc, $max, $addToSet and $set of the upsert; the same in memory.
Added(bucket, sample) ==
    [samples |-> bucket.samples + 1, online |-> bucket.online + One(sample.online),
     total |-> bucket.total + sample.count, most |-> Larger(bucket.most, sample.count),
     uids |-> bucket.uids \cup sample.uids, updated |-> sample.at]

\* The bucket that is read again in MongoDB is given to no one.
RecordServerStatisticsSample(sample) ==
    /\ Len(recorded) < MAX_SAMPLES
    /\ LET id == BucketId(sample)
           existing == IF buckets[id] = None THEN NewBucket ELSE buckets[id]
       IN  buckets' = [buckets EXCEPT ![id] = Added(existing, sample)]
    /\ recorded' = Append(recorded, sample)
    /\ UNCHANGED <<store, listed>>

\* A server leaves the catalog, its buckets stay, and it may come back.
Relist(server) ==
    /\ listed' = IF server \in listed THEN listed \ {server} ELSE listed \cup {server}
    /\ UNCHANGED <<store, buckets, recorded>>

\* The in-memory store is empty after a restart.
Restart ==
    /\ store = "memory"
    /\ buckets' = [id \in BucketIds |-> None]
    /\ recorded' = <<>>
    /\ listed' = Servers
    /\ UNCHANGED store

Next ==
    \/ \E sample \in Samples : RecordServerStatisticsSample(sample)
    \/ \E server \in Servers : Relist(server)
    \/ Restart

-----------------------------------------------------------------------------
(* Answers.                                                                 *)

\* toISOString of a year past 9999 starts with a "+", before every digit.
Iso(t) == IF t > LastInstant THEN -1 ELSE t

\* Mutant: to is the last hour that is asked for.
MutInRange(hour, from, to) ==
    /\ from = None \/ hour >= Iso(from)
    /\ to = None \/ hour <= Iso(to)
\* $gte and $lt on hourStart.
InRange(hour, from, to) ==
    /\ from = None \/ hour >= Iso(from)
    /\ to = None \/ hour < Iso(to)

\* finalizeBucket: the average and the availability are the two quotients by
\* samples.
FinalizeBucket(id) == [server |-> id[1], hour |-> id[2], counts |-> buckets[id]]

\* By hourStart, then by serverId; the orders that MongoDB and localeCompare
\* have of ids are taken for one.
Earlier(a, b) == a[2] < b[2] \/ (a[2] = b[2] /\ a[1] < b[1])

\* The n-th of a set of ids is the one that n - 1 come before.
Sorted(ids) ==
    LET before(id) == {other \in ids : Earlier(other, id)}
    IN  [n \in 1 .. Cardinality(ids) |-> CHOOSE id \in ids : Cardinality(before(id)) = n - 1]

Found(servers, from, to) ==
    {id \in BucketIds : buckets[id] # None /\ id[1] \in servers /\ InRange(id[2], from, to)}

ListBuckets(servers, from, to) ==
    LET sorted == Sorted(Found(servers, from, to))
    IN  [i \in DOMAIN sorted |-> FinalizeBucket(sorted[i])]

ListServerStatisticsBuckets(server, from, to) == ListBuckets({server}, from, to)
ListGlobalStatisticsBuckets(from, to) == ListBuckets(Servers, from, to)

\* parseDate, and the order of the two bounds.
RangeError(from, to) ==
    CASE from = Invalid -> "FROM_INVALID"
      [] from # Invalid /\ to = Invalid -> "TO_INVALID"
      [] {from, to} \cap {Invalid, None} = {} /\ from >= to -> "DATE_RANGE_INVALID"
      [] OTHER -> "none"

GetServerStatistics(server, from, to) ==
    IF server \notin listed THEN [error |-> "SERVER_NOT_FOUND", buckets |-> <<>>]
    ELSE IF RangeError(from, to) # "none" THEN [error |-> RangeError(from, to), buckets |-> <<>>]
    ELSE [error |-> "none", buckets |-> ListServerStatisticsBuckets(server, from, to)]

\* The cached players of a server, then those of its record if it is found.
PlayersOf(server, found) ==
    Cached[server] \o (IF server \in found THEN Known[server] ELSE <<>>)

\* The first name of a uid, over the servers of the answer; that a server is
\* asked once makes no difference.
PlayerNames(answer, found) ==
    LET entries == FlattenSeq([i \in DOMAIN answer |-> PlayersOf(answer[i].server, found)])
        naming(uid) == {i \in DOMAIN entries : entries[i][1] = uid /\ entries[i][2] # None}
        uids == {e[1] : e \in ToSet(entries)}
    IN  [uid \in {u \in uids : naming(u) # {}} |-> entries[Min(naming(uid))][2]]

\* Servers are looked up one by one, after the buckets: found is any set.
GetGlobalStatistics(from, to, found) ==
    LET answer == ListGlobalStatisticsBuckets(from, to)
        names == PlayerNames(answer, found)
        uids == UNION {answer[i].counts.uids : i \in DOMAIN answer}
    IN  IF RangeError(from, to) # "none"
        THEN [error |-> RangeError(from, to), buckets |-> <<>>, players |-> {}]
        ELSE [error |-> "none", buckets |-> answer,
              players |-> {<<uid, IF uid \in DOMAIN names THEN names[uid] ELSE None>> : uid \in uids}]

-----------------------------------------------------------------------------
(* What a bucket must be: an account of the samples taken in its hour.      *)
SamplesOf(id) == {i \in DOMAIN recorded : BucketId(recorded[i]) = id}

Total(samples, id) ==
    LET sum[n \in 0 .. Len(samples)] ==
            IF n = 0 THEN 0
            ELSE IF BucketId(samples[n]) = id THEN sum[n - 1] + samples[n].count
            ELSE sum[n - 1]
    IN  sum[Len(samples)]

Account(id) ==
    LET taken == SamplesOf(id)
    IN  [samples |-> Cardinality(taken),
         online |-> Cardinality({i \in taken : recorded[i].online}),
         total |-> Total(recorded, id),
         most |-> Max({0} \cup {recorded[i].count : i \in taken}),
         uids |-> UNION {recorded[i].uids : i \in taken},
         updated |-> recorded[Max(taken)].at]

\* Every sample is in the one bucket of its server and hour whatever order the
\* samples come in (lines 62-119).
BucketsAccount ==
    \A id \in BucketIds :
        IF SamplesOf(id) = {} THEN buckets[id] = None ELSE buckets[id] = Account(id)

Dates == {t \in Bounds \ {None, Invalid} : t <= LastInstant}

\* Consecutive ranges of dates up to the year 9999 share no bucket and miss
\* none (lines 121-187).
RangesJoin ==
    \A server \in listed :
        LET answer(from, to) == GetServerStatistics(server, from, to).buckets
        IN  /\ \A a, b, c \in Dates :
                  a < b /\ b < c => answer(a, c) = answer(a, b) \o answer(b, c)
            /\ \A b \in Dates : answer(None, None) = answer(None, b) \o answer(b, None)

\* list is what whole has at the places, in their order.
IsPartAt(list, whole, places) ==
    \E place \in [DOMAIN list -> places] :
        /\ places = {place[i] : i \in DOMAIN list}
        /\ \A i \in DOMAIN list : list[i] = whole[place[i]]
        /\ \A i, j \in DOMAIN list : i < j => place[i] < place[j]

\* The answer for all servers holds that of each, and each player seen, with a
\* name when a server with a bucket has one (getGlobalStatistics, lines 47-83).
AnswersAgree ==
    \A from, to \in Bounds :
        LET all == GetGlobalStatistics(from, to, listed)
        IN  /\ \A server \in listed :
                  LET one == GetServerStatistics(server, from, to)
                  IN  /\ one.error = all.error
                      /\ IsPartAt(one.buckets, all.buckets,
                                  {i \in DOMAIN all.buckets : all.buckets[i].server = server})
            /\ \A i \in DOMAIN all.buckets : \A uid \in all.buckets[i].counts.uids :
                  /\ \E p \in all.players : p[1] = uid
                  /\ (\E e \in ToSet(Cached[all.buckets[i].server]) : e[1] = uid /\ e[2] # None)
                        => <<uid, None>> \notin all.players

BucketsRight == BucketsAccount /\ RangesJoin /\ AnswersAgree
=============================================================================
