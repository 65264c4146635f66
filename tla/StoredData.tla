------------------------------ MODULE StoredData ------------------------------
(***************************************************************************)
(* The import of data.json (LegacyMigration), and what a serving manager   *)
(* makes of two of the things it stores: the statistics (ServerStatistics) *)
(* and the known players of a server (KnownPlayers).                       *)
(*                                                                         *)
(* The three specifications have no variable in common, so what is claimed *)
(* of one holds of any interleaving when it holds while the others stand   *)
(* still: part says which of them moves.                                   *)
(***************************************************************************)
EXTENDS LegacyMigration, Sequences

CONSTANTS
    Servers, Samples, Cached, Known, None, Invalid,             \* ServerStatistics
    Hour, LastInstant, Bounds, MAX_SAMPLES,
    Uids, NoUid, ById, Others, Loop                             \* KnownPlayers

VARIABLES
    part,                                       \* the one that moves
    store, buckets, recorded, listed,           \* ServerStatistics
    online, settled, known, writer              \* KnownPlayers

Buckets == INSTANCE ServerStatistics
Players == INSTANCE KnownPlayers

bucketVars == <<store, buckets, recorded, listed>>
playerVars == <<online, settled, known, writer>>
\* Samples of servers there are, at instants that are numbers; bounds that are
\* dates, and lists of <<uid, name>>.  None and Invalid are nothing of these.
ASSUME StatisticsAssumption ==
    /\ Servers \subseteq Int /\ Hour \in Nat \ {0} /\ LastInstant \in Int
    /\ \A s \in Samples :
          s.server \in Servers /\ s.at \in Int /\ s.count \in Nat /\ s.online \in BOOLEAN
    /\ Bounds \ {None, Invalid} \subseteq Int
    /\ None # Invalid /\ None \notin Int /\ Invalid \notin Int
    /\ None \notin [samples : Nat, online : Nat, total : Nat, most : Nat,
                    uids : SUBSET UNION {s.uids : s \in Samples}, updated : Int]
    /\ \A server \in Servers :
          /\ Cached[server] \in Seq(Buckets!ToSet(Cached[server]))
          /\ Known[server] \in Seq(Buckets!ToSet(Known[server]))

storedVars == <<vars, part, bucketVars, playerVars>>

InitStored ==
    /\ part \in {"import", "statistics", "players"}
    /\ Init
    /\ Buckets!Init
    /\ Players!Init
    /\ part # "import" => /\ source = "absent" /\ backup = "absent"
                          /\ mongo = [id \in Ids |-> NoRecord]
    /\ part # "statistics" => store = "mongo"
    /\ part # "players" => online = {} /\ known = {}

ImportMoves == part = "import" /\ Next /\ UNCHANGED <<part, bucketVars, playerVars>>
BucketsMove == part = "statistics" /\ Buckets!Next /\ UNCHANGED <<part, vars, playerVars>>
PlayersMove == part = "players" /\ Players!Next /\ UNCHANGED <<part, vars, bucketVars>>

NextStored == ImportMoves \/ BucketsMove \/ PlayersMove

\* The fairness of LegacyMigration and of KnownPlayers, each for its own part.
ImportFairness ==
    /\ WF_vars(part = "import" /\ Boot)
    /\ \A id \in LegacyIds : WF_vars(part = "import" /\ (InsertMissing(id) \/ RefuseMissing(id)))
    /\ WF_vars(part = "import" /\ \E enableStorage \in BOOLEAN : Start(enableStorage))

PlayersFairness ==
    /\ \A w \in Players!Writers : WF_playerVars(part = "players" /\ Players!Proceeds(w))
    /\ WF_playerVars(part = "players" /\ Players!Ask(Loop, "loop"))

SpecStored == InitStored /\ [][NextStored]_storedVars /\ ImportFairness /\ PlayersFairness

-----------------------------------------------------------------------------
\* ServerStatistics: buckets account for the samples, and answers for both.
BucketsRight == part = "statistics" => Buckets!BucketsRight

\* KnownPlayers: a player who stays is always found again.
PlayersKept == Players!PlayersKept
=============================================================================
