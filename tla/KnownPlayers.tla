----------------------------- MODULE KnownPlayers -----------------------------
(***************************************************************************)
(* The players a server's record lists as knownPlayers (service/observed-  *)
(* player-service.ts, server-plugin-data-service.ts), from which the       *)
(* history of a player's servers is read.                                  *)
(*                                                                         *)
(* Everything that learns of players merges them into the list it read     *)
(* with the record and saves the whole list, some of it the whole record,  *)
(* after further awaits: a save undoes what others added since its list    *)
(* was read.  The document is kept to this list; its other fields and its  *)
(* removal are modelled in LiveStatus and Catalog.                         *)
(***************************************************************************)
EXTENDS FiniteSets

CONSTANTS
    Uids,       \* uids of players of the game server
    NoUid,      \* an entry of a player list without a uid
    ById,       \* the uid made of that entry's id
    Others,     \* writers that can run beside the player list loop
    Loop        \* the player list loop

VARIABLES
    online,     \* entries of the game server's player list
    settled,    \* the list no longer changes, and requests for it succeed
    known,      \* uids of knownPlayers in the stored record
    writer      \* writer -> what it does, the list it holds, entries told

Writers == Others \cup {Loop}
Idle == [kind |-> "none", step |-> "idle", list |-> {}, told |-> {}]

\* A server whose players nobody has looked at yet, or looked at before.
Init ==
    /\ online \in SUBSET (Uids \cup {NoUid})
    /\ settled = FALSE
    /\ known \in SUBSET Uids
    /\ writer = [w \in Writers |-> Idle]

-----------------------------------------------------------------------------
(* What is learnt from a player list.                                       *)

\* A live list: an entry without a uid is passed over.
ObservedPlayers(entries) == entries \cap Uids

\* normalizeDbPlayer: the plugin's list falls back on the id.
PlayerUid(entry) == IF entry = NoUid THEN ById ELSE entry
PlayersFromPluginPayload(entries) == {PlayerUid(entry) : entry \in entries}

\* Mutant: a list that is there already is left as it is.
MutMerged(list, observed) == IF list = {} THEN observed ELSE list
\* mergeKnownPlayers: what is known of a player is brought up to date.
Merged(list, observed) == list \cup observed

-----------------------------------------------------------------------------
(* Writers.                                                                 *)

At(w, step) == writer[w].step = step
Becomes(w, step, list) == writer' = [writer EXCEPT ![w].step = step, ![w].list = list]

\* The record is read, and the game server asked for its players: the player
\* list loop, a status check, a query of the catalog.
Ask(w, kind) ==
    /\ writer[w] = Idle
    /\ writer' = [writer EXCEPT ![w] = [kind |-> kind, step |-> "asked", list |-> known,
                                        told |-> {}]]
    /\ UNCHANGED <<online, settled, known>>

\* Without an answer the loop leaves the record alone; a check and a query
\* save an offline server, with no players.
GiveUp(w) ==
    /\ At(w, "asked")
    /\ writer[w].kind = "loop"
    /\ ~settled
    /\ writer' = [writer EXCEPT ![w] = Idle]
    /\ UNCHANGED <<online, settled, known>>

\* The query saves the record it holds; the others patch the stored one.
Answered(w, ok) ==
    /\ At(w, "asked")
    /\ ok \/ writer[w].kind # "loop"
    /\ settled => ok
    /\ Becomes(w, IF writer[w].kind = "query" THEN "save" ELSE "patch",
               Merged(writer[w].list, IF ok THEN ObservedPlayers(online) ELSE {}))
    /\ UNCHANGED <<online, settled, known>>

\* The players come before the record is read: the game connector's event,
\* refused with an entry that has no uid, and the plugin's list.
Told(w, kind) ==
    /\ writer[w] = Idle
    /\ LET players == IF kind = "connector" THEN ObservedPlayers(online)
                      ELSE PlayersFromPluginPayload(online)
       IN  /\ IF kind = "plugin" THEN players # {} ELSE NoUid \notin online
           /\ writer' = [writer EXCEPT ![w] = [kind |-> kind, step |-> "told", list |-> {},
                                               told |-> players]]
    /\ UNCHANGED <<online, settled, known>>

MergeTold(w) ==
    /\ At(w, "told")
    /\ Becomes(w, "patch", Merged(known, writer[w].told))
    /\ UNCHANGED <<online, settled, known>>

\* updateServer reads the record once more; no list is no patch.
FindRecord(w) ==
    /\ At(w, "patch")
    /\ Becomes(w, "save", IF writer[w].list = {} THEN known ELSE writer[w].list)
    /\ UNCHANGED <<online, settled, known>>

\* The record is read to be saved with other fields changed: a server that is
\* blocked, a credential, an entry of the master list that is not queried.
Patch(w) ==
    /\ writer[w] = Idle
    /\ writer' = [writer EXCEPT ![w] = [kind |-> "other", step |-> "save", list |-> known,
                                        told |-> {}]]
    /\ UNCHANGED <<online, settled, known>>

\* saveServer sets every field of the record it is given.
Save(w) ==
    /\ At(w, "save")
    /\ known' = writer[w].list
    /\ writer' = [writer EXCEPT ![w] = Idle]
    /\ UNCHANGED <<online, settled>>

-----------------------------------------------------------------------------
(* The game server.                                                         *)

PlayersChange ==
    /\ ~settled
    /\ online' \in SUBSET (Uids \cup {NoUid})
    /\ UNCHANGED <<settled, known, writer>>

Settles ==
    /\ ~settled
    /\ settled' = TRUE
    /\ UNCHANGED <<online, known, writer>>

Proceeds(w) ==
    \/ GiveUp(w)
    \/ \E ok \in BOOLEAN : Answered(w, ok)
    \/ MergeTold(w)
    \/ FindRecord(w)
    \/ Save(w)

Next ==
    \/ Ask(Loop, "loop")
    \/ \E w \in Others :
          \/ \E kind \in {"check", "query"} : Ask(w, kind)
          \/ \E kind \in {"connector", "plugin"} : Told(w, kind)
          \/ Patch(w)
    \/ \E w \in Writers : Proceeds(w)
    \/ PlayersChange
    \/ Settles

vars == <<online, settled, known, writer>>

\* Awaits settle, and the player list loop is scheduled for ever, of a server
\* that is online and has no connector that reports its players.
Fairness ==
    /\ \A w \in Writers : WF_vars(Proceeds(w))
    /\ WF_vars(Ask(Loop, "loop"))

Spec == Init /\ [][Next]_vars /\ Fairness

-----------------------------------------------------------------------------
\* Whatever the saves undo, a player who stays on a server that answers is
\* always found again (mergeKnownPlayers, lines 41-65), and stays found when
\* from some time on no one saves a list without having asked for the players.
PlayersKept ==
    <>settled =>
        /\ \A u \in Uids : []<>(u \in online => u \in known)
        /\ <>[](\A w \in Others : writer[w].kind # "other")
             => <>[](ObservedPlayers(online) \subseteq known)
=============================================================================
