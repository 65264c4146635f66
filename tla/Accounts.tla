------------------------------- MODULE Accounts -------------------------------
(***************************************************************************)
(* User accounts (service/auth-service.ts, service/storage-service.ts and  *)
(* db/manager-store.ts, on MongoDB): registration, Steam sign-in, Steam    *)
(* ids connected and disconnected, names, favorites (pinned servers),      *)
(* deletion, and the catalog refresh, which prunes servers and             *)
(* replaces their ids in the favorites of every user.                      *)
(*                                                                         *)
(* Most of them end in updateUser, which reads a user document, puts a     *)
(* patch over it and stores the whole document, where other requests may   *)
(* have come in between.  Removing a favorite, pruning and deleting change *)
(* the collection in one operation.  Lookups that follow one another with  *)
(* nothing stored in between are one action.                               *)
(***************************************************************************)
EXTENDS Integers, FiniteSets

CONSTANTS
    Ids,        \* ids of accounts
    Emails,     \* e-mail addresses users register
    Steam,      \* Steam ids, also the e-mail addresses steam_<id>@steam.local
    Names,      \* names users choose or have on Steam
    Servers,    \* ids of servers
    Tasks,      \* requests at work at once
    None,       \* undefined, in a stored document null
    Absent,     \* no such field: documents imported from data.json
    Removed,    \* in a patch: the Steam id becomes undefined
    MAX_PINNED, \* maxPinnedServers
    MAX_SUFFIX, \* bound on the number behind a generated name
    MAX_BEGUN   \* bound on the requests and refreshes that begin

\* steam_<id>, and steam_<id>_<i> if that is taken
Generated(steam, i) == <<steam, i>>
UserNames == Names \cup (Steam \X (0 .. MAX_SUFFIX))
Pins == SUBSET Servers
Account == [email : Emails \cup Steam, steam : Steam \cup {None, Absent}, name : UserNames, pins : Pins]
\* What updateUser and setUserSteamId put over a document; None where nothing.
Patch == [steam : Steam \cup {None, Removed}, name : {None} \cup UserNames, pins : {None} \cup Pins]

ASSUME AccountsAssumption ==
    /\ IsFiniteSet(Servers)
    /\ None \notin Ids \cup Steam \cup Names
    /\ \A x \in (Steam \X (0 .. MAX_SUFFIX)) \cup Pins \cup Account : x # None
    /\ Removed \notin Steam \cup {None}
    /\ Absent \notin Steam \cup {None}
    /\ Names \cap (Steam \X (0 .. MAX_SUFFIX)) = {}
    /\ MAX_PINNED \in Nat /\ MAX_SUFFIX \in Nat /\ MAX_BEGUN \in Nat

VARIABLES
    accounts,   \* users collection: id -> document or None
    used,       \* ids given to accounts so far
    task,       \* request -> its state
    catalog,    \* the catalog refresh, as far as it concerns users
    begun,      \* requests and refreshes so far
    chosen,     \* account -> name its user chose undisturbed, or None (history)
    removed     \* account -> favorites removed undisturbed (history)

vars == <<accounts, used, task, catalog, begun, chosen, removed>>
history == <<chosen, removed>>

Keep == [steam |-> None, name |-> None, pins |-> None]
IdleTask == [phase |-> "idle", id |-> None, patch |-> Keep, base |-> None, next |-> "idle"]
IdleCatalog == [phase |-> "idle", old |-> None, new |-> None, left |-> {},
                listed |-> [id \in Ids |-> {}]]

Exists(id) == accounts[id] # None
NameOwners(name) == {id \in Ids : Exists(id) /\ accounts[id].name = name}
SteamOwners(steam) == {id \in Ids : Exists(id) /\ accounts[id].steam = steam}

\* Documents as registration, Steam sign-in and the import create them, and
\* favorites.
Created ==
    {a \in Account :
        /\ Cardinality(a.pins) <= MAX_PINNED
        /\ IF a.email \in Steam THEN a.steam = a.email ELSE a.steam \in {None, Absent}
        /\ a.name \in Names \/ a.name = Generated(a.steam, 0)}

\* No two documents with an indexed field in common.
Distinct(documents) ==
    \A id, other \in Ids : id # other /\ documents[id] # None /\ documents[other] # None =>
        /\ documents[id].email # documents[other].email
        /\ documents[id].name # documents[other].name
        /\ documents[id].steam # documents[other].steam \/ documents[id].steam = Absent

\* The process starts with what earlier ones left.
Init ==
    /\ accounts \in [Ids -> {None} \cup Created]
    /\ Distinct(accounts)
    /\ used = {id \in Ids : Exists(id)}
    /\ task = [t \in Tasks |-> IdleTask]
    /\ catalog = IdleCatalog
    /\ begun = 0
    /\ chosen = [id \in Ids |-> None]
    /\ removed = [id \in Ids |-> {}]

-----------------------------------------------------------------------------
(* Documents.                                                               *)

\* Mutant: there is no unique index on steamId.
MutAdmitted(id, account) ==
    \A other \in Ids \ {id} :
        Exists(other) => /\ accounts[other].email # account.email
                         /\ accounts[other].name # account.name
\* The unique indexes on e-mail, username and steamId.  The last one is sparse:
\* it leaves out documents without the field, but not those where it is null,
\* which is what the driver stores for undefined (ignoreUndefined is not set).
Admitted(id, account) ==
    \A other \in Ids \ {id} :
        Exists(other) => /\ accounts[other].email # account.email
                         /\ accounts[other].name # account.name
                         /\ accounts[other].steam # account.steam \/ account.steam = Absent

\* Mutant: fields of the patch that are undefined are assigned as well.
MutPatched(base, patch) == [base EXCEPT !.name = patch.name, !.pins = patch.pins]
\* Object.assign of the fields that are defined
Patched(base, patch) ==
    [base EXCEPT !.steam = IF patch.steam = None THEN @
                           ELSE IF patch.steam = Removed THEN None ELSE patch.steam,
                 !.name = IF patch.name = None THEN @ ELSE patch.name,
                 !.pins = IF patch.pins = None THEN @ ELSE patch.pins]

\* Mutant: an empty list is taken for none and not stored.
MutWithout(pins, s) == IF pins = {s} THEN pins ELSE pins \ {s}
\* $pull
Without(pins, s) == pins \ {s}

\* Neither these requests nor the catalog hold the document or its pins.
Undisturbed(id, requests) ==
    /\ \A t \in requests : task[t].id # id
    /\ id \notin catalog.left

-----------------------------------------------------------------------------
(* updateUser, and what a request does before and after it.                 *)

\* A request or a refresh may begin, within the bound.
Begins == begun < MAX_BEGUN /\ begun' = begun + 1
Free(t) == task[t].phase = "idle" /\ Begins

Update(id, patch, next) ==
    [IdleTask EXCEPT !.phase = "read", !.id = id, !.patch = patch, !.next = next]

\* markUserPresent: a patch without the fields modelled here
MarkPresent(id) == Update(id, Keep, "idle")

\* The request goes on after a document was stored.
Continuation(t) ==
    IF task[t].next = "present" THEN MarkPresent(task[t].id) ELSE IdleTask

\* The catalog goes on with the next user, or its refresh is at an end.
CatalogAfter(t, phase) ==
    IF task[t].next # "catalog" THEN catalog
    ELSE IF phase = "idle" THEN IdleCatalog ELSE [catalog EXCEPT !.phase = phase]

\* updateUser and setUserSteamId find the document or return null; for a
\* Steam sign-in that is a user to mark as present all the same.
UpdateReads(t) ==
    LET id == task[t].id IN
    /\ task[t].phase = "read"
    /\ task' = [task EXCEPT ![t] =
                  IF Exists(id) THEN [@ EXCEPT !.phase = "save", !.base = accounts[id]]
                  ELSE IF @.patch.steam = None THEN Continuation(t) ELSE IdleTask]
    /\ catalog' = IF Exists(id) THEN catalog ELSE CatalogAfter(t, "replace")
    /\ UNCHANGED <<accounts, used, begun, history>>

\* saveUser: replaceOne with upsert, an error if an index is violated.
UpdateSaves(t) ==
    LET id == task[t].id
        account == Patched(task[t].base, task[t].patch)
        renamed == task[t].patch.name \in Names /\ task[t].next = "idle"
    IN  /\ task[t].phase = "save"
        /\ IF Admitted(id, account)
           THEN /\ accounts' = [accounts EXCEPT ![id] = account]
                /\ task' = [task EXCEPT ![t] = Continuation(t)]
                /\ catalog' = CatalogAfter(t, "replace")
                /\ chosen' = IF renamed /\ Undisturbed(id, Tasks \ {t})
                             THEN [chosen EXCEPT ![id] = task[t].patch.name] ELSE chosen
           ELSE /\ task' = [task EXCEPT ![t] = IdleTask]
                /\ catalog' = CatalogAfter(t, "idle")
                /\ UNCHANGED <<accounts, chosen>>
        /\ UNCHANGED <<used, begun, removed>>

\* The database fails, or the process dies.
TaskFails(t) ==
    /\ task[t].phase # "idle"
    /\ task' = [task EXCEPT ![t] = IdleTask]
    /\ catalog' = CatalogAfter(t, "idle")
    /\ UNCHANGED <<accounts, used, begun, history>>

-----------------------------------------------------------------------------
(* Accounts.                                                                *)

CreateTask(email, steam, name) ==
    [IdleTask EXCEPT !.phase = "create",
                     !.base = [email |-> email, steam |-> steam, name |-> name, pins |-> {}]]

\* registerLocalUser finds nobody with the name, nor with the Steam id if one
\* is given; the e-mail address is left to the index.
Register(t, email, name, steam) ==
    /\ Free(t)
    /\ NameOwners(name) = {}
    /\ steam # None => SteamOwners(steam) = {}
    /\ task' = [task EXCEPT ![t] = CreateTask(email, steam, name)]
    /\ UNCHANGED <<accounts, used, catalog, history>>

\* createUser with a new id, refused if an index is violated.
Create(t, id) ==
    LET account == task[t].base
        admitted == Admitted(id, account)
    IN  /\ task[t].phase = "create"
        /\ id \notin used
        /\ accounts' = IF admitted THEN [accounts EXCEPT ![id] = account] ELSE accounts
        /\ used' = IF admitted THEN used \cup {id} ELSE used
        /\ task' = [task EXCEPT ![t] = IF admitted THEN MarkPresent(id) ELSE IdleTask]
        /\ UNCHANGED <<catalog, begun, history>>

\* Mutant: every sign-in brings the persona name.
MutGeneratedName(id, steam) == TRUE
GeneratedName(id, steam) == accounts[id].name = Generated(steam, 0)

\* steamSignIn finds the account of a verified Steam id, or none; it asks
\* Steam for the persona name if that is of use.
SignIn(t, steam) ==
    LET lookup(owner) == [IdleTask EXCEPT !.phase = "persona", !.id = owner,
                                          !.patch = [Keep EXCEPT !.steam = steam]]
    IN  /\ Free(t)
        /\ \/ /\ SteamOwners(steam) = {}
              /\ task' = [task EXCEPT ![t] = lookup(None)]
           \/ \E id \in SteamOwners(steam) :
                 task' = [task EXCEPT ![t] = IF GeneratedName(id, steam) THEN lookup(id)
                                             ELSE MarkPresent(id)]
        /\ UNCHANGED <<accounts, used, catalog, history>>

\* nextSteamFallbackUsername
Fallback(steam, i) ==
    /\ NameOwners(Generated(steam, i)) = {}
    /\ \A j \in 0 .. (i - 1) : NameOwners(Generated(steam, j)) # {}

\* Steam answers with a name or not at all, and its owner is looked up: an
\* account is renamed if nobody else has the name, and created with the name
\* or with a generated one.
Persona(t, answer) ==
    LET id == task[t].id
        steam == task[t].patch.steam
        free == answer # None /\ NameOwners(answer) \subseteq {id}
    IN  /\ task[t].phase = "persona"
        /\ \/ /\ id # None
              /\ task' = [task EXCEPT ![t] =
                    IF free THEN Update(id, [Keep EXCEPT !.name = answer], "present")
                    ELSE MarkPresent(id)]
           \/ /\ id = None /\ free
              /\ task' = [task EXCEPT ![t] = CreateTask(steam, steam, answer)]
           \/ /\ id = None /\ ~free
              /\ \E i \in 0 .. MAX_SUFFIX :
                    /\ Fallback(steam, i)
                    /\ task' = [task EXCEPT ![t] = CreateTask(steam, steam, Generated(steam, i))]
        /\ UNCHANGED <<accounts, used, catalog, begun, history>>

\* connectSteam signs in the user who has the Steam id, or gives it to this one.
ConnectSteam(t, id, steam) ==
    /\ Free(t)
    /\ Exists(id)
    /\ \/ \E owner \in SteamOwners(steam) : task' = [task EXCEPT ![t] = MarkPresent(owner)]
       \/ /\ SteamOwners(steam) = {}
          /\ task' = [task EXCEPT ![t] = Update(id, [Keep EXCEPT !.steam = steam], "present")]
    /\ UNCHANGED <<accounts, used, catalog, history>>

DisconnectSteam(t, id) ==
    /\ Free(t)
    /\ Exists(id)
    /\ task' = [task EXCEPT ![t] = Update(id, [Keep EXCEPT !.steam = Removed], "present")]
    /\ UNCHANGED <<accounts, used, catalog, history>>

\* loginUser, validateUser, intercom channels, API token, state and role: the
\* patch has none of the fields modelled here.
Touch(t, id) ==
    /\ Free(t)
    /\ Exists(id)
    /\ task' = [task EXCEPT ![t] = MarkPresent(id)]
    /\ UNCHANGED <<accounts, used, catalog, history>>

\* renameSelf finds the user, and nobody else with the name.
Rename(t, id, name) ==
    /\ Free(t)
    /\ Exists(id)
    /\ NameOwners(name) \subseteq {id}
    /\ task' = [task EXCEPT ![t] = Update(id, [Keep EXCEPT !.name = name], "idle")]
    /\ chosen' = [chosen EXCEPT ![id] = None]
    /\ UNCHANGED <<accounts, used, catalog, removed>>

\* deleteUserAndOwnedServers
Delete(id) ==
    /\ Exists(id)
    /\ accounts' = [accounts EXCEPT ![id] = None]
    /\ UNCHANGED <<used, task, catalog, begun, history>>

-----------------------------------------------------------------------------
(* Favorites.                                                               *)

\* pinServer finds the server ...
Pin(t, id, s) ==
    /\ Free(t)
    /\ Exists(id)
    /\ task' = [task EXCEPT ![t] = [IdleTask EXCEPT !.phase = "pin", !.id = id,
                                                 !.patch = [Keep EXCEPT !.pins = {s}]]]
    /\ removed' = [removed EXCEPT ![id] = @ \ {s}]
    /\ UNCHANGED <<accounts, used, catalog, chosen>>

\* Mutant: the limit is off by one.
MutLimitReached(pins) == Cardinality(pins) > MAX_PINNED
LimitReached(pins) == Cardinality(pins) >= MAX_PINNED

\* ... and then the user, whose list it extends unless the list is full.
PinFindsUser(t) ==
    LET id == task[t].id
        wanted == task[t].patch.pins
        more == /\ Exists(id)
                /\ ~ (wanted \subseteq accounts[id].pins)
                /\ ~ LimitReached(accounts[id].pins)
    IN  /\ task[t].phase = "pin"
        /\ task' = [task EXCEPT ![t] =
              IF more THEN Update(id, [Keep EXCEPT !.pins = accounts[id].pins \cup wanted], "idle")
              ELSE IdleTask]
        /\ UNCHANGED <<accounts, used, catalog, begun, history>>

\* One operation takes the favorite out of the document.
Pull(id, s) ==
    /\ accounts' = [accounts EXCEPT ![id].pins = Without(@, s)]
    /\ removed' = IF Undisturbed(id, Tasks)
                  THEN [removed EXCEPT ![id] = @ \cup {s}] ELSE removed

\* unpinServer
Unpin(id, s) ==
    /\ Exists(id)
    /\ Pull(id, s)
    /\ UNCHANGED <<used, task, catalog, begun, chosen>>

-----------------------------------------------------------------------------
(* The catalog.                                                             *)

\* An endpoint comes with another id: replacePinnedServerId lists all users ...
ReplaceStarts(old, new) ==
    /\ catalog.phase = "idle" /\ Begins
    /\ old # new
    /\ catalog' = [phase |-> "replace", old |-> old, new |-> new,
                   left |-> {id \in Ids : Exists(id)},
                   listed |-> [id \in Ids |-> IF Exists(id) THEN accounts[id].pins ELSE {}]]
    /\ removed' = [id \in Ids |-> removed[id] \ {new}]
    /\ UNCHANGED <<accounts, used, task, chosen>>

Replaced(pins) ==
    IF catalog.old \in pins THEN (pins \ {catalog.old}) \cup {catalog.new} ELSE pins

\* ... and updates one after the other with the pins it listed.
ReplaceNext(t, id) ==
    /\ catalog.phase = "replace"
    /\ id \in catalog.left
    /\ task[t].phase = "idle"
    /\ task' = [task EXCEPT ![t] =
                  Update(id, [Keep EXCEPT !.pins = Replaced(catalog.listed[id])], "catalog")]
    /\ catalog' = [catalog EXCEPT !.phase = "updating", !.left = @ \ {id}]
    /\ UNCHANGED <<accounts, used, begun, history>>

\* The database fails or the process dies, or all users are done.
ReplaceEnds ==
    /\ catalog.phase = "replace"
    /\ catalog' = IdleCatalog
    /\ UNCHANGED <<accounts, used, task, begun, history>>

\* removeStaleMasterServers: updateMany comes to one of the users.
Prune(id, s) ==
    /\ Exists(id)
    /\ Pull(id, s)
    /\ UNCHANGED <<used, task, catalog, begun, chosen>>

-----------------------------------------------------------------------------
Request(t) ==
    \/ UpdateReads(t) \/ UpdateSaves(t) \/ TaskFails(t) \/ PinFindsUser(t)
    \/ \E email \in Emails, name \in UserNames, steam \in Steam \cup {None} :
          Register(t, email, name, steam)
    \/ \E steam \in Steam : SignIn(t, steam)
    \/ \E answer \in Names \cup {None} : Persona(t, answer)
    \/ \E id \in Ids : Create(t, id) \/ Touch(t, id) \/ DisconnectSteam(t, id) \/ ReplaceNext(t, id)
    \/ \E id \in Ids, steam \in Steam : ConnectSteam(t, id, steam)
    \/ \E id \in Ids, name \in UserNames : Rename(t, id, name)
    \/ \E id \in Ids, s \in Servers : Pin(t, id, s)

Next ==
    \/ \E t \in Tasks : Request(t)
    \/ \E id \in Ids : Delete(id)
    \/ \E id \in Ids, s \in Servers : Unpin(id, s) \/ Prune(id, s)
    \/ \E old, new \in Servers : ReplaceStarts(old, new)
    \/ ReplaceEnds

Spec == Init /\ [][Next]_vars

-----------------------------------------------------------------------------
(* Properties.                                                              *)

TaskState == [phase : {"idle", "read", "save", "persona", "create", "pin"}, id : Ids \cup {None},
              patch : Patch, base : {None} \cup Account, next : {"idle", "present", "catalog"}]
CatalogState == [phase : {"idle", "replace", "updating"}, old : Servers \cup {None},
                 new : Servers \cup {None}, left : SUBSET Ids, listed : [Ids -> Pins]]

\* Documents stay well formed whatever is put over them.
TypeOK ==
    /\ accounts \in [Ids -> {None} \cup Account]
    /\ used \subseteq Ids
    /\ task \in [Tasks -> TaskState]
    /\ catalog \in CatalogState
    /\ begun \in 0 .. MAX_BEGUN
    /\ chosen \in [Ids -> Names \cup {None}]
    /\ removed \in [Ids -> Pins]

\* No account ever has more favorites than maxPinnedServers, although the
\* limit is checked on a list that is stored two operations later, and the
\* catalog stores lists it read long ago.
PinLimit == \A id \in Ids : Exists(id) => Cardinality(accounts[id].pins) <= MAX_PINNED

\* No two accounts have an e-mail address, a name or a Steam id (or null for
\* one) in common, although each is looked up before others may be given the
\* same.
UniqueAccounts == Distinct(accounts)

\* A name a user chose while no other request held the document is never
\* overwritten by a later Steam sign-in, or by anything but a rename.
ChosenNameKept == \A id \in Ids : Exists(id) /\ chosen[id] # None => accounts[id].name = chosen[id]

\* A favorite removed while no other request held the document or its pins
\* does not come back unless the user adds it or the catalog gives another
\* favorite its id.
RemovedPinsStay == \A id \in Ids : Exists(id) => accounts[id].pins \cap removed[id] = {}

=============================================================================
