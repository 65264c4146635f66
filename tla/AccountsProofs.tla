---------------------------- MODULE AccountsProofs ----------------------------
(***************************************************************************)
(* Proofs of the safety of Accounts for any accounts, requests, servers    *)
(* and limit.                                                              *)
(***************************************************************************)
EXTENDS Accounts, FiniteSetTheorems, TLAPS

USE AccountsAssumption DEF AccountsAssumption

Within(pins) == Cardinality(pins) <= MAX_PINNED

\* A request works for an account that was created, with a document once it
\* has read one; what it will store is within the limit.
GoodTask(r, given) ==
    /\ r \in TaskState
    /\ r.id # None => r.id \in given
    /\ r.phase \in {"read", "save", "pin"} => r.id # None
    /\ r.phase \in {"save", "create"} => r.base # None
    /\ r.phase = "create" => r.base.pins = {} /\ r.id = None
    /\ r.phase = "persona" => r.patch.steam \in Steam
    /\ r.phase = "pin" => \E s \in Servers : r.patch.pins = {s}
    /\ r.phase = "save" => Within(r.base.pins)
    /\ r.phase # "pin" /\ r.patch.pins # None => Within(r.patch.pins)

GoodCatalog(c) ==
    /\ c \in CatalogState
    /\ c.left \subseteq used
    /\ \A id \in Ids : Within(c.listed[id])
    /\ c.left # {} => c.old \in Servers /\ c.new \in Servers

Good ==
    /\ accounts \in [Ids -> {None} \cup Account]
    /\ used \subseteq Ids
    /\ \A id \in Ids : Exists(id) => id \in used /\ Within(accounts[id].pins)
    /\ task \in [Tasks -> TaskState]
    /\ \A t \in Tasks : GoodTask(task[t], used)
    /\ GoodCatalog(catalog)
    /\ begun \in 0 .. MAX_BEGUN
    /\ chosen \in [Ids -> {None} \cup Names]
    /\ removed \in [Ids -> Pins]

-----------------------------------------------------------------------------
(* Sets of favorites.                                                       *)

LEMMA EmptyWithin == Within({})
  BY FS_EmptySet DEF Within

LEMMA SubsetWithin ==
    ASSUME NEW p \in Pins, NEW q \in SUBSET p, Within(p) PROVE q \in Pins /\ Within(q)
<1>1. IsFiniteSet(p)
  BY FS_Subset DEF Pins
<1>2. IsFiniteSet(q) /\ Cardinality(q) <= Cardinality(p)
  BY <1>1, FS_Subset
<1>3. Cardinality(p) \in Nat /\ Cardinality(q) \in Nat
  BY <1>1, <1>2, FS_CardinalityType
<1> QED
  BY <1>2, <1>3 DEF Within, Pins

\* One more favorite fits into a list that is not full.
LEMMA AddedWithin ==
    ASSUME NEW p \in Pins, NEW s \in Servers, ~ LimitReached(p), s \notin p
    PROVE  p \cup {s} \in Pins /\ Within(p \cup {s})
<1>1. IsFiniteSet(p)
  BY FS_Subset DEF Pins
<1>2. Cardinality(p \cup {s}) = Cardinality(p) + 1
  BY <1>1, FS_AddElement
<1>3. Cardinality(p) \in Nat
  BY <1>1, FS_CardinalityType
<1> QED
  BY <1>2, <1>3 DEF Within, Pins, LimitReached

\* An id replaced by another makes no list longer.
LEMMA ReplacedWithin ==
    ASSUME NEW p \in Pins, Within(p), catalog.old \in Servers, catalog.new \in Servers
    PROVE  Replaced(p) \in Pins /\ Within(Replaced(p))
<1>1. CASE catalog.old \notin p
  BY <1>1 DEF Replaced
<1>2. CASE catalog.old \in p
  <2> DEFINE q == p \ {catalog.old}
  <2>1. IsFiniteSet(p)
    BY FS_Subset DEF Pins
  <2>2. IsFiniteSet(q) /\ Cardinality(q) = Cardinality(p) - 1
    BY <1>2, <2>1, FS_RemoveElement
  <2>3. Cardinality(p) \in Nat /\ Cardinality(q) \in Nat
    BY <2>1, <2>2, FS_CardinalityType
  <2>4. Cardinality(q \cup {catalog.new}) <= Cardinality(q) + 1
    <3>1. Cardinality(q \cup {catalog.new})
            = IF catalog.new \in q THEN Cardinality(q) ELSE Cardinality(q) + 1
      BY <2>2, FS_AddElement
    <3> QED
      BY <3>1, <2>3
  <2>5. IsFiniteSet(q \cup {catalog.new})
    BY <2>2, FS_AddElement
  <2>6. Cardinality(q \cup {catalog.new}) \in Nat
    BY <2>5, FS_CardinalityType
  <2> QED
    BY <1>2, <2>2, <2>3, <2>4, <2>6 DEF Within, Replaced, Pins
<1> QED
  BY <1>1, <1>2

-----------------------------------------------------------------------------
(* States of a request.                                                     *)

LEMMA IdleGood == GoodTask(IdleTask, used)
  BY DEF GoodTask, IdleTask, Keep, TaskState, Patch

LEMMA UpdateGood ==
    ASSUME NEW given \in SUBSET Ids, NEW id \in given, NEW patch \in Patch,
           patch.pins # None => Within(patch.pins),
           NEW next \in {"idle", "present", "catalog"}
    PROVE  GoodTask(Update(id, patch, next), given)
  BY DEF GoodTask, Update, IdleTask, Keep, TaskState

LEMMA KeepPatch == Keep \in Patch /\ Keep.pins = None
  BY DEF Keep, Patch

LEMMA PresentGood ==
    ASSUME NEW given \in SUBSET Ids, NEW id \in given PROVE GoodTask(MarkPresent(id), given)
  BY UpdateGood, KeepPatch DEF MarkPresent

LEMMA CreateGood ==
    ASSUME NEW email \in Emails \cup Steam, NEW steam \in Steam \cup {None}, NEW name \in UserNames
    PROVE  GoodTask(CreateTask(email, steam, name), used)
<1> DEFINE document == [email |-> email, steam |-> steam, name |-> name, pins |-> {}]
<1>1. document \in Account
  BY DEF Account, Pins
<1> HIDE DEF document
<1>2. document.pins = {}
  BY DEF document
<1>3. CreateTask(email, steam, name) = [IdleTask EXCEPT !.phase = "create", !.base = document]
  BY DEF CreateTask, document
<1> DEFINE r == CreateTask(email, steam, name)
<1>4. /\ r.phase = "create" /\ r.id = None /\ r.patch = Keep /\ r.next = "idle"
      /\ r.base = document
      /\ r \in TaskState
  BY <1>1, <1>3, KeepPatch DEF IdleTask, TaskState
<1> HIDE DEF r
<1>5. GoodTask(r, used)
  BY <1>1, <1>2, <1>4, KeepPatch DEF GoodTask
<1> QED
  BY <1>5 DEF r

LEMMA ContinuationGood ==
    ASSUME Good, NEW t \in Tasks, task[t].phase \in {"read", "save"}
    PROVE  GoodTask(Continuation(t), used)
<1>1. task[t].id \in used /\ used \subseteq Ids
  BY DEF Good, GoodTask
<1> QED
  BY <1>1, PresentGood, IdleGood DEF Continuation

\* What updateUser stores is a document within the limit.
LEMMA PatchedGood ==
    ASSUME NEW base \in Account, NEW patch \in Patch, Within(base.pins),
           patch.pins # None => Within(patch.pins)
    PROVE  /\ Patched(base, patch) \in Account
           /\ Patched(base, patch) # None
           /\ Within(Patched(base, patch).pins)
<1>1. Patched(base, patch) \in Account
  BY DEF Patched, Account, Patch
<1>2. Within(Patched(base, patch).pins)
  BY DEF Patched, Account, Patch
<1> QED
  BY <1>1, <1>2

\* A request that goes on in a good state leaves all of them good.
LEMMA TaskStep ==
    ASSUME Good, NEW t \in Tasks, NEW r, GoodTask(r, used), task' = [task EXCEPT ![t] = r]
    PROVE  task' \in [Tasks -> TaskState] /\ \A o \in Tasks : GoodTask(task'[o], used)
<1>1. r \in TaskState /\ task \in [Tasks -> TaskState]
  BY DEF Good, GoodTask
<1>2. \A o \in Tasks : task'[o] = IF o = t THEN r ELSE task[o]
  BY <1>1
<1> QED
  BY <1>1, <1>2 DEF Good

\* The requests that touch neither the collection nor the catalog.
LEMMA RequestStep ==
    ASSUME Good, NEW t \in Tasks, NEW r, GoodTask(r, used), task' = [task EXCEPT ![t] = r],
           UNCHANGED <<accounts, used, catalog>>, begun' \in 0 .. MAX_BEGUN,
           chosen' \in [Ids -> {None} \cup Names], removed' \in [Ids -> Pins]
    PROVE  Good'
<1>1. task' \in [Tasks -> TaskState] /\ \A o \in Tasks : GoodTask(task'[o], used)
  BY TaskStep
<1> QED
  BY <1>1 DEF Good, Exists, GoodCatalog

LEMMA BeginsBound == ASSUME Good, Begins PROVE begun' \in 0 .. MAX_BEGUN
  BY DEF Good, Begins

-----------------------------------------------------------------------------
(* The states reached are good ones.                                        *)

LEMMA InitGood == Init => Good
<1> SUFFICES ASSUME Init PROVE Good
  OBVIOUS
<1>1. /\ accounts \in [Ids -> {None} \cup Account]
      /\ \A id \in Ids : Exists(id) => id \in used /\ Within(accounts[id].pins)
  BY DEF Init, Created, Exists, Within
<1>2. GoodCatalog(catalog)
  BY EmptyWithin DEF Init, IdleCatalog, GoodCatalog, CatalogState, Pins
<1>3. task \in [Tasks -> TaskState] /\ \A t \in Tasks : GoodTask(task[t], used)
  BY IdleGood DEF Init, GoodTask
<1> QED
  BY <1>1, <1>2, <1>3 DEF Init, Good, Pins

LEMMA RegisterGood ==
    ASSUME Good, NEW t \in Tasks, NEW email \in Emails, NEW name \in UserNames,
           NEW steam \in Steam \cup {None}, Register(t, email, name, steam)
    PROVE  Good'
<1>1. GoodTask(CreateTask(email, steam, name), used)
  BY CreateGood
<1> QED
  BY <1>1, RequestStep, BeginsBound DEF Register, Free, history, Good

LEMMA SignInGood ==
    ASSUME Good, NEW t \in Tasks, NEW steam \in Steam, SignIn(t, steam)
    PROVE  Good'
<1> DEFINE patch == [Keep EXCEPT !.steam = steam]
           lookup(id) == [IdleTask EXCEPT !.phase = "persona", !.id = id, !.patch = patch]
<1>1. patch \in Patch /\ patch.pins = None /\ patch.steam = steam
  BY DEF Keep, Patch
<1> HIDE DEF patch
<1>2. ASSUME NEW id \in used \cup {None} PROVE GoodTask(lookup(id), used)
  BY <1>1, <1>2 DEF Good, GoodTask, IdleTask, TaskState
<1>3. \A id \in SteamOwners(steam) : id \in used /\ GoodTask(MarkPresent(id), used)
  BY PresentGood DEF SteamOwners, Good
<1>4. \E r : GoodTask(r, used) /\ task' = [task EXCEPT ![t] = r]
  <2>1. CASE task' = [task EXCEPT ![t] = lookup(None)]
    BY <2>1, <1>2
  <2>2. ASSUME NEW id \in SteamOwners(steam),
               \/ task' = [task EXCEPT ![t] = lookup(id)]
               \/ task' = [task EXCEPT ![t] = MarkPresent(id)]
        PROVE  \E r : GoodTask(r, used) /\ task' = [task EXCEPT ![t] = r]
    BY <2>2, <1>2, <1>3
  <2> QED
    BY <2>1, <2>2 DEF SignIn, patch
<1> QED
  BY <1>4, RequestStep, BeginsBound DEF SignIn, Free, history, Good

LEMMA PersonaGood ==
    ASSUME Good, NEW t \in Tasks, NEW answer \in Names \cup {None}, Persona(t, answer)
    PROVE  Good'
<1> DEFINE id == task[t].id
           steam == task[t].patch.steam
<1>1. steam \in Steam /\ (id # None => id \in used) /\ used \subseteq Ids
  BY DEF Persona, Good, GoodTask
<1> HIDE DEF id, steam
<1>2. ASSUME answer # None
      PROVE  /\ GoodTask(CreateTask(steam, steam, answer), used)
             /\ id # None => GoodTask(Update(id, [Keep EXCEPT !.name = answer], "present"), used)
  <2>1. answer \in UserNames
    BY <1>2 DEF UserNames
  <2>2. [Keep EXCEPT !.name = answer] \in Patch /\ [Keep EXCEPT !.name = answer].pins = None
    BY <2>1 DEF Keep, Patch
  <2> QED
    BY <1>1, <2>1, <2>2, CreateGood, UpdateGood
<1>3. id # None => GoodTask(MarkPresent(id), used)
  BY <1>1, PresentGood
<1>4. ASSUME NEW i \in 0 .. MAX_SUFFIX
      PROVE  GoodTask(CreateTask(steam, steam, Generated(steam, i)), used)
  <2>1. Generated(steam, i) \in UserNames
    BY <1>1 DEF Generated, UserNames
  <2> QED
    BY <1>1, <2>1, CreateGood
<1>5. \E r : GoodTask(r, used) /\ task' = [task EXCEPT ![t] = r]
  <2>1. CASE id # None
    BY <2>1, <1>2, <1>3 DEF Persona, id
  <2>2. CASE id = None
    <3>1. CASE task' = [task EXCEPT ![t] = CreateTask(steam, steam, answer)] /\ answer # None
      BY <3>1, <1>2
    <3>2. CASE \E i \in 0 .. MAX_SUFFIX :
                  task' = [task EXCEPT ![t] = CreateTask(steam, steam, Generated(steam, i))]
      BY <3>2, <1>4
    <3> QED
      BY <2>2, <3>1, <3>2 DEF Persona, id, steam
  <2> QED
    BY <2>1, <2>2
<1> QED
  BY <1>5, RequestStep DEF Persona, history, Good

\* Requests that are at once at their update.
LEMMA UpdatingGood ==
    ASSUME Good, NEW t \in Tasks, NEW id \in Ids,
           \/ \E steam \in Steam : ConnectSteam(t, id, steam)
           \/ DisconnectSteam(t, id) \/ Touch(t, id)
           \/ \E name \in UserNames : Rename(t, id, name)
    PROVE  Good'
<1>1. Exists(id) /\ id \in used /\ used \subseteq Ids
  BY DEF ConnectSteam, DisconnectSteam, Touch, Rename, Good
<1>2. GoodTask(MarkPresent(id), used)
  BY <1>1, PresentGood
<1>3. ASSUME NEW owner \in Ids, Exists(owner) PROVE GoodTask(MarkPresent(owner), used)
  BY <1>1, <1>3, PresentGood DEF Good
<1>4. ASSUME NEW steam \in Steam \cup {Removed}
      PROVE  GoodTask(Update(id, [Keep EXCEPT !.steam = steam], "present"), used)
  <2>1. [Keep EXCEPT !.steam = steam] \in Patch /\ [Keep EXCEPT !.steam = steam].pins = None
    BY DEF Keep, Patch
  <2> QED
    BY <1>1, <2>1, UpdateGood
<1>5. ASSUME NEW name \in UserNames
      PROVE  GoodTask(Update(id, [Keep EXCEPT !.name = name], "idle"), used)
  <2>1. [Keep EXCEPT !.name = name] \in Patch /\ [Keep EXCEPT !.name = name].pins = None
    BY DEF Keep, Patch
  <2> QED
    BY <1>1, <2>1, UpdateGood
<1>6. \E r : GoodTask(r, used) /\ task' = [task EXCEPT ![t] = r]
  <2>1. ASSUME NEW steam \in Steam, ConnectSteam(t, id, steam)
        PROVE  \E r : GoodTask(r, used) /\ task' = [task EXCEPT ![t] = r]
    BY <2>1, <1>3, <1>4 DEF ConnectSteam, SteamOwners
  <2>2. CASE DisconnectSteam(t, id) \/ Touch(t, id)
    BY <2>2, <1>2, <1>4 DEF DisconnectSteam, Touch
  <2>3. ASSUME NEW name \in UserNames, Rename(t, id, name)
        PROVE  \E r : GoodTask(r, used) /\ task' = [task EXCEPT ![t] = r]
    BY <2>3, <1>5 DEF Rename
  <2> QED
    BY <2>1, <2>2, <2>3
<1>7. /\ Begins /\ UNCHANGED <<accounts, used, catalog, removed>>
      /\ chosen' \in [Ids -> {None} \cup Names]
  BY DEF ConnectSteam, DisconnectSteam, Touch, Rename, Free, history, Good
<1> QED
  BY <1>6, <1>7, RequestStep, BeginsBound DEF Good

LEMMA PinGood ==
    ASSUME Good, NEW t \in Tasks, NEW id \in Ids, NEW s \in Servers, Pin(t, id, s)
    PROVE  Good'
<1> DEFINE patch == [Keep EXCEPT !.pins = {s}]
           r == [IdleTask EXCEPT !.phase = "pin", !.id = id, !.patch = patch]
<1>1. patch \in Patch /\ patch.pins = {s}
  BY DEF Keep, Patch, Pins
<1> HIDE DEF patch
<1>2. id \in used
  BY DEF Pin, Good
<1>3. GoodTask(r, used)
  BY <1>1, <1>2 DEF GoodTask, IdleTask, TaskState
<1>4. removed' \in [Ids -> Pins]
  BY DEF Pin, Good, Pins
<1>5. task' = [task EXCEPT ![t] = r]
  BY DEF Pin, patch
<1> HIDE DEF r
<1> QED
  BY <1>3, <1>4, <1>5, RequestStep, BeginsBound DEF Pin, Free, Good

LEMMA PinFindsUserGood ==
    ASSUME Good, NEW t \in Tasks, PinFindsUser(t)
    PROVE  Good'
<1> DEFINE id == task[t].id
           wanted == task[t].patch.pins
<1>1. id \in Ids /\ id \in used /\ used \subseteq Ids /\ \E s \in Servers : wanted = {s}
  BY DEF PinFindsUser, Good, GoodTask
<1>2. ASSUME Exists(id), ~ (wanted \subseteq accounts[id].pins), ~ LimitReached(accounts[id].pins)
      PROVE  GoodTask(Update(id, [Keep EXCEPT !.pins = accounts[id].pins \cup wanted], "idle"), used)
  <2>1. PICK s \in Servers : wanted = {s}
    BY <1>1
  <2>2. accounts[id].pins \in Pins /\ s \notin accounts[id].pins
    BY <1>1, <1>2, <2>1 DEF Good, Exists, Account
  <2> DEFINE more == accounts[id].pins \cup wanted
  <2>3. more \in Pins /\ Within(more)
    BY <1>2, <2>1, <2>2, AddedWithin
  <2> HIDE DEF more
  <2>4. [Keep EXCEPT !.pins = more] \in Patch /\ [Keep EXCEPT !.pins = more].pins = more
    BY <2>3 DEF Keep, Patch
  <2>5. GoodTask(Update(id, [Keep EXCEPT !.pins = more], "idle"), used)
    BY <1>1, <2>3, <2>4, UpdateGood
  <2> QED
    BY <2>5 DEF more
<1>3. \E r : GoodTask(r, used) /\ task' = [task EXCEPT ![t] = r]
  BY <1>2, IdleGood DEF PinFindsUser
<1> QED
  BY <1>3, RequestStep DEF PinFindsUser, history, Good

\* The catalog goes on or ends with a request of its own.
LEMMA CatalogAfterGood ==
    ASSUME Good, NEW t \in Tasks
    PROVE  GoodCatalog(CatalogAfter(t, "idle")) /\ GoodCatalog(CatalogAfter(t, "replace"))
<1>1. GoodCatalog(IdleCatalog)
  BY EmptyWithin DEF IdleCatalog, GoodCatalog, CatalogState, Pins
<1> QED
  BY <1>1 DEF CatalogAfter, Good, GoodCatalog, CatalogState

LEMMA UpdateReadsGood ==
    ASSUME Good, NEW t \in Tasks, UpdateReads(t)
    PROVE  Good'
<1> DEFINE id == task[t].id
           found == [task[t] EXCEPT !.phase = "save", !.base = accounts[id]]
<1>1. id \in Ids /\ id \in used /\ task[t] \in TaskState /\ GoodTask(task[t], used)
  BY DEF UpdateReads, Good, GoodTask
<1>2. ASSUME Exists(id) PROVE GoodTask(found, used)
  <2>1. accounts[id] \in Account /\ accounts[id] # None /\ Within(accounts[id].pins)
    BY <1>1, <1>2 DEF Good, Exists
  <2> DEFINE document == accounts[id]
  <2> HIDE DEF document
  <2>2. found = [task[t] EXCEPT !.phase = "save", !.base = document]
    BY DEF document
  <2>3. document \in Account /\ document # None /\ Within(document.pins)
    BY <2>1 DEF document
  <2>4. task[t].phase = "read"
    BY DEF UpdateReads
  <2> HIDE DEF found
  <2> QED
    BY <1>1, <2>2, <2>3, <2>4 DEF GoodTask, TaskState
<1>3. \E r : GoodTask(r, used) /\ task' = [task EXCEPT ![t] = r]
  BY <1>2, IdleGood, ContinuationGood DEF UpdateReads
<1>4. task' \in [Tasks -> TaskState] /\ \A o \in Tasks : GoodTask(task'[o], used)
  BY <1>3, TaskStep
<1>5. GoodCatalog(catalog')
  BY CatalogAfterGood DEF UpdateReads, Good
<1>6. UNCHANGED <<accounts, used, begun, chosen, removed>>
  BY DEF UpdateReads, history
<1> QED
  BY <1>4, <1>5, <1>6 DEF Good, Exists, GoodCatalog

LEMMA UpdateSavesGood ==
    ASSUME Good, NEW t \in Tasks, UpdateSaves(t)
    PROVE  Good'
<1> DEFINE id == task[t].id
           account == Patched(task[t].base, task[t].patch)
<1>1. id \in Ids /\ id \in used /\ task[t] \in TaskState /\ GoodTask(task[t], used)
  BY DEF UpdateSaves, Good, GoodTask
<1>2. account \in Account /\ account # None /\ Within(account.pins)
  <2>1. /\ task[t].base \in Account /\ task[t].patch \in Patch /\ Within(task[t].base.pins)
        /\ task[t].patch.pins # None => Within(task[t].patch.pins)
    BY <1>1 DEF UpdateSaves, GoodTask, TaskState
  <2> QED
    BY <2>1, PatchedGood
<1> HIDE DEF account
<1>3. UNCHANGED <<used, begun, removed>>
  BY DEF UpdateSaves
<1>4. \E r : GoodTask(r, used) /\ task' = [task EXCEPT ![t] = r]
  BY IdleGood, ContinuationGood DEF UpdateSaves
<1>5. task' \in [Tasks -> TaskState] /\ \A o \in Tasks : GoodTask(task'[o], used)
  BY <1>4, TaskStep
<1>6. GoodCatalog(catalog')
  BY CatalogAfterGood DEF UpdateSaves, Good
<1>7. accounts' = [accounts EXCEPT ![id] = account] \/ UNCHANGED accounts
  BY DEF UpdateSaves, account
<1>8. /\ accounts' \in [Ids -> {None} \cup Account]
      /\ \A other \in Ids : accounts'[other] # None => other \in used /\ Within(accounts'[other].pins)
  BY <1>1, <1>2, <1>7 DEF Good, Exists
<1>9. chosen' \in [Ids -> {None} \cup Names]
  BY DEF UpdateSaves, Good
<1> QED
  BY <1>3, <1>5, <1>6, <1>8, <1>9 DEF Good, Exists, GoodCatalog

LEMMA TaskFailsGood ==
    ASSUME Good, NEW t \in Tasks, TaskFails(t)
    PROVE  Good'
<1>1. task' \in [Tasks -> TaskState] /\ \A o \in Tasks : GoodTask(task'[o], used)
  BY IdleGood, TaskStep DEF TaskFails
<1>2. GoodCatalog(catalog')
  BY CatalogAfterGood DEF TaskFails
<1>3. UNCHANGED <<accounts, used, begun, chosen, removed>>
  BY DEF TaskFails, history
<1> QED
  BY <1>1, <1>2, <1>3 DEF Good, Exists, GoodCatalog

LEMMA CreateNewGood ==
    ASSUME Good, NEW t \in Tasks, NEW id \in Ids, Create(t, id)
    PROVE  Good'
<1> DEFINE account == task[t].base
<1>1. account \in Account /\ account # None /\ account.pins = {}
  BY DEF Create, Good, GoodTask, TaskState
<1> HIDE DEF account
<1>2. UNCHANGED <<catalog, begun, chosen, removed>> /\ used \subseteq Ids /\ used' \subseteq Ids
  BY DEF Create, history, Good
<1>3. CASE task' = [task EXCEPT ![t] = IdleTask] /\ UNCHANGED <<accounts, used>>
  BY <1>2, <1>3, IdleGood, RequestStep DEF Good
<1>4. CASE /\ task' = [task EXCEPT ![t] = MarkPresent(id)]
           /\ accounts' = [accounts EXCEPT ![id] = account] /\ used' = used \cup {id}
  <2>1. GoodTask(MarkPresent(id), used')
    BY <1>2, <1>4, PresentGood
  <2>2. MarkPresent(id) \in TaskState /\ task \in [Tasks -> TaskState]
    BY <2>1 DEF GoodTask, Good
  <2>3. \A o \in Tasks : task'[o] = IF o = t THEN MarkPresent(id) ELSE task[o]
    BY <1>4, <2>2
  <2>4. \A o \in Tasks : GoodTask(task[o], used')
    BY <1>4 DEF Good, GoodTask
  <2>5. task' \in [Tasks -> TaskState] /\ \A o \in Tasks : GoodTask(task'[o], used')
    BY <1>4, <2>1, <2>2, <2>3, <2>4
  <2>6. /\ accounts' \in [Ids -> {None} \cup Account]
        /\ \A o \in Ids : accounts'[o] # None => o \in used' /\ Within(accounts'[o].pins)
    BY <1>1, <1>4, EmptyWithin DEF Good, Exists
  <2> QED
    BY <1>2, <1>4, <2>5, <2>6 DEF Good, Exists, GoodCatalog
<1> QED
  BY <1>3, <1>4 DEF Create, account

\* Taking a favorite out of a document leaves it well formed and shorter.
LEMMA PullGood ==
    ASSUME Good, NEW id \in Ids, NEW s \in Servers, Exists(id), Pull(id, s),
           UNCHANGED <<used, task, catalog, begun, chosen>>
    PROVE  Good'
<1>1. accounts[id] \in Account /\ accounts[id].pins \in Pins /\ Within(accounts[id].pins)
  BY DEF Good, Exists, Account
<1>2. Without(accounts[id].pins, s) \in Pins /\ Within(Without(accounts[id].pins, s))
  BY <1>1, SubsetWithin DEF Without
<1> DEFINE rest == Without(accounts[id].pins, s)
<1> HIDE DEF rest
<1>3. accounts' = [accounts EXCEPT ![id].pins = rest]
  BY DEF Pull, rest
<1>4. /\ accounts' \in [Ids -> {None} \cup Account]
      /\ \A o \in Ids : accounts'[o] # None => o \in used /\ Within(accounts'[o].pins)
  <2>1. rest \in Pins /\ Within(rest)
    BY <1>2 DEF rest
  <2>2. [accounts[id] EXCEPT !.pins = rest] \in Account
    BY <1>1, <2>1 DEF Account
  <2>3. [accounts[id] EXCEPT !.pins = rest].pins = rest
    BY <1>1 DEF Account
  <2>4. \A o \in Ids : accounts'[o] = IF o = id THEN [accounts[id] EXCEPT !.pins = rest] ELSE accounts[o]
    BY <1>3 DEF Good
  <2>5. accounts' \in [Ids -> {None} \cup Account]
    BY <1>3, <2>2 DEF Good
  <2> QED
    BY <2>1, <2>3, <2>4, <2>5 DEF Good, Exists
<1>5. removed' \in [Ids -> Pins]
  BY DEF Pull, Good, Pins
<1> QED
  BY <1>4, <1>5 DEF Good, Exists, GoodCatalog

LEMMA DeleteGood ==
    ASSUME Good, NEW id \in Ids, Delete(id)
    PROVE  Good'
<1>1. accounts' = [accounts EXCEPT ![id] = None] /\ UNCHANGED <<used, task, catalog, begun, chosen, removed>>
  BY DEF Delete, history
<1> QED
  BY <1>1 DEF Good, Exists, GoodCatalog

LEMMA ReplaceStartsGood ==
    ASSUME Good, NEW old \in Servers, NEW new \in Servers, ReplaceStarts(old, new)
    PROVE  Good'
<1> DEFINE listed == [id \in Ids |-> IF Exists(id) THEN accounts[id].pins ELSE {}]
           left == {id \in Ids : Exists(id)}
<1>1. listed \in [Ids -> Pins] /\ \A id \in Ids : Within(listed[id])
  BY EmptyWithin DEF Good, Exists, Account, Pins
<1>2. left \subseteq used /\ left \subseteq Ids
  BY DEF Good
<1>3. catalog' = [phase |-> "replace", old |-> old, new |-> new, left |-> left, listed |-> listed]
  BY DEF ReplaceStarts
<1> HIDE DEF listed, left
<1>4. GoodCatalog(catalog')
  BY <1>1, <1>2, <1>3 DEF GoodCatalog, CatalogState
<1>5. /\ UNCHANGED <<accounts, used, task, chosen>> /\ begun' \in 0 .. MAX_BEGUN
      /\ removed' \in [Ids -> Pins]
  BY BeginsBound DEF ReplaceStarts, Good, Pins
<1> QED
  BY <1>4, <1>5 DEF Good, Exists, GoodCatalog

LEMMA ReplaceNextGood ==
    ASSUME Good, NEW t \in Tasks, NEW id \in Ids, ReplaceNext(t, id)
    PROVE  Good'
<1> DEFINE next == Replaced(catalog.listed[id])
<1>1. id \in used /\ catalog.old \in Servers /\ catalog.new \in Servers /\ used \subseteq Ids
  BY DEF ReplaceNext, Good, GoodCatalog
<1>2. next \in Pins /\ Within(next)
  BY <1>1, ReplacedWithin DEF Good, GoodCatalog, CatalogState
<1>3. task' = [task EXCEPT ![t] = Update(id, [Keep EXCEPT !.pins = next], "catalog")]
  BY DEF ReplaceNext
<1> HIDE DEF next
<1>4. [Keep EXCEPT !.pins = next] \in Patch /\ [Keep EXCEPT !.pins = next].pins = next
  BY <1>2 DEF Keep, Patch
<1>5. GoodTask(Update(id, [Keep EXCEPT !.pins = next], "catalog"), used)
  BY <1>1, <1>2, <1>4, UpdateGood
<1>6. task' \in [Tasks -> TaskState] /\ \A o \in Tasks : GoodTask(task'[o], used)
  BY <1>3, <1>5, TaskStep
<1>7. GoodCatalog(catalog')
  BY DEF ReplaceNext, Good, GoodCatalog, CatalogState
<1>8. UNCHANGED <<accounts, used, begun, chosen, removed>>
  BY DEF ReplaceNext, history
<1> QED
  BY <1>6, <1>7, <1>8 DEF Good, Exists, GoodCatalog

LEMMA NextGood == Good /\ [Next]_vars => Good'
<1> SUFFICES ASSUME Good, [Next]_vars PROVE Good'
  OBVIOUS
<1>1. ASSUME NEW t \in Tasks, Request(t) PROVE Good'
  BY <1>1, UpdateReadsGood, UpdateSavesGood, TaskFailsGood, PinFindsUserGood, RegisterGood,
     SignInGood, PersonaGood, CreateNewGood, UpdatingGood, ReplaceNextGood, PinGood DEF Request
<1>2. ASSUME NEW id \in Ids, NEW s \in Servers, Unpin(id, s) \/ Prune(id, s) PROVE Good'
  BY <1>2, PullGood DEF Unpin, Prune
<1>3. CASE ReplaceEnds
  <2>1. GoodCatalog(IdleCatalog)
    BY EmptyWithin DEF IdleCatalog, GoodCatalog, CatalogState, Pins
  <2> QED
    BY <1>3, <2>1 DEF ReplaceEnds, history, Good, Exists, GoodCatalog
<1>4. CASE UNCHANGED vars
  BY <1>4 DEF vars, Good, Exists, GoodCatalog, GoodTask
<1> QED
  BY <1>1, <1>2, <1>3, <1>4, DeleteGood, ReplaceStartsGood DEF Next

-----------------------------------------------------------------------------
(* Indexed fields.                                                          *)

LEMMA InitDistinct == Init => UniqueAccounts
  BY DEF Init, UniqueAccounts

\* A document that the indexes admit leaves all of them distinct.
LEMMA AdmittedDistinct ==
    ASSUME Good, UniqueAccounts, NEW id \in Ids, NEW account, Admitted(id, account),
           accounts' = [accounts EXCEPT ![id] = account]
    PROVE  UniqueAccounts'
<1>1. \A o \in Ids : accounts'[o] = IF o = id THEN account ELSE accounts[o]
  BY DEF Good
<1> QED
  BY <1>1 DEF UniqueAccounts, Distinct, Admitted, Exists

LEMMA NextDistinct == Good /\ UniqueAccounts /\ [Next]_vars => UniqueAccounts'
<1> SUFFICES ASSUME Good, UniqueAccounts, [Next]_vars PROVE UniqueAccounts'
  OBVIOUS
<1>1. CASE UNCHANGED accounts
  BY <1>1 DEF UniqueAccounts, Distinct
<1>2. ASSUME NEW t \in Tasks, UpdateSaves(t) PROVE UniqueAccounts'
  <2>1. task[t].id \in Ids
    BY <1>2 DEF UpdateSaves, Good, GoodTask, TaskState
  <2> QED
    BY <1>1, <1>2, <2>1, AdmittedDistinct DEF UpdateSaves
<1>3. ASSUME NEW t \in Tasks, NEW id \in Ids, Create(t, id) PROVE UniqueAccounts'
  BY <1>1, <1>3, AdmittedDistinct DEF Create
<1>4. ASSUME NEW id \in Ids, NEW s \in Servers, Exists(id), Pull(id, s) PROVE UniqueAccounts'
  <2> DEFINE rest == Without(accounts[id].pins, s)
  <2>1. accounts[id] \in Account
    BY <1>4 DEF Good, Exists
  <2>2. accounts' = [accounts EXCEPT ![id].pins = rest]
    BY <1>4 DEF Pull
  <2> HIDE DEF rest
  <2>3. \A o \in Ids : accounts'[o] = IF o = id THEN [accounts[id] EXCEPT !.pins = rest] ELSE accounts[o]
    BY <2>2 DEF Good
  <2>4. /\ [accounts[id] EXCEPT !.pins = rest].email = accounts[id].email
        /\ [accounts[id] EXCEPT !.pins = rest].name = accounts[id].name
        /\ [accounts[id] EXCEPT !.pins = rest].steam = accounts[id].steam
    BY <2>1 DEF Account
  <2>5. \A o \in Ids : accounts'[o] # None =>
           /\ accounts[o] # None
           /\ accounts'[o].email = accounts[o].email
           /\ accounts'[o].name = accounts[o].name
           /\ accounts'[o].steam = accounts[o].steam
    BY <1>4, <2>3, <2>4 DEF Exists
  <2> QED
    BY <2>5 DEF UniqueAccounts, Distinct
<1>5. ASSUME NEW id \in Ids, Delete(id) PROVE UniqueAccounts'
  <2>1. \A o \in Ids : accounts'[o] = IF o = id THEN None ELSE accounts[o]
    BY <1>5 DEF Delete, Good
  <2> QED
    BY <2>1 DEF UniqueAccounts, Distinct
<1>6. ASSUME NEW t \in Tasks, Request(t) PROVE UniqueAccounts'
  BY <1>1, <1>2, <1>3, <1>6
     DEF Request, UpdateReads, TaskFails, PinFindsUser, Register, SignIn, Persona, Touch,
         DisconnectSteam, ReplaceNext, ConnectSteam, Rename, Pin
<1> QED
  BY <1>1, <1>4, <1>5, <1>6 DEF Next, Unpin, Prune, ReplaceStarts, ReplaceEnds, vars

-----------------------------------------------------------------------------
(* Chosen names.                                                            *)

\* The request brings the account no other name.
NameHeld(r, id) ==
    r.id = id => /\ r.patch.name = None
                 /\ r.phase # "persona"
                 /\ r.phase = "save" => r.base.name = chosen[id]

NameInv ==
    \A id \in Ids : chosen[id] # None =>
        /\ id \in used
        /\ Exists(id) => accounts[id].name = chosen[id]
        /\ \A t \in Tasks : NameHeld(task[t], id)

LEMMA InitName == Init => NameInv
  BY DEF Init, NameInv

LEMMA NameStep ==
    ASSUME Good, NameInv, NEW t \in Tasks, NEW r, task' = [task EXCEPT ![t] = r],
           UNCHANGED accounts, used \subseteq used',
           \A id \in Ids : chosen'[id] # None => chosen'[id] = chosen[id] /\ NameHeld(r, id)
    PROVE  NameInv'
<1>1. \A o \in Tasks : task'[o] = IF o = t THEN r ELSE task[o]
  BY DEF Good
<1>2. ASSUME NEW id \in Ids, chosen'[id] # None
      PROVE  /\ id \in used'
             /\ accounts'[id] # None => accounts'[id].name = chosen'[id]
             /\ \A o \in Tasks : task'[o].id = id =>
                    /\ task'[o].patch.name = None
                    /\ task'[o].phase # "persona"
                    /\ task'[o].phase = "save" => task'[o].base.name = chosen'[id]
  BY <1>1, <1>2 DEF NameInv, NameHeld, Exists
<1> QED
  BY <1>2 DEF NameInv, NameHeld, Exists

LEMMA PlainHeld ==
    ASSUME NEW id \in Ids
    PROVE  /\ NameHeld(IdleTask, id)
           /\ \A owner, patch, next : patch.name = None => NameHeld(Update(owner, patch, next), id)
           /\ \A owner : NameHeld(MarkPresent(owner), id)
           /\ \A email, steam, name : NameHeld(CreateTask(email, steam, name), id)
<1>1. /\ IdleTask.id = None /\ IdleTask.phase = "idle" /\ Keep.name = None /\ id # None
  BY DEF IdleTask, Keep
<1>2. NameHeld(IdleTask, id)
  BY <1>1 DEF NameHeld
<1>3. \A owner, patch, next :
         Update(owner, patch, next).patch = patch /\ Update(owner, patch, next).phase = "read"
  BY DEF Update, IdleTask
<1>4. \A email, steam, name : CreateTask(email, steam, name).id = None
  BY DEF CreateTask, IdleTask
<1> QED
  BY <1>1, <1>2, <1>3, <1>4 DEF NameHeld, MarkPresent

\* The requests that bring no name.
LEMMA PlainStep ==
    ASSUME Good, NameInv, NEW t \in Tasks, NEW r, task' = [task EXCEPT ![t] = r],
           UNCHANGED <<accounts, used, chosen>>, \A id \in Ids : NameHeld(r, id)
    PROVE  NameInv'
  BY NameStep

\* The patches that bring no name.
LEMMA PlainPatch ==
    /\ \A pins : [Keep EXCEPT !.pins = pins].name = None
    /\ \A steam : [Keep EXCEPT !.steam = steam].name = None
  BY DEF Keep

LEMMA UpdateHeld ==
    ASSUME NEW id \in Ids, NEW owner, NEW next, NEW patch, patch.name = None
    PROVE  NameHeld(Update(owner, patch, next), id)
  BY PlainHeld

LEMMA ContinuationHeld ==
    ASSUME NEW t \in Tasks, NEW id \in Ids PROVE NameHeld(Continuation(t), id)
  BY PlainHeld DEF Continuation

\* A name that a user chose does not look generated.
LEMMA ChosenNotGenerated ==
    ASSUME Good, NameInv, NEW id \in Ids, Exists(id), NEW steam \in Steam, GeneratedName(id, steam)
    PROVE  chosen[id] = None
<1>1. Generated(steam, 0) \notin Names
  BY DEF Generated
<1> QED
  BY <1>1 DEF Good, NameInv, GeneratedName

LEMMA RequestName ==
    ASSUME Good, NameInv, NEW t \in Tasks, Request(t) PROVE NameInv'
<1>1. CASE UpdateReads(t)
  <2> DEFINE id == task[t].id
             r == [task[t] EXCEPT !.phase = "save", !.base = accounts[id]]
  <2>1. CASE Exists(id)
    <3>1. task[t] \in TaskState /\ id \in Ids
      BY <1>1 DEF UpdateReads, Good, GoodTask, TaskState
    <3>2. r.id = id /\ r.patch = task[t].patch /\ r.phase = "save" /\ r.base = accounts[id]
      BY <3>1 DEF TaskState
    <3>3. task' = [task EXCEPT ![t] = r] /\ UNCHANGED <<accounts, used, chosen>>
      BY <1>1, <2>1 DEF UpdateReads, history
    <3> HIDE DEF r
    <3>4. ASSUME NEW o \in Ids, chosen[o] # None, r.id = o
          PROVE  r.patch.name = None /\ r.phase # "persona" /\ r.base.name = chosen[o]
      <4>1. o = id
        BY <3>2, <3>4
      <4>2. task[t].patch.name = None /\ accounts[id].name = chosen[id]
        BY <2>1, <3>4, <4>1 DEF NameInv, NameHeld
      <4> QED
        BY <3>2, <4>1, <4>2
    <3>5. \A o \in Ids : chosen[o] # None => NameHeld(r, o)
      BY <3>4 DEF NameHeld
    <3> QED
      BY <3>3, <3>5, NameStep
  <2>2. CASE ~ Exists(id)
    <3>1. UNCHANGED <<accounts, used, chosen>>
      BY <1>1 DEF UpdateReads, history
    <3> QED
      BY <1>1, <2>2, <3>1, NameStep, ContinuationHeld, PlainHeld DEF UpdateReads
  <2> QED
    BY <2>1, <2>2
<1>2. CASE UpdateSaves(t)
  <2> DEFINE id == task[t].id
             account == Patched(task[t].base, task[t].patch)
  <2>1. CASE ~ Admitted(id, account)
    BY <1>2, <2>1, NameStep, PlainHeld DEF UpdateSaves
  <2>2. CASE Admitted(id, account)
    <3> DEFINE r == Continuation(t)
    <3>1. /\ accounts' = [accounts EXCEPT ![id] = account] /\ task' = [task EXCEPT ![t] = r]
          /\ UNCHANGED used /\ id \in used /\ id \in Ids
      BY <1>2, <2>2 DEF UpdateSaves, Good, GoodTask, TaskState
    <3>2. account.name = IF task[t].patch.name = None THEN task[t].base.name ELSE task[t].patch.name
      <4>1. task[t].base \in Account
        BY <1>2 DEF UpdateSaves, Good, GoodTask, TaskState
      <4> QED
        BY <4>1 DEF Patched, Account
    <3>3. \/ UNCHANGED chosen
          \/ /\ chosen' = [chosen EXCEPT ![id] = task[t].patch.name]
             /\ task[t].patch.name \in Names
             /\ \A o \in Tasks \ {t} : task[o].id # id
      BY <1>2, <2>2 DEF UpdateSaves, Undisturbed
    <3> HIDE DEF account, r
    <3>4. \A o \in Tasks : task'[o] = IF o = t THEN r ELSE task[o]
      BY <3>1 DEF Good
    <3>5. \A o \in Ids : accounts'[o] = IF o = id THEN account ELSE accounts[o]
      BY <3>1 DEF Good
    <3>6. \A o \in Ids : r.id = o => r.patch.name = None /\ r.phase \notin {"persona", "save"}
      <4>1. r = IdleTask \/ r = MarkPresent(id)
        BY DEF r, Continuation
      <4>2. IdleTask.id = None
        BY DEF IdleTask
      <4>3. MarkPresent(id).patch = Keep /\ MarkPresent(id).phase = "read" /\ Keep.name = None
        BY DEF IdleTask, MarkPresent, Update, Keep
      <4> QED
        BY <4>1, <4>2, <4>3
    <3>7. CASE UNCHANGED chosen
      <4>1. ASSUME NEW o \in Ids, chosen[o] # None, accounts'[o] # None PROVE accounts'[o].name = chosen[o]
        <5>1. CASE o = id
          BY <1>2, <3>2, <3>5, <4>1, <5>1 DEF UpdateSaves, NameInv, NameHeld
        <5>2. CASE o # id
          BY <3>5, <4>1, <5>2 DEF NameInv, Exists
        <5> QED
          BY <5>1, <5>2
      <4> QED
        BY <3>1, <3>4, <3>6, <3>7, <4>1 DEF NameInv, NameHeld, Exists
    <3>8. CASE /\ chosen' = [chosen EXCEPT ![id] = task[t].patch.name]
               /\ task[t].patch.name \in Names
               /\ \A o \in Tasks \ {t} : task[o].id # id
      <4>1. \A o \in Ids : chosen'[o] = IF o = id THEN task[t].patch.name ELSE chosen[o]
        BY <3>8 DEF Good
      <4>2. account.name = task[t].patch.name
        BY <3>2, <3>8
      <4>3. ASSUME NEW o \in Ids, o # id, chosen'[o] # None
            PROVE  /\ o \in used'
                   /\ accounts'[o] # None => accounts'[o].name = chosen'[o]
                   /\ \A u \in Tasks : task'[u].id = o =>
                         /\ task'[u].patch.name = None /\ task'[u].phase # "persona"
                         /\ task'[u].phase = "save" => task'[u].base.name = chosen'[o]
        BY <3>1, <3>4, <3>5, <3>6, <4>1, <4>3 DEF NameInv, NameHeld, Exists
      <4>4. /\ id \in used'
            /\ accounts'[id].name = chosen'[id]
            /\ \A u \in Tasks : task'[u].id = id =>
                  /\ task'[u].patch.name = None /\ task'[u].phase # "persona"
                  /\ task'[u].phase = "save" => task'[u].base.name = chosen'[id]
        BY <3>1, <3>4, <3>5, <3>6, <3>8, <4>1, <4>2
      <4> QED
        BY <4>3, <4>4 DEF NameInv, NameHeld, Exists
    <3> QED
      BY <3>3, <3>7, <3>8
  <2> QED
    BY <2>1, <2>2
<1>3. CASE TaskFails(t) \/ PinFindsUser(t)
  <2>1. UNCHANGED <<accounts, used, chosen>>
    BY <1>3 DEF TaskFails, PinFindsUser, history
  <2> DEFINE patch == [Keep EXCEPT !.pins = accounts[task[t].id].pins \cup task[t].patch.pins]
  <2>2. patch.name = None
    BY PlainPatch
  <2>3. \/ task' = [task EXCEPT ![t] = IdleTask]
        \/ task' = [task EXCEPT ![t] = Update(task[t].id, patch, "idle")]
    BY <1>3 DEF TaskFails, PinFindsUser
  <2> HIDE DEF patch
  <2>4. /\ \A id \in Ids : NameHeld(IdleTask, id)
        /\ \A id \in Ids : NameHeld(Update(task[t].id, patch, "idle"), id)
    BY <2>2, PlainHeld, UpdateHeld
  <2> QED
    BY <2>1, <2>3, <2>4, PlainStep
<1>4. ASSUME NEW email \in Emails, NEW name \in UserNames, NEW steam \in Steam \cup {None},
             Register(t, email, name, steam)
      PROVE  NameInv'
  <2>1. \A id \in Ids : NameHeld(CreateTask(email, steam, name), id)
    BY PlainHeld
  <2>2. UNCHANGED <<accounts, used, chosen>>
    BY <1>4 DEF Register, history
  <2> QED
    BY <1>4, <2>1, <2>2, PlainStep DEF Register
<1>5. ASSUME NEW steam \in Steam, SignIn(t, steam) PROVE NameInv'
  <2> DEFINE patch == [Keep EXCEPT !.steam = steam]
             lookup(owner) == [IdleTask EXCEPT !.phase = "persona", !.id = owner, !.patch = patch]
  <2>1. \A owner : lookup(owner).id = owner
    BY DEF IdleTask
  <2>2. \A id \in Ids : NameHeld(lookup(None), id)
    BY <2>1 DEF NameHeld
  <2>3. ASSUME NEW owner \in SteamOwners(steam), GeneratedName(owner, steam), NEW id \in Ids,
               chosen[id] # None
        PROVE  NameHeld(lookup(owner), id)
    BY <2>1, <2>3, ChosenNotGenerated DEF NameHeld, SteamOwners
  <2>4. UNCHANGED <<accounts, used, chosen>>
    BY <1>5 DEF SignIn, history
  <2>5. \E r : task' = [task EXCEPT ![t] = r] /\ \A id \in Ids : chosen[id] # None => NameHeld(r, id)
    <3>1. CASE task' = [task EXCEPT ![t] = lookup(None)]
      BY <3>1, <2>2
    <3>2. ASSUME NEW owner \in SteamOwners(steam), GeneratedName(owner, steam),
                 task' = [task EXCEPT ![t] = lookup(owner)]
          PROVE  \E r : task' = [task EXCEPT ![t] = r]
                        /\ \A id \in Ids : chosen[id] # None => NameHeld(r, id)
      BY <3>2, <2>3
    <3>3. ASSUME NEW owner \in SteamOwners(steam), task' = [task EXCEPT ![t] = MarkPresent(owner)]
          PROVE  \E r : task' = [task EXCEPT ![t] = r]
                        /\ \A id \in Ids : chosen[id] # None => NameHeld(r, id)
      BY <3>3, PlainHeld
    <3> QED
      BY <1>5, <3>1, <3>2, <3>3 DEF SignIn
  <2> QED
    BY <2>4, <2>5, NameStep
<1>6. ASSUME NEW answer \in Names \cup {None}, Persona(t, answer) PROVE NameInv'
  <2> DEFINE id == task[t].id
  <2>1. id \in Ids => chosen[id] = None
    BY <1>6 DEF Persona, NameInv, NameHeld
  <2>2. ASSUME NEW o \in Ids, chosen[o] # None
        PROVE  NameHeld(Update(id, [Keep EXCEPT !.name = answer], "present"), o)
    <3>1. Update(id, [Keep EXCEPT !.name = answer], "present").id = id
      BY DEF Update, IdleTask
    <3> QED
      BY <2>1, <2>2, <3>1 DEF NameHeld
  <2>3. UNCHANGED <<accounts, used, chosen>>
    BY <1>6 DEF Persona, history
  <2>4. \E r : task' = [task EXCEPT ![t] = r] /\ \A o \in Ids : chosen[o] # None => NameHeld(r, o)
    BY <1>6, <2>2, PlainHeld DEF Persona
  <2> QED
    BY <2>3, <2>4, NameStep
<1>7. ASSUME NEW id \in Ids, Create(t, id) PROVE NameInv'
  <2>1. UNCHANGED chosen /\ chosen[id] = None
    BY <1>7 DEF Create, history, NameInv
  <2>2. CASE UNCHANGED <<accounts, used>> /\ task' = [task EXCEPT ![t] = IdleTask]
    BY <2>1, <2>2, NameStep, PlainHeld
  <2>3. CASE /\ accounts' = [accounts EXCEPT ![id] = task[t].base] /\ used' = used \cup {id}
             /\ task' = [task EXCEPT ![t] = MarkPresent(id)]
    <3>1. \A o \in Ids : o # id => accounts'[o] = accounts[o]
      BY <2>3 DEF Good
    <3>2. \A u \in Tasks : task'[u] = IF u = t THEN MarkPresent(id) ELSE task[u]
      BY <2>3 DEF Good
    <3>3. ASSUME NEW o \in Ids, chosen'[o] # None
          PROVE  /\ o \in used'
                 /\ accounts'[o] # None => accounts'[o].name = chosen'[o]
                 /\ \A u \in Tasks : task'[u].id = o =>
                       /\ task'[u].patch.name = None /\ task'[u].phase # "persona"
                       /\ task'[u].phase = "save" => task'[u].base.name = chosen'[o]
      <4>1. o # id /\ chosen[o] # None /\ chosen'[o] = chosen[o]
        BY <2>1, <3>3
      <4>2. MarkPresent(id).id = id
        BY DEF MarkPresent, Update, IdleTask
      <4> QED
        BY <2>3, <3>1, <3>2, <4>1, <4>2 DEF NameInv, NameHeld, Exists
    <3> QED
      BY <3>3 DEF NameInv, NameHeld, Exists
  <2> QED
    BY <1>7, <2>2, <2>3 DEF Create
<1>8. ASSUME NEW id \in Ids, NEW steam \in Steam, ConnectSteam(t, id, steam)
      PROVE  NameInv'
  <2> DEFINE patch == [Keep EXCEPT !.steam = steam]
  <2>1. UNCHANGED <<accounts, used, chosen>>
    BY <1>8 DEF ConnectSteam, history
  <2>2. patch.name = None
    BY PlainPatch
  <2>3. \/ task' = [task EXCEPT ![t] = Update(id, patch, "present")]
        \/ \E owner \in Ids : task' = [task EXCEPT ![t] = MarkPresent(owner)]
    BY <1>8 DEF ConnectSteam, SteamOwners
  <2> HIDE DEF patch
  <2>4. /\ \A o \in Ids : NameHeld(Update(id, patch, "present"), o)
        /\ \A owner, o \in Ids : NameHeld(MarkPresent(owner), o)
    BY <2>2, PlainHeld, UpdateHeld
  <2> QED
    BY <2>1, <2>3, <2>4, PlainStep
<1>9. ASSUME NEW id \in Ids, NEW name \in UserNames, Rename(t, id, name) PROVE NameInv'
  <2> DEFINE r == Update(id, [Keep EXCEPT !.name = name], "idle")
  <2>1. r.id = id
    BY DEF Update, IdleTask
  <2>2. \A o \in Ids : chosen'[o] = IF o = id THEN None ELSE chosen[o]
    BY <1>9 DEF Rename, Good
  <2>3. \A o \in Ids : chosen'[o] # None => chosen'[o] = chosen[o] /\ NameHeld(r, o)
    BY <2>1, <2>2 DEF NameHeld
  <2>4. task' = [task EXCEPT ![t] = r] /\ UNCHANGED <<accounts, used>>
    BY <1>9 DEF Rename
  <2> HIDE DEF r
  <2> QED
    BY <2>3, <2>4, NameStep
<1>10. ASSUME NEW id \in Ids, NEW s \in Servers, Pin(t, id, s) PROVE NameInv'
  <2>1. ASSUME NEW pins PROVE [Keep EXCEPT !.pins = pins].name = None
    BY DEF Keep
  <2> DEFINE r == [IdleTask EXCEPT !.phase = "pin", !.id = id, !.patch = [Keep EXCEPT !.pins = {s}]]
  <2>2. r.phase = "pin" /\ r.patch.name = None
    BY <2>1 DEF IdleTask
  <2>3. \A o \in Ids : NameHeld(r, o)
    BY <2>2 DEF NameHeld
  <2>4. UNCHANGED <<accounts, used, chosen>>
    BY <1>10 DEF Pin, history
  <2>5. \E q : task' = [task EXCEPT ![t] = q] /\ \A o \in Ids : NameHeld(q, o)
    BY <1>10, <2>3 DEF Pin
  <2> QED
    BY <2>4, <2>5, NameStep
<1>11. ASSUME NEW id \in Ids, ReplaceNext(t, id) PROVE NameInv'
  <2> DEFINE patch == [Keep EXCEPT !.pins = Replaced(catalog.listed[id])]
  <2>1. UNCHANGED <<accounts, used, chosen>> /\ patch.name = None
    BY <1>11, PlainPatch DEF ReplaceNext, history
  <2>2. task' = [task EXCEPT ![t] = Update(id, patch, "catalog")]
    BY <1>11 DEF ReplaceNext
  <2> HIDE DEF patch
  <2>3. \A o \in Ids : NameHeld(Update(id, patch, "catalog"), o)
    BY <2>1, UpdateHeld
  <2> QED
    BY <2>1, <2>2, <2>3, PlainStep
<1>12. ASSUME NEW id \in Ids, DisconnectSteam(t, id) \/ Touch(t, id) PROVE NameInv'
  <2> DEFINE patch == [Keep EXCEPT !.steam = Removed]
  <2>1. UNCHANGED <<accounts, used, chosen>> /\ patch.name = None
    BY <1>12, PlainPatch DEF DisconnectSteam, Touch, history
  <2>2. \/ task' = [task EXCEPT ![t] = Update(id, patch, "present")]
        \/ task' = [task EXCEPT ![t] = MarkPresent(id)]
    BY <1>12 DEF DisconnectSteam, Touch
  <2> HIDE DEF patch
  <2>3. /\ \A o \in Ids : NameHeld(Update(id, patch, "present"), o)
        /\ \A o \in Ids : NameHeld(MarkPresent(id), o)
    BY <2>1, PlainHeld, UpdateHeld
  <2> QED
    BY <2>1, <2>2, <2>3, PlainStep
<1> QED
  BY <1>1, <1>2, <1>3, <1>4, <1>5, <1>6, <1>7, <1>8, <1>9, <1>10, <1>11, <1>12 DEF Request

LEMMA NextName == Good /\ NameInv /\ [Next]_vars => NameInv'
<1> SUFFICES ASSUME Good, NameInv, [Next]_vars PROVE NameInv'
  OBVIOUS
<1>1. ASSUME UNCHANGED <<used, task, chosen>>,
             \A id \in Ids : accounts'[id] # None =>
                 Exists(id) /\ accounts'[id].name = accounts[id].name
      PROVE  NameInv'
  BY <1>1 DEF NameInv, NameHeld, Exists
<1>2. ASSUME NEW id \in Ids, Delete(id) PROVE NameInv'
  <2>1. \A o \in Ids : accounts'[o] = IF o = id THEN None ELSE accounts[o]
    BY <1>2 DEF Delete, Good
  <2> QED
    BY <1>1, <1>2, <2>1 DEF Delete, history, Exists
<1>3. ASSUME NEW id \in Ids, NEW s \in Servers, Unpin(id, s) \/ Prune(id, s) PROVE NameInv'
  <2> DEFINE rest == Without(accounts[id].pins, s)
  <2>1. accounts[id] \in Account
    BY <1>3 DEF Good, Exists, Unpin, Prune
  <2>2. accounts' = [accounts EXCEPT ![id].pins = rest] /\ Exists(id)
    BY <1>3 DEF Pull, Unpin, Prune
  <2> HIDE DEF rest
  <2>3. \A o \in Ids : accounts'[o] = IF o = id THEN [accounts[id] EXCEPT !.pins = rest] ELSE accounts[o]
    BY <2>2 DEF Good
  <2>4. [accounts[id] EXCEPT !.pins = rest].name = accounts[id].name
    BY <2>1 DEF Account
  <2> QED
    BY <1>1, <1>3, <2>2, <2>3, <2>4 DEF Unpin, Prune, Exists
<1>4. ASSUME NEW old \in Servers, NEW new \in Servers, ReplaceStarts(old, new) PROVE NameInv'
  BY <1>1, <1>4 DEF ReplaceStarts, Exists
<1>5. CASE ReplaceEnds \/ UNCHANGED vars
  BY <1>1, <1>5 DEF ReplaceEnds, history, vars, Exists
<1> QED
  BY <1>2, <1>3, <1>4, <1>5, RequestName DEF Next

-----------------------------------------------------------------------------
(* Removed favorites.                                                       *)

\* The request does not bring the account one of these favorites back.
PinsHeld(r, id, gone) ==
    r.id = id => /\ r.phase = "save" => r.base.pins \cap gone = {}
                 /\ r.patch.pins # None => r.patch.pins \cap gone = {}

PinsInv ==
    \A id \in Ids :
        /\ removed[id] # {} => id \in used
        /\ Exists(id) => accounts[id].pins \cap removed[id] = {}
        /\ \A t \in Tasks : PinsHeld(task[t], id, removed[id])
        /\ id \in catalog.left => /\ catalog.listed[id] \cap removed[id] = {}
                                  /\ catalog.new \notin removed[id]

LEMMA InitPins == Init => PinsInv
  BY DEF Init, PinsInv, PinsHeld, IdleTask, IdleCatalog, Keep

\* What an update brings is what its patch brings.
LEMMA UpdatePins ==
    ASSUME NEW id \in Ids, NEW gone, NEW owner, NEW next, NEW patch,
           owner = id /\ patch.pins # None => patch.pins \cap gone = {}
    PROVE  PinsHeld(Update(owner, patch, next), id, gone)
<1>1. /\ Update(owner, patch, next).patch = patch /\ Update(owner, patch, next).id = owner
      /\ Update(owner, patch, next).phase = "read"
  BY DEF Update, IdleTask
<1> QED
  BY <1>1 DEF PinsHeld

LEMMA OtherPins ==
    ASSUME NEW id \in Ids, NEW gone
    PROVE  /\ PinsHeld(IdleTask, id, gone)
           /\ \A owner : PinsHeld(MarkPresent(owner), id, gone)
           /\ \A email, steam, name : PinsHeld(CreateTask(email, steam, name), id, gone)
<1>1. IdleTask.id = None /\ id # None
  BY DEF IdleTask
<1>2. \A email, steam, name : CreateTask(email, steam, name).id = None
  BY DEF CreateTask, IdleTask
<1> QED
  BY <1>1, <1>2, KeepPatch, UpdatePins DEF PinsHeld, MarkPresent

\* A request goes on that brings no removed favorite.
LEMMA PinsStep ==
    ASSUME Good, PinsInv, NEW t \in Tasks, NEW r, task' = [task EXCEPT ![t] = r],
           UNCHANGED <<accounts, used, removed>>,
           catalog'.left \subseteq catalog.left, catalog'.left # {} => UNCHANGED <<catalog.listed, catalog.new>>,
           \A id \in Ids : PinsHeld(r, id, removed[id])
    PROVE  PinsInv'
<1>1. \A o \in Tasks : task'[o] = IF o = t THEN r ELSE task[o]
  BY DEF Good
<1>2. \A id \in Ids, o \in Tasks : PinsHeld(task'[o], id, removed[id])
  BY <1>1 DEF PinsInv
<1> QED
  BY <1>2 DEF PinsInv, PinsHeld, Exists

\* ... and leaves the catalog alone.
LEMMA PinsStutter ==
    ASSUME Good, PinsInv, NEW t \in Tasks, NEW r, task' = [task EXCEPT ![t] = r],
           UNCHANGED <<accounts, used, catalog, removed>>,
           \A id \in Ids : PinsHeld(r, id, removed[id])
    PROVE  PinsInv'
  BY PinsStep

\* Such a step is one to marking a user, to creating one, or to an update
\* whose patch has no favorites.
LEMMA PinsFree ==
    ASSUME Good, PinsInv, NEW t \in Tasks, UNCHANGED <<accounts, used, catalog, removed>>,
           \/ \E owner : task' = [task EXCEPT ![t] = MarkPresent(owner)]
           \/ \E email, steam, name : task' = [task EXCEPT ![t] = CreateTask(email, steam, name)]
           \/ \E owner, patch, next :
                 /\ patch.pins = None
                 /\ task' = [task EXCEPT ![t] = Update(owner, patch, next)]
    PROVE  PinsInv'
<1>1. ASSUME NEW owner, task' = [task EXCEPT ![t] = MarkPresent(owner)] PROVE PinsInv'
  <2>1. \A id \in Ids : PinsHeld(MarkPresent(owner), id, removed[id])
    BY OtherPins
  <2> QED
    BY <1>1, <2>1, PinsStutter
<1>2. ASSUME NEW email, NEW steam, NEW name,
             task' = [task EXCEPT ![t] = CreateTask(email, steam, name)]
      PROVE  PinsInv'
  <2>1. \A id \in Ids : PinsHeld(CreateTask(email, steam, name), id, removed[id])
    BY OtherPins
  <2> QED
    BY <1>2, <2>1, PinsStutter
<1>3. ASSUME NEW owner, NEW patch, NEW next, patch.pins = None,
             task' = [task EXCEPT ![t] = Update(owner, patch, next)]
      PROVE  PinsInv'
  <2>1. \A id \in Ids : PinsHeld(Update(owner, patch, next), id, removed[id])
    BY <1>3, UpdatePins
  <2> QED
    BY <1>3, <2>1, PinsStutter
<1> QED
  BY <1>1, <1>2, <1>3

LEMMA CatalogAfterLeft ==
    ASSUME Good, NEW t \in Tasks, NEW phase, catalog' = CatalogAfter(t, phase) \/ UNCHANGED catalog
    PROVE  /\ catalog'.left \subseteq catalog.left
           /\ catalog'.left # {} => UNCHANGED <<catalog.listed, catalog.new>>
  BY DEF CatalogAfter, IdleCatalog, Good, GoodCatalog, CatalogState

LEMMA RequestPins ==
    ASSUME Good, PinsInv, NEW t \in Tasks, Request(t) PROVE PinsInv'
<1> USE DEF history
<1>1. CASE UpdateReads(t)
  <2> DEFINE id == task[t].id
             r == [task[t] EXCEPT !.phase = "save", !.base = accounts[id]]
  <2>1. UNCHANGED <<accounts, used, removed>>
    BY <1>1 DEF UpdateReads
  <2>2. catalog' = CatalogAfter(t, "replace") \/ UNCHANGED catalog
    BY <1>1 DEF UpdateReads
  <2>3. CASE Exists(id)
    <3>1. task[t] \in TaskState /\ id \in Ids
      BY <1>1 DEF UpdateReads, Good, GoodTask, TaskState
    <3>2. r.id = id /\ r.patch = task[t].patch /\ r.phase = "save" /\ r.base = accounts[id]
      BY <3>1 DEF TaskState
    <3>3. task' = [task EXCEPT ![t] = r]
      BY <1>1, <2>3 DEF UpdateReads
    <3> HIDE DEF r
    <3>4. \A o \in Ids : PinsHeld(r, o, removed[o])
      BY <2>3, <3>2 DEF PinsInv, PinsHeld
    <3> QED
      BY <2>1, <2>2, <3>3, <3>4, CatalogAfterLeft, PinsStep
  <2>4. CASE ~ Exists(id)
    <3>1. task' = [task EXCEPT ![t] = IdleTask] \/ task' = [task EXCEPT ![t] = MarkPresent(id)]
      BY <1>1, <2>4 DEF UpdateReads, Continuation
    <3> QED
      BY <2>1, <2>2, <3>1, OtherPins, CatalogAfterLeft, PinsStep
  <2> QED
    BY <2>3, <2>4
<1>2. CASE UpdateSaves(t)
  <2> DEFINE id == task[t].id
             account == Patched(task[t].base, task[t].patch)
  <2>1. task' = [task EXCEPT ![t] = IdleTask] \/ task' = [task EXCEPT ![t] = MarkPresent(id)]
    BY <1>2 DEF UpdateSaves, Continuation
  <2>2. UNCHANGED <<used, removed>> /\ id \in Ids
    BY <1>2 DEF UpdateSaves, Good, GoodTask, TaskState
  <2>3. catalog' = CatalogAfter(t, "replace") \/ catalog' = CatalogAfter(t, "idle")
    BY <1>2 DEF UpdateSaves
  <2>4. account.pins = IF task[t].patch.pins = None THEN task[t].base.pins ELSE task[t].patch.pins
    <3>1. task[t].base \in Account
      BY <1>2 DEF UpdateSaves, Good, GoodTask, TaskState
    <3> QED
      BY <3>1 DEF Patched, Account
  <2>5. accounts' = [accounts EXCEPT ![id] = account] \/ UNCHANGED accounts
    BY <1>2 DEF UpdateSaves
  <2>6. task[t].phase = "save"
    BY <1>2 DEF UpdateSaves
  <2> HIDE DEF account
  <2>7. \A o \in Ids : accounts'[o] # None => accounts'[o].pins \cap removed[o] = {}
    <3>1. account.pins \cap removed[id] = {}
      BY <2>2, <2>4, <2>6 DEF PinsInv, PinsHeld
    <3>2. CASE UNCHANGED accounts
      BY <3>2 DEF PinsInv, Exists
    <3>3. CASE accounts' = [accounts EXCEPT ![id] = account]
      <4>1. \A o \in Ids : accounts'[o] = IF o = id THEN account ELSE accounts[o]
        BY <3>3 DEF Good
      <4> QED
        BY <3>1, <4>1 DEF PinsInv, Exists
    <3> QED
      BY <2>5, <3>2, <3>3
  <2>8. \A o \in Ids, u \in Tasks : PinsHeld(task'[u], o, removed[o])
    <3>1. \A o \in Ids : PinsHeld(IdleTask, o, removed[o]) /\ PinsHeld(MarkPresent(id), o, removed[o])
      BY OtherPins
    <3>2. \A u \in Tasks : task'[u] \in {task[u], IdleTask, MarkPresent(id)}
      BY <2>1 DEF Good
    <3> QED
      BY <3>1, <3>2 DEF PinsInv
  <2>9. /\ catalog'.left \subseteq catalog.left
        /\ catalog'.left # {} => UNCHANGED <<catalog.listed, catalog.new>>
    BY <2>3, CatalogAfterLeft
  <2> QED
    BY <2>2, <2>7, <2>8, <2>9 DEF PinsInv, PinsHeld, Exists
<1>3. CASE TaskFails(t)
  <2>1. catalog' = CatalogAfter(t, "idle") /\ UNCHANGED <<accounts, used, removed>>
    BY <1>3 DEF TaskFails
  <2> QED
    BY <1>3, <2>1, OtherPins, CatalogAfterLeft, PinsStep DEF TaskFails
<1>4. CASE PinFindsUser(t)
  <2> DEFINE id == task[t].id
             more == accounts[id].pins \cup task[t].patch.pins
             patch == [Keep EXCEPT !.pins = more]
  <2>1. UNCHANGED <<accounts, used, catalog, removed>>
    BY <1>4 DEF PinFindsUser
  <2>2. id \in Ids /\ patch.pins = more /\ task[t].patch.pins # None
    <3>1. PICK s \in Servers : task[t].patch.pins = {s}
      BY <1>4 DEF PinFindsUser, Good, GoodTask
    <3>2. {s} \in Pins
      BY DEF Pins
    <3>3. task[t].patch.pins # None
      BY <3>1, <3>2
    <3>4. id \in Ids
      BY <1>4 DEF PinFindsUser, Good, GoodTask, TaskState
    <3> QED
      BY <3>3, <3>4 DEF Keep
  <2>3. CASE task' = [task EXCEPT ![t] = IdleTask]
    BY <2>1, <2>3, OtherPins, PinsStep
  <2>4. CASE Exists(id) /\ task' = [task EXCEPT ![t] = Update(id, patch, "idle")]
    <3>1. more \cap removed[id] = {}
      BY <2>2, <2>4 DEF PinsInv, PinsHeld
    <3> HIDE DEF more, patch
    <3>2. \A o \in Ids : PinsHeld(Update(id, patch, "idle"), o, removed[o])
      BY <2>2, <3>1, UpdatePins
    <3> QED
      BY <2>1, <2>4, <3>2, PinsStep
  <2> QED
    BY <1>4, <2>3, <2>4 DEF PinFindsUser
<1>5. ASSUME NEW id \in Ids, NEW s \in Servers, Pin(t, id, s) PROVE PinsInv'
  <2> DEFINE patch == [Keep EXCEPT !.pins = {s}]
             r == [IdleTask EXCEPT !.phase = "pin", !.id = id, !.patch = patch]
  <2>1. patch.pins = {s}
    BY DEF Keep
  <2> HIDE DEF patch
  <2>2. r.id = id /\ r.phase = "pin" /\ r.patch = patch
    BY DEF IdleTask
  <2>3. task' = [task EXCEPT ![t] = r] /\ UNCHANGED <<accounts, used, catalog>>
    BY <1>5 DEF Pin, patch
  <2> HIDE DEF r
  <2>4. \A o \in Ids : removed'[o] = IF o = id THEN removed[id] \ {s} ELSE removed[o]
    BY <1>5 DEF Pin, Good
  <2>5. \A u \in Tasks : task'[u] = IF u = t THEN r ELSE task[u]
    BY <2>3 DEF Good
  <2>6. ASSUME NEW o \in Ids, NEW u \in Tasks PROVE PinsHeld(task'[u], o, removed'[o])
    <3>1. CASE u = t
      BY <2>1, <2>2, <2>4, <2>5, <3>1 DEF PinsHeld
    <3>2. CASE u # t
      <4>1. PinsHeld(task[u], o, removed[o]) /\ removed'[o] \subseteq removed[o] /\ task'[u] = task[u]
        BY <2>4, <2>5, <3>2 DEF PinsInv
      <4> QED
        BY <4>1 DEF PinsHeld
    <3> QED
      BY <3>1, <3>2
  <2>7. \A o \in Ids : removed'[o] \subseteq removed[o]
    BY <2>4
  <2> QED
    BY <2>3, <2>6, <2>7 DEF PinsInv, PinsHeld, Exists
<1>6. ASSUME NEW id \in Ids, Create(t, id) PROVE PinsInv'
  <2>1. /\ UNCHANGED <<catalog, removed>>
        /\ removed[id] = {} /\ task[t].base.pins = {} /\ used \subseteq used'
    BY <1>6 DEF Create, PinsInv, Good, GoodTask
  <2>2. task' = [task EXCEPT ![t] = IdleTask] \/ task' = [task EXCEPT ![t] = MarkPresent(id)]
    BY <1>6 DEF Create
  <2>3. \A o \in Ids, u \in Tasks : PinsHeld(task'[u], o, removed[o])
    <3>1. \A o \in Ids : PinsHeld(IdleTask, o, removed[o]) /\ PinsHeld(MarkPresent(id), o, removed[o])
      BY OtherPins
    <3>2. \A u \in Tasks : task'[u] \in {task[u], IdleTask, MarkPresent(id)}
      BY <2>2 DEF Good
    <3> QED
      BY <3>1, <3>2 DEF PinsInv
  <2>4. \A o \in Ids : accounts'[o] # None => accounts'[o].pins \cap removed[o] = {}
    <3>1. \A o \in Ids : accounts'[o] = accounts[o] \/ (o = id /\ accounts'[o] = task[t].base)
      BY <1>6 DEF Create, Good
    <3> QED
      BY <2>1, <3>1 DEF PinsInv, Exists
  <2> QED
    BY <2>1, <2>3, <2>4 DEF PinsInv, PinsHeld, Exists
<1>7. ASSUME NEW id \in Ids, ReplaceNext(t, id) PROVE PinsInv'
  <2> DEFINE patch == [Keep EXCEPT !.pins = Replaced(catalog.listed[id])]
  <2>1. patch.pins \cap removed[id] = {}
    BY <1>7 DEF ReplaceNext, Keep, Replaced, PinsInv
  <2>2. UNCHANGED <<accounts, used, removed>> /\ task' = [task EXCEPT ![t] = Update(id, patch, "catalog")]
    BY <1>7 DEF ReplaceNext
  <2>3. catalog'.left \subseteq catalog.left /\ UNCHANGED <<catalog.listed, catalog.new>>
    BY <1>7 DEF ReplaceNext, Good, GoodCatalog, CatalogState
  <2> HIDE DEF patch
  <2>4. \A o \in Ids : PinsHeld(Update(id, patch, "catalog"), o, removed[o])
    BY <2>1, UpdatePins
  <2> QED
    BY <2>2, <2>3, <2>4, PinsStep
\* The patches of all others bring no favorites.
<1>8. /\ \A steam : [Keep EXCEPT !.steam = steam].pins = None
       /\ \A name : [Keep EXCEPT !.name = name].pins = None
  BY DEF Keep
<1>9. ASSUME NEW email \in Emails, NEW name \in UserNames, NEW steam \in Steam \cup {None},
             Register(t, email, name, steam)
      PROVE  PinsInv'
  <2>1. UNCHANGED <<accounts, used, catalog, removed>>
    BY <1>9 DEF Register
  <2>2. task' = [task EXCEPT ![t] = CreateTask(email, steam, name)]
    BY <1>9 DEF Register
  <2> QED
    BY <2>1, <2>2, PinsFree
<1>10. ASSUME NEW steam \in Steam, SignIn(t, steam) PROVE PinsInv'
  <2> DEFINE patch == [Keep EXCEPT !.steam = steam]
             lookup(owner) == [IdleTask EXCEPT !.phase = "persona", !.id = owner, !.patch = patch]
  <2>1. \A owner : lookup(owner).phase = "persona" /\ lookup(owner).patch = patch
    BY DEF IdleTask
  <2>2. ASSUME NEW owner \in Ids \cup {None}, NEW id \in Ids
        PROVE  PinsHeld(lookup(owner), id, removed[id])
    BY <1>8, <2>1 DEF PinsHeld
  <2>3. \/ \E owner \in Ids \cup {None} : task' = [task EXCEPT ![t] = lookup(owner)]
        \/ \E owner \in Ids : task' = [task EXCEPT ![t] = MarkPresent(owner)]
    BY <1>10 DEF SignIn, SteamOwners
  <2>4. UNCHANGED <<accounts, used, catalog, removed>>
    BY <1>10 DEF SignIn
  <2> HIDE DEF lookup
  <2>5. ASSUME NEW owner \in Ids \cup {None}, task' = [task EXCEPT ![t] = lookup(owner)]
        PROVE  PinsInv'
    BY <2>2, <2>4, <2>5, PinsStutter
  <2>6. ASSUME NEW owner \in Ids, task' = [task EXCEPT ![t] = MarkPresent(owner)] PROVE PinsInv'
    BY <2>4, <2>6, PinsFree
  <2> QED
    BY <2>3, <2>5, <2>6
<1>11. ASSUME NEW answer \in Names \cup {None}, Persona(t, answer) PROVE PinsInv'
  <2> DEFINE id == task[t].id
             patch == [Keep EXCEPT !.name = answer]
  <2>1. \/ task' = [task EXCEPT ![t] = Update(id, patch, "present")]
        \/ task' = [task EXCEPT ![t] = MarkPresent(id)]
        \/ \E email, steam, name : task' = [task EXCEPT ![t] = CreateTask(email, steam, name)]
    BY <1>11 DEF Persona
  <2>2. UNCHANGED <<accounts, used, catalog, removed>>
    BY <1>11 DEF Persona
  <2>3. patch.pins = None
    BY <1>8
  <2> HIDE DEF id, patch
  <2> QED
    BY <2>1, <2>2, <2>3, PinsFree
<1>12. ASSUME NEW id \in Ids, NEW steam \in Steam, ConnectSteam(t, id, steam) PROVE PinsInv'
  <2> DEFINE patch == [Keep EXCEPT !.steam = steam]
  <2>1. UNCHANGED <<accounts, used, catalog, removed>>
    BY <1>12 DEF ConnectSteam
  <2>2. \/ task' = [task EXCEPT ![t] = Update(id, patch, "present")]
        \/ \E owner : task' = [task EXCEPT ![t] = MarkPresent(owner)]
    BY <1>12 DEF ConnectSteam
  <2>3. patch.pins = None
    BY <1>8
  <2> HIDE DEF patch
  <2> QED
    BY <2>1, <2>2, <2>3, PinsFree
<1>13. ASSUME NEW id \in Ids, DisconnectSteam(t, id) \/ Touch(t, id) PROVE PinsInv'
  <2> DEFINE patch == [Keep EXCEPT !.steam = Removed]
  <2>1. UNCHANGED <<accounts, used, catalog, removed>>
    BY <1>13 DEF DisconnectSteam, Touch
  <2>2. \/ task' = [task EXCEPT ![t] = Update(id, patch, "present")]
        \/ task' = [task EXCEPT ![t] = MarkPresent(id)]
    BY <1>13 DEF DisconnectSteam, Touch
  <2>3. patch.pins = None
    BY <1>8
  <2> HIDE DEF patch
  <2> QED
    BY <2>1, <2>2, <2>3, PinsFree
<1>14. ASSUME NEW id \in Ids, NEW name \in UserNames, Rename(t, id, name) PROVE PinsInv'
  <2> DEFINE patch == [Keep EXCEPT !.name = name]
  <2>1. UNCHANGED <<accounts, used, catalog, removed>>
    BY <1>14 DEF Rename
  <2>2. task' = [task EXCEPT ![t] = Update(id, patch, "idle")]
    BY <1>14 DEF Rename
  <2>3. patch.pins = None
    BY <1>8
  <2> HIDE DEF patch
  <2> QED
    BY <2>1, <2>2, <2>3, PinsFree
<1> QED
  BY <1>1, <1>2, <1>3, <1>4, <1>5, <1>6, <1>7, <1>9, <1>10, <1>11, <1>12, <1>13, <1>14 DEF Request

LEMMA NextPins == Good /\ PinsInv /\ [Next]_vars => PinsInv'
<1> SUFFICES ASSUME Good, PinsInv, [Next]_vars PROVE PinsInv'
  OBVIOUS
<1>1. ASSUME NEW id \in Ids, Delete(id) PROVE PinsInv'
  <2>1. \A o \in Ids : accounts'[o] = IF o = id THEN None ELSE accounts[o]
    BY <1>1 DEF Delete, Good
  <2> QED
    BY <1>1, <2>1 DEF Delete, history, PinsInv, PinsHeld, Exists
<1>2. ASSUME NEW id \in Ids, NEW s \in Servers, Unpin(id, s) \/ Prune(id, s) PROVE PinsInv'
  <2> DEFINE rest == accounts[id].pins \ {s}
  <2>1. accounts[id] \in Account /\ id \in used
    BY <1>2 DEF Good, Exists, Unpin, Prune
  <2>2. accounts' = [accounts EXCEPT ![id].pins = rest] /\ UNCHANGED <<used, task, catalog>>
    BY <1>2 DEF Pull, Unpin, Prune, Without
  <2>3. accounts[id].pins \cap removed[id] = {}
    BY <1>2 DEF PinsInv, Unpin, Prune
  <2>4. rest \cap removed[id] = {} /\ s \notin rest
    BY <2>3
  <2> HIDE DEF rest
  <2>5. \A o \in Ids : accounts'[o] = IF o = id THEN [accounts[id] EXCEPT !.pins = rest] ELSE accounts[o]
    BY <2>2 DEF Good
  <2>6. [accounts[id] EXCEPT !.pins = rest].pins = rest
    BY <2>1 DEF Account
  <2>7. CASE UNCHANGED removed
    BY <2>2, <2>4, <2>5, <2>6, <2>7 DEF PinsInv, PinsHeld, Exists
  <2>8. CASE removed' = [removed EXCEPT ![id] = @ \cup {s}] /\ Undisturbed(id, Tasks)
    <3>1. \A o \in Ids : removed'[o] = IF o = id THEN removed[id] \cup {s} ELSE removed[o]
      BY <2>8 DEF Good
    <3>2. (\A u \in Tasks : task[u].id # id) /\ id \notin catalog.left
      BY <2>8 DEF Undisturbed
    <3>3. ASSUME NEW o \in Ids, o # id
          PROVE  /\ removed'[o] # {} => o \in used'
                 /\ accounts'[o] # None => accounts'[o].pins \cap removed'[o] = {}
                 /\ \A u \in Tasks : PinsHeld(task'[u], o, removed'[o])
                 /\ o \in catalog'.left => /\ catalog'.listed[o] \cap removed'[o] = {}
                                           /\ catalog'.new \notin removed'[o]
      BY <2>2, <2>5, <3>1, <3>3 DEF PinsInv, Exists
    <3>4. /\ id \in used'
          /\ accounts'[id].pins \cap removed'[id] = {}
          /\ \A u \in Tasks : PinsHeld(task'[u], id, removed'[id])
          /\ id \notin catalog'.left
      BY <2>1, <2>2, <2>4, <2>5, <2>6, <3>1, <3>2 DEF PinsHeld
    <3> QED
      BY <3>3, <3>4 DEF PinsInv, PinsHeld, Exists
  <2> QED
    BY <1>2, <2>7, <2>8 DEF Unpin, Prune, Pull
<1>3. ASSUME NEW old \in Servers, NEW new \in Servers, ReplaceStarts(old, new) PROVE PinsInv'
  <2>1. \A o \in Ids : removed'[o] = removed[o] \ {new}
    BY <1>3 DEF ReplaceStarts
  <2>2. /\ catalog'.new = new
        /\ \A o \in Ids : o \in catalog'.left => Exists(o) /\ catalog'.listed[o] = accounts[o].pins
    BY <1>3 DEF ReplaceStarts
  <2>3. UNCHANGED <<accounts, used, task>>
    BY <1>3 DEF ReplaceStarts
  <2>4. \A o \in Ids, u \in Tasks : PinsHeld(task[u], o, removed'[o])
    BY <2>1 DEF PinsInv, PinsHeld
  <2> QED
    BY <2>1, <2>2, <2>3, <2>4 DEF PinsInv, PinsHeld, Exists
<1>4. CASE ReplaceEnds
  <2>1. catalog'.left = {}
    BY <1>4 DEF ReplaceEnds, IdleCatalog
  <2> QED
    BY <1>4, <2>1 DEF ReplaceEnds, history, PinsInv, PinsHeld, Exists
<1>5. CASE UNCHANGED vars
  BY <1>5 DEF vars, PinsInv, PinsHeld, Exists
<1> QED
  BY <1>1, <1>2, <1>3, <1>4, <1>5, RequestPins DEF Next

-----------------------------------------------------------------------------
(* The theorems.                                                            *)

LEMMA AlwaysGood == Spec => []Good
  BY InitGood, NextGood, PTL DEF Spec

\* Documents, requests and the catalog keep their shape, whatever requests
\* come in between the reading and the storing of a document.
THEOREM TypeCorrect == Spec => []TypeOK
<1>1. Good => TypeOK
  BY DEF Good, GoodCatalog, TypeOK
<1> QED
  BY <1>1, AlwaysGood, PTL

\* No interleaving of pins, other updates and replacements of ids brings an
\* account above maxPinnedServers.
THEOREM PinsLimited == Spec => []PinLimit
<1>1. Good => PinLimit
  BY DEF Good, PinLimit, Within
<1> QED
  BY <1>1, AlwaysGood, PTL

\* No two accounts come to share an e-mail address, a name or a Steam id.
THEOREM AccountsUnique == Spec => []UniqueAccounts
  BY InitDistinct, NextDistinct, AlwaysGood, PTL DEF Spec

\* A name chosen undisturbed stays until the user asks for another.
THEOREM NamesKept == Spec => []ChosenNameKept
<1>1. NameInv => ChosenNameKept
  BY DEF NameInv, ChosenNameKept
<1> QED
  BY <1>1, InitName, NextName, AlwaysGood, PTL DEF Spec

\* A favorite removed undisturbed stays removed.
THEOREM RemovalsStay == Spec => []RemovedPinsStay
<1>1. PinsInv => RemovedPinsStay
  BY DEF PinsInv, RemovedPinsStay
<1> QED
  BY <1>1, InitPins, NextPins, AlwaysGood, PTL DEF Spec

=============================================================================
