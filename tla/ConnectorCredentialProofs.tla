---------------------- MODULE ConnectorCredentialProofs ----------------------
(* Proofs about ConnectorCredential, for any number of connections and      *)
(* requests.  The argument: a secret that is about to be stored was just    *)
(* generated, so it was never in the store and nobody else stores it; a     *)
(* rotation writes the secret it found, and only while it is still there.   *)
EXTENDS ConnectorCredential, TLAPS

\* Secrets that were ever in the store, and "no secret".
Known == {0, cred.secret} \cup retired

\* A pairing stores a secret of its own that nobody has seen.
FreshSecrets ==
    \A c \in Connections :
        stage[c] = "storing" =>
            /\ secret[c] \notin Known
            /\ \A d \in Connections \ {c} : stage[d] = "storing" => secret[d] # secret[c]

\* A rotation re-encrypts the secret of the credential it found.
RotatesWhatItSaw ==
    \A c \in Connections :
        stage[c] = "rotating" => seen[c] \in Creds /\ secret[c] = seen[c].secret

\* What Tools is sent, or is about to be sent, has been stored.
SentWasStored ==
    \A c \in Connections :
        /\ stage[c] = "stored" => secret[c] \in Known
        /\ frame[c] = "provisioned" =>
              secret[c] \in Known /\ stage[c] = "done" /\ sock[c] # "closed"

PairingInv ==
    /\ TypeOK
    /\ RetiredStaysRetired
    /\ HeldWasStored
    /\ FreshSecrets
    /\ RotatesWhatItSaw
    /\ SentWasStored

-----------------------------------------------------------------------------
\* Init establishes the invariant.
LEMMA PairingInit == Init => PairingInv
<1> USE ConnectorAssumption DEF ConnectorAssumption
<1> SUFFICES ASSUME Init PROVE PairingInv
  OBVIOUS
<1>1. /\ record \in BOOLEAN /\ pruning \in BOOLEAN
      /\ deadline \in [Connections -> BOOLEAN]
  BY DEF Init
<1>2. /\ cred \in Creds \cup {NoCred}
      /\ ~record => cred = NoCred
      /\ issued \in Secrets /\ issued = 1
      /\ cred.secret \in {0, 1}
      /\ retired = {1} \ {cred.secret}
      /\ tools \in {0, 1}
  BY DEF Init, Creds, NoCred, Keys, Secrets
<1>3. /\ sock \in [Connections -> {"open", "closing", "closed"}]
      /\ stage \in [Connections -> {"connected", "storing", "stored", "rotating", "matched",
                                    "session", "done"}]
      /\ secret \in [Connections -> 0 .. issued]
      /\ seen \in [Connections -> Creds \cup {NoCred}]
      /\ frame \in [Connections -> {"none", "provisioned", "reset"}]
      /\ req \in [Requests -> {"idle", "sent", "rejected", "resetting"}]
      /\ used \in [Requests -> Creds \cup {NoCred}]
  BY <1>2 DEF Init
<1>4. TypeOK
  BY <1>1, <1>2, <1>3 DEF Init, TypeOK
<1>5. RetiredStaysRetired /\ HeldWasStored
  BY <1>2 DEF RetiredStaysRetired, HeldWasStored
<1>6. FreshSecrets /\ RotatesWhatItSaw /\ SentWasStored
  BY DEF Init, FreshSecrets, RotatesWhatItSaw, SentWasStored
<1> QED BY <1>4, <1>5, <1>6 DEF PairingInv

\* Every secret that was ever stored has been issued.
LEMMA KnownBounded == TypeOK => Known \subseteq 0 .. issued /\ issued \in Nat
<1> SUFFICES ASSUME TypeOK PROVE Known \subseteq 0 .. issued /\ issued \in Nat
  OBVIOUS
<1>1. retired \subseteq 1 .. issued /\ cred.secret \in 0 .. issued
  BY DEF TypeOK
<1>2. issued \in Nat
  BY ConnectorAssumption DEF ConnectorAssumption, TypeOK, Secrets
<1>3. 0 \in 0 .. issued /\ 1 .. issued \subseteq 0 .. issued
  BY <1>2
<1> QED BY <1>1, <1>2, <1>3 DEF Known

\* What a write of the credential does: the old secret is remembered, and the
\* new one is not a retired one if it is fresh or the same.
LEMMA SetCredFacts ==
    ASSUME TypeOK, RetiredStaysRetired, NEW new \in Creds \cup {NoCred}, SetCred(new),
           new.secret \in 0 .. issued,
           new.secret \in {0, cred.secret} \/ new.secret \notin Known
    PROVE  /\ cred' \in Creds \cup {NoCred}
           /\ cred'.secret = new.secret
           /\ retired' \subseteq 1 .. issued
           /\ cred'.secret \notin retired'
           /\ {0, cred'.secret} \cup retired' = Known \cup {new.secret}
<1>1. cred' = new /\ retired' = retired \cup ({cred.secret} \ {0, new.secret})
  BY DEF SetCred
<1>2. /\ retired \subseteq 1 .. issued /\ cred.secret \in 0 .. issued /\ issued \in Nat
      /\ cred.secret \notin retired
  BY ConnectorAssumption DEF ConnectorAssumption, TypeOK, RetiredStaysRetired, Secrets
<1>3. retired' \subseteq 1 .. issued
  <2>1. cred.secret # 0 => cred.secret \in 1 .. issued
    BY <1>2
  <2> QED BY <1>1, <1>2, <2>1
<1>4. cred'.secret \notin retired'
  BY <1>1, <1>2 DEF Known
<1>5. {0, cred'.secret} \cup retired' = Known \cup {new.secret}
  BY <1>1, <1>2 DEF Known
<1> QED BY <1>1, <1>3, <1>4, <1>5

-----------------------------------------------------------------------------
\* No step forgets a secret, takes a retired one back or changes the type of
\* the store.
LEMMA StoreStep ==
    ASSUME PairingInv, [Next]_vars
    PROVE  /\ cred' \in Creds \cup {NoCred}
           /\ retired' \subseteq 1 .. issued
           /\ cred'.secret \notin retired'
           /\ cred'.secret \in 0 .. issued
           /\ Known \subseteq Known'
           /\ \/ Known' = Known
              \/ \E c \in Connections : Store(c) /\ Known' = Known \cup {secret[c]}
<1> USE ConnectorAssumption DEF ConnectorAssumption, PairingInv
<1>0. /\ \A s \in 1 .. issued : Encrypt(s) \in Creds /\ Encrypt(s).secret = s
      /\ NoCred.secret = 0
      /\ issued \in Nat \ {0}
      /\ \A credential \in Creds : credential.secret \in Secrets
  <2>1. issued \in Secrets /\ issued \in Nat \ {0} /\ 1 .. issued \subseteq Secrets
    BY DEF TypeOK, Secrets
  <2>2. \A s \in Secrets : Encrypt(s) \in Creds /\ Encrypt(s).secret = s
    BY DEF Encrypt, Creds, Keys
  <2>3. \A credential \in Creds : credential.secret \in Secrets
    BY DEF Creds
  <2> QED BY <2>1, <2>2, <2>3 DEF NoCred
<1>1. CASE UNCHANGED storeVars
  BY <1>1 DEF storeVars, TypeOK, RetiredStaysRetired, Known
<1>2. CASE UNCHANGED <<cred, retired>>
  BY <1>2 DEF TypeOK, RetiredStaysRetired, Known
<1>3. ASSUME NEW c \in Connections, Store(c)
      PROVE  UNCHANGED <<cred, retired>>
             \/ (secret[c] \in 1 .. issued /\ secret[c] \notin Known /\ SetCred(Encrypt(secret[c])))
  BY <1>3 DEF Store, FreshSecrets, TypeOK, Known
<1>4. ASSUME NEW c \in Connections, Rotate(c)
      PROVE  UNCHANGED <<cred, retired>>
             \/ (secret[c] = cred.secret /\ secret[c] \in 1 .. issued /\ SetCred(Encrypt(secret[c])))
  BY <1>0, <1>4 DEF Rotate, RotatesWhatItSaw, StillCurrent, TypeOK, Secrets
<1>5. ASSUME NEW r \in Requests, Reset(r) PROVE UNCHANGED <<cred, retired>> \/ SetCred(NoCred)
  BY <1>5 DEF Reset
<1>6. CASE CatalogSaves
  <2>1. SetCred(cred)
    BY <1>6 DEF CatalogSaves, SavedCredential
  <2> QED BY <1>0, <2>1, SetCredFacts DEF TypeOK, Known
<1>7. CASE PruneRecord
  <2>1. SetCred(NoCred)
    BY <1>7 DEF PruneRecord
  <2> QED BY <1>0, <2>1, SetCredFacts DEF TypeOK, Known
<1>8. ASSUME NEW c \in Connections, Store(c),
             secret[c] \in 1 .. issued, secret[c] \notin Known, SetCred(Encrypt(secret[c]))
      PROVE  /\ cred' \in Creds \cup {NoCred}
             /\ retired' \subseteq 1 .. issued
             /\ cred'.secret \notin retired'
             /\ cred'.secret \in 0 .. issued
             /\ Known' = Known \cup {secret[c]}
  BY <1>0, <1>8, SetCredFacts DEF Known
<1>9. ASSUME NEW c \in Connections,
             secret[c] = cred.secret, secret[c] \in 1 .. issued, SetCred(Encrypt(secret[c]))
      PROVE  /\ cred' \in Creds \cup {NoCred}
             /\ retired' \subseteq 1 .. issued
             /\ cred'.secret \notin retired'
             /\ cred'.secret \in 0 .. issued
             /\ Known' = Known
  BY <1>0, <1>9, SetCredFacts DEF Known
<1>10. CASE SetCred(NoCred)
  BY <1>0, <1>10, SetCredFacts DEF TypeOK, Known
<1>11. CASE \E c \in Connections : Store(c)
  BY <1>2, <1>3, <1>8, <1>11
<1>12. CASE \E c \in Connections : Rotate(c)
  BY <1>2, <1>4, <1>9, <1>12
<1>13. CASE \E r \in Requests : Reset(r)
  BY <1>2, <1>5, <1>10, <1>13
<1>14. \/ UNCHANGED storeVars \/ CatalogSaves \/ PruneRecord
       \/ \E c \in Connections : Store(c) \/ Rotate(c)
       \/ \E r \in Requests : Reset(r)
  BY DEF Next, vars, storeVars, Connect, SocketClosed, ProvisionTimeout, ToolsReceives,
         FirstMessage, Provisioned, Register, Send, Verdict, RequestFails, Rejected,
         ToolsForgets, CatalogReads, PruneSession, Restart
<1> QED BY <1>1, <1>6, <1>7, <1>11, <1>12, <1>13, <1>14

-----------------------------------------------------------------------------
\* Every step keeps the type invariant.
LEMMA TypeStep == PairingInv /\ [Next]_vars => TypeOK'
<1> USE ConnectorAssumption DEF ConnectorAssumption
<1> SUFFICES ASSUME PairingInv, [Next]_vars PROVE TypeOK'
  OBVIOUS
<1>1. TypeOK /\ HeldWasStored /\ SentWasStored
  BY DEF PairingInv
<1>2. /\ cred' \in Creds \cup {NoCred}
      /\ retired' \subseteq 1 .. issued
      /\ cred'.secret \in 0 .. issued
  BY StoreStep
<1>3. /\ issued' \in Secrets
      /\ issued' \in {issued, issued + 1}
      /\ issued \in Nat
  <2>1. issued' = issued \/ (issued < MAX_SECRETS /\ issued' = issued + 1)
    BY DEF Next, vars, storeVars, toolsVars, connVars, reqVars, catVars, Connect, SocketClosed,
           ProvisionTimeout, ToolsReceives, FirstMessage, Store, Provisioned, Rotate, Register,
           Send, Verdict, RequestFails, Rejected, Reset, ToolsForgets, CatalogReads,
           CatalogSaves, PruneRecord, PruneSession, Restart
  <2> QED BY <1>1, <2>1 DEF TypeOK, Secrets
<1>4. /\ retired' \subseteq 1 .. issued'
      /\ cred'.secret \in 0 .. issued'
      /\ 0 .. issued \subseteq 0 .. issued'
  BY <1>2, <1>3
<1>5. record' \in BOOLEAN /\ pruning' \in BOOLEAN
  BY <1>1 DEF TypeOK, Next, vars, storeVars, toolsVars, connVars, reqVars, catVars,
         Connect, SocketClosed, ProvisionTimeout, ToolsReceives, FirstMessage, Store,
         Provisioned, Rotate, Register, Send, Verdict, RequestFails, Rejected, Reset, Done,
         ToolsForgets, CatalogReads, CatalogSaves, PruneRecord, PruneSession, Restart,
         Handled, Refuse, Close
<1>6. ~record' => cred' = NoCred
  BY <1>1 DEF TypeOK, SetCred, Claimed, Replaced, StillCurrent, SavedCredential, Next, vars, storeVars, toolsVars, connVars, reqVars, catVars,
         Connect, SocketClosed, ProvisionTimeout, ToolsReceives, FirstMessage, Store,
         Provisioned, Rotate, Register, Send, Verdict, RequestFails, Rejected, Reset, Done,
         ToolsForgets, CatalogReads, CatalogSaves, PruneRecord, PruneSession, Restart,
         Handled, Refuse, Close
<1>7. tools' \in {0, tools} \cup {secret[c] : c \in Connections}
  BY <1>1 DEF TypeOK, Next, vars, storeVars, toolsVars, connVars, reqVars, catVars,
         Connect, SocketClosed, ProvisionTimeout, ToolsReceives, FirstMessage, Store,
         Provisioned, Rotate, Register, Send, Verdict, RequestFails, Rejected, Reset, Done,
         ToolsForgets, CatalogReads, CatalogSaves, PruneRecord, PruneSession, Restart,
         Handled, Refuse, Close
<1>8. line' \in Connections \cup {None} /\ session' \in Connections \cup {None}
  BY <1>1 DEF TypeOK, Next, vars, storeVars, toolsVars, connVars, reqVars, catVars,
         Connect, SocketClosed, ProvisionTimeout, ToolsReceives, FirstMessage, Store,
         Provisioned, Rotate, Register, Send, Verdict, RequestFails, Rejected, Reset, Done,
         ToolsForgets, CatalogReads, CatalogSaves, PruneRecord, PruneSession, Restart,
         Handled, Refuse, Close
<1>9. sock' \in [Connections -> {"open", "closing", "closed"}]
  BY <1>1 DEF TypeOK, Next, vars, storeVars, toolsVars, connVars, reqVars, catVars,
         Connect, SocketClosed, ProvisionTimeout, ToolsReceives, FirstMessage, Store,
         Provisioned, Rotate, Register, Send, Verdict, RequestFails, Rejected, Reset, Done,
         ToolsForgets, CatalogReads, CatalogSaves, PruneRecord, PruneSession, Restart,
         Handled, Refuse, Close
<1>10. stage' \in [Connections -> {"connected", "storing", "stored", "rotating", "matched",
                                   "session", "done"}]
  BY <1>1 DEF TypeOK, Next, vars, storeVars, toolsVars, connVars, reqVars, catVars,
         Connect, SocketClosed, ProvisionTimeout, ToolsReceives, FirstMessage, Store,
         Provisioned, Rotate, Register, Send, Verdict, RequestFails, Rejected, Reset, Done,
         ToolsForgets, CatalogReads, CatalogSaves, PruneRecord, PruneSession, Restart,
         Handled, Refuse, Close
<1>11. deadline' \in [Connections -> BOOLEAN]
  <2>1. ASSUME NEW c \in Connections,
               \/ Connect(c) \/ SocketClosed(c) \/ ProvisionTimeout(c) \/ ToolsReceives(c)
               \/ FirstMessage(c) \/ Store(c) \/ Provisioned(c) \/ Rotate(c) \/ Register(c)
        PROVE  \/ deadline' = deadline
               \/ deadline' = [deadline EXCEPT ![c] = TRUE]
               \/ deadline' = [deadline EXCEPT ![c] = FALSE]
    BY <2>1, Zenon DEF Connect, SocketClosed, ProvisionTimeout, ToolsReceives, FirstMessage,
           Store, Provisioned, Rotate, Register, Handled, Refuse
  <2>2. CASE /\ ~Restart
             /\ ~\E c \in Connections :
                   \/ Connect(c) \/ SocketClosed(c) \/ ProvisionTimeout(c) \/ ToolsReceives(c)
                   \/ FirstMessage(c) \/ Store(c) \/ Provisioned(c) \/ Rotate(c) \/ Register(c)
    <3>1. deadline' = deadline
      BY <2>2 DEF Next, vars, connVars, Send, Verdict, RequestFails, Rejected, Reset,
             ToolsForgets, CatalogReads, CatalogSaves, PruneRecord, PruneSession
    <3> QED BY <1>1, <3>1 DEF TypeOK
  <2>3. CASE Restart
    BY <2>3 DEF Restart
  <2> QED BY <1>1, <2>1, <2>2, <2>3 DEF TypeOK
<1>12. secret' \in [Connections -> 0 .. issued']
  BY <1>1, <1>3, <1>4 DEF TypeOK, Next, vars, storeVars, toolsVars, connVars, reqVars, catVars,
         Connect, SocketClosed, ProvisionTimeout, ToolsReceives, FirstMessage, Store,
         Provisioned, Rotate, Register, Send, Verdict, RequestFails, Rejected, Reset, Done,
         ToolsForgets, CatalogReads, CatalogSaves, PruneRecord, PruneSession, Restart,
         Handled, Refuse, Close
<1>13. seen' \in [Connections -> Creds \cup {NoCred}]
  BY <1>1 DEF TypeOK, Next, vars, storeVars, toolsVars, connVars, reqVars, catVars,
         Connect, SocketClosed, ProvisionTimeout, ToolsReceives, FirstMessage, Store,
         Provisioned, Rotate, Register, Send, Verdict, RequestFails, Rejected, Reset, Done,
         ToolsForgets, CatalogReads, CatalogSaves, PruneRecord, PruneSession, Restart,
         Handled, Refuse, Close
<1>14. frame' \in [Connections -> {"none", "provisioned", "reset"}]
  BY <1>1 DEF TypeOK, Next, vars, storeVars, toolsVars, connVars, reqVars, catVars,
         Connect, SocketClosed, ProvisionTimeout, ToolsReceives, FirstMessage, Store,
         Provisioned, Rotate, Register, Send, Verdict, RequestFails, Rejected, Reset, Done,
         ToolsForgets, CatalogReads, CatalogSaves, PruneRecord, PruneSession, Restart,
         Handled, Refuse, Close
<1>15. /\ req' \in [Requests -> {"idle", "sent", "rejected", "resetting"}]
       /\ used' \in [Requests -> Creds \cup {NoCred}]
  BY <1>1 DEF TypeOK, Next, vars, storeVars, toolsVars, connVars, reqVars, catVars,
         Connect, SocketClosed, ProvisionTimeout, ToolsReceives, FirstMessage, Store,
         Provisioned, Rotate, Register, Send, Verdict, RequestFails, Rejected, Reset, Done,
         ToolsForgets, CatalogReads, CatalogSaves, PruneRecord, PruneSession, Restart,
         Handled, Refuse, Close
<1>16. catalog' \in Creds \cup {NoCred, None}
  BY <1>1 DEF TypeOK, Next, vars, storeVars, toolsVars, connVars, reqVars, catVars,
         Connect, SocketClosed, ProvisionTimeout, ToolsReceives, FirstMessage, Store,
         Provisioned, Rotate, Register, Send, Verdict, RequestFails, Rejected, Reset, Done,
         ToolsForgets, CatalogReads, CatalogSaves, PruneRecord, PruneSession, Restart,
         Handled, Refuse, Close
<1>17. tools' \in 0 .. issued'
  <2>1. /\ tools \in 0 .. issued /\ issued \in Nat
        /\ \A c \in Connections : secret[c] \in 0 .. issued
    BY <1>1, <1>3 DEF TypeOK
  <2>2. tools' \in 0 .. issued
    BY <1>7, <2>1
  <2> QED BY <1>4, <2>2
<1> QED
  BY <1>2, <1>3, <1>4, <1>5, <1>6, <1>8, <1>9, <1>10, <1>11, <1>12, <1>13, <1>14, <1>15, <1>16,
     <1>17 DEF TypeOK

-----------------------------------------------------------------------------
\* What the handlers keep in their locals stays true at every step.
LEMMA LocalsStep ==
    ASSUME PairingInv, [Next]_vars
    PROVE  FreshSecrets' /\ RotatesWhatItSaw' /\ SentWasStored' /\ HeldWasStored'
<1> USE ConnectorAssumption DEF ConnectorAssumption
<1>1. TypeOK /\ HeldWasStored /\ SentWasStored /\ FreshSecrets /\ RotatesWhatItSaw
  BY DEF PairingInv
<1>2. /\ Known \subseteq Known'
      /\ Known' = Known \/ \E c \in Connections : Store(c) /\ Known' = Known \cup {secret[c]}
  BY StoreStep
<1>3. HeldWasStored'
  <2>1. tools' \in {0, tools} \/ \E c \in Connections : frame[c] = "provisioned" /\ tools' = secret[c]
    BY <1>1 DEF TypeOK, Next, vars, toolsVars, Connect, SocketClosed, ProvisionTimeout,
           ToolsReceives, FirstMessage, Store, Provisioned, Rotate, Register, Send, Verdict,
           RequestFails, Rejected, Reset, ToolsForgets, CatalogReads, CatalogSaves,
           PruneRecord, PruneSession, Restart
  <2>2. tools' \in Known
    BY <1>1, <2>1 DEF HeldWasStored, SentWasStored, Known
  <2> QED BY <1>2, <2>2 DEF HeldWasStored, Known
<1>4. Known \subseteq 0 .. issued /\ issued \in Nat
  BY <1>1, KnownBounded
<1>5. ASSUME NEW d \in Connections, Connect(d)
      PROVE  FreshSecrets' /\ RotatesWhatItSaw' /\ SentWasStored'
  <2>1. Known' = Known
    BY <1>5 DEF Connect, storeVars, Known
  <2>2. FreshSecrets'
    BY <1>1, <1>5, <2>1 DEF Connect, FreshSecrets, TypeOK
  <2>3. RotatesWhatItSaw'
    BY <1>1, <1>5, <2>1 DEF Connect, RotatesWhatItSaw, TypeOK
  <2>4. SentWasStored'
    BY <1>1, <1>5, <2>1 DEF Connect, SentWasStored, TypeOK
  <2> QED BY <2>2, <2>3, <2>4
<1>6. ASSUME NEW d \in Connections, SocketClosed(d)
      PROVE  FreshSecrets' /\ RotatesWhatItSaw' /\ SentWasStored'
  <2>1. Known' = Known
    BY <1>6 DEF SocketClosed, storeVars, Known
  <2>2. FreshSecrets'
    BY <1>1, <1>6, <2>1 DEF SocketClosed, FreshSecrets, TypeOK
  <2>3. RotatesWhatItSaw'
    BY <1>1, <1>6, <2>1 DEF SocketClosed, RotatesWhatItSaw, TypeOK
  <2>4. SentWasStored'
    BY <1>1, <1>6, <2>1 DEF SocketClosed, SentWasStored, TypeOK
  <2> QED BY <2>2, <2>3, <2>4
<1>7. ASSUME NEW d \in Connections, ProvisionTimeout(d)
      PROVE  FreshSecrets' /\ RotatesWhatItSaw' /\ SentWasStored'
  <2>1. Known' = Known
    BY <1>7 DEF ProvisionTimeout, storeVars, Known
  <2>2. FreshSecrets'
    BY <1>1, <1>7, <2>1 DEF ProvisionTimeout, FreshSecrets, TypeOK, Close
  <2>3. RotatesWhatItSaw'
    BY <1>1, <1>7, <2>1 DEF ProvisionTimeout, RotatesWhatItSaw, TypeOK, Close
  <2>4. SentWasStored'
    BY <1>1, <1>7, <2>1 DEF ProvisionTimeout, SentWasStored, TypeOK, Close
  <2> QED BY <2>2, <2>3, <2>4
<1>8. ASSUME NEW d \in Connections, ToolsReceives(d)
      PROVE  FreshSecrets' /\ RotatesWhatItSaw' /\ SentWasStored'
  <2>1. Known' = Known
    BY <1>8 DEF ToolsReceives, storeVars, Known
  <2>2. FreshSecrets'
    BY <1>1, <1>8, <2>1 DEF ToolsReceives, FreshSecrets, TypeOK
  <2>3. RotatesWhatItSaw'
    BY <1>1, <1>8, <2>1 DEF ToolsReceives, RotatesWhatItSaw, TypeOK
  <2>4. SentWasStored'
    BY <1>1, <1>8, <2>1 DEF ToolsReceives, SentWasStored, TypeOK
  <2> QED BY <2>2, <2>3, <2>4
<1>9. ASSUME NEW d \in Connections, FirstMessage(d)
      PROVE  FreshSecrets' /\ RotatesWhatItSaw' /\ SentWasStored'
  <2>1. Known' = Known
    BY <1>9 DEF FirstMessage, storeVars, Known
  <2>2. /\ \A c \in Connections : secret[c] \in 0 .. issued
        /\ issued + 1 \notin 0 .. issued
        /\ stage[d] = "connected"
        /\ \A c \in Connections \ {d} : stage'[c] = stage[c] /\ secret'[c] = secret[c]
                                       /\ seen'[c] = seen[c]
    BY <1>1, <1>4, <1>9 DEF FirstMessage, TypeOK, Handled, Refuse
  <2>3. stage'[d] = "storing" => secret'[d] = issued + 1
    BY <1>1, <1>9 DEF FirstMessage, TypeOK, Handled, Refuse
  <2>4. stage'[d] = "rotating" => seen'[d] \in Creds /\ secret'[d] = seen'[d].secret
    <3>1. CASE stage'[d] = "rotating"
      <4>1. Decryptable(cred) /\ cred.secret = secret[d] /\ seen'[d] = cred /\ secret'[d] = secret[d]
        BY <1>1, <1>9, <3>1 DEF FirstMessage, TypeOK, Handled, Refuse
      <4>2. cred \in Creds
        BY <1>1, <4>1 DEF TypeOK, Decryptable, NoCred
      <4> QED BY <4>1, <4>2
    <3> QED BY <3>1
  <2>5. FreshSecrets'
    BY <1>1, <1>4, <2>1, <2>2, <2>3 DEF FreshSecrets
  <2>6. RotatesWhatItSaw'
    BY <1>1, <2>2, <2>4 DEF RotatesWhatItSaw
  <2>7. SentWasStored'
    BY <1>1, <1>9, <2>1 DEF FirstMessage, SentWasStored, TypeOK, Handled, Refuse, Close
  <2> QED BY <2>5, <2>6, <2>7
<1>10. ASSUME NEW d \in Connections, Provisioned(d)
      PROVE  FreshSecrets' /\ RotatesWhatItSaw' /\ SentWasStored'
  <2>1. Known' = Known
    BY <1>10 DEF Provisioned, storeVars, Known
  <2>2. FreshSecrets'
    BY <1>1, <1>10, <2>1 DEF Provisioned, FreshSecrets, TypeOK, Handled, Close
  <2>3. RotatesWhatItSaw'
    BY <1>1, <1>10, <2>1 DEF Provisioned, RotatesWhatItSaw, TypeOK, Handled, Close
  <2>4. SentWasStored'
    BY <1>1, <1>10, <2>1 DEF Provisioned, SentWasStored, TypeOK, Handled, Close
  <2> QED BY <2>2, <2>3, <2>4
<1>11. ASSUME NEW d \in Connections, Rotate(d)
      PROVE  FreshSecrets' /\ RotatesWhatItSaw' /\ SentWasStored'
  <2>0. ASSUME NEW c \in Connections, Store(c) PROVE FALSE
    <3>1. stage[d] = "rotating" /\ stage' = [stage EXCEPT ![d] = "matched"]
      BY <1>11 DEF Rotate
    <3>2. stage[c] = "storing" /\ stage'[c] \in {"stored", "done"}
      BY <1>1, <2>0 DEF Store, Refuse, Handled, TypeOK
    <3> QED BY <1>1, <3>1, <3>2 DEF TypeOK
  <2>1. Known' = Known
    BY <1>2, <2>0
  <2>2. FreshSecrets'
    BY <1>1, <1>11, <2>1 DEF Rotate, FreshSecrets, TypeOK
  <2>3. RotatesWhatItSaw'
    BY <1>1, <1>11, <2>1 DEF Rotate, RotatesWhatItSaw, TypeOK
  <2>4. SentWasStored'
    BY <1>1, <1>11, <2>1 DEF Rotate, SentWasStored, TypeOK
  <2> QED BY <2>2, <2>3, <2>4
<1>12. ASSUME NEW d \in Connections, Register(d)
      PROVE  FreshSecrets' /\ RotatesWhatItSaw' /\ SentWasStored'
  <2>1. Known' = Known
    BY <1>12 DEF Register, storeVars, Known
  <2>2. FreshSecrets'
    BY <1>1, <1>12, <2>1 DEF Register, FreshSecrets, TypeOK, Handled, Close
  <2>3. RotatesWhatItSaw'
    BY <1>1, <1>12, <2>1 DEF Register, RotatesWhatItSaw, TypeOK, Handled, Close
  <2>4. SentWasStored'
    BY <1>1, <1>12, <2>1 DEF Register, SentWasStored, TypeOK, Handled, Close
  <2> QED BY <2>2, <2>3, <2>4
<1>13. ASSUME NEW d \in Connections, Store(d)
       PROVE  FreshSecrets' /\ RotatesWhatItSaw' /\ SentWasStored'
  <2>1. /\ Known \subseteq Known'
        /\ Known' \subseteq Known \cup {secret[d]}
    <3>1. ASSUME NEW c \in Connections, Store(c) PROVE c = d
      <4>1. stage[c] = "storing" /\ stage'[c] \in {"stored", "done"}
        BY <1>1, <3>1 DEF Store, Refuse, Handled, TypeOK
      <4>2. c # d => stage'[c] = stage[c]
        BY <1>1, <1>13 DEF Store, Refuse, Handled, TypeOK
      <4> QED BY <4>1, <4>2
    <3> QED BY <1>2, <3>1
  <2>2. /\ stage[d] = "storing" /\ stage'[d] \in {"stored", "done"}
        /\ \A c \in Connections \ {d} : stage'[c] = stage[c] /\ secret'[c] = secret[c]
                                       /\ seen'[c] = seen[c] /\ sock'[c] = sock[c]
        /\ frame' = frame
    BY <1>1, <1>13 DEF Store, Refuse, Handled, Close, TypeOK
  <2>3. FreshSecrets'
    BY <1>1, <2>1, <2>2 DEF FreshSecrets
  <2>4. RotatesWhatItSaw'
    BY <1>1, <2>2 DEF RotatesWhatItSaw
  <2>5. stage'[d] = "stored" => secret'[d] \in Known'
    <3>1. CASE stage'[d] = "stored"
      <4>1. SetCred(Encrypt(secret[d])) /\ secret' = secret
        BY <1>1, <1>13, <3>1 DEF Store, Refuse, Handled, TypeOK
      <4> QED BY <4>1 DEF SetCred, Encrypt, Known
    <3> QED BY <3>1
  <2>6. SentWasStored'
    BY <1>1, <2>1, <2>2, <2>5 DEF SentWasStored
  <2> QED BY <2>3, <2>4, <2>6
<1>14. CASE Restart
  <2>1. \A c \in Connections : stage'[c] = "done" /\ frame'[c] = "none"
    BY <1>14 DEF Restart
  <2>2. FreshSecrets'
    BY <2>1 DEF FreshSecrets
  <2>3. RotatesWhatItSaw'
    BY <2>1 DEF RotatesWhatItSaw
  <2>4. SentWasStored'
    BY <2>1 DEF SentWasStored
  <2> QED BY <1>3, <2>2, <2>3, <2>4
<1>15. ASSUME NEW r \in Requests, Rejected(r)
       PROVE  FreshSecrets' /\ RotatesWhatItSaw' /\ SentWasStored'
  <2>1. Known' = Known
    BY <1>15 DEF Rejected, storeVars, Known
  <2> QED BY <1>1, <1>15, <2>1 DEF Rejected, FreshSecrets, RotatesWhatItSaw, SentWasStored, TypeOK
<1>16. CASE PruneSession
  <2>1. Known' = Known
    BY <1>16 DEF PruneSession, storeVars, Known
  <2>2. stage' = stage /\ secret' = secret /\ seen' = seen /\ frame' = frame
    BY <1>16 DEF PruneSession
  <2>3. FreshSecrets'
    BY <1>1, <2>1, <2>2 DEF FreshSecrets
  <2>4. RotatesWhatItSaw'
    BY <1>1, <2>2 DEF RotatesWhatItSaw
  <2>5. \A c \in Connections : sock[c] # "closed" => sock'[c] # "closed"
    BY <1>1, <1>16 DEF PruneSession, Close, TypeOK
  <2>6. SentWasStored'
    BY <1>1, <2>1, <2>2, <2>5 DEF SentWasStored
  <2> QED BY <1>3, <2>3, <2>4, <2>6
<1>17. CASE UNCHANGED connVars
  <2>1. ASSUME NEW c \in Connections, Store(c) PROVE FALSE
    BY <1>1, <1>17, <2>1 DEF Store, Refuse, Handled, TypeOK, connVars
  <2>2. Known' = Known
    BY <1>2, <2>1
  <2>3. stage' = stage /\ secret' = secret /\ seen' = seen /\ frame' = frame /\ sock' = sock
    BY <1>17 DEF connVars
  <2>4. FreshSecrets'
    BY <1>1, <2>2, <2>3 DEF FreshSecrets
  <2>5. RotatesWhatItSaw'
    BY <1>1, <2>3 DEF RotatesWhatItSaw
  <2>6. SentWasStored'
    BY <1>1, <2>2, <2>3 DEF SentWasStored
  <2> QED BY <1>3, <2>4, <2>5, <2>6
<1>18. \/ \E d \in Connections :
             \/ Connect(d) \/ SocketClosed(d) \/ ProvisionTimeout(d) \/ ToolsReceives(d)
             \/ FirstMessage(d) \/ Store(d) \/ Provisioned(d) \/ Rotate(d) \/ Register(d)
       \/ \E r \in Requests : Rejected(r)
       \/ Restart \/ PruneSession \/ UNCHANGED connVars
  BY DEF Next, vars, Send, Verdict, RequestFails, Reset, ToolsForgets, CatalogReads,
         CatalogSaves, PruneRecord
<1> QED
  BY <1>3, <1>5, <1>6, <1>7, <1>8, <1>9, <1>10, <1>11, <1>12, <1>13, <1>14, <1>15, <1>16,
     <1>17, <1>18

-----------------------------------------------------------------------------
LEMMA PairingStep == PairingInv /\ [Next]_vars => PairingInv'
  BY TypeStep, StoreStep, LocalsStep DEF PairingInv, RetiredStaysRetired

LEMMA PairingInvariant == Spec => []PairingInv
  BY PairingInit, PairingStep, PTL DEF Spec

\* Every behaviour keeps the type invariant: in particular a record that is
\* not there has no credential.
THEOREM TypeCorrect == Spec => []TypeOK
<1>1. PairingInv => TypeOK
  BY DEF PairingInv
<1> QED BY <1>1, PairingInvariant, PTL

\* No stale rotation, reset or catalog save brings a credential back that has
\* left the store, for any number of connections and requests.
THEOREM NoCredentialReturns == Spec => []RetiredStaysRetired
<1>1. PairingInv => RetiredStaysRetired
  BY DEF PairingInv
<1> QED BY <1>1, PairingInvariant, PTL

\* Tools never holds a secret that was not the server's credential before.
THEOREM ToolsHoldsStored == Spec => []HeldWasStored
<1>1. PairingInv => HeldWasStored
  BY DEF PairingInv
<1> QED BY <1>1, PairingInvariant, PTL

-----------------------------------------------------------------------------
\* One step keeps the sessions apart: a new one closes the one it replaces.
LEMMA SessionStep == TypeOK /\ OneLiveSession /\ [Next]_vars => OneLiveSession'
<1> USE ConnectorAssumption DEF ConnectorAssumption
<1> SUFFICES ASSUME TypeOK, OneLiveSession, [Next]_vars PROVE OneLiveSession'
  OBVIOUS
<1>1. ASSUME NEW d \in Connections, Connect(d) PROVE OneLiveSession'
  BY <1>1 DEF Connect, OneLiveSession, TypeOK
<1>2. ASSUME NEW d \in Connections, SocketClosed(d) PROVE OneLiveSession'
  BY <1>2 DEF SocketClosed, OneLiveSession, TypeOK
<1>3. ASSUME NEW d \in Connections, ProvisionTimeout(d) PROVE OneLiveSession'
  BY <1>3 DEF ProvisionTimeout, Close, OneLiveSession, TypeOK
<1>4. ASSUME NEW d \in Connections, FirstMessage(d) PROVE OneLiveSession'
  BY <1>4 DEF FirstMessage, Handled, Refuse, Close, OneLiveSession, TypeOK
<1>5. ASSUME NEW d \in Connections, Store(d) PROVE OneLiveSession'
  BY <1>5 DEF Store, Handled, Refuse, Close, OneLiveSession, TypeOK
<1>6. ASSUME NEW d \in Connections, Provisioned(d) PROVE OneLiveSession'
  BY <1>6 DEF Provisioned, Handled, Close, OneLiveSession, TypeOK
<1>7. ASSUME NEW d \in Connections, Rotate(d) PROVE OneLiveSession'
  BY <1>7 DEF Rotate, OneLiveSession, TypeOK
<1>8. ASSUME NEW d \in Connections, Register(d) PROVE OneLiveSession'
  BY <1>8 DEF Register, Handled, Close, Previous, OneLiveSession, TypeOK
<1>9. CASE PruneSession
  BY <1>9 DEF PruneSession, Close, OneLiveSession, TypeOK
<1>10. CASE Restart
  BY <1>10 DEF Restart, OneLiveSession
<1>11. CASE UNCHANGED <<sock, stage, session>>
  BY <1>11 DEF OneLiveSession
<1>12. \/ \E d \in Connections :
             \/ Connect(d) \/ SocketClosed(d) \/ ProvisionTimeout(d) \/ FirstMessage(d)
             \/ Store(d) \/ Provisioned(d) \/ Rotate(d) \/ Register(d)
       \/ Restart \/ PruneSession \/ UNCHANGED <<sock, stage, session>>
  BY DEF Next, vars, connVars, ToolsReceives, Send, Verdict, RequestFails, Rejected, Reset,
         ToolsForgets, CatalogReads, CatalogSaves, PruneRecord
<1> QED
  BY <1>1, <1>2, <1>3, <1>4, <1>5, <1>6, <1>7, <1>8, <1>9, <1>10, <1>11, <1>12

\* At most one connection can speak for a server at any time.
THEOREM OneSession == Spec => []OneLiveSession
<1>1. Init => OneLiveSession
  BY DEF Init, OneLiveSession
<1> QED BY <1>1, SessionStep, TypeCorrect, PTL DEF Spec
=============================================================================
