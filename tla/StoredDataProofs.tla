--------------------------- MODULE StoredDataProofs ---------------------------
(* The import is safe for every set of records, every content of data.json  *)
(* and of Mongo, and any number of crashes and I/O errors; the statistics   *)
(* are right for all servers, samples and bounds of a request, and no       *)
(* writer loses players everybody has listed.                               *)
EXTENDS StoredData, SequenceTheorems, FiniteSetTheorems, WellFoundedInduction, TLAPS

\* What holds in the phases of a start: which of them come before and after
\* the marker, and what the records and files are known to be in each.
PhaseInv ==
    /\ pc \in {"existing", "write", "mark"} => ~seen
    /\ seen => marker
    /\ pc \in {"archive", "backup", "rename"} => marker
    /\ marker => source \in {"ok", "absent"}
    /\ pc \in {"write", "mark"} => source = "ok"
    /\ pc \in Migrating \ {"read"} => source \in {"ok", "duplicates"}
    /\ pc = "verify" /\ ~seen => source = "ok"
    /\ pc = "rename" => backup = "absent" \/ "backup" \in missed

RecordInv ==
    /\ pc \in {"write", "verify"} /\ ~seen =>
           \A id \in LegacyIds \ existing : mongo[id] \in {NoRecord, Legacy[id]}
    /\ pc \in {"mark", "archive", "backup", "rename"} => Present = LegacyIds
    /\ ImportedFaithfully

IInv == TypeOK /\ PhaseInv /\ RecordInv

-----------------------------------------------------------------------------
\* The two counts agree only when no source record is missing from Mongo.
LEMMA SameCountsComplete ==
    ASSUME SameMigrationCounts(Present)
    PROVE  Present = LegacyIds
<1>1. /\ Present \subseteq LegacyIds
      /\ IsFiniteSet(LegacyStatistics)
      /\ IsFiniteSet(LegacyIds \ Statistics)
  BY LegacyAssumption, FS_Subset, FS_Difference, FS_Intersection
     DEF Present, LegacyStatistics
<1>2. Present \cap Statistics = LegacyStatistics
  BY <1>1, FS_Subset DEF SameMigrationCounts, LegacyStatistics
<1>3. Present \ Statistics = LegacyIds \ Statistics
  BY <1>1, FS_Subset DEF SameMigrationCounts
<1> QED
  BY <1>1, <1>2, <1>3 DEF LegacyStatistics

LEMMA InitIInv == Init => IInv
<1> SUFFICES ASSUME Init PROVE IInv
  OBVIOUS
<1> USE DEF Init
<1>1. TypeOK
  <2>1. faults \in 0 .. MAX_FAULTS
    BY LegacyAssumption
  <2>2. mongo \in [Ids -> Values \cup {NoRecord}]
    OBVIOUS
  <2>3. marker \in BOOLEAN /\ storage \in BOOLEAN /\ seen \in BOOLEAN
    OBVIOUS
  <2>4. pc \in Phases /\ failure \in Failures
    BY DEF Phases, Failures
  <2>5. backup \in {"absent", "other"} \cup Sources
    OBVIOUS
  <2> QED
    BY <2>1, <2>2, <2>3, <2>4, <2>5 DEF TypeOK
<1>2. PhaseInv
  BY DEF PhaseInv, Migrating
<1>3. RecordInv
  BY DEF RecordInv, ImportedFaithfully
<1> QED
  BY <1>1, <1>2, <1>3 DEF IInv

\* What a failing start leaves behind, whatever the phase it failed in.
LEMMA FailIInv ==
    ASSUME IInv, NEW why \in Failures, NEW sent \in SUBSET LegacyIds, FailWith(why, sent),
           UNCHANGED <<disk, mongo, marker>>,
           storage' \in BOOLEAN, faults' \in 0 .. MAX_FAULTS
    PROVE  IInv'
BY DEF IInv, TypeOK, PhaseInv, RecordInv, ImportedFaithfully, FailWith, disk,
       Phases, Failures, Migrating

\* A look for a file: it is there, or it is absent or on record as missed.
LEMMA FindsFacts ==
    ASSUME TypeOK, NEW file \in {"source", "backup"}, NEW contents, NEW found \in BOOLEAN,
           Finds(file, contents, found)
    PROVE  /\ missed' \subseteq {"source", "backup"}
           /\ faults' \in 0 .. MAX_FAULTS
           /\ found \/ contents = "absent" \/ file \in missed'
<1>1. CASE found = (contents # "absent") /\ UNCHANGED <<missed, faults>>
  BY <1>1 DEF TypeOK
<1>2. CASE ~found /\ faults < MAX_FAULTS /\ faults' = faults + 1 /\ missed' = missed \cup {file}
  BY <1>2, LegacyAssumption DEF TypeOK, LegacyAssumption
<1> QED
  BY <1>1, <1>2 DEF Finds

\* Every step of a start, of Mongo, of the manager or of the operator.
LEMMA NextIInv == IInv /\ [Next]_vars => IInv'
<1> SUFFICES ASSUME IInv, [Next]_vars PROVE IInv'
  OBVIOUS
<1> USE DEF IInv, TypeOK, PhaseInv, RecordInv, ImportedFaithfully, Phases, Failures,
            Migrating, disk, local
<1>0. ASSUME NEW why \in Failures, Fail(why), UNCHANGED <<disk, mongo, marker>>,
             storage' \in BOOLEAN, faults' \in 0 .. MAX_FAULTS
      PROVE  IInv'
  BY <1>0, FailIInv DEF Fail
<1>1. CASE \E enableStorage \in BOOLEAN : Start(enableStorage)
  BY <1>1 DEF Start
<1>2. CASE Connect
  BY <1>2 DEF Connect
<1>3. CASE NoSource
  <2>1. missed' \subseteq {"source", "backup"} /\ faults' \in 0 .. MAX_FAULTS
    BY <1>3, FindsFacts DEF NoSource
  <2> QED
    BY <1>3, <2>1 DEF NoSource
<1>4. CASE ReadSource
  <2>1. CASE Fail("source") /\ UNCHANGED <<disk, mongo, marker, storage, faults>>
    BY <2>1, <1>0
  <2>2. CASE source \in {"ok", "duplicates"} /\ pc = "read" /\ pc' = "marker"
             /\ UNCHANGED <<disk, mongo, marker, pending, local, missed, failure, faults>>
    BY <2>2
  <2>3. source \in {"absent", "ok", "unreadable", "duplicates"}
    BY DEF Sources
  <2> QED
    BY <1>4, <2>1, <2>2, <2>3 DEF ReadSource
<1>5. CASE FindMarker
  BY <1>5 DEF FindMarker, Sources
<1>6. CASE FindExisting
  <2>1. CASE Fail("source")
    BY <1>6, <2>1, <1>0 DEF FindExisting
  <2>2. CASE source # "duplicates" /\ existing' = Present /\ pending' = pending \cup LegacyIds
             /\ pc' = "write" /\ UNCHANGED <<failure, seen, missed>>
    BY <1>6, <2>2 DEF FindExisting, Sources, Present
  <2> QED
    BY <1>6, <2>1, <2>2 DEF FindExisting
<1>7. ASSUME NEW id \in LegacyIds, InsertMissing(id) PROVE IInv'
  BY <1>7, LegacyAssumption DEF InsertMissing, Upserted, SetOnInsert, LegacyAssumption, Present
<1>8. ASSUME NEW id \in LegacyIds, RefuseMissing(id) PROVE IInv'
  <2>1. CASE FailWith("write", pending \ {id})
    BY <1>8, <2>1, FailIInv DEF RefuseMissing
  <2>2. CASE pending' = pending \ {id} /\ UNCHANGED <<pc, seen, existing, missed, failure>>
    BY <1>8, <2>2 DEF RefuseMissing, Present
  <2> QED
    BY <1>8, <2>1, <2>2 DEF RefuseMissing
<1>9. CASE WriteLegacyRecords
  BY <1>9 DEF WriteLegacyRecords
<1>10. CASE VerifyLegacyRecords
  <2>1. CASE Fail("verify")
    BY <1>10, <2>1, <1>0 DEF VerifyLegacyRecords
  <2>2. CASE /\ SameMigrationCounts(Present)
             /\ pc' = IF seen THEN "archive" ELSE "mark"
             /\ UNCHANGED <<pending, failure, seen, existing, missed>>
    <3>1. Present = LegacyIds
      BY <2>2, SameCountsComplete
    <3>2. Present' = LegacyIds
      BY <1>10, <3>1 DEF VerifyLegacyRecords, Present
    <3>3. TypeOK' /\ PhaseInv'
      BY <1>10, <2>2 DEF VerifyLegacyRecords
    <3>4. ImportedFaithfully'
      BY <1>10, <2>2, <3>1 DEF VerifyLegacyRecords, Present
    <3> QED
      BY <1>10, <2>2, <3>2, <3>3, <3>4 DEF VerifyLegacyRecords
  <2> QED
    BY <1>10, <2>1, <2>2 DEF VerifyLegacyRecords
<1>11. CASE InsertMarker
  BY <1>11 DEF InsertMarker, Present
<1>12. CASE CheckSource
  <2>1. PICK found \in BOOLEAN : /\ Finds("source", source, found)
                                 /\ pc' = IF found THEN "backup" ELSE "serving"
    BY <1>12 DEF CheckSource
  <2>2. missed' \subseteq {"source", "backup"} /\ faults' \in 0 .. MAX_FAULTS
    BY <2>1, FindsFacts
  <2>3. Present' = Present
    BY <1>12 DEF CheckSource, Present
  <2> QED
    BY <1>12, <2>1, <2>2, <2>3 DEF CheckSource
<1>13. CASE CheckBackup
  <2>1. CASE BackupFound(TRUE) /\ Fail("backup") /\ UNCHANGED <<disk, mongo, marker, storage>>
    BY <2>1, <1>0 DEF BackupFound, Finds
  <2>2. CASE BackupFound(FALSE) /\ pc' = "rename" /\ UNCHANGED <<pending, failure, seen, existing>>
    <3>1. /\ missed' \subseteq {"source", "backup"} /\ faults' \in 0 .. MAX_FAULTS
          /\ backup = "absent" \/ "backup" \in missed'
      BY <2>2, FindsFacts DEF BackupFound
    <3>2. Present' = Present
      BY <1>13 DEF CheckBackup, Present
    <3> QED
      BY <1>13, <2>2, <3>1, <3>2 DEF CheckBackup
  <2> QED
    BY <1>13, <2>1, <2>2 DEF CheckBackup
<1>14. CASE RenameSource
  BY <1>14 DEF RenameSource, Sources
<1>15. ASSUME NEW id \in Ids, NEW value \in Values \cup {NoRecord}, Serve(id, value)
       PROVE  IInv'
  BY <1>15 DEF Serve
<1>16. CASE IOError
  <2>1. CASE Fail("unavailable")
    BY <1>16, <2>1, <1>0, LegacyAssumption DEF IOError, LegacyAssumption
  <2>2. CASE pc' = "fallback" /\ UNCHANGED <<pending, failure, seen, existing, missed>>
    BY <1>16, <2>2, LegacyAssumption DEF IOError, LegacyAssumption
  <2> QED
    BY <1>16, <2>1, <2>2 DEF IOError
<1>17. CASE Crash
  BY <1>17, <1>0, LegacyAssumption DEF Crash, LegacyAssumption
<1>18. CASE Stop
  BY <1>18, <1>0 DEF Stop
<1>19. CASE MoveBackup
  BY <1>19 DEF MoveBackup
<1>20. CASE UNCHANGED vars
  BY <1>20 DEF vars, Present
<1> QED
  BY <1>1, <1>2, <1>3, <1>4, <1>5, <1>6, <1>7, <1>8, <1>9, <1>10, <1>11, <1>12,
     <1>13, <1>14, <1>15, <1>16, <1>17, <1>18, <1>19, <1>20 DEF Next, Boot

\* The state of the import is always well formed.
THEOREM TypeCorrect == Spec => []TypeOK
<1>1. IInv => TypeOK
  BY DEF IInv
<1> QED
  BY <1>1, InitIInv, NextIInv, PTL DEF Spec

LEMMA Invariance == Spec => []IInv
BY InitIInv, NextIInv, PTL DEF Spec

\* A start reaches the marker only with every source record in Mongo, and with
\* the contents of data.json where Mongo did not hold the record before.
THEOREM ImportIsFaithful == Spec => []ImportedFaithfully
<1>1. IInv => ImportedFaithfully
  BY DEF IInv, RecordInv
<1> QED
  BY <1>1, Invariance, PTL

\* data.json is archived only after the marker and with every one of its
\* records in Mongo.
THEOREM ArchiveIsComplete == Spec => ArchivedOnlyWhenComplete
<1>1. IInv /\ [Next]_vars =>
        [source # "absent" /\ source' = "absent"
           => marker /\ source = "ok" /\ Present = LegacyIds]_vars
  BY DEF IInv, PhaseInv, RecordInv, Next, Boot, Start, Connect, ReadSource, FindMarker,
         NoSource, FindExisting, InsertMissing, RefuseMissing, WriteLegacyRecords,
         VerifyLegacyRecords, InsertMarker, CheckSource, Finds, BackupFound, CheckBackup,
         RenameSource, Serve, IOError, Crash, Stop, MoveBackup, disk, Migrating, vars
<1> QED
  BY <1>1, Invariance, PTL DEF Spec, ArchivedOnlyWhenComplete

\* Importing leaves every document that Mongo already holds as it is.
THEOREM ImportPreservesRecords == Spec => ExistingPreserved
<1>1. IInv /\ [Next]_vars =>
        [pc # "serving" =>
           \A id \in Ids : mongo[id] # NoRecord => mongo'[id] = mongo[id]]_vars
  BY DEF IInv, TypeOK, Next, Boot, Start, Connect, ReadSource, FindMarker,
         NoSource, FindExisting, InsertMissing, RefuseMissing, Upserted, SetOnInsert,
         WriteLegacyRecords, VerifyLegacyRecords, InsertMarker, CheckSource, CheckBackup,
         RenameSource, Serve, IOError, Crash, Stop, MoveBackup, vars
<1> QED
  BY <1>1, Invariance, PTL DEF Spec, ExistingPreserved

\* No file that is there as data.json.bak is replaced by a start whose look for
\* it was answered, and data.json only ever moves there.
THEOREM BackupIsKept == Spec => BackupNeverOverwritten
<1>1. IInv /\ [Next]_vars =>
        [/\ backup # "absent" /\ "backup" \notin missed => backup' \in {backup, "absent"}
         /\ source' # source => source' = "absent" /\ backup' = source]_vars
  BY DEF IInv, PhaseInv, Next, Boot, Start, Connect, ReadSource, FindMarker,
         NoSource, FindExisting, InsertMissing, RefuseMissing, WriteLegacyRecords,
         VerifyLegacyRecords, InsertMarker, CheckSource, Finds, BackupFound, CheckBackup,
         RenameSource, Serve, IOError, Crash, Stop, MoveBackup, disk, vars
<1> QED
  BY <1>1, Invariance, PTL DEF Spec, BackupNeverOverwritten

\* The import keeps its promises next to the statistics and the players.
THEOREM ImportNextToOthers ==
    SpecStored => /\ [](TypeOK /\ ImportedFaithfully)
                  /\ ArchivedOnlyWhenComplete /\ ExistingPreserved /\ BackupNeverOverwritten
<1>1. InitStored => Init
  BY DEF InitStored
<1>2. [NextStored]_storedVars => [Next]_vars
  BY DEF NextStored, ImportMoves, BucketsMove, PlayersMove, storedVars
<1>3. SpecStored => Spec
  BY <1>1, <1>2, PTL DEF SpecStored, Spec
<1> QED
  BY <1>3, TypeCorrect, ImportIsFaithful, ArchiveIsComplete, ImportPreservesRecords,
     BackupIsKept, PTL

-----------------------------------------------------------------------------
(* Sums, lists and their order.                                              *)

\* What holds of 0 and is passed on from n to n + 1 holds of every number.
LEMMA Induction ==
    ASSUME NEW T, 0 \in T, \A n \in Nat : n \in T => n + 1 \in T
    PROVE  Nat \subseteq T
<1> SUFFICES ASSUME Nat \ T # {} PROVE FALSE
  OBVIOUS
<1>1. PICK m \in Nat \ T : \A j \in Nat \ T : ~(<<j, m>> \in OpToRel(<, Nat))
  <2> DEFINE U == Nat \ T
  <2>1. U \subseteq Nat /\ U # {}
    OBVIOUS
  <2> HIDE DEF U
  <2>2. \E m \in U : \A j \in U : ~(<<j, m>> \in OpToRel(<, Nat))
    BY <2>1, NatLessThanWellFounded, WFMin
  <2> QED
    BY <2>2 DEF U
<1>2. m - 1 \in Nat /\ m - 1 < m
  OBVIOUS
<1>3. m - 1 \in T
  BY <1>1, <1>2 DEF OpToRel
<1> QED
  BY <1>2, <1>3


-----------------------------------------------------------------------------
(* Lists in the order of an answer.                                         *)

\* Ids of buckets are among these: a server and an hour.
Pairs == Int \X Int

\* The cardinality the statistics speak of is that of the library.
LEMMA SameCardinality == ASSUME NEW S PROVE Buckets!Cardinality(S) = Cardinality(S)
BY DEF Buckets!Cardinality, Cardinality

\* By hour, then by server: a strict total order.
LEMMA EarlierIsOrder ==
    ASSUME NEW a \in Pairs, NEW b \in Pairs, NEW c \in Pairs
    PROVE  /\ ~Buckets!Earlier(a, a)
           /\ Buckets!Earlier(a, b) /\ Buckets!Earlier(b, c) => Buckets!Earlier(a, c)
           /\ a # b => Buckets!Earlier(a, b) \/ Buckets!Earlier(b, a)
BY DEF Pairs, Buckets!Earlier

\* s lists S, in that order.
Lists(s, S) ==
    /\ s \in Seq(S)
    /\ \A x \in S : \E i \in 1 .. Len(s) : s[i] = x
    /\ \A i, j \in 1 .. Len(s) : i < j => Buckets!Earlier(s[i], s[j])

\* What comes last of all goes to the end.
LEMMA AppendLast ==
    ASSUME NEW S \in SUBSET Pairs, NEW m \in S, NEW s, Lists(s, S \ {m}),
           \A x \in S \ {m} : Buckets!Earlier(x, m)
    PROVE  Lists(Append(s, m), S)
<1> DEFINE t == Append(s, m)
<1>1. s \in Seq(S)
  BY DEF Lists
<1>2. t \in Seq(S) /\ Len(t) = Len(s) + 1 /\ t[Len(s) + 1] = m
      /\ \A i \in 1 .. Len(s) : t[i] = s[i]
  BY <1>1
<1> HIDE DEF t
<1>3. \A i \in 1 .. Len(s) : s[i] \in S \ {m}
  BY DEF Lists
<1>4. \A x \in S : \E i \in 1 .. Len(t) : t[i] = x
  <2> SUFFICES ASSUME NEW x \in S PROVE \E i \in 1 .. Len(t) : t[i] = x
    OBVIOUS
  <2>1. CASE x = m
    BY <1>1, <1>2, <2>1
  <2>2. CASE x # m
    <3>1. PICK i \in 1 .. Len(s) : s[i] = x
      BY <2>2 DEF Lists
    <3> QED
      BY <1>1, <1>2, <3>1
  <2> QED
    BY <2>1, <2>2
<1>5. ASSUME NEW i \in 1 .. Len(t), NEW j \in 1 .. Len(t), i < j
      PROVE  Buckets!Earlier(t[i], t[j])
  <2>1. i \in 1 .. Len(s) /\ t[i] = s[i]
    BY <1>1, <1>2, <1>5
  <2>2. CASE j = Len(s) + 1
    BY <1>2, <1>3, <2>1, <2>2
  <2>3. CASE j # Len(s) + 1
    <3>1. j \in 1 .. Len(s) /\ t[j] = s[j]
      BY <1>1, <1>2, <2>3
    <3> QED
      BY <1>5, <2>1, <3>1 DEF Lists
  <2> QED
    BY <2>2, <2>3
<1> QED
  BY <1>2, <1>4, <1>5 DEF Lists, t

\* Every finite set has such a list.
LEMMA ListExists ==
    ASSUME NEW S \in SUBSET Pairs, IsFiniteSet(S)
    PROVE  \E s : Lists(s, S)
<1> DEFINE T == {n \in Nat : \A B \in SUBSET S : Cardinality(B) = n => \E s : Lists(s, B)}
<1>1. 0 \in T
  <2> SUFFICES ASSUME NEW B \in SUBSET S, Cardinality(B) = 0 PROVE \E s : Lists(s, B)
    OBVIOUS
  <2>1. B = {}
    BY FS_Subset, FS_EmptySet
  <2>2. Lists(<<>>, {})
    BY DEF Lists
  <2> QED
    BY <2>1, <2>2
<1>2. ASSUME NEW n \in Nat, n \in T PROVE n + 1 \in T
  <2> SUFFICES ASSUME NEW B \in SUBSET S, Cardinality(B) = n + 1 PROVE \E s : Lists(s, B)
    OBVIOUS
  <2>1. IsFiniteSet(B)
    BY FS_Subset
  <2>2. PICK x \in B : TRUE
    BY <2>1, FS_EmptySet
  <2>3. \A y \in B : Cardinality(B \ {y}) = n
    <3> SUFFICES ASSUME NEW y \in B PROVE Cardinality(B \ {y}) = n
      OBVIOUS
    <3>1. Cardinality(B \ {y}) = Cardinality(B) - 1
      BY <2>1, FS_RemoveElement
    <3> QED
      BY <3>1
  <2>4. \A y \in B : \E s : Lists(s, B \ {y})
    BY <1>2, <2>3
  <2>5. PICK s : Lists(s, B \ {x})
    BY <2>4
  <2> HIDE DEF T
  <2> DEFINE l == s[Len(s)]
  <2>6. Len(s) \in Nat /\ s \in Seq(B \ {x})
    BY <2>5 DEF Lists
  <2>7. \E m \in B : \A y \in B \ {m} : Buckets!Earlier(y, m)
    <3>1. CASE Len(s) = 0
      <4>1. B \ {x} = {}
        BY <2>5, <3>1 DEF Lists
      <4> QED
        BY <4>1
    <3>2. CASE Len(s) # 0
      <4>1. l \in B \ {x}
        BY <2>6, <3>2
      <4>2. \A y \in B \ {x} : y = l \/ Buckets!Earlier(y, l)
        BY <2>5, <2>6, <3>2 DEF Lists
      <4> HIDE DEF l
      <4>3. CASE Buckets!Earlier(l, x)
        <5>1. \A y \in B \ {x} : Buckets!Earlier(y, x)
          BY <4>1, <4>2, <4>3, EarlierIsOrder
        <5> QED
          BY <5>1
      <4>4. CASE ~Buckets!Earlier(l, x)
        <5>1. Buckets!Earlier(x, l)
          BY <4>1, <4>4, EarlierIsOrder
        <5> QED
          BY <4>1, <4>2, <5>1
      <4> QED
        BY <4>3, <4>4
    <3> QED
      BY <2>6, <3>1, <3>2
  <2>8. PICK m \in B : \A y \in B \ {m} : Buckets!Earlier(y, m)
    BY <2>7
  <2>9. PICK t : Lists(t, B \ {m})
    BY <2>4
  <2>10. Lists(Append(t, m), B)
    <3>1. B \in SUBSET Pairs
      OBVIOUS
    <3> QED
      BY <2>8, <2>9, <3>1, AppendLast
  <2> QED
    BY <2>10
<1>3. Cardinality(S) \in Nat
  BY FS_CardinalityType
<1> HIDE DEF T
<1>4. Cardinality(S) \in T
  BY <1>1, <1>2, <1>3, Induction
<1> QED
  BY <1>4 DEF T

\* A list of S is made of elements of S.
LEMMA ListsElements ==
    ASSUME NEW S, NEW s, Lists(s, S)
    PROVE  \A i \in 1 .. Len(s) : s[i] \in S
<1>1. s \in Seq(S)
  BY DEF Lists
<1> QED
  BY <1>1

\* Of two lists of a set, neither is ahead of the other.
LEMMA ListsPrefix ==
    ASSUME NEW S \in SUBSET Pairs, NEW s, Lists(s, S), NEW t, Lists(t, S)
    PROVE  Len(s) <= Len(t) /\ \A i \in 1 .. Len(s) : s[i] = t[i]
<1> DEFINE T == {n \in Nat : n <= Len(s) => n <= Len(t) /\ \A i \in 1 .. n : s[i] = t[i]}
<1>1. Len(s) \in Nat /\ Len(t) \in Nat
  BY DEF Lists
<1>2. /\ \A i \in 1 .. Len(s) : s[i] \in S
      /\ \A i \in 1 .. Len(t) : t[i] \in S
  BY ListsElements
<1>3. 0 \in T
  BY <1>1
<1>4. ASSUME NEW n \in Nat, n \in T PROVE n + 1 \in T
  <2> SUFFICES ASSUME n + 1 <= Len(s)
               PROVE  n + 1 <= Len(t) /\ s[n + 1] = t[n + 1]
    <3>1. n <= Len(s) => n <= Len(t) /\ \A i \in 1 .. n : s[i] = t[i]
      BY <1>4
    <3>2. \A i \in 1 .. (n + 1) : i \in 1 .. n \/ i = n + 1
      OBVIOUS
    <3> QED
      BY <1>1, <3>1, <3>2
  <2>1. \A i \in 1 .. n : s[i] = t[i]
    BY <1>1, <1>4
  <2>2. n <= Len(t)
    BY <1>1, <1>4
  <2> HIDE DEF T
  <2>3. n + 1 \in 1 .. Len(s)
    BY <1>1
  <2>4. PICK j \in 1 .. Len(t) : t[j] = s[n + 1]
    BY <1>2, <2>3 DEF Lists
  <2>5. j > n
    <3> SUFFICES ASSUME j \in 1 .. n PROVE FALSE
      BY <2>4
    <3>1. s[j] = s[n + 1] /\ j < n + 1 /\ j \in 1 .. Len(s)
      BY <2>1, <2>3, <2>4
    <3>2. Buckets!Earlier(s[j], s[n + 1])
      BY <2>3, <3>1 DEF Lists
    <3> QED
      BY <1>2, <2>3, <3>1, <3>2, EarlierIsOrder
  <2>6. n + 1 \in 1 .. Len(t)
    BY <1>1, <2>5
  <2>7. PICK k \in 1 .. Len(s) : s[k] = t[n + 1]
    BY <1>2, <2>6 DEF Lists
  <2>8. k > n
    <3> SUFFICES ASSUME k \in 1 .. n PROVE FALSE
      BY <2>7
    <3>1. t[k] = t[n + 1] /\ k < n + 1 /\ k \in 1 .. Len(t)
      BY <2>1, <2>6, <2>7
    <3>2. Buckets!Earlier(t[k], t[n + 1])
      BY <2>6, <3>1 DEF Lists
    <3> QED
      BY <1>2, <2>6, <3>1, <3>2, EarlierIsOrder
  <2>9. s[n + 1] = t[n + 1]
    <3> SUFFICES ASSUME s[n + 1] # t[n + 1] PROVE FALSE
      OBVIOUS
    <3>1. n + 1 < j /\ n + 1 < k
      BY <2>4, <2>5, <2>7, <2>8
    <3>2. Buckets!Earlier(t[n + 1], s[n + 1])
      BY <2>4, <2>6, <3>1 DEF Lists
    <3>3. Buckets!Earlier(s[n + 1], t[n + 1])
      BY <2>3, <2>7, <3>1 DEF Lists
    <3>4. s[n + 1] \in Pairs /\ t[n + 1] \in Pairs
      BY <1>2, <2>3, <2>6
    <3> QED
      BY <3>2, <3>3, <3>4, EarlierIsOrder
  <2> QED
    BY <2>6, <2>9
<1> HIDE DEF T
<1>5. Len(s) \in T
  BY <1>1, <1>3, <1>4, Induction
<1> QED
  BY <1>1, <1>5 DEF T

\* There is one list of a set.
LEMMA ListUnique ==
    ASSUME NEW S \in SUBSET Pairs, NEW s, Lists(s, S), NEW t, Lists(t, S)
    PROVE  s = t
<1>1. s \in Seq(S) /\ t \in Seq(S)
  BY DEF Lists
<1>2. Len(s) <= Len(t) /\ \A i \in 1 .. Len(s) : s[i] = t[i]
  BY ListsPrefix
<1>3. Len(t) <= Len(s)
  BY ListsPrefix
<1>4. Len(s) = Len(t)
  BY <1>1, <1>2, <1>3
<1> QED
  BY <1>1, <1>2, <1>4, SeqEqual

\* The lists of two sets, one earlier than the other, make that of both.
LEMMA ConcatLists ==
    ASSUME NEW A \in SUBSET Pairs, NEW B \in SUBSET Pairs,
           NEW s, Lists(s, A), NEW t, Lists(t, B),
           \A a \in A, b \in B : Buckets!Earlier(a, b)
    PROVE  Lists(s \o t, A \cup B)
<1> DEFINE S == A \cup B
           u == s \o t
<1>1. s \in Seq(S) /\ t \in Seq(S) /\ Len(s) \in Nat /\ Len(t) \in Nat
  BY DEF Lists
<1>2. /\ u \in Seq(S) /\ Len(u) = Len(s) + Len(t)
      /\ \A i \in 1 .. Len(u) : u[i] = IF i <= Len(s) THEN s[i] ELSE t[i - Len(s)]
  BY <1>1
<1> HIDE DEF u
<1>3. \A x \in S : \E i \in 1 .. Len(u) : u[i] = x
  <2> SUFFICES ASSUME NEW x \in S PROVE \E i \in 1 .. Len(u) : u[i] = x
    OBVIOUS
  <2>1. CASE x \in A
    <3>1. PICK i \in 1 .. Len(s) : s[i] = x
      BY <2>1 DEF Lists
    <3>2. i \in 1 .. Len(u) /\ u[i] = x
      BY <1>1, <1>2, <3>1
    <3> QED
      BY <3>2
  <2>2. CASE x \in B
    <3>1. PICK i \in 1 .. Len(t) : t[i] = x
      BY <2>2 DEF Lists
    <3>2. Len(s) + i \in 1 .. Len(u) /\ ~(Len(s) + i <= Len(s)) /\ (Len(s) + i) - Len(s) = i
      BY <1>1, <1>2, <3>1
    <3>3. u[Len(s) + i] = t[i]
      BY <1>2, <3>2
    <3> QED
      BY <3>1, <3>2, <3>3
  <2> QED
    BY <2>1, <2>2
<1>4. ASSUME NEW i \in 1 .. Len(u), NEW j \in 1 .. Len(u), i < j
      PROVE  Buckets!Earlier(u[i], u[j])
  <2>1. CASE j <= Len(s)
    <3>1. i \in 1 .. Len(s) /\ j \in 1 .. Len(s) /\ u[i] = s[i] /\ u[j] = s[j]
      BY <1>1, <1>2, <1>4, <2>1
    <3> QED
      BY <1>4, <3>1 DEF Lists
  <2>2. CASE i > Len(s)
    <3>1. /\ i - Len(s) \in 1 .. Len(t) /\ j - Len(s) \in 1 .. Len(t)
          /\ i - Len(s) < j - Len(s)
          /\ u[i] = t[i - Len(s)] /\ u[j] = t[j - Len(s)]
      BY <1>1, <1>2, <1>4, <2>2
    <3> QED
      BY <3>1 DEF Lists
  <2>3. CASE i <= Len(s) /\ j > Len(s)
    <3>1. i \in 1 .. Len(s) /\ j - Len(s) \in 1 .. Len(t)
      BY <1>1, <1>2, <1>4, <2>3
    <3>2. u[i] = s[i] /\ u[j] = t[j - Len(s)]
      BY <1>1, <1>2, <2>3
    <3>3. s[i] \in A /\ t[j - Len(s)] \in B
      BY <3>1, ListsElements
    <3> QED
      BY <3>2, <3>3
  <2> QED
    BY <1>1, <1>2, <2>1, <2>2, <2>3
<1> QED
  BY <1>2, <1>3, <1>4 DEF Lists, u

\* Sorted lists a finite set.
LEMMA SortedLists ==
    ASSUME NEW S \in SUBSET Pairs, IsFiniteSet(S)
    PROVE  Lists(Buckets!Sorted(S), S)
<1>1. PICK s : Lists(s, S)
  BY ListExists
<1>2. s \in Seq(S) /\ Len(s) \in Nat /\ \A i \in 1 .. Len(s) : s[i] \in S
  BY <1>1 DEF Lists
<1>3. \A i, j \in 1 .. Len(s) : Buckets!Earlier(s[i], s[j]) <=> i < j
  <2> SUFFICES ASSUME NEW i \in 1 .. Len(s), NEW j \in 1 .. Len(s), Buckets!Earlier(s[i], s[j])
               PROVE  i < j
    BY <1>1 DEF Lists
  <2>1. s[i] \in Pairs /\ s[j] \in Pairs
    BY <1>2
  <2>2. j < i => Buckets!Earlier(s[j], s[i])
    BY <1>1 DEF Lists
  <2>3. i # j
    BY <2>1, EarlierIsOrder
  <2>4. ~(j < i)
    BY <2>1, <2>2, EarlierIsOrder
  <2> QED
    BY <2>3, <2>4
<1> DEFINE before(x) == {y \in S : Buckets!Earlier(y, x)}
<1>4. ASSUME NEW n \in 0 .. Len(s), NEW B, B = {s[i] : i \in 1 .. n}
      PROVE  Cardinality(B) = n
  <2> DEFINE f == [i \in 1 .. n |-> s[i]]
  <2>1. \A i, j \in 1 .. n : s[i] = s[j] => i = j
    <3> SUFFICES ASSUME NEW i \in 1 .. n, NEW j \in 1 .. n, s[i] = s[j] PROVE i = j
      OBVIOUS
    <3>1. i \in 1 .. Len(s) /\ j \in 1 .. Len(s)
      BY <1>2
    <3>2. ~(i < j) /\ ~(j < i)
      BY <1>3, <3>1
    <3> QED
      BY <3>2
  <2>2. f \in Bijection(1 .. n, B)
    BY <1>4, <2>1 DEF Bijection, Injection, Surjection, IsInjective
  <2>3. ExistsBijection(1 .. n, B)
    BY <2>2 DEF ExistsBijection
  <2> QED
    BY <2>3, FS_CountingElements
<1>5. Cardinality(S) = Len(s)
  <2>1. \A x \in S : \E i \in 1 .. Len(s) : s[i] = x
    BY <1>1 DEF Lists
  <2>2. S = {s[i] : i \in 1 .. Len(s)}
    BY <1>2, <2>1
  <2>3. Len(s) \in 0 .. Len(s)
    BY <1>2
  <2> HIDE DEF before
  <2> QED
    BY <1>4, <2>2, <2>3
<1>6. ASSUME NEW n \in 1 .. Len(s) PROVE Cardinality(before(s[n])) = n - 1
  <2>1. before(s[n]) = {s[i] : i \in 1 .. (n - 1)}
    <3>1. ASSUME NEW i \in 1 .. (n - 1) PROVE s[i] \in before(s[n])
      BY <1>2, <1>3
    <3>2. ASSUME NEW y \in before(s[n]) PROVE \E i \in 1 .. (n - 1) : s[i] = y
      <4>1. PICK i \in 1 .. Len(s) : s[i] = y
        BY <1>1 DEF Lists
      <4>2. i < n
        BY <1>3, <4>1
      <4> QED
        BY <4>1, <4>2
    <3> HIDE DEF before
    <3> QED
      BY <3>1, <3>2
  <2>2. n - 1 \in 0 .. Len(s)
    BY <1>2
  <2> HIDE DEF before
  <2> QED
    BY <1>4, <2>1, <2>2
<1>7. ASSUME NEW n \in 1 .. Len(s)
      PROVE  (CHOOSE x \in S : Cardinality(before(x)) = n - 1) = s[n]
  <2>1. s[n] \in S /\ Cardinality(before(s[n])) = n - 1
    BY <1>2, <1>6
  <2>2. ASSUME NEW x \in S, Cardinality(before(x)) = n - 1 PROVE x = s[n]
    <3>1. PICK i \in 1 .. Len(s) : s[i] = x
      BY <1>1 DEF Lists
    <3>2. i - 1 = n - 1
      BY <1>6, <2>2, <3>1
    <3> QED
      BY <3>1, <3>2
  <2> HIDE DEF before
  <2> QED
    BY <2>1, <2>2
<1>8. Buckets!Sorted(S) = [n \in 1 .. Len(s) |-> CHOOSE x \in S : Cardinality(before(x)) = n - 1]
  <2>1. \A B : Buckets!Cardinality(B) = Cardinality(B)
    BY SameCardinality
  <2>2. Buckets!Cardinality(S) = Len(s)
    BY <1>5, <2>1
  <2>3. Buckets!Sorted(S) = [n \in 1 .. Buckets!Cardinality(S) |->
                               CHOOSE x \in S : Buckets!Cardinality(before(x)) = n - 1]
    BY DEF Buckets!Sorted
  <2> HIDE DEF before
  <2> QED
    BY <2>1, <2>2, <2>3
<1>9. Buckets!Sorted(S) = [n \in 1 .. Len(s) |-> s[n]]
  <2> HIDE DEF before
  <2> QED
    BY <1>7, <1>8
<1>10. Buckets!Sorted(S) = s
  BY <1>2, <1>9
<1> QED
  BY <1>1, <1>10

\* The sum over no samples, and over one more (the loop of Total).
LEMMA TotalFacts ==
    ASSUME NEW s, NEW id
    PROVE  /\ s = <<>> => Buckets!Total(s, id) = 0
           /\ \A X, x : s \in Seq(X) =>
                Buckets!Total(Append(s, x), id) =
                    IF Buckets!BucketId(x) = id THEN Buckets!Total(s, id) + x.count
                    ELSE Buckets!Total(s, id)
<1> DEFINE Value(l, g, n) == IF n = 0 THEN 0
                             ELSE IF Buckets!BucketId(l[n]) = id THEN g[n - 1] + l[n].count
                             ELSE g[n - 1]
           Unrolled(l, N, g) == g = [n \in 0 .. N |-> Value(l, g, n)]
           sum(l) == CHOOSE g : Unrolled(l, Len(l), g)
<1>1. ASSUME NEW l, NEW K \in Nat PROVE \E g : Unrolled(l, K, g)
  <2> DEFINE E == {N \in Nat : \E g : Unrolled(l, N, g)}
  <2>1. 0 \in E
    <3>1. Unrolled(l, 0, [n \in 0 .. 0 |-> 0])
      OBVIOUS
    <3> HIDE DEF Unrolled
    <3> QED
      BY <3>1
  <2>2. ASSUME NEW N \in Nat, N \in E PROVE N + 1 \in E
    <3>1. PICK g : Unrolled(l, N, g)
      BY <2>2
    <3>2. \A n \in 0 .. N : g[n] = Value(l, g, n)
      <4> HIDE DEF Value
      <4> QED
        BY <3>1
    <3> DEFINE h == [n \in 0 .. (N + 1) |-> IF n = N + 1 THEN Value(l, g, n) ELSE g[n]]
    <3>3. Unrolled(l, N + 1, h)
      <4> SUFFICES ASSUME NEW n \in 0 .. (N + 1) PROVE h[n] = Value(l, h, n)
        OBVIOUS
      <4>1. n # 0 => h[n - 1] = g[n - 1]
        OBVIOUS
      <4>2. Value(l, h, n) = Value(l, g, n)
        BY <4>1
      <4>3. n # N + 1 => g[n] = Value(l, g, n)
        BY <3>2
      <4> QED
        BY <4>2, <4>3
    <3> HIDE DEF h, Unrolled
    <3> QED
      BY <3>3
  <2> HIDE DEF E
  <2>3. K \in E
    BY <2>1, <2>2, Induction
  <2> HIDE DEF Unrolled
  <2> QED
    BY <2>3 DEF E
<1>2. \A l : Buckets!Total(l, id) = sum(l)[Len(l)]
  BY DEF Buckets!Total
<1>3. ASSUME NEW l, Len(l) \in Nat
      PROVE  \A n \in 0 .. Len(l) : sum(l)[n] = Value(l, sum(l), n)
  <2>1. Unrolled(l, Len(l), sum(l))
    <3> HIDE DEF Unrolled
    <3> QED
      BY <1>1, <1>3
  <2> HIDE DEF sum, Value
  <2> QED
    BY <2>1
<1> HIDE DEF sum, Unrolled
<1>4. s = <<>> => Buckets!Total(s, id) = 0
  BY <1>2, <1>3
<1>5. ASSUME NEW X, NEW x, s \in Seq(X)
      PROVE  Buckets!Total(Append(s, x), id) =
                 IF Buckets!BucketId(x) = id THEN Buckets!Total(s, id) + x.count
                 ELSE Buckets!Total(s, id)
  <2> DEFINE t == Append(s, x)
  <2>1. /\ Len(s) \in Nat /\ Len(t) = Len(s) + 1 /\ t[Len(s) + 1] = x
        /\ \A i \in 1 .. Len(s) : t[i] = s[i]
    BY <1>5
  <2> HIDE DEF t
  <2>2. /\ \A n \in 0 .. Len(s) : sum(s)[n] = Value(s, sum(s), n)
        /\ \A n \in 0 .. Len(t) : sum(t)[n] = Value(t, sum(t), n)
    <3> HIDE DEF Value
    <3> QED
      BY <1>3, <2>1
  <2> DEFINE T == {n \in Nat : n <= Len(s) => sum(t)[n] = sum(s)[n]}
  <2>3. 0 \in T
    BY <2>1, <2>2
  <2>4. ASSUME NEW n \in Nat, n \in T PROVE n + 1 \in T
    <3> SUFFICES ASSUME n + 1 <= Len(s) PROVE sum(t)[n + 1] = sum(s)[n + 1]
      OBVIOUS
    <3>1. sum(t)[n] = sum(s)[n]
      BY <2>1, <2>4
    <3>2. n + 1 \in 0 .. Len(s) /\ n + 1 \in 0 .. Len(t) /\ n + 1 # 0 /\ (n + 1) - 1 = n
          /\ t[n + 1] = s[n + 1]
      BY <2>1
    <3> HIDE DEF T
    <3>3. /\ sum(s)[n + 1] = Value(s, sum(s), n + 1)
          /\ sum(t)[n + 1] = Value(t, sum(t), n + 1)
      <4> HIDE DEF Value
      <4> QED
        BY <2>2, <3>2
    <3> QED
      BY <3>1, <3>2, <3>3
  <2> HIDE DEF T
  <2>5. Len(s) \in T
    BY <2>1, <2>3, <2>4, Induction
  <2>6. sum(t)[Len(s)] = sum(s)[Len(s)]
    BY <2>1, <2>5 DEF T
  <2>7. sum(t)[Len(t)] = Value(t, sum(t), Len(t))
    <3>1. Len(t) \in 0 .. Len(t)
      BY <2>1
    <3> HIDE DEF Value
    <3> QED
      BY <2>2, <3>1
  <2>8. Len(t) # 0 /\ Len(t) - 1 = Len(s) /\ t[Len(t)] = x
    BY <2>1
  <2>9. sum(t)[Len(t)] = IF Buckets!BucketId(x) = id THEN sum(s)[Len(s)] + x.count
                         ELSE sum(s)[Len(s)]
    BY <2>6, <2>7, <2>8
  <2> QED
    BY <1>2, <2>9 DEF t
<1> QED
  BY <1>4, <1>5

\* The sum over samples of other buckets.
LEMMA TotalNone ==
    ASSUME NEW X, NEW s \in Seq(X), NEW id,
           \A i \in 1 .. Len(s) : Buckets!BucketId(s[i]) # id
    PROVE  Buckets!Total(s, id) = 0
<1> DEFINE T == {n \in Nat : \A r \in Seq(X) :
                    Len(r) = n /\ (\A i \in 1 .. n : Buckets!BucketId(r[i]) # id)
                        => Buckets!Total(r, id) = 0}
<1>1. 0 \in T
  <2> SUFFICES ASSUME NEW r \in Seq(X), Len(r) = 0 PROVE Buckets!Total(r, id) = 0
    OBVIOUS
  <2>1. r = <<>>
    OBVIOUS
  <2> QED
    BY <2>1, TotalFacts
<1>2. ASSUME NEW n \in Nat, n \in T PROVE n + 1 \in T
  <2> SUFFICES ASSUME NEW r \in Seq(X), Len(r) = n + 1,
                      \A i \in 1 .. (n + 1) : Buckets!BucketId(r[i]) # id
               PROVE  Buckets!Total(r, id) = 0
    OBVIOUS
  <2> DEFINE front == [i \in 1 .. n |-> r[i]]
  <2>1. front \in Seq(X) /\ Len(front) = n /\ r = Append(front, r[n + 1])
    OBVIOUS
  <2>2. \A i \in 1 .. n : Buckets!BucketId(front[i]) # id
    OBVIOUS
  <2> HIDE DEF front
  <2>3. Buckets!Total(front, id) = 0
    BY <1>2, <2>1, <2>2
  <2> DEFINE x == r[n + 1]
  <2>4. Buckets!BucketId(x) # id
    OBVIOUS
  <2> HIDE DEF x
  <2>5. Buckets!Total(Append(front, x), id) = Buckets!Total(front, id)
    BY <2>1, <2>4, TotalFacts
  <2> QED
    BY <2>1, <2>3, <2>5 DEF x
<1> HIDE DEF T
<1>3. Len(s) \in T
  BY <1>1, <1>2, Induction
<1> QED
  BY <1>3 DEF T

\* The largest of a set of numbers.
LEMMA MaxIs ==
    ASSUME NEW S \in SUBSET Int, NEW x \in S, \A y \in S : y <= x
    PROVE  Buckets!Max(S) = x
<1>1. \E z \in S : \A y \in S : z >= y
  OBVIOUS
<1>2. Buckets!Max(S) \in S /\ \A y \in S : Buckets!Max(S) >= y
  BY <1>1 DEF Buckets!Max
<1> DEFINE m == Buckets!Max(S)
<1> HIDE DEF m
<1>3. m \in Int /\ x \in Int /\ m <= x /\ x <= m
  BY <1>2 DEF m
<1>4. m = x
  BY <1>3
<1> QED
  BY <1>4 DEF m

-----------------------------------------------------------------------------
(* Recording: what a bucket counts is what was recorded of its hour.        *)

Bucket == [samples : Nat, online : Nat, total : Nat, most : Nat,
           uids : SUBSET UNION {s.uids : s \in Samples}, updated : Int]

Accounts(bucket, id) ==
    LET taken == Buckets!SamplesOf(id)
    IN  /\ bucket \in Bucket
        /\ bucket.samples = Cardinality(taken)
        /\ bucket.online = Cardinality({i \in taken : recorded[i].online})
        /\ bucket.total = Buckets!Total(recorded, id)
        /\ bucket.most \in {0} \cup {recorded[i].count : i \in taken}
        /\ \A i \in taken : recorded[i].count <= bucket.most
        /\ bucket.uids = UNION {recorded[i].uids : i \in taken}
        /\ \E i \in taken : bucket.updated = recorded[i].at /\ \A j \in taken : j <= i

StatisticsInv ==
    /\ recorded \in Seq(Samples)
    /\ listed \subseteq Servers
    /\ DOMAIN buckets = Buckets!BucketIds
    /\ \A id \in Buckets!BucketIds :
          IF Buckets!SamplesOf(id) = {} THEN buckets[id] = None
          ELSE Accounts(buckets[id], id)

LEMMA StatisticsInit == Buckets!Init => StatisticsInv
<1> SUFFICES ASSUME Buckets!Init PROVE StatisticsInv
  OBVIOUS
<1>1. recorded = <<>> /\ listed = Servers /\ buckets = [id \in Buckets!BucketIds |-> None]
  BY DEF Buckets!Init
<1>2. \A id : Buckets!SamplesOf(id) = {}
  BY <1>1 DEF Buckets!SamplesOf
<1> QED
  BY <1>1, <1>2 DEF StatisticsInv

\* A sample goes to the bucket of its server and hour, and to no other.
LEMMA RecordingAccounts ==
    ASSUME StatisticsInv, NEW sample \in Samples,
           Buckets!RecordServerStatisticsSample(sample)
    PROVE  StatisticsInv'
<1> DEFINE n == Len(recorded) + 1
           own == Buckets!BucketId(sample)
<1>1. /\ recorded \in Seq(Samples) /\ Len(recorded) \in Nat
      /\ recorded' = Append(recorded, sample) /\ listed' = listed
      /\ recorded' \in Seq(Samples)
  BY DEF StatisticsInv, Buckets!RecordServerStatisticsSample
<1>2. /\ Len(recorded') = n /\ recorded'[n] = sample /\ n \in Nat
      /\ \A i \in 1 .. Len(recorded) : recorded'[i] = recorded[i]
      /\ DOMAIN recorded' = 1 .. n /\ DOMAIN recorded = 1 .. Len(recorded)
      /\ n \notin DOMAIN recorded
  BY <1>1
<1>3. own \in Buckets!BucketIds /\ sample.count \in Nat /\ sample.at \in Int
      /\ sample.uids \subseteq UNION {s.uids : s \in Samples} /\ sample.online \in BOOLEAN
  BY StatisticsAssumption DEF Buckets!BucketId, Buckets!BucketIds, Buckets!Hours
<1>4. /\ DOMAIN buckets' = Buckets!BucketIds
      /\ \A id \in Buckets!BucketIds \ {own} : buckets'[id] = buckets[id]
      /\ buckets'[own] = Buckets!Added(IF buckets[own] = None THEN Buckets!NewBucket
                                       ELSE buckets[own], sample)
  BY <1>3 DEF StatisticsInv, Buckets!RecordServerStatisticsSample
<1> HIDE DEF n
<1>5. ASSUME NEW id \in Buckets!BucketIds \ {own}
      PROVE  IF Buckets!SamplesOf(id)' = {} THEN buckets'[id] = None
             ELSE Accounts(buckets[id], id)'
  <2>1. Buckets!SamplesOf(id)' = Buckets!SamplesOf(id)
    BY <1>1, <1>2 DEF Buckets!SamplesOf, Buckets!BucketId
  <2>2. Buckets!Total(recorded, id)' = Buckets!Total(recorded, id)
    BY <1>1, TotalFacts
  <2>3. \A i \in Buckets!SamplesOf(id) : recorded'[i] = recorded[i]
    BY <1>2 DEF Buckets!SamplesOf
  <2>4. buckets'[id] = buckets[id]
    BY <1>4
  <2>5. /\ {i \in Buckets!SamplesOf(id) : recorded'[i].online}
            = {i \in Buckets!SamplesOf(id) : recorded[i].online}
        /\ {recorded'[i].count : i \in Buckets!SamplesOf(id)}
            = {recorded[i].count : i \in Buckets!SamplesOf(id)}
        /\ {recorded'[i].uids : i \in Buckets!SamplesOf(id)}
            = {recorded[i].uids : i \in Buckets!SamplesOf(id)}
    BY <2>3
  <2>6. ASSUME Accounts(buckets[id], id) PROVE Accounts(buckets[id], id)'
    BY <2>1, <2>2, <2>3, <2>4, <2>5, <2>6 DEF Accounts, Bucket
  <2> QED
    BY <2>1, <2>4, <2>6 DEF StatisticsInv
<1>6. Buckets!SamplesOf(own)' = Buckets!SamplesOf(own) \cup {n}
  BY <1>1, <1>2 DEF Buckets!SamplesOf, Buckets!BucketId
<1>7. Accounts(buckets[own], own)'
  <2> DEFINE taken == Buckets!SamplesOf(own)
             old == IF buckets[own] = None THEN Buckets!NewBucket ELSE buckets[own]
             new == buckets'[own]
  <2>1. taken \subseteq 1 .. Len(recorded) /\ n \notin taken /\ IsFiniteSet(taken)
        /\ \A i \in taken : recorded'[i] = recorded[i]
    <3>1. taken \subseteq 1 .. Len(recorded)
      BY <1>2 DEF Buckets!SamplesOf
    <3>2. IsFiniteSet(1 .. Len(recorded))
      BY <1>1, FS_Interval
    <3> HIDE DEF taken
    <3> QED
      BY <1>2, <3>1, <3>2, FS_Subset
  \* What the bucket counted before; NewBucket counts nothing.
  <2>2. /\ old \in Bucket
        /\ old.samples = Cardinality(taken)
        /\ old.online = Cardinality({i \in taken : recorded[i].online})
        /\ old.total = Buckets!Total(recorded, own)
        /\ old.most \in {0} \cup {recorded[i].count : i \in taken}
        /\ \A i \in taken : recorded[i].count <= old.most
        /\ old.uids = UNION {recorded[i].uids : i \in taken}
    <3>1. CASE taken = {}
      <4>1. old = Buckets!NewBucket
        BY <1>3, <3>1 DEF StatisticsInv
      <4>2. \A i \in 1 .. Len(recorded) : Buckets!BucketId(recorded[i]) # own
        BY <1>2, <3>1 DEF Buckets!SamplesOf
      <4>3. Buckets!Total(recorded, own) = 0
        BY <1>1, <4>2, TotalNone
      <4> HIDE DEF old
      <4>4. Cardinality({}) = 0
        BY FS_EmptySet
      <4>5. {i \in taken : recorded[i].online} = {} /\ {recorded[i].uids : i \in taken} = {}
        BY <3>1
      <4> HIDE DEF taken
      <4> QED
        BY <3>1, <4>1, <4>3, <4>4, <4>5 DEF Buckets!NewBucket, Bucket
    <3>2. CASE taken # {}
      <4>1. Accounts(buckets[own], own)
        BY <1>3, <3>2 DEF StatisticsInv
      <4>2. buckets[own] \in Bucket
        BY <4>1 DEF Accounts
      <4>3. buckets[own] # None
        BY <4>2, StatisticsAssumption DEF Bucket
      <4>4. old = buckets[own]
        BY <4>3
      <4> HIDE DEF old
      <4> QED
        BY <4>1, <4>4 DEF Accounts
    <3> QED
      BY <3>1, <3>2
  <2>3. new = Buckets!Added(old, sample)
    BY <1>4
  <2> HIDE DEF taken, old
  <2>4. /\ new \in Bucket
        /\ new.samples = Cardinality(taken) + 1
        /\ new.online = IF sample.online THEN old.online + 1 ELSE old.online
        /\ new.total = old.total + sample.count
        /\ new.most = IF old.most > sample.count THEN old.most ELSE sample.count
        /\ new.uids = old.uids \cup sample.uids
        /\ new.updated = sample.at
    BY <1>3, <2>2, <2>3 DEF Buckets!Added, Buckets!One, Buckets!Larger, Bucket
  <2> HIDE DEF new
  <2> DEFINE now == taken \cup {n}
  <2>5. now = Buckets!SamplesOf(own)' /\ recorded'[n] = sample /\ n \in now
    BY <1>2, <1>6 DEF taken
  <2>6. new.samples = Cardinality(now)
    BY <2>1, <2>4, FS_AddElement
  <2>7. new.online = Cardinality({i \in now : recorded'[i].online})
    <3> DEFINE on == {i \in taken : recorded[i].online}
    <3>1. IsFiniteSet(on) /\ n \notin on
      BY <2>1, FS_Subset
    <3>2. {i \in now : recorded'[i].online} = IF sample.online THEN on \cup {n} ELSE on
      BY <2>1, <2>5
    <3>3. old.online = Cardinality(on)
      BY <2>2
    <3> HIDE DEF on
    <3>4. Cardinality(on \cup {n}) = Cardinality(on) + 1
      BY <3>1, FS_AddElement
    <3> HIDE DEF now
    <3>5. CASE sample.online
      BY <2>4, <3>2, <3>3, <3>4, <3>5
    <3>6. CASE ~sample.online
      BY <2>4, <3>2, <3>3, <3>6
    <3> QED
      BY <3>5, <3>6
  <2>8. new.total = Buckets!Total(recorded', own)
    BY <1>1, <2>2, <2>4, TotalFacts
  <2>9. /\ new.most \in {0} \cup {recorded'[i].count : i \in now}
        /\ \A i \in now : recorded'[i].count <= new.most
    <3>1. \A i \in now : i = n \/ (i \in taken /\ recorded'[i] = recorded[i])
      BY <2>1
    <3>2. old.most \in Nat
      BY <2>2 DEF Bucket
    <3>3. \A i \in taken : recorded[i].count \in Nat
      BY <1>1, <1>2, <2>1, StatisticsAssumption
    <3>4. \A i \in now : recorded'[i].count <= new.most
      BY <1>3, <2>2, <2>4, <2>5, <3>1, <3>2, <3>3
    <3>5. new.most \in {0} \cup {recorded'[i].count : i \in now}
      <4>1. CASE new.most = sample.count
        BY <2>5, <4>1
      <4>2. CASE new.most = old.most
        BY <2>1, <2>2, <4>2
      <4> QED
        BY <2>4, <4>1, <4>2
    <3> QED
      BY <3>4, <3>5
  <2>10. new.uids = UNION {recorded'[i].uids : i \in now}
    <3>1. {recorded'[i].uids : i \in now} = {recorded[i].uids : i \in taken} \cup {sample.uids}
      BY <2>1, <2>5
    <3> HIDE DEF now
    <3> QED
      BY <2>2, <2>4, <3>1
  <2>11. new.updated = recorded'[n].at /\ \A j \in now : j <= n
    BY <1>1, <2>1, <2>4, <2>5 DEF n
  <2> HIDE DEF now
  <2> QED
    BY <2>4, <2>5, <2>6, <2>7, <2>8, <2>9, <2>10, <2>11 DEF Accounts, new, Bucket
<1>8. \A id \in Buckets!BucketIds :
          IF Buckets!SamplesOf(id)' = {} THEN buckets'[id] = None
          ELSE Accounts(buckets[id], id)'
  BY <1>5, <1>6, <1>7
<1> QED
  BY <1>1, <1>4, <1>8 DEF StatisticsInv

\* The statistics move only by their own steps, and no other part touches them.
LEMMA StatisticsNext == StatisticsInv /\ [NextStored]_storedVars => StatisticsInv'
<1> SUFFICES ASSUME StatisticsInv, [NextStored]_storedVars PROVE StatisticsInv'
  OBVIOUS
<1>1. CASE UNCHANGED bucketVars
  <2>1. \A id : Buckets!SamplesOf(id)' = Buckets!SamplesOf(id)
    BY <1>1 DEF bucketVars, Buckets!SamplesOf
  <2>2. recorded' = recorded /\ listed' = listed /\ buckets' = buckets
    BY <1>1 DEF bucketVars
  <2>3. ASSUME NEW id, Accounts(buckets[id], id) PROVE Accounts(buckets[id], id)'
    BY <2>1, <2>2, <2>3 DEF Accounts, Bucket
  <2> QED
    BY <2>1, <2>2, <2>3 DEF StatisticsInv
<1>2. ASSUME NEW sample \in Samples, Buckets!RecordServerStatisticsSample(sample)
      PROVE  StatisticsInv'
  BY <1>2, RecordingAccounts
<1>3. ASSUME NEW server \in Servers, Buckets!Relist(server) PROVE StatisticsInv'
  <2>1. recorded' = recorded /\ buckets' = buckets /\ listed' \subseteq Servers
    BY <1>3 DEF Buckets!Relist, StatisticsInv
  <2>2. \A id : Buckets!SamplesOf(id)' = Buckets!SamplesOf(id)
    BY <2>1 DEF Buckets!SamplesOf
  <2>3. ASSUME NEW id, Accounts(buckets[id], id) PROVE Accounts(buckets[id], id)'
    BY <2>1, <2>2, <2>3 DEF Accounts, Bucket
  <2> QED
    BY <2>1, <2>2, <2>3 DEF StatisticsInv
<1>4. CASE Buckets!Restart
  <2>1. recorded' = <<>> /\ listed' = Servers
        /\ buckets' = [id \in Buckets!BucketIds |-> None]
    BY <1>4 DEF Buckets!Restart
  <2>2. \A id : Buckets!SamplesOf(id)' = {}
    BY <2>1 DEF Buckets!SamplesOf
  <2> QED
    BY <2>1, <2>2 DEF StatisticsInv
<1>5. [Buckets!Next]_bucketVars
  BY DEF NextStored, ImportMoves, BucketsMove, PlayersMove, storedVars
<1> QED
  BY <1>1, <1>2, <1>3, <1>4, <1>5 DEF Buckets!Next

LEMMA StatisticsInvariance == SpecStored => []StatisticsInv
<1>1. InitStored => StatisticsInv
  BY StatisticsInit DEF InitStored
<1> QED
  BY <1>1, StatisticsNext, PTL DEF SpecStored

-----------------------------------------------------------------------------
(* Answers.                                                                 *)

LEMMA AccountsFit == StatisticsInv => Buckets!BucketsAccount
<1> SUFFICES ASSUME StatisticsInv, NEW id \in Buckets!BucketIds,
                    Buckets!SamplesOf(id) # {}
             PROVE  buckets[id] = Buckets!Account(id)
  BY DEF Buckets!BucketsAccount, StatisticsInv
<1> DEFINE taken == Buckets!SamplesOf(id)
           b == buckets[id]
<1>1. Accounts(b, id)
  BY DEF StatisticsInv
<1>2. /\ taken \subseteq 1 .. Len(recorded) /\ Len(recorded) \in Nat
      /\ \A i \in taken : recorded[i].count \in Nat
  <2>1. recorded \in Seq(Samples) /\ taken \subseteq 1 .. Len(recorded)
    BY DEF StatisticsInv, Buckets!SamplesOf
  <2> QED
    BY <2>1, StatisticsAssumption
<1> HIDE DEF taken, b
<1>3. b.most = Buckets!Max({0} \cup {recorded[i].count : i \in taken})
  <2> DEFINE S == {0} \cup {recorded[i].count : i \in taken}
  <2>1. S \in SUBSET Int /\ b.most \in S /\ b.most \in Nat
    BY <1>1, <1>2 DEF Accounts, taken, Bucket
  <2>2. \A y \in S : y <= b.most
    BY <1>1, <2>1 DEF Accounts, taken
  <2> HIDE DEF S
  <2>3. Buckets!Max(S) = b.most
    BY <2>1, <2>2, MaxIs
  <2> QED
    BY <2>3 DEF S
<1>4. b.updated = recorded[Buckets!Max(taken)].at
  <2>1. PICK i \in taken : b.updated = recorded[i].at /\ \A j \in taken : j <= i
    BY <1>1 DEF Accounts, taken
  <2>2. taken \in SUBSET Int
    BY <1>2
  <2>3. Buckets!Max(taken) = i
    BY <2>1, <2>2, MaxIs
  <2> QED
    BY <2>1, <2>3
<1>5. \A S : Buckets!Cardinality(S) = Cardinality(S)
  BY SameCardinality
<1>6. b \in Bucket
      /\ b.samples = Buckets!Cardinality(taken)
      /\ b.online = Buckets!Cardinality({i \in taken : recorded[i].online})
      /\ b.total = Buckets!Total(recorded, id)
      /\ b.uids = UNION {recorded[i].uids : i \in taken}
  BY <1>1, <1>5 DEF Accounts, taken
<1>7. b = [samples |-> b.samples, online |-> b.online, total |-> b.total,
           most |-> b.most, uids |-> b.uids, updated |-> b.updated]
  BY <1>6 DEF Bucket
<1>8. Buckets!Account(id) =
        [samples |-> Buckets!Cardinality(taken),
         online |-> Buckets!Cardinality({i \in taken : recorded[i].online}),
         total |-> Buckets!Total(recorded, id),
         most |-> Buckets!Max({0} \cup {recorded[i].count : i \in taken}),
         uids |-> UNION {recorded[i].uids : i \in taken},
         updated |-> recorded[Buckets!Max(taken)].at]
  BY DEF Buckets!Account, taken
<1>9. b = Buckets!Account(id)
  BY <1>3, <1>4, <1>6, <1>7, <1>8
<1> QED
  BY <1>9 DEF b

\* What is found is a finite set of ids.
LEMMA FoundFacts ==
    ASSUME StatisticsInv, NEW servers, NEW from, NEW to
    PROVE  /\ Buckets!Found(servers, from, to) \in SUBSET Pairs
           /\ IsFiniteSet(Buckets!Found(servers, from, to))
<1> DEFINE found == Buckets!Found(servers, from, to)
           ids == {Buckets!BucketId(recorded[i]) : i \in 1 .. Len(recorded)}
<1>1. recorded \in Seq(Samples) /\ Len(recorded) \in Nat
  BY DEF StatisticsInv
<1>2. IsFiniteSet(ids)
  <2>1. IsFiniteSet(1 .. Len(recorded))
    BY <1>1, FS_Interval
  <2> DEFINE f == [i \in 1 .. Len(recorded) |-> Buckets!BucketId(recorded[i])]
  <2>2. f \in Surjection(1 .. Len(recorded), ids)
    BY DEF Surjection
  <2> QED
    BY <2>1, <2>2, FS_Surjection
<1>3. found \subseteq ids
  <2> SUFFICES ASSUME NEW id \in found PROVE id \in ids
    OBVIOUS
  <2>1. id \in Buckets!BucketIds /\ buckets[id] # None
    BY DEF Buckets!Found
  <2>2. Buckets!SamplesOf(id) # {}
    BY <2>1 DEF StatisticsInv
  <2> QED
    BY <1>1, <2>2 DEF Buckets!SamplesOf
<1>4. found \subseteq Pairs
  <2>1. \A s \in Samples : (s.at \div Hour) * Hour \in Int
    BY StatisticsAssumption
  <2>2. Buckets!BucketIds \subseteq Pairs
    BY <2>1, StatisticsAssumption DEF Buckets!BucketIds, Buckets!Hours, Pairs
  <2> QED
    BY <2>2 DEF Buckets!Found
<1> QED
  BY <1>2, <1>3, <1>4, FS_Subset

\* The list of what is found.
LEMMA FoundLists ==
    ASSUME StatisticsInv, NEW servers, NEW from, NEW to
    PROVE  Lists(Buckets!Sorted(Buckets!Found(servers, from, to)),
                 Buckets!Found(servers, from, to))
BY FoundFacts, SortedLists

\* An answer that is split at a bound is that of the two parts.
LEMMA AnswersJoin ==
    ASSUME StatisticsInv, NEW servers, NEW from, NEW middle, NEW to,
           Buckets!Found(servers, from, to) =
               Buckets!Found(servers, from, middle) \cup Buckets!Found(servers, middle, to),
           \A a \in Buckets!Found(servers, from, middle),
              b \in Buckets!Found(servers, middle, to) : Buckets!Earlier(a, b)
    PROVE  Buckets!ListBuckets(servers, from, to) =
               Buckets!ListBuckets(servers, from, middle)
               \o Buckets!ListBuckets(servers, middle, to)
<1> DEFINE A == Buckets!Found(servers, from, middle)
           B == Buckets!Found(servers, middle, to)
           s == Buckets!Sorted(A)
           t == Buckets!Sorted(B)
           u == Buckets!Sorted(A \cup B)
           Answer(l) == [i \in DOMAIN l |-> Buckets!FinalizeBucket(l[i])]
<1>1. A \in SUBSET Pairs /\ B \in SUBSET Pairs
  BY FoundFacts
<1>2. Lists(s, A) /\ Lists(t, B) /\ Lists(u, A \cup B)
  BY FoundLists
<1>3. Lists(s \o t, A \cup B)
  <2> HIDE DEF A, B, s, t
  <2> QED
    BY <1>1, <1>2, ConcatLists DEF A, B
<1>4. u = s \o t
  <2> HIDE DEF A, B, s, t, u
  <2>1. A \cup B \in SUBSET Pairs
    BY <1>1
  <2> QED
    BY <1>2, <1>3, <2>1, ListUnique
<1>5. s \in Seq(Pairs) /\ t \in Seq(Pairs)
  BY <1>1, <1>2 DEF Lists
<1>6. ASSUME NEW l \in Seq(Pairs), NEW r \in Seq(Pairs)
      PROVE  Answer(l \o r) = Answer(l) \o Answer(r)
  <2> DEFINE F(x) == Buckets!FinalizeBucket(x)
             X == {F(x) : x \in Pairs}
  <2>1. Answer(l) \in Seq(X) /\ Answer(r) \in Seq(X) /\ Answer(l \o r) \in Seq(X)
        /\ Len(Answer(l)) = Len(l) /\ Len(Answer(r)) = Len(r)
        /\ Len(Answer(l \o r)) = Len(l) + Len(r)
    <3>1. /\ DOMAIN l = 1 .. Len(l) /\ \A i \in 1 .. Len(l) : l[i] \in Pairs
          /\ DOMAIN r = 1 .. Len(r) /\ \A i \in 1 .. Len(r) : r[i] \in Pairs
          /\ Len(l) \in Nat /\ Len(r) \in Nat
      OBVIOUS
    <3>2. /\ l \o r \in Seq(Pairs) /\ Len(l \o r) = Len(l) + Len(r)
          /\ DOMAIN (l \o r) = 1 .. Len(l \o r)
          /\ \A i \in 1 .. Len(l \o r) : (l \o r)[i] \in Pairs
      OBVIOUS
    <3> HIDE DEF F
    <3>3. ASSUME NEW k, NEW N \in Nat, DOMAIN k = 1 .. N, \A i \in 1 .. N : k[i] \in Pairs
          PROVE  Answer(k) \in Seq(X) /\ Len(Answer(k)) = N
      BY <3>3 DEF F
    <3> HIDE DEF Answer, X
    <3>4. Answer(l) \in Seq(X) /\ Len(Answer(l)) = Len(l)
      BY <3>1, <3>3
    <3>5. Answer(r) \in Seq(X) /\ Len(Answer(r)) = Len(r)
      BY <3>1, <3>3
    <3> DEFINE both == l \o r
    <3>6. /\ DOMAIN both = 1 .. (Len(l) + Len(r)) /\ Len(l) + Len(r) \in Nat
          /\ \A i \in 1 .. (Len(l) + Len(r)) : both[i] \in Pairs
      BY <3>1, <3>2
    <3> HIDE DEF both
    <3>7. Answer(both) \in Seq(X) /\ Len(Answer(both)) = Len(l) + Len(r)
      BY <3>3, <3>6
    <3> QED
      BY <3>4, <3>5, <3>7 DEF both
  <2>2. \A i \in 1 .. Len(l) + Len(r) :
            Answer(l \o r)[i] = (Answer(l) \o Answer(r))[i]
    <3> SUFFICES ASSUME NEW i \in 1 .. Len(l) + Len(r)
                 PROVE  Answer(l \o r)[i] = (Answer(l) \o Answer(r))[i]
      OBVIOUS
    <3>1. Answer(l \o r)[i] = F((l \o r)[i])
      OBVIOUS
    <3>2. (l \o r)[i] = IF i <= Len(l) THEN l[i] ELSE r[i - Len(l)]
      OBVIOUS
    <3>3. i <= Len(l) => i \in DOMAIN l /\ Answer(l)[i] = F(l[i])
      OBVIOUS
    <3>4. ~(i <= Len(l)) => /\ i - Len(l) \in DOMAIN r
                            /\ Answer(r)[i - Len(l)] = F(r[i - Len(l)])
      <4> HIDE DEF F
      <4>1. ~(i <= Len(l)) => i - Len(l) \in DOMAIN r
        OBVIOUS
      <4> QED
        BY <4>1 DEF F
    <3> HIDE DEF Answer, F, X
    <3>5. (Answer(l) \o Answer(r))[i] =
              IF i <= Len(l) THEN Answer(l)[i] ELSE Answer(r)[i - Len(l)]
      BY <2>1
    <3> QED
      BY <3>1, <3>2, <3>3, <3>4, <3>5
  <2> HIDE DEF Answer, F, X
  <2>3. \A p, q \in Seq(X) : p \o q \in Seq(X) /\ Len(p \o q) = Len(p) + Len(q)
    OBVIOUS
  <2>4. Answer(l) \o Answer(r) \in Seq(X) /\ Len(Answer(l) \o Answer(r)) = Len(l) + Len(r)
    BY <2>1, <2>3
  <2> QED
    BY <2>1, <2>2, <2>4, SeqEqual
<1> HIDE DEF Answer
<1>7. Answer(u) = Answer(s) \o Answer(t)
  <2> HIDE DEF s, t, u
  <2> QED
    BY <1>4, <1>5, <1>6
<1> QED
  BY <1>7 DEF Buckets!ListBuckets, Answer

LEMMA RangesFit == StatisticsInv => Buckets!RangesJoin
<1> SUFFICES ASSUME StatisticsInv, NEW server \in listed PROVE
        LET answer(from, to) == Buckets!GetServerStatistics(server, from, to).buckets
        IN  /\ \A a, b, c \in Buckets!Dates :
                  a < b /\ b < c => answer(a, c) = answer(a, b) \o answer(b, c)
            /\ \A b \in Buckets!Dates : answer(None, None) = answer(None, b) \o answer(b, None)
  BY DEF Buckets!RangesJoin
<1> DEFINE answer(from, to) == Buckets!GetServerStatistics(server, from, to).buckets
           servers == {server}
           found(from, to) == Buckets!Found(servers, from, to)
<1>1. /\ \A t \in Buckets!Dates : t \in Int /\ Buckets!Iso(t) = t /\ t # None /\ t # Invalid
      /\ None # Invalid
  BY StatisticsAssumption DEF Buckets!Dates, Buckets!Iso
<1>2. \A from, to : Buckets!RangeError(from, to) = "none" =>
         answer(from, to) = Buckets!ListBuckets(servers, from, to)
  BY DEF Buckets!GetServerStatistics, Buckets!ListServerStatisticsBuckets
<1>3. \A from, to : found(from, to) =
          {id \in Buckets!BucketIds : buckets[id] # None /\ id[1] \in servers
                                      /\ Buckets!InRange(id[2], from, to)}
  BY DEF Buckets!Found
<1>4. \A id \in Buckets!BucketIds : id[2] \in Int
  <2>1. \A s \in Samples : (s.at \div Hour) * Hour \in Int
    BY StatisticsAssumption
  <2> QED
    BY <2>1 DEF Buckets!BucketIds, Buckets!Hours
<1> HIDE DEF answer, found, servers
<1> DEFINE Apart(from, middle, to) ==
               /\ found(from, to) = found(from, middle) \cup found(middle, to)
               /\ \A x \in found(from, middle), y \in found(middle, to) : Buckets!Earlier(x, y)
           Joined(from, middle, to) ==
               Buckets!ListBuckets(servers, from, to) =
                   Buckets!ListBuckets(servers, from, middle)
                   \o Buckets!ListBuckets(servers, middle, to)
<1>5. \A from, middle, to : Apart(from, middle, to) => Joined(from, middle, to)
  <2> TAKE from, middle, to
  <2> SUFFICES ASSUME Apart(from, middle, to) PROVE Joined(from, middle, to)
    OBVIOUS
  <2> QED
    BY AnswersJoin DEF found
<1> HIDE DEF Apart, Joined
<1>6. ASSUME NEW a \in Buckets!Dates, NEW b \in Buckets!Dates, NEW c \in Buckets!Dates,
             a < b, b < c
      PROVE  answer(a, c) = answer(a, b) \o answer(b, c)
  <2>1. /\ Buckets!RangeError(a, c) = "none"
        /\ Buckets!RangeError(a, b) = "none"
        /\ Buckets!RangeError(b, c) = "none"
    BY <1>1, <1>6 DEF Buckets!RangeError
  <2>2. found(a, c) = found(a, b) \cup found(b, c)
    BY <1>1, <1>3, <1>4, <1>6 DEF Buckets!InRange
  <2>3. \A x \in found(a, b), y \in found(b, c) : Buckets!Earlier(x, y)
    BY <1>1, <1>3, <1>4 DEF Buckets!InRange, Buckets!Earlier
  <2>4. Apart(a, b, c)
    BY <2>2, <2>3 DEF Apart
  <2>5. Joined(a, b, c)
    BY <1>5, <2>4
  <2> QED
    BY <1>2, <2>1, <2>5 DEF Joined
<1>7. ASSUME NEW b \in Buckets!Dates
      PROVE  answer(None, None) = answer(None, b) \o answer(b, None)
  <2>1. /\ Buckets!RangeError(None, None) = "none"
        /\ Buckets!RangeError(None, b) = "none"
        /\ Buckets!RangeError(b, None) = "none"
    BY <1>1 DEF Buckets!RangeError
  <2>2. found(None, None) = found(None, b) \cup found(b, None)
    BY <1>1, <1>3, <1>4 DEF Buckets!InRange
  <2>3. \A x \in found(None, b), y \in found(b, None) : Buckets!Earlier(x, y)
    BY <1>1, <1>3, <1>4 DEF Buckets!InRange, Buckets!Earlier
  <2>4. Apart(None, b, None)
    BY <2>2, <2>3 DEF Apart
  <2>5. Joined(None, b, None)
    BY <1>5, <2>4
  <2> QED
    BY <1>2, <2>1, <2>5 DEF Joined
<1> QED
  BY <1>6, <1>7 DEF answer

\* A sequence of sequences, one after the other, has the elements of each.
LEMMA FlattenFacts ==
    ASSUME NEW E, NEW ss \in Seq(Seq(E)), Len(ss) # 0
    PROVE  /\ Buckets!FlattenSeq(ss) \in Seq(E)
           /\ \A i \in 1 .. Len(ss) : \A k \in 1 .. Len(ss[i]) :
                 \E n \in 1 .. Len(Buckets!FlattenSeq(ss)) :
                     Buckets!FlattenSeq(ss)[n] = ss[i][k]
<1> DEFINE Value(g, i) == IF i = 1 THEN ss[i] ELSE g[i - 1] \o ss[i]
           Unrolled(N, g) == g = [i \in 1 .. N |-> Value(g, i)]
           flatten == CHOOSE g : Unrolled(Len(ss), g)
           X == {N \in Nat : \E g : Unrolled(N, g)}
<1>1. 0 \in X
  <2>1. Unrolled(0, [i \in 1 .. 0 |-> <<>>])
    OBVIOUS
  <2> HIDE DEF Unrolled
  <2> QED
    BY <2>1
<1>2. ASSUME NEW N \in Nat, N \in X PROVE N + 1 \in X
  <2>1. PICK g : Unrolled(N, g)
    BY <1>2
  <2>2. \A n \in 1 .. N : g[n] = Value(g, n)
    <3> HIDE DEF Value
    <3> QED
      BY <2>1
  <2> DEFINE h == [n \in 1 .. (N + 1) |-> IF n = N + 1 THEN Value(g, n) ELSE g[n]]
  <2>3. Unrolled(N + 1, h)
    <3> SUFFICES ASSUME NEW n \in 1 .. (N + 1) PROVE h[n] = Value(h, n)
      OBVIOUS
    <3>1. n # 1 => h[n - 1] = g[n - 1]
      OBVIOUS
    <3>2. Value(h, n) = Value(g, n)
      BY <3>1
    <3>3. n # N + 1 => g[n] = Value(g, n)
      BY <2>2
    <3> QED
      BY <3>2, <3>3
  <2> HIDE DEF h, Unrolled
  <2> QED
    BY <2>3
<1>3. Len(ss) \in Nat
  OBVIOUS
<1>4. Unrolled(Len(ss), flatten)
  <2> HIDE DEF X
  <2>1. Len(ss) \in X
    BY <1>1, <1>2, <1>3, Induction
  <2> HIDE DEF Unrolled
  <2> QED
    BY <2>1 DEF X
<1>5. Buckets!FlattenSeq(ss) = flatten[Len(ss)]
  BY DEF Buckets!FlattenSeq
<1> HIDE DEF flatten, X
<1>6. \A n \in 1 .. Len(ss) : flatten[n] = Value(flatten, n)
  <2> HIDE DEF Value
  <2> QED
    BY <1>4
<1> HIDE DEF Unrolled
<1>7. \A n \in 1 .. Len(ss) : ss[n] \in Seq(E)
  OBVIOUS
<1>8. /\ Len(ss) # 0 => flatten[1] = ss[1]
      /\ \A n \in Nat : n # 0 /\ n + 1 <= Len(ss) => flatten[n + 1] = flatten[n] \o ss[n + 1]
  <2>1. ASSUME NEW n \in Nat, n + 1 <= Len(ss) PROVE flatten[n + 1] = Value(flatten, n + 1)
    <3>1. n + 1 \in 1 .. Len(ss)
      BY <1>3, <2>1
    <3> HIDE DEF Value
    <3> QED
      BY <1>6, <3>1
  <2>2. ASSUME Len(ss) # 0 PROVE flatten[1] = Value(flatten, 1)
    <3>1. 1 \in 1 .. Len(ss)
      BY <1>3, <2>2
    <3> HIDE DEF Value
    <3> QED
      BY <1>6, <3>1
  <2>3. \A n \in Nat : n # 0 => n + 1 # 1 /\ (n + 1) - 1 = n
    OBVIOUS
  <2> QED
    BY <2>1, <2>2, <2>3
<1> HIDE DEF Value
<1> DEFINE Has(r, i) == \A k \in 1 .. Len(ss[i]) : \E n \in 1 .. Len(r) : r[n] = ss[i][k]
           Right(n) == flatten[n] \in Seq(E) /\ \A i \in 1 .. n : Has(flatten[n], i)
           T == {n \in Nat : n # 0 /\ n <= Len(ss) => Right(n)}
<1>9. 0 \in T
  OBVIOUS
<1>10. ASSUME NEW n \in Nat, n \in T PROVE n + 1 \in T
  <2> SUFFICES ASSUME n + 1 <= Len(ss) PROVE Right(n + 1)
    <3> HIDE DEF Right
    <3> QED
      OBVIOUS
  <2>1. n + 1 \in 1 .. Len(ss) /\ ss[n + 1] \in Seq(E)
    BY <1>3, <1>7
  <2>2. CASE n = 0
    <3>1. flatten[n + 1] = ss[n + 1]
      BY <1>8, <2>2
    <3>2. \A i \in 1 .. (n + 1) : i = n + 1
      BY <2>2
    <3> QED
      BY <2>1, <3>1, <3>2
  <2>3. CASE n # 0
    <3>1. Right(n)
      <4> HIDE DEF Right
      <4> QED
        BY <1>3, <1>10, <2>3
    <3> DEFINE r == flatten[n]
               t == ss[n + 1]
               rt == flatten[n + 1]
    <3>2. rt = r \o t /\ r \in Seq(E) /\ t \in Seq(E)
      BY <1>8, <2>1, <2>3, <3>1
    <3> HIDE DEF T, r, t, rt
    <3>3. /\ rt \in Seq(E) /\ Len(rt) = Len(r) + Len(t) /\ Len(r) \in Nat /\ Len(t) \in Nat
          /\ \A k \in 1 .. Len(rt) : rt[k] = IF k <= Len(r) THEN r[k] ELSE t[k - Len(r)]
      BY <3>2
    <3>4. ASSUME NEW i \in 1 .. n PROVE Has(rt, i)
      <4> SUFFICES ASSUME NEW k \in 1 .. Len(ss[i]) PROVE \E m \in 1 .. Len(rt) : rt[m] = ss[i][k]
        OBVIOUS
      <4>1. PICK m \in 1 .. Len(r) : r[m] = ss[i][k]
        BY <3>1 DEF r
      <4>2. m \in 1 .. Len(rt) /\ rt[m] = r[m]
        BY <3>3
      <4> QED
        BY <4>1, <4>2
    <3>5. Has(rt, n + 1)
      <4> SUFFICES ASSUME NEW k \in 1 .. Len(t) PROVE \E m \in 1 .. Len(rt) : rt[m] = t[k]
        BY DEF t
      <4>1. Len(r) + k \in 1 .. Len(rt) /\ ~(Len(r) + k <= Len(r)) /\ (Len(r) + k) - Len(r) = k
        BY <3>3
      <4>2. rt[Len(r) + k] = t[k]
        BY <3>3, <4>1
      <4> QED
        BY <4>1, <4>2
    <3>6. \A i \in 1 .. (n + 1) : i \in 1 .. n \/ i = n + 1
      OBVIOUS
    <3> HIDE DEF Has
    <3> QED
      BY <3>3, <3>4, <3>5, <3>6 DEF rt
  <2> QED
    BY <2>2, <2>3
<1> HIDE DEF T
<1>11. Len(ss) \in T
  BY <1>3, <1>9, <1>10, Induction
<1>12. Right(Len(ss))
  BY <1>11 DEF T
<1> DEFINE last == flatten[Len(ss)]
<1>13. last \in Seq(E) /\ \A i \in 1 .. Len(ss) : Has(last, i)
  <2> HIDE DEF Has
  <2> QED
    BY <1>12
<1> HIDE DEF last
<1>14. Buckets!FlattenSeq(ss) = last
  BY <1>5 DEF last
<1> QED
  BY <1>13, <1>14

\* The smallest of a set of numbers.
LEMMA MinOf ==
    ASSUME NEW S \in SUBSET Nat, S # {}
    PROVE  Buckets!Min(S) \in S
<1>1. PICK x \in S : \A y \in S : ~(<<y, x>> \in OpToRel(<, Nat))
  BY NatLessThanWellFounded, WFMin
<1>2. ASSUME NEW y \in S PROVE x =< y
  <2>1. ~(y < x)
    BY <1>1 DEF OpToRel
  <2> QED
    BY <2>1
<1> QED
  BY <1>2 DEF Buckets!Min

\* Where the list t of all has the elements of A, and s is what it has there.
Places(t, A) == {j \in 1 .. Len(t) : t[j] \in A}
PartOf(s, t, A) ==
    \E place \in [1 .. Len(s) -> Places(t, A)] :
        /\ Places(t, A) = {place[i] : i \in 1 .. Len(s)}
        /\ \A i \in 1 .. Len(s) : s[i] = t[place[i]]
        /\ \A i, j \in 1 .. Len(s) : i < j => place[i] < place[j]

\* A list of some is part of the list of all, in its order.
LEMMA ListOfSome ==
    ASSUME NEW S \in SUBSET Pairs, NEW A \in SUBSET S,
           NEW s, Lists(s, A), NEW t, Lists(t, S)
    PROVE  PartOf(s, t, A)
<1> DEFINE places == Places(t, A)
           place == [i \in 1 .. Len(s) |-> CHOOSE j \in 1 .. Len(t) : t[j] = s[i]]
<1>1. /\ Len(s) \in Nat /\ \A i \in 1 .. Len(s) : s[i] \in A
      /\ Len(t) \in Nat /\ \A i \in 1 .. Len(t) : t[i] \in S
  BY ListsElements DEF Lists
<1>2. \A i \in 1 .. Len(s) : \E j \in 1 .. Len(t) : t[j] = s[i]
  BY <1>1 DEF Lists
<1>3. \A i \in 1 .. Len(s) : place[i] \in 1 .. Len(t) /\ t[place[i]] = s[i]
  BY <1>2
<1>4. DOMAIN place = 1 .. Len(s) /\ place = [i \in 1 .. Len(s) |-> place[i]]
  OBVIOUS
<1> HIDE DEF place
<1>5. place \in [1 .. Len(s) -> places]
  BY <1>1, <1>3, <1>4 DEF Places
<1>6. ASSUME NEW i \in 1 .. Len(t), NEW j \in 1 .. Len(t), ~(i < j)
      PROVE  ~Buckets!Earlier(t[i], t[j])
  <2>1. t[i] \in Pairs /\ t[j] \in Pairs
    BY <1>1
  <2>2. CASE i = j
    BY <2>1, <2>2, EarlierIsOrder
  <2>3. CASE i # j
    <3>1. j < i
      BY <1>1, <1>6, <2>3
    <3>2. Buckets!Earlier(t[j], t[i])
      BY <3>1 DEF Lists
    <3> QED
      BY <2>1, <3>2, EarlierIsOrder
  <2> QED
    BY <2>2, <2>3
<1>7. ASSUME NEW i \in 1 .. Len(s), NEW j \in 1 .. Len(s), i < j
      PROVE  place[i] < place[j]
  <2>1. Buckets!Earlier(t[place[i]], t[place[j]])
    BY <1>3, <1>7 DEF Lists
  <2> QED
    BY <1>3, <1>6, <2>1
<1>8. ASSUME NEW j \in places PROVE \E i \in 1 .. Len(s) : place[i] = j
  <2>1. PICK i \in 1 .. Len(s) : s[i] = t[j]
    BY DEF Lists, Places
  <2>2. t[place[i]] = t[j] /\ place[i] \in 1 .. Len(t) /\ j \in 1 .. Len(t) /\ t[j] \in Pairs
    BY <1>1, <1>3, <2>1 DEF Places
  <2>3. ~Buckets!Earlier(t[j], t[j])
    BY <2>2, EarlierIsOrder
  <2>4. ~(place[i] < j)
    <3> SUFFICES ASSUME place[i] < j PROVE FALSE
      OBVIOUS
    <3>1. Buckets!Earlier(t[place[i]], t[j])
      BY <2>2 DEF Lists
    <3> QED
      BY <2>2, <2>3, <3>1
  <2>5. ~(j < place[i])
    <3> SUFFICES ASSUME j < place[i] PROVE FALSE
      OBVIOUS
    <3>1. Buckets!Earlier(t[j], t[place[i]])
      BY <2>2 DEF Lists
    <3> QED
      BY <2>2, <2>3, <3>1
  <2>6. place[i] = j
    BY <2>2, <2>4, <2>5
  <2> QED
    BY <2>6
<1>9. places = {place[i] : i \in 1 .. Len(s)}
  BY <1>5, <1>8
<1> QED
  BY <1>3, <1>5, <1>7, <1>9 DEF PartOf

\* The answer made of a list of ids.
AnswerOf(l) == [i \in DOMAIN l |-> Buckets!FinalizeBucket(l[i])]

\* The answer for one server is what the answer for all has of it.
LEMMA OneOfAll ==
    ASSUME StatisticsInv, NEW server \in listed, NEW from, NEW to
    PROVE  LET all == Buckets!ListGlobalStatisticsBuckets(from, to)
           IN  Buckets!IsPartAt(Buckets!ListServerStatisticsBuckets(server, from, to), all,
                                {i \in DOMAIN all : all[i].server = server})
<1> DEFINE S == Buckets!Found(Servers, from, to)
           A == Buckets!Found({server}, from, to)
           s == Buckets!Sorted(A)
           t == Buckets!Sorted(S)
           all == Buckets!ListGlobalStatisticsBuckets(from, to)
           one == Buckets!ListServerStatisticsBuckets(server, from, to)
<1>1. all = AnswerOf(t) /\ one = AnswerOf(s)
  BY DEF Buckets!ListGlobalStatisticsBuckets, Buckets!ListServerStatisticsBuckets,
         Buckets!ListBuckets, AnswerOf
<1>2. Lists(s, A) /\ Lists(t, S) /\ S \in SUBSET Pairs
  BY FoundLists, FoundFacts
<1>3. A = {id \in S : id[1] = server}
  BY DEF Buckets!Found, StatisticsInv
<1> HIDE DEF S, A, s, t, all, one
<1>4. /\ DOMAIN s = 1 .. Len(s) /\ DOMAIN t = 1 .. Len(t)
      /\ \A i \in 1 .. Len(t) : t[i] \in S
  BY <1>2 DEF Lists
<1>5. /\ DOMAIN all = 1 .. Len(t) /\ DOMAIN one = 1 .. Len(s)
      /\ \A i \in 1 .. Len(t) : all[i] = Buckets!FinalizeBucket(t[i])
      /\ \A i \in 1 .. Len(s) : one[i] = Buckets!FinalizeBucket(s[i])
  BY <1>1, <1>4 DEF AnswerOf
<1>6. \A id : Buckets!FinalizeBucket(id).server = id[1]
  BY DEF Buckets!FinalizeBucket
<1> DEFINE places == Places(t, A)
<1>7. {i \in DOMAIN all : all[i].server = server} = places
  BY <1>3, <1>4, <1>5, <1>6 DEF Places
<1> HIDE DEF places
<1>8. PICK place \in [1 .. Len(s) -> places] :
          /\ places = {place[i] : i \in 1 .. Len(s)}
          /\ \A i \in 1 .. Len(s) : s[i] = t[place[i]]
          /\ \A i, j \in 1 .. Len(s) : i < j => place[i] < place[j]
  <2>1. A \in SUBSET S
    BY <1>3
  <2>2. PartOf(s, t, A)
    BY <1>2, <2>1, ListOfSome
  <2> QED
    BY <2>2 DEF PartOf, places
<1>9. \A i \in 1 .. Len(s) : one[i] = all[place[i]]
  <2> SUFFICES ASSUME NEW i \in 1 .. Len(s) PROVE one[i] = all[place[i]]
    OBVIOUS
  <2>1. place[i] \in 1 .. Len(t) /\ s[i] = t[place[i]]
    BY <1>8 DEF places, Places
  <2> QED
    BY <1>5, <2>1
<1>10. Buckets!IsPartAt(one, all, places)
  BY <1>5, <1>8, <1>9 DEF Buckets!IsPartAt
<1> QED
  BY <1>7, <1>10 DEF all, one

\* A player with a name in the cache of a server of the answer has a name.
LEMMA NamesFound ==
    ASSUME NEW answer, NEW N \in Nat, DOMAIN answer = 1 .. N,
           \A i \in 1 .. N : answer[i].server \in Servers,
           NEW found, NEW i \in 1 .. N,
           NEW e \in Buckets!ToSet(Cached[answer[i].server]), e[2] # None
    PROVE  /\ e[1] \in DOMAIN Buckets!PlayerNames(answer, found)
           /\ Buckets!PlayerNames(answer, found)[e[1]] # None
<1> DEFINE E == UNION {Buckets!ToSet(Cached[server]) \cup Buckets!ToSet(Known[server]) :
                          server \in Servers}
           ss == [k \in DOMAIN answer |-> Buckets!PlayersOf(answer[k].server, found)]
           entries == Buckets!FlattenSeq(ss)
           naming(uid) == {k \in DOMAIN entries : entries[k][1] = uid /\ entries[k][2] # None}
           uids == {x[1] : x \in Buckets!ToSet(entries)}
           names == Buckets!PlayerNames(answer, found)
<1>1. names = [uid \in {u \in uids : naming(u) # {}} |-> entries[Buckets!Min(naming(uid))][2]]
  BY DEF Buckets!PlayerNames
<1>2. \A server \in Servers : Cached[server] \in Seq(E) /\ Known[server] \in Seq(E)
  <2> SUFFICES ASSUME NEW server \in Servers
               PROVE  Cached[server] \in Seq(E) /\ Known[server] \in Seq(E)
    OBVIOUS
  <2>1. /\ Cached[server] \in Seq(Buckets!ToSet(Cached[server]))
        /\ Known[server] \in Seq(Buckets!ToSet(Known[server]))
    BY StatisticsAssumption
  <2>2. Buckets!ToSet(Cached[server]) \subseteq E /\ Buckets!ToSet(Known[server]) \subseteq E
    OBVIOUS
  <2> HIDE DEF E
  <2> QED
    BY <2>1, <2>2
<1> HIDE DEF E
<1>3. \A server \in Servers : Buckets!PlayersOf(server, found) \in Seq(E)
  BY <1>2 DEF Buckets!PlayersOf
<1>4. ss \in Seq(Seq(E)) /\ Len(ss) = N /\ N # 0
      /\ ss[i] = Buckets!PlayersOf(answer[i].server, found)
  BY <1>3
<1> HIDE DEF ss
<1>5. /\ entries \in Seq(E)
      /\ \A k \in 1 .. Len(ss[i]) : \E n \in 1 .. Len(entries) : entries[n] = ss[i][k]
  BY <1>4, FlattenFacts
<1>6. PICK n \in 1 .. Len(entries) : entries[n] = e
  <2> DEFINE c == Cached[answer[i].server]
             p == IF answer[i].server \in found THEN Known[answer[i].server] ELSE <<>>
  <2>1. c \in Seq(E) /\ p \in Seq(E) /\ ss[i] = c \o p
    BY <1>2, <1>4 DEF Buckets!PlayersOf
  <2>2. PICK k \in DOMAIN c : c[k] = e
    BY DEF Buckets!ToSet
  <2> HIDE DEF c, p
  <2>3. k \in 1 .. Len(ss[i]) /\ ss[i][k] = e
    BY <2>1, <2>2
  <2> QED
    BY <1>5, <2>3
<1> HIDE DEF entries
<1>7. DOMAIN entries = 1 .. Len(entries) /\ Len(entries) \in Nat
  BY <1>5
<1>8. n \in naming(e[1]) /\ naming(e[1]) \in SUBSET Nat
  BY <1>6, <1>7
<1>9. e[1] \in uids
  BY <1>6, <1>7 DEF Buckets!ToSet
<1> DEFINE first == Buckets!Min(naming(e[1]))
<1>10. first \in naming(e[1])
  <2> HIDE DEF naming
  <2> QED
    BY <1>8, MinOf
<1>11. entries[first][2] # None
  BY <1>10
<1> HIDE DEF first, uids
<1>12. e[1] \in DOMAIN names /\ names[e[1]] = entries[first][2]
  BY <1>1, <1>8, <1>9 DEF first
<1> QED
  BY <1>11, <1>12

LEMMA AnswersFit == StatisticsInv => Buckets!AnswersAgree
<1> SUFFICES ASSUME StatisticsInv, NEW from \in Bounds, NEW to \in Bounds PROVE
        LET all == Buckets!GetGlobalStatistics(from, to, listed)
        IN  /\ \A server \in listed :
                  LET one == Buckets!GetServerStatistics(server, from, to)
                  IN  /\ one.error = all.error
                      /\ Buckets!IsPartAt(one.buckets, all.buckets,
                             {i \in DOMAIN all.buckets : all.buckets[i].server = server})
            /\ \A i \in DOMAIN all.buckets : \A uid \in all.buckets[i].counts.uids :
                  /\ \E p \in all.players : p[1] = uid
                  /\ (\E e \in Buckets!ToSet(Cached[all.buckets[i].server]) :
                          e[1] = uid /\ e[2] # None)
                        => <<uid, None>> \notin all.players
  BY DEF Buckets!AnswersAgree
<1> DEFINE all == Buckets!GetGlobalStatistics(from, to, listed)
           answer == Buckets!ListGlobalStatisticsBuckets(from, to)
           names == Buckets!PlayerNames(answer, listed)
           uids == UNION {answer[i].counts.uids : i \in DOMAIN answer}
           error == Buckets!RangeError(from, to)
           one(server) == Buckets!GetServerStatistics(server, from, to)
<1>1. CASE error # "none"
  <2>1. all.error = error /\ all.buckets = <<>>
    BY <1>1 DEF Buckets!GetGlobalStatistics
  <2>2. ASSUME NEW server \in listed
        PROVE  one(server).error = error /\ one(server).buckets = <<>>
    BY <1>1 DEF Buckets!GetServerStatistics
  <2>3. Buckets!IsPartAt(<<>>, <<>>, {})
    <3> DEFINE place == [i \in {} |-> i]
    <3>1. DOMAIN <<>> = {} /\ place \in [DOMAIN <<>> -> {}] /\ {} = {place[i] : i \in DOMAIN <<>>}
      OBVIOUS
    <3> HIDE DEF place
    <3> QED
      BY <3>1 DEF Buckets!IsPartAt
  <2> HIDE DEF all, one, error
  <2>4. DOMAIN all.buckets = {}
    BY <2>1
  <2>5. \A server : {i \in DOMAIN all.buckets : all.buckets[i].server = server} = {}
    BY <2>4
  <2> QED
    BY <2>1, <2>2, <2>3, <2>4, <2>5 DEF all, one
<1>2. CASE error = "none"
  <2>1. /\ all.error = "none" /\ all.buckets = answer
        /\ all.players =
              {<<uid, IF uid \in DOMAIN names THEN names[uid] ELSE None>> : uid \in uids}
    BY <1>2 DEF Buckets!GetGlobalStatistics
  <2>2. ASSUME NEW server \in listed
        PROVE  /\ one(server).error = all.error
               /\ Buckets!IsPartAt(one(server).buckets, all.buckets,
                      {i \in DOMAIN all.buckets : all.buckets[i].server = server})
    <3>1. /\ one(server).error = "none"
          /\ one(server).buckets = Buckets!ListServerStatisticsBuckets(server, from, to)
      BY <1>2 DEF Buckets!GetServerStatistics
    <3>2. Buckets!IsPartAt(Buckets!ListServerStatisticsBuckets(server, from, to), answer,
                           {i \in DOMAIN answer : answer[i].server = server})
      BY OneOfAll
    <3> HIDE DEF all, one, answer
    <3> QED
      BY <2>1, <3>1, <3>2
  <2>3. ASSUME NEW i \in DOMAIN answer, NEW uid \in answer[i].counts.uids
        PROVE  \E p \in all.players : p[1] = uid
    <3>1. uid \in uids
      OBVIOUS
    <3> DEFINE p == <<uid, IF uid \in DOMAIN names THEN names[uid] ELSE None>>
    <3> HIDE DEF uids, all, names
    <3>2. p \in all.players /\ p[1] = uid
      BY <2>1, <3>1
    <3> QED
      BY <3>2
  <2>4. ASSUME NEW i \in DOMAIN answer, NEW e \in Buckets!ToSet(Cached[answer[i].server]),
               e[2] # None
        PROVE  <<e[1], None>> \notin all.players
    <3> DEFINE ids == Buckets!Sorted(Buckets!Found(Servers, from, to))
    <3>1. Lists(ids, Buckets!Found(Servers, from, to))
      BY FoundLists
    <3>2. /\ answer = [k \in DOMAIN ids |-> Buckets!FinalizeBucket(ids[k])]
      BY DEF Buckets!ListGlobalStatisticsBuckets, Buckets!ListBuckets
    <3> HIDE DEF ids
    <3>3. Len(ids) \in Nat /\ DOMAIN ids = 1 .. Len(ids)
          /\ \A k \in 1 .. Len(ids) : ids[k] \in Buckets!Found(Servers, from, to)
      BY <3>1 DEF Lists
    <3>4. \A k \in 1 .. Len(ids) : ids[k][1] \in Servers
      BY <3>3 DEF Buckets!Found
    <3>5. DOMAIN answer = 1 .. Len(ids)
          /\ \A k \in 1 .. Len(ids) : answer[k].server \in Servers
      BY <3>2, <3>3, <3>4 DEF Buckets!FinalizeBucket
    <3> DEFINE N == Len(ids)
    <3> HIDE DEF answer, N
    <3>6. N \in Nat /\ DOMAIN answer = 1 .. N /\ i \in 1 .. N
          /\ \A k \in 1 .. N : answer[k].server \in Servers
      BY <3>3, <3>5 DEF N
    <3>7. e[1] \in DOMAIN names /\ names[e[1]] # None
      BY <2>4, <3>6, NamesFound
    <3> HIDE DEF names, uids, all
    <3> QED
      BY <2>1, <3>7
  <2> HIDE DEF all, one, answer
  <2> QED
    BY <2>1, <2>2, <2>3, <2>4 DEF all, one
<1> QED
  BY <1>1, <1>2

\* The statistics account for every sample that was recorded, consecutive
\* ranges share no bucket and miss none, and the answer for all servers agrees
\* with the answer for each (server-statistics-store.ts 62-187,
\* server-statistics-service.ts 47-83).
THEOREM StatisticsRight == SpecStored => []BucketsRight
<1>1. StatisticsInv => BucketsRight
  BY AccountsFit, RangesFit, AnswersFit DEF BucketsRight, Buckets!BucketsRight
<1> QED
  BY <1>1, StatisticsInvariance, PTL

-----------------------------------------------------------------------------
(* Known players.                                                           *)

PlayerIds == Uids \cup {ById}

Writing ==
    [kind : {"none", "loop", "check", "query", "connector", "plugin", "other"},
     step : {"idle", "asked", "told", "patch", "save"},
     list : SUBSET PlayerIds, told : SUBSET PlayerIds]

PlayersTypes ==
    /\ online \subseteq Uids \cup {NoUid}
    /\ settled \in BOOLEAN
    /\ known \subseteq PlayerIds
    /\ writer \in [Players!Writers -> Writing]

LEMMA PlayersInit == Players!Init => PlayersTypes
<1>1. Players!Idle \in Writing
  BY DEF Players!Idle, Writing
<1> QED
  BY <1>1 DEF Players!Init, PlayersTypes, PlayerIds

\* A writer that goes on with a list.
LEMMA WriterBecomes ==
    ASSUME PlayersTypes, NEW w \in Players!Writers, NEW step \in {"patch", "save"},
           NEW list \in SUBSET PlayerIds, Players!Becomes(w, step, list)
    PROVE  /\ writer' \in [Players!Writers -> Writing]
           /\ writer'[w].list = list
           /\ \A v \in Players!Writers \ {w} : writer'[v] = writer[v]
<1>1. writer' = [writer EXCEPT ![w].step = step, ![w].list = list]
  BY DEF Players!Becomes
<1>2. writer \in [Players!Writers -> Writing]
  BY DEF PlayersTypes
<1>3. writer'[w] = [writer[w] EXCEPT !.step = step, !.list = list]
  BY <1>1, <1>2
<1>4. writer'[w] \in Writing /\ writer'[w].list = list
  BY <1>2, <1>3 DEF Writing
<1>5. writer' = [v \in Players!Writers |-> writer'[v]]
  BY <1>1, <1>2
<1>6. \A v \in Players!Writers \ {w} : writer'[v] = writer[v]
  BY <1>1, <1>2
<1> QED
  BY <1>2, <1>4, <1>5, <1>6

\* The record lists the players who are online, and so does what any writer is
\* about to save.
AllFound ==
    /\ Players!ObservedPlayers(online) \subseteq known
    /\ \A w \in Players!Writers : writer[w].step \in {"patch", "save"} =>
           Players!ObservedPlayers(online) \subseteq writer[w].list

StayFound == settled /\ AllFound => AllFound'

LEMMA PlayersStep ==
    ASSUME PlayersTypes, [NextStored]_storedVars
    PROVE  PlayersTypes' /\ StayFound
<1> USE DEF PlayersTypes, PlayerIds, Writing, StayFound, AllFound, Players!ObservedPlayers
<1>1. ASSUME NEW w \in Players!Writers, NEW kind \in {"loop", "check", "query"},
             Players!Ask(w, kind)
      PROVE  PlayersTypes' /\ StayFound
  BY <1>1 DEF Players!Ask
<1>2. ASSUME NEW w \in Players!Writers, NEW kind \in {"connector", "plugin"},
             Players!Told(w, kind)
      PROVE  PlayersTypes' /\ StayFound
  BY <1>2 DEF Players!Told, Players!PlayersFromPluginPayload, Players!PlayerUid
<1>3. ASSUME NEW w \in Players!Writers, Players!Patch(w)
      PROVE  PlayersTypes' /\ StayFound
  BY <1>3 DEF Players!Patch
<1>4. ASSUME NEW w \in Players!Writers, Players!Proceeds(w)
      PROVE  PlayersTypes' /\ StayFound
  <2>1. CASE Players!GiveUp(w)
    BY <2>1 DEF Players!GiveUp, Players!Idle
  <2>2. ASSUME NEW list \in SUBSET PlayerIds, NEW step \in {"patch", "save"},
               Players!Becomes(w, step, list), UNCHANGED <<online, settled, known>>,
               settled /\ AllFound => Players!ObservedPlayers(online) \subseteq list
        PROVE  PlayersTypes' /\ StayFound
    BY <2>2, WriterBecomes
  <2>3. writer[w] \in Writing
    OBVIOUS
  <2>4. ASSUME NEW ok \in BOOLEAN, Players!Answered(w, ok)
        PROVE  PlayersTypes' /\ StayFound
    <3> DEFINE list == Players!Merged(writer[w].list, IF ok THEN online \cap Uids ELSE {})
    <3>1. list \in SUBSET PlayerIds
      BY <2>3 DEF Players!Merged
    <3>2. settled => online \cap Uids \subseteq list
      BY <2>4 DEF Players!Answered, Players!Merged
    <3>3. /\ Players!Becomes(w, IF writer[w].kind = "query" THEN "save" ELSE "patch", list)
          /\ UNCHANGED <<online, settled, known>>
      BY <2>4 DEF Players!Answered
    <3> QED
      BY <2>2, <3>1, <3>2, <3>3
  <2>5. CASE Players!MergeTold(w)
    <3> DEFINE list == Players!Merged(known, writer[w].told)
    <3>1. list \in SUBSET PlayerIds /\ known \subseteq list
      BY <2>3 DEF Players!Merged
    <3>2. Players!Becomes(w, "patch", list) /\ UNCHANGED <<online, settled, known>>
      BY <2>5 DEF Players!MergeTold
    <3> QED
      BY <2>2, <3>1, <3>2
  <2>6. CASE Players!FindRecord(w)
    <3> DEFINE list == IF writer[w].list = {} THEN known ELSE writer[w].list
    <3>1. list \in SUBSET PlayerIds
      BY <2>3
    <3>2. Players!Becomes(w, "save", list) /\ UNCHANGED <<online, settled, known>>
      BY <2>6 DEF Players!FindRecord
    <3>3. writer[w].step = "patch"
      BY <2>6 DEF Players!FindRecord, Players!At
    <3> QED
      BY <2>2, <3>1, <3>2, <3>3
  <2>7. CASE Players!Save(w)
    BY <2>3, <2>7 DEF Players!Save, Players!Idle, Players!At
  <2> QED
    BY <1>4, <2>1, <2>4, <2>5, <2>6, <2>7 DEF Players!Proceeds
<1>5. CASE Players!PlayersChange \/ Players!Settles
  BY <1>5 DEF Players!PlayersChange, Players!Settles
<1>6. CASE UNCHANGED playerVars
  BY <1>6 DEF playerVars
<1>7. CASE Players!Next
  BY <1>1, <1>2, <1>3, <1>4, <1>5, <1>7 DEF Players!Next, Players!Writers
<1> QED
  BY <1>6, <1>7 DEF NextStored, ImportMoves, BucketsMove, PlayersMove, storedVars

\* Once everybody online is in the record and in every list that is on its way
\* into it, no save undoes that, whoever saves and in whatever order: the
\* safety half of PlayersKept.
THEOREM PlayersStayFound == SpecStored => []PlayersTypes /\ [][StayFound]_storedVars
<1>1. InitStored => PlayersTypes
  BY PlayersInit DEF InitStored
<1>2. PlayersTypes /\ [NextStored]_storedVars => PlayersTypes' /\ StayFound
  BY PlayersStep
<1> QED
  BY <1>1, <1>2, PTL DEF SpecStored
=============================================================================
