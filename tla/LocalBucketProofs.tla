------------------------- MODULE LocalBucketProofs --------------------------
(***************************************************************************)
(* The bucket on a local file system keeps what it stored, for any keys,    *)
(* values and number of failures and power losses.                          *)
(***************************************************************************)
EXTENDS LocalBucket, FiniteSetTheorems, TLAPS

FiniteNames == {names \in SUBSET Nat : IsFiniteSet(names)}
TypeOK ==
    /\ dir \in [Keys -> Files]
    /\ dirPast \in [Keys -> SUBSET Files]
    /\ \A k \in Keys : dir[k] \in dirPast[k]
    /\ entry \in [Keys -> {"absent", "made", "left", "durable"}]
    /\ journal \in journalPast
    /\ journalPast \subseteq SUBSET Transactions
    /\ \A past \in journalPast : \A t, u \in past : t = u
    /\ staging \in stagingPast
    /\ stagingPast \subseteq FiniteNames
    /\ pc \in Steps
    /\ op \in Operations
    /\ may \in [Keys -> SUBSET (Attributes \cup {NoFile})]

(***************************************************************************)
(* What the recovery of a transaction makes of the files of its object, if  *)
(* nothing stops it.                                                        *)
(***************************************************************************)
NoBackup(f) == f.bodyBackup = NoFile /\ f.metaBackup = NoFile
Commits(f, tx) == f.meta = tx.value /\ f.body = Body(tx.value)
Rolled(f, tx) ==
    [body |-> IF f.bodyBackup # NoFile THEN f.bodyBackup
              ELSE IF f.body = Body(tx.value) /\ ~tx.hadBody THEN NoFile ELSE f.body,
     meta |-> IF f.metaBackup # NoFile THEN f.metaBackup
              ELSE IF f.meta = tx.value /\ ~tx.hadMeta THEN NoFile ELSE f.meta]
Outcome(f, tx) == IF Commits(f, tx) THEN tx.value ELSE Read(Rolled(f, tx))

(***************************************************************************)
(* What a crash or a power loss leaves: whichever journal survives, with    *)
(* whichever files, recovers to a value that is still possible.  A journal  *)
(* that is already gone would, should it come back, change nothing.         *)
(***************************************************************************)
Untouched ==
    \A past \in journalPast, k \in Keys : (\A tx \in past : tx.key # k) =>
        \A f \in dirPast[k] : NoBackup(f) /\ Read(f) \in may[k]
Harmless ==
    \A past \in journalPast \ {journal} :
        {} \in journalPast /\ \A tx \in past : \A f \in dirPast[tx.key] : Outcome(f, tx) = Read(f)
Recoverable ==
    \A tx \in journal : \A f \in dirPast[tx.key] :
        /\ Outcome(f, tx) \in may[tx.key]
        /\ f.bodyBackup # NoFile => tx.hadBody
        /\ f.metaBackup # NoFile => tx.hadMeta
        /\ ~NoBackup(f) => tx.value \in may[tx.key]
CrashSafe == Untouched /\ Harmless /\ Recoverable

(***************************************************************************)
(* A directory that is not there has no files.  One that this Put made may  *)
(* vanish, which is as if the Put had not been.                             *)
(***************************************************************************)
RollingBack == {"restoreBody", "rollbackMeta", "restoreMeta"}
Cleaning == {"cleanStages", "cleanBody", "cleanMeta", "syncParent", "dropJournal"}
Staging == {"stageObject", "stageMeta", "stageJournal", "journal"}
Replacing == {"journalSync", "backupMeta", "installMeta", "backupBody", "installBody"}
Published == {"publishSync", "ancestorSync"}
Made(k) ==
    /\ NoFile \in may[k] /\ op.kind = "put" /\ op.key = k
    /\ pc \notin {"idle", "reclaim", "work"}
    /\ pc \in {"recover", "syncRoot"} \cup RollingBack \cup Cleaning => op.after = "fail"
    /\ pc \in Staging \cup Replacing \cup Published => op.created
    /\ pc \notin Published => dir[k].body = NoFile /\ dir[k].bodyBackup = NoFile
Directories ==
    \A k \in Keys : /\ entry[k] = "absent" => dirPast[k] = {NoFiles}
                    /\ entry[k] = "made" => Made(k)

(***************************************************************************)
(* What an operation knows at each step.                                   *)
(***************************************************************************)
Journalled ==
    /\ pc \in RollingBack \cup Cleaning \cup Replacing \cup Published => journal # {}
    /\ pc = "recover" /\ op.after = "fail" => journal # {}
    /\ pc \in Staging \cup {"syncRoot", "reclaim", "work", "deleteMeta", "deleteSync"} => journal = {}
    /\ pc \in (Replacing \ {"journalSync"}) \cup Published => journalPast = {journal}
Publishing ==
    /\ pc \in Staging \cup Replacing \cup Published => op.kind = "put" /\ entry[op.key] # "absent"
    /\ pc \in Replacing \cup Published => Tx.key = op.key /\ Tx.value = op.value /\ Tx.value \in may[op.key]
Halfway ==
    /\ pc \in {"journalSync", "backupMeta"} =>
         NoBackup(Its) /\ Tx.hadBody = (Its.body # NoFile) /\ Tx.hadMeta = (Its.meta # NoFile)
    /\ pc \in {"installMeta", "backupBody"} =>
         Its.bodyBackup = NoFile /\ Tx.hadBody = (Its.body # NoFile) /\ Tx.hadMeta = (Its.metaBackup # NoFile)
    /\ pc = "installMeta" => Its.meta = NoFile
    /\ pc \in {"backupBody", "installBody"} => Its.meta = Tx.value
    /\ pc = "installBody" =>
         Its.body = NoFile /\ Tx.hadBody = (Its.bodyBackup # NoFile) /\ Tx.hadMeta = (Its.metaBackup # NoFile)
    /\ pc \in Published => Committed
    /\ pc \in Replacing \cup RollingBack => Read(Rolled(Its, Tx)) \in may[Tx.key]
Undoing ==
    /\ pc = "restoreBody" => Its.bodyBackup # NoFile
    /\ pc \in {"rollbackMeta", "restoreMeta"} => Its.bodyBackup = NoFile /\ (Its.body = Body(Tx.value) => Tx.hadBody)
    /\ pc = "restoreMeta" => Its.metaBackup # NoFile
    /\ pc = "rollbackMeta" /\ Committed => {} \notin journalPast
Settled(f, tx) ==
    \/ Commits(f, tx)
    \/ NoBackup(f) /\ (f.body = Body(tx.value) => tx.hadBody) /\ (f.meta = tx.value => tx.hadMeta)
Cleared ==
    /\ pc \in Cleaning => Settled(Its, Tx)
    /\ pc = "cleanMeta" /\ ~op.kept => Its.bodyBackup = NoFile
    /\ pc = "syncParent" /\ ~op.kept => NoBackup(Its)
    /\ pc = "dropJournal" => NoBackup(Its) /\ dirPast[Tx.key] = {Its}
Returning ==
    /\ op.after = "return" =>
         op.kind = "put" /\ pc \in Cleaning \cup {"ancestorSync", "syncRoot", "return"}
    /\ op.after = "return" /\ pc \in Cleaning => Commits(Its, Tx) /\ Tx.key = op.key /\ Tx.value = op.value
    /\ pc \in {"syncRoot", "return"} /\ op.after = "return" => Read(dir[op.key]) = op.value
    /\ pc = "return" /\ op.kind = "put" => op.after = "return"
    /\ pc \in {"idle", "reclaim", "work"} \cup Staging \cup Replacing => op.after = "reclaim"
Deleting ==
    pc \in {"deleteMeta", "deleteSync"} =>
        op.kind = "delete" /\ dir[op.key].body = NoFile /\ NoFile \in may[op.key]

Knows == Journalled /\ Publishing /\ Halfway /\ Undoing /\ Cleared /\ Returning /\ Deleting

BucketInv == TypeOK /\ CrashSafe /\ Directories /\ Knows

-----------------------------------------------------------------------------
(***************************************************************************)
(* What an object reads as.                                                *)
(***************************************************************************)
LEMMA Distinct ==
  /\ \A v \in Attributes : v # NoFile /\ Body(v) # NoFile /\ v # Broken
  /\ Broken # NoFile
  BY SMTT(30) DEF Attributes, NoFile, Body, Broken

LEMMA ReadNothing == ASSUME NEW f, f.body = NoFile PROVE Read(f) = NoFile
  BY DEF Read

LEMMA ReadSame == ASSUME NEW f, NEW g, f.body = g.body, f.meta = g.meta PROVE Read(f) = Read(g)
  BY SMTT(30) DEF Read

LEMMA ReadCommitted ==
  ASSUME NEW f, NEW tx, tx.value \in Attributes, Commits(f, tx)
  PROVE  Read(f) = tx.value
  BY Distinct, SMTT(30) DEF Read, Commits, Body

LEMMA MetaMatches ==
  ASSUME NEW f \in Files, f.body # NoFile, f.meta # NoFile, Read(f) # Broken
  PROVE  f.body = Body(f.meta)
<1>1. PICK b \in Bodies : f.body = <<b>>
  BY DEF Files
<1>2. f.meta[1] = f.body[1]
  BY DEF Read
<1> QED BY <1>1, <1>2, SMTT(30) DEF Body

LEMMA FileTypes ==
  ASSUME NEW f \in Files, NEW v \in Attributes
  PROVE  /\ [f EXCEPT !.body = NoFile] \in Files /\ [f EXCEPT !.meta = NoFile] \in Files
         /\ [f EXCEPT !.bodyBackup = NoFile] \in Files /\ [f EXCEPT !.metaBackup = NoFile] \in Files
         /\ [f EXCEPT !.body = f.bodyBackup, !.bodyBackup = NoFile] \in Files
         /\ [f EXCEPT !.meta = f.metaBackup, !.metaBackup = NoFile] \in Files
         /\ [f EXCEPT !.body = NoFile, !.bodyBackup = f.body] \in Files
         /\ [f EXCEPT !.meta = NoFile, !.metaBackup = f.meta] \in Files
         /\ [f EXCEPT !.meta = v] \in Files
         /\ [f EXCEPT !.body = Body(v)] \in Files
         /\ NoFiles \in Files
  BY Zenon DEF Files, Body, Attributes, NoFiles

(***************************************************************************)
(* The journal.                                                            *)
(***************************************************************************)
LEMMA TheTransaction ==
  ASSUME TypeOK, journal # {}
  PROVE  /\ Tx \in journal /\ journal = {Tx}
         /\ Tx \in Transactions /\ Tx.key \in Keys /\ Tx.value \in Attributes
         /\ Its \in Files /\ Its \in dirPast[Tx.key]
<1>1. Tx \in journal
  BY DEF Tx
<1>2. journal = {Tx} /\ Tx \in Transactions
  BY <1>1, SMTT(30) DEF TypeOK
<1>3. Tx.key \in Keys /\ Tx.value \in Attributes
  BY <1>2 DEF Transactions
<1> QED BY <1>1, <1>2, <1>3 DEF TypeOK, Its

LEMMA JournalAlone ==
  ASSUME TypeOK, Untouched, Harmless, NEW k \in Keys, NEW f \in dirPast[k], ~NoBackup(f)
  PROVE  journalPast = {journal} /\ journal # {} /\ Tx.key = k
<1>1. {} \notin journalPast
  BY DEF Untouched
<1>2. journalPast = {journal}
  BY <1>1, SMTT(30) DEF TypeOK, Harmless
<1>3. \E tx \in journal : tx.key = k
  BY <1>2 DEF Untouched
<1> QED BY <1>1, <1>2, <1>3, TheTransaction, SMTT(30) DEF TypeOK

(***************************************************************************)
(* One more state of an object's directory.                                *)
(***************************************************************************)
LEMMA ChangeSafe ==
  ASSUME TypeOK, CrashSafe, NEW k \in Keys, NEW f \in Files,
         dirPast' = [dirPast EXCEPT ![k] = @ \cup {f}], UNCHANGED <<journal, journalPast, may>>,
         \A past \in journalPast : (\A tx \in past : tx.key # k) => NoBackup(f) /\ Read(f) \in may[k],
         \A past \in journalPast \ {journal} : \A tx \in past : tx.key = k => Outcome(f, tx) = Read(f),
         \A tx \in journal : tx.key = k =>
            /\ Outcome(f, tx) \in may[k]
            /\ f.bodyBackup # NoFile => tx.hadBody
            /\ f.metaBackup # NoFile => tx.hadMeta
            /\ ~NoBackup(f) => tx.value \in may[k]
  PROVE  CrashSafe'
<1>1. \A j \in Keys : \A g \in dirPast'[j] : g \in dirPast[j] \/ (j = k /\ g = f)
  BY SMTT(30) DEF TypeOK
<1>2. \A past \in journalPast : \A tx \in past : tx.key \in Keys
  BY SMTT(30) DEF TypeOK, Transactions
<1>3. Untouched'
  BY <1>1, SMTT(30) DEF CrashSafe, Untouched
<1>4. Harmless'
  BY <1>1, <1>2, SMTT(30) DEF CrashSafe, Harmless
<1>5. Recoverable'
  BY <1>1, <1>2, SMTT(30) DEF CrashSafe, Recoverable, TypeOK
<1> QED BY <1>3, <1>4, <1>5 DEF CrashSafe

-----------------------------------------------------------------------------
(***************************************************************************)
(* Types.                                                                  *)
(***************************************************************************)
LEMMA NewNameFree == ASSUME staging \in FiniteNames PROVE NewName \in Nat /\ NewName \notin staging
<1>1. IsFiniteSet(staging) /\ Cardinality(staging) \in Nat
  BY FS_CardinalityType DEF FiniteNames
<1>2. PICK n : n = Cardinality(staging) + 1
  OBVIOUS
<1>3. n \in Nat /\ n >= 1 /\ Cardinality(1..n) = n
  <2>1. n \in Nat /\ n >= 1
    BY <1>1, <1>2, SMTT(30)
  <2>2. Cardinality(1..n) = IF 1 > n THEN 0 ELSE n - 1 + 1
    BY <2>1, FS_Interval, SMTT(30)
  <2> QED BY <2>1, <2>2, SMTT(30)
<1>4. ~(1..n \subseteq staging)
  BY <1>1, <1>2, <1>3, FS_Subset, SMTT(30)
<1>5. \E i \in 1..(Cardinality(staging) + 1) : i \notin staging
  BY <1>2, <1>4
<1> QED BY <1>1, <1>5, SMTT(30) DEF NewName

LEMMA StageTypes ==
  ASSUME stagingPast \subseteq FiniteNames, staging \in stagingPast, NEW names, NEW a \in Nat, NEW b \in Nat,
         names \subseteq staging \cup {a} \/ names = {a, b}, Stage(names)
  PROVE  staging' \in stagingPast' /\ stagingPast' \subseteq FiniteNames
<1>1. names \in FiniteNames
  <2>1. IsFiniteSet(staging \cup {a}) /\ staging \cup {a} \subseteq Nat
    BY FS_AddElement DEF FiniteNames
  <2>2. IsFiniteSet({a, b})
    <3>1. IsFiniteSet({a} \cup {b}) /\ {a} \cup {b} = {a, b}
      BY FS_Singleton, FS_AddElement, Zenon
    <3> QED BY <3>1
  <2> QED BY <2>1, <2>2, FS_Subset, Zenon DEF FiniteNames
<1> QED BY <1>1 DEF Stage

LEMMA ChangeTypes ==
  ASSUME TypeOK, NEW k \in Keys, NEW f \in Files, Change(k, f)
  PROVE  /\ dir' \in [Keys -> Files] /\ dirPast' \in [Keys -> SUBSET Files]
         /\ \A j \in Keys : dir'[j] \in dirPast'[j]
         /\ entry' = entry
         /\ dir'[k] = f /\ \A j \in Keys \ {k} : dir'[j] = dir[j] /\ dirPast'[j] = dirPast[j]
         /\ dirPast'[k] = dirPast[k] \cup {f}
  BY SMTT(30) DEF TypeOK, Change

LEMMA QuietTypes ==
  ASSUME TypeOK, UNCHANGED <<dirVars, rootVars, may>>, pc' \in Steps, op' \in Operations,
         staging' \in stagingPast', stagingPast' \subseteq FiniteNames
  PROVE  TypeOK'
  BY DEF TypeOK, dirVars, rootVars

LEMMA QuietSafe ==
  ASSUME CrashSafe, UNCHANGED <<dirPast, journal, journalPast, may>>
  PROVE  CrashSafe'
<1>1. Untouched' /\ Harmless'
  BY DEF CrashSafe, Untouched, Harmless
<1>2. Recoverable'
  BY DEF CrashSafe, Recoverable
<1> QED BY <1>1, <1>2 DEF CrashSafe

LEMMA SameTx == ASSUME UNCHANGED journal PROVE Tx' = Tx
  BY DEF Tx

LEMMA NewOperationType ==
  ASSUME NEW kind \in {"put", "delete", "read"}, NEW k \in Keys, NEW v \in Attributes
  PROVE  /\ NewOperation(kind, k, v) \in Operations
         /\ NewOperation(kind, k, v).after = "reclaim"
  BY DEF NewOperation, Operations

LEMMA NoOperationType == NoOperation \in Operations /\ NoOperation.after = "reclaim" /\ NoOperation.value \in Attributes
<1>1. PICK key : key = CHOOSE k \in Keys : TRUE
  OBVIOUS
<1>2. PICK value : value = CHOOSE v \in Attributes : TRUE
  OBVIOUS
<1>3. key \in Keys
  BY <1>1, LocalBucketAssumption
<1>4. value \in Attributes
  <2>1. PICK b \in Bodies : TRUE
    BY LocalBucketAssumption
  <2>2. <<b, Default>> \in Attributes
    BY <2>1, LocalBucketAssumption DEF Attributes
  <2> QED BY <1>2, <2>2
<1>5. NoOperation = NewOperation("read", key, value)
  BY <1>1, <1>2 DEF NoOperation
<1> QED BY <1>3, <1>4, <1>5, NewOperationType DEF NewOperation

LEMMA InitInv == Init => BucketInv
<1> SUFFICES ASSUME Init PROVE BucketInv
  OBVIOUS
<1>1. NoFiles \in Files /\ Found \in Files /\ NoBackup(NoFiles) /\ NoBackup(Found)
  <2>1. (CHOOSE b \in Bodies : TRUE) \in Bodies
    BY LocalBucketAssumption
  <2> QED BY <2>1, Zenon DEF NoFiles, Found, Files, NoBackup
<1>2. \A k \in Keys : dir[k] \in {NoFiles, Found} /\ dir[k] \in Files /\ NoBackup(dir[k]) /\ dirPast[k] = {dir[k]}
  BY <1>1 DEF Init
<1>3. \A k \in Keys : Read(dir[k]) \in Attributes \cup {NoFile}
  <2>1. Read(NoFiles) = NoFile
    BY DEF Read, NoFiles
  <2>2. PICK b \in Bodies : Found = [NoFiles EXCEPT !.body = <<b>>]
    BY LocalBucketAssumption, Zenon DEF Found
  <2>3. Found.body = <<b>> /\ Found.meta = NoFile
    BY <2>2 DEF NoFiles
  <2>4. Read(Found) = <<b, Default>>
    BY <2>3, SMTT(30) DEF Read, NoFile
  <2> QED BY <1>2, <2>1, <2>4, LocalBucketAssumption, SMTT(30) DEF Attributes
<1>4. TypeOK
  <2>1. {} \in FiniteNames
    BY FS_EmptySet DEF FiniteNames
  <2> QED BY <1>1, <1>2, <1>3, <2>1, NoOperationType DEF Init, TypeOK, Steps
<1>5. CrashSafe
  BY <1>2 DEF Init, CrashSafe, Untouched, Harmless, Recoverable
<1>6. Directories
  BY <1>2 DEF Init, Directories
<1>7. Knows
  BY NoOperationType DEF Init, Knows, Journalled, Publishing, Halfway, Undoing, Cleared, Returning, Deleting, Staging,
     Replacing, Published, RollingBack, Cleaning
<1> QED BY <1>4, <1>5, <1>6, <1>7 DEF BucketInv

LEMMA LockInv ==
  ASSUME BucketInv, NEW kind \in {"put", "delete", "read"}, NEW k \in Keys, NEW v \in Attributes, Lock(kind, k, v)
  PROVE  BucketInv'
<1>1. op' \in Operations /\ op'.after = "reclaim" /\ pc' = "recover" /\ pc = "idle"
  BY NewOperationType DEF Lock, Goto
<1>2. TypeOK' /\ CrashSafe'
  BY <1>1, QuietTypes, QuietSafe DEF BucketInv, TypeOK, Lock, dirVars, rootVars, stageVars, Steps
<1>3. Directories'
  BY <1>1 DEF BucketInv, Directories, Made, Lock, dirVars
<1>4. Knows'
  BY <1>1 DEF Knows, Journalled, Publishing, Halfway, Undoing, Cleared, Returning, Deleting, Staging, Replacing,
     Published, RollingBack, Cleaning
<1> QED BY <1>2, <1>3, <1>4 DEF BucketInv

LEMMA UnlockInv ==
  ASSUME BucketInv, Unlock, UNCHANGED <<rootVars, may>>,
         staging' \in stagingPast', stagingPast' \subseteq FiniteNames
  PROVE  BucketInv'
<1>1. op' \in Operations /\ op'.after = "reclaim" /\ pc' = "idle"
  BY NoOperationType DEF Unlock
<1>2. TypeOK' /\ CrashSafe'
  <2>1. TypeOK'
    BY <1>1 DEF BucketInv, TypeOK, Unlock, Left, rootVars, Steps
  <2> QED BY <2>1, QuietSafe DEF BucketInv, Unlock, rootVars
<1>3. Directories'
  BY DEF BucketInv, Directories, Unlock, Left
<1>4. Knows'
  BY <1>1, Zenon DEF Knows, Journalled, Publishing, Halfway, Undoing, Cleared, Returning, Deleting, Staging, Replacing,
     Published, RollingBack, Cleaning
<1> QED BY <1>2, <1>3, <1>4 DEF BucketInv

-----------------------------------------------------------------------------
(***************************************************************************)
(* Recovery.                                                               *)
(***************************************************************************)
LEMMA NothingLeft ==
  ASSUME NEW f, NEW tx, tx.value \in Attributes, f.body = NoFile, f.bodyBackup = NoFile
  PROVE  Outcome(f, tx) = NoFile /\ Read(f) = NoFile /\ Read(Rolled(f, tx)) = NoFile
<1>1. ~Commits(f, tx)
  BY Distinct DEF Commits
<1>2. Rolled(f, tx).body = NoFile
  BY Distinct DEF Rolled
<1> QED BY <1>1, <1>2, ReadNothing DEF Outcome

\* The files of the journalled transaction become f.
LEMMA TxChange ==
  ASSUME BucketInv, journal # {}, NEW f \in Files, Change(Tx.key, f), UNCHANGED <<rootVars, may>>,
         pc' \in Steps, op' \in Operations, staging' \in stagingPast', stagingPast' \subseteq FiniteNames,
         Outcome(f, Tx) \in may[Tx.key],
         f.bodyBackup # NoFile => Tx.hadBody,
         f.metaBackup # NoFile => Tx.hadMeta,
         ~NoBackup(f) => Tx.value \in may[Tx.key],
         {} \in journalPast => NoBackup(f) /\ Read(f) \in may[Tx.key],
         \A past \in journalPast \ {journal} : \A tx \in past : tx.key = Tx.key => Outcome(f, tx) = Read(f)
  PROVE  TypeOK' /\ CrashSafe' /\ Tx' = Tx /\ Its' = f
<1>1. journal = {Tx} /\ Tx.key \in Keys
  BY TheTransaction DEF BucketInv
<1>2. Tx' = Tx
  BY SameTx DEF rootVars
<1>3. TypeOK' /\ Its' = f
  BY <1>1, <1>2, ChangeTypes, ZenonT(30) DEF BucketInv, TypeOK, Its, rootVars
<1>4. \A past \in journalPast : (\A tx \in past : tx.key # Tx.key) => {} \in journalPast
  BY <1>1 DEF BucketInv, CrashSafe, Harmless
<1>5. CrashSafe'
  <2>1. \A past \in journalPast : (\A tx \in past : tx.key # Tx.key) => NoBackup(f) /\ Read(f) \in may[Tx.key]
    BY <1>4
  <2>2. dirPast' = [dirPast EXCEPT ![Tx.key] = @ \cup {f}] /\ UNCHANGED <<journal, journalPast, may>>
    BY DEF Change, rootVars
  <2>3. \A tx \in journal : tx.key = Tx.key =>
           /\ Outcome(f, tx) \in may[Tx.key]
           /\ f.bodyBackup # NoFile => tx.hadBody
           /\ f.metaBackup # NoFile => tx.hadMeta
           /\ ~NoBackup(f) => tx.value \in may[Tx.key]
    BY <1>1
  <2>4. PICK k \in Keys : k = Tx.key
    BY <1>1
  <2> QED BY <2>1, <2>2, <2>3, <2>4, ChangeSafe, Zenon DEF BucketInv
<1> QED BY <1>2, <1>3, <1>5

Recovering == {"recover", "syncRoot"} \cup RollingBack \cup Cleaning
LEMMA RecoveringDirectories ==
  ASSUME BucketInv, NEW k \in Keys, NEW f \in Files, Change(k, f), UNCHANGED may,
         op'.kind = op.kind, op'.key = op.key, op'.after = op.after,
         pc \in Recovering, pc' \in Recovering,
         entry[k] = "absent" => f = NoFiles,
         entry[k] = "made" => f.body = NoFile /\ f.bodyBackup = NoFile
  PROVE  Directories'
<1>1. /\ entry' = entry /\ dir'[k] = f /\ dirPast'[k] = dirPast[k] \cup {f}
      /\ \A j \in Keys \ {k} : dir'[j] = dir[j] /\ dirPast'[j] = dirPast[j]
  BY ChangeTypes DEF BucketInv
<1>2. ASSUME NEW j \in Keys, entry[j] = "absent" PROVE dirPast'[j] = {NoFiles}
  BY <1>1, <1>2 DEF BucketInv, Directories
<1>3. ASSUME NEW j \in Keys, entry[j] = "made" PROVE Made(j)'
  <2>1. Made(j)
    BY <1>3 DEF BucketInv, Directories
  <2>2. /\ pc \notin Published /\ pc' \notin Staging \cup Replacing \cup Published
        /\ pc' \notin {"idle", "reclaim", "work"}
    BY DEF Recovering, RollingBack, Cleaning, Staging, Replacing, Published
  <2>3. dir'[j].body = NoFile /\ dir'[j].bodyBackup = NoFile
    BY <1>1, <1>3, <2>1, <2>2 DEF Made
  <2> QED BY <2>1, <2>2, <2>3 DEF Made, Recovering
<1> QED BY <1>1, <1>2, <1>3 DEF Directories

LEMMA UnchangedFiles == ASSUME BucketInv, NEW k \in Keys, UNCHANGED dirVars PROVE Change(k, dir[k])
  BY SMTT(30) DEF BucketInv, TypeOK, Change, dirVars

LEMMA TxFacts ==
  ASSUME BucketInv, journal # {}
  PROVE  /\ Outcome(Its, Tx) \in may[Tx.key]
         /\ Its.bodyBackup # NoFile => Tx.hadBody
         /\ Its.metaBackup # NoFile => Tx.hadMeta
         /\ ~NoBackup(Its) => Tx.value \in may[Tx.key] /\ {} \notin journalPast /\ journalPast = {journal}
         /\ {} \in journalPast => NoBackup(Its) /\ Read(Its) \in may[Tx.key]
         /\ \A past \in journalPast \ {journal} : \A tx \in past :
               tx.value \in Attributes /\ (tx.key = Tx.key => Outcome(Its, tx) = Read(Its))
         /\ entry[Tx.key] = "absent" => Its = NoFiles
         /\ entry[Tx.key] = "made" /\ pc \notin Published => Its.body = NoFile /\ Its.bodyBackup = NoFile
<1>1. Tx \in journal /\ Its \in dirPast[Tx.key] /\ Tx.key \in Keys
  BY TheTransaction DEF BucketInv
<1>2. \A past \in journalPast : \A tx \in past : tx.value \in Attributes
  BY SMTT(30) DEF BucketInv, TypeOK, Transactions
<1>3. ~NoBackup(Its) => journalPast = {journal}
  BY <1>1, JournalAlone DEF BucketInv, CrashSafe
<1>4. {} \in journalPast => NoBackup(Its) /\ Read(Its) \in may[Tx.key]
  BY <1>1 DEF BucketInv, CrashSafe, Untouched
<1>5. \A past \in journalPast \ {journal} : \A tx \in past : tx.key = Tx.key => Outcome(Its, tx) = Read(Its)
  BY <1>1 DEF BucketInv, CrashSafe, Harmless
<1>6. /\ Outcome(Its, Tx) \in may[Tx.key]
      /\ Its.bodyBackup # NoFile => Tx.hadBody
      /\ Its.metaBackup # NoFile => Tx.hadMeta
      /\ ~NoBackup(Its) => Tx.value \in may[Tx.key]
  BY <1>1 DEF BucketInv, CrashSafe, Recoverable
<1>7. /\ entry[Tx.key] = "absent" => Its = NoFiles
      /\ entry[Tx.key] = "made" /\ pc \notin Published => Its.body = NoFile /\ Its.bodyBackup = NoFile
  BY <1>1, SMTT(30) DEF BucketInv, Directories, Made, Its
<1> QED BY <1>2, <1>3, <1>4, <1>5, <1>6, <1>7

LEMMA RecoverInv == ASSUME BucketInv, Recover PROVE BucketInv'
<1> USE DEF Goto
<1>0. pc = "recover" /\ op' = op /\ UNCHANGED <<rootVars, may, stageVars>> /\ op \in Operations
      /\ staging' \in stagingPast' /\ stagingPast' \subseteq FiniteNames
  BY DEF Recover, stageVars, BucketInv, TypeOK
<1>1. CASE journal = {}
  <2>1. pc' = "reclaim" /\ UNCHANGED dirVars /\ op.after = "reclaim"
    <3>1. op.after \in {"reclaim", "return", "fail"}
      BY <1>0 DEF Operations
    <3> QED BY <1>0, <1>1, <3>1 DEF Recover, BucketInv, Knows, Journalled, Returning, Cleaning
  <2>2. TypeOK' /\ CrashSafe'
    BY <1>0, <2>1, QuietTypes, QuietSafe DEF BucketInv, dirVars, rootVars, Steps
  <2>3. Directories'
    BY <1>0, <2>1 DEF BucketInv, Directories, Made, dirVars
  <2>4. Knows'
    BY <1>0, <1>1, <2>1, Zenon DEF Knows, Journalled, Publishing, Halfway, Undoing, Cleared, Returning, Deleting, Staging,
       Replacing, Published, RollingBack, Cleaning, rootVars
  <2> QED BY <2>2, <2>3, <2>4 DEF BucketInv
<1>2. CASE journal # {}
  <2>1. Tx.key \in Keys /\ Tx.value \in Attributes /\ Its \in Files /\ Its \in dirPast[Tx.key]
    BY <1>2, TheTransaction DEF BucketInv
  <2>5. CASE Committed
    <3>1. pc' = "cleanStages" /\ UNCHANGED dirVars
      BY <1>2, <2>5 DEF Recover
    <3>2. TypeOK' /\ CrashSafe' /\ Tx' = Tx /\ Its' = Its
      BY <1>0, <3>1, QuietTypes, QuietSafe, SameTx DEF BucketInv, dirVars, rootVars, Steps, Its
    <3>3. Directories'
      BY <1>0, <2>1, <3>1, UnchangedFiles, RecoveringDirectories, SMTT(30) DEF BucketInv, Directories, Made, Recovering, Cleaning, Its, Published
    <3>4. Knows'
      BY <1>0, <1>2, <2>5, <3>1, <3>2, Zenon DEF BucketInv, Knows, Journalled, Publishing, Halfway, Undoing, Cleared, Returning,
         Deleting, Staging, Replacing, Published, RollingBack, Cleaning, rootVars, Settled, Committed, Commits
    <3> QED BY <3>2, <3>3, <3>4 DEF BucketInv
  <2>6. CASE ~Committed
    <3>0. Read(Rolled(Its, Tx)) \in may[Tx.key] /\ ~Commits(Its, Tx)
      BY <1>2, <2>6, TxFacts, Zenon DEF Committed, Commits, Outcome
    <3>1. /\ pc' = IF Its.bodyBackup # NoFile THEN "restoreBody" ELSE "rollbackMeta"
          /\ RollbackBody
      BY <1>2, <2>6 DEF Recover
    <3>2. PICK f \in Files :
             /\ Change(Tx.key, f)
             /\ f.meta = Its.meta /\ f.bodyBackup = Its.bodyBackup /\ f.metaBackup = Its.metaBackup
             /\ \/ f = Its /\ Its.bodyBackup = NoFile /\ (Its.body = Body(Tx.value) => Tx.hadBody)
                \/ f.body = NoFile /\ Its.body = Body(Tx.value) /\ ~Tx.hadBody /\ Its.bodyBackup = NoFile
                \/ f.body = NoFile /\ Its.bodyBackup # NoFile
      <4>1. CASE Its.bodyBackup # NoFile \/ (Its.body = Body(Tx.value) /\ ~Tx.hadBody)
        <5>1. PICK f : f = [Its EXCEPT !.body = NoFile]
          BY Zenon
        <5>2. f \in Files /\ f.meta = Its.meta /\ f.bodyBackup = Its.bodyBackup /\ f.metaBackup = Its.metaBackup /\ f.body = NoFile
          BY <2>1, <5>1, FileTypes, Zenon DEF Files
        <5> QED BY <3>1, <4>1, <5>1, <5>2, Zenon DEF RollbackBody
      <4>2. CASE ~(Its.bodyBackup # NoFile \/ (Its.body = Body(Tx.value) /\ ~Tx.hadBody))
        <5>1. Change(Tx.key, Its)
          BY <2>1, <3>1, <4>2, UnchangedFiles DEF RollbackBody, Its
        <5> QED BY <2>1, <4>2, <5>1
      <4> QED BY <4>1, <4>2
    <3>3. /\ Read(Rolled(f, Tx)) \in may[Tx.key] /\ ~Commits(f, Tx)
      <4>1. CASE f = Its
        BY <3>0, <4>1
      <4>2. CASE f.body = NoFile /\ f.bodyBackup = NoFile /\ Its.body = Body(Tx.value) /\ ~Tx.hadBody
        <5>1. Rolled(Its, Tx).body = NoFile
          BY <3>2, <4>2 DEF Rolled
        <5> QED BY <2>1, <3>0, <4>2, <5>1, NothingLeft, ReadNothing, Distinct DEF Commits
      <4>3. CASE f.body = NoFile /\ f.bodyBackup # NoFile
        <5>1. Rolled(f, Tx) = Rolled(Its, Tx)
          BY <3>2, <4>3 DEF Rolled
        <5> QED BY <2>1, <3>0, <4>3, <5>1, Distinct DEF Commits
      <4> QED BY <3>2, <4>1, <4>2, <4>3
    <3>4. /\ {} \in journalPast => NoBackup(f) /\ Read(f) \in may[Tx.key]
          /\ \A past \in journalPast \ {journal} : \A tx \in past : tx.key = Tx.key => Outcome(f, tx) = Read(f)
      <4>1. CASE f = Its
        BY <1>2, <4>1, TxFacts, Zenon
      <4>2. CASE f.body = NoFile /\ f.bodyBackup = NoFile
        BY <1>2, <2>1, <3>2, <3>3, <4>2, TxFacts, NothingLeft, Zenon DEF NoBackup
      <4>3. CASE f.body = NoFile /\ f.bodyBackup # NoFile
        BY <1>2, <3>2, <4>3, TxFacts, Zenon DEF NoBackup
      <4> QED BY <3>2, <4>1, <4>2, <4>3, Zenon
    <3>5. TypeOK' /\ CrashSafe' /\ Tx' = Tx /\ Its' = f
      <4>1. /\ f.bodyBackup # NoFile => Tx.hadBody
            /\ f.metaBackup # NoFile => Tx.hadMeta
            /\ ~NoBackup(f) => Tx.value \in may[Tx.key]
        BY <1>2, <3>2, TxFacts, Zenon DEF NoBackup
      <4>2. Outcome(f, Tx) \in may[Tx.key]
        BY <3>3 DEF Outcome
      <4>3. pc' \in Steps
        BY <3>1 DEF Steps
      <4> QED BY <1>0, <1>2, <3>2, <3>4, <4>1, <4>2, <4>3, TxChange, Zenon
    <3>6. Directories'
      <4>1. /\ entry[Tx.key] = "absent" => f = NoFiles
            /\ entry[Tx.key] = "made" => f.body = NoFile /\ f.bodyBackup = NoFile
        BY <1>0, <1>2, <2>1, <3>2, TxFacts, Distinct, SMTT(30) DEF Published, NoFiles
      <4> QED BY <1>0, <2>1, <3>1, <3>2, <4>1, RecoveringDirectories, Zenon DEF Recovering, RollingBack
    <3>7. Knows'
      <4>1. op.after # "return"
        BY <1>0 DEF BucketInv, Knows, Returning, Cleaning
      <4>2. (pc' = "restoreBody" /\ f.bodyBackup # NoFile) \/ (pc' = "rollbackMeta" /\ f.bodyBackup = NoFile)
        BY <3>1, <3>2
      <4>3. pc' = "rollbackMeta" => (f.body = Body(Tx.value) => Tx.hadBody)
        BY <2>1, <3>1, <3>2, Distinct
      <4> QED BY <1>0, <1>2, <3>3, <3>5, <4>1, <4>2, <4>3, Zenon DEF Knows, Journalled, Publishing, Halfway, Undoing, Cleared,
          Returning, Deleting, Staging, Replacing, Published, RollingBack, Cleaning, rootVars, Committed, Commits
    <3> QED BY <3>5, <3>6, <3>7 DEF BucketInv
  <2> QED BY <2>5, <2>6
<1> QED BY <1>1, <1>2

LEMMA RestoreBodyInv == ASSUME BucketInv, RestoreBody PROVE BucketInv'
<1>0. /\ pc = "restoreBody" /\ pc' = "rollbackMeta" /\ op' = op /\ UNCHANGED <<rootVars, may>> /\ op \in Operations
      /\ staging' \in stagingPast' /\ stagingPast' \subseteq FiniteNames
  BY DEF RestoreBody, stageVars, BucketInv, TypeOK, Goto
<1>1. journal # {} /\ Its.bodyBackup # NoFile /\ Read(Rolled(Its, Tx)) \in may[Tx.key]
  BY <1>0, Zenon DEF BucketInv, Knows, Journalled, Undoing, Halfway, RollingBack
<1>2. Tx.key \in Keys /\ Tx.value \in Attributes /\ Its \in Files
  BY <1>1, TheTransaction DEF BucketInv
<1>3. PICK f : f = [Its EXCEPT !.body = Its.bodyBackup, !.bodyBackup = NoFile]
  OBVIOUS
<1>4. /\ f \in Files /\ Change(Tx.key, f)
      /\ f.body = Its.bodyBackup /\ f.bodyBackup = NoFile /\ f.meta = Its.meta /\ f.metaBackup = Its.metaBackup
  BY <1>2, <1>3, FileTypes, Zenon DEF RestoreBody, Files
<1>5. Tx.hadBody /\ Tx.value \in may[Tx.key] /\ {} \notin journalPast /\ journalPast = {journal}
  BY <1>1, TxFacts, Zenon DEF NoBackup
<1>6. Read(Rolled(f, Tx)) \in may[Tx.key]
  <2>1. Rolled(f, Tx) = Rolled(Its, Tx)
    BY <1>1, <1>4, <1>5, Zenon DEF Rolled
  <2> QED BY <1>1, <2>1, Zenon
<1>7. TypeOK' /\ CrashSafe' /\ Tx' = Tx /\ Its' = f
  <2>1. f.metaBackup # NoFile => Tx.hadMeta
    BY <1>1, <1>4, TxFacts
  <2>2. Outcome(f, Tx) \in may[Tx.key]
    BY <1>5, <1>6 DEF Outcome
  <2>3. pc' \in Steps
    BY <1>0 DEF Steps
  <2> QED BY <1>0, <1>1, <1>4, <1>5, <2>1, <2>2, <2>3, TxChange, Zenon
<1>8. Directories'
  <2>1. entry[Tx.key] \notin {"absent", "made"}
    BY <1>0, <1>1, TxFacts, SMTT(30) DEF Published, NoFiles
  <2> QED BY <1>0, <1>2, <1>4, <2>1, RecoveringDirectories DEF Recovering, RollingBack
<1>9. Knows'
  <2>1. op.after # "return"
    BY <1>0 DEF BucketInv, Knows, Returning, Cleaning
  <2> QED BY <1>0, <1>1, <1>4, <1>5, <1>6, <1>7, <2>1, Zenon DEF Knows, Journalled, Publishing, Halfway, Undoing, Cleared,
      Returning, Deleting, Staging, Replacing, Published, RollingBack, Cleaning, rootVars
<1> QED BY <1>7, <1>8, <1>9 DEF BucketInv

LEMMA RollbackMetaInv == ASSUME BucketInv, RollbackMeta PROVE BucketInv'
<1>0. /\ pc = "rollbackMeta" /\ op' = op /\ UNCHANGED <<rootVars, may>> /\ op \in Operations
      /\ pc' = IF Its.metaBackup # NoFile THEN "restoreMeta" ELSE "cleanStages"
      /\ staging' \in stagingPast' /\ stagingPast' \subseteq FiniteNames
  BY DEF RollbackMeta, stageVars, BucketInv, TypeOK, Goto
<1>1. /\ journal # {} /\ Its.bodyBackup = NoFile /\ (Its.body = Body(Tx.value) => Tx.hadBody)
      /\ Read(Rolled(Its, Tx)) \in may[Tx.key]
      /\ Commits(Its, Tx) => {} \notin journalPast
  BY <1>0, Zenon DEF BucketInv, Knows, Journalled, Undoing, Halfway, RollingBack, Committed, Commits
<1>2. Tx.key \in Keys /\ Tx.value \in Attributes /\ Its \in Files
  BY <1>1, TheTransaction DEF BucketInv
<1>3. PICK f \in Files :
         /\ Change(Tx.key, f)
         /\ f.body = Its.body /\ f.bodyBackup = NoFile /\ f.metaBackup = Its.metaBackup
         /\ \/ f = Its /\ Its.metaBackup = NoFile /\ (Its.meta = Tx.value => Tx.hadMeta)
            \/ f.meta = NoFile /\ Its.meta = Tx.value /\ ~Tx.hadMeta /\ Its.metaBackup = NoFile
            \/ f.meta = NoFile /\ Its.metaBackup # NoFile
  <2>1. CASE Its.metaBackup # NoFile \/ (Its.meta = Tx.value /\ ~Tx.hadMeta)
    <3>1. PICK f : f = [Its EXCEPT !.meta = NoFile]
      BY Zenon
    <3>2. f \in Files /\ f.body = Its.body /\ f.bodyBackup = Its.bodyBackup /\ f.metaBackup = Its.metaBackup /\ f.meta = NoFile
      BY <1>2, <3>1, FileTypes, Zenon DEF Files
    <3> QED BY <1>1, <2>1, <3>1, <3>2, Zenon DEF RollbackMeta
  <2>2. CASE ~(Its.metaBackup # NoFile \/ (Its.meta = Tx.value /\ ~Tx.hadMeta))
    <3>1. Change(Tx.key, Its)
      BY <1>2, <2>2, UnchangedFiles DEF RollbackMeta, Its
    <3> QED BY <1>1, <1>2, <2>2, <3>1
  <2> QED BY <2>1, <2>2, Zenon
<1>4. Read(Rolled(f, Tx)) \in may[Tx.key]
  <2>1. Rolled(f, Tx) = Rolled(Its, Tx)
    BY <1>1, <1>2, <1>3, Distinct, Zenon DEF Rolled
  <2> QED BY <1>1, <2>1
<1>5. Outcome(f, Tx) \in may[Tx.key]
  <2>1. CASE f = Its
    BY <1>1, <2>1, TxFacts, Zenon
  <2>2. CASE f.meta = NoFile
    BY <1>2, <1>4, <2>2, Distinct DEF Outcome, Commits
  <2> QED BY <1>3, <2>1, <2>2
<1>6. /\ {} \in journalPast => NoBackup(f) /\ Read(f) \in may[Tx.key]
      /\ \A past \in journalPast \ {journal} : \A tx \in past : tx.key = Tx.key => Outcome(f, tx) = Read(f)
  <2>1. CASE f = Its
    BY <1>1, <2>1, TxFacts, Zenon
  <2>2. CASE f # Its /\ {} \in journalPast
    <3>1. NoBackup(Its) /\ Read(Its) \in may[Tx.key] /\ ~Commits(Its, Tx)
      BY <1>1, <2>2, TxFacts, Zenon
    <3>2. f.meta = NoFile /\ Its.meta = Tx.value /\ NoBackup(f)
      BY <1>3, <2>2, <3>1, ZenonT(30) DEF NoBackup
    <3>3. Its.body = NoFile
      <4>1. Read(Its) # Broken
        BY <1>2, <3>1, Distinct, SMTT(30) DEF BucketInv, TypeOK
      <4> QED BY <1>2, <3>1, <3>2, <4>1, MetaMatches, Distinct DEF Commits
    <3> QED BY <1>1, <1>2, <1>3, <1>4, <3>2, <3>3, NothingLeft, TxFacts, Zenon DEF NoBackup
  <2>3. CASE {} \notin journalPast
    BY <2>3, Zenon DEF BucketInv, CrashSafe, Harmless
  <2> QED BY <2>1, <2>2, <2>3
<1>7. TypeOK' /\ CrashSafe' /\ Tx' = Tx /\ Its' = f
  <2>1. f.metaBackup # NoFile => Tx.hadMeta /\ Tx.value \in may[Tx.key]
    BY <1>1, <1>3, TxFacts, Zenon DEF NoBackup
  <2>2. pc' \in Steps
    BY <1>0 DEF Steps
  <2> QED BY <1>0, <1>1, <1>3, <1>5, <1>6, <2>1, <2>2, TxChange, Zenon DEF NoBackup
<1>8. Directories'
  <2>1. /\ entry[Tx.key] = "absent" => f = NoFiles
        /\ entry[Tx.key] = "made" => f.body = NoFile /\ f.bodyBackup = NoFile
    BY <1>0, <1>1, <1>2, <1>3, TxFacts, Distinct, SMTT(30) DEF Published, NoFiles
  <2> QED BY <1>0, <1>2, <1>3, <2>1, RecoveringDirectories DEF Recovering, RollingBack, Cleaning
<1>9. Knows'
  <2>1. op.after # "return"
    BY <1>0, Zenon DEF BucketInv, Knows, Returning, Cleaning
  <2>2. (pc' = "restoreMeta" /\ f.metaBackup # NoFile) \/ (pc' = "cleanStages" /\ Settled(f, Tx))
    BY <1>0, <1>1, <1>2, <1>3, Distinct, Zenon DEF Settled, NoBackup
  <2>3. f.body = Body(Tx.value) => Tx.hadBody
    BY <1>1, <1>3, Zenon
  <2> QED BY <1>0, <1>1, <1>3, <1>4, <1>7, <2>1, <2>2, <2>3, Zenon DEF Knows, Journalled, Publishing, Halfway, Undoing, Cleared,
      Returning, Deleting, Staging, Replacing, Published, RollingBack, Cleaning, rootVars
<1> QED BY <1>7, <1>8, <1>9 DEF BucketInv

LEMMA RestoreMetaInv == ASSUME BucketInv, RestoreMeta PROVE BucketInv'
<1>0. /\ pc = "restoreMeta" /\ pc' = "cleanStages" /\ op' = op /\ UNCHANGED <<rootVars, may>> /\ op \in Operations
      /\ staging' \in stagingPast' /\ stagingPast' \subseteq FiniteNames
  BY DEF RestoreMeta, stageVars, BucketInv, TypeOK, Goto
<1>1. /\ journal # {} /\ Its.metaBackup # NoFile /\ Its.bodyBackup = NoFile
      /\ (Its.body = Body(Tx.value) => Tx.hadBody) /\ Read(Rolled(Its, Tx)) \in may[Tx.key]
  BY <1>0, Zenon DEF BucketInv, Knows, Journalled, Undoing, Halfway, RollingBack
<1>2. Tx.key \in Keys /\ Tx.value \in Attributes /\ Its \in Files
  BY <1>1, TheTransaction DEF BucketInv
<1>3. PICK f : f = [Its EXCEPT !.meta = Its.metaBackup, !.metaBackup = NoFile]
  OBVIOUS
<1>4. /\ f \in Files /\ Change(Tx.key, f)
      /\ f.meta = Its.metaBackup /\ f.bodyBackup = NoFile /\ f.body = Its.body /\ f.metaBackup = NoFile
  <2>1. f \in Files
    BY <1>2, <1>3, FileTypes, Zenon
  <2>2. f.meta = Its.metaBackup /\ f.bodyBackup = Its.bodyBackup /\ f.body = Its.body /\ f.metaBackup = NoFile
    BY <1>2, <1>3 DEF Files
  <2>3. Change(Tx.key, f)
    BY <1>3 DEF RestoreMeta
  <2> QED BY <1>1, <2>1, <2>2, <2>3, Zenon
<1>5. Tx.hadMeta /\ Tx.value \in may[Tx.key] /\ {} \notin journalPast /\ journalPast = {journal}
  BY <1>1, TxFacts, Zenon DEF NoBackup
<1>6. Read(Rolled(f, Tx)) \in may[Tx.key]
  <2>1. Rolled(f, Tx) = Rolled(Its, Tx)
    BY <1>1, <1>4, <1>5, Zenon DEF Rolled
  <2> QED BY <1>1, <2>1, Zenon
<1>7. TypeOK' /\ CrashSafe' /\ Tx' = Tx /\ Its' = f
  <2>1. Outcome(f, Tx) \in may[Tx.key]
    BY <1>5, <1>6, Zenon DEF Outcome
  <2>2. pc' \in Steps
    BY <1>0 DEF Steps
  <2> QED BY <1>0, <1>1, <1>4, <1>5, <2>1, <2>2, TxChange, Zenon
<1>8. Directories'
  <2>1. /\ entry[Tx.key] # "absent"
        /\ entry[Tx.key] = "made" => f.body = NoFile /\ f.bodyBackup = NoFile
    BY <1>0, <1>1, <1>4, TxFacts, SMTT(30) DEF Published, NoFiles
  <2> QED BY <1>0, <1>2, <1>4, <2>1, RecoveringDirectories DEF Recovering, RollingBack, Cleaning
<1>9. Knows'
  <2>1. op.after # "return"
    BY <1>0, Zenon DEF BucketInv, Knows, Returning, Cleaning
  <2>2. Settled(f, Tx)
    BY <1>1, <1>4, <1>5, Zenon DEF Settled, NoBackup
  <2> QED BY <1>0, <1>1, <1>7, <2>1, <2>2, Zenon DEF Knows, Journalled, Publishing, Halfway, Undoing, Cleared,
      Returning, Deleting, Staging, Replacing, Published, RollingBack, Cleaning, rootVars
<1> QED BY <1>7, <1>8, <1>9 DEF BucketInv

LEMMA CleanStagesInv == ASSUME BucketInv, CleanStages PROVE BucketInv'
<1>0. /\ pc = "cleanStages" /\ pc' = "cleanBody" /\ UNCHANGED <<dirVars, rootVars, may>>
      /\ op' \in {op, [op EXCEPT !.kept = TRUE]} /\ op \in Operations
  BY DEF CleanStages, Keep, Kept, BucketInv, TypeOK, Goto
<1>1. journal # {} /\ Settled(Its, Tx)
  BY <1>0 DEF BucketInv, Knows, Journalled, Cleared, Cleaning
<1>2. op' \in Operations /\ op'.kind = op.kind /\ op'.key = op.key /\ op'.after = op.after /\ op'.value = op.value
  BY <1>0, Zenon DEF Operations
<1>3. Tx.key \in Keys /\ Its \in Files
  BY <1>1, TheTransaction DEF BucketInv
<1>4. staging' \in stagingPast' /\ stagingPast' \subseteq FiniteNames
  <2>1. PICK left \in SUBSET (staging \cap {Tx.objectStage, Tx.metaStage}) :
           Stage((staging \ {Tx.objectStage, Tx.metaStage}) \cup left)
    BY Zenon DEF CleanStages
  <2>2. PICK names : names = (staging \ {Tx.objectStage, Tx.metaStage}) \cup left
    BY Zenon
  <2>3. names \subseteq staging \cup {0} /\ Stage(names)
    BY <2>1, <2>2
  <2> QED BY <2>3, StageTypes DEF BucketInv, TypeOK
<1>5. TypeOK' /\ CrashSafe' /\ Tx' = Tx /\ Its' = Its
  BY <1>0, <1>2, <1>4, QuietTypes, QuietSafe, SameTx DEF BucketInv, dirVars, rootVars, Steps, Its
<1>6. Directories'
  <2>1. /\ entry[Tx.key] = "absent" => Its = NoFiles
        /\ entry[Tx.key] = "made" => Its.body = NoFile /\ Its.bodyBackup = NoFile
    BY <1>0, <1>1, TxFacts DEF Published
  <2>2. Change(Tx.key, Its)
    BY <1>0, <1>3, UnchangedFiles DEF Its
  <2> QED BY <1>0, <1>2, <1>3, <2>1, <2>2, RecoveringDirectories DEF Recovering, Cleaning
<1>7. Knows'
  <2>1. op.after = "return" => op.kind = "put" /\ Commits(Its, Tx) /\ Tx.key = op.key /\ Tx.value = op.value
    BY <1>0 DEF BucketInv, Knows, Returning, Cleaning
  <2> QED BY <1>0, <1>1, <1>2, <1>5, <2>1 DEF Knows, Journalled, Publishing, Halfway, Undoing, Cleared,
      Returning, Deleting, Staging, Replacing, Published, RollingBack, Cleaning, rootVars
<1> QED BY <1>5, <1>6, <1>7 DEF BucketInv

\* A backup is removed, or cannot be.
LEMMA CleanChange ==
  ASSUME BucketInv, pc \in Cleaning, pc' \in Cleaning, UNCHANGED <<rootVars, stageVars, may>>,
         op' \in {op, [op EXCEPT !.kept = TRUE]}, NEW f \in Files, Change(Tx.key, f),
         f.body = Its.body, f.meta = Its.meta,
         f.bodyBackup \in {NoFile, Its.bodyBackup}, f.metaBackup \in {NoFile, Its.metaBackup}
  PROVE  /\ TypeOK' /\ CrashSafe' /\ Directories' /\ Tx' = Tx /\ Its' = f
         /\ op'.kind = op.kind /\ op'.key = op.key /\ op'.after = op.after /\ op'.value = op.value
         /\ journal # {} /\ Settled(f, Tx) /\ (Commits(f, Tx) <=> Commits(Its, Tx))
<1>1. journal # {} /\ Settled(Its, Tx)
  BY DEF BucketInv, Knows, Journalled, Cleared
<1>2. op' \in Operations /\ op'.kind = op.kind /\ op'.key = op.key /\ op'.after = op.after /\ op'.value = op.value
  <2>1. op \in Operations
    BY DEF BucketInv, TypeOK
  <2> QED BY <2>1, Zenon DEF Operations
<1>3. Tx.key \in Keys /\ Tx.value \in Attributes /\ Its \in Files
  BY <1>1, TheTransaction DEF BucketInv
<1>4. Settled(f, Tx) /\ (Commits(f, Tx) <=> Commits(Its, Tx))
  BY <1>1 DEF Settled, Commits, NoBackup
<1>5. f = Its \/ (Commits(f, Tx) /\ ~NoBackup(Its))
  <2>1. CASE NoBackup(Its)
    BY <1>3, <2>1, SMTT(30) DEF NoBackup, Files
  <2>2. CASE ~NoBackup(Its)
    BY <1>1, <1>4, <2>2 DEF Settled
  <2> QED BY <2>1, <2>2
<1>6. Outcome(f, Tx) \in may[Tx.key]
  BY <1>1, <1>4, <1>5, TxFacts DEF Outcome
<1>7. /\ {} \in journalPast => NoBackup(f) /\ Read(f) \in may[Tx.key]
      /\ \A past \in journalPast \ {journal} : \A tx \in past : tx.key = Tx.key => Outcome(f, tx) = Read(f)
  BY <1>1, <1>5, TxFacts
<1>8. /\ f.bodyBackup # NoFile => Tx.hadBody
      /\ f.metaBackup # NoFile => Tx.hadMeta
      /\ ~NoBackup(f) => Tx.value \in may[Tx.key]
  BY <1>1, TxFacts DEF NoBackup
<1>9. TypeOK' /\ CrashSafe' /\ Tx' = Tx /\ Its' = f
  <2>1. pc' \in Steps /\ staging' \in stagingPast' /\ stagingPast' \subseteq FiniteNames
    BY DEF Cleaning, Steps, BucketInv, TypeOK, stageVars
  <2> QED BY <1>1, <1>2, <1>6, <1>7, <1>8, <2>1, TxChange
<1>10. Directories'
  <2>1. /\ entry[Tx.key] = "absent" => f = NoFiles
        /\ entry[Tx.key] = "made" => f.body = NoFile /\ f.bodyBackup = NoFile
    <3>1. pc \notin Published
      BY DEF Cleaning, Published
    <3>2. entry[Tx.key] = "absent" => NoBackup(Its)
      BY <1>1, TxFacts, SMTT(30) DEF NoFiles, NoBackup
    <3> QED BY <1>1, <1>5, <3>1, <3>2, TxFacts
  <2> QED BY <1>2, <1>3, <2>1, RecoveringDirectories DEF Recovering
<1> QED BY <1>1, <1>2, <1>4, <1>9, <1>10

LEMMA CleanBodyInv == ASSUME BucketInv, CleanBody PROVE BucketInv'
<1>0. /\ pc = "cleanBody" /\ pc' = "cleanMeta" /\ UNCHANGED <<rootVars, stageVars, may>>
      /\ op' \in {op, [op EXCEPT !.kept = TRUE]} /\ op \in Operations
  BY DEF CleanBody, Keep, Kept, BucketInv, TypeOK, Goto
<1>1. journal # {}
  BY <1>0 DEF BucketInv, Knows, Journalled, Cleaning
<1>2. Tx.key \in Keys /\ Tx.value \in Attributes /\ Its \in Files
  BY <1>1, TheTransaction DEF BucketInv
<1>3. PICK f \in Files : /\ Change(Tx.key, f)
                         /\ f.body = Its.body /\ f.meta = Its.meta /\ f.metaBackup = Its.metaBackup
                         /\ f.bodyBackup = NoFile \/ (f = Its /\ op'.kept)
  <2>1. CASE Change(Tx.key, [Its EXCEPT !.bodyBackup = NoFile])
    <3>1. PICK f : f = [Its EXCEPT !.bodyBackup = NoFile]
      BY Zenon
    <3> QED BY <1>2, <2>1, <3>1, FileTypes, ZenonT(60) DEF Files
  <2>2. CASE UNCHANGED dirVars /\ Keep
    <3>1. op'.kept
      BY <1>0, <2>2 DEF Keep, Operations
    <3> QED BY <1>2, <2>2, <3>1, UnchangedFiles, Zenon DEF Its
  <2> QED BY <2>1, <2>2 DEF CleanBody
<1>4. /\ TypeOK' /\ CrashSafe' /\ Directories' /\ Tx' = Tx /\ Its' = f
      /\ op'.kind = op.kind /\ op'.key = op.key /\ op'.after = op.after /\ op'.value = op.value
      /\ Settled(f, Tx) /\ (Commits(f, Tx) <=> Commits(Its, Tx))
  BY <1>0, <1>3, CleanChange DEF Cleaning
<1>5. Knows'
  <2>1. op.after = "return" => op.kind = "put" /\ Commits(Its, Tx) /\ Tx.key = op.key /\ Tx.value = op.value
    BY <1>0 DEF BucketInv, Knows, Returning, Cleaning
  <2> QED BY <1>0, <1>1, <1>3, <1>4, <2>1 DEF Knows, Journalled, Publishing, Halfway, Undoing, Cleared,
      Returning, Deleting, Staging, Replacing, Published, RollingBack, Cleaning, rootVars
<1> QED BY <1>4, <1>5 DEF BucketInv

LEMMA CleanMetaInv == ASSUME BucketInv, CleanMeta PROVE BucketInv'
<1>0. /\ pc = "cleanMeta" /\ pc' = "syncParent" /\ UNCHANGED <<rootVars, stageVars, may>>
      /\ op' \in {op, [op EXCEPT !.kept = TRUE]} /\ op \in Operations
  BY DEF CleanMeta, Keep, Kept, BucketInv, TypeOK, Goto
<1>1. journal # {} /\ (op.kept \/ Its.bodyBackup = NoFile)
  BY <1>0 DEF BucketInv, Knows, Journalled, Cleaning, Cleared
<1>2. Tx.key \in Keys /\ Tx.value \in Attributes /\ Its \in Files
  BY <1>1, TheTransaction DEF BucketInv
<1>3. PICK f \in Files : /\ Change(Tx.key, f)
                         /\ f.body = Its.body /\ f.meta = Its.meta /\ f.bodyBackup = Its.bodyBackup
                         /\ f.metaBackup = NoFile \/ (f = Its /\ op'.kept)
  <2>1. CASE Change(Tx.key, [Its EXCEPT !.metaBackup = NoFile])
    <3>1. PICK f : f = [Its EXCEPT !.metaBackup = NoFile]
      BY Zenon
    <3> QED BY <1>2, <2>1, <3>1, FileTypes, ZenonT(60) DEF Files
  <2>2. CASE UNCHANGED dirVars /\ Keep
    <3>1. op'.kept
      BY <1>0, <2>2 DEF Keep, Operations
    <3> QED BY <1>2, <2>2, <3>1, UnchangedFiles DEF Its
  <2> QED BY <2>1, <2>2 DEF CleanMeta
<1>4. /\ TypeOK' /\ CrashSafe' /\ Directories' /\ Tx' = Tx /\ Its' = f
      /\ op'.kind = op.kind /\ op'.key = op.key /\ op'.after = op.after /\ op'.value = op.value
      /\ Settled(f, Tx) /\ (Commits(f, Tx) <=> Commits(Its, Tx))
  BY <1>0, <1>3, CleanChange DEF Cleaning
<1>5. op.kept => op'.kept
  BY <1>0 DEF Operations
<1>6. Knows'
  <2>1. op.after = "return" => op.kind = "put" /\ Commits(Its, Tx) /\ Tx.key = op.key /\ Tx.value = op.value
    BY <1>0 DEF BucketInv, Knows, Returning, Cleaning
  <2>2. ~op'.kept => NoBackup(f)
    BY <1>1, <1>3, <1>5 DEF NoBackup
  <2> QED BY <1>0, <1>1, <1>4, <2>1, <2>2 DEF Knows, Journalled, Publishing, Halfway, Undoing, Cleared,
      Returning, Deleting, Staging, Replacing, Published, RollingBack, Cleaning, rootVars
<1> QED BY <1>4, <1>6 DEF BucketInv

LEMMA SyncSafe ==
  ASSUME BucketInv, NEW k \in Keys, Sync(k), UNCHANGED <<rootVars, may>>, pc' \in Steps, op' \in Operations,
         staging' \in stagingPast', stagingPast' \subseteq FiniteNames
  PROVE  TypeOK' /\ CrashSafe' /\ Tx' = Tx /\ Its' = Its /\ dirPast'[k] = {dir[k]} /\ \A j \in Keys : dirPast'[j] \subseteq dirPast[j]
<1>1. dirPast'[k] = {dir[k]} /\ \A j \in Keys : dirPast'[j] \subseteq dirPast[j]
  BY SMTT(30) DEF BucketInv, TypeOK, Sync
<1>2. TypeOK'
  BY <1>1, SMTT(30) DEF BucketInv, TypeOK, Sync, rootVars
<1>3. \A past \in journalPast : \A tx \in past : tx.key \in Keys
  BY SMTT(30) DEF BucketInv, TypeOK, Transactions
<1>4. Untouched'
  BY <1>1 DEF BucketInv, CrashSafe, Untouched, rootVars
<1>5. Harmless'
  BY <1>1, <1>3 DEF BucketInv, CrashSafe, Harmless, rootVars
<1>6. Recoverable'
  BY <1>1, <1>3, SMTT(30) DEF BucketInv, TypeOK, CrashSafe, Recoverable, rootVars
<1> QED BY <1>1, <1>2, <1>4, <1>5, <1>6, SameTx DEF CrashSafe, Its, Sync, rootVars

LEMMA SyncParentInv == ASSUME BucketInv, SyncParent PROVE BucketInv'
<1>0. pc = "syncParent" /\ UNCHANGED <<rootVars, stageVars, may>>
  BY DEF SyncParent
<1>1. staging' \in stagingPast' /\ stagingPast' \subseteq FiniteNames /\ op \in Operations
  BY <1>0 DEF BucketInv, TypeOK, stageVars
<1>2. CASE op.kept \/ entry[Tx.key] = "absent"
  BY <1>0, <1>1, <1>2, UnlockInv DEF SyncParent
<1>3. CASE ~op.kept /\ entry[Tx.key] # "absent"
  <2>1. Sync(Tx.key) /\ op' = op /\ pc' = "dropJournal"
    BY <1>3 DEF SyncParent, Goto
  <2>2. journal # {} /\ Settled(Its, Tx) /\ NoBackup(Its)
    BY <1>0, <1>3 DEF BucketInv, Knows, Journalled, Cleaning, Cleared
  <2>3. Tx.key \in Keys
    BY <2>2, TheTransaction DEF BucketInv
  <2>4. /\ TypeOK' /\ CrashSafe' /\ Tx' = Tx /\ Its' = Its /\ dirPast'[Tx.key] = {dir[Tx.key]}
        /\ \A j \in Keys : dirPast'[j] \subseteq dirPast[j]
    BY <1>0, <1>1, <2>1, <2>3, SyncSafe DEF Steps
  <2>5. Directories'
    <3>1. \A j \in Keys : entry[j] = "absent" => dirPast'[j] = {NoFiles}
      BY <2>4, SMTT(30) DEF BucketInv, Directories, TypeOK, Sync
    <3>2. \A j \in Keys : entry[j] = "made" => Made(j)'
      BY <1>0, <2>1, Zenon DEF BucketInv, Directories, Made, Sync, Cleaning, Staging, Replacing, Published
    <3> QED BY <2>1, <3>1, <3>2 DEF Directories, Sync
  <2>6. Knows'
    <3>1. op.after = "return" => op.kind = "put" /\ Commits(Its, Tx) /\ Tx.key = op.key /\ Tx.value = op.value
      BY <1>0, Zenon DEF BucketInv, Knows, Returning, Cleaning
    <3>2. dirPast'[Tx.key] = {Its}
      BY <2>4 DEF Its
    <3> QED BY <1>0, <2>1, <2>2, <2>4, <3>1, <3>2, Zenon DEF Knows, Journalled, Publishing, Halfway, Undoing, Cleared,
        Returning, Deleting, Staging, Replacing, Published, RollingBack, Cleaning, rootVars
  <2> QED BY <2>4, <2>5, <2>6 DEF BucketInv
<1> QED BY <1>2, <1>3

LEMMA SettledReads ==
  ASSUME NEW f, NEW tx, tx.value \in Attributes, Settled(f, tx)
  PROVE  Outcome(f, tx) = Read(f)
<1>1. CASE Commits(f, tx)
  BY <1>1, ReadCommitted DEF Outcome
<1>2. CASE ~Commits(f, tx)
  <2>1. Rolled(f, tx).body = f.body /\ Rolled(f, tx).meta = f.meta
    BY <1>2, Zenon DEF Settled, NoBackup, Rolled
  <2>2. Read(Rolled(f, tx)) = Read(f)
    BY <2>1, ReadSame
  <2> QED BY <1>2, <2>2 DEF Outcome
<1> QED BY <1>1, <1>2

LEMMA DropJournalInv == ASSUME BucketInv, DropJournal PROVE BucketInv'
<1>0. /\ pc = "dropJournal" /\ pc' = "syncRoot" /\ op' = op /\ UNCHANGED <<dirVars, stageVars>>
      /\ journal' = {} /\ journalPast' = journalPast \cup {{}} /\ may' = [may EXCEPT ![Tx.key] = {Read(Its)}]
  BY DEF DropJournal, WriteJournal, Goto
<1>1. journal # {} /\ Settled(Its, Tx) /\ NoBackup(Its) /\ dirPast[Tx.key] = {Its}
  BY <1>0, Zenon DEF BucketInv, Knows, Journalled, Cleaning, Cleared
<1>2. Tx.key \in Keys /\ Tx.value \in Attributes /\ journal = {Tx} /\ journal \in journalPast
  BY <1>1, TheTransaction DEF BucketInv, TypeOK
<1>3. Outcome(Its, Tx) = Read(Its) /\ Read(Its) \in may[Tx.key]
  BY <1>1, <1>2, SettledReads, TxFacts, Zenon
<1>4. /\ may'[Tx.key] = {Read(Its)} /\ \A k \in Keys \ {Tx.key} : may'[k] = may[k]
      /\ may' \in [Keys -> SUBSET (Attributes \cup {NoFile})]
  BY <1>0, <1>2, <1>3, SMTT(30) DEF BucketInv, TypeOK
<1>5. TypeOK'
  BY <1>0, <1>4, ZenonT(30) DEF BucketInv, TypeOK, dirVars, stageVars, Steps
<1>6. Untouched'
  <2>1. \A k \in Keys \ {Tx.key} : \A f \in dirPast[k] : NoBackup(f) /\ Read(f) \in may[k]
    BY <1>2 DEF BucketInv, CrashSafe, Untouched
  <2>2. \A f \in dirPast[Tx.key] : NoBackup(f) /\ Read(f) \in may'[Tx.key]
    BY <1>1, <1>4
  <2> QED BY <1>0, <1>4, <2>1, <2>2, Zenon DEF Untouched, dirVars
<1>7. Harmless'
  <2>1. \A past \in journalPast : \A tx \in past : \A f \in dirPast[tx.key] : Outcome(f, tx) = Read(f)
    BY <1>1, <1>2, <1>3, ZenonT(30) DEF BucketInv, CrashSafe, Harmless
  <2> QED BY <1>0, <2>1, Zenon DEF Harmless, dirVars
<1>8. Recoverable'
  BY <1>0, ZenonT(30) DEF Recoverable
<1>9. Directories'
  <2>1. entry[Tx.key] = "made" => Read(Its) = NoFile
    BY <1>0, <1>1, TxFacts, ReadNothing, Zenon DEF Published
  <2>2. \A k \in Keys : entry[k] = "made" => NoFile \in may'[k]
    BY <1>4, <2>1, Zenon DEF BucketInv, Directories, Made
  <2> QED BY <1>0, <2>2, Zenon DEF BucketInv, Directories, Made, Cleaning, Staging, Replacing, Published, dirVars
<1>10. Knows'
  <2>1. op.after = "return" => op.kind = "put" /\ Read(dir[op.key]) = op.value
    BY <1>0, <1>2, ReadCommitted, Zenon DEF BucketInv, Knows, Returning, Cleaning, Its
  <2> QED BY <1>0, <2>1, Zenon DEF Knows, Journalled, Publishing, Halfway, Undoing, Cleared,
      Returning, Deleting, Staging, Replacing, Published, RollingBack, Cleaning, dirVars
<1> QED BY <1>5, <1>6, <1>7, <1>8, <1>9, <1>10 DEF BucketInv, CrashSafe

\* Only the present journal can survive.
LEMMA RootSafe ==
  ASSUME BucketInv, SyncRoot, UNCHANGED <<dirVars, stageVars, may, op>>, pc' \in Steps
  PROVE  TypeOK' /\ CrashSafe' /\ Tx' = Tx /\ Its' = Its
<1>1. journal' = journal /\ journalPast' = {journal} /\ journal \in journalPast /\ UNCHANGED <<dir, dirPast>>
  BY DEF SyncRoot, BucketInv, TypeOK, dirVars
<1>2. TypeOK'
  BY <1>1, SMTT(30) DEF BucketInv, TypeOK, dirVars, stageVars
<1>3. Untouched' /\ Harmless' /\ Recoverable'
  BY <1>1, Zenon DEF BucketInv, CrashSafe, Untouched, Harmless, Recoverable
<1> QED BY <1>1, <1>2, <1>3, SameTx, Zenon DEF CrashSafe, Its

LEMMA FinishRootInv == ASSUME BucketInv, FinishRoot PROVE BucketInv'
<1>0. /\ pc = "syncRoot" /\ pc' = op.after /\ SyncRoot /\ op' = op /\ UNCHANGED <<dirVars, stageVars, may>>
      /\ op.after \in {"reclaim", "return", "fail"}
  BY DEF FinishRoot, Goto, BucketInv, TypeOK, Operations
<1>1. TypeOK' /\ CrashSafe'
  <2>1. pc' \in Steps /\ UNCHANGED <<dirVars, stageVars, may, op>>
    BY <1>0 DEF Steps
  <2> QED BY <1>0, <2>1, RootSafe
<1>2. Directories'
  <2>1. UNCHANGED <<dir, dirPast, entry>>
    BY <1>0 DEF dirVars
  <2>2. ASSUME NEW k \in Keys, entry[k] = "made" PROVE Made(k)'
    <3>1. Made(k)
      BY <2>2 DEF BucketInv, Directories
    <3>2. pc' = "fail"
      BY <1>0, <3>1 DEF Made
    <3> QED BY <1>0, <2>1, <3>1, <3>2 DEF Made, Staging, Replacing, Published, RollingBack, Cleaning
  <2> QED BY <2>1, <2>2 DEF BucketInv, Directories
<1>3. Knows'
  <2>1. journal' = {} /\ dir' = dir
    BY <1>0 DEF BucketInv, Knows, Journalled, SyncRoot, dirVars
  <2>2. op.after = "return" => op.kind = "put" /\ Read(dir[op.key]) = op.value
    BY <1>0, ZenonT(30) DEF BucketInv, Knows, Returning
  <2> QED BY <1>0, <2>1, <2>2, Zenon DEF Knows, Journalled, Publishing, Halfway, Undoing, Cleared, Returning, Deleting,
      Staging, Replacing, Published, RollingBack, Cleaning
<1> QED BY <1>1, <1>2, <1>3 DEF BucketInv

LEMMA ReclaimInv == ASSUME BucketInv, Reclaim PROVE BucketInv'
<1>0. pc = "reclaim" /\ UNCHANGED <<rootVars, may>> /\ op \in Operations /\ journal = {} /\ op.after = "reclaim"
  BY Zenon DEF Reclaim, BucketInv, TypeOK, Knows, Journalled, Returning
<1>1. staging' \in stagingPast' /\ stagingPast' \subseteq FiniteNames
  <2>1. {} \in FiniteNames
    BY FS_EmptySet DEF FiniteNames
  <2>2. \/ UNCHANGED <<staging, stagingPast>>
        \/ staging' = {} /\ staging = {} /\ stagingPast' = stagingPast
        \/ staging' = {} /\ stagingPast' = {{}}
    BY DEF Reclaim, stageVars
  <2> QED BY <2>1, <2>2, Zenon DEF BucketInv, TypeOK
<1>2. CASE Unlock
  BY <1>0, <1>1, <1>2, UnlockInv
<1>3. CASE pc' = "work" /\ UNCHANGED <<dirVars, op>>
  <2>1. TypeOK' /\ CrashSafe'
    BY <1>0, <1>1, <1>3, QuietTypes, QuietSafe DEF BucketInv, dirVars, rootVars, Steps
  <2>2. Directories'
    BY <1>0, <1>3, Zenon DEF BucketInv, Directories, Made, dirVars
  <2>3. Knows'
    BY <1>0, <1>3, Zenon DEF Knows, Journalled, Publishing, Halfway, Undoing, Cleared, Returning, Deleting,
       Staging, Replacing, Published, RollingBack, Cleaning, rootVars
  <2> QED BY <2>1, <2>2, <2>3 DEF BucketInv
<1> QED BY <1>2, <1>3 DEF Reclaim, Goto

-----------------------------------------------------------------------------
(***************************************************************************)
(* Put.                                                                    *)
(***************************************************************************)
LEMMA EnsureDirectoriesInv == ASSUME BucketInv, EnsureDirectories PROVE BucketInv'
<1>0. /\ pc = "work" /\ pc' = "stageObject" /\ op.kind = "put" /\ op \in Operations /\ op.key \in Keys
      /\ op' = [op EXCEPT !.created = (entry[op.key] = "absent")]
      /\ UNCHANGED <<dir, dirPast, rootVars, stageVars, may>>
      /\ entry' = [entry EXCEPT ![op.key] = IF @ = "absent" THEN "made" ELSE @]
  BY DEF EnsureDirectories, Goto, BucketInv, TypeOK, Operations
<1>1. /\ op' \in Operations /\ op'.kind = "put" /\ op'.key = op.key /\ op'.after = op.after
      /\ entry[op.key] = "absent" => op'.created
  BY <1>0, Zenon DEF Operations
<1>2. /\ entry'[op.key] = IF entry[op.key] = "absent" THEN "made" ELSE entry[op.key]
      /\ \A k \in Keys \ {op.key} : entry'[k] = entry[k]
      /\ entry' \in [Keys -> {"absent", "made", "left", "durable"}]
  BY <1>0, SMTT(30) DEF BucketInv, TypeOK
<1>3. journal = {} /\ {} \in journalPast /\ op.after = "reclaim" /\ op.key \in Keys
  BY <1>0, ZenonT(60) DEF BucketInv, Knows, Journalled, Returning, TypeOK
<1>4. TypeOK' /\ CrashSafe'
  <2>1. TypeOK'
    BY <1>0, <1>1, <1>2 DEF BucketInv, TypeOK, rootVars, stageVars, Steps
  <2> QED BY <1>0, <2>1, QuietSafe DEF BucketInv, rootVars
<1>5. \A k \in Keys : entry[k] # "made"
  BY <1>0 DEF BucketInv, Directories, Made
<1>6. entry[op.key] = "absent" =>
        dir[op.key].body = NoFile /\ dir[op.key].bodyBackup = NoFile /\ NoFile \in may[op.key]
  <2>1. ASSUME entry[op.key] = "absent"
        PROVE  dir[op.key].body = NoFile /\ dir[op.key].bodyBackup = NoFile /\ NoFile \in may[op.key]
    <3>1. dir[op.key] = NoFiles /\ dir[op.key] \in dirPast[op.key]
      BY <1>3, <2>1 DEF BucketInv, Directories, TypeOK
    <3>2. dir[op.key].body = NoFile /\ dir[op.key].bodyBackup = NoFile
      BY <3>1, SMTT(30) DEF NoFiles
    <3>3. Read(dir[op.key]) \in may[op.key]
      BY <1>3, <3>1, Zenon DEF BucketInv, CrashSafe, Untouched
    <3> QED BY <3>2, <3>3, ReadNothing
  <2> QED BY <2>1
<1>7. Directories'
  <2>1. ASSUME NEW k \in Keys, entry'[k] = "absent" PROVE dirPast'[k] = {NoFiles}
    BY <1>0, <1>2, <2>1 DEF BucketInv, Directories
  <2>2. ASSUME NEW k \in Keys, entry'[k] = "made" PROVE Made(k)'
    <3>1. k = op.key /\ entry[op.key] = "absent"
      BY <1>2, <1>5, <2>2
    <3> QED BY <1>0, <1>1, <1>6, <3>1 DEF Made, RollingBack, Cleaning, Published
  <2> QED BY <2>1, <2>2 DEF Directories
<1>8. Knows'
  <2>1. entry'[op'.key] # "absent" /\ journal' = {}
    BY <1>0, <1>1, <1>2, <1>3 DEF rootVars
  <2> QED BY <1>0, <1>1, <1>3, <2>1 DEF Knows, Journalled, Publishing, Halfway, Undoing, Cleared, Returning, Deleting,
      Staging, Replacing, Published, RollingBack, Cleaning
<1> QED BY <1>4, <1>7, <1>8 DEF BucketInv

LEMMA StagingInv ==
  ASSUME BucketInv, pc \in {"stageObject", "stageMeta", "stageJournal"}, pc' \in Staging,
         UNCHANGED <<dirVars, rootVars, may>>, Stage(staging \cup {NewName}), op' \in Operations,
         op'.kind = op.kind, op'.key = op.key, op'.after = op.after, op'.created = op.created
  PROVE  BucketInv'
<1>1. staging' \in stagingPast' /\ stagingPast' \subseteq FiniteNames
  <2>1. stagingPast \subseteq FiniteNames /\ staging \in stagingPast
    BY DEF BucketInv, TypeOK
  <2>2. PICK n \in Nat : n = NewName
    BY <2>1, NewNameFree
  <2>3. Stage(staging \cup {n})
    BY <2>2
  <2> QED BY <2>1, <2>3, StageTypes
<1>2. TypeOK' /\ CrashSafe'
  BY <1>1, QuietTypes, QuietSafe, Zenon DEF BucketInv, dirVars, rootVars, Steps, Staging
<1>3. Directories'
  BY Zenon DEF BucketInv, Directories, Made, Staging, Replacing, Published, RollingBack, Cleaning, dirVars
<1>4. Knows'
  BY Zenon DEF BucketInv, Knows, Journalled, Publishing, Halfway, Undoing, Cleared, Returning, Deleting,
     Staging, Replacing, Published, RollingBack, Cleaning, rootVars, dirVars
<1> QED BY <1>2, <1>3, <1>4 DEF BucketInv

LEMMA StageStepsInv == ASSUME BucketInv, StageObject \/ StageAttributes \/ StageTransaction PROVE BucketInv'
<1>1. staging \in FiniteNames /\ op \in Operations
  BY DEF BucketInv, TypeOK
<1>2. PICK n \in Nat : n = NewName
  BY <1>1, NewNameFree
<1>3. CASE StageObject
  <2>1. op' = [op EXCEPT !.objectStage = n] /\ pc = "stageObject" /\ pc' = "stageMeta"
    BY <1>2, <1>3 DEF StageObject, Goto
  <2>2. op' \in Operations /\ op'.kind = op.kind /\ op'.key = op.key /\ op'.after = op.after /\ op'.created = op.created
    BY <1>1, <2>1 DEF Operations
  <2> QED BY <1>3, <2>1, <2>2, StagingInv DEF StageObject, Staging
<1>4. CASE StageAttributes
  <2>1. op' = [op EXCEPT !.metaStage = n] /\ pc = "stageMeta" /\ pc' = "stageJournal"
    BY <1>2, <1>4 DEF StageAttributes, Goto
  <2>2. op' \in Operations /\ op'.kind = op.kind /\ op'.key = op.key /\ op'.after = op.after /\ op'.created = op.created
    BY <1>1, <2>1 DEF Operations
  <2> QED BY <1>4, <2>1, <2>2, StagingInv DEF StageAttributes, Staging
<1>5. CASE StageTransaction
  BY <1>1, <1>5, StagingInv DEF StageTransaction, Staging, Goto
<1> QED BY <1>3, <1>4, <1>5

\* Without a journal every surviving file set is whole and possible.
LEMMA NoJournal ==
  ASSUME BucketInv, journal = {}, NEW k \in Keys, NEW f \in dirPast[k]
  PROVE  f \in Files /\ NoBackup(f) /\ Read(f) \in may[k] /\ Read(f) # Broken
<1>1. {} \in journalPast
  BY DEF BucketInv, TypeOK
<1>2. NoBackup(f) /\ Read(f) \in may[k]
  BY <1>1, Zenon DEF BucketInv, CrashSafe, Untouched
<1>3. f \in Files /\ Read(f) \in Attributes \cup {NoFile}
  BY <1>2 DEF BucketInv, TypeOK
<1> QED BY <1>2, <1>3, Distinct

\* A transaction that has only been announced rolls back to what was there.
LEMMA AnnouncedRolls ==
  ASSUME BucketInv, journal = {}, NEW k \in Keys, NEW f \in dirPast[k],
         NEW tx, tx.value \in Attributes, tx.hadBody <=> dir[k].body # NoFile, ~Commits(f, tx)
  PROVE  Read(Rolled(f, tx)) \in may[k]
<1>1. f \in Files /\ NoBackup(f) /\ Read(f) \in may[k] /\ Read(f) # Broken
  BY NoJournal, ZenonT(30)
<1>2. dir[k] \in dirPast[k]
  BY Zenon DEF BucketInv, TypeOK
<1>3. Read(dir[k]) \in may[k]
  BY <1>2, NoJournal, Zenon
<1>4. CASE Rolled(f, tx).body = NoFile
  <2>1. f.body = NoFile \/ dir[k].body = NoFile
    BY <1>1, <1>4, Zenon DEF Rolled, NoBackup
  <2>2. NoFile \in may[k]
    BY <1>1, <1>3, <2>1, ReadNothing
  <2> QED BY <1>4, <2>2, ReadNothing
<1>5. CASE Rolled(f, tx).body # NoFile
  <2>1. Rolled(f, tx).body = f.body /\ f.body # NoFile
    BY <1>1, <1>5, Zenon DEF Rolled, NoBackup
  <2>2. f.meta # tx.value
    <3>1. ASSUME f.meta = tx.value PROVE FALSE
      <4>1. f.meta # NoFile
        BY <3>1, Distinct
      <4>2. f.body = Body(f.meta)
        BY <1>1, <2>1, <4>1, MetaMatches, Zenon
      <4> QED BY <3>1, <4>2 DEF Commits
    <3> QED BY <3>1
  <2>3. Rolled(f, tx).meta = f.meta
    BY <1>1, <2>2, Zenon DEF Rolled, NoBackup
  <2>4. Read(Rolled(f, tx)) = Read(f)
    BY <2>1, <2>3, ReadSame, Zenon
  <2> QED BY <1>1, <2>4, Zenon
<1> QED BY <1>4, <1>5, Zenon

LEMMA PublishTransactionInv == ASSUME BucketInv, PublishTransaction PROVE BucketInv'
<1>0. /\ pc = "journal" /\ pc' = "journalSync" /\ op' = op /\ UNCHANGED dirVars
      /\ journal' = {NewTransaction} /\ journalPast' = journalPast \cup {{NewTransaction}}
      /\ Stage({op.objectStage, op.metaStage}) /\ may' = [may EXCEPT ![op.key] = @ \cup {op.value}]
  BY DEF PublishTransaction, WriteJournal, Goto
<1>1. op \in Operations /\ op.key \in Keys /\ op.value \in Attributes /\ op.objectStage \in Nat /\ op.metaStage \in Nat
  BY Zenon DEF BucketInv, TypeOK, Operations
<1>2. journal = {} /\ {} \in journalPast /\ op.kind = "put" /\ entry[op.key] # "absent" /\ op.after = "reclaim"
  BY <1>0, ZenonT(60) DEF BucketInv, TypeOK, Knows, Journalled, Publishing, Returning, Staging
<1>3. PICK t : t = NewTransaction
  OBVIOUS
<1>4. /\ t \in Transactions /\ t.key = op.key /\ t.value = op.value
      /\ t.hadBody = (dir[op.key].body # NoFile) /\ t.hadMeta = (dir[op.key].meta # NoFile)
  BY <1>1, <1>3, Zenon DEF NewTransaction, Transactions
<1>5. /\ journal' = {t} /\ Tx' = t /\ Its' = dir[op.key]
  <2>1. journal' = {t} /\ Tx' = t
    BY <1>0, <1>3 DEF Tx
  <2> QED BY <1>0, <1>4, <2>1, Zenon DEF Its, dirVars
<1>6. /\ may' \in [Keys -> SUBSET (Attributes \cup {NoFile})] /\ op.value \in may'[op.key]
      /\ \A k \in Keys : may[k] \subseteq may'[k]
  BY <1>0, <1>1, SMTT(30) DEF BucketInv, TypeOK
<1>7. TypeOK'
  <2>1. staging' \in stagingPast' /\ stagingPast' \subseteq FiniteNames
    BY <1>0, <1>1, StageTypes, SMTT(30) DEF BucketInv, TypeOK
  <2>2. journal' \in journalPast' /\ journalPast' \subseteq SUBSET Transactions
    BY <1>0, <1>3, <1>4, SMTT(30) DEF BucketInv, TypeOK
  <2>3. \A past \in journalPast' : \A x, y \in past : x = y
    BY <1>0, Zenon DEF BucketInv, TypeOK
  <2> QED BY <1>0, <1>1, <1>6, <2>1, <2>2, <2>3, Zenon DEF BucketInv, TypeOK, dirVars, Steps
<1>8. \A k \in Keys : \A f \in dirPast[k] : NoBackup(f) /\ Read(f) \in may[k]
  BY <1>2, NoJournal
<1>9. Untouched' /\ Harmless'
  <2>1. Untouched'
    BY <1>0, <1>6, <1>8, Zenon DEF Untouched, dirVars
  <2>2. Harmless'
    BY <1>0, <1>2, Zenon DEF BucketInv, CrashSafe, Harmless, dirVars
  <2> QED BY <2>1, <2>2
<1>10. \A f \in dirPast[op.key] : ~Commits(f, t) => Read(Rolled(f, t)) \in may[op.key]
  BY <1>1, <1>2, <1>4, AnnouncedRolls, Zenon
<1>11. Recoverable'
  <2>1. ASSUME NEW f \in dirPast[op.key] PROVE Outcome(f, t) \in may'[op.key]
    BY <1>1, <1>4, <1>6, <1>10, Zenon DEF Outcome
  <2> QED BY <1>0, <1>1, <1>4, <1>5, <1>8, <2>1, Zenon DEF Recoverable, NoBackup, dirVars
<1>12. Directories'
  BY <1>0, <1>6, Zenon DEF BucketInv, Directories, Made, Staging, Replacing, Published, RollingBack, Cleaning, dirVars
<1>13. Knows'
  <2>1. dir[op.key] \in dirPast[op.key]
    BY <1>1 DEF BucketInv, TypeOK
  <2>2. NoBackup(dir[op.key])
    BY <1>1, <1>8, <2>1
  <2>3. Read(Rolled(dir[op.key], t)) \in may'[op.key]
    <3>1. Rolled(dir[op.key], t).body = dir[op.key].body /\ Rolled(dir[op.key], t).meta = dir[op.key].meta
      BY <1>1, <1>4, <2>2, Distinct, Zenon DEF Rolled, NoBackup
    <3>2. Read(Rolled(dir[op.key], t)) = Read(dir[op.key])
      BY <3>1, ReadSame
    <3> QED BY <1>1, <1>6, <1>8, <2>1, <3>2, ZenonT(30)
  <2>4. entry'[op.key] # "absent"
    BY <1>0, <1>2 DEF dirVars
  <2> QED BY <1>0, <1>2, <1>4, <1>5, <1>6, <2>2, <2>3, <2>4, Zenon DEF Knows, Journalled, Publishing, Halfway, Undoing, Cleared,
      Returning, Deleting, Staging, Replacing, Published, RollingBack, Cleaning
<1> QED BY <1>7, <1>9, <1>11, <1>12, <1>13 DEF BucketInv, CrashSafe

LEMMA SyncJournalInv == ASSUME BucketInv, SyncJournal PROVE BucketInv'
<1>0. /\ pc = "journalSync" /\ pc' = "backupMeta" /\ SyncRoot /\ op' = op /\ UNCHANGED <<dirVars, stageVars, may>>
  BY DEF SyncJournal, Goto
<1>1. TypeOK' /\ CrashSafe' /\ Tx' = Tx /\ Its' = Its
  <2>1. pc' \in Steps /\ UNCHANGED <<dirVars, stageVars, may, op>>
    BY <1>0 DEF Steps
  <2> QED BY <1>0, <2>1, RootSafe
<1>2. Directories'
  BY <1>0, Zenon DEF BucketInv, Directories, Made, Staging, Replacing, Published, RollingBack, Cleaning, dirVars
<1>3. Knows'
  <2>1. journal' = journal /\ journalPast' = {journal} /\ entry' = entry
    BY <1>0 DEF SyncRoot, dirVars
  <2> QED BY <1>0, <1>1, <2>1, Zenon DEF BucketInv, Knows, Journalled, Publishing, Halfway, Undoing, Cleared, Returning, Deleting,
      Staging, Replacing, Published, RollingBack, Cleaning
<1> QED BY <1>1, <1>2, <1>3 DEF BucketInv

\* One of the four renames that replace an object.
LEMMA ReplaceStep ==
  ASSUME BucketInv, pc \in Replacing \ {"journalSync"}, pc' \in (Replacing \ {"journalSync"}) \cup {"publishSync"},
         NEW f \in Files, Change(Tx.key, f), UNCHANGED <<rootVars, may, op>>,
         staging' \in stagingPast', stagingPast' \subseteq FiniteNames,
         f.bodyBackup # NoFile => Tx.hadBody,
         f.metaBackup # NoFile => Tx.hadMeta,
         IF pc' = "publishSync" THEN Commits(f, Tx)
         ELSE /\ Read(Rolled(f, Tx)) = Read(Rolled(Its, Tx))
              /\ Its.body = NoFile /\ Its.bodyBackup = NoFile => f.body = NoFile /\ f.bodyBackup = NoFile
  PROVE  /\ TypeOK' /\ CrashSafe' /\ Directories' /\ Tx' = Tx /\ Its' = f
         /\ Journalled' /\ Publishing' /\ Undoing' /\ Cleared' /\ Returning' /\ Deleting'
         /\ pc' # "publishSync" => Read(Rolled(f, Tx)) \in may'[Tx.key]
<1>1. /\ journal # {} /\ journalPast = {journal} /\ op.kind = "put" /\ Tx.key = op.key /\ Tx.value = op.value
      /\ Tx.value \in may[Tx.key] /\ entry[Tx.key] # "absent" /\ Read(Rolled(Its, Tx)) \in may[Tx.key]
      /\ op.after = "reclaim"
  BY Zenon DEF BucketInv, Knows, Journalled, Publishing, Halfway, Returning
<1>2. Tx.key \in Keys /\ Tx.value \in Attributes
  BY <1>1, TheTransaction, Zenon DEF BucketInv
<1>3. Outcome(f, Tx) \in may[Tx.key]
  BY <1>1, Zenon DEF Outcome
<1>4. TypeOK' /\ CrashSafe' /\ Tx' = Tx /\ Its' = f
  <2>1. pc' \in Steps /\ op' \in Operations
    BY Zenon DEF Steps, Replacing, BucketInv, TypeOK
  <2>2. {} \notin journalPast /\ journalPast \ {journal} = {}
    BY <1>1, Zenon
  <2> QED BY <1>1, <1>3, <2>1, <2>2, TxChange, Zenon
<1>5. /\ entry' = entry /\ dir'[Tx.key] = f
      /\ \A j \in Keys \ {Tx.key} : dir'[j] = dir[j] /\ dirPast'[j] = dirPast[j]
  BY <1>2, ChangeTypes, Zenon DEF BucketInv
<1>6. Directories'
  <2>1. ASSUME NEW j \in Keys, entry[j] = "absent" PROVE dirPast'[j] = {NoFiles}
    BY <1>1, <1>5, <2>1, Zenon DEF BucketInv, Directories
  <2>2. ASSUME NEW j \in Keys, entry[j] = "made" PROVE Made(j)'
    <3>1. Made(j) /\ j = Tx.key
      BY <1>1, <2>2, Zenon DEF BucketInv, Directories, Made
    <3>2. op.created /\ dir[j].body = NoFile /\ dir[j].bodyBackup = NoFile
      BY <3>1, Zenon DEF Made, Replacing, Published
    <3>3. pc' # "publishSync" => dir'[j].body = NoFile /\ dir'[j].bodyBackup = NoFile
      BY <1>5, <3>1, <3>2, Zenon DEF Its
    <3> QED BY <3>1, <3>2, <3>3, Zenon DEF Made, Staging, Replacing, Published, RollingBack, Cleaning
  <2> QED BY <1>5, <2>1, <2>2, Zenon DEF Directories
<1>7. Journalled' /\ Publishing' /\ Undoing' /\ Cleared' /\ Returning' /\ Deleting'
  BY <1>1, <1>4, <1>5, Zenon DEF Journalled, Publishing, Undoing, Cleared, Returning, Deleting, Staging, Replacing, Published,
     RollingBack, Cleaning, rootVars
<1> QED BY <1>1, <1>4, <1>6, <1>7, Zenon

LEMMA ReplaceInv ==
  ASSUME BucketInv, BackupMeta \/ InstallMeta \/ BackupBody \/ InstallBody
  PROVE  BucketInv'
<1> USE DEF Goto
<1>0. /\ pc \in Replacing \ {"journalSync"} /\ UNCHANGED <<rootVars, may, op>>
      /\ pc' \in (Replacing \ {"journalSync"}) \cup {"publishSync"}
  BY DEF BackupMeta, InstallMeta, BackupBody, InstallBody, Replacing
<1>1. journal # {} /\ Tx.key \in Keys /\ Tx.value \in Attributes /\ Its \in Files
  BY <1>0, TheTransaction, Zenon DEF BucketInv, Knows, Journalled
<1>2. staging' \in stagingPast' /\ stagingPast' \subseteq FiniteNames
  <2>1. staging \in stagingPast /\ stagingPast \subseteq FiniteNames
    BY DEF BucketInv, TypeOK
  <2>2. UNCHANGED stageVars \/ \E names : names \subseteq staging /\ Stage(names)
    BY DEF BackupMeta, InstallMeta, BackupBody, InstallBody
  <2>3. CASE UNCHANGED stageVars
    BY <2>1, <2>3 DEF stageVars
  <2>4. CASE \E names : names \subseteq staging /\ Stage(names)
    <3>1. PICK names : names \subseteq staging /\ Stage(names)
      BY <2>4
    <3>2. names \subseteq staging \cup {0}
      BY <3>1
    <3> QED BY <2>1, <3>1, <3>2, StageTypes
  <2> QED BY <2>2, <2>3, <2>4
<1>3. CASE BackupMeta
  <2>1. pc = "backupMeta" /\ pc' = "installMeta"
    BY <1>3 DEF BackupMeta
  <2>2. PICK f : f = [Its EXCEPT !.meta = NoFile, !.metaBackup = Its.meta]
    OBVIOUS
  <2>3. /\ f \in Files /\ f.body = Its.body /\ f.bodyBackup = Its.bodyBackup
        /\ f.meta = NoFile /\ f.metaBackup = Its.meta
    BY <1>1, <2>2, FileTypes, Zenon DEF Files
  <2>4. NoBackup(Its) /\ Tx.hadBody = (Its.body # NoFile) /\ Tx.hadMeta = (Its.meta # NoFile)
    BY <2>1, Zenon DEF BucketInv, Knows, Halfway
  <2>5. Rolled(f, Tx).body = Rolled(Its, Tx).body /\ Rolled(f, Tx).meta = Rolled(Its, Tx).meta
    BY <1>1, <2>3, <2>4, Distinct, Zenon DEF Rolled, NoBackup
  <2>6. Read(Rolled(f, Tx)) = Read(Rolled(Its, Tx))
    BY <2>5, ReadSame
  <2>7. Change(Tx.key, f)
    BY <1>3, <2>2 DEF BackupMeta
  <2>8. /\ TypeOK' /\ CrashSafe' /\ Directories' /\ Tx' = Tx /\ Its' = f
        /\ Journalled' /\ Publishing' /\ Undoing' /\ Cleared' /\ Returning' /\ Deleting'
        /\ Read(Rolled(f, Tx)) \in may'[Tx.key]
    BY <1>0, <1>2, <2>1, <2>3, <2>4, <2>6, <2>7, ReplaceStep, Zenon DEF NoBackup
  <2>9. Halfway'
    BY <2>1, <2>3, <2>4, <2>8, Zenon DEF Halfway, NoBackup, Replacing, Published, RollingBack
  <2> QED BY <2>8, <2>9, Zenon DEF BucketInv, Knows
<1>4. CASE InstallMeta
  <2>1. pc = "installMeta" /\ pc' = "backupBody"
    BY <1>4 DEF InstallMeta
  <2>2. PICK f : f = [Its EXCEPT !.meta = Tx.value]
    BY Zenon
  <2>3. /\ f \in Files /\ f.body = Its.body /\ f.bodyBackup = Its.bodyBackup
        /\ f.meta = Tx.value /\ f.metaBackup = Its.metaBackup
    BY <1>1, <2>2, FileTypes, Zenon DEF Files
  <2>4. /\ Its.bodyBackup = NoFile /\ Tx.hadBody = (Its.body # NoFile) /\ Tx.hadMeta = (Its.metaBackup # NoFile)
        /\ Its.meta = NoFile
    BY <2>1, Zenon DEF BucketInv, Knows, Halfway
  <2>5. Rolled(f, Tx).body = Rolled(Its, Tx).body /\ Rolled(f, Tx).meta = Rolled(Its, Tx).meta
    BY <1>1, <2>3, <2>4, Distinct, Zenon DEF Rolled
  <2>6. Read(Rolled(f, Tx)) = Read(Rolled(Its, Tx))
    BY <2>5, ReadSame
  <2>7. Change(Tx.key, f)
    BY <1>4, <2>2 DEF InstallMeta
  <2>8. /\ TypeOK' /\ CrashSafe' /\ Directories' /\ Tx' = Tx /\ Its' = f
        /\ Journalled' /\ Publishing' /\ Undoing' /\ Cleared' /\ Returning' /\ Deleting'
        /\ Read(Rolled(f, Tx)) \in may'[Tx.key]
    BY <1>0, <1>2, <2>1, <2>3, <2>4, <2>6, <2>7, ReplaceStep, Zenon
  <2>9. Halfway'
    BY <2>1, <2>3, <2>4, <2>8, Zenon DEF Halfway, Replacing, Published, RollingBack
  <2> QED BY <2>8, <2>9 DEF BucketInv, Knows
<1>5. CASE BackupBody
  <2>1. pc = "backupBody" /\ pc' = "installBody"
    BY <1>5 DEF BackupBody
  <2>2. PICK f : f = [Its EXCEPT !.body = NoFile, !.bodyBackup = Its.body]
    OBVIOUS
  <2>3. /\ f \in Files /\ f.body = NoFile /\ f.bodyBackup = Its.body
        /\ f.meta = Its.meta /\ f.metaBackup = Its.metaBackup
    BY <1>1, <2>2, FileTypes, Zenon DEF Files
  <2>4. /\ Its.bodyBackup = NoFile /\ Tx.hadBody = (Its.body # NoFile) /\ Tx.hadMeta = (Its.metaBackup # NoFile)
        /\ Its.meta = Tx.value
    BY <2>1, Zenon DEF BucketInv, Knows, Halfway
  <2>5. Rolled(f, Tx).body = Rolled(Its, Tx).body /\ Rolled(f, Tx).meta = Rolled(Its, Tx).meta
    BY <1>1, <2>3, <2>4, Distinct, Zenon DEF Rolled
  <2>6. Read(Rolled(f, Tx)) = Read(Rolled(Its, Tx))
    BY <2>5, ReadSame
  <2>7. Change(Tx.key, f)
    BY <1>5, <2>2 DEF BackupBody
  <2>8. /\ TypeOK' /\ CrashSafe' /\ Directories' /\ Tx' = Tx /\ Its' = f
        /\ Journalled' /\ Publishing' /\ Undoing' /\ Cleared' /\ Returning' /\ Deleting'
        /\ Read(Rolled(f, Tx)) \in may'[Tx.key]
    BY <1>0, <1>2, <2>1, <2>3, <2>4, <2>6, <2>7, ReplaceStep, Zenon
  <2>9. Halfway'
    BY <2>1, <2>3, <2>4, <2>8, Zenon DEF Halfway, Replacing, Published, RollingBack
  <2> QED BY <2>8, <2>9 DEF BucketInv, Knows
<1>6. CASE InstallBody
  <2>1. pc = "installBody" /\ pc' = "publishSync"
    BY <1>6 DEF InstallBody
  <2>2. PICK f : f = [Its EXCEPT !.body = Body(Tx.value)]
    BY Zenon
  <2>3. /\ f \in Files /\ f.body = Body(Tx.value) /\ f.bodyBackup = Its.bodyBackup
        /\ f.meta = Its.meta /\ f.metaBackup = Its.metaBackup
    BY <1>1, <2>2, FileTypes, Zenon DEF Files
  <2>4. /\ Tx.hadBody = (Its.bodyBackup # NoFile) /\ Tx.hadMeta = (Its.metaBackup # NoFile)
        /\ Its.meta = Tx.value
    BY <2>1, Zenon DEF BucketInv, Knows, Halfway
  <2>5. Commits(f, Tx)
    BY <2>3, <2>4, Zenon DEF Commits
  <2>6. Change(Tx.key, f)
    BY <1>6, <2>2 DEF InstallBody
  <2>7. /\ TypeOK' /\ CrashSafe' /\ Directories' /\ Tx' = Tx /\ Its' = f
        /\ Journalled' /\ Publishing' /\ Undoing' /\ Cleared' /\ Returning' /\ Deleting'
    BY <1>0, <1>2, <2>1, <2>3, <2>4, <2>5, <2>6, ReplaceStep, Zenon
  <2>8. Halfway'
    BY <2>1, <2>3, <2>5, <2>7, Zenon DEF Halfway, Committed, Commits, Replacing, Published, RollingBack
  <2> QED BY <2>7, <2>8 DEF BucketInv, Knows
<1> QED BY <1>3, <1>4, <1>5, <1>6

LEMMA PublishFailsInv == ASSUME BucketInv, PublishFails PROVE BucketInv'
<1>0. /\ pc \in Replacing /\ pc' = "recover" /\ UNCHANGED <<dirVars, rootVars, stageVars, may>>
      /\ op' = [op EXCEPT !.after = "fail"] /\ op \in Operations
  BY DEF PublishFails, Goto, Replacing, BucketInv, TypeOK
<1>1. op' \in Operations /\ op'.kind = op.kind /\ op'.key = op.key /\ op'.after = "fail"
  BY <1>0 DEF Operations
<1>2. TypeOK' /\ CrashSafe'
  <2>1. staging' \in stagingPast' /\ stagingPast' \subseteq FiniteNames
    BY <1>0 DEF BucketInv, TypeOK, stageVars
  <2> QED BY <1>0, <1>1, <2>1, QuietTypes, QuietSafe DEF BucketInv, dirVars, rootVars, Steps
<1>3. Directories'
  BY <1>0, <1>1 DEF BucketInv, Directories, Made, Staging, Replacing, Published, RollingBack, Cleaning, dirVars
<1>4. Knows'
  <2>1. journal' # {}
    BY <1>0 DEF BucketInv, Knows, Journalled, rootVars
  <2> QED BY <1>0, <1>1, <2>1 DEF Knows, Journalled, Publishing, Halfway, Undoing, Cleared, Returning, Deleting,
      Staging, Replacing, Published, RollingBack, Cleaning
<1> QED BY <1>2, <1>3, <1>4 DEF BucketInv

LEMMA SyncPublishedInv == ASSUME BucketInv, SyncPublished PROVE BucketInv'
<1>0. /\ pc = "publishSync" /\ Sync(op.key) /\ UNCHANGED <<rootVars, stageVars, may>>
      /\ pc' = IF op.created THEN "ancestorSync" ELSE "cleanStages"
      /\ op' = [op EXCEPT !.after = "return"] /\ op \in Operations
  BY DEF SyncPublished, Goto, BucketInv, TypeOK
<1>1. /\ op' \in Operations /\ op'.kind = op.kind /\ op'.key = op.key /\ op'.value = op.value
      /\ op'.after = "return" /\ op'.created = op.created /\ op.key \in Keys
  BY <1>0 DEF Operations
<1>2. /\ journal # {} /\ op.kind = "put" /\ Tx.key = op.key /\ Tx.value = op.value /\ Tx.value \in may[op.key]
      /\ entry[op.key] # "absent" /\ Committed /\ journalPast = {journal}
  BY <1>0 DEF BucketInv, Knows, Journalled, Publishing, Halfway, Published
<1>3. TypeOK' /\ CrashSafe' /\ Tx' = Tx /\ Its' = Its /\ \A j \in Keys : dirPast'[j] \subseteq dirPast[j]
  <2>1. staging' \in stagingPast' /\ stagingPast' \subseteq FiniteNames /\ pc' \in Steps
    BY <1>0 DEF BucketInv, TypeOK, stageVars, Steps
  <2> QED BY <1>0, <1>1, <2>1, SyncSafe
<1>4. Directories'
  <2>1. ASSUME NEW j \in Keys, entry[j] = "absent" PROVE dirPast'[j] = {NoFiles}
    BY <1>0, <1>2, <2>1, SMTT(30) DEF BucketInv, Directories, TypeOK, Sync
  <2>2. ASSUME NEW j \in Keys, entry[j] = "made" PROVE Made(j)'
    <3>1. Made(j) /\ op.created
      BY <1>0, <2>2 DEF BucketInv, Directories, Made, Published
    <3> QED BY <1>0, <1>1, <3>1 DEF Made, Staging, Replacing, Published, RollingBack, Cleaning
  <2> QED BY <1>0, <2>1, <2>2 DEF Directories, Sync
<1>5. Knows'
  <2>1. entry' = entry /\ UNCHANGED rootVars
    BY <1>0 DEF Sync
  <2> QED BY <1>0, <1>1, <1>2, <1>3, <2>1 DEF Knows, Journalled, Publishing, Halfway, Undoing, Cleared, Returning, Deleting,
      Staging, Replacing, Published, RollingBack, Cleaning, Committed, Commits, Settled, rootVars
<1> QED BY <1>3, <1>4, <1>5 DEF BucketInv

LEMMA SyncAncestorsInv == ASSUME BucketInv, SyncAncestors PROVE BucketInv'
<1>0. /\ pc = "ancestorSync" /\ pc' = "cleanStages" /\ op' = op /\ entry' = [entry EXCEPT ![op.key] = "durable"]
      /\ UNCHANGED <<dir, dirPast, rootVars, stageVars, may>> /\ op.key \in Keys
  BY Zenon DEF SyncAncestors, Goto, BucketInv, TypeOK, Operations
<1>1. /\ journal # {} /\ op.kind = "put" /\ Tx.key = op.key /\ Tx.value = op.value /\ Committed
  BY <1>0, Zenon DEF BucketInv, Knows, Journalled, Publishing, Halfway, Published
<1>2. /\ entry' \in [Keys -> {"absent", "made", "left", "durable"}] /\ entry'[op.key] = "durable"
      /\ \A j \in Keys \ {op.key} : entry'[j] = entry[j]
  BY <1>0, SMTT(30) DEF BucketInv, TypeOK
<1>3. TypeOK' /\ CrashSafe' /\ Tx' = Tx /\ Its' = Its
  <2>1. TypeOK'
    BY <1>0, <1>2, Zenon DEF BucketInv, TypeOK, rootVars, stageVars, Steps
  <2> QED BY <1>0, <2>1, QuietSafe, SameTx DEF BucketInv, rootVars, Its
<1>4. Directories'
  BY <1>0, <1>2, Zenon DEF BucketInv, Directories, Made
<1>5. Knows'
  BY <1>0, <1>1, <1>3, Zenon DEF Knows, Journalled, Publishing, Halfway, Undoing, Cleared, Returning, Deleting,
      Staging, Replacing, Published, RollingBack, Cleaning, Committed, Commits, Settled, rootVars
<1> QED BY <1>3, <1>4, <1>5 DEF BucketInv

-----------------------------------------------------------------------------
(***************************************************************************)
(* Delete.                                                                 *)
(***************************************************************************)
LEMMA DeleteStep ==
  ASSUME BucketInv, pc \in {"work", "deleteMeta"}, op.kind = "delete", pc' \in {"deleteMeta", "deleteSync", "return", "fail"},
         op' \in Operations, op'.kind = op.kind, op'.key = op.key, op'.after = op.after,
         NEW f \in Files, Change(op.key, f), UNCHANGED <<rootVars, stageVars>>, f.body = NoFile, NoBackup(f),
         entry[op.key] = "absent" => f = NoFiles,
         may' \in [Keys -> SUBSET (Attributes \cup {NoFile})], \A j \in Keys : may[j] \subseteq may'[j],
         NoFile \in may'[op.key]
  PROVE  BucketInv'
<1>1. journal = {} /\ op.key \in Keys /\ op.after # "return"
  BY Zenon DEF BucketInv, Knows, Journalled, Returning, TypeOK, Operations
<1>2. /\ entry' = entry /\ dir'[op.key] = f /\ dirPast'[op.key] = dirPast[op.key] \cup {f}
      /\ \A j \in Keys \ {op.key} : dir'[j] = dir[j] /\ dirPast'[j] = dirPast[j]
  BY <1>1, ChangeTypes, Zenon DEF BucketInv
<1>3. TypeOK'
  BY <1>1, ChangeTypes, Zenon DEF BucketInv, TypeOK, rootVars, stageVars, Steps
<1>4. \A j \in Keys : \A g \in dirPast'[j] : g \in dirPast[j] \/ (j = op.key /\ g = f)
  BY <1>2, Zenon
<1>5. Untouched'
  <2>1. Read(f) \in may'[op.key]
    BY ReadNothing, Zenon
  <2>2. \A j \in Keys : \A g \in dirPast[j] : NoBackup(g) /\ Read(g) \in may'[j]
    BY <1>1, NoJournal, Zenon
  <2> QED BY <1>4, <2>1, <2>2, Zenon DEF Untouched, rootVars
<1>6. Harmless'
  <2>1. \A past \in journalPast : \A tx \in past : tx.key \in Keys /\ tx.value \in Attributes
    BY SMTT(30) DEF BucketInv, TypeOK, Transactions
  <2>2. \A past \in journalPast : \A tx \in past : Outcome(f, tx) = Read(f)
    BY <2>1, NothingLeft, Zenon DEF NoBackup
  <2> QED BY <1>4, <2>1, <2>2, Zenon DEF BucketInv, CrashSafe, Harmless, rootVars
<1>7. Recoverable'
  BY <1>1, Zenon DEF Recoverable, rootVars
<1>8. Directories'
  BY <1>2, Zenon DEF BucketInv, Directories, Made
<1>9. Knows'
  BY <1>1, <1>2, Zenon DEF Knows, Journalled, Publishing, Halfway, Undoing, Cleared, Returning, Deleting,
     Staging, Replacing, Published, RollingBack, Cleaning, rootVars
<1> QED BY <1>3, <1>5, <1>6, <1>7, <1>8, <1>9, Zenon DEF BucketInv, CrashSafe

\* The files of the object an operation without a journal works on.
LEMMA OpFiles ==
  ASSUME BucketInv, journal = {}
  PROVE  /\ op.key \in Keys /\ dir[op.key] \in Files /\ dir[op.key] \in dirPast[op.key] /\ NoBackup(dir[op.key])
         /\ entry[op.key] = "absent" => dir[op.key] = NoFiles
<1>1. op.key \in Keys
  BY DEF BucketInv, TypeOK, Operations
<1>2. dir[op.key] \in dirPast[op.key]
  BY <1>1 DEF BucketInv, TypeOK
<1> QED BY <1>1, <1>2, NoJournal, Zenon DEF BucketInv, Directories

LEMMA DeleteBodyInv == ASSUME BucketInv, DeleteBody PROVE BucketInv'
<1>0. /\ pc = "work" /\ op.kind = "delete" /\ pc' = "deleteMeta" /\ UNCHANGED <<rootVars, stageVars>>
      /\ Change(op.key, [dir[op.key] EXCEPT !.body = NoFile])
      /\ op' = [op EXCEPT !.removed = dir[op.key].body # NoFile] /\ op \in Operations
      /\ may' = [may EXCEPT ![op.key] = @ \cup {NoFile}]
  BY DEF DeleteBody, Goto, BucketInv, TypeOK
<1>1. journal = {}
  BY <1>0 DEF BucketInv, Knows, Journalled
<1>2. PICK f : f = [dir[op.key] EXCEPT !.body = NoFile]
  BY Zenon
<1>3. f \in Files /\ f.body = NoFile /\ NoBackup(f) /\ (entry[op.key] = "absent" => f = NoFiles)
  <2>1. [NoFiles EXCEPT !.body = NoFile] = NoFiles
    BY SMTT(30) DEF NoFiles
  <2>2. f \in Files /\ f.body = NoFile /\ f.bodyBackup = dir[op.key].bodyBackup /\ f.metaBackup = dir[op.key].metaBackup
    BY <1>1, <1>2, OpFiles DEF Files
  <2> QED BY <1>1, <1>2, <2>1, <2>2, OpFiles DEF NoBackup
<1>4. op' \in Operations /\ op'.kind = op.kind /\ op'.key = op.key /\ op'.after = op.after
  BY <1>0, Zenon DEF Operations
<1>5. /\ may' \in [Keys -> SUBSET (Attributes \cup {NoFile})] /\ \A j \in Keys : may[j] \subseteq may'[j]
      /\ NoFile \in may'[op.key]
  BY <1>0, <1>1, OpFiles, SMTT(30) DEF BucketInv, TypeOK
<1> QED BY <1>0, <1>2, <1>3, <1>4, <1>5, DeleteStep, Zenon

LEMMA DeleteMetaInv == ASSUME BucketInv, DeleteMeta PROVE BucketInv'
<1>0. /\ pc = "deleteMeta" /\ UNCHANGED <<rootVars, stageVars, may>> /\ op \in Operations
      /\ pc' \in {"deleteSync", "return", "fail"}
  BY DEF DeleteMeta, Goto, BucketInv, TypeOK
<1>1. journal = {} /\ op.kind = "delete" /\ dir[op.key].body = NoFile /\ NoFile \in may[op.key]
  BY <1>0 DEF BucketInv, Knows, Journalled, Deleting
<1>2. may' \in [Keys -> SUBSET (Attributes \cup {NoFile})] /\ may' = may
  BY <1>0 DEF BucketInv, TypeOK
<1>3. CASE /\ Change(op.key, [dir[op.key] EXCEPT !.meta = NoFile])
           /\ op' = [op EXCEPT !.removed = @ \/ dir[op.key].meta # NoFile]
  <2>1. PICK f : f = [dir[op.key] EXCEPT !.meta = NoFile]
    BY Zenon
  <2>2. f \in Files /\ f.body = NoFile /\ NoBackup(f) /\ (entry[op.key] = "absent" => f = NoFiles)
    <3>1. [NoFiles EXCEPT !.meta = NoFile] = NoFiles
      BY SMTT(30) DEF NoFiles
    <3>2. /\ f \in Files /\ f.body = dir[op.key].body
          /\ f.bodyBackup = dir[op.key].bodyBackup /\ f.metaBackup = dir[op.key].metaBackup
      BY <1>1, <2>1, OpFiles DEF Files
    <3> QED BY <1>1, <2>1, <3>1, <3>2, OpFiles DEF NoBackup
  <2>3. op' \in Operations /\ op'.kind = op.kind /\ op'.key = op.key /\ op'.after = op.after
    BY <1>0, <1>3, Zenon DEF Operations
  <2> QED BY <1>0, <1>1, <1>2, <1>3, <2>1, <2>2, <2>3, DeleteStep, Zenon
<1>4. CASE UNCHANGED <<dirVars, op>>
  <2>1. Change(op.key, dir[op.key])
    BY <1>1, <1>4, OpFiles, UnchangedFiles, Zenon
  <2>2. op' \in Operations /\ op'.kind = op.kind /\ op'.key = op.key /\ op'.after = op.after
    BY <1>0, <1>4
  <2>3. PICK f : f = dir[op.key]
    OBVIOUS
  <2> QED BY <1>0, <1>1, <1>2, <2>1, <2>2, <2>3, OpFiles, DeleteStep, Zenon
<1> QED BY <1>3, <1>4 DEF DeleteMeta

LEMMA DeleteSyncInv == ASSUME BucketInv, DeleteSync PROVE BucketInv'
<1>0. /\ pc = "deleteSync" /\ pc' = "return" /\ Sync(op.key) /\ may' = [may EXCEPT ![op.key] = {NoFile}]
      /\ UNCHANGED <<rootVars, stageVars, op>>
  BY DEF DeleteSync, Goto
<1>1. /\ journal = {} /\ op.kind = "delete" /\ dir[op.key].body = NoFile /\ op.key \in Keys
      /\ NoBackup(dir[op.key]) /\ dir[op.key] \in dirPast[op.key]
  BY <1>0, OpFiles, Zenon DEF BucketInv, Knows, Journalled, Deleting
<1>2. /\ may' \in [Keys -> SUBSET (Attributes \cup {NoFile})] /\ may'[op.key] = {NoFile}
      /\ \A j \in Keys \ {op.key} : may'[j] = may[j]
  BY <1>0, <1>1, SMTT(30) DEF BucketInv, TypeOK
<1>3. /\ dirPast'[op.key] = {dir[op.key]} /\ \A j \in Keys \ {op.key} : dirPast'[j] = dirPast[j]
      /\ dirPast' \in [Keys -> SUBSET Files] /\ \A j \in Keys : dirPast'[j] \subseteq dirPast[j]
  BY <1>0, <1>1, SMTT(30) DEF BucketInv, TypeOK, Sync
<1>4. TypeOK'
  BY <1>0, <1>1, <1>2, <1>3, Zenon DEF BucketInv, TypeOK, Sync, rootVars, stageVars, Steps
<1>5. Untouched'
  <2>1. \A j \in Keys \ {op.key} : \A g \in dirPast[j] : NoBackup(g) /\ Read(g) \in may[j]
    BY <1>1, NoJournal
  <2>2. Read(dir[op.key]) = NoFile
    BY <1>1, ReadNothing, Zenon
  <2> QED BY <1>1, <1>2, <1>3, <2>1, <2>2, SMTT(30) DEF Untouched
<1>6. Harmless' /\ Recoverable'
  <2>1. \A past \in journalPast : \A tx \in past : tx.key \in Keys
    BY SMTT(30) DEF BucketInv, TypeOK, Transactions
  <2> QED BY <1>0, <1>1, <1>3, <2>1, Zenon DEF BucketInv, CrashSafe, Harmless, Recoverable, rootVars
<1>7. Directories'
  <2>1. \A k \in Keys : entry'[k] = entry[k] /\ entry[k] # "made"
    BY <1>0, <1>1, Zenon DEF BucketInv, Directories, Made, Sync
  <2>2. ASSUME NEW k \in Keys, entry[k] = "absent" PROVE dirPast'[k] = {NoFiles}
    <3>1. dirPast[k] = {NoFiles}
      BY <2>2 DEF BucketInv, Directories
    <3> QED BY <1>1, <1>3, <3>1, Zenon
  <2> QED BY <2>1, <2>2, Zenon DEF Directories
<1>8. Knows'
  BY <1>0, <1>1, Zenon DEF BucketInv, Knows, Journalled, Publishing, Halfway, Undoing, Cleared, Returning, Deleting,
     Staging, Replacing, Published, RollingBack, Cleaning
<1> QED BY <1>4, <1>5, <1>6, <1>7, <1>8 DEF BucketInv, CrashSafe

-----------------------------------------------------------------------------
(***************************************************************************)
(* The end of an operation, and faults.                                    *)
(***************************************************************************)
LEMMA EndInv == ASSUME BucketInv, Return \/ Interrupted PROVE BucketInv'
<1>1. Unlock /\ UNCHANGED <<rootVars, may>>
  BY DEF Return, Interrupted
<1>2. staging' \in stagingPast' /\ stagingPast' \subseteq FiniteNames
  <2>1. staging \in stagingPast /\ stagingPast \subseteq FiniteNames
    BY DEF BucketInv, TypeOK
  <2>2. CASE UNCHANGED stageVars
    BY <2>1, <2>2 DEF stageVars
  <2>3. CASE \E left \in SUBSET staging : Stage(left)
    <3>1. PICK left : left \subseteq staging /\ Stage(left)
      BY <2>3
    <3>2. left \subseteq staging \cup {0}
      BY <3>1
    <3> QED BY <2>1, <3>1, <3>2, StageTypes
  <2> QED BY <2>2, <2>3 DEF Return, Interrupted
<1> QED BY <1>1, <1>2, UnlockInv

LEMMA PowerLossInv == ASSUME BucketInv, PowerLoss PROVE BucketInv'
<1>0. /\ pc' = "idle" /\ op' = NoOperation /\ dirPast' = [k \in Keys |-> {dir'[k]}]
      /\ journal' \in journalPast /\ journalPast' = {journal'} /\ staging' \in stagingPast /\ stagingPast' = {staging'}
  BY Zenon DEF PowerLoss
<1>1. PICK gone \in SUBSET {k \in Keys : entry[k] \in {"made", "left"}} :
        /\ \E now \in [Keys -> UNION {dirPast[k] : k \in Keys}] :
              /\ \A k \in Keys : now[k] \in dirPast[k]
              /\ dir' = [k \in Keys |-> IF k \in gone THEN NoFiles ELSE now[k]]
        /\ entry' = [k \in Keys |-> IF k \in gone \/ entry[k] = "absent" THEN "absent" ELSE "durable"]
        /\ may' = [k \in Keys |-> IF k \in gone /\ entry[k] = "left" THEN may[k] \cup {NoFile} ELSE may[k]]
  BY Zenon DEF PowerLoss
<1>2. PICK now : /\ \A k \in Keys : now[k] \in dirPast[k]
                 /\ dir' = [k \in Keys |-> IF k \in gone THEN NoFiles ELSE now[k]]
  BY <1>1, Zenon
<1>3. /\ \A k \in Keys : dirPast'[k] = {dir'[k]} /\ may[k] \subseteq may'[k]
      /\ \A k \in gone : dir'[k] = NoFiles /\ k \in Keys
      /\ \A k \in Keys \ gone : dir'[k] \in dirPast[k]
  BY <1>0, <1>1, <1>2, Zenon
<1>4. \A k \in gone : NoFile \in may'[k]
  <2>1. ASSUME NEW k \in gone PROVE NoFile \in may'[k]
    <3>1. k \in Keys /\ (entry[k] = "made" \/ entry[k] = "left")
      BY <1>1, Zenon
    <3>2. entry[k] = "made" => NoFile \in may[k]
      BY <3>1, Zenon DEF BucketInv, Directories, Made
    <3> QED BY <1>1, <3>1, <3>2, Zenon
  <2> QED BY <2>1
<1>5. \A k \in gone : NoBackup(dir'[k]) /\ dir'[k].body = NoFile /\ dir'[k].bodyBackup = NoFile /\ Read(dir'[k]) = NoFile
  BY <1>3, ReadNothing, SMTT(30) DEF NoFiles, NoBackup
<1>6. TypeOK'
  <2>1. \A k \in Keys : dir'[k] \in Files
    <3>1. NoFiles \in Files
      BY Zenon DEF NoFiles, Files
    <3> QED BY <1>3, <3>1, SMTT(30) DEF BucketInv, TypeOK
  <2>2. dir' \in [Keys -> Files] /\ dirPast' \in [Keys -> SUBSET Files] /\ \A k \in Keys : dir'[k] \in dirPast'[k]
    BY <1>0, <1>2, <2>1, Zenon
  <2>3. entry' \in [Keys -> {"absent", "made", "left", "durable"}]
    BY <1>1, Zenon
  <2>4. may' \in [Keys -> SUBSET (Attributes \cup {NoFile})]
    BY <1>1, Zenon DEF BucketInv, TypeOK
  <2>5. /\ journal' \in journalPast' /\ journalPast' \subseteq SUBSET Transactions
        /\ \A past \in journalPast' : \A t, u \in past : t = u
    BY <1>0, SMTT(30) DEF BucketInv, TypeOK
  <2>6. staging' \in stagingPast' /\ stagingPast' \subseteq FiniteNames
    BY <1>0, SMTT(30) DEF BucketInv, TypeOK
  <2> QED BY <1>0, <2>2, <2>3, <2>4, <2>5, <2>6, NoOperationType, Zenon DEF TypeOK, Steps
<1>7. Untouched'
  <2>1. ASSUME NEW k \in Keys, \A tx \in journal' : tx.key # k
        PROVE  NoBackup(dir'[k]) /\ Read(dir'[k]) \in may'[k]
    <3>1. CASE k \in gone
      BY <1>4, <1>5, <3>1
    <3>2. CASE k \notin gone
      <4>1. dir'[k] \in dirPast[k]
        BY <1>3, <3>2
      <4>2. NoBackup(dir'[k]) /\ Read(dir'[k]) \in may[k]
        BY <1>0, <2>1, <4>1, Zenon DEF BucketInv, CrashSafe, Untouched
      <4> QED BY <1>3, <4>2
    <3> QED BY <3>1, <3>2
  <2> QED BY <1>0, <1>3, <2>1, Zenon DEF Untouched
<1>8. Harmless'
  BY <1>0 DEF Harmless
<1>9. Recoverable'
  <2>1. ASSUME NEW tx \in journal'
        PROVE  /\ Outcome(dir'[tx.key], tx) \in may'[tx.key]
               /\ dir'[tx.key].bodyBackup # NoFile => tx.hadBody
               /\ dir'[tx.key].metaBackup # NoFile => tx.hadMeta
               /\ ~NoBackup(dir'[tx.key]) => tx.value \in may'[tx.key]
    <3>1. tx \in Transactions /\ tx.key \in Keys /\ tx.value \in Attributes
      BY <1>0, SMTT(30) DEF BucketInv, TypeOK, Transactions
    <3>2. CASE tx.key \in gone
      <4>1. Outcome(dir'[tx.key], tx) = NoFile
        BY <1>5, <3>1, <3>2, NothingLeft, Zenon
      <4> QED BY <1>4, <1>5, <3>2, <4>1, Zenon DEF NoBackup
    <3>3. CASE tx.key \notin gone
      <4>1. dir'[tx.key] \in dirPast[tx.key] /\ may[tx.key] \subseteq may'[tx.key]
        BY <1>3, <3>1, <3>3
      <4>2. CASE journal' = journal
        BY <4>1, <4>2, Zenon DEF BucketInv, CrashSafe, Recoverable
      <4>3. CASE journal' # journal
        <5>1. {} \in journalPast /\ Outcome(dir'[tx.key], tx) = Read(dir'[tx.key])
          BY <1>0, <4>1, <4>3, SMTT(30) DEF BucketInv, CrashSafe, Harmless
        <5>2. NoBackup(dir'[tx.key]) /\ Read(dir'[tx.key]) \in may[tx.key]
          BY <3>1, <4>1, <5>1, Zenon DEF BucketInv, CrashSafe, Untouched
        <5> QED BY <4>1, <5>1, <5>2, Zenon DEF NoBackup
      <4> QED BY <4>2, <4>3, Zenon
    <3> QED BY <3>2, <3>3, Zenon
  <2>2. \A tx \in journal' : tx.key \in Keys
    BY <1>0, SMTT(30) DEF BucketInv, TypeOK, Transactions
  <2> QED BY <1>3, <2>1, <2>2, SMTT(30) DEF Recoverable
<1>10. Directories'
  <2>1. ASSUME NEW k \in Keys, entry'[k] = "absent" PROVE dirPast'[k] = {NoFiles}
    <3>1. k \in gone \/ entry[k] = "absent"
      BY <1>1, <2>1, Zenon
    <3>2. k \notin gone => dir'[k] \in dirPast[k]
      BY <1>3, Zenon
    <3> QED BY <1>3, <3>1, <3>2, Zenon DEF BucketInv, Directories
  <2>2. \A k \in Keys : entry'[k] # "made"
    BY <1>1, Zenon
  <2> QED BY <2>1, <2>2 DEF Directories
<1>11. Knows'
  BY <1>0, NoOperationType, Zenon DEF Knows, Journalled, Publishing, Halfway, Undoing, Cleared, Returning, Deleting,
     Staging, Replacing, Published, RollingBack, Cleaning
<1> QED BY <1>6, <1>7, <1>8, <1>9, <1>10, <1>11 DEF BucketInv, CrashSafe

-----------------------------------------------------------------------------
LEMMA StutterInv == ASSUME BucketInv, UNCHANGED vars PROVE BucketInv'
<1>1. UNCHANGED <<dir, dirPast, entry, journal, journalPast, staging, stagingPast, pc, op, may>>
  BY DEF vars
<1>2. Tx' = Tx /\ Its' = Its
  BY <1>1, SameTx DEF Its
<1>3. TypeOK' /\ CrashSafe'
  BY <1>1, QuietSafe, Zenon DEF BucketInv, TypeOK
<1>4. Directories'
  BY <1>1, Zenon DEF BucketInv, Directories, Made
<1>5. Knows'
  <2>1. Journalled' /\ Publishing'
    BY <1>1, <1>2, Zenon DEF BucketInv, Knows, Journalled, Publishing
  <2>2. Halfway'
    BY <1>1, <1>2, Zenon DEF BucketInv, Knows, Halfway, Committed
  <2>3. Undoing'
    BY <1>1, <1>2, Zenon DEF BucketInv, Knows, Undoing, Committed
  <2>4. Cleared'
    BY <1>1, <1>2, Zenon DEF BucketInv, Knows, Cleared
  <2>5. Returning' /\ Deleting'
    BY <1>1, <1>2, Zenon DEF BucketInv, Knows, Returning, Deleting
  <2> QED BY <2>1, <2>2, <2>3, <2>4, <2>5 DEF Knows
<1> QED BY <1>3, <1>4, <1>5 DEF BucketInv

LEMMA BucketStep == BucketInv /\ [Next]_vars => BucketInv'
<1> SUFFICES ASSUME BucketInv, [Next]_vars PROVE BucketInv'
  OBVIOUS
<1>1. CASE Call
  <2>1. Values \subseteq Attributes /\ NoOperation.value \in Attributes
    BY LocalBucketAssumption, NoOperationType DEF Attributes
  <2>2. PICK kind \in {"put", "delete", "read"}, k \in Keys, v \in Attributes : Lock(kind, k, v)
    BY <1>1, <2>1 DEF Call
  <2> QED BY <2>2, LockInv
<1>2. CASE Recovery
  BY <1>2, RecoverInv, RestoreBodyInv, RollbackMetaInv, RestoreMetaInv, CleanStagesInv, CleanBodyInv, CleanMetaInv,
     SyncParentInv, DropJournalInv, FinishRootInv, ReclaimInv DEF Recovery
<1>3. CASE Put
  BY <1>3, EnsureDirectoriesInv, StageStepsInv, PublishTransactionInv, SyncJournalInv, ReplaceInv, PublishFailsInv,
     SyncPublishedInv, SyncAncestorsInv DEF Put
<1>4. CASE Delete
  BY <1>4, DeleteBodyInv, DeleteMetaInv, DeleteSyncInv DEF Delete
<1>5. CASE Return \/ Interrupted
  BY <1>5, EndInv
<1>6. CASE PowerLoss
  BY <1>6, PowerLossInv
<1>7. CASE UNCHANGED vars
  BY <1>7, StutterInv
<1> QED BY <1>1, <1>2, <1>3, <1>4, <1>5, <1>6, <1>7 DEF Next, Step

\* Whatever fails and whenever the power is lost, whichever journal and files
\* survive recover to a value that is still possible.
LEMMA BucketInductive == Spec => []BucketInv
<1> QED BY InitInv, BucketStep, PTL DEF Spec

\* The four files of an object, the journal, the stages and the operation that
\* holds the lock stay of their types, and there is at most one transaction in
\* any journal that can survive.
THEOREM BucketTypes == Spec => []TypeOK
<1>1. BucketInv => TypeOK
  BY DEF BucketInv
<1> QED BY <1>1, BucketInductive, PTL

\* For any keys, values and number of faults, once an operation has recovered
\* the bucket every object reads as one whole value that is still possible, and
\* a Put that returns without an error has stored its value
\* (publishLocalTransaction, rollbackLocalTransaction, finishLocalTransaction).
THEOREM BucketReadsWhole == Spec => []ReadsWhole
<1>1. BucketInv => ReadsWhole
  <2> SUFFICES ASSUME BucketInv PROVE ReadsWhole
    OBVIOUS
  <2>1. pc = "work" => \A k \in Keys : Read(dir[k]) \in may[k]
    <3>1. pc = "work" => journal = {}
      BY DEF BucketInv, Knows, Journalled
    <3>2. \A k \in Keys : dir[k] \in dirPast[k]
      BY DEF BucketInv, TypeOK
    <3> QED BY <3>1, <3>2, NoJournal
  <2>2. pc = "return" /\ op.kind = "put" => Read(dir[op.key]) = op.value
    BY Zenon DEF BucketInv, Knows, Returning
  <2> QED BY <2>1, <2>2 DEF ReadsWhole
<1> QED BY <1>1, BucketInductive, PTL

\* A backup never outlives the journal that explains it: finishLocalTransaction
\* syncs the object's directory before it removes the journal.
THEOREM BackupsHaveJournal == Spec => []BackupsAreJournalled
<1>1. BucketInv => BackupsAreJournalled
  <2> SUFFICES ASSUME BucketInv, NEW k \in Keys, ~NoBackup(dir[k]) PROVE \E tx \in journal : tx.key = k
    BY Zenon DEF BackupsAreJournalled, NoBackup
  <2>1. dir[k] \in dirPast[k]
    BY DEF BucketInv, TypeOK
  <2>2. journal # {} /\ Tx.key = k
    BY <2>1, JournalAlone DEF BucketInv, CrashSafe
  <2> QED BY <2>2, TheTransaction, Zenon DEF BucketInv
<1> QED BY <1>1, BucketInductive, PTL

-----------------------------------------------------------------------------
(***************************************************************************)
(* Decisions: a recovery and a Delete decide for one of the values that are *)
(* possible, and no other step takes a value away.                          *)
(***************************************************************************)
QuietSteps ==
    \/ Call \/ Recover \/ RestoreBody \/ RollbackMeta \/ RestoreMeta \/ CleanStages \/ CleanBody \/ CleanMeta
    \/ SyncParent \/ FinishRoot \/ Reclaim \/ EnsureDirectories \/ StageObject \/ StageAttributes
    \/ StageTransaction \/ SyncJournal \/ BackupMeta \/ InstallMeta \/ BackupBody \/ InstallBody \/ PublishFails
    \/ SyncPublished \/ SyncAncestors \/ DeleteMeta \/ Return \/ Interrupted \/ UNCHANGED vars

LEMMA QuietMay == ASSUME QuietSteps PROVE may' = may
<1>1. CASE Call
  BY <1>1, Zenon DEF Call, Lock
<1>2. CASE UNCHANGED vars
  BY <1>2 DEF vars
<1>3. CASE DeleteMeta \/ Return \/ Interrupted
  BY <1>3, Zenon DEF DeleteMeta, Return, Interrupted
<1>4. CASE EnsureDirectories \/ StageObject \/ StageAttributes \/ StageTransaction \/ SyncJournal \/ BackupMeta
           \/ InstallMeta \/ BackupBody \/ InstallBody \/ PublishFails \/ SyncPublished \/ SyncAncestors
  BY <1>4, Zenon DEF EnsureDirectories, StageObject, StageAttributes, StageTransaction, SyncJournal, BackupMeta,
     InstallMeta, BackupBody, InstallBody, PublishFails, SyncPublished, SyncAncestors
<1>5. CASE Recover \/ RestoreBody \/ RollbackMeta \/ RestoreMeta \/ CleanStages \/ CleanBody \/ CleanMeta
           \/ SyncParent \/ FinishRoot \/ Reclaim
  BY <1>5, Zenon DEF Recover, RestoreBody, RollbackMeta, RestoreMeta, CleanStages, CleanBody, CleanMeta, SyncParent,
     FinishRoot, Reclaim
<1> QED BY <1>1, <1>2, <1>3, <1>4, <1>5, Zenon DEF QuietSteps

LEMMA AllSteps ==
  ASSUME [Next]_vars
  PROVE  QuietSteps \/ DropJournal \/ PublishTransaction \/ DeleteBody \/ DeleteSync \/ PowerLoss
  BY Zenon DEF Next, Step, Recovery, Put, Delete, QuietSteps

LEMMA Drops ==
  ASSUME BucketInv, DropJournal
  PROVE  /\ Read(Its) \in may[Tx.key] /\ Tx.key \in Keys
         /\ may'[Tx.key] = {Read(Its)} /\ \A k \in Keys \ {Tx.key} : may'[k] = may[k]
         /\ pc' = "syncRoot" /\ op' = op
         /\ op.after = "return" => Tx.key = op.key /\ Read(Its) = op.value
<1>0. /\ pc = "dropJournal" /\ pc' = "syncRoot" /\ op' = op /\ may' = [may EXCEPT ![Tx.key] = {Read(Its)}]
  BY DEF DropJournal, Goto
<1>1. journal # {} /\ Settled(Its, Tx)
  BY <1>0, Zenon DEF BucketInv, Knows, Journalled, Cleaning, Cleared
<1>2. Tx.key \in Keys /\ Tx.value \in Attributes
  BY <1>1, TheTransaction, ZenonT(30) DEF BucketInv
<1>3. Read(Its) \in may[Tx.key]
  BY <1>1, <1>2, SettledReads, TxFacts, Zenon
<1>4. may'[Tx.key] = {Read(Its)} /\ \A k \in Keys \ {Tx.key} : may'[k] = may[k]
  BY <1>0, <1>2, SMTT(30) DEF BucketInv, TypeOK
<1>5. op.after = "return" => Tx.key = op.key /\ Read(Its) = op.value
  BY <1>0, <1>2, ReadCommitted, Zenon DEF BucketInv, Knows, Returning, Cleaning, Its
<1> QED BY <1>0, <1>2, <1>3, <1>4, <1>5

LEMMA Deletes ==
  ASSUME BucketInv, DeleteSync
  PROVE  /\ op.key \in Keys /\ op' = op /\ op.kind = "delete" /\ NoFile \in may[op.key]
         /\ may'[op.key] = {NoFile} /\ \A k \in Keys \ {op.key} : may'[k] = may[k]
<1>1. op.key \in Keys
  BY DEF BucketInv, TypeOK, Operations
<1>2. op.kind = "delete" /\ NoFile \in may[op.key]
  BY Zenon DEF DeleteSync, BucketInv, Knows, Deleting
<1>3. may' = [may EXCEPT ![op.key] = {NoFile}] /\ op' = op
  BY DEF DeleteSync
<1> QED BY <1>1, <1>2, <1>3, SMTT(30) DEF BucketInv, TypeOK

LEMMA Announces ==
  ASSUME BucketInv, NEW v, may' = [may EXCEPT ![op.key] = @ \cup {v}]
  PROVE  /\ op.key \in Keys /\ may'[op.key] = may[op.key] \cup {v}
         /\ \A k \in Keys \ {op.key} : may'[k] = may[k]
  BY SMTT(30) DEF BucketInv, TypeOK, Operations

(***************************************************************************)
(* Nothing decided is reopened, for any keys, values and number of faults:  *)
(* a recovery decides for one of the possible values, and others become     *)
(* possible only by a Put's journal, a Delete, or the loss of a directory   *)
(* that an earlier Put left unsynced (beginLocalTransaction, Delete,        *)
(* finishLocalTransaction).                                                 *)
(***************************************************************************)
THEOREM DecidedIsKept == Spec => OnlyAnnounced
<1> DEFINE Announced(k) ==
       \/ may'[k] = may[k]
       \/ \E value \in may[k] : may'[k] = {value}
       \/ pc = "journal" /\ op.kind = "put" /\ op.key = k /\ may'[k] = may[k] \cup {op.value}
       \/ pc = "work" /\ op.kind = "delete" /\ op.key = k /\ may'[k] = may[k] \cup {NoFile}
       \/ entry[k] = "left" /\ entry'[k] = "absent" /\ may'[k] = may[k] \cup {NoFile}
<1>1. ASSUME BucketInv, [Next]_vars, NEW k \in Keys PROVE Announced(k)
  <2>1. CASE QuietSteps
    BY <2>1, QuietMay
  <2>2. CASE DropJournal
    BY <1>1, <2>2, Drops, Zenon
  <2>3. CASE PublishTransaction
    <3>1. pc = "journal" /\ op.kind = "put" /\ may' = [may EXCEPT ![op.key] = @ \cup {op.value}]
      BY <1>1, <2>3, Zenon DEF PublishTransaction, BucketInv, Knows, Publishing, Staging
    <3> QED BY <1>1, <3>1, Announces, Zenon
  <2>4. CASE DeleteBody
    <3>1. pc = "work" /\ op.kind = "delete" /\ may' = [may EXCEPT ![op.key] = @ \cup {NoFile}]
      BY <2>4 DEF DeleteBody
    <3> QED BY <1>1, <3>1, Announces, Zenon
  <2>5. CASE DeleteSync
    BY <1>1, <2>5, Deletes, Zenon
  <2>6. CASE PowerLoss
    BY <1>1, <2>6, Zenon DEF PowerLoss
  <2> QED BY <1>1, <2>1, <2>2, <2>3, <2>4, <2>5, <2>6, AllSteps, Zenon
<1>2. BucketInv /\ [Next]_vars => [\A k \in Keys : Announced(k)]_vars
  BY <1>1
<1> QED BY <1>2, BucketInductive, PTL DEF Spec, OnlyAnnounced

(***************************************************************************)
(* What a caller was told is decided: from the step that drops the journal  *)
(* of a Put, or syncs the directory after a Delete, to the return.          *)
(***************************************************************************)
Decided ==
    /\ pc \in {"syncRoot", "return"} /\ op.after = "return" => may[op.key] = {op.value}
    /\ pc = "return" /\ op.kind = "delete" /\ op.removed => may[op.key] = {NoFile}

LEMMA DecidedStep == ASSUME BucketInv, Decided, [Next]_vars PROVE Decided'
<1>1. CASE DropJournal
  BY <1>1, Drops, Zenon DEF Decided
<1>2. CASE DeleteSync
  <2>1. op.after # "return"
    BY <1>2, Deletes, Zenon DEF BucketInv, Knows, Returning
  <2> QED BY <1>2, <2>1, Deletes, Zenon DEF Decided
<1>3. CASE PublishTransaction \/ DeleteBody \/ PowerLoss
  <2>1. pc' \notin {"syncRoot", "return"}
    BY <1>3, Zenon DEF PublishTransaction, DeleteBody, PowerLoss, Goto
  <2> QED BY <2>1, Zenon DEF Decided
<1>4. CASE UNCHANGED vars
  BY <1>4, Zenon DEF vars, Decided
<1>5. CASE FinishRoot
  <2>1. pc = "syncRoot" /\ pc' = op.after /\ op' = op /\ may' = may
    BY <1>5 DEF FinishRoot, Goto
  <2>2. op.after = "return" => op.kind = "put"
    BY Zenon DEF BucketInv, Knows, Returning
  <2> QED BY <2>1, <2>2, Zenon DEF Decided
<1>6. CASE DeleteMeta
  <2>1. pc = "deleteMeta" /\ op.kind = "delete" /\ op.after # "return"
    BY <1>6, Zenon DEF DeleteMeta, BucketInv, Knows, Returning, Deleting
  <2>2. op'.after = op.after /\ (pc' = "return" => ~op'.removed) /\ pc' # "syncRoot"
    <3>1. op \in Operations
      BY DEF BucketInv, TypeOK
    <3>2. CASE op' = [op EXCEPT !.removed = @ \/ dir[op.key].meta # NoFile]
      <4>1. op'.after = op.after
        BY <3>1, <3>2, Zenon DEF Operations
      <4>2. pc' = IF op'.removed THEN "deleteSync" ELSE "return"
        BY <1>6, <3>1, <3>2, Zenon DEF DeleteMeta, Goto, Operations
      <4> QED BY <4>1, <4>2, Zenon
    <3>3. CASE op' = op /\ pc' \in {"deleteSync", "fail"}
      BY <3>3, Zenon
    <3> QED BY <1>6, <3>2, <3>3, Zenon DEF DeleteMeta, Goto
  <2> QED BY <2>1, <2>2, Zenon DEF Decided
<1>7. CASE QuietSteps /\ ~FinishRoot /\ ~DeleteMeta /\ ~UNCHANGED vars
  <2>1. pc' \notin {"syncRoot", "return"}
    BY <1>7, Zenon DEF QuietSteps, Call, Lock, Recover, RestoreBody, RollbackMeta, RestoreMeta, CleanStages, CleanBody,
       CleanMeta, SyncParent, Reclaim, EnsureDirectories, StageObject, StageAttributes, StageTransaction, SyncJournal,
       BackupMeta, InstallMeta, BackupBody, InstallBody, PublishFails, SyncPublished, SyncAncestors, Return,
       Interrupted, Goto, Unlock
  <2> QED BY <2>1, Zenon DEF Decided
<1> QED BY <1>1, <1>2, <1>3, <1>4, <1>5, <1>6, <1>7, AllSteps, Zenon

(***************************************************************************)
(* Whatever a power loss leaves of the journal and of the files of an       *)
(* object, the recovery that follows makes one value of it.                 *)
(***************************************************************************)
Survives(k, value) ==
    \A past \in journalPast, f \in dirPast[k] :
        /\ \A tx \in past : tx.key = k => Outcome(f, tx) = value
        /\ (\A tx \in past : tx.key # k) => Read(f) = value

\* A Put that returns without an error has left its value the only possible one,
\* in a directory it did not leave unsynced itself, and a Delete that removed
\* something has left none (syncPublishedDirectories, Delete).  As long as one
\* value is possible, then and at every later moment, a power loss leaves a
\* journal and files that recover to it (recoverLocalTransaction).
AcknowledgedSurvives ==
    /\ pc = "return" /\ op.kind = "put" => may[op.key] = {op.value} /\ entry[op.key] # "made"
    /\ pc = "return" /\ op.kind = "delete" /\ op.removed => may[op.key] = {NoFile}
    /\ \A k \in Keys : \A value \in Attributes \cup {NoFile} : may[k] = {value} => Survives(k, value)

LEMMA DecidedSurvives ==
  ASSUME BucketInv, NEW k \in Keys, NEW value, may[k] = {value}
  PROVE  Survives(k, value)
<1> SUFFICES ASSUME NEW past \in journalPast, NEW f \in dirPast[k]
             PROVE  /\ \A tx \in past : tx.key = k => Outcome(f, tx) = value
                    /\ (\A tx \in past : tx.key # k) => Read(f) = value
  BY Zenon DEF Survives
<1>1. ASSUME \A tx \in past : tx.key # k PROVE Read(f) = value
  BY <1>1, Zenon DEF BucketInv, CrashSafe, Untouched
<1>2. ASSUME NEW tx \in past, tx.key = k PROVE Outcome(f, tx) = value
  <2>1. CASE past = journal
    BY <1>2, <2>1, Zenon DEF BucketInv, CrashSafe, Recoverable
  <2>2. CASE past # journal
    <3>1. {} \in journalPast /\ Outcome(f, tx) = Read(f)
      BY <1>2, <2>2, Zenon DEF BucketInv, CrashSafe, Harmless
    <3>2. Read(f) \in may[k]
      BY <3>1, Zenon DEF BucketInv, CrashSafe, Untouched
    <3> QED BY <3>1, <3>2, Zenon
  <2> QED BY <2>1, <2>2, Zenon
<1> QED BY <1>1, <1>2, Zenon

(***************************************************************************)
(* What a caller was told survives a power loss, for any keys, values and   *)
(* number of faults.  With DecidedIsKept it does so until the next Put or   *)
(* Delete of the object is announced.  The one loss left is that of the     *)
(* whole directory, when an earlier Put made it and did not sync it.        *)
(***************************************************************************)
THEOREM AcknowledgedIsKept == Spec => []AcknowledgedSurvives
<1>1. Init => Decided
  BY Zenon DEF Init, Decided
<1>2. BucketInv /\ Decided => AcknowledgedSurvives
  <2> SUFFICES ASSUME BucketInv, Decided PROVE AcknowledgedSurvives
    OBVIOUS
  <2>1. ASSUME pc = "return", op.kind = "put" PROVE may[op.key] = {op.value}
    BY <2>1, Zenon DEF BucketInv, Knows, Returning, Decided
  <2>2. op.key \in Keys /\ op.value \in Attributes
    BY Zenon DEF BucketInv, TypeOK, Operations
  <2>3. ASSUME pc = "return", op.kind = "put" PROVE entry[op.key] # "made"
    BY <2>1, <2>2, <2>3, Distinct, Zenon DEF BucketInv, Directories, Made
  <2>4. pc = "return" /\ op.kind = "delete" /\ op.removed => may[op.key] = {NoFile}
    BY Zenon DEF Decided
  <2> QED BY <2>1, <2>3, <2>4, DecidedSurvives, Zenon DEF AcknowledgedSurvives
<1> QED BY <1>1, <1>2, DecidedStep, BucketInductive, PTL DEF Spec

-----------------------------------------------------------------------------
(***************************************************************************)
(* Stages: an operation begins its own only after the ones before it were   *)
(* reclaimed, so there are never more than one Put's.                       *)
(***************************************************************************)
StageRoom ==
    /\ \A names \in stagingPast : Cardinality(names) <= 3
    /\ pc \in {"work", "stageObject"} => staging = {}
    /\ pc = "stageMeta" => Cardinality(staging) <= 1
    /\ pc = "stageJournal" => Cardinality(staging) <= 2

LEMMA CountStages == ASSUME NEW S \in FiniteNames PROVE IsFiniteSet(S) /\ Cardinality(S) \in Nat
  BY FS_CardinalityType DEF FiniteNames

LEMMA FewerStages ==
  ASSUME NEW S \in FiniteNames, NEW T \in SUBSET S, Cardinality(S) <= 3
  PROVE  Cardinality(T) <= 3
<1>1. IsFiniteSet(S) /\ Cardinality(S) \in Nat
  BY CountStages
<1>2. Cardinality(T) \in Nat /\ Cardinality(T) <= Cardinality(S)
  BY <1>1, FS_Subset, FS_CardinalityType
<1> QED BY <1>1, <1>2, SMTT(30)

LEMMA NoStages == {} \in FiniteNames /\ Cardinality({}) = 0
  BY FS_EmptySet DEF FiniteNames

LEMMA TwoStages == ASSUME NEW a, NEW b PROVE Cardinality({a, b}) <= 3
<1> DEFINE S == {a}
           T == {a, b}
<1>1. T = S \cup {b}
  OBVIOUS
<1> HIDE DEF S, T
<1>2. IsFiniteSet(S) /\ Cardinality(S) = 1
  BY FS_Singleton, Zenon DEF S
<1>3. Cardinality(T) \in {Cardinality(S), Cardinality(S) + 1}
  BY <1>1, <1>2, FS_AddElement
<1>4. Cardinality(T) <= 3
  BY <1>2, <1>3, SMTT(30)
<1> QED BY <1>4 DEF T

LEMMA StageCounts ==
  ASSUME StageRoom, NEW names, Cardinality(names) <= 3, Stage(names)
  PROVE  staging' = names /\ \A past \in stagingPast' : Cardinality(past) <= 3
  BY DEF StageRoom, Stage

\* A step that only removes stages, or none, and is not one of the first of a Put.
LEMMA StagesStay ==
  ASSUME TypeOK, StageRoom, pc' \notin {"work", "stageObject", "stageMeta", "stageJournal"},
         UNCHANGED stageVars \/ \E left \in SUBSET staging : Stage(left)
  PROVE  StageRoom'
<1>1. CASE UNCHANGED stageVars
  BY <1>1 DEF StageRoom, stageVars
<1>2. CASE \E left \in SUBSET staging : Stage(left)
  <2>1. PICK left \in SUBSET staging : Stage(left)
    BY <1>2
  <2>2. staging \in FiniteNames /\ Cardinality(staging) <= 3
    BY DEF TypeOK, StageRoom
  <2>3. Cardinality(left) <= 3
    BY <2>2, FewerStages
  <2> QED BY <2>1, <2>3 DEF StageRoom, Stage
<1> QED BY <1>1, <1>2

LEMMA CleanStagesRoom == ASSUME TypeOK, StageRoom, CleanStages PROVE StageRoom'
<1>1. pc' = "cleanBody"
  BY DEF CleanStages, Goto
<1>2. PICK left \in SUBSET (staging \cap {Tx.objectStage, Tx.metaStage}) :
        Stage((staging \ {Tx.objectStage, Tx.metaStage}) \cup left)
  BY Zenon DEF CleanStages
<1> DEFINE names == (staging \ {Tx.objectStage, Tx.metaStage}) \cup left
<1>3. names \in SUBSET staging /\ Stage(names)
  BY <1>2
<1> HIDE DEF names
<1> QED BY <1>1, <1>3, StagesStay

LEMMA StageStepsRoom ==
  ASSUME TypeOK, StageRoom, StageObject \/ StageAttributes \/ StageTransaction
  PROVE  StageRoom'
<1> DEFINE names == staging \cup {NewName}
<1>1. names = staging \cup {NewName}
  OBVIOUS
<1>2. staging \in FiniteNames /\ Stage(names)
  BY DEF TypeOK, StageObject, StageAttributes, StageTransaction
<1> HIDE DEF names
<1>3. IsFiniteSet(staging) /\ Cardinality(staging) \in Nat
  BY <1>2, CountStages
<1>4. Cardinality(names) \in {Cardinality(staging), Cardinality(staging) + 1}
  BY <1>1, <1>3, FS_AddElement
<1>5. CASE StageObject
  <2>1. pc' = "stageMeta" /\ Cardinality(staging) <= 0
    BY <1>5, NoStages, SMTT(30) DEF StageObject, StageRoom, Goto
  <2> QED BY <1>2, <1>3, <1>4, <2>1, StageCounts, SMTT(30) DEF StageRoom
<1>6. CASE StageAttributes
  <2>1. pc' = "stageJournal" /\ Cardinality(staging) <= 1
    BY <1>6 DEF StageAttributes, StageRoom, Goto
  <2> QED BY <1>2, <1>3, <1>4, <2>1, StageCounts, SMTT(30) DEF StageRoom
<1>7. CASE StageTransaction
  <2>1. pc' = "journal" /\ Cardinality(staging) <= 2
    BY <1>7 DEF StageTransaction, StageRoom, Goto
  <2> QED BY <1>2, <1>3, <1>4, <2>1, StageCounts, SMTT(30) DEF StageRoom
<1> QED BY <1>5, <1>6, <1>7

LEMMA PublishRoom == ASSUME TypeOK, StageRoom, PublishTransaction PROVE StageRoom'
<1> DEFINE names == {op.objectStage, op.metaStage}
<1>1. names = {op.objectStage, op.metaStage}
  OBVIOUS
<1>2. Stage(names) /\ pc' = "journalSync"
  BY Zenon DEF PublishTransaction, Goto
<1> HIDE DEF names
<1>3. Cardinality(names) <= 3
  BY <1>1, TwoStages, Zenon
<1> QED BY <1>2, <1>3, StageCounts DEF StageRoom

LEMMA StageRoomStep == TypeOK /\ StageRoom /\ [Next]_vars => StageRoom'
<1> SUFFICES ASSUME TypeOK, StageRoom, [Next]_vars PROVE StageRoom'
  OBVIOUS
<1>0. /\ staging \in FiniteNames /\ Cardinality(staging) <= 3
      /\ op.after \in {"reclaim", "return", "fail"}
  BY Zenon DEF TypeOK, StageRoom, Operations
<1>1. CASE Call
  <2>1. UNCHANGED stageVars /\ pc' = "recover"
    BY <1>1, Zenon DEF Call, Lock, Goto
  <2> QED BY <2>1, StagesStay
<1>2. CASE Recover \/ RestoreBody \/ RollbackMeta \/ RestoreMeta \/ CleanBody \/ CleanMeta \/ SyncParent \/ DropJournal
           \/ FinishRoot
  <2>1. UNCHANGED stageVars
    BY <1>2 DEF Recover, RestoreBody, RollbackMeta, RestoreMeta, CleanBody, CleanMeta, SyncParent, DropJournal, FinishRoot
  <2>2. pc' \notin {"work", "stageObject", "stageMeta", "stageJournal"}
    BY <1>0, <1>2 DEF Recover, RestoreBody, RollbackMeta, RestoreMeta, CleanBody, CleanMeta, SyncParent, DropJournal,
       FinishRoot, Goto, Unlock
  <2> QED BY <2>1, <2>2, StagesStay
<1>3. CASE CleanStages
  BY <1>3, CleanStagesRoom
<1>4. CASE Reclaim
  <2>1. CASE UNCHANGED stageVars /\ Unlock
    BY <2>1, StagesStay DEF Unlock
  <2>2. CASE staging' = {} /\ stagingPast' \in {stagingPast, {{}}} /\ pc' = "work"
    BY <2>2, NoStages, SMTT(30) DEF StageRoom
  <2> QED BY <1>4, <2>1, <2>2 DEF Reclaim, Goto
<1>5. CASE EnsureDirectories
  BY <1>5 DEF EnsureDirectories, StageRoom, Goto, stageVars
<1>6. CASE StageObject \/ StageAttributes \/ StageTransaction
  BY <1>6, StageStepsRoom
<1>7. CASE PublishTransaction
  BY <1>7, PublishRoom
<1>8. CASE SyncJournal \/ BackupMeta \/ InstallMeta \/ BackupBody \/ InstallBody \/ PublishFails \/ SyncPublished \/ SyncAncestors
  <2>1. UNCHANGED stageVars \/ Stage(staging \ {Tx.metaStage}) \/ Stage(staging \ {Tx.objectStage})
    BY <1>8 DEF SyncJournal, BackupMeta, InstallMeta, BackupBody, InstallBody, PublishFails, SyncPublished, SyncAncestors
  <2>2. pc' \notin {"work", "stageObject", "stageMeta", "stageJournal"}
    BY <1>8 DEF SyncJournal, BackupMeta, InstallMeta, BackupBody, InstallBody, PublishFails, SyncPublished, SyncAncestors, Goto
  <2>3. staging \ {Tx.metaStage} \in SUBSET staging /\ staging \ {Tx.objectStage} \in SUBSET staging
    OBVIOUS
  <2> QED BY <2>1, <2>2, <2>3, StagesStay, Zenon
<1>9. CASE Delete \/ Return
  <2>1. UNCHANGED stageVars
    BY <1>9 DEF Delete, DeleteBody, DeleteMeta, DeleteSync, Return
  <2>2. pc' \notin {"work", "stageObject", "stageMeta", "stageJournal"}
    BY <1>9 DEF Delete, DeleteBody, DeleteMeta, DeleteSync, Return, Goto, Unlock
  <2> QED BY <2>1, <2>2, StagesStay
<1>10. CASE Interrupted
  BY <1>10, StagesStay DEF Interrupted, Unlock
<1>11. CASE PowerLoss
  BY <1>11, Zenon DEF PowerLoss, StageRoom
<1>12. CASE UNCHANGED vars
  BY <1>12 DEF vars, StageRoom
<1> QED BY <1>1, <1>2, <1>3, <1>4, <1>5, <1>6, <1>7, <1>8, <1>9, <1>10, <1>11, <1>12
        DEF Next, Step, Recovery, Put

\* For any number of operations cut short, and any accepted number of stages
\* that fits one Put (maxLocalOrphanStages), reclaimLocalOrphanStages never
\* refuses an operation.
THEOREM StagesAreBounded == Spec => []StagesBounded
<1>1. Init => StageRoom
  BY NoStages, SMTT(30) DEF Init, StageRoom
<1>2. TypeOK /\ StageRoom => StagesBounded
  <2> SUFFICES ASSUME TypeOK, StageRoom PROVE Cardinality(staging) <= MaxOrphanStages
    BY DEF StagesBounded
  <2>1. Cardinality(staging) \in Nat /\ Cardinality(staging) <= 3
    BY FS_CardinalityType, Zenon DEF TypeOK, StageRoom, FiniteNames
  <2> QED BY <2>1, LocalBucketAssumption, SMTT(30)
<1> QED BY <1>1, <1>2, StageRoomStep, BucketTypes, PTL DEF Spec
=============================================================================
