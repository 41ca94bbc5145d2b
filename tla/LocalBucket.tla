---------------------------- MODULE LocalBucket -----------------------------
(***************************************************************************)
(* The bucket on a local file system (storage/storage.go and local_*.go).   *)
(* An object is two files, its body and its attributes, and a Put replaces  *)
(* both under a journal that the next operation recovers from.  An exclusive *)
(* file lock spans every operation, so there is at most one at a time: the  *)
(* state has the operation that holds the lock, and waiting for it changes  *)
(* nothing.                                                                 *)
(*                                                                          *)
(* An operation returns early or dies with its process between any two      *)
(* steps.  A power loss also takes back changes of directories that were    *)
(* not synced: each directory keeps a prefix of its changes since its last  *)
(* sync, whatever the others keep.  File contents are synced before a file  *)
(* gets its final name, so a file that is there is complete.                *)
(*                                                                          *)
(* Every object has a directory of its own two levels below the root.  The  *)
(* entry of the first level is synced with the root, by every journal.      *)
(***************************************************************************)
EXTENDS Naturals, FiniteSets

CONSTANTS
    Keys,
    Bodies,            \* contents; equal bodies have equal digests
    Tags,              \* content type and metadata
    Default,           \* the attributes of an object that has no attribute file
    Values,            \* what Puts store: pairs of a body and a tag
    MaxOrphanStages,   \* maxLocalOrphanStages
    MaxFaults          \* bound: failures and power losses in one behaviour

ASSUME LocalBucketAssumption ==
    /\ Keys # {} /\ Bodies # {} /\ Default \in Tags
    /\ Values \subseteq Bodies \X Tags
    /\ MaxOrphanStages \in Nat /\ MaxOrphanStages >= 3   \* a Put has three stages; the code has 16
    /\ MaxFaults \in Nat

VARIABLES
    dir,          \* the four files of each object
    dirPast,      \* what its directory held since the last sync, now included
    entry,        \* the directory's own entry in its parent
    journal,      \* .golusoris-transaction.json: no or one transaction
    journalPast,  \* the same since the last sync of the root
    staging,      \* names in .golusoris-staging
    stagingPast,  \* the same since the last sync of the staging directory
    pc,           \* the next step of the operation that holds the lock
    op,           \* its arguments and local variables
    may,          \* what a read of a key may return
    faults        \* faults so far

dirVars == <<dir, dirPast, entry>>
rootVars == <<journal, journalPast>>
stageVars == <<staging, stagingPast>>
vars == <<dir, dirPast, entry, journal, journalPast, staging, stagingPast, pc, op, may, faults>>

NoFile == <<>>
Attributes == Bodies \X Tags
Body(value) == <<value[1]>>

Files == [body : {<<b>> : b \in Bodies} \cup {NoFile}, meta : Attributes \cup {NoFile},
          bodyBackup : {<<b>> : b \in Bodies} \cup {NoFile}, metaBackup : Attributes \cup {NoFile}]
NoFiles == [body |-> NoFile, meta |-> NoFile, bodyBackup |-> NoFile, metaBackup |-> NoFile]

\* localTransaction: the digests stand for the value, the paths follow from the key.
Transactions == [key : Keys, value : Attributes, objectStage : Nat, metaStage : Nat,
                 hadBody : BOOLEAN, hadMeta : BOOLEAN]

Operations == [kind : {"put", "delete", "read"}, key : Keys, value : Attributes,
               objectStage : Nat, metaStage : Nat,
               created : BOOLEAN,      \* ensureLocalDirectories made the directory
               removed : BOOLEAN,      \* Delete removed a file
               kept : BOOLEAN,         \* cleanupLocalStages could not remove a file
               after : {"reclaim", "return", "fail"}]   \* what follows finishLocalTransaction

NewOperation(kind, k, value) ==
    [kind |-> kind, key |-> k, value |-> value, objectStage |-> 0, metaStage |-> 0,
     created |-> FALSE, removed |-> FALSE, kept |-> FALSE, after |-> "reclaim"]
NoOperation == NewOperation("read", CHOOSE k \in Keys : TRUE, CHOOSE a \in Attributes : TRUE)

Steps == {"idle", "recover", "restoreBody", "rollbackMeta", "restoreMeta", "cleanStages",
          "cleanBody", "cleanMeta", "syncParent", "dropJournal", "syncRoot", "reclaim", "work",
          "stageObject", "stageMeta", "stageJournal", "journal", "journalSync", "backupMeta",
          "installMeta", "backupBody", "installBody", "publishSync", "ancestorSync", "deleteMeta",
          "deleteSync", "return", "fail"}

Fault == faults < MaxFaults /\ faults' = faults + 1

\* What Get returns: inspectLocalObject and verifyLocalObjectAttributes.
Broken == <<"broken">>
Read(files) ==
    CASE files.body = NoFile -> NoFile
      [] files.body # NoFile /\ files.meta = NoFile -> <<files.body[1], Default>>
      [] files.body # NoFile /\ files.meta # NoFile ->
            IF files.meta[1] = files.body[1] THEN files.meta ELSE Broken

\* A bucket starts empty, or on files somebody else put there.
Found == [NoFiles EXCEPT !.body = <<CHOOSE b \in Bodies : TRUE>>]
Init ==
    /\ dir \in [Keys -> {NoFiles, Found}]
    /\ dirPast = [k \in Keys |-> {dir[k]}]
    /\ entry = [k \in Keys |-> IF dir[k] = NoFiles THEN "absent" ELSE "durable"]
    /\ journal = {} /\ journalPast = {{}}
    /\ staging = {} /\ stagingPast = {{}}
    /\ pc = "idle"
    /\ op = NoOperation
    /\ may = [k \in Keys |-> {Read(dir[k])}]
    /\ faults = 0

-----------------------------------------------------------------------------
(***************************************************************************)
(* Directories.                                                             *)
(***************************************************************************)
Change(k, files) ==
    /\ dir' = [dir EXCEPT ![k] = files]
    /\ dirPast' = [dirPast EXCEPT ![k] = @ \cup {files}]
    /\ UNCHANGED entry

\* syncLocalParent of the object's directory.
Sync(k) ==
    /\ dirPast' = [dirPast EXCEPT ![k] = {dir[k]}]
    /\ UNCHANGED <<dir, entry>>

WriteJournal(content) ==
    /\ journal' = content
    /\ journalPast' = journalPast \cup {content}

SyncRoot ==
    /\ journalPast' = {journal}
    /\ UNCHANGED journal

Stage(names) ==
    /\ staging' = names
    /\ stagingPast' = stagingPast \cup {names}

\* openLocalTemp: a name that is not taken.
NewName == CHOOSE n \in 1..(Cardinality(staging) + 1) : n \notin staging

Goto(step) == pc' = step

\* The operation is over: nobody will sync a directory it made and did not sync.
Left == [k \in Keys |-> IF entry[k] = "made" THEN "left" ELSE entry[k]]
Unlock ==
    /\ pc' = "idle"
    /\ op' = NoOperation
    /\ entry' = Left
    /\ UNCHANGED <<dir, dirPast>>

-----------------------------------------------------------------------------
(***************************************************************************)
(* Recovery: recoverPendingLocalTransaction, for the one transaction of the *)
(* journal.                                                                 *)
(***************************************************************************)
Tx == CHOOSE tx \in journal : TRUE
Its == dir[Tx.key]
Committed == Its.meta = Tx.value /\ Its.body = Body(Tx.value)

\* acquireLocalOperationLock, in lockAndRecover.  A read is Get, Stat, Exists, URL or List.
Lock(kind, k, value) ==
    /\ pc = "idle"
    /\ op' = NewOperation(kind, k, value)
    /\ Goto("recover")
    /\ UNCHANGED <<dirVars, rootVars, stageVars, may, faults>>

\* readLocalTransaction and localTransactionCommitted.  rollbackLocalBody
\* begins: it removes what stands in the way of the backup, or a new body
\* where there was none.
RollbackBodyMutAlways ==
    IF Its.body = Body(Tx.value) \/ Its.bodyBackup # NoFile
    THEN Change(Tx.key, [Its EXCEPT !.body = NoFile])
    ELSE UNCHANGED dirVars
RollbackBody ==
    IF Its.bodyBackup # NoFile \/ (Its.body = Body(Tx.value) /\ ~Tx.hadBody)
    THEN Change(Tx.key, [Its EXCEPT !.body = NoFile])
    ELSE UNCHANGED dirVars

Recover ==
    /\ pc = "recover"
    /\ \/ /\ journal = {}
          /\ Goto("reclaim")
          /\ UNCHANGED dirVars
       \/ /\ journal # {}
          /\ Committed
          /\ Goto("cleanStages")
          /\ UNCHANGED dirVars
       \/ /\ journal # {}
          /\ ~Committed
          /\ RollbackBody
          /\ Goto(IF Its.bodyBackup # NoFile THEN "restoreBody" ELSE "rollbackMeta")
    /\ UNCHANGED <<rootVars, stageVars, op, may, faults>>

\* restoreLocalBackup: the rename.
RestoreBody ==
    /\ pc = "restoreBody"
    /\ Change(Tx.key, [Its EXCEPT !.body = Its.bodyBackup, !.bodyBackup = NoFile])
    /\ Goto("rollbackMeta")
    /\ UNCHANGED <<rootVars, stageVars, op, may, faults>>

RollbackMeta ==
    /\ pc = "rollbackMeta"
    /\ IF Its.metaBackup # NoFile \/ (Its.meta = Tx.value /\ ~Tx.hadMeta)
       THEN Change(Tx.key, [Its EXCEPT !.meta = NoFile])
       ELSE UNCHANGED dirVars
    /\ Goto(IF Its.metaBackup # NoFile THEN "restoreMeta" ELSE "cleanStages")
    /\ UNCHANGED <<rootVars, stageVars, op, may, faults>>

RestoreMeta ==
    /\ pc = "restoreMeta"
    /\ Change(Tx.key, [Its EXCEPT !.meta = Its.metaBackup, !.metaBackup = NoFile])
    /\ Goto("cleanStages")
    /\ UNCHANGED <<rootVars, stageVars, op, may, faults>>

-----------------------------------------------------------------------------
(***************************************************************************)
(* finishLocalTransaction: a file that cannot be removed does not keep the  *)
(* others, but the error then ends the operation with the journal in place. *)
(***************************************************************************)
Keep == op' = [op EXCEPT !.kept = TRUE] /\ Fault
Kept == op' = op /\ UNCHANGED faults

CleanStages ==
    /\ pc = "cleanStages"
    /\ \E left \in SUBSET (staging \cap {Tx.objectStage, Tx.metaStage}) :
          /\ Stage((staging \ {Tx.objectStage, Tx.metaStage}) \cup left)
          /\ IF left = {} THEN Kept ELSE Keep
    /\ Goto("cleanBody")
    /\ UNCHANGED <<dirVars, rootVars, may>>

CleanBody ==
    /\ pc = "cleanBody"
    /\ \/ Change(Tx.key, [Its EXCEPT !.bodyBackup = NoFile]) /\ Kept
       \/ UNCHANGED dirVars /\ Its.bodyBackup # NoFile /\ Keep
    /\ Goto("cleanMeta")
    /\ UNCHANGED <<rootVars, stageVars, may>>

CleanMeta ==
    /\ pc = "cleanMeta"
    /\ \/ Change(Tx.key, [Its EXCEPT !.metaBackup = NoFile]) /\ Kept
       \/ UNCHANGED dirVars /\ Its.metaBackup # NoFile /\ Keep
    /\ Goto("syncParent")
    /\ UNCHANGED <<rootVars, stageVars, may>>

\* A directory that is gone cannot be opened for the sync: the error leaves the
\* journal, and every later operation ends here too.
SyncParentMutSkip ==
    /\ pc = "syncParent"
    /\ IF op.kept \/ entry[Tx.key] = "absent" THEN Unlock ELSE UNCHANGED <<dirVars, op>> /\ Goto("dropJournal")
    /\ UNCHANGED <<rootVars, stageVars, may, faults>>
SyncParent ==
    /\ pc = "syncParent"
    /\ IF op.kept \/ entry[Tx.key] = "absent" THEN Unlock ELSE Sync(Tx.key) /\ UNCHANGED op /\ Goto("dropJournal")
    /\ UNCHANGED <<rootVars, stageVars, may, faults>>

DropJournalMutPut ==
    /\ pc = "dropJournal"
    /\ may' = [may EXCEPT ![Tx.key] = {Read(Its)}]
    /\ IF op.kind = "put" THEN WriteJournal({}) ELSE UNCHANGED rootVars
    /\ Goto("syncRoot")
    /\ UNCHANGED <<dirVars, stageVars, op, faults>>
\* The outcome of the transaction is now decided, whatever is lost later.
DropJournal ==
    /\ pc = "dropJournal"
    /\ may' = [may EXCEPT ![Tx.key] = {Read(Its)}]
    /\ WriteJournal({})
    /\ Goto("syncRoot")
    /\ UNCHANGED <<dirVars, stageVars, op, faults>>

FinishRoot ==
    /\ pc = "syncRoot"
    /\ SyncRoot
    /\ Goto(op.after)
    /\ UNCHANGED <<dirVars, stageVars, op, may, faults>>

\* reclaimLocalOrphanStages: the journal is gone, so no stage is protected.
ReclaimMutOff ==
    /\ pc = "reclaim"
    /\ Goto("work")
    /\ UNCHANGED <<dirVars, stageVars, rootVars, op, may, faults>>
Reclaim ==
    /\ pc = "reclaim"
    /\ IF Cardinality(staging) > MaxOrphanStages
       THEN Unlock /\ UNCHANGED stageVars
       ELSE /\ staging' = {}
            /\ stagingPast' = IF staging = {} THEN stagingPast ELSE {{}}
            /\ Goto("work")
            /\ UNCHANGED <<dirVars, op>>
    /\ UNCHANGED <<rootVars, may, faults>>

-----------------------------------------------------------------------------
(***************************************************************************)
(* Put.                                                                     *)
(***************************************************************************)
\* ensureLocalDirectories, for the directory of the object.
EnsureDirectories ==
    /\ pc = "work" /\ op.kind = "put"
    /\ op' = [op EXCEPT !.created = entry[op.key] = "absent"]
    /\ entry' = [entry EXCEPT ![op.key] = IF @ = "absent" THEN "made" ELSE @]
    /\ Goto("stageObject")
    /\ UNCHANGED <<dir, dirPast, rootVars, stageVars, may, faults>>

\* A stage is written and synced.
StageObject ==
    /\ pc = "stageObject"
    /\ Stage(staging \cup {NewName})
    /\ op' = [op EXCEPT !.objectStage = NewName]
    /\ Goto("stageMeta")
    /\ UNCHANGED <<dirVars, rootVars, may, faults>>

StageAttributes ==
    /\ pc = "stageMeta"
    /\ Stage(staging \cup {NewName})
    /\ op' = [op EXCEPT !.metaStage = NewName]
    /\ Goto("stageJournal")
    /\ UNCHANGED <<dirVars, rootVars, may, faults>>

\* beginLocalTransaction: the journal's own stage, and its rename.
StageTransaction ==
    /\ pc = "stageJournal"
    /\ Stage(staging \cup {NewName})
    /\ Goto("journal")
    /\ UNCHANGED <<dirVars, rootVars, op, may, faults>>

\* prepareLocalTransaction
NewTransaction ==
    [key |-> op.key, value |-> op.value, objectStage |-> op.objectStage, metaStage |-> op.metaStage,
     hadBody |-> dir[op.key].body # NoFile, hadMeta |-> dir[op.key].meta # NoFile]

PublishTransaction ==
    /\ pc = "journal"
    /\ WriteJournal({NewTransaction})
    /\ Stage({op.objectStage, op.metaStage})
    /\ may' = [may EXCEPT ![op.key] = @ \cup {op.value}]
    /\ Goto("journalSync")
    /\ UNCHANGED <<dirVars, op, faults>>

SyncJournal ==
    /\ pc = "journalSync"
    /\ SyncRoot
    /\ Goto("backupMeta")
    /\ UNCHANGED <<dirVars, stageVars, op, may, faults>>

\* installLocalTransactionFile: the backup must be free and the target as it was.
Ready ==
    /\ pc = "backupMeta" => Its.metaBackup = NoFile /\ (Its.meta # NoFile) = Tx.hadMeta
    /\ pc = "backupBody" => Its.bodyBackup = NoFile /\ (Its.body # NoFile) = Tx.hadBody

\* publishLocalTransaction: the attributes first.
BackupMeta ==
    /\ pc = "backupMeta"
    /\ Ready
    /\ Change(Tx.key, [Its EXCEPT !.meta = NoFile, !.metaBackup = Its.meta])
    /\ Goto("installMeta")
    /\ UNCHANGED <<rootVars, stageVars, op, may, faults>>

InstallMetaMutFirst ==
    /\ pc = "installMeta"
    /\ Change(Tx.key, IF Tx.hadMeta THEN [Its EXCEPT !.meta = Its.metaBackup] ELSE [Its EXCEPT !.meta = Tx.value])
    /\ Stage(staging \ {Tx.metaStage})
    /\ Goto("backupBody")
    /\ UNCHANGED <<rootVars, op, may, faults>>
InstallMeta ==
    /\ pc = "installMeta"
    /\ Change(Tx.key, [Its EXCEPT !.meta = Tx.value])
    /\ Stage(staging \ {Tx.metaStage})
    /\ Goto("backupBody")
    /\ UNCHANGED <<rootVars, op, may, faults>>

BackupBody ==
    /\ pc = "backupBody"
    /\ Ready
    /\ Change(Tx.key, [Its EXCEPT !.body = NoFile, !.bodyBackup = Its.body])
    /\ Goto("installBody")
    /\ UNCHANGED <<rootVars, stageVars, op, may, faults>>

InstallBody ==
    /\ pc = "installBody"
    /\ Change(Tx.key, [Its EXCEPT !.body = Body(Tx.value)])
    /\ Stage(staging \ {Tx.objectStage})
    /\ Goto("publishSync")
    /\ UNCHANGED <<rootVars, op, may, faults>>

\* An error after the journal is published: recoverLocalTransactionAfterFailure.
PublishFails ==
    /\ pc \in {"journalSync", "backupMeta", "installMeta", "backupBody", "installBody"}
    /\ IF Ready THEN Fault ELSE UNCHANGED faults
    /\ op' = [op EXCEPT !.after = "fail"]
    /\ Goto("recover")
    /\ UNCHANGED <<dirVars, rootVars, stageVars, may>>

\* syncPublishedDirectories: the object's directory, then the ones above that
\* this Put created.
SyncPublished ==
    /\ pc = "publishSync"
    /\ Sync(op.key)
    /\ op' = [op EXCEPT !.after = "return"]
    /\ Goto(IF op.created THEN "ancestorSync" ELSE "cleanStages")
    /\ UNCHANGED <<rootVars, stageVars, may, faults>>

SyncAncestors ==
    /\ pc = "ancestorSync"
    /\ entry' = [entry EXCEPT ![op.key] = "durable"]
    /\ Goto("cleanStages")
    /\ UNCHANGED <<dir, dirPast, rootVars, stageVars, op, may, faults>>

-----------------------------------------------------------------------------
(***************************************************************************)
(* Delete: the body, then the attributes, without a journal.                *)
(***************************************************************************)
DeleteBody ==
    /\ pc = "work" /\ op.kind = "delete"
    /\ Change(op.key, [dir[op.key] EXCEPT !.body = NoFile])
    /\ op' = [op EXCEPT !.removed = dir[op.key].body # NoFile]
    /\ may' = [may EXCEPT ![op.key] = @ \cup {NoFile}]
    /\ Goto("deleteMeta")
    /\ UNCHANGED <<rootVars, stageVars, faults>>

\* An error here is returned, but the directory is synced first.
DeleteMeta ==
    /\ pc = "deleteMeta"
    /\ LET files == dir[op.key] IN
       \/ /\ Change(op.key, [files EXCEPT !.meta = NoFile])
          /\ op' = [op EXCEPT !.removed = @ \/ files.meta # NoFile]
          /\ Goto(IF op'.removed THEN "deleteSync" ELSE "return")
          /\ UNCHANGED faults
       \/ /\ files.meta # NoFile
          /\ Fault
          /\ Goto(IF op.removed THEN "deleteSync" ELSE "fail")
          /\ UNCHANGED <<dirVars, op>>
    /\ UNCHANGED <<rootVars, stageVars, may>>

\* A Delete that found nothing has synced nothing, and decides nothing: an
\* earlier Delete that was cut short may still be taken back.
DeleteSync ==
    /\ pc = "deleteSync"
    /\ Sync(op.key)
    /\ may' = [may EXCEPT ![op.key] = {NoFile}]
    /\ Goto("return")
    /\ UNCHANGED <<rootVars, stageVars, op, faults>>

-----------------------------------------------------------------------------
(***************************************************************************)
(* The end of an operation, and faults.                                     *)
(***************************************************************************)
Return ==
    /\ pc \in {"return", "fail"} \/ (pc = "work" /\ op.kind = "read")
    /\ Unlock
    /\ UNCHANGED <<rootVars, stageVars, may, faults>>

\* An error that is simply returned, a cancelled context or the end of the
\* process, which frees the lock.  Stages are removed where the code tries to,
\* as far as it gets.
Interrupted ==
    /\ pc # "idle"
    /\ Fault
    /\ Unlock
    /\ \/ UNCHANGED stageVars
       \/ /\ pc \in {"reclaim", "stageMeta", "stageJournal", "journal", "cleanStages"}
          /\ \E left \in SUBSET staging : Stage(left)
    /\ UNCHANGED <<rootVars, may>>

\* Whatever is not synced may be lost.  A directory that a Put made and did not
\* sync takes its objects with it, even those of a later Put, which found the
\* directory there and did not sync it either: `may` makes the exception.
PowerLoss ==
    /\ Fault
    /\ pc' = "idle"
    /\ op' = NoOperation
    /\ \E gone \in SUBSET {k \in Keys : entry[k] \in {"made", "left"}} :
          /\ \E now \in [Keys -> UNION {dirPast[k] : k \in Keys}] :
                /\ \A k \in Keys : now[k] \in dirPast[k]
                /\ dir' = [k \in Keys |-> IF k \in gone THEN NoFiles ELSE now[k]]
          /\ entry' = [k \in Keys |-> IF k \in gone \/ entry[k] = "absent" THEN "absent" ELSE "durable"]
          /\ may' = [k \in Keys |-> IF k \in gone /\ entry[k] = "left" THEN may[k] \cup {NoFile} ELSE may[k]]
    /\ dirPast' = [k \in Keys |-> {dir'[k]}]
    /\ journal' \in journalPast
    /\ journalPast' = {journal'}
    /\ staging' \in stagingPast
    /\ stagingPast' = {staging'}

Call ==
    \E k \in Keys :
        \/ \E value \in Values : Lock("put", k, value)
        \/ Lock("delete", k, NoOperation.value)
        \/ Lock("read", k, NoOperation.value)

Recovery == \/ Recover \/ RestoreBody \/ RollbackMeta \/ RestoreMeta
            \/ CleanStages \/ CleanBody \/ CleanMeta \/ SyncParent \/ DropJournal \/ FinishRoot
            \/ Reclaim
Put == \/ EnsureDirectories \/ StageObject \/ StageAttributes \/ StageTransaction
       \/ PublishTransaction \/ SyncJournal \/ BackupMeta \/ InstallMeta \/ BackupBody
       \/ InstallBody \/ PublishFails \/ SyncPublished \/ SyncAncestors
Delete == DeleteBody \/ DeleteMeta \/ DeleteSync

Step == Recovery \/ Put \/ Delete \/ Return
Next == Call \/ Step \/ Interrupted \/ PowerLoss

Spec == Init /\ [][Next]_vars

\* An operation that has the lock goes on, and somebody uses the bucket again.
FairSpec == Spec /\ WF_vars(Step) /\ WF_vars(Call)

-----------------------------------------------------------------------------
\* Once an operation has recovered the bucket, every object reads as one whole
\* value, body and attributes of the same Put, and as one that is still
\* possible: the last one decided, or that of a Put or Delete cut short since.
\* So nothing a successful Put stored, a finished recovery decided or a synced
\* Delete removed is undone by crashes, failures and power losses, in the
\* middle of a recovery too (publishLocalTransaction, rollbackLocalTransaction).
\* A Put that returns without an error has stored its value, although it did
\* not look again after finishLocalTransaction.
ReadsWhole == /\ pc = "work" => \A k \in Keys : Read(dir[k]) \in may[k]
              /\ pc = "return" /\ op.kind = "put" => Read(dir[op.key]) = op.value

\* Nothing decided is reopened: a recovery decides for a value that was still
\* possible, and others become possible only by the journal of a Put, by a
\* Delete, or by the loss of a directory that an earlier Put made and did not
\* sync (beginLocalTransaction, Delete, ensureLocalDirectories).
OnlyAnnounced ==
    [][\A k \in Keys :
          \/ may'[k] = may[k]
          \/ \E value \in may[k] : may'[k] = {value}
          \/ pc = "journal" /\ op.kind = "put" /\ op.key = k /\ may'[k] = may[k] \cup {op.value}
          \/ pc = "work" /\ op.kind = "delete" /\ op.key = k /\ may'[k] = may[k] \cup {NoFile}
          \/ entry[k] = "left" /\ entry'[k] = "absent" /\ may'[k] = may[k] \cup {NoFile}]_vars

\* A backup never outlives the journal that explains it, not even when a power
\* loss keeps the removal of one and loses the other (finishLocalTransaction
\* syncs the directory first): installLocalTransactionFile refuses a Put whose
\* backup name is taken.
BackupsAreJournalled ==
    \A k \in Keys : dir[k].bodyBackup # NoFile \/ dir[k].metaBackup # NoFile =>
        \E tx \in journal : tx.key = k

\* However operations are cut short, reclaimLocalOrphanStages never finds more
\* stages than it accepts: it would refuse every later operation.
StagesBounded == pc = "reclaim" => Cardinality(staging) <= MaxOrphanStages

\* A journal does not stay: some operation finishes or rolls back its
\* transaction.  The exception is a power loss that keeps the journal and loses
\* the new directory of the object (finishLocalTransaction cannot sync it).
JournalResolved ==
    journal # {} ~> (journal = {} \/ \E tx \in journal : entry[tx.key] = "absent")
=============================================================================
