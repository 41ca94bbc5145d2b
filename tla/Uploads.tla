------------------------------ MODULE Uploads -------------------------------
(***************************************************************************)
(* One resumable upload (storage/tus: store.go, scratch.go, tus.go): its    *)
(* files in the scratch directory, the durable record of its completion,    *)
(* the object in the bucket and the callbacks.  PATCH and DELETE requests   *)
(* and the drain goroutine work on it under the lock of UploadLock.         *)
(*                                                                          *)
(* A step is one change of a file, of the bucket or of an application.  Any *)
(* step may fail, and so may the next one, which covers a change that is    *)
(* made and reported as failed; the process may die between two steps.      *)
(***************************************************************************)
EXTENDS UploadLock, Sequences

CONSTANTS
    Size,         \* bound: the length of the upload in bytes
    Callbacks,    \* the orders in which deployments register the same callbacks
    MaxCalls,     \* bound: requests in one behaviour
    MaxMishaps    \* bound: failed steps and crashes in one behaviour

Names(c) == {c[i] : i \in DOMAIN c}

ASSUME UploadsAssumption ==
    /\ Size \in Nat /\ MaxCalls \in Nat /\ MaxMishaps \in Nat
    /\ \A c, d \in Callbacks : Names(c) = Names(d)

VARIABLES
    made,         \* how far Create got
    sized,        \* the info file declares the length
    bin, info,    \* the scratch files: bytes received, info present
    rec,          \* the completion record
    obj,          \* what the bucket has under the upload's key
    stale,        \* the last activity is at least the expiry ago ...
    staleThen,    \* ... and was when the sweep read the clock
    do,           \* what each actor that holds the lock does
    registered,   \* the callbacks of this process, in order
    delivered,    \* callbacks that succeeded at least once
    accepted,     \* the completion was recorded
    terminated,   \* a DELETE removed the upload
    calls, mishaps

fileVars == <<made, sized, bin, info, rec, obj>>
timeVars == <<stale, staleThen>>
histVars == <<delivered, accepted, terminated>>
boundVars == <<calls, mishaps>>
uploadVars == <<lockVars, fileVars, timeVars, do, registered, histVars, boundVars>>

Absent == -1
Record(stage, done) == [stage |-> stage, done |-> done]
NoRecord == Record("none", {})
Job(kind, step) == [kind |-> kind, step |-> step, rec |-> NoRecord, failed |-> FALSE]
NoJob == Job("none", "none")
All == UNION {Names(c) : c \in Callbacks}

UploadInit ==
    /\ LockInit /\ do = [a \in Actors |-> NoJob] /\ staleThen = FALSE /\ registered \in Callbacks
    /\ made = "no" /\ sized \in BOOLEAN /\ bin = Absent /\ info = FALSE
    /\ rec = NoRecord /\ obj \in {"none", "other"} /\ stale = FALSE
    /\ delivered = {} /\ accepted = FALSE /\ terminated = FALSE
    /\ calls = 0 /\ mishaps = 0

\* Create: the data file, then the info file; the data file is removed when that fails.
CreateBin == /\ made = "no" /\ made' = "bin" /\ bin' = 0
             /\ UNCHANGED <<lockVars, sized, info, rec, obj, timeVars, do, registered, histVars, boundVars>>
CreateInfo ==
    /\ made = "bin"
    /\ \/ made' = "yes" /\ info' = TRUE /\ UNCHANGED <<bin, mishaps>>
       \/ made' = "failed" /\ bin' = Absent /\ mishaps < MaxMishaps /\ mishaps' = mishaps + 1 /\ UNCHANGED info
    /\ UNCHANGED <<lockVars, sized, rec, obj, timeVars, do, registered, histVars, calls>>

\* localScratch.Get succeeds; IsExpired, at the time the sweep started.
Entry == info /\ bin # Absent
IsExpiredMutPending == staleThen /\ Entry
IsExpired == rec = NoRecord /\ staleThen /\ Entry

\* tusd asks for the lock of the upload, for a PATCH or a DELETE.
Request(r) ==
    /\ made = "yes" /\ calls < MaxCalls
    /\ NewLock(r)
    /\ \E kind \in {"patch", "delete"} : do' = [do EXCEPT ![r] = Job(kind, "get")]
    /\ calls' = calls + 1
    /\ UNCHANGED <<fileVars, timeVars, registered, histVars, mishaps>>

\* retryCompletions and attemptCompletion; sweepExpired, after Expired listed the upload.
Retry ==
    /\ rec # NoRecord /\ do[Drain] = NoJob
    /\ TryMaintenanceLock
    /\ do' = [do EXCEPT ![Drain] = Job("resume", "get")]
    /\ UNCHANGED <<fileVars, timeVars, registered, histVars, boundVars>>
SweepExpired ==
    /\ stale /\ Entry /\ rec = NoRecord
    /\ do[Drain] = NoJob
    /\ staleThen' = TRUE
    /\ do' = [do EXCEPT ![Drain] = Job("sweep", "listed")]
    /\ UNCHANGED <<lockVars, fileVars, stale, registered, histVars, boundVars>>
SweepListed ==
    /\ do[Drain].step = "listed"
    /\ TryMaintenanceLock
    /\ do' = [do EXCEPT ![Drain].step = "get"]
    /\ UNCHANGED <<fileVars, timeVars, registered, histVars, boundVars>>

Works(a, step) == phase[a] = "hold" /\ do[a].step = step
To(a, step) == do' = [do EXCEPT ![a].step = step]
Active == stale' = FALSE /\ staleThen' = FALSE

\* GetUpload of a request, ResumeCompletion, and the second look of sweepExpired under the lock.
AfterGetMutNeedsScratch(a) ==
    CASE do[a].kind = "patch" -> IF Entry THEN "write" ELSE "done"
      [] do[a].kind = "delete" -> IF Entry THEN "removeBin" ELSE "done"
      [] do[a].kind = "sweep" -> IF IsExpired THEN "removeBin" ELSE "done"
      [] do[a].kind = "resume" -> IF Entry THEN "load" ELSE "done"
AfterGet(a) ==
    CASE do[a].kind = "patch" -> IF Entry THEN "write" ELSE "done"
      [] do[a].kind = "delete" -> IF Entry THEN "removeBin" ELSE "done"
      [] do[a].kind = "sweep" -> IF IsExpired THEN "removeBin" ELSE "done"
      [] do[a].kind = "resume" -> IF Entry THEN "load" ELSE IF rec.stage = "persisted" THEN "deliver" ELSE "done"
Get(a) ==
    /\ Works(a, "get")
    /\ To(a, AfterGet(a))
    /\ UNCHANGED <<lockVars, fileVars, timeVars, registered, histVars, boundVars>>

\* DeclareLength rewrites the info file.  WriteChunk stores what arrives, and tusd finishes the
\* upload with its last byte.  What tusd makes of a PATCH for an upload that has all its bytes is
\* left open.
DeclareLength(a) ==
    /\ Works(a, "write") /\ ~sized
    /\ sized' = TRUE
    /\ Active
    /\ UNCHANGED <<lockVars, made, bin, info, rec, obj, do, registered, histVars, boundVars>>
WriteChunk(a) ==
    /\ Works(a, "write")
    /\ \E n \in bin..Size :
        /\ bin' = n
        /\ IF n > bin THEN Active ELSE UNCHANGED timeVars
        /\ \/ n = Size /\ sized /\ To(a, "load")
           \/ (n = bin \/ n < Size \/ ~sized) /\ To(a, "done")
    /\ UNCHANGED <<lockVars, made, sized, info, rec, obj, registered, histVars, boundVars>>

\* FinishUpload and resumeCompletion: where the record says the completion got to.
LoadCompletion(a) ==
    /\ Works(a, "load")
    /\ do' = [do EXCEPT ![a].rec = rec,
                        ![a].step = CASE rec.stage = "none" -> "prepare"
                                      [] rec.stage = "prepared" -> "putting"
                                      [] rec.stage = "putting" -> "put"
                                      [] rec.stage = "persisted" -> "deliver"]
    /\ UNCHANGED <<lockVars, fileVars, timeVars, registered, histVars, boundVars>>
SaveCompletion(a, record, step) ==
    /\ rec' = record
    /\ do' = [do EXCEPT ![a].rec = record, ![a].step = step]
    /\ UNCHANGED <<lockVars, made, sized, bin, info, obj, timeVars, registered, boundVars>>
Prepare(a) ==
    /\ Works(a, "prepare")
    /\ SaveCompletion(a, Record("prepared", {}), "putting")
    /\ accepted' = TRUE
    /\ UNCHANGED <<delivered, terminated>>
CheckpointPut(a) ==
    /\ Works(a, "putting")
    /\ SaveCompletion(a, [do[a].rec EXCEPT !.stage = "putting"], "put")
    /\ UNCHANGED histVars

\* reconcileObject: the bytes are those of the record, and the bucket has them afterwards.
ReconcileObject(a) ==
    /\ Works(a, "put")
    /\ bin = Size
    /\ obj' = "upload"
    /\ To(a, "persist")
    /\ UNCHANGED <<lockVars, made, sized, bin, info, rec, timeVars, registered, histVars, boundVars>>
CheckpointPersisted(a) ==
    /\ Works(a, "persist")
    /\ SaveCompletion(a, [do[a].rec EXCEPT !.stage = "persisted"], "deliver")
    /\ UNCHANGED histVars

\* deliverCompletion reads the record again; runCallbacks runs the callbacks that it does not name,
\* with a checkpoint after each.
DeliverCompletion(a) ==
    /\ Works(a, "deliver")
    /\ do' = [do EXCEPT ![a].rec = rec, ![a].step = IF rec.stage = "persisted" THEN "call" ELSE "done"]
    /\ UNCHANGED <<lockVars, fileVars, timeVars, registered, histVars, boundVars>>
Pending(a) == {i \in DOMAIN registered : registered[i] \notin do[a].rec.done}
RunCallback(a) ==
    /\ Works(a, "call")
    /\ \/ Pending(a) = {} /\ To(a, "removeBin") /\ UNCHANGED delivered
       \/ \E i \in Pending(a) :
          /\ \A j \in Pending(a) : i <= j
          /\ delivered' = delivered \cup {registered[i]}
          /\ do' = [do EXCEPT ![a].rec.done = @ \cup {registered[i]}, ![a].step = "checkpoint"]
    /\ UNCHANGED <<lockVars, fileVars, timeVars, registered, accepted, terminated, boundVars>>
CheckpointCallback(a) ==
    /\ Works(a, "checkpoint")
    /\ SaveCompletion(a, do[a].rec, "call")
    /\ UNCHANGED histVars

\* RemoveUpload tries both files, whatever becomes of the first; a completed upload is then
\* acknowledged by DeleteCompletion.
RemoveBin(a) ==
    /\ Works(a, "removeBin")
    /\ \/ bin' = Absent /\ To(a, "removeInfo") /\ UNCHANGED mishaps
       \/ /\ bin # Absent /\ mishaps < MaxMishaps /\ mishaps' = mishaps + 1
          /\ do' = [do EXCEPT ![a].failed = TRUE, ![a].step = "removeInfo"]
          /\ UNCHANGED bin
    /\ terminated' = (terminated \/ do[a].kind = "delete")
    /\ UNCHANGED <<lockVars, made, sized, info, rec, obj, timeVars, registered, delivered, accepted, calls>>
RemoveInfo(a) ==
    /\ Works(a, "removeInfo")
    /\ info' = FALSE
    /\ To(a, IF do[a].kind \in {"delete", "sweep"} \/ do[a].failed THEN "done" ELSE "acknowledge")
    /\ UNCHANGED <<lockVars, made, sized, bin, rec, obj, timeVars, registered, histVars, boundVars>>
DeleteCompletion(a) ==
    /\ Works(a, "acknowledge")
    /\ rec' = NoRecord
    /\ To(a, "done")
    /\ UNCHANGED <<lockVars, made, sized, bin, info, obj, timeVars, registered, histVars, boundVars>>

\* A step fails or the request's context ends: the error goes to the caller, which unlocks.
Fails(a) ==
    /\ phase[a] = "hold" /\ do[a].step # "done"
    /\ mishaps < MaxMishaps /\ mishaps' = mishaps + 1
    /\ To(a, "done")
    /\ UNCHANGED <<lockVars, fileVars, timeVars, registered, histVars, calls>>

\* The process dies and another one starts on the same scratch directory.
Crash ==
    /\ mishaps < MaxMishaps /\ mishaps' = mishaps + 1
    /\ LockRestart /\ do' = [a \in Actors |-> NoJob] /\ staleThen' = FALSE /\ registered' \in Callbacks
    /\ UNCHANGED <<fileVars, stale, histVars, calls>>

\* The expiry passes without activity.
Expires ==
    /\ ~stale /\ stale' = TRUE
    /\ UNCHANGED <<lockVars, fileVars, staleThen, do, registered, histVars, boundVars>>

\* Locking and unlocking around the work; a job ends with the release.
Locking(r) ==
    /\ Proceeds(r) \/ (do[r].step = "done" /\ UnlockUpload(r))
    /\ UNCHANGED <<fileVars, timeVars, do, registered, histVars, boundVars>>
GivesUp(r) ==
    /\ TimesOut(r)
    /\ UNCHANGED <<fileVars, timeVars, do, registered, histVars, boundVars>>
DrainLocking ==
    /\ MaintenanceLocked \/ (do[Drain].step = "done" /\ MaintenanceUnlock)
    /\ UNCHANGED <<fileVars, timeVars, do, registered, histVars, boundVars>>
Releasing(a) ==
    /\ Release(a)
    /\ do' = [do EXCEPT ![a] = NoJob]
    /\ staleThen' = (staleThen /\ a # Drain)
    /\ UNCHANGED <<fileVars, stale, registered, histVars, boundVars>>

Finish(a) == \/ LoadCompletion(a) \/ Prepare(a) \/ CheckpointPut(a) \/ ReconcileObject(a)
             \/ CheckpointPersisted(a) \/ DeliverCompletion(a) \/ RunCallback(a) \/ CheckpointCallback(a)
Remove(a) == RemoveBin(a) \/ RemoveInfo(a) \/ DeleteCompletion(a)
Work(a) == Get(a) \/ Finish(a) \/ Remove(a)
Patch(a) == DeclareLength(a) \/ WriteChunk(a)
Maintain == Retry \/ SweepExpired \/ SweepListed \/ DrainLocking

UploadNext ==
    \/ CreateBin \/ CreateInfo
    \/ \E r \in Requests : Request(r) \/ Locking(r) \/ GivesUp(r) \/ Patch(r)
    \/ \E a \in Actors : Work(a) \/ Fails(a) \/ Releasing(a)
    \/ Maintain \/ Crash \/ Expires

UploadSpec == UploadInit /\ [][UploadNext]_uploadVars

-----------------------------------------------------------------------------
\* Once its completion is recorded the bytes of an upload are not lost, unless a DELETE removes
\* them: the scratch files stay whole until the bucket has them, callbacks run only then, and the
\* record goes when each has succeeded, whatever failed or died meanwhile.  A sweep removes nothing
\* that was written to after it read the clock (FinishUpload, deliverCompletion, sweepExpired).
UploadKept ==
    /\ accepted /\ ~terminated => obj = "upload" \/ (Entry /\ bin = Size)
    /\ rec.stage = "persisted" \/ delivered # {} => obj = "upload"
    /\ accepted /\ ~terminated /\ rec = NoRecord => delivered = All
    /\ do[Drain].kind = "sweep" /\ Works(Drain, "removeBin") => staleThen

\* The completion record only advances, whoever saves it and whatever copy it read: one stage at a
\* time, persisted once the bucket has the upload, then callback by callback that succeeded; it goes
\* only when it names every callback, so one that it names is not run again (saveCompletion,
\* runCallbacks, DeleteCompletion).
RecordAdvances ==
    [][rec' # rec =>
          \/ rec = NoRecord /\ rec' = Record("prepared", {})
          \/ rec.stage = "prepared" /\ rec' = [rec EXCEPT !.stage = "putting"]
          \/ rec.stage = "putting" /\ obj = "upload" /\ rec' = [rec EXCEPT !.stage = "persisted"]
          \/ rec.stage = "persisted" /\ \E c \in delivered \ rec.done : rec' = [rec EXCEPT !.done = @ \cup {c}]
          \/ rec.stage = "persisted" /\ rec.done = All /\ rec' = NoRecord]_uploadVars

\* A request that waits for the lock gets it: the holder was asked to let go, by the request itself
\* or when it got the lock, and answers; no timeout is needed (notifyWaiters).  A recorded completion
\* is carried through once no client keeps the lock with the body of its PATCH, unless a DELETE took
\* its bytes (retryCompletions, ResumeCompletion).  "Leads to its own negation" is written []<>.
UploadsProgress ==
    /\ \A r \in Requests : []<>(phase[r] # "wait")
    /\ <>[](\A r \in Requests : ~Works(r, "write")) => []<>(rec = NoRecord \/ terminated)

\* Lock, Unlock and the steps of a job go on by themselves; a holder reads the body of its request
\* until it is asked to stop; the drain goroutine keeps looking for completions.
UploadFair ==
    /\ \A r \in Requests : /\ WF_uploadVars(Locking(r))
                           /\ WF_uploadVars(asked[r] /\ WriteChunk(r))
    /\ \A a \in Actors : WF_uploadVars(Work(a)) /\ WF_uploadVars(Releasing(a))
    /\ WF_uploadVars(Maintain)
UploadFairSpec == UploadSpec /\ UploadFair
=============================================================================
