--------------------------- MODULE UploadsProofs ----------------------------
(***************************************************************************)
(* Resumable uploads, for any number of requests, callbacks and mishaps:    *)
(* the lock of an upload is exclusive, the work on an upload uses the lock  *)
(* as its specification says, and what is kept of an upload is kept.        *)
(***************************************************************************)
EXTENDS Uploads, FiniteSetTheorems, TLAPS

(***************************************************************************)
(*                               The lock.                                 *)
(***************************************************************************)
(***************************************************************************)
(* The types of what exclusion depends on.                                 *)
(***************************************************************************)
LockStates == [refs : Nat, held : BOOLEAN, owner : SUBSET Requests, wake : SUBSET Requests,
               queue : SUBSET Requests]
LockTypes ==
    /\ phase \in [Actors -> Phases]
    /\ at \in [Actors -> States \cup {Nil}]
    /\ current \in States \cup {Nil}
    /\ state \in [States -> LockStates]

(***************************************************************************)
(* A state that somebody refers to is counted right and is the one in the   *)
(* map, so that all who refer to a state refer to the same.                 *)
(***************************************************************************)
Users(s) == {a \in Actors : at[a] = s}
References ==
    /\ \A a \in Actors : phase[a] = "idle" <=> at[a] = Nil
    /\ \A s \in States : state[s].refs = Cardinality(Users(s))
    /\ \A a \in Actors : at[a] # Nil => current = at[a]

(***************************************************************************)
(* Who was given the lock, noticed or not, is alone and keeps it marked as  *)
(* held; who is in a queue waits there.                                     *)
(***************************************************************************)
Exclusion ==
    /\ \A a, b \in Actors : HasLock(a) /\ HasLock(b) => a = b
    /\ \A a \in Actors : HasLock(a) => state[at[a]].held
    /\ \A s \in States : \A r \in state[s].queue : at[r] = s /\ phase[r] \in {"wake", "wait"}

LockInv == LockTypes /\ References /\ Exclusion

-----------------------------------------------------------------------------
(***************************************************************************)
(* The users of a state are finitely many.                                 *)
(***************************************************************************)
LEMMA UsersFinite == ASSUME NEW s PROVE IsFiniteSet(Users(s))
<1>1. IsFiniteSet(Actors)
  BY UploadLockAssumption, FS_AddElement DEF Actors
<1>2. Users(s) \in SUBSET Actors
  BY DEF Users
<1> QED BY <1>1, <1>2, FS_Subset

(***************************************************************************)
(* A change of one state is a change of its record.                        *)
(***************************************************************************)
LEMMA StateChanged ==
    ASSUME state \in [States -> LockStates], NEW s \in States, NEW y \in LockStates,
           state' = [state EXCEPT ![s] = y]
    PROVE  /\ state' \in [States -> LockStates]
           /\ state'[s] = y
           /\ \A t \in States \ {s} : state'[t] = state[t]
OBVIOUS

(***************************************************************************)
(* A step that changes no reference keeps References.                      *)
(***************************************************************************)
LEMMA SameReferences ==
    ASSUME References, at' = at, current' = current,
           \A a \in Actors : phase'[a] = "idle" <=> phase[a] = "idle",
           \A s \in States : state'[s].refs = state[s].refs
    PROVE  References'
BY DEF References, Users

(***************************************************************************)
(* Nobody refers to a state at first, nor after a restart.                 *)
(***************************************************************************)
LEMMA LockInitInv == LockInit => LockInv
<1> SUFFICES ASSUME LockInit PROVE LockInv
  OBVIOUS
<1>1. LockTypes
  BY DEF LockInit, LockTypes, LockStates, NewState, Phases
<1>2. References
  <2>1. \A s \in States : Users(s) = {}
    BY UploadLockAssumption DEF LockInit, Users
  <2>2. \A s \in States : state[s].refs = 0
    BY DEF LockInit, NewState
  <2> QED BY <2>1, <2>2, FS_EmptySet DEF LockInit, References
<1>3. Exclusion
  BY DEF LockInit, Exclusion, HasLock, NewState
<1> QED BY <1>1, <1>2, <1>3 DEF LockInv

LEMMA LockRestartInv == LockRestart => LockInv'
<1> SUFFICES ASSUME LockRestart PROVE LockInv'
  OBVIOUS
<1>1. LockTypes'
  BY DEF LockRestart, LockTypes, LockStates, NewState, Phases
<1>2. References'
  <2>1. \A s \in States : Users(s)' = {}
    BY UploadLockAssumption DEF LockRestart, Users
  <2>2. \A s \in States : state'[s].refs = 0
    BY DEF LockRestart, NewState
  <2> QED BY <2>1, <2>2, FS_EmptySet, Zenon DEF LockRestart, References
<1>3. Exclusion'
  BY DEF LockRestart, Exclusion, HasLock, NewState
<1> QED BY <1>1, <1>2, <1>3 DEF LockInv

(***************************************************************************)
(* retain: a new state has no user, and the one in the map gets one more.   *)
(***************************************************************************)
LEMMA RetainInv ==
    ASSUME LockInv, NEW a \in Actors, phase[a] = "idle", Retain(a), Goes(a, "new")
    PROVE  LockInv'
<1>0. PICK s : s = IF current = Nil THEN Unreferenced ELSE current
  OBVIOUS
<1> DEFINE before == IF current = Nil THEN NewState ELSE state[s]
<1>1. current = Nil => s \in States /\ Unused(s)
  BY <1>0 DEF Retain, Unreferenced
<1>2. s \in States /\ s # Nil
  BY <1>0, <1>1, UploadLockAssumption DEF LockInv, LockTypes
<1>3. /\ current' = s
      /\ at' = [at EXCEPT ![a] = s]
      /\ state' = [state EXCEPT ![s] = [before EXCEPT !.refs = @ + 1]]
      /\ phase' = [phase EXCEPT ![a] = "new"]
  BY <1>0 DEF Retain, Goes
<1>4. /\ before \in LockStates
      /\ before.refs = Cardinality(Users(s))
      /\ \A r \in before.queue : at[r] = s /\ phase[r] \in {"wake", "wait"}
      /\ current # Nil => before = state[s]
  <2>1. CASE current = Nil
    <3>1. before = NewState
      BY <2>1
    <3>2. Users(s) = {}
      BY <1>1, <2>1 DEF Users, Unused
    <3> QED BY <2>1, <3>1, <3>2, FS_EmptySet DEF NewState, LockStates
  <2>2. CASE current # Nil
    BY <1>0, <1>2, <2>2 DEF LockInv, LockTypes, References, Exclusion
  <2> QED BY <2>1, <2>2
<1> HIDE DEF before
<1>5. /\ state'[s] \in LockStates
      /\ state'[s].refs = before.refs + 1
      /\ state'[s].held = before.held
      /\ state'[s].queue = before.queue
      /\ \A t \in States \ {s} : state'[t] = state[t]
  BY <1>2, <1>3, <1>4, SMTT(30) DEF LockInv, LockTypes, LockStates
<1>6. LockTypes'
  <2>1. state' \in [States -> LockStates]
    BY <1>2, <1>3, <1>5 DEF LockInv, LockTypes
  <2> QED BY <1>2, <1>3, <2>1 DEF LockInv, LockTypes, Phases
<1>7. at[a] = Nil /\ \A b \in Actors \ {a} : at'[b] = at[b] /\ phase'[b] = phase[b]
  BY <1>3 DEF LockInv, LockTypes, References
<1>8. at'[a] = s /\ phase'[a] = "new"
  BY <1>3 DEF LockInv, LockTypes
<1>9. \A b \in Actors : at[b] # Nil => at[b] = s /\ current # Nil /\ current = s
  BY <1>0 DEF LockInv, References
<1>10. References'
  <2>1. \A b \in Actors : phase'[b] = "idle" <=> at'[b] = Nil
    BY <1>2, <1>7, <1>8, SMTT(30) DEF LockInv, References
  <2>2. Users(s)' = Users(s) \cup {a} /\ a \notin Users(s)
    BY <1>2, <1>7, <1>8 DEF Users
  <2>3. state'[s].refs = Cardinality(Users(s)')
    <3>1. Cardinality(Users(s) \cup {a}) = Cardinality(Users(s)) + 1
      BY <2>2, UsersFinite, FS_AddElement, Zenon
    <3> QED BY <1>4, <1>5, <2>2, <3>1
  <2>4. \A t \in States \ {s} : Users(t)' = Users(t)
    BY <1>7, <1>8, UploadLockAssumption DEF Users
  <2>5. \A t \in States : state'[t].refs = Cardinality(Users(t)')
    BY <1>5, <2>3, <2>4, SMTT(30) DEF LockInv, References
  <2>6. \A b \in Actors : at'[b] # Nil => current' = at'[b]
    BY <1>3, <1>7, <1>8, <1>9
  <2> QED BY <2>1, <2>5, <2>6 DEF References, Users
<1>11. Exclusion'
  <2>1. \A b \in Actors : HasLock(b)' => HasLock(b) /\ b # a /\ at[b] = s /\ before = state[s]
    <3> SUFFICES ASSUME NEW b \in Actors, HasLock(b)' PROVE HasLock(b) /\ b # a /\ at[b] = s /\ before = state[s]
      OBVIOUS
    <3>1. b # a
      BY <1>8 DEF HasLock
    <3>2. phase'[b] = phase[b] /\ at'[b] = at[b] /\ phase[b] # "idle"
      BY <1>7, <3>1 DEF HasLock
    <3>3. at[b] = s /\ before = state[s]
      BY <1>4, <1>9, <3>2 DEF LockInv, References
    <3> QED BY <1>5, <3>1, <3>2, <3>3 DEF HasLock
  <2>2. \A b \in Actors : HasLock(b)' => state'[at'[b]].held
    BY <1>5, <1>7, <2>1, SMTT(30) DEF LockInv, Exclusion
  <2>3. \A t \in States : \A r \in state'[t].queue : at'[r] = t /\ phase'[r] \in {"wake", "wait"}
    <3> SUFFICES ASSUME NEW t \in States, NEW r \in state'[t].queue
                 PROVE  at'[r] = t /\ phase'[r] \in {"wake", "wait"}
      OBVIOUS
    <3>1. at[r] = t /\ phase[r] \in {"wake", "wait"}
      BY <1>4, <1>5, SMTT(30) DEF LockInv, Exclusion
    <3>2. r \in Actors /\ r # a
      BY <3>1, <1>6 DEF LockTypes, LockStates, Actors
    <3> QED BY <1>7, <3>1, <3>2
  <2> QED BY <2>1, <2>2, <2>3, SMTT(30) DEF LockInv, Exclusion
<1> QED BY <1>6, <1>10, <1>11 DEF LockInv

(***************************************************************************)
(* release: the entry of the map goes with its last user only.             *)
(***************************************************************************)
LEMMA ReleaseInv ==
    ASSUME LockInv, NEW a \in Actors, Release(a)
    PROVE  LockInv'
<1>1. PICK s : s = at[a]
  OBVIOUS
<1>2. s \in States /\ s # Nil /\ current = s /\ phase[a] = "drop"
  BY <1>1, UploadLockAssumption DEF Release, LockInv, LockTypes, References
<1>3. /\ state' = [state EXCEPT ![s].refs = @ - 1]
      /\ current' = IF state[s].refs = 1 THEN Nil ELSE current
      /\ at' = [at EXCEPT ![a] = Nil]
      /\ phase' = [phase EXCEPT ![a] = "idle"]
  BY <1>1, <1>2 DEF Release, Goes
<1>4. /\ \A b \in Actors \ {a} : at'[b] = at[b] /\ phase'[b] = phase[b]
      /\ at'[a] = Nil /\ phase'[a] = "idle"
  BY <1>3 DEF LockInv, LockTypes
<1>5. Users(s)' = Users(s) \ {a} /\ a \in Users(s)
  BY <1>1, <1>2, <1>4 DEF Users
<1>6. state[s].refs = Cardinality(Users(s))
  BY <1>2 DEF LockInv, References
<1>7. Cardinality(Users(s)') = state[s].refs - 1 /\ Cardinality(Users(s)') \in Nat
  <2>1. IsFiniteSet(Users(s) \ {a}) /\ Cardinality(Users(s) \ {a}) = Cardinality(Users(s)) - 1
    BY <1>5, UsersFinite, FS_RemoveElement
  <2> QED BY <1>5, <1>6, <2>1, FS_CardinalityType
<1>8. /\ \A t \in States : state'[t].held = state[t].held /\ state'[t].queue = state[t].queue
      /\ \A t \in States \ {s} : state'[t] = state[t]
      /\ state'[s].refs = state[s].refs - 1
      /\ state' \in [States -> LockStates]
  BY <1>2, <1>3, <1>7, SMTT(30) DEF LockInv, LockTypes, LockStates
<1>9. LockTypes'
  BY <1>3, <1>8 DEF LockInv, LockTypes, Phases
<1>10. References'
  <2>1. \A b \in Actors : phase'[b] = "idle" <=> at'[b] = Nil
    BY <1>4 DEF LockInv, References
  <2>2. \A t \in States \ {s} : Users(t)' = Users(t)
    BY <1>1, <1>4, UploadLockAssumption DEF Users
  <2>3. \A t \in States : state'[t].refs = Cardinality(Users(t)')
    BY <1>7, <1>8, <2>2 DEF LockInv, References
  <2>4. \A b \in Actors : at'[b] # Nil => current' = at'[b]
    <3> SUFFICES ASSUME NEW b \in Actors, at'[b] # Nil PROVE current' = at'[b]
      OBVIOUS
    <3>1. b # a /\ at'[b] = at[b] /\ at[b] = s
      BY <1>2, <1>4 DEF LockInv, References
    <3>2. b \in Users(s)'
      BY <1>5, <3>1 DEF Users
    <3>3. Cardinality(Users(s)') # 0
      BY <1>5, <3>2, UsersFinite, FS_RemoveElement, FS_EmptySet, Zenon
    <3> QED BY <1>2, <1>3, <1>7, <3>1, <3>3, SMTT(30)
  <2> QED BY <2>1, <2>3, <2>4 DEF References, Users
<1>11. Exclusion'
  <2>1. \A b \in Actors : HasLock(b)' => HasLock(b) /\ b # a /\ at'[b] = at[b] /\ at[b] = s
    <3> SUFFICES ASSUME NEW b \in Actors, HasLock(b)' PROVE HasLock(b) /\ b # a /\ at'[b] = at[b] /\ at[b] = s
      OBVIOUS
    <3>1. b # a
      BY <1>4 DEF HasLock
    <3>2. phase'[b] = phase[b] /\ at'[b] = at[b] /\ phase[b] # "idle"
      BY <1>4, <3>1 DEF HasLock
    <3>3. at[b] = s
      BY <1>2, <3>2 DEF LockInv, References
    <3> QED BY <1>2, <1>8, <3>1, <3>2, <3>3 DEF HasLock
  <2>2. \A b \in Actors : HasLock(b)' => state'[at'[b]].held
    BY <1>2, <1>8, <2>1, SMTT(30) DEF LockInv, Exclusion
  <2>3. \A t \in States : \A r \in state'[t].queue : at'[r] = t /\ phase'[r] \in {"wake", "wait"}
    <3> SUFFICES ASSUME NEW t \in States, NEW r \in state'[t].queue
                 PROVE  at'[r] = t /\ phase'[r] \in {"wake", "wait"}
      OBVIOUS
    <3>1. at[r] = t /\ phase[r] \in {"wake", "wait"}
      BY <1>8 DEF LockInv, Exclusion
    <3>2. r \in Actors /\ r # a
      BY <1>2, <1>9, <3>1 DEF LockTypes, LockStates, Actors
    <3> QED BY <1>4, <3>1, <3>2
  <2> QED BY <2>1, <2>2, <2>3 DEF LockInv, Exclusion
<1> QED BY <1>9, <1>10, <1>11 DEF LockInv

(***************************************************************************)
(* The lock is taken while nobody has it: Lock of a request, or the try of  *)
(* the drain goroutine.                                                     *)
(***************************************************************************)
LEMMA TakeInv ==
    ASSUME LockInv, NEW a \in Actors, phase[a] = "new", ~state[at[a]].held, Goes(a, "hold"),
           at' = at, current' = current, state' \in [States -> LockStates],
           state'[at[a]].held,
           \A t \in States : state'[t].refs = state[t].refs /\ state'[t].queue = state[t].queue
    PROVE  LockInv'
<1>1. at[a] \in States /\ at[a] # Nil
  BY UploadLockAssumption DEF LockInv, LockTypes, References
<1>2. /\ \A b \in Actors \ {a} : phase'[b] = phase[b]
      /\ phase'[a] = "hold"
      /\ phase' \in [Actors -> Phases]
  BY DEF Goes, LockInv, LockTypes, Phases
<1>3. LockTypes'
  BY <1>2 DEF LockInv, LockTypes
<1>4. References'
  <2>1. \A b \in Actors : phase'[b] = "idle" <=> phase[b] = "idle"
    BY <1>2
  <2> QED BY <2>1, SameReferences DEF LockInv
<1>5. \A b \in Actors : ~HasLock(b)
  <2> SUFFICES ASSUME NEW b \in Actors, HasLock(b) PROVE FALSE
    OBVIOUS
  <2>1. phase[b] # "idle"
    BY DEF HasLock
  <2>2. at[b] = at[a]
    BY <1>1, <2>1 DEF LockInv, References
  <2> QED BY <2>2 DEF LockInv, Exclusion
<1>6. \A b \in Actors : HasLock(b)' => b = a
  <2> SUFFICES ASSUME NEW b \in Actors, b # a, HasLock(b)' PROVE FALSE
    OBVIOUS
  <2>1. phase'[b] = phase[b] /\ phase[b] # "idle"
    BY <1>2 DEF HasLock
  <2>2. at[b] \in States
    BY <2>1 DEF LockInv, LockTypes, References
  <2> QED BY <1>5, <2>1, <2>2 DEF HasLock
<1>7. \A t \in States : \A r \in state'[t].queue : at'[r] = t /\ phase'[r] \in {"wake", "wait"}
  <2> SUFFICES ASSUME NEW t \in States, NEW r \in state'[t].queue
               PROVE  at'[r] = t /\ phase'[r] \in {"wake", "wait"}
    OBVIOUS
  <2>1. at[r] = t /\ phase[r] \in {"wake", "wait"} /\ r \in Actors
    BY DEF LockInv, LockTypes, LockStates, Exclusion, Actors
  <2> QED BY <1>2, <2>1
<1> QED BY <1>3, <1>4, <1>6, <1>7 DEF LockInv, Exclusion

(***************************************************************************)
(* A request goes on inside Lock: it takes or leaves its place in the queue *)
(* or notices the grant, and has the lock afterwards only if it had it      *)
(* before.                                                                  *)
(***************************************************************************)
LEMMA MoveInv ==
    ASSUME LockInv, NEW r \in Requests, NEW to \in Phases \ {"idle"}, Goes(r, to),
           phase[r] # "idle", at' = at, current' = current, state' \in [States -> LockStates],
           \A t \in States : /\ state'[t].refs = state[t].refs /\ state'[t].held = state[t].held
                             /\ \A q \in Requests \ {r} : q \in state'[t].queue <=> q \in state[t].queue,
           HasLock(r)' => HasLock(r),
           \A t \in States : r \in state'[t].queue => t = at[r] /\ to \in {"wake", "wait"}
    PROVE  LockInv'
<1>1. /\ r \in Actors /\ r # Drain
      /\ \A b \in Actors \ {r} : phase'[b] = phase[b]
      /\ phase'[r] = to
      /\ phase' \in [Actors -> Phases]
  BY UploadLockAssumption DEF Goes, LockInv, LockTypes, Actors
<1>2. LockTypes'
  BY <1>1 DEF LockInv, LockTypes
<1>3. References'
  <2>1. \A b \in Actors : phase'[b] = "idle" <=> phase[b] = "idle"
    BY <1>1
  <2> QED BY <2>1, SameReferences, ZenonT(30) DEF LockInv
<1>4. \A b \in Actors : HasLock(b)' => HasLock(b) /\ at[b] \in States
  <2> SUFFICES ASSUME NEW b \in Actors, HasLock(b)' PROVE HasLock(b) /\ at[b] \in States
    OBVIOUS
  <2>1. phase[b] # "idle"
    BY <1>1 DEF HasLock
  <2>2. at[b] \in States
    BY <2>1 DEF LockInv, LockTypes, References
  <2>3. CASE b # r
    BY <1>1, <2>2, <2>3, Zenon DEF HasLock
  <2> QED BY <2>2, <2>3
<1>5. \A b \in Actors : HasLock(b)' => state'[at'[b]].held
  BY <1>4 DEF LockInv, Exclusion
<1>6. \A t \in States : \A q \in state'[t].queue : at'[q] = t /\ phase'[q] \in {"wake", "wait"}
  <2> SUFFICES ASSUME NEW t \in States, NEW q \in state'[t].queue
               PROVE  at'[q] = t /\ phase'[q] \in {"wake", "wait"}
    OBVIOUS
  <2>1. q \in Requests /\ q \in Actors
    BY DEF LockStates, Actors
  <2>2. CASE q # r
    BY <1>1, <2>1, <2>2, SMTT(30) DEF LockInv, Exclusion
  <2>3. CASE q = r
    BY <1>1, <2>3
  <2> QED BY <2>2, <2>3, Zenon
<1> QED BY <1>2, <1>3, <1>4, <1>5, <1>6, Zenon DEF LockInv, Exclusion

(***************************************************************************)
(* The drain goroutine finds the lock held and leaves.                     *)
(***************************************************************************)
LEMMA DrainDropsInv ==
    ASSUME LockInv, phase[Drain] = "new", Goes(Drain, "drop"), UNCHANGED <<at, current, state>>
    PROVE  LockInv'
<1>1. /\ Drain \in Actors
      /\ \A b \in Actors \ {Drain} : phase'[b] = phase[b]
      /\ phase'[Drain] = "drop"
      /\ phase' \in [Actors -> Phases]
  BY DEF Goes, LockInv, LockTypes, Actors, Phases
<1>2. References'
  <2>1. \A b \in Actors : phase'[b] = "idle" <=> phase[b] = "idle"
    BY <1>1
  <2> QED BY <2>1, SameReferences DEF LockInv
<1>3. \A b \in Actors : HasLock(b)' => HasLock(b)
  BY <1>1 DEF HasLock
<1>4. \A t \in States : \A q \in state[t].queue : q \in Actors \ {Drain}
  BY UploadLockAssumption DEF LockInv, LockTypes, LockStates, Actors
<1> QED BY <1>1, <1>2, <1>3, <1>4 DEF LockInv, LockTypes, Exclusion

(***************************************************************************)
(* handoff: the one who unlocks was alone, and the next one in the queue    *)
(* has the lock from then on.                                               *)
(***************************************************************************)
LEMMA HandoffInv ==
    ASSUME LockInv, NEW a \in Actors, phase[a] = "hold", Handoff(at[a]), Goes(a, "drop"),
           at' = at, current' = current
    PROVE  LockInv'
<1>1. PICK s : s = at[a]
  OBVIOUS
<1>2. s \in States /\ HasLock(a) /\ state[s].held
  BY <1>1, ZenonT(30) DEF LockInv, LockTypes, References, Exclusion, HasLock
<1>3. /\ \A b \in Actors \ {a} : phase'[b] = phase[b]
      /\ phase'[a] = "drop"
      /\ phase' \in [Actors -> Phases]
  BY DEF Goes, LockInv, LockTypes, Phases
<1>4. \A b \in Actors \ {a} : ~HasLock(b)
  BY <1>2 DEF LockInv, Exclusion
<1> DEFINE Gives(next) ==
        /\ state' \in [States -> LockStates]
        /\ \A t \in States : state'[t].refs = state[t].refs
        /\ \A t \in States \ {s} : state'[t] = state[t]
        /\ state'[s].queue = state[s].queue \ next
        /\ next # {} => state'[s].held
<1>5. PICK given \in SUBSET state[s].queue : Gives(given) /\ \A q, w \in given : q = w
  <2>1. ASSUME state[s].queue = {},
               state' = [state EXCEPT ![s].held = FALSE, ![s].owner = {}, ![s].wake = {}]
        PROVE  Gives({})
    <3>1. PICK y : y = [[[state[s] EXCEPT !.held = FALSE] EXCEPT !.owner = {}] EXCEPT !.wake = {}]
      OBVIOUS
    <3>2. state[s] \in LockStates /\ state \in [States -> LockStates]
      BY <1>2 DEF LockInv, LockTypes
    <3>3. y \in LockStates /\ y.refs = state[s].refs /\ y.queue = state[s].queue
      BY <3>1, <3>2, Zenon DEF LockStates
    <3>4. state' = [state EXCEPT ![s] = y]
      BY <1>2, <2>1, <3>1, <3>2, Zenon
    <3> QED BY <1>2, <3>2, <3>3, <3>4, StateChanged
  <2>2. ASSUME NEW next \in state[s].queue,
               state' = [state EXCEPT ![s].queue = @ \ {next}, ![s].owner = {next}, ![s].wake = {next}]
        PROVE  Gives({next})
    <3>1. PICK y : y = [[[state[s] EXCEPT !.queue = @ \ {next}] EXCEPT !.owner = {next}] EXCEPT !.wake = {next}]
      OBVIOUS
    <3>2. state[s] \in LockStates /\ state \in [States -> LockStates] /\ next \in Requests
      BY <1>2 DEF LockInv, LockTypes, LockStates
    <3>3. y \in LockStates /\ y.refs = state[s].refs /\ y.queue = state[s].queue \ {next} /\ y.held = state[s].held
      BY <3>1, <3>2, Zenon DEF LockStates
    <3>4. state' = [state EXCEPT ![s] = y]
      BY <1>2, <2>2, <3>1, <3>2, Zenon
    <3> QED BY <1>2, <3>2, <3>3, <3>4, StateChanged, Zenon
  <2> HIDE DEF Gives
  <2>3. CASE state[s].queue = {} /\ state' = [state EXCEPT ![s].held = FALSE, ![s].owner = {}, ![s].wake = {}]
    BY <2>1, <2>3
  <2>4. CASE \E next \in state[s].queue :
               state' = [state EXCEPT ![s].queue = @ \ {next}, ![s].owner = {next}, ![s].wake = {next}]
    <3>1. PICK next \in state[s].queue : Gives({next})
      BY <2>2, <2>4, Zenon
    <3>2. {next} \in SUBSET state[s].queue /\ \A q, w \in {next} : q = w
      OBVIOUS
    <3> QED BY <3>1, <3>2, Zenon
  <2> QED BY <1>1, <2>3, <2>4, Zenon DEF Handoff
<1>6. LockTypes'
  BY <1>3, <1>5, Zenon DEF LockInv, LockTypes
<1>7. References'
  <2>1. \A b \in Actors : phase'[b] = "idle" <=> phase[b] = "idle"
    BY <1>3
  <2> QED BY <1>5, <2>1, SameReferences DEF LockInv
<1>8. \A b \in Actors : HasLock(b)' => b \in given
  <2> SUFFICES ASSUME NEW b \in Actors, HasLock(b)', b \notin given PROVE FALSE
    OBVIOUS
  <2>1. b # a
    BY <1>3 DEF HasLock
  <2>2. phase'[b] = phase[b] /\ phase[b] # "idle"
    BY <1>3, <2>1 DEF HasLock
  <2>3. at[b] \in States
    BY <2>2 DEF LockInv, LockTypes, References
  <2>4. b \in state[at[b]].queue => b \in state'[at[b]].queue
    BY <1>5, <2>3, Zenon
  <2> QED BY <1>4, <2>1, <2>2, <2>4 DEF HasLock
<1>9. \A b \in Actors : HasLock(b)' => state'[at'[b]].held
  BY <1>2, <1>5, <1>8, ZenonT(30) DEF LockInv, Exclusion
<1>10. \A t \in States : \A q \in state'[t].queue : at'[q] = t /\ phase'[q] \in {"wake", "wait"}
  <2> SUFFICES ASSUME NEW t \in States, NEW q \in state'[t].queue
               PROVE  at'[q] = t /\ phase'[q] \in {"wake", "wait"}
    BY ZenonT(30)
  <2>1. q \in state[t].queue
    BY <1>2, <1>5
  <2>2. at[q] = t /\ phase[q] \in {"wake", "wait"} /\ q \in Actors
    BY <2>1, Zenon DEF LockInv, LockTypes, LockStates, Exclusion, Actors
  <2> QED BY <1>3, <2>2, ZenonT(30)
<1> QED BY <1>5, <1>6, <1>7, <1>8, <1>9, <1>10, ZenonT(30) DEF LockInv, Exclusion

-----------------------------------------------------------------------------
(***************************************************************************)
(* Every step of the lock keeps the invariant.                             *)
(***************************************************************************)
LEMMA LockStep == ASSUME LockInv, [LockNext]_lockVars PROVE LockInv'
<1> USE DEF Actors
<1>0. state \in [States -> LockStates] /\ \A a \in Actors : phase[a] # "idle" => at[a] \in States
  BY DEF LockInv, LockTypes, References
<1>1. ASSUME NEW r \in Requests, NewLock(r) PROVE LockInv'
  BY <1>1, RetainInv DEF NewLock
<1>2. ASSUME NEW r \in Requests, LockFree(r) PROVE LockInv'
  <2>1. /\ state' \in [States -> LockStates] /\ state'[at[r]].held
        /\ \A t \in States : state'[t].refs = state[t].refs /\ state'[t].queue = state[t].queue
    <3>1. PICK y : y = [[[state[at[r]] EXCEPT !.held = TRUE] EXCEPT !.owner = {r}] EXCEPT !.wake = {r}]
      OBVIOUS
    <3>2. at[r] \in States /\ state[at[r]] \in LockStates
      BY <1>0, <1>2 DEF LockFree
    <3>3. y \in LockStates /\ y.refs = state[at[r]].refs /\ y.queue = state[at[r]].queue
      BY <3>1, <3>2, Zenon DEF LockStates
    <3>4. y.held
      BY <3>1, <3>2 DEF LockStates
    <3>5. state' = [state EXCEPT ![at[r]] = y]
      BY <1>0, <1>2, <3>1, <3>2, Zenon DEF LockFree
    <3> QED BY <1>0, <3>2, <3>3, <3>4, <3>5, StateChanged, SMTT(30)
  <2> QED BY <1>2, <2>1, TakeInv, Zenon DEF LockFree
<1>3. ASSUME NEW r \in Requests, Enqueue(r) PROVE LockInv'
  <2>1. /\ state' \in [States -> LockStates]
        /\ \A t \in States : /\ state'[t].refs = state[t].refs /\ state'[t].held = state[t].held
                             /\ \A q \in Requests \ {r} : q \in state'[t].queue <=> q \in state[t].queue
        /\ r \in state'[at[r]].queue
        /\ \A t \in States \ {at[r]} : state'[t] = state[t]
    BY <1>0, <1>3, ZenonT(30) DEF Enqueue, LockStates
  <2>2. \A t \in States : r \notin state[t].queue
    BY <1>3 DEF Enqueue, LockInv, Exclusion
  <2>3. ~HasLock(r)'
    BY <1>0, <1>3, <2>1 DEF Enqueue, Goes, HasLock, LockInv, LockTypes
  <2> QED BY <1>3, <2>1, <2>2, <2>3, MoveInv, Zenon DEF Enqueue, Phases
<1>4. ASSUME NEW r \in Requests, Wake(r) \/ Granted(r) \/ NotifyWaiters(r) PROVE LockInv'
  <2>1. PICK to \in {"wait", "notify", "hold"} : Goes(r, to) /\ (to = "wait" => phase[r] = "wake")
    BY <1>4 DEF Wake, Granted, NotifyWaiters
  <2>2. UNCHANGED <<at, current, state>> /\ phase[r] \in {"wake", "wait", "notify"}
    BY <1>4 DEF Wake, Granted, NotifyWaiters
  <2>3. to \in {"notify", "hold"} => HasLock(r)
    BY <1>0, <1>4, <2>1, UploadLockAssumption, SMTT(30) DEF Wake, Granted, NotifyWaiters, Goes, Queued, HasLock, LockInv, LockTypes
  <2>4. HasLock(r)' => HasLock(r)
    BY <2>1, <2>2, <2>3 DEF Goes, HasLock, LockInv, LockTypes
  <2>5. \A t \in States : r \in state'[t].queue => t = at[r] /\ to \in {"wake", "wait"}
    BY <1>0, <2>1, <2>2, <2>3, ZenonT(30) DEF HasLock, LockInv, Exclusion
  <2> QED BY <1>0, <2>1, <2>2, <2>4, <2>5, MoveInv DEF Phases
<1>5. ASSUME NEW r \in Requests, TimesOut(r) PROVE LockInv'
  <2>1. /\ state' \in [States -> LockStates]
        /\ \A t \in States : /\ state'[t].refs = state[t].refs /\ state'[t].held = state[t].held
                             /\ \A q \in Requests \ {r} : q \in state'[t].queue <=> q \in state[t].queue
        /\ r \notin state'[at[r]].queue
        /\ \A t \in States \ {at[r]} : state'[t] = state[t]
    BY <1>0, <1>5, Zenon DEF TimesOut, Dequeue, LockStates
  <2>2. ~HasLock(r)'
    BY <1>5 DEF TimesOut, Goes, HasLock, LockInv, LockTypes
  <2>3. \A t \in States : r \notin state'[t].queue
    BY <2>1, SMTT(30) DEF LockInv, Exclusion
  <2> QED BY <1>5, <2>1, <2>2, <2>3, MoveInv DEF TimesOut, Phases
<1>6. ASSUME NEW r \in Requests, UnlockUpload(r) PROVE LockInv'
  BY <1>6, HandoffInv DEF UnlockUpload
<1>7. CASE TryMaintenanceLock
  BY <1>7, RetainInv DEF TryMaintenanceLock
<1>8. CASE MaintenanceLocked
  <2>1. CASE state[at[Drain]].held
    BY <1>0, <1>8, <2>1, DrainDropsInv DEF MaintenanceLocked
  <2>2. CASE ~state[at[Drain]].held
    <3>1. /\ state' \in [States -> LockStates] /\ state'[at[Drain]].held /\ Goes(Drain, "hold")
          /\ \A t \in States : state'[t].refs = state[t].refs /\ state'[t].queue = state[t].queue
      <4>1. PICK y : y = [state[at[Drain]] EXCEPT !.held = TRUE]
        BY Zenon
      <4>2. at[Drain] \in States /\ state[at[Drain]] \in LockStates
        BY <1>0, <1>8 DEF MaintenanceLocked
      <4>3. y \in LockStates /\ y.refs = state[at[Drain]].refs /\ y.queue = state[at[Drain]].queue
        BY <4>1, <4>2, Zenon DEF LockStates
      <4>4. y.held
        BY <4>1, <4>2 DEF LockStates
      <4>5. state' = [state EXCEPT ![at[Drain]] = y] /\ Goes(Drain, "hold")
        BY <1>0, <1>8, <2>2, <4>1, <4>2 DEF MaintenanceLocked
      <4> QED BY <1>0, <4>2, <4>3, <4>4, <4>5, StateChanged, SMTT(30)
    <3> QED BY <1>8, <2>2, <3>1, TakeInv DEF MaintenanceLocked
  <2> QED BY <2>1, <2>2
<1>9. CASE MaintenanceUnlock
  BY <1>9, HandoffInv DEF MaintenanceUnlock
<1>10. ASSUME NEW a \in Actors, Release(a) PROVE LockInv'
  BY <1>10, ReleaseInv
<1>11. CASE LockRestart
  BY <1>11, LockRestartInv
<1>12. CASE UNCHANGED lockVars
  <2>1. phase' = phase /\ at' = at /\ current' = current /\ state' = state
    BY <1>12, Zenon DEF lockVars
  <2>2. LockTypes'
    BY <2>1, Zenon DEF LockInv, LockTypes
  <2>3. \A s \in States : Users(s)' = Users(s)
    BY <2>1, Zenon DEF Users
  <2>4. References'
    BY <2>1, <2>3, Zenon DEF LockInv, References
  <2>5. \A a \in Actors : HasLock(a)' <=> HasLock(a)
    BY <2>1, Zenon DEF HasLock
  <2>6. Exclusion'
    BY <2>1, <2>5, Zenon DEF LockInv, Exclusion
  <2> QED BY <2>2, <2>4, <2>6, Zenon DEF LockInv
<1> QED BY <1>1, <1>2, <1>3, <1>4, <1>5, <1>6, <1>7, <1>8, <1>9, <1>10, <1>11, <1>12
        DEF LockNext, Proceeds

(***************************************************************************)
(* Two actors never work on the upload at once, for any number of requests: *)
(* whatever is handed over, times out or is dropped and made anew.          *)
(***************************************************************************)
THEOREM LockExclusive == LockSpec => []OneHolder
<1>1. LockInv => OneHolder
  BY Zenon DEF LockInv, Exclusion, HasLock, OneHolder
<1> QED BY <1>1, LockInitInv, LockStep, PTL DEF LockSpec

-----------------------------------------------------------------------------
(***************************************************************************)
(* The lock is passed on: somebody has a lock that is held, and a request   *)
(* that has it may unlock it; nobody queues for a free one; and the queue   *)
(* is a line, in which `ahead` gives the requests before each.              *)
(***************************************************************************)
Passed ==
    /\ acquired \in [Requests -> BOOLEAN]
    /\ \A s \in States : state[s].held => \E a \in Actors : at[a] = s /\ HasLock(a)
    /\ \A r \in Requests : acquired[r] <=> HasLock(r)
    /\ \A r \in Requests : HasLock(r) => state[at[r]].owner = {r}
    /\ \A s \in States : state[s].queue # {} => state[s].held
Line(Q) ==
    /\ \A q \in Q : ahead[q] \subseteq Q \ {q}
    /\ \A q, w \in Q : q # w => q \in ahead[w] \/ w \in ahead[q]
    /\ \A q, w \in Q : q \in ahead[w] => ahead[q] \subseteq ahead[w]
InLine ==
    /\ ahead \in [Requests -> SUBSET Requests]
    /\ \A s \in States : Line(state[s].queue)

\* A step in which the lock is given to nobody.
NobodyGets == \A a \in Actors : HasLock(a)' => HasLock(a)

\* Whether an actor has the lock depends on its own phase and place only.
LEMMA SameHolder ==
    ASSUME NEW a \in Actors, phase'[a] = phase[a], at'[a] = at[a],
           phase[a] # "idle" => (a \in state'[at[a]].queue <=> a \in state[at[a]].queue)
    PROVE  HasLock(a)' <=> HasLock(a)
BY Zenon DEF HasLock

\* A step that gives, takes and queues nothing.
LEMMA PassedKept ==
    ASSUME Passed, acquired' = acquired,
           \A a \in Actors : HasLock(a)' <=> HasLock(a),
           \A a \in Actors : HasLock(a) => at'[a] = at[a],
           \A s \in States :
              \/ /\ state'[s].held = state[s].held /\ state'[s].owner = state[s].owner
                 /\ state'[s].queue = state[s].queue
              \/ ~state'[s].held /\ state'[s].queue = {} /\ \A a \in Actors : at[a] # s,
           \A a \in Actors : HasLock(a) => at[a] \in States
    PROVE  Passed'
<1>1. Requests \subseteq Actors
  BY ZenonT(30) DEF Actors
<1>2. \A s \in States : state'[s].held => \E a \in Actors : at'[a] = s /\ HasLock(a)'
  <2> SUFFICES ASSUME NEW s \in States, state'[s].held PROVE \E a \in Actors : at'[a] = s /\ HasLock(a)'
    OBVIOUS
  <2>1. state[s].held
    BY Zenon
  <2>2. PICK a \in Actors : at[a] = s /\ HasLock(a)
    BY <2>1, Zenon DEF Passed
  <2> QED BY <2>2, Zenon
<1>3. \A r \in Requests : acquired'[r] <=> HasLock(r)'
  BY <1>1, Zenon DEF Passed
<1>4. \A r \in Requests : HasLock(r)' => state'[at'[r]].owner = {r}
  <2> SUFFICES ASSUME NEW r \in Requests, HasLock(r)' PROVE state'[at'[r]].owner = {r}
    OBVIOUS
  <2>1. r \in Actors /\ HasLock(r) /\ at'[r] = at[r] /\ at[r] \in States
    BY <1>1, Zenon
  <2>2. state[at[r]].owner = {r}
    BY <2>1, Zenon DEF Passed
  <2>3. state'[at[r]].owner = state[at[r]].owner
    BY <2>1, Zenon
  <2> QED BY <2>1, <2>2, <2>3, Zenon
<1>5. \A s \in States : state'[s].queue # {} => state'[s].held
  BY Zenon DEF Passed
<1> QED BY <1>2, <1>3, <1>4, <1>5, Zenon DEF Passed

LEMMA InLineKept ==
    ASSUME InLine, ahead' = ahead,
           \A s \in States : state'[s].queue = state[s].queue \/ state'[s].queue = {}
    PROVE  InLine'
<1>1. Line({})'
  BY DEF Line
<1>2. \A s \in States : Line(state[s].queue)' 
  <2> SUFFICES ASSUME NEW s \in States PROVE Line(state[s].queue)'
    OBVIOUS
  <2>1. CASE state'[s].queue = state[s].queue
    BY <2>1, Zenon DEF InLine, Line
  <2>2. CASE state'[s].queue = {}
    BY <2>2, Zenon DEF Line
  <2> QED BY <2>1, <2>2
<1> QED BY <1>2, Zenon DEF InLine

\* retain: a new state is free, and one in the map keeps its holder and its queue.
LEMMA RetainPassed ==
    ASSUME LockInv, Passed, InLine, NEW a \in Actors, phase[a] = "idle", Retain(a), Goes(a, "new"),
           UNCHANGED <<ahead, acquired>>
    PROVE  Passed' /\ InLine' /\ NobodyGets
<1>0. PICK s : s = IF current = Nil THEN Unreferenced ELSE current
  OBVIOUS
<1> DEFINE before == IF current = Nil THEN NewState ELSE state[s]
<1>1. current = Nil => s \in States /\ Unused(s)
  BY <1>0 DEF Retain, Unreferenced
<1>2. s \in States
  BY <1>0, <1>1, UploadLockAssumption DEF LockInv, LockTypes
<1>3. /\ at' = [at EXCEPT ![a] = s]
      /\ state' = [state EXCEPT ![s] = [before EXCEPT !.refs = @ + 1]]
      /\ phase' = [phase EXCEPT ![a] = "new"]
  BY <1>0 DEF Retain, Goes
<1>4. before \in LockStates
  BY <1>2, Zenon DEF LockInv, LockTypes, LockStates, NewState
<1> HIDE DEF before
<1>5. /\ state'[s].held = before.held /\ state'[s].owner = before.owner /\ state'[s].queue = before.queue
      /\ \A t \in States \ {s} : state'[t] = state[t]
  BY <1>2, <1>3, <1>4, SMTT(30) DEF LockInv, LockTypes, LockStates
<1>6. \A b \in Actors \ {a} : at'[b] = at[b] /\ phase'[b] = phase[b]
  BY <1>3 DEF LockInv, LockTypes
<1>7. phase'[a] = "new"
  BY <1>3 DEF LockInv, LockTypes
<1>8. \A t \in States :
         \/ /\ state'[t].held = state[t].held /\ state'[t].owner = state[t].owner
            /\ state'[t].queue = state[t].queue
         \/ ~state'[t].held /\ state'[t].queue = {} /\ \A b \in Actors : at[b] # t
  <2>1. CASE current = Nil
    BY <1>1, <1>5, <2>1, Zenon DEF before, NewState, Unused
  <2>2. CASE current # Nil
    BY <1>5, <2>2, Zenon DEF before
  <2> QED BY <2>1, <2>2, Zenon
<1>9. \A b \in Actors : (HasLock(b)' <=> HasLock(b)) /\ (HasLock(b) => at'[b] = at[b] /\ at[b] \in States)
  <2> SUFFICES ASSUME NEW b \in Actors
               PROVE  (HasLock(b)' <=> HasLock(b)) /\ (HasLock(b) => at'[b] = at[b] /\ at[b] \in States)
    OBVIOUS
  <2>1. CASE b = a
    BY <1>7, <2>1 DEF HasLock
  <2>2. CASE b # a /\ phase[b] = "idle"
    BY <1>6, <2>2 DEF HasLock
  <2>3. CASE b # a /\ phase[b] # "idle"
    <3>1. at[b] \in States /\ at'[b] = at[b] /\ phase'[b] = phase[b]
      BY <1>6, <2>3, ZenonT(30) DEF LockInv, LockTypes, References
    <3>2. state'[at[b]].queue = state[at[b]].queue
      BY <1>8, <3>1, Zenon
    <3> QED BY <3>1, <3>2, SameHolder, Zenon
  <2> QED BY <2>1, <2>2, <2>3, ZenonT(30)
<1>10. Passed' /\ InLine'
  BY <1>8, <1>9, PassedKept, InLineKept, Zenon
<1> QED BY <1>9, <1>10, Zenon DEF NobodyGets

\* release: only an actor without the lock leaves.
LEMMA ReleasePassed ==
    ASSUME LockInv, Passed, InLine, NEW a \in Actors, Release(a)
    PROVE  Passed' /\ InLine' /\ NobodyGets
<1>1. at[a] \in States /\ phase[a] = "drop"
  BY UploadLockAssumption DEF Release, LockInv, LockTypes, References
<1>2. /\ state' = [state EXCEPT ![at[a]].refs = @ - 1]
      /\ \A b \in Actors \ {a} : at'[b] = at[b] /\ phase'[b] = phase[b]
      /\ phase'[a] = "idle"
      /\ ahead' = ahead /\ acquired' = acquired
  BY DEF Release, Goes, LockInv, LockTypes
<1>3. \A t \in States : /\ state'[t].held = state[t].held /\ state'[t].owner = state[t].owner
                        /\ state'[t].queue = state[t].queue
  BY <1>1, <1>2, SMTT(30) DEF LockInv, LockTypes, LockStates
<1>4. \A b \in Actors : (HasLock(b)' <=> HasLock(b)) /\ (HasLock(b) => at'[b] = at[b] /\ at[b] \in States)
  <2> SUFFICES ASSUME NEW b \in Actors
               PROVE  (HasLock(b)' <=> HasLock(b)) /\ (HasLock(b) => at'[b] = at[b] /\ at[b] \in States)
    OBVIOUS
  <2>1. CASE b = a
    BY <1>1, <1>2, <2>1 DEF HasLock
  <2>2. CASE b # a /\ phase[b] = "idle"
    BY <1>2, <2>2 DEF HasLock
  <2>3. CASE b # a /\ phase[b] # "idle"
    <3>1. at[b] \in States /\ at'[b] = at[b] /\ phase'[b] = phase[b]
      BY <1>2, <2>3 DEF LockInv, LockTypes, References
    <3> QED BY <1>3, <3>1, SameHolder, Zenon
  <2> QED BY <2>1, <2>2, <2>3
<1>5. Passed' /\ InLine'
  BY <1>2, <1>3, <1>4, PassedKept, InLineKept, Zenon
<1> QED BY <1>4, <1>5, Zenon DEF NobodyGets

\* An actor goes on in a state whose fields stay, and has the lock as before.
LEMMA GoesOnPassed ==
    ASSUME LockInv, Passed, InLine, NEW a \in Actors, NEW to, Goes(a, to), HasLock(a)' <=> HasLock(a),
           UNCHANGED <<at, state, ahead, acquired>>
    PROVE  Passed' /\ InLine' /\ NobodyGets
<1>1. \A b \in Actors \ {a} : phase'[b] = phase[b]
  BY DEF Goes, LockInv, LockTypes
<1>2. \A b \in Actors : HasLock(b)' <=> HasLock(b)
  BY <1>1, SameHolder, Zenon
<1>3. \A b \in Actors : HasLock(b) => at[b] \in States
  <2> SUFFICES ASSUME NEW b \in Actors, HasLock(b) PROVE at[b] \in States
    OBVIOUS
  <2>1. phase[b] # "idle"
    BY DEF HasLock
  <2> QED BY <2>1 DEF LockInv, LockTypes, References
<1>4. Passed' /\ InLine'
  BY <1>2, <1>3, PassedKept, InLineKept, Zenon
<1> QED BY <1>2, <1>4, Zenon DEF NobodyGets

\* The lock is taken while it is free, so nobody has it and nobody queues.
LEMMA TakePassed ==
    ASSUME LockInv, Passed, InLine, NEW a \in Actors, phase[a] = "new", ~state[at[a]].held, Goes(a, "hold"),
           at' = at, ahead' = ahead,
           state'[at[a]].held, \A t \in States : state'[t].queue = state[t].queue,
           \A t \in States \ {at[a]} : state'[t] = state[t],
           \/ a \in Requests /\ acquired' = [acquired EXCEPT ![a] = TRUE] /\ state'[at[a]].owner = {a}
           \/ a \notin Requests /\ acquired' = acquired
    PROVE  Passed' /\ InLine' /\ \A s \in States : state[s].queue = {}
<1>1. at[a] \in States
  BY ZenonT(30) DEF LockInv, LockTypes, References
<1>2. phase'[a] = "hold" /\ \A b \in Actors \ {a} : phase'[b] = phase[b]
  BY DEF Goes, LockInv, LockTypes
<1>3. \A b \in Actors : phase[b] # "idle" => at[b] = at[a]
  BY <1>1, UploadLockAssumption DEF LockInv, References
<1>4. \A b \in Actors : ~HasLock(b)
  <2> SUFFICES ASSUME NEW b \in Actors, HasLock(b) PROVE FALSE
    BY ZenonT(30)
  <2>1. phase[b] # "idle"
    BY DEF HasLock
  <2>2. at[b] = at[a]
    BY <1>3, <2>1
  <2> QED BY <2>2, Zenon DEF LockInv, Exclusion
<1>5. \A b \in Actors : HasLock(b)' <=> b = a
  <2>1. HasLock(a)'
    BY <1>2 DEF HasLock
  <2>2. ASSUME NEW b \in Actors \ {a} PROVE ~HasLock(b)'
    <3>1. phase[b] # "idle" => at[b] \in States
      BY ZenonT(30) DEF LockInv, LockTypes, References
    <3>2. HasLock(b)' <=> HasLock(b)
      BY <1>2, <3>1, SameHolder, Zenon
    <3> QED BY <1>4, <3>2, Zenon
  <2> QED BY <2>1, <2>2, Zenon
<1>6. Requests \subseteq Actors
  BY ZenonT(30) DEF Actors
<1>7. acquired' \in [Requests -> BOOLEAN] /\ \A r \in Requests : acquired'[r] <=> HasLock(r)'
  <2>1. \A r \in Requests : ~acquired[r]
    BY <1>4, <1>6, Zenon DEF Passed
  <2>2. acquired' \in [Requests -> BOOLEAN] /\ \A r \in Requests : acquired'[r] <=> r = a
    BY <2>1, ZenonT(30) DEF Passed
  <2> QED BY <1>5, <1>6, <2>2, Zenon
<1>8. \A s \in States : state'[s].held => \E b \in Actors : at'[b] = s /\ HasLock(b)'
  <2> SUFFICES ASSUME NEW s \in States, state'[s].held PROVE s = at[a]
    BY <1>5, Zenon
  <2>1. CASE s # at[a]
    <3>1. state[s].held
      BY <2>1, Zenon
    <3> QED BY <1>4, <3>1, Zenon DEF Passed
  <2> QED BY <2>1
<1>9. \A r \in Requests : HasLock(r)' => state'[at'[r]].owner = {r}
  BY <1>5, <1>6, Zenon
<1>10. \A s \in States : state'[s].queue # {} => state'[s].held
  <2> SUFFICES ASSUME NEW s \in States, state'[s].queue # {} PROVE state'[s].held
    OBVIOUS
  <2>1. state[s].held
    BY Zenon DEF Passed
  <2> QED BY <2>1, Zenon
<1>11. Passed'
  BY <1>7, <1>8, <1>9, <1>10, Zenon DEF Passed
<1>12. InLine'
  BY InLineKept, Zenon
<1>13. \A s \in States : state[s].queue = {}
  BY <1>4, Zenon DEF Passed
<1> QED BY <1>11, <1>12, <1>13

\* A line stays one when a request queues behind it or any leaves it.
LEMMA LineGrows ==
    ASSUME NEW Q \in SUBSET Requests, NEW r \in Requests \ Q, Line(Q), ahead \in [Requests -> SUBSET Requests],
           ahead' = [ahead EXCEPT ![r] = Q]
    PROVE  Line(Q \cup {r})'
<1>1. ahead'[r] = Q /\ \A q \in Q : ahead'[q] = ahead[q]
  BY Zenon
<1> QED BY <1>1 DEF Line
LEMMA LineShrinks ==
    ASSUME NEW Q \in SUBSET Requests, NEW x, Line(Q), ahead' = [w \in Requests |-> ahead[w] \ {x}]
    PROVE  Line(Q \ {x})'
<1>1. \A q \in Q : ahead'[q] = ahead[q] \ {x}
  BY Zenon
<1> QED BY <1>1 DEF Line
LEMMA LeavesLine ==
    ASSUME state \in [States -> LockStates], InLine, NEW x, NEW s \in States,
           ahead' = [w \in Requests |-> ahead[w] \ {x}],
           state'[s].queue = state[s].queue \ {x},
           \A t \in States \ {s} : state'[t] = state[t],
           \A t \in States : x \in state[t].queue => t = s
    PROVE  InLine'
<1>1. ahead' \in [Requests -> SUBSET Requests]
  BY DEF InLine
<1> SUFFICES ASSUME NEW t \in States PROVE Line(state[t].queue)'
  BY <1>1 DEF InLine
<1>2. PICK Q \in SUBSET Requests : Q = state[t].queue
  BY DEF LockStates
<1>3. Line(Q \ {x})'
  BY <1>2, LineShrinks, Zenon DEF InLine
<1>4. state'[t].queue = Q \ {x}
  <2>1. CASE t = s
    BY <1>2, <2>1
  <2>2. CASE t # s
    BY <1>2, <2>2
  <2> QED BY <2>1, <2>2
<1> QED BY <1>3, <1>4, Zenon

\* A request takes its place in the queue of a held lock, or leaves it.
LEMMA QueuePassed ==
    ASSUME LockInv, Passed, NEW r \in Requests, NEW to, Goes(r, to), phase[r] # "idle", ~HasLock(r), ~HasLock(r)',
           at' = at, acquired' = acquired,
           \A t \in States : /\ state'[t].held = state[t].held /\ state'[t].owner = state[t].owner
                             /\ \A q \in Requests \ {r} : q \in state'[t].queue <=> q \in state[t].queue,
           \A t \in States : state'[t].queue # {} => state[t].held
    PROVE  Passed' /\ NobodyGets
<1>1. Requests \subseteq Actors /\ r \in Actors /\ \A b \in Actors \ {r} : phase'[b] = phase[b]
  BY ZenonT(30) DEF Goes, LockInv, LockTypes, Actors
<1>2. \A b \in Actors : HasLock(b) => at[b] \in States
  <2> SUFFICES ASSUME NEW b \in Actors, HasLock(b) PROVE at[b] \in States
    BY ZenonT(30)
  <2>1. phase[b] # "idle"
    BY DEF HasLock
  <2> QED BY <2>1, ZenonT(30) DEF LockInv, LockTypes, References
<1>3. \A b \in Actors : HasLock(b)' <=> HasLock(b)
  <2> SUFFICES ASSUME NEW b \in Actors \ {r} PROVE HasLock(b)' <=> HasLock(b)
    BY Zenon
  <2>1. phase[b] # "idle" => at[b] \in States
    BY ZenonT(30) DEF LockInv, LockTypes, References
  <2>2. CASE b \in Requests
    BY <1>1, <2>1, <2>2, SameHolder, Zenon
  <2>3. CASE b \notin Requests
    BY <1>1, <2>3, Zenon DEF HasLock
  <2> QED BY <2>2, <2>3, ZenonT(30)
<1>4. \A s \in States : state'[s].held => \E a \in Actors : at'[a] = s /\ HasLock(a)'
  BY <1>3, Zenon DEF Passed
<1>5. \A q \in Requests : acquired'[q] <=> HasLock(q)'
  BY <1>1, <1>3, Zenon DEF Passed
<1>6. \A q \in Requests : HasLock(q)' => state'[at'[q]].owner = {q}
  BY <1>1, <1>2, <1>3, Zenon DEF Passed
<1>7. \A s \in States : state'[s].queue # {} => state'[s].held
  BY Zenon
<1>8. Passed'
  BY <1>4, <1>5, <1>6, <1>7, Zenon DEF Passed
<1> QED BY <1>3, <1>8, Zenon DEF NobodyGets

LEMMA EnqueuePassed ==
    ASSUME LockInv, Passed, InLine, NEW r \in Requests, Enqueue(r)
    PROVE  Passed' /\ InLine' /\ NobodyGets
<1>1. state \in [States -> LockStates] /\ at[r] \in States /\ state[at[r]].held /\ phase[r] = "new"
  BY Zenon DEF Enqueue, LockInv, LockTypes, References, Actors
<1>2. /\ state' = [state EXCEPT ![at[r]].queue = @ \cup {r}]
      /\ ahead' = [ahead EXCEPT ![r] = state[at[r]].queue]
      /\ at' = at /\ acquired' = acquired /\ Goes(r, "wake")
  BY DEF Enqueue
<1>3. /\ \A t \in States : state'[t].held = state[t].held /\ state'[t].owner = state[t].owner
      /\ state'[at[r]].queue = state[at[r]].queue \cup {r}
      /\ \A t \in States \ {at[r]} : state'[t] = state[t]
  BY <1>1, <1>2, SMTT(30) DEF LockStates
<1>4. \A t \in States : r \notin state[t].queue /\ (t # at[r] => state[t].queue = {})
  <2> SUFFICES ASSUME NEW t \in States, NEW q \in state[t].queue PROVE q # r /\ t = at[r]
    BY Zenon
  <2>1. at[q] = t /\ phase[q] \in {"wake", "wait"} /\ q \in Actors /\ r \in Actors
    BY <1>1, Zenon DEF LockInv, Exclusion, LockStates, Actors
  <2>2. current = t /\ current = at[r]
    BY <1>1, <2>1, UploadLockAssumption, ZenonT(30) DEF LockInv, References
  <2> QED BY <1>1, <2>1, <2>2
<1>5. ~HasLock(r)
  BY <1>1 DEF HasLock
<1>6. ~HasLock(r)'
  <2>1. phase'[r] = "wake" /\ r \in state'[at'[r]].queue
    BY <1>2, <1>3 DEF Goes, LockInv, LockTypes, Actors
  <2> QED BY <2>1 DEF HasLock
<1>7. \A t \in States : \A q \in Requests \ {r} : q \in state'[t].queue <=> q \in state[t].queue
  BY <1>1, <1>3, Zenon
<1>8. \A t \in States : state'[t].queue # {} => state[t].held
  BY <1>1, <1>3, Zenon DEF Passed
<1>9. Passed' /\ NobodyGets
  BY <1>1, <1>2, <1>3, <1>5, <1>6, <1>7, <1>8, QueuePassed, Zenon
<1>10. \A t \in States : Line(state[t].queue)'
  <2>1. PICK Q \in SUBSET Requests : Q = state[at[r]].queue
    BY <1>1 DEF LockStates
  <2>2. Line(Q) /\ r \notin Q
    BY <1>1, <1>4, <2>1, ZenonT(30) DEF InLine
  <2>3. Line(Q \cup {r})'
    BY <1>2, <2>1, <2>2, LineGrows, Zenon DEF InLine
  <2>4. state'[at[r]].queue = Q \cup {r} /\ \A t \in States \ {at[r]} : state'[t].queue = {}
    BY <1>3, <1>4, <2>1, Zenon
  <2> SUFFICES ASSUME NEW t \in States PROVE Line(state[t].queue)'
    OBVIOUS
  <2>5. CASE t = at[r]
    BY <2>3, <2>4, <2>5, Zenon
  <2>6. CASE t # at[r]
    <3>1. state'[t].queue = {}
      BY <2>4, <2>6
    <3> QED BY <3>1, Zenon DEF Line
  <2> QED BY <2>5, <2>6
<1>11. ahead' \in [Requests -> SUBSET Requests]
  BY <1>1, <1>2 DEF InLine, LockStates
<1> QED BY <1>9, <1>10, <1>11, ZenonT(30) DEF InLine

LEMMA TimesOutPassed ==
    ASSUME LockInv, Passed, InLine, NEW r \in Requests, TimesOut(r)
    PROVE  Passed' /\ InLine' /\ NobodyGets
<1>1. state \in [States -> LockStates] /\ at[r] \in States /\ phase[r] = "wait" /\ r \in state[at[r]].queue
  BY Zenon DEF TimesOut, Queued, LockInv, LockTypes, References, Actors
<1>2. /\ state' = [state EXCEPT ![at[r]].queue = @ \ {r}]
      /\ ahead' = [w \in Requests |-> ahead[w] \ {r}]
      /\ at' = at /\ acquired' = acquired /\ Goes(r, "drop")
  BY DEF TimesOut, Dequeue
<1>3. /\ \A t \in States : state'[t].held = state[t].held /\ state'[t].owner = state[t].owner
      /\ state'[at[r]].queue = state[at[r]].queue \ {r}
      /\ \A t \in States \ {at[r]} : state'[t] = state[t]
  BY <1>1, <1>2, SMTT(30) DEF LockStates
<1>4. ~HasLock(r) /\ ~HasLock(r)'
  <2>1. phase'[r] = "drop"
    BY <1>2 DEF Goes, LockInv, LockTypes, Actors
  <2> QED BY <1>1, <2>1 DEF HasLock
<1>5. \A t \in States : \A q \in Requests \ {r} : q \in state'[t].queue <=> q \in state[t].queue
  BY <1>1, <1>3, Zenon
<1>6. \A t \in States : state'[t].queue # {} => state[t].held
  BY <1>1, <1>3, Zenon DEF Passed
<1>7. Passed' /\ NobodyGets
  BY <1>1, <1>2, <1>3, <1>4, <1>5, <1>6, QueuePassed, Zenon
<1>8. \A t \in States : r \in state[t].queue => t = at[r]
  BY Zenon DEF LockInv, Exclusion
<1>9. InLine'
  <2>1. PICK s \in States : s = at[r]
    BY <1>1
  <2>2. /\ state'[s].queue = state[s].queue \ {r}
        /\ \A t \in States \ {s} : state'[t] = state[t]
        /\ \A t \in States : r \in state[t].queue => t = s
    BY <1>3, <1>8, <2>1, Zenon
  <2>3. state \in [States -> LockStates] /\ ahead' = [w \in Requests |-> ahead[w] \ {r}]
    BY <1>1, <1>2, Zenon
  <2> QED BY <2>2, <2>3, LeavesLine, Zenon
<1> QED BY <1>7, <1>9

\* handoff: the head of the queue has the lock from then on, and where there is none it is free.
LEMMA HandoffPassed ==
    ASSUME LockInv, Passed, InLine, NEW a \in Actors, phase[a] = "hold", Handoff(at[a]), Goes(a, "drop"), at' = at
    PROVE  /\ Passed' /\ InLine'
           /\ \A b \in Actors : HasLock(b)' => b \in state[at[a]].queue /\ ahead[b] = {}
<1>1. PICK s : s = at[a]
  OBVIOUS
<1>2. s \in States /\ HasLock(a) /\ state \in [States -> LockStates]
  BY <1>1, ZenonT(30) DEF LockInv, LockTypes, References, HasLock
<1>3. phase'[a] = "drop" /\ \A b \in Actors \ {a} : phase'[b] = phase[b]
  BY DEF Goes, LockInv, LockTypes
<1>4. \A b \in Actors \ {a} : ~HasLock(b)
  BY <1>2, Zenon DEF LockInv, Exclusion
<1>5. Requests \subseteq Actors
  BY DEF Actors
<1>6. \A t \in States : state[t].held => t = s
  BY <1>1, <1>4, Zenon DEF Passed
<1>7. \A q \in state[s].queue : q # a /\ q \in Requests /\ at[q] = s /\ phase[q] \in {"wake", "wait"}
  BY <1>2, Zenon DEF LockInv, Exclusion, LockStates
<1> DEFINE others == [r \in Requests |-> acquired[r] /\ r \notin state[s].owner]
<1>8. \A r \in Requests : others[r] = FALSE
  <2> SUFFICES ASSUME NEW r \in Requests, acquired[r] PROVE r \in state[s].owner
    BY Zenon
  <2>1. HasLock(r)
    BY Zenon DEF Passed
  <2>2. r = a
    BY <1>4, <1>5, <2>1, Zenon
  <2> QED BY <1>1, <2>1, <2>2, Zenon DEF Passed
<1>9. CASE /\ state[s].queue = {}
           /\ state' = [state EXCEPT ![s].held = FALSE, ![s].owner = {}, ![s].wake = {}]
           /\ acquired' = others
           /\ ahead' = ahead
  <2>1. /\ ~state'[s].held /\ state'[s].queue = {}
        /\ \A t \in States \ {s} : state'[t] = state[t]
    <3>1. PICK y : y = [[[state[s] EXCEPT !.held = FALSE] EXCEPT !.owner = {}] EXCEPT !.wake = {}]
      OBVIOUS
    <3>2. state[s] \in LockStates
      BY <1>2, ZenonT(30)
    <3>3. y \in LockStates /\ y.queue = state[s].queue
      BY <3>1, <3>2, Zenon DEF LockStates
    <3>4. y.held = FALSE
      BY <3>1, <3>2, Zenon DEF LockStates
    <3>5. state' = [state EXCEPT ![s] = y]
      BY <1>2, <1>9, <3>1, <3>2, Zenon
    <3>6. state'[s] = y /\ \A t \in States \ {s} : state'[t] = state[t]
      BY <1>2, <3>3, <3>5, StateChanged
    <3> QED BY <1>9, <3>3, <3>4, <3>6, Zenon
  <2>2. \A b \in Actors : ~HasLock(b)'
    <3> SUFFICES ASSUME NEW b \in Actors, HasLock(b)' PROVE FALSE
      OBVIOUS
    <3>1. b # a
      BY <1>3, ZenonT(30) DEF HasLock
    <3>2. phase'[b] = phase[b] /\ phase[b] # "idle"
      BY <1>3, <3>1 DEF HasLock
    <3>3. at[b] \in States
      BY <3>2 DEF LockInv, LockTypes, References
    <3>4. state'[at[b]].queue = state[at[b]].queue
      BY <1>9, <2>1, <3>3, Zenon
    <3>5. HasLock(b)
      BY <3>2, <3>4, SameHolder, Zenon
    <3> QED BY <1>4, <3>1, <3>5, Zenon
  <2>3. acquired' \in [Requests -> BOOLEAN] /\ \A r \in Requests : ~acquired'[r]
    BY <1>8, <1>9, Zenon
  <2>4. \A t \in States : ~state'[t].held /\ state'[t].queue = {}
    <3> SUFFICES ASSUME NEW t \in States \ {s} PROVE ~state'[t].held /\ state'[t].queue = {}
      BY <2>1, Zenon
    <3>1. ~state[t].held
      BY <1>6, Zenon
    <3>2. state[t].queue = {}
      BY <3>1, Zenon DEF Passed
    <3> QED BY <2>1, <3>1, <3>2, Zenon
  <2>5. Passed'
    BY <1>5, <2>2, <2>3, <2>4, Zenon DEF Passed
  <2>6. InLine'
    BY <1>9, <2>4, InLineKept, Zenon
  <2> QED BY <2>2, <2>5, <2>6, Zenon
<1>10. ASSUME NEW next \in state[s].queue, ahead[next] = {},
              state' = [state EXCEPT ![s].queue = @ \ {next}, ![s].owner = {next}, ![s].wake = {next}],
              ahead' = [w \in Requests |-> ahead[w] \ {next}],
              acquired' = [others EXCEPT ![next] = TRUE]
       PROVE  /\ Passed' /\ InLine'
              /\ \A b \in Actors : HasLock(b)' => b = next
  <2>1. next \in Requests /\ next # a /\ at[next] = s /\ phase[next] \in {"wake", "wait"} /\ next \in Actors
    BY <1>5, <1>7, <1>10
  <2>2. /\ state'[s].held = state[s].held /\ state'[s].queue = state[s].queue \ {next} /\ state'[s].owner = {next}
        /\ \A t \in States \ {s} : state'[t] = state[t]
    <3>1. PICK y : y = [[[state[s] EXCEPT !.queue = @ \ {next}] EXCEPT !.owner = {next}] EXCEPT !.wake = {next}]
      OBVIOUS
    <3>2. state[s] \in LockStates
      BY <1>2
    <3>3. /\ y \in LockStates /\ y.queue = state[s].queue \ {next} /\ y.held = state[s].held /\ y.owner = {next}
      BY <2>1, <3>1, <3>2, Zenon DEF LockStates
    <3>4. state' = [state EXCEPT ![s] = y]
      BY <1>2, <1>10, <3>1, <3>2, Zenon
    <3>5. state'[s] = y /\ \A t \in States \ {s} : state'[t] = state[t]
      BY <1>2, <3>3, <3>4, StateChanged
    <3> QED BY <3>3, <3>5, Zenon
  <2>3. HasLock(next)'
    <3>1. phase'[next] = phase[next] /\ next \notin state'[at'[next]].queue
      BY <1>3, <2>1, <2>2, Zenon
    <3> QED BY <2>1, <3>1, Zenon DEF HasLock
  <2>4. \A b \in Actors : HasLock(b)' => b = next
    <3> SUFFICES ASSUME NEW b \in Actors, HasLock(b)', b # next PROVE FALSE
      OBVIOUS
    <3>1. b # a
      BY <1>3, ZenonT(30) DEF HasLock
    <3>2. phase'[b] = phase[b] /\ phase[b] # "idle"
      BY <1>3, <3>1 DEF HasLock
    <3>3. at[b] \in States
      BY <3>2, ZenonT(30) DEF LockInv, LockTypes, References
    <3>4. b \in state'[at[b]].queue <=> b \in state[at[b]].queue
      BY <2>2, <3>3, Zenon
    <3>5. HasLock(b)
      BY <3>2, <3>4, SameHolder, Zenon
    <3> QED BY <1>4, <3>1, <3>5, Zenon
  <2>5. acquired' \in [Requests -> BOOLEAN] /\ \A r \in Requests : acquired'[r] <=> r = next
    BY <1>8, <1>10, <2>1, Zenon
  <2>6. \A t \in States : state'[t].held => t = s
    BY <1>6, <2>2, Zenon
  <2>7. \A t \in States : state'[t].queue # {} => state'[t].held
    <3> SUFFICES ASSUME NEW t \in States, state'[t].queue # {} PROVE state'[t].held
      OBVIOUS
    <3>1. state[t].queue # {}
      BY <2>2, Zenon
    <3>2. state[t].held
      BY <3>1, Zenon DEF Passed
    <3> QED BY <2>2, <3>2, Zenon
  <2>8. Passed'
    <3>1. \A r \in Requests : acquired'[r] <=> HasLock(r)'
      BY <1>5, <2>3, <2>4, <2>5, Zenon
    <3>2. \A t \in States : state'[t].held => \E b \in Actors : at'[b] = t /\ HasLock(b)'
      BY <2>1, <2>3, <2>6, Zenon
    <3>3. \A r \in Requests : HasLock(r)' => state'[at'[r]].owner = {r}
      BY <1>5, <2>1, <2>2, <2>4, Zenon
    <3> QED BY <2>5, <2>7, <3>1, <3>2, <3>3, Zenon DEF Passed
  <2>9. \A t \in States : next \in state[t].queue => t = s
    BY <2>1, Zenon DEF LockInv, Exclusion
  <2>10. InLine'
    BY <1>2, <1>10, <2>2, <2>9, LeavesLine, ZenonT(30) DEF InLine
  <2> QED BY <2>4, <2>8, <2>10, ZenonT(30)
<1>11. CASE \E next \in state[s].queue :
               /\ ahead[next] = {}
               /\ state' = [state EXCEPT ![s].queue = @ \ {next}, ![s].owner = {next}, ![s].wake = {next}]
               /\ ahead' = [w \in Requests |-> ahead[w] \ {next}]
               /\ acquired' = [others EXCEPT ![next] = TRUE]
  <2>1. PICK next \in state[s].queue :
               /\ ahead[next] = {}
               /\ state' = [state EXCEPT ![s].queue = @ \ {next}, ![s].owner = {next}, ![s].wake = {next}]
               /\ ahead' = [w \in Requests |-> ahead[w] \ {next}]
               /\ acquired' = [others EXCEPT ![next] = TRUE]
    BY <1>11, Zenon
  <2>2. Passed' /\ InLine' /\ \A b \in Actors : HasLock(b)' => b = next
    BY <1>10, <2>1, Zenon
  <2> QED BY <1>1, <2>1, <2>2, Zenon
<1> QED BY <1>1, <1>9, <1>11, Zenon DEF Handoff

LEMMA PassedInit == LockInit => Passed /\ InLine
<1> SUFFICES ASSUME LockInit PROVE Passed /\ InLine
  OBVIOUS
<1>1. Requests \subseteq Actors /\ \A a \in Actors : ~HasLock(a)
  BY DEF LockInit, HasLock, Actors
<1>2. \A s \in States : state[s].held = FALSE /\ state[s].queue = {}
  BY DEF LockInit, NewState
<1>3. acquired \in [Requests -> BOOLEAN] /\ \A r \in Requests : acquired[r] = FALSE
  BY DEF LockInit
<1>4. Passed
  BY <1>1, <1>2, <1>3, Zenon DEF Passed
<1>5. Line({})
  BY DEF Line
<1> QED BY <1>2, <1>4, <1>5, ZenonT(30) DEF LockInit, InLine

LEMMA PassedRestart == LockRestart => Passed' /\ InLine' /\ \A a \in Actors : ~HasLock(a)'
<1> SUFFICES ASSUME LockRestart PROVE Passed' /\ InLine' /\ \A a \in Actors : ~HasLock(a)'
  OBVIOUS
<1>1. Requests \subseteq Actors /\ \A a \in Actors : ~HasLock(a)'
  BY ZenonT(30) DEF LockRestart, HasLock, Actors
<1>2. \A s \in States : state'[s].held = FALSE /\ state'[s].queue = {}
  BY DEF LockRestart, NewState
<1>3. acquired' \in [Requests -> BOOLEAN] /\ \A r \in Requests : acquired'[r] = FALSE
  BY DEF LockRestart
<1>4. Passed'
  BY <1>1, <1>2, <1>3, Zenon DEF Passed
<1>5. Line({})'
  BY DEF Line
<1>6. \A s \in States : Line(state[s].queue)'
  BY <1>2, <1>5, Zenon
<1> QED BY <1>1, <1>4, <1>6 DEF LockRestart, InLine

\* Whoever gets the lock in a step finds it free, with nobody queued, or is the head of the queue.
Gets(a) ==
    \/ \A s \in States : state[s].queue = {}
    \/ \E s \in States : a \in state[s].queue /\ ahead[a] = {}

LEMMA PassedStep ==
    ASSUME LockInv, Passed, InLine, [LockNext]_lockVars
    PROVE  Passed' /\ InLine' /\ \A a \in Actors : HasLock(a)' => HasLock(a) \/ Gets(a)
<1> DEFINE Goal == Passed' /\ InLine' /\ \A a \in Actors : HasLock(a)' => HasLock(a) \/ Gets(a)
<1> SUFFICES Goal
  OBVIOUS
<1>0. /\ state \in [States -> LockStates] /\ \A a \in Actors : phase[a] # "idle" => at[a] \in States
      /\ Requests \subseteq Actors /\ Drain \in Actors /\ Drain \notin Requests
  BY UploadLockAssumption DEF LockInv, LockTypes, References, Actors
<1>a. Passed' /\ InLine' /\ NobodyGets => Goal
  BY Zenon DEF NobodyGets
<1>b. Passed' /\ InLine' /\ (\A s \in States : state[s].queue = {}) => Goal
  BY Zenon DEF Gets
<1>c. ASSUME NEW a \in Actors, phase[a] = "hold",
             Passed' /\ InLine' /\ \A b \in Actors : HasLock(b)' => b \in state[at[a]].queue /\ ahead[b] = {}
      PROVE  Goal
  BY <1>0, <1>c, Zenon DEF Gets
<1> HIDE DEF Goal
<1>1. ASSUME NEW r \in Requests, NewLock(r) PROVE Goal
  BY <1>0, <1>1, <1>a, RetainPassed, Zenon DEF NewLock
<1>2. ASSUME NEW r \in Requests, LockFree(r) PROVE Goal
  <2>1. /\ state'[at[r]].held /\ state'[at[r]].owner = {r} /\ at[r] \in States
        /\ \A t \in States : state'[t].queue = state[t].queue
        /\ \A t \in States \ {at[r]} : state'[t] = state[t]
    <3>1. PICK y : y = [[[state[at[r]] EXCEPT !.held = TRUE] EXCEPT !.owner = {r}] EXCEPT !.wake = {r}]
      OBVIOUS
    <3>2. at[r] \in States /\ state[at[r]] \in LockStates
      BY <1>0, <1>2 DEF LockFree
    <3>3. y \in LockStates /\ y.queue = state[at[r]].queue /\ y.owner = {r}
      BY <3>1, <3>2, Zenon DEF LockStates
    <3>4. y.held
      BY <3>1, <3>2 DEF LockStates
    <3>5. state' = [state EXCEPT ![at[r]] = y]
      BY <1>0, <1>2, <3>1, <3>2, Zenon DEF LockFree
    <3>6. state'[at[r]] = y /\ \A t \in States \ {at[r]} : state'[t] = state[t]
      BY <1>0, <3>2, <3>3, <3>5, StateChanged, ZenonT(30)
    <3> QED BY <3>2, <3>3, <3>4, <3>6, Zenon
  <2>2. /\ phase[r] = "new" /\ ~state[at[r]].held /\ Goes(r, "hold") /\ at' = at /\ ahead' = ahead
        /\ acquired' = [acquired EXCEPT ![r] = TRUE] /\ r \in Actors
    BY <1>0, <1>2 DEF LockFree
  <2> QED BY <1>b, <2>1, <2>2, TakePassed, Zenon
<1>3. ASSUME NEW r \in Requests, Enqueue(r) PROVE Goal
  BY <1>3, <1>a, EnqueuePassed
<1>4. ASSUME NEW r \in Requests, Wake(r) \/ Granted(r) \/ NotifyWaiters(r) PROVE Goal
  <2>1. PICK to \in {"wait", "notify", "hold"} :
           Goes(r, to) /\ phase[r] \in {"wake", "wait", "notify"} /\ (to = "wait" => phase[r] = "wake")
    BY <1>4, ZenonT(30) DEF Wake, Granted, NotifyWaiters
  <2>2. UNCHANGED <<at, state, ahead, acquired>> /\ r \in Actors
    BY <1>0, <1>4, ZenonT(30) DEF Wake, Granted, NotifyWaiters
  <2>3. phase'[r] = to
    BY <2>1, <2>2 DEF Goes, LockInv, LockTypes
  <2>4. to \in {"notify", "hold"} => HasLock(r)
    <3>1. CASE Wake(r)
      <4>1. phase'[r] = "wait"
        BY <2>2, <3>1, Zenon DEF Wake, Goes, LockInv, LockTypes
      <4> QED BY <2>3, <4>1, Zenon
    <3>2. CASE Granted(r)
      <4>1. phase[r] = "wait" /\ ~Queued(r)
        BY <3>2, Zenon DEF Granted
      <4>2. at[r] # Nil
        BY <2>2, <4>1, Zenon DEF LockInv, References
      <4> QED BY <4>1, <4>2, Zenon DEF Queued, HasLock
    <3>3. CASE NotifyWaiters(r)
      BY <3>3, Zenon DEF NotifyWaiters, HasLock
    <3> QED BY <1>4, <3>1, <3>2, <3>3, Zenon
  <2>5. HasLock(r)' <=> HasLock(r)
    <3>1. CASE to = "wait"
      BY <2>1, <2>2, <2>3, <3>1 DEF HasLock
    <3>2. CASE to \in {"notify", "hold"}
      BY <2>3, <2>4, <3>2 DEF HasLock
    <3> QED BY <2>1, <3>1, <3>2
  <2> QED BY <1>a, <2>1, <2>2, <2>5, GoesOnPassed, Zenon
<1>5. ASSUME NEW r \in Requests, TimesOut(r) PROVE Goal
  BY <1>5, <1>a, TimesOutPassed
<1>6. ASSUME NEW r \in Requests, UnlockUpload(r) PROVE Goal
  <2>1. r \in Actors /\ phase[r] = "hold" /\ Handoff(at[r]) /\ Goes(r, "drop") /\ at' = at
    BY <1>0, <1>6 DEF UnlockUpload
  <2> QED BY <1>c, <2>1, HandoffPassed
<1>7. CASE TryMaintenanceLock
  BY <1>0, <1>7, <1>a, RetainPassed, Zenon DEF TryMaintenanceLock
<1>8. CASE MaintenanceLocked
  <2>1. /\ phase[Drain] = "new" /\ at' = at /\ ahead' = ahead /\ acquired' = acquired
        /\ at[Drain] \in States
    BY <1>0, <1>8 DEF MaintenanceLocked
  <2>2. CASE Goes(Drain, "drop") /\ state' = state
    <3>1. phase'[Drain] = "drop"
      BY <1>0, <2>2 DEF Goes, LockInv, LockTypes
    <3>2. HasLock(Drain)' <=> HasLock(Drain)
      BY <2>1, <3>1, ZenonT(30) DEF HasLock
    <3> QED BY <1>0, <1>a, <2>1, <2>2, <3>2, GoesOnPassed, Zenon
  <2>3. CASE /\ ~state[at[Drain]].held /\ Goes(Drain, "hold")
             /\ state' = [state EXCEPT ![at[Drain]].held = TRUE]
    <3>1. PICK y : y = [state[at[Drain]] EXCEPT !.held = TRUE]
      BY Zenon
    <3>2. state[at[Drain]] \in LockStates
      BY <1>0, <2>1, ZenonT(30)
    <3>3. y \in LockStates /\ y.queue = state[at[Drain]].queue
      BY <3>1, <3>2, Zenon DEF LockStates
    <3>4. y.held
      BY <3>1, <3>2 DEF LockStates
    <3>5. state' = [state EXCEPT ![at[Drain]] = y]
      BY <2>3, <3>1, Zenon
    <3>6. state'[at[Drain]] = y /\ \A t \in States \ {at[Drain]} : state'[t] = state[t]
      BY <1>0, <2>1, <3>3, <3>5, StateChanged, ZenonT(30)
    <3>7. state'[at[Drain]].held /\ \A t \in States : state'[t].queue = state[t].queue
      BY <3>3, <3>4, <3>6, Zenon
    <3> QED BY <1>0, <1>b, <2>1, <2>3, <3>6, <3>7, TakePassed, Zenon
  <2> QED BY <1>8, <2>2, <2>3, Zenon DEF MaintenanceLocked
<1>9. CASE MaintenanceUnlock
  <2>1. phase[Drain] = "hold" /\ Handoff(at[Drain]) /\ Goes(Drain, "drop") /\ at' = at
    BY <1>9 DEF MaintenanceUnlock
  <2> QED BY <1>0, <1>c, <2>1, HandoffPassed, ZenonT(30)
<1>10. ASSUME NEW a \in Actors, Release(a) PROVE Goal
  BY <1>10, <1>a, ReleasePassed
<1>11. CASE LockRestart
  BY <1>11, PassedRestart, Zenon DEF Goal
<1>12. CASE UNCHANGED lockVars
  <2>1. phase' = phase /\ at' = at /\ state' = state /\ ahead' = ahead /\ acquired' = acquired
    BY <1>12 DEF lockVars
  <2>2. \A a \in Actors : HasLock(a)' <=> HasLock(a)
    BY <2>1, Zenon DEF HasLock
  <2>3. Passed' /\ InLine'
    BY <2>1, <2>2, ZenonT(30) DEF Passed, InLine, Line, HasLock
  <2> QED BY <1>a, <2>2, <2>3, Zenon DEF NobodyGets
<1> QED BY <1>1, <1>2, <1>3, <1>4, <1>5, <1>6, <1>7, <1>8, <1>9, <1>10, <1>11, <1>12, Zenon
        DEF LockNext, Proceeds

(***************************************************************************)
(* A line that is not empty has a head: the strict subsets of a finite set  *)
(* are well-founded, and whoever is ahead of another has fewer ahead.       *)
(***************************************************************************)
LEMMA HeadOfLine ==
    ASSUME NEW Q \in SUBSET Requests, Q # {}, Line(Q), ahead \in [Requests -> SUBSET Requests]
    PROVE  \E q \in Q : ahead[q] = {}
<1> DEFINE T == {ahead[q] : q \in Q}
<1>1. T \subseteq FiniteSubsetsOf(Requests) /\ T # {}
  BY UploadLockAssumption, FS_Subset, SMTT(30) DEF FiniteSubsetsOf
<1>2. PICK x \in T : \A y \in T : ~(<<y, x>> \in StrictSubsetOrdering(Requests))
  <2> HIDE DEF T
  <2> QED BY <1>1, FS_StrictSubsetOrderingWellFounded, WFMin
<1>3. PICK q \in Q : x = ahead[q]
  BY <1>2
<1>4. ASSUME NEW w \in ahead[q] PROVE FALSE
  <2>1. w \in Q /\ ahead[w] \subseteq ahead[q] /\ w \notin ahead[w]
    BY <1>3, Zenon DEF Line
  <2>2. ahead[w] # ahead[q] /\ ahead[w] \in SUBSET Requests /\ ahead[q] \in SUBSET Requests
    BY <1>3, <2>1
  <2>3. <<ahead[w], ahead[q]>> \in StrictSubsetOrdering(Requests)
    BY <2>1, <2>2 DEF StrictSubsetOrdering
  <2> QED BY <1>2, <1>3, <2>1, <2>3
<1> QED BY <1>3, <1>4

\* The queued requests wait for the same state, the one in the map.
LEMMA OneQueue ==
    ASSUME LockInv, NEW s \in States, NEW t \in States, NEW q \in state[s].queue, NEW r \in state[t].queue
    PROVE  s = t /\ at[r] = t
<1>1. q \in Requests /\ r \in Requests /\ Requests \subseteq Actors
  BY DEF LockInv, LockTypes, LockStates, Actors
<1>2. at[q] = s /\ at[r] = t /\ s # Nil /\ t # Nil
  BY UploadLockAssumption, Zenon DEF LockInv, Exclusion
<1> QED BY <1>1, <1>2, Zenon DEF LockInv, References

(***************************************************************************)
(* No wakeup is lost, for any number of requests: whoever is queued for the *)
(* lock of an upload waits for somebody that has it and will hand it over,  *)
(* and the queue has a head to hand it to, whatever times out or is dropped *)
(* on the way (enqueue, remove, handoff, release).                          *)
(***************************************************************************)
THEOREM LockServesQueue == LockSpec => []QueueIsServed
<1>1. ASSUME LockInv, Passed, InLine PROVE QueueIsServed
  <2> SUFFICES ASSUME NEW r \in Requests, Queued(r)
               PROVE  /\ \E a \in Actors : HasLock(a) /\ at[a] = at[r] /\ (a \in Requests => acquired[a])
                      /\ \E next \in state[at[r]].queue : ahead[next] = {}
    BY DEF QueueIsServed
  <2>1. at[r] \in States /\ r \in state[at[r]].queue /\ state[at[r]].queue \in SUBSET Requests
    BY <1>1 DEF Queued, LockInv, LockTypes, LockStates, Actors
  <2>2. PICK a \in Actors : at[a] = at[r] /\ HasLock(a)
    BY <1>1, <2>1, Zenon DEF Passed
  <2>3. a \in Requests => acquired[a]
    BY <1>1, <2>2, Zenon DEF Passed
  <2>4. \E next \in state[at[r]].queue : ahead[next] = {}
    BY <1>1, <2>1, HeadOfLine, Zenon DEF InLine
  <2> QED BY <2>2, <2>3, <2>4, ZenonT(30)
<1> QED BY <1>1, LockInitInv, LockStep, PassedInit, PassedStep, PTL DEF LockSpec

(***************************************************************************)
(* The lock is first come, first served, for any number of requests: while  *)
(* one is queued nobody gets the lock but those queued before it, or the    *)
(* request itself (enqueue, handoff, tryMaintenanceLock).                   *)
(***************************************************************************)
THEOREM LockServesInOrder == LockSpec => FirstComeFirstServed
<1>1. ASSUME LockInv, Passed, InLine, [LockNext]_lockVars
      PROVE  \A r \in Requests, a \in Actors :
                Queued(r) /\ ~HasLock(a) /\ HasLock(a)' => a = r \/ a \in ahead[r]
  <2> SUFFICES ASSUME NEW r \in Requests, NEW a \in Actors, Queued(r), ~HasLock(a), HasLock(a)', a # r
               PROVE  a \in ahead[r]
    BY Zenon
  <2>1. at[r] \in States /\ r \in state[at[r]].queue
    BY <1>1 DEF Queued, LockInv, LockTypes, Actors
  <2>2. Gets(a)
    BY <1>1, PassedStep, Zenon
  <2>3. PICK s \in States : a \in state[s].queue /\ ahead[a] = {}
    BY <2>1, <2>2, Zenon DEF Gets
  <2>4. s = at[r]
    BY <1>1, <2>1, <2>3, OneQueue, ZenonT(30)
  <2> QED BY <1>1, <2>1, <2>3, <2>4, Zenon DEF InLine, Line
<1>2. LockInv /\ Passed /\ InLine /\ [LockNext]_lockVars =>
      [\A r \in Requests, a \in Actors :
          Queued(r) /\ ~HasLock(a) /\ HasLock(a)' => a = r \/ a \in ahead[r]]_lockVars
  BY <1>1
<1> QED BY <1>2, LockInitInv, LockStep, PassedInit, PassedStep, PTL DEF LockSpec, FirstComeFirstServed

(***************************************************************************)
(* The map holds no state that nobody refers to, for any number of requests *)
(* (retain, release): the last one to release a state finds it counted once *)
(* and takes it out.                                                        *)
(***************************************************************************)
THEOREM LockForgets == LockSpec => []MapIsClean
<1>1. LockInit => MapIsClean
  BY DEF LockInit, MapIsClean
<1>2. ASSUME LockInv, MapIsClean, NEW a \in Actors, Release(a) PROVE MapIsClean'
  <2> SUFFICES ASSUME current' # Nil PROVE \E b \in Actors : at'[b] = current'
    BY Zenon DEF MapIsClean
  <2>1. PICK s : s = at[a]
    OBVIOUS
  <2>2. s \in States /\ current = s
    BY <1>2, <2>1, UploadLockAssumption DEF Release, LockInv, LockTypes, References
  <2>3. current' = s /\ state[s].refs # 1
    BY <1>2, <2>1, <2>2, Zenon DEF Release
  <2>4. Cardinality(Users(s)) # 1
    BY <1>2, <2>2, <2>3 DEF LockInv, References
  <2>5. Users(s) # {a}
    BY <2>4, FS_Singleton, Zenon
  <2>6. PICK b \in Actors : b # a /\ at[b] = s
    BY <2>1, <2>5, Zenon DEF Users
  <2>7. at'[b] = at[b]
    BY <1>2, <2>6 DEF Release, LockInv, LockTypes
  <2> QED BY <2>3, <2>6, <2>7
<1>3. ASSUME LockInv, NEW a \in Actors, Retain(a) PROVE MapIsClean'
  <2>1. PICK s : current' = s /\ at' = [at EXCEPT ![a] = s]
    BY <1>3, Zenon DEF Retain
  <2>2. at'[a] = current'
    BY <1>3, <2>1 DEF LockInv, LockTypes
  <2> QED BY <2>2, Zenon DEF MapIsClean
<1>4. ASSUME MapIsClean, UNCHANGED <<at, current>> PROVE MapIsClean'
  BY <1>4 DEF MapIsClean
<1>5. ASSUME LockInv, MapIsClean, [LockNext]_lockVars PROVE MapIsClean'
  <2>1. ASSUME NEW r \in Requests, Proceeds(r) \/ TimesOut(r) \/ UnlockUpload(r) PROVE UNCHANGED <<at, current>>
    BY <2>1, Zenon DEF Proceeds, LockFree, Enqueue, Wake, Granted, NotifyWaiters, TimesOut, UnlockUpload
  <2>2. ASSUME MaintenanceLocked \/ MaintenanceUnlock \/ UNCHANGED lockVars PROVE UNCHANGED <<at, current>>
    BY <2>2, Zenon DEF MaintenanceLocked, MaintenanceUnlock, lockVars
  <2>3. ASSUME NEW r \in Requests, NewLock(r) PROVE r \in Actors /\ Retain(r)
    BY <2>3 DEF NewLock, Actors
  <2>4. ASSUME TryMaintenanceLock PROVE Drain \in Actors /\ Retain(Drain)
    BY <2>4 DEF TryMaintenanceLock, Actors
  <2>5. CASE LockRestart
    BY <2>5 DEF LockRestart, MapIsClean
  <2> QED BY <1>2, <1>3, <1>4, <1>5, <2>1, <2>2, <2>3, <2>4, <2>5, Zenon DEF LockNext
<1> QED BY <1>1, <1>5, LockInitInv, LockStep, PTL DEF LockSpec

-----------------------------------------------------------------------------
(***************************************************************************)
(*                              The upload.                                *)
(***************************************************************************)
Records == {NoRecord} \cup [stage : {"prepared", "putting", "persisted"}, done : SUBSET All]
Steps == {"none", "listed", "get", "write", "load", "prepare", "putting", "put", "persist", "deliver",
          "call", "checkpoint", "removeBin", "removeInfo", "acknowledge", "done"}
Jobs == [kind : {"none", "patch", "delete", "resume", "sweep"}, step : Steps, rec : Records, failed : BOOLEAN]
UploadTypes ==
    /\ bin \in {Absent} \cup 0..Size
    /\ rec \in Records
    /\ do \in [Actors -> Jobs]
    /\ registered \in Callbacks
    /\ delivered \in SUBSET All

(***************************************************************************)
(* An actor starts to work when it has the lock; the drain goroutine looks  *)
(* for completions that were recorded.                                      *)
(***************************************************************************)
Waiting ==
    /\ \A a \in Actors : phase[a] = "idle" => do[a] = NoJob \/ (do[a].step = "listed" /\ do[a].kind = "sweep")
    /\ \A a \in Actors : phase[a] # "idle" => do[a].kind # "none"
    /\ \A a \in Actors : phase[a] \in {"new", "wake", "wait", "notify"} => do[a].step = "get"
    /\ \A a \in Actors : do[a].kind = "sweep" => a = Drain
    /\ \A a \in Actors : do[a].kind = "resume" => accepted

(***************************************************************************)
(* What the files, the record and the bucket say of each other whoever      *)
(* works.                                                                   *)
(***************************************************************************)
Durable ==
    /\ made \in {"no", "bin"} => ~info /\ ~accepted
    /\ rec # NoRecord => accepted
    /\ accepted /\ rec = NoRecord => ~info
    /\ accepted => bin \in {Size, Absent}
    /\ rec.done \subseteq delivered
    /\ rec.stage = "persisted" \/ delivered # {} => obj = "upload"
    /\ accepted /\ ~terminated => obj = "upload" \/ (Entry /\ bin = Size)
    /\ accepted /\ ~terminated /\ rec = NoRecord => delivered = All

(***************************************************************************)
(* What the holder of the lock knows at each step.                         *)
(***************************************************************************)
Whole == Entry /\ bin = Size
Removes(a) ==
    CASE do[a].kind = "delete" -> TRUE
      [] do[a].kind = "sweep" -> ~accepted
      [] OTHER -> rec.stage = "persisted" /\ delivered = All
Finishing == {"load", "prepare", "putting", "put", "persist", "deliver", "call", "checkpoint"}
Knows(a) ==
    /\ Works(a, "write") => Entry /\ do[a].kind = "patch"
    /\ phase[a] = "hold" /\ do[a].step \in Finishing => do[a].kind \in {"patch", "resume"}
    /\ Works(a, "load") => Whole
    /\ Works(a, "prepare") => Whole /\ rec = NoRecord
    /\ Works(a, "putting") => Whole /\ do[a].rec = rec /\ rec.stage = "prepared"
    /\ Works(a, "put") => Whole /\ do[a].rec = rec /\ rec.stage = "putting"
    /\ Works(a, "persist") => Whole /\ do[a].rec = rec /\ rec.stage = "putting" /\ obj = "upload"
    /\ Works(a, "deliver") => rec.stage = "persisted"
    /\ Works(a, "call") \/ Works(a, "checkpoint") =>
         rec.stage = "persisted" /\ do[a].rec.stage = "persisted" /\ do[a].rec.done \subseteq delivered
    /\ Works(a, "removeBin") => Removes(a) /\ (do[a].kind = "sweep" => staleThen)
    /\ Works(a, "removeInfo") => Removes(a) /\ (do[a].kind = "delete" => terminated)
    /\ Works(a, "acknowledge") => rec.stage = "persisted" /\ delivered = All /\ ~info

UploadInv == LockInv /\ UploadTypes /\ Waiting /\ Durable /\ \A a \in Actors : Knows(a)

-----------------------------------------------------------------------------
LEMMA AllNames == ASSUME UploadTypes PROVE Names(registered) = All
  BY UploadsAssumption DEF UploadTypes, All

LEMMA Alone == ASSUME LockInv PROVE OneHolder
  BY ZenonT(30) DEF LockInv, Exclusion, HasLock, OneHolder

(***************************************************************************)
(* The upload uses the lock as the lock's specification says.              *)
(***************************************************************************)
LEMMA UploadLocks == ASSUME [UploadNext]_uploadVars PROVE [LockNext]_lockVars
<1> USE DEF lockVars
<1>1. CASE CreateBin \/ CreateInfo \/ Expires
  BY <1>1, ZenonT(30) DEF CreateBin, CreateInfo, Expires
<1>2. ASSUME NEW r \in Requests, Request(r) \/ Locking(r) \/ GivesUp(r) \/ Patch(r) PROVE [LockNext]_lockVars
  BY <1>2, ZenonT(30) DEF Request, Locking, GivesUp, Patch, DeclareLength, WriteChunk, LockNext
<1>3. ASSUME NEW a \in Actors, Work(a) PROVE [LockNext]_lockVars
  BY <1>3, Zenon DEF Work, Get, Finish, LoadCompletion, Prepare, CheckpointPut, ReconcileObject, CheckpointPersisted,
     DeliverCompletion, RunCallback, CheckpointCallback, SaveCompletion, Remove, RemoveBin, RemoveInfo,
     DeleteCompletion
<1>4. ASSUME NEW a \in Actors, Fails(a) \/ Releasing(a) PROVE [LockNext]_lockVars
  BY <1>4, ZenonT(30) DEF Fails, Releasing, LockNext
<1>5. CASE Maintain
  BY <1>5 DEF Maintain, Retry, SweepExpired, SweepListed, DrainLocking, LockNext
<1>6. CASE Crash
  BY <1>6 DEF Crash, LockNext
<1>7. CASE UNCHANGED uploadVars
  BY <1>7 DEF uploadVars
<1> QED BY <1>1, <1>2, <1>3, <1>4, <1>5, <1>6, <1>7, ZenonT(30) DEF UploadNext

(***************************************************************************)
(* A step of the work of the holder: nobody else works, so what the others  *)
(* know does not matter.                                                    *)
(***************************************************************************)
LEMMA WorkStep ==
  ASSUME UploadInv, NEW a \in Actors, phase[a] = "hold", UNCHANGED lockVars,
         NEW j \in Jobs, do' = [do EXCEPT ![a] = j], j.kind = do[a].kind,
         accepted => accepted', UNCHANGED registered,
         bin' \in {Absent} \cup 0..Size, rec' \in Records, delivered' \in SUBSET All,
         Durable', Knows(a)'
  PROVE  UploadInv'
<1>1. LockInv'
  BY LockStep DEF UploadInv
<1>2. do' \in [Actors -> Jobs] /\ do'[a] = j /\ phase' = phase /\ \A b \in Actors \ {a} : do'[b] = do[b]
  BY ZenonT(30) DEF UploadInv, UploadTypes, lockVars
<1>3. UploadTypes'
  BY <1>2, ZenonT(30) DEF UploadInv, UploadTypes
<1>4. Waiting'
  BY <1>2, ZenonT(30) DEF UploadInv, Waiting
<1>5. ASSUME NEW b \in Actors \ {a} PROVE Knows(b)'
  <2>1. phase'[b] # "hold"
    BY <1>2, Alone DEF UploadInv, OneHolder
  <2> QED BY <2>1, Zenon DEF Knows, Finishing, Works
<1> QED BY <1>1, <1>3, <1>4, <1>5 DEF UploadInv

(***************************************************************************)
(* The steps of the work, one lemma each.                                  *)
(***************************************************************************)
LEMMA GetInv == ASSUME UploadInv, NEW a \in Actors, Get(a) PROVE UploadInv'
<1>1. do[a] \in Jobs /\ do[a].kind # "none"
  BY ZenonT(30) DEF UploadInv, UploadTypes, Waiting, Get, Works
<1>2. PICK j : j = [do[a] EXCEPT !.step = AfterGet(a)]
  BY Zenon
<1>3. AfterGet(a) \in {"write", "removeBin", "load", "deliver", "done"}
  BY <1>1 DEF AfterGet, Jobs
<1>4. j \in Jobs /\ j.kind = do[a].kind /\ j.step = AfterGet(a)
  BY <1>1, <1>2, <1>3 DEF Jobs, Steps
<1>5. do' = [do EXCEPT ![a] = j]
  BY <1>2 DEF Get, To
<1>6. Durable'
  BY Zenon DEF UploadInv, Durable, Get, fileVars, histVars, Entry
<1>7. Knows(a)'
  <2>1. do'[a] = j
    BY <1>5 DEF UploadInv, UploadTypes
  <2>2. CASE j.step = "write"
    BY <1>1, <1>4, <2>1, <2>2 DEF AfterGet, Jobs, Knows, Finishing, Works, Get, fileVars, Entry
  <2>3. CASE j.step = "removeBin"
    BY <1>1, <1>4, <2>1, <2>3, ZenonT(30) DEF AfterGet, Jobs, Knows, Finishing, Works, Get, fileVars, timeVars, histVars, Entry, IsExpired, Removes, UploadInv, Durable
  <2>4. CASE j.step = "load"
    BY <1>1, <1>4, <2>1, <2>4, Zenon DEF AfterGet, Knows, Finishing, Works, Get, fileVars, Entry, Whole, UploadInv, Durable, Waiting, Jobs
  <2>5. CASE j.step = "deliver"
    BY <1>1, <1>4, <2>1, <2>5 DEF AfterGet, Jobs, Knows, Finishing, Works, Get, fileVars
  <2>6. CASE j.step = "done"
    BY <2>1, <2>6, Zenon DEF Knows, Finishing, Works
  <2> QED BY <1>3, <1>4, <2>2, <2>3, <2>4, <2>5, <2>6
<1> QED BY <1>4, <1>5, <1>6, <1>7, WorkStep, Zenon DEF UploadInv, UploadTypes, Get, Works, fileVars, histVars

LEMMA DeclareLengthInv == ASSUME UploadInv, NEW a \in Actors, DeclareLength(a) PROVE UploadInv'
<1>1. do[a] \in Jobs /\ do' = [do EXCEPT ![a] = do[a]]
  BY DEF UploadInv, UploadTypes, DeclareLength
<1>2. Durable'
  BY Zenon DEF UploadInv, Durable, DeclareLength, histVars, Entry
<1>3. Knows(a)'
  BY Zenon DEF UploadInv, Knows, Finishing, Works, DeclareLength, lockVars, Entry
<1> QED BY <1>1, <1>2, <1>3, WorkStep, Zenon DEF UploadInv, UploadTypes, DeclareLength, Works, histVars

LEMMA WriteChunkInv == ASSUME UploadInv, NEW a \in Actors, WriteChunk(a) PROVE UploadInv'
<1>1. do[a] \in Jobs /\ Entry /\ do[a].kind = "patch" /\ bin \in 0..Size
  BY Zenon DEF UploadInv, UploadTypes, Knows, Finishing, WriteChunk, Works, Entry
<1>2. PICK n \in bin..Size : /\ bin' = n
                             /\ (n = Size /\ To(a, "load")) \/ To(a, "done")
  BY DEF WriteChunk
<1>3. n \in 0..Size /\ n # Absent /\ (bin = Size => n = Size)
  BY <1>1, <1>2, UploadsAssumption, SMTT(30) DEF Absent
<1>4. PICK to \in {"load", "done"} : To(a, to) /\ (to = "load" => n = Size)
  BY <1>2
<1>5. PICK j : j = [do[a] EXCEPT !.step = to]
  BY Zenon
<1>6. j \in Jobs /\ j.kind = "patch" /\ j.step = to /\ do' = [do EXCEPT ![a] = j]
  BY <1>1, <1>4, <1>5 DEF Jobs, Steps, To
<1>7. Durable'
  BY <1>1, <1>2, <1>3, Zenon DEF UploadInv, Durable, WriteChunk, histVars, Entry
<1>8. Knows(a)'
  <2>1. do'[a] = j
    BY <1>6 DEF UploadInv, UploadTypes
  <2> QED BY <1>1, <1>2, <1>3, <1>4, <1>6, <2>1, Zenon DEF Knows, Finishing, Works, Whole, Entry, WriteChunk
<1> QED BY <1>1, <1>2, <1>3, <1>6, <1>7, <1>8, WorkStep, Zenon DEF UploadInv, UploadTypes, WriteChunk, Works, histVars

LEMMA LoadCompletionInv == ASSUME UploadInv, NEW a \in Actors, LoadCompletion(a) PROVE UploadInv'
<1>1. do[a] \in Jobs /\ Whole /\ rec \in Records /\ do[a].kind \in {"patch", "resume"}
  BY DEF UploadInv, UploadTypes, Knows, Works, Finishing, LoadCompletion
<1>2. PICK to : /\ to = CASE rec.stage = "none" -> "prepare"
                          [] rec.stage = "prepared" -> "putting"
                          [] rec.stage = "putting" -> "put"
                          [] rec.stage = "persisted" -> "deliver"
  OBVIOUS
<1>3. \/ to = "prepare" /\ rec = NoRecord
      \/ to = "putting" /\ rec.stage = "prepared"
      \/ to = "put" /\ rec.stage = "putting"
      \/ to = "deliver" /\ rec.stage = "persisted"
  BY <1>1, <1>2, SMTT(30) DEF Records, NoRecord, Record
<1>4. PICK j : j = [[do[a] EXCEPT !.rec = rec] EXCEPT !.step = to]
  OBVIOUS
<1>5. j \in Jobs /\ j.kind = do[a].kind /\ j.step = to /\ j.rec = rec
  BY <1>1, <1>3, <1>4, Zenon DEF Jobs, Steps
<1>6. do' = [do EXCEPT ![a] = j]
  <2>1. do' = [do EXCEPT ![a].rec = rec, ![a].step = to]
    BY <1>2, Zenon DEF LoadCompletion
  <2> QED BY <1>1, <1>4, <2>1, Zenon DEF UploadInv, UploadTypes
<1>7. Durable'
  BY DEF UploadInv, Durable, LoadCompletion, fileVars, histVars, Entry
<1>8. Knows(a)'
  <2>1. do'[a] = j
    BY <1>6 DEF UploadInv, UploadTypes
  <2> QED BY <1>1, <1>3, <1>5, <2>1, Zenon DEF Knows, Finishing, Works, Whole, Entry, LoadCompletion, fileVars
<1> QED BY <1>5, <1>6, <1>7, <1>8, WorkStep, Zenon DEF UploadInv, UploadTypes, LoadCompletion, Works, fileVars, histVars

(***************************************************************************)
(* The four places that save the record.                                   *)
(***************************************************************************)
LEMMA SaveInv ==
  ASSUME UploadInv, NEW a \in Actors, phase[a] = "hold",
         NEW record \in Records, NEW step \in Steps, SaveCompletion(a, record, step),
         accepted => accepted', UNCHANGED delivered,
         Durable', Knows(a)'
  PROVE  UploadInv'
<1>1. do[a] \in Jobs
  BY DEF UploadInv, UploadTypes
<1>2. PICK j : j = [[do[a] EXCEPT !.rec = record] EXCEPT !.step = step]
  OBVIOUS
<1>3. j \in Jobs /\ j.kind = do[a].kind
  BY <1>1, <1>2, Zenon DEF Jobs
<1>4. do' = [do EXCEPT ![a] = j]
  BY <1>1, <1>2, Zenon DEF SaveCompletion, UploadInv, UploadTypes
<1> QED BY <1>3, <1>4, WorkStep, Zenon DEF UploadInv, UploadTypes, SaveCompletion

LEMMA SaveDo ==
  ASSUME UploadInv, NEW a \in Actors, NEW record, NEW step, SaveCompletion(a, record, step)
  PROVE  do'[a].rec = record /\ do'[a].step = step /\ do'[a].kind = do[a].kind
<1>1. do[a] \in Jobs /\ do \in [Actors -> Jobs]
  BY DEF UploadInv, UploadTypes
<1> QED BY <1>1 DEF SaveCompletion, Jobs

LEMMA PrepareInv == ASSUME UploadInv, NEW a \in Actors, Prepare(a) PROVE UploadInv'
<1>1. PICK record : record = Record("prepared", {})
  OBVIOUS
<1>2. /\ record \in Records /\ record # NoRecord /\ record.stage = "prepared" /\ record.done = {}
      /\ SaveCompletion(a, record, "putting")
  BY <1>1, Zenon DEF Records, NoRecord, Record, Prepare
<1>3. Whole /\ do[a].kind \in {"patch", "resume"}
  BY Zenon DEF UploadInv, Knows, Works, Finishing, Prepare
<1>4. Durable'
  BY <1>2, <1>3, SMTT(30) DEF UploadInv, Durable, Prepare, SaveCompletion, Whole, Entry
<1>5. Knows(a)'
  <2>1. do'[a].rec = record /\ do'[a].step = "putting" /\ do'[a].kind = do[a].kind
    BY <1>2, SaveDo, ZenonT(30)
  <2> QED BY <1>2, <1>3, <2>1 DEF Knows, Finishing, Works, SaveCompletion, Whole, Entry
<1> QED BY <1>2, <1>4, <1>5, SaveInv, Zenon DEF Prepare, Works, Steps

LEMMA CheckpointPutInv == ASSUME UploadInv, NEW a \in Actors, CheckpointPut(a) PROVE UploadInv'
<1>1. /\ Whole /\ do[a].rec = rec /\ rec.stage = "prepared" /\ do[a].kind \in {"patch", "resume"}
      /\ rec \in Records
  BY DEF UploadInv, UploadTypes, Knows, Works, Finishing, CheckpointPut
<1>2. PICK record : record = [rec EXCEPT !.stage = "putting"]
  BY Zenon
<1>3. record \in Records /\ record # NoRecord /\ record.stage = "putting" /\ record.done = rec.done /\ rec # NoRecord
  BY <1>1, <1>2, SMTT(30) DEF Records, NoRecord, Record
<1>4. SaveCompletion(a, record, "put")
  BY <1>1, <1>2 DEF CheckpointPut
<1>5. Durable'
  BY <1>1, <1>3, <1>4, SMTT(30) DEF UploadInv, Durable, CheckpointPut, SaveCompletion, histVars, Entry
<1>6. Knows(a)'
  <2>1. do'[a].rec = record /\ do'[a].step = "put" /\ do'[a].kind = do[a].kind
    BY <1>4, SaveDo, ZenonT(30)
  <2> QED BY <1>1, <1>3, <1>4, <2>1 DEF Knows, Works, Finishing, SaveCompletion, Whole, Entry
<1> QED BY <1>3, <1>4, <1>5, <1>6, SaveInv DEF CheckpointPut, Works, Steps, histVars

LEMMA ReconcileObjectInv == ASSUME UploadInv, NEW a \in Actors, ReconcileObject(a) PROVE UploadInv'
<1>1. /\ Whole /\ do[a].rec = rec /\ rec.stage = "putting" /\ do[a].kind \in {"patch", "resume"}
      /\ do[a] \in Jobs
  BY Zenon DEF UploadInv, UploadTypes, Knows, Works, Finishing, ReconcileObject
<1>2. PICK j : j = [do[a] EXCEPT !.step = "persist"]
  BY Zenon
<1>3. j \in Jobs /\ j.kind = do[a].kind /\ j.step = "persist" /\ j.rec = rec /\ do' = [do EXCEPT ![a] = j]
  BY <1>1, <1>2 DEF Jobs, Steps, ReconcileObject, To
<1>4. Durable'
  BY Zenon DEF UploadInv, Durable, ReconcileObject, histVars, Entry
<1>5. Knows(a)'
  <2>1. do'[a] = j
    BY <1>3 DEF UploadInv, UploadTypes
  <2> QED BY <1>1, <1>3, <2>1, Zenon DEF Knows, Works, Finishing, Whole, Entry, ReconcileObject
<1> QED BY <1>3, <1>4, <1>5, WorkStep, Zenon DEF UploadInv, UploadTypes, ReconcileObject, Works, histVars

LEMMA CheckpointPersistedInv == ASSUME UploadInv, NEW a \in Actors, CheckpointPersisted(a) PROVE UploadInv'
<1>1. /\ Whole /\ do[a].rec = rec /\ rec.stage = "putting" /\ do[a].kind \in {"patch", "resume"}
      /\ rec \in Records /\ obj = "upload"
  BY DEF UploadInv, UploadTypes, Knows, Works, Finishing, CheckpointPersisted
<1>2. PICK record : record = [rec EXCEPT !.stage = "persisted"]
  BY Zenon
<1>3. record \in Records /\ record # NoRecord /\ record.stage = "persisted" /\ record.done = rec.done /\ rec # NoRecord
  BY <1>1, <1>2, SMTT(30) DEF Records, NoRecord, Record
<1>4. SaveCompletion(a, record, "deliver")
  BY <1>1, <1>2 DEF CheckpointPersisted
<1>5. Durable'
  BY <1>1, <1>3, <1>4 DEF UploadInv, Durable, CheckpointPersisted, SaveCompletion, histVars, Entry
<1>6. Knows(a)'
  <2>1. do'[a].step = "deliver" /\ do'[a].kind = do[a].kind
    BY <1>4, SaveDo, Zenon
  <2> QED BY <1>1, <1>3, <1>4, <2>1 DEF Knows, Works, Finishing, SaveCompletion
<1> QED BY <1>3, <1>4, <1>5, <1>6, SaveInv DEF CheckpointPersisted, Works, Steps, histVars

LEMMA CheckpointCallbackInv == ASSUME UploadInv, NEW a \in Actors, CheckpointCallback(a) PROVE UploadInv'
<1>1. /\ rec.stage = "persisted" /\ do[a].rec.stage = "persisted" /\ do[a].rec.done \subseteq delivered
      /\ do[a].kind \in {"patch", "resume"} /\ do[a] \in Jobs
  BY Zenon DEF UploadInv, UploadTypes, Knows, Works, Finishing, CheckpointCallback
<1>2. do[a].rec \in Records /\ do[a].rec # NoRecord /\ rec # NoRecord
  <2>1. do[a].rec \in Records
    BY <1>1, Zenon DEF Jobs
  <2>2. NoRecord.stage = "none"
    BY DEF NoRecord, Record
  <2> QED BY <1>1, <2>1, <2>2, Zenon
<1>3. Durable'
  BY <1>1, <1>2 DEF UploadInv, Durable, CheckpointCallback, SaveCompletion, histVars, Entry
<1>4. Knows(a)'
  <2>1. do'[a].rec = do[a].rec /\ do'[a].step = "call" /\ do'[a].kind = do[a].kind
    BY SaveDo, ZenonT(30) DEF CheckpointCallback
  <2> QED BY <1>1, <2>1, Zenon DEF Knows, Works, Finishing, CheckpointCallback, SaveCompletion, histVars
<1> QED BY <1>2, <1>3, <1>4, SaveInv, Zenon DEF CheckpointCallback, Works, Steps, histVars

LEMMA DeliverCompletionInv == ASSUME UploadInv, NEW a \in Actors, DeliverCompletion(a) PROVE UploadInv'
<1>1. rec.stage = "persisted" /\ do[a].kind \in {"patch", "resume"} /\ do[a] \in Jobs /\ rec \in Records
  BY DEF UploadInv, UploadTypes, Knows, Works, Finishing, DeliverCompletion
<1>2. PICK j : j = [[do[a] EXCEPT !.rec = rec] EXCEPT !.step = "call"]
  OBVIOUS
<1>3. j \in Jobs /\ j.kind = do[a].kind /\ j.step = "call" /\ j.rec = rec
  BY <1>1, <1>2, Zenon DEF Jobs, Steps
<1>4. do' = [do EXCEPT ![a] = j]
  BY <1>1, <1>2, Zenon DEF DeliverCompletion, UploadInv, UploadTypes
<1>5. Durable'
  BY DEF UploadInv, Durable, DeliverCompletion, fileVars, histVars, Entry
<1>6. Knows(a)'
  <2>1. do'[a] = j
    BY <1>4 DEF UploadInv, UploadTypes
  <2> QED BY <1>1, <1>3, <2>1, Zenon DEF UploadInv, Durable, Knows, Works, Finishing, DeliverCompletion, fileVars, histVars
<1> QED BY <1>3, <1>4, <1>5, <1>6, WorkStep, Zenon DEF UploadInv, UploadTypes, DeliverCompletion, Works, fileVars, histVars

LEMMA RunCallbackInv == ASSUME UploadInv, NEW a \in Actors, RunCallback(a) PROVE UploadInv'
<1>1. /\ rec.stage = "persisted" /\ do[a].rec.stage = "persisted" /\ do[a].rec.done \subseteq delivered
      /\ do[a].kind \in {"patch", "resume"} /\ do[a] \in Jobs /\ delivered \in SUBSET All
  BY DEF UploadInv, UploadTypes, Knows, Works, Finishing, RunCallback
<1>2. rec # NoRecord /\ obj = "upload" /\ do[a].rec \in Records
  <2>1. rec # NoRecord
    BY <1>1 DEF NoRecord, Record
  <2>2. obj = "upload"
    BY <1>1, Zenon DEF UploadInv, Durable
  <2>3. do[a].rec \in Records
    BY <1>1, Zenon DEF Jobs
  <2> QED BY <2>1, <2>2, <2>3
<1>3. CASE Pending(a) = {} /\ To(a, "removeBin") /\ UNCHANGED delivered
  <2>1. delivered = All
    BY <1>1, <1>3, AllNames, Zenon DEF Pending, Names, UploadInv
  <2>2. PICK j : j = [do[a] EXCEPT !.step = "removeBin"]
    BY Zenon
  <2>3. j \in Jobs /\ j.kind = do[a].kind /\ j.step = "removeBin" /\ do' = [do EXCEPT ![a] = j]
    BY <1>1, <1>3, <2>2 DEF Jobs, Steps, To
  <2>4. Durable'
    BY <1>3 DEF UploadInv, Durable, RunCallback, fileVars, Entry
  <2>5. Knows(a)'
    <3>1. do'[a] = j
      BY <2>3 DEF UploadInv, UploadTypes
    <3> QED BY <1>1, <1>3, <2>1, <2>3, <3>1 DEF Knows, Works, Finishing, Removes, RunCallback, fileVars
  <2> QED BY <1>1, <1>3, <2>3, <2>4, <2>5, WorkStep, Zenon DEF UploadInv, UploadTypes, RunCallback, Works, fileVars
<1>4. CASE \E i \in Pending(a) :
             /\ delivered' = delivered \cup {registered[i]}
             /\ do' = [do EXCEPT ![a].rec.done = @ \cup {registered[i]}, ![a].step = "checkpoint"]
  <2>1. PICK i \in Pending(a) :
          /\ delivered' = delivered \cup {registered[i]}
          /\ do' = [do EXCEPT ![a].rec.done = @ \cup {registered[i]}, ![a].step = "checkpoint"]
    BY <1>4, Zenon
  <2>2. registered[i] \in All
    BY AllNames DEF Pending, Names, UploadInv
  <2>3. PICK record : record = [do[a].rec EXCEPT !.done = @ \cup {registered[i]}]
    BY Zenon
  <2>4. /\ record \in Records /\ record.stage = "persisted"
        /\ record.done = do[a].rec.done \cup {registered[i]}
    BY <1>1, <1>2, <2>2, <2>3 DEF Records, NoRecord, Record
  <2>5. PICK j : j = [[do[a] EXCEPT !.rec = record] EXCEPT !.step = "checkpoint"]
    OBVIOUS
  <2>6. j \in Jobs /\ j.kind = do[a].kind /\ j.step = "checkpoint" /\ j.rec = record
    BY <1>1, <2>4, <2>5, Zenon DEF Jobs, Steps
  <2>7. do' = [do EXCEPT ![a] = j]
    BY <1>1, <2>1, <2>3, <2>5, Zenon DEF UploadInv, UploadTypes, Jobs
  <2>8. Durable'
    BY <1>2, <2>1 DEF UploadInv, Durable, RunCallback, fileVars, Entry
  <2>9. Knows(a)'
    <3>1. do'[a] = j
      BY <2>7 DEF UploadInv, UploadTypes
    <3> QED BY <1>1, <2>1, <2>4, <2>6, <3>1, Zenon DEF Knows, Works, Finishing, RunCallback, fileVars
  <2>10. delivered' \in SUBSET All
    BY <1>1, <2>1, <2>2
  <2> QED BY <2>6, <2>7, <2>8, <2>9, <2>10, WorkStep, Zenon DEF UploadInv, UploadTypes, RunCallback, Works, fileVars
<1> QED BY <1>3, <1>4 DEF RunCallback

LEMMA RemoveBinInv == ASSUME UploadInv, NEW a \in Actors, RemoveBin(a) PROVE UploadInv'
<1>1. Removes(a) /\ do[a] \in Jobs /\ do \in [Actors -> Jobs] /\ bin \in {Absent} \cup 0..Size
  BY DEF UploadInv, UploadTypes, Knows, RemoveBin
<1>2. PICK j : \/ bin' = Absent /\ To(a, "removeInfo") /\ j = [do[a] EXCEPT !.step = "removeInfo"]
               \/ /\ bin' = bin /\ do' = [do EXCEPT ![a].failed = TRUE, ![a].step = "removeInfo"]
                  /\ j = [[do[a] EXCEPT !.failed = TRUE] EXCEPT !.step = "removeInfo"]
  BY Zenon DEF RemoveBin
<1>3. j \in Jobs /\ j.kind = do[a].kind /\ j.step = "removeInfo"
  BY <1>1, <1>2, Zenon DEF Jobs, Steps
<1>4. do' = [do EXCEPT ![a] = j] /\ bin' \in {Absent, bin}
  BY <1>1, <1>2, Zenon DEF To
<1>5. /\ do[a].kind = "delete" => terminated'
      /\ do[a].kind # "delete" => (terminated' <=> terminated)
      /\ terminated => terminated'
  BY Zenon DEF RemoveBin
<1>6. \/ do[a].kind = "delete"
      \/ do[a].kind = "sweep" /\ ~accepted
      \/ do[a].kind \notin {"delete", "sweep"} /\ rec.stage = "persisted" /\ delivered = All /\ obj = "upload"
  BY <1>1 DEF Removes, UploadInv, Durable
<1>7. Durable'
  BY <1>4, <1>5, <1>6 DEF UploadInv, Durable, RemoveBin, Entry
<1>8. Knows(a)'
  <2>1. do'[a] = j
    BY <1>1, <1>4
  <2> QED BY <1>3, <1>5, <1>6, <2>1 DEF Knows, Works, Finishing, Removes, RemoveBin
<1> QED BY <1>1, <1>3, <1>4, <1>7, <1>8, WorkStep, Zenon DEF UploadInv, UploadTypes, RemoveBin, Works

LEMMA RemoveInfoInv == ASSUME UploadInv, NEW a \in Actors, RemoveInfo(a) PROVE UploadInv'
<1>1. Removes(a) /\ (do[a].kind = "delete" => terminated) /\ do[a] \in Jobs
  BY Zenon DEF UploadInv, UploadTypes, Knows, RemoveInfo
<1>2. \/ do[a].kind = "delete" /\ terminated
      \/ do[a].kind = "sweep" /\ ~accepted
      \/ do[a].kind \notin {"delete", "sweep"} /\ rec.stage = "persisted" /\ delivered = All /\ obj = "upload"
  BY <1>1 DEF Removes, UploadInv, Durable
<1>3. PICK to \in {"done", "acknowledge"} : To(a, to) /\ (to = "acknowledge" => do[a].kind \notin {"delete", "sweep"})
  BY Zenon DEF RemoveInfo
<1>4. PICK j : j = [do[a] EXCEPT !.step = to]
  BY Zenon
<1>5. j \in Jobs /\ j.kind = do[a].kind /\ j.step = to /\ do' = [do EXCEPT ![a] = j]
  BY <1>1, <1>3, <1>4 DEF Jobs, Steps, To
<1>6. Durable'
  BY <1>2, Zenon DEF UploadInv, Durable, RemoveInfo, histVars, Entry
<1>7. Knows(a)'
  <2>1. do'[a] = j
    BY <1>5, ZenonT(30) DEF UploadInv, UploadTypes
  <2> QED BY <1>2, <1>3, <1>5, <2>1, Zenon DEF Knows, Works, Finishing, RemoveInfo, histVars
<1> QED BY <1>5, <1>6, <1>7, WorkStep, Zenon DEF UploadInv, UploadTypes, RemoveInfo, Works, histVars

LEMMA DoneInv ==
  ASSUME UploadInv, NEW a \in Actors, phase[a] = "hold", To(a, "done"), UNCHANGED <<lockVars, registered>>,
         accepted' = accepted, bin' = bin, rec' \in Records, delivered' = delivered, Durable'
  PROVE  UploadInv'
<1>1. do[a] \in Jobs /\ do \in [Actors -> Jobs]
  BY DEF UploadInv, UploadTypes
<1>2. PICK j : j = [do[a] EXCEPT !.step = "done"]
  BY Zenon
<1>3. j \in Jobs /\ j.kind = do[a].kind /\ j.step = "done" /\ do' = [do EXCEPT ![a] = j]
  BY <1>1, <1>2 DEF Jobs, Steps, To
<1>4. Knows(a)'
  BY <1>1, <1>3, Zenon DEF Knows, Works, Finishing
<1> QED BY <1>3, <1>4, WorkStep, Zenon DEF UploadInv, UploadTypes

LEMMA DeleteCompletionInv == ASSUME UploadInv, NEW a \in Actors, DeleteCompletion(a) PROVE UploadInv'
<1>1. rec.stage = "persisted" /\ delivered = All /\ ~info
  BY Zenon DEF UploadInv, Knows, DeleteCompletion
<1>2. NoRecord \in Records /\ NoRecord.done = {} /\ NoRecord.stage = "none"
  BY Zenon DEF Records, NoRecord, Record
<1>3. Durable'
  BY <1>1, <1>2, Zenon DEF UploadInv, Durable, DeleteCompletion, histVars, Entry
<1> QED BY <1>2, <1>3, DoneInv, Zenon DEF DeleteCompletion, Works, histVars

LEMMA FailsInv == ASSUME UploadInv, NEW a \in Actors, Fails(a) PROVE UploadInv'
<1>1. Durable'
  BY Zenon DEF UploadInv, Durable, Fails, fileVars, histVars, Entry
<1> QED BY <1>1, DoneInv, Zenon DEF UploadInv, UploadTypes, Fails, fileVars, histVars

(***************************************************************************)
(* The steps around the work: an actor that gets the lock has yet to look   *)
(* at the upload, and one without it knows nothing.                         *)
(***************************************************************************)
LEMMA LockMoveInv ==
  ASSUME UploadInv, LockInv', NEW a \in Actors, NEW to \in Phases \ {"idle"}, Goes(a, to),
         phase[a] # "idle", to # "drop" => phase[a] \in {"new", "wake", "wait", "notify"},
         UNCHANGED <<fileVars, timeVars, do, registered, histVars>>
  PROVE  UploadInv'
<1>1. phase'[a] = to /\ \A b \in Actors \ {a} : phase'[b] = phase[b]
  BY ZenonT(30) DEF UploadInv, LockInv, LockTypes, Goes
<1>2. UploadTypes' /\ Durable'
  BY Zenon DEF UploadInv, UploadTypes, Durable, fileVars, histVars, Entry
<1>3. Waiting'
  BY <1>1, Zenon DEF UploadInv, Waiting, Phases, histVars
<1>4. ASSUME NEW b \in Actors \ {a} PROVE Knows(b)'
  BY <1>1, ZenonT(30) DEF UploadInv, Knows, Works, Whole, Entry, Removes, fileVars, timeVars, histVars
<1>5. Knows(a)'
  <2>1. to = "hold" => do'[a].step = "get"
    BY Zenon DEF UploadInv, Waiting
  <2> QED BY <1>1, <2>1, Zenon DEF Knows, Works, Finishing
<1> QED BY <1>2, <1>3, <1>4, <1>5 DEF UploadInv

LEMMA StartInv ==
  ASSUME UploadInv, LockInv', NEW a \in Actors, phase[a] = "idle", Goes(a, "new"),
         NEW j \in Jobs, do' = [do EXCEPT ![a] = j], j.step = "get", j.kind # "none",
         j.kind = "sweep" => a = Drain, j.kind = "resume" => accepted,
         UNCHANGED <<fileVars, timeVars, registered, histVars>>
  PROVE  UploadInv'
<1>1. phase'[a] = "new" /\ \A b \in Actors \ {a} : phase'[b] = phase[b]
  BY ZenonT(30) DEF UploadInv, LockInv, LockTypes, Goes
<1>2. do' \in [Actors -> Jobs] /\ do'[a] = j /\ \A b \in Actors \ {a} : do'[b] = do[b]
  BY ZenonT(30) DEF UploadInv, UploadTypes
<1>3. UploadTypes' /\ Durable'
  BY <1>2, Zenon DEF UploadInv, UploadTypes, Durable, fileVars, histVars, Entry
<1>4. Waiting'
  BY <1>1, <1>2, ZenonT(30) DEF UploadInv, Waiting, histVars
<1>5. ASSUME NEW b \in Actors \ {a} PROVE Knows(b)'
  BY <1>1, <1>2, SMTT(30) DEF UploadInv, Knows, Works, Whole, Entry, Removes, fileVars, timeVars, histVars
<1>6. Knows(a)'
  BY <1>1, Zenon DEF Knows, Works
<1> QED BY <1>3, <1>4, <1>5, <1>6, ZenonT(30) DEF UploadInv

LEMMA SweepExpiredInv == ASSUME UploadInv, LockInv', SweepExpired PROVE UploadInv'
<1>1. Drain \in Actors /\ phase' = phase /\ phase[Drain] = "idle"
  <2>1. Drain \in Actors
    BY DEF Actors
  <2>2. phase' = phase
    BY DEF SweepExpired, lockVars
  <2>3. do[Drain].kind = "none"
    BY SMTT(30) DEF SweepExpired, NoJob, Job
  <2> QED BY <2>1, <2>2, <2>3, ZenonT(30) DEF UploadInv, Waiting
<1>2. PICK j : j = Job("sweep", "listed")
  OBVIOUS
<1>3. j \in Jobs /\ j.kind = "sweep" /\ j.step = "listed"
  BY <1>2, ZenonT(30) DEF Job, Jobs, Steps, Records
<1>4. do' \in [Actors -> Jobs] /\ do'[Drain] = j /\ \A b \in Actors \ {Drain} : do'[b] = do[b]
  BY <1>1, <1>2, <1>3 DEF UploadInv, UploadTypes, SweepExpired
<1>5. UploadTypes' /\ Durable'
  BY <1>4, Zenon DEF UploadInv, UploadTypes, Durable, SweepExpired, fileVars, histVars, Entry
<1>6. Waiting'
  BY <1>1, <1>3, <1>4, Zenon DEF UploadInv, Waiting, SweepExpired, histVars
<1>7. ASSUME NEW b \in Actors \ {Drain} PROVE Knows(b)'
  BY <1>1, <1>4 DEF UploadInv, Knows, Works, Whole, Entry, Removes, SweepExpired, fileVars, histVars
<1>8. Knows(Drain)'
  BY <1>1, Zenon DEF Knows, Works
<1> QED BY <1>5, <1>6, <1>7, <1>8 DEF UploadInv

LEMMA ReleasingInv == ASSUME UploadInv, LockInv', NEW a \in Actors, Releasing(a) PROVE UploadInv'
<1>1. phase'[a] = "idle" /\ \A b \in Actors \ {a} : phase'[b] = phase[b]
  BY DEF UploadInv, LockInv, LockTypes, Releasing, Release, Goes
<1>2. NoJob \in Jobs /\ NoJob.kind = "none"
  BY DEF NoJob, Job, Jobs, Steps, Records
<1>3. do' \in [Actors -> Jobs] /\ do'[a] = NoJob /\ \A b \in Actors \ {a} : do'[b] = do[b]
  BY <1>2, ZenonT(30) DEF UploadInv, UploadTypes, Releasing
<1>4. UploadTypes' /\ Durable'
  BY <1>3, Zenon DEF UploadInv, UploadTypes, Durable, Releasing, fileVars, histVars, Entry
<1>5. Waiting'
  BY <1>1, <1>2, <1>3, ZenonT(30) DEF UploadInv, Waiting, Releasing, histVars
<1>6. ASSUME NEW b \in Actors \ {a} PROVE Knows(b)'
  <2>1. do[b].kind = "sweep" /\ staleThen => staleThen'
    BY Zenon DEF UploadInv, Waiting, Releasing
  <2> QED BY <1>1, <1>3, <2>1, SMTT(30) DEF UploadInv, Knows, Works, Whole, Entry, Removes, Releasing, fileVars, histVars
<1>7. Knows(a)'
  BY <1>1, Zenon DEF Knows, Works
<1> QED BY <1>4, <1>5, <1>6, <1>7 DEF UploadInv

LEMMA CreateInv == ASSUME UploadInv, LockInv', CreateBin \/ CreateInfo PROVE UploadInv'
<1>1. ~info /\ ~accepted /\ UNCHANGED <<lockVars, rec, obj, timeVars, do, registered, histVars>>
  BY Zenon DEF UploadInv, Durable, CreateBin, CreateInfo
<1>2. UploadTypes'
  <2>1. 0 \in 0..Size
    BY UploadsAssumption
  <2>2. bin' \in {0, Absent, bin}
    BY Zenon DEF CreateBin, CreateInfo
  <2>3. bin' \in {Absent} \cup 0..Size
    BY <2>1, <2>2, Zenon DEF UploadInv, UploadTypes
  <2> QED BY <1>1, <2>3, Zenon DEF UploadInv, UploadTypes, histVars
<1>3. Waiting' /\ Durable'
  <2>1. Waiting'
    BY <1>1, Zenon DEF UploadInv, Waiting, lockVars, histVars
  <2>2. /\ ~accepted' /\ accepted' = accepted /\ rec' = rec /\ obj' = obj /\ delivered' = delivered
        /\ made' \in {"no", "bin"} => ~info'
    <3>1. made' \in {"no", "bin"} => ~info'
      BY <1>1 DEF CreateBin, CreateInfo
    <3> QED BY <1>1, <3>1, Zenon DEF histVars
  <2> QED BY <2>1, <2>2, Zenon DEF UploadInv, Durable
<1>4. ASSUME NEW a \in Actors PROVE Knows(a)'
  BY <1>1, SMTT(30) DEF UploadInv, Durable, Knows, Works, Whole, Entry, Removes, lockVars, timeVars, histVars, NoRecord, Record
<1> QED BY <1>2, <1>3, <1>4 DEF UploadInv

LEMMA CrashInv == ASSUME UploadInv, LockInv', Crash PROVE UploadInv'
<1>1. NoJob \in Jobs /\ NoJob.kind = "none"
  BY ZenonT(30) DEF NoJob, Job, Jobs, Steps, Records
<1>2. \A a \in Actors : phase'[a] = "idle" /\ do'[a] = NoJob
  BY DEF Crash, LockRestart
<1>3. UploadTypes' /\ Durable'
  BY <1>1, Zenon DEF UploadInv, UploadTypes, Durable, Crash, fileVars, histVars, Entry
<1>4. Waiting' /\ \A a \in Actors : Knows(a)'
  BY <1>1, <1>2, Zenon DEF Waiting, Knows, Works
<1> QED BY <1>3, <1>4 DEF UploadInv

LEMMA SameInv ==
  ASSUME UploadInv, LockInv', UNCHANGED <<lockVars, fileVars, staleThen, do, registered, histVars>>
  PROVE  UploadInv'
<1>1. UploadTypes' /\ Waiting' /\ Durable'
  BY Zenon DEF UploadInv, UploadTypes, Waiting, Durable, lockVars, fileVars, histVars, Entry
<1>2. ASSUME NEW a \in Actors PROVE Knows(a)'
  BY ZenonT(30) DEF UploadInv, Knows, Works, Whole, Entry, Removes, lockVars, fileVars, histVars
<1> QED BY <1>1, <1>2 DEF UploadInv

LEMMA UploadInitInv == UploadInit => UploadInv
<1> SUFFICES ASSUME UploadInit PROVE UploadInv
  OBVIOUS
<1>1. LockInv
  BY LockInitInv DEF UploadInit
<1>2. NoJob \in Jobs /\ NoJob.kind = "none" /\ NoRecord \in Records /\ NoRecord.done = {} /\ NoRecord.stage = "none"
  BY Zenon DEF NoJob, Job, Jobs, Steps, Records, NoRecord, Record
<1>3. \A a \in Actors : phase[a] = "idle" /\ do[a] = NoJob
  BY DEF UploadInit, LockInit
<1>4. UploadTypes /\ Durable
  BY <1>2, Zenon DEF UploadInit, UploadTypes, Durable
<1>5. Waiting /\ \A a \in Actors : Knows(a)
  BY <1>2, <1>3, Zenon DEF Waiting, Knows, Works
<1> QED BY <1>1, <1>4, <1>5 DEF UploadInv

LEMMA UploadStep == ASSUME UploadInv, [UploadNext]_uploadVars PROVE UploadInv'
<1>0. LockInv'
  BY UploadLocks, LockStep DEF UploadInv
<1>1. CASE CreateBin \/ CreateInfo
  BY <1>0, <1>1, CreateInv
<1>2. ASSUME NEW r \in Requests, Request(r) PROVE UploadInv'
  <2>1. PICK kind \in {"patch", "delete"} : do' = [do EXCEPT ![r] = Job(kind, "get")]
    BY <1>2, Zenon DEF Request
  <2>2. Job(kind, "get") \in Jobs /\ Job(kind, "get").step = "get" /\ Job(kind, "get").kind = kind
    BY Zenon DEF Job, Jobs, Steps, Records
  <2> QED BY <1>0, <1>2, <2>1, <2>2, StartInv, Zenon DEF Request, NewLock, Actors
<1>3. ASSUME NEW r \in Requests, Locking(r) PROVE UploadInv'
  <2>1. PICK to \in Phases \ {"idle"} :
          Goes(r, to) /\ phase[r] # "idle" /\ (to # "drop" => phase[r] \in {"new", "wake", "wait", "notify"})
    BY <1>3, Zenon DEF Locking, Proceeds, LockFree, Enqueue, Wake, Granted, NotifyWaiters, UnlockUpload, Phases
  <2> QED BY <1>0, <1>3, <2>1, LockMoveInv, Zenon DEF Locking, Actors
<1>4. ASSUME NEW r \in Requests, GivesUp(r) PROVE UploadInv'
  BY <1>0, <1>4, LockMoveInv, Zenon DEF GivesUp, TimesOut, Actors, Phases
<1>5. ASSUME NEW r \in Requests, Patch(r) PROVE UploadInv'
  BY <1>5, DeclareLengthInv, WriteChunkInv DEF Patch, Actors
<1>6. ASSUME NEW a \in Actors, Work(a) PROVE UploadInv'
  BY <1>6, GetInv, LoadCompletionInv, PrepareInv, CheckpointPutInv, ReconcileObjectInv, CheckpointPersistedInv,
     DeliverCompletionInv, RunCallbackInv, CheckpointCallbackInv, RemoveBinInv, RemoveInfoInv, DeleteCompletionInv, ZenonT(30)
     DEF Work, Finish, Remove
<1>7. ASSUME NEW a \in Actors, Fails(a) \/ Releasing(a) PROVE UploadInv'
  BY <1>0, <1>7, FailsInv, ReleasingInv
<1>8. CASE Maintain
  <2>0. Drain \in Actors
    BY DEF Actors
  <2>1. CASE Retry
    <3>1. Job("resume", "get") \in Jobs /\ Job("resume", "get").step = "get" /\ Job("resume", "get").kind = "resume"
      BY ZenonT(30) DEF Job, Jobs, Steps, Records
    <3>2. accepted
      BY <2>1, Zenon DEF Retry, UploadInv, Durable
    <3> QED BY <1>0, <2>0, <2>1, <3>1, <3>2, StartInv, Zenon DEF Retry, TryMaintenanceLock
  <2>2. CASE SweepExpired
    BY <1>0, <2>2, SweepExpiredInv
  <2>3. CASE SweepListed
    <3>1. do[Drain] \in Jobs /\ do[Drain].kind = "sweep"
      BY <2>0, <2>3, SMTT(30) DEF SweepListed, TryMaintenanceLock, UploadInv, UploadTypes, Waiting, NoJob, Job
    <3>2. PICK j : j = [do[Drain] EXCEPT !.step = "get"]
      BY Zenon
    <3>3. j \in Jobs /\ j.step = "get" /\ j.kind = "sweep" /\ do' = [do EXCEPT ![Drain] = j]
      BY <2>3, <3>1, <3>2 DEF SweepListed, Jobs, Steps
    <3> QED BY <1>0, <2>0, <2>3, <3>3, StartInv, Zenon DEF SweepListed, TryMaintenanceLock
  <2>4. CASE DrainLocking
    <3>1. PICK to \in Phases \ {"idle"} :
            Goes(Drain, to) /\ phase[Drain] # "idle" /\ (to # "drop" => phase[Drain] = "new")
      BY <2>4 DEF DrainLocking, MaintenanceLocked, MaintenanceUnlock, Phases
    <3> QED BY <1>0, <2>0, <2>4, <3>1, LockMoveInv, Zenon DEF DrainLocking
  <2> QED BY <1>8, <2>1, <2>2, <2>3, <2>4 DEF Maintain
<1>9. CASE Crash
  BY <1>0, <1>9, CrashInv
<1>10. CASE Expires \/ UNCHANGED uploadVars
  BY <1>0, <1>10, SameInv DEF Expires, uploadVars, timeVars
<1> QED BY <1>1, <1>2, <1>3, <1>4, <1>5, <1>6, <1>7, <1>8, <1>9, <1>10 DEF UploadNext

(***************************************************************************)
(* The work on an upload takes and releases its lock as the lock's own      *)
(* specification has it, so that specification's theorem holds of it        *)
(* (uploadLocker, used by tusd and by the drain goroutine).                 *)
(***************************************************************************)
THEOREM UploadUsesLock == UploadSpec => LockSpec
<1>1. UploadInit => LockInit
  BY DEF UploadInit
<1>2. [UploadNext]_uploadVars => [LockNext]_lockVars
  BY UploadLocks
<1> QED BY <1>1, <1>2, PTL DEF UploadSpec, LockSpec

(***************************************************************************)
(* For any number of requests, callbacks, failed steps and crashes: the     *)
(* bytes of an upload whose completion is recorded are in the scratch files *)
(* or in the bucket unless a DELETE removed them, callbacks run once the    *)
(* bucket has them, and the record goes when each has succeeded             *)
(* (FinishUpload, deliverCompletion, sweepExpired).                         *)
(***************************************************************************)
THEOREM UploadIsKept == UploadSpec => []UploadKept
<1>1. UploadInv => UploadKept
  <2> SUFFICES ASSUME UploadInv PROVE UploadKept
    OBVIOUS
  <2>1. do[Drain].kind = "sweep" /\ Works(Drain, "removeBin") => staleThen
    BY Zenon DEF UploadInv, Knows, Actors
  <2> QED BY <2>1, Zenon DEF UploadInv, Durable, UploadKept
<1> QED BY <1>1, UploadInitInv, UploadStep, PTL DEF UploadSpec

-----------------------------------------------------------------------------
(***************************************************************************)
(* The copy of the record that the holder of the lock works with: it is the *)
(* record, or one callback ahead of it, and a completed upload is removed   *)
(* when the record names all.                                               *)
(***************************************************************************)
Copy(a) ==
    /\ Works(a, "call") => do[a].rec = rec
    /\ Works(a, "checkpoint") => \E c \in delivered \ rec.done : do[a].rec = [rec EXCEPT !.done = @ \cup {c}]
    /\ Works(a, "removeBin") \/ Works(a, "removeInfo") => do[a].kind \in {"delete", "sweep"} \/ rec.done = All
    /\ Works(a, "acknowledge") => rec.done = All
Copies == \A a \in Actors : Copy(a)
Late == {"call", "checkpoint", "removeBin", "removeInfo", "acknowledge"}

\* Steps around the work: whoever gets the lock has yet to look at the upload.
LEMMA CopiesKept ==
  ASSUME Copies, rec' = rec, delivered' = delivered,
         \A a \in Actors : phase'[a] = "hold" => (phase[a] = "hold" /\ do'[a] = do[a]) \/ do'[a].step \notin Late
  PROVE  Copies'
<1> SUFFICES ASSUME NEW a \in Actors PROVE Copy(a)'
  BY DEF Copies
<1>1. CASE phase'[a] # "hold"
  BY <1>1, Zenon DEF Copy, Works
<1>2. CASE phase'[a] = "hold" /\ phase[a] = "hold" /\ do'[a] = do[a]
  <2>1. Copy(a) /\ \A s : Works(a, s)' <=> Works(a, s)
    BY <1>2, Zenon DEF Copies, Works
  <2>2. (Works(a, "checkpoint") => \E c \in delivered \ rec.done : do[a].rec = [rec EXCEPT !.done = @ \cup {c}])'
    BY <1>2, <2>1 DEF Copy
  <2> QED BY <1>2, <2>1, <2>2, Zenon DEF Copy
<1>3. CASE do'[a].step \notin Late
  BY <1>3, Zenon DEF Copy, Works, Late
<1> QED BY <1>1, <1>2, <1>3, Zenon

\* Steps of the work: the others do not hold the lock.
LEMMA CopyWorks ==
  ASSUME UploadInv, NEW a \in Actors, phase[a] = "hold", phase' = phase, Copy(a)'
  PROVE  Copies'
<1>1. \A b \in Actors \ {a} : phase'[b] # "hold"
  BY Alone, Zenon DEF UploadInv, OneHolder
<1>2. \A b \in Actors \ {a} : Copy(b)'
  BY <1>1, Zenon DEF Copy, Works
<1> QED BY <1>2, Zenon DEF Copies

LEMMA GoesTo ==
  ASSUME UploadInv, NEW a \in Actors, NEW step, To(a, step)
  PROVE  do'[a].step = step /\ do'[a].kind = do[a].kind /\ do'[a].rec = do[a].rec
<1>1. do[a] \in Jobs /\ do \in [Actors -> Jobs]
  BY DEF UploadInv, UploadTypes
<1> QED BY <1>1, Zenon DEF To, Jobs

LEMMA StagesOf == ASSUME UploadInv PROVE rec.stage \in {"none", "prepared", "putting", "persisted"}
<1>1. rec \in Records
  BY Zenon DEF UploadInv, UploadTypes
<1> QED BY <1>1, SMTT(30) DEF Records, NoRecord, Record

LEMMA EarlyCopies ==
  ASSUME UploadInv, NEW a \in Actors,
         \/ Get(a) /\ do[a].kind \notin {"delete", "sweep"}
         \/ DeclareLength(a) \/ WriteChunk(a) \/ LoadCompletion(a) \/ Prepare(a) \/ CheckpointPut(a)
         \/ ReconcileObject(a) \/ CheckpointPersisted(a) \/ DeleteCompletion(a) \/ Fails(a)
  PROVE  Copies'
<1>0. do[a] \in Jobs /\ do \in [Actors -> Jobs]
  BY Zenon DEF UploadInv, UploadTypes
<1>1. phase[a] = "hold" /\ phase' = phase
  BY Zenon DEF Get, DeclareLength, WriteChunk, LoadCompletion, Prepare, CheckpointPut, SaveCompletion,
     ReconcileObject, CheckpointPersisted, DeleteCompletion, Fails, Works, lockVars
<1>2. do'[a].step \notin Late
  <2>1. CASE Get(a) /\ do[a].kind \notin {"delete", "sweep"}
    <3>1. do[a].kind \in {"patch", "resume"}
      BY <1>0, <1>1, <2>1, Zenon DEF UploadInv, Waiting, Jobs
    <3>2. AfterGet(a) \in {"write", "load", "deliver", "done"}
      BY <3>1, Zenon DEF AfterGet
    <3> QED BY <2>1, <3>2, GoesTo, Zenon DEF Get, Late
  <2>2. CASE DeclareLength(a)
    BY <2>2, Zenon DEF DeclareLength, Works, Late
  <2>3. CASE WriteChunk(a)
    <3>1. PICK step \in {"load", "done"} : To(a, step)
      BY <2>3, Zenon DEF WriteChunk
    <3> QED BY <3>1, GoesTo, Zenon DEF Late
  <2>4. CASE LoadCompletion(a)
    <3>1. rec.stage \in {"none", "prepared", "putting", "persisted"}
      BY StagesOf, Zenon
    <3>2. PICK step \in {"prepare", "putting", "put", "deliver"} : do' = [do EXCEPT ![a].rec = rec, ![a].step = step]
      BY <2>4, <3>1, Zenon DEF LoadCompletion
    <3>3. do'[a].step = step
      BY <1>0, <3>2, Zenon DEF Jobs
    <3> QED BY <3>2, <3>3, Zenon DEF Late
  <2>5. CASE Prepare(a) \/ CheckpointPut(a) \/ CheckpointPersisted(a)
    <3>1. PICK step \in {"putting", "put", "deliver"} :
            \E record : do' = [do EXCEPT ![a].rec = record, ![a].step = step]
      BY <2>5, Zenon DEF Prepare, CheckpointPut, CheckpointPersisted, SaveCompletion
    <3>2. PICK record : do' = [do EXCEPT ![a].rec = record, ![a].step = step]
      BY <3>1, Zenon
    <3>3. do'[a].step = step
      BY <1>0, <3>2, Zenon DEF Jobs
    <3> QED BY <3>1, <3>3, Zenon DEF Late
  <2>6. CASE ReconcileObject(a) \/ DeleteCompletion(a) \/ Fails(a)
    <3>1. PICK step \in {"persist", "done"} : To(a, step)
      BY <2>6, Zenon DEF ReconcileObject, DeleteCompletion, Fails
    <3> QED BY <3>1, GoesTo, Zenon DEF Late
  <2> QED BY <2>1, <2>2, <2>3, <2>4, <2>5, <2>6, Zenon
<1>3. Copy(a)'
  BY <1>2, Zenon DEF Copy, Works, Late
<1> QED BY <1>1, <1>3, CopyWorks, Zenon

LEMMA RemovingCopies ==
  ASSUME UploadInv, Copies, NEW a \in Actors, RemoveBin(a) \/ RemoveInfo(a)
  PROVE  Copies'
<1>0. do[a] \in Jobs /\ do \in [Actors -> Jobs] /\ rec' = rec
  BY DEF UploadInv, UploadTypes, RemoveBin, RemoveInfo
<1>1. phase[a] = "hold" /\ phase' = phase /\ (do[a].kind \in {"delete", "sweep"} \/ rec.done = All)
  BY Zenon DEF RemoveBin, RemoveInfo, Works, lockVars, Copies, Copy
<1>2. CASE RemoveBin(a)
  <2>1. do'[a].step = "removeInfo" /\ do'[a].kind = do[a].kind
    <3>1. CASE To(a, "removeInfo")
      BY <3>1, GoesTo
    <3>2. CASE do' = [do EXCEPT ![a].failed = TRUE, ![a].step = "removeInfo"]
      BY <1>0, <3>2, Zenon DEF Jobs
    <3> QED BY <1>2, <3>1, <3>2, Zenon DEF RemoveBin
  <2>2. Copy(a)'
    BY <1>0, <1>1, <2>1 DEF Copy, Works
  <2> QED BY <1>1, <2>2, CopyWorks
<1>3. CASE RemoveInfo(a)
  <2>1. CASE do[a].kind \in {"delete", "sweep"}
    <3>1. do'[a].step = "done"
      BY <1>3, <2>1, GoesTo, Zenon DEF RemoveInfo
    <3>2. Copy(a)'
      BY <3>1 DEF Copy, Works
    <3> QED BY <1>1, <3>2, CopyWorks
  <2>2. CASE rec.done = All
    <3>1. PICK step \in {"done", "acknowledge"} : To(a, step)
      BY <1>3, Zenon DEF RemoveInfo
    <3>2. do'[a].step = step
      BY <3>1, GoesTo
    <3>3. Copy(a)'
      BY <1>0, <2>2, <3>1, <3>2 DEF Copy, Works
    <3> QED BY <1>1, <3>3, CopyWorks
  <2> QED BY <1>1, <2>1, <2>2
<1> QED BY <1>2, <1>3

LEMMA DeliveringCopies ==
  ASSUME UploadInv, Copies, NEW a \in Actors, DeliverCompletion(a) \/ RunCallback(a) \/ CheckpointCallback(a)
  PROVE  Copies'
<1>0. do[a] \in Jobs /\ do \in [Actors -> Jobs] /\ rec \in Records /\ do[a].rec \in Records
  BY SMTT(30) DEF UploadInv, UploadTypes, Jobs
<1>1. phase[a] = "hold" /\ phase' = phase
  BY Zenon DEF DeliverCompletion, RunCallback, CheckpointCallback, SaveCompletion, Works, lockVars
<1>2. CASE DeliverCompletion(a)
  <2>1. rec' = rec /\ \E step \in {"call", "done"} : do' = [do EXCEPT ![a].rec = rec, ![a].step = step]
    BY <1>2, Zenon DEF DeliverCompletion, fileVars
  <2>2. PICK step \in {"call", "done"} : do' = [do EXCEPT ![a].rec = rec, ![a].step = step]
    BY <2>1, Zenon
  <2>3. do'[a].rec = rec /\ do'[a].step = step
    BY <1>0, <2>2, Zenon DEF Jobs
  <2>4. Copy(a)'
    BY <2>1, <2>2, <2>3 DEF Copy, Works
  <2> QED BY <1>1, <2>4, CopyWorks
<1>3. CASE CheckpointCallback(a)
  <2>1. do'[a].rec = do[a].rec /\ do'[a].step = "call" /\ rec' = do[a].rec
    BY <1>3, SaveDo, ZenonT(30) DEF CheckpointCallback, SaveCompletion
  <2>2. Copy(a)'
    BY <2>1, Zenon DEF Copy, Works
  <2> QED BY <1>1, <2>2, CopyWorks
<1>4. CASE RunCallback(a)
  <2>0. do[a].rec = rec /\ rec' = rec
    BY <1>4, Zenon DEF RunCallback, Copies, Copy, fileVars
  <2>1. CASE Pending(a) = {} /\ To(a, "removeBin")
    <3>1. rec.done = All
      <4>1. \A n \in All : n \in rec.done
        BY <2>0, <2>1, AllNames, ZenonT(30) DEF Pending, Names, UploadInv
      <4>2. rec.done \subseteq All
        BY <1>0 DEF Records, NoRecord, Record
      <4> QED BY <4>1, <4>2
    <3>2. do'[a].step = "removeBin"
      BY <2>1, GoesTo
    <3>3. Copy(a)'
      BY <2>0, <3>1, <3>2, Zenon DEF Copy, Works
    <3> QED BY <1>1, <3>3, CopyWorks
  <2>2. CASE \E i \in Pending(a) :
               /\ delivered' = delivered \cup {registered[i]}
               /\ do' = [do EXCEPT ![a].rec.done = @ \cup {registered[i]}, ![a].step = "checkpoint"]
    <3>1. PICK i \in Pending(a) :
            /\ delivered' = delivered \cup {registered[i]}
            /\ do' = [do EXCEPT ![a].rec.done = @ \cup {registered[i]}, ![a].step = "checkpoint"]
      BY <2>2, Zenon
    <3>2. registered[i] \in delivered' \ rec.done
      BY <2>0, <3>1, Zenon DEF Pending
    <3>3. PICK record : record = [rec EXCEPT !.done = @ \cup {registered[i]}]
      BY Zenon
    <3>4. PICK j : j = [[do[a] EXCEPT !.rec = record] EXCEPT !.step = "checkpoint"]
      OBVIOUS
    <3>5. j.step = "checkpoint" /\ j.rec = record
      BY <1>0, <3>4, Zenon DEF Jobs
    <3>6. do' = [do EXCEPT ![a] = j]
      BY <1>0, <2>0, <3>1, <3>3, <3>4, Zenon DEF Jobs
    <3>7. do'[a] = j
      BY <1>0, <3>6
    <3>8. Copy(a)'
      BY <2>0, <3>2, <3>3, <3>5, <3>7, Zenon DEF Copy, Works
    <3> QED BY <1>1, <3>8, CopyWorks
  <2> QED BY <1>4, <2>1, <2>2, Zenon DEF RunCallback
<1> QED BY <1>2, <1>3, <1>4

LEMMA RemovalCopies ==
  ASSUME UploadInv, NEW a \in Actors, Get(a), do[a].kind \in {"delete", "sweep"}
  PROVE  Copies'
<1>1. PICK step \in {"removeBin", "done"} : To(a, step)
  BY DEF Get, AfterGet
<1>2. do'[a].step = step /\ do'[a].kind = do[a].kind
  BY <1>1, GoesTo
<1>3. Copy(a)'
  BY <1>1, <1>2 DEF Copy, Works
<1> QED BY <1>3, CopyWorks, Zenon DEF Get, Works, lockVars

\* Whoever moves in the lock has the upload still before it.
LEMMA LockingCopies ==
  ASSUME UploadInv, Copies, NEW a \in Actors, NEW to \in Phases, Goes(a, to),
         to = "hold" => phase[a] \in {"new", "wake", "wait", "notify"},
         UNCHANGED <<rec, delivered>>, \A b \in Actors : b # a \/ to = "hold" => do'[b] = do[b]
  PROVE  Copies'
<1>1. phase'[a] = to /\ \A b \in Actors \ {a} : phase'[b] = phase[b]
  BY DEF UploadInv, LockInv, LockTypes, Goes
<1>2. to = "hold" => do'[a].step \notin Late
  BY Zenon DEF UploadInv, Waiting, Late
<1>3. \A b \in Actors : phase'[b] = "hold" => (phase[b] = "hold" /\ do'[b] = do[b]) \/ do'[b].step \notin Late
  BY <1>1, <1>2, Zenon
<1> QED BY <1>3, CopiesKept, Zenon

LEMMA CopiesStep == ASSUME UploadInv, Copies, [UploadNext]_uploadVars PROVE Copies'
<1>0. do \in [Actors -> Jobs] /\ Drain \in Actors /\ Requests \subseteq Actors
  BY DEF UploadInv, UploadTypes, Actors
<1>1. CASE CreateBin \/ CreateInfo \/ Expires \/ UNCHANGED uploadVars
  <2>1. rec' = rec /\ delivered' = delivered /\ do' = do /\ phase' = phase
    BY <1>1, Zenon DEF CreateBin, CreateInfo, Expires, uploadVars, lockVars, fileVars, histVars
  <2> QED BY <2>1, CopiesKept, Zenon
<1>2. ASSUME NEW r \in Requests, Request(r) PROVE Copies'
  <2>1. \A b \in Actors \ {r} : do'[b] = do[b]
    BY <1>0, <1>2 DEF Request
  <2> QED BY <1>0, <1>2, <2>1, LockingCopies, ZenonT(30) DEF Request, NewLock, Phases, fileVars, histVars
<1>3. ASSUME NEW r \in Requests, Locking(r) PROVE Copies'
  <2>1. PICK to \in Phases : Goes(r, to) /\ (to = "hold" => phase[r] \in {"new", "wake", "wait", "notify"})
    BY <1>3, Zenon DEF Locking, Proceeds, LockFree, Enqueue, Wake, Granted, NotifyWaiters, UnlockUpload, Phases
  <2> QED BY <1>0, <1>3, <2>1, LockingCopies, Zenon DEF Locking, fileVars, histVars
<1>4. ASSUME NEW r \in Requests, GivesUp(r) PROVE Copies'
  BY <1>0, <1>4, LockingCopies, Zenon DEF GivesUp, TimesOut, Phases, fileVars, histVars
<1>5. ASSUME NEW r \in Requests, Patch(r) PROVE Copies'
  BY <1>0, <1>5, EarlyCopies, Zenon DEF Patch
<1>6. ASSUME NEW a \in Actors, Work(a) \/ Fails(a) PROVE Copies'
  BY <1>6, EarlyCopies, RemovalCopies, RemovingCopies, DeliveringCopies, Zenon DEF Work, Finish, Remove
<1>7. ASSUME NEW a \in Actors, Releasing(a) PROVE Copies'
  <2>1. PICK to \in Phases \ {"hold"} : Goes(a, to)
    BY <1>7, Zenon DEF Releasing, Release, UnlockUpload, Phases
  <2>2. \A b \in Actors \ {a} : do'[b] = do[b]
    BY <1>0, <1>7 DEF Releasing
  <2> QED BY <1>7, <2>1, <2>2, LockingCopies, Zenon DEF Releasing, fileVars, histVars
<1>8. CASE Maintain
  <2>1. CASE Retry \/ SweepListed
    <3>1. Goes(Drain, "new") /\ UNCHANGED <<rec, delivered>>
      BY <2>1, Zenon DEF Retry, SweepListed, TryMaintenanceLock, fileVars, histVars
    <3>2. \A b \in Actors \ {Drain} : do'[b] = do[b]
      BY <1>0, <2>1 DEF Retry, SweepListed
    <3>3. \A b \in Actors : b # Drain \/ "new" = "hold" => do'[b] = do[b]
      BY <3>2
    <3>4. "new" \in Phases /\ ("new" = "hold" => phase[Drain] \in {"new", "wake", "wait", "notify"})
      BY DEF Phases
    <3> QED BY <1>0, <3>1, <3>3, <3>4, LockingCopies, Zenon
  <2>2. CASE SweepExpired
    <3>1. phase' = phase /\ rec' = rec /\ delivered' = delivered
      BY <2>2, Zenon DEF SweepExpired, lockVars, fileVars, histVars
    <3>2. do'[Drain].step \notin Late
      BY <1>0, <2>2, SMTT(30) DEF SweepExpired, Job, Late
    <3>3. \A b \in Actors \ {Drain} : do'[b] = do[b]
      BY <1>0, <2>2 DEF SweepExpired
    <3> QED BY <3>1, <3>2, <3>3, CopiesKept, Zenon
  <2>3. CASE DrainLocking
    <3>1. PICK to \in Phases : Goes(Drain, to) /\ (to = "hold" => phase[Drain] = "new")
      BY <2>3 DEF DrainLocking, MaintenanceLocked, MaintenanceUnlock, Phases
    <3> QED BY <1>0, <2>3, <3>1, LockingCopies, Zenon DEF DrainLocking, fileVars, histVars
  <2> QED BY <1>8, <2>1, <2>2, <2>3 DEF Maintain
<1>9. CASE Crash
  <2>1. \A a \in Actors : phase'[a] # "hold"
    BY <1>9 DEF Crash, LockRestart
  <2> QED BY <1>9, <2>1, CopiesKept, Zenon DEF Crash, fileVars, histVars
<1> QED BY <1>1, <1>2, <1>3, <1>4, <1>5, <1>6, <1>7, <1>8, <1>9 DEF UploadNext

\* What RecordAdvances allows a change of the record to be.
Advances ==
    \/ rec = NoRecord /\ rec' = Record("prepared", {})
    \/ rec.stage = "prepared" /\ rec' = [rec EXCEPT !.stage = "putting"]
    \/ rec.stage = "putting" /\ obj = "upload" /\ rec' = [rec EXCEPT !.stage = "persisted"]
    \/ rec.stage = "persisted" /\ \E c \in delivered \ rec.done : rec' = [rec EXCEPT !.done = @ \cup {c}]
    \/ rec.stage = "persisted" /\ rec.done = All /\ rec' = NoRecord

LEMMA RecordStep == ASSUME UploadInv, Copies, [UploadNext]_uploadVars, rec' # rec PROVE Advances
<1>1. PICK a \in Actors :
        Prepare(a) \/ CheckpointPut(a) \/ CheckpointPersisted(a) \/ CheckpointCallback(a) \/ DeleteCompletion(a)
  BY Zenon DEF UploadNext, uploadVars, CreateBin, CreateInfo, Expires, Request, Locking, GivesUp, Patch, DeclareLength,
     WriteChunk, Work, Get, Finish, LoadCompletion, ReconcileObject, DeliverCompletion, RunCallback, Remove, RemoveBin,
     RemoveInfo, Fails, Releasing, Maintain, Retry, SweepExpired, SweepListed, DrainLocking, Crash, fileVars
<1>2. CASE Prepare(a)
  BY <1>2, Zenon DEF Prepare, SaveCompletion, UploadInv, Knows, Advances
<1>3. CASE CheckpointPut(a)
  BY <1>3, Zenon DEF CheckpointPut, SaveCompletion, UploadInv, Knows, Advances
<1>4. CASE CheckpointPersisted(a)
  BY <1>4, Zenon DEF CheckpointPersisted, SaveCompletion, UploadInv, Knows, Advances
<1>5. CASE CheckpointCallback(a)
  BY <1>5, Zenon DEF CheckpointCallback, SaveCompletion, UploadInv, Knows, Copies, Copy, Advances
<1>6. CASE DeleteCompletion(a)
  BY <1>6, Zenon DEF DeleteCompletion, UploadInv, Knows, Copies, Copy, Advances
<1> QED BY <1>1, <1>2, <1>3, <1>4, <1>5, <1>6

(***************************************************************************)
(* The completion record only advances, and is deleted when it names all    *)
(* callbacks, whoever saves it (saveCompletion, runCallbacks,               *)
(* DeleteCompletion).                                                       *)
(***************************************************************************)
THEOREM RecordOnlyAdvances == UploadSpec => RecordAdvances
<1>1. UploadInit => UploadInv /\ Copies
  <2>1. UploadInit => \A a \in Actors : phase[a] # "hold"
    BY DEF UploadInit, LockInit
  <2>2. UploadInit => Copies
    BY <2>1, Zenon DEF Copies, Copy, Works
  <2> QED BY <2>2, UploadInitInv
<1>2. UploadInv /\ Copies /\ [UploadNext]_uploadVars => (UploadInv /\ Copies)'
  BY UploadStep, CopiesStep
<1>3. UploadInv /\ Copies /\ [UploadNext]_uploadVars => [rec' # rec => Advances]_uploadVars
  BY RecordStep
<1> QED BY <1>1, <1>2, <1>3, PTL DEF UploadSpec, RecordAdvances, Advances
=============================================================================
