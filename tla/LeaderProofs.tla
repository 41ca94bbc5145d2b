---------------------------- MODULE LeaderProofs ----------------------------
(***************************************************************************)
(* The advisory-lock elector with or without the gate, for any number of    *)
(* replicas, terms and faults.                                              *)
(***************************************************************************)
EXTENDS Leader, FiniteSetTheorems, TLAPS

(***************************************************************************)
(* Callbacks and loops belong to the current term and to the part of a      *)
(* campaign that runs them; an election that failed is not kept in a term.  *)
(***************************************************************************)
Terms ==
    \A r \in Replicas :
        /\ starts[r] # {} => starts[r] = {term[r]} /\ pc[r] \in {"lead", "drain"}
        /\ loop[r] # {} => loop[r] = {term[r]} /\ starts[r] = {} /\ pc[r] \in {"lead", "drain"}
        /\ stray[r] # {} => pc[r] = "close"
        /\ running[r] => pc[r] \in {"lead", "drain"} /\ ~electErr[r]

(***************************************************************************)
(* From winning the lock to closing the session an open session holds it.  *)
(***************************************************************************)
Sessions ==
    \A r \in Replicas : conn[r] = "open" /\ pc[r] \in {"lead", "drain", "close"} => Holds(r)

(***************************************************************************)
(* The types, with the bound on holder in a form the steps can use.        *)
(***************************************************************************)
LockTypes ==
    /\ holder = {} \/ \E r \in Replicas : holder = {r}
    /\ ghost \in BOOLEAN
    /\ ghost => holder # {}
    /\ conn \in [Replicas -> {"none", "open", "broken"}]

ElectorTypes ==
    /\ pc \in [Replicas -> {"connect", "try", "lead", "drain", "close", "wait", "off"}]
    /\ term \in [Replicas -> Nat]
    /\ starts \in [Replicas -> SUBSET Nat]
    /\ leading \in [Replicas -> Nat]
    /\ armed \in [Replicas -> SUBSET Nat]
    /\ loop \in [Replicas -> SUBSET Nat]
    /\ stray \in [Replicas -> SUBSET Nat]
    /\ late \in [Replicas -> SUBSET Nat]
    /\ faults \in 0..MaxFaults

FlagTypes ==
    /\ running \in [Replicas -> BOOLEAN]
    /\ electErr \in [Replicas -> BOOLEAN]
    /\ stop \in [Replicas -> BOOLEAN]

Types == LockTypes /\ ElectorTypes /\ FlagTypes

IInv == Types /\ Terms /\ Sessions /\ StatusTracksTerm

-----------------------------------------------------------------------------
(***************************************************************************)
(* Before any campaign the invariant holds.                                *)
(***************************************************************************)
LEMMA InitIInv == Init => IInv
<1> SUFFICES ASSUME Init PROVE IInv
  OBVIOUS
<1>1. LockTypes /\ FlagTypes
  BY Zenon DEF Init, LockTypes, FlagTypes
<1>3. ElectorTypes
  BY LeaderAssumption DEF Init, ElectorTypes
<1>2. Terms /\ Sessions /\ StatusTracksTerm
  BY DEF Init, Terms, Sessions, StatusTracksTerm
<1> QED BY <1>1, <1>2, <1>3 DEF IInv, Types

(***************************************************************************)
(* The wait before the next election is over.                              *)
(***************************************************************************)
LEMMA RetryStep ==
    ASSUME backend = "pg", IInv, NEW r \in Replicas, Retry(r)
    PROVE  IInv'
<1> USE LeaderAssumption DEF Retry, lockVars, appVars
<1>1. LockTypes'
  BY DEF IInv, Types, LockTypes
<1>2. ElectorTypes'
  BY SMTT(30) DEF IInv, Types, ElectorTypes
<1>3. FlagTypes'
  BY DEF IInv, Types, FlagTypes
<1>4. Terms'
  BY SMTT(30) DEF IInv, Types, ElectorTypes, FlagTypes, Terms
<1>5. Sessions'
  BY DEF IInv, Types, LockTypes, ElectorTypes, Sessions, Holds
<1>6. StatusTracksTerm'
  BY DEF IInv, Types, ElectorTypes, Terms, StatusTracksTerm
<1> QED BY <1>1, <1>2, <1>3, <1>4, <1>5, <1>6 DEF IInv, Types

(***************************************************************************)
(* A campaign takes its connection.                                        *)
(***************************************************************************)
LEMMA ConnectStep ==
    ASSUME backend = "pg", IInv, NEW r \in Replicas, Connect(r)
    PROVE  IInv'
<1> USE LeaderAssumption DEF Connect, lockVars, appVars
<1>1. LockTypes'
  BY DEF IInv, Types, LockTypes
<1>2. ElectorTypes'
  BY SMTT(30) DEF IInv, Types, ElectorTypes
<1>3. FlagTypes'
  BY DEF IInv, Types, FlagTypes
<1>4. Terms'
  BY SMTT(30) DEF IInv, Types, ElectorTypes, FlagTypes, Terms
<1>5. Sessions'
  BY DEF IInv, Types, LockTypes, ElectorTypes, Sessions, Holds
<1>6. StatusTracksTerm'
  BY DEF IInv, Types, ElectorTypes, Terms, StatusTracksTerm
<1> QED BY <1>1, <1>2, <1>3, <1>4, <1>5, <1>6 DEF IInv, Types

(***************************************************************************)
(* A campaign gets no connection.                                          *)
(***************************************************************************)
LEMMA ConnectFailsStep ==
    ASSUME backend = "pg", IInv, NEW r \in Replicas, ConnectFails(r)
    PROVE  IInv'
<1> USE LeaderAssumption DEF ConnectFails, Returns, StopAll, Fault, lockVars, appVars
<1>1. LockTypes'
  BY DEF IInv, Types, LockTypes
<1>2. ElectorTypes'
  BY SMTT(30) DEF IInv, Types, ElectorTypes
<1>3. FlagTypes'
  BY Zenon DEF IInv, Types, FlagTypes
<1>4. Terms'
  BY SMTT(30) DEF IInv, Types, ElectorTypes, FlagTypes, Terms
<1>5. Sessions'
  BY DEF IInv, Types, LockTypes, ElectorTypes, Sessions, Holds
<1>6. StatusTracksTerm'
  BY DEF IInv, Types, ElectorTypes, Terms, StatusTracksTerm
<1> QED BY <1>1, <1>2, <1>3, <1>4, <1>5, <1>6 DEF IInv, Types

(***************************************************************************)
(* A campaign wins the lock.                                               *)
(***************************************************************************)
LEMMA WinsStep ==
    ASSUME backend = "pg", IInv, NEW r \in Replicas, Wins(r)
    PROVE  IInv'
<1> USE LeaderAssumption DEF Wins, lockVars, appVars
<1>1. LockTypes'
  BY DEF IInv, Types, LockTypes
<1>2. ElectorTypes'
  BY SMTT(30) DEF IInv, Types, ElectorTypes
<1>3. FlagTypes'
  BY DEF IInv, Types, FlagTypes
<1>4. Terms'
  BY SMTT(30) DEF IInv, Types, ElectorTypes, FlagTypes, Terms
<1>5. Sessions'
  BY DEF IInv, Types, LockTypes, ElectorTypes, Sessions, Holds
<1>6. StatusTracksTerm'
  BY Zenon DEF IInv, Types, ElectorTypes, Terms, StatusTracksTerm
<1> QED BY <1>1, <1>2, <1>3, <1>4, <1>5, <1>6 DEF IInv, Types

(***************************************************************************)
(* A campaign ends without the lock.                                       *)
(***************************************************************************)
LEMMA TryFailsStep ==
    ASSUME backend = "pg", IInv, NEW r \in Replicas, TryFails(r)
    PROVE  IInv'
<1> USE LeaderAssumption DEF TryFails, Returns, StopAll, Fault, lockVars, appVars
<1>1. LockTypes'
  <2>1. conn' \in [Replicas -> {"none", "open", "broken"}]
    BY DEF IInv, Types, LockTypes
  <2>2. UNCHANGED <<holder, ghost>> \/ (holder' = {r} /\ ghost' = TRUE)
    OBVIOUS
  <2> HIDE DEF TryFails
  <2>3. ghost' \in BOOLEAN
    BY <2>2, Zenon DEF IInv, Types, LockTypes
  <2>4. holder' = {} \/ \E q \in Replicas : holder' = {q}
    BY <2>2 DEF IInv, Types, LockTypes
  <2>5. ghost' => holder' # {}
    BY <2>2, Zenon DEF IInv, Types, LockTypes
  <2> QED BY <2>1, <2>3, <2>4, <2>5, Zenon DEF LockTypes
<1>2. ElectorTypes'
  BY SMTT(30) DEF IInv, Types, ElectorTypes
<1>3. FlagTypes'
  BY Zenon DEF IInv, Types, FlagTypes
<1>4. Terms'
  BY SMTT(30) DEF IInv, Types, ElectorTypes, FlagTypes, Terms
<1>5. Sessions'
  BY ZenonT(30) DEF IInv, Types, LockTypes, ElectorTypes, Sessions, Holds
<1>6. StatusTracksTerm'
  BY DEF IInv, Types, ElectorTypes, Terms, StatusTracksTerm
<1> QED BY <1>1, <1>2, <1>3, <1>4, <1>5, <1>6 DEF IInv, Types

(***************************************************************************)
(* The term starts: Status and the gate see it.                            *)
(***************************************************************************)
LEMMA OnStartedLeadingStep ==
    ASSUME backend = "pg", IInv, NEW r \in Replicas, OnStartedLeading(r)
    PROVE  IInv'
<1> USE LeaderAssumption DEF OnStartedLeading, StartAll, lockVars, appVars
<1>1. LockTypes'
  BY DEF IInv, Types, LockTypes
<1>2. ElectorTypes'
  BY SMTT(30) DEF IInv, Types, ElectorTypes
<1>3. FlagTypes'
  BY Zenon DEF IInv, Types, FlagTypes
<1>4. Terms'
  BY SMTT(30) DEF IInv, Types, ElectorTypes, FlagTypes, Terms
<1>5. Sessions'
  BY DEF IInv, Types, LockTypes, ElectorTypes, Sessions, Holds
<1>6. StatusTracksTerm'
  BY DEF IInv, Types, ElectorTypes, Terms, StatusTracksTerm
<1> QED BY <1>1, <1>2, <1>3, <1>4, <1>5, <1>6 DEF IInv, Types

(***************************************************************************)
(* A late AfterFunc clears its own term only.                              *)
(***************************************************************************)
LEMMA AfterFuncStep ==
    ASSUME backend = "pg", IInv, NEW r \in Replicas, AfterFunc(r)
    PROVE  IInv'
<1> USE LeaderAssumption DEF AfterFunc, Cleared, lockVars, appVars
<1>1. LockTypes'
  BY DEF IInv, Types, LockTypes
<1>2. ElectorTypes'
  BY SMTT(30) DEF IInv, Types, ElectorTypes
<1>3. FlagTypes'
  BY DEF IInv, Types, FlagTypes
<1>4. Terms'
  BY SMTT(30) DEF IInv, Types, ElectorTypes, FlagTypes, Terms
<1>5. Sessions'
  BY DEF IInv, Types, LockTypes, ElectorTypes, Sessions, Holds
<1>6. StatusTracksTerm'
  BY DEF IInv, Types, ElectorTypes, Terms, StatusTracksTerm
<1> QED BY <1>1, <1>2, <1>3, <1>4, <1>5, <1>6 DEF IInv, Types

(***************************************************************************)
(* The lock session breaks.                                                *)
(***************************************************************************)
LEMMA SessionBreaksStep ==
    ASSUME backend = "pg", IInv, NEW r \in Replicas, SessionBreaks(r)
    PROVE  IInv'
<1> USE LeaderAssumption DEF SessionBreaks, Fault, lockVars, appVars
<1>1. LockTypes'
  BY Zenon DEF IInv, Types, LockTypes, Holds
<1>2. ElectorTypes'
  BY SMTT(30) DEF IInv, Types, ElectorTypes
<1>3. FlagTypes'
  BY DEF IInv, Types, FlagTypes
<1>4. Terms'
  BY SMTT(30) DEF IInv, Types, ElectorTypes, FlagTypes, Terms
<1>5. Sessions'
  BY DEF IInv, Types, LockTypes, ElectorTypes, Sessions, Holds
<1>6. StatusTracksTerm'
  BY DEF IInv, Types, ElectorTypes, Terms, StatusTracksTerm
<1> QED BY <1>1, <1>2, <1>3, <1>4, <1>5, <1>6 DEF IInv, Types

(***************************************************************************)
(* The heartbeat ends the term.                                            *)
(***************************************************************************)
LEMMA LosesTermStep ==
    ASSUME backend = "pg", IInv, NEW r \in Replicas, LosesTerm(r)
    PROVE  IInv'
<1> USE LeaderAssumption DEF LosesTerm, Fault, lockVars, appVars
<1>1. LockTypes'
  BY DEF IInv, Types, LockTypes
<1>2. ElectorTypes'
  BY SMTT(30) DEF IInv, Types, ElectorTypes
<1>3. FlagTypes'
  BY DEF IInv, Types, FlagTypes
<1>4. Terms'
  BY SMTT(30) DEF IInv, Types, ElectorTypes, FlagTypes, Terms
<1>5. Sessions'
  BY DEF IInv, Types, LockTypes, ElectorTypes, Sessions, Holds
<1>6. StatusTracksTerm'
  BY DEF IInv, Types, ElectorTypes, Terms, StatusTracksTerm
<1> QED BY <1>1, <1>2, <1>3, <1>4, <1>5, <1>6 DEF IInv, Types

(***************************************************************************)
(* The term stops: Status and the gate see it.                             *)
(***************************************************************************)
LEMMA OnStoppedLeadingStep ==
    ASSUME backend = "pg", IInv, NEW r \in Replicas, OnStoppedLeading(r)
    PROVE  IInv'
<1> USE LeaderAssumption DEF OnStoppedLeading, StopAll, lockVars, appVars
<1>1. LockTypes'
  BY DEF IInv, Types, LockTypes
<1>2. ElectorTypes'
  BY SMTT(30) DEF IInv, Types, ElectorTypes
<1>3. FlagTypes'
  BY DEF IInv, Types, FlagTypes
<1>4. Terms'
  BY SMTT(30) DEF IInv, Types, ElectorTypes, FlagTypes, Terms
<1>5. Sessions'
  BY DEF IInv, Types, LockTypes, ElectorTypes, Sessions, Holds
<1>6. StatusTracksTerm'
  BY DEF IInv, Types, ElectorTypes, Terms, StatusTracksTerm
<1> QED BY <1>1, <1>2, <1>3, <1>4, <1>5, <1>6 DEF IInv, Types

(***************************************************************************)
(* A canceled loop ends.                                                   *)
(***************************************************************************)
LEMMA LoopExitsStep ==
    ASSUME backend = "pg", IInv, NEW r \in Replicas, LoopExits(r)
    PROVE  IInv'
<1> USE LeaderAssumption DEF LoopExits, lockVars, appVars
<1>1. LockTypes'
  BY DEF IInv, Types, LockTypes
<1>2. ElectorTypes'
  BY SMTT(30) DEF IInv, Types, ElectorTypes
<1>3. FlagTypes'
  BY DEF IInv, Types, FlagTypes
<1>4. Terms'
  BY SMTT(30) DEF IInv, Types, ElectorTypes, FlagTypes, Terms
<1>5. Sessions'
  BY DEF IInv, Types, LockTypes, ElectorTypes, Sessions, Holds
<1>6. StatusTracksTerm'
  BY DEF IInv, Types, ElectorTypes, Terms, StatusTracksTerm
<1> QED BY <1>1, <1>2, <1>3, <1>4, <1>5, <1>6 DEF IInv, Types

(***************************************************************************)
(* stopAll gives up on a tick.                                             *)
(***************************************************************************)
LEMMA StopTimesOutStep ==
    ASSUME backend = "pg", IInv, NEW r \in Replicas, StopTimesOut(r)
    PROVE  IInv'
<1> USE LeaderAssumption DEF StopTimesOut, Fault, lockVars, appVars
<1>1. LockTypes'
  BY DEF IInv, Types, LockTypes
<1>2. ElectorTypes'
  BY SMTT(30) DEF IInv, Types, ElectorTypes
<1>3. FlagTypes'
  BY DEF IInv, Types, FlagTypes
<1>4. Terms'
  BY SMTT(30) DEF IInv, Types, ElectorTypes, FlagTypes, Terms
<1>5. Sessions'
  BY DEF IInv, Types, LockTypes, ElectorTypes, Sessions, Holds
<1>6. StatusTracksTerm'
  BY DEF IInv, Types, ElectorTypes, Terms, StatusTracksTerm
<1> QED BY <1>1, <1>2, <1>3, <1>4, <1>5, <1>6 DEF IInv, Types

(***************************************************************************)
(* The session is closed and the lock released.                            *)
(***************************************************************************)
LEMMA CloseStep ==
    ASSUME backend = "pg", IInv, NEW r \in Replicas, Close(r)
    PROVE  IInv'
<1> USE LeaderAssumption DEF Close, Released, Drained, Returns, StopAll, lockVars, appVars
<1>1. LockTypes'
  BY DEF IInv, Types, LockTypes, Holds
<1>2. ElectorTypes'
  BY SMTT(30) DEF IInv, Types, ElectorTypes
<1>3. FlagTypes'
  BY Zenon DEF IInv, Types, FlagTypes
<1>4. Terms'
  BY SMTT(30) DEF IInv, Types, ElectorTypes, FlagTypes, Terms
<1>5. Sessions'
  <2> SUFFICES ASSUME NEW q \in Replicas, conn'[q] = "open", pc'[q] \in {"lead", "drain", "close"}
               PROVE  Holds(q)'
    BY DEF Sessions
  <2>1. q # r /\ conn[q] = "open"
    BY DEF IInv, Types, LockTypes
  <2>2. pc'[q] = pc[q]
    BY <2>1 DEF IInv, Types, ElectorTypes
  <2>3. Holds(q) /\ ~Holds(r)
    BY <2>1, <2>2 DEF IInv, Sessions, Holds
  <2> QED
    BY <2>3 DEF Holds
<1>6. StatusTracksTerm'
  BY DEF IInv, Types, ElectorTypes, Terms, StatusTracksTerm
<1> QED BY <1>1, <1>2, <1>3, <1>4, <1>5, <1>6 DEF IInv, Types

(***************************************************************************)
(* The session does not close.                                             *)
(***************************************************************************)
LEMMA CloseFailsStep ==
    ASSUME backend = "pg", IInv, NEW r \in Replicas, CloseFails(r)
    PROVE  IInv'
<1> USE LeaderAssumption DEF CloseFails, Released, Drained, Returns, StopAll, Fault, lockVars, appVars
<1>1. LockTypes'
  <2>1. conn' \in [Replicas -> {"none", "open", "broken"}]
    BY ZenonT(30) DEF IInv, Types, LockTypes
  <2>2. \/ UNCHANGED <<holder, ghost>>
        \/ holder' = {} /\ ~ghost /\ UNCHANGED ghost
        \/ holder' = {r} /\ ghost' = TRUE
    BY DEF Holds
  <2> HIDE DEF CloseFails
  <2>3. ghost' \in BOOLEAN
    BY <2>2, Zenon DEF IInv, Types, LockTypes
  <2>4. holder' = {} \/ \E q \in Replicas : holder' = {q}
    BY <2>2 DEF IInv, Types, LockTypes
  <2>5. ghost' => holder' # {}
    BY <2>2, Zenon DEF IInv, Types, LockTypes
  <2> QED BY <2>1, <2>3, <2>4, <2>5, Zenon DEF LockTypes
<1>2. ElectorTypes'
  BY SMTT(30) DEF IInv, Types, ElectorTypes
<1>3. FlagTypes'
  BY Zenon DEF IInv, Types, FlagTypes
<1>4. Terms'
  BY SMTT(30) DEF IInv, Types, ElectorTypes, FlagTypes, Terms
<1>5. Sessions'
  BY ZenonT(30) DEF IInv, Types, LockTypes, ElectorTypes, Sessions, Holds
<1>6. StatusTracksTerm'
  BY DEF IInv, Types, ElectorTypes, Terms, StatusTracksTerm
<1> QED BY <1>1, <1>2, <1>3, <1>4, <1>5, <1>6 DEF IInv, Types

(***************************************************************************)
(* fx stops a replica.                                                     *)
(***************************************************************************)
LEMMA StopStep ==
    ASSUME backend = "pg", IInv, NEW r \in Replicas, Stop(r)
    PROVE  IInv'
<1> USE LeaderAssumption DEF Stop, lockVars, appVars
<1>1. LockTypes'
  BY DEF IInv, Types, LockTypes
<1>2. ElectorTypes'
  BY SMTT(30) DEF IInv, Types, ElectorTypes
<1>3. FlagTypes'
  BY DEF IInv, Types, FlagTypes
<1>4. Terms'
  BY SMTT(30) DEF IInv, Types, ElectorTypes, FlagTypes, Terms
<1>5. Sessions'
  BY DEF IInv, Types, LockTypes, ElectorTypes, Sessions, Holds
<1>6. StatusTracksTerm'
  BY DEF IInv, Types, ElectorTypes, Terms, StatusTracksTerm
<1> QED BY <1>1, <1>2, <1>3, <1>4, <1>5, <1>6 DEF IInv, Types

(***************************************************************************)
(* A gate that waits ends with its process.                                *)
(***************************************************************************)
LEMMA WaitEndsStep ==
    ASSUME backend = "pg", IInv, NEW r \in Replicas, WaitEnds(r)
    PROVE  IInv'
<1> USE LeaderAssumption DEF WaitEnds, StopAll, lockVars, appVars
<1>1. LockTypes'
  BY DEF IInv, Types, LockTypes
<1>2. ElectorTypes'
  BY SMTT(30) DEF IInv, Types, ElectorTypes
<1>3. FlagTypes'
  BY DEF IInv, Types, FlagTypes
<1>4. Terms'
  BY SMTT(30) DEF IInv, Types, ElectorTypes, FlagTypes, Terms
<1>5. Sessions'
  BY DEF IInv, Types, LockTypes, ElectorTypes, Sessions, Holds
<1>6. StatusTracksTerm'
  BY DEF IInv, Types, ElectorTypes, Terms, StatusTracksTerm
<1> QED BY <1>1, <1>2, <1>3, <1>4, <1>5, <1>6 DEF IInv, Types

(***************************************************************************)
(* The server ends a dead session.                                         *)
(***************************************************************************)
LEMMA LockExpiresStep ==
    ASSUME IInv, LockExpires
    PROVE  IInv'
<1> USE DEF LockExpires, appVars
<1>1. LockTypes'
  BY Zenon DEF IInv, Types, LockTypes
<1>2. ElectorTypes'
  BY SMTT(30) DEF IInv, Types, ElectorTypes
<1>3. FlagTypes'
  BY DEF IInv, Types, FlagTypes
<1>4. Terms' /\ StatusTracksTerm'
  BY DEF IInv, Terms, StatusTracksTerm
<1>5. Sessions'
  BY DEF IInv, Sessions, Holds
<1> QED BY <1>1, <1>2, <1>3, <1>4, <1>5 DEF IInv, Types

(***************************************************************************)
(* Stuttering.                                                             *)
(***************************************************************************)
LEMMA Stutter ==
    ASSUME IInv, UNCHANGED vars
    PROVE  IInv'
<1>1. Types'
  BY DEF vars, IInv, Types, LockTypes, ElectorTypes, FlagTypes
<1>2. Terms' /\ StatusTracksTerm'
  BY DEF vars, IInv, Terms, StatusTracksTerm
<1>3. Sessions'
  BY DEF vars, IInv, Sessions, Holds
<1> QED BY <1>1, <1>2, <1>3 DEF IInv

(***************************************************************************)
(* A deployment keeps its elector.                                         *)
(***************************************************************************)
LEMMA BackendFixed == [Next]_vars => backend' = backend
  BY ZenonT(30) DEF Next, Elector, LockExpires, Retry, Connect, ConnectFails, Wins, TryFails, GivesUp, LosesTerm,
     OnStoppedLeading, Close, CloseFails, WaitEnds, OnStartedLeading, AfterFunc, LoopExits,
     StopTimesOut, SessionBreaks, Stop, vars

(***************************************************************************)
(* The invariant is inductive for the advisory-lock elector.               *)
(***************************************************************************)
PgInv == backend \in Backends /\ (backend = "pg" => IInv)

LEMMA InitPgInv == Init => PgInv
  BY InitIInv DEF PgInv, Init

LEMMA NextPgInv == PgInv /\ [Next]_vars => PgInv'
<1> SUFFICES ASSUME PgInv, [Next]_vars, backend' = "pg" PROVE IInv'
  BY BackendFixed DEF PgInv
<1> backend = "pg" /\ IInv
  BY BackendFixed DEF PgInv
<1>1. ASSUME NEW r \in Replicas PROVE ~GivesUp(r)
  BY Zenon DEF GivesUp
<1> QED
  BY <1>1, Stutter, LockExpiresStep, RetryStep, ConnectStep, ConnectFailsStep, WinsStep, TryFailsStep, OnStartedLeadingStep, AfterFuncStep, SessionBreaksStep, LosesTermStep, OnStoppedLeadingStep, LoopExitsStep, StopTimesOutStep, CloseStep, CloseFailsStep, StopStep, WaitEndsStep
  DEF Next, Elector

(***************************************************************************)
(* At most one session holds the lock, and the state keeps its types.      *)
(***************************************************************************)
THEOREM LeaderTypes ==
    Spec => [](backend = "pg" => TypeOK)
<1>1. PgInv => (backend = "pg" => TypeOK)
  <2> SUFFICES ASSUME IInv, backend \in Backends PROVE TypeOK
    BY DEF PgInv
  <2>1. holder = {} \/ \E r \in Replicas : holder = {r}
    BY DEF IInv, Types, LockTypes
  <2>2. CASE holder = {}
    <3>1. Cardinality(holder) = 0
      BY <2>2, FS_EmptySet
    <3> QED BY <2>2, <3>1 DEF IInv, Types, LockTypes, ElectorTypes, FlagTypes, TypeOK
  <2>3. ASSUME NEW r \in Replicas, holder = {r}
        PROVE  TypeOK
    <3>1. Cardinality(holder) = 1
      BY <2>3, FS_Singleton
    <3> QED BY <2>3, <3>1 DEF IInv, Types, LockTypes, ElectorTypes, FlagTypes, TypeOK
  <2> QED BY <2>1, <2>2, <2>3
<1> QED BY <1>1, InitPgInv, NextPgInv, PTL DEF Spec

(***************************************************************************)
(* While a loop or its last tick runs, the replica's session, unless it is  *)
(* broken, holds the lock: leadWhileHeld waits for the callbacks before the *)
(* session closes.                                                          *)
(***************************************************************************)
THEOREM LeaderLoopsHoldLock ==
    Spec => []LoopsHoldLock
<1>1. PgInv => LoopsHoldLock
  BY ZenonT(30) DEF PgInv, IInv, Terms, Sessions, LoopsHoldLock
<1> QED BY <1>1, InitPgInv, NextPgInv, PTL DEF Spec

(***************************************************************************)
(* Over the advisory lock two replicas run loops at once only while the     *)
(* session of one of them is broken or closed, for any number of replicas,  *)
(* terms and faults (tryLock, leadWhileHeld, stopAll).                      *)
(***************************************************************************)
THEOREM LeaderLoopsExclusive == Spec => []LoopsExclusive
<1>1. PgInv => LoopsExclusive
  <2> SUFFICES ASSUME PgInv, backend = "pg", NEW r \in Replicas, NEW s \in Replicas,
                      loop[r] \cup stray[r] # {}, conn[r] = "open",
                      loop[s] \cup stray[s] # {}, conn[s] = "open"
               PROVE  r = s
    BY Zenon DEF LoopsExclusive
  <2>1. Holds(r) /\ Holds(s)
    BY DEF PgInv, IInv, Terms, Sessions
  <2> QED BY <2>1 DEF PgInv, IInv, Types, LockTypes, Holds
<1> QED BY <1>1, InitPgInv, NextPgInv, PTL DEF Spec

(***************************************************************************)
(* hook.Lead runs both callbacks on one goroutine, so a loop of the gate    *)
(* belongs to the current term and never outlives its OnStoppedLeading.     *)
(***************************************************************************)
THEOREM LeaderLoopsFollowTerm ==
    Spec => []LoopsFollowTerm
<1>1. PgInv => LoopsFollowTerm
  BY DEF PgInv, IInv, Terms, LoopsFollowTerm
<1> QED BY <1>1, InitPgInv, NextPgInv, PTL DEF Spec

(***************************************************************************)
(* Status reports the running term once OnStartedLeading ran and no term    *)
(* between terms, however late the AfterFunc of an earlier one comes        *)
(* (Status.Observe).                                                        *)
(***************************************************************************)
THEOREM LeaderStatus == Spec => []StatusTracksTerm
<1>1. PgInv => StatusTracksTerm
  BY DEF PgInv, IInv, StatusTracksTerm
<1> QED BY <1>1, InitPgInv, NextPgInv, PTL DEF Spec

(***************************************************************************)
(* A replica whose loops run does not report a failed election              *)
(* (Gate.startAll clears it).                                               *)
(***************************************************************************)
THEOREM LeaderRunningIsReady == Spec => []RunningIsReady
<1>1. PgInv => RunningIsReady
  BY DEF PgInv, IInv, Terms, RunningIsReady
<1> QED BY <1>1, InitPgInv, NextPgInv, PTL DEF Spec
=============================================================================
