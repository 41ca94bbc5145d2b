------------------------------ MODULE TwoTier ------------------------------
(***************************************************************************)
(* The two-tier cache (cache/twotier): an in-process L1 per replica over a  *)
(* shared L2, read through with singleflight and fenced by an epoch.        *)
(*                                                                          *)
(* Values are versions: origin[k] is the version the loader would read now. *)
(* An application updates the origin and then sets or deletes the key.      *)
(* floor[r][k] is the oldest version replica r may still serve: the origin  *)
(* at its last Delete or InvalidatePrefix, the value of its last Set, or    *)
(* what the last notice it applied stood for.                               *)
(***************************************************************************)
EXTENDS Integers

CONSTANTS
    Replicas,    \* processes that share the L2
    Slots,       \* goroutines of a replica that may be inside Get at once
    Keys,        \* composed keys
    HasL2,       \* FALSE for cache.twotier.l2 = none
    MaxVersion,  \* bound: updates of an origin value
    MaxEpoch     \* bound: mutations a replica starts

ASSUME TwoTierAssumption ==
    /\ HasL2 \in BOOLEAN
    /\ MaxVersion \in Nat
    /\ MaxEpoch \in Nat

Gets == Replicas \X Slots

VARIABLES
    origin,   \* version of a key at the origin
    l1,       \* TwoTier.l1 of a replica
    l2,       \* the shared tier
    epoch,    \* TwoTier.epoch of a replica
    floor,    \* oldest version a replica may still serve
    pc,       \* where a Get is
    gkey,     \* its key
    gepoch,   \* the epoch its snapshot saw
    val,      \* the version it loaded
    bound,    \* oldest version it may return
    unsent,   \* local mutations whose notice is not broadcast yet
    notices   \* notices on their way to a replica

getVars == <<pc, gkey, gepoch, val, bound>>
vars == <<origin, l1, l2, epoch, floor, pc, gkey, gepoch, val, bound, unsent, notices>>

Absent == -1
Corrupt == -2
Home(g) == g[1]
Running == {"l2", "load", "store"}
Least(a, b) == IF a <= b THEN a ELSE b
Most(a, b) == IF a >= b THEN a ELSE b

Versions == 0..MaxVersion
Mutations == [from : Replicas, keys : SUBSET Keys, ver : [Keys -> Nat]]
Notices == [to : Replicas, keys : SUBSET Keys, ver : [Keys -> Nat]]

TypeOK ==
    /\ origin \in [Keys -> Nat]
    /\ l1 \in [Replicas -> [Keys -> Nat \cup {Absent}]]
    /\ l2 \in [Keys -> Nat \cup {Absent, Corrupt}]
    /\ epoch \in [Replicas -> Nat]
    /\ floor \in [Replicas -> [Keys -> Nat]]
    /\ pc \in [Gets -> {"idle", "miss", "wait", "fill"} \cup Running]
    /\ gkey \in [Gets -> Keys]
    /\ gepoch \in [Gets -> Nat]
    /\ val \in [Gets -> Nat]
    /\ bound \in [Gets -> Nat]
    /\ unsent \subseteq Mutations
    /\ notices \subseteq Notices

Init ==
    /\ origin = [k \in Keys |-> 0]
    /\ l1 = [r \in Replicas |-> [k \in Keys |-> Absent]]
    /\ l2 = [k \in Keys |-> Absent]
    /\ epoch = [r \in Replicas |-> 0]
    /\ floor = [r \in Replicas |-> [k \in Keys |-> 0]]
    /\ pc = [g \in Gets |-> "idle"]
    /\ gkey \in {[g \in Gets |-> k] : k \in Keys}
    /\ gepoch = [g \in Gets |-> 0]
    /\ val = [g \in Gets |-> 0]
    /\ bound = [g \in Gets |-> 0]
    /\ unsent = {}
    /\ notices = {}

-----------------------------------------------------------------------------
(***************************************************************************)
(* Get: the snapshot of the epoch and of L1 under the read lock.  A hit     *)
(* returns at once; the miss is what goes on.                               *)
(***************************************************************************)
Get(g, k) ==
    /\ pc[g] = "idle"
    /\ l1[Home(g)][k] = Absent
    /\ pc' = [pc EXCEPT ![g] = "miss"]
    /\ gkey' = [gkey EXCEPT ![g] = k]
    /\ gepoch' = [gepoch EXCEPT ![g] = epoch[Home(g)]]
    /\ bound' = [bound EXCEPT ![g] = floor[Home(g)][k]]
    /\ UNCHANGED <<origin, l1, l2, epoch, floor, val, unsent, notices>>

(***************************************************************************)
(* singleflight.Do: wait for the flight of the same key and epoch, or lead  *)
(* a new one.                                                               *)
(***************************************************************************)
SameFlight(g, h) == Home(g) = Home(h) /\ gkey[g] = gkey[h] /\ gepoch[g] = gepoch[h]

Do(g) ==
    /\ pc[g] = "miss"
    /\ pc' = [pc EXCEPT ![g] =
         IF \E h \in Gets : pc[h] \in Running /\ SameFlight(g, h) THEN "wait" ELSE "l2"]
    /\ UNCHANGED <<origin, l1, l2, epoch, floor, gkey, gepoch, val, bound, unsent, notices>>

(***************************************************************************)
(* The flight led by g ends with version v for all of its callers.         *)
(***************************************************************************)
RidersMutLeaderOnly(g) == {g}

Riders(g) == {h \in Gets : h = g \/ (pc[h] = "wait" /\ SameFlight(g, h))}

EndFlight(g, v) ==
    /\ pc' = [h \in Gets |-> IF h \in Riders(g) THEN "fill" ELSE pc[h]]
    /\ val' = [h \in Gets |-> IF h \in Riders(g) THEN v ELSE val[h]]
    /\ UNCHANGED <<gkey, gepoch, bound>>

FailFlight(g) ==
    /\ pc' = [h \in Gets |-> IF h \in Riders(g) THEN "idle" ELSE pc[h]]
    /\ bound' = [h \in Gets |-> IF h \in Riders(g) THEN 0 ELSE bound[h]]
    /\ UNCHANGED <<gkey, gepoch, val>>

IsCurrent(g) == gepoch[g] = epoch[Home(g)]

Hit(x) == x >= 0

(***************************************************************************)
(* load asks L2 first.  A hit ends the flight, a corrupt value is deleted   *)
(* if the epoch is still current (the DEL may fail), and a miss or an error *)
(* falls through to the loader.                                             *)
(***************************************************************************)
LoadL2(g) ==
    /\ pc[g] = "l2"
    /\ \/ Hit(l2[gkey[g]]) /\ EndFlight(g, l2[gkey[g]]) /\ UNCHANGED l2
       \/ /\ pc' = [pc EXCEPT ![g] = "load"]
          /\ \/ UNCHANGED l2
             \/ /\ l2[gkey[g]] = Corrupt /\ IsCurrent(g)
                /\ l2' = [l2 EXCEPT ![gkey[g]] = Absent]
          /\ UNCHANGED <<gkey, gepoch, val, bound>>
    /\ UNCHANGED <<origin, l1, epoch, floor, unsent, notices>>

(***************************************************************************)
(* The loader reads the origin, or fails for every caller of the flight.   *)
(***************************************************************************)
Load(g) ==
    /\ pc[g] = "load"
    /\ \/ /\ pc' = [pc EXCEPT ![g] = "store"]
          /\ val' = [val EXCEPT ![g] = origin[gkey[g]]]
          /\ UNCHANGED <<gkey, gepoch, bound>>
       \/ FailFlight(g)
    /\ UNCHANGED <<origin, l1, l2, epoch, floor, unsent, notices>>

(***************************************************************************)
(* setL2IfCurrent: under the lock, write L2 unless a mutation came between. *)
(* A failed write is only logged.                                           *)
(***************************************************************************)
SetL2IfCurrentMutUnfenced(g) ==
    HasL2 /\ l2' = [l2 EXCEPT ![gkey[g]] = val[g]]

SetL2IfCurrent(g) ==
    \/ HasL2 /\ IsCurrent(g) /\ l2' = [l2 EXCEPT ![gkey[g]] = val[g]]
    \/ UNCHANGED l2

StoreL2(g) ==
    /\ pc[g] = "store"
    /\ SetL2IfCurrent(g)
    /\ EndFlight(g, val[g])
    /\ UNCHANGED <<origin, l1, epoch, floor, unsent, notices>>

(***************************************************************************)
(* setL1IfCurrent, after which Get returns val[g].                         *)
(***************************************************************************)
SetL1IfCurrentMutUnfenced(g) ==
    l1' = [l1 EXCEPT ![Home(g)][gkey[g]] = val[g]]

SetL1IfCurrent(g) ==
    IF IsCurrent(g) THEN l1' = [l1 EXCEPT ![Home(g)][gkey[g]] = val[g]] ELSE UNCHANGED l1

FillL1(g) ==
    /\ pc[g] = "fill"
    /\ SetL1IfCurrent(g)
    /\ pc' = [pc EXCEPT ![g] = "idle"]
    /\ val' = [val EXCEPT ![g] = 0]
    /\ bound' = [bound EXCEPT ![g] = 0]
    /\ UNCHANGED <<origin, l2, epoch, floor, gkey, gepoch, unsent, notices>>

-----------------------------------------------------------------------------
(***************************************************************************)
(* Set writes both tiers under the lock; what it writes may be any version  *)
(* the application has seen.  Calls of Get that are under way may return it *)
(* from now on.                                                             *)
(***************************************************************************)
Lowered(r, k, v) ==
    [g \in Gets |-> IF Home(g) = r /\ gkey[g] = k THEN Least(bound[g], v) ELSE bound[g]]

Set(r, k, v) ==
    /\ epoch[r] < MaxEpoch
    /\ v <= origin[k]
    /\ l2' = [l2 EXCEPT ![k] = IF HasL2 THEN v ELSE @]
    /\ epoch' = [epoch EXCEPT ![r] = @ + 1]
    /\ l1' = [l1 EXCEPT ![r][k] = v]
    /\ floor' = [floor EXCEPT ![r][k] = v]
    /\ bound' = Lowered(r, k, v)
    /\ unsent' = unsent \cup {[from |-> r, keys |-> {k}, ver |-> [origin EXCEPT ![k] = v]]}
    /\ UNCHANGED <<origin, pc, gkey, gepoch, val, notices>>

(***************************************************************************)
(* Set when L2 reports an error: nothing else happens, but the write may    *)
(* have reached L2.                                                         *)
(***************************************************************************)
SetFails(r, k, v) ==
    /\ HasL2 /\ v <= origin[k]
    /\ l2' = [l2 EXCEPT ![k] = v]
    /\ floor' = [floor EXCEPT ![r][k] = Least(@, v)]
    /\ bound' = Lowered(r, k, v)
    /\ UNCHANGED <<origin, l1, epoch, pc, gkey, gepoch, val, unsent, notices>>

(***************************************************************************)
(* Delete (one key) and InvalidatePrefix (the keys under a prefix): both    *)
(* tiers and the epoch under the lock.                                      *)
(***************************************************************************)
Dropped(tier, S) == [k \in Keys |-> IF k \in S THEN Absent ELSE tier[k]]

Raised(r, S, ver) ==
    [s \in Replicas |-> [k \in Keys |->
        IF s = r /\ k \in S THEN Most(floor[s][k], ver[k]) ELSE floor[s][k]]]

Invalidate(r, S) ==
    /\ epoch[r] < MaxEpoch
    /\ l2' = Dropped(l2, S)
    /\ epoch' = [epoch EXCEPT ![r] = @ + 1]
    /\ l1' = [l1 EXCEPT ![r] = Dropped(@, S)]
    /\ floor' = Raised(r, S, origin)
    /\ unsent' = unsent \cup {[from |-> r, keys |-> S, ver |-> origin]}
    /\ UNCHANGED <<origin, getVars, notices>>

(***************************************************************************)
(* Delete or InvalidatePrefix when L2 reports an error: some of the keys    *)
(* may be gone from L2.                                                     *)
(***************************************************************************)
InvalidateFails(S) ==
    /\ HasL2
    /\ l2' = Dropped(l2, S)
    /\ UNCHANGED <<origin, l1, epoch, floor, getVars, unsent, notices>>

(***************************************************************************)
(* broadcast, after the lock was released: at most once to every peer.     *)
(***************************************************************************)
Broadcast(m) ==
    /\ \E S \in SUBSET (Replicas \ {m.from}) :
        notices' = notices \cup {[to |-> r, keys |-> m.keys, ver |-> m.ver] : r \in S}
    /\ unsent' = unsent \ {m}
    /\ UNCHANGED <<origin, l1, l2, epoch, floor, getVars>>

(***************************************************************************)
(* applyInvalidation at a peer.                                            *)
(***************************************************************************)
FencedMutNoFence(r) == epoch

Fenced(r) == [epoch EXCEPT ![r] = @ + 1]

ApplyInvalidation(n) ==
    /\ epoch' = Fenced(n.to)
    /\ l1' = [l1 EXCEPT ![n.to] = Dropped(@, n.keys)]
    /\ floor' = Raised(n.to, n.keys, n.ver)
    /\ notices' = notices \ {n}
    /\ UNCHANGED <<origin, l2, getVars, unsent>>

(***************************************************************************)
(* A GapBus reconnected: notices of the outage are lost, so an empty-prefix *)
(* invalidation evicts all of L1.                                           *)
(***************************************************************************)
Reconnected(r) ==
    /\ epoch[r] < MaxEpoch
    /\ epoch' = Fenced(r)
    /\ l1' = [l1 EXCEPT ![r] = Dropped(@, Keys)]
    /\ notices' = {n \in notices : n.to # r}
    /\ UNCHANGED <<origin, l2, floor, getVars, unsent>>

(***************************************************************************)
(* The application updates the origin; tiers lose entries by TTL or size;   *)
(* another program leaves a value in L2 that does not decode.               *)
(***************************************************************************)
Update(k) ==
    /\ origin[k] < MaxVersion
    /\ origin' = [origin EXCEPT ![k] = @ + 1]
    /\ UNCHANGED <<l1, l2, epoch, floor, getVars, unsent, notices>>

L1Expires(r, k) ==
    /\ l1[r][k] # Absent
    /\ l1' = [l1 EXCEPT ![r][k] = Absent]
    /\ UNCHANGED <<origin, l2, epoch, floor, getVars, unsent, notices>>

L2Changes(k) ==
    /\ HasL2
    /\ \E x \in {Absent, Corrupt} : l2' = [l2 EXCEPT ![k] = x]
    /\ UNCHANGED <<origin, l1, epoch, floor, getVars, unsent, notices>>

GetStep(g) == Do(g) \/ LoadL2(g) \/ Load(g) \/ StoreL2(g) \/ FillL1(g)

ReadsAndInvalidations ==
    \/ \E g \in Gets : (\E k \in Keys : Get(g, k)) \/ GetStep(g)
    \/ \E r \in Replicas : Reconnected(r) \/ \E S \in SUBSET Keys : Invalidate(r, S)
    \/ \E S \in SUBSET Keys : InvalidateFails(S)
    \/ \E m \in unsent : Broadcast(m)
    \/ \E n \in notices : ApplyInvalidation(n)
    \/ \E k \in Keys : Update(k) \/ L2Changes(k) \/ \E r \in Replicas : L1Expires(r, k)

Sets == \E r \in Replicas, k \in Keys, v \in Versions : Set(r, k, v) \/ SetFails(r, k, v)

Next == ReadsAndInvalidations \/ Sets

Spec == Init /\ [][Next]_vars

(***************************************************************************)
(* A program that reads through the cache and invalidates, and sets nothing. *)
(***************************************************************************)
ReadThroughSpec == Init /\ [][ReadsAndInvalidations]_vars

(***************************************************************************)
(* A flight goes on until it ends: L2 and the loader answer or fail.       *)
(***************************************************************************)
FairSpec == Spec /\ \A g \in Gets : WF_vars(GetStep(g))

-----------------------------------------------------------------------------
(***************************************************************************)
(* With one replica, or without an L2:                                      *)
(* no Get that starts after a Delete, Set or InvalidatePrefix returned, or  *)
(* after the notice of one was applied, serves an older version: L1 holds   *)
(* nothing older than the floor and a flight delivers nothing older than    *)
(* the floor of its callers (the epoch fence of setL1IfCurrent and          *)
(* setL2IfCurrent).                                                         *)
(***************************************************************************)
GetsAreFresh ==
    /\ \A r \in DOMAIN l1, k \in Keys : l1[r][k] # Absent => l1[r][k] >= floor[r][k]
    /\ \A g \in DOMAIN pc : pc[g] = "fill" => val[g] >= bound[g]

(***************************************************************************)
(* In every configuration a key is loaded at most once at a time within an  *)
(* epoch, and whoever waits, waits for a flight that is still under way:    *)
(* no mutation, notice or reconnection between the snapshot of Get and      *)
(* singleflight.Do leaves a caller behind.                                  *)
(***************************************************************************)
FlightsAreLed ==
    /\ \A g, h \in Gets : pc[g] \in Running /\ pc[h] \in Running /\ SameFlight(g, h) => g = h
    /\ \A g \in Gets : pc[g] = "wait" => \E h \in Gets : pc[h] \in Running /\ SameFlight(g, h)

(***************************************************************************)
(* Every Get returns, the one that waits for another's flight included.    *)
(***************************************************************************)
Inside(g) == g \in DOMAIN pc /\ pc[g] # "idle"
EveryGetReturns == \A g \in Gets : []<>~Inside(g)

(***************************************************************************)
(* The comment of applyInvalidation, "L2 already holds the peer's write":   *)
(* when a peer applies the notice of a mutation, L2 holds nothing older     *)
(* than what the mutation left.                                             *)
(***************************************************************************)
L2HoldsPeersWrite ==
    [][\A n \in notices : ApplyInvalidation(n) =>
         \A k \in n.keys : l2[k] < 0 \/ l2[k] >= n.ver[k]]_vars
=============================================================================
