--------------------------- MODULE TwoTierProofs ---------------------------
(***************************************************************************)
(* The epoch fence of the two-tier cache, for any number of keys, slots,    *)
(* versions and mutations: with one replica over an L2, or with any number  *)
(* of replicas without one, no Get serves a version older than its floor.   *)
(***************************************************************************)
EXTENDS TwoTier, TLAPS

(***************************************************************************)
(* The configurations the fence is enough for.                             *)
(***************************************************************************)
Coherent == HasL2 => \A r, s \in Replicas : r = s

(***************************************************************************)
(* Nothing waits for more than the origin holds.                           *)
(***************************************************************************)
Bounded ==
    /\ \A r \in Replicas, k \in Keys : floor[r][k] <= origin[k]
    /\ \A m \in unsent : \A k \in Keys : m.ver[k] <= origin[k]
    /\ \A n \in notices : \A k \in Keys : n.ver[k] <= origin[k]
    /\ \A g \in Gets : gepoch[g] <= epoch[Home(g)]
    /\ \A g \in Gets : pc[g] # "idle" => bound[g] <= floor[Home(g)][gkey[g]]

(***************************************************************************)
(* What the tiers hold.                                                    *)
(***************************************************************************)
TiersFresh ==
    /\ \A r \in Replicas, k \in Keys : l1[r][k] # Absent => l1[r][k] >= floor[r][k]
    /\ \A r \in Replicas, k \in Keys : l2[k] >= 0 => l2[k] >= floor[r][k]
    /\ ~HasL2 => \A k \in Keys : l2[k] = Absent
    /\ HasL2 => notices = {}

(***************************************************************************)
(* What a flight carries: a loaded version is good for every call of its    *)
(* key and epoch, and good for the tiers while the epoch is current.        *)
(***************************************************************************)
FlightsFresh ==
    \A g \in Gets :
        /\ pc[g] = "store" => \A h \in Gets : pc[h] # "idle" /\ SameFlight(g, h) => val[g] >= bound[h]
        /\ pc[g] = "fill" => val[g] >= bound[g]
        /\ pc[g] \in {"store", "fill"} /\ IsCurrent(g) => val[g] >= floor[Home(g)][gkey[g]]

IInv == TypeOK /\ Bounded /\ TiersFresh /\ FlightsFresh

-----------------------------------------------------------------------------
(***************************************************************************)
(* A call of Get belongs to a replica.                                     *)
(***************************************************************************)
LEMMA HomeType == \A g \in Gets : Home(g) \in Replicas
BY DEF Gets, Home

(***************************************************************************)
(* The empty cache satisfies the invariant.                                *)
(***************************************************************************)
LEMMA InitIInv == Init => IInv
<1> SUFFICES ASSUME Init PROVE IInv
  OBVIOUS
<1> USE HomeType
<1>1. TypeOK
  BY DEF Init, TypeOK, Absent, Corrupt, Running, Mutations, Notices
<1>2. Bounded
  BY DEF Init, Bounded
<1>3. TiersFresh
  BY DEF Init, TiersFresh, Absent
<1>4. FlightsFresh
  BY DEF Init, FlightsFresh
<1> QED BY <1>1, <1>2, <1>3, <1>4 DEF IInv

(***************************************************************************)
(* Every action of Next, and stuttering, preserves the types.              *)
(***************************************************************************)
LEMMA TypeStep == TypeOK /\ [Next]_vars => TypeOK'
<1> SUFFICES ASSUME TypeOK, [Next]_vars PROVE TypeOK'
  OBVIOUS
<1> USE HomeType, TwoTierAssumption
<1>1. ASSUME NEW g \in Gets, NEW k \in Keys, Get(g, k) PROVE TypeOK'
  BY <1>1 DEF Get, TypeOK
<1>2. ASSUME NEW g \in Gets, Do(g) PROVE TypeOK'
  BY <1>2 DEF Do, TypeOK, Running
<1>3. ASSUME NEW g \in Gets, LoadL2(g) PROVE TypeOK'
  <2>1. CASE Hit(l2[gkey[g]]) /\ EndFlight(g, l2[gkey[g]]) /\ UNCHANGED l2
    <3>1. l2[gkey[g]] \in Nat
      <4>1. l2[gkey[g]] \in Nat \cup {Absent, Corrupt}
        BY Zenon DEF TypeOK
      <4>2. ~Hit(Absent) /\ ~Hit(Corrupt)
        BY DEF Hit, Absent, Corrupt
      <4> QED BY <2>1, <4>1, <4>2, Zenon
    <3>2. pc' \in [Gets -> {"idle", "miss", "wait", "fill"} \cup Running] /\ val' \in [Gets -> Nat]
      BY <2>1, <3>1 DEF EndFlight, TypeOK
    <3>3. UNCHANGED <<origin, l1, l2, epoch, floor, gkey, gepoch, bound, unsent, notices>>
      BY <1>3, <2>1, Zenon DEF LoadL2, EndFlight
    <3> QED BY <3>2, <3>3, Zenon DEF TypeOK
  <2>2. CASE pc' = [pc EXCEPT ![g] = "load"] /\ UNCHANGED <<gkey, gepoch, val, bound>>
    <3>1. l2' \in [Keys -> Nat \cup {Absent, Corrupt}]
      BY <1>3 DEF LoadL2, TypeOK
    <3> QED BY <1>3, <2>2, <3>1 DEF LoadL2, TypeOK, Running
  <2> QED BY <1>3, <2>1, <2>2 DEF LoadL2
<1>4. ASSUME NEW g \in Gets, Load(g) PROVE TypeOK'
  <2>1. CASE FailFlight(g)
    BY <1>4, <2>1 DEF Load, FailFlight, TypeOK
  <2>2. CASE pc' = [pc EXCEPT ![g] = "store"] /\ val' = [val EXCEPT ![g] = origin[gkey[g]]]
             /\ UNCHANGED <<gkey, gepoch, bound>>
    BY <1>4, <2>2 DEF Load, TypeOK, Running
  <2> QED BY <1>4, <2>1, <2>2 DEF Load
<1>5. ASSUME NEW g \in Gets, StoreL2(g) PROVE TypeOK'
  <2>1. l2' \in [Keys -> Nat \cup {Absent, Corrupt}]
    <3>1. l2' = l2 \/ l2' = [l2 EXCEPT ![gkey[g]] = val[g]]
      BY <1>5 DEF StoreL2, SetL2IfCurrent
    <3>2. val[g] \in Nat /\ l2 \in [Keys -> Nat \cup {Absent, Corrupt}]
      BY DEF TypeOK
    <3> QED BY <3>1, <3>2
  <2> QED BY <1>5, <2>1 DEF StoreL2, EndFlight, TypeOK
<1>6. ASSUME NEW g \in Gets, FillL1(g) PROVE TypeOK'
  <2>1. l1' \in [Replicas -> [Keys -> Nat \cup {Absent}]]
    <3>1. Home(g) \in Replicas /\ gkey[g] \in Keys /\ val[g] \in Nat
      BY DEF TypeOK
    <3>2. CASE l1' = l1
      BY <3>2 DEF TypeOK
    <3>3. CASE l1' = [l1 EXCEPT ![Home(g)][gkey[g]] = val[g]]
      BY <3>1, <3>3 DEF TypeOK
    <3> QED BY <1>6, <3>2, <3>3 DEF FillL1, SetL1IfCurrent
  <2> QED BY <1>6, <2>1 DEF FillL1, TypeOK
<1>7. ASSUME NEW r \in Replicas, NEW k \in Keys, NEW v \in Versions, Set(r, k, v) PROVE TypeOK'
  <2>1. bound' \in [Gets -> Nat]
    BY <1>7 DEF Set, Lowered, Least, Versions, TypeOK
  <2>2. unsent' \subseteq Mutations
    <3>1. [origin EXCEPT ![k] = v] \in [Keys -> Nat]
      BY DEF Versions, TypeOK
    <3>2. [from |-> r, keys |-> {k}, ver |-> [origin EXCEPT ![k] = v]] \in Mutations
      BY <3>1 DEF Mutations
    <3>3. unsent' = unsent \cup {[from |-> r, keys |-> {k}, ver |-> [origin EXCEPT ![k] = v]]}
      BY <1>7 DEF Set
    <3>4. unsent \subseteq Mutations
      BY DEF TypeOK
    <3> QED BY <3>2, <3>3, <3>4, Zenon
  <2>3. l1' \in [Replicas -> [Keys -> Nat \cup {Absent}]] /\ l2' \in [Keys -> Nat \cup {Absent, Corrupt}]
    BY <1>7 DEF Set, Versions, TypeOK
  <2> QED BY <1>7, <2>1, <2>2, <2>3 DEF Set, Versions, TypeOK
<1>8. ASSUME NEW r \in Replicas, NEW k \in Keys, NEW v \in Versions, SetFails(r, k, v) PROVE TypeOK'
  <2>1. bound' \in [Gets -> Nat]
    BY <1>8 DEF SetFails, Lowered, Least, Versions, TypeOK
  <2>2. floor' \in [Replicas -> [Keys -> Nat]]
    BY <1>8 DEF SetFails, Least, Versions, TypeOK
  <2> QED BY <1>8, <2>1, <2>2 DEF SetFails, Versions, TypeOK
<1>9. ASSUME NEW r \in Replicas, NEW S \in SUBSET Keys, Invalidate(r, S) PROVE TypeOK'
  <2>1. floor' \in [Replicas -> [Keys -> Nat]]
    BY <1>9 DEF Invalidate, Raised, Most, TypeOK
  <2>2. unsent' \subseteq Mutations
    BY <1>9 DEF Invalidate, Mutations, TypeOK
  <2>3. l1' \in [Replicas -> [Keys -> Nat \cup {Absent}]] /\ l2' \in [Keys -> Nat \cup {Absent, Corrupt}]
    BY <1>9 DEF Invalidate, Dropped, TypeOK
  <2> QED BY <1>9, <2>1, <2>2, <2>3 DEF Invalidate, getVars, TypeOK
<1>10. ASSUME NEW S \in SUBSET Keys, InvalidateFails(S) PROVE TypeOK'
  BY <1>10 DEF InvalidateFails, Dropped, getVars, TypeOK
<1>11. ASSUME NEW m \in unsent, Broadcast(m) PROVE TypeOK'
  <2>1. notices' \subseteq Notices
    BY <1>11 DEF Broadcast, Mutations, Notices, TypeOK
  <2> QED BY <1>11, <2>1 DEF Broadcast, getVars, TypeOK
<1>12. ASSUME NEW n \in notices, ApplyInvalidation(n) PROVE TypeOK'
  <2>1. n.to \in Replicas /\ n.ver \in [Keys -> Nat]
    BY DEF Notices, TypeOK
  <2>2. floor' \in [Replicas -> [Keys -> Nat]]
    BY <1>12, <2>1 DEF ApplyInvalidation, Raised, Most, TypeOK
  <2>3. l1' \in [Replicas -> [Keys -> Nat \cup {Absent}]]
    BY <1>12, <2>1 DEF ApplyInvalidation, Dropped, TypeOK
  <2>4. epoch' \in [Replicas -> Nat]
    BY <1>12, <2>1 DEF ApplyInvalidation, Fenced, TypeOK
  <2> QED BY <1>12, <2>2, <2>3, <2>4 DEF ApplyInvalidation, getVars, TypeOK
<1>13. ASSUME NEW r \in Replicas, Reconnected(r) PROVE TypeOK'
  BY <1>13 DEF Reconnected, Fenced, Dropped, getVars, TypeOK
<1>14. ASSUME NEW k \in Keys, Update(k) PROVE TypeOK'
  BY <1>14 DEF Update, getVars, TypeOK
<1>15. ASSUME NEW k \in Keys, L2Changes(k) PROVE TypeOK'
  BY <1>15 DEF L2Changes, getVars, TypeOK
<1>16. ASSUME NEW r \in Replicas, NEW k \in Keys, L1Expires(r, k) PROVE TypeOK'
  BY <1>16 DEF L1Expires, getVars, TypeOK
<1>17. CASE UNCHANGED vars
  BY <1>17 DEF vars, TypeOK
<1> QED
  BY <1>1, <1>2, <1>3, <1>4, <1>5, <1>6, <1>7, <1>8, <1>9, <1>10, <1>11, <1>12, <1>13,
     <1>14, <1>15, <1>16, <1>17
  DEF Next, ReadsAndInvalidations, Sets, GetStep

(***************************************************************************)
(* The snapshot takes the floor of the moment as the bound of the call.     *)
(***************************************************************************)
LEMMA GetStart ==
    ASSUME Coherent, IInv, TypeOK', NEW g \in Gets, NEW k \in Keys, Get(g, k)
    PROVE  IInv'
<1> USE HomeType DEF IInv
<1>1. Bounded'
  BY DEF Get, Bounded, TypeOK
<1>2. TiersFresh'
  BY DEF Get, TiersFresh
<1>3. FlightsFresh'
  BY DEF Get, FlightsFresh, SameFlight, IsCurrent, Bounded, TypeOK
<1> QED BY <1>1, <1>2, <1>3

(***************************************************************************)
(* Joining or leading a flight.                                             *)
(***************************************************************************)
LEMMA DoStep ==
    ASSUME Coherent, IInv, TypeOK', NEW g \in Gets, Do(g)
    PROVE  IInv'
<1> USE HomeType DEF IInv
<1>1. Bounded'
  BY DEF Do, Bounded, TypeOK
<1>2. TiersFresh'
  BY DEF Do, TiersFresh
<1>3. FlightsFresh'
  BY DEF Do, FlightsFresh, SameFlight, IsCurrent, TypeOK
<1> QED BY <1>1, <1>2, <1>3

(***************************************************************************)
(* A hit in L2 is good for every call of the flight.                        *)
(***************************************************************************)
LEMMA LoadL2Step ==
    ASSUME Coherent, IInv, TypeOK', NEW g \in Gets, LoadL2(g)
    PROVE  IInv'
<1> USE HomeType DEF IInv
<1>1. Bounded'
  <2>1. UNCHANGED <<origin, floor, epoch, gkey, gepoch, bound, unsent, notices>>
    BY DEF LoadL2, EndFlight
  <2>2. \A h \in Gets : pc'[h] # "idle" => pc[h] # "idle"
    BY DEF LoadL2, EndFlight, Riders, TypeOK
  <2> QED BY <2>1, <2>2 DEF Bounded
<1>2. TiersFresh'
  <2>1. l2' = l2 \/ (l2[gkey[g]] = Corrupt /\ l2' = [l2 EXCEPT ![gkey[g]] = Absent])
    BY DEF LoadL2
  <2>2. gkey[g] \in Keys /\ l2 \in [Keys -> Nat \cup {Absent, Corrupt}]
    BY DEF TypeOK
  <2>3. \A k \in Keys : l2'[k] = l2[k] \/ (l2[k] = Corrupt /\ l2'[k] = Absent)
    BY <2>1, <2>2
  <2>4. UNCHANGED <<l1, floor, notices>>
    BY DEF LoadL2
  <2> QED BY <2>3, <2>4 DEF TiersFresh, Absent, Corrupt
<1>3. FlightsFresh'
  <2>1. CASE Hit(l2[gkey[g]]) /\ EndFlight(g, l2[gkey[g]])
    <3>1. \A h \in Riders(g) : /\ l2[gkey[g]] >= floor[Home(h)][gkey[h]]
                               /\ l2[gkey[g]] >= bound[h]
      <4>1. \A h \in Riders(g) : h \in Gets /\ pc[h] # "idle" /\ gkey[h] = gkey[g]
        BY DEF LoadL2, Riders, SameFlight
      <4>2. gkey[g] \in Keys /\ l2[gkey[g]] \in Nat
        <5>1. gkey[g] \in Keys /\ l2[gkey[g]] \in Nat \cup {Absent, Corrupt}
          BY DEF TypeOK
        <5> QED BY <2>1, <5>1 DEF Hit, Absent, Corrupt
      <4>3. \A r \in Replicas : l2[gkey[g]] >= floor[r][gkey[g]] /\ floor[r][gkey[g]] \in Nat
        BY <4>2 DEF TiersFresh, TypeOK
      <4>4. \A h \in Riders(g) : bound[h] \in Nat /\ bound[h] <= floor[Home(h)][gkey[h]]
        BY <4>1 DEF Bounded, TypeOK
      <4> QED BY <4>1, <4>2, <4>3, <4>4
    <3>2. \A h \in Gets : \/ h \in Riders(g) /\ pc'[h] = "fill" /\ val'[h] = l2[gkey[g]]
                          \/ pc'[h] = pc[h] /\ val'[h] = val[h]
      BY <2>1 DEF EndFlight
    <3>3. UNCHANGED <<gkey, gepoch, bound, epoch, floor>>
      BY <2>1 DEF LoadL2, EndFlight
    <3>4. \A h \in Gets : pc'[h] # "idle" => pc[h] # "idle"
      BY <2>1 DEF LoadL2, EndFlight, Riders
    <3> QED BY <3>1, <3>2, <3>3, <3>4 DEF FlightsFresh, SameFlight, IsCurrent
  <2>2. CASE pc' = [pc EXCEPT ![g] = "load"] /\ UNCHANGED <<gkey, gepoch, val, bound>>
    BY <2>2 DEF LoadL2, FlightsFresh, SameFlight, IsCurrent, TypeOK
  <2> QED BY <2>1, <2>2 DEF LoadL2
<1> QED BY <1>1, <1>2, <1>3

(***************************************************************************)
(* What the loader reads is good for every call.                            *)
(***************************************************************************)
LEMMA LoadStep ==
    ASSUME Coherent, IInv, TypeOK', NEW g \in Gets, Load(g)
    PROVE  IInv'
<1> USE HomeType DEF IInv
<1>1. Bounded'
  BY ZenonT(30) DEF Load, FailFlight, Riders, Bounded, TypeOK
<1>2. TiersFresh'
  BY DEF Load, TiersFresh
<1>3. FlightsFresh'
  <2>1. UNCHANGED <<gkey, gepoch, epoch, floor>>
    BY DEF Load, FailFlight
  <2>2. CASE FailFlight(g)
    <3>1. \A h \in Gets : /\ val'[h] = val[h]
                          /\ pc'[h] # "idle" => pc'[h] = pc[h] /\ bound'[h] = bound[h]
      BY <2>2 DEF FailFlight
    <3> QED BY <2>1, <3>1 DEF FlightsFresh, SameFlight, IsCurrent
  <2>3. CASE pc' = [pc EXCEPT ![g] = "store"] /\ val' = [val EXCEPT ![g] = origin[gkey[g]]]
             /\ UNCHANGED bound
    <3>1. \A h \in Gets : pc[h] # "idle" /\ SameFlight(g, h) => origin[gkey[g]] >= bound[h]
      BY DEF Bounded, SameFlight, TypeOK
    <3>2. origin[gkey[g]] >= floor[Home(g)][gkey[g]]
      BY DEF Bounded, TypeOK
    <3>3. /\ pc'[g] = "store" /\ val'[g] = origin[gkey[g]] /\ pc[g] = "load"
          /\ \A h \in Gets \ {g} : pc'[h] = pc[h] /\ val'[h] = val[h]
      BY <2>3 DEF Load, TypeOK
    <3> QED BY <2>1, <2>3, <3>1, <3>2, <3>3 DEF FlightsFresh, SameFlight, IsCurrent
  <2> QED BY <2>2, <2>3 DEF Load
<1> QED BY <1>1, <1>2, <1>3

(***************************************************************************)
(* The store of L2 is fenced by the epoch.                                  *)
(***************************************************************************)
LEMMA StoreL2Step ==
    ASSUME Coherent, IInv, TypeOK', NEW g \in Gets, StoreL2(g)
    PROVE  IInv'
<1> USE HomeType DEF IInv
<1>1. Bounded'
  <2>1. UNCHANGED <<origin, epoch, floor, gkey, gepoch, bound, unsent, notices>>
    BY Zenon DEF StoreL2, EndFlight
  <2>2. \A h \in Gets : pc[h] = "idle" => pc'[h] = "idle"
    BY DEF StoreL2, EndFlight, Riders
  <2> QED BY <2>1, <2>2, Zenon DEF Bounded
<1>2. TiersFresh'
  <2>1. UNCHANGED <<l1, floor, notices>>
    BY Zenon DEF StoreL2
  <2>2. CASE l2' = l2
    BY <2>1, <2>2 DEF TiersFresh
  <2>3. CASE HasL2 /\ IsCurrent(g) /\ l2' = [l2 EXCEPT ![gkey[g]] = val[g]]
    <3>1. \A k \in Keys : l2'[k] = IF k = gkey[g] THEN val[g] ELSE l2[k]
      BY <2>3 DEF TypeOK
    <3>2. \A r \in Replicas : r = Home(g)
      BY <2>3 DEF Coherent
    <3>3. val[g] >= floor[Home(g)][gkey[g]]
      BY <2>3 DEF StoreL2, FlightsFresh
    <3> QED BY <2>1, <2>3, <3>1, <3>2, <3>3 DEF TiersFresh
  <2> QED BY <2>2, <2>3 DEF StoreL2, SetL2IfCurrent
<1>3. FlightsFresh'
  BY DEF StoreL2, EndFlight, Riders, FlightsFresh, SameFlight, IsCurrent, TypeOK
<1> QED BY <1>1, <1>2, <1>3

(***************************************************************************)
(* The fill of L1 is fenced by the epoch.                                   *)
(***************************************************************************)
LEMMA FillL1Step ==
    ASSUME Coherent, IInv, TypeOK', NEW g \in Gets, FillL1(g)
    PROVE  IInv'
<1> USE HomeType DEF IInv
<1>1. Bounded'
  BY DEF FillL1, Bounded, TypeOK
<1>2. TiersFresh'
  <2>1. Home(g) \in Replicas /\ gkey[g] \in Keys
    BY DEF TypeOK
  <2>2. \A r \in Replicas, k \in Keys :
          \/ l1'[r][k] = l1[r][k]
          \/ r = Home(g) /\ k = gkey[g] /\ l1'[r][k] = val[g] /\ IsCurrent(g)
    BY <2>1 DEF FillL1, SetL1IfCurrent, TypeOK
  <2>3. UNCHANGED <<l2, floor, notices>>
    BY DEF FillL1
  <2> QED BY <2>2, <2>3 DEF FillL1, FlightsFresh, TiersFresh
<1>3. FlightsFresh'
  BY DEF FillL1, FlightsFresh, SameFlight, IsCurrent, TypeOK
<1> QED BY <1>1, <1>2, <1>3

(***************************************************************************)
(* A new epoch makes every flight of its replica stale, whatever happens to *)
(* the floors of that replica.                                              *)
(***************************************************************************)
LEMMA Fences ==
    ASSUME TypeOK, Bounded, FlightsFresh, UNCHANGED getVars, NEW r \in Replicas,
           epoch' = [epoch EXCEPT ![r] = @ + 1],
           \A s \in Replicas : s # r => \A k \in Keys : floor'[s][k] = floor[s][k]
    PROVE  FlightsFresh'
<1>1. \A g \in Gets : Home(g) = r => ~IsCurrent(g)'
  BY HomeType DEF IsCurrent, Bounded, getVars, TypeOK
<1>2. \A g \in Gets : Home(g) # r => (IsCurrent(g)' <=> IsCurrent(g))
  BY HomeType DEF IsCurrent, getVars, TypeOK
<1>3. \A g \in Gets : Home(g) # r => floor'[Home(g)][gkey[g]] = floor[Home(g)][gkey[g]]
  BY HomeType DEF TypeOK
<1>4. \A g, h \in Gets : SameFlight(g, h)' <=> SameFlight(g, h)
  BY DEF SameFlight, getVars
<1> QED BY <1>1, <1>2, <1>3, <1>4 DEF FlightsFresh, getVars

(***************************************************************************)
(* A step that leaves the calls, the epochs and the floors alone.          *)
(***************************************************************************)
LEMMA FlightsUntouched ==
    ASSUME FlightsFresh, UNCHANGED getVars, UNCHANGED <<epoch, floor>>
    PROVE  FlightsFresh'
<1>1. \A g, h \in Gets : (SameFlight(g, h)' <=> SameFlight(g, h)) /\ (IsCurrent(g)' <=> IsCurrent(g))
  BY DEF SameFlight, IsCurrent, getVars
<1> QED BY <1>1 DEF FlightsFresh, getVars

(***************************************************************************)
(* Floors that are raised to versions of the origin stay below it.          *)
(***************************************************************************)
LEMMA RaisedBounded ==
    ASSUME TypeOK, Bounded, NEW r \in Replicas, NEW S \in SUBSET Keys, NEW ver \in [Keys -> Nat],
           \A k \in Keys : ver[k] <= origin[k],
           floor' = Raised(r, S, ver), epoch' = [epoch EXCEPT ![r] = @ + 1], UNCHANGED <<origin, getVars>>,
           \A m \in unsent' : m \in unsent \/ m.ver = origin,
           notices' \subseteq notices
    PROVE  Bounded'
<1>1. /\ origin \in [Keys -> Nat] /\ epoch \in [Replicas -> Nat] /\ floor \in [Replicas -> [Keys -> Nat]]
      /\ gkey \in [Gets -> Keys] /\ gepoch \in [Gets -> Nat] /\ bound \in [Gets -> Nat]
  BY Zenon DEF TypeOK
<1>2. origin' = origin /\ pc' = pc /\ gkey' = gkey /\ gepoch' = gepoch /\ bound' = bound
  BY Zenon DEF getVars
<1>3. \A s \in Replicas, k \in Keys :
        floor'[s][k] \in Nat /\ floor[s][k] <= floor'[s][k] /\ floor'[s][k] <= origin[k]
  BY <1>1 DEF Raised, Most, Bounded
<1>4. \A s \in Replicas : epoch'[s] \in Nat /\ epoch[s] <= epoch'[s]
  BY <1>1
<1>5. \A g \in Gets : gepoch'[g] <= epoch'[Home(g)]
  BY <1>1, <1>2, <1>4, HomeType DEF Bounded
<1>6. \A g \in Gets : pc'[g] # "idle" => bound'[g] <= floor'[Home(g)][gkey'[g]]
  BY <1>1, <1>2, <1>3, HomeType DEF Bounded
<1>7. \A m \in unsent' : \A k \in Keys : m.ver[k] <= origin[k]
  BY <1>1 DEF Bounded
<1>8. \A n \in notices' : \A k \in Keys : n.ver[k] <= origin[k]
  BY Zenon DEF Bounded
<1> QED BY <1>2, <1>3, <1>5, <1>6, <1>7, <1>8, Zenon DEF Bounded

(***************************************************************************)
(* A mutation makes a new epoch, later than every snapshot.                 *)
(***************************************************************************)
LEMMA EpochGrows ==
    ASSUME epoch \in [Replicas -> Nat], gepoch \in [Gets -> Nat], NEW r \in Replicas,
           \A g \in Gets : gepoch[g] <= epoch[Home(g)], epoch' = [epoch EXCEPT ![r] = @ + 1]
    PROVE  \A g \in Gets : gepoch[g] <= epoch'[Home(g)]
BY HomeType

(***************************************************************************)
(* Calls that are under way may return the version that a Set writes.       *)
(***************************************************************************)
LEMMA LoweredBounds ==
    ASSUME bound \in [Gets -> Nat], NEW r \in Replicas, NEW k \in Keys, NEW v \in Nat, bound' = Lowered(r, k, v)
    PROVE  /\ bound' \in [Gets -> Nat]
           /\ \A g \in Gets : bound'[g] <= bound[g] /\ (Home(g) = r /\ gkey[g] = k => bound'[g] <= v)
BY DEF Lowered, Least

(***************************************************************************)
(* Set lowers its floor with the value it writes and makes a new epoch.     *)
(***************************************************************************)
LEMMA SetStep ==
    ASSUME Coherent, IInv, TypeOK', NEW r \in Replicas, NEW k \in Keys, NEW v \in Versions, Set(r, k, v)
    PROVE  IInv'
<1> USE HomeType, TwoTierAssumption DEF IInv
<1>1. Bounded'
  <2>1. /\ origin \in [Keys -> Nat] /\ epoch \in [Replicas -> Nat] /\ floor \in [Replicas -> [Keys -> Nat]]
        /\ gkey \in [Gets -> Keys] /\ gepoch \in [Gets -> Nat] /\ bound \in [Gets -> Nat] /\ v \in Nat
    BY DEF TypeOK, Versions
  <2>2. origin' = origin /\ pc' = pc /\ gkey' = gkey /\ gepoch' = gepoch /\ notices' = notices /\ v <= origin[k]
    BY Zenon DEF Set
  <2>3. \A s \in Replicas, j \in Keys : floor'[s][j] = IF s = r /\ j = k THEN v ELSE floor[s][j]
    BY <2>1 DEF Set
  <2>4. \A s \in Replicas, j \in Keys : floor'[s][j] <= origin[j]
    BY <2>2, <2>3, ZenonT(30) DEF Bounded
  <2>5. \A g \in Gets : pc[g] # "idle" => bound'[g] <= floor'[Home(g)][gkey[g]]
    <3>1. /\ bound' \in [Gets -> Nat]
          /\ \A g \in Gets : bound'[g] <= bound[g] /\ (Home(g) = r /\ gkey[g] = k => bound'[g] <= v)
      BY <2>1, LoweredBounds, Zenon DEF Set
    <3>2. \A g \in Gets : pc[g] # "idle" => bound[g] <= floor[Home(g)][gkey[g]]
      BY Zenon DEF Bounded
    <3> QED BY <2>1, <2>3, <3>1, <3>2
  <2>6. \A g \in Gets : gepoch[g] <= epoch'[Home(g)]
    BY <2>1, EpochGrows, Zenon DEF Set, Bounded
  <2>7. \A m \in unsent' : \A j \in Keys : m.ver[j] <= origin[j]
    <3>1. \A m \in unsent' : m \in unsent \/ m.ver = [origin EXCEPT ![k] = v]
      BY DEF Set
    <3>2. \A j \in Keys : [origin EXCEPT ![k] = v][j] <= origin[j]
      BY <2>1, <2>2
    <3> QED BY <3>1, <3>2, Zenon DEF Bounded
  <2> QED BY <2>2, <2>4, <2>5, <2>6, <2>7, Zenon DEF Bounded
<1>2. TiersFresh'
  <2>1. v \in Nat /\ v >= v
    BY DEF Versions
  <2>2. \A s \in Replicas, j \in Keys :
          IF s = r /\ j = k THEN l1'[s][j] = v /\ floor'[s][j] = v
                           ELSE l1'[s][j] = l1[s][j] /\ floor'[s][j] = floor[s][j]
    BY DEF Set, TypeOK
  <2>3. \A j \in Keys : l2'[j] = IF j = k /\ HasL2 THEN v ELSE l2[j]
    BY DEF Set, TypeOK
  <2>4. HasL2 => \A s \in Replicas : s = r
    BY DEF Coherent
  <2>5. \A s \in Replicas, j \in Keys : l1'[s][j] # Absent => l1'[s][j] >= floor'[s][j]
    BY <2>1, <2>2 DEF TiersFresh
  <2>6. CASE HasL2
    BY <2>1, <2>2, <2>3, <2>4, <2>5, <2>6 DEF Set, TiersFresh
  <2>7. CASE ~HasL2
    BY <2>3, <2>5, <2>7 DEF Set, TiersFresh, Absent
  <2> QED BY <2>6, <2>7
<1>3. FlightsFresh'
  <2>1. /\ epoch \in [Replicas -> Nat] /\ gepoch \in [Gets -> Nat] /\ floor \in [Replicas -> [Keys -> Nat]]
        /\ val \in [Gets -> Nat] /\ bound \in [Gets -> Nat] /\ bound' \in [Gets -> Nat]
    BY Zenon DEF TypeOK
  <2>2. pc' = pc /\ gkey' = gkey /\ gepoch' = gepoch /\ val' = val
    BY Zenon DEF Set
  <2>3. \A g \in Gets : bound'[g] <= bound[g]
    BY <2>1 DEF Set, Lowered, Least, Versions
  <2>4. \A g \in Gets : IsCurrent(g)' => IsCurrent(g) /\ floor'[Home(g)] = floor[Home(g)]
    BY <2>1, <2>2 DEF Set, Bounded, IsCurrent
  <2>5. \A g, h \in Gets : SameFlight(g, h)' => SameFlight(g, h)
    BY <2>2, Zenon DEF SameFlight
  <2>6. \A g, h \in Gets : val[g] >= bound[h] => val'[g] >= bound'[h]
    BY <2>1, <2>2, <2>3
  <2> QED BY <2>2, <2>4, <2>5, <2>6, Zenon DEF FlightsFresh
<1> QED BY <1>1, <1>2, <1>3

(***************************************************************************)
(* A Set whose reply is lost lowers the floor and keeps the epoch.          *)
(***************************************************************************)
LEMMA SetFailsStep ==
    ASSUME Coherent, IInv, TypeOK', NEW r \in Replicas, NEW k \in Keys, NEW v \in Versions, SetFails(r, k, v)
    PROVE  IInv'
<1> USE HomeType, TwoTierAssumption DEF IInv
<1>1. /\ origin \in [Keys -> Nat] /\ floor \in [Replicas -> [Keys -> Nat]]
      /\ gkey \in [Gets -> Keys] /\ val \in [Gets -> Nat] /\ bound \in [Gets -> Nat]
  BY Zenon DEF TypeOK
<1>2. v \in Nat
  BY DEF Versions
<1>3. /\ UNCHANGED <<origin, l1, epoch, pc, gkey, gepoch, val, unsent, notices>>
      /\ v <= origin[k] /\ HasL2 /\ l2' = [l2 EXCEPT ![k] = v]
  BY Zenon DEF SetFails
<1>4. \A s \in Replicas, j \in Keys :
        /\ floor'[s][j] \in Nat /\ floor'[s][j] <= floor[s][j]
        /\ floor'[s][j] = floor[s][j] \/ (s = r /\ j = k /\ floor'[s][j] = v)
        /\ s = r /\ j = k => floor'[s][j] <= v
  BY <1>1, <1>2 DEF SetFails, Least
<1>5. /\ bound' \in [Gets -> Nat]
      /\ \A g \in Gets : bound'[g] <= bound[g] /\ (Home(g) = r /\ gkey[g] = k => bound'[g] <= v)
  BY <1>1, <1>2, LoweredBounds, Zenon DEF SetFails
<1>6. Bounded'
  <2>1. \A s \in Replicas, j \in Keys : floor'[s][j] <= origin[j]
    BY <1>1, <1>4 DEF Bounded
  <2>2. \A g \in Gets : pc[g] # "idle" => bound[g] <= floor[Home(g)][gkey[g]]
    BY Zenon DEF Bounded
  <2>3. \A g \in Gets : pc[g] # "idle" => bound'[g] <= floor'[Home(g)][gkey[g]]
    BY <1>1, <1>2, <1>4, <1>5, <2>2
  <2> QED BY <1>3, <2>1, <2>3, Zenon DEF Bounded
<1>7. TiersFresh'
  <2>1. /\ \A s \in Replicas, j \in Keys : l1[s][j] # Absent => l1[s][j] >= floor[s][j]
        /\ \A s \in Replicas, j \in Keys : l2[j] >= 0 => l2[j] >= floor[s][j]
    BY Zenon DEF TiersFresh
  <2>2. \A s \in Replicas, j \in Keys : l1[s][j] # Absent => l1[s][j] >= floor'[s][j]
    BY <1>1, <1>4, <2>1 DEF TypeOK
  <2>3. \A j \in Keys : l2'[j] = IF j = k THEN v ELSE l2[j]
    BY <1>3 DEF TypeOK
  <2>4. \A s \in Replicas : s = r
    BY <1>3 DEF Coherent
  <2>5. \A s \in Replicas, j \in Keys : l2'[j] >= 0 => l2'[j] >= floor'[s][j]
    BY <1>1, <1>2, <1>4, <2>1, <2>3, <2>4, ZenonT(30) DEF TypeOK
  <2> QED BY <1>3, <2>2, <2>5, Zenon DEF TiersFresh
<1>8. FlightsFresh'
  <2>1. \A g, h \in Gets : val[g] >= bound[h] => val[g] >= bound'[h]
    BY <1>1, <1>5
  <2>2. \A g \in Gets, s \in Replicas, j \in Keys : val[g] >= floor[s][j] => val[g] >= floor'[s][j]
    BY <1>1, <1>4
  <2> QED BY <1>1, <1>3, <2>1, <2>2, ZenonT(30) DEF FlightsFresh, SameFlight, IsCurrent
<1> QED BY <1>6, <1>7, <1>8

(***************************************************************************)
(* Delete and InvalidatePrefix raise floors and make a new epoch.           *)
(***************************************************************************)
LEMMA InvalidateStep ==
    ASSUME Coherent, IInv, TypeOK', NEW r \in Replicas, NEW S \in SUBSET Keys, Invalidate(r, S)
    PROVE  IInv'
<1> USE HomeType, TwoTierAssumption DEF IInv
<1>1. Bounded'
  <2>1. origin \in [Keys -> Nat] /\ \A k \in Keys : origin[k] <= origin[k]
    BY DEF TypeOK
  <2>2. \A m \in unsent' : m \in unsent \/ m.ver = origin
    BY DEF Invalidate
  <2> QED BY <2>1, <2>2, RaisedBounded, Zenon DEF Invalidate
<1>2. TiersFresh'
  <2>1. \A s \in Replicas, j \in Keys : l1'[s][j] = IF s = r /\ j \in S THEN Absent ELSE l1[s][j]
    BY DEF Invalidate, Dropped, TypeOK
  <2>2. \A j \in Keys : l2'[j] = IF j \in S THEN Absent ELSE l2[j]
    BY Zenon DEF Invalidate, Dropped
  <2>3. \A s \in Replicas, j \in Keys : j \notin S \/ s # r => floor'[s][j] = floor[s][j]
    BY Zenon DEF Invalidate, Raised
  <2>4. ~(Absent >= 0)
    BY DEF Absent
  <2>5. notices' = notices
    BY Zenon DEF Invalidate
  <2> QED BY <2>1, <2>2, <2>3, <2>4, <2>5, ZenonT(60) DEF TiersFresh
<1>3. FlightsFresh'
  <2>1. \A s \in Replicas : s # r => \A k \in Keys : floor'[s][k] = floor[s][k]
    BY Zenon DEF Invalidate, Raised
  <2> QED BY <2>1, Fences, Zenon DEF Invalidate
<1> QED BY <1>1, <1>2, <1>3

(***************************************************************************)
(* A reconnect empties L1 and makes a new epoch.                            *)
(***************************************************************************)
LEMMA ReconnectedStep ==
    ASSUME Coherent, IInv, TypeOK', NEW r \in Replicas, Reconnected(r)
    PROVE  IInv'
<1> USE HomeType, TwoTierAssumption DEF IInv
<1>1. Bounded'
  <2>1. epoch \in [Replicas -> Nat] /\ gepoch \in [Gets -> Nat]
    BY Zenon DEF TypeOK
  <2>2. /\ epoch' = [epoch EXCEPT ![r] = @ + 1] /\ notices' \subseteq notices
        /\ UNCHANGED <<origin, floor, unsent, pc, gkey, gepoch, bound>>
    BY Zenon DEF Reconnected, Fenced, getVars
  <2>3. \A g \in Gets : gepoch[g] <= epoch'[Home(g)]
    BY <2>1, <2>2, EpochGrows, Zenon DEF Bounded
  <2> QED BY <2>2, <2>3, Zenon DEF Bounded
<1>2. TiersFresh'
  BY DEF Reconnected, Dropped, TiersFresh, TypeOK
<1>3. FlightsFresh'
  BY Fences, Zenon DEF Reconnected, Fenced
<1> QED BY <1>1, <1>2, <1>3

(***************************************************************************)
(* A failed invalidation only removes entries of L2.                        *)
(***************************************************************************)
LEMMA InvalidateFailsStep ==
    ASSUME Coherent, IInv, TypeOK', NEW S \in SUBSET Keys, InvalidateFails(S)
    PROVE  IInv'
<1> USE HomeType DEF IInv
<1>1. Bounded'
  BY Zenon DEF InvalidateFails, Bounded, getVars
<1>2. TiersFresh'
  BY DEF InvalidateFails, Dropped, Absent, TiersFresh, TypeOK
<1>3. FlightsFresh'
  BY FlightsUntouched DEF InvalidateFails
<1> QED BY <1>1, <1>2, <1>3

(***************************************************************************)
(* A lone replica over an L2 sends no notice.                               *)
(***************************************************************************)
LEMMA BroadcastStep ==
    ASSUME Coherent, IInv, TypeOK', NEW m \in unsent, Broadcast(m)
    PROVE  IInv'
<1> USE HomeType DEF IInv
<1>1. PICK S \in SUBSET (Replicas \ {m.from}) :
        notices' = notices \cup {[to |-> r, keys |-> m.keys, ver |-> m.ver] : r \in S}
  BY DEF Broadcast
<1>2. \A n \in notices' : n \in notices \/ n.ver = m.ver
  BY <1>1
<1>3. UNCHANGED <<origin, l1, l2, epoch, floor, getVars>> /\ unsent' \subseteq unsent
  BY ZenonT(30) DEF Broadcast
<1>4. Bounded'
  BY <1>2, <1>3, Zenon DEF Bounded, getVars
<1>5. TiersFresh'
  <2>1. HasL2 => S = {}
    BY DEF TypeOK, Mutations, Coherent
  <2>2. HasL2 => notices' = {}
    BY <1>1, <2>1, ZenonT(30) DEF TiersFresh
  <2> QED BY <1>3, <2>2, Zenon DEF TiersFresh
<1>6. FlightsFresh'
  BY <1>3, FlightsUntouched
<1> QED BY <1>4, <1>5, <1>6

(***************************************************************************)
(* A notice raises floors and makes a new epoch.                            *)
(***************************************************************************)
LEMMA ApplyStep ==
    ASSUME Coherent, IInv, TypeOK', NEW n \in notices, ApplyInvalidation(n)
    PROVE  IInv'
<1> USE HomeType DEF IInv
<1>1. n.to \in Replicas /\ n.ver \in [Keys -> Nat] /\ ~HasL2
  BY DEF Notices, TypeOK, TiersFresh
<1>2. Bounded'
  <2>1. n.keys \in SUBSET Keys
    BY DEF Notices, TypeOK
  <2>2. \A k \in Keys : n.ver[k] <= origin[k]
    BY Zenon DEF Bounded
  <2>3. notices' \subseteq notices /\ unsent' = unsent /\ UNCHANGED <<origin, getVars>>
    BY Zenon DEF ApplyInvalidation
  <2> QED BY <1>1, <2>1, <2>2, <2>3, RaisedBounded, Zenon DEF ApplyInvalidation, Fenced
<1>3. TiersFresh'
  <2>1. \A s \in Replicas, j \in Keys : l1'[s][j] = IF s = n.to /\ j \in n.keys THEN Absent ELSE l1[s][j]
    BY <1>1, ZenonT(30) DEF ApplyInvalidation, Dropped, TypeOK
  <2>2. \A s \in Replicas, j \in Keys : ~(s = n.to /\ j \in n.keys) => floor'[s][j] = floor[s][j]
    BY Zenon DEF ApplyInvalidation, Raised
  <2>3. l2' = l2 /\ \A j \in Keys : l2[j] = Absent
    BY <1>1, Zenon DEF ApplyInvalidation, TiersFresh
  <2>4. ~(Absent >= 0)
    BY DEF Absent
  <2> QED BY <1>1, <2>1, <2>2, <2>3, <2>4, ZenonT(30) DEF TiersFresh
<1>4. FlightsFresh'
  <2>1. \A s \in Replicas : s # n.to => \A k \in Keys : floor'[s][k] = floor[s][k]
    BY Zenon DEF ApplyInvalidation, Raised
  <2> QED BY <1>1, <2>1, Fences, Zenon DEF ApplyInvalidation, Fenced
<1> QED BY <1>2, <1>3, <1>4

(***************************************************************************)
(* The origin only grows.                                                   *)
(***************************************************************************)
LEMMA UpdateStep ==
    ASSUME Coherent, IInv, TypeOK', NEW k \in Keys, Update(k)
    PROVE  IInv'
<1> USE HomeType DEF IInv
<1>1. Bounded'
  <2>1. \A j \in Keys : origin[j] <= origin'[j] /\ origin[j] \in Nat /\ origin'[j] \in Nat
    BY DEF Update, TypeOK
  <2>2. \A i \in Nat, j \in Keys : i <= origin[j] => i <= origin'[j]
    BY <2>1
  <2>3. /\ \A m \in unsent : \A j \in Keys : m.ver[j] \in Nat
        /\ \A n \in notices : \A j \in Keys : n.ver[j] \in Nat
    BY DEF TypeOK, Mutations, Notices
  <2>4. \A r \in Replicas, j \in Keys : floor[r][j] \in Nat
    BY DEF TypeOK
  <2>5. UNCHANGED <<epoch, floor, getVars, unsent, notices>>
    BY Zenon DEF Update
  <2> QED BY <2>2, <2>3, <2>4, <2>5, ZenonT(30) DEF Bounded, getVars
<1>2. TiersFresh'
  BY DEF Update, TiersFresh
<1>3. FlightsFresh'
  BY FlightsUntouched DEF Update
<1> QED BY <1>1, <1>2, <1>3

(***************************************************************************)
(* Expiry and corruption of an L2 entry.                                    *)
(***************************************************************************)
LEMMA L2ChangesStep ==
    ASSUME Coherent, IInv, TypeOK', NEW k \in Keys, L2Changes(k)
    PROVE  IInv'
<1> USE HomeType DEF IInv
<1>1. Bounded'
  BY Zenon DEF L2Changes, Bounded, getVars
<1>2. TiersFresh'
  BY DEF L2Changes, Absent, Corrupt, TiersFresh, TypeOK
<1>3. FlightsFresh'
  BY FlightsUntouched DEF L2Changes
<1> QED BY <1>1, <1>2, <1>3

(***************************************************************************)
(* Expiry of an L1 entry.                                                   *)
(***************************************************************************)
LEMMA L1ExpiresStep ==
    ASSUME Coherent, IInv, TypeOK', NEW r \in Replicas, NEW k \in Keys, L1Expires(r, k)
    PROVE  IInv'
<1> USE HomeType DEF IInv
<1>1. Bounded'
  BY DEF L1Expires, Bounded, getVars
<1>2. TiersFresh'
  BY ZenonT(30) DEF L1Expires, TiersFresh, TypeOK
<1>3. FlightsFresh'
  BY FlightsUntouched DEF L1Expires
<1> QED BY <1>1, <1>2, <1>3

(***************************************************************************)
(* Stuttering.                                                             *)
(***************************************************************************)
LEMMA Stutter ==
    ASSUME IInv, UNCHANGED vars
    PROVE  IInv'
<1>1. TypeOK'
  BY DEF vars, IInv, TypeOK
<1>2. Bounded'
  BY DEF vars, IInv, Bounded
<1>3. TiersFresh'
  BY DEF vars, IInv, TiersFresh
<1>4. FlightsFresh'
  BY FlightsUntouched, Zenon DEF vars, getVars, IInv
<1> QED BY <1>1, <1>2, <1>3, <1>4, Zenon DEF IInv

(***************************************************************************)
(* The variables of the cache keep their types, in every configuration.    *)
(***************************************************************************)
THEOREM TwoTierTypes == Spec => []TypeOK
<1>1. Init => TypeOK
  BY InitIInv DEF IInv
<1> QED BY <1>1, TypeStep, PTL DEF Spec

(***************************************************************************)
(* With one replica over an L2, or any number of replicas without one, a    *)
(* Get never serves a version older than the last Delete, InvalidatePrefix  *)
(* or Set of its replica, or the last notice it applied, allows: the epoch  *)
(* of setL1IfCurrent and setL2IfCurrent fences every load in flight.        *)
(***************************************************************************)
THEOREM TwoTierFresh ==
    ASSUME Coherent
    PROVE  Spec => []GetsAreFresh
<1>1. IInv /\ [Next]_vars => IInv'
  <2> SUFFICES ASSUME IInv, [Next]_vars PROVE IInv'
    OBVIOUS
  <2>1. TypeOK'
    BY TypeStep, Zenon DEF IInv
  <2> QED
    BY <2>1, Stutter, GetStart, DoStep, LoadL2Step, LoadStep, StoreL2Step, FillL1Step, SetStep, SetFailsStep,
       InvalidateStep, ReconnectedStep, InvalidateFailsStep, BroadcastStep, ApplyStep, UpdateStep,
       L2ChangesStep, L1ExpiresStep
    DEF Next, ReadsAndInvalidations, Sets, GetStep
<1>2. IInv => GetsAreFresh
  <2> SUFFICES ASSUME IInv PROVE GetsAreFresh
    OBVIOUS
  <2>1. DOMAIN l1 = Replicas /\ DOMAIN pc = Gets
    BY Zenon DEF IInv, TypeOK
  <2> QED BY <2>1, Zenon DEF IInv, TiersFresh, FlightsFresh, GetsAreFresh
<1> QED BY <1>1, <1>2, InitIInv, PTL DEF Spec

-----------------------------------------------------------------------------
(***************************************************************************)
(* Flights.  A step that leaves the calls of Get where they are changes     *)
(* none; one that ends a flight ends it for all who wait for it.            *)
(***************************************************************************)
LEMMA FlightsStay ==
  ASSUME FlightsAreLed, UNCHANGED <<pc, gkey, gepoch>>
  PROVE  FlightsAreLed'
BY Zenon DEF FlightsAreLed, SameFlight

LEMMA OneCallMoves ==
  ASSUME TypeOK, FlightsAreLed, NEW g \in Gets, NEW to, UNCHANGED <<gkey, gepoch>>, pc' = [pc EXCEPT ![g] = to],
         (pc[g] \in Running <=> to \in Running) /\ (to = "wait" => pc[g] = "wait")
  PROVE  FlightsAreLed'
<1>1. \A h \in Gets : (pc'[h] \in Running <=> pc[h] \in Running) /\ (pc'[h] = "wait" => pc[h] = "wait")
  BY Zenon DEF TypeOK
<1> QED BY <1>1, Zenon DEF FlightsAreLed, SameFlight

LEMMA FlightEnds ==
  ASSUME TypeOK, FlightsAreLed, NEW g \in Gets, pc[g] \in Running, NEW to \in {"fill", "idle"},
         pc' = [h \in Gets |-> IF h \in Riders(g) THEN to ELSE pc[h]], UNCHANGED <<gkey, gepoch>>
  PROVE  FlightsAreLed'
<1>1. to \notin Running /\ to # "wait"
  BY DEF Running
<1>2. \A h \in Gets : pc'[h] \in Running \cup {"wait"} => h \notin Riders(g) /\ pc'[h] = pc[h]
  BY <1>1, Zenon
<1>3. \A h, i \in Gets : pc'[h] \in Running /\ pc'[i] \in Running /\ SameFlight(h, i)' => h = i
  BY <1>2, Zenon DEF FlightsAreLed, SameFlight
<1>4. ASSUME NEW h \in Gets, pc'[h] = "wait" PROVE \E i \in Gets : pc'[i] \in Running /\ SameFlight(h, i)'
  <2>1. pc[h] = "wait" /\ h \notin Riders(g)
    BY <1>2, <1>4, Zenon
  <2>2. PICK i \in Gets : pc[i] \in Running /\ SameFlight(h, i)
    BY <2>1, Zenon DEF FlightsAreLed
  <2>3. i # g
    BY <2>1, <2>2, Zenon DEF Riders, SameFlight
  <2>4. pc'[i] = pc[i]
    BY <2>2, <2>3, Zenon DEF Riders, Running
  <2> QED BY <2>2, <2>4, Zenon DEF SameFlight
<1> QED BY <1>3, <1>4, Zenon DEF FlightsAreLed

LEMMA CallSteps ==
  ASSUME TypeOK, FlightsAreLed, NEW g \in Gets, (\E k \in Keys : Get(g, k)) \/ GetStep(g)
  PROVE  FlightsAreLed'
<1>0. "miss" \notin Running /\ "idle" \notin Running /\ "fill" \notin Running /\ "wait" \notin Running
      /\ "l2" \in Running /\ "load" \in Running /\ "store" \in Running
  BY DEF Running
<1>1. ASSUME NEW k \in Keys, Get(g, k) PROVE FlightsAreLed'
  <2>1. pc[g] = "idle" /\ pc'[g] = "miss"
    BY <1>1, ZenonT(30) DEF Get, TypeOK
  <2>2. \A h \in Gets \ {g} : pc'[h] = pc[h] /\ gkey'[h] = gkey[h] /\ gepoch'[h] = gepoch[h]
    BY <1>1 DEF Get, TypeOK
  <2>3. \A h, i \in Gets : pc'[h] \in Running /\ pc'[i] \in Running /\ SameFlight(h, i)' => h = i
    <3> SUFFICES ASSUME NEW h \in Gets, NEW i \in Gets, pc'[h] \in Running, pc'[i] \in Running, SameFlight(h, i)'
                 PROVE  h = i
      BY Zenon
    <3>1. h # g /\ i # g
      BY <1>0, <2>1, Zenon
    <3>2. pc[h] \in Running /\ pc[i] \in Running /\ SameFlight(h, i)
      BY <2>2, <3>1, Zenon DEF SameFlight
    <3> QED BY <3>2, Zenon DEF FlightsAreLed
  <2>4. \A h \in Gets : pc'[h] = "wait" => \E i \in Gets : pc'[i] \in Running /\ SameFlight(h, i)'
    <3> SUFFICES ASSUME NEW h \in Gets, pc'[h] = "wait" PROVE \E i \in Gets : pc'[i] \in Running /\ SameFlight(h, i)'
      OBVIOUS
    <3>1. h # g /\ pc[h] = "wait"
      BY <2>1, <2>2
    <3>2. PICK i \in Gets : pc[i] \in Running /\ SameFlight(h, i)
      BY <3>1, Zenon DEF FlightsAreLed
    <3>3. i # g
      BY <1>0, <2>1, <3>2, Zenon
    <3> QED BY <2>2, <3>1, <3>2, <3>3, Zenon DEF SameFlight
  <2> QED BY <2>3, <2>4, Zenon DEF FlightsAreLed
<1>2. CASE Do(g)
  <2>0. pc[g] = "miss" /\ UNCHANGED <<gkey, gepoch>> /\ \A h \in Gets \ {g} : pc'[h] = pc[h]
    BY <1>2 DEF Do, TypeOK
  <2>1. CASE \E h \in Gets : pc[h] \in Running /\ SameFlight(g, h)
    <3>1. pc'[g] = "wait"
      BY <1>2, <2>1, Zenon DEF Do, TypeOK
    <3>2. \A h \in Gets : pc'[h] \in Running <=> pc[h] \in Running
      BY <1>0, <2>0, <3>1, Zenon
    <3>3. \A h \in Gets : pc'[h] = "wait" => h = g \/ pc[h] = "wait"
      BY <2>0, Zenon
    <3>4. ASSUME NEW h \in Gets, pc'[h] = "wait" PROVE \E i \in Gets : pc[i] \in Running /\ SameFlight(h, i)
      <4>1. CASE h = g
        BY <2>1, <4>1
      <4>2. CASE pc[h] = "wait"
        BY <4>2, Zenon DEF FlightsAreLed
      <4> QED BY <3>3, <3>4, <4>1, <4>2, Zenon
    <3> QED BY <2>0, <3>2, <3>4, Zenon DEF FlightsAreLed, SameFlight
  <2>2. CASE ~\E h \in Gets : pc[h] \in Running /\ SameFlight(g, h)
    <3>1. pc'[g] = "l2"
      BY <1>2, <2>2, Zenon DEF Do, TypeOK
    <3>2. \A h \in Gets : (pc[h] \in Running => pc'[h] \in Running) /\ (pc'[h] = "wait" => pc[h] = "wait")
      BY <1>0, <2>0, <3>1, Zenon
    <3>3. \A h \in Gets : pc'[h] \in Running /\ h # g => ~SameFlight(g, h) /\ ~SameFlight(h, g) /\ pc[h] \in Running
      BY <2>0, <2>2, Zenon DEF SameFlight
    <3>4. ASSUME NEW h \in Gets, NEW i \in Gets, pc'[h] \in Running, pc'[i] \in Running, SameFlight(h, i)
          PROVE  h = i
      <4>1. CASE h = g \/ i = g
        BY <3>3, <3>4, <4>1, Zenon
      <4>2. CASE h # g /\ i # g
        BY <3>3, <3>4, <4>2, Zenon DEF FlightsAreLed
      <4> QED BY <4>1, <4>2
    <3> QED BY <2>0, <3>2, <3>4, Zenon DEF FlightsAreLed, SameFlight
  <2> QED BY <2>1, <2>2
<1>3. CASE LoadL2(g)
  <2>1. CASE EndFlight(g, l2[gkey[g]])
    BY <1>0, <1>3, <2>1, FlightEnds, ZenonT(30) DEF LoadL2, EndFlight
  <2>2. CASE pc' = [pc EXCEPT ![g] = "load"] /\ UNCHANGED <<gkey, gepoch>>
    BY <1>0, <1>3, <2>2, OneCallMoves, Zenon DEF LoadL2
  <2> QED BY <1>3, <2>1, <2>2 DEF LoadL2
<1>4. CASE Load(g)
  <2>1. CASE FailFlight(g)
    BY <1>0, <1>4, <2>1, FlightEnds, Zenon DEF Load, FailFlight
  <2>2. CASE pc' = [pc EXCEPT ![g] = "store"] /\ UNCHANGED <<gkey, gepoch>>
    BY <1>0, <1>4, <2>2, OneCallMoves, Zenon DEF Load
  <2> QED BY <1>4, <2>1, <2>2 DEF Load
<1>5. CASE StoreL2(g)
  BY <1>0, <1>5, FlightEnds DEF StoreL2, EndFlight
<1>6. CASE FillL1(g)
  BY <1>0, <1>6, OneCallMoves, Zenon DEF FillL1
<1> QED BY <1>1, <1>2, <1>3, <1>4, <1>5, <1>6 DEF GetStep

(***************************************************************************)
(* In every configuration, for any number of replicas, calls and keys: a    *)
(* key is loaded at most once at a time within an epoch, and whoever waits, *)
(* waits for a flight that is under way (singleflight.Do in Get).           *)
(***************************************************************************)
THEOREM TwoTierFlights == Spec => []FlightsAreLed
<1>1. Init => FlightsAreLed
  BY DEF Init, FlightsAreLed, Running
<1>2. TypeOK /\ FlightsAreLed /\ [Next]_vars => FlightsAreLed'
  <2> SUFFICES ASSUME TypeOK, FlightsAreLed, [Next]_vars PROVE FlightsAreLed'
    OBVIOUS
  <2>1. ASSUME NEW g \in Gets, (\E k \in Keys : Get(g, k)) \/ GetStep(g) PROVE FlightsAreLed'
    BY <2>1, CallSteps
  <2>2. CASE Sets
    BY <2>2, FlightsStay DEF Sets, Set, SetFails
  <2>3. CASE \/ \E r \in Replicas : Reconnected(r) \/ \E S \in SUBSET Keys : Invalidate(r, S)
             \/ \E S \in SUBSET Keys : InvalidateFails(S)
             \/ \E m \in unsent : Broadcast(m)
             \/ \E n \in notices : ApplyInvalidation(n)
             \/ \E k \in Keys : Update(k) \/ L2Changes(k) \/ \E r \in Replicas : L1Expires(r, k)
    <3>1. UNCHANGED getVars
      BY <2>3, Zenon DEF Reconnected, Invalidate, InvalidateFails, Broadcast, ApplyInvalidation, Update, L2Changes, L1Expires
    <3> QED BY <3>1, FlightsStay DEF getVars
  <2>4. CASE UNCHANGED vars
    BY <2>4, FlightsStay DEF vars
  <2> QED BY <2>1, <2>2, <2>3, <2>4, Zenon DEF Next, ReadsAndInvalidations
<1> QED BY <1>1, <1>2, TwoTierTypes, PTL DEF Spec
=============================================================================
