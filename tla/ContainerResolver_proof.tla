----------------------- MODULE ContainerResolver_proof -----------------------
(***************************************************************************)
(* The safety properties of ContainerResolver for any number of callers,   *)
(* cgroups and containers, and any intervals.                              *)
(***************************************************************************)
EXTENDS ContainerResolver, TLAPS

\* A call whose key the table has had since its start has not missed.
KnownInv ==
    \A c \in Callers : known[c] =>
        /\ pc[c] \in {"load", "returned"}
        /\ cgroupTable[key[c]] # NotContainer
        /\ pc[c] = "returned" => value[c] # NotContainer

\* The directory of a cgroup that has had its container all along is still to
\* be visited or was found, and the table that is stored has it.
WalkInv ==
    \A c \in Callers : steady[c] =>
        /\ cgroup[key[c]] # NotContainer
        /\ pc[c] = "walk" => key[c] \in visit \/ renew[key[c]] # NotContainer
        /\ pc[c] \in {"stored", "renewed"} => cgroupTable[key[c]] # NotContainer

IInv == TypeOK /\ KnownInv /\ WalkInv

\* NewContainerResolver and the fields of a call that has not begun satisfy
\* the invariant.
LEMMA InitInv == Init => IInv
BY ResolverAssumption
   DEF Init, IInv, TypeOK, KnownInv, WalkInv, NewContainerResolver, Values, None

\* Types, and the mutex: its holder is the one caller between Lock and the end
\* of Resolve.
LEMMA NextTypeOK == IInv /\ [Next]_vars => TypeOK'
<1> SUFFICES ASSUME IInv, [Next]_vars PROVE TypeOK'
  OBVIOUS
<1> USE ResolverAssumption DEF IInv, TypeOK, Values, None, resolver, walk, history
<1>1. CASE Tick
  BY <1>1 DEF Tick
<1>2. ASSUME NEW g \in Cgroups, NEW v \in Values, Change(g, v) PROVE TypeOK'
  BY <1>2 DEF Change
<1>3. ASSUME NEW c \in Callers, NEW g \in Cgroups, Call(c, g) PROVE TypeOK'
  BY <1>3 DEF Call, At
<1>4. ASSUME NEW c \in Callers, Use(c) PROVE TypeOK'
  BY <1>4 DEF Use, At
<1>5. ASSUME NEW c \in Callers, load(c) PROVE TypeOK'
  BY <1>5 DEF load, Return
<1>6. ASSUME NEW c \in Callers, GetIfPresent(c) PROVE TypeOK'
  BY <1>6 DEF GetIfPresent, Return
<1>7. ASSUME NEW c \in Callers, CheckTime(c) PROVE TypeOK'
  BY <1>7 DEF CheckTime, Return
<1>8. ASSUME NEW c \in Callers, Lock(c) PROVE TypeOK'
  BY <1>8 DEF Lock, Return, Unlocked, NewContainerResolver
<1>9. ASSUME NEW c \in Callers, NEW g \in Cgroups, Visit(c, g) PROVE TypeOK'
  BY <1>9 DEF Visit
<1>10. ASSUME NEW c \in Callers, StoreTable(c) PROVE TypeOK'
  BY <1>10 DEF StoreTable, At
<1>11. ASSUME NEW c \in Callers, StoreTime(c) PROVE TypeOK'
  BY <1>11 DEF StoreTime, At
<1>12. ASSUME NEW c \in Callers, WalkFails(c) PROVE TypeOK'
  BY <1>12 DEF WalkFails, At
<1>13. ASSUME NEW c \in Callers, Finish(c) PROVE TypeOK'
  BY <1>13 DEF Finish, Return
<1>14. CASE UNCHANGED vars
  BY <1>14 DEF vars
<1> QED
  BY <1>1, <1>2, <1>3, <1>4, <1>5, <1>6, <1>7, <1>8, <1>9, <1>10, <1>11, <1>12, <1>13, <1>14
     DEF Next, Resolve

\* Only load answers a call that is known, and StoreTable keeps the history true.
LEMMA NextKnownInv == IInv /\ [Next]_vars => KnownInv'
<1> SUFFICES ASSUME IInv, [Next]_vars PROVE KnownInv'
  OBVIOUS
<1> USE ResolverAssumption DEF IInv, TypeOK, KnownInv, Values, resolver, walk, history
<1>1. CASE Tick
  BY <1>1 DEF Tick
<1>2. ASSUME NEW g \in Cgroups, NEW v \in Values, Change(g, v) PROVE KnownInv'
  BY <1>2 DEF Change
<1>3. ASSUME NEW c \in Callers, NEW g \in Cgroups, Call(c, g) PROVE KnownInv'
  BY <1>3 DEF Call, At
<1>4. ASSUME NEW c \in Callers, Use(c) PROVE KnownInv'
  BY <1>4 DEF Use, At
<1>5. ASSUME NEW c \in Callers, load(c) PROVE KnownInv'
  BY <1>5 DEF load, Return
<1>6. ASSUME NEW c \in Callers, GetIfPresent(c) PROVE KnownInv'
  BY <1>6 DEF GetIfPresent, Return
<1>7. ASSUME NEW c \in Callers, CheckTime(c) PROVE KnownInv'
  BY <1>7 DEF CheckTime, Return
<1>8. ASSUME NEW c \in Callers, Lock(c) PROVE KnownInv'
  BY <1>8 DEF Lock, Return, Unlocked
<1>9. ASSUME NEW c \in Callers, NEW g \in Cgroups, Visit(c, g) PROVE KnownInv'
  BY <1>9 DEF Visit
<1>10. ASSUME NEW c \in Callers, StoreTable(c) PROVE KnownInv'
  BY <1>10 DEF StoreTable, At
<1>11. ASSUME NEW c \in Callers, StoreTime(c) PROVE KnownInv'
  BY <1>11 DEF StoreTime, At
<1>12. ASSUME NEW c \in Callers, WalkFails(c) PROVE KnownInv'
  BY <1>12 DEF WalkFails, At
<1>13. ASSUME NEW c \in Callers, Finish(c) PROVE KnownInv'
  BY <1>13 DEF Finish, Return
<1>14. CASE UNCHANGED vars
  BY <1>14 DEF vars
<1> QED
  BY <1>1, <1>2, <1>3, <1>4, <1>5, <1>6, <1>7, <1>8, <1>9, <1>10, <1>11, <1>12, <1>13, <1>14
     DEF Next, Resolve

\* Visit meets the container of a steady key; no other caller walks or stores
\* while the mutex is held.
LEMMA NextWalkInv == IInv /\ [Next]_vars => WalkInv'
<1> SUFFICES ASSUME IInv, [Next]_vars PROVE WalkInv'
  OBVIOUS
<1> USE ResolverAssumption DEF IInv, TypeOK, WalkInv, Values, resolver, walk, history
<1>1. CASE Tick
  BY <1>1 DEF Tick
<1>2. ASSUME NEW g \in Cgroups, NEW v \in Values, Change(g, v) PROVE WalkInv'
  BY <1>2 DEF Change
<1>3. ASSUME NEW c \in Callers, NEW g \in Cgroups, Call(c, g) PROVE WalkInv'
  BY <1>3 DEF Call, At
<1>4. ASSUME NEW c \in Callers, Use(c) PROVE WalkInv'
  BY <1>4 DEF Use, At
<1>5. ASSUME NEW c \in Callers, load(c) PROVE WalkInv'
  BY <1>5 DEF load, Return
<1>6. ASSUME NEW c \in Callers, GetIfPresent(c) PROVE WalkInv'
  BY <1>6 DEF GetIfPresent, Return
<1>7. ASSUME NEW c \in Callers, CheckTime(c) PROVE WalkInv'
  BY <1>7 DEF CheckTime, Return
<1>8. ASSUME NEW c \in Callers, Lock(c) PROVE WalkInv'
  BY <1>8 DEF Lock, Return, Unlocked
<1>9. ASSUME NEW c \in Callers, NEW g \in Cgroups, Visit(c, g) PROVE WalkInv'
  BY <1>9 DEF Visit
<1>10. ASSUME NEW c \in Callers, StoreTable(c) PROVE WalkInv'
  BY <1>10 DEF StoreTable, At
<1>11. ASSUME NEW c \in Callers, StoreTime(c) PROVE WalkInv'
  BY <1>11 DEF StoreTime, At
<1>12. ASSUME NEW c \in Callers, WalkFails(c) PROVE WalkInv'
  BY <1>12 DEF WalkFails, At
<1>13. ASSUME NEW c \in Callers, Finish(c) PROVE WalkInv'
  BY <1>13 DEF Finish, Return
<1>14. CASE UNCHANGED vars
  BY <1>14 DEF vars
<1> QED
  BY <1>1, <1>2, <1>3, <1>4, <1>5, <1>6, <1>7, <1>8, <1>9, <1>10, <1>11, <1>12, <1>13, <1>14
     DEF Next, Resolve

\* The invariant holds in every state of every behaviour.
THEOREM Invariance == Spec => []IInv
<1>1. IInv /\ [Next]_vars => IInv'
  BY NextTypeOK, NextKnownInv, NextWalkInv DEF IInv
<1> QED
  BY InitInv, <1>1, PTL DEF Spec

\* Resolve never lets two callers into the part its mutex guards, and never
\* leaves that part with the mutex held.
THEOREM TypeCorrect == Spec => []TypeOK
<1>1. IInv => TypeOK
  BY DEF IInv
<1> QED
  BY Invariance, <1>1, PTL

\* Resolve answers a cgroup that cgroupTable has during the whole call with a
\* container.
THEOREM KnownTheorem == Spec => []KnownAnswered
<1>1. IInv => KnownAnswered
  BY DEF IInv, KnownInv, KnownAnswered
<1> QED
  BY Invariance, <1>1, PTL

\* However many callers miss at the same time, update runs only when
\* nextUpdateTime has come.
THEOREM SpacedTheorem == Spec => WalksSpaced
<1>1. IInv /\ [Next]_vars =>
        [\A c \in Callers : pc[c] # "walk" /\ pc'[c] = "walk" => now >= nextUpdateTime]_vars
  <2> SUFFICES ASSUME IInv, Next, NEW c \in Callers, pc[c] # "walk", pc'[c] = "walk"
               PROVE now >= nextUpdateTime
    OBVIOUS
  <2> USE DEF IInv, TypeOK
  <2>1. Lock(c)
    BY SMTT(30) DEF Next, Tick, Change, Resolve, Use, Call, load, GetIfPresent, CheckTime, Lock, Visit,
           StoreTable, StoreTime, WalkFails, Finish, At, Return
  <2> QED
    BY <2>1, ResolverAssumption DEF Lock, Return, TooSoon
<1> QED
  BY Invariance, <1>1, PTL DEF Spec, WalksSpaced

\* Resolve does not put into nonContainer a cgroup that has had its container
\* since the call began.
THEOREM NegativeTheorem == Spec => NegativeEarned
<1>1. IInv /\ [Next]_vars =>
        [\A c \in Callers :
            steady[c] /\ pc[c] \in {"renewed", "failed"} /\ pc'[c] = "returned" =>
                nonContainer'[key[c]] = nonContainer[key[c]]]_vars
  <2> SUFFICES ASSUME IInv, Next, NEW c \in Callers, steady[c],
                      pc[c] \in {"renewed", "failed"}, pc'[c] = "returned"
               PROVE nonContainer'[key[c]] = nonContainer[key[c]]
    OBVIOUS
  <2> USE DEF IInv, TypeOK
  <2>1. Finish(c)
    BY SMTT(30) DEF Next, Tick, Change, Resolve, Use, Call, load, GetIfPresent, CheckTime, Lock, Visit,
           StoreTable, StoreTime, WalkFails, Finish, At, Return
  <2>2. ~Records(c)
    BY DEF WalkInv, Records
  <2> QED
    BY <2>1, <2>2 DEF Finish
<1> QED
  BY Invariance, <1>1, PTL DEF Spec, NegativeEarned
=============================================================================
