-------------------------- MODULE ContainerResolver --------------------------
(***************************************************************************)
(* internal/container/containerid.go: the table from cgroup ids to         *)
(* container ids that the probes share.  A caller is a goroutine inside    *)
(* Resolve; steps are the loads and stores of the atomics, and the visits  *)
(* of filepath.WalkDir, so that callers, containers that come and go and   *)
(* the clock interleave.                                                   *)
(***************************************************************************)
EXTENDS Naturals, FiniteSets

CONSTANTS
    Callers, Cgroups, Containers,
    NotContainer,            \* a cgroup without a container, and not in a table
    updateInterval, updateIntervalOnError,
    Expiry,                  \* of an entry of nonContainer
    MaxTime,                 \* bound on the clock
    MaxChanges               \* bound on changes of the cgroups

None == "none"

ASSUME ResolverAssumption ==
    /\ NotContainer \notin Containers
    /\ None \notin Callers
    /\ {updateInterval, updateIntervalOnError, Expiry, MaxTime, MaxChanges} \subseteq Nat

VARIABLES
    now,
    cgroup,          \* what each cgroup id belongs to, in /sys/fs/cgroup
    changes,
    cgroupTable, nonContainer, nextUpdateTime,
    mu,              \* who holds the mutex
    pc, key, value,  \* of each caller: where it is, its argument and its result
    renew, visit,    \* of the walk: what it has found and has yet to visit
    ended,           \* and when it ended
    known, steady    \* history of each call: the table has had its key, and the
                     \* key has had its container, from the start of the call

resolver == <<cgroupTable, nonContainer, nextUpdateTime>>
walk == <<renew, visit, ended>>
history == <<known, steady>>
vars == <<now, cgroup, changes, resolver, mu, pc, key, value, walk, history>>

Values == Containers \cup {NotContainer}

NewContainerResolver == [g \in Cgroups |-> NotContainer]

Init ==
    /\ now = 0
    /\ cgroup \in [Cgroups -> Values]
    /\ changes = 0
    /\ cgroupTable = NewContainerResolver
    /\ nonContainer = [g \in Cgroups |-> 0]   \* the time an entry expires
    /\ nextUpdateTime = 0
    /\ mu = None
    /\ pc = [c \in Callers |-> "idle"]
    /\ key \in [Callers -> Cgroups]
    /\ value = [c \in Callers |-> NotContainer]
    /\ renew = NewContainerResolver
    /\ visit = {}
    /\ ended = 0
    /\ known = [c \in Callers |-> FALSE]
    /\ steady = [c \in Callers |-> FALSE]

-----------------------------------------------------------------------------
\* The clock, which counts up to its bound.
Tick ==
    /\ now' = IF now < MaxTime THEN now + 1 ELSE now
    /\ UNCHANGED <<cgroup, changes, resolver, mu, pc, key, value, walk, history>>

\* A container starts or ends; the id of its cgroup can be used again.
Change(g, v) ==
    /\ changes < MaxChanges
    /\ v # cgroup[g]
    /\ cgroup' = [cgroup EXCEPT ![g] = v]
    /\ changes' = changes + 1
    /\ steady' = [c \in Callers |-> steady[c] /\ key[c] # g]
    /\ UNCHANGED <<now, resolver, mu, pc, key, value, walk, known>>

At(c, from, to) == pc[c] = from /\ pc' = [pc EXCEPT ![c] = to]

Return(c, v) ==
    /\ pc' = [pc EXCEPT ![c] = "returned"]
    /\ value' = [value EXCEPT ![c] = v]

Call(c, g) ==
    /\ At(c, "idle", "load")
    /\ key' = [key EXCEPT ![c] = g]
    /\ known' = [known EXCEPT ![c] = cgroupTable[g] # NotContainer]
    /\ steady' = [steady EXCEPT ![c] = cgroup[g] # NotContainer]
    /\ UNCHANGED <<now, cgroup, changes, resolver, mu, value, walk>>

\* The caller has its result.
Use(c) ==
    /\ At(c, "returned", "idle")
    /\ value' = [value EXCEPT ![c] = NotContainer]
    /\ known' = [known EXCEPT ![c] = FALSE]
    /\ steady' = [steady EXCEPT ![c] = FALSE]
    /\ UNCHANGED <<now, cgroup, changes, resolver, mu, key, walk>>

\* Mutant: nonContainer is asked before the table.
loadNonContainerFirst(c) ==
    /\ pc[c] = "load"
    /\ IF now < nonContainer[key[c]] THEN Return(c, NotContainer)
       ELSE IF cgroupTable[key[c]] # NotContainer THEN Return(c, cgroupTable[key[c]])
       ELSE pc' = [pc EXCEPT ![c] = "miss"] /\ UNCHANGED value
    /\ UNCHANGED <<now, cgroup, changes, resolver, mu, key, walk, history>>

\* load: the table first.
load(c) ==
    /\ pc[c] = "load"
    /\ IF cgroupTable[key[c]] # NotContainer THEN Return(c, cgroupTable[key[c]])
       ELSE pc' = [pc EXCEPT ![c] = "miss"] /\ UNCHANGED value
    /\ UNCHANGED <<now, cgroup, changes, resolver, mu, key, walk, history>>

\* nonContainer.GetIfPresent; then the time, without the lock.
GetIfPresent(c) ==
    /\ pc[c] = "miss"
    /\ IF now < nonContainer[key[c]] THEN Return(c, NotContainer)
       ELSE pc' = [pc EXCEPT ![c] = "time"] /\ UNCHANGED value
    /\ UNCHANGED <<now, cgroup, changes, resolver, mu, key, walk, history>>

CheckTime(c) ==
    /\ pc[c] = "time"
    /\ IF now < nextUpdateTime THEN Return(c, NotContainer)
       ELSE pc' = [pc EXCEPT ![c] = "lock"] /\ UNCHANGED value
    /\ UNCHANGED <<now, cgroup, changes, resolver, mu, key, walk, history>>

\* Mutant: the time is not looked at again under the lock.
TooSoonNever == FALSE

TooSoon == now < nextUpdateTime

\* Mutant: the return that finds it too soon keeps the lock.
UnlockedAfterHit(c) ==
    mu' = IF cgroupTable[key[c]] # NotContainer THEN None ELSE c

\* Both early returns unlock.
Unlocked(c) == mu' = None

\* mu.Lock and the second look at the table and the time; only the holder of
\* the lock stores either, so this is one step.
Lock(c) ==
    /\ pc[c] = "lock"
    /\ mu = None
    /\ \/ /\ cgroupTable[key[c]] # NotContainer \/ TooSoon
          /\ Return(c, cgroupTable[key[c]])
          /\ Unlocked(c)
          /\ UNCHANGED walk
       \/ /\ cgroupTable[key[c]] = NotContainer /\ ~TooSoon
          /\ pc' = [pc EXCEPT ![c] = "walk"]
          /\ mu' = c
          /\ renew' = NewContainerResolver
          /\ visit' = Cgroups
          /\ UNCHANGED <<value, ended>>
    /\ UNCHANGED <<now, cgroup, changes, resolver, key, history>>

\* update: WalkDir gets to the directory of a cgroup.
Visit(c, g) ==
    /\ pc[c] = "walk"
    /\ g \in visit
    /\ visit' = visit \ {g}
    /\ renew' = [renew EXCEPT ![g] = cgroup[g]]
    /\ UNCHANGED <<now, cgroup, changes, resolver, mu, pc, key, value, ended, history>>

\* The two stores after a walk that succeeded; the time is taken before them.
StoreTable(c) ==
    /\ At(c, "walk", "stored")
    /\ visit = {}
    /\ ended' = now
    /\ cgroupTable' = renew
    /\ known' = [d \in Callers |-> known[d] /\ renew[key[d]] # NotContainer]
    /\ UNCHANGED <<now, cgroup, changes, nonContainer, nextUpdateTime, mu, key, value, renew, visit, steady>>

StoreTime(c) ==
    /\ At(c, "stored", "renewed")
    /\ nextUpdateTime' = ended + updateInterval
    /\ UNCHANGED <<now, cgroup, changes, cgroupTable, nonContainer, mu, key, value, walk, history>>

\* WalkDir fails, as it does once ctx is done: the table is kept.
WalkFails(c) ==
    /\ At(c, "walk", "failed")
    /\ visit' = {}
    /\ ended' = now
    /\ nextUpdateTime' = now + updateIntervalOnError
    /\ UNCHANGED <<now, cgroup, changes, cgroupTable, nonContainer, mu, key, value, renew, history>>

\* Mutant: a miss is remembered after a walk that failed, too.
RecordsAlways(c) == cgroupTable[key[c]] = NotContainer

\* Only a walk that succeeded shows that a cgroup has no container.
Records(c) == cgroupTable[key[c]] = NotContainer /\ pc[c] = "renewed"

\* The result after a walk, and the deferred unlock.
Finish(c) ==
    /\ pc[c] \in {"renewed", "failed"}
    /\ Return(c, cgroupTable[key[c]])
    /\ nonContainer' = IF Records(c) THEN [nonContainer EXCEPT ![key[c]] = now + Expiry]
                       ELSE nonContainer
    /\ mu' = None
    /\ UNCHANGED <<now, cgroup, changes, cgroupTable, nextUpdateTime, key, walk, history>>

Resolve(c) ==
    \/ load(c) \/ GetIfPresent(c) \/ CheckTime(c)
    \/ Lock(c)
    \/ \E g \in Cgroups : Visit(c, g)
    \/ StoreTable(c) \/ StoreTime(c) \/ WalkFails(c)
    \/ Finish(c)

Next ==
    \/ Tick
    \/ \E g \in Cgroups, v \in Values : Change(g, v)
    \/ \E c \in Callers : Resolve(c) \/ Use(c) \/ \E g \in Cgroups : Call(c, g)

Spec == Init /\ [][Next]_vars

\* Callers are scheduled, and a goroutine that waits for a mutex gets it in the
\* end (sync.Mutex hands over to the longest waiting one).
FairSpec ==
    /\ Spec
    /\ \A c \in Callers : WF_vars(Resolve(c)) /\ SF_vars(Lock(c))

-----------------------------------------------------------------------------
\* The variables have their types, and the mutex is held by the one caller
\* that is in the part of Resolve it guards.
TypeOK ==
    /\ cgroup \in [Cgroups -> Values]
    /\ cgroupTable \in [Cgroups -> Values]
    /\ renew \in [Cgroups -> Values]
    /\ nonContainer \in [Cgroups -> Nat]
    /\ nextUpdateTime \in Nat /\ now \in 0 .. MaxTime /\ ended \in 0 .. MaxTime
    /\ visit \subseteq Cgroups
    /\ key \in [Callers -> Cgroups] /\ value \in [Callers -> Values]
    /\ known \in [Callers -> BOOLEAN] /\ steady \in [Callers -> BOOLEAN]
    /\ pc \in [Callers -> {"idle", "load", "miss", "time", "lock", "walk", "stored",
                           "renewed", "failed", "returned"}]
    /\ \A c \in Callers : (mu = c) <=> (pc[c] \in {"walk", "stored", "renewed", "failed"})

\* The walk over /sys/fs/cgroup is expensive: however many callers miss at the
\* same time, a walk begins only when the time for it has come.
WalksSpaced ==
    [][\A c \in Callers : pc[c] # "walk" /\ pc'[c] = "walk" => now >= nextUpdateTime]_vars

\* A cgroup that the table has, from the start of a call to its end, is answered
\* with a container, whatever nonContainer remembers of an earlier cgroup with
\* the same id.
KnownAnswered ==
    \A c \in Callers : pc[c] = "returned" /\ known[c] => value[c] # NotContainer

\* A cgroup that has had a container since before the call is not remembered
\* as one without: nonContainer takes it for ten minutes.
NegativeEarned ==
    [][\A c \in Callers :
        steady[c] /\ pc[c] \in {"renewed", "failed"} /\ pc'[c] = "returned" =>
            nonContainer'[key[c]] = nonContainer[key[c]]]_vars

\* Every call returns: no caller keeps the mutex or waits for it for ever.
EveryCallReturns ==
    \A c \in Callers : (pc[c] = "load") ~> (pc[c] = "returned")
=============================================================================
