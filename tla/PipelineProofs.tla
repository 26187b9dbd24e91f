---------------------------- MODULE PipelineProofs ----------------------------
(* Theorems about Pipeline, for any number of tasks, destinations and      *)
(* names, any TTLs, any epoch length and any sampler.                      *)
EXTENDS Pipeline, EpochPoolProofs, TLAPS

(* The clock's epoch is an epoch of the type: MaxClock lies within it.     *)
LEMMA ClockEpoch ==
  ASSUME NEW x \in 0..MaxClock
  PROVE  EpochAt(x) \in Epoch
<1>1. x \in Nat /\ MaxClock \in Nat /\ x <= MaxClock
  BY PipelineAssumption
<1>2. EpochAt(x) \in Nat /\ EpochAt(MaxClock) \in Nat /\ EpochAt(x) <= EpochAt(MaxClock)
  BY <1>1, EpochAtMonotonic
<1> QED
  BY <1>2, PipelineAssumption, EpochPoolAssumption DEF Epoch

(* Select returns an entry that names an SNI: the one it was given, or a   *)
(* fresh one from the pool.                                                *)
LEMMA SelectType ==
  ASSUME NEW entry \in Sel!StickyEntry \cup {None},
         NEW P \in SUBSET SNI, NEW time \in Nat,
         NEW result \in Sel!Select(entry, P, time)
  PROVE  result \in Sel!StickyEntry /\ result.sni \in P
<1>1. CASE Sel!Reusable(entry, P, time)
  BY <1>1 DEF Sel!Select, Sel!Reusable
<1>2. CASE ~ Sel!Reusable(entry, P, time)
  <2>1. PICK s \in P : result = [sni |-> s, expires |-> time + StickyTtl]
    BY <1>2 DEF Sel!Select, Sel!Drawn
  <2>2. time + StickyTtl \in Nat
    BY PipelineAssumption
  <2> QED
    BY <2>1, <2>2 DEF Sel!StickyEntry
<1> QED
  BY <1>1, <1>2

(* A cached resolution expires no later than MaxTtl after the time the     *)
(* connection passed in.                                                   *)
LEMMA ExpiresAtBound ==
  ASSUME NEW time \in Nat, NEW ttl \in Ttls
  PROVE  Dns!ExpiresAt(time, ttl) \in Nat /\ Dns!ExpiresAt(time, ttl) <= time + MaxTtl
<1>1. ttl \in Nat
  BY PipelineAssumption
<1> QED
  BY <1>1, PipelineAssumption DEF Dns!ExpiresAt, Dns!ClampTtl

-----------------------------------------------------------------------------
(* Type correctness, and that every task has set its locals before it uses *)
(* them.                                                                   *)
THEOREM TypeCorrect == Spec => []TypeOK
<1>1. Init => TypeOK
  <2> SUFFICES ASSUME Init PROVE TypeOK
    OBVIOUS
  <2>1. EpochAt(clock) \in Epoch
    BY ClockEpoch DEF Init
  <2>2. pool \subseteq SNI
    BY <2>1, WindowType DEF Init
  <2> QED
    BY <2>1, <2>2 DEF Init, TypeOK, AfterReadEpoch, AfterReadNow, AfterPick
<1>2. TypeOK /\ [Next]_vars => TypeOK'
  <2> SUFFICES ASSUME TypeOK, [Next]_vars PROVE TypeOK'
    OBVIOUS
  <2> USE DEF TypeOK, Goto, AfterReadEpoch, AfterReadNow, AfterPick,
              refresh, locks, caches, locals
  <2>1. CASE Tick
    BY <2>1, PipelineAssumption DEF Tick
  <2>2. ASSUME NEW t \in Tasks, NEW d \in Dests, Accept(t, d) PROVE TypeOK'
    BY <2>2 DEF Accept
  <2>3. ASSUME NEW t \in Tasks, ReadEpoch(t) PROVE TypeOK'
    BY <2>3, ClockEpoch DEF ReadEpoch
  <2>4. ASSUME NEW t \in Tasks, EpochUnchanged(t) PROVE TypeOK'
    BY <2>4 DEF EpochUnchanged
  <2>5. ASSUME NEW t \in Tasks, EpochChanged(t) PROVE TypeOK'
    BY <2>5 DEF EpochChanged
  <2>6. ASSUME NEW t \in Tasks, LockPoolForWrite(t) PROVE TypeOK'
    BY <2>6 DEF LockPoolForWrite
  <2>7. ASSUME NEW t \in Tasks, AssignPool(t) PROVE TypeOK'
    BY <2>7, WindowType DEF AssignPool
  <2>8. ASSUME NEW t \in Tasks, SendEpoch(t) PROVE TypeOK'
    BY <2>8 DEF SendEpoch
  <2>9. ASSUME NEW t \in Tasks, ReadNow(t) PROVE TypeOK'
    BY <2>9 DEF ReadNow
  <2>10. ASSUME NEW t \in Tasks, LockSelector(t) PROVE TypeOK'
    BY <2>10 DEF LockSelector
  <2>11. ASSUME NEW t \in Tasks, LockPoolForRead(t) PROVE TypeOK'
    BY <2>11 DEF LockPoolForRead
  <2>12. ASSUME NEW t \in Tasks, Pick(t) PROVE TypeOK'
    <3>1. CASE pool = {}
      BY <2>12, <3>1 DEF Pick, Hosts
    <3>2. CASE pool # {}
      <4>1. PICK entry \in Sel!Select(sticky[dest[t]], pool, now[t]) :
              /\ sni' = [sni EXCEPT ![t] = entry.sni]
              /\ sticky' = [sticky EXCEPT ![dest[t]] = entry]
        BY <2>12, <3>2 DEF Pick
      <4>2. entry \in Sel!StickyEntry /\ entry.sni \in Hosts
        BY <2>12, SelectType DEF Pick, Hosts
      <4> QED
        BY <2>12, <4>1, <4>2 DEF Pick
    <3> QED
      BY <3>1, <3>2
  <2>13. ASSUME NEW t \in Tasks, WarmHit(t) PROVE TypeOK'
    BY <2>13 DEF WarmHit
  <2>14. ASSUME NEW t \in Tasks, WarmMiss(t) PROVE TypeOK'
    BY <2>14 DEF WarmMiss
  <2>15. ASSUME NEW t \in Tasks, NEW ttl \in Ttls, Resolved(t, ttl) PROVE TypeOK'
    <3>1. Dns!ExpiresAt(now[t], ttl) \in Nat /\ clock \in Nat
      BY <2>15, ExpiresAtBound, PipelineAssumption DEF Resolved
    <3> QED
      BY <2>15, <3>1 DEF Resolved
  <2>16. ASSUME NEW t \in Tasks, ResolveFails(t) PROVE TypeOK'
    BY <2>16 DEF ResolveFails
  <2>17. ASSUME NEW t \in Tasks, TunnelOpens(t) PROVE TypeOK'
    BY <2>17 DEF TunnelOpens
  <2>18. ASSUME NEW t \in Tasks, NEW from \in {"open", "relay"}, EndTask(t, from)
         PROVE TypeOK'
    BY <2>18 DEF EndTask
  <2>19. CASE UNCHANGED vars
    BY <2>19 DEF vars
  <2> QED
    BY <2>1, <2>2, <2>3, <2>4, <2>5, <2>6, <2>7, <2>8, <2>9, <2>10, <2>11, <2>12,
       <2>13, <2>14, <2>15, <2>16, <2>17, <2>18, <2>19
       DEF Next, Refresh, SelectSni, Warm, Tunnel, TunnelFails, RelayEnds
<1> QED
  BY <1>1, <1>2, PTL DEF Spec

-----------------------------------------------------------------------------
(* maybe_refresh_epoch.  While no two refreshes for different epochs have  *)
(* overlapped, all tasks inside one carry the same epoch, and whoever is   *)
(* about to send it has the pool of that epoch behind it.                  *)
RefreshInv ==
  ~raced =>
    /\ \A t, u \in Refreshers : epoch[t] = epoch[u]
    /\ \A t \in Tasks : pc[t] = "send" => pool = AcceptedPoolWindow(epoch[t])
    /\ Refreshers = {} => pool = AcceptedPoolWindow(currentEpoch)

(* A step outside maybe_refresh_epoch leaves all that RefreshInv speaks of. *)
LEMMA OtherStepsKeepRefresh ==
  ASSUME TypeOK, NEW t \in Tasks, SelectSni(t) \/ Warm(t) \/ Tunnel(t)
  PROVE  /\ UNCHANGED refresh
         /\ Refreshers' = Refreshers
         /\ \A u \in Refreshers : epoch'[u] = epoch[u]
         /\ \A u \in Tasks : pc'[u] = "send" => pc[u] = "send"
<1> USE DEF TypeOK, Goto, Refreshers, AfterReadEpoch, AfterReadNow, AfterPick,
            refresh, locks, caches, locals
<1>1. CASE SelectSni(t)
  BY <1>1 DEF SelectSni, ReadNow, LockSelector, LockPoolForRead, Pick
<1>2. CASE Warm(t)
  BY <1>2 DEF Warm, WarmHit, WarmMiss, Resolved, ResolveFails
<1>3. CASE Tunnel(t)
  BY <1>3 DEF Tunnel, TunnelOpens, TunnelFails, RelayEnds, EndTask
<1> QED
  BY <1>1, <1>2, <1>3

(* A connection that finds the epoch unchanged, with no refresh under way, *)
(* uses the window of that epoch, unless refreshes raced.                  *)
THEOREM RefreshCoherent == Spec => []PoolFollowsEpochUnlessRaced
<1>1. Init => RefreshInv
  BY DEF Init, RefreshInv, Refreshers
<1>2. TypeOK /\ RefreshInv /\ [Next]_vars => RefreshInv'
  <2> SUFFICES ASSUME TypeOK, RefreshInv, [Next]_vars PROVE RefreshInv'
    OBVIOUS
  <2> USE DEF TypeOK, RefreshInv, Refreshers, Goto, AfterReadEpoch, AfterReadNow,
              AfterPick, refresh, locks, caches, locals
  <2>1. CASE Tick
    BY <2>1 DEF Tick
  <2>2. ASSUME NEW t \in Tasks, NEW d \in Dests, Accept(t, d) PROVE RefreshInv'
    BY <2>2 DEF Accept
  <2>3. ASSUME NEW t \in Tasks, ReadEpoch(t) PROVE RefreshInv'
    BY <2>3 DEF ReadEpoch
  <2>4. ASSUME NEW t \in Tasks, EpochUnchanged(t) PROVE RefreshInv'
    BY <2>4 DEF EpochUnchanged
  <2>5. ASSUME NEW t \in Tasks, EpochChanged(t) PROVE RefreshInv'
    <3> SUFFICES ASSUME ~raced' PROVE RefreshInv'
      OBVIOUS
    <3>1. Refreshers' = Refreshers \cup {t} /\ pool' = pool /\ epoch' = epoch
      BY <2>5 DEF EpochChanged
    <3>2. CASE Refreshers = {}
      BY <2>5, <3>1, <3>2 DEF EpochChanged
    <3>3. CASE Refreshers # {}
      BY <2>5, <3>1, <3>3 DEF EpochChanged
    <3> QED
      BY <3>2, <3>3
  <2>6. ASSUME NEW t \in Tasks, LockPoolForWrite(t) PROVE RefreshInv'
    BY <2>6 DEF LockPoolForWrite
  <2>7. ASSUME NEW t \in Tasks, AssignPool(t) PROVE RefreshInv'
    BY <2>7 DEF AssignPool
  <2>8. ASSUME NEW t \in Tasks, SendEpoch(t) PROVE RefreshInv'
    BY <2>8 DEF SendEpoch
  <2>9. ASSUME NEW t \in Tasks, SelectSni(t) \/ Warm(t) \/ Tunnel(t)
        PROVE  RefreshInv'
    <3>1. /\ UNCHANGED refresh
          /\ Refreshers' = Refreshers
          /\ \A u \in Refreshers : epoch'[u] = epoch[u]
          /\ \A u \in Tasks : pc'[u] = "send" => pc[u] = "send"
      BY <2>9, OtherStepsKeepRefresh
    <3> QED
      BY <3>1
  <2>10. CASE UNCHANGED vars
    BY <2>10 DEF vars
  <2> QED
    BY <2>1, <2>2, <2>3, <2>4, <2>5, <2>6, <2>7, <2>8, <2>9, <2>10
       DEF Next, Refresh
<1>3. RefreshInv => PoolFollowsEpochUnlessRaced
  BY DEF RefreshInv, PoolFollowsEpochUnlessRaced
<1> QED
  BY <1>1, <1>2, <1>3, TypeCorrect, PTL DEF Spec

-----------------------------------------------------------------------------
(* The SNI: what the stale time each task holds still guarantees.          *)

(* A task's time is never ahead of the clock. *)
NowInv == \A t \in Tasks : now[t] # None => now[t] <= clock

THEOREM NowNeverAhead == Spec => []NowInv
<1>1. Init => NowInv
  BY DEF Init, NowInv
<1>2. TypeOK /\ NowInv /\ [Next]_vars => NowInv'
  <2> SUFFICES ASSUME TypeOK, NowInv, [Next]_vars PROVE NowInv'
    OBVIOUS
  <2>0. clock \in Nat
    BY PipelineAssumption DEF TypeOK
  <2> USE DEF TypeOK, NowInv, refresh, locks, caches, locals
  <2>1. CASE Tick
    BY <2>0, <2>1, PipelineAssumption DEF Tick
  <2>2. ASSUME NEW t \in Tasks, NEW d \in Dests, Accept(t, d) PROVE NowInv'
    BY <2>2 DEF Accept
  <2>3. ASSUME NEW t \in Tasks, Refresh(t) PROVE NowInv'
    BY <2>3 DEF Refresh, ReadEpoch, EpochUnchanged, EpochChanged,
                LockPoolForWrite, AssignPool, SendEpoch
  <2>4. ASSUME NEW t \in Tasks, SelectSni(t) PROVE NowInv'
    BY <2>0, <2>4 DEF SelectSni, ReadNow, LockSelector, LockPoolForRead, Pick
  <2>5. ASSUME NEW t \in Tasks, Warm(t) PROVE NowInv'
    BY <2>5 DEF Warm, WarmHit, WarmMiss, Resolved, ResolveFails
  <2>6. ASSUME NEW t \in Tasks, Tunnel(t) PROVE NowInv'
    BY <2>6 DEF Tunnel, TunnelOpens, TunnelFails, RelayEnds, EndTask
  <2>7. CASE UNCHANGED vars
    BY <2>7 DEF vars
  <2> QED
    BY <2>1, <2>2, <2>3, <2>4, <2>5, <2>6, <2>7 DEF Next
<1> QED
  BY <1>1, <1>2, TypeCorrect, PTL DEF Spec

(* The pool is a window at all times, hence never empty: the fixed name    *)
(* for an empty pool is never presented.                                   *)
PoolInv ==
  /\ pool # {}
  /\ \A t \in Tasks : sni[t] # None => sni[t] \in SNI

THEOREM NeverFallsBack == Spec => []PoolInv
<1>1. Init => PoolInv
  BY ClockEpoch, WindowType DEF Init, PoolInv
<1>2. TypeOK /\ PoolInv /\ [Next]_vars => PoolInv'
  <2> SUFFICES ASSUME TypeOK, PoolInv, [Next]_vars PROVE PoolInv'
    OBVIOUS
  <2> USE DEF TypeOK, PoolInv, Goto, AfterReadEpoch, AfterReadNow, AfterPick,
              refresh, locks, caches, locals
  <2>1. CASE Tick
    BY <2>1 DEF Tick
  <2>2. ASSUME NEW t \in Tasks, NEW d \in Dests, Accept(t, d) PROVE PoolInv'
    BY <2>2 DEF Accept
  <2>3. ASSUME NEW t \in Tasks, Refresh(t) PROVE PoolInv'
    <3>1. CASE AssignPool(t)
      BY <3>1, WindowType DEF AssignPool
    <3>2. CASE ~ AssignPool(t)
      BY <2>3, <3>2 DEF Refresh, ReadEpoch, EpochUnchanged, EpochChanged,
                        LockPoolForWrite, SendEpoch
    <3> QED
      BY <3>1, <3>2
  <2>4. ASSUME NEW t \in Tasks, Pick(t) PROVE PoolInv'
    <3>1. PICK entry \in Sel!Select(sticky[dest[t]], pool, now[t]) :
            sni' = [sni EXCEPT ![t] = entry.sni]
      BY <2>4 DEF Pick
    <3>2. entry.sni \in SNI
      BY <2>4, SelectType DEF Pick
    <3> QED
      BY <2>4, <3>1, <3>2 DEF Pick
  <2>5. ASSUME NEW t \in Tasks, ReadNow(t) \/ LockSelector(t) \/ LockPoolForRead(t)
        PROVE  PoolInv'
    BY <2>5 DEF ReadNow, LockSelector, LockPoolForRead
  <2>6. ASSUME NEW t \in Tasks, Warm(t) PROVE PoolInv'
    BY <2>6 DEF Warm, WarmHit, WarmMiss, Resolved, ResolveFails
  <2>7. ASSUME NEW t \in Tasks, Tunnel(t) PROVE PoolInv'
    BY <2>7 DEF Tunnel, TunnelOpens, TunnelFails, RelayEnds, EndTask
  <2>8. CASE UNCHANGED vars
    BY <2>8 DEF vars
  <2> QED
    BY <2>1, <2>2, <2>3, <2>4, <2>5, <2>6, <2>7, <2>8 DEF Next, SelectSni
<1> QED
  BY <1>1, <1>2, TypeCorrect, PTL DEF Spec

(* Whatever other tasks cached, a pick lands in the pool of that moment.   *)
THEOREM PickIsLive == Spec => PicksFromLivePool
<1> DEFINE Live == \A t \in Tasks :
                     pc[t] = "pick" /\ pc'[t] = "warm" => sni'[t] \in pool
<1>1. TypeOK /\ PoolInv /\ [Next]_vars => [Live]_vars
  <2> SUFFICES ASSUME TypeOK, PoolInv, Next,
                      NEW t \in Tasks, pc[t] = "pick", pc'[t] = "warm"
               PROVE  sni'[t] \in pool
    OBVIOUS
  <2> USE DEF TypeOK, Goto, AfterReadEpoch, AfterReadNow, AfterPick,
              refresh, locks, caches, locals
  <2>1. Pick(t)
    BY DEF Next, Tick, Accept, Refresh, ReadEpoch, EpochUnchanged, EpochChanged,
           LockPoolForWrite, AssignPool, SendEpoch, SelectSni, ReadNow,
           LockSelector, LockPoolForRead, Pick, Warm, WarmHit, WarmMiss, Resolved,
           ResolveFails, Tunnel, TunnelOpens, TunnelFails, RelayEnds, EndTask
  <2>2. PICK entry \in Sel!Select(sticky[dest[t]], pool, now[t]) :
          sni' = [sni EXCEPT ![t] = entry.sni]
    BY <2>1 DEF Pick, PoolInv
  <2>3. entry.sni \in pool
    BY SelectType
  <2> QED
    BY <2>2, <2>3
<1> QED
  BY <1>1, TypeCorrect, NeverFallsBack, PTL DEF Spec, PicksFromLivePool

(* The SNI shown for a destination flips only when its entry is due by the *)
(* wall clock or has left the pool: the time a task read before it waited  *)
(* for the selector is never ahead of the clock.                           *)
THEOREM StickyHolds == Spec => StickyUntilDue
<1> DEFINE Due == \A d \in Dests :
                    sticky[d] # None /\ sticky'[d] # sticky[d] =>
                      clock >= sticky[d].expires \/ sticky[d].sni \notin pool
<1>1. TypeOK /\ NowInv /\ PoolInv /\ [Next]_vars => [Due]_vars
  <2> SUFFICES ASSUME TypeOK, NowInv, PoolInv, Next, NEW d \in Dests,
                      sticky[d] # None, sticky'[d] # sticky[d], sticky[d].sni \in pool
               PROVE  clock >= sticky[d].expires
    OBVIOUS
  <2> USE DEF TypeOK, Goto, AfterReadEpoch, AfterReadNow, AfterPick,
              refresh, locks, caches, locals
  <2>1. PICK t \in Tasks : Pick(t)
    BY DEF Next, Tick, Accept, Refresh, ReadEpoch, EpochUnchanged, EpochChanged,
           LockPoolForWrite, AssignPool, SendEpoch, SelectSni, ReadNow,
           LockSelector, LockPoolForRead, Warm, WarmHit, WarmMiss, Resolved,
           ResolveFails, Tunnel, TunnelOpens, TunnelFails, RelayEnds, EndTask
  <2>2. PICK entry \in Sel!Select(sticky[dest[t]], pool, now[t]) :
          sticky' = [sticky EXCEPT ![dest[t]] = entry]
    BY <2>1 DEF Pick, PoolInv
  <2>3. d = dest[t] /\ entry # sticky[d]
    BY <2>1, <2>2 DEF Pick
  <2>4. ~ Sel!Reusable(sticky[d], pool, now[t])
    BY <2>2, <2>3 DEF Sel!Select
  <2>5. now[t] \in Nat /\ now[t] <= clock /\ clock \in Nat
    BY <2>1, PipelineAssumption DEF Pick, NowInv
  <2>6. sticky[d].expires \in Nat
    BY DEF Sel!StickyEntry
  <2> QED
    BY <2>4, <2>5, <2>6 DEF Sel!Reusable
<1> QED
  BY <1>1, TypeCorrect, NowNeverAhead, NeverFallsBack, PTL DEF Spec, StickyUntilDue

-----------------------------------------------------------------------------
(* The warmer: answers may be stored in any order, but an entry never      *)
(* outlives the last real lookup of its host by more than max_ttl.         *)
DnsInv ==
  /\ \A h \in Hosts : lastLookup[h] # None => lastLookup[h] <= clock
  /\ \A h \in Hosts : dns[h] # None =>
       lastLookup[h] # None /\ dns[h] <= lastLookup[h] + MaxTtl

(* When warm returns Ok the name about to be presented has been looked up  *)
(* after the connection's time or less than max_ttl before it.             *)
THEOREM WarmIsGenuine == Spec => []WarmIsBackedByLookup
<1> DEFINE Inv == DnsInv /\ WarmIsBackedByLookup
<1>1. Init => Inv
  BY DEF Init, DnsInv, WarmIsBackedByLookup
<1>2. TypeOK /\ NowInv /\ Inv /\ [Next]_vars => Inv'
  <2> SUFFICES ASSUME TypeOK, NowInv, Inv, [Next]_vars PROVE Inv'
    OBVIOUS
  <2>0. clock \in Nat /\ MaxTtl \in Nat
    BY PipelineAssumption DEF TypeOK
  <2> USE DEF TypeOK, Goto, AfterReadEpoch, AfterReadNow, AfterPick,
              DnsInv, WarmIsBackedByLookup, refresh, locks, caches, locals
  <2>1. CASE Tick
    BY <2>0, <2>1 DEF Tick
  <2>2. ASSUME NEW t \in Tasks, NEW d \in Dests, Accept(t, d) PROVE Inv'
    BY <2>2 DEF Accept
  <2>3. ASSUME NEW t \in Tasks, Refresh(t) PROVE Inv'
    BY <2>3 DEF Refresh, ReadEpoch, EpochUnchanged, EpochChanged,
                LockPoolForWrite, AssignPool, SendEpoch
  <2>4. ASSUME NEW t \in Tasks, SelectSni(t) PROVE Inv'
    <3>1. /\ ~ warmed[t] /\ UNCHANGED <<warmed, clock, dns, lastLookup>>
          /\ \A u \in Tasks \ {t} : now'[u] = now[u] /\ sni'[u] = sni[u]
      BY <2>4 DEF SelectSni, ReadNow, LockSelector, LockPoolForRead, Pick
    <3> QED
      BY <3>1
  <2>5. ASSUME NEW t \in Tasks, WarmHit(t) PROVE Inv'
    BY <2>0, <2>5 DEF WarmHit, Dns!IsWarm
  <2>6. ASSUME NEW t \in Tasks, WarmMiss(t) \/ ResolveFails(t) PROVE Inv'
    BY <2>6 DEF WarmMiss, ResolveFails
  <2>7. ASSUME NEW t \in Tasks, NEW ttl \in Ttls, Resolved(t, ttl) PROVE Inv'
    <3>1. /\ sni[t] \in Hosts /\ now[t] \in Nat /\ now[t] <= clock
          /\ Dns!ExpiresAt(now[t], ttl) \in Nat
          /\ Dns!ExpiresAt(now[t], ttl) <= clock + MaxTtl
          /\ clock # None
      <4>1. now[t] \in Nat /\ now[t] <= clock /\ sni[t] \in Hosts /\ clock # None
        BY <2>0, <2>7, PipelineAssumption DEF Resolved, NowInv
      <4>2. /\ Dns!ExpiresAt(now[t], ttl) \in Nat
            /\ Dns!ExpiresAt(now[t], ttl) <= now[t] + MaxTtl
        BY <4>1, ExpiresAtBound
      <4> QED
        BY <2>0, <4>1, <4>2
    <3>2. DnsInv'
      <4> SUFFICES ASSUME NEW h \in Hosts
                   PROVE  /\ lastLookup'[h] # None => lastLookup'[h] <= clock'
                          /\ dns'[h] # None => /\ lastLookup'[h] # None
                                               /\ dns'[h] <= lastLookup'[h] + MaxTtl
        OBVIOUS
      <4>1. CASE h = sni[t]
        BY <2>0, <2>7, <3>1, <4>1 DEF Resolved
      <4>2. CASE h # sni[t]
        BY <2>7, <4>2 DEF Resolved
      <4> QED
        BY <4>1, <4>2
    <3>3. WarmIsBackedByLookup'
      <4>1. \A h \in Hosts : lastLookup[h] # None =>
              lastLookup'[h] # None /\ lastLookup[h] <= lastLookup'[h]
        <5> SUFFICES ASSUME NEW h \in Hosts, lastLookup[h] # None
                     PROVE  lastLookup'[h] # None /\ lastLookup[h] <= lastLookup'[h]
          OBVIOUS
        <5>1. lastLookup[h] \in Nat /\ lastLookup[h] <= clock
          OBVIOUS
        <5>2. lastLookup'[h] = IF h = sni[t] THEN clock ELSE lastLookup[h]
          BY <2>7 DEF Resolved
        <5> QED
          BY <3>1, <5>1, <5>2
      <4>2. ASSUME NEW u \in Tasks, u # t, warmed'[u]
            PROVE  /\ lastLookup'[sni'[u]] # None
                   /\ \/ now'[u] <= lastLookup'[sni'[u]]
                      \/ now'[u] < lastLookup'[sni'[u]] + MaxTtl
        <5>1. /\ warmed[u] /\ sni'[u] = sni[u] /\ now'[u] = now[u]
              /\ sni[u] \in Hosts /\ now[u] \in Nat
          BY <2>7, <4>2 DEF Resolved
        <5>2. /\ lastLookup[sni[u]] \in Nat /\ lastLookup'[sni[u]] \in Nat
              /\ lastLookup[sni[u]] <= lastLookup'[sni[u]]
          BY <2>0, <2>7, <4>1, <5>1 DEF Resolved
        <5> QED
          BY <2>0, <5>1, <5>2, PipelineAssumption
      <4>3. lastLookup'[sni'[t]] = clock /\ now'[t] = now[t] /\ clock # None
        BY <2>0, <2>7, <3>1, PipelineAssumption DEF Resolved
      <4> QED
        BY <3>1, <4>2, <4>3
    <3> QED
      BY <3>2, <3>3
  <2>8. ASSUME NEW t \in Tasks, Tunnel(t) PROVE Inv'
    BY <2>8 DEF Tunnel, TunnelOpens, TunnelFails, RelayEnds, EndTask
  <2>9. CASE UNCHANGED vars
    BY <2>9 DEF vars
  <2> QED
    BY <2>1, <2>2, <2>3, <2>4, <2>5, <2>6, <2>7, <2>8, <2>9 DEF Next, Warm
<1>3. Inv => WarmIsBackedByLookup
  OBVIOUS
<1> QED
  BY <1>1, <1>2, <1>3, TypeCorrect, NowNeverAhead, PTL DEF Spec
=============================================================================
