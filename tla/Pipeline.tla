------------------------------ MODULE Pipeline -------------------------------
(***************************************************************************)
(* The connection pipeline of hydra-client: concurrent connection tasks    *)
(* over a shared epoch pool, sticky selector and DNS cache.                *)
(*                                                                         *)
(* Each task runs handle_connection.  An action is a stretch of the code   *)
(* with one access to shared state (or to the clock), so every             *)
(* interleaving of two tasks on the runtime's threads is a behaviour.      *)
(* One clock stands for the seconds of epoch_at and the milliseconds of    *)
(* now_ms.  The SOCKS handshake before Accept and the tunnel after Open    *)
(* are the business of other modules.                                      *)
(***************************************************************************)
EXTENDS EpochPool

CONSTANTS
  Tasks,             \* slots for concurrent connections, reused without limit
  Dests,             \* the destinations an app may ask for
  FallbackSni,       \* "www.microsoft.com"
  StickyTtl,         \* the selector's TTL
  MinTtl, MaxTtl,    \* the warmer's clamp
  Ttls,              \* the TTLs a resolver may advertise
  TunnelConfigured,  \* server_addr or dest is set and the TLS stack was built
  MaxClock,          \* bound on the clock, for model checking
  None               \* an absent map entry or an unset local

VARIABLES
  clock,          \* SystemTime::now, taken to be monotonic
  pool,           \* RwLock<ActivePool>
  currentEpoch,   \* the value of the watch channel
  poolWriter,     \* the task holding the write lock of pool, or None
  poolReaders,    \* the tasks holding a read lock of pool
  selectorOwner,  \* the task holding the selector's mutex, or None
  sticky,         \* the selector's map
  dns,            \* the warmer's map
  pc,             \* where each task is in handle_connection
  dest, epoch, now, sni,  \* its locals
  warmed,         \* history: warm returned Ok in this connection
  lastLookup,     \* history: when a host was last really resolved
  raced           \* history: refreshes for different epochs overlapped

Sel == INSTANCE Selector
Dns == INSTANCE DnsWarmer

locks   == <<poolWriter, poolReaders, selectorOwner>>
refresh == <<pool, currentEpoch, raced>>
caches  == <<sticky, dns, lastLookup>>
locals  == <<dest, epoch, now, sni, warmed>>
vars    == <<clock, refresh, locks, caches, pc, locals>>

Hosts == SNI \cup {FallbackSni}

ASSUME PipelineAssumption ==
  /\ StickyTtl \in Nat
  /\ MinTtl \in Nat /\ MaxTtl \in Nat /\ MinTtl <= MaxTtl
  /\ Ttls \subseteq Nat
  /\ TunnelConfigured \in BOOLEAN
  /\ MaxClock \in Nat /\ EpochAt(MaxClock) <= MaxEpoch
  /\ None \notin Tasks /\ None \notin Nat /\ None \notin Sel!StickyEntry

(* The places where a local has been set. *)
AfterPick      == {"warm", "resolve", "open", "relay"}
AfterReadNow   == {"lockSelector", "readPool", "pick"} \cup AfterPick
AfterReadEpoch == {"checkEpoch", "lockPool", "assign", "send", "readNow"}
                    \cup AfterReadNow

Goto(t, from, to) == pc[t] = from /\ pc' = [pc EXCEPT ![t] = to]

(* The tasks that found the epoch changed and have not yet sent theirs. *)
Refreshers == { t \in Tasks : pc[t] \in {"lockPool", "assign", "send"} }

-----------------------------------------------------------------------------
Init ==
  /\ clock \in 0..MaxClock
  /\ currentEpoch = EpochAt(clock)
  /\ pool = AcceptedPoolWindow(currentEpoch)
  /\ poolWriter = None /\ poolReaders = {} /\ selectorOwner = None
  /\ sticky = [d \in Dests |-> None]
  /\ dns = [h \in Hosts |-> None]
  /\ pc = [t \in Tasks |-> "idle"]
  /\ dest = [t \in Tasks |-> None]
  /\ epoch = [t \in Tasks |-> None]
  /\ now = [t \in Tasks |-> None]
  /\ sni = [t \in Tasks |-> None]
  /\ warmed = [t \in Tasks |-> FALSE]
  /\ lastLookup = [h \in Hosts |-> None]
  /\ raced = FALSE

Tick ==
  /\ clock < MaxClock
  /\ clock' = clock + 1
  /\ UNCHANGED <<refresh, locks, caches, pc, locals>>

(* A task is spawned and its SOCKS handshake yields a destination. *)
Accept(t, d) ==
  /\ Goto(t, "idle", "readEpoch")
  /\ dest' = [dest EXCEPT ![t] = d]
  /\ UNCHANGED <<clock, refresh, locks, caches, epoch, now, sni, warmed>>

-----------------------------------------------------------------------------
(* maybe_refresh_epoch. *)

ReadEpoch(t) ==
  /\ Goto(t, "readEpoch", "checkEpoch")
  /\ epoch' = [epoch EXCEPT ![t] = EpochAt(clock)]
  /\ UNCHANGED <<clock, refresh, locks, caches, dest, now, sni, warmed>>

(* Faulty variant: an unchanged epoch also skips reading the time. *)
EpochUnchangedSkipsNow(t) ==
  /\ Goto(t, "checkEpoch", "lockSelector")
  /\ currentEpoch = epoch[t]
  /\ UNCHANGED <<clock, refresh, locks, caches, locals>>

EpochUnchanged(t) ==
  /\ Goto(t, "checkEpoch", "readNow")
  /\ currentEpoch = epoch[t]
  /\ UNCHANGED <<clock, refresh, locks, caches, locals>>

EpochChanged(t) ==
  /\ Goto(t, "checkEpoch", "lockPool")
  /\ currentEpoch # epoch[t]
  /\ raced' = (/\ Refreshers # {}
               /\ raced \/ \E u \in Refreshers : epoch[u] # epoch[t])
  /\ UNCHANGED <<clock, pool, currentEpoch, locks, caches, locals>>

LockPoolForWrite(t) ==
  /\ Goto(t, "lockPool", "assign")
  /\ poolWriter = None /\ poolReaders = {}
  /\ poolWriter' = t
  /\ UNCHANGED <<clock, refresh, poolReaders, selectorOwner, caches, locals>>

(* Faulty variant: the guard lives to the end of the function and leaks.   *)
AssignPoolKeepingGuard(t) ==
  /\ Goto(t, "assign", "send")
  /\ pool' = AcceptedPoolWindow(epoch[t])
  /\ UNCHANGED <<clock, currentEpoch, raced, locks, caches, locals>>

(* The guard is a temporary: it is dropped at the end of the assignment. *)
AssignPool(t) ==
  /\ Goto(t, "assign", "send")
  /\ pool' = AcceptedPoolWindow(epoch[t])
  /\ poolWriter' = None
  /\ UNCHANGED <<clock, currentEpoch, raced, poolReaders, selectorOwner,
                 caches, locals>>

(* Faulty variant: the clock is read again for the value to send. *)
SendEpochReadAgain(t) ==
  /\ Goto(t, "send", "readNow")
  /\ currentEpoch' = EpochAt(clock)
  /\ UNCHANGED <<clock, pool, raced, locks, caches, locals>>

(* The task's own receiver is alive, so the send always takes effect. *)
SendEpoch(t) ==
  /\ Goto(t, "send", "readNow")
  /\ currentEpoch' = epoch[t]
  /\ UNCHANGED <<clock, pool, raced, locks, caches, locals>>

-----------------------------------------------------------------------------
(* Picking the SNI: the time is read before the selector is locked. *)

ReadNow(t) ==
  /\ Goto(t, "readNow", "lockSelector")
  /\ now' = [now EXCEPT ![t] = clock]
  /\ UNCHANGED <<clock, refresh, locks, caches, dest, epoch, sni, warmed>>

LockSelector(t) ==
  /\ Goto(t, "lockSelector", "readPool")
  /\ selectorOwner = None
  /\ selectorOwner' = t
  /\ UNCHANGED <<clock, refresh, poolWriter, poolReaders, caches, locals>>

LockPoolForRead(t) ==
  /\ Goto(t, "readPool", "pick")
  /\ poolWriter = None
  /\ poolReaders' = poolReaders \cup {t}
  /\ UNCHANGED <<clock, refresh, poolWriter, selectorOwner, caches, locals>>

(* Both guards are dropped at the end of the block. *)
Pick(t) ==
  /\ Goto(t, "pick", "warm")
  /\ IF pool = {}
     THEN /\ sni' = [sni EXCEPT ![t] = FallbackSni]
          /\ UNCHANGED sticky
     ELSE \E entry \in Sel!Select(sticky[dest[t]], pool, now[t]) :
            /\ sni' = [sni EXCEPT ![t] = entry.sni]
            /\ sticky' = [sticky EXCEPT ![dest[t]] = entry]
  /\ poolReaders' = poolReaders \ {t}
  /\ selectorOwner' = None
  /\ UNCHANGED <<clock, refresh, poolWriter, dns, lastLookup,
                 dest, epoch, now, warmed>>

-----------------------------------------------------------------------------
(* warm: no lock is held while the resolver works. *)

WarmHit(t) ==
  /\ Goto(t, "warm", "open")
  /\ Dns!IsWarm(dns[sni[t]], now[t])
  /\ warmed' = [warmed EXCEPT ![t] = TRUE]
  /\ UNCHANGED <<clock, refresh, locks, caches, dest, epoch, now, sni>>

WarmMiss(t) ==
  /\ Goto(t, "warm", "resolve")
  /\ ~ Dns!IsWarm(dns[sni[t]], now[t])
  /\ UNCHANGED <<clock, refresh, locks, caches, locals>>

(* Nothing is awaited between the answer and the insertion. *)
Resolved(t, ttl) ==
  /\ Goto(t, "resolve", "open")
  /\ dns' = [dns EXCEPT ![sni[t]] = Dns!ExpiresAt(now[t], ttl)]
  /\ lastLookup' = [lastLookup EXCEPT ![sni[t]] = clock]
  /\ warmed' = [warmed EXCEPT ![t] = TRUE]
  /\ UNCHANGED <<clock, refresh, locks, sticky, dest, epoch, now, sni>>

(* The error is logged and the connection goes on. *)
ResolveFails(t) ==
  /\ Goto(t, "resolve", "open")
  /\ UNCHANGED <<clock, refresh, locks, caches, locals>>

-----------------------------------------------------------------------------
(* The tunnel, as the pipeline sees it. *)

TunnelOpens(t) ==
  /\ TunnelConfigured
  /\ Goto(t, "open", "relay")
  /\ UNCHANGED <<clock, refresh, locks, caches, locals>>

(* The task ends and its locals with it. *)
EndTask(t, from) ==
  /\ Goto(t, from, "idle")
  /\ dest' = [dest EXCEPT ![t] = None]
  /\ epoch' = [epoch EXCEPT ![t] = None]
  /\ now' = [now EXCEPT ![t] = None]
  /\ sni' = [sni EXCEPT ![t] = None]
  /\ warmed' = [warmed EXCEPT ![t] = FALSE]
  /\ UNCHANGED <<clock, refresh, locks, caches>>

TunnelFails(t) == EndTask(t, "open")
RelayEnds(t)   == EndTask(t, "relay")

-----------------------------------------------------------------------------
Refresh(t) ==
  \/ ReadEpoch(t) \/ EpochUnchanged(t) \/ EpochChanged(t)
  \/ LockPoolForWrite(t) \/ AssignPool(t) \/ SendEpoch(t)

SelectSni(t) ==
  \/ ReadNow(t) \/ LockSelector(t) \/ LockPoolForRead(t) \/ Pick(t)

Warm(t) ==
  \/ WarmHit(t) \/ WarmMiss(t)
  \/ \E ttl \in Ttls : Resolved(t, ttl)
  \/ ResolveFails(t)

Tunnel(t) == TunnelOpens(t) \/ TunnelFails(t) \/ RelayEnds(t)

Next ==
  \/ Tick
  \/ \E t \in Tasks :
       \/ \E d \in Dests : Accept(t, d)
       \/ Refresh(t) \/ SelectSni(t) \/ Warm(t) \/ Tunnel(t)

Spec == Init /\ [][Next]_vars

(* Once spawned a task is polled until it is done, tokio's Mutex and       *)
(* RwLock serve their waiters in order, and a resolver answers or fails.   *)
(* No fairness on arriving connections, the clock or the tunnel.           *)
Fairness ==
  \A t \in Tasks :
    /\ WF_vars(ReadEpoch(t)) /\ WF_vars(EpochUnchanged(t) \/ EpochChanged(t))
    /\ SF_vars(LockPoolForWrite(t)) /\ WF_vars(AssignPool(t)) /\ WF_vars(SendEpoch(t))
    /\ WF_vars(ReadNow(t)) /\ SF_vars(LockSelector(t)) /\ SF_vars(LockPoolForRead(t))
    /\ WF_vars(Pick(t)) /\ WF_vars(Warm(t))

FairSpec == Spec /\ Fairness

-----------------------------------------------------------------------------
(* Types, and that no task reaches a step of handle_connection before the  *)
(* local that the step reads has been set.                                 *)
TypeOK ==
  /\ clock \in 0..MaxClock
  /\ pool \in SUBSET SNI
  /\ currentEpoch \in Epoch
  /\ poolWriter \in Tasks \cup {None}
  /\ poolReaders \in SUBSET Tasks
  /\ selectorOwner \in Tasks \cup {None}
  /\ sticky \in [Dests -> Sel!StickyEntry \cup {None}]
  /\ dns \in [Hosts -> Nat \cup {None}]
  /\ pc \in [Tasks -> {"idle", "readEpoch"} \cup AfterReadEpoch]
  /\ dest \in [Tasks -> Dests \cup {None}]
  /\ epoch \in [Tasks -> Epoch \cup {None}]
  /\ now \in [Tasks -> Nat \cup {None}]
  /\ sni \in [Tasks -> Hosts \cup {None}]
  /\ warmed \in [Tasks -> BOOLEAN]
  /\ lastLookup \in [Hosts -> Nat \cup {None}]
  /\ raced \in BOOLEAN
  /\ \A t \in Tasks :
       /\ pc[t] # "idle" => dest[t] \in Dests
       /\ pc[t] \in AfterReadEpoch => epoch[t] \in Epoch
       /\ pc[t] \in AfterReadNow => now[t] \in Nat
       /\ pc[t] \in AfterPick => sni[t] \in Hosts
       /\ warmed[t] => pc[t] \in {"open", "relay"}

(* Outside a refresh the pool is the window of the epoch the watch channel *)
(* holds, provided that no two refreshes for different epochs overlapped:  *)
(* then a connection that finds the epoch unchanged may use the pool as it *)
(* is.  The pool and the channel are written in two steps with awaits and  *)
(* other tasks in between.                                                 *)
PoolFollowsEpochUnlessRaced ==
  ~raced /\ Refreshers = {} => pool = AcceptedPoolWindow(currentEpoch)

(* The same without the proviso, as the comment on Pipeline has it: "The   *)
(* pool is refreshed whenever the epoch advances".                         *)
PoolFollowsEpoch ==
  Refreshers = {} => pool = AcceptedPoolWindow(currentEpoch)

(* A connection never presents a name that has left the pool by the time   *)
(* it picks, whichever task cached the name and however long ago: the pool *)
(* may have rolled since.                                                  *)
PicksFromLivePool ==
  [][\A t \in Tasks : pc[t] = "pick" /\ pc'[t] = "warm" => sni'[t] \in pool]_vars

(* The SNI of a destination does not flip while it is due: the entry is    *)
(* replaced only once it has expired by the wall clock or the pool has     *)
(* dropped it, although each task compares it with a time it read before   *)
(* waiting for the selector.                                               *)
StickyUntilDue ==
  [][\A d \in Dests :
       sticky[d] # None /\ sticky'[d] # sticky[d] =>
         clock >= sticky[d].expires \/ sticky[d].sni \notin pool]_vars

(* A connection whose warm succeeded presents a name that was really       *)
(* resolved after the connection's time or less than max_ttl before it,    *)
(* in whatever order the answers of concurrent lookups came.               *)
WarmIsBackedByLookup ==
  \A t \in Tasks : warmed[t] =>
    /\ lastLookup[sni[t]] # None
    /\ now[t] <= lastLookup[sni[t]] \/ now[t] < lastLookup[sni[t]] + MaxTtl

(* The promise of dns-warmer: before Hydra presents SNI=X it must have     *)
(* performed a lookup of X.                                                *)
ResolvedBeforePresented ==
  \A t \in Tasks : pc[t] \in {"open", "relay"} => lastLookup[sni[t]] # None

(* Nobody waits for ever on the pool, the selector or the resolver: every  *)
(* accepted connection gets to open its tunnel.                            *)
ConnectionReachesTunnel ==
  \A t \in Tasks : pc[t] = "readEpoch" ~> pc[t] = "open"
=============================================================================
