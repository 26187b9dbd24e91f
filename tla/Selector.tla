------------------------------ MODULE Selector -------------------------------
(***************************************************************************)
(* The sticky choice of pool-engine's Selector: what one call of select    *)
(* may leave in the cache entry of its destination.  The returned SNI is   *)
(* the entry's.  The map itself is a variable of the module that owns the  *)
(* selector.                                                               *)
(***************************************************************************)
EXTENDS Naturals

CONSTANTS
  SNI,        \* the names a pool may hold
  StickyTtl,  \* sticky_ttl_ms, a natural number
  None        \* the destination has no entry in the map

StickyEntry == [sni : SNI, expires : Nat]

(* Faulty variant: the entry may name an SNI the pool has dropped. *)
ReusableWhateverThePool(entry, pool, now) ==
  /\ entry # None
  /\ now < entry.expires

(* The cached choice is returned if it is fresh and the pool still has it. *)
Reusable(entry, pool, now) ==
  /\ entry # None
  /\ now < entry.expires
  /\ entry.sni \in pool

(* A fresh draw may return any member: every weight is positive. *)
Drawn(pool, now) == { [sni |-> s, expires |-> now + StickyTtl] : s \in pool }

(* Faulty variant: a fresh entry is drawn anew for every connection. *)
SelectUncached(entry, pool, now) == Drawn(pool, now)

Select(entry, pool, now) ==
  IF Reusable(entry, pool, now) THEN {entry} ELSE Drawn(pool, now)
=============================================================================
