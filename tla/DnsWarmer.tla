------------------------------ MODULE DnsWarmer ------------------------------
(***************************************************************************)
(* The cache decisions of dns-warmer's DnsWarmer: a cached resolution is   *)
(* the tick at which it goes stale, or None.                            *)
(***************************************************************************)
EXTENDS Naturals

CONSTANTS
  MinTtl, MaxTtl,  \* WarmerConfig
  None             \* the host has no entry in the map

(* Duration::clamp panics unless MinTtl <= MaxTtl; the defaults are 30 s   *)
(* and 1 h.                                                                *)
ClampTtl(ttl) ==
  IF ttl < MinTtl THEN MinTtl ELSE IF ttl > MaxTtl THEN MaxTtl ELSE ttl

(* is_warm, and the fast path of warm. *)
IsWarm(entry, now) == entry # None /\ now < entry

(* Faulty variant: the advertised TTL is taken as it is. *)
ExpiresAtUnclamped(now, ttl) == now + ttl

(* When a resolution with this ttl goes stale, counted from the time the   *)
(* connection passed in, not from the time the answer came.                *)
ExpiresAt(now, ttl) == now + ClampTtl(ttl)
=============================================================================
