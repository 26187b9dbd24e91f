------------------------------ MODULE HealthSweep ------------------------------
(***************************************************************************)
(* health-checker: one sweep over the master list.  For each entry a DNS   *)
(* lookup and then a handshake are awaited, and the world may change       *)
(* between any two of them; the first that cannot be made ends the sweep.  *)
(*                                                                         *)
(* A DNS name is its sequence of labels, "" an empty one (a trailing dot   *)
(* is a trailing empty label).  Addresses, ALPN values and round trips are *)
(* abstract.                                                               *)
(***************************************************************************)
EXTENDS Integers, Sequences, FiniteSets

CONSTANTS
  Master,        \* the entries of the master list, in order
  Lower,         \* the lower-case form of each label
  Cidrs,         \* the coherence allowlist: a set of networks, each its addresses
  Answers,       \* what a lookup may return: sets of addresses
  Observations,  \* what a handshake may show
  MinRtt, MaxRtt \* the latency band

(* A list is not empty and has no name twice (MasterList::new); a name has *)
(* at least one label.                                                     *)
ASSUME SweepAssumption ==
  /\ Master \in Seq([sni : Seq(DOMAIN Lower) \ {<<>>}, weight : Nat]) \ {<<>>}
  /\ \A i, j \in DOMAIN Master : Master[i].sni = Master[j].sni => i = j
  /\ \A obs \in Observations : obs.sans \subseteq Seq(DOMAIN Lower) \ {<<>>} /\ obs.rtt \in Int
  /\ MinRtt \in Int /\ MaxRtt \in Int

VARIABLES
  phase,     \* "idle", "resolve", "inspect", "done" or "aborted"
  coherent,  \* axis (a) of the entry whose handshake is awaited
  reports,   \* the verdicts so far, in the order of the list
  pruned,    \* the pool the caller of check_all and prune has, if any
  seen       \* history: what was really seen of each entry in this sweep

sweepVars == <<phase, coherent, reports, pruned, seen>>

NoPool == <<>>
Some(pool) == <<pool>>
Current == Master[Len(reports) + 1]

SweepInit ==
  /\ phase = "idle"
  /\ coherent = FALSE
  /\ reports = <<>>
  /\ pruned = NoPool
  /\ seen = <<>>

-----------------------------------------------------------------------------
(* The axes.                                                               *)

(* trim_end_matches('.') and to_ascii_lowercase.                           *)
Normalized(name) ==
  LET kept == { i \in DOMAIN name : i = 1 \/ \E j \in i..Len(name) : name[j] # "" }
  IN  [i \in 1..Cardinality(kept) |-> Lower[name[i]]]

(* Faulty: a wildcard stands for any number of labels.                     *)
DnsNameMatchesSuffix(sni, pattern) ==
  LET s == Normalized(sni)
      p == Normalized(pattern)
  IN  IF p[1] # "*" \/ Len(p) = 1 THEN s = p
      ELSE Len(s) >= Len(p) /\ SubSeq(s, Len(s) - Len(p) + 2, Len(s)) = Tail(p)

DnsNameMatches(sni, pattern) ==
  LET s == Normalized(sni)
      p == Normalized(pattern)
  IN  /\ s # <<"">> /\ p # <<"">>
      /\ IF p[1] # "*" \/ Len(p) = 1 THEN s = p
         ELSE /\ Len(Tail(p)) >= 2
              /\ Len(s) >= 2 /\ s[1] # "" /\ Tail(s) = Tail(p)

SniMatchesAny(sni, sans) == \E san \in sans : DnsNameMatches(sni, san)

(* Faulty: an empty answer is in range.                                    *)
ContainsAllOfNone(addrs) == \A ip \in addrs : \E net \in Cidrs : ip \in net

ContainsAll(addrs) ==
  /\ addrs # {}
  /\ \A ip \in addrs : \E net \in Cidrs : ip \in net

InBand(rtt) == MinRtt <= rtt /\ rtt <= MaxRtt

Verdict(entry, isCoherent, obs) ==
  [sni |-> entry.sni,
   coherent |-> isCoherent,
   sanMatch |-> SniMatchesAny(entry.sni, obs.sans),
   alpnH2 |-> obs.alpn = "h2",
   tls13 |-> obs.tls13,
   latencyOk |-> InBand(obs.rtt)]

(* Faulty: the protocol version is forgotten.                              *)
IsHealthyAnyTls(h) == h.coherent /\ h.sanMatch /\ h.alpnH2 /\ h.latencyOk

IsHealthy(h) == h.coherent /\ h.sanMatch /\ h.alpnH2 /\ h.tls13 /\ h.latencyOk

(* The surviving entries keep their weights.                               *)
Prune(hs) ==
  LET healthy == { hs[i].sni : i \in { j \in DOMAIN hs : IsHealthy(hs[j]) } }
  IN  { Master[i] : i \in { j \in DOMAIN Master : Master[j].sni \in healthy } }

-----------------------------------------------------------------------------
(* The sweep.                                                              *)

(* The constructors refuse an empty allowlist and an inverted band.        *)
AllowlistParses == Cidrs # {}
BandIsOrdered == MinRtt <= MaxRtt

StartSweep ==
  /\ phase \in {"idle", "done", "aborted"}
  /\ AllowlistParses /\ BandIsOrdered
  /\ phase' = "resolve"
  /\ reports' = <<>>
  /\ pruned' = NoPool
  /\ seen' = <<>>
  /\ UNCHANGED coherent

(* What the answer and the handshake show, said independently of the code: *)
(* see the reference definitions below.                                    *)
InRange(addrs) == addrs # {} /\ addrs \subseteq UNION Cidrs

Covers(pattern, sni) ==
  LET p == Normalized(pattern)
      s == Normalized(sni)
      wild == Len(p) > 1 /\ p[1] = "*"
  IN  /\ Len(p) = Len(s) /\ p # <<"">>
      /\ \A i \in DOMAIN p : p[i] = s[i] \/ (i = 1 /\ wild /\ s[i] # "")
      /\ wild => Len(p) > 2

Resolve ==
  /\ phase = "resolve"
  /\ \E addrs \in Answers :
       /\ coherent' = ContainsAll(addrs)
       /\ seen' = Append(seen, InRange(addrs))
  /\ phase' = "inspect"
  /\ UNCHANGED <<reports, pruned>>

Good(entry, obs) ==
  /\ \E san \in obs.sans : Covers(san, entry.sni)
  /\ obs.tls13 /\ obs.alpn = "h2" /\ obs.rtt \in MinRtt..MaxRtt

(* The verdict of the last entry ends the sweep, and its caller prunes.    *)
Inspect ==
  /\ phase = "inspect"
  /\ \E obs \in Observations :
       LET hs == Append(reports, Verdict(Current, coherent, obs))
           last == Len(hs) = Len(Master)
       IN  /\ reports' = hs
           /\ seen' = [seen EXCEPT ![Len(hs)] = @ /\ Good(Current, obs)]
           /\ phase' = IF last THEN "done" ELSE "resolve"
           /\ pruned' = IF last THEN Some(Prune(hs)) ELSE NoPool
  /\ UNCHANGED coherent

(* Faulty: the sweep stops at the failure and prunes with what it has.     *)
PoolAfterFailureSome == Some(Prune(reports))

PoolAfterFailure == NoPool

(* The resolver or the inspector fails: `?` drops the reports.             *)
ProbeFails ==
  /\ phase \in {"resolve", "inspect"}
  /\ phase' = "aborted"
  /\ pruned' = PoolAfterFailure
  /\ reports' = <<>>
  /\ seen' = <<>>
  /\ UNCHANGED coherent

SweepNext == StartSweep \/ Resolve \/ Inspect \/ ProbeFails

SweepSpec == SweepInit /\ [][SweepNext]_sweepVars

-----------------------------------------------------------------------------
(* Properties.                                                             *)

(* A pool comes from a sweep that got to the end of the list, holds the    *)
(* entries every axis of which was seen to be good in that sweep, and all  *)
(* of them: nothing that an empty answer, a wildcard or a handshake at the *)
(* edge of the band let through, and no good entry lost for another's sake.*)
PruneIsExact ==
  pruned # NoPool =>
    /\ Len(seen) = Len(Master)
    /\ pruned = Some({ Master[i] : i \in { j \in DOMAIN Master : seen[j] } })
=============================================================================
