------------------------------ MODULE MCLibraries ------------------------------
(* The parts that share no state: a behaviour is one of one of them, the   *)
(* other parts staying where they start.                                   *)
EXTENDS PoolDerivation, HeaderCodec, Metrics, HealthSweep, RealityAuth

CONSTANTS material  \* the key material of the pools

VARIABLES part

poolVars == <<config, pools, stream>>

(* The pools: files with three names in every order, the weight of one of  *)
(* them light or heavy, and every active_k from zero to beyond the list;   *)
(* files that are refused; and a shorter list.                             *)
Of(k, pool) == [key |-> material, decodes |-> TRUE, k |-> k, pool |-> pool]
Item(s, w) == [sni |-> s, weight |-> w]

Weights == { [s \in 1..3 |-> IF s = 2 THEN w ELSE s] : w \in {1, 3} }
Lists == { [i \in 1..3 |-> Item(p[i], w[p[i]])] : p \in Bijection(1..3, 1..3), w \in Weights }

MCRawConfigs ==
  { Of(k, l) : k \in {0, 1, 2, 4}, l \in Lists }
    \cup { Of(1, l) : l \in { <<>>, <<Item(1, 0)>>, <<Item(0, 1)>>,
                              <<Item(1, 1), Item(1, 2)>>, <<Item(2, 1), Item(1, 1)>> } }
    \cup { [Of(1, <<Item(1, 1)>>) EXCEPT !.decodes = FALSE] }

(* The header: the two fixed lengths, and names from the empty one to one  *)
(* that is too long; a port whose bytes differ; a small first payload.     *)
Twos(n) == [i \in 1..n |-> Byte(2)]

MCUtf8 == UNION { [1..n -> {Byte(0), Byte(2)}] : n \in 0..5 }
MCTargets ==
  { [atyp |-> AtypV4, addr |-> Twos(V4Len), port |-> 8],
    [atyp |-> AtypV6, addr |-> Twos(V6Len), port |-> 1] }
    \cup { [atyp |-> AtypDomain, addr |-> Twos(n), port |-> 8] : n \in 0..4 }
MCStamps == {0, 7, 9}
MCPayloads == { <<>>, <<Byte(1), Byte(3)>> }

(* The counters: two, so that a snapshot can be overtaken.                 *)
MCNames == <<"attempts", "failures">>

(* The sweep: a name of three labels and its parent written as a file may  *)
(* write it, every pattern of up to four labels, and each other axis good, *)
(* bad and at its edges.                                                   *)
Labels == {"a", "A", "b", "*", ""}
MCLower == [l \in Labels |-> IF l = "A" THEN "a" ELSE l]
MCMaster == << [sni |-> <<"a", "b", "a">>, weight |-> 1], [sni |-> <<"b", "A", "">>, weight |-> 2] >>
MCCidrs == { {"in1"}, {"in2", "in1"} }
MCAnswers == { {}, {"in1"}, {"in1", "in2"}, {"in1", "out"} }

Patterns == UNION { [1..n -> Labels] : n \in 1..4 }
GoodSite == [sans |-> { <<"*", "b", "a">>, <<"b", "a">> }, alpn |-> "h2", tls13 |-> TRUE, rtt |-> 2]
MCObservations ==
  { [GoodSite EXCEPT !.sans = {p}] : p \in Patterns }
    \cup { [GoodSite EXCEPT !.rtt = r] : r \in 0..4 }
    \cup { [GoodSite EXCEPT !.sans = {}], [GoodSite EXCEPT !.alpn = "http/1.1"],
           [GoodSite EXCEPT !.alpn = "none"], [GoodSite EXCEPT !.tls13 = FALSE] }

(* The proof: short ids around the length of the field and of the limit,   *)
(* one with a trailing zero; clocks around MaxTimeDiff and around the last *)
(* date the field can hold.                                                *)
Id(n) == [i \in 1..n |-> Byte(i)]

MCShortIds == { Id(n) : n \in 0..4 } \cup { <<Byte(1), Byte(0)>>, <<Byte(2)>> }
MCServerIds == { Id(2), <<Byte(2)>> }
MCTimes == (6..11) \cup (34..38)
MCSkews == {-1, 0, 2}

-----------------------------------------------------------------------------
Parts == {"pools", "header", "metrics", "sweep", "auth"}

Init_ ==
  /\ part \in Parts
  /\ Init /\ HeaderInit /\ MetricsInit /\ SweepInit /\ AuthInit
  /\ part # "pools" => stream = CHOOSE s \in [Seeds -> Draws] : TRUE
  /\ part # "auth" => time = 6 /\ skew = 0

Next_ ==
  \/ part = "pools" /\ Next
       /\ UNCHANGED <<part, headerVars, metricsVars, sweepVars, authVars>>
  \/ part = "header" /\ HeaderNext
       /\ UNCHANGED <<part, poolVars, metricsVars, sweepVars, authVars>>
  \/ part = "metrics" /\ MetricsNext
       /\ UNCHANGED <<part, poolVars, headerVars, sweepVars, authVars>>
  \/ part = "sweep" /\ SweepNext
       /\ UNCHANGED <<part, poolVars, headerVars, metricsVars, authVars>>
  \/ part = "auth" /\ AuthNext
       /\ UNCHANGED <<part, poolVars, headerVars, metricsVars, sweepVars>>
=============================================================================
