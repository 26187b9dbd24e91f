---------------------------- MODULE PoolDerivation ----------------------------
(***************************************************************************)
(* How client and exit node come to the same pool without talking: each    *)
(* loads its own copy of the configuration and runs the keyed sampler.     *)
(*                                                                         *)
(* A name is its rank in the order of strings, 0 the empty one; weight 0   *)
(* stands for one that is not finite or not positive.  HMAC and ChaCha20   *)
(* are a random function: the draws of a seed are arbitrary, and the same  *)
(* ever after.  A draw is -ln(u), so that the sampler's key ln(u)/weight   *)
(* is -draw/weight; keys are compared exactly, ties included.              *)
(***************************************************************************)
EXTENDS Integers, FiniteSets, Sequences, Functions

CONSTANTS
  End,         \* the programs that derive pools
  RawConfigs,  \* the configuration files they may be given
  KeyMaterial, \* the values of (master_secret, server_salt)
  Epochs,      \* the epochs they derive pools for
  MaxLen,      \* bound on the length of a master list
  MaxDraw      \* bound on the draws

Entry == [sni : Nat, weight : Nat]
RawConfig == [key : KeyMaterial, decodes : BOOLEAN, k : Nat, pool : Seq(Entry)]
Draws == [1..MaxLen -> 0..MaxDraw]

ASSUME DerivationAssumption ==
  /\ MaxLen \in Nat /\ MaxDraw \in Nat
  /\ KeyMaterial # {}
  /\ \A raw \in RawConfigs :
       /\ raw.key \in KeyMaterial /\ raw.decodes \in BOOLEAN /\ raw.k \in Nat
       /\ raw.pool \in Seq(Entry) /\ Len(raw.pool) <= MaxLen

VARIABLES
  config,  \* each end's HydraConfig, Blank before it has one
  pools,   \* the pools each end has derived since it loaded it
  stream   \* the draws of each seed

vars == <<config, pools, stream>>

(* The seed: the epoch is part of it.                                      *)
Seeds == KeyMaterial \X Epochs

Blank == [key |-> CHOOSE key \in KeyMaterial : TRUE, k |-> 0, list |-> <<>>]
Loaded(c) == c.list # <<>>

Init ==
  /\ config = [e \in End |-> Blank]
  /\ pools = [e \in End |-> {}]
  /\ stream \in [Seeds -> Draws]

(* The enumerations of a finite set that follow a strict order.            *)
Sorted(S, order) ==
  { s \in Bijection(1..Cardinality(S), S) :
      \A i, j \in 1..Cardinality(S) : i < j => <<s[i], s[j]>> \in order }

-----------------------------------------------------------------------------
(* Loading a configuration: into_config and MasterList::new.               *)

(* Faulty: weights are not looked at.                                      *)
ValidPoolAnyWeight(es) ==
  /\ es # <<>>
  /\ \A i \in DOMAIN es : es[i].sni # 0
  /\ \A i, j \in DOMAIN es : es[i].sni = es[j].sni => i = j

ValidPool(es) ==
  /\ es # <<>>
  /\ \A i \in DOMAIN es : es[i].sni # 0 /\ es[i].weight # 0
  /\ \A i, j \in DOMAIN es : es[i].sni = es[j].sni => i = j

(* Faulty: an active_k of zero is let through.                             *)
AcceptableAnyK(raw) == raw.decodes /\ ValidPool(raw.pool)

(* "decodes" covers the fields that are only parsed: the format, the       *)
(* lengths of secret, salt, keys and pin, the duration.                    *)
Acceptable(raw) == raw.decodes /\ raw.k # 0 /\ ValidPool(raw.pool)

BySni(S) == { p \in S \X S : p[1].sni < p[2].sni }

(* Faulty: the list keeps the order of the file.                           *)
MasterListAsGiven(es) == {es}

MasterList(es) == Sorted(Range(es), BySni(Range(es)))

(* A program starts with a configuration file, or refuses it.              *)
Load(e, raw) ==
  /\ IF Acceptable(raw)
     THEN \E list \in MasterList(raw.pool) :
            config' = [config EXCEPT ![e] = [key |-> raw.key, k |-> raw.k, list |-> list]]
     ELSE config' = [config EXCEPT ![e] = Blank]
  /\ pools' = [pools EXCEPT ![e] = {}]
  /\ UNCHANGED stream

-----------------------------------------------------------------------------
(* The sampler: one draw per entry of the sorted list, largest keys first. *)

(* Faulty: the logarithm is multiplied by the weight.                      *)
WinsMultiplied(list, draws, i, j) ==
  LET x == draws[i] * list[i].weight
      y == draws[j] * list[j].weight
  IN  x < y \/ (x = y /\ list[i].sni < list[j].sni)

(* -draws[i]/weight[i] > -draws[j]/weight[j], without the division.        *)
Wins(list, draws, i, j) ==
  LET x == draws[i] * list[j].weight
      y == draws[j] * list[i].weight
  IN  x < y \/ (x = y /\ list[i].sni < list[j].sni)

ByKey(list, draws) ==
  { p \in (DOMAIN list) \X (DOMAIN list) : Wins(list, draws, p[1], p[2]) }

Clamp(k, n) == IF k < n THEN k ELSE n

(* The pools the sampler may return; the sort leaves it one.               *)
SubsetFromSeed(list, draws, k) ==
  { { list[keyed[i]] : i \in 1..Clamp(k, Len(list)) } :
      keyed \in Sorted(DOMAIN list, ByKey(list, draws)) }

Derive(e, epoch) ==
  /\ Loaded(config[e])
  /\ LET c == config[e] IN
       \E names \in SubsetFromSeed(c.list, stream[<<c.key, epoch>>], c.k) :
         pools' = [pools EXCEPT ![e] = @ \cup {[epoch |-> epoch, entries |-> names]}]
  /\ UNCHANGED <<config, stream>>

Next == \E e \in End :
  \/ \E raw \in RawConfigs : Load(e, raw)
  \/ \E epoch \in Epochs : Derive(e, epoch)

Spec == Init /\ [][Next]_vars

-----------------------------------------------------------------------------
(* Properties.                                                             *)

IsConfig(c) ==
  /\ c.key \in KeyMaterial
  /\ c.k \in Nat \ {0}
  /\ c.list \in Seq([sni : Nat \ {0}, weight : Nat \ {0}])
  /\ Len(c.list) \in 1..MaxLen
  /\ \A i, j \in DOMAIN c.list : i < j => c.list[i].sni < c.list[j].sni

(* Types; a configuration that was not refused has what the sampler relies *)
(* on: positive weights and a list in strict order.                        *)
TypeOK ==
  /\ DOMAIN config = End
  /\ \A e \in End : config[e] = Blank \/ IsConfig(config[e])
  /\ pools \in [End -> SUBSET [epoch : Epochs, entries : SUBSET Entry]]
  /\ \A e \in End : pools[e] # {} => Loaded(config[e])
  /\ stream \in [Seeds -> Draws]

(* "The load-bearing property: client and server derive the same epoch     *)
(* pool from the same inputs": two ends that hold the same entries, in     *)
(* whatever order their files list them, and the same keys.  If they       *)
(* differ in active_k the smaller pool is part of the larger.              *)
PoolsNest ==
  \A d, e \in End : \A p \in pools[d], q \in pools[e] :
    /\ p.epoch = q.epoch
    /\ config[d].key = config[e].key
    /\ Range(config[d].list) = Range(config[e].list)
    /\ config[d].k <= config[e].k
    => p.entries \subseteq q.entries

(* What EpochPool assumes of the subsets, for every file that loads: the   *)
(* pool has min(k, n) entries of the master list, so it is never empty.    *)
PoolSize ==
  \A e \in End : \A p \in pools[e] :
    /\ p.entries \subseteq Range(config[e].list)
    /\ Cardinality(p.entries) = Clamp(config[e].k, Len(config[e].list))
    /\ p.entries # {}

(* A weight biases the way it should: between two lists that differ in the *)
(* weight of one name only, the heavier name is in whenever the lighter is.*)
HeavierStaysIn ==
  \A d, e \in End : \A p \in pools[d], q \in pools[e] :
    /\ p.epoch = q.epoch
    /\ config[d].key = config[e].key
    /\ config[d].k = config[e].k
    => \A x \in p.entries, y \in Range(config[e].list) :
         /\ x.sni = y.sni
         /\ x.weight <= y.weight
         /\ Range(config[d].list) \ {x} = Range(config[e].list) \ {y}
         => y \in q.entries
=============================================================================
