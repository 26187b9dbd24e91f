--------------------------- MODULE EpochPoolProofs ---------------------------
(* Facts about the epoch arithmetic and the pools, for every epoch length  *)
(* and every sampler.                                                      *)
EXTENDS EpochPool, TLAPS

(* Euclid's division is monotonic in the dividend. *)
LEMMA DivMonotonic ==
  ASSUME NEW x \in Nat, NEW y \in Nat, NEW n \in Nat \ {0}, x <= y
  PROVE  x \div n \in Nat /\ x \div n <= y \div n
<1> DEFINE q == x \div n
           r == y \div n
<1>1. q \in Nat /\ r \in Nat  OBVIOUS
<1>2. n * q <= x /\ y < n * (r + 1)
  OBVIOUS
<1>3. q < r + 1
  <2>1. SUFFICES ASSUME r + 1 <= q PROVE FALSE
    BY <1>1
  <2>2. n * (r + 1) <= n * q
    BY <1>1, <2>1
  <2> QED
    BY <1>1, <1>2, <2>2
<1> QED
  BY <1>1, <1>3

(* A step of at most n over the dividend raises the quotient by one at     *)
(* most.                                                                   *)
LEMMA DivGap ==
  ASSUME NEW x \in Nat, NEW y \in Nat, NEW n \in Nat \ {0}, y <= x + n
  PROVE  y \div n <= (x \div n) + 1
<1> DEFINE q == x \div n
           r == y \div n
<1>1. q \in Nat /\ r \in Nat  OBVIOUS
<1>2. x < n * (q + 1) /\ n * r <= y
  OBVIOUS
<1>3. n * r < n * (q + 2)
  BY <1>1, <1>2
<1>4. r < q + 2
  <2>1. SUFFICES ASSUME q + 2 <= r PROVE FALSE
    BY <1>1
  <2>2. n * (q + 2) <= n * r
    BY <1>1, <2>1
  <2> QED
    BY <1>1, <1>3, <2>2
<1> QED
  BY <1>1, <1>4

(* epoch_at never goes back as the time goes on, also for epoch_len = 0. *)
LEMMA EpochAtMonotonic ==
  ASSUME NEW x \in Nat, NEW y \in Nat, x <= y
  PROVE  EpochAt(x) \in Nat /\ EpochAt(x) <= EpochAt(y)
BY DivMonotonic, EpochPoolAssumption DEF EpochAt

(* Times at most one epoch length apart lie at most one epoch apart.       *)
LEMMA EpochAtGap ==
  ASSUME NEW x \in Nat, NEW y \in Nat, x <= y, y <= x + EpochLen
  PROVE  EpochAt(x) <= EpochAt(y) /\ EpochAt(y) <= EpochAt(x) + 1
<1>1. EpochAt(x) <= EpochAt(y)
  BY EpochAtMonotonic
<1>2. CASE EpochLen = 0
  BY <1>1, <1>2 DEF EpochAt
<1>3. CASE EpochLen # 0
  BY <1>1, <1>3, DivGap, EpochPoolAssumption DEF EpochAt
<1> QED
  BY <1>2, <1>3

(* The window stays within the type of epochs: both ends saturate. *)
LEMMA EpochWindowType ==
  ASSUME NEW e \in Epoch
  PROVE  e \in EpochWindow(e) /\ EpochWindow(e) \subseteq Epoch
BY EpochPoolAssumption DEF EpochWindow, Epoch

(* An accepted window holds names of the master list, and at least one: a  *)
(* pick from it cannot come out empty.                                     *)
LEMMA WindowType ==
  ASSUME NEW e \in Epoch
  PROVE  /\ AcceptedPoolWindow(e) \subseteq SNI
         /\ AcceptedPoolWindow(e) # {}
<1>1. \A x \in EpochWindow(e) : KeyedEpochSubset[x] \subseteq SNI
  BY EpochWindowType, EpochPoolAssumption DEF Epoch
<1>2. KeyedEpochSubset[e] # {}
  BY EpochPoolAssumption DEF Epoch
<1> QED
  BY <1>1, <1>2, EpochWindowType DEF AcceptedPoolWindow
=============================================================================
