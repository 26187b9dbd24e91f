---------------------------- MODULE RotationProofs ----------------------------
(* What the +-1 window guarantees, for every epoch length, period, skew    *)
(* and sampler.                                                            *)
EXTENDS Rotation, EpochPoolProofs, TLAPS

LEMMA DistType ==
  ASSUME NEW x \in Nat, NEW y \in Nat
  PROVE  Dist(x, y) \in Nat /\ x <= y + Dist(x, y) /\ y <= x + Dist(x, y)
BY DEF Dist

(* Both clocks show epochs of the type. *)
LEMMA ClockEpoch ==
  ASSUME NEW x \in 0..MaxClock
  PROVE  EpochAt(x) \in Epoch
<1>1. x \in Nat /\ MaxClock \in Nat /\ x <= MaxClock
  BY RotationAssumption
<1>2. EpochAt(x) \in Nat /\ EpochAt(MaxClock) \in Nat /\ EpochAt(x) <= EpochAt(MaxClock)
  BY <1>1, EpochAtMonotonic
<1> QED
  BY <1>2, RotationAssumption, EpochPoolAssumption DEF Epoch

(* The window of an epoch covers the subsets of its neighbours, also at    *)
(* the two ends where it saturates.                                        *)
LEMMA NeighbourCovered ==
  ASSUME NEW e \in Epoch, NEW f \in Epoch, Dist(e, f) <= 1
  PROVE  KeyedEpochSubset[f] \subseteq AcceptedPoolWindow(e)
<1>1. f \in EpochWindow(e)
  BY EpochPoolAssumption DEF EpochWindow, Epoch, Dist
<1> QED
  BY <1>1 DEF AcceptedPoolWindow

(* Windows up to two epochs apart share an epoch, so a name.               *)
LEMMA WindowsMeet ==
  ASSUME NEW e \in Epoch, NEW f \in Epoch, Dist(e, f) <= 2
  PROVE  AcceptedPoolWindow(e) \cap AcceptedPoolWindow(f) # {}
<1>1. PICK g \in Epoch : g \in EpochWindow(e) /\ g \in EpochWindow(f)
  <2>1. CASE e <= f
    <3>1. CASE e = f
      BY <3>1 DEF EpochWindow
    <3>2. CASE e # f
      <4>1. e + 1 \in Epoch /\ e + 1 \in EpochWindow(e) /\ e + 1 \in EpochWindow(f)
        BY <2>1, <3>2, EpochPoolAssumption DEF EpochWindow, Epoch, Dist
      <4> QED
        BY <4>1
    <3> QED
      BY <3>1, <3>2
  <2>2. CASE f < e
    <3>1. f + 1 \in Epoch /\ f + 1 \in EpochWindow(e) /\ f + 1 \in EpochWindow(f)
      BY <2>2, EpochPoolAssumption DEF EpochWindow, Epoch, Dist
    <3> QED
      BY <3>1
  <2> QED
    BY <2>1, <2>2, EpochPoolAssumption DEF Epoch
<1>2. KeyedEpochSubset[g] # {}
  BY EpochPoolAssumption DEF Epoch
<1> QED
  BY <1>1, <1>2 DEF AcceptedPoolWindow

-----------------------------------------------------------------------------
(* Every set of names in the system is the window of the time recorded for *)
(* it.                                                                     *)
THEOREM RotationTypeCorrect == Spec => []TypeOK
<1>1. Init => TypeOK
  BY ClockEpoch, RotationAssumption DEF Init, TypeOK, ServerNames
<1>2. TypeOK /\ [Next]_vars => TypeOK'
  <2> SUFFICES ASSUME TypeOK, [Next]_vars PROVE TypeOK'
    OBVIOUS
  <2> USE RotationAssumption DEF TypeOK
  <2>1. CASE Tick
    BY <2>1 DEF Tick
  <2>2. CASE ClientTick
    BY <2>2 DEF ClientTick
  <2>3. CASE PrintServerNames
    BY <2>3 DEF PrintServerNames, ServerNames
  <2>4. CASE Reload
    BY <2>4 DEF Reload
  <2>5. CASE Connect
    <3>1. clientEpoch' \in Epoch /\ clientPool' = AcceptedPoolWindow(clientEpoch')
      BY <2>5, ClockEpoch DEF Connect
    <3>2. presented' \in SNI
      BY <2>5, <3>1, WindowType DEF Connect
    <3> QED
      BY <2>5, <3>1, <3>2 DEF Connect
  <2>6. CASE UNCHANGED vars
    BY <2>6 DEF vars
  <2> QED
    BY <2>1, <2>2, <2>3, <2>4, <2>5, <2>6 DEF Next
<1> QED
  BY <1>1, <1>2, PTL DEF Spec

(* The loaded names cover the client's subset while skew and lag together  *)
(* stay within one epoch length.                                           *)
THEOREM SkewBudget == Spec => []SkewAndLagTolerated
<1>1. TypeOK => SkewAndLagTolerated
  <2> SUFFICES ASSUME TypeOK, Dist(clientClock, acceptedAt) <= EpochLen
               PROVE  KeyedEpochSubset[EpochAt(clientClock)] \subseteq accepted
    BY DEF SkewAndLagTolerated
  <2>1. /\ clientClock \in 0..MaxClock /\ acceptedAt \in 0..MaxClock
        /\ clientClock \in Nat /\ acceptedAt \in Nat
    BY RotationAssumption DEF TypeOK
  <2>2. EpochAt(clientClock) \in Epoch /\ EpochAt(acceptedAt) \in Epoch
    BY <2>1, ClockEpoch
  <2>3. Dist(EpochAt(acceptedAt), EpochAt(clientClock)) <= 1
    <3>1. clientClock <= acceptedAt + EpochLen /\ acceptedAt <= clientClock + EpochLen
      BY <2>1, EpochPoolAssumption DEF Dist
    <3>2. CASE clientClock <= acceptedAt
      BY <2>1, <2>2, <3>1, <3>2, EpochAtGap, EpochPoolAssumption DEF Dist, Epoch
    <3>3. CASE acceptedAt < clientClock
      BY <2>1, <2>2, <3>1, <3>3, EpochAtGap, EpochPoolAssumption DEF Dist, Epoch
    <3> QED
      BY <2>1, <3>2, <3>3
  <2> QED
    BY <2>2, <2>3, NeighbourCovered DEF TypeOK
<1> QED
  BY <1>1, RotationTypeCorrect, PTL

(* Two epochs of disagreement leave the client a name that is accepted.    *)
THEOREM CommonName == Spec => []CommonNameWithinTwoEpochs
<1>1. TypeOK => CommonNameWithinTwoEpochs
  <2>1. TypeOK => acceptedAt \in 0..MaxClock
    BY RotationAssumption DEF TypeOK
  <2> QED
    BY <2>1, ClockEpoch, WindowsMeet DEF TypeOK, CommonNameWithinTwoEpochs
<1> QED
  BY <1>1, RotationTypeCorrect, PTL

(* In the epoch of the loaded names the client presents an accepted one.   *)
THEOREM AcceptedInEpoch == Spec => AcceptedWhenEpochsAgree
<1> DEFINE Agreed == Connect /\ clientEpoch' = EpochAt(acceptedAt) => presented' \in accepted
<1>1. TypeOK /\ [Next]_vars => [Agreed]_vars
  BY DEF TypeOK, Connect
<1> QED
  BY <1>1, RotationTypeCorrect, PTL DEF Spec, AcceptedWhenEpochsAgree
=============================================================================
