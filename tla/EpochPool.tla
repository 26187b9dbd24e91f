------------------------------ MODULE EpochPool ------------------------------
(***************************************************************************)
(* The epoch arithmetic and the pools of the pool-engine crate.            *)
(*                                                                         *)
(* A pool is the set of its SNI names: the weights only bias which member  *)
(* a draw returns.  The keyed sampler is a constant function here, because *)
(* both ends compute the same subset from (secret, salt, epoch, master     *)
(* list, k) and nothing in this module depends on which one it is.         *)
(***************************************************************************)
EXTENDS Naturals

CONSTANTS
  SNI,              \* the names of the master list
  EpochLen,         \* HydraConfig.epoch_len, in ticks of the clock
  MaxEpoch,         \* the largest value of the Epoch type (u64::MAX in the code)
  KeyedEpochSubset  \* epoch -> the active subset keyed_epoch_subset draws for it

(* A parsed configuration has a non-empty master list and active_k # 0, so *)
(* no epoch's subset is empty.  epoch_len may be zero.                     *)
ASSUME EpochPoolAssumption ==
  /\ EpochLen \in Nat
  /\ MaxEpoch \in Nat
  /\ KeyedEpochSubset \in [0..MaxEpoch -> SUBSET SNI]
  /\ \A e \in 0..MaxEpoch : KeyedEpochSubset[e] # {}

Epoch == 0..MaxEpoch

(* max(1) guards against a zero-length epoch. *)
EpochAt(secs) == secs \div (IF EpochLen = 0 THEN 1 ELSE EpochLen)

(* Faulty: a window that looks ahead but not back.                         *)
EpochWindowAhead(e) == { e,  IF e = MaxEpoch THEN e ELSE e + 1 }

(* The three epochs around e; both ends saturate. *)
EpochWindow(e) ==
  { IF e = 0 THEN 0 ELSE e - 1,  e,  IF e = MaxEpoch THEN e ELSE e + 1 }

(* The union of the window's subsets. *)
AcceptedPoolWindow(e) == UNION { KeyedEpochSubset[x] : x \in EpochWindow(e) }
=============================================================================
