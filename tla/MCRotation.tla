----------------------------- MODULE MCRotation ------------------------------
(* A small instance of Rotation: one name per epoch, so that each epoch    *)
(* has a window of its own.                                                *)
EXTENDS Rotation

CONSTANTS a, b, c, d, e

OneNameEach == <<a, b, c, d, e>>
MCSubset == [x \in 0..MaxEpoch |-> {OneNameEach[x + 1]}]
=============================================================================
