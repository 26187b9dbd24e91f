------------------------------- MODULE MCTunnel -------------------------------
(* Tunnel with two chunks from the application and one from the            *)
(* destination: a lost, repeated or swapped chunk shows, and so does one   *)
(* that crosses the other direction.                                       *)
EXTENDS Tunnel

MCAppData == <<"a1", "a2">>
MCDestData == <<"d1">>
MCSkews == {-2, 0, 2}
MCNoSkew == {0}
=============================================================================
