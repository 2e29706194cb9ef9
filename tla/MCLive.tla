-------------------------------- MODULE MCLive --------------------------------
(* An instance of LiveClient for TLC: connect() is called up to three times. *)
EXTENDS LiveClient, TLC

CONSTANTS s1, s2, s3, s4, l1, l2, l3

Alike == Permutations(Sockets) \union Permutations(Loops)
===============================================================================
