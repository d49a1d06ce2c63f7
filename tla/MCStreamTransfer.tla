-------------------------- MODULE MCStreamTransfer --------------------------
(* Streams for TLC: one stream of several bytes, or two short ones.        *)
EXTENDS StreamTransfer, TLC

CONSTANTS s1, s2

One == s1 :> 2
Three == s1 :> 3
Small == (s1 :> 1) @@ (s2 :> 1)
=============================================================================
