----------------------------- MODULE MCVtyClient -----------------------------
(***************************************************************************)
(* An instance of VtyClient for TLC: every stream of zeros and ones of up  *)
(* to ten bytes, in reads of up to four, under a limit of eight.           *)
(***************************************************************************)
EXTENDS VtyClient

MCStreams == UNION {[0 .. n - 1 -> {0, 1}] : n \in 0 .. 10}

=============================================================================
