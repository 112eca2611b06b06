---------------------------- MODULE MCDvsStreaming ----------------------------
(***************************************************************************)
(* The model of two channels, whose Sessions may have the same number, for *)
(* TLC.  Nothing tells one channel from the other, nor one player.         *)
(***************************************************************************)
EXTENDS DvsStreaming, TLC

Symmetry == Permutations(Streams) \cup Permutations(Conns)
=============================================================================
