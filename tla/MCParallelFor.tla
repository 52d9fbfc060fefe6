--------------------------- MODULE MCParallelFor ----------------------------
(* Ranges with nothing, one and several blocks, blocks of one and of two   *)
(* indices, a last block cut short, and a begin that is not zero.          *)
EXTENDS ParallelFor

SomeRanges == {<<0, 0>>, <<3, 4>>, <<-2, 1>>, <<-1, 4>>}
=============================================================================
