--------------------------- MODULE MCShardHarness ---------------------------
(* ShardHarness with one group of two servers and one controller.          *)
EXTENDS ShardHarness

GroupAndCtrler == {<<0, 0>>, <<1, 0>>, <<1, 1>>}
=============================================================================
