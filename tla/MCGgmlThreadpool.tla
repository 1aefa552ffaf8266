-------------------------- MODULE MCGgmlThreadpool --------------------------
(***************************************************************************)
(* Instances of GgmlThreadpool for TLC.                                    *)
(***************************************************************************)
EXTENDS GgmlThreadpool

\* An operation before a matrix product, and a matrix product with enough
\* chunks for two threads to compete for them.
SmallGraphs == {<<0, 1>>, <<8>>}
=============================================================================
