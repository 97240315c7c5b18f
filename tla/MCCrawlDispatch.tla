-------------------------- MODULE MCCrawlDispatch --------------------------
(* Instances of CrawlDispatch for TLC. *)
EXTENDS CrawlDispatch, TLC

WorkerSymmetry == Permutations(Workers)
=============================================================================
