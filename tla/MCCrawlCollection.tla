-------------------------- MODULE MCCrawlCollection --------------------------
(***************************************************************************)
(* CrawlCollection for TLC: the shops of its configurations.               *)
(***************************************************************************)
EXTENDS CrawlCollection

\* A direct shop whose listing ends at an empty page, and a relayed one that
\* goes on after it and has fewer pages to its limit.
Direct == [relay |-> FALSE, onward |-> FALSE, limit |-> 3]
Relayed == [relay |-> TRUE, onward |-> TRUE, limit |-> 2]
TwoPlugins == {Direct, Relayed}
=============================================================================
