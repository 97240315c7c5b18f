------------------------ MODULE MCCrawlContinuation ------------------------
\* Instances of CrawlContinuation for TLC: the bounds are in each .cfg, with
\* "repair" the one refresher and {} none.
EXTENDS CrawlContinuation

\* Any listing may be on a run's pages or gone from them.
AnyListings == [r \in Runs |-> SUBSET Listings]

\* The first crawl finds both listings, the second misses listing 2.
SecondMissesOne == [r \in Runs |-> IF r = 1 THEN {Listings} ELSE {{1}}]
=============================================================================
