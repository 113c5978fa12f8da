-------------------------- MODULE MCCrawlFrontier --------------------------
(***************************************************************************)
(* Small instances of CrawlFrontier for TLC.  Spiders are alike, and so    *)
(* are pages: a crawl's link graph is whatever Parse finds.                *)
(***************************************************************************)
EXTENDS CrawlFrontier, TLC

FrontierSymmetry == Permutations(Spiders) \cup Permutations(Urls)
=============================================================================
