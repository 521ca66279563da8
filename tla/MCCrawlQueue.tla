---------------------------- MODULE MCCrawlQueue ----------------------------
(* Small instances of CrawlQueue for TLC.                                  *)
EXTENDS CrawlQueue, TLC
CONSTANTS c1, c2, c3
CrawlSymmetry == Permutations(Crawl)
=============================================================================
