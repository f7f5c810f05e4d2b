---- MODULE MCCrawlQueue ----
EXTENDS CrawlQueue, TLC
Symmetry == Permutations(Machine) \cup Permutations(Crawler)
====
