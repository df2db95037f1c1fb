--------------------------- MODULE MCEnrichment ---------------------------
\* A small instance of Enrichment in which every kind of reply comes up.
EXTENDS Enrichment

CONSTANTS kev, nvd, osv, p, a, b, c, pysec

MCChain == <<kev, nvd, osv>>
MCPeriod == (kev :> 1) @@ (nvd :> 3) @@ (osv :> 1)
MCTtl == (kev :> 4) @@ (nvd :> 6) @@ (osv :> 3)
MCBackoffs == <<{0}, {1, 2}, {3}>>
MCBatches == << << <<p>> >>, << <<b, p>> >> >>
MCIdLists == {<<>>, <<a, a, b, c>>, <<pysec, b>>}
MCFeedIndexes == {{}, {a}}
=============================================================================
