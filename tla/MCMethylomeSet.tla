--------------------------- MODULE MCMethylomeSet ---------------------------
EXTENDS MethylomeSet

\* Three handlers and three accessions over two slots: enough for two gets
\* to share a load while a third evicts, and for a full cache of pinned
\* entries to queue a get.
CONSTANTS t1, t2, t3, accA, accB, accC

MCThreads == {t1, t2, t3}
MCAccessions == {accA, accB, accC}

=============================================================================
