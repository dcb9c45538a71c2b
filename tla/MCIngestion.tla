------------------------------ MODULE MCIngestion ------------------------------
\* Two symbols, the second one in the bundled lists.
EXTENDS Ingestion, TLC
=============================================================================
