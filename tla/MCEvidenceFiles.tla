--------------------------- MODULE MCEvidenceFiles ---------------------------
EXTENDS EvidenceFiles
=============================================================================
