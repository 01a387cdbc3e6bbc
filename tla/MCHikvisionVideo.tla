-------------------------- MODULE MCHikvisionVideo --------------------------
EXTENDS HikvisionVideo
=============================================================================
