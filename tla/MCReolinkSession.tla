-------------------------- MODULE MCReolinkSession --------------------------
EXTENDS ReolinkSession
=============================================================================
