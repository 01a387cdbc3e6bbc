-------------------------- MODULE MCRecordingEngine --------------------------
EXTENDS RecordingEngineProperties
=============================================================================
