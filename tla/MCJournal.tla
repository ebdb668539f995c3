----------------------------- MODULE MCJournal -----------------------------
EXTENDS EngineProcess
=============================================================================
