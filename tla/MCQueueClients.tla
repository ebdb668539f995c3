--------------------------- MODULE MCQueueClients ---------------------------
EXTENDS QueueClients
=============================================================================
