---------------------------- MODULE MCPipeline ----------------------------
EXTENDS SharedMemoryPipeline
=============================================================================
