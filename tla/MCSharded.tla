----------------------------- MODULE MCSharded -----------------------------
EXTENDS ShardedPipeline

MCOneShard == [s \in Symbol |-> 1]
=============================================================================
