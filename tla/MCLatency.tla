----------------------------- MODULE MCLatency -----------------------------
EXTENDS LatencyHistogram, TLC

MCSymmetry == Permutations(Thread)
=============================================================================
