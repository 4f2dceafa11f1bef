---------------------------- MODULE MCNonceLanes ----------------------------
\* Instance of NonceLanes for TLC: the workers are interchangeable.
EXTENDS NonceLanes, TLC

WorkerSymmetry == Permutations(Workers)
=============================================================================
