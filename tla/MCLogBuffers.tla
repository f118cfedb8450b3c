---------------------------- MODULE MCLogBuffers ----------------------------
EXTENDS LogBuffers, TLC

\* The URLs are interchangeable in the specification and in its invariants.
UrlSymmetry == Permutations(Urls)
=============================================================================
