--------------------------- MODULE MCMaterializer ---------------------------
\* Materializer with small sets of rows and files (see the cfg files).
EXTENDS Materializer, TLC

Symmetry == Permutations(Inodes) \cup Permutations(Images) \cup Permutations(Slugs)
=============================================================================
