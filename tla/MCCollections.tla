---------------------------- MODULE MCCollections ----------------------------
\* Two loaders that nothing tells apart.
EXTENDS Collections

SameLoaders == Permutations(Loaders)
=============================================================================
