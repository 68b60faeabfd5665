----------------------------- MODULE MCProxyVol -----------------------------
EXTENDS ProxyVol, TLC

Symmetry == Permutations(Archives) \cup Permutations(Workers) \cup Permutations(Stoppers)
=============================================================================
