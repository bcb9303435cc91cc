----------------------------- MODULE MCPictures -----------------------------
EXTENDS Pictures, TLC

\* Users and digests are only compared.
Symmetry == Permutations(User) \cup Permutations(Md5)
=============================================================================
