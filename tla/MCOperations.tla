---------------------------- MODULE MCOperations ----------------------------
EXTENDS Operations, TLC

CONSTANTS k1, k2, c1, c2
MCParts   == <<"mihomo", "dnsmasq">>
MCOnePart == <<"mihomo">>
Symmetry  == Permutations(Keys) \cup Permutations(Clients)
=============================================================================
