------------------------- MODULE MCGatewayLifecycle -------------------------
(***************************************************************************)
(* Small instances of GatewayLifecycle for TLC.                            *)
(***************************************************************************)
EXTENDS GatewayLifecycle, TLC

CONSTANTS p1, p2, p3

Full   == [ipv6 |-> TRUE, dns |-> TRUE, proxy |-> TRUE]
Plain  == [ipv6 |-> FALSE, dns |-> FALSE, proxy |-> FALSE]
FullPlain == {Full, Plain}

OneDns  == {"isp"}
Some == {p1, p2, p3}
InstSymmetry == Permutations(Inst)

EveryFault    == FaultKinds
CommandOnly   == {"cmd"}
IdentityOnly  == {"ident"}
=============================================================================
