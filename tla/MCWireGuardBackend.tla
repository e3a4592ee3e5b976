------------------------- MODULE MCWireGuardBackend -------------------------
(***************************************************************************)
(* Small instances of WireGuardBackend for TLC: a full tunnel with its own *)
(* resolver, and a split one.                                              *)
(***************************************************************************)
EXTENDS WireGuardBackend

FullTunnelWithDns == [routes |-> {"default"}, dns |-> TRUE]
SplitTunnel == [routes |-> {"subnet"}, dns |-> FALSE]

MCConfigs == {FullTunnelWithDns, SplitTunnel}
=============================================================================
