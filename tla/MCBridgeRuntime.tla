------------------------- MODULE MCBridgeRuntime -------------------------
EXTENDS BridgeRuntime

MCSuppliedTtl == {1}

=============================================================================
