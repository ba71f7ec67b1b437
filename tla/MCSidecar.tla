----------------------------- MODULE MCSidecar -----------------------------
EXTENDS Sidecar

=============================================================================
