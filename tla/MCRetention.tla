----------------------------- MODULE MCRetention -----------------------------
EXTENDS ResponseRetention

=============================================================================
