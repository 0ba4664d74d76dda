----------------------------- MODULE MCPublisher -----------------------------
\* Three goroutines: one at work, one that waits, one that comes late.
EXTENDS Publisher
=============================================================================
