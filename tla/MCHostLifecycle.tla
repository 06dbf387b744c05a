---------------------------- MODULE MCHostLifecycle ----------------------------
EXTENDS HostLifecycle

\* No name contains another.
NoSimilar == {}
=============================================================================
