-------------------------- MODULE MCCircuitBreaker --------------------------
EXTENDS CircuitBreaker
=============================================================================
