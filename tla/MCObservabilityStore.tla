---------------------- MODULE MCObservabilityStore ----------------------
(* The store with two threads that use it.                               *)
EXTENDS ObservabilityStore
=========================================================================
