----------------------------- MODULE MCSampler -----------------------------
(* Model-checking instance of Sampler; the bounds are set in the cfg files. *)
EXTENDS Sampler

\* --duration: a negative value (the sleep raises) and a valid one.
MCDurations == {-1, 0}
=============================================================================
