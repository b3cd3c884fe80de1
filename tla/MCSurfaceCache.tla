--------------------------- MODULE MCSurfaceCache ---------------------------
(* One chain, two requests for it, and room for a second loop beside a first *)
(* that stop() gave up waiting for.                                          *)
EXTENDS SurfaceCache

CONSTANT btc

MCTargets == <<btc>>

=============================================================================
