--------------------------- MODULE MCRateLimiter ---------------------------
(* Four host scans behind one limiter, two ticks apart. *)
EXTENDS RateLimiter
CONSTANTS t1, t2, t3, t4
MCTask == {t1, t2, t3, t4}
=============================================================================
