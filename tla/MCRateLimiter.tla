--------------------------- MODULE MCRateLimiter ----------------------------
(* Two windows and more than the two that make an entry stale, so that one *)
(* is removed with requests in flight and its client comes back.           *)
EXTENDS RateLimiter
=============================================================================
