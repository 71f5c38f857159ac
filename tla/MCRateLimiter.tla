--------------------------- MODULE MCRateLimiter ---------------------------
(***************************************************************************)
(* Small instances of RateLimiter.                                         *)
(***************************************************************************)
EXTENDS RateLimiter

CONSTANTS a1, a2, b1, b2, A, B

(* Requests a1 and a2 reach one worker, b1 and b2 the other.               *)
MCWorkerOf == [r \in Requests |-> IF r \in {a1, a2} THEN A ELSE B]
=============================================================================
