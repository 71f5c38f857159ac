--------------------------- MODULE MCLedgerPaging ---------------------------
(***************************************************************************)
(* A small instance of LedgerPaging.                                       *)
(***************************************************************************)
EXTENDS LedgerPaging

CONSTANTS m1, m2, m3

(* Parameters that are refused, left out, and within the bounds.           *)
MCAsked == { -1, 0, 1, 2, 3, Absent }
=============================================================================
