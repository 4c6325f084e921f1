--------------------------- MODULE MCOrderManager ---------------------------
(***************************************************************************)
(* Instance of OrderManager for TLC.                                       *)
(***************************************************************************)
EXTENDS OrderManager

\* Up to three lots of a tenth: 0.3 - 0.1 and 0.3 - 0.2 are the differences
\* whose product with ten is below the whole number in IEEE doubles.
TenthsTruncated == {<<3, 1>>, <<3, 2>>}

\* Pairs without decimals: every difference is exact.
NothingTruncated == {}

=============================================================================
