------------------------------- MODULE BookFeed -------------------------------
(***************************************************************************)
(* What a consumer of the bid/ask generator is promised: at every moment    *)
(* its book is the exchange's book as of some update id n, and n only       *)
(* grows.  A book is abstracted to the set of exchange update ids whose     *)
(* effect it contains, so "the book as of n" is the interval 1..n.          *)
(*                                                                         *)
(* README.md of the repository: "Order book sync snap and diff for          *)
(* binance".                                                                *)
(***************************************************************************)
EXTENDS Naturals

CONSTANT MaxId      \* bound on the exchange's update ids

VARIABLE book       \* update ids contained in the consumer's book

FeedInit == book = {}

(* A snapshot or a diff brings the book forward to update id n. *)
Advance == \E n \in 0 .. MaxId : book \subseteq 1 .. n /\ book' = 1 .. n

FeedSpec == FeedInit /\ [][Advance]_book
===============================================================================
