------------------------------ MODULE MCAuction -------------------------------
(* A small instance of Auction for TLC: two bidders. *)
EXTENDS Auction

CONSTANTS b1, b2
===============================================================================
