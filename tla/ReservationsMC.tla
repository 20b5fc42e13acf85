---------------------------- MODULE ReservationsMC ----------------------------
(***************************************************************************)
(* Small instances of Reservations.  Time is scaled so that the shortest   *)
(* hold < the default one < the longest, as 5 min < 4 h < 24 h.            *)
(***************************************************************************)
EXTENDS Reservations, TLC

Symmetry == Permutations(Users) \cup Permutations(Tickers)
=============================================================================
