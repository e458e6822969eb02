---------------------------- MODULE MCCatalogSearch ----------------------------
(***************************************************************************)
(* A catalog of which the first page holds three games: one query finds a  *)
(* game of that page and one beyond it, the other finds nothing on the     *)
(* page and, at the service, nothing either.                               *)
(***************************************************************************)
EXTENDS CatalogSearch, TLC

CONSTANTS g1, g2, g3, g4, all, some, none

MCGames   == {g1, g2, g3, g4}
MCQueries == {all, some, none}
MCResults == all :> <<g1, g2, g3>> @@ some :> <<g4, g2>> @@ none :> << >>
MCMatches == all :> MCGames @@ some :> {g2, g4} @@ none :> {}
=============================================================================
