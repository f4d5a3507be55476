------------------------ MODULE MCGameweekSettlement ------------------------
(* A season of three gameweeks for a league of three members, where the    *)
(* Average team plays, and for one of four with rules of its own, whose    *)
(* scores turn FPL's around; the playoffs start in the second gameweek of  *)
(* the larger one.                                                         *)
EXTENDS GameweekSettlement

MCSeasonLeagues == {[members |-> <<"a", "b", "c">>, custom |-> FALSE],
                    [members |-> <<"a", "b", "c", "d">>, custom |-> TRUE]}

FplPoints(a, b, c, d) ==
    [m \in {"a", "b", "c", "d"} |->
        CASE m = "a" -> a [] m = "b" -> b [] m = "c" -> c [] OTHER -> d]
MCPointVectors ==
    <<{FplPoints(2, 1, 0, 1)},
      {FplPoints(2, 0, 1, 1), FplPoints(0, 1, 1, 2)},
      {FplPoints(1, 2, 0, 2)}>>
MCCustomPoints == [p \in 0..2 |-> 2 - p]
=============================================================================
