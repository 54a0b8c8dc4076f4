---------------------------- MODULE MCTravelScreen ----------------------------
(* Two searches, one of which finds a part of what the other finds, and a   *)
(* country no search finds; one list has the same country as the other.     *)
EXTENDS TravelScreen

CONSTANTS korea, kosovo, japan

MCCountries == {korea, kosovo, japan}
MCLists == {<<korea, japan>>, <<kosovo, korea>>}
MCTexts == {"", "ko", "kor"}
MCMatches == [t \in MCTexts |->
    CASE t = "" -> {} [] t = "ko" -> {korea, kosovo} [] t = "kor" -> {korea}]
=============================================================================
