----------------------------- MODULE MCWebPlay -----------------------------
(* Model values for the runs of WebPlay. *)
EXTENDS WebPlay

CONSTANTS p1, p2, dash, dash2, link, link2

MCTwoCalls == {p1, p2}
MCNobody == {}
MCOneAdmin == {dash}
MCTwoAdmins == {dash, dash2}
MCOneLink == {link}
MCTwoLinks == {link, link2}
=============================================================================
