----------------------------- MODULE MCSaveRoom -----------------------------
(***************************************************************************)
(* Two ports, two saves and a file of another game; a full card and one    *)
(* that is not formatted.                                                  *)
(***************************************************************************)
EXTENDS SaveRoom
CONSTANT o

CardWith(names, isFormatted) ==
    [inside |-> TRUE, formatted |-> isFormatted,
     files |-> [n \in Names |-> IF n \in names THEN "old" ELSE "none"]]

MCStartCards == {[p \in Ports |-> IF p = 0 THEN CardWith({0, o}, TRUE) ELSE CardWith({}, FALSE)]}
=============================================================================
