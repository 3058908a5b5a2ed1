--------------------------------- MODULE Urn ---------------------------------
(***************************************************************************)
(* What a shuffle promises: cards are drawn from an urn one by one, without *)
(* putting one back, and laid in a row from its far end.                   *)
(***************************************************************************)
EXTENDS Sequences, FiniteSets

CONSTANT Cards

VARIABLES
    urn,  \* the cards not drawn yet
    row   \* the cards drawn, the last one in front

Init == urn = Cards /\ row = <<>>

Draw ==
    \E card \in urn :
        /\ urn' = urn \ {card}
        /\ row' = <<card>> \o row

Spec == Init /\ [][Draw]_<<urn, row>>

=============================================================================
