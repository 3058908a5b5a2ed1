------------------------------- MODULE Knockout -------------------------------
(***************************************************************************)
(* What a tournament promises, without tables, hands or deals: entries     *)
(* gather, then the field only ever shrinks, it is never empty, and the    *)
(* title is given once, to the entry that is alone in the field.           *)
(***************************************************************************)
EXTENDS Naturals, Sequences

CONSTANTS PlayerIds, NoPlayer

VARIABLES
    phase,     \* "Registering", "Running" or "Finished"
    entrants,  \* the players in the order they registered
    field,     \* the positions of `entrants` still in the game
    champion   \* NoPlayer until the game is over

vars == <<phase, entrants, field, champion>>

Init ==
    /\ phase = "Registering"
    /\ entrants = <<>>
    /\ field = {}
    /\ champion = NoPlayer

Register(p) ==
    /\ phase = "Registering"
    /\ entrants' = Append(entrants, p)
    /\ field' = field \cup {Len(entrants) + 1}
    /\ UNCHANGED <<phase, champion>>

\* A round that leaves more than one entry in the field.
Narrow(rest) ==
    /\ phase \in {"Registering", "Running"}
    /\ rest \subseteq field
    /\ \E i, j \in rest : i # j
    /\ phase' = "Running"
    /\ field' = rest
    /\ UNCHANGED <<entrants, champion>>

\* A round that leaves one.
Crown(i) ==
    /\ phase \in {"Registering", "Running"}
    /\ \E j \in field : j # i
    /\ phase' = "Finished"
    /\ field' = {i}
    /\ champion' = entrants[i]
    /\ UNCHANGED entrants

Next ==
    \/ \E p \in PlayerIds : Register(p)
    \/ \E rest \in SUBSET field : Narrow(rest)
    \/ \E i \in field : Crown(i)

Spec == Init /\ [][Next]_vars

=============================================================================
