------------------------------ MODULE MCCliGame ------------------------------
(* Model checking of CliGame: hands of every kind that the bots tell apart.  *)
EXTENDS CliGame

\* Nothing, twice the same; a pair with the joker; a straight, twice the same.
SampleHands ==
    {<<Card(10, "Spades"), Card(11, "Hearts"), Card(13, "Diamonds")>>,
     <<Card(10, "Hearts"), Card(11, "Diamonds"), Card(13, "Clubs")>>,
     <<Card(12, "Spades"), Card(14, "Hearts"), Joker>>,
     <<Card(12, "Hearts"), Card(13, "Spades"), Card(14, "Diamonds")>>,
     <<Card(12, "Diamonds"), Card(13, "Hearts"), Card(14, "Clubs")>>}

=============================================================================
