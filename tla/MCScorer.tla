------------------------------ MODULE MCScorer -------------------------------
(***************************************************************************)
(* Model checking of Scorer.                                               *)
(***************************************************************************)
EXTENDS Scorer

CONSTANTS r1, r2

\* n readings x followed by m readings y.
Runs(n, x, m, y) == [i \in 1 .. n + m |-> IF i <= n THEN x ELSE y]

\* Baselines of seven and eight readings: steady, in two levels, with outliers
\* on one or both sides, and near the limit of floats.
Baselines ==
    {Runs(n, 0, 7 - n, 5) : n \in {0, 3, 4}}
        \cup {<<-9, 1, 2, 3, 2, 1, 20>>, <<20, 20, 20, 1, 3, 2, 2>>, Runs(4, 0, 4, 1)}
        \cup {<<300, -300, 0, 300, -300, 300, -300>>, Runs(8, 300, 0, 0),
                <<-300, -300, -150, -120, 0, 0, -150>>}

\* Windows that are judged, one too short, and ones the request model refuses.
MCWindows ==
    [r \in {r1, r2} |->
        IF r = r1
        THEN {Append(s, x) : s \in Baselines, x \in {2, 5, 14, 270}}
               \cup {<<4, 0, 1>>, << >>, <<1, NotFinite>>, Runs(10, 1, 0, 0)}
        ELSE {<<7>>}]

\* Where only the process matters.
PlainWindows == [r \in Requests |-> {<<7>>}]
==============================================================================
