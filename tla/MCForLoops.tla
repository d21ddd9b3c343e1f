----------------------------- MODULE MCForLoops -----------------------------
(***************************************************************************)
(* ForLoops on programs that call two routines one after the other; each   *)
(* of them may leave its loops early and call a third one.                 *)
(***************************************************************************)
EXTENDS ForLoops

Routines ==
  { << <<"FOR", "G">>, <<"TEST">>, <<"RTN">>, <<"NEXT", "G">>, <<"RTN">> >>,
    << <<"FOR", "V">>, <<"FOR", "G">>, <<"TEST">>, <<"RTN">>, <<"NEXT", "G">>,
       <<"NEXT", "V">>, <<"RTN">> >>,
    << <<"LOCR", 2>>, <<"FORTOP", "V">>, <<"NEXT", "V">>, <<"RTN">> >>,
    << <<"TEST">>, <<"LOCR", 2>>, <<"FOR", "W">>, <<"TEST">>, <<"RTN">>,
       <<"NEXT", "W">>, <<"RTN">> >>,
    << <<"LOCR", 1>>, <<"FOR", "L">>, <<"XEQ", "C">>, <<"NEXT", "L">>, <<"RTN">> >> }

Third == << <<"LBL", "C">>, <<"LOCR", 1>>, <<"FOR", "L">>, <<"FOR", "G">>,
            <<"NEXT", "G">>, <<"NEXT", "L">>, <<"RTN">> >>

Main == << <<"XEQ", "A">>, <<"XEQ", "B">>, <<"RTN">> >>

Labelled(l, body) == << <<"LBL", l>> >> \o body

(* The routines in one program or in two, the third before or behind.      *)
MCTexts ==
  UNION {{ << Main \o Labelled("A", a) \o Labelled("B", b) \o Third >>,
           << Main \o Third \o Labelled("A", a), Labelled("B", b) >> } :
         a \in Routines, b \in Routines}

(* The states TLC tells apart: nothing reads a row that is free.           *)
View ==
  <<text, pc, frames, variables, running, astray,
    [r \in Rows |-> IF Taken(rows[r]) THEN <<rows[r]>> ELSE <<>>]>>
=============================================================================
