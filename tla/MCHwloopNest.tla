---------------------------- MODULE MCHwloopNest ----------------------------
(***************************************************************************)
(* Programs for TLC.  A loop is <<init, value, bound, value, step>>; a     *)
(* program is a shape, the eligibility of its loops, and a loop for each.  *)
(***************************************************************************)
EXTENDS HwloopNest

Program(par, elig, ls) ==
  [par  |-> par,
   elig |-> elig,
   init |-> [l \in DOMAIN par |-> [kind |-> ls[l][1], val |-> ls[l][2]]],
   bnd  |-> [l \in DOMAIN par |-> [kind |-> ls[l][3], val |-> ls[l][4]]],
   step |-> [l \in DOMAIN par |-> ls[l][5]]]

\* Loops that run up to their bound without passing the end of the number
\* range, in whole steps, as for (i = a; i < b; i += s) is compiled.
CountUp   == {<<"zero", 0, "li", 2, 1>>, <<"zero", 0, "li", 9, 1>>, <<"imm", 1, "li", 5, 2>>,
              <<"imm", 2, "arg", 3, 1>>, <<"arg", 1, "arg", 3, 2>>, <<"zero", 0, "arg", 2, 1>>,
              <<"off", -4, "arg", 6, 2>>, <<"imm", 1, "arg", 7, 3>>, <<"arg", 1, "li", 3, 1>>}
CountDown == {<<"imm", 3, "zero", 0, -1>>, <<"arg", 2, "zero", 0, -1>>, <<"imm", 4, "zero", 0, -2>>,
              <<"imm", 4, "arg", 2, -1>>, <<"arg", 3, "arg", 1, -1>>, <<"imm", 6, "li", 4, -1>>}
Regular == CountUp \cup CountDown
Few     == {<<"zero", 0, "li", 2, 1>>, <<"arg", 1, "arg", 3, 1>>, <<"imm", 3, "zero", 0, -1>>}

\* for (i = 0; i < 2; i++) for (j = i; j < 3; j++): the inner count changes
Outer == {<<"zero", 0, "li", 2, 1>>, <<"zero", 0, "arg", 2, 1>>}
Tri   == <<"outer", 0, "arg", 3, 1>>

One      == <<0>>
Sequence == <<0, 0>>
Nested   == <<0, 1>>
Deep     == <<0, 1, 2>>
Fork     == <<0, 1, 1>>
TwoNests == <<0, 1, 0, 3>>

All(par) == [l \in DOMAIN par |-> TRUE]

RegularPrograms ==
  {Program(One, <<TRUE>>, <<a>>) : a \in Regular}
  \cup {Program(s, e, <<a, b>>) : s \in {Sequence, Nested}, a \in Regular, b \in Regular,
                                  e \in {<<TRUE, TRUE>>, <<FALSE, TRUE>>, <<TRUE, FALSE>>}}
  \cup {Program(Nested, All(Nested), <<a, Tri>>) : a \in Outer}
  \cup {Program(s, All(s), <<a, b, c>>) : s \in {Deep, Fork}, a \in Few, b \in Few, c \in Few}
  \cup {Program(s, All(s), <<a, Tri, c>>) : s \in {Deep, Fork}, a \in Outer, c \in Few}
  \cup {Program(TwoNests, All(TwoNests), <<a, b, c, d>>) : a \in Few, b \in Few, c \in Few, d \in Few}
=============================================================================
