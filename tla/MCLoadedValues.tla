--------------------------- MODULE MCLoadedValues ---------------------------
(***************************************************************************)
(* Instances of LoadedValues for TLC: two settings, two or three client    *)
(* messages, a handful of file names.                                      *)
(***************************************************************************)
EXTENDS LoadedValues, TLC

CONSTANTS a, b, h1, h2, main

Msg(ts, keys) == [ts |-> ts, keys |-> keys, ok |-> TRUE, loadable |-> TRUE]

MCTimes == 0 .. 2

\* Partial updates at two times, one of them with a setting given twice.
MCMessages == {Msg(1, <<a, b>>), Msg(2, <<a>>), Msg(1, <<b, b>>)}

\* The same, with a payload that decodes only in part and a topic that the
\* startup code filters out.
MCFaultyMessages ==
    {Msg(1, <<a, b>>),
     [ts |-> 2, keys |-> <<b>>, ok |-> FALSE, loadable |-> TRUE],
     [ts |-> 2, keys |-> <<a>>, ok |-> TRUE, loadable |-> FALSE]}

MCNoChanKeys == [c \in {} |-> {}]

MCSymmetry == Permutations({h1, h2})
=============================================================================
