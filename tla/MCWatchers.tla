----------------------------- MODULE MCWatchers -----------------------------
(***************************************************************************)
(* One handler, two settings, and a few of the watchers side by side.      *)
(***************************************************************************)
EXTENDS Watchers

CONSTANTS a, b, h1, main, n1, r1, e1, g1

Msg(ts, keys) == [ts |-> ts, keys |-> keys, ok |-> TRUE, loadable |-> TRUE]

MCTimes == 0 .. 2
MCMessages == {Msg(1, <<a>>), Msg(2, <<a, b>>)}
MCChanKeys == [c \in ValueChans |-> IF c = r1 THEN {a} ELSE {a, b}]
=============================================================================
