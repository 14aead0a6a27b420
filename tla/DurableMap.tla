----------------------------- MODULE DurableMap -----------------------------
(***************************************************************************)
(* What the value store promises to the dashboard, the metrics and Home    *)
(* Assistant: a map from settings to times that outlives the process.  A   *)
(* time t of a setting k is known when some recorded payload carried k at  *)
(* t or later.  What is recorded stays recorded, whatever the garbage      *)
(* collector removes and whenever the process dies; a map that is serving  *)
(* has caught up with everything recorded before it was started, and never *)
(* shows anything that a restart could lose.                               *)
(***************************************************************************)
EXTENDS Integers

CONSTANTS Keys, Times

VARIABLES
    durable,  \* the pairs <<k, t>> known to the storage
    view,     \* the pairs known to the process
    up        \* is the process serving?

vars == <<durable, view, up>>

\* Knowing the settings K at time t.
Upto(K, t) == {kt \in K \X Times : kt[2] <= t}

Init ==
    /\ durable = {}
    /\ view = {}
    /\ up = FALSE

\* A payload reaches the storage.
Record(K, t) ==
    /\ up
    /\ durable' = durable \cup Upto(K, t)
    /\ UNCHANGED <<view, up>>

\* The process learns a setting that the storage already knows.
Apply(k, t) ==
    /\ Upto({k}, t) \subseteq durable
    /\ view' = view \cup Upto({k}, t)
    /\ UNCHANGED <<durable, up>>

\* A process that has caught up with the storage starts to serve.
Serve ==
    /\ ~up /\ up' = TRUE
    /\ view = durable
    /\ UNCHANGED <<durable, view>>

\* The process dies and is started again.
Restart ==
    /\ view' = {} /\ up' = FALSE
    /\ UNCHANGED durable

Next ==
    \/ \E K \in SUBSET Keys, t \in Times : Record(K, t)
    \/ \E k \in Keys, t \in Times : Apply(k, t)
    \/ Serve
    \/ Restart

Spec == Init /\ [][Next]_vars
=============================================================================
