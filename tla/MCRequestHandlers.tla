-------------------------- MODULE MCRequestHandlers -------------------------
(***************************************************************************)
(* The instance of RequestHandlers for TLC: the constants that a .cfg      *)
(* cannot spell.                                                           *)
(***************************************************************************)
EXTENDS RequestHandlers, TLC

WorkerSymmetry == Permutations(Workers)

\* Three requests that lock several keys, in two processes.
Process == [r \in {"a", "b", "c"} |-> IF r = "c" THEN "q" ELSE "p"]
SlotOfKey == [k \in 0..3 |-> k % 2]

\* Bodies of the polling transport: "40" opens the namespace.
PollBodies == {<<"40">>, <<"40", "1">>, <<"1", "40">>}
=============================================================================
