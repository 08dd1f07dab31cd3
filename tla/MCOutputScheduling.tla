-------------------------- MODULE MCOutputScheduling --------------------------
(* An instance of the reactor and its keys for TLC.                        *)
EXTENDS OutputScheduling, TLC

CONSTANTS w1, w2, c1, a, b, c, none

MCWorkers == {w1, w2}
MCClients == {c1}
MCTasks == {a, b, c}

(* The last frame of output 0, and the first one of two sinks that both    *)
(* have priority 1.                                                        *)
MCWanted == (a :> <<0, 7>>) @@ (b :> <<1, 0>>) @@ (c :> <<1, 0>>)
MCKey == [t \in MCTasks |-> New(MCWanted[t][1], MCWanted[t][2])]
=============================================================================
