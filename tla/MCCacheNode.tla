----------------------------- MODULE MCCacheNode -----------------------------
(* An instance of CacheNode for TLC: three consumers of two frames on two  *)
(* workers, with every input there may be, and of three frames on one.     *)
EXTENDS CacheNode, TLC

CONSTANTS x, y, z
Three == {x, y, z}
MCSetups ==
    {[threads |-> 2, last |-> 2, kinds |-> {"sync", "async"}, fails |-> TRUE],
     [threads |-> 2, last |-> 2, kinds |-> {"sync", "async"}, fails |-> FALSE],
     [threads |-> 1, last |-> 3, kinds |-> {"sync"}, fails |-> FALSE]}
=============================================================================
