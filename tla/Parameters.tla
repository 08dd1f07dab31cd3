----------------------------- MODULE Parameters -----------------------------
(***************************************************************************)
(* How a node comes by its parameters (pipeline_processing/parametrizable, *)
(* cli.rs, the configuration half of processing_graph.rs).  The command    *)
(* line parses a text by the type the node declares and checks its range,  *)
(* a configuration file takes it for what YAML makes of it and checks      *)
(* nothing; both fill in defaults, and the node then takes the value as    *)
(* the Rust type it wants.                                                 *)
(*                                                                         *)
(* A text counts by what it can be read as, each the value or Unread: by   *)
(* str::parse as [int, float, bool], by serde_yaml as [int, float, bool],  *)
(* and as the name of an input.  Both are modelled from outside, and they  *)
(* differ: 012 is an integer for the one and a string for the other, 0x10  *)
(* the other way round.                                                    *)
(***************************************************************************)
EXTENDS Integers

CONSTANTS
    Unread,     \* the text cannot be read as this
    Absent,     \* the parameter is not given
    Word        \* bound: u64 and i64 have this many values instead of 2^64

(* What reads as an integer reads as a float as well, what reads as a      *)
(* number does not read as a switch or name an input.                      *)
Readings ==
    {r \in [int : Int \cup {Unread}, float : Int \cup {Unread}, bool : BOOLEAN \cup {Unread}] :
        /\ r.int # Unread => r.float = r.int
        /\ r.float # Unread => r.bool = Unread}
Texts == [cli : Readings, yaml : Readings, node : BOOLEAN]

ASSUME WordAssumption ==
    /\ Word \in Nat \ {0}
    /\ Unread \notin Int \cup BOOLEAN
    /\ Absent \notin Int \cup Texts

(* Parameter types, and whether the parameter has a default.               *)
IntRange(min, max) == [of |-> "int", min |-> min, max |-> max]
PositiveReal == [of |-> "float", min |-> 0, max |-> Word]
NaturalWithZero == IntRange(0, Word \div 2)
NaturalGreaterZero == IntRange(1, Word \div 2)
BoolParameter == [of |-> "bool"]

Mandatory(ty) == [type |-> ty, default |-> Absent]
WithDefault(ty, v) == [type |-> ty, default |-> v]

(* default_value, for Optional.                                            *)
default_value(ty) == IF ty.of = "bool" THEN <<"bool", FALSE>> ELSE <<ty.of, ty.min>>
Optional(ty) == WithDefault(ty, default_value(ty))

Failed == <<"failed", Absent>>

(* value_is_of_type for numbers.                                           *)
InRange(ty, v) == v[2] >= ty.min /\ v[2] <= ty.max

(* ParameterType::parse, on the command line, for the types of an          *)
(* interpretation.                                                         *)
parse(ty, text) ==
    LET v == <<ty.of, text.cli[ty.of]>> IN
    IF v[2] = Unread THEN Failed
    ELSE IF ty.of = "bool" \/ InRange(ty, v) THEN v
    ELSE Failed

(* processing_node_from_commandline: every declared parameter gets a       *)
(* value, or the command line is refused.                                  *)
FromCommandline(desc, text) ==
    IF text # Absent THEN parse(desc.type, text)
    ELSE IF desc.default # Absent THEN desc.default
    ELSE Failed

(* SerdeNodeParam: the first of Int, Float, Bool, String the scalar can be *)
(* read as; a string that starts with '<' names an input.                  *)
deserialize(text) ==
    LET r == text.yaml IN
    CASE r.int # Unread -> <<"int", r.int>>
      [] r.int = Unread /\ r.float # Unread -> <<"float", r.float>>
      [] r.int = Unread /\ r.float = Unread /\ r.bool # Unread -> <<"bool", r.bool>>
      [] OTHER -> IF text.node THEN <<"node", TRUE>> ELSE <<"string", text>>

(* create_node_from_name: what the file gives goes before the default, and *)
(* no range is looked at.                                                  *)
add_defaults(desc, v) == IF v = Failed /\ desc.default # Absent THEN desc.default ELSE v
FromFile(desc, text) ==
    add_defaults(desc, IF text = Absent THEN Failed ELSE deserialize(text))

(* Parameters::take and the TryInto of ParameterValue: the kind has to be  *)
(* the right one, and integers are cast to the width the node asks for.    *)
Kind == [u64 |-> "int", f64 |-> "float", bool |-> "bool"]
take(v, as) ==
    IF v[1] # Kind[as] THEN Failed
    ELSE IF as = "u64" THEN <<"int", v[2] % Word>>
    ELSE v

(* The parameters of a reader's interpretation (with_interpretation).      *)
Declared ==
    [width |-> Mandatory(NaturalWithZero),
     height |-> Mandatory(NaturalWithZero),
     bit_depth |-> WithDefault(NaturalGreaterZero, <<"int", 12>>),
     fps |-> WithDefault(PositiveReal, <<"float", 24>>),
     rgb |-> Optional(BoolParameter)]
TakenAs == [width |-> "u64", height |-> "u64", bit_depth |-> "u64", fps |-> "f64", rgb |-> "bool"]
Names == DOMAIN Declared

Given(frontend, name, text) ==
    IF frontend = "cli" THEN FromCommandline(Declared[name], text)
    ELSE FromFile(Declared[name], text)

(* What the node gets out of a text, or Failed.                            *)
Taken(frontend, name, text) == take(Given(frontend, name, text), TakenAs[name])
=============================================================================
