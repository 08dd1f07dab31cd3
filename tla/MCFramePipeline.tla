--------------------------- MODULE MCFramePipeline ---------------------------
(* Texts, sizes and depths for FramePipeline.                              *)
EXTENDS FramePipeline

Nothing == [int |-> Unread, float |-> Unread, bool |-> Unread]
IntReading(n) == [Nothing EXCEPT !.int = n, !.float = n]
Both(r) == [cli |-> r, yaml |-> r, node |-> FALSE]
AsInt(n) == Both(IntReading(n))
AsFloat(n) == Both([Nothing EXCEPT !.float = n])
AsBool(b) == Both([Nothing EXCEPT !.bool = b])
Name == Both(Nothing)
Input == [Name EXCEPT !.node = TRUE]

(* 012 and 0x10: an integer for one of the two only.                       *)
LeadingZero(n) == [Name EXCEPT !.cli = IntReading(n)]
Prefixed(n) == [Name EXCEPT !.yaml = IntReading(n)]

SizesDef == {AsInt(n) : n \in {-1, 0, 2, 3, 18}} \cup {AsFloat(2), Name}
DepthsDef == {AsInt(n) : n \in {0, 4, 8, 16}} \cup {LeadingZero(12), Prefixed(12), Input}
SwitchesDef == {AsBool(TRUE), AsBool(FALSE), AsInt(0)}
RatesDef == {AsInt(24), AsFloat(24), AsFloat(-1)}
=============================================================================
