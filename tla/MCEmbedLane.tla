----------------------------- MODULE MCEmbedLane ----------------------------
(* Instances of EmbedLane for TLC: five payloads, of which a table of a few *)
(* rows holds any choice in any order.                                      *)
EXTENDS EmbedLane

CONSTANTS wide, narrow, elsewhere, blank, garbled, g1, g2, p1

\* wide and narrow share a group, and are together over the budget of 3;
\* elsewhere is another group of the same provider instance.
MCItem == {"w1", "w2", "n1", "e1", "b1"}
MCCost == [item \in MCItem |-> CASE item \in {"w2", "n1"} -> 2
                                 [] item = "b1" -> 0
                                 [] OTHER -> 1]
MCItemsOf == [k \in Key |-> CASE k = wide -> <<"w1", "b1", "w2">>
                              [] k = narrow -> <<"n1">>
                              [] k = elsewhere -> <<"e1">>
                              [] k = blank -> <<"b1">>
                              [] OTHER -> <<>>]
MCKindOf == [k \in Key |-> "embed"]
MCGroupOf == [k \in Key |-> IF k = elsewhere THEN g2 ELSE g1]
MCProviderOf == [g \in Group |-> p1]
MCWidth == [p \in Provider |-> 1]
=============================================================================
