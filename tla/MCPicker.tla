------------------------------ MODULE MCPicker ------------------------------
(* Two drill keys and lists that hold them in both orders; a struct with two   *)
(* fields for the same key, by name and by tag, and one with a field for      *)
(* each of two keys.                                                         *)
EXTENDS Picker

CONSTANTS Envelope, Pair

MCKeys == {"data", "Data", "body", "Body", "id"}
MCCapital == [k \in MCKeys |-> CASE k = "data" -> "Data" [] k = "body" -> "Body"
                                 [] OTHER -> k]

MCTypes == {Envelope, Pair}
MCFields == [t \in MCTypes |->
    IF t = Envelope
      THEN <<[name |-> "Data", json |-> "id"], [name |-> "Body", json |-> "data"]>>
      ELSE <<[name |-> "Body", json |-> "body"], [name |-> "Data", json |-> "id"]>>]

MCMaps == {{"id"}, {"Data", "id"}, {"data", "Data", "body"}}

DataFirst == <<"data">>
BodyFirst == <<"body">>
MCDefaultLists == {DataFirst, BodyFirst}
MCKeyLists == {<<"data", "body">>, <<"body", "id">>}
=============================================================================
