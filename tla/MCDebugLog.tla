----------------------------- MODULE MCDebugLog -----------------------------
(***************************************************************************)
(* Instances of DebugLog for TLC: data with objects nested two deep.       *)
(***************************************************************************)
EXTENDS DebugLog, Integers

Keys == {"protected", "plain"}

Fields(values) == {Field(key, value) : key \in Keys, value \in values}

Leaves == {Leaf("string"), Leaf("other")}

Flat == {Object(fields) : fields \in BoundedSeq(Fields(Leaves), 1)}

Nested == {Object(fields) : fields \in BoundedSeq(Fields(Leaves \cup Flat), 2)}

(* A field of any shape, then perhaps a plain string. *)
EventData == {<<f>> \o rest : f \in Fields(Leaves \cup Nested),
                              rest \in {<< >>, <<Field("plain", Leaf("string"))>>}}
=============================================================================
