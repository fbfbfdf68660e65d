------------------------------ MODULE DebugLog ------------------------------
(***************************************************************************)
(* What publish writes to the debug log: the data of an event with the     *)
(* strings under protected keys overwritten.  An object is the sequence of *)
(* its fields in the order Object.keys gives them; a key is protected or   *)
(* plain, a leaf a string, what a string was overwritten with, or          *)
(* anything else (a number, null).                                         *)
(***************************************************************************)
EXTENDS SequencesExt

CONSTANT Data   \* the values of message.data events may have

VARIABLES
  nestedObject,   \* the module's flag, which outlives a call
  logged          \* the last line: what was given and what was written

Field(key, value) == [key |-> key, value |-> value]

Leaf(kind) == [kind |-> kind, fields |-> << >>]

Object(fields) == [kind |-> "object", fields |-> fields]

(* Mutants: the flag is not looked at, or not reset. *)
ProtectedByKey(field, nested) == field.key = "protected"

Protected(field, nested) == field.key = "protected" \/ nested

AfterNestedKept == TRUE

(* The flag once a nested object has been dealt with. *)
AfterNested == FALSE

(* The loop over the keys, in their order, with the flag threaded through. *)
RECURSIVE redactObjectsProperties(_, _)
redactObjectsProperties(fields, flag) ==
  IF fields = << >> THEN [fields |-> << >>, nested |-> flag]
  ELSE
    LET field == Head(fields)
        nested == Protected(field, flag) /\ field.value.kind = "object"
        value ==
          IF ~Protected(field, flag) THEN field.value
          ELSE IF field.value.kind = "string" THEN Leaf("redacted")
          ELSE IF nested
               THEN Object(redactObjectsProperties(field.value.fields, TRUE).fields)
          ELSE field.value
        rest == redactObjectsProperties(Tail(fields),
                                        IF nested THEN AfterNested ELSE flag)
    IN [fields |-> <<Field(field.key, value)>> \o rest.fields,
        nested |-> rest.nested]

(* An event without data is not logged, nor is any when debug is off. *)
debugLog(data) ==
  LET result == redactObjectsProperties(data, nestedObject) IN
  /\ nestedObject' = result.nested
  /\ logged' = [given |-> data, written |-> result.fields]

Init == nestedObject = FALSE /\ logged = [given |-> << >>, written |-> << >>]

Next == \E data \in Data : debugLog(data)

Spec == Init /\ [][Next]_<<nestedObject, logged>>

-----------------------------------------------------------------------------
(* Whether no string is left in what a protected key held. *)
RECURSIVE NoString(_)
NoString(value) ==
  /\ value.kind # "string"
  /\ \A n \in DOMAIN value.fields : NoString(value.fields[n].value)

(* Whether a value was written as it was given, hidden strings apart. *)
RECURSIVE SameValue(_, _, _)
SameValue(given, written, hidden) ==
  \/ given = written
  \/ /\ hidden
     /\ given.kind = "string" => written.kind = "redacted"
     /\ given.kind # "string" => written.kind = given.kind
     /\ Len(given.fields) = Len(written.fields)
     /\ \A n \in DOMAIN given.fields :
          /\ given.fields[n].key = written.fields[n].key
          /\ SameValue(given.fields[n].value, written.fields[n].value, TRUE)

(* Every event, whatever was logged before: what is under plain keys is    *)
(* written as it is, in the same order, what is no string is kept.         *)
PlainDataKept ==
  /\ Len(logged.given) = Len(logged.written)
  /\ \A n \in DOMAIN logged.given :
       /\ logged.given[n].key = logged.written[n].key
       /\ SameValue(logged.given[n].value, logged.written[n].value,
                    logged.given[n].key = "protected")

(* A protected string is overwritten, and so is every string of a          *)
(* protected object that holds no object of its own (content; a            *)
(* personalisation without lists).                                         *)
FlatDataRedacted ==
  \A n \in DOMAIN logged.written :
    LET field == logged.written[n]
        flat == \A k \in DOMAIN field.value.fields :
                  field.value.fields[k].value.kind # "object"
    IN field.key = "protected" /\ flat => NoString(field.value)
=============================================================================
