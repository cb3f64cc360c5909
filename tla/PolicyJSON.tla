----------------------------- MODULE PolicyJSON -----------------------------
(***************************************************************************)
(* How pkg/iampolicy reads and writes the lists of a policy document       *)
(* (types.go): StringOrArr for actions and resources, ConditionValue for   *)
(* the values of a condition.  A JSON value has one field:                 *)
(*     [null], [str], [bool], [num] (its literal), [arr] or [obj].         *)
(***************************************************************************)
EXTENDS Integers, Sequences

CONSTANTS Nil, JSONError    \* the nil slice; an error
ASSUME NilAssumption == Nil # JSONError

Field(j) == CHOOSE f \in DOMAIN j : TRUE

(* conditionScalar.                                                        *)
ConditionScalar(j) ==
    CASE Field(j) = "str" -> j.str
      [] Field(j) = "num" -> j.num
      [] Field(j) = "bool" -> IF j.bool THEN "true" ELSE "false"
      [] OTHER -> JSONError

(* The elements as decoded, unless one of them is an error.                *)
Elements(decoded) ==
    IF \E i \in 1 .. Len(decoded) : decoded[i] = JSONError THEN JSONError ELSE decoded

UnmarshalConditionValue(j) ==
    CASE Field(j) = "arr" -> Elements([i \in 1 .. Len(j.arr) |-> ConditionScalar(j.arr[i])])
      [] Field(j) = "null" -> Nil
      [] OTHER -> Elements(<< ConditionScalar(j) >>)

(* A string, as encoding/json (external) decodes it; null leaves it empty. *)
DecodeString(j) ==
    CASE Field(j) = "str" -> j.str
      [] Field(j) = "null" -> ""
      [] OTHER -> JSONError

NullIsString(j) ==                      \* mutant: null is not looked for first
    CASE Field(j) \in {"str", "null"} -> << DecodeString(j) >>
      [] Field(j) = "arr" -> Elements([i \in 1 .. Len(j.arr) |-> DecodeString(j.arr[i])])
      [] OTHER -> JSONError

UnmarshalStringOrArr(j) ==
    CASE Field(j) = "null" -> Nil
      [] Field(j) = "str" -> << j.str >>
      [] Field(j) = "arr" -> Elements([i \in 1 .. Len(j.arr) |-> DecodeString(j.arr[i])])
      [] OTHER -> JSONError

(* MarshalJSON of both types.                                              *)
MarshalJSON(s) ==
    IF s = Nil THEN [null |-> TRUE]
    ELSE IF Len(s) = 1 THEN [str |-> s[1]]
    ELSE [arr |-> [i \in 1 .. Len(s) |-> [str |-> s[i]]]]

(* What was read is read again from what is written, so a document that is *)
(* stored and loaded keeps its meaning; and a field left null selects      *)
(* nothing, in either type.                                                *)
RoundTripsOn(j) ==
    LET s == UnmarshalStringOrArr(j)
        c == UnmarshalConditionValue(j)
    IN  /\ s # JSONError => UnmarshalStringOrArr(MarshalJSON(s)) = s
        /\ c # JSONError => UnmarshalConditionValue(MarshalJSON(c)) = c
        /\ s # JSONError /\ c # JSONError => s = c
=============================================================================
