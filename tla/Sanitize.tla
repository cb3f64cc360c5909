------------------------------ MODULE Sanitize ------------------------------
(***************************************************************************)
(* The UTF-8 sanitising of log records in pkg/otelsetup (logsanitize.go).  *)
(* A string is a sequence of characters, of which Bad stands for a byte    *)
(* that is no UTF-8.  A value has one field, named for its type:           *)
(*     [string], [strings], [slice], [map] (a sequence of [key, value])    *)
(* or [other], which is passed through.                                    *)
(***************************************************************************)
EXTENDS Integers, Sequences, FiniteSets, SequencesExt

CONSTANTS Bad, Replacement
ASSUME CharactersAssumption == Bad # Replacement

Is(v, type) == DOMAIN v = {type}
Valid(s) == \A i \in 1 .. Len(s) : s[i] # Bad

(* strings.ToValidUTF8 (external): one replacement for each maximal run.   *)
ToValidUTF8(s) ==
    LET W[i \in 0 .. Len(s)] ==
            IF i = 0 THEN << >>
            ELSE IF s[i] # Bad THEN Append(W[i - 1], s[i])
            ELSE IF i > 1 /\ s[i - 1] = Bad THEN W[i - 1] ELSE Append(W[i - 1], Replacement)
    IN  W[Len(s)]

SanitizeString(s) == IF Valid(s) THEN s ELSE ToValidUTF8(s)

(* Whether one of the elements, or their last, has changed.                *)
LastChanged(flags) == flags # << >> /\ flags[Len(flags)]   \* mutant: changed = c
AnyChanged(flags) == \E i \in 1 .. Len(flags) : flags[i]

(* The value, and whether it is another than v.                            *)
RECURSIVE SanitizeValue(_)
SanitizeValue(v) ==
    LET out == CASE Is(v, "string") -> [string |-> SanitizeString(v.string)]
                 [] Is(v, "strings") ->
                      [strings |-> [i \in 1 .. Len(v.strings) |-> SanitizeString(v.strings[i])]]
                 [] Is(v, "slice") ->
                      [slice |-> [i \in 1 .. Len(v.slice) |-> SanitizeValue(v.slice[i]).value]]
                 [] Is(v, "map") ->
                      [map |-> [i \in 1 .. Len(v.map) |->
                                  [key |-> SanitizeString(v.map[i].key),
                                   value |-> SanitizeValue(v.map[i].value).value]]]
                 [] OTHER -> v
        flags == CASE Is(v, "string") -> << ~Valid(v.string) >>
                   [] Is(v, "strings") ->
                        [i \in 1 .. Len(v.strings) |-> out.strings[i] # v.strings[i]]
                   [] Is(v, "slice") ->
                        [i \in 1 .. Len(v.slice) |-> SanitizeValue(v.slice[i]).changed]
                   [] Is(v, "map") ->
                        [i \in 1 .. Len(v.map) |->
                           SanitizeValue(v.map[i].value).changed \/ ~Valid(v.map[i].key)]
                   [] OTHER -> << >>
    IN  IF AnyChanged(flags) THEN [value |-> out, changed |-> TRUE]
        ELSE [value |-> v, changed |-> FALSE]

Dirty(attrs) ==
    \E i \in 1 .. Len(attrs) :
        ~Valid(attrs[i].key) \/ SanitizeValue(attrs[i].value).changed

(* Record.SetAttributes (external): of equal keys the last value stays.    *)
SetAttributes(attrs) ==
    LET S[i \in 0 .. Len(attrs)] ==
            IF i = 0 THEN << >>
            ELSE LET at == { j \in 1 .. Len(S[i - 1]) : S[i - 1][j].key = attrs[i].key }
                 IN  IF at = {} THEN Append(S[i - 1], attrs[i])
                     ELSE [S[i - 1] EXCEPT ![CHOOSE j \in at : TRUE] = attrs[i]]
    IN  S[Len(attrs)]

(* What is handed to the next processor.                                   *)
OnEmit(record) ==
    [body |-> SanitizeValue(record.body).value,
     attrs |-> IF ~Dirty(record.attrs) THEN record.attrs
               ELSE SetAttributes(
                      [i \in 1 .. Len(record.attrs) |->
                          [key |-> SanitizeString(record.attrs[i].key),
                           value |-> SanitizeValue(record.attrs[i].value).value]])]
----------------------------------------------------------------------------
(* The reference: every string in a value, in order.                       *)
RECURSIVE StringsIn(_)
StringsIn(v) ==
    CASE Is(v, "string") -> << v.string >>
      [] Is(v, "strings") -> v.strings
      [] Is(v, "slice") -> FlattenSeq([i \in 1 .. Len(v.slice) |-> StringsIn(v.slice[i])])
      [] Is(v, "map") -> FlattenSeq([i \in 1 .. Len(v.map) |->
                                       << v.map[i].key >> \o StringsIn(v.map[i].value)])
      [] OTHER -> << >>

(* Two strings agree if they have the same good characters in the same     *)
(* order, and a string without a bad one is left as it is.                 *)
Good(s) == SelectSeq(s, LAMBDA c : c \notin {Bad, Replacement})
Cleans(s, t) == Valid(t) /\ Good(t) = Good(s) /\ (Valid(s) => t = s)

CleansAll(from, to) ==
    /\ Len(from) = Len(to)
    /\ \A i \in 1 .. Len(from) : Cleans(from[i], to[i])

CleanedOn(record) ==
    LET emitted == OnEmit(record)
        keys == { ToValidUTF8(record.attrs[i].key) : i \in 1 .. Len(record.attrs) }
    IN  /\ CleansAll(StringsIn(record.body), StringsIn(emitted.body))
        /\ { emitted.attrs[i].key : i \in 1 .. Len(emitted.attrs) } = keys
        /\ Len(emitted.attrs) = Cardinality(keys)
        /\ \A i \in 1 .. Len(emitted.attrs) : \E j \in 1 .. Len(record.attrs) :
              /\ ToValidUTF8(record.attrs[j].key) = emitted.attrs[i].key
              /\ CleansAll(StringsIn(record.attrs[j].value), StringsIn(emitted.attrs[i].value))
=============================================================================
