--------------------------- MODULE MCPatternMatch ---------------------------
(* Calls of the matcher for TLC: short strings over small alphabets.       *)
EXTENDS PatternMatch, SequencesExt

Upto(alphabet, n) == UNION { [1 .. k -> alphabet] : k \in 0 .. n }
Strings(pieces, n) == { FlattenSeq(f) : f \in Upto(pieces, n) }

Ask(kind, patterns, values, keys, closed, old) ==
    [kind : {kind}, pattern : patterns, value : values, keys : keys, failClosed : closed, old : old]

MCSubstitutable == { << "u" >>, << "u", ":" >> }
NoKeys == [k \in {} |-> << >>]
Keys(s) == [k \in MCSubstitutable |-> s]

(* Stars and restarts.                                                     *)
Globs ==
    Ask("pattern", Upto({"*", "?", "a", "b"}, 4), Upto({"a", "b"}, 4), {NoKeys}, {FALSE}, {FALSE})
      \cup Ask("pattern", [1 .. 5 -> {"*", "a", "b"}], [1 .. 5 -> {"a", "b"}], {NoKeys}, {FALSE}, {FALSE})

(* References, escapes and unfinished references, and old documents.       *)
Open == << "$", "{" >>
User == << "$", "{", "u", "}" >>
Star1 == << "$", "{", "*", "}" >>
Other == << "$", "{", "w", "}" >>

Referring ==
    Ask("pattern", Strings({<< "*" >>, << "a" >>, << "\\" >>, User, Star1}, 3), Upto({"a", "*", "\\"}, 2),
        {Keys(<< "*" >>), Keys(<< "a", "\\" >>)}, {FALSE}, {FALSE})
      \cup Ask("pattern", Strings({<< "*" >>, << "}" >>, Open, User, Other}, 3), Upto({"a", "}"}, 1),
               {NoKeys, Keys(<< "a" >>)}, BOOLEAN, {FALSE})
      \cup Ask("pattern", Strings({<< "*" >>, << "\\" >>, Open, << "}" >>}, 3),
               Strings({Open, << "$" >>, << "\\" >>, << "}" >>}, 2), {NoKeys}, {FALSE}, {TRUE})

(* ARNs of three components.                                               *)
UserID == << "$", "{", "u", ":", "}" >>

ARNs ==
    Ask("arn", { << ":" >> \o s \o << ":" >> \o t : s, t \in Strings({<< "*" >>, << "a" >>, UserID}, 2) }
                 \cup Strings({<< ":" >>, << "*" >>, UserID}, 3),
        Upto({":", "a"}, 4), {Keys(<< ":" >>), Keys(<< "a" >>)}, {FALSE}, {FALSE})
      \cup Ask("arn", Strings({<< ":" >>, << "a" >>, Other, Open}, 3),
               Upto({":", "a"}, 2), {NoKeys}, BOOLEAN, BOOLEAN)

MCCalls == Globs \cup Referring \cup ARNs
=============================================================================
