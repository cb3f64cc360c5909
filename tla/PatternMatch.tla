---------------------------- MODULE PatternMatch ----------------------------
(***************************************************************************)
(* The pattern matcher of pkg/iampolicy: matchPattern and matchARN expand  *)
(* the ${key} references of a pattern, and matchGlob scans the request's   *)
(* value with a single backtrack point.  A string is a sequence of its     *)
(* bytes.  A pattern of a document that predates variables is rewritten    *)
(* first, so that it is read as text.                                      *)
(*                                                                         *)
(* The scan runs over the elements of the pattern, as `token' decodes      *)
(* them, so its positions count elements where the code's count bytes; a   *)
(* star is one byte, which is all that the restart at star+1 relies on.    *)
(***************************************************************************)
EXTENDS Integers, Sequences, FiniteSets

CONSTANTS
    Calls,          \* [kind, pattern, value, keys, failClosed, old]
    NoCall, NoAnswer,
    Substitutable,  \* the keys a reference may name
    ArnComponents   \* 6 in the code

ASSUME CallsAssumption == NoCall \notin Calls /\ NoAnswer \notin BOOLEAN
ASSUME StringsAssumption ==
    \A c \in Calls :
        /\ c.pattern \in Seq(STRING) /\ c.value \in Seq(STRING)
        /\ \A name \in DOMAIN c.keys : c.keys[name] \in Seq(STRING)
        /\ c.failClosed \in BOOLEAN /\ c.old \in BOOLEAN
ASSUME ComponentsAssumption == ArnComponents \in Nat \ {0, 1}

VARIABLES
    pc,             \* "idle", "split", "next", "scan" or "done"
    call,           \* the call under way
    todo,           \* the components still to be matched: [pattern, value]
    tokens,         \* the elements of the pattern being scanned
    p, v,           \* where the scan stands in the pattern and in the value
    star, starV,    \* its backtrack point; no star has been seen while star is 0
    answer

scanVars == << tokens, p, v, star, starV >>
vars == << pc, call, todo, scanVars, answer >>
----------------------------------------------------------------------------
(* References.  ${*}, ${?} and ${$} stand for the character.               *)
LiteralVariables == { << "*" >>, << "?" >>, << "$" >> }

Opens(s, i) == i < Len(s) /\ s[i] = "$" /\ s[i + 1] = "{"
HasReference(s) == \E i \in 1 .. Len(s) : Opens(s, i)

(* The closing brace of the reference opened at i, 0 if there is none.     *)
Closing(s, i) ==
    LET at == { j \in i + 2 .. Len(s) : s[j] = "}" }
    IN  IF at = {} THEN 0 ELSE CHOOSE j \in at : \A k \in at : j <= k

NameAt(s, i) == SubSeq(s, i + 2, Closing(s, i) - 1)

Resolvable(name, keys) ==
    name \in LiteralVariables \/ (name \in Substitutable /\ name \in DOMAIN keys)

ValueOf(name, keys) == IF name \in LiteralVariables THEN name ELSE keys[name]

(* The bytes that are escaped in the pattern's own text, and in what a     *)
(* reference is replaced by.                                               *)
EscapesInText == {"\\"}
OnlyBackslash == {"\\"}                 \* mutant: a value may act as a wildcard
EscapesInValue == {"\\", "*", "?"}

WriteEscaped(s, chars) ==
    LET W[i \in 1 .. Len(s) + 1] ==
            IF i > Len(s) THEN << >>
            ELSE (IF s[i] \in chars THEN << "\\", s[i] >> ELSE << s[i] >>) \o W[i + 1]
    IN  W[1]

(* What ok says is whether every reference resolved.                       *)
ExpandVariables(s, keys) ==
    LET E[i \in 1 .. Len(s) + 1] ==
            IF i > Len(s) THEN [ok |-> TRUE, text |-> << >>]
            ELSE IF Opens(s, i) /\ (Closing(s, i) = 0 \/ ~Resolvable(NameAt(s, i), keys))
            THEN [ok |-> FALSE, text |-> << >>]
            ELSE LET text == IF Opens(s, i)
                             THEN WriteEscaped(ValueOf(NameAt(s, i), keys), EscapesInValue)
                             ELSE WriteEscaped(<< s[i] >>, EscapesInText)
                     rest == E[IF Opens(s, i) THEN Closing(s, i) + 1 ELSE i + 1]
                 IN  [ok |-> rest.ok, text |-> text \o rest.text]
    IN  E[1]

(* Why a reference of s resolves nowhere: UnresolvableVariable, which is   *)
(* asked before a policy is stored.                                        *)
FirstOnly(s) ==                         \* mutant: the first reference is the only one
    LET opening == { i \in 1 .. Len(s) : Opens(s, i) }
        i == CHOOSE i \in opening : \A j \in opening : i <= j
    IN  IF opening = {} THEN "ok"
        ELSE IF Closing(s, i) = 0 THEN "unterminated"
        ELSE IF NameAt(s, i) \in LiteralVariables \cup Substitutable THEN "ok"
        ELSE "unknown"

UnresolvableVariable(s) ==
    LET U[i \in 1 .. Len(s) + 1] ==
            IF i > Len(s) THEN "ok"
            ELSE IF ~Opens(s, i) THEN U[i + 1]
            ELSE IF Closing(s, i) = 0 THEN "unterminated"
            ELSE IF NameAt(s, i) \in LiteralVariables \cup Substitutable
            THEN U[Closing(s, i) + 1]
            ELSE "unknown"
    IN  U[1]

(* Each ${ of a document of an older version becomes ${$}{ .               *)
LiteralReference(s) ==
    LET L[i \in 1 .. Len(s) + 1] ==
            IF i > Len(s) THEN << >>
            ELSE IF Opens(s, i) THEN << "$", "{", "$", "}", "{" >> \o L[i + 2]
            ELSE << s[i] >> \o L[i + 1]
    IN  L[1]

AsRead(c) == IF c.old THEN LiteralReference(c.pattern) ELSE c.pattern
----------------------------------------------------------------------------
(* The elements of a pattern.                                              *)
Metacharacters == {"*", "?"}

Token(s, escapes) ==
    LET T[i \in 1 .. Len(s) + 1] ==
            IF i > Len(s) THEN << >>
            ELSE IF escapes /\ s[i] = "\\" /\ i < Len(s)
            THEN << [char |-> s[i + 1], meta |-> FALSE] >> \o T[i + 2]
            ELSE << [char |-> s[i], meta |-> s[i] \in Metacharacters] >> \o T[i + 1]
    IN  T[1]

IsStar(t) == t.meta /\ t.char = "*"
Takes(t, c) == ~IsStar(t) /\ (t.meta \/ t.char = c)
----------------------------------------------------------------------------
(* ARNs.  A colon inside a reference does not split a pattern.             *)
InVariable(s, i) == \E j \in 1 .. i - 1 : Opens(s, j) /\ \A k \in j + 2 .. i - 1 : s[k] # "}"

EveryColon(s) == { i \in 1 .. Len(s) : s[i] = ":" }
PatternColons(s) == { i \in EveryColon(s) : ~InVariable(s, i) }

(* The first ArnComponents - 1 colons split; the last component keeps the  *)
(* others.                                                                 *)
Splits(colons) == Cardinality(colons) >= ArnComponents - 1

Cut(colons, k) == CHOOSE i \in colons : Cardinality({ j \in colons : j <= i }) = k

Component(s, colons, k) ==
    SubSeq(s, IF k = 1 THEN 1 ELSE Cut(colons, k - 1) + 1,
              IF k = ArnComponents THEN Len(s) ELSE Cut(colons, k) - 1)
----------------------------------------------------------------------------
Unscanned ==
    tokens' = << >> /\ p' = 1 /\ v' = 1 /\ star' = 0 /\ starV' = 0

Answer(a) ==
    /\ pc' = "done" /\ answer' = a
    /\ todo' = << >> /\ Unscanned

(* matchPattern is called for one component that is the whole string, and  *)
(* by matchARN for each component in turn.                                 *)
Call ==
    /\ pc = "idle"
    /\ \E c \in Calls :
          /\ call' = c
          /\ \/ /\ c.kind = "pattern" /\ pc' = "next"
                /\ todo' = << [pattern |-> AsRead(c), value |-> c.value] >>
             \/ c.kind = "arn" /\ pc' = "split" /\ UNCHANGED todo
    /\ UNCHANGED << scanVars, answer >>

(* matchARN.                                                               *)
Unresolved(s) == HasReference(s) /\ ~ExpandVariables(s, call.keys).ok

RefuseARN ==
    LET s == AsRead(call)
    IN  /\ pc = "split"
        /\ \/ Unresolved(s) /\ Answer(call.failClosed)
           \/ ~Unresolved(s) /\ ~Splits(PatternColons(s)) /\ Answer(FALSE)
           \/ /\ ~Unresolved(s) /\ Splits(PatternColons(s))
              /\ ~Splits(EveryColon(call.value)) /\ Answer(call.failClosed)
        /\ UNCHANGED call

SplitARN ==
    LET s == AsRead(call)
    IN  /\ pc = "split" /\ ~Unresolved(s)
        /\ Splits(PatternColons(s)) /\ Splits(EveryColon(call.value))
        /\ pc' = "next"
        /\ todo' = [k \in 1 .. ArnComponents |->
                      [pattern |-> Component(s, PatternColons(s), k),
                       value |-> Component(call.value, EveryColon(call.value), k)]]
        /\ UNCHANGED << call, scanVars, answer >>

(* A component that matches leaves the others to be matched; one that does *)
(* not is the answer.                                                      *)
Matched(yes) ==
    /\ pc \in {"next", "scan"} /\ todo # << >>
    /\ UNCHANGED call
    /\ \/ /\ yes
          /\ pc' = "next" /\ todo' = Tail(todo) /\ Unscanned
          /\ UNCHANGED answer
       \/ ~yes /\ Answer(FALSE)

Scan(elements) ==
    /\ pc' = "scan" /\ tokens' = elements
    /\ p' = 1 /\ v' = 1 /\ star' = 0 /\ starV' = 0
    /\ UNCHANGED << call, todo, answer >>

(* MatchWildcard, for a pattern without references.                        *)
Literal ==
    /\ pc = "next" /\ todo # << >> /\ ~HasReference(Head(todo).pattern)
    /\ LET s == Head(todo).pattern
       IN  \/ s = << "*" >> /\ Matched(TRUE)
           \/ /\ \A i \in 1 .. Len(s) : s[i] \notin Metacharacters
              /\ Matched(s = Head(todo).value)
           \/ /\ s # << "*" >> /\ \E i \in 1 .. Len(s) : s[i] \in Metacharacters
              /\ Scan(Token(s, FALSE))

Unresolvable ==
    /\ pc = "next" /\ todo # << >>
    /\ Unresolved(Head(todo).pattern)
    /\ Matched(call.failClosed)

Resolved ==
    /\ pc = "next" /\ todo # << >> /\ HasReference(Head(todo).pattern)
    /\ LET expanded == ExpandVariables(Head(todo).pattern, call.keys)
       IN  expanded.ok /\ Scan(Token(expanded.text, TRUE))

AllMatched ==
    /\ pc = "next" /\ todo = << >>
    /\ Answer(TRUE)
    /\ UNCHANGED call
----------------------------------------------------------------------------
(* matchGlob.                                                              *)
Value == Head(todo).value
MoreValue == pc = "scan" /\ v <= Len(Value)
AtStar == p <= Len(tokens) /\ IsStar(tokens[p])
AtMatch == p <= Len(tokens) /\ Takes(tokens[p], Value[v])

Star ==
    /\ MoreValue /\ AtStar
    /\ star' = p /\ starV' = v /\ p' = p + 1
    /\ UNCHANGED << pc, call, todo, tokens, v, answer >>

One ==
    /\ MoreValue /\ AtMatch
    /\ p' = p + 1 /\ v' = v + 1
    /\ UNCHANGED << pc, call, todo, tokens, star, starV, answer >>

RestartInPlace ==                       \* mutant: the backtrack point stays
    /\ MoreValue /\ ~AtStar /\ ~AtMatch /\ star # 0
    /\ p' = star + 1 /\ v' = starV
    /\ UNCHANGED << pc, call, todo, tokens, star, starV, answer >>

Restart ==
    /\ MoreValue /\ ~AtStar /\ ~AtMatch /\ star # 0
    /\ starV' = starV + 1
    /\ p' = star + 1 /\ v' = starV + 1
    /\ UNCHANGED << pc, call, todo, tokens, star, answer >>

Mismatch ==
    /\ MoreValue /\ ~AtStar /\ ~AtMatch /\ star = 0
    /\ Matched(FALSE)

TrailingPair ==                         \* mutant: the step is two wide
    /\ pc = "scan" /\ ~MoreValue /\ AtStar
    /\ p' = p + 2
    /\ UNCHANGED << pc, call, todo, tokens, v, star, starV, answer >>

TrailingStar ==
    /\ pc = "scan" /\ ~MoreValue /\ AtStar
    /\ p' = p + 1
    /\ UNCHANGED << pc, call, todo, tokens, v, star, starV, answer >>

ScanEnds ==
    /\ pc = "scan" /\ ~MoreValue /\ ~AtStar
    /\ Matched(p = Len(tokens) + 1)

(* The caller takes the answer.                                            *)
Return ==
    /\ pc = "done"
    /\ pc' = "idle" /\ call' = NoCall /\ answer' = NoAnswer
    /\ UNCHANGED << todo, scanVars >>
----------------------------------------------------------------------------
Init ==
    /\ pc = "idle" /\ call = NoCall /\ answer = NoAnswer
    /\ todo = << >> /\ tokens = << >>
    /\ p = 1 /\ v = 1 /\ star = 0 /\ starV = 0

Step ==
    \/ RefuseARN \/ SplitARN \/ Literal \/ Unresolvable \/ Resolved \/ AllMatched
    \/ Star \/ One \/ Restart \/ Mismatch \/ TrailingStar \/ ScanEnds

Next ==
    Call \/ Step \/ Return

Spec == Init /\ [][Next]_vars
----------------------------------------------------------------------------
(* The scan stays within the pattern and the value, and the backtrack      *)
(* point lies behind it.                                                   *)
TypeOK ==
    /\ pc \in {"idle", "split", "next", "scan", "done"}
    /\ IF pc = "idle" THEN call = NoCall ELSE call \in Calls
    /\ answer \in IF pc = "done" THEN BOOLEAN ELSE {NoAnswer}
    /\ p \in 1 .. Len(tokens) + 1
    /\ pc # "scan" => tokens = << >> /\ star = 0
    /\ pc = "scan" =>
          /\ todo # << >>
          /\ v \in 1 .. Len(Value) + 1
          /\ star # 0 => /\ star \in 1 .. p - 1 /\ IsStar(tokens[star])
                         /\ starV \in 1 .. v

(* What a pattern means, without regard to how it is matched: its own      *)
(* bytes, with * and ? as wildcards, and the bytes that its references     *)
(* stand for, none of which is a wildcard.  `own' tells the two apart.     *)
Own(b) == [char |-> b, meta |-> b \in Metacharacters, own |-> TRUE]
Substituted(s) == [i \in 1 .. Len(s) |-> [char |-> s[i], meta |-> FALSE, own |-> FALSE]]

Meaning(s, keys, old) ==
    LET M[i \in 1 .. Len(s) + 1] ==
            IF i > Len(s) THEN << >>
            ELSE IF old \/ ~Opens(s, i) THEN << Own(s[i]) >> \o M[i + 1]
            ELSE Substituted(ValueOf(NameAt(s, i), keys)) \o M[Closing(s, i) + 1]
    IN  M[1]

(* A reference that cannot be resolved, or never ends, leaves no meaning.  *)
References(s) ==
    { i \in 1 .. Len(s) : Opens(s, i) /\ ~InVariable(s, i) }

Meaningless(c) ==
    ~c.old /\ \E i \in References(c.pattern) :
                 Closing(c.pattern, i) = 0 \/ ~Resolvable(NameAt(c.pattern, i), c.keys)

(* The elements of t from the k-th on cover the value from its i-th byte   *)
(* on: at[j] is where the j-th begins.                                     *)
Covers(t, s, k, i, at) ==
    /\ at[k] = i /\ at[Len(t) + 1] = Len(s) + 1
    /\ \A j \in k .. Len(t) :
          IF IsStar(t[j]) THEN at[j] <= at[j + 1]
          ELSE at[j + 1] = at[j] + 1 /\ at[j] <= Len(s) /\ Takes(t[j], s[at[j]])

(* The cover of the whole value that begins the inner elements of t there. *)
Around(t, s, inner) ==
    [j \in 1 .. Len(t) + 1 |->
        IF j = 1 THEN 1 ELSE IF j > Len(t) THEN Len(s) + 1 ELSE inner[j]]

Accepts(t, s) ==
    \E inner \in [2 .. Len(t) -> 1 .. Len(s) + 1] : Covers(t, s, 1, 1, Around(t, s, inner))

(* As Accepts, and no byte of the value in `fixed' is left to a wildcard   *)
(* or to a substituted value.                                              *)
AcceptsFixed(t, s, fixed) ==
    \E inner \in [2 .. Len(t) -> 1 .. Len(s) + 1] :
        LET at == Around(t, s, inner)
        IN  /\ Covers(t, s, 1, 1, at)
            /\ \A j \in 1 .. Len(t) :
                  ~t[j].own \/ t[j].meta => (at[j] .. at[j + 1] - 1) \cap fixed = {}

FirstColons(s) ==
    { i \in EveryColon(s) : Cardinality({ j \in EveryColon(s) : j <= i }) < ArnComponents }

OwnColons(t) == { i \in 1 .. Len(t) : t[i].own /\ t[i].char = ":" }

(* Whether the pattern selects the value.  In an ARN the colons that       *)
(* separate the components are matched by colons of the pattern alone.     *)
Selects(c) ==
    IF Meaningless(c) THEN c.failClosed
    ELSE LET t == Meaning(c.pattern, c.keys, c.old)
         IN  IF c.kind = "pattern" THEN Accepts(t, c.value)
             ELSE IF ~Splits(OwnColons(t)) THEN FALSE
             ELSE IF ~Splits(EveryColon(c.value)) THEN c.failClosed
             ELSE AcceptsFixed(t, c.value, FirstColons(c.value))

(* What the write path accepts has a meaning wherever every substitutable  *)
(* key is supplied, and what it rejects has none at any door (variables.go,*)
(* UnresolvableVariable against expandVariables).                          *)
WritePathAgrees ==
    pc # "idle" /\ ~call.old =>
        LET fault == UnresolvableVariable(call.pattern)
        IN  /\ fault = "ok" /\ Substitutable \subseteq DOMAIN call.keys => ~Meaningless(call)
            /\ fault # "ok" => Meaningless(call)

D == INSTANCE Decision WITH
        NoQuestion <- NoCall, Verdict <- Selects, question <- call

(* The matcher implements Decision: whatever expansion, escapes, splitting *)
(* and backtracking do, a call is answered by what the pattern means       *)
(* (match.go, matchPattern and matchARN).                                  *)
ImplementsDecision == D!Spec

(* The scan comes to an end: every step of it reaches a later star, or     *)
(* restarts a later byte after the same star, or reads on, and each of     *)
(* these is bounded by the pattern or the value (match.go, matchGlob).     *)
ScanAdvances ==
    [][pc = "scan" /\ pc' = "scan" =>
          \/ star' > star
          \/ star' = star /\ starV' > starV
          \/ star' = star /\ starV' = starV /\ p' > p]_vars
=============================================================================
