-------------------------- MODULE PolicyEvaluator --------------------------
(***************************************************************************)
(* The policy evaluator of pkg/iampolicy: EvaluateWithKeys walks the       *)
(* statements of the policy documents in order and decides one request.    *)
(*                                                                         *)
(* A pattern (a resource or action pattern, or a condition value) is       *)
(* abstracted to what it selects:                                          *)
(*   refs       the ${key} references in it; {} when there is none         *)
(*   asWritten  the values it selects when ${ is ordinary text             *)
(*   resolved   the values it selects once its references are replaced by  *)
(*              the request's keys                                         *)
(* A condition value that does not parse (a malformed CIDR block, date or  *)
(* number) selects nothing as written.                                     *)
(***************************************************************************)
EXTENDS Integers, Sequences

CONSTANTS
    Values,       \* actions, resources and condition key values
    Unparsed,     \* the values that are no address, date or number
    Calls,        \* the calls of EvaluateWithKeys: [policies, request]
    NoCall        \* no call is being evaluated

ASSUME UnparsedAssumption == Unparsed \subseteq Values

(* The patterns, conditions and statements of a document.                  *)
PatternRecords == [refs : SUBSET STRING, asWritten : SUBSET Values, resolved : SUBSET Values]
ConditionRecords ==
    [base : STRING, ifExists : BOOLEAN, key : STRING, values : SUBSET PatternRecords]
StatementRecords ==
    [effect : STRING, action : SUBSET PatternRecords, notAction : SUBSET PatternRecords,
     resource : SUBSET PatternRecords, notResource : SUBSET PatternRecords,
     principal : BOOLEAN, condition : SUBSET ConditionRecords]

ASSUME CallsAssumption ==
    /\ NoCall \notin Calls
    /\ \A c \in Calls :
          /\ Len(c.policies) \in Nat
          /\ \A n \in 1 .. Len(c.policies) :
                /\ Len(c.policies[n].statement) \in Nat
                /\ \A m \in 1 .. Len(c.policies[n].statement) :
                      c.policies[n].statement[m] \in StatementRecords

Version2012 == "2012-10-17"
EffectAllow == "Allow"
EffectDeny == "Deny"

(* ${*}, ${?} and ${$} stand for the character.                            *)
LiteralVariables == {"*", "?", "$"}

SubstitutableKeys == {"aws:username", "aws:PrincipalAccount", "aws:userid"}

(* Each negated operator with the positive one it inverts.                 *)
NegatedOperators ==
    [StringNotEquals |-> "StringEquals",
     StringNotEqualsIgnoreCase |-> "StringEqualsIgnoreCase",
     StringNotLike |-> "StringLike", NotIpAddress |-> "IpAddress",
     ArnNotEquals |-> "ArnEquals", ArnNotLike |-> "ArnLike",
     DateNotEquals |-> "DateEquals", NumericNotEquals |-> "NumericEquals"]

StringEqualsOps == {"StringEquals", "StringNotEquals",
                    "StringEqualsIgnoreCase", "StringNotEqualsIgnoreCase"}
StringLikeOps == {"StringLike", "StringNotLike"}
DateOps == {"DateEquals", "DateNotEquals", "DateLessThan", "DateLessThanEquals",
            "DateGreaterThan", "DateGreaterThanEquals"}
NumericOps == {"NumericEquals", "NumericNotEquals", "NumericLessThan",
               "NumericLessThanEquals", "NumericGreaterThan", "NumericGreaterThanEquals"}
IPOps == {"IpAddress", "NotIpAddress"}

RegisteredKeys ==
    {"aws:SourceIp", "s3:prefix", "s3:max-keys", "aws:SecureTransport", "aws:username",
     "aws:PrincipalAccount", "aws:userid", "aws:PrincipalType", "iam:PassedToService",
     "aws:CurrentTime", "aws:EpochTime"}

SupportedOperators(key) ==
    CASE key = "aws:SourceIp" -> IPOps
      [] key = "s3:max-keys" -> NumericOps
      [] key = "aws:SecureTransport" -> {"Bool"}
      [] key \in {"aws:username", "aws:PrincipalAccount"} -> StringEqualsOps
      [] key \in {"s3:prefix", "aws:userid", "aws:PrincipalType", "iam:PassedToService"} ->
            StringEqualsOps \cup StringLikeOps
      [] key = "aws:CurrentTime" -> DateOps
      [] key = "aws:EpochTime" -> DateOps \cup NumericOps
      [] OTHER -> {}

(* A condition is one operator applied to one key: the operator with its   *)
(* IfExists suffix taken off and whether it had one, the key, its values.  *)
SupportedCondition(c) ==
    IF c.base = "Null"
    THEN c.key \in RegisteredKeys /\ ~c.ifExists
    ELSE c.base \in SupportedOperators(c.key)

VARIABLES
    pc,         \* "idle", "scan" or "done"
    call,       \* the call being evaluated
    i, j,       \* the document and the statement looked at next
    hasAllow,   \* a matching Allow was seen
    decision    \* "None" until the call returns

vars == << pc, call, i, j, hasAllow, decision >>
----------------------------------------------------------------------------
(* Patterns.                                                               *)

(* A reference that names a key that is not the caller's identity, or that *)
(* this request does not carry.  (An unterminated one is a reference to a  *)
(* name no key has.)                                                       *)
Unresolvable(p, keys) ==
    \E ref \in p.refs \ LiteralVariables :
        ref \notin SubstitutableKeys \/ ref \notin DOMAIN keys

MatchPattern(p, v, keys, failClosed) ==
    IF p.refs = {} THEN v \in p.asWritten
    ELSE IF Unresolvable(p, keys) THEN failClosed
    ELSE v \in p.resolved

MatchesAny(patterns, v) == \E p \in patterns : v \in p.asWritten

MatchesAnyResource(patterns, v, keys, failClosed) ==
    \E p \in patterns : MatchPattern(p, v, keys, failClosed)

(* A document of an older version has ${ rewritten so that it is read as   *)
(* text, in its resource patterns and its condition values.                *)
Literal(p) == [p EXCEPT !.refs = {}]

WithLiteralVariables(s) ==
    [s EXCEPT !.resource = { Literal(p) : p \in @ },
              !.notResource = { Literal(p) : p \in @ },
              !.condition = { [c EXCEPT !.values = { Literal(v) : v \in @ }] : c \in @ }]
----------------------------------------------------------------------------
(* Conditions.                                                             *)

NullHolds(present, values) ==
    \E v \in values : \/ "true" \in v.asWritten /\ ~present
                      \/ "false" \in v.asWritten /\ present

(* A positive operator applied to the request's value.  Address, date and  *)
(* number operators parse the request's value first and compare as written,*)
(* as Bool does; the string operators resolve references.                  *)
Parses(op) == op \in IPOps \cup DateOps \cup NumericOps

PositiveHolds(op, actual, values, keys, failClosed) ==
    IF Parses(op)
    THEN IF actual \in Unparsed THEN failClosed ELSE MatchesAny(values, actual)
    ELSE IF op = "Bool"
    THEN MatchesAny(values, actual)
    ELSE MatchesAnyResource(values, actual, keys, failClosed)

NotInverted(op, actual, values, keys, failClosed) ==
    IF op \in DOMAIN NegatedOperators
    THEN ~PositiveHolds(NegatedOperators[op], actual, values, keys, failClosed)
    ELSE PositiveHolds(op, actual, values, keys, failClosed)

ConditionHolds(op, actual, values, keys, failClosed) ==
    IF op \in DOMAIN NegatedOperators
    THEN ~PositiveHolds(NegatedOperators[op], actual, values, keys, ~failClosed)
    ELSE PositiveHolds(op, actual, values, keys, failClosed)

(* What a condition says of a key that the request does not carry.         *)
HoldsWhenAbsent(c) == c.base \in DOMAIN NegatedOperators \/ c.ifExists

ConditionOn(c, keys, failClosed) ==
    IF c.base = "Null" THEN NullHolds(c.key \in DOMAIN keys, c.values)
    ELSE IF c.key \notin DOMAIN keys THEN HoldsWhenAbsent(c)
    ELSE ConditionHolds(c.base, keys[c.key], c.values, keys, failClosed)

ConditionsHold(s, keys, failClosed) ==
    \A c \in s.condition : ConditionOn(c, keys, failClosed)
----------------------------------------------------------------------------
(* Statements.                                                             *)

WellFormedActions(s) == s.action = {} \/ s.notAction = {}
WellFormedResources(s) == s.resource = {} \/ s.notResource = {}

Unenforceable(s) ==
    \/ ~WellFormedActions(s)
    \/ ~WellFormedResources(s)
    \/ s.principal
    \/ \E c \in s.condition : ~SupportedCondition(c)

MatchesAction(s, action) ==
    IF s.notAction # {}
    THEN ~MatchesAny(s.notAction, action)
    ELSE MatchesAny(s.action, action)

MatchesResource(s, resource, keys, failClosed) ==
    IF s.notResource # {}
    THEN ~MatchesAnyResource(s.notResource, resource, keys, ~failClosed)
    ELSE MatchesAnyResource(s.resource, resource, keys, failClosed)

Matches(s, req) ==
    LET failClosed == s.effect # EffectAllow
    IN  IF Unenforceable(s)
        THEN /\ failClosed
             /\ WellFormedActions(s) => MatchesAction(s, req.action)
             /\ WellFormedResources(s) =>
                    MatchesResource(s, req.resource, req.keys, failClosed)
        ELSE /\ MatchesAction(s, req.action)
             /\ MatchesResource(s, req.resource, req.keys, failClosed)
             /\ ConditionsHold(s, req.keys, failClosed)
----------------------------------------------------------------------------
(* EvaluateWithKeys.                                                       *)

Effective(doc, n) ==
    IF doc.version # Version2012
    THEN WithLiteralVariables(doc.statement[n])
    ELSE doc.statement[n]

Current == Effective(call.policies[i], j)

Call(c) ==
    /\ pc = "idle"
    /\ pc' = "scan"
    /\ call' = c
    /\ i' = 1 /\ j' = 1
    /\ hasAllow' = FALSE
    /\ decision' = "None"

AtStatement ==
    /\ pc = "scan"
    /\ i <= Len(call.policies)
    /\ j <= Len(call.policies[i].statement)

Skip ==
    /\ AtStatement
    /\ ~Matches(Current, call.request)
    /\ j' = j + 1
    /\ UNCHANGED << pc, call, i, hasAllow, decision >>

AllowReturns ==                         \* mutant: the first match decides
    /\ AtStatement
    /\ Matches(Current, call.request)
    /\ Current.effect = EffectAllow
    /\ decision' = "Allow" /\ pc' = "done"
    /\ UNCHANGED << call, i, j, hasAllow >>

AllowMatches ==
    /\ AtStatement
    /\ Matches(Current, call.request)
    /\ Current.effect = EffectAllow
    /\ hasAllow' = TRUE
    /\ j' = j + 1
    /\ UNCHANGED << pc, call, i, decision >>

DenyMatches ==
    /\ AtStatement
    /\ Matches(Current, call.request)
    /\ Current.effect # EffectAllow
    /\ decision' = "Deny"
    /\ pc' = "done"
    /\ UNCHANGED << call, i, j, hasAllow >>

NextDocumentFromZero ==
    /\ pc = "scan"
    /\ i <= Len(call.policies)
    /\ j > Len(call.policies[i].statement)
    /\ i' = i + 1 /\ j' = 0
    /\ UNCHANGED << pc, call, hasAllow, decision >>

NextDocument ==
    /\ pc = "scan"
    /\ i <= Len(call.policies)
    /\ j > Len(call.policies[i].statement)
    /\ i' = i + 1 /\ j' = 1
    /\ UNCHANGED << pc, call, hasAllow, decision >>

Finish ==
    /\ pc = "scan"
    /\ i > Len(call.policies)
    /\ decision' = IF hasAllow THEN "Allow" ELSE "Deny"
    /\ pc' = "done"
    /\ UNCHANGED << call, i, j, hasAllow >>

(* The caller takes the answer.                                            *)
Return ==
    /\ pc = "done"
    /\ pc' = "idle"
    /\ call' = NoCall
    /\ i' = 1 /\ j' = 1
    /\ hasAllow' = FALSE
    /\ decision' = "None"

Init ==
    /\ pc = "idle"
    /\ call = NoCall
    /\ i = 1 /\ j = 1
    /\ hasAllow = FALSE
    /\ decision = "None"

Next ==
    \/ \E c \in Calls : Call(c)
    \/ Skip \/ AllowMatches \/ DenyMatches \/ NextDocument \/ Finish \/ Return

Spec == Init /\ [][Next]_vars
----------------------------------------------------------------------------
(* The scan's state: its indices stay within the call's documents and one  *)
(* past the last statement, and a decision comes with the end of the scan. *)
TypeOK ==
    /\ pc \in {"idle", "scan", "done"}
    /\ hasAllow \in BOOLEAN
    /\ decision \in IF pc = "done" THEN {"Allow", "Deny"} ELSE {"None"}
    /\ IF pc = "idle"
       THEN call = NoCall /\ i = 1 /\ j = 1
       ELSE /\ i \in 1 .. Len(call.policies) + 1
            /\ j \in 1 .. IF i > Len(call.policies)
                          THEN 1 ELSE Len(call.policies[i].statement) + 1

StatementsOf(c) ==
    UNION { { Effective(c.policies[n], m) : m \in 1 .. Len(c.policies[n].statement) } :
            n \in 1 .. Len(c.policies) }

(* The decision, given the statements that select the request: whatever    *)
(* their order, one that is no Allow denies, and otherwise an Allow is     *)
(* needed.                                                                 *)
Decide(selected) ==
    IF \E s \in selected : s.effect # EffectAllow THEN "Deny"
    ELSE IF selected # {} THEN "Allow"
    ELSE "Deny"

Decided(c) == Decide({ s \in StatementsOf(c) : Matches(s, c.request) })

(* The scan, with its early return and its running flag, decides as the    *)
(* evaluation order of the EvaluateWithKeys comment says: an explicit Deny *)
(* in any statement of any document wins, wherever the Allow stands.       *)
DenyOverrides == pc = "done" => decision = Decided(call)

(* The statements as their documents have them, each with whether its      *)
(* document is of an older version, where ${ is text.                      *)
Stated(c) ==
    UNION { { [statement |-> c.policies[n].statement[m], old |-> c.policies[n].version # Version2012] :
                  m \in 1 .. Len(c.policies[n].statement) } :
            n \in 1 .. Len(c.policies) }

(* A reading settles what the evaluator leaves open: which unresolvable    *)
(* patterns select the value at hand, which conditions it cannot evaluate  *)
(* hold, and whether a malformed Action or Resource pair or a Principal    *)
(* selects the request.  Settled, everything is evaluated as it stands in  *)
(* the document.                                                           *)
ReadPattern(p, v, keys, old, rd) ==
    IF old \/ p.refs = {} THEN v \in p.asWritten
    ELSE IF Unresolvable(p, keys) THEN p \in rd.patterns
    ELSE v \in p.resolved

ReadAny(patterns, v, keys, old, rd) == \E p \in patterns : ReadPattern(p, v, keys, old, rd)

ReadPositive(op, actual, c, keys, old, rd) ==
    IF Parses(op)
    THEN IF actual \in Unparsed THEN c \in rd.conditions ELSE MatchesAny(c.values, actual)
    ELSE IF op = "Bool"
    THEN MatchesAny(c.values, actual)
    ELSE ReadAny(c.values, actual, keys, old, rd)

ReadCondition(c, keys, old, rd) ==
    IF ~SupportedCondition(c) THEN c \in rd.conditions
    ELSE IF c.base = "Null" THEN NullHolds(c.key \in DOMAIN keys, c.values)
    ELSE IF c.key \notin DOMAIN keys THEN HoldsWhenAbsent(c)
    ELSE IF c.base \in DOMAIN NegatedOperators
    THEN ~ReadPositive(NegatedOperators[c.base], keys[c.key], c, keys, old, rd)
    ELSE ReadPositive(c.base, keys[c.key], c, keys, old, rd)

ReadActions(s, action, rd) ==
    IF WellFormedActions(s) THEN MatchesAction(s, action) ELSE "Action" \in rd.parts

ReadResources(s, resource, keys, old, rd) ==
    IF ~WellFormedResources(s) THEN "Resource" \in rd.parts
    ELSE IF s.notResource # {} THEN ~ReadAny(s.notResource, resource, keys, old, rd)
    ELSE ReadAny(s.resource, resource, keys, old, rd)

ReadStatement(s, req, old, rd) ==
    /\ ReadActions(s, req.action, rd)
    /\ ReadResources(s, req.resource, req.keys, old, rd)
    /\ s.principal => "Principal" \in rd.parts
    /\ \A c \in s.condition : ReadCondition(c, req.keys, old, rd)

ReadSelected(c, rd) ==
    { x.statement : x \in { y \in Stated(c) : ReadStatement(y.statement, c.request, y.old, rd) } }

ConditionsOf(c) == UNION { x.statement.condition : x \in Stated(c) }

PatternsOf(c) ==
    UNION { x.statement.resource \cup x.statement.notResource : x \in Stated(c) }
        \cup UNION { k.values : k \in ConditionsOf(c) }

Readings(c) ==
    [patterns : SUBSET PatternsOf(c), conditions : SUBSET ConditionsOf(c),
     parts : SUBSET {"Action", "Resource", "Principal"}]

(* What the evaluator cannot resolve or enforce only narrows access: when  *)
(* it allows a request, the request is allowed however the unresolvable    *)
(* variables and unenforceable constructs are read, a document of an older *)
(* version having no variables (evaluator.go 34-37 and 71-73, variables.go *)
(* withLiteralVariables).                                                  *)
FailClosedNarrows ==
    (pc = "done" /\ decision = "Allow") =>
        \A rd \in Readings(call) : Decide(ReadSelected(call, rd)) = "Allow"

D == INSTANCE Decision WITH
        NoQuestion <- NoCall, NoAnswer <- "None", Verdict <- Decided,
        question <- call, answer <- decision

(* The evaluator implements Decision: each call is answered once, by what  *)
(* its documents and its request say, and what an earlier call left behind *)
(* or the order of the statements has no part in it (evaluator.go,         *)
(* EvaluateWithKeys).                                                      *)
ImplementsDecision == D!Spec
=============================================================================
