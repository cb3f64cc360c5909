----------------------- MODULE PolicyEvaluatorProofs -----------------------
(***************************************************************************)
(* Proofs about PolicyEvaluator, for any calls.                            *)
(*                                                                         *)
(* The scan is proved right with an invariant on the statements it has     *)
(* passed.  That failing closed only narrows access rests on a sandwich:   *)
(* whatever a reading makes of the parts the evaluator cannot settle, it   *)
(* lies between the evaluator's answer with failClosed off and the one     *)
(* with failClosed on, at every level from a pattern to a statement.       *)
(***************************************************************************)
EXTENDS PolicyEvaluator, TLAPS

(* The statements the scan is past.                                        *)
Passed(n, m) ==
    /\ n \in 1 .. Len(call.policies)
    /\ m \in 1 .. Len(call.policies[n].statement)
    /\ n < i \/ (n = i /\ m < j)

Chosen(n, m) == Matches(Effective(call.policies[n], m), call.request)
EffectOf(n, m) == Effective(call.policies[n], m).effect

(* Nothing passed denies, and hasAllow says whether something passed allows*)
ScanInv ==
    pc = "scan" =>
        /\ \A n, m \in Nat : Passed(n, m) /\ Chosen(n, m) =>
                                EffectOf(n, m) = EffectAllow /\ hasAllow
        /\ hasAllow => \E n, m \in Nat : Passed(n, m) /\ Chosen(n, m)

Typed == TypeOK /\ (pc # "idle" => call \in Calls)
----------------------------------------------------------------------------
LEMMA TypedInit == Init => Typed
BY DEF Init, Typed, TypeOK

LEMMA TypedStep == Typed /\ [Next]_vars => Typed'
<1>. SUFFICES ASSUME Typed, [Next]_vars PROVE Typed'
  OBVIOUS
<1>. USE CallsAssumption DEF Typed, TypeOK
<1>1. ASSUME NEW c \in Calls, Call(c) PROVE Typed'
  <2>1. /\ Len(c.policies) \in Nat
        /\ 1 <= Len(c.policies) => Len(c.policies[1].statement) \in Nat
    OBVIOUS
  <2>2. call' = c /\ i' = 1 /\ j' = 1 /\ pc' = "scan" /\ hasAllow' = FALSE /\ decision' = "None"
    BY <1>1 DEF Call
  <2>3. hasAllow' \in BOOLEAN
    BY <2>2
  <2>4. j' \in 1 .. IF i' > Len(c.policies) THEN 1 ELSE Len(c.policies[i'].statement) + 1
    BY <2>1, <2>2
  <2>5. i' \in 1 .. Len(c.policies) + 1
    BY <2>1, <2>2
  <2>. QED  BY <2>2, <2>3, <2>4, <2>5
<1>2. CASE Skip
  BY <1>2 DEF Skip, AtStatement
<1>3. CASE AllowMatches
  BY <1>3 DEF AllowMatches, AtStatement
<1>4. CASE DenyMatches
  BY <1>4 DEF DenyMatches, AtStatement
<1>5. CASE NextDocument
  <2>1. /\ Len(call.policies) \in Nat /\ i \in 1 .. Len(call.policies)
        /\ i + 1 <= Len(call.policies) => Len(call.policies[i + 1].statement) \in Nat
    BY <1>5 DEF NextDocument
  <2>2. i' = i + 1 /\ j' = 1 /\ UNCHANGED << pc, call, hasAllow, decision >> /\ pc = "scan"
    BY <1>5 DEF NextDocument
  <2>. QED  BY <2>1, <2>2
<1>6. CASE Finish
  BY <1>6 DEF Finish
<1>7. CASE Return
  BY <1>7 DEF Return
<1>8. CASE UNCHANGED vars
  BY <1>8 DEF vars
<1>. QED  BY <1>1, <1>2, <1>3, <1>4, <1>5, <1>6, <1>7, <1>8 DEF Next

(* The scan's indices stay within the call's documents.                    *)
THEOREM TypeCorrect == Spec => []TypeOK
<1>1. Typed => TypeOK
  BY DEF Typed
<1>. QED  BY <1>1, TypedInit, TypedStep, PTL DEF Spec
----------------------------------------------------------------------------
(* StatementsOf by position.                                               *)
LEMMA StatementAt ==
    ASSUME NEW c, NEW s
    PROVE  s \in StatementsOf(c) <=>
              \E n \in 1 .. Len(c.policies) : \E m \in 1 .. Len(c.policies[n].statement) :
                  s = Effective(c.policies[n], m)
<1>. DEFINE at(n) == { Effective(c.policies[n], m) : m \in 1 .. Len(c.policies[n].statement) }
<1>1. \A n : s \in at(n) <=>
                \E m \in 1 .. Len(c.policies[n].statement) : s = Effective(c.policies[n], m)
  OBVIOUS
<1>2. StatementsOf(c) = UNION { at(n) : n \in 1 .. Len(c.policies) }
  BY DEF StatementsOf
<1>. HIDE DEF at
<1>3. s \in StatementsOf(c) <=> \E n \in 1 .. Len(c.policies) : s \in at(n)
  BY <1>2
<1>. QED  BY <1>1, <1>3

LEMMA ScanInvStep == Typed /\ ScanInv /\ [Next]_vars => ScanInv'
<1>. SUFFICES ASSUME Typed, ScanInv, [Next]_vars, pc' = "scan"
              PROVE  /\ \A n, m \in Nat : Passed(n, m)' /\ Chosen(n, m)' =>
                            EffectOf(n, m)' = EffectAllow /\ hasAllow'
                     /\ hasAllow' => \E n, m \in Nat : Passed(n, m)' /\ Chosen(n, m)'
  BY DEF ScanInv
<1>1. ASSUME NEW c \in Calls, Call(c)
      PROVE  (\A n, m \in Nat : ~Passed(n, m)') /\ ~hasAllow'
  BY <1>1 DEF Call, Passed
<1>2. ASSUME pc = "scan", call' = call
      PROVE  \A n, m \in Nat : (Chosen(n, m)' <=> Chosen(n, m)) /\ EffectOf(n, m)' = EffectOf(n, m)
  BY <1>2 DEF Chosen, EffectOf
<1>3. CASE Skip
  <2>1. pc = "scan" /\ call' = call /\ hasAllow' = hasAllow /\ ~Chosen(i, j)
    BY <1>3 DEF Skip, AtStatement, Chosen, Current
  <2>2. \A n, m \in Nat : Passed(n, m)' <=> Passed(n, m) \/ (n = i /\ m = j)
    BY <1>3, CallsAssumption DEF Skip, AtStatement, Passed, Typed, TypeOK
  <2>. QED  BY <1>2, <2>1, <2>2 DEF ScanInv
<1>4. CASE AllowMatches
  <2>1. /\ pc = "scan" /\ call' = call /\ hasAllow' /\ Chosen(i, j)
        /\ EffectOf(i, j) = EffectAllow /\ i \in Nat /\ j \in Nat
    BY <1>4, CallsAssumption
    DEF AllowMatches, AtStatement, Chosen, EffectOf, Current, Typed, TypeOK
  <2>2. \A n, m \in Nat : Passed(n, m)' <=> Passed(n, m) \/ (n = i /\ m = j)
    BY <1>4, CallsAssumption DEF AllowMatches, AtStatement, Passed, Typed, TypeOK
  <2>. QED  BY <1>2, <2>1, <2>2 DEF ScanInv
<1>5. CASE NextDocument
  <2>1. pc = "scan" /\ call' = call /\ hasAllow' = hasAllow
    BY <1>5 DEF NextDocument
  <2>2. \A n, m \in Nat : Passed(n, m)' <=> Passed(n, m)
    BY <1>5, CallsAssumption DEF NextDocument, Passed, Typed, TypeOK
  <2>. QED  BY <1>2, <2>1, <2>2 DEF ScanInv
<1>6. CASE UNCHANGED vars
  BY <1>6 DEF vars, ScanInv, Passed, Chosen, EffectOf
<1>. QED
  BY <1>1, <1>3, <1>4, <1>5, <1>6 DEF Next, DenyMatches, Finish, Return

LEMMA DenyOverridesStep == Typed /\ ScanInv /\ DenyOverrides /\ [Next]_vars => DenyOverrides'
<1>. SUFFICES ASSUME Typed, ScanInv, DenyOverrides, [Next]_vars, pc' = "done"
              PROVE  decision' = Decide({ s \in StatementsOf(call) : Matches(s, call.request) })'
  BY DEF DenyOverrides, Decided
<1>. DEFINE chosen == { s \in StatementsOf(call) : Matches(s, call.request) }
<1>1. CASE DenyMatches
  <2>1. /\ Current \in StatementsOf(call) /\ Matches(Current, call.request)
        /\ Current.effect # EffectAllow
    <3>1. /\ i \in 1 .. Len(call.policies) /\ j \in 1 .. Len(call.policies[i].statement)
          /\ Matches(Current, call.request) /\ Current.effect # EffectAllow
      BY <1>1, CallsAssumption DEF DenyMatches, AtStatement, Typed, TypeOK
    <3>. QED  BY <3>1, StatementAt DEF Current
  <2>2. \E s \in chosen : s.effect # EffectAllow
    BY <2>1
  <2>3. call' = call /\ decision' = "Deny"
    BY <1>1 DEF DenyMatches
  <2>. QED  BY <2>2, <2>3 DEF Decide
<1>2. CASE Finish
  <2>1. /\ pc = "scan" /\ call' = call /\ call \in Calls /\ i = Len(call.policies) + 1
        /\ decision' = IF hasAllow THEN "Allow" ELSE "Deny"
    BY <1>2, CallsAssumption DEF Finish, Typed, TypeOK
  <2>2. \A n \in 1 .. Len(call.policies) : \A m \in 1 .. Len(call.policies[n].statement) :
           n \in Nat /\ m \in Nat /\ Passed(n, m)
    BY <2>1, CallsAssumption DEF Passed
  <2>3. \A s \in chosen : s.effect = EffectAllow /\ hasAllow
    <3>. SUFFICES ASSUME NEW s \in chosen
                  PROVE  s.effect = EffectAllow /\ hasAllow
      OBVIOUS
    <3>1. PICK n \in 1 .. Len(call.policies) : \E m \in 1 .. Len(call.policies[n].statement) :
             s = Effective(call.policies[n], m)
      BY StatementAt
    <3>2. PICK m \in 1 .. Len(call.policies[n].statement) : s = Effective(call.policies[n], m)
      BY <3>1
    <3>3. n \in Nat /\ m \in Nat /\ Passed(n, m) /\ Chosen(n, m) /\ EffectOf(n, m) = s.effect
      BY <2>2, <3>2 DEF Chosen, EffectOf
    <3>. QED  BY <2>1, <3>3 DEF ScanInv
  <2>4. hasAllow => chosen # {}
    <3>. SUFFICES ASSUME hasAllow PROVE chosen # {}
      OBVIOUS
    <3>1. PICK n \in Nat, m \in Nat : Passed(n, m) /\ Chosen(n, m)
      BY <2>1 DEF ScanInv
    <3>2. Effective(call.policies[n], m) \in StatementsOf(call)
      BY <3>1, StatementAt DEF Passed
    <3>. QED  BY <3>1, <3>2 DEF Chosen
  <2>. QED  BY <2>1, <2>3, <2>4, Zenon DEF Decide
<1>3. CASE UNCHANGED vars
  BY <1>3 DEF vars, DenyOverrides, Decided
<1>. QED
  BY <1>1, <1>2, <1>3
  DEF Next, Call, Skip, AllowMatches, AtStatement, NextDocument, Return

LEMMA InitIInv == Init => ScanInv /\ DenyOverrides
BY DEF Init, ScanInv, DenyOverrides

(* The scan decides as the order-free rule does: an explicit Deny wins.    *)
THEOREM DenyOverridesHolds == Spec => []DenyOverrides
BY TypedInit, TypedStep, InitIInv, ScanInvStep, DenyOverridesStep, PTL DEF Spec

(* The detailed evaluator implements the abstract one: Call asks, the step *)
(* that ends the scan replies with the verdict, and every other step is a  *)
(* stutter of Decision.                                                    *)
THEOREM EvaluatorImplementsDecision == Spec => ImplementsDecision
<1>1. Init => D!Init
  BY DEF Init, D!Init
<1>2. ASSUME Typed, DenyOverrides', [Next]_vars
      PROVE  [D!Next]_<< call, decision >>
  <2>1. ASSUME NEW c \in Calls, Call(c) PROVE D!Ask
    BY <1>2, <2>1, CallsAssumption DEF Call, D!Ask, Typed, TypeOK
  <2>2. CASE DenyMatches
    BY <1>2, <2>2, CallsAssumption
    DEF DenyMatches, AtStatement, DenyOverrides, D!Next, D!Reply, Typed, TypeOK
  <2>3. CASE Finish
    BY <1>2, <2>3, CallsAssumption DEF Finish, DenyOverrides, D!Next, D!Reply, Typed, TypeOK
  <2>4. CASE Return
    BY <1>2, <2>4 DEF Return, D!Next, D!Return, Typed, TypeOK
  <2>. QED
    BY <1>2, <2>1, <2>2, <2>3, <2>4
    DEF Next, Skip, AllowMatches, NextDocument, vars, D!Next
<1>. QED
  BY <1>1, <1>2, TypedInit, TypedStep, DenyOverridesHolds, PTL
  DEF Spec, ImplementsDecision, D!Spec
----------------------------------------------------------------------------
(* A pattern, a list of patterns, a condition and a statement, as the      *)
(* evaluator has them from a document that is old or not.                  *)
InForce(p, old) == IF old THEN Literal(p) ELSE p
AllInForce(ps, old) == { InForce(p, old) : p \in ps }
ConditionInForce(c, old) == IF old THEN [c EXCEPT !.values = { Literal(v) : v \in @ }] ELSE c
StatementInForce(s, old) == IF old THEN WithLiteralVariables(s) ELSE s

(* What rewriting the variables keeps and what it changes.                 *)
LEMMA PatternRewritten ==
    ASSUME NEW p \in PatternRecords, NEW old \in BOOLEAN
    PROVE  /\ InForce(p, old).asWritten = p.asWritten
           /\ InForce(p, old).resolved = p.resolved
           /\ InForce(p, old).refs = IF old THEN {} ELSE p.refs
BY DEF InForce, Literal, PatternRecords

LEMMA ConditionRewritten ==
    ASSUME NEW c \in ConditionRecords, NEW old \in BOOLEAN
    PROVE  /\ ConditionInForce(c, old).base = c.base
           /\ ConditionInForce(c, old).ifExists = c.ifExists
           /\ ConditionInForce(c, old).key = c.key
           /\ ConditionInForce(c, old).values = AllInForce(c.values, old)
BY DEF ConditionInForce, ConditionRecords, AllInForce, InForce

LEMMA StatementRewritten ==
    ASSUME NEW s \in StatementRecords, NEW old \in BOOLEAN
    PROVE  /\ StatementInForce(s, old).effect = s.effect
           /\ StatementInForce(s, old).action = s.action
           /\ StatementInForce(s, old).notAction = s.notAction
           /\ StatementInForce(s, old).principal = s.principal
           /\ StatementInForce(s, old).resource = AllInForce(s.resource, old)
           /\ StatementInForce(s, old).notResource = AllInForce(s.notResource, old)
           /\ StatementInForce(s, old).condition = { ConditionInForce(c, old) : c \in s.condition }
<1>1. CASE old
  BY <1>1 DEF StatementInForce, WithLiteralVariables, StatementRecords, AllInForce, InForce,
              ConditionInForce
<1>2. CASE ~old
  BY <1>2 DEF StatementInForce, AllInForce, InForce, ConditionInForce
<1>. QED  BY <1>1, <1>2

(* The sandwich, level by level: what the evaluator makes of a construct   *)
(* as rewritten, between what a reading makes of it as stated.             *)
LEMMA PatternSandwich ==
    ASSUME NEW p \in PatternRecords, NEW v, NEW keys, NEW old \in BOOLEAN, NEW rd
    PROVE  /\ MatchPattern(InForce(p, old), v, keys, FALSE) => ReadPattern(p, v, keys, old, rd)
           /\ ReadPattern(p, v, keys, old, rd) => MatchPattern(InForce(p, old), v, keys, TRUE)
BY PatternRewritten DEF MatchPattern, ReadPattern, Unresolvable

LEMMA AnySandwich ==
    ASSUME NEW ps \in SUBSET PatternRecords, NEW v, NEW keys, NEW old \in BOOLEAN, NEW rd
    PROVE  /\ MatchesAnyResource(AllInForce(ps, old), v, keys, FALSE) => ReadAny(ps, v, keys, old, rd)
           /\ ReadAny(ps, v, keys, old, rd) => MatchesAnyResource(AllInForce(ps, old), v, keys, TRUE)
BY PatternSandwich DEF MatchesAnyResource, ReadAny, AllInForce

LEMMA WrittenAlike ==
    ASSUME NEW ps \in SUBSET PatternRecords, NEW v, NEW old \in BOOLEAN, NEW present
    PROVE  /\ MatchesAny(AllInForce(ps, old), v) <=> MatchesAny(ps, v)
           /\ NullHolds(present, AllInForce(ps, old)) <=> NullHolds(present, ps)
BY PatternRewritten DEF MatchesAny, NullHolds, AllInForce

LEMMA PositiveSandwich ==
    ASSUME NEW op, NEW actual, NEW c \in ConditionRecords, NEW keys, NEW old \in BOOLEAN, NEW rd
    PROVE  /\ PositiveHolds(op, actual, AllInForce(c.values, old), keys, FALSE)
                  => ReadPositive(op, actual, c, keys, old, rd)
           /\ ReadPositive(op, actual, c, keys, old, rd)
                  => PositiveHolds(op, actual, AllInForce(c.values, old), keys, TRUE)
<1>1. c.values \in SUBSET PatternRecords
  BY DEF ConditionRecords
<1>. QED  BY <1>1, AnySandwich, WrittenAlike DEF PositiveHolds, ReadPositive

LEMMA SupportedAlike ==
    ASSUME NEW c \in ConditionRecords, NEW old \in BOOLEAN
    PROVE  SupportedCondition(ConditionInForce(c, old)) <=> SupportedCondition(c)
BY ConditionRewritten DEF SupportedCondition

LEMMA ConditionSandwich ==
    ASSUME NEW c \in ConditionRecords, NEW keys, NEW old \in BOOLEAN, NEW rd, SupportedCondition(c)
    PROVE  /\ ConditionOn(ConditionInForce(c, old), keys, FALSE) => ReadCondition(c, keys, old, rd)
           /\ ReadCondition(c, keys, old, rd) => ConditionOn(ConditionInForce(c, old), keys, TRUE)
<1>. DEFINE e == ConditionInForce(c, old)
<1>1. c.values \in SUBSET PatternRecords
  BY DEF ConditionRecords
<1>2. /\ e.base = c.base /\ e.ifExists = c.ifExists /\ e.key = c.key
      /\ e.values = AllInForce(c.values, old)
  BY ConditionRewritten
<1>. HIDE DEF e
<1>3. CASE c.base = "Null"
  <2>1. NullHolds(c.key \in DOMAIN keys, AllInForce(c.values, old))
          <=> NullHolds(c.key \in DOMAIN keys, c.values)
    BY <1>1, WrittenAlike
  <2>. QED  BY <1>2, <1>3, <2>1 DEF ConditionOn, ReadCondition, e
<1>4. CASE c.base # "Null" /\ c.key \notin DOMAIN keys
  BY <1>2, <1>4 DEF ConditionOn, ReadCondition, HoldsWhenAbsent, e
<1>5. CASE c.base # "Null" /\ c.key \in DOMAIN keys
  <2>1. \A op, actual :
            /\ PositiveHolds(op, actual, e.values, keys, FALSE)
                   => ReadPositive(op, actual, c, keys, old, rd)
            /\ ReadPositive(op, actual, c, keys, old, rd)
                   => PositiveHolds(op, actual, e.values, keys, TRUE)
    BY <1>2, PositiveSandwich
  <2>2. /\ ConditionOn(e, keys, FALSE) = ConditionHolds(c.base, keys[c.key], e.values, keys, FALSE)
        /\ ConditionOn(e, keys, TRUE) = ConditionHolds(c.base, keys[c.key], e.values, keys, TRUE)
    BY <1>2, <1>5 DEF ConditionOn
  <2>. QED  BY <1>5, <2>1, <2>2 DEF ConditionHolds, ReadCondition, e
<1>. QED  BY <1>3, <1>4, <1>5

LEMMA ResourceSandwich ==
    ASSUME NEW s \in StatementRecords, NEW resource, NEW keys, NEW old \in BOOLEAN, NEW rd
    PROVE  LET e == StatementInForce(s, old)
           IN  /\ WellFormedResources(e) <=> WellFormedResources(s)
               /\ WellFormedResources(s) =>
                     /\ MatchesResource(e, resource, keys, FALSE)
                            => ReadResources(s, resource, keys, old, rd)
                     /\ ReadResources(s, resource, keys, old, rd)
                            => MatchesResource(e, resource, keys, TRUE)
<1>. DEFINE e == StatementInForce(s, old)
<1>1. s.resource \in SUBSET PatternRecords /\ s.notResource \in SUBSET PatternRecords
  BY DEF StatementRecords
<1>2. e.resource = AllInForce(s.resource, old) /\ e.notResource = AllInForce(s.notResource, old)
  BY StatementRewritten
<1>3. (e.resource = {} <=> s.resource = {}) /\ (e.notResource = {} <=> s.notResource = {})
  BY <1>2 DEF AllInForce
<1>. QED
  BY <1>1, <1>2, <1>3, AnySandwich DEF MatchesResource, ReadResources, WellFormedResources

(* An Allow the evaluator selects is selected by every reading, and a      *)
(* statement that is no Allow and that some reading selects, it selects.   *)
LEMMA StatementSandwich ==
    ASSUME NEW s \in StatementRecords, NEW req, NEW old \in BOOLEAN, NEW rd
    PROVE  LET e == StatementInForce(s, old)
           IN  /\ s.effect = EffectAllow /\ Matches(e, req) => ReadStatement(s, req, old, rd)
               /\ s.effect # EffectAllow /\ ReadStatement(s, req, old, rd) => Matches(e, req)
<1>. DEFINE e == StatementInForce(s, old)
<1>0. /\ e.effect = s.effect /\ e.principal = s.principal
      /\ WellFormedActions(e) <=> WellFormedActions(s)
      /\ MatchesAction(e, req.action) <=> MatchesAction(s, req.action)
      /\ e.condition = { ConditionInForce(c, old) : c \in s.condition }
      /\ \A c \in s.condition : c \in ConditionRecords
  BY StatementRewritten DEF WellFormedActions, MatchesAction, StatementRecords
<1>1. ASSUME s.effect = EffectAllow, Matches(e, req)
      PROVE  ReadStatement(s, req, old, rd)
  <2>1. /\ ~Unenforceable(e) /\ MatchesAction(e, req.action)
        /\ MatchesResource(e, req.resource, req.keys, FALSE)
        /\ ConditionsHold(e, req.keys, FALSE)
    BY <1>0, <1>1 DEF Matches
  <2>2. ReadActions(s, req.action, rd) /\ ~s.principal
    BY <1>0, <2>1 DEF Unenforceable, ReadActions
  <2>3. ReadResources(s, req.resource, req.keys, old, rd)
    BY <2>1, ResourceSandwich DEF Unenforceable
  <2>4. ASSUME NEW c \in s.condition
        PROVE  ReadCondition(c, req.keys, old, rd)
    <3>1. /\ SupportedCondition(ConditionInForce(c, old))
          /\ ConditionOn(ConditionInForce(c, old), req.keys, FALSE)
      BY <1>0, <2>1 DEF Unenforceable, ConditionsHold
    <3>. QED  BY <1>0, <3>1, SupportedAlike, ConditionSandwich
  <2>. QED  BY <2>2, <2>3, <2>4 DEF ReadStatement
<1>2. ASSUME s.effect # EffectAllow, ReadStatement(s, req, old, rd)
      PROVE  Matches(e, req)
  <2>1. WellFormedActions(e) => MatchesAction(e, req.action)
    BY <1>0, <1>2 DEF ReadStatement, ReadActions
  <2>2. WellFormedResources(e) => MatchesResource(e, req.resource, req.keys, TRUE)
    BY <1>2, ResourceSandwich DEF ReadStatement
  <2>3. ASSUME ~Unenforceable(e), NEW c \in s.condition
        PROVE  ConditionOn(ConditionInForce(c, old), req.keys, TRUE)
    <3>1. SupportedCondition(ConditionInForce(c, old)) /\ ReadCondition(c, req.keys, old, rd)
      BY <1>0, <1>2, <2>3 DEF Unenforceable, ReadStatement
    <3>. QED  BY <1>0, <3>1, SupportedAlike, ConditionSandwich
  <2>4. ~Unenforceable(e) => ConditionsHold(e, req.keys, TRUE)
    BY <1>0, <2>3 DEF ConditionsHold
  <2>. QED  BY <1>0, <1>2, <2>1, <2>2, <2>4 DEF Matches, Unenforceable
<1>. QED  BY <1>1, <1>2

(* The statements the evaluator works on are the stated ones, in force.    *)
LEMMA StatedInForce ==
    ASSUME NEW c \in Calls
    PROVE  /\ \A x \in Stated(c) : x.statement \in StatementRecords /\ x.old \in BOOLEAN
           /\ StatementsOf(c) = { StatementInForce(x.statement, x.old) : x \in Stated(c) }
<1>1. \A n \in 1 .. Len(c.policies) : \A m \in 1 .. Len(c.policies[n].statement) :
          /\ c.policies[n].statement[m] \in StatementRecords
          /\ Effective(c.policies[n], m)
                = StatementInForce(c.policies[n].statement[m], c.policies[n].version # Version2012)
  BY CallsAssumption DEF Effective, StatementInForce
<1>. DEFINE X(n, m) == [statement |-> c.policies[n].statement[m],
                       old |-> c.policies[n].version # Version2012]
<1>2. ASSUME NEW x \in Stated(c)
      PROVE  x.statement \in StatementRecords /\ x.old \in BOOLEAN
  <2>1. PICK n \in 1 .. Len(c.policies) : \E m \in 1 .. Len(c.policies[n].statement) : x = X(n, m)
    BY Zenon DEF Stated
  <2>. QED  BY <1>1, <2>1
<1>3. ASSUME NEW s \in StatementsOf(c)
      PROVE  \E x \in Stated(c) : s = StatementInForce(x.statement, x.old)
  <2>0. PICK n \in 1 .. Len(c.policies) :
            \E m \in 1 .. Len(c.policies[n].statement) : s = Effective(c.policies[n], m)
    BY Zenon DEF StatementsOf
  <2>1. PICK m \in 1 .. Len(c.policies[n].statement) : s = Effective(c.policies[n], m)
    BY <2>0
  <2>2. X(n, m) \in Stated(c)
    BY <2>0, <2>1 DEF Stated
  <2>3. X(n, m).statement = c.policies[n].statement[m]
        /\ X(n, m).old = (c.policies[n].version # Version2012)
    OBVIOUS
  <2>. QED  BY <1>1, <2>1, <2>2, <2>3, Zenon
<1>4. \A x \in Stated(c) : StatementInForce(x.statement, x.old) \in StatementsOf(c)
  BY <1>1 DEF StatementsOf, Stated
<1>. QED  BY <1>2, <1>3, <1>4

(* What the evaluator cannot settle only narrows access, and an older      *)
(* document has no variables to settle.                                    *)
THEOREM FailClosedNarrowsHolds == Spec => []FailClosedNarrows
<1>1. Typed /\ DenyOverrides => FailClosedNarrows
  <2>. SUFFICES ASSUME Typed, DenyOverrides, pc = "done", decision = "Allow", NEW rd
                PROVE  Decide(ReadSelected(call, rd)) = "Allow"
    BY DEF FailClosedNarrows
  <2>. DEFINE chosen == { s \in StatementsOf(call) : Matches(s, call.request) }
  <2>0. call \in Calls
    BY DEF Typed
  <2>1. chosen # {} /\ \A s \in chosen : s.effect = EffectAllow
    BY DEF DenyOverrides, Decided, Decide
  <2>2. ReadSelected(call, rd) # {}
    <3>1. PICK s \in chosen : TRUE
      BY <2>1
    <3>2. PICK x \in Stated(call) : s = StatementInForce(x.statement, x.old)
      BY <2>0, StatedInForce
    <3>3. ReadStatement(x.statement, call.request, x.old, rd)
      BY <2>0, <2>1, <3>2, StatedInForce, StatementSandwich, StatementRewritten
    <3>. QED  BY <3>3 DEF ReadSelected
  <2>3. ASSUME NEW s \in ReadSelected(call, rd)
        PROVE  s.effect = EffectAllow
    <3>1. PICK x \in Stated(call) :
              s = x.statement /\ ReadStatement(x.statement, call.request, x.old, rd)
      BY DEF ReadSelected
    <3>2. SUFFICES ASSUME s.effect # EffectAllow PROVE FALSE
      OBVIOUS
    <3>3. StatementInForce(s, x.old) \in chosen
      BY <2>0, <3>1, <3>2, StatedInForce, StatementSandwich
    <3>. QED  BY <2>0, <2>1, <3>1, <3>2, <3>3, StatedInForce, StatementRewritten
  <2>. QED  BY <2>2, <2>3 DEF Decide
<1>. QED  BY <1>1, TypedInit, TypedStep, DenyOverridesHolds, PTL DEF Spec
=============================================================================
