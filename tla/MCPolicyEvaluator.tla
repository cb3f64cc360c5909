------------------------- MODULE MCPolicyEvaluator -------------------------
(* Calls of EvaluateWithKeys for TLC: up to two documents, with statements *)
(* from families that each put one construct in every position.            *)
EXTENDS PolicyEvaluator

MCValues == {"do", "obj", "me", "10.0.0.1", "host:80", "true", "false"}
MCUnparsed == {"host:80", "me", "do", "obj", "true", "false"}

Text(values) == [refs |-> {}, asWritten |-> values, resolved |-> {}]
Ref(ref, values) == [refs |-> {ref}, asWritten |-> {}, resolved |-> values]

Every == Text(MCValues)
Nothing == Text({})
Mine == Ref("aws:userid", {"obj", "me"})
Env == Ref("env", {"obj", "me"})
Star == Ref("*", {"obj", "me"})

Condition(base, ifExists, key, values) ==
    [base |-> base, ifExists |-> ifExists, key |-> key, values |-> values]

Conditions ==
    { Condition(op, x, "aws:userid", {v}) :
        op \in {"StringEquals", "StringNotEquals"}, x \in BOOLEAN, v \in {Mine, Env, Star, Nothing} }
      \cup { Condition(op, FALSE, "aws:SourceIp", {v}) :
                op \in {"IpAddress", "NotIpAddress"}, v \in {Text({"10.0.0.1"}), Nothing} }
      \cup { Condition("Null", x, "aws:userid", {Text({"true"})}) : x \in BOOLEAN }
      \cup { Condition("Bool", FALSE, "aws:MultiFactorAuthPresent", {Text({"true"})}) }

Statement(effect, act, notAct, res, notRes, principal, cond) ==
    [effect |-> effect, action |-> act, notAction |-> notAct, resource |-> res,
     notResource |-> notRes, principal |-> principal, condition |-> cond]

Effects == {"Allow", "Deny", "Permit"}

Selectors ==
    { Statement(e, a, na, {Every}, {}, FALSE, {}) :
        e \in Effects, a \in {{}, {Every}}, na \in {{}, {Nothing}} }
      \cup { Statement(e, {Every}, {}, r, nr, p, {}) :
                e \in Effects, r \in {{}, {Mine}, {Env}, {Star}, {Nothing, Env}},
                nr \in {{}, {Mine}, {Env}}, p \in BOOLEAN }

Conditional ==
    { Statement(e, {Every}, {}, {Every}, {}, FALSE, {c}) : e \in Effects, c \in Conditions }

(* Conditions on one statement are ANDed, and an unenforceable one is in   *)
(* company.                                                                *)
Combined ==
    { Statement(e, {Every}, {}, {}, {r}, FALSE, {c, d}) :
        e \in {"Allow", "Deny"}, r \in {Nothing, Env}, c \in Conditions,
        d \in { Condition("Bool", FALSE, "aws:MultiFactorAuthPresent", {Text({"true"})}),
                Condition("StringNotEquals", TRUE, "aws:userid", {Env}) } }

Plain == { Statement(e, {Every}, {}, {Every}, {}, FALSE, {}) : e \in Effects }

Requests ==
    { [action |-> "do", resource |-> "obj", keys |-> k] :
        k \in { [x \in {"aws:SourceIp"} |-> "10.0.0.1"],
                [x \in {"aws:SourceIp", "aws:userid"} |->
                    IF x = "aws:SourceIp" THEN "host:80" ELSE "me"] } }

Documents(statements) ==
    { [version |-> v, statement |-> << s >>] : v \in {"2012-10-17", "2008-10-17"}, s \in statements }

Two(a, b) ==
    { << [version |-> v, statement |-> << s, t >>] >> :
        v \in {"2012-10-17", "2008-10-17"}, s \in a, t \in b }

(* Two statements of one document in either order, and two documents.      *)
MCCalls ==
    { [policies |-> ps, request |-> r] :
        ps \in { << >> } \cup Two(Plain, Selectors \cup Conditional)
               \cup Two(Selectors \cup Conditional, Plain)
               \cup { << c, d >> : c \in Documents(Plain), d \in Documents(Combined) },
        r \in Requests }
=============================================================================
