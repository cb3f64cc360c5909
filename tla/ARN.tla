-------------------------------- MODULE ARN --------------------------------
(***************************************************************************)
(* pkg/auth (arn.go): the ARNs of roles, policies and instance profiles.   *)
(* A text is a sequence of tokens: a word, a colon or a slash each.        *)
(***************************************************************************)
EXTENDS Integers, Sequences
LOCAL INSTANCE SequencesExt

CONSTANT NoName     \* the outcome of an error

(* The components strings.SplitN(text, ":", 6) yields.                     *)
Components(text) ==
    LET colons == SelectSeq([i \in 1 .. Len(text) |-> i], LAMBDA i : text[i] = ":")
        n == IF Len(colons) < 5 THEN Len(colons) ELSE 5
        start(k) == IF k = 1 THEN 1 ELSE colons[k - 1] + 1
        end(k) == IF k = n + 1 THEN Len(text) ELSE colons[k] - 1
    IN  [k \in 1 .. n + 1 |-> SubSeq(text, start(k), end(k))]

(* What follows the final slash, which is all of it if there is none.      *)
AfterFirstSlash(text) ==        \* mutant: the path is taken to be one segment
    LET slashes == {i \in DOMAIN text : text[i] = "/"}
    IN  SubSeq(text, 1 + (IF slashes = {} THEN 0 ELSE CHOOSE i \in slashes : \A j \in slashes : i <= j),
               Len(text))

AfterLastSlash(text) ==
    LET slashes == {0} \cup {i \in DOMAIN text : text[i] = "/"}
    IN  SubSeq(text, 1 + (CHOOSE i \in slashes : \A j \in slashes : j <= i), Len(text))

ParseIAMARN(arn, resource) ==
    LET parts == Components(arn)
        name == AfterLastSlash(SubSeq(parts[6], 3, Len(parts[6])))
    IN  IF /\ Len(parts) = 6
           /\ SubSeq(parts, 1, 4) = << << "arn" >>, << "aws" >>, << "iam" >>, << >> >>
           /\ IsPrefix(<< resource, "/" >>, parts[6])
           /\ name # << >> /\ parts[5] # << >>
        THEN << parts[5], name >> ELSE NoName

(* lookup maps an account and a name to the ARN the store holds for them;  *)
(* what is outside its domain cannot be read.                              *)
ResolveIAMARN(arn, resource, lookup) ==
    LET name == ParseIAMARN(arn, resource)
    IN  IF name # NoName /\ name \in DOMAIN lookup /\ lookup[name] = arn THEN name ELSE NoName

IsAWSManagedPolicyARN(arn) ==
    LET name == ParseIAMARN(arn, "policy") IN name # NoName /\ name[1] = << "aws" >>
----------------------------------------------------------------------------
(* The ARN issued for a name at a path, which is empty or ends in a slash. *)
Issued(account, resource, path, name) ==
    << "arn", ":", "aws", ":", "iam", ":", ":" >> \o account \o << ":", resource, "/" >> \o path \o name

(* path gives every resource of the store, an account and a name, the path *)
(* it was created at.                                                      *)
ResolvesIssuedOn(arn, resource, path) ==
    LET lookup == [n \in DOMAIN path |-> Issued(n[1], resource, path[n], n[2])]
        known == {n \in DOMAIN path : arn = Issued(n[1], resource, path[n], n[2])}
        name == ResolveIAMARN(arn, resource, lookup)
    IN  known = IF name = NoName THEN {} ELSE {name}

ManagedOn(arn) ==
    LET prefix == Issued(<< "aws" >>, "policy", << >>, << >>)
    IN  IsAWSManagedPolicyARN(arn) <=> /\ IsStrictPrefix(prefix, arn) /\ Last(arn) # "/"
=============================================================================
