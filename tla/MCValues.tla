------------------------------ MODULE MCValues ------------------------------
(***************************************************************************)
(* The pure functions, each applied to every input of a bounded set: a     *)
(* step puts one input into `probe', and the invariants compare what the   *)
(* code makes of it with the reference.                                    *)
(***************************************************************************)
EXTENDS Numbers, Dates, PolicyJSON, Sanitize, ARN, TLC

VARIABLES about, probe
vars == << about, probe >>

Wholes == {<< >>, << 0 >>, << 1 >>, << 2 >>, << 0, 1 >>, << 1, 0 >>, << 1, 2 >>, << 2, 1 >>}
Fracs == {<< >>, << 0 >>, << 1 >>, << 2 >>}
Texts == [neg : BOOLEAN, whole : Wholes, frac : Fracs, exponent : (-3 .. 2) \cup {NoExponent}]

ProbeNumbers ==
    /\ about = "none" /\ about' = "numbers"
    /\ \E t \in Texts, u \in Texts : probe' = << t, u >>

(* The server's clock is in the years the code reads; a value need not be. *)
Times == MinEpochSeconds * Second .. MaxEpochSeconds * Second
DateTexts == [form : {"digits"}, secs : MinEpochSeconds - 1 .. MaxEpochSeconds + 1]
             \cup [form : {"iso", "comma"}, at : Times] \cup { [form |-> "bad"] }

ProbeDates ==
    /\ about = "none" /\ about' = "dates"
    /\ \E now \in Times, later \in Times, t \in DateTexts : probe' = << now, later, t >>

Scalars == [str : {"", "a", "true"}] \cup [num : {"10"}] \cup [bool : BOOLEAN]
           \cup [null : {TRUE}] \cup [obj : {TRUE}]

ProbeJSON ==
    /\ about = "none" /\ about' = "json"
    /\ \/ \E j \in Scalars : probe' = j
       \/ \E n \in 0 .. 2 : \E a \in [1 .. n -> Scalars] : probe' = [arr |-> a]

Strings == { << >>, << "a" >>, << Bad >>, << Replacement >>, << "a", Bad, Bad >> }
Leaves == [string : Strings] \cup { [strings |-> << s, t >>] : s \in Strings, t \in Strings }
          \cup { [other |-> 0] }
Nested == Leaves \cup { [slice |-> << v, w >>] : v \in Leaves, w \in [string : Strings] }
                 \cup { [map |-> << [key |-> k, value |-> v], [key |-> << "a" >>, value |-> w] >>] :
                            k \in Strings \ {<< "a" >>}, v \in [string : Strings], w \in [string : Strings] }
Attributes == [key : Strings, value : [string : Strings]]
Deep == { [slice |-> << v >>] : v \in Nested } \cup { [map |-> << [key |-> << "a" >>, value |-> v] >>] : v \in Nested }

(* The keys of a record's attributes are distinct.                         *)
ProbeRecords ==
    /\ about = "none" /\ about' = "records"
    /\ \/ \E v \in Nested \cup Deep :
             probe' = [body |-> v, attrs |-> << [key |-> << Bad >>, value |-> v] >>]
       \/ \E a \in Attributes, b \in Attributes :
             /\ a.key # b.key
             /\ probe' = [body |-> [other |-> 0], attrs |-> << a, b >>]

(* The store has two resources, one named like a kind, each created at one *)
(* of these paths. A text is issued for some name and path, has a     *)
(* stretch of it lost, doubled or replaced, or has an ARN's head and any   *)
(* short tail.                                                             *)
Account == << "1" >>
Names == {<< "r" >>, << "role" >>}
Paths == {<< >>, << "/" >>, << "r", "/" >>, << "role", "/" >>, << "r", "/", "role", "/" >>, << ":", "/" >>}
Tails == UNION { [1 .. n -> {"role", "policy", "r", "/", ":"}] : n \in 0 .. 4 }
Slips(arn) ==
    { SubSeq(arn, 1, i) \o token \o SubSeq(arn, j, Len(arn)) :
          i \in 0 .. Len(arn), j \in 1 .. Len(arn) + 1, token \in {<< >>, << "r" >>} }
ARNs ==
    { Issued(account, kind, path, name) :
          account \in {Account, << "aws" >>}, kind \in {"role", "policy"}, path \in Paths, name \in Names }
    \cup Slips(Issued(Account, "role", << "r", "/" >>, << "role" >>))
    \cup { << "arn", ":", "aws", ":", "iam", ":", ":" >> \o account \o << ":" >> \o tail :
          account \in {<< >>, Account, << "aws" >>}, tail \in Tails }

ProbeARNs ==
    /\ about = "none" /\ about' = "arns"
    /\ \E arn \in ARNs, path \in [{Account} \X Names -> Paths] : probe' = << arn, path >>

Init == about = "none" /\ probe = << >>
Next == ProbeNumbers \/ ProbeDates \/ ProbeJSON \/ ProbeRecords \/ ProbeARNs
Spec == Init /\ [][Next]_vars
----------------------------------------------------------------------------
(* A numeric condition holds exactly if the numbers, as mathematics reads  *)
(* their texts, are so ordered; one whose exponent or scale is beyond 32   *)
(* bits is none, and equal numbers have one representation (numbers.go,    *)
(* numericHoldsAny and Number).                                            *)
NumericExact == about = "numbers" => ExactOn(probe[1], probe[2])

(* aws:CurrentTime and aws:EpochTime of one request satisfy the same date  *)
(* conditions, and time does not go back behind one (dates.go,             *)
(* SetRequestTime and dateHoldsAny).                                       *)
OneClock == about = "dates" => OneClockOn(probe[1], probe[2], probe[3])

(* Reading a list of a document, writing it and reading it again gives the *)
(* same list, an action's and a condition's alike, and a field that is     *)
(* null is no list of an empty string (types.go, UnmarshalJSON and         *)
(* MarshalJSON).                                                           *)
RoundTrips == about = "json" => RoundTripsOn(probe)

(* No string of an emitted record, at any depth and keys included, has an  *)
(* invalid byte; what was valid is untouched, and an attribute is lost     *)
(* only to another of the same sanitised key (logsanitize.go, OnEmit).     *)
RecordCleaned == about = "records" => CleanedOn(probe)

(* A text resolves to a resource exactly if it is the ARN the store issued *)
(* for it, whatever its path, its name or its kind look like, and it is an *)
(* AWS-managed policy's exactly if it names one at any path (arn.go,       *)
(* resolveIAMARN and IsAWSManagedPolicyARN).                               *)
ResolvesWhatWasIssued ==
    about = "arns" =>
        /\ \A resource \in {"role", "policy"} : ResolvesIssuedOn(probe[1], resource, probe[2])
        /\ ManagedOn(probe[1])
=============================================================================
