------------------------------ MODULE Numbers ------------------------------
(***************************************************************************)
(* The decimal numbers of pkg/iampolicy (numbers.go).  A text is cut into  *)
(* its sign, the digits before and after the point and its exponent:       *)
(*     [neg, whole, frac, exponent],  exponent = NoExponent if there is no *)
(* e.  A text that has anything else in it is no number, which             *)
(* PolicyEvaluator covers.                                                 *)
(***************************************************************************)
EXTENDS Integers, Sequences

CONSTANTS
    MaxInt32,               \* bounds the exponent and the scale
    NoExponent

ASSUME BoundAssumption == MaxInt32 \in Nat

NotANumber == [err |-> TRUE]
Zero == [err |-> FALSE, neg |-> FALSE, digits |-> << >>, exp |-> 0]
InInt32(n) == -MaxInt32 - 1 <= n /\ n <= MaxInt32

(* How many zeros the sequence begins or ends with.                        *)
Leading(s) == CHOOSE n \in 0 .. Len(s) :
    (\A i \in 1 .. n : s[i] = 0) /\ (n < Len(s) => s[n + 1] # 0)
Trailing(s) == CHOOSE n \in 0 .. Len(s) :
    (\A i \in Len(s) - n + 1 .. Len(s) : s[i] = 0) /\ (n < Len(s) => s[Len(s) - n] # 0)

Exponent(t) == IF t.exponent = NoExponent THEN 0 ELSE t.exponent
Scale(t) == Len(t.frac) - Exponent(t)

Mantissa(t) == t.whole \o t.frac
Digits(t) == SubSeq(Mantissa(t), Leading(Mantissa(t)) + 1, Len(Mantissa(t)))
Trimmed(t) == SubSeq(Digits(t), 1, Len(Digits(t)) - Trailing(Digits(t)))
Rejected(t) == Mantissa(t) = << >> \/ ~InInt32(Exponent(t)) \/ ~InInt32(Scale(t))

ParseNumber(t) ==
    IF Rejected(t) THEN NotANumber
    ELSE IF Trimmed(t) = << >> THEN Zero
    ELSE [err |-> FALSE, neg |-> t.neg, digits |-> Trimmed(t),
          exp |-> Len(Digits(t)) - Len(Trimmed(t)) - Scale(t)]

Signum(i) == IF i < 0 THEN -1 ELSE IF i > 0 THEN 1 ELSE 0

Sign(n) == IF n.digits = << >> THEN 0 ELSE IF n.neg THEN -1 ELSE 1

(* strings.Compare: the first digit that differs decides, then the length. *)
Lexical(s, t) ==
    LET differ == { i \in 1 .. Len(s) : i <= Len(t) /\ s[i] # t[i] }
        first == CHOOSE i \in differ : \A j \in differ : i <= j
    IN  IF differ = {} THEN Signum(Len(s) - Len(t)) ELSE Signum(s[first] - t[first])

DigitCount(n) == Len(n.digits)          \* mutant: the exponent is left out
Top(n) == Len(n.digits) + n.exp

MagnitudeCompare(n, o) ==
    IF Top(n) # Top(o) THEN Signum(Top(n) - Top(o)) ELSE Lexical(n.digits, o.digits)

Compare(n, o) ==
    IF Sign(n) # Sign(o) THEN Signum(Sign(n) - Sign(o))
    ELSE IF n.digits = << >> THEN 0
    ELSE IF n.neg THEN -MagnitudeCompare(n, o) ELSE MagnitudeCompare(n, o)

Operators == {"Equals", "LessThan", "LessThanEquals", "GreaterThan", "GreaterThanEquals"}

NumericCompares(operator, cmp) ==
    CASE operator = "Equals" -> cmp = 0
      [] operator = "LessThan" -> cmp < 0
      [] operator = "LessThanEquals" -> cmp <= 0
      [] operator = "GreaterThan" -> cmp > 0
      [] operator = "GreaterThanEquals" -> cmp >= 0

(* A value of the policy that is no number matches nothing.                *)
NumericHoldsAny(operator, actual, values, failClosed) ==
    LET at == ParseNumber(actual)
    IN  IF at.err THEN failClosed
        ELSE \E v \in values :
                LET want == ParseNumber(v)
                IN  ~want.err /\ NumericCompares(operator, Compare(at, want))
----------------------------------------------------------------------------
(* The reference.  The scale of a number is at most MaxInt32, so that many *)
(* places make an integer of it.                                           *)
Spelt(t) == /\ t.whole \o t.frac # << >>
            /\ t.exponent = NoExponent \/ InInt32(t.exponent)
            /\ InInt32(Scale(t))

Integral(t) ==
    LET mant == t.whole \o t.frac
        V[i \in 0 .. Len(mant)] == IF i = 0 THEN 0 ELSE 10 * V[i - 1] + mant[i]
    IN  (IF t.neg THEN -1 ELSE 1) * V[Len(mant)] * 10 ^ (MaxInt32 - Scale(t))

(* Which operators hold of the integers a and b.                           *)
Holding(a, b) ==
    IF a = b THEN {"Equals", "LessThanEquals", "GreaterThanEquals"}
    ELSE IF a < b THEN {"LessThan", "LessThanEquals"} ELSE {"GreaterThan", "GreaterThanEquals"}

(* A comparison holds exactly if the numbers are so ordered, and equal     *)
(* numbers, zero and negative zero included, have one representation.      *)
ExactOn(t, u) ==
    /\ \A operator \in Operators, failClosed \in BOOLEAN :
          NumericHoldsAny(operator, t, {u}, failClosed)
              = IF Spelt(t) THEN Spelt(u) /\ operator \in Holding(Integral(t), Integral(u))
                ELSE failClosed
    /\ Spelt(t) /\ Spelt(u) =>
          (ParseNumber(t) = ParseNumber(u)) = (Integral(t) = Integral(u))
=============================================================================
