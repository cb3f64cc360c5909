------------------------------- MODULE Dates -------------------------------
(***************************************************************************)
(* The dates of pkg/iampolicy (dates.go).  Time is counted in ticks,       *)
(* Second of them to a second.  A text is                                  *)
(*     [form |-> "digits", secs], a run of digits, with a sign or without, *)
(*     [form |-> "iso", at],      one of dateLayouts, read by time.Parse,  *)
(*     [form |-> "comma", at],    the same with a comma before a fraction, *)
(*     [form |-> "bad"].                                                   *)
(***************************************************************************)
EXTENDS Integers

CONSTANTS Second, MaxEpochSeconds
ASSUME SecondAssumption == Second \in Nat \ {0} /\ MaxEpochSeconds \in Nat

NotADate == [err |-> TRUE]
MinEpochSeconds == -2 * MaxEpochSeconds

InEpoch(secs) == MinEpochSeconds <= secs /\ secs <= MaxEpochSeconds

ParseDate(t) ==
    CASE t.form = "digits" /\ InEpoch(t.secs) -> [err |-> FALSE, at |-> t.secs * Second]
      [] t.form = "iso" -> [err |-> FALSE, at |-> t.at]
      [] OTHER -> NotADate

DateOperators == {"Equals", "LessThan", "LessThanEquals", "GreaterThan", "GreaterThanEquals"}

DateCompares(operator, at, want) ==
    CASE operator = "Equals" -> at = want
      [] operator = "LessThan" -> at < want
      [] operator = "LessThanEquals" -> at <= want
      [] operator = "GreaterThan" -> at > want
      [] operator = "GreaterThanEquals" -> at >= want

DateHoldsAny(operator, actual, values, failClosed) ==
    LET at == ParseDate(actual)
    IN  IF at.err THEN failClosed
        ELSE \E v \in values :
                LET want == ParseDate(v)
                IN  ~want.err /\ DateCompares(operator, at.at, want.at)

(* SetRequestTime.  Both spellings drop the fraction of the second.        *)
Nearest(now) == (now + Second \div 2) \div Second    \* mutant: rounded, not cut
Unix(now) == now \div Second

CurrentTime(now) == [form |-> "iso", at |-> (now \div Second) * Second]
EpochTime(now) == [form |-> "digits", secs |-> Unix(now)]

(* A condition on aws:CurrentTime and the same on aws:EpochTime agree, and *)
(* a later request never goes back behind a limit.                         *)
OneClockOn(now, later, value) ==
    /\ \A operator \in DateOperators, failClosed \in BOOLEAN :
          DateHoldsAny(operator, CurrentTime(now), {value}, failClosed)
              = DateHoldsAny(operator, EpochTime(now), {value}, failClosed)
    /\ now <= later /\ DateHoldsAny("GreaterThan", EpochTime(now), {value}, FALSE) =>
          /\ DateHoldsAny("GreaterThan", EpochTime(later), {value}, FALSE)
          /\ ~DateHoldsAny("LessThanEquals", EpochTime(later), {value}, FALSE)
=============================================================================
