------------------------------ MODULE Decision ------------------------------
(***************************************************************************)
(* What a decision procedure of pkg/iampolicy promises its callers: a      *)
(* question is answered once, and the answer is the verdict that the       *)
(* question alone determines.  PatternMatch and PolicyEvaluator implement  *)
(* it.                                                                     *)
(***************************************************************************)
CONSTANTS NoQuestion, NoAnswer, Verdict(_)

VARIABLES question, answer

Init == question = NoQuestion /\ answer = NoAnswer

Ask ==
    /\ question = NoQuestion
    /\ question' # NoQuestion
    /\ UNCHANGED answer

Reply ==
    /\ question # NoQuestion
    /\ answer = NoAnswer /\ answer' # NoAnswer
    /\ answer' = Verdict(question)
    /\ UNCHANGED question

Return ==
    /\ answer # NoAnswer
    /\ question' = NoQuestion /\ answer' = NoAnswer

Next == Ask \/ Reply \/ Return

Spec == Init /\ [][Next]_<< question, answer >>
=============================================================================
