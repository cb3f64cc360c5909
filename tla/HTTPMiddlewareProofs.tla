------------------------ MODULE HTTPMiddlewareProofs ------------------------
(***************************************************************************)
(* Proofs about HTTPMiddleware: what the middleware tells of a request is  *)
(* what became of it, for any number of requests and of calls of their     *)
(* handlers, and whenever Init installs its providers.                     *)
(***************************************************************************)
EXTENDS HTTPMiddleware, FiniteSetTheorems, NaturalsInduction, WellFoundedInduction, TLAPS

RecorderType == [status : Nat, written : Nat]
ActionType == [name : Names, errorCode : ErrorCodes \cup {""}]
ResponseType == [status : Nat, body : Nat, hijacked : BOOLEAN, idle : BOOLEAN]
SpanType == [state : {"none", "open", "ended"}, status : Nat, error : BOOLEAN]

TypeInv ==
    /\ pc \in [Requests -> {"new", "handler", "panicked", "count", "bytesIn", "bytesOut",
                            "end", "left"}]
    /\ kind \in [Requests -> Kinds]
    /\ recorder \in [Requests -> RecorderType]
    /\ action \in [Requests -> ActionType]
    /\ response \in [Requests -> ResponseType]
    /\ span \in [Requests -> SpanType]
    /\ providers \in {{}, {"tracer"}, {"tracer", "meter"}}
    /\ instruments \in {"none", "waiting", "live"}

(* As long as the server has sent no status, 200 is what it will send.     *)
Sent(w) == IF w.status = 0 THEN 200 ELSE w.status

StatusOK(r) ==
    /\ pc[r] = "new" => response[r].status = 0
    /\ pc[r] = "left" /\ ~response[r].hijacked => response[r].status # 0
    /\ ~response[r].hijacked /\ ~response[r].idle => recorder[r].status = Sent(response[r])

(* From the handler's return on, an open span tells the status.            *)
Told(r) == /\ span[r].status = recorder[r].status
           /\ span[r].error = (recorder[r].status >= 500)

SpanOK(r) ==
    /\ pc[r] \in {"new", "handler"} => span[r].state # "ended"
    /\ pc[r] \in {"left", "panicked"} => span[r].state # "open"
    /\ pc[r] \in {"count", "bytesIn", "bytesOut", "end"} /\ span[r].state = "open" => Told(r)
    /\ pc[r] \in {"count", "bytesIn", "bytesOut", "end"} => span[r].state # "ended"
    /\ pc[r] = "left" /\ span[r].state = "ended" => Told(r)

(* The requests that mulga.requests has been told of, those of them that   *)
(* came to one outcome, and how many of these the counter may hold.        *)
Recorded == Past({"bytesIn", "bytesOut", "end", "left"})
Like(a) == { r \in Recorded : Attributes(r) = a }
LateLike(a) == { r \in Recorded \cap late : Attributes(r) = a }

CountOK ==
    /\ IsABag(counter)
    /\ IsFiniteSet(Recorded) /\ late \subseteq Recorded
    /\ "meter" \in providers => instruments # "waiting"
    /\ \A a : Between(Cardinality(LateLike(a)), Counted(a), Cardinality(Like(a)))

RequestOK == TypeInv /\ \A r \in Requests : StatusOK(r) /\ SpanOK(r)
----------------------------------------------------------------------------
(* The server's part: what its operations make of a response.              *)
LEMMA HeadedFacts ==
    ASSUME NEW w \in ResponseType, NEW code \in Codes
    PROVE  /\ Headed(w, code) \in ResponseType
           /\ Headed(w, code).hijacked = w.hijacked
           /\ ~Headed(w, code).hijacked /\ ~Headed(w, code).idle => Sent(Headed(w, code)) = code
<1>1. code \in Nat /\ code # 0
  BY CodesAssumption
<1>2. CASE w.hijacked \/ w.status # 0 \/ Informational(code)
  <2>1. Headed(w, code) = [w EXCEPT !.idle = TRUE]
    BY <1>2 DEF Headed
  <2> QED
    BY <2>1 DEF ResponseType
<1>3. CASE ~(w.hijacked \/ w.status # 0 \/ Informational(code))
  <2>1. Headed(w, code) = [w EXCEPT !.status = code, !.idle = FALSE]
    BY <1>3 DEF Headed
  <2> QED
    BY <1>1, <2>1 DEF ResponseType, Sent
<1> QED
  BY <1>2, <1>3

(* A status that is implied is the one that would have been sent.          *)
LEMMA ImpliedFacts ==
    ASSUME NEW w \in ResponseType
    PROVE  /\ Implied(w) \in ResponseType
           /\ Implied(w).hijacked = w.hijacked /\ Implied(w).idle = w.idle
           /\ Implied(w).body = w.body
           /\ ~w.hijacked => Sent(Implied(w)) = Sent(w) /\ Implied(w).status # 0
<1>1. CASE w.hijacked \/ w.status # 0
  BY <1>1 DEF Implied
<1>2. CASE ~(w.hijacked \/ w.status # 0)
  <2>1. Implied(w) = [w EXCEPT !.status = 200]
    BY <1>2 DEF Implied
  <2> QED
    BY <1>2, <2>1 DEF ResponseType, Sent
<1> QED
  BY <1>1, <1>2

(* And so with a body.                                                     *)
LEMMA BodiedFacts ==
    ASSUME NEW w \in ResponseType, NEW n \in Nat, NEW head \in BOOLEAN
    PROVE  /\ Bodied(w, n, head) \in ResponseType
           /\ Bodied(w, n, head).hijacked = w.hijacked /\ Bodied(w, n, head).idle = w.idle
           /\ ~w.hijacked => Sent(Bodied(w, n, head)) = Sent(w)
<1> DEFINE m == IF head THEN 0 ELSE n
<1>1. Bodied(w, n, head) = [Implied(w) EXCEPT !.body = Implied(w).body + m] /\ m \in Nat
  BY ImpliedFacts DEF Bodied
<1>2. Implied(w).body + m \in Nat
  BY <1>1, ImpliedFacts DEF ResponseType
<1> HIDE DEF m
<1> QED
  BY <1>1, <1>2, ImpliedFacts DEF ResponseType, Sent

(* No more is taken than there is.                                         *)
LEMMA TakenFacts ==
    ASSUME NEW w \in ResponseType, NEW size \in Sizes, NEW n \in Taken(w, size)
    PROVE  n \in Nat
BY SizesAssumption DEF Taken

(* A span that ends.                                                       *)
LEMMA EndedFacts ==
    ASSUME NEW s \in SpanType
    PROVE  /\ Ended(s) \in SpanType /\ Ended(s).state # "open"
           /\ Ended(s).status = s.status /\ Ended(s).error = s.error
           /\ Ended(s).state = "ended" => s.state \in {"open", "ended"}
BY DEF Ended, SpanType
----------------------------------------------------------------------------
(* The initial state.                                                      *)
LEMMA InitOK == Init => RequestOK
<1> SUFFICES ASSUME Init PROVE RequestOK
  OBVIOUS
<1>1. TypeInv
  BY ZenonT(60) DEF Init, TypeInv, RecorderType, ActionType, ResponseType, SpanType, NoSpan,
         FreshRecorder, Names
<1>2. \A r \in Requests : StatusOK(r) /\ SpanOK(r)
  BY DEF Init, StatusOK, SpanOK, Sent, NoSpan, FreshRecorder
<1> QED
  BY <1>1, <1>2 DEF RequestOK

(* What a request does to another: nothing.                                *)
LEMMA OthersOK ==
    ASSUME NEW t \in Requests, StatusOK(t), SpanOK(t),
           pc'[t] = pc[t], recorder'[t] = recorder[t], response'[t] = response[t],
           span'[t] = span[t]
    PROVE  StatusOK(t)' /\ SpanOK(t)'
BY DEF StatusOK, SpanOK, Told

(* A call of the handler.  What is needed of it: the recorder goes where   *)
(* the server's status goes.                                               *)
LEMMA HandlingOK ==
    ASSUME RequestOK, NEW r \in Requests, Handling(r),
           NEW rec \in RecorderType, NEW w \in ResponseType,
           recorder' = [recorder EXCEPT ![r] = rec],
           response' = [response EXCEPT ![r] = w],
           action' \in [Requests -> ActionType],
           ~w.hijacked /\ ~w.idle => rec.status = Sent(w)
    PROVE  RequestOK'
<1> USE DEF RequestOK
<1>1. TypeInv'
  BY DEF TypeInv, Handling, meterVars
<1>2. StatusOK(r)' /\ SpanOK(r)'
  BY DEF TypeInv, Handling, StatusOK, SpanOK
<1>3. ASSUME NEW t \in Requests, t # r PROVE StatusOK(t)' /\ SpanOK(t)'
  BY <1>3, OthersOK DEF TypeInv, Handling
<1> QED
  BY <1>1, <1>2, <1>3

(* The handler's steps.                                                    *)
LEMMA HandlerOK ==
    ASSUME RequestOK, NEW r \in Requests, HandlerStep(r)
    PROVE  RequestOK'
<1> USE DEF RequestOK
<1>0. /\ recorder[r] \in RecorderType /\ response[r] \in ResponseType
      /\ kind[r].head \in BOOLEAN /\ kind[r].http1 \in BOOLEAN
      /\ action \in [Requests -> ActionType]
      /\ recorder = [recorder EXCEPT ![r] = recorder[r]]
      /\ response = [response EXCEPT ![r] = response[r]]
  BY KindsAssumption DEF TypeInv
<1>1. ~response[r].hijacked /\ ~response[r].idle => recorder[r].status = Sent(response[r])
  BY DEF StatusOK
<1>2. CASE WriteHeader(r)
  <2>1. PICK code \in Codes :
          /\ recorder' = [recorder EXCEPT ![r].status = code]
          /\ response' = [response EXCEPT ![r] = Headed(@, code)]
    BY <1>2 DEF WriteHeader
  <2> DEFINE rec == [recorder[r] EXCEPT !.status = code]
  <2>2. rec \in RecorderType /\ rec.status = code /\ recorder' = [recorder EXCEPT ![r] = rec]
    <3>1. code \in Nat
      BY CodesAssumption
    <3>2. rec \in RecorderType /\ rec.status = code
      BY <1>0, <3>1 DEF RecorderType
    <3>3. recorder' = [recorder EXCEPT ![r] = rec]
      BY <2>1 DEF TypeInv
    <3> QED
      BY <3>2, <3>3
  <2> HIDE DEF rec
  <2>3. Handling(r) /\ action' = action
    BY <1>2 DEF WriteHeader
  <2>4. response' = [response EXCEPT ![r] = Headed(response[r], code)]
    BY <2>1
  <2> QED
    BY <1>0, <2>2, <2>3, <2>4, HeadedFacts, HandlingOK
<1>3. CASE Write(r) \/ ReadFrom(r)
  <2>1. PICK size \in Sizes : \E n \in Taken(response[r], size) :
          /\ response' = [response EXCEPT ![r] = Bodied(@, n, kind[r].head)]
          /\ recorder' = [recorder EXCEPT ![r].written = @ + n]
    BY <1>3 DEF Write, ReadFrom
  <2>2. PICK n \in Taken(response[r], size) :
          /\ response' = [response EXCEPT ![r] = Bodied(@, n, kind[r].head)]
          /\ recorder' = [recorder EXCEPT ![r].written = @ + n]
    BY <2>1
  <2>3. n \in Nat
    BY <1>0, TakenFacts
  <2> DEFINE rec == [recorder[r] EXCEPT !.written = recorder[r].written + n]
  <2>4. rec \in RecorderType /\ rec.status = recorder[r].status
        /\ recorder' = [recorder EXCEPT ![r] = rec]
    BY <1>0, <2>2, <2>3 DEF RecorderType, TypeInv
  <2> HIDE DEF rec
  <2>5. Handling(r) /\ action' = action
    BY <1>3 DEF Write, ReadFrom
  <2> DEFINE w == Bodied(response[r], n, kind[r].head)
  <2>6. /\ w \in ResponseType /\ w.hijacked = response[r].hijacked /\ w.idle = response[r].idle
        /\ ~w.hijacked => Sent(w) = Sent(response[r])
    BY <1>0, <2>3, BodiedFacts
  <2>7. response' = [response EXCEPT ![r] = w]
    BY <2>2
  <2> HIDE DEF w
  <2>8. ~w.hijacked /\ ~w.idle => rec.status = Sent(w)
    BY <1>1, <2>4, <2>6
  <2> QED
    BY <1>0, <2>4, <2>5, <2>6, <2>7, <2>8, HandlingOK
<1>4. CASE Flush(r)
  <2> DEFINE w == Implied(response[r])
  <2>1. /\ w \in ResponseType /\ w.hijacked = response[r].hijacked /\ w.idle = response[r].idle
        /\ ~w.hijacked => Sent(w) = Sent(response[r])
    BY <1>0, ImpliedFacts
  <2>2. Handling(r) /\ response' = [response EXCEPT ![r] = w]
        /\ recorder' = [recorder EXCEPT ![r] = recorder[r]] /\ action' = action
    BY <1>0, <1>4 DEF Flush
  <2> HIDE DEF w
  <2>3. ~w.hijacked /\ ~w.idle => recorder[r].status = Sent(w)
    BY <1>1, <2>1
  <2> QED
    BY <1>0, <2>1, <2>2, <2>3, HandlingOK
<1>5. CASE Hijack(r)
  <2> DEFINE w == [response[r] EXCEPT !.hijacked = response[r].hijacked \/ kind[r].http1]
  <2>1. /\ w \in ResponseType /\ w.hijacked = (response[r].hijacked \/ kind[r].http1)
        /\ w.idle = response[r].idle /\ w.status = response[r].status
    BY <1>0 DEF ResponseType
  <2>2. Handling(r) /\ response' = [response EXCEPT ![r] = w]
        /\ recorder' = [recorder EXCEPT ![r] = recorder[r]] /\ action' = action
    BY <1>0, <1>5 DEF Hijack
  <2> HIDE DEF w
  <2>3. ~w.hijacked /\ ~w.idle => recorder[r].status = Sent(w)
    BY <1>1, <2>1 DEF Sent
  <2> QED
    BY <1>0, <2>1, <2>2, <2>3, HandlingOK
<1>6. CASE SetRequestAction(r) \/ SetRequestErrorCode(r)
  <2>1. action' \in [Requests -> ActionType]
    <3>1. action[r] \in ActionType
      BY <1>0
    <3>2. ASSUME NEW a \in ActionNames PROVE [action[r] EXCEPT !.name = IF a = "" THEN @ ELSE a] \in ActionType
      BY <3>1 DEF ActionType, Names
    <3>3. ASSUME NEW e \in ErrorCodes PROVE [action[r] EXCEPT !.errorCode = IF e = "" THEN @ ELSE e] \in ActionType
      BY <3>1 DEF ActionType
    <3> QED
      BY <1>0, <1>6, <3>2, <3>3 DEF SetRequestAction, SetRequestErrorCode
  <2>2. Handling(r) /\ response' = [response EXCEPT ![r] = response[r]]
        /\ recorder' = [recorder EXCEPT ![r] = recorder[r]]
    BY <1>0, <1>6 DEF SetRequestAction, SetRequestErrorCode
  <2> QED
    BY <1>0, <1>1, <2>1, <2>2, HandlingOK
<1>7. CASE HandlerPanics(r)
  <2>1. span[r] \in SpanType
    BY DEF TypeInv
  <2>2. Ended(span[r]) \in SpanType /\ Ended(span[r]).state # "open"
    BY <2>1, EndedFacts
  <2>3. TypeInv'
    BY <1>7, <2>2 DEF HandlerPanics, TypeInv, meterVars
  <2>4. StatusOK(r)' /\ SpanOK(r)'
    BY <1>7, <2>2 DEF HandlerPanics, TypeInv, StatusOK, SpanOK
  <2>5. ASSUME NEW t \in Requests, t # r PROVE StatusOK(t)' /\ SpanOK(t)'
    BY <1>7, <2>5, OthersOK DEF HandlerPanics, TypeInv
  <2> QED
    BY <2>3, <2>4, <2>5
<1> QED
  BY <1>2, <1>3, <1>4, <1>5, <1>6, <1>7 DEF HandlerStep

(* The middleware's steps.                                                 *)
LEMMA MiddlewareOK ==
    ASSUME RequestOK, NEW r \in Requests, MiddlewareStep(r)
    PROVE  RequestOK'
<1> USE DEF RequestOK
<1>0. /\ recorder[r] \in RecorderType /\ response[r] \in ResponseType /\ span[r] \in SpanType
      /\ action[r] \in ActionType /\ StatusOK(r) /\ SpanOK(r)
  BY DEF TypeInv
<1>1. CASE Begin(r)
  <2>1. [action[r] EXCEPT !.name = IF kind[r].untraced THEN "METHOD path" ELSE "METHOD"]
           \in ActionType
    BY <1>0 DEF ActionType, Names
  <2> DEFINE state == IF ~kind[r].untraced /\ "tracer" \in providers THEN "open" ELSE "none"
  <2>2. [span[r] EXCEPT !.state = state] \in SpanType /\ [span[r] EXCEPT !.state = state].state = state
    BY <1>0 DEF SpanType
  <2>3. FreshRecorder \in RecorderType /\ FreshRecorder.status = 200
    BY DEF FreshRecorder, RecorderType
  <2>4. TypeInv'
    BY <1>1, <2>1, <2>2, <2>3 DEF Begin, TypeInv, meterVars
  <2>5. span'[r].state = state /\ pc'[r] = "handler" /\ pc[r] = "new"
        /\ recorder'[r].status = 200 /\ response'[r] = response[r]
    <3>1. span'[r] = [span[r] EXCEPT !.state = state] /\ recorder'[r] = FreshRecorder
      BY <1>1 DEF Begin, TypeInv
    <3>2. pc'[r] = "handler" /\ pc[r] = "new" /\ response'[r] = response[r]
      BY <1>1 DEF Begin, TypeInv
    <3> HIDE DEF state
    <3> QED
      BY <2>2, <2>3, <3>1, <3>2
  <2>6. StatusOK(r)' /\ SpanOK(r)'
    BY <1>0, <2>5 DEF StatusOK, SpanOK, Sent
  <2>7. ASSUME NEW t \in Requests, t # r PROVE StatusOK(t)' /\ SpanOK(t)'
    BY <1>1, <2>7, OthersOK DEF Begin, TypeInv
  <2> QED
    BY <2>4, <2>6, <2>7
<1>2. CASE HandlerReturns(r)
  <2> DEFINE error == recorder[r].status >= 500
  <2> DEFINE told == [span[r] EXCEPT !.status = recorder[r].status, !.error = error]
  <2>0. error \in BOOLEAN /\ recorder[r].status \in Nat
    BY <1>0 DEF RecorderType
  <2> HIDE DEF error
  <2>1. /\ told \in SpanType /\ told.state = span[r].state
        /\ told.status = recorder[r].status /\ told.error = error
    BY <1>0, <2>0 DEF SpanType
  <2>2. /\ span'[r] = IF span[r].state # "open" THEN span[r] ELSE told
        /\ pc'[r] = "count" /\ pc[r] = "handler" /\ recorder' = recorder /\ response' = response
    BY <1>2 DEF HandlerReturns, TypeInv, error
  <2> HIDE DEF told
  <2>3. span' \in [Requests -> SpanType] /\ \A t \in Requests : t # r => span'[t] = span[t]
    BY <1>0, <1>2, <2>1 DEF HandlerReturns, TypeInv, told, error
  <2>4. TypeInv'
    BY <1>2, <2>3 DEF HandlerReturns, TypeInv, meterVars
  <2>5. StatusOK(r)' /\ SpanOK(r)'
    BY <1>0, <2>1, <2>2 DEF StatusOK, SpanOK, Told, error
  <2>6. ASSUME NEW t \in Requests, t # r PROVE StatusOK(t)' /\ SpanOK(t)'
    BY <1>2, <2>3, <2>6, OthersOK DEF HandlerReturns, TypeInv
  <2> QED
    BY <2>4, <2>5, <2>6
<1>3. CASE Count(r) \/ CountBytesIn(r) \/ CountBytesOut(r)
  <2>1. TypeInv'
    BY <1>3 DEF Count, CountBytesIn, CountBytesOut, Created, TypeInv, requestVars
  <2>2. StatusOK(r)' /\ SpanOK(r)'
    BY <1>0, <1>3 DEF Count, CountBytesIn, CountBytesOut, TypeInv, requestVars, StatusOK, SpanOK, Told
  <2>3. ASSUME NEW t \in Requests, t # r PROVE StatusOK(t)' /\ SpanOK(t)'
    BY <1>3, <2>3, OthersOK DEF Count, CountBytesIn, CountBytesOut, TypeInv, requestVars
  <2> QED
    BY <2>1, <2>2, <2>3
<1>4. CASE End(r)
  <2>1. Ended(span[r]) \in SpanType /\ Ended(span[r]).state # "open"
        /\ Ended(span[r]).status = span[r].status /\ Ended(span[r]).error = span[r].error
        /\ (Ended(span[r]).state = "ended" => span[r].state \in {"open", "ended"})
    BY <1>0, EndedFacts
  <2>2. /\ Implied(response[r]) \in ResponseType
        /\ Implied(response[r]).hijacked = response[r].hijacked
        /\ Implied(response[r]).idle = response[r].idle
        /\ ~response[r].hijacked => /\ Sent(Implied(response[r])) = Sent(response[r])
                                    /\ Implied(response[r]).status # 0
    BY <1>0, ImpliedFacts
  <2>3. TypeInv'
    BY <1>4, <2>1, <2>2 DEF End, TypeInv, meterVars
  <2>4. /\ pc[r] = "end" /\ pc'[r] = "left" /\ span'[r] = Ended(span[r])
        /\ response'[r] = Implied(response[r]) /\ recorder' = recorder
    BY <1>4 DEF End, TypeInv
  <2>5. StatusOK(r)'
    BY <1>0, <2>2, <2>4 DEF StatusOK
  <2>6. SpanOK(r)'
    BY <1>0, <2>1, <2>4 DEF SpanOK, Told
  <2>7. ASSUME NEW t \in Requests, t # r PROVE StatusOK(t)' /\ SpanOK(t)'
    BY <1>4, <2>7, OthersOK DEF End, TypeInv
  <2> QED
    BY <2>3, <2>5, <2>6, <2>7
<1> QED
  BY <1>1, <1>2, <1>3, <1>4 DEF MiddlewareStep

(* Init's steps change no request, and a step of Next is one of these.     *)
LEMMA StepOK == RequestOK /\ [Next]_vars => RequestOK'
<1> SUFFICES ASSUME RequestOK, [Next]_vars PROVE RequestOK'
  OBVIOUS
<1>1. CASE InstallTracer \/ InstallMeter \/ UNCHANGED vars
  <2>1. TypeInv' /\ UNCHANGED << pc, requestVars >>
    BY <1>1 DEF InstallTracer, InstallMeter, vars, requestVars, meterVars, RequestOK, TypeInv
  <2> QED
    BY <2>1, OthersOK DEF RequestOK, requestVars
<1>2. CASE \E r \in Requests : HandlerStep(r) \/ MiddlewareStep(r)
  BY <1>2, HandlerOK, MiddlewareOK
<1> QED
  BY <1>1, <1>2 DEF Next

(* The invariant, in every reachable state.                                *)
THEOREM Invariance == Spec => []RequestOK
BY InitOK, StepOK, PTL DEF Spec

(* The proved form of StatusIsSent: for every sequence of calls a handler  *)
(* may make, and whatever the server takes of them.                        *)
THEOREM StatusSent == Spec => []StatusIsSent
<1>1. RequestOK => StatusIsSent
  BY DEF RequestOK, StatusOK, StatusIsSent, Sent
<1> QED
  BY <1>1, Invariance, PTL

(* The proved form of SpanIsTold, with a panic at any point of a handler.  *)
THEOREM SpanTold == Spec => []SpanIsTold
<1>1. RequestOK => SpanIsTold
  BY DEF RequestOK, SpanOK, SpanIsTold, Told
<1> QED
  BY <1>1, Invariance, PTL
----------------------------------------------------------------------------
(* One more in the bag.                                                    *)
LEMMA BagFacts ==
    ASSUME NEW B, IsABag(B), NEW x
    PROVE  LET C == B (+) SetToBag({x})
           IN  /\ IsABag(C)
               /\ \A a : (IF BagIn(a, C) THEN C[a] ELSE 0) =
                           (IF BagIn(a, B) THEN B[a] ELSE 0) + (IF a = x THEN 1 ELSE 0)
BY DEF IsABag, BagIn, BagToSet, SetToBag, (+)

(* The numbers that CountOK compares.                                      *)
LEMMA LikeFacts ==
    ASSUME CountOK, NEW a
    PROVE  /\ IsFiniteSet(Like(a)) /\ IsFiniteSet(LateLike(a))
           /\ Cardinality(Like(a)) \in Nat /\ Cardinality(LateLike(a)) \in Nat
           /\ Counted(a) \in Nat
<1>1. Like(a) \subseteq Recorded /\ LateLike(a) \subseteq Recorded
  BY DEF Like, LateLike
<1>2. IsFiniteSet(Like(a)) /\ IsFiniteSet(LateLike(a))
  BY <1>1, FS_Subset DEF CountOK
<1>3. Counted(a) \in Nat
  BY DEF CountOK, Counted, IsABag, BagIn, BagToSet
<1> QED
  BY <1>2, <1>3, FS_CardinalityType

(* A step that records no request: those that are recorded have their      *)
(* final status and action.                                                *)
LEMMA NotCounted ==
    ASSUME CountOK, UNCHANGED << counter, late >>,
           Recorded' = Recorded,
           \A r \in Recorded : Attributes(r)' = Attributes(r),
           "meter" \in providers' => instruments' # "waiting"
    PROVE  CountOK'
<1>1. ASSUME NEW a PROVE Between(Cardinality(LateLike(a)), Counted(a), Cardinality(Like(a)))'
  <2>1. Like(a)' = Like(a) /\ LateLike(a)' = LateLike(a)
    BY DEF Like, LateLike
  <2>2. Counted(a)' = Counted(a)
    BY DEF Counted
  <2>3. Between(Cardinality(LateLike(a)), Counted(a), Cardinality(Like(a)))
    BY DEF CountOK
  <2> QED
    BY <2>1, <2>2, <2>3 DEF Between
<1> QED
  BY <1>1 DEF CountOK

(* RecordRequest counts a request once, and under what it came to.         *)
LEMMA CountedOnce ==
    ASSUME TypeInv, CountOK, NEW r \in Requests, Count(r)
    PROVE  CountOK'
<1>1. pc[r] = "count" /\ pc' = [pc EXCEPT ![r] = "bytesIn"] /\ UNCHANGED << requestVars, providers >>
  BY DEF Count
<1>2. r \notin Recorded /\ Recorded' = Recorded \cup {r} /\ r \notin late
  BY <1>1 DEF TypeInv, Recorded, Past, CountOK
<1>3. IsFiniteSet(Recorded')
  BY <1>2, FS_AddElement DEF CountOK
<1> DEFINE x == Attributes(r)
<1>4. \A t \in Requests : Attributes(t)' = Attributes(t)
  BY <1>1 DEF requestVars, Attributes
<1>5. /\ instruments' \in {"waiting", "live"}
      /\ "meter" \in providers => instruments' = "live"
  BY DEF Count, Created, TypeInv, CountOK
<1>6. /\ late' \in {late, late \cup {r}} /\ late' \subseteq Recorded'
      /\ instruments' # "live" => late' = late
  BY <1>2, <1>5 DEF Count, CountOK
<1>7. IsABag(counter') /\ \A a : Counted(a)' = Counted(a) +
                             (IF a = x /\ instruments' = "live" THEN 1 ELSE 0)
  <2>1. CASE instruments' = "live"
    <3>1. counter' = counter (+) SetToBag({x})
      BY <2>1 DEF Count
    <3>2. /\ IsABag(counter')
          /\ \A a : (IF BagIn(a, counter') THEN counter'[a] ELSE 0) =
                      (IF BagIn(a, counter) THEN counter[a] ELSE 0) + (IF a = x THEN 1 ELSE 0)
      BY <3>1, BagFacts DEF CountOK
    <3> QED
      BY <2>1, <3>2 DEF Counted
  <2>2. CASE instruments' # "live"
    <3>1. counter' = counter
      BY <2>2 DEF Count
    <3>2. \A a : Counted(a) \in Nat
      BY LikeFacts
    <3> QED
      BY <2>2, <3>1, <3>2 DEF Counted, CountOK
  <2> QED
    BY <2>1, <2>2
<1>8. ASSUME NEW a PROVE Between(Cardinality(LateLike(a)), Counted(a), Cardinality(Like(a)))'
  <2>1. /\ Cardinality(Like(a)) \in Nat /\ Cardinality(LateLike(a)) \in Nat
        /\ Counted(a) \in Nat /\ IsFiniteSet(Like(a)) /\ IsFiniteSet(LateLike(a))
    BY LikeFacts
  <2>2. Cardinality(LateLike(a)) <= Counted(a) /\ Counted(a) <= Cardinality(Like(a))
    BY DEF CountOK, Between
  <2>3. r \notin Like(a) /\ r \notin LateLike(a)
    BY <1>2 DEF Like, LateLike
  <2>4. Recorded \subseteq Requests
    BY DEF Recorded, Past
  <2>5. CASE a # x
    <3>1. Like(a)' = Like(a) /\ LateLike(a)' = LateLike(a)
      BY <1>2, <1>4, <1>6, <2>4, <2>5 DEF Like, LateLike
    <3>2. Counted(a)' = Counted(a)
      BY <1>7, <2>1, <2>5
    <3> QED
      BY <2>2, <3>1, <3>2 DEF Between
  <2>6. CASE a = x
    <3>1. Like(a)' = Like(a) \cup {r}
      BY <1>2, <1>4, <2>4, <2>6 DEF Like
    <3>2. Cardinality(Like(a)') = Cardinality(Like(a)) + 1
      BY <2>1, <2>3, <3>1, FS_AddElement
    <3>3. CASE instruments' = "live"
      <4>1. LateLike(a)' = LateLike(a) \/ LateLike(a)' = LateLike(a) \cup {r}
        BY <1>2, <1>4, <1>6, <2>4, <2>6 DEF LateLike
      <4>2. Cardinality(LateLike(a) \cup {r}) = Cardinality(LateLike(a)) + 1
        BY <2>1, <2>3, FS_AddElement
      <4>3. /\ Cardinality(LateLike(a)') <= Cardinality(LateLike(a)) + 1
            /\ Cardinality(LateLike(a)') \in Nat
        BY <2>1, <4>1, <4>2
      <4>4. Counted(a)' = Counted(a) + 1
        BY <1>7, <2>6, <3>3
      <4> QED
        BY <2>1, <2>2, <3>2, <4>3, <4>4 DEF Between
    <3>4. CASE instruments' # "live"
      <4>1. LateLike(a)' = LateLike(a)
        BY <1>2, <1>4, <1>6, <2>4, <3>4 DEF LateLike
      <4>2. Counted(a)' = Counted(a)
        BY <1>7, <2>1, <3>4
      <4> QED
        BY <2>1, <2>2, <3>2, <4>1, <4>2 DEF Between
    <3> QED
      BY <3>3, <3>4
  <2> QED
    BY <2>5, <2>6
<1>9. "meter" \in providers' => instruments' # "waiting"
  BY <1>1, <1>5
<1> QED
  BY <1>3, <1>6, <1>7, <1>8, <1>9 DEF CountOK

(* Every step keeps CountOK.                                               *)
LEMMA CountStep == TypeInv /\ CountOK /\ [Next]_vars => CountOK'
<1> SUFFICES ASSUME TypeInv, CountOK, [Next]_vars PROVE CountOK'
  OBVIOUS
<1>1. ASSUME NEW r \in Requests, \/ HandlerStep(r) \/ Begin(r) \/ HandlerReturns(r)
             \/ CountBytesIn(r) \/ CountBytesOut(r) \/ End(r)
      PROVE  CountOK'
  <2>1. UNCHANGED << counter, late, providers, instruments >>
    BY <1>1 DEF HandlerStep, WriteHeader, Write, ReadFrom, Flush, Hijack, SetRequestAction,
       SetRequestErrorCode, HandlerPanics, Handling, Begin, HandlerReturns, CountBytesIn,
       CountBytesOut, End, meterVars
  <2>2. /\ pc'[r] \in {"bytesIn", "bytesOut", "end", "left"} <=>
              pc[r] \in {"bytesIn", "bytesOut", "end", "left"}
        /\ \A t \in Requests : t # r => pc'[t] = pc[t]
    BY <1>1, ZenonT(60) DEF HandlerStep, WriteHeader, Write, ReadFrom, Flush, Hijack, SetRequestAction,
       SetRequestErrorCode, HandlerPanics, Handling, Begin, HandlerReturns, CountBytesIn,
       CountBytesOut, End, TypeInv
  <2>3. Recorded' = Recorded
    BY <2>2 DEF Recorded, Past
  <2>4. /\ r \in Recorded => recorder'[r] = recorder[r] /\ action'[r] = action[r]
        /\ \A t \in Requests : t # r => recorder'[t] = recorder[t] /\ action'[t] = action[t]
    BY <1>1 DEF HandlerStep, WriteHeader, Write, ReadFrom, Flush, Hijack, SetRequestAction,
       SetRequestErrorCode, HandlerPanics, Handling, Begin, HandlerReturns, CountBytesIn,
       CountBytesOut, End, TypeInv, requestVars, Recorded, Past
  <2>5. \A t \in Recorded : Attributes(t)' = Attributes(t)
    BY <2>4 DEF Attributes, Recorded, Past
  <2> QED
    BY <2>1, <2>3, <2>5, NotCounted DEF CountOK
<1>2. CASE InstallTracer \/ InstallMeter \/ UNCHANGED vars
  <2>1. UNCHANGED << counter, late, pc, recorder, action >>
    BY <1>2 DEF InstallTracer, InstallMeter, vars, requestVars, meterVars
  <2>2. Recorded' = Recorded /\ \A t \in Recorded : Attributes(t)' = Attributes(t)
    BY <2>1 DEF Recorded, Past, Attributes
  <2>3. "meter" \in providers' => instruments' # "waiting"
    BY <1>2 DEF InstallTracer, InstallMeter, vars, meterVars, CountOK
  <2> QED
    BY <2>1, <2>2, <2>3, NotCounted
<1> QED
  BY <1>1, <1>2, CountedOnce DEF Next, MiddlewareStep

(* CountOK, in every reachable state.                                      *)
LEMMA CountAlways == Spec => []CountOK
<1>1. Init => CountOK
  <2> SUFFICES ASSUME Init PROVE CountOK
    OBVIOUS
  <2>1. Recorded = {} /\ late = {} /\ providers = {}
    BY DEF Init, Recorded, Past
  <2>2. IsABag(counter) /\ \A a : Counted(a) = 0
    BY DEF Init, IsABag, Counted, EmptyBag, SetToBag, BagIn, BagToSet
  <2>3. \A a : Like(a) = {} /\ LateLike(a) = {}
    BY <2>1 DEF Like, LateLike
  <2>4. Cardinality({}) = 0 /\ IsFiniteSet({})
    BY FS_EmptySet
  <2>5. \A a : Between(Cardinality(LateLike(a)), Counted(a), Cardinality(Like(a)))
    BY <2>2, <2>3, <2>4 DEF Between
  <2> QED
    BY <2>1, <2>2, <2>4, <2>5 DEF CountOK
<1>2. RequestOK => TypeInv
  BY DEF RequestOK
<1> QED
  BY <1>1, <1>2, CountStep, Invariance, PTL DEF Spec

(* The proved form of RequestsCounted: at most once, under the outcome it  *)
(* came to, and always once the meter provider is there, for any number of *)
(* requests and whenever the provider is installed.                        *)
THEOREM CountedRight == Spec => []RequestsCounted
<1>1. CountOK => RequestsCounted
  BY DEF CountOK, RequestsCounted, Like, LateLike, Recorded
<1> QED
  BY <1>1, CountAlways, PTL
----------------------------------------------------------------------------
(* Sums over finite sets.  MapThenSumSet adds one value after the other,   *)
(* in an order of its own; what follows says that the order is of no       *)
(* matter.  A least number first, and from it induction over subsets.      *)
LEMMA Least ==
    ASSUME NEW T \in SUBSET Nat, T # {}
    PROVE  \E n \in T : \A m \in T : n <= m
<1>1. \E n \in T : \A m \in T : ~(<< m, n >> \in OpToRel(<, Nat))
  BY NatLessThanWellFounded, WFMin
<1>2. \A m, n \in Nat : m < n => << m, n >> \in OpToRel(<, Nat)
  BY DEF OpToRel
<1>3. PICK n \in T : \A m \in T : ~(<< m, n >> \in OpToRel(<, Nat))
  BY <1>1
<1>4. ASSUME NEW m \in T PROVE n <= m
  <2>1. m \in Nat /\ n \in Nat /\ ~(m < n)
    BY <1>2, <1>3
  <2> QED
    BY <2>1
<1> QED
  BY <1>4

(* A subset and its size without one of its elements.                      *)
LEMMA Without ==
    ASSUME NEW X, IsFiniteSet(X), NEW s \in SUBSET X, NEW x \in s
    PROVE  /\ s \ {x} \in SUBSET X
           /\ Cardinality(s) \in Nat /\ Cardinality(s \ {x}) \in Nat
           /\ Cardinality(s \ {x}) = Cardinality(s) - 1
<1>1. IsFiniteSet(s)
  BY FS_Subset
<1>2. IsFiniteSet(s \ {x}) /\ Cardinality(s \ {x}) = Cardinality(s) - 1
  BY <1>1, FS_RemoveElement
<1> QED
  BY <1>1, <1>2, FS_CardinalityType

LEMMA BySize ==
    ASSUME NEW X, IsFiniteSet(X), NEW P,
           \A s \in SUBSET X : (\A x \in s : s \ {x} \in P) => s \in P
    PROVE  \A s \in SUBSET X : s \in P
<1> DEFINE Bad == { s \in SUBSET X : s \notin P }
<1> DEFINE Ranks == { Cardinality(s) : s \in Bad }
<1>1. \A s \in SUBSET X : Cardinality(s) \in Nat
  BY FS_Subset, FS_CardinalityType
<1>2. ASSUME Bad # {} PROVE FALSE
  <2>1. Ranks \in SUBSET Nat /\ Ranks # {}
    BY <1>1, <1>2
  <2>2. PICK n \in Ranks : \A m \in Ranks : n <= m
    <3> HIDE DEF Ranks
    <3> QED
      BY <2>1, Least
  <2>3. PICK s \in Bad : n = Cardinality(s)
    OBVIOUS
  <2>4. ASSUME NEW x \in s PROVE s \ {x} \in P
    <3>1. /\ s \ {x} \in SUBSET X /\ Cardinality(s \ {x}) = n - 1 /\ n \in Nat
          /\ Cardinality(s \ {x}) \in Nat
      BY <2>3, Without
    <3>2. s \ {x} \in Bad => Cardinality(s \ {x}) \in Ranks
      OBVIOUS
    <3>3. s \ {x} \in Bad => n <= n - 1
      <4> HIDE DEF Bad, Ranks
      <4> QED
        BY <2>2, <3>1, <3>2
    <3> QED
      BY <3>1, <3>3
  <2> QED
    BY <2>3, <2>4
<1> QED
  BY <1>2

(* The sums over the subsets of X, built up one element at a time.         *)
Pick(s) == CHOOSE x \in s : TRUE
Plus(g, f, s) == IF s = {} THEN 0 ELSE f[Pick(s)] + g[s \ {Pick(s)}]
Folds(g, X, f) == g = [s \in SUBSET X |-> Plus(g, f, s)]
Total(X, f) == (CHOOSE g : Folds(g, X, f))[X]

LEMMA PickFacts ==
    ASSUME NEW s, s # {}
    PROVE  Pick(s) \in s
BY DEF Pick

(* There are such sums.                                                    *)
LEMMA FoldExists ==
    ASSUME NEW X, IsFiniteSet(X), NEW f, \A x \in X : f[x] \in Nat
    PROVE  \E g : Folds(g, X, f) /\ g \in [SUBSET X -> Nat]
<1> DEFINE Good(g, n) == /\ g \in [SUBSET X -> Nat]
                         /\ \A s \in SUBSET X : Cardinality(s) <= n => g[s] = Plus(g, f, s)
<1> DEFINE Bad == { n \in Nat : ~\E g : Good(g, n) }
<1>0. \A s \in SUBSET X : Cardinality(s) \in Nat /\ (Cardinality(s) = 0 => s = {})
  BY FS_Subset, FS_CardinalityType, FS_EmptySet
<1>1. ASSUME NEW g \in [SUBSET X -> Nat], NEW s \in SUBSET X PROVE Plus(g, f, s) \in Nat
  <2>1. CASE s = {}
    BY <2>1 DEF Plus
  <2>2. CASE s # {}
    <3>1. Pick(s) \in s /\ s \ {Pick(s)} \in SUBSET X
      BY <2>2, PickFacts
    <3>2. f[Pick(s)] \in Nat /\ g[s \ {Pick(s)}] \in Nat
      BY <3>1
    <3> QED
      BY <2>2, <3>2 DEF Plus
  <2> QED
    BY <2>1, <2>2
<1>2. Good([s \in SUBSET X |-> 0], 0)
  <2> DEFINE z == [s \in SUBSET X |-> 0]
  <2>1. ASSUME NEW s \in SUBSET X, Cardinality(s) <= 0 PROVE z[s] = Plus(z, f, s)
    <3>1. s = {}
      BY <1>0, <2>1
    <3> QED
      BY <3>1 DEF Plus
  <2> QED
    BY <2>1
<1>3. ASSUME NEW n \in Nat, NEW g, Good(g, n) PROVE \E h : Good(h, n + 1)
  <2> DEFINE h == [s \in SUBSET X |-> Plus(g, f, s)]
  <2>1. h \in [SUBSET X -> Nat]
    BY <1>1, <1>3
  <2>2. \A s \in SUBSET X : Cardinality(s) <= n => h[s] = g[s]
    BY <1>3
  <2>3. ASSUME NEW s \in SUBSET X, Cardinality(s) <= n + 1 PROVE h[s] = Plus(h, f, s)
    <3>1. CASE s = {}
      BY <3>1 DEF Plus
    <3>2. CASE s # {}
      <4>1. Pick(s) \in s
        BY <3>2, PickFacts
      <4>2. /\ s \ {Pick(s)} \in SUBSET X
            /\ Cardinality(s \ {Pick(s)}) = Cardinality(s) - 1 /\ Cardinality(s) \in Nat
        BY <4>1, Without
      <4>3. Cardinality(s \ {Pick(s)}) <= n
        BY <2>3, <4>2
      <4>4. h[s \ {Pick(s)}] = g[s \ {Pick(s)}]
        BY <2>2, <4>2, <4>3
      <4> QED
        BY <3>2, <4>4 DEF Plus
    <3> QED
      BY <3>1, <3>2
  <2> HIDE DEF h
  <2> QED
    BY <2>1, <2>3
<1>4. ASSUME Bad # {} PROVE FALSE
  <2>1. PICK n \in Bad : \A m \in Bad : n <= m
    <3>1. Bad \in SUBSET Nat
      OBVIOUS
    <3> HIDE DEF Bad
    <3> QED
      BY <1>4, <3>1, Least
  <2>2. n \in Nat /\ n # 0
    BY <1>2
  <2>3. n - 1 \in Nat /\ (n - 1) + 1 = n /\ ~(n <= n - 1)
    BY <2>2
  <2>4. n - 1 \notin Bad
    <3> HIDE DEF Bad
    <3> QED
      BY <2>1, <2>3
  <2>5. \E g : Good(g, n - 1)
    BY <2>3, <2>4
  <2>6. \E g : Good(g, (n - 1) + 1)
    <3> HIDE DEF Good
    <3> QED
      BY <1>3, <2>3, <2>5
  <2> HIDE DEF Good
  <2> QED
    BY <2>3, <2>6
<1>5. Cardinality(X) \in Nat /\ \A s \in SUBSET X : Cardinality(s) <= Cardinality(X)
  BY FS_CardinalityType, FS_Subset
<1>6. PICK g : Good(g, Cardinality(X))
  <2> HIDE DEF Good
  <2> QED
    BY <1>4, <1>5
<1>7. g \in [SUBSET X -> Nat] /\ \A s \in SUBSET X : g[s] = Plus(g, f, s)
  BY <1>5, <1>6
<1>8. g = [s \in SUBSET X |-> Plus(g, f, s)]
  BY <1>7
<1> QED
  BY <1>7, <1>8 DEF Folds

(* Two such sums agree where they add up the same values.                  *)
LEMMA FoldSame ==
    ASSUME NEW X, IsFiniteSet(X), NEW Y \in SUBSET X, NEW f, NEW e,
           \A x \in Y : f[x] = e[x], NEW g, Folds(g, X, f), NEW h, Folds(h, Y, e)
    PROVE  \A s \in SUBSET Y : g[s] = h[s]
<1> DEFINE P == { s \in SUBSET Y : g[s] = h[s] }
<1>1. /\ \A s \in SUBSET X : g[s] = Plus(g, f, s)
      /\ \A s \in SUBSET Y : h[s] = Plus(h, e, s)
  BY DEF Folds
<1>2. ASSUME NEW s \in SUBSET Y, \A x \in s : s \ {x} \in P PROVE s \in P
  <2>1. g[s] = Plus(g, f, s) /\ h[s] = Plus(h, e, s)
    BY <1>1
  <2>2. CASE s = {}
    BY <2>1, <2>2 DEF Plus
  <2>3. CASE s # {}
    <3>1. Pick(s) \in s
      BY <2>3, PickFacts
    <3>2. f[Pick(s)] = e[Pick(s)] /\ g[s \ {Pick(s)}] = h[s \ {Pick(s)}]
      BY <1>2, <3>1
    <3> QED
      BY <2>1, <2>3, <3>2 DEF Plus
  <2> QED
    BY <2>2, <2>3
<1>3. IsFiniteSet(Y)
  BY FS_Subset
<1>4. \A s \in SUBSET Y : s \in P
  <2> HIDE DEF P
  <2> QED
    BY <1>2, <1>3, BySize
<1> QED
  BY <1>4

(* The order is of no matter: any element may be the one added last.       *)
AnyLast(g, X, f) == \A s \in SUBSET X : \A x \in s : g[s] = f[x] + g[s \ {x}]

LEMMA FoldAny ==
    ASSUME NEW X, IsFiniteSet(X), NEW f, \A x \in X : f[x] \in Nat,
           NEW g \in [SUBSET X -> Nat], Folds(g, X, f)
    PROVE  AnyLast(g, X, f)
<1> DEFINE P == { s \in SUBSET X : \A x \in s : g[s] = f[x] + g[s \ {x}] }
<1>1. \A s \in SUBSET X : g[s] = Plus(g, f, s)
  BY DEF Folds
<1>2. ASSUME NEW s \in SUBSET X, \A x \in s : s \ {x} \in P PROVE s \in P
  <2>1. ASSUME NEW x \in s PROVE g[s] = f[x] + g[s \ {x}]
    <3> DEFINE p == Pick(s)
    <3>1. p \in s
      BY PickFacts
    <3>2. g[s] = f[p] + g[s \ {p}]
      BY <1>1 DEF Plus
    <3> HIDE DEF p
    <3>3. CASE x = p
      BY <3>2, <3>3
    <3>4. CASE x # p
      <4>1. x \in s \ {p} /\ p \in s \ {x} /\ (s \ {p}) \ {x} = (s \ {x}) \ {p}
        BY <3>1, <3>4
      <4>2. g[s \ {p}] = f[x] + g[(s \ {p}) \ {x}]
        BY <1>2, <3>1, <4>1
      <4>3. g[s \ {x}] = f[p] + g[(s \ {x}) \ {p}]
        BY <1>2, <4>1
      <4>4. f[x] \in Nat /\ f[p] \in Nat /\ g[(s \ {x}) \ {p}] \in Nat
        <5>1. (s \ {x}) \ {p} \in SUBSET X /\ x \in X /\ p \in X
          BY <3>1
        <5> QED
          BY <5>1
      <4> DEFINE a == f[x]  b == f[p]  c == g[(s \ {x}) \ {p}]
      <4>5. g[s] = b + (a + c) /\ g[s \ {x}] = b + c
        BY <3>2, <4>1, <4>2, <4>3
      <4>6. a \in Nat /\ b \in Nat /\ c \in Nat
        BY <4>4
      <4>7. a = f[x]
        OBVIOUS
      <4> HIDE DEF a, b, c
      <4>8. g[s] = a + g[s \ {x}]
        BY <4>5, <4>6
      <4> QED
        BY <4>7, <4>8
    <3> QED
      BY <3>3, <3>4
  <2> QED
    BY <2>1
<1>3. \A s \in SUBSET X : s \in P
  <2> HIDE DEF P
  <2> QED
    BY <1>2, BySize
<1> QED
  BY <1>3 DEF AnyLast

(* The sum that Total chooses.                                             *)
LEMMA TotalChosen ==
    ASSUME NEW X, IsFiniteSet(X), NEW f, \A x \in X : f[x] \in Nat
    PROVE  \E g \in [SUBSET X -> Nat] : Folds(g, X, f) /\ Total(X, f) = g[X]
<1> DEFINE g == CHOOSE h : Folds(h, X, f)
<1>1. PICK h : Folds(h, X, f) /\ h \in [SUBSET X -> Nat]
  BY FoldExists
<1>2. Folds(g, X, f) /\ Total(X, f) = g[X]
  BY <1>1 DEF Total
<1> HIDE DEF g
<1>3. \A s \in SUBSET X : g[s] = h[s]
  BY <1>1, <1>2, FoldSame
<1>4. \A s \in SUBSET X : g[s] \in Nat
  BY <1>1, <1>3
<1>5. g = [s \in SUBSET X |-> Plus(g, f, s)]
  BY <1>2 DEF Folds
<1>6. g \in [SUBSET X -> Nat]
  BY <1>4, <1>5
<1> QED
  BY <1>2, <1>6

LEMMA TotalFacts ==
    ASSUME NEW X, IsFiniteSet(X), NEW f, \A x \in X : f[x] \in Nat
    PROVE  Total(X, f) \in Nat /\ (X = {} => Total(X, f) = 0)
<1>1. PICK g \in [SUBSET X -> Nat] : Folds(g, X, f) /\ Total(X, f) = g[X]
  BY TotalChosen
<1>2. X \in SUBSET X /\ g[X] = Plus(g, f, X)
  BY <1>1 DEF Folds
<1> QED
  BY <1>1, <1>2 DEF Plus

LEMMA TotalSame ==
    ASSUME NEW X, IsFiniteSet(X), NEW f, NEW e,
           \A x \in X : f[x] \in Nat, \A x \in X : f[x] = e[x]
    PROVE  Total(X, f) = Total(X, e)
<1>1. PICK g \in [SUBSET X -> Nat] : Folds(g, X, f) /\ Total(X, f) = g[X]
  BY TotalChosen
<1>2. \A x \in X : e[x] \in Nat
  OBVIOUS
<1>3. PICK h \in [SUBSET X -> Nat] : Folds(h, X, e) /\ Total(X, e) = h[X]
  BY <1>2, TotalChosen
<1>4. X \in SUBSET X
  OBVIOUS
<1> QED
  BY <1>1, <1>3, <1>4, FoldSame

LEMMA TotalAdded ==
    ASSUME NEW X, IsFiniteSet(X), NEW x, x \notin X, NEW f,
           \A y \in X \cup {x} : f[y] \in Nat
    PROVE  /\ Total(X \cup {x}, f) = f[x] + Total(X, f)
           /\ IsFiniteSet(X \cup {x})
<1> DEFINE Z == X \cup {x}
<1>1. IsFiniteSet(Z)
  BY FS_AddElement
<1>2. \A y \in Z : f[y] \in Nat
  OBVIOUS
<1>3. Z \ {x} = X /\ x \in Z /\ X \in SUBSET Z /\ Z \in SUBSET Z /\ X \in SUBSET X
      /\ \A y \in X : f[y] \in Nat
  OBVIOUS
<1>9. Z = X \cup {x}
  OBVIOUS
<1> HIDE DEF Z
<1>4. PICK g \in [SUBSET Z -> Nat] : Folds(g, Z, f) /\ Total(Z, f) = g[Z]
  BY <1>1, <1>2, TotalChosen
<1>5. PICK h \in [SUBSET X -> Nat] : Folds(h, X, f) /\ Total(X, f) = h[X]
  BY <1>3, TotalChosen
<1>6. g[X] = h[X]
  BY <1>1, <1>3, <1>4, <1>5, FoldSame
<1>7. g[Z] = f[x] + g[Z \ {x}]
  <2>1. \A s \in SUBSET Z : \A y \in s : g[s] = f[y] + g[s \ {y}]
    <3>1. AnyLast(g, Z, f)
      BY <1>1, <1>2, <1>4, FoldAny
    <3> QED
      BY <3>1 DEF AnyLast
  <2> QED
    BY <1>3, <2>1
<1>8. Total(Z, f) = f[x] + Total(X, f)
  BY <1>3, <1>4, <1>5, <1>6, <1>7
<1> QED
  BY <1>1, <1>8, <1>9

(* A sum that lies between those of a set and of a larger one.             *)
InSum(L, b, N, f) == Between(Total(L, f), b, Total(N, f))

LEMMA SumKept ==
    ASSUME NEW N, IsFiniteSet(N), NEW L \in SUBSET N, NEW b, NEW f, NEW e,
           \A x \in N : f[x] \in Nat, \A x \in N : f[x] = e[x], InSum(L, b, N, f)
    PROVE  InSum(L, b, N, e)
<1>1. IsFiniteSet(L)
  BY FS_Subset
<1>2. Total(N, f) = Total(N, e)
  BY TotalSame
<1>3. \A x \in L : f[x] \in Nat /\ f[x] = e[x]
  OBVIOUS
<1>4. Total(L, f) = Total(L, e)
  BY <1>1, <1>3, TotalSame
<1> QED
  BY <1>2, <1>4 DEF InSum

(* One more in the larger set, added to the number if it is in the smaller.*)
LEMMA SumGrows ==
    ASSUME NEW N, IsFiniteSet(N), NEW L \in SUBSET N, NEW b \in Nat, NEW f, NEW r,
           r \notin N, \A x \in N \cup {r} : f[x] \in Nat, InSum(L, b, N, f),
           NEW c, NEW M,
           \/ c = b + f[r] /\ M \in {L, L \cup {r}}
           \/ c = b /\ M = L
    PROVE  InSum(M, c, N \cup {r}, f)
<1> DEFINE n == Total(N, f)  l == Total(L, f)  v == f[r]
<1>1. IsFiniteSet(L) /\ r \notin L /\ v \in Nat
  BY FS_Subset
<1>2. n \in Nat /\ l \in Nat
  <2>1. \A x \in N : f[x] \in Nat
    OBVIOUS
  <2>2. \A x \in L : f[x] \in Nat
    OBVIOUS
  <2> QED
    BY <1>1, <2>1, <2>2, TotalFacts
<1>3. Total(N \cup {r}, f) = v + n
  BY TotalAdded
<1>4. Total(L \cup {r}, f) = v + l
  <2>1. \A x \in L \cup {r} : f[x] \in Nat
    OBVIOUS
  <2> QED
    BY <1>1, <2>1, TotalAdded
<1>5. \/ c = b + v /\ Total(M, f) \in {l, v + l}
      \/ c = b /\ Total(M, f) = l
  BY <1>4
<1>6. l <= b /\ b <= n
  BY DEF InSum, Between
<1> DEFINE m == Total(M, f)
<1>7. \/ c = b + v /\ m \in {l, v + l}
      \/ c = b /\ m = l
  BY <1>5
<1>8. v \in Nat
  BY <1>1
<1> HIDE DEF n, l, v, m
<1>9. m <= c /\ c <= v + n
  BY <1>2, <1>6, <1>7, <1>8
<1> QED
  BY <1>3, <1>9 DEF InSum, Between, m
----------------------------------------------------------------------------
(* The bytes of the requests, those that have been added of them, and what *)
(* of these came under one name.                                           *)
InBytes == [r \in Requests |-> Known(kind[r].length)]
OutBytes == [r \in Requests |-> BodyOf(r)]
PastIn == Past({"bytesOut", "end", "left"})
PastOut == Past({"end", "left"})
Named(name, S) == { r \in S : action[r].name = name }

InOK(name) == InSum(Named(name, PastIn \cap late), bytes[<< name, "in" >>],
                    Named(name, PastIn), InBytes)
OutOK(name) == InSum(Named(name, PastOut \cap late), bytes[<< name, "out" >>],
                     Named(name, PastOut), OutBytes)

(* The recorder has counted what the server took: all of the body, unless  *)
(* it was dropped.                                                         *)
WrittenOK(r) ==
    /\ pc[r] = "new" => response[r].body = 0
    /\ ~kind[r].head => recorder[r].written = response[r].body

BytesOK ==
    /\ bytes \in [Names \X Directions -> Nat]
    /\ late # {} => instruments = "live"
    /\ \A r \in Requests : WrittenOK(r)
    /\ \A name \in Names : InOK(name) /\ OutOK(name)

LEMMA BytesTypes ==
    ASSUME TypeInv, NEW r \in Requests
    PROVE  /\ InBytes[r] \in Nat /\ OutBytes[r] \in Nat
           /\ InBytes[r] = Known(kind[r].length) /\ OutBytes[r] = BodyOf(r)
<1>1. kind[r].length \in Int /\ kind[r].head \in BOOLEAN
  BY KindsAssumption DEF TypeInv
<1>2. recorder[r].written \in Nat /\ response[r].body \in Nat
  BY DEF TypeInv, RecorderType, ResponseType
<1>3. Known(kind[r].length) \in Nat
  BY <1>1 DEF Known
<1>4. BodyOf(r) \in Nat
  BY <1>2 DEF BodyOf
<1> QED
  BY <1>3, <1>4 DEF InBytes, OutBytes

LEMMA PastFinite ==
    ASSUME CountOK, NEW name
    PROVE  /\ IsFiniteSet(Named(name, PastIn)) /\ IsFiniteSet(Named(name, PastOut))
           /\ IsFiniteSet(Named(name, PastIn \cap late))
           /\ IsFiniteSet(Named(name, PastOut \cap late))
           /\ Named(name, PastIn) \subseteq Requests /\ Named(name, PastOut) \subseteq Requests
           /\ Named(name, PastIn \cap late) \in SUBSET Named(name, PastIn)
           /\ Named(name, PastOut \cap late) \in SUBSET Named(name, PastOut)
<1>1. /\ Named(name, PastIn) \subseteq Recorded /\ Named(name, PastOut) \subseteq Recorded
      /\ Named(name, PastIn \cap late) \subseteq Recorded
      /\ Named(name, PastOut \cap late) \subseteq Recorded
  BY DEF Named, PastIn, PastOut, Past, Recorded
<1>2. /\ Named(name, PastIn) \subseteq Requests /\ Named(name, PastOut) \subseteq Requests
      /\ Named(name, PastIn \cap late) \in SUBSET Named(name, PastIn)
      /\ Named(name, PastOut \cap late) \in SUBSET Named(name, PastOut)
  BY DEF Named, PastIn, PastOut, Past
<1> QED
  BY <1>1, <1>2, FS_Subset DEF CountOK

(* The sums that BytesCounted is stated with.                              *)
LEMMA SumOfIn ==
    ASSUME NEW S \in SUBSET Requests, NEW name, IsFiniteSet(Named(name, S)), TypeInv
    PROVE  LET in(r) == Known(kind[r].length)
           IN  SumOf(in, name, S) = Total(Named(name, S), InBytes)
<1> DEFINE in(r) == Known(kind[r].length)
<1> DEFINE X == Named(name, S)
<1> DEFINE h == CHOOSE g : g = [s \in SUBSET X |->
                  IF s = {} THEN 0 ELSE in(Pick(s)) + g[s \ {Pick(s)}]]
<1>1. SumOf(in, name, S) = h[X]
  BY DEF SumOf, MapThenSumSet, MapThenFoldSet, Pick, Named
<1>2. X \in SUBSET Requests /\ \A x \in X : InBytes[x] \in Nat /\ InBytes[x] = in(x)
  BY BytesTypes DEF Named
<1>3. ASSUME NEW g
      PROVE  Folds(g, X, InBytes) <=>
                g = [s \in SUBSET X |-> IF s = {} THEN 0 ELSE in(Pick(s)) + g[s \ {Pick(s)}]]
  <2>1. \A s \in SUBSET X : s # {} => InBytes[Pick(s)] = in(Pick(s))
    BY <1>2, PickFacts
  <2> HIDE DEF X, in
  <2> QED
    BY <2>1 DEF Folds, Plus
<1> HIDE DEF X, in
<1>4. PICK g \in [SUBSET X -> Nat] : Folds(g, X, InBytes) /\ Total(X, InBytes) = g[X]
  BY <1>2, TotalChosen DEF X
<1>5. Folds(h, X, InBytes)
  BY <1>3, <1>4
<1> HIDE DEF h
<1>6. h[X] = g[X]
  BY <1>4, <1>5, FoldSame DEF X
<1> QED
  BY <1>1, <1>4, <1>6 DEF X, in

LEMMA SumOfOut ==
    ASSUME NEW S \in SUBSET Requests, NEW name, IsFiniteSet(Named(name, S)), TypeInv
    PROVE  SumOf(BodyOf, name, S) = Total(Named(name, S), OutBytes)
<1> DEFINE X == Named(name, S)
<1> DEFINE h == CHOOSE g : g = [s \in SUBSET X |->
                  IF s = {} THEN 0 ELSE BodyOf(Pick(s)) + g[s \ {Pick(s)}]]
<1>1. SumOf(BodyOf, name, S) = h[X]
  BY DEF SumOf, MapThenSumSet, MapThenFoldSet, Pick, Named
<1>2. X \in SUBSET Requests /\ \A x \in X : OutBytes[x] \in Nat /\ OutBytes[x] = BodyOf(x)
  BY BytesTypes DEF Named
<1>3. ASSUME NEW g
      PROVE  Folds(g, X, OutBytes) <=>
                g = [s \in SUBSET X |-> IF s = {} THEN 0 ELSE BodyOf(Pick(s)) + g[s \ {Pick(s)}]]
  <2>1. \A s \in SUBSET X : s # {} => OutBytes[Pick(s)] = BodyOf(Pick(s))
    BY <1>2, PickFacts
  <2> HIDE DEF X
  <2> QED
    BY <2>1 DEF Folds, Plus
<1> HIDE DEF X
<1>4. PICK g \in [SUBSET X -> Nat] : Folds(g, X, OutBytes) /\ Total(X, OutBytes) = g[X]
  BY <1>2, TotalChosen DEF X
<1>5. Folds(h, X, OutBytes)
  BY <1>3, <1>4
<1> HIDE DEF h
<1>6. h[X] = g[X]
  BY <1>4, <1>5, FoldSame DEF X
<1> QED
  BY <1>1, <1>4, <1>6 DEF X

(* A step that adds none: neither the requests that are past nor what they *)
(* came to have changed.                                                   *)
LEMMA NotAdded ==
    ASSUME TypeInv, CountOK, BytesOK, kind' = kind, bytes' = bytes,
           late' # {} => instruments' = "live",
           PastIn' = PastIn, PastOut' = PastOut,
           (PastIn \cap late)' = PastIn \cap late, (PastOut \cap late)' = PastOut \cap late,
           \A r \in Recorded : action'[r] = action[r],
           \A r \in PastOut : BodyOf(r)' = BodyOf(r),
           \A r \in Requests : WrittenOK(r)'
    PROVE  BytesOK'
<1>1. ASSUME NEW name \in Names PROVE InOK(name)' /\ OutOK(name)'
  <2>0. PastIn \subseteq Recorded /\ PastOut \subseteq Recorded /\ PastOut \subseteq Requests
    BY DEF PastIn, PastOut, Past, Recorded
  <2>1. /\ Named(name, PastIn)' = Named(name, PastIn)
        /\ Named(name, PastOut)' = Named(name, PastOut)
        /\ Named(name, PastIn \cap late)' = Named(name, PastIn \cap late)
        /\ Named(name, PastOut \cap late)' = Named(name, PastOut \cap late)
    BY <2>0 DEF Named
  <2>2. InBytes' = InBytes
    BY DEF InBytes
  <2>3. \A r \in Named(name, PastOut) : OutBytes[r] \in Nat /\ OutBytes[r] = OutBytes'[r]
    <3>1. \A r \in PastOut : OutBytes'[r] = BodyOf(r)'
      BY <2>0 DEF OutBytes
    <3>2. Named(name, PastOut) \subseteq PastOut
      BY DEF Named
    <3> QED
      BY <2>0, <3>1, <3>2, BytesTypes
  <2>4. InOK(name)'
    <3>1. InOK(name)
      BY DEF BytesOK
    <3> QED
      BY <2>1, <2>2, <3>1 DEF InOK
  <2>5. OutOK(name)'
    <3>1. InSum(Named(name, PastOut \cap late), bytes[<< name, "out" >>],
                Named(name, PastOut), OutBytes)
      BY DEF BytesOK, OutOK
    <3>2. InSum(Named(name, PastOut \cap late), bytes[<< name, "out" >>],
                Named(name, PastOut), OutBytes')
      BY <2>3, <3>1, PastFinite, SumKept
    <3> QED
      BY <2>1, <3>2 DEF OutOK
  <2> QED
    BY <2>4, <2>5
<1> QED
  BY <1>1 DEF BytesOK

(* What RecordRequest adds: all, unless the instruments take nothing yet.  *)
LEMMA AddedFacts ==
    ASSUME TypeInv, BytesOK, NEW r \in Requests, NEW d \in Directions, NEW n \in Nat,
           Added(r, d, n)
    PROVE  /\ bytes' \in [Names \X Directions -> Nat]
           /\ \A k \in Names \X Directions : k # << action[r].name, d >> => bytes'[k] = bytes[k]
           /\ LET k == << action[r].name, d >>
              IN  \/ bytes'[k] = bytes[k] + n
                  \/ bytes'[k] = bytes[k] /\ instruments # "live"
<1> DEFINE k == << action[r].name, d >>
<1>1. k \in Names \X Directions
  BY DEF TypeInv, ActionType
<1>2. bytes \in [Names \X Directions -> Nat]
  BY DEF BytesOK
<1>3. bytes[k] \in Nat /\ bytes[k] + n \in Nat /\ (~(n > 0) => bytes[k] + n = bytes[k])
  <2> DEFINE b == bytes[k]
  <2>1. b \in Nat
    BY <1>1, <1>2
  <2> HIDE DEF b
  <2>2. b \in Nat /\ b + n \in Nat /\ (~(n > 0) => b + n = b)
    BY <2>1
  <2> QED
    BY <2>2 DEF b
<1>4. bytes' = IF n > 0 /\ instruments = "live" THEN [bytes EXCEPT ![k] = bytes[k] + n] ELSE bytes
  BY DEF Added
<1> HIDE DEF k
<1>5. CASE n > 0 /\ instruments = "live"
  BY <1>1, <1>2, <1>3, <1>4, <1>5 DEF k
<1>6. CASE ~(n > 0 /\ instruments = "live")
  <2>1. bytes' = bytes
    BY <1>4, <1>6
  <2>2. bytes'[k] = bytes[k] + n \/ (bytes'[k] = bytes[k] /\ instruments # "live")
    BY <1>3, <1>6, <2>1
  <2> QED
    BY <1>2, <2>1, <2>2 DEF k
<1> QED
  BY <1>5, <1>6

(* The announced length of a request is added to those under its name.     *)
LEMMA InAdded ==
    ASSUME TypeInv, CountOK, BytesOK, NEW r \in Requests, CountBytesIn(r)
    PROVE  BytesOK'
<1>1. /\ pc[r] = "bytesIn" /\ pc' = [pc EXCEPT ![r] = "bytesOut"]
      /\ Added(r, "in", Known(kind[r].length))
      /\ UNCHANGED << kind, recorder, action, response, instruments, late >>
  BY DEF CountBytesIn, requestVars
<1>2. /\ r \notin PastIn /\ PastIn' = PastIn \cup {r} /\ PastOut' = PastOut
      /\ \A t \in Requests : WrittenOK(t)'
  <2>1. r \notin PastIn /\ PastIn' = PastIn \cup {r} /\ PastOut' = PastOut
    BY <1>1 DEF TypeInv, PastIn, PastOut, Past
  <2>2. ASSUME NEW t \in Requests PROVE WrittenOK(t)'
    BY <1>1, <2>2 DEF TypeInv, BytesOK, WrittenOK
  <2> QED
    BY <2>1, <2>2
<1>3. InBytes[r] \in Nat /\ InBytes[r] = Known(kind[r].length)
  BY BytesTypes
<1> DEFINE key == << action[r].name, "in" >>
<1>4. /\ bytes' \in [Names \X Directions -> Nat]
      /\ \A k \in Names \X Directions : k # key => bytes'[k] = bytes[k]
      /\ \/ bytes'[key] = bytes[key] + InBytes[r]
         \/ bytes'[key] = bytes[key] /\ instruments # "live"
  BY <1>1, <1>3, AddedFacts DEF Directions
<1>5. InBytes' = InBytes /\ OutBytes' = OutBytes
  BY <1>1 DEF InBytes, OutBytes, BodyOf
<1>6. ASSUME NEW name \in Names PROVE OutOK(name)'
  <2>1. /\ Named(name, PastOut)' = Named(name, PastOut)
        /\ Named(name, PastOut \cap late)' = Named(name, PastOut \cap late)
    BY <1>1, <1>2 DEF Named
  <2>2. << name, "out" >> \in Names \X Directions /\ << name, "out" >> # key
    BY DEF Directions
  <2>3. bytes'[<< name, "out" >>] = bytes[<< name, "out" >>]
    BY <1>4, <2>2
  <2>4. OutOK(name)
    BY DEF BytesOK
  <2> QED
    BY <1>5, <2>1, <2>3, <2>4 DEF OutOK
<1>7. ASSUME NEW name \in Names PROVE InOK(name)'
  <2> DEFINE N == Named(name, PastIn)  L == Named(name, PastIn \cap late)
  <2> DEFINE M == Named(name, PastIn \cap late)'
  <2> DEFINE b == bytes[<< name, "in" >>]  c == bytes'[<< name, "in" >>]
  <2>1. InSum(L, b, N, InBytes)
    BY DEF BytesOK, InOK
  <2>2. CASE action[r].name # name
    <3>1. Named(name, PastIn)' = N /\ M = L
      BY <1>1, <1>2, <2>2 DEF Named
    <3>2. << name, "in" >> \in Names \X Directions /\ << name, "in" >> # key
      BY <2>2 DEF Directions
    <3>3. c = b
      BY <1>4, <3>2
    <3> QED
      BY <1>5, <2>1, <3>1, <3>3 DEF InOK
  <2>3. CASE action[r].name = name
    <3>1. Named(name, PastIn)' = N \cup {r} /\ r \notin N
      BY <1>1, <1>2, <2>3 DEF Named
    <3>2. M = IF r \in late THEN L \cup {r} ELSE L
      BY <1>1, <1>2, <2>3 DEF Named
    <3>3. c = b + InBytes[r] \/ (c = b /\ instruments # "live")
      BY <1>4, <2>3
    <3>4. instruments # "live" => r \notin late
      BY DEF BytesOK
    <3>5. \/ c = b + InBytes[r] /\ M \in {L, L \cup {r}}
          \/ c = b /\ M = L
      BY <3>2, <3>3, <3>4
    <3>6. IsFiniteSet(N) /\ L \in SUBSET N /\ N \subseteq Requests
      BY PastFinite
    <3>7. \A x \in N \cup {r} : InBytes[x] \in Nat
      BY <3>6, BytesTypes
    <3>8. b \in Nat
      <4>1. << name, "in" >> \in Names \X Directions
        BY DEF Directions
      <4> QED
        BY <4>1 DEF BytesOK
    <3> HIDE DEF N, L, M, b, c
    <3>9. InSum(M, c, N \cup {r}, InBytes)
      BY <2>1, <3>1, <3>5, <3>6, <3>7, <3>8, SumGrows
    <3> QED
      BY <1>5, <3>1, <3>9 DEF InOK, M, c
  <2> QED
    BY <2>2, <2>3
<1>8. late' # {} => instruments' = "live"
  BY <1>1 DEF BytesOK
<1> QED
  BY <1>2, <1>4, <1>6, <1>7, <1>8 DEF BytesOK

(* And so are the bytes that the recorder has counted.                     *)
LEMMA OutAdded ==
    ASSUME TypeInv, CountOK, BytesOK, NEW r \in Requests, CountBytesOut(r)
    PROVE  BytesOK'
<1>1. /\ pc[r] = "bytesOut" /\ pc' = [pc EXCEPT ![r] = "end"]
      /\ Added(r, "out", recorder[r].written)
      /\ UNCHANGED << kind, recorder, action, response, instruments, late >>
  BY DEF CountBytesOut, requestVars
<1>2. /\ r \notin PastOut /\ PastOut' = PastOut \cup {r} /\ PastIn' = PastIn
      /\ \A t \in Requests : WrittenOK(t)'
  <2>1. r \notin PastOut /\ PastOut' = PastOut \cup {r} /\ PastIn' = PastIn
    BY <1>1 DEF TypeInv, PastOut, PastIn, Past
  <2>2. ASSUME NEW t \in Requests PROVE WrittenOK(t)'
    BY <1>1, <2>2 DEF TypeInv, BytesOK, WrittenOK
  <2> QED
    BY <2>1, <2>2
<1>3. OutBytes[r] \in Nat /\ OutBytes[r] = recorder[r].written
  <2>1. BodyOf(r) = recorder[r].written
    BY DEF BytesOK, WrittenOK, BodyOf
  <2> QED
    BY <2>1, BytesTypes
<1> DEFINE key == << action[r].name, "out" >>
<1>4. /\ bytes' \in [Names \X Directions -> Nat]
      /\ \A k \in Names \X Directions : k # key => bytes'[k] = bytes[k]
      /\ \/ bytes'[key] = bytes[key] + OutBytes[r]
         \/ bytes'[key] = bytes[key] /\ instruments # "live"
  BY <1>1, <1>3, AddedFacts DEF Directions
<1>5. OutBytes' = OutBytes /\ InBytes' = InBytes
  BY <1>1 DEF OutBytes, InBytes, BodyOf
<1>6. ASSUME NEW name \in Names PROVE InOK(name)'
  <2>1. /\ Named(name, PastIn)' = Named(name, PastIn)
        /\ Named(name, PastIn \cap late)' = Named(name, PastIn \cap late)
    BY <1>1, <1>2 DEF Named
  <2>2. << name, "in" >> \in Names \X Directions /\ << name, "in" >> # key
    BY DEF Directions
  <2>3. bytes'[<< name, "in" >>] = bytes[<< name, "in" >>]
    BY <1>4, <2>2
  <2>4. InOK(name)
    BY DEF BytesOK
  <2> QED
    BY <1>5, <2>1, <2>3, <2>4 DEF InOK
<1>7. ASSUME NEW name \in Names PROVE OutOK(name)'
  <2> DEFINE N == Named(name, PastOut)  L == Named(name, PastOut \cap late)
  <2> DEFINE M == Named(name, PastOut \cap late)'
  <2> DEFINE b == bytes[<< name, "out" >>]  c == bytes'[<< name, "out" >>]
  <2>1. InSum(L, b, N, OutBytes)
    BY DEF BytesOK, OutOK
  <2>2. CASE action[r].name # name
    <3>1. Named(name, PastOut)' = N /\ M = L
      BY <1>1, <1>2, <2>2 DEF Named
    <3>2. << name, "out" >> \in Names \X Directions /\ << name, "out" >> # key
      BY <2>2 DEF Directions
    <3>3. c = b
      BY <1>4, <3>2
    <3> QED
      BY <1>5, <2>1, <3>1, <3>3 DEF OutOK
  <2>3. CASE action[r].name = name
    <3>1. Named(name, PastOut)' = N \cup {r} /\ r \notin N
      BY <1>1, <1>2, <2>3 DEF Named
    <3>2. M = IF r \in late THEN L \cup {r} ELSE L
      BY <1>1, <1>2, <2>3 DEF Named
    <3>3. c = b + OutBytes[r] \/ (c = b /\ instruments # "live")
      BY <1>4, <2>3
    <3>4. instruments # "live" => r \notin late
      BY DEF BytesOK
    <3>5. \/ c = b + OutBytes[r] /\ M \in {L, L \cup {r}}
          \/ c = b /\ M = L
      BY <3>2, <3>3, <3>4
    <3>6. IsFiniteSet(N) /\ L \in SUBSET N /\ N \subseteq Requests
      BY PastFinite
    <3>7. \A x \in N \cup {r} : OutBytes[x] \in Nat
      BY <3>6, BytesTypes
    <3>8. b \in Nat
      <4>1. << name, "out" >> \in Names \X Directions
        BY DEF Directions
      <4> QED
        BY <4>1 DEF BytesOK
    <3> HIDE DEF N, L, M, b, c
    <3>9. InSum(M, c, N \cup {r}, OutBytes)
      BY <2>1, <3>1, <3>5, <3>6, <3>7, <3>8, SumGrows
    <3> QED
      BY <1>5, <3>1, <3>9 DEF OutOK, M, c
  <2> QED
    BY <2>2, <2>3
<1>8. late' # {} => instruments' = "live"
  BY <1>1 DEF BytesOK
<1> QED
  BY <1>2, <1>4, <1>6, <1>7, <1>8 DEF BytesOK

(* What the server has of a body, next to what the recorder counts.        *)
LEMMA BodyFacts ==
    ASSUME NEW w \in ResponseType, NEW n \in Nat, NEW head \in BOOLEAN, NEW code
    PROVE  /\ Bodied(w, n, head).body = w.body + (IF head THEN 0 ELSE n)
           /\ Headed(w, code).body = w.body /\ Implied(w).body = w.body
<1>1. Headed(w, code).body = w.body
  BY DEF Headed, ResponseType
<1>2. Implied(w).body = w.body /\ Implied(w) \in ResponseType
  BY ImpliedFacts
<1> DEFINE m == IF head THEN 0 ELSE n
<1>3. Bodied(w, n, head) = [Implied(w) EXCEPT !.body = Implied(w).body + m]
  BY DEF Bodied
<1> HIDE DEF m
<1>4. Bodied(w, n, head).body = w.body + m
  BY <1>2, <1>3 DEF ResponseType
<1> QED
  BY <1>1, <1>2, <1>4 DEF m

(* The handler and the middleware leave WrittenOK as it is.                *)
LEMMA WrittenKept ==
    ASSUME RequestOK, BytesOK, NEW r \in Requests, HandlerStep(r) \/ MiddlewareStep(r)
    PROVE  \A t \in Requests : WrittenOK(t)'
<1>0. TypeInv /\ WrittenOK(r) /\ kind' = kind
      /\ recorder[r] \in RecorderType /\ response[r] \in ResponseType
      /\ kind[r].head \in BOOLEAN
  <2>1. kind' = kind
    BY DEF HandlerStep, MiddlewareStep, WriteHeader, Write, ReadFrom, Flush, Hijack,
       SetRequestAction, SetRequestErrorCode, HandlerPanics, Handling, Begin, HandlerReturns,
       Count, CountBytesIn, CountBytesOut, End, requestVars
  <2> QED
    BY <2>1, KindsAssumption DEF RequestOK, TypeInv, BytesOK
<1>1. ASSUME NEW t \in Requests, t # r PROVE WrittenOK(t)'
  <2>1. pc'[t] = pc[t] /\ recorder'[t] = recorder[t] /\ response'[t] = response[t]
    <3>1. CASE WriteHeader(r) \/ Write(r) \/ ReadFrom(r)
      BY <1>0, <1>1, <3>1 DEF WriteHeader, Write, ReadFrom, Handling, requestVars, TypeInv
    <3>2. CASE Flush(r) \/ Hijack(r) \/ HandlerPanics(r)
      BY <1>0, <1>1, <3>2 DEF Flush, Hijack, HandlerPanics, Handling, requestVars, TypeInv
    <3>3. CASE SetRequestAction(r) \/ SetRequestErrorCode(r)
      BY <1>0, <1>1, <3>3 DEF SetRequestAction, SetRequestErrorCode, Handling, requestVars, TypeInv
    <3>4. CASE MiddlewareStep(r)
      BY <1>0, <1>1, <3>4 DEF MiddlewareStep, Begin, HandlerReturns, Count, CountBytesIn,
         CountBytesOut, End, requestVars, TypeInv
    <3> QED
      BY <3>1, <3>2, <3>3, <3>4 DEF HandlerStep
  <2> QED
    BY <1>0, <1>1, <2>1 DEF BytesOK, WrittenOK
<1>2. pc'[r] # "new"
  BY <1>0 DEF HandlerStep, MiddlewareStep, WriteHeader, Write, ReadFrom, Flush, Hijack,
     SetRequestAction, SetRequestErrorCode, HandlerPanics, Handling, Begin, HandlerReturns,
     Count, CountBytesIn, CountBytesOut, End, TypeInv
<1>3. ASSUME ~kind[r].head PROVE recorder'[r].written = response'[r].body
  <2>0. recorder[r].written = response[r].body /\ (pc[r] = "new" => response[r].body = 0)
    BY <1>0, <1>3 DEF WrittenOK
  <2>1. CASE WriteHeader(r)
    <3>1. PICK code \in Codes : /\ recorder' = [recorder EXCEPT ![r].status = code]
                                /\ response' = [response EXCEPT ![r] = Headed(@, code)]
      BY <2>1 DEF WriteHeader
    <3>2. response'[r] = Headed(response[r], code)
      BY <1>0, <3>1 DEF TypeInv
    <3>3. recorder'[r].written = recorder[r].written
      BY <1>0, <3>1 DEF TypeInv, RecorderType
    <3>4. Headed(response[r], code).body = response[r].body
      BY <1>0, BodyFacts
    <3> QED
      BY <2>0, <3>2, <3>3, <3>4
  <2>2. CASE Write(r) \/ ReadFrom(r)
    <3>1. PICK size \in Sizes : \E n \in Taken(response[r], size) :
            /\ response' = [response EXCEPT ![r] = Bodied(@, n, kind[r].head)]
            /\ recorder' = [recorder EXCEPT ![r].written = @ + n]
      BY <2>2 DEF Write, ReadFrom
    <3>2. PICK n \in Taken(response[r], size) :
            /\ response' = [response EXCEPT ![r] = Bodied(@, n, kind[r].head)]
            /\ recorder' = [recorder EXCEPT ![r].written = @ + n]
      BY <3>1
    <3>3. n \in Nat
      BY <1>0, TakenFacts
    <3>4. response'[r] = Bodied(response[r], n, kind[r].head)
      BY <1>0, <3>2 DEF TypeInv
    <3>5. recorder'[r].written = recorder[r].written + n
      BY <1>0, <3>2 DEF TypeInv, RecorderType
    <3>6. Bodied(response[r], n, kind[r].head).body = response[r].body + n
      BY <1>0, <1>3, <3>3, BodyFacts
    <3> QED
      BY <2>0, <3>4, <3>5, <3>6
  <2>3. CASE Flush(r) \/ End(r)
    <3>1. response'[r] = Implied(response[r]) /\ recorder' = recorder
      BY <1>0, <2>3 DEF Flush, End, TypeInv
    <3>2. Implied(response[r]).body = response[r].body
      BY <1>0, ImpliedFacts
    <3> QED
      BY <2>0, <3>1, <3>2
  <2>4. CASE Hijack(r)
    <3>1. recorder' = recorder /\ response'[r].body = response[r].body
      BY <1>0, <2>4 DEF Hijack, TypeInv, ResponseType
    <3> QED
      BY <2>0, <3>1
  <2>5. CASE Begin(r)
    <3>1. recorder'[r] = FreshRecorder /\ response' = response /\ pc[r] = "new"
      BY <1>0, <2>5 DEF Begin, TypeInv
    <3> QED
      BY <2>0, <3>1 DEF FreshRecorder
  <2>6. CASE \/ SetRequestAction(r) \/ SetRequestErrorCode(r) \/ HandlerPanics(r)
             \/ HandlerReturns(r) \/ Count(r) \/ CountBytesIn(r) \/ CountBytesOut(r)
    <3>1. recorder' = recorder /\ response' = response
      BY <2>6 DEF SetRequestAction, SetRequestErrorCode, HandlerPanics, HandlerReturns, Count,
         CountBytesIn, CountBytesOut, requestVars
    <3> QED
      BY <2>0, <3>1
  <2> QED
    BY <2>1, <2>2, <2>3, <2>4, <2>5, <2>6 DEF HandlerStep, MiddlewareStep
<1>4. WrittenOK(r)'
  BY <1>0, <1>2, <1>3 DEF WrittenOK
<1> QED
  BY <1>1, <1>4

(* Every step keeps BytesOK.                                               *)
LEMMA BytesStep == RequestOK /\ CountOK /\ BytesOK /\ [Next]_vars => BytesOK'
<1> SUFFICES ASSUME RequestOK, CountOK, BytesOK, [Next]_vars PROVE BytesOK'
  OBVIOUS
<1>0. TypeInv /\ PastOut \subseteq Requests
  BY DEF RequestOK, PastOut, Past
<1>1. ASSUME NEW r \in Requests, HandlerStep(r) \/ Begin(r) \/ HandlerReturns(r) \/ End(r)
      PROVE  BytesOK'
  <2>1. UNCHANGED << kind, bytes, late, instruments >>
    BY <1>1 DEF HandlerStep, WriteHeader, Write, ReadFrom, Flush, Hijack, SetRequestAction,
       SetRequestErrorCode, HandlerPanics, Handling, Begin, HandlerReturns, End, meterVars
  <2>2. /\ pc'[r] \in {"end", "left"} <=> pc[r] \in {"end", "left"}
        /\ pc'[r] \in {"bytesOut", "end", "left"} <=> pc[r] \in {"bytesOut", "end", "left"}
        /\ \A t \in Requests : t # r => pc'[t] = pc[t]
    BY <1>0, <1>1, ZenonT(60) DEF HandlerStep, WriteHeader, Write, ReadFrom, Flush, Hijack, SetRequestAction,
       SetRequestErrorCode, HandlerPanics, Handling, Begin, HandlerReturns, End, TypeInv
  <2>3. PastIn' = PastIn /\ PastOut' = PastOut
    BY <2>2 DEF PastIn, PastOut, Past
  <2>4. /\ r \in Recorded => recorder'[r] = recorder[r] /\ action'[r] = action[r]
        /\ \A t \in Requests : t # r => /\ recorder'[t] = recorder[t] /\ action'[t] = action[t]
                                       /\ response'[t] = response[t]
    BY <1>0, <1>1 DEF HandlerStep, WriteHeader, Write, ReadFrom, Flush, Hijack, SetRequestAction,
       SetRequestErrorCode, HandlerPanics, Handling, Begin, HandlerReturns, End,
       TypeInv, Recorded, Past
  <2>5. r \in PastOut => recorder'[r] = recorder[r] /\ response'[r].body = response[r].body
    <3>1. r \in PastOut => End(r)
      BY <1>1 DEF HandlerStep, WriteHeader, Write, ReadFrom, Flush, Hijack, SetRequestAction,
       SetRequestErrorCode, HandlerPanics, Handling, Begin, HandlerReturns, End, PastOut, Past
    <3>2. End(r) => response'[r] = Implied(response[r]) /\ recorder' = recorder
      BY <1>0 DEF End, TypeInv
    <3>3. Implied(response[r]).body = response[r].body
      BY <1>0, ImpliedFacts DEF TypeInv
    <3> QED
      BY <3>1, <3>2, <3>3
  <2>6. \A t \in PastOut : BodyOf(t)' = BodyOf(t)
    BY <1>0, <2>1, <2>4, <2>5 DEF BodyOf
  <2>7. \A t \in Recorded : action'[t] = action[t]
    BY <2>4 DEF Recorded, Past
  <2>8. \A t \in Requests : WrittenOK(t)'
    BY <1>1, WrittenKept DEF MiddlewareStep
  <2>9. late' # {} => instruments' = "live"
    BY <2>1 DEF BytesOK
  <2> QED
    BY <1>0, <2>1, <2>3, <2>6, <2>7, <2>8, <2>9, NotAdded
<1>2. ASSUME NEW r \in Requests, Count(r) PROVE BytesOK'
  <2>1. /\ pc[r] = "count" /\ pc' = [pc EXCEPT ![r] = "bytesIn"] /\ instruments' = Created
        /\ UNCHANGED << kind, recorder, action, response, bytes >>
        /\ late' = IF "meter" \in providers THEN late \cup {r} ELSE late
    BY <1>2 DEF Count, requestVars
  <2>2. r \notin PastIn /\ r \notin PastOut /\ PastIn' = PastIn /\ PastOut' = PastOut
    BY <1>0, <2>1 DEF TypeInv, PastIn, PastOut, Past
  <2>3. (PastIn \cap late)' = PastIn \cap late /\ (PastOut \cap late)' = PastOut \cap late
    BY <2>1, <2>2
  <2>4. late' # {} => instruments' = "live"
    BY <1>0, <2>1 DEF Created, BytesOK, CountOK, TypeInv
  <2>5. \A t \in PastOut : BodyOf(t)' = BodyOf(t)
    BY <2>1 DEF BodyOf
  <2>6. \A t \in Requests : WrittenOK(t)'
    BY <1>2, WrittenKept DEF MiddlewareStep
  <2> QED
    BY <1>0, <2>1, <2>2, <2>3, <2>4, <2>5, <2>6, NotAdded
<1>3. CASE InstallTracer \/ InstallMeter \/ UNCHANGED vars
  <2>1. UNCHANGED << pc, kind, recorder, action, response, bytes, late >>
    BY <1>3 DEF InstallTracer, InstallMeter, vars, requestVars, meterVars
  <2>2. late' # {} => instruments' = "live"
    BY <1>3 DEF InstallTracer, InstallMeter, vars, requestVars, meterVars, BytesOK
  <2>3. PastIn' = PastIn /\ PastOut' = PastOut
    BY <2>1 DEF PastIn, PastOut, Past
  <2>4. /\ \A t \in PastOut : BodyOf(t)' = BodyOf(t)
        /\ \A t \in Requests : WrittenOK(t)'
    BY <2>1 DEF BodyOf, WrittenOK, BytesOK
  <2> QED
    BY <1>0, <2>1, <2>2, <2>3, <2>4, NotAdded
<1> QED
  BY <1>0, <1>1, <1>2, <1>3, InAdded, OutAdded DEF Next, MiddlewareStep

(* The proved form of BytesCounted: by action and direction, no request    *)
(* twice and none missed that is recorded once the meter provider is       *)
(* there, for any number of requests, any lengths, and however the server  *)
(* takes what the handlers write.                                          *)
THEOREM BytesCountedRight == Spec => []BytesCounted
<1>1. Init => BytesOK
  <2> SUFFICES ASSUME Init PROVE BytesOK
    OBVIOUS
  <2>1. PastIn = {} /\ PastOut = {} /\ late = {}
    BY DEF Init, PastIn, PastOut, Past
  <2>2. \A r \in Requests : WrittenOK(r)
    BY DEF Init, WrittenOK, FreshRecorder
  <2>3. /\ bytes \in [Names \X Directions -> Nat]
        /\ \A k \in Names \X Directions : bytes[k] = 0
    BY DEF Init
  <2>4. \A f : Total({}, f) = 0
    BY TotalFacts, FS_EmptySet
  <2>5. ASSUME NEW name \in Names PROVE InOK(name) /\ OutOK(name)
    <3>1. /\ Named(name, PastIn) = {} /\ Named(name, PastIn \cap late) = {}
          /\ Named(name, PastOut) = {} /\ Named(name, PastOut \cap late) = {}
      BY <2>1 DEF Named
    <3>2. bytes[<< name, "in" >>] = 0 /\ bytes[<< name, "out" >>] = 0
      BY <2>3 DEF Directions
    <3> QED
      BY <2>4, <3>1, <3>2 DEF InOK, OutOK, InSum, Between
  <2> QED
    BY <2>1, <2>2, <2>3, <2>5 DEF BytesOK
<1>2. RequestOK /\ CountOK /\ BytesOK => BytesCounted
  <2> SUFFICES ASSUME RequestOK, CountOK, BytesOK PROVE BytesCounted
    OBVIOUS
  <2> DEFINE in(r) == Known(kind[r].length)
  <2>0. TypeInv /\ PastIn \subseteq Requests /\ PastOut \subseteq Requests
    BY DEF RequestOK, PastIn, PastOut, Past
  <2>1. ASSUME NEW name \in Names
        PROVE  /\ Between(SumOf(in, name, PastIn \cap late), bytes[<< name, "in" >>],
                          SumOf(in, name, PastIn))
               /\ Between(SumOf(BodyOf, name, PastOut \cap late), bytes[<< name, "out" >>],
                          SumOf(BodyOf, name, PastOut))
    <3>1. /\ IsFiniteSet(Named(name, PastIn)) /\ IsFiniteSet(Named(name, PastOut))
          /\ IsFiniteSet(Named(name, PastIn \cap late))
          /\ IsFiniteSet(Named(name, PastOut \cap late))
      BY PastFinite
    <3>2. /\ SumOf(in, name, PastIn \cap late) = Total(Named(name, PastIn \cap late), InBytes)
          /\ SumOf(in, name, PastIn) = Total(Named(name, PastIn), InBytes)
      BY <2>0, <3>1, SumOfIn
    <3>3. /\ SumOf(BodyOf, name, PastOut \cap late) = Total(Named(name, PastOut \cap late), OutBytes)
          /\ SumOf(BodyOf, name, PastOut) = Total(Named(name, PastOut), OutBytes)
      BY <2>0, <3>1, SumOfOut
    <3>4. InOK(name) /\ OutOK(name)
      BY DEF BytesOK
    <3> HIDE DEF in
    <3> QED
      BY <3>2, <3>3, <3>4 DEF InOK, OutOK, InSum
  <2> QED
    BY <2>1, Zenon DEF BytesCounted, PastIn, PastOut
<1> QED
  BY <1>1, <1>2, BytesStep, CountAlways, Invariance, PTL DEF Spec
=============================================================================
