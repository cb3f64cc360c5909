--------------------------- MODULE HTTPMiddleware ---------------------------
(***************************************************************************)
(* The HTTP telemetry of pkg/otelsetup: HTTPMiddleware wraps the server's  *)
(* ResponseWriter in a statusRecorder, opens a span, runs the handler and  *)
(* records the request on instruments that all requests share.  Init may   *)
(* install the real providers while requests are under way.                *)
(*                                                                         *)
(* The server under the recorder (net/http) and the OpenTelemetry SDK are  *)
(* external: `response' and `span' hold what they are left with.           *)
(***************************************************************************)
EXTENDS Integers, FiniteSets, FiniteSetsExt, Bags

CONSTANTS
    Requests,       \* the requests served, each by a goroutine of its own
    Kinds,          \* [untraced, length, http1, head]; length -1 is unknown
    Codes,          \* the status codes handlers write
    Sizes,          \* the sizes of what handlers write
    ActionNames, ErrorCodes,
    MaxCalls        \* bound: the calls each request's handler makes

ASSUME KindsAssumption ==
    Kinds \subseteq [untraced : BOOLEAN, length : Int, http1 : BOOLEAN, head : BOOLEAN]
ASSUME LengthsAssumption == \A k \in Kinds : k.length >= -1
(* net/http panics on any other.                                           *)
ASSUME CodesAssumption == Codes \subseteq 100 .. 999
ASSUME SizesAssumption == Sizes \subseteq Nat /\ MaxCalls \in [Requests -> Nat]

VARIABLES
    pc,             \* where each request's goroutine stands
    kind,           \* what is asked
    recorder,       \* statusRecorder: [status, written]
    action,         \* requestAction: [name, errorCode]
    response,       \* the server's: [status, body, hijacked, idle]
    span,           \* the request's own: [state, status, error]
    calls,          \* the calls its handler has made
    providers,      \* the global providers Init has installed
    instruments,    \* "none", "waiting" for a provider, or "live"
    counter,        \* mulga.requests: a bag of attribute sets
    bytes,          \* mulga.request.bytes, by action and direction
    late            \* history: recorded from the start with a live provider

requestVars == << kind, recorder, action, response, span, calls >>
meterVars == << providers, instruments, counter, bytes, late >>
vars == << pc, requestVars, meterVars >>

Names == {"METHOD", "METHOD path"} \cup ActionNames
Directions == {"in", "out"}
NoSpan == [state |-> "none", status |-> 0, error |-> FALSE]
----------------------------------------------------------------------------
(* What the server does with a call (external).  A code below 200 but 101  *)
(* is informational, and the first other one decides.  `idle' says that    *)
(* the last WriteHeader was none that decided.                             *)
Informational(code) == code \in 100 .. 199 /\ code # 101
BodyAllowed(code) == code >= 200 /\ code \notin {204, 304}

Headed(w, code) ==
    IF w.hijacked \/ w.status # 0 \/ Informational(code) THEN [w EXCEPT !.idle = TRUE]
    ELSE [w EXCEPT !.status = code, !.idle = FALSE]

Implied(w) == IF w.hijacked \/ w.status # 0 THEN w ELSE [w EXCEPT !.status = 200]

(* How many of the bytes the server may say it took; the connection may    *)
(* break at any of them.                                                   *)
Taken(w, size) ==
    IF w.hijacked \/ ~BodyAllowed(Implied(w).status) THEN {0} ELSE 0 .. size

Bodied(w, n, head) == [Implied(w) EXCEPT !.body = @ + (IF head THEN 0 ELSE n)]
----------------------------------------------------------------------------
(* The middleware up to the handler.  An untraced path opens no span.      *)
ZeroRecorder == [status |-> 0, written |-> 0]   \* mutant: no status until one is written
FreshRecorder == [status |-> 200, written |-> 0]

Begin(r) ==
    /\ pc[r] = "new"
    /\ pc' = [pc EXCEPT ![r] = "handler"]
    /\ action' = [action EXCEPT ![r].name = IF kind[r].untraced THEN "METHOD path" ELSE "METHOD"]
    /\ span' = [span EXCEPT ![r].state =
                   IF ~kind[r].untraced /\ "tracer" \in providers THEN "open" ELSE "none"]
    /\ recorder' = [recorder EXCEPT ![r] = FreshRecorder]
    /\ UNCHANGED << kind, response, calls, meterVars >>

(* The handler's calls on the recorder.                                    *)
Handling(r) ==
    /\ pc[r] = "handler" /\ calls[r] < MaxCalls[r]
    /\ calls' = [calls EXCEPT ![r] = @ + 1]
    /\ UNCHANGED << pc, kind, span, meterVars >>

WriteHeader(r) ==
    /\ Handling(r)
    /\ \E code \in Codes :
          /\ recorder' = [recorder EXCEPT ![r].status = code]
          /\ response' = [response EXCEPT ![r] = Headed(@, code)]
    /\ UNCHANGED action

Write(r) ==
    /\ Handling(r)
    /\ \E size \in Sizes : \E n \in Taken(response[r], size) :
          /\ response' = [response EXCEPT ![r] = Bodied(@, n, kind[r].head)]
          /\ recorder' = [recorder EXCEPT ![r].written = @ + n]
    /\ UNCHANGED action

(* ReadFrom: the writer's own for HTTP/1, a copy of the source into the    *)
(* wrapped writer otherwise.  A source that is empty writes nothing.       *)
CopyThroughRecorder(r) ==               \* mutant: the copy is counted by Write as well
    /\ Handling(r)
    /\ \E size \in Sizes \ {0} : \E n \in Taken(response[r], size) :
          /\ response' = [response EXCEPT ![r] = Bodied(@, n, kind[r].head)]
          /\ recorder' = [recorder EXCEPT ![r].written =
                             @ + (IF kind[r].http1 THEN n ELSE 2 * n)]
    /\ UNCHANGED action

ReadFrom(r) ==
    /\ Handling(r)
    /\ \E size \in Sizes \ {0} : \E n \in Taken(response[r], size) :
          /\ response' = [response EXCEPT ![r] = Bodied(@, n, kind[r].head)]
          /\ recorder' = [recorder EXCEPT ![r].written = @ + n]
    /\ UNCHANGED action

Flush(r) ==
    /\ Handling(r)
    /\ response' = [response EXCEPT ![r] = Implied(@)]
    /\ UNCHANGED << recorder, action >>

(* Only a connection of HTTP/1 can be taken over.                          *)
Hijack(r) ==
    /\ Handling(r)
    /\ response' = [response EXCEPT ![r].hijacked = @ \/ kind[r].http1]
    /\ UNCHANGED << recorder, action >>

(* The empty string leaves the name or the code as it is.                  *)
SetRequestAction(r) ==
    /\ Handling(r)
    /\ \E a \in ActionNames : action' = [action EXCEPT ![r].name = IF a = "" THEN @ ELSE a]
    /\ UNCHANGED << recorder, response >>

SetRequestErrorCode(r) ==
    /\ Handling(r)
    /\ \E e \in ErrorCodes : action' = [action EXCEPT ![r].errorCode = IF e = "" THEN @ ELSE e]
    /\ UNCHANGED << recorder, response >>

(* A panic unwinds through the deferred End alone.                         *)
PanicKeepsSpan(r) ==                    \* mutant: End is not deferred
    /\ pc[r] = "handler"
    /\ pc' = [pc EXCEPT ![r] = "panicked"]
    /\ UNCHANGED << requestVars, meterVars >>

Ended(s) == IF s.state = "open" THEN [s EXCEPT !.state = "ended"] ELSE s

HandlerPanics(r) ==
    /\ pc[r] = "handler"
    /\ pc' = [pc EXCEPT ![r] = "panicked"]
    /\ span' = [span EXCEPT ![r] = Ended(@)]
    /\ UNCHANGED << kind, recorder, action, response, calls, meterVars >>
----------------------------------------------------------------------------
(* The middleware after the handler.                                       *)
HandlerReturns(r) ==
    /\ pc[r] = "handler"
    /\ pc' = [pc EXCEPT ![r] = "count"]
    /\ span' = [span EXCEPT ![r] =
                   IF @.state # "open" THEN @
                   ELSE [@ EXCEPT !.status = recorder[r].status,
                                  !.error = recorder[r].status >= 500]]
    /\ UNCHANGED << kind, recorder, action, response, calls, meterVars >>

OutcomeForStatus(status) ==
    CASE status >= 500 -> "error"
      [] status \in 400 .. 499 -> "client_error"
      [] OTHER -> "success"

Attributes(r) ==
    [action |-> action[r].name, outcome |-> OutcomeForStatus(recorder[r].status),
     status |-> recorder[r].status, errorCode |-> action[r].errorCode]

(* RecordRequest.  The first request to come creates the instruments       *)
(* (instrumentsOnce); one that has no provider yet takes nothing.          *)
Created == IF instruments # "none" THEN instruments
           ELSE IF "meter" \in providers THEN "live" ELSE "waiting"

Count(r) ==
    /\ pc[r] = "count"
    /\ pc' = [pc EXCEPT ![r] = "bytesIn"]
    /\ instruments' = Created
    /\ counter' = IF instruments' = "live" THEN counter (+) SetToBag({Attributes(r)}) ELSE counter
    /\ late' = IF "meter" \in providers THEN late \cup {r} ELSE late
    /\ UNCHANGED << requestVars, providers, bytes >>

Added(r, direction, n) ==
    bytes' = IF n > 0 /\ instruments = "live"
             THEN [bytes EXCEPT ![<< action[r].name, direction >>] = @ + n] ELSE bytes

(* reqBytes.                                                               *)
Known(length) == IF length > 0 THEN length ELSE 0

CountBytesIn(r) ==
    /\ pc[r] = "bytesIn"
    /\ pc' = [pc EXCEPT ![r] = "bytesOut"]
    /\ Added(r, "in", Known(kind[r].length))
    /\ UNCHANGED << requestVars, providers, instruments, counter, late >>

CountBytesOut(r) ==
    /\ pc[r] = "bytesOut"
    /\ pc' = [pc EXCEPT ![r] = "end"]
    /\ Added(r, "out", recorder[r].written)
    /\ UNCHANGED << requestVars, providers, instruments, counter, late >>

(* The deferred End, and the server's own 200 if no status was written.    *)
End(r) ==
    /\ pc[r] = "end"
    /\ pc' = [pc EXCEPT ![r] = "left"]
    /\ span' = [span EXCEPT ![r] = Ended(@)]
    /\ response' = [response EXCEPT ![r] = Implied(@)]
    /\ UNCHANGED << kind, recorder, action, calls, meterVars >>
----------------------------------------------------------------------------
(* Init installs the tracer provider, then the meter provider, to which    *)
(* the instruments that exist already delegate from then on.               *)
InstallTracer ==
    /\ providers = {}
    /\ providers' = {"tracer"}
    /\ UNCHANGED << pc, requestVars, instruments, counter, bytes, late >>

InstallUndelegated ==                   \* mutant: existing instruments stay as they are
    /\ providers = {"tracer"}
    /\ providers' = {"tracer", "meter"}
    /\ UNCHANGED << pc, requestVars, instruments, counter, bytes, late >>

InstallMeter ==
    /\ providers = {"tracer"}
    /\ providers' = {"tracer", "meter"}
    /\ instruments' = IF instruments = "waiting" THEN "live" ELSE instruments
    /\ UNCHANGED << pc, requestVars, counter, bytes, late >>
----------------------------------------------------------------------------
Init ==
    /\ pc = [r \in Requests |-> "new"]
    /\ kind \in [Requests -> Kinds]
    /\ recorder = [r \in Requests |-> FreshRecorder]
    /\ action = [r \in Requests |-> [name |-> "METHOD", errorCode |-> ""]]
    /\ response = [r \in Requests |->
                     [status |-> 0, body |-> 0, hijacked |-> FALSE, idle |-> FALSE]]
    /\ span = [r \in Requests |-> NoSpan]
    /\ calls = [r \in Requests |-> 0]
    /\ providers = {} /\ instruments = "none"
    /\ counter = EmptyBag
    /\ bytes = [k \in Names \X Directions |-> 0]
    /\ late = {}

HandlerStep(r) ==
    \/ WriteHeader(r) \/ Write(r) \/ ReadFrom(r) \/ Flush(r) \/ Hijack(r)
    \/ SetRequestAction(r) \/ SetRequestErrorCode(r)
    \/ HandlerPanics(r)

MiddlewareStep(r) ==
    \/ Begin(r) \/ HandlerReturns(r) \/ Count(r)
    \/ CountBytesIn(r) \/ CountBytesOut(r) \/ End(r)

(* All requests have been served.                                          *)
Finished == \A r \in Requests : pc[r] \in {"left", "panicked"}

Next ==
    \/ \E r \in Requests : HandlerStep(r) \/ MiddlewareStep(r)
    \/ InstallTracer \/ InstallMeter
    \/ Finished /\ UNCHANGED vars

Spec == Init /\ [][Next]_vars
----------------------------------------------------------------------------
(* The status that is recorded is the one the client got, however it came  *)
(* about: written, implied by a body or a flush, or left to the server.    *)
(* Excepted are a connection taken over, and a handler whose last          *)
(* WriteHeader decided nothing (http.go, statusRecorder).                  *)
StatusIsSent ==
    \A r \in Requests :
        pc[r] = "left" /\ ~response[r].hijacked /\ ~response[r].idle =>
            recorder[r].status = response[r].status

(* No span stays open, a panic of the handler included, and the span of a  *)
(* request that was served tells its status, as an error from 500 on       *)
(* (http.go, HTTPMiddleware).                                              *)
SpanIsTold ==
    \A r \in Requests :
        /\ pc[r] \in {"left", "panicked"} => span[r].state # "open"
        /\ pc[r] = "left" /\ span[r].state = "ended" =>
              /\ span[r].status = recorder[r].status
              /\ span[r].error = (recorder[r].status >= 500)

Past(places) == { r \in Requests : pc[r] \in places }
Between(low, n, high) == low <= n /\ n <= high
Counted(a) == IF BagIn(a, counter) THEN counter[a] ELSE 0

(* mulga.requests counts a request at most once and under what it came to; *)
(* it misses none that is recorded after Init has installed the meter      *)
(* provider, whether the instruments were created before that or after     *)
(* (metrics.go, requestInstruments and RecordRequest).                     *)
RequestsCounted ==
    LET past == Past({"bytesIn", "bytesOut", "end", "left"})
    IN  \A a \in { Attributes(r) : r \in past } \cup BagToSet(counter) :
            Between(Cardinality({ r \in past \cap late : Attributes(r) = a }),
                    Counted(a),
                    Cardinality({ r \in past : Attributes(r) = a }))

(* The bytes of a body the client got; for HEAD, those the server dropped. *)
BodyOf(r) == IF kind[r].head THEN recorder[r].written ELSE response[r].body

SumOf(size(_), name, requests) ==
    MapThenSumSet(size, { r \in requests : action[r].name = name })

(* mulga.request.bytes holds, by action, the announced length of the       *)
(* requests and the bytes the server took of the responses, of every       *)
(* request recorded since the provider is there and of no request twice    *)
(* (http.go, Write and ReadFrom; metrics.go, RecordRequest).               *)
BytesCounted ==
    LET in(r) == Known(kind[r].length)
        pastIn == Past({"bytesOut", "end", "left"})
        pastOut == Past({"end", "left"})
    IN  \A name \in Names :
            /\ Between(SumOf(in, name, pastIn \cap late), bytes[name, "in"],
                       SumOf(in, name, pastIn))
            /\ Between(SumOf(BodyOf, name, pastOut \cap late), bytes[name, "out"],
                       SumOf(BodyOf, name, pastOut))
=============================================================================
