# Verification of bluebottle

Bluebottle is a Go library shared by the services of one cloud: request
authentication (`pkg/sigv4`), authorisation (`pkg/iampolicy`), rate limiting
(`pkg/ratelimit`), telemetry (`pkg/otelsetup`), and small helpers. This
directory holds TLA+ modules that model its core, TLC configurations that check
them on small instances, and proofs that TLAPS checks.

A request meets the library in this order: the telemetry middleware opens its
span, `sigv4.Parse` and `Verify` authenticate it and bind its body, the
throttler draws a token for its account and action, `iampolicy.Evaluate`
decides whether the principal may act, and the handler reads the body through
the reader that `Verify` left behind. The parts share no state but the request:
each is modelled by itself with the others as its environment.

## Inventory

| Part | Source | State | Operations | What is hard | Correct when |
|---|---|---|---|---|---|
| Rate limiter | `ratelimit/ratelimit.go`, `config.go` | map of buckets with `lastSeen`; collector goroutine; cancellation | `Middleware`, `getOrCreate`, `gc`, `Stop` | requests, collector and `Stop` interleave; clock read outside the lock; cancelled reservations | one bucket per key, rate held across evictions, refusals deserved, `Stop` waits |
| Policy evaluator | `iampolicy/evaluator.go`, `conditions.go` | none (a scan over documents) | `EvaluateWithKeys` | negation of fail-closed, variables that do not resolve, older versions, order of statements | deny wins; what is not understood only narrows |
| Pattern matching and variables | `iampolicy/match.go`, `variables.go` | the scan's position and backtrack point | `matchPattern`, `matchARN`, `expandVariables`, `matchGlob`, `UnresolvableVariable` | one backtrack point; substituted wildcards, escapes and colons; references without an end; a write path that scans apart from the evaluator | a pattern selects what it means, the scan ends, both scans agree |
| Policy documents | `iampolicy/types.go` | none | read and write lists | null, empty and single values | reading inverts writing |
| Condition values | `iampolicy/numbers.go`, `dates.go` | none | parse and compare | many digits, 32-bit scales, one instant spelt twice, malformed values | comparisons exact, both clocks agree |
| Payload binding | `sigv4/payload.go`, `resolveContentHash` in `parse.go` | hash so far, bytes owed, failure kept | `bindPayload`, `verifiedBody.Read` | transport cuts or breaks off in any chunking; error together with bytes; unknown length | complete means signed; honest bodies served |
| Request admission | `sigv4/parse.go`, `verify.go`, `sigv4.go` | none but the clock | `Parse`, `Verify` | late, repeated and rewritten requests; clock skew; wrapping arithmetic; two forms | accepted means signed, and in the window |
| Telemetry start-up and logging | `otelsetup/otelsetup.go`, `slog.go` | global providers, default logger, remembered configuration, level | `Init`, shutdown, `SetDefaultJSONLogger`, `SetLevel`, handlers | partial failure; overlap of set-up calls; level changing under a record | nothing leaks; default is bridged; sinks agree |
| HTTP telemetry middleware | `otelsetup/http.go`, `metrics.go` | per request a recorder, the action and a span; shared instruments, made once | `WriteHeader`, `Write`, `ReadFrom`, `Flush`, `Hijack`, `SetRequestAction`, `RecordRequest` | statuses implied, repeated or informational; short writes; panics; requests before `Init` | what is recorded is what was sent, once |
| Log sanitising | `otelsetup/logsanitize.go` | none | repair of UTF-8 in nested values | recursion over kinds of values; keys that become equal | valid values unchanged, result valid |
| Master key | `masterkey/masterkey.go` | a file; the key in memory | load, encrypt, decrypt | file written, replaced or reopened between system calls; damaged texts | no part of a key is used; decrypt inverts encrypt and nothing else |
| ARN resolution | `auth/arn.go` | none | parse, resolve | paths that parsing drops, colons and kinds inside them | only the issued ARN reaches a resource |
| Checked conversions | `safecast/safecast.go` | none | integer conversions | boundaries of widths | not modelled: each is one clamp |
| FIPS start-up check, TLS curves, build scripts | `fipsboot/`, `tlsconfig/`, `Makefile`, `scripts/` | none | | nothing | not modelled: no behaviour of their own |

`PROJECT.json` lists every hazard at its line, with the properties aimed at it.

## Plan

Done, in this order: `Throttler`, `PolicyEvaluator`, `PayloadBinding`,
`RequestAuth` and `Telemetry`, the first four with proofs; then `Decision`, the
abstract specification that `PolicyEvaluator` and `PatternMatch` implement;
`PatternMatch`, `HTTPMiddleware`, `MasterKey`; and the pure functions `Numbers`,
`Dates`, `PolicyJSON`, `Sanitize` and `ARN`, which `MCValues` checks together.

A composition of admission, throttling and evaluation is not planned: the
repository holds no code that calls one from another, and what a service does
between them cannot be modelled from here.

Proofs followed for every one of these specifications. Every safety property
that a run checks is now a theorem, except those of `MCValues`; what is left to
TLC, and why, is listed at the end of the section on proofs.

## Modules

`M.tla` is the specification, `MCM.tla` gives it values for TLC, `MProofs.tla`
holds its theorems.

### Throttler

Requests go through `lookup` (read lock), `insert` (write lock), `reserve`,
`decide` and `cancel`; each is an action, so are the collector's tick, sweep
and exit, the two parts of each `Stop`, and the clock. A section under the lock
is atomic; `now` is read before it and kept in `stamp`, as in the code. The
token bucket of `golang.org/x/time/rate` is modelled from its use: reserve,
delay, cancel, with credit counted in time and a rate of zero as an interval
beyond the horizon. `used` and `spent` are history variables: when a request
last found an entry, and an ideal bucket per key that forgets nothing.

*Properties.* `HeldIsCurrent`: the bucket a request is about to draw from is
the one in the map. `EvictsOnlyIdle`: only buckets nobody has found for
`staleAfter` (less one stall) are evicted. `AdmissionBound`: no more is
admitted than the ideal bucket allows, across evictions. `RefusedOnlyWhenSpent`:
a refusal means the tokens of the request's own action are gone, which a bucket
shared by two actions would break too. `IdleEntriesCollected`: an idle entry leaves
the map. `StopMeansExited`, `StopReturns`.

*Bounds.* `MaxTime` ends the clock, `MaxDebt` stops arrivals at a bucket far in
debt, `PromptGC` has the collector finish a tick before the next one (needed
only for `IdleEntriesCollected`, which counts ticks). `MaxStall` is the longest
a request may spend inside; `StallAssumption` asks that twice that fit in
`staleAfter` (five minutes in the code, while a request spends microseconds).
Two requests, one or two keys and a clock that passes `staleAfter` twice
reach every race between two requests and the collector; a third request
adds no new pair.

*Fairness.* Weak for the steps of the goroutines, which the Go scheduler runs;
strong for the collector's exit, because `select` chooses at random between a
tick and the cancellation when both are ready, and so does not starve one.

### PolicyEvaluator

One action per step of the scan over documents and statements, with its early
return on a deny. Patterns are the sets of strings they select; a variable is a
reference that resolves, is literal, or cannot be resolved; a condition has an
operator, a key, and values that parse or do not. `Matches`, `Unenforceable`,
`ConditionHolds` and the rest follow the functions of the same name.

*Properties.* `ImplementsDecision`: the scan refines `Decision`, a specification
in which a question is asked and answered by its verdict, at once and once; the
verdict is the unordered rule: allowed when some Allow matches and nothing else
does, an unknown effect counting as a Deny. `DenyOverrides`, the invariant
behind it, is proved. `FailClosedNarrows`: an Allow stands however the
unresolvable variables and the constructs that cannot be enforced are read:
whatever they select and hold, the answer would be Allow still. A reading is of
the statements as their documents have them, the variables of an older document
being text to it, so it does not share the evaluator's rewriting of those.

*Bounds.* Two documents of up to two statements, two actions and resources, one
condition of each family: enough for every pair of statements to disagree in
either order and for every inversion (negated operator, `NotAction`,
`NotResource`) to meet an unresolvable variable.

### PayloadBinding

One request: `Parse` resolves the content hash (header, presigned, bodyless or
by reading the body), `Verify` checks scope and signature and then binds the
body: nothing to do, a short body buffered and checked at once, or a body
checked while the handler reads it. The transport returns any number of bytes,
with or before its last error; the handler reads on as long as it likes, also
after a failure. SHA-256 has no collisions; the signature verifies exactly when
the content hash is the one the client signed.

*Properties.* `CompleteMeansSigned`: bytes delivered up to an EOF, or up to the
declared length, are the signed ones. `NoFalseBlame`: a mismatch is reported
only of a short or different body. `UnauthenticatedReadBounded`: at most
`MaxPayloadLen + 1` bytes are read before the signature is checked, none for
S3. `HonestServed` (liveness): the signed body, sent whole over a transport
that works, is delivered.

*Bounds.* Bodies of up to 4 bytes around a `MaxPayloadLen` of 2, both sides of
every comparison. *Fairness.* Weak on the next step: the server's goroutine
runs and the handler goes on reading.

*Left out.* Failures of `parseHeaders` after the body was read (see
RequestAuth), and a `SignedRequest` built by hand without a request.

### RequestAuth

Servers parse and verify requests while clients sign and the clock runs. What
arrives is any request with any signature a client ever made: the network
delays, repeats and rewrites. A header-signed request takes its time from
`X-Amz-Date` or `Date`, a presigned one from its query; `Age` multiplies in
integers of a bounded width, as `time.Duration` does; the canonical request is
a record of what it is about, the signature the pair of signing key and string
to sign. `Parse` is one action, since it reads the clock once and shares
nothing; the time until `Verify` is bounded by `MaxStall`.

*Properties.* `AcceptedWasSigned`: target, query, time, scope and the text of
every header that must be signed are as the owner of the access key signed
them. `ReplayWindow`: an accepted request is within its window, however large
its `X-Amz-Expires`. `NoFalseMismatch`: respacing, and adding headers that need
no signature, do not break a request. `TypeOK` includes that a request past
`Parse` has a time and, if presigned, a positive lifetime.

*Bounds.* Integers of 5 bits with a second of 4 units: the smallest width in
which a product wraps into the allowed ages while proper ages do not. One
server and one signed request: servers share only the clock, and a second
signature adds nothing to what one request can be compared with; the proofs
are for any number. Some thirty drafts fail each check at least once.

*Abstractions.* Escaping and sorting are injective; names are compared without
regard to case; the wall clock does not go back. A request with both forms is
judged by its Authorization header, as in the code, and `ReplayWindow` is about
the form it is judged by.

### Telemetry

Calls of `Init` and `SetDefaultJSONLogger`, each access to a global its own
action; any exporter may fail; a shutdown stops providers one by one; loggers
pass records through the fan-out while `SetLevel` runs, and a host may install
loggers of its own. Whether set-up calls overlap is chosen in the initial state
(`overlap`).

*Properties.* `NothingLeaks`, in every interleaving: a failed or shut-down Init
leaves nothing running. `OrderIndependent`, for calls in any order that do not
overlap: the default logger is the last configured one and bridged to the last
provider. `SinksAgree`: however the level moves while a record is on its
way, one severe enough for every level it saw reached all sinks of its logger,
one severe enough for none of them reached none. (A record between the levels it
saw may reach one sink only; the code promises nothing of it.)

*Bounds.* Two calls of Init, one of them without tracing, one of
`SetDefaultJSONLogger`, one record at a time, three levels.

### PatternMatch

A string is a sequence of bytes. A call of `matchPattern` or `matchARN` is split
into components, each expanded (`ExpandVariables`, `WriteEscaped`) and scanned:
`Star`, `One`, `Restart`, `Mismatch`, `TrailingStar` and `ScanEnds` are the arms
of `matchGlob`'s loops, with its four variables. The scan runs over the elements
that `token` decodes rather than over bytes; only the last element before a
restart point matters, and that is a star of one byte. `AsRead` rewrites a
pattern of an older document first.

*Properties.* `ImplementsDecision`: the answer is the one `Selects` gives, which
says what a pattern means without any of that machinery: its bytes, its
wildcards and the bytes its references stand for can be laid over the value,
in an ARN with the separating colons under colons of the pattern.
`ScanAdvances`: each step of the scan gains on a bounded measure, so the scan
ends. `WritePathAgrees`: `UnresolvableVariable` accepts a pattern exactly if the
evaluator can resolve it given every key. `TypeOK` keeps the scan within pattern
and value, outside which Go would panic.

*Bounds.* All patterns of up to 4 bytes over two letters and both wildcards, and
of 5 over one wildcard, against all values as long: two stars with a restart
each need four. References, literal and unfinished ones, values that hold a
wildcard, a backslash or a colon; ARNs of 3 components for 6
(`ArnComponents`), which has a first, a middle and a last.

### HTTPMiddleware

Each request goes through the middleware's statements, its handler making up to
`MaxCalls` calls on the recorder in any order, while `Init` installs the tracer
and the meter provider. The response is `net/http`'s, modelled from its
documented rules: the first final status counts, an informational one does not,
a body or a flush implies 200, some statuses allow no body, HEAD sends none, a
hijacked connection takes nothing more, and a write may be short. `late` is a
history variable: the requests recorded when the meter provider was there.

*Properties.* `StatusIsSent`: the recorded status is the one sent, except after
a hijack or when the last `WriteHeader` decided nothing. `SpanIsTold`: no span
stays open, a panic included, and it tells status and error. `RequestsCounted`
and `BytesCounted`: the counters have each request at most once, under its
action and outcome, and none recorded after `Init` is missing.

*Bounds.* Two requests, one with three calls of its handler and one whose
handler only returns or panics: three calls are a status, a body and a status
again, and the second request is there for the shared instruments. Statuses 103, 204, 404 and 500 and the implied
200 are one of each rule.

*Left out.* `WithRecorder` (the caller's function), trace context, the duration
histogram, and names with their wording.

### MasterKey

The path names a file, a file has a mode and a content of `KeySize` parts.
`Stat`, `Open`, each `Read` and the end of the file are steps of their own, as
they are system calls; between them an operator may replace the file, truncate
and rewrite it part by part, change its mode or remove it, and may stop
anywhere, which is a crash. A service that is restarted loads the key again.
The cipher is ideal: a box opens with its own key and nonce. `calm` and `spoilt`
are history variables: nothing has happened to the file since `Stat`; the file
was truncated while it was open.

*Properties.* `KeyIsWhole`: no service uses part of a key or a blend of two,
except from a spoilt read. `LoadIsChecked`: a key from a calm load is what the
file holds, and the file's mode is within what `Load`, `LoadShared` or
`ReadShared` allows. `OpensWhatWasSealed`: whatever the store gives back, a text
opens to its own plaintext under its own key, and anything else is an error.

*Bounds.* Two services, one that calls `Load` and one that calls `ReadShared`
and `New` (`LoadShared` is the latter in one step), two keys of two parts, three changes of the file, two secrets. The run may stop: a service whose
file is refused does nothing more.

### Numbers, Dates, PolicyJSON, Sanitize, ARN

Pure functions, each applied by `MCValues` to every input of a bounded set and
compared with a reference. `NumericExact`: comparing by sign, position of the
leading digit and digits gives the order of the integers that the texts stand
for, with `MaxInt32` at 1 so that scales pass it on both sides; equal numbers
have one representation. `OneClock`: `aws:CurrentTime` and `aws:EpochTime`
satisfy the same conditions, before the epoch and after it, and a limit once
passed stays passed; the server's clock is taken to be within the years 1 to
9999. `RoundTrips`: a list read from a document, written and read again is the
same, and null is no list of an empty string. `RecordCleaned`: no string of an
emitted record, at any depth, has an invalid byte, nothing valid is touched, and
an attribute is lost only to one of the same sanitised key.
`ResolvesWhatWasIssued`: with a store of two resources created at any of six
paths, a text resolves to a resource exactly if it is the ARN issued for it, and
is an AWS-managed policy's exactly if it begins like one and names one. The texts
are issued ARNs, ARNs with a stretch lost, doubled or replaced, and every tail of
up to four tokens.

*Abstractions.* A number is cut at its sign, point and exponent already; a date
is one of its forms with the time it stands for, `time.Parse` being external, and
`SetRequestTime` cuts both spellings to the second alike, as the library says; a
JSON value is a record with one field; an invalid byte is one character; an ARN
is a sequence of tokens: words, colons and slashes.

## Runs

| Run | Expected | Shows |
|---|---|---|
| `throttler_contention` | pass | two requests, collector and clock on one key: `TypeOK`, `HeldIsCurrent`, `AdmissionBound`, `EvictsOnlyIdle` |
| `throttler_lifecycle` | pass | one request at a time, two actions with different settings, two callers of `Stop`: `RefusedOnlyWhenSpent`, `IdleEntriesCollected`, `StopMeansExited`, `StopReturns` |
| `policy_evaluation` | pass | `TypeOK`, `FailClosedNarrows`, `ImplementsDecision` |
| `pattern_matching` | pass | `TypeOK`, `WritePathAgrees`, `ImplementsDecision`, `ScanAdvances` |
| `payload_binding` | pass | `TypeOK`, `CompleteMeansSigned`, `NoFalseBlame`, `UnauthenticatedReadBounded`, `HonestServed` |
| `request_admission` | pass | `TypeOK`, `AcceptedWasSigned`, `NoFalseMismatch`, `ReplayWindow` |
| `request_expires` | violation | an `X-Amz-Expires` that wraps round is accepted |
| `telemetry` | pass | `TypeOK`, `NothingLeaks`, `OrderIndependent`, `SinksAgree` |
| `telemetry_race` | violation | overlapping set-up calls lose the bridge |
| `http_recording` | pass | `StatusIsSent`, `SpanIsTold`, `RequestsCounted`, `BytesCounted` |
| `master_key` | pass | `KeyIsWhole`, `OpensWhatWasSealed`, `LoadIsChecked` |
| `values` | pass | `NumericExact`, `OneClock`, `RoundTrips`, `RecordCleaned`, `ResolvesWhatWasIssued` |

Run one with `tlc -config <run>.cfg MC<Module>`. Each property of a passing run has a mutant in
`PROJECT.json`, a plausible bug under which TLC finds it violated.

## Findings

1. *`X-Amz-Expires` wraps* (`parse.go:166`). The maximum is compared with a
   product taken in 64 bits.
2. *The bridge can be lost* (`slog.go:71`). `SetDefaultJSONLogger` overlapping
   `Init` leaves the default without a bridge.

Each has a run that shows it.

## Observations

Met while modelling, and the reason for an exception in a property or a note on
a hazard:

- *Refusals lose tokens* (`ratelimit.go:158`). A refused request takes a
  reservation and cancels it a step later. When two overlap and the earlier is
  cancelled first, `Cancel` restores nothing for it, and later requests are
  refused below the configured rate. `RefusedOnlyWhenSpent` holds of requests
  that do not overlap; with the two requests of `throttler_contention` TLC
  finds it violated. The same is lost by a request on its own when it stalls
  between the refusal and `Cancel` until after the moment the reservation was
  made for: `Cancel` then takes the reservation as used. Under `MaxStall` = 1,
  as in `throttler_lifecycle`, it cannot stall that long. These are the two
  conditions of `RefusedOnlyWhenSpentHolds`.
- *A malformed condition value is not fail-closed* (`conditions.go:293`). It
  matches nothing under Allow and Deny alike, where `evaluator.go:71-73` lets
  one expect that a Deny would match. The tests pin the code's choice.
- *A short buffered body may be a read error* (`payload.go:64`). Only `io.EOF`
  and `io.ErrUnexpectedEOF` are taken as short, though the comment promises a
  mismatch and HTTP/2 uses its own error. The request is refused either way.
- *`Init` replaces a host's logger* (`slog.go:89`) that was installed after
  `SetDefaultJSONLogger`.
- *The recorder keeps the last status* (`http.go:31`), not the one sent. After
  an informational status and a body, or a second `WriteHeader` that the server
  ignores, the recorded status is not the response's, where `http.go:22` says
  that the response status is captured.
- *HEAD counts a body* (`http.go:40`). The server takes the bytes of a response
  to HEAD and drops them; they are counted, where `http.go:36` says that the
  bytes are those actually written to the client.
- *Two keys can blend* (`masterkey.go:84`). A key file rewritten in place
  between two reads of one `ReadFile` yields bytes of both keys in the right
  number. A file put in place by a rename cannot.
- *The mode is that of the path at `Stat`* (`masterkey.go:75`), not of the file
  that is opened.

## Proofs

Each theorem is `Spec => []P` (or an action property) for every value of the
constants that satisfies the named assumptions, by an inductive invariant.

- **ThrottlerProofs**: `TypeCorrect`, `HeldIsCurrentHolds`,
  `EvictsOnlyIdleHolds`, `StopMeansExitedHolds`, `IdleEntriesCollectedHolds`,
  `AdmissionBoundHolds`, `RefusedOnlyWhenSpentHolds`. `HeldIsCurrent` by itself is
  not inductive: that the collector spares a held entry follows from how old
  `lastSeen` can be, which follows from how old a request's `stamp` can be
  (`Timely`, `HeldOK`, `UsedOK`), from the cutoff the collector holds
  (`CutoffOK`) and from a limiter belonging to one key (`NotShared`).
  `AdmissionBound` compares the bucket in the map with one that forgets
  nothing. What ties them is `RateInv`: how much the pending reservations still
  cost and may give back (`QueueOK`, `DrawnOK`, `TimedOK`), what was served
  against what the bucket lacks (`SpentOK`, `ServedOK`), and that an idle bucket
  has filled up before it can go stale (`DecayedOK`). It has two hypotheses
  about the configuration. `KeysApart`: no two actions with
  different settings are joined to one key, which account ids without a
  separator ensure (`PlainAccounts`). `RefillsInTime`: a bucket refills within
  `staleAfter`, stalls included; where `burst / rate` is more than five minutes,
  an eviction does give tokens back early. Both hold in the runs.
  `RefusedOnlyWhenSpent` is the other direction. `OwedOK` says that a bucket
  lacks no more than was served and, while a request of the key has a
  reservation, one token; `NeverOK`, that only a bucket of size zero gives no
  reservation. A request that must wait finds less than nothing in the bucket
  once its token is taken, so the ideal bucket lacks its token too. This is
  proved of the behaviours in which the requests of one key do not overlap
  (`OneByOne`) and a refused one cancels before the time its reservation was
  made for (`CancelledInTime`); requests of different keys interleave freely.
  Without either condition the property fails (see the observations).
  Assumptions:
  `TimingAssumption`, `StallAssumption`, `NameAssumption`, `LimitAssumption`,
  `DistinctAssumption`, `RequestsAssumption` (finitely many requests).
- **PolicyEvaluatorProofs**: `TypeCorrect`, `DenyOverridesHolds`,
  `EvaluatorImplementsDecision`, `FailClosedNarrowsHolds`. The scan's invariant
  says what has been seen so far of Allow and Deny. For the refinement, a call is
  a step of `Decision` that asks, the two ways to finish are its reply (by
  `DenyOverrides`), a return takes the reply away, and every other step is a
  stutter. `FailClosedNarrows` rests on lemmas that sandwich each
  operator: under Allow it selects at most, under Deny at least, what any
  reading of the unresolvable parts would; on one side stands the statement as
  rewritten (`StatementInForce`), on the other as stated. Assumptions:
  `UnparsedAssumption`, `CallsAssumption` (which gives the documents' records
  their fields).
- **PayloadBindingProofs**: `TypeCorrect`, `CompleteMeansSignedHolds`,
  `NoFalseBlameHolds`, `UnauthenticatedReadBoundedHolds`. The invariant relates
  what was delivered, hashed, read from the transport and is still buffered
  (`Undelivered`, `HashOK`, `FromTransport`, `FromBuffer`, `Streamed`).
  Assumptions: `LenAssumption`, and `RequestsAssumption`: the transport
  delivers no more than the declared length.
- **RequestAuthProofs**: `TypeCorrect`, `AcceptedWasSignedHolds`,
  `ReplayWindowHolds`, `NoFalseMismatchHolds`. The invariant records what each
  check has left behind (`Timely`, `Passed`, `Arrived`, `Checked`, `Blamed`);
  `WrapShrinks` shows that a product that wraps only gets smaller, which is why
  the window holds for every width. Assumptions: those of the module, among
  them that no client makes the signature `Garbage`.
- **PatternMatchProofs**: `TypeCorrect`, `Advances`, `GlobIsRight`,
  `WritePathIsRight`, `PatternIsRight`, `MatcherImplementsDecision`. The functions of this module are defined
  by recursion over a string, and induction is taken as the principle of the
  least counterexample: `Least` and `Downward` for statements, `Recursion` and
  `Pieces` for the existence of what is defined, `Shift` for texts put one after
  the other. *The scan*: `Scanned` says that the elements so far cover the bytes
  so far (`Reached`), and that no cover of the whole value has an element begin
  earlier than the scan has it (`Leftmost`), which is why the last star is the
  only one that need be restarted. *The text*: what is expanded, escaped and
  decoded again are the elements of the pattern's `Meaning` (`ExpandSame`,
  `SameEscaped`), expansion fails exactly when a reference that is reached does
  not end or resolve (`ExpandMeans`), and a pattern of an older document comes
  out as its own bytes (`OldSame`). *The call*: `Deciding` says that the
  components left and the elements under the scan decide the call. *The ARN*:
  the colons at which `SplitARN` cuts a pattern are the pattern's own, never one
  that a variable brought in, so a component means the part of the pattern's
  meaning between two of them. A cover of the whole value that leaves none of
  its separating colons to a wildcard can be cut at them, and covers of the
  components glued together there. Patterns of older documents have the same
  colons before and after they are read as text. Every step of the matcher is
  then one of `Decision` or a stutter. Assumptions: `CallsAssumption`,
  `StringsAssumption` (patterns, values and keys are strings),
  `ComponentsAssumption`.
- **TelemetryProofs**: `SetupInvariance`, `TypeCorrect`, `NoLeak`,
  `AllSinksOrNone`, `AnyOrder`. `SetupOK` relates what a caller has built, the
  configuration that is remembered, and the providers that run to those an
  `Init` has yet to stop; `RecordsOK` says that a record on its
  way has seen the present level and one that let it in;
  `OrderOK` says, as long as no two calls overlap, which part of the set-up the
  one call under way has done.
- **HTTPMiddlewareProofs**: `Invariance`, `StatusSent`, `SpanTold`,
  `CountedRight`, `BytesCountedRight`. `StatusOK` compares the recorder with what the server would
  send if the handler returned now; `CountOK` bounds the bag of counts by the
  numbers of requests, by cardinality. `BytesOK` ties the two byte totals to the
  sums over the requests that have passed each counter, and what the recorder
  counts of a response to what the server has of it (`WrittenOK`). A sum over a
  set is a fold that picks its elements in an order nobody knows; the lemmas
  before it show, by induction on the size of the set, that the fold exists
  (`FoldExists`), that any element may come last (`FoldAny`), and so what adding
  an element does to the total (`TotalAdded`). Assumptions: `KindsAssumption`,
  `LengthsAssumption`, `CodesAssumption` (what `net/http` allows).
- **MasterKeyProofs**: `Invariance`, `KeyWhole`, `LoadChecked`, `Opens`. The
  invariant says what a service may rely on after `Stat` and after each read
  (`LoadOK`, `CalmOK`), that what lies in a file is of one key (`FilesOK`), and
  that no two secrets share a nonce (`SealedOK`). Assumption:
  `AbsentAssumption`.

Only model-checked:

- liveness (`StopReturns`, `HonestServed`), which is out of the prover's reach;
- the properties of `MCValues`, which are about pure functions: what
  `SanitizeValue` computes is a recursion over nested values, which the provers
  cannot unfold, and `MCValues` reaches it; the others (`Numbers`, `Dates`,
  `PolicyJSON`, `ARN`) have few cases, and the inputs of the run meet each.

## Not modelled

Retry-After and other wording; the sampler, resource attributes and histogram
boundaries (values handed to the SDK); trace id stamping; the decoding of a
policy document beyond its lists; the key's fingerprint; checked conversions,
each a clamp that a model would only repeat; the FIPS check, which panics or
returns; the list of TLS curves; the empty list of key functions, on which the
throttler panics at its first request; and how services compose the packages,
which is their code.
