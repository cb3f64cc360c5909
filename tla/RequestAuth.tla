---------------------------- MODULE RequestAuth ----------------------------
(***************************************************************************)
(* The admission of a signed request by pkg/sigv4: Parse takes the signing *)
(* components from the Authorization header or, for a presigned URL, from  *)
(* the query; checks the time window, the credential scope and that the    *)
(* headers that matter are signed; and Verify, which the caller makes      *)
(* after it has looked up the secret, checks scope and signature.          *)
(*                                                                         *)
(* Clients sign drafts.  What arrives is any draft with any signature that *)
(* was ever made, early, late, again or after a proxy has changed it: the  *)
(* network has no state of its own.  How a body is held to its hash is the *)
(* business of module PayloadBinding.                                      *)
(*                                                                         *)
(* The clock counts fractions of a second (nanoseconds, in the code);      *)
(* timestamps on the wire count seconds.  HMAC and SHA-256 are ideal: two  *)
(* signatures are equal when key and text are.  Header names are lowered   *)
(* on both sides before they are compared, so a name stands for all its    *)
(* spellings.                                                              *)
(***************************************************************************)
EXTENDS Integers, FiniteSets

CONSTANTS
    Servers,        \* goroutines that serve requests
    Drafts,         \* requests as they may be written, all but the signature
    SecretOf,       \* the caller's table: a function from access key ids
    Secrets,        \* secrets that clients sign with
    Region, Service,\* what the caller passes to Verify
    AmzHeaders,     \* the header names that start with x-amz-
    S3,             \* the service named "s3"
    Second,         \* clock units in a second
    DayLength,      \* seconds in a day
    MaxInt,         \* largest int and time.Duration: 2^63 - 1 in the code
    MaxClockSkew, MaxPresignAge,   \* in clock units
    MaxStall,       \* longest time from Parse to the end of Verify
    ClientSkew,     \* how far a client's clock may be off
    MaxTime,        \* bound on the clock
    MaxSigned,      \* bound on the number of drafts that clients sign
    V4,             \* AWS4-HMAC-SHA256
    Missing,        \* an absent header or parameter, or an empty one
    Malformed,      \* a value that does not parse
    UnsignedPayload,\* the sentinel that S3 presigned URLs sign
    Garbage         \* a signature no client made

VARIABLES
    clock,    \* the time
    signed,   \* what clients have signed: pairs of a secret and a draft
    pc,       \* where each server is
    draft,    \* the request it serves, all but its signature
    sig,      \* the signature of that request
    now,      \* its cfg.now, from Parse to the end of Verify
    why       \* why it refused

serverVars == << pc, draft, sig, now, why >>
vars == << clock, signed, serverVars >>

(***************************************************************************)
(* A draft has the fields                                                  *)
(*   target, args   method and path; the query but for the X-Amz- ones     *)
(*   headers        from names to values: their text, and whether they     *)
(*                  have more spaces than they need                        *)
(*   payload        what resolveContentHash makes of the body              *)
(*   auth           the Authorization header: Missing, Malformed or parts  *)
(*   presign        the X-Amz- parameters: Missing if X-Amz-Algorithm is,  *)
(*                  or parts, together with date and expires               *)
(* where parts are algo, credential and signed, a set of header names, and *)
(* a credential is Missing, Malformed, or akid, date (a number of days),   *)
(* region, service, and whether it ends in aws4_request.                   *)
(***************************************************************************)

ASSUME TimeAssumption ==
    /\ Second \in Nat \ {0} /\ DayLength \in Nat \ {0} /\ MaxInt \in Nat \ {0}
    /\ MaxClockSkew \in Nat /\ MaxPresignAge \in Nat
    /\ MaxStall \in Nat /\ ClientSkew \in Nat /\ MaxTime \in Nat /\ MaxSigned \in Nat

(* What is absent or does not parse is not a number.                       *)
ASSUME ValueAssumption == {Missing, Malformed} \cap Int = {}

(* host is a field of http.Request, so every request has one.              *)
ASSUME DraftAssumption ==
    /\ Drafts # {}
    /\ \A d \in Drafts :
        /\ "host" \in DOMAIN d.headers
        /\ \A name \in {"x-amz-date", "date"} \cap DOMAIN d.headers :
               d.headers[name].text \in Nat \cup {Missing, Malformed}
        /\ d.presign # Missing =>
               /\ d.presign.date \in Nat \cup {Missing, Malformed}
               /\ d.presign.expires \in Int \cup {Missing, Malformed}

ASSUME HeaderAssumption == "x-amz-date" \in AmzHeaders

ASSUME SecretAssumption == \A k \in DOMAIN SecretOf : SecretOf[k] \in Secrets
----------------------------------------------------------------------------
(* getAuthComponents.  The Authorization header is preferred: a request    *)
(* with both forms is judged by its header.                                *)

Presigned(d) == d.auth = Missing /\ d.presign # Missing
Parts(d) == IF Presigned(d) THEN d.presign ELSE d.auth

WellFormedParts(d, g) ==
    /\ Parts(d) \notin {Missing, Malformed}
    /\ Presigned(d) => Parts(d).credential # Missing /\ Parts(d).signed # {} /\ g # Missing
    /\ Parts(d).algo = V4

Credential(d) == Parts(d).credential
SignedHeaders(d) == Parts(d).signed

(* parseTimestamp.  An X-Amz-Date that is present must parse; only an      *)
(* absent or empty one lets the Date header decide.                        *)

Header(d, name) == IF name \in DOMAIN d.headers THEN d.headers[name].text ELSE Missing

Timestamp(d) ==
    IF Presigned(d) THEN d.presign.date
    ELSE IF Header(d, "x-amz-date") # Missing THEN Header(d, "x-amz-date")
    ELSE Header(d, "date")

(* Multiplication of time.Durations, which wraps round.                    *)
Wrap(x) == ((x + MaxInt + 1) % (2 * (MaxInt + 1))) - (MaxInt + 1)
Age(d) == Wrap(d.presign.expires * Second)

ExpiresBelowMaximum(d) ==    \* mutant: zero and negative lifetimes are not refused
    /\ d.presign.expires \in -MaxInt .. MaxInt
    /\ Age(d) <= MaxPresignAge

(* strconv.Atoi accepts no number beyond the largest int.                  *)
ExpiresOK(d) ==
    /\ d.presign.expires \in 1 .. MaxInt
    /\ Age(d) <= MaxPresignAge

Abs(x) == IF x < 0 THEN -x ELSE x

(* mutant: the request's own age is not asked                              *)
WithinMaximum(d, t) ==
    LET since == t - Timestamp(d) * Second IN
    IF Presigned(d) THEN since >= -MaxClockSkew /\ since <= MaxPresignAge
                    ELSE Abs(since) <= MaxClockSkew

WithinWindow(d, t) ==
    LET since == t - Timestamp(d) * Second IN
    IF Presigned(d) THEN since >= -MaxClockSkew /\ since <= Age(d)
                    ELSE Abs(since) <= MaxClockSkew

TimestampOK(d, t) ==
    /\ Timestamp(d) \notin {Missing, Malformed}
    /\ Presigned(d) => ExpiresOK(d)
    /\ WithinWindow(d, t)

(* parseCredential.                                                        *)
Date(ts) == ts \div DayLength

CredentialOK(d) ==
    /\ Credential(d) \notin {Missing, Malformed}
    /\ Credential(d).date = Date(Timestamp(d))
    /\ Credential(d).terminated

(* resolveContentHash, as far as it matters here: payload is the hash of   *)
(* the body or the value of x-amz-content-sha256, Malformed if there is    *)
(* none that is recognised or the body cannot be read.                     *)
ContentHash(d) ==
    IF Credential(d).service = S3 /\ Presigned(d) THEN UnsignedPayload ELSE d.payload

(* parseHeaders.                                                           *)
MustBeSigned(name) ==
    \/ name \in {"host", "content-md5"}
    \/ name \in AmzHeaders \ {"x-amz-content-sha256"}

HostSigned(d) == "host" \in SignedHeaders(d)      \* mutant: only host must be signed

HeadersOK(d) ==
    \A name \in DOMAIN d.headers : MustBeSigned(name) => name \in SignedHeaders(d)
----------------------------------------------------------------------------
(* The canonical request, the string to sign and the signature.  Sorting   *)
(* and escaping make the canonical request a function of what it is about; *)
(* a signed header that is not there has the same line as an empty one.    *)

RawHeaderValue(v) == v                            \* mutant: spaces not collapsed
CanonicalHeaderValue(v) == v.text

CanonicalHeaders(d) ==
    [name \in SignedHeaders(d) |->
        IF name \in DOMAIN d.headers THEN CanonicalHeaderValue(d.headers[name]) ELSE Missing]

CanonicalRequest(d) ==
    [target |-> d.target, query |-> << d.args, d.presign >>,
     headers |-> CanonicalHeaders(d), contentHash |-> ContentHash(d)]

Scope(d) == << Credential(d).date, Credential(d).region, Credential(d).service >>

StringToSign(d) == << Timestamp(d), Scope(d), CanonicalRequest(d) >>
SigningKey(secret, d) == << secret, Scope(d) >>
Signature(secret, d) == << SigningKey(secret, d), StringToSign(d) >>

(* No client makes these.                                                  *)
ASSUME GarbageAssumption ==
    \A secret \in Secrets, d \in Drafts :
        WellFormedParts(d, Garbage) /\ Credential(d) \notin {Missing, Malformed} =>
            Signature(secret, d) \notin {Garbage, Missing}

ASSUME DistinctAssumption == Garbage # Missing
----------------------------------------------------------------------------
(* The environment: clients, what arrives, and the clock.                  *)

(* A draft that a client could have written: with one form of signature,   *)
(* whose parts are there, and a time to sign.                              *)
Signable(d) ==
    /\ d.auth = Missing \/ d.presign = Missing
    /\ WellFormedParts(d, Garbage)
    /\ Credential(d) \notin {Missing, Malformed}
    /\ Timestamp(d) \notin {Missing, Malformed}

Sign(secret, d) ==
    /\ Cardinality(signed) < MaxSigned
    /\ Signable(d)
    /\ Abs(clock - Timestamp(d) * Second) <= ClientSkew
    /\ signed' = signed \cup {<< secret, d >>}
    /\ UNCHANGED << clock, serverVars >>

Receive(s, d, g) ==
    /\ pc[s] \in {"idle", "accepted", "refused"}
    /\ g \in {Garbage, Missing} \/ \E p \in signed : g = Signature(p[1], p[2])
    /\ pc' = [pc EXCEPT ![s] = "parse"]
    /\ draft' = [draft EXCEPT ![s] = d]
    /\ sig' = [sig EXCEPT ![s] = g]
    /\ why' = [why EXCEPT ![s] = "none"]
    /\ UNCHANGED << clock, signed, now >>

(* A request is through before it has been inside for MaxStall.            *)
Tick ==
    /\ clock < MaxTime
    /\ \A s \in Servers : pc[s] = "parsed" => clock - now[s] < MaxStall
    /\ clock' = clock + 1
    /\ UNCHANGED << signed, serverVars >>
----------------------------------------------------------------------------
(* Parse.  It reads the clock once, and what it reads of the request is    *)
(* its own, so it is one step; how long it takes is part of MaxStall.      *)

Refuse(s, reason) ==
    /\ pc' = [pc EXCEPT ![s] = "refused"]
    /\ why' = [why EXCEPT ![s] = reason]
    /\ now' = [now EXCEPT ![s] = 0]
    /\ UNCHANGED << clock, signed, draft, sig >>

(* ErrMissingAuthentication, ErrMalformedAuthorization,                    *)
(* ErrMalformedPresignedURL or ErrUnsupportedAlgorithm.                    *)
RefuseParts(s) ==
    /\ pc[s] = "parse"
    /\ ~WellFormedParts(draft[s], sig[s])
    /\ Refuse(s, "authorization")

(* ErrRequestTimeInvalid, ErrRequestTimeTooSkewed, ErrPresignedURLExpired  *)
(* or ErrMalformedPresignedURL.                                            *)
RefuseTimestamp(s) ==
    /\ pc[s] = "parse"
    /\ WellFormedParts(draft[s], sig[s])
    /\ ~TimestampOK(draft[s], clock)
    /\ Refuse(s, "time")

RefuseCredential(s) ==
    /\ pc[s] = "parse"
    /\ WellFormedParts(draft[s], sig[s])
    /\ TimestampOK(draft[s], clock)
    /\ ~CredentialOK(draft[s])
    /\ Refuse(s, "credential")

Scoped(s) ==
    /\ WellFormedParts(draft[s], sig[s])
    /\ TimestampOK(draft[s], clock)
    /\ CredentialOK(draft[s])

RefuseContent(s) ==
    /\ pc[s] = "parse"
    /\ Scoped(s)
    /\ ContentHash(draft[s]) = Malformed
    /\ Refuse(s, "content")

(* ErrUnsignedHeader.                                                      *)
RefuseHeaders(s) ==
    /\ pc[s] = "parse"
    /\ Scoped(s)
    /\ ContentHash(draft[s]) # Malformed
    /\ ~HeadersOK(draft[s])
    /\ Refuse(s, "header")

Parsed(s) ==
    /\ pc[s] = "parse"
    /\ Scoped(s)
    /\ ContentHash(draft[s]) # Malformed
    /\ HeadersOK(draft[s])
    /\ pc' = [pc EXCEPT ![s] = "parsed"]
    /\ now' = [now EXCEPT ![s] = clock]
    /\ UNCHANGED << clock, signed, draft, sig, why >>
----------------------------------------------------------------------------
(* The caller looks up the secret of the access key id and calls Verify.   *)

KnownKey(d) == Credential(d).akid \in DOMAIN SecretOf

RefuseKey(s) ==
    /\ pc[s] = "parsed"
    /\ ~KnownKey(draft[s])
    /\ Refuse(s, "key")

ScopeMatches(d) == Credential(d).region = Region /\ Credential(d).service = Service

RefuseScope(s) ==
    /\ pc[s] = "parsed"
    /\ KnownKey(draft[s])
    /\ ~ScopeMatches(draft[s])
    /\ Refuse(s, "scope")

SignatureMatches(d, g) == g = Signature(SecretOf[Credential(d).akid], d)

(* ErrSignatureMismatch.                                                   *)
RefuseSignature(s) ==
    /\ pc[s] = "parsed"
    /\ KnownKey(draft[s])
    /\ ScopeMatches(draft[s])
    /\ ~SignatureMatches(draft[s], sig[s])
    /\ Refuse(s, "signature")

Verified(s) ==
    /\ pc[s] = "parsed"
    /\ KnownKey(draft[s])
    /\ ScopeMatches(draft[s])
    /\ SignatureMatches(draft[s], sig[s])

(* bindPayload finds that a buffered body is not the signed one.           *)
RefusePayload(s) ==
    /\ Verified(s)
    /\ Refuse(s, "payload")

Accept(s) ==
    /\ Verified(s)
    /\ pc' = [pc EXCEPT ![s] = "accepted"]
    /\ now' = [now EXCEPT ![s] = 0]
    /\ UNCHANGED << clock, signed, draft, sig, why >>
----------------------------------------------------------------------------
Init ==
    /\ clock = 0
    /\ signed = {}
    /\ pc = [s \in Servers |-> "idle"]
    /\ draft = [s \in Servers |-> CHOOSE d \in Drafts : TRUE]
    /\ sig = [s \in Servers |-> Missing]
    /\ now = [s \in Servers |-> 0]
    /\ why = [s \in Servers |-> "none"]

Signatures == {Garbage, Missing} \cup { Signature(p[1], p[2]) : p \in signed }

ServerStep(s) ==
    \/ \E d \in Drafts, g \in Signatures : Receive(s, d, g)
    \/ RefuseParts(s) \/ RefuseTimestamp(s) \/ RefuseCredential(s)
    \/ RefuseContent(s) \/ RefuseHeaders(s) \/ Parsed(s)
    \/ RefuseKey(s) \/ RefuseScope(s) \/ RefuseSignature(s)
    \/ RefusePayload(s) \/ Accept(s)

Next ==
    \/ \E s \in Servers : ServerStep(s)
    \/ \E secret \in Secrets, d \in Drafts : Sign(secret, d)
    \/ Tick

Spec == Init /\ [][Next]_vars
----------------------------------------------------------------------------
Reasons == {"authorization", "time", "credential", "content", "header",
            "key", "scope", "signature", "payload"}

(* What parseTimestamp leaves to be relied on: a time, and the lifetime of *)
(* a presigned URL, in seconds and positive.                               *)
Dated(d) ==
    /\ Timestamp(d) \in Nat
    /\ Presigned(d) => d.presign.expires \in 1 .. MaxInt

(* Every variable keeps its type; a server that is past parsing holds a    *)
(* request with a time and, if it is presigned, a lifetime, so that the    *)
(* window it was held to is that of a request (parse.go, parseTimestamp).  *)
TypeOK ==
    /\ clock \in Nat
    /\ signed \subseteq Secrets \X Drafts
    /\ pc \in [Servers -> {"idle", "parse", "parsed", "accepted", "refused"}]
    /\ draft \in [Servers -> Drafts]
    /\ DOMAIN sig = Servers
    /\ now \in [Servers -> Nat]
    /\ why \in [Servers -> Reasons \cup {"none"}]
    /\ \A s \in Servers : pc[s] \in {"parsed", "accepted"} => Dated(draft[s])

(* What an accepted request asks for is what the owner of its access key   *)
(* signed: the same target, query and time, and the same text for every    *)
(* header that acts on the request, whoever changed it on the way or added *)
(* such a header to it (parse.go, parseHeaders; verify.go, Verify).        *)
Means(d, e) ==
    /\ d.target = e.target /\ d.args = e.args /\ d.presign = e.presign
    /\ Timestamp(d) = Timestamp(e)
    /\ Scope(d) = Scope(e)
    /\ \A name \in DOMAIN d.headers :
           MustBeSigned(name) => Header(d, name) = Header(e, name)

AcceptedWasSigned ==
    \A s \in Servers : pc[s] = "accepted" =>
        \E p \in signed :
            /\ p[1] = SecretOf[Credential(draft[s]).akid]
            /\ Means(draft[s], p[2])

(* However often a request arrives, it is accepted no earlier than the     *)
(* allowed skew before its time and no later than its window, the shorter  *)
(* of its own X-Amz-Expires and the maximum for a presigned URL, and the   *)
(* time the caller took between Parse and Verify: also where the product   *)
(* of X-Amz-Expires and a second wraps round (parse.go, parseTimestamp).   *)
InWindow(d, t) ==
    LET since == t - Timestamp(d) * Second IN
    /\ since >= -MaxClockSkew
    /\ IF Presigned(d)
       THEN /\ since <= MaxPresignAge + MaxStall
            /\ since <= d.presign.expires * Second + MaxStall
       ELSE since <= MaxClockSkew + MaxStall

ReplayWindow ==
    [][\A s \in Servers : pc[s] # "accepted" /\ pc'[s] = "accepted" =>
          InWindow(draft[s], clock)]_vars

(* A request that reaches the server as its owner signed it, save that a   *)
(* proxy respaced header values or added headers that need no signature,   *)
(* is never refused for its headers or its signature, if the owner signed  *)
(* the headers it had to (parse.go, canonicalHeaderValue).                 *)
Faithful(d, e) ==
    /\ d.target = e.target /\ d.args = e.args /\ d.payload = e.payload
    /\ d.auth = e.auth /\ d.presign = e.presign
    /\ \A name \in DOMAIN d.headers \cup DOMAIN e.headers :
           \/ name \in DOMAIN e.headers /\ Header(d, name) = Header(e, name)
           \/ name \notin DOMAIN e.headers /\ name \notin SignedHeaders(e) /\ ~MustBeSigned(name)

NoFalseMismatch ==
    \A s \in Servers : pc[s] = "refused" /\ why[s] \in {"header", "signature"} =>
        ~ \E p \in signed :
            /\ p[1] = SecretOf[Credential(draft[s]).akid]
            /\ sig[s] = Signature(p[1], p[2])
            /\ Faithful(draft[s], p[2])
            /\ HeadersOK(p[2])

(* Claim of parse.go, parseTimestamp: a presigned URL whose X-Amz-Expires  *)
(* exceeds the maximum is malformed.  The product with a second is         *)
(* compared after it has wrapped round.                                    *)
ExpiresWithinMaximum ==
    \A s \in Servers : pc[s] = "accepted" /\ Presigned(draft[s]) =>
        draft[s].presign.expires * Second <= MaxPresignAge
============================================================================
