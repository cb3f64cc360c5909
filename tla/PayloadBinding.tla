-------------------------- MODULE PayloadBinding --------------------------
(***************************************************************************)
(* How pkg/sigv4 ties the body of a request to its signature: Parse        *)
(* resolves the content hash, Verify checks the scope and the signature    *)
(* and then binds the body, and a handler reads the body it is left with.  *)
(*                                                                         *)
(* SHA-256 has no collisions here, so a digest is the content it is of and *)
(* a running hash is the bytes written to it.  The rest of the canonical   *)
(* request is taken to be what the client signed: the signature verifies   *)
(* exactly when the content hash is the signed one.                        *)
(*                                                                         *)
(* A request on the wire is a record of                                    *)
(*   scope, expected   the credential scope, and the one Verify requires   *)
(*   presigned         the signature came in the query                     *)
(*   header            X-Amz-Content-Sha256                                *)
(*   signedHash        the content hash the client signed                  *)
(*   hasBody, length   ContentLength, -1 when it is not known              *)
(*   sent, ending      the bytes that arrive, and the error after the last *)
(***************************************************************************)
EXTENDS Integers, Sequences

CONSTANTS
    Bytes,           \* what bodies are made of
    MaxPayloadLen,   \* the longest body that is buffered
    Requests         \* the requests that may arrive

ContentModes ==
    {"UNSIGNED-PAYLOAD", "STREAMING-AWS4-HMAC-SHA256-PAYLOAD",
     "STREAMING-AWS4-HMAC-SHA256-PAYLOAD-TRAILER", "STREAMING-UNSIGNED-PAYLOAD-TRAILER"}

(* A value of the header: a mode, a digest of some content written in      *)
(* lower or upper case, no value, or none of these.                        *)
Sentinel(mode) == [kind |-> mode, of |-> << >>, upper |-> FALSE]
Digest(s) == [kind |-> "digest", of |-> s, upper |-> FALSE]
CaseKept(h) == h
ToLower(h) == [kind |-> h.kind, of |-> h.of, upper |-> FALSE]
EmptyPayload == Digest(<< >>)

ContentHash == [kind : ContentModes \cup {"digest"}, of : Seq(Bytes), upper : BOOLEAN]
HeaderValue ==
    [kind : ContentModes \cup {"digest", "missing", "invalid"}, of : Seq(Bytes), upper : BOOLEAN]

(* io.EOF; io.ErrUnexpectedEOF, as HTTP/1.1 reports a short body; another  *)
(* error, as HTTP/2 reports one, or a broken connection.                   *)
Endings == {"EOF", "UnexpectedEOF", "Other"}

ASSUME LenAssumption == MaxPayloadLen \in Nat

(* The transport delivers no more than the declared length.                *)
OnWire(q) ==
    /\ q.header \in HeaderValue /\ q.signedHash \in ContentHash
    /\ q.presigned \in BOOLEAN /\ q.hasBody \in BOOLEAN
    /\ q.length \in Nat \cup {-1} /\ q.sent \in Seq(Bytes) /\ q.ending \in Endings
    /\ q.length >= 0 => Len(q.sent) <= q.length
    /\ ~q.hasBody => q.sent = << >> /\ q.length = 0 /\ q.ending = "EOF"

ASSUME RequestsAssumption == \A q \in Requests : OnWire(q)

VARIABLES
    phase,         \* "parse", "verify", "bind", "serve" or "refused"
    request,       \* the request being authenticated
    contentHash,   \* Canonical.ContentHash
    left,          \* bytes of the transport that were not read yet
    reader,        \* what req.Body is: "transport", "buffer" or "verifiedBody"
    buffer,        \* the unread bytes of a rewound body
    hashed,        \* verifiedBody.hash
    remaining,     \* verifiedBody.remaining
    verified,      \* verifiedBody.verified
    failed,        \* verifiedBody.err is set
    got,           \* the bytes the handler was given
    sawEOF,        \* the handler was once told that the body is complete
    result         \* the last error, of Parse, of Verify or of a Read

wrapper == << hashed, remaining, verified, failed >>
seen == << got, sawEOF >>
vars == << phase, request, contentHash, left, reader, buffer, wrapper, seen, result >>

Errors ==
    Endings \cup
    {"nil", "ErrMissingContentSHA256", "ErrInvalidContentSHA256", "ErrReadingBody",
     "ErrPayloadTooLarge", "ErrMalformedAuthorization", "ErrSignatureMismatch",
     "ErrContentSHA256Mismatch", "reading request body"}

TypeOK ==
    /\ phase \in {"parse", "verify", "bind", "serve", "refused"}
    /\ OnWire(request)
    /\ contentHash \in ContentHash
    /\ left \in Seq(Bytes) /\ buffer \in Seq(Bytes)
    /\ hashed \in Seq(Bytes) /\ got \in Seq(Bytes)
    /\ reader \in {"transport", "buffer", "verifiedBody"}
    /\ remaining \in Int
    /\ verified \in BOOLEAN /\ failed \in BOOLEAN /\ sawEOF \in BOOLEAN
    /\ result \in Errors

Take(s, n) == SubSeq(s, 1, n)
Drop(s, n) == SubSeq(s, n + 1, Len(s))

IsS3 == request.scope.service = "s3"
Sized == request.length >= 0

Init ==
    /\ phase = "parse" /\ request \in Requests /\ contentHash = EmptyPayload
    /\ left = request.sent /\ reader = "transport" /\ buffer = << >>
    /\ hashed = << >> /\ remaining = 0 /\ verified = FALSE /\ failed = FALSE
    /\ got = << >> /\ sawEOF = FALSE /\ result = "nil"
----------------------------------------------------------------------------
(* Parse: resolveContentHash.                                              *)

Refuse(err) == phase' = "refused" /\ result' = err

(* The hash is resolved without reading the body.                          *)
Resolve(h) ==
    /\ phase' = "verify" /\ contentHash' = h
    /\ UNCHANGED << request, left, reader, buffer, wrapper, seen, result >>

ParsePresigned ==
    /\ phase = "parse" /\ IsS3 /\ request.presigned
    /\ Resolve(Sentinel("UNSIGNED-PAYLOAD"))

RecognisedOrVerbatim(h) == h.kind # "missing"

Recognised(h) == h.kind \in ContentModes \cup {"digest"}

ParseHeader ==
    /\ phase = "parse" /\ IsS3 /\ ~request.presigned
    /\ Recognised(request.header)
    /\ Resolve(request.header)

RefuseHeader ==
    /\ phase = "parse" /\ IsS3 /\ ~request.presigned
    /\ ~Recognised(request.header)
    /\ Refuse(IF request.header.kind = "missing" THEN "ErrMissingContentSHA256"
              ELSE "ErrInvalidContentSHA256")
    /\ UNCHANGED << request, contentHash, left, reader, buffer, wrapper, seen >>

ParseBodyless ==
    /\ phase = "parse" /\ ~IsS3 /\ ~request.hasBody
    /\ Resolve(EmptyPayload)

Unlimited(n) == n

(* The bytes io.ReadAll takes through a LimitReader of MaxPayloadLen + 1.  *)
LimitedTo(n) == IF n <= MaxPayloadLen THEN n ELSE MaxPayloadLen + 1

(* The transport's error is seen when the limit does not hide it; with the *)
(* last byte the limit lets through it may or may not be.                  *)
ParseBody ==
    /\ phase = "parse" /\ ~IsS3 /\ request.hasBody
    /\ LET n == LimitedTo(Len(left)) IN
        /\ left' = Drop(left, n)
        /\ \/ /\ n <= MaxPayloadLen /\ request.ending = "EOF"
              /\ phase' = "verify" /\ contentHash' = Digest(Take(left, n))
              /\ reader' = "buffer" /\ buffer' = Take(left, n)
              /\ UNCHANGED result
           \/ /\ n > MaxPayloadLen
              /\ Refuse("ErrPayloadTooLarge")
              /\ UNCHANGED << contentHash, reader, buffer >>
           \/ /\ n = Len(left) /\ request.ending # "EOF"
              /\ Refuse("ErrReadingBody")
              /\ UNCHANGED << contentHash, reader, buffer >>
    /\ UNCHANGED << request, wrapper, seen >>
----------------------------------------------------------------------------
(* Verify: the scope, the signature, and then bindPayload.                 *)

RefuseScope ==
    /\ phase = "verify" /\ request.scope # request.expected
    /\ Refuse("ErrMalformedAuthorization")
    /\ UNCHANGED << request, contentHash, left, reader, buffer, wrapper, seen >>

RefuseSignature ==
    /\ phase = "verify" /\ request.scope = request.expected
    /\ contentHash # request.signedHash
    /\ Refuse("ErrSignatureMismatch")
    /\ UNCHANGED << request, contentHash, left, reader, buffer, wrapper, seen >>

SignatureMatches ==
    /\ phase = "verify" /\ request.scope = request.expected
    /\ contentHash = request.signedHash
    /\ phase' = "bind"
    /\ UNCHANGED << request, contentHash, left, reader, buffer, wrapper, seen, result >>

(* A sentinel, or a body that Parse hashed.                                *)
AlreadyBound == contentHash.kind # "digest" \/ ~IsS3

BindNothing ==
    /\ phase = "bind" /\ AlreadyBound
    /\ phase' = "serve"
    /\ UNCHANGED << request, contentHash, left, reader, buffer, wrapper, seen, result >>

BindBodyless ==
    /\ phase = "bind" /\ ~AlreadyBound /\ ~request.hasBody
    /\ \/ ToLower(contentHash) = EmptyPayload /\ phase' = "serve" /\ UNCHANGED result
       \/ ToLower(contentHash) # EmptyPayload /\ Refuse("ErrContentSHA256Mismatch")
    /\ UNCHANGED << request, contentHash, left, reader, buffer, wrapper, seen >>

Modest == Sized /\ request.length <= MaxPayloadLen

(* io.ReadFull of a body of modest size: the whole of it is there, and is  *)
(* put back before the digests are compared.                               *)
BindBuffered ==
    /\ phase = "bind" /\ ~AlreadyBound /\ request.hasBody /\ Modest
    /\ Len(left) >= request.length
    /\ LET buf == Take(left, request.length) IN
        /\ left' = Drop(left, request.length)
        /\ reader' = "buffer" /\ buffer' = buf
        /\ \/ Digest(buf) = ToLower(contentHash) /\ phase' = "serve" /\ UNCHANGED result
           \/ Digest(buf) # ToLower(contentHash) /\ Refuse("ErrContentSHA256Mismatch")
    /\ UNCHANGED << request, contentHash, wrapper, seen >>

(* Or it is not, and the error io.ReadFull returns decides.                *)
BindShort ==
    /\ phase = "bind" /\ ~AlreadyBound /\ request.hasBody /\ Modest
    /\ Len(left) < request.length
    /\ left' = << >>
    /\ Refuse(IF request.ending \in {"EOF", "UnexpectedEOF"} THEN "ErrContentSHA256Mismatch"
              ELSE "reading request body")
    /\ UNCHANGED << request, contentHash, reader, buffer, wrapper, seen >>

BindStream ==
    /\ phase = "bind" /\ ~AlreadyBound /\ request.hasBody /\ ~Modest
    /\ phase' = "serve" /\ reader' = "verifiedBody" /\ remaining' = request.length
    /\ UNCHANGED << request, contentHash, left, buffer, hashed, verified, failed, seen, result >>
----------------------------------------------------------------------------
(* The handler reads the body, as often as it likes, whatever it was told. *)

(* What a Read of the transport may return.  The last bytes come with the  *)
(* error or before it.                                                     *)
TransportReads(n, err) ==
    \/ n > 0 /\ err = "nil"
    \/ n = Len(left) /\ err = request.ending

(* A Read returns the bytes b and the error err.                           *)
Return(b, err) ==
    /\ got' = got \o b
    /\ sawEOF' = (sawEOF \/ err = "EOF")
    /\ result' = err

(* The body as it came: a sentinel's, or none.                             *)
ReadTransport(n, err) ==
    /\ phase = "serve" /\ reader = "transport"
    /\ TransportReads(n, err)
    /\ left' = Drop(left, n)
    /\ Return(Take(left, n), err)
    /\ UNCHANGED << phase, request, contentHash, reader, buffer, wrapper >>

ReadBuffer(n) ==
    /\ phase = "serve" /\ reader = "buffer"
    /\ IF buffer = << >> THEN n = 0 ELSE n \in 1 .. Len(buffer)
    /\ buffer' = Drop(buffer, n)
    /\ Return(Take(buffer, n), IF n = 0 THEN "EOF" ELSE "nil")
    /\ UNCHANGED << phase, request, contentHash, left, reader, wrapper >>

(* verifiedBody.Read.  Every read that reaches the transport hashes what   *)
(* it got.                                                                 *)
Hash(n) ==
    /\ left' = Drop(left, n)
    /\ hashed' = hashed \o Take(left, n)
    /\ remaining' = remaining - n

StillOwed(n) == Sized /\ remaining - n > 0

(* A sized body that ends before its length.                               *)
CutShort(n, err) == StillOwed(n) /\ err \notin {"nil", "EOF"}

CompletesByCount(n, err) == ~verified /\ (remaining - n <= 0 \/ err = "EOF")

(* The read completes the body: the digest is compared.                    *)
Completes(n, err) == ~verified /\ ((Sized /\ remaining - n <= 0) \/ err = "EOF")

Matches(n) == Digest(hashed \o Take(left, n)) = ToLower(contentHash)

FailWithBytes(n) ==
    /\ failed' = TRUE
    /\ Return(Take(left, n), "ErrContentSHA256Mismatch")

(* The failure is remembered and the bytes of this read are withheld.      *)
Fail(n) ==
    /\ failed' = TRUE
    /\ Return(<< >>, "ErrContentSHA256Mismatch")

Reading(n, err) ==
    /\ phase = "serve" /\ reader = "verifiedBody" /\ ~failed
    /\ TransportReads(n, err)
    /\ Hash(n)
    /\ UNCHANGED << phase, request, contentHash, reader, buffer >>

ReadFails(n, err) ==
    /\ Reading(n, err)
    /\ CutShort(n, err) \/ (Completes(n, err) /\ ~Matches(n))
    /\ Fail(n)
    /\ UNCHANGED verified

ReadCompletes(n, err) ==
    /\ Reading(n, err)
    /\ ~CutShort(n, err) /\ Completes(n, err) /\ Matches(n)
    /\ verified' = TRUE
    /\ Return(Take(left, n), err)
    /\ UNCHANGED failed

ReadContinues(n, err) ==
    /\ Reading(n, err)
    /\ ~CutShort(n, err) /\ ~Completes(n, err)
    /\ Return(Take(left, n), err)
    /\ UNCHANGED << verified, failed >>

ReadAfterFailure ==
    /\ phase = "serve" /\ reader = "verifiedBody" /\ failed
    /\ Return(<< >>, "ErrContentSHA256Mismatch")
    /\ UNCHANGED << phase, request, contentHash, left, reader, buffer, wrapper >>
----------------------------------------------------------------------------
ReadBody ==
    \/ \E n \in 0 .. Len(left), err \in Endings \cup {"nil"} :
          \/ ReadTransport(n, err)
          \/ ReadFails(n, err)
          \/ ReadCompletes(n, err)
          \/ ReadContinues(n, err)
    \/ \E n \in 0 .. Len(buffer) : ReadBuffer(n)
    \/ ReadAfterFailure

(* The request was refused and no handler runs.                            *)
Refused == phase = "refused" /\ UNCHANGED vars

Next ==
    \/ ParsePresigned \/ ParseHeader \/ RefuseHeader \/ ParseBodyless \/ ParseBody
    \/ RefuseScope \/ RefuseSignature \/ SignatureMatches
    \/ BindNothing \/ BindBodyless \/ BindBuffered \/ BindShort \/ BindStream
    \/ ReadBody
    \/ Refused

Spec == Init /\ [][Next]_vars

(* The server goroutine runs, and the handler reads until the body ends.   *)
FairSpec == Spec /\ WF_vars(Next)
----------------------------------------------------------------------------
(* Properties.                                                             *)

(* The handler holds what looks like the whole body: it was told EOF, or   *)
(* it has the declared number of bytes and, like io.ReadFull and io.CopyN, *)
(* does not look at the error that came with the last of them.             *)
LooksComplete == sawEOF \/ (Sized /\ Len(got) >= request.length)

(* No handler takes for complete a body other than the one the client      *)
(* signed, however the transport frames it, and whether or not the handler *)
(* reads on after an error.  A sentinel leaves the body outside (verify.go *)
(* 41-44, payload.go 93-97 and 125-134).                                   *)
CompleteMeansSigned ==
    (phase = "serve" /\ request.signedHash.kind = "digest" /\ LooksComplete) =>
        got = request.signedHash.of

Deserved ==
    \/ Sized /\ Len(request.sent) < request.length
    \/ request.sent # request.header.of /\ (Sized \/ request.ending = "EOF")

(* A payload mismatch is reported only of a body that is not the one whose *)
(* digest was declared, or that ends before its declared length.  A body   *)
(* of no declared length whose framing breaks is not blamed on the client, *)
(* even when all of it arrived (payload_test.go 228-231).                  *)
NoFalseBlame == result = "ErrContentSHA256Mismatch" => Deserved

Unauthenticated ==
    \/ phase \in {"parse", "verify"}
    \/ phase = "refused" /\ result \notin {"ErrContentSHA256Mismatch", "reading request body"}

(* Before the signature has been checked at most MaxPayloadLen + 1 bytes   *)
(* of a body are read, and none of one sent to S3 (parse.go 263-264,       *)
(* payload.go 33-35).                                                      *)
UnauthenticatedReadBounded ==
    Unauthenticated =>
        Len(request.sent) - Len(left) <= (IF IsS3 THEN 0 ELSE MaxPayloadLen + 1)

(* A request that arrives as it was signed.                                *)
Honest ==
    /\ request.scope = request.expected
    /\ request.signedHash.kind = "digest"
    /\ request.sent = request.signedHash.of /\ request.ending = "EOF"
    /\ Sized => request.length = Len(request.sent)
    /\ IF IsS3 THEN request.header = request.signedHash /\ ~request.presigned
       ELSE Len(request.sent) <= MaxPayloadLen /\ ~request.signedHash.upper

(* A handler that keeps reading is given the whole of an untouched body    *)
(* and its EOF: the body that was hashed is put back, and no framing of it *)
(* trips the checks (parse.go 273-275, payload.go 71-73 and 118-143).      *)
HonestServed == Honest ~> (sawEOF /\ got = request.sent)
=============================================================================
