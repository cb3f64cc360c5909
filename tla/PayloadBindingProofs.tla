----------------------- MODULE PayloadBindingProofs -----------------------
(***************************************************************************)
(* Proofs about PayloadBinding, for any bytes, any MaxPayloadLen and any   *)
(* requests whose transport delivers no more than the declared length.     *)
(***************************************************************************)
EXTENDS PayloadBinding, SequenceTheorems, TLAPS

(* What a prefix and the rest of a sequence are.                           *)
LEMMA Split ==
    ASSUME NEW s \in Seq(Bytes), NEW n \in 0 .. Len(s)
    PROVE  /\ Take(s, n) \in Seq(Bytes) /\ Len(Take(s, n)) = n
           /\ Drop(s, n) \in Seq(Bytes) /\ Len(Drop(s, n)) = Len(s) - n
           /\ Take(s, n) \o Drop(s, n) = s
           /\ n = Len(s) => Take(s, n) = s /\ Drop(s, n) = << >>
           /\ n = 0 => Take(s, n) = << >> /\ Drop(s, n) = s
<1>1. Len(s) \in Nat /\ n \in Nat /\ n <= Len(s)
  BY LenProperties
<1>2. \A i \in 1 .. Len(s) : s[i] \in Bytes
  BY ElementOfSeq
<1>3. Take(s, n) \in Seq(Bytes) /\ Len(Take(s, n)) = n
  <2>1. \A i \in 1 .. n : s[i] \in Bytes
    BY <1>1, <1>2
  <2> QED  BY <1>1, <2>1, SubSeqProperties DEF Take
<1>4. Drop(s, n) \in Seq(Bytes) /\ Len(Drop(s, n)) = Len(s) - n
  <2>1. \A i \in n + 1 .. Len(s) : s[i] \in Bytes
    BY <1>1, <1>2
  <2>2. /\ SubSeq(s, n + 1, Len(s)) \in Seq(Bytes)
        /\ Len(SubSeq(s, n + 1, Len(s))) =
              IF n + 1 <= Len(s) THEN Len(s) - (n + 1) + 1 ELSE 0
    BY <1>1, <2>1, SubSeqProperties
  <2> QED  BY <1>1, <2>2 DEF Drop
<1>5. SubSeq(s, 1, Len(s)) = s
  BY SubSeqFull
<1>6. Take(s, n) \o Drop(s, n) = s
  <2>1. 1 \in 1 .. Len(s) + 1 /\ n \in 1 - 1 .. Len(s) /\ Len(s) \in n .. Len(s)
    BY <1>1
  <2>2. SubSeq(s, 1, n) \o SubSeq(s, n + 1, Len(s)) = SubSeq(s, 1, Len(s))
    BY <2>1, ConcatAdjacentSubSeq
  <2> QED  BY <1>5, <2>2 DEF Take, Drop
<1>7. n = Len(s) => Take(s, n) = s /\ Drop(s, n) = << >>
  BY <1>1, <1>5, SubSeqEmpty DEF Take, Drop
<1>8. n = 0 => Take(s, n) = << >> /\ Drop(s, n) = s
  BY <1>1, <1>5, SubSeqEmpty DEF Take, Drop
<1> QED  BY <1>3, <1>4, <1>6, <1>7, <1>8

(* Joining what is read to what was read before.                           *)
LEMMA Join ==
    ASSUME NEW s \in Seq(Bytes), NEW t \in Seq(Bytes), NEW u \in Seq(Bytes)
    PROVE  /\ s \o t \in Seq(Bytes) /\ Len(s \o t) = Len(s) + Len(t)
           /\ (s \o t) \o u = s \o (t \o u)
<1>1. s \o t \in Seq(Bytes) /\ Len(s \o t) = Len(s) + Len(t)
  BY ConcatProperties
<1>2. (s \o t) \o u = s \o (t \o u)
  BY ConcatAssociative
<1> QED  BY <1>1, <1>2

(* Two digests are the same when they are of the same content.             *)
LEMMA SameDigest ==
    ASSUME NEW h \in ContentHash, NEW s \in Seq(Bytes)
    PROVE  Digest(s) = ToLower(h) <=> h.kind = "digest" /\ h.of = s
<1>1. ASSUME NEW a, NEW b
      PROVE  [kind |-> "digest", of |-> s, upper |-> FALSE] = [kind |-> a, of |-> b, upper |-> FALSE]
               <=> a = "digest" /\ b = s
  OBVIOUS
<1> QED  BY <1>1 DEF Digest, ToLower

LEMMA LengthType == OnWire(request) => request.length \in Int
<1>1. request.length \in Nat \cup {-1} => request.length \in Int
  OBVIOUS
<1> QED  BY <1>1 DEF OnWire

LEMMA HashType ==
    /\ \A s \in Seq(Bytes) : Digest(s) \in ContentHash
    /\ \A m \in ContentModes : Sentinel(m) \in ContentHash
    /\ EmptyPayload \in ContentHash
<1>1. << >> \in Seq(Bytes)
  BY EmptySeq
<1> QED  BY <1>1 DEF Digest, Sentinel, EmptyPayload, ContentHash

(* A Read of the transport leaves the types as they are.                   *)
LEMMA ReturnType ==
    ASSUME NEW b \in Seq(Bytes), NEW err \in Errors, got \in Seq(Bytes), sawEOF \in BOOLEAN,
           Return(b, err)
    PROVE  got' \in Seq(Bytes) /\ sawEOF' \in BOOLEAN /\ result' \in Errors
<1>1. got \o b \in Seq(Bytes)
  BY ConcatProperties
<1>2. (sawEOF \/ err = "EOF") \in BOOLEAN
  OBVIOUS
<1> QED  BY <1>1, <1>2 DEF Return

LEMMA ReadingType ==
    ASSUME TypeOK, NEW n \in 0 .. Len(left), NEW err, Reading(n, err)
    PROVE  left' \in Seq(Bytes) /\ hashed' \in Seq(Bytes) /\ remaining' \in Int
<1>1. left \in Seq(Bytes) /\ hashed \in Seq(Bytes) /\ remaining \in Int
  BY DEF TypeOK
<1>2. Take(left, n) \in Seq(Bytes) /\ Drop(left, n) \in Seq(Bytes)
  BY <1>1, Split
<1>3. hashed \o Take(left, n) \in Seq(Bytes)
  BY <1>1, <1>2, ConcatProperties
<1> QED  BY <1>1, <1>2, <1>3 DEF Reading, Hash

(* Nothing goes wrong with a value's type in a step; in particular the     *)
(* content hash is always a mode or a digest (payload.go 15-31).           *)
LEMMA TypeStep == TypeOK /\ [Next]_vars => TypeOK'
<1> SUFFICES ASSUME TypeOK, [Next]_vars PROVE TypeOK'
  OBVIOUS
<1> USE DEF Errors, Endings
<1>0. << >> \in Seq(Bytes)
  BY EmptySeq
<1>1. CASE ParsePresigned
  BY <1>1, HashType DEF TypeOK, ParsePresigned, Resolve, ContentModes, wrapper, seen
<1>2. CASE ParseHeader
  <2>1. request.header \in ContentHash
    BY <1>2 DEF TypeOK, OnWire, ParseHeader, Recognised, HeaderValue, ContentHash
  <2> QED  BY <1>2, <2>1 DEF TypeOK, ParseHeader, Resolve, wrapper, seen
<1>3. CASE RefuseHeader
  BY <1>3 DEF TypeOK, RefuseHeader, Refuse, wrapper, seen
<1>4. CASE ParseBodyless
  BY <1>4, HashType DEF TypeOK, ParseBodyless, Resolve, wrapper, seen
<1>5. CASE ParseBody
  <2>0. left \in Seq(Bytes) /\ Len(left) \in Nat
    BY LenProperties DEF TypeOK
  <2>1. LimitedTo(Len(left)) \in 0 .. Len(left)
    BY <2>0, LenAssumption DEF LimitedTo
  <2>2. /\ Take(left, LimitedTo(Len(left))) \in Seq(Bytes)
        /\ Drop(left, LimitedTo(Len(left))) \in Seq(Bytes)
    BY <2>0, <2>1, Split
  <2>3. Digest(Take(left, LimitedTo(Len(left)))) \in ContentHash
    BY <2>2, HashType
  <2> QED  BY <1>5, <2>2, <2>3 DEF TypeOK, ParseBody, Refuse, wrapper, seen
<1>6. CASE RefuseScope \/ RefuseSignature
  BY <1>6 DEF TypeOK, RefuseScope, RefuseSignature, Refuse, wrapper, seen
<1>7. CASE SignatureMatches \/ BindNothing
  BY <1>7 DEF TypeOK, SignatureMatches, BindNothing, wrapper, seen
<1>8. CASE BindBodyless
  BY <1>8 DEF TypeOK, BindBodyless, Refuse, wrapper, seen
<1>9. CASE BindBuffered
  <2>0. left \in Seq(Bytes) /\ Len(left) \in Nat
    BY LenProperties DEF TypeOK
  <2>1. request.length \in 0 .. Len(left)
    <3>1. request.length \in Int
      BY LengthType DEF TypeOK
    <3>2. request.length >= 0 /\ Len(left) >= request.length
      BY <1>9 DEF BindBuffered, Modest, Sized
    <3> QED  BY <2>0, <3>1, <3>2
  <2>2. Take(left, request.length) \in Seq(Bytes) /\ Drop(left, request.length) \in Seq(Bytes)
    BY <2>0, <2>1, Split
  <2> QED  BY <1>9, <2>2 DEF TypeOK, BindBuffered, Refuse, wrapper, seen
<1>10. CASE BindShort
  BY <1>0, <1>10 DEF TypeOK, BindShort, Refuse, wrapper, seen
<1>11. CASE BindStream
  BY <1>11, LengthType DEF TypeOK, BindStream, wrapper, seen
<1>12. ASSUME NEW n \in 0 .. Len(left), NEW err \in Endings \cup {"nil"}, ReadTransport(n, err)
       PROVE  TypeOK'
  <2>1. Take(left, n) \in Seq(Bytes) /\ Drop(left, n) \in Seq(Bytes)
    BY Split DEF TypeOK
  <2>2. got' \in Seq(Bytes) /\ sawEOF' \in BOOLEAN /\ result' \in Errors
    BY <1>12, <2>1, ReturnType DEF TypeOK, ReadTransport
  <2> QED  BY <1>12, <2>1, <2>2 DEF TypeOK, ReadTransport, wrapper
<1>13. ASSUME NEW n \in 0 .. Len(left), NEW err \in Endings \cup {"nil"},
              ReadFails(n, err) \/ ReadCompletes(n, err) \/ ReadContinues(n, err)
       PROVE  TypeOK'
  <2>1. Take(left, n) \in Seq(Bytes)
    BY Split DEF TypeOK
  <2>2. Reading(n, err)
    BY <1>13 DEF ReadFails, ReadCompletes, ReadContinues
  <2>3. \E b \in Seq(Bytes), e \in Errors : Return(b, e)
    BY <1>0, <1>13, <2>1 DEF ReadFails, ReadCompletes, ReadContinues, Fail
  <2>4. got' \in Seq(Bytes) /\ sawEOF' \in BOOLEAN /\ result' \in Errors
    BY <2>3, ReturnType DEF TypeOK
  <2>5. verified' \in BOOLEAN /\ failed' \in BOOLEAN
    BY <1>13 DEF TypeOK, ReadFails, ReadCompletes, ReadContinues, Fail
  <2>6. left' \in Seq(Bytes) /\ hashed' \in Seq(Bytes) /\ remaining' \in Int
    BY <2>2, ReadingType
  <2> QED  BY <2>2, <2>4, <2>5, <2>6 DEF TypeOK, Reading
<1>14. ASSUME NEW n \in 0 .. Len(buffer), ReadBuffer(n)
       PROVE  TypeOK'
  <2>1. Take(buffer, n) \in Seq(Bytes) /\ Drop(buffer, n) \in Seq(Bytes)
    BY Split DEF TypeOK
  <2>2. got' \in Seq(Bytes) /\ sawEOF' \in BOOLEAN /\ result' \in Errors
    BY <1>14, <2>1, ReturnType DEF TypeOK, ReadBuffer
  <2> QED  BY <1>14, <2>1, <2>2 DEF TypeOK, ReadBuffer, wrapper
<1>15. CASE ReadAfterFailure
  <2>1. got' \in Seq(Bytes) /\ sawEOF' \in BOOLEAN /\ result' \in Errors
    BY <1>0, <1>15, ReturnType DEF TypeOK, ReadAfterFailure
  <2> QED  BY <1>15, <2>1 DEF TypeOK, ReadAfterFailure, wrapper
<1>16. CASE UNCHANGED vars
  BY <1>16 DEF TypeOK, vars, wrapper, seen
<1> QED
  BY <1>1, <1>2, <1>3, <1>4, <1>5, <1>6, <1>7, <1>8, <1>9, <1>10, <1>11, <1>12, <1>13,
     <1>14, <1>15, <1>16 DEF Next, ReadBody, Refused

LEMMA TypeInit == Init => TypeOK
<1>1. << >> \in Seq(Bytes)
  BY EmptySeq
<1>2. Init => OnWire(request)
  BY RequestsAssumption DEF Init
<1>3. OnWire(request) => request.sent \in Seq(Bytes)
  BY DEF OnWire
<1>4. Init => verified \in BOOLEAN /\ failed \in BOOLEAN /\ sawEOF \in BOOLEAN
  BY DEF Init
<1>5. Init => /\ left \in Seq(Bytes) /\ buffer \in Seq(Bytes) /\ hashed \in Seq(Bytes)
              /\ got \in Seq(Bytes) /\ contentHash \in ContentHash
  BY <1>1, <1>2, <1>3, HashType DEF Init
<1>6. Init => remaining \in Int /\ result \in Errors
  BY DEF Init, Errors
<1>7. Init => /\ phase \in {"parse", "verify", "bind", "serve", "refused"}
              /\ reader \in {"transport", "buffer", "verifiedBody"}
  BY DEF Init
<1> QED  BY <1>2, <1>4, <1>5, <1>6, <1>7 DEF TypeOK

(* Every reachable state has the types the module declares.                *)
THEOREM TypeCorrect == Spec => []TypeOK
  BY TypeInit, TypeStep, PTL DEF Spec
----------------------------------------------------------------------------
(* Until a handler runs nothing was delivered, and the body of a request   *)
(* to S3 is untouched.                                                     *)
Undelivered ==
    /\ phase # "serve" => got = << >> /\ ~sawEOF
    /\ phase = "parse" => reader = "transport"
    /\ phase \in {"verify", "bind"} /\ IsS3 => reader = "transport"
    /\ phase \in {"parse", "verify", "bind"} /\ reader = "transport" => left = request.sent
    /\ reader = "verifiedBody" => phase = "serve"
    /\ reader # "verifiedBody" => hashed = << >> /\ ~verified /\ ~failed

(* Where the content hash comes from.                                      *)
HashOK ==
    /\ phase \in {"bind", "serve"} => contentHash = request.signedHash
    /\ phase \in {"verify", "bind", "serve"} /\ IsS3 /\ contentHash.kind = "digest" =>
            contentHash = request.header
    /\ phase \in {"verify", "bind"} /\ ~IsS3 =>
            \/ reader = "transport" /\ contentHash = EmptyPayload /\ request.sent = << >>
            \/ reader = "buffer" /\ contentHash = Digest(buffer) /\ Len(buffer) <= Len(request.sent)

(* A body that is bound and read from the transport is empty.              *)
FromTransport ==
    phase = "serve" /\ reader = "transport" /\ contentHash.kind = "digest" =>
        left = << >> /\ got = << >> /\ contentHash.of = << >>

(* A rewound body is what was hashed.                                      *)
FromBuffer ==
    phase = "serve" /\ reader = "buffer" =>
        /\ contentHash.kind = "digest"
        /\ got \o buffer = contentHash.of
        /\ sawEOF => buffer = << >>
        /\ Sized => Len(contentHash.of) <= request.length

(* A streamed body: the hash is of what was read, and until it fails the   *)
(* handler has what was hashed.                                            *)
Streamed ==
    reader = "verifiedBody" =>
        /\ IsS3 /\ contentHash.kind = "digest"
        /\ hashed \o left = request.sent
        /\ remaining = request.length - Len(hashed)
        /\ ~failed => got = hashed
        /\ ~failed /\ ~verified => ~sawEOF /\ (Sized => remaining > 0)
        /\ verified => left = << >> /\ hashed = contentHash.of
        /\ LooksComplete => got = contentHash.of

IInv == Undelivered /\ HashOK /\ FromTransport /\ FromBuffer /\ Streamed

LEMMA IInvInit == Init => IInv
<1>1. Init => Undelivered /\ HashOK
  BY DEF Init, Undelivered, HashOK
<1>2. Init => FromTransport /\ FromBuffer /\ Streamed
  BY DEF Init, FromTransport, FromBuffer, Streamed
<1> QED  BY <1>1, <1>2 DEF IInv

(* What one read of the transport does to a streamed body.                 *)
LEMMA Chunk ==
    ASSUME TypeOK, IInv, NEW n \in 0 .. Len(left), NEW err \in Endings \cup {"nil"},
           Reading(n, err)
    PROVE  /\ hashed' = hashed \o Take(left, n) /\ hashed' \in Seq(Bytes)
           /\ hashed' \o left' = request.sent
           /\ Len(hashed) \in Nat /\ Len(hashed') = Len(hashed) + n
           /\ Len(request.sent) = Len(hashed) + Len(left)
           /\ remaining' = request.length - Len(hashed')
           /\ err # "nil" => n = Len(left)
           /\ n = Len(left) => left' = << >> /\ hashed' = request.sent
           /\ left = << >> => left' = << >> /\ hashed' = hashed
<1>1. /\ left \in Seq(Bytes) /\ hashed \in Seq(Bytes) /\ n \in Nat
      /\ Len(left) \in Nat /\ Len(hashed) \in Nat
  BY LenProperties DEF TypeOK
<1>2. /\ Take(left, n) \in Seq(Bytes) /\ Len(Take(left, n)) = n
      /\ Drop(left, n) \in Seq(Bytes)
      /\ Take(left, n) \o Drop(left, n) = left
      /\ n = Len(left) => Take(left, n) = left /\ Drop(left, n) = << >>
      /\ n = 0 => Take(left, n) = << >> /\ Drop(left, n) = left
  BY <1>1, Split
<1>3. /\ hashed' = hashed \o Take(left, n) /\ left' = Drop(left, n)
      /\ remaining' = remaining - n
  BY DEF Reading, Hash
<1>4. hashed \o left = request.sent /\ remaining = request.length - Len(hashed)
  BY DEF IInv, Streamed, Reading
<1>5. hashed' \in Seq(Bytes) /\ Len(hashed') = Len(hashed) + n
  <2>1. /\ hashed \o Take(left, n) \in Seq(Bytes)
        /\ Len(hashed \o Take(left, n)) = Len(hashed) + Len(Take(left, n))
    BY <1>1, <1>2, Join
  <2> QED  BY <1>2, <1>3, <2>1
<1>6. hashed' \o left' = request.sent
  <2>1. (hashed \o Take(left, n)) \o Drop(left, n) = hashed \o (Take(left, n) \o Drop(left, n))
    BY <1>1, <1>2, Join
  <2> QED  BY <1>2, <1>3, <1>4, <2>1
<1>7. Len(request.sent) = Len(hashed) + Len(left)
  BY <1>1, <1>4, ConcatProperties
<1>8. remaining' = request.length - Len(hashed')
  <2>1. request.length \in Int
    BY LengthType DEF TypeOK
  <2> QED  BY <1>1, <1>3, <1>4, <1>5, <2>1
<1>9. err # "nil" => n = Len(left)
  BY DEF Reading, TransportReads
<1>10. n = Len(left) => left' = << >> /\ hashed' = request.sent
  BY <1>2, <1>3, <1>4
<1>11. left = << >> => left' = << >> /\ hashed' = hashed
  <2>1. left = << >> => n = 0
    BY EmptySeq
  <2>2. hashed \o << >> = hashed
    BY <1>1, ConcatEmptySeq
  <2> QED  BY <1>2, <1>3, <2>1, <2>2
<1> QED  BY <1>1, <1>3, <1>5, <1>6, <1>7, <1>8, <1>9, <1>10, <1>11

(* The whole of a streamed body was read when a read completes it.         *)
LEMMA CompletesAll ==
    ASSUME TypeOK, IInv, NEW n \in 0 .. Len(left), NEW err \in Endings \cup {"nil"},
           Reading(n, err), Completes(n, err)
    PROVE  n = Len(left)
<1>1. CASE err = "EOF"
  BY <1>1, Chunk
<1>2. CASE Sized /\ remaining - n <= 0
  <2>1. request.length \in Int /\ Len(left) \in Nat /\ n \in Nat /\ n <= Len(left)
    BY LengthType, LenProperties DEF TypeOK
  <2>2. remaining = request.length - Len(hashed)
    BY DEF IInv, Streamed, Reading
  <2>3. Len(request.sent) <= request.length
    BY <1>2 DEF TypeOK, OnWire, Sized
  <2>4. Len(hashed) \in Nat /\ Len(request.sent) = Len(hashed) + Len(left)
    BY Chunk
  <2> QED  BY <1>2, <2>1, <2>2, <2>3, <2>4
<1> QED  BY <1>1, <1>2 DEF Completes

(* A step of a streamed body keeps the other parts of the invariant.       *)
LEMMA ReadingOther ==
    ASSUME IInv, NEW n, NEW err, Reading(n, err)
    PROVE  Undelivered' /\ HashOK' /\ FromTransport' /\ FromBuffer'
<1>1. /\ phase = "serve" /\ phase' = phase /\ reader = "verifiedBody" /\ reader' = reader
      /\ UNCHANGED << request, contentHash, buffer >>
  BY DEF Reading
<1>2. Undelivered'
  BY <1>1 DEF Undelivered
<1>3. HashOK'
  BY <1>1 DEF IInv, HashOK, IsS3
<1>4. FromTransport' /\ FromBuffer'
  BY <1>1 DEF FromTransport, FromBuffer
<1> QED  BY <1>2, <1>3, <1>4

LEMMA StreamStep ==
    ASSUME TypeOK, IInv, NEW n \in 0 .. Len(left), NEW err \in Endings \cup {"nil"},
           ReadFails(n, err) \/ ReadCompletes(n, err) \/ ReadContinues(n, err)
    PROVE  IInv'
<1>1. Reading(n, err)
  BY DEF ReadFails, ReadCompletes, ReadContinues
<1>2. /\ reader = "verifiedBody" /\ reader' = reader /\ ~failed
      /\ UNCHANGED << request, contentHash >>
      /\ IsS3' = IsS3 /\ Sized' = Sized
  BY <1>1 DEF Reading, IsS3, Sized
<1>3. /\ IsS3 /\ contentHash.kind = "digest"
      /\ got = hashed
      /\ ~verified => ~sawEOF
      /\ verified => left = << >> /\ hashed = contentHash.of
      /\ LooksComplete => got = contentHash.of
  BY <1>2 DEF IInv, Streamed
<1>4. /\ hashed' = hashed \o Take(left, n)
      /\ hashed' \o left' = request.sent
      /\ remaining' = request.length - Len(hashed')
      /\ n = Len(left) => left' = << >>
      /\ left = << >> => left' = << >> /\ hashed' = hashed
  BY <1>1, Chunk
<1>5. request.length \in Int /\ Len(hashed') \in Nat /\ hashed' \in Seq(Bytes) /\ got \in Seq(Bytes)
  BY <1>1, Chunk, LengthType, LenProperties DEF TypeOK
<1>6. CASE ReadFails(n, err)
  <2>1. failed' /\ got' = got /\ sawEOF' = sawEOF /\ verified' = verified
    <3>1. got \o << >> = got
      BY <1>5, ConcatEmptySeq
    <3>2. got' = got \o << >> /\ sawEOF' = (sawEOF \/ FALSE) /\ failed' = TRUE
      BY <1>6 DEF ReadFails, Fail, Return
    <3>3. sawEOF \in BOOLEAN
      BY DEF TypeOK
    <3> QED  BY <1>6, <3>1, <3>2, <3>3 DEF ReadFails
  <2>2. LooksComplete' = LooksComplete
    BY <1>2, <2>1 DEF LooksComplete, Sized
  <2>3. Streamed'
    BY <1>2, <1>3, <1>4, <2>1, <2>2 DEF Streamed
  <2> QED  BY <1>1, <2>3, ReadingOther DEF IInv
<1>7. CASE ReadCompletes(n, err)
  <2>1. verified' /\ ~failed' /\ got' = hashed'
    BY <1>2, <1>3, <1>4, <1>7 DEF ReadCompletes, Return
  <2>2. n = Len(left)
    BY <1>1, <1>7, CompletesAll DEF ReadCompletes
  <2>3. hashed' = contentHash.of
    <3>1. Digest(hashed') = ToLower(contentHash)
      BY <1>4, <1>7 DEF ReadCompletes, Matches
    <3> QED  BY <1>5, <3>1, SameDigest DEF TypeOK
  <2>4. Streamed'
    BY <1>2, <1>3, <1>4, <2>1, <2>2, <2>3 DEF Streamed
  <2> QED  BY <1>1, <2>4, ReadingOther DEF IInv
<1>8. CASE ReadContinues(n, err)
  <2>1. /\ verified' = verified /\ ~failed' /\ got' = hashed'
        /\ sawEOF' <=> (sawEOF \/ err = "EOF")
    BY <1>2, <1>3, <1>4, <1>8 DEF ReadContinues, Return
  <2>2. ASSUME verified PROVE Streamed'
    <3>1. verified' /\ ~failed' /\ left' = << >> /\ hashed' = contentHash.of
      BY <1>3, <1>4, <2>1, <2>2
    <3> QED  BY <1>2, <1>3, <1>4, <2>1, <3>1 DEF Streamed
  <2>3. ASSUME ~verified PROVE Streamed'
    <3>1. ~sawEOF' /\ (Sized => remaining - n > 0)
      <4>1. err # "EOF" /\ ~(Sized /\ remaining - n <= 0)
        BY <1>8, <2>3 DEF ReadContinues, Completes
      <4>2. remaining \in Int
        BY DEF TypeOK
      <4> QED  BY <1>3, <2>1, <2>3, <4>1, <4>2
    <3>2. remaining' = remaining - n
      BY <1>1 DEF Reading, Hash
    <3>3. ~LooksComplete'
      BY <1>2, <1>4, <1>5, <2>1, <3>1, <3>2 DEF LooksComplete
    <3>4. ~verified' /\ (Sized' => remaining' > 0)
      BY <1>2, <2>1, <2>3, <3>1, <3>2
    <3> QED  BY <1>2, <1>3, <1>4, <2>1, <3>1, <3>3, <3>4 DEF Streamed
  <2> QED  BY <1>1, <2>2, <2>3, ReadingOther DEF IInv
<1> QED  BY <1>6, <1>7, <1>8

(* The whole body of modest size, or the body Parse buffered.              *)
LEMMA IInvStep == TypeOK /\ IInv /\ [Next]_vars => IInv'
<1> SUFFICES ASSUME TypeOK, IInv, [Next]_vars PROVE IInv'
  OBVIOUS
<1> USE DEF IsS3, Sized
<1>0. /\ left \in Seq(Bytes) /\ Len(left) \in Nat /\ buffer \in Seq(Bytes)
      /\ got \in Seq(Bytes) /\ contentHash \in ContentHash
      /\ << >> \in Seq(Bytes) /\ Len(<< >>) = 0
      /\ request.length \in Int /\ OnWire(request) /\ request.sent \in Seq(Bytes)
  BY EmptySeq, LenProperties, LengthType DEF TypeOK, OnWire
<1>1. CASE ParsePresigned \/ ParseHeader \/ RefuseHeader \/ ParseBodyless
  <2>1. UNCHANGED << request, left, reader, buffer, wrapper, seen >>
    BY <1>1 DEF ParsePresigned, ParseHeader, RefuseHeader, ParseBodyless, Resolve
  <2>2. phase = "parse" /\ phase' \in {"verify", "refused"}
    BY <1>1 DEF ParsePresigned, ParseHeader, RefuseHeader, ParseBodyless, Resolve, Refuse
  <2>3. Undelivered'
    BY <2>1, <2>2 DEF IInv, Undelivered, wrapper, seen
  <2>4. HashOK'
    <3>1. ASSUME phase' = "verify", IsS3', contentHash'.kind = "digest"
          PROVE  contentHash' = request'.header
      BY <1>1, <2>1, <2>2, <3>1 DEF ParsePresigned, ParseHeader, RefuseHeader, ParseBodyless,
             Resolve, Refuse, Sentinel, ContentModes
    <3>2. ASSUME phase' = "verify", ~IsS3'
          PROVE  reader' = "transport" /\ contentHash' = EmptyPayload /\ request'.sent = << >>
      BY <1>0, <1>1, <2>1, <2>2, <3>2 DEF ParsePresigned, ParseHeader, RefuseHeader,
             ParseBodyless, Resolve, Refuse, IInv, Undelivered, OnWire
    <3> QED  BY <2>2, <3>1, <3>2 DEF HashOK
  <2>5. FromTransport' /\ FromBuffer' /\ Streamed'
    BY <2>1, <2>2 DEF IInv, Undelivered, FromTransport, FromBuffer, Streamed
  <2> QED  BY <2>3, <2>4, <2>5 DEF IInv
<1>2. CASE ParseBody
  <2>1. /\ phase = "parse" /\ phase' \in {"verify", "refused"} /\ ~IsS3 /\ ~IsS3'
        /\ UNCHANGED << request, wrapper, seen >>
    BY <1>2 DEF ParseBody, Refuse
  <2>2. reader = "transport" /\ left = request.sent
    BY <2>1 DEF IInv, Undelivered
  <2>3. LimitedTo(Len(left)) \in 0 .. Len(left)
    BY <1>0, LenAssumption DEF LimitedTo
  <2>4. Len(Take(left, LimitedTo(Len(left)))) = LimitedTo(Len(left))
    BY <1>0, <2>3, Split
  <2>5. phase' = "verify" => /\ reader' = "buffer" /\ contentHash' = Digest(buffer')
                             /\ Len(buffer') <= Len(request.sent)
    BY <1>0, <1>2, <2>2, <2>3, <2>4 DEF ParseBody, Refuse
  <2>6. phase' = "refused" => reader' = "transport"
    BY <1>2, <2>2 DEF ParseBody, Refuse
  <2>7. Undelivered' /\ HashOK'
    BY <2>1, <2>5, <2>6 DEF IInv, Undelivered, HashOK, wrapper, seen
  <2>8. FromTransport' /\ FromBuffer' /\ Streamed'
    BY <2>1, <2>5, <2>6 DEF FromTransport, FromBuffer, Streamed
  <2> QED  BY <2>7, <2>8 DEF IInv
<1>3. CASE RefuseScope \/ RefuseSignature \/ SignatureMatches
  <2>1. /\ phase = "verify" /\ phase' \in {"refused", "bind"}
        /\ phase' = "bind" => contentHash = request.signedHash
        /\ UNCHANGED << request, contentHash, left, reader, buffer, wrapper, seen >>
    BY <1>3 DEF RefuseScope, RefuseSignature, SignatureMatches, Refuse
  <2>2. Undelivered' /\ HashOK'
    BY <2>1 DEF IInv, Undelivered, HashOK, wrapper, seen
  <2>3. FromTransport' /\ FromBuffer' /\ Streamed'
    BY <2>1 DEF IInv, Undelivered, FromTransport, FromBuffer, Streamed
  <2> QED  BY <2>2, <2>3 DEF IInv
<1>4. CASE BindNothing
  <2>1. /\ phase = "bind" /\ phase' = "serve" /\ reader # "verifiedBody"
        /\ UNCHANGED << request, contentHash, left, reader, buffer, wrapper, seen >>
    BY <1>4 DEF BindNothing, IInv, Undelivered
  <2>2. Undelivered' /\ HashOK'
    BY <2>1 DEF IInv, Undelivered, HashOK, wrapper, seen
  <2>3. got = << >> /\ ~sawEOF
    BY <2>1 DEF IInv, Undelivered
  <2>4. FromTransport'
    <3>1. ASSUME reader = "transport", contentHash.kind = "digest"
          PROVE  contentHash = EmptyPayload /\ left = << >>
      BY <1>4, <2>1, <3>1 DEF BindNothing, AlreadyBound, IInv, Undelivered, HashOK
    <3> QED  BY <2>1, <2>3, <3>1 DEF FromTransport, EmptyPayload, Digest, seen
  <2>5. FromBuffer'
    <3>1. ASSUME reader = "buffer"
          PROVE  contentHash = Digest(buffer) /\ Len(buffer) <= Len(request.sent)
      BY <1>4, <2>1, <3>1 DEF BindNothing, AlreadyBound, IInv, Undelivered, HashOK
    <3>2. << >> \o buffer = buffer
      BY <1>0, ConcatEmptySeq
    <3>3. Sized => Len(request.sent) <= request.length
      BY <1>0 DEF OnWire
    <3>4. Len(buffer) \in Nat /\ Len(request.sent) \in Nat
      BY <1>0, LenProperties
    <3> QED  BY <1>0, <2>1, <2>3, <3>1, <3>2, <3>3, <3>4 DEF FromBuffer, Digest, seen
  <2>6. Streamed'
    BY <2>1 DEF Streamed
  <2> QED  BY <2>2, <2>4, <2>5, <2>6 DEF IInv
<1>5. CASE BindBodyless
  <2>1. /\ phase = "bind" /\ phase' \in {"serve", "refused"} /\ IsS3
        /\ contentHash.kind = "digest" /\ reader = "transport" /\ left = request.sent
        /\ request.sent = << >> /\ got = << >>
        /\ UNCHANGED << request, contentHash, left, reader, buffer, wrapper, seen >>
    BY <1>0, <1>5 DEF BindBodyless, AlreadyBound, Refuse, IInv, Undelivered, OnWire
  <2>2. phase' = "serve" => contentHash.of = << >>
    BY <1>0, <1>5, SameDigest DEF BindBodyless, Refuse, EmptyPayload
  <2>3. Undelivered' /\ HashOK'
    BY <2>1 DEF IInv, Undelivered, HashOK, wrapper, seen
  <2>4. FromTransport' /\ FromBuffer' /\ Streamed'
    BY <2>1, <2>2 DEF FromTransport, FromBuffer, Streamed, seen
  <2> QED  BY <2>3, <2>4 DEF IInv
<1>6. CASE BindBuffered
  <2>1. /\ phase = "bind" /\ phase' \in {"serve", "refused"} /\ IsS3
        /\ contentHash.kind = "digest" /\ got = << >> /\ ~sawEOF /\ reader = "transport"
        /\ reader' = "buffer"
        /\ UNCHANGED << request, contentHash, wrapper, seen >>
    BY <1>6 DEF BindBuffered, AlreadyBound, Refuse, IInv, Undelivered
  <2>2. request.length \in 0 .. Len(left)
    BY <1>0, <1>6 DEF BindBuffered, Modest
  <2>3. buffer' \in Seq(Bytes) /\ Len(buffer') = request.length
    BY <1>0, <1>6, <2>2, Split DEF BindBuffered
  <2>4. phase' = "serve" => contentHash.of = buffer'
    BY <1>0, <1>6, <2>3, SameDigest DEF BindBuffered, Refuse
  <2>5. << >> \o buffer' = buffer'
    BY <2>3, ConcatEmptySeq
  <2>6. Undelivered' /\ HashOK'
    BY <2>1 DEF IInv, Undelivered, HashOK, wrapper, seen
  <2>7. FromBuffer'
    BY <1>0, <2>1, <2>3, <2>4, <2>5 DEF FromBuffer, seen
  <2>8. FromTransport' /\ Streamed'
    BY <2>1 DEF FromTransport, Streamed
  <2> QED  BY <2>6, <2>7, <2>8 DEF IInv
<1>7. CASE BindShort
  <2>1. /\ phase = "bind" /\ phase' = "refused" /\ reader = "transport"
        /\ UNCHANGED << request, contentHash, reader, buffer, wrapper, seen >>
    BY <1>7 DEF BindShort, AlreadyBound, Refuse, IInv, Undelivered
  <2>2. Undelivered' /\ HashOK'
    BY <2>1 DEF IInv, Undelivered, HashOK, wrapper, seen
  <2>3. FromTransport' /\ FromBuffer' /\ Streamed'
    BY <2>1 DEF FromTransport, FromBuffer, Streamed
  <2> QED  BY <2>2, <2>3 DEF IInv
<1>8. CASE BindStream
  <2>1. /\ phase = "bind" /\ phase' = "serve" /\ reader = "transport" /\ IsS3
        /\ contentHash.kind = "digest" /\ left = request.sent /\ reader' = "verifiedBody"
        /\ remaining' = request.length
        /\ hashed = << >> /\ ~verified /\ ~failed /\ got = << >> /\ ~sawEOF
        /\ UNCHANGED << request, contentHash, left, buffer, hashed, verified, failed, seen >>
    BY <1>8 DEF BindStream, AlreadyBound, IInv, Undelivered
  <2>2. Sized => request.length > 0
    BY <1>0, <1>8, LenAssumption DEF BindStream, Modest
  <2>3. << >> \o left = left
    BY <1>0, ConcatEmptySeq
  <2>4. Undelivered' /\ HashOK'
    BY <2>1 DEF IInv, Undelivered, HashOK, seen
  <2>5. ~LooksComplete'
    BY <1>0, <2>1, <2>2 DEF LooksComplete, seen
  <2>6. Streamed'
    BY <1>0, <2>1, <2>2, <2>3, <2>5 DEF Streamed, seen
  <2>7. FromTransport' /\ FromBuffer'
    BY <2>1 DEF FromTransport, FromBuffer
  <2> QED  BY <2>4, <2>6, <2>7 DEF IInv
<1>9. ASSUME NEW n \in 0 .. Len(left), NEW err \in Endings \cup {"nil"}, ReadTransport(n, err)
      PROVE  IInv'
  <2>1. /\ phase = "serve" /\ phase' = phase /\ reader = "transport" /\ reader' = reader
        /\ UNCHANGED << request, contentHash, buffer, wrapper >>
        /\ left' = Drop(left, n) /\ got' = got \o Take(left, n)
    BY <1>9 DEF ReadTransport, Return
  <2>2. left = << >> => left' = << >> /\ got' = got
    <3>1. left = << >> => n = 0
      BY <1>0
    <3>2. n = 0 => Take(left, n) = << >> /\ Drop(left, n) = left
      BY <1>0, Split
    <3>3. got \o << >> = got
      BY <1>0, ConcatEmptySeq
    <3> QED  BY <2>1, <3>1, <3>2, <3>3
  <2>3. Undelivered' /\ HashOK'
    BY <2>1 DEF IInv, Undelivered, HashOK, wrapper
  <2>4. FromTransport' /\ FromBuffer' /\ Streamed'
    BY <2>1, <2>2 DEF IInv, FromTransport, FromBuffer, Streamed
  <2> QED  BY <2>3, <2>4 DEF IInv
<1>10. ASSUME NEW n \in 0 .. Len(buffer), ReadBuffer(n)
       PROVE  IInv'
  <2>1. /\ phase = "serve" /\ phase' = phase /\ reader = "buffer" /\ reader' = reader
        /\ UNCHANGED << request, contentHash, left, wrapper >>
        /\ buffer' = Drop(buffer, n) /\ got' = got \o Take(buffer, n)
        /\ sawEOF' <=> (sawEOF \/ n = 0)
    BY <1>10 DEF ReadBuffer, Return
  <2>2. /\ Take(buffer, n) \in Seq(Bytes) /\ Drop(buffer, n) \in Seq(Bytes)
        /\ Take(buffer, n) \o Drop(buffer, n) = buffer
        /\ n = 0 => Drop(buffer, n) = buffer
    BY <1>0, Split
  <2>3. got' \o buffer' = got \o buffer
    <3>1. (got \o Take(buffer, n)) \o Drop(buffer, n) = got \o (Take(buffer, n) \o Drop(buffer, n))
      <4>1. got \in Seq(Bytes) /\ Take(buffer, n) \in Seq(Bytes) /\ Drop(buffer, n) \in Seq(Bytes)
        BY <1>0, <2>2
      <4> QED  BY ONLY <4>1, Join
    <3> QED  BY <2>1, <2>2, <3>1
  <2>4. buffer = << >> => n = 0
    BY <1>0
  <2>5. n = 0 => buffer = << >>
    BY <1>10 DEF ReadBuffer
  <2>6. sawEOF' => buffer' = << >>
    BY <2>1, <2>2, <2>4, <2>5 DEF IInv, FromBuffer
  <2>7. Undelivered' /\ HashOK'
    BY <2>1 DEF IInv, Undelivered, HashOK, wrapper
  <2>8. FromTransport' /\ FromBuffer' /\ Streamed'
    BY <2>1, <2>3, <2>6 DEF IInv, FromTransport, FromBuffer, Streamed
  <2> QED  BY <2>7, <2>8 DEF IInv
<1>11. CASE ReadAfterFailure
  <2>1. got \o << >> = got
    BY <1>0, ConcatEmptySeq
  <2>2. /\ phase = "serve" /\ reader = "verifiedBody" /\ failed
        /\ UNCHANGED << phase, request, contentHash, left, reader, buffer, wrapper >>
        /\ got' = got /\ (sawEOF' <=> sawEOF)
    BY <1>11, <2>1 DEF ReadAfterFailure, Return
  <2>3. Undelivered' /\ HashOK'
    BY <2>2 DEF IInv, Undelivered, HashOK
  <2>4. LooksComplete' <=> LooksComplete
    BY <2>2 DEF LooksComplete
  <2>5. FromTransport' /\ FromBuffer' /\ Streamed'
    BY <2>2, <2>4 DEF IInv, FromTransport, FromBuffer, Streamed, wrapper
  <2> QED  BY <2>3, <2>5 DEF IInv
<1>12. CASE UNCHANGED vars
  BY <1>12 DEF vars, wrapper, seen, IInv, Undelivered, HashOK, FromTransport, FromBuffer,
     Streamed, LooksComplete
<1> QED
  BY <1>1, <1>2, <1>3, <1>4, <1>5, <1>6, <1>7, <1>8, <1>9, <1>10, <1>11, <1>12, StreamStep
     DEF Next, ReadBody, Refused

(* A handler never takes for complete a body other than the signed one:    *)
(* bindPayload and verifiedBody.Read, for every framing of every body.     *)
THEOREM CompleteMeansSignedHolds == Spec => []CompleteMeansSigned
<1>1. TypeOK /\ IInv => CompleteMeansSigned
  <2> SUFFICES ASSUME TypeOK, IInv, phase = "serve", request.signedHash.kind = "digest",
                      LooksComplete
               PROVE  got = request.signedHash.of
    BY DEF CompleteMeansSigned
  <2>1. contentHash = request.signedHash
    BY DEF IInv, HashOK
  <2>2. got \in Seq(Bytes) /\ buffer \in Seq(Bytes) /\ request.length \in Int
    BY LengthType DEF TypeOK
  <2>3. CASE reader = "transport"
    BY <2>1, <2>3 DEF IInv, FromTransport
  <2>4. CASE reader = "buffer"
    <3>1. /\ got \o buffer = contentHash.of
          /\ sawEOF => buffer = << >>
          /\ Sized => Len(contentHash.of) <= request.length
      BY <2>4 DEF IInv, FromBuffer
    <3>2. Len(got \o buffer) = Len(got) + Len(buffer) /\ Len(got) \in Nat /\ Len(buffer) \in Nat
      BY <2>2, Join, LenProperties
    <3>3. buffer = << >>
      <4>1. CASE Sized /\ Len(got) >= request.length
        <5>1. Len(buffer) = 0
          BY <2>2, <3>1, <3>2, <4>1
        <5> QED  BY <2>2, <5>1, EmptySeq
      <4> QED  BY <3>1, <4>1 DEF LooksComplete
    <3>4. got \o << >> = got
      BY <2>2, ConcatEmptySeq
    <3> QED  BY <2>1, <3>1, <3>3, <3>4
  <2>5. CASE reader = "verifiedBody"
    BY <2>1, <2>5 DEF IInv, Streamed
  <2> QED  BY <2>3, <2>4, <2>5 DEF TypeOK
<1> QED  BY <1>1, TypeInit, TypeStep, IInvInit, IInvStep, PTL DEF Spec

(* What verifiedBody remembers is also a verdict on the payload.           *)
Blamed == failed \/ result = "ErrContentSHA256Mismatch"

(* Blame of the payload is always deserved: the bodies that bindPayload    *)
(* and verifiedBody.Read report as mismatches are short or rewritten.      *)
THEOREM NoFalseBlameHolds == Spec => []NoFalseBlame
<1>1. Init => (Blamed => Deserved)
  BY DEF Init, Blamed
<1>2. TypeOK /\ IInv /\ (Blamed => Deserved) /\ [Next]_vars => (Blamed => Deserved)'
  <2> SUFFICES ASSUME TypeOK, IInv, Blamed => Deserved, [Next]_vars, Blamed'
               PROVE  Deserved'
    OBVIOUS
  <2>0. /\ left \in Seq(Bytes) /\ Len(left) \in Nat /\ contentHash \in ContentHash
        /\ request.length \in Int /\ << >> \in Seq(Bytes) /\ Len(<< >>) = 0
        /\ OnWire(request)
    BY LengthType, LenProperties, EmptySeq DEF TypeOK
  <2>1. CASE (Blamed' => Blamed) /\ request' = request
    BY <2>1 DEF Deserved, Sized
  <2>2. CASE BindBodyless
    <3>1. contentHash.kind = "digest" /\ IsS3 /\ phase = "bind" /\ ~request.hasBody
      BY <2>2 DEF BindBodyless, AlreadyBound
    <3>2. contentHash = request.header /\ request.sent = << >> /\ request.length = 0
      BY <2>0, <3>1 DEF IInv, HashOK, OnWire
    <3>3. CASE result' = result
      BY <2>1, <2>2, <3>3 DEF BindBodyless, Blamed, wrapper
    <3>4. CASE ToLower(contentHash) # EmptyPayload
      <4>1. contentHash.of # << >>
        BY <2>0, <3>1, <3>4, SameDigest DEF EmptyPayload
      <4> QED  BY <2>2, <3>2, <4>1 DEF Deserved, BindBodyless, Sized
    <3> QED  BY <2>2, <3>3, <3>4 DEF BindBodyless, Refuse
  <2>3. CASE BindBuffered
    <3>1. /\ contentHash.kind = "digest" /\ IsS3 /\ phase = "bind" /\ Sized
          /\ Len(left) >= request.length
      BY <2>3 DEF BindBuffered, AlreadyBound, Modest
    <3>2. contentHash = request.header /\ left = request.sent
      BY <3>1 DEF IInv, HashOK, Undelivered
    <3>3. Len(left) <= request.length
      BY <2>0, <3>1, <3>2 DEF OnWire, Sized
    <3>4. Take(left, request.length) = left
      <4>1. request.length \in 0 .. Len(left) /\ request.length = Len(left)
        BY <2>0, <3>1, <3>3 DEF Sized
      <4> QED  BY <2>0, <4>1, Split
    <3>5. CASE result' = result
      BY <2>1, <2>3, <3>5 DEF BindBuffered, Blamed, wrapper
    <3>6. CASE Digest(left) # ToLower(contentHash)
      <4>1. contentHash.of # left
        BY <2>0, <3>1, <3>6, SameDigest
      <4> QED  BY <2>3, <3>1, <3>2, <4>1 DEF Deserved, BindBuffered, Sized
    <3> QED  BY <2>3, <3>4, <3>5, <3>6 DEF BindBuffered, Refuse
  <2>4. CASE BindShort
    <3>1. IsS3 /\ phase = "bind" /\ Sized /\ Len(left) < request.length
      BY <2>4 DEF BindShort, AlreadyBound, Modest
    <3>2. left = request.sent
      BY <3>1 DEF IInv, Undelivered
    <3> QED  BY <2>4, <3>1, <3>2 DEF Deserved, BindShort, Sized
  <2>5. ASSUME NEW n \in 0 .. Len(left), NEW err \in Endings \cup {"nil"}, ReadFails(n, err)
        PROVE  Deserved'
    <3>1. Reading(n, err) /\ request' = request /\ reader = "verifiedBody" /\ phase = "serve"
      BY <2>5 DEF ReadFails, Reading
    <3>2. contentHash = request.header /\ contentHash.kind = "digest"
      BY <3>1 DEF IInv, HashOK, Streamed
    <3>3. CASE CutShort(n, err)
      <4>1. n = Len(left) /\ Sized /\ remaining - n > 0
        BY <3>1, <3>3, Chunk DEF CutShort, StillOwed
      <4>2. remaining = request.length - Len(hashed)
        BY <3>1 DEF IInv, Streamed
      <4>3. Len(hashed) \in Nat /\ Len(request.sent) = Len(hashed) + Len(left)
        BY <3>1, Chunk
      <4>4. Len(request.sent) < request.length
        BY <2>0, <4>1, <4>2, <4>3
      <4> QED  BY <3>1, <4>1, <4>4 DEF Deserved, Sized
    <3>4. CASE Completes(n, err) /\ ~Matches(n)
      <4>1. n = Len(left)
        BY <3>1, <3>4, CompletesAll
      <4>2. hashed \o Take(left, n) = request.sent
        BY <3>1, <4>1, Chunk
      <4>3. request.sent \in Seq(Bytes)
        BY <2>0 DEF OnWire
      <4>4. request.sent # contentHash.of
        BY <2>0, <3>2, <3>4, <4>2, <4>3, SameDigest DEF Matches
      <4>5. Sized \/ request.ending = "EOF"
        BY <3>1, <3>4 DEF Completes, Reading, TransportReads
      <4> QED  BY <3>1, <3>2, <4>4, <4>5 DEF Deserved, Sized
    <3> QED  BY <2>5, <3>3, <3>4 DEF ReadFails
  <2>6. CASE ReadAfterFailure
    BY <2>1, <2>6 DEF ReadAfterFailure, Blamed
  <2>7. CASE UNCHANGED vars
    BY <2>1, <2>7 DEF vars, wrapper, Blamed
  <2>8. CASE \/ ParsePresigned \/ ParseHeader \/ RefuseHeader \/ ParseBodyless
             \/ RefuseScope \/ RefuseSignature \/ SignatureMatches \/ BindNothing
             \/ BindStream \/ ParseBody
    <3>1. request' = request /\ failed' = failed
          /\ (result' = result \/ result' # "ErrContentSHA256Mismatch")
      BY <2>8 DEF ParsePresigned, ParseHeader, RefuseHeader, ParseBodyless, ParseBody,
             RefuseScope, RefuseSignature, SignatureMatches, BindNothing, BindStream,
             Resolve, Refuse, wrapper
    <3> QED  BY <2>1, <3>1 DEF Blamed
  <2>9. ASSUME NEW n, NEW err \in Endings \cup {"nil"},
               ReadTransport(n, err) \/ ReadCompletes(n, err) \/ ReadContinues(n, err)
        PROVE  Deserved'
    <3>1. request' = request /\ failed' = failed /\ result' # "ErrContentSHA256Mismatch"
      BY <2>9 DEF ReadTransport, ReadCompletes, ReadContinues, Reading, Return, wrapper, Endings
    <3> QED  BY <2>1, <3>1 DEF Blamed
  <2>10. ASSUME NEW n, ReadBuffer(n) PROVE Deserved'
    <3>1. request' = request /\ failed' = failed /\ result' # "ErrContentSHA256Mismatch"
      BY <2>10 DEF ReadBuffer, Return, wrapper
    <3> QED  BY <2>1, <3>1 DEF Blamed
  <2> QED
    BY <2>2, <2>3, <2>4, <2>5, <2>6, <2>7, <2>8, <2>9, <2>10 DEF Next, ReadBody, Refused
<1>3. (Blamed => Deserved) => NoFalseBlame
  BY DEF Blamed, NoFalseBlame
<1> QED  BY <1>1, <1>2, <1>3, TypeInit, TypeStep, IInvInit, IInvStep, PTL DEF Spec

(* What a client without a valid signature can make the server read:       *)
(* resolveContentHash is the only reader before the signature check.       *)
THEOREM UnauthenticatedReadBoundedHolds == Spec => []UnauthenticatedReadBounded
<1> DEFINE Consumed == Len(request.sent) - Len(left)
           Bound == IF IsS3 THEN 0 ELSE MaxPayloadLen + 1
<1>1. Init => UnauthenticatedReadBounded
  <2> SUFFICES ASSUME Init PROVE Len(request.sent) - Len(left) <= Bound
    BY DEF UnauthenticatedReadBounded
  <2>1. left = request.sent /\ request.sent \in Seq(Bytes)
    BY RequestsAssumption DEF Init, OnWire
  <2>2. Len(request.sent) \in Nat
    BY <2>1, LenProperties
  <2> QED  BY <2>1, <2>2, LenAssumption
<1>2. TypeOK /\ IInv /\ UnauthenticatedReadBounded /\ [Next]_vars => UnauthenticatedReadBounded'
  <2> SUFFICES ASSUME TypeOK, IInv, UnauthenticatedReadBounded, [Next]_vars, Unauthenticated'
               PROVE  (Consumed <= Bound)'
    BY DEF UnauthenticatedReadBounded
  <2>1. CASE Unauthenticated /\ left' = left /\ request' = request
    BY <2>1 DEF UnauthenticatedReadBounded, IsS3
  <2>2. CASE ParseBody
    <3>1. phase = "parse" /\ ~IsS3 /\ request' = request /\ left' = Drop(left, LimitedTo(Len(left)))
      BY <2>2 DEF ParseBody
    <3>2. left = request.sent /\ left \in Seq(Bytes) /\ Len(left) \in Nat
      BY <3>1, LenProperties DEF IInv, Undelivered, TypeOK
    <3>3. LimitedTo(Len(left)) \in 0 .. Len(left) /\ LimitedTo(Len(left)) <= MaxPayloadLen + 1
      BY <3>2, LenAssumption DEF LimitedTo
    <3>4. Len(left') = Len(left) - LimitedTo(Len(left))
      BY <3>1, <3>2, <3>3, Split
    <3>5. ~IsS3'
      BY <3>1 DEF IsS3
    <3> QED  BY <3>1, <3>2, <3>3, <3>4, <3>5, LenAssumption
  <2>3. CASE \/ ParsePresigned \/ ParseHeader \/ RefuseHeader \/ ParseBodyless
             \/ RefuseScope \/ RefuseSignature
    BY <2>1, <2>3 DEF ParsePresigned, ParseHeader, RefuseHeader, ParseBodyless, Resolve,
           RefuseScope, RefuseSignature, Refuse, Unauthenticated
  <2>4. CASE SignatureMatches \/ BindNothing \/ BindBodyless \/ BindBuffered \/ BindShort \/ BindStream
    BY <2>4 DEF SignatureMatches, BindNothing, BindBodyless, BindBuffered, BindShort, BindStream,
           Refuse, Unauthenticated
  <2>5. CASE ReadBody
    BY <2>5 DEF ReadBody, ReadTransport, ReadBuffer, ReadFails, ReadCompletes, ReadContinues,
           Reading, ReadAfterFailure, Unauthenticated
  <2>6. CASE UNCHANGED vars
    BY <2>1, <2>6 DEF vars, Unauthenticated
  <2> QED  BY <2>2, <2>3, <2>4, <2>5, <2>6 DEF Next, Refused
<1> QED  BY <1>1, <1>2, TypeInit, TypeStep, IInvInit, IInvStep, PTL DEF Spec
=============================================================================
