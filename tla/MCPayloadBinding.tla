------------------------- MODULE MCPayloadBinding -------------------------
(* Requests for TLC: contents on both sides of MaxPayloadLen = 2, sent as  *)
(* signed, rewritten or cut, under every kind of header and framing.       *)
EXTENDS PayloadBinding

Contents == {<< >>, << "a" >>, << "a", "b" >>, << "a", "a", "b" >>, << "a", "b", "a", "b" >>}

(* As signed; with its first byte changed; cut before its last byte; with  *)
(* one byte more.                                                          *)
OnTheWire(s) ==
    {s, s \o << "a" >>} \cup
        (IF s = << >> THEN {} ELSE {SubSeq(s, 1, Len(s) - 1), << "b" >> \o Tail(s)})

S3 == [region |-> "us-east-1", service |-> "s3"]
STS == [region |-> "us-east-1", service |-> "sts"]
Elsewhere == [region |-> "eu-west-1", service |-> "s3"]

(* Lengths and endings a server transport combines with n bytes that came: *)
(* a body of known length ends in EOF when all of it came.                 *)
Framings(s) ==
    { [hasBody |-> TRUE, length |-> l, sent |-> s, ending |-> e] :
        l \in {-1, Len(s)}, e \in {"EOF", "UnexpectedEOF", "Other"} } \cup
    { [hasBody |-> TRUE, length |-> Len(s) + 1, sent |-> s, ending |-> e] :
        e \in {"UnexpectedEOF", "Other"} } \cup
    (IF s = << >>
     THEN {[hasBody |-> FALSE, length |-> 0, sent |-> s, ending |-> "EOF"]} ELSE {})

Request(scope, expected, presigned, header, signedHash, f) ==
    [scope |-> scope, expected |-> expected, presigned |-> presigned, header |-> header,
     signedHash |-> signedHash, hasBody |-> f.hasBody, length |-> f.length,
     sent |-> f.sent, ending |-> f.ending]

Sent(s) == UNION { Framings(w) : w \in OnTheWire(s) }

Upper(h) == [h EXCEPT !.upper = TRUE]
Value(kind) == [kind |-> kind, of |-> << >>, upper |-> FALSE]

(* S3 requests under a digest, in either case; under another header; and   *)
(* requests to another service.                                            *)
DigestRequests ==
    UNION { { Request(S3, S3, FALSE, h, h, f) :
                f \in Sent(s), h \in {Digest(s), Upper(Digest(s))} } : s \in Contents }

OtherHeaders ==
    { Request(S3, x, p, h, g, f) :
        x \in {S3, Elsewhere}, p \in BOOLEAN,
        h \in {Value("missing"), Value("invalid"), Digest(<< "b" >>)}
              \cup { Sentinel(m) : m \in ContentModes },
        g \in {Digest(<< "a" >>), Sentinel("UNSIGNED-PAYLOAD"),
               Sentinel("STREAMING-AWS4-HMAC-SHA256-PAYLOAD")},
        f \in Sent(<< "a" >>) }

OtherServices ==
    UNION { { Request(STS, x, FALSE, Value("missing"), Digest(s), f) :
                f \in Sent(s), x \in {STS, S3} } : s \in Contents }

MCRequests == DigestRequests \cup OtherHeaders \cup OtherServices
=============================================================================
