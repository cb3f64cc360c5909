---------------------------- MODULE MCRequestAuth ----------------------------
(***************************************************************************)
(* A small set of requests for RequestAuth: both forms of signature, the   *)
(* ways each check can fail, and what a proxy may make of a request.       *)
(***************************************************************************)
EXTENDS RequestAuth, TLC

CONSTANTS k1, k2, s1, s2, r1, p1, m1, m2, get, none

MCSecretOf == k1 :> s1

Text(t)   == [text |-> t, spaced |-> FALSE]
Spaced(t) == [text |-> t, spaced |-> TRUE]

Cred(day) == [akid |-> k1, date |-> day, region |-> r1, service |-> Service,
              terminated |-> TRUE]
Auth(day, names) == [algo |-> V4, credential |-> Cred(day), signed |-> names]

(* Signed by header at a second ts, with further headers.                  *)
Headed(ts, names, more) ==
    [target |-> get, args |-> none, payload |-> p1,
     headers |-> more @@ ("host" :> Text(m1)) @@ ("x-amz-date" :> Text(ts)),
     auth |-> Auth(ts \div DayLength, names), presign |-> Missing]

Basic == {"host", "x-amz-date"}
Full  == Basic \cup {"x-amz-meta"}
Meta(v) == "x-amz-meta" :> v
NoMore == [n \in {} |-> 0]

Plain == Headed(1, Basic, NoMore)
Whole == Headed(1, Full, Meta(Text(m1)))

(* The Date header decides when X-Amz-Date is missing, empty or not signed.*)
ByDate(more) ==
    [Plain EXCEPT !.auth = Auth(0, {"host"}),
                  !.headers = more @@ ("host" :> Text(m1)) @@ ("date" :> Text(1))]

Url(ts, expires) ==
    [target |-> get, args |-> none, payload |-> p1,
     headers |-> "host" :> Text(m1), auth |-> Missing,
     presign |-> [algo |-> V4, credential |-> Cred(ts \div DayLength), signed |-> {"host"},
                  date |-> ts, expires |-> expires]]

Good ==
    {Plain, Headed(2, Basic, NoMore), Whole, ByDate(NoMore)} \cup
    { Url(1, e) : e \in {1, 2, 3, 9} }

(* What a client's mistake or a proxy makes of them.                       *)
Odd ==
    { Headed(1, Full, Meta(v)) : v \in {Spaced(m1), Text(m2), Text(Missing)} } \cup
    { Headed(1, Basic, Meta(Text(m1))), Headed(1, Full, NoMore),
      Headed(1, Basic, "accept" :> Text(m1)),
      Headed(1, Basic, "x-amz-content-sha256" :> Text(m2)),
      [Plain EXCEPT !.headers = "host" :> Text(m1)], ByDate("x-amz-date" :> Text(Malformed)),
      ByDate("x-amz-date" :> Text(Missing)),
      [Plain EXCEPT !.args = m1], [Plain EXCEPT !.payload = Malformed],
      [Plain EXCEPT !.auth = Missing], [Plain EXCEPT !.auth = Malformed],
      [Plain EXCEPT !.auth.algo = Malformed],
      [Plain EXCEPT !.auth.credential = Malformed],
      [Plain EXCEPT !.auth.credential.akid = k2],
      [Plain EXCEPT !.auth.credential.date = 1],
      [Plain EXCEPT !.auth.credential.region = Missing],
      [Plain EXCEPT !.auth.credential.terminated = FALSE],
      [Url(1, 1) EXCEPT !.presign.credential = Missing],
      [Url(1, 1) EXCEPT !.presign.date = Malformed],
      Url(1, 0), Url(1, Malformed), Url(2, 1) }

MCDrafts == Good \cup Odd
==============================================================================
