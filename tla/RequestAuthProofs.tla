------------------------- MODULE RequestAuthProofs -------------------------
(***************************************************************************)
(* Proofs about RequestAuth, for any requests, clients, secrets, servers   *)
(* and times.  The inductive invariant IInv records what each check has    *)
(* left behind for the state after it: the window that Parse applied, the  *)
(* headers it found signed, where signatures come from, and why a request  *)
(* was refused.                                                            *)
(***************************************************************************)
EXTENDS RequestAuth, TLAPS

(* The window applied by Parse holds, and little time has passed since.    *)
Timely(s) ==
    pc[s] = "parsed" =>
        /\ TimestampOK(draft[s], now[s])
        /\ now[s] <= clock
        /\ clock <= now[s] + MaxStall

(* What is past Parse has well-formed parts and signed headers.            *)
Passed(s) ==
    pc[s] \in {"parsed", "accepted"} =>
        /\ WellFormedParts(draft[s], sig[s])
        /\ CredentialOK(draft[s])
        /\ HeadersOK(draft[s])

(* Signatures come from clients.                                           *)
Arrived(s) ==
    pc[s] # "idle" =>
        \/ sig[s] \in {Garbage, Missing}
        \/ \E p \in signed : sig[s] = Signature(p[1], p[2])

(* What is accepted has its owner's signature.                             *)
Checked(s) ==
    pc[s] = "accepted" => KnownKey(draft[s]) /\ SignatureMatches(draft[s], sig[s])

(* What a refusal blames is at fault.                                      *)
Blamed(s) ==
    pc[s] = "refused" =>
        /\ why[s] = "header" => ~HeadersOK(draft[s])
        /\ why[s] = "signature" => ~SignatureMatches(draft[s], sig[s])

ServerOK(s) == Timely(s) /\ Passed(s) /\ Arrived(s) /\ Checked(s) /\ Blamed(s)

AllSignable == \A p \in signed : Signable(p[2])

IInv == TypeOK /\ AllSignable /\ \A s \in Servers : ServerOK(s)
----------------------------------------------------------------------------
(* A time that is there and parses is a number.                            *)
LEMMA TimestampType ==
    ASSUME NEW d \in Drafts, Timestamp(d) \notin {Missing, Malformed}
    PROVE  Timestamp(d) \in Nat
<1>1. CASE Presigned(d)
  BY <1>1, DraftAssumption DEF Timestamp, Presigned
<1>2. CASE ~Presigned(d)
  BY <1>2, DraftAssumption DEF Timestamp, Header
<1> QED BY <1>1, <1>2

(* A product that wraps round only gets smaller.                           *)
LEMMA WrapShrinks ==
    ASSUME NEW x \in Nat
    PROVE  Wrap(x) \in Int /\ Wrap(x) <= x
<1> DEFINE m == 2 * (MaxInt + 1)
<1>1. MaxInt \in Nat /\ m \in Nat /\ m > 0
  BY TimeAssumption
<1>2. (x + MaxInt + 1) % m \in 0 .. (m - 1)
  BY <1>1
<1>3. CASE x <= MaxInt
  <2>1. (x + MaxInt + 1) % m = x + MaxInt + 1
    BY <1>1, <1>3
  <2> QED BY <2>1, <1>1 DEF Wrap
<1>4. CASE x > MaxInt
  <2>1. Wrap(x) <= MaxInt /\ Wrap(x) \in Int
    BY <1>1, <1>2 DEF Wrap
  <2> QED BY <2>1, <1>1, <1>4
<1> QED BY <1>1, <1>3, <1>4
----------------------------------------------------------------------------
LEMMA InitIInv == Init => IInv
<1> SUFFICES ASSUME Init PROVE IInv
  OBVIOUS
<1> (CHOOSE d \in Drafts : TRUE) \in Drafts
  BY DraftAssumption
<1> QED BY DEF Init, IInv, TypeOK, ServerOK, Timely, Passed, Arrived, Checked, Blamed,
              AllSignable
----------------------------------------------------------------------------
(* A step of one server that keeps its own part of IInv keeps all of it.   *)
LEMMA OnlyOneMoves ==
    ASSUME IInv, TypeOK', NEW s \in Servers, ServerOK(s)',
           UNCHANGED << clock, signed >>,
           \A t \in Servers \ {s} :
               /\ pc'[t] = pc[t] /\ draft'[t] = draft[t] /\ sig'[t] = sig[t]
               /\ now'[t] = now[t] /\ why'[t] = why[t]
    PROVE  IInv'
<1>1. ASSUME NEW t \in Servers \ {s} PROVE ServerOK(t)'
  BY <1>1 DEF IInv, ServerOK, Timely, Passed, Arrived, Checked, Blamed
<1>2. AllSignable'
  BY DEF IInv, AllSignable
<1> QED BY <1>1, <1>2 DEF IInv

(* A server that refuses keeps IInv if the fault it names is there.        *)
LEMMA RefuseKeeps ==
    ASSUME IInv, NEW s \in Servers, NEW reason \in Reasons, Refuse(s, reason),
           pc[s] \in {"parse", "parsed"},
           reason = "header" => ~HeadersOK(draft[s]),
           reason = "signature" => ~SignatureMatches(draft[s], sig[s])
    PROVE  IInv'
<1>1. /\ pc'[s] = "refused" /\ why'[s] = reason
      /\ draft' = draft /\ sig' = sig /\ clock' = clock /\ signed' = signed
  BY DEF Refuse, IInv, TypeOK
<1>2. TypeOK'
  BY DEF Refuse, IInv, TypeOK
<1>3. Timely(s)' /\ Passed(s)' /\ Checked(s)'
  BY <1>1 DEF Timely, Passed, Checked
<1>4. Arrived(s)'
  BY <1>1 DEF IInv, ServerOK, Arrived
<1>5. Blamed(s)'
  BY <1>1 DEF Blamed
<1>6. ASSUME NEW t \in Servers \ {s}
      PROVE  /\ pc'[t] = pc[t] /\ draft'[t] = draft[t] /\ sig'[t] = sig[t]
             /\ now'[t] = now[t] /\ why'[t] = why[t]
  BY <1>6 DEF Refuse, IInv, TypeOK
<1> QED BY <1>1, <1>2, <1>3, <1>4, <1>5, <1>6, OnlyOneMoves DEF ServerOK

LEMMA ReceiveKeeps ==
    ASSUME IInv, NEW s \in Servers, NEW d \in Drafts, NEW g, Receive(s, d, g)
    PROVE  IInv'
<1>0. TypeOK
  BY DEF IInv
<1>1. TypeOK'
  BY <1>0 DEF Receive, TypeOK
<1>2. pc'[s] = "parse" /\ sig'[s] = g /\ UNCHANGED << clock, signed >>
  BY DEF Receive, IInv, TypeOK
<1>3. ServerOK(s)'
  BY <1>2 DEF Receive, ServerOK, Timely, Passed, Arrived, Checked, Blamed
<1>4. ASSUME NEW t \in Servers \ {s}
      PROVE  /\ pc'[t] = pc[t] /\ draft'[t] = draft[t] /\ sig'[t] = sig[t]
             /\ now'[t] = now[t] /\ why'[t] = why[t]
  BY <1>4, <1>0 DEF Receive, TypeOK
<1> QED BY <1>1, <1>2, <1>3, <1>4, OnlyOneMoves

LEMMA ParsedKeeps ==
    ASSUME IInv, NEW s \in Servers, Parsed(s)
    PROVE  IInv'
<1>0. TypeOK
  BY DEF IInv
<1>1. /\ pc'[s] = "parsed" /\ now'[s] = clock /\ draft' = draft /\ sig' = sig
      /\ clock' = clock /\ signed' = signed
  BY <1>0 DEF Parsed, TypeOK
<1>2. Dated(draft[s])
  BY <1>0, TimestampType DEF Parsed, Scoped, TimestampOK, ExpiresOK, TypeOK, Dated
<1>3. TypeOK'
  <2>1. ASSUME NEW t \in Servers, pc'[t] \in {"parsed", "accepted"}
        PROVE  Dated(draft'[t])
    BY <2>1, <1>0, <1>1, <1>2 DEF Parsed, TypeOK
  <2> QED BY <2>1, <1>0, <1>1 DEF Parsed, TypeOK
<1>4. Timely(s)'
  BY <1>0, <1>1, TimeAssumption DEF Timely, Parsed, Scoped, TypeOK
<1>5. Passed(s)'
  BY <1>1 DEF Passed, Parsed, Scoped
<1>6. Arrived(s)'
  BY <1>1 DEF IInv, ServerOK, Arrived, Parsed
<1>7. Checked(s)' /\ Blamed(s)'
  BY <1>1 DEF Checked, Blamed
<1>8. ASSUME NEW t \in Servers \ {s}
      PROVE  /\ pc'[t] = pc[t] /\ draft'[t] = draft[t] /\ sig'[t] = sig[t]
             /\ now'[t] = now[t] /\ why'[t] = why[t]
  BY <1>8, <1>0, <1>1 DEF Parsed, TypeOK
<1> QED BY <1>1, <1>3, <1>4, <1>5, <1>6, <1>7, <1>8, OnlyOneMoves DEF ServerOK

LEMMA AcceptKeeps ==
    ASSUME IInv, NEW s \in Servers, Accept(s)
    PROVE  IInv'
<1>0. TypeOK
  BY DEF IInv
<1>1. /\ pc[s] = "parsed" /\ pc'[s] = "accepted" /\ draft' = draft /\ sig' = sig
      /\ clock' = clock /\ signed' = signed
  BY <1>0 DEF Accept, Verified, TypeOK
<1>2. TypeOK'
  <2>1. ASSUME NEW t \in Servers, pc'[t] \in {"parsed", "accepted"}
        PROVE  Dated(draft'[t])
    BY <2>1, <1>0, <1>1 DEF Accept, TypeOK
  <2> QED BY <2>1, <1>0, <1>1 DEF Accept, TypeOK
<1>3. Timely(s)' /\ Blamed(s)'
  BY <1>1 DEF Timely, Blamed
<1>4. Passed(s)' /\ Arrived(s)'
  BY <1>1 DEF IInv, ServerOK, Passed, Arrived
<1>5. Checked(s)'
  BY <1>1 DEF Checked, Accept, Verified
<1>6. ASSUME NEW t \in Servers \ {s}
      PROVE  /\ pc'[t] = pc[t] /\ draft'[t] = draft[t] /\ sig'[t] = sig[t]
             /\ now'[t] = now[t] /\ why'[t] = why[t]
  BY <1>6, <1>0, <1>1 DEF Accept, TypeOK
<1> QED BY <1>1, <1>2, <1>3, <1>4, <1>5, <1>6, OnlyOneMoves DEF ServerOK

LEMMA SignKeeps ==
    ASSUME IInv, NEW secret \in Secrets, NEW d \in Drafts, Sign(secret, d)
    PROVE  IInv'
<1>1. TypeOK'
  BY DEF IInv, Sign, serverVars, TypeOK
<1>2. AllSignable'
  BY DEF IInv, Sign, AllSignable
<1>3. ASSUME NEW s \in Servers PROVE ServerOK(s)'
  BY <1>3 DEF IInv, Sign, serverVars, ServerOK, Timely, Passed, Arrived, Checked, Blamed
<1> QED BY <1>1, <1>2, <1>3 DEF IInv

LEMMA TickKeeps ==
    ASSUME IInv, Tick
    PROVE  IInv'
<1>1. TypeOK'
  BY DEF IInv, Tick, serverVars, TypeOK
<1>2. AllSignable'
  BY DEF IInv, Tick, AllSignable
<1>3. ASSUME NEW s \in Servers PROVE ServerOK(s)'
  <2>1. Timely(s)'
    BY <1>3, TimeAssumption DEF IInv, Tick, serverVars, ServerOK, Timely, TypeOK
  <2>2. Passed(s)' /\ Arrived(s)' /\ Checked(s)' /\ Blamed(s)'
    BY <1>3 DEF IInv, Tick, serverVars, ServerOK, Passed, Arrived, Checked, Blamed
  <2> QED BY <2>1, <2>2 DEF ServerOK
<1> QED BY <1>1, <1>2, <1>3 DEF IInv

(* Every step keeps the invariant.                                         *)
LEMMA NextIInv == IInv /\ [Next]_vars => IInv'
<1> SUFFICES ASSUME IInv, [Next]_vars PROVE IInv'
  OBVIOUS
<1>1. ASSUME NEW s \in Servers, NEW d \in Drafts, NEW g, Receive(s, d, g) PROVE IInv'
  BY <1>1, ReceiveKeeps
<1>2. ASSUME NEW s \in Servers, NEW reason \in Reasons \ {"header", "signature"},
             Refuse(s, reason), pc[s] \in {"parse", "parsed"}
      PROVE  IInv'
  BY <1>2, RefuseKeeps
<1>3. ASSUME NEW s \in Servers, RefuseHeaders(s) PROVE IInv'
  BY <1>3, RefuseKeeps DEF RefuseHeaders, Reasons
<1>4. ASSUME NEW s \in Servers, RefuseSignature(s) PROVE IInv'
  BY <1>4, RefuseKeeps DEF RefuseSignature, Reasons
<1>5. ASSUME NEW s \in Servers, Parsed(s) PROVE IInv'
  BY <1>5, ParsedKeeps
<1>6. ASSUME NEW s \in Servers, Accept(s) PROVE IInv'
  BY <1>6, AcceptKeeps
<1>7. ASSUME NEW s \in Servers, ServerStep(s) PROVE IInv'
  <2>1. CASE RefuseParts(s) \/ RefuseTimestamp(s) \/ RefuseCredential(s) \/ RefuseContent(s)
    BY <2>1, <1>2, <1>7 DEF RefuseParts, RefuseTimestamp, RefuseCredential, RefuseContent, Reasons
  <2>2. CASE RefuseKey(s) \/ RefuseScope(s) \/ RefusePayload(s)
    BY <2>2, <1>2, <1>7 DEF RefuseKey, RefuseScope, RefusePayload, Verified, Reasons
  <2> QED BY <1>1, <1>3, <1>4, <1>5, <1>6, <1>7, <2>1, <2>2 DEF ServerStep
<1>8. CASE UNCHANGED vars
  <2>1. TypeOK'
    BY <1>8 DEF IInv, vars, serverVars, TypeOK
  <2>2. AllSignable'
    BY <1>8 DEF IInv, vars, AllSignable
  <2>3. ASSUME NEW s \in Servers PROVE ServerOK(s)'
    BY <1>8, <2>3 DEF IInv, vars, serverVars, ServerOK, Timely, Passed, Arrived, Checked, Blamed
  <2> QED BY <2>1, <2>2, <2>3 DEF IInv
<1> QED BY <1>7, <1>8, SignKeeps, TickKeeps DEF Next

(* The invariant holds in every reachable state.                           *)
THEOREM Invariance == Spec => []IInv
BY InitIInv, NextIInv, PTL DEF Spec

(* Requests keep their types, and none passes Parse without a time.        *)
THEOREM TypeCorrect == Spec => []TypeOK
<1>1. IInv => TypeOK
  BY DEF IInv
<1> QED BY <1>1, Invariance, PTL
----------------------------------------------------------------------------
(* Equal signatures are of the same secret and mean the same request, as   *)
(* far as the headers of one of them are signed.                           *)
LEMMA SameSignature ==
    ASSUME NEW d, NEW e, NEW k, NEW l,
           Signature(k, d) = Signature(l, e), HeadersOK(d)
    PROVE  k = l /\ Means(d, e)
<1>1. SigningKey(k, d) = SigningKey(l, e) /\ StringToSign(d) = StringToSign(e)
  BY DEF Signature
<1>2. k = l /\ Timestamp(d) = Timestamp(e) /\ Scope(d) = Scope(e)
  BY <1>1 DEF SigningKey, StringToSign
<1>3. CanonicalRequest(d) = CanonicalRequest(e)
  BY <1>1 DEF StringToSign
<1>4. /\ d.target = e.target /\ << d.args, d.presign >> = << e.args, e.presign >>
      /\ CanonicalHeaders(d) = CanonicalHeaders(e)
  BY <1>3 DEF CanonicalRequest
<1>5. d.args = e.args /\ d.presign = e.presign
  BY <1>4
<1>6. ASSUME NEW name \in DOMAIN d.headers, MustBeSigned(name)
      PROVE  Header(d, name) = Header(e, name)
  <2>1. name \in SignedHeaders(d)
    BY <1>6 DEF HeadersOK
  <2>2. CanonicalHeaders(d)[name] = Header(d, name)
    BY <1>6, <2>1 DEF CanonicalHeaders, CanonicalHeaderValue, Header
  <2>3. name \in DOMAIN CanonicalHeaders(e)
    BY <1>4, <2>1 DEF CanonicalHeaders
  <2>4. name \in SignedHeaders(e)
    BY <2>3 DEF CanonicalHeaders
  <2>5. CanonicalHeaders(e)[name] = Header(e, name)
    BY <2>4 DEF CanonicalHeaders, CanonicalHeaderValue, Header
  <2> QED BY <1>4, <2>2, <2>5
<1> QED BY <1>2, <1>4, <1>5, <1>6 DEF Means

(* Whatever arrives, in any order and however often: what is accepted was  *)
(* signed by the owner of its key (Verify, after parseHeaders).            *)
THEOREM AcceptedWasSignedHolds == Spec => []AcceptedWasSigned
<1>1. ASSUME IInv PROVE AcceptedWasSigned
  <2> SUFFICES ASSUME NEW s \in Servers, pc[s] = "accepted"
               PROVE  \E p \in signed : /\ p[1] = SecretOf[Credential(draft[s]).akid]
                                         /\ Means(draft[s], p[2])
    BY DEF AcceptedWasSigned
  <2> DEFINE d == draft[s]
             k == SecretOf[Credential(d).akid]
  <2>1. /\ d \in Drafts /\ KnownKey(d) /\ sig[s] = Signature(k, d)
        /\ WellFormedParts(d, sig[s]) /\ CredentialOK(d) /\ HeadersOK(d)
    BY <1>1 DEF IInv, TypeOK, ServerOK, Checked, Passed, SignatureMatches
  <2>2. k \in Secrets
    BY <2>1, SecretAssumption DEF KnownKey
  <2>3. WellFormedParts(d, Garbage)
    BY <2>1, DistinctAssumption DEF WellFormedParts
  <2>4. sig[s] \notin {Garbage, Missing}
    BY <2>1, <2>2, <2>3, GarbageAssumption DEF CredentialOK
  <2>5. PICK p \in signed : sig[s] = Signature(p[1], p[2])
    BY <1>1, <2>4 DEF IInv, ServerOK, Arrived
  <2>6. k = p[1] /\ Means(d, p[2])
    <3>1. Signature(k, d) = Signature(p[1], p[2]) /\ HeadersOK(d)
      BY <2>1, <2>5
    <3> HIDE DEF d, k
    <3> QED BY ONLY <3>1, SameSignature
  <2> QED BY <2>6
<1> QED BY <1>1, Invariance, PTL

(* The window holds for every width of integers, every X-Amz-Expires and   *)
(* every caller that is done within MaxStall (parseTimestamp).             *)
THEOREM ReplayWindowHolds == Spec => ReplayWindow
<1>1. ASSUME IInv, [Next]_vars, NEW s \in Servers,
             pc[s] # "accepted", pc'[s] = "accepted"
      PROVE  InWindow(draft[s], clock)
  <2> DEFINE d == draft[s]
  <2>0. TypeOK
    BY <1>1 DEF IInv
  <2>1. pc[s] = "parsed"
    <3>1. ASSUME NEW t \in Servers, ServerStep(t) PROVE pc[s] = "parsed"
      BY <3>1, <1>1, <2>0
         DEF ServerStep, Receive, RefuseParts, RefuseTimestamp, RefuseCredential,
             RefuseContent, RefuseHeaders, Parsed, RefuseKey, RefuseScope,
             RefuseSignature, RefusePayload, Accept, Verified, Refuse, TypeOK
    <3> QED BY <3>1, <1>1 DEF Next, Sign, Tick, vars, serverVars
  <2>2. /\ TimestampOK(d, now[s]) /\ now[s] <= clock /\ clock <= now[s] + MaxStall
    BY <1>1, <2>1 DEF IInv, ServerOK, Timely
  <2>3. /\ now[s] \in Nat /\ clock \in Nat /\ Timestamp(d) \in Nat /\ d \in Drafts
    BY <2>0, <2>1 DEF TypeOK, Dated
  <2> DEFINE then == Timestamp(d) * Second
  <2>4. then \in Int
    BY <2>3, TimeAssumption
  <2>5. CASE Presigned(d)
    <3>1. ExpiresOK(d) /\ now[s] - then >= -MaxClockSkew /\ now[s] - then <= Age(d)
      BY <2>2, <2>5 DEF TimestampOK, WithinWindow
    <3>2. d.presign.expires \in Nat /\ Age(d) <= MaxPresignAge
      BY <3>1, TimeAssumption DEF ExpiresOK
    <3>3. d.presign.expires * Second \in Nat
      BY <3>2, TimeAssumption
    <3>4. Age(d) \in Int /\ Age(d) <= d.presign.expires * Second
      BY <3>3, WrapShrinks DEF Age
    <3> DEFINE since == clock - then
               own == d.presign.expires * Second
    <3>5. since >= -MaxClockSkew /\ since <= MaxPresignAge + MaxStall /\ since <= own + MaxStall
      <4> HIDE DEF then, own
      <4>1. own \in Nat /\ Age(d) <= own
        BY <3>3, <3>4 DEF own
      <4> QED BY <4>1, <2>2, <2>3, <2>4, <3>1, <3>2, <3>4, TimeAssumption
    <3> QED BY <3>5, <2>5 DEF InWindow
  <2>6. CASE ~Presigned(d)
    <3>1. Abs(now[s] - then) <= MaxClockSkew
      BY <2>2, <2>6 DEF TimestampOK, WithinWindow
    <3>2. clock - then >= -MaxClockSkew /\ clock - then <= MaxClockSkew + MaxStall
      <4> HIDE DEF then
      <4> QED BY <3>1, <2>2, <2>3, <2>4, TimeAssumption DEF Abs
    <3> QED BY <3>2, <2>6 DEF InWindow
  <2> QED BY <2>5, <2>6
<1>2. IInv /\ [Next]_vars =>
        [\A s \in Servers : pc[s] # "accepted" /\ pc'[s] = "accepted" =>
            InWindow(draft[s], clock)]_vars
  BY <1>1
<1> QED BY <1>2, Invariance, PTL DEF Spec, ReplayWindow

(* A faithful copy of a request has the signature of the request: respaced *)
(* headers and further ones that need no signature change nothing.         *)
LEMMA FaithfulSignature ==
    ASSUME NEW d, NEW e, NEW k, Faithful(d, e), Signable(e)
    PROVE  Signature(k, d) = Signature(k, e)
<1>1. Presigned(d) = Presigned(e) /\ Parts(d) = Parts(e)
  BY DEF Faithful, Presigned, Parts
<1>2. /\ Credential(d) = Credential(e) /\ SignedHeaders(d) = SignedHeaders(e)
      /\ ContentHash(d) = ContentHash(e) /\ Scope(d) = Scope(e)
  BY <1>1 DEF Credential, SignedHeaders, ContentHash, Scope, Faithful
<1>3. Timestamp(d) = Timestamp(e)
  <2>1. CASE Presigned(e)
    BY <1>1, <2>1 DEF Timestamp, Faithful
  <2>2. CASE ~Presigned(e)
    <3>1. Header(d, "x-amz-date") = Header(e, "x-amz-date")
      BY HeaderAssumption DEF Faithful, MustBeSigned, Header
    <3>2. CASE Header(e, "x-amz-date") # Missing
      BY <1>1, <2>2, <3>1, <3>2 DEF Timestamp
    <3>3. CASE Header(e, "x-amz-date") = Missing
      <4>1. Timestamp(e) = Header(e, "date") /\ Timestamp(d) = Header(d, "date")
        BY <1>1, <2>2, <3>1, <3>3 DEF Timestamp
      <4>2. "date" \in DOMAIN e.headers
        BY <4>1 DEF Signable, Header
      <4> QED BY <4>1, <4>2 DEF Faithful
    <3> QED BY <3>2, <3>3
  <2> QED BY <2>1, <2>2
<1>4. CanonicalHeaders(d) = CanonicalHeaders(e)
  <2>1. ASSUME NEW name \in SignedHeaders(e)
        PROVE  (IF name \in DOMAIN d.headers THEN CanonicalHeaderValue(d.headers[name]) ELSE Missing)
             = (IF name \in DOMAIN e.headers THEN CanonicalHeaderValue(e.headers[name]) ELSE Missing)
    BY <2>1 DEF Faithful, Header, CanonicalHeaderValue
  <2> QED BY <1>2, <2>1 DEF CanonicalHeaders
<1>5. CanonicalRequest(d) = CanonicalRequest(e)
  BY <1>2, <1>4 DEF CanonicalRequest, Faithful
<1> QED BY <1>2, <1>3, <1>5 DEF Signature, SigningKey, StringToSign

(* No faithful copy of a properly signed request is refused for its        *)
(* headers or its signature (canonicalHeaderValue).                        *)
THEOREM NoFalseMismatchHolds == Spec => []NoFalseMismatch
<1>1. ASSUME IInv PROVE NoFalseMismatch
  <2> SUFFICES ASSUME NEW s \in Servers, pc[s] = "refused",
                      why[s] \in {"header", "signature"},
                      NEW p \in signed, p[1] = SecretOf[Credential(draft[s]).akid],
                      sig[s] = Signature(p[1], p[2]),
                      Faithful(draft[s], p[2]), HeadersOK(p[2])
               PROVE  FALSE
    BY DEF NoFalseMismatch
  <2>1. SignatureMatches(draft[s], sig[s])
    BY <1>1, FaithfulSignature DEF IInv, AllSignable, SignatureMatches
  <2>2. SignedHeaders(draft[s]) = SignedHeaders(p[2])
    BY DEF Faithful, SignedHeaders, Parts, Presigned
  <2>3. HeadersOK(draft[s])
    BY <2>2 DEF Faithful, HeadersOK
  <2> QED BY <1>1, <2>1, <2>3 DEF IInv, ServerOK, Blamed
<1> QED BY <1>1, Invariance, PTL
============================================================================
