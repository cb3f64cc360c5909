-------------------------- MODULE ThrottlerProofs --------------------------
(***************************************************************************)
(* Proofs about Throttler, for any sets of requests, keys and limiters and *)
(* any times that meet the assumptions there.                              *)
(*                                                                         *)
(* The inductive invariant relates three clock readings taken at different *)
(* moments: the time a request stamped, the lastSeen of the entry it found *)
(* (which a slower request may since have moved back), and the cutoff the  *)
(* collector computed before it took the lock.  On top of it come one for  *)
(* what the collector leaves in the map (IdleOK) and one for the rate      *)
(* limit (RateInv), which compares what was served with what is reserved   *)
(* and with what the bucket lacks.  Last comes what a client may count on  *)
(* (OwedOK): what the bucket lacks is what was served or is reserved.      *)
(***************************************************************************)
EXTENDS Throttler, FiniteSetTheorems, SequenceTheorems, TLAPS

Holding(r) == pc[r] \in {"reserve", "decide", "cancel"}

(* A request is inside the throttler for at most MaxStall.                 *)
Timely ==
    \A r \in Requests : Inside(r) => stamp[r] <= clock /\ clock <= stamp[r] + MaxStall

(* The entry of a key that is being drawn from was seen, if not after the  *)
(* request's stamp, then at most MaxStall before it.                       *)
HeldOK ==
    \A r \in Requests :
        Holding(r) => /\ limiterOf[key[r]] = held[r]
                      /\ lastSeen[key[r]] >= stamp[r] - MaxStall

NotShared ==
    \A k1, k2 \in Keys :
        limiterOf[k1] # NoLimiter /\ limiterOf[k1] = limiterOf[k2] => k1 = k2

CutoffOK == gcPc = "sweep" => cutoff <= clock - StaleAfter

UsedOK == \A k \in Keys : limiterOf[k] # NoLimiter => used[k] <= lastSeen[k] + MaxStall

IInv == Timely /\ HeldOK /\ NotShared /\ CutoffOK /\ UsedOK
----------------------------------------------------------------------------
(* What the token bucket operators return has the right type.              *)
LEMMA BucketType ==
    /\ \A limit \in Limit : NewLimiter(limit) \in Bucket
    /\ \A lim \in Bucket : Earn(lim) \in Bucket
    /\ \A lim \in Bucket, t \in Nat : ReservationOf(lim, t) \in Reservation
    /\ \A lim \in Bucket, t \in Nat : AfterReserve(lim, t) \in Bucket
    /\ \A lim \in Bucket, rv \in Reservation, t \in Nat : AfterCancel(lim, rv, t) \in Bucket
<1>1. ASSUME NEW a \in Nat, NEW b \in Nat
      PROVE  a * b \in Int
  OBVIOUS
<1>2. ASSUME NEW limit \in Limit
      PROVE  NewLimiter(limit) \in Bucket
  BY <1>1 DEF Limit, NewLimiter, Bucket
<1>3. ASSUME NEW lim \in Bucket
      PROVE  Capacity(lim) \in Int
  BY <1>1 DEF Capacity, Bucket
<1>4. ASSUME NEW lim \in Bucket, NEW c \in Int, NEW x \in Nat
      PROVE  [lim EXCEPT !.credit = c, !.lastEvent = x] \in Bucket
  BY DEF Bucket
<1>5. ASSUME NEW lim \in Bucket
      PROVE  Earn(lim) \in Bucket
  BY <1>3 DEF Earn, AtMost, Bucket
<1>6. ASSUME NEW lim \in Bucket, NEW t \in Nat
      PROVE  ReservationOf(lim, t) \in Reservation
  BY DEF ReservationOf, NoReservation, Reservation, Bucket
<1>7. ASSUME NEW lim \in Bucket, NEW t \in Nat
      PROVE  AfterReserve(lim, t) \in Bucket
  <2>1. ReservationOf(lim, t).timeToAct \in Nat
    BY <1>6 DEF Reservation
  <2>2. lim.credit - lim.interval \in Int
    BY DEF Bucket
  <2>. QED  BY <2>1, <2>2, <1>4 DEF AfterReserve
<1>8. ASSUME NEW lim \in Bucket, NEW rv \in Reservation, NEW t \in Nat
      PROVE  AfterCancel(lim, rv, t) \in Bucket
  <2>. DEFINE prev == rv.timeToAct - lim.interval
              c == AtMost(Capacity(lim), lim.credit + Restored(lim, rv))
              x == IF rv.timeToAct = lim.lastEvent /\ prev >= t THEN prev ELSE lim.lastEvent
  <2>1. c \in Int
    BY <1>3 DEF Restored, AtMost, Reservation, Bucket
  <2>2. x \in Nat
    BY DEF Reservation, Bucket
  <2>3. [lim EXCEPT !.credit = c, !.lastEvent = x] \in Bucket
    BY <2>1, <2>2, <1>4
  <2>. QED  BY <2>3 DEF AfterCancel
<1>. QED  BY <1>2, <1>5, <1>6, <1>7, <1>8

LEMMA ResolveLimitType == \A a \in AllActions : ResolveLimit(a) \in Limit
BY LimitAssumption DEF ResolveLimit
LEMMA KeyOfType ==
    ASSUME NEW acct \in Accounts, NEW act, ActionOf(act) \in AllActions
    PROVE  KeyOf(acct, act) \in Keys
<1>. DEFINE p == << acct, ActionOf(act) >>
<1>1. p \in Accounts \X AllActions /\ p[1] = acct /\ p[2] = ActionOf(act)
  OBVIOUS
<1>. HIDE DEF p
<1>2. KeyOf(acct, act) = p[1] \o p[2]
  BY <1>1 DEF KeyOf
<1>. QED  BY <1>1, <1>2 DEF Keys
----------------------------------------------------------------------------
(* Type correctness, with what makes it inductive: a request inside the    *)
(* throttler has a key, and one that was given a limiter has a limiter.    *)
Typed ==
    /\ TypeOK
    /\ \A r \in Requests :
          /\ Inside(r) => key[r] \in Keys
          /\ Holding(r) => held[r] \in Limiters

LEMMA TypedInit == Init => Typed
<1>. SUFFICES ASSUME Init PROVE Typed
  OBVIOUS
<1>1. limiter \in [Limiters -> Bucket]
  BY BucketType, LimitAssumption DEF Init
<1>2. TypeOK
  <2>1. Unknown \in AllActions
    BY DEF AllActions
  <2>2. NoReservation \in Reservation
    BY DEF Reservation, NoReservation
  <2>3. clock \in 0 .. MaxTime /\ cutoff \in Int
    BY TimingAssumption DEF Init
  <2>4. tickPending \in BOOLEAN /\ cancelled \in BOOLEAN
    BY DEF Init
  <2>. QED  BY <1>1, <2>1, <2>2, <2>3, <2>4 DEF Init, TypeOK, Finished, InFlight
<1>3. \A r \in Requests : ~Inside(r) /\ ~Holding(r)
  BY DEF Init, Inside, InFlight, Holding
<1>. QED  BY <1>2, <1>3 DEF Typed

(* The pieces of the types that an action of the throttler's part leaves   *)
(* alone stay as they are.                                                 *)
LEMMA TypedStep == Typed /\ [Next]_vars => Typed'
<1>. SUFFICES ASSUME Typed, [Next]_vars PROVE Typed'
  OBVIOUS
<1>. USE DEF Typed, TypeOK, Inside, Holding, InFlight, Finished
<1>1. ASSUME NEW r \in Requests, NEW acct \in Accounts \cup {EmptyName, KeyError},
             NEW act \in Actions \cup {EmptyName, Absent, KeyError},
             Arrive(r, acct, act)
      PROVE  Typed'
  <2>1. CASE FailsOpen(acct, act)
    BY <1>1, <2>1 DEF Arrive, gcVars, stopVars, entryVars
  <2>2. CASE ~FailsOpen(acct, act)
    <3>1. acct \in Accounts /\ ActionOf(act) \in AllActions
      BY <2>2 DEF FailsOpen, ActionOf, AllActions
    <3>2. KeyOf(acct, act) \in Keys
      BY <3>1, KeyOfType
    <3>3. clock \in Nat
      BY TimingAssumption
    <3>. QED  BY <1>1, <2>2, <3>1, <3>2, <3>3 DEF Arrive, gcVars, stopVars, entryVars
  <2>. QED  BY <2>1, <2>2
<1>2. ASSUME NEW r \in Requests, Found(r), key[r] \in Keys,
             UNCHANGED << clock, gcVars, stopVars, key, action, stamp, rsv, spent >>
      PROVE  Typed'
  <2>1. limiterOf[key[r]] \in Limiters
    BY <1>2 DEF Found
  <2>2. clock \in Nat
    BY TimingAssumption
  <2>. QED  BY <1>2, <2>1, <2>2 DEF Found, gcVars, stopVars
<1>3. ASSUME NEW r \in Requests, Lookup(r)
      PROVE  Typed'
  <2>1. key[r] \in Keys
    BY <1>3 DEF Lookup
  <2>2. CASE Found(r)
    BY <1>2, <1>3, <2>1, <2>2 DEF Lookup
  <2>3. CASE ~Found(r)
    BY <1>3, <2>1, <2>3 DEF Lookup, gcVars, stopVars, entryVars
  <2>. QED  BY <2>2, <2>3
<1>4. ASSUME NEW r \in Requests, Insert(r)
      PROVE  Typed'
  <2>1. key[r] \in Keys
    BY <1>4 DEF Insert
  <2>2. CASE Found(r)
    BY <1>2, <1>4, <2>1, <2>2 DEF Insert
  <2>3. CASE Create(r)
    <3>1. PICK l \in Limiters :
             /\ limiter' = [limiter EXCEPT ![l] = NewLimiter(ResolveLimit(action[r]))]
             /\ limiterOf' = [limiterOf EXCEPT ![key[r]] = l]
             /\ lastSeen' = [lastSeen EXCEPT ![key[r]] = stamp[r]]
             /\ used' = [used EXCEPT ![key[r]] = clock]
             /\ held' = [held EXCEPT ![r] = l]
             /\ pc' = [pc EXCEPT ![r] = "reserve"]
      BY <2>3 DEF Create
    <3>2. NewLimiter(ResolveLimit(action[r])) \in Bucket
      BY BucketType, ResolveLimitType
    <3>3. clock \in Nat
      BY TimingAssumption
    <3>4. limiter' \in [Limiters -> Bucket]
      BY <3>1, <3>2
    <3>. QED  BY <1>4, <2>1, <3>1, <3>3, <3>4 DEF Insert, gcVars, stopVars
  <2>. QED  BY <1>4, <2>2, <2>3 DEF Insert
<1>5. ASSUME NEW r \in Requests, Reserve(r)
      PROVE  Typed'
  <2>1. clock \in Nat /\ held[r] \in Limiters /\ limiter[held[r]] \in Bucket
    BY <1>5, TimingAssumption DEF Reserve
  <2>2. /\ ReservationOf(limiter[held[r]], clock) \in Reservation
        /\ AfterReserve(limiter[held[r]], clock) \in Bucket
    BY <2>1, BucketType
  <2>3. limiter' \in [Limiters -> Bucket] /\ rsv' \in [Requests -> Reservation]
    BY <1>5, <2>1, <2>2 DEF Reserve
  <2>. QED  BY <1>5, <2>3 DEF Reserve, gcVars, stopVars, entryVars
<1>6. ASSUME NEW r \in Requests, Admit(r)
      PROVE  Typed'
  <2>1. held[r] \in Limiters /\ key[r] \in Keys /\ limiter[held[r]] \in Bucket
    BY <1>6 DEF Admit
  <2>2. limiter[held[r]].interval \in Nat
    BY <2>1 DEF Bucket
  <2>3. spent' \in [Keys -> Nat]
    BY <1>6, <2>1, <2>2 DEF Admit
  <2>. QED
    BY <1>6, <2>3
    DEF Admit, Leave, gcVars, stopVars, entryVars, AllActions, Reservation, NoReservation
<1>7. ASSUME NEW r \in Requests, Refuse(r)
      PROVE  Typed'
  BY <1>7 DEF Refuse, gcVars, stopVars, entryVars
<1>8. ASSUME NEW r \in Requests, Cancel(r)
      PROVE  Typed'
  <2>1. clock \in Nat /\ held[r] \in Limiters /\ limiter[held[r]] \in Bucket
    BY <1>8, TimingAssumption DEF Cancel
  <2>2. AfterCancel(limiter[held[r]], rsv[r], clock) \in Bucket
    BY <2>1, BucketType
  <2>3. limiter' \in [Limiters -> Bucket]
    BY <1>8, <2>1, <2>2 DEF Cancel
  <2>. QED
    BY <1>8, <2>3
    DEF Cancel, Leave, gcVars, stopVars, entryVars, AllActions, Reservation, NoReservation
<1>9. CASE GCTick
  <2>1. cutoff' \in Int
    BY <1>9, TimingAssumption DEF GCTick, Cutoff
  <2>2. tickPending' \in BOOLEAN
    BY <1>9 DEF GCTick
  <2>. QED  BY <1>9, <2>1, <2>2 DEF GCTick, stopVars, entryVars, localVars
<1>10. CASE GCSweep
  BY <1>10 DEF GCSweep, stopVars, localVars
<1>11. CASE GCExit
  BY <1>11 DEF GCExit, stopVars, entryVars, localVars
<1>12. ASSUME NEW s \in Stoppers, StopFirst(s) \/ StopAgain(s) \/ StopStep(s)
       PROVE  Typed'
  BY <1>12
  DEF StopFirst, StopAgain, StopStep, StopDone, StopAgainDone, gcVars, entryVars, localVars
<1>13. CASE Tick
  <2>1. clock' \in 0 .. MaxTime
    BY <1>13, TimingAssumption DEF Tick
  <2>2. limiter' \in [Limiters -> Bucket]
    BY <1>13, BucketType DEF Tick
  <2>3. tickPending' \in BOOLEAN
    BY <1>13 DEF Tick
  <2>. QED  BY <1>13, <2>1, <2>2, <2>3 DEF Tick, stopVars, entryVars, localVars
<1>14. CASE UNCHANGED vars
  BY <1>14 DEF vars, gcVars, stopVars, entryVars, localVars
<1>. QED
  BY <1>1, <1>3, <1>4, <1>5, <1>6, <1>7, <1>8, <1>9, <1>10, <1>11, <1>12, <1>13, <1>14
  DEF Next, RequestStep

(* Every reachable state of the throttler is well typed.                   *)
THEOREM TypeCorrect == Spec => []TypeOK
<1>1. Typed => TypeOK
  BY DEF Typed
<1>. QED  BY <1>1, TypedInit, TypedStep, PTL DEF Spec
----------------------------------------------------------------------------
LEMMA IInvInit == Init => IInv
BY DEF Init, IInv, Timely, HeldOK, NotShared, CutoffOK, UsedOK, Inside, InFlight, Holding

(* A request that finds an entry gives it a stamp that is recent enough    *)
(* for every other request that draws from it.                             *)
LEMMA FoundKeepsIInv ==
    ASSUME Typed, IInv, NEW q \in Requests, Found(q), pc[q] \in {"lookup", "insert"},
           UNCHANGED << clock, gcVars, stopVars, key, action, stamp, rsv, spent >>
    PROVE  IInv'
<1>. USE TimingAssumption DEF Typed, TypeOK, Inside, InFlight, Finished, Holding
<1>1. /\ key[q] \in Keys /\ clock \in Int /\ stamp[q] \in Int
      /\ stamp[q] <= clock /\ clock <= stamp[q] + MaxStall
  BY DEF IInv, Timely
<1>2. Timely'
  BY DEF IInv, Timely, Found
<1>3. HeldOK'
  <2>. SUFFICES ASSUME NEW r \in Requests, Holding(r)'
                PROVE  limiterOf'[key'[r]] = held'[r] /\ lastSeen'[key'[r]] >= stamp'[r] - MaxStall
    BY DEF HeldOK
  <2>1. CASE r = q
    BY <1>1, <2>1 DEF Found
  <2>2. CASE r # q
    <3>1. Holding(r) /\ held'[r] = held[r]
      BY <2>2 DEF Found
    <3>2. /\ key[r] \in Keys /\ stamp[r] \in Int /\ stamp[r] <= clock
          /\ limiterOf[key[r]] = held[r] /\ lastSeen[key[r]] >= stamp[r] - MaxStall
      BY <3>1 DEF IInv, Timely, HeldOK
    <3>. QED  BY <1>1, <3>1, <3>2 DEF Found
  <2>. QED  BY <2>1, <2>2
<1>4. NotShared' /\ CutoffOK'
  BY DEF IInv, NotShared, CutoffOK, Found, gcVars
<1>5. UsedOK'
  BY <1>1 DEF IInv, UsedOK, Found
<1>. QED  BY <1>2, <1>3, <1>4, <1>5 DEF IInv

(* A new entry goes where there was none, so that nobody was drawing from  *)
(* the key, and its limiter is nobody else's.                              *)
LEMMA CreateKeepsIInv ==
    ASSUME Typed, IInv, NEW q \in Requests, Create(q), pc[q] = "insert",
           limiterOf[key[q]] = NoLimiter,
           UNCHANGED << clock, gcVars, stopVars, key, action, stamp, rsv, spent >>
    PROVE  IInv'
<1>. USE TimingAssumption DEF Typed, TypeOK, Inside, InFlight, Finished, Holding
<1>1. /\ key[q] \in Keys /\ clock \in Int /\ stamp[q] \in Int
      /\ stamp[q] <= clock /\ clock <= stamp[q] + MaxStall
  BY DEF IInv, Timely
<1>2. PICK l \in Limiters :
         /\ Fresh(l)
         /\ limiterOf' = [limiterOf EXCEPT ![key[q]] = l]
         /\ lastSeen' = [lastSeen EXCEPT ![key[q]] = stamp[q]]
         /\ used' = [used EXCEPT ![key[q]] = clock]
         /\ held' = [held EXCEPT ![q] = l]
         /\ pc' = [pc EXCEPT ![q] = "reserve"]
  BY DEF Create
<1>3. Timely'
  BY <1>2 DEF IInv, Timely
<1>4. HeldOK'
  <2>. SUFFICES ASSUME NEW r \in Requests, Holding(r)'
                PROVE  limiterOf'[key'[r]] = held'[r] /\ lastSeen'[key'[r]] >= stamp'[r] - MaxStall
    BY DEF HeldOK
  <2>1. CASE r = q
    BY <1>1, <1>2, <2>1
  <2>2. CASE r # q
    <3>1. Holding(r) /\ held'[r] = held[r] /\ held[r] \in Limiters /\ key[r] \in Keys
      BY <1>2, <2>2
    <3>2. limiterOf[key[r]] = held[r] /\ lastSeen[key[r]] >= stamp[r] - MaxStall
      BY <3>1 DEF IInv, HeldOK
    <3>3. key[r] # key[q]
      BY <3>1, <3>2, DistinctAssumption
    <3>. QED  BY <1>1, <1>2, <3>1, <3>2, <3>3
  <2>. QED  BY <2>1, <2>2
<1>5. NotShared'
  BY <1>1, <1>2, DistinctAssumption DEF IInv, NotShared, Fresh
<1>6. CutoffOK'
  BY DEF IInv, CutoffOK, gcVars
<1>7. UsedOK'
  BY <1>1, <1>2 DEF IInv, UsedOK
<1>. QED  BY <1>3, <1>4, <1>5, <1>6, <1>7 DEF IInv

(* The collector spares every entry that is being drawn from.              *)
LEMMA HeldNotExpired ==
    ASSUME Typed, IInv, gcPc = "sweep", NEW r \in Requests, Holding(r)
    PROVE  ~Expired(key[r])
<1>. USE TimingAssumption DEF Typed, TypeOK, Inside, InFlight, Finished, Holding
<1>1. /\ key[r] \in Keys /\ clock \in Int /\ stamp[r] \in Int /\ cutoff \in Int
      /\ clock <= stamp[r] + MaxStall
  BY DEF IInv, Timely
<1>2. lastSeen[key[r]] \in Int /\ lastSeen[key[r]] >= stamp[r] - MaxStall
  BY <1>1 DEF IInv, HeldOK
<1>3. cutoff <= clock - StaleAfter
  BY DEF IInv, CutoffOK
<1>. QED  BY <1>1, <1>2, <1>3, StallAssumption DEF Expired

LEMMA IInvStep == Typed /\ IInv /\ [Next]_vars => IInv'
<1>. SUFFICES ASSUME Typed, IInv, [Next]_vars PROVE IInv'
  OBVIOUS
<1>. USE TimingAssumption DEF Typed, TypeOK, Inside, InFlight, Finished, Holding
<1>1. ASSUME NEW r \in Requests, NEW acct \in Accounts \cup {EmptyName, KeyError},
             NEW act \in Actions \cup {EmptyName, Absent, KeyError},
             Arrive(r, acct, act)
      PROVE  IInv'
  <2>1. Timely'
    BY <1>1 DEF IInv, Timely, Arrive
  <2>2. HeldOK'
    BY <1>1 DEF IInv, HeldOK, Arrive, entryVars
  <2>3. NotShared' /\ CutoffOK' /\ UsedOK'
    BY <1>1 DEF IInv, NotShared, CutoffOK, UsedOK, Arrive, entryVars, gcVars
  <2>. QED  BY <2>1, <2>2, <2>3 DEF IInv
<1>2. ASSUME NEW r \in Requests, Lookup(r)
      PROVE  IInv'
  <2>1. CASE Found(r)
    BY <1>2, <2>1, FoundKeepsIInv DEF Lookup
  <2>2. CASE ~Found(r)
    BY <1>2, <2>2
    DEF Lookup, IInv, Timely, HeldOK, NotShared, CutoffOK, UsedOK, entryVars, gcVars
  <2>. QED  BY <2>1, <2>2
<1>3. ASSUME NEW r \in Requests, Insert(r)
      PROVE  IInv'
  BY <1>3, FoundKeepsIInv, CreateKeepsIInv DEF Insert
<1>4. ASSUME NEW r \in Requests, Reserve(r) \/ Refuse(r)
      PROVE  IInv'
  <2>1. Timely' /\ HeldOK'
    BY <1>4 DEF IInv, Timely, HeldOK, Reserve, Refuse, entryVars
  <2>2. NotShared' /\ CutoffOK' /\ UsedOK'
    BY <1>4 DEF IInv, NotShared, CutoffOK, UsedOK, Reserve, Refuse, entryVars, gcVars
  <2>. QED  BY <2>1, <2>2 DEF IInv
<1>5. ASSUME NEW r \in Requests, Admit(r) \/ Cancel(r)
      PROVE  IInv'
  <2>1. Timely' /\ HeldOK'
    BY <1>5 DEF IInv, Timely, HeldOK, Admit, Cancel, Leave, entryVars
  <2>2. NotShared' /\ CutoffOK' /\ UsedOK'
    BY <1>5 DEF IInv, NotShared, CutoffOK, UsedOK, Admit, Cancel, entryVars, gcVars
  <2>. QED  BY <2>1, <2>2 DEF IInv
<1>6. CASE GCTick
  BY <1>6
  DEF GCTick, Cutoff, IInv, Timely, HeldOK, NotShared, CutoffOK, UsedOK, entryVars, localVars
<1>7. CASE GCSweep
  <2>1. HeldOK'
    BY <1>7, HeldNotExpired DEF IInv, HeldOK, GCSweep, localVars
  <2>2. NotShared' /\ UsedOK'
    BY <1>7 DEF IInv, NotShared, UsedOK, GCSweep
  <2>3. Timely' /\ CutoffOK'
    BY <1>7 DEF IInv, Timely, CutoffOK, GCSweep, localVars
  <2>. QED  BY <2>1, <2>2, <2>3 DEF IInv
<1>8. CASE GCExit
  BY <1>8
  DEF GCExit, IInv, Timely, HeldOK, NotShared, CutoffOK, UsedOK, entryVars, localVars
<1>9. ASSUME NEW s \in Stoppers, StopFirst(s) \/ StopAgain(s) \/ StopStep(s)
      PROVE  IInv'
  BY <1>9
  DEF StopFirst, StopAgain, StopStep, StopDone, StopAgainDone, gcVars, entryVars, localVars,
      IInv, Timely, HeldOK, NotShared, CutoffOK, UsedOK
<1>10. CASE Tick
  <2>1. Timely'
    BY <1>10 DEF IInv, Timely, Tick, localVars
  <2>2. HeldOK' /\ NotShared' /\ CutoffOK' /\ UsedOK'
    BY <1>10 DEF IInv, HeldOK, NotShared, CutoffOK, UsedOK, Tick, entryVars, localVars
  <2>. QED  BY <2>1, <2>2 DEF IInv
<1>11. CASE UNCHANGED vars
  BY <1>11
  DEF vars, gcVars, entryVars, localVars, IInv, Timely, HeldOK, NotShared, CutoffOK, UsedOK
<1>. QED
  BY <1>1, <1>2, <1>3, <1>4, <1>5, <1>6, <1>7, <1>8, <1>9, <1>10, <1>11
  DEF Next, RequestStep

(* A request draws from the bucket that is in the map under its key, and   *)
(* from no other key's: no eviction and no racing insert comes in between. *)
THEOREM HeldIsCurrentHolds == Spec => []HeldIsCurrent
<1>1. Typed /\ IInv => HeldIsCurrent
  BY DistinctAssumption
  DEF Typed, TypeOK, IInv, HeldOK, NotShared, HeldIsCurrent, Inside, InFlight, Holding
<1>. QED  BY <1>1, TypedInit, TypedStep, IInvInit, IInvStep, PTL DEF Spec

(* The collector evicts idle entries only.                                 *)
THEOREM EvictsOnlyIdleHolds == Spec => EvictsOnlyIdle
<1>1. ASSUME Typed, IInv, [Next]_vars
      PROVE  [OnlyIdleLeave]_vars
  <2>. SUFFICES ASSUME NEW k \in Keys, limiterOf[k] # NoLimiter, limiterOf'[k] # limiterOf[k]
                PROVE  clock - used[k] > StaleAfter - MaxStall
    BY DEF OnlyIdleLeave
  <2>1. CASE GCSweep
    <3>1. limiterOf[k] # NoLimiter /\ lastSeen[k] < cutoff
      BY <2>1 DEF GCSweep, Expired
    <3>2. cutoff <= clock - StaleAfter /\ used[k] <= lastSeen[k] + MaxStall
      BY <1>1, <2>1 DEF IInv, CutoffOK, UsedOK, GCSweep
    <3>3. /\ clock \in Int /\ cutoff \in Int /\ used[k] \in Int /\ lastSeen[k] \in Int
          /\ StaleAfter \in Int /\ MaxStall \in Int
      BY <1>1, TimingAssumption DEF Typed, TypeOK
    <3>. QED  BY <3>1, <3>2, <3>3
  <2>2. ASSUME NEW r \in Requests, Insert(r)
        PROVE  FALSE
    BY <1>1, <2>2 DEF Insert, Found, Create, Typed, TypeOK
  <2>3. CASE limiterOf' = limiterOf
    BY <2>3
  <2>. QED
    BY <1>1, <2>1, <2>2, <2>3
    DEF Next, RequestStep, vars, entryVars, Arrive, Lookup, Found, Reserve, Admit, Refuse,
        Cancel, GCTick, GCExit, StopFirst, StopAgain, StopStep, StopDone, StopAgainDone, Tick
<1>. QED  BY <1>1, TypedInit, TypedStep, IInvInit, IInvStep, PTL DEF Spec, EvictsOnlyIdle

(* When a call of Stop has returned, whichever caller it was, the collector*)
(* has exited.                                                             *)
THEOREM StopMeansExitedHolds == Spec => []StopMeansExited
<1>1. Init => StopMeansExited
  BY DEF Init, StopMeansExited
<1>2. Typed /\ StopMeansExited /\ [Next]_vars => StopMeansExited'
  <2>. SUFFICES ASSUME Typed, StopMeansExited, [Next]_vars,
                       NEW s \in Stoppers, stopPc'[s] = "returned"
                PROVE  gcPc' = "exited"
    BY DEF StopMeansExited
  <2>1. CASE UNCHANGED stopPc
    <3>1. gcPc = "exited"
      BY <2>1 DEF StopMeansExited
    <3>. QED
      BY <3>1
      DEF Next, RequestStep, vars, gcVars, Arrive, Lookup, Insert, Reserve, Admit, Refuse,
          Cancel, GCTick, GCSweep, GCExit, StopFirst, StopAgain, StopStep, StopDone,
          StopAgainDone, Tick
  <2>2. ASSUME NEW q \in Stoppers, StopFirst(q) \/ StopAgain(q) \/ StopStep(q)
        PROVE  gcPc' = "exited"
    BY <2>2
    DEF Typed, TypeOK, StopMeansExited, StopFirst, StopAgain, StopStep, StopDone,
        StopAgainDone, gcVars
  <2>. QED
    BY <2>1, <2>2
    DEF Next, RequestStep, vars, stopVars, Arrive, Lookup, Insert, Reserve, Admit, Refuse,
        Cancel, GCTick, GCSweep, GCExit, Tick
<1>. QED  BY <1>1, <1>2, TypedInit, TypedStep, PTL DEF Spec
----------------------------------------------------------------------------
(* When the ticker last fired.                                             *)
LastDue == clock - (clock % GCInterval)

(* From one time to the next the remainder goes up by one or back to zero. *)
LEMMA DueFacts ==
    ASSUME NEW t \in Nat, NEW g \in Nat \ {0}
    PROVE  /\ (t % g) \in 0 .. (g - 1)
           /\ (t + 1) % g = 0 => (t % g) = g - 1
           /\ (t + 1) % g # 0 => (t + 1) % g = (t % g) + 1
<1>. DEFINE q == t \div g
            p == (t + 1) \div g
            m == t % g
            n == (t + 1) % g
<1>1. m \in 0 .. (g - 1) /\ q \in Int /\ t = (g * q) + m
  OBVIOUS
<1>2. n \in 0 .. (g - 1) /\ p \in Int /\ t + 1 = (g * p) + n
  OBVIOUS
<1>. HIDE DEF p, q, m, n
<1>3. g * (p - q) = (m + 1) - n
  BY <1>1, <1>2
<1>4. p - q \in {0, 1}
  BY <1>1, <1>2, <1>3
<1>5. /\ m \in 0 .. (g - 1)
      /\ n = 0 => m = g - 1
      /\ n # 0 => n = m + 1
  BY <1>1, <1>2, <1>3, <1>4
<1>. QED  BY <1>5 DEF m, n

(* An entry outlives the cutoff of the last tick only while that tick is   *)
(* still to be handled, and then it has outlived the one before.           *)
IdleOK ==
    /\ gcPc = "exited" => cancelled
    /\ PromptGC =>
          /\ gcPc = "sweep" => cutoff >= LastDue - StaleAfter
          /\ \A k \in Keys : limiterOf[k] # NoLimiter =>
                lastSeen[k] >= IF gcPc = "exited" THEN 0
                               ELSE IF tickPending \/ gcPc = "sweep"
                               THEN LastDue - GCInterval - StaleAfter
                               ELSE LastDue - StaleAfter

LEMMA IdleInit == Init => IdleOK
<1>. SUFFICES ASSUME Init PROVE IdleOK
  OBVIOUS
<1>. QED  BY DEF Init, IdleOK

(* A stamp is recent.                                                      *)
LEMMA StampRecent ==
    ASSUME Typed, IInv, NEW r \in Requests, Inside(r)
    PROVE  stamp[r] >= LastDue - StaleAfter
<1>1. /\ clock \in Nat /\ stamp[r] \in Nat /\ MaxStall \in Nat /\ StaleAfter \in Nat
      /\ clock <= stamp[r] + MaxStall
  BY TimingAssumption DEF Typed, TypeOK, IInv, Timely
<1>2. (clock % GCInterval) \in 0 .. (GCInterval - 1)
  BY <1>1, DueFacts, TimingAssumption
<1>. QED  BY <1>1, <1>2, StallAssumption, TimingAssumption DEF LastDue

LEMMA IdleStep == Typed /\ IInv /\ IdleOK /\ [Next]_vars => IdleOK'
<1>. SUFFICES ASSUME Typed, IInv, IdleOK, [Next]_vars PROVE IdleOK'
  OBVIOUS
<1>1. /\ clock \in Nat /\ StaleAfter \in Nat /\ GCInterval \in Nat \ {0}
      /\ (clock % GCInterval) \in 0 .. (GCInterval - 1)
  BY DueFacts, TimingAssumption DEF Typed, TypeOK
<1>2. LastDue \in Int /\ LastDue <= clock
  BY <1>1 DEF LastDue
<1>3. ASSUME NEW r \in Requests, Found(r) \/ Create(r), pc[r] \in {"lookup", "insert"},
             UNCHANGED << clock, gcVars, stopVars >>
      PROVE  IdleOK'
  <2>1. key[r] \in Keys /\ stamp[r] \in Nat /\ stamp[r] >= LastDue - StaleAfter
    BY <1>3, StampRecent DEF Typed, TypeOK, Inside, InFlight
  <2>2. LastDue' = LastDue
    BY <1>3 DEF LastDue
  <2>3. /\ lastSeen' = [lastSeen EXCEPT ![key[r]] = stamp[r]]
        /\ \A k \in Keys \ {key[r]} : limiterOf'[k] = limiterOf[k]
    BY <1>3, <2>1 DEF Found, Create, Typed, TypeOK
  <2>. QED
    BY <1>1, <1>2, <1>3, <2>1, <2>2, <2>3 DEF IdleOK, gcVars, stopVars, Typed, TypeOK
<1>4. CASE UNCHANGED << clock, gcVars, cancelled, limiterOf, lastSeen >>
  BY <1>4 DEF IdleOK, LastDue, gcVars
<1>5. CASE GCTick
  <2>1. LastDue' = LastDue /\ cutoff' = clock - StaleAfter
    BY <1>5 DEF GCTick, Cutoff, LastDue
  <2>. QED  BY <1>1, <1>2, <1>5, <2>1 DEF IdleOK, GCTick, stopVars, entryVars, Typed, TypeOK
<1>6. CASE GCSweep
  <2>1. LastDue' = LastDue
    BY <1>6 DEF GCSweep, LastDue
  <2>. QED
    BY <1>1, <1>2, <1>6, <2>1 DEF IdleOK, GCSweep, Expired, stopVars, Typed, TypeOK
<1>7. CASE GCExit
  <2>1. LastDue' = LastDue
    BY <1>7 DEF GCExit, LastDue
  <2>. QED  BY <1>1, <1>7, <2>1 DEF IdleOK, GCExit, stopVars, entryVars, Typed, TypeOK
<1>8. ASSUME NEW s \in Stoppers, StopFirst(s)
      PROVE  IdleOK'
  BY <1>8 DEF IdleOK, StopFirst, LastDue, gcVars, entryVars
<1>9. CASE Tick
  <2>1. /\ TickDue => LastDue' = LastDue + GCInterval
        /\ ~TickDue => LastDue' = LastDue
    <3>1. /\ (clock + 1) % GCInterval = 0 => (clock % GCInterval) = GCInterval - 1
          /\ (clock + 1) % GCInterval # 0 => (clock + 1) % GCInterval = (clock % GCInterval) + 1
      BY <1>1, DueFacts
    <3>2. LastDue' = (clock + 1) - ((clock + 1) % GCInterval)
      BY <1>9 DEF Tick, LastDue
    <3>. QED  BY <1>1, <3>1, <3>2 DEF TickDue, LastDue
  <2>2. CASE TickDue
    <3>. SUFFICES ASSUME PromptGC
                  PROVE  /\ gcPc' # "sweep"
                         /\ gcPc' # "exited" => tickPending'
                         /\ \A k \in Keys : limiterOf'[k] # NoLimiter =>
                               lastSeen'[k] >= IF gcPc' = "exited" THEN 0
                                               ELSE LastDue' - GCInterval - StaleAfter
      BY <1>9 DEF Tick, IdleOK, stopVars, Typed, TypeOK
    <3>1. ~tickPending /\ gcPc # "sweep" /\ (gcPc' # "exited" => tickPending')
      BY <1>9, <2>2 DEF Tick
    <3>2. UNCHANGED << gcPc, limiterOf, lastSeen >>
      BY <1>9 DEF Tick, entryVars
    <3>. QED  BY <1>1, <1>2, <2>1, <2>2, <3>1, <3>2 DEF IdleOK, Typed, TypeOK
  <2>3. CASE ~TickDue
    BY <1>1, <1>2, <1>9, <2>1, <2>3 DEF IdleOK, Tick, stopVars, entryVars, Typed, TypeOK
  <2>. QED  BY <2>2, <2>3
<1>10. ASSUME NEW r \in Requests, Lookup(r) \/ Insert(r)
       PROVE  IdleOK'
  BY <1>3, <1>4, <1>10 DEF Lookup, Insert, entryVars, stopVars
<1>11. \/ UNCHANGED << clock, gcVars, cancelled, limiterOf, lastSeen >>
       \/ \E r \in Requests : Lookup(r) \/ Insert(r)
       \/ GCTick \/ GCSweep \/ GCExit \/ Tick
       \/ \E s \in Stoppers : StopFirst(s)
  BY DEF Next, RequestStep, vars, stopVars, entryVars, Arrive, Reserve, Admit, Refuse, Cancel,
         StopAgain, StopStep, StopDone, StopAgainDone
<1>. QED  BY <1>4, <1>5, <1>6, <1>7, <1>8, <1>9, <1>10, <1>11

(* While the collector runs and keeps up with its ticker, an entry that    *)
(* nobody uses is out of the map two ticks after it has gone stale.        *)
THEOREM IdleEntriesCollectedHolds == Spec => []IdleEntriesCollected
<1>1. Typed /\ IdleOK => IdleEntriesCollected
  <2>. SUFFICES ASSUME Typed, IdleOK, PromptGC, ~cancelled,
                       NEW k \in Keys, limiterOf[k] # NoLimiter
                PROVE  clock - lastSeen[k] <= StaleAfter + 2 * GCInterval
    BY DEF IdleEntriesCollected
  <2>1. /\ clock \in Nat /\ lastSeen[k] \in Nat /\ StaleAfter \in Nat
        /\ GCInterval \in Nat \ {0}
        /\ (clock % GCInterval) \in 0 .. (GCInterval - 1)
    BY DueFacts, TimingAssumption DEF Typed, TypeOK
  <2>2. lastSeen[k] >= LastDue - GCInterval - StaleAfter
    BY <2>1 DEF IdleOK, LastDue
  <2>. QED  BY <2>1, <2>2 DEF LastDue
<1>. QED  BY <1>1, TypedInit, TypedStep, IInvInit, IInvStep, IdleInit, IdleStep, PTL DEF Spec
----------------------------------------------------------------------------
(* The rest of this module is about the rate limit.  Sums are taken over   *)
(* requests that hold a reservation and have not been answered.            *)

(* The setting of a key's bucket: that of the action in the key.           *)
KeyLimit(k) ==
    ResolveLimit(CHOOSE a \in AllActions : \E acct \in Accounts : k = acct \o a)

Interval(k) == KeyLimit(k).interval
Full(k) == KeyLimit(k).burst * KeyLimit(k).interval

(* Two pairs that are joined to the same key have the same setting.         *)
SameSetting(x, a, y, b) == x \o a = y \o b => ResolveLimit(a) = ResolveLimit(b)

(* No two pairs of an account and an action with different settings are    *)
(* joined to the same key.                                                 *)
KeysApart ==
    \A x, y \in Accounts : \A a, b \in AllActions : SameSetting(x, a, y, b)

(* A bucket that goes stale has had the time to fill up, stalls included.  *)
RefillsInTime == \A k \in Keys : Full(k) + 2 * MaxStall <= StaleAfter + 1

Pending(r) == pc[r] \in {"decide", "cancel"} /\ rsv[r].ok
ActsAt(r) == rsv[r].timeToAct

(* The requests whose cancellation may still give something back.          *)
Waiting(r) == Pending(r) /\ (ActsAt(r) > clock \/ (pc[r] = "cancel" /\ ActsAt(r) = clock))

(* The pending requests of a key that arrived at time s or later and may   *)
(* act at time x or earlier, what their tokens cost, and what the key's    *)
(* bucket lacks.                                                           *)
Early(k, s, x) ==
    { r \in Requests : Pending(r) /\ key[r] = k /\ stamp[r] >= s /\ ActsAt(r) <= x }
Cost(k, T) == Interval(k) * Cardinality(T)
Debt(k) ==
    IF limiterOf[k] = NoLimiter THEN 0 ELSE Full(k) - limiter[limiterOf[k]].credit

(* A key's bucket has the key's setting, and is never more than full.      *)
BucketOK ==
    \A k \in Keys : limiterOf[k] # NoLimiter =>
        LET lim == limiter[limiterOf[k]]
        IN  /\ lim.interval = Interval(k)
            /\ lim.burst = KeyLimit(k).burst
            /\ lim.credit <= Full(k)

(* A waiting request is not past the bucket's last event, and the bucket   *)
(* is overdrawn by what the request waits for at least.                    *)
LocalOK ==
    \A r \in Requests :
        /\ Inside(r) => \E acct \in Accounts : key[r] = acct \o action[r]
        /\ Holding(r) => stamp[r] <= used[key[r]]
        /\ Pending(r) => KeyLimit(key[r]).burst >= 1
        /\ Waiting(r) => /\ ActsAt(r) <= limiter[held[r]].lastEvent
                         /\ limiter[held[r]].credit <= clock - ActsAt(r)

(* The requests that wait for one bucket stand in line, a token apart.     *)
QueueOK ==
    \A p, q \in Requests :
        Pending(p) /\ Waiting(q) /\ p # q /\ key[p] = key[q] =>
            \/ ActsAt(p) >= ActsAt(q) + Interval(key[q])
            \/ ActsAt(p) < ActsAt(q) /\ (Waiting(p) => ActsAt(p) + Interval(key[q]) <= ActsAt(q))

(* What arrived since s has been drawn from the bucket, which has repaid   *)
(* no more than the time since s.                                          *)
DrawnOK ==
    \A k \in Keys : \A s, x \in Int : s <= clock =>
        Cost(k, Early(k, s, x)) <= Debt(k) + (clock - s)

(* What arrived since s and acts by x fits a full bucket and that time.    *)
TimedOK ==
    \A k \in Keys : \A s, x \in Int : s <= clock /\ clock <= x =>
        Cost(k, Early(k, s, x)) <= Full(k) + (x - s)

(* So does what stands before a waiting request, with that request.        *)
BeforeOK ==
    \A q \in Requests, s \in Int : Waiting(q) /\ s <= clock =>
        Cost(key[q], Early(key[q], s, ActsAt(q) - 1))
            <= Full(key[q]) + ActsAt(q) - Interval(key[q]) - s

(* What was served, with all that is pending, was drawn from the bucket,   *)
(* but for what the bucket earned while an answer was late.                *)
SpentOK ==
    \A k \in Keys : \A s, x \in Int :
        spent[k] + Cost(k, Early(k, s, x)) <= Debt(k) + MaxStall

(* What was served, with what may be served by x, fits the rate limit.     *)
ServedOK ==
    \A k \in Keys : \A s, x \in Int : clock <= x =>
        spent[k] + Cost(k, Early(k, s, x)) <= Full(k) + (x - clock) + MaxStall

(* What was served is forgotten from MaxStall after the entry's last use.  *)
DecayedOK ==
    \A k \in Keys : limiterOf[k] # NoLimiter =>
        /\ used[k] <= clock
        /\ spent[k] > 0 => spent[k] <= Full(k) + 2 * MaxStall + used[k] - clock

RateInv ==
    /\ BucketOK /\ LocalOK /\ QueueOK /\ DrawnOK /\ TimedOK /\ BeforeOK /\ SpentOK
    /\ ServedOK /\ DecayedOK

(* A key's setting is a setting, and one token fits a bucket that has any. *)
LEMMA KeyLimitType ==
    ASSUME NEW k \in Keys
    PROVE  /\ KeyLimit(k) \in Limit
           /\ Interval(k) \in Nat \ {0}
           /\ KeyLimit(k).burst \in Nat
           /\ Full(k) \in Nat
           /\ KeyLimit(k).burst >= 1 => Full(k) >= Interval(k)
<1>1. \E a \in AllActions : \E acct \in Accounts : k = acct \o a
  BY DEF Keys
<1>2. KeyLimit(k) \in Limit
  BY <1>1, ResolveLimitType DEF KeyLimit
<1>3. Interval(k) \in Nat \ {0} /\ KeyLimit(k).burst \in Nat
  BY <1>2 DEF Interval, Limit
<1>4. ASSUME NEW b \in Nat, NEW i \in Nat
      PROVE  b * i \in Nat /\ (b >= 1 => b * i >= i)
  OBVIOUS
<1>5. Full(k) = KeyLimit(k).burst * Interval(k)
  BY DEF Full, Interval
<1>. QED  BY <1>2, <1>3, <1>4, <1>5

(* The setting of a key is that of any action the key may stand for.       *)
LEMMA KeyLimitOf ==
    ASSUME KeysApart, NEW acct \in Accounts, NEW a \in AllActions
    PROVE  KeyLimit(acct \o a) = ResolveLimit(a)
<1>. DEFINE k == acct \o a
            b == CHOOSE c \in AllActions : \E x \in Accounts : k = x \o c
<1>1. b \in AllActions /\ \E x \in Accounts : k = x \o b
  OBVIOUS
<1>2. KeyLimit(k) = ResolveLimit(b)
  BY DEF KeyLimit
<1>. HIDE DEF b
<1>3. ResolveLimit(a) = ResolveLimit(b)
  <2>1. PICK x \in Accounts : acct \o a = x \o b
    BY <1>1
  <2>2. b \in AllActions
    BY <1>1
  <2>3. SameSetting(acct, a, x, b)
    BY <2>2 DEF KeysApart
  <2>. QED  BY <2>1, <2>3, Zenon DEF SameSetting
<1>. QED  BY <1>2, <1>3

(* The cost of a set of reservations grows by one token per request.       *)
LEMMA CostFacts ==
    ASSUME NEW k \in Keys, NEW T \in SUBSET Requests
    PROVE  /\ Cost(k, T) \in Nat
           /\ T = {} => Cost(k, T) = 0
           /\ \A U \in SUBSET T : Cost(k, U) <= Cost(k, T)
           /\ \A r \in T : Cost(k, T \ {r}) = Cost(k, T) - Interval(k)
           /\ \A r : Cost(k, T \cup {r}) <= Cost(k, T) + Interval(k)
<1>. DEFINE i == Interval(k)
<1>1. i \in Nat
  BY KeyLimitType
<1>2. IsFiniteSet(T) /\ Cardinality(T) \in Nat
  BY RequestsAssumption, FS_Subset, FS_CardinalityType
<1>. HIDE DEF i
<1>3. ASSUME NEW m \in Nat, NEW n \in Nat
      PROVE  /\ i * m \in Nat
             /\ m <= n => i * m <= i * n
             /\ i * (m + 1) = i * m + i
             /\ m >= 1 => i * (m - 1) = i * m - i
             /\ i * 0 = 0
  BY <1>1
<1>4. Cost(k, T) \in Nat /\ (T = {} => Cost(k, T) = 0)
  BY <1>2, <1>3, FS_EmptySet DEF Cost, i
<1>5. ASSUME NEW U \in SUBSET T
      PROVE  Cost(k, U) <= Cost(k, T)
  <2>1. IsFiniteSet(U) /\ Cardinality(U) \in Nat /\ Cardinality(U) <= Cardinality(T)
    BY <1>2, FS_Subset, FS_CardinalityType
  <2>. QED  BY <1>2, <1>3, <2>1 DEF Cost, i
<1>6. ASSUME NEW r \in T
      PROVE  Cost(k, T \ {r}) = Cost(k, T) - i
  <2>1. Cardinality(T \ {r}) = Cardinality(T) - 1
    BY <1>2, FS_RemoveElement
  <2>2. Cardinality(T) >= 1
    BY <1>2, FS_EmptySet
  <2>. QED  BY <1>2, <1>3, <2>1, <2>2 DEF Cost, i
<1>7. ASSUME NEW r
      PROVE  Cost(k, T \cup {r}) <= Cost(k, T) + i
  <2>1. Cardinality(T \cup {r}) = Cardinality(T) \/ Cardinality(T \cup {r}) = Cardinality(T) + 1
    BY <1>2, FS_AddElement
  <2>2. i * Cardinality(T \cup {r}) <= i * Cardinality(T) + i
    BY <1>1, <1>2, <1>3, <2>1
  <2>. QED  BY <2>2 DEF Cost, i
<1>. QED  BY <1>4, <1>5, <1>6, <1>7 DEF i

LEMMA PendingTyped ==
    ASSUME Typed, NEW r \in Requests
    PROVE  /\ Pending(r) => /\ key[r] \in Keys /\ held[r] \in Limiters /\ Holding(r)
                            /\ rsv[r] \in Reservation /\ ActsAt(r) \in Nat
           /\ stamp[r] \in Nat
BY DEF Typed, TypeOK, Pending, Inside, InFlight, Holding, ActsAt, Reservation

(* The types of what the invariant talks about.                            *)
LEMMA RateTyped ==
    ASSUME Typed
    PROVE  /\ clock \in Nat /\ MaxStall \in Nat /\ StaleAfter \in Nat
           /\ \A k \in Keys : /\ spent[k] \in Nat /\ used[k] \in Nat /\ Full(k) \in Nat
                              /\ Interval(k) \in Nat \ {0} /\ Debt(k) \in Int
<1>1. ASSUME NEW k \in Keys, limiterOf[k] # NoLimiter
      PROVE  limiter[limiterOf[k]].credit \in Int
  <2>1. limiterOf[k] \in Limiters /\ limiter[limiterOf[k]] \in Bucket
    BY <1>1 DEF Typed, TypeOK
  <2>. QED  BY <2>1 DEF Bucket
<1>. QED  BY <1>1, KeyLimitType, TimingAssumption DEF Typed, TypeOK, Debt

LEMMA EarlyInRequests == \A k, s, x : Early(k, s, x) \in SUBSET Requests
BY DEF Early

(* Steps that touch no reservation and no clock, and a bucket only by      *)
(* taking a full one for it while nobody draws from it.                    *)
LEMMA QuietKeepsRate ==
    ASSUME Typed, RateInv, UNCHANGED << clock, spent >>, BucketOK', DecayedOK',
           \A k \in Keys :
              \/ Debt(k)' = Debt(k)
              \/ /\ Debt(k)' = 0
                 /\ spent[k] <= MaxStall
                 /\ \A r \in Requests : Pending(r) => key[r] # k,
           \A r \in Requests :
              /\ Pending(r)' = Pending(r) /\ Waiting(r)' = Waiting(r)
              /\ Pending(r) => UNCHANGED << key[r], stamp[r], rsv[r], held[r], limiter[held[r]] >>
              /\ Holding(r)' => (stamp[r] <= used[key[r]])'
              /\ Inside(r)' => (\E acct \in Accounts : key[r] = acct \o action[r])'
    PROVE  RateInv'
<1>1. \A k \in Keys : \A s, x \in Int : Early(k, s, x)' = Early(k, s, x)
  BY DEF Early, ActsAt
<1>3. \A r \in Requests : Waiting(r) => Pending(r)
  BY DEF Waiting
<1>4. \A r \in Requests : Waiting(r) => limiter'[held'[r]] = limiter[held[r]]
  BY <1>3
<1>5. LocalOK' /\ QueueOK'
  BY <1>3, <1>4 DEF RateInv, LocalOK, QueueOK, ActsAt
<1>6. TimedOK'
  BY <1>1 DEF RateInv, TimedOK
<1>9. ServedOK'
  BY <1>1 DEF RateInv, ServedOK
<1>7. ASSUME NEW k \in Keys, NEW s \in Int, NEW x \in Int
      PROVE  /\ s <= clock => Cost(k, Early(k, s, x)) <= Debt(k)' + (clock - s)
             /\ spent[k] + Cost(k, Early(k, s, x)) <= Debt(k)' + MaxStall
  <2>1. CASE Debt(k)' = Debt(k)
    <3>1. s <= clock => Cost(k, Early(k, s, x)) <= Debt(k) + (clock - s)
      BY DEF RateInv, DrawnOK
    <3>2. spent[k] + Cost(k, Early(k, s, x)) <= Debt(k) + MaxStall
      BY DEF RateInv, SpentOK
    <3>. QED  BY <2>1, <3>1, <3>2
  <2>2. CASE Debt(k)' # Debt(k)
    <3>1. Debt(k)' = 0 /\ spent[k] <= MaxStall /\ Early(k, s, x) = {}
      BY <2>2 DEF Early
    <3>2. Cost(k, Early(k, s, x)) = 0
      BY <3>1, CostFacts
    <3>. QED  BY <3>1, <3>2, RateTyped
  <2>. QED  BY <2>1, <2>2
<1>10. DrawnOK'
  BY <1>1, <1>7 DEF DrawnOK
<1>11. SpentOK'
  BY <1>1, <1>7 DEF SpentOK
<1>8. BeforeOK'
  <2>. SUFFICES ASSUME NEW q \in Requests, NEW s \in Int, Waiting(q)', s <= clock'
                PROVE  Cost(key[q], Early(key[q], s, ActsAt(q) - 1))'
                         <= (Full(key[q]) + ActsAt(q) - Interval(key[q]) - s)'
    BY DEF BeforeOK
  <2>1. Waiting(q) /\ UNCHANGED << key[q], ActsAt(q) >>
    BY <1>3 DEF ActsAt
  <2>2. key[q] \in Keys /\ ActsAt(q) - 1 \in Int
    BY <2>1, PendingTyped, <1>3
  <2>. DEFINE k == key[q]
              x == ActsAt(q) - 1
  <2>3. Early(key[q], s, ActsAt(q) - 1)' = Early(k, s, x)
    BY <2>1, <2>2 DEF Early, ActsAt
  <2>. QED  BY <2>1, <2>3 DEF RateInv, BeforeOK
<1>. QED  BY <1>5, <1>6, <1>8, <1>9, <1>10, <1>11 DEF RateInv

(* A request that finds an entry, or makes one, has no reservation yet.    *)
LEMMA FoundKeepsRate ==
    ASSUME Typed, IInv, RateInv, NEW q \in Requests, Found(q), pc[q] \in {"lookup", "insert"},
           UNCHANGED << clock, gcVars, stopVars, key, action, stamp, rsv, spent >>
    PROVE  RateInv'
<1>1. key[q] \in Keys /\ pc' = [pc EXCEPT ![q] = "reserve"]
  BY DEF Found, Typed, TypeOK, Inside, InFlight
<1>2. ASSUME NEW r \in Requests
      PROVE  /\ Pending(r)' = Pending(r) /\ Waiting(r)' = Waiting(r)
             /\ Pending(r) => UNCHANGED << key[r], stamp[r], rsv[r], held[r], limiter[held[r]] >>
  BY <1>1 DEF Pending, Waiting, ActsAt, Found, Typed, TypeOK
<1>3. ASSUME NEW r \in Requests, Holding(r)'
      PROVE  stamp'[r] <= used'[key'[r]]
  <2>1. Inside(r) /\ stamp[r] <= clock /\ key[r] \in Keys
    BY <1>1, <1>3 DEF Holding, Inside, InFlight, Typed, TypeOK, IInv, Timely
  <2>2. CASE key[r] = key[q]
    BY <1>1, <2>1, <2>2 DEF Found, Typed, TypeOK
  <2>3. CASE key[r] # key[q]
    <3>1. Holding(r)
      BY <1>1, <1>3, <2>3 DEF Holding, Typed, TypeOK
    <3>. QED  BY <1>1, <2>1, <2>3, <3>1 DEF Found, Typed, TypeOK, RateInv, LocalOK
  <2>. QED  BY <2>2, <2>3
<1>4. ASSUME NEW r \in Requests, Inside(r)'
      PROVE  \E acct \in Accounts : key'[r] = acct \o action'[r]
  <2>1. Inside(r)
    BY <1>1, <1>4 DEF Inside, InFlight, Typed, TypeOK
  <2>. QED  BY <2>1 DEF RateInv, LocalOK
<1>5. BucketOK' /\ \A k \in Keys : Debt(k)' = Debt(k)
  BY DEF Found, RateInv, BucketOK, Debt
<1>6. DecayedOK'
  BY <1>1, RateTyped DEF RateInv, DecayedOK, Found, Typed, TypeOK
<1>. QED  BY <1>2, <1>3, <1>4, <1>5, <1>6, QuietKeepsRate

(* A new bucket is full, as the missing one was.                           *)
LEMMA CreateKeepsRate ==
    ASSUME KeysApart, Typed, IInv, RateInv, NEW q \in Requests, Create(q), pc[q] = "insert",
           limiterOf[key[q]] = NoLimiter,
           UNCHANGED << clock, gcVars, stopVars, key, action, stamp, rsv, spent >>
    PROVE  RateInv'
<1>1. PICK l \in Limiters :
         /\ Fresh(l)
         /\ limiter' = [limiter EXCEPT ![l] = NewLimiter(ResolveLimit(action[q]))]
         /\ limiterOf' = [limiterOf EXCEPT ![key[q]] = l]
         /\ used' = [used EXCEPT ![key[q]] = clock]
         /\ held' = [held EXCEPT ![q] = l]
         /\ pc' = [pc EXCEPT ![q] = "reserve"]
  BY DEF Create
<1>2. key[q] \in Keys /\ action[q] \in AllActions /\ Inside(q)
  BY DEF Typed, TypeOK, Inside, InFlight
<1>3. KeyLimit(key[q]) = ResolveLimit(action[q])
  <2>1. PICK acct \in Accounts : key[q] = acct \o action[q]
    BY <1>2 DEF RateInv, LocalOK
  <2>2. KeyLimit(acct \o action[q]) = ResolveLimit(action[q])
    BY <1>2, KeyLimitOf
  <2>. QED  BY <2>1, <2>2
<1>4. ASSUME NEW r \in Requests
      PROVE  /\ Pending(r)' = Pending(r) /\ Waiting(r)' = Waiting(r)
             /\ Pending(r) => UNCHANGED << key[r], stamp[r], rsv[r], held[r], limiter[held[r]] >>
  <2>1. /\ Pending(r)' = Pending(r) /\ Waiting(r)' = Waiting(r)
        /\ Pending(r) => r # q
    BY <1>1 DEF Pending, Waiting, ActsAt, Typed, TypeOK
  <2>2. held[r] # l
    BY <1>1 DEF Fresh
  <2>. QED  BY <1>1, <2>1, <2>2, PendingTyped DEF Typed, TypeOK
<1>5. ASSUME NEW r \in Requests, Holding(r)'
      PROVE  stamp'[r] <= used'[key'[r]]
  <2>1. Inside(r) /\ stamp[r] <= clock /\ key[r] \in Keys
    BY <1>1, <1>5 DEF Holding, Inside, InFlight, Typed, TypeOK, IInv, Timely
  <2>2. CASE key[r] = key[q]
    BY <1>1, <2>1, <2>2 DEF Typed, TypeOK
  <2>3. CASE key[r] # key[q]
    <3>1. Holding(r)
      BY <1>1, <1>5, <2>3 DEF Holding, Typed, TypeOK
    <3>. QED  BY <1>1, <2>1, <2>3, <3>1 DEF Typed, TypeOK, RateInv, LocalOK
  <2>. QED  BY <2>2, <2>3
<1>6. ASSUME NEW r \in Requests, Inside(r)'
      PROVE  \E acct \in Accounts : key'[r] = acct \o action'[r]
  <2>1. Inside(r)
    BY <1>1, <1>6 DEF Inside, InFlight, Typed, TypeOK
  <2>. QED  BY <2>1 DEF RateInv, LocalOK
<1>7. ASSUME NEW k \in Keys, k # key[q]
      PROVE  limiterOf'[k] = limiterOf[k] /\ limiter'[limiterOf'[k]] = limiter[limiterOf[k]]
  BY <1>1, <1>7 DEF Fresh, Typed, TypeOK
<1>8. /\ limiterOf'[key[q]] = l
      /\ limiter'[l] = NewLimiter(KeyLimit(key[q]))
  BY <1>1, <1>2, <1>3 DEF Typed, TypeOK
<1>9. /\ limiter'[l].interval = Interval(key[q])
      /\ limiter'[l].burst = KeyLimit(key[q]).burst
      /\ limiter'[l].credit = Full(key[q])
  BY <1>8 DEF NewLimiter, Interval, Full
<1>10. BucketOK'
  BY <1>2, <1>7, <1>8, <1>9, KeyLimitType DEF RateInv, BucketOK
<1>11. \A k \in Keys : Debt(k)' = Debt(k)
  BY <1>2, <1>7, <1>8, <1>9, KeyLimitType, DistinctAssumption DEF Debt
<1>12. DecayedOK'
  <2>. SUFFICES ASSUME NEW k \in Keys, limiterOf'[k] # NoLimiter
                PROVE  /\ used'[k] <= clock
                       /\ spent[k] > 0 => spent[k] <= Full(k) + 2 * MaxStall + used'[k] - clock
    BY DEF DecayedOK
  <2>1. CASE k = key[q]
    <3>1. used'[k] = clock
      BY <1>1, <1>2, <2>1 DEF Typed, TypeOK
    <3>2. Debt(k) = 0
      BY <2>1 DEF Debt
    <3>3. Early(k, 0, 0) \in SUBSET Requests /\ Cost(k, Early(k, 0, 0)) \in Nat
      BY EarlyInRequests, CostFacts
    <3>4. spent[k] + Cost(k, Early(k, 0, 0)) <= Debt(k) + MaxStall
      BY DEF RateInv, SpentOK
    <3>. QED  BY <3>1, <3>2, <3>3, <3>4, RateTyped
  <2>2. CASE k # key[q]
    <3>1. used'[k] = used[k] /\ limiterOf[k] # NoLimiter
      BY <1>1, <1>7, <2>2 DEF Typed, TypeOK
    <3>. QED  BY <3>1 DEF RateInv, DecayedOK
  <2>. QED  BY <2>1, <2>2
<1>. QED  BY <1>4, <1>5, <1>6, <1>10, <1>11, <1>12, QuietKeepsRate

(* A bucket that is evicted was full, or would have been but for a stall.  *)
LEMMA SweepKeepsRate ==
    ASSUME RefillsInTime, Typed, IInv, RateInv, GCSweep
    PROVE  RateInv'
<1>1. UNCHANGED << clock, spent, limiter, localVars >>
  BY DEF GCSweep
<1>2. ASSUME NEW k \in Keys, Expired(k)
      PROVE  spent[k] <= MaxStall
  <2>1. /\ lastSeen[k] < cutoff /\ cutoff <= clock - StaleAfter
        /\ used[k] <= lastSeen[k] + MaxStall
        /\ lastSeen[k] \in Nat /\ cutoff \in Int
    BY <1>2 DEF GCSweep, Expired, IInv, CutoffOK, UsedOK, Typed, TypeOK
  <2>2. spent[k] > 0 => spent[k] <= Full(k) + 2 * MaxStall + used[k] - clock
    BY <1>2 DEF Expired, RateInv, DecayedOK
  <2>. QED  BY <2>1, <2>2, RateTyped DEF RefillsInTime
<1>3. ASSUME NEW r \in Requests, Holding(r)
      PROVE  key[r] \in Keys /\ ~Expired(key[r])
  BY <1>3, HeldNotExpired DEF GCSweep, Typed, Holding, Inside, InFlight
<1>4. ASSUME NEW r \in Requests
      PROVE  /\ Pending(r)' = Pending(r) /\ Waiting(r)' = Waiting(r)
             /\ Pending(r) => UNCHANGED << key[r], stamp[r], rsv[r], held[r], limiter[held[r]] >>
             /\ Holding(r)' => (stamp[r] <= used[key[r]])'
             /\ Inside(r)' => (\E acct \in Accounts : key[r] = acct \o action[r])'
  <2>1. Pending(r)' = Pending(r) /\ Waiting(r)' = Waiting(r) /\ Holding(r)' = Holding(r)
    BY <1>1 DEF Pending, Waiting, ActsAt, Holding, localVars
  <2>2. Holding(r) => (stamp[r] <= used[key[r]])'
    BY <1>1, <1>3 DEF GCSweep, localVars, RateInv, LocalOK
  <2>3. Inside(r)' => (\E acct \in Accounts : key[r] = acct \o action[r])'
    BY <1>1 DEF localVars, Inside, RateInv, LocalOK
  <2>. QED  BY <1>1, <2>1, <2>2, <2>3 DEF localVars
<1>5. ASSUME NEW k \in Keys
      PROVE  \/ Debt(k)' = Debt(k)
             \/ /\ Debt(k)' = 0
                /\ spent[k] <= MaxStall
                /\ \A r \in Requests : Pending(r) => key[r] # k
  <2>1. CASE Expired(k)
    <3>1. Debt(k)' = 0
      BY <2>1 DEF GCSweep, Debt
    <3>2. \A r \in Requests : Pending(r) => key[r] # k
      BY <1>3, <2>1, PendingTyped
    <3>. QED  BY <1>2, <2>1, <3>1, <3>2
  <2>2. CASE ~Expired(k)
    BY <1>1, <2>2 DEF GCSweep, Debt
  <2>. QED  BY <2>1, <2>2
<1>6. BucketOK' /\ DecayedOK'
  BY <1>1 DEF GCSweep, RateInv, BucketOK, DecayedOK
<1>. QED  BY <1>1, <1>4, <1>5, <1>6, QuietKeepsRate

(* A bucket that a request holds is its key's and no other key's.          *)
LEMMA HeldBucket ==
    ASSUME Typed, IInv, RateInv, NEW q \in Requests, Holding(q)
    PROVE  /\ key[q] \in Keys /\ held[q] \in Limiters /\ Inside(q)
           /\ limiterOf[key[q]] = held[q] /\ held[q] # NoLimiter
           /\ limiter[held[q]] \in Bucket
           /\ limiter[held[q]].interval = Interval(key[q])
           /\ limiter[held[q]].burst = KeyLimit(key[q]).burst
           /\ limiter[held[q]].credit \in Int
           /\ limiter[held[q]].credit <= Full(key[q])
           /\ limiter[held[q]].lastEvent \in Nat
           /\ Capacity(limiter[held[q]]) = Full(key[q])
           /\ Debt(key[q]) = Full(key[q]) - limiter[held[q]].credit
           /\ \A k \in Keys : limiterOf[k] = held[q] => k = key[q]
           /\ \A r \in Requests : Holding(r) /\ held[r] = held[q] => key[r] = key[q]
           /\ \A r \in Requests : Holding(r) /\ key[r] = key[q] => held[r] = held[q]
<1>1. key[q] \in Keys /\ held[q] \in Limiters /\ Inside(q) /\ limiter[held[q]] \in Bucket
  BY DEF Typed, TypeOK, Holding, Inside, InFlight
<1>2. limiterOf[key[q]] = held[q] /\ held[q] # NoLimiter
  BY <1>1, DistinctAssumption DEF IInv, HeldOK
<1>3. limiter[held[q]].credit \in Int /\ limiter[held[q]].lastEvent \in Nat
  BY <1>1 DEF Bucket
<1>4. /\ limiter[held[q]].interval = Interval(key[q])
      /\ limiter[held[q]].burst = KeyLimit(key[q]).burst
      /\ limiter[held[q]].credit <= Full(key[q])
  BY <1>1, <1>2 DEF RateInv, BucketOK
<1>5. /\ Capacity(limiter[held[q]]) = Full(key[q])
      /\ Debt(key[q]) = Full(key[q]) - limiter[held[q]].credit
  BY <1>2, <1>4 DEF Capacity, Full, Interval, Debt
<1>6. \A k \in Keys : limiterOf[k] = held[q] => k = key[q]
  BY <1>1, <1>2 DEF IInv, NotShared
<1>7. \A r \in Requests : Holding(r) => key[r] \in Keys /\ limiterOf[key[r]] = held[r]
  BY DEF Typed, Holding, Inside, InFlight, IInv, HeldOK
<1>. QED  BY <1>1, <1>2, <1>3, <1>4, <1>5, <1>6, <1>7

(* What a reservation of a token does to the bucket.                       *)
LEMMA ReserveFacts ==
    ASSUME Typed, IInv, RateInv, NEW q \in Requests, Reserve(q), KeyLimit(key[q]).burst >= 1
    PROVE  /\ Pending(q)' /\ ActsAt(q)' \in Nat /\ ActsAt(q)' >= clock
           /\ limiter'[held[q]].interval = limiter[held[q]].interval
           /\ limiter'[held[q]].burst = limiter[held[q]].burst
           /\ limiter'[held[q]].credit = limiter[held[q]].credit - Interval(key[q])
           /\ limiter'[held[q]].lastEvent = ActsAt(q)'
           /\ limiter'[held[q]].credit >= clock - ActsAt(q)'
           /\ ActsAt(q)' > clock => limiter'[held[q]].credit = clock - ActsAt(q)'
           /\ Waiting(q)' <=> ActsAt(q)' > clock
           /\ \A l \in Limiters : l # held[q] => limiter'[l] = limiter[l]
           /\ \A r \in Requests : r # q =>
                 UNCHANGED << pc[r], rsv[r], Pending(r), Waiting(r), ActsAt(r) >>
<1>. DEFINE lim == limiter[held[q]]
            rv == ReservationOf(lim, clock)
<1>1. Holding(q) /\ clock \in Nat
  BY RateTyped DEF Reserve, Holding
<1>2. /\ held[q] \in Limiters /\ lim \in Bucket /\ lim.burst >= 1 /\ lim.burst \in Nat
      /\ lim.credit \in Int /\ lim.interval = Interval(key[q]) /\ Interval(key[q]) \in Nat
  BY <1>1, HeldBucket, KeyLimitType
<1>3. ~(lim.burst < 1)
  BY <1>2
<1>4. /\ rv.ok = TRUE
      /\ rv.timeToAct = IF lim.credit - lim.interval < 0
                        THEN clock - (lim.credit - lim.interval) ELSE clock
  BY <1>3 DEF ReservationOf
<1>5. AfterReserve(lim, clock)
        = [lim EXCEPT !.credit = @ - lim.interval, !.lastEvent = rv.timeToAct]
  BY <1>3 DEF AfterReserve
<1>. HIDE DEF rv
<1>6. /\ AfterReserve(lim, clock).interval = lim.interval
      /\ AfterReserve(lim, clock).burst = lim.burst
      /\ AfterReserve(lim, clock).credit = lim.credit - lim.interval
      /\ AfterReserve(lim, clock).lastEvent = rv.timeToAct
  BY <1>2, <1>5 DEF Bucket
<1>7. /\ rsv' = [rsv EXCEPT ![q] = rv]
      /\ limiter' = [limiter EXCEPT ![held[q]] = AfterReserve(lim, clock)]
      /\ pc' = [pc EXCEPT ![q] = "decide"]
      /\ clock' = clock
  BY DEF Reserve, rv
<1>8. rsv'[q] = rv /\ limiter'[held[q]] = AfterReserve(lim, clock) /\ pc'[q] = "decide"
  BY <1>2, <1>7 DEF Typed, TypeOK
<1>9. /\ rv.timeToAct \in Nat /\ rv.timeToAct >= clock
      /\ lim.credit - lim.interval >= clock - rv.timeToAct
      /\ rv.timeToAct > clock => lim.credit - lim.interval = clock - rv.timeToAct
  BY <1>1, <1>2, <1>4
<1>10. Pending(q)' /\ ActsAt(q)' = rv.timeToAct /\ (Waiting(q)' <=> rv.timeToAct > clock)
  BY <1>4, <1>7, <1>8 DEF Pending, Waiting, ActsAt
<1>11. \A l \in Limiters : l # held[q] => limiter'[l] = limiter[l]
  BY <1>7 DEF Typed, TypeOK
<1>12. \A r \in Requests : r # q =>
          UNCHANGED << pc[r], rsv[r], Pending(r), Waiting(r), ActsAt(r) >>
  BY <1>7 DEF Typed, TypeOK, Pending, Waiting, ActsAt
<1>. QED  BY <1>2, <1>6, <1>8, <1>9, <1>10, <1>11, <1>12

(* A request that waits for its token stands behind all that were there.   *)
LEMMA ReserveKeepsRate ==
    ASSUME Typed, IInv, RateInv, NEW q \in Requests, Reserve(q), KeyLimit(key[q]).burst >= 1
    PROVE  RateInv'
<1>1. /\ Holding(q) /\ ~Pending(q) /\ clock \in Nat
      /\ UNCHANGED << clock, spent, limiterOf, used, key, action, stamp, held >>
  BY RateTyped DEF Reserve, Holding, Pending, entryVars
<1>2. \A r \in Requests : Pending(r) => Holding(r) /\ key[r] \in Keys /\ ActsAt(r) \in Nat
  BY PendingTyped
<1>3. PICK k0 \in Keys : k0 = key[q]
  BY <1>1, HeldBucket
<1>4. Interval(k0) \in Nat \ {0} /\ Full(k0) \in Nat /\ Full(k0) >= Interval(k0)
  BY <1>3, KeyLimitType
<1>5. PICK x0 \in Nat : x0 = ActsAt(q)'
  BY ReserveFacts
<1>6. /\ Debt(k0) \in Int /\ Debt(k0)' = Debt(k0) + Interval(k0)
      /\ Debt(k0)' <= Full(k0) + (x0 - clock)
      /\ x0 > clock => Debt(k0)' = Full(k0) + (x0 - clock)
      /\ x0 >= clock
  <2>1. Debt(k0)' = Full(k0) - limiter'[held[q]].credit
    BY <1>1, <1>3, HeldBucket DEF Debt
  <2>. QED  BY <1>1, <1>3, <1>4, <1>5, <2>1, HeldBucket, ReserveFacts
<1>7. \A k \in Keys : k # k0 => Debt(k)' = Debt(k)
  BY <1>1, <1>3, HeldBucket, ReserveFacts DEF Debt, Typed, TypeOK
<1>8. ASSUME NEW k \in Keys, NEW s \in Int, NEW x \in Int
      PROVE  /\ k # k0 \/ x < x0 => Early(k, s, x)' = Early(k, s, x)
             /\ k = k0 => Early(k, s, x)' \in SUBSET (Early(k, s, x) \cup {q})
  BY <1>1, <1>3, <1>5, ReserveFacts DEF Early
<1>9. ASSUME NEW s \in Int, NEW x \in Int
      PROVE  Cost(k0, Early(k0, s, x)') <= Cost(k0, Early(k0, s, x)) + Interval(k0)
  <2>. DEFINE T == Early(k0, s, x)
  <2>1. T \in SUBSET Requests /\ T \cup {q} \in SUBSET Requests
    BY EarlyInRequests
  <2>2. /\ Cost(k0, T \cup {q}) <= Cost(k0, T) + Interval(k0)
        /\ Cost(k0, T) \in Nat /\ Cost(k0, T \cup {q}) \in Nat
    BY <2>1, CostFacts
  <2>3. Cost(k0, Early(k0, s, x)') <= Cost(k0, T \cup {q}) /\ Cost(k0, Early(k0, s, x)') \in Nat
    BY <1>8, <2>1, CostFacts
  <2>. QED  BY <1>4, <2>2, <2>3
<1>10. ASSUME NEW k \in Keys, NEW s \in Int, NEW x \in Int
       PROVE  /\ Cost(k, Early(k, s, x)) \in Nat /\ Cost(k, Early(k, s, x)') \in Nat
              /\ spent[k] \in Nat /\ MaxStall \in Nat
  <2>1. Early(k, s, x) \in SUBSET Requests /\ Early(k, s, x)' \in SUBSET Requests
    BY DEF Early
  <2>. QED  BY <2>1, CostFacts, RateTyped
<1>11. BucketOK'
  <2>. SUFFICES ASSUME NEW k \in Keys, limiterOf[k] # NoLimiter
                PROVE  /\ limiter'[limiterOf[k]].interval = Interval(k)
                       /\ limiter'[limiterOf[k]].burst = KeyLimit(k).burst
                       /\ limiter'[limiterOf[k]].credit <= Full(k)
    BY <1>1 DEF BucketOK
  <2>1. CASE k = k0
    BY <1>1, <1>3, <1>4, <2>1, HeldBucket, ReserveFacts
  <2>2. CASE k # k0
    <3>1. limiterOf[k] \in Limiters /\ limiterOf[k] # held[q]
      BY <1>1, <1>3, <2>2, HeldBucket DEF Typed, TypeOK
    <3>. QED  BY <3>1, ReserveFacts DEF RateInv, BucketOK
  <2>. QED  BY <2>1, <2>2
<1>12. ASSUME NEW r \in Requests, r # q, Waiting(r), key[r] = k0
       PROVE  /\ held[r] = held[q] /\ ActsAt(r) \in Nat /\ ActsAt(r) >= clock
              /\ ActsAt(r) <= limiter[held[q]].lastEvent
              /\ limiter[held[q]].credit <= clock - ActsAt(r)
              /\ x0 >= ActsAt(r) + Interval(k0)
  <2>1. Pending(r) /\ Holding(r) /\ ActsAt(r) \in Nat /\ ActsAt(r) >= clock
    BY <1>1, <1>2, <1>12 DEF Waiting
  <2>2. held[r] = held[q]
    BY <1>1, <1>3, <1>12, <2>1, HeldBucket
  <2>3. ActsAt(r) <= limiter[held[q]].lastEvent /\ limiter[held[q]].credit <= clock - ActsAt(r)
    BY <1>12, <2>2 DEF RateInv, LocalOK
  <2>4. /\ limiter[held[q]].credit \in Int
        /\ limiter[held[q]].credit - Interval(k0) >= clock - x0
    BY <1>1, <1>3, <1>5, HeldBucket, ReserveFacts
  <2>. QED  BY <1>1, <1>4, <2>1, <2>2, <2>3, <2>4
<1>13. LocalOK'
  <2>. SUFFICES ASSUME NEW r \in Requests
                PROVE  /\ Inside(r)' => \E acct \in Accounts : key[r] = acct \o action[r]
                       /\ Holding(r)' => stamp[r] <= used[key[r]]
                       /\ Pending(r)' => KeyLimit(key[r]).burst >= 1
                       /\ Waiting(r)' => /\ ActsAt(r)' <= limiter'[held[r]].lastEvent
                                         /\ limiter'[held[r]].credit <= clock - ActsAt(r)'
    BY <1>1 DEF LocalOK
  <2>1. (Inside(r)' => Inside(r)) /\ (Holding(r)' => Holding(r))
    BY DEF Reserve, Inside, Holding, InFlight, Typed, TypeOK
  <2>2. CASE r = q
    <3>1. Waiting(q)' => /\ ActsAt(q)' <= limiter'[held[q]].lastEvent
                         /\ limiter'[held[q]].credit <= clock - ActsAt(q)'
      BY <1>1, <1>5, ReserveFacts
    <3>2. /\ Inside(r)' => \E acct \in Accounts : key[r] = acct \o action[r]
          /\ Holding(r)' => stamp[r] <= used[key[r]]
      BY <2>1 DEF RateInv, LocalOK
    <3>. QED  BY <2>2, <3>1, <3>2
  <2>3. CASE r # q
    <3>1. UNCHANGED << Pending(r), Waiting(r), ActsAt(r) >>
      BY <2>3, ReserveFacts
    <3>2. ASSUME Waiting(r)
          PROVE  /\ ActsAt(r) <= limiter'[held[r]].lastEvent
                 /\ limiter'[held[r]].credit <= clock - ActsAt(r)
      <4>1. CASE key[r] = k0
        BY <1>1, <1>3, <1>4, <1>5, <1>12, <2>3, <3>2, <4>1, HeldBucket, ReserveFacts
      <4>2. CASE key[r] # k0
        <5>1. Holding(r) /\ held[r] \in Limiters
          BY <1>2, <3>2, PendingTyped DEF Waiting
        <5>2. held[r] # held[q]
          BY <1>1, <1>3, <4>2, <5>1, HeldBucket
        <5>3. limiter'[held[r]] = limiter[held[r]]
          BY <5>1, <5>2, ReserveFacts
        <5>. QED  BY <3>2, <5>3 DEF RateInv, LocalOK
      <4>. QED  BY <4>1, <4>2
    <3>. QED  BY <2>1, <3>1, <3>2 DEF RateInv, LocalOK
  <2>. QED  BY <2>2, <2>3
<1>14. QueueOK'
  <2>. SUFFICES ASSUME NEW p \in Requests, NEW w \in Requests,
                       Pending(p)', Waiting(w)', p # w, key[p] = key[w]
                PROVE  \/ ActsAt(p)' >= ActsAt(w)' + Interval(key[w])
                       \/ /\ ActsAt(p)' < ActsAt(w)'
                          /\ Waiting(p)' => ActsAt(p)' + Interval(key[w]) <= ActsAt(w)'
    BY <1>1 DEF QueueOK
  <2>1. CASE p = q
    <3>1. Waiting(w) /\ ActsAt(w)' = ActsAt(w)
      BY <2>1, ReserveFacts
    <3>. QED  BY <1>3, <1>5, <1>12, <2>1, <3>1
  <2>2. CASE w = q
    <3>1. Pending(p) /\ ActsAt(p)' = ActsAt(p) /\ Waiting(p)' = Waiting(p)
      BY <2>2, ReserveFacts
    <3>2. x0 > clock
      BY <1>5, <2>2, ReserveFacts
    <3>3. CASE Waiting(p)
      BY <1>3, <1>4, <1>5, <1>12, <2>2, <3>1, <3>3
    <3>4. CASE ~Waiting(p)
      <4>1. ActsAt(p) <= clock
        BY <1>1, <1>2, <3>1, <3>4 DEF Waiting
      <4>. QED  BY <1>1, <1>2, <1>5, <2>2, <3>1, <3>2, <3>4, <4>1
    <3>. QED  BY <3>3, <3>4
  <2>3. CASE p # q /\ w # q
    BY <2>3, ReserveFacts DEF RateInv, QueueOK
  <2>. QED  BY <2>1, <2>2, <2>3
<1>15. DrawnOK'
  <2>. SUFFICES ASSUME NEW k \in Keys, NEW s \in Int, NEW x \in Int, s <= clock
                PROVE  Cost(k, Early(k, s, x)') <= Debt(k)' + (clock - s)
    BY <1>1 DEF DrawnOK
  <2>1. Cost(k, Early(k, s, x)) <= Debt(k) + (clock - s)
    BY DEF RateInv, DrawnOK
  <2>2. CASE k = k0
    <3>1. Cost(k0, Early(k0, s, x)') <= Cost(k0, Early(k0, s, x)) + Interval(k0)
      BY <1>9
    <3>2. Cost(k0, Early(k0, s, x)) \in Nat /\ Cost(k0, Early(k0, s, x)') \in Nat
      BY <1>10
    <3>3. Debt(k0) \in Int /\ Debt(k0)' = Debt(k0) + Interval(k0) /\ Interval(k0) \in Nat
      BY <1>4, <1>6
    <3>4. Cost(k0, Early(k0, s, x)') <= Debt(k0)' + (clock - s)
      BY <1>1, <2>1, <2>2, <3>1, <3>2, <3>3
    <3>. QED  BY <2>2, <3>4
  <2>3. CASE k # k0
    BY <1>7, <1>8, <2>1, <2>3
  <2>. QED  BY <2>2, <2>3
<1>16. SpentOK'
  <2>. SUFFICES ASSUME NEW k \in Keys, NEW s \in Int, NEW x \in Int
                PROVE  spent[k] + Cost(k, Early(k, s, x)') <= Debt(k)' + MaxStall
    BY <1>1 DEF SpentOK
  <2>1. spent[k] + Cost(k, Early(k, s, x)) <= Debt(k) + MaxStall
    BY DEF RateInv, SpentOK
  <2>2. CASE k = k0
    <3>1. Cost(k, Early(k, s, x)') <= Cost(k, Early(k, s, x)) + Interval(k)
      BY <1>9, <2>2
    <3>. QED  BY <1>4, <1>6, <1>10, <2>1, <2>2, <3>1
  <2>3. CASE k # k0
    BY <1>7, <1>8, <2>1, <2>3
  <2>. QED  BY <2>2, <2>3
<1>17. TimedOK'
  <2>. SUFFICES ASSUME NEW k \in Keys, NEW s \in Int, NEW x \in Int, s <= clock, clock <= x
                PROVE  Cost(k, Early(k, s, x)') <= Full(k) + (x - s)
    BY <1>1 DEF TimedOK
  <2>1. CASE k = k0 /\ x >= x0
    <3>1. Cost(k, Early(k, s, x)') <= Debt(k)' + (clock - s)
      BY <1>1, <1>15 DEF DrawnOK
    <3>. QED  BY <1>1, <1>4, <1>6, <1>10, <2>1, <3>1
  <2>2. CASE ~(k = k0 /\ x >= x0)
    BY <1>8, <2>2 DEF RateInv, TimedOK
  <2>. QED  BY <2>1, <2>2
<1>18. ServedOK'
  <2>. SUFFICES ASSUME NEW k \in Keys, NEW s \in Int, NEW x \in Int, clock <= x
                PROVE  spent[k] + Cost(k, Early(k, s, x)') <= Full(k) + (x - clock) + MaxStall
    BY <1>1 DEF ServedOK
  <2>1. CASE k = k0 /\ x >= x0
    <3>1. spent[k] + Cost(k, Early(k, s, x)') <= Debt(k)' + MaxStall
      BY <1>1, <1>16 DEF SpentOK
    <3>. QED  BY <1>1, <1>4, <1>6, <1>10, <2>1, <3>1
  <2>2. CASE ~(k = k0 /\ x >= x0)
    BY <1>8, <2>2 DEF RateInv, ServedOK
  <2>. QED  BY <2>1, <2>2
<1>19. BeforeOK'
  <2>. SUFFICES ASSUME NEW w \in Requests, NEW s \in Int, Waiting(w)', s <= clock
                PROVE  Cost(key[w], Early(key[w], s, ActsAt(w) - 1)')
                         <= Full(key[w]) + ActsAt(w)' - Interval(key[w]) - s
    BY <1>1 DEF BeforeOK
  <2>1. CASE w = q
    <3>1. x0 > clock /\ x0 - 1 \in Int
      BY <1>5, <2>1, ReserveFacts
    <3>2. Early(key[w], s, ActsAt(w) - 1)' = Early(k0, s, x0 - 1)
      <4>1. Early(k0, s, x0 - 1)' = Early(k0, s, x0 - 1)
        BY <1>8, <3>1
      <4>2. Early(key[w], s, ActsAt(w) - 1)' = Early(k0, s, x0 - 1)'
        BY <1>1, <1>3, <1>5, <2>1 DEF Early
      <4>. QED  BY <4>1, <4>2
    <3>3. Cost(k0, Early(k0, s, x0 - 1)) <= Debt(k0) + (clock - s)
      BY <3>1 DEF RateInv, DrawnOK
    <3>4. Cost(k0, Early(k0, s, x0 - 1)) \in Nat
      BY <1>10, <3>1
    <3>5. Cost(k0, Early(k0, s, x0 - 1)) <= Full(k0) + x0 - Interval(k0) - s
      BY <1>1, <1>4, <1>6, <3>1, <3>3, <3>4
    <3>. QED  BY <1>3, <1>5, <2>1, <3>2, <3>5
  <2>2. CASE w # q
    <3>1. Waiting(w) /\ ActsAt(w)' = ActsAt(w) /\ key[w] \in Keys /\ ActsAt(w) \in Nat
      BY <1>2, <2>2, ReserveFacts DEF Waiting
    <3>2. key[w] = k0 => ActsAt(w) - 1 < x0
      BY <1>4, <1>12, <2>2, <3>1
    <3>3. PICK k \in Keys, x \in Int : k = key[w] /\ x = ActsAt(w) - 1
      BY <3>1
    <3>4. Early(k, s, x)' = Early(k, s, x)
      BY <1>8, <3>2, <3>3
    <3>5. Early(key[w], s, ActsAt(w) - 1)' = Early(k, s, x)'
      BY <1>1, <3>1, <3>3 DEF Early
    <3>. QED  BY <3>1, <3>3, <3>4, <3>5 DEF RateInv, BeforeOK
  <2>. QED  BY <2>1, <2>2
<1>20. DecayedOK'
  BY <1>1 DEF RateInv, DecayedOK
<1>. QED
  BY <1>11, <1>13, <1>14, <1>15, <1>16, <1>17, <1>18, <1>19, <1>20 DEF RateInv

(* A request that leaves takes its reservation out of every sum.           *)
LEMMA LeaveFacts ==
    ASSUME Typed, RateInv, NEW q \in Requests, NEW answer \in {"served", "throttled"},
           Pending(q), Leave(q, answer), UNCHANGED << clock, limiterOf, used >>
    PROVE  /\ \A r \in Requests :
                 /\ Inside(r)' => r # q /\ Inside(r)
                 /\ Holding(r)' => r # q /\ Holding(r)
                 /\ Pending(r)' => r # q /\ Pending(r)
                 /\ Waiting(r)' => r # q /\ Waiting(r)
                 /\ r # q => UNCHANGED << pc[r], key[r], action[r], stamp[r], held[r], rsv[r],
                                          ActsAt(r), Pending(r), Waiting(r) >>
           /\ \A k \in Keys : \A s, x \in Int :
                 /\ Early(k, s, x)' = Early(k, s, x) \ {q}
                 /\ Cost(k, Early(k, s, x)') <= Cost(k, Early(k, s, x))
                 /\ Cost(k, Early(k, s, x)') \in Nat
                 /\ Cost(k, Early(k, s, x)) \in Nat
                 /\ k = key[q] => \E u \in Int :
                       /\ ActsAt(q) <= x =>
                             Cost(k, Early(k, s, x)') <= Cost(k, Early(k, u, x)) - Interval(k)
                       /\ \E z \in Int : Cost(k, Early(k, s, x)')
                                            <= Cost(k, Early(k, u, z)) - Interval(k)
           /\ QueueOK' /\ TimedOK' /\ BeforeOK'
<1>1. ASSUME NEW r \in Requests
      PROVE  /\ Inside(r)' => r # q /\ Inside(r)
             /\ Holding(r)' => r # q /\ Holding(r)
             /\ Pending(r)' => r # q /\ Pending(r)
             /\ Waiting(r)' => r # q /\ Waiting(r)
             /\ r # q => UNCHANGED << pc[r], key[r], action[r], stamp[r], held[r], rsv[r],
                                      ActsAt(r), Pending(r), Waiting(r) >>
  <2>1. CASE r = q
    BY <2>1 DEF Leave, Typed, TypeOK, Inside, InFlight, Holding, Pending, Waiting
  <2>2. CASE r # q
    <3>1. UNCHANGED << pc[r], key[r], action[r], stamp[r], held[r], rsv[r] >>
      BY <2>2 DEF Leave, Typed, TypeOK
    <3>. QED  BY <2>2, <3>1 DEF Inside, Holding, Pending, Waiting, ActsAt
  <2>. QED  BY <2>1, <2>2
<1>2. ASSUME NEW k \in Keys, NEW s \in Int, NEW x \in Int
      PROVE  /\ Early(k, s, x)' = Early(k, s, x) \ {q}
             /\ Cost(k, Early(k, s, x)') <= Cost(k, Early(k, s, x))
             /\ Cost(k, Early(k, s, x)') \in Nat
             /\ Cost(k, Early(k, s, x)) \in Nat
  <2>1. Early(k, s, x)' = Early(k, s, x) \ {q} /\ Early(k, s, x) \in SUBSET Requests
    BY <1>1 DEF Early
  <2>. QED  BY <2>1, CostFacts
<1>3. ASSUME NEW k \in Keys, NEW s \in Int, NEW x \in Int, NEW u \in Int, NEW z \in Int,
             k = key[q], u <= s, u <= stamp[q], x <= z, ActsAt(q) <= z
      PROVE  Cost(k, Early(k, s, x)') <= Cost(k, Early(k, u, z)) - Interval(k)
  <2>. DEFINE T == Early(k, u, z)
  <2>1. T \in SUBSET Requests /\ q \in T
    BY <1>3 DEF Early
  <2>2. \A r \in Requests : Pending(r) => ActsAt(r) \in Nat /\ stamp[r] \in Nat
    BY PendingTyped
  <2>3. Early(k, s, x)' \in SUBSET (T \ {q})
    <3>1. ASSUME NEW r \in Early(k, s, x)
          PROVE  r \in T
      <4>1. /\ r \in Requests /\ Pending(r) /\ key[r] = k /\ stamp[r] >= s /\ ActsAt(r) <= x
            /\ ActsAt(r) \in Nat /\ stamp[r] \in Nat
        BY <2>2, <3>1 DEF Early
      <4>2. stamp[r] >= u /\ ActsAt(r) <= z
        BY <1>3, <4>1
      <4>. QED  BY <4>1, <4>2 DEF Early
    <3>. QED  BY <1>2, <3>1
  <2>4. Cost(k, Early(k, s, x)') <= Cost(k, T \ {q}) /\ T \ {q} \in SUBSET Requests
    BY <2>1, <2>3, CostFacts
  <2>5. Cost(k, T \ {q}) = Cost(k, T) - Interval(k)
    BY <2>1, CostFacts
  <2>. QED  BY <2>4, <2>5
<1>4. ASSUME NEW k \in Keys, NEW s \in Int, NEW x \in Int, k = key[q]
      PROVE  \E u \in Int :
                /\ ActsAt(q) <= x =>
                      Cost(k, Early(k, s, x)') <= Cost(k, Early(k, u, x)) - Interval(k)
                /\ \E z \in Int : Cost(k, Early(k, s, x)')
                                     <= Cost(k, Early(k, u, z)) - Interval(k)
  <2>1. ActsAt(q) \in Nat /\ stamp[q] \in Nat
    BY PendingTyped
  <2>2. PICK u \in Int : u <= s /\ u <= stamp[q]
    <3>1. s <= stamp[q] \/ stamp[q] <= s
      BY <2>1
    <3>. QED  BY <2>1, <3>1
  <2>3. PICK z \in Int : x <= z /\ ActsAt(q) <= z
    <3>1. x <= ActsAt(q) \/ ActsAt(q) <= x
      BY <2>1
    <3>. QED  BY <2>1, <3>1
  <2>4. Cost(k, Early(k, s, x)') <= Cost(k, Early(k, u, z)) - Interval(k)
    BY <1>3, <1>4, <2>2, <2>3
  <2>5. ActsAt(q) <= x =>
           Cost(k, Early(k, s, x)') <= Cost(k, Early(k, u, x)) - Interval(k)
    BY <1>3, <1>4, <2>2
  <2>. QED  BY <2>2, <2>4, <2>5
<1>5. QueueOK'
  BY <1>1 DEF RateInv, QueueOK
<1>6. TimedOK'
  <2>. SUFFICES ASSUME NEW k \in Keys, NEW s \in Int, NEW x \in Int, s <= clock, clock <= x
                PROVE  Cost(k, Early(k, s, x)') <= Full(k) + (x - s)
    BY DEF TimedOK
  <2>1. Cost(k, Early(k, s, x)) <= Full(k) + (x - s)
    BY DEF RateInv, TimedOK
  <2>. QED  BY <1>2, <2>1, RateTyped
<1>7. BeforeOK'
  <2>. SUFFICES ASSUME NEW w \in Requests, NEW s \in Int, Waiting(w)', s <= clock
                PROVE  Cost(key'[w], Early(key[w], s, ActsAt(w) - 1)')
                         <= Full(key'[w]) + ActsAt(w)' - Interval(key'[w]) - s
    BY DEF BeforeOK
  <2>1. /\ Waiting(w) /\ ActsAt(w)' = ActsAt(w) /\ key'[w] = key[w]
        /\ key[w] \in Keys /\ ActsAt(w) \in Nat
    BY <1>1, PendingTyped DEF Waiting
  <2>2. PICK k \in Keys, x \in Int : k = key[w] /\ x = ActsAt(w) - 1
    BY <2>1
  <2>3. Early(key[w], s, ActsAt(w) - 1)' = Early(k, s, x)'
    BY <2>1, <2>2 DEF Early
  <2>4. Cost(k, Early(k, s, x)) <= Full(k) + ActsAt(w) - Interval(k) - s
    BY <2>1, <2>2 DEF RateInv, BeforeOK
  <2>. QED  BY <1>2, <2>1, <2>2, <2>3, <2>4, RateTyped
<1>. QED  BY <1>1, <1>2, <1>4, <1>5, <1>6, <1>7

(* A served request's token moves from the reservations to what was spent. *)
LEMMA AdmitKeepsRate ==
    ASSUME Typed, IInv, RateInv, NEW q \in Requests, Admit(q)
    PROVE  RateInv'
<1>1. /\ Pending(q) /\ Holding(q) /\ Leave(q, "served") /\ clock \in Nat
      /\ UNCHANGED << clock, limiterOf, limiter, used >>
      /\ ActsAt(q) \in Nat /\ ActsAt(q) <= clock
  <2>1. rsv[q].ok /\ ~(rsv[q].timeToAct > clock) /\ pc[q] = "decide"
    BY DEF Admit, MustWait
  <2>2. Pending(q) /\ ActsAt(q) \in Nat /\ clock \in Nat
    BY <2>1, PendingTyped, RateTyped DEF Pending
  <2>. QED  BY <2>1, <2>2 DEF Admit, entryVars, ActsAt, Holding
<1>2. PICK k0 \in Keys : k0 = key[q]
  BY <1>1, HeldBucket
<1>3. /\ \A k \in Keys : k # k0 => spent'[k] = spent[k]
      /\ spent'[k0] = spent[k0] + Interval(k0)
      /\ spent[k0] \in Nat /\ Interval(k0) \in Nat
  BY <1>1, <1>2, HeldBucket, RateTyped DEF Admit, Typed, TypeOK
<1>4. /\ \A r \in Requests :
            /\ Inside(r)' => r # q /\ Inside(r)
            /\ Holding(r)' => r # q /\ Holding(r)
            /\ Pending(r)' => r # q /\ Pending(r)
            /\ Waiting(r)' => r # q /\ Waiting(r)
            /\ r # q => UNCHANGED << pc[r], key[r], action[r], stamp[r], held[r], rsv[r],
                                     ActsAt(r), Pending(r), Waiting(r) >>
      /\ QueueOK' /\ TimedOK' /\ BeforeOK'
  BY <1>1, LeaveFacts
<1>5. BucketOK' /\ LocalOK'
  BY <1>1, <1>4 DEF RateInv, BucketOK, LocalOK
<1>6. \A k \in Keys : Debt(k)' = Debt(k)
  BY <1>1 DEF Debt
<1>7. DrawnOK'
  <2>. SUFFICES ASSUME NEW k \in Keys, NEW s \in Int, NEW x \in Int, s <= clock
                PROVE  Cost(k, Early(k, s, x)') <= Debt(k) + (clock - s)
    BY <1>1, <1>6 DEF DrawnOK
  <2>1. /\ Cost(k, Early(k, s, x)') <= Cost(k, Early(k, s, x))
        /\ Cost(k, Early(k, s, x)') \in Nat /\ Cost(k, Early(k, s, x)) \in Nat
    BY <1>1, LeaveFacts
  <2>2. Cost(k, Early(k, s, x)) <= Debt(k) + (clock - s)
    BY DEF RateInv, DrawnOK
  <2>. QED  BY <2>1, <2>2, RateTyped
<1>8. SpentOK'
  <2>. SUFFICES ASSUME NEW k \in Keys, NEW s \in Int, NEW x \in Int
                PROVE  spent'[k] + Cost(k, Early(k, s, x)') <= Debt(k) + MaxStall
    BY <1>6 DEF SpentOK
  <2>1. CASE k = k0
    <3>1. PICK u, z \in Int :
             Cost(k, Early(k, s, x)') <= Cost(k, Early(k, u, z)) - Interval(k)
      BY <1>1, <1>2, <2>1, LeaveFacts
    <3>2. Cost(k, Early(k, s, x)') \in Nat /\ Cost(k, Early(k, u, z)) \in Nat
      BY <1>1, LeaveFacts
    <3>3. spent[k] + Cost(k, Early(k, u, z)) <= Debt(k) + MaxStall
      BY DEF RateInv, SpentOK
    <3>. QED  BY <1>3, <2>1, <3>1, <3>2, <3>3, RateTyped
  <2>2. CASE k # k0
    <3>1. /\ Cost(k, Early(k, s, x)') <= Cost(k, Early(k, s, x))
          /\ Cost(k, Early(k, s, x)') \in Nat /\ Cost(k, Early(k, s, x)) \in Nat
      BY <1>1, LeaveFacts
    <3>2. spent[k] + Cost(k, Early(k, s, x)) <= Debt(k) + MaxStall
      BY DEF RateInv, SpentOK
    <3>. QED  BY <1>3, <2>2, <3>1, <3>2, RateTyped
  <2>. QED  BY <2>1, <2>2
<1>9. ServedOK'
  <2>. SUFFICES ASSUME NEW k \in Keys, NEW s \in Int, NEW x \in Int, clock <= x
                PROVE  spent'[k] + Cost(k, Early(k, s, x)') <= Full(k) + (x - clock) + MaxStall
    BY <1>1 DEF ServedOK
  <2>1. CASE k = k0
    <3>1. PICK u \in Int : Cost(k, Early(k, s, x)') <= Cost(k, Early(k, u, x)) - Interval(k)
      BY <1>1, <1>2, <2>1, LeaveFacts
    <3>2. Cost(k, Early(k, s, x)') \in Nat /\ Cost(k, Early(k, u, x)) \in Nat
      BY <1>1, LeaveFacts
    <3>3. spent[k] + Cost(k, Early(k, u, x)) <= Full(k) + (x - clock) + MaxStall
      BY DEF RateInv, ServedOK
    <3>. QED  BY <1>1, <1>3, <2>1, <3>1, <3>2, <3>3, RateTyped
  <2>2. CASE k # k0
    <3>1. /\ Cost(k, Early(k, s, x)') <= Cost(k, Early(k, s, x))
          /\ Cost(k, Early(k, s, x)') \in Nat /\ Cost(k, Early(k, s, x)) \in Nat
      BY <1>1, LeaveFacts
    <3>2. spent[k] + Cost(k, Early(k, s, x)) <= Full(k) + (x - clock) + MaxStall
      BY DEF RateInv, ServedOK
    <3>. QED  BY <1>3, <2>2, <3>1, <3>2, RateTyped
  <2>. QED  BY <2>1, <2>2
<1>10. DecayedOK'
  <2>1. /\ spent'[k0] <= Full(k0) + MaxStall
    <3>1. spent'[k0] + Cost(k0, Early(k0, 0, clock)') <= Full(k0) + (clock - clock) + MaxStall
      <4>1. \A s, x \in Int : clock <= x =>
               spent'[k0] + Cost(k0, Early(k0, s, x)') <= Full(k0) + (x - clock) + MaxStall
        BY <1>1, <1>9 DEF ServedOK
      <4>2. PICK x \in Int : x = clock
        BY <1>1
      <4>3. Early(k0, 0, clock)' = Early(k0, 0, x)'
        BY <1>1, <4>2 DEF Early
      <4>. QED  BY <1>1, <4>1, <4>2, <4>3
    <3>2. Cost(k0, Early(k0, 0, clock)') \in Nat
      <4>1. Early(k0, 0, clock)' \in SUBSET Requests
        BY DEF Early
      <4>. QED  BY <4>1, CostFacts
    <3>. QED  BY <1>1, <1>3, <3>1, <3>2, RateTyped
  <2>2. stamp[q] <= used[k0] /\ clock <= stamp[q] + MaxStall /\ stamp[q] \in Nat
    BY <1>1, <1>2, HeldBucket DEF RateInv, LocalOK, IInv, Timely, Typed, TypeOK
  <2>3. spent'[k0] <= Full(k0) + 2 * MaxStall + used[k0] - clock
    BY <1>1, <1>3, <2>1, <2>2, RateTyped
  <2>. QED  BY <1>1, <1>3, <2>3 DEF RateInv, DecayedOK
<1>. QED  BY <1>4, <1>5, <1>7, <1>8, <1>9, <1>10 DEF RateInv

(* What a cancelled reservation that gives something back does.            *)
LEMMA CancelFacts ==
    ASSUME Typed, IInv, RateInv, NEW q \in Requests, Cancel(q), Pending(q),
           limiter' # limiter
    PROVE  /\ Waiting(q) /\ Holding(q)
           /\ limiter'[held[q]].interval = limiter[held[q]].interval
           /\ limiter'[held[q]].burst = limiter[held[q]].burst
           /\ limiter'[held[q]].credit \in Int /\ limiter'[held[q]].lastEvent \in Nat
           /\ limiter'[held[q]].credit <= Full(key[q])
           /\ limiter'[held[q]].credit <= limiter[held[q]].credit + Interval(key[q])
           /\ limiter'[held[q]].credit
                 <= clock + Interval(key[q]) - limiter[held[q]].lastEvent
           /\ limiter[held[q]].lastEvent < ActsAt(q) + Interval(key[q])
           /\ limiter[held[q]].lastEvent >= ActsAt(q)
           /\ limiter'[held[q]].lastEvent >= ActsAt(q) - Interval(key[q])
           /\ \A l \in Limiters : l # held[q] => limiter'[l] = limiter[l]
<1>. DEFINE lim == limiter[held[q]]
            rv == rsv[q]
            i == Interval(key[q])
            t == rv.timeToAct
<1>1. Holding(q) /\ clock \in Nat /\ clock' = clock /\ pc[q] = "cancel"
  BY RateTyped DEF Cancel, Holding
<1>2. /\ held[q] \in Limiters /\ lim \in Bucket /\ lim.interval = i
      /\ lim.credit \in Int /\ lim.lastEvent \in Nat /\ Capacity(lim) = Full(key[q])
      /\ i \in Nat \ {0} /\ Full(key[q]) \in Nat
  BY <1>1, HeldBucket, KeyLimitType
<1>3. rv.ok = TRUE /\ t \in Nat /\ t = ActsAt(q)
  BY PendingTyped DEF Pending, ActsAt, Reservation
<1>. DEFINE after == AfterCancel(lim, rv, clock)
            prev == t - i
            c == AtMost(Full(key[q]), lim.credit + Restored(lim, rv))
            e == IF t = lim.lastEvent /\ prev >= clock THEN prev ELSE lim.lastEvent
<1>4. limiter' = [limiter EXCEPT ![held[q]] = after]
  BY DEF Cancel
<1>5. after # lim
  BY <1>2, <1>4 DEF Typed, TypeOK
<1>6. /\ ~(t < clock) /\ ~(Restored(lim, rv) <= 0)
      /\ after = [lim EXCEPT !.credit = c, !.lastEvent = e]
  BY <1>2, <1>3, <1>5 DEF AfterCancel
<1>7. Restored(lim, rv) = i - (lim.lastEvent - t)
  BY <1>2 DEF Restored
<1>8. Waiting(q)
  BY <1>1, <1>3, <1>6 DEF Waiting
<1>9. t <= lim.lastEvent /\ lim.credit <= clock - t
  BY <1>3, <1>8 DEF RateInv, LocalOK
<1>10. /\ c \in Int /\ c <= Full(key[q]) /\ c <= lim.credit + i
       /\ c <= clock + i - lim.lastEvent /\ lim.lastEvent < t + i
  BY <1>1, <1>2, <1>3, <1>6, <1>7, <1>9 DEF AtMost
<1>11. e \in Nat /\ e >= t - i
  BY <1>1, <1>2, <1>3, <1>9
<1>. HIDE DEF c, e
<1>12. /\ after.interval = lim.interval /\ after.burst = lim.burst
       /\ after.credit = c /\ after.lastEvent = e
  BY <1>2, <1>6 DEF Bucket
<1>13. limiter'[held[q]] = after /\ \A l \in Limiters : l # held[q] => limiter'[l] = limiter[l]
  BY <1>2, <1>4 DEF Typed, TypeOK
<1>. QED  BY <1>1, <1>3, <1>8, <1>9, <1>10, <1>11, <1>12, <1>13

(* A refused request gives back at most what it reserved, and only when    *)
(* nobody stands behind it.                                                *)
LEMMA CancelKeepsRate ==
    ASSUME Typed, IInv, RateInv, NEW q \in Requests, Cancel(q), Pending(q)
    PROVE  RateInv'
<1>1. /\ Holding(q) /\ Leave(q, "throttled") /\ clock \in Nat
      /\ UNCHANGED << clock, limiterOf, used, spent >> /\ ActsAt(q) \in Nat
  BY PendingTyped, RateTyped DEF Cancel, entryVars
<1>2. PICK k0 \in Keys : k0 = key[q]
  BY <1>1, HeldBucket
<1>3. Interval(k0) \in Nat \ {0} /\ Full(k0) \in Nat
  BY KeyLimitType
<1>4. /\ \A r \in Requests :
            /\ Inside(r)' => r # q /\ Inside(r)
            /\ Holding(r)' => r # q /\ Holding(r)
            /\ Pending(r)' => r # q /\ Pending(r)
            /\ Waiting(r)' => r # q /\ Waiting(r)
            /\ r # q => UNCHANGED << pc[r], key[r], action[r], stamp[r], held[r], rsv[r],
                                     ActsAt(r), Pending(r), Waiting(r) >>
      /\ QueueOK' /\ TimedOK' /\ BeforeOK'
  BY <1>1, LeaveFacts
<1>5. ASSUME NEW k \in Keys, NEW s \in Int, NEW x \in Int
      PROVE  /\ Cost(k, Early(k, s, x)') <= Cost(k, Early(k, s, x))
             /\ Cost(k, Early(k, s, x)') \in Nat /\ Cost(k, Early(k, s, x)) \in Nat
             /\ spent[k] \in Nat /\ MaxStall \in Nat /\ Debt(k) \in Int /\ Full(k) \in Nat
  BY <1>1, LeaveFacts, RateTyped
<1>6. ServedOK'
  <2>. SUFFICES ASSUME NEW k \in Keys, NEW s \in Int, NEW x \in Int, clock <= x
                PROVE  spent[k] + Cost(k, Early(k, s, x)') <= Full(k) + (x - clock) + MaxStall
    BY <1>1 DEF ServedOK
  <2>1. spent[k] + Cost(k, Early(k, s, x)) <= Full(k) + (x - clock) + MaxStall
    BY DEF RateInv, ServedOK
  <2>. QED  BY <1>1, <1>5, <2>1
<1>7. DecayedOK'
  BY <1>1 DEF RateInv, DecayedOK
<1>8. CASE limiter' = limiter
  <2>1. BucketOK' /\ LocalOK'
    BY <1>1, <1>4, <1>8 DEF RateInv, BucketOK, LocalOK
  <2>2. \A k \in Keys : Debt(k)' = Debt(k)
    BY <1>1, <1>8 DEF Debt
  <2>3. DrawnOK' /\ SpentOK'
    <3>. SUFFICES ASSUME NEW k \in Keys, NEW s \in Int, NEW x \in Int
                  PROVE  /\ s <= clock => Cost(k, Early(k, s, x)') <= Debt(k) + (clock - s)
                         /\ spent[k] + Cost(k, Early(k, s, x)') <= Debt(k) + MaxStall
      BY <1>1, <2>2 DEF DrawnOK, SpentOK
    <3>1. /\ s <= clock => Cost(k, Early(k, s, x)) <= Debt(k) + (clock - s)
          /\ spent[k] + Cost(k, Early(k, s, x)) <= Debt(k) + MaxStall
      BY DEF RateInv, DrawnOK, SpentOK
    <3>. QED  BY <1>1, <1>5, <3>1
  <2>. QED  BY <1>4, <1>6, <1>7, <2>1, <2>3 DEF RateInv
<1>9. CASE limiter' # limiter
  <2>1. ASSUME NEW k \in Keys, k # k0, limiterOf[k] # NoLimiter
        PROVE  limiter'[limiterOf[k]] = limiter[limiterOf[k]]
    BY <1>1, <1>2, <1>9, <2>1, HeldBucket, CancelFacts DEF Typed, TypeOK
  <2>2. BucketOK'
    BY <1>1, <1>2, <1>9, <2>1, HeldBucket, CancelFacts DEF RateInv, BucketOK
  <2>3. \A k \in Keys : k # k0 => Debt(k)' = Debt(k)
    BY <1>1, <2>1 DEF Debt
  <2>4. /\ Debt(k0)' \in Int
        /\ Debt(k0)' >= Debt(k0) - Interval(k0)
        /\ Debt(k0)' >= Full(k0) + ActsAt(q) - clock - Interval(k0)
    <3>1. Debt(k0)' = Full(k0) - limiter'[held[q]].credit
      BY <1>1, <1>2, HeldBucket DEF Debt
    <3>. QED  BY <1>1, <1>2, <1>3, <1>9, <3>1, HeldBucket, CancelFacts
  <2>5. ASSUME NEW p \in Requests, Pending(p), p # q, key[p] = k0
        PROVE  /\ ActsAt(p) \in Nat /\ ActsAt(p) < ActsAt(q)
               /\ Waiting(p) => ActsAt(p) + Interval(k0) <= ActsAt(q)
    <3>1. ActsAt(p) \in Nat /\ Holding(p)
      BY <2>5, PendingTyped
    <3>2. \/ ActsAt(p) >= ActsAt(q) + Interval(k0)
          \/ ActsAt(p) < ActsAt(q) /\ (Waiting(p) => ActsAt(p) + Interval(k0) <= ActsAt(q))
      BY <1>2, <1>9, <2>5, CancelFacts DEF RateInv, QueueOK
    <3>3. ASSUME ActsAt(p) >= ActsAt(q) + Interval(k0)
          PROVE  FALSE
      <4>1. Waiting(p)
        <5>1. ActsAt(q) >= clock
          BY <1>1, <1>9, CancelFacts DEF Waiting
        <5>. QED  BY <1>1, <1>3, <2>5, <3>1, <3>3, <5>1 DEF Waiting
      <4>2. held[p] = held[q]
        BY <1>1, <1>2, <2>5, <3>1, HeldBucket
      <4>3. ActsAt(p) <= limiter[held[q]].lastEvent
        BY <4>1, <4>2 DEF RateInv, LocalOK
      <4>. QED  BY <1>1, <1>2, <1>3, <1>9, <3>1, <3>3, <4>3, CancelFacts, HeldBucket
    <3>. QED  BY <3>1, <3>2, <3>3
  <2>6. LocalOK'
    <3>. SUFFICES ASSUME NEW r \in Requests
                  PROVE  /\ Inside(r)' => (\E acct \in Accounts : key[r] = acct \o action[r])'
                         /\ Holding(r)' => stamp'[r] <= used'[key'[r]]
                         /\ Pending(r)' => KeyLimit(key'[r]).burst >= 1
                         /\ Waiting(r)' => /\ ActsAt(r)' <= limiter'[held'[r]].lastEvent
                                           /\ limiter'[held'[r]].credit <= clock' - ActsAt(r)'
      BY DEF LocalOK
    <3>1. /\ Inside(r)' => (\E acct \in Accounts : key[r] = acct \o action[r])'
          /\ Holding(r)' => stamp'[r] <= used'[key'[r]]
          /\ Pending(r)' => KeyLimit(key'[r]).burst >= 1
      BY <1>1, <1>4 DEF RateInv, LocalOK
    <3>2. ASSUME Waiting(r)'
          PROVE  /\ ActsAt(r)' <= limiter'[held'[r]].lastEvent
                 /\ limiter'[held'[r]].credit <= clock' - ActsAt(r)'
      <4>1. /\ r # q /\ Waiting(r) /\ Pending(r) /\ Holding(r)
            /\ ActsAt(r)' = ActsAt(r) /\ held'[r] = held[r] /\ held[r] \in Limiters
            /\ ActsAt(r) \in Nat
        BY <1>4, <3>2, PendingTyped DEF Waiting
      <4>2. CASE key[r] = k0
        <5>1. held[r] = held[q]
          BY <1>1, <1>2, <4>1, <4>2, HeldBucket
        <5>2. ActsAt(r) + Interval(k0) <= ActsAt(q)
          BY <2>5, <4>1, <4>2
        <5>. QED
          BY <1>1, <1>2, <1>3, <1>9, <4>1, <5>1, <5>2, CancelFacts, HeldBucket
      <4>3. CASE key[r] # k0
        <5>1. held[r] # held[q]
          BY <1>1, <1>2, <4>1, <4>3, HeldBucket
        <5>2. limiter'[held[r]] = limiter[held[r]]
          BY <1>9, <4>1, <5>1, CancelFacts
        <5>. QED  BY <1>1, <4>1, <5>2 DEF RateInv, LocalOK
      <4>. QED  BY <4>2, <4>3
    <3>. QED  BY <3>1, <3>2
  <2>7. DrawnOK'
    <3>. SUFFICES ASSUME NEW k \in Keys, NEW s \in Int, NEW x \in Int, s <= clock
                  PROVE  Cost(k, Early(k, s, x)') <= Debt(k)' + (clock - s)
      BY <1>1 DEF DrawnOK
    <3>1. CASE k = k0
      <4>1. PICK z \in Int : z = ActsAt(q) - 1
        BY <1>1
      <4>2. Early(k, s, x)' \in SUBSET Early(k, s, z)
        <5>1. Early(k, s, x)' = Early(k, s, x) \ {q}
          BY <1>1, LeaveFacts
        <5>2. ASSUME NEW p \in Early(k, s, x), p # q
              PROVE  p \in Early(k, s, z)
          <6>1. p \in Requests /\ Pending(p) /\ key[p] = k /\ stamp[p] >= s
            BY <5>2 DEF Early
          <6>2. ActsAt(p) <= z
            BY <1>1, <2>5, <3>1, <4>1, <5>2, <6>1
          <6>. QED  BY <6>1, <6>2 DEF Early
        <5>. QED  BY <5>1, <5>2
      <4>3. Cost(k, Early(k, s, x)') <= Cost(k, Early(k, s, z)) /\ Cost(k, Early(k, s, z)) \in Nat
        BY <4>2, EarlyInRequests, CostFacts
      <4>4. Cost(k, Early(k, s, z)) <= Full(k) + ActsAt(q) - Interval(k) - s
        BY <1>2, <1>9, <3>1, <4>1, CancelFacts DEF RateInv, BeforeOK
      <4>. QED  BY <1>1, <1>3, <1>5, <2>4, <3>1, <4>3, <4>4
    <3>2. CASE k # k0
      <4>1. Cost(k, Early(k, s, x)) <= Debt(k) + (clock - s)
        BY DEF RateInv, DrawnOK
      <4>. QED  BY <1>1, <1>5, <2>3, <3>2, <4>1
    <3>. QED  BY <3>1, <3>2
  <2>8. SpentOK'
    <3>. SUFFICES ASSUME NEW k \in Keys, NEW s \in Int, NEW x \in Int
                  PROVE  spent[k] + Cost(k, Early(k, s, x)') <= Debt(k)' + MaxStall
      BY <1>1 DEF SpentOK
    <3>1. CASE k = k0
      <4>1. PICK u, z \in Int :
               Cost(k, Early(k, s, x)') <= Cost(k, Early(k, u, z)) - Interval(k)
        BY <1>1, <1>2, <3>1, LeaveFacts
      <4>2. spent[k] + Cost(k, Early(k, u, z)) <= Debt(k) + MaxStall
        BY DEF RateInv, SpentOK
      <4>3. Cost(k, Early(k, u, z)) \in Nat
        BY <1>5
      <4>. QED  BY <1>3, <1>5, <2>4, <3>1, <4>1, <4>2, <4>3
    <3>2. CASE k # k0
      <4>1. spent[k] + Cost(k, Early(k, s, x)) <= Debt(k) + MaxStall
        BY DEF RateInv, SpentOK
      <4>. QED  BY <1>5, <2>3, <3>2, <4>1
    <3>. QED  BY <3>1, <3>2
  <2>. QED  BY <1>4, <1>6, <1>7, <2>2, <2>6, <2>7, <2>8 DEF RateInv
<1>. QED  BY <1>8, <1>9

(* What the passing of time does to a bucket.                              *)
LEMMA TickFacts ==
    ASSUME Typed, IInv, RateInv, Tick
    PROVE  /\ \A l \in Limiters :
                 /\ limiter'[l].interval = limiter[l].interval
                 /\ limiter'[l].burst = limiter[l].burst
                 /\ limiter'[l].lastEvent = limiter[l].lastEvent
                 /\ limiter[l].credit \in Int /\ limiter'[l].credit \in Int
                 /\ limiter'[l].credit <= limiter[l].credit + 1
                 /\ limiter'[l].credit <= Capacity(limiter[l])
           /\ \A k \in Keys : /\ Debt(k)' \in Int /\ Debt(k)' >= 0
                              /\ Debt(k)' >= Debt(k) - 1
<1>1. ASSUME NEW l \in Limiters
      PROVE  /\ limiter'[l].interval = limiter[l].interval
             /\ limiter'[l].burst = limiter[l].burst
             /\ limiter'[l].lastEvent = limiter[l].lastEvent
             /\ limiter[l].credit \in Int /\ limiter'[l].credit \in Int
             /\ limiter'[l].credit <= limiter[l].credit + 1
             /\ limiter'[l].credit <= Capacity(limiter[l])
  <2>. DEFINE lim == limiter[l]
              c == AtMost(Capacity(lim), lim.credit + 1)
  <2>1. lim \in Bucket /\ limiter'[l] = Earn(lim)
    BY DEF Tick, Typed, TypeOK
  <2>2. lim.burst \in Nat /\ lim.interval \in Nat /\ lim.credit \in Int
    BY <2>1 DEF Bucket
  <2>3. Capacity(lim) \in Int
    BY <2>2 DEF Capacity
  <2>4. c \in Int /\ c <= lim.credit + 1 /\ c <= Capacity(lim)
    BY <2>2, <2>3 DEF AtMost
  <2>5. Earn(lim) = [lim EXCEPT !.credit = c]
    BY DEF Earn
  <2>. HIDE DEF c
  <2>6. /\ Earn(lim).interval = lim.interval /\ Earn(lim).burst = lim.burst
        /\ Earn(lim).lastEvent = lim.lastEvent /\ Earn(lim).credit = c
    BY <2>1, <2>5 DEF Bucket
  <2>. QED  BY <2>1, <2>2, <2>4, <2>6
<1>2. ASSUME NEW k \in Keys
      PROVE  Debt(k)' \in Int /\ Debt(k)' >= 0 /\ Debt(k)' >= Debt(k) - 1
  <2>1. limiterOf' = limiterOf
    BY DEF Tick, entryVars
  <2>2. CASE limiterOf[k] = NoLimiter
    BY <2>1, <2>2 DEF Debt
  <2>3. CASE limiterOf[k] # NoLimiter
    <3>1. limiterOf[k] \in Limiters
      BY <2>3 DEF Typed, TypeOK
    <3>2. Capacity(limiter[limiterOf[k]]) = Full(k) /\ Full(k) \in Nat
      BY <2>3, KeyLimitType DEF RateInv, BucketOK, Capacity, Full, Interval
    <3>3. /\ Debt(k)' = Full(k) - limiter'[limiterOf[k]].credit
          /\ Debt(k) = Full(k) - limiter[limiterOf[k]].credit
      BY <2>1, <2>3 DEF Debt
    <3>. QED  BY <1>1, <3>1, <3>2, <3>3
  <2>. QED  BY <2>2, <2>3
<1>. QED  BY <1>1, <1>2

(* Time repays debts and forgets what was spent at the same pace; what was *)
(* reserved but is not yet decided is no older than MaxStall.              *)
LEMMA TickKeepsRate ==
    ASSUME Typed, IInv, RateInv, Tick
    PROVE  RateInv'
<1>1. /\ clock \in Nat /\ clock' = clock + 1 /\ MaxStall \in Nat
      /\ UNCHANGED << limiterOf, used, pc, key, action, stamp, held, rsv >>
  BY RateTyped DEF Tick, entryVars, localVars
<1>2. ASSUME NEW r \in Requests
      PROVE  /\ UNCHANGED << Inside(r), Holding(r), Pending(r), ActsAt(r) >>
             /\ Pending(r) => /\ stamp[r] \in Nat /\ stamp[r] <= clock /\ ActsAt(r) \in Nat
                              /\ stamp[r] >= clock' - MaxStall
                              /\ key[r] \in Keys /\ held[r] \in Limiters /\ Holding(r)
             /\ Waiting(r)' => Waiting(r) /\ Pending(r) /\ ActsAt(r) >= clock'
  <2>1. UNCHANGED << Inside(r), Holding(r), Pending(r), ActsAt(r) >>
    BY <1>1 DEF Inside, Holding, Pending, ActsAt
  <2>2. ASSUME Pending(r)
        PROVE  /\ stamp[r] \in Nat /\ stamp[r] <= clock /\ ActsAt(r) \in Nat
               /\ stamp[r] >= clock' - MaxStall
               /\ key[r] \in Keys /\ held[r] \in Limiters /\ Holding(r)
    <3>1. Inside(r)
      BY <2>2 DEF Pending, Inside, InFlight
    <3>2. stamp[r] <= clock /\ clock < stamp[r] + MaxStall
      BY <3>1 DEF Tick, IInv, Timely
    <3>. QED  BY <1>1, <2>2, <3>2, PendingTyped
  <2>3. ASSUME Waiting(r)'
        PROVE  Waiting(r) /\ Pending(r) /\ ActsAt(r) >= clock'
    <3>1. Pending(r) /\ (ActsAt(r) > clock' \/ ActsAt(r) = clock')
      BY <1>1, <2>1, <2>3 DEF Waiting
    <3>. QED  BY <1>1, <2>2, <3>1 DEF Waiting
  <2>. QED  BY <2>1, <2>2, <2>3
<1>3. ASSUME NEW k \in Keys, NEW s \in Int, NEW x \in Int
      PROVE  /\ Early(k, s, x)' = Early(k, s, x)
             /\ Cost(k, Early(k, s, x)) \in Nat
             /\ s > clock => Cost(k, Early(k, s, x)) = 0
             /\ \A u \in Int : u <= clock' - MaxStall =>
                   Cost(k, Early(k, s, x)) <= Cost(k, Early(k, u, x))
             /\ spent[k] \in Nat /\ Full(k) \in Nat /\ Debt(k) \in Int
             /\ Debt(k)' \in Int /\ Debt(k)' >= 0 /\ Debt(k)' >= Debt(k) - 1
             /\ spent'[k] = IF spent[k] > 0 THEN spent[k] - 1 ELSE 0
  <2>1. Early(k, s, x)' = Early(k, s, x)
    BY <1>1, <1>2 DEF Early
  <2>2. s > clock => Early(k, s, x) = {}
    BY <1>1, <1>2 DEF Early
  <2>3. ASSUME NEW u \in Int, u <= clock' - MaxStall
        PROVE  Early(k, s, x) \in SUBSET Early(k, u, x)
    <3>1. ASSUME NEW r \in Early(k, s, x)
          PROVE  r \in Early(k, u, x)
      <4>1. r \in Requests /\ Pending(r) /\ key[r] = k /\ ActsAt(r) <= x
        BY <3>1 DEF Early
      <4>2. stamp[r] >= u
        BY <1>1, <1>2, <2>3, <4>1
      <4>. QED  BY <4>1, <4>2 DEF Early
    <3>. QED  BY <3>1
  <2>4. /\ Cost(k, Early(k, s, x)) \in Nat
        /\ s > clock => Cost(k, Early(k, s, x)) = 0
        /\ \A u \in Int : u <= clock' - MaxStall =>
              Cost(k, Early(k, s, x)) <= Cost(k, Early(k, u, x))
    BY <2>2, <2>3, EarlyInRequests, CostFacts
  <2>5. spent'[k] = IF spent[k] > 0 THEN spent[k] - 1 ELSE 0
    BY DEF Tick
  <2>. QED  BY <2>1, <2>4, <2>5, RateTyped, TickFacts
<1>4. BucketOK'
  <2>. SUFFICES ASSUME NEW k \in Keys, limiterOf[k] # NoLimiter
                PROVE  /\ limiter'[limiterOf[k]].interval = Interval(k)
                       /\ limiter'[limiterOf[k]].burst = KeyLimit(k).burst
                       /\ limiter'[limiterOf[k]].credit <= Full(k)
    BY <1>1 DEF BucketOK
  <2>1. limiterOf[k] \in Limiters
    BY DEF Typed, TypeOK
  <2>2. /\ limiter[limiterOf[k]].interval = Interval(k)
        /\ limiter[limiterOf[k]].burst = KeyLimit(k).burst
    BY DEF RateInv, BucketOK
  <2>3. Capacity(limiter[limiterOf[k]]) = Full(k)
    BY <2>2 DEF Capacity, Full, Interval
  <2>. QED  BY <2>1, <2>2, <2>3, TickFacts
<1>5. LocalOK'
  <2>. SUFFICES ASSUME NEW r \in Requests
                PROVE  /\ Inside(r) => \E acct \in Accounts : key[r] = acct \o action[r]
                       /\ Holding(r) => stamp[r] <= used[key[r]]
                       /\ Pending(r) => KeyLimit(key[r]).burst >= 1
                       /\ Waiting(r)' => /\ ActsAt(r) <= limiter'[held[r]].lastEvent
                                         /\ limiter'[held[r]].credit <= clock' - ActsAt(r)
    BY <1>1, <1>2 DEF LocalOK
  <2>1. ASSUME Waiting(r)'
        PROVE  /\ ActsAt(r) <= limiter'[held[r]].lastEvent
               /\ limiter'[held[r]].credit <= clock' - ActsAt(r)
    <3>1. Waiting(r) /\ ActsAt(r) \in Nat /\ held[r] \in Limiters
      BY <1>2, <2>1
    <3>2. ActsAt(r) <= limiter[held[r]].lastEvent /\ limiter[held[r]].credit <= clock - ActsAt(r)
      BY <3>1 DEF RateInv, LocalOK
    <3>. QED  BY <1>1, <3>1, <3>2, TickFacts
  <2>. QED  BY <2>1 DEF RateInv, LocalOK
<1>6. QueueOK'
  BY <1>1, <1>2 DEF RateInv, QueueOK
<1>7. DrawnOK'
  <2>. SUFFICES ASSUME NEW k \in Keys, NEW s \in Int, NEW x \in Int, s <= clock'
                PROVE  Cost(k, Early(k, s, x)) <= Debt(k)' + (clock' - s)
    BY <1>3 DEF DrawnOK
  <2>1. CASE s <= clock
    <3>1. Cost(k, Early(k, s, x)) <= Debt(k) + (clock - s)
      BY <2>1 DEF RateInv, DrawnOK
    <3>2. /\ Cost(k, Early(k, s, x)) \in Nat /\ Debt(k) \in Int /\ Debt(k)' \in Int
          /\ Debt(k)' >= Debt(k) - 1
      BY <1>3
    <3>. QED  BY <1>1, <3>1, <3>2
  <2>2. CASE s > clock
    BY <1>1, <1>3, <2>2
  <2>. QED  BY <1>1, <2>1, <2>2
<1>8. TimedOK'
  <2>. SUFFICES ASSUME NEW k \in Keys, NEW s \in Int, NEW x \in Int, s <= clock', clock' <= x
                PROVE  Cost(k, Early(k, s, x)) <= Full(k) + (x - s)
    BY <1>3 DEF TimedOK
  <2>1. CASE s <= clock
    BY <1>1, <2>1 DEF RateInv, TimedOK
  <2>2. CASE s > clock
    BY <1>1, <1>3, <2>2
  <2>. QED  BY <1>1, <2>1, <2>2
<1>9. BeforeOK'
  <2>. SUFFICES ASSUME NEW w \in Requests, NEW s \in Int, Waiting(w)', s <= clock'
                PROVE  Cost(key[w], Early(key[w], s, ActsAt(w) - 1)')
                         <= Full(key[w]) + ActsAt(w) - Interval(key[w]) - s
    BY <1>1, <1>2 DEF BeforeOK
  <2>1. /\ Waiting(w) /\ Pending(w) /\ ActsAt(w) >= clock'
        /\ key[w] \in Keys /\ ActsAt(w) \in Nat
    BY <1>2
  <2>2. PICK k \in Keys, x \in Int : k = key[w] /\ x = ActsAt(w) - 1
    BY <2>1
  <2>3. Early(key[w], s, ActsAt(w) - 1)' = Early(k, s, x)
    BY <1>1, <1>2, <2>2 DEF Early
  <2>4. CASE s <= clock
    BY <2>1, <2>2, <2>3, <2>4 DEF RateInv, BeforeOK
  <2>5. CASE s > clock
    <3>1. KeyLimit(k).burst >= 1
      BY <2>1, <2>2 DEF RateInv, LocalOK
    <3>2. Full(k) \in Nat /\ Interval(k) \in Nat /\ Full(k) >= Interval(k)
      BY <3>1, KeyLimitType
    <3>3. Cost(k, Early(k, s, x)) = 0
      BY <1>3, <2>5
    <3>. QED  BY <1>1, <2>1, <2>2, <2>3, <3>2, <3>3
  <2>. QED  BY <1>1, <2>4, <2>5
<1>10. PICK u \in Int : u = clock' - MaxStall /\ u <= clock'
  BY <1>1
<1>11. SpentOK'
  <2>. SUFFICES ASSUME NEW k \in Keys, NEW s \in Int, NEW x \in Int
                PROVE  spent'[k] + Cost(k, Early(k, s, x)) <= Debt(k)' + MaxStall
    BY <1>3 DEF SpentOK
  <2>1. CASE spent[k] > 0
    <3>1. spent[k] + Cost(k, Early(k, s, x)) <= Debt(k) + MaxStall
      BY DEF RateInv, SpentOK
    <3>. QED  BY <1>1, <1>3, <2>1, <3>1
  <2>2. CASE ~(spent[k] > 0)
    <3>1. Cost(k, Early(k, s, x)) <= Cost(k, Early(k, u, x)) /\ Cost(k, Early(k, u, x)) \in Nat
      BY <1>3, <1>10, <1>1
    <3>2. Cost(k, Early(k, u, x)) <= Debt(k)' + (clock' - u)
      BY <1>3, <1>7, <1>10 DEF DrawnOK
    <3>. QED  BY <1>1, <1>3, <1>10, <2>2, <3>1, <3>2
  <2>. QED  BY <2>1, <2>2
<1>12. ServedOK'
  <2>. SUFFICES ASSUME NEW k \in Keys, NEW s \in Int, NEW x \in Int, clock' <= x
                PROVE  spent'[k] + Cost(k, Early(k, s, x)) <= Full(k) + (x - clock') + MaxStall
    BY <1>3 DEF ServedOK
  <2>1. CASE spent[k] > 0
    <3>1. spent[k] + Cost(k, Early(k, s, x)) <= Full(k) + (x - clock) + MaxStall
      BY <1>1 DEF RateInv, ServedOK
    <3>. QED  BY <1>1, <1>3, <2>1, <3>1
  <2>2. CASE ~(spent[k] > 0)
    <3>1. Cost(k, Early(k, s, x)) <= Cost(k, Early(k, u, x)) /\ Cost(k, Early(k, u, x)) \in Nat
      BY <1>3, <1>10, <1>1
    <3>2. Cost(k, Early(k, u, x)) <= Full(k) + (x - u)
      BY <1>3, <1>8, <1>10 DEF TimedOK
    <3>. QED  BY <1>1, <1>3, <1>10, <2>2, <3>1, <3>2
  <2>. QED  BY <2>1, <2>2
<1>13. DecayedOK'
  <2>. SUFFICES ASSUME NEW k \in Keys, limiterOf[k] # NoLimiter
                PROVE  /\ used[k] <= clock'
                       /\ spent'[k] > 0 => spent'[k] <= Full(k) + 2 * MaxStall + used[k] - clock'
    BY <1>1 DEF DecayedOK
  <2>1. /\ used[k] <= clock
        /\ spent[k] > 0 => spent[k] <= Full(k) + 2 * MaxStall + used[k] - clock
    BY DEF RateInv, DecayedOK
  <2>2. spent[k] \in Nat /\ spent'[k] = IF spent[k] > 0 THEN spent[k] - 1 ELSE 0
    BY <1>3
  <2>. QED  BY <1>1, <2>1, <2>2, RateTyped
<1>. QED
  BY <1>4, <1>5, <1>6, <1>7, <1>8, <1>9, <1>11, <1>12, <1>13 DEF RateInv

LEMMA RateInit == Init => RateInv
<1>. SUFFICES ASSUME Init PROVE RateInv
  OBVIOUS
<1>1. /\ clock = 0 /\ MaxStall \in Nat
      /\ \A k \in Keys : limiterOf[k] = NoLimiter /\ spent[k] = 0 /\ Debt(k) = 0
      /\ \A r \in Requests : ~Inside(r) /\ ~Holding(r) /\ ~Pending(r) /\ ~Waiting(r)
  BY TimingAssumption DEF Init, Debt, Inside, InFlight, Holding, Pending, Waiting
<1>2. ASSUME NEW k \in Keys, NEW s \in Int, NEW x \in Int
      PROVE  Cost(k, Early(k, s, x)) = 0 /\ Full(k) \in Nat
  <2>1. Early(k, s, x) = {}
    BY <1>1 DEF Early
  <2>. QED  BY <2>1, CostFacts, KeyLimitType
<1>3. BucketOK /\ LocalOK /\ QueueOK /\ BeforeOK /\ DecayedOK
  BY <1>1 DEF BucketOK, LocalOK, QueueOK, BeforeOK, DecayedOK
<1>4. DrawnOK /\ TimedOK /\ SpentOK /\ ServedOK
  BY <1>1, <1>2 DEF DrawnOK, TimedOK, SpentOK, ServedOK
<1>. QED  BY <1>3, <1>4 DEF RateInv

(* Steps that touch neither the map nor a bucket.                          *)
LEMMA AsideKeepsRate ==
    ASSUME Typed, RateInv, UNCHANGED << clock, spent, limiterOf, used, limiter >>,
           \A r \in Requests :
              /\ Pending(r)' = Pending(r) /\ Waiting(r)' = Waiting(r)
              /\ Pending(r) => UNCHANGED << key[r], stamp[r], rsv[r], held[r] >>
              /\ Holding(r)' => Holding(r) /\ UNCHANGED << key[r], stamp[r] >>
              /\ Inside(r)' => (\E acct \in Accounts : key[r] = acct \o action[r])'
    PROVE  RateInv'
<1>1. BucketOK' /\ DecayedOK' /\ \A k \in Keys : Debt(k)' = Debt(k)
  BY DEF RateInv, BucketOK, DecayedOK, Debt
<1>2. \A r \in Requests : Holding(r)' => (stamp[r] <= used[key[r]])'
  BY DEF RateInv, LocalOK
<1>. QED  BY <1>1, <1>2, QuietKeepsRate

LEMMA RateStep ==
    ASSUME KeysApart, RefillsInTime
    PROVE  Typed /\ IInv /\ RateInv /\ [Next]_vars => RateInv'
<1>. SUFFICES ASSUME Typed, IInv, RateInv, [Next]_vars PROVE RateInv'
  OBVIOUS
<1>1. ASSUME NEW q \in Requests, NEW acct \in Accounts \cup {EmptyName, KeyError},
             NEW act \in Actions \cup {EmptyName, Absent, KeyError},
             Arrive(q, acct, act)
      PROVE  RateInv'
  <2>1. UNCHANGED << clock, spent, limiterOf, used, limiter, held, rsv >>
    BY <1>1 DEF Arrive, entryVars
  <2>2. ASSUME NEW r \in Requests, r # q
        PROVE  UNCHANGED << pc[r], key[r], action[r], stamp[r], held[r], rsv[r] >>
    BY <1>1, <2>2 DEF Arrive, Typed, TypeOK
  <2>3. /\ pc[q] \in Finished /\ pc'[q] \in {"served", "lookup"}
        /\ pc'[q] = "lookup" => \E a \in Accounts : key'[q] = a \o action'[q]
    <3>1. CASE FailsOpen(acct, act)
      BY <1>1, <3>1 DEF Arrive, Typed, TypeOK
    <3>2. CASE ~FailsOpen(acct, act)
      <4>1. acct \in Accounts
        BY <3>2 DEF FailsOpen
      <4>2. /\ pc[q] \in Finished /\ pc'[q] = "lookup"
            /\ key'[q] = KeyOf(acct, act) /\ action'[q] = ActionOf(act)
        BY <1>1, <3>2 DEF Arrive, Typed, TypeOK
      <4>3. key'[q] = acct \o action'[q]
        BY <4>2 DEF KeyOf
      <4>. QED  BY <4>1, <4>2, <4>3
    <3>. QED  BY <3>1, <3>2
  <2>4. ASSUME NEW r \in Requests
        PROVE  /\ Pending(r)' = Pending(r) /\ Waiting(r)' = Waiting(r)
               /\ Pending(r) => UNCHANGED << key[r], stamp[r], rsv[r], held[r] >>
               /\ Holding(r)' => Holding(r) /\ UNCHANGED << key[r], stamp[r] >>
               /\ Inside(r)' => (\E a \in Accounts : key[r] = a \o action[r])'
    <3>1. CASE r = q
      <4>1. /\ ~Pending(r) /\ Pending(r)' = Pending(r) /\ Waiting(r)' = Waiting(r)
            /\ ~Holding(r)'
        BY <2>3, <3>1 DEF Pending, Waiting, Holding, Finished
      <4>2. Inside(r)' => pc'[q] = "lookup"
        BY <2>3, <3>1 DEF Inside, InFlight
      <4>. QED  BY <2>3, <3>1, <4>1, <4>2
    <3>2. CASE r # q
      <4>1. UNCHANGED << Pending(r), Waiting(r), Holding(r), Inside(r) >>
        BY <2>1, <2>2, <3>2 DEF Pending, Waiting, ActsAt, Holding, Inside
      <4>. QED  BY <2>2, <3>2, <4>1 DEF RateInv, LocalOK
    <3>. QED  BY <3>1, <3>2
  <2>. QED  BY <2>1, <2>4, AsideKeepsRate
<1>2. ASSUME UNCHANGED << clock, spent, limiterOf, used, limiter, localVars >>
      PROVE  RateInv'
  <2>1. ASSUME NEW r \in Requests
        PROVE  /\ Pending(r)' = Pending(r) /\ Waiting(r)' = Waiting(r)
               /\ Pending(r) => UNCHANGED << key[r], stamp[r], rsv[r], held[r] >>
               /\ Holding(r)' => Holding(r) /\ UNCHANGED << key[r], stamp[r] >>
               /\ Inside(r)' => (\E acct \in Accounts : key[r] = acct \o action[r])'
    BY <1>2 DEF localVars, Pending, Waiting, ActsAt, Holding, Inside, RateInv, LocalOK
  <2>. QED  BY <1>2, <2>1, AsideKeepsRate
<1>3. ASSUME NEW q \in Requests, Lookup(q) \/ Refuse(q), ~Found(q)
      PROVE  RateInv'
  <2>1. /\ UNCHANGED << clock, spent, limiterOf, used, limiter, key, action, stamp, held, rsv >>
        /\ \/ pc[q] = "lookup" /\ pc' = [pc EXCEPT ![q] = "insert"]
           \/ /\ pc[q] = "decide" /\ pc' = [pc EXCEPT ![q] = "cancel"]
              /\ rsv[q].ok => ActsAt(q) > clock
    BY <1>3 DEF Lookup, Refuse, entryVars, MustWait, ActsAt
  <2>2. ASSUME NEW r \in Requests
        PROVE  /\ Pending(r)' = Pending(r) /\ Waiting(r)' = Waiting(r)
               /\ Holding(r)' = Holding(r) /\ Inside(r)' = Inside(r)
    BY <2>1 DEF Typed, TypeOK, Pending, Waiting, ActsAt, Holding, Inside, InFlight
  <2>3. ASSUME NEW r \in Requests, Inside(r)'
        PROVE  (\E acct \in Accounts : key[r] = acct \o action[r])'
    BY <2>1, <2>2, <2>3 DEF RateInv, LocalOK
  <2>. QED  BY <2>1, <2>2, <2>3, AsideKeepsRate
<1>4. ASSUME NEW q \in Requests, Lookup(q) \/ Insert(q), Found(q)
      PROVE  RateInv'
  BY <1>4, FoundKeepsRate DEF Lookup, Insert
<1>5. ASSUME NEW q \in Requests, Insert(q), ~Found(q)
      PROVE  RateInv'
  BY <1>5, CreateKeepsRate DEF Insert
<1>6. ASSUME NEW q \in Requests, ~Pending(q)', ~Pending(q), ~Holding(q)' \/ Holding(q),
             Inside(q)' => Inside(q),
             UNCHANGED << clock, spent, limiterOf, used, limiter >>,
             Inside(q)' => UNCHANGED << key[q], stamp[q], action[q] >>,
             \A r \in Requests \ {q} :
                UNCHANGED << pc[r], key[r], action[r], stamp[r], held[r], rsv[r] >>
      PROVE  RateInv'
  <2>1. ASSUME NEW r \in Requests
        PROVE  /\ Pending(r)' = Pending(r) /\ Waiting(r)' = Waiting(r)
               /\ Pending(r) => UNCHANGED << key[r], stamp[r], rsv[r], held[r] >>
               /\ Holding(r)' => Holding(r) /\ UNCHANGED << key[r], stamp[r] >>
               /\ Inside(r)' => (\E acct \in Accounts : key[r] = acct \o action[r])'
    <3>1. CASE r = q
      <4>1. /\ Pending(r)' = Pending(r) /\ Waiting(r)' = Waiting(r)
            /\ Holding(r)' => Inside(r)'
        BY <1>6, <3>1 DEF Pending, Waiting, Holding, Inside, InFlight
      <4>. QED  BY <1>6, <3>1, <4>1 DEF RateInv, LocalOK
    <3>2. CASE r # q
      <4>1. UNCHANGED << Pending(r), Waiting(r), Holding(r), Inside(r) >>
        BY <1>6, <3>2 DEF Pending, Waiting, ActsAt, Holding, Inside
      <4>. QED  BY <1>6, <3>2, <4>1 DEF RateInv, LocalOK
    <3>. QED  BY <3>1, <3>2
  <2>. QED  BY <1>6, <2>1, AsideKeepsRate
<1>7. ASSUME NEW q \in Requests, Reserve(q)
      PROVE  RateInv'
  <2>1. Holding(q)
    BY <1>7 DEF Reserve, Holding
  <2>2. KeyLimit(key[q]).burst \in Nat /\ limiter[held[q]].burst = KeyLimit(key[q]).burst
    BY <2>1, HeldBucket, KeyLimitType
  <2>3. CASE KeyLimit(key[q]).burst >= 1
    BY <1>7, <2>3, ReserveKeepsRate
  <2>4. CASE ~(KeyLimit(key[q]).burst >= 1)
    <3>1. /\ ReservationOf(limiter[held[q]], clock) = NoReservation
          /\ AfterReserve(limiter[held[q]], clock) = limiter[held[q]]
      BY <2>2, <2>4 DEF ReservationOf, AfterReserve
    <3>2. /\ limiter' = limiter /\ ~rsv'[q].ok
          /\ pc[q] = "reserve" /\ pc' = [pc EXCEPT ![q] = "decide"]
          /\ UNCHANGED << clock, spent, limiterOf, used, key, action, stamp, held >>
          /\ \A r \in Requests \ {q} : rsv'[r] = rsv[r] /\ pc'[r] = pc[r]
      BY <1>7, <3>1, HeldBucket, <2>1 DEF Reserve, NoReservation, Typed, TypeOK, entryVars
    <3>3. ~Pending(q)' /\ ~Pending(q) /\ Inside(q)
      BY <3>2 DEF Pending, Inside, InFlight
    <3>. QED  BY <1>6, <2>1, <3>2, <3>3
  <2>. QED  BY <2>3, <2>4
<1>8. ASSUME NEW q \in Requests, Cancel(q)
      PROVE  RateInv'
  <2>1. CASE Pending(q)
    BY <1>8, <2>1, CancelKeepsRate
  <2>2. CASE ~Pending(q)
    <3>1. Holding(q) /\ ~rsv[q].ok
      BY <1>8, <2>2 DEF Cancel, Holding, Pending
    <3>2. AfterCancel(limiter[held[q]], rsv[q], clock) = limiter[held[q]]
      BY <3>1 DEF AfterCancel
    <3>3. limiter' = limiter
      BY <1>8, <3>1, <3>2, HeldBucket DEF Cancel, Typed, TypeOK
    <3>4. /\ ~Pending(q)' /\ ~Holding(q)' /\ ~Inside(q)'
          /\ UNCHANGED << clock, spent, limiterOf, used >>
          /\ \A r \in Requests \ {q} :
                UNCHANGED << pc[r], key[r], action[r], stamp[r], held[r], rsv[r] >>
      BY <1>8 DEF Cancel, Leave, Pending, Holding, Inside, InFlight, entryVars, Typed, TypeOK
    <3>. QED  BY <1>6, <2>2, <3>3, <3>4
  <2>. QED  BY <2>1, <2>2
<1>9. ASSUME GCTick \/ GCExit \/ UNCHANGED vars
             \/ \E s \in Stoppers : StopFirst(s) \/ StopAgain(s) \/ StopStep(s)
      PROVE  RateInv'
  BY <1>2, <1>9
  DEF GCTick, GCExit, vars, StopFirst, StopAgain, StopStep, StopDone, StopAgainDone, entryVars
<1>10. \A r \in Requests : ~(Refuse(r) /\ Found(r))
  BY DEF Refuse, Found, Typed, TypeOK
<1>. QED
  BY <1>1, <1>3, <1>4, <1>5, <1>7, <1>8, <1>9, <1>10, AdmitKeepsRate, SweepKeepsRate,
     TickKeepsRate
  DEF Next, RequestStep

(* The requests served for a key never exceed what one bucket that is      *)
(* never thrown away would have served, give or take MaxStall: evictions,  *)
(* refusals and concurrent reservations do not raise the rate limit.       *)
THEOREM AdmissionBoundHolds ==
    ASSUME KeysApart, RefillsInTime
    PROVE  Spec => []AdmissionBound
<1>1. Typed /\ RateInv => AdmissionBound
  <2>. SUFFICES ASSUME Typed, RateInv, NEW acct \in Accounts, NEW a \in AllActions,
                       NEW k \in Keys, k = acct \o a
                PROVE  spent[k] <= ResolveLimit(a).burst * ResolveLimit(a).interval + MaxStall
    BY DEF AdmissionBound
  <2>1. KeyLimit(k) = ResolveLimit(a)
    BY KeyLimitOf
  <2>2. clock \in Nat /\ clock \in Int /\ spent[k] \in Nat /\ MaxStall \in Nat /\ Full(k) \in Nat
    BY RateTyped
  <2>3. Cost(k, Early(k, 0, clock)) \in Nat
    BY EarlyInRequests, CostFacts
  <2>4. spent[k] + Cost(k, Early(k, 0, clock)) <= Full(k) + (clock - clock) + MaxStall
    BY <2>2 DEF RateInv, ServedOK
  <2>5. spent[k] <= Full(k) + MaxStall
    BY <2>2, <2>3, <2>4
  <2>. QED  BY <2>1, <2>5 DEF Full
<1>. QED
  BY <1>1, TypedInit, TypedStep, IInvInit, IInvStep, RateInit, RateStep, PTL DEF Spec

(* Account ids of one segment, as those without a colon are, tell the keys *)
(* apart.                                                                  *)
LEMMA PlainAccounts ==
    ASSUME \A acct \in Accounts : Len(acct) = 1
    PROVE  KeysApart
<1>. SUFFICES ASSUME NEW x \in Accounts, NEW y \in Accounts,
                     NEW a \in AllActions, NEW b \in AllActions, x \o a = y \o b
              PROVE  a = b
  BY DEF KeysApart, SameSetting
<1>1. PICK S : STRING \subseteq S /\ "unknown" \in S
  <2>1. STRING \subseteq STRING \cup {"unknown"} /\ "unknown" \in STRING \cup {"unknown"}
    OBVIOUS
  <2>. QED  BY <2>1
<1>2. x \in Seq(S) /\ y \in Seq(S) /\ a \in Seq(S) /\ b \in Seq(S)
  <2>1. Unknown \in Seq(S)
    BY <1>1 DEF Unknown
  <2>2. \A n \in Accounts \cup Actions : n \in Seq(S)
    BY <1>1, NameAssumption, SeqMonotonic
  <2>. QED  BY <2>1, <2>2 DEF AllActions
<1>3. Len(x) = 1 /\ Len(y) = 1
  OBVIOUS
<1>4. /\ Len(x \o a) = Len(x) + Len(a) /\ Len(y \o b) = Len(y) + Len(b)
      /\ \A i \in 1 .. (Len(x) + Len(a)) :
            (x \o a)[i] = IF i <= Len(x) THEN x[i] ELSE a[i - Len(x)]
      /\ \A i \in 1 .. (Len(y) + Len(b)) :
            (y \o b)[i] = IF i <= Len(y) THEN y[i] ELSE b[i - Len(y)]
  BY <1>2, ConcatProperties
<1>5. Len(a) \in Nat /\ Len(b) \in Nat
  BY <1>2, LenProperties
<1>6. Len(a) = Len(b)
  BY <1>3, <1>4, <1>5
<1>7. ASSUME NEW i \in 1 .. Len(a)
      PROVE  a[i] = b[i]
  <2>1. i + 1 \in 1 .. (1 + Len(a)) /\ ~(i + 1 <= 1) /\ (i + 1) - 1 = i
    BY <1>5
  <2>2. (x \o a)[i + 1] = a[i] /\ (y \o b)[i + 1] = b[i]
    BY <1>3, <1>4, <1>6, <2>1
  <2>. QED  BY <2>2
<1>. QED  BY <1>2, <1>6, <1>7, SeqEqual
----------------------------------------------------------------------------
(* What a client may count on.  A bucket's debt is what was served and     *)
(* what is reserved, so that a refusal costs nothing, on two conditions    *)
(* that the code does not ensure: the requests of a key come one at a      *)
(* time, and a request that is refused cancels its reservation before the  *)
(* time it was made for.  (A cancelled reservation gives back nothing once *)
(* that time has passed, and less once another has been made after it.)    *)
OneByOne ==
    \A p, q \in Requests : Inside(p) /\ Inside(q) /\ key[p] = key[q] => p = q

CancelledInTime == \A r \in Requests : pc[r] = "cancel" /\ rsv[r].ok => ActsAt(r) >= clock

(* No token of the key is reserved.                                        *)
Unreserved(k) == \A r \in Requests : Pending(r) => key[r] # k

Owing(r) ==
    /\ Debt(key[r]) <= spent[key[r]] + Interval(key[r])
    /\ limiter[held[r]].lastEvent = ActsAt(r)

OwedOK ==
    /\ \A k \in Keys : Unreserved(k) => Debt(k) <= spent[k]
    /\ \A r \in Requests : Pending(r) => Owing(r)

(* Steps that touch no reservation, and a bucket only by taking a full one *)
(* for it.                                                                 *)
LEMMA QuietKeepsOwed ==
    ASSUME Typed, OwedOK, spent' = spent,
           \A k \in Keys : Debt(k)' = Debt(k) \/ Debt(k)' = 0,
           \A r \in Requests :
              /\ Pending(r)' = Pending(r)
              /\ Pending(r) => UNCHANGED << key[r], rsv[r], held[r], limiter[held[r]] >>
    PROVE  OwedOK'
<1>1. ASSUME NEW k \in Keys, Unreserved(k)'
      PROVE  Debt(k)' <= spent[k]
  <2>1. Unreserved(k)
    BY <1>1 DEF Unreserved
  <2>2. Debt(k) <= spent[k] /\ spent[k] \in Nat
    BY <2>1, RateTyped DEF OwedOK
  <2>. QED  BY <2>2
<1>2. ASSUME NEW r \in Requests, Pending(r)'
      PROVE  Owing(r)'
  <2>1. Pending(r) /\ UNCHANGED << key[r], rsv[r], held[r], limiter[held[r]] >>
    BY <1>2
  <2>2. PICK k \in Keys : k = key[r]
    BY <2>1, PendingTyped
  <2>3. /\ Debt(k) <= spent[k] + Interval(k) /\ spent[k] \in Nat /\ Interval(k) \in Nat
        /\ limiter[held[r]].lastEvent = ActsAt(r)
    BY <2>1, <2>2, RateTyped DEF OwedOK, Owing
  <2>4. Debt(k)' <= spent[k] + Interval(k)
    BY <2>3
  <2>5. Debt(key[r])' = Debt(k)' /\ key'[r] = k
    BY <2>1, <2>2 DEF Debt
  <2>6. (limiter[held[r]].lastEvent = ActsAt(r))'
    BY <2>1, <2>3 DEF ActsAt
  <2>. QED  BY <2>4, <2>5, <2>6 DEF Owing
<1>. QED  BY <1>1, <1>2 DEF OwedOK

(* A reservation adds a token to the debt, which was what had been served. *)
LEMMA ReserveKeepsOwed ==
    ASSUME Typed, IInv, RateInv, OwedOK, OneByOne, NEW q \in Requests, Reserve(q),
           KeyLimit(key[q]).burst >= 1
    PROVE  OwedOK'
<1>0. Holding(q) /\ Inside(q) /\ ~Pending(q)
      /\ UNCHANGED << spent, limiterOf, key, held >>
  BY DEF Reserve, Holding, Inside, InFlight, Pending, entryVars
<1>1. /\ Pending(q)' /\ limiter'[held[q]].lastEvent = ActsAt(q)'
      /\ limiter'[held[q]].credit = limiter[held[q]].credit - Interval(key[q])
      /\ \A l \in Limiters : l # held[q] => limiter'[l] = limiter[l]
      /\ \A r \in Requests : r # q => UNCHANGED << Pending(r), ActsAt(r) >>
  BY ReserveFacts
<1>2. PICK k0 \in Keys : k0 = key[q]
  BY <1>0, HeldBucket
<1>3. ASSUME NEW r \in Requests, r # q, Pending(r)
      PROVE  key[r] # k0 /\ Inside(r) /\ Holding(r)
  BY <1>0, <1>2, <1>3 DEF OneByOne, Pending, Inside, InFlight, Holding
<1>4. Debt(k0) <= spent[k0]
  <2>1. Unreserved(k0)
    BY <1>0, <1>3 DEF Unreserved
  <2>. QED  BY <2>1 DEF OwedOK
<1>5. Debt(k0)' <= spent[k0] + Interval(k0)
  <2>1. /\ limiterOf[k0] = held[q] /\ held[q] # NoLimiter
        /\ Debt(k0) = Full(k0) - limiter[held[q]].credit /\ limiter[held[q]].credit \in Int
    BY <1>0, <1>2, HeldBucket
  <2>2. Debt(k0)' = Full(k0) - (limiter[held[q]].credit - Interval(k0))
    BY <1>0, <1>1, <1>2, <2>1 DEF Debt
  <2>3. Full(k0) \in Nat /\ Interval(k0) \in Nat /\ spent[k0] \in Nat
    BY RateTyped
  <2>. DEFINE c == limiter[held[q]].credit
  <2>4. c \in Int /\ Debt(k0) = Full(k0) - c /\ Debt(k0)' = Full(k0) - (c - Interval(k0))
    BY <2>1, <2>2
  <2>. HIDE DEF c
  <2>. QED  BY <1>4, <2>3, <2>4
<1>6. ASSUME NEW k \in Keys, k # k0
      PROVE  Debt(k)' = Debt(k)
  <2>1. limiterOf[k] # held[q]
    BY <1>0, <1>2, <1>6, HeldBucket
  <2>2. limiterOf[k] \in Limiters \cup {NoLimiter}
    BY DEF Typed, TypeOK
  <2>. QED  BY <1>0, <1>1, <2>1, <2>2 DEF Debt
<1>7. ASSUME NEW k \in Keys, Unreserved(k)'
      PROVE  Debt(k)' <= spent[k]
  <2>1. k # k0 /\ Unreserved(k)
    BY <1>0, <1>1, <1>2, <1>7 DEF Unreserved
  <2>. QED  BY <1>6, <2>1 DEF OwedOK
<1>8. ASSUME NEW r \in Requests, r # q, Pending(r)'
      PROVE  Owing(r)'
  <2>1. Pending(r) /\ ActsAt(r)' = ActsAt(r)
    BY <1>1, <1>8
  <2>2. key[r] # k0 /\ Holding(r)
    BY <1>3, <1>8, <2>1
  <2>3. key[r] \in Keys /\ held[r] \in Limiters /\ held[r] # held[q]
    BY <1>0, <1>2, <1>8, <2>2, HeldBucket
  <2>4. PICK k \in Keys : k = key[r]
    BY <2>3
  <2>5. Debt(k)' = Debt(k) /\ Debt(key[r])' = Debt(k)' /\ key'[r] = k
    BY <1>0, <1>6, <2>2, <2>4 DEF Debt
  <2>6. limiter'[held[r]] = limiter[held[r]] /\ held'[r] = held[r]
    BY <1>0, <1>1, <2>3
  <2>7. Debt(k) <= spent[k] + Interval(k) /\ limiter[held[r]].lastEvent = ActsAt(r)
    BY <2>1, <2>4 DEF OwedOK, Owing
  <2>. QED  BY <1>0, <2>1, <2>5, <2>6, <2>7 DEF Owing
<1>9. Owing(q)'
  <2>1. Debt(key[q])' = Debt(k0)'
    BY <1>0, <1>2 DEF Debt
  <2>. QED  BY <1>0, <1>1, <1>2, <1>5, <2>1 DEF Owing
<1>. QED  BY <1>0, <1>7, <1>8, <1>9 DEF OwedOK

(* A request that is answered takes its reservation away.                  *)
LEMMA AnswerKeepsOwed ==
    ASSUME Typed, IInv, RateInv, OwedOK, OneByOne, NEW q \in Requests, Pending(q),
           NEW answer \in {"served", "throttled"}, Leave(q, answer),
           UNCHANGED << clock, limiterOf, used >>,
           \A l \in Limiters : l # held[q] => limiter'[l] = limiter[l],
           \A k \in Keys : k # key[q] => spent'[k] = spent[k],
           Full(key[q]) - limiter'[held[q]].credit <= spent'[key[q]]
    PROVE  OwedOK'
<1>0. Holding(q) /\ Inside(q)
  BY DEF Pending, Holding, Inside, InFlight
<1>1. PICK k0 \in Keys : k0 = key[q]
  BY <1>0, HeldBucket
<1>2. ASSUME NEW r \in Requests
      PROVE  /\ Pending(r)' => r # q /\ Pending(r)
             /\ r # q => UNCHANGED << key[r], held[r], ActsAt(r), Pending(r) >>
  BY LeaveFacts
<1>3. ASSUME NEW r \in Requests, r # q, Pending(r)
      PROVE  key[r] # k0 /\ Holding(r)
  BY <1>0, <1>1, <1>3 DEF OneByOne, Pending, Inside, InFlight, Holding
<1>4. ASSUME NEW k \in Keys, k # k0
      PROVE  Debt(k)' = Debt(k) /\ spent'[k] = spent[k]
  <2>1. limiterOf[k] # held[q]
    BY <1>0, <1>1, <1>4, HeldBucket
  <2>2. limiterOf[k] \in Limiters \cup {NoLimiter}
    BY DEF Typed, TypeOK
  <2>. QED  BY <1>1, <1>4, <2>1, <2>2 DEF Debt
<1>5. Debt(k0)' <= spent'[k0]
  <2>1. limiterOf[k0] = held[q] /\ held[q] # NoLimiter
    BY <1>0, <1>1, HeldBucket
  <2>. QED  BY <1>1, <2>1 DEF Debt
<1>6. ASSUME NEW k \in Keys, Unreserved(k)'
      PROVE  Debt(k)' <= spent'[k]
  <2>1. CASE k = k0
    BY <1>5, <2>1
  <2>2. CASE k # k0
    <3>1. Unreserved(k)
      BY <1>1, <1>2, <1>6, <2>2 DEF Unreserved
    <3>. QED  BY <1>4, <2>2, <3>1 DEF OwedOK
  <2>. QED  BY <2>1, <2>2
<1>7. ASSUME NEW r \in Requests, Pending(r)'
      PROVE  Owing(r)'
  <2>1. r # q /\ Pending(r) /\ UNCHANGED << key[r], held[r], ActsAt(r) >>
    BY <1>2, <1>7
  <2>2. key[r] # k0 /\ Holding(r)
    BY <1>3, <2>1
  <2>3. key[r] \in Keys /\ held[r] \in Limiters /\ held[r] # held[q]
    BY <1>0, <1>1, <2>2, HeldBucket
  <2>4. PICK k \in Keys : k = key[r]
    BY <2>3
  <2>5. /\ Debt(k)' = Debt(k) /\ spent'[k] = spent[k]
        /\ Debt(key[r])' = Debt(k)' /\ key'[r] = k
    BY <1>4, <2>1, <2>2, <2>4 DEF Debt
  <2>6. limiter'[held[r]] = limiter[held[r]] /\ held'[r] = held[r]
    BY <2>1, <2>3
  <2>7. Debt(k) <= spent[k] + Interval(k) /\ limiter[held[r]].lastEvent = ActsAt(r)
    BY <2>1, <2>4 DEF OwedOK, Owing
  <2>. QED  BY <2>1, <2>5, <2>6, <2>7 DEF Owing
<1>. QED  BY <1>6, <1>7 DEF OwedOK

(* What is admitted is charged.                                            *)
LEMMA AdmitKeepsOwed ==
    ASSUME Typed, IInv, RateInv, OwedOK, OneByOne, NEW q \in Requests, Admit(q)
    PROVE  OwedOK'
<1>1. /\ Pending(q) /\ Holding(q) /\ Leave(q, "served")
      /\ UNCHANGED << clock, limiterOf, used, limiter >>
      /\ spent' = [spent EXCEPT ![key[q]] = @ + limiter[held[q]].interval]
  BY DEF Admit, MustWait, Pending, Holding, entryVars
<1>2. /\ key[q] \in Keys /\ limiter[held[q]].interval = Interval(key[q])
      /\ Debt(key[q]) = Full(key[q]) - limiter[held[q]].credit
  BY <1>1, HeldBucket
<1>3. /\ spent'[key[q]] = spent[key[q]] + Interval(key[q])
      /\ \A k \in Keys : k # key[q] => spent'[k] = spent[k]
  BY <1>1, <1>2 DEF Typed, TypeOK
<1>4. Debt(key[q]) <= spent[key[q]] + Interval(key[q])
  BY <1>1 DEF OwedOK, Owing
<1>5. Full(key[q]) - limiter'[held[q]].credit <= spent'[key[q]]
  BY <1>1, <1>2, <1>3, <1>4
<1>. QED  BY <1>1, <1>3, <1>5, AnswerKeepsOwed

(* A refused request gives back all that it reserved.                      *)
LEMMA CancelKeepsOwed ==
    ASSUME Typed, IInv, RateInv, OwedOK, OneByOne, CancelledInTime, NEW q \in Requests,
           Cancel(q), Pending(q)
    PROVE  OwedOK'
<1>. DEFINE lim == limiter[held[q]]
            i == Interval(key[q])
            t == rsv[q].timeToAct
            c == AtMost(Full(key[q]), lim.credit + i)
<1>1. /\ Holding(q) /\ Leave(q, "throttled") /\ clock \in Nat /\ spent' = spent
      /\ UNCHANGED << clock, limiterOf, used >> /\ pc[q] = "cancel"
      /\ limiter' = [limiter EXCEPT ![held[q]] = AfterCancel(lim, rsv[q], clock)]
  BY RateTyped DEF Cancel, Holding, entryVars
<1>2. /\ key[q] \in Keys /\ held[q] \in Limiters /\ lim \in Bucket /\ lim.interval = i
      /\ lim.credit \in Int /\ lim.credit <= Full(key[q])
      /\ Capacity(lim) = Full(key[q]) /\ i \in Nat \ {0} /\ Full(key[q]) \in Nat
      /\ Debt(key[q]) = Full(key[q]) - lim.credit
  BY <1>1, HeldBucket, KeyLimitType
<1>3. rsv[q].ok = TRUE /\ t \in Nat /\ t = ActsAt(q) /\ t >= clock
  BY <1>1, PendingTyped DEF Pending, ActsAt, Reservation, CancelledInTime
<1>4. lim.lastEvent = t /\ Debt(key[q]) <= spent[key[q]] + i
  BY <1>3 DEF OwedOK, Owing
<1>5. Restored(lim, rsv[q]) = i
  BY <1>2, <1>3, <1>4 DEF Restored
<1>. DEFINE e == IF t = lim.lastEvent /\ t - lim.interval >= clock
                 THEN t - lim.interval ELSE lim.lastEvent
<1>6. AfterCancel(lim, rsv[q], clock) = [lim EXCEPT !.credit = c, !.lastEvent = e]
  <2>1. ~(~rsv[q].ok \/ t < clock \/ Restored(lim, rsv[q]) <= 0)
    BY <1>1, <1>2, <1>3, <1>5
  <2>. QED  BY <1>2, <1>5, <2>1 DEF AfterCancel
<1>7. AfterCancel(lim, rsv[q], clock).credit = c
  <2>. HIDE DEF c, e
  <2>. QED  BY <1>2, <1>6 DEF Bucket
<1>8. /\ limiter'[held[q]].credit = c
      /\ \A l \in Limiters : l # held[q] => limiter'[l] = limiter[l]
  <2>. HIDE DEF c
  <2>. QED  BY <1>1, <1>2, <1>7 DEF Typed, TypeOK
<1>9. Full(key[q]) - c <= spent[key[q]]
  <2>1. spent[key[q]] \in Nat
    BY <1>2, RateTyped
  <2>. DEFINE x == lim.credit  f == Full(key[q])  z == spent[key[q]]  d == Debt(key[q])
  <2>2. x \in Int /\ f \in Nat /\ i \in Nat /\ z \in Nat /\ d = f - x /\ d <= z + i
    BY <1>2, <1>4, <2>1
  <2>3. c = IF f <= x + i THEN f ELSE x + i
    BY DEF AtMost
  <2>. HIDE DEF x, f, z, d, c, i
  <2>4. f - c <= z
    BY <2>2, <2>3
  <2>. QED  BY <2>4 DEF f, z
<1>10. Full(key[q]) - limiter'[held[q]].credit <= spent'[key[q]]
  BY <1>1, <1>8, <1>9
<1>. HIDE DEF c, lim, i, t
<1>. QED  BY <1>1, <1>8, <1>10, AnswerKeepsOwed

(* Time repays a debt and forgets what was spent at the same pace.         *)
LEMMA TickKeepsOwed ==
    ASSUME Typed, IInv, RateInv, OwedOK, Tick
    PROVE  OwedOK'
<1>1. UNCHANGED << limiterOf, localVars >>
  BY DEF Tick, entryVars
<1>2. ASSUME NEW k \in Keys, NEW n \in Nat, Debt(k) <= spent[k] + n
      PROVE  Debt(k)' <= spent'[k] + n
  <2>1. spent[k] \in Nat /\ Full(k) \in Nat /\ Debt(k) \in Int
    BY RateTyped
  <2>2. spent'[k] = IF spent[k] > 0 THEN spent[k] - 1 ELSE 0
    BY DEF Tick
  <2>3. CASE limiterOf[k] = NoLimiter
    <3>1. Debt(k)' = 0
      BY <1>1, <2>3 DEF Debt
    <3>. QED  BY <2>1, <2>2, <3>1
  <2>4. CASE limiterOf[k] # NoLimiter
    <3>. DEFINE lim == limiter[limiterOf[k]]
    <3>1. limiterOf[k] \in Limiters /\ lim \in Bucket
      BY <2>4 DEF Typed, TypeOK
    <3>2. Capacity(lim) = Full(k) /\ lim.credit \in Int
      BY <2>4, <3>1 DEF RateInv, BucketOK, Capacity, Full, Interval, Bucket
    <3>3. limiter'[limiterOf[k]] = Earn(lim)
      BY <3>1 DEF Tick
    <3>. DEFINE c == AtMost(Full(k), lim.credit + 1)
    <3>4. Earn(lim) = [lim EXCEPT !.credit = c]
      BY <3>2 DEF Earn
    <3>. HIDE DEF c
    <3>5. Earn(lim).credit = c
      BY <3>1, <3>4 DEF Bucket
    <3>. DEFINE x == lim.credit
    <3>6. Debt(k)' = Full(k) - c /\ Debt(k) = Full(k) - x /\ x \in Int
      BY <1>1, <2>4, <3>2, <3>3, <3>5 DEF Debt
    <3>7. c = IF Full(k) <= x + 1 THEN Full(k) ELSE x + 1
      BY DEF c, AtMost
    <3>. HIDE DEF x
    <3>. QED  BY <1>2, <2>1, <2>2, <3>6, <3>7
  <2>. QED  BY <2>3, <2>4
<1>3. ASSUME NEW k \in Keys, Unreserved(k)'
      PROVE  Debt(k)' <= spent'[k]
  <2>1. Unreserved(k)
    BY <1>1, <1>3 DEF Unreserved, Pending, localVars
  <2>2. Debt(k) <= spent[k] /\ spent[k] \in Nat
    BY <2>1, RateTyped DEF OwedOK
  <2>3. Debt(k)' <= spent'[k] + 0
    BY <1>2, <2>2
  <2>4. spent'[k] \in Nat
    BY <2>2 DEF Tick
  <2>. QED  BY <2>3, <2>4
<1>4. ASSUME NEW r \in Requests, Pending(r)'
      PROVE  Owing(r)'
  <2>1. Pending(r) /\ UNCHANGED << key[r], held[r], ActsAt(r) >>
    BY <1>1, <1>4 DEF Pending, ActsAt, localVars
  <2>2. PICK k \in Keys : k = key[r]
    BY <2>1, PendingTyped
  <2>3. Debt(k) <= spent[k] + Interval(k) /\ limiter[held[r]].lastEvent = ActsAt(r)
    BY <2>1, <2>2 DEF OwedOK, Owing
  <2>4. Interval(k) \in Nat /\ held[r] \in Limiters
    BY <2>1, RateTyped, PendingTyped
  <2>5. Debt(k)' <= spent'[k] + Interval(k)
    BY <1>2, <2>3, <2>4
  <2>6. limiter'[held[r]].lastEvent = limiter[held[r]].lastEvent
    BY <2>4, TickFacts
  <2>7. Debt(key[r])' = Debt(k)' /\ key'[r] = k
    BY <2>1, <2>2 DEF Debt
  <2>. QED  BY <2>1, <2>3, <2>5, <2>6, <2>7 DEF Owing
<1>. QED  BY <1>3, <1>4 DEF OwedOK

(* Every step keeps OwedOK.                                                *)
LEMMA OwedStep ==
    ASSUME KeysApart
    PROVE  Typed /\ IInv /\ RateInv /\ OneByOne /\ CancelledInTime /\ OwedOK /\ [Next]_vars
               => OwedOK'
<1>. SUFFICES ASSUME Typed, IInv, RateInv, OneByOne, CancelledInTime, OwedOK, [Next]_vars
              PROVE  OwedOK'
  OBVIOUS
<1>1. ASSUME NEW q \in Requests, NEW acct \in Accounts \cup {EmptyName, KeyError},
             NEW act \in Actions \cup {EmptyName, Absent, KeyError},
             Arrive(q, acct, act)
      PROVE  OwedOK'
  <2>1. UNCHANGED << spent, limiterOf, limiter, held, rsv >>
    BY <1>1 DEF Arrive, entryVars
  <2>2. ASSUME NEW r \in Requests
        PROVE  /\ Pending(r)' = Pending(r) /\ (Pending(r) => key'[r] = key[r])
    BY <1>1, <2>1 DEF Arrive, Typed, TypeOK, Finished, Pending
  <2>3. \A k \in Keys : Debt(k)' = Debt(k)
    BY <2>1 DEF Debt
  <2>. QED  BY <2>1, <2>2, <2>3, QuietKeepsOwed
<1>2. ASSUME UNCHANGED << spent, limiterOf, limiter, localVars >>
      PROVE  OwedOK'
  <2>1. \A r \in Requests : Pending(r)' = Pending(r)
    BY <1>2 DEF Pending, localVars
  <2>2. \A k \in Keys : Debt(k)' = Debt(k)
    BY <1>2 DEF Debt
  <2>3. UNCHANGED << key, rsv, held, limiter >>
    BY <1>2 DEF localVars
  <2>. QED  BY <1>2, <2>1, <2>2, <2>3, QuietKeepsOwed
<1>3. ASSUME NEW q \in Requests, Lookup(q) \/ Insert(q) \/ Refuse(q)
      PROVE  OwedOK'
  <2>1. /\ UNCHANGED << spent, key, rsv >>
        /\ \A r \in Requests : Pending(r)' = Pending(r) /\ (Pending(r) => held'[r] = held[r])
    <3>1. CASE Refuse(q)
      BY <3>1 DEF Refuse, Pending, Typed, TypeOK
    <3>2. CASE Lookup(q) \/ Insert(q)
      <4>1. /\ UNCHANGED << spent, key, rsv >> /\ pc[q] \in {"lookup", "insert"}
            /\ pc' \in {[pc EXCEPT ![q] = "reserve"], [pc EXCEPT ![q] = "insert"]}
            /\ \A r \in Requests : r # q => held'[r] = held[r]
        BY <3>2 DEF Lookup, Insert, Found, Create, Typed, TypeOK
      <4>2. \A r \in Requests : r # q => pc'[r] = pc[r]
        BY <4>1 DEF Typed, TypeOK
      <4>3. pc'[q] \in {"reserve", "insert"}
        BY <4>1 DEF Typed, TypeOK
      <4>. QED  BY <4>1, <4>2, <4>3 DEF Pending
    <3>. QED  BY <1>3, <3>1, <3>2
  <2>2. CASE UNCHANGED << limiterOf, limiter >>
    <3>1. \A k \in Keys : Debt(k)' = Debt(k)
      BY <2>2 DEF Debt
    <3>. QED  BY <2>1, <2>2, <3>1, QuietKeepsOwed
  <2>3. CASE ~UNCHANGED << limiterOf, limiter >>
    <3>1. Create(q) /\ limiterOf[key[q]] = NoLimiter /\ pc[q] = "insert"
      BY <1>3, <2>3 DEF Lookup, Insert, Refuse, Found, entryVars
    <3>2. PICK l \in Limiters :
            /\ Fresh(l)
            /\ limiter' = [limiter EXCEPT ![l] = NewLimiter(ResolveLimit(action[q]))]
            /\ limiterOf' = [limiterOf EXCEPT ![key[q]] = l]
      BY <3>1 DEF Create
    <3>3. \A r \in Requests : Pending(r) => limiter'[held[r]] = limiter[held[r]]
      BY <3>2, PendingTyped DEF Fresh, Typed, TypeOK
    <3>4. ASSUME NEW k \in Keys PROVE Debt(k)' = Debt(k) \/ Debt(k)' = 0
      <4>1. CASE k # key[q]
        <5>1. limiterOf'[k] = limiterOf[k] /\ limiter'[limiterOf'[k]] = limiter[limiterOf[k]]
          BY <3>2, <4>1 DEF Fresh, Typed, TypeOK
        <5>. QED  BY <5>1 DEF Debt
      <4>2. CASE k = key[q]
        <5>1. limiterOf'[k] = l /\ l # NoLimiter
          BY <3>2, <4>2, DistinctAssumption DEF Typed, TypeOK
        <5>2. limiter'[l].credit = ResolveLimit(action[q]).burst * ResolveLimit(action[q]).interval
          <6>1. limiter'[l] = NewLimiter(ResolveLimit(action[q]))
            BY <3>2 DEF Typed, TypeOK
          <6>. QED  BY <6>1 DEF NewLimiter
        <5>3. Inside(q) /\ action[q] \in AllActions
          BY <3>1 DEF Typed, TypeOK, Inside, InFlight
        <5>4. PICK acct \in Accounts : key[q] = acct \o action[q]
          BY <5>3 DEF RateInv, LocalOK
        <5>5. KeyLimit(k) = ResolveLimit(action[q])
          BY <4>2, <5>3, <5>4, KeyLimitOf
        <5>6. Debt(k)' = Full(k) - Full(k) /\ Full(k) \in Nat
          BY <5>1, <5>2, <5>5, KeyLimitType DEF Debt, Full
        <5>. QED  BY <5>6
      <4>. QED  BY <4>1, <4>2
    <3>. QED  BY <2>1, <3>3, <3>4, QuietKeepsOwed
  <2>. QED  BY <2>2, <2>3
<1>4. ASSUME NEW q \in Requests, Reserve(q) \/ Cancel(q), ~Pending(q), ~Pending(q)'
      PROVE  OwedOK'
  <2>1. Holding(q) /\ held[q] \in Limiters
    <3>1. Holding(q)
      BY <1>4 DEF Reserve, Cancel, Holding
    <3>. QED  BY <3>1, HeldBucket
  <2>2. limiter' = limiter
    <3>1. CASE Reserve(q)
      <4>1. rsv'[q] = ReservationOf(limiter[held[q]], clock) /\ pc'[q] = "decide"
        BY <3>1 DEF Reserve, Typed, TypeOK
      <4>2. limiter[held[q]].burst < 1
        BY <1>4, <4>1 DEF Pending, ReservationOf
      <4>. QED  BY <2>1, <3>1, <4>2 DEF Reserve, AfterReserve, Typed, TypeOK
    <3>2. CASE Cancel(q)
      <4>1. ~rsv[q].ok
        BY <1>4, <3>2 DEF Cancel, Pending
      <4>. QED  BY <2>1, <3>2, <4>1 DEF Cancel, AfterCancel, Typed, TypeOK
    <3>. QED  BY <1>4, <3>1, <3>2
  <2>3. /\ UNCHANGED << spent, limiterOf >>
        /\ \A r \in Requests : r # q => UNCHANGED << pc[r], key[r], rsv[r], held[r] >>
    BY <1>4 DEF Reserve, Cancel, Leave, entryVars, Typed, TypeOK
  <2>4. \A k \in Keys : Debt(k)' = Debt(k)
    BY <2>2, <2>3 DEF Debt
  <2>5. \A r \in Requests : r # q => Pending(r)' = Pending(r)
    BY <2>3 DEF Pending
  <2>6. ASSUME NEW r \in Requests
        PROVE  /\ Pending(r)' = Pending(r)
               /\ Pending(r) => UNCHANGED << key[r], rsv[r], held[r], limiter[held[r]] >>
    <3>1. CASE r = q
      BY <1>4, <3>1 DEF Pending
    <3>2. CASE r # q
      BY <2>2, <2>3, <2>5, <3>2
    <3>. QED  BY <3>1, <3>2
  <2>. QED  BY <2>3, <2>4, <2>6, QuietKeepsOwed
<1>5. ASSUME NEW q \in Requests, Reserve(q)
      PROVE  OwedOK'
  <2>1. ~Pending(q) /\ Holding(q)
    BY <1>5 DEF Reserve, Pending, Holding
  <2>2. CASE Pending(q)'
    <3>1. rsv'[q] = ReservationOf(limiter[held[q]], clock)
      BY <1>5 DEF Reserve, Typed, TypeOK
    <3>2. ~(limiter[held[q]].burst < 1)
      BY <2>2, <3>1 DEF Pending, ReservationOf, NoReservation
    <3>3. KeyLimit(key[q]).burst \in Nat /\ limiter[held[q]].burst = KeyLimit(key[q]).burst
      BY <2>1, HeldBucket, KeyLimitType
    <3>4. KeyLimit(key[q]).burst >= 1
      BY <3>2, <3>3
    <3>. QED  BY <1>5, <3>4, ReserveKeepsOwed
  <2>. QED  BY <1>4, <1>5, <2>1, <2>2
<1>6. ASSUME NEW q \in Requests, Cancel(q)
      PROVE  OwedOK'
  <2>1. ~Pending(q)'
    BY <1>6 DEF Cancel, Leave, Pending, Typed, TypeOK
  <2>. QED  BY <1>4, <1>6, <2>1, CancelKeepsOwed
<1>7. CASE GCSweep
  <2>1. UNCHANGED << spent, limiter, localVars >>
    BY <1>7 DEF GCSweep
  <2>2. ASSUME NEW k \in Keys PROVE Debt(k)' = Debt(k) \/ Debt(k)' = 0
    BY <1>7, <2>1 DEF GCSweep, Debt
  <2>3. \A r \in Requests : Pending(r)' = Pending(r)
    BY <2>1 DEF Pending, localVars
  <2>4. UNCHANGED << key, rsv, held, limiter >>
    BY <2>1 DEF localVars
  <2>. QED  BY <2>1, <2>2, <2>3, <2>4, QuietKeepsOwed
<1>8. ASSUME GCTick \/ GCExit \/ UNCHANGED vars
             \/ \E s \in Stoppers : StopFirst(s) \/ StopAgain(s) \/ StopStep(s)
      PROVE  OwedOK'
  BY <1>2, <1>8
  DEF GCTick, GCExit, vars, StopFirst, StopAgain, StopStep, StopDone, StopAgainDone, entryVars
<1>. QED
  BY <1>1, <1>3, <1>5, <1>6, <1>7, <1>8, AdmitKeepsOwed, TickKeepsOwed
  DEF Next, RequestStep

(* A bucket gives no reservation at all only when it is of size zero.      *)
NeverOK ==
    \A r \in Requests : pc[r] = "decide" /\ ~rsv[r].ok => KeyLimit(key[r]).burst < 1

LEMMA NeverStep == Typed /\ IInv /\ RateInv /\ NeverOK /\ [Next]_vars => NeverOK'
<1>. SUFFICES ASSUME Typed, IInv, RateInv, NeverOK, [Next]_vars, NEW r \in Requests,
                     pc'[r] = "decide", ~rsv'[r].ok
              PROVE  KeyLimit(key'[r]).burst < 1
  BY DEF NeverOK, KeyLimit
<1>1. CASE Reserve(r)
  <2>1. Holding(r) /\ key' = key /\ rsv'[r] = ReservationOf(limiter[held[r]], clock)
    BY <1>1 DEF Reserve, Holding, entryVars, Typed, TypeOK
  <2>2. limiter[held[r]].burst < 1
    BY <2>1 DEF ReservationOf
  <2>. QED  BY <2>1, <2>2, HeldBucket
<1>2. CASE ~Reserve(r)
  <2>1. pc[r] = "decide" /\ rsv'[r] = rsv[r] /\ key'[r] = key[r]
    <3>1. ASSUME NEW q \in Requests, NEW acct \in Accounts \cup {EmptyName, KeyError},
                 NEW act \in Actions \cup {EmptyName, Absent, KeyError}, Arrive(q, acct, act)
          PROVE  pc[r] = "decide" /\ rsv'[r] = rsv[r] /\ key'[r] = key[r]
      BY <3>1 DEF Arrive, Typed, TypeOK
    <3>2. ASSUME NEW q \in Requests, RequestStep(q)
          PROVE  pc[r] = "decide" /\ rsv'[r] = rsv[r] /\ key'[r] = key[r]
      <4>1. CASE Lookup(q) \/ Insert(q) \/ Refuse(q)
        BY <4>1 DEF Lookup, Insert, Refuse, Found, Create, Typed, TypeOK
      <4>2. CASE Reserve(q)
        BY <1>2, <4>2 DEF Reserve, Typed, TypeOK
      <4>3. CASE Admit(q) \/ Cancel(q)
        BY <4>3 DEF Admit, Cancel, Leave, Typed, TypeOK
      <4>. QED  BY <3>2, <4>1, <4>2, <4>3 DEF RequestStep
    <3>3. ASSUME UNCHANGED localVars
          PROVE  pc[r] = "decide" /\ rsv'[r] = rsv[r] /\ key'[r] = key[r]
      BY <3>3 DEF localVars
    <3>. QED
      BY <3>1, <3>2, <3>3
      DEF Next, GCTick, GCSweep, GCExit, StopFirst, StopAgain, StopStep, StopDone,
          StopAgainDone, Tick, vars
  <2>. QED  BY <2>1 DEF NeverOK
<1>. QED  BY <1>1, <1>2

(* The proved form of RefusedOnlyWhenSpent: as long as the requests of a   *)
(* key come one at a time and a refusal cancels in time, no request is     *)
(* refused whose token the ideal bucket holds, for any number of requests  *)
(* and keys, across earlier refusals and evictions.                        *)
THEOREM RefusedOnlyWhenSpentHolds ==
    ASSUME KeysApart, RefillsInTime
    PROVE  Spec /\ [](OneByOne /\ CancelledInTime) => RefusedOnlyWhenSpent
<1>. DEFINE Spent(r) ==
              LET limit == ResolveLimit(action[r])
              IN  spent[key[r]] + Cardinality(Undecided(key[r])) * limit.interval
                      > limit.burst * limit.interval
<1>. DEFINE Refused == \A r \in Requests : (pc[r] = "decide" /\ pc'[r] = "cancel") => Spent(r)
<1>1. Init => OwedOK /\ NeverOK
  <2>. SUFFICES ASSUME Init PROVE OwedOK /\ NeverOK
    OBVIOUS
  <2>1. /\ \A k \in Keys : limiterOf[k] = NoLimiter /\ spent[k] = 0
        /\ \A r \in Requests : ~Pending(r)
    BY DEF Init, Pending
  <2>2. \A k \in Keys : Debt(k) = 0
    BY <2>1 DEF Debt
  <2>3. NeverOK
    BY DEF Init, NeverOK
  <2>. QED  BY <2>1, <2>2, <2>3 DEF OwedOK
<1>2. Typed /\ IInv /\ RateInv /\ OwedOK /\ NeverOK /\ [Next]_vars => [Refused]_vars
  <2>. SUFFICES ASSUME Typed, IInv, RateInv, OwedOK, NeverOK, [Next]_vars, NEW r \in Requests,
                       pc[r] = "decide", pc'[r] = "cancel"
                PROVE  Spent(r)
    OBVIOUS
  <2>1. Refuse(r)
    <3>1. \E q \in Requests : Refuse(q) /\ pc'[q] # pc[q] /\ pc' = [pc EXCEPT ![q] = "cancel"]
      BY DEF Next, RequestStep, Arrive, Lookup, Insert, Found, Create, Reserve, Admit, Leave,
             Refuse, Cancel, GCTick, GCSweep, GCExit, StopFirst, StopAgain, StopStep, StopDone,
             StopAgainDone, Tick, vars, localVars, Typed, TypeOK
    <3>. QED  BY <3>1 DEF Typed, TypeOK
  <2>2. Holding(r) /\ Inside(r) /\ action[r] \in AllActions /\ MustWait(rsv[r], clock)
    BY <2>1 DEF Refuse, Holding, Inside, InFlight, Typed, TypeOK
  <2>3. PICK k \in Keys : k = key[r]
    BY <2>2, HeldBucket
  <2>4. KeyLimit(k) = ResolveLimit(action[r])
    <3>1. PICK acct \in Accounts : key[r] = acct \o action[r]
      BY <2>2 DEF RateInv, LocalOK
    <3>. QED  BY <2>2, <2>3, <3>1, KeyLimitOf
  <2>5. /\ spent[k] \in Nat /\ Full(k) \in Nat /\ Interval(k) \in Nat \ {0}
        /\ KeyLimit(k).burst \in Nat /\ clock \in Nat
    BY RateTyped, KeyLimitType
  <2>6. spent[k] + Interval(k) > Full(k)
    <3>1. CASE rsv[r].ok
      <4>1. Pending(r) /\ ActsAt(r) > clock /\ ActsAt(r) \in Nat
        <5>1. Pending(r) /\ ActsAt(r) > clock
          BY <2>2, <3>1 DEF Pending, MustWait, ActsAt
        <5>. QED  BY <5>1, PendingTyped
      <4>2. limiter[held[r]].credit <= clock - ActsAt(r)
        BY <4>1 DEF RateInv, LocalOK, Waiting
      <4>3. Debt(k) = Full(k) - limiter[held[r]].credit /\ limiter[held[r]].credit \in Int
        BY <2>2, <2>3, HeldBucket
      <4>4. Debt(k) <= spent[k] + Interval(k)
        BY <2>3, <4>1 DEF OwedOK, Owing
      <4>. DEFINE c == limiter[held[r]].credit  t == ActsAt(r)
      <4>5. c \in Int /\ t \in Nat /\ t > clock /\ c <= clock - t /\ Debt(k) = Full(k) - c
        BY <4>1, <4>2, <4>3
      <4>. HIDE DEF c, t
      <4>. QED  BY <2>5, <4>4, <4>5
    <3>2. CASE ~rsv[r].ok
      <4>1. KeyLimit(k).burst < 1
        BY <2>3, <3>2 DEF NeverOK
      <4>2. Full(k) = 0
        <5>1. KeyLimit(k).burst = 0
          BY <2>5, <4>1
        <5>2. KeyLimit(k).interval \in Nat
          BY <2>5 DEF Interval
        <5>3. 0 * KeyLimit(k).interval = 0
          BY <5>2
        <5>. QED  BY <5>1, <5>3 DEF Full
      <4>. QED  BY <2>5, <4>2
    <3>. QED  BY <3>1, <3>2
  <2>7. Cardinality(Undecided(k)) \in Nat /\ Cardinality(Undecided(k)) >= 1
    <3>1. Undecided(k) \subseteq Requests /\ r \in Undecided(k)
      BY <2>3 DEF Undecided
    <3>2. IsFiniteSet(Undecided(k))
      BY <3>1, RequestsAssumption, FS_Subset
    <3>. QED  BY <3>1, <3>2, FS_CardinalityType, FS_EmptySet
  <2>8. Cardinality(Undecided(k)) * Interval(k) >= Interval(k)
        /\ Cardinality(Undecided(k)) * Interval(k) \in Nat
    <3>. DEFINE n == Cardinality(Undecided(k))  i == Interval(k)
    <3>1. n \in Nat /\ n >= 1 /\ i \in Nat
      BY <2>5, <2>7
    <3>. HIDE DEF n, i
    <3>2. n * i >= i /\ n * i \in Nat
      BY <3>1
    <3>. QED  BY <3>2 DEF n, i
  <2>9. spent[k] + Cardinality(Undecided(k)) * Interval(k) > Full(k)
    BY <2>5, <2>6, <2>8
  <2>. QED  BY <2>3, <2>4, <2>9 DEF Full, Interval
<1>3. [Refused]_vars => [\A r \in Requests :
          (pc[r] = "decide" /\ pc'[r] = "cancel") =>
              LET limit == ResolveLimit(action[r])
              IN  spent[key[r]] + Cardinality(Undecided(key[r])) * limit.interval
                      > limit.burst * limit.interval]_vars
  OBVIOUS
<1>. HIDE DEF Refused
<1>. QED
  BY <1>1, <1>2, <1>3, TypedInit, TypedStep, IInvInit, IInvStep, RateInit, RateStep, OwedStep,
     NeverStep, PTL
  DEF Spec, RefusedOnlyWhenSpent
=============================================================================
