----------------------------- MODULE Throttler -----------------------------
(***************************************************************************)
(* The request throttler of pkg/ratelimit: HTTP requests draw tokens from  *)
(* per-key buckets kept in a map, a goroutine evicts the buckets that have *)
(* gone idle, and Stop ends that goroutine.                                *)
(*                                                                         *)
(* Time is an integer clock.  Each step between two lock operations (or    *)
(* clock reads that another step may separate) is one action, so that      *)
(* requests, the collector, Stop and the clock interleave as goroutines do.*)
(* A section under t.mu is one action, and so is each call on a            *)
(* rate.Limiter, which takes the limiter's own mutex.                      *)
(*                                                                         *)
(* A name is the sequence of its colon-separated segments, so that joining *)
(* two names with ":" is concatenation and the empty name is << "" >>.     *)
(***************************************************************************)
EXTENDS Integers, Sequences, FiniteSets

CONSTANTS
    Requests,      \* goroutines serving HTTP requests, each one after another
    Stoppers,      \* goroutines that call Stop
    Accounts,      \* account ids the first KeyFunc may return
    Actions,       \* action names the second KeyFunc may return
    Limiters,      \* identities of rate.Limiter objects
    DefaultLimit,  \* Config.Rate and Config.Burst
    ActionLimit,   \* Config.Action: a function from action names
    GCInterval,    \* gcInterval, in clock units
    StaleAfter,    \* staleAfter, in clock units
    MaxStall,      \* longest time one request spends inside the throttler
    PromptGC,      \* TRUE: the collector is done with a tick before the next
    MaxTime,       \* bound on the clock
    MaxDebt,       \* bound on a bucket's debt when a request arrives
    KeyError,      \* a KeyFunc returned an error
    Absent,        \* there is no second KeyFunc
    NoLimiter      \* no entry in the map, or nothing held

EmptyName == << "" >>
NoKey     == << >>       \* not a name: a request that is not inside
Unknown   == << "unknown" >>

AllActions == Actions \cup {Unknown}
Keys == { p[1] \o p[2] : p \in Accounts \X AllActions }

(* A limit is a bucket's setting: one token every `interval' units of time,*)
(* at most `burst' of them saved up.                                       *)
Limit == [interval : Nat \ {0}, burst : Nat]

ASSUME TimingAssumption ==
    /\ GCInterval \in Nat \ {0}
    /\ StaleAfter \in Nat
    /\ MaxStall \in Nat
    /\ MaxTime \in Nat
    /\ MaxDebt \in Nat
    /\ PromptGC \in BOOLEAN

(* A request is through the throttler well before its entry can go stale.  *)
(* The factor is two because lastSeen is overwritten with the time the     *)
(* writer read before it took the lock, so it may move back by MaxStall.   *)
ASSUME StallAssumption == 2 * MaxStall <= StaleAfter

ASSUME RequestsAssumption == IsFiniteSet(Requests)

ASSUME NameAssumption ==
    /\ \A a \in Accounts : a \in Seq(STRING) /\ a # EmptyName
    /\ \A a \in Actions : a \in Seq(STRING) /\ a # EmptyName

ASSUME LimitAssumption ==
    /\ DefaultLimit \in Limit
    /\ DOMAIN ActionLimit \subseteq AllActions
    /\ \A a \in DOMAIN ActionLimit : ActionLimit[a] \in Limit

ASSUME DistinctAssumption ==
    /\ NoLimiter \notin Limiters
    /\ {KeyError, Absent} \cap (Accounts \cup AllActions \cup {EmptyName}) = {}

VARIABLES
    clock,        \* the time
    tickPending,  \* ticker.C holds a tick
    gcPc,         \* where the collector is: "select", "sweep" or "exited"
    cutoff,       \* the collector's local cutoff
    cancelled,    \* ctx is cancelled
    stopPc,       \* where each caller of Stop is
    limiterOf,    \* t.entries: the limiter of each key, or NoLimiter
    lastSeen,     \* t.entries: lastSeen of each key's entry
    limiter,      \* the state of each rate.Limiter
    pc,           \* where each request is
    key,          \* its local key
    action,       \* its local action
    stamp,        \* its local now
    held,         \* the limiter getOrCreate returned to it
    rsv,          \* its reservation
    used,         \* history: when a request last found or made the entry
    spent         \* history: an ideal bucket per key, in units of time

gcVars     == << tickPending, gcPc, cutoff >>
stopVars   == << cancelled, stopPc >>
entryVars  == << limiterOf, lastSeen, used >>
localVars  == << pc, key, action, stamp, held, rsv >>
vars == << clock, gcVars, stopVars, entryVars, limiter, localVars, spent >>

Finished == {"idle", "served", "throttled"}
InFlight == {"lookup", "insert", "reserve", "decide", "cancel"}
Inside(r) == pc[r] \in InFlight
----------------------------------------------------------------------------
(* Config.ResolveLimit.                                                    *)

ResolveLimit(a) == IF a \in DOMAIN ActionLimit THEN ActionLimit[a] ELSE DefaultLimit

(* golang.org/x/time/rate, as the middleware uses it.  Tokens are counted  *)
(* in the time it takes to earn them: a bucket of `credit' c holds         *)
(* c / interval tokens and earns one unit of credit per unit of time, up   *)
(* to its capacity.  (The library adds up what was earned at the next call *)
(* on the bucket; Tick adds it at once, which comes to the same.)          *)
(* A reservation of a token may overdraw the bucket; it may be acted upon  *)
(* once the debt is repaid.                                                *)

AtMost(x, y) == IF x <= y THEN x ELSE y
Capacity(lim) == lim.burst * lim.interval
Bucket == [interval : Nat \ {0}, burst : Nat, credit : Int, lastEvent : Nat]
Reservation == [ok : BOOLEAN, timeToAct : Nat]
NoReservation == [ok |-> FALSE, timeToAct |-> 0]

NewLimiter(limit) ==
    [interval |-> limit.interval, burst |-> limit.burst,
     credit |-> limit.burst * limit.interval, lastEvent |-> 0]

Earn(lim) == [lim EXCEPT !.credit = AtMost(Capacity(lim), @ + 1)]

ReservationOf(lim, t) ==
    LET left == lim.credit - lim.interval
    IN  IF lim.burst < 1
        THEN NoReservation
        ELSE [ok |-> TRUE, timeToAct |-> IF left < 0 THEN t - left ELSE t]

AfterReserve(lim, t) ==
    IF lim.burst < 1
    THEN lim
    ELSE [lim EXCEPT !.credit = @ - lim.interval,
                     !.lastEvent = ReservationOf(lim, t).timeToAct]

MustWait(rv, t) == ~rv.ok \/ rv.timeToAct > t

(* What a cancelled reservation gives back: its token less what was        *)
(* reserved after it, and nothing once it could have been acted upon.      *)
Restored(lim, rv) == lim.interval - (lim.lastEvent - rv.timeToAct)

NothingRestored(lim, rv, t) == lim

AfterCancel(lim, rv, t) ==
    LET prev == rv.timeToAct - lim.interval
    IN  IF ~rv.ok \/ rv.timeToAct < t \/ Restored(lim, rv) <= 0
        THEN lim
        ELSE [lim EXCEPT !.credit = AtMost(Capacity(lim), @ + Restored(lim, rv)),
                         !.lastEvent = IF rv.timeToAct = @ /\ prev >= t THEN prev ELSE @]
----------------------------------------------------------------------------
(* A request.                                                              *)

(* The middleware runs the KeyFuncs in order; an error, or an empty        *)
(* account id, lets the request through without touching the map.          *)
FailsOpen(acct, act) == acct = KeyError \/ acct = EmptyName \/ act = KeyError

EmptyActionKept(act) == IF act = Absent THEN Unknown ELSE act

ActionOf(act) == IF act \in {Absent, EmptyName} THEN Unknown ELSE act

KeyOf(acct, act) == acct \o ActionOf(act)

(* Middleware up to getOrCreate, and getOrCreate's reading of the clock.   *)
Arrive(r, acct, act) ==
    /\ pc[r] \in Finished
    /\ IF FailsOpen(acct, act)
       THEN /\ pc' = [pc EXCEPT ![r] = "served"]
            /\ UNCHANGED << key, action, stamp >>
       ELSE /\ \A l \in Limiters : limiter[l].credit >= -MaxDebt
            /\ pc' = [pc EXCEPT ![r] = "lookup"]
            /\ key' = [key EXCEPT ![r] = KeyOf(acct, act)]
            /\ action' = [action EXCEPT ![r] = ActionOf(act)]
            /\ stamp' = [stamp EXCEPT ![r] = clock]
    /\ UNCHANGED << clock, gcVars, stopVars, entryVars, limiter, held, rsv, spent >>

FoundNotTouched(r) ==
    /\ limiterOf[key[r]] # NoLimiter
    /\ held' = [held EXCEPT ![r] = limiterOf[key[r]]]
    /\ pc' = [pc EXCEPT ![r] = "reserve"]
    /\ used' = [used EXCEPT ![key[r]] = clock]
    /\ UNCHANGED << limiterOf, limiter, lastSeen >>

(* An entry is found: its lastSeen becomes the time the request read.      *)
Found(r) ==
    /\ limiterOf[key[r]] # NoLimiter
    /\ held' = [held EXCEPT ![r] = limiterOf[key[r]]]
    /\ pc' = [pc EXCEPT ![r] = "reserve"]
    /\ lastSeen' = [lastSeen EXCEPT ![key[r]] = stamp[r]]
    /\ used' = [used EXCEPT ![key[r]] = clock]
    /\ UNCHANGED << limiterOf, limiter >>

(* The section of getOrCreate under the read lock.                         *)
Lookup(r) ==
    /\ pc[r] = "lookup"
    /\ \/ Found(r)
       \/ /\ limiterOf[key[r]] = NoLimiter
          /\ pc' = [pc EXCEPT ![r] = "insert"]
          /\ UNCHANGED << held, entryVars, limiter >>
    /\ UNCHANGED << clock, gcVars, stopVars, key, action, stamp, rsv, spent >>

(* A limiter that neither the map nor a request refers to: a new object.   *)
Fresh(l) == /\ \A k \in Keys : limiterOf[k] # l
            /\ \A r \in Requests : held[r] # l

(* A new entry for the request's key, with a full bucket.                  *)
Create(r) ==
    \E l \in Limiters :
        /\ Fresh(l)
        /\ limiter' = [limiter EXCEPT ![l] = NewLimiter(ResolveLimit(action[r]))]
        /\ limiterOf' = [limiterOf EXCEPT ![key[r]] = l]
        /\ lastSeen' = [lastSeen EXCEPT ![key[r]] = stamp[r]]
        /\ used' = [used EXCEPT ![key[r]] = clock]
        /\ held' = [held EXCEPT ![r] = l]
        /\ pc' = [pc EXCEPT ![r] = "reserve"]

InsertUnchecked(r) ==
    /\ pc[r] = "insert"
    /\ Create(r)
    /\ UNCHANGED << clock, gcVars, stopVars, key, action, stamp, rsv, spent >>

(* The section of getOrCreate under the write lock, which looks again.     *)
Insert(r) ==
    /\ pc[r] = "insert"
    /\ \/ Found(r)
       \/ limiterOf[key[r]] = NoLimiter /\ Create(r)
    /\ UNCHANGED << clock, gcVars, stopVars, key, action, stamp, rsv, spent >>

Reserve(r) ==
    /\ pc[r] = "reserve"
    /\ rsv' = [rsv EXCEPT ![r] = ReservationOf(limiter[held[r]], clock)]
    /\ limiter' = [limiter EXCEPT ![held[r]] = AfterReserve(@, clock)]
    /\ pc' = [pc EXCEPT ![r] = "decide"]
    /\ UNCHANGED << clock, gcVars, stopVars, entryVars, key, action, stamp, held, spent >>

(* The request leaves the throttler with the given answer.                 *)
Leave(r, answer) ==
    /\ pc' = [pc EXCEPT ![r] = answer]
    /\ key' = [key EXCEPT ![r] = NoKey]
    /\ action' = [action EXCEPT ![r] = Unknown]
    /\ stamp' = [stamp EXCEPT ![r] = 0]
    /\ held' = [held EXCEPT ![r] = NoLimiter]
    /\ rsv' = [rsv EXCEPT ![r] = NoReservation]

(* reservation.Delay reads the clock again.  A request that need not wait  *)
(* is served; its token is charged to the key's ideal bucket.              *)
Admit(r) ==
    /\ pc[r] = "decide"
    /\ ~MustWait(rsv[r], clock)
    /\ spent' = [spent EXCEPT ![key[r]] = @ + limiter[held[r]].interval]
    /\ Leave(r, "served")
    /\ UNCHANGED << clock, gcVars, stopVars, entryVars, limiter >>

Refuse(r) ==
    /\ pc[r] = "decide"
    /\ MustWait(rsv[r], clock)
    /\ pc' = [pc EXCEPT ![r] = "cancel"]
    /\ UNCHANGED << clock, gcVars, stopVars, entryVars, limiter, key, action, stamp,
                    held, rsv, spent >>

(* reservation.Cancel, which reads the clock once more, and the answer.    *)
Cancel(r) ==
    /\ pc[r] = "cancel"
    /\ limiter' = [limiter EXCEPT ![held[r]] = AfterCancel(@, rsv[r], clock)]
    /\ Leave(r, "throttled")
    /\ UNCHANGED << clock, gcVars, stopVars, entryVars, spent >>

RequestStep(r) ==
    Lookup(r) \/ Insert(r) \/ Reserve(r) \/ Admit(r) \/ Refuse(r) \/ Cancel(r)
----------------------------------------------------------------------------
(* The collector goroutine.  When both a tick and the cancellation are     *)
(* ready, select takes either.                                             *)

CutoffTooOld == clock - 2 * StaleAfter

Cutoff == clock - StaleAfter

GCTick ==
    /\ gcPc = "select"
    /\ tickPending
    /\ tickPending' = FALSE
    /\ cutoff' = Cutoff
    /\ gcPc' = "sweep"
    /\ UNCHANGED << clock, stopVars, entryVars, limiter, localVars, spent >>

ExpiredByTick(k) == limiterOf[k] # NoLimiter /\ lastSeen[k] < cutoff + StaleAfter

Expired(k) == limiterOf[k] # NoLimiter /\ lastSeen[k] < cutoff

GCSweep ==
    /\ gcPc = "sweep"
    /\ limiterOf' = [k \in Keys |-> IF Expired(k) THEN NoLimiter ELSE limiterOf[k]]
    /\ lastSeen' = [k \in Keys |-> IF Expired(k) THEN 0 ELSE lastSeen[k]]
    /\ used' = [k \in Keys |-> IF Expired(k) THEN 0 ELSE used[k]]
    /\ gcPc' = "select"
    /\ cutoff' = 0
    /\ UNCHANGED << clock, tickPending, stopVars, limiter, localVars, spent >>

GCExitNotSignalled ==
    /\ gcPc = "select"
    /\ cancelled
    /\ gcPc' = "leaked"
    /\ tickPending' = FALSE
    /\ UNCHANGED << clock, cutoff, stopVars, entryVars, limiter, localVars, spent >>

(* Closes t.done, and the ticker stops.                                    *)
GCExit ==
    /\ gcPc = "select"
    /\ cancelled
    /\ gcPc' = "exited"
    /\ tickPending' = FALSE
    /\ UNCHANGED << clock, cutoff, stopVars, entryVars, limiter, localVars, spent >>
----------------------------------------------------------------------------
(* Stop.  once.Do runs its function for the first caller and makes the     *)
(* others wait until that has returned.                                    *)

StopFirst(s) ==
    /\ stopPc[s] = "idle"
    /\ \A t \in Stoppers : stopPc[t] \in {"idle", "once"}
    /\ cancelled' = TRUE
    /\ stopPc' = [stopPc EXCEPT ![s] = "waiting"]
    /\ UNCHANGED << clock, gcVars, entryVars, limiter, localVars, spent >>

StopAgain(s) ==
    /\ stopPc[s] = "idle"
    /\ \E t \in Stoppers : stopPc[t] \in {"waiting", "returned"}
    /\ stopPc' = [stopPc EXCEPT ![s] = "once"]
    /\ UNCHANGED << clock, gcVars, cancelled, entryVars, limiter, localVars, spent >>

StopDone(s) ==
    /\ stopPc[s] = "waiting"
    /\ gcPc = "exited"
    /\ stopPc' = [stopPc EXCEPT ![s] = "returned"]
    /\ UNCHANGED << clock, gcVars, cancelled, entryVars, limiter, localVars, spent >>

StopAgainAtOnce(s) ==
    /\ stopPc[s] = "once"
    /\ stopPc' = [stopPc EXCEPT ![s] = "returned"]
    /\ UNCHANGED << clock, gcVars, cancelled, entryVars, limiter, localVars, spent >>

StopAgainDone(s) ==
    /\ stopPc[s] = "once"
    /\ \E t \in Stoppers : stopPc[t] = "returned"
    /\ stopPc' = [stopPc EXCEPT ![s] = "returned"]
    /\ UNCHANGED << clock, gcVars, cancelled, entryVars, limiter, localVars, spent >>

StopStep(s) == StopDone(s) \/ StopAgainDone(s)
----------------------------------------------------------------------------
(* Time passes.  No request stays inside the throttler for longer than     *)
(* MaxStall.  A tick is dropped when the channel already holds one.        *)

TickDue == (clock + 1) % GCInterval = 0

Tick ==
    /\ clock < MaxTime
    /\ \A r \in Requests : Inside(r) => clock < stamp[r] + MaxStall
    /\ (PromptGC /\ TickDue) => (~tickPending /\ gcPc # "sweep")
    /\ clock' = clock + 1
    /\ tickPending' = ((tickPending \/ TickDue) /\ gcPc # "exited")
    /\ spent' = [k \in Keys |-> IF spent[k] > 0 THEN spent[k] - 1 ELSE 0]
    /\ limiter' = [l \in Limiters |-> Earn(limiter[l])]
    /\ UNCHANGED << gcPc, cutoff, stopVars, entryVars, localVars >>
----------------------------------------------------------------------------
(* New: an empty map and a running collector.                              *)

Init ==
    /\ clock = 0
    /\ tickPending = FALSE
    /\ gcPc = "select"
    /\ cutoff = 0
    /\ cancelled = FALSE
    /\ stopPc = [s \in Stoppers |-> "idle"]
    /\ limiterOf = [k \in Keys |-> NoLimiter]
    /\ lastSeen = [k \in Keys |-> 0]
    /\ used = [k \in Keys |-> 0]
    /\ limiter = [l \in Limiters |-> NewLimiter(DefaultLimit)]
    /\ pc = [r \in Requests |-> "idle"]
    /\ key = [r \in Requests |-> NoKey]
    /\ action = [r \in Requests |-> Unknown]
    /\ stamp = [r \in Requests |-> 0]
    /\ held = [r \in Requests |-> NoLimiter]
    /\ rsv = [r \in Requests |-> NoReservation]
    /\ spent = [k \in Keys |-> 0]

Next ==
    \/ \E r \in Requests, acct \in Accounts \cup {EmptyName, KeyError},
         act \in Actions \cup {EmptyName, Absent, KeyError} : Arrive(r, acct, act)
    \/ \E r \in Requests : RequestStep(r)
    \/ GCTick \/ GCSweep \/ GCExit
    \/ \E s \in Stoppers : StopFirst(s) \/ StopAgain(s) \/ StopStep(s)
    \/ Tick

(* A goroutine that can run does run, and select, which picks at random    *)
(* among the ready cases, does not pass over a cancellation for ever.      *)
Fairness ==
    /\ WF_vars(GCTick \/ GCSweep)
    /\ SF_vars(GCExit)
    /\ \A s \in Stoppers : WF_vars(StopStep(s))
    /\ \A r \in Requests : WF_vars(RequestStep(r))

Spec == Init /\ [][Next]_vars
FairSpec == Spec /\ Fairness
----------------------------------------------------------------------------
(* Types.  A request that holds a limiter holds a real one.                *)
TypeOK ==
    /\ clock \in 0 .. MaxTime
    /\ tickPending \in BOOLEAN
    /\ gcPc \in {"select", "sweep", "exited"}
    /\ cutoff \in Int
    /\ cancelled \in BOOLEAN
    /\ stopPc \in [Stoppers -> {"idle", "waiting", "once", "returned"}]
    /\ limiterOf \in [Keys -> Limiters \cup {NoLimiter}]
    /\ lastSeen \in [Keys -> Nat]
    /\ used \in [Keys -> Nat]
    /\ limiter \in [Limiters -> Bucket]
    /\ pc \in [Requests -> Finished \cup InFlight]
    /\ key \in [Requests -> Keys \cup {NoKey}]
    /\ action \in [Requests -> AllActions]
    /\ stamp \in [Requests -> Nat]
    /\ held \in [Requests -> Limiters \cup {NoLimiter}]
    /\ rsv \in [Requests -> Reservation]
    /\ spent \in [Keys -> Nat]

(* From the moment getOrCreate returns a limiter until the request has     *)
(* drawn from it and decided, that limiter is the one in the map under the *)
(* request's key: the collector does not evict a bucket that is about to   *)
(* be drawn from, a racing insert does not replace it, and no other key    *)
(* shares it.                                                              *)
HeldIsCurrent ==
    \A r \in Requests :
        pc[r] \in {"reserve", "decide", "cancel"} =>
            /\ limiterOf[key[r]] = held[r]
            /\ \A k \in Keys : limiterOf[k] = held[r] => k = key[r]

(* The rate limit holds over every window of time, evictions included: the *)
(* requests served for a key never exceed what one bucket that is never    *)
(* thrown away would have served, give or take the time between a request's*)
(* reservation and its answer.  It needs a bucket to refill within         *)
(* StaleAfter, less the stalls.                                            *)
AdmissionBound ==
    \A k \in Keys, a \in AllActions :
        (\E acct \in Accounts : k = acct \o a) =>
            spent[k] <= ResolveLimit(a).burst * ResolveLimit(a).interval + MaxStall

(* The requests that hold a reservation and have not been answered: each   *)
(* may still be served.                                                    *)
Undecided(k) == { q \in Requests : pc[q] = "decide" /\ key[q] = k }

(* A request is refused only when the ideal bucket of its key, with the    *)
(* tokens the undecided requests have reserved taken out, holds no token   *)
(* for it: a refused request gives its reservation back, and an evicted    *)
(* bucket comes back full, so neither costs a client anything.             *)
RefusedOnlyWhenSpent ==
    [][\A r \in Requests :
          (pc[r] = "decide" /\ pc'[r] = "cancel") =>
              LET limit == ResolveLimit(action[r])
              IN  spent[key[r]] + Cardinality(Undecided(key[r])) * limit.interval
                      > limit.burst * limit.interval]_vars

(* An entry leaves the map only when no request has found it for           *)
(* StaleAfter, less the stall of the last one.                             *)
OnlyIdleLeave ==
    \A k \in Keys :
        (limiterOf[k] # NoLimiter /\ limiterOf'[k] # limiterOf[k]) =>
            clock - used[k] > StaleAfter - MaxStall

(* The collector, whose cutoff is taken before the lock and whose lastSeen *)
(* may be older than the entry's last use, evicts idle entries only.       *)
EvictsOnlyIdle == [][OnlyIdleLeave]_vars

(* The map does not grow with the keys ever seen: while the collector runs *)
(* and keeps up with its ticker, every entry was used recently.            *)
IdleEntriesCollected ==
    (PromptGC /\ ~cancelled) =>
        \A k \in Keys : limiterOf[k] # NoLimiter =>
            clock - lastSeen[k] <= StaleAfter + 2 * GCInterval

(* Once any call of Stop has returned, the collector has exited, so that   *)
(* the map loses no entry any more.                                        *)
StopMeansExited ==
    (\E s \in Stoppers : stopPc[s] = "returned") => gcPc = "exited"

(* Every call of Stop returns.                                             *)
StopReturns ==
    \A s \in Stoppers : stopPc[s] \in {"waiting", "once"} ~> stopPc[s] = "returned"
=============================================================================
