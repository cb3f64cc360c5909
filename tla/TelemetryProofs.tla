--------------------------- MODULE TelemetryProofs ---------------------------
(***************************************************************************)
(* Proofs about Telemetry.  The inductive invariant has a part for each    *)
(* thing that the set-up calls and the loggers hand on from step to step:  *)
(* the handler a caller builds, the providers an Init has yet to stop, the *)
(* record under way, and, when the calls do not overlap, the agreement of  *)
(* the default logger with what is installed.                              *)
(***************************************************************************)
EXTENDS Telemetry, SequenceTheorems, TLAPS

(* A caller has a configuration before it builds, and no bridge until then.*)
LocalOK(c) ==
    /\ pc[c] \in {"remember", "build", "setdefault"} => local[c].conf # None
    /\ pc[c] \notin {"setdefault", "ready", "stopping", "down"} => local[c].bridge = None

(* Once a logger of this package is the default or is being built, there   *)
(* is a configuration, and it stays.                                       *)
ConfOK ==
    /\ default.conf # None => conf # None
    /\ \A c \in Callers : pc[c] \in {"build", "setdefault"} => conf # None

(* An Init's providers that run are those it has yet to stop.              *)
ProvidersOK(i) ==
    /\ \A k \in Kinds : << k, i >> \in running =>
          \E j \in 1 .. Len(installed[i]) : installed[i][j] = k
    /\ pc[i] \in {"idle", "tracer", "failed", "down"} => installed[i] = << >>

(* A record on its way has seen the present level, and one that let it in. *)
AboveAll(r) == \A v \in r.seen : r.severity >= v
BelowAll(r) == \A v \in r.seen : r.severity < v

RecordOK(r) ==
    /\ r.at = "out" => r.got = {}
    /\ r.at \in {"out", "otlp"} => level \in r.seen /\ ~BelowAll(r)
    /\ r.at = "otlp" =>
          r.handler.bridge # None /\ r.got \subseteq {"out"} /\ (AboveAll(r) => r.got = {"out"})
    /\ r.at = "done" =>
          /\ r.got \subseteq SinksOf(r.handler)
          /\ AboveAll(r) => r.got = SinksOf(r.handler)
          /\ BelowAll(r) => r.got = {}

(* Between two set-up calls, and in one that has not touched the provider  *)
(* of logs or the configuration.                                           *)
Agreed == default.conf # None => default = [conf |-> conf, bridge |-> global["logger"]]

Before == Resting \cup Kinds \cup {"unwind", "stopping", "remember"}

OrderOK ==
    ~overlap =>
        /\ \A c, d \in Callers : pc[c] \notin Resting /\ pc[d] \notin Resting => c = d
        /\ (\A c \in Callers : pc[c] \in Before) => Agreed
        /\ \A c \in Callers :
              /\ pc[c] = "build" => local[c].conf = conf
              /\ pc[c] = "setdefault" => local[c] = [conf |-> conf, bridge |-> global["logger"]]

SetupOK ==
    /\ TypeOK /\ ConfOK
    /\ \A c \in Callers : LocalOK(c)
    /\ \A i \in Inits : ProvidersOK(i)

RecordsOK == \A l \in Loggers : RecordOK(rec[l])
----------------------------------------------------------------------------
(* What a handler is made of, and what it may become.                      *)
LEMMA HandlerFacts ==
    ASSUME NEW h \in Handler
    PROVE  /\ h.conf \in Setters \cup {None} /\ h.bridge \in Inits \cup {None}
           /\ h = [conf |-> h.conf, bridge |-> h.bridge]
           /\ \A k \in Setters \cup {None} :
                 h.bridge = None =>
                    /\ [h EXCEPT !.conf = k] \in Handler
                    /\ [h EXCEPT !.conf = k].conf = k /\ [h EXCEPT !.conf = k].bridge = None
           /\ \A b \in Inits \cup {None} :
                 h.conf # None =>
                    /\ [h EXCEPT !.bridge = b] \in Handler
                    /\ [h EXCEPT !.bridge = b].bridge = b
                    /\ [h EXCEPT !.bridge = b].conf = h.conf
BY DEF Handler

(* The logger of a host.                                                   *)
LEMMA ForeignFacts ==
    Foreign \in Handler /\ Foreign.conf = None /\ Foreign.bridge = None
BY DEF Foreign, Handler

(* The initial state.                                                      *)
LEMMA InitOK == Init => SetupOK
<1> SUFFICES ASSUME Init PROVE SetupOK
  OBVIOUS
<1>1. TypeOK
  <2>1. PICK v \in Levels :
          rec = [l \in Loggers |-> [at |-> "none", severity |-> v, seen |-> {},
                                    handler |-> Foreign, got |-> {}]]
    BY DEF Init
  <2>2. rec \in [Loggers -> Record]
    BY <2>1, ForeignFacts DEF Record
  <2>3. installed \in [Inits -> Seq(Kinds)]
    BY DEF Init
  <2> QED
    BY <2>2, <2>3, ForeignFacts DEF Init, TypeOK, Resting
<1>2. ConfOK
  BY ForeignFacts DEF Init, ConfOK
<1>3. \A c \in Callers : LocalOK(c)
  BY ForeignFacts DEF Init, LocalOK
<1>4. \A i \in Inits : ProvidersOK(i)
  BY DEF Init, ProvidersOK
<1> QED
  BY <1>1, <1>2, <1>3, <1>4 DEF SetupOK

(* A call of Init as far as refreshDefaultLogger, and its shut-down: the   *)
(* providers change, and no handler does.                                  *)
LEMMA ProviderStepOK ==
    ASSUME SetupOK, NEW i \in Inits,
           \/ InitBegin(i) \/ Install(i) \/ ExporterFails(i)
           \/ StopNext(i) \/ StopDone(i) \/ Shutdown(i)
    PROVE  SetupOK'
<1> USE DEF SetupOK
<1>0. i \in Callers
  BY DEF Callers
<1>1. /\ UNCHANGED << loggerVars, level, rec >>
      /\ \A c \in Callers : c # i => pc'[c] = pc[c]
      /\ \A j \in Inits : j # i => installed'[j] = installed[j]
      /\ \A j \in Inits, k \in Kinds : j # i /\ << k, j >> \in running' => << k, j >> \in running
  BY DEF InitBegin, Install, ExporterFails, StopNext, StopDone, Shutdown, Goto, TypeOK,
         setupVars
<1>2. TypeOK'
  <2>1. CASE InitBegin(i)
    BY <2>1 DEF InitBegin, Goto, TypeOK, loggerVars, First, Resting, Kinds
  <2>2. CASE Install(i)
    <3>1. pc[i] \in Kinds /\ After(pc[i]) \in {"meter", "logger", "refresh"}
      BY <2>2 DEF Install, After, Kinds
    <3>2. pc' = [pc EXCEPT ![i] = After(pc[i])]
      BY <2>2 DEF Install, Goto
    <3>3. global' \in [Kinds -> Inits \cup {None}] /\ running' \subseteq Kinds \X Inits
          /\ installed' \in [Inits -> Seq(Kinds)]
      BY <2>2, <3>1 DEF Install, TypeOK
    <3> QED
      BY <2>2, <3>1, <3>2, <3>3 DEF Install, TypeOK, loggerVars, Kinds
  <2>3. CASE ExporterFails(i)
    BY <2>3 DEF ExporterFails, Goto, TypeOK, loggerVars, setupVars, Resting
  <2>4. CASE StopNext(i)
    BY <2>4 DEF StopNext, TypeOK, loggerVars
  <2>5. CASE StopDone(i)
    BY <2>5 DEF StopDone, Goto, TypeOK, loggerVars, setupVars, Resting
  <2>6. CASE Shutdown(i)
    BY <2>6 DEF Shutdown, Goto, TypeOK, loggerVars, setupVars
  <2> QED
    BY <2>1, <2>2, <2>3, <2>4, <2>5, <2>6
<1>3. /\ pc'[i] \notin {"idle", "remember", "build", "setdefault"}
      /\ pc[i] \notin {"build", "setdefault", "remember"}
      /\ pc'[i] \notin {"setdefault", "ready", "stopping", "down"} =>
            pc[i] \notin {"setdefault", "ready", "stopping", "down"}
  BY <1>0 DEF InitBegin, Install, ExporterFails, StopNext, StopDone, Shutdown, Goto, TypeOK,
         First, After, Kinds
<1>4. ConfOK'
  BY <1>1, <1>3 DEF ConfOK, loggerVars
<1>5. \A c \in Callers : LocalOK(c)'
  BY <1>1, <1>3 DEF LocalOK, loggerVars
<1>6. ProvidersOK(i)'
  <2>1. CASE InitBegin(i)
    BY <2>1, <1>0 DEF InitBegin, Goto, TypeOK, ProvidersOK
  <2>2. CASE Install(i)
    <3>1. /\ pc[i] \in Kinds /\ installed[i] \in Seq(Kinds)
          /\ installed'[i] = Append(installed[i], pc[i])
          /\ running' = running \cup {<< pc[i], i >>}
      BY <2>2 DEF Install, TypeOK
    <3>2. /\ Len(installed'[i]) = Len(installed[i]) + 1
          /\ installed'[i][Len(installed[i]) + 1] = pc[i]
          /\ \A j \in 1 .. Len(installed[i]) : installed'[i][j] = installed[i][j]
      BY <3>1
    <3>3. ASSUME NEW k \in Kinds, << k, i >> \in running'
          PROVE  \E j \in 1 .. Len(installed'[i]) : installed'[i][j] = k
      <4>1. CASE k = pc[i]
        BY <3>1, <3>2, <4>1
      <4>2. CASE << k, i >> \in running
        <5>1. PICK j \in 1 .. Len(installed[i]) : installed[i][j] = k
          BY <4>2 DEF ProvidersOK
        <5> QED
          BY <3>1, <3>2, <5>1
      <4> QED
        BY <3>1, <3>3, <4>1, <4>2
    <3>4. pc'[i] \notin {"idle", "tracer", "failed", "down"}
      BY <2>2, <1>0 DEF Install, Goto, TypeOK, After, Kinds
    <3> QED
      BY <3>3, <3>4 DEF ProvidersOK
  <2>3. CASE ExporterFails(i)
    BY <2>3, <1>0 DEF ExporterFails, Goto, TypeOK, ProvidersOK, setupVars
  <2>4. CASE StopNext(i)
    <3>1. /\ installed[i] \in Seq(Kinds) /\ installed[i] # << >>
          /\ installed'[i] = Tail(installed[i])
          /\ running' = running \ {<< Head(installed[i]), i >>}
          /\ pc'[i] = pc[i] /\ pc[i] \in {"unwind", "stopping"}
      BY <2>4 DEF StopNext, TypeOK
    <3>2. ASSUME NEW k \in Kinds, << k, i >> \in running'
          PROVE  \E j \in 1 .. Len(installed'[i]) : installed'[i][j] = k
      <4>1. << k, i >> \in running /\ k # Head(installed[i])
        BY <3>1, <3>2
      <4>2. PICK j \in 1 .. Len(installed[i]) : installed[i][j] = k
        BY <4>1 DEF ProvidersOK
      <4>3. j # 1
        BY <3>1, <4>1, <4>2
      <4>4. j - 1 \in 1 .. Len(installed'[i]) /\ installed'[i][j - 1] = k
        BY <3>1, <4>2, <4>3
      <4> QED
        BY <4>4
    <3> QED
      BY <3>1, <3>2 DEF ProvidersOK
  <2>5. CASE StopDone(i)
    BY <2>5, <1>0 DEF StopDone, Goto, TypeOK, ProvidersOK, setupVars
  <2>6. CASE Shutdown(i)
    BY <2>6, <1>0 DEF Shutdown, Goto, TypeOK, ProvidersOK, setupVars
  <2> QED
    BY <2>1, <2>2, <2>3, <2>4, <2>5, <2>6
<1>7. ASSUME NEW j \in Inits, j # i PROVE ProvidersOK(j)'
  BY <1>1, <1>7 DEF ProvidersOK, Callers
<1> QED
  BY <1>2, <1>4, <1>5, <1>6, <1>7

(* A step of a caller that touches no provider.                            *)
LEMMA ProvidersKept ==
    ASSUME SetupOK, NEW c \in Callers, UNCHANGED setupVars,
           pc'[c] \notin {"idle", "tracer", "failed", "down"},
           \A d \in Callers : d # c => pc'[d] = pc[d]
    PROVE  \A i \in Inits : ProvidersOK(i)'
BY DEF SetupOK, ProvidersOK, setupVars, Callers

(* The calls that make, build and install a logger.                        *)
LEMMA LoggerStepOK ==
    ASSUME SetupOK, NEW c \in Callers,
           \/ c \in Inits /\ Refresh(c)
           \/ c \in Setters /\ (SetterBegin(c) \/ Remember(c))
           \/ NewHandler(c) \/ SetDefault(c)
    PROVE  SetupOK'
<1> USE DEF SetupOK
<1>0. c \in Setters => c # None
  BY CallerAssumption DEF Callers
<1>1. local[c] \in Handler /\ LocalOK(c) /\ conf \in Setters \cup {None}
      /\ global["logger"] \in Inits \cup {None}
  BY DEF TypeOK, Kinds
<1>2. UNCHANGED setupVars /\ \A d \in Callers : d # c => pc'[d] = pc[d]
  BY DEF Refresh, SetterBegin, Remember, NewHandler, SetDefault, Goto, TypeOK
<1>3. pc'[c] \in {"ready", "build", "remember", "setdefault"}
  BY DEF Refresh, SetterBegin, Remember, NewHandler, SetDefault, Goto, TypeOK
<1>4. \A i \in Inits : ProvidersOK(i)'
  BY <1>2, <1>3, ProvidersKept
<1>5. CASE c \in Inits /\ Refresh(c)
  <2>1. local[c].bridge = None
    BY <1>5, <1>1 DEF LocalOK, Refresh
  <2>2. local' = [local EXCEPT ![c] = [local[c] EXCEPT !.conf = conf]]
    BY <1>5 DEF Refresh, TypeOK
  <2>3. local'[c] \in Handler /\ local'[c].conf = conf /\ local'[c].bridge = None
    BY <2>1, <2>2, <1>1, HandlerFacts DEF TypeOK
  <2>4. local' \in [Callers -> Handler] /\ \A d \in Callers : d # c => local'[d] = local[d]
    BY <2>2, <2>3 DEF TypeOK
  <2>5. pc' = [pc EXCEPT ![c] = IF conf = None THEN "ready" ELSE "build"]
    BY <1>5 DEF Refresh, Goto
  <2>6. TypeOK'
    BY <1>5, <2>4, <2>5 DEF Refresh, TypeOK, setupVars, Resting
  <2>7. ConfOK'
    BY <1>5, <1>2, <2>5 DEF Refresh, ConfOK, TypeOK
  <2>8. \A d \in Callers : LocalOK(d)'
    BY <1>5, <1>2, <2>3, <2>4, <2>5 DEF LocalOK, TypeOK
  <2> QED
    BY <1>4, <2>6, <2>7, <2>8
<1>6. CASE c \in Setters /\ SetterBegin(c)
  <2>1. local[c].bridge = None
    BY <1>6, <1>1 DEF LocalOK, SetterBegin
  <2>2. local' = [local EXCEPT ![c] = [local[c] EXCEPT !.conf = c]]
    BY <1>6 DEF SetterBegin, TypeOK
  <2>3. local'[c] \in Handler /\ local'[c].conf = c /\ local'[c].bridge = None
    BY <1>6, <2>1, <2>2, <1>1, HandlerFacts DEF TypeOK
  <2>4. local' \in [Callers -> Handler] /\ \A d \in Callers : d # c => local'[d] = local[d]
    BY <2>2, <2>3 DEF TypeOK
  <2>5. pc' = [pc EXCEPT ![c] = "remember"]
    BY <1>6 DEF SetterBegin, Goto
  <2>6. level' \in Levels /\ rec' \in [Loggers -> Record]
    <3>1. \A r \in Record, vs \in SUBSET Levels : [r EXCEPT !.seen = @ \cup vs] \in Record
      BY DEF Record
    <3>2. PICK v \in Levels : Retune(v)
      BY <1>6 DEF SetterBegin
    <3> QED
      BY <3>1, <3>2 DEF Retune, TypeOK
  <2>7. TypeOK'
    BY <1>6, <2>4, <2>5, <2>6 DEF SetterBegin, TypeOK, setupVars
  <2>8. ConfOK'
    BY <1>6, <1>2, <2>5 DEF SetterBegin, ConfOK, TypeOK
  <2>9. \A d \in Callers : LocalOK(d)'
    BY <1>0, <1>6, <1>2, <2>3, <2>4, <2>5 DEF LocalOK, TypeOK
  <2> QED
    BY <1>4, <2>7, <2>8, <2>9
<1>7. CASE Remember(c)
  <2>1. conf' = local[c].conf /\ conf' \in Setters /\ conf' # None
    BY <1>0, <1>1, <1>7, HandlerFacts DEF Remember, LocalOK
  <2>2. pc' = [pc EXCEPT ![c] = "build"]
    BY <1>7 DEF Remember, Goto
  <2>3. TypeOK'
    BY <1>7, <2>1, <2>2 DEF Remember, TypeOK, setupVars
  <2>4. ConfOK'
    BY <2>1 DEF ConfOK
  <2>5. \A d \in Callers : LocalOK(d)'
    BY <1>7, <1>2, <2>2 DEF Remember, LocalOK, TypeOK
  <2> QED
    BY <1>4, <2>3, <2>4, <2>5
<1>8. CASE NewHandler(c)
  <2>1. local[c].conf # None
    BY <1>8, <1>1 DEF LocalOK, NewHandler
  <2>2. local' = [local EXCEPT ![c] = [local[c] EXCEPT !.bridge = global["logger"]]]
    BY <1>8 DEF NewHandler, Bridge, TypeOK
  <2>3. local'[c] \in Handler /\ local'[c].conf = local[c].conf
    BY <2>1, <2>2, <1>1, HandlerFacts DEF TypeOK
  <2>4. local' \in [Callers -> Handler] /\ \A d \in Callers : d # c => local'[d] = local[d]
    BY <2>2, <2>3 DEF TypeOK
  <2>5. pc' = [pc EXCEPT ![c] = "setdefault"] /\ pc[c] = "build"
    BY <1>8 DEF NewHandler, Goto
  <2>6. TypeOK'
    BY <1>8, <2>4, <2>5 DEF NewHandler, TypeOK, setupVars
  <2>7. ConfOK'
    BY <1>8, <1>2, <2>5 DEF NewHandler, ConfOK, TypeOK
  <2>8. \A d \in Callers : LocalOK(d)'
    BY <1>2, <2>1, <2>3, <2>4, <2>5 DEF LocalOK, TypeOK
  <2> QED
    BY <1>4, <2>6, <2>7, <2>8
<1>9. CASE SetDefault(c)
  <2>1. pc' = [pc EXCEPT ![c] = "ready"] /\ pc[c] = "setdefault"
    BY <1>9 DEF SetDefault, Goto
  <2>2. TypeOK'
    BY <1>9, <1>1, <2>1 DEF SetDefault, TypeOK, setupVars, Resting
  <2>3. ConfOK'
    BY <1>9, <1>2, <2>1 DEF SetDefault, ConfOK, TypeOK
  <2>4. \A d \in Callers : LocalOK(d)'
    BY <1>9, <1>2, <2>1 DEF SetDefault, LocalOK, TypeOK
  <2> QED
    BY <1>4, <2>2, <2>3, <2>4
<1> QED
  BY <1>5, <1>6, <1>7, <1>8, <1>9

(* The steps of the host and of the loggers.                               *)
LEMMA OtherStepOK ==
    ASSUME SetupOK,
           \/ HostSetDefault
           \/ \E v \in Levels : SetLevel(v)
           \/ \E l \in Loggers : LoggerStep(l)
           \/ UNCHANGED vars
    PROVE  SetupOK'
<1> USE DEF SetupOK
<1>1. UNCHANGED << pc, setupVars, conf, local >> /\ (default' = default \/ default' = Foreign)
  BY DEF HostSetDefault, SetLevel, LoggerStep, LogBegin, LogPlain, LogOut, LogBridge, vars,
         loggerVars
<1>2. default' \in Handler
  BY <1>1, ForeignFacts DEF TypeOK
<1>3. level' \in Levels /\ rec' \in [Loggers -> Record]
  <2>1. CASE HostSetDefault \/ UNCHANGED vars
    BY <2>1 DEF HostSetDefault, vars, TypeOK
  <2>2. ASSUME NEW v \in Levels, SetLevel(v) PROVE level' \in Levels /\ rec' \in [Loggers -> Record]
    <3>1. \A r \in Record, vs \in SUBSET Levels : [r EXCEPT !.seen = @ \cup vs] \in Record
      BY DEF Record
    <3> QED
      BY <2>2, <3>1 DEF SetLevel, Retune, TypeOK
  <2>3. ASSUME NEW l \in Loggers, LoggerStep(l) PROVE level' \in Levels /\ rec' \in [Loggers -> Record]
    <3>1. rec[l] \in Record
      BY DEF TypeOK
    <3>2. ASSUME NEW v \in Levels, LogBegin(l, v) PROVE level' \in Levels /\ rec' \in [Loggers -> Record]
      BY <3>2 DEF LogBegin, TypeOK, Record
    <3>3. ASSUME NEW got \in SUBSET Sinks, NEW at \in {"otlp", "done"}
          PROVE  [rec[l] EXCEPT !.got = got, !.at = at] \in Record
      BY <3>1 DEF Record
    <3>4. \A sink \in Sinks : Handle(l, sink) \in SUBSET Sinks
      BY <3>1 DEF Handle, Record
    <3>5. CASE LogPlain(l)
      BY <3>3, <3>5 DEF LogPlain, TypeOK, Sinks
    <3>6. CASE LogOut(l)
      BY <3>3, <3>4, <3>6 DEF LogOut, TypeOK, Sinks
    <3>7. CASE LogBridge(l)
      BY <3>3, <3>4, <3>7 DEF LogBridge, TypeOK, Sinks
    <3> QED
      BY <2>3, <3>2, <3>5, <3>6, <3>7 DEF LoggerStep
  <2> QED
    BY <2>1, <2>2, <2>3
<1>4. TypeOK'
  BY <1>1, <1>2, <1>3 DEF TypeOK, setupVars
<1>5. ConfOK'
  BY <1>1, ForeignFacts DEF ConfOK
<1>6. (\A c \in Callers : LocalOK(c)') /\ (\A i \in Inits : ProvidersOK(i)')
  BY <1>1 DEF LocalOK, ProvidersOK, setupVars
<1> QED
  BY <1>4, <1>5, <1>6

(* Every step is one of these.                                             *)
LEMMA Steps ==
    ASSUME [Next]_vars
    PROVE  \/ \E i \in Inits : \/ InitBegin(i) \/ Install(i) \/ ExporterFails(i)
                               \/ StopNext(i) \/ StopDone(i) \/ Shutdown(i)
           \/ \E c \in Callers :
                 \/ c \in Inits /\ Refresh(c)
                 \/ c \in Setters /\ (SetterBegin(c) \/ Remember(c))
                 \/ NewHandler(c) \/ SetDefault(c)
           \/ HostSetDefault
           \/ \E v \in Levels : SetLevel(v)
           \/ \E l \in Loggers : LoggerStep(l)
           \/ UNCHANGED vars
BY DEF Next, InitStep, SetterStep, Callers

(* The part of the invariant about set-up, in every reachable state.       *)
THEOREM SetupInvariance == Spec => []SetupOK
<1>1. SetupOK /\ [Next]_vars => SetupOK'
  BY Steps, ProviderStepOK, LoggerStepOK, OtherStepOK
<1> QED
  BY <1>1, InitOK, PTL DEF Spec

(* The proved form of TypeOK.  That a handler without a configuration has  *)
(* no bridge needs the order of a caller's steps, not only their types.    *)
THEOREM TypeCorrect == Spec => []TypeOK
<1>1. SetupOK => TypeOK
  BY DEF SetupOK
<1> QED
  BY <1>1, SetupInvariance, PTL

(* The proved form of NothingLeaks: an Init that failed or was shut down   *)
(* leaves no provider running, for any number of overlapping calls.        *)
THEOREM NoLeak == Spec => []NothingLeaks
<1>1. SetupOK => NothingLeaks
  <2> SUFFICES ASSUME SetupOK, NEW i \in Inits, pc[i] \in {"failed", "down"}, NEW k \in Kinds
               PROVE  << k, i >> \notin running
    BY DEF NothingLeaks
  <2>1. installed[i] = << >>
    BY DEF SetupOK, ProvidersOK
  <2>2. ~ \E j \in 1 .. Len(installed[i]) : TRUE
    BY <2>1
  <2> QED
    BY <2>2 DEF SetupOK, ProvidersOK
<1> QED
  BY <1>1, SetupInvariance, PTL
----------------------------------------------------------------------------
(* A step of a record, seen from the record alone.                         *)
LEMMA RecordsStep == TypeOK /\ RecordsOK /\ [Next]_vars => RecordsOK'
<1> SUFFICES ASSUME TypeOK, RecordsOK, [Next]_vars, NEW m \in Loggers
             PROVE  RecordOK(rec[m])'
  BY DEF RecordsOK
<1>0. rec[m] \in Record /\ RecordOK(rec[m]) /\ level \in Nat
  BY LevelAssumption DEF TypeOK, RecordsOK
<1>1. CASE UNCHANGED << level, rec >>
  BY <1>0, <1>1 DEF RecordOK
<1>2. ASSUME NEW v \in Levels, Retune(v) PROVE RecordOK(rec[m])'
  <2> DEFINE more == IF rec[m].at \in {"out", "otlp"} THEN {v} ELSE {}
  <2>1. rec'[m] = [rec[m] EXCEPT !.seen = @ \cup more] /\ level' = v
    BY <1>2 DEF Retune
  <2>2. /\ rec'[m].seen = rec[m].seen \cup more /\ rec'[m].at = rec[m].at
        /\ rec'[m].got = rec[m].got /\ rec'[m].severity = rec[m].severity
        /\ rec'[m].handler = rec[m].handler
    BY <1>0, <2>1 DEF Record
  <2>3. CASE rec[m].at \in {"out", "otlp"}
    BY <1>0, <2>1, <2>2, <2>3 DEF RecordOK, AboveAll, BelowAll
  <2>4. CASE rec[m].at \notin {"out", "otlp"}
    BY <1>0, <2>2, <2>4 DEF RecordOK, AboveAll, BelowAll
  <2> QED
    BY <2>3, <2>4
<1>3. ASSUME NEW l \in Loggers, l # m, LoggerStep(l) PROVE RecordOK(rec[m])'
  <2>1. rec'[m] = rec[m] /\ level' = level
    BY <1>3 DEF LoggerStep, LogBegin, LogPlain, LogOut, LogBridge, TypeOK
  <2> QED
    BY <1>0, <2>1 DEF RecordOK
<1>4. ASSUME NEW v \in Levels, LogBegin(m, v) PROVE RecordOK(rec[m])'
  <2>0. v \in Nat /\ default \in Handler
    BY LevelAssumption DEF TypeOK
  <2>1. (\E sink \in SinksOf(default) : Enabled(sink, v)) <=> v >= level
    BY DEF SinksOf, Sinks, Enabled
  <2>2. /\ rec'[m].at = IF v >= level THEN "out" ELSE "done"
        /\ rec'[m].severity = v /\ rec'[m].seen = {level} /\ rec'[m].got = {}
        /\ level' = level
    BY <1>4, <2>1 DEF LogBegin, TypeOK
  <2>3. CASE v >= level
    BY <1>0, <2>0, <2>2, <2>3 DEF RecordOK, BelowAll
  <2>4. CASE ~(v >= level)
    BY <1>0, <2>0, <2>2, <2>4 DEF RecordOK, AboveAll
  <2> QED
    BY <2>3, <2>4
<1>5. ASSUME NEW got \in SUBSET Sinks, NEW at \in {"otlp", "done"},
             rec'[m] = [rec[m] EXCEPT !.got = got, !.at = at]
      PROVE  /\ rec'[m].got = got /\ rec'[m].at = at /\ rec'[m].seen = rec[m].seen
             /\ rec'[m].severity = rec[m].severity
             /\ rec'[m].handler = rec[m].handler
  BY <1>0, <1>5 DEF Record
<1>6. CASE LogPlain(m)
  <2>1. rec'[m] = [rec[m] EXCEPT !.got = {"out"}, !.at = "done"] /\ level' = level
    BY <1>6 DEF LogPlain, TypeOK
  <2>2. rec[m].at = "out" /\ SinksOf(rec[m].handler) = {"out"}
    BY <1>6 DEF LogPlain, SinksOf
  <2>3. /\ rec'[m].got = {"out"} /\ rec'[m].at = "done" /\ rec'[m].seen = rec[m].seen
        /\ rec'[m].severity = rec[m].severity
        /\ rec'[m].handler = rec[m].handler
    BY <1>5, <2>1 DEF Sinks
  <2> QED
    BY <1>0, <2>1, <2>2, <2>3 DEF RecordOK, AboveAll, BelowAll
<1>7. CASE LogOut(m)
  <2>1. /\ rec'[m] = [rec[m] EXCEPT !.got = Handle(m, "out"), !.at = "otlp"] /\ level' = level
        /\ rec[m].at = "out" /\ rec[m].handler.bridge # None
    BY <1>7 DEF LogOut, TypeOK
  <2>2. Handle(m, "out") \in SUBSET Sinks
    BY <1>0 DEF Handle, Record, Sinks
  <2>3. Handle(m, "out") \subseteq {"out"} /\ (AboveAll(rec[m]) => Handle(m, "out") = {"out"})
    BY <1>0, <2>1 DEF RecordOK, AboveAll, Handle, Enabled
  <2>4. /\ rec'[m].got = Handle(m, "out") /\ rec'[m].at = "otlp" /\ rec'[m].seen = rec[m].seen
        /\ rec'[m].severity = rec[m].severity /\ rec'[m].handler = rec[m].handler
    BY <1>5, <2>1, <2>2
  <2> QED
    BY <1>0, <2>1, <2>3, <2>4 DEF RecordOK, AboveAll, BelowAll
<1>8. CASE LogBridge(m)
  <2>1. /\ rec'[m] = [rec[m] EXCEPT !.got = Handle(m, "otlp"), !.at = "done"] /\ level' = level
        /\ rec[m].at = "otlp"
    BY <1>8 DEF LogBridge, TypeOK
  <2>2. Handle(m, "otlp") \in SUBSET Sinks
    BY <1>0 DEF Handle, Record, Sinks
  <2>3. SinksOf(rec[m].handler) = Sinks /\ (AboveAll(rec[m]) => Handle(m, "otlp") = Sinks)
    BY <1>0, <2>1 DEF RecordOK, AboveAll, Handle, Enabled, Sinks, SinksOf
  <2>4. /\ rec'[m].got = Handle(m, "otlp") /\ rec'[m].at = "done"
        /\ rec'[m].seen = rec[m].seen
        /\ rec'[m].severity = rec[m].severity
        /\ rec'[m].handler = rec[m].handler
    BY <1>5, <2>1, <2>2
  <2> QED
    BY <1>0, <2>1, <2>2, <2>3, <2>4 DEF RecordOK, AboveAll, BelowAll
<1> QED
  <2>1. CASE \E l \in Loggers : LoggerStep(l)
    BY <2>1, <1>3, <1>4, <1>6, <1>7, <1>8 DEF LoggerStep
  <2>2. CASE \E v \in Levels : SetLevel(v)
    BY <2>2, <1>2 DEF SetLevel
  <2>3. CASE \E s \in Setters : SetterBegin(s)
    BY <2>3, <1>2 DEF SetterBegin
  <2> QED
    BY <1>1, <2>1, <2>2, <2>3, Steps DEF InitBegin, Install, ExporterFails, StopNext, StopDone,
       Shutdown, Refresh, Remember, NewHandler, SetDefault, HostSetDefault, vars

(* The proved form of SinksAgree, with any number of goroutines logging    *)
(* and the level moving at any step: a record above all the levels it saw  *)
(* reached every sink of its logger, one below all of them reached none.   *)
THEOREM AllSinksOrNone == Spec => []SinksAgree
<1>1. Init => RecordsOK
  BY DEF Init, RecordsOK, RecordOK
<1>2. RecordsOK => SinksAgree
  BY DEF RecordsOK, RecordOK, AboveAll, BelowAll, SinksAgree
<1> QED
  BY <1>1, <1>2, RecordsStep, TypeCorrect, PTL DEF Spec
----------------------------------------------------------------------------
Alone(c) == \A d \in Callers : d # c => pc[d] \in Resting /\ pc'[d] = pc[d]

CallerStep(c) ==
    \/ c \in Inits /\ \/ InitBegin(c) \/ Install(c) \/ ExporterFails(c) \/ Refresh(c)
                      \/ StopNext(c) \/ StopDone(c) \/ Shutdown(c)
    \/ c \in Setters /\ (SetterBegin(c) \/ Remember(c))
    \/ NewHandler(c) \/ SetDefault(c)

(* Where calls do not overlap, a caller that steps is the only one at work.*)
LEMMA AloneFact ==
    ASSUME TypeOK, OrderOK, ~overlap, NEW c \in Callers, CallerStep(c)
    PROVE  Alone(c)
<1>1. Quiet \/ pc[c] \notin Resting
  BY DEF CallerStep, InitBegin, Install, ExporterFails, Refresh, StopNext, StopDone, Shutdown,
         SetterBegin, Remember, NewHandler, SetDefault, MayStart, Resting, Kinds
<1>2. \A d \in Callers : d # c => pc[d] \in Resting
  BY <1>1 DEF OrderOK, Quiet
<1>3. \A d \in Callers : d # c => pc'[d] = pc[d]
  BY DEF CallerStep, InitBegin, Install, ExporterFails, Refresh, StopNext, StopDone, Shutdown,
         SetterBegin, Remember, NewHandler, SetDefault, Goto, TypeOK
<1> QED
  BY <1>2, <1>3 DEF Alone

(* What is left to show of the step of a caller that is alone.             *)
LEMMA OrderOfOne ==
    ASSUME NEW c \in Callers, Alone(c),
           pc'[c] \in Before => Agreed',
           pc'[c] = "build" => local'[c].conf = conf',
           pc'[c] = "setdefault" =>
              local'[c] = [conf |-> conf', bridge |-> global'["logger"]]
    PROVE  OrderOK'
<1>1. \A d \in Callers : d # c => pc'[d] \in Resting /\ pc'[d] \notin {"build", "setdefault"}
  BY DEF Alone, Resting
<1>2. \A d, e \in Callers : pc'[d] \notin Resting /\ pc'[e] \notin Resting => d = e
  BY <1>1
<1>3. (\A d \in Callers : pc'[d] \in Before) => Agreed'
  OBVIOUS
<1>4. \A d \in Callers : /\ pc'[d] = "build" => local'[d].conf = conf'
                         /\ pc'[d] = "setdefault" =>
                               local'[d] = [conf |-> conf', bridge |-> global'["logger"]]
  BY <1>1
<1> QED
  BY <1>2, <1>3, <1>4 DEF OrderOK

(* A call keeps the default logger in agreement with what is installed,    *)
(* or has the means to bring it back.                                      *)
LEMMA CallerOrder ==
    ASSUME SetupOK, OrderOK, ~overlap, NEW c \in Callers, CallerStep(c)
    PROVE  OrderOK'
<1> USE DEF SetupOK
<1>1. Alone(c)
  BY AloneFact
<1>2. pc[c] \in Before => Agreed
  BY <1>1 DEF OrderOK, Alone, Before
<1>3. CASE \/ InitBegin(c) \/ ExporterFails(c) \/ StopNext(c) \/ StopDone(c) \/ Shutdown(c)
  <2>1. UNCHANGED << global, conf, default >>
    BY <1>3 DEF InitBegin, ExporterFails, StopNext, StopDone, Shutdown, setupVars, loggerVars
  <2>2. pc[c] \in Before /\ pc'[c] \notin {"build", "setdefault"}
    BY <1>3 DEF InitBegin, ExporterFails, StopNext, StopDone, Shutdown, Goto, First, TypeOK,
                Before, Resting, Kinds
  <2>3. Agreed'
    BY <1>2, <2>1, <2>2 DEF Agreed
  <2> QED
    BY <1>1, <2>2, <2>3, OrderOfOne
<1>4. CASE c \in Inits /\ Install(c)
  <2>1. /\ pc[c] \in Kinds /\ pc'[c] = After(pc[c]) /\ global' = [global EXCEPT ![pc[c]] = c]
        /\ UNCHANGED << conf, default >>
    BY <1>4 DEF Install, Goto, TypeOK, loggerVars
  <2>2. CASE pc[c] = "logger"
    <3>1. pc'[c] = "refresh"
      BY <2>1, <2>2 DEF After
    <3>2. pc'[c] \notin Before
      BY <3>1 DEF Before, Resting, Kinds
    <3> QED
      BY <1>1, <3>1, <3>2, OrderOfOne
  <2>3. CASE pc[c] # "logger"
    <3>1. pc'[c] \in {"meter", "logger"} /\ global'["logger"] = global["logger"]
      BY <2>1, <2>3 DEF After, Kinds, TypeOK
    <3>2. Agreed'
      BY <1>2, <2>1, <3>1 DEF Agreed, Before
    <3> QED
      BY <1>1, <3>1, <3>2, OrderOfOne
  <2> QED
    BY <2>2, <2>3
<1>5. CASE Refresh(c)
  <2>1. /\ pc'[c] = (IF conf = None THEN "ready" ELSE "build") /\ local'[c].conf = conf
        /\ UNCHANGED << conf, default >>
    <3>1. local[c] \in Handler /\ local[c].bridge = None
      BY <1>5 DEF Refresh, LocalOK, TypeOK
    <3>2. local'[c] = [local[c] EXCEPT !.conf = conf]
      BY <1>5 DEF Refresh, TypeOK
    <3>3. local'[c].conf = conf
      BY <3>1, <3>2, HandlerFacts DEF TypeOK
    <3> QED
      BY <1>5, <3>3 DEF Refresh, Goto, TypeOK
  <2>2. CASE conf = None
    <3>1. Agreed' /\ pc'[c] = "ready"
      BY <2>1, <2>2 DEF ConfOK, Agreed
    <3> QED
      BY <1>1, <3>1, OrderOfOne
  <2>3. CASE conf # None
    <3>1. pc'[c] = "build" /\ "build" \notin Before
      BY <2>1, <2>3 DEF Before, Resting, Kinds
    <3> QED
      BY <1>1, <2>1, <3>1, OrderOfOne
  <2> QED
    BY <2>2, <2>3
<1>6. CASE SetterBegin(c)
  <2>1. pc'[c] = "remember" /\ pc[c] = "idle" /\ UNCHANGED << global, conf, default >>
    BY <1>6 DEF SetterBegin, Goto, TypeOK, setupVars
  <2>2. Agreed'
    BY <1>2, <2>1 DEF Agreed, Before, Resting
  <2> QED
    BY <1>1, <2>1, <2>2, OrderOfOne
<1>7. CASE Remember(c)
  <2>1. pc'[c] = "build" /\ "build" \notin Before /\ local'[c].conf = conf'
    BY <1>7 DEF Remember, Goto, TypeOK, Before, Resting, Kinds
  <2> QED
    BY <1>1, <2>1, OrderOfOne
<1>8. CASE NewHandler(c)
  <2>1. /\ pc[c] = "build" /\ pc'[c] = "setdefault"
        /\ UNCHANGED << global, conf >>
        /\ local'[c] = [local[c] EXCEPT !.bridge = global["logger"]]
    BY <1>8 DEF NewHandler, Goto, Bridge, TypeOK, setupVars
  <2>2. local[c] \in Handler /\ local[c].conf # None /\ local[c].conf = conf
        /\ global["logger"] \in Inits \cup {None}
    BY <2>1 DEF LocalOK, OrderOK, TypeOK, Kinds
  <2>3. local'[c] \in Handler /\ local'[c].conf = conf /\ local'[c].bridge = global["logger"]
    BY <2>1, <2>2, HandlerFacts
  <2>4. local'[c] = [conf |-> conf', bridge |-> global'["logger"]]
    BY <2>1, <2>3, HandlerFacts
  <2>5. "setdefault" \notin Before
    BY DEF Before, Resting, Kinds
  <2> QED
    BY <1>1, <2>1, <2>4, <2>5, OrderOfOne
<1>9. CASE SetDefault(c)
  <2>1. pc[c] = "setdefault" /\ pc'[c] = "ready" /\ default' = local[c]
        /\ UNCHANGED << global, conf >>
    BY <1>9 DEF SetDefault, Goto, TypeOK, setupVars
  <2>2. Agreed'
    BY <2>1 DEF OrderOK, Agreed
  <2> QED
    BY <1>1, <2>1, <2>2, OrderOfOne
<1> QED
  BY <1>3, <1>4, <1>5, <1>6, <1>7, <1>8, <1>9 DEF CallerStep

(* Every step keeps OrderOK.                                               *)
LEMMA OrderStep == SetupOK /\ OrderOK /\ [Next]_vars => OrderOK'
<1> SUFFICES ASSUME SetupOK, OrderOK, [Next]_vars PROVE OrderOK'
  OBVIOUS
<1>1. overlap' = overlap
  BY Steps DEF InitBegin, Install, ExporterFails, StopNext, StopDone, Shutdown, Refresh,
     SetterBegin, Remember, NewHandler, SetDefault, HostSetDefault, SetLevel, LoggerStep,
     LogBegin, LogPlain, LogOut, LogBridge, setupVars, vars
<1>2. CASE overlap
  BY <1>1, <1>2 DEF OrderOK
<1>3. CASE ~overlap /\ \E c \in Callers : CallerStep(c)
  BY <1>3, CallerOrder
<1>4. CASE UNCHANGED << pc, setupVars, conf, local >> /\ (default' = default \/ default' = Foreign)
  BY <1>4, ForeignFacts DEF OrderOK, Agreed, setupVars
<1>5. \/ \E c \in Callers : CallerStep(c)
      \/ UNCHANGED << pc, setupVars, conf, local >> /\ (default' = default \/ default' = Foreign)
  <2>1. CASE \/ HostSetDefault \/ \E v \in Levels : SetLevel(v)
             \/ \E l \in Loggers : LoggerStep(l)
    BY <2>1 DEF HostSetDefault, SetLevel, LoggerStep, LogBegin, LogPlain, LogOut, LogBridge,
           vars, loggerVars
  <2>2. CASE UNCHANGED vars
    BY <2>2 DEF vars, loggerVars
  <2> QED
    BY <2>1, <2>2, Steps DEF CallerStep, Callers
<1> QED
  BY <1>2, <1>3, <1>4, <1>5

(* The proved form of OrderIndependent: whichever order the calls of Init, *)
(* of SetDefaultJSONLogger and of the host come in, if none overlaps       *)
(* another then the default logger has its bridge once they have returned. *)
THEOREM AnyOrder == Spec => []OrderIndependent
<1>1. Init => OrderOK
  BY ForeignFacts DEF Init, OrderOK, Agreed, Resting
<1>2. OrderOK => OrderIndependent
  BY DEF OrderOK, OrderIndependent, BridgeAttached, Agreed, Quiet, Before
<1> QED
  BY <1>1, <1>2, OrderStep, SetupInvariance, PTL DEF Spec
=============================================================================
