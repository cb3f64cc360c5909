----------------------------- MODULE Telemetry -----------------------------
(***************************************************************************)
(* The start-up, shut-down and default logger of pkg/otelsetup.  Init      *)
(* installs global providers one after the other and unwinds them when one *)
(* cannot be made; SetDefaultJSONLogger installs the process's logger;     *)
(* either order must leave that logger with a bridge to the provider of    *)
(* logs.  Records pass the logger while its level is retuned.              *)
(*                                                                         *)
(* A caller makes one call.  A provider is named by its kind and the call  *)
(* of Init that made it, a logger's configuration by the call of           *)
(* SetDefaultJSONLogger that made it.  Each access to a global, atomic in  *)
(* its library or under installedDefault.mu, is one action.                *)
(***************************************************************************)
EXTENDS Naturals, Sequences

CONSTANTS
    Inits,          \* calls of Init
    Setters,        \* calls of SetDefaultJSONLogger
    Loggers,        \* goroutines that log records, one after another
    Tracing,        \* whether each call of Init is without WithoutTracing
    Levels,         \* levels of severity
    HostLogs,       \* the host process may install a logger of its own
    None            \* no provider, no configuration

Callers == Inits \cup Setters

ASSUME CallerAssumption == Inits \cap Setters = {} /\ None \notin Callers
ASSUME OptionAssumption ==
    /\ Tracing \in [Inits -> BOOLEAN]
    /\ HostLogs \in BOOLEAN
ASSUME LevelAssumption == Levels \subseteq Nat /\ Levels # {}

VARIABLES
    overlap,       \* whether the process makes set-up calls that overlap
    exportEnabled, \* the environment names an OTLP endpoint and does not disable the SDK
    pc,         \* where each caller is
    propagator, \* the W3C propagator is the global one
    global,     \* the global provider of each kind, named by its Init
    running,    \* the providers that run
    installed,  \* each Init's installed: the kinds it has yet to stop
    conf,       \* installedDefault.conf
    local,      \* each caller's local conf, and then the handler it built
    default,    \* slog's default logger
    level,      \* defaultLevel
    rec         \* each logger's record under way

setupVars  == << overlap, exportEnabled, propagator, global, running, installed >>
loggerVars == << conf, local, default >>
vars == << pc, setupVars, loggerVars, level, rec >>

Kinds == {"tracer", "meter", "logger"}
Sinks == {"out", "otlp"}

(* A logger: the configuration it was built from, None if the host built   *)
(* it, and the provider its bridge goes to, None if it has no bridge.      *)
Handler == { h \in [conf : Setters \cup {None}, bridge : Inits \cup {None}] :
                h.conf = None => h.bridge = None }
Foreign == [conf |-> None, bridge |-> None]

Resting == {"idle", "noop", "ready", "failed", "down"}
Quiet == \A c \in Callers : pc[c] \in Resting
MayStart == overlap \/ Quiet

Goto(c, where) == pc' = [pc EXCEPT ![c] = where]
----------------------------------------------------------------------------
(* Init, to the first exporter.  newResource may fail.                     *)

First(i) == IF Tracing[i] THEN "tracer" ELSE "meter"

InitBegin(i) ==
    /\ pc[i] = "idle" /\ MayStart
    /\ propagator' = (propagator \/ Tracing[i])
    /\ \/ ~exportEnabled /\ Goto(i, "noop")
       \/ exportEnabled /\ Goto(i, First(i))
       \/ exportEnabled /\ Goto(i, "failed")
    /\ UNCHANGED << overlap, exportEnabled, global, running, installed, loggerVars, level, rec >>

After(kind) == CASE kind = "tracer" -> "meter"
                 [] kind = "meter"  -> "logger"
                 [] kind = "logger" -> "refresh"

(* An exporter is made, and its provider becomes the global one.           *)
Install(i) ==
    /\ pc[i] \in Kinds
    /\ global' = [global EXCEPT ![pc[i]] = i]
    /\ running' = running \cup {<< pc[i], i >>}
    /\ installed' = [installed EXCEPT ![i] = Append(@, pc[i])]
    /\ Goto(i, After(pc[i]))
    /\ UNCHANGED << overlap, exportEnabled, propagator, loggerVars, level, rec >>

(* An exporter cannot be made.  Those before it are unwound.               *)
ExporterFails(i) ==
    /\ pc[i] \in Kinds
    /\ Goto(i, IF pc[i] = "tracer" THEN "failed" ELSE "unwind")
    /\ UNCHANGED << setupVars, loggerVars, level, rec >>

(* shutdownAll, and the shutdown function that Init returns.  A provider   *)
(* that reports an error is stopped all the same, and the others follow.   *)
StopOrGiveUp(i) ==                      \* mutant: the first error ends the loop
    /\ pc[i] \in {"unwind", "stopping"}
    /\ installed[i] # << >>
    /\ running' = running \ {<< Head(installed[i]), i >>}
    /\ \/ installed' = [installed EXCEPT ![i] = Tail(@)]
       \/ installed' = [installed EXCEPT ![i] = << >>]
    /\ UNCHANGED << overlap, exportEnabled, pc, propagator, global, loggerVars, level, rec >>

StopNext(i) ==
    /\ pc[i] \in {"unwind", "stopping"}
    /\ installed[i] # << >>
    /\ running' = running \ {<< Head(installed[i]), i >>}
    /\ installed' = [installed EXCEPT ![i] = Tail(@)]
    /\ UNCHANGED << overlap, exportEnabled, pc, propagator, global, loggerVars, level, rec >>

StopDone(i) ==
    /\ pc[i] \in {"unwind", "stopping"}
    /\ installed[i] = << >>
    /\ Goto(i, IF pc[i] = "unwind" THEN "failed" ELSE "down")
    /\ UNCHANGED << setupVars, loggerVars, level, rec >>

Shutdown(i) ==
    /\ pc[i] = "ready" /\ MayStart
    /\ Goto(i, "stopping")
    /\ UNCHANGED << setupVars, loggerVars, level, rec >>

(* refreshDefaultLogger: it reads the configuration, then builds.          *)
RefreshUnchecked(i) ==                  \* mutant: a nil configuration is used
    /\ pc[i] = "refresh"
    /\ Goto(i, "build")
    /\ local' = [local EXCEPT ![i].conf = conf]
    /\ UNCHANGED << setupVars, conf, default, level, rec >>

Refresh(i) ==
    /\ pc[i] = "refresh"
    /\ Goto(i, IF conf = None THEN "ready" ELSE "build")
    /\ local' = [local EXCEPT ![i].conf = conf]
    /\ UNCHANGED << setupVars, conf, default, level, rec >>
----------------------------------------------------------------------------
(* SetDefaultJSONLogger.                                                   *)

(* A record under way sees the new level too.                              *)
Retune(v) ==
    /\ level' = v
    /\ rec' = [l \in Loggers |->
                  [rec[l] EXCEPT !.seen = @ \cup (IF rec[l].at \in {"out", "otlp"} THEN {v} ELSE {})]]

SetterBegin(s) ==
    /\ pc[s] = "idle" /\ MayStart
    /\ \E v \in Levels : Retune(v)
    /\ local' = [local EXCEPT ![s].conf = s]
    /\ Goto(s, "remember")
    /\ UNCHANGED << setupVars, conf, default >>

Remember(s) ==
    /\ pc[s] = "remember"
    /\ conf' = local[s].conf
    /\ Goto(s, "build")
    /\ UNCHANGED << setupVars, local, default, level, rec >>

(* newHandler, in either caller: with a bridge if there is a provider.     *)
NeverBridged(c) == None                 \* mutant: the provider is not asked
Bridge(c) == global["logger"]

NewHandler(c) ==
    /\ pc[c] = "build"
    /\ local' = [local EXCEPT ![c].bridge = Bridge(c)]
    /\ Goto(c, "setdefault")
    /\ UNCHANGED << setupVars, conf, default, level, rec >>

SetDefault(c) ==
    /\ pc[c] = "setdefault"
    /\ default' = local[c]
    /\ Goto(c, "ready")
    /\ UNCHANGED << setupVars, conf, local, level, rec >>

(* slog.SetDefault, called by the host process.                            *)
HostSetDefault ==
    /\ HostLogs /\ MayStart
    /\ default' = Foreign
    /\ UNCHANGED << pc, setupVars, conf, local, level, rec >>

SetLevel(v) ==
    /\ Retune(v)
    /\ UNCHANGED << pc, setupVars, loggerVars >>
----------------------------------------------------------------------------
(* A record on its way through a logger of this package: slog asks whether *)
(* it is enabled; a logger with a bridge is a fan-out, which asks each of  *)
(* its handlers again before it hands them the record.  seen has the       *)
(* levels in force while the record is on its way.                         *)

Record == [at : {"none", "out", "otlp", "done"}, severity : Levels, seen : SUBSET Levels,
           handler : Handler, got : SUBSET Sinks]

AlwaysEnabled(sink, severity) == sink = "otlp" \/ severity >= level   \* mutant: no levelHandler
Enabled(sink, severity) == severity >= level

SinksOf(handler) == IF handler.bridge = None THEN {"out"} ELSE Sinks

LogBegin(l, v) ==
    /\ rec[l].at \in {"none", "done"}
    /\ default.conf # None
    /\ rec' = [rec EXCEPT ![l] =
                 [at |-> IF \E sink \in SinksOf(default) : Enabled(sink, v) THEN "out" ELSE "done",
                  severity |-> v, seen |-> {level}, handler |-> default, got |-> {}]]
    /\ UNCHANGED << pc, setupVars, loggerVars, level >>

Handle(l, sink) ==
    IF Enabled(sink, rec[l].severity) THEN rec[l].got \cup {sink} ELSE rec[l].got

LogPlain(l) ==
    /\ rec[l].at = "out" /\ rec[l].handler.bridge = None
    /\ rec' = [rec EXCEPT ![l].got = {"out"}, ![l].at = "done"]
    /\ UNCHANGED << pc, setupVars, loggerVars, level >>

LogOut(l) ==
    /\ rec[l].at = "out" /\ rec[l].handler.bridge # None
    /\ rec' = [rec EXCEPT ![l].got = Handle(l, "out"), ![l].at = "otlp"]
    /\ UNCHANGED << pc, setupVars, loggerVars, level >>

LogBridge(l) ==
    /\ rec[l].at = "otlp"
    /\ rec' = [rec EXCEPT ![l].got = Handle(l, "otlp"), ![l].at = "done"]
    /\ UNCHANGED << pc, setupVars, loggerVars, level >>
----------------------------------------------------------------------------
Init ==
    /\ overlap \in BOOLEAN /\ exportEnabled \in BOOLEAN
    /\ pc = [c \in Callers |-> "idle"]
    /\ propagator = FALSE
    /\ global = [k \in Kinds |-> None]
    /\ running = {}
    /\ installed = [i \in Inits |-> << >>]
    /\ conf = None
    /\ local = [c \in Callers |-> Foreign]
    /\ default = Foreign
    /\ level \in Levels
    /\ \E v \in Levels :
          rec = [l \in Loggers |-> [at |-> "none", severity |-> v, seen |-> {},
                                    handler |-> Foreign, got |-> {}]]

InitStep(i) ==
    \/ InitBegin(i) \/ Install(i) \/ ExporterFails(i) \/ Refresh(i)
    \/ StopNext(i) \/ StopDone(i) \/ Shutdown(i)

SetterStep(s) == SetterBegin(s) \/ Remember(s)

LoggerStep(l) ==
    \/ \E v \in Levels : LogBegin(l, v)
    \/ LogPlain(l) \/ LogOut(l) \/ LogBridge(l)

Next ==
    \/ \E i \in Inits : InitStep(i)
    \/ \E s \in Setters : SetterStep(s)
    \/ \E c \in Callers : NewHandler(c) \/ SetDefault(c)
    \/ HostSetDefault
    \/ \E v \in Levels : SetLevel(v)
    \/ \E l \in Loggers : LoggerStep(l)

Spec == Init /\ [][Next]_vars
----------------------------------------------------------------------------
(* Every variable keeps its type; only providers that were made run.       *)
TypeOK ==
    /\ pc \in [Callers -> Resting \cup Kinds \cup
                  {"unwind", "stopping", "refresh", "remember", "build", "setdefault"}]
    /\ overlap \in BOOLEAN /\ exportEnabled \in BOOLEAN /\ propagator \in BOOLEAN
    /\ global \in [Kinds -> Inits \cup {None}]
    /\ running \subseteq Kinds \X Inits
    /\ installed \in [Inits -> Seq(Kinds)]
    /\ conf \in Setters \cup {None}
    /\ local \in [Callers -> Handler]
    /\ default \in Handler
    /\ level \in Levels
    /\ rec \in [Loggers -> Record]

(* An Init that failed, at whichever exporter, and one that was shut down  *)
(* leave no provider running, whatever the providers report on the way     *)
(* (otelsetup.go, shutdownAll and shutdown).                               *)
NothingLeaks ==
    \A i \in Inits : pc[i] \in {"failed", "down"} => \A k \in Kinds : << k, i >> \notin running

(* Claim of slog.go, SetDefaultJSONLogger: whichever order the set-up calls*)
(* come in, once they have returned the default logger is the last one     *)
(* asked for and has a bridge to the last provider.                        *)
BridgeAttached ==
    Quiet /\ default.conf # None =>
        default = [conf |-> conf, bridge |-> global["logger"]]

(* That much is so when the calls do not overlap, in every order of them,  *)
(* and with a host that installs loggers of its own in between (slog.go,   *)
(* SetDefaultJSONLogger and refreshDefaultLogger).                         *)
OrderIndependent == ~overlap => BridgeAttached

(* However the level moves meanwhile, a record severe enough for every     *)
(* level it saw reached all of its logger's sinks, one severe enough for   *)
(* none of them reached no sink, and a sink the logger lacks got nothing   *)
(* (slog.go, levelHandler and fanoutHandler).                              *)
SinksAgree ==
    \A l \in Loggers : rec[l].at = "done" =>
        /\ rec[l].got \subseteq SinksOf(rec[l].handler)
        /\ (\A v \in rec[l].seen : rec[l].severity >= v) => rec[l].got = SinksOf(rec[l].handler)
        /\ (\A v \in rec[l].seen : rec[l].severity < v) => rec[l].got = {}
=============================================================================
