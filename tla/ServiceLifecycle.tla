-------------------------- MODULE ServiceLifecycle --------------------------
(***************************************************************************)
(* core/account_service.cpp, main.cpp, common/error.cpp and the frame of     *)
(* EventLoop::run: how one AccountService object is initialised component    *)
(* by component, runs its loop, is stopped by another thread, by a signal or *)
(* by an error, and is torn down.                                          *)
(*                                                                         *)
(* The owner thread calls initialize, run and the destructor in any order a  *)
(* single thread can, so initialize never meets a service that initialises   *)
(* or runs and its refusal of such a call is not reached; the controller     *)
(* calls stop while the loop object exists, never during initialize or the   *)
(* destructor (that would be a use after free the code does not guard        *)
(* against).  A client of the order API may live in the same process; its    *)
(* errors go to the same registry.  Every atomic access that the other       *)
(* thread can see is a step of its own.                                    *)
(***************************************************************************)
EXTENDS Configuration, Sequences, SequencesExt, FiniteSets, FiniteSetsExt

CONSTANTS
  Documents,        \* the configuration files there may be
  CommandLines,     \* option lists a tool may be given
  HistoryCapacity,  \* ErrorRegistry::kHistoryCapacity
  MaxCalls,         \* bound: calls of initialize and run
  MaxErrors,        \* bound: errors recorded by components
  MaxStops          \* bound: calls of stop and signals

ASSUME CommandLinesAssumption ==
  \A options \in CommandLines : Len(options) \in Nat /\ DOMAIN options = 1 .. Len(options)
ASSUME BoundsAssumption ==
  /\ HistoryCapacity \in Nat \ {0}
  /\ MaxCalls \in Nat /\ MaxErrors \in Nat /\ MaxStops \in Nat

VARIABLES
  config,   \* config_manager_
  state,    \* state_
  built,    \* the components that exist, the logger aside
  reason,   \* shutdown_reason_ of the object
  latch,    \* g_shutdown_reason
  ring,     \* the error history: its slots, history_pos_, history_size_
  running,  \* running_ of the event loop
  active,   \* g_active_loop points to the loop
  pc,       \* where the owner is
  step,     \* the component being built or torn down
  control,  \* where the controller's stop is, and the state it has read
  rc,       \* what run returned since the last initialize
  exit,     \* what main would return
  calls, errors, stops,
  journal,  \* ghost: every error recorded, in order
  mark      \* ghost: how many of them were recorded before the last initialize

vars == <<config, state, built, reason, latch, ring, running, active, pc, step, control, rc,
          exit, calls, errors, stops, journal, mark>>

environment == <<calls, errors, stops>>

ServiceStates == {"Created", "Initializing", "Ready", "Running", "Stopping", "Stopped", "Error"}

-----------------------------------------------------------------------------
(* common/error.cpp.                                                       *)

Severity == [none |-> 0, Recoverable |-> 1, Critical |-> 2, Fatal |-> 3]
None == Severity["none"]
Critical == Severity["Critical"]

Error(domain, code) == [domain |-> domain, code |-> code]

FatalCodes == {"PositionUpdateFailed", "OrderInvariantBroken", "ShmHeaderCorrupted", "InternalError"}
RecoverableCodes ==
  {"Ok", "InvalidOrderId", "DuplicateOrder", "InvalidParam", "OrderBookFull", "OrderNotFound",
   "QueueFull", "QueuePushFailed", "QueuePopFailed", "RouteFailed", "SplitFailed",
   "OrderPoolFull", "HealthCheckFailed", "LoggerQueueFull"}

\* The severity classify gives.  The branches for config, shm, order and portfolio
\* repeat, for the codes they name, what classify_by_code says of them and fall
\* back to it for all others, so the code alone decides.
Classify(e) ==
  IF e.code \in FatalCodes THEN Severity["Fatal"]
  ELSE IF e.code \in RecoverableCodes THEN Severity["Recoverable"]
  ELSE Critical

\* Fault: an error of a client's call stops the service that shares its process.
StopsServiceBySeverity(e) == Classify(e) >= Critical

\* The policy classify gives: an error of the order API keeps its severity and
\* stops nothing (classify_for_api).
StopsService(e) == e.domain # "api" /\ Classify(e) >= Critical

\* ErrorRegistry::recent_errors.
RecentErrors(r) ==
  LET start == IF r.size = HistoryCapacity THEN r.pos ELSE 0
  IN [i \in 1 .. r.size |-> r.slots[(start + i - 1) % HistoryCapacity]]

\* ErrorRegistry::record.
Filed(r, e) ==
  [slots |-> [r.slots EXCEPT ![r.pos] = e],
   pos |-> (r.pos + 1) % HistoryCapacity,
   size |-> IF r.size < HistoryCapacity THEN r.size + 1 ELSE r.size]

Higher(a, b) == IF a < b THEN b ELSE a

\* record_error and request_shutdown: only an error whose policy stops the
\* service reaches the latch, and the latch only rises.
Latched(l, e) == IF StopsService(e) THEN Higher(l, Classify(e)) ELSE l

\* record_error, for one error, or for two recorded one after the other.
Record(es) ==
  /\ ring' = IF Len(es) = 1 THEN Filed(ring, es[1]) ELSE Filed(Filed(ring, es[1]), es[2])
  /\ latch' = IF Len(es) = 1 THEN Latched(latch, es[1]) ELSE Latched(Latched(latch, es[1]), es[2])
  /\ journal' = journal \o es
  /\ UNCHANGED mark

\* raise_service_error, after what the failing part recorded by itself.
Raise(before, code) ==
  /\ Record(Append(before, Error("core", code)))
  /\ reason' = Higher(reason, Classify(Error("core", code)))

-----------------------------------------------------------------------------
(* What initialize builds, in order, and what each part holds a reference to. *)

Components == <<"recorder", "shm", "positions", "risk", "book", "router", "market_data",
                "execution", "event_loop">>
Uses ==
  [recorder |-> {}, shm |-> {}, positions |-> {"shm"}, risk |-> {"positions"}, book |-> {},
   router |-> {"book", "shm"}, market_data |-> {},
   execution |-> {"book", "router", "market_data", "recorder"},
   event_loop |-> {"shm", "book", "router", "positions", "risk", "execution", "recorder"}]

\* Fault: the book goes first, while the loop still holds its callback.
TeardownBookFirst == <<"book", "event_loop", "execution", "market_data", "router", "recorder",
                       "risk", "positions", "shm">>

\* cleanup.
Teardown == <<"event_loop", "execution", "market_data", "router", "book", "recorder", "risk",
              "positions", "shm">>

\* Can building this component fail for a reason outside the object?
MayFail(c) ==
  CASE c = "recorder" -> config.business_log
    [] c = "market_data" -> config.market_data /\ ~config.price_fallback
    [] c \in {"shm", "positions", "router"} -> TRUE
    [] OTHER -> FALSE

\* StrategyRegistry::create knows one name.
MustFail(c) ==
  /\ c = "execution" /\ config.active_strategy
  /\ config.strategy_name \notin {"none", "prediction_signal"}

\* What a failing part records before the service raises its own error.
OwnErrors(c) ==
  CASE c = "shm" -> <<Error("shm", "ShmOpenFailed")>>
    [] c = "positions" -> <<Error("portfolio", "PositionUpdateFailed")>>
    [] OTHER -> <<>>

FailureCode(c) ==
  CASE c = "shm" -> "ShmOpenFailed" [] c = "recorder" -> "LoggerInitFailed"
    [] c = "execution" -> "InvalidConfig" [] OTHER -> "ComponentUnavailable"

-----------------------------------------------------------------------------

NoError == Error("none", "Ok")

Init ==
  /\ config = DefaultConfig /\ state = "Created" /\ built = {}
  /\ reason = None /\ latch = None
  /\ ring = [slots |-> [i \in 0 .. HistoryCapacity - 1 |-> NoError], pos |-> 0, size |-> 0]
  /\ running = FALSE /\ active = FALSE
  /\ pc = "idle" /\ step = 0 /\ control = [pc |-> "idle", read |-> "Created"]
  /\ rc = "none" /\ exit = "none"
  /\ calls = 0 /\ errors = 0 /\ stops = 0
  /\ journal = <<>> /\ mark = 0

\* The owner may call: nothing of its own is under way, the process goes on.
OwnerFree == pc = "idle" /\ exit = "none"

(* initialize, in the owner's thread.                                        *)

BeginInitialize ==
  /\ OwnerFree /\ calls < MaxCalls /\ control.pc = "idle"
  /\ calls' = calls + 1
  /\ latch' = None /\ mark' = Len(journal)
  /\ state' = "Initializing" /\ rc' = "none"
  /\ pc' = "cleanup_first" /\ step' = 1
  /\ UNCHANGED <<config, built, reason, ring, running, active, control, exit, errors, stops,
                 journal>>

\* cleanup, one reset at a time; where it goes on afterwards is in pc.
CleanupStep ==
  /\ pc \in {"cleanup_first", "cleanup_failed", "cleanup_last"}
  /\ step <= Len(Teardown)
  /\ built' = built \ {Teardown[step]}
  /\ running' = (running /\ Teardown[step] # "event_loop")
  /\ step' = step + 1
  /\ UNCHANGED <<config, state, reason, latch, ring, active, pc, control, rc, exit, environment,
                 journal, mark>>

CleanupDone ==
  /\ pc \in {"cleanup_first", "cleanup_failed", "cleanup_last"}
  /\ step > Len(Teardown)
  /\ pc' = CASE pc = "cleanup_first" -> "config" [] pc = "cleanup_failed" -> "failed"
             [] OTHER -> "destroyed"
  /\ step' = 1
  /\ state' = IF pc = "cleanup_last" THEN "Stopped" ELSE state
  /\ UNCHANGED <<config, built, reason, latch, ring, running, active, control, rc, exit,
                 environment, journal, mark>>

\* A part of initialize failed: the error is raised, then everything goes.
Fail(before, code) ==
  /\ Raise(before, code)
  /\ state' = "Error"
  /\ pc' = "cleanup_failed" /\ step' = 1

\* init_config, then init_logger, which the surroundings may refuse.
InitConfig(doc, logger) ==
  /\ pc = "config"
  /\ config' = Loaded(config, doc).config
  /\ IF ~Loaded(config, doc).ok
     THEN Fail(<<Error("config", IF Readable(doc) THEN "ConfigValidateFailed"
                                 ELSE "ConfigParseFailed")>>, "ConfigParseFailed")
     ELSE IF ~logger THEN Fail(<<>>, "LoggerInitFailed")
     ELSE /\ pc' = "build" /\ step' = 1
          /\ UNCHANGED <<state, reason, latch, ring, journal, mark>>
  /\ UNCHANGED <<built, running, active, control, rc, exit, environment>>

BuildComponent(ok) ==
  /\ pc = "build" /\ step <= Len(Components)
  /\ LET c == Components[step]
     IN IF (MayFail(c) /\ ~ok) \/ MustFail(c)
        THEN Fail(OwnErrors(c), FailureCode(c)) /\ UNCHANGED built
        ELSE /\ built' = built \cup {c}
             /\ step' = step + 1
             /\ UNCHANGED <<pc, state, reason, latch, ring, journal, mark>>
  /\ UNCHANGED <<config, running, active, control, rc, exit, environment>>

InitializeDone ==
  /\ pc = "build" /\ step > Len(Components)
  /\ state' = "Ready"
  /\ pc' = "idle" /\ step' = 0
  /\ UNCHANGED <<config, built, reason, latch, ring, running, active, control, rc, exit,
                 environment, journal, mark>>

\* initialize returned false: main returns 1, another owner may try again.
InitializeFailed(quit) ==
  /\ pc = "failed"
  /\ pc' = "idle" /\ step' = 0
  /\ exit' = IF quit THEN "1" ELSE "none"
  /\ UNCHANGED <<config, state, built, reason, latch, ring, running, active, control, rc,
                 environment, journal, mark>>

-----------------------------------------------------------------------------
(* run and EventLoop::run.                                                  *)

BeginRun ==
  /\ OwnerFree /\ calls < MaxCalls
  /\ calls' = calls + 1
  /\ IF "event_loop" \notin built
     THEN Raise(<<>>, "ComponentUnavailable") /\ rc' = "-1" /\ UNCHANGED <<state, pc>>
     ELSE IF state \notin {"Ready", "Stopped"}
     THEN Raise(<<>>, "InvalidState") /\ rc' = "-1" /\ UNCHANGED <<state, pc>>
     ELSE /\ state' = "Running" /\ pc' = "enter" /\ rc' = "none"
          /\ UNCHANGED <<reason, latch, ring, journal, mark>>
  /\ UNCHANGED <<config, built, running, active, step, control, exit, errors, stops>>

\* The compare-exchange on running_.
EnterLoop ==
  /\ pc = "enter"
  /\ running' = TRUE
  /\ pc' = "arm"
  /\ UNCHANGED <<config, state, built, reason, latch, ring, active, step, control, rc, exit,
                 environment, journal, mark>>

\* setup_signal_handlers and the store to g_active_loop.
ArmSignals ==
  /\ pc = "arm"
  /\ active' = TRUE
  /\ pc' = "check"
  /\ UNCHANGED <<config, state, built, reason, latch, ring, running, step, control, rc, exit,
                 environment, journal, mark>>

CheckRunning ==
  /\ pc = "check"
  /\ pc' = IF running THEN "iterate" ELSE "leave"
  /\ UNCHANGED <<config, state, built, reason, latch, ring, running, active, step, control, rc,
                 exit, environment, journal, mark>>

\* loop_iteration: its handlers record what goes wrong and go on.
Iterate ==
  /\ pc = "iterate"
  /\ pc' = "poll"
  /\ UNCHANGED <<config, state, built, reason, latch, ring, running, active, step, control, rc,
                 exit, environment, journal, mark>>

LoopError(e) ==
  /\ pc = "iterate" /\ errors < MaxErrors
  /\ errors' = errors + 1
  /\ Record(<<e>>)
  /\ pc' = "poll"
  /\ UNCHANGED <<config, state, built, reason, running, active, step, control, rc, exit, calls,
                 stops>>

\* should_stop_service after every iteration.
PollLatch ==
  /\ pc = "poll"
  /\ running' = (running /\ latch < Critical)
  /\ pc' = "check"
  /\ UNCHANGED <<config, state, built, reason, latch, ring, active, step, control, rc, exit,
                 environment, journal, mark>>

LeaveLoop ==
  /\ pc = "leave"
  /\ running' = FALSE /\ active' = FALSE
  /\ pc' = "after"
  /\ UNCHANGED <<config, state, built, reason, latch, ring, step, control, rc, exit, environment,
                 journal, mark>>

\* run again: an error wins over an orderly stop.
AfterLoop ==
  /\ pc = "after"
  /\ IF reason >= Critical \/ latch >= Critical
     THEN state' = "Error" /\ running' = FALSE /\ rc' = "-1" /\ pc' = "idle"
     ELSE /\ state' = IF state \in {"Stopping", "Running"} THEN "Stopped" ELSE state
          /\ pc' = "result"
          /\ UNCHANGED <<running, rc>>
  /\ UNCHANGED <<config, built, reason, latch, ring, active, step, control, exit, environment,
                 journal, mark>>

RunResult ==
  /\ pc = "result"
  /\ rc' = IF state = "Stopped" THEN "0" ELSE "-1"
  /\ pc' = "idle"
  /\ UNCHANGED <<config, state, built, reason, latch, ring, running, active, step, control, exit,
                 environment, journal, mark>>

-----------------------------------------------------------------------------
(* The end of main, the destructor, and the other threads.                    *)

\* main asks the latch once more before it reports success.
ExitCode == IF latch >= Critical \/ rc # "0" THEN "1" ELSE "0"

Exit ==
  /\ OwnerFree /\ rc # "none"
  /\ exit' = ExitCode
  /\ UNCHANGED <<config, state, built, reason, latch, ring, running, active, pc, step, control,
                 rc, environment, journal, mark>>

\* ~AccountService: stop, cleanup, the logger, Stopped.
Destroy ==
  /\ pc = "idle" /\ control.pc = "idle"
  /\ running' = FALSE
  /\ pc' = "cleanup_last" /\ step' = 1
  /\ UNCHANGED <<config, state, built, reason, latch, ring, active, control, rc, exit,
                 environment, journal, mark>>

\* api_error: a call of the order API in the same process fails.
ApiError(e) ==
  /\ errors < MaxErrors /\ exit = "none" /\ pc # "destroyed"
  /\ errors' = errors + 1
  /\ Record(<<e>>)
  /\ UNCHANGED <<config, state, built, reason, running, active, pc, step, control, rc, exit,
                 calls, stops>>

\* AccountService::stop by the controller: read the state, store it, clear running_.
StopRead ==
  /\ control.pc = "idle" /\ stops < MaxStops
  /\ "event_loop" \in built /\ pc \in {"idle", "enter", "arm", "check", "iterate", "poll",
                                       "leave", "after", "result"}
  /\ stops' = stops + 1
  /\ control' = [pc |-> "store", read |-> state]
  /\ UNCHANGED <<config, state, built, reason, latch, ring, running, active, pc, step, rc, exit,
                 calls, errors, journal, mark>>

StopStore ==
  /\ control.pc = "store"
  /\ state' = IF control.read = "Running" THEN "Stopping" ELSE state
  /\ control' = [control EXCEPT !.pc = "flag"]
  /\ UNCHANGED <<config, built, reason, latch, ring, running, active, pc, step, rc, exit,
                 environment, journal, mark>>

\* Fault: the state says Stopping and the loop is not told.
StopFlagForgotten ==
  /\ control.pc = "flag"
  /\ control' = [pc |-> "idle", read |-> "Created"]
  /\ UNCHANGED <<config, state, built, reason, latch, ring, running, active, pc, step, rc, exit,
                 environment, journal, mark>>

StopFlag ==
  /\ control.pc = "flag"
  /\ running' = FALSE
  /\ control' = [pc |-> "idle", read |-> "Created"]
  /\ UNCHANGED <<config, state, built, reason, latch, ring, active, pc, step, rc, exit,
                 environment, journal, mark>>

\* signal_handler.
Signal ==
  /\ active /\ stops < MaxStops
  /\ stops' = stops + 1
  /\ running' = FALSE
  /\ UNCHANGED <<config, state, built, reason, latch, ring, active, pc, step, control, rc, exit,
                 calls, errors, journal, mark>>

LoopErrors == {Error("order", "QueuePushFailed"), Error("portfolio", "PositionUpdateFailed")}
ApiErrors == {Error("api", "InvalidState")}

Initialize ==
  \/ CleanupStep \/ CleanupDone
  \/ \E doc \in Documents, logger \in BOOLEAN : InitConfig(doc, logger)
  \/ \E ok \in BOOLEAN : BuildComponent(ok)
  \/ InitializeDone \/ \E quit \in BOOLEAN : InitializeFailed(quit)

RunLoop ==
  \/ EnterLoop \/ ArmSignals \/ CheckRunning \/ Iterate \/ PollLatch \/ LeaveLoop
  \/ AfterLoop \/ RunResult

StopCall == StopStore \/ StopFlag

Next ==
  \/ BeginInitialize \/ Initialize \/ BeginRun \/ RunLoop \/ Exit \/ Destroy
  \/ \E e \in LoopErrors : LoopError(e)
  \/ \E e \in ApiErrors : ApiError(e)
  \/ StopRead \/ StopCall \/ Signal

\* A thread inside a call goes on; nobody has to make the next call.
Fairness == WF_vars(Initialize) /\ WF_vars(RunLoop) /\ WF_vars(StopCall)

Spec == Init /\ [][Next]_vars /\ Fairness

-----------------------------------------------------------------------------
(* Properties.                                                             *)

Looping == {"arm", "check", "iterate", "poll", "leave", "after", "result"}

TypeOK ==
  /\ state \in ServiceStates /\ built \subseteq Range(Components)
  /\ reason \in Range(Severity) /\ latch \in Range(Severity)
  /\ ring.pos \in 0 .. HistoryCapacity - 1 /\ ring.size \in 0 .. HistoryCapacity
  /\ running \in BOOLEAN /\ active \in BOOLEAN
  /\ pc \in Looping \cup {"idle", "cleanup_first", "cleanup_failed", "cleanup_last", "config",
                          "build", "failed", "enter", "destroyed"}
  /\ step \in 0 .. Len(Components) + 1
  /\ control.pc \in {"idle", "store", "flag"}
  /\ rc \in {"none", "0", "-1"} /\ exit \in {"none", "0", "1"}

\* A service that is ready or runs has every component, and the configuration
\* they were built from passes validate, whatever files and failed attempts to
\* initialise came before (initialize, load_from_file, cleanup).
ServedConfigIsValid ==
  ((state = "Ready" /\ pc = "idle") \/ pc \in Looping) => Valid(config) /\ built = Range(Components)

\* A component outlives everything that holds a reference to it, while the
\* service is built, after a failure half way and in the destructor: the event
\* loop's own destructor still calls the order book (initialize, cleanup).
DependenciesOutliveUsers == \A c \in built : Uses[c] \subseteq built

\* Only an error outside the order API can stop a service.
Serious(e) == e.domain # "api" /\ e.code \notin RecoverableCodes

\* The exit code agrees with the record of errors.  Success means that nothing
\* serious has been recorded since initialize was last called.  Failure after a
\* run means that something serious was recorded at some time (shutdown_reason_
\* of the object is never cleared), or that a stop which had read Running stored
\* Stopping only when the run was over; a client's failed calls alone never
\* change it (record_error, request_shutdown, raise_service_error, stop, run, main).
ExitCodeTellsTheTruth ==
  /\ exit = "0" => \A i \in mark + 1 .. Len(journal) : ~Serious(journal[i])
  /\ exit = "1" /\ rc # "none" /\ pc = "idle" =>
       state = "Stopping" \/ \E i \in DOMAIN journal : Serious(journal[i])

\* The history holds the latest errors in the order they were recorded, also
\* once it has wrapped (ErrorRegistry::record and recent_errors).
HistoryHoldsTheLatest ==
  RecentErrors(ring) =
    SubSeq(journal, Len(journal) - Min({Len(journal), HistoryCapacity}) + 1, Len(journal))

\* Exporting is stable: the export of any configuration the service can hold,
\* read by a manager that knows only the defaults, is accepted and exports the
\* same text again (write_config_yaml against load_from_file).
ExportIsStable ==
  (state = "Ready" /\ pc = "idle") =>
    LET reread == Loaded(DefaultConfig, Exported(config))
    IN reread.ok /\ Exported(reread.config) = Exported(config)

\* Options that were accepted leave the value of the last option for each key
\* given after the last --config (parse_command_line applies them in place, one
\* by one, and a file given among them overrides those before it).
AcceptedOptionsAreInForce ==
  (state = "Ready" /\ pc = "idle") =>
    \A options \in CommandLines :
      LET result == CommandLine(config, options)
          Final(i) == \A j \in i + 1 .. Len(options) :
                        options[j].name \notin {options[i].name, "--config"}
      IN result.ok =>
           \A i \in DOMAIN options :
             options[i].name \in ConfigKeys /\ Final(i) =>
               result.config[options[i].name] =
                 Parsed(KeyKind[options[i].name], options[i].value)

\* What is refused is not applied by halves.  A refused file leaves everything as
\* it was, or, when only its combination of values is refused, every value it
\* gives; the next file is read on top of that.  Options, accepted or refused,
\* leave a key as it was or with a value that one of them gives it
\* (load_from_file works on a copy until all keys are read; parse_command_line).
RejectionsAreWhole ==
  pc = "idle" =>
    /\ \A doc \in Documents :
         LET result == Loaded(config, doc)
         IN \/ result.ok \/ result.config = config
            \/ \A k \in DOMAIN doc \cap ConfigKeys :
                 result.config[k] = Parsed(KeyKind[k], doc[k])
    /\ \A options \in CommandLines, k \in ConfigKeys :
         LET value == CommandLine(config, options).config[k]
         IN \/ value = config[k]
            \/ \E i \in DOMAIN options :
                 \/ options[i].name = "--config"
                 \/ options[i].name = k /\ value = Parsed(KeyKind[k], options[i].value)

\* A critical or fatal error recorded before run has asked for one ends the
\* run, and run reports it (PollLatch, AfterLoop).
CriticalErrorEndsTheRun ==
  (pc \in Looping \ {"result"} /\ latch >= Critical) ~> (pc = "idle" /\ rc = "-1")

\* A stop that reaches the loop after it has taken running_ ends the run, even
\* if nothing else happens (EventLoop::stop, the loop's condition).
StopEndsTheRun == (control.pc = "flag" /\ pc \in Looping) ~> pc = "idle"

\* The object in every state, half built or half torn down: references point to
\* living components, and the error ring holds the latest errors
\* (account_service.cpp initialize and cleanup, error.cpp).
ServiceInvariant == TypeOK /\ DependenciesOutliveUsers /\ HistoryHoldsTheLatest

\* The configuration in every state: what is served was validated, accepted
\* options are in force, what is refused is not applied by halves, and an export
\* reads back as itself
\* (config_manager.cpp load_from_file, parse_command_line, export_to_file).
ConfigurationIsSound ==
  ServedConfigIsValid /\ AcceptedOptionsAreInForce /\ RejectionsAreWhole /\ ExportIsStable

\* A run ends after a stop that reached it and after a critical error.
RunsEnd == StopEndsTheRun /\ CriticalErrorEndsTheRun
=============================================================================
