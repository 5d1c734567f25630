--------------------------- MODULE ServerLifecycle ---------------------------
(****************************************************************************)
(* run of cmd/server: the start, the main goroutine, the goroutine that runs *)
(* Serve, the handlers, and an end that a signal or a failing listener       *)
(* brings about.  net/http and the Go runtime are external: Listen, Serve,   *)
(* Shutdown and signals are modelled by what run relies on.                  *)
(****************************************************************************)
EXTENDS Configuration, FiniteSets

CONSTANTS
    Environments,   \* what the process may be started with
    Versions,       \* what the linker may have stamped, without a leading v
    Handlers,       \* requests that may arrive
    None

ASSUME NoneAssumption ==
    None \notin {"clean", "closed", "failure", "client_refused", "service_refused", "api_refused"}

ASSUME VersionAssumption == Versions \subseteq {"empty", "plain", "odd"}

\* A reading of a number or a byte size carries its value, one of a URL the URL.
ASSUME EnvironmentAssumption ==
    \A e \in Environments :
        /\ \A v \in Numbers \cup {"MAX_RESPONSE_BYTES"} :
               e[v].kind \in {"absent", "malformed", "number"} /\ e[v].n \in Int
        /\ \A v \in URLVariables :
               /\ e[v].kind \in {"absent", "malformed", "url"}
               /\ e[v].kind = "url" => e[v].url \in URLs

VARIABLES
    env,          \* the environment, None once the start is over
    version,      \* the version stamped, None once the start is over
    cfg,          \* what Load returned, None before and once it is handed over
    built,        \* what of "client", "service" and "api" run holds
    main,         \* where run is
    exit,         \* what run returned: "clean" for nil, or which error
    serveErrors,  \* the channel of capacity one: None, "closed" or "failure"
    accepting,    \* Serve is called and has not returned
    shutdown,     \* server.Shutdown has been called
    graceOver,    \* the 30 seconds of shutdownContext have passed
    signalled,    \* signalContext is done
    rootDone,     \* rootContext is cancelled, and with it every request's
    handler,      \* each handler: "none", "running" or "finished"
    broken        \* history: the listener failed while it should have served

start == <<env, version, cfg, built>>
vars == <<start, main, exit, serveErrors, accepting, shutdown, graceOver, signalled,
          rootDone, handler, broken>>

Starting == {"loading", "binding", "client", "service", "api", "wiring"}

Running == {h \in Handlers : handler[h] = "running"}

\* The process ends with run, and every goroutine with the process.
Up == main # "returned"

Init ==
    /\ env \in Environments
    /\ version \in Versions
    /\ cfg = None
    /\ built = {}
    /\ main = "loading"
    /\ exit = None
    /\ serveErrors = None
    /\ accepting = FALSE
    /\ shutdown = FALSE
    /\ graceOver = FALSE
    /\ signalled = FALSE
    /\ rootDone = FALSE
    /\ handler = [h \in Handlers |-> "none"]
    /\ broken = FALSE

\* run returns; the deferred calls cancel the root context.
Return(how) ==
    /\ main' = "returned"
    /\ exit' = how
    /\ rootDone' = TRUE

------------------------------------------------------------------------------
(* The start                                                                 *)

served == <<serveErrors, accepting, shutdown, graceOver, signalled, handler, broken>>

Proceed(place) ==
    /\ main' = place
    /\ UNCHANGED <<exit, rootDone>>

\* Load; its error names a variable.
LoadConfiguration ==
    /\ main = "loading"
    /\ IF Accepted(env)
       THEN cfg' = Settings(env) /\ Proceed("binding")
       ELSE Return(Blamed(env)) /\ UNCHANGED cfg
    /\ UNCHANGED <<env, version, built, served>>

\* net.Listen succeeds or not, before anything else is built.
Listen ==
    /\ main = "binding"
    /\ Proceed("client") \/ Return("listen_failed")
    /\ UNCHANGED <<start, served>>

\* A constructor returns a component, which run holds from then on, or its error.
Build(accepts, component, place, refused) ==
    IF accepts
    THEN built' = built \cup {component} /\ Proceed(place)
    ELSE Return(refused) /\ UNCHANGED built

\* anilibria.NewClient.
NewClient ==
    /\ main = "client"
    /\ Build(ClientAccepts(cfg, version), "client", "service", "client_refused")
    /\ UNCHANGED <<env, version, cfg, served>>

\* service.New.
NewService ==
    /\ main = "service"
    /\ Build(ServiceAccepts(cfg, "client" \in built), "service", "api", "service_refused")
    /\ UNCHANGED <<env, version, cfg, served>>

\* httpapi.New.
NewAPI ==
    /\ main = "api"
    /\ Build(APIAccepts(cfg, "service" \in built), "api", "wiring", "api_refused")
    /\ UNCHANGED <<env, version, cfg, served>>

\* The signal handler is installed and the goroutine of Serve started.
StartServing ==
    /\ main = "wiring"
    /\ accepting' = TRUE
    /\ env' = None /\ version' = None /\ cfg' = None /\ UNCHANGED built
    /\ Proceed("selecting")
    /\ UNCHANGED <<serveErrors, shutdown, graceOver, signalled, handler, broken>>

\* Before signal.NotifyContext a signal kills the process.
Killed ==
    /\ main \in Starting
    /\ Return("killed")
    /\ UNCHANGED <<start, served>>

StartStep ==
    LoadConfiguration \/ Listen \/ NewClient \/ NewService \/ NewAPI \/ StartServing

------------------------------------------------------------------------------
(* The main goroutine                                                        *)

\* The select takes the error of Serve, which was not asked to end.
SelectServeError ==
    /\ main = "selecting"
    /\ serveErrors # None
    /\ serveErrors' = None
    /\ Return(IF serveErrors = "closed" THEN "clean" ELSE "serve_failed")
    /\ UNCHANGED <<start, accepting, shutdown, graceOver, signalled, handler, broken>>

\* Mutant of SelectSignal: the root context is cancelled before Shutdown.
SelectSignalCancelling ==
    /\ main = "selecting"
    /\ signalled
    /\ main' = "draining"
    /\ shutdown' = TRUE
    /\ rootDone' = TRUE
    /\ UNCHANGED <<start, exit, serveErrors, accepting, graceOver, signalled, handler, broken>>

\* The select takes the signal, perhaps although Serve has failed too, and
\* Shutdown is called: the listener is closed, handlers go on.
SelectSignal ==
    /\ main = "selecting"
    /\ signalled
    /\ main' = "draining"
    /\ shutdown' = TRUE
    /\ UNCHANGED <<start, exit, serveErrors, accepting, graceOver, signalled, rootDone,
                   handler, broken>>

\* Shutdown returns nil: no handler runs any more.
Drained ==
    /\ main = "draining"
    /\ Running = {}
    /\ main' = "joining"
    /\ rootDone' = TRUE
    /\ UNCHANGED <<start, exit, serveErrors, accepting, shutdown, graceOver, signalled,
                   handler, broken>>

\* Mutant of GraceExpired: Shutdown is given a context without an end.
GraceUnbounded == FALSE /\ UNCHANGED vars

\* Shutdown returns the end of its context: the rest is cancelled and closed.
GraceExpired ==
    /\ main = "draining"
    /\ graceOver
    /\ Return("grace_failed")
    /\ UNCHANGED <<start, serveErrors, accepting, shutdown, graceOver, signalled, handler, broken>>

\* Mutant of Join: whatever Serve returned is taken for its normal end.
JoinUnchecked ==
    /\ main = "joining"
    /\ serveErrors # None
    /\ serveErrors' = None
    /\ Return("clean")
    /\ UNCHANGED <<start, accepting, shutdown, graceOver, signalled, handler, broken>>

\* run waits for Serve to have returned and looks at its error.
Join ==
    /\ main = "joining"
    /\ serveErrors # None
    /\ serveErrors' = None
    /\ Return(IF serveErrors = "closed" THEN "clean" ELSE "failed_during_shutdown")
    /\ UNCHANGED <<start, accepting, shutdown, graceOver, signalled, handler, broken>>

MainStep == SelectServeError \/ SelectSignal \/ Drained \/ GraceExpired \/ Join

------------------------------------------------------------------------------
(* The goroutine of Serve, and the handlers it starts                        *)

\* Serve returns ErrServerClosed once Shutdown was called.
ServeCloses ==
    /\ Up /\ accepting /\ shutdown
    /\ accepting' = FALSE
    /\ serveErrors' = "closed"
    /\ UNCHANGED <<start, main, exit, shutdown, graceOver, signalled, rootDone, handler, broken>>

\* Accept fails for good before that.
ServeFails ==
    /\ Up /\ accepting /\ ~shutdown
    /\ accepting' = FALSE
    /\ serveErrors' = "failure"
    /\ broken' = TRUE
    /\ UNCHANGED <<start, main, exit, shutdown, graceOver, signalled, rootDone, handler>>

\* A handler counts from the moment its connection is accepted, as it does for
\* Shutdown.
HandlerStarts(h) ==
    /\ Up /\ accepting /\ ~shutdown
    /\ handler[h] = "none"
    /\ handler' = [handler EXCEPT ![h] = "running"]
    /\ UNCHANGED <<start, main, exit, serveErrors, accepting, shutdown, graceOver, signalled,
                   rootDone, broken>>

HandlerFinishes(h) ==
    /\ Up
    /\ handler[h] = "running"
    /\ handler' = [handler EXCEPT ![h] = "finished"]
    /\ UNCHANGED <<start, main, exit, serveErrors, accepting, shutdown, graceOver, signalled,
                   rootDone, broken>>

------------------------------------------------------------------------------
(* The environment                                                           *)

\* SIGINT or SIGTERM; a second one changes nothing.
Signal ==
    /\ Up /\ main \notin Starting /\ ~signalled
    /\ signalled' = TRUE
    /\ UNCHANGED <<start, main, exit, serveErrors, accepting, shutdown, graceOver, rootDone,
                   handler, broken>>

\* The grace period passes; it is shorter than RequestTimeout may be.
GraceEnds ==
    /\ main = "draining" /\ ~graceOver
    /\ graceOver' = TRUE
    /\ UNCHANGED <<start, main, exit, serveErrors, accepting, shutdown, signalled, rootDone,
                   handler, broken>>

Next ==
    \/ StartStep \/ Killed
    \/ MainStep
    \/ ServeCloses \/ ServeFails
    \/ \E h \in Handlers : HandlerStarts(h) \/ HandlerFinishes(h)
    \/ Signal \/ GraceEnds

Spec == Init /\ [][Next]_vars

\* The goroutines of run and Serve run when they can and time passes.  No
\* handler need ever finish, no signal need come.
Fairness == WF_vars(StartStep) /\ WF_vars(MainStep) /\ WF_vars(ServeCloses) /\ WF_vars(GraceEnds)

FairSpec == Spec /\ Fairness

------------------------------------------------------------------------------
(* Properties                                                                *)

\* A request is cut off, by the cancelled root context or the end of the
\* process, only if the grace period was used up or the listener broke.
RequestsCutOffOnlyWithCause ==
    rootDone /\ Running # {} =>
        \/ exit = "grace_failed" /\ graceOver
        \/ exit = "serve_failed" /\ broken

\* A clean exit means a clean run: Serve never failed unreported, not even if
\* it failed just as the signal came.
FailureIsReported == exit = "clean" => ~broken /\ Running = {}

\* What Load accepts no constructor refuses: the rules of the environment parser
\* for URLs, the key and the numbers, and those of three other packages, agree.
\* Only a version Load never sees may be refused, by the client.
ConstructorsAccept ==
    /\ exit \notin {"service_refused", "api_refused"}
    /\ exit = "client_refused" => version = "odd"

\* The response limit in force is the number written times its unit, never a
\* product that wrapped around.
SizeIsWhatWasWritten ==
    cfg # None /\ env["MAX_RESPONSE_BYTES"].kind = "number" =>
        LET size == env["MAX_RESPONSE_BYTES"] IN cfg.bytes = size.n * Factor(size.unit)

\* Once a signal has come or the listener has failed run returns, whatever
\* handlers do; also if Serve has returned before and its error lies in the
\* channel.
ProcessEnds == signalled \/ broken ~> main = "returned"
==============================================================================
