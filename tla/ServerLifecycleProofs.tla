------------------------ MODULE ServerLifecycleProofs ------------------------
(****************************************************************************)
(* Proofs about the start and the end of the process, for every environment  *)
(* whose numbers are integers, every word size and any set of handlers.      *)
(****************************************************************************)
EXTENDS ServerLifecycle, WellFoundedInduction, TLAPS

------------------------------------------------------------------------------
(* The configuration                                                         *)

LEMMA FactorPositive ==
    ASSUME NEW unit
    PROVE  Factor(unit) \in Nat \ {0}
  <1>1. KiB \in Nat \ {0}
    BY SizeAssumption
  <1>2. KiB * KiB \in Nat \ {0}
    BY <1>1
  <1>3. KiB * KiB * KiB \in Nat \ {0}
    BY <1>1, <1>2
  <1> QED
    BY <1>1, <1>2, <1>3 DEF Factor

\* What passes the guard of the multiplication does not wrap around.
LEMMA GuardedProduct ==
    ASSUME NEW n \in Nat, NEW f \in Nat \ {0}, n <= MaxInt \div f
    PROVE  Product(n, f) = n * f
  <1>1. MaxInt \in Nat
    BY SizeAssumption
  <1> DEFINE q == MaxInt \div f
             p == n * f
             w == MaxInt + 1
  <1>2. q \in Nat /\ q * f <= MaxInt
    BY <1>1
  <1>3. p \in Nat /\ p <= q * f
    BY <1>2
  <1>4. p \in Nat /\ w \in Nat /\ p < w
    BY <1>1, <1>2, <1>3
  <1> HIDE DEF p, w, q
  <1>5. (p + w) % (2 * w) = p + w
    BY <1>4
  <1>6. Product(n, f) = ((p + w) % (2 * w)) - w
    BY <1>1 DEF Product, p, w
  <1> QED
    BY <1>4, <1>5, <1>6 DEF p

\* An accepted size is the number written times its unit, and positive.
LEMMA AcceptedSize ==
    ASSUME NEW n \in Int, NEW unit, SizeFits(n, unit)
    PROVE  Product(n, Factor(unit)) = n * Factor(unit) /\ Product(n, Factor(unit)) > 0
  <1>1. n \in Nat /\ n <= MaxInt \div Factor(unit) /\ Product(n, Factor(unit)) \in KiB..MaxSize
    BY SizeAssumption DEF SizeFits
  <1>2. Product(n, Factor(unit)) = n * Factor(unit)
    BY <1>1, FactorPositive, GuardedProduct
  <1> QED
    BY <1>1, <1>2, SizeAssumption

\* Every variable is checked.
LEMMA NothingUnchecked ==
    ASSUME NEW v \in Variables
    PROVE  \E i \in DOMAIN Checks : Checks[i] = v
  <1>1. DOMAIN Checks = 1..17
    BY DEF Checks
  <1>2. v \in {Checks[i] : i \in 1..17}
    BY DEF Checks, Variables, Texts, URLVariables, Numbers, Bounds
  <1> QED
    BY <1>1, <1>2

LEMMA NothingUnsound ==
    ASSUME NEW e, Accepted(e), NEW v \in Variables
    PROVE  ~Unsound(e, v)
  BY NothingUnchecked DEF Accepted

LEMMA DefaultsAndMinimaPositive ==
    ASSUME NEW v \in Numbers
    PROVE  /\ Bounds[v].min \in Int /\ Bounds[v].min > 0
           /\ Bounds[v].default \in Int /\ Bounds[v].default > 0
  BY DEF Numbers, Bounds, Bound, TTL

\* An accepted environment gives positive numbers and the size written.
LEMMA SettingsSound ==
    ASSUME NEW e \in Environments, Accepted(e)
    PROVE  /\ \A v \in Numbers : Amount(e, v) \in Int /\ Amount(e, v) > 0
           /\ Size(e) > 0
           /\ LET size == e["MAX_RESPONSE_BYTES"] IN
              size.kind = "number" => Size(e) = size.n * Factor(size.unit)
  <1>1. ASSUME NEW v \in Numbers
        PROVE  Amount(e, v) \in Int /\ Amount(e, v) > 0
    <2>1. v \in Variables
      BY DEF Variables
    <2>2. ~Unsound(e, v)
      BY <2>1, NothingUnsound
    <2>3. e[v].kind # "malformed" /\ (e[v].kind = "number" => InRange(v, e[v].n))
      BY <2>1, <2>2 DEF Unsound
    <2>4. e[v].kind \in {"absent", "malformed", "number"} /\ e[v].n \in Int
      BY EnvironmentAssumption
    <2> QED
      BY <2>3, <2>4, DefaultsAndMinimaPositive DEF Amount, InRange
  <1>2. /\ Size(e) > 0
        /\ LET size == e["MAX_RESPONSE_BYTES"] IN
           size.kind = "number" => Size(e) = size.n * Factor(size.unit)
    <2> DEFINE size == e["MAX_RESPONSE_BYTES"]
    <2>1. ~Unsound(e, "MAX_RESPONSE_BYTES")
      BY NothingUnsound DEF Variables
    <2>2. size.kind # "malformed" /\ (size.kind = "number" => SizeFits(size.n, size.unit))
      BY <2>1 DEF Unsound, Variables
    <2>3. size.kind \in {"absent", "malformed", "number"} /\ size.n \in Int
      BY EnvironmentAssumption
    <2>4. CASE size.kind = "absent"
      BY <2>4, SizeAssumption DEF Size
    <2>5. CASE size.kind = "number"
      <3>1. Size(e) = Product(size.n, Factor(size.unit))
        BY <2>5 DEF Size
      <3> QED
        BY <2>2, <2>3, <2>5, <3>1, AcceptedSize
    <2> QED
      BY <2>2, <2>3, <2>4, <2>5
  <1> QED
    BY <1>1, <1>2

\* A base URL that Load returned keeps what it was checked for.
LEMMA BaseURLSound ==
    ASSUME NEW e \in Environments, Accepted(e), NEW v \in URLVariables
    PROVE  LET u == BaseURL(e, v) IN u \in URLs /\ IsHTTPSBase(u) /\ u.path
  <1>1. v \in Variables
    BY DEF Variables
  <1>2. ~Unsound(e, v)
    BY <1>1, NothingUnsound
  <1>3. e[v].kind # "malformed" /\ (e[v].kind = "url" => IsHTTPSBase(e[v].url))
    BY <1>1, <1>2 DEF Unsound
  <1>4. /\ e[v].kind \in {"absent", "malformed", "url"}
        /\ e[v].kind = "url" => e[v].url \in URLs
    BY EnvironmentAssumption
  <1>5. DefaultURL \in URLs /\ IsHTTPSBase(DefaultURL)
    BY DEF DefaultURL, URLs, IsHTTPSBase
  <1> DEFINE parsed == IF e[v].kind = "absent" THEN DefaultURL ELSE e[v].url
  <1>6. parsed \in URLs /\ IsHTTPSBase(parsed)
    BY <1>3, <1>4, <1>5
  <1>7. BaseURL(e, v) = [parsed EXCEPT !.path = TRUE]
    BY DEF BaseURL
  <1> HIDE DEF parsed
  <1> QED
    BY <1>6, <1>7 DEF URLs, IsHTTPSBase

\* Load refuses the empty key and one that is not UTF-8.
LEMMA KeySound ==
    ASSUME NEW e, Accepted(e)
    PROVE  Key(e).bytes # 0 /\ Key(e).utf8
  <1>1. ~Unsound(e, "API_KEY")
    BY NothingUnsound DEF Variables
  <1>2. Key(e).bytes \in 1..1024 /\ Key(e).utf8
    BY <1>1 DEF Unsound
  <1> QED
    BY <1>2

\* Each constructor accepts what Load returned, if it is handed the component
\* before it and, the client, a version it can send.
LEMMA ClientSatisfied ==
    ASSUME NEW e \in Environments, Accepted(e), NEW stamp \in {"empty", "plain"}
    PROVE  ClientAccepts(Settings(e), stamp)
  <1> DEFINE api == BaseURL(e, "ANILIBRIA_API_BASE_URL")
  <1>1. api \in URLs /\ IsHTTPSBase(api)
    BY BaseURLSound DEF URLVariables
  <1>2. Settings(e).api = api
    BY DEF Settings
  <1> HIDE DEF api
  <1>3. LET base == Reparsed(api) IN
        /\ base.authority = "host" /\ base.scheme = "https"
        /\ ~base.user /\ base.query = "none" /\ base.fragment = "none"
    BY <1>1 DEF URLs, IsHTTPSBase, Reparsed
  <1>4. {"HTTP_TIMEOUT", "REQUEST_INTERVAL", "MAX_CONCURRENCY"} \subseteq Numbers
    BY DEF Numbers, Bounds
  <1>5. /\ \A v \in Numbers : Settings(e).number[v] > 0
        /\ Settings(e).bytes > 0
    BY SettingsSound DEF Settings
  <1> QED
    BY <1>2, <1>3, <1>4, <1>5 DEF ClientAccepts

LEMMA ServiceSatisfied ==
    ASSUME NEW e \in Environments, Accepted(e)
    PROVE  ServiceAccepts(Settings(e), TRUE)
  <1>1. ~Blank(BaseURL(e, "ANILIBRIA_SITE_BASE_URL"))
    BY BaseURLSound DEF URLVariables, Blank
  <1>2. {"MAX_RELEASES_PER_SEARCH", "CACHE_MAX_ENTRIES", "SEARCH_CACHE_TTL",
         "TORRENTS_CACHE_TTL", "LATEST_CACHE_TTL", "NEGATIVE_CACHE_TTL"} \subseteq Numbers
    BY DEF Numbers, Bounds
  <1>3. \A v \in Numbers : Settings(e).number[v] \in Int /\ Settings(e).number[v] > 0
    BY SettingsSound DEF Settings
  <1>4. Settings(e).site = BaseURL(e, "ANILIBRIA_SITE_BASE_URL")
    BY DEF Settings
  <1> QED
    BY <1>1, <1>2, <1>3, <1>4 DEF ServiceAccepts

LEMMA APISatisfied ==
    ASSUME NEW e \in Environments, Accepted(e)
    PROVE  APIAccepts(Settings(e), TRUE)
  <1>1. "REQUEST_TIMEOUT" \in Numbers
    BY DEF Numbers, Bounds
  <1>2. Settings(e).number["REQUEST_TIMEOUT"] > 0
    BY <1>1, SettingsSound DEF Settings
  <1>3. Settings(e).key.bytes # 0 /\ Settings(e).key.utf8
    BY KeySound DEF Settings
  <1> QED
    BY <1>2, <1>3 DEF APIAccepts

\* The error of Load names a variable.
LEMMA BlameNamesVariable ==
    ASSUME NEW e, ~Accepted(e)
    PROVE  Blamed(e) \in Variables
  <1> DEFINE T == {i \in DOMAIN Checks : Unsound(e, Checks[i])}
  <1>1. T # {} /\ T \subseteq Nat
    BY DEF Accepted, Checks
  <1> DEFINE R == OpToRel(<, Nat)
  <1>2. IsWellFoundedOn(R, Nat)
    BY NatLessThanWellFounded
  <1>3. \A i, j \in Nat : i < j => <<i, j>> \in R
    BY DEF OpToRel
  <1> HIDE DEF T, R
  <1>4. \E i \in T : \A j \in T : ~(<<j, i>> \in R)
    BY <1>1, <1>2, WFMin
  <1>5. \E i \in T : \A j \in T : i <= j
    <2>1. PICK i \in T : \A j \in T : <<j, i>> \notin R
      BY <1>4, Zenon
    <2>2. ASSUME NEW j \in T PROVE i <= j
      <3>1. i \in Nat /\ j \in Nat
        BY <1>1, <2>1
      <3>2. ~(j < i)
        BY <1>3, <2>1, <3>1
      <3> QED
        BY <3>1, <3>2
    <2> QED
      BY <2>1, <2>2
  <1>6. Min(T) \in T
    BY <1>5 DEF Min
  <1>7. Min(T) \in DOMAIN Checks
    BY <1>6 DEF T
  <1>8. Checks[Min(T)] \in Variables \cup {"timeouts"}
    BY <1>7 DEF Checks, Variables, Texts, URLVariables, Numbers, Bounds
  <1> QED
    BY <1>8 DEF Blamed, T, Variables, Numbers, Bounds

------------------------------------------------------------------------------
(* The inductive invariant                                                   *)

\* What Load returned is what an accepted environment gives.
Loaded == env \in Environments /\ Accepted(env) /\ cfg = Settings(env)

\* Each constructor runs once the one before it has returned a component.
BuiltInOrder ==
    /\ main \in {"service", "api", "wiring"} => "client" \in built
    /\ main \in {"api", "wiring"} => "service" \in built

\* Nothing serves during the start.
StartIsQuiet ==
    main \in Starting =>
        Running = {} /\ ~broken /\ ~accepting /\ ~shutdown /\ ~rootDone /\ serveErrors = None

\* The channel holds what Serve returned until run takes it.
ChannelTellsServe ==
    /\ serveErrors \in {None, "closed", "failure"}
    /\ accepting => serveErrors = None /\ ~broken
    /\ serveErrors = "closed" => shutdown /\ ~broken
    /\ serveErrors = "failure" => broken
    /\ main \in {"selecting", "draining", "joining"} /\ broken => serveErrors = "failure"

\* Shutdown closes the door: no handler starts once it was called.
Draining ==
    /\ main = "selecting" => ~shutdown /\ ~rootDone
    /\ main = "draining" => shutdown /\ ~rootDone
    /\ main = "joining" => shutdown /\ Running = {}

IInv ==
    /\ env \in Environments \cup {None}
    /\ main \in Starting => version \in Versions
    /\ main \in Starting \cup {"selecting", "draining", "joining", "returned"}
    /\ main = "loading" => env \in Environments /\ cfg = None
    /\ main \in Starting \ {"loading"} => Loaded
    /\ cfg # None => Loaded
    /\ Up => exit = None
    /\ BuiltInOrder
    /\ StartIsQuiet
    /\ ChannelTellsServe
    /\ Draining
    /\ RequestsCutOffOnlyWithCause
    /\ FailureIsReported
    /\ ConstructorsAccept

LEMMA InitInvariant == Init => IInv
  BY NoneAssumption DEF Init, IInv, Starting, Running, Up, BuiltInOrder, StartIsQuiet,
     ChannelTellsServe, Draining, RequestsCutOffOnlyWithCause, FailureIsReported,
     ConstructorsAccept

\* What the steps of the start have in common: nothing runs, so that a return
\* cuts nobody off, and a return with any error but a refusal is allowed.
LEMMA StartReturns ==
    ASSUME IInv, NEW how, main \in Starting, Return(how), UNCHANGED served, UNCHANGED start,
           how \notin {"service_refused", "api_refused"},
           how = "client_refused" => version = "odd"
    PROVE  IInv'
  BY DEF IInv, Starting, Running, Up, BuiltInOrder, StartIsQuiet, ChannelTellsServe,
     Draining, Loaded, RequestsCutOffOnlyWithCause, FailureIsReported, ConstructorsAccept,
     Return, served, start

LEMMA StartProceeds ==
    ASSUME IInv, NEW place \in Starting \ {"loading"}, UNCHANGED version,
           main \in Starting, Proceed(place), UNCHANGED served, Loaded', BuiltInOrder'
    PROVE  IInv'
  BY DEF IInv, Starting, Running, Up, StartIsQuiet, ChannelTellsServe, Draining, Loaded,
     RequestsCutOffOnlyWithCause, FailureIsReported, ConstructorsAccept, Proceed, served

LEMMA LoadPreserves == ASSUME IInv, LoadConfiguration PROVE IInv'
  <1>1. main = "loading" /\ env \in Environments /\ cfg = None /\ main \in Starting
    BY DEF IInv, LoadConfiguration, Starting
  <1>2. CASE Accepted(env)
    <2>1. /\ cfg' = Settings(env) /\ Proceed("binding") /\ env' = env /\ UNCHANGED served
          /\ UNCHANGED version
      BY <1>2 DEF LoadConfiguration
    <2>2. Loaded' /\ BuiltInOrder'
      BY <1>1, <1>2, <2>1 DEF Loaded, BuiltInOrder, Proceed
    <2> QED
      BY <1>1, <2>1, <2>2, StartProceeds DEF Starting
  <1>3. CASE ~Accepted(env)
    <2>1. Return(Blamed(env)) /\ UNCHANGED served /\ UNCHANGED start
      BY <1>3 DEF LoadConfiguration, start
    <2>2. Blamed(env) \notin {"client_refused", "service_refused", "api_refused"}
      BY <1>3, BlameNamesVariable DEF Variables, Texts, URLVariables, Numbers, Bounds
    <2> QED
      BY <1>1, <2>1, <2>2, StartReturns
  <1> QED
    BY <1>2, <1>3

LEMMA ListenPreserves == ASSUME IInv, Listen PROVE IInv'
  <1>1. main \in Starting /\ Loaded /\ Loaded' /\ UNCHANGED version
    BY DEF IInv, Listen, Starting, Loaded, start
  <1>2. CASE Proceed("client")
    BY <1>1, <1>2, StartProceeds DEF Listen, Starting, BuiltInOrder, Proceed
  <1>3. CASE Return("listen_failed")
    BY <1>1, <1>3, StartReturns DEF Listen
  <1> QED
    BY <1>2, <1>3 DEF Listen

\* The client refuses a version only.
LEMMA NewClientPreserves == ASSUME IInv, NewClient PROVE IInv'
  <1>1. /\ main = "client" /\ main \in Starting /\ Loaded /\ Loaded' /\ UNCHANGED version
        /\ UNCHANGED served /\ version \in {"empty", "plain", "odd"}
    BY VersionAssumption DEF IInv, NewClient, Starting, Loaded
  <1>2. CASE ClientAccepts(cfg, version)
    <2>1. built' = built \cup {"client"} /\ Proceed("service")
      BY <1>2 DEF NewClient, Build
    <2>2. BuiltInOrder'
      BY <2>1 DEF BuiltInOrder, Proceed
    <2> QED
      BY <1>1, <2>1, <2>2, StartProceeds DEF Starting
  <1>3. CASE ~ClientAccepts(cfg, version)
    <2>1. version = "odd"
      BY <1>1, <1>3, ClientSatisfied DEF Loaded
    <2>2. Return("client_refused") /\ UNCHANGED start
      BY <1>3 DEF NewClient, Build, start
    <2> QED
      BY <1>1, <2>1, <2>2, StartReturns
  <1> QED
    BY <1>2, <1>3

\* The other two refuse nothing.
LEMMA NewServicePreserves == ASSUME IInv, NewService PROVE IInv'
  <1>1. /\ main = "service" /\ main \in Starting /\ Loaded /\ Loaded' /\ UNCHANGED version
        /\ UNCHANGED served /\ "client" \in built
    BY DEF IInv, NewService, Starting, Loaded, BuiltInOrder
  <1>2. ServiceAccepts(cfg, "client" \in built)
    BY <1>1, ServiceSatisfied DEF Loaded
  <1>3. built' = built \cup {"service"} /\ Proceed("api")
    BY <1>2 DEF NewService, Build
  <1>4. BuiltInOrder'
    BY <1>1, <1>3 DEF BuiltInOrder, Proceed
  <1> QED
    BY <1>1, <1>3, <1>4, StartProceeds DEF Starting

LEMMA NewAPIPreserves == ASSUME IInv, NewAPI PROVE IInv'
  <1>1. /\ main = "api" /\ main \in Starting /\ Loaded /\ Loaded' /\ UNCHANGED version
        /\ UNCHANGED served /\ "client" \in built /\ "service" \in built
    BY DEF IInv, NewAPI, Starting, Loaded, BuiltInOrder
  <1>2. APIAccepts(cfg, "service" \in built)
    BY <1>1, APISatisfied DEF Loaded
  <1>3. built' = built \cup {"api"} /\ Proceed("wiring")
    BY <1>2 DEF NewAPI, Build
  <1>4. BuiltInOrder'
    BY <1>1, <1>3 DEF BuiltInOrder, Proceed
  <1> QED
    BY <1>1, <1>3, <1>4, StartProceeds DEF Starting

LEMMA StartServingPreserves == ASSUME IInv, StartServing PROVE IInv'
  BY NoneAssumption DEF IInv, StartServing, Proceed, Starting, Running, Up, BuiltInOrder,
     StartIsQuiet, ChannelTellsServe, Draining, RequestsCutOffOnlyWithCause,
     FailureIsReported, ConstructorsAccept

LEMMA KilledPreserves == ASSUME IInv, Killed PROVE IInv'
  BY StartReturns DEF Killed

LEMMA MainPreserves == ASSUME IInv, MainStep PROVE IInv'
  <1> USE NoneAssumption
      DEF IInv, Starting, Running, Up, BuiltInOrder, StartIsQuiet, ChannelTellsServe,
      Draining, Loaded, RequestsCutOffOnlyWithCause, FailureIsReported, ConstructorsAccept,
      Return, start
  <1>1. CASE SelectServeError
    BY <1>1 DEF SelectServeError
  <1>2. CASE SelectSignal
    BY <1>2 DEF SelectSignal
  <1>3. CASE Drained
    BY <1>3 DEF Drained
  <1>4. CASE GraceExpired
    BY <1>4 DEF GraceExpired
  <1>5. CASE Join
    BY <1>5 DEF Join
  <1> QED
    BY <1>1, <1>2, <1>3, <1>4, <1>5 DEF MainStep

LEMMA OthersPreserve ==
    ASSUME IInv,
           \/ ServeCloses \/ ServeFails
           \/ \E h \in Handlers : HandlerStarts(h) \/ HandlerFinishes(h)
           \/ Signal \/ GraceEnds
    PROVE  IInv'
  <1> USE NoneAssumption
      DEF IInv, Starting, Running, Up, BuiltInOrder, StartIsQuiet, ChannelTellsServe,
      Draining, Loaded, RequestsCutOffOnlyWithCause, FailureIsReported, ConstructorsAccept,
      start
  <1>1. CASE ServeCloses
    BY <1>1 DEF ServeCloses
  <1>2. CASE ServeFails
    BY <1>2 DEF ServeFails
  <1>3. ASSUME NEW h \in Handlers, HandlerStarts(h) PROVE IInv'
    BY <1>3 DEF HandlerStarts
  <1>4. ASSUME NEW h \in Handlers, HandlerFinishes(h) PROVE IInv'
    BY <1>4 DEF HandlerFinishes
  <1>5. CASE Signal
    BY <1>5 DEF Signal
  <1>6. CASE GraceEnds
    BY <1>6 DEF GraceEnds
  <1> QED
    BY <1>1, <1>2, <1>3, <1>4, <1>5, <1>6

LEMMA Inductive == IInv /\ [Next]_vars => IInv'
  <1> SUFFICES ASSUME IInv, [Next]_vars PROVE IInv'
    OBVIOUS
  <1>1. CASE UNCHANGED vars
    BY <1>1 DEF IInv, vars, start, Running, Up, BuiltInOrder, StartIsQuiet,
       ChannelTellsServe, Draining, Loaded, RequestsCutOffOnlyWithCause, FailureIsReported,
       ConstructorsAccept
  <1>2. CASE StartStep \/ Killed
    BY <1>2, LoadPreserves, ListenPreserves, NewClientPreserves, NewServicePreserves,
       NewAPIPreserves, StartServingPreserves, KilledPreserves DEF StartStep
  <1>3. CASE Next /\ ~StartStep /\ ~Killed
    BY <1>3, MainPreserves, OthersPreserve DEF Next
  <1> QED
    BY <1>1, <1>2, <1>3

LEMMA Invariance == Spec => []IInv
  BY InitInvariant, Inductive, PTL DEF Spec

------------------------------------------------------------------------------
(* The theorems                                                              *)

\* A request is cut off by the end of the server only once the grace period
\* is used up or the listener has broken.
THEOREM CutOffsHaveCause == Spec => []RequestsCutOffOnlyWithCause
  <1>1. IInv => RequestsCutOffOnlyWithCause
    BY DEF IInv
  <1> QED
    BY <1>1, Invariance, PTL

\* A clean exit hides no failure of Serve and no request in progress.
THEOREM FailuresAreReported == Spec => []FailureIsReported
  <1>1. IInv => FailureIsReported
    BY DEF IInv
  <1> QED
    BY <1>1, Invariance, PTL

\* No constructor refuses a configuration that Load accepted: neither a URL, nor
\* the key, nor a number, nor a missing component; the client may refuse the
\* version it is stamped with.
THEOREM ConstructorsNeverRefuse == Spec => []ConstructorsAccept
  <1>1. IInv => ConstructorsAccept
    BY DEF IInv
  <1> QED
    BY <1>1, Invariance, PTL

\* The response limit in force never comes from a product that wrapped around.
THEOREM SizesNeverWrap == Spec => []SizeIsWhatWasWritten
  <1>1. IInv => SizeIsWhatWasWritten
    BY SettingsSound DEF IInv, Loaded, SizeIsWhatWasWritten, Settings
  <1> QED
    BY <1>1, Invariance, PTL
==============================================================================
