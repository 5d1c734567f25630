----------------------------- MODULE HttpBoundary -----------------------------
(****************************************************************************)
(* internal/httpapi: ServeHTTP, serveHealth, serveAPI and serveSearch, from  *)
(* the raw query string to what is written and logged.  The handler looks at *)
(* the query twice, with rawAPIKey for the key and with url.ParseQuery for   *)
(* everything else, and the two disagree on which fields count.  Execute is  *)
(* external here (SearchRequest has its inside), and so is the client that   *)
(* may go away or not take the reply.                                        *)
(*                                                                           *)
(* A field of the raw query is a record: name in lower case, upper if it was *)
(* spelled otherwise; nameOk and valueOk if their percent escapes are sound; *)
(* semicolon if it contains one; utf8 if the decoded value is UTF-8; value,  *)
(* and digits when the value is a decimal number.                            *)
(****************************************************************************)
EXTENDS Integers, Sequences, FiniteSets, FiniteSetsExt

CONSTANTS
    Queries,        \* raw queries: sequences of fields
    RightKey,       \* the configured API key
    Unavailable,    \* unavailableFunctions
    MaxOffset,      \* math.MaxUint64
    None

Field == [name : STRING, upper : BOOLEAN, nameOk : BOOLEAN, valueOk : BOOLEAN,
          semicolon : BOOLEAN, utf8 : BOOLEAN, value : STRING, digits : Seq(0..9)]

ASSUME HttpBoundaryAssumption ==
    /\ Queries \subseteq Seq(Field)
    /\ MaxOffset \in Nat
    /\ None \notin {"caps", "executed", "rendered", "render_failed"}

VARIABLES
    path,       \* r.URL.Path
    get,        \* r.Method is GET
    raw,        \* r.URL.RawQuery
    stage,      \* what the handler does next
    response,   \* what the parameters came to: an error, or "execute"
    ctx,        \* the request's context: "live", "canceled" or "expired"
    result,     \* what Execute returned: "feed", "failed" or a parameter
    point,      \* where stopForContext was called from
    sent,       \* what was written to the client
    log         \* the completion records

request == <<path, get, raw>>
served  == <<ctx, result, point, sent, log>>
vars    == <<request, stage, response, served>>

Known      == {"apikey", "t", "q", "cat", "limit", "offset", "extended", "season", "ep"}
Singletons == <<"t", "q", "cat", "limit", "offset", "extended", "season", "ep">>

\* The parameters serveSearch parses, in its order.
Parsed     == <<"cat", "limit", "offset", "extended">>

\* The largest page.
MaxLimit   == 50

Reply(kind, parameter) == [kind |-> kind, parameter |-> parameter]
NoReply == Reply("none", "")

Sent(status, body, whole) == [status |-> status, body |-> body, whole |-> whole]
Nothing == Sent(0, "", TRUE)

Init ==
    /\ path \in {"/api", "/healthz", "other"}
    /\ get \in BOOLEAN
    /\ raw \in IF path = "/api" /\ get THEN Queries ELSE {<< >>}
    /\ stage = "route"
    /\ response = NoReply
    /\ ctx = "live"
    /\ result = None
    /\ point = None
    /\ sent = Nothing
    /\ log = << >>

\* RenderError needs a canonical parameter for two of its codes.
Renderable(reply) ==
    reply.kind \in {"missing_parameter", "incorrect_parameter"} => reply.parameter \in Known

\* One write, which the client may not take as a whole, and one record.
Write(status, body, outcome, logged) ==
    \E whole \in BOOLEAN :
        /\ sent' = Sent(status, body, whole)
        /\ log' = Append(log, [outcome |-> IF whole THEN outcome ELSE "write_failed",
                               status |-> logged])
        /\ stage' = "done"

\* completeProtocolError logs status 200 whatever writeProtocolError wrote.
Complete(reply, outcome) ==
    IF Renderable(reply) THEN Write(200, reply.kind, outcome, 200)
    ELSE Write(500, "internal", outcome, 200)

\* The outcome that is logged for an error found before Execute.
OutcomeOf(kind) ==
    CASE kind = "incorrect_credentials" -> "authentication_failed"
      [] kind \in {"no_such_function", "function_unavailable"} -> "unsupported_operation"
      [] OTHER -> "invalid_request"

\* The handler ends with a protocol error.
Answer(reply) ==
    /\ response' = reply
    /\ Complete(reply, OutcomeOf(reply.kind))
    /\ UNCHANGED <<request, ctx, result, point>>

\* stopForContext is called.
Stop(from) ==
    /\ stage' = "stopping"
    /\ point' = from

Continue(next) ==
    /\ stage' = next
    /\ UNCHANGED <<request, response, served>>

------------------------------------------------------------------------------
(* Reading the raw query                                                     *)

\* The fields rawAPIKey counts: a malformed value does not hide a field.
KeyFields == {i \in DOMAIN raw : raw[i].nameOk /\ raw[i].name = "apikey"}

\* rawAPIKey and authenticated.
Authenticated ==
    \E i \in KeyFields : KeyFields = {i} /\ raw[i].valueOk /\ raw[i].value = RightKey

\* url.ParseQuery fails on such a field and leaves it out of the values.
Malformed(f) == f.semicolon \/ ~f.nameOk \/ ~f.valueOk

\* Mutant of MalformedParameter: the first known field takes the blame.
FirstKnownParameter ==
    LET named == {i \in DOMAIN raw : raw[i].nameOk /\ raw[i].name \in Known}
    IN  IF named = {} THEN "t" ELSE raw[Min(named)].name

\* malformedQueryParameter: the first field at fault whose name is known.
MalformedParameter ==
    LET blamed == {i \in DOMAIN raw :
                      raw[i].nameOk /\ raw[i].name \in Known /\ Malformed(raw[i])}
    IN  IF blamed = {} THEN "t" ELSE raw[Min(blamed)].name

\* Mutant of Values: names are compared as they are spelled.
ValuesAsSpelled(name) ==
    {i \in DOMAIN raw : ~Malformed(raw[i]) /\ ~raw[i].upper /\ raw[i].name = name}

\* canonicalValues: the fields that give a name, in whatever case, its values.
Values(name) == {i \in DOMAIN raw : ~Malformed(raw[i]) /\ raw[i].name = name}

Given(name) == Values(name) # {}
First(name) == raw[Min(Values(name))]

------------------------------------------------------------------------------
(* Numbers                                                                   *)

\* normalizedDecimal: leading zeros go, one digit stays.
Normalized(digits) ==
    LET significant == {i \in DOMAIN digits : digits[i] # 0} IN
    IF significant = {} THEN <<0>> ELSE SubSeq(digits, Min(significant), Len(digits))

\* ParseUint, digit by digit.
Number(digits) ==
    LET upTo[i \in 0..Len(digits)] == IF i = 0 THEN 0 ELSE 10 * upTo[i - 1] + digits[i]
    IN  upTo[Len(digits)]

\* parseLimit: clamped by length and by string comparison before conversion.
ParseLimit(digits) ==
    LET d == Normalized(digits) IN
    IF Len(d) > 2 \/ (Len(d) = 2 /\ (d[1] > 5 \/ (d[1] = 5 /\ d[2] > 0)))
    THEN MaxLimit ELSE Number(d)

\* Mutant of OffsetParses: the number is not compared with the register.
OffsetAlwaysParses(digits) == TRUE

\* parseOffset: ParseUint refuses what 64 bits do not hold.
OffsetParses(digits) == Number(Normalized(digits)) <= MaxOffset

\* The offset as the register holds it.
Offset == IF Given("offset") THEN Number(Normalized(First("offset").digits)) % (MaxOffset + 1)
          ELSE 0

Limit == IF Given("limit") THEN ParseLimit(First("limit").digits) ELSE MaxLimit

------------------------------------------------------------------------------
(* The checks in their order                                                 *)

\* ServeHTTP and serveHealth: only GET /api goes on; nothing else is logged.
Route ==
    /\ stage = "route"
    /\ IF path = "/api" /\ get
       THEN stage' = "authenticate" /\ UNCHANGED sent
       ELSE /\ stage' = "done"
            /\ sent' = CASE path = "other" -> Sent(404, "not_found", TRUE)
                         [] path # "other" /\ ~get -> Sent(405, "not_allowed", TRUE)
                         [] OTHER -> Sent(200, "ok", TRUE)
    /\ UNCHANGED <<request, response, ctx, result, point, log>>

Authenticate ==
    /\ stage = "authenticate"
    /\ IF Authenticated THEN Continue("syntax")
       ELSE Answer(Reply("incorrect_credentials", "apikey"))

CheckSyntax ==
    /\ stage = "syntax"
    /\ IF \E i \in DOMAIN raw : Malformed(raw[i])
       THEN Answer(Reply("incorrect_parameter", MalformedParameter))
       ELSE Continue("singletons")

CheckSingletons ==
    /\ stage = "singletons"
    /\ LET offending == {n \in DOMAIN Singletons :
               \/ Cardinality(Values(Singletons[n])) > 1
               \/ \E i \in Values(Singletons[n]) : ~raw[i].utf8}
       IN  IF offending = {} THEN Continue("operation")
           ELSE Answer(Reply("incorrect_parameter", Singletons[Min(offending)]))

\* What t names; caps needs no parameters.
SelectOperation ==
    /\ stage = "operation"
    /\ CASE ~Given("t") ->
                Answer(Reply("missing_parameter", "t"))
         [] Given("t") /\ First("t").value = "" ->
                Answer(Reply("incorrect_parameter", "t"))
         [] Given("t") /\ First("t").value = "caps" ->
                Stop("caps") /\ response' = Reply("caps", "")
                /\ UNCHANGED <<request, ctx, result, sent, log>>
         [] Given("t") /\ First("t").value \in {"search", "tvsearch"} ->
                Continue("parameters")
         [] OTHER ->
                Answer(Reply(IF First("t").value \in Unavailable
                             THEN "function_unavailable" ELSE "no_such_function", "t"))

\* The places in Parsed of what does not parse.
Unparsable ==
    {n \in DOMAIN Parsed :
        /\ Given(Parsed[n])
        /\ \/ First(Parsed[n]).value = "bad"
           \/ Parsed[n] = "offset" /\ ~OffsetParses(First("offset").digits)}

CheckParameters ==
    /\ stage = "parameters"
    /\ CASE First("t").value = "tvsearch" /\ ~Given("q") ->
                Answer(Reply("missing_parameter", "q"))
         [] (First("t").value = "search" \/ Given("q")) /\ Unparsable # {} ->
                Answer(Reply("incorrect_parameter", Parsed[Min(Unparsable)]))
         [] OTHER ->
                /\ stage' = "executing"
                /\ response' = Reply("execute", First("t").value)
                /\ UNCHANGED <<request, served>>

------------------------------------------------------------------------------
(* From Execute to the reply                                                 *)

\* Execute returns a feed, an upstream error, or a parameter it refuses.
ExecuteReturns ==
    /\ stage = "executing"
    /\ result' \in {"feed", "failed", "q", "season", "ep"}
    /\ Stop("executed")
    /\ UNCHANGED <<request, response, ctx, sent, log>>

\* The first read of stopForContext recognises a client that is gone: nothing
\* is written to it.
StopIfCanceled ==
    /\ stage = "stopping"
    /\ IF ctx = "canceled"
       THEN /\ stage' = "done"
            /\ log' = Append(log, [outcome |-> "cancelled", status |-> 499])
       ELSE stage' = "rereading" /\ UNCHANGED log
    /\ UNCHANGED <<request, response, ctx, result, point, sent>>

\* Mutant of StopIfExpired: the handler goes on after the deadline's reply.
StopIfExpiredGoesOn ==
    /\ stage = "rereading"
    /\ IF ctx = "expired"
       THEN /\ sent' = Sent(200, "upstream_failed", TRUE)
            /\ log' = Append(log, [outcome |-> "deadline_exceeded", status |-> 200])
       ELSE UNCHANGED <<sent, log>>
    /\ stage' = "stopped"
    /\ UNCHANGED <<request, response, ctx, result, point>>

\* The second recognises a deadline.
StopIfExpired ==
    /\ stage = "rereading"
    /\ IF ctx = "expired" THEN Complete(Reply("upstream_failed", "t"), "deadline_exceeded")
       ELSE stage' = "stopped" /\ UNCHANGED <<sent, log>>
    /\ UNCHANGED <<request, response, ctx, result, point>>

\* The error of Execute is answered, its feed is rendered.
AfterExecute ==
    /\ stage = "stopped" /\ point = "executed"
    /\ CASE result = "feed" -> stage' = "rendering" /\ UNCHANGED <<sent, log>>
         [] result = "failed" -> Complete(Reply("upstream_failed", "t"), "upstream_failed")
         [] OTHER -> Complete(Reply("incorrect_parameter", result), "invalid_request")
    /\ UNCHANGED <<request, response, ctx, result, point>>

\* RenderRSSContext fails only if it sees the context done, which it may not
\* if that happens late.
Render ==
    /\ stage = "rendering"
    /\ Stop("rendered") \/ (ctx # "live" /\ Stop("render_failed"))
    /\ UNCHANGED <<request, response, ctx, result, sent, log>>

\* What was rendered is written; an error of rendering under a context that
\* stopForContext finds alive is an internal one.
AfterRender ==
    /\ stage = "stopped" /\ point # "executed"
    /\ IF point = "render_failed" THEN Write(500, "internal", "serialization_failed", 500)
       ELSE Write(200, IF point = "caps" THEN "caps" ELSE "feed", "success", 200)
    /\ UNCHANGED <<request, response, ctx, result, point>>

\* The client goes away, or requestTimeout passes; the first stays.
ContextEnds(why) ==
    /\ stage \notin {"route", "authenticate", "syntax", "singletons", "operation", "done"}
    /\ ctx = "live"
    /\ ctx' = why
    /\ UNCHANGED <<request, stage, response, result, point, sent, log>>

Next ==
    \/ Route
    \/ Authenticate
    \/ CheckSyntax
    \/ CheckSingletons
    \/ SelectOperation
    \/ CheckParameters
    \/ ExecuteReturns
    \/ StopIfCanceled
    \/ StopIfExpired
    \/ AfterExecute
    \/ Render
    \/ AfterRender
    \/ \E why \in {"canceled", "expired"} : ContextEnds(why)

Spec == Init /\ [][Next]_vars

------------------------------------------------------------------------------
(* Properties                                                                *)

\* The positions of a name in the raw query, read as loosely as possible.
Occurrences(name) == {i \in DOMAIN raw : raw[i].nameOk /\ raw[i].name = name}

\* "Do not pick one silently": what is served has exactly one reading.  No
\* parameter occurs twice in any spelling, and none was dropped as malformed.
ServedUnambiguously ==
    response.kind \in {"caps", "execute"} =>
        /\ \A i \in DOMAIN raw : ~Malformed(raw[i])
        /\ \A name \in Known : Cardinality(Occurrences(name)) <= 1
        /\ \A name \in Known \ {"apikey"}, i \in DOMAIN raw :
              raw[i].name = name => raw[i].utf8

\* An error names a parameter that is at fault; the generic t stands only for
\* faults that no known parameter can be named for.
BlameIsReal ==
    response.kind = "incorrect_parameter" =>
        \/ \E i \in Occurrences(response.parameter) :
              \/ raw[i].semicolon \/ ~raw[i].valueOk \/ ~raw[i].utf8
              \/ raw[i].value \in {"", "bad"}
              \/ response.parameter = "offset" /\ Number(raw[i].digits) > MaxOffset
        \/ Cardinality(Occurrences(response.parameter)) > 1
        \/ /\ response.parameter = "t"
           /\ \E i \in DOMAIN raw : Malformed(raw[i])
           /\ \A i \in DOMAIN raw :
                 Malformed(raw[i]) => ~raw[i].nameOk \/ raw[i].name \notin Known

\* A search is executed with the numbers asked for, however many digits they
\* are written with: the limit or the largest page if that is smaller, and
\* the very offset, which is refused rather than reduced to 64 bits.
PagingIsExact ==
    response.kind = "execute" =>
        /\ Limit = IF ~Given("limit") THEN MaxLimit
                   ELSE LET n == Number(First("limit").digits) IN
                        IF n > MaxLimit THEN MaxLimit ELSE n
        /\ Offset = IF Given("offset") THEN Number(First("offset").digits) ELSE 0

\* An /api request leaves one completion record and it says what the client
\* got: "a failed or short response write records write_failed rather than the
\* planned protocol outcome", success only a whole feed or caps document, 499
\* only when nothing was written to a client that had gone.  And 500 is never
\* the answer: what is rendered can be rendered.
LogTellsTheReply ==
    stage = "done" =>
        IF path # "/api" \/ ~get THEN log = << >>
        ELSE /\ Len(log) = 1
             /\ LET record == log[1] IN
                /\ record.status = IF sent = Nothing THEN 499 ELSE sent.status
                /\ record.status # 500
                /\ record.outcome = "cancelled" <=> sent = Nothing
                /\ record.outcome = "cancelled" => ctx = "canceled"
                /\ record.outcome = "deadline_exceeded" => ctx = "expired"
                /\ record.outcome = "write_failed" <=> ~sent.whole
                /\ record.outcome = "success" <=>
                      sent.whole /\ sent.body \in {"feed", "caps"}
==============================================================================
