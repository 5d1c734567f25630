---------------------------- MODULE Configuration -----------------------------
(****************************************************************************)
(* internal/config: LoadFrom, and the checks the constructors of the client, *)
(* the service and the HTTP boundary make on what it returns.                *)
(*                                                                           *)
(* An environment maps each variable to a reading of its text: "absent",     *)
(* "malformed" (what its parser refuses), "text" for an accepted address or  *)
(* level, "key" with its length and whether it is UTF-8, "url" with the url  *)
(* net/url parses, or "number" with its value n and, for a byte size, its    *)
(* unit.  Durations are in milliseconds.  Sizes are in a word of MaxInt with *)
(* a smaller KiB, so that a multiplication can overflow.                     *)
(****************************************************************************)
EXTENDS Integers, Sequences, FiniteSetsExt

CONSTANTS
    MaxInt,       \* math.MaxInt64
    KiB,          \* 1024
    DefaultSize,  \* defaultMaxResponseBytes
    MaxSize       \* 64 MiB

ASSUME SizeAssumption ==
    /\ KiB \in Nat \ {0} /\ MaxSize \in Nat /\ MaxInt \in Nat
    /\ DefaultSize \in KiB..MaxSize

URLVariables == {"ANILIBRIA_API_BASE_URL", "ANILIBRIA_SITE_BASE_URL"}

Texts == {"LISTEN_ADDR", "LOG_LEVEL"}

Bound(default, minimum, maximum) == [default |-> default, min |-> minimum, max |-> maximum]
TTL(default) == Bound(default, 1000, 86400000)

\* The numeric variables, with their defaults and inclusive bounds.
Bounds == [
    REQUEST_TIMEOUT         |-> Bound(90000, 1000, 600000),
    HTTP_TIMEOUT            |-> Bound(15000, 100, 120000),
    REQUEST_INTERVAL        |-> Bound(2100, 10, 60000),
    MAX_CONCURRENCY         |-> Bound(4, 1, 64),
    MAX_RELEASES_PER_SEARCH |-> Bound(10, 1, 50),
    SEARCH_CACHE_TTL        |-> TTL(600000),
    TORRENTS_CACHE_TTL      |-> TTL(900000),
    LATEST_CACHE_TTL        |-> TTL(300000),
    NEGATIVE_CACHE_TTL      |-> TTL(60000),
    CACHE_MAX_ENTRIES       |-> Bound(1024, 1, 1000000)]

Numbers == DOMAIN Bounds

Variables == Texts \cup URLVariables \cup Numbers \cup {"API_KEY", "MAX_RESPONSE_BYTES"}

------------------------------------------------------------------------------
(* Reading one variable                                                      *)

\* duration and integer: the bounds are inclusive.
InRange(v, n) == n >= Bounds[v].min /\ n <= Bounds[v].max

Amount(e, v) == IF e[v].kind = "absent" THEN Bounds[v].default ELSE e[v].n

Factor(unit) ==
    CASE unit = "KiB" -> KiB
      [] unit = "MiB" -> KiB * KiB
      [] unit = "GiB" -> KiB * KiB * KiB
      [] OTHER -> 1

\* A product as a 64-bit register holds it.
Product(n, m) == ((n * m + MaxInt + 1) % (2 * (MaxInt + 1))) - (MaxInt + 1)

\* Mutant of SizeFits: the product is not guarded against overflow.
SizeFitsUnguarded(n, unit) ==
    n \in 0..MaxInt /\ Product(n, Factor(unit)) \in KiB..MaxSize

\* byteSize accepts n units.
SizeFits(n, unit) ==
    /\ n \in 0..MaxInt
    /\ n <= MaxInt \div Factor(unit)
    /\ Product(n, Factor(unit)) \in KiB..MaxSize

Size(e) ==
    IF e["MAX_RESPONSE_BYTES"].kind = "absent" THEN DefaultSize
    ELSE Product(e["MAX_RESPONSE_BYTES"].n, Factor(e["MAX_RESPONSE_BYTES"].unit))

\* LoadFrom of the key: absent is the empty key.
Key(e) ==
    IF e["API_KEY"].kind = "absent" THEN [bytes |-> 0, utf8 |-> TRUE]
    ELSE [bytes |-> e["API_KEY"].bytes, utf8 |-> e["API_KEY"].utf8]

------------------------------------------------------------------------------
(* Base URLs                                                                 *)

\* What of a parsed URL some check looks at: the authority with a host, with
\* no more than a port, or none; a query or fragment may be there and empty.
URLs == {u \in [scheme : {"https", "http", "other", "none"},
                authority : {"host", "port", "opaque", "none"}, user : BOOLEAN,
                query : {"none", "empty", "given"}, fragment : {"none", "empty", "given"},
                path : BOOLEAN] :
           u.authority = "opaque" => u.scheme # "none" /\ ~u.user}

DefaultURL == [scheme |-> "https", authority |-> "host", user |-> FALSE, query |-> "none",
               fragment |-> "none", path |-> TRUE]

\* Mutant of IsHTTPSBase: a query is let through.
IsHTTPSBaseQueried(u) ==
    /\ u.scheme = "https" /\ u.authority = "host"
    /\ ~u.user /\ u.fragment = "none"

\* The checks of parseHTTPSBaseURL.
IsHTTPSBase(u) ==
    /\ u.scheme = "https" /\ u.authority = "host"
    /\ ~u.user /\ u.query = "none" /\ u.fragment = "none"

\* What parseHTTPSBaseURL returns: the path ends in a slash, so there is one.
BaseURL(e, v) == [(IF e[v].kind = "absent" THEN DefaultURL ELSE e[v].url) EXCEPT !.path = TRUE]

\* url.URL.String and url.Parse after it: an empty fragment is not written.
Reparsed(u) == [u EXCEPT !.fragment = IF @ = "empty" THEN "none" ELSE @]

\* url.URL.String gives the empty text.
Blank(u) ==
    /\ u.scheme = "none" /\ u.authority = "none" /\ ~u.user
    /\ u.query = "none" /\ u.fragment # "given" /\ ~u.path

------------------------------------------------------------------------------
(* LoadFrom                                                                  *)

\* The reading of variable v is refused.
Unsound(e, v) ==
    \/ v = "API_KEY" /\ (Key(e).bytes \notin 1..1024 \/ ~Key(e).utf8)
    \/ v \in URLVariables /\ e[v].kind = "url" /\ ~IsHTTPSBase(e[v].url)
    \/ v \in Variables /\ e[v].kind = "malformed"
    \/ v \in Numbers /\ e[v].kind = "number" /\ ~InRange(v, e[v].n)
    \/ v = "MAX_RESPONSE_BYTES" /\ e[v].kind = "number" /\ ~SizeFits(e[v].n, e[v].unit)
    \/ v = "timeouts" /\ Amount(e, "REQUEST_TIMEOUT") < Amount(e, "HTTP_TIMEOUT")

\* The checks in their order; "timeouts" compares the two timeouts.
Checks == <<"LISTEN_ADDR", "API_KEY", "ANILIBRIA_API_BASE_URL", "ANILIBRIA_SITE_BASE_URL",
            "REQUEST_TIMEOUT", "HTTP_TIMEOUT", "timeouts", "REQUEST_INTERVAL",
            "MAX_CONCURRENCY", "MAX_RELEASES_PER_SEARCH", "MAX_RESPONSE_BYTES",
            "SEARCH_CACHE_TTL", "TORRENTS_CACHE_TTL", "LATEST_CACHE_TTL",
            "NEGATIVE_CACHE_TTL", "CACHE_MAX_ENTRIES", "LOG_LEVEL">>

Accepted(e) == \A i \in DOMAIN Checks : ~Unsound(e, Checks[i])

\* The variable the error names: the first at fault.
Blamed(e) ==
    LET check == Checks[Min({i \in DOMAIN Checks : Unsound(e, Checks[i])})] IN
    IF check = "timeouts" THEN "REQUEST_TIMEOUT" ELSE check

\* The configuration an accepted environment gives.
Settings(e) == [
    number |-> [v \in Numbers |-> Amount(e, v)],
    bytes  |-> Size(e),
    key    |-> Key(e),
    api    |-> BaseURL(e, "ANILIBRIA_API_BASE_URL"),
    site   |-> BaseURL(e, "ANILIBRIA_SITE_BASE_URL")]

------------------------------------------------------------------------------
(* What the constructors ask of what run hands them                          *)

\* NewClient: the URL again as text, http allowed, the limits, and the version
\* the linker was given: "empty", "plain" in [A-Za-z0-9._-] or "odd".
ClientAccepts(c, version) ==
    LET base == Reparsed(c.api) IN
    /\ base.authority \in {"host", "port"} /\ base.scheme \in {"https", "http"}
    /\ ~base.user /\ base.query # "given" /\ base.fragment # "given"
    /\ \A v \in {"HTTP_TIMEOUT", "REQUEST_INTERVAL", "MAX_CONCURRENCY"} : c.number[v] > 0
    /\ c.bytes > 0
    /\ version \in {"empty", "plain"}

\* service.New.
ServiceAccepts(c, client) ==
    /\ client
    /\ ~Blank(c.site)
    /\ \A v \in {"MAX_RELEASES_PER_SEARCH", "CACHE_MAX_ENTRIES"} : c.number[v] >= 1
    /\ \A v \in {"SEARCH_CACHE_TTL", "TORRENTS_CACHE_TTL", "LATEST_CACHE_TTL",
                 "NEGATIVE_CACHE_TTL"} : c.number[v] > 0

\* httpapi.New.  rand.Read does not return an error.
APIAccepts(c, executor) ==
    /\ c.key.bytes # 0 /\ c.key.utf8
    /\ c.number["REQUEST_TIMEOUT"] > 0
    /\ executor
==============================================================================
