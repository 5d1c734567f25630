-------------------------- MODULE MCServerLifecycle --------------------------
EXTENDS ServerLifecycle

Reading(kind, n, unit) == [kind |-> kind, n |-> n, unit |-> unit]

Absent    == Reading("absent", 0, "")
Malformed == Reading("malformed", 0, "")
Text      == Reading("text", 0, "")

KeyOf(bytes, utf8) == [kind |-> "key", bytes |-> bytes, utf8 |-> utf8]
URLOf(url)         == [kind |-> "url", url |-> url]

\* The readings of each variable: at, inside and outside its bounds.
Readings(v) ==
    CASE v \in Texts -> {Malformed, Text}
      [] v = "API_KEY" -> {Absent, KeyOf(10, FALSE)} \cup
             {KeyOf(bytes, TRUE) : bytes \in {0, 1, 1024, 1025}}
      [] v \in URLVariables ->
             {Malformed} \cup
             {URLOf(u) : u \in {DefaultURL,
                                [DefaultURL EXCEPT !.path = FALSE],
                                [DefaultURL EXCEPT !.scheme = "http"],
                                [DefaultURL EXCEPT !.query = "given"],
                                [DefaultURL EXCEPT !.fragment = "empty"]}}
      [] v \in Numbers ->
             {Malformed} \cup {Reading("number", n, "") :
                 n \in {0, Bounds[v].min - 1, Bounds[v].min, Bounds[v].max, Bounds[v].max + 1}}
      [] v = "MAX_RESPONSE_BYTES" ->
             {Malformed} \cup {Reading("number", n, unit) :
                 n \in {-1, 0, 1, 3, 4, 8, 17, 32, 33, 127, 128},
                 unit \in {"", "KiB", "MiB", "GiB"}}

Plain == [v \in Variables |-> IF v = "API_KEY" THEN KeyOf(10, TRUE) ELSE Absent]

\* Environments in which up to two variables differ from those of a plain start,
\* and those that set one URL to anything a URL can be.
AllEnvironments ==
    {Plain}
    \cup {[Plain EXCEPT ![v] = URLOf(u)] : v \in URLVariables, u \in URLs}
    \cup UNION {{[Plain EXCEPT ![v] = x] : x \in Readings(v)} : v \in Variables}
    \cup UNION {{[Plain EXCEPT ![p[1]] = x, ![p[2]] = y] :
                    x \in Readings(p[1]), y \in Readings(p[2])} :
                p \in {q \in Variables \X Variables : q[1] # q[2]}}
==============================================================================
