---------------------------- MODULE MCHttpBoundary ----------------------------
EXTENDS HttpBoundary, SequencesExt

Param(name, value) ==
    [name |-> name, upper |-> FALSE, nameOk |-> TRUE, valueOk |-> TRUE,
     semicolon |-> FALSE, utf8 |-> TRUE, value |-> value, digits |-> <<0>>]

Count(digits) == [Param("limit", "number") EXCEPT !.digits = digits]
Skip(digits) == [Param("offset", "number") EXCEPT !.digits = digits]

Keys == {Param("apikey", "right"), Param("apikey", "wrong"),
         [Param("apikey", "right") EXCEPT !.upper = TRUE],
         [Param("apikey", "right") EXCEPT !.semicolon = TRUE],
         [Param("apikey", "") EXCEPT !.valueOk = FALSE]}

Functions == {Param("t", f) : f \in {"caps", "search", "tvsearch", "movie", "nope", ""}}
             \cup {[Param("t", "caps") EXCEPT !.upper = TRUE]}

Others == {Param("q", "x"), [Param("q", "x") EXCEPT !.utf8 = FALSE],
           [Param("q", "x") EXCEPT !.semicolon = TRUE],
           [Param("q", "x") EXCEPT !.valueOk = FALSE],
           Param("limit", "bad"), Param("cat", "bad"), Param("other", ""),
           [Param("other", "") EXCEPT !.nameOk = FALSE],
           Count(<<7>>), Count(<<5, 0>>), Count(<<5, 1>>), Count(<<0, 4, 9>>),
           Count(<<1, 0, 0>>), Count(<<0, 0, 9>>),
           Skip(<<0, 0, 7>>), Skip(<<2, 5, 5>>), Skip(<<2, 5, 6>>),
           [Param("other", "") EXCEPT !.valueOk = FALSE]}

\* Up to three fields in any order, and those of four that start with a key
\* and a function.
AllQueries ==
    BoundedSeq(Keys \cup Functions \cup Others, 3)
    \cup {<<k, f, x, y>> : k \in Keys, f \in Functions, x \in Others,
                           y \in Keys \cup Functions \cup Others}
==============================================================================
