-------------------------------- MODULE MCFeed --------------------------------
EXTENDS Feed

\* Texts, in the spelling a lexer would give them: digits run together with
\* digits, and S02 with E03, would be another lexeme.
WellFormed(t) ==
    \A i \in 1..(Len(t) - 1) :
        /\ ~(EndsInDigit(t[i]) /\ StartsWithDigit(t[i + 1]))
        /\ ~(t[i].kind = "S" /\ t[i + 1].kind = "E")
        /\ ~(t[i] = Space /\ t[i + 1] = Space)

Word   == Lexeme("word", 1, None)
Dash   == Plain("dash")
Open   == Plain("(")
Close  == Plain(")")
S(n)   == Lexeme("S", n, None)
E(n)   == Lexeme("E", None, n)
Group(content) == <<Plain("[")>> \o content \o <<Plain("]")>>

------------------------------------------------------------------------------
(* Many queries, one answer                                                  *)

Surroundings == BoundedSeq({Word, Digits(86), Space, Dash, Open, Close}, 2)
Heads == Surroundings \cup
    {<<Word, Space, Dash, Space>>, <<Word, Dash, Space>>, <<Open, Word, Close, Dash, Space>>,
     <<Word, Space, Plain("mark"), Space, Open, Plain("[")>>, <<Digits(5), Space, Dash, Space>>,
     <<Open, Word, Space>>, <<Word, Space, Open>>}
Tails == Surroundings \cup
    {<<Space, Dash, Space, Digits(86)>>, <<Space, Dash, Space, Word>>,
     <<Space, Plain("]"), Close, Space, Word>>, <<Space, S(3)>>, <<Space, E(4)>>,
     <<Close, Space, Word>>, <<Space, Word, Close>>}

Tokens == {<<S(2)>>, <<S(2), Space, E(3)>>, <<Lexeme("SE", 2, 3)>>, <<Lexeme("Ep", None, 3)>>,
           <<Lexeme("X", 2, 10000)>>}

QueryTexts ==
    {q \in {h \o k \o t : h \in Heads, k \in Tokens, t \in Tails} : WellFormed(q)}
    \cup {<< >>, <<Space>>, <<Word>>, [i \in 1..10 |-> Word]}

------------------------------------------------------------------------------
(* Torrents                                                                  *)

\* Two releases are asked for, 1 and 2.
Torrent(digest, upper, type, time) ==
    [flaws |-> {}, mistyped |-> FALSE, hash |-> <<digest, upper>>, release |-> 1,
     type |-> type, label |-> <<Word>> \o Group(<<Digits(1), Dash, Digits(2)>>),
     main |-> <<Word>>, alias |-> "alias", updated |-> time, seeders |-> 1, leechers |-> 1]

Good == Torrent(1, FALSE, "TV", 1)
Array(list) == [shape |-> "array", items |-> list]
Answer(release, body) == [release |-> release, body |-> body]

Headings ==
    LET Of(lexeme) == <<Word, Space, lexeme>> IN
    {<< >>, <<Word>>, Of(S(2)), Of(S(1000)), Of(Lexeme("Sspaced", 2, None)), <<Word, S(2)>>,
     Of(Lexeme("Season", 2, None)), Of(Lexeme("Series", 0, None)), Of(E(5)),
     Of(Lexeme("ordinal", 2, 1)), Of(Lexeme("ordinal", 2, 0)), Of(Lexeme("ordinal", 1000, 1)),
     Of(Lexeme("roman", 2, None)), Of(Lexeme("roman", 0, None)), Of(Digits(86)),
     Of(Lexeme("SE", 2, 3)), Of(Lexeme("X", 2, 3)),
     Of(Lexeme("roman", 2, None)) \o <<Space, Open, Digits(2024), Close>>,
     Of(Lexeme("roman", 2, None)) \o <<Space, Digits(2024)>>,
     Of(S(1000)) \o <<Space, Lexeme("ordinal", 2, 1)>>,
     Of(S(1000)) \o <<Space, S(2)>>,
     Of(S(2)) \o <<Space, S(3)>>,
     Of(S(2)) \o <<Space, Dash, Space, Digits(86)>>,
     Of(S(2)) \o <<Space, Dash, Space, Digits(2024)>>,
     Of(S(2)) \o <<Dash, Digits(3)>>}

Groups ==
    {<< >>, Group(<<Word>>), Group(<<E(3)>>), Group(<<Digits(1), Dash, Digits(3)>>),
     Group(<<Digits(3), Space, Dash, Space, Digits(1)>>),
     Group(<<Digits(3)>>) \o Group(<<Digits(1), Dash, Digits(3), Word>>),
     Group(<<Digits(3)>>) \o Group(<<Lexeme("Episodes", None, 1), Dash, Digits(2)>>)}

Labels == {h \o brand \o g : h \in Headings, g \in Groups,
                             brand \in {<< >>, <<Space, Plain("distributor"), Space>>}}

\* Two hashes, one of them in both spellings, and for each way a torrent can
\* be rejected or left out one that shares a hash with a good one.
Pool ==
    {Good, Torrent(1, TRUE, "DORAMA", 2), Torrent(2, FALSE, "TV", 1),
     [Torrent(2, FALSE, "TV", 2) EXCEPT !.flaws = {"size", "magnet"}],
     [Torrent(2, FALSE, "TV", 2) EXCEPT !.release = 2],
     [Torrent(1, TRUE, "TV", 2) EXCEPT !.label = <<Space>>],
     [Torrent(2, FALSE, "TV", 2) EXCEPT !.label = <<Word>>],
     [Torrent(3, FALSE, "TV", 1) EXCEPT !.seeders = 3],
     [Torrent(3, FALSE, "TV", 1) EXCEPT !.alias = "blank"],
     [Torrent(2, TRUE, "MOVIE", 1) EXCEPT !.updated = 0]}

Bodies == {Array(list) : list \in BoundedSeq(Pool, 3)}

OddBodies ==
    {[shape |-> "object", items |-> <<Good>>], [shape |-> "other", items |-> << >>],
     Array(<<Good, [Torrent(2, FALSE, "TV", 1) EXCEPT !.mistyped = TRUE]>>),
     Array(<<Good, Torrent(2, FALSE, "TV", 1), Torrent(3, FALSE, "TV", 1)>>)}

------------------------------------------------------------------------------
(* Requests                                                                  *)

\* No cat, only unknown ids, and each known one.
Every == [all |-> TRUE, tv |-> FALSE, anime |-> FALSE]
Categories == {Every} \cup [all : {FALSE}, tv : BOOLEAN, anime : BOOLEAN]

Request(q, season, ep, tv, categories) ==
    [q |-> q, season |-> season, ep |-> ep, tv |-> tv, categories |-> categories]

Plainly(q) == Request(q, NoFilter, NoFilter, FALSE, Every)
Name       == <<Word>>

Family(requests, replies) == [requests |-> requests, answers |-> replies]
Single(body) == <<Answer(1, body)>>

AllScenarios ==
    {Family({Request(q, NoFilter, NoFilter, tv, Every) : q \in QueryTexts, tv \in BOOLEAN},
            {Single(Array(<<Good>>))}),
     Family({Request(Name, s, e, TRUE, Every) :
                s \in {NoFilter, Filter(2), [given |-> TRUE, text |-> <<S(1), Space>>],
                       [given |-> TRUE, text |-> <<E(2)>>]},
                e \in {NoFilter, Filter(3), Filter(10000)}},
            {Single(Array(<<[Good EXCEPT !.label = label, !.type = type]>>)) :
                label \in Labels, type \in {"TV", "MOVIE"}}),
     Family({Request(Name, NoFilter, NoFilter, TRUE, c) : c \in Categories}
            \cup {Plainly(<< >>), Request(Name, Filter(1), Filter(2), TRUE, Every)},
            {Single(body) : body \in Bodies}),
     Family({Plainly(Name), Plainly(<< >>)},
            {<<Answer(1, one), Answer(2, other)>> : one, other \in OddBodies}
            \cup {Single(body) : body \in OddBodies} \cup {<< >>})}

------------------------------------------------------------------------------
(* The smaller families of the two runs that expect a violation              *)

QueryScenarios  == {Family({Plainly(q) : q \in QueryTexts}, {Single(Array(<<Good>>))})}
AnswerScenarios == {Family({Plainly(Name)}, {Single(body) : body \in Bodies \cup OddBodies})}
==============================================================================
