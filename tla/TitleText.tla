------------------------------- MODULE TitleText -------------------------------
(****************************************************************************)
(* The texts that NormalizeQuery and ParseTitle read, and the helpers they    *)
(* share.  A text is a sequence of lexemes, the pieces their regular          *)
(* expressions tell apart: a lexeme is a kind and the season and the episode  *)
(* it may hold.  White space is one lexeme however long it is.                *)
(*                                                                          *)
(*   S E SE X        S02, E03, S02E03, 2x03                                   *)
(*   Season Series   "Season 2", "Series 2"                                   *)
(*   Sspaced         "S 2", a season in a label and plain text in a query     *)
(*   Ep Episode      "Ep 3", "Episode 3"; Episodes is "Episodes 3"            *)
(*   ordinal         "2nd Season", with episode 1 if the suffix fits          *)
(*   roman           a Roman numeral, season 0 if it is not canonical         *)
(*   num word        a run of digits (its value is season), a run of letters  *)
(*   dash slash mark - en dash em dash; . and /; _ | , : ;                    *)
(*   sp ( ) [ ]      (in a query [ stands for { too)                          *)
(*   distributor     a hyphen and AniLiberty, AniLibria.TV and so on at the   *)
(*                   end of a label's heading                                 *)
(****************************************************************************)
EXTENDS Picking, FiniteSets, FiniteSetsExt

maxSeason  == 999
maxEpisode == 9999

None == -1        \* a lexeme that holds no season, or no episode

Kinds == {"S", "E", "SE", "X", "Season", "Series", "Sspaced", "Ep", "Episode", "Episodes",
          "ordinal", "roman", "num", "word", "dash", "slash", "mark", "sp", "(", ")", "[", "]",
          "distributor"}
Lexemes == [kind : Kinds, season : Int, episode : Int]
Texts   == Seq(Lexemes)

Lexeme(kind, season, episode) == [kind |-> kind, season |-> season, episode |-> episode]
Plain(kind)   == Lexeme(kind, None, None)
Space         == Plain("sp")
Digits(n)     == Lexeme("num", n, None)

Separates(x)  == x.kind \in {"dash", "slash", "mark"}
Alphanumeric(x) == ~Separates(x) /\ x.kind \notin {"sp", "(", ")", "[", "]"}

StartsWithDigit(x) == x.kind \in {"num", "X", "ordinal"}
EndsInDigit(x) ==
    x.kind \in {"num", "X", "S", "E", "SE", "Season", "Series", "Sspaced",
                "Ep", "Episode", "Episodes"}
FourDigits(x) == x.kind = "num" /\ x.season \in 1000..9999

\* boundedPositiveInteger.
Bounded(n, maximum) == n \in 1..maximum

\* strings.Fields joined again: no space at the edges, none after another.
CollapseSpace(text) ==
    Pick(text, {i \in DOMAIN text :
        \/ text[i] # Space
        \/ /\ i > 1 /\ text[i - 1] # Space
           /\ \E j \in (i + 1)..Len(text) : text[j] # Space})

\* completeToken: neither neighbour of text[i..j] is a letter or a digit.
CompleteToken(text, i, j) ==
    /\ i > 1 => ~Alphanumeric(text[i - 1])
    /\ j < Len(text) => ~Alphanumeric(text[j + 1])

SkipForward(text, i)  == IF i \in DOMAIN text /\ text[i] = Space THEN i + 1 ELSE i
SkipBackward(text, i) == IF i \in DOMAIN text /\ text[i] = Space THEN i - 1 ELSE i

\* hasNumericContinuationAfter: what ends at j goes on as a range, a fraction
\* or the like.  A separator with space on both sides may start a new part of
\* the title instead; in a label only if a year follows.
ContinuesAfter(text, j, allowSeparatedTitleNumber) ==
    LET separator == SkipForward(text, j + 1)
        digits    == SkipForward(text, separator + 1)
        spaced    == separator > j + 1 /\ digits > separator + 1
    IN  /\ separator \in DOMAIN text /\ text[separator].kind \in {"dash", "slash"}
        /\ digits \in DOMAIN text /\ StartsWithDigit(text[digits])
        /\ ~(spaced /\ (allowSeparatedTitleNumber \/ FourDigits(text[digits])))

\* numericContinuationBefore.
ContinuesBefore(text, i) ==
    LET separator == SkipBackward(text, i - 1)
        digits    == SkipBackward(text, separator - 1)
        spaced    == separator < i - 1 /\ digits < separator - 1
    IN  /\ separator \in DOMAIN text /\ text[separator].kind \in {"dash", "slash"}
        /\ digits \in DOMAIN text /\ EndsInDigit(text[digits])
        /\ ~spaced
==============================================================================
