-------------------------- MODULE MCUpstreamClient ---------------------------
EXTENDS UpstreamClient

Decimal(n) == [form |-> "decimal", value |-> n]

\* With two ticks to the second and durations up to seven ticks: a delay in
\* the past, one of a second, one that only fits when clamped, one beyond the
\* integers, a date, and no valid header.
Headers ==
    {Decimal(-1), Decimal(1), Decimal(4), Decimal(9),
     [form |-> "date", value |-> 2], [form |-> "other", value |-> 0]}
=============================================================================
