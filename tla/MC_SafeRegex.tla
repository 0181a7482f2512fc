----------------------------- MODULE MC_SafeRegex -----------------------------
EXTENDS SafeRegex

\* Call 1 at both limits; call 2 at the pattern limit with an input at or
\* one over its limit; call 3 with a pattern at or one over its limit.
MCInputs ==
  [k \in 1..3 |->
     CASE k = 1 -> {[pattern |-> 1000, input |-> 10000]}
       [] k = 2 -> {[pattern |-> 1000, input |-> i] : i \in {10000, 10001}}
       [] k = 3 -> {[pattern |-> p, input |-> 10000] : p \in {1000, 1001}}]
=============================================================================
