--------------------------- MODULE CacheFreshness ----------------------------
(* How long an upstream answer may be kept, as the ping and the image cache  *)
(* compute it, and the Age they report for it.                               *)
(*                                                                           *)
(* Time is counted in ticks, Second of them to a second: the clock and what  *)
(* is measured with it have fractions of a second, the headers have not.     *)
(*                                                                           *)
(* An answer is a record of the caching headers it carries, Absent where it  *)
(* carries none: sMaxAge, maxAge and age in seconds, dated the ticks that    *)
(* have passed since its Date, expires the ticks left until its Expires (a   *)
(* Date ahead of the clock and an Expires behind it are left out).           *)
(* forbidden: its Cache-Control says private, no-store or no-cache, or does  *)
(* not parse. safe: its status and its other headers let a cache keep it.    *)
EXTENDS Integers

CONSTANT Second   \* the ticks of a second

ASSUME SecondAssumption == Second \in Nat \ {0}

Absent == -1

Lesser(m, n) == IF m < n THEN m ELSE n
Greater(m, n) == IF m < n THEN n ELSE m

\* What the caching headers are read as.
IsAnswer(answer) ==
  /\ {answer.sMaxAge, answer.maxAge, answer.expires, answer.age, answer.dated}
       \subseteq Nat \union {Absent}
  /\ {answer.safe, answer.forbidden} \subseteq BOOLEAN

\* A whole number of seconds in ticks, and the seconds that ticks are rounded up to.
Seconds(n) == n * Second
RoundedUp(ticks) == (ticks + Second - 1) \div Second

InitialAge(answer) == Greater(Greater(Seconds(answer.age), answer.dated), 0)

\* s-maxage before max-age before Expires, which counts from the Date.
Stated(answer) == {answer.sMaxAge, answer.maxAge, answer.expires} # {Absent}
Lifetime(answer) ==
  CASE answer.sMaxAge # Absent -> Seconds(answer.sMaxAge)
    [] answer.sMaxAge = Absent /\ answer.maxAge # Absent -> Seconds(answer.maxAge)
    [] OTHER -> answer.expires + Greater(answer.dated, 0)

\* The directives of Cache-Control let it be stored.
Storeable(answer) == ~answer.forbidden

Fresh(answer) ==
  /\ Storeable(answer)
  /\ Stated(answer) => Lifetime(answer) > InitialAge(answer)

\* Mutant: the whole lifetime is counted from the arrival of the answer.
Remaining_WholeLifetime(answer, ttl) ==
  IF Stated(answer) THEN Lesser(ttl, Lifetime(answer)) ELSE ttl

\* How long it may be kept, ttl at most.
Remaining(answer, ttl) ==
  IF Stated(answer) THEN Lesser(ttl, Lifetime(answer) - InitialAge(answer)) ELSE ttl

\* cacheResponseAgeValue, in seconds: a clock read before the entry was stored
\* adds nothing, and a part of a second counts as a whole one.
AgeValue(entry, now) == RoundedUp(entry.initialAge + Greater(now - entry.responseAt, 0))
=============================================================================
