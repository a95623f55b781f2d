------------------------------- MODULE RateLimit -------------------------------
(***************************************************************************)
(* RateLimiter: the fixed-window counter that each replica keeps for each  *)
(* of its clients.  Time is counted in ticks, PerSecond to the second, and *)
(* durations of the code, in seconds, are multiples of PerSecond.          *)
(***************************************************************************)
EXTENDS Integers, Sequences

CONSTANTS
  Window,    \* settings.rate_limit_window_seconds
  PerSecond

ASSUME LimitAssumption == Window \in Nat \ {0} /\ PerSecond \in Nat \ {0}

VARIABLES
  limit,     \* settings.rate_limit_requests, of which 0 is no limit
  clock,
  limiter    \* per client seen: its window's start and count, and two facts of its past

WindowTicks == Window * PerSecond

\* A client's entry.  admitted and retryAt are history: when its requests were let
\* through, and what the last Retry-After, if none was let through since, told it to
\* wait for (0 if there is none).
Entry == [start : Nat, count : Nat, admitted : Seq(Nat), retryAt : Nat]

\* self._state.get(key, (now, 0)).
Known(c) ==
  IF c \in DOMAIN limiter
    THEN limiter[c]
    ELSE [start |-> clock, count |-> 0, admitted |-> <<>>, retryAt |-> 0]

Over(c) == clock - Known(c).start >= WindowTicks

\* Variant: a new window counts from the old one's start.
CountOnly(c) == IF Over(c) THEN [Known(c) EXCEPT !.count = 0] ELSE Known(c)
Refreshed(c) == IF Over(c) THEN [Known(c) EXCEPT !.start = clock, !.count = 0] ELSE Known(c)

\* Variant: the seconds that are left are not rounded up.
RetryRoundedDown(c) == (WindowTicks - (clock - Refreshed(c).start)) \div PerSecond

\* int(self._window - (now - start)) + 1.
RetryAfter(c) == (WindowTicks - (clock - Refreshed(c).start)) \div PerSecond + 1

Record(c, entry) == limiter' = [x \in DOMAIN limiter \cup {c} |-> IF x = c THEN entry ELSE limiter[x]]

Allowed(c) == Refreshed(c).count + 1 <= limit

Allow(c) ==
  /\ Allowed(c)
  /\ Record(c, [Refreshed(c) EXCEPT !.count = @ + 1, !.admitted = Append(@, clock), !.retryAt = 0])
  /\ UNCHANGED <<limit, clock>>

\* Refused requests are counted too.
Refuse(c) ==
  /\ ~Allowed(c)
  /\ Record(c, [Refreshed(c) EXCEPT !.count = @ + 1,
                                    !.retryAt = clock + RetryAfter(c) * PerSecond])
  /\ UNCHANGED <<limit, clock>>

-----------------------------------------------------------------------------
(* What a client may rely on.                                              *)

\* README.md, Rate limiting: "a fixed window".  Windows of a client follow each other
\* without overlapping, so that any Window seconds see twice the limit at most.
TwoWindowsAtMost ==
  \A c \in DOMAIN limiter :
    LET times == limiter[c].admitted IN
    \A i \in DOMAIN times :
      i + 2 * limit \in DOMAIN times => times[i + 2 * limit] - times[i] >= WindowTicks

\* A client that waits as long as it was told is let through, and would have been
\* refused more than a second earlier.
RetryAfterTells ==
  \A c \in DOMAIN limiter :
    limiter[c].retryAt # 0 =>
      /\ clock >= limiter[c].retryAt => Allowed(c)
      /\ clock + PerSecond < limiter[c].retryAt => ~Allowed(c)
================================================================================
