------------------------------ MODULE TuioTime ------------------------------
(***************************************************************************)
(* TuioTime (tuio/TUIO/TuioTime.cpp): seconds and microseconds, with two   *)
(* kinds of sums and differences.  A long has room for every time here.    *)
(***************************************************************************)
EXTENDS Integers

CONSTANT UsecSecond   \* USEC_SECOND, 1000000

UsecMillisecond == UsecSecond \div 1000

Abs(n) == IF n < 0 THEN -n ELSE n
\* Division and remainder of C, which round towards zero.
Quot(n, d) == IF n < 0 THEN -(Abs(n) \div d) ELSE n \div d
Rem(n, d) == n - d * Quot(n, d)

Time(sec, usec) == [seconds |-> sec, micro_seconds |-> usec]
OfMilliseconds(msec) == Time(Quot(msec, 1000), UsecMillisecond * Rem(msec, 1000))

\* + and - of microseconds: the sum is not carried over, the difference borrows a second.
PlusMicros(t, us) == Time(t.seconds + Quot(us, UsecSecond), t.micro_seconds + Rem(us, UsecSecond))

Borrowed(sec, usec) == IF usec < 0 THEN Time(sec - 1, usec + UsecSecond) ELSE Time(sec, usec)
MinusMicros(t, us) == Borrowed(t.seconds - Quot(us, UsecSecond), t.micro_seconds - Rem(us, UsecSecond))

\* + and - of two times.
PlusTime(t, u) ==
  LET usec == t.micro_seconds + u.micro_seconds
  IN  Time(t.seconds + u.seconds + Quot(usec, UsecSecond), Rem(usec, UsecSecond))
MinusTime(t, u) == Borrowed(t.seconds - u.seconds, t.micro_seconds - u.micro_seconds)

\* == and !=
Equal(t, u) == t.seconds = u.seconds /\ t.micro_seconds = u.micro_seconds

\* The microseconds are divided by MSEC_SECOND, as many as there are in a millisecond.
TotalMilliseconds(t) == t.seconds * 1000 + Quot(t.micro_seconds, UsecMillisecond)

\* Since initSession, which keeps the system's time as the start.
SessionTime(system, start) == MinusTime(system, start)
=============================================================================
