-------------------------------- MODULE Timeouts ------------------------------
(***************************************************************************)
(* Deadlines over the millisecond tick, which wraps: TimeoutChecker        *)
(* (firmware/FatFs-SD.h), timeBetween and the wait of __ff_lock            *)
(* (firmware/FatFs.cpp).                                                   *)
(***************************************************************************)
EXTENDS Integers

CONSTANT Wrap   \* the tick is below it: 2^32

ASSUME TimeoutsAssumption == Wrap \in Nat \ {0}

Ticks == 0 .. Wrap - 1
Tick(n) == n % Wrap

\* Mutant of Expired: the wrap is not thought of.
ExpiredPlain(start, d, now) == now > Tick(start + d)

\* TimeoutChecker's operator int, for a deadline of d ms set at start.
Expired(start, d, now) ==
  LET end == Tick(start + d)
  IN  IF start < end THEN now > end ELSE now > end /\ now < start

TimeBetween(past, future) ==
  IF past <= future THEN future - past ELSE (Wrap - 1) - past + future

WaitForever == Wrap - 1   \* CONCURRENT_WAIT_FOREVER
Never == 0 - 1

\* The time that passes in __ff_lock before it answers FALSE, while the mutex stays
\* taken.  With a timeout it tries every pause ms from begin on; without one it
\* stays in lock().
LockWaits(begin, timeout, pause) ==
  LET late == {n \in 0 .. Wrap : TimeBetween(begin, Tick(begin + (n * pause))) > timeout}
  IN  IF timeout \in {WaitForever, 0} \/ late = {} THEN Never
      ELSE pause * (CHOOSE n \in late : \A m \in late : n <= m)

=============================================================================
