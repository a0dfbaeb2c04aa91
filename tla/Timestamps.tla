----------------------------- MODULE Timestamps -----------------------------
(***************************************************************************)
(* What DefaultTimestampFactory makes of the local time.  A time is a day, *)
(* the seconds of that day and microseconds, as boost's ptime in its       *)
(* default resolution; a timestamp is its fields, which are printed with a *)
(* fixed width, or wider if they do not fit.                               *)
(***************************************************************************)
EXTENDS Integers

Micros == {n \in Nat : n < 1000000}
Seconds == {n \in Nat : n < 86400}

\* What microsec_clock::local_time() may give, any day of the calendar
Time == [day : Nat, second : Seconds, micro : Micros]

\* Mutant: resolution() is taken for the number of digits, which is one more.
to_ms_Resolution(frac_sec) == (frac_sec + 50) \div 100

\* std::round of a fraction of a second that is not negative, in milliseconds
to_ms(frac_sec) == (frac_sec + 500) \div 1000

get_timestamp(now) ==
  [day |-> now.day,
   hour |-> now.second \div 3600,
   minute |-> (now.second \div 60) % 60,
   second |-> now.second % 60,
   ms |-> to_ms(now.micro)]

\* The fields of the time are as wide as field() makes them at the least.
FieldsFit(stamp) ==
  /\ stamp.hour < 100
  /\ stamp.minute < 100
  /\ stamp.second < 100
  /\ stamp.ms < 1000

\* The order of times, and of timestamps by the time they tell
NotAfter(t, u) ==
  \/ t.day < u.day
  \/ t.day = u.day /\ t.second < u.second
  \/ t.day = u.day /\ t.second = u.second /\ t.micro <= u.micro

\* Milliseconds since midnight, as a reader of the timestamp counts them
Told(stamp) ==
  1000 * (3600 * stamp.hour + 60 * stamp.minute + stamp.second) + stamp.ms

ToldNotAfter(s, z) ==
  s.day < z.day \/ (s.day = z.day /\ Told(s) <= Told(z))
=============================================================================
