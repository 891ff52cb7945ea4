-------------------------------- MODULE Rtc ---------------------------------
(***************************************************************************)
(* The real time clock driver, kernel/rtc.c.  The chip (external) shows    *)
(* the time in decimal digits through registers that are read one at a     *)
(* time, and interrupts after each update; it does not interrupt again     *)
(* before its register C was read.  rtc_init runs with interrupts on: an   *)
(* update interrupt may come between any two of its accesses, and the      *)
(* handler uses the same address port.  A handler is not interrupted.      *)
(* Copies of struct rtc_time go byte by byte.  One pass over the registers *)
(* is short: no two updates fall into one (turned).                        *)
(***************************************************************************)
EXTENDS Integers, Sequences, FiniteSets

CONSTANTS
  Start,       \* years: the clock starts one second before this year, and at the
               \* end of its February
  MaxTicks     \* bound: seconds that pass

RtcAssumption == Start \subseteq 1971..2069 /\ MaxTicks \in Nat

Field == <<"second", "minute", "hour", "day", "month", "year">>
Time(y, mo, d, h, mi, s) ==
  [second |-> s, minute |-> mi, hour |-> h, day |-> d, month |-> mo, year |-> y]
Zero == Time(0, 0, 0, 0, 0, 0)

-----------------------------------------------------------------------------
(* The calendar *)

Leap(y) == y % 4 = 0 /\ (y % 100 # 0 \/ y % 400 = 0)
Days(y, m) == IF m = 2 /\ Leap(y) THEN 29
              ELSE <<31, 28, 31, 30, 31, 30, 31, 31, 30, 31, 30, 31>>[m]
\* The time one second later.
Later(t) ==
  IF t.second < 59 THEN [t EXCEPT !.second = @ + 1]
  ELSE IF t.minute < 59 THEN [t EXCEPT !.second = 0, !.minute = @ + 1]
  ELSE IF t.hour < 23 THEN [t EXCEPT !.second = 0, !.minute = 0, !.hour = @ + 1]
  ELSE IF t.day < Days(t.year, t.month) THEN Time(t.year, t.month, t.day + 1, 0, 0, 0)
  ELSE IF t.month < 12 THEN Time(t.year, t.month + 1, 1, 0, 0, 0)
  ELSE Time(t.year + 1, 1, 1, 0, 0, 0)

\* Two decimal digits in a byte, as the chip has them, and rtc_bcd_to_binary.
Bcd(n) == ((n \div 10) * 16) + (n % 10)
rtc_bcd_to_binary(b) == (b % 16) + ((b \div 16) * 10)

\* The year of two digits.
Century(y) == IF y >= 70 THEN y + 1900 ELSE y + 2000

\* The end of rtc_fetch_time.  The chip counts hours to 24, so no hour has its top bit set.
Converted(r) ==
  [f \in DOMAIN r |-> IF f = "year" THEN Century(rtc_bcd_to_binary(r[f]))
                      ELSE rtc_bcd_to_binary(r[f])]

\* LEAP_YEAR.  Mutant: every fourth year but the hundredth.
LEAP_YEAR_Hundred(y) == y % 4 = 0 /\ y % 100 # 0
LEAP_YEAR(y) == y > 0 /\ y % 4 = 0 /\ (y % 100 # 0 \/ y % 400 = 0)

Day == 86400
monthDays == <<31, 28, 31, 30, 31, 30, 31, 31, 30, 31, 30, 31>>
\* The loops of rtc_time_to_timestamp, as sums; in days, which no uint32_t overflows before 2106.
DaysBefore(y, m) ==
  LET F[k \in 0..12] == IF k <= 1 THEN 0
                        ELSE F[k - 1] + IF k = 3 /\ LEAP_YEAR(y) THEN 29 ELSE monthDays[k - 1]
  IN  F[m]
rtc_time_to_timestamp(t) ==
  LET days == ((t.year - 1970) * 365) + Cardinality({y \in 1970..(t.year - 1) : LEAP_YEAR(y)})
              + DaysBefore(t.year, t.month) + t.day - 1
  IN  [days |-> days, seconds |-> (t.hour * 3600) + (t.minute * 60) + t.second]

\* b is n seconds after a.
After(a, b, n) == ((b.days - a.days) * Day) + b.seconds - a.seconds = n

-----------------------------------------------------------------------------
VARIABLES
  now,         \* what the chip shows
  update,      \* its flag of register C: an update that was not acknowledged
  irq,         \* the interrupt is raised
  address,     \* its address port: a field, or "C"
  pc,          \* rtc_init: "select" and "data" of a register, "copy", "read", "done"
  k,           \* the register or byte it is at
  t,           \* the time it fetches
  tout,        \* the time it reads back
  cached_time,
  boottime,
  fresh,       \* history: an interrupt was handled after rtc_init
  turned,      \* an update fell into this pass over the registers
  ticks

vars == <<now, update, irq, address, pc, k, t, tout, cached_time, boottime, fresh, turned,
          ticks>>
init == <<pc, k, t, tout, boottime>>

TypeOK ==
  /\ DOMAIN now = DOMAIN Zero /\ update \in BOOLEAN /\ irq \in BOOLEAN
  /\ fresh \in BOOLEAN /\ turned \in BOOLEAN
  /\ address \in {Field[i] : i \in DOMAIN Field} \cup {"C"}
  /\ pc \in {"select", "data", "copy", "read", "done"} /\ k \in 1..7
  /\ \A f \in {"second", "minute"} : cached_time[f] \in 0..59 /\ tout[f] \in 0..59
  /\ cached_time.hour \in 0..23 /\ cached_time.day \in 0..31 /\ cached_time.month \in 0..12
  /\ cached_time.year \in {0} \cup 1970..2069 /\ ticks \in 0..MaxTicks

\* rtc_init has enabled the update interrupt and the line; nothing was fetched yet.
Init ==
  /\ \E y \in Start : now \in {Time(y - 1, 12, 31, 23, 59, 59), Time(y, 2, Days(y, 2), 23, 59, 59),
                               Time(y, 10, 9, 9, 59, 58)}
  /\ update = FALSE /\ irq = FALSE /\ address = "second"
  /\ pc = "select" /\ k = 1 /\ t = Zero /\ tout = Zero /\ cached_time = Zero
  /\ boottime = rtc_time_to_timestamp(Time(1970, 1, 1, 0, 0, 0)) /\ fresh = FALSE
  /\ turned = FALSE /\ ticks = 0

\* The byte of the register that the address port names.
Register(a) == IF a = "C" THEN (IF update THEN 144 ELSE 0)
               ELSE IF a = "year" THEN Bcd(now.year % 100) ELSE Bcd(now[a])

\* A second passes.
Tick ==
  /\ ticks < MaxTicks /\ ticks' = ticks + 1
  /\ pc \in {"select", "data"} => ~turned
  /\ turned' = (pc \in {"select", "data"})
  /\ now' = Later(now) /\ update' = TRUE /\ irq' = (irq \/ ~update)
  /\ UNCHANGED <<address, init, cached_time, fresh>>

\* rtc_interrupt_handler: the registers are all read before the next update; then register C.
Acknowledged(u) == FALSE
rtc_interrupt_handler ==
  /\ irq /\ irq' = FALSE
  /\ cached_time' = Converted([f \in DOMAIN Zero |-> Register(f)])
  /\ address' = "C" /\ update' = Acknowledged(update)
  /\ fresh' = (pc = "done")
  /\ UNCHANGED <<now, init, turned, ticks>>

\* rtc_fetch_time in rtc_init: a register is selected, then read; the seconds are read again
\* at the end, and when they have changed everything is.  Mutant: they are not compared.
Changed_Never(first, second) == FALSE
Changed(first, second) == first # second

Select ==
  /\ pc = "select" /\ ~irq
  /\ address' = IF k = 7 THEN "second" ELSE Field[k]
  /\ pc' = "data" /\ UNCHANGED <<now, update, irq, k, t, tout, cached_time, boottime, fresh, turned,
                               ticks>>
Data ==
  /\ pc = "data" /\ ~irq
  /\ update' = (IF address = "C" THEN FALSE ELSE update)
  /\ turned' = (turned /\ k < 7)
  /\ IF k < 7 THEN t' = [t EXCEPT ![Field[k]] = Register(address)] /\ k' = k + 1 /\ pc' = "select"
     ELSE IF Changed(t.second, Register(address)) THEN t' = t /\ k' = 1 /\ pc' = "select"
     ELSE t' = Converted(t) /\ k' = 1 /\ pc' = "copy"
  /\ UNCHANGED <<now, irq, address, tout, cached_time, boottime, fresh, ticks>>

\* cached_time = t, and rtc_read; then the time is taken as the time of booting.
Copy ==
  /\ pc = "copy" /\ ~irq
  /\ cached_time' = [cached_time EXCEPT ![Field[k]] = t[Field[k]]]
  /\ IF k < 6 THEN k' = k + 1 /\ pc' = pc ELSE k' = 1 /\ pc' = "read"
  /\ UNCHANGED <<now, update, irq, address, t, tout, boottime, fresh, turned, ticks>>
rtc_read ==
  /\ pc = "read" /\ ~irq
  /\ tout' = [tout EXCEPT ![Field[k]] = cached_time[Field[k]]]
  /\ IF k < 6 THEN k' = k + 1 /\ UNCHANGED <<pc, boottime>>
     ELSE k' = 1 /\ pc' = "done" /\ boottime' = rtc_time_to_timestamp(tout')
  /\ UNCHANGED <<now, update, irq, address, t, cached_time, fresh, turned, ticks>>

Rest == pc = "done" /\ UNCHANGED vars
Next == Tick \/ rtc_interrupt_handler \/ Select \/ Data \/ Copy \/ rtc_read \/ Rest
Spec == Init /\ [][Next]_vars

-----------------------------------------------------------------------------
\* The time rtc_init has fetched is one that the clock has shown, though it reads the
\* registers one by one and the handler changes the address port under it: the second look at
\* the seconds is enough (rtc_fetch_time).
FetchRight == pc = "copy" => t \in {now} \/ Later(t) = now \/ Later(Later(t)) = now
                             \/ Later(Later(Later(t))) = now

\* Once an update was handled, the time that system calls give is the time of the clock
\* whenever no update is to be handled: the clock does not stop interrupting.
CachedNow == fresh /\ ~irq => cached_time = now

\* A second later the timestamp is one more, in every month and over leap years
\* (rtc_time_to_timestamp).
TimestampSteps == After(rtc_time_to_timestamp(now), rtc_time_to_timestamp(Later(now)), 1)
=============================================================================
