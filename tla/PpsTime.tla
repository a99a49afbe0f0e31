------------------------------- MODULE PpsTime -------------------------------
(***************************************************************************)
(* How the drivers read the PPS generator, whose seconds and cycles are    *)
(* separate registers that roll over while they are being read.            *)
(*                                                                         *)
(*   "stamp"  A frame carries the cycle count of its arrival (or departure)*)
(*            and no seconds.  wrn_ppsg_read_time (wr_nic/pps.c) reads     *)
(*            seconds, cycles, seconds, and the cycles again if the        *)
(*            seconds changed; its three callers then take one second off  *)
(*            when the counter is behind the frame's.                      *)
(*   "now"    A relative pulse (wr-nic-dio.c) adds the 40-bit seconds,     *)
(*            read as high, low, high, and the low word again if the high  *)
(*            word changed.                                                *)
(***************************************************************************)
EXTENDS Integers

CONSTANTS
  Ticks,     (* Cycles per second: 125,000,000 in the hardware.            *)
  LoMod,     (* The low word of the seconds counts modulo this: 2^32.      *)
  MaxSec     (* Bound: the clock stops in this second.                     *)

ASSUME PpsAssumption ==
  /\ Ticks \in Nat \ {0}
  /\ LoMod \in Nat \ {0}
  /\ MaxSec \in Nat

VARIABLES
  sec, cnt,       (* The PPS generator.                                    *)
  tsec, tcnt,     (* When the frame passed the port.  tcnt is in its       *)
                  (* descriptor or in the timestamping unit's FIFO.        *)
  job, step,      (* Which reading is going on, and where it is.           *)
  first,          (* utc1 or h1                                            *)
  utc, fine,      (* "stamp": what wrn_ppsg_read_time returns.             *)
  lo, hi,         (* "now": l and h2                                       *)
  start           (* The second in which the reading began.                *)

clock   == <<sec, cnt>>
ppsVars == <<sec, cnt, tsec, tcnt, job, step, first, utc, fine, lo, hi, start>>

\* CNTR_UTCLO and CNTR_UTCHI.
Lo(s) == s % LoMod
Hi(s) == s \div LoMod

PpsInit ==
  /\ sec = 0 /\ cnt = 0 /\ tsec = 0 /\ tcnt = 0
  /\ job = "none" /\ step = "idle"
  /\ first = 0 /\ utc = 0 /\ fine = 0 /\ lo = 0 /\ hi = 0 /\ start = 0

(* The generator (external).                                               *)
Tick ==
  /\ \/ cnt < Ticks - 1 /\ cnt' = cnt + 1 /\ sec' = sec
     \/ cnt = Ticks - 1 /\ sec < MaxSec /\ cnt' = 0 /\ sec' = sec + 1
  /\ UNCHANGED <<tsec, tcnt, job, step, first, utc, fine, lo, hi, start>>

(* A frame passes the port (external): the hardware latches the cycles.    *)
Latch ==
  /\ step = "idle" /\ job = "none"
  /\ tsec' = sec /\ tcnt' = cnt /\ job' = "stamp"
  /\ UNCHANGED <<sec, cnt, step, first, utc, fine, lo, hi, start>>

-----------------------------------------------------------------------------
(* wrn_ppsg_read_time                                                      *)

ReadUtc1 ==
  /\ step = "idle" /\ job = "stamp"
  /\ first' = sec /\ start' = sec
  /\ step' = "cnt"
  /\ UNCHANGED <<clock, tsec, tcnt, job, utc, fine, lo, hi>>

ReadCnt ==
  /\ step = "cnt"
  /\ fine' = cnt
  /\ step' = "utc2"
  /\ UNCHANGED <<clock, tsec, tcnt, job, first, utc, lo, hi, start>>

\* Mutant of ReadUtc2: the cycles are not read again.
ReadUtc2Once ==
  /\ step = "utc2"
  /\ utc' = sec
  /\ step' = "done"
  /\ UNCHANGED <<clock, tsec, tcnt, job, first, fine, lo, hi, start>>

ReadUtc2 ==
  /\ step = "utc2"
  /\ utc' = sec
  /\ step' = IF sec # first THEN "cnt2" ELSE "done"
  /\ UNCHANGED <<clock, tsec, tcnt, job, first, fine, lo, hi, start>>

ReadCnt2 ==
  /\ step = "cnt2"
  /\ fine' = cnt
  /\ step' = "done"
  /\ UNCHANGED <<clock, tsec, tcnt, job, first, utc, lo, hi, start>>

\* if (counter_ppsg < ts_r) utc--;
StampSec == IF fine < tcnt THEN utc - 1 ELSE utc

-----------------------------------------------------------------------------
(* The current seconds of wrn_dio_cmd_pulse.                               *)

ReadHi1 ==
  /\ step = "idle" /\ job = "none"
  /\ job' = "now"
  /\ first' = Hi(sec) /\ start' = sec
  /\ step' = "lo"
  /\ UNCHANGED <<clock, tsec, tcnt, utc, fine, lo, hi>>

ReadLo ==
  /\ step = "lo"
  /\ lo' = Lo(sec)
  /\ step' = "hi2"
  /\ UNCHANGED <<clock, tsec, tcnt, job, first, utc, fine, hi, start>>

\* Mutant of ReadHi2: the low word is not read again.
ReadHi2Once ==
  /\ step = "hi2"
  /\ hi' = Hi(sec)
  /\ step' = "done"
  /\ UNCHANGED <<clock, tsec, tcnt, job, first, utc, fine, lo, start>>

ReadHi2 ==
  /\ step = "hi2"
  /\ hi' = Hi(sec)
  /\ step' = IF Hi(sec) # first THEN "lo2" ELSE "done"
  /\ UNCHANGED <<clock, tsec, tcnt, job, first, utc, fine, lo, start>>

ReadLo2 ==
  /\ step = "lo2"
  /\ lo' = Lo(sec)
  /\ step' = "done"
  /\ UNCHANGED <<clock, tsec, tcnt, job, first, utc, fine, hi, start>>

NowSec == hi * LoMod + lo

\* The caller uses the result and the next frame or pulse comes.
Use ==
  /\ step = "done"
  /\ step' = "idle" /\ job' = "none"
  /\ UNCHANGED <<clock, tsec, tcnt, first, utc, fine, lo, hi, start>>

PpsNext ==
  \/ Tick \/ Latch \/ ReadUtc1 \/ ReadCnt \/ ReadUtc2 \/ ReadCnt2
  \/ ReadHi1 \/ ReadLo \/ ReadHi2 \/ ReadLo2 \/ Use

PpsSpec == PpsInit /\ [][PpsNext]_ppsVars

-----------------------------------------------------------------------------
(* Properties.                                                             *)

PpsTypeOK ==
  /\ sec \in Nat /\ cnt \in 0 .. Ticks - 1
  /\ tsec \in Nat /\ tcnt \in 0 .. Ticks - 1
  /\ job \in {"none", "stamp", "now"}
  /\ step \in {"idle", "cnt", "utc2", "cnt2", "lo", "hi2", "lo2", "done"}
  /\ first \in Nat /\ utc \in Nat /\ fine \in 0 .. Ticks - 1
  /\ lo \in 0 .. LoMod - 1 /\ hi \in Nat /\ start \in Nat

\* Less than a second has passed since the frame passed the port.
WithinASecond ==
  \/ sec = tsec /\ cnt >= tcnt
  \/ sec = tsec + 1 /\ cnt < tcnt

\* The seconds given to a frame are those in which it passed the port, even
\* when the second rolls over before or between the readings, as long as
\* less than a second has passed when the last reading is done.
StampNamesItsSecond ==
  step = "done" /\ job = "stamp" /\ WithinASecond => StampSec = tsec

\* The 40-bit seconds are those of a moment between the first and the last
\* reading, also when the low word wraps in between: never a low word paired
\* with the high word of another time.
NowIsCurrent ==
  step = "done" /\ job = "now" /\ sec <= start + 1 => NowSec \in {start, start + 1}
=============================================================================
