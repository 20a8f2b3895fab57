------------------------------ MODULE CpuUsage ------------------------------
(***************************************************************************)
(* ProcessStat::GetCpuUsage, which a GetUsage request calls: the share of  *)
(* the processors the process used since the last call, from two times the *)
(* system keeps.  Both change only when the clock of the system ticks;     *)
(* requests come whenever they come.                                       *)
(***************************************************************************)
EXTENDS Integers

CONSTANTS
  ProcessorCount,  \* get_processor_number()
  TickTime,        \* how far a tick takes the clock, in the unit of FILETIME
  MaxTicks         \* bound on the ticks

VARIABLES
  now,               \* GetSystemTimeAsFileTime
  processTime,       \* GetProcessTimes: the kernel and the user time together
  last_time_,
  last_system_time_,
  cpu,               \* the last answer: a percentage, or -1 for none
  aborted            \* an assertion has failed

vars == <<now, processTime, last_time_, last_system_time_, cpu, aborted>>

Init ==
  /\ now = TickTime
  /\ processTime \in 0..ProcessorCount * TickTime
  /\ last_time_ = 0 /\ last_system_time_ = 0
  /\ cpu = -1
  /\ aborted = FALSE

(* Every processor may have run the process for the whole of the tick. *)
Tick ==
  /\ now < MaxTicks * TickTime
  /\ now' = now + TickTime
  /\ \E used \in 0..ProcessorCount * TickTime : processTime' = processTime + used
  /\ UNCHANGED <<last_time_, last_system_time_, cpu, aborted>>

systemTime == processTime \div ProcessorCount

(* Nothing to compare with: the first call, or one before the process had
   used a whole unit of every processor. *)
FirstCall == last_system_time_ = 0 \/ last_time_ = 0

Remember ==
  /\ last_time_' = now
  /\ last_system_time_' = systemTime

(* timeDelta / 2 is added to round. *)
Percent(systemTimeDelta, timeDelta) ==
  (systemTimeDelta * 100 + timeDelta \div 2) \div timeDelta

GetProcessTimesFails ==
  /\ cpu' = -1
  /\ UNCHANGED <<last_time_, last_system_time_, aborted>>

SetLastValues ==
  /\ FirstCall
  /\ Remember
  /\ cpu' = -1
  /\ UNCHANGED aborted

(* assert(time_delta != 0); a build without assertions answers -1. *)
NoTimeDelta ==
  /\ ~FirstCall
  /\ now = last_time_
  /\ aborted' \in BOOLEAN
  /\ cpu' = -1
  /\ UNCHANGED <<last_time_, last_system_time_>>

Measure ==
  /\ ~FirstCall
  /\ now # last_time_
  /\ cpu' = Percent(systemTime - last_system_time_, now - last_time_)
  /\ Remember
  /\ UNCHANGED aborted

GetCpuUsage ==
  /\ ~aborted
  /\ GetProcessTimesFails \/ SetLastValues \/ NoTimeDelta \/ Measure
  /\ UNCHANGED <<now, processTime>>

Next == Tick \/ GetCpuUsage

Spec == Init /\ [][Next]_vars
-----------------------------------------------------------------------------
(* The assertion of GetCpuUsage, assert(time_delta != 0): the clock has moved
   on between two calls that compare with each other.  Nothing sees to it: a
   second GetUsage may be handled before the clock ticks. *)
TimeHasPassed == ~aborted
=============================================================================
