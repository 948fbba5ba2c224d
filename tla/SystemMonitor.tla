--------------------------- MODULE SystemMonitor ---------------------------
(***************************************************************************)
(* SystemMonitor (src/system_monitor.cpp): sample() reads /proc/stat, then *)
(* /proc/meminfo.  The CPU usage is the difference of two readings, so the *)
(* counters of the last one are kept; they are kept also when the second   *)
(* half of that sample() failed.                                           *)
(*                                                                         *)
(* Numbers have the width of the code: uint64_t is 0 .. MaxWord, and a sum *)
(* that is not checked wraps.  A percentage is its numerator and its       *)
(* denominator.  The kernel's files are inputs: any of the lines, in any   *)
(* order, as idle and iowait may go backwards.  Temperatures are left out. *)
(***************************************************************************)
EXTENDS Integers, Sequences

CONSTANTS
    MaxWord,           \* the largest uint64_t
    BytesPerKibibyte,
    CpuLines,          \* what /proc/stat may say: user, nice, system, idle, iowait,
                       \* irq, softirq, steal, guest, guest_nice, or fewer
    MemoryInfos        \* what /proc/meminfo may say

Missing == -1  \* no value: a key without a line, a sum that does not fit

Words == 0 .. MaxWord

ASSUME WordAssumption ==
    MaxWord \in Nat /\ BytesPerKibibyte \in Nat \ {0} /\ BytesPerKibibyte <= MaxWord

\* Old kernels have fewer columns, and no MemAvailable.
ASSUME FilesAssumption ==
    /\ \A line \in CpuLines :
          Len(line) \in Nat /\ \A i \in 1 .. Len(line) : line[i] \in Words
    /\ \A info \in MemoryInfos :
          /\ info.total \in Words /\ info.available \in Words \union {Missing}
          /\ info.free \in Words /\ info.buffers \in Words /\ info.cached \in Words

VARIABLES
    monitor,           \* in sample(): "idle", "memory"; "none": no monitor
    previousCpuTimes,  \* and hasPreviousCpuTimes_: {} before the first reading
    cpuUsage,          \* what sampleCpu() has put out: {} while not available
    metrics,           \* what the last sample() has put out; {}: it returned false
    readings           \* the true counters of the last two readings (history)

monitorVars == <<monitor, previousCpuTimes, cpuUsage, metrics, readings>>

MonitorInit ==
    /\ monitor = "idle"
    /\ previousCpuTimes = {} /\ cpuUsage = {} /\ metrics = {} /\ readings = <<>>

NoMonitor ==
    /\ monitor = "none"
    /\ previousCpuTimes = {} /\ cpuUsage = {} /\ metrics = {} /\ readings = <<>>

-----------------------------------------------------------------------------
(* The code.                                                               *)

\* Mutant of CheckedAdd: the sum wraps.
CheckedAdd_Wraps(sum, value) == (sum + value) % (MaxWord + 1)

\* sum > max - value is tested before value is added.
CheckedAdd(sum, value) ==
    IF sum = Missing \/ sum > MaxWord - value THEN Missing ELSE sum + value

Column(line, i) == IF i <= Len(line) THEN line[i] ELSE 0

\* The first eight counters: guest and guest_nice are in user and nice as well.
TotalOf(line) ==
    LET Plus(sum, i) == CheckedAdd(sum, Column(line, i))
    IN Plus(Plus(Plus(Plus(Plus(Plus(Plus(Plus(0, 1), 2), 3), 4), 5), 6), 7), 8)

IdleOf(line) == IF Len(line) > 4 THEN CheckedAdd(line[4], line[5]) ELSE line[4]

UsageSince(before, now) ==
    LET totalDelta == now.total - before.total
        idleDelta == now.idle - before.idle
    IN IF totalDelta > 0 /\ idleDelta \in 0 .. totalDelta
       THEN {[busy |-> totalDelta - idleDelta, of |-> totalDelta]} ELSE {}

\* The reference: the counters as numbers without a width.
TrueTimes(line) ==
    [total |-> Column(line, 1) + Column(line, 2) + Column(line, 3) + Column(line, 4)
                   + Column(line, 5) + Column(line, 6) + Column(line, 7) + Column(line, 8),
     idle |-> Column(line, 4) + Column(line, 5)]

\* sampleCpu()
SampleCpu(line) ==
    /\ monitor = "idle"
    /\ Len(line) >= 4 /\ TotalOf(line) # Missing /\ IdleOf(line) # Missing
    /\ LET now == [total |-> TotalOf(line), idle |-> IdleOf(line)]
       IN /\ cpuUsage' = UNION {UsageSince(before, now) : before \in previousCpuTimes}
          /\ previousCpuTimes' = {now}
    /\ readings' = IF readings = <<>> THEN <<TrueTimes(line)>>
                   ELSE <<readings[Len(readings)], TrueTimes(line)>>
    /\ monitor' = "memory" /\ metrics' = {}

\* It returns false before it has changed anything: no file, no cpu line, fewer
\* than four counters, or a sum that does not fit.
SampleCpuFails ==
    /\ monitor = "idle" /\ metrics' = {}
    /\ UNCHANGED <<monitor, previousCpuTimes, cpuUsage, readings>>

AvailableOf(info) ==
    LET available == IF info.available # Missing THEN info.available
                     ELSE CheckedAdd(CheckedAdd(info.free, info.buffers), info.cached)
    IN IF available > info.total THEN info.total ELSE available

KibibytesToBytes(kibibytes) ==
    IF kibibytes = Missing \/ kibibytes > MaxWord \div BytesPerKibibyte THEN Missing
    ELSE kibibytes * BytesPerKibibyte

\* sampleMemory() and the end of sample(): metrics is assigned at once, or not.
SampleMemory(info) ==
    LET total == KibibytesToBytes(info.total)
        available == KibibytesToBytes(AvailableOf(info))
    IN /\ monitor = "memory" /\ monitor' = "idle"
       /\ metrics' = IF info.total = 0 \/ total = Missing \/ available = Missing
                     THEN {}
                     ELSE {[cpu |-> cpuUsage, total |-> total, available |-> available,
                            used |-> (total - available) % (MaxWord + 1),
                            kibibytes |-> info.total]}
       /\ UNCHANGED <<previousCpuTimes, cpuUsage, readings>>

\* /proc/meminfo cannot be opened.
SampleMemoryFails ==
    /\ monitor = "memory" /\ monitor' = "idle"
    /\ UNCHANGED <<previousCpuTimes, cpuUsage, metrics, readings>>

MonitorNext ==
    \/ SampleCpuFails \/ SampleMemoryFails
    \/ \E line \in CpuLines : SampleCpu(line)
    \/ \E info \in MemoryInfos : SampleMemory(info)

MonitorSpec == MonitorInit /\ [][MonitorNext]_monitorVars

-----------------------------------------------------------------------------
(* Properties.                                                             *)

\* What sample() reports is true of the numbers the kernel gave, as if they had
\* no width: the CPU usage ("输出0到100之间的CPU使用率") is the busy share of the time
\* between the two last readings that could be used, none is reported for the
\* first or when a counter went backwards, and used and available memory add up
\* to the total, whatever wraps, is missing, or failed in between.
MetricsAreTrue ==
    \A r \in metrics :
        LET before == readings[1]
            now == readings[2]
            period == now.total - before.total
            idle == now.idle - before.idle
        IN /\ r.cpu = IF Len(readings) = 2 /\ period > 0 /\ idle \in 0 .. period
                      THEN {[busy |-> period - idle, of |-> period]} ELSE {}
           /\ r.total = r.kibibytes * BytesPerKibibyte
           /\ r.used \in 0 .. r.total /\ r.used + r.available = r.total

=============================================================================
