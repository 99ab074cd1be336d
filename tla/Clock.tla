------------------------------- MODULE Clock -------------------------------
(***************************************************************************)
(* CP0 Count and Compare have two users.  U-Boot's get_timer keeps its     *)
(* milliseconds in Compare; the FreeRTOS port (rtos/port/port.c) keeps its *)
(* tick there.  While the scheduler runs, sdk_timer_own (sdk/runtime.c)    *)
(* sends get_timer to tm_get_timer, which counts milliseconds from Count,  *)
(* and sdk_timer_release gives the clock back.  A U-Boot program runs with *)
(* the tick masked (launcher/system.c).                                    *)
(*                                                                         *)
(* Time passes in counts; true_ms and true_sub are the real time.  All     *)
(* counters wrap: Count and Compare at M, milliseconds at MsMod.           *)
(***************************************************************************)
EXTENDS Integers

CONSTANTS
    M,              \* Count wraps here (2^32)
    MsMod,          \* milliseconds wrap here (2^32)
    Period,         \* counts per tick
    Jiffy,          \* counts per millisecond
    MaxOff,         \* bound: counts with interrupts off, or between two calls
                    \* of get_timer where no tick runs
    MaxLegacy       \* bound: counts a U-Boot program runs

(* A tick, a millisecond and a few critical sections are far shorter than  *)
(* half a wrap (6.5 s).                                                    *)
ASSUME ClockAssumption ==
    /\ {M, MsMod, Period, Jiffy, MaxOff, MaxLegacy} \subseteq Nat \ {0}
    /\ M % 2 = 0
    /\ Period + Jiffy + 3 * MaxOff < M \div 2

VARIABLES
    count, compare,
    ti,             \* timer interrupt latched
    ien,            \* interrupts enabled
    off,            \* counts since the clock was last looked after
    true_ms, true_sub,
    mode,           \* "uboot", "owned", "rtos", "legacy", "ended"
    pc,             \* place in the port or in sdk_timer_own; "run": elsewhere
    next,           \* prvSetCompare: its argument
    in_tm, st, n,   \* a task is in tm_get_timer; its locals
    stamp,          \* U-Boot's timestamp
    patched,        \* tm_code: get_timer leads to tm_get_timer
    tm_ms, tm_count

vars == <<count, compare, ti, ien, off, true_ms, true_sub, mode, pc, next,
          in_tm, st, n, stamp, patched, tm_ms, tm_count>>
timeVars == <<count, off, true_ms, true_sub>>
tmVars == <<in_tm, st, n, tm_ms, tm_count>>

Counts == 0..(M - 1)
Millis == 0..(MsMod - 1)

TypeOK ==
    /\ count \in Counts /\ compare \in Counts /\ next \in Counts /\ tm_count \in Counts
    /\ ti \in BOOLEAN /\ ien \in BOOLEAN /\ patched \in BOOLEAN
    /\ in_tm \in BOOLEAN /\ st \in BOOLEAN
    /\ off \in Nat /\ n \in Nat
    /\ true_ms \in Millis /\ stamp \in Millis /\ tm_ms \in Millis
    /\ true_sub \in 0..(Jiffy - 1)
    /\ mode \in {"uboot", "owned", "rtos", "legacy", "ended"}
    /\ pc \in {"run", "own", "start", "startck", "isr", "isrck", "hook"}

(* U-Boot has just started its clock (timer_init).                         *)
Init ==
    /\ count = 0 /\ compare = Jiffy /\ ti = FALSE
    /\ ien = TRUE /\ off = 0
    /\ true_ms = 0 /\ true_sub = 0
    /\ mode = "uboot" /\ pc = "run" /\ next = 0
    /\ in_tm = FALSE /\ st = FALSE /\ n = 0
    /\ stamp = 0 /\ patched = FALSE
    /\ tm_ms = 0 /\ tm_count = 0

(* A tick can be taken.                                                    *)
Unmasked == mode = "rtos" /\ ien /\ pc = "run"

(* A pending tick is taken at once if nothing masks it; else tasks run.    *)
TaskRuns == pc = "run" /\ ~(Unmasked /\ ti)

----------------------------------------------------------------------------
(* Time.                                                                   *)
Pass ==
    /\ ~(Unmasked /\ ti)
    /\ Unmasked \/ off < (IF mode = "legacy" THEN MaxLegacy ELSE MaxOff)
    /\ count' = (count + 1) % M
    /\ ti' = (ti \/ count' = compare)
    /\ true_sub' = (true_sub + 1) % Jiffy
    /\ true_ms' = IF true_sub' = 0 THEN (true_ms + 1) % MsMod ELSE true_ms
    /\ off' = IF Unmasked THEN 0 ELSE off + 1
    /\ UNCHANGED <<compare, ien, mode, pc, next, tmVars, stamp, patched>>

(* Critical sections of tasks.                                             *)
DisableInterrupts ==
    /\ mode = "rtos" /\ TaskRuns /\ ~in_tm /\ ien
    /\ ien' = FALSE /\ off' = 0
    /\ UNCHANGED <<count, true_ms, true_sub, compare, ti, mode, pc, next, tmVars, stamp, patched>>

EnableInterrupts ==
    /\ mode = "rtos" /\ TaskRuns /\ ~in_tm /\ ~ien
    /\ ien' = TRUE
    /\ UNCHANGED <<timeVars, compare, ti, mode, pc, next, tmVars, stamp, patched>>

----------------------------------------------------------------------------
(* rtos/port/port.c                                                        *)

(* A write to Compare acknowledges the interrupt.                          *)
WriteCompare(v) == compare' = v % M /\ ti' = FALSE

\* Mutant: whether Count has passed is not looked at.
AlwaysAhead(v) == TRUE

(* (int32_t) (next - Count) > 0                                            *)
Ahead(v) == (v - count) % M \in 1..(M \div 2 - 1)

(* prvSetCompare, the write ...                                            *)
SetCompareWrite(from, to) ==
    /\ pc = from
    /\ WriteCompare(next)
    /\ pc' = to
    /\ UNCHANGED <<timeVars, ien, mode, next, tmVars, stamp, patched>>

(* ... and the check; Count goes on in between.                            *)
SetCompareCheck(from, again, done) ==
    /\ pc = from
    /\ pc' = IF Ahead(next) THEN done ELSE again
    /\ next' = IF Ahead(next) THEN 0 ELSE (count + Period) % M
    /\ UNCHANGED <<timeVars, compare, ti, tmVars, stamp, patched>>

(* vPortExceptionHandler with the timer pending: interrupts are off (EXL). *)
TickBegin ==
    /\ Unmasked /\ ti
    /\ next' = (compare + Period) % M
    /\ pc' = "isr"
    /\ UNCHANGED <<timeVars, compare, ti, ien, mode, tmVars, stamp, patched>>

TickWrite == SetCompareWrite("isr", "isrck")
TickCheck == SetCompareCheck("isrck", "isr", "hook") /\ UNCHANGED <<ien, mode>>

(* tm_now, given the milliseconds that have passed.                        *)
Passed == ((count - tm_count) % M) \div Jiffy

TmAdd(d) ==
    /\ tm_ms' = (tm_ms + d) % MsMod
    /\ tm_count' = (tm_count + d * Jiffy) % M

(* xTaskIncrementTick: the tick hook (sdk_timer_tick), back to the task.   *)
TickHook ==
    /\ pc = "hook"
    /\ IF patched THEN TmAdd(Passed) ELSE UNCHANGED <<tm_ms, tm_count>>
    /\ pc' = "run"
    /\ off' = 0
    /\ UNCHANGED <<count, true_ms, true_sub, compare, ti, ien, mode, next, in_tm, st, n, stamp, patched>>

(* system_run: xPortStartScheduler.                                        *)
StartScheduler ==
    /\ mode = "owned" /\ TaskRuns /\ ~in_tm
    /\ ien' = FALSE
    /\ next' = (count + Period) % M
    /\ pc' = "start"
    /\ UNCHANGED <<timeVars, compare, ti, mode, tmVars, stamp, patched>>

StartWrite == SetCompareWrite("start", "startck")

StartCheck ==
    /\ SetCompareCheck("startck", "start", "run")
    /\ mode' = IF Ahead(next) THEN "rtos" ELSE mode
    /\ ien' = Ahead(next)

(* vPortEndScheduler, from the ui task.                                    *)
EndScheduler ==
    /\ mode = "rtos" /\ TaskRuns /\ ~in_tm
    /\ mode' = "ended"
    /\ ien' = FALSE
    /\ UNCHANGED <<timeVars, compare, ti, pc, next, tmVars, stamp, patched>>

(* system_legacy_begin masks the tick for a U-Boot program, _end restores. *)
LegacyBegin ==
    /\ Unmasked /\ TaskRuns /\ ~in_tm
    /\ mode' = "legacy" /\ off' = 0
    /\ UNCHANGED <<count, true_ms, true_sub, compare, ti, ien, pc, next, tmVars, stamp, patched>>

LegacyEnd ==
    /\ mode = "legacy" /\ ~in_tm
    /\ mode' = "rtos" /\ off' = 0
    /\ UNCHANGED <<count, true_ms, true_sub, compare, ti, ien, pc, next, tmVars, stamp, patched>>

----------------------------------------------------------------------------
(* get_timer                                                               *)

(* U-Boot's own (external): Compare is moved past Count, one jiffy at a    *)
(* time.                                                                   *)
Expired == IF (count - compare) % M < M \div 2 - 1
           THEN ((count - compare) % M) \div Jiffy + 1 ELSE 0

UbootUpdate ==
    /\ stamp' = (stamp + Expired) % MsMod
    /\ WriteCompare(compare + Expired * Jiffy)

UbootGetTimer ==
    /\ TaskRuns /\ ~patched
    /\ UbootUpdate
    /\ off' = 0
    /\ UNCHANGED <<count, true_ms, true_sub, ien, mode, pc, next, tmVars, patched>>

\* Mutant: tm_get_timer leaves interrupts on.
TmKeepMask == ien

(* di                                                                      *)
TmMask == FALSE

(* tm_get_timer: interrupts off, Count is read, ...                        *)
TmGetTimer ==
    /\ TaskRuns /\ patched /\ ~in_tm
    /\ mode \in {"owned", "rtos", "legacy"}
    /\ in_tm' = TRUE /\ st' = ien
    /\ ien' = TmMask
    /\ n' = Passed
    /\ off' = IF Unmasked THEN 0 ELSE off
    /\ UNCHANGED <<count, true_ms, true_sub, compare, ti, mode, pc, next,
                   stamp, patched, tm_ms, tm_count>>

(* ... the milliseconds are added, and interrupts are as they were.        *)
TmDone ==
    /\ TaskRuns /\ in_tm
    /\ TmAdd(n)
    /\ in_tm' = FALSE /\ st' = FALSE /\ n' = 0
    /\ ien' = (ien \/ st)
    /\ off' = IF mode = "owned" THEN 0 ELSE off
    /\ UNCHANGED <<count, true_ms, true_sub, compare, ti, mode, pc, next,
                   stamp, patched>>

----------------------------------------------------------------------------
(* sdk_timer_own: U-Boot's milliseconds, then its next jiffy from Compare. *)
OwnBegin ==
    /\ mode = "uboot" /\ TaskRuns
    /\ UbootUpdate
    /\ tm_ms' = stamp'
    /\ pc' = "own" /\ off' = 0
    /\ UNCHANGED <<count, true_ms, true_sub, ien, mode, next, in_tm, st, n,
                   patched, tm_count>>

OwnEnd ==
    /\ pc = "own"
    /\ tm_count' = (compare - Jiffy) % M
    /\ patched' = TRUE /\ mode' = "owned" /\ pc' = "run"
    /\ UNCHANGED <<timeVars, compare, ti, ien, next, in_tm, st, n, stamp, tm_ms>>

(* sdk_timer_release, after the scheduler has ended or was never started.  *)
Release ==
    /\ mode \in {"owned", "ended"} /\ TaskRuns /\ ~in_tm
    /\ TmAdd(Passed)
    /\ stamp' = tm_ms'
    /\ WriteCompare(tm_count' + Jiffy)
    /\ patched' = FALSE
    /\ mode' = "uboot" /\ ien' = TRUE /\ off' = 0
    /\ UNCHANGED <<count, true_ms, true_sub, pc, next, in_tm, st, n>>

----------------------------------------------------------------------------
Next ==
    \/ Pass \/ DisableInterrupts \/ EnableInterrupts
    \/ TickBegin \/ TickWrite \/ TickCheck \/ TickHook
    \/ StartScheduler \/ StartWrite \/ StartCheck \/ EndScheduler
    \/ LegacyBegin \/ LegacyEnd
    \/ UbootGetTimer \/ TmGetTimer \/ TmDone
    \/ OwnBegin \/ OwnEnd \/ Release

Spec == Init /\ [][Next]_vars

----------------------------------------------------------------------------
(* Properties                                                              *)

(* prvSetCompare: "Compare must end up ahead of Count ... Otherwise the    *)
(* next tick would only come when Count wraps": outside of the port's own  *)
(* code the next tick is pending or at most one period away.               *)
TickSoon ==
    mode = "rtos" /\ pc = "run" /\ ~ti => (compare - count) % M \in 1..Period

(* Whoever keeps the clock, its milliseconds and the rest that has not     *)
(* been counted yet are the real time: get_timer returns true_ms, before,  *)
(* between and after the hand-overs of Compare.                            *)
Ms == IF patched THEN tm_ms ELSE stamp
Rest == IF patched THEN (count - tm_count) % M ELSE (count - (compare - Jiffy)) % M

KeepsTime ==
    /\ true_ms = (Ms + Rest \div Jiffy) % MsMod
    /\ true_sub = Rest % Jiffy
============================================================================
