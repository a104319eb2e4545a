----------------------------- MODULE WallClock -----------------------------
(***************************************************************************)
(* Time as the caches see it.  clock is the time that passes; the stamps   *)
(* in the cache files are taken from time(NULL), which an operator or a    *)
(* time service may set back.  Both count the same coarse units.           *)
(***************************************************************************)
EXTENDS Integers

CONSTANTS
    MaxTime,  \* bound on the time a behaviour takes
    Jump      \* how far the wall clock is set back, at most once

ASSUME MaxTimeAssumption == MaxTime \in Nat
ASSUME JumpAssumption == Jump \in Nat

VARIABLES
    clock,  \* true time
    back    \* what the wall clock has lost

Wall == clock - back

TimeType == clock \in 0 .. MaxTime /\ back \in {0, Jump}

TimeInit == clock = 0 /\ back = 0

TimeStays == UNCHANGED <<clock, back>>

Tick == /\ clock < MaxTime
        /\ clock' = clock + 1
        /\ UNCHANGED back

SetBack == /\ back = 0
           /\ back' = Jump
           /\ UNCHANGED clock
=============================================================================
