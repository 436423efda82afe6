------------------------------- MODULE Flood -------------------------------
(***************************************************************************)
(* The flood gate of crates/server/src/ctx.rs (admit), which               *)
(* register_start and login_start pass through gate() before they touch    *)
(* the database.  One mutex guards the map, so every call is one step.     *)
(*                                                                         *)
(* The counter is a u32; a run stays far below its width, and MaxCalls     *)
(* bounds it here.  "log" is history: when each admission since the start  *)
(* of the server happened, per key; "opened" is how many came before the   *)
(* window that is open now.                                                *)
(***************************************************************************)
EXTENDS Integers, Sequences

CONSTANTS
    Keys,       \* "ip:username"
    Attempts,   \* limits.attempts
    Window,     \* limits.window, in ticks
    MaxTime,    \* bound of the clock
    MaxCalls,   \* bound of a strike's count, and of the admissions logged
    None

ASSUME AttemptsAssumption == Attempts \in Nat
ASSUME WindowAssumption == Window \in Nat
ASSUME BoundsAssumption == MaxTime \in Nat /\ MaxCalls \in Nat
ASSUME NoneAssumption == None \notin Nat

VARIABLES
    now,      \* Instant::now
    count,    \* Strike::count
    born,     \* Strike::born; None: the map has no entry for the key
    log,      \* history: times of the admissions
    opened    \* history: admissions before the open window

vars == <<now, count, born, log, opened>>

Init ==
    /\ now = 0
    /\ count = [k \in Keys |-> 0]
    /\ born = [k \in Keys |-> None]
    /\ log = [k \in Keys |-> <<>>]
    /\ opened = [k \in Keys |-> 0]

Tick ==
    /\ now < MaxTime
    /\ now' = now + 1
    /\ UNCHANGED <<count, born, log, opened>>

\* The entry is new, or its window is over.
Opens_Mutant(k) == IF born[k] = None THEN TRUE ELSE count[k] >= Attempts
Opens(k) == IF born[k] = None THEN TRUE ELSE now - born[k] >= Window

\* strike.count after this call.
Strikes_Mutant(k) == IF Opens(k) THEN 0 ELSE count[k] + 1
Strikes(k) == IF Opens(k) THEN 1 ELSE count[k] + 1

\* Refused calls count too, and do not move the window.
Call_Mutant(k) ==
    /\ Strikes(k) <= MaxCalls /\ Len(log[k]) < MaxCalls
    /\ count' = [count EXCEPT ![k] = Strikes(k)]
    /\ born' = [born EXCEPT ![k] = now]
    /\ log' = IF Strikes(k) <= Attempts THEN [log EXCEPT ![k] = Append(@, now)] ELSE log
    /\ opened' = IF Opens(k) THEN [opened EXCEPT ![k] = Len(log[k])] ELSE opened
    /\ UNCHANGED now

Call(k) ==
    /\ Strikes(k) <= MaxCalls /\ Len(log[k]) < MaxCalls
    /\ count' = [count EXCEPT ![k] = Strikes(k)]
    /\ born' = IF Opens(k) THEN [born EXCEPT ![k] = now] ELSE born
    /\ log' = IF Strikes(k) <= Attempts THEN [log EXCEPT ![k] = Append(@, now)] ELSE log
    /\ opened' = IF Opens(k) THEN [opened EXCEPT ![k] = Len(log[k])] ELSE opened
    /\ UNCHANGED now

\* The map lives in memory only.
Restart ==
    /\ count' = [k \in Keys |-> 0]
    /\ born' = [k \in Keys |-> None]
    /\ log' = [k \in Keys |-> <<>>]
    /\ opened' = [k \in Keys |-> 0]
    /\ UNCHANGED now

Next == (\E k \in Keys : Call(k)) \/ Restart \/ Tick

Spec == Init /\ [][Next]_vars

-----------------------------------------------------------------------------

\* The values of the map's entries and of the history; an entry has counted at
\* least the call that made it.
TypeOK ==
    /\ now \in Nat
    /\ count \in [Keys -> Nat]
    /\ born \in [Keys -> Nat \cup {None}]
    /\ log \in [Keys -> Seq(Nat)]
    /\ opened \in [Keys -> Nat]
    /\ \A k \in Keys : born[k] = None <=> count[k] = 0

\* What the gate really promises: of any 2 * Attempts admissions in a row the
\* last comes at least a window after the first, so no interval as long as the
\* window sees more than 2 * Attempts - 1 of them (ctx.rs admit).
Throttled ==
    \A k \in Keys : \A i, j \in DOMAIN log[k] :
        j - i >= 2 * Attempts - 1 => log[k][j] - log[k][i] >= Window

\* Nobody is locked out by refused calls: a call is refused only while the
\* last Attempts admissions are all younger than the window, however often the
\* key was tried since (ctx.rs admit).
RefusedForCause ==
    [][\A k \in Keys :
          count'[k] > count[k] /\ log' = log /\ Attempts > 0 =>
              /\ Len(log[k]) >= Attempts
              /\ now - log[k][Len(log[k]) - Attempts + 1] < Window]_vars
=============================================================================
