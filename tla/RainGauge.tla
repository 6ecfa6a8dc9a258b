----------------------------- MODULE RainGauge -----------------------------
(***************************************************************************)
(* The amount of rain that is recorded: Database::convertRainAmountValue.  *)
(* The station counts the rain since its counter was last reset; the       *)
(* collector turns the counter into the rain of one window after another.  *)
(* It learns of the counter only when a message comes, whose times nobody  *)
(* controls, and forgets everything when it is restarted.                  *)
(*                                                                         *)
(* Amounts are in hundredths of an inch, the unit of the station.          *)
(***************************************************************************)
EXTENDS Integers

CONSTANTS
    rainAmountCollectionTime,
    MaxRain,   \* bound: rain that falls
    MaxTime,   \* bound: seconds
    MaxResets  \* bound: times the counter is reset or wraps

ASSUME RainGaugeAssumption ==
    /\ rainAmountCollectionTime \in Nat \ {0}
    /\ MaxRain \in Nat /\ MaxTime \in Nat /\ MaxResets \in Nat

VARIABLES
    m_lastRainAmount,            \* -1 before the first message
    m_lastRainDelta,
    m_lastRainAmountUpdateTime,
    total,                       \* the counter of the station
    now,
    fallen,                      \* history: rain since the first message
    credited,                    \* history: sum of the windows closed
    closed,                      \* history: number of windows closed
    opened,                      \* history: when the first window began
    resets                       \* history: resets so far

rainVars  == <<m_lastRainAmount, m_lastRainDelta, m_lastRainAmountUpdateTime,
               credited, closed, opened>>
skyVars   == <<total, fallen, resets>>
gaugeVars == <<rainVars, skyVars, now>>

GaugeInit ==
    /\ m_lastRainAmount = -1 /\ m_lastRainDelta = 0
    /\ m_lastRainAmountUpdateTime = 0
    /\ total \in 0..1 /\ now = 0 /\ resets = 0
    /\ fallen = 0 /\ credited = 0 /\ closed = 0 /\ opened = 0

(* Mutant: a counter that went back is rain of a negative amount.          *)
CollectedUnclipped(value) == value - m_lastRainAmount

(* What the window has collected so far; a counter that went back counts   *)
(* for nothing.                                                            *)
Collected(value) ==
    IF value > m_lastRainAmount THEN value - m_lastRainAmount ELSE 0

FirstAmount(value) ==
    /\ m_lastRainAmount < 0
    /\ m_lastRainAmount' = value /\ m_lastRainDelta' = 0
    /\ m_lastRainAmountUpdateTime' = now
    /\ opened' = now /\ fallen' = 0 /\ credited' = 0 /\ closed' = 0

WindowOver == now - m_lastRainAmountUpdateTime >= rainAmountCollectionTime

(* Mutants: the next window counts from the same amount, begins where the  *)
(* last one did, or every message moves the amount that counting starts    *)
(* from.                                                                   *)
CloseWindowKeepingAmount(value) ==
    /\ m_lastRainAmount >= 0 /\ WindowOver
    /\ m_lastRainDelta' = Collected(value)
    /\ m_lastRainAmountUpdateTime' =
           m_lastRainAmountUpdateTime + rainAmountCollectionTime
    /\ credited' = credited + Collected(value) /\ closed' = closed + 1
    /\ UNCHANGED <<m_lastRainAmount, opened, fallen>>

CloseWindowKeepingTime(value) ==
    /\ m_lastRainAmount >= 0 /\ WindowOver
    /\ m_lastRainDelta' = Collected(value)
    /\ m_lastRainAmount' = value
    /\ credited' = credited + Collected(value) /\ closed' = closed + 1
    /\ UNCHANGED <<m_lastRainAmountUpdateTime, opened, fallen>>

CloseWindow(value) ==
    /\ m_lastRainAmount >= 0 /\ WindowOver
    /\ m_lastRainDelta' = Collected(value)
    /\ m_lastRainAmountUpdateTime' =
           m_lastRainAmountUpdateTime + rainAmountCollectionTime
    /\ m_lastRainAmount' = value
    /\ credited' = credited + Collected(value) /\ closed' = closed + 1
    /\ UNCHANGED <<opened, fallen>>

WithinWindowMoving(value) ==
    /\ m_lastRainAmount >= 0 /\ ~WindowOver
    /\ m_lastRainAmount' = value
    /\ UNCHANGED <<m_lastRainDelta, m_lastRainAmountUpdateTime,
                   opened, fallen, credited, closed>>

WithinWindow(value) ==
    /\ m_lastRainAmount >= 0 /\ ~WindowOver
    /\ UNCHANGED <<rainVars, fallen>>

(* A call with the counter of a message; m_lastRainDelta' is the result.   *)
convertRainAmountValue(value) ==
    /\ FirstAmount(value) \/ CloseWindow(value) \/ WithinWindow(value)
    /\ UNCHANGED <<total, now, resets>>

(* The rain falls on whatever the collector does.                          *)
Rain ==
    /\ fallen < MaxRain /\ total < MaxRain
    /\ total' = total + 1 /\ fallen' = fallen + 1
    /\ UNCHANGED <<rainVars, resets, now>>

(* Somebody resets the counter, or its 16 bits run over.                   *)
CounterReset ==
    /\ resets < MaxResets
    /\ total' = 0 /\ resets' = resets + 1
    /\ UNCHANGED <<rainVars, fallen, now>>

(* Time goes by without a message.                                         *)
Tick ==
    /\ now < MaxTime
    /\ now' = now + 1
    /\ UNCHANGED <<rainVars, skyVars>>

(* The collector is started again.                                         *)
Restart ==
    /\ m_lastRainAmount >= 0
    /\ m_lastRainAmount' = -1 /\ m_lastRainDelta' = 0
    /\ m_lastRainAmountUpdateTime' = 0
    /\ opened' = 0 /\ fallen' = 0 /\ credited' = 0 /\ closed' = 0 /\ resets' = 0
    /\ UNCHANGED <<total, now>>

GaugeNext ==
    \/ convertRainAmountValue(total)
    \/ Rain \/ CounterReset \/ Tick \/ Restart

GaugeSpec == GaugeInit /\ [][GaugeNext]_gaugeVars

-----------------------------------------------------------------------------

GaugeTypeOK ==
    /\ m_lastRainAmount \in Nat \union {-1}
    /\ m_lastRainDelta \in Nat /\ m_lastRainAmountUpdateTime \in Nat
    /\ total \in Nat /\ now \in Nat /\ resets \in Nat
    /\ fallen \in Nat /\ credited \in Nat /\ closed \in Nat /\ opened \in Nat

Started == m_lastRainAmount >= 0

(* No rain is recorded that did not fall, and none twice, however late     *)
(* messages are and whenever the counter is reset (Database.cpp:34-43).    *)
NeverTooMuch ==
    Started => credited + Collected(total) =< fallen

(* As long as the counter is not reset none is left out either: what the   *)
(* closed windows do not have is in the one that is open.                  *)
NothingLeftOut ==
    Started /\ resets = 0 => credited + (total - m_lastRainAmount) = fallen

(* A window is never closed before its time: k windows take k times 15     *)
(* minutes, also when late messages make one of them long and the next     *)
(* ones short (Database.cpp:38-40).                                        *)
WindowsKeepTime ==
    Started =>
        /\ m_lastRainAmountUpdateTime =
               opened + closed * rainAmountCollectionTime
        /\ m_lastRainAmountUpdateTime =< now
=============================================================================
