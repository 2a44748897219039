---------------------------- MODULE DftExecGate ----------------------------
(* What das2/dft.c promises about FFTW's planner, which is not reentrant:    *)
(* any number of threads may run transforms at once, but a plan is created   *)
(* or destroyed by one thread at a time and only while no transform runs.    *)
(* A readers-writer gate, with nothing said of mutexes or counters.          *)
CONSTANTS Thread, NoThread

VARIABLES running,  \* the threads inside a transform
          planner   \* the thread inside FFTW's planner, or NoThread

gateVars == <<running, planner>>

Init == running = {} /\ planner = NoThread

StartTransform(t) ==
  /\ planner = NoThread
  /\ t \notin running
  /\ running' = running \cup {t}
  /\ UNCHANGED planner

EndTransform(t) ==
  /\ t \in running
  /\ running' = running \ {t}
  /\ UNCHANGED planner

EnterPlanner(t) ==
  /\ running = {}
  /\ planner = NoThread
  /\ planner' = t
  /\ UNCHANGED running

LeavePlanner(t) ==
  /\ planner = t
  /\ planner' = NoThread
  /\ UNCHANGED running

Next == \E t \in Thread : \/ StartTransform(t) \/ EndTransform(t)
                          \/ EnterPlanner(t)   \/ LeavePlanner(t)

Spec == Init /\ [][Next]_gateVars

(* The gate keeps transforms and the planner apart.                          *)
GateSafe == planner = NoThread \/ running = {}
=============================================================================
