------------------------------- MODULE DasDft -------------------------------
(* das2/dft.c: threads that share FFTW plans.                                *)
(*                                                                           *)
(* g_nExecCount counts the transforms in progress; it is guarded by the      *)
(* mutex g_mtxExecCount and its decrease is announced on g_cndExecCountDec.  *)
(* new_DftPlan and del_DftPlan wait for it to be zero and keep the mutex     *)
(* while they are inside FFTW's planner.  Each plan counts the Dft and Psd   *)
(* objects built on it (nCount, under mtxCount, announced on cndCountDec).   *)
(*                                                                           *)
(* A plan is a slot of the heap: after free() the same slot may be handed to *)
(* the next new_DftPlan.  A critical section with nothing to observe inside  *)
(* it (lock, one assignment, unlock) is one step, enabled when the mutex is  *)
(* free; new_DftPlan and del_DftPlan, which hold the mutex for long, are     *)
(* step by step.                                                             *)
EXTENDS Integers, FiniteSets

CONSTANTS Thread,    \* the threads of the program
          Plan,      \* the heap slots plans live in
          Len,       \* plan lengths used
          EvenLen,   \* those new_Dft accepts: even and not zero
          Kind,      \* kinds of converter the program uses: "dft", "psd"
          Polite,    \* TRUE: a plan is deleted only when nobody uses it
          MaxCalls,  \* bound: library calls one thread makes
          NoThread, NoPlan, NoConv

Converter == [kind : Kind, plan : Plan, uLen : Len]

ASSUME DftAssumption ==
  /\ IsFiniteSet(Thread)
  /\ EvenLen \subseteq Len
  /\ Kind \subseteq {"dft", "psd"}
  /\ Polite \in BOOLEAN
  /\ MaxCalls \in Nat
  /\ NoThread \notin Thread
  /\ NoPlan \notin Plan
  /\ NoConv \notin Converter

VARIABLES
  pc,            \* where each thread is
  arg,           \* the plan its current call is about
  conv,          \* the Das2Dft or Das2Psd it owns
  calls,         \* how many calls it has made
  g_nExecCount,  \* transforms in progress
  g_mtx,         \* the owner of g_mtxExecCount
  planState,     \* of a slot: "free", "live", or "destroyed" (not yet freed)
  uLen,          \* the plan's length
  nCount,        \* converters counted on the plan
  mtxCount       \* the owner of the plan's mtxCount

planVars == <<planState, uLen, nCount, mtxCount>>
vars == <<pc, arg, conv, calls, g_nExecCount, g_mtx, planVars>>

Label == {"idle",
          "newLock", "newTest", "newWait", "planning",
          "delLock", "delTest", "delWait", "delWoken", "delInner",
          "delInnerWait", "delInnerWoken", "destroying", "freeing",
          "cvtLock", "cvtBuild", "cvtUndo", "relLock",
          "incLock", "check", "executing", "decLock", "badDec"}

\* The program counters between the increment of g_nExecCount and its decrement.
CountedLabel == {"check", "executing", "decLock", "badDec"}
\* The program counters of a thread inside FFTW's planner.
PlannerLabel == {"planning", "destroying"}
\* The program counters of new_DftPlan, of del_DftPlan.
NewLabel == {"newLock", "newTest", "newWait", "planning"}
DeleteLabel == {"delLock", "delTest", "delWait", "delWoken", "delInner",
                "delInnerWait", "delInnerWoken", "destroying", "freeing"}

Counted == {t \in Thread : pc[t] \in CountedLabel}

Init ==
  /\ pc = [t \in Thread |-> "idle"]
  /\ arg = [t \in Thread |-> NoPlan]
  /\ conv = [t \in Thread |-> NoConv]
  /\ calls = [t \in Thread |-> 0]
  /\ g_nExecCount = 0
  /\ g_mtx = NoThread
  /\ planState = [p \in Plan |-> "free"]
  /\ uLen \in [Plan -> Len]
  /\ nCount = [p \in Plan |-> 0]
  /\ mtxCount = [p \in Plan |-> NoThread]

Goto(t, l) == pc' = [pc EXCEPT ![t] = l]

\* pthread_cond_broadcast(&g_cndExecCountDec) by t, which goes on at l: every
\* waiter has to take the mutex again before its pthread_cond_wait returns.
WakeExecWaiters(t, l) ==
  pc' = [u \in Thread |-> IF u = t THEN l
                          ELSE IF pc[u] = "newWait" THEN "newLock"
                          ELSE IF pc[u] = "delWait" THEN "delWoken" ELSE pc[u]]

\* pthread_cond_broadcast(&(pPlan->cndCountDec)) by t, which becomes idle.
WakeCountWaiters(t, p) ==
  pc' = [u \in Thread |-> IF u = t THEN "idle"
                          ELSE IF pc[u] = "delInnerWait" /\ arg[u] = p
                          THEN "delInnerWoken" ELSE pc[u]]

\* The calling program: an idle thread with calls left starts one.
Start(t, l) ==
  /\ pc[t] = "idle"
  /\ calls[t] < MaxCalls
  /\ calls' = [calls EXCEPT ![t] = @ + 1]
  /\ Goto(t, l)

\* A program never hands a plan it is deleting, or has deleted, to a new call.
Usable(p) ==
  /\ planState[p] = "live"
  /\ \A u \in Thread : arg[u] = p => pc[u] \notin DeleteLabel

\* Thread u owns a converter of plan p or is building one.
Uses(u, p) ==
  \/ conv[u] # NoConv /\ conv[u].plan = p
  \/ pc[u] \in {"cvtLock", "cvtBuild", "cvtUndo"} /\ arg[u] = p
-----------------------------------------------------------------------------
(* new_DftPlan                                                               *)

\* A slot is left for every plan under construction: the heap has room.
NewPlanCall(t) ==
  /\ Cardinality({p \in Plan : planState[p] = "free"})
       > Cardinality({u \in Thread : pc[u] \in NewLabel})
  /\ Start(t, "newLock")
  /\ UNCHANGED <<arg, conv, g_nExecCount, g_mtx, planVars>>

NewPlanLock(t) ==
  /\ pc[t] = "newLock"
  /\ g_mtx = NoThread
  /\ g_mtx' = t
  /\ Goto(t, "newTest")
  /\ UNCHANGED <<arg, conv, calls, g_nExecCount, planVars>>

NewPlanWait(t) ==
  /\ pc[t] = "newTest"
  /\ g_nExecCount > 0
  /\ g_mtx' = NoThread
  /\ Goto(t, "newWait")
  /\ UNCHANGED <<arg, conv, calls, g_nExecCount, planVars>>

NewPlanEnter(t) ==
  /\ pc[t] = "newTest"
  /\ ~(g_nExecCount > 0)
  /\ Goto(t, "planning")
  /\ UNCHANGED <<arg, conv, calls, g_nExecCount, g_mtx, planVars>>

NewPlanDone(t, p, n) ==
  /\ pc[t] = "planning"
  /\ planState[p] = "free"
  /\ planState' = [planState EXCEPT ![p] = "live"]
  /\ uLen' = [uLen EXCEPT ![p] = n]
  /\ nCount' = [nCount EXCEPT ![p] = 0]
  /\ mtxCount' = [mtxCount EXCEPT ![p] = NoThread]
  /\ g_mtx' = NoThread
  /\ Goto(t, "idle")
  /\ UNCHANGED <<arg, conv, calls, g_nExecCount>>
-----------------------------------------------------------------------------
(* del_DftPlan                                                               *)

DelPlanCall(t, p) ==
  /\ Usable(p)
  /\ Polite => \A u \in Thread : ~Uses(u, p)
  /\ Start(t, "delLock")
  /\ arg' = [arg EXCEPT ![t] = p]
  /\ UNCHANGED <<conv, g_nExecCount, g_mtx, planVars>>

DelPlanLock(t) ==
  /\ pc[t] = "delLock"
  /\ g_mtx = NoThread
  /\ g_mtx' = t
  /\ Goto(t, "delTest")
  /\ UNCHANGED <<arg, conv, calls, g_nExecCount, planVars>>

DelPlanWait(t) ==
  /\ pc[t] = "delTest"
  /\ g_nExecCount > 0
  /\ g_mtx' = NoThread
  /\ Goto(t, "delWait")
  /\ UNCHANGED <<arg, conv, calls, g_nExecCount, planVars>>

DelPlanWoken(t) ==
  /\ pc[t] = "delWoken"
  /\ g_mtx = NoThread
  /\ g_mtx' = t
  /\ Goto(t, "delInner")
  /\ UNCHANGED <<arg, conv, calls, g_nExecCount, planVars>>

\* The inner loop reads nCount without mtxCount and waits with a mutex it did
\* not lock: the error checking mutex of a debug build refuses (EPERM) and the
\* loop spins; otherwise the wait unlocks it, whoever owns it, and blocks.
DelInnerWait(t) ==
  /\ pc[t] = "delInner"
  /\ nCount[arg[t]] > 0
  /\ \/ UNCHANGED <<pc, mtxCount>>
     \/ /\ mtxCount' = [mtxCount EXCEPT ![arg[t]] = NoThread]
        /\ Goto(t, "delInnerWait")
  /\ UNCHANGED <<arg, conv, calls, g_nExecCount, g_mtx, planState, uLen, nCount>>

DelInnerWoken(t) ==
  /\ pc[t] = "delInnerWoken"
  /\ mtxCount[arg[t]] = NoThread
  /\ mtxCount' = [mtxCount EXCEPT ![arg[t]] = t]
  /\ Goto(t, "delInner")
  /\ UNCHANGED <<arg, conv, calls, g_nExecCount, g_mtx, planState, uLen, nCount>>

DelInnerDone(t) ==
  /\ pc[t] = "delInner"
  /\ ~(nCount[arg[t]] > 0)
  /\ Goto(t, "delTest")
  /\ UNCHANGED <<arg, conv, calls, g_nExecCount, g_mtx, planVars>>

\* Faulty variant: the wait for transforms to end is forgotten.
DelPlanEnterAnyway(t) ==
  /\ pc[t] = "delTest"
  /\ Goto(t, "destroying")
  /\ UNCHANGED <<arg, conv, calls, g_nExecCount, g_mtx, planVars>>

DelPlanEnter(t) ==
  /\ pc[t] = "delTest"
  /\ ~(g_nExecCount > 0)
  /\ Goto(t, "destroying")
  /\ UNCHANGED <<arg, conv, calls, g_nExecCount, g_mtx, planVars>>

\* fftw_destroy_plan, then both mutexes are unlocked; free comes after that.
DelPlanDestroy(t) ==
  /\ pc[t] = "destroying"
  /\ planState' = [planState EXCEPT ![arg[t]] = "destroyed"]
  /\ mtxCount' = [mtxCount EXCEPT ![arg[t]] = NoThread]
  /\ g_mtx' = NoThread
  /\ Goto(t, "freeing")
  /\ UNCHANGED <<arg, conv, calls, g_nExecCount, uLen, nCount>>

DelPlanFree(t) ==
  /\ pc[t] = "freeing"
  /\ planState' = [planState EXCEPT ![arg[t]] = "free"]
  /\ arg' = [arg EXCEPT ![t] = NoPlan]
  /\ Goto(t, "idle")
  /\ UNCHANGED <<conv, calls, g_nExecCount, g_mtx, uLen, nCount, mtxCount>>

\* pthread_cond_wait may return without a broadcast.
SpuriousWakeup(t) ==
  /\ \/ pc[t] = "newWait" /\ Goto(t, "newLock")
     \/ pc[t] = "delWait" /\ Goto(t, "delWoken")
     \/ pc[t] = "delInnerWait" /\ Goto(t, "delInnerWoken")
  /\ UNCHANGED <<arg, conv, calls, g_nExecCount, g_mtx, planVars>>
-----------------------------------------------------------------------------
(* new_Dft and new_Psd, del_Dft and del_Das2Psd                              *)

NewConvCall(t, p) ==
  /\ conv[t] = NoConv
  /\ Usable(p)
  /\ Start(t, "cvtLock")
  /\ arg' = [arg EXCEPT ![t] = p]
  /\ UNCHANGED <<conv, g_nExecCount, g_mtx, planVars>>

NewConvCount(t) ==
  /\ pc[t] = "cvtLock"
  /\ mtxCount[arg[t]] = NoThread
  /\ nCount' = [nCount EXCEPT ![arg[t]] = @ + 1]
  /\ Goto(t, "cvtBuild")
  /\ UNCHANGED <<arg, conv, calls, g_nExecCount, g_mtx, planState, uLen, mtxCount>>

\* An odd length, or a window name only new_Dft refuses.
NewConvReject(t) ==
  /\ pc[t] = "cvtBuild"
  /\ uLen[arg[t]] \notin EvenLen \/ "dft" \in Kind
  /\ Goto(t, "cvtUndo")
  /\ UNCHANGED <<arg, conv, calls, g_nExecCount, g_mtx, planVars>>

\* Faulty variant: the refused constructor keeps its reference.
NewConvUndoLeak(t) ==
  /\ pc[t] = "cvtUndo"
  /\ arg' = [arg EXCEPT ![t] = NoPlan]
  /\ Goto(t, "idle")
  /\ UNCHANGED <<conv, calls, g_nExecCount, g_mtx, planVars>>

\* The count goes back down, and nobody is told.
NewConvUndo(t) ==
  /\ pc[t] = "cvtUndo"
  /\ mtxCount[arg[t]] = NoThread
  /\ nCount' = [nCount EXCEPT ![arg[t]] = @ - 1]
  /\ arg' = [arg EXCEPT ![t] = NoPlan]
  /\ Goto(t, "idle")
  /\ UNCHANGED <<conv, calls, g_nExecCount, g_mtx, planState, uLen, mtxCount>>

NewConvDone(t, k) ==
  /\ pc[t] = "cvtBuild"
  /\ uLen[arg[t]] \in EvenLen
  /\ conv' = [conv EXCEPT ![t] = [kind |-> k, plan |-> arg[t], uLen |-> uLen[arg[t]]]]
  /\ arg' = [arg EXCEPT ![t] = NoPlan]
  /\ Goto(t, "idle")
  /\ UNCHANGED <<calls, g_nExecCount, g_mtx, planVars>>

DelConvCall(t) ==
  /\ conv[t] # NoConv
  /\ Start(t, "relLock")
  /\ UNCHANGED <<arg, conv, g_nExecCount, g_mtx, planVars>>

DelConv(t) ==
  /\ pc[t] = "relLock"
  /\ LET p == conv[t].plan IN
       /\ mtxCount[p] = NoThread
       /\ nCount' = [nCount EXCEPT ![p] = @ - 1]
       /\ WakeCountWaiters(t, p)
  /\ conv' = [conv EXCEPT ![t] = NoConv]
  /\ UNCHANGED <<arg, calls, g_nExecCount, g_mtx, planState, uLen, mtxCount>>
-----------------------------------------------------------------------------
(* Dft_calculate and Psd_calculate                                           *)

CalculateCall(t) ==
  /\ conv[t] # NoConv
  /\ Start(t, "incLock")
  /\ UNCHANGED <<arg, conv, g_nExecCount, g_mtx, planVars>>

\* Faulty variant: the counter is raised without its mutex.
CalculateCountUnlocked(t) ==
  /\ pc[t] = "incLock"
  /\ g_nExecCount' = g_nExecCount + 1
  /\ Goto(t, "check")
  /\ UNCHANGED <<arg, conv, calls, g_mtx, planVars>>

CalculateCount(t) ==
  /\ pc[t] = "incLock"
  /\ g_mtx = NoThread
  /\ g_nExecCount' = g_nExecCount + 1
  /\ Goto(t, "check")
  /\ UNCHANGED <<arg, conv, calls, g_mtx, planVars>>

CalculateCheck(t) ==
  /\ pc[t] = "check"
  /\ Goto(t, IF uLen[conv[t].plan] # conv[t].uLen THEN "badDec" ELSE "executing")
  /\ UNCHANGED <<arg, conv, calls, g_nExecCount, g_mtx, planVars>>

\* Faulty variant: the early return forgets what the entry added.
CalculateMismatchLeak(t) ==
  /\ pc[t] = "badDec"
  /\ g_mtx = NoThread
  /\ Goto(t, "idle")
  /\ UNCHANGED <<arg, conv, calls, g_nExecCount, g_mtx, planVars>>

\* The plan is not the one the converter was made for: give up, tell nobody.
CalculateMismatch(t) ==
  /\ pc[t] = "badDec"
  /\ g_mtx = NoThread
  /\ g_nExecCount' = g_nExecCount - 1
  /\ Goto(t, "idle")
  /\ UNCHANGED <<arg, conv, calls, g_mtx, planVars>>

CalculateExecute(t) ==
  /\ pc[t] = "executing"
  /\ Goto(t, "decLock")
  /\ UNCHANGED <<arg, conv, calls, g_nExecCount, g_mtx, planVars>>

\* Faulty variants: one thread's end is counted twice, or announced to nobody.
CalculateDoneTwice(t) ==
  /\ pc[t] = "decLock"
  /\ g_mtx = NoThread
  /\ g_nExecCount' = g_nExecCount - 2
  /\ WakeExecWaiters(t, "idle")
  /\ UNCHANGED <<arg, conv, calls, g_mtx, planVars>>

CalculateDoneSilent(t) ==
  /\ pc[t] = "decLock"
  /\ g_mtx = NoThread
  /\ g_nExecCount' = g_nExecCount - 1
  /\ Goto(t, "idle")
  /\ UNCHANGED <<arg, conv, calls, g_mtx, planVars>>

\* Dft_calculate broadcasts the decrease, Psd_calculate does not.
CalculateDone(t) ==
  /\ pc[t] = "decLock"
  /\ g_mtx = NoThread
  /\ g_nExecCount' = g_nExecCount - 1
  /\ IF conv[t].kind = "dft" THEN WakeExecWaiters(t, "idle") ELSE Goto(t, "idle")
  /\ UNCHANGED <<arg, conv, calls, g_mtx, planVars>>
-----------------------------------------------------------------------------
(* The steps inside the library, which the scheduler gives every thread, and *)
(* the calls, which are up to the program.                                   *)
Step(t) ==
  \/ NewPlanLock(t) \/ NewPlanWait(t) \/ NewPlanEnter(t)
  \/ \E p \in Plan, n \in Len : NewPlanDone(t, p, n)
  \/ DelPlanLock(t) \/ DelPlanWait(t) \/ DelPlanWoken(t)
  \/ DelInnerWait(t) \/ DelInnerWoken(t) \/ DelInnerDone(t)
  \/ DelPlanEnter(t) \/ DelPlanDestroy(t) \/ DelPlanFree(t)
  \/ NewConvCount(t) \/ NewConvReject(t) \/ NewConvUndo(t)
  \/ \E k \in Kind : NewConvDone(t, k)
  \/ DelConv(t)
  \/ CalculateCount(t) \/ CalculateCheck(t) \/ CalculateMismatch(t)
  \/ CalculateExecute(t) \/ CalculateDone(t)

Call(t) ==
  \/ NewPlanCall(t) \/ \E p \in Plan : DelPlanCall(t, p)
  \/ \E p \in Plan : NewConvCall(t, p)
  \/ DelConvCall(t) \/ CalculateCall(t)

Next == \E t \in Thread : Step(t) \/ Call(t) \/ SpuriousWakeup(t)

Spec == Init /\ [][Next]_vars

\* Every thread keeps running, and a mutex that is free again and again is one
\* day obtained by each thread that asks for it.  No program has to make a call
\* and no condition variable has to wake up by itself.
Fairness == \A t \in Thread : SF_vars(Step(t))

FairSpec == Spec /\ Fairness
-----------------------------------------------------------------------------
TypeOK ==
  /\ pc \in [Thread -> Label]
  /\ arg \in [Thread -> Plan \cup {NoPlan}]
  /\ conv \in [Thread -> Converter \cup {NoConv}]
  /\ calls \in [Thread -> 0..MaxCalls]
  /\ g_nExecCount \in Nat
  /\ g_mtx \in Thread \cup {NoThread}
  /\ planState \in [Plan -> {"free", "live", "destroyed"}]
  /\ uLen \in [Plan -> Len]
  /\ nCount \in [Plan -> Int]
  /\ mtxCount \in [Plan -> Thread \cup {NoThread}]

(* FFTW's planner never runs beside a transform, whatever the program does:  *)
(* a thread that creates or destroys a plan does so while no other thread is *)
(* between the two counter updates of a calculate call.                      *)
PlannerExclusion ==
  \A t, u \in Thread : pc[t] \in PlannerLabel =>
    /\ pc[u] \notin CountedLabel
    /\ u # t => pc[u] \notin PlannerLabel

(* The count never drifts: every return path of both calculate functions     *)
(* takes back exactly what its entry added.                                  *)
ExecCountExact == g_nExecCount = Cardinality(Counted)

(* The plan's count of converters is exact: no refused constructor and no    *)
(* interleaving of constructors and destructors loses or leaks a reference.  *)
UserCountExact ==
  \A p \in Plan : planState[p] = "live" =>
    nCount[p] = Cardinality({t \in Thread :
                   \/ conv[t] # NoConv /\ conv[t].plan = p
                   \/ pc[t] \in {"cvtBuild", "cvtUndo"} /\ arg[t] = p})

(* Nobody sleeps on g_cndExecCountDec without a transform in progress whose  *)
(* end will wake it.                                                         *)
NoLostWakeup ==
  (\E t \in Thread : pc[t] \in {"newWait", "delWait"}) => g_nExecCount > 0

(* new_DftPlan and del_DftPlan block only while transforms run: each call    *)
(* returns.                                                                  *)
PlanCallsReturn ==
  \A t \in Thread : pc[t] \in NewLabel \cup DeleteLabel ~> pc[t] = "idle"

\* The thread inside FFTW's planner.
PlannerThread == IF \E t \in Thread : pc[t] \in PlannerLabel
                 THEN CHOOSE t \in Thread : pc[t] \in PlannerLabel
                 ELSE NoThread

Gate == INSTANCE DftExecGate WITH running <- Counted, planner <- PlannerThread

(* The mutex, the counter and the condition variable implement the gate.     *)
ImplementsGate == Gate!Spec
=============================================================================
