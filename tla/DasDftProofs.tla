---------------------------- MODULE DasDftProofs ----------------------------
(* Theorems about DasDft for any finite set of threads, any plans, polite or *)
(* not: the planner never runs beside a transform, the counter is exact and  *)
(* the code implements the abstract gate.  For polite programs: the plan's   *)
(* own count is exact, and without Psd objects no wakeup is lost.            *)
EXTENDS DasDft, FiniteSetTheorems, TLAPS

USE DEF Label, CountedLabel, PlannerLabel, NewLabel, DeleteLabel

\* What TypeOK says, with a counter that might still be negative.
Typing ==
  /\ pc \in [Thread -> Label]
  /\ arg \in [Thread -> Plan \cup {NoPlan}]
  /\ conv \in [Thread -> Converter \cup {NoConv}]
  /\ calls \in [Thread -> 0..MaxCalls]
  /\ g_nExecCount \in Int
  /\ g_mtx \in Thread \cup {NoThread}
  /\ planState \in [Plan -> {"free", "live", "destroyed"}]
  /\ uLen \in [Plan -> Len]
  /\ nCount \in [Plan -> Int]
  /\ mtxCount \in [Plan -> Thread \cup {NoThread}]

\* A thread inside a call has what the call is about.
Refs ==
  \A t \in Thread :
    /\ pc[t] \in DeleteLabel \cup {"cvtLock", "cvtBuild", "cvtUndo"} => arg[t] \in Plan
    /\ pc[t] \in CountedLabel \cup {"relLock", "incLock"} => conv[t] \in Converter

\* Between the lock of g_mtxExecCount and its release the thread owns it.
HoldLabel == {"newTest", "planning", "delTest", "delInner", "delInnerWait",
              "delInnerWoken", "destroying"}
Holds == \A t \in Thread : pc[t] \in HoldLabel => g_mtx = t

\* Who is inside the planner saw the counter at zero, and it has stayed there.
PlannerAlone == \A t \in Thread : pc[t] \in PlannerLabel => g_nExecCount = 0

IInv == Typing /\ Refs /\ Holds /\ ExecCountExact /\ PlannerAlone

-----------------------------------------------------------------------------
\* The counted threads are finitely many, and the set changes by one thread.
LEMMA CountedFacts ==
  ASSUME Typing
  PROVE  /\ Counted \subseteq Thread
         /\ IsFiniteSet(Counted)
         /\ Cardinality(Counted) \in Nat
<1>1. Counted \subseteq Thread
  BY DEF Counted
<1>2. IsFiniteSet(Counted)
  BY <1>1, DftAssumption, FS_Subset
<1> QED
  BY <1>1, <1>2, FS_CardinalityType

\* The inductive invariant at the start.
LEMMA InitInv == Init => IInv
<1> SUFFICES ASSUME Init PROVE IInv
  OBVIOUS
<1>1. Typing /\ Refs /\ Holds /\ PlannerAlone
  BY DftAssumption DEF Init, Typing, Refs, Holds, HoldLabel, PlannerAlone
<1>2. Counted = {}
  BY DEF Init, Counted
<1>3. ExecCountExact
  BY <1>2, FS_EmptySet DEF Init, ExecCountExact
<1> QED
  BY <1>1, <1>3 DEF IInv

USE DEF Start, Goto

\* The actions that leave g_nExecCount and the set of counted threads alone.
QuietStep(t) ==
  \/ Call(t) \/ SpuriousWakeup(t)
  \/ NewPlanLock(t) \/ NewPlanWait(t) \/ NewPlanEnter(t)
  \/ \E p \in Plan, n \in Len : NewPlanDone(t, p, n)
  \/ DelPlanLock(t) \/ DelPlanWait(t) \/ DelPlanWoken(t)
  \/ DelInnerWait(t) \/ DelInnerWoken(t) \/ DelInnerDone(t)
  \/ DelPlanEnter(t) \/ DelPlanDestroy(t) \/ DelPlanFree(t)
  \/ NewConvCount(t) \/ NewConvReject(t) \/ NewConvUndo(t)
  \/ \E k \in Kind : NewConvDone(t, k)
  \/ DelConv(t) \/ CalculateCheck(t) \/ CalculateExecute(t)

\* A step that leaves the counted threads alone leaves their number.
LEMMA QuietCounted ==
  ASSUME Typing, NEW t \in Thread, QuietStep(t)
  PROVE  Counted' = Counted /\ g_nExecCount' = g_nExecCount
<1>1. g_nExecCount' = g_nExecCount
  BY DEF QuietStep, Call, SpuriousWakeup, NewPlanCall, NewPlanLock, NewPlanWait,
         NewPlanEnter, NewPlanDone, DelPlanCall, DelPlanLock, DelPlanWait,
         DelPlanWoken, DelInnerWait, DelInnerWoken, DelInnerDone, DelPlanEnter,
         DelPlanDestroy, DelPlanFree, NewConvCall, NewConvCount, NewConvReject,
         NewConvUndo, NewConvDone, DelConvCall, DelConv, CalculateCall,
         CalculateCheck, CalculateExecute
<1>2. \A u \in Thread : (pc'[u] \in CountedLabel) <=> (pc[u] \in CountedLabel)
  <2>1. CASE Call(t) \/ SpuriousWakeup(t)
    BY <2>1 DEF Typing, Call, SpuriousWakeup, NewPlanCall, DelPlanCall, NewConvCall,
                DelConvCall, CalculateCall
  <2>2. CASE NewPlanLock(t) \/ NewPlanWait(t) \/ NewPlanEnter(t)
    BY <2>2 DEF Typing, NewPlanLock, NewPlanWait, NewPlanEnter
  <2>3. CASE \E p \in Plan, n \in Len : NewPlanDone(t, p, n)
    BY <2>3 DEF Typing, NewPlanDone
  <2>4. CASE DelPlanLock(t) \/ DelPlanWait(t) \/ DelPlanWoken(t)
    BY <2>4 DEF Typing, DelPlanLock, DelPlanWait, DelPlanWoken
  <2>5. CASE DelInnerWait(t) \/ DelInnerWoken(t) \/ DelInnerDone(t)
    BY <2>5 DEF Typing, DelInnerWait, DelInnerWoken, DelInnerDone
  <2>6. CASE DelPlanEnter(t) \/ DelPlanDestroy(t) \/ DelPlanFree(t)
    BY <2>6 DEF Typing, DelPlanEnter, DelPlanDestroy, DelPlanFree
  <2>7. CASE NewConvCount(t) \/ NewConvReject(t) \/ NewConvUndo(t)
    BY <2>7 DEF Typing, NewConvCount, NewConvReject, NewConvUndo
  <2>8. CASE \E k \in Kind : NewConvDone(t, k)
    BY <2>8 DEF Typing, NewConvDone
  <2>9. CASE DelConv(t)
    BY <2>9 DEF Typing, DelConv, WakeCountWaiters
  <2>10. CASE CalculateCheck(t) \/ CalculateExecute(t)
    BY <2>10 DEF Typing, CalculateCheck, CalculateExecute
  <2> QED
    BY <2>1, <2>2, <2>3, <2>4, <2>5, <2>6, <2>7, <2>8, <2>9, <2>10 DEF QuietStep
<1> QED
  BY <1>1, <1>2 DEF Counted

\* One thread enters the counted section, or one thread leaves it.
LEMMA CountedUp ==
  ASSUME Typing, NEW t \in Thread, CalculateCount(t)
  PROVE  /\ Counted' = Counted \cup {t} /\ t \notin Counted
         /\ Cardinality(Counted') = Cardinality(Counted) + 1
<1>1. Counted' = Counted \cup {t} /\ t \notin Counted
  BY DEF Typing, Counted, CalculateCount
<1> QED
  BY <1>1, CountedFacts, FS_AddElement

\* One thread less.
LEMMA CountedDown ==
  ASSUME Typing, NEW t \in Thread, CalculateMismatch(t) \/ CalculateDone(t)
  PROVE  /\ Counted' = Counted \ {t} /\ t \in Counted
         /\ Cardinality(Counted') = Cardinality(Counted) - 1
<1>1. Counted' = Counted \ {t} /\ t \in Counted
  <2>1. CASE CalculateMismatch(t)
    BY <2>1 DEF Typing, Counted, CalculateMismatch
  <2>2. CASE CalculateDone(t)
    BY <2>2 DEF Typing, Counted, CalculateDone, WakeExecWaiters
  <2> QED
    BY <2>1, <2>2
<1> QED
  BY <1>1, CountedFacts, FS_RemoveElement
-----------------------------------------------------------------------------
USE DEF planVars

\* The groups of actions, for the step lemma.
NewPlanStep(t) ==
  \/ NewPlanLock(t) \/ NewPlanWait(t) \/ NewPlanEnter(t)
  \/ \E p \in Plan, n \in Len : NewPlanDone(t, p, n)
DelPlanStep(t) ==
  \/ DelPlanLock(t) \/ DelPlanWait(t) \/ DelPlanWoken(t)
  \/ DelInnerWait(t) \/ DelInnerWoken(t) \/ DelInnerDone(t)
  \/ DelPlanEnter(t) \/ DelPlanDestroy(t) \/ DelPlanFree(t)
ConvStep(t) ==
  \/ NewConvCount(t) \/ NewConvReject(t) \/ NewConvUndo(t)
  \/ \E k \in Kind : NewConvDone(t, k)
  \/ DelConv(t)
CalculateStep(t) ==
  \/ CalculateCount(t) \/ CalculateCheck(t) \/ CalculateMismatch(t)
  \/ CalculateExecute(t) \/ CalculateDone(t)

\* What a step may be.
LEMMA StepCases ==
  ASSUME NEW t \in Thread, Step(t) \/ Call(t) \/ SpuriousWakeup(t)
  PROVE  \/ NewPlanStep(t) \/ DelPlanStep(t) \/ ConvStep(t) \/ CalculateStep(t)
         \/ Call(t) \/ SpuriousWakeup(t)
BY DEF Step, NewPlanStep, DelPlanStep, ConvStep, CalculateStep

\* Every step keeps the types, the references and the mutex.
LEMMA ShapeStep ==
  ASSUME Typing, Refs, Holds, NEW t \in Thread, Step(t) \/ Call(t) \/ SpuriousWakeup(t)
  PROVE  Typing' /\ Refs' /\ Holds'
<1> USE DftAssumption DEF Typing, Refs, Holds, HoldLabel
<1>1. CASE NewPlanStep(t)
  <2>1. CASE NewPlanLock(t)
    BY <2>1 DEF NewPlanLock
  <2>2. CASE NewPlanWait(t)
    BY <2>2 DEF NewPlanWait
  <2>3. CASE NewPlanEnter(t)
    BY <2>3 DEF NewPlanEnter
  <2>4. CASE \E p \in Plan, n \in Len : NewPlanDone(t, p, n)
    BY <2>4 DEF NewPlanDone
  <2> QED
    BY <1>1, <2>1, <2>2, <2>3, <2>4 DEF NewPlanStep
<1>2. CASE DelPlanStep(t)
  <2>1. CASE DelPlanLock(t)
    BY <2>1 DEF DelPlanLock
  <2>2. CASE DelPlanWait(t)
    BY <2>2 DEF DelPlanWait
  <2>3. CASE DelPlanWoken(t)
    BY <2>3 DEF DelPlanWoken
  <2>4. CASE DelInnerWait(t)
    BY <2>4 DEF DelInnerWait
  <2>5. CASE DelInnerWoken(t)
    BY <2>5 DEF DelInnerWoken
  <2>6. CASE DelInnerDone(t)
    BY <2>6 DEF DelInnerDone
  <2>7. CASE DelPlanEnter(t)
    BY <2>7 DEF DelPlanEnter
  <2>8. CASE DelPlanDestroy(t)
    BY <2>8 DEF DelPlanDestroy
  <2>9. CASE DelPlanFree(t)
    BY <2>9 DEF DelPlanFree
  <2> QED
    BY <1>2, <2>1, <2>2, <2>3, <2>4, <2>5, <2>6, <2>7, <2>8, <2>9 DEF DelPlanStep
<1>3. CASE ConvStep(t)
  <2>1. CASE NewConvCount(t)
    BY <2>1 DEF NewConvCount
  <2>2. CASE NewConvReject(t)
    BY <2>2 DEF NewConvReject
  <2>3. CASE NewConvUndo(t)
    BY <2>3 DEF NewConvUndo
  <2>4. CASE \E k \in Kind : NewConvDone(t, k)
    BY <2>4 DEF NewConvDone, Converter
  <2>5. CASE DelConv(t)
    BY <2>5 DEF DelConv, WakeCountWaiters, Converter
  <2> QED
    BY <1>3, <2>1, <2>2, <2>3, <2>4, <2>5 DEF ConvStep
<1>4. CASE CalculateStep(t)
  <2>1. CASE CalculateCount(t)
    BY <2>1 DEF CalculateCount
  <2>2. CASE CalculateCheck(t)
    BY <2>2 DEF CalculateCheck
  <2>3. CASE CalculateMismatch(t)
    BY <2>3 DEF CalculateMismatch
  <2>4. CASE CalculateExecute(t)
    BY <2>4 DEF CalculateExecute
  <2>5. CASE CalculateDone(t)
    BY <2>5 DEF CalculateDone, WakeExecWaiters
  <2> QED
    BY <1>4, <2>1, <2>2, <2>3, <2>4, <2>5 DEF CalculateStep
<1>5. CASE Call(t)
  <2>1. CASE NewPlanCall(t)
    BY <2>1 DEF NewPlanCall
  <2>2. CASE \E p \in Plan : DelPlanCall(t, p)
    BY <2>2 DEF DelPlanCall
  <2>3. CASE \E p \in Plan : NewConvCall(t, p)
    BY <2>3 DEF NewConvCall
  <2>4. CASE DelConvCall(t)
    BY <2>4 DEF DelConvCall
  <2>5. CASE CalculateCall(t)
    BY <2>5 DEF CalculateCall
  <2> QED
    BY <1>5, <2>1, <2>2, <2>3, <2>4, <2>5 DEF Call
<1>6. CASE SpuriousWakeup(t)
  BY <1>6 DEF SpuriousWakeup
<1> QED
  BY <1>1, <1>2, <1>3, <1>4, <1>5, <1>6, StepCases

\* The inductive invariant is kept by every step.
LEMMA StepInv ==
  ASSUME IInv, NEW t \in Thread, Step(t) \/ Call(t) \/ SpuriousWakeup(t)
  PROVE  IInv'
<1> USE DEF IInv
<1>1. Typing' /\ Refs' /\ Holds'
  BY ShapeStep
<1>2. QuietStep(t) \/ CalculateCount(t) \/ CalculateMismatch(t) \/ CalculateDone(t)
  BY DEF QuietStep, Step
<1>3. ExecCountExact'
  <2>1. CASE QuietStep(t)
    BY <2>1, QuietCounted DEF ExecCountExact
  <2>2. CASE CalculateCount(t)
    BY <2>2, CountedUp, CountedFacts DEF ExecCountExact, CalculateCount
  <2>3. CASE CalculateMismatch(t) \/ CalculateDone(t)
    BY <2>3, CountedDown, CountedFacts DEF ExecCountExact, CalculateMismatch, CalculateDone
  <2> QED
    BY <1>2, <2>1, <2>2, <2>3
<1>4. PlannerAlone'
  \* Only the test of the counter leads into the planner.
  <2>1. CASE QuietStep(t)
    <3>1. \A u \in Thread : pc'[u] \in PlannerLabel /\ pc[u] \notin PlannerLabel
                              => ~(g_nExecCount > 0)
      <4>1. CASE NewPlanStep(t) \/ DelPlanStep(t)
        BY <4>1 DEF Typing, NewPlanStep, DelPlanStep, NewPlanLock, NewPlanWait,
             NewPlanEnter, NewPlanDone, DelPlanLock, DelPlanWait, DelPlanWoken,
             DelInnerWait, DelInnerWoken, DelInnerDone, DelPlanEnter,
             DelPlanDestroy, DelPlanFree
      <4>2. CASE ConvStep(t)
        BY <4>2 DEF Typing, ConvStep, NewConvCount, NewConvReject, NewConvUndo,
             NewConvDone, DelConv, WakeCountWaiters
      <4>3. CASE CalculateStep(t) /\ QuietStep(t)
        <5>1. CASE CalculateCheck(t) \/ CalculateExecute(t)
          BY <5>1 DEF Typing, CalculateCheck, CalculateExecute
        <5>2. CASE CalculateCount(t) \/ CalculateMismatch(t)
          BY <5>2 DEF Typing, CalculateCount, CalculateMismatch
        <5>3. CASE CalculateDone(t)
          BY <5>3 DEF Typing, CalculateDone, WakeExecWaiters
        <5> QED
          BY <4>3, <5>1, <5>2, <5>3 DEF CalculateStep
      <4>4. CASE Call(t) \/ SpuriousWakeup(t)
        BY <4>4 DEF Typing, Call, SpuriousWakeup, NewPlanCall, DelPlanCall, NewConvCall,
             DelConvCall, CalculateCall
      <4> QED
        BY <2>1, <4>1, <4>2, <4>3, <4>4, StepCases
    <3>2. g_nExecCount' = g_nExecCount
      BY <2>1, QuietCounted
    <3>3. g_nExecCount \in Nat
      BY CountedFacts DEF ExecCountExact
    <3> QED
      BY <3>1, <3>2, <3>3 DEF PlannerAlone
  \* The planner holds the mutex the counter is raised under.
  <2>2. CASE CalculateCount(t)
    BY <2>2, DftAssumption DEF PlannerAlone, CalculateCount, Typing, Holds, HoldLabel
  \* A counter that can be lowered is not zero.
  <2>3. CASE CalculateMismatch(t) \/ CalculateDone(t)
    <3>1. g_mtx = NoThread
      BY <2>3 DEF CalculateMismatch, CalculateDone
    <3>2. \A u \in Thread : pc[u] \notin PlannerLabel
      BY <3>1, DftAssumption DEF Holds, HoldLabel
    <3>3. \A u \in Thread : pc'[u] \notin PlannerLabel
      BY <2>3, <3>2 DEF Typing, CalculateMismatch, CalculateDone, WakeExecWaiters
    <3> QED
      BY <3>3 DEF PlannerAlone
  <2> QED
    BY <1>2, <2>1, <2>2, <2>3
<1> QED
  BY <1>1, <1>3, <1>4

\* So it always holds.
THEOREM Invariance == Spec => []IInv
<1>1. Init => IInv
  BY InitInv
<1>2. IInv /\ [Next]_vars => IInv'
  <2>1. ASSUME IInv, Next PROVE IInv'
    BY <2>1, StepInv DEF Next
  <2>2. ASSUME IInv, UNCHANGED vars PROVE IInv'
    BY <2>2 DEF vars, IInv, Typing, Refs, Holds, HoldLabel, ExecCountExact, PlannerAlone, Counted
  <2> QED
    BY <2>1, <2>2
<1> QED
  BY <1>1, <1>2, PTL DEF Spec

(* Every variable keeps its type; the execution counter is never negative.   *)
THEOREM TypeCorrect == Spec => []TypeOK
<1>1. IInv => TypeOK
  BY CountedFacts DEF IInv, Typing, TypeOK, ExecCountExact
<1> QED
  BY <1>1, Invariance, PTL

(* g_nExecCount is the number of threads inside a calculation, always.       *)
THEOREM CounterExact == Spec => []ExecCountExact
<1>1. IInv => ExecCountExact
  BY DEF IInv
<1> QED
  BY <1>1, Invariance, PTL

\* A counter at zero means that nobody is counted.
LEMMA ZeroMeansNobody ==
  ASSUME IInv, g_nExecCount = 0
  PROVE  Counted = {}
BY CountedFacts, FS_EmptySet DEF IInv, ExecCountExact

(* No plan is created or destroyed beside a transform or another planner.    *)
THEOREM PlannerSafe == Spec => []PlannerExclusion
<1>1. IInv => PlannerExclusion
  <2> SUFFICES ASSUME IInv, NEW t \in Thread, NEW u \in Thread, pc[t] \in PlannerLabel
               PROVE  /\ pc[u] \notin CountedLabel
                      /\ u # t => pc[u] \notin PlannerLabel
    BY DEF PlannerExclusion
  <2>1. Counted = {}
    BY ZeroMeansNobody DEF IInv, PlannerAlone
  <2>2. u # t => pc[u] \notin PlannerLabel
    BY DEF IInv, Holds, HoldLabel
  <2> QED
    BY <2>1, <2>2 DEF Counted
<1> QED
  BY <1>1, Invariance, PTL
-----------------------------------------------------------------------------
\* The mutex makes the planner's thread unique.
LEMMA PlannerIs ==
  ASSUME Holds, NEW t \in Thread, pc[t] \in PlannerLabel
  PROVE  PlannerThread = t
BY DEF Holds, HoldLabel, PlannerThread

\* What stands for no planner call.
LEMMA NoPlannerIs ==
  (\A t \in Thread : pc[t] \notin PlannerLabel) => PlannerThread = NoThread
BY DEF PlannerThread

\* Steps that neither enter nor leave the planner.
LEMMA PlannerSame ==
  ASSUME Holds, Holds',
         \A u \in Thread : pc'[u] \in PlannerLabel <=> pc[u] \in PlannerLabel
  PROVE  PlannerThread' = PlannerThread
BY DEF PlannerThread, Holds, HoldLabel

\* Every step of the code is a step of the gate, or leaves it as it is.
LEMMA GateStep ==
  ASSUME IInv, IInv', NEW t \in Thread, Step(t) \/ Call(t) \/ SpuriousWakeup(t)
  PROVE  Gate!Next \/ UNCHANGED <<Counted, PlannerThread>>
<1> USE DEF IInv
<1>1. CASE NewPlanEnter(t) \/ DelPlanEnter(t)
  <2>1. QuietStep(t)
    BY <1>1 DEF QuietStep
  <2>2. Counted' = Counted
    BY <2>1, QuietCounted
  <2>3. pc'[t] \in PlannerLabel /\ pc[t] \in {"newTest", "delTest"} /\ g_nExecCount = 0
    BY <1>1, CountedFacts DEF NewPlanEnter, DelPlanEnter, Typing, ExecCountExact
  <2>4. PlannerThread' = t
    <3>1. \A u \in Thread : pc'[u] \in PlannerLabel => u = t
      BY <2>3 DEF Holds, HoldLabel
    <3> QED
      BY <2>3, <3>1 DEF PlannerThread
  <2>5. PlannerThread = NoThread
    BY <2>3, NoPlannerIs DEF Holds, HoldLabel
  <2>6. Counted = {}
    BY <2>3, ZeroMeansNobody
  <2> QED
    BY <2>2, <2>4, <2>5, <2>6 DEF Gate!Next, Gate!EnterPlanner
<1>2. CASE (\E p \in Plan, n \in Len : NewPlanDone(t, p, n)) \/ DelPlanDestroy(t)
  <2>1. QuietStep(t)
    BY <1>2 DEF QuietStep
  <2>2. Counted' = Counted
    BY <2>1, QuietCounted
  <2>3. pc[t] \in PlannerLabel /\ g_mtx' = NoThread
    BY <1>2 DEF NewPlanDone, DelPlanDestroy
  <2>4. PlannerThread = t
    BY <2>3, PlannerIs
  <2>5. PlannerThread' = NoThread
    BY <2>3, DftAssumption DEF PlannerThread, Holds, HoldLabel
  <2> QED
    BY <2>2, <2>4, <2>5 DEF Gate!Next, Gate!LeavePlanner
<1>3. CASE CalculateCount(t)
  <2>1. g_mtx = NoThread /\ g_mtx' = NoThread
    BY <1>3 DEF CalculateCount
  <2>2. PlannerThread = NoThread /\ PlannerThread' = NoThread
    BY <2>1, DftAssumption DEF PlannerThread, Holds, HoldLabel
  <2> QED
    BY <1>3, <2>2, CountedUp DEF Gate!Next, Gate!StartTransform
<1>4. CASE CalculateMismatch(t) \/ CalculateDone(t)
  <2>1. g_mtx = NoThread /\ g_mtx' = NoThread
    BY <1>4 DEF CalculateMismatch, CalculateDone
  <2>2. PlannerThread = NoThread /\ PlannerThread' = NoThread
    BY <2>1, DftAssumption DEF PlannerThread, Holds, HoldLabel
  <2> QED
    BY <1>4, <2>2, CountedDown DEF Gate!Next, Gate!EndTransform
<1>5. CASE \/ Call(t) \/ SpuriousWakeup(t) \/ ConvStep(t)
           \/ NewPlanLock(t) \/ NewPlanWait(t)
           \/ DelPlanLock(t) \/ DelPlanWait(t) \/ DelPlanWoken(t)
           \/ DelInnerWait(t) \/ DelInnerWoken(t) \/ DelInnerDone(t) \/ DelPlanFree(t)
           \/ CalculateCheck(t) \/ CalculateExecute(t)
  <2>1. QuietStep(t)
    BY <1>5 DEF QuietStep, ConvStep
  <2>2. \A u \in Thread : pc'[u] \in PlannerLabel <=> pc[u] \in PlannerLabel
    <3>1. CASE Call(t) \/ SpuriousWakeup(t)
      BY <3>1 DEF Typing, Call, SpuriousWakeup, NewPlanCall, DelPlanCall, NewConvCall,
           DelConvCall, CalculateCall
    <3>2. CASE ConvStep(t)
      BY <3>2 DEF Typing, ConvStep, NewConvCount, NewConvReject, NewConvUndo,
           NewConvDone, DelConv, WakeCountWaiters
    <3>3. CASE NewPlanLock(t) \/ NewPlanWait(t) \/ DelPlanLock(t) \/ DelPlanWait(t)
               \/ DelPlanWoken(t)
      BY <3>3 DEF Typing, NewPlanLock, NewPlanWait, DelPlanLock, DelPlanWait, DelPlanWoken
    <3>4. CASE DelInnerWait(t) \/ DelInnerWoken(t) \/ DelInnerDone(t) \/ DelPlanFree(t)
      BY <3>4 DEF Typing, DelInnerWait, DelInnerWoken, DelInnerDone, DelPlanFree
    <3>5. CASE CalculateCheck(t) \/ CalculateExecute(t)
      BY <3>5 DEF Typing, CalculateCheck, CalculateExecute
    <3> QED
      BY <1>5, <3>1, <3>2, <3>3, <3>4, <3>5
  <2> QED
    BY <2>1, <2>2, QuietCounted, PlannerSame
<1> QED
  BY <1>1, <1>2, <1>3, <1>4, <1>5, StepCases
     DEF NewPlanStep, DelPlanStep, CalculateStep

(* The mutex, the counter and the condition variable of dft.c implement the  *)
(* readers-writer gate: transforms are the readers, planner calls the writer.*)
THEOREM GateImplemented == Spec => ImplementsGate
<1>1. Init => Gate!Init
  BY DEF Init, Gate!Init, Counted, PlannerThread
<1>2. IInv /\ IInv' /\ [Next]_vars => [Gate!Next]_(Gate!gateVars)
  <2>1. ASSUME IInv, IInv', Next PROVE [Gate!Next]_(Gate!gateVars)
    BY <2>1, GateStep DEF Next, Gate!gateVars
  <2>2. ASSUME UNCHANGED vars PROVE UNCHANGED Gate!gateVars
    BY <2>2 DEF vars, Gate!gateVars, Counted, PlannerThread
  <2> QED
    BY <2>1, <2>2
<1> QED
  BY <1>1, <1>2, Invariance, PTL DEF Spec, ImplementsGate, Gate!Spec
-----------------------------------------------------------------------------
(* The plan's own count, for programs that delete a plan when nobody uses it *)
(* any more (Polite).                                                        *)

\* The threads a plan should have counted.
Users(p) == {t \in Thread : \/ conv[t] # NoConv /\ conv[t].plan = p
                            \/ pc[t] \in {"cvtBuild", "cvtUndo"} /\ arg[t] = p}

\* A thread that builds a converter has none yet.
OneConv == \A t \in Thread : pc[t] \in {"cvtLock", "cvtBuild", "cvtUndo"} => conv[t] = NoConv
\* Nobody uses a plan that is gone, or going.
Unused == \A p \in Plan : planState[p] # "live" => \A u \in Thread : ~Uses(u, p)
Deserted == \A t \in Thread : pc[t] \in DeleteLabel => \A u \in Thread : ~Uses(u, arg[t])
\* A converter was made for the length its plan still has.
SameLength == \A t \in Thread : conv[t] # NoConv => uLen[conv[t].plan] = conv[t].uLen

UInv == OneConv /\ Unused /\ Deserted /\ SameLength

\* Plans in use are left alone, by every step of a polite program.
LEMMA UseKept ==
  ASSUME Polite, IInv, UInv, NEW t \in Thread, Step(t) \/ Call(t) \/ SpuriousWakeup(t)
  PROVE  UInv'
<1> USE DftAssumption DEF IInv, Typing, Refs, UInv, OneConv, Unused, Deserted, SameLength, Uses, Converter
<1>1. CASE NewPlanStep(t)
  <2>1. CASE NewPlanLock(t)
    BY <2>1 DEF NewPlanLock
  <2>2. CASE NewPlanWait(t)
    BY <2>2 DEF NewPlanWait
  <2>3. CASE NewPlanEnter(t)
    BY <2>3 DEF NewPlanEnter
  <2>4. CASE \E p \in Plan, n \in Len : NewPlanDone(t, p, n)
    BY <2>4 DEF NewPlanDone
  <2> QED
    BY <1>1, <2>1, <2>2, <2>3, <2>4 DEF NewPlanStep
<1>2. CASE DelPlanStep(t)
  <2>1. CASE DelPlanLock(t)
    BY <2>1 DEF DelPlanLock
  <2>2. CASE DelPlanWait(t)
    BY <2>2 DEF DelPlanWait
  <2>3. CASE DelPlanWoken(t)
    BY <2>3 DEF DelPlanWoken
  <2>4. CASE DelInnerWait(t)
    BY <2>4 DEF DelInnerWait
  <2>5. CASE DelInnerWoken(t)
    BY <2>5 DEF DelInnerWoken
  <2>6. CASE DelInnerDone(t)
    BY <2>6 DEF DelInnerDone
  <2>7. CASE DelPlanEnter(t)
    BY <2>7 DEF DelPlanEnter
  <2>8. CASE DelPlanDestroy(t)
    BY <2>8 DEF DelPlanDestroy
  <2>9. CASE DelPlanFree(t)
    BY <2>9 DEF DelPlanFree
  <2> QED
    BY <1>2, <2>1, <2>2, <2>3, <2>4, <2>5, <2>6, <2>7, <2>8, <2>9 DEF DelPlanStep
<1>3. CASE ConvStep(t)
  <2>1. CASE NewConvCount(t)
    BY <2>1 DEF NewConvCount
  <2>2. CASE NewConvReject(t)
    BY <2>2 DEF NewConvReject
  <2>3. CASE NewConvUndo(t)
    BY <2>3 DEF NewConvUndo
  <2>4. CASE \E k \in Kind : NewConvDone(t, k)
    BY <2>4 DEF NewConvDone
  <2>5. CASE DelConv(t)
    BY <2>5 DEF DelConv, WakeCountWaiters
  <2> QED
    BY <1>3, <2>1, <2>2, <2>3, <2>4, <2>5 DEF ConvStep
<1>4. CASE CalculateStep(t)
  <2>1. CASE CalculateCount(t)
    BY <2>1 DEF CalculateCount
  <2>2. CASE CalculateCheck(t)
    BY <2>2 DEF CalculateCheck
  <2>3. CASE CalculateMismatch(t)
    BY <2>3 DEF CalculateMismatch
  <2>4. CASE CalculateExecute(t)
    BY <2>4 DEF CalculateExecute
  <2>5. CASE CalculateDone(t)
    BY <2>5 DEF CalculateDone, WakeExecWaiters
  <2> QED
    BY <1>4, <2>1, <2>2, <2>3, <2>4, <2>5 DEF CalculateStep
<1>5. CASE Call(t)
  <2>1. CASE NewPlanCall(t)
    BY <2>1 DEF NewPlanCall
  <2>2. CASE \E p \in Plan : DelPlanCall(t, p)
    BY <2>2 DEF DelPlanCall
  <2>3. CASE \E p \in Plan : NewConvCall(t, p)
    BY <2>3 DEF NewConvCall, Usable
  <2>4. CASE DelConvCall(t)
    BY <2>4 DEF DelConvCall
  <2>5. CASE CalculateCall(t)
    BY <2>5 DEF CalculateCall
  <2> QED
    BY <1>5, <2>1, <2>2, <2>3, <2>4, <2>5 DEF Call
<1>6. CASE SpuriousWakeup(t)
  BY <1>6 DEF SpuriousWakeup
<1> QED
  BY <1>1, <1>2, <1>3, <1>4, <1>5, <1>6, StepCases

\* The users are finitely many, and one of them comes or goes at a time.
LEMMA UsersFacts ==
  ASSUME NEW p
  PROVE  IsFiniteSet(Users(p)) /\ Cardinality(Users(p)) \in Nat
<1>1. IsFiniteSet(Users(p))
  BY DftAssumption, FS_Subset DEF Users
<1> QED
  BY <1>1, FS_CardinalityType

\* The count of one plan follows the set of its users.
CountFollows(p) ==
  planState'[p] = "live" =>
    \/ planState[p] = "live" /\ Users(p)' = Users(p) /\ nCount'[p] = nCount[p]
    \/ /\ planState[p] = "live"
       /\ \E t \in Thread : /\ t \notin Users(p) /\ Users(p)' = Users(p) \cup {t}
                            /\ nCount'[p] = nCount[p] + 1
    \/ /\ planState[p] = "live"
       /\ \E t \in Thread : /\ t \in Users(p) /\ Users(p)' = Users(p) \ {t}
                            /\ nCount'[p] = nCount[p] - 1
    \/ Users(p)' = {} /\ nCount'[p] = 0

\* Then the count of each plan stays exact.
LEMMA CountKept ==
  ASSUME UserCountExact, nCount \in [Plan -> Int], \A p \in Plan : CountFollows(p)
  PROVE  UserCountExact'
<1> SUFFICES ASSUME NEW p \in Plan, planState'[p] = "live"
             PROVE  nCount'[p] = Cardinality(Users(p)')
  BY DEF UserCountExact, Users
<1>1. planState[p] = "live" => nCount[p] = Cardinality(Users(p))
  BY DEF UserCountExact, Users
<1>2. CASE Users(p)' = {} /\ nCount'[p] = 0
  BY <1>2, FS_EmptySet
<1>3. CASE planState[p] = "live" /\ Users(p)' = Users(p) /\ nCount'[p] = nCount[p]
  BY <1>1, <1>3
<1>4. ASSUME planState[p] = "live", NEW t \in Thread, t \notin Users(p),
             Users(p)' = Users(p) \cup {t}, nCount'[p] = nCount[p] + 1
      PROVE  nCount'[p] = Cardinality(Users(p)')
  BY <1>1, <1>4, UsersFacts, FS_AddElement
<1>5. ASSUME planState[p] = "live", NEW t \in Thread, t \in Users(p),
             Users(p)' = Users(p) \ {t}, nCount'[p] = nCount[p] - 1
      PROVE  nCount'[p] = Cardinality(Users(p)')
  BY <1>1, <1>5, UsersFacts, FS_RemoveElement
<1> QED
  BY <1>2, <1>3, <1>4, <1>5 DEF CountFollows

\* Each step moves the count and the users of a plan together.
LEMMA UserCountStep ==
  ASSUME IInv, UInv, UserCountExact, NEW t \in Thread, Step(t) \/ Call(t) \/ SpuriousWakeup(t)
  PROVE  UserCountExact'
<1> SUFFICES ASSUME NEW p \in Plan PROVE CountFollows(p)
  BY CountKept DEF IInv, Typing
<1> USE DftAssumption DEF IInv, Typing, Refs, CountFollows, Users
<1>1. CASE NewPlanStep(t)
  <2>1. CASE NewPlanLock(t) \/ NewPlanWait(t) \/ NewPlanEnter(t)
    BY <2>1 DEF NewPlanLock, NewPlanWait, NewPlanEnter
  <2>2. CASE \E q \in Plan, n \in Len : NewPlanDone(t, q, n)
    <3>1. PICK q \in Plan, n \in Len : NewPlanDone(t, q, n)
      BY <2>2
    <3>2. CASE p = q
      BY <3>1, <3>2 DEF NewPlanDone, UInv, Unused, Uses
    <3>3. CASE p # q
      BY <3>1, <3>3 DEF NewPlanDone
    <3> QED
      BY <3>2, <3>3
  <2> QED
    BY <1>1, <2>1, <2>2 DEF NewPlanStep
<1>2. CASE DelPlanStep(t)
  <2>1. CASE DelPlanLock(t) \/ DelPlanWait(t) \/ DelPlanWoken(t) \/ DelPlanEnter(t)
    BY <2>1 DEF DelPlanLock, DelPlanWait, DelPlanWoken, DelPlanEnter
  <2>2. CASE DelInnerWait(t) \/ DelInnerWoken(t) \/ DelInnerDone(t)
    BY <2>2 DEF DelInnerWait, DelInnerWoken, DelInnerDone
  <2>3. CASE DelPlanDestroy(t) \/ DelPlanFree(t)
    BY <2>3 DEF DelPlanDestroy, DelPlanFree
  <2> QED
    BY <1>2, <2>1, <2>2, <2>3 DEF DelPlanStep
<1>3. CASE ConvStep(t)
  <2>1. CASE NewConvCount(t)
    <3>1. CASE p = arg[t]
      BY <2>1, <3>1 DEF NewConvCount, UInv, OneConv, Unused, Uses
    <3>2. CASE p # arg[t]
      BY <2>1, <3>2 DEF NewConvCount
    <3> QED
      BY <3>1, <3>2
  <2>2. CASE NewConvReject(t)
    BY <2>2 DEF NewConvReject
  <2>3. CASE NewConvUndo(t)
    <3>1. CASE p = arg[t]
      BY <2>3, <3>1 DEF NewConvUndo, UInv, OneConv, Unused, Uses
    <3>2. CASE p # arg[t]
      BY <2>3, <3>2 DEF NewConvUndo
    <3> QED
      BY <3>1, <3>2
  <2>4. CASE \E k \in Kind : NewConvDone(t, k)
    BY <2>4 DEF NewConvDone, UInv, OneConv, Converter
  <2>5. CASE DelConv(t)
    <3>1. CASE p = conv[t].plan
      BY <2>5, <3>1 DEF DelConv, WakeCountWaiters, Converter
    <3>2. CASE p # conv[t].plan
      BY <2>5, <3>2 DEF DelConv, WakeCountWaiters, Converter
    <3> QED
      BY <3>1, <3>2
  <2> QED
    BY <1>3, <2>1, <2>2, <2>3, <2>4, <2>5 DEF ConvStep
<1>4. CASE CalculateStep(t)
  <2>1. CASE CalculateCount(t) \/ CalculateCheck(t)
    BY <2>1 DEF CalculateCount, CalculateCheck
  <2>2. CASE CalculateMismatch(t) \/ CalculateExecute(t)
    BY <2>2 DEF CalculateMismatch, CalculateExecute
  <2>3. CASE CalculateDone(t)
    BY <2>3 DEF CalculateDone, WakeExecWaiters
  <2> QED
    BY <1>4, <2>1, <2>2, <2>3 DEF CalculateStep
<1>5. CASE Call(t)
  BY <1>5 DEF Call, NewPlanCall, DelPlanCall, NewConvCall, DelConvCall, CalculateCall
<1>6. CASE SpuriousWakeup(t)
  BY <1>6 DEF SpuriousWakeup
<1> QED
  BY <1>1, <1>2, <1>3, <1>4, <1>5, <1>6, StepCases

(* The inductive invariant of polite programs.                               *)
THEOREM PoliteInvariance == ASSUME Polite PROVE Spec => [](UInv /\ UserCountExact)
<1>1. Init => UInv /\ UserCountExact
  <2> SUFFICES ASSUME Init PROVE UInv /\ UserCountExact
    OBVIOUS
  <2>1. UInv
    BY DftAssumption DEF Init, UInv, OneConv, Unused, Deserted, SameLength, Uses
  <2>2. UserCountExact
    BY DEF Init, UserCountExact
  <2> QED
    BY <2>1, <2>2
<1>2. IInv /\ UInv /\ UserCountExact /\ [Next]_vars => (UInv /\ UserCountExact)'
  <2>1. ASSUME IInv, UInv, UserCountExact, Next PROVE (UInv /\ UserCountExact)'
    BY <2>1, UseKept, UserCountStep DEF Next
  <2>2. ASSUME UInv, UserCountExact, UNCHANGED vars PROVE (UInv /\ UserCountExact)'
    BY <2>2 DEF vars, UInv, OneConv, Unused, Deserted, SameLength, Uses, UserCountExact
  <2> QED
    BY <2>1, <2>2
<1> QED
  BY <1>1, <1>2, Invariance, PTL DEF Spec

(* No refused constructor and no interleaving of constructors and destructors *)
(* loses or leaks a reference, when plans are deleted only after their last   *)
(* user is gone.                                                              *)
THEOREM UsersExact == ASSUME Polite PROVE Spec => []UserCountExact
BY PoliteInvariance, PTL

\* A converter whose plan keeps its length never takes the return that tells nobody.
NoMismatch == \A t \in Thread : pc[t] # "badDec"

\* Then the one decrease that matters wakes every sleeper.
LEMMA WakeupStep ==
  ASSUME Kind \subseteq {"dft"}, IInv, UInv, NoMismatch, NoLostWakeup,
         NEW t \in Thread, Step(t) \/ Call(t) \/ SpuriousWakeup(t)
  PROVE  NoMismatch' /\ NoLostWakeup'
<1> USE DEF IInv, Typing, Refs, NoMismatch, NoLostWakeup
<1>1. CASE CalculateDone(t)
  <2>1. conv[t].kind = "dft"
    BY <1>1 DEF CalculateDone, Converter
  <2> QED
    BY <1>1, <2>1 DEF CalculateDone, WakeExecWaiters
<1>2. CASE CalculateCheck(t)
  <2>1. uLen[conv[t].plan] = conv[t].uLen
    BY <1>2, DftAssumption DEF CalculateCheck, UInv, SameLength
  <2> QED
    BY <1>2, <2>1 DEF CalculateCheck
<1>3. CASE CalculateCount(t) \/ CalculateMismatch(t) \/ CalculateExecute(t)
  <2>1. g_nExecCount \in Nat
    BY CountedFacts DEF ExecCountExact
  <2> QED
    BY <1>3, <2>1 DEF CalculateCount, CalculateMismatch, CalculateExecute
<1>4. CASE NewPlanStep(t)
  BY <1>4 DEF NewPlanStep, NewPlanLock, NewPlanWait, NewPlanEnter, NewPlanDone
<1>5. CASE DelPlanStep(t)
  BY <1>5 DEF DelPlanStep, DelPlanLock, DelPlanWait, DelPlanWoken, DelInnerWait, DelInnerWoken,
              DelInnerDone, DelPlanEnter, DelPlanDestroy, DelPlanFree
<1>6. CASE ConvStep(t)
  BY <1>6 DEF ConvStep, NewConvCount, NewConvReject, NewConvUndo, NewConvDone, DelConv,
              WakeCountWaiters
<1>7. CASE Call(t) \/ SpuriousWakeup(t)
  BY <1>7 DEF Call, SpuriousWakeup, NewPlanCall, DelPlanCall, NewConvCall, DelConvCall,
              CalculateCall
<1> QED
  BY <1>1, <1>2, <1>3, <1>4, <1>5, <1>6, <1>7, StepCases DEF CalculateStep

(* Whoever sleeps on g_cndExecCountDec will be woken by a transform in       *)
(* progress, as long as nobody uses Psd objects, whose end wakes no one, and *)
(* no plan changes under its converters.                                     *)
THEOREM WakeupsNotLost ==
  ASSUME Polite, Kind \subseteq {"dft"} PROVE Spec => []NoLostWakeup
<1>1. Init => NoMismatch /\ NoLostWakeup
  BY DEF Init, NoMismatch, NoLostWakeup
<1>2. IInv /\ UInv /\ NoMismatch /\ NoLostWakeup /\ [Next]_vars => (NoMismatch /\ NoLostWakeup)'
  <2>1. ASSUME IInv, UInv, NoMismatch, NoLostWakeup, Next PROVE (NoMismatch /\ NoLostWakeup)'
    BY <2>1, WakeupStep DEF Next
  <2>2. ASSUME NoMismatch, NoLostWakeup, UNCHANGED vars PROVE (NoMismatch /\ NoLostWakeup)'
    BY <2>2 DEF vars, NoMismatch, NoLostWakeup
  <2> QED
    BY <2>1, <2>2
<1> QED
  BY <1>1, <1>2, Invariance, PoliteInvariance, PTL DEF Spec
=============================================================================
