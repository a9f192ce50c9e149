---------------------------- MODULE TasksProofs ----------------------------
(***************************************************************************)
(* Proofs about Tasks, for every number of tasks, every depth of the stack *)
(* and every width of the tick counter.                                    *)
(***************************************************************************)
EXTENDS Tasks, SequenceTheorems, FiniteSetTheorems, TLAPS

(* Control points that only run with the interrupt flag clear.             *)
CliPC == {"irq", "handler", "clone", "enqueue", "read_eip"}

(* A record never resumes code at one of those points: the interrupted     *)
(* code had the flag set.                                                  *)
RecordsOK ==
    \A d \in 1 .. MaxDepth :
        /\ stack[d].ret \notin CliPC
        /\ stack[d].kind = "fork" => stack[d].ret = "run"

(* The flag is clear where the code cleared it.                            *)
FlagOK ==
    /\ pc \in CliPC => ~iflag
    /\ phase \in {"cli", "current"} => ~iflag /\ pc = "run"

(* The list and the running task through set-up and afterwards.            *)
ListOK ==
    /\ phase \in {"boot", "timer", "cli"} =>
          current = NULL /\ queue = <<>> /\ next_pid = 1
    /\ phase = "current" => current = 1 /\ queue = <<>> /\ next_pid = 2
    /\ phase = "up" => current \in Queued
    /\ Queued \subseteq 1 .. next_pid - 1

(* Inside Fork with the flag clear, the record on top is Fork's own, names *)
(* the running task as the parent, and its child is the one task on the    *)
(* list that has no context yet.                                           *)
InFork == pc \in {"clone", "enqueue", "read_eip"} \/ (pc = "forked" /\ ~iflag)
ForkOK ==
    InFork =>
      /\ phase = "up"
      /\ OnTop("fork") /\ Top.parent = current
      /\ pc # "clone" => Top.task \in 1 .. next_pid - 1
      /\ pc \in {"read_eip", "forked"} =>
            \A t \in Queued \ {current} : eip[t] = "none" => t = Top.task

(* Switch only picks tasks that Resumable speaks about; the rest is what   *)
(* makes Resumable inductive.                                              *)
IInv == TypeOK /\ RecordsOK /\ FlagOK /\ ListOK /\ ForkOK /\ Resumable

-----------------------------------------------------------------------------
LEMMA TopType == TypeOK /\ sp > 0 => Top \in Frame
<1> SUFFICES ASSUME TypeOK, sp > 0 PROVE Top \in Frame
  OBVIOUS
<1>1. sp \in 1 .. MaxDepth
  BY ConstantsAssumption DEF TypeOK
<1>2. stack \in [1 .. MaxDepth -> Frame]
  BY DEF TypeOK
<1> QED
  BY <1>1, <1>2 DEF Top

LEMMA TopRecord ==
    TypeOK /\ RecordsOK /\ sp > 0 =>
        Top.ret \notin CliPC /\ (Top.kind = "fork" => Top.ret = "run")
BY ConstantsAssumption DEF TypeOK, RecordsOK, Top

LEMMA FrameTypes ==
    /\ NoFrame \in Frame
    /\ \A at \in Code : TickFrame(at) \in Frame
    /\ \A t \in Task \cup {NULL} : ForkFrame(t) \in Frame
BY DEF NoFrame, TickFrame, ForkFrame, Frame, Code, NULL

LEMMA QueuedType == queue \in Seq(Task) => Queued \subseteq Task
BY DEF Queued

LEMMA NextOfQueued ==
    ASSUME queue \in Seq(Task), NEW t \in Queued
    PROVE  NextOf(t) \in Queued
<1> DEFINE i == CHOOSE i \in DOMAIN queue : queue[i] = t
<1>1. i \in DOMAIN queue
  BY DEF Queued
<1>2. NextOf(t) = IF i = Len(queue) THEN queue[1] ELSE queue[i + 1]
  BY DEF NextOf
<1> HIDE DEF i
<1> QED
  BY <1>1, <1>2 DEF Queued

LEMMA PushRecords ==
    ASSUME TypeOK, RecordsOK, NEW f \in Frame, Push(f),
           f.ret \notin CliPC, f.kind = "fork" => f.ret = "run"
    PROVE  /\ sp' \in 1 .. MaxDepth
           /\ stack' \in [1 .. MaxDepth -> Frame]
           /\ RecordsOK'
           /\ stack'[sp'] = f
<1> USE ConstantsAssumption DEF Push
<1>1. sp' \in 1 .. MaxDepth
  BY DEF TypeOK
<1>2. stack' \in [1 .. MaxDepth -> Frame]
  BY DEF TypeOK
<1>3. stack'[sp'] = f
  BY <1>1 DEF TypeOK
<1>4. RecordsOK'
  <2> SUFFICES ASSUME NEW d \in 1 .. MaxDepth
               PROVE  stack'[d] = stack[d] \/ stack'[d] = f
    BY DEF RecordsOK
  <2> QED
    BY DEF TypeOK
<1> QED
  BY <1>1, <1>2, <1>3, <1>4

-----------------------------------------------------------------------------
LEMMA InitIInv == Init => IInv
<1> SUFFICES ASSUME Init PROVE IInv
  OBVIOUS
<1> USE ConstantsAssumption DEF Init
<1>1. TypeOK
  <2>1. stack \in [1 .. MaxDepth -> Frame]
    BY FrameTypes
  <2>2. 1 \in Task /\ queue \in Seq(Task) /\ returned \in Seq((Task \cup {NULL}) \X (Task \cup {NULL}))
    BY DEF Task
  <2>3. /\ phase \in Phase /\ pc \in PC /\ sp \in 0 .. MaxDepth
        /\ tick \in 0 .. TickMod - 1 /\ tails \in 0 .. TickMod - 1
        /\ next_pid \in 1 .. MaxTasks + 1 /\ handed \in 0 .. 2
    BY DEF Phase, PC, Code
  <2>4. eip \in [Task -> Eip] /\ esp \in [Task -> 0 .. MaxDepth]
    BY DEF Eip
  <2> QED
    BY <2>1, <2>2, <2>3, <2>4 DEF TypeOK, NULL
<1>2. RecordsOK
  BY DEF RecordsOK, NoFrame, CliPC
<1>3. FlagOK /\ ListOK /\ ForkOK /\ Resumable
  BY DEF FlagOK, ListOK, ForkOK, Resumable, InFork, CliPC, Queued, NULL
<1> QED
  BY <1>1, <1>2, <1>3 DEF IInv

-----------------------------------------------------------------------------
(* What Resumable says where Fork is not half done.                        *)
LEMMA AllSaved ==
    ASSUME Resumable, iflag \/ pc \notin {"read_eip", "forked"}
    PROVE  \A t \in Queued \ {current} : eip[t] # "none"
BY DEF Resumable

(* Steps that touch neither the CPU nor the scheduler.                     *)
LEMMA DeviceStep ==
    ASSUME IInv, UNCHANGED <<phase, cpu, tasks, running, returned, tick, tails>>,
           irr' \in BOOLEAN, inService' \in BOOLEAN, handler' \in BOOLEAN
    PROVE  IInv'
<1> USE DEF IInv, cpu, tasks, running
<1>1. TypeOK'
  BY DEF TypeOK
<1>2. RecordsOK' /\ FlagOK' /\ ListOK'
  BY DEF RecordsOK, FlagOK, ListOK, Queued
<1>3. ForkOK' /\ Resumable'
  BY DEF ForkOK, Resumable, InFork, OnTop, Top, Queued
<1> QED
  BY <1>1, <1>2, <1>3

LEMMA PitStep == IInv /\ Pit => IInv'
<1> SUFFICES ASSUME IInv, Pit PROVE IInv'
  OBVIOUS
<1>1. irr' \in BOOLEAN /\ inService' \in BOOLEAN /\ handler' \in BOOLEAN
  BY DEF IInv, TypeOK, Pit, timer
<1>2. UNCHANGED <<phase, cpu, tasks, running, returned, tick, tails>>
  BY DEF Pit, timer
<1> QED
  BY <1>1, <1>2, DeviceStep

LEMMA TimerShutdownStep == IInv /\ TimerShutdown => IInv'
<1> SUFFICES ASSUME IInv, TimerShutdown PROVE IInv'
  OBVIOUS
<1>1. irr' \in BOOLEAN /\ inService' \in BOOLEAN /\ handler' \in BOOLEAN
  BY DEF IInv, TypeOK, TimerShutdown, pic
<1>2. UNCHANGED <<phase, cpu, tasks, running, returned, tick, tails>>
  BY DEF TimerShutdown
<1> QED
  BY <1>1, <1>2, DeviceStep

LEMMA StutterStep == IInv /\ UNCHANGED vars => IInv'
<1> SUFFICES ASSUME IInv, UNCHANGED vars PROVE IInv'
  OBVIOUS
<1>1. irr' \in BOOLEAN /\ inService' \in BOOLEAN /\ handler' \in BOOLEAN
  BY DEF IInv, TypeOK, vars, pic, timer
<1>2. UNCHANGED <<phase, cpu, tasks, running, returned, tick, tails>>
  BY DEF vars, timer
<1> QED
  BY <1>1, <1>2, DeviceStep

(* A step of the CPU that leaves the scheduler's tables alone and ends     *)
(* outside Fork's critical section and outside set-up's.                   *)
LEMMA PlainStep ==
    ASSUME IInv, UNCHANGED <<phase, tasks, running>>,
           TypeOK', RecordsOK', FlagOK', ~InFork',
           iflag \/ pc \notin {"read_eip", "forked"}
    PROVE  IInv'
<1> USE DEF IInv, tasks, running
<1>1. ListOK'
  BY DEF ListOK, Queued
<1>2. ForkOK'
  BY DEF ForkOK
<1>3. Resumable'
  BY AllSaved DEF Resumable, Queued
<1> QED
  BY <1>1, <1>2, <1>3

LEMMA InterruptStep == IInv /\ Interrupt => IInv'
<1> SUFFICES ASSUME IInv, Interrupt PROVE IInv'
  OBVIOUS
<1> USE DEF IInv, Interrupt
<1>1. /\ TickFrame(pc) \in Frame
      /\ TickFrame(pc).ret \notin CliPC
      /\ TickFrame(pc).kind # "fork"
  BY FrameTypes DEF FlagOK, TypeOK, TickFrame, PC
<1>2. /\ sp' \in 0 .. MaxDepth
      /\ stack' \in [1 .. MaxDepth -> Frame]
      /\ RecordsOK'
  BY <1>1, PushRecords, ConstantsAssumption DEF TypeOK
<1>3. TypeOK'
  BY <1>2 DEF TypeOK, PC, Code, IrqPC, timer, tasks, running
<1>4. FlagOK' /\ ~InFork'
  BY DEF FlagOK, InFork
<1> QED
  BY <1>2, <1>3, <1>4, PlainStep

LEMMA EoiStep == IInv /\ Eoi => IInv'
<1> SUFFICES ASSUME IInv, Eoi PROVE IInv'
  OBVIOUS
<1> USE DEF IInv, Eoi, Acknowledge
<1>1. TypeOK'
  BY DEF TypeOK, PC, Code, IrqPC, timer, tasks, running
<1>2. RecordsOK' /\ FlagOK' /\ ~InFork'
  BY DEF RecordsOK, FlagOK, InFork, CliPC
<1> QED
  BY <1>1, <1>2, PlainStep

LEMMA IretTyped ==
    ASSUME IInv, Iret
    PROVE  /\ pc' \in Code \ CliPC
           /\ sp' \in 0 .. MaxDepth
           /\ stack' = stack
           /\ iflag' = TRUE
<1>1. sp > 0
  BY DEF Iret, OnTop
<1>2. Top \in Frame /\ Top.ret \notin CliPC
  BY <1>1, TopType, TopRecord DEF IInv
<1>3. sp' \in 0 .. MaxDepth
  BY <1>1, ConstantsAssumption DEF Iret, Pop, IInv, TypeOK
<1> QED
  BY <1>2, <1>3 DEF Iret, Pop, Frame

LEMMA NoHandlerStep == IInv /\ NoHandler => IInv'
<1> SUFFICES ASSUME IInv, NoHandler PROVE IInv'
  OBVIOUS
<1> USE DEF IInv, NoHandler
<1>1. TypeOK'
  BY IretTyped DEF TypeOK, PC, pic, timer, tasks, running
<1>2. RecordsOK' /\ FlagOK' /\ ~InFork'
  BY IretTyped DEF RecordsOK, FlagOK, InFork, CliPC
<1> QED
  BY <1>1, <1>2, PlainStep

LEMMA OnTickEndStep == IInv /\ OnTickEnd => IInv'
<1> SUFFICES ASSUME IInv, OnTickEnd PROVE IInv'
  OBVIOUS
<1> USE DEF IInv, OnTickEnd
<1>1. tails' \in 0 .. TickMod - 1
  BY ConstantsAssumption DEF TypeOK
<1>2. TypeOK'
  BY <1>1, IretTyped DEF TypeOK, PC, pic, tasks, running
<1>3. RecordsOK' /\ FlagOK' /\ ~InFork'
  BY IretTyped DEF RecordsOK, FlagOK, InFork, CliPC
<1> QED
  BY <1>2, <1>3, PlainStep

(* Calls writes above the stack pointer only.                              *)
LEMMA CallsTyped ==
    ASSUME IInv, Calls
    PROVE  /\ stack' \in [1 .. MaxDepth -> Frame] /\ RecordsOK'
           /\ \A d \in 1 .. MaxDepth : d <= sp => stack'[d] = stack[d]
           /\ OnTop("fork")' = OnTop("fork") /\ (sp > 0 => Top' = Top)
<1>1. PICK reach \in sp + 1 .. MaxDepth :
          stack' = [d \in 1 .. MaxDepth |->
                       IF d \in sp + 1 .. reach THEN NoFrame ELSE stack[d]]
  BY DEF Calls
<1>2. sp \in 0 .. MaxDepth /\ MaxDepth \in Nat /\ sp' = sp /\ stack \in [1 .. MaxDepth -> Frame]
  BY ConstantsAssumption DEF Calls, IInv, TypeOK
<1>3. /\ stack' \in [1 .. MaxDepth -> Frame]
      /\ \A d \in 1 .. MaxDepth : stack'[d] \in {stack[d], NoFrame}
      /\ \A d \in 1 .. MaxDepth : d <= sp => stack'[d] = stack[d]
  BY <1>1, <1>2, FrameTypes
<1>4. RecordsOK'
  BY <1>3 DEF IInv, RecordsOK, NoFrame, CliPC
<1>5. OnTop("fork")' = OnTop("fork") /\ (sp > 0 => Top' = Top)
  BY <1>2, <1>3 DEF OnTop, Top
<1> QED
  BY <1>3, <1>4, <1>5

LEMMA CallsStep == IInv /\ Calls => IInv'
<1> SUFFICES ASSUME IInv, Calls PROVE IInv'
  OBVIOUS
<1>1. UNCHANGED <<phase, iflag, pc, sp, pic, timer, tasks, running, returned>>
  BY DEF Calls
<1>2. TypeOK'
  BY <1>1, CallsTyped DEF IInv, TypeOK, pic, timer, tasks, running
<1>3. FlagOK' /\ ListOK'
  BY <1>1 DEF IInv, FlagOK, ListOK, Queued, tasks, running
<1>4. ForkOK' /\ Resumable'
  BY <1>1, CallsTyped DEF IInv, ForkOK, Resumable, InFork, OnTop, Queued, tasks, running
<1> QED
  BY <1>2, <1>3, <1>4, CallsTyped DEF IInv

LEMMA GoAstrayStep == IInv /\ GoAstray => IInv'
<1> SUFFICES ASSUME IInv, GoAstray PROVE IInv'
  OBVIOUS
<1> USE DEF IInv, GoAstray
<1>1. iflag \/ pc \notin {"read_eip", "forked"}
  BY DEF ForkOK, InFork
<1>2. TypeOK'
  BY DEF TypeOK, PC, pic, timer, tasks, running
<1>3. RecordsOK' /\ FlagOK' /\ ~InFork'
  BY DEF RecordsOK, FlagOK, InFork, CliPC
<1> QED
  BY <1>1, <1>2, <1>3, PlainStep

LEMMA OnTickStep == IInv /\ OnTick => IInv'
<1> SUFFICES ASSUME IInv, OnTick PROVE IInv'
  OBVIOUS
<1> USE DEF IInv
<1>1. tick' \in 0 .. TickMod - 1
  BY ConstantsAssumption DEF TypeOK, OnTick
<1>2. CASE current = NULL
  <2>1. TypeOK'
    BY <1>1, <1>2 DEF OnTick, TypeOK, PC, Code, IrqPC, pic, tasks, running
  <2>2. RecordsOK' /\ FlagOK' /\ ~InFork' /\ UNCHANGED <<phase, tasks, running>>
    BY <1>2 DEF OnTick, RecordsOK, FlagOK, InFork, CliPC
  <2> QED
    BY <2>1, <2>2, PlainStep DEF OnTick
<1>3. CASE current # NULL
  <2> DEFINE next == NextOf(current)
  <2>1. phase = "up" /\ current \in Queued /\ current \in Task
    BY <1>3 DEF OnTick, FlagOK, ListOK, Phase, TypeOK
  <2>2. next \in Queued /\ next \in Task
    BY <2>1, NextOfQueued, QueuedType DEF TypeOK
  <2>3. Switch /\ UNCHANGED <<phase, pic, handler, tails, returned>>
    BY <1>3 DEF OnTick
  <2> HIDE DEF next
  <2>4. /\ eip' = [eip EXCEPT ![current] = "tail"]
        /\ esp' = [esp EXCEPT ![current] = sp]
        /\ current' = next /\ handed' \in {handed, handed + 1}
        /\ handed' \in 0 .. 2
        /\ pc' = eip'[next] /\ sp' = esp'[next]
        /\ iflag' = TRUE
        /\ UNCHANGED <<stack, queue, next_pid>>
    BY <2>3 DEF Switch, SavedEsp, next, TypeOK
  <2>5. \A t \in Queued : eip'[t] # "none"
    BY <2>1, <2>4, QueuedType, AllSaved DEF OnTick, TypeOK
  <2>6. eip' \in [Task -> Eip] /\ esp' \in [Task -> 0 .. MaxDepth]
    BY <2>4 DEF TypeOK, Eip
  <2>7. pc' \in {"tail", "forked", "entry"} /\ sp' \in 0 .. MaxDepth
    BY <2>2, <2>4, <2>5, <2>6 DEF Eip
  <2>8. TypeOK'
    BY <1>1, <2>2, <2>3, <2>4, <2>6, <2>7 DEF TypeOK, PC, Code, ForkPC, IrqPC, pic
  <2>9. RecordsOK' /\ FlagOK' /\ ~InFork'
    BY <2>1, <2>3, <2>4, <2>7 DEF RecordsOK, FlagOK, InFork, CliPC
  <2>10. ListOK'
    BY <2>1, <2>2, <2>3, <2>4 DEF ListOK, Queued
  <2>11. ForkOK' /\ Resumable'
    BY <2>4, <2>5, <2>9 DEF ForkOK, Resumable, Queued
  <2> QED
    BY <2>8, <2>9, <2>10, <2>11
<1> QED
  BY <1>2, <1>3

-----------------------------------------------------------------------------
LEMMA BootStep == IInv /\ Boot => IInv'
<1> SUFFICES ASSUME IInv, Boot PROVE IInv'
  OBVIOUS
<1> USE DEF IInv
<1>1. CASE TimerInitialize
  <2>1. TypeOK'
    BY <1>1 DEF TimerInitialize, TypeOK, Phase, cpu, pic, tasks, running
  <2>2. RecordsOK' /\ FlagOK' /\ ListOK'
    BY <1>1 DEF TimerInitialize, RecordsOK, FlagOK, ListOK, Queued, CliPC,
                cpu, tasks, running
  <2>3. ForkOK' /\ Resumable'
    BY <1>1 DEF TimerInitialize, ForkOK, InFork, Resumable, Queued, cpu, tasks, running
  <2> QED
    BY <2>1, <2>2, <2>3
<1>2. CASE InitializeCli
  <2>1. TypeOK'
    BY <1>2 DEF InitializeCli, TypeOK, Phase, pic, timer, tasks, running
  <2>2. RecordsOK' /\ FlagOK' /\ ListOK'
    BY <1>2 DEF InitializeCli, RecordsOK, FlagOK, ListOK, Queued, CliPC,
                tasks, running
  <2>3. ForkOK' /\ Resumable'
    BY <1>2 DEF InitializeCli, ForkOK, InFork, Resumable, Queued, tasks, running
  <2> QED
    BY <2>1, <2>2, <2>3
<1>3. CASE InitializeCurrent
  <2>1. current' = 1 /\ next_pid' = 2 /\ queue' = <<>> /\ phase' = "current"
    BY <1>3 DEF InitializeCurrent, ListOK
  <2>2. TypeOK'
    BY <1>3, <2>1, ConstantsAssumption
    DEF InitializeCurrent, TypeOK, Phase, Task, cpu, pic, timer
  <2>3. RecordsOK' /\ FlagOK' /\ ListOK'
    BY <1>3, <2>1 DEF InitializeCurrent, RecordsOK, FlagOK, ListOK, Queued, cpu
  <2>4. ForkOK' /\ Resumable'
    BY <1>3, <2>1 DEF InitializeCurrent, ForkOK, InFork, Resumable, Queued, cpu
  <2> QED
    BY <2>2, <2>3, <2>4
<1>4. CASE InitializeQueue
  <2>1. /\ current = 1 /\ current' = 1 /\ queue' = <<1>> /\ next_pid' = 2
        /\ phase' = "up" /\ pc' = "run"
    BY <1>4 DEF InitializeQueue, ListOK, running
  <2>2. Queued' = {1}
    BY <2>1 DEF Queued
  <2>3. TypeOK'
    BY <1>4, <2>1, ConstantsAssumption
    DEF InitializeQueue, TypeOK, Phase, Task, pic, timer, running
  <2>4. RecordsOK' /\ FlagOK' /\ ListOK'
    BY <1>4, <2>1, <2>2 DEF InitializeQueue, RecordsOK, FlagOK, ListOK, CliPC
  <2>5. ForkOK' /\ Resumable'
    BY <2>1, <2>2 DEF ForkOK, InFork, Resumable
  <2> QED
    BY <2>3, <2>4, <2>5
<1> QED
  BY <1>1, <1>2, <1>3, <1>4 DEF Boot

-----------------------------------------------------------------------------
LEMMA ForkCliStep == IInv /\ ForkCli => IInv'
<1> SUFFICES ASSUME IInv, ForkCli PROVE IInv'
  OBVIOUS
<1> USE DEF IInv, ForkCli, Mask
<1>1. /\ ForkFrame(current) \in Frame
      /\ ForkFrame(current).ret = "run" /\ "run" \notin CliPC
      /\ ForkFrame(current).kind = "fork"
      /\ ForkFrame(current).parent = current
  BY FrameTypes DEF TypeOK, ForkFrame, CliPC
<1>2. /\ sp' \in 1 .. MaxDepth
      /\ stack' \in [1 .. MaxDepth -> Frame]
      /\ RecordsOK'
      /\ stack'[sp'] = ForkFrame(current)
  BY <1>1, PushRecords
<1>3. TypeOK'
  <2>1. sp' \in 0 .. MaxDepth
    BY <1>2
  <2>2. pc' \in PC /\ iflag' = FALSE
    BY DEF PC, Code, ForkPC
  <2> QED
    BY <1>2, <2>1, <2>2 DEF TypeOK, pic, timer, tasks, running
<1>4. FlagOK' /\ ListOK'
  BY DEF FlagOK, ListOK, Queued, tasks, running
<1>5. ForkOK'
  BY <1>1, <1>2 DEF ForkOK, OnTop, Top, running
<1>6. Resumable'
  BY AllSaved DEF Resumable, Queued, tasks, running
<1> QED
  BY <1>2, <1>3, <1>4, <1>5, <1>6

LEMMA ForkCloneStep == IInv /\ ForkClone => IInv'
<1> SUFFICES ASSUME IInv, ForkClone PROVE IInv'
  OBVIOUS
<1> USE DEF IInv
<1> DEFINE mine == [Top EXCEPT !.task = next_pid]
<1>1. /\ phase = "up" /\ OnTop("fork") /\ Top.parent = current
      /\ Queued \subseteq 1 .. next_pid - 1 /\ current \in Queued
      /\ next_pid \in Task /\ next_pid # current
  BY ConstantsAssumption, QueuedType, SMTT(30)
  DEF ForkClone, KeepLocal, NewPid, ForkOK, InFork, ListOK, TypeOK, Task
<1>2. sp \in 1 .. MaxDepth
  BY <1>1, ConstantsAssumption DEF OnTop, TypeOK
<1>3. Top \in Frame
  BY <1>2, TopType
<1>4. /\ mine \in Frame
      /\ mine.ret = Top.ret /\ mine.kind = Top.kind
      /\ mine.parent = Top.parent /\ mine.task = next_pid
  BY <1>1, <1>3 DEF Frame
<1>5. stack' = [stack EXCEPT ![sp] = mine]
  BY <1>2 DEF ForkClone, KeepLocal, NewPid, TypeOK, Top
<1> HIDE DEF mine
<1>9. /\ stack' \in [1 .. MaxDepth -> Frame]
      /\ stack'[sp] = mine
      /\ \A d \in 1 .. MaxDepth : stack'[d] = stack[d] \/ stack'[d] = mine
  BY <1>2, <1>4, <1>5 DEF TypeOK
<1>10. RecordsOK' /\ Top' = mine
  <2>1. ASSUME NEW d \in 1 .. MaxDepth
        PROVE  /\ stack'[d].ret \notin CliPC
               /\ stack'[d].kind = "fork" => stack'[d].ret = "run"
    BY <1>2, <1>4, <1>9, TopRecord DEF RecordsOK
  <2>2. Top' = mine
    BY <1>9 DEF ForkClone, Top
  <2> QED
    BY <2>1, <2>2 DEF RecordsOK
<1>11. TypeOK'
  <2>1. next_pid' \in 1 .. MaxTasks + 1 /\ pc' \in PC
    BY ConstantsAssumption, SMTT(30) DEF ForkClone, KeepLocal, NewPid, TypeOK, PC, Code, ForkPC
  <2>2. eip' \in [Task -> Eip] /\ esp' \in [Task -> 0 .. MaxDepth]
    <3>1. "none" \in Eip /\ 0 \in 0 .. MaxDepth
      BY ConstantsAssumption DEF Eip
    <3> QED
      BY <3>1 DEF ForkClone, KeepLocal, NewPid, TypeOK
  <2> QED
    BY <1>9, <2>1, <2>2 DEF ForkClone, KeepLocal, NewPid, TypeOK, pic, timer, running
<1>12. FlagOK' /\ ListOK'
  <2>1. phase' = "up" /\ current' = current /\ Queued' = Queued
    BY <1>1 DEF ForkClone, KeepLocal, NewPid, Queued, running
  <2>2. Queued \subseteq 1 .. next_pid' - 1
    BY <1>1 DEF ForkClone, KeepLocal, NewPid, TypeOK
  <2>3. FlagOK'
    BY <2>1 DEF ForkClone, KeepLocal, NewPid, FlagOK, CliPC
  <2> QED
    BY <1>1, <2>1, <2>2, <2>3 DEF ListOK
<1>13. ForkOK'
  <2>1. Top'.kind = "fork" /\ Top'.parent = current /\ Top'.task = next_pid
    BY <1>1, <1>4, <1>10 DEF OnTop
  <2>2. next_pid \in 1 .. next_pid' - 1
    BY DEF ForkClone, KeepLocal, NewPid, TypeOK
  <2> QED
    BY <1>1, <2>1, <2>2 DEF ForkClone, KeepLocal, NewPid, ForkOK, OnTop, running
<1>14. Resumable'
  <2>1. \A t \in Queued : t \in Task /\ t # next_pid
    BY <1>1, QueuedType DEF TypeOK
  <2> QED
    BY <2>1, AllSaved DEF ForkClone, KeepLocal, NewPid, Resumable, Queued, TypeOK, running
<1> QED
  BY <1>10, <1>11, <1>12, <1>13, <1>14

LEMMA ForkEnqueueStep == IInv /\ ForkEnqueue => IInv'
<1> SUFFICES ASSUME IInv, ForkEnqueue PROVE IInv'
  OBVIOUS
<1> USE DEF IInv, ForkEnqueue, Linked
<1>1. /\ phase = "up" /\ Top.parent = current /\ Top.task \in 1 .. next_pid - 1
      /\ ~iflag /\ current \in Queued
  BY DEF ForkOK, InFork, FlagOK, ListOK, CliPC
<1>2. Top.task \in Task
  BY <1>1, ConstantsAssumption DEF TypeOK, Task
<1>3. queue' \in Seq(Task) /\ Queued' = Queued \cup {Top.task}
  <2>1. queue \in Seq(Task) /\ queue' = Append(queue, Top.task)
    BY DEF TypeOK
  <2>2. /\ queue' \in Seq(Task) /\ Len(queue) \in Nat
        /\ DOMAIN queue' = 1 .. Len(queue) + 1 /\ DOMAIN queue = 1 .. Len(queue)
        /\ \A i \in 1 .. Len(queue) : queue'[i] = queue[i]
        /\ queue'[Len(queue) + 1] = Top.task
    BY <1>2, <2>1
  <2> QED
    BY <2>2 DEF Queued
<1>4. TypeOK'
  BY <1>3 DEF TypeOK, PC, Code, ForkPC, pic, timer, running
<1>5. RecordsOK' /\ FlagOK' /\ ListOK'
  BY <1>1, <1>3 DEF RecordsOK, FlagOK, ListOK, running
<1>6. Top' = Top /\ OnTop("fork")'
  BY DEF Top, OnTop, running
<1>7. ForkOK'
  BY <1>1, <1>3, <1>6, AllSaved DEF ForkOK, running
<1>8. Resumable'
  BY <1>1 DEF Resumable
<1> QED
  BY <1>4, <1>5, <1>7, <1>8

LEMMA ForkReadEipStep == IInv /\ ForkReadEip => IInv'
<1> SUFFICES ASSUME IInv, ForkReadEip PROVE IInv'
  OBVIOUS
<1> USE DEF IInv, ForkReadEip
<1>1. ~iflag /\ InFork
  BY DEF FlagOK, CliPC, InFork
<1>2. TypeOK'
  BY DEF TypeOK, PC, Code, ForkPC, pic, timer, tasks, running
<1>3. RecordsOK' /\ FlagOK' /\ ListOK'
  BY <1>1 DEF RecordsOK, FlagOK, ListOK, CliPC, ForkOK, Queued, tasks, running
<1>4. ForkOK'
  BY <1>1 DEF ForkOK, OnTop, Top, Queued, tasks, running
<1>5. Resumable'
  BY <1>1 DEF Resumable
<1> QED
  BY <1>2, <1>3, <1>4, <1>5

LEMMA ForkParentStep == IInv /\ ForkParent => IInv'
<1> SUFFICES ASSUME IInv, ForkParent PROVE IInv'
  OBVIOUS
<1> USE DEF IInv
<1> DEFINE child == Top.task
<1>1. Top \in Frame /\ sp \in 0 .. MaxDepth
  BY TopType DEF ForkParent, OnTop, TypeOK
<1>2. /\ esp' = [esp EXCEPT ![child] = sp]
      /\ eip' = [eip EXCEPT ![child] = "forked"]
      /\ iflag' = TRUE /\ pc' = "leave"
      /\ UNCHANGED <<phase, sp, stack, queue, next_pid, running>>
  BY DEF ForkParent, Unmask, ChildEsp
<1>3. \A t \in Queued \ {current} : eip'[t] # "none"
  <2>1. CASE iflag
    BY <1>2, <2>1, AllSaved, QueuedType DEF TypeOK
  <2>2. CASE ~iflag
    BY <1>2, <2>2, QueuedType DEF ForkParent, ForkOK, InFork, TypeOK
  <2> QED
    BY <2>1, <2>2
<1>4. eip' \in [Task -> Eip] /\ esp' \in [Task -> 0 .. MaxDepth]
  BY <1>1, <1>2 DEF TypeOK, Eip
<1>5. TypeOK'
  BY <1>2, <1>4 DEF ForkParent, TypeOK, PC, Code, ForkPC, pic, timer, running
<1>6. phase \notin {"cli", "current"}
  BY DEF ForkParent, FlagOK
<1>7. RecordsOK' /\ FlagOK' /\ ListOK'
  BY <1>2, <1>6 DEF RecordsOK, FlagOK, ListOK, CliPC, Queued, running
<1>8. ForkOK' /\ Resumable'
  BY <1>2, <1>3 DEF ForkOK, InFork, Resumable, Queued, running
<1> QED
  BY <1>5, <1>7, <1>8

LEMMA ForkReturnStep ==
    IInv /\ (ForkParentReturn \/ ForkChildReturn) => IInv'
<1> SUFFICES ASSUME IInv, ForkParentReturn \/ ForkChildReturn PROVE IInv'
  OBVIOUS
<1> USE DEF IInv
<1>1. PICK value \in Task \cup {NULL} : ForkReturn(value)
  <2>1. CASE ForkParentReturn
    BY <2>1, TopType DEF ForkParentReturn, OnTop, Frame
  <2>2. CASE ForkChildReturn
    BY <2>2 DEF ForkChildReturn, NULL
  <2> QED
    BY <2>1, <2>2
<1>2. OnTop("fork") /\ pc \in {"leave", "forked"} /\ (pc = "forked" => iflag)
  BY DEF ForkParentReturn, ForkChildReturn, ForkOK, InFork
<1>3. pc' = "run"
  BY <1>1, <1>2, TopRecord DEF ForkReturn, OnTop
<1>4. sp' \in 0 .. MaxDepth /\ stack' = stack
  BY <1>1, <1>2, ConstantsAssumption DEF ForkReturn, Pop, OnTop, TypeOK
<1>5. returned' \in Seq((Task \cup {NULL}) \X (Task \cup {NULL}))
  BY <1>1 DEF ForkReturn, TypeOK
<1>6. TypeOK'
  BY <1>1, <1>3, <1>4, <1>5 DEF ForkReturn, TypeOK, PC, Code, pic, timer, tasks, running
<1>7. phase \notin {"cli", "current"}
  BY <1>2 DEF FlagOK
<1>8. RecordsOK' /\ FlagOK' /\ ~InFork' /\ UNCHANGED <<phase, tasks, running>>
  BY <1>1, <1>3, <1>4, <1>7 DEF ForkReturn, RecordsOK, FlagOK, InFork, CliPC
<1> QED
  BY <1>2, <1>6, <1>8, PlainStep

LEMMA ExecVEStep == IInv /\ ExecVE => IInv'
<1> SUFFICES ASSUME IInv, ExecVE PROVE IInv'
  OBVIOUS
<1> USE DEF IInv, ExecVE
<1>1. eip' \in [Task -> Eip] /\ esp' \in [Task -> 0 .. MaxDepth]
  <2>1. "entry" \in Eip /\ 0 \in 0 .. MaxDepth
    BY ConstantsAssumption DEF Eip
  <2> QED
    BY <2>1 DEF TypeOK
<1>2. TypeOK'
  BY <1>1 DEF TypeOK, cpu, pic, timer, running
<1>3. RecordsOK' /\ FlagOK' /\ ListOK' /\ ~InFork'
  BY DEF RecordsOK, FlagOK, ListOK, InFork, Queued, cpu, running
<1>4. ForkOK'
  BY <1>3 DEF ForkOK
<1>5. Resumable'
  BY AllSaved, QueuedType DEF Resumable, TypeOK, Queued, running
<1> QED
  BY <1>2, <1>3, <1>4, <1>5

-----------------------------------------------------------------------------
LEMMA NextIInv == IInv /\ [Next]_vars => IInv'
BY PitStep, InterruptStep, EoiStep, NoHandlerStep, OnTickStep, OnTickEndStep,
   BootStep, ForkCliStep, ForkCloneStep, ForkEnqueueStep, ForkReadEipStep,
   ForkParentStep, ForkReturnStep, TimerShutdownStep, ExecVEStep, CallsStep, GoAstrayStep, StutterStep
DEF Next, Irq, Fork, Stray

LEMMA Inductive == Spec => []IInv
BY InitIInv, NextIInv, PTL DEF Spec

(* Every variable keeps its type, whatever the interleaving of tasks and   *)
(* interrupts.                                                             *)
THEOREM TypeCorrect == Spec => []TypeOK
<1>1. IInv => TypeOK
  BY DEF IInv
<1> QED
  BY <1>1, Inductive, PTL

(* No interrupt can make Switch jump to a task that Fork has not finished: *)
(* the cli in Fork and Initialize, the flag the interrupt gate clears and  *)
(* the order in which Fork links and completes the Task are enough.        *)
THEOREM AlwaysResumable == Spec => []Resumable
<1>1. IInv => Resumable
  BY DEF IInv
<1> QED
  BY <1>1, Inductive, PTL

-----------------------------------------------------------------------------
(* The request in service is acknowledged before any code runs with the    *)
(* flag set: only the first instructions of irq_handler see it.            *)
AckInv == inService => pc = "irq" /\ ~iflag

LEMMA AckInductive == Spec => []AckInv
<1>1. Init => AckInv
  BY DEF Init, AckInv
<1>2. IInv /\ AckInv /\ [Next]_vars => AckInv'
  <2> SUFFICES ASSUME IInv, AckInv, [Next]_vars PROVE AckInv'
    OBVIOUS
  <2>1. CASE Pit
    BY <2>1 DEF Pit, AckInv, cpu
  <2>2. CASE Interrupt
    BY <2>2 DEF Interrupt, AckInv
  <2>3. CASE Eoi
    BY <2>3 DEF Eoi, Acknowledge, AckInv
  <2>4. CASE NoHandler \/ OnTickEnd
    BY <2>4 DEF NoHandler, OnTickEnd, AckInv, pic
  <2>5. CASE OnTick
    BY <2>5 DEF OnTick, AckInv, pic
  <2>6. CASE Boot
    BY <2>6 DEF Boot, TimerInitialize, InitializeCli, InitializeCurrent,
                InitializeQueue, AckInv, pic, cpu
  <2>7. CASE Fork
    BY <2>7 DEF Fork, ForkCli, ForkClone, ForkEnqueue, ForkReadEip, ForkParent,
                ForkParentReturn, ForkChildReturn, ForkReturn, AckInv, pic
  <2>8. CASE TimerShutdown \/ ExecVE \/ UNCHANGED vars
    BY <2>8 DEF TimerShutdown, ExecVE, AckInv, vars, pic, cpu
  <2>9. CASE Calls \/ GoAstray
    BY <2>9 DEF Calls, GoAstray, AckInv, pic
  <2> QED
    BY <2>1, <2>2, <2>3, <2>4, <2>5, <2>6, <2>7, <2>8, <2>9 DEF Next, Irq, Stray
<1> QED
  BY <1>1, <1>2, Inductive, PTL DEF Spec

(* The PIC is never left waiting for an EOI once code can be interrupted,  *)
(* so no switch can leave the machine without its timer.                   *)
THEOREM AlwaysAcknowledged == Spec => []Acknowledged
<1>1. AckInv => Acknowledged
  BY DEF AckInv, Acknowledged
<1> QED
  BY <1>1, AckInductive, PTL

-----------------------------------------------------------------------------
(***************************************************************************)
(* Tasks implements RoundRobin, for every number of tasks and every depth  *)
(* of the stack.  What has to be shown first                               *)
(* is the order of the list: pids are given out and linked in the same     *)
(* order, so no task is ever on the list twice.                            *)
(***************************************************************************)

(* Fork has constructed the child and the parent is still at work on it.   *)
Made == InFork /\ pc # "clone"

(* The list holds the pids in the order of their creation, without the one *)
(* Fork is about to link, which has no context.                            *)
OrderInv ==
    /\ \A i \in DOMAIN queue : queue[i] = i
    /\ phase = "up" => Len(queue) = next_pid - (IF pc = "enqueue" THEN 2 ELSE 1)
    /\ Made => Top.task = next_pid - 1 /\ current # next_pid - 1
    /\ pc = "enqueue" => eip[next_pid - 1] = "none"

(* The last task of the list waits for its context.                        *)
HalfMade == Made /\ pc # "enqueue" /\ eip[next_pid - 1] = "none"

-----------------------------------------------------------------------------
LEMMA OrderInit == Init => OrderInv
BY DEF Init, OrderInv, Made, InFork

(* A step that neither creates nor links a task and ends outside Fork's    *)
(* critical section.                                                       *)
LEMMA OrderKept ==
    ASSUME OrderInv, UNCHANGED <<phase, queue, next_pid>>, ~Made',
           pc # "enqueue"
    PROVE  OrderInv'
BY DEF OrderInv, Made, InFork

LEMMA OrderStutter ==
    ASSUME OrderInv, UNCHANGED <<phase, cpu, tasks, running>>
    PROVE  OrderInv'
BY DEF OrderInv, Made, InFork, Top, cpu, tasks, running

LEMMA OrderIrq == IInv /\ OrderInv /\ Irq => OrderInv'
<1> SUFFICES ASSUME IInv, OrderInv, Irq PROVE OrderInv'
  OBVIOUS
<1>1. CASE Interrupt
  <2>1. pc # "enqueue" /\ UNCHANGED <<phase, queue, next_pid>> /\ pc' = "irq"
    BY <1>1 DEF Interrupt, IInv, FlagOK, CliPC, tasks
  <2> QED
    BY <2>1, OrderKept DEF Made, InFork
<1>2. CASE Eoi
  BY <1>2, OrderKept DEF Eoi, Made, InFork, tasks
<1>3. CASE NoHandler \/ OnTickEnd
  <2>1. Iret /\ pc # "enqueue" /\ UNCHANGED <<phase, queue, next_pid>>
    BY <1>3 DEF NoHandler, OnTickEnd, tasks
  <2>2. iflag' = TRUE /\ pc' \notin CliPC
    BY <2>1, IretTyped
  <2> QED
    BY <2>1, <2>2, OrderKept DEF Made, InFork, CliPC
<1>4. CASE OnTick
  <2>1. pc # "enqueue" /\ UNCHANGED <<phase, queue, next_pid>>
    BY <1>4 DEF OnTick, Switch, tasks
  <2>2. ~InFork'
    <3>1. IInv'
      BY <1>4, OnTickStep
    <3>2. CASE current = NULL
      BY <1>4, <3>2 DEF OnTick, InFork
    <3>3. CASE current # NULL
      <4>1. iflag' = TRUE
        BY <1>4, <3>3 DEF OnTick, Switch
      <4> QED
        BY <3>1, <4>1 DEF IInv, FlagOK, InFork, CliPC
    <3> QED
      BY <3>2, <3>3
  <2> QED
    BY <2>1, <2>2, OrderKept DEF Made
<1> QED
  BY <1>1, <1>2, <1>3, <1>4 DEF Irq

LEMMA OrderBoot == IInv /\ OrderInv /\ Boot => OrderInv'
<1> SUFFICES ASSUME IInv, OrderInv, Boot PROVE OrderInv'
  OBVIOUS
<1>1. CASE TimerInitialize
  BY <1>1 DEF TimerInitialize, OrderInv, Made, InFork, cpu, tasks
<1>2. CASE InitializeCli
  BY <1>2 DEF InitializeCli, OrderInv, Made, InFork, tasks
<1>3. CASE InitializeCurrent
  BY <1>3 DEF InitializeCurrent, OrderInv, Made, InFork, cpu
<1>4. CASE InitializeQueue
  <2>1. queue' = <<1>> /\ next_pid' = 2 /\ pc' = "run"
    BY <1>4 DEF InitializeQueue, IInv, ListOK
  <2> QED
    BY <2>1 DEF OrderInv, Made, InFork
<1> QED
  BY <1>1, <1>2, <1>3, <1>4 DEF Boot

LEMMA OrderFork == IInv /\ OrderInv /\ Fork => OrderInv'
<1> SUFFICES ASSUME IInv, OrderInv, Fork PROVE OrderInv'
  OBVIOUS
<1>1. CASE ForkCli
  BY <1>1, OrderKept DEF ForkCli, Made, tasks
<1>2. CASE ForkClone
  <2>1. next_pid \in Nat /\ eip \in [Task -> Eip]
    BY ConstantsAssumption DEF IInv, TypeOK
  <2>2. /\ phase = "up" /\ OnTop("fork") /\ phase' = "up" /\ pc = "clone"
        /\ queue' = queue /\ next_pid' = next_pid + 1 /\ pc' = "enqueue"
        /\ eip' = [eip EXCEPT ![next_pid] = "none"]
        /\ next_pid \in Task
    BY <1>2 DEF ForkClone, NewPid, IInv, ForkOK, InFork, TypeOK, Task
  <2>3. eip'[next_pid'- 1] = "none"
    BY <2>1, <2>2
  <2>4. Top'.task = next_pid' - 1
    <3>1. sp \in 1 .. MaxDepth /\ sp' = sp /\ Top \in Frame
      BY <1>2, <2>2, ConstantsAssumption, TopType DEF IInv, TypeOK, OnTop, ForkClone
    <3>2. stack'[sp] = [Top EXCEPT !.task = next_pid]
      BY <1>2, <3>1 DEF ForkClone, KeepLocal, IInv, TypeOK, Top
    <3> QED
      BY <2>1, <2>2, <3>1, <3>2 DEF Top, Frame
  <2>5. current' # next_pid' - 1
    <3>1. current \in Queued /\ Queued \subseteq 1 .. next_pid - 1 /\ current' = current
      BY <1>2, <2>2 DEF ForkClone, IInv, ListOK, running
    <3> QED
      BY <2>1, <2>2, <3>1
  <2> QED
    BY <2>1, <2>2, <2>3, <2>4, <2>5 DEF OrderInv, Made
<1>3. CASE ForkEnqueue
  <2>1. /\ Top.task = next_pid - 1 /\ phase = "up"
        /\ Len(queue) = next_pid - 2 /\ queue \in Seq(Task)
        /\ next_pid \in Nat /\ Len(queue) \in Nat
    BY <1>3 DEF ForkEnqueue, IInv, TypeOK, ForkOK, OrderInv, Made, InFork
  <2>2. queue' = Append(queue, next_pid - 1) /\ next_pid - 1 \in Task
    BY <1>3, <2>1, ConstantsAssumption
    DEF ForkEnqueue, Linked, IInv, TypeOK, ForkOK, InFork, Task
  <2>3. /\ Len(queue') = next_pid - 1
        /\ \A i \in DOMAIN queue' : queue'[i] = i
    BY <2>1, <2>2 DEF OrderInv
  <2>4. /\ Top' = Top /\ next_pid' = next_pid /\ pc' = "read_eip"
        /\ current' = current /\ current # next_pid - 1
    BY <1>3 DEF ForkEnqueue, Top, running, OrderInv, Made, InFork
  <2> QED
    BY <2>1, <2>3, <2>4 DEF OrderInv
<1>4. CASE ForkReadEip
  BY <1>4 DEF ForkReadEip, OrderInv, IInv, FlagOK, CliPC, Made, InFork,
              Top, tasks, running
<1>5. CASE ForkParent
  BY <1>5, OrderKept DEF ForkParent, Unmask, Made, InFork
<1>6. CASE ForkParentReturn \/ ForkChildReturn
  <2>1. /\ pc # "enqueue" /\ OnTop("fork") /\ pc' = Top.ret
        /\ UNCHANGED <<phase, queue, next_pid>>
    BY <1>6 DEF ForkParentReturn, ForkChildReturn, ForkReturn, tasks
  <2>2. pc' = "run"
    BY <2>1, TopRecord DEF IInv, OnTop
  <2> QED
    BY <2>1, <2>2, OrderKept DEF Made, InFork
<1> QED
  BY <1>1, <1>2, <1>3, <1>4, <1>5, <1>6 DEF Fork

LEMMA OrderInductive == Spec => []OrderInv
<1>1. IInv /\ OrderInv /\ [Next]_vars => OrderInv'
  <2> SUFFICES ASSUME IInv, OrderInv, [Next]_vars PROVE OrderInv'
    OBVIOUS
  <2>1. CASE Pit \/ TimerShutdown \/ UNCHANGED vars
    BY <2>1, OrderStutter DEF Pit, TimerShutdown, vars
  <2>2. CASE ExecVE
    BY <2>2, OrderKept DEF ExecVE, Made, InFork, cpu
  <2>3. CASE Calls
    <3>1. UNCHANGED <<phase, queue, next_pid, pc, iflag, eip, current>>
      BY <2>3 DEF Calls, tasks, running
    <3>2. Made => Top' = Top
      BY <2>3, CallsTyped DEF Made, IInv, ForkOK, OnTop
    <3> QED
      BY <3>1, <3>2 DEF OrderInv, Made, InFork
  <2>4. CASE GoAstray
    BY <2>4, OrderKept DEF GoAstray, Made, InFork, tasks
  <2> QED
    BY <2>1, <2>2, <2>3, <2>4, OrderIrq, OrderBoot, OrderFork DEF Next, Stray
<1> QED
  BY <1>1, OrderInit, Inductive, PTL DEF Spec

-----------------------------------------------------------------------------
(* The abstract line is the list, without a last task that Fork is still   *)
(* making; the abstract processor is current, once there is a list.        *)
Cur == IF queue = <<>> THEN NULL ELSE current

LEMMA StartedQueued ==
    ASSUME IInv, OrderInv, NEW i \in DOMAIN queue
    PROVE  /\ queue[i] = i
           /\ queue[i] \in Started <=> ~(HalfMade /\ i = Len(queue))
<1>1. queue \in Seq(Task) /\ next_pid \in Nat /\ Len(queue) \in Nat /\ i \in 1 .. Len(queue)
  BY ConstantsAssumption DEF IInv, TypeOK
<1>2. queue[i] = i /\ i \in Queued /\ i \in Task
  BY <1>1 DEF OrderInv, Queued
<1>3. i \in 1 .. next_pid - 1 /\ phase = "up"
  BY <1>1, <1>2 DEF IInv, ListOK, TypeOK, Phase
<1>4. CASE HalfMade
  <2>1. /\ Top.task = next_pid - 1 /\ Len(queue) = next_pid - 1 /\ pc # "enqueue" /\ pc # "clone"
        /\ eip[next_pid - 1] = "none" /\ InFork
    BY <1>3, <1>4 DEF HalfMade, Made, OrderInv
  <2>2. \A t \in Queued \ {current} : eip[t] = "none" => t = next_pid - 1
    BY <2>1 DEF IInv, ForkOK, InFork
  <2>3. current # next_pid - 1
    BY <1>4 DEF HalfMade, OrderInv
  <2> QED
    BY <1>1, <1>2, <1>4, <2>1, <2>2, <2>3 DEF Started
<1>5. CASE ~HalfMade
  <2>1. i = current \/ eip[i] # "none"
    BY <1>2, <1>5, ConstantsAssumption
    DEF IInv, Resumable, ForkOK, HalfMade, Made, InFork, OrderInv
  <2> QED
    BY <1>2, <1>5, <2>1 DEF Started
<1> QED
  BY <1>4, <1>5

ReadyOK ==
    /\ HalfMade => /\ queue # <<>>
                   /\ ReadyQueue = SubSeq(queue, 1, Len(queue) - 1)
    /\ ~HalfMade => ReadyQueue = queue

LEMMA Ready == IInv /\ OrderInv => ReadyOK
<1> SUFFICES ASSUME IInv, OrderInv PROVE ReadyOK
  OBVIOUS
<1>1. queue \in Seq(Task) /\ Len(queue) \in Nat
  BY DEF IInv, TypeOK
<1>2. CASE queue = <<>>
  <2>1. ~HalfMade
    <3>1. SUFFICES ASSUME HalfMade PROVE FALSE
      OBVIOUS
    <3>2. phase = "up"
      BY <3>1 DEF HalfMade, Made, IInv, ForkOK
    <3> QED
      BY <1>2, <3>2 DEF IInv, ListOK, Queued
  <2> QED
    BY <1>2, <2>1 DEF ReadyQueue, ReadyOK
<1>3. CASE queue # <<>>
  BY <1>1, <1>3, StartedQueued DEF ReadyQueue, ReadyOK
<1> QED
  BY <1>2, <1>3

LEMMA ReadyNext == IInv' /\ OrderInv' => ReadyOK'
BY Ready, PTL

(* Steps that leave the abstract state alone.                              *)
LEMMA RefineStutter ==
    ASSUME IInv, OrderInv, IInv', OrderInv', queue' = queue, Cur' = Cur,
           (HalfMade' <=> HalfMade)
    PROVE  [RR!Next]_<<ReadyQueue, Cur>>
BY Ready, ReadyNext DEF ReadyOK

(* Fork changes nothing abstract until the new task has a context; then it *)
(* is admitted.                                                            *)
LEMMA RefineParent ==
    ASSUME IInv, OrderInv, IInv', OrderInv', ForkParent
    PROVE  [RR!Next]_<<ReadyQueue, Cur>>
<1>1. ~HalfMade' /\ queue' = queue /\ Cur' = Cur
  BY DEF ForkParent, HalfMade, Made, InFork, Cur, running, Unmask
<1>2. ReadyQueue' = queue
  BY <1>1, ReadyNext DEF ReadyOK
<1>3. CASE ~HalfMade
  BY <1>1, <1>2, <1>3, Ready DEF ReadyOK
<1>4. CASE HalfMade
  <2> DEFINE n == Len(queue)
             R == SubSeq(queue, 1, n - 1)
  <2>1. queue \in Seq(Task) /\ n \in Nat /\ queue # <<>>
    <3>1. queue \in Seq(Task)
      BY DEF IInv, TypeOK
    <3> QED
      BY <1>4, <3>1, Ready DEF ReadyOK
  <2>2. n > 1
    <3>1. /\ phase = "up" /\ current \in Queued /\ n = next_pid - 1
          /\ current # next_pid - 1 /\ \A i \in DOMAIN queue : queue[i] = i
      BY <1>4 DEF HalfMade, Made, IInv, ForkOK, ListOK, OrderInv
    <3> QED
      BY <2>1, <3>1 DEF Queued
  <2>3. /\ R \in Seq(Task) /\ Len(R) = n - 1 /\ R # <<>> /\ DOMAIN R = 1 .. n - 1
        /\ \A i \in 1 .. n - 1 : R[i] = queue[i]
    <3>1. \A i \in 1 .. n - 1 : queue[i] \in Task
      BY <2>1
    <3>2. /\ R \in Seq(Task)
          /\ Len(R) = IF 1 <= n - 1 THEN n - 1 - 1 + 1 ELSE 0
          /\ \A i \in 1 .. n - 1 - 1 + 1 : R[i] = queue[1 + i - 1]
      BY <2>1, <3>1, SubSeqProperties
    <3> HIDE DEF R
    <3>3. DOMAIN R = 1 .. Len(R) /\ (R = <<>> => Len(R) = 0)
      BY <3>2, LenProperties, EmptySeq
    <3> QED
      BY <2>1, <2>2, <3>2, <3>3
  <2>4. queue[n] \in Task /\ \A i \in DOMAIN R : R[i] # queue[n]
    BY <2>1, <2>2, <2>3 DEF OrderInv
  <2>5. queue = Append(R, queue[n])
    <3> DEFINE A == Append(R, queue[n])
    <3>1. A \in Seq(Task) /\ Len(A) = n /\ \A i \in 1 .. n : A[i] = queue[i]
      BY <2>1, <2>2, <2>3, <2>4, AppendProperties
    <3> QED
      BY <2>1, <3>1, SeqEqual
  <2>6. ReadyQueue = R
    BY <1>4, Ready DEF ReadyOK
  <2> QED
    BY <1>1, <1>2, <2>3, <2>4, <2>5, <2>6 DEF RR!Next, RR!Admit, RR!Members, Cur
<1> QED
  BY <1>3, <1>4

(* Linking a task that has no context does not show.                       *)
LEMMA RefineEnqueue ==
    ASSUME IInv, OrderInv, IInv', OrderInv', ForkEnqueue
    PROVE  [RR!Next]_<<ReadyQueue, Cur>>
<1>1. /\ ~HalfMade /\ HalfMade' /\ queue' = Append(queue, Top.task)
      /\ current' = current
  BY DEF ForkEnqueue, Linked, HalfMade, Made, InFork, OrderInv, running
<1>2. queue # <<>> /\ queue \in Seq(Task)
  BY DEF ForkEnqueue, IInv, ForkOK, InFork, ListOK, Queued, TypeOK
<1>3. ReadyQueue = queue /\ ReadyQueue' = SubSeq(queue', 1, Len(queue') - 1)
  BY <1>1, Ready, ReadyNext DEF ReadyOK
<1>4. Top.task \in Task
  <2>1. Top.task \in 1 .. next_pid - 1 /\ next_pid \in 1 .. MaxTasks + 1
    BY DEF ForkEnqueue, IInv, ForkOK, InFork, TypeOK
  <2> QED
    BY <2>1, ConstantsAssumption DEF Task
<1>5. queue' # <<>> /\ SubSeq(queue', 1, Len(queue') - 1) = queue
  BY <1>1, <1>2, <1>4
<1> QED
  BY <1>1, <1>2, <1>3, <1>5 DEF Cur

(* Switch goes to the next in the line.                                    *)
LEMMA RefineTick ==
    ASSUME IInv, OrderInv, IInv', OrderInv', OnTick
    PROVE  [RR!Next]_<<ReadyQueue, Cur>>
<1>1. ~HalfMade /\ ~HalfMade'
  <2>1. pc' \notin CliPC /\ pc # "forked" /\ pc \notin CliPC \ {"irq", "handler"}
    <3>1. CASE current = NULL
      BY <3>1 DEF OnTick, CliPC
    <3>2. CASE current # NULL
      BY <3>2 DEF OnTick, Switch, IInv, FlagOK, CliPC
    <3> QED
      BY <3>1, <3>2
  <2>2. pc' = "forked" => iflag'
    BY DEF OnTick, Switch
  <2> QED
    BY <2>1, <2>2 DEF HalfMade, Made, InFork, CliPC
<1>2. ReadyQueue = queue /\ ReadyQueue' = queue'
  BY <1>1, Ready, ReadyNext DEF ReadyOK
<1>3. CASE current = NULL
  BY <1>2, <1>3 DEF OnTick, tasks, running, Cur
<1>4. CASE current # NULL
  <2>1. /\ current \in Queued /\ queue' = queue /\ current' = NextOf(current)
        /\ queue \in Seq(Task)
    BY <1>4 DEF OnTick, Switch, IInv, TypeOK, FlagOK, ListOK, Phase
  <2> DEFINE i == CHOOSE i \in DOMAIN queue : queue[i] = current
  <2>2. i \in DOMAIN queue /\ queue[i] = current
    BY <2>1 DEF Queued
  <2>3. current' = IF i = Len(queue) THEN queue[1] ELSE queue[i + 1]
    BY <2>1 DEF NextOf
  <2> HIDE DEF i
  <2>4. Len(queue) \in Nat /\ i \in 1 .. Len(queue) /\ queue # <<>>
    BY <2>1, <2>2
  <2>5. (i % Len(queue)) + 1 = IF i = Len(queue) THEN 1 ELSE i + 1
    BY <2>4
  <2>6. current' = queue[(i % Len(queue)) + 1]
    BY <2>3, <2>5
  <2> QED
    BY <1>2, <2>1, <2>2, <2>4, <2>6 DEF RR!Next, RR!Rotate, Cur
<1> QED
  BY <1>3, <1>4

(* The first task starts when it is linked.                                *)
LEMMA RefineBoot ==
    ASSUME IInv, OrderInv, IInv', OrderInv', Boot
    PROVE  [RR!Next]_<<ReadyQueue, Cur>>
<1>1. ~HalfMade /\ ~HalfMade'
  BY DEF Boot, TimerInitialize, InitializeCli, InitializeCurrent, InitializeQueue,
         HalfMade, Made, InFork, cpu
<1>2. CASE InitializeQueue
  <2>1. current = 1 /\ current' = 1 /\ queue = <<>> /\ queue' = <<1>> /\ 1 \in Task
    BY <1>2, ConstantsAssumption DEF InitializeQueue, IInv, ListOK, running, Task
  <2>2. ReadyQueue = <<>> /\ ReadyQueue' = <<1>>
    BY <1>1, <2>1, Ready, ReadyNext DEF ReadyOK
  <2> QED
    BY <2>1, <2>2 DEF RR!Next, RR!Start, Cur
<1>3. CASE ~InitializeQueue
  <2>1. queue' = queue /\ (queue # <<>> => current' = current)
    BY <1>3 DEF Boot, TimerInitialize, InitializeCli, InitializeCurrent, tasks, running,
                IInv, ListOK
  <2>2. Cur' = Cur
    BY <2>1 DEF Cur
  <2> QED
    BY <1>1, <2>1, <2>2, RefineStutter
<1> QED
  BY <1>2, <1>3

LEMMA RefineStep ==
    ASSUME IInv, OrderInv, IInv', OrderInv', [Next]_vars
    PROVE  [RR!Next]_<<ReadyQueue, Cur>>
<1>1. CASE OnTick
  BY <1>1, RefineTick
<1>2. CASE Boot
  BY <1>2, RefineBoot
<1>3. CASE ForkEnqueue
  BY <1>3, RefineEnqueue
<1>4. CASE ForkParent
  BY <1>4, RefineParent
<1>5. CASE Pit \/ TimerShutdown \/ UNCHANGED vars
  <2>1. UNCHANGED <<queue, current, pc, iflag, eip, next_pid>>
    BY <1>5 DEF Pit, TimerShutdown, vars, cpu, tasks, running
  <2>2. Cur' = Cur /\ (HalfMade' <=> HalfMade)
    BY <2>1 DEF Cur, HalfMade, Made, InFork
  <2> QED
    BY <2>1, <2>2, RefineStutter
<1>6. CASE Interrupt \/ Eoi \/ NoHandler \/ OnTickEnd
  <2>1. /\ queue' = queue /\ current' = current
        /\ pc \notin {"clone", "enqueue", "read_eip"}
        /\ pc' \notin {"clone", "enqueue", "read_eip"}
        /\ (pc = "forked" => iflag) /\ (pc' = "forked" => iflag')
    BY <1>6, IretTyped DEF Interrupt, Eoi, NoHandler, OnTickEnd, tasks, running,
                           IInv, FlagOK, CliPC
  <2>2. Cur' = Cur /\ (HalfMade' <=> HalfMade)
    BY <2>1 DEF Cur, HalfMade, Made, InFork
  <2> QED
    BY <2>1, <2>2, RefineStutter
<1>7. CASE ForkCli \/ ForkClone
  <2>1. /\ queue' = queue /\ current' = current
        /\ pc \in {"run", "clone"} /\ pc' \in {"clone", "enqueue"}
    BY <1>7 DEF ForkCli, ForkClone, tasks, running
  <2>2. Cur' = Cur /\ (HalfMade' <=> HalfMade)
    BY <2>1 DEF Cur, HalfMade, Made, InFork
  <2> QED
    BY <2>1, <2>2, RefineStutter
<1>8. CASE ForkReadEip
  <2>1. UNCHANGED <<queue, current, eip, next_pid>>
    BY <1>8 DEF ForkReadEip, tasks, running
  <2>2. Cur' = Cur
    BY <2>1 DEF Cur
  <2>3. (HalfMade' <=> HalfMade)
    BY <1>8, <2>1 DEF ForkReadEip, HalfMade, Made, InFork, IInv, FlagOK, CliPC
  <2> QED
    BY <2>1, <2>2, <2>3, RefineStutter
<1>9. CASE ForkParentReturn \/ ForkChildReturn
  <2>1. /\ queue' = queue /\ current' = current /\ ~InFork /\ pc' = "run"
    BY <1>9, TopRecord DEF ForkParentReturn, ForkChildReturn, ForkReturn, OnTop,
                           IInv, ForkOK, InFork, tasks, running
  <2>2. Cur' = Cur /\ (HalfMade' <=> HalfMade)
    BY <2>1 DEF Cur, HalfMade, Made, InFork
  <2> QED
    BY <2>1, <2>2, RefineStutter
<1>10. CASE ExecVE
  <2>1. /\ queue' = queue /\ current' = current
        /\ pc = "run" /\ pc' = "run"
    BY <1>10 DEF ExecVE, running, cpu
  <2>2. Cur' = Cur /\ (HalfMade' <=> HalfMade)
    BY <2>1 DEF Cur, HalfMade, Made, InFork
  <2> QED
    BY <2>1, <2>2, RefineStutter
<1>11. CASE Calls
  <2>1. UNCHANGED <<queue, current, pc, iflag, eip, next_pid>>
    BY <1>11 DEF Calls, tasks, running
  <2>2. Cur' = Cur /\ (HalfMade' <=> HalfMade)
    BY <2>1 DEF Cur, HalfMade, Made, InFork
  <2> QED
    BY <2>1, <2>2, RefineStutter
<1>12. CASE GoAstray
  <2>1. queue' = queue /\ current' = current /\ ~InFork /\ pc' = "astray"
    BY <1>12 DEF GoAstray, IInv, ForkOK, InFork, tasks, running
  <2>2. Cur' = Cur /\ (HalfMade' <=> HalfMade)
    BY <2>1 DEF Cur, HalfMade, Made, InFork
  <2> QED
    BY <2>1, <2>2, RefineStutter
<1> QED
  BY <1>1, <1>2, <1>3, <1>4, <1>5, <1>6, <1>7, <1>8, <1>9, <1>10, <1>11, <1>12
  DEF Next, Irq, Fork, Stray

(* The scheduler of task.cc is a round robin: whatever the interleaving of *)
(* ticks and forks, a task gets in line once, at the end, when it has a    *)
(* context to resume, and the processor goes down the line.                *)
THEOREM RefinesRoundRobin == Spec => Refines
<1>1. Init => RR!Init
  BY DEF Init, RR!Init, ReadyQueue, NULL
<1>2. IInv /\ OrderInv /\ IInv' /\ OrderInv' /\ [Next]_vars
        => [RR!Next]_<<ReadyQueue, Cur>>
  BY RefineStep
<1> QED
  BY <1>1, <1>2, Inductive, OrderInductive, PTL DEF Spec, Refines, RR!Spec, Cur

-----------------------------------------------------------------------------
(***************************************************************************)
(* What is on the stack of Tasks until the first child is switched away    *)
(* from.  The first task has the stack to itself, and the child starts at  *)
(* the record of a Fork the parent has not left, or the parent has had its *)
(* return from that Fork.  Later nothing of this holds, so FirstSlot       *)
(* stands in front of it.                                                  *)
(***************************************************************************)

(* What the returns from Fork so far have handed out.                      *)
Values == {returned[i][2] : i \in DOMAIN returned}

(* The parent passes "forked" still in its critical section; a task that   *)
(* resumes there is a child.                                               *)
Here == IF Made /\ pc = "forked" THEN "read_eip" ELSE pc

(* The records up to depth d are ones that the code at "at" runs on: a     *)
(* program starts at the bottom, Fork has its record alone, the interrupt  *)
(* path has the interrupted point on top.                                  *)
Fits(at, d) ==
    /\ at \in {"run", "entry"} <=> d = 0
    /\ at \in ForkPC => d = 1
    /\ at \in IrqPC => stack[d].kind = "tick"
    /\ at = "clone" => stack[1] = ForkFrame(current)
    /\ at \in {"enqueue", "read_eip", "leave"} =>
          /\ stack[1] = [ForkFrame(current) EXCEPT !.task = stack[1].task]
          /\ stack[1].task > current
          /\ at # "enqueue" => stack[1].task \in Queued
          /\ \A v \in Values : v < stack[1].task
    /\ at = "forked" =>
          /\ handed = 1 /\ NULL \notin Values
          /\ IF stack[1].kind = "fork" THEN stack[1].parent = 1 ELSE 2 \in Values

WhoRuns == IF handed = 0 THEN current \in {NULL, 1} ELSE current = 2

WhereOK == IF pc = "astray" THEN handed = 1 /\ 2 \in Values ELSE Fits(Here, sp)

RecordsFit ==
    \A k \in 1 .. sp :
        /\ stack[k].kind = "tick" => Fits(stack[k].ret, k - 1)
        /\ stack[k].kind = "fork" /\ handed = 0 => stack[k].parent = 1

(* Before the first switch to a child each child resumes in Fork, on the   *)
(* record of the Fork that made it while that has not returned.            *)
ChildrenOK ==
    handed = 0 =>
      /\ eip[1] # "forked"
      /\ \A t \in Task \ {1} :
            /\ eip[t] \in {"none", "forked"}
            /\ eip[t] = "forked" =>
                 /\ esp[t] = 1
                 /\ t \in Values \/ (sp > 0 /\ stack[1] = [ForkFrame(1) EXCEPT !.task = t])

(* ForkReturns, and who has got the values before the child runs.          *)
ReturnedOK ==
    /\ \A i \in DOMAIN returned :
          /\ IF returned[i][2] = 0 THEN returned[i][1] = 2 /\ handed = 1
             ELSE /\ returned[i][2] \in Queued
                  /\ returned[i][1] < returned[i][2]
          /\ handed = 0 \/ returned[i][2] = 2 => returned[i][1] = 1
    /\ \A i, j \in DOMAIN returned :
          i < j => /\ returned[j][2] # returned[i][2]
                   /\ returned[j][2] # 0 => returned[i][2] < returned[j][2]

Slot    == WhoRuns /\ WhereOK /\ RecordsFit /\ ChildrenOK /\ ReturnedOK
SlotInv == FirstSlot => Slot

-----------------------------------------------------------------------------
LEMMA SlotInit == Init => SlotInv
<1> SUFFICES ASSUME Init PROVE Slot
  BY DEF SlotInv
<1>1. 1 \in Task /\ returned = <<>> /\ sp = 0 /\ pc = "run" /\ handed = 0
      /\ current = NULL /\ \A t \in Task : eip[t] = "none"
  BY ConstantsAssumption DEF Init, Task
<1>2. WhoRuns /\ ChildrenOK /\ ReturnedOK
  BY <1>1 DEF WhoRuns, ChildrenOK, ReturnedOK
<1>3. WhereOK /\ RecordsFit
  BY <1>1 DEF WhereOK, RecordsFit, Fits, Here, Made, InFork, ForkPC, IrqPC
<1> QED
  BY <1>2, <1>3 DEF Slot

LEMMA StackType ==
    ASSUME IInv
    PROVE  /\ stack \in [1 .. MaxDepth -> Frame] /\ sp \in 0 .. MaxDepth
           /\ MaxDepth \in Nat /\ handed \in 0 .. 2
BY ConstantsAssumption DEF IInv, TypeOK

(* A step that leaves the scheduler's tables and the returns alone, and    *)
(* the record of an unfinished Fork where it is.                           *)
LEMMA SlotKept ==
    ASSUME Slot, UNCHANGED <<running, returned, queue, eip, esp>>,
           sp > 0 /\ stack[1].kind = "fork" => sp' > 0 /\ stack'[1] = stack[1],
           WhereOK', RecordsFit'
    PROVE  Slot'
<1>1. current' = current /\ handed' = handed
  BY DEF running
<1>2. WhoRuns' /\ ReturnedOK'
  BY <1>1 DEF Slot, WhoRuns, ReturnedOK, Queued
<1>3. ChildrenOK'
  BY <1>1 DEF Slot, ChildrenOK, Values, ForkFrame
<1> QED
  BY <1>2, <1>3 DEF Slot

(* The records of the running code that a step does not touch still fit.   *)
LEMMA RecordsKept ==
    ASSUME IInv, Slot, UNCHANGED <<running, returned, queue>>,
           sp' \in 0 .. sp,
           \A d \in 1 .. sp' : stack'[d] = stack[d]
    PROVE  RecordsFit'
<1>1. current' = current /\ handed' = handed /\ Values' = Values /\ Queued' = Queued
  BY DEF running, Values, Queued
<1>2. ASSUME NEW k \in 1 .. sp'
      PROVE  /\ stack'[k].kind = "tick" => Fits(stack[k].ret, k - 1)'
             /\ stack'[k].kind = "fork" /\ handed' = 0 => stack'[k].parent = 1
  <2>1. /\ k \in 1 .. sp /\ stack'[k] = stack[k]
        /\ k - 1 > 0 => stack'[k - 1] = stack[k - 1] /\ stack'[1] = stack[1]
    BY <1>2, StackType
  <2>2. /\ stack[k].kind = "tick" => Fits(stack[k].ret, k - 1)
        /\ stack[k].kind = "fork" /\ handed = 0 => stack[k].parent = 1
    BY <2>1 DEF Slot, RecordsFit
  <2>3. CASE k - 1 > 0
    BY <1>1, <2>1, <2>2, <2>3 DEF Fits
  <2>4. CASE k - 1 = 0
    BY <1>1, <2>1, <2>2, <2>4 DEF Fits, ForkPC, IrqPC
  <2> QED
    BY <1>2, <2>3, <2>4, StackType
<1> QED
  BY <1>2 DEF RecordsFit

LEMMA SlotInterrupt == ASSUME IInv, Slot, Interrupt PROVE Slot'
<1>1. /\ iflag /\ iflag' = FALSE /\ pc # "astray" /\ pc' = "irq" /\ sp' = sp + 1
      /\ stack' = [stack EXCEPT ![sp + 1] = TickFrame(pc)] /\ sp + 1 \in 1 .. MaxDepth
      /\ UNCHANGED <<running, returned, queue, eip, esp>>
  BY StackType DEF Interrupt, Push, tasks
<1>2. /\ stack'[sp + 1] = TickFrame(pc)
      /\ \A d \in 1 .. sp : stack'[d] = stack[d] /\ d \in 1 .. MaxDepth
  BY <1>1, StackType
<1>3. Here = pc /\ Fits(pc, sp)
  BY <1>1 DEF Here, Made, InFork, Slot, WhereOK
<1>4. current' = current /\ handed' = handed /\ Values' = Values /\ Queued' = Queued
  BY <1>1 DEF running, Values, Queued
<1>5. WhereOK'
  BY <1>1, <1>2, StackType DEF WhereOK, Fits, Here, Made, InFork, IrqPC, ForkPC, TickFrame
<1>6. RecordsFit'
  <2>1. ASSUME NEW k \in 1 .. sp + 1
        PROVE  /\ stack'[k].kind = "tick" => Fits(stack[k].ret, k - 1)'
               /\ stack'[k].kind = "fork" /\ handed' = 0 => stack'[k].parent = 1
    <3>1. CASE k \in 1 .. sp
      <4>1. /\ stack[k].kind = "tick" => Fits(stack[k].ret, k - 1)
            /\ stack[k].kind = "fork" /\ handed = 0 => stack[k].parent = 1
        BY <3>1 DEF Slot, RecordsFit
      <4>2. CASE k - 1 > 0
        <5>1. stack'[k] = stack[k] /\ stack'[k - 1] = stack[k - 1] /\ stack'[1] = stack[1]
          BY <1>2, <3>1, <4>2, StackType
        <5> QED
          BY <1>4, <4>1, <5>1 DEF Fits
      <4>3. CASE k - 1 = 0
        <5>1. stack'[k] = stack[k]
          BY <1>2, <3>1
        <5> QED
          BY <1>4, <4>1, <4>3, <5>1 DEF Fits, ForkPC, IrqPC
      <4> QED
        BY <3>1, <4>2, <4>3, StackType
    <3>2. CASE k = sp + 1
      <4>1. k - 1 = sp /\ stack'[k].kind = "tick" /\ stack'[k].ret = pc
        BY <1>2, <3>2, StackType DEF TickFrame
      <4>2. CASE sp > 0
        <5>1. stack'[sp] = stack[sp] /\ stack'[1] = stack[1]
          BY <1>2, <4>2, StackType
        <5> QED
          BY <1>3, <1>4, <4>1, <5>1 DEF Fits
      <4>3. CASE sp = 0
        BY <1>3, <1>4, <4>1, <4>3 DEF Fits, ForkPC, IrqPC
      <4> QED
        BY <4>2, <4>3, StackType
    <3> QED
      BY <2>1, <3>1, <3>2, StackType
  <2> QED
    BY <1>1, <2>1 DEF RecordsFit
<1>7. sp > 0 => sp' > 0 /\ stack'[1] = stack[1]
  BY <1>1, <1>2, StackType
<1> QED
  BY <1>1, <1>5, <1>6, <1>7, SlotKept

(* Steps inside the interrupt path, and GoAstray, that leave the stack.    *)
LEMMA SlotStay ==
    ASSUME IInv, Slot, UNCHANGED <<sp, stack, running, returned, queue, eip, esp>>, WhereOK'
    PROVE  Slot'
<1>1. RecordsFit' /\ (sp > 0 => sp' > 0 /\ stack'[1] = stack[1])
  BY RecordsKept, StackType
<1> QED
  BY <1>1, SlotKept

LEMMA SlotInIrq ==
    ASSUME IInv, Slot, Eoi \/ (OnTick /\ current = NULL) PROVE Slot'
<1>1. /\ UNCHANGED <<sp, stack, running, returned, queue, eip, esp>>
      /\ pc \in {"irq", "handler"} /\ pc' \in {"handler", "tail"}
  BY DEF Eoi, OnTick, tasks
<1>2. Fits(pc, sp)
  BY <1>1 DEF Slot, WhereOK, Here
<1>3. WhereOK'
  BY <1>1, <1>2 DEF WhereOK, Fits, Here, ForkPC, IrqPC
<1> QED
  BY <1>1, <1>3, SlotStay

(* The end of the interrupt path resumes what its record names.            *)
LEMMA SlotIret ==
    ASSUME IInv, Slot, Iret, UNCHANGED <<running, returned, queue, eip, esp>>
    PROVE  Slot'
<1>1. /\ sp \in 1 .. MaxDepth /\ stack[sp].kind = "tick" /\ sp' = sp - 1
      /\ pc' = stack[sp].ret /\ stack' = stack /\ iflag' = TRUE /\ pc' # "astray"
  BY StackType, IretTyped DEF Iret, Pop, OnTop, Top, Code, ForkPC, IrqPC
<1>2. Fits(stack[sp].ret, sp - 1)
  BY <1>1 DEF Slot, RecordsFit
<1>3. current' = current /\ handed' = handed /\ Values' = Values /\ Queued' = Queued
  BY DEF running, Values, Queued
<1>4. WhereOK'
  BY <1>1, <1>2, <1>3 DEF WhereOK, Fits, Here, Made, InFork
<1>5. RecordsFit'
  BY <1>1, RecordsKept, StackType
<1>6. sp > 0 /\ stack[1].kind = "fork" => sp' > 0 /\ stack'[1] = stack[1]
  BY <1>1
<1> QED
  BY <1>4, <1>5, <1>6, SlotKept

(* The switch to the first child.                                          *)
LEMMA SlotSwitch ==
    ASSUME IInv, OrderInv, Slot, handed' <= 1, OnTick, current # NULL
    PROVE  Slot'
<1>1. phase = "up" /\ current \in Queued /\ ~Made
  BY DEF OnTick, IInv, FlagOK, ListOK, TypeOK, Phase, Made, InFork
<1>2. /\ queue \in Seq(Task) /\ Len(queue) \in Nat /\ \A i \in DOMAIN queue : queue[i] = i
      /\ Queued \subseteq Task
  BY QueuedType DEF IInv, TypeOK, OrderInv
<1>3. current \in 1 .. Len(queue)
  BY <1>1, <1>2 DEF Queued
<1>4. NextOf(current) = IF current = Len(queue) THEN 1 ELSE current + 1
  BY <1>2, <1>3 DEF NextOf
<1> DEFINE next == NextOf(current)
<1>5. /\ eip' = [eip EXCEPT ![current] = "tail"]
      /\ esp' = [esp EXCEPT ![current] = sp]
      /\ current' = next
      /\ handed' = IF next = current \/ handed = 2 THEN handed ELSE handed + 1
      /\ pc' = eip'[next] /\ sp' = esp'[next] /\ iflag' = TRUE
      /\ UNCHANGED <<stack, queue, returned>>
  BY DEF OnTick, Switch, SavedEsp
<1>6. Values' = Values /\ Queued' = Queued
  BY <1>5 DEF Values, Queued
<1>7. Fits("handler", sp) /\ sp \in 1 .. MaxDepth /\ stack[sp].kind = "tick"
  <2>1. Fits("handler", sp)
    BY DEF Slot, WhereOK, OnTick, Here
  <2> QED
    BY <2>1, StackType DEF Fits, IrqPC
<1>8. handed = 0 /\ current = 1
  <2>1. CASE handed = 1
    <3>1. current = 2 /\ next # 2
      BY <1>3, <1>4, <2>1 DEF Slot, WhoRuns
    <3> QED
      BY <1>5, <2>1, <3>1
  <2>2. CASE handed = 2
    BY <1>5, <2>2
  <2>3. CASE handed = 0
    BY <2>3 DEF Slot, WhoRuns
  <2> QED
    BY <2>1, <2>2, <2>3, StackType
<1>9. /\ eip \in [Task -> Eip] /\ esp \in [Task -> 0 .. MaxDepth]
      /\ current \in Task /\ next \in Task
  BY <1>1, <1>2, NextOfQueued DEF IInv, TypeOK
<1>10. CASE next = 1
  <2>1. /\ handed' = 0 /\ current' = 1 /\ pc' = "tail" /\ sp' = sp
        /\ \A t \in Task \ {1} : eip'[t] = eip[t] /\ esp'[t] = esp[t]
    BY <1>5, <1>8, <1>9, <1>10
  <2>2. WhoRuns' /\ ReturnedOK'
    BY <1>5, <1>6, <1>8, <2>1 DEF WhoRuns, ReturnedOK, Slot
  <2>3. WhereOK'
    BY <1>5, <1>7, <2>1 DEF WhereOK, Fits, Here, ForkPC, IrqPC
  <2>4. RecordsFit'
    BY <1>5, <1>8, <2>1, RecordsKept, StackType DEF running
  <2>5. ChildrenOK'
    BY <1>5, <1>6, <1>8, <2>1 DEF Slot, ChildrenOK, ForkFrame
  <2> QED
    BY <2>2, <2>3, <2>4, <2>5 DEF Slot
<1>11. CASE next # 1
  <2>1. next = 2 /\ handed' = 1 /\ current' = 2
    BY <1>3, <1>4, <1>5, <1>8, <1>11
  <2>2. eip[2] = "forked"
    <3>1. 2 \in Queued \ {current}
      BY <1>1, <1>2, <1>8, <2>1, NextOfQueued
    <3>2. eip[2] # "none"
      BY <3>1, AllSaved DEF OnTick, IInv
    <3>3. 2 \in Task \ {1}
      BY <3>1, <1>2, <1>8
    <3>4. eip[2] \in {"none", "forked"}
      BY <1>8, <3>3 DEF Slot, ChildrenOK
    <3> QED
      BY <3>2, <3>4
  <2>3. /\ pc' = "forked" /\ sp' = 1 /\ ~Made'
        /\ 2 \in Values \/ stack[1] = [ForkFrame(1) EXCEPT !.task = 2]
    BY <1>5, <1>8, <1>9, <2>1, <2>2 DEF Slot, ChildrenOK, Made, InFork
  <2>4. stack[1].kind = "fork" => stack[1].parent = 1
    BY <1>7, <1>8 DEF Slot, RecordsFit
  <2>5. NULL \notin Values
    BY <1>8 DEF Slot, ReturnedOK, Values, NULL
  <2>6. WhereOK'
    BY <1>5, <1>6, <2>1, <2>3, <2>4, <2>5
    DEF WhereOK, Fits, Here, ForkPC, IrqPC, ForkFrame
  <2>7. RecordsFit'
    <3>1. stack[1].kind = "tick" => Fits(stack[1].ret, 0)
      BY <1>7 DEF Slot, RecordsFit
    <3>2. stack[1].kind = "tick" => Fits(stack[1].ret, 0)'
      BY <1>5, <3>1 DEF Fits, ForkPC, IrqPC
    <3>3. \A k \in 1 .. sp' : k = 1 /\ k - 1 = 0
      BY <2>3
    <3> QED
      BY <1>5, <2>1, <3>2, <3>3 DEF RecordsFit
  <2>8. WhoRuns' /\ ChildrenOK'
    BY <2>1 DEF WhoRuns, ChildrenOK
  <2>9. ReturnedOK'
    BY <1>5, <1>6, <1>8, <2>1 DEF Slot, ReturnedOK
  <2> QED
    BY <2>6, <2>7, <2>8, <2>9 DEF Slot
<1> QED
  BY <1>10, <1>11

LEMMA SlotBoot == ASSUME IInv, Slot, Boot PROVE Slot'
<1>1. /\ pc = "run" /\ pc' = "run" /\ UNCHANGED <<sp, stack, returned, eip, esp, handed>>
      /\ phase # "up" /\ Queued = {}
  BY DEF Boot, TimerInitialize, InitializeCli, InitializeCurrent, InitializeQueue,
         cpu, tasks, running, IInv, ListOK, Queued
<1>2. sp = 0
  BY <1>1 DEF Slot, WhereOK, Here, Fits
<1>3. handed = 0 /\ current' \in {NULL, 1}
  BY <1>1 DEF Boot, TimerInitialize, InitializeCli, InitializeCurrent, InitializeQueue,
              running, IInv, ListOK, Slot, WhoRuns, NULL
<1>4. WhoRuns' /\ WhereOK' /\ RecordsFit'
  BY <1>1, <1>2, <1>3 DEF WhoRuns, WhereOK, RecordsFit, Here, Made, InFork, Fits, ForkPC, IrqPC
<1>5. \A i \in DOMAIN returned : FALSE
  BY <1>1, <1>3 DEF Slot, ReturnedOK
<1>6. ReturnedOK' /\ ChildrenOK'
  BY <1>1, <1>2, <1>3, <1>5 DEF Slot, ReturnedOK, ChildrenOK, Values
<1> QED
  BY <1>4, <1>6 DEF Slot

(* Calls writes above the stack pointer only.                              *)
LEMMA SlotCalls == ASSUME IInv, Slot, Calls PROVE Slot'
<1>1. UNCHANGED <<pc, iflag, sp, running, returned, queue, eip, esp>>
  BY DEF Calls, tasks
<1>2. \A d \in 1 .. sp : stack'[d] = stack[d]
  BY CallsTyped, StackType
<1>3. RecordsFit'
  BY <1>1, <1>2, RecordsKept, StackType
<1>4. current' = current /\ handed' = handed /\ Values' = Values /\ Queued' = Queued
      /\ Here' = Here
  BY <1>1 DEF running, Values, Queued, Here, Made, InFork
<1>5. WhereOK'
  <2>1. CASE sp > 0
    BY <1>1, <1>2, <1>4, <2>1, StackType DEF Slot, WhereOK, Fits
  <2>2. CASE sp = 0
    BY <1>1, <1>4, <2>2 DEF Slot, WhereOK, Fits, ForkPC, IrqPC
  <2> QED
    BY <2>1, <2>2, StackType
<1> QED
  BY <1>1, <1>2, <1>3, <1>5, SlotKept, StackType

(* Only a child can go astray, after its parent has left the Fork.         *)
LEMMA SlotAstray == ASSUME IInv, Slot, GoAstray PROVE Slot'
<1>1. /\ UNCHANGED <<sp, stack, running, returned, queue, eip, esp>>
      /\ pc' = "astray" /\ pc \in {"tail", "forked", "leave"}
  BY DEF GoAstray, tasks
<1>2. Fits(Here, sp)
  BY <1>1 DEF Slot, WhereOK
<1>3. pc # "tail"
  <2>1. SUFFICES ASSUME pc = "tail" PROVE FALSE
    OBVIOUS
  <2>2. sp > 0 /\ stack[sp].kind = "tick"
    BY <1>2, <2>1, StackType DEF Fits, Here, IrqPC
  <2> QED
    BY <2>1, <2>2 DEF GoAstray, OnTop, Top
<1>4. sp = 1 /\ stack[1].kind # "fork" /\ pc # "leave"
  <2>1. sp = 1
    BY <1>1, <1>2, <1>3 DEF Fits, Here, ForkPC
  <2>2. stack[1].kind # "fork"
    BY <1>1, <1>3, <2>1 DEF GoAstray, OnTop, Top
  <2> QED
    BY <1>2, <2>1, <2>2 DEF Fits, Here, ForkFrame
<1>5. pc = "forked" /\ ~Made
  BY <1>1, <1>3, <1>4 DEF Made, InFork, IInv, ForkOK, OnTop, Top
<1>6. handed = 1 /\ 2 \in Values
  BY <1>2, <1>4, <1>5 DEF Fits, Here
<1>7. WhereOK'
  BY <1>1, <1>6 DEF WhereOK, running, Values
<1> QED
  BY <1>1, <1>7, SlotStay

LEMMA SlotExecVE == ASSUME IInv, Slot, ExecVE, handed <= 1 PROVE Slot'
<1>1. /\ UNCHANGED <<pc, iflag, sp, stack, running, returned, queue>>
      /\ eip' = [eip EXCEPT ![current] = "entry"] /\ esp' = [esp EXCEPT ![current] = 0]
      /\ phase = "up" /\ pc = "run"
  BY DEF ExecVE, cpu
<1>2. current \in Task /\ current' = current /\ handed' = handed
  BY <1>1, QueuedType DEF IInv, ListOK, TypeOK, running
<1>3. WhoRuns' /\ ReturnedOK' /\ RecordsFit'
  BY <1>1, <1>2, RecordsKept, StackType DEF Slot, WhoRuns, ReturnedOK, Queued
<1>4. sp = 0
  BY <1>1 DEF Slot, WhereOK, Here, Fits
<1>5. WhereOK'
  BY <1>1, <1>4 DEF WhereOK, Here, Made, InFork, Fits, ForkPC, IrqPC
<1>6. ChildrenOK'
  <2>1. handed = 0 => \A t \in Task \ {1} : eip'[t] = eip[t] /\ esp'[t] = esp[t]
    BY <1>1, <1>2 DEF Slot, WhoRuns, Task, NULL, IInv, TypeOK
  <2> QED
    BY <1>1, <1>2, <2>1 DEF Slot, ChildrenOK, Values, ForkFrame
<1> QED
  BY <1>3, <1>5, <1>6 DEF Slot

-----------------------------------------------------------------------------
LEMMA SlotForkCli == ASSUME IInv, Slot, ForkCli PROVE Slot'
<1>1. /\ pc = "run" /\ pc' = "clone" /\ sp' = sp + 1
      /\ stack' = [stack EXCEPT ![sp + 1] = ForkFrame(current)] /\ sp + 1 \in 1 .. MaxDepth
      /\ UNCHANGED <<running, returned, queue, eip, esp>> /\ phase = "up"
  BY StackType DEF ForkCli, Push, tasks
<1>2. sp = 0
  BY <1>1 DEF Slot, WhereOK, Here, Fits
<1>3. stack'[1] = ForkFrame(current) /\ sp' = 1
  BY <1>1, <1>2, StackType
<1>4. current' = current /\ handed' = handed
  BY <1>1 DEF running
<1>5. WhereOK'
  BY <1>1, <1>3, <1>4 DEF WhereOK, Fits, Here, ForkPC, IrqPC, ForkFrame
<1>6. RecordsFit'
  <2>1. handed = 0 => current = 1
    <3>1. current \in Task
      BY <1>1, QueuedType DEF IInv, ListOK, TypeOK
    <3> QED
      BY <3>1 DEF Slot, WhoRuns, Task, NULL
  <2>2. \A k \in 1 .. sp' : k = 1
    BY <1>3
  <2> QED
    BY <1>3, <1>4, <2>1, <2>2 DEF RecordsFit, ForkFrame
<1> QED
  BY <1>1, <1>2, <1>5, <1>6, SlotKept

LEMMA SlotForkReadEip == ASSUME IInv, Slot, ForkReadEip PROVE Slot'
<1>1. /\ UNCHANGED <<iflag, sp, stack, running, returned, queue, eip, esp>>
      /\ pc = "read_eip" /\ pc' = "forked" /\ ~iflag
  BY DEF ForkReadEip, tasks, IInv, FlagOK, CliPC
<1>2. Here' = "read_eip" /\ Here = "read_eip"
  BY <1>1 DEF Here, Made, InFork
<1>3. WhereOK'
  BY <1>1, <1>2 DEF Slot, WhereOK, Fits, Values, Queued, running, ForkFrame, ForkPC, IrqPC
<1> QED
  BY <1>1, <1>3, SlotStay

(* The child's pid is larger than every one handed out before.             *)
LEMMA SlotForkClone == ASSUME IInv, Slot, ForkClone PROVE Slot'
<1>1. /\ UNCHANGED <<sp, running, returned, queue>>
      /\ stack' = [stack EXCEPT ![sp].task = next_pid]
      /\ eip' = [eip EXCEPT ![next_pid] = "none"] /\ esp' = [esp EXCEPT ![next_pid] = 0]
      /\ pc = "clone" /\ pc' = "enqueue" /\ next_pid \in Task
  BY ConstantsAssumption DEF ForkClone, KeepLocal, IInv, TypeOK, Task
<1>2. Fits("clone", sp)
  BY <1>1 DEF Slot, WhereOK, Here
<1>3. sp = 1 /\ stack[1] = ForkFrame(current) /\ 1 \in 1 .. MaxDepth
  BY <1>2, StackType DEF Fits, ForkPC
<1>4. stack'[1] = [ForkFrame(current) EXCEPT !.task = next_pid]
  BY <1>1, <1>3, StackType
<1>5. stack'[1].task = next_pid
  BY <1>4 DEF ForkFrame
<1>6. /\ current' = current /\ handed' = handed /\ Values' = Values /\ Queued' = Queued
      /\ current \in Queued /\ Queued \subseteq 1 .. next_pid - 1 /\ next_pid \in Nat
  BY <1>1 DEF running, Values, Queued, IInv, ListOK, ForkOK, InFork, TypeOK
<1>7. \A v \in Values : v < next_pid
  <2> SUFFICES ASSUME NEW i \in DOMAIN returned PROVE returned[i][2] < next_pid
    BY DEF Values
  <2>1. returned[i][2] = 0 \/ returned[i][2] \in Queued
    BY DEF Slot, ReturnedOK
  <2> QED
    BY <1>1, <1>6, <2>1 DEF Task
<1>8. WhereOK'
  <2>1. current < next_pid
    BY <1>6
  <2>2. stack'[1] = [ForkFrame(current') EXCEPT !.task = stack'[1].task]
    BY <1>4, <1>5, <1>6
  <2> QED
    BY <1>1, <1>3, <1>5, <1>6, <1>7, <2>1, <2>2 DEF WhereOK, Fits, Here, ForkPC, IrqPC
<1>9. WhoRuns' /\ ReturnedOK'
  BY <1>1, <1>6 DEF Slot, WhoRuns, ReturnedOK
<1>10. RecordsFit'
  <2>1. stack'[1].kind = "fork" /\ stack'[1].parent = current /\ stack[1].parent = current
        /\ stack[1].kind = "fork"
    BY <1>3, <1>4 DEF ForkFrame
  <2>2. handed = 0 => current = 1
    BY <1>3, <2>1 DEF Slot, RecordsFit
  <2>3. \A k \in 1 .. sp' : k = 1
    BY <1>1, <1>3
  <2> QED
    BY <1>6, <2>1, <2>2, <2>3 DEF RecordsFit
<1>11. ChildrenOK'
  <2> SUFFICES ASSUME handed = 0, NEW t \in Task \ {1}
               PROVE  /\ eip'[t] \in {"none", "forked"}
                      /\ eip'[t] = "forked" => esp'[t] = 1 /\ t \in Values
    <3>1. handed = 0 => eip'[1] # "forked"
      BY <1>1 DEF Slot, ChildrenOK, IInv, TypeOK, Task
    <3> QED
      BY <1>6, <3>1 DEF ChildrenOK
  <2>1. CASE t = next_pid
    BY <1>1, <2>1 DEF IInv, TypeOK
  <2>2. CASE t # next_pid
    <3>1. eip'[t] = eip[t] /\ esp'[t] = esp[t]
      BY <1>1, <2>2 DEF IInv, TypeOK
    <3>2. stack[1] # [ForkFrame(1) EXCEPT !.task = t]
      <4>1. stack[1].task = NULL /\ t # NULL
        BY <1>3 DEF ForkFrame, Task, NULL
      <4> QED
        BY <4>1 DEF ForkFrame
    <3> QED
      BY <3>1, <3>2 DEF Slot, ChildrenOK
  <2> QED
    BY <2>1, <2>2
<1> QED
  BY <1>8, <1>9, <1>10, <1>11 DEF Slot

LEMMA SlotForkEnqueue == ASSUME IInv, Slot, ForkEnqueue PROVE Slot'
<1>1. /\ UNCHANGED <<sp, stack, running, returned, eip, esp>>
      /\ queue' = Append(queue, Top.task) /\ queue \in Seq(Task)
      /\ pc = "enqueue" /\ pc' = "read_eip"
  BY DEF ForkEnqueue, Linked, IInv, TypeOK
<1>2. Queued' = Queued \cup {Top.task}
  <2>1. /\ DOMAIN queue' = 1 .. Len(queue) + 1 /\ DOMAIN queue = 1 .. Len(queue)
        /\ Len(queue) \in Nat
        /\ \A i \in 1 .. Len(queue) : queue'[i] = queue[i]
        /\ queue'[Len(queue) + 1] = Top.task
    BY <1>1
  <2> QED
    BY <2>1 DEF Queued
<1>3. Fits("enqueue", sp)
  BY <1>1 DEF Slot, WhereOK, Here
<1>4. sp = 1 /\ Top = stack[1]
  BY <1>3 DEF Fits, ForkPC, Top
<1>5. current' = current /\ handed' = handed /\ Values' = Values
  BY <1>1 DEF running, Values
<1>6. WhereOK'
  BY <1>1, <1>2, <1>3, <1>4, <1>5 DEF WhereOK, Fits, Here, ForkPC, IrqPC
<1>7. WhoRuns' /\ ReturnedOK' /\ ChildrenOK'
  BY <1>1, <1>2, <1>5 DEF Slot, WhoRuns, ReturnedOK, ChildrenOK, ForkFrame
<1>8. RecordsFit'
  <2>1. stack[1].kind = "fork" /\ \A k \in 1 .. sp' : k = 1
    <3>1. stack[1].kind = "fork"
      BY <1>3 DEF Fits, ForkFrame
    <3> QED
      BY <3>1, <1>1, <1>4
  <2> QED
    BY <1>1, <1>4, <1>5, <2>1 DEF Slot, RecordsFit
<1> QED
  BY <1>6, <1>7, <1>8 DEF Slot

LEMMA SlotForkParent == ASSUME IInv, Slot, ForkParent, handed <= 1 PROVE Slot'
<1>1. /\ UNCHANGED <<sp, stack, queue, running, returned>>
      /\ esp' = [esp EXCEPT ![Top.task] = sp]
      /\ eip' = [eip EXCEPT ![Top.task] = "forked"]
      /\ pc = "forked" /\ pc' = "leave" /\ OnTop("fork") /\ current = Top.parent
  BY DEF ForkParent, ChildEsp
<1>2. Fits(Here, sp) /\ sp = 1 /\ Top = stack[1]
  <2>1. Fits(Here, sp)
    BY <1>1 DEF Slot, WhereOK
  <2> QED
    BY <1>1, <2>1 DEF Fits, Here, ForkPC, Top
<1>3. Here = "read_eip"
  <2>1. SUFFICES ASSUME Here = "forked" PROVE FALSE
    BY <1>1 DEF Here
  <2>2. handed = 1 /\ stack[1].parent = 1
    BY <1>1, <1>2, <2>1 DEF Fits, OnTop
  <2> QED
    BY <1>1, <1>2, <2>2 DEF Slot, WhoRuns
<1>4. /\ Top = [ForkFrame(current) EXCEPT !.task = Top.task]
      /\ Top.task > current /\ Top.task \in Queued
      /\ \A v \in Values : v < Top.task
  BY <1>2, <1>3 DEF Fits
<1>5. current' = current /\ handed' = handed /\ Values' = Values /\ Queued' = Queued
  BY <1>1 DEF running, Values, Queued
<1>6. WhereOK'
  BY <1>1, <1>2, <1>4, <1>5 DEF WhereOK, Fits, Here, ForkPC, IrqPC
<1>7. WhoRuns' /\ ReturnedOK' /\ RecordsFit'
  BY <1>1, <1>5, RecordsKept, StackType DEF Slot, WhoRuns, ReturnedOK
<1>8. ChildrenOK'
  <2> SUFFICES ASSUME handed = 0, NEW t \in Task \ {1}
               PROVE  /\ eip'[t] \in {"none", "forked"}
                      /\ eip'[t] = "forked" =>
                           /\ esp'[t] = 1
                           /\ t \in Values \/ stack[1] = [ForkFrame(1) EXCEPT !.task = t]
    <3>1. handed = 0 => Top.task # 1
      <4>1. phase = "up"
        BY <1>1, <1>3 DEF Here, Made, IInv, ForkOK
      <4>2. current \in Task /\ Top.task \in Task
        BY <1>4, <4>1, QueuedType DEF IInv, ListOK, TypeOK
      <4> QED
        BY <1>4, <4>2, ConstantsAssumption DEF Slot, WhoRuns, Task, NULL
    <3>2. handed = 0 => eip'[1] # "forked"
      BY <1>1, <3>1 DEF Slot, ChildrenOK, IInv, TypeOK
    <3> QED
      BY <1>1, <1>2, <1>5, <3>2 DEF ChildrenOK, ForkFrame
  <2>1. current = 1
    <3>1. Made
      BY <1>1, <1>3 DEF Here
    <3>2. phase = "up"
      BY <3>1 DEF Made, IInv, ForkOK
    <3>3. current \in Task
      BY <3>2, QueuedType DEF IInv, ListOK, TypeOK
    <3> QED
      BY <3>3 DEF Slot, WhoRuns, Task, NULL
  <2>2. CASE t = Top.task
    BY <1>1, <1>2, <1>4, <2>1, <2>2 DEF IInv, TypeOK
  <2>3. CASE t # Top.task
    <3>1. eip'[t] = eip[t] /\ esp'[t] = esp[t]
      BY <1>1, <2>3 DEF IInv, TypeOK
    <3> QED
      BY <3>1 DEF Slot, ChildrenOK
  <2> QED
    BY <2>2, <2>3
<1> QED
  BY <1>6, <1>7, <1>8 DEF Slot

(* A return from Fork adds its value at the end.                           *)
LEMMA ReturnAdded ==
    ASSUME IInv, Slot, NEW v \in Task \cup {NULL}, current \in Task,
           returned' = Append(returned, <<current, v>>), UNCHANGED <<running, queue>>,
           IF v = NULL THEN handed = 1 /\ current = 2 /\ NULL \notin Values
           ELSE v \in Queued /\ current < v /\ \A w \in Values : w < v
    PROVE  ReturnedOK' /\ Values' = Values \cup {v}
<1> DEFINE n == Len(returned)
<1>1. /\ n \in Nat /\ DOMAIN returned = 1 .. n /\ DOMAIN returned' = 1 .. n + 1
      /\ \A i \in 1 .. n : returned'[i] = returned[i]
      /\ returned'[n + 1] = <<current, v>>
      /\ current' = current /\ handed' = handed /\ Queued' = Queued
  BY DEF IInv, TypeOK, running, Queued
<1> HIDE DEF n
<1>2. Values' = Values \cup {v}
  BY <1>1 DEF Values
<1>3. \A i \in 1 .. n : returned[i][2] \in Values
  BY <1>1 DEF Values
<1>4. ASSUME NEW i \in 1 .. n + 1
      PROVE  /\ IF returned'[i][2] = 0 THEN returned'[i][1] = 2 /\ handed = 1
                ELSE /\ returned'[i][2] \in Queued
                     /\ returned'[i][1] < returned'[i][2]
             /\ handed = 0 \/ returned'[i][2] = 2 => returned'[i][1] = 1
  <2>1. CASE i \in 1 .. n
    <3>1. returned'[i] = returned[i] /\ i \in DOMAIN returned
      BY <1>1, <2>1
    <3> QED
      BY <3>1 DEF Slot, ReturnedOK
  <2>2. CASE i = n + 1
    <3>1. returned'[i][1] = current /\ returned'[i][2] = v
      BY <1>1, <2>2
    <3>2. handed = 0 => current = 1
      BY DEF Slot, WhoRuns, Task, NULL
    <3>3. v = 2 => current = 1
      BY DEF Task, NULL
    <3> QED
      BY <3>1, <3>2, <3>3 DEF NULL
  <2> QED
    BY <1>1, <2>1, <2>2
<1>5. ASSUME NEW i \in 1 .. n + 1, NEW j \in 1 .. n + 1, i < j
      PROVE  /\ returned'[j][2] # returned'[i][2]
             /\ returned'[j][2] # 0 => returned'[i][2] < returned'[j][2]
  <2>1. i \in 1 .. n /\ returned'[i] = returned[i] /\ i \in DOMAIN returned
    BY <1>1, <1>5
  <2>2. CASE j \in 1 .. n
    <3>1. returned'[j] = returned[j] /\ j \in DOMAIN returned
      BY <1>1, <2>2
    <3> QED
      BY <1>5, <2>1, <3>1 DEF Slot, ReturnedOK
  <2>3. CASE j = n + 1
    <3>1. returned'[j][2] = v /\ returned'[i][2] \in Values
      BY <1>1, <1>3, <2>1, <2>3
    <3>2. CASE v = NULL
      BY <3>1, <3>2 DEF NULL
    <3>3. CASE v # NULL
      <4>1. PICK x \in Nat : x = returned'[i][2]
        <5>1. returned[i] \in (Task \cup {NULL}) \X (Task \cup {NULL})
          BY <2>1 DEF IInv, TypeOK
        <5> QED
          BY <2>1, <5>1, ConstantsAssumption DEF Task, NULL
      <4>2. PICK y \in Nat : y = v
        BY <3>3, ConstantsAssumption DEF Task
      <4>3. x < v
        <5>1. \A w \in Values : w < v
          BY <3>3
        <5>2. x \in Values
          BY <3>1, <4>1
        <5> QED
          BY <5>1, <5>2
      <4>4. x # y
        <5>1. x < y
          BY <4>2, <4>3
        <5> QED
          BY <5>1
      <4> QED
        BY <3>1, <4>1, <4>2, <4>3, <4>4
    <3> QED
      BY <3>2, <3>3
  <2> QED
    BY <1>1, <2>2, <2>3
<1>6. ReturnedOK'
  BY <1>1, <1>4, <1>5 DEF ReturnedOK
<1> QED
  BY <1>2, <1>6

LEMMA SlotForkReturn ==
    ASSUME IInv, Slot, handed <= 1, ForkParentReturn \/ ForkChildReturn
    PROVE  Slot'
<1>1. /\ pc \in {"leave", "forked"} /\ OnTop("fork")
      /\ UNCHANGED <<running, queue, eip, esp, stack, iflag>>
      /\ pc' = Top.ret /\ sp' = sp - 1
  BY DEF ForkParentReturn, ForkChildReturn, ForkReturn, Pop, tasks
<1>2. Fits(Here, sp) /\ sp = 1 /\ Top = stack[1] /\ Top \in Frame
  <2>1. Fits(Here, sp)
    BY <1>1 DEF Slot, WhereOK
  <2>2. sp = 1
    BY <1>1, <2>1 DEF Fits, Here, ForkPC
  <2> QED
    BY <2>1, <2>2, TopType DEF Top, IInv
<1>3. pc' = "run" /\ sp' = 0
  BY <1>1, <1>2, TopRecord DEF IInv, OnTop
<1>4. ~Made
  <2>1. SUFFICES ASSUME Made PROVE FALSE
    OBVIOUS
  <2>2. pc = "forked" /\ Top.parent = current
    BY <1>1, <2>1 DEF Made, InFork, IInv, ForkOK
  <2> QED
    BY <2>2 DEF ForkParentReturn, ForkChildReturn
<1>5. current' = current /\ handed' = handed /\ Queued' = Queued /\ current \in Task
  <2>1. phase = "up"
    <3>1. CASE handed = 1
      BY <3>1 DEF Slot, WhoRuns, IInv, ListOK, TypeOK, Phase, NULL
    <3>2. CASE handed # 1
      <4>1. pc = "leave" /\ Fits("leave", sp)
        BY <1>1, <1>2, <1>4, <3>2 DEF Fits, Here
      <4>2. Queued # {}
        BY <4>1 DEF Fits
      <4> QED
        BY <4>2 DEF IInv, ListOK, TypeOK, Phase, Queued
    <3> QED
      BY <3>1, <3>2
  <2>2. current \in Task
    BY <2>1, QueuedType DEF IInv, ListOK, TypeOK
  <2> QED
    BY <1>1, <2>2 DEF running, Queued
<1>6. PICK v \in Task \cup {NULL} :
          /\ returned' = Append(returned, <<current, v>>)
          /\ IF v = NULL THEN handed = 1 /\ current = 2 /\ NULL \notin Values
             ELSE v \in Queued /\ current < v /\ \A w \in Values : w < v
          /\ v = NULL \/ v = stack[1].task
          /\ handed = 0 => v = stack[1].task
  <2>1. CASE ForkParentReturn
    <3>1. pc = "leave" /\ returned' = Append(returned, <<current, Top.task>>)
      BY <2>1 DEF ForkParentReturn, ForkReturn
    <3>2. /\ Top.task > current /\ Top.task \in Queued
          /\ \A w \in Values : w < Top.task
      BY <1>2, <3>1 DEF Fits, Here
    <3>3. Top.task \in Task /\ Top.task # NULL
      BY <3>2, QueuedType DEF IInv, TypeOK, Task, NULL
    <3> QED
      BY <1>2, <3>1, <3>2, <3>3
  <2>2. CASE ForkChildReturn
    <3>1. pc = "forked" /\ returned' = Append(returned, <<current, NULL>>)
      BY <2>2 DEF ForkChildReturn, ForkReturn, NULL
    <3>2. handed = 1 /\ NULL \notin Values
      BY <1>2, <1>4, <3>1 DEF Fits, Here
    <3>3. current = 2
      BY <3>2 DEF Slot, WhoRuns
    <3> QED
      BY <3>1, <3>2, <3>3
  <2> QED
    BY <2>1, <2>2
<1>7. ReturnedOK' /\ Values' = Values \cup {v}
  BY <1>1, <1>5, <1>6, ReturnAdded
<1>8. WhoRuns' /\ WhereOK' /\ RecordsFit'
  BY <1>3, <1>5 DEF Slot, WhoRuns, WhereOK, RecordsFit, Fits, Here, Made, InFork, ForkPC, IrqPC
<1>9. ChildrenOK'
  <2> SUFFICES ASSUME handed = 0, NEW t \in Task \ {1}, eip[t] = "forked"
               PROVE  t \in Values \cup {v}
    BY <1>1, <1>5, <1>7 DEF Slot, ChildrenOK
  <2>1. t \in Values \/ stack[1] = [ForkFrame(1) EXCEPT !.task = t]
    BY DEF Slot, ChildrenOK
  <2>2. stack[1] = [ForkFrame(1) EXCEPT !.task = t] => stack[1].task = t
    BY DEF ForkFrame
  <2> QED
    BY <1>6, <2>1, <2>2
<1> QED
  BY <1>7, <1>8, <1>9 DEF Slot

-----------------------------------------------------------------------------
LEMMA HandedOnce == IInv /\ [Next]_vars => handed <= 1 \/ handed' > 1
<1> SUFFICES ASSUME IInv, [Next]_vars, handed > 1 PROVE handed' > 1
  BY StackType
<1>1. handed = 2
  BY StackType
<1>2. CASE OnTick
  BY <1>1, <1>2 DEF OnTick, Switch, running
<1>3. CASE ~OnTick
  BY <1>1, <1>3
  DEF Next, Irq, Boot, Fork, Pit, Interrupt, Eoi, NoHandler, OnTickEnd,
      TimerInitialize, InitializeCli, InitializeCurrent, InitializeQueue, ForkCli,
      ForkClone, ForkEnqueue, ForkReadEip, ForkParent, ForkParentReturn, ForkChildReturn,
      ForkReturn, TimerShutdown, ExecVE, Calls, GoAstray, Stray, running, vars
<1> QED
  BY <1>2, <1>3

LEMMA SlotInductive == Spec => []SlotInv
<1>1. IInv /\ OrderInv /\ SlotInv /\ [Next]_vars => SlotInv'
  <2> SUFFICES ASSUME IInv, OrderInv, SlotInv, [Next]_vars, handed' <= 1
               PROVE  Slot'
    BY DEF SlotInv, FirstSlot
  <2>1. handed <= 1 /\ handed' <= 1 /\ Slot
    <3>1. handed' \in 0 .. 2 /\ handed \in 0 .. 2
      <4>1. IInv'
        BY NextIInv
      <4> QED
        BY <4>1 DEF IInv, TypeOK
    <3> QED
      BY <3>1, HandedOnce DEF SlotInv, FirstSlot
  <2>2. CASE Pit \/ TimerShutdown \/ UNCHANGED vars
    <3>1. UNCHANGED <<iflag, pc, sp, stack, running, returned, queue, eip, esp>>
      BY <2>2 DEF Pit, TimerShutdown, vars, cpu, tasks
    <3>2. WhereOK'
      BY <2>1, <3>1 DEF Slot, WhereOK, Fits, Here, Made, InFork, running, Values, Queued
    <3> QED
      BY <2>1, <3>1, <3>2, SlotStay
  <2>3. CASE Interrupt
    BY <2>1, <2>3, SlotInterrupt
  <2>4. CASE Eoi
    BY <2>1, <2>4, SlotInIrq
  <2>5. CASE NoHandler \/ OnTickEnd
    BY <2>1, <2>5, SlotIret DEF NoHandler, OnTickEnd, tasks
  <2>6. CASE OnTick
    BY <2>1, <2>6, SlotInIrq, SlotSwitch
  <2>7. CASE Boot
    BY <2>1, <2>7, SlotBoot
  <2>8. CASE Fork
    BY <2>1, <2>8, SlotForkCli, SlotForkClone, SlotForkEnqueue, SlotForkReadEip,
       SlotForkParent, SlotForkReturn DEF Fork
  <2>9. CASE ExecVE
    BY <2>1, <2>9, SlotExecVE
  <2>10. CASE Calls
    BY <2>1, <2>10, SlotCalls
  <2>11. CASE GoAstray
    BY <2>1, <2>11, SlotAstray
  <2> QED
    BY <2>2, <2>3, <2>4, <2>5, <2>6, <2>7, <2>8, <2>9, <2>10, <2>11 DEF Next, Irq, Stray
<1> QED
  BY <1>1, SlotInit, Inductive, OrderInductive, PTL DEF Spec

(* However ticks and Forks interleave until the first child is switched    *)
(* away from, each Fork hands its caller the pid of the task it made, the  *)
(* child gets 0 once, and nothing returns through a foreign record unless  *)
(* the parent had left the child's Fork before the child ran.              *)
THEOREM AlwaysForkReturns == Spec => []ForkReturns
<1>1. IInv /\ SlotInv => ForkReturns
  <2> SUFFICES ASSUME IInv, SlotInv, FirstSlot PROVE
        /\ \A i \in DOMAIN returned :
              IF returned[i][2] = 0 THEN returned[i][1] = 2
              ELSE /\ returned[i][2] \in Queued
                   /\ returned[i][1] < returned[i][2]
        /\ \A i, j \in DOMAIN returned :
              i < j => /\ returned[j][2] # returned[i][2]
                       /\ returned[j][2] # 0 => returned[i][2] < returned[j][2]
        /\ pc = "astray" => \E i \in DOMAIN returned : returned[i] = <<1, 2>>
    BY DEF ForkReturns
  <2>1. ReturnedOK /\ (pc = "astray" => 2 \in Values)
    BY DEF SlotInv, Slot, WhereOK
  <2>2. ASSUME pc = "astray" PROVE \E i \in DOMAIN returned : returned[i] = <<1, 2>>
    <3>1. PICK i \in DOMAIN returned : returned[i][2] = 2
      BY <2>1, <2>2 DEF Values
    <3>2. returned[i][1] = 1 /\ returned[i] \in (Task \cup {NULL}) \X (Task \cup {NULL})
      BY <2>1, <3>1 DEF ReturnedOK, IInv, TypeOK
    <3> QED
      BY <3>1, <3>2
  <2> QED
    BY <2>1, <2>2 DEF ReturnedOK
<1> QED
  BY <1>1, SlotInductive, Inductive, PTL

(* A child that gets the processor while its parent is still in Fork finds *)
(* at its saved esp the record with that Fork's parent and child.          *)
THEOREM AlwaysChildContext == Spec => []ChildContext
<1>1. IInv /\ OrderInv /\ SlotInv => ChildContext
  <2> SUFFICES ASSUME IInv, OrderInv, SlotInv, Alone, NEW t \in Queued, eip[t] = "forked",
                      \A i \in DOMAIN returned : returned[i][2] # t
               PROVE  /\ esp[t] \in 1 .. sp
                      /\ stack[esp[t]] = [ForkFrame(1) EXCEPT !.task = t]
    BY DEF ChildContext
  <2>1. Slot /\ handed = 0 /\ t \notin Values
    BY DEF SlotInv, FirstSlot, Alone, Values
  <2>2. t \in Task \ {1}
    <3>1. t \in Task
      BY QueuedType DEF IInv, TypeOK
    <3> QED
      BY <2>1, <3>1 DEF Slot, ChildrenOK
  <2>3. esp[t] = 1 /\ sp > 0 /\ stack[1] = [ForkFrame(1) EXCEPT !.task = t]
    BY <2>1, <2>2 DEF Slot, ChildrenOK
  <2> QED
    BY <2>3, StackType
<1> QED
  BY <1>1, SlotInductive, OrderInductive, Inductive, PTL

-----------------------------------------------------------------------------
(* Arithmetic of the tick counters, which wrap.                            *)
Rem(a) == a % TickMod

LEMMA RemDivision ==
    ASSUME NEW a \in Int
    PROVE  /\ Rem(a) \in 0 .. TickMod - 1
           /\ \E k \in Int : a = TickMod * k + Rem(a)
<1>1. /\ a % TickMod \in 0 .. TickMod - 1 /\ a \div TickMod \in Int
      /\ a = TickMod * (a \div TickMod) + (a % TickMod)
  BY ConstantsAssumption
<1> QED
  BY <1>1 DEF Rem

LEMMA RemUnique ==
    ASSUME NEW q \in Int, NEW r \in 0 .. TickMod - 1
    PROVE  Rem(TickMod * q + r) = r
BY ConstantsAssumption DEF Rem

LEMMA RemShift ==
    ASSUME NEW a \in Int, NEW b \in Int, NEW q \in Int, a = b + TickMod * q
    PROVE  Rem(a) = Rem(b)
<1>1. PICK k \in Int : b = TickMod * k + Rem(b)
  BY RemDivision
<1>2. PICK r \in 0 .. TickMod - 1 : r = Rem(b)
  BY RemDivision
<1>3. PICK j \in Int : j = k + q
  OBVIOUS
<1>4. a = TickMod * j + r
  <2>1. TickMod * (k + q) = TickMod * k + TickMod * q
    BY ConstantsAssumption
  <2>2. TickMod * k \in Int /\ TickMod * q \in Int
    BY ConstantsAssumption
  <2> QED
    BY <1>1, <1>2, <1>3, <2>1, <2>2
<1> QED
  BY <1>2, <1>4, RemUnique

LEMMA RemPlus ==
    ASSUME NEW a \in Int, NEW b \in Int, NEW c \in Int, Rem(a) = Rem(b)
    PROVE  Rem(a + c) = Rem(b + c)
<1>1. PICK i \in Int : a = TickMod * i + Rem(a)
  BY RemDivision
<1>2. PICK j \in Int : b = TickMod * j + Rem(b)
  BY RemDivision
<1>3. Rem(a) \in Int
  BY RemDivision
<1>4. PICK q \in Int : q = i - j
  OBVIOUS
<1>5. PICK x \in Int : x = a + c
  OBVIOUS
<1>6. PICK y \in Int : y = b + c
  OBVIOUS
<1>7. x = y + TickMod * q
  <2>1. TickMod * (i - j) = TickMod * i - TickMod * j
    BY ConstantsAssumption
  <2>2. TickMod * i \in Int /\ TickMod * j \in Int
    BY ConstantsAssumption
  <2> QED
    BY <1>1, <1>2, <1>3, <1>4, <1>5, <1>6, <2>1, <2>2
<1> QED
  BY <1>5, <1>6, <1>7, RemShift

LEMMA RemRem == \A a \in Int : Rem(a) \in Int /\ Rem(Rem(a)) = Rem(a)
<1> TAKE a \in Int
<1>1. PICK r \in 0 .. TickMod - 1 : r = Rem(a)
  BY RemDivision
<1>2. TickMod * 0 + r = r /\ 0 \in Int
  BY ConstantsAssumption
<1>3. Rem(r) = r
  BY <1>2, RemUnique
<1> QED
  BY <1>1, <1>3

(* The two counters step like integers.                                    *)
LEMMA RemSteps ==
    ASSUME NEW t \in Int, NEW u \in Int, NEW n \in Int, Rem(t - u) = Rem(n)
    PROVE  /\ Rem(Rem(t + 1) - u) = Rem(n + 1)
           /\ Rem(t - Rem(u + 1)) = Rem(n - 1)
<1>1. PICK d \in Int : d = t - u
  OBVIOUS
<1>2. PICK x \in Int : x = Rem(t + 1) /\ Rem(x) = Rem(t + 1)
  BY RemRem
<1>3. PICK y \in Int : y = Rem(u + 1) /\ Rem(y) = Rem(u + 1)
  BY RemRem
<1>4. Rem(x - u) = Rem(n + 1)
  <2>1. Rem(x + (-u)) = Rem((t + 1) + (-u))
    <3>1. PICK p \in Int, m \in Int : p = t + 1 /\ m = -u
      OBVIOUS
    <3>2. Rem(x) = Rem(p)
      BY <1>2, <3>1
    <3>3. Rem(x + m) = Rem(p + m)
      BY <3>2, RemPlus, ZenonT(30)
    <3> QED
      BY <3>1, <3>3
  <2>2. Rem(d + 1) = Rem(n + 1)
    BY <1>1, RemPlus
  <2>3. x - u = x + (-u) /\ (t + 1) + (-u) = d + 1
    BY <1>1
  <2> QED
    BY <2>1, <2>2, <2>3
<1>5. Rem(t - y) = Rem(n - 1)
  <2>1. PICK e \in Int : e = (t - y) - (u + 1)
    OBVIOUS
  <2>2. Rem((u + 1) + e) = Rem(y + e)
    <3>1. PICK p \in Int : p = u + 1
      OBVIOUS
    <3>2. Rem(p) = Rem(y)
      BY <1>3, <3>1
    <3>3. Rem(p + e) = Rem(y + e)
      BY <3>2, RemPlus, ZenonT(30)
    <3> QED
      BY <3>1, <3>3
  <2>3. Rem(d + (-1)) = Rem(n + (-1))
    BY <1>1, RemPlus
  <2>4. (u + 1) + e = t - y /\ y + e = d + (-1) /\ n + (-1) = n - 1
    BY <1>1, <2>1
  <2> QED
    BY <2>2, <2>3, <2>4
<1> QED
  BY <1>2, <1>3, <1>4, <1>5

-----------------------------------------------------------------------------
(* Depth d holds an activation of OnTick that has not returned.            *)
IsPending(d) == d <= Depth /\ stack[d].kind = "tick"

LEMMA PendingFinite == IsFiniteSet(Pending) /\ Cardinality(Pending) \in Nat
<1>1. IsFiniteSet(1 .. MaxDepth)
  BY FS_Interval, ConstantsAssumption
<1>2. Pending \in SUBSET (1 .. MaxDepth)
  BY DEF Pending
<1> QED
  BY <1>1, <1>2, FS_Subset, FS_CardinalityType

LEMMA PendingKept ==
    ASSUME \A k \in 1 .. MaxDepth : IsPending(k)' <=> IsPending(k)
    PROVE  Pending' = Pending
BY DEF Pending, IsPending

LEMMA TickAdded ==
    ASSUME IInv, NoTickLost, Alone, NEW d \in 1 .. MaxDepth, ~IsPending(d),
           \A k \in 1 .. MaxDepth : IsPending(k)' <=> IsPending(k) \/ k = d,
           tick' = (tick + 1) % TickMod, tails' = tails
    PROVE  NoTickLost'
<1>1. Pending' = Pending \cup {d} /\ d \notin Pending
  BY DEF Pending, IsPending
<1>2. Cardinality(Pending') = Cardinality(Pending) + 1
  BY <1>1, PendingFinite, FS_AddElement
<1>3. tick \in Int /\ tails \in Int
  BY DEF IInv, TypeOK
<1>4. Rem(tick - tails) = Rem(Cardinality(Pending))
  BY DEF NoTickLost, Rem
<1>5. Rem(Rem(tick + 1) - tails) = Rem(Cardinality(Pending) + 1)
  BY <1>3, <1>4, PendingFinite, RemSteps, SMTT(30)
<1> QED
  BY <1>2, <1>5 DEF NoTickLost, Rem

LEMMA TickRemoved ==
    ASSUME IInv, NoTickLost, Alone, NEW d \in 1 .. MaxDepth, IsPending(d),
           \A k \in 1 .. MaxDepth : IsPending(k)' <=> IsPending(k) /\ k # d,
           tick' = tick, tails' = (tails + 1) % TickMod
    PROVE  NoTickLost'
<1>1. Pending' = Pending \ {d} /\ d \in Pending
  BY DEF Pending, IsPending
<1>2. Cardinality(Pending') = Cardinality(Pending) - 1
  BY <1>1, PendingFinite, FS_RemoveElement
<1>3. tick \in Int /\ tails \in Int
  BY DEF IInv, TypeOK
<1>4. Rem(tick - tails) = Rem(Cardinality(Pending))
  BY DEF NoTickLost, Rem
<1>5. Rem(tick - Rem(tails + 1)) = Rem(Cardinality(Pending) - 1)
  BY <1>3, <1>4, PendingFinite, RemSteps, SMTT(30)
<1> QED
  BY <1>2, <1>5 DEF NoTickLost, Rem

(* A step that counts nothing and touches no pending record.               *)
LEMMA TicksKept ==
    ASSUME NoTickLost, Alone, tick' = tick, tails' = tails,
           \A k \in 1 .. MaxDepth : IsPending(k)' <=> IsPending(k)
    PROVE  NoTickLost'
BY PendingKept DEF NoTickLost

LEMMA TicksInit == Init => NoTickLost
<1> SUFFICES ASSUME Init PROVE NoTickLost
  OBVIOUS
<1>1. Pending = {}
  BY DEF Init, Pending, NoFrame
<1>2. Cardinality(Pending) = 0 /\ tick - tails = 0
  BY <1>1, FS_EmptySet DEF Init
<1> QED
  BY <1>2 DEF NoTickLost

-----------------------------------------------------------------------------
(* The records of the interrupt path while the first task is alone.        *)
LEMMA TickOnTop ==
    ASSUME IInv, Slot, pc \in IrqPC
    PROVE  sp \in 1 .. MaxDepth /\ stack[sp].kind = "tick"
<1>1. Fits(pc, sp) /\ pc \notin {"run", "entry"}
  BY DEF Slot, WhereOK, Here, IrqPC
<1> QED
  BY <1>1, StackType DEF Fits

LEMMA TicksIrq ==
    ASSUME IInv, Slot, NoTickLost, Alone, Alone', Irq PROVE NoTickLost'
<1> USE StackType
<1>1. CASE Interrupt
  <2>1. /\ Depth' = Depth /\ Depth = sp /\ tick' = tick /\ tails' = tails
        /\ \A k \in 1 .. MaxDepth : k <= sp => stack'[k] = stack[k]
    <3>1. pc \notin {"irq", "handler"}
      BY <1>1 DEF Interrupt, IInv, FlagOK, CliPC
    <3> QED
      BY <1>1, <3>1 DEF Interrupt, Push, Depth, timer
  <2> QED
    BY <2>1, TicksKept DEF IsPending
<1>2. CASE Eoi
  <2>1. Depth' = Depth /\ tick' = tick /\ tails' = tails /\ stack' = stack
    BY <1>2 DEF Eoi, Depth, timer
  <2> QED
    BY <2>1, TicksKept DEF IsPending
<1>3. CASE NoHandler
  <2>1. Depth' = sp - 1 /\ Depth = sp - 1 /\ tick' = tick /\ tails' = tails /\ stack' = stack
    <3>1. Iret /\ pc = "handler" /\ tick' = tick /\ tails' = tails
      BY <1>3 DEF NoHandler, timer
    <3>2. pc' \notin {"irq", "handler"} /\ stack' = stack /\ sp' = sp - 1
      BY <3>1, IretTyped DEF CliPC, Iret, Pop
    <3> QED
      BY <3>1, <3>2 DEF Depth
  <2> QED
    BY <2>1, TicksKept DEF IsPending
<1>4. CASE OnTick
  <2>1. sp \in 1 .. MaxDepth /\ stack[sp].kind = "tick" /\ Depth = sp - 1
    BY <1>4, TickOnTop DEF OnTick, IrqPC, Depth
  <2>2. /\ sp' = sp /\ pc' = "tail" /\ stack' = stack
        /\ tick' = (tick + 1) % TickMod /\ tails' = tails
    <3>1. CASE current = NULL
      BY <1>4, <3>1 DEF OnTick
    <3>2. CASE current # NULL
      <4>1. /\ eip' = [eip EXCEPT ![current] = "tail"] /\ esp' = [esp EXCEPT ![current] = sp]
            /\ NextOf(current) = current /\ pc' = eip'[NextOf(current)]
            /\ sp' = esp'[NextOf(current)] /\ stack' = stack
            /\ tick' = (tick + 1) % TickMod /\ tails' = tails
        BY <1>4, <3>2 DEF OnTick, Switch, SavedEsp, Alone
      <4>2. current \in Task /\ eip \in [Task -> Eip] /\ esp \in [Task -> 0 .. MaxDepth]
        BY <3>2 DEF IInv, TypeOK
      <4> QED
        BY <4>1, <4>2
    <3> QED
      BY <3>1, <3>2
  <2>3. Depth' = sp
    BY <2>2 DEF Depth
  <2>4. ~IsPending(sp)
    BY <2>1 DEF IsPending
  <2>5. \A k \in 1 .. MaxDepth : IsPending(k)' <=> IsPending(k) \/ k = sp
    BY <2>1, <2>2, <2>3 DEF IsPending
  <2> QED
    BY <2>1, <2>2, <2>4, <2>5, TickAdded
<1>5. CASE OnTickEnd
  <2>1. sp \in 1 .. MaxDepth /\ stack[sp].kind = "tick" /\ Depth = sp
    BY <1>5, TickOnTop DEF OnTickEnd, IrqPC, Depth
  <2>2. Iret /\ tick' = tick /\ tails' = (tails + 1) % TickMod
    BY <1>5 DEF OnTickEnd
  <2>3. pc' \notin {"irq", "handler"} /\ stack' = stack /\ sp' = sp - 1
    BY <2>2, IretTyped DEF CliPC, Iret, Pop
  <2>4. Depth' = sp - 1
    BY <2>3 DEF Depth
  <2>5. IsPending(sp)
    BY <2>1 DEF IsPending
  <2>6. \A k \in 1 .. MaxDepth : IsPending(k)' <=> IsPending(k) /\ k # sp
    BY <2>1, <2>3, <2>4 DEF IsPending
  <2> QED
    BY <2>1, <2>2, <2>5, <2>6, TickRemoved
<1> QED
  BY <1>1, <1>2, <1>3, <1>4, <1>5 DEF Irq

(* Fork's record is no tick, and nothing else outside the interrupt path   *)
(* touches the records of the running code.                                *)
LEMMA TicksFork ==
    ASSUME IInv, Slot, NoTickLost, Alone, Fork PROVE NoTickLost'
<1> USE StackType
<1>1. /\ tick' = tick /\ tails' = tails
      /\ pc \notin {"irq", "handler"}
  BY DEF Fork, ForkCli, ForkClone, ForkEnqueue, ForkReadEip, ForkParent, ForkParentReturn,
         ForkChildReturn, ForkReturn, timer
<1>2. pc' \notin {"irq", "handler"}
  <2>1. CASE ForkParentReturn \/ ForkChildReturn
    BY <2>1, TopRecord DEF ForkParentReturn, ForkChildReturn, ForkReturn, OnTop, IInv
  <2> QED
    BY <2>1 DEF Fork, ForkCli, ForkClone, ForkEnqueue, ForkReadEip, ForkParent
<1>3. Depth = sp /\ Depth' = sp'
  BY <1>1, <1>2 DEF Depth
<1>4. CASE ForkCli
  <2>1. /\ sp' = sp + 1 /\ sp + 1 \in 1 .. MaxDepth /\ stack'[sp + 1].kind # "tick"
        /\ \A k \in 1 .. MaxDepth : k <= sp => stack'[k] = stack[k]
    BY <1>4 DEF ForkCli, Push, ForkFrame
  <2>2. \A k \in 1 .. MaxDepth : k <= sp + 1 => k <= sp \/ k = sp + 1
    OBVIOUS
  <2> QED
    BY <1>1, <1>3, <2>1, <2>2, TicksKept DEF IsPending
<1>5. CASE ForkClone
  <2>1. stack' = [stack EXCEPT ![sp].task = next_pid] /\ sp' = sp
    BY <1>5 DEF ForkClone, KeepLocal
  <2>2. \A k \in 1 .. MaxDepth : stack'[k].kind = stack[k].kind
    BY <2>1 DEF Frame
  <2> QED
    BY <1>1, <1>3, <2>1, <2>2, TicksKept DEF IsPending
<1>6. CASE ForkEnqueue \/ ForkReadEip \/ ForkParent
  <2>1. stack' = stack /\ sp' = sp
    BY <1>6 DEF ForkEnqueue, ForkReadEip, ForkParent
  <2> QED
    BY <1>1, <1>3, <2>1, TicksKept DEF IsPending
<1>7. CASE ForkParentReturn \/ ForkChildReturn
  <2>1. stack' = stack /\ sp' = sp - 1 /\ sp > 0 /\ stack[sp].kind # "tick"
    BY <1>7 DEF ForkParentReturn, ForkChildReturn, ForkReturn, Pop, OnTop, Top
  <2>2. \A k \in 1 .. MaxDepth : k <= sp => k <= sp - 1 \/ k = sp
    OBVIOUS
  <2> QED
    BY <1>1, <1>3, <2>1, <2>2, TicksKept DEF IsPending
<1> QED
  BY <1>4, <1>5, <1>6, <1>7 DEF Fork

(* No tick is lost while the first task is alone: every OnTick that has    *)
(* been entered has returned or is on the stack, for every width of the    *)
(* counter.                                                                *)
THEOREM AlwaysNoTickLost == Spec => []NoTickLost
<1>1. IInv /\ SlotInv /\ NoTickLost /\ [Next]_vars => NoTickLost'
  <2> SUFFICES ASSUME IInv, SlotInv, NoTickLost, [Next]_vars, Alone' PROVE NoTickLost'
    BY DEF NoTickLost
  <2>1. Alone /\ Slot
    <3>1. handed \in 0 .. 2 /\ handed' = 0
      BY StackType DEF Alone
    <3>2. CASE OnTick
      BY <3>1, <3>2 DEF OnTick, Switch, running, Alone, SlotInv, FirstSlot
    <3>3. CASE ~OnTick
      <4>1. handed' = handed
        BY <3>3
        DEF Next, Irq, Boot, Fork, Pit, Interrupt, Eoi, NoHandler, OnTickEnd,
            TimerInitialize, InitializeCli, InitializeCurrent, InitializeQueue, ForkCli,
            ForkClone, ForkEnqueue, ForkReadEip, ForkParent, ForkParentReturn,
            ForkChildReturn, ForkReturn, TimerShutdown, ExecVE, Calls, GoAstray, Stray,
            running, vars
      <4> QED
        BY <3>1, <4>1 DEF Alone, SlotInv, FirstSlot
    <3> QED
      BY <3>2, <3>3
  <2>2. CASE Irq
    BY <2>1, <2>2, TicksIrq
  <2>3. CASE Fork
    BY <2>1, <2>3, TicksFork
  <2>4. CASE Pit \/ TimerShutdown \/ ExecVE \/ Boot \/ UNCHANGED vars
    <3>1. pc' = pc /\ sp' = sp /\ stack' = stack /\ tick' = tick /\ tails' = tails
      BY <2>4 DEF Pit, TimerShutdown, ExecVE, Boot, TimerInitialize, InitializeCli,
                  InitializeCurrent, InitializeQueue, cpu, timer, vars
    <3> QED
      BY <2>1, <3>1, TicksKept DEF IsPending, Depth
  <2>5. CASE Calls
    <3>1. pc' = pc /\ sp' = sp /\ tick' = tick /\ tails' = tails
      BY <2>5 DEF Calls, timer
    <3>2. Depth' = Depth /\ Depth <= sp
      BY <3>1, StackType DEF Depth
    <3>3. \A k \in 1 .. MaxDepth : k <= Depth => stack'[k] = stack[k]
      BY <2>5, <3>2, CallsTyped, StackType DEF Depth
    <3> QED
      BY <2>1, <3>1, <3>2, <3>3, TicksKept DEF IsPending
  <2>6. CASE GoAstray
    <3>1. pc' \notin {"irq", "handler"} /\ pc \notin {"irq", "handler"} /\ sp' = sp
          /\ stack' = stack /\ tick' = tick /\ tails' = tails
      BY <2>6 DEF GoAstray, timer
    <3> QED
      BY <2>1, <3>1, TicksKept DEF IsPending, Depth
  <2> QED
    BY <2>2, <2>3, <2>4, <2>5, <2>6 DEF Next, Stray
<1> QED
  BY <1>1, TicksInit, SlotInductive, Inductive, PTL DEF Spec
=============================================================================
