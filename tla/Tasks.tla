------------------------------- MODULE Tasks -------------------------------
(***************************************************************************)
(* The preemptive scheduler of the kernel: process::Initialize, Fork,      *)
(* Switch and ExecVE (process/task.cc) driven by the timer interrupt       *)
(* (interrupt/irq.s, isr.cc, timer.cc).                                    *)
(*                                                                         *)
(* There is one CPU.  Its registers that matter are the interrupt flag,    *)
(* the program counter and the stack pointer.                              *)
(*                                                                         *)
(* There is one stack, and all tasks run on it.  process::Initialize moves *)
(* it to 0xDFFFE000..0xE0000000 (task.cc:14-15, 118); the page table of    *)
(* that range is one of those paging::Initialize makes in the kernel's own *)
(* directory (paging.cc:144-145), and Directory::Clone links such a table  *)
(* instead of copying it (paging.cc:247-250), so a forked task's directory *)
(* maps the very frames its parent's stack lies in.  For this module it    *)
(* therefore does not matter which directory is loaded (module Paging has  *)
(* them).  A call or an interrupt writes an activation record above the    *)
(* stack pointer and a return reads the one at the stack pointer, so code  *)
(* that resumes on records somebody else has written is visible as such.   *)
(* Everything here runs in ring 0.                                         *)
(***************************************************************************)
EXTENDS Integers, Sequences, FiniteSets

CONSTANTS
    MaxTasks,      \* bound: how many tasks are ever created (with the first)
    MaxDepth,      \* bound: activation records the stack holds
    TickMod        \* the tick counter wraps here (2^32 in the code)

ASSUME ConstantsAssumption ==
    /\ MaxTasks \in Nat \ {0}
    /\ MaxDepth \in Nat \ {0}
    /\ TickMod \in Nat \ {0}

VARIABLES
    phase,         \* how far main() is: "up" once process::Initialize is done
    iflag,         \* CPU: the interrupt flag
    irr,           \* PIC: IRQ0 is latched and waits for delivery
    inService,     \* PIC: IRQ0 was delivered and no EOI has arrived
    handler,       \* isr::handlers[IRQ0] is OnTick
    tick,          \* timer's tick counter
    tails,         \* ghost: OnTick activations that have returned
    pc,            \* CPU: where the running code is
    sp,            \* CPU: number of records below the stack pointer
    stack,         \* memory of the stack: a record at each depth
    current,       \* process::current, 0 is NULL
    queue,         \* process::queue, the linked list as a sequence
    next_pid,      \* Task::next_pid
    eip,           \* Task::eip: where a task resumes, "none" is 0
    esp,           \* Task::esp
    handed,        \* ghost: switches from one task to another, at most 2
    returned       \* ghost: <<pid, value>> of each return from Fork, in order

cpu     == <<iflag, pc, sp, stack>>
pic     == <<irr, inService>>
timer   == <<handler, tick, tails>>
tasks   == <<queue, next_pid, eip, esp>>
running == <<current, handed>>
vars    == <<phase, cpu, pic, timer, tasks, running, returned>>

-----------------------------------------------------------------------------
Task   == 1 .. MaxTasks
NULL   == 0

(* Control points.  "run" is a program's own code (main() at first);       *)
(* "clone" to "leave" are inside Fork; "irq" to "tail" are inside the      *)
(* interrupt; "entry" is a program ExecVE loaded.  "astray" is code that   *)
(* returned through, or read its locals from, something else than its own  *)
(* kind of record: what runs then depends on what lies in memory.          *)
Phase  == {"boot", "timer", "cli", "current", "up"}
ForkPC == {"clone", "enqueue", "read_eip", "forked", "leave"}
IrqPC  == {"irq", "handler", "tail"}
Code   == {"run", "entry"} \cup ForkPC \cup IrqPC
PC     == Code \cup {"astray"}
Eip    == {"none", "tail", "forked", "entry"}

(* Activation records: an interrupted point, or a call of Fork with its    *)
(* two locals.  Every record has all the fields.                           *)
Frame  == [kind : {"none", "tick", "fork"}, ret : Code,
           parent : Task \cup {NULL}, task : Task \cup {NULL}]

NoFrame       == [kind |-> "none", ret |-> "run", parent |-> NULL, task |-> NULL]
TickFrame(at) == [kind |-> "tick", ret |-> at, parent |-> NULL, task |-> NULL]
ForkFrame(t)  == [kind |-> "fork", ret |-> "run", parent |-> t, task |-> NULL]

Top      == stack[sp]
OnTop(k) == sp > 0 /\ Top.kind = k

Push(f) ==
    /\ sp < MaxDepth
    /\ sp' = sp + 1
    /\ stack' = [stack EXCEPT ![sp + 1] = f]

Pop ==
    /\ sp' = sp - 1
    /\ UNCHANGED stack

(* task.cc:214-217: the next of the list, or its first.                    *)
NextOf_AlwaysFirst(t) == queue[1]               \* mutation
NextOf(t) ==
    LET i == CHOOSE i \in DOMAIN queue : queue[i] = t
    IN  IF i = Len(queue) THEN queue[1] ELSE queue[i + 1]

Queued == {queue[i] : i \in DOMAIN queue}

-----------------------------------------------------------------------------
(* main() has executed sti (main.cc:26) and no task exists.                *)
Init ==
    /\ phase = "boot"
    /\ iflag = TRUE /\ irr = FALSE /\ inService = FALSE
    /\ handler = FALSE /\ tick = 0 /\ tails = 0
    /\ pc = "run" /\ sp = 0
    /\ stack = [d \in 1 .. MaxDepth |-> NoFrame]
    /\ current = NULL /\ queue = <<>> /\ next_pid = 1
    /\ eip = [t \in Task |-> "none"]
    /\ esp = [t \in Task |-> 0]
    /\ handed = 0
    /\ returned = <<>>

-----------------------------------------------------------------------------
(* The hardware.                                                           *)

(* The PIT raises IRQ0; one request is latched, more are lost.             *)
Pit ==
    /\ ~irr
    /\ irr' = TRUE
    /\ UNCHANGED <<phase, cpu, inService, timer, tasks, running, returned>>

(* The CPU takes the interrupt: the gate and the stub clear the flag and   *)
(* the stub's pushes record where the running code was.                    *)
Interrupt ==
    /\ iflag /\ irr /\ ~inService /\ pc # "astray"
    /\ Push(TickFrame(pc))
    /\ irr' = FALSE
    /\ inService' = TRUE
    /\ iflag' = FALSE
    /\ pc' = "irq"
    /\ UNCHANGED <<phase, timer, tasks, running, returned>>

-----------------------------------------------------------------------------
(* The interrupt path.                                                     *)

(* irq_handler acknowledges first, because the handler need not come back. *)
Acknowledge_Never == UNCHANGED inService        \* mutation
Acknowledge == inService' = FALSE

Eoi ==
    /\ pc = "irq"
    /\ Acknowledge
    /\ pc' = "handler"
    /\ UNCHANGED <<phase, iflag, sp, stack, irr, timer, tasks, running, returned>>

(* The end of irq_common_stub: popa, sti, iret.                            *)
Iret ==
    /\ OnTop("tick")
    /\ pc' = Top.ret
    /\ iflag' = TRUE
    /\ Pop

NoHandler ==
    /\ pc = "handler" /\ ~handler
    /\ Iret
    /\ UNCHANGED <<phase, pic, timer, tasks, running, returned>>

(* Switch, up to the jump: the caller's context is saved, the next task's  *)
(* loaded.  It runs with the flag clear until its own sti.                 *)
SavedEsp_OfCaller == sp - 1                     \* mutation
SavedEsp == sp

Switch ==
    LET next == NextOf(current) IN
    /\ eip' = [eip EXCEPT ![current] = "tail"]
    /\ esp' = [esp EXCEPT ![current] = SavedEsp]
    /\ current' = next
    /\ handed' = IF next = current \/ handed = 2 THEN handed ELSE handed + 1
    /\ pc' = eip'[next]
    /\ sp' = esp'[next]
    /\ iflag' = TRUE
    /\ UNCHANGED <<stack, queue, next_pid>>

(* OnTick up to the return of Switch; with no current task Switch returns  *)
(* at once and the flag stays clear.                                       *)
OnTick ==
    /\ pc = "handler" /\ handler
    /\ tick' = (tick + 1) % TickMod
    /\ IF current = NULL
       THEN /\ pc' = "tail"
            /\ UNCHANGED <<iflag, sp, stack, tasks, running>>
       ELSE Switch
    /\ UNCHANGED <<phase, pic, handler, tails, returned>>

(* The rest of OnTick: the callback, and the return from the interrupt.    *)
OnTickEnd ==
    /\ pc = "tail"
    /\ Iret
    /\ tails' = (tails + 1) % TickMod
    /\ UNCHANGED <<phase, pic, handler, tick, tasks, running, returned>>

-----------------------------------------------------------------------------
(* Set-up, by main().                                                      *)

TimerInitialize ==
    /\ phase = "boot" /\ pc = "run"
    /\ phase' = "timer"
    /\ handler' = TRUE
    /\ UNCHANGED <<cpu, pic, tick, tails, tasks, running, returned>>

InitializeCli ==
    /\ phase = "timer" /\ pc = "run"
    /\ phase' = "cli"
    /\ iflag' = FALSE
    /\ UNCHANGED <<pc, sp, stack, pic, timer, tasks, running, returned>>

(* The stack is moved to the linked range, then current is set, and only   *)
(* later queue.                                                            *)
InitializeCurrent ==
    /\ phase = "cli" /\ pc = "run"
    /\ phase' = "current"
    /\ current' = next_pid
    /\ next_pid' = next_pid + 1
    /\ UNCHANGED <<cpu, pic, timer, queue, eip, esp, handed, returned>>

InitializeQueue ==
    /\ phase = "current" /\ pc = "run"
    /\ phase' = "up"
    /\ queue' = <<current>>
    /\ iflag' = TRUE
    /\ UNCHANGED <<pc, sp, stack, pic, timer, next_pid, eip, esp, running,
                   returned>>

TimerShutdown ==
    /\ phase = "up" /\ pc = "run" /\ handler
    /\ handler' = FALSE
    /\ UNCHANGED <<phase, cpu, pic, tick, tails, tasks, running, returned>>

-----------------------------------------------------------------------------
(* Fork.                                                                   *)

Mask_Missing == UNCHANGED iflag                 \* mutation
Mask == iflag' = FALSE

Unmask_Missing == UNCHANGED iflag               \* mutation
Unmask == iflag' = TRUE

ForkCli ==
    /\ phase = "up" /\ pc = "run" /\ next_pid <= MaxTasks
    /\ Push(ForkFrame(current))
    /\ Mask
    /\ pc' = "clone"
    /\ UNCHANGED <<phase, pic, timer, tasks, running, returned>>

(* The address space is cloned, which links the stack's table and copies   *)
(* no record, and the Task is constructed.                                 *)
NewPid_Same == next_pid                         \* mutation
NewPid == next_pid + 1

KeepLocal_Pid(t) == stack' = [stack EXCEPT ![sp].task = t + 1]  \* mutation
KeepLocal(t) == stack' = [stack EXCEPT ![sp].task = t]

ForkClone ==
    /\ pc = "clone" /\ next_pid <= MaxTasks
    /\ KeepLocal(next_pid)
    /\ eip' = [eip EXCEPT ![next_pid] = "none"]
    /\ esp' = [esp EXCEPT ![next_pid] = 0]
    /\ next_pid' = NewPid
    /\ pc' = "enqueue"
    /\ UNCHANGED <<phase, iflag, sp, pic, timer, queue, running, returned>>

Linked_First(t) == <<t>> \o queue               \* mutation
Linked(t) == Append(queue, t)

ForkEnqueue ==
    /\ pc = "enqueue" /\ OnTop("fork")
    /\ queue' = Linked(Top.task)
    /\ pc' = "read_eip"
    /\ UNCHANGED <<phase, iflag, sp, stack, pic, timer, next_pid, eip, esp,
                   running, returned>>

(* read_eip returns here, in the parent; a child resumes at "forked".      *)
ForkReadEip ==
    /\ pc = "read_eip"
    /\ pc' = "forked"
    /\ UNCHANGED <<phase, iflag, sp, stack, pic, timer, tasks, running, returned>>

ChildEsp_OfCaller == sp - 1                     \* mutation
ChildEsp == sp

ForkParent ==
    /\ pc = "forked" /\ OnTop("fork") /\ current = Top.parent
    /\ esp' = [esp EXCEPT ![Top.task] = ChildEsp]
    /\ eip' = [eip EXCEPT ![Top.task] = "forked"]
    /\ Unmask
    /\ pc' = "leave"
    /\ UNCHANGED <<phase, sp, stack, pic, timer, queue, next_pid, running, returned>>

ForkReturn(value) ==
    /\ pc' = Top.ret
    /\ Pop
    /\ returned' = Append(returned, <<current, value>>)
    /\ UNCHANGED <<phase, iflag, pic, timer, tasks, running>>

ForkParentReturn == pc = "leave" /\ OnTop("fork") /\ ForkReturn(Top.task)

ForkChildReturn ==
    /\ pc = "forked" /\ OnTop("fork") /\ current # Top.parent
    /\ ForkReturn(0)

-----------------------------------------------------------------------------
(* ExecVE with no arguments: it sets the saved context of the running task.*)
ExecVE ==
    /\ phase = "up" /\ pc = "run"
    /\ eip' = [eip EXCEPT ![current] = "entry"]
    /\ esp' = [esp EXCEPT ![current] = 0]
    /\ UNCHANGED <<phase, cpu, pic, timer, queue, next_pid, running, returned>>

-----------------------------------------------------------------------------
(* The shared stack.                                                       *)

(* The running code calls functions, which write over what lies above the  *)
(* stack pointer.                                                          *)
Calls ==
    /\ pc # "astray"
    /\ \E reach \in sp + 1 .. MaxDepth :
          stack' = [d \in 1 .. MaxDepth |->
                       IF d \in sp + 1 .. reach THEN NoFrame ELSE stack[d]]
    /\ UNCHANGED <<phase, iflag, pc, sp, pic, timer, tasks, running, returned>>

(* A resumed context finds no record of its kind at its stack pointer: the *)
(* end of an interrupt has no iret frame, Fork has no locals.              *)
GoAstray ==
    /\ \/ pc = "tail" /\ ~OnTop("tick")
       \/ pc \in {"forked", "leave"} /\ ~OnTop("fork")
    /\ pc' = "astray"
    /\ UNCHANGED <<phase, iflag, sp, stack, pic, timer, tasks, running, returned>>

(* What it does next is not followed.                                      *)
Stray == pc = "astray" /\ UNCHANGED vars

-----------------------------------------------------------------------------
Irq  == Interrupt \/ Eoi \/ NoHandler \/ OnTick \/ OnTickEnd
Boot == TimerInitialize \/ InitializeCli \/ InitializeCurrent \/ InitializeQueue
Fork == \/ ForkCli \/ ForkClone \/ ForkEnqueue \/ ForkReadEip
        \/ ForkParent \/ ForkParentReturn \/ ForkChildReturn

Next == \/ Pit \/ Irq \/ Boot \/ Fork \/ TimerShutdown \/ ExecVE
        \/ Calls \/ GoAstray \/ Stray

Spec == Init /\ [][Next]_vars

(* The PIT keeps counting, the CPU takes a pending interrupt as soon as it *)
(* may, and code that has a next instruction executes it.  Calling Fork,   *)
(* ExecVE or timer::Shutdown is the running program's choice.              *)
Fairness ==
    /\ WF_vars(Pit)
    /\ WF_vars(Irq)
    /\ WF_vars(Boot)
    /\ SF_vars(GoAstray \/ (Fork /\ pc # "run"))

FairSpec == Spec /\ Fairness

(* Ticks are 20 ms apart (timer::Initialize(50), main.cc:27), the end of   *)
(* an OnTick activation takes microseconds: but for a while at most, a     *)
(* request finds none unfinished on the CPU.                               *)
Spaced == <>[][~(Pit /\ pc \in IrqPC)]_vars

-----------------------------------------------------------------------------
(* Properties.                                                             *)

(* Every variable keeps its type: the registers, the saved contexts and    *)
(* the list hold what task.cc and the interrupt stubs can put in them.     *)
TypeOK ==
    /\ phase \in Phase
    /\ iflag \in BOOLEAN /\ irr \in BOOLEAN /\ inService \in BOOLEAN
    /\ handler \in BOOLEAN
    /\ tick \in 0 .. TickMod - 1 /\ tails \in 0 .. TickMod - 1
    /\ pc \in PC /\ sp \in 0 .. MaxDepth
    /\ stack \in [1 .. MaxDepth -> Frame]
    /\ current \in Task \cup {NULL}
    /\ queue \in Seq(Task)
    /\ next_pid \in 1 .. MaxTasks + 1
    /\ eip \in [Task -> Eip] /\ esp \in [Task -> 0 .. MaxDepth]
    /\ handed \in 0 .. 2
    /\ returned \in Seq((Task \cup {NULL}) \X (Task \cup {NULL}))

(* Switch takes whatever task is next and jumps to its saved context, so a *)
(* task that Fork has put on the list but not yet given a context          *)
(* (task.cc:167-180) must be out of the reach of every interrupt.          *)
Resumable ==
    \A t \in Queued \ {current} :
        eip[t] = "none" => ~iflag /\ pc \in {"read_eip", "forked"}

(* The context saved for a task that is not running points at a record the *)
(* resumed code can use: Fork's own in a child, the interrupted OnTick's   *)
(* in a task that was preempted.  This is what cloning the address space   *)
(* (task.cc:153) and saving esp (task.cc:179, 211) are for.                *)
SavedRecord ==
    \A t \in Queued \ {current} :
        eip[t] \in {"tail", "forked"} =>
            /\ esp[t] > 0
            /\ stack[esp[t]].kind = IF eip[t] = "tail" THEN "tick" ELSE "fork"

(* Whenever code can be interrupted the PIC has been acknowledged: a task  *)
(* that Switch resumes outside the interrupt path (a new child) would      *)
(* otherwise never see another tick (isr.cc:49-52).                        *)
Acknowledged == iflag => ~inService

(* Until a forked task gets the processor the first task has the stack to  *)
(* itself, and that task has it to itself until it is switched away from.  *)
(* What a task can rely on later depends on what the others wrote          *)
(* (SavedRecord does not hold), so the next three properties speak of the  *)
(* kernel up to the first or the second such switch.                       *)
Alone     == handed = 0
FirstSlot == handed <= 1

(* However the ticks fall up to the end of the first child's first slot: a *)
(* Fork returns to its caller the pid of a later task that is on the list  *)
(* and that no other return names; 0 comes back in the first child only,   *)
(* once; and if that child has the processor before its parent has         *)
(* returned from the Fork, no return goes astray (task.cc:155-185).        *)
ForkReturns ==
    FirstSlot =>
        /\ \A i \in DOMAIN returned :
              IF returned[i][2] = 0 THEN returned[i][1] = 2
              ELSE /\ returned[i][2] \in Queued
                   /\ returned[i][1] < returned[i][2]
        /\ \A i, j \in DOMAIN returned :
              i < j => /\ returned[j][2] # returned[i][2]
                       /\ returned[j][2] # 0 => returned[i][2] < returned[j][2]
        /\ pc = "astray" => \E i \in DOMAIN returned : returned[i] = <<1, 2>>

(* As long as the Fork that made it has not returned to the parent, the    *)
(* context of a child names that Fork's record, with the parent and the    *)
(* child in its locals: a switch to the child in this window finds what    *)
(* `current == parent` (task.cc:172) reads.                                *)
ChildContext ==
    \A t \in Queued :
        Alone /\ eip[t] = "forked" /\ (\A i \in DOMAIN returned : returned[i][2] # t)
            => /\ esp[t] \in 1 .. sp
               /\ stack[esp[t]] = [ForkFrame(1) EXCEPT !.task = t]

(* Each counted tick has exactly one OnTick activation that has returned   *)
(* or is still on the stack: no activation is dropped by a switch and none *)
(* runs its tail twice (timer.cc:15-20).                                   *)
Depth   == IF pc \in {"irq", "handler"} THEN sp - 1 ELSE sp
Pending == {d \in 1 .. MaxDepth : d <= Depth /\ stack[d].kind = "tick"}
NoTickLost ==
    Alone => (tick - tails) % TickMod = Cardinality(Pending) % TickMod

(* If ticks do not pile up, then as long as the timer runs and no task     *)
(* returns through a foreign record, every task on the list gets the CPU again and again: Fork appends,      *)
(* Switch goes round the list (task.cc:162-167, 214-217).                  *)
GetsTurn ==
    Spaced =>
        \A t \in Task : t \in Queued ~> (current = t \/ ~handler \/ pc = "astray")

(* Interrupts do not stay masked: Initialize, Fork, Switch and the end of  *)
(* every interrupt path that clears the flag come to their own sti.        *)
Interruptible == Spaced => []<>(iflag \/ pc = "astray")

-----------------------------------------------------------------------------
(* The promise to the rest of the kernel, a round robin over the tasks     *)
(* that have a context: the list, without a last task Fork is still making.*)
Started == {t \in Task : t = current \/ eip[t] # "none"}
ReadyQueue ==
    IF queue # <<>> /\ queue[Len(queue)] \notin Started
    THEN SubSeq(queue, 1, Len(queue) - 1)
    ELSE queue
RR == INSTANCE RoundRobin WITH
          ready <- ReadyQueue,
          cur   <- IF queue = <<>> THEN NULL ELSE current

(* Fork only ever adds a task at the end of the line, and only the timer   *)
(* moves the processor, to the next one in line (task.cc:162-167, 214-217).*)
Refines == RR!Spec
=============================================================================
