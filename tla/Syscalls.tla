----------------------------- MODULE Syscalls -----------------------------
(***************************************************************************)
(* System calls: the tables of names and functions (syscall.cc, vector.h), *)
(* int 0x80 through isr_common_stub and isr_handler, and the Handler that  *)
(* passes registers on as parameters and the result back in eax.           *)
(*                                                                         *)
(* There is one caller, the task that booted.  A forked task has no copy   *)
(* of the caller's stack, on which the frame and the call lie: the table   *)
(* of its pages is linked (paging.cc:144-145, 247-250).  The module        *)
(* follows the calls up to the first tick that gives the processor to a    *)
(* forked task ("handed"); what then becomes of the stack is in Tasks.     *)
(***************************************************************************)
EXTENDS Integers, Sequences, FiniteSets, TLC

CONSTANTS
    Boot,            \* the calls of Register at boot: name and function
    Requests,        \* the calls the task makes: name and arguments
    CAPACITY,        \* MAX_SYSCALLS
    MaxTasks         \* bound: tasks on the list

ASSUME SyscallsConstants ==
    /\ CAPACITY \in Nat /\ MaxTasks \in Nat \ {0}
    /\ Boot \in Seq([name : STRING, fn : STRING])

VARIABLES
    names, fns,      \* syscall_fn_lookup, syscall_fns
    handler,         \* handlers[0x80]
    status,          \* "up", "panic", "hung" in the unhandled interrupt, "handed"
    iflag,           \* interrupts are enabled
    tasks,           \* how many tasks the list has
    job              \* the call the task is in, or the last one

vars == <<names, fns, handler, status, iflag, tasks, job>>

Idle == [pc |-> "idle", name |-> "none", args |-> <<>>, eax |-> <<"index", 0>>, params |-> <<>>,
         fn |-> "none", value |-> <<"none">>]
InCall == {"int", "handler", "body", "looping", "returning", "stub"}
At(pc) == status = "up" /\ job.pc = pc
Quiet == At("idle") \/ At("returned")

Init ==
    /\ names = <<>> /\ fns = <<>> /\ handler = "NULL" /\ status = "up"
    /\ iflag = TRUE /\ tasks = 1 /\ job = Idle

(* Boot: Register pushes to both vectors and asserts that they are as long.*)
PushedFn_Front(f) == <<f>> \o fns  \* mutation
PushedFn(f) == Append(fns, f)

Register ==
    /\ handler = "NULL" /\ Quiet /\ Len(names) < Len(Boot)
    /\ LET next == Boot[Len(names) + 1]
       IN  IF Len(names) < CAPACITY
           THEN /\ names' = Append(names, next.name) /\ fns' = PushedFn(next.fn)
                /\ UNCHANGED status
           ELSE status' = "panic" /\ UNCHANGED <<names, fns>>
    /\ UNCHANGED <<handler, iflag, tasks, job>>

Initialize ==
    /\ handler = "NULL" /\ Quiet /\ Len(names) = Len(Boot)
    /\ handler' = "Handler"
    /\ UNCHANGED <<names, fns, status, iflag, tasks, job>>

-----------------------------------------------------------------------------
(* A call.  Call's va_arg expressions are arguments of one call expression:*)
(* the compiler chooses the order in which they are evaluated.             *)

Found(name) == {i \in DOMAIN names : names[i] = name}
IndexOf(name) == (CHOOSE i \in Found(name) : \A j \in Found(name) : i <= j) - 1
Loaded(args) == {[k \in DOMAIN args |-> args[pi[k]]] : pi \in Permutations(DOMAIN args)}

Call(name, args) ==
    /\ Quiet /\ handler # "NULL"
    /\ IF Found(name) = {} \/ Len(args) > 3
       THEN status' = "panic" /\ UNCHANGED job
       ELSE /\ \E p \in Loaded(args) :
                 job' = [Idle EXCEPT !.pc = "int", !.name = name, !.args = args,
                                     !.eax = <<"index", IndexOf(name)>>, !.params = p]
            /\ UNCHANGED status
    /\ UNCHANGED <<names, fns, handler, iflag, tasks>>

(* int 0x80 and the stub's cli; without a handler the screen is written to *)
(* and the processor loops.                                                *)
Interrupt ==
    /\ At("int")
    /\ iflag' = FALSE
    /\ IF handler = "NULL" THEN status' = "hung" /\ UNCHANGED job
       ELSE job' = [job EXCEPT !.pc = "handler"] /\ UNCHANGED status
    /\ UNCHANGED <<names, fns, handler, tasks>>

(* Handler: at(eax) asserts its index; the registers are pushed so that    *)
(* ebx, ecx and edx are the first parameters.                              *)
Slot == job.eax[2] + 1

InVector == Slot \in 1 .. Len(fns)

Handler ==
    /\ At("handler")
    /\ IF InVector
       THEN job' = [job EXCEPT !.pc = "body", !.fn = fns[Slot]] /\ UNCHANGED status
       ELSE status' = "panic" /\ UNCHANGED job
    /\ UNCHANGED <<names, fns, handler, iflag, tasks>>

(* The function's own work.  ExecVE counts with pointers until one of argv *)
(* and env is NULL: if neither was, they leave their arrays, which may go  *)
(* on forever, or end at NULL with a count that kalloc refuses or accepts. *)
Endless == job.fn = "execve" /\ Len(job.params) = 3
           /\ job.params[2] # "NULL" /\ job.params[3] # "NULL"

Body ==
    /\ At("body") /\ job.fn # "fork"
    /\ \/ /\ job' = [job EXCEPT !.pc = "returning", !.value = <<job.fn, job.params>>]
          /\ UNCHANGED status
       \/ Endless /\ job' = [job EXCEPT !.pc = "looping"] /\ UNCHANGED status
       \/ Endless /\ status' = "panic" /\ UNCHANGED job
    /\ UNCHANGED <<names, fns, handler, iflag, tasks>>

(* Fork enables interrupts and returns the child's number to its caller.   *)
Fork ==
    /\ At("body") /\ job.fn = "fork" /\ tasks < MaxTasks
    /\ tasks' = tasks + 1
    /\ job' = [job EXCEPT !.pc = "returning", !.value = <<"pid", tasks + 1>>]
    /\ iflag' = TRUE
    /\ UNCHANGED <<names, fns, handler, status>>

(* The result goes to the frame's eax, and the stub restores the frame.    *)
Answer ==
    /\ At("returning")
    /\ job' = [job EXCEPT !.pc = "stub", !.eax = job.value]
    /\ UNCHANGED <<names, fns, handler, status, iflag, tasks>>

Unmasked_Not == iflag  \* mutation
Unmasked == TRUE

Iret ==
    /\ At("stub")
    /\ iflag' = Unmasked
    /\ job' = [job EXCEPT !.pc = "returned"]
    /\ UNCHANGED <<names, fns, handler, status, tasks>>

(* A tick leaves a single task running; with more it goes to a forked one. *)
Tick ==
    /\ status = "up" /\ iflag /\ handler # "NULL" /\ tasks > 1
    /\ status' = "handed"
    /\ UNCHANGED <<names, fns, handler, iflag, tasks, job>>

(* A panic, the loops and a handed processor are not left.                 *)
Halted == (status # "up" \/ job.pc = "looping") /\ UNCHANGED vars

Step == Interrupt \/ Handler \/ Body \/ Fork \/ Answer \/ Iret

Next == \/ Register \/ Initialize
        \/ \E r \in Requests : Call(r[1], r[2])
        \/ Step \/ Tick \/ Halted

Spec == Init /\ [][Next]_vars

(* The processor goes on with what it executes.                            *)
Fairness == WF_vars(Step)

-----------------------------------------------------------------------------
(* Properties.                                                             *)

TypeOK ==
    /\ Len(names) = Len(fns) /\ Len(fns) <= CAPACITY
    /\ tasks \in 1 .. MaxTasks
    /\ status # "hung" /\ (~iflag => job.pc \in InCall)
    /\ job.pc # "idle" => job.name \in {names[i] : i \in DOMAIN names}

(* A call returns what the function registered under its name made of the  *)
(* caller's own arguments, and a call of fork the number of the task that  *)
(* it added last; in which order the function gets its arguments is the    *)
(* compiler's choice and left open (syscall.cc:47-66, 92-125;              *)
(* task.cc:172-183).                                                       *)
Answered ==
    job.pc = "returned" =>
        \E k \in DOMAIN Boot :
            /\ Boot[k].name = job.name
            /\ IF Boot[k].fn = "fork" THEN job.eax = <<"pid", tasks>>
               ELSE \E p \in Loaded(job.args) : job.eax = <<Boot[k].fn, p>>

=============================================================================
