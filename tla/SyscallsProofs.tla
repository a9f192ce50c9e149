--------------------------- MODULE SyscallsProofs ---------------------------
(***************************************************************************)
(* A system call returns what the function registered under its name made  *)
(* of the caller's own arguments, or the child it forked, for every table  *)
(* of calls and any number of tasks.                                       *)
(*                                                                         *)
(* Answered speaks of calls that have returned.  CallInv follows a call    *)
(* from the index in eax to the function found there and its value, and    *)
(* holds at each step what the next one needs: that the index is the name's*)
(* place in both vectors, and that the vectors are as Register left them.  *)
(***************************************************************************)
EXTENDS Syscalls, SequenceTheorems, WellFoundedInduction, TLAPS

Shaped(j) == j = [pc |-> j.pc, name |-> j.name, args |-> j.args, eax |-> j.eax,
                  params |-> j.params, fn |-> j.fn, value |-> j.value]

Names == {Boot[k].name : k \in DOMAIN Boot}
Fns   == {Boot[k].fn : k \in DOMAIN Boot}

(* The vectors are the first part of what is registered.                   *)
Table ==
    /\ names \in Seq(Names) /\ fns \in Seq(Fns)
    /\ Len(names) = Len(fns) /\ Len(fns) <= CAPACITY /\ Len(names) <= Len(Boot)
    /\ \A i \in 1 .. Len(names) : names[i] = Boot[i].name /\ fns[i] = Boot[i].fn

(* What a call of the kth function may return while the list has n tasks.  *)
Answers(n, k, args, value) ==
    IF Boot[k].fn = "fork" THEN value = <<"pid", n>>
    ELSE \E p \in Loaded(args) : value = <<Boot[k].fn, p>>

(* How far a call of the kth function has come.                            *)
Reached(n, j, k) ==
    \/ /\ j.pc \in {"int", "handler"}
       /\ j.eax[2] = k - 1 /\ j.params \in Loaded(j.args)
    \/ /\ j.pc = "body"
       /\ j.fn = Boot[k].fn /\ j.params \in Loaded(j.args)
    \/ j.pc = "looping"
    \/ /\ j.pc = "returning"
       /\ Answers(n, k, j.args, j.value)
    \/ /\ j.pc \in {"stub", "returned"}
       /\ Answers(n, k, j.args, j.eax)

CallOf ==
    job.pc # "idle" =>
        /\ handler # "NULL"
        /\ \E k \in 1 .. Len(names) : names[k] = job.name /\ Reached(tasks, job, k)

CallInv ==
    /\ Table
    /\ tasks \in 1 .. MaxTasks
    /\ status # "hung" /\ (~iflag => job.pc \in InCall)
    /\ Shaped(job) /\ CallOf

-----------------------------------------------------------------------------
(* A set of numbers has a least one.                                       *)
LEMMA Least ==
    ASSUME NEW S \in SUBSET Nat, S # {}
    PROVE  \E n \in S : \A m \in S : n <= m
<1> DEFINE R == {p \in Nat \X Nat : p[1] < p[2]}
<1>1. IsWellFoundedOn(R, Nat)
  BY NatLessThanWellFounded DEF OpToRel
<1>2. PICK n \in S : \A m \in S : ~ (<<m, n>> \in R)
  <2> HIDE DEF R
  <2> QED BY <1>1, WFMin
<1>3. \A m \in S : n <= m
  <2> TAKE m \in S
  <2>1. n \in Nat /\ m \in Nat
    OBVIOUS
  <2>2. ~ (m < n)
    BY <1>2, <2>1
  <2> QED BY <2>1, <2>2
<1> QED BY <1>3

(* eax holds the place of the name in the vector of names.                 *)
LEMMA IndexFound ==
    ASSUME Table, NEW name, Found(name) # {}
    PROVE  /\ IndexOf(name) \in Nat /\ IndexOf(name) + 1 \in 1 .. Len(names)
           /\ names[IndexOf(name) + 1] = name
<1>1. Found(name) \subseteq 1 .. Len(names)
  BY DEF Found, Table
<1>2. \E i \in Found(name) : \A j \in Found(name) : i <= j
  BY <1>1, Least, SMTT(30) DEF Table
<1> DEFINE i == CHOOSE n \in Found(name) : \A j \in Found(name) : n <= j
<1>3. i \in Found(name)
  BY <1>2
<1>4. IndexOf(name) = i - 1
  BY DEF IndexOf
<1> HIDE DEF i
<1>5. i \in 1 .. Len(names) /\ names[i] = name
  BY <1>1, <1>3 DEF Found
<1>6. IndexOf(name) + 1 = i /\ IndexOf(name) \in Nat
  BY <1>4, <1>5
<1> QED BY <1>5, <1>6

LEMMA CallInit == Init => CallInv
<1> SUFFICES ASSUME Init PROVE CallInv
  OBVIOUS
<1>1. Boot \in Seq([name : STRING, fn : STRING]) /\ CAPACITY \in Nat /\ MaxTasks \in Nat \ {0}
  BY SyscallsConstants
<1>2. Table
  BY <1>1 DEF Init, Table
<1>3. Shaped(job) /\ CallOf
  BY DEF Init, Shaped, CallOf, Idle
<1>4. tasks \in 1 .. MaxTasks
  BY <1>1 DEF Init
<1> QED BY <1>2, <1>3, <1>4 DEF Init, CallInv

LEMMA BootSteps ==
    ASSUME CallInv, Register \/ Initialize
    PROVE  CallInv'
<1>1. Boot \in Seq([name : STRING, fn : STRING]) /\ CAPACITY \in Nat
  BY SyscallsConstants
<1>2. handler = "NULL" /\ UNCHANGED <<iflag, tasks, job>> /\ status' # "hung"
  BY DEF Register, Initialize, CallInv
<1>3. job.pc = "idle"
  BY <1>2 DEF CallInv, CallOf
<1>4. CallOf'
  BY <1>2, <1>3 DEF CallOf
<1>5. Table'
  <2>1. CASE Register /\ Len(names) < CAPACITY
    <3> DEFINE n == Len(names) + 1
    <3>1. n \in 1 .. Len(Boot) /\ Len(names) \in Nat
      BY <2>1, <1>1 DEF Register, CallInv, Table
    <3>2. names' = Append(names, Boot[n].name) /\ fns' = Append(fns, Boot[n].fn)
      BY <2>1 DEF Register, PushedFn
    <3>3. Boot[n].name \in Names /\ Boot[n].fn \in Fns
      BY <3>1, <1>1 DEF Names, Fns
    <3> QED BY <3>1, <3>2, <3>3, <2>1, <1>1, AppendProperties, SMTT(30) DEF CallInv, Table
  <2>2. CASE ~(Register /\ Len(names) < CAPACITY)
    BY <2>2 DEF Register, Initialize, CallInv, Table
  <2> QED BY <2>1, <2>2
<1>6. Shaped(job)'
  BY <1>2 DEF CallInv, Shaped
<1> QED BY <1>2, <1>4, <1>5, <1>6 DEF CallInv

LEMMA CallStep ==
    ASSUME CallInv, NEW name, NEW args, Call(name, args)
    PROVE  CallInv'
<1>1. CASE Found(name) = {} \/ Len(args) > 3
  <2>1. UNCHANGED <<names, fns, handler, iflag, tasks, job>> /\ status' = "panic"
    BY <1>1 DEF Call
  <2> QED BY <2>1 DEF CallInv, Table, CallOf, Shaped
<1>2. CASE ~(Found(name) = {} \/ Len(args) > 3)
  <2> DEFINE eax == <<"index", IndexOf(name)>>
  <2>1. PICK p \in Loaded(args) :
           job' = [Idle EXCEPT !.pc = "int", !.name = name, !.args = args, !.eax = eax, !.params = p]
    BY <1>2 DEF Call
  <2>2. /\ IndexOf(name) \in Nat /\ IndexOf(name) + 1 \in 1 .. Len(names)
        /\ names[IndexOf(name) + 1] = name
    BY <1>2, IndexFound DEF CallInv
  <2>3. eax[2] = (IndexOf(name) + 1) - 1
    BY <2>2
  <2> HIDE DEF eax
  <2>4. job' = [pc |-> "int", name |-> name, args |-> args, eax |-> eax, params |-> p,
                fn |-> "none", value |-> <<"none">>]
    BY <2>1 DEF Idle
  <2>5. job'.pc = "int" /\ job'.name = name /\ job'.args = args /\ job'.params = p /\ job'.eax = eax
    BY <2>4
  <2>6. Shaped(job)'
    BY <2>4, Zenon DEF Shaped
  <2>7. handler # "NULL" /\ UNCHANGED <<names, fns, handler, iflag, tasks, status>>
    BY <1>2 DEF Call
  <2>8. Reached(tasks, job, IndexOf(name) + 1)'
    BY <2>1, <2>3, <2>5, <2>7 DEF Reached, IndexOf, Found
  <2>9. CallOf'
    BY <2>2, <2>5, <2>7, <2>8 DEF CallOf, IndexOf, Found
  <2>10. Table'
    BY <2>7 DEF CallInv, Table
  <2> QED BY <2>5, <2>6, <2>7, <2>9, <2>10 DEF CallInv, InCall
<1> QED BY <1>1, <1>2

(* A step of a call of the kth function that takes it on.                  *)
LEMMA StepOn ==
    ASSUME CallInv, NEW k \in 1 .. Len(names), names[k] = job.name, handler # "NULL",
           Shaped(job'), job'.name = job.name, Reached(tasks', job', k),
           tasks' \in 1 .. MaxTasks, UNCHANGED <<names, fns, handler>>,
           status' # "hung", ~iflag' => job'.pc \in InCall
    PROVE  CallInv'
<1>1. Table'
  BY DEF CallInv, Table
<1>2. Shaped(job)'
  BY DEF Shaped
<1>3. Reached(tasks, job, k)'
  BY DEF Reached, Answers
<1>4. CallOf'
  BY <1>3 DEF CallOf
<1> QED BY <1>1, <1>2, <1>4 DEF CallInv

LEMMA CallSteps ==
    ASSUME CallInv, Step
    PROVE  CallInv'
<1>1. Shaped(job) /\ CallOf /\ tasks \in 1 .. MaxTasks
  BY DEF CallInv
<1>2. status = "up" /\ job.pc \in InCall /\ job.pc # "idle" /\ UNCHANGED <<names, fns, handler>>
  BY DEF Step, Interrupt, Handler, Body, Fork, Answer, Iret, At, InCall
<1>3. handler # "NULL"
  BY <1>1, <1>2 DEF CallOf
<1>4. PICK k \in 1 .. Len(names) : names[k] = job.name /\ Reached(tasks, job, k)
  BY <1>1, <1>2 DEF CallOf
<1>5. CASE UNCHANGED <<job, iflag, tasks>> /\ status' = "panic"
  <2>1. Reached(tasks', job', k)
    BY <1>4, <1>5
  <2> QED BY <1>1, <1>2, <1>3, <1>4, <1>5, <2>1, StepOn DEF CallInv
<1>6. CASE Interrupt
  <2>1. job' = [job EXCEPT !.pc = "handler"] /\ tasks' = tasks /\ status' = status
    BY <1>3, <1>6 DEF Interrupt
  <2>2. Shaped(job') /\ job'.pc = "handler" /\ job'.name = job.name /\ job'.args = job.args
        /\ job'.params = job.params /\ job'.eax = job.eax
    BY <1>1, <2>1 DEF Shaped
  <2>3. Reached(tasks', job', k)
    BY <1>4, <1>6, <2>2 DEF Reached, Interrupt, At
  <2> QED BY <1>1, <1>2, <1>3, <1>4, <2>1, <2>2, <2>3, StepOn DEF InCall
<1>7. CASE Handler /\ status' = status
  <2>1. job.eax[2] = k - 1 /\ job.params \in Loaded(job.args)
    BY <1>4, <1>7 DEF Reached, Handler, At
  <2>2. k \in 1 .. Len(fns) /\ fns[k] = Boot[k].fn
    BY <1>4 DEF CallInv, Table
  <2>3. Slot = k /\ InVector
    BY <2>1, <2>2 DEF Slot, InVector
  <2>4. job' = [job EXCEPT !.pc = "body", !.fn = fns[k]] /\ UNCHANGED <<iflag, tasks>>
    BY <1>2, <1>7, <2>3 DEF Handler
  <2>5. Shaped(job') /\ job'.pc = "body" /\ job'.name = job.name /\ job'.args = job.args
        /\ job'.params = job.params /\ job'.fn = fns[k]
    BY <1>1, <2>4 DEF Shaped
  <2>6. Reached(tasks', job', k)
    BY <2>1, <2>2, <2>5 DEF Reached
  <2> QED BY <1>1, <1>2, <1>3, <1>4, <1>7, <2>4, <2>5, <2>6, StepOn DEF InCall
<1>8. CASE Body /\ status' = status
  <2>1. job.fn = Boot[k].fn /\ job.params \in Loaded(job.args) /\ job.fn # "fork"
        /\ UNCHANGED <<iflag, tasks>>
    BY <1>4, <1>8 DEF Reached, Body, At
  <2>2. CASE job' = [job EXCEPT !.pc = "looping"]
    <3>1. Shaped(job') /\ job'.pc = "looping" /\ job'.name = job.name
      BY <1>1, <2>2 DEF Shaped
    <3>2. Reached(tasks', job', k)
      BY <3>1 DEF Reached
    <3> QED BY <1>1, <1>2, <1>3, <1>4, <1>8, <2>1, <3>1, <3>2, StepOn DEF InCall
  <2>3. CASE job' = [job EXCEPT !.pc = "returning", !.value = <<job.fn, job.params>>]
    <3> DEFINE value == <<job.fn, job.params>>
    <3>1. Answers(tasks, k, job.args, value)
      BY <2>1 DEF Answers
    <3> HIDE DEF value
    <3>2. job' = [job EXCEPT !.pc = "returning", !.value = value]
      BY <2>3 DEF value
    <3>3. Shaped(job') /\ job'.pc = "returning" /\ job'.name = job.name /\ job'.args = job.args
          /\ job'.value = value
      BY <1>1, <3>2 DEF Shaped
    <3>4. Reached(tasks', job', k)
      BY <2>1, <3>1, <3>3 DEF Reached
    <3> QED BY <1>1, <1>2, <1>3, <1>4, <1>8, <2>1, <3>3, <3>4, StepOn DEF InCall
  <2> QED BY <1>2, <1>8, <2>2, <2>3 DEF Body
<1>9. CASE Fork
  <2> DEFINE value == <<"pid", tasks + 1>>
  <2>1. Boot[k].fn = "fork" /\ tasks' = tasks + 1 /\ tasks' \in 1 .. MaxTasks /\ iflag' = TRUE
        /\ status' = status
    BY <1>1, <1>4, <1>9, SyscallsConstants DEF Reached, Fork, At
  <2>2. Answers(tasks', k, job.args, value)
    BY <2>1 DEF Answers
  <2> HIDE DEF value
  <2>3. job' = [job EXCEPT !.pc = "returning", !.value = value]
    BY <1>9 DEF Fork, value
  <2>4. Shaped(job') /\ job'.pc = "returning" /\ job'.name = job.name /\ job'.args = job.args
        /\ job'.value = value
    BY <1>1, <2>3 DEF Shaped
  <2>5. Reached(tasks', job', k)
    BY <2>2, <2>4 DEF Reached
  <2> QED BY <1>1, <1>2, <1>3, <1>4, <2>1, <2>4, <2>5, StepOn
<1>10. CASE Answer
  <2>1. job' = [job EXCEPT !.pc = "stub", !.eax = job.value] /\ UNCHANGED <<status, iflag, tasks>>
    BY <1>10 DEF Answer
  <2>2. Answers(tasks, k, job.args, job.value)
    BY <1>4, <1>10 DEF Answer, At, Reached
  <2>3. Shaped(job') /\ job'.pc = "stub" /\ job'.name = job.name /\ job'.args = job.args
        /\ job'.eax = job.value
    BY <1>1, <2>1 DEF Shaped
  <2>4. Reached(tasks', job', k)
    BY <2>1, <2>2, <2>3 DEF Reached
  <2> QED BY <1>1, <1>2, <1>3, <1>4, <2>1, <2>3, <2>4, StepOn DEF InCall
<1>11. CASE Iret
  <2>1. job' = [job EXCEPT !.pc = "returned"] /\ UNCHANGED <<status, tasks>> /\ iflag'
    BY <1>11 DEF Iret, Unmasked
  <2>2. Shaped(job') /\ job'.pc = "returned" /\ job'.name = job.name /\ job'.args = job.args
        /\ job'.eax = job.eax
    BY <1>1, <2>1 DEF Shaped
  <2>3. Reached(tasks', job', k)
    BY <1>4, <1>11, <2>1, <2>2 DEF Reached, Iret, At
  <2> QED BY <1>1, <1>2, <1>3, <1>4, <2>1, <2>2, <2>3, StepOn
<1>12. CASE Handler /\ status' # status
  BY <1>5, <1>12 DEF Handler
<1>13. CASE Body /\ status' # status
  BY <1>5, <1>13 DEF Body
<1> QED BY <1>6, <1>7, <1>8, <1>9, <1>10, <1>11, <1>12, <1>13 DEF Step

LEMMA CallNext == CallInv /\ [Next]_vars => CallInv'
<1> SUFFICES ASSUME CallInv, [Next]_vars PROVE CallInv'
  OBVIOUS
<1>1. CASE UNCHANGED <<names, fns, handler, iflag, tasks, job>> /\ status' # "hung"
  BY <1>1 DEF CallInv, Table, Shaped, CallOf
<1>2. CASE Tick
  BY <1>1, <1>2 DEF Tick
<1>3. CASE UNCHANGED vars
  BY <1>1, <1>3 DEF vars, CallInv
<1>4. CASE \E r \in Requests : Call(r[1], r[2])
  BY <1>4, CallStep
<1> QED BY <1>2, <1>3, <1>4, BootSteps, CallSteps DEF Next, Halted

-----------------------------------------------------------------------------
LEMMA CallTypeOK == CallInv => TypeOK
<1> SUFFICES ASSUME CallInv PROVE TypeOK
  OBVIOUS
<1>1. DOMAIN names = 1 .. Len(names)
  BY DEF CallInv, Table
<1>2. job.pc # "idle" => job.name \in {names[i] : i \in DOMAIN names}
  BY <1>1 DEF CallInv, CallOf
<1> QED BY <1>2 DEF CallInv, Table, TypeOK

LEMMA CallAnswered == CallInv => Answered
<1> SUFFICES ASSUME CallInv, job.pc = "returned"
             PROVE  \E k \in DOMAIN Boot :
                      /\ Boot[k].name = job.name
                      /\ IF Boot[k].fn = "fork" THEN job.eax = <<"pid", tasks>>
                         ELSE \E p \in Loaded(job.args) : job.eax = <<Boot[k].fn, p>>
  BY DEF Answered
<1>1. PICK k \in 1 .. Len(names) : names[k] = job.name /\ Reached(tasks, job, k)
  BY DEF CallInv, CallOf
<1>2. k \in DOMAIN Boot /\ Boot[k].name = job.name
  BY <1>1, SyscallsConstants DEF CallInv, Table
<1>3. Answers(tasks, k, job.args, job.eax)
  BY <1>1 DEF Reached
<1> QED BY <1>2, <1>3 DEF Answers

(* The two vectors of system calls stay as long as each other and within   *)
(* their capacity, interrupts are off only inside a call, and int 0x80     *)
(* always finds its handler (syscall.cc:21-82, 128-136).                   *)
THEOREM AlwaysTypeOK == Spec => []TypeOK
<1>1. Init => CallInv
  BY CallInit
<1>2. CallInv /\ [Next]_vars => CallInv'
  BY CallNext
<1>3. CallInv => TypeOK
  BY CallTypeOK
<1> QED BY <1>1, <1>2, <1>3, PTL DEF Spec

(* A call that has returned has the answer of the function registered      *)
(* under its name to the caller's own arguments, and a fork the number of  *)
(* the task it added last (syscall.cc:47-66, 92-125; task.cc:172-183).     *)
THEOREM AlwaysAnswered == Spec => []Answered
<1>1. Init => CallInv
  BY CallInit
<1>2. CallInv /\ [Next]_vars => CallInv'
  BY CallNext
<1>3. CallInv => Answered
  BY CallAnswered
<1> QED BY <1>1, <1>2, <1>3, PTL DEF Spec

=============================================================================
