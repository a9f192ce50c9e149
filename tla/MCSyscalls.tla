---------------------------- MODULE MCSyscalls ----------------------------
(* The three system calls of the sources for TLC: puts as main.cc calls it,*)
(* fork, execve without and with an argv and an env, and an unknown name.  *)
EXTENDS Syscalls

Registered == <<[name |-> "screen::puts", fn |-> "puts"],
                [name |-> "task::fork", fn |-> "fork"],
                [name |-> "task::execve", fn |-> "execve"]>>

ThreeCalls == {<<"screen::puts", <<"p">>>>, <<"screen::puts", <<"q">>>>,
               <<"task::execve", <<"p", "NULL", "NULL">>>>,
               <<"task::execve", <<"p", "a", "e">>>>,
               <<"task::fork", <<>>>>, <<"task::exit", <<>>>>}

(* Fork is called while there is a task left to create.                    *)
BoundedCall(name, args) ==
    /\ name = "task::fork" => tasks < MaxTasks
    /\ Call(name, args)

SmallNext ==
    \/ Register \/ Initialize
    \/ \E r \in Requests : BoundedCall(r[1], r[2])
    \/ Step \/ Tick \/ Halted

SmallSpec == Init /\ [][SmallNext]_vars /\ Fairness
=============================================================================
