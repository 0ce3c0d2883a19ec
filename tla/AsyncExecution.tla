--------------------------- MODULE AsyncExecution ---------------------------
(***************************************************************************)
(* An asynchronous execution and the goroutines that share its Async       *)
(* (async.go, and the Async* methods of vm.go and executor.go that return  *)
(* one).  The C library executes on a thread of its own, which calls back  *)
(* into Go when wasm code calls a host function.  GetResult is two calls   *)
(* of the C library: how many results there are, which waits for the end,  *)
(* and then the results.                                                   *)
(*                                                                         *)
(* The guard MayBlock is what a program has to take care of: a host        *)
(* function must not wait without a limit for the execution it is part of. *)
(* Who may call Release, and when, is in Ownership.                        *)
(***************************************************************************)
EXTENDS Integers, Sequences

CONSTANTS
  Goroutines,
  Host,         \* the host function that the execution calls, as a user of the Async
  MaxArity,     \* bound: how many results the executed function has
  Limits,       \* the arguments of WaitFor, in milliseconds
  Width,        \* of an unsigned integer of C
  Horizon,      \* bound: a time nobody lives to see the end of
  Pending

ASSUME ConstantsAssumption ==
  /\ Host \notin Goroutines
  /\ MaxArity \in Nat /\ Width \in Nat /\ Horizon \in Nat
  /\ Limits \subseteq Int
  /\ \A l \in Limits : -(2^Width) <= l /\ l < 2^Width
  /\ \A l \in Limits : l <= Horizon /\ l + 2^Width > Horizon
  /\ Pending \notin [st : {"ok", "trap", "cancelled", "true", "false"}, vals : Seq(Nat)]

VARIABLES
  exec,     \* the execution: where its thread is, and its outcome
  stop,     \* the flag by which C stops wasm code
  asked,    \* history: Cancel has been called
  op        \* op[g]: the call g is in, or the answer of its last one

vars == <<exec, stop, asked, op>>

Users == Goroutines \cup {Host}

Results(n) == [i \in 1 .. n |-> i]
Zeroes(n) == [i \in 1 .. n |-> 0]
Outcome(st, vals) == [st |-> st, vals |-> vals]
Outcomes == {Outcome("ok", Results(n)) : n \in 0 .. MaxArity}
              \cup {Outcome("trap", <<>>), Outcome("cancelled", <<>>)}

Idle == [pc |-> "idle", limit |-> 0, elapsed |-> 0, len |-> 0, answer |-> Pending]

Init ==
  /\ exec = [at |-> "none", outcome |-> Pending]
  /\ stop = FALSE /\ asked = FALSE
  /\ op = [g \in Users |-> Idle]

---------------------------------------------------------------------------
(* The thread of the execution *)

Ended == exec.at = "ended"

(* AsyncRunWasm*, AsyncExecute*, AsyncInvoke; where they return nil, there *)
(* is no execution.                                                        *)
Start ==
  /\ exec.at = "none"
  /\ exec' = [exec EXCEPT !.at = "wasm"]
  /\ UNCHANGED <<stop, asked, op>>

(* Wasm code returns or traps ... *)
Finish ==
  /\ exec.at = "wasm"
  /\ \E o \in {x \in Outcomes : x.st # "cancelled"} : exec' = [at |-> "ended", outcome |-> o]
  /\ UNCHANGED <<stop, asked, op>>

(* ... or is stopped by Cancel, but not while it is in a host function.    *)
Interrupt ==
  /\ exec.at = "wasm" /\ stop
  /\ exec' = [at |-> "ended", outcome |-> Outcome("cancelled", <<>>)]
  /\ UNCHANGED <<stop, asked, op>>

(* A host function calls at most one method of the Async. *)
HostCall ==
  /\ exec.at = "wasm"
  /\ exec' = [exec EXCEPT !.at = "host"]
  /\ op' = [op EXCEPT ![Host] = Idle]
  /\ UNCHANGED <<stop, asked>>

HostReturn ==
  /\ exec.at = "host"
  /\ op[Host].pc \in {"idle", "done"}
  /\ exec' = [exec EXCEPT !.at = "wasm"]
  /\ UNCHANGED <<stop, asked, op>>

---------------------------------------------------------------------------
(* The methods of Async *)

Ready(g) ==
  /\ exec.at # "none"
  /\ IF g = Host THEN exec.at = "host" /\ op[g].pc = "idle" ELSE op[g].pc \in {"idle", "done"}

Begin(g, pc, limit) == op' = [op EXCEPT ![g] = [Idle EXCEPT !.pc = pc, !.limit = limit]]
End(g, answer) == op' = [op EXCEPT ![g].pc = "done", ![g].answer = answer]

(* Whether a call of Cancel is going to stop the execution. *)
Heard_InWasmOnly == exec.at = "wasm"                  \* mistake: lost during a host function
Heard == TRUE

Cancel(g) ==
  /\ Ready(g)
  /\ stop' = (stop \/ Heard)
  /\ asked' = TRUE
  /\ UNCHANGED <<exec, op>>

(* C.uint64_t(millisec).  A negative limit becomes one of centuries; that  *)
(* C waits as long as it is told, and does not take the number for another *)
(* or for an error, is an assumption: the repository shows only the cast.  *)
Uint64_Absolute(millisec) == IF millisec < 0 THEN -millisec ELSE millisec  \* mistake
Uint64(millisec) == millisec % 2^Width

MayBlock(g, limit) == g = Host => limit >= 0

WaitFor(g, limit) ==
  /\ Ready(g) /\ MayBlock(g, limit)
  /\ Begin(g, "wait", limit)
  /\ UNCHANGED <<exec, stop, asked>>

(* A millisecond goes by. *)
WaitForTick(g) ==
  /\ op[g].pc = "wait" /\ ~Ended
  /\ op[g].elapsed < Uint64(op[g].limit) /\ op[g].elapsed < Horizon
  /\ op' = [op EXCEPT ![g].elapsed = @ + 1]
  /\ UNCHANGED <<exec, stop, asked>>

AfterTimeout_Retry(o) == [o EXCEPT !.elapsed = 0]     \* mistake: waits again
AfterTimeout(o) == [o EXCEPT !.pc = "done", !.answer = Outcome("false", <<>>)]

WaitForTimeout(g) ==
  /\ op[g].pc = "wait" /\ ~Ended
  /\ op[g].elapsed = Uint64(op[g].limit)
  /\ op' = [op EXCEPT ![g] = AfterTimeout(@)]
  /\ UNCHANGED <<exec, stop, asked>>

WaitForEnd(g) ==
  /\ op[g].pc = "wait" /\ Ended
  /\ End(g, Outcome("true", <<>>))
  /\ UNCHANGED <<exec, stop, asked>>

GetResult(g) ==
  /\ Ready(g) /\ g # Host
  /\ Begin(g, "length", 0)
  /\ UNCHANGED <<exec, stop, asked>>

(* How many values GetResult asks for, once the execution has ended. *)
Arity == Len(exec.outcome.vals)

GetResultLength(g) ==
  /\ op[g].pc = "length" /\ Ended
  /\ op' = [op EXCEPT ![g].pc = "get", ![g].len = Arity]
  /\ UNCHANGED <<exec, stop, asked>>

(* The C library fills the slice that it is given as far as it goes. *)
Filled(n, vals) == [i \in 1 .. n |-> IF i <= Len(vals) THEN vals[i] ELSE Zeroes(n)[i]]

Returned_Unchecked(n, o) == Outcome("ok", Filled(n, o.vals))   \* mistake: the error is dropped
Returned(n, o) == IF o.st = "ok" THEN Outcome("ok", Filled(n, o.vals)) ELSE o

GetResultGet(g) ==
  /\ op[g].pc = "get"
  /\ End(g, Returned(op[g].len, exec.outcome))
  /\ UNCHANGED <<exec, stop, asked>>

---------------------------------------------------------------------------

Step(g) ==
  \/ WaitForTick(g) \/ WaitForTimeout(g) \/ WaitForEnd(g)
  \/ GetResultLength(g) \/ GetResultGet(g)

Next ==
  \/ Start \/ Finish \/ Interrupt \/ HostCall \/ HostReturn
  \/ \E g \in Users :
       \/ Cancel(g) \/ GetResult(g)
       \/ \E limit \in Limits : WaitFor(g, limit)
       \/ Step(g)

(* Goroutines run, clocks tick, and host functions return.  Wasm code need *)
(* never end, but looks at the flag of Cancel again and again.             *)
Fairness ==
  /\ \A g \in Users : WF_vars(Step(g))
  /\ WF_vars(HostReturn)
  /\ SF_vars(Interrupt)

Spec == Init /\ [][Next]_vars /\ Fairness

---------------------------------------------------------------------------

(* The type invariant. *)
TypeOK ==
  /\ exec \in [at : {"none", "wasm", "host", "ended"}, outcome : Outcomes \cup {Pending}]
  /\ stop \in BOOLEAN /\ asked \in BOOLEAN
  /\ op \in [Users ->
       [pc : {"idle", "wait", "length", "get", "done"}, limit : Limits \cup {0},
        elapsed : 0 .. Horizon, len : 0 .. MaxArity,
        answer : Outcomes \cup {Pending, Outcome("true", <<>>), Outcome("false", <<>>)}]]

(* Every variable is of its type, and a WaitFor that answers false has     *)
(* waited as long as it was told.  It never does so for a negative         *)
(* argument, whose cast is a time nobody sees the end of                   *)
(* (async.go:14-16), if C waits for all of it (Uint64).                    *)
TimeoutsJustified ==
  /\ TypeOK
  /\ \A g \in Users :
       op[g].answer = Outcome("false", <<>>) => op[g].limit >= 0 /\ op[g].elapsed >= op[g].limit

(* The answers of the methods, which may take two calls of the C library   *)
(* between which others run and cancel, are those of a future: one         *)
(* outcome, told whole to everybody (async.go:14-34).                      *)
Told == INSTANCE Future WITH
  Askers <- Users,
  outcome <- exec.outcome,
  stop <- asked,
  answer <- [g \in Users |-> op[g].answer]

ImplementsFuture == Told!Spec

(* WaitFor with a limit returns, although the execution may never end.     *)
WaitsAreLimited ==
  \A g \in Users : op[g].pc = "wait" /\ op[g].limit >= 0 ~> op[g].pc # "wait"

(* After Cancel nobody waits for the execution for ever, whatever it does, *)
(* if its host functions return (async.go:18-20).                          *)
CancelReleasesWaiters ==
  \A g \in Users : asked /\ op[g].pc \in {"wait", "length", "get"} ~> op[g].pc = "done"
===========================================================================
