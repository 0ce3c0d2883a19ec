----------------------- MODULE AsyncExecution_proofs -----------------------
(***************************************************************************)
(* Proofs about AsyncExecution, for any goroutines, limits and arities:    *)
(* no time-out comes too early, and the methods of an Async, two of which  *)
(* are several calls of the C library, are those of a Future.              *)
(***************************************************************************)
EXTENDS AsyncExecution, TLAPS

Answers == Outcomes \cup {Pending, Outcome("true", <<>>), Outcome("false", <<>>)}

Ops ==
  [pc : {"idle", "wait", "length", "get", "done"}, limit : Limits \cup {0},
   elapsed : 0 .. Horizon, len : 0 .. MaxArity, answer : Answers]

(* The execution has an outcome when it has ended, and not before; and it  *)
(* is not stopped unless somebody asked for that.                          *)
OutcomeAtEnd ==
  /\ exec.outcome = Pending <=> exec.at # "ended"
  /\ stop => asked

(* What a call relies on: it has answered nobody yet, it waits as long as  *)
(* it was told, and how many results there are has not changed.            *)
CallOK(o) ==
  /\ o.pc # "done" => o.answer = Pending
  /\ o.pc = "wait" => o.limit \in Limits
  /\ o.pc = "get" => exec.at = "ended" /\ o.len = Arity
  /\ o.answer = Outcome("false", <<>>) => o.limit >= 0 /\ o.elapsed >= o.limit

IInv == TypeOK /\ OutcomeAtEnd /\ \A g \in Users : CallOK(op[g])

---------------------------------------------------------------------------

LEMMA OutcomeTypes ==
  /\ Pending \notin Outcomes
  /\ Outcome("true", <<>>) \notin Outcomes \cup {Pending}
  /\ Outcome("false", <<>>) \notin Outcomes \cup {Pending}
  /\ \A o \in Outcomes : o.st \in {"ok", "trap", "cancelled"} /\ Len(o.vals) \in 0 .. MaxArity
<1>1. \A n \in 0 .. MaxArity : Results(n) \in Seq(Nat) /\ Len(Results(n)) = n
  BY ConstantsAssumption DEF Results
<1>2. <<>> \in Seq(Nat) /\ Len(<<>>) = 0
  OBVIOUS
<1>3. \A vals \in Seq(Nat) : \A st \in {"ok", "trap", "cancelled", "true", "false"} :
        [st |-> st, vals |-> vals]
          \in [st : {"ok", "trap", "cancelled", "true", "false"}, vals : Seq(Nat)]
  OBVIOUS
<1>4. \A vals \in Seq(Nat) : \A st \in {"ok", "trap", "cancelled", "true", "false"} :
        Outcome(st, vals) # Pending
  BY <1>3, ConstantsAssumption DEF Outcome
<1>5. Pending \notin Outcomes
  BY <1>1, <1>2, <1>4 DEF Outcomes
<1>6. \A o \in Outcomes : o.st \in {"ok", "trap", "cancelled"} /\ Len(o.vals) \in 0 .. MaxArity
  BY <1>1, <1>2, ConstantsAssumption DEF Outcomes, Outcome
<1>7. Outcome("true", <<>>).st = "true" /\ Outcome("false", <<>>).st = "false"
  BY DEF Outcome
<1> QED BY <1>2, <1>4, <1>5, <1>6, <1>7

(* The conversion of the argument of WaitFor. *)
LEMMA Uint64Value ==
  ASSUME NEW l \in Limits
  PROVE  /\ l >= 0 => Uint64(l) = l
         /\ l < 0 => Uint64(l) > Horizon
<1>1. 2^Width \in Int /\ l \in Int /\ Horizon \in Nat
  BY ConstantsAssumption
<1>2. PICK w : w = 2^Width
  OBVIOUS
<1>3. w \in Nat \ {0} /\ -w <= l /\ l < w /\ l + w > Horizon
  BY <1>1, <1>2, ConstantsAssumption
<1>4. l >= 0 => l % w = l
  BY <1>1, <1>3
<1>5. l < 0 => l % w = l + w
  BY <1>1, <1>3
<1> QED BY <1>1, <1>2, <1>3, <1>4, <1>5 DEF Uint64

(* GetResult asks for as many results as there are, and is told them all. *)
LEMMA ReturnedWhole ==
  ASSUME NEW o \in Outcomes
  PROVE  Returned(Len(o.vals), o) = o
<1>1. CASE o.st = "ok"
  <2>1. PICK n \in 0 .. MaxArity : o = Outcome("ok", Results(n))
    BY <1>1 DEF Outcomes, Outcome
  <2>2. o.vals = Results(n) /\ Len(Results(n)) = n
    BY <2>1, ConstantsAssumption DEF Outcome, Results
  <2>3. Filled(n, Results(n)) = Results(n)
    BY <2>2 DEF Filled, Results
  <2> QED BY <1>1, <2>1, <2>2, <2>3 DEF Returned
<1>2. CASE o.st # "ok"
  BY <1>2 DEF Returned
<1> QED BY <1>1, <1>2

LEMMA IdleOK == Idle \in Ops /\ CallOK(Idle)
<1>1. Idle \in Ops
  BY ConstantsAssumption DEF Idle, Ops, Answers
<1>2. Pending # Outcome("false", <<>>)
  BY OutcomeTypes
<1> QED BY <1>1, <1>2 DEF CallOK, Idle

LEMMA InvInit == Init => IInv
<1> SUFFICES ASSUME Init PROVE IInv
  OBVIOUS
<1>1. TypeOK
  BY IdleOK DEF Init, TypeOK, Ops, Answers
<1>2. OutcomeAtEnd
  BY DEF Init, OutcomeAtEnd
<1> QED BY <1>1, <1>2, IdleOK DEF Init, IInv

---------------------------------------------------------------------------
(* Steps. *)

(* The thread of the execution: it ends once. *)
LEMMA ThreadInv ==
  ASSUME IInv, op' = op, stop' = stop, asked' = asked, exec.at # "ended",
         exec' \in [at : {"wasm", "host", "ended"}, outcome : Outcomes \cup {Pending}],
         exec'.outcome = Pending <=> exec'.at # "ended"
  PROVE  IInv'
<1>1. TypeOK'
  BY DEF IInv, TypeOK
<1>2. OutcomeAtEnd'
  BY DEF IInv, OutcomeAtEnd
<1>3. ASSUME NEW g \in Users PROVE CallOK(op[g])'
  BY DEF IInv, CallOK
<1> QED BY <1>1, <1>2, <1>3 DEF IInv

(* The call of a goroutine, or of the host function. *)
LEMMA CallInv ==
  ASSUME IInv, NEW g \in Users, NEW o \in Ops, op' = [op EXCEPT ![g] = o],
         CallOK(o), UNCHANGED <<exec, stop, asked>>
  PROVE  IInv'
<1>1. TypeOK'
  BY DEF IInv, TypeOK, Ops, Answers
<1>2. OutcomeAtEnd'
  BY DEF IInv, OutcomeAtEnd
<1>3. ASSUME NEW h \in Users PROVE CallOK(op[h])'
  <2>1. op'[h] = IF h = g THEN o ELSE op[h]
    BY DEF IInv, TypeOK
  <2> QED BY <2>1 DEF IInv, CallOK, Arity
<1> QED BY <1>1, <1>2, <1>3 DEF IInv

LEMMA HostCallInv == ASSUME IInv, HostCall PROVE IInv'
<1>1. TypeOK'
  BY IdleOK DEF IInv, TypeOK, HostCall, Ops, Answers, Users
<1>2. OutcomeAtEnd'
  BY DEF IInv, OutcomeAtEnd, HostCall, TypeOK
<1>3. ASSUME NEW h \in Users PROVE CallOK(op[h])'
  <2>1. op'[h] = Idle \/ op'[h] = op[h]
    BY DEF HostCall, IInv, TypeOK
  <2>2. CallOK(op[h]) /\ CallOK(Idle)
    BY IdleOK DEF IInv
  <2>3. op[h].pc # "get"
    BY <2>2 DEF HostCall, CallOK
  <2> QED BY <2>1, <2>2, <2>3 DEF CallOK, Idle
<1> QED BY <1>1, <1>2, <1>3 DEF IInv

LEMMA BeginInv ==
  ASSUME IInv, NEW g \in Users, NEW pc \in {"wait", "length"}, NEW limit \in Limits \cup {0},
         pc = "wait" => limit \in Limits,
         Begin(g, pc, limit), UNCHANGED <<exec, stop, asked>>
  PROVE  IInv'
<1>1. PICK o : o = [Idle EXCEPT !.pc = pc, !.limit = limit]
  OBVIOUS
<1>2. o \in Ops
  BY <1>1, IdleOK DEF Ops, Idle
<1>3. CallOK(o)
  BY <1>1, OutcomeTypes DEF CallOK, Idle
<1> QED BY <1>1, <1>2, <1>3, CallInv DEF Begin

LEMMA TickInv == ASSUME IInv, NEW g \in Users, WaitForTick(g) PROVE IInv'
<1>1. PICK o : o = [op[g] EXCEPT !.elapsed = @ + 1]
  OBVIOUS
<1>2. op[g] \in Ops /\ CallOK(op[g]) /\ op[g].pc = "wait" /\ op[g].elapsed < Horizon
  BY DEF IInv, TypeOK, Ops, Answers, WaitForTick
<1>3. o \in Ops
  BY <1>1, <1>2, ConstantsAssumption DEF Ops
<1>4. CallOK(o)
  BY <1>1, <1>2, OutcomeTypes DEF CallOK, Ops
<1>5. op' = [op EXCEPT ![g] = o]
  BY <1>1 DEF IInv, TypeOK, WaitForTick
<1> QED BY <1>3, <1>4, <1>5, CallInv DEF WaitForTick

LEMMA TimeoutInv == ASSUME IInv, NEW g \in Users, WaitForTimeout(g) PROVE IInv'
<1>1. PICK o : o = AfterTimeout(op[g])
  OBVIOUS
<1>2. op[g] \in Ops /\ CallOK(op[g]) /\ op[g].pc = "wait" /\ op[g].elapsed = Uint64(op[g].limit)
  BY DEF IInv, TypeOK, Ops, Answers, WaitForTimeout
<1>3. o \in Ops
  BY <1>1, <1>2 DEF Ops, Answers, AfterTimeout
<1>4. op[g].limit >= 0 /\ op[g].elapsed = op[g].limit
  <2>1. op[g].limit \in Limits /\ op[g].limit \in Int
    BY <1>2, ConstantsAssumption DEF CallOK
  <2>2. op[g].elapsed <= Horizon /\ op[g].elapsed \in Nat /\ Horizon \in Nat
    BY <1>2, ConstantsAssumption DEF Ops
  <2>3. CASE op[g].limit < 0
    BY <1>2, <2>1, <2>2, <2>3, Uint64Value
  <2>4. CASE op[g].limit >= 0
    BY <1>2, <2>1, <2>4, Uint64Value
  <2> QED BY <2>1, <2>3, <2>4
<1>5. CallOK(o)
  BY <1>1, <1>2, <1>4 DEF CallOK, AfterTimeout, Ops
<1>6. op' = [op EXCEPT ![g] = o]
  BY <1>1 DEF IInv, TypeOK, WaitForTimeout
<1> QED BY <1>3, <1>5, <1>6, CallInv DEF WaitForTimeout

LEMMA EndInv ==
  ASSUME IInv, NEW g \in Users, NEW a \in Outcomes \cup {Outcome("true", <<>>)}, End(g, a),
         UNCHANGED <<exec, stop, asked>>
  PROVE  IInv'
<1>1. PICK o : o = [op[g] EXCEPT !.pc = "done", !.answer = a]
  OBVIOUS
<1>2. op[g] \in Ops
  BY DEF IInv, TypeOK, Ops, Answers
<1>3. o \in Ops
  BY <1>1, <1>2 DEF Ops, Answers
<1>4. a # Outcome("false", <<>>)
  <2>1. Outcome("true", <<>>) # Outcome("false", <<>>)
    BY DEF Outcome
  <2> QED BY <2>1, OutcomeTypes
<1>5. CallOK(o)
  BY <1>1, <1>2, <1>4 DEF CallOK, Ops
<1>6. op' = [op EXCEPT ![g] = o]
  BY <1>1 DEF IInv, TypeOK, End
<1> QED BY <1>3, <1>5, <1>6, CallInv

LEMMA LengthInv == ASSUME IInv, NEW g \in Users, GetResultLength(g) PROVE IInv'
<1>1. PICK o : o = [op[g] EXCEPT !.pc = "get", !.len = Arity]
  OBVIOUS
<1>2. op[g] \in Ops /\ CallOK(op[g]) /\ op[g].pc = "length" /\ exec.at = "ended"
  BY DEF IInv, TypeOK, Ops, Answers, GetResultLength, Ended
<1>3. Arity \in 0 .. MaxArity
  BY <1>2, OutcomeTypes DEF IInv, TypeOK, OutcomeAtEnd, Arity
<1>4. o \in Ops
  BY <1>1, <1>2, <1>3 DEF Ops
<1>5. CallOK(o)
  BY <1>1, <1>2 DEF CallOK, Ops
<1>6. op' = [op EXCEPT ![g] = o]
  BY <1>1 DEF IInv, TypeOK, GetResultLength
<1> QED BY <1>4, <1>5, <1>6, CallInv DEF GetResultLength

(* What GetResult answers is the outcome. *)
LEMMA AnswerIsOutcome ==
  ASSUME IInv, NEW g \in Users, GetResultGet(g)
  PROVE  /\ Returned(op[g].len, exec.outcome) = exec.outcome
         /\ exec.outcome \in Outcomes
         /\ op[g].answer = Pending
<1>1. op[g].pc = "get" /\ CallOK(op[g])
  BY DEF IInv, GetResultGet
<1>2. op[g].len = Len(exec.outcome.vals) /\ exec.at = "ended"
  BY <1>1 DEF CallOK, Arity
<1>3. exec.outcome \in Outcomes
  BY <1>2 DEF IInv, TypeOK, OutcomeAtEnd
<1> QED BY <1>1, <1>2, <1>3, ReturnedWhole DEF CallOK

LEMMA InvStep == IInv /\ [Next]_vars => IInv'
<1> SUFFICES ASSUME IInv, [Next]_vars PROVE IInv'
  OBVIOUS
<1>1. CASE UNCHANGED vars
  BY <1>1 DEF vars, IInv, TypeOK, OutcomeAtEnd, CallOK, Arity
<1>2. CASE Start \/ HostReturn
  BY <1>2, ThreadInv DEF Start, HostReturn, IInv, TypeOK, OutcomeAtEnd
<1>3. CASE Finish
  <2>1. PICK o \in Outcomes : exec' = [at |-> "ended", outcome |-> o]
    BY <1>3 DEF Finish
  <2>2. o # Pending
    BY OutcomeTypes
  <2> QED BY <1>3, <2>1, <2>2, ThreadInv DEF Finish
<1>4. CASE Interrupt
  <2>1. Outcome("cancelled", <<>>) \in Outcomes /\ Outcome("cancelled", <<>>) # Pending
    BY OutcomeTypes DEF Outcomes
  <2> QED BY <1>4, <2>1, ThreadInv DEF Interrupt
<1>5. CASE HostCall
  BY <1>5, HostCallInv
<1>6. ASSUME NEW g \in Users, Cancel(g) PROVE IInv'
  BY <1>6 DEF Cancel, Heard, IInv, TypeOK, OutcomeAtEnd, CallOK, Arity
<1>7. ASSUME NEW g \in Users, GetResult(g) PROVE IInv'
  BY <1>7, BeginInv DEF GetResult
<1>8. ASSUME NEW g \in Users, NEW limit \in Limits, WaitFor(g, limit) PROVE IInv'
  BY <1>8, BeginInv DEF WaitFor
<1>9. ASSUME NEW g \in Users, WaitForEnd(g) PROVE IInv'
  BY <1>9, EndInv DEF WaitForEnd
<1>10. ASSUME NEW g \in Users, GetResultGet(g) PROVE IInv'
  BY <1>10, AnswerIsOutcome, EndInv DEF GetResultGet
<1> QED
  BY <1>1, <1>2, <1>3, <1>4, <1>5, <1>6, <1>7, <1>8, <1>9, <1>10, TickInv, TimeoutInv, LengthInv
     DEF Next, Step

(* The inductive invariant: there is an outcome as soon as the execution   *)
(* has ended, and a call that is under way has answered nobody and knows   *)
(* how many results there are (async.go:14-34).                            *)
THEOREM CallsInStep == Spec => []IInv
<1> QED BY InvInit, InvStep, PTL DEF Spec

(* A WaitFor that answers false has waited as long as it was told, and a   *)
(* negative argument never gets that answer (async.go:14-16); and every    *)
(* variable is of its type.                                                *)
THEOREM TimeoutsJustifiedHolds == Spec => []TimeoutsJustified
<1>1. IInv => TimeoutsJustified
  BY DEF IInv, CallOK, TimeoutsJustified
<1> QED BY <1>1, CallsInStep, PTL

---------------------------------------------------------------------------
(* The refinement. *)

LEMMA FutureInit == Init => Told!Init
BY DEF Init, Told!Init, Idle

(* A step after which one user's answer is another one. *)
LEMMA AnswersAfter ==
  ASSUME NEW g \in Users, NEW o, op \in [Users -> Ops], op' = [op EXCEPT ![g] = o]
  PROVE  [h \in Users |-> op[h].answer]'
           = [[h \in Users |-> op[h].answer] EXCEPT ![g] = o.answer]
OBVIOUS

LEMMA FutureStep == IInv /\ [Next]_vars => [Told!Next]_(Told!vars)
<1> SUFFICES ASSUME IInv, [Next]_vars PROVE [Told!Next]_(Told!vars)
  OBVIOUS
<1>t. /\ op \in [Users -> Ops]
      /\ exec.at # "ended" <=> exec.outcome = Pending
      /\ exec \in [at : {"none", "wasm", "host", "ended"}, outcome : Outcomes \cup {Pending}]
  BY DEF IInv, TypeOK, Ops, Answers, OutcomeAtEnd
<1>a. ASSUME NEW g \in Users, NEW o, op' = [op EXCEPT ![g] = o], o.answer = Pending,
             exec'.outcome = exec.outcome, asked' = asked
      PROVE  Told!Next
  BY <1>a, <1>t, AnswersAfter DEF Told!Next, Told!Ask
<1>s. ASSUME exec'.outcome = exec.outcome, asked' = asked,
             \A g \in Users : op'[g].answer = op[g].answer
      PROVE  UNCHANGED Told!vars
  BY <1>s DEF Told!vars
<1>1. CASE UNCHANGED vars
  BY <1>1, <1>s DEF vars
<1>2. CASE Start \/ HostReturn
  BY <1>2, <1>t, <1>s DEF Start, HostReturn
<1>3. CASE Finish
  BY <1>3, <1>t DEF Finish, Told!Next, Told!Decide
<1>4. CASE Interrupt
  <2>1. Outcome("cancelled", <<>>) \in Outcomes /\ asked
    BY <1>4 DEF Outcomes, Interrupt, IInv, OutcomeAtEnd
  <2> QED BY <1>4, <1>t, <2>1 DEF Interrupt, Told!Next, Told!Decide
<1>5. CASE HostCall
  <2>1. Host \in Users /\ Idle.answer = Pending
    BY DEF Users, Idle
  <2>2. op' = [op EXCEPT ![Host] = Idle] /\ exec'.outcome = exec.outcome /\ asked' = asked
    BY <1>5, <1>t DEF HostCall
  <2> QED BY <1>a, <2>1, <2>2
<1>6. ASSUME NEW g \in Users, Cancel(g) PROVE Told!Next
  BY <1>6 DEF Cancel, Told!Next, Told!Cancel
<1>7. ASSUME NEW g \in Users, GetResult(g) \/ \E limit \in Limits : WaitFor(g, limit)
      PROVE  Told!Next
  <2>1. PICK pc, limit : Begin(g, pc, limit)
    BY <1>7 DEF GetResult, WaitFor
  <2>2. PICK o : o = [Idle EXCEPT !.pc = pc, !.limit = limit]
    OBVIOUS
  <2>3. op' = [op EXCEPT ![g] = o] /\ o.answer = Pending
    BY <2>1, <2>2 DEF Begin, Idle
  <2> QED BY <1>7, <1>a, <2>3 DEF GetResult, WaitFor
<1>8. ASSUME NEW g \in Users, WaitForTick(g) \/ GetResultLength(g)
      PROVE  UNCHANGED Told!vars
  BY <1>8, <1>s, <1>t DEF WaitForTick, GetResultLength, Ops
<1>9. ASSUME NEW g \in Users, NEW o, op' = [op EXCEPT ![g] = o], op[g].answer = Pending,
             exec' = exec, asked' = asked,
             o.answer \in IF exec.outcome = Pending THEN {Outcome("false", <<>>)}
                          ELSE {exec.outcome, Outcome("true", <<>>)}
      PROVE  Told!Next
  <2>1. Told!Tell(g)
    BY <1>9, <1>t, AnswersAfter
       DEF Told!Tell, Told!TooEarly, Told!HasEnded, Told!Told, Outcome
  <2> QED BY <2>1 DEF Told!Next
<1>10. ASSUME NEW g \in Users, WaitForTimeout(g) PROVE Told!Next
  <2>1. PICK o : o = AfterTimeout(op[g])
    OBVIOUS
  <2>2. op[g].answer = Pending /\ exec.outcome = Pending
    BY <1>10, <1>t DEF IInv, CallOK, WaitForTimeout, Ended
  <2>3. op' = [op EXCEPT ![g] = o] /\ exec' = exec /\ asked' = asked
    BY <1>10, <1>t, <2>1 DEF WaitForTimeout
  <2>4. o.answer = Outcome("false", <<>>)
    BY <1>t, <2>1 DEF AfterTimeout, Ops
  <2> QED BY <1>9, <2>2, <2>3, <2>4
<1>11. ASSUME NEW g \in Users, NEW a \in {exec.outcome, Outcome("true", <<>>)}, End(g, a),
              op[g].answer = Pending, exec.outcome # Pending, exec' = exec, asked' = asked
       PROVE  Told!Next
  <2>1. PICK o : o = [op[g] EXCEPT !.pc = "done", !.answer = a]
    OBVIOUS
  <2>2. op' = [op EXCEPT ![g] = o]
    BY <1>11, <1>t, <2>1 DEF End
  <2>3. o.answer = a
    BY <1>t, <2>1 DEF Ops
  <2> QED BY <1>9, <1>11, <2>2, <2>3
<1>12. ASSUME NEW g \in Users, WaitForEnd(g) PROVE Told!Next
  BY <1>12, <1>11, <1>t DEF WaitForEnd, Ended, IInv, CallOK
<1>13. ASSUME NEW g \in Users, GetResultGet(g) PROVE Told!Next
  <2>1. exec.outcome # Pending
    BY <1>13, AnswerIsOutcome, OutcomeTypes
  <2> QED BY <1>13, <1>11, <2>1, AnswerIsOutcome DEF GetResultGet
<1> QED
  BY <1>1, <1>2, <1>3, <1>4, <1>5, <1>6, <1>7, <1>8, <1>10, <1>12, <1>13 DEF Next, Step

(* The methods of an Async are those of a future: GetResult and WaitFor,   *)
(* between whose calls of the C library other goroutines run and cancel,   *)
(* tell everybody the one outcome of the execution, whole                  *)
(* (async.go:14-34, vm.go:139-194).                                        *)
THEOREM ImplementsFutureHolds == Spec => ImplementsFuture
<1> QED BY CallsInStep, FutureInit, FutureStep, PTL DEF Spec, ImplementsFuture, Told!Spec
=============================================================================
