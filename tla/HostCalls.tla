----------------------------- MODULE HostCalls -----------------------------
(***************************************************************************)
(* A call from Go to Go, through the C library: Executor.Invoke (and       *)
(* VM.Execute, which converts in the same way) passes its parameters to a  *)
(* host function and returns its results; wasmedgego_HostFuncInvokeImpl    *)
(* converts them once more on the other side.  And a global variable,      *)
(* whose value makes the same journey (instance.go:456-486).               *)
(*                                                                         *)
(* A panic ends the program.  Which Go function is called is the business  *)
(* of HostFunctions.  The proofs extend this module and Instances, which   *)
(* is why the names of its specification begin with Calls.                 *)
(***************************************************************************)
EXTENDS Values

CONSTANTS
  Vals,         \* Go values the program passes, returns and stores
  FuncTypes,    \* the types of functions
  MaxReturns,   \* bound: how many values a host function returns
  NoValue

ASSUME CallsAssumption ==
  /\ \A v \in Vals : IsGoValue(v)
  /\ FuncTypes \subseteq [params : Seq(WasmTypes), returns : Seq(WasmTypes)]
  /\ MaxReturns \in Nat

VARIABLES
  word,     \* the size of int and uint on this platform
  call,     \* the call under way
  global,   \* the C global, NoValue before NewGlobal
  stored    \* history: the Go value last stored in it

callsVars == <<word, call, global, stored>>

NewFunctionType(params, returns) == [params |-> params, returns |-> returns]
GetReturnsLength(type) == Len(type.returns)

NoCall == [pc |-> "idle", type |-> NewFunctionType(<<>>, <<>>), args |-> <<>>, cparams |-> <<>>,
           goparams |-> <<>>, goreturns |-> <<>>, creturns |-> <<>>, fails |-> FALSE,
           results |-> <<>>]

CallsInit ==
  /\ word \in {"i32", "i64"}
  /\ call = NoCall
  /\ global = NoValue
  /\ stored = NoValue

UpTo(n) == UNION {[1 .. k -> Vals] : k \in 0 .. n}
Panicked == call.pc = "panic"

---------------------------------------------------------------------------
(* Calls *)

(* The C library's slots for results, before anything is written. *)
EmptySlots(type) == [i \in 1 .. GetReturnsLength(type) |-> Wasm(type.returns[i], 0)]

(* Invoke converts the parameters, or panics before it calls C ... *)
Invoke(type, args) ==
  LET begun == [NoCall EXCEPT !.type = type, !.args = args] IN
  /\ call.pc = "idle"
  /\ call' = IF \A i \in DOMAIN args : Supported(args[i])
             THEN [begun EXCEPT !.pc = "invoke", !.cparams = ToWasmSlide(args, word)]
             ELSE [begun EXCEPT !.pc = "panic"]
  /\ UNCHANGED <<word, global, stored>>

TypesMatch(cparams, ptypes) ==
  Len(cparams) = Len(ptypes) /\ \A i \in DOMAIN cparams : cparams[i].type = ptypes[i]

(* ... which refuses parameters of other types than the function's.        *)
InvokeRefused ==
  /\ call.pc = "invoke"
  /\ ~TypesMatch(call.cparams, call.type.params)
  /\ call' = NoCall
  /\ UNCHANGED <<word, global, stored>>

HostFuncInvoke ==
  /\ call.pc = "invoke"
  /\ TypesMatch(call.cparams, call.type.params)
  /\ call' = [call EXCEPT !.pc = "host",
                          !.goparams = FromWasmSlide(call.cparams),
                          !.creturns = EmptySlots(call.type)]
  /\ UNCHANGED <<word, global, stored>>

(* The values that a host function returns are written into the slots that *)
(* there are; a panic leaves it half done.                                 *)
Returned_All(rets, len) == rets                        \* mistake: i < returnlen is not tested
Returned(rets, len) == SubSeq(rets, 1, IF Len(rets) <= len THEN Len(rets) ELSE len)

CanWrite(rets, len) == Len(rets) <= len /\ \A i \in DOMAIN rets : Supported(rets[i])

Filled_FromEnd(cells, rets) ==                        \* mistake: the last results first
  [i \in DOMAIN cells |-> IF i <= Len(rets) THEN ToWasm(rets[Len(rets) + 1 - i], word) ELSE cells[i]]
Filled(cells, rets) ==
  [i \in DOMAIN cells |-> IF i <= Len(rets) THEN ToWasm(rets[i], word) ELSE cells[i]]

(* A host function returns values of the types it was declared with, or    *)
(* none, or too few, or too many; and that it failed, or not.              *)
MayReturn(rets) ==
  \A i \in DOMAIN rets :
    i <= GetReturnsLength(call.type) =>
      WasmTypeOf(rets[i].type, word) \in {call.type.returns[i], "unsupported"}

HostFuncReturn(rets, fails) ==
  LET len == GetReturnsLength(call.type)  written == Returned(rets, len) IN
  /\ call.pc = "host"
  /\ MayReturn(rets)
  /\ call' = [NoCall EXCEPT !.type = [call.type EXCEPT !.params = <<>>],
                            !.goreturns = rets, !.fails = fails,
                            !.pc = IF CanWrite(written, len) THEN "returned" ELSE "panic",
                            !.creturns = IF CanWrite(written, len) THEN Filled(call.creturns, written)
                                         ELSE call.creturns]
  /\ UNCHANGED <<word, global, stored>>

(* Invoke returns the results, as many as the function has, or the error.  *)
Results_OnError(cells, fails) == FromWasmSlide(cells) \* mistake: the error is dropped
Results(cells, fails) == IF fails THEN <<>> ELSE FromWasmSlide(cells)

InvokeReturn ==
  /\ call.pc = "returned"
  /\ call' = [call EXCEPT !.pc = "done", !.results = Results(call.creturns, call.fails)]
  /\ UNCHANGED <<word, global, stored>>

Forget ==
  /\ call.pc = "done"
  /\ call' = NoCall
  /\ UNCHANGED <<word, global, stored>>

---------------------------------------------------------------------------
(* A global *)

PanicIn(v) == call' = [NoCall EXCEPT !.pc = "panic", !.args = <<v>>]

GlobalTypes == [type : WasmTypes, var : BOOLEAN]

(* A nil type makes no global, whatever the value, and C may make none.    *)
(* What C does with a value of another type than the global's is not seen  *)
(* in this repository: the program passes one of its type.                 *)
NewGlobal(gtype, v) ==
  /\ call.pc = "idle" /\ global = NoValue
  /\ \/ UNCHANGED <<call, global, stored>>
     \/ gtype # NoValue /\ ~Supported(v) /\ PanicIn(v) /\ UNCHANGED <<global, stored>>
     \/ /\ gtype # NoValue /\ Supported(v) /\ ToWasm(v, word).type = gtype.type
        /\ global' = [c |-> ToWasm(v, word), var |-> gtype.var]
        /\ stored' = v
        /\ UNCHANGED call
  /\ UNCHANGED word

(* The C library accepts a value of the same type, for a variable global.  *)
SetValue(v) ==
  /\ call.pc = "idle" /\ global # NoValue
  /\ IF ~Supported(v)
     THEN PanicIn(v) /\ UNCHANGED <<global, stored>>
     ELSE LET c == ToWasm(v, word) IN
          /\ UNCHANGED call
          /\ IF global.var /\ c.type = global.c.type
             THEN global' = [global EXCEPT !.c = c] /\ stored' = v
             ELSE UNCHANGED <<global, stored>>
  /\ UNCHANGED word

GetValue == FromWasm(global.c)

---------------------------------------------------------------------------

(* Nothing happens after a panic. *)
Crashed == Panicked /\ UNCHANGED callsVars

CallsNext ==
  \/ \E type \in FuncTypes : \E args \in UpTo(Len(type.params)) : Invoke(type, args)
  \/ InvokeRefused \/ HostFuncInvoke
  \/ \E rets \in UpTo(MaxReturns), fails \in BOOLEAN : HostFuncReturn(rets, fails)
  \/ InvokeReturn \/ Forget
  \/ \E v \in Vals : SetValue(v) \/ \E gtype \in GlobalTypes \cup {NoValue} : NewGlobal(gtype, v)
  \/ Crashed

CallsSpec == CallsInit /\ [][CallsNext]_callsVars

---------------------------------------------------------------------------

WasmSlide(types, cvals) ==
  /\ Len(cvals) <= Len(types)
  /\ \A i \in DOMAIN cvals : cvals[i].type = types[i] /\ cvals[i].bits \in 0 .. SizeOf(types[i]) - 1

(* The type invariant: what reaches wasm code and the slots for results    *)
(* has the types of the function, and fits into them.                      *)
CallsTypeOK ==
  /\ word \in {"i32", "i64"}
  /\ call.pc \in {"idle", "invoke", "host", "returned", "done", "panic"}
  /\ call.pc = "host" => WasmSlide(call.type.params, call.cparams)
  /\ call.pc = "returned" => WasmSlide(call.type.returns, call.creturns)

ArrivedSlide(vals) == [i \in DOMAIN vals |-> Arrived(vals[i], word)]

(* What reaches wasm code and the slots for results is of the types of the *)
(* function, and the host function is passed the parameters of Invoke, in  *)
(* their order, converted as the reference says (value.go:252-330,         *)
(* hostfunc.go:60-79).                                                     *)
HostSeesArguments ==
  /\ CallsTypeOK
  /\ call.pc = "host" => call.goparams = ArrivedSlide(call.args)

(* The caller gets as many results as the function has, the host           *)
(* function's as far as it returned any and zeroes after that; after a     *)
(* failure it gets none (hostfunc.go:84-97, executor.go:85-92).            *)
CallerSeesReturns ==
  call.pc = "done" =>
    call.results =
      IF call.fails THEN <<>>
      ELSE [i \in 1 .. GetReturnsLength(call.type) |->
              IF i <= Len(call.goreturns) THEN Arrived(call.goreturns[i], word)
              ELSE FromWasm(Wasm(call.type.returns[i], 0))]

(* A call panics only over a value of a type without a wasm type: never    *)
(* because a host function returned more or fewer values than declared     *)
(* (hostfunc.go:90-94).                                                    *)
PanicsJustified ==
  Panicked => \E S \in {call.args, call.goreturns} : \E i \in DOMAIN S : ~Supported(S[i])

(* A global holds what was last stored in it.                              *)
GlobalHoldsLast ==
  global # NoValue => GetValue = Arrived(stored, word)
===========================================================================
