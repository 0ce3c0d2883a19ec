---------------------------- MODULE VMWorkflow ----------------------------
(***************************************************************************)
(* VM (vm.go): loading, validating, instantiating and registering wasm     *)
(* modules, and the calls that execute a function by name.  Each Go method *)
(* is one or more calls of the C VM, and each of those is one step: the C  *)
(* VM has a lock of its own, the Go methods have none.                     *)
(*                                                                         *)
(* The methods that execute make two calls: the first asks for the type of *)
(* the function, from which they allocate the results, and the second      *)
(* executes it.  RunWasm* make five.  The methods that list names ask for  *)
(* their number first, make room, and ask for the names.                   *)
(*                                                                         *)
(* The guards Alone and NoRun say what the program has to take care of     *)
(* when goroutines share a VM.                                             *)
(***************************************************************************)
EXTENDS Naturals, FiniteSets

CONSTANTS
  Nil,
  Goroutines,
  Mods,        \* wasm modules
  Names,       \* names under which modules are registered
  Funcs,       \* function names
  Arity        \* Arity[m][fn]: how many results fn of m has, Nil if m does not export it

ASSUME ConstantsAssumption ==
  /\ Nil \notin Mods \cup Names \cup Funcs \cup Nat
  /\ Arity \in [Mods -> [Funcs -> Nat \cup {Nil}]]
  /\ IsFiniteSet(Names) /\ IsFiniteSet(Funcs)

VARIABLES
  stage,    \* of the C VM: "inited", "loaded", "validated", "instantiated"
  loaded,   \* the module last loaded, or Nil
  active,   \* the module last instantiated, or Nil
  reg,      \* reg[n]: the module registered as n, or Nil
  op        \* op[g]: the call goroutine g is in, or how its last one ended

vars == <<stage, loaded, active, reg, op>>

Lists == {"functions", "modules"}
Kinds == {"execute", "registered", "bindgen", "bindgen_registered"} \cup Lists
Ended == {"idle", "ok", "error", "panic"}

Idle == [pc |-> "idle", kind |-> "execute", run |-> Nil, name |-> Nil, fn |-> Nil,
         ret |-> "any", len |-> 0, nil |-> FALSE, of |-> Nil, names |-> {}]

Failed == [Idle EXCEPT !.pc = "error"]

Init ==
  /\ stage = "inited" /\ loaded = Nil /\ active = Nil
  /\ reg = [n \in Names |-> Nil]
  /\ op = [g \in Goroutines |-> Idle]

Free(g) == op[g].pc \in Ended

(* What changes the active or the registered modules is not called while   *)
(* another call that executes is under way (a list of names may be, when a *)
(* module is registered); and nothing is loaded, and no other call that    *)
(* executes or lists begun, during a RunWasm.                              *)
Alone(g) == \A h \in Goroutines \ {g} : Free(h)
OnlyLists(g) == \A h \in Goroutines \ {g} : Free(h) \/ op[h].kind \in Lists
NoRun(g) == \A h \in Goroutines \ {g} : Free(h) \/ op[h].run = Nil

TypeOf(m, fn) == IF m = Nil THEN Nil ELSE Arity[m][fn]

---------------------------------------------------------------------------
(* The steps of the C VM.  Each of them may fail, and then changes nothing. *)

LoadModule(m) == loaded' = m /\ stage' = "loaded" /\ UNCHANGED <<active, reg>>

ValidateModule ==
  /\ stage # "inited"
  /\ stage' = "validated"
  /\ UNCHANGED <<loaded, active, reg>>

InstantiateModule ==
  /\ stage \in {"validated", "instantiated"}
  /\ stage' = "instantiated"
  /\ active' = loaded
  /\ UNCHANGED <<loaded, reg>>

(* A name is registered once.  The VM may ask for a new instantiation.     *)
RegisterModule(n, m) ==
  /\ reg[n] = Nil
  /\ reg' = [reg EXCEPT ![n] = m]
  /\ stage' \in {stage, IF stage = "instantiated" THEN "validated" ELSE stage}
  /\ UNCHANGED <<loaded, active>>

CleanupVM ==
  /\ stage' = "inited" /\ loaded' = Nil /\ active' = Nil
  /\ reg' = [n \in Names |-> Nil]

---------------------------------------------------------------------------
(* The methods that change the modules. *)

Load(g, m) ==
  /\ Free(g) /\ NoRun(g)
  /\ LoadModule(m)
  /\ UNCHANGED op

Validate(g) ==
  /\ Free(g) /\ NoRun(g)
  /\ ValidateModule
  /\ UNCHANGED op

Instantiate(g) ==
  /\ Free(g) /\ Alone(g)
  /\ InstantiateModule
  /\ UNCHANGED op

Register(g, n, m) ==
  /\ Free(g) /\ OnlyLists(g)
  /\ RegisterModule(n, m)
  /\ UNCHANGED op

Cleanup(g) ==
  /\ Free(g) /\ Alone(g)
  /\ CleanupVM
  /\ UNCHANGED op

---------------------------------------------------------------------------
(* The methods that execute. *)

(* RunWasm*: load the module, ... *)
RunWasm(g, m, fn) ==
  LET begun == [Idle EXCEPT !.run = m, !.fn = fn] IN
  /\ Free(g) /\ Alone(g)
  /\ \/ LoadModule(m) /\ op' = [op EXCEPT ![g] = [begun EXCEPT !.pc = "validate"]]
     \/ op' = [op EXCEPT ![g] = Failed] /\ UNCHANGED <<stage, loaded, active, reg>>

(* ... and in runWasm validate it, instantiate it, and Execute. *)
RunValidate(g) ==
  /\ op[g].pc = "validate"
  /\ \/ ValidateModule /\ op' = [op EXCEPT ![g].pc = "instantiate"]
     \/ op' = [op EXCEPT ![g] = Failed] /\ UNCHANGED <<stage, loaded, active, reg>>

(* What follows a failed instantiation. *)
AfterFailure_GoesOn(o) == [o EXCEPT !.pc = "type"]    \* mistake: the error is not returned
AfterFailure(o) == Failed

RunInstantiate(g) ==
  /\ op[g].pc = "instantiate"
  /\ \/ InstantiateModule /\ op' = [op EXCEPT ![g].pc = "type"]
     \/ op' = [op EXCEPT ![g] = AfterFailure(op[g])] /\ UNCHANGED <<stage, loaded, active, reg>>

(* Execute, ExecuteRegistered, ExecuteBindgen, ExecuteBindgenRegistered.   *)
Execute(g, kind, n, fn, ret) ==
  /\ Free(g) /\ NoRun(g)
  /\ op' = [op EXCEPT ![g] = [Idle EXCEPT !.pc = "type", !.kind = kind, !.name = n,
                                          !.fn = fn, !.ret = ret]]
  /\ UNCHANGED <<stage, loaded, active, reg>>

(* The module whose function is executed. *)
Executed(o) == IF o.kind \in {"execute", "bindgen"} THEN active ELSE reg[o.name]

(* The module in which the type is looked up: GetFunctionTypeRegistered in *)
(* ExecuteRegistered, and GetFunctionType in all the others.               *)
LookedUp_AlwaysActive(o) == active                    \* mistake: also in ExecuteRegistered
LookedUp_LastLoaded(o) == IF o.kind = "registered" THEN reg[o.name] ELSE loaded   \* mistake
LookedUp(o) == IF o.kind = "registered" THEN reg[o.name] ELSE active

(* GetReturnsLength; a missing type counts as one without results.         *)
ReturnsLength(type) == IF type = Nil THEN 0 ELSE type

(* Without a type there are no results, and the VM is to report the error. *)
(* The parameters are then converted, in memory of the call's own: what    *)
(* becomes of them, and the panic over one, are in HostCalls (Invoke).     *)
GetType(g) ==
  LET type == TypeOf(LookedUp(op[g]), op[g].fn) IN
  /\ op[g].pc = "type"
  /\ op' = [op EXCEPT ![g].pc = "call",
                      ![g].nil = (type = Nil),
                      ![g].len = ReturnsLength(type)]
  /\ UNCHANGED <<stage, loaded, active, reg>>

(* The VM reports an unknown function or a trap, or executes the function; *)
(* the bindgen methods then unpack the result they were told to expect.    *)
Call(g) ==
  LET m == Executed(op[g]) IN
  /\ op[g].pc = "call"
  /\ \/ op' = [op EXCEPT ![g] = Failed]
     \/ /\ TypeOf(m, op[g].fn) # Nil
        /\ op' = [op EXCEPT ![g].of = m,
                            ![g].pc = IF op[g].ret = "i32" /\ op[g].len = 0 THEN "panic" ELSE "ok"]
  /\ UNCHANGED <<stage, loaded, active, reg>>

---------------------------------------------------------------------------
(* The methods that list names. *)

(* The functions of the active module, the modules the VM's store knows.   *)
Content(kind) ==
  IF kind = "functions" THEN {fn \in Funcs : TypeOf(active, fn) # Nil}
  ELSE {n \in Names : reg[n] # Nil}

Length_OfFunctions(kind) == Cardinality(Content("functions"))   \* mistake: the same for all
Length(kind) == Cardinality(Content(kind))

List(g, kind) ==
  /\ Free(g) /\ NoRun(g)
  /\ op' = [op EXCEPT ![g] = [Idle EXCEPT !.pc = "list", !.kind = kind, !.len = Length(kind)]]
  /\ UNCHANGED <<stage, loaded, active, reg>>

GetFunctionList(g) == List(g, "functions")
ListFunction(g) == List(g, "functions")
ListRegisteredModule(g) == List(g, "modules")
ListModule(g) == List(g, "modules")

(* The C library fills the room there is with as many names as it has, in  *)
(* an order of its own; what it does not fill becomes empty names.         *)
ListNames(g) ==
  /\ op[g].pc = "list"
  /\ \E names \in SUBSET Content(op[g].kind) :
       /\ Cardinality(names) <= op[g].len
       /\ Cardinality(names) = op[g].len \/ names = Content(op[g].kind)
       /\ op' = [op EXCEPT ![g].pc = "ok", ![g].names = names]
  /\ UNCHANGED <<stage, loaded, active, reg>>

Next ==
  \E g \in Goroutines :
    \/ \E m \in Mods :
         \/ Load(g, m)
         \/ \E n \in Names : Register(g, n, m)
         \/ \E fn \in Funcs : RunWasm(g, m, fn)
    \/ Validate(g) \/ Instantiate(g) \/ Cleanup(g)
    \/ \E fn \in Funcs :
         \/ Execute(g, "execute", Nil, fn, "any")
         \/ \E ret \in {"void", "i32"} : Execute(g, "bindgen", Nil, fn, ret)
         \/ \E n \in Names :
              \/ Execute(g, "registered", n, fn, "any")
              \/ \E ret \in {"void", "i32"} : Execute(g, "bindgen_registered", n, fn, ret)
    \/ GetFunctionList(g) \/ ListFunction(g) \/ ListRegisteredModule(g) \/ ListModule(g)
    \/ ListNames(g)
    \/ RunValidate(g) \/ RunInstantiate(g) \/ GetType(g) \/ Call(g)

Spec == Init /\ [][Next]_vars

---------------------------------------------------------------------------

(* The type invariant. *)
TypeOK ==
  /\ stage \in {"inited", "loaded", "validated", "instantiated"}
  /\ loaded \in Mods \cup {Nil} /\ active \in Mods \cup {Nil}
  /\ reg \in [Names -> Mods \cup {Nil}]
  /\ stage # "inited" => loaded # Nil
  /\ stage = "instantiated" => active # Nil
  /\ op \in [Goroutines ->
       [pc : Ended \cup {"validate", "instantiate", "type", "call", "list"}, kind : Kinds,
        run : Mods \cup {Nil}, name : Names \cup {Nil}, fn : Funcs \cup {Nil},
        ret : {"any", "void", "i32"}, len : Nat, nil : BOOLEAN, of : Mods \cup {Nil},
        names : SUBSET (Names \cup Funcs)]]

(* Every variable is of its type, the stage of the VM fits what it has     *)
(* loaded and instantiated, and a RunWasm call that succeeds has executed  *)
(* the module it was given, and not what was loaded or instantiated before *)
(* (vm.go:99-136).                                                         *)
RunExecutesItsModule ==
  /\ TypeOK
  /\ \A g \in Goroutines : op[g].pc = "ok" /\ op[g].run # Nil => op[g].of = op[g].run

(* The results of a call were allocated for the function that has been     *)
(* executed, although its type was looked up in an earlier call of the VM  *)
(* (vm.go:230-252, 300-322): none is cut off.                              *)
ResultsComplete ==
  \A g \in Goroutines :
    op[g].pc \in {"ok", "panic"} /\ op[g].kind \notin Lists \cup {"bindgen_registered"}
      => op[g].len = Arity[op[g].of][op[g].fn]

(* A list has as many names as there were when it was asked for, and none  *)
(* of them is empty, although modules may have been registered between the *)
(* question for their number and the one for their names (vm.go:394, 435); *)
(* without that, it is everything there is.                                *)
ListsAreFull ==
  \A g \in Goroutines :
    /\ op[g].pc = "ok" /\ op[g].kind \in Lists => Cardinality(op[g].names) = op[g].len
    /\ op[g].pc = "list" => op[g].len <= Cardinality(Content(op[g].kind))

HandledByVM(g) == op[g].nil /\ op[g].pc \in Ended => op[g].pc = "error"

(* "If get function type failed, set as NULL and keep running to let the   *)
(* VM to handle the error" (vm.go:232, 274, 302): the VM does report one.  *)
NilTypeIsError ==
  \A g \in Goroutines : op[g].kind # "bindgen_registered" => HandledByVM(g)

(* The same comment in ExecuteBindgenRegistered (vm.go:346).               *)
BindgenRegisteredNilTypeIsError ==
  \A g \in Goroutines : op[g].kind = "bindgen_registered" => HandledByVM(g)
===========================================================================
