--------------------------- MODULE HostFunctions ---------------------------
(***************************************************************************)
(* The life of a host function (instance.go, hostfunc.go): NewFunction     *)
(* registers a Go function with hostFunctionManager and creates a C        *)
(* function instance that carries the key; AddFunction moves the instance  *)
(* and the duty to give the key back into a module; Function.Release and   *)
(* Module.Release delete the instance and the key; and                     *)
(* wasmedgego_HostFuncInvokeImpl turns the key back into the Go function   *)
(* when the C library calls, also when a host function executes wasm code  *)
(* that calls a host function.                                             *)
(*                                                                         *)
(* A Module that the program has only borrowed from a VM or a store takes  *)
(* keys like any other, and its Release gives none of them back.           *)
(*                                                                         *)
(* Every call of the manager is one step (HostFuncManager shows that it    *)
(* is); between two such calls, and between them and the C library, other  *)
(* goroutines run.                                                         *)
(*                                                                         *)
(* What the API asks of its user is in the guards Ready, NoCallInto and    *)
(* that of VMDeletesModule: a Go value is used by one goroutine at a time, *)
(* an instance is not released while it executes, and a borrowed Module is *)
(* released before the VM it is from deletes it.                           *)
(***************************************************************************)
EXTENDS IndexTable, FiniteSets

CONSTANTS
  Goroutines,
  Fns,          \* Go functions with their data
  Handles,      \* *Function variables of the program
  Modules,      \* *Module variables, each for one module of the program's or of a VM
  CFuncs,       \* the C function instances
  MaxLoad,      \* bound: the instances ever created and the host calls under way, together
  AddsNotOwned  \* which of the *Functions it does not own the program may pass to AddFunction

ASSUME ConstantsAssumption ==
  /\ Nil \notin Fns \cup Handles \cup Modules \cup CFuncs
  /\ Modules \cap {"none", "loose", "deleted"} = {}
  /\ AddsNotOwned \subseteq {"consumed", "borrowed"}

VARIABLES
  tab,      \* the table of hostFunctionManager
  cfunc,    \* cfunc[f]: the C function instance: where it is, its key, and (history) what it was created for
  fh,       \* fh[h]: a Go Function; its index is Nil while there is none
  gm,       \* gm[m]: a Go Module with its C module
  op,       \* op[g]: the API call goroutine g is in the middle of
  frame     \* frame[g]: the host calls of the C library on g, the innermost last

vars == <<tab, cfunc, fh, gm, op, frame>>

NoOp    == [pc |-> "idle", h |-> Nil, m |-> Nil, key |-> 0, fn |-> Nil]
Frame(pc, f, fn) == [pc |-> pc, f |-> f, fn |-> fn]
Instance(in, key, fn) == [in |-> in, key |-> key, fn |-> fn]
Cleared(index) == [inner |-> Nil, index |-> index, own |-> FALSE]

Init ==
  /\ tab = NewTable(0)
  /\ cfunc = [f \in CFuncs |-> Instance("none", 0, Nil)]
  /\ fh = [h \in Handles |-> Cleared(Nil)]
  /\ gm = [m \in Modules |-> [inner |-> "none", own |-> FALSE, hostfuncs |-> <<>>]]
  /\ op = [g \in Goroutines |-> NoOp]
  /\ frame = [g \in Goroutines |-> <<>>]

(* The innermost host call on g is at pc. *)
In(g, pc) == frame[g] # <<>> /\ Last(frame[g]).pc = pc

(* g can start an API call: it is not in one, and if the C library has     *)
(* called it back, it runs Go code again.                                  *)
Ready(g) == op[g].pc = "idle" /\ (frame[g] = <<>> \/ In(g, "running"))
FreeH(h) == \A g \in Goroutines : op[g].h # h
FreeM(m) == \A g \in Goroutines : op[g].m # m

(* A Function without an instance, although it has had one; and one whose  *)
(* instance is in a module.                                                *)
Consumed(h) == fh[h].inner = Nil /\ fh[h].index # Nil
Borrowed(h) == ~fh[h].own /\ fh[h].inner # Nil /\ cfunc[fh[h].inner].in \in Modules

MayAdd(h) ==
  \/ fh[h].own
  \/ "consumed" \in AddsNotOwned /\ Consumed(h)
  \/ "borrowed" \in AddsNotOwned /\ Borrowed(h)

(* No host call is under way in an instance of S. *)
NoCallInto(S) == \A g \in Goroutines : \A i \in DOMAIN frame[g] : frame[g][i].f \notin S

InModule(m) == {f \in CFuncs : cfunc[f].in = m}

Created == {f \in CFuncs : cfunc[f].in # "none"}
Calls == {x \in Goroutines \X (1 .. MaxLoad) : x[2] \in DOMAIN frame[x[1]]}
Load == Cardinality(Created) + Cardinality(Calls)

---------------------------------------------------------------------------
(* Modules *)

NewModule(g, m) ==
  /\ Ready(g)
  /\ gm[m].inner = "none"
  /\ gm' = [gm EXCEPT ![m] = [inner |-> "live", own |-> TRUE, hostfuncs |-> <<>>]]
  /\ UNCHANGED <<tab, cfunc, fh, op, frame>>

(* GetActiveModule, GetRegisteredModule, FindModule: a module of a VM. *)
BorrowModule(g, m) ==
  /\ Ready(g)
  /\ gm[m].inner = "none"
  /\ gm' = [gm EXCEPT ![m].inner = "live"]
  /\ UNCHANGED <<tab, cfunc, fh, op, frame>>

(* What the Go module holds, and what becomes of the Function, once it has *)
(* been added.                                                             *)
Taken_Forgotten(m, h) == gm[m].hostfuncs              \* mistake: no append
Taken_Zero(m, h) == Append(gm[m].hostfuncs, 0)        \* mistake: another key
Taken(m, h) == Append(gm[m].hostfuncs, fh[h].index)

Consume_NotCleared(h) == fh[h]                        \* mistake
Consume(h) == Cleared(fh[h].index)

(* The C module takes the instance (it ignores a null one), the Go module  *)
(* takes its key, and the Function is cleared; its index stays.  Nothing   *)
(* looks at own: MayAdd is the duty of the program.                        *)
AddFunction(g, m, h) ==
  /\ Ready(g) /\ FreeH(h) /\ FreeM(m)
  /\ gm[m].inner = "live"
  /\ MayAdd(h)
  /\ cfunc' = IF fh[h].inner = Nil THEN cfunc ELSE [cfunc EXCEPT ![fh[h].inner].in = m]
  /\ gm' = [gm EXCEPT ![m].hostfuncs = Taken(m, h)]
  /\ fh' = [fh EXCEPT ![h] = Consume(h)]
  /\ UNCHANGED <<tab, op, frame>>

(* A Function found in a module is borrowed: not owned, and without index. *)
FindFunction(g, m, h, f) ==
  /\ Ready(g) /\ FreeH(h) /\ FreeM(m)
  /\ gm[m].inner = "live"
  /\ f \in InModule(m)
  /\ fh[h].inner = Nil
  /\ fh' = [fh EXCEPT ![h] = [inner |-> f, index |-> 0, own |-> FALSE]]
  /\ UNCHANGED <<tab, cfunc, gm, op, frame>>

GivesBack_Borrowed(m) == TRUE                         \* mistake: own is not looked at
GivesBack(m) == gm[m].own

Returned(m) == [gm[m] EXCEPT !.inner = "returned"]

(* Release of a module that is owned gives back its keys one by one, and   *)
(* then deletes the C module with the instances in it; a borrowed one is   *)
(* only forgotten, and its keys with it.                                   *)
ReleaseModule(g, m) ==
  /\ Ready(g) /\ FreeM(m)
  /\ gm[m].inner = "live"
  /\ gm[m].own => NoCallInto(InModule(m))
  /\ IF GivesBack(m)
     THEN /\ op' = [op EXCEPT ![g] = [NoOp EXCEPT !.pc = "release_module", !.m = m]]
          /\ UNCHANGED gm
     ELSE /\ gm' = [gm EXCEPT ![m] = Returned(m)]
          /\ UNCHANGED op
  /\ UNCHANGED <<tab, cfunc, fh, frame>>

ReleaseModuleKey(g) ==
  LET m == op[g].m IN
  /\ op[g].pc = "release_module"
  /\ gm[m].hostfuncs # <<>>
  /\ tab' = Del(tab, Head(gm[m].hostfuncs))
  /\ gm' = [gm EXCEPT ![m].hostfuncs = Tail(@)]
  /\ UNCHANGED <<cfunc, fh, op, frame>>

WithoutModule(m) ==
  [f \in CFuncs |-> IF f \in InModule(m) THEN Instance("deleted", 0, Nil) ELSE cfunc[f]]

Deleted(m) == [gm[m] EXCEPT !.inner = "deleted", !.own = FALSE]

ReleaseModuleDelete(g) ==
  LET m == op[g].m IN
  /\ op[g].pc = "release_module"
  /\ gm[m].hostfuncs = <<>>
  /\ IF gm[m].own
     THEN cfunc' = WithoutModule(m) /\ gm' = [gm EXCEPT ![m] = Deleted(m)]
     ELSE UNCHANGED cfunc /\ gm' = [gm EXCEPT ![m] = Returned(m)]
  /\ op' = [op EXCEPT ![g] = NoOp]
  /\ UNCHANGED <<tab, fh, frame>>

(* The VM deletes the module: it is released, cleaned up or given another. *)
VMDeletesModule(g, m) ==
  /\ Ready(g)
  /\ gm[m].inner = "returned"
  /\ NoCallInto(InModule(m))
  /\ cfunc' = WithoutModule(m)
  /\ gm' = [gm EXCEPT ![m] = Deleted(m)]
  /\ UNCHANGED <<tab, fh, op, frame>>

---------------------------------------------------------------------------
(* Functions *)

(* NewFunction registers the Go function first ... *)
NewFunction(g, h, fn) ==
  /\ Ready(g) /\ FreeH(h)
  /\ fh[h].inner = Nil
  /\ tab' = Add(tab, fn)
  /\ op' = [op EXCEPT ![g] = [NoOp EXCEPT !.pc = "create", !.h = h, !.key = NextKey(tab), !.fn = fn]]
  /\ UNCHANGED <<cfunc, fh, gm, frame>>

(* ... then the C library creates an instance with the key ... *)
NewFunctionCreate(g, f) ==
  /\ op[g].pc = "create"
  /\ cfunc[f].in = "none" /\ Load < MaxLoad
  /\ cfunc' = [cfunc EXCEPT ![f] = Instance("loose", op[g].key, op[g].fn)]
  /\ fh' = [fh EXCEPT ![op[g].h] = [inner |-> f, index |-> op[g].key, own |-> TRUE]]
  /\ op' = [op EXCEPT ![g] = NoOp]
  /\ UNCHANGED <<tab, gm, frame>>

(* ... or fails, and the registration is undone. *)
NewFunctionFail(g) ==
  /\ op[g].pc = "create"
  /\ tab' = Del(tab, op[g].key)
  /\ op' = [op EXCEPT ![g] = NoOp]
  /\ UNCHANGED <<cfunc, fh, gm, frame>>

Deletes_Borrowed(h) == fh[h].inner # Nil              \* mistake: own is not looked at
Deletes(h) == fh[h].own /\ fh[h].inner # Nil

(* Release of a Function that owns its instance deletes it and then the    *)
(* key; of any other it only forgets the instance.                         *)
ReleaseFunction(g, h) ==
  /\ Ready(g) /\ FreeH(h)
  /\ fh[h].index # Nil
  /\ Deletes(h) => NoCallInto({fh[h].inner})
  /\ IF Deletes(h)
     THEN /\ cfunc' = [cfunc EXCEPT ![fh[h].inner] = Instance("deleted", 0, Nil)]
          /\ op' = [op EXCEPT ![g] = [NoOp EXCEPT !.pc = "release_function", !.h = h]]
          /\ UNCHANGED fh
     ELSE /\ fh' = [fh EXCEPT ![h] = Cleared(@.index)]
          /\ UNCHANGED <<cfunc, op>>
  /\ UNCHANGED <<tab, gm, frame>>

KeyOf_Instance(h) == fh[h].inner                      \* mistake
KeyOf(h) == fh[h].index

ReleaseFunctionKey(g) ==
  LET h == op[g].h IN
  /\ op[g].pc = "release_function"
  /\ tab' = Del(tab, KeyOf(h))
  /\ fh' = [fh EXCEPT ![h] = Cleared(@.index)]
  /\ op' = [op EXCEPT ![g] = NoOp]
  /\ UNCHANGED <<cfunc, gm, frame>>

---------------------------------------------------------------------------
(* Calls from the C library *)

(* An instance can be called, from the program or from wasm code, while it *)
(* exists and nobody is releasing it.                                      *)
Callable(f) ==
  /\ cfunc[f].in = "loose" \/ (cfunc[f].in \in Modules /\ gm[cfunc[f].in].inner # "deleted")
  /\ \A g \in Goroutines : op[g].pc = "release_module" => cfunc[f].in # op[g].m

(* The program, or a host function, executes code that calls f. *)
HostFuncInvoke(g, f) ==
  /\ Ready(g)
  /\ Callable(f)
  /\ Load < MaxLoad
  /\ frame' = [frame EXCEPT ![g] = Append(@, Frame("called", f, Nil))]
  /\ UNCHANGED <<tab, cfunc, fh, gm, op>>

(* The key that C passes is that of the instance it calls. *)
KeyCalled_Outermost(g) == cfunc[Head(frame[g]).f].key \* mistake: kept from the first call
KeyCalled(g) == cfunc[Last(frame[g]).f].key

(* gofunc, godata := hostfuncMgr.get(fn); gofunc runs with the mutex free. *)
HostFuncGet(g) ==
  LET running == Frame("running", Last(frame[g]).f, Get(tab, KeyCalled(g))) IN
  /\ In(g, "called")
  /\ frame' = [frame EXCEPT ![g] = Append(Front(@), running)]
  /\ UNCHANGED <<tab, cfunc, fh, gm, op>>

HostFuncReturn(g) ==
  /\ In(g, "running")
  /\ op[g].pc = "idle"
  /\ frame' = [frame EXCEPT ![g] = Front(@)]
  /\ UNCHANGED <<tab, cfunc, fh, gm, op>>

---------------------------------------------------------------------------

ApiStep(g) ==
  \/ ReleaseModuleKey(g) \/ ReleaseModuleDelete(g) \/ ReleaseFunctionKey(g)
  \/ NewFunctionFail(g) \/ \E f \in CFuncs : NewFunctionCreate(g, f)

HostStep(g) == HostFuncGet(g) \/ HostFuncReturn(g)

Next ==
  \E g \in Goroutines :
    \/ \E m \in Modules :
         \/ NewModule(g, m) \/ BorrowModule(g, m) \/ ReleaseModule(g, m) \/ VMDeletesModule(g, m)
         \/ \E h \in Handles : AddFunction(g, m, h) \/ \E f \in CFuncs : FindFunction(g, m, h, f)
    \/ \E h \in Handles : ReleaseFunction(g, h) \/ \E fn \in Fns : NewFunction(g, h, fn)
    \/ \E f \in CFuncs : HostFuncInvoke(g, f)
    \/ ApiStep(g)
    \/ HostStep(g)

Spec == Init /\ [][Next]_vars

---------------------------------------------------------------------------

(* The type invariant. *)
TypeOK ==
  /\ tab.idx \in Nat /\ tab.gc \in Seq(Nat)
  /\ \A k \in DOMAIN tab.data : k \in Nat /\ tab.data[k] \in Fns
  /\ cfunc \in [CFuncs -> [in : {"none", "loose", "deleted"} \cup Modules,
                           key : Nat, fn : Fns \cup {Nil}]]
  /\ fh \in [Handles -> [inner : CFuncs \cup {Nil}, index : Nat \cup {Nil}, own : BOOLEAN]]
  /\ gm \in [Modules -> [inner : {"none", "live", "returned", "deleted"}, own : BOOLEAN, hostfuncs : Seq(Nat)]]
  /\ op \in [Goroutines -> [pc : {"idle", "create", "release_function", "release_module"},
                            h : Handles \cup {Nil}, m : Modules \cup {Nil},
                            key : Nat, fn : Fns \cup {Nil}]]
  /\ frame \in [Goroutines -> Seq([pc : {"called", "running"}, f : CFuncs, fn : Fns \cup {Nil}])]

(* No key is recycled twice or while in use, and none is lost: gc holds    *)
(* "recycled entries" that add may hand out (hostfunc.go:17).              *)
KeysRecycledOnce == WellFormed(0, tab)

(* Who has the duty to delete key k. *)
Holders(k) ==
  {<<"handle", h>> : h \in {x \in Handles : fh[x].own /\ fh[x].index = k}}
    \cup {<<"new", g>> : g \in {x \in Goroutines : op[x].pc = "create" /\ op[x].key = k}}
    \cup UNION {{<<"module", m, i>> : i \in {j \in DOMAIN gm[m].hostfuncs : gm[m].hostfuncs[j] = k}}
                  : m \in {x \in Modules : gm[x].own}}

(* The keys of functions that were added to a borrowed Module. *)
Stranded == UNION {ToSet(gm[m].hostfuncs) : m \in {x \in Modules : ~gm[x].own}}

(* Every registered key has exactly one holder that will delete it, and    *)
(* nobody holds a key that is not registered: keys are neither leaked nor  *)
(* deleted twice, whichever path releases them.  The exception are those   *)
(* that went into a borrowed Module: they stay registered for good, even   *)
(* after the module is deleted.                                            *)
OneHolder ==
  /\ Stranded \subseteq DOMAIN tab.data
  /\ \A k \in 0 .. tab.idx :
       Cardinality(Holders(k)) = IF k \in DOMAIN tab.data \ Stranded THEN 1 ELSE 0

(* An instance that can be called has its own function under its key.      *)
CallablesResolve ==
  \A f \in CFuncs : Callable(f) => Get(tab, cfunc[f].key) = cfunc[f].fn

(* A host call runs the function its instance was created with, although   *)
(* the key is looked up only after the C library has entered Go, while     *)
(* other goroutines register and release functions; and so does each of    *)
(* the calls nested in one another on a goroutine.                         *)
CallRunsItsFunction ==
  \A g \in Goroutines : \A i \in DOMAIN frame[g] :
    frame[g][i].pc = "running" => frame[g][i].fn = cfunc[frame[g][i].f].fn

(* An instance outside any module has exactly one Function that owns it,   *)
(* and what a Function owns is such an instance or is being deleted by it: *)
(* no instance is leaked or deleted twice.                                 *)
LooseOwnedOnce ==
  /\ \A f \in CFuncs :
       cfunc[f].in = "loose" => Cardinality({h \in Handles : fh[h].own /\ fh[h].inner = f}) = 1
  /\ \A h \in Handles : fh[h].own =>
       \/ cfunc[fh[h].inner].in = "loose"
       \/ \E g \in Goroutines : op[g].pc = "release_function" /\ op[g].h = h
===========================================================================
