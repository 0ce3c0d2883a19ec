----------------------------- MODULE Ownership -----------------------------
(***************************************************************************)
(* Who deletes which C object (vm.go, executor.go, store.go, instance.go,  *)
(* async.go, statistics.go, ast.go, loader.go, validator.go, compiler.go,  *)
(* configure.go, plugin.go, callframe.go).  Every wrapper type of the      *)
(* package is a pair of a C pointer, _inner, and a flag, _own: a           *)
(* constructor returns an owner, an accessor returns a borrower, Add*      *)
(* moves an object into a module, and Release deletes what is owned and    *)
(* clears the variable.  What a C object holds goes with it; what it only  *)
(* uses has to outlive it.  What is a part of a C object (the executor of  *)
(* a VM, an import of an AST, the type of a table) stands for the object   *)
(* it is a part of; what C copies (a configuration, a type, the AST that a *)
(* module is made from) is not used any more.                              *)
(*                                                                         *)
(* An asynchronous execution uses objects from another thread, and its     *)
(* end is known to the program only through WaitFor and GetResult.         *)
(*                                                                         *)
(* What the API asks of its user is in the guards: an owning variable is   *)
(* not overwritten (Assignable), what is added or registered is owned (an  *)
(* active module registered in its own VM would be imported from and then  *)
(* replaced), and nothing is deleted that is still in use, as far as the   *)
(* program can know (Needed, Busy).  Host functions, whose release does    *)
(* more, are in HostFunctions.  Calls that fail change nothing here and    *)
(* are left out.                                                           *)
(***************************************************************************)
EXTENDS FiniteSets

CONSTANTS
  Vars,     \* variables of the program, each for a wrapper of any type
  Objs,     \* bound: the C objects that exist at once
  Programs, \* bound: the sets of types that a program may use
  None

Types == {"functiontype", "tabletype", "memorytype", "globaltype", "tagtype"}

Kinds == Types \cup
  {"vm", "store", "statistics", "executor", "module", "table", "memory", "global", "tag", "async",
   "configure", "loader", "validator", "compiler", "ast", "importtype", "exporttype"}

ASSUME NoneAssumption == None \notin Vars \cup Objs
ASSUME ProgramsAssumption == Programs \subseteq SUBSET Kinds

VARIABLES
  var,      \* var[v]: the type, _inner and _own of a Go variable
  obj,      \* obj[o]: the C object: what it holds (deleted with it) and uses, and a VM's active module
  links,    \* <<s, m>>: store s finds module m
  exec,     \* exec[a]: the execution of an Async: what it works with, and the VM whose module it replaces
  seen,     \* the executions whose end the program has been told
  uses      \* the types the program uses, one of Programs; never changes

vars == <<var, obj, links, exec, seen, uses>>

Nothing == [kind |-> "", inner |-> None, own |-> FALSE]
Owner(k, o)    == [kind |-> k, inner |-> o, own |-> TRUE]
Borrower(k, o) == [kind |-> k, inner |-> o, own |-> FALSE]

Object(k, held, used) == [kind |-> k, holds |-> held, uses |-> used, active |-> None]
NoObject == Object("", {}, {})
NoExec == [st |-> "none", touch |-> {}, runs |-> None]

Init ==
  /\ var = [v \in Vars |-> Nothing]
  /\ obj = [o \in Objs |-> NoObject]
  /\ links = {}
  /\ exec = [a \in Objs |-> NoExec]
  /\ seen = {}
  /\ uses \in Programs

---------------------------------------------------------------------------
(* The C objects *)

Live == {o \in Objs : obj[o] # NoObject}
Fresh == {o \in Objs \ Live : exec[o] = NoExec}

(* S and what is deleted with it. *)
Within(S) ==
  LET closed(T) == T \cup UNION {obj[o].holds : o \in T} IN closed(closed(S))

Without(S) == [o \in Objs |-> IF o \in Within(S) THEN NoObject ELSE obj[o]]

(* A module and a store forget each other when one of them is deleted. *)
LinksWithout(S) == {l \in links : l[1] \notin Within(S) /\ l[2] \notin Within(S)}

(* A VM has a store of its own, for which the VM stands, unless it was     *)
(* created with one.                                                       *)
StoreOf(vm) == IF obj[vm].uses = {} THEN vm ELSE CHOOSE s \in obj[vm].uses : TRUE
LinkedTo(s) == {m \in Objs : <<s, m>> \in links}

(* A module from wasm code has a memory or none, and may import from every *)
(* module that its store finds.                                            *)
Exports(o) == {{}} \cup {{i} : i \in Fresh \ {o}}
WithModule(f, o, ms, s) ==
  [x \in Objs |-> IF x = o THEN Object("module", ms, LinkedTo(s))
                  ELSE IF x \in ms THEN Object("memory", {}, {})
                  ELSE f[x]]

(* The active module of a VM is replaced, the one before is deleted. *)
ActiveOf(vm) == {obj[vm].active} \ {None}
Replaced(vm, o, ms) ==
  [WithModule(Without(ActiveOf(vm)), o, ms, StoreOf(vm))
     EXCEPT ![vm].active = o, ![vm].holds = (@ \ ActiveOf(vm)) \cup {o}]

---------------------------------------------------------------------------
(* What the program knows *)

Has(v, k) == var[v].kind = k /\ var[v].inner # None
In(v) == var[v].inner

Assignable(v) == ~var[v].own
Unused == {v \in Vars : Assignable(v)}

(* Somebody other than variable v would miss what is in S: a borrower, a C *)
(* object that stays, or an execution that may still be going on.          *)
Needed(v, S) ==
  \/ \E w \in Vars \ {v} : Assignable(w) /\ In(w) \in Within(S)
  \/ \E o \in Live \ Within(S) : obj[o].uses \cap Within(S) # {}
  \/ \E a \in Objs \ seen : exec[a].touch \cap Within(S) # {}

(* An execution may be about to replace the active module of vm. *)
Busy(vm) == \E a \in Objs \ seen : exec[a].runs = vm

---------------------------------------------------------------------------
(* Constructors: Next gives them a variable that may be assigned and a C   *)
(* object o that does not exist yet.                                       *)

Create(v, o, k, used) ==
  /\ k \in uses
  /\ obj' = [obj EXCEPT ![o] = Object(k, {}, used)]
  /\ var' = [var EXCEPT ![v] = Owner(k, o)]
  /\ UNCHANGED <<links, exec, seen, uses>>

NewVM(v, o) == Create(v, o, "vm", {})
NewVMWithStore(v, o, s) == Has(s, "store") /\ s # v /\ Create(v, o, "vm", {In(s)})
NewStore(v, o) == Create(v, o, "store", {})
NewStatistics(v, o) == Create(v, o, "statistics", {})
NewExecutor(v, o) == Create(v, o, "executor", {})
NewExecutorWithStatistics(v, o, t) ==
  Has(t, "statistics") /\ t # v /\ Create(v, o, "executor", {In(t)})
NewModule(v, o) == Create(v, o, "module", {})
NewTable(v, o) == Create(v, o, "table", {})
NewMemory(v, o) == Create(v, o, "memory", {})
NewGlobal(v, o) == Create(v, o, "global", {})
NewConfigure(v, o) == Create(v, o, "configure", {})
NewLoader(v, o) == Create(v, o, "loader", {})
NewValidator(v, o) == Create(v, o, "validator", {})
NewCompiler(v, o) == Create(v, o, "compiler", {})
NewFunctionType(v, o) == Create(v, o, "functiontype", {})
NewTableType(v, o) == Create(v, o, "tabletype", {})
NewMemoryType(v, o) == Create(v, o, "memorytype", {})
NewGlobalType(v, o) == Create(v, o, "globaltype", {})

(* Plugin.CreateModule; plug-ins themselves belong to the C library. *)
PluginCreateModule(v, o) == Create(v, o, "module", {})
NewWasiModule(v, o) == Create(v, o, "module", {})

(* LoadFile and LoadBuffer. *)
LoaderLoad(v, l, o) == Has(l, "loader") /\ l # v /\ Create(v, o, "ast", {})

(* The program owns the module that its executor makes; a registered one   *)
(* is found in the store as well.                                          *)
Instantiated(v, x, s, o, found) ==
  /\ Has(x, "executor") /\ Has(s, "store") /\ v \notin {x, s}
  /\ \E ms \in Exports(o) : obj' = WithModule(obj, o, ms, In(s))
  /\ var' = [var EXCEPT ![v] = Owner("module", o)]
  /\ links' = links \cup found
  /\ UNCHANGED <<exec, seen, uses>>

ExecutorInstantiate(v, x, s, o) == Instantiated(v, x, s, o, {})
ExecutorRegister(v, x, s, o) == Instantiated(v, x, s, o, {<<In(s), o>>})

ExecutorRegisterImport(x, s, m) ==
  /\ Has(x, "executor") /\ Has(s, "store") /\ Has(m, "module") /\ var[m].own
  /\ links' = links \cup {<<In(s), In(m)>>}
  /\ UNCHANGED <<var, obj, exec, seen, uses>>

---------------------------------------------------------------------------
(* VM: modules that it makes are its own *)

VMRegisterWasm(v, o) ==
  LET vm == In(v) IN
  /\ Has(v, "vm") /\ ~Busy(vm)
  /\ \E ms \in Exports(o) :
       obj' = [WithModule(obj, o, ms, StoreOf(vm)) EXCEPT ![vm].holds = @ \cup {o}]
  /\ links' = links \cup {<<StoreOf(vm), o>>}
  /\ UNCHANGED <<var, exec, seen, uses>>

VMRegisterModule(v, m) ==
  /\ Has(v, "vm") /\ Has(m, "module") /\ var[m].own /\ ~Busy(In(v))
  /\ links' = links \cup {<<StoreOf(In(v)), In(m)>>}
  /\ UNCHANGED <<var, obj, exec, seen, uses>>

(* Instantiate, by itself or in RunWasm*. *)
VMInstantiate(v, o) ==
  LET vm == In(v) IN
  /\ Has(v, "vm") /\ ~Busy(vm) /\ ~Needed(v, ActiveOf(vm))
  /\ \E ms \in Exports(o) : obj' = Replaced(vm, o, ms)
  /\ links' = LinksWithout(ActiveOf(vm))
  /\ UNCHANGED <<var, exec, seen, uses>>

(* Cleanup deletes the modules of the VM and empties its store. *)
VMCleanup(v) ==
  LET vm == In(v) IN
  /\ Has(v, "vm") /\ ~Busy(vm) /\ ~Needed(v, obj[vm].holds)
  /\ obj' = [Without(obj[vm].holds) EXCEPT ![vm].holds = {}, ![vm].active = None]
  /\ links' = {l \in LinksWithout(obj[vm].holds) : l[1] # StoreOf(vm)}
  /\ UNCHANGED <<var, exec, seen, uses>>

---------------------------------------------------------------------------
(* Accessors *)

(* Variable v becomes a borrower of o. *)
Borrow(v, k, o) ==
  /\ k \in uses
  /\ var' = [var EXCEPT ![v] = Borrower(k, o)]
  /\ UNCHANGED <<obj, links, exec, seen, uses>>

GetActiveModule(v, w) ==
  /\ Has(w, "vm") /\ ~Busy(In(w))
  /\ \E o \in ActiveOf(In(w)) : Borrow(v, "module", o)
GetRegisteredModule(v, w) == Has(w, "vm") /\ \E o \in LinkedTo(StoreOf(In(w))) : Borrow(v, "module", o)
GetStore(v, w) == Has(w, "vm") /\ Borrow(v, "store", StoreOf(In(w)))
GetExecutor(v, w) == Has(w, "vm") /\ Borrow(v, "executor", In(w))
GetStatistics(v, w) == Has(w, "vm") /\ Borrow(v, "statistics", In(w))
FindModule(v, w) == Has(w, "store") /\ \E o \in LinkedTo(In(w)) : Borrow(v, "module", o)

Find(v, w, k) ==
  Has(w, "module") /\ \E o \in obj[In(w)].holds : obj[o].kind = k /\ Borrow(v, k, o)

FindTable(v, w) == Find(v, w, "table")
FindMemory(v, w) == Find(v, w, "memory")
FindGlobal(v, w) == Find(v, w, "global")

Part(v, k, w, whole) == Has(w, whole) /\ Borrow(v, k, In(w))

FindTag(v, w) == Part(v, "tag", w, "module")
GetLoader(v, w) == Part(v, "loader", w, "vm")
GetValidator(v, w) == Part(v, "validator", w, "vm")

ListImports(v, w) == Part(v, "importtype", w, "ast")
ListExports(v, w) == Part(v, "exporttype", w, "ast")
GetImportValue(v, w) == \E k \in Types : Part(v, k, w, "importtype")
GetExportValue(v, w) == \E k \in Types : Part(v, k, w, "exporttype")
GetTagFunctionType(v, w) == Part(v, "functiontype", w, "tagtype")

GetTableType(v, w) == Part(v, "tabletype", w, "table")
GetMemoryType(v, w) == Part(v, "memorytype", w, "memory")
GetGlobalType(v, w) == Part(v, "globaltype", w, "global")
GetTagType(v, w) == Part(v, "tagtype", w, "tag")

(* Also the types of GetFunctionList. *)
GetFunctionType(v, w) ==
  /\ Has(w, "vm") /\ ~Busy(In(w))
  /\ \E m \in ActiveOf(In(w)) : Borrow(v, "functiontype", m)
GetFunctionTypeRegistered(v, w) ==
  Has(w, "vm") /\ \E m \in LinkedTo(StoreOf(In(w))) : Borrow(v, "functiontype", m)

(* What the calling frame gives to a host function that an asynchronous    *)
(* execution calls.                                                        *)
Frame(a, ks) == {o \in exec[a].touch : exec[a].st = "running" /\ obj[o].kind \in ks}

FrameGetExecutor(v, a) == \E o \in Frame(a, {"vm", "executor"}) : Borrow(v, "executor", o)
FrameGetModule(v, a) == \E m \in Frame(a, {"module"}) : Borrow(v, "module", m)
FrameGetMemory(v, a) ==
  \E m \in Frame(a, {"module"}) : \E o \in obj[m].holds :
     obj[o].kind = "memory" /\ Borrow(v, "memory", o)

---------------------------------------------------------------------------
(* Add: the C module takes the object, the variable is cleared *)

Consumed_Not(v) == var[v]                             \* mistake
Consumed(v) == Nothing

Add(m, v, k) ==
  /\ Has(m, "module") /\ Has(v, k) /\ var[v].own
  /\ obj' = [obj EXCEPT ![In(m)].holds = @ \cup {In(v)}]
  /\ var' = [var EXCEPT ![v] = Consumed(v)]
  /\ UNCHANGED <<links, exec, seen, uses>>

AddTable(m, v) == Add(m, v, "table")
AddMemory(m, v) == Add(m, v, "memory")
AddGlobal(m, v) == Add(m, v, "global")

---------------------------------------------------------------------------
(* Release *)

Deletes_Borrowed(v) == In(v) # None                   \* mistake: _own is not looked at
Deletes(v) == var[v].own

Cleared(v) == Nothing

Release(v, k) ==
  /\ Has(v, k)
  /\ IF Deletes(v)
     THEN /\ ~Needed(v, {In(v)})
          /\ obj' = Without({In(v)})
          /\ links' = LinksWithout({In(v)})
     ELSE UNCHANGED <<obj, links>>
  /\ var' = [var EXCEPT ![v] = Cleared(v)]
  /\ exec' = [a \in Objs |-> IF a = In(v) /\ exec[a].st = "ended" THEN NoExec ELSE exec[a]]
  /\ seen' = seen \ {In(v)}
  /\ UNCHANGED uses

ReleaseVM(v) == Release(v, "vm")
ReleaseStore(v) == Release(v, "store")
ReleaseStatistics(v) == Release(v, "statistics")
ReleaseExecutor(v) == Release(v, "executor")
ReleaseModule(v) == Release(v, "module")
ReleaseTable(v) == Release(v, "table")
ReleaseMemory(v) == Release(v, "memory")
ReleaseGlobal(v) == Release(v, "global")
ReleaseAsync(v) == Release(v, "async")
ReleaseConfigure(v) == Release(v, "configure")
ReleaseLoader(v) == Release(v, "loader")
ReleaseValidator(v) == Release(v, "validator")
ReleaseCompiler(v) == Release(v, "compiler")
ReleaseAST(v) == Release(v, "ast")
ReleaseFunctionType(v) == Release(v, "functiontype")
ReleaseTableType(v) == Release(v, "tabletype")
ReleaseMemoryType(v) == Release(v, "memorytype")
ReleaseGlobalType(v) == Release(v, "globaltype")

(* Wrappers without a Release are forgotten. *)
Forget(v) ==
  /\ var[v].kind \in {"importtype", "exporttype", "tag", "tagtype"}
  /\ var' = [var EXCEPT ![v] = Nothing]
  /\ UNCHANGED <<obj, links, exec, seen, uses>>

---------------------------------------------------------------------------
(* Asynchronous execution *)

Start(v, a, st, touch, runs) ==
  /\ "async" \in uses
  /\ obj' = [obj EXCEPT ![a] = Object("async", {}, {})]
  /\ var' = [var EXCEPT ![v] = Owner("async", a)]
  /\ exec' = [exec EXCEPT ![a] = [st |-> st, touch |-> touch \cup {a}, runs |-> runs]]
  /\ UNCHANGED <<links, seen, uses>>

(* What an executing module imports from is kept by its uses. *)
AsyncExecute(v, w, a) ==
  /\ Has(w, "vm") /\ ~Busy(In(w))
  /\ Start(v, a, "running", {In(w)} \cup ActiveOf(In(w)), None)

AsyncExecuteRegistered(v, w, a) ==
  /\ Has(w, "vm") /\ ~Busy(In(w))
  /\ \E m \in LinkedTo(StoreOf(In(w))) : Start(v, a, "running", {In(w), m}, None)

(* AsyncRunWasm* will replace the active module, which must not be in use; *)
(* the AST that it may be given is read by the execution.                  *)
AsyncRun(v, w, a, from) ==
  LET vm == In(w) IN
  /\ Has(w, "vm") /\ ~Busy(vm) /\ ~Needed(v, ActiveOf(vm))
  /\ Start(v, a, "loading", {vm} \cup from, vm)

AsyncRunWasm(v, w, a) == AsyncRun(v, w, a, {})
AsyncRunWasmAST(v, w, t, a) == Has(t, "ast") /\ v # t /\ AsyncRun(v, w, a, {In(t)})

(* Executor.AsyncInvoke, of a function of module m. *)
AsyncInvoke(v, x, m, a) ==
  /\ Has(x, "executor") /\ Has(m, "module") /\ v \notin {x, m}
  /\ Start(v, a, "running", {In(x), In(m)}, None)

(* The thread of AsyncRunWasm* instantiates its module. *)
ExecutionInstantiates(a, o) ==
  LET vm == exec[a].runs IN
  /\ exec[a].st = "loading"
  /\ \E ms \in Exports(o) : obj' = Replaced(vm, o, ms)
  /\ links' = LinksWithout(ActiveOf(vm))
  /\ exec' = [exec EXCEPT ![a].st = "running", ![a].touch = @ \cup {o}]
  /\ UNCHANGED <<var, seen, uses>>

(* An execution ends: it returns, traps, fails to load, or was cancelled.  *)
ExecutionEnds(a) ==
  /\ exec[a].st \in {"loading", "running"}
  /\ exec' = [exec EXCEPT ![a].st = "ended"]
  /\ UNCHANGED <<var, obj, links, seen, uses>>

WaitResult_Always(a) == TRUE                          \* mistake: a time-out looks like the end
WaitResult(a) == exec[a].st = "ended"

(* WaitFor returns true at the end of the execution, false after a while;  *)
(* GetResult returns when the execution has ended.                         *)
WaitFor(v) ==
  /\ Has(v, "async")
  /\ seen' = IF WaitResult(In(v)) THEN seen \cup {In(v)} ELSE seen
  /\ UNCHANGED <<var, obj, links, exec, uses>>

GetResult(v) ==
  /\ Has(v, "async")
  /\ exec[In(v)].st = "ended"
  /\ seen' = seen \cup {In(v)}
  /\ UNCHANGED <<var, obj, links, exec, uses>>

---------------------------------------------------------------------------

New(v, o) ==
  \/ NewVM(v, o) \/ NewStore(v, o) \/ NewStatistics(v, o) \/ NewExecutor(v, o)
  \/ NewModule(v, o) \/ NewTable(v, o) \/ NewMemory(v, o) \/ NewGlobal(v, o)
  \/ NewConfigure(v, o) \/ NewLoader(v, o) \/ NewValidator(v, o) \/ NewCompiler(v, o)
  \/ NewFunctionType(v, o) \/ NewTableType(v, o) \/ NewMemoryType(v, o) \/ NewGlobalType(v, o)
  \/ PluginCreateModule(v, o) \/ NewWasiModule(v, o)

NewFrom(v, o, w) ==
  \/ NewVMWithStore(v, o, w) \/ NewExecutorWithStatistics(v, o, w) \/ LoaderLoad(v, w, o)
  \/ AsyncExecute(v, w, o) \/ AsyncExecuteRegistered(v, w, o) \/ AsyncRunWasm(v, w, o)
  \/ \E s \in Vars : \/ ExecutorInstantiate(v, w, s, o) \/ ExecutorRegister(v, w, s, o)
                     \/ AsyncInvoke(v, w, s, o) \/ AsyncRunWasmAST(v, w, s, o)

Access(v, w) ==
  \/ GetActiveModule(v, w) \/ GetRegisteredModule(v, w) \/ GetStore(v, w) \/ GetExecutor(v, w)
  \/ GetLoader(v, w) \/ GetValidator(v, w) \/ GetStatistics(v, w)
  \/ GetFunctionType(v, w) \/ GetFunctionTypeRegistered(v, w)
  \/ FindModule(v, w) \/ FindTable(v, w) \/ FindMemory(v, w) \/ FindGlobal(v, w) \/ FindTag(v, w)
  \/ GetTableType(v, w) \/ GetMemoryType(v, w) \/ GetGlobalType(v, w) \/ GetTagType(v, w)
  \/ ListImports(v, w) \/ ListExports(v, w) \/ GetImportValue(v, w) \/ GetExportValue(v, w)
  \/ GetTagFunctionType(v, w)

FrameAccess(v, a) == FrameGetExecutor(v, a) \/ FrameGetModule(v, a) \/ FrameGetMemory(v, a)

Move(v, w) ==
  \/ AddTable(w, v) \/ AddMemory(w, v) \/ AddGlobal(w, v) \/ VMRegisterModule(v, w)
  \/ \E s \in Vars : ExecutorRegisterImport(v, s, w)

Released(v) ==
  \/ ReleaseVM(v) \/ ReleaseStore(v) \/ ReleaseStatistics(v) \/ ReleaseExecutor(v)
  \/ ReleaseModule(v) \/ ReleaseTable(v) \/ ReleaseMemory(v) \/ ReleaseGlobal(v) \/ ReleaseAsync(v)
  \/ ReleaseConfigure(v) \/ ReleaseLoader(v) \/ ReleaseValidator(v) \/ ReleaseCompiler(v)
  \/ ReleaseAST(v) \/ ReleaseFunctionType(v) \/ ReleaseTableType(v) \/ ReleaseMemoryType(v)
  \/ ReleaseGlobalType(v) \/ Forget(v)

Next ==
  \/ \E v \in Vars : Released(v) \/ VMCleanup(v) \/ WaitFor(v) \/ GetResult(v)
  \/ \E v, w \in Vars : Move(v, w)
  \/ \E v \in Unused :
       \/ \E w \in Vars : Access(v, w)
       \/ \E a \in Objs : FrameAccess(v, a)
       \/ \E o \in Fresh : New(v, o) \/ \E w \in Vars : NewFrom(v, o, w)
  \/ \E v \in Vars, o \in Fresh : VMRegisterWasm(v, o) \/ VMInstantiate(v, o)
  \/ \E a \in Objs : ExecutionEnds(a) \/ \E o \in Fresh : ExecutionInstantiates(a, o)

Spec == Init /\ [][Next]_vars

---------------------------------------------------------------------------

(* The type invariant. *)
TypeOK ==
  /\ var \in [Vars -> [kind : Kinds \cup {""}, inner : Objs \cup {None}, own : BOOLEAN]]
  /\ \A v \in Vars : var[v].own => In(v) # None
  /\ obj \in [Objs -> [kind : Kinds \cup {""}, holds : SUBSET Objs, uses : SUBSET Objs,
                       active : Objs \cup {None}]]
  /\ links \subseteq Objs \X Objs
  /\ exec \in [Objs -> [st : {"none", "loading", "running", "ended"},
                        touch : SUBSET Objs, runs : Objs \cup {None}]]
  /\ seen \subseteq Objs

(* Who will delete object o: variables with _own set, and the C objects    *)
(* that hold it.                                                           *)
OwnersOf(o) ==
  {v \in Vars : var[v].own /\ In(v) = o} \cup {p \in Live : o \in obj[p].holds}

(* Every variable is of its type, and a wrapper that owns has an _inner;   *)
(* every C object has exactly one owner until it is deleted and none       *)
(* afterwards, on whichever way it came to it - a constructor, an          *)
(* executor, a VM, or Add* - so that it is neither leaked nor deleted      *)
(* twice.                                                                  *)
SoleOwner ==
  /\ TypeOK
  /\ \A o \in Objs : Cardinality(OwnersOf(o)) = IF o \in Live THEN 1 ELSE 0

(* No variable, store or C object refers to a deleted object, provided     *)
(* that the program releases borrowers before owners: there is no other    *)
(* way for an _inner to become stale.                                      *)
NothingDangles ==
  /\ \A v \in Vars : In(v) # None => In(v) \in Live
  /\ \A o \in Live : obj[o].holds \cup obj[o].uses \cup ActiveOf(o) \subseteq Live
  /\ \A l \in links : l[1] \in Live /\ l[2] \in Live

(* An execution never finds deleted what it works with, although the       *)
(* program releases these objects on no other evidence than a WaitFor that *)
(* returned true or a GetResult that returned.                             *)
ExecutionsKeepTheirObjects ==
  \A a \in Objs : exec[a].st \in {"loading", "running"} => exec[a].touch \subseteq Live
===========================================================================
