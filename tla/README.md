# A verification project for WasmEdge-go

WasmEdge-go is a Go package over the WasmEdge C library. Most of its code
forwards a call to C; what it adds, and what can go wrong in it, is the state
that has to live on both sides of the boundary: Go functions and Go objects
that C knows only by an integer, C objects that Go variables own or borrow, and
calls that are made of several C calls with no lock around them. The modules
here model that state, TLC checks them on small instances, and TLAPS proves
every invariant that the passing runs check, and both refinements, for every
instance.

Line numbers refer to the repository's `wasmedge/` directory.

## The system

| Component | State it keeps | Operations | Correct when |
|---|---|---|---|
| Host function manager (`hostfunc.go:13-58`) | a mutex, a counter `idx`, a free list `gc`, two maps `funcs` and `data` | `add`, `get`, `del` | operations are atomic; a key is never given out twice; function and data of a key belong together; every call returns |
| Host functions (`instance.go:77-327`, `hostfunc.go:60-98`, `chostfunc.go`) | `Function{_inner,_index,_own}`, `Module{_inner,_hostfuncs,_own}`, the C instances | `NewFunction`, `AddFunction`, `FindFunction`, both `Release`, the call-back from C | each key has one owner who deletes it once; a call from C runs the function it was created with |
| External references (`value.go:130-222, 253-317`, `hostfunc.go:66-79`) | `externRefMgr`, `ExternRef{_inner,_valid}` values, copies in wasm code | `NewExternRef`, `GetRef`, `Release`, conversion in both directions | a live reference yields its object wherever it has been; a released one is refused; null is nothing |
| VM (`vm.go`) | the C VM's stage, loaded, active and registered modules | load, validate, instantiate, register, run, execute, list | results fit the function that ran; errors end in errors |
| Asynchronous execution (`async.go`, `Async*` of `vm.go`, `executor.go`) | a C future | `WaitFor`, `Cancel`, `GetResult`, `Release` | a time limit is not taken for the end; nothing is deleted under a running execution |
| wasm-bindgen convention (`value.go:332-412, 425-512`) | wasm memory: the result area at 0 and 8, allocated arguments and results | argument and result conversion | what is allocated is freed once, and read before |
| Value conversion (`value.go:224-330, 414-423`, `hostfunc.go:60-98`, `executor.go:73-93`) | none | Go to wasm values and back, twice in each call of a host function | values keep their width, sign and place; as many results as the function has; only unsupported types panic |
| Wrappers of C objects (every file with a `Release`) | `_inner` and `_own` of every variable | constructors, accessors, `Find*`, `Add*`, `Release` | each C object is deleted once, and not while something uses it or a part of it |
| Limits, tables and memories (`limit.go`, `ast.go:186-250`, `instance.go:329-447`) | a Go `Limit`, C types and instances, slices over wasm memory | types, growth, `GetData`, `SetData` | limits survive the way to 32 bits; contents survive growth; a slice lies within the memory |
| Configuration, CLI, log, version, results, strings | C objects | single C calls | nothing in Go to get wrong between two calls |

How they interact. `NewFunction` and the two `Release` methods call `add` and
`del`; the C library enters Go in `wasmedgego_HostFuncInvokeImpl`, on whatever
thread executes wasm code, and that calls `get`, lets the mutex go, and runs
the Go function, which may use the whole API again. Arguments and results pass
through `toWasmEdgeValue` and `fromWasmEdgeValue`, which read and write the
table of external references. The `VM` methods ask the C VM for a type, size a
slice from it, and then ask it to execute; the list methods ask for a number
before they ask for names. An AST, its imports and exports and their types
share one C object, as do a VM and its executor, loader, store and statistics.

What is hard to test here: goroutines interleaving in the managers; what
happens between a look-up and its use (`vm.go:230` and `245`, `hostfunc.go:81`);
indices that are reused while an old copy is still about (`value.go:313`); the
order in which keys and C objects are released (`instance.go:284-288`,
`322-323`); failure half-way (`instance.go:306`, `vm.go:104`, `value.go:364-408`);
integers that change width and sign on their way (`value.go:275`, `356`, `461`,
`493`, `ast.go:190`, `async.go:15`); waiting for executions that need not end
(`async.go:14-23`); slices over memory that moves (`instance.go:413`);
and sequences of
legal calls that consume the same object twice (`instance.go:167`), or delete
one that a borrower or another thread still uses (`vm.go:418`, `async.go:36`).
`PROJECT.json` lists these hazards line by line with the properties that cover
them.

## The modules

    IndexTable            the table operations as pure operators
      HandleTable         what an index manager promises (abstract)
      HostFuncManager     hostFunctionManager, statement by statement;
                          implements HandleTable
      HostFunctions       functions, modules, call-backs, on top of the table
      ExternRefs          external references, on top of the table
    VMWorkflow            the methods of VM that load, register, execute and list
    BindgenMemory         one wasm-bindgen call and the memory it uses
    Ownership             which variable deletes which C object; asynchronous
                          executions that use them
    Future                what an Async promises (abstract)
      AsyncExecution      the methods of Async, and the thread of an execution;
                          implements Future
    Values                toWasmEdgeValue and fromWasmEdgeValue as operators
      HostCalls           a call from Go through C to a host function and back
    Instances             limits, tables and memories, and slices over them
    HostFuncManager_proofs, ExternRefs_proofs, HostFunctions_proofs,
    VMWorkflow_proofs, AsyncExecution_proofs, Ownership_proofs,
    BindgenMemory_proofs, Library_proofs (about HostCalls and
    Instances)                                            theorems and proofs
    MCHostFunctions, MCVMWorkflow, MCBindgenMemory, MCOwnership,
    MCAsyncExecution, MCHostCalls, MCInstances            definitions for TLC

Operators whose comment says *mistake* are wrong versions of the definition
they stand in front of; none is used by a specification. They exist so that
each property can be seen to fail when the code has that mistake.

**IndexTable.** `Add`, `Get` and `Del` are one call of a manager with its mutex
held, on a record of the counter, the free list and a map. `RecycledAreFree`
and `KeysAccounted` say when the parts fit together.

**HandleTable.** A table with `add`, `get` and `del` by concurrent clients, each
operation taking effect in one instant between call and return. A client owns
the key that `add` returned until it calls `del`.

**HostFuncManager.** Variables `mu`, `idx`, `gc`, `funcs`, `data` are the fields
of the struct (a sync.Mutex is its holder); `pc`, `call`, `realidx`, `got` are
what each goroutine has on its stack; `issued` is history. `Lock`, `Reserve`,
`SetFunc`, `SetData`, `ReadFunc`, `ReadData`, `DelFunc`, `DelData`, `Recycle` and
`Unlock` are the statements of lines 24-52 in their order. Every goroutine
interleaves with every other between two statements: the mutex is what makes
an operation atomic and not the model. The callers are constrained to what the
package does: `get` and `del` with a key that `add` returned, `del` once.

**HostFunctions.** `tab` is the manager's table, one step for a call; `cfunc` is
the C function instances (loose, in a module, deleted) with the key each
carries; `fh` is the Go `Function` variables and `gm` the Go `Module`
variables, field by field; `op` is the API call a goroutine is in the middle of
and `frame` the call-backs it runs, the innermost last: a host function may execute
wasm code that calls a host function again. `NewFunction` is two steps, for it makes two
calls; so is `Function.Release`; `Module.Release` is a step for each key and one
for the C module. `HostFuncInvoke` / `HostFuncGet` / `HostFuncReturn` are the
call-back, during which the goroutine can start API calls of its own. A module
variable may also be borrowed from a VM (`BorrowModule`): its `Release` gives no
key back, since the VM may still call the functions, and nothing else does after
`VMDeletesModule`. `Stranded` is these keys; `OneHolder` says that they are the
only ones that leak, and `CallablesResolve` that they must not be given back.

**ExternRefs.** `var` is the program's `ExternRef` variables, `cell` what wasm
code holds (a bare index), each with the object it was made for as history.
`Release` leaves the variable as it is, since the method has a value receiver
(`value.go:208`). The constants `UsesReleased`, `ReleasesEarly` and
`ReleasesNull` say which precaution the program leaves out, and
`ReleasedIsNotPassed`, `ReleasedIsNotReceived`, `NullIsReserved` and
`PanicMeansReleased` what then fails.

**VMWorkflow.** `stage`, `loaded`, `active` and `reg` are the C VM as the Go
methods see it; it lies outside this repository, and its operations
(`LoadModule` ... `CleanupVM`) are modelled from how the methods use them: each
may fail. `op` is the call each goroutine is in. `GetType` and `Call` are the two
C calls of an Execute method; `RunWasm`, `RunValidate` and `RunInstantiate` are
what `RunWasm*` and `runWasm` do before them. `List` and `ListNames` are the two
calls of a method that lists functions or modules.

**BindgenMemory.** `call` is the call of `ExecuteBindgen` or
`ExecuteBindgenRegistered` that is under way: the parameters it has still to
convert (`args`), the i32 values it has made of the others (`cvals`), and as
history what was passed, what the function made, and which blocks were
allocated before. `low` and `heap` are the memory of each wasm module: the 16
bytes where results are put, and the blocks of its allocator. The conversion of
one parameter is one step, or two for a byte array, which calls
`__wbindgen_malloc` and then writes. `Execute` is the wasm function: it is
external, and does what code generated by wasm-bindgen does (frees its array
parameters, puts its result where it was told to) or traps. The conversions
between int64, int32 and uint are the arithmetic they are, modulo `W32` and `W64`;
`Layout` and `SeenAt` are how the function takes its parameters from the values it
is given. That the function's results have been sized right, and the panic when
they have not, are the business of `VMWorkflow` (`Call`).

**Ownership.** `var` is the program's variables, each a wrapper of some type with
its `_inner` and `_own`; `obj` is the C objects: what each holds, and so takes
along when it is deleted, and what it only uses (a VM the store it was given, an
executor its statistics, a module those it imports from). `links` is what the
stores find. `exec` is the asynchronous executions, with the objects that the
executing thread works with, and `seen` those whose end the program has been
told. A constructor is `Create`, an accessor `Borrow`, and each `Release` is
`Release` with its type. The two steps of an executing thread are
`ExecutionInstantiates`, in which an `AsyncRunWasm*` replaces the active module
while the program runs on, and `ExecutionEnds`. `Cancel` is not an action: it makes
an execution end, and the model lets any execution end at any time. What the
calling frame gives to a host function of such an execution is `Frame*`. A part of
an object (an import of an AST and its types, the loader of a VM, the type of a
table) is borrowed from the whole and stands for it. All wrapper types but
`Function` are here; `uses` is the set of types that a program works with, chosen
at the start, so that TLC need not combine a compiler with an import type.

**Future, AsyncExecution.** `exec` is the thread of one execution (in wasm code, in
a host function, or ended with an outcome), `stop` the flag by which C interrupts
wasm code, `asked` the history of `Cancel`, and `op` the call that each goroutine, or
the host function, is in. `WaitFor` counts the milliseconds that go by, up to its
argument as C takes it: a negative one is beyond the `Horizon`. That the C library waits
for all of the huge number such an argument becomes, and does not read it otherwise, is
an assumption: `async.go:15` shows only the cast. `GetResultLength` and
`GetResultGet` are the two C calls of `GetResult`. `Future` is the promise: one
outcome, decided once, *cancelled* only if somebody asked, and told whole;
`ImplementsFuture` is the refinement, under which the calls of C are stutters and
the last step of each method is `Tell`.

**Values, HostCalls.** `Go` and `Wasm` are values with their type and bits; `W32` and
`W64` say how many values an i32 and an i64 have, `IsGoValue` which values Go's types
have, and `word` is the size of the platform's `int`. `Truncated` and `Signed`
are the conversions of C and Go, and `Arrived` the reference: the number of the
wasm type's range that is congruent to what was passed. `call` is one call of
`Executor.Invoke`: `Invoke` converts the parameters, `HostFuncInvoke` and
`HostFuncReturn` are the two halves of `wasmedgego_HostFuncInvokeImpl` around the Go
function, which may return too many values, too few, or values of a type
that has no wasm type, and may report a failure; `InvokeReturn` converts the results.
`global` is a global variable, whose value takes the same way; `NewGlobal` is passed a
type, which may be nil, and a value of that type, which the program has to see to: what
C makes of another is not visible here. The specification is
called `CallsSpec`, with `CallsInit` and `CallsNext`, because one module of proofs
extends this module together with `Instances`.

**Instances.** `limit`, `ctype` and `inst` are a Go `Limit`, the C type made with it
and the C instance made with that; `wrote` is the history of what was written at
each offset, by `SetData`, by wasm code or through the slice that `GetData` returned
(`slice`), which lies over the memory until growth moves it. A limit whose maximum is
below its minimum is nil, and a type made of a nil limit is a panic (`NewTypeOfNil`,
`ast.go:188`, `227`), after which `panicked` holds and nothing happens. Sizes and offsets are
`Uint32` of what the program passes; a uint32_t has `Uint32s` values.

## What the user of the package has to do

The package does not say which of its types may be shared. The models make
the assumption explicit as guards, and where breaking it meets a promise of
the code, a run shows it:

* a `Function` or `Module` variable is used by one goroutine at a time
  (`FreeH`, `FreeM`); an instance is not released while it executes
  (`NoCallInto`), nor called while it is being released (`Callable`);
* a `Function` is added once, and only one that the program owns (`AddsNotOwned = {}`,
  `MayAdd`): `AddFunction` asks neither whether it has been consumed nor whether it
  was only borrowed with `FindFunction`, and either alone breaks `KeysRecycledOnce`.
  Nothing in the package's documents or tests says what a call into a module during
  its release is to do, so that `Callable` stays a duty of the program;
* an external reference is released once, when nobody else holds it
  (`UsesReleased`, `ReleasesEarly`, `ReleasesNull` all `FALSE`);
* what changes the modules of a shared `VM` does not run during another call
  that executes (`Alone`); loading and executing may, and registering during a
  list of names (`OnlyLists`). A module registered or
  instantiated between the look-up of the type and the call would let the call
  succeed with its results cut off and no error (`vm.go:230-252`, `300-322`).
* an owning variable is not overwritten before its `Release` (`Assignable`); what
  is passed to `Add*`, `RegisterModule` or `RegisterImport` is owned (`var[m].own`):
  the model shows that a VM whose active module is registered in its own store
  lets the next instantiation import from the module it replaces;
* borrowers are released before what they borrow from, users before what they
  use, and an execution has been seen to end before its objects or its `Async` are
  released (`Needed`); while an `AsyncRunWasm*` has not been seen to end, nobody
  touches the active module of its VM (`Busy`). The guards use what the program
  has been told, `seen`, and not what the thread has done;
* a `VM` is used by one goroutine during a wasm-bindgen call, whose results are
  at fixed addresses; a returned array is used before the next call into the
  module, since the slice is over memory that has been freed
  (`value.go:495-508`);
* a host function does not wait without limit for the execution it is part of
  (`MayBlock`): it would wait for itself, and `Cancel` interrupts wasm code only;
* sizes, offsets and limits fit into 32 bits (`Wide = FALSE`). With `Wide = TRUE` the
  model has `LimitsKept`, `ContentKept` and `SliceIsMemory` fail
  (`ast.go:190`, `instance.go:404`, `422`): the package truncates without a word;
* `SetData` is not told a length beyond its slice (`Covers`), and a slice from
  `GetData` is not used after the memory has grown (`UseSlice`);
* a host function returns values of the types it was declared with, as far as
  these are types of the package (`MayReturn`); nothing compares them.

## What the runs check

| Run | Instance | States | Shows |
|---|---|---|---|
| `host_func_manager` | 3 goroutines, 2 payloads, 3 keys outstanding | 126 thousand | `TableConsistent`, `KeysExclusive`, `NoTornPair`, `IssuedBound`, and `Linearizable`: the manager implements `HandleTable` and needs no more keys than were ever outstanding at once; `CallsReturn` |
| `host_functions` | 2 goroutines, 2 functions, 2 handles, 1 module, 3 instances, nested host calls | 564 thousand (with symmetry) | keys recycled once (`KeysRecycledOnce`), each with one holder (`OneHolder`), instances owned once (`LooseOwnedOnce`), call-backs that run the right function (`CallablesResolve`, `CallRunsItsFunction`) |
| `extern_refs` | 3 objects, 2 variables, 2 cells in wasm code | 73 thousand | `IndicesRecycledOnce`, `CopiesResolve`, `GetRefReturnsIt`, `ValidUnlessNull` |
| `vm_workflow` | 2 goroutines, 2 modules that export different functions, 2 names | 353 thousand (with symmetry) | `RunExecutesItsModule`, `ResultsComplete`, `NilTypeIsError`, `ListsAreFull` |
| `bindgen_memory` | up to 2 parameters, 3 modules, one without memory, bytes of 4 values, 3 addresses | 356 thousand | `ArgumentsArrive`, `ResultArrives`, `NothingKept` |
| `ownership` | 4 variables, 4 C objects at once, 4 programs | 76 thousand (with symmetry) | `SoleOwner`: one owner until deletion and none after; `NothingDangles`; `ExecutionsKeepTheirObjects` |
| `async_execution` | 2 goroutines and a host function, up to 2 results, limits -1, 0 and 1 | 10 thousand | `ImplementsFuture`; `TimeoutsJustified`; `WaitsAreLimited` and `CancelReleasesWaiters` (liveness) |
| `host_calls` | an i32 of 2 bits, an i64 of 3, both sizes of `int`, 14 values of all types, 5 function types | 111 thousand | `HostSeesArguments`, `CallerSeesReturns`, `PanicsJustified`, `GlobalHoldsLast` |
| `instances` | a uint32_t of 2 bits, pages of 2 bytes, all limits | 14 thousand | `LimitsKept`, `ContentKept`, `SliceIsMemory` |

Every module's runs check its `TypeOK` (`CallsTypeOK` in `HostCalls`): as an invariant of its own, or as the first
conjunct of `RunExecutesItsModule`, `SoleOwner`, `TimeoutsJustified`,
`HostSeesArguments` and `LimitsKept`.

The bounds. Three goroutines are one in the critical section, one waiting and
one that owns a key meanwhile; two payloads are enough to tell a torn pair;
three keys let the free list hold two and so have an order. In `HostFunctions`
three instances let a key be recycled and reused while another is in use, and
one module can be released with two functions in it; goroutines interfere
pairwise through the table only. Instances and host calls under way are bounded
together (`MaxLoad` 4): three instances and one call; two and two, nested or on both
goroutines; or one and three. The proofs have no such bound. Three objects and two variables let an index
be reused twice. In `VMWorkflow` one of two functions is missing from one
module and the other has different results in the two, so that every wrong
look-up is seen; two names are the least for which a module can be registered
while the other is being listed. In
`BindgenMemory` a byte has 4 values, which makes an i32 range over 256 and an i64
over 65536, small enough for TLC and with the same shifts, overflows and sign
changes; the numbers passed are at the ends of these ranges, and one of the
addresses is above the middle, where an int32 is negative. Two parameters are
what it takes to fail after an allocation and to see an argument out of place;
a call begins when failed calls have left at most one block (`MaxLeft`). None of
this bounds the proofs. In `Ownership` objects that are deleted can be
created again, so that only the number at one time is bounded: four are a VM
with a store of its own, or with a module that has a memory, and an execution
that uses them; four variables are a module made with an executor and a store,
and a borrower of it. The four programs (`MCOwnership`) are one that executes, one
that loads and looks at imports and exports, one that runs an AST, and one that
builds modules and asks for types; no property relates types of two of them. In
`AsyncExecution` one goroutine waits while another cancels, and `Horizon` 2 with a
`Width` of 3 bits keeps the largest limit of a program within the time that is
modelled and every negative one beyond it. In `HostCalls` the values are at both
ends of every range; two parameters and two results show a wrong order and a
wrong number. In `Instances` a memory has at most two pages and a table three
elements, every limit that fits is tried, and a block of two bytes may lie
inside, across or outside. The
number of keys outstanding, of instances and of objects ever created are the only
counters that are bounded, by the guards of the actions that increase them.

Deadlock is checked everywhere but in `ExternRefs`, where a panic ends the
program.

Fairness. `HostFuncManager` assumes that a goroutine that is inside an operation
runs on (weak fairness of its statements) and that a goroutine that waits for
the mutex gets it in the end (strong fairness of `Lock`: `sync.Mutex` hands the
lock over to a waiter that has starved for a millisecond). Nobody is assumed
to call anything. `AsyncExecution` assumes that a goroutine inside a method of `Async`
runs on and that clocks tick (weak fairness of `Step`), that host functions return
(weak fairness of `HostReturn`), and that wasm code looks at the flag of `Cancel`
again and again (strong fairness of `Interrupt`, for the thread is in host functions
now and then). It does not assume that an execution ends: no fairness of
`Finish`, `Start` or `Cancel`. The other modules have no liveness property and
assume no fairness.

### Where the code and its comments disagree

These runs end in a counterexample, each for one statement the code makes of
itself:

* `host_functions_readd`: `AddFunction` with a `Function` it has consumed before
  puts the key into the module's list again, and one from `FindFunction` puts the key
  0 there, which is somebody else's or nobody's; releasing the module puts it into the
  free list twice or while it is in use (`instance.go:167`).
* `extern_refs_after_release`: `ExternRef.Release` invalidates a copy
  (`value.go:209`), so that the check behind the panic at `value.go:258` never
  sees a released reference.
* `vm_workflow_bindgen`: `ExecuteBindgenRegistered` looks the type up in the
  active module (`vm.go:344`).

Three more have no run of their own, and show when the constants of `ExternRefs` are
set. With `ReleasesEarly`, `ReleasedIsNotReceived` fails: wasm code keeps an index,
the index is reused, and the check at `hostfunc.go:75` passes with another object.
With `ReleasesNull`, `NullIsReserved` fails: releasing the zero `ExternRef`, or a
null reference that came back from wasm code, puts the reserved index 0 into
circulation (`value.go:212`). `PanicMeansReleased` fails even for a careful program: a
null reference passed to a host function panics as *released* (`hostfunc.go:75-76`).

## What is proved

Eight modules hold theorems; each `*_proofs` module is about the module it is
named after, `Library_proofs` about `HostCalls` and `Instances`, and for every value
of that module's constants. All theorems
of the form `Spec => []Inv` follow one plan: the invariant that a run checks is
not inductive, since it speaks of moments when nothing is under way or of one
goroutine alone; `IInv` adds what is under way and what each actor relies on; a
lemma for each action shows that the action keeps `IInv`; and the invariant
follows from `IInv`. TLC checked every `IInv` on the run of its module first.

| Module | Theorems | Assumed |
|---|---|---|
| `HostFuncManager_proofs` | `TypeCorrect`, `TableIsConsistent`, `KeysAreExclusive`, `PairsAreNotTorn`, `IssuedStayBound`, `IsLinearizable` | the markers `Nil`, `NoCall` and `Waiting` are none of the values they stand beside |
| `ExternRefs_proofs` | `TypeCorrect`, `IndicesAreRecycledOnce`, `CopiesAlwaysResolve`, `GetRefIsRight`, `ValidityMeansNotNull` | `Careful`: the program takes the three precautions |
| `HostFunctions_proofs` | `TypeCorrect`, `KeysAreRecycledOnce`, `CallablesAlwaysResolve`, `CallsRunTheirFunction`, `LooseInstancesHaveOneOwner`, `OneHolderHolds` | `Careful`: only a `Function` that the program owns is added, and so each once |
| `VMWorkflow_proofs` | `CallsInStep`, `RunExecutesItsModuleHolds`, `ResultsCompleteHolds`, `NilTypeIsErrorHolds`, `ListsAreFullHolds` | names and functions are finitely many |
| `AsyncExecution_proofs` | `CallsInStep`, `TimeoutsJustifiedHolds`, `ImplementsFutureHolds` | time limits fit C's integer, and a negative one exceeds the `Horizon` |
| `Ownership_proofs` | `SoleOwnerHolds`, `NothingDanglesHolds`, `ExecutionsKeepTheirObjectsHolds` | `None` is no variable and no object |
| `BindgenMemory_proofs` | `TypeCorrect`, `ParamsArrive`, `ResultArrivesAlways`, `NothingKeptAlways` | `ConstantsAssumption`: the values passed and returned are in the ranges of their Go types, and a returned slice has less than 2 GiB |
| `Library_proofs`, `HostCalls` | `RoundTrip`, `HostIsPassedArguments`, `CallerIsReturnedResults`, `PanicsAreJustified`, `GlobalIsAsStored` | `WidthsAssumption`: the numbers of values are even, and an i64 has no fewer than an i32; `CallsAssumption`: the values are those of Go's types |
| `Library_proofs`, `Instances` | `LimitsAreKept`, `ContentIsKept`, `SliceStaysInMemory` | `~Wide`: numbers fit into a uint32_t |

Beside these, every module assumes of its constants what its `ConstantsAssumption`
(`NoneAssumption` in `Ownership`) says, which TLC evaluates in the runs: that markers
are distinct and bounds are natural numbers. The two hypotheses `Careful` are the
precautions of the section above; `host_functions_readd` and `extern_refs_after_release`
are what happens without them. The hypothesis `~Wide` is another: without it all three
theorems are false.

The facts about `Add` and `Del` of `IndexTable` are lemmas (`AddLemma`, `DelLemma`) of both
`ExternRefs_proofs` and `HostFunctions_proofs`, for the two tables.

**HostFuncManager.** `TypeInv` ties the locals of a goroutine to its program
counter. `MutexHeld`: a goroutine is at a statement of an operation exactly when it
holds the mutex, so that at most one is. `Ownership`: every key below `idx` is
issued, or held by an add that has reserved it, or by a del that has not recycled
it, or in `gc` - and in one of these places only. `FuncsMatch` and `DataMatch` give
the domain of each map at each program counter, and `PairsMatch` says that the
values agree once both have been written. The steps on the free list rest on
`PopLemma` and `PushLemma`, which say what `Front` and
`Append` do to a list without repetitions.

`IsLinearizable` is the refinement of `HandleTable`, step by step: an operation takes
effect in the statement before `Unlock`, and every other statement is a stutter.
`HandleTable` has no more keys than may be outstanding, and so the refinement needs
one more invariant, `KeysBounded`: `idx` never exceeds the largest number of
registrations outstanding. That is a pigeonhole argument (`RoomForAnother`): when
`gc` is empty, each of the `idx` keys is issued or held by one of the other calls
under way, and the guard of `Invoke` leaves room for one more.

**ExternRefs.** The strengthening is about who holds what. A variable holds
nothing, a live reference whose index is bound to its object, or one that it has
released itself (`VarsInv`); wasm code holds null or a live reference
(`CellsInv`); what is in the table is live and there under one index only (`TableInv`); the
table is well-formed from index 1 on (`IndexInv`). The last two are what
`AddLemma` and `DelLemma` need and give back, and
`~Shared` is what lets `Release` keep the second. Setting one of the flags shows
that none of the precautions can be spared.

**HostFunctions.** The argument is a ledger. `Places` are where keys are held: a
`Function` that owns its instance, a `NewFunction` between its two calls, and a Go
`Module`, which here includes borrowed ones and those that have been given back,
whose keys nobody deletes. `Balanced` says that no key is in two places and that the places
hold together exactly the registered keys. Every step of the component is an entry
of the ledger (`LedgerAdd`, `LedgerDel`, `LedgerMove`), and so the key that one
goroutine deletes is never that of an instance that wasm code can still call, which
is what `InstanceInv` and `FrameInv` (about every frame of every goroutine) need: between `HostFuncInvoke` and
`HostFuncGet` the instance is `Alive`, and the key of an instance that is alive is
bound to its function. `OpInv` says that a call under way has its variable for
itself and finds it as it left it. `OneHolder` counts, and follows from the ledger
because a key is in one place and there once.

**VMWorkflow.** `CallOK` says for each call that it is in step with the VM, which
other goroutines use between its C calls: what `GetType` found is still what
`Call` would find (`LookUpHolds`), `RunWasm*` still has its module loaded or active
(`ModuleHeld`), and there are no fewer names than a list was sized for (`ListFull`).
`CallsInStep` is the theorem that this is so. It holds because of the guards `Alone`
and `OnlyLists`: a step of another goroutine that could disturb a call cannot occur
during it, for which `RunsAlone` is needed.

**AsyncExecution.** `OutcomeAtEnd`: an execution has an outcome exactly when it has
ended, and is stopped only if somebody asked. `CallOK`: a `GetResult` between its two
C calls has the length of the outcome, which cannot change any more. With these,
each action is a step of `Future` or a stutter (`ImplementsFutureHolds`): `Finish` and
the interruption decide the outcome, and the last step of a method tells it.

**Ownership.** `IInv` is `Good(var, obj, links, exec, seen)`, an operator on values,
since some steps are two changes at once: an instantiation of a VM deletes its
active module and creates another, and the state between them is no state of the
behaviour. There is a lemma for each change (`GoodBorrow`, `GoodLink`, `GoodMove`,
`GoodNew`, `GoodDelete`, `GoodExec`, `GoodSeen`), and each action is one or two of
them. `SoleOwner` alone is far from inductive: that a deletion leaves nothing stale
needs to know what objects hold (`ObjsOK`), what borrowers and links point at
(`VarsOK`, `LinksOK`), and what executions work with (`ExecsOK`). The subtle part is
`LoadingOK`: an execution that loads a module deletes the active module of its VM at
a moment of its own choice; what nobody needed when `AsyncRunWasm*` began has to be
needed by nobody until then, which the guard `Busy` of every other action ensures.

**BindgenMemory.** `IInv` follows the call under way. `Parsed` says that there is a
layout in which every parameter converted so far arrives: it survives a further
parameter because values are only appended, blocks only added, and the one block
that `SetBytes` writes belongs to none of the parameters before it (`NextArrives`).
`MadeOK` and `ReturnOK` account for each block from the call of the function to
`__wbindgen_free`: they are those from before, and that of a returned array, which the
number at 8 addresses. The rest is arithmetic: `TwoHalves` (an int64 as two int32),
`FourBytesValue` and `NumStored` (eight bytes added up), and `ArrayNumber` (an address
above the middle of the 4 GiB is found again although it is negative on its way).
It is there that a slice has to be shorter than 2 GiB: `int32(num >> 32)` is negative
for a longer one (`value.go:494`), which is the code's limit and not the proof's. `Byte`,
256 in reality, is any number above 3; the recursion over parameters is in the steps of
the behaviour, so that no induction over data is needed.

**HostCalls.** The heart is `RoundTrip`, about the operators of `Values`: a supported Go
value becomes a wasm value of its type that fits into it, and comes back as the
reference says. For integers that is `IntegerArrives`: truncation modulo `w` and the
sign give the one number between `-w/2` and `w/2 - 1` that is congruent to what was passed,
so that the `CHOOSE` of the reference has one candidate; `w` has to be even, and need
not be a power of two. `CallsIInv` then follows a call through its program counter:
parameters converted for C (`InvokeInv`), and back for the host function, with zeroes
in the slots (`HostInv`); a result, or the zero that was there, in each slot, of the
slot's type (`ReturnedInv`). `PanicsJustified` holds because `Returned` cuts off the
results for which there is no slot, so that only a value without a wasm type is
left to panic over.

**Instances.** `ContentKept` is not inductive, since growth turns offsets into cells that were
none: `ContentInv` adds that no offset beyond the end has been written, which holds
because C refuses writes that are not `Within`, and is where `~Wide` is needed. `TypeInv`
gives the size between the limits and as many cells as the size says (`Units`: no more
than a uint32_t can count, for any size of a page). A slice is one of a memory
(`SliceInv`), so that writing through it touches no element of a table.

Only model-checked: liveness (`CallsReturn`, `WaitsAreLimited`, `CancelReleasesWaiters`),
since temporal reasoning with fairness and `ENABLED` is beyond the prover used here; and
what the runs that end in a counterexample show.

## What is not modelled

C objects are modelled as far as Go code depends on them. The options of a
`Configure`, `Validate`, `Compile`, the accessors of `Statistics`, the loading of
plug-ins, the command lines, error codes, logging and versions are one C call per
method with no state in Go, so that a model would repeat the C library and not
this code. `NewConfigure` loses its C object when it panics over a wrong argument
(`configure.go:79`), and methods that take a buffer panic over an empty one
(`vm.go:74`, `loader.go:44`, `compiler.go:46`); programs that pass these are left out.
`GetImportModule` is left out because the modules it returns are replaced inside
the C library. `Result_Terminate`, which ends an execution without an error, is not
among what a host function of `HostCalls` returns.

The data race at `value.go:313` (a map read without the mutex) has no outcome a
model could enumerate; the read is an atomic step. `ast.go:148` and `170` assign
through nil pointers and panic for every function type that has parameters or
results, and need no model. When C copies the parameters of an asynchronous call
(`vm.go:147`) is not visible here.

## Plan

In the order of what matters:

1. done: `IndexTable`, `HandleTable`, `HostFuncManager` with proofs; `HostFunctions`;
   `ExternRefs`; the execution part of `VMWorkflow`; `BindgenMemory`.
2. done: `Ownership`: the owner flag of all wrapper types, the transfer to a
   module, borrowed modules, and the objects of asynchronous executions.
3. done: `AsyncExecution` and `Future`; modules borrowed from a VM in `HostFunctions`;
   the types of `ast.go`, loaders, ASTs and calling frames in `Ownership`.
4. done: `Values` and `HostCalls`, the conversions against a reference; `Instances`,
   limits, growth and slices.
5. done: lists of names, in `VMWorkflow`.
6. done: proofs about `HostFuncManager` with `Linearizable`, `ExternRefs`,
   `HostFunctions`, `VMWorkflow`, `AsyncExecution` with `ImplementsFuture`, `Ownership`
   and `BindgenMemory`.
7. done: proofs about `HostCalls`, with the conversions of `Values`, and `Instances`.
8. left: liveness, for a prover that has fairness.
