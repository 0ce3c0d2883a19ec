---------------------------- MODULE ExternRefs ----------------------------
(***************************************************************************)
(* External references (value.go, hostfunc.go): NewExternRef stores a Go   *)
(* object in externRefManager and wraps its index in a reference that can  *)
(* be copied, passed to wasm code, kept there, and come back as a result   *)
(* or as a parameter of a host function; Release deletes the object.       *)
(*                                                                         *)
(* Wasm code sees a bare index.  ref.null is the index 0, which is why     *)
(* the indices start from 1.                                               *)
(*                                                                         *)
(* The three flags say how careful the program is.  With all of them FALSE *)
(* it releases a live reference, once, when nobody else has it any more,   *)
(* and then forgets it.                                                    *)
(***************************************************************************)
EXTENDS IndexTable

CONSTANTS
  Objects,       \* bound: the Go objects ever registered, each one once
  Vars,          \* ExternRef variables of the program
  Cells,         \* places where wasm code keeps a reference
  UsesReleased,  \* TRUE: the program goes on using what it has released
  ReleasesEarly, \* TRUE: it releases what wasm code or another variable holds
  ReleasesNull   \* TRUE: it also releases references to nothing

ASSUME ConstantsAssumption ==
  /\ Nil \notin Objects
  /\ {UsesReleased, ReleasesEarly, ReleasesNull} \subseteq BOOLEAN

VARIABLES
  tab,      \* the table of externRefManager
  var,      \* var[v]: a Go ExternRef, with (history) the object it was made for
  cell,     \* cell[c]: a reference in wasm code, with the same history
  stage,    \* stage[o]: whether object o is still new, live or released
  got,      \* the last result of GetRef, with the object it was asked for
  panic     \* Nil, or where the program has panicked, and over which object's reference

vars == <<tab, var, cell, stage, got, panic>>

ZeroRef == [idx |-> 0, valid |-> FALSE, obj |-> Nil]
NullRef == [idx |-> 0, obj |-> Nil]

FirstIndex_Zero == 0     \* mistake: the index of ref.null is not reserved
FirstIndex == 1

Init ==
  /\ tab = NewTable(FirstIndex)
  /\ var = [v \in Vars |-> ZeroRef]
  /\ cell = [c \in Cells |-> NullRef]
  /\ stage = [o \in Objects |-> "new"]
  /\ got = [want |-> Nil, have |-> Nil]
  /\ panic = Nil

Live(o) == o # Nil /\ stage[o] = "live"

(* The program has not panicked, and may use what is in v. *)
Usable(v) ==
  /\ panic = Nil
  /\ UsesReleased \/ var[v].obj = Nil \/ Live(var[v].obj)

NewExternRef(v, o) ==
  /\ panic = Nil
  /\ stage[o] = "new"
  /\ tab' = Add(tab, o)
  /\ var' = [var EXCEPT ![v] = [idx |-> NextKey(tab), valid |-> TRUE, obj |-> o]]
  /\ stage' = [stage EXCEPT ![o] = "live"]
  /\ UNCHANGED <<cell, got, panic>>

(* An assignment in the program. *)
Copy(v, w) ==
  /\ Usable(v)
  /\ var' = [var EXCEPT ![w] = var[v]]
  /\ UNCHANGED <<tab, cell, stage, got, panic>>

Shared(v) ==
  \/ \E w \in Vars \ {v} : var[w].obj = var[v].obj
  \/ \E c \in Cells : cell[c].obj = var[v].obj

(* self is a copy of the variable, so that the assignment to self._valid   *)
(* is lost and the variable still says it is valid.                        *)
Release(v) ==
  /\ Usable(v)
  /\ var[v].obj = Nil => ReleasesNull
  /\ ReleasesEarly \/ var[v].obj = Nil \/ ~Shared(v)
  /\ tab' = Del(tab, var[v].idx)
  /\ stage' = [o \in Objects |-> IF o = var[v].obj THEN "released" ELSE stage[o]]
  /\ UNCHANGED <<var, cell, got, panic>>

ObjectOf_Index(v) == IF var[v].valid THEN var[v].idx ELSE Nil   \* mistake: not looked up
ObjectOf(v) == IF var[v].valid THEN Get(tab, var[v].idx) ELSE Nil

GetRef(v) ==
  /\ Usable(v)
  /\ got' = [want |-> var[v].obj, have |-> ObjectOf(v)]
  /\ UNCHANGED <<tab, var, cell, stage, panic>>

(* toWasmEdgeValue: an invalid reference is not passed to wasm code. *)
ToWasm(v, c) ==
  /\ Usable(v)
  /\ IF var[v].valid
     THEN /\ cell' = [cell EXCEPT ![c] = [idx |-> var[v].idx, obj |-> var[v].obj]]
          /\ UNCHANGED panic
     ELSE panic' = [at |-> "argument", obj |-> var[v].obj] /\ UNCHANGED cell
  /\ UNCHANGED <<tab, var, stage, got>>

(* Mistakes: every reference from wasm code is invalid; and the index is    *)
(* compared with the counter, which knows nothing of ref.null.             *)
FromWasm_Invalid(c) == [idx |-> cell[c].idx, valid |-> FALSE, obj |-> cell[c].obj]
FromWasm_ByCounter(c) ==
  [idx |-> cell[c].idx, valid |-> cell[c].idx < tab.idx, obj |-> cell[c].obj]

(* fromWasmEdgeValue: a reference is valid if its index is in the map now. *)
FromWasm(c) ==
  [idx |-> cell[c].idx, valid |-> cell[c].idx \in DOMAIN tab.data, obj |-> cell[c].obj]

(* A reference that is a result of wasm code. *)
Result(c, v) ==
  /\ panic = Nil
  /\ var' = [var EXCEPT ![v] = FromWasm(c)]
  /\ UNCHANGED <<tab, cell, stage, got, panic>>

(* A reference that is a parameter of a host function. *)
HostParam(c, v) ==
  /\ panic = Nil
  /\ IF FromWasm(c).valid
     THEN var' = [var EXCEPT ![v] = FromWasm(c)] /\ UNCHANGED panic
     ELSE panic' = [at |-> "host_param", obj |-> cell[c].obj] /\ UNCHANGED var
  /\ UNCHANGED <<tab, cell, stage, got>>

(* Wasm code copies a reference, or sets one to ref.null. *)
WasmAssign(c, r) ==
  /\ panic = Nil
  /\ cell' = [cell EXCEPT ![c] = r]
  /\ UNCHANGED <<tab, var, stage, got, panic>>

Next ==
  \/ \E v \in Vars :
       \/ Release(v) \/ GetRef(v)
       \/ \E o \in Objects : NewExternRef(v, o)
       \/ \E w \in Vars : Copy(v, w)
       \/ \E c \in Cells : ToWasm(v, c) \/ Result(c, v) \/ HostParam(c, v)
  \/ \E c \in Cells, r \in {cell[d] : d \in Cells} \cup {NullRef} : WasmAssign(c, r)

Spec == Init /\ [][Next]_vars

---------------------------------------------------------------------------

(* The type invariant. *)
TypeOK ==
  /\ tab.idx \in Nat /\ tab.gc \in Seq(Nat)
  /\ \A k \in DOMAIN tab.data : k \in Nat /\ tab.data[k] \in Objects
  /\ var \in [Vars -> [idx : Nat, valid : BOOLEAN, obj : Objects \cup {Nil}]]
  /\ cell \in [Cells -> [idx : Nat, obj : Objects \cup {Nil}]]
  /\ stage \in [Objects -> {"new", "live", "released"}]
  /\ got \in [want : Objects \cup {Nil}, have : Objects \cup {Nil}]
  /\ panic \in [at : {"argument", "host_param"}, obj : Objects \cup {Nil}] \cup {Nil}

(* No index is recycled twice or while in use, none is lost, and 0 is      *)
(* never among them: "Index = 0 is reserved for ref.null" (value.go:169).  *)
IndicesRecycledOnce == WellFormed(1, tab)

(* An object is in the table under one index at most, and every copy of    *)
(* the reference to a live one, in Go or in wasm code, carries an index    *)
(* that yields it: copies of references to different objects never agree.  *)
CopiesResolve ==
  /\ \A j, k \in DOMAIN tab.data : tab.data[j] = tab.data[k] => j = k
  /\ \A r \in {var[v] : v \in Vars} \cup {cell[c] : c \in Cells} :
       Live(r.obj) => Get(tab, r.idx) = r.obj

(* GetRef returns the object the reference was made for, wherever it has   *)
(* been since.                                                             *)
GetRefReturnsIt == got.have = got.want

(* A reference from wasm code is valid exactly when it is not null.        *)
ValidUnlessNull == \A c \in Cells : FromWasm(c).valid <=> cell[c].idx # 0

(* ref.null stands for nothing, so that no object may have index 0         *)
(* (value.go:169).                                                         *)
NullIsReserved == 0 \notin DOMAIN tab.data

(* A released reference does not reach wasm code: toWasmEdgeValue panics   *)
(* with "External reference is released" (value.go:257-259).               *)
ReleasedIsNotPassed ==
  [][\A v \in Vars, c \in Cells : ToWasm(v, c) /\ cell'[c] # cell[c] => Live(var[v].obj)]_vars

(* A host function does not receive a released reference: the wrapper      *)
(* panics with "External reference is released" (hostfunc.go:75-77).       *)
ReleasedIsNotReceived ==
  [][\A v \in Vars, c \in Cells :
       HostParam(c, v) /\ panic' = Nil => Live(cell[c].obj)]_vars

(* When the wrapper of host functions panics with "External reference is   *)
(* released" (hostfunc.go:76), the reference has been released.            *)
PanicMeansReleased ==
  panic # Nil /\ panic.at = "host_param" => panic.obj # Nil /\ stage[panic.obj] = "released"
===========================================================================
