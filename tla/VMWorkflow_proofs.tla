------------------------- MODULE VMWorkflow_proofs -------------------------
(***************************************************************************)
(* Proofs about VMWorkflow: for any goroutines, modules, names and         *)
(* functions, and whatever the modules export.                             *)
(*                                                                         *)
(* The inductive invariant says of each call that it is in step with the   *)
(* VM, whose state other goroutines may change between its steps: CallOK,  *)
(* a conjunction of what each kind of call relies on.                      *)
(***************************************************************************)
EXTENDS VMWorkflow, FiniteSetTheorems, TLAPS

Ops ==
  [pc : Ended \cup {"validate", "instantiate", "type", "call", "list"}, kind : Kinds,
   run : Mods \cup {Nil}, name : Names \cup {Nil}, fn : Funcs \cup {Nil},
   ret : {"any", "void", "i32"}, len : Nat, nil : BOOLEAN, of : Mods \cup {Nil},
   names : SUBSET (Names \cup Funcs)]

Registered == {"registered", "bindgen_registered"}

(* A call at each of its statements is of a kind that has the statement,   *)
(* and has the arguments the statement needs.                              *)
KindFits(o) ==
  /\ o.kind \in Lists => o.run = Nil /\ ~o.nil /\ o.pc \in {"list", "ok"}
  /\ o.pc = "list" => o.kind \in Lists
  /\ o.run # Nil => o.kind = "execute"
  /\ o.pc \in {"validate", "instantiate"} => o.run # Nil /\ ~o.nil
  /\ o.pc = "type" => ~o.nil
  /\ o.kind \in Registered => o.name \in Names
  /\ o.kind \notin Lists /\ o.pc \notin {"idle", "error"} => o.fn \in Funcs

(* RunWasm has its module in the VM at each of its steps. *)
ModuleHeld(o) ==
  o.run # Nil =>
    /\ o.pc \in {"validate", "instantiate"} => loaded = o.run
    /\ o.pc \in {"type", "call"} => active = o.run
    /\ o.pc = "ok" => o.of = o.run

(* What the look-up of a type found is still true when the call is made. *)
LookUpHolds(o) ==
  o.pc = "call" =>
    LET type == TypeOf(LookedUp(o), o.fn) IN
    o.nil = (type = Nil) /\ o.len = ReturnsLength(type)

(* The properties of the component, for one call. *)
ResultComplete(o) ==
  o.pc \in {"ok", "panic"} /\ o.kind \notin Lists \cup {"bindgen_registered"}
    => o.len = Arity[o.of][o.fn]

NilReported(o) ==
  o.kind # "bindgen_registered" /\ o.nil /\ o.pc \in Ended => o.pc = "error"

ListFull(o) ==
  /\ o.pc = "ok" /\ o.kind \in Lists => Cardinality(o.names) = o.len
  /\ o.pc = "list" => o.len <= Cardinality(Content(o.kind))

CallOK(o) ==
  /\ KindFits(o) /\ ModuleHeld(o) /\ LookUpHolds(o)
  /\ ResultComplete(o) /\ NilReported(o) /\ ListFull(o)

(* Nothing else that executes is under way next to a RunWasm. *)
RunsAlone ==
  \A g, h \in Goroutines : g # h /\ ~Free(g) /\ op[g].run # Nil => Free(h)

IInv == TypeOK /\ RunsAlone /\ \A g \in Goroutines : CallOK(op[g])

---------------------------------------------------------------------------

LEMMA Consequences ==
  IInv => RunExecutesItsModule /\ ResultsComplete /\ NilTypeIsError /\ ListsAreFull
BY DEF IInv, CallOK, ModuleHeld, ResultComplete, NilReported, ListFull,
       RunExecutesItsModule, ResultsComplete, NilTypeIsError, HandledByVM, ListsAreFull

(* What the VM may hold, without the calls. *)
VMOK ==
  /\ stage \in {"inited", "loaded", "validated", "instantiated"}
  /\ loaded \in Mods \cup {Nil} /\ active \in Mods \cup {Nil}
  /\ reg \in [Names -> Mods \cup {Nil}]
  /\ stage # "inited" => loaded # Nil
  /\ stage = "instantiated" => active # Nil

LEMMA TypeParts == TypeOK <=> VMOK /\ op \in [Goroutines -> Ops]
BY DEF TypeOK, VMOK, Ops

LEMMA IdleFailed ==
  /\ Idle \in Ops /\ Failed \in Ops
  /\ CallOK(Idle) /\ CallOK(Failed)
<1>1. Idle \in Ops /\ Failed \in Ops
  BY ConstantsAssumption DEF Idle, Failed, Ops, Ended, Kinds, Lists
<1> QED
  BY <1>1 DEF Idle, Failed, CallOK, KindFits, ModuleHeld, LookUpHolds, ResultComplete,
     NilReported, ListFull, Ended, Lists, Registered

LEMMA TypeOfType ==
  ASSUME NEW m \in Mods \cup {Nil}, NEW fn \in Funcs
  PROVE  /\ TypeOf(m, fn) \in Nat \cup {Nil}
         /\ ReturnsLength(TypeOf(m, fn)) \in Nat
         /\ TypeOf(m, fn) # Nil => m \in Mods /\ ReturnsLength(TypeOf(m, fn)) = Arity[m][fn]
BY ConstantsAssumption DEF TypeOf, ReturnsLength

LEMMA ContentFinite ==
  ASSUME NEW kind
  PROVE  /\ IsFiniteSet(Content(kind))
         /\ Cardinality(Content(kind)) \in Nat
         /\ Content(kind) \subseteq Names \cup Funcs
<1>1. Content(kind) \subseteq Names \/ Content(kind) \subseteq Funcs
  BY DEF Content
<1>2. IsFiniteSet(Content(kind))
  BY <1>1, ConstantsAssumption, FS_Subset
<1> QED BY <1>1, <1>2, FS_CardinalityType

LEMMA InvInit == Init => IInv
<1> SUFFICES ASSUME Init PROVE IInv
  OBVIOUS
<1>1. TypeOK
  BY ConstantsAssumption, IdleFailed, TypeParts DEF Init, VMOK
<1>2. \A g \in Goroutines : op[g] = Idle
  BY DEF Init
<1> QED
  BY <1>1, <1>2, IdleFailed DEF IInv, RunsAlone, Free, Idle, Ended

---------------------------------------------------------------------------
(* Steps of a method that changes the VM and no call. *)

LEMMA LoadInv ==
  ASSUME IInv, NEW g \in Goroutines, NEW m \in Mods, Load(g, m)
  PROVE  IInv'
<1> USE DEF IInv
<1>1. op' = op /\ active' = active /\ reg' = reg /\ loaded' = m /\ stage' = "loaded"
  BY DEF Load, LoadModule
<1>2. TypeOK'
  BY <1>1, ConstantsAssumption DEF TypeOK
<1>3. RunsAlone'
  BY <1>1 DEF RunsAlone, Free
<1>4. ASSUME NEW h \in Goroutines PROVE CallOK(op[h])'
  <2>1. op[h].pc \notin {"validate", "instantiate"}
    BY DEF Load, NoRun, Free, CallOK, KindFits, Ended
  <2> QED
    BY <1>1, <2>1 DEF CallOK, KindFits, ModuleHeld, LookUpHolds, LookedUp, ResultComplete,
       NilReported, ListFull, Content
<1> QED BY <1>2, <1>3, <1>4

LEMMA ValidateInv ==
  ASSUME IInv, ValidateModule, op' = op
  PROVE  IInv'
<1> USE DEF IInv
<1>1. active' = active /\ reg' = reg /\ loaded' = loaded
  BY DEF ValidateModule
<1>2. TypeOK'
  BY <1>1 DEF TypeOK, ValidateModule
<1>3. RunsAlone'
  BY DEF RunsAlone, Free
<1>4. ASSUME NEW h \in Goroutines PROVE CallOK(op[h])'
  BY <1>1 DEF CallOK, KindFits, ModuleHeld, LookUpHolds, LookedUp, ResultComplete,
     NilReported, ListFull, Content
<1> QED BY <1>2, <1>3, <1>4

(* Calls that have ended depend on the VM no more. *)
LEMMA EndedOK ==
  ASSUME NEW h \in Goroutines, CallOK(op[h]), Free(h), op' = op
  PROVE  CallOK(op[h])'
BY DEF CallOK, KindFits, ModuleHeld, LookUpHolds, ResultComplete, NilReported, ListFull, Free,
       Ended

LEMMA AloneInv ==
  ASSUME IInv, NEW g \in Goroutines, Free(g), Alone(g), VMOK', op' = op
  PROVE  IInv'
<1>1. \A h \in Goroutines : Free(h)
  BY DEF Alone
<1>2. ASSUME NEW h \in Goroutines PROVE CallOK(op[h])'
  BY <1>1, EndedOK DEF IInv
<1>3. RunsAlone'
  BY DEF IInv, RunsAlone, Free
<1>4. TypeOK'
  BY TypeParts DEF IInv, TypeOK, VMOK
<1> QED BY <1>2, <1>3, <1>4 DEF IInv

LEMMA InstantiateInv ==
  ASSUME IInv, NEW g \in Goroutines, Instantiate(g)
  PROVE  IInv'
<1>1. VMOK'
  BY DEF IInv, TypeOK, VMOK, Instantiate, InstantiateModule
<1> QED BY <1>1, AloneInv DEF Instantiate

LEMMA CleanupInv ==
  ASSUME IInv, NEW g \in Goroutines, Cleanup(g)
  PROVE  IInv'
<1>1. VMOK'
  BY DEF VMOK, Cleanup, CleanupVM
<1> QED BY <1>1, AloneInv DEF Cleanup

LEMMA RegisterInv ==
  ASSUME IInv, NEW g \in Goroutines, NEW n \in Names, NEW m \in Mods, Register(g, n, m)
  PROVE  IInv'
<1> USE DEF IInv
<1>1. /\ op' = op /\ active' = active /\ loaded' = loaded
      /\ reg[n] = Nil /\ reg' = [reg EXCEPT ![n] = m]
  BY DEF Register, RegisterModule
<1>2. TypeOK'
  BY <1>1 DEF TypeOK, Register, RegisterModule
<1>3. RunsAlone'
  BY <1>1 DEF RunsAlone, Free
<1>4. ASSUME NEW kind
      PROVE  Cardinality(Content(kind)) <= Cardinality(Content(kind)')
  <2>1. Content(kind) \subseteq Content(kind)'
    BY <1>1, ConstantsAssumption DEF Content, TypeOK
  <2>2. Content(kind)' \subseteq Names \/ Content(kind)' \subseteq Funcs
    BY DEF Content
  <2>3. IsFiniteSet(Content(kind)')
    BY <2>2, ConstantsAssumption, FS_Subset
  <2> QED BY <2>1, <2>3, FS_Subset
<1>5. ASSUME NEW h \in Goroutines PROVE CallOK(op[h])'
  <2>1. CASE Free(h)
    BY <1>1, <2>1, EndedOK
  <2>2. CASE ~Free(h)
    <3>1. op[h].kind \in Lists /\ op[h].pc = "list"
      BY <2>2 DEF Register, OnlyLists, Free, Ended, CallOK, KindFits
    <3>2. op[h].len <= Cardinality(Content(op[h].kind)')
      <4>1. PICK kind : kind = op[h].kind
        OBVIOUS
      <4>2. Cardinality(Content(kind)) \in Nat /\ Cardinality(Content(kind)') \in Nat
        <5>1. Content(kind)' \subseteq Names \/ Content(kind)' \subseteq Funcs
          BY DEF Content
        <5> QED BY <5>1, ConstantsAssumption, FS_Subset, FS_CardinalityType, ContentFinite
      <4>3. op[h].len <= Cardinality(Content(kind)) /\ op[h].len \in Nat
        BY <3>1, <4>1 DEF CallOK, ListFull, TypeOK
      <4>4. op[h].len <= Cardinality(Content(kind)')
        BY <1>4, <4>2, <4>3
      <4> QED BY <4>1, <4>4, <1>1 DEF Content
    <3> QED
      BY <1>1, <3>1, <3>2 DEF CallOK, KindFits, ModuleHeld, LookUpHolds, ResultComplete,
         NilReported, ListFull, Ended, Content
  <2> QED BY <2>1, <2>2
<1> QED BY <1>2, <1>3, <1>5

---------------------------------------------------------------------------
(* Steps of a call. *)

(* The call may have changed the VM, when nothing else was under way. *)
LEMMA CallInv ==
  ASSUME IInv, NEW g \in Goroutines, NEW o \in Ops,
         op' = [op EXCEPT ![g] = o], VMOK', CallOK(o)',
         o.pc \notin Ended /\ o.run # Nil => Alone(g),
         o.pc \notin Ended /\ Free(g) => NoRun(g),
         Alone(g) \/ UNCHANGED <<stage, loaded, active, reg>>
  PROVE  IInv'
<1>1. TypeOK'
  <2>1. op' \in [Goroutines -> Ops]
    BY TypeParts DEF IInv
  <2> QED BY <2>1 DEF TypeOK, VMOK, Ops
<1>2. op'[g] = o /\ \A h \in Goroutines \ {g} : op'[h] = op[h]
  BY DEF IInv, TypeOK
<1>3. RunsAlone'
  <2> SUFFICES ASSUME NEW h \in Goroutines, NEW k \in Goroutines, h # k,
                      op'[h].pc \notin Ended, op'[h].run # Nil, op'[k].pc \notin Ended
               PROVE  FALSE
    BY DEF RunsAlone, Free
  <2>1. CASE h = g
    BY <2>1, <1>2 DEF Alone, Free
  <2>2. CASE k = g
    <3>1. ~Free(h) /\ op[h].run # Nil
      BY <2>2, <1>2 DEF Free
    <3>2. Free(g)
      BY <2>2, <3>1 DEF IInv, RunsAlone
    <3> QED BY <2>2, <3>1, <3>2, <1>2 DEF NoRun
  <2>3. CASE h # g /\ k # g
    BY <2>3, <1>2 DEF IInv, RunsAlone, Free
  <2> QED BY <2>1, <2>2, <2>3
<1>4. ASSUME NEW h \in Goroutines, h # g PROVE CallOK(op[h])'
  <2>1. op'[h] = op[h] /\ CallOK(op[h])
    BY <1>2, <1>4 DEF IInv
  <2>2. CASE Alone(g)
    <3>1. op[h].pc \in Ended
      BY <2>2, <1>4 DEF Alone, Free
    <3> QED
      BY <2>1, <3>1 DEF CallOK, KindFits, ModuleHeld, LookUpHolds, ResultComplete,
         NilReported, ListFull, Ended
  <2>3. CASE UNCHANGED <<stage, loaded, active, reg>>
    BY <2>1, <2>3 DEF CallOK, KindFits, ModuleHeld, LookUpHolds, LookedUp, ResultComplete,
       NilReported, ListFull, Content
  <2> QED BY <2>2, <2>3
<1>5. CallOK(op[g])'
  BY <1>2 DEF CallOK, KindFits, ModuleHeld, LookUpHolds, LookedUp, ResultComplete,
     NilReported, ListFull, Content
<1> QED BY <1>1, <1>3, <1>4, <1>5 DEF IInv

(* A call that fails. *)
LEMMA FailInv ==
  ASSUME IInv, NEW g \in Goroutines, op' = [op EXCEPT ![g] = Failed],
         UNCHANGED <<stage, loaded, active, reg>>
  PROVE  IInv'
<1>1. CallOK(Failed)'
  BY DEF Failed, Idle, CallOK, KindFits, ModuleHeld, LookUpHolds, ResultComplete, NilReported,
     ListFull, Ended, Lists, Registered
<1>2. VMOK'
  BY DEF IInv, TypeOK, VMOK
<1>3. Failed.pc \in Ended
  BY DEF Failed, Idle, Ended
<1> QED BY <1>1, <1>2, <1>3, IdleFailed, CallInv

(* While a RunWasm is under way, nothing else is. *)
LEMMA RunIsAlone ==
  ASSUME IInv, NEW g \in Goroutines, ~Free(g), op[g].run # Nil
  PROVE  Alone(g)
BY DEF IInv, RunsAlone, Alone

LEMMA RunWasmInv ==
  ASSUME IInv, NEW g \in Goroutines, NEW m \in Mods, NEW fn \in Funcs, RunWasm(g, m, fn)
  PROVE  IInv'
<1> DEFINE o == [Idle EXCEPT !.run = m, !.fn = fn, !.pc = "validate"]
<1>1. CASE LoadModule(m) /\ op' = [op EXCEPT ![g] = o]
  <2>1. o \in Ops
    BY ConstantsAssumption DEF Ops, Idle, Kinds, Lists, Ended
  <2>2. VMOK'
    BY <1>1, ConstantsAssumption DEF IInv, TypeOK, VMOK, LoadModule
  <2>3. CallOK(o)'
    BY <1>1, ConstantsAssumption DEF LoadModule, Idle, CallOK, KindFits, ModuleHeld,
       LookUpHolds, ResultComplete, NilReported, ListFull, Ended, Lists, Registered
  <2>4. Alone(g) /\ NoRun(g)
    BY DEF RunWasm, Alone, NoRun
  <2> HIDE DEF o
  <2> QED BY <1>1, <2>1, <2>2, <2>3, <2>4, CallInv
<1>2. CASE op' = [op EXCEPT ![g] = Failed] /\ UNCHANGED <<stage, loaded, active, reg>>
  BY <1>2, FailInv
<1>3. op[g] \in Ops
  BY DEF IInv, TypeOK, Ops
<1>4. [[Idle EXCEPT !.run = m, !.fn = fn] EXCEPT !.pc = "validate"] = o
  BY DEF Idle
<1> QED BY <1>1, <1>2, <1>4 DEF RunWasm

LEMMA RunValidateInv ==
  ASSUME IInv, NEW g \in Goroutines, RunValidate(g)
  PROVE  IInv'
<1>3. PICK o : o = [op[g] EXCEPT !.pc = "instantiate"]
  OBVIOUS
<1>0. op[g] \in Ops /\ CallOK(op[g])
  BY TypeParts DEF IInv
<1>1. CASE ValidateModule /\ op' = [op EXCEPT ![g].pc = "instantiate"]
  <2>1. o \in Ops
    BY <1>0, <1>3 DEF Ops
  <2>2. VMOK'
    BY <1>1 DEF IInv, TypeOK, VMOK, ValidateModule
  <2>3. CallOK(o)'
    BY <1>0, <1>1, <1>3 DEF RunValidate, ValidateModule, Ops, CallOK, KindFits, ModuleHeld,
       LookUpHolds, ResultComplete, NilReported, ListFull, Ended, Lists
  <2>4. Alone(g) /\ ~Free(g)
    BY <1>0, RunIsAlone DEF RunValidate, CallOK, KindFits, Free, Ended
  <2>5. op' = [op EXCEPT ![g] = o]
    BY <1>1, <1>3 DEF IInv, TypeOK
  <2> QED BY <2>1, <2>2, <2>3, <2>4, <2>5, CallInv
<1>2. CASE op' = [op EXCEPT ![g] = Failed] /\ UNCHANGED <<stage, loaded, active, reg>>
  BY <1>2, FailInv
<1> QED BY <1>1, <1>2 DEF RunValidate

LEMMA RunInstantiateInv ==
  ASSUME IInv, NEW g \in Goroutines, RunInstantiate(g)
  PROVE  IInv'
<1>3. PICK o : o = [op[g] EXCEPT !.pc = "type"]
  OBVIOUS
<1>0. op[g] \in Ops /\ CallOK(op[g])
  BY TypeParts DEF IInv
<1>1. CASE InstantiateModule /\ op' = [op EXCEPT ![g].pc = "type"]
  <2>1. o \in Ops
    BY <1>0, <1>3 DEF Ops
  <2>2. VMOK'
    BY <1>1 DEF IInv, TypeOK, VMOK, InstantiateModule
  <2>3. CallOK(o)'
    BY <1>0, <1>1, <1>3 DEF RunInstantiate, InstantiateModule, Ops, CallOK, KindFits, ModuleHeld,
       LookUpHolds, ResultComplete, NilReported, ListFull, Ended, Lists
  <2>4. Alone(g) /\ ~Free(g)
    BY <1>0, RunIsAlone DEF RunInstantiate, CallOK, KindFits, Free, Ended
  <2>5. op' = [op EXCEPT ![g] = o]
    BY <1>1, <1>3 DEF IInv, TypeOK
  <2> QED BY <2>1, <2>2, <2>3, <2>4, <2>5, CallInv
<1>2. CASE op' = [op EXCEPT ![g] = Failed] /\ UNCHANGED <<stage, loaded, active, reg>>
  BY <1>2, FailInv
<1> QED BY <1>1, <1>2 DEF RunInstantiate, AfterFailure

LEMMA ExecuteInv ==
  ASSUME IInv, NEW g \in Goroutines, NEW kind \in Kinds \ Lists, NEW n \in Names \cup {Nil},
         NEW fn \in Funcs, NEW ret \in {"any", "void", "i32"},
         kind \in Registered => n \in Names,
         Execute(g, kind, n, fn, ret)
  PROVE  IInv'
<1> DEFINE o == [Idle EXCEPT !.pc = "type", !.kind = kind, !.name = n, !.fn = fn, !.ret = ret]
<1>1. o \in Ops
  BY ConstantsAssumption DEF Ops, Idle, Kinds, Lists, Ended
<1>2. VMOK'
  BY DEF IInv, TypeOK, VMOK, Execute
<1>3. CallOK(o)'
  BY DEF Idle, CallOK, KindFits, ModuleHeld, LookUpHolds, ResultComplete, NilReported,
     ListFull, Ended, Lists, Kinds, Registered
<1>4. o.run = Nil
  BY DEF Idle
<1>5. op' = [op EXCEPT ![g] = o] /\ NoRun(g) /\ UNCHANGED <<stage, loaded, active, reg>>
  BY DEF Execute
<1> HIDE DEF o
<1> QED BY <1>1, <1>2, <1>3, <1>4, <1>5, CallInv

LEMMA GetTypeInv ==
  ASSUME IInv, NEW g \in Goroutines, GetType(g)
  PROVE  IInv'
<1>t. PICK type : type = TypeOf(LookedUp(op[g]), op[g].fn)
  OBVIOUS
<1>o. PICK o : o = [op[g] EXCEPT !.pc = "call", !.nil = (type = Nil),
                                 !.len = ReturnsLength(type)]
  OBVIOUS
<1>0. op[g] \in Ops /\ CallOK(op[g]) /\ op[g].pc = "type"
  BY TypeParts DEF IInv, GetType
<1>1. /\ op[g].fn \in Funcs /\ op[g].kind \notin Lists
      /\ LookedUp(op[g]) \in Mods \cup {Nil}
  BY <1>0 DEF IInv, TypeOK, CallOK, KindFits, LookedUp, Lists, Registered
<1>2. ReturnsLength(type) \in Nat
  BY <1>1, <1>t, TypeOfType
<1>3. o \in Ops
  BY <1>0, <1>2, <1>o DEF Ops
<1>4. VMOK'
  BY DEF IInv, TypeOK, VMOK, GetType
<1>5. UNCHANGED <<stage, loaded, active, reg>>
  BY DEF GetType
<1>6. LookedUp(o) = LookedUp(op[g])
  BY <1>0, <1>o DEF LookedUp, Ops
<1>7. TypeOf(LookedUp(o), o.fn)' = type
  BY <1>0, <1>5, <1>6, <1>o, <1>t DEF LookedUp, TypeOf, Ops
<1>8. CallOK(o)'
  BY <1>0, <1>1, <1>5, <1>6, <1>7, <1>o, <1>t DEF Ops, CallOK, KindFits, ModuleHeld,
     LookUpHolds, ResultComplete, NilReported, ListFull, Ended, Lists, Registered
<1>9. op' = [op EXCEPT ![g] = o]
  BY <1>o, <1>t DEF IInv, TypeOK, GetType
<1>10. ~Free(g) /\ o.run = op[g].run /\ o.pc = "call"
  BY <1>0, <1>o DEF Free, Ended, Ops
<1>11. o.run # Nil => Alone(g)
  BY <1>10, RunIsAlone
<1> QED BY <1>3, <1>4, <1>5, <1>8, <1>9, <1>10, <1>11, CallInv

(* The function is executed with the type its results were allocated for. *)
LEMMA CallActionInv ==
  ASSUME IInv, NEW g \in Goroutines, Call(g)
  PROVE  IInv'
<1>m. PICK m : m = Executed(op[g])
  OBVIOUS
<1>0. op[g] \in Ops /\ CallOK(op[g]) /\ op[g].pc = "call"
  BY TypeParts DEF IInv, Call
<1>1. /\ op[g].fn \in Funcs /\ op[g].kind \notin Lists
      /\ m \in Mods \cup {Nil}
      /\ op[g].kind # "bindgen_registered" => LookedUp(op[g]) = m
  BY <1>0, <1>m, ConstantsAssumption
     DEF IInv, TypeOK, CallOK, KindFits, LookedUp, Executed, Lists, Kinds, Registered
<1>2. CASE op' = [op EXCEPT ![g] = Failed]
  BY <1>2, FailInv DEF Call
<1>3. ASSUME TypeOf(m, op[g].fn) # Nil, NEW pc \in {"panic", "ok"},
             op' = [op EXCEPT ![g].of = m, ![g].pc = pc]
      PROVE  IInv'
  <2>o. PICK o : o = [op[g] EXCEPT !.of = m, !.pc = pc]
    OBVIOUS
  <2>1. m \in Mods /\ ReturnsLength(TypeOf(m, op[g].fn)) = Arity[m][op[g].fn]
    BY <1>1, <1>3, TypeOfType
  <2>2. o \in Ops
    BY <1>0, <2>1, <2>o DEF Ops, Ended
  <2>3. VMOK' /\ UNCHANGED <<stage, loaded, active, reg>>
    BY DEF IInv, TypeOK, VMOK, Call
  <2>4. o.kind # "bindgen_registered" => ~o.nil /\ o.len = Arity[m][o.fn]
    BY <1>0, <1>1, <1>3, <2>1, <2>o DEF CallOK, LookUpHolds, Ops
  <2>5. o.run # Nil => o.run = m
    BY <1>0, <1>1, <1>m, <2>o DEF CallOK, ModuleHeld, KindFits, Executed, Ops
  <2>6. CallOK(o)'
    BY <1>0, <1>1, <2>4, <2>5, <2>o DEF Ops, CallOK, KindFits, ModuleHeld, LookUpHolds,
       ResultComplete, NilReported, ListFull, Ended, Lists, Registered
  <2>7. op' = [op EXCEPT ![g] = o]
    BY <1>3, <2>o DEF IInv, TypeOK
  <2>8. o.pc \in Ended
    BY <1>0, <2>o DEF Ops, Ended
  <2> QED BY <2>2, <2>3, <2>6, <2>7, <2>8, CallInv
<1> QED BY <1>2, <1>3, <1>m DEF Call

LEMMA ListInv ==
  ASSUME IInv, NEW g \in Goroutines, NEW kind \in Lists, List(g, kind)
  PROVE  IInv'
<1>o. PICK o : o = [Idle EXCEPT !.pc = "list", !.kind = kind, !.len = Length(kind)]
  OBVIOUS
<1>1. o \in Ops
  <2>1. Length(kind) \in Nat
    BY ContentFinite DEF Length
  <2> QED BY <1>o, <2>1, IdleFailed DEF Ops, Kinds, Idle
<1>2. VMOK' /\ UNCHANGED <<stage, loaded, active, reg>>
  BY DEF IInv, TypeOK, VMOK, List
<1>3. o.pc = "list" /\ o.kind = kind /\ o.run = Nil /\ ~o.nil
      /\ o.len = Cardinality(Content(kind))
  BY <1>o DEF Idle, Length
<1>4. o.len <= Cardinality(Content(o.kind))'
  <2>1. Cardinality(Content(kind)) <= Cardinality(Content(kind))
    BY ContentFinite
  <2> QED BY <1>2, <1>3, <2>1 DEF Content
<1>5. CallOK(o)'
  BY <1>3, <1>4 DEF CallOK, KindFits, ModuleHeld, LookUpHolds, ResultComplete, NilReported,
     ListFull, Ended, Lists, Registered
<1>6. op' = [op EXCEPT ![g] = o] /\ NoRun(g)
  BY <1>o DEF List
<1> QED BY <1>1, <1>2, <1>3, <1>5, <1>6, CallInv

LEMMA ListNamesInv ==
  ASSUME IInv, NEW g \in Goroutines, ListNames(g)
  PROVE  IInv'
<1>k. PICK kind : kind = op[g].kind
  OBVIOUS
<1>0. op[g] \in Ops /\ CallOK(op[g]) /\ op[g].pc = "list" /\ kind \in Lists
  BY TypeParts, <1>k DEF IInv, ListNames, CallOK, KindFits
<1>1. PICK names \in SUBSET Content(kind) :
        /\ Cardinality(names) <= op[g].len
        /\ Cardinality(names) = op[g].len \/ names = Content(kind)
        /\ op' = [op EXCEPT ![g].pc = "ok", ![g].names = names]
  BY <1>k DEF ListNames
<1>2. Cardinality(names) = op[g].len
  <2>1. op[g].len <= Cardinality(Content(kind)) /\ op[g].len \in Nat
    BY <1>0, <1>k DEF CallOK, ListFull, Ops
  <2>2. Cardinality(Content(kind)) \in Nat
    BY ContentFinite
  <2> QED BY <1>1, <2>1, <2>2
<1>o. PICK o : o = [op[g] EXCEPT !.pc = "ok", !.names = names]
  OBVIOUS
<1>3. o \in Ops
  <2>1. names \in SUBSET (Names \cup Funcs)
    BY ContentFinite
  <2> QED BY <1>0, <1>o, <2>1 DEF Ops, Ended
<1>4. VMOK' /\ UNCHANGED <<stage, loaded, active, reg>>
  BY DEF IInv, TypeOK, VMOK, ListNames
<1>5. CallOK(o)'
  BY <1>0, <1>2, <1>k, <1>o DEF Ops, CallOK, KindFits, ModuleHeld, LookUpHolds, ResultComplete,
     NilReported, ListFull, Ended, Lists, Registered
<1>6. op' = [op EXCEPT ![g] = o]
  BY <1>1, <1>o DEF IInv, TypeOK
<1>7. o.pc \in Ended
  BY <1>0, <1>o DEF Ops, Ended
<1> QED BY <1>3, <1>4, <1>5, <1>6, <1>7, CallInv

---------------------------------------------------------------------------

LEMMA InvStep == IInv /\ [Next]_vars => IInv'
<1> SUFFICES ASSUME IInv, [Next]_vars PROVE IInv'
  OBVIOUS
<1>1. CASE UNCHANGED vars
  BY <1>1 DEF vars, IInv, TypeOK, RunsAlone, Free, CallOK, KindFits, ModuleHeld, LookUpHolds,
     LookedUp, ResultComplete, NilReported, ListFull, Content
<1>2. ASSUME NEW g \in Goroutines, Validate(g) PROVE IInv'
  BY <1>2, ValidateInv DEF Validate
<1>3. ASSUME NEW g \in Goroutines, NEW fn \in Funcs, Execute(g, "execute", Nil, fn, "any")
      PROVE  IInv'
  BY <1>3, ExecuteInv DEF Kinds, Lists, Registered
<1>4. ASSUME NEW g \in Goroutines, NEW fn \in Funcs, NEW ret \in {"void", "i32"},
             Execute(g, "bindgen", Nil, fn, ret)
      PROVE  IInv'
  BY <1>4, ExecuteInv DEF Kinds, Lists, Registered
<1>5. ASSUME NEW g \in Goroutines, NEW fn \in Funcs, NEW n \in Names,
             Execute(g, "registered", n, fn, "any")
      PROVE  IInv'
  BY <1>5, ExecuteInv DEF Kinds, Lists
<1>6. ASSUME NEW g \in Goroutines, NEW fn \in Funcs, NEW n \in Names, NEW ret \in {"void", "i32"},
             Execute(g, "bindgen_registered", n, fn, ret)
      PROVE  IInv'
  BY <1>6, ExecuteInv DEF Kinds, Lists
<1>7. ASSUME NEW g \in Goroutines,
             GetFunctionList(g) \/ ListFunction(g) \/ ListRegisteredModule(g) \/ ListModule(g)
      PROVE  IInv'
  BY <1>7, ListInv DEF GetFunctionList, ListFunction, ListRegisteredModule, ListModule, Lists
<1> QED
  BY <1>1, <1>2, <1>3, <1>4, <1>5, <1>6, <1>7, LoadInv, RegisterInv, InstantiateInv, CleanupInv,
     RunWasmInv, RunValidateInv, RunInstantiateInv, GetTypeInv, CallActionInv, ListNamesInv
     DEF Next

(* The inductive invariant: goroutines that share a VM, and keep to what   *)
(* Alone and NoRun ask of them, find it at every step of a method as the   *)
(* step before has left it (vm.go:99-136, 230-252, 394-405).               *)
THEOREM CallsInStep == Spec => []IInv
<1> QED BY InvInit, InvStep, PTL DEF Spec

(* A RunWasm call that succeeds has executed the module it was given       *)
(* (vm.go:99-136), and every variable is of its type.                      *)
THEOREM RunExecutesItsModuleHolds == Spec => []RunExecutesItsModule
<1> QED BY CallsInStep, Consequences, PTL

(* The results of a call were allocated for the function that has been     *)
(* executed: none is cut off (vm.go:230-252, 300-322).                     *)
THEOREM ResultsCompleteHolds == Spec => []ResultsComplete
<1> QED BY CallsInStep, Consequences, PTL

(* Where the look-up of the type finds none, the VM reports the error, as  *)
(* the comment says that keeps the method running (vm.go:232, 274, 302).   *)
THEOREM NilTypeIsErrorHolds == Spec => []NilTypeIsError
<1> QED BY CallsInStep, Consequences, PTL

(* A list has as many names as there were when it was asked for, although  *)
(* modules are registered in between (vm.go:394, 435).                     *)
THEOREM ListsAreFullHolds == Spec => []ListsAreFull
<1> QED BY CallsInStep, Consequences, PTL
=============================================================================
