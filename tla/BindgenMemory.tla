--------------------------- MODULE BindgenMemory ---------------------------
(***************************************************************************)
(* ExecuteBindgen and ExecuteBindgenRegistered (vm.go, value.go): calls    *)
(* with the convention of wasm-bindgen.  Byte arrays are passed and        *)
(* returned in the memory of the wasm module, in blocks of its own         *)
(* allocator, and i64 values as two i32 halves or through memory, so that  *)
(* one Go call is several calls of the wasm module and its memory.         *)
(*                                                                         *)
(* The functions of the module, its allocator among them, are external:    *)
(* they do what wasm-bindgen makes them do, or trap.  A VM is used by one  *)
(* goroutine at a time.                                                    *)
(***************************************************************************)
EXTENDS Integers, Sequences, FiniteSets, FiniteSetsExt

CONSTANTS
  Byte,        \* how many values a byte has: 256
  Active,      \* the active module (modname == nil) ...
  Registered,  \* ... and the names of the registered ones
  HasMemory,   \* the modules that export a memory
  HeapAddrs,   \* bound: the addresses the allocator gives
  MaxLeft,     \* bound: no call begins when more blocks have been left behind
  Contents,    \* what byte arrays hold
  Params,      \* what is passed
  MaxParams,   \* bound: how many parameters at once
  Results      \* what functions return

Mods == Registered \cup {Active}
Cells == 0 .. 15         \* where results are put: an i64 at 0, an array's address and length at 8

W32 == Byte * Byte * Byte * Byte
W64 == W32 * W32

\* The conversions of Go: uint32(), int32() and int64() of any integer.
U32(n) == n % W32
I32(n) == IF U32(n) < W32 \div 2 THEN U32(n) ELSE U32(n) - W32
I64(n) == IF n % W64 < W64 \div 2 THEN n % W64 ELSE (n % W64) - W64

(* A value is passed, and returned, with its Go type. *)
Bytes(len, data) == [type |-> "bytes", len |-> len, data |-> data]
Number(type, n) == [type |-> type, n |-> n]
Numbers == {"int32", "uint32", "int64", "uint64"}
Unsupported == [type |-> "unsupported"]

Signed(w) == -(w \div 2) .. w \div 2 - 1
Arrays(len) == [type : {"bytes"}, len : len, data : Contents]
IntegersOf(type, range) == [type : {type}, n : range]

(* Values of the types of Go; a slice returned has less than 2 GiB. *)
ASSUME ConstantsAssumption ==
  /\ Byte \in Nat /\ Byte > 3
  /\ HasMemory \subseteq Mods
  /\ HeapAddrs \subseteq 16 .. W32 - 1
  /\ MaxLeft \in Nat /\ MaxParams \in Nat
  /\ Params \subseteq
       IntegersOf("int32", Signed(W32)) \cup IntegersOf("uint32", 0 .. W32 - 1)
       \cup IntegersOf("int64", Signed(W64)) \cup IntegersOf("uint64", 0 .. W64 - 1)
       \cup Arrays(0 .. W32 - 1) \cup {Unsupported}
  /\ Results \subseteq
       IntegersOf("int32", Signed(W32)) \cup IntegersOf("int64", Signed(W64))
       \cup Arrays(0 .. W32 \div 2 - 1)

VARIABLES
  low,    \* low[m]: the first cells of m's memory
  heap,   \* heap[m]: the allocated blocks of m's memory
  call    \* the call that is under way, or how the last one ended

vars == <<low, heap, call>>

Returns == {"void", "i32", "i64", "array"}   \* the Bindgen_return_* constants

NoResult == [type |-> "none"]

(* args are the parameters still to convert, all of them (history), cvals  *)
(* what has been converted, made what the function returned (history),     *)
(* before the blocks there were when the call began (history).             *)
Idle == [pc |-> "idle", mod |-> Active, ret |-> "void", args |-> <<>>, params |-> <<>>,
         cvals |-> <<>>, made |-> NoResult, got |-> NoResult, before |-> {}]

Init ==
  /\ low = [m \in Mods |-> [c \in Cells |-> 0]]
  /\ heap = [m \in Mods |-> {}]
  /\ call = Idle

(* The end of a call forgets what only its steps need. *)
End(how, result) ==
  call' = [call EXCEPT !.pc = how, !.got = result, !.args = <<>>, !.params = <<>>, !.cvals = <<>>]
Panic == End("panic", NoResult)

---------------------------------------------------------------------------
(* The memory and the allocator of a wasm module. *)

Block(a, len, data) == [addr |-> a, len |-> len, data |-> data]
Cover(a, len) == a .. a + len - 1

(* The allocator gives addresses at which len bytes are free. *)
FreeAt(m, len) ==
  {a \in HeapAddrs : \A b \in heap[m] :
     a # b.addr /\ Cover(a, len) \cap Cover(b.addr, b.len) = {}}

(* The four lowest bytes of n, lowest first, and the number in four cells. *)
FourBytes(n) ==
  LET a == n \div Byte  b == a \div Byte  c == b \div Byte IN
  <<n % Byte, a % Byte, b % Byte, c % Byte>>
Word(f, c) == f[c] + Byte * (f[c + 1] + Byte * (f[c + 2] + Byte * f[c + 3]))

\* n as eight bytes from cell c on
Stored(c, n) ==
  [x \in c .. c + 7 |-> IF x < c + 4 THEN FourBytes(n)[x - c + 1]
                       ELSE FourBytes(n \div W32)[x - c - 3]]
Written(m, f) == [low EXCEPT ![m] = [c \in Cells |-> IF c \in DOMAIN f THEN f[c] ELSE @[c]]]

(* What a function sees of its parameters when it takes types of them from *)
(* the i32 values vs; an array is the block at the address it is given.    *)
DataAt(m, a, len) ==
  IF \E b \in heap[m] : b.addr = a /\ b.len = len
  THEN (CHOOSE b \in heap[m] : b.addr = a /\ b.len = len).data
  ELSE "invalid"

Seen(m, type, x, y) ==
  CASE type = "int32"  -> Number(type, x)
    [] type = "uint32" -> Number(type, U32(x))
    [] type = "int64"  -> Number(type, I64(U32(x) + W32 * U32(y)))
    [] type = "uint64" -> Number(type, U32(x) + W32 * U32(y))
    [] type = "bytes"  -> Bytes(U32(y), DataAt(m, U32(x), U32(y)))

Width(p) == IF p.type \in {"int32", "uint32"} THEN 1 ELSE 2

---------------------------------------------------------------------------
(* Parameters: toWasmEdgeValueSlideBindgen *)

(* The address of the result comes first, if it has one. *)
ResultAddress(ret) == CASE ret = "array" -> <<8>> [] ret = "i64" -> <<0>> [] OTHER -> <<>>

Begin(m, ret, params) ==
  /\ call.pc = "idle"
  /\ MapThenSumSet(LAMBDA n : Cardinality(heap[n]), Mods) <= MaxLeft
  /\ call' = [Idle EXCEPT !.pc = "convert", !.mod = m, !.ret = ret, !.args = params,
                          !.params = params, !.cvals = ResultAddress(ret), !.before = heap[m]]
  /\ UNCHANGED <<low, heap>>

\* Mistake: the high half is not cut to 32 bits.
Halves_Wide(n) == <<I32(n), n \div W32>>

(* An int64 or uint64 is passed as two i32. *)
Halves(n) == <<I32(n), I32(n \div W32)>>

ConvertNumber ==
  LET p == Head(call.args) IN
  /\ call.pc = "convert" /\ call.args # <<>>
  /\ p.type \in Numbers
  /\ call' = [call EXCEPT !.cvals = @ \o IF Width(p) = 1 THEN <<I32(p.n)>> ELSE Halves(p.n),
                          !.args = Tail(@)]
  /\ UNCHANGED <<low, heap>>

(* What was allocated for the parameters before stays allocated. *)
ConvertUnsupported ==
  /\ call.pc = "convert" /\ call.args # <<>>
  /\ Head(call.args).type = "unsupported"
  /\ Panic
  /\ UNCHANGED <<low, heap>>

(* A byte array gets a block from the module's __wbindgen_malloc, whose    *)
(* content is undefined at first; address and length are passed.           *)
Malloc ==
  LET p == Head(call.args) IN
  /\ call.pc = "convert" /\ call.args # <<>>
  /\ p.type = "bytes"
  /\ \E a \in FreeAt(call.mod, p.len) :
       /\ heap' = [heap EXCEPT ![call.mod] = @ \cup {Block(a, p.len, "undefined")}]
       /\ call' = [call EXCEPT !.pc = "set", !.cvals = @ \o <<I32(a), I32(p.len)>>]
  /\ UNCHANGED low

MallocFails ==
  /\ call.pc = "convert" /\ call.args # <<>>
  /\ Head(call.args).type = "bytes"
  /\ Panic
  /\ UNCHANGED <<low, heap>>

MemoryOf_Active(m) == Active    \* mistake: the name is not looked at

(* The module whose first memory is used. *)
MemoryOf(m) == m

(* The bytes are copied to the address that malloc returned, an int32 that *)
(* goes through uint to uint32_t; there may be no memory to copy them to.  *)
(* SetData, whose error is dropped, does not fail: the block is in memory. *)
SetBytes ==
  LET p == Head(call.args)
      a == U32(call.cvals[Len(call.cvals) - 1])
      m == MemoryOf(call.mod) IN
  /\ call.pc = "set"
  /\ IF m \in HasMemory
     THEN /\ heap' = [heap EXCEPT ![m] =
                        {IF b.addr = a /\ b.len = p.len THEN Block(a, b.len, p.data) ELSE b
                           : b \in @}]
          /\ call' = [call EXCEPT !.pc = "convert", !.args = Tail(@)]
     ELSE Panic /\ UNCHANGED heap
  /\ UNCHANGED low

---------------------------------------------------------------------------
(* The call of the wasm function *)

(* The function takes its i32 values from left to right, behind the        *)
(* address of the result: at[i] is where those of the i-th parameter are.  *)
Layout(at) ==
  /\ at[1] = Len(ResultAddress(call.ret)) + 1
  /\ \A i \in DOMAIN call.params : at[i + 1] = at[i] + Width(call.params[i])

SeenAt(at, i) ==
  LET p == call.params[i] IN
  Seen(call.mod, p.type, call.cvals[at[i]], IF Width(p) = 1 THEN 0 ELSE call.cvals[at[i] + 1])

(* The function frees the arrays it was passed, ... *)
ArgBlocks == {b \in heap[call.mod] : b \notin call.before}

Executed(result) ==
  call' = [call EXCEPT !.pc = "executed", !.made = result, !.params = <<>>, !.cvals = <<>>]

(* ... and returns a result as its return type says: on the stack, as 8    *)
(* bytes at the address it was passed, or in a block, of which address and *)
(* length are put there.                                                   *)
Execute ==
  LET m == call.mod
      kept == heap[m] \ ArgBlocks IN
  /\ call.pc = "convert" /\ call.args = <<>>
  /\ \/ /\ call.ret = "void"
        /\ heap' = [heap EXCEPT ![m] = kept]
        /\ Executed(NoResult)
        /\ UNCHANGED low
     \/ \E r \in Results :
          /\ call.ret = "i32" /\ r.type = "int32"
          /\ heap' = [heap EXCEPT ![m] = kept]
          /\ Executed(r)
          /\ UNCHANGED low
     \/ \E r \in Results :
          /\ call.ret = "i64" /\ r.type = "int64"
          /\ heap' = [heap EXCEPT ![m] = kept]
          /\ low' = Written(m, Stored(call.cvals[1], r.n))
          /\ Executed(r)
     \/ \E r \in Results : \E a \in FreeAt(m, IF r.type = "bytes" THEN r.len ELSE 0) :
          /\ call.ret = "array" /\ r.type = "bytes"
          /\ heap' = [heap EXCEPT ![m] = kept \cup {Block(a, r.len, r.data)}]
          /\ low' = Written(m, Stored(call.cvals[1], a + W32 * r.len))
          /\ Executed(r)

(* A function that traps may have freed its parameters, or not. *)
ExecuteFails ==
  /\ call.pc = "convert" /\ call.args = <<>>
  /\ \E freed \in {{}, ArgBlocks} : heap' = [heap EXCEPT ![call.mod] = @ \ freed]
  /\ End("error", NoResult)
  /\ UNCHANGED low

---------------------------------------------------------------------------
(* Results: fromWasmEdgeValueSlideBindgen *)

\* Mistake: the bytes are taken as int8.
Num_SignedBytes(m, c) ==
  LET int8 == [x \in Cells |-> IF 2 * low[m][x] < Byte THEN low[m][x] ELSE low[m][x] - Byte] IN
  I64(Word(int8, c) + W32 * Word(int8, c + 4))

(* 8 bytes from cell c on, added up as an int64. *)
Num(m, c) == I64(Word(low[m], c) + W32 * Word(low[m], c + 4))

(* The function has as many results as the call expects: that a result is  *)
(* missing, over which the conversion panics, is in VMWorkflow (Call).     *)
ReturnOnStack ==
  /\ call.pc = "executed" /\ call.ret \in {"void", "i32"}
  /\ End("ok", IF call.ret = "void" THEN NoResult ELSE call.made)
  /\ UNCHANGED <<low, heap>>

ReturnI64 ==
  /\ call.pc = "executed" /\ call.ret = "i64"
  /\ IF MemoryOf(call.mod) \in HasMemory
     THEN End("ok", Number("int64", Num(MemoryOf(call.mod), 0)))
     ELSE Panic
  /\ UNCHANGED <<low, heap>>

ArrayAddress(num) == I32(num)
ArrayLength(num) == I32(num \div W32)

(* The C library refuses what the memory is too small for. *)
GetDataFails ==
  /\ call.pc = "executed" /\ call.ret \in {"i64", "array"}
  /\ MemoryOf(call.mod) \in HasMemory
  /\ End("error", NoResult)
  /\ UNCHANGED <<low, heap>>

(* The result is a slice over the block the function allocated. *)
ReturnArray ==
  LET m == MemoryOf(call.mod)
      num == Num(m, 8)
      a == ArrayAddress(num)
      len == ArrayLength(num) IN
  /\ call.pc = "executed" /\ call.ret = "array"
  /\ IF m \in HasMemory
     THEN call' = [call EXCEPT !.pc = "free", !.cvals = <<a, len>>,
                               !.got = Bytes(len, DataAt(m, U32(a), U32(len)))]
     ELSE Panic
  /\ UNCHANGED <<low, heap>>

\* Mistake: the array is returned and never freed.
Freed_Not(m, a, len) == heap

(* __wbindgen_free of the module; the slice stays. *)
Freed(m, a, len) ==
  [heap EXCEPT ![m] = {b \in @ : ~(b.addr = U32(a) /\ b.len = U32(len))}]

FreeArray ==
  /\ call.pc = "free"
  /\ heap' = Freed(call.mod, call.cvals[1], call.cvals[2])
  /\ End("ok", call.got)
  /\ UNCHANGED low

FreeFails ==
  /\ call.pc = "free"
  /\ Panic
  /\ UNCHANGED <<low, heap>>

(* The program has the result.  The cells for results are the stack of the *)
(* module, which writes other things there.                                *)
Done ==
  /\ call.pc \in {"ok", "error", "panic"}
  /\ call' = Idle
  /\ low' = [low EXCEPT ![call.mod] = [c \in Cells |-> 0]]
  /\ UNCHANGED heap

(* VM.Cleanup drops the modules; loaded anew they have a new memory. *)
Cleanup ==
  /\ call.pc = "idle"
  /\ heap' = [m \in Mods |-> {}]
  /\ UNCHANGED <<low, call>>

---------------------------------------------------------------------------

Next ==
  \/ \E m \in Mods, ret \in Returns, n \in 0 .. MaxParams :
       \E params \in [1 .. n -> Params] : Begin(m, ret, params)
  \/ ConvertNumber \/ ConvertUnsupported
  \/ Malloc \/ MallocFails \/ SetBytes
  \/ Execute \/ ExecuteFails
  \/ ReturnOnStack \/ ReturnI64 \/ ReturnArray \/ GetDataFails
  \/ FreeArray \/ FreeFails
  \/ Done \/ Cleanup

Spec == Init /\ [][Next]_vars

---------------------------------------------------------------------------

Blocks == [addr : HeapAddrs, len : Nat, data : Contents \cup {"undefined"}]

(* The type invariant: what is passed to wasm is in the range of an i32,   *)
(* and no two blocks have an address in common.                            *)
TypeOK ==
  /\ low \in [Mods -> [Cells -> 0 .. Byte - 1]]
  /\ \A m \in Mods : heap[m] \subseteq Blocks
  /\ \A m \in Mods : \A b, c \in heap[m] :
       b # c => b.addr # c.addr /\ Cover(b.addr, b.len) \cap Cover(c.addr, c.len) = {}
  /\ call.pc \in {"idle", "convert", "set", "executed", "free", "ok", "error", "panic"}
  /\ call.mod \in Mods /\ call.ret \in Returns /\ call.before \subseteq Blocks
  /\ \A s \in {call.args, call.params} : \A i \in DOMAIN s : s[i] \in Params
  /\ {call.made, call.got} \subseteq Results \cup {NoResult}
  /\ \A i \in DOMAIN call.cvals : call.cvals[i] = I32(call.cvals[i])

(* When the function is called, it finds each parameter as the program     *)
(* passed it, halves put together and arrays read from its own memory,     *)
(* behind the address of the result (toWasmEdgeValueSlideBindgen).         *)
ArgumentsArrive ==
  call.pc = "convert" /\ call.args = <<>> =>
    \E at \in [1 .. Len(call.params) + 1 -> 1 .. Len(call.cvals) + 1] :
      /\ Layout(at) /\ at[Len(call.params) + 1] = Len(call.cvals) + 1
      /\ \A i \in DOMAIN call.params : SeenAt(at, i) = call.params[i]

(* A call without error returns what the function returned: an int64 with  *)
(* its sign, an array wherever in the 4 GiB it is.                         *)
ResultArrives == call.pc = "ok" => call.got = call.made

(* A call without error leaves no block behind, and one that fails frees   *)
(* none that was there before.                                             *)
NothingKept ==
  /\ call.pc = "ok" => heap[call.mod] = call.before
  /\ call.pc \in {"error", "panic"} => call.before \subseteq heap[call.mod]
===========================================================================
