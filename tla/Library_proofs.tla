--------------------------- MODULE Library_proofs ---------------------------
(***************************************************************************)
(* Proofs about what is passed to the C library and comes back: the values *)
(* of calls and globals (HostCalls), and the limits, offsets and contents  *)
(* of tables and memories (Instances).  They hold for words of any even    *)
(* number of values, any values, types and numbers of parameters and       *)
(* results, and any sizes.                                                 *)
(*                                                                         *)
(* A number that C takes modulo a power of two is what it was, or is       *)
(* congruent to it; the rest is to follow it through each call.            *)
(***************************************************************************)
EXTENDS HostCalls, Instances, TLAPS

(* Arithmetic with a remainder. *)
LEMMA Division ==
  ASSUME NEW n \in Int, NEW w \in Nat, w > 0
  PROVE  n = w * (n \div w) + (n % w) /\ n \div w \in Int /\ n % w \in 0 .. w - 1
OBVIOUS

(* Quotient and remainder are the only ones.                               *)
LEMMA DivisionUnique ==
  ASSUME NEW w \in Nat, w > 0, NEW q \in Int, NEW r \in 0 .. w - 1
  PROVE  (w * q + r) \div w = q /\ (w * q + r) % w = r
OBVIOUS

(* An integer, truncated on its way to C and taken as a signed one on its  *)
(* way back, is the one of the signed range that is congruent to it.       *)
LEMMA IntegerArrives ==
  ASSUME NEW w \in Nat, w > 0, w % 2 = 0, NEW n \in Int
  PROVE  /\ Truncated(n, w) \in 0 .. w - 1
         /\ Signed(Truncated(n, w), w) =
              CHOOSE x \in SignedRange(w) : (x - n) % w = 0
<1> DEFINE h == w \div 2
           b == n % w
           q == n \div w
           s == IF b >= h THEN b - w ELSE b
<1>1. w = 2 * h /\ h \in Nat
  BY Division
<1>2. n = w * q + b /\ q \in Int /\ b \in 0 .. w - 1
  BY Division
<1> HIDE DEF h, b, q
<1>3. s \in -h .. h - 1
  BY <1>1, <1>2
<1>4. (s - n) % w = 0
  <2>1. w * (-q) = -(w * q) /\ w * (-q - 1) = -(w * q) - w /\ w * q \in Int
    BY <1>2
  <2>2. (w * (-q) + 0) % w = 0 /\ (w * (-q - 1) + 0) % w = 0
    BY <1>2, DivisionUnique
  <2>3. s - n = w * (-q) + 0 \/ s - n = w * (-q - 1) + 0
    BY <1>1, <1>2, <2>1
  <2> QED BY <2>2, <2>3
<1>5. \A x \in -h .. h - 1 : (x - n) % w = 0 => x = s
  <2> SUFFICES ASSUME NEW x \in -h .. h - 1, (x - n) % w = 0 PROVE x = s
    OBVIOUS
  <2> HIDE DEF s
  <2>1. PICK k \in Int : x - n = w * k
    <3>1. x - n \in Int
      BY <1>1
    <3>2. x - n = w * ((x - n) \div w) + ((x - n) % w) /\ (x - n) \div w \in Int
      BY <3>1, Division
    <3> QED BY <3>2
  <2>2. PICK j \in Int : s - n = w * j
    <3>1. s - n \in Int
      BY <1>1, <1>3
    <3>2. s - n = w * ((s - n) \div w) + ((s - n) % w) /\ (s - n) \div w \in Int
      BY <3>1, Division
    <3>3. w * ((s - n) \div w) \in Int
      BY <3>2
    <3>4. s - n = w * ((s - n) \div w)
      BY <1>4, <3>2, <3>3
    <3> QED BY <3>2, <3>4
  <2>3. x - s = w * (k - j)
    <3>1. w * (k - j) = w * k - w * j /\ w * k \in Int /\ w * j \in Int
      OBVIOUS
    <3> QED BY <1>1, <1>3, <2>1, <2>2, <3>1
  <2>4. x - s \in -(w - 1) .. w - 1
    BY <1>1, <1>3
  <2>5. k - j > 0 => w * (k - j) >= w
    OBVIOUS
  <2>6. k - j < 0 => w * (k - j) <= -w
    OBVIOUS
  <2>7. k - j = 0
    BY <2>3, <2>4, <2>5, <2>6
  <2> QED BY <1>1, <1>3, <2>3, <2>7
<1>6. s = CHOOSE x \in -h .. h - 1 : (x - n) % w = 0
  <2> HIDE DEF s
  <2> QED BY <1>3, <1>4, <1>5
<1> QED BY <1>2, <1>6 DEF Truncated, Signed, SignedRange, h, b

(* The two halves of a V128, put together and taken apart.                 *)
LEMMA V128Arrives ==
  ASSUME NEW w \in Nat, w > 0, NEW high \in 0 .. w - 1, NEW low \in 0 .. w - 1
  PROVE  /\ low + high * w \in 0 .. (w * w) - 1
         /\ (low + high * w) \div w = high /\ (low + high * w) % w = low
<1>1. low + high * w = w * high + low
  OBVIOUS
<1>2. w * high \in Nat /\ w * high <= w * (w - 1) /\ w * (w - 1) = w * w - w
  OBVIOUS
<1>3. w * w \in Nat
  OBVIOUS
<1>4. low + high * w \in 0 .. (w * w) - 1
  BY <1>1, <1>2, <1>3
<1> QED BY <1>1, <1>4, DivisionUnique

---------------------------------------------------------------------------
(* Values *)

(* A type of Go is supported on every platform or on none, by one of the   *)
(* types of wasm.                                                          *)
LEMMA SupportedTypes ==
  ASSUME NEW v, NEW w \in {"i32", "i64"}
  PROVE  /\ Supported(v) <=> WasmTypeOf(v.type, w) # "unsupported"
         /\ Supported(v) <=> WasmTypeOf(v.type, w) \in WasmTypes
BY DEF Supported, WasmTypeOf, WasmTypes

(* No type is without values.                                              *)
LEMMA Widths ==
  /\ W32 \in Nat /\ W32 > 0 /\ W32 % 2 = 0
  /\ W64 \in Nat /\ W64 > 0 /\ W64 % 2 = 0
  /\ \A type \in WasmTypes : SizeOf(type) \in Nat /\ SizeOf(type) > 0
<1>1. /\ W32 \in Nat /\ W32 > 0 /\ W32 % 2 = 0
      /\ W64 \in Nat /\ W64 > 0 /\ W64 % 2 = 0
  BY WidthsAssumption
<1>2. W64 * W64 \in Nat /\ W64 * W64 > 0
  BY <1>1
<1> QED BY <1>1, <1>2 DEF SizeOf, WasmTypes

(* An integer of Go makes a wasm integer that comes back as the reference  *)
(* says.                                                                   *)
LEMMA IntegerRoundTrip ==
  ASSUME NEW v, NEW w \in {"i32", "i64"}, NEW n \in Int, v.n = <<n>>,
         NEW type \in {"i32", "i64"}, WasmTypeOf(v.type, w) = type
  PROVE  /\ ToWasm(v, w).type = type
         /\ ToWasm(v, w).bits \in 0 .. SizeOf(type) - 1
         /\ FromWasm(ToWasm(v, w)) = Arrived(v, w)
<1> DEFINE s == SizeOf(type)
           b == Truncated(n, s)
           x == CHOOSE y \in SignedRange(s) : (y - n) % s = 0
<1>1. s \in Nat /\ s > 0 /\ s % 2 = 0 /\ s = IF type = "i32" THEN W32 ELSE W64
  BY Widths DEF SizeOf
<1>2. b \in 0 .. s - 1 /\ Signed(b, s) = x
  <2> HIDE DEF s
  <2> QED BY <1>1, IntegerArrives
<1>3. v.n[1] = n
  OBVIOUS
<1>4. ToWasm(v, w) = [type |-> type, bits |-> b]
  BY <1>3 DEF ToWasm, Wasm
<1>5. Arrived(v, w) = Go(IF type = "i32" THEN "int32" ELSE "int64", x)
  BY <1>3 DEF Arrived
<1> HIDE DEF b, x, s
<1>6. FromWasm(ToWasm(v, w)) = Go(IF type = "i32" THEN "int32" ELSE "int64", Signed(b, s))
  BY <1>1, <1>4 DEF FromWasm
<1> QED BY <1>2, <1>4, <1>5, <1>6 DEF s

(* A float, or the pointer of a function, is passed on as it is.           *)
LEMMA PlainRoundTrip ==
  ASSUME NEW v, NEW w \in {"i32", "i64"}, NEW n,
         NEW type \in {"float32", "float64", "FuncRef"}, v = Go(type, n),
         n \in 0 .. (IF type = "float32" THEN W32 ELSE W64) - 1
  PROVE  /\ ToWasm(v, w).type = WasmTypeOf(type, w)
         /\ ToWasm(v, w).bits \in 0 .. SizeOf(WasmTypeOf(type, w)) - 1
         /\ FromWasm(ToWasm(v, w)) = Arrived(v, w)
<1>1. v.type = type /\ v.n[1] = n
  BY DEF Go
<1>2. CASE type = "float32"
  BY <1>1, <1>2 DEF ToWasm, Wasm, WasmTypeOf, SizeOf, FromWasm, Arrived
<1>3. CASE type = "float64"
  BY <1>1, <1>3 DEF ToWasm, Wasm, WasmTypeOf, SizeOf, FromWasm, Arrived
<1>4. CASE type = "FuncRef"
  BY <1>1, <1>4 DEF ToWasm, Wasm, WasmTypeOf, SizeOf, FromWasm, Arrived
<1> QED BY <1>2, <1>3, <1>4

(* A V128 comes back with its halves in place.                             *)
LEMMA V128RoundTrip ==
  ASSUME NEW v, NEW w \in {"i32", "i64"},
         NEW high \in 0 .. W64 - 1, NEW low \in 0 .. W64 - 1, v = GoV128(high, low)
  PROVE  /\ ToWasm(v, w).type = WasmTypeOf("V128", w)
         /\ ToWasm(v, w).bits \in 0 .. SizeOf(WasmTypeOf("V128", w)) - 1
         /\ FromWasm(ToWasm(v, w)) = Arrived(v, w)
<1> DEFINE b == low + high * W64
<1>1. v.type = "V128" /\ v.n[1] = high /\ v.n[2] = low
  BY DEF GoV128
<1>2. b \in 0 .. (W64 * W64) - 1 /\ b \div W64 = high /\ b % W64 = low
  BY Widths, V128Arrives
<1> HIDE DEF b
<1>3. ToWasm(v, w) = [type |-> "v128", bits |-> b]
  BY <1>1 DEF ToWasm, Wasm, WasmTypeOf, NewV128, b
<1>4. FromWasm(ToWasm(v, w)) = GoV128(high, low)
  BY <1>2, <1>3 DEF FromWasm, GetVal
<1>5. Arrived(v, w) = v
  BY <1>1 DEF Arrived, WasmTypeOf
<1> QED BY <1>2, <1>3, <1>4, <1>5 DEF SizeOf, WasmTypeOf

(* What toWasmEdgeValue makes of a value that is supported has the wasm    *)
(* type of its Go type, fits into it, and fromWasmEdgeValue makes of it    *)
(* what the reference says.                                                *)
THEOREM RoundTrip ==
  ASSUME NEW v, IsGoValue(v), Supported(v), NEW w \in {"i32", "i64"}
  PROVE  /\ ToWasm(v, w).type = WasmTypeOf(v.type, w)
         /\ ToWasm(v, w).bits \in 0 .. SizeOf(WasmTypeOf(v.type, w)) - 1
         /\ FromWasm(ToWasm(v, w)) = Arrived(v, w)
<1>1. ASSUME NEW n \in Int, NEW type \in {"int", "uint", "int32", "uint32", "int64", "uint64"},
             v = Go(type, n)
      PROVE  /\ ToWasm(v, w).type = WasmTypeOf(v.type, w)
             /\ ToWasm(v, w).bits \in 0 .. SizeOf(WasmTypeOf(v.type, w)) - 1
             /\ FromWasm(ToWasm(v, w)) = Arrived(v, w)
  <2>1. v.n = <<n>> /\ v.type = type
    BY <1>1 DEF Go
  <2>2. WasmTypeOf(v.type, w) \in {"i32", "i64"}
    BY <2>1 DEF WasmTypeOf
  <2> QED BY <2>1, <2>2, IntegerRoundTrip
<1>2. ASSUME NEW n, NEW type \in {"float32", "float64", "FuncRef"}, v = Go(type, n),
             n \in 0 .. (IF type = "float32" THEN W32 ELSE W64) - 1
      PROVE  /\ ToWasm(v, w).type = WasmTypeOf(v.type, w)
             /\ ToWasm(v, w).bits \in 0 .. SizeOf(WasmTypeOf(v.type, w)) - 1
             /\ FromWasm(ToWasm(v, w)) = Arrived(v, w)
  <2>1. v.type = type
    BY <1>2 DEF Go
  <2> QED BY <1>2, <2>1, PlainRoundTrip
<1>3. ASSUME NEW high \in 0 .. W64 - 1, NEW low \in 0 .. W64 - 1, v = GoV128(high, low)
      PROVE  /\ ToWasm(v, w).type = WasmTypeOf(v.type, w)
             /\ ToWasm(v, w).bits \in 0 .. SizeOf(WasmTypeOf(v.type, w)) - 1
             /\ FromWasm(ToWasm(v, w)) = Arrived(v, w)
  <2>1. v.type = "V128"
    BY <1>3 DEF GoV128
  <2> QED BY <1>3, <2>1, V128RoundTrip
<1>4. SignedRange(W32) \subseteq Int /\ SignedRange(W64) \subseteq Int
  BY Widths DEF SignedRange
<1>5. CASE \E n \in SignedRange(W32) : v = Go("int32", n)
  BY <1>1, <1>4, <1>5
<1>6. CASE \E n \in 0 .. W32 - 1 : v \in {Go("uint32", n), Go("float32", n)}
  BY <1>1, <1>2, <1>6
<1>7. CASE \E n \in SignedRange(W64) : v \in {Go("int", n), Go("int64", n)}
  BY <1>1, <1>4, <1>7
<1>8. CASE \E n \in 0 .. W64 - 1 :
             v \in {Go("uint", n), Go("uint64", n), Go("float64", n), Go("FuncRef", n)}
  BY <1>1, <1>2, <1>8
<1>9. CASE \E high, low \in 0 .. W64 - 1 : v = GoV128(high, low)
  BY <1>3, <1>9
<1> QED BY <1>5, <1>6, <1>7, <1>8, <1>9 DEF IsGoValue

---------------------------------------------------------------------------
(* The inductive invariant *)

(* A call has the fields it began with.                                    *)
Fields ==
  call = [pc |-> call.pc, type |-> call.type, args |-> call.args, cparams |-> call.cparams,
          goparams |-> call.goparams, goreturns |-> call.goreturns, creturns |-> call.creturns,
          fails |-> call.fails, results |-> call.results]

CallsTypeInv ==
  /\ word \in {"i32", "i64"}
  /\ Fields
  /\ call.pc \in {"idle", "invoke", "host", "returned", "done", "panic"}
  /\ call.type \in [params : Seq(WasmTypes), returns : Seq(WasmTypes)]
  /\ call.args \in Seq(Vals) /\ call.goreturns \in Seq(Vals)

(* The parameters have been converted for C, ...                           *)
InvokeInv ==
  call.pc = "invoke" =>
    /\ \A i \in DOMAIN call.args : Supported(call.args[i])
    /\ call.cparams = ToWasmSlide(call.args, word)

(* ... and back for the host function.                                     *)
HostInv ==
  call.pc = "host" =>
    /\ WasmSlide(call.type.params, call.cparams)
    /\ call.goparams = ArrivedSlide(call.args)
    /\ call.creturns = EmptySlots(call.type)

(* What the i-th result of the call is going to be. *)
ExpectedResult(i) ==
  IF i <= Len(call.goreturns) THEN Arrived(call.goreturns[i], word)
  ELSE FromWasm(Wasm(call.type.returns[i], 0))

(* Every slot has the result it stands for, or a zero.                     *)
ReturnedInv ==
  call.pc = "returned" =>
    /\ WasmSlide(call.type.returns, call.creturns)
    /\ DOMAIN call.creturns = 1 .. GetReturnsLength(call.type)
    /\ \A i \in DOMAIN call.creturns : FromWasm(call.creturns[i]) = ExpectedResult(i)

(* A global has the value that was stored.                                 *)
GlobalInv ==
  global # NoValue =>
    /\ global = [c |-> global.c, var |-> global.var]
    /\ FromWasm(global.c) = Arrived(stored, word)

CallInv == InvokeInv /\ HostInv /\ ReturnedInv /\ CallerSeesReturns /\ PanicsJustified

CallsIInv == CallsTypeInv /\ CallInv /\ GlobalInv

(* When there is no call, what concerns calls is trivially so.             *)
LEMMA NoCallKeeps ==
  ASSUME CallsIInv, call' = NoCall, UNCHANGED word, GlobalInv'
  PROVE  CallsIInv'
<1>1. CallsTypeInv'
  BY DEF CallsIInv, CallsTypeInv, Fields, NoCall, NewFunctionType
<1>2. call'.pc = "idle"
  BY DEF NoCall
<1>3. CallInv'
  BY <1>2 DEF CallInv, InvokeInv, HostInv, ReturnedInv, CallerSeesReturns, PanicsJustified, Panicked
<1> QED BY <1>1, <1>3 DEF CallsIInv

(* At first there is no call and no global.                                *)
LEMMA CallsInitKeeps == CallsInit => CallsIInv
<1> SUFFICES ASSUME CallsInit PROVE CallsIInv
  OBVIOUS
<1>1. CallsTypeInv
  BY DEF CallsInit, CallsTypeInv, Fields, NoCall, NewFunctionType
<1>2. call.pc = "idle"
  BY DEF CallsInit, NoCall
<1>3. CallInv
  BY <1>2 DEF CallInv, InvokeInv, HostInv, ReturnedInv, CallerSeesReturns, PanicsJustified, Panicked
<1>4. GlobalInv
  BY DEF CallsInit, GlobalInv
<1> QED BY <1>1, <1>3, <1>4 DEF CallsIInv

(* What is enumerated as a list of parameters is a sequence of values.     *)
LEMMA Sequences == \A n \in Nat : UpTo(n) \subseteq Seq(Vals)
BY DEF UpTo

(* Calls do not touch the global.                                          *)
LEMMA GlobalUnchanged == ASSUME GlobalInv, UNCHANGED <<word, global, stored>> PROVE GlobalInv'
BY DEF GlobalInv

(* The conversion of the parameters, or the panic over one of them.        *)
LEMMA InvokeKeeps ==
  ASSUME CallsIInv, NEW type \in FuncTypes, NEW args \in Seq(Vals), Invoke(type, args)
  PROVE  CallsIInv'
<1>1. /\ UNCHANGED <<word, global, stored>>
      /\ call' = IF \A i \in DOMAIN args : Supported(args[i])
                 THEN [[NoCall EXCEPT !.type = type, !.args = args]
                         EXCEPT !.pc = "invoke", !.cparams = ToWasmSlide(args, word)]
                 ELSE [[NoCall EXCEPT !.type = type, !.args = args] EXCEPT !.pc = "panic"]
  BY DEF Invoke
<1>2. /\ call'.type = type /\ call'.args = args /\ call'.goreturns = <<>>
      /\ Fields'
      /\ call'.pc \in {"invoke", "panic"}
  BY <1>1 DEF NoCall, Fields
<1>3. type \in [params : Seq(WasmTypes), returns : Seq(WasmTypes)]
  BY CallsAssumption
<1>4. CallsTypeInv'
  <2>1. <<>> \in Seq(Vals)
    OBVIOUS
  <2>2. word' \in {"i32", "i64"}
    BY <1>1 DEF CallsIInv, CallsTypeInv
  <2> QED BY <1>2, <1>3, <2>1, <2>2 DEF CallsTypeInv
<1>5. InvokeInv'
  BY <1>1 DEF InvokeInv, NoCall
<1>6. PanicsJustified'
  BY <1>1, <1>2 DEF PanicsJustified, Panicked, NoCall
<1>7. CallInv'
  BY <1>2, <1>5, <1>6 DEF CallInv, HostInv, ReturnedInv, CallerSeesReturns
<1> QED BY <1>1, <1>4, <1>7, GlobalUnchanged DEF CallsIInv

(* The types match, and so each parameter arrives as the reference says.   *)
LEMMA HostFuncInvokeKeeps ==
  ASSUME CallsIInv, HostFuncInvoke
  PROVE  CallsIInv'
<1>1. /\ call.pc = "invoke" /\ TypesMatch(call.cparams, call.type.params)
      /\ call' = [call EXCEPT !.pc = "host", !.goparams = FromWasmSlide(call.cparams),
                              !.creturns = EmptySlots(call.type)]
      /\ UNCHANGED <<word, global, stored>>
  BY DEF HostFuncInvoke
<1>2. /\ Fields /\ call.args \in Seq(Vals) /\ word \in {"i32", "i64"}
      /\ call.type \in [params : Seq(WasmTypes), returns : Seq(WasmTypes)]
      /\ \A i \in DOMAIN call.args : Supported(call.args[i])
      /\ call.cparams = ToWasmSlide(call.args, word)
  BY <1>1 DEF CallsIInv, CallsTypeInv, CallInv, InvokeInv
<1>3. /\ call'.pc = "host" /\ call'.type = call.type /\ call'.args = call.args
      /\ call'.cparams = call.cparams /\ call'.goreturns = call.goreturns
      /\ call'.goparams = FromWasmSlide(call.cparams) /\ call'.creturns = EmptySlots(call.type)
      /\ Fields'
  BY <1>1, <1>2 DEF Fields
<1>4. CallsTypeInv'
  BY <1>1, <1>3 DEF CallsIInv, CallsTypeInv
<1>5. \A i \in DOMAIN call.args :
        /\ call.cparams[i].type = WasmTypeOf(call.args[i].type, word)
        /\ call.cparams[i].bits \in 0 .. SizeOf(WasmTypeOf(call.args[i].type, word)) - 1
        /\ FromWasm(call.cparams[i]) = Arrived(call.args[i], word)
  <2> TAKE i \in DOMAIN call.args
  <2>1. call.args[i] \in Vals
    BY <1>2
  <2>2. IsGoValue(call.args[i]) /\ Supported(call.args[i])
    BY <1>2, <2>1, CallsAssumption
  <2>3. call.cparams[i] = ToWasm(call.args[i], word)
    BY <1>2 DEF ToWasmSlide
  <2> QED BY <1>2, <2>2, <2>3, RoundTrip
<1>6. DOMAIN call.cparams = DOMAIN call.args
  BY <1>2 DEF ToWasmSlide
<1>7. FromWasmSlide(call.cparams) = ArrivedSlide(call.args)
  BY <1>5, <1>6 DEF FromWasmSlide, ArrivedSlide
<1>8. WasmSlide(call.type.params, call.cparams)
  <2>1. /\ Len(call.cparams) = Len(call.type.params)
        /\ \A i \in DOMAIN call.cparams : call.cparams[i].type = call.type.params[i]
    BY <1>1 DEF TypesMatch
  <2>2. Len(call.type.params) \in Nat
    BY <1>2
  <2> QED BY <1>5, <1>6, <2>1, <2>2 DEF WasmSlide
<1>9. ArrivedSlide(call.args)' = ArrivedSlide(call.args)
  BY <1>1, <1>3 DEF ArrivedSlide
<1>10. EmptySlots(call.type)' = EmptySlots(call.type)
  BY <1>3
<1>11. HostInv'
  BY <1>3, <1>7, <1>8, <1>9, <1>10 DEF HostInv
<1>12. CallInv'
  BY <1>3, <1>11 DEF CallInv, InvokeInv, ReturnedInv, CallerSeesReturns, PanicsJustified, Panicked
<1>13. GlobalInv'
  BY <1>1, GlobalUnchanged DEF CallsIInv
<1> QED BY <1>4, <1>12, <1>13 DEF CallsIInv

(* Each slot has its result, or the zero that was there; a panic has a     *)
(* result of no wasm type to blame.                                        *)
LEMMA HostFuncReturnKeeps ==
  ASSUME CallsIInv, NEW rets \in Seq(Vals), NEW fails \in BOOLEAN, HostFuncReturn(rets, fails)
  PROVE  CallsIInv'
<1> DEFINE len == GetReturnsLength(call.type)
           returns == call.type.returns
           m == IF Len(rets) <= len THEN Len(rets) ELSE len
           written == SubSeq(rets, 1, m)
           filled == Filled(call.creturns, written)
<1>1. /\ call.pc = "host" /\ MayReturn(rets)
      /\ call' = [NoCall EXCEPT !.type = [call.type EXCEPT !.params = <<>>],
                                !.goreturns = rets, !.fails = fails,
                                !.pc = IF CanWrite(written, len) THEN "returned" ELSE "panic",
                                !.creturns = IF CanWrite(written, len) THEN filled
                                             ELSE call.creturns]
      /\ UNCHANGED <<word, global, stored>>
  BY DEF HostFuncReturn, Returned
<1>2. /\ word \in {"i32", "i64"} /\ returns \in Seq(WasmTypes)
      /\ call.type \in [params : Seq(WasmTypes), returns : Seq(WasmTypes)]
      /\ call.creturns = EmptySlots(call.type)
  BY <1>1 DEF CallsIInv, CallsTypeInv, CallInv, HostInv
<1>3. /\ len \in Nat /\ len = Len(returns) /\ Len(rets) \in Nat
      /\ DOMAIN returns = 1 .. len
      /\ \A i \in 1 .. len : returns[i] \in WasmTypes
  BY <1>2 DEF GetReturnsLength
<1>4. m \in Nat /\ m <= len /\ m <= Len(rets)
  BY <1>3
<1> HIDE DEF len, m
<1>5. /\ DOMAIN written = 1 .. m /\ Len(written) = m
      /\ \A i \in 1 .. m : written[i] = rets[i] /\ rets[i] \in Vals /\ i \in DOMAIN rets
  BY <1>4
<1> HIDE DEF written
<1>6. /\ call'.type = [params |-> <<>>, returns |-> returns]
      /\ call'.goreturns = rets /\ call'.args = <<>>
      /\ call'.pc = IF CanWrite(written, len) THEN "returned" ELSE "panic"
      /\ CanWrite(written, len) => call'.creturns = filled
      /\ Fields'
  <2>1. [call.type EXCEPT !.params = <<>>] = [params |-> <<>>, returns |-> returns]
    BY <1>2
  <2> HIDE DEF filled
  <2> QED BY <1>1, <2>1 DEF NoCall, Fields
<1>7. CallsTypeInv'
  <2>1. <<>> \in Seq(Vals) /\ <<>> \in Seq(WasmTypes)
    OBVIOUS
  <2>2. word' \in {"i32", "i64"}
    BY <1>1, <1>2
  <2>3. call'.type \in [params : Seq(WasmTypes), returns : Seq(WasmTypes)]
    BY <1>2, <1>6, <2>1
  <2> QED BY <1>6, <2>1, <2>2, <2>3 DEF CallsTypeInv
<1>8. GlobalInv'
  BY <1>1, GlobalUnchanged DEF CallsIInv
<1>9. CASE CanWrite(written, len)
  <2>1. \A i \in 1 .. m : Supported(rets[i]) /\ IsGoValue(rets[i])
    BY <1>5, <1>9, CallsAssumption DEF CanWrite
  <2>2. \A i \in 1 .. m : WasmTypeOf(rets[i].type, word) = returns[i]
    <3> TAKE i \in 1 .. m
    <3>1. WasmTypeOf(rets[i].type, word) # "unsupported"
      BY <1>2, <2>1, SupportedTypes
    <3>2. i <= len
      BY <1>3, <1>4
    <3> QED BY <1>1, <1>5, <3>1, <3>2 DEF MayReturn, len
  <2>3. /\ filled = [i \in 1 .. len |-> IF i <= m THEN ToWasm(rets[i], word)
                                        ELSE Wasm(returns[i], 0)]
        /\ DOMAIN filled = 1 .. len
    <3>1. call.creturns = [i \in 1 .. len |-> Wasm(returns[i], 0)]
      BY <1>2 DEF EmptySlots, len
    <3>2. \A i \in 1 .. len : i <= m => i \in 1 .. m
      BY <1>3, <1>4
    <3> QED BY <1>5, <3>1, <3>2 DEF Filled
  <2> HIDE DEF filled
  <2>4. \A i \in 1 .. len :
          /\ filled[i].type = returns[i]
          /\ filled[i].bits \in 0 .. SizeOf(returns[i]) - 1
          /\ FromWasm(filled[i]) = IF i <= m THEN Arrived(rets[i], word)
                                   ELSE FromWasm(Wasm(returns[i], 0))
    <3> TAKE i \in 1 .. len
    <3>1. CASE i <= m
      <4>1. i \in 1 .. m
        BY <1>3, <1>4, <3>1
      <4>2. /\ ToWasm(rets[i], word).type = returns[i]
            /\ ToWasm(rets[i], word).bits \in 0 .. SizeOf(returns[i]) - 1
            /\ FromWasm(ToWasm(rets[i], word)) = Arrived(rets[i], word)
        BY <1>2, <2>1, <2>2, <4>1, RoundTrip
      <4> QED BY <2>3, <3>1, <4>2
    <3>2. CASE ~(i <= m)
      <4>1. filled[i] = Wasm(returns[i], 0)
        BY <2>3, <3>2
      <4>2. SizeOf(returns[i]) \in Nat /\ SizeOf(returns[i]) > 0
        BY <1>3, Widths
      <4>3. 0 \in 0 .. SizeOf(returns[i]) - 1
        BY <4>2
      <4> QED BY <3>2, <4>1, <4>3 DEF Wasm
    <3> QED BY <3>1, <3>2
  <2>5. call'.pc = "returned" /\ call'.creturns = filled
    BY <1>6, <1>9
  <2>6. WasmSlide(returns, filled)
    <3>1. Len(filled) = len
      BY <1>3, <2>3
    <3>2. Len(filled) <= Len(returns)
      BY <1>3, <3>1
    <3>3. \A i \in DOMAIN filled : /\ filled[i].type = returns[i]
                                   /\ filled[i].bits \in 0 .. SizeOf(returns[i]) - 1
      BY <2>3, <2>4
    <3> HIDE DEF returns
    <3> QED BY <3>2, <3>3 DEF WasmSlide
  <2>7. \A i \in 1 .. len : ExpectedResult(i)' = IF i <= m THEN Arrived(rets[i], word)
                                                ELSE FromWasm(Wasm(returns[i], 0))
    <3>1. \A i \in 1 .. len : i <= Len(rets) <=> i <= m
      BY <1>3 DEF m
    <3> QED BY <1>1, <1>6, <3>1 DEF ExpectedResult
  <2>8. GetReturnsLength(call.type)' = len
    BY <1>3, <1>6 DEF GetReturnsLength
  <2>9. ReturnedInv'
    BY <1>6, <2>3, <2>4, <2>5, <2>6, <2>7, <2>8 DEF ReturnedInv
  <2>10. InvokeInv' /\ HostInv' /\ CallerSeesReturns' /\ PanicsJustified'
    BY <2>5 DEF InvokeInv, HostInv, CallerSeesReturns, PanicsJustified, Panicked
  <2>11. CallInv'
    BY <2>9, <2>10 DEF CallInv
  <2> QED BY <1>7, <1>8, <2>11 DEF CallsIInv
<1>10. CASE ~CanWrite(written, len)
  <2>1. PICK i \in 1 .. m : ~Supported(written[i])
    BY <1>4, <1>5, <1>10 DEF CanWrite
  <2>2. i \in DOMAIN rets /\ ~Supported(rets[i])
    BY <1>5, <2>1
  <2>3. PanicsJustified'
    BY <1>6, <2>2 DEF PanicsJustified
  <2>4. call'.pc = "panic"
    BY <1>6, <1>10
  <2>5. InvokeInv' /\ HostInv' /\ ReturnedInv' /\ CallerSeesReturns'
    BY <2>4 DEF InvokeInv, HostInv, ReturnedInv, CallerSeesReturns
  <2>6. CallInv'
    BY <2>3, <2>5 DEF CallInv
  <2> QED BY <1>7, <1>8, <2>6 DEF CallsIInv
<1> QED BY <1>9, <1>10

(* The slots, converted once more, are the results of the caller.          *)
LEMMA InvokeReturnKeeps == ASSUME CallsIInv, InvokeReturn PROVE CallsIInv'
<1>1. /\ call.pc = "returned"
      /\ call' = [call EXCEPT !.pc = "done", !.results = Results(call.creturns, call.fails)]
      /\ UNCHANGED <<word, global, stored>>
  BY DEF InvokeReturn
<1>2. /\ Fields /\ DOMAIN call.creturns = 1 .. GetReturnsLength(call.type)
      /\ \A i \in DOMAIN call.creturns : FromWasm(call.creturns[i]) = ExpectedResult(i)
  BY <1>1 DEF CallsIInv, CallsTypeInv, CallInv, ReturnedInv
<1>3. /\ call'.pc = "done" /\ call'.type = call.type /\ call'.args = call.args
      /\ call'.goreturns = call.goreturns /\ call'.fails = call.fails
      /\ call'.results = Results(call.creturns, call.fails)
      /\ Fields'
  BY <1>1, <1>2 DEF Fields
<1>4. CallsTypeInv'
  BY <1>1, <1>3 DEF CallsIInv, CallsTypeInv
<1>5. FromWasmSlide(call.creturns) = [i \in 1 .. GetReturnsLength(call.type) |-> ExpectedResult(i)]
  BY <1>2 DEF FromWasmSlide
<1>6. CallerSeesReturns'
  BY <1>1, <1>3, <1>5 DEF CallerSeesReturns, ExpectedResult, Results
<1>7. CallInv'
  BY <1>3, <1>6 DEF CallInv, InvokeInv, HostInv, ReturnedInv, PanicsJustified, Panicked
<1>8. GlobalInv'
  BY <1>1, GlobalUnchanged DEF CallsIInv
<1> QED BY <1>4, <1>7, <1>8 DEF CallsIInv

(* A call that C refuses, or that is over, leaves nothing.                 *)
LEMMA ForgottenKeeps == ASSUME CallsIInv, InvokeRefused \/ Forget PROVE CallsIInv'
<1>1. call' = NoCall /\ UNCHANGED <<word, global, stored>>
  BY DEF InvokeRefused, Forget
<1>2. GlobalInv'
  BY <1>1, GlobalUnchanged DEF CallsIInv
<1> QED BY <1>1, <1>2, NoCallKeeps

(* A value that cannot be stored ends the program.                         *)
LEMMA PanicKeeps ==
  ASSUME CallsIInv, NEW v \in Vals, ~Supported(v), PanicIn(v), UNCHANGED <<word, global, stored>>
  PROVE  CallsIInv'
<1>1. /\ call'.pc = "panic" /\ call'.args = <<v>> /\ call'.goreturns = <<>>
      /\ call'.type = NewFunctionType(<<>>, <<>>) /\ Fields'
  BY DEF PanicIn, NoCall, Fields
<1>2. CallsTypeInv'
  <2>1. <<v>> \in Seq(Vals) /\ <<>> \in Seq(Vals) /\ <<>> \in Seq(WasmTypes)
    OBVIOUS
  <2>2. word' \in {"i32", "i64"}
    BY DEF CallsIInv, CallsTypeInv
  <2> QED BY <1>1, <2>1, <2>2 DEF CallsTypeInv, NewFunctionType
<1>3. PanicsJustified'
  <2>1. 1 \in DOMAIN <<v>> /\ <<v>>[1] = v
    OBVIOUS
  <2> QED BY <1>1, <2>1 DEF PanicsJustified
<1>4. CallInv'
  BY <1>1, <1>3 DEF CallInv, InvokeInv, HostInv, ReturnedInv, CallerSeesReturns
<1>5. GlobalInv'
  BY GlobalUnchanged DEF CallsIInv
<1> QED BY <1>2, <1>4, <1>5 DEF CallsIInv

(* What does not touch the call leaves it in step.                         *)
LEMMA CallUnchanged ==
  ASSUME CallsIInv, UNCHANGED <<word, call>>
  PROVE  CallsTypeInv' /\ CallInv'
BY DEF CallsIInv, CallsTypeInv, Fields, CallInv, InvokeInv, HostInv, ReturnedInv, ExpectedResult,
       CallerSeesReturns, PanicsJustified, Panicked, ArrivedSlide

(* A global begins with the value it is given ...                          *)
LEMMA NewGlobalKeeps ==
  ASSUME CallsIInv, NEW gtype \in GlobalTypes \cup {NoValue}, NEW v \in Vals, NewGlobal(gtype, v)
  PROVE  CallsIInv'
<1>1. \/ UNCHANGED <<word, call, global, stored>>
      \/ ~Supported(v) /\ PanicIn(v) /\ UNCHANGED <<word, global, stored>>
      \/ /\ Supported(v) /\ gtype \in GlobalTypes
         /\ global' = [c |-> ToWasm(v, word), var |-> gtype.var] /\ stored' = v
         /\ UNCHANGED <<word, call>>
  BY DEF NewGlobal
<1>2. CASE UNCHANGED <<word, call, global, stored>>
  BY <1>2, CallUnchanged, GlobalUnchanged DEF CallsIInv
<1>3. CASE ~Supported(v) /\ PanicIn(v) /\ UNCHANGED <<word, global, stored>>
  BY <1>3, PanicKeeps
<1>4. CASE /\ Supported(v) /\ gtype \in GlobalTypes
           /\ global' = [c |-> ToWasm(v, word), var |-> gtype.var] /\ stored' = v
           /\ UNCHANGED <<word, call>>
  <2>1. gtype.var \in BOOLEAN
    BY <1>4 DEF GlobalTypes
  <2>2. FromWasm(ToWasm(v, word)) = Arrived(v, word)
    BY <1>4, RoundTrip, CallsAssumption DEF CallsIInv, CallsTypeInv
  <2>3. GlobalInv'
    BY <1>4, <2>1, <2>2 DEF GlobalInv
  <2> QED BY <1>4, <2>3, CallUnchanged DEF CallsIInv
<1> QED BY <1>1, <1>2, <1>3, <1>4

(* ... and has the one it is set to, if it is accepted.                    *)
LEMMA SetValueKeeps == ASSUME CallsIInv, NEW v \in Vals, SetValue(v) PROVE CallsIInv'
<1>1. CASE Supported(v)
  <2> DEFINE c == ToWasm(v, word)
  <2>1. UNCHANGED <<word, call>> /\ global # NoValue
    BY <1>1 DEF SetValue
  <2>2. \/ UNCHANGED <<global, stored>>
        \/ global' = [global EXCEPT !.c = c] /\ stored' = v
    BY <1>1 DEF SetValue
  <2>3. FromWasm(c) = Arrived(v, word)
    BY <1>1, RoundTrip, CallsAssumption DEF CallsIInv, CallsTypeInv
  <2>4. global = [c |-> global.c, var |-> global.var]
    BY <2>1 DEF CallsIInv, GlobalInv
  <2> HIDE DEF c
  <2>5. CASE global' = [global EXCEPT !.c = c] /\ stored' = v
    <3>1. global' = [c |-> c, var |-> global.var]
      BY <2>4, <2>5
    <3>2. GlobalInv'
      BY <2>1, <2>3, <2>5, <3>1 DEF GlobalInv
    <3> QED BY <2>1, <3>2, CallUnchanged DEF CallsIInv
  <2>6. CASE UNCHANGED <<global, stored>>
    BY <2>1, <2>6, CallUnchanged, GlobalUnchanged DEF CallsIInv
  <2> QED BY <2>2, <2>5, <2>6
<1>2. CASE ~Supported(v)
  BY <1>2, PanicKeeps DEF SetValue
<1> QED BY <1>1, <1>2

(* A stutter, and every step.                                              *)
LEMMA CallsStutterKeeps == ASSUME CallsIInv, UNCHANGED callsVars PROVE CallsIInv'
BY CallUnchanged, GlobalUnchanged DEF CallsIInv, callsVars

LEMMA CallsNextKeeps == ASSUME CallsIInv, [CallsNext]_callsVars PROVE CallsIInv'
<1>1. ASSUME NEW type \in FuncTypes, NEW args \in UpTo(Len(type.params)), Invoke(type, args)
      PROVE  CallsIInv'
  <2>1. Len(type.params) \in Nat
    BY CallsAssumption
  <2> QED BY <1>1, <2>1, Sequences, InvokeKeeps
<1>2. CASE InvokeRefused \/ Forget
  BY <1>2, ForgottenKeeps
<1>3. CASE HostFuncInvoke
  BY <1>3, HostFuncInvokeKeeps
<1>4. ASSUME NEW rets \in UpTo(MaxReturns), NEW fails \in BOOLEAN, HostFuncReturn(rets, fails)
      PROVE  CallsIInv'
  BY <1>4, Sequences, HostFuncReturnKeeps, CallsAssumption
<1>5. CASE InvokeReturn
  BY <1>5, InvokeReturnKeeps
<1>6. ASSUME NEW v \in Vals,
             SetValue(v) \/ \E gtype \in GlobalTypes \cup {NoValue} : NewGlobal(gtype, v)
      PROVE  CallsIInv'
  BY <1>6, NewGlobalKeeps, SetValueKeeps
<1>7. CASE UNCHANGED callsVars
  BY <1>7, CallsStutterKeeps
<1> QED BY <1>1, <1>2, <1>3, <1>4, <1>5, <1>6, <1>7 DEF CallsNext, Crashed

(* In every state of a call, what has been converted so far is what the    *)
(* reference says it is (value.go:224-330, hostfunc.go:60-98).             *)
THEOREM CallsInvariance == CallsSpec => []CallsIInv
<1>1. CallsIInv /\ [CallsNext]_callsVars => CallsIInv'
  BY CallsNextKeeps
<1> QED BY <1>1, CallsInitKeeps, PTL DEF CallsSpec

(* A host function is passed what Invoke was given, in its order, as the   *)
(* reference converts it (value.go:252-330, hostfunc.go:60-79).            *)
THEOREM HostIsPassedArguments == CallsSpec => []HostSeesArguments
<1>1. CallsIInv => HostSeesArguments
  BY DEF CallsIInv, CallsTypeInv, CallInv, HostInv, ReturnedInv, CallsTypeOK, HostSeesArguments
<1> QED BY <1>1, CallsInvariance, PTL

(* The caller gets the results of the host function, zeroes for those that *)
(* are missing, and nothing after a failure (hostfunc.go:84-97,            *)
(* executor.go:85-92).                                                     *)
THEOREM CallerIsReturnedResults == CallsSpec => []CallerSeesReturns
<1>1. CallsIInv => CallerSeesReturns
  BY DEF CallsIInv, CallInv
<1> QED BY <1>1, CallsInvariance, PTL

(* A call panics only over a value that no wasm type stands for, whatever  *)
(* the number of values a host function returns (hostfunc.go:90-94).       *)
THEOREM PanicsAreJustified == CallsSpec => []PanicsJustified
<1>1. CallsIInv => PanicsJustified
  BY DEF CallsIInv, CallInv
<1> QED BY <1>1, CallsInvariance, PTL

(* GetValue returns what NewGlobal or SetValue stored last, as the         *)
(* reference converts it (instance.go:456-486).                            *)
THEOREM GlobalIsAsStored == CallsSpec => []GlobalHoldsLast
<1>1. CallsIInv => GlobalHoldsLast
  BY DEF CallsIInv, GlobalInv, GlobalHoldsLast, GetValue
<1> QED BY <1>1, CallsInvariance, PTL
---------------------------------------------------------------------------
(* Instances: the inductive invariant *)

(* The size of an instance: between its limits, no more than C allows, and *)
(* as many cells as it says.                                               *)
Sizes(c, l) == /\ l.min <= c.size /\ (l.hasmax => c.size <= l.max)
               /\ c.size \in Nat /\ c.size <= MaxUnits(c.kind)
               /\ Len(c.cells) = c.size * UnitOf(c.kind)

(* The C type has the limits of the Go Limit, and the instance is of that  *)
(* type.                                                                   *)
TypeInv ==
  /\ limit # None => limit \in Limits /\ (limit.hasmax => limit.min <= limit.max)
  /\ ctype # None =>
       /\ limit # None
       /\ ctype \in [kind : {"table", "memory"}, limit : Limits]
       /\ ctype.limit = limit
  /\ inst # None =>
       /\ ctype # None
       /\ inst \in [kind : {"table", "memory"}, size : Nat, cells : Seq(Cells)]
       /\ inst.kind = ctype.kind
       /\ Sizes(inst, limit)
  /\ wrote \in [Uints -> Cells]

(* Cells hold what was written last, and what will become a cell with the  *)
(* next growth has not been written.                                       *)
ContentInv ==
  /\ inst # None => \A k \in DOMAIN inst.cells : inst.cells[k] = wrote[k - 1]
  /\ inst # None => \A off \in Uints : off >= Len(inst.cells) => wrote[off] = Zero
  /\ inst = None => wrote = [off \in Uints |-> Zero]
  /\ got # None => /\ Has("table") /\ got.off \in Uints
                   /\ got.cell = wrote[got.off]

(* A slice is one of a memory, and lies within it until it is old.         *)
SliceInv ==
  slice # None =>
    /\ Has("memory")
    /\ slice \in [off : Nat, len : Nat, old : BOOLEAN, moved : BOOLEAN]
    /\ ~slice.old => slice.off + slice.len <= Len(inst.cells) /\ ~slice.moved

IInv == TypeInv /\ ContentInv /\ SliceInv

---------------------------------------------------------------------------

(* A size that C allows is a number of cells that a uint32_t can count.    *)
LEMMA Units ==
  ASSUME NEW kind \in {"table", "memory"}, NEW n \in Nat, n <= MaxUnits(kind)
  PROVE  /\ MaxUnits(kind) \in Nat
         /\ n * UnitOf(kind) \in Nat /\ n * UnitOf(kind) <= Uint32s
<1>1. Uint32s \in Nat /\ PageSize \in Nat /\ PageSize > 0 /\ Uint32s > 0
  BY ConstantsAssumption
<1>2. CASE kind = "table"
  BY <1>1, <1>2 DEF MaxUnits, UnitOf
<1>3. CASE kind = "memory"
  <2>1. PICK w \in Nat, p \in Nat : w = Uint32s /\ p = PageSize /\ p > 0
    BY <1>1
  <2>2. w = p * (w \div p) + (w % p) /\ w \div p \in Nat /\ w % p \in Nat
    BY <2>1
  <2>3. n <= w \div p
    BY <1>3, <2>1 DEF MaxUnits
  <2>4. n * p \in Nat /\ p * n <= p * (w \div p) /\ p * n = n * p
    BY <2>1, <2>2, <2>3
  <2>5. p * (w \div p) <= w
    BY <2>1, <2>2
  <2>6. n * p <= w
    BY <2>1, <2>2, <2>4, <2>5
  <2> QED BY <1>3, <2>1, <2>2, <2>4, <2>6 DEF MaxUnits, UnitOf
<1> QED BY <1>2, <1>3

(* Nothing is lost when a number that fits is passed to C.                 *)
LEMMA Fits ==
  ASSUME ~Wide, NEW n \in Uints
  PROVE  n \in 0 .. Uint32s - 1 /\ n \in Nat /\ Uint32(n) = n
<1>1. Uint32s \in Nat /\ Uint32s > 0 /\ n \in 0 .. Uint32s - 1
  BY ConstantsAssumption DEF Uints
<1> QED BY <1>1 DEF Uint32

(* New cells.                                                              *)
LEMMA ZeroesType ==
  ASSUME NEW n \in Nat
  PROVE  /\ Zeroes(n) \in Seq(Cells) /\ Len(Zeroes(n)) = n
         /\ \A i \in 1 .. n : Zeroes(n)[i] = Zero
BY ConstantsAssumption DEF Zeroes

(* The actions, one after the other.                                       *)
LEMMA InitKeeps == Init => IInv
BY ConstantsAssumption DEF Init, IInv, TypeInv, ContentInv, SliceInv

(* A limit is made while nothing depends on one.                           *)
LEMMA SetLimitKeeps ==
  ASSUME IInv, NEW l \in Limits, l.hasmax => l.min <= l.max, SetLimit(l)
  PROVE  IInv'
<1>1. ctype = None /\ inst = None /\ slice = None /\ got = None
  BY DEF IInv, TypeInv, ContentInv, SliceInv, SetLimit, Has
<1> QED BY <1>1 DEF IInv, TypeInv, ContentInv, SliceInv, SetLimit

(* No limit is changed on its way to 32 bits.                              *)
LEMMA NewTypeKeeps ==
  ASSUME ~Wide, IInv, NEW kind \in {"table", "memory"}, NewType(kind)
  PROVE  IInv'
<1>1. inst = None /\ slice = None /\ got = None
  BY DEF IInv, TypeInv, ContentInv, SliceInv, NewType, Has
<1>2. limit \in Limits
  BY DEF IInv, TypeInv, NewType
<1>3. CLimit(limit) = limit
  <2>1. limit.min \in Uints /\ limit.max \in Uints
    BY <1>2 DEF Limits
  <2>2. Uint32(limit.min) = limit.min /\ Uint32(limit.max) = limit.max
    BY <2>1, Fits
  <2> QED BY <1>2, <2>2 DEF CLimit, Limit, Limits
<1> QED BY <1>1, <1>2, <1>3 DEF IInv, TypeInv, ContentInv, SliceInv, NewType

(* A new instance has the least size and zeroes, and nothing has been      *)
(* written.                                                                *)
LEMMA NewKeeps ==
  ASSUME ~Wide, IInv, NEW kind \in {"table", "memory"}, New(kind)
  PROVE  IInv'
<1> DEFINE min == limit.min
           n == min * UnitOf(kind)
<1>1. /\ ctype # None /\ limit # None /\ ctype.kind = kind /\ ctype.limit = limit
      /\ min <= MaxUnits(kind) /\ inst = None /\ limit \in Limits
      /\ inst' = [kind |-> kind, size |-> min, cells |-> Zeroes(n)]
      /\ UNCHANGED <<limit, ctype, slice, got, wrote>>
  BY DEF IInv, TypeInv, New
<1>2. slice = None /\ got = None /\ wrote = [off \in Uints |-> Zero]
  BY <1>1 DEF IInv, ContentInv, SliceInv, Has
<1>3. min \in Nat /\ n \in Nat /\ n <= Uint32s
  <2>1. min \in Nat
    BY <1>1, Fits DEF Limits
  <2> HIDE DEF min
  <2> QED BY <1>1, <2>1, Units
<1> HIDE DEF n
<1>4. /\ Zeroes(n) \in Seq(Cells) /\ Len(Zeroes(n)) = n /\ DOMAIN Zeroes(n) = 1 .. n
      /\ \A i \in 1 .. n : Zeroes(n)[i] = Zero
  BY <1>3, ZeroesType
<1>5. Sizes(inst', limit)
  BY <1>1, <1>3, <1>4 DEF Sizes, n, IInv, TypeInv
<1>6. TypeInv'
  BY <1>1, <1>3, <1>4, <1>5 DEF IInv, TypeInv
<1>7. \A k \in 1 .. n : k - 1 \in Uints
  BY <1>3, ConstantsAssumption DEF Uints
<1>8. ContentInv'
  BY <1>1, <1>2, <1>4, <1>7 DEF ContentInv
<1> QED BY <1>1, <1>2, <1>6, <1>8 DEF IInv, SliceInv

(* After Release all is as in the beginning.                               *)
LEMMA ReleaseKeeps == ASSUME Release PROVE IInv'
BY ConstantsAssumption DEF Release, IInv, TypeInv, ContentInv, SliceInv

(* An instance has less cells than offsets can tell apart.                 *)
LEMMA CellsFit ==
  ASSUME ~Wide, IInv, inst # None
  PROVE  /\ inst.cells \in Seq(Cells) /\ Len(inst.cells) \in Nat /\ Len(inst.cells) <= Uint32s
         /\ DOMAIN inst.cells = 1 .. Len(inst.cells)
         /\ \A k \in DOMAIN inst.cells : k - 1 \in Uints
<1>1. /\ inst.cells \in Seq(Cells) /\ inst.kind \in {"table", "memory"} /\ inst.size \in Nat
      /\ Len(inst.cells) = inst.size * UnitOf(inst.kind) /\ inst.size <= MaxUnits(inst.kind)
  BY DEF IInv, TypeInv, Sizes
<1>2. Len(inst.cells) \in Nat /\ Len(inst.cells) <= Uint32s
  BY <1>1, Units
<1>3. DOMAIN inst.cells = 1 .. Len(inst.cells)
  BY <1>1
<1> QED BY <1>1, <1>2, <1>3, ConstantsAssumption DEF Uints

(* Growth adds zeroes where nothing has been written, stays within the     *)
(* maximum, and makes the slice old.                                       *)
LEMMA GrowthKeeps ==
  ASSUME ~Wide, IInv, inst # None, NEW n \in Nat, Growth(n)
  PROVE  IInv'
<1> DEFINE u == UnitOf(inst.kind)
           old == inst.cells
           size == inst.size
           z == Zeroes(n * u)
<1>1. /\ ctype # None /\ ctype.limit = limit /\ inst.kind \in {"table", "memory"}
      /\ size \in Nat /\ limit.min <= size /\ Len(old) = size * u
      /\ inst \in [kind : {"table", "memory"}, size : Nat, cells : Seq(Cells)]
      /\ limit \in Limits
  BY DEF IInv, TypeInv, Sizes
<1>2. /\ size + n <= MaxUnits(inst.kind) /\ (limit.hasmax => size + n <= limit.max)
      /\ inst' = [inst EXCEPT !.size = @ + n, !.cells = @ \o z]
      /\ got' = None /\ UNCHANGED <<limit, ctype, wrote>>
  BY <1>1 DEF Growth, MayGrow, Grown
<1>3. u \in Nat /\ n * u \in Nat /\ (size + n) * u \in Nat /\ (size + n) * u <= Uint32s
  <2>1. u \in Nat
    BY ConstantsAssumption DEF UnitOf
  <2>2. size + n \in Nat
    BY <1>1
  <2> HIDE DEF u, size
  <2>3. (size + n) * u \in Nat /\ (size + n) * u <= Uint32s
    BY <1>1, <1>2, <2>2, Units DEF u
  <2> QED BY <2>1, <2>3
<1>4. (size + n) * u = size * u + n * u
  <2> HIDE DEF u, size
  <2> QED BY <1>1, <1>3
<1>5. /\ z \in Seq(Cells) /\ Len(z) = n * u /\ \A i \in 1 .. n * u : z[i] = Zero
  BY <1>3, ZeroesType
<1>6. /\ old \in Seq(Cells) /\ Len(old) \in Nat /\ DOMAIN old = 1 .. Len(old)
      /\ \A k \in DOMAIN old : k - 1 \in Uints
  BY CellsFit
<1> HIDE DEF z
<1>7. /\ old \o z \in Seq(Cells) /\ Len(old \o z) = Len(old) + n * u
      /\ DOMAIN (old \o z) = 1 .. Len(old) + n * u
      /\ \A k \in 1 .. Len(old) : (old \o z)[k] = old[k]
      /\ \A k \in Len(old) + 1 .. Len(old) + n * u : (old \o z)[k] = Zero
  <2>1. PICK m \in Nat : m = n * u
    BY <1>3
  <2> HIDE DEF old, u
  <2> QED BY <1>5, <1>6, <2>1
<1>8. inst'.kind = inst.kind /\ inst'.size = size + n /\ inst'.cells = old \o z
  BY <1>1, <1>2
<1>9. Len(inst'.cells) = (size + n) * u /\ Len(inst'.cells) <= Uint32s
  BY <1>1, <1>3, <1>4, <1>7, <1>8
<1>10. TypeInv'
  <2>1. Sizes(inst', limit)
    <3>1. size + n \in Nat /\ limit.min <= size + n
      <4>1. limit.min \in Nat
        BY <1>1, Fits DEF Limits
      <4> QED BY <1>1, <4>1
    <3> QED BY <1>2, <1>8, <1>9, <3>1 DEF Sizes
  <2>2. inst' \in [kind : {"table", "memory"}, size : Nat, cells : Seq(Cells)]
    <3>1. size + n \in Nat
      BY <1>1
    <3> QED BY <1>1, <1>2, <1>7, <3>1
  <2> QED BY <1>1, <1>2, <1>8, <2>1, <2>2 DEF IInv, TypeInv
<1>11. inst' # None
  <2>1. inst' \in [kind : {"table", "memory"}, size : Nat, cells : Seq(Cells)]
    <3>1. size + n \in Nat
      BY <1>1
    <3> QED BY <1>1, <1>2, <1>7, <3>1
  <2> QED BY <2>1, ConstantsAssumption
<1>12. ContentInv'
  <2> DEFINE L == Len(old)
             M == Len(old) + n * u
  <2>1. L \in Nat /\ M \in Nat /\ L <= M /\ M <= Uint32s
    BY <1>3, <1>6, <1>7, <1>8, <1>9
  <2>2. /\ \A k \in 1 .. L : old[k] = wrote[k - 1]
        /\ \A off \in Uints : off >= L => wrote[off] = Zero
    BY <1>6 DEF IInv, ContentInv
  <2>3. \A k \in 1 .. M : k - 1 \in Uints
    BY <2>1, ConstantsAssumption DEF Uints
  <2>4. /\ inst'.cells = old \o z /\ Len(inst'.cells) = M /\ DOMAIN inst'.cells = 1 .. M
        /\ \A k \in 1 .. L : inst'.cells[k] = old[k]
        /\ \A k \in L + 1 .. M : inst'.cells[k] = Zero
    BY <1>7, <1>8
  <2> HIDE DEF old, L, M
  <2>5. \A k \in 1 .. M : inst'.cells[k] = wrote[k - 1]
    BY <2>1, <2>2, <2>3, <2>4
  <2>6. \A off \in Uints : off >= M => wrote[off] = Zero
    <3>1. Uints \subseteq Nat
      BY Fits
    <3>2. \A off \in Nat : off >= M => off >= L
      BY <2>1
    <3> QED BY <2>2, <3>1, <3>2
  <2> QED BY <1>2, <1>11, <2>4, <2>5, <2>6 DEF ContentInv
<1>13. SliceInv'
  <2>1. PICK moved \in BOOLEAN :
          slice' = IF slice = None THEN None
                   ELSE [slice EXCEPT !.old = TRUE, !.moved = @ \/ moved]
    BY DEF Growth
  <2>2. CASE slice = None
    BY <2>1, <2>2 DEF SliceInv
  <2>3. CASE slice # None
    <3>1. /\ slice \in [off : Nat, len : Nat, old : BOOLEAN, moved : BOOLEAN]
          /\ Has("memory")
      BY <2>3 DEF IInv, SliceInv
    <3>2. slice' \in [off : Nat, len : Nat, old : BOOLEAN, moved : BOOLEAN] /\ slice'.old
      BY <2>1, <2>3, <3>1
    <3> QED BY <1>8, <1>11, <3>1, <3>2 DEF SliceInv, Has
  <2> QED BY <2>2, <2>3
<1> QED BY <1>10, <1>12, <1>13 DEF IInv

(* What a write has to establish: the same number of cells, and a history  *)
(* that agrees with them.                                                  *)
LEMMA WriteKeeps ==
  ASSUME ~Wide, IInv, inst # None,
         NEW f \in Seq(Cells), Len(f) = Len(inst.cells),
         inst' = [inst EXCEPT !.cells = f],
         wrote' \in [Uints -> Cells],
         \A k \in DOMAIN f : f[k] = wrote'[k - 1],
         \A off \in Uints : off >= Len(inst.cells) => wrote'[off] = Zero,
         got' = None, UNCHANGED <<limit, ctype, slice>>
  PROVE  IInv'
<1>1. /\ inst \in [kind : {"table", "memory"}, size : Nat, cells : Seq(Cells)]
      /\ ctype # None /\ inst.kind = ctype.kind /\ Sizes(inst, limit)
  BY DEF IInv, TypeInv
<1>2. /\ inst' \in [kind : {"table", "memory"}, size : Nat, cells : Seq(Cells)]
      /\ inst'.kind = inst.kind /\ inst'.size = inst.size /\ inst'.cells = f
  BY <1>1
<1>3. inst' # None
  BY <1>2, ConstantsAssumption
<1>4. Sizes(inst', limit)
  BY <1>1, <1>2 DEF Sizes
<1>5. TypeInv'
  BY <1>1, <1>2, <1>4 DEF IInv, TypeInv
<1>6. ContentInv'
  BY <1>2, <1>3 DEF ContentInv
<1>7. SliceInv'
  BY <1>2, <1>3 DEF IInv, SliceInv, Has
<1> QED BY <1>5, <1>6, <1>7 DEF IInv

(* A block is written to the cells and to the history at the same offset,  *)
(* and none of it outside.                                                 *)
LEMMA SetDataKeeps ==
  ASSUME ~Wide, IInv, inst # None,
         NEW data \in Seq(Cells), NEW off \in Uints, NEW len \in Uints, len <= Len(data),
         SetData(data, off, len)
  PROVE  IInv'
<1> DEFINE old == inst.cells
           L == Len(old)
           passed == SubSeq(data, 1, len)
           f == Written(old, off, passed)
           w == Written(wrote, off - 1, passed)
<1>1. off \in Nat /\ len \in Nat /\ At(off, len) = off /\ Uint32(len) = len
  BY Fits DEF At
<1>2. /\ old \in Seq(Cells) /\ L \in Nat /\ DOMAIN old = 1 .. L
      /\ \A k \in 1 .. L : k - 1 \in Uints
  BY CellsFit
<1>3. /\ off + len <= L
      /\ inst' = [inst EXCEPT !.cells = f] /\ wrote' = w
      /\ got' = None /\ UNCHANGED <<limit, ctype, slice>>
  BY <1>1 DEF SetData, Within
<1>4. /\ DOMAIN passed = 1 .. len
      /\ \A i \in 1 .. len : passed[i] \in Cells
  BY <1>1
<1>5. wrote \in [Uints -> Cells] /\ Uints \subseteq Nat
  BY Fits DEF IInv, TypeInv
<1>6. /\ \A k \in 1 .. L : old[k] = wrote[k - 1]
      /\ \A o \in Uints : o >= L => wrote[o] = Zero
  BY <1>2 DEF IInv, ContentInv
<1> HIDE DEF passed
<1>7. /\ f = [k \in 1 .. L |-> IF k - off \in 1 .. len THEN passed[k - off] ELSE old[k]]
      /\ w = [o \in Uints |-> IF o - (off - 1) \in 1 .. len THEN passed[o - (off - 1)]
                              ELSE wrote[o]]
  BY <1>2, <1>4, <1>5 DEF Written
<1> HIDE DEF f, w, L, old
<1>8. f \in Seq(Cells) /\ Len(f) = L /\ DOMAIN f = 1 .. L
  <2>1. \A k \in 1 .. L : f[k] \in Cells
    BY <1>2, <1>4, <1>7
  <2> QED BY <1>2, <1>7, <2>1
<1>9. w \in [Uints -> Cells]
  BY <1>4, <1>5, <1>7
<1>10. \A k \in 1 .. L : f[k] = w[k - 1]
  <2> TAKE k \in 1 .. L
  <2>1. k - off = (k - 1) - (off - 1) /\ k - 1 \in Uints
    BY <1>1, <1>2
  <2> QED BY <1>6, <1>7, <2>1
<1>11. \A o \in Uints : o >= L => w[o] = Zero
  <2> SUFFICES ASSUME NEW o \in Uints, o >= L PROVE w[o] = Zero
    OBVIOUS
  <2>1. ~ (o - (off - 1) \in 1 .. len)
    BY <1>1, <1>2, <1>3, <1>5
  <2> QED BY <1>6, <1>7, <2>1
<1> QED BY <1>3, <1>8, <1>9, <1>10, <1>11, WriteKeeps DEF L, old

(* A cell that wasm code, or the program through a slice, writes.          *)
LEMMA CellKeeps ==
  ASSUME ~Wide, IInv, inst # None, NEW k \in DOMAIN inst.cells, NEW c \in Cells,
         inst' = [inst EXCEPT !.cells[k] = c],
         wrote' = [wrote EXCEPT ![k - 1] = c],
         got' = None, UNCHANGED <<limit, ctype, slice>>
  PROVE  IInv'
<1> DEFINE old == inst.cells
           L == Len(old)
           f == [old EXCEPT ![k] = c]
<1>1. /\ old \in Seq(Cells) /\ L \in Nat /\ DOMAIN old = 1 .. L
      /\ \A i \in 1 .. L : i - 1 \in Uints
  BY CellsFit
<1>2. wrote \in [Uints -> Cells] /\ Uints \subseteq Nat
  BY Fits DEF IInv, TypeInv
<1>3. /\ \A i \in 1 .. L : old[i] = wrote[i - 1]
      /\ \A o \in Uints : o >= L => wrote[o] = Zero
  BY <1>1 DEF IInv, ContentInv
<1>4. inst' = [inst EXCEPT !.cells = f]
  OBVIOUS
<1>5. k \in 1 .. L
  BY <1>1
<1> HIDE DEF old, L
<1>6. f \in Seq(Cells) /\ Len(f) = L /\ DOMAIN f = 1 .. L
  BY <1>1, <1>5
<1>7. wrote' \in [Uints -> Cells]
  BY <1>2
<1>8. \A i \in 1 .. L : f[i] = wrote'[i - 1]
  <2> TAKE i \in 1 .. L
  <2>1. (i - 1 = k - 1) <=> (i = k)
    BY <1>1, <1>5
  <2> QED BY <1>1, <1>2, <1>3, <1>5, <2>1
<1>9. \A o \in Uints : o >= L => wrote'[o] = Zero
  <2> SUFFICES ASSUME NEW o \in Uints, o >= L PROVE wrote'[o] = Zero
    OBVIOUS
  <2>1. o # k - 1
    BY <1>1, <1>2, <1>5
  <2> QED BY <1>2, <1>3, <2>1
<1> HIDE DEF f
<1> QED BY <1>4, <1>6, <1>7, <1>8, <1>9, WriteKeeps DEF L, old

(* Wasm code writes within the instance.                                   *)
LEMMA WasmStoresKeeps ==
  ASSUME ~Wide, IInv, NEW k \in Uints, NEW c \in Cells, WasmStores(k, c)
  PROVE  IInv'
BY CellKeeps DEF WasmStores

(* A slice that is not old lies within the memory.                         *)
LEMMA UseSliceKeeps ==
  ASSUME ~Wide, IInv, NEW i \in Uints, NEW c \in Cells, UseSlice(i, c)
  PROVE  IInv'
<1> DEFINE k == slice.off + i + 1
<1>1. /\ slice # None /\ ~slice.old /\ i < slice.len
      /\ inst' = [inst EXCEPT !.cells[k] = c]
      /\ wrote' = [wrote EXCEPT ![slice.off + i] = c]
      /\ UNCHANGED <<limit, ctype, slice, got>>
  BY DEF UseSlice
<1>2. /\ slice.off \in Nat /\ slice.len \in Nat /\ Has("memory")
      /\ slice.off + slice.len <= Len(inst.cells)
  BY <1>1 DEF IInv, SliceInv
<1>3. got' = None
  BY <1>1, <1>2 DEF IInv, ContentInv, Has
<1>4. k \in DOMAIN inst.cells /\ k - 1 = slice.off + i
  <2>1. /\ Len(inst.cells) \in Nat /\ DOMAIN inst.cells = 1 .. Len(inst.cells)
        /\ i \in Nat
    BY <1>2, CellsFit, Fits DEF Has
  <2> QED BY <1>1, <1>2, <2>1
<1> HIDE DEF k
<1> QED BY <1>1, <1>2, <1>3, <1>4, CellKeeps DEF Has

(* A new slice is within the memory, for C has looked at all of its        *)
(* length.                                                                 *)
LEMMA MemoryGetDataKeeps ==
  ASSUME ~Wide, IInv, NEW off \in Uints, NEW len \in Uints, MemoryGetData(off, len)
  PROVE  IInv'
<1>1. off \in Nat /\ len \in Nat /\ Uint32(off) = off /\ Uint32(len) = len
  BY Fits
<1>2. /\ Has("memory") /\ off + len <= Len(inst.cells)
      /\ slice' = [off |-> off, len |-> len, old |-> FALSE, moved |-> FALSE]
      /\ UNCHANGED <<limit, ctype, inst, got, wrote>>
  BY <1>1 DEF MemoryGetData, Within, SliceOf
<1>3. TypeInv' /\ ContentInv'
  BY <1>2 DEF IInv, TypeInv, ContentInv, Has
<1>4. SliceInv'
  BY <1>1, <1>2 DEF SliceInv, Has
<1> QED BY <1>3, <1>4 DEF IInv

(* The element returned is the one at the offset asked for.                *)
LEMMA TableGetDataKeeps ==
  ASSUME ~Wide, IInv, NEW off \in Uints, TableGetData(off)
  PROVE  IInv'
<1>1. off \in Nat /\ Uint32(off) = off
  BY Fits
<1>2. /\ Has("table") /\ off + 1 <= Len(inst.cells)
      /\ got' = [off |-> off, cell |-> inst.cells[off + 1]]
      /\ UNCHANGED <<limit, ctype, inst, slice, wrote>>
  BY <1>1 DEF TableGetData, Within, Element
<1>3. TypeInv' /\ SliceInv'
  BY <1>2 DEF IInv, TypeInv, SliceInv, Has
<1>4. inst.cells[off + 1] = wrote[off]
  <2>1. off + 1 \in DOMAIN inst.cells /\ (off + 1) - 1 = off
    BY <1>1, <1>2, CellsFit DEF Has
  <2> QED BY <1>2, <2>1 DEF IInv, ContentInv, Has
<1>5. ContentInv'
  BY <1>2, <1>4 DEF IInv, ContentInv, Has
<1> QED BY <1>3, <1>5 DEF IInv

(* A stutter.                                                              *)
LEMMA StutterKeeps ==
  ASSUME IInv, UNCHANGED <<limit, ctype, inst, slice, got, wrote>>
  PROVE  IInv'
BY DEF IInv, TypeInv, ContentInv, SliceInv, Sizes, Has

(* With a maximum below the minimum the limit stays nil.                   *)
LEMMA WithMaxKeeps ==
  ASSUME ~Wide, IInv, NEW min \in Uints, NEW max \in Uints, NEW shared \in BOOLEAN,
         SetLimit(WithMax(min, max, shared))
  PROVE  IInv'
<1>1. CASE MaxAllowed(min, max)
  <2>1. /\ WithMax(min, max, shared) = Limit(min, max, TRUE, shared)
        /\ Limit(min, max, TRUE, shared) \in Limits
    BY <1>1 DEF WithMax, Limit, Limits
  <2>2. min <= max
    BY <1>1, Fits DEF MaxAllowed
  <2> QED BY <2>1, <2>2, SetLimitKeeps DEF Limit
<1>2. CASE ~MaxAllowed(min, max)
  BY <1>2, StutterKeeps DEF SetLimit, WithMax
<1> QED BY <1>1, <1>2

(* The actions of the program, with what it passes.                        *)
LEMMA LimitStep ==
  ASSUME ~Wide, IInv, NEW min \in Uints,
         \/ NewLimit(min) \/ NewLimitShared(min)
         \/ \E max \in Uints : NewLimitWithMax(min, max) \/ NewLimitSharedWithMax(min, max)
  PROVE  IInv'
<1>1. \A a \in Uints, b \in Uints, h \in BOOLEAN, s \in BOOLEAN :
        Limit(a, b, h, s) \in Limits /\ Limit(a, b, h, s).hasmax = h
        /\ Limit(a, b, h, s).min = a /\ Limit(a, b, h, s).max = b
  BY DEF Limit, Limits
<1>2. min <= min
  BY Fits
<1>3. CASE NewLimit(min)
  BY <1>1, <1>3, SetLimitKeeps DEF NewLimit
<1>4. CASE NewLimitShared(min)
  BY <1>1, <1>4, SetLimitKeeps DEF NewLimitShared
<1>5. ASSUME NEW max \in Uints, NewLimitWithMax(min, max) \/ NewLimitSharedWithMax(min, max)
      PROVE  IInv'
  BY <1>5, WithMaxKeeps DEF NewLimitWithMax, NewLimitSharedWithMax
<1> QED BY <1>3, <1>4, <1>5

(* Growth by any of the three.                                             *)
LEMMA GrowthStep ==
  ASSUME ~Wide, IInv, NEW n \in Uints, TableGrow(n) \/ MemoryGrowPage(n) \/ WasmGrows(n)
  PROVE  IInv'
<1>1. n \in Nat /\ Uint32(n) = n
  BY Fits
<1> QED BY <1>1, GrowthKeeps DEF TableGrow, MemoryGrowPage, WasmGrows, Has

(* An element of a table is a block of one cell.                           *)
LEMMA TableSetDataKeeps ==
  ASSUME ~Wide, IInv, NEW off \in Uints, NEW c \in Cells, TableSetData(c, off)
  PROVE  IInv'
<1>1. 1 \in Uints
  BY ConstantsAssumption DEF Uints
<1>2. <<c>> \in Seq(Cells) /\ Len(<<c>>) = 1
  OBVIOUS
<1>3. inst # None /\ SetData(<<c>>, off, 1)
  BY DEF TableSetData, Has
<1>4. 1 <= Len(<<c>>)
  BY <1>2
<1> HIDE DEF SetData
<1> QED BY <1>1, <1>2, <1>3, <1>4, SetDataKeeps

(* There are as many bytes as the length says.                             *)
LEMMA MemorySetDataKeeps ==
  ASSUME ~Wide, IInv, NEW off \in Uints, NEW len \in Uints,
         NEW n \in 0 .. MaxData, NEW data \in [1 .. n -> Cells], MemorySetData(data, off, len)
  PROVE  IInv'
<1>1. data \in Seq(Cells)
  BY ConstantsAssumption
<1>2. len <= Len(data)
  BY Fits DEF MemorySetData, Covers
<1> QED BY <1>1, <1>2, SetDataKeeps DEF MemorySetData, Has

(* Every step of a program that runs.                                      *)
LEMMA StepKeeps == ASSUME ~Wide, IInv, Step PROVE IInv'
<1>1. CASE \E min \in Uints :
             \/ NewLimit(min) \/ NewLimitShared(min)
             \/ \E max \in Uints : NewLimitWithMax(min, max) \/ NewLimitSharedWithMax(min, max)
  BY <1>1, LimitStep
<1>2. CASE NewTableType \/ NewMemoryType
  BY <1>2, NewTypeKeeps DEF NewTableType, NewMemoryType
<1>3. CASE NewTable \/ NewMemory
  BY <1>3, NewKeeps DEF NewTable, NewMemory
<1>4. CASE Release
  BY <1>4, ReleaseKeeps
<1>5. CASE \E n \in Uints : TableGrow(n) \/ MemoryGrowPage(n) \/ WasmGrows(n)
  BY <1>5, GrowthStep
<1>6. ASSUME NEW off \in Uints,
             TableGetData(off) \/ \E c \in Cells : TableSetData(c, off)
      PROVE  IInv'
  BY <1>6, TableGetDataKeeps, TableSetDataKeeps
<1>7. ASSUME NEW off \in Uints, NEW len \in Uints,
             \/ MemoryGetData(off, len)
             \/ \E n \in 0 .. MaxData : \E data \in [1 .. n -> Cells] : MemorySetData(data, off, len)
      PROVE  IInv'
  BY <1>7, MemoryGetDataKeeps, MemorySetDataKeeps
<1>8. CASE \E k \in Uints, c \in Cells : WasmStores(k, c) \/ UseSlice(k, c)
  BY <1>8, WasmStoresKeeps, UseSliceKeeps
<1> QED BY <1>1, <1>2, <1>3, <1>4, <1>5, <1>6, <1>7, <1>8 DEF Step

(* Every step.                                                             *)
LEMMA NextKeeps == ASSUME ~Wide, IInv, [Next]_vars PROVE IInv'
<1>1. CASE Step
  BY <1>1, StepKeeps
<1>2. CASE NewTypeOfNil \/ UNCHANGED vars
  BY <1>2, StutterKeeps DEF NewTypeOfNil, vars
<1> QED BY <1>1, <1>2 DEF Next, Halted

LEMMA PanickedKeeps ==
  ASSUME panicked \in BOOLEAN, [Next]_vars
  PROVE  panicked' \in BOOLEAN
BY DEF Next, NewTypeOfNil, Halted, vars

(* As long as numbers fit into 32 bits (~Wide), an instance keeps to its   *)
(* limits and has what was written, and slices are where it is (limit.go,  *)
(* ast.go:186-250, instance.go:329-439).                                   *)
THEOREM Invariance == ASSUME ~Wide PROVE Spec => []IInv
<1>1. Init => IInv
  BY InitKeeps
<1>2. IInv /\ [Next]_vars => IInv'
  BY NextKeeps
<1> QED BY <1>1, <1>2, PTL DEF Spec

(* A C type has the limits of the Go Limit it was made with, and no        *)
(* growth, by the program or by wasm code, leaves them (ast.go:186-250,    *)
(* instance.go:369-375, 433-439).                                          *)
THEOREM LimitsAreKept == ASSUME ~Wide PROVE Spec => []LimitsKept
<1> DEFINE Known == panicked \in BOOLEAN
<1>1. IInv /\ Known => LimitsKept
  <2> SUFFICES ASSUME IInv, Known PROVE LimitsKept
    OBVIOUS
  <2>1. TypeOK
    BY DEF IInv, TypeInv, TypeOK, Sizes
  <2>2. ctype # None => GetLimit = limit
    BY DEF IInv, TypeInv, GetLimit, Limit, Limits
  <2> QED BY <2>1, <2>2 DEF IInv, TypeInv, Sizes, LimitsKept
<1>2. Init => Known
  BY DEF Init
<1>3. Known /\ [Next]_vars => Known'
  BY PanickedKeeps
<1> HIDE DEF Known
<1> QED BY <1>1, <1>2, <1>3, Invariance, PTL DEF Spec

(* A table or memory holds what was last written at each offset, through   *)
(* SetData, a slice or wasm code, over every growth, and Table.GetData     *)
(* returns it (instance.go:347-363, 417-427).                              *)
THEOREM ContentIsKept == ASSUME ~Wide PROVE Spec => []ContentKept
<1>1. IInv => ContentKept
  BY DEF IInv, ContentInv, ContentKept
<1> QED BY <1>1, Invariance, PTL

(* A slice from GetData lies within the memory, where the memory is, until *)
(* it is grown (instance.go:403-415).                                      *)
THEOREM SliceStaysInMemory == ASSUME ~Wide PROVE Spec => []SliceIsMemory
<1>1. IInv => SliceIsMemory
  BY DEF IInv, SliceInv, SliceIsMemory
<1> QED BY <1>1, Invariance, PTL
===========================================================================
