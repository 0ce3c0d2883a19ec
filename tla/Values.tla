------------------------------- MODULE Values -------------------------------
(***************************************************************************)
(* Go values and wasm values (value.go:224-330, 414-423).  toWasmEdgeValue *)
(* makes a wasm value of any of the package's types from a Go value;       *)
(* fromWasmEdgeValue returns signed integers, whatever was put in.  The    *)
(* widths are parameters, to be small enough for TLC.  External references *)
(* have a module of their own, ExternRefs.                                 *)
(***************************************************************************)
EXTENDS Integers, Sequences

CONSTANTS
  W32, W64      \* how many values an i32 and an i64 have: 2^32 and 2^64

ASSUME WidthsAssumption ==
  /\ W32 \in Nat \ {0} /\ W64 \in Nat \ {0}
  /\ W32 % 2 = 0 /\ W64 % 2 = 0 /\ W32 <= W64

WasmTypes == {"i32", "i64", "f32", "f64", "v128", "funcref"}

(* How many values a type has. *)
SizeOf(type) == CASE type \in {"i32", "f32"} -> W32
                  [] type \in {"i64", "f64", "funcref"} -> W64
                  [] type = "v128" -> W64 * W64

(* A Go value: its type and its number; the number of a float is its bit   *)
(* pattern, that of a FuncRef its pointer, and a V128 has two, the high    *)
(* half and the low half.                                                  *)
Go(type, n) == [type |-> type, n |-> <<n>>]
GoV128(high, low) == [type |-> "V128", n |-> <<high, low>>]
Wasm(type, bits) == [type |-> type, bits |-> bits]

(* word is "i32" or "i64": the size of the platform's int and uint.        *)
WasmTypeOf(gotype, word) ==
  CASE gotype \in {"int", "uint"} -> word
    [] gotype \in {"int32", "uint32"} -> "i32"
    [] gotype \in {"int64", "uint64"} -> "i64"
    [] gotype = "float32" -> "f32"
    [] gotype = "float64" -> "f64"
    [] gotype = "V128" -> "v128"
    [] gotype = "FuncRef" -> "funcref"
    [] OTHER -> "unsupported"

Supported(v) == WasmTypeOf(v.type, "i32") # "unsupported"

(* The values of Go's types; what is not supported may be anything. *)
SignedRange(w) == -(w \div 2) .. w \div 2 - 1

IsGoValue(v) ==
  \/ \E n \in SignedRange(W32) : v = Go("int32", n)
  \/ \E n \in 0 .. W32 - 1 : v \in {Go("uint32", n), Go("float32", n)}
  \/ \E n \in SignedRange(W64) : v \in {Go("int", n), Go("int64", n)}
  \/ \E n \in 0 .. W64 - 1 :
       v \in {Go("uint", n), Go("uint64", n), Go("float64", n), Go("FuncRef", n)}
  \/ \E high, low \in 0 .. W64 - 1 : v = GoV128(high, low)
  \/ ~Supported(v)

(* NewV128 and V128.GetVal: the low half comes first in memory. *)
NewV128_Swapped(high, low) == high + low * W64      \* mistake
NewV128(high, low) == low + high * W64
GetVal(bits) == GoV128(bits \div W64, bits % W64)

(* The conversion of an integer of Go to one of C. *)
Truncated_Saturated(n, w) ==                          \* mistake
  IF n >= w \div 2 THEN w \div 2 - 1 ELSE n % w
Truncated(n, w) == n % w

Signed_Not(bits, w) == bits                           \* mistake: uint32 for int32
Signed(bits, w) == IF bits >= w \div 2 THEN bits - w ELSE bits

(* What toWasmEdgeValue makes of a supported value. *)
ToWasm(v, word) ==
  LET type == WasmTypeOf(v.type, word) IN
  Wasm(type, IF type = "v128" THEN NewV128(v.n[1], v.n[2])
             ELSE IF type \in {"i32", "i64"} THEN Truncated(v.n[1], SizeOf(type))
             ELSE v.n[1])

FromWasm(c) ==
  CASE c.type = "i32" -> Go("int32", Signed(c.bits, W32))
    [] c.type = "i64" -> Go("int64", Signed(c.bits, W64))
    [] c.type = "f32" -> Go("float32", c.bits)
    [] c.type = "f64" -> Go("float64", c.bits)
    [] c.type = "v128" -> GetVal(c.bits)
    [] c.type = "funcref" -> Go("FuncRef", c.bits)

(* toWasmEdgeValueSlide, of supported values, and fromWasmEdgeValueSlide   *)
ToWasmSlide(vals, word) == [i \in DOMAIN vals |-> ToWasm(vals[i], word)]
FromWasmSlide(cvals) == [i \in DOMAIN cvals |-> FromWasm(cvals[i])]

---------------------------------------------------------------------------

(* The reference: an integer arrives as the signed integer of its wasm     *)
(* type's size that is congruent to it, anything else as itself.          *)
Arrived(v, word) ==
  LET type == WasmTypeOf(v.type, word)  w == SizeOf(type) IN
  IF type \in {"i32", "i64"}
  THEN Go(IF type = "i32" THEN "int32" ELSE "int64",
          CHOOSE x \in SignedRange(w) : (x - v.n[1]) % w = 0)
  ELSE v
===========================================================================
