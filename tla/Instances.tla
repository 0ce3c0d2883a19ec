----------------------------- MODULE Instances -----------------------------
(***************************************************************************)
(* Limits, and the tables and memories made with them (limit.go,           *)
(* ast.go:186-250, instance.go:329-439).  Sizes and offsets are uint in Go *)
(* and uint32_t in C.  Memory.GetData does not copy: the slice it returns  *)
(* lies over the memory itself, which wasm code writes and growth may      *)
(* move.                                                                   *)
(*                                                                         *)
(* What the program has to take care of: numbers fit into 32 bits unless   *)
(* Wide; SetData is not told of more bytes than there are (Covers); and a  *)
(* slice is not used after the memory has been grown (UseSlice).           *)
(***************************************************************************)
EXTENDS Integers, Sequences

CONSTANTS
  Uint32s,    \* how many values a uint32_t has: 2^32
  Wide,       \* TRUE: the program passes uints of one bit more
  PageSize,   \* the bytes of a page
  Cells,      \* what a byte, or an element of a table, can be
  Zero,       \* what it is at first
  MaxData,    \* bound: the bytes set at once
  None

ASSUME ConstantsAssumption ==
  /\ Uint32s \in Nat \ {0, 1} /\ PageSize \in Nat \ {0} /\ MaxData \in Nat
  /\ Wide \in BOOLEAN
  /\ Zero \in Cells
  /\ None \notin [kind : {"table", "memory"}, size : Nat, cells : Seq(Cells)]

VARIABLES
  limit,    \* a Go Limit, or None for a nil one
  ctype,    \* a table or memory type with its limit in C, or None
  inst,     \* the C instance made of it: its size in elements or pages, and its cells
  slice,    \* the slice that GetData returned last, and what has become of it
  got,      \* what Table.GetData returned last
  wrote,    \* history: what was last written at each offset
  panicked  \* TRUE after a panic, which ends the program

vars == <<limit, ctype, inst, slice, got, wrote, panicked>>

Uints == 0 .. (IF Wide THEN 2 * Uint32s ELSE Uint32s) - 1

Init ==
  /\ limit = None /\ ctype = None /\ inst = None /\ slice = None /\ got = None
  /\ wrote = [off \in Uints |-> Zero]
  /\ panicked = FALSE

---------------------------------------------------------------------------
(* Limits and types *)

Limit(min, max, hasmax, shared) == [min |-> min, max |-> max, hasmax |-> hasmax, shared |-> shared]

SetLimit(l) == limit = None /\ limit' = l /\ UNCHANGED <<ctype, inst, slice, got, wrote>>

NewLimit(min) == SetLimit(Limit(min, min, FALSE, FALSE))
NewLimitShared(min) == SetLimit(Limit(min, min, FALSE, TRUE))

(* These return nil if the maximum is less than the minimum. *)
MaxAllowed(min, max) == max >= min
WithMax(min, max, shared) == IF MaxAllowed(min, max) THEN Limit(min, max, TRUE, shared) ELSE None

NewLimitWithMax(min, max) == SetLimit(WithMax(min, max, FALSE))
NewLimitSharedWithMax(min, max) == SetLimit(WithMax(min, max, TRUE))

(* C.uint32_t() *)
Uint32(n) == n % Uint32s

CLimit_NoMax(l) == Limit(Uint32(l.min), Uint32(l.max), FALSE, l.shared)      \* mistake
CLimit_Swapped(l) == Limit(Uint32(l.max), Uint32(l.min), l.hasmax, l.shared) \* mistake
CLimit(l) == Limit(Uint32(l.min), Uint32(l.max), l.hasmax, l.shared)

NewType(kind) ==
  /\ limit # None /\ ctype = None
  /\ ctype' = [kind |-> kind, limit |-> CLimit(limit)]
  /\ UNCHANGED <<limit, inst, slice, got, wrote>>

(* Neither constructor asks whether the limit it reads is nil. *)
NewTypeOfNil ==
  /\ limit = None /\ ctype = None
  /\ panicked' = TRUE
  /\ UNCHANGED <<limit, ctype, inst, slice, got, wrote>>

NewTableType == NewType("table")
NewMemoryType == NewType("memory")

(* TableType.GetLimit and MemoryType.GetLimit *)
GetLimit == Limit(ctype.limit.min, ctype.limit.max, ctype.limit.hasmax, ctype.limit.shared)

---------------------------------------------------------------------------
(* The C instances.  A memory has at most as many bytes as an offset can   *)
(* tell apart.                                                             *)

UnitOf(kind) == IF kind = "memory" THEN PageSize ELSE 1
MaxUnits(kind) == IF kind = "memory" THEN Uint32s \div PageSize ELSE Uint32s - 1

Zeroes(n) == [i \in 1 .. n |-> Zero]
Within(off, len) == off + len <= Len(inst.cells)

MayGrow(n) ==
  /\ inst.size + n <= MaxUnits(inst.kind)
  /\ ctype.limit.hasmax => inst.size + n <= ctype.limit.max

Grown(n) == [inst EXCEPT !.size = @ + n, !.cells = @ \o Zeroes(n * UnitOf(inst.kind))]

---------------------------------------------------------------------------
(* Table and Memory *)

New(kind) ==
  /\ ctype # None /\ inst = None
  /\ ctype.kind = kind /\ ctype.limit.min <= MaxUnits(ctype.kind)
  /\ inst' = [kind |-> ctype.kind, size |-> ctype.limit.min,
              cells |-> Zeroes(ctype.limit.min * UnitOf(ctype.kind))]
  /\ UNCHANGED <<limit, ctype, slice, got, wrote>>

NewTable == New("table")
NewMemory == New("memory")

Has(kind) == inst # None /\ inst.kind = kind

(* The program releases the instance, or gives up what C does not make an  *)
(* instance of.                                                            *)
Release ==
  /\ ctype # None
  /\ inst # None \/ ctype.limit.min > MaxUnits(ctype.kind)
  /\ limit' = None /\ ctype' = None /\ inst' = None /\ slice' = None /\ got' = None
  /\ wrote' = [off \in Uints |-> Zero]

(* The instance grows, the slice is old, and the memory may have moved. *)
Growth(n) ==
  /\ MayGrow(n)
  /\ inst' = Grown(n)
  /\ \E moved \in BOOLEAN :
       slice' = IF slice = None THEN None ELSE [slice EXCEPT !.old = TRUE, !.moved = @ \/ moved]
  /\ got' = None
  /\ UNCHANGED <<limit, ctype, wrote>>

(* If the limit forbids it, nothing happens. *)
TableGrow(n) == Has("table") /\ Growth(Uint32(n))
MemoryGrowPage(n) == Has("memory") /\ Growth(Uint32(n))

(* memory.grow and table.grow *)
WasmGrows(n) == inst # None /\ n \in 0 .. Uint32s - 1 /\ Growth(n)

(* Bytes or an element are written at an offset. *)
Written(f, off, data) ==
  [k \in DOMAIN f |-> IF k - off \in DOMAIN data THEN data[k - off] ELSE f[k]]

(* C reads len bytes, whether the slice has them or not. *)
Covers(data, len) == Uint32(len) <= Len(data)

At_Length(off, len) == Uint32(len)                    \* mistake: the arguments swapped
At(off, len) == Uint32(off)

(* Outside the instance it fails and changes nothing. *)
SetData(data, off, len) ==
  LET passed == SubSeq(data, 1, Uint32(len)) IN
  /\ Within(At(off, len), Uint32(len))
  /\ inst' = [inst EXCEPT !.cells = Written(@, At(off, len), passed)]
  /\ wrote' = Written(wrote, off - 1, passed)
  /\ got' = None
  /\ UNCHANGED <<limit, ctype, slice>>

TableSetData(c, off) == Has("table") /\ SetData(<<c>>, off, 1)
MemorySetData(data, off, len) == Has("memory") /\ Covers(data, len) /\ SetData(data, off, len)

(* Memory.GetData: C looks at 32 bits of the length, the slice has all.    *)
SliceOf_ToEnd(off, len) == [off |-> Uint32(off), len |-> off + len, old |-> FALSE, moved |-> FALSE]  \* mistake
SliceOf(off, len) == [off |-> Uint32(off), len |-> len, old |-> FALSE, moved |-> FALSE]

MemoryGetData(off, len) ==
  /\ Has("memory")
  /\ Within(Uint32(off), Uint32(len))
  /\ slice' = SliceOf(off, len)
  /\ UNCHANGED <<limit, ctype, inst, got, wrote>>

Element_First(off) == inst.cells[1]                   \* mistake: the offset is lost
Element(off) == inst.cells[Uint32(off) + 1]

TableGetData(off) ==
  /\ Has("table")
  /\ Within(Uint32(off), 1)
  /\ got' = [off |-> off, cell |-> Element(off)]
  /\ UNCHANGED <<limit, ctype, inst, slice, wrote>>

(* Wasm code writes a cell. *)
WasmStores(k, c) ==
  /\ inst # None /\ k \in DOMAIN inst.cells
  /\ inst' = [inst EXCEPT !.cells[k] = c]
  /\ wrote' = [wrote EXCEPT ![k - 1] = c]
  /\ got' = None
  /\ UNCHANGED <<limit, ctype, slice>>

(* The program writes a byte through the slice that GetData returned. *)
UseSlice(i, c) ==
  /\ slice # None /\ ~slice.old /\ i < slice.len
  /\ inst' = [inst EXCEPT !.cells[slice.off + i + 1] = c]
  /\ wrote' = [wrote EXCEPT ![slice.off + i] = c]
  /\ UNCHANGED <<limit, ctype, slice, got>>

---------------------------------------------------------------------------

Step ==
  \/ \E min \in Uints :
       \/ NewLimit(min) \/ NewLimitShared(min)
       \/ \E max \in Uints : NewLimitWithMax(min, max) \/ NewLimitSharedWithMax(min, max)
  \/ NewTableType \/ NewMemoryType \/ NewTable \/ NewMemory \/ Release
  \/ \E n \in Uints : TableGrow(n) \/ MemoryGrowPage(n) \/ WasmGrows(n)
  \/ \E off \in Uints :
       \/ TableGetData(off) \/ \E c \in Cells : TableSetData(c, off)
       \/ \E len \in Uints :
            \/ MemoryGetData(off, len)
            \/ \E n \in 0 .. MaxData : \E data \in [1 .. n -> Cells] : MemorySetData(data, off, len)
  \/ \E k \in Uints, c \in Cells : WasmStores(k, c) \/ UseSlice(k, c)

(* Nothing happens after a panic. *)
Halted == panicked /\ UNCHANGED vars

Next ==
  \/ ~panicked /\ Step /\ UNCHANGED panicked
  \/ ~panicked /\ NewTypeOfNil
  \/ Halted

Spec == Init /\ [][Next]_vars

---------------------------------------------------------------------------

(* The type invariant. *)
Limits == [min : Uints, max : Uints, hasmax : BOOLEAN, shared : BOOLEAN]
TypeOK ==
  /\ limit # None => limit \in Limits /\ (limit.hasmax => limit.min <= limit.max)
  /\ ctype # None => ctype.kind \in {"table", "memory"} /\ ctype.limit \in Limits
  /\ inst # None =>
       /\ inst.kind = ctype.kind
       /\ inst.cells \in Seq(Cells) /\ Len(inst.cells) = inst.size * UnitOf(inst.kind)
  /\ wrote \in [Uints -> Cells]
  /\ panicked \in BOOLEAN

(* Every variable is of its type; a C type tells the limits it was made    *)
(* with (ast.go:186-250); and an instance has, after any growth by the     *)
(* program or by wasm code, a size between the limits that the program     *)
(* asked for.                                                              *)
LimitsKept ==
  /\ TypeOK
  /\ ctype # None => GetLimit = limit
  /\ inst # None => limit.min <= inst.size /\ (limit.hasmax => inst.size <= limit.max)

(* What SetData, wasm code, or the program through a slice wrote last is   *)
(* what the instance has there, and nothing else has changed               *)
(* (instance.go:356-363, 417-427); and Table.GetData returns what was      *)
(* written last at the offset it was asked for (instance.go:347-354).      *)
ContentKept ==
  /\ inst # None => \A k \in DOMAIN inst.cells : inst.cells[k] = wrote[k - 1]
  /\ got # None => got.cell = wrote[got.off]

(* A slice from GetData lies within the memory and where the memory is, as *)
(* long as it has not been grown (instance.go:403-415).                    *)
SliceIsMemory ==
  slice # None /\ ~slice.old => slice.off + slice.len <= Len(inst.cells) /\ ~slice.moved
===========================================================================
