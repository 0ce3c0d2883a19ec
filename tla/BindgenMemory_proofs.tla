------------------------ MODULE BindgenMemory_proofs ------------------------
(***************************************************************************)
(* Proofs about BindgenMemory: for any modules, addresses, parameters and  *)
(* results, any number of parameters, and any size of a byte.              *)
(***************************************************************************)
EXTENDS BindgenMemory, TLAPS

(* The parameter p arrives as x, or as x and y, with the blocks H.         *)
Arrives(p, x, y, H) ==
  /\ p.type # "unsupported"
  /\ p.type = "int32" => p.n = x
  /\ p.type = "uint32" => p.n = U32(x)
  /\ p.type = "int64" => p.n = I64(U32(x) + W32 * U32(y))
  /\ p.type = "uint64" => p.n = U32(x) + W32 * U32(y)
  /\ p.type = "bytes" => U32(y) = p.len /\ Block(U32(x), p.len, p.data) \in H

(* The first k parameters of c have been converted, and are before end.    *)
Parsed(c, H, at, k, end) ==
  /\ at \in [1 .. k + 1 -> 1 .. end]
  /\ at[1] = Len(ResultAddress(c.ret)) + 1 /\ at[k + 1] = end
  /\ \A i \in 1 .. k :
       /\ at[i + 1] = at[i] + Width(c.params[i])
       /\ Arrives(c.params[i], c.cvals[at[i]], c.cvals[at[i] + 1], H)
       /\ c.pc = "set" /\ c.params[i].type = "bytes"
            => U32(c.cvals[at[i]]) # U32(c.cvals[Len(c.cvals) - 1])

Converted(c) == Len(c.params) - Len(c.args)

(* While parameters are converted: args are those that are left, the       *)
(* others arrive; a block that has been allocated and not written yet is   *)
(* not one of theirs.                                                      *)
ConvertOK(c, H) ==
  LET ra == ResultAddress(c.ret) IN
  /\ c.pc \in {"convert", "set"} =>
       /\ Len(c.args) <= Len(c.params)
       /\ \A j \in 1 .. Len(c.args) : c.args[j] = c.params[Converted(c) + j]
       /\ Len(c.cvals) >= Len(ra) /\ \A j \in 1 .. Len(ra) : c.cvals[j] = ra[j]
       /\ c.before \subseteq H
  /\ c.pc = "convert" => \E at : Parsed(c, H, at, Converted(c), Len(c.cvals) + 1)
  /\ c.pc = "set" =>
       /\ c.args # <<>> /\ Head(c.args).type = "bytes" /\ Len(c.cvals) >= 2
       /\ U32(c.cvals[Len(c.cvals)]) = Head(c.args).len
       /\ \E b \in H \ c.before :
            b = Block(U32(c.cvals[Len(c.cvals) - 1]), Head(c.args).len, "undefined")
       /\ \E at : Parsed(c, H, at, Converted(c), Len(c.cvals) - 1)

(* What the function made and left in H: the blocks there were before, and *)
(* the one for an array, whose address is where it has to be; at0 and at8  *)
(* are the numbers in memory.                                              *)
MadeOK(ret, made, before, H, at0, at8) ==
  CASE ret = "void"  -> made = NoResult /\ H = before
    [] ret = "i32"   -> H = before
    [] ret = "i64"   -> H = before /\ made = Number("int64", at0)
    [] ret = "array" ->
         \E b \in H : /\ b \notin before /\ H = before \cup {b}
                      /\ made = Bytes(b.len, b.data) /\ b.len < W32 \div 2
                      /\ at8 = b.addr + W32 * b.len

(* After the function has been called.                                     *)
ReturnOK(c, H, at0, at8) ==
  /\ c.pc = "executed" => MadeOK(c.ret, c.made, c.before, H, at0, at8)
  /\ c.pc = "free" =>
       /\ c.got = c.made
       /\ \E b \in H : /\ b \notin c.before /\ H = c.before \cup {b}
                       /\ U32(c.cvals[1]) = b.addr /\ U32(c.cvals[2]) = b.len
  /\ c.pc = "ok" => c.got = c.made /\ H = c.before
  /\ c.pc \in {"error", "panic"} => c.before \subseteq H

Calls ==
  [pc : {"idle", "convert", "set", "executed", "free", "ok", "error", "panic"},
   mod : Mods, ret : Returns, args : Seq(Params), params : Seq(Params), cvals : Seq(Int),
   made : Results \cup {NoResult}, got : Results \cup {NoResult}, before : SUBSET Blocks]

Apart(H) ==
  \A b, c \in H :
    b # c => b.addr # c.addr /\ Cover(b.addr, b.len) \cap Cover(c.addr, c.len) = {}

Cut(vs) == \A i \in DOMAIN vs : vs[i] = I32(vs[i])

TypeInv ==
  /\ low \in [Mods -> [Cells -> 0 .. Byte - 1]]
  /\ heap \in [Mods -> SUBSET Blocks] /\ \A m \in Mods : Apart(heap[m])
  /\ call \in Calls /\ Cut(call.cvals)

IInv ==
  /\ TypeInv
  /\ ConvertOK(call, heap[call.mod])
  /\ ReturnOK(call, heap[call.mod], Num(call.mod, 0), Num(call.mod, 8))

---------------------------------------------------------------------------
(* Arithmetic. *)

LEMMA Division ==
  ASSUME NEW n \in Int, NEW b \in Nat, b > 0
  PROVE  /\ n = b * (n \div b) + (n % b)
         /\ n \div b \in Int /\ n % b \in 0 .. b - 1
OBVIOUS

LEMMA DivisionUnique ==
  ASSUME NEW b \in Nat, b > 0, NEW q \in Int, NEW r \in 0 .. b - 1
  PROVE  (b * q + r) \div b = q /\ (b * q + r) % b = r
OBVIOUS

LEMMA Widths ==
  /\ Byte \in Nat /\ Byte > 3
  /\ W32 \in Nat /\ W32 > 63 /\ W64 \in Nat /\ W64 > W32
  /\ W32 = Byte * (Byte * (Byte * Byte))
<1>1. Byte \in Nat /\ Byte > 3
  BY ConstantsAssumption
<1>2. \A x \in Nat : x > 3 => Byte * x \in Nat /\ Byte * x > 4 * x - 1
  BY <1>1
<1>3. Byte * Byte \in Nat /\ Byte * Byte > 15
  BY <1>1, <1>2
<1>4. Byte * (Byte * Byte) \in Nat /\ Byte * (Byte * Byte) > 15
  BY <1>2, <1>3
<1>5. Byte * (Byte * (Byte * Byte)) \in Nat /\ Byte * (Byte * (Byte * Byte)) > 63
  BY <1>2, <1>4
<1>6. W32 = Byte * (Byte * (Byte * Byte))
  BY <1>1 DEF W32
<1>7. W32 \in Nat /\ W32 > 63
  BY <1>5, <1>6
<1>8. PICK w \in Nat : w = W32 /\ w > 63
  BY <1>7
<1>9. w * w \in Nat /\ w * w > w
  BY <1>8
<1> QED BY <1>1, <1>6, <1>7, <1>8, <1>9 DEF W64

(* An int32 of any number, taken as a uint32, is the number cut off. *)
LEMMA Int32Value ==
  ASSUME NEW n \in Int
  PROVE  /\ I32(n) \in Int /\ U32(n) \in 0 .. W32 - 1
         /\ U32(I32(n)) = U32(n) /\ I32(I32(n)) = I32(n) /\ I32(U32(n)) = I32(n)
         /\ n \in Signed(W32) => I32(n) = n
         /\ n \in 0 .. W32 - 1 => U32(n) = n
<1> DEFINE w == W32
<1>1. w \in Nat /\ w > 63
  BY Widths
<1>2. /\ U32(n) = n % w
      /\ I32(n) = IF n % w < w \div 2 THEN n % w ELSE (n % w) - w
  BY DEF U32, I32
<1> HIDE DEF w
<1>3. n % w \in 0 .. w - 1
  BY <1>1, Division
<1>4. (n % w) % w = n % w /\ ((n % w) - w) % w = n % w
  BY <1>1, <1>3, DivisionUnique
<1>5. I32(n) % w = n % w
  BY <1>2, <1>4
<1>6. n \in -(w \div 2) .. w \div 2 - 1 => I32(n) = n
  <2>1. n >= 0 /\ n < w \div 2 => n % w = n
    BY <1>1
  <2>2. n < 0 /\ n >= -(w \div 2) => n % w = n + w /\ n + w >= w \div 2
    BY <1>1
  <2> QED BY <1>1, <1>2, <2>1, <2>2
<1>7. n \in 0 .. w - 1 => n % w = n
  BY <1>1
<1> QED
  BY <1>1, <1>2, <1>3, <1>4, <1>5, <1>6, <1>7 DEF U32, I32, Signed, w

LEMMA Int64Value ==
  ASSUME NEW n \in Int
  PROVE  /\ I64(n) \in Int /\ I64(n % W64) = I64(n)
         /\ n \in Signed(W64) => I64(n) = n
<1> DEFINE w == W64
<1>1. w \in Nat /\ w > 63
  BY Widths
<1>2. I64(n) = IF n % w < w \div 2 THEN n % w ELSE (n % w) - w
  BY DEF I64
<1> HIDE DEF w
<1>3. n % w \in 0 .. w - 1 /\ (n % w) % w = n % w
  BY <1>1, Division, DivisionUnique
<1>4. n >= 0 /\ n < w \div 2 => n % w = n
  BY <1>1
<1>5. n < 0 /\ n >= -(w \div 2) => n % w = n + w /\ n + w >= w \div 2
  BY <1>1
<1>6. n \in -(w \div 2) .. w \div 2 - 1 => I64(n) = n
  BY <1>1, <1>2, <1>4, <1>5
<1> QED BY <1>1, <1>2, <1>3, <1>6 DEF I64, Signed, w

(* The two halves of a number, put together again. *)
LEMMA TwoHalves ==
  ASSUME NEW n \in Int
  PROVE  (n % W32) + W32 * ((n \div W32) % W32) = n % W64
<1>1. PICK w \in Nat : w = W32 /\ w > 63
  BY Widths
<1> DEFINE q == n \div w
           r == n % w
           p == q \div w
           s == q % w
<1>2. n = w * q + r /\ q \in Int /\ r \in 0 .. w - 1
  BY <1>1, Division
<1>3. q = w * p + s /\ p \in Int /\ s \in 0 .. w - 1
  BY <1>1, <1>2, Division
<1> HIDE DEF q, r, p, s
<1>4. w * q = w * (w * p) + w * s
  BY <1>1, <1>3
<1>5. w * (w * p) = (w * w) * p
  BY <1>1, <1>3
<1>6. w * s \in Nat /\ w * s <= w * (w - 1)
  BY <1>1, <1>3
<1>7. w * (w - 1) = w * w - w
  BY <1>1
<1>8. w * w \in Nat /\ w * w > 0
  BY <1>1
<1>9. r + w * s \in 0 .. (w * w) - 1
  BY <1>1, <1>2, <1>6, <1>7, <1>8
<1>10. n = (w * w) * p + (r + w * s)
  BY <1>2, <1>4, <1>5, <1>6, <1>8, <1>3
<1>11. n % (w * w) = r + w * s
  BY <1>3, <1>8, <1>9, <1>10, DivisionUnique
<1> QED BY <1>1, <1>11 DEF W64, q, r, s

LEMMA FourBytesValue ==
  ASSUME NEW n \in Int, NEW f, NEW c, f[c] = FourBytes(n)[1], f[c + 1] = FourBytes(n)[2],
         f[c + 2] = FourBytes(n)[3], f[c + 3] = FourBytes(n)[4]
  PROVE  /\ Word(f, c) = n % W32
         /\ \A i \in 1 .. 4 : FourBytes(n)[i] \in 0 .. Byte - 1
<1>1. PICK b \in Nat : b = Byte /\ b > 3
  BY Widths
<1> DEFINE x == n \div b
           y == x \div b
           z == y \div b
           q == z \div b
<1>2. FourBytes(n) = <<n % b, x % b, y % b, z % b>>
  BY <1>1 DEF FourBytes
<1>3. n = b * x + (n % b) /\ x \in Int /\ n % b \in 0 .. b - 1
  BY <1>1, Division
<1>4. x = b * y + (x % b) /\ y \in Int /\ x % b \in 0 .. b - 1
  BY <1>1, <1>3, Division
<1>5. y = b * z + (y % b) /\ z \in Int /\ y % b \in 0 .. b - 1
  BY <1>1, <1>4, Division
<1>6. z = b * q + (z % b) /\ q \in Int /\ z % b \in 0 .. b - 1
  BY <1>1, <1>5, Division
<1>7. \A i \in 1 .. 4 : FourBytes(n)[i] \in 0 .. b - 1
  BY <1>2, <1>3, <1>4, <1>5, <1>6
<1>8. PICK d \in 0 .. b - 1, e \in 0 .. b - 1, g \in 0 .. b - 1, h \in 0 .. b - 1 :
        d = n % b /\ e = x % b /\ g = y % b /\ h = z % b
  BY <1>3, <1>4, <1>5, <1>6
<1> HIDE DEF x, y, z, q
<1>9. Word(f, c) = d + b * (e + b * (g + b * h))
  BY <1>1, <1>2, <1>8 DEF Word
(* One byte more: below b * k there is as much as b numbers below k. *)
<1>10. \A k \in Nat, u \in Nat, v \in Int, t \in 0 .. b - 1 :
         u < k => /\ t + b * u \in Nat /\ t + b * u < b * k
                  /\ b * ((k * v) + u) + t = (b * k) * v + (t + b * u)
  <2> TAKE k \in Nat, u \in Nat, v \in Int, t \in 0 .. b - 1
  <2> HAVE u < k
  <2>1. b * u \in Nat /\ b * u <= b * (k - 1) /\ b * (k - 1) = b * k - b /\ b * k \in Nat
    BY <1>1
  <2>2. b * ((k * v) + u) = b * (k * v) + b * u /\ b * (k * v) = (b * k) * v /\ k * v \in Int
    BY <1>1
  <2>3. b * (k * v) \in Int
    BY <1>1, <2>2
  <2> QED BY <1>1, <2>1, <2>2, <2>3
<1>11. h \in Nat /\ h < b /\ z = b * q + h
  BY <1>6, <1>8
<1> DEFINE i == g + b * h
           j == e + b * i
           l == d + b * j
<1>12. i \in Nat /\ i < b * b /\ y = (b * b) * q + i
  <2>1. y = b * ((b * q) + h) + g
    BY <1>5, <1>8, <1>11
  <2> QED BY <1>1, <1>6, <1>10, <1>11, <2>1
<1> HIDE DEF i
<1>13. b * b \in Nat /\ b * (b * b) \in Nat
  BY <1>1
<1>14. j \in Nat /\ j < b * (b * b) /\ x = (b * (b * b)) * q + j
  <2>1. x = b * (((b * b) * q) + i) + e
    BY <1>4, <1>8, <1>12
  <2> QED BY <1>6, <1>10, <1>12, <1>13, <2>1
<1> HIDE DEF j
<1>15. l \in Nat /\ l < b * (b * (b * b)) /\ n = (b * (b * (b * b))) * q + l
  <2>1. n = b * (((b * (b * b)) * q) + j) + d
    BY <1>3, <1>8, <1>14
  <2> QED BY <1>6, <1>10, <1>13, <1>14, <2>1
<1>16. Word(f, c) = l
  BY <1>9 DEF i, j
<1> HIDE DEF l
<1>17. W32 = b * (b * (b * b)) /\ W32 \in Nat /\ W32 > 0
  BY <1>1, Widths
<1>18. n % W32 = l
  <2>1. l \in 0 .. W32 - 1 /\ n = W32 * q + l
    BY <1>15, <1>17
  <2>2. (W32 * q + l) % W32 = l
    BY <1>6, <1>17, <2>1, DivisionUnique
  <2> QED BY <2>1, <2>2
<1> QED BY <1>1, <1>7, <1>16, <1>18

---------------------------------------------------------------------------
(* Values. *)

LEMMA ParamTypes ==
  ASSUME NEW p \in Params
  PROVE  /\ p.type \in Numbers \cup {"bytes", "unsupported"}
         /\ p.type = "int32" => p.n \in Signed(W32)
         /\ p.type = "uint32" => p.n \in 0 .. W32 - 1
         /\ p.type = "int64" => p.n \in Signed(W64)
         /\ p.type = "uint64" => p.n \in 0 .. W64 - 1
         /\ p.type \in Numbers => p.n \in Int /\ p = Number(p.type, p.n)
         /\ p.type = "bytes" => /\ p.len \in 0 .. W32 - 1 /\ p.data \in Contents
                                /\ p = Bytes(p.len, p.data)
<1>1. \/ p \in IntegersOf("int32", Signed(W32))
      \/ p \in IntegersOf("uint32", 0 .. W32 - 1)
      \/ p \in IntegersOf("int64", Signed(W64))
      \/ p \in IntegersOf("uint64", 0 .. W64 - 1)
      \/ p \in Arrays(0 .. W32 - 1)
      \/ p = Unsupported
  BY ConstantsAssumption
<1>2. \A w : Signed(w) \subseteq Int
  BY DEF Signed
<1>3. \A type \in Numbers : \A S \in SUBSET Int : \A r \in IntegersOf(type, S) :
        r.type = type /\ r.n \in S /\ r.n \in Int /\ r = Number(type, r.n)
  <2> TAKE type \in Numbers
  <2> TAKE S \in SUBSET Int
  <2> TAKE r \in IntegersOf(type, S)
  <2>1. r \in [type : {type}, n : S]
    BY DEF IntegersOf
  <2>2. r = [type |-> r.type, n |-> r.n] /\ r.type = type /\ r.n \in S
    BY <2>1
  <2> QED BY <2>2 DEF Number
<1>4. \A S \in SUBSET Int : \A r \in Arrays(S) :
        r.type = "bytes" /\ r.len \in S /\ r.data \in Contents /\ r = Bytes(r.len, r.data)
  BY DEF Arrays, Bytes
<1>5. Unsupported.type = "unsupported"
  BY DEF Unsupported
<1>6. 0 .. W32 - 1 \subseteq Int /\ 0 .. W64 - 1 \subseteq Int
  OBVIOUS
<1>7. CASE p \in Arrays(0 .. W32 - 1)
  BY <1>4, <1>6, <1>7 DEF Numbers
<1>8. CASE p = Unsupported
  BY <1>5, <1>8 DEF Numbers
<1>9. CASE p \in IntegersOf("int32", Signed(W32))
  BY <1>2, <1>3, <1>9 DEF Numbers
<1>10. CASE p \in IntegersOf("uint32", 0 .. W32 - 1)
  <2>1. 0 .. W32 - 1 \in SUBSET Int /\ "uint32" \in Numbers
    BY DEF Numbers
  <2>2. p.type = "uint32" /\ p.n \in 0 .. W32 - 1 /\ p.n \in Int /\ p = Number("uint32", p.n)
    BY <1>3, <1>10, <2>1
  <2> QED BY <2>1, <2>2
<1>11. CASE p \in IntegersOf("int64", Signed(W64))
  BY <1>2, <1>3, <1>11 DEF Numbers
<1>12. CASE p \in IntegersOf("uint64", 0 .. W64 - 1)
  <2>1. 0 .. W64 - 1 \in SUBSET Int /\ "uint64" \in Numbers
    BY DEF Numbers
  <2>2. p.type = "uint64" /\ p.n \in 0 .. W64 - 1 /\ p.n \in Int /\ p = Number("uint64", p.n)
    BY <1>3, <1>12, <2>1
  <2> QED BY <2>1, <2>2
<1> QED BY <1>1, <1>7, <1>8, <1>9, <1>10, <1>11, <1>12

LEMMA ResultTypes ==
  ASSUME NEW r \in Results
  PROVE  /\ r.type = "int64" => r.n \in Signed(W64) /\ r = Number("int64", r.n)
         /\ r.type = "bytes" => /\ r.len \in 0 .. W32 \div 2 - 1 /\ r.data \in Contents
                                /\ r = Bytes(r.len, r.data)
<1>1. \/ r \in IntegersOf("int32", Signed(W32))
      \/ r \in IntegersOf("int64", Signed(W64))
      \/ r \in Arrays(0 .. W32 \div 2 - 1)
  BY ConstantsAssumption
<1>2. r \in IntegersOf("int32", Signed(W32)) => r.type = "int32"
  BY DEF IntegersOf
<1>3. r \in IntegersOf("int64", Signed(W64)) =>
        r.type = "int64" /\ r.n \in Signed(W64) /\ r = Number("int64", r.n)
  BY DEF IntegersOf, Number
<1>4. r \in Arrays(0 .. W32 \div 2 - 1) =>
        r.type = "bytes" /\ r.len \in 0 .. W32 \div 2 - 1 /\ r.data \in Contents
          /\ r = Bytes(r.len, r.data)
  BY DEF Arrays, Bytes
<1> QED BY <1>1, <1>2, <1>3, <1>4

(* The conversion of an integer, one i32 or two halves. *)
LEMMA NumberArrives ==
  ASSUME NEW p \in Params, p.type \in Numbers, NEW H
  PROVE  /\ Width(p) = 1 => \A y : Arrives(p, I32(p.n), y, H)
         /\ Width(p) = 2 => Arrives(p, Halves(p.n)[1], Halves(p.n)[2], H)
<1>1. p.n \in Int
  BY ParamTypes
<1>2. W32 \in Nat /\ W32 > 0 /\ p.n \div W32 \in Int
  BY <1>1, Widths, Division
<1>3. p.type = "int32" => I32(p.n) = p.n
  BY <1>1, ParamTypes, Int32Value
<1>4. p.type = "uint32" => U32(I32(p.n)) = p.n
  BY <1>1, ParamTypes, Int32Value
<1>5. Halves(p.n)[1] = I32(p.n) /\ Halves(p.n)[2] = I32(p.n \div W32)
  BY DEF Halves
<1>6. U32(I32(p.n)) + W32 * U32(I32(p.n \div W32)) = p.n % W64
  BY <1>1, <1>2, Int32Value, TwoHalves DEF U32
<1>7. p.type = "int64" => I64(p.n % W64) = p.n
  BY <1>1, ParamTypes, Int64Value
<1>8. p.type = "uint64" => p.n % W64 = p.n
  <2>1. W64 \in Nat /\ (p.type = "uint64" => p.n \in 0 .. W64 - 1)
    BY ParamTypes, Widths
  <2> QED BY <2>1
<1> QED
  BY <1>3, <1>4, <1>5, <1>6, <1>7, <1>8 DEF Arrives, Width, Numbers

(* An i32 parameter takes one value, and the next is none of its business. *)
LEMMA ArrivesAlone ==
  ASSUME NEW p, NEW x, NEW y, NEW z, NEW H, Width(p) = 1, Arrives(p, x, y, H)
  PROVE  Arrives(p, x, z, H)
BY DEF Arrives, Width

(* 64 bits in memory. *)
LEMMA NumStored ==
  ASSUME low \in [Mods -> [Cells -> 0 .. Byte - 1]],
         NEW m \in Mods, NEW c \in {0, 8}, NEW n \in Int, low' = Written(m, Stored(c, n))
  PROVE  low' \in [Mods -> [Cells -> 0 .. Byte - 1]] /\ Num(m, c)' = I64(n)
<1> DEFINE f == Stored(c, n)
           g == FourBytes(n)
           h == FourBytes(n \div W32)
<1>0. c \in Int /\ c >= 0 /\ c + 7 <= 15
  OBVIOUS
<1>1. W32 \in Nat /\ W32 > 0 /\ n \div W32 \in Int
  BY Widths, Division
<1>2. \A x \in c .. c + 3 : f[x] = g[x - c + 1]
  BY DEF Stored
<1>3. \A x \in c + 4 .. c + 7 : f[x] = h[x - c - 3]
  BY DEF Stored
<1>4. DOMAIN f = c .. c + 7 /\ c .. c + 7 \subseteq Cells
  BY <1>0 DEF Stored, Cells
<1>5. \A x \in Cells : low'[m][x] = IF x \in c .. c + 7 THEN f[x] ELSE low[m][x]
  BY <1>4 DEF Written
<1> HIDE DEF f, g, h
<1>6. /\ low'[m][c] = g[1] /\ low'[m][c + 1] = g[2]
      /\ low'[m][c + 2] = g[3] /\ low'[m][c + 3] = g[4]
  <2>1. \A i \in 0 .. 3 : low'[m][c + i] = g[i + 1]
    <3> TAKE i \in 0 .. 3
    <3>1. c + i \in c .. c + 3 /\ (c + i) - c + 1 = i + 1
      BY <1>0
    <3>2. c + i \in Cells /\ c + i \in c .. c + 7
      BY <1>0 DEF Cells
    <3> QED BY <1>2, <1>5, <3>1, <3>2
  <2> QED BY <1>0, <2>1
<1>7. /\ low'[m][c + 4] = h[1] /\ low'[m][(c + 4) + 1] = h[2]
      /\ low'[m][(c + 4) + 2] = h[3] /\ low'[m][(c + 4) + 3] = h[4]
  <2>1. \A i \in 0 .. 3 : low'[m][c + 4 + i] = h[i + 1]
    <3> TAKE i \in 0 .. 3
    <3>1. c + 4 + i \in c + 4 .. c + 7 /\ (c + 4 + i) - c - 3 = i + 1
      BY <1>0
    <3>2. c + 4 + i \in Cells /\ c + 4 + i \in c .. c + 7
      BY <1>0 DEF Cells
    <3> QED BY <1>3, <1>5, <3>1, <3>2
  <2> QED BY <1>0, <2>1
<1>8. Word(low'[m], c) = n % W32 /\ \A i \in 1 .. 4 : g[i] \in 0 .. Byte - 1
  BY <1>6, FourBytesValue DEF g
<1>9. Word(low'[m], c + 4) = (n \div W32) % W32 /\ \A i \in 1 .. 4 : h[i] \in 0 .. Byte - 1
  BY <1>1, <1>7, FourBytesValue DEF h
<1>10. Num(m, c)' = I64(n)
  BY <1>8, <1>9, TwoHalves, Int64Value DEF Num
<1>11. \A x \in Cells : low'[m][x] \in 0 .. Byte - 1
  <2> SUFFICES ASSUME NEW x \in Cells PROVE low'[m][x] \in 0 .. Byte - 1
    OBVIOUS
  <2>1. CASE x \in c .. c + 3
    <3>1. x - c + 1 \in 1 .. 4 /\ x \in c .. c + 7
      BY <1>0, <2>1
    <3> QED BY <1>2, <1>5, <1>8, <2>1, <3>1
  <2>2. CASE x \in c + 4 .. c + 7
    <3>1. x - c - 3 \in 1 .. 4 /\ x \in c .. c + 7
      BY <1>0, <2>2
    <3> QED BY <1>3, <1>5, <1>9, <2>2, <3>1
  <2>3. CASE x \notin c .. c + 7
    BY <1>5, <2>3
  <2> QED BY <1>0, <2>1, <2>2, <2>3
<1>12. low' \in [Mods -> [Cells -> 0 .. Byte - 1]]
  <2>1. low' = [low EXCEPT ![m] = low'[m]]
    BY DEF Written
  <2>2. low'[m] \in [Cells -> 0 .. Byte - 1]
    <3>1. low'[m] = [x \in Cells |-> low'[m][x]]
      BY DEF Written
    <3> QED BY <1>11, <3>1
  <2> QED BY <2>1, <2>2
<1> QED BY <1>10, <1>12

---------------------------------------------------------------------------
(* The parameters converted so far. *)

LEMMA ResultAddressType ==
  ASSUME NEW ret
  PROVE  /\ ResultAddress(ret) \in Seq(Int) /\ Cut(ResultAddress(ret))
         /\ ret = "array" => Len(ResultAddress(ret)) = 1 /\ ResultAddress(ret)[1] = 8
         /\ ret = "i64" => Len(ResultAddress(ret)) = 1 /\ ResultAddress(ret)[1] = 0
<1>1. I32(0) = 0 /\ I32(8) = 8
  <2>1. 0 \in Signed(W32) /\ 8 \in Signed(W32)
    BY Widths DEF Signed
  <2> QED BY <2>1, Int32Value
<1>2. ResultAddress(ret) \in {<<8>>, <<0>>, <<>>}
  BY DEF ResultAddress
<1> QED BY <1>1, <1>2 DEF ResultAddress, Cut

(* They stay as they are when more values follow and their blocks stay. *)
LEMMA ParsedKept ==
  ASSUME NEW c, NEW d, NEW H, NEW J, NEW at, NEW k \in Nat, NEW end \in Nat,
         Parsed(c, H, at, k, end), d.ret = c.ret,
         \A i \in 1 .. k : d.params[i] = c.params[i],
         \A j \in 1 .. end - 1 : d.cvals[j] = c.cvals[j],
         \A i \in 1 .. k : c.params[i].type = "bytes" =>
           /\ Block(U32(c.cvals[at[i]]), c.params[i].len, c.params[i].data) \in J
           /\ d.pc = "set" => U32(c.cvals[at[i]]) # U32(d.cvals[Len(d.cvals) - 1])
  PROVE  Parsed(d, J, at, k, end)
<1> SUFFICES ASSUME NEW i \in 1 .. k
             PROVE  /\ Arrives(d.params[i], d.cvals[at[i]], d.cvals[at[i] + 1], J)
                    /\ d.pc = "set" /\ d.params[i].type = "bytes"
                         => U32(d.cvals[at[i]]) # U32(d.cvals[Len(d.cvals) - 1])
  BY DEF Parsed
<1>1. /\ at[i] \in 1 .. end /\ at[i + 1] \in 1 .. end
      /\ at[i + 1] = at[i] + Width(c.params[i])
      /\ Arrives(c.params[i], c.cvals[at[i]], c.cvals[at[i] + 1], H)
  BY DEF Parsed
<1>2. Width(c.params[i]) = 1 \/ Width(c.params[i]) = 2
  BY DEF Width
<1>3. d.cvals[at[i]] = c.cvals[at[i]]
  BY <1>1, <1>2
<1>4. Width(c.params[i]) = 2 => d.cvals[at[i] + 1] = c.cvals[at[i] + 1]
  BY <1>1
<1>5. Arrives(c.params[i], d.cvals[at[i]], d.cvals[at[i] + 1], H)
  BY <1>1, <1>2, <1>3, <1>4, ArrivesAlone
<1>6. Arrives(d.params[i], d.cvals[at[i]], d.cvals[at[i] + 1], J)
  BY <1>3, <1>5 DEF Arrives
<1> QED BY <1>3, <1>6

(* One more has been converted. *)
LEMMA ParsedMore ==
  ASSUME NEW c, NEW H, NEW at, NEW k \in Nat, NEW end \in Nat,
         Parsed(c, H, at, k, end), c.pc # "set",
         Arrives(c.params[k + 1], c.cvals[end], c.cvals[end + 1], H)
  PROVE  \E bt : Parsed(c, H, bt, k + 1, end + Width(c.params[k + 1]))
<1> DEFINE w == Width(c.params[k + 1])
           bt == [i \in 1 .. k + 2 |-> IF i <= k + 1 THEN at[i] ELSE end + w]
<1>1. w = 1 \/ w = 2
  BY DEF Width
<1>2. /\ at \in [1 .. k + 1 -> 1 .. end] /\ at[k + 1] = end
      /\ at[1] = Len(ResultAddress(c.ret)) + 1
  BY DEF Parsed
<1>3. bt \in [1 .. k + 2 -> 1 .. end + w]
  BY <1>1, <1>2
<1>4. \A i \in 1 .. k + 1 : bt[i] = at[i]
  BY <1>2
<1>5. bt[k + 2] = end + w
  OBVIOUS
<1> HIDE DEF bt
<1>6. \A i \in 1 .. k + 1 :
        /\ bt[i + 1] = bt[i] + Width(c.params[i])
        /\ Arrives(c.params[i], c.cvals[bt[i]], c.cvals[bt[i] + 1], H)
  <2> SUFFICES ASSUME NEW i \in 1 .. k + 1
               PROVE  /\ bt[i + 1] = bt[i] + Width(c.params[i])
                      /\ Arrives(c.params[i], c.cvals[bt[i]], c.cvals[bt[i] + 1], H)
    OBVIOUS
  <2>1. CASE i \in 1 .. k
    <3>1. bt[i] = at[i] /\ bt[i + 1] = at[i + 1]
      BY <1>4, <2>1
    <3> QED BY <2>1, <3>1 DEF Parsed
  <2>2. CASE i = k + 1
    BY <1>2, <1>4, <1>5, <2>2
  <2> QED BY <2>1, <2>2
<1>7. bt[1] = Len(ResultAddress(c.ret)) + 1
  BY <1>2, <1>4
<1>8. (k + 1) + 1 = k + 2
  OBVIOUS
<1>9. Parsed(c, H, bt, k + 1, end + w)
  BY <1>3, <1>5, <1>6, <1>7, <1>8 DEF Parsed
<1> QED BY <1>9

(* The next parameter is the first of those that are left. *)
LEMMA NextParam ==
  ASSUME NEW c \in Calls, c.pc \in {"convert", "set"}, NEW H, ConvertOK(c, H), c.args # <<>>
  PROVE  /\ Converted(c) \in Nat /\ Converted(c) < Len(c.params)
         /\ Head(c.args) = c.params[Converted(c) + 1] /\ Head(c.args) \in Params
         /\ Tail(c.args) \in Seq(Params) /\ Len(Tail(c.args)) = Len(c.args) - 1
         /\ \A j \in 1 .. Len(c.args) - 1 :
              Tail(c.args)[j] = c.params[Converted(c) + 1 + j]
<1>1. /\ c.args \in Seq(Params) /\ c.params \in Seq(Params)
      /\ Len(c.args) \in Nat /\ Len(c.params) \in Nat /\ Len(c.args) > 0
  BY DEF Calls
<1>2. /\ Len(c.args) <= Len(c.params)
      /\ \A j \in 1 .. Len(c.args) : c.args[j] = c.params[Converted(c) + j]
  BY DEF ConvertOK
<1>3. Converted(c) \in Nat /\ Converted(c) < Len(c.params)
  <2>1. PICK x \in Nat, y \in Nat : x = Len(c.params) /\ y = Len(c.args) /\ y <= x /\ y > 0
    BY <1>1, <1>2
  <2>2. Converted(c) = x - y
    BY <2>1 DEF Converted
  <2>3. y <= x /\ y > 0
    BY <2>1
  <2>4. x - y \in Nat /\ x - y < x
    BY <2>3
  <2> QED BY <2>1, <2>2, <2>4
<1>4. Head(c.args) = c.args[1] /\ Head(c.args) \in Params
  BY <1>1
<1>5. /\ Tail(c.args) \in Seq(Params) /\ Len(Tail(c.args)) = Len(c.args) - 1
      /\ \A j \in 1 .. Len(c.args) - 1 : Tail(c.args)[j] = c.args[j + 1]
  BY <1>1
<1>6. \A j \in 1 .. Len(c.args) - 1 : Tail(c.args)[j] = c.params[Converted(c) + 1 + j]
  <2> SUFFICES ASSUME NEW j \in 1 .. Len(c.args) - 1
               PROVE  Tail(c.args)[j] = c.params[Converted(c) + 1 + j]
    OBVIOUS
  <2>1. c.args[j + 1] = c.params[Converted(c) + (j + 1)]
    BY <1>1, <1>2
  <2>2. Converted(c) + (j + 1) = Converted(c) + 1 + j
    BY <1>3
  <2> QED BY <1>5, <2>1, <2>2
<1>7. c.args[1] = c.params[Converted(c) + 1]
  BY <1>1, <1>2
<1> QED BY <1>3, <1>4, <1>5, <1>6, <1>7

---------------------------------------------------------------------------
(* The actions. *)

Ends == {"ok", "error", "panic"}

(* Blocks that were there when the call began are still there. *)
LEMMA BeforeStays ==
  ASSUME IInv, call.pc \in {"convert", "set", "executed", "free"}
  PROVE  call.before \subseteq heap[call.mod]
<1>1. call.ret \in Returns
  BY DEF IInv, TypeInv, Calls
<1>2. CASE call.pc \in {"convert", "set"}
  BY <1>2 DEF IInv, ConvertOK
<1>3. CASE call.pc = "free"
  BY <1>3 DEF IInv, ReturnOK
<1>4. CASE call.pc = "executed"
  BY <1>1, <1>4 DEF IInv, ReturnOK, MadeOK, Returns
<1> QED BY <1>2, <1>3, <1>4

(* Without a call there is nothing to say. *)
LEMMA IdleOK ==
  ASSUME NEW H, NEW x, NEW y
  PROVE  Idle \in Calls /\ Cut(Idle.cvals) /\ ConvertOK(Idle, H) /\ ReturnOK(Idle, H, x, y)
<1>1. Idle \in Calls
  BY DEF Idle, Calls, Mods, Returns
<1> QED BY <1>1 DEF Idle, Cut, ConvertOK, ReturnOK

(* The end of a call, on any way. *)
LEMMA EndKeeps ==
  ASSUME IInv, NEW how \in Ends, NEW result \in Results \cup {NoResult},
         End(how, result), UNCHANGED low,
         heap' \in [Mods -> SUBSET Blocks], \A m \in Mods : Apart(heap'[m]),
         IF how = "ok" THEN result = call.made /\ heap'[call.mod] = call.before
         ELSE call.before \subseteq heap'[call.mod]
  PROVE  IInv'
<1>1. call' = [call EXCEPT !.pc = how, !.got = result, !.args = <<>>, !.params = <<>>,
                           !.cvals = <<>>]
  BY DEF End
<1>2. call \in Calls
  BY DEF IInv, TypeInv
<1>3. /\ call'.pc = how /\ call'.got = result /\ call'.mod = call.mod /\ call'.cvals = <<>>
      /\ call'.made = call.made /\ call'.before = call.before
  BY <1>1, <1>2 DEF Calls
<1>4. call' \in Calls
  <2>1. how \in {"idle", "convert", "set", "executed", "free", "ok", "error", "panic"}
    BY DEF Ends
  <2>2. <<>> \in Seq(Params) /\ <<>> \in Seq(Int)
    OBVIOUS
  <2> QED BY <1>1, <1>2, <2>1, <2>2 DEF Calls
<1>5. TypeInv'
  BY <1>3, <1>4 DEF IInv, TypeInv, Cut
<1>6. ConvertOK(call', heap'[call'.mod])
  BY <1>3 DEF ConvertOK, Ends
<1>7. ReturnOK(call', heap'[call'.mod], Num(call.mod, 0)', Num(call.mod, 8)')
  BY <1>3 DEF ReturnOK, Ends
<1> QED BY <1>5, <1>6, <1>7 DEF IInv

LEMMA FailKeeps ==
  ASSUME IInv, call.pc \in {"convert", "set", "executed", "free"},
         NEW how \in {"error", "panic"}, End(how, NoResult), UNCHANGED <<low, heap>>
  PROVE  IInv'
<1>1. call.mod \in Mods
  BY DEF IInv, TypeInv, Calls
<1>2. heap' \in [Mods -> SUBSET Blocks] /\ \A m \in Mods : Apart(heap'[m])
  BY DEF IInv, TypeInv
<1>3. call.before \subseteq heap'[call.mod]
  BY BeforeStays
<1> QED BY <1>1, <1>2, <1>3, EndKeeps DEF Ends

LEMMA InitKeeps == Init => IInv
<1> SUFFICES ASSUME Init PROVE IInv
  OBVIOUS
<1>1. call = Idle
  BY DEF Init
<1>2. low \in [Mods -> [Cells -> 0 .. Byte - 1]]
  BY Widths DEF Init
<1>3. heap \in [Mods -> SUBSET Blocks] /\ \A m \in Mods : Apart(heap[m])
  BY DEF Init, Apart
<1> QED BY <1>1, <1>2, <1>3, IdleOK DEF IInv, TypeInv

LEMMA BeginKeeps ==
  ASSUME IInv, NEW m \in Mods, NEW ret \in Returns, NEW n \in 0 .. MaxParams,
         NEW params \in [1 .. n -> Params], Begin(m, ret, params)
  PROVE  IInv'
<1> DEFINE ra == ResultAddress(ret)
<1>1. ra \in Seq(Int) /\ Cut(ra)
  BY ResultAddressType
<1>2. n \in Nat /\ params \in Seq(Params) /\ Len(params) = n
  BY ConstantsAssumption
<1>3. call' = [Idle EXCEPT !.pc = "convert", !.mod = m, !.ret = ret, !.args = params,
                           !.params = params, !.cvals = ra, !.before = heap[m]]
  BY DEF Begin
<1> HIDE DEF ra
<1>4. Idle \in Calls /\ heap[m] \in SUBSET Blocks
  BY IdleOK DEF IInv, TypeInv
<1>5. /\ call'.pc = "convert" /\ call'.mod = m /\ call'.ret = ret /\ call'.args = params
      /\ call'.params = params /\ call'.cvals = ra /\ call'.before = heap[m]
  BY <1>3, <1>4 DEF Calls
<1>6. call' \in Calls
  BY <1>1, <1>2, <1>3, <1>4 DEF Calls
<1>7. TypeInv'
  BY <1>1, <1>5, <1>6 DEF IInv, TypeInv, Begin
<1>8. Len(ra) \in Nat /\ Converted(call') = 0
  BY <1>1, <1>2, <1>5 DEF Converted
<1>9. Parsed(call', heap'[m], [i \in 1 .. 1 |-> Len(ra) + 1], 0, Len(ra) + 1)
  BY <1>5, <1>8 DEF Parsed, ra
<1>10. ConvertOK(call', heap'[m])
  <2>1. \A j \in 1 .. Len(call'.args) : call'.args[j] = call'.params[Converted(call') + j]
    BY <1>2, <1>5, <1>8
  <2>2. \E at : Parsed(call', heap'[m], at, Converted(call'), Len(call'.cvals) + 1)
    BY <1>5, <1>8, <1>9
  <2>3. /\ Len(call'.args) <= Len(call'.params)
        /\ Len(call'.cvals) >= Len(ra) /\ \A j \in 1 .. Len(ra) : call'.cvals[j] = ra[j]
        /\ call'.before \subseteq heap'[m]
    BY <1>2, <1>5, <1>8 DEF Begin
  <2> QED BY <1>5, <2>1, <2>2, <2>3 DEF ConvertOK, ra
<1>11. ReturnOK(call', heap'[m], Num(call.mod, 0)', Num(call.mod, 8)')
  BY <1>5 DEF ReturnOK
<1> QED BY <1>5, <1>7, <1>10, <1>11 DEF IInv

LEMMA Appended ==
  ASSUME NEW s \in Seq(Int), NEW vs \in Seq(Int), Cut(s), Cut(vs)
  PROVE  /\ s \o vs \in Seq(Int) /\ Len(s \o vs) = Len(s) + Len(vs) /\ Cut(s \o vs)
         /\ \A j \in 1 .. Len(s) : (s \o vs)[j] = s[j]
         /\ \A j \in 1 .. Len(vs) : (s \o vs)[Len(s) + j] = vs[j]
<1>1. s \o vs \in Seq(Int) /\ Len(s \o vs) = Len(s) + Len(vs) /\ Len(s) \in Nat /\ Len(vs) \in Nat
  OBVIOUS
<1>2. \A j \in 1 .. Len(s) : (s \o vs)[j] = s[j]
  OBVIOUS
<1>3. \A j \in 1 .. Len(vs) : (s \o vs)[Len(s) + j] = vs[j]
  OBVIOUS
<1>4. \A j \in DOMAIN (s \o vs) : (s \o vs)[j] = I32((s \o vs)[j])
  <2> TAKE j \in DOMAIN (s \o vs)
  <2>1. j \in 1 .. Len(s) + Len(vs)
    BY <1>1
  <2>2. CASE j <= Len(s)
    <3>1. j \in 1 .. Len(s) /\ j \in DOMAIN s
      BY <1>1, <2>1, <2>2
    <3> QED BY <1>2, <3>1 DEF Cut
  <2>3. CASE j > Len(s)
    <3>1. j - Len(s) \in 1 .. Len(vs) /\ j - Len(s) \in DOMAIN vs /\ Len(s) + (j - Len(s)) = j
      BY <1>1, <2>1, <2>3
    <3>2. (s \o vs)[j] = vs[j - Len(s)]
      BY <1>3, <3>1
    <3> QED BY <3>1, <3>2 DEF Cut
  <2> QED BY <1>1, <2>1, <2>2, <2>3
<1> QED BY <1>1, <1>2, <1>3, <1>4 DEF Cut

(* In d, the values of the next parameter follow those of c, which are     *)
(* before end; the blocks J let it arrive, and have kept what there was,   *)
(* but for the block that SetBytes writes.                                 *)
Follows(c, d, H, J, end) ==
  /\ c.pc \in {"convert", "set"} /\ d.pc = "convert" /\ c.args # <<>>
  /\ c.before \subseteq J
  /\ d.ret = c.ret /\ d.params = c.params /\ d.before = c.before /\ d.args = Tail(c.args)
  /\ end = IF c.pc = "convert" THEN Len(c.cvals) + 1 ELSE Len(c.cvals) - 1
  /\ Len(d.cvals) + 1 = end + Width(Head(c.args))
  /\ Len(d.cvals) >= Len(c.cvals)
  /\ \A j \in 1 .. Len(c.cvals) : d.cvals[j] = c.cvals[j]
  /\ Arrives(Head(c.args), d.cvals[end], d.cvals[end + 1], J)
  /\ \A a, len, data : Block(a, len, data) \in H =>
       \/ Block(a, len, data) \in J
       \/ c.pc = "set" /\ a = U32(c.cvals[Len(c.cvals) - 1])

LEMMA LenType == ASSUME NEW S, NEW s \in Seq(S) PROVE Len(s) \in Nat
OBVIOUS

LEMMA NextArrives ==
  ASSUME NEW c \in Calls, NEW d \in Calls, NEW H, NEW J, NEW end \in Nat \ {0},
         ConvertOK(c, H), Follows(c, d, H, J, end)
  PROVE  ConvertOK(d, J)
<1> USE DEF Follows
<1> DEFINE k == Converted(c)
           ra == ResultAddress(c.ret)
<1>1. /\ k \in Nat /\ k < Len(c.params)
      /\ Head(c.args) = c.params[k + 1] /\ Head(c.args) \in Params
      /\ Tail(c.args) \in Seq(Params) /\ Len(Tail(c.args)) = Len(c.args) - 1
      /\ \A j \in 1 .. Len(c.args) - 1 : Tail(c.args)[j] = c.params[k + 1 + j]
  BY NextParam
<1>2. /\ Len(c.cvals) \in Nat /\ Len(d.cvals) \in Nat
      /\ Len(c.args) \in Nat /\ Len(c.params) \in Nat /\ Len(ra) \in Nat
  <2>1. /\ c.cvals \in Seq(Int) /\ d.cvals \in Seq(Int)
        /\ c.args \in Seq(Params) /\ c.params \in Seq(Params)
    BY DEF Calls
  <2>2. ra \in Seq(Int)
    BY ResultAddressType
  <2> QED BY <2>1, <2>2, LenType
<1>3. PICK at : Parsed(c, H, at, k, end)
  BY DEF ConvertOK
<1>4. Converted(d) = k + 1
  <2>1. Len(d.params) - Len(d.args) = (Len(c.params) - Len(c.args)) + 1
    <3>1. Len(d.params) = Len(c.params) /\ Len(d.args) = Len(c.args) - 1
      BY <1>1
    <3>2. PICK x \in Nat, y \in Nat : x = Len(c.params) /\ y = Len(c.args)
      BY <1>2
    <3>3. x - (y - 1) = (x - y) + 1
      OBVIOUS
    <3> QED BY <3>1, <3>2, <3>3
  <2> QED BY <2>1 DEF Converted
<1> HIDE DEF k
<1>5. Parsed(d, J, at, k, end)
  <2>1. \A i \in 1 .. k : c.params[i].type = "bytes" =>
          Block(U32(c.cvals[at[i]]), c.params[i].len, c.params[i].data) \in J
    BY <1>3 DEF Parsed, Arrives
  <2>2. \A j \in 1 .. end - 1 : d.cvals[j] = c.cvals[j]
    BY <1>2
  <2> QED BY <1>1, <1>3, <2>1, <2>2, ParsedKept
<1>6. \E bt : Parsed(d, J, bt, k + 1, Len(d.cvals) + 1)
  <2>1. \E bt : Parsed(d, J, bt, k + 1, end + Width(d.params[k + 1]))
    BY <1>1, <1>5, ParsedMore
  <2> QED BY <1>1, <2>1
<1>7. /\ Len(c.args) <= Len(c.params)
      /\ Len(c.cvals) >= Len(ra) /\ \A j \in 1 .. Len(ra) : c.cvals[j] = ra[j]
  BY DEF ConvertOK
<1>8. Len(d.cvals) >= Len(ra) /\ \A j \in 1 .. Len(ra) : d.cvals[j] = ra[j]
  BY <1>2, <1>7
<1>9. \A j \in 1 .. Len(d.args) : d.args[j] = d.params[(k + 1) + j]
  BY <1>1
<1>10. Len(d.args) <= Len(d.params)
  BY <1>1, <1>2, <1>7
<1> QED BY <1>4, <1>6, <1>8, <1>9, <1>10 DEF ConvertOK

LEMMA ConvertNumberKeeps ==
  ASSUME IInv, ConvertNumber
  PROVE  IInv'
<1> DEFINE p == Head(call.args)
           H == heap[call.mod]
           vs == IF Width(p) = 1 THEN <<I32(p.n)>> ELSE Halves(p.n)
<1>1. /\ call \in Calls /\ Cut(call.cvals) /\ ConvertOK(call, H)
      /\ call.pc = "convert" /\ call.args # <<>> /\ p.type \in Numbers
  BY DEF IInv, TypeInv, ConvertNumber
<1>2. call' = [call EXCEPT !.cvals = @ \o vs, !.args = Tail(@)] /\ UNCHANGED <<low, heap>>
  BY DEF ConvertNumber
<1>3. p \in Params /\ Tail(call.args) \in Seq(Params)
  BY <1>1, NextParam
<1>4. p.n \in Int /\ p.n \div W32 \in Int
  BY <1>1, <1>3, ParamTypes, Widths, Division
<1>5. vs \in Seq(Int) /\ Len(vs) = Width(p) /\ Cut(vs)
  <2>1. I32(p.n) \in Int /\ I32(I32(p.n)) = I32(p.n)
    BY <1>4, Int32Value
  <2>2. I32(p.n \div W32) \in Int /\ I32(I32(p.n \div W32)) = I32(p.n \div W32)
    BY <1>4, Int32Value
  <2>3. CASE Width(p) = 1
    BY <2>1, <2>3 DEF Cut
  <2>4. CASE Width(p) # 1
    <3>1. Width(p) = 2 /\ vs = <<I32(p.n), I32(p.n \div W32)>>
      BY <2>4 DEF Width, Halves
    <3> HIDE DEF vs
    <3>2. vs \in Seq(Int) /\ Len(vs) = 2 /\ DOMAIN vs = 1 .. 2
      BY <2>1, <2>2, <3>1
    <3>3. vs[1] = I32(p.n) /\ vs[2] = I32(p.n \div W32)
      BY <3>1
    <3> QED BY <2>1, <2>2, <3>1, <3>2, <3>3 DEF Cut
  <2> QED BY <2>3, <2>4
<1>6. Arrives(p, vs[1], (call.cvals \o vs)[Len(call.cvals) + 2], H)
  <2>1. CASE Width(p) = 1
    BY <1>1, <1>3, <2>1, NumberArrives
  <2>2. CASE Width(p) # 1
    <3>1. Width(p) = 2 /\ vs = Halves(p.n)
      BY <2>2 DEF Width
    <3>2. (call.cvals \o vs)[Len(call.cvals) + 2] = vs[2]
      BY <1>1, <1>5, <3>1 DEF Calls
    <3> QED BY <1>1, <1>3, <3>1, <3>2, NumberArrives
  <2> QED BY <2>1, <2>2
<1> HIDE DEF vs, p
<1>7. /\ call'.pc = "convert" /\ call'.args = Tail(call.args) /\ call'.cvals = call.cvals \o vs
      /\ call'.mod = call.mod /\ call'.ret = call.ret /\ call'.params = call.params
      /\ call'.before = call.before
  BY <1>1, <1>2 DEF Calls
<1>8. call.cvals \in Seq(Int) /\ Len(call.cvals) \in Nat
  BY <1>1 DEF Calls
<1>9. /\ call'.cvals \in Seq(Int) /\ Cut(call'.cvals)
      /\ Len(call'.cvals) = Len(call.cvals) + Width(p)
      /\ \A j \in 1 .. Len(call.cvals) : call'.cvals[j] = call.cvals[j]
      /\ \A j \in 1 .. Len(vs) : call'.cvals[Len(call.cvals) + j] = vs[j]
  BY <1>1, <1>5, <1>7, <1>8, Appended
<1>10. call' \in Calls
  BY <1>1, <1>2, <1>3, <1>7, <1>9 DEF Calls
<1>11. Width(p) \in {1, 2}
  BY DEF Width
<1>12. ConvertOK(call', H)
  <2>1. call.before \subseteq H
    BY <1>1, BeforeStays
  <2>2. /\ Len(call'.cvals) + 1 = (Len(call.cvals) + 1) + Width(p)
        /\ Len(call'.cvals) >= Len(call.cvals)
    BY <1>8, <1>9, <1>11
  <2>3. Arrives(p, call'.cvals[Len(call.cvals) + 1], call'.cvals[(Len(call.cvals) + 1) + 1], H)
    <3>1. call'.cvals[Len(call.cvals) + 1] = vs[1]
      BY <1>5, <1>9, <1>11
    <3>2. (Len(call.cvals) + 1) + 1 = Len(call.cvals) + 2
      BY <1>8
    <3> QED BY <1>6, <1>7, <3>1, <3>2
  <2>4. Len(call.cvals) + 1 \in Nat /\ Len(call.cvals) + 1 >= 1
    BY <1>8
  <2>5. Follows(call, call', H, H, Len(call.cvals) + 1)
    <3> HIDE DEF H
    <3> QED BY <1>1, <1>7, <1>9, <2>1, <2>2, <2>3 DEF p, Follows
  <2> HIDE DEF H
  <2> QED BY <1>1, <1>10, <2>4, <2>5, NextArrives
<1>13. ReturnOK(call', heap'[call'.mod], Num(call.mod, 0)', Num(call.mod, 8)')
  BY <1>7 DEF ReturnOK
<1>14. TypeInv'
  BY <1>2, <1>9, <1>10 DEF IInv, TypeInv
<1> QED BY <1>2, <1>7, <1>12, <1>13, <1>14 DEF IInv

LEMMA BlockType ==
  ASSUME NEW a \in HeapAddrs, NEW len \in Nat, NEW data \in Contents \cup {"undefined"}
  PROVE  /\ Block(a, len, data) \in Blocks /\ Block(a, len, data).addr = a
         /\ Block(a, len, data).len = len /\ Block(a, len, data).data = data
BY DEF Block, Blocks

(* A block where there is room. *)
LEMMA FreeApart ==
  ASSUME NEW H, Apart(H), NEW x, \A b \in H :
           x.addr # b.addr /\ Cover(x.addr, x.len) \cap Cover(b.addr, b.len) = {}
  PROVE  Apart(H \cup {x}) /\ x \notin H
<1>1. x \notin H
  OBVIOUS
<1>2. \A b \in H : Cover(b.addr, b.len) \cap Cover(x.addr, x.len) = {}
  OBVIOUS
<1> QED BY <1>1, <1>2 DEF Apart

LEMMA MallocKeeps ==
  ASSUME IInv, Malloc
  PROVE  IInv'
<1> DEFINE p == Head(call.args)
           H == heap[call.mod]
           n == Len(call.cvals)
<1>1. /\ call \in Calls /\ Cut(call.cvals) /\ ConvertOK(call, H) /\ call.mod \in Mods
      /\ call.pc = "convert" /\ call.args # <<>> /\ p.type = "bytes"
  BY DEF IInv, TypeInv, Malloc, Calls
<1>2. PICK a \in FreeAt(call.mod, p.len) :
        /\ heap' = [heap EXCEPT ![call.mod] = @ \cup {Block(a, p.len, "undefined")}]
        /\ call' = [call EXCEPT !.pc = "set", !.cvals = @ \o <<I32(a), I32(p.len)>>]
  BY DEF Malloc
<1>3. UNCHANGED low
  BY DEF Malloc
<1>4. p \in Params /\ p.len \in 0 .. W32 - 1 /\ p.len \in Nat
  <2>1. p \in Params
    BY <1>1, NextParam
  <2>2. W32 \in Nat
    BY Widths
  <2> QED BY <1>1, <2>1, <2>2, ParamTypes
<1> DEFINE x == Block(a, p.len, "undefined")
           J == H \cup {x}
           vs == <<I32(a), I32(p.len)>>
<1>5. a \in HeapAddrs /\ a \in 0 .. W32 - 1 /\ a \in Int
  <2>1. a \in HeapAddrs
    BY <1>2 DEF FreeAt
  <2> QED BY <2>1, ConstantsAssumption
<1>6. x \in Blocks /\ x.addr = a /\ x.len = p.len
  <2> DEFINE len == p.len
  <2>1. a \in HeapAddrs /\ len \in Nat
    BY <1>4, <1>5
  <2>3. "undefined" \in Contents \cup {"undefined"}
    OBVIOUS
  <2> HIDE DEF len
  <2>2. /\ Block(a, len, "undefined") \in Blocks /\ Block(a, len, "undefined").addr = a
        /\ Block(a, len, "undefined").len = len
    BY <2>1, <2>3, BlockType
  <2> QED BY <2>2 DEF len
<1>7. \A b \in H : a # b.addr /\ Cover(a, p.len) \cap Cover(b.addr, b.len) = {}
  BY <1>2 DEF FreeAt
<1>8. vs \in Seq(Int) /\ Len(vs) = 2 /\ Cut(vs) /\ vs[1] = I32(a) /\ vs[2] = I32(p.len)
  <2>1. I32(a) \in Int /\ I32(I32(a)) = I32(a) /\ I32(p.len) \in Int /\ I32(I32(p.len)) = I32(p.len)
    BY <1>4, <1>5, Int32Value
  <2> QED BY <2>1 DEF Cut
<1> HIDE DEF p, x, vs
<1>9. /\ call'.pc = "set" /\ call'.args = call.args /\ call'.cvals = call.cvals \o vs
      /\ call'.mod = call.mod /\ call'.ret = call.ret /\ call'.params = call.params
      /\ call'.before = call.before
  BY <1>1, <1>2 DEF Calls, vs
<1>10. call.cvals \in Seq(Int) /\ n \in Nat
  BY <1>1 DEF Calls
<1>11. /\ call'.cvals \in Seq(Int) /\ Cut(call'.cvals) /\ Len(call'.cvals) = n + 2
       /\ \A j \in 1 .. n : call'.cvals[j] = call.cvals[j]
       /\ call'.cvals[n + 1] = I32(a) /\ call'.cvals[n + 2] = I32(p.len)
  <2>1. /\ call.cvals \o vs \in Seq(Int) /\ Len(call.cvals \o vs) = n + Len(vs)
        /\ Cut(call.cvals \o vs) /\ \A j \in 1 .. n : (call.cvals \o vs)[j] = call.cvals[j]
        /\ \A j \in 1 .. Len(vs) : (call.cvals \o vs)[n + j] = vs[j]
    BY <1>1, <1>8, <1>10, Appended
  <2>2. (call.cvals \o vs)[n + 1] = vs[1] /\ (call.cvals \o vs)[n + 2] = vs[2]
    <3>1. 1 \in 1 .. Len(vs) /\ 2 \in 1 .. Len(vs)
      BY <1>8
    <3> QED BY <2>1, <3>1
  <2> QED BY <1>8, <1>9, <2>1, <2>2
<1>12. call' \in Calls
  BY <1>1, <1>2, <1>9, <1>11 DEF Calls
<1>13. Apart(H) /\ H \in SUBSET Blocks
  BY <1>1 DEF IInv, TypeInv
<1>14. Apart(J) /\ x \notin H
  BY <1>6, <1>7, <1>13, FreeApart
<1>15. heap' = [heap EXCEPT ![call.mod] = J] /\ heap'[call.mod] = J
  BY <1>1, <1>2 DEF x, IInv, TypeInv
<1>16. heap' \in [Mods -> SUBSET Blocks] /\ \A m \in Mods : Apart(heap'[m])
  BY <1>1, <1>6, <1>13, <1>14, <1>15 DEF IInv, TypeInv
<1>17. TypeInv'
  BY <1>3, <1>11, <1>12, <1>16 DEF IInv, TypeInv
<1>18. ConvertOK(call', J)
  <2> DEFINE k == Converted(call)
             ra == ResultAddress(call.ret)
  <2>1. PICK at : Parsed(call, H, at, k, n + 1)
    BY <1>1 DEF ConvertOK
  <2>2. /\ Len(call.args) <= Len(call.params)
        /\ \A j \in 1 .. Len(call.args) : call.args[j] = call.params[k + j]
        /\ n >= Len(ra) /\ \A j \in 1 .. Len(ra) : call.cvals[j] = ra[j]
        /\ call.before \subseteq H
    BY <1>1 DEF ConvertOK
  <2>3. k \in Nat /\ Len(ra) \in Nat
    BY <1>1, NextParam, ResultAddressType, LenType
  <2>4. Converted(call') = k
    BY <1>9 DEF Converted
  <2>5. Len(call'.cvals) - 1 = n + 1 /\ (n + 1) - 1 = n /\ n + 1 \in Nat
    BY <1>10, <1>11
  <2>6. U32(call'.cvals[n + 1]) = a /\ U32(call'.cvals[n + 2]) = p.len
    <3>1. U32(I32(a)) = U32(a) /\ U32(a) = a
      BY <1>5, Int32Value
    <3>2. U32(I32(p.len)) = U32(p.len) /\ U32(p.len) = p.len
      BY <1>4, Int32Value
    <3> QED BY <1>11, <3>1, <3>2
  <2> HIDE DEF k, n, H, ra
  <2>7. Parsed(call', J, at, k, n + 1)
    <3>1. \A i \in 1 .. k : call.params[i].type = "bytes" =>
            Block(U32(call.cvals[at[i]]), call.params[i].len, call.params[i].data) \in H
      BY <2>1 DEF Parsed, Arrives
    <3>2. \A y, len, data : Block(y, len, data) \in H => y # a
      BY <1>7 DEF Block
    <3>3. \A i \in 1 .. k : call'.params[i] = call.params[i]
      BY <1>9
    <3>4. \A j \in 1 .. (n + 1) - 1 : call'.cvals[j] = call.cvals[j]
      BY <1>11, <2>5 DEF n
    <3> QED BY <1>9, <2>1, <2>3, <2>5, <2>6, <3>1, <3>2, <3>3, <3>4, ParsedKept
  <2>8. /\ call'.args # <<>> /\ Head(call'.args).type = "bytes" /\ Len(call'.cvals) >= 2
        /\ U32(call'.cvals[Len(call'.cvals)]) = Head(call'.args).len
        /\ x = Block(U32(call'.cvals[Len(call'.cvals) - 1]), Head(call'.args).len, "undefined")
    <3>1. Head(call'.args) = p /\ Len(call'.cvals) = n + 2 /\ n \in Nat
      BY <1>9, <1>10, <1>11 DEF p, n
    <3>2. Len(call'.cvals) - 1 = n + 1 /\ Len(call'.cvals) >= 2
      BY <3>1
    <3>3. call'.args # <<>> /\ Head(call'.args).type = "bytes"
      BY <1>1, <1>9, <3>1
    <3>4. /\ U32(call'.cvals[Len(call'.cvals)]) = p.len
          /\ U32(call'.cvals[Len(call'.cvals) - 1]) = a
      BY <2>6, <3>1, <3>2
    <3> QED BY <3>1, <3>2, <3>3, <3>4 DEF x
  <2>9. x \in J \ call.before
    BY <1>14, <2>2 DEF H
  <2>10. Len(call'.cvals) >= Len(ra) /\ \A j \in 1 .. Len(ra) : call'.cvals[j] = ra[j]
    <3>1. n \in Nat /\ Len(call'.cvals) = n + 2 /\ n >= Len(ra)
      BY <1>10, <1>11, <2>2
    <3>2. \A j \in 1 .. Len(ra) : j \in 1 .. n
      BY <2>3, <3>1
    <3>3. \A j \in 1 .. n : call'.cvals[j] = call.cvals[j]
      BY <1>11
    <3>4. \A j \in 1 .. Len(ra) : call'.cvals[j] = ra[j]
      BY <2>2, <3>2, <3>3
    <3> QED BY <2>3, <3>1, <3>4
  <2>11. /\ Len(call'.args) <= Len(call'.params) /\ call'.before \subseteq J
         /\ \A j \in 1 .. Len(call'.args) : call'.args[j] = call'.params[k + j]
    BY <1>9, <2>2
  <2> QED BY <1>9, <2>4, <2>5, <2>7, <2>8, <2>9, <2>10, <2>11 DEF ConvertOK, ra
<1>19. ReturnOK(call', heap'[call'.mod], Num(call.mod, 0)', Num(call.mod, 8)')
  BY <1>9 DEF ReturnOK
<1> QED BY <1>9, <1>15, <1>17, <1>18, <1>19 DEF IInv
LEMMA SetBytesKeeps ==
  ASSUME IInv, SetBytes
  PROVE  IInv'
<1> DEFINE p == Head(call.args)
           H == heap[call.mod]
           n == Len(call.cvals)
           a == U32(call.cvals[n - 1])
           W(b) == IF b.addr = a /\ b.len = p.len THEN Block(a, b.len, p.data) ELSE b
           J == {W(b) : b \in H}
           x == Block(a, p.len, "undefined")
           y == Block(a, p.len, p.data)
<1>1. /\ call \in Calls /\ Cut(call.cvals) /\ ConvertOK(call, H) /\ call.mod \in Mods
      /\ call.pc = "set" /\ H \in SUBSET Blocks /\ Apart(H)
      /\ heap \in [Mods -> SUBSET Blocks] /\ \A m \in Mods : Apart(heap[m])
  BY DEF IInv, TypeInv, SetBytes, Calls
<1>2. UNCHANGED low
  BY DEF SetBytes
<1>3. CASE call.mod \notin HasMemory
  <2>1. Panic /\ UNCHANGED heap
    BY <1>3 DEF SetBytes, MemoryOf
  <2> QED BY <1>1, <1>2, <2>1, FailKeeps DEF Panic
<1>4. CASE call.mod \in HasMemory
  <2>1. /\ heap' = [heap EXCEPT ![call.mod] = J]
        /\ call' = [call EXCEPT !.pc = "convert", !.args = Tail(@)]
    BY <1>1, <1>4 DEF SetBytes, MemoryOf
  <2>2. /\ call.args # <<>> /\ p.type = "bytes" /\ n >= 2 /\ U32(call.cvals[n]) = p.len
        /\ x \in H /\ x \notin call.before
    BY <1>1 DEF ConvertOK
  <2>3. n \in Nat /\ p \in Params /\ p.data \in Contents /\ Tail(call.args) \in Seq(Params)
    <3>1. call.cvals \in Seq(Int)
      BY <1>1 DEF Calls
    <3>2. p \in Params /\ Tail(call.args) \in Seq(Params)
      BY <1>1, <2>2, NextParam
    <3> QED BY <2>2, <3>1, <3>2, LenType, ParamTypes
  <2>4. x.addr = a /\ x.len = p.len /\ y.addr = a /\ y.len = p.len
    BY DEF Block
  <2>5. J = (H \ {x}) \cup {y}
    <3>1. W(x) = y
      BY <2>4
    <3>2. \A b \in H : b # x => W(b) = b
      BY <1>1, <2>2, <2>4 DEF Apart
    <3> HIDE DEF W, x, y, H
    <3> QED BY <2>2, <3>1, <3>2
  <2>6. y \in Blocks
    BY <1>1, <2>2, <2>3 DEF Block, Blocks
  <2> HIDE DEF J, x, y, H
  <2>7. Apart(J) /\ J \in SUBSET Blocks
    <3>1. Apart(H \ {x}) /\ H \in SUBSET Blocks
      BY <1>1 DEF Apart, H
    <3>2. \A b \in H \ {x} :
            y.addr # b.addr /\ Cover(y.addr, y.len) \cap Cover(b.addr, b.len) = {}
      BY <1>1, <2>2, <2>4 DEF Apart, H
    <3>3. Apart((H \ {x}) \cup {y})
      BY <3>1, <3>2, FreeApart
    <3> QED BY <2>5, <2>6, <3>1, <3>3
  <2>8. heap' \in [Mods -> SUBSET Blocks] /\ \A m \in Mods : Apart(heap'[m])
    BY <1>1, <2>1, <2>7
  <2>9. /\ call'.pc = "convert" /\ call'.args = Tail(call.args) /\ call'.cvals = call.cvals
        /\ call'.mod = call.mod /\ call'.ret = call.ret /\ call'.params = call.params
        /\ call'.before = call.before
    BY <1>1, <2>1 DEF Calls
  <2>10. call' \in Calls
    BY <1>1, <2>1, <2>3 DEF Calls
  <2>11. TypeInv'
    BY <1>1, <1>2, <2>8, <2>9, <2>10 DEF IInv, TypeInv
  <2>12. call.before \subseteq H
    BY <1>1, BeforeStays DEF H
  <2>13. Arrives(p, call.cvals[n - 1], call.cvals[(n - 1) + 1], J)
    <3>1. (n - 1) + 1 = n /\ y \in J
      BY <2>3, <2>5
    <3> QED BY <2>2, <3>1 DEF Arrives, y
  <2>14. \A u, len, data : Block(u, len, data) \in H => Block(u, len, data) \in J \/ u = a
    BY <2>4, <2>5 DEF Block
  <2>15. Follows(call, call', H, J, n - 1)
    <3>1. Len(call'.cvals) + 1 = (n - 1) + Width(p)
      <4>1. Width(p) = 2
        BY <2>2 DEF Width
      <4> QED BY <2>3, <2>9, <4>1
    <3>2. call.before \subseteq J
      BY <2>2, <2>5, <2>12
    <3> QED BY <1>1, <2>2, <2>3, <2>9, <2>13, <2>14, <3>1, <3>2 DEF Follows
  <2>16. ConvertOK(call', J)
    <3>1. n - 1 \in Nat \ {0}
      BY <2>2, <2>3
    <3> QED BY <1>1, <2>10, <2>15, <3>1, NextArrives DEF H
  <2>17. ReturnOK(call', heap'[call'.mod], Num(call.mod, 0)', Num(call.mod, 8)')
    BY <2>9 DEF ReturnOK
  <2> QED BY <1>1, <2>1, <2>9, <2>11, <2>16, <2>17 DEF IInv
<1> QED BY <1>3, <1>4

LEMMA ConvertFailKeeps ==
  ASSUME IInv, ConvertUnsupported \/ MallocFails
  PROVE  IInv'
BY FailKeeps DEF ConvertUnsupported, MallocFails, Panic

LEMMA ReturnFailKeeps ==
  ASSUME IInv, GetDataFails \/ FreeFails
  PROVE  IInv'
BY FailKeeps DEF GetDataFails, FreeFails, Panic
(* The address and the length of an array, as one number.                  *)
LEMMA ArrayNumber ==
  ASSUME NEW a \in 0 .. W32 - 1, NEW len \in 0 .. W32 \div 2 - 1
  PROVE  /\ a + W32 * len \in Int /\ I64(a + W32 * len) = a + W32 * len
         /\ U32(I32(a + W32 * len)) = a
         /\ I32((a + W32 * len) \div W32) = len /\ U32(len) = len
<1>1. PICK w \in Nat : w = W32 /\ w > 63 /\ W64 = w * w
  BY Widths DEF W64
<1> DEFINE h == w \div 2
           num == a + w * len
<1>2. h \in Nat /\ 2 * h <= w
  BY <1>1
<1>3. a \in Nat /\ a <= w - 1 /\ len \in Nat /\ len <= h - 1
  BY <1>1
<1> HIDE DEF h
<1>4. w * len \in Nat /\ w * len <= w * (h - 1) /\ w * (h - 1) = w * h - w /\ w * h \in Nat
  BY <1>1, <1>2, <1>3
<1>5. w * w \in Nat /\ 2 * (w * h) <= w * w
  <2>1. w * (2 * h) <= w * w /\ w * (2 * h) = 2 * (w * h)
    BY <1>1, <1>2
  <2> QED BY <1>1, <2>1
<1>6. num \in Nat /\ num <= w * h - 1
  BY <1>1, <1>3, <1>4
<1> HIDE DEF num
<1>7. num <= ((w * w) \div 2) - 1
  <2>1. PICK y \in Nat, z \in Nat : y = w * h /\ z = w * w
    BY <1>4, <1>5
  <2>2. 2 * y <= z /\ num <= y - 1
    BY <1>5, <1>6, <2>1
  <2>3. num <= (z \div 2) - 1
    BY <1>6, <2>2
  <2> QED BY <2>1, <2>3
<1>8. num \in Signed(W64)
  <2>1. PICK z \in Nat : z = w * w
    BY <1>5
  <2>2. num \in -(z \div 2) .. (z \div 2) - 1
    BY <1>6, <1>7, <2>1
  <2> QED BY <1>1, <2>1, <2>2 DEF Signed
<1>9. num \div w = len /\ num % w = a
  <2>1. (w * len + a) \div w = len /\ (w * len + a) % w = a
    BY <1>1, <1>3, DivisionUnique
  <2>2. num = w * len + a
    BY <1>3, <1>4 DEF num
  <2> QED BY <2>1, <2>2
<1>10. I64(num) = num
  BY <1>6, <1>8, Int64Value
<1>11. U32(I32(num)) = a
  <2>1. U32(I32(num)) = U32(num)
    BY <1>6, Int32Value
  <2> QED BY <1>1, <1>9, <2>1 DEF U32
<1>12. I32(len) = len /\ U32(len) = len
  <2>1. len \in Signed(W32) /\ len \in 0 .. W32 - 1
    BY <1>1, <1>2, <1>3 DEF Signed, h
  <2> QED BY <1>3, <2>1, Int32Value
<1>13. num = a + W32 * len
  BY <1>1 DEF num
<1> QED BY <1>1, <1>6, <1>9, <1>10, <1>11, <1>12, <1>13

(* The blocks of a module that is called change.                           *)
LEMMA HeapType ==
  ASSUME IInv, NEW J \in SUBSET Blocks, Apart(J), heap' = [heap EXCEPT ![call.mod] = J]
  PROVE  /\ heap' \in [Mods -> SUBSET Blocks] /\ \A m \in Mods : Apart(heap'[m])
         /\ heap'[call.mod] = J
<1>1. call.mod \in Mods /\ heap \in [Mods -> SUBSET Blocks] /\ \A m \in Mods : Apart(heap[m])
  BY DEF IInv, TypeInv, Calls
<1> QED BY <1>1

LEMMA ExecutedKeeps ==
  ASSUME IInv, NEW r \in Results \cup {NoResult}, Executed(r),
         low' \in [Mods -> [Cells -> 0 .. Byte - 1]],
         NEW J \in SUBSET Blocks, Apart(J), heap' = [heap EXCEPT ![call.mod] = J],
         NEW m \in Mods, m = call.mod,
         MadeOK(call.ret, r, call.before, J, Num(m, 0)', Num(m, 8)')
  PROVE  IInv'
<1>1. call \in Calls
  BY DEF IInv, TypeInv
<1>2. call' = [call EXCEPT !.pc = "executed", !.made = r, !.params = <<>>, !.cvals = <<>>]
  BY DEF Executed
<1>3. /\ call'.pc = "executed" /\ call'.made = r /\ call'.cvals = <<>>
      /\ call'.mod = m /\ call'.ret = call.ret /\ call'.before = call.before
  BY <1>1, <1>2 DEF Calls
<1>4. call' \in Calls
  <2>1. <<>> \in Seq(Params) /\ <<>> \in Seq(Int)
    OBVIOUS
  <2> QED BY <1>1, <1>2, <2>1 DEF Calls
<1>5. /\ heap' \in [Mods -> SUBSET Blocks] /\ \A i \in Mods : Apart(heap'[i])
      /\ heap'[m] = J
  BY HeapType
<1>6. TypeInv'
  BY <1>3, <1>4, <1>5 DEF TypeInv, Cut
<1>7. ConvertOK(call', heap'[call'.mod])
  BY <1>3 DEF ConvertOK
<1>8. Num(call.mod, 0)' = Num(m, 0)' /\ Num(call.mod, 8)' = Num(m, 8)'
  BY <1>3 DEF Num
<1>9. ReturnOK(call', heap'[call'.mod], Num(call.mod, 0)', Num(call.mod, 8)')
  BY <1>3, <1>5, <1>8 DEF ReturnOK
<1> QED BY <1>6, <1>7, <1>9 DEF IInv
LEMMA ExecuteKeeps ==
  ASSUME IInv, Execute
  PROVE  IInv'
<1>1. PICK m \in Mods : m = call.mod
  BY DEF IInv, TypeInv, Calls
<1> DEFINE H == heap[m]
           B == call.before
<1>2. /\ call \in Calls /\ ConvertOK(call, H) /\ call.pc = "convert"
      /\ low \in [Mods -> [Cells -> 0 .. Byte - 1]]
      /\ H \in SUBSET Blocks /\ Apart(H)
  BY <1>1 DEF IInv, TypeInv, Execute
<1>3. B \subseteq H
  BY <1>1, <1>2, BeforeStays
<1>4. H \ ArgBlocks = B
  BY <1>1, <1>3 DEF ArgBlocks
<1>5. B \in SUBSET Blocks /\ Apart(B)
  BY <1>2, <1>3 DEF Apart
<1>6. call.ret \in {"i64", "array"} => call.cvals[1] = IF call.ret = "i64" THEN 0 ELSE 8
  <2> DEFINE ra == ResultAddress(call.ret)
  <2>1. \A j \in 1 .. Len(ra) : call.cvals[j] = ra[j]
    BY <1>2 DEF ConvertOK
  <2>2. call.ret \in {"i64", "array"} =>
          Len(ra) = 1 /\ ra[1] = IF call.ret = "i64" THEN 0 ELSE 8
    BY ResultAddressType
  <2> HIDE DEF ra
  <2> QED BY <2>1, <2>2
<1>7. CASE /\ call.ret = "void"
           /\ heap' = [heap EXCEPT ![call.mod] = H \ ArgBlocks]
           /\ Executed(NoResult)
           /\ UNCHANGED low
  <2>1. MadeOK(call.ret, NoResult, B, B, Num(m, 0)', Num(m, 8)')
    BY <1>7 DEF MadeOK
  <2> HIDE DEF H, B
  <2> QED BY <1>1, <1>2, <1>4, <1>5, <1>7, <2>1, ExecutedKeeps DEF B
<1>8. ASSUME NEW r \in Results, call.ret = "i32",
             heap' = [heap EXCEPT ![call.mod] = H \ ArgBlocks],
             Executed(r), UNCHANGED low
      PROVE  IInv'
  <2>1. MadeOK(call.ret, r, B, B, Num(m, 0)', Num(m, 8)')
    BY <1>8 DEF MadeOK
  <2> HIDE DEF H, B
  <2> QED BY <1>1, <1>2, <1>4, <1>5, <1>8, <2>1, ExecutedKeeps DEF B
<1>9. ASSUME NEW r \in Results, call.ret = "i64", r.type = "int64",
             heap' = [heap EXCEPT ![call.mod] = H \ ArgBlocks],
             low' = Written(call.mod, Stored(call.cvals[1], r.n)), Executed(r)
      PROVE  IInv'
  <2>1. r.n \in Signed(W64) /\ r.n \in Int /\ r = Number("int64", r.n)
    BY <1>9, ResultTypes DEF Signed
  <2>2. low' = Written(m, Stored(0, r.n))
    BY <1>1, <1>6, <1>9
  <2>3. low' \in [Mods -> [Cells -> 0 .. Byte - 1]] /\ Num(m, 0)' = I64(r.n)
    BY <1>2, <2>1, <2>2, NumStored
  <2>4. I64(r.n) = r.n
    BY <2>1, Int64Value
  <2>5. MadeOK(call.ret, r, B, B, Num(m, 0)', Num(m, 8)')
    BY <1>9, <2>1, <2>3, <2>4 DEF MadeOK
  <2> HIDE DEF H, B
  <2> QED BY <1>1, <1>2, <1>4, <1>5, <1>9, <2>3, <2>5, ExecutedKeeps DEF B
<1>10. ASSUME NEW r \in Results, call.ret = "array", r.type = "bytes",
              NEW a \in FreeAt(m, r.len),
              heap' = [heap EXCEPT ![call.mod] = (H \ ArgBlocks) \cup {Block(a, r.len, r.data)}],
              low' = Written(call.mod, Stored(call.cvals[1], a + W32 * r.len)), Executed(r)
       PROVE  IInv'
  <2> DEFINE x == Block(a, r.len, r.data)
             num == a + W32 * r.len
             J == B \cup {x}
  <2>1. /\ r.len \in 0 .. W32 \div 2 - 1 /\ r.data \in Contents /\ r = Bytes(r.len, r.data)
        /\ r.len \in Nat /\ r.len < W32 \div 2
    BY <1>10, Widths, ResultTypes
  <2>2. a \in HeapAddrs /\ a \in 0 .. W32 - 1
    <3>1. a \in HeapAddrs
      BY <1>10 DEF FreeAt
    <3> QED BY <3>1, ConstantsAssumption
  <2>3. num \in Int /\ I64(num) = num
    BY <2>1, <2>2, ArrayNumber
  <2>4. x \in Blocks /\ x.addr = a /\ x.len = r.len /\ x.data = r.data
    BY <2>1, <2>2, BlockType
  <2> HIDE DEF num
  <2>5. low' = Written(m, Stored(8, num))
    BY <1>1, <1>6, <1>10 DEF num
  <2>6. low' \in [Mods -> [Cells -> 0 .. Byte - 1]] /\ Num(m, 8)' = num
    BY <1>2, <2>3, <2>5, NumStored
  <2>7. Apart(J) /\ x \notin B /\ J \in SUBSET Blocks
    <3>1. \A b \in H : a # b.addr /\ Cover(a, r.len) \cap Cover(b.addr, b.len) = {}
      BY <1>10 DEF FreeAt
    <3> HIDE DEF H, B, x
    <3>2. \A b \in B : x.addr # b.addr /\ Cover(x.addr, x.len) \cap Cover(b.addr, b.len) = {}
      BY <1>3, <2>4, <3>1
    <3> QED BY <1>5, <2>4, <3>2, FreeApart
  <2>8. MadeOK(call.ret, r, B, J, Num(m, 0)', Num(m, 8)')
    <3> HIDE DEF B, x
    <3> QED BY <1>10, <2>1, <2>4, <2>6, <2>7 DEF MadeOK, num
  <2>9. heap' = [heap EXCEPT ![call.mod] = J]
    BY <1>4, <1>10
  <2> HIDE DEF H, B, J
  <2> QED BY <1>1, <1>2, <1>10, <2>6, <2>7, <2>8, <2>9, ExecutedKeeps DEF B
<1> QED BY <1>1, <1>7, <1>8, <1>9, <1>10 DEF Execute

LEMMA ExecuteFailsKeeps ==
  ASSUME IInv, ExecuteFails
  PROVE  IInv'
<1> DEFINE H == heap[call.mod]
<1>1. PICK freed \in {{}, ArgBlocks} : heap' = [heap EXCEPT ![call.mod] = @ \ freed]
  BY DEF ExecuteFails
<1>2. End("error", NoResult) /\ UNCHANGED low /\ call.pc = "convert"
  BY DEF ExecuteFails
<1>3. call.mod \in Mods /\ H \in SUBSET Blocks /\ Apart(H) /\ heap \in [Mods -> SUBSET Blocks]
  BY DEF IInv, TypeInv, Calls
<1>4. H \ freed \in SUBSET Blocks /\ Apart(H \ freed)
  BY <1>3 DEF Apart
<1>5. call.before \subseteq H \ freed
  BY <1>2, BeforeStays DEF ArgBlocks
<1>6. heap' = [heap EXCEPT ![call.mod] = H \ freed]
  BY <1>1, <1>3
<1>7. /\ heap' \in [Mods -> SUBSET Blocks] /\ \A m \in Mods : Apart(heap'[m])
      /\ heap'[call.mod] = H \ freed
  BY <1>4, <1>6, HeapType
<1> QED BY <1>2, <1>5, <1>7, EndKeeps DEF Ends

LEMMA ReturnOnStackKeeps ==
  ASSUME IInv, ReturnOnStack
  PROVE  IInv'
<1>1. /\ call.pc = "executed" /\ call.ret \in {"void", "i32"} /\ UNCHANGED <<low, heap>>
      /\ End("ok", IF call.ret = "void" THEN NoResult ELSE call.made)
  BY DEF ReturnOnStack
<1>2. call \in Calls /\ heap \in [Mods -> SUBSET Blocks] /\ \A m \in Mods : Apart(heap[m])
  BY DEF IInv, TypeInv
<1>3. /\ heap[call.mod] = call.before
      /\ (IF call.ret = "void" THEN NoResult ELSE call.made) = call.made
  BY <1>1 DEF IInv, ReturnOK, MadeOK
<1>4. call.made \in Results \cup {NoResult} /\ End("ok", call.made)
  BY <1>1, <1>2, <1>3 DEF Calls
<1> QED BY <1>1, <1>2, <1>3, <1>4, EndKeeps DEF Ends

LEMMA ReturnI64Keeps ==
  ASSUME IInv, ReturnI64
  PROVE  IInv'
<1>1. call.pc = "executed" /\ call.ret = "i64" /\ UNCHANGED <<low, heap>>
  BY DEF ReturnI64
<1>2. call \in Calls /\ heap \in [Mods -> SUBSET Blocks] /\ \A m \in Mods : Apart(heap[m])
  BY DEF IInv, TypeInv
<1>3. CASE call.mod \notin HasMemory
  BY <1>1, <1>3, FailKeeps DEF ReturnI64, MemoryOf, Panic
<1>4. CASE call.mod \in HasMemory
  <2>1. heap[call.mod] = call.before /\ call.made = Number("int64", Num(call.mod, 0))
    BY <1>1 DEF IInv, ReturnOK, MadeOK
  <2>2. call.made \in Results \cup {NoResult} /\ End("ok", call.made)
    BY <1>2, <1>4, <2>1 DEF Calls, ReturnI64, MemoryOf
  <2> QED BY <1>1, <1>2, <2>1, <2>2, EndKeeps DEF Ends
<1> QED BY <1>3, <1>4
LEMMA ReturnArrayKeeps ==
  ASSUME IInv, ReturnArray
  PROVE  IInv'
<1> DEFINE H == heap[call.mod]
           num == Num(call.mod, 8)
           a == I32(num)
           len == I32(num \div W32)
<1>1. call.pc = "executed" /\ call.ret = "array" /\ UNCHANGED <<low, heap>>
  BY DEF ReturnArray
<1>2. /\ call \in Calls /\ call.mod \in Mods /\ H \in SUBSET Blocks /\ Apart(H)
      /\ MadeOK(call.ret, call.made, call.before, H, Num(call.mod, 0), num)
  BY <1>1 DEF IInv, TypeInv, ReturnOK, Calls
<1>3. CASE call.mod \notin HasMemory
  BY <1>1, <1>3, FailKeeps DEF ReturnArray, MemoryOf, Panic
<1>4. CASE call.mod \in HasMemory
  <2>1. call' = [call EXCEPT !.pc = "free", !.cvals = <<a, len>>,
                             !.got = Bytes(len, DataAt(call.mod, U32(a), U32(len)))]
    BY <1>4 DEF ReturnArray, MemoryOf, ArrayAddress, ArrayLength
  <2> HIDE DEF num
  <2>2. PICK b \in H : /\ b \notin call.before /\ H = call.before \cup {b}
                       /\ call.made = Bytes(b.len, b.data) /\ b.len < W32 \div 2
                       /\ num = b.addr + W32 * b.len
    BY <1>1, <1>2 DEF MadeOK
  <2>3. b.addr \in 0 .. W32 - 1 /\ b.len \in 0 .. W32 \div 2 - 1
    <3>1. b.addr \in HeapAddrs /\ b.len \in Nat
      BY <1>2, <2>2 DEF Blocks
    <3>2. b.addr \in 16 .. W32 - 1
      BY <3>1, ConstantsAssumption
    <3> QED BY <2>2, <3>1, <3>2, Widths
  <2>4. /\ num \in Int /\ U32(a) = b.addr /\ len = b.len /\ U32(len) = b.len
    BY <2>2, <2>3, ArrayNumber
  <2>5. /\ a \in Int /\ I32(a) = a /\ len \in Int /\ I32(len) = len
    <3>1. num \div W32 \in Int
      BY <2>4, Widths, Division
    <3> QED BY <2>4, <3>1, Int32Value
  <2> HIDE DEF a, len
  <2>6. \A c \in H : c.addr = b.addr /\ c.len = b.len <=> c = b
    BY <1>2, <2>2 DEF Apart
  <2>7. DataAt(call.mod, U32(a), U32(len)) = b.data
    <3>1. (CHOOSE c \in H : c.addr = b.addr /\ c.len = b.len) = b
      BY <2>2, <2>6
    <3> QED BY <2>2, <2>4, <3>1 DEF DataAt
  <2>8. call' = [call EXCEPT !.pc = "free", !.cvals = <<a, len>>, !.got = call.made]
    BY <2>1, <2>2, <2>4, <2>7
  <2>9. /\ call'.pc = "free" /\ call'.cvals = <<a, len>> /\ call'.got = call'.made
        /\ call'.mod = call.mod /\ call'.before = call.before /\ call'.made = call.made
    BY <1>2, <2>8 DEF Calls
  <2>10. <<a, len>> \in Seq(Int) /\ Cut(<<a, len>>)
    BY <2>5 DEF Cut
  <2>11. call' \in Calls
    BY <1>2, <2>8, <2>10 DEF Calls
  <2>12. TypeInv'
    BY <1>1, <2>9, <2>10, <2>11 DEF IInv, TypeInv
  <2>13. ConvertOK(call', heap'[call'.mod])
    BY <2>9 DEF ConvertOK
  <2>14. ReturnOK(call', heap'[call'.mod], Num(call.mod, 0)', Num(call.mod, 8)')
    <3>1. U32(call'.cvals[1]) = b.addr /\ U32(call'.cvals[2]) = b.len
      BY <2>4, <2>9
    <3>2. /\ b \in heap'[call'.mod] /\ b \notin call'.before
          /\ heap'[call'.mod] = call'.before \cup {b}
      BY <1>1, <2>2, <2>9
    <3> QED BY <2>9, <3>1, <3>2 DEF ReturnOK
  <2> QED BY <2>12, <2>13, <2>14 DEF IInv
<1> QED BY <1>3, <1>4

LEMMA FreeArrayKeeps ==
  ASSUME IInv, FreeArray
  PROVE  IInv'
<1> DEFINE H == heap[call.mod]
<1>1. call.pc = "free" /\ End("ok", call.got) /\ UNCHANGED low
  BY DEF FreeArray
<1>2. /\ call \in Calls /\ call.mod \in Mods /\ H \in SUBSET Blocks /\ Apart(H)
      /\ heap \in [Mods -> SUBSET Blocks]
  BY DEF IInv, TypeInv, Calls
<1>3. call.got = call.made /\ call.got \in Results \cup {NoResult}
  BY <1>1, <1>2 DEF IInv, ReturnOK, Calls
<1>4. PICK b \in H : /\ b \notin call.before /\ H = call.before \cup {b}
                     /\ U32(call.cvals[1]) = b.addr /\ U32(call.cvals[2]) = b.len
  BY <1>1 DEF IInv, ReturnOK
<1>5. heap' = [heap EXCEPT ![call.mod] = {c \in H : ~(c.addr = b.addr /\ c.len = b.len)}]
  BY <1>2, <1>4 DEF FreeArray, Freed
<1>6. \A c \in H : c.addr = b.addr /\ c.len = b.len <=> c = b
  BY <1>2, <1>4 DEF Apart
<1>7. {c \in H : ~(c.addr = b.addr /\ c.len = b.len)} = call.before
  BY <1>4, <1>6
<1>8. call.before \in SUBSET Blocks /\ Apart(call.before)
  BY <1>2, <1>4 DEF Apart
<1>9. /\ heap' \in [Mods -> SUBSET Blocks] /\ \A m \in Mods : Apart(heap'[m])
      /\ heap'[call.mod] = call.before
  BY <1>5, <1>7, <1>8, HeapType
<1> QED BY <1>1, <1>3, <1>9, EndKeeps DEF Ends

LEMMA DoneKeeps ==
  ASSUME IInv, Done
  PROVE  IInv'
<1>1. call' = Idle /\ UNCHANGED heap /\ low' = [low EXCEPT ![call.mod] = [c \in Cells |-> 0]]
  BY DEF Done
<1>2. low' \in [Mods -> [Cells -> 0 .. Byte - 1]]
  <2>1. 0 \in 0 .. Byte - 1
    BY Widths
  <2>2. low \in [Mods -> [Cells -> 0 .. Byte - 1]]
    BY DEF IInv, TypeInv
  <2> QED BY <1>1, <2>1, <2>2
<1>3. TypeInv'
  BY <1>1, <1>2, IdleOK DEF IInv, TypeInv
<1>4. call'.pc = "idle"
  BY <1>1 DEF Idle
<1>5. /\ ConvertOK(call', heap'[call'.mod])
      /\ ReturnOK(call', heap'[call'.mod], Num(call.mod, 0)', Num(call.mod, 8)')
  BY <1>4 DEF ConvertOK, ReturnOK
<1> QED BY <1>3, <1>5 DEF IInv

LEMMA CleanupKeeps ==
  ASSUME IInv, Cleanup
  PROVE  IInv'
<1>1. heap' = [m \in Mods |-> {}] /\ UNCHANGED <<low, call>> /\ call'.pc = "idle"
  BY DEF Cleanup
<1>2. heap' \in [Mods -> SUBSET Blocks] /\ \A m \in Mods : Apart(heap'[m])
  BY <1>1 DEF Apart
<1>3. TypeInv'
  BY <1>1, <1>2 DEF IInv, TypeInv
<1>4. /\ ConvertOK(call', heap'[call'.mod])
      /\ ReturnOK(call', heap'[call'.mod], Num(call.mod, 0)', Num(call.mod, 8)')
  BY <1>1 DEF ConvertOK, ReturnOK
<1> QED BY <1>3, <1>4 DEF IInv

LEMMA NextKeeps == IInv /\ [Next]_vars => IInv'
<1> SUFFICES ASSUME IInv, [Next]_vars PROVE IInv'
  OBVIOUS
<1>1. CASE UNCHANGED vars
  <2>1. low' = low /\ heap' = heap /\ call' = call
    BY <1>1 DEF vars
  <2>2. Num(call.mod, 0)' = Num(call.mod, 0) /\ Num(call.mod, 8)' = Num(call.mod, 8)
    BY <2>1 DEF Num
  <2>3. TypeInv'
    BY <2>1 DEF IInv, TypeInv
  <2> QED BY <2>1, <2>2, <2>3 DEF IInv
<1>2. ASSUME NEW m \in Mods, NEW ret \in Returns, NEW n \in 0 .. MaxParams,
             NEW params \in [1 .. n -> Params], Begin(m, ret, params)
      PROVE  IInv'
  BY <1>2, BeginKeeps
<1>3. CASE ConvertNumber
  BY <1>3, ConvertNumberKeeps
<1>4. CASE ConvertUnsupported \/ MallocFails
  BY <1>4, ConvertFailKeeps
<1>5. CASE Malloc
  BY <1>5, MallocKeeps
<1>6. CASE SetBytes
  BY <1>6, SetBytesKeeps
<1>7. CASE Execute
  BY <1>7, ExecuteKeeps
<1>8. CASE ExecuteFails
  BY <1>8, ExecuteFailsKeeps
<1>9. CASE ReturnOnStack
  BY <1>9, ReturnOnStackKeeps
<1>10. CASE ReturnI64
  BY <1>10, ReturnI64Keeps
<1>11. CASE ReturnArray
  BY <1>11, ReturnArrayKeeps
<1>12. CASE GetDataFails \/ FreeFails
  BY <1>12, ReturnFailKeeps
<1>13. CASE FreeArray
  BY <1>13, FreeArrayKeeps
<1>14. CASE Done
  BY <1>14, DoneKeeps
<1>15. CASE Cleanup
  BY <1>15, CleanupKeeps
<1> QED
  BY <1>1, <1>2, <1>3, <1>4, <1>5, <1>6, <1>7, <1>8, <1>9, <1>10, <1>11, <1>12, <1>13,
     <1>14, <1>15 DEF Next
---------------------------------------------------------------------------
(* The theorems. *)

LEMMA Invariance == Spec => []IInv
BY InitKeeps, NextKeeps, PTL DEF Spec

(* The types: every value that reaches wasm is in the range of an i32, and *)
(* no two blocks that a module's allocator has given out overlap.          *)
THEOREM TypeCorrect == Spec => []TypeOK
<1>1. IInv => TypeOK
  <2> SUFFICES ASSUME IInv PROVE TypeOK
    OBVIOUS
  <2>1. /\ low \in [Mods -> [Cells -> 0 .. Byte - 1]]
        /\ heap \in [Mods -> SUBSET Blocks] /\ \A m \in Mods : Apart(heap[m])
        /\ call \in Calls /\ Cut(call.cvals)
    BY DEF IInv, TypeInv
  <2>2. /\ call.pc \in {"idle", "convert", "set", "executed", "free", "ok", "error", "panic"}
        /\ call.mod \in Mods /\ call.ret \in Returns /\ call.before \subseteq Blocks
        /\ {call.made, call.got} \subseteq Results \cup {NoResult}
        /\ call.args \in Seq(Params) /\ call.params \in Seq(Params)
    BY <2>1 DEF Calls
  <2>3. \A s \in {call.args, call.params} : \A i \in DOMAIN s : s[i] \in Params
    BY <2>2
  <2> QED BY <2>1, <2>2, <2>3 DEF TypeOK, Apart, Cut
<1> QED BY <1>1, Invariance, PTL

(* A parameter that arrives is seen as it was passed. *)
LEMMA SeenArrived ==
  ASSUME NEW m, Apart(heap[m]), NEW p \in Params, NEW x, NEW y, Arrives(p, x, y, heap[m])
  PROVE  Seen(m, p.type, x, IF Width(p) = 1 THEN 0 ELSE y) = p
<1>1. /\ p.type \in Numbers \cup {"bytes"}
      /\ p.type \in Numbers => p = Number(p.type, p.n)
      /\ p.type = "bytes" => p = Bytes(p.len, p.data)
  BY ParamTypes DEF Arrives
<1>2. CASE p.type = "bytes"
  <2>1. Width(p) = 2 /\ U32(y) = p.len /\ Block(U32(x), p.len, p.data) \in heap[m]
    BY <1>2 DEF Width, Arrives
  <2> DEFINE b == Block(U32(x), p.len, p.data)
  <2>2. b.addr = U32(x) /\ b.len = p.len /\ b.data = p.data
    BY DEF Block
  <2> HIDE DEF b
  <2>3. \A c \in heap[m] : c.addr = U32(x) /\ c.len = p.len <=> c = b
    BY <2>1, <2>2 DEF Apart, b
  <2>4. (CHOOSE c \in heap[m] : c.addr = U32(x) /\ c.len = p.len) = b
    BY <2>1, <2>3 DEF b
  <2>5. DataAt(m, U32(x), p.len) = p.data
    BY <2>1, <2>2, <2>4 DEF DataAt, b
  <2> QED BY <1>1, <1>2, <2>1, <2>5 DEF Seen
<1>3. CASE p.type \in {"int32", "uint32"}
  BY <1>1, <1>3 DEF Seen, Arrives, Numbers
<1>4. CASE p.type \in {"int64", "uint64"}
  <2>1. Width(p) = 2
    BY <1>4 DEF Width
  <2> QED BY <1>1, <1>4, <2>1 DEF Seen, Arrives, Numbers
<1> QED BY <1>1, <1>2, <1>3, <1>4 DEF Numbers

(* Whatever is passed, the function finds it: the halves of an int64 or a  *)
(* uint64 give the number back, the bytes of every array are in its own    *)
(* block, and no block is written by the parameters that come later        *)
(* (toWasmEdgeValueSlideBindgen).                                          *)
THEOREM ParamsArrive == Spec => []ArgumentsArrive
<1>1. IInv => ArgumentsArrive
  <2> SUFFICES ASSUME IInv, call.pc = "convert", call.args = <<>>
               PROVE  \E at \in [1 .. Len(call.params) + 1 -> 1 .. Len(call.cvals) + 1] :
                        /\ Layout(at) /\ at[Len(call.params) + 1] = Len(call.cvals) + 1
                        /\ \A i \in DOMAIN call.params : SeenAt(at, i) = call.params[i]
    BY DEF ArgumentsArrive
  <2> DEFINE n == Len(call.params)
             end == Len(call.cvals) + 1
  <2>1. /\ call \in Calls /\ call.params \in Seq(Params) /\ call.mod \in Mods
        /\ Apart(heap[call.mod]) /\ ConvertOK(call, heap[call.mod])
    BY DEF IInv, TypeInv, Calls
  <2>2. n \in Nat /\ DOMAIN call.params = 1 .. n
    BY <2>1
  <2>3. Converted(call) = n
    BY <2>2 DEF Converted
  <2>4. PICK at : Parsed(call, heap[call.mod], at, n, end)
    BY <2>1, <2>3 DEF ConvertOK
  <2> HIDE DEF n, end
  <2>5. at \in [1 .. n + 1 -> 1 .. end] /\ at[n + 1] = end
    BY <2>4 DEF Parsed
  <2>6. Layout(at)
    BY <2>2, <2>4 DEF Parsed, Layout
  <2>7. \A i \in DOMAIN call.params : SeenAt(at, i) = call.params[i]
    <3> TAKE i \in DOMAIN call.params
    <3>1. call.params[i] \in Params
      BY <2>1
    <3>2. Arrives(call.params[i], call.cvals[at[i]], call.cvals[at[i] + 1], heap[call.mod])
      BY <2>2, <2>4 DEF Parsed
    <3> QED BY <2>1, <3>1, <3>2, SeenArrived DEF SeenAt
  <2> QED BY <2>5, <2>6, <2>7 DEF n, end
<1> QED BY <1>1, Invariance, PTL

(* What the function returned is what the program gets: the eight bytes    *)
(* that are added up give the int64 with its sign, and the address and the *)
(* length of an array, cut to int32 and taken as unsigned again, find its  *)
(* block (fromWasmEdgeValueSlideBindgen).                                  *)
THEOREM ResultArrivesAlways == Spec => []ResultArrives
<1>1. IInv => ResultArrives
  BY DEF IInv, ReturnOK, ResultArrives
<1> QED BY <1>1, Invariance, PTL

(* The blocks of the module's allocator are given back: after a call that  *)
(* succeeds there are those that there were before, and a call that fails  *)
(* frees none of them.                                                     *)
THEOREM NothingKeptAlways == Spec => []NothingKept
<1>1. IInv => NothingKept
  BY DEF IInv, ReturnOK, NothingKept
<1> QED BY <1>1, Invariance, PTL
===========================================================================
