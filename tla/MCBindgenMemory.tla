-------------------------- MODULE MCBindgenMemory --------------------------
(* BindgenMemory for TLC: bytes of 4 values, so that an i32 has 256 and an *)
(* i64 65536, and numbers at the ends and the middle of their ranges.      *)
EXTENDS BindgenMemory

MCParams ==
  {Number("int32", n) : n \in {-128}} \cup {Number("uint32", 255)}
    \cup {Number("int64", n) : n \in {-32768, 32767}}
    \cup {Number("uint64", n) : n \in {256, 65535}}
    \cup {Bytes(0, "a"), Bytes(2, "a"), Bytes(2, "b"), Unsupported}

MCResults ==
  {Number("int32", n) : n \in {-128, 127}}
    \cup {Number("int64", n) : n \in {-32768, -256, 255}}
    \cup {Bytes(0, "r"), Bytes(2, "r"), Bytes(56, "s")}
===========================================================================
