---------------------------- MODULE MCHostCalls ----------------------------
(* HostCalls for TLC: an i32 of two bits, an i64 of three, and values at   *)
(* the ends of their ranges.                                               *)
EXTENDS HostCalls

MCVals ==
  {Go("int32", n) : n \in {-2, 1}} \cup {Go("uint32", n) : n \in {1, 3}}
    \cup {Go("int64", n) : n \in {-4, 3}} \cup {Go("uint64", 7)}
    \cup {Go("int", -2), Go("uint", 3)}
    \cup {Go("float32", 2), Go("float64", 5), Go("FuncRef", 1), Go("string", 0)}
    \cup {GoV128(1, 6)}

MCFuncTypes ==
  {NewFunctionType(<<>>, <<>>), NewFunctionType(<<"i32">>, <<"f64">>),
   NewFunctionType(<<"i64", "v128">>, <<"i64">>), NewFunctionType(<<"i32", "i64">>, <<"i32", "i64">>),
   NewFunctionType(<<"f32", "funcref">>, <<"v128", "i32">>)}
===========================================================================
