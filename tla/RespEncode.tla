----------------------------- MODULE RespEncode -----------------------------
(***************************************************************************)
(* RespEncoder::encode (src/src/protocol/resp_encoder.cpp): a value and    *)
(* the values in it, to any depth.                                         *)
(***************************************************************************)
EXTENDS Resp

RECURSIVE encode(_)

encode(v) ==
  CASE v.type = "SimpleString" -> simple_string(v.str)
    [] v.type = "Error"        -> error(v.str)
    [] v.type = "Integer"      -> integer(v.int_val)
    [] v.type = "BulkString"   -> bulk_string(v.str)
    [] v.type = "Nil"          -> nil
    [] v.type = "Array"        ->
         array_header(Len(v.elements))
           \o FlattenSeq([i \in DOMAIN v.elements |-> encode(v.elements[i])])
=============================================================================
