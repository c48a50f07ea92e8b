----------------------------- MODULE RustTypes ------------------------------
(***************************************************************************)
(* How the Rust crate turns its objects into protobuf messages and back.   *)
(* A type describes the two From impls of an object; Write is the one      *)
(* towards the wire, Read the one from it.  Scalars are abstracted to      *)
(* "zero", the value protobuf does not transmit, "x", any other, and the   *)
(* value of Default::default() where it is not zero.  An absent message or *)
(* Option is <<>>, a present one <<v>>; the variant of an enum with        *)
(* arguments is a pair <<name, argument>>.  The names of message fields    *)
(* are those of the Rust struct on both sides.                             *)
(***************************************************************************)
EXTENDS RustEnums, FiniteSets

RECURSIVE Default(_), Full(_), Write(_, _, _), Read(_, _), RustValues(_), WireValues(_)

-----------------------------------------------------------------------------
(* Types.                                                                  *)
ScalarOr(default) == [t |-> "scalar", default |-> default]
Scalar == ScalarOr("zero")

\* What a variant without an argument sends: `true` or an empty message; what
\* comes with it is ignored.
Unit == [t |-> "unit"]

Code(enum) == [t |-> "code", enum |-> enum]

\* A struct: the kind of each field, as the macro is told.
\*   into  a            value.a.into()
\*   must  a = option b Some(value.a.into()), and Default for an absent one
\*   may   option a     value.a.map(Into::into)
\*   list  list a       into_collect; the instances vary the items of `each`
Struct(fields) == [t |-> "struct", fields |-> fields]
Into(ty) == [kind |-> "into", ty |-> ty]
Must(ty) == [kind |-> "must", ty |-> ty]
May(ty) == [kind |-> "may", ty |-> ty]
List(ty) == [kind |-> "list", ty |-> ty]
Each(ty) == [kind |-> "each", ty |-> ty]
Text == Into(Scalar)
Texts == List(Scalar)
Time == May(Scalar)
Empty == [t |-> "struct", fields |-> [nothing |-> Text]]

\* An enum with arguments and a protobuf oneof: `named` gives the case of the
\* .proto file that bears the name of each variant ("None": not set), `write` the
\* case that Rust writes, `read` the variant that it reads of each case, `default`
\* the #[default] variant.  `wrapped` oneofs are optional in their message and
\* give the default when they are not set.
OneOf(args, named, write, read, default, wrapped) ==
  [t |-> "oneof", args |-> args, named |-> named, write |-> write, read |-> read,
   default |-> default, wrapped |-> wrapped]
Same(args) == [v \in DOMAIN args |-> v]
Cases(args, default) == OneOf(args, Same(args), Same(args), Same(args), default, TRUE)
Bare(args, default) == OneOf(args, Same(args), Same(args), Same(args), default, FALSE)
\* `Invalid` is the default variant and stands for a oneof that is not set.
OrInvalid(args) ==
  LET cases == Same(args) @@ ("Invalid" :> "None") IN
  OneOf(args @@ ("Invalid" :> Unit), cases, cases, Same(args), "Invalid", TRUE)

\* A HashMap and a repeated field of pairs, collected in the order received.
MapOf(key, val) == [t |-> "map", key |-> key, val |-> val]

-----------------------------------------------------------------------------
(* Default::default() and a value with nothing left at its default.        *)
Default(ty) ==
  CASE ty.t = "scalar" -> ty.default
    [] ty.t = "unit" -> "unit"
    [] ty.t = "code" -> ty.enum.default
    [] ty.t = "text" -> <<"Success", "unit">>
    [] ty.t = "oneof" -> <<ty.default, Default(ty.args[ty.default])>>
    [] ty.t \in {"map", "indexed"} -> <<>>
    [] ty.t = "notify" -> [token |-> "zero", session_id |-> "zero", result_ids |-> <<>>]
    [] ty.t = "struct" -> [f \in DOMAIN ty.fields |->
         IF ty.fields[f].kind \in {"into", "must"} THEN Default(ty.fields[f].ty) ELSE <<>>]

FullField(field) ==
  CASE field.kind \in {"into", "must"} -> Full(field.ty)
    [] field.kind = "may" -> <<Full(field.ty)>>
    [] OTHER -> <<Full(field.ty), Default(field.ty)>>

Full(ty) ==
  CASE ty.t = "scalar" -> "x"
    [] ty.t = "unit" -> "unit"
    [] ty.t = "code" -> CHOOSE n \in DOMAIN ty.enum.codes :
         \A o \in DOMAIN ty.enum.codes : ty.enum.codes[n] >= ty.enum.codes[o]
    [] ty.t = "text" -> <<"Error", "x">>
    [] ty.t = "oneof" -> LET v == CHOOSE v \in DOMAIN ty.args :
                                    v # ty.default \/ DOMAIN ty.args = {ty.default}
                         IN  <<v, Full(ty.args[v])>>
    [] ty.t = "map" -> Full(ty.key) :> Full(ty.val)
    [] ty.t = "indexed" -> "x" :> Full(ty.item)
    [] ty.t = "notify" -> [token |-> "x", session_id |-> "x", result_ids |-> <<"x", "zero">>]
    [] ty.t = "struct" -> [f \in DOMAIN ty.fields |-> FullField(ty.fields[f])]

-----------------------------------------------------------------------------
(* From<object> for message.  The iteration order of a HashMap is          *)
(* arbitrary: `turned` chooses one of the two orders of two keys.          *)
Keys(map, turned) ==
  IF turned THEN Reverse(SetToSeq(DOMAIN map)) ELSE SetToSeq(DOMAIN map)

WriteField(field, v, turned) ==
  CASE field.kind = "into" -> Write(field.ty, v, turned)
    [] field.kind = "must" -> <<Write(field.ty, v, turned)>>
    [] OTHER -> [i \in DOMAIN v |-> Write(field.ty, v[i], turned)]

Write(ty, v, turned) ==
  CASE ty.t = "scalar" -> v
    [] ty.t = "unit" -> "true"
    [] ty.t = "code" -> AsI32(ty.enum, v)
    [] ty.t = "text" -> IF v[1] = "Success" THEN "zero" ELSE v[2]
    [] ty.t = "oneof" -> <<ty.write[v[1]], Write(ty.args[v[1]], v[2], turned)>>
    [] ty.t = "map" -> LET keys == Keys(v, turned) IN
         [i \in DOMAIN keys |-> <<Write(ty.key, keys[i], turned), Write(ty.val, v[keys[i]], turned)>>]
    [] ty.t = "indexed" -> LET keys == Keys(v, turned) IN
         [i \in DOMAIN keys |-> Write(ty.item, v[keys[i]], turned)]
    [] ty.t = "notify" ->
         [token |-> v.token, ids |-> [i \in DOMAIN v.result_ids |-> <<v.session_id, v.result_ids[i]>>]]
    [] ty.t = "struct" ->
         [f \in DOMAIN ty.fields |-> WriteField(ty.fields[f], v[f], turned)]

(* From<message> for object.                                               *)
\* From<i32> that has lost the arm of its highest number.
ReadCodeWithoutLast(enum, i) ==
  IF \A n \in DOMAIN enum.codes : enum.codes[n] <= i THEN enum.unknown ELSE FromI32(enum, i)

ReadCode(enum, i) == FromI32(enum, i)

\* collect() into a HashMap: the last entry of a key stays.
Collect(pairs) ==
  [k \in {pairs[i][1] : i \in DOMAIN pairs} |->
     pairs[CHOOSE i \in DOMAIN pairs :
             pairs[i][1] = k /\ \A j \in DOMAIN pairs : pairs[j][1] = k => j <= i][2]]

ReadField(field, w) ==
  CASE field.kind = "into" -> Read(field.ty, w)
    [] field.kind = "must" -> IF w = <<>> THEN Default(field.ty) ELSE Read(field.ty, w[1])
    [] OTHER -> [i \in DOMAIN w |-> Read(field.ty, w[i])]

Read(ty, w) ==
  CASE ty.t = "scalar" -> w
    [] ty.t = "unit" -> "unit"
    [] ty.t = "code" -> ReadCode(ty.enum, w)
    [] ty.t = "text" -> IF w = "zero" THEN <<"Success", "unit">> ELSE <<"Error", w>>
    [] ty.t = "oneof" -> IF w[1] = "None" THEN Default(ty)
                         ELSE LET v == ty.read[w[1]] IN <<v, Read(ty.args[v], w[2])>>
    [] ty.t = "map" -> Collect([i \in DOMAIN w |-> <<Read(ty.key, w[i][1]), Read(ty.val, w[i][2])>>])
    [] ty.t = "indexed" -> Collect([i \in DOMAIN w |-> <<w[i][ty.by], Read(ty.item, w[i])>>])
    [] ty.t = "notify" ->
         [token |-> w.token, result_ids |-> [i \in DOMAIN w.ids |-> w.ids[i][2]],
          session_id |-> IF w.ids = <<>> THEN "zero" ELSE w.ids[1][1]]
    [] ty.t = "struct" -> [f \in DOMAIN ty.fields |-> ReadField(ty.fields[f], w[f])]

-----------------------------------------------------------------------------
(* The values the instances enumerate: structs that differ from the        *)
(* default, or from the full value, in one field.                          *)
OneByOne(bases, values) ==
  bases \cup UNION {UNION {{[b EXCEPT ![f] = v] : v \in values[f]} : f \in DOMAIN values} : b \in bases}

RustField(field) ==
  CASE field.kind \in {"into", "must"} -> RustValues(field.ty)
    [] field.kind = "may" -> {<<>>} \cup {<<v>> : v \in RustValues(field.ty)}
    [] field.kind = "list" -> {<<>>, <<Full(field.ty)>>, <<Full(field.ty), Default(field.ty)>>}
    [] OTHER -> {<<>>} \cup {<<v>> : v \in RustValues(field.ty)}

RustValues(ty) ==
  CASE ty.t = "scalar" -> {"zero", "x", ty.default}
    [] ty.t = "unit" -> {"unit"}
    [] ty.t = "code" -> DOMAIN ty.enum.codes
    [] ty.t = "text" -> {<<"Success", "unit">>, <<"Error", "zero">>, <<"Error", "x">>}
    [] ty.t = "oneof" -> UNION {{<<v, a>> : a \in RustValues(ty.args[v])} : v \in DOMAIN ty.args}
    [] ty.t = "map" -> UNION {[K -> {Default(ty.val), Full(ty.val)}] :
                                K \in SUBSET {Default(ty.key), Full(ty.key)}}
    [] ty.t = "indexed" -> UNION {[K -> {Default(ty.item), Full(ty.item)}] : K \in SUBSET {"zero", "x"}}
    [] ty.t = "notify" -> [token : {"zero", "x"}, session_id : {"zero", "x"},
                           result_ids : {<<>>, <<"x">>, <<"x", "zero">>}]
    [] ty.t = "struct" ->
         OneByOne({Default(ty), Full(ty)}, [f \in DOMAIN ty.fields |-> RustField(ty.fields[f])])

\* Codes that no enumeration has.
UnknownCode == 99

WireField(field) ==
  CASE field.kind = "into" -> WireValues(field.ty)
    [] field.kind \in {"must", "may", "each"} -> {<<>>} \cup {<<w>> : w \in WireValues(field.ty)}
    [] field.kind = "list" -> {<<>>} \cup {<<Write(field.ty, v, FALSE)>> : v \in {Default(field.ty), Full(field.ty)}}

UpTo2(S) == {<<>>} \cup {<<a>> : a \in S} \cup (S \X S)

WireValues(ty) ==
  CASE ty.t \in {"scalar", "text"} -> {"zero", "x"}
    [] ty.t = "unit" -> {"true", "false"}
    [] ty.t = "code" -> {ty.enum.proto[n] : n \in DOMAIN ty.enum.proto} \cup {UnknownCode}
    [] ty.t = "oneof" ->
         UNION {{<<c, a>> : a \in WireValues(ty.args[ty.read[c]])} : c \in DOMAIN ty.read}
           \cup (IF ty.wrapped THEN {<<"None", "zero">>} ELSE {})
    [] ty.t = "map" -> UpTo2((IF ty.key.t = "code" THEN {0, 4, UnknownCode} ELSE WireValues(ty.key))
                             \X {Write(ty.val, v, FALSE) : v \in {Default(ty.val), Full(ty.val)}})
    [] ty.t = "indexed" -> UpTo2({[w EXCEPT ![ty.by] = n] : n \in {"zero", "x"},
                                    w \in {Write(ty.item, Default(ty.item), FALSE),
                                           Write(ty.item, Full(ty.item), FALSE)}})
    [] ty.t = "notify" -> [token : {"zero", "x"}, ids : UpTo2({"zero", "x"} \X {"zero", "x"})]
    [] ty.t = "struct" ->
         OneByOne({Write(ty, Default(ty), FALSE), Write(ty, Full(ty), FALSE)},
                  [f \in DOMAIN ty.fields |-> WireField(ty.fields[f])])
=============================================================================
