-------------------------- MODULE ValueConversion --------------------------
(***************************************************************************)
(* The conversions of OpcuaClient between the program's values (Value) and  *)
(* those that travel to and from the server (UA_Variant).  Both are a type   *)
(* and the texts and numbers they hold.                                      *)
(*                                                                          *)
(* A double is an integer here; a boolean is 0 or 1.  An array of BOOLEAN,   *)
(* INT32 or STRING has an element: the code reads the first one without      *)
(* looking whether there is one, and what it reads of an empty array is      *)
(* undefined.                                                                *)
(***************************************************************************)
EXTENDS Integers, Sequences

(* A text as far as C sees it, up to the first null character, and whether   *)
(* something is hidden behind that.                                          *)
Text(seen, hidden) == [seen |-> seen, hidden |-> hidden]
EmptyText == Text("", FALSE)

(* UA_String_fromChars(text.c_str())  *)
CString(text) == Text(text.seen, FALSE)

(* The alternatives of Value, by the type of the variant that carries them.  *)
ValueTypes ==
  [BOOLEAN |-> "bool", INT32 |-> "int32", DOUBLE |-> "double", STRING |-> "string",
   DOUBLES |-> "vector", KEYINTPAIR |-> "keyInt", KEYPOSEPAIR |-> "keyPose",
   EXECUTIONSTATUS |-> "executionStatus"]

CustomTypes == {"KEYINTPAIR", "KEYPOSEPAIR", "EXECUTIONSTATUS"}
Scalars == {"BOOLEAN", "INT32", "STRING"}

Value(type, texts, numbers) == [type |-> type, texts |-> texts, numbers |-> numbers]

Texts == [seen : STRING, hidden : BOOLEAN]

(* What a value of each alternative holds.  *)
IsContent(type, texts, numbers) ==
  /\ texts \in Seq(Texts) /\ numbers \in Seq(Int)
  /\ type \in {"bool", "int32", "double"} => texts = <<>> /\ Len(numbers) = 1
  /\ type = "bool" => numbers[1] \in {0, 1}
  /\ type = "string" => Len(texts) = 1 /\ numbers = <<>>
  /\ type = "vector" => texts = <<>>
  /\ type = "keyInt" => Len(texts) = 1 /\ Len(numbers) = 1
  /\ type = "keyPose" => Len(texts) = 1
  /\ type = "executionStatus" =>
       Len(texts) = 3 /\ Len(numbers) = 2 /\ numbers[1] \in {0, 1} /\ numbers[2] \in {0, 1}

IsValue(value) ==
  /\ value = Value(value.type, value.texts, value.numbers)
  /\ value.type \in {ValueTypes[type] : type \in DOMAIN ValueTypes} \cup {"struct"}
  /\ IsContent(value.type, value.texts, value.numbers)

(* Value(): the first alternative.  *)
NoValue == Value("bool", <<>>, <<0>>)

(* A variant of one of UA_TYPES is packed "plainly".  A variant with one of   *)
(* the robot's own structures holds it as it is ("plainly"), in an extension   *)
(* object that is decoded ("decoded"), or in one that carries its bytes: those *)
(* of the whole structure ("encoded"), no bytes ("empty"), bytes that cannot be *)
(* decoded ("broken"), or more than the structure ("overlong").                 *)
Packings == {"plainly", "decoded", "encoded", "empty", "broken", "overlong"}

Variant(type, scalar, packing, texts, numbers) ==
  [type |-> type, scalar |-> scalar, packing |-> packing, texts |-> texts, numbers |-> numbers]

First(sequence) == IF sequence = <<>> THEN <<>> ELSE <<sequence[1]>>

(* A variant of any other type, or an empty one, has type "none".            *)
IsVariant(variant) ==
  LET first == IsContent(ValueTypes[variant.type], First(variant.texts), First(variant.numbers))
      whole == IsContent(ValueTypes[variant.type], variant.texts, variant.numbers)
  IN  /\ variant.type \in DOMAIN ValueTypes \cup {"none"}
      /\ variant.packing \in (IF variant.type \in CustomTypes THEN Packings ELSE {"plainly"})
      /\ variant.type \in Scalars => first /\ (variant.scalar => whole)
      /\ variant.type \in {"DOUBLE", "DOUBLES"} => whole
      /\ variant.type \in CustomTypes /\ variant.scalar => whole

NoVariant == Variant("none", FALSE, "plainly", <<>>, <<>>)

-----------------------------------------------------------------------------
(* valueToUaVariant.  *)

TypeFor(value) == CHOOSE type \in DOMAIN ValueTypes : ValueTypes[type] = value.type

(* The variant for a value that is no Struct, around the texts and numbers     *)
(* that were copied for it.                                                      *)
VariantOf(value, texts, numbers) ==
  Variant(TypeFor(value), value.type # "vector",
          IF TypeFor(value) \in CustomTypes THEN "decoded" ELSE "plainly", texts, numbers)

-----------------------------------------------------------------------------
(* UaVariantToValue.  *)

(* One of the robot's structures as bytes, which are decoded into one of the   *)
(* client's.                                                                     *)
HasBytes(variant) ==
  /\ variant.type \in CustomTypes /\ variant.scalar
  /\ variant.packing \in {"encoded", "broken", "overlong"}

(* Mutant of Readable: bytes that are left over are not missed.  *)
ReadableOrOverlong(variant) ==
  CASE variant.type \in Scalars \cup {"DOUBLE", "DOUBLES"} -> TRUE
    [] variant.type \in CustomTypes ->
         variant.scalar /\ variant.packing \in {"plainly", "decoded", "encoded", "overlong"}
    [] OTHER -> FALSE

Readable(variant) ==
  CASE variant.type \in Scalars \cup {"DOUBLE", "DOUBLES"} -> TRUE
    [] variant.type \in CustomTypes ->
         variant.scalar /\ variant.packing \in {"plainly", "decoded", "encoded"}
    [] OTHER -> FALSE

(* What it makes of a variant it can read.  *)
UaVariantToValue(variant) ==
  IF variant.type \in Scalars
  THEN Value(ValueTypes[variant.type], First(variant.texts), First(variant.numbers))
  ELSE Value(ValueTypes[variant.type], variant.texts, variant.numbers)
=============================================================================
