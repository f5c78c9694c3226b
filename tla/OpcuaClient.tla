---------------------------- MODULE OpcuaClient ----------------------------
(***************************************************************************)
(* OpcuaClient: the calls to the open62541 library behind the operations    *)
(* of the protocol client, one action per call that can fail or that hands   *)
(* out objects.  The client has to free these on each of the ways an         *)
(* operation can end; held counts those that it has not freed yet.           *)
(*                                                                         *)
(* The worker's thread is the only one that uses the client.  It connects   *)
(* only when there is no client object, and disconnects whenever it likes.  *)
(* A session the server has closed shows in calls that fail.                *)
(***************************************************************************)
EXTENDS ValueConversion

CONSTANTS Arguments,   \* the values given to callMethod and writeValue
          Results,     \* the variants a method returns
          Reported,    \* the variants that are the values of variables
          MaxInputs,   \* bound: arguments of a method
          MaxOutputs   \* bound: values a method returns

ASSUME BoundsAssumption == MaxInputs \in Nat /\ MaxOutputs \in Nat
ASSUME DataAssumption ==
  /\ \A value \in Arguments : IsValue(value)
  /\ \A variant \in Results \cup Reported : IsVariant(variant)

UpTo(n, S) == UNION {[1..k -> S] : k \in 0..n}

(* What the library hands out: the client; the node ids; the arrays of        *)
(* arguments and of results; a variant; the elements of a path, their names    *)
(* and the server's answer about it; and what the conversions make on their     *)
(* way: texts and numbers of a structure, the array of a vector, a structure     *)
(* decoded from its bytes.                                                        *)
Objects ==
  {"client", "object_id", "method_id", "node_id", "inputs", "output", "variant",
   "elements", "names", "response", "texts", "numbers", "array", "decoded"}

(* Freed through a pointer that keeps its value, so that freeing one twice is  *)
(* an error; UA_*_clear leaves an object empty, and clearing that does nothing.  *)
Deleted == {"client", "inputs", "output", "array"}

Operations == {"none", "connect", "disconnect", "callMethod", "readValue", "writeValue"}

VARIABLES
  op,         \* the operation under way
  at,         \* where in it
  step,       \* where in the translation of a path or the conversion of a value
  client,     \* client_: "none", "new" (not connected yet) or "open"
  held,       \* how often each object was handed out and not freed
  args,       \* the values the operation was given
  inputs,     \* the variants made of them so far
  built,      \* the texts and numbers of the next variant
  lost,       \* no memory was left for one of these, which nobody looks at
  output,     \* the variants the server has answered with
  values,     \* the values made of those so far, output_values or out_value
  executed,   \* the server has executed the method
  ok          \* what the operation returns

sent == <<args, inputs>>
conversion == <<built, lost>>
received == <<output, values>>
vars == <<op, at, step, client, held, sent, conversion, received, executed, ok>>

Nothing == [texts |-> <<>>, numbers |-> <<>>]

Init ==
  /\ op = "none" /\ at = "idle" /\ step = "start"
  /\ client = "none" /\ held = [x \in Objects |-> 0]
  /\ args = <<>> /\ inputs = <<>> /\ output = <<>> /\ values = <<>>
  /\ built = Nothing /\ lost = FALSE
  /\ executed = FALSE /\ ok = FALSE

Goto(from, to) == at = from /\ at' = to

(* The end of an operation.  *)
Back(result) == at' = "back" /\ step' = "start" /\ ok' = result

Update(taken, freed) ==
  held' = [x \in Objects |->
             IF x \in freed THEN (IF x \in Deleted THEN held[x] - 1 ELSE 0)
             ELSE IF x \in taken THEN held[x] + 1
             ELSE held[x]]

Take(objects) == Update(objects, {})
Free(objects) == Update({}, objects)

Return ==
  /\ Goto("back", "idle")
  /\ op' = "none" /\ step' = "start"
  /\ args' = <<>> /\ inputs' = <<>> /\ output' = <<>> /\ values' = <<>>
  /\ built' = Nothing /\ lost' = FALSE
  /\ executed' = FALSE /\ ok' = FALSE
  /\ UNCHANGED <<client, held>>

-----------------------------------------------------------------------------
(* connect and disconnect.  *)

(* The endpoint and the user's name come from the environment, or do not.     *)
(* There is memory for the client: the code uses it without looking.           *)
BeginConnect ==
  /\ at = "idle" /\ client = "none"
  /\ op' = "connect"
  /\ \/ at' = "password" /\ client' = "new" /\ Take({"client"}) /\ UNCHANGED <<step, ok>>
     \/ Back(FALSE) /\ UNCHANGED <<client, held>>
  /\ UNCHANGED <<sent, conversion, received, executed>>

(* The password too; and the server may refuse it.  Both delete the client. *)
ConnectUsername ==
  /\ at = "password"
  /\ \/ client' = "open" /\ Back(TRUE) /\ UNCHANGED held
     \/ client' = "none" /\ Back(FALSE) /\ Free({"client"})
  /\ UNCHANGED <<op, sent, conversion, received, executed>>

Disconnect ==
  /\ at = "idle"
  /\ op' = "disconnect"
  /\ IF client = "none" THEN UNCHANGED held ELSE Free({"client"})
  /\ client' = "none" /\ Back(TRUE)
  /\ UNCHANGED <<sent, conversion, received, executed>>

-----------------------------------------------------------------------------
(* TranslateBrowsePathtoNodeId, from each of the places that call it: the id   *)
(* it fills and where it comes back to.  No caller gives an empty path.         *)
Id == [object |-> "object_id", method |-> "method_id", readNode |-> "node_id", writeNode |-> "node_id"]
After == [object |-> "method", method |-> "newInputs", readNode |-> "read", writeNode |-> "convertWrite"]

(* It returns false, and its caller with it: callMethod frees the first id when *)
(* the second path is not translated.                                            *)
NotTranslated(objects) ==
  Back(FALSE) /\ Free(objects \cup (IF at = "method" THEN {"object_id"} ELSE {}))

(* UA_BrowsePath_clear: elements and names.  *)
Path == {"elements", "names"}

NewPath ==
  /\ at \in DOMAIN Id /\ step = "start"
  /\ \/ client # "none" /\ step' = "names" /\ Take({"elements"}) /\ UNCHANGED <<at, ok>>
     \/ NotTranslated(IF client = "none" THEN {} ELSE Path)
  /\ UNCHANGED <<op, client, sent, conversion, received, executed>>

(* UA_QUALIFIEDNAME_ALLOC, whose result is not looked at.  *)
AllocateNames ==
  /\ step = "names" /\ step' = "service"
  /\ Take({"names"}) \/ UNCHANGED held
  /\ UNCHANGED <<op, at, client, sent, conversion, received, executed, ok>>

(* The request is on its way, and an answer, bad or good, comes back.  *)
TranslatePaths ==
  /\ step = "service" /\ step' = "answer"
  /\ Take({"response"})
  /\ UNCHANGED <<op, at, client, sent, conversion, received, executed, ok>>

(* Mutant of Refused: the answer is not freed.  *)
RefusedKeepsResponse ==
  /\ step = "answer"
  /\ NotTranslated(Path)
  /\ UNCHANGED <<op, client, sent, conversion, received, executed>>

(* The service, or this path of it, has failed or has no target.  *)
Refused ==
  /\ step = "answer"
  /\ NotTranslated(Path \cup {"response"})
  /\ UNCHANGED <<op, client, sent, conversion, received, executed>>

(* UA_NodeId_copy of the first target.  *)
CopyId ==
  /\ step = "answer"
  /\ \/ /\ at' = After[at] /\ step' = "start"
        /\ Update({Id[at]}, Path \cup {"response"}) /\ UNCHANGED ok
     \/ NotTranslated(Path \cup {"response", Id[at]})
  /\ UNCHANGED <<op, client, sent, conversion, received, executed>>

-----------------------------------------------------------------------------
(* valueToUaVariant, for the next argument of callMethod and for the value of   *)
(* writeValue.                                                                    *)
ToConvert == Len(inputs) < Len(args)
Given == args[Len(inputs) + 1]
HasArray == Given.type \in {"vector", "keyPose"}

Ids == {"object_id", "method_id"}

(* It returns false, and its caller frees what it has so far.  *)
NotConverted(objects) ==
  /\ Back(FALSE) /\ built' = Nothing
  /\ Free(objects \cup (IF at = "convertInput" THEN Ids \cup {"inputs"} ELSE {"node_id"}))

(* There is no branch for a Struct.  *)
BeginConversion ==
  /\ at \in {"convertInput", "convertWrite"} /\ step = "start" /\ ToConvert
  /\ \/ /\ Given.type # "struct"
        /\ built' = [texts |-> <<>>, numbers |-> IF HasArray THEN <<>> ELSE Given.numbers]
        /\ step' = "fill" /\ UNCHANGED <<at, held, ok>>
     \/ Given.type = "struct" /\ NotConverted({})
  /\ UNCHANGED <<op, client, sent, lost, received, executed>>

(* Mutant of AppendText: the last text comes first.  *)
AppendTextInFront(text) == built' = [built EXCEPT !.texts = <<text>> \o @]

AppendText(text) == built' = [built EXCEPT !.texts = Append(@, text)]

TextsFilled == Len(built.texts) = Len(Given.texts)

(* UA_String_fromChars, whose result is not looked at: without memory the text *)
(* is empty.                                                                     *)
CopyText ==
  /\ step = "fill" /\ ~TextsFilled
  /\ \/ AppendText(CString(Given.texts[Len(built.texts) + 1])) /\ Take({"texts"}) /\ UNCHANGED lost
     \/ AppendText(EmptyText) /\ lost' = TRUE /\ UNCHANGED held
  /\ UNCHANGED <<op, at, step, client, sent, received, executed, ok>>

(* UA_Array_new for the numbers of a vector or of a pose, which fails when no   *)
(* memory is left for them.  A vector is given up then; of a pose the size is    *)
(* set to 0, and the conversion goes on.                                          *)
CopyNumbers ==
  /\ step = "fill" /\ TextsFilled /\ HasArray
  /\ \/ /\ built' = [built EXCEPT !.numbers = Given.numbers]
        /\ Take({IF Given.type = "vector" THEN "array" ELSE "numbers"})
        /\ step' = "copy" /\ UNCHANGED <<at, lost, ok>>
     \/ /\ Given.type = "keyPose" /\ Given.numbers # <<>>
        /\ lost' = TRUE
        /\ step' = "copy" /\ UNCHANGED <<at, built, held, ok>>
     \/ /\ Given.type = "vector" /\ Given.numbers # <<>>
        /\ NotConverted({}) /\ UNCHANGED lost
  /\ UNCHANGED <<op, client, sent, received, executed>>

(* UA_String_clear, UA_clear and UA_Array_delete of what was copied.  *)
Temporaries == {"texts", "numbers"} \cup (IF Given.type = "vector" THEN {"array"} ELSE {})

(* UA_Variant_setScalarCopy and UA_Variant_setArrayCopy; writeValue has the one  *)
(* variant to free, callMethod frees its own with their array.                    *)
CopyVariant ==
  /\ \/ step = "fill" /\ TextsFilled /\ ~HasArray
     \/ step = "copy"
  /\ \/ /\ inputs' = Append(inputs, VariantOf(Given, built.texts, built.numbers))
        /\ step' = "start" /\ built' = Nothing /\ UNCHANGED ok
        /\ \/ at = "convertInput" /\ UNCHANGED at /\ Free(Temporaries)
           \/ at = "convertWrite" /\ at' = "write" /\ Update({"variant"}, Temporaries)
     \/ NotConverted(Temporaries) /\ UNCHANGED inputs
  /\ UNCHANGED <<op, client, args, lost, received, executed>>

-----------------------------------------------------------------------------
(* UaVariantToValue, for the next result of callMethod and for readValue's.     *)
ToRead == Len(values) < Len(output)
Answered == output[Len(values) + 1]

(* Mutant of ReadNext: every value is put there twice.  *)
ReadNextTwice ==
  LET value == UaVariantToValue(Answered) IN values' = values \o <<value, value>>

(* UaVariantToValue(output[i], tmp), and tmp is put behind the values.  *)
ReadNext == values' = Append(values, UaVariantToValue(Answered))

NextIsReadable == Readable(Answered)

(* UA_decodeBinary; what it has decoded is freed by each way out.  *)
Decode ==
  /\ at \in {"convertOutput", "convertRead"} /\ step = "start" /\ ToRead
  /\ HasBytes(Answered)
  /\ step' = "decoded" /\ Take({"decoded"})
  /\ UNCHANGED <<op, at, client, sent, conversion, received, executed, ok>>

IsDecoded == step = (IF ToRead /\ HasBytes(Answered) THEN "decoded" ELSE "start")

-----------------------------------------------------------------------------
(* callMethod.  *)

BeginCallMethod(arguments) ==
  /\ Goto("idle", "object")
  /\ op' = "callMethod"
  /\ args' = arguments
  /\ UNCHANGED <<step, client, held, inputs, conversion, received, executed, ok>>

NewInputs ==
  /\ at = "newInputs"
  /\ \/ at' = "convertInput" /\ Take({"inputs"}) /\ UNCHANGED <<step, ok>>
     \/ args # <<>> /\ Back(FALSE) /\ Free(Ids)
  /\ UNCHANGED <<op, client, sent, conversion, received, executed>>

AllConverted ==
  /\ at = "convertInput" /\ step = "start" /\ ~ToConvert
  /\ at' = "call"
  /\ UNCHANGED <<op, step, client, held, sent, conversion, received, executed, ok>>

(* The request is on its way; the server may execute the method.  *)
ServerExecutes ==
  /\ at = "call" /\ ~executed
  /\ executed' = TRUE
  /\ UNCHANGED <<op, at, step, client, held, sent, conversion, received, ok>>

(* Mutant of Call: the status is not looked at.  *)
CallUnchecked ==
  /\ at = "call"
  /\ output' \in UpTo(MaxOutputs, Results)
  /\ at' = "convertOutput" /\ Take({"output"})
  /\ UNCHANGED <<op, step, client, sent, conversion, values, executed, ok>>

(* UA_Client_call returns: the method's answer, or an error or a timeout,    *)
(* whether the server has executed the method or not.                        *)
Call ==
  /\ at = "call"
  /\ \/ /\ executed
        /\ output' \in UpTo(MaxOutputs, Results)
        /\ at' = "convertOutput" /\ Take({"output"}) /\ UNCHANGED <<step, ok>>
     \/ Back(FALSE) /\ Free(Ids \cup {"inputs"}) /\ UNCHANGED output
  /\ UNCHANGED <<op, client, sent, conversion, values, executed>>

(* On a failure the values read so far are dropped: CallResult{}.  *)
ConvertOutput ==
  /\ at = "convertOutput" /\ IsDecoded
  /\ \/ /\ ToRead /\ NextIsReadable
        /\ ReadNext /\ step' = "start" /\ Free({"decoded"}) /\ UNCHANGED <<at, ok>>
     \/ /\ ToRead /\ ~NextIsReadable
        /\ values' = <<>> /\ Back(FALSE) /\ Free(Ids \cup {"decoded", "inputs", "output"})
     \/ ~ToRead /\ Back(TRUE) /\ Free(Ids \cup {"inputs", "output"}) /\ UNCHANGED values
  /\ UNCHANGED <<op, client, sent, conversion, output, executed>>

-----------------------------------------------------------------------------
(* readValue and writeValue.  *)

BeginReadValue ==
  /\ Goto("idle", "readNode")
  /\ op' = "readValue"
  /\ UNCHANGED <<step, client, held, sent, conversion, received, executed, ok>>

BeginWriteValue(value) ==
  /\ Goto("idle", "writeNode")
  /\ op' = "writeValue"
  /\ args' = <<value>>
  /\ UNCHANGED <<step, client, held, inputs, conversion, received, executed, ok>>

Read ==
  /\ at = "read"
  /\ \/ /\ \E variant \in Reported : output' = <<variant>>
        /\ at' = "convertRead" /\ Take({"variant"}) /\ UNCHANGED <<step, ok>>
     \/ Back(FALSE) /\ Free({"node_id"}) /\ UNCHANGED output
  /\ UNCHANGED <<op, client, sent, conversion, values, executed>>

ConvertRead ==
  /\ at = "convertRead" /\ IsDecoded
  /\ IF NextIsReadable THEN ReadNext ELSE UNCHANGED values
  /\ Back(NextIsReadable)
  /\ Free({"decoded", "variant", "node_id"})
  /\ UNCHANGED <<op, client, sent, conversion, output, executed>>

Write ==
  /\ at = "write"
  /\ \E success \in BOOLEAN : Back(success)
  /\ Free({"variant", "node_id"})
  /\ UNCHANGED <<op, client, sent, conversion, received, executed>>

-----------------------------------------------------------------------------
Begin ==
  \/ BeginConnect \/ Disconnect \/ BeginReadValue
  \/ \E value \in Arguments : BeginWriteValue(value)
  \/ \E arguments \in UpTo(MaxInputs, Arguments) : BeginCallMethod(arguments)

Continue ==
  \/ ConnectUsername
  \/ NewPath \/ AllocateNames \/ TranslatePaths \/ Refused \/ CopyId
  \/ BeginConversion \/ CopyText \/ CopyNumbers \/ CopyVariant
  \/ Decode
  \/ NewInputs \/ AllConverted \/ Call \/ ConvertOutput
  \/ Read \/ ConvertRead \/ Write
  \/ Return

Next == Begin \/ Continue \/ ServerExecutes

Spec == Init /\ [][Next]_vars

(* A library call takes at most config->timeout.  *)
FairSpec == Spec /\ WF_vars(Continue)
-----------------------------------------------------------------------------
Locations ==
  {"idle", "password", "object", "method", "newInputs", "convertInput", "call",
   "convertOutput", "readNode", "read", "convertRead", "writeNode", "convertWrite",
   "write", "back"}

Steps == {"start", "names", "service", "answer", "fill", "copy", "decoded"}

ArgumentLists == UpTo(MaxInputs, Arguments)

(* Every variable holds a value of its type; no loop looks beyond the array it    *)
(* converts.                                                                       *)
TypeOK ==
  /\ op \in Operations
  /\ at \in Locations /\ step \in Steps
  /\ client \in {"none", "new", "open"}
  /\ held \in [Objects -> Int]
  /\ args \in ArgumentLists \cup {<<value>> : value \in Arguments}
  /\ Len(inputs) <= Len(args)
  /\ step = "fill" => Len(built.texts) <= Len(Given.texts)
  /\ \A k \in DOMAIN output : output[k].packing \in Packings
  /\ Len(values) <= Len(output)
  /\ lost \in BOOLEAN /\ executed \in BOOLEAN /\ ok \in BOOLEAN

Held(objects) == \A x \in objects : held[x] = 1

(* What the next library call uses is there.  *)
UsedIsHeld ==
  /\ step \in {"names", "service"} => Held({"client", "elements"})
  /\ step = "answer" => Held({"response"})
  /\ step = "copy" /\ Given.type = "vector" => Held({"array"})
  /\ at = "convertInput" => Held({"inputs"})
  /\ at = "call" => Held(Ids \cup {"client", "inputs"})
  /\ at = "convertOutput" => Held({"output"})
  /\ at = "read" => Held({"client", "node_id"})
  /\ at = "convertRead" => Held({"variant"})
  /\ at = "write" => Held({"client", "node_id", "variant"})

(* Whichever library call fails - at the translation of a path, in a conversion,   *)
(* at the server - an operation that ends has freed everything the library gave     *)
(* it and leaves the client alone, a client that did not connect excepted. Nothing   *)
(* is freed twice, used after it was freed, or overwritten while it is still held;    *)
(* only texts may be several at a time, those of one structure.                         *)
EverythingIsFreed ==
  /\ at \in {"idle", "back"} =>
       /\ client # "new"
       /\ \A x \in Objects : held[x] = IF x = "client" /\ client = "open" THEN 1 ELSE 0
  /\ \A x \in Objects \ {"texts"} : held[x] \in {0, 1}
  /\ held["texts"] \in 0..Len(built.texts)
  /\ UsedIsHeld

(* callMethod as the remote call it is meant to be.  *)
Remote == INSTANCE RemoteCall WITH
  phase <- CASE op # "callMethod" -> "none"
             [] op = "callMethod" /\ at = "back" -> "back"
             [] OTHER -> "calling",
  ok <- op = "callMethod" /\ ok

(* callMethod says that it went well only of a method that the server has          *)
(* executed, and executed once; it says that it failed of any other and of some     *)
(* that were executed; and it comes back.                                            *)
IsARemoteCall == Remote!FairSpec

HidesNothing(value) == \A t \in DOMAIN value.texts : ~value.texts[t].hidden

(* What the server is sent is what the caller has given: as many arguments, each   *)
(* in its place and of its type, and read back as the client itself reads variants  *)
(* each is the same value again, texts and numbers in their order. It is so of an    *)
(* argument whose texts have no null character inside, and unless an allocation       *)
(* that nobody looks at has failed.                                                    *)
SentAsGiven ==
  at \in {"call", "write"} =>
    /\ Len(inputs) = Len(args)
    /\ \A k \in DOMAIN inputs :
         /\ Readable(inputs[k]) /\ UaVariantToValue(inputs[k]).type = args[k].type
         /\ ~lost /\ HidesNothing(args[k]) => UaVariantToValue(inputs[k]) = args[k]

(* What a caller is told was received is what the server has answered, all of it   *)
(* and in its order, except that of an array of booleans, integers or texts only    *)
(* the first element is told. Bytes that are not a whole structure, or more than    *)
(* one, are not taken for one; and a failed operation hands out nothing.             *)
ReceivedAsSent ==
  at = "back" =>
    IF ok /\ op \in {"callMethod", "readValue"}
    THEN /\ Len(values) = Len(output)
         /\ \A k \in DOMAIN values :
              LET variant == output[k]
                  same(s, t) ==
                    s = t \/ (variant.type \in Scalars /\ ~variant.scalar /\ s = <<t[1]>>)
              IN  /\ values[k].type = ValueTypes[variant.type]
                  /\ variant.packing \notin {"empty", "broken", "overlong"}
                  /\ same(values[k].texts, variant.texts)
                  /\ same(values[k].numbers, variant.numbers)
    ELSE values = <<>>
=============================================================================
