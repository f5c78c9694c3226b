------------------------- MODULE OpcuaClientProofs -------------------------
(***************************************************************************)
(* What the library allocates is freed, whatever fails, and what is sent is *)
(* what was given, for any number of arguments and results; what a reading   *)
(* of the robot tells is what the server has reported, whatever it reports.   *)
(***************************************************************************)
EXTENDS ClientReadings, SequenceTheorems, TLAPS

Translating == {"object", "method", "readNode", "writeNode"}
Converting == {"convertInput", "convertWrite"}
Reading == {"convertOutput", "convertRead"}

LEMMA Tables ==
  /\ DOMAIN Id = Translating
  /\ Id["object"] = "object_id" /\ Id["method"] = "method_id"
  /\ Id["readNode"] = "node_id" /\ Id["writeNode"] = "node_id"
  /\ After["object"] = "method" /\ After["method"] = "newInputs"
  /\ After["readNode"] = "read" /\ After["writeNode"] = "convertWrite"
BY DEF Id, After, Translating

(* Where an operation can be, and what it has decided by then: an answer is    *)
(* given only at the end, and a method's only good one after the server has    *)
(* executed it.                                                                 *)
OperationInPlace ==
  /\ op \in Operations
  /\ at = "idle" => op = "none"
  /\ at = "password" => op = "connect"
  /\ at \in {"object", "method", "newInputs", "convertInput", "call", "convertOutput"}
       => op = "callMethod"
  /\ at \in {"readNode", "read", "convertRead"} => op = "readValue"
  /\ at \in {"writeNode", "convertWrite", "write"} => op = "writeValue"
  /\ at = "back" => op # "none"

StepInPlace ==
  /\ step \in Steps
  /\ step \in {"names", "service", "answer"} => at \in Translating
  /\ step \in {"fill", "copy"} => at \in Converting
  /\ step = "decoded" => at \in Reading

PlaceInv ==
  /\ at \in Locations /\ client \in {"none", "new", "open"}
  /\ OperationInPlace /\ StepInPlace
  /\ ok => at = "back"
  /\ executed => at \in {"call", "convertOutput", "back"} /\ op = "callMethod"
  /\ at = "convertOutput" => executed
  /\ ok /\ op = "callMethod" => executed

LEMMA PlaceInit == Init => PlaceInv
BY DEF Init, PlaceInv, OperationInPlace, StepInPlace, Locations, Operations, Steps

LEMMA PlaceStep == ASSUME PlaceInv, [Next]_vars PROVE PlaceInv'
<1> USE DEF PlaceInv, OperationInPlace, StepInPlace, Locations, Operations, Steps,
            Translating, Converting, Reading, Goto, Back
<1>1. CASE BeginConnect \/ Disconnect \/ BeginReadValue
  BY <1>1 DEF BeginConnect, Disconnect, BeginReadValue
<1>2. ASSUME NEW arguments \in UpTo(MaxInputs, Arguments), BeginCallMethod(arguments)
      PROVE  PlaceInv'
  BY <1>2 DEF BeginCallMethod
<1>3. ASSUME NEW value \in Arguments, BeginWriteValue(value) PROVE PlaceInv'
  BY <1>3 DEF BeginWriteValue
<1>4. CASE ConnectUsername
  BY <1>4 DEF ConnectUsername
<1>5. CASE NewPath
  BY <1>5, Tables DEF NewPath, NotTranslated
<1>6. CASE AllocateNames \/ TranslatePaths
  BY <1>6 DEF AllocateNames, TranslatePaths
<1>7. CASE Refused
  BY <1>7 DEF Refused, NotTranslated
<1>8. CASE CopyId
  BY <1>8, Tables DEF CopyId, NotTranslated
<1>9. CASE BeginConversion
  BY <1>9 DEF BeginConversion, NotConverted
<1>10. CASE CopyText
  BY <1>10 DEF CopyText
<1>11. CASE CopyNumbers
  BY <1>11 DEF CopyNumbers, NotConverted
<1>12. CASE CopyVariant
  BY <1>12 DEF CopyVariant, NotConverted
<1>13. CASE Decode
  BY <1>13 DEF Decode
<1>14. CASE NewInputs
  BY <1>14 DEF NewInputs
<1>15. CASE AllConverted
  BY <1>15 DEF AllConverted
<1>16. CASE Call
  BY <1>16 DEF Call
<1>17. CASE ConvertOutput
  BY <1>17 DEF ConvertOutput
<1>18. CASE Read
  BY <1>18 DEF Read
<1>19. CASE ConvertRead
  <2>1. NextIsReadable \in BOOLEAN
    BY DEF NextIsReadable, Readable
  <2> QED BY <1>19, <2>1 DEF ConvertRead
<1>20. CASE Write
  BY <1>20 DEF Write
<1>21. CASE Return
  BY <1>21 DEF Return
<1>22. CASE ServerExecutes
  BY <1>22 DEF ServerExecutes
<1>23. CASE UNCHANGED vars
  BY <1>23 DEF vars
<1> QED
  BY <1>1, <1>2, <1>3, <1>4, <1>5, <1>6, <1>7, <1>8, <1>9, <1>10, <1>11, <1>12,
     <1>13, <1>14, <1>15, <1>16, <1>17, <1>18, <1>19, <1>20, <1>21, <1>22, <1>23
     DEF Next, Begin, Continue

(* callMethod is the remote call: a step of it or none, whatever the client     *)
(* does.  The safety part of IsARemoteCall.                                       *)
THEOREM CallsAreRemoteCalls == Spec => Remote!Spec
<1>1. Init => Remote!Init
  BY DEF Init, Remote!Init
<1>2. ASSUME PlaceInv, [Next]_vars PROVE [Remote!Next]_Remote!vars
  <2> DEFINE Calling == op = "callMethod" /\ at # "back" /\ op' = op
             (* A step inside an operation that is not the method's good answer.  *)
             Inside == /\ at # "back" /\ UNCHANGED <<op, executed>>
                       /\ (UNCHANGED ok /\ at' # "back") \/ (at' = "back" /\ ok' = FALSE)
  <2>12. ASSUME Calling, UNCHANGED executed, at' # "back", ok = FALSE, ok' = FALSE
        PROVE  UNCHANGED Remote!vars
    BY <2>12 DEF Remote!vars
  <2>13. ASSUME Calling, UNCHANGED executed, at' = "back", ok' = FALSE \/ (ok' = TRUE /\ executed)
        PROVE  Remote!Return
    <3>1. ok' = FALSE \/ ok' = TRUE
      BY <2>13
    <3> QED BY <2>13, <3>1 DEF Remote!Return
  <2>14. ok = FALSE \/ at = "back"
    BY <1>2 DEF PlaceInv
  <2> HIDE DEF Calling
  <2>15. ASSUME Inside PROVE Remote!Next \/ UNCHANGED Remote!vars
    <3>1. CASE op # "callMethod"
      BY <2>15, <3>1 DEF Remote!vars
    <3>2. CASE op = "callMethod" /\ UNCHANGED ok /\ at' # "back"
      <4>1. ok = FALSE /\ Calling
        BY <2>14, <2>15, <3>2 DEF Calling
      <4>2. ok' = FALSE
        BY <3>2, <4>1
      <4> QED BY <2>12, <2>15, <3>2, <4>1, <4>2
    <3>3. CASE op = "callMethod" /\ at' = "back" /\ ok' = FALSE
      BY <2>13, <2>15, <3>3 DEF Calling, Remote!Next
    <3> QED BY <2>15, <3>1, <3>2, <3>3
  <2> USE DEF Goto, Back
  <2>1. CASE BeginConnect \/ Disconnect \/ BeginReadValue
    BY <1>2, <2>1 DEF PlaceInv, OperationInPlace, BeginConnect, Disconnect, BeginReadValue, Remote!vars
  <2>2. ASSUME NEW arguments \in UpTo(MaxInputs, Arguments), BeginCallMethod(arguments)
        PROVE  Remote!Begin
    BY <1>2, <2>2 DEF PlaceInv, OperationInPlace, BeginCallMethod, Remote!Begin
  <2>3. ASSUME NEW value \in Arguments, BeginWriteValue(value) PROVE UNCHANGED Remote!vars
    BY <1>2, <2>3 DEF PlaceInv, OperationInPlace, BeginWriteValue, Remote!vars
  <2>4. CASE ConnectUsername \/ Read \/ ConvertRead \/ Write
    BY <1>2, <2>4 DEF PlaceInv, OperationInPlace, Remote!vars, ConnectUsername, Read, ConvertRead, Write
  <2>5. CASE NewPath \/ AllocateNames \/ TranslatePaths \/ Refused \/ CopyId
    <3>1. Inside
      BY <1>2, <2>5, Tables
      DEF PlaceInv, StepInPlace, Translating, NewPath, AllocateNames, TranslatePaths, Refused, CopyId,
          NotTranslated
    <3> QED BY <2>15, <3>1
  <2>6. CASE BeginConversion \/ CopyText \/ CopyNumbers \/ CopyVariant \/ Decode
    <3>1. Inside
      BY <1>2, <2>6
      DEF PlaceInv, StepInPlace, Converting, BeginConversion, CopyText, CopyNumbers, CopyVariant,
          NotConverted, Decode
    <3> QED BY <2>15, <3>1
  <2>7. CASE NewInputs \/ AllConverted \/ Call
    <3>1. Inside
      BY <2>7 DEF NewInputs, AllConverted, Call
    <3> QED BY <2>15, <3>1
  <2>8. CASE ConvertOutput
    <3>1. executed
      BY <1>2, <2>8 DEF PlaceInv, ConvertOutput
    <3>2. /\ Calling /\ UNCHANGED executed
          /\ \/ UNCHANGED ok /\ at' # "back"
             \/ at' = "back" /\ (ok' = FALSE \/ ok' = TRUE)
      BY <1>2, <2>8 DEF PlaceInv, OperationInPlace, Calling, ConvertOutput
    <3>3. CASE UNCHANGED ok /\ at' # "back"
      <4>1. ok = FALSE
        BY <2>14, <3>2 DEF Calling
      <4>2. ok' = FALSE
        BY <3>3, <4>1
      <4> QED BY <2>12, <3>2, <3>3, <4>1, <4>2
    <3>4. CASE at' = "back" /\ (ok' = FALSE \/ ok' = TRUE)
      BY <2>13, <3>1, <3>2, <3>4 DEF Remote!Next
    <3> QED BY <3>2, <3>3, <3>4
  <2>9. CASE Return
    <3>1. CASE op = "callMethod"
      <4>1. Remote!Forget
        BY <2>9, <3>1 DEF Return, Remote!Forget
      <4> QED BY <4>1 DEF Remote!Next
    <3>2. CASE op # "callMethod"
      <4>1. executed = FALSE
        BY <1>2, <3>2 DEF PlaceInv
      <4>2. op' = "none" /\ executed' = FALSE
        BY <2>9 DEF Return
      <4> QED BY <3>2, <4>1, <4>2 DEF Remote!vars
    <3> QED BY <3>1, <3>2
  <2>10. CASE ServerExecutes
    <3>1. op = "callMethod" /\ at = "call" /\ executed = FALSE
      BY <1>2, <2>10 DEF PlaceInv, OperationInPlace, ServerExecutes
    <3>2. Remote!Execute
      BY <2>10, <3>1 DEF ServerExecutes, Remote!Execute
    <3> QED BY <3>2 DEF Remote!Next
  <2>11. CASE UNCHANGED vars
    BY <2>11 DEF vars, Remote!vars
  <2> QED
    BY <1>2, <2>1, <2>2, <2>3, <2>4, <2>5, <2>6, <2>7, <2>8, <2>9, <2>10, <2>11
       DEF Next, Begin, Continue, Remote!Next
<1> QED BY <1>1, <1>2, PlaceInit, PlaceStep, PTL DEF Spec, Remote!Spec
-----------------------------------------------------------------------------
(* What is converted, and how far: each variant carries the argument at its     *)
(* place, and each value the variant at its place.                               *)
Copies == {CString(text) : text \in Texts} \cup {EmptyText}
Sendable == [type : DOMAIN ValueTypes, scalar : BOOLEAN, packing : Packings,
             texts : Seq(Copies), numbers : Seq(Int)]
Told == {UaVariantToValue(variant) : variant \in Results \cup Reported}

(* The first n texts, copied.  *)
AreCopies(texts, n, originals) == \A t \in 1..n : texts[t] = CString(originals[t])

(* A variant of the value's type, and of its content unless some was lost.  *)
Carries(variant, value) ==
  /\ value.type # "struct"
  /\ variant = VariantOf(value, variant.texts, variant.numbers)
  /\ Len(variant.texts) = Len(value.texts)
  /\ lost = FALSE => /\ AreCopies(variant.texts, Len(value.texts), value.texts)
                     /\ variant.numbers = value.numbers

Converted ==
  /\ inputs \in Seq(Sendable) /\ Len(inputs) <= Len(args)
  /\ \A k \in 1..Len(inputs) : Carries(inputs[k], args[k])

ReadBack ==
  /\ values \in Seq(Told) /\ Len(values) <= Len(output)
  /\ \A k \in 1..Len(values) : Readable(output[k]) /\ values[k] = UaVariantToValue(output[k])

(* How far at each place: nothing before the first conversion, everything      *)
(* before what was converted is used.                                            *)
Stages ==
  /\ at \in {"idle", "object", "method", "newInputs", "writeNode", "convertWrite"} => inputs = <<>>
  /\ at \in {"call", "write"} => Len(inputs) = Len(args)
  /\ at \in {"writeNode", "convertWrite"} => Len(args) = 1
  /\ at \notin {"convertOutput", "convertRead", "back"} => output = <<>> /\ values = <<>>
  /\ at = "convertRead" => Len(output) = 1 /\ values = <<>>
  /\ at = "back" /\ ok = TRUE /\ op \in {"callMethod", "readValue"} => Len(values) = Len(output)
  /\ at = "back" /\ (ok = FALSE \/ op \notin {"callMethod", "readValue"}) => values = <<>>

DataInv ==
  /\ args \in ArgumentLists \cup {<<value>> : value \in Arguments}
  /\ output \in Seq(Results \cup Reported)
  /\ Converted /\ ReadBack /\ Stages

(* How far the structure under way is filled.  *)
Filling ==
  /\ ToConvert /\ Given.type # "struct"
  /\ Len(built.texts) <= Len(Given.texts)
  /\ step = "copy" => TextsFilled /\ HasArray
  /\ lost = FALSE =>
       /\ AreCopies(built.texts, Len(built.texts), Given.texts)
       /\ step = "copy" \/ ~HasArray => built.numbers = Given.numbers

BuiltInv ==
  /\ built \in [texts : Seq(Copies), numbers : Seq(Int)]
  /\ IF step \in {"fill", "copy"} THEN Filling ELSE built = Nothing

(* A list of at most n elements is a sequence of them.  *)
LEMMA ShortLists ==
  ASSUME NEW n \in Nat, NEW S
  PROVE  UpTo(n, S) \subseteq Seq(S) /\ <<>> \in UpTo(n, S)
<1>1. ASSUME NEW s \in UpTo(n, S) PROVE s \in Seq(S)
  <2>1. PICK k \in 0..n : s \in [1..k -> S]
    BY <1>1 DEF UpTo
  <2> QED BY <2>1
<1>2. <<>> \in [1..0 -> S] /\ 0 \in 0..n
  OBVIOUS
<1> QED BY <1>1, <1>2 DEF UpTo

LEMMA ArgumentsAreLists ==
  ASSUME args \in ArgumentLists \cup {<<value>> : value \in Arguments}
  PROVE  args \in Seq(Arguments)
<1>1. ArgumentLists \subseteq Seq(Arguments)
  BY ShortLists, BoundsAssumption DEF ArgumentLists
<1>2. \A value \in Arguments : <<value>> \in Seq(Arguments)
  OBVIOUS
<1> QED BY <1>1, <1>2

(* One more value is read.  *)
LEMMA ReadingGoesOn ==
  ASSUME output \in Seq(Results \cup Reported), ReadBack, ToRead, NextIsReadable, ReadNext,
         UNCHANGED output
  PROVE  ReadBack' /\ Len(values') = Len(values) + 1
<1> DEFINE i == Len(values) + 1
<1>1. i \in 1..Len(output) /\ output[i] \in Results \cup Reported
  BY DEF ReadBack, ToRead
<1>2. UaVariantToValue(output[i]) \in Told
  BY <1>1 DEF Told
<1>3. /\ values' \in Seq(Told) /\ Len(values') = i /\ values'[i] = UaVariantToValue(output[i])
      /\ \A k \in 1..Len(values) : values'[k] = values[k]
  BY <1>2 DEF ReadBack, ReadNext, Answered
<1>4. \A k \in 1..Len(values') :
        Readable(output'[k]) /\ values'[k] = UaVariantToValue(output'[k])
  <2> SUFFICES ASSUME NEW k \in 1..i
               PROVE  Readable(output[k]) /\ values'[k] = UaVariantToValue(output[k])
    BY <1>3
  <2>1. CASE k = i
    BY <2>1, <1>3 DEF NextIsReadable, Answered
  <2>2. CASE k # i
    <3>1. k \in 1..Len(values)
      BY <2>2 DEF ReadBack
    <3> QED BY <3>1, <1>3 DEF ReadBack
  <2> QED BY <2>1, <2>2
<1> QED BY <1>1, <1>3, <1>4 DEF ReadBack

LEMMA GivenIsAValue ==
  ASSUME DataInv, ToConvert
  PROVE  /\ Len(inputs) + 1 \in 1..Len(args) /\ Given \in Arguments /\ IsValue(Given)
         /\ Given.texts \in Seq(Texts) /\ Given.numbers \in Seq(Int)
<1>1. args \in Seq(Arguments) /\ inputs \in Seq(Sendable) /\ Len(inputs) < Len(args)
  BY ArgumentsAreLists DEF DataInv, Converted, ToConvert
<1>2. Len(inputs) + 1 \in 1..Len(args)
  BY <1>1
<1>3. Given \in Arguments
  BY <1>1, <1>2 DEF Given
<1> QED BY <1>2, <1>3, DataAssumption DEF IsValue, IsContent

LEMMA CopiesAreTexts == EmptyText \in Copies /\ \A text \in Texts : CString(text) \in Copies
BY DEF Copies

LEMMA DataInit == Init => DataInv /\ BuiltInv
<1> SUFFICES ASSUME Init PROVE DataInv /\ BuiltInv
  OBVIOUS
<1>1. args \in ArgumentLists
  BY ShortLists, BoundsAssumption DEF Init, ArgumentLists
<1>2. <<>> \in Seq(Results \cup Reported) /\ <<>> \in Seq(Sendable) /\ <<>> \in Seq(Told)
  OBVIOUS
<1>3. Converted /\ ReadBack
  BY <1>2 DEF Init, Converted, ReadBack
<1>4. Stages
  BY DEF Init, Stages
<1>5. BuiltInv
  BY DEF Init, BuiltInv, Nothing
<1> QED BY <1>1, <1>2, <1>3, <1>4, <1>5 DEF Init, DataInv

(* A structure that is filled stays what it is while nothing of it changes.  *)
LEMMA FillingStays ==
  ASSUME Filling, UNCHANGED <<step, args, inputs, built>>, lost' = FALSE => lost = FALSE
  PROVE  Filling'
BY DEF Filling, ToConvert, Given, TextsFilled, HasArray, AreCopies

LEMMA BuiltStep == ASSUME PlaceInv, DataInv, BuiltInv, [Next]_vars PROVE BuiltInv'
<1> DEFINE Apart == step \notin {"fill", "copy"}
<1>1. ASSUME Apart, step' \notin {"fill", "copy"}, built' \in {built, Nothing} PROVE BuiltInv'
  <2>1. Nothing \in [texts : Seq(Copies), numbers : Seq(Int)]
    BY DEF Nothing
  <2> QED BY <1>1, <2>1 DEF BuiltInv
<1>2. ASSUME at \notin Converting PROVE Apart
  BY <1>2 DEF PlaceInv, StepInPlace
<1>3. ASSUME step' = "start", built' = Nothing PROVE BuiltInv'
  BY <1>3 DEF BuiltInv, Nothing
<1> USE DEF Goto, Back
<1>4. CASE BeginConnect \/ Disconnect \/ BeginReadValue
  BY <1>1, <1>2, <1>4 DEF BeginConnect, Disconnect, BeginReadValue, conversion, Converting
<1>5. ASSUME NEW arguments \in UpTo(MaxInputs, Arguments), BeginCallMethod(arguments)
      PROVE  BuiltInv'
  BY <1>1, <1>2, <1>5 DEF BeginCallMethod, conversion, Converting
<1>6. ASSUME NEW value \in Arguments, BeginWriteValue(value) PROVE BuiltInv'
  BY <1>1, <1>2, <1>6 DEF BeginWriteValue, conversion, Converting
<1>7. CASE ConnectUsername
  BY <1>1, <1>2, <1>7 DEF ConnectUsername, conversion, Converting
<1>8. CASE NewPath \/ AllocateNames \/ TranslatePaths \/ Refused \/ CopyId
  <2>1. Apart
    BY <1>8, Tables
    DEF NewPath, AllocateNames, TranslatePaths, Refused, CopyId
  <2> QED
    BY <1>1, <1>8, <2>1
    DEF NewPath, AllocateNames, TranslatePaths, Refused, CopyId, NotTranslated, conversion
<1>9. CASE BeginConversion
  <2>1. CASE Given.type = "struct"
    BY <1>3, <1>9, <2>1 DEF BeginConversion, NotConverted
  <2>2. CASE Given.type # "struct"
    <3>1. /\ step' = "fill" /\ UNCHANGED <<args, inputs>> /\ ToConvert
          /\ built' = [texts |-> <<>>, numbers |-> IF HasArray THEN <<>> ELSE Given.numbers]
      BY <1>9, <2>2 DEF BeginConversion, sent
    <3>2. Given.texts \in Seq(Texts) /\ Given.numbers \in Seq(Int)
      BY <3>1, GivenIsAValue
    <3>3. Given' = Given /\ ToConvert' = ToConvert /\ HasArray' = HasArray
      BY <3>1 DEF Given, ToConvert, HasArray
    <3>4. /\ built'.texts = <<>> /\ Len(built'.texts) = 0 /\ 0 <= Len(Given.texts)
          /\ ~HasArray => built'.numbers = Given.numbers
      BY <3>1, <3>2
    <3>5. built' \in [texts : Seq(Copies), numbers : Seq(Int)]
      BY <3>1, <3>2
    <3> QED BY <2>2, <3>1, <3>3, <3>4, <3>5 DEF BuiltInv, Filling, AreCopies
  <2> QED BY <2>1, <2>2
<1>10. CASE CopyText
  <2> DEFINE n == Len(built.texts)
             text == Given.texts[n + 1]
  <2>1. /\ step = "fill" /\ step' = "fill" /\ ~TextsFilled /\ UNCHANGED <<args, inputs>>
        /\ Filling /\ built \in [texts : Seq(Copies), numbers : Seq(Int)]
    BY <1>10 DEF CopyText, sent, BuiltInv
  <2>2. Given.texts \in Seq(Texts) /\ n \in Nat /\ n < Len(Given.texts)
    BY <2>1, GivenIsAValue DEF Filling, TextsFilled
  <2>3. Given' = Given /\ ToConvert' = ToConvert /\ HasArray' = HasArray
    BY <2>1 DEF Given, ToConvert, HasArray
  <2>4. CString(text) \in Copies /\ EmptyText \in Copies
    BY <2>2, CopiesAreTexts
  <2>5. ASSUME NEW new \in Copies, AppendText(new),
               lost' = FALSE => lost = FALSE /\ new = CString(text)
        PROVE  BuiltInv'
    <3>1. /\ built' = [built EXCEPT !.texts = Append(built.texts, new)]
          /\ Append(built.texts, new) \in Seq(Copies)
      BY <2>1, <2>5 DEF AppendText
    <3>2. /\ built' \in [texts : Seq(Copies), numbers : Seq(Int)]
          /\ built'.texts = Append(built.texts, new) /\ built'.numbers = built.numbers
      BY <2>1, <3>1
    <3>3. /\ Len(built'.texts) = n + 1 /\ built'.texts[n + 1] = new
          /\ \A t \in 1..n : built'.texts[t] = built.texts[t]
      BY <2>1, <3>2
    <3>4. ASSUME lost' = FALSE PROVE AreCopies(built'.texts, Len(built'.texts), Given.texts)
      <4> SUFFICES ASSUME NEW t \in 1..(n + 1) PROVE built'.texts[t] = CString(Given.texts[t])
        BY <3>3 DEF AreCopies
      <4>1. CASE t = n + 1
        BY <2>5, <3>3, <3>4, <4>1
      <4>2. CASE t # n + 1
        <5>1. t \in 1..n
          BY <2>2, <4>2
        <5>2. AreCopies(built.texts, n, Given.texts)
          BY <2>1, <2>5, <3>4 DEF Filling
        <5> QED BY <3>3, <5>1, <5>2 DEF AreCopies
      <4> QED BY <4>1, <4>2
    <3>5. ASSUME lost' = FALSE, ~HasArray PROVE built'.numbers = Given.numbers
      BY <2>1, <2>5, <3>2, <3>5 DEF Filling
    <3>6. Len(built'.texts) <= Len(Given.texts)
      BY <2>2, <3>3
    <3> HIDE DEF n, text
    <3>7. Filling'
      BY <2>1, <2>3, <3>4, <3>5, <3>6 DEF Filling
    <3> QED BY <2>1, <3>2, <3>7 DEF BuiltInv
  <2>6. CASE AppendText(CString(text)) /\ UNCHANGED lost
    BY <2>4, <2>5, <2>6
  <2>7. CASE AppendText(EmptyText) /\ lost' = TRUE
    BY <2>4, <2>5, <2>7
  <2> QED BY <1>10, <2>6, <2>7 DEF CopyText
<1>11. CASE CopyNumbers
  <2>1. /\ step = "fill" /\ TextsFilled /\ HasArray /\ UNCHANGED <<args, inputs>>
        /\ Filling /\ built \in [texts : Seq(Copies), numbers : Seq(Int)]
    BY <1>11 DEF CopyNumbers, sent, BuiltInv
  <2>2. Given.numbers \in Seq(Int)
    BY <2>1, GivenIsAValue DEF Filling
  <2>3. Given' = Given /\ ToConvert' = ToConvert /\ HasArray' = HasArray
    BY <2>1 DEF Given, ToConvert, HasArray
  <2>4. CASE built' = [built EXCEPT !.numbers = Given.numbers] /\ step' = "copy" /\ UNCHANGED lost
    <3>1. /\ built'.texts = built.texts /\ built'.numbers = Given.numbers
          /\ built' \in [texts : Seq(Copies), numbers : Seq(Int)]
      BY <2>1, <2>2, <2>4
    <3>2. TextsFilled'
      BY <2>1, <2>3, <3>1 DEF TextsFilled
    <3>3. Filling'
      BY <2>1, <2>3, <2>4, <3>1, <3>2 DEF Filling
    <3> QED BY <2>4, <3>1, <3>3 DEF BuiltInv
  <2>5. CASE lost' = TRUE /\ step' = "copy" /\ UNCHANGED built
    <3>1. TextsFilled'
      BY <2>1, <2>3, <2>5 DEF TextsFilled
    <3>2. Filling'
      BY <2>1, <2>3, <2>5, <3>1 DEF Filling
    <3> QED BY <2>1, <2>5, <3>2 DEF BuiltInv
  <2>6. CASE NotConverted({})
    BY <1>3, <2>6 DEF NotConverted
  <2> QED BY <1>11, <2>4, <2>5, <2>6 DEF CopyNumbers
<1>12. CASE CopyVariant
  BY <1>3, <1>12 DEF CopyVariant, NotConverted
<1>13. CASE Decode
  BY <1>1, <1>2, <1>13 DEF Decode, conversion, Converting
<1>14. CASE NewInputs \/ AllConverted \/ Call
  <2>1. Apart
    BY <1>2, <1>14 DEF NewInputs, AllConverted, Call, Converting
  <2> QED BY <1>1, <1>14, <2>1 DEF NewInputs, AllConverted, Call, conversion
<1>15. CASE ConvertOutput \/ Read \/ ConvertRead \/ Write
  BY <1>1, <1>2, <1>15 DEF ConvertOutput, Read, ConvertRead, Write, conversion, Converting
<1>16. CASE Return
  BY <1>3, <1>16 DEF Return
<1>17. CASE ServerExecutes \/ UNCHANGED vars
  <2>1. UNCHANGED <<step, args, inputs, built, lost>>
    BY <1>17 DEF ServerExecutes, vars, sent, conversion
  <2>2. Filling => Filling'
    BY <2>1, FillingStays
  <2> QED BY <2>1, <2>2 DEF BuiltInv
<1> QED
  BY <1>4, <1>5, <1>6, <1>7, <1>8, <1>9, <1>10, <1>11, <1>12, <1>13, <1>14, <1>15, <1>16, <1>17
     DEF Next, Begin, Continue

LEMMA TypeForIsItsType ==
  ASSUME NEW value, IsValue(value), value.type # "struct"
  PROVE  TypeFor(value) \in DOMAIN ValueTypes /\ ValueTypes[TypeFor(value)] = value.type
<1>1. PICK type \in DOMAIN ValueTypes : ValueTypes[type] = value.type
  BY Zenon DEF IsValue
<1> QED BY <1>1, Zenon DEF TypeFor

(* One more argument is converted.  *)
LEMMA ConversionGoesOn ==
  ASSUME DataInv, BuiltInv, Filling, TextsFilled, step = "copy" \/ ~HasArray,
         inputs' = Append(inputs, VariantOf(Given, built.texts, built.numbers)),
         UNCHANGED <<args, lost>>
  PROVE  Converted' /\ Len(inputs') = Len(inputs) + 1
<1> DEFINE i == Len(inputs) + 1
           variant == VariantOf(Given, built.texts, built.numbers)
           type == TypeFor(Given)
<1>1. i \in 1..Len(args) /\ Given = args[i] /\ IsValue(Given) /\ Given.type # "struct"
  BY GivenIsAValue DEF Filling, Given
<1>2. type \in DOMAIN ValueTypes
  BY <1>1, TypeForIsItsType
<1>3. built.texts \in Seq(Copies) /\ built.numbers \in Seq(Int)
  BY DEF BuiltInv
<1>4. /\ variant = Variant(type, Given.type # "vector",
                           IF type \in CustomTypes THEN "decoded" ELSE "plainly",
                           built.texts, built.numbers)
      /\ variant.texts = built.texts /\ variant.numbers = built.numbers
  BY DEF VariantOf, Variant
<1>5. variant \in Sendable
  BY <1>2, <1>3, <1>4 DEF Variant, Sendable, Packings
<1>6. /\ Len(variant.texts) = Len(Given.texts)
      /\ lost = FALSE => /\ AreCopies(variant.texts, Len(Given.texts), Given.texts)
                         /\ variant.numbers = Given.numbers
  BY <1>4 DEF Filling, TextsFilled
<1>7. Carries(variant, args[i])
  BY <1>1, <1>4, <1>6 DEF Carries
<1> HIDE DEF variant, type
<1>8. /\ inputs' \in Seq(Sendable) /\ Len(inputs') = i /\ inputs'[i] = variant
      /\ \A k \in 1..Len(inputs) : inputs'[k] = inputs[k]
  BY <1>5 DEF DataInv, Converted, variant
<1>9. \A k \in 1..Len(inputs') : Carries(inputs'[k], args'[k])
  <2> SUFFICES ASSUME NEW k \in 1..i PROVE Carries(inputs'[k], args[k])
    BY <1>8
  <2>1. CASE k = i
    BY <2>1, <1>7, <1>8
  <2>2. CASE k # i
    <3>1. k \in 1..Len(inputs)
      BY <2>2 DEF DataInv, Converted
    <3> QED BY <3>1, <1>8 DEF DataInv, Converted
  <2> QED BY <2>1, <2>2
<1> HIDE DEF i
<1>10. inputs' \in Seq(Sendable) /\ Len(inputs') <= Len(args')
  BY <1>1, <1>8
<1> QED BY <1>8, <1>9, <1>10 DEF Converted, Carries, i

LEMMA DataStep == ASSUME PlaceInv, DataInv, BuiltInv, [Next]_vars PROVE DataInv'
<1> USE DEF Goto, Back
<1>1. args \in Seq(Arguments)
  BY ArgumentsAreLists DEF DataInv
<1>2. ASSUME UNCHANGED <<args, inputs>>, lost' = FALSE => lost = FALSE PROVE Converted'
  BY <1>2 DEF DataInv, Converted, Carries
<1>19. ASSUME UNCHANGED <<sent, received>>, lost' = FALSE => lost = FALSE, Stages' PROVE DataInv'
  BY <1>2, <1>19 DEF DataInv, ReadBack, sent, received
<1>3. CASE BeginConnect \/ Disconnect \/ BeginReadValue
  BY <1>19, <1>3 DEF BeginConnect, Disconnect, BeginReadValue, DataInv, Stages, sent, conversion, received
<1>4. ASSUME NEW arguments \in UpTo(MaxInputs, Arguments), BeginCallMethod(arguments)
      PROVE  DataInv'
  <2>1. /\ args' \in ArgumentLists /\ args' \in Seq(Arguments)
        /\ at = "idle" /\ at' = "object" /\ inputs = <<>> /\ UNCHANGED <<inputs, output, values>>
    BY <1>4, ShortLists, BoundsAssumption
    DEF BeginCallMethod, ArgumentLists, DataInv, Stages, received
  <2>2. Converted' /\ ReadBack'
    BY <2>1 DEF DataInv, Converted, ReadBack
  <2>3. Stages'
    BY <2>1 DEF DataInv, Stages
  <2> QED BY <2>1, <2>2, <2>3 DEF DataInv
<1>5. ASSUME NEW value \in Arguments, BeginWriteValue(value) PROVE DataInv'
  <2>1. /\ args' = <<value>> /\ args' \in Seq(Arguments) /\ Len(args') = 1
        /\ at = "idle" /\ at' = "writeNode" /\ inputs = <<>> /\ UNCHANGED <<inputs, output, values>>
    BY <1>5 DEF BeginWriteValue, DataInv, Stages, received
  <2>2. Converted' /\ ReadBack'
    BY <2>1 DEF DataInv, Converted, ReadBack
  <2>3. Stages'
    BY <2>1 DEF DataInv, Stages
  <2> QED BY <2>1, <2>2, <2>3 DEF DataInv
<1>6. CASE ConnectUsername
  BY <1>19, <1>6 DEF ConnectUsername, PlaceInv, OperationInPlace, DataInv, Stages, sent, conversion, received
<1>7. CASE NewPath \/ AllocateNames \/ TranslatePaths \/ Refused \/ CopyId
  <2>1. /\ at \in Translating /\ UNCHANGED <<sent, conversion, received>>
        /\ \/ UNCHANGED <<at, ok>>
           \/ at' = "back" /\ ok' = FALSE
           \/ at' = After[at]
    BY <1>7, Tables
    DEF NewPath, AllocateNames, TranslatePaths, Refused, CopyId, NotTranslated, PlaceInv, StepInPlace
  <2>2. Stages'
    BY <2>1, Tables DEF DataInv, Stages, Translating, sent, received
  <2> QED BY <1>19, <2>1, <2>2 DEF conversion
<1>8. CASE NewInputs
  BY <1>19, <1>8 DEF NewInputs, DataInv, Stages, sent, conversion, received
<1>9. CASE BeginConversion \/ CopyText \/ CopyNumbers
  <2>1. /\ at \in Converting /\ UNCHANGED <<sent, received>> /\ (lost' = FALSE => lost = FALSE)
        /\ UNCHANGED at \/ (at' = "back" /\ ok' = FALSE)
    BY <1>9
    DEF BeginConversion, CopyText, CopyNumbers, NotConverted, PlaceInv, StepInPlace, Converting
  <2>2. Stages'
    BY <2>1 DEF DataInv, Stages, Converting, sent, received
  <2> QED BY <1>19, <2>1, <2>2
<1>10. CASE CopyVariant
  <2>1. /\ UNCHANGED <<args, lost, output, values>> /\ at \in Converting
        /\ step \in {"fill", "copy"} /\ output = <<>> /\ values = <<>>
    BY <1>10 DEF CopyVariant, PlaceInv, StepInPlace, DataInv, Stages, Converting, received
  <2>2. CASE /\ inputs' = Append(inputs, VariantOf(Given, built.texts, built.numbers))
             /\ (at = "convertInput" /\ at' = at) \/ (at = "convertWrite" /\ at' = "write")
    <3>1. Filling /\ TextsFilled /\ (step = "copy" \/ ~HasArray)
      BY <1>10, <2>1 DEF CopyVariant, BuiltInv, Filling
    <3>2. Converted' /\ Len(inputs') = Len(inputs) + 1
      BY <2>1, <2>2, <3>1, ConversionGoesOn
    <3>3. at = "convertWrite" => inputs = <<>> /\ Len(args) = 1
      BY DEF DataInv, Stages
    <3>4. output' = <<>> /\ values' = <<>>
      BY <2>1
    <3>5. ASSUME at' = "convertInput" PROVE Stages'
      BY <3>4, <3>5 DEF Stages
    <3>6. ASSUME at = "convertWrite", at' = "write" PROVE Stages'
      <4>1. Len(inputs) = 0 /\ Len(args) = 1 /\ args' = args
        BY <2>1, <3>3, <3>6
      <4>2. Len(inputs') = Len(args')
        BY <3>2, <4>1
      <4> QED BY <3>4, <3>6, <4>2 DEF Stages
    <3>7. Stages'
      BY <2>2, <3>5, <3>6
    <3> QED BY <2>1, <3>2, <3>7 DEF DataInv, ReadBack
  <2>3. CASE at' = "back" /\ ok' = FALSE /\ UNCHANGED inputs
    <3>1. Stages'
      BY <2>1, <2>3 DEF Stages
    <3> QED BY <1>19, <2>1, <2>3, <3>1 DEF sent, received
  <2> QED BY <1>10, <2>2, <2>3 DEF CopyVariant, NotConverted
<1>11. CASE Decode
  BY <1>19, <1>11 DEF Decode, DataInv, Stages, sent, conversion, received
<1>12. CASE AllConverted
  <2>1. UNCHANGED <<sent, conversion, received>> /\ at = "convertInput" /\ at' = "call" /\ ~ToConvert
    BY <1>12 DEF AllConverted
  <2>2. Len(inputs) = Len(args)
    BY <1>1, <2>1 DEF ToConvert, DataInv, Converted
  <2> QED BY <1>19, <2>1, <2>2 DEF DataInv, Stages, sent, conversion, received
<1>13. CASE Call
  <2>1. UNCHANGED <<args, inputs, lost, values>> /\ at = "call" /\ values = <<>>
    BY <1>13 DEF Call, sent, conversion, DataInv, Stages
  <2>2. CASE at' = "convertOutput" /\ output' \in UpTo(MaxOutputs, Results)
    <3>1. output' \in Seq(Results)
      BY <2>2, ShortLists, BoundsAssumption
    <3>2. output' \in Seq(Results \cup Reported)
      BY <3>1
    <3>5. Converted'
      BY <1>2, <2>1
    <3>3. Converted' /\ ReadBack'
      BY <2>1, <3>2, <3>5 DEF DataInv, ReadBack
    <3>4. Stages'
      BY <2>1, <2>2 DEF DataInv, Stages
    <3> QED BY <2>1, <3>2, <3>3, <3>4 DEF DataInv
  <2>3. CASE at' = "back" /\ ok' = FALSE /\ UNCHANGED output
    BY <1>19, <2>1, <2>3 DEF DataInv, Stages, sent, received
  <2> QED BY <1>13, <2>2, <2>3 DEF Call
<1>14. CASE ConvertOutput
  <2>1. UNCHANGED <<args, inputs, lost, output>> /\ at = "convertOutput" /\ Converted'
    BY <1>2, <1>14 DEF ConvertOutput, sent, conversion
  <2>2. CASE ToRead /\ NextIsReadable /\ ReadNext /\ UNCHANGED <<at, ok>>
    <3>1. ReadBack'
      BY <2>1, <2>2, ReadingGoesOn DEF DataInv
    <3>2. Stages'
      BY <2>1, <2>2 DEF DataInv, Stages
    <3> QED BY <2>1, <3>1, <3>2 DEF DataInv
  <2>3. CASE values' = <<>> /\ at' = "back" /\ ok' = FALSE
    <3>1. ReadBack'
      BY <2>1, <2>3 DEF DataInv, ReadBack
    <3>2. Stages'
      BY <2>1, <2>3 DEF DataInv, Stages
    <3> QED BY <2>1, <3>1, <3>2 DEF DataInv
  <2>4. CASE ~ToRead /\ at' = "back" /\ ok' = TRUE /\ UNCHANGED values
    <3>1. op' = "callMethod" /\ Len(values) = Len(output)
      BY <1>14, <2>4 DEF ConvertOutput, ToRead, DataInv, ReadBack, PlaceInv, OperationInPlace
    <3> QED BY <1>19, <2>1, <2>4, <3>1 DEF DataInv, Stages, sent, received
  <2> QED BY <1>14, <2>2, <2>3, <2>4 DEF ConvertOutput
<1>15. CASE Read
  <2>1. UNCHANGED <<args, inputs, lost, values>> /\ at = "read" /\ values = <<>> /\ Converted'
    BY <1>2, <1>15 DEF Read, sent, conversion, DataInv, Stages
  <2>2. ASSUME NEW variant \in Reported, output' = <<variant>>, at' = "convertRead" PROVE DataInv'
    <3>1. output' \in Seq(Results \cup Reported) /\ Len(output') = 1
      BY <2>2
    <3>2. ReadBack'
      BY <2>1, <3>1 DEF DataInv, ReadBack
    <3>3. Stages'
      BY <2>1, <2>2, <3>1 DEF DataInv, Stages
    <3> QED BY <2>1, <3>1, <3>2, <3>3 DEF DataInv
  <2>3. CASE at' = "back" /\ ok' = FALSE /\ UNCHANGED output
    BY <1>19, <2>1, <2>3 DEF DataInv, Stages, sent, received
  <2> QED BY <1>15, <2>2, <2>3 DEF Read
<1>16. CASE ConvertRead
  <2>1. /\ UNCHANGED <<args, inputs, lost, output>> /\ at = "convertRead" /\ at' = "back"
        /\ Len(output) = 1 /\ values = <<>> /\ op' = "readValue" /\ Converted'
    BY <1>2, <1>16 DEF ConvertRead, sent, conversion, DataInv, Stages, PlaceInv, OperationInPlace
  <2>2. CASE NextIsReadable
    <3>1. ReadNext /\ ok' = NextIsReadable
      BY <1>16, <2>2 DEF ConvertRead
    <3>2. ToRead
      BY <2>1 DEF ToRead
    <3>3. ReadBack' /\ Len(values') = 1
      BY <2>1, <2>2, <3>1, <3>2, ReadingGoesOn DEF DataInv
    <3>4. ok' # FALSE
      BY <2>2, <3>1
    <3>5. Stages'
      BY <2>1, <3>3, <3>4 DEF Stages
    <3> QED BY <2>1, <3>3, <3>5 DEF DataInv
  <2>3. CASE ~NextIsReadable
    <3>1. UNCHANGED values /\ ok' = NextIsReadable
      BY <1>16, <2>3 DEF ConvertRead
    <3>2. ok' # TRUE
      BY <2>3, <3>1
    <3>3. Stages'
      BY <2>1, <3>1, <3>2 DEF Stages
    <3> QED BY <1>19, <2>1, <3>1, <3>3 DEF sent, received
  <2> QED BY <2>2, <2>3
<1>17. CASE Write
  <2>1. at = "write" /\ at' = "back" /\ op' = "writeValue" /\ UNCHANGED <<sent, conversion, received>>
    BY <1>17 DEF Write, PlaceInv, OperationInPlace
  <2> QED BY <1>19, <2>1 DEF DataInv, Stages, sent, conversion, received
<1>18. CASE Return
  <2>1. args' = <<>> /\ inputs' = <<>> /\ output' = <<>> /\ values' = <<>> /\ at' = "idle"
    BY <1>18 DEF Return
  <2>2. <<>> \in ArgumentLists
    BY ShortLists, BoundsAssumption DEF ArgumentLists
  <2>3. <<>> \in Seq(Results \cup Reported) /\ <<>> \in Seq(Sendable) /\ <<>> \in Seq(Told)
    OBVIOUS
  <2>4. Converted' /\ ReadBack'
    BY <2>1, <2>3 DEF Converted, ReadBack
  <2>5. Stages'
    BY <2>1 DEF Stages
  <2> QED BY <2>1, <2>2, <2>3, <2>4, <2>5 DEF DataInv
<1>20. CASE ServerExecutes
  BY <1>19, <1>20 DEF ServerExecutes, DataInv, Stages, sent, conversion, received
<1>21. CASE UNCHANGED vars
  BY <1>19, <1>21 DEF vars, DataInv, Stages, sent, conversion, received
<1> QED
  BY <1>3, <1>4, <1>5, <1>6, <1>7, <1>8, <1>9, <1>10, <1>11, <1>12,
     <1>13, <1>14, <1>15, <1>16, <1>17, <1>18, <1>20, <1>21
     DEF Next, Begin, Continue

-----------------------------------------------------------------------------
(* What the running operation itself owns at each place: the objects of the     *)
(* steps before.                                                                  *)
OwnedAt(l) ==
  CASE l = "method" -> {"object_id"}
    [] l = "newInputs" -> Ids
    [] l \in {"convertInput", "call"} -> Ids \cup {"inputs"}
    [] l = "convertOutput" -> Ids \cup {"inputs", "output"}
    [] l \in {"read", "convertWrite"} -> {"node_id"}
    [] l \in {"convertRead", "write"} -> {"node_id", "variant"}
    [] OTHER -> {}

OperationHeld ==
  \A x \in {"object_id", "method_id", "node_id", "inputs", "output", "variant"} :
    held[x] = IF x \in OwnedAt(at) THEN 1 ELSE 0

(* What the translation of a path owns at each step of it.  *)
PathHeld ==
  /\ held["elements"] = IF step \in {"names", "service", "answer"} THEN 1 ELSE 0
  /\ held["names"] \in (IF step \in {"service", "answer"} THEN {0, 1} ELSE {0})
  /\ held["response"] = IF step = "answer" THEN 1 ELSE 0

(* What the conversions own at each step of them.  *)
ConversionHeld ==
  /\ held["texts"] \in 0..Len(built.texts)
  /\ held["numbers"] \in (IF step = "copy" THEN {0, 1} ELSE {0})
  /\ held["array"] = IF step = "copy" /\ Given.type = "vector" THEN 1 ELSE 0
  /\ held["decoded"] = IF step = "decoded" THEN 1 ELSE 0

(* A place behind a translated path is reached with an open client only, and   *)
(* only the place between UA_Client_new and the connection sees a new one.      *)
ClientHeld ==
  /\ held["client"] = IF client = "none" THEN 0 ELSE 1
  /\ OwnedAt(at) # {} \/ step \in {"names", "service", "answer"} => client = "open"
  /\ client = "new" <=> at = "password"

ResourceInv ==
  /\ held \in [Objects -> Int]
  /\ OperationHeld /\ PathHeld /\ ConversionHeld /\ ClientHeld

LEMMA ResourceInit == Init => ResourceInv
BY DEF Init, ResourceInv, OperationHeld, PathHeld, ConversionHeld, ClientHeld, OwnedAt, Objects, Nothing

(* What a call hands out and frees, object by object.  *)
Effect(taken, freed) ==
  /\ held' \in [Objects -> Int]
  /\ \A x \in Objects :
       held'[x] = IF x \in freed THEN (IF x \in Deleted THEN held[x] - 1 ELSE 0)
                  ELSE IF x \in taken THEN held[x] + 1 ELSE held[x]

LEMMA Updated ==
  ASSUME NEW taken, NEW freed, held \in [Objects -> Int], Update(taken, freed)
  PROVE  Effect(taken, freed)
BY DEF Update, Effect

(* A conversion that fails frees what it has made, and its caller the rest.  *)
LEMMA NotConvertedFrees ==
  ASSUME ResourceInv, at \in Converting, step \in {"start", "fill", "copy"}, UNCHANGED client,
         NEW objects \in SUBSET {"texts", "numbers", "array"},
         "texts" \in objects \/ held["texts"] = 0,
         "numbers" \in objects \/ held["numbers"] = 0,
         held["array"] = IF "array" \in objects THEN 1 ELSE 0,
         NotConverted(objects)
  PROVE  ResourceInv'
<1>1. /\ held \in [Objects -> Int] /\ OperationHeld /\ PathHeld /\ ConversionHeld /\ ClientHeld
      /\ at' = "back" /\ step' = "start" /\ built' = Nothing
  BY DEF ResourceInv, NotConverted, Back
<1>2. PICK freed : /\ Update({}, freed)
                   /\ freed = objects \cup (IF at = "convertInput" THEN Ids \cup {"inputs"} ELSE {"node_id"})
  BY DEF NotConverted, Free
<1>3. Effect({}, freed)
  BY <1>1, <1>2, Updated
<1>4. /\ held'["texts"] = 0 /\ held'["numbers"] = 0 /\ held'["array"] = 0
      /\ \A x \in {"client", "elements", "names", "response", "decoded"} : held'[x] = held[x]
  BY <1>1, <1>2, <1>3 DEF Effect, Objects, Deleted, Ids
<1>5. \A x \in {"object_id", "method_id", "node_id", "inputs", "output", "variant"} : held'[x] = 0
  BY <1>1, <1>2, <1>3 DEF Effect, Objects, Deleted, Ids, OperationHeld, OwnedAt, Converting
<1>6. Len(Nothing.texts) = 0
  BY DEF Nothing
<1>7. OperationHeld'
  BY <1>1, <1>5 DEF OperationHeld, OwnedAt
<1>8. PathHeld'
  BY <1>1, <1>4 DEF PathHeld
<1>9. ConversionHeld'
  BY <1>1, <1>4, <1>6 DEF ConversionHeld
<1>10. ClientHeld'
  BY <1>1, <1>4 DEF ClientHeld, OwnedAt, Converting
<1> QED BY <1>3, <1>7, <1>8, <1>9, <1>10 DEF ResourceInv, Effect

LEMMA ResourceStep ==
  ASSUME PlaceInv, DataInv, BuiltInv, BuiltInv', ResourceInv, [Next]_vars
  PROVE  ResourceInv'
<1> USE DEF Goto, Back, Take, Free
<1>1. /\ PlaceInv /\ held \in [Objects -> Int]
      /\ OperationHeld /\ PathHeld /\ ConversionHeld /\ ClientHeld
  BY DEF ResourceInv
<1>2. step \notin {"fill", "copy"} => built = Nothing
  BY DEF BuiltInv
<1>3. step' \notin {"fill", "copy"} => built' = Nothing
  BY DEF BuiltInv
<1>4. Len(Nothing.texts) = 0
  BY DEF Nothing
<1> USE DEF OperationHeld, PathHeld, ConversionHeld, ClientHeld, OwnedAt, Ids,
            PlaceInv, StepInPlace, Translating, Converting, Reading
<1>5. CASE BeginConnect
  <2>1. CASE Update({"client"}, {}) /\ at' = "password" /\ client' = "new" /\ UNCHANGED step
    <3>1. Effect({"client"}, {})
      BY <1>1, <2>1, Updated
    <3> QED
      BY <1>1, <1>2, <1>3, <1>4, <1>5, <2>1, <3>1 DEF BeginConnect, Effect, Objects, Deleted, ResourceInv, conversion
  <2>2. CASE Back(FALSE) /\ UNCHANGED <<client, held>>
    BY <1>1, <1>2, <1>3, <1>4, <1>5, <2>2 DEF BeginConnect, ResourceInv, conversion
  <2> QED BY <1>5, <2>1, <2>2 DEF BeginConnect
<1>6. CASE ConnectUsername
  <2>1. CASE client' = "open" /\ Back(TRUE) /\ UNCHANGED held
    BY <1>1, <1>2, <1>3, <1>4, <1>6, <2>1 DEF ConnectUsername, ResourceInv, conversion
  <2>2. CASE Update({}, {"client"}) /\ client' = "none" /\ Back(FALSE)
    <3>1. Effect({}, {"client"})
      BY <1>1, <2>2, Updated
    <3> QED
      BY <1>1, <1>2, <1>3, <1>4, <1>6, <2>2, <3>1 DEF ConnectUsername, Effect, Objects, Deleted, ResourceInv, conversion
  <2> QED BY <1>6, <2>1, <2>2 DEF ConnectUsername
<1>7. CASE Disconnect
  <2>1. CASE client = "none"
    BY <1>1, <1>2, <1>3, <1>4, <1>7, <2>1 DEF Disconnect, ResourceInv, conversion
  <2>2. CASE Update({}, {"client"}) /\ client # "none"
    <3>1. Effect({}, {"client"})
      BY <1>1, <2>2, Updated
    <3> QED
      BY <1>1, <1>2, <1>3, <1>4, <1>7, <2>2, <3>1 DEF Disconnect, Effect, Objects, Deleted, ResourceInv, conversion
  <2> QED BY <1>7, <2>1, <2>2 DEF Disconnect
<1>8. CASE NewPath
  <2>1. CASE Update({"elements"}, {}) /\ client # "none" /\ step' = "names" /\ UNCHANGED at
    <3>1. Effect({"elements"}, {})
      BY <1>1, <2>1, Updated
    <3> QED
      BY Tables, <1>1, <1>2, <1>3, <1>4, <1>8, <2>1, <3>1 DEF NewPath, Effect, Objects, Deleted, Path, ResourceInv, conversion
  <2>2. CASE Update({}, (IF client = "none" THEN {} ELSE Path) \cup {"object_id"}) /\ Back(FALSE) /\ at = "method"
    <3>1. Effect({}, (IF client = "none" THEN {} ELSE Path) \cup {"object_id"})
      BY <1>1, <2>2, Updated
    <3> QED
      BY Tables, <1>1, <1>2, <1>3, <1>4, <1>8, <2>2, <3>1 DEF NewPath, Effect, Objects, Deleted, Path, ResourceInv, conversion
  <2>3. CASE Update({}, (IF client = "none" THEN {} ELSE Path) \cup {}) /\ Back(FALSE) /\ at # "method"
    <3>1. Effect({}, (IF client = "none" THEN {} ELSE Path) \cup {})
      BY <1>1, <2>3, Updated
    <3> QED
      BY Tables, <1>1, <1>2, <1>3, <1>4, <1>8, <2>3, <3>1 DEF NewPath, Effect, Objects, Deleted, Path, ResourceInv, conversion
  <2> QED BY <1>8, <2>1, <2>2, <2>3 DEF NewPath, NotTranslated
<1>9. CASE AllocateNames
  <2>1. CASE Update({"names"}, {})
    <3>1. Effect({"names"}, {})
      BY <1>1, <2>1, Updated
    <3> QED
      BY <1>1, <1>2, <1>3, <1>4, <1>9, <2>1, <3>1 DEF AllocateNames, Effect, Objects, Deleted, ResourceInv, conversion
  <2>2. CASE UNCHANGED held
    BY <1>1, <1>2, <1>3, <1>4, <1>9, <2>2 DEF AllocateNames, ResourceInv, conversion
  <2> QED BY <1>9, <2>1, <2>2 DEF AllocateNames
<1>10. CASE TranslatePaths
  <2>1. CASE Update({"response"}, {})
    <3>1. Effect({"response"}, {})
      BY <1>1, <2>1, Updated
    <3> QED
      BY <1>1, <1>2, <1>3, <1>4, <1>10, <2>1, <3>1 DEF TranslatePaths, Effect, Objects, Deleted, ResourceInv, conversion
  <2> QED BY <1>10, <2>1 DEF TranslatePaths
<1>11. CASE Refused
  <2>1. CASE Update({}, (Path \cup {"response"}) \cup {"object_id"}) /\ Back(FALSE) /\ at = "method"
    <3>1. Effect({}, (Path \cup {"response"}) \cup {"object_id"})
      BY <1>1, <2>1, Updated
    <3> QED
      BY Tables, <1>1, <1>2, <1>3, <1>4, <1>11, <2>1, <3>1 DEF Refused, Effect, Objects, Deleted, Path, ResourceInv, conversion
  <2>2. CASE Update({}, (Path \cup {"response"}) \cup {}) /\ Back(FALSE) /\ at # "method"
    <3>1. Effect({}, (Path \cup {"response"}) \cup {})
      BY <1>1, <2>2, Updated
    <3> QED
      BY Tables, <1>1, <1>2, <1>3, <1>4, <1>11, <2>2, <3>1 DEF Refused, Effect, Objects, Deleted, Path, ResourceInv, conversion
  <2> QED BY <1>11, <2>1, <2>2 DEF Refused, NotTranslated
<1>12. CASE NewInputs
  <2>1. CASE Update({"inputs"}, {}) /\ at' = "convertInput" /\ UNCHANGED step
    <3>1. Effect({"inputs"}, {})
      BY <1>1, <2>1, Updated
    <3> QED
      BY <1>1, <1>2, <1>3, <1>4, <1>12, <2>1, <3>1 DEF NewInputs, Effect, Objects, Deleted, ResourceInv, conversion
  <2>2. CASE Update({}, Ids) /\ Back(FALSE)
    <3>1. Effect({}, Ids)
      BY <1>1, <2>2, Updated
    <3> QED
      BY <1>1, <1>2, <1>3, <1>4, <1>12, <2>2, <3>1 DEF NewInputs, Effect, Objects, Deleted, ResourceInv, conversion
  <2> QED BY <1>12, <2>1, <2>2 DEF NewInputs
<1>13. CASE Call
  <2>1. CASE Update({"output"}, {}) /\ at' = "convertOutput" /\ UNCHANGED step
    <3>1. Effect({"output"}, {})
      BY <1>1, <2>1, Updated
    <3> QED
      BY <1>1, <1>2, <1>3, <1>4, <1>13, <2>1, <3>1 DEF Call, Effect, Objects, Deleted, ResourceInv, conversion
  <2>2. CASE Update({}, Ids \cup {"inputs"}) /\ Back(FALSE)
    <3>1. Effect({}, Ids \cup {"inputs"})
      BY <1>1, <2>2, Updated
    <3> QED
      BY <1>1, <1>2, <1>3, <1>4, <1>13, <2>2, <3>1 DEF Call, Effect, Objects, Deleted, ResourceInv, conversion
  <2> QED BY <1>13, <2>1, <2>2 DEF Call
<1>14. CASE ConvertOutput
  <2>1. CASE Update({}, {"decoded"}) /\ step' = "start" /\ UNCHANGED at
    <3>1. Effect({}, {"decoded"})
      BY <1>1, <2>1, Updated
    <3> QED
      BY <1>1, <1>2, <1>3, <1>4, <1>14, <2>1, <3>1 DEF ConvertOutput, IsDecoded, Effect, Objects, Deleted, ResourceInv, conversion
  <2>2. CASE Update({}, Ids \cup {"decoded", "inputs", "output"}) /\ Back(FALSE)
    <3>1. Effect({}, Ids \cup {"decoded", "inputs", "output"})
      BY <1>1, <2>2, Updated
    <3> QED
      BY <1>1, <1>2, <1>3, <1>4, <1>14, <2>2, <3>1 DEF ConvertOutput, IsDecoded, Effect, Objects, Deleted, ResourceInv, conversion
  <2>3. CASE Update({}, Ids \cup {"inputs", "output"}) /\ ~ToRead /\ Back(TRUE)
    <3>1. Effect({}, Ids \cup {"inputs", "output"})
      BY <1>1, <2>3, Updated
    <3> QED
      BY <1>1, <1>2, <1>3, <1>4, <1>14, <2>3, <3>1 DEF ConvertOutput, IsDecoded, Effect, Objects, Deleted, ResourceInv, conversion
  <2> QED BY <1>14, <2>1, <2>2, <2>3 DEF ConvertOutput
<1>15. CASE Read
  <2>1. CASE Update({"variant"}, {}) /\ at' = "convertRead" /\ UNCHANGED step
    <3>1. Effect({"variant"}, {})
      BY <1>1, <2>1, Updated
    <3> QED
      BY <1>1, <1>2, <1>3, <1>4, <1>15, <2>1, <3>1 DEF Read, Effect, Objects, Deleted, ResourceInv, conversion
  <2>2. CASE Update({}, {"node_id"}) /\ Back(FALSE)
    <3>1. Effect({}, {"node_id"})
      BY <1>1, <2>2, Updated
    <3> QED
      BY <1>1, <1>2, <1>3, <1>4, <1>15, <2>2, <3>1 DEF Read, Effect, Objects, Deleted, ResourceInv, conversion
  <2> QED BY <1>15, <2>1, <2>2 DEF Read
<1>16. CASE ConvertRead
  <2>1. CASE Update({}, {"decoded", "variant", "node_id"}) /\ Back(NextIsReadable)
    <3>1. Effect({}, {"decoded", "variant", "node_id"})
      BY <1>1, <2>1, Updated
    <3> QED
      BY <1>1, <1>2, <1>3, <1>4, <1>16, <2>1, <3>1 DEF ConvertRead, IsDecoded, Effect, Objects, Deleted, ResourceInv, conversion
  <2> QED BY <1>16, <2>1 DEF ConvertRead
<1>17. CASE Write
  <2>1. CASE Update({}, {"variant", "node_id"})
    <3>1. Effect({}, {"variant", "node_id"})
      BY <1>1, <2>1, Updated
    <3> QED
      BY <1>1, <1>2, <1>3, <1>4, <1>17, <2>1, <3>1 DEF Write, Effect, Objects, Deleted, ResourceInv, conversion
  <2> QED BY <1>17, <2>1 DEF Write
<1>18. CASE BeginReadValue
  BY <1>1, <1>2, <1>3, <1>4, <1>18 DEF BeginReadValue, ResourceInv, conversion
<1>19. CASE AllConverted
  BY <1>1, <1>2, <1>3, <1>4, <1>19 DEF AllConverted, ResourceInv, conversion
<1>20. CASE Return
  BY <1>1, <1>2, <1>3, <1>4, <1>20 DEF Return, ResourceInv, conversion
<1>21. CASE ServerExecutes \/ UNCHANGED vars
  BY <1>1, <1>2, <1>3, <1>4, <1>21, SMTT(30) DEF ServerExecutes, vars, Given, sent, ResourceInv, conversion
<1>22. ASSUME NEW arguments \in UpTo(MaxInputs, Arguments), BeginCallMethod(arguments)
      PROVE  ResourceInv'
  BY <1>1, <1>2, <1>3, <1>4, <1>22 DEF BeginCallMethod, ResourceInv, conversion
<1>23. ASSUME NEW value \in Arguments, BeginWriteValue(value) PROVE ResourceInv'
  BY <1>1, <1>2, <1>3, <1>4, <1>23 DEF BeginWriteValue, ResourceInv, conversion
<1>24. CASE Decode
  <2>1. /\ step = "start" /\ step' = "decoded" /\ UNCHANGED <<at, client, built>>
        /\ Update({"decoded"}, {})
    BY <1>24 DEF Decode, conversion
  <2>2. Effect({"decoded"}, {})
    BY <1>1, <2>1, Updated
  <2>3. held'["decoded"] = 1 /\ \A x \in Objects \ {"decoded"} : held'[x] = held[x]
    BY <1>1, <2>1, <2>2 DEF Effect, Objects
  <2>4. PathHeld' /\ ConversionHeld'
    BY <1>1, <1>2, <1>4, <2>1, <2>3 DEF Objects
  <2>5. OperationHeld' /\ ClientHeld'
    BY <1>1, <2>1, <2>3 DEF Objects
  <2> QED BY <2>2, <2>4, <2>5 DEF ResourceInv, Effect
<1>25. CASE CopyId
  <2>1. at \in Translating /\ step = "answer" /\ UNCHANGED <<client, built>>
    BY <1>1, <1>25 DEF CopyId, conversion
  <2>4. Id[at] \in {"object_id", "method_id", "node_id"}
    BY Tables, <2>1
  <2>2. CASE Back(FALSE)
    <3>1. PICK freed : /\ Update({}, freed) /\ Path \cup {"response", Id[at]} \subseteq freed
                       /\ freed \subseteq Path \cup {"response", "object_id", "method_id", "node_id"}
                       /\ at = "method" => "object_id" \in freed
      BY Tables, <1>25, <2>1, <2>2 DEF CopyId, NotTranslated, Path
    <3>2. Effect({}, freed)
      BY <1>1, <3>1, Updated
    <3>4. \A x \in freed : x \in Objects /\ x \notin Deleted
      BY <3>1 DEF Objects, Deleted, Path
    <3>3. /\ \A x \in Objects \ freed : held'[x] = held[x]
          /\ \A x \in freed : held'[x] = 0
      BY <3>2, <3>4 DEF Effect
    <3>5. at' = "back" /\ step' = "start"
      BY <2>2
    <3>6. \A x \in {"object_id", "method_id", "node_id", "inputs", "output", "variant"} : held'[x] = 0
      <4>1. \A x \in {"method_id", "node_id", "inputs", "output", "variant"} : held[x] = 0
        BY Tables, <1>1, <2>1
      <4>2. at # "method" => held["object_id"] = 0
        BY Tables, <1>1, <2>1
      <4> QED BY <3>1, <3>3, <4>1, <4>2 DEF Objects
    <3>7. held'["elements"] = 0 /\ held'["names"] = 0 /\ held'["response"] = 0
      BY <3>1, <3>3 DEF Path
    <3>8. \A x \in {"client", "texts", "numbers", "array", "decoded"} : held'[x] = held[x]
      BY <3>1, <3>3 DEF Path, Objects
    <3>9. OperationHeld' /\ PathHeld'
      BY <3>5, <3>6, <3>7
    <3>10. ConversionHeld'
      BY <1>1, <2>1, <3>5, <3>8
    <3>11. ClientHeld'
      BY Tables, <1>1, <2>1, <3>5, <3>8
    <3> QED BY <3>2, <3>9, <3>10, <3>11 DEF Effect, ResourceInv
  <2>3. CASE /\ at' = After[at] /\ step' = "start"
             /\ Update({Id[at]}, Path \cup {"response"})
    <3>1. Effect({Id[at]}, Path \cup {"response"})
      BY <1>1, <2>3, Updated
    <3>2. /\ held'["elements"] = 0 /\ held'["names"] = 0 /\ held'["response"] = 0
          /\ held'[Id[at]] = held[Id[at]] + 1
          /\ \A x \in Objects \ {Id[at], "elements", "names", "response"} : held'[x] = held[x]
      BY <2>4, <3>1 DEF Effect, Objects, Deleted, Path
    <3>3. \A x \in {"client", "texts", "numbers", "array", "decoded"} : held'[x] = held[x]
      BY <2>4, <3>2 DEF Objects
    <3>4. step' = "start" /\ client = "open"
      BY <1>1, <2>1, <2>3
    <3>5. PathHeld' /\ ConversionHeld'
      BY <1>1, <2>1, <3>2, <3>3, <3>4
    <3>6. OperationHeld' /\ ClientHeld'
      <4>1. CASE at = "object"
        <5>1. Id[at] = "object_id" /\ at' = "method"
          BY Tables, <2>3, <4>1
        <5> QED BY <1>1, <2>1, <3>2, <3>3, <3>4, <4>1, <5>1 DEF Objects
      <4>2. CASE at = "method"
        <5>1. Id[at] = "method_id" /\ at' = "newInputs"
          BY Tables, <2>3, <4>2
        <5> QED BY <1>1, <2>1, <3>2, <3>3, <3>4, <4>2, <5>1 DEF Objects
      <4>3. CASE at = "readNode"
        <5>1. Id[at] = "node_id" /\ at' = "read"
          BY Tables, <2>3, <4>3
        <5> QED BY <1>1, <2>1, <3>2, <3>3, <3>4, <4>3, <5>1 DEF Objects
      <4>4. CASE at = "writeNode"
        <5>1. Id[at] = "node_id" /\ at' = "convertWrite"
          BY Tables, <2>3, <4>4
        <5> QED BY <1>1, <2>1, <3>2, <3>3, <3>4, <4>4, <5>1 DEF Objects
      <4> QED BY <2>1, <4>1, <4>2, <4>3, <4>4
    <3> QED BY <3>1, <3>5, <3>6 DEF Effect, ResourceInv
  <2> QED BY <1>25, <2>2, <2>3 DEF CopyId, NotTranslated
<1>26. CASE BeginConversion
  <2>1. /\ at \in Converting /\ step = "start" /\ built = Nothing /\ UNCHANGED client
    BY <1>1, <1>2, <1>26 DEF BeginConversion
  <2>2. CASE step' = "fill" /\ built'.texts = <<>> /\ UNCHANGED <<at, held>>
    BY <1>1, <1>4, <2>1, <2>2 DEF ResourceInv
  <2>3. CASE NotConverted({})
    BY <1>1, <1>4, <2>1, <2>3, NotConvertedFrees
  <2> QED BY <1>26, <2>2, <2>3 DEF BeginConversion
<1>27. CASE CopyText
  <2>1. at \in Converting /\ step = "fill" /\ UNCHANGED <<at, step, client, Given>>
    BY <1>1, <1>27 DEF CopyText, Given, sent
  <2>2. Len(built'.texts) = Len(built.texts) + 1 /\ Len(built.texts) \in Nat
    <3>1. /\ Filling /\ ~TextsFilled /\ built \in [texts : Seq(Copies), numbers : Seq(Int)]
          /\ Len(built.texts) \in Nat
      BY <1>27 DEF CopyText, BuiltInv
    <3>2. Given.texts[Len(built.texts) + 1] \in Texts
      <4>1. Given.texts \in Seq(Texts)
        BY <3>1, GivenIsAValue DEF Filling
      <4>2. Len(built.texts) < Len(Given.texts)
        BY <3>1, <4>1 DEF Filling, TextsFilled
      <4> QED BY <3>1, <4>1, <4>2
    <3>3. PICK new \in Copies : built' = [built EXCEPT !.texts = Append(built.texts, new)]
      BY <1>27, <3>2, CopiesAreTexts DEF CopyText, AppendText
    <3> HIDE DEF OperationHeld, PathHeld, ConversionHeld, ClientHeld, OwnedAt, PlaceInv, StepInPlace
    <3>4. built.texts \in Seq(Copies)
      BY <3>1
    <3>5. built'.texts = Append(built.texts, new)
      BY <3>1, <3>3
    <3>6. Len(Append(built.texts, new)) = Len(built.texts) + 1
      BY <3>4, AppendProperties
    <3> QED BY <3>1, <3>5, <3>6
  <2>3. ASSUME held' \in [Objects -> Int], held'["texts"] \in {held["texts"], held["texts"] + 1},
               \A x \in Objects \ {"texts"} : held'[x] = held[x]
        PROVE  ResourceInv'
    <3>1. held'["texts"] \in 0..Len(built'.texts)
      <4> DEFINE n == Len(built.texts)
                 m == Len(built'.texts)
      <4>1. held["texts"] \in 0..n /\ n \in Nat /\ m = n + 1
        BY <1>1, <2>2
      <4> HIDE DEF n, m
      <4>2. held'["texts"] \in 0..m
        BY <2>3, <4>1
      <4> QED BY <4>2 DEF m
    <3>2. \A x \in {"object_id", "method_id", "node_id", "inputs", "output", "variant", "client",
                    "elements", "names", "response", "numbers", "array", "decoded"} : held'[x] = held[x]
      BY <2>3 DEF Objects
    <3>3. ConversionHeld'
      BY <1>1, <2>1, <3>1, <3>2
    <3>4. OperationHeld' /\ PathHeld'
      BY <1>1, <2>1, <3>2
    <3>5. ClientHeld'
      BY <1>1, <2>1, <3>2
    <3> QED BY <2>3, <3>3, <3>4, <3>5 DEF ResourceInv
  <2>4. CASE Update({"texts"}, {})
    <3>1. Effect({"texts"}, {})
      BY <1>1, <2>4, Updated
    <3>2. held'["texts"] = held["texts"] + 1 /\ \A x \in Objects \ {"texts"} : held'[x] = held[x]
      BY <3>1 DEF Effect, Objects
    <3> QED BY <2>3, <3>1, <3>2 DEF Effect
  <2>5. CASE UNCHANGED held
    BY <1>1, <2>3, <2>5
  <2> QED BY <1>27, <2>4, <2>5 DEF CopyText
<1>28. CASE CopyNumbers
  <2>1. /\ at \in Converting /\ step = "fill" /\ UNCHANGED <<client, Given>>
        /\ Given.type \in {"vector", "keyPose"} /\ TextsFilled
    BY <1>1, <1>28 DEF CopyNumbers, HasArray, Given, sent
  <2>2. CASE /\ Update({IF Given.type = "vector" THEN "array" ELSE "numbers"}, {})
             /\ step' = "copy" /\ UNCHANGED at /\ built' = [built EXCEPT !.numbers = Given.numbers]
    <3>1. built'.texts = built.texts
      BY <2>2 DEF BuiltInv
    <3>2. CASE Given.type = "vector"
      <4>1. Effect({"array"}, {})
        BY <1>1, <2>2, <3>2, Updated
      <4>2. held'["array"] = 1 /\ \A x \in Objects \ {"array"} : held'[x] = held[x]
        BY <1>1, <2>1, <4>1 DEF Effect, Objects
      <4> QED BY <1>1, <2>1, <2>2, <3>1, <3>2, <4>1, <4>2 DEF Effect, Objects, ResourceInv
    <3>3. CASE Given.type # "vector"
      <4>1. Effect({"numbers"}, {})
        BY <1>1, <2>2, <3>3, Updated
      <4>2. held'["numbers"] = 1 /\ \A x \in Objects \ {"numbers"} : held'[x] = held[x]
        BY <1>1, <2>1, <4>1 DEF Effect, Objects
      <4> QED BY <1>1, <2>1, <2>2, <3>1, <3>3, <4>1, <4>2 DEF Effect, Objects, ResourceInv
    <3> QED BY <3>2, <3>3
  <2>3. CASE Given.type = "keyPose" /\ step' = "copy" /\ UNCHANGED <<at, built, held>>
    BY <1>1, <2>1, <2>3 DEF ResourceInv
  <2>4. CASE Given.type = "vector" /\ NotConverted({})
    <3>1. Filling
      BY <2>1 DEF BuiltInv
    <3>2. IsValue(Given)
      BY <3>1, GivenIsAValue DEF Filling
    <3>3. Len(built.texts) = 0
      BY <2>1, <2>4, <3>2 DEF TextsFilled, IsValue, IsContent
    <3> QED BY <1>1, <1>4, <2>1, <2>4, <3>3, NotConvertedFrees
  <2> QED BY <1>28, <2>2, <2>3, <2>4 DEF CopyNumbers
<1>29. CASE CopyVariant
  <2>1. /\ at \in Converting /\ step \in {"fill", "copy"} /\ UNCHANGED client
    BY <1>1, <1>29 DEF CopyVariant
  <2>5. held["array"] = IF "array" \in Temporaries THEN 1 ELSE 0
    BY <1>1, <1>29 DEF CopyVariant, Temporaries, HasArray
  <2>6. /\ Temporaries \in SUBSET {"texts", "numbers", "array"}
        /\ "texts" \in Temporaries /\ "numbers" \in Temporaries
    BY DEF Temporaries
  <2>2. CASE NotConverted(Temporaries)
    BY <2>1, <2>2, <2>5, <2>6, NotConvertedFrees
  <2>3. CASE at = "convertInput" /\ UNCHANGED at /\ Update({}, Temporaries) /\ step' = "start" /\ built' = Nothing
    <3>1. Effect({}, Temporaries)
      BY <1>1, <2>3, Updated
    <3>2. held'["texts"] = 0 /\ held'["numbers"] = 0 /\ held'["array"] = 0
      BY <2>5, <2>6, <3>1 DEF Effect, Objects, Deleted
    <3>3. \A x \in Objects \ {"texts", "numbers", "array"} : held'[x] = held[x]
      BY <2>6, <3>1 DEF Effect
    <3>4. PathHeld' /\ ConversionHeld'
      BY <1>1, <1>4, <2>1, <2>3, <3>2, <3>3 DEF Objects
    <3>5. OperationHeld' /\ ClientHeld'
      BY <1>1, <2>1, <2>3, <3>3 DEF Objects
    <3> QED BY <3>1, <3>4, <3>5 DEF Effect, ResourceInv
  <2>4. CASE at = "convertWrite" /\ at' = "write" /\ Update({"variant"}, Temporaries) /\ step' = "start" /\ built' = Nothing
    <3>1. Effect({"variant"}, Temporaries)
      BY <1>1, <2>4, Updated
    <3>2. held'["texts"] = 0 /\ held'["numbers"] = 0 /\ held'["array"] = 0
      BY <2>5, <2>6, <3>1 DEF Effect, Objects, Deleted
    <3>3. /\ held'["variant"] = held["variant"] + 1
          /\ \A x \in Objects \ {"variant", "texts", "numbers", "array"} : held'[x] = held[x]
      BY <2>6, <3>1 DEF Effect, Objects
    <3>4. PathHeld' /\ ConversionHeld'
      BY <1>1, <1>4, <2>1, <2>4, <3>2, <3>3 DEF Objects
    <3>5. OperationHeld' /\ ClientHeld'
      BY <1>1, <2>1, <2>4, <3>3 DEF Objects
    <3> QED BY <3>1, <3>4, <3>5 DEF Effect, ResourceInv
  <2> QED BY <1>29, <2>2, <2>3, <2>4 DEF CopyVariant
<1> QED
  BY <1>5, <1>6, <1>7, <1>8, <1>9, <1>10, <1>11, <1>12, <1>13, <1>14, <1>15, <1>16, <1>17, <1>18, <1>19, <1>20, <1>21, <1>22, <1>23, <1>25, <1>26, <1>27, <1>28, <1>29, <1>24
     DEF Next, Begin, Continue

ClientInv == ResourceInv /\ PlaceInv /\ DataInv /\ BuiltInv

LEMMA ClientInvCorrect == Spec => []ClientInv
<1>1. Init => ClientInv
  BY ResourceInit, PlaceInit, DataInit DEF ClientInv
<1>2. ClientInv /\ [Next]_vars => ClientInv'
  BY BuiltStep, ResourceStep, PlaceStep, DataStep DEF ClientInv
<1> QED BY <1>1, <1>2, PTL DEF Spec

(* However many texts, arguments and results there are and whichever library      *)
(* call fails: an operation frees what it was given, once, and leaves the client.  *)
THEOREM ResourcesCorrect == Spec => []EverythingIsFreed
<1>1. ASSUME ClientInv PROVE EverythingIsFreed
  <2> USE DEF ClientInv, ResourceInv
  <2>1. /\ PlaceInv /\ StepInPlace /\ OperationHeld /\ PathHeld /\ ConversionHeld /\ ClientHeld
        /\ client \in {"none", "new", "open"}
    BY <1>1 DEF PlaceInv
  <2>2. ASSUME at \in {"idle", "back"}
        PROVE  /\ client # "new"
               /\ \A x \in Objects : held[x] = IF x = "client" /\ client = "open" THEN 1 ELSE 0
    <3>1. /\ step = "start" /\ client # "new"
          /\ \A x \in {"object_id", "method_id", "node_id", "inputs", "output", "variant"} : held[x] = 0
      BY <2>1, <2>2 DEF StepInPlace, Translating, Converting, Reading, Steps, ClientHeld, OperationHeld, OwnedAt
    <3>2. built = Nothing /\ Len(Nothing.texts) = 0
      BY <1>1, <3>1 DEF BuiltInv, Nothing
    <3>3. \A x \in {"elements", "names", "response", "texts", "numbers", "array", "decoded"} : held[x] = 0
      BY <2>1, <3>1, <3>2 DEF PathHeld, ConversionHeld
    <3> QED BY <2>1, <3>1, <3>3 DEF ClientHeld, Objects
  <2>3. \A x \in Objects \ {"texts"} : held[x] \in {0, 1}
    BY <2>1 DEF OperationHeld, PathHeld, ConversionHeld, ClientHeld, Objects
  <2>4. UsedIsHeld
    <3> USE <2>1 DEF Held
    <3>1. step \in {"names", "service"} => Held({"client", "elements"})
      BY DEF PathHeld, ClientHeld
    <3>2. step = "answer" => Held({"response"})
      BY DEF PathHeld
    <3>3. step = "copy" /\ Given.type = "vector" => Held({"array"})
      BY DEF ConversionHeld
    <3>4. /\ at = "convertInput" => Held({"inputs"})
          /\ at = "convertOutput" => Held({"output"})
          /\ at = "convertRead" => Held({"variant"})
      BY DEF OperationHeld, OwnedAt, Ids
    <3>5. at = "call" => Held(Ids \cup {"client", "inputs"})
      BY DEF OperationHeld, ClientHeld, OwnedAt, Ids
    <3>6. /\ at = "read" => Held({"client", "node_id"})
          /\ at = "write" => Held({"client", "node_id", "variant"})
      BY DEF OperationHeld, ClientHeld, OwnedAt
    <3> QED BY <3>1, <3>2, <3>3, <3>4, <3>5, <3>6 DEF UsedIsHeld
  <2> QED BY <2>1, <2>2, <2>3, <2>4 DEF EverythingIsFreed, ConversionHeld
<1> QED BY <1>1, ClientInvCorrect, PTL

LEMMA AnswersAreBooleans == Spec => [](executed \in BOOLEAN /\ ok \in BOOLEAN /\ lost \in BOOLEAN)
<1> DEFINE B == executed \in BOOLEAN /\ ok \in BOOLEAN /\ lost \in BOOLEAN
<1>1. Init => B
  BY DEF Init
<1>2. ASSUME B, [Next]_vars PROVE B'
  <2> USE DEF Goto, Back, conversion
  <2>1. CASE Begin
    BY <1>2, <2>1
    DEF Begin, BeginConnect, Disconnect, BeginReadValue, BeginWriteValue, BeginCallMethod
  <2>2. CASE ConnectUsername \/ Write \/ Return
    BY <1>2, <2>2 DEF ConnectUsername, Write, Return
  <2>3. CASE NewPath \/ AllocateNames \/ TranslatePaths \/ Refused \/ CopyId
    BY <1>2, <2>3 DEF NewPath, AllocateNames, TranslatePaths, Refused, CopyId, NotTranslated
  <2>4. CASE BeginConversion \/ CopyVariant
    BY <1>2, <2>4 DEF BeginConversion, CopyVariant, NotConverted
  <2>5. CASE CopyText \/ CopyNumbers
    BY <1>2, <2>5 DEF CopyText, CopyNumbers, NotConverted
  <2>6. CASE Decode \/ NewInputs \/ AllConverted \/ Call
    BY <1>2, <2>6 DEF Decode, NewInputs, AllConverted, Call
  <2>7. CASE ConvertOutput \/ Read
    BY <1>2, <2>7 DEF ConvertOutput, Read
  <2>8. CASE ConvertRead
    <3>1. NextIsReadable \in BOOLEAN
      BY DEF NextIsReadable, Readable
    <3> QED BY <1>2, <2>8, <3>1 DEF ConvertRead
  <2>9. CASE ServerExecutes
    BY <1>2, <2>9 DEF ServerExecutes
  <2>10. CASE UNCHANGED vars
    BY <1>2, <2>10 DEF vars
  <2> QED
    BY <1>2, <2>1, <2>2, <2>3, <2>4, <2>5, <2>6, <2>7, <2>8, <2>9, <2>10 DEF Next, Continue
<1> QED BY <1>1, <1>2, PTL DEF Spec

(* The client's variables keep their types and no loop looks beyond its array,   *)
(* for every number of arguments and results.                                     *)
THEOREM TypeCorrect == Spec => []TypeOK
<1>1. ASSUME ClientInv, executed \in BOOLEAN /\ ok \in BOOLEAN /\ lost \in BOOLEAN PROVE TypeOK
  <2>1. held \in [Objects -> Int]
    BY <1>1 DEF ClientInv, ResourceInv
  <2>2. op \in Operations /\ at \in Locations /\ step \in Steps /\ client \in {"none", "new", "open"}
    BY <1>1 DEF ClientInv, PlaceInv, OperationInPlace, StepInPlace
  <2>3. \A k \in DOMAIN output : output[k].packing \in Packings
    <3> SUFFICES ASSUME NEW k \in DOMAIN output PROVE output[k].packing \in Packings
      OBVIOUS
    <3>1. output[k] \in Results \cup Reported
      BY <1>1 DEF ClientInv, DataInv
    <3> QED BY <3>1, DataAssumption DEF IsVariant, Packings
  <2>4. step = "fill" => Len(built.texts) <= Len(Given.texts)
    BY <1>1 DEF ClientInv, BuiltInv, Filling
  <2> QED BY <1>1, <2>1, <2>2, <2>3, <2>4 DEF TypeOK, ClientInv, DataInv, Converted, ReadBack
<1> QED BY <1>1, ClientInvCorrect, AnswersAreBooleans, PTL

-----------------------------------------------------------------------------
(* What the two conversions do to one value.                                   *)

(* A variant that carries a value is readable and of its type; and it is the     *)
(* value again when nothing of that was lost or hidden.                            *)
LEMMA ThereAndBack ==
  ASSUME NEW value, IsValue(value), NEW variant \in Sendable, Carries(variant, value)
  PROVE  /\ Readable(variant) /\ UaVariantToValue(variant).type = value.type
         /\ lost = FALSE /\ HidesNothing(value) => UaVariantToValue(variant) = value
<1> DEFINE type == TypeFor(value)
<1>1. value.type # "struct"
  BY DEF Carries
<1>2. type \in DOMAIN ValueTypes /\ ValueTypes[type] = value.type
  BY <1>1, TypeForIsItsType
<1>3. /\ variant.type = type /\ variant.scalar = (value.type # "vector")
      /\ variant.packing = IF type \in CustomTypes THEN "decoded" ELSE "plainly"
  <2> DEFINE made == VariantOf(value, variant.texts, variant.numbers)
  <2>1. /\ made.type = type /\ made.scalar = (value.type # "vector")
        /\ made.packing = IF type \in CustomTypes THEN "decoded" ELSE "plainly"
    BY DEF VariantOf, Variant
  <2>2. variant = made
    BY DEF Carries
  <2> HIDE DEF made
  <2> QED BY <2>1, <2>2
<1> HIDE DEF type
<1>4. DOMAIN ValueTypes = {"BOOLEAN", "INT32", "DOUBLE", "STRING", "DOUBLES", "KEYINTPAIR",
                           "KEYPOSEPAIR", "EXECUTIONSTATUS"}
  BY DEF ValueTypes
<1>5. Readable(variant)
  <2>1. type \in CustomTypes => value.type # "vector"
    BY <1>2 DEF CustomTypes, ValueTypes
  <2> QED BY <1>2, <1>3, <1>4, <2>1 DEF Readable, CustomTypes, Scalars
<1>6. UaVariantToValue(variant).type = value.type
  BY <1>2, <1>3 DEF UaVariantToValue, Value
<1>7. ASSUME lost = FALSE, HidesNothing(value) PROVE UaVariantToValue(variant) = value
  <2>1. value.texts \in Seq(Texts) /\ variant.texts \in Seq(Copies) /\ Len(variant.texts) = Len(value.texts)
        /\ AreCopies(variant.texts, Len(value.texts), value.texts) /\ variant.numbers = value.numbers
    BY <1>7 DEF Carries, IsValue, IsContent, Sendable
  <2>2. ASSUME NEW t \in 1..Len(value.texts) PROVE variant.texts[t] = value.texts[t]
    <3>1. value.texts[t] \in Texts /\ value.texts[t].hidden = FALSE
      <4>1. value.texts[t] \in Texts /\ t \in DOMAIN value.texts
        BY <2>1
      <4>2. ~value.texts[t].hidden
        BY <1>7, <4>1 DEF HidesNothing
      <4>3. value.texts[t].hidden \in BOOLEAN
        BY <4>1 DEF Texts
      <4> QED BY <4>1, <4>2, <4>3
    <3>2. CString(value.texts[t]) = value.texts[t]
      BY <3>1 DEF CString, Text, Texts
    <3> QED BY <2>1, <3>2 DEF AreCopies
  <2>3. variant.texts = value.texts
    BY <2>1, <2>2
  <2>4. value = Value(value.type, value.texts, value.numbers)
    BY DEF IsValue
  <2>5. CASE type \in Scalars
    <3>1. value.type \in {"bool", "int32", "string"}
      BY <1>2, <2>5 DEF Scalars, ValueTypes
    <3>2. First(value.texts) = value.texts /\ First(value.numbers) = value.numbers
      BY <3>1 DEF IsValue, IsContent, First
    <3> QED BY <1>2, <1>3, <2>1, <2>3, <2>4, <2>5, <3>2 DEF UaVariantToValue
  <2>6. CASE type \notin Scalars
    BY <1>2, <1>3, <2>1, <2>3, <2>4, <2>6 DEF UaVariantToValue
  <2> QED BY <2>5, <2>6
<1> QED BY <1>5, <1>6, <1>7

(* A variant that is read is told as it is, or the first of an array's elements. *)
LEMMA ToldAsItIs ==
  ASSUME NEW variant, IsVariant(variant), Readable(variant)
  PROVE  LET value == UaVariantToValue(variant)
             same(s, t) ==
               s = t \/ (variant.type \in Scalars /\ ~variant.scalar /\ s = <<t[1]>>)
         IN  /\ value.type = ValueTypes[variant.type]
             /\ variant.packing \notin {"empty", "broken", "overlong"}
             /\ same(value.texts, variant.texts) /\ same(value.numbers, variant.numbers)
<1> DEFINE value == UaVariantToValue(variant)
<1>1. value.type = ValueTypes[variant.type]
  BY DEF UaVariantToValue, Value
<1>2. variant.packing \notin {"empty", "broken", "overlong"}
  BY DEF IsVariant, Readable, Scalars, CustomTypes, ValueTypes
<1>3. CASE variant.type \notin Scalars
  BY <1>1, <1>2, <1>3 DEF UaVariantToValue, Value
<1>4. CASE variant.type \in Scalars
  <2>1. value.texts = First(variant.texts) /\ value.numbers = First(variant.numbers)
    BY <1>4 DEF UaVariantToValue, Value
  <2>2. ASSUME NEW S, NEW s \in Seq(S)
        PROVE  /\ First(s) = s \/ First(s) = <<s[1]>>
               /\ Len(s) = 1 => First(s) = s
    BY DEF First
  <2>3. CASE variant.scalar
    <3>1. /\ variant.texts \in Seq(Texts) /\ variant.numbers \in Seq(Int)
          /\ variant.texts = <<>> \/ Len(variant.texts) = 1
          /\ variant.numbers = <<>> \/ Len(variant.numbers) = 1
      BY <1>4, <2>3 DEF IsVariant, IsContent, Scalars, ValueTypes
    <3>2. First(variant.texts) = variant.texts /\ First(variant.numbers) = variant.numbers
      BY <2>2, <3>1 DEF First
    <3> QED BY <1>1, <1>2, <2>1, <3>2
  <2>4. CASE ~variant.scalar
    <3>1. /\ First(variant.texts) = variant.texts \/ First(variant.texts) = <<variant.texts[1]>>
          /\ First(variant.numbers) = variant.numbers \/ First(variant.numbers) = <<variant.numbers[1]>>
      BY DEF First
    <3> QED BY <1>1, <1>2, <1>4, <2>1, <2>4, <3>1
  <2> QED BY <2>3, <2>4
<1> QED BY <1>3, <1>4

-----------------------------------------------------------------------------
(* For every list of arguments, however their texts and numbers were copied:      *)
(* what is sent is what was given, in place, unless something was lost or hidden.   *)
THEOREM GivenIsSent == Spec => []SentAsGiven
<1>1. ASSUME ClientInv, lost \in BOOLEAN PROVE SentAsGiven
  <2> SUFFICES ASSUME at \in {"call", "write"} PROVE SentAsGiven
    BY DEF SentAsGiven
  <2>1. args \in Seq(Arguments) /\ inputs \in Seq(Sendable) /\ Len(inputs) = Len(args)
    BY <1>1, ArgumentsAreLists DEF ClientInv, DataInv, Converted, Stages
  <2>2. ASSUME NEW k \in DOMAIN inputs
        PROVE  IsValue(args[k]) /\ inputs[k] \in Sendable /\ Carries(inputs[k], args[k])
    <3>1. k \in 1..Len(inputs) /\ args[k] \in Arguments
      BY <2>1, <2>2
    <3> QED BY <1>1, <2>1, <3>1, DataAssumption DEF ClientInv, DataInv, Converted
  <2>3. ~lost => lost = FALSE
    BY <1>1
  <2>4. ASSUME NEW k \in DOMAIN inputs
        PROVE  /\ Readable(inputs[k]) /\ UaVariantToValue(inputs[k]).type = args[k].type
               /\ ~lost /\ HidesNothing(args[k]) => UaVariantToValue(inputs[k]) = args[k]
    BY <2>2, <2>3, <2>4, ThereAndBack
  <2> QED BY <2>1, <2>4 DEF SentAsGiven
<1> QED BY <1>1, ClientInvCorrect, AnswersAreBooleans, PTL

(* Whatever the server answers, in whatever packing: what is handed out is what    *)
(* was answered, and nothing is handed out of an operation that failed.             *)
THEOREM ReceivedIsTold == Spec => []ReceivedAsSent
<1>1. ASSUME ClientInv, executed \in BOOLEAN /\ ok \in BOOLEAN PROVE ReceivedAsSent
  <2> SUFFICES ASSUME at = "back" PROVE ReceivedAsSent
    BY DEF ReceivedAsSent
  <2>1. CASE ok /\ op \in {"callMethod", "readValue"}
    <3>1. ok = TRUE
      BY <1>1, <2>1
    <3>2. values \in Seq(Told) /\ output \in Seq(Results \cup Reported) /\ Len(values) = Len(output)
      BY <1>1, <2>1, <3>1 DEF ClientInv, DataInv, ReadBack, Stages
    <3>3. ASSUME NEW k \in DOMAIN values
          PROVE  IsVariant(output[k]) /\ Readable(output[k]) /\ values[k] = UaVariantToValue(output[k])
      <4>1. k \in 1..Len(values) /\ output[k] \in Results \cup Reported
        BY <3>2, <3>3
      <4> QED BY <1>1, <4>1, DataAssumption DEF ClientInv, DataInv, ReadBack
    <3> QED BY <2>1, <3>2, <3>3, ToldAsItIs DEF ReceivedAsSent
  <2>2. CASE ~(ok /\ op \in {"callMethod", "readValue"})
    <3>1. ok = FALSE \/ op \notin {"callMethod", "readValue"}
      BY <1>1, <2>2
    <3> QED BY <1>1, <2>2, <3>1 DEF ClientInv, DataInv, Stages, ReceivedAsSent
  <2> QED BY <2>1, <2>2
<1> QED BY <1>1, ClientInvCorrect, AnswersAreBooleans, PTL

-----------------------------------------------------------------------------
(* The readings of the robot.  *)

(* Either there is nothing to tell, and the default value is seen, or the       *)
(* one variant the server has answered with was whole and was read.              *)
LEMMA OutcomeOfReading ==
  ASSUME ClientInv, ok \in BOOLEAN, ReadingOver
  PROVE  \/ OutValue = NoValue
         \/ /\ Success /\ output # <<>>
            /\ IsVariant(output[1]) /\ Readable(output[1])
            /\ OutValue = UaVariantToValue(output[1])
<1>1. CASE values = <<>>
  BY <1>1 DEF OutValue
<1>2. CASE values # <<>>
  <2>1. op = "readValue" /\ at = "back"
    BY DEF ReadingOver
  <2>2. ok # FALSE
    BY <1>2, <2>1 DEF ClientInv, DataInv, Stages
  <2>3. Success
    BY <2>1, <2>2 DEF Success
  <2>4. /\ values \in Seq(Told) /\ output \in Seq(Results \cup Reported)
        /\ Len(values) <= Len(output)
    BY DEF ClientInv, DataInv, ReadBack
  <2>5. 1 \in 1..Len(values)
    BY <1>2, <2>4
  <2>6. 1 \in 1..Len(output) /\ output[1] \in Results \cup Reported /\ output # <<>>
    BY <2>4, <2>5
  <2>7. Readable(output[1]) /\ values[1] = UaVariantToValue(output[1])
    BY <2>5 DEF ClientInv, DataInv, ReadBack
  <2> QED BY <1>2, <2>3, <2>6, <2>7, DataAssumption DEF OutValue
<1> QED BY <1>1, <1>2

(* A value of a type tells of a variant of the type that carries it.  *)
LEMMA TypesTellVariants ==
  ASSUME NEW variant, IsVariant(variant), Readable(variant)
  PROVE  LET value == UaVariantToValue(variant)
         IN  /\ value.type = "bool" =>
                  /\ variant.type = "BOOLEAN" /\ variant.numbers # <<>>
                  /\ value.numbers = <<variant.numbers[1]>>
             /\ value.type = "vector" =>
                  /\ variant.type = "DOUBLES" /\ value.numbers = variant.numbers
                  /\ variant.numbers \in Seq(Int)
             /\ value.type = "executionStatus" =>
                  /\ variant.type = "EXECUTIONSTATUS"
                  /\ value.numbers = variant.numbers /\ value.texts = variant.texts
                  /\ variant.numbers \in Seq(Int) /\ Len(variant.numbers) = 2
                  /\ variant.numbers[1] \in {0, 1} /\ variant.numbers[2] \in {0, 1}
             /\ value.type \in {"vector", "executionStatus"} =>
                  variant.packing \in {"plainly", "decoded", "encoded"}
<1> DEFINE value == UaVariantToValue(variant)
<1>1. variant.type \in DOMAIN ValueTypes
  BY DEF Readable, ValueTypes, Scalars, CustomTypes
<1>2. value.type = ValueTypes[variant.type]
  BY DEF UaVariantToValue, Value
<1>3. ASSUME value.type = "bool"
      PROVE  /\ variant.type = "BOOLEAN" /\ variant.numbers # <<>>
             /\ value.numbers = <<variant.numbers[1]>>
  <2>1. variant.type = "BOOLEAN"
    BY <1>1, <1>2, <1>3 DEF ValueTypes
  <2>2. Len(First(variant.numbers)) = 1
    BY <2>1 DEF IsVariant, IsContent, Scalars, ValueTypes
  <2>3. variant.numbers # <<>>
    BY <2>2 DEF First
  <2> QED BY <2>1, <2>3 DEF UaVariantToValue, Value, First, Scalars
<1>4. ASSUME value.type = "vector"
      PROVE  /\ variant.type = "DOUBLES" /\ value.numbers = variant.numbers
             /\ variant.numbers \in Seq(Int) /\ variant.packing = "plainly"
  <2>1. variant.type = "DOUBLES"
    BY <1>1, <1>2, <1>4 DEF ValueTypes
  <2> QED BY <2>1 DEF UaVariantToValue, Value, Scalars, CustomTypes, IsVariant, IsContent
<1>5. ASSUME value.type = "executionStatus"
      PROVE  /\ variant.type = "EXECUTIONSTATUS"
             /\ value.numbers = variant.numbers /\ value.texts = variant.texts
             /\ variant.numbers \in Seq(Int) /\ Len(variant.numbers) = 2
             /\ variant.numbers[1] \in {0, 1} /\ variant.numbers[2] \in {0, 1}
             /\ variant.packing \in {"plainly", "decoded", "encoded"}
  <2>1. variant.type = "EXECUTIONSTATUS"
    BY <1>1, <1>2, <1>5 DEF ValueTypes
  <2>2. value.numbers = variant.numbers /\ value.texts = variant.texts
    BY <2>1 DEF UaVariantToValue, Value, Scalars
  <2>3. variant.scalar /\ variant.packing \in {"plainly", "decoded", "encoded"}
    BY <2>1 DEF Readable, Scalars, CustomTypes
  <2>4. IsContent("executionStatus", variant.texts, variant.numbers)
    BY <2>1, <2>3 DEF IsVariant, CustomTypes, ValueTypes
  <2> QED BY <2>1, <2>2, <2>3, <2>4 DEF IsContent
<1> QED BY <1>3, <1>4, <1>5

LEMMA SixNumbers ==
  ASSUME NEW s \in Seq(Int), Len(s) = 6
  PROVE  SubSeq(s, 1, 3) \o SubSeq(s, 4, 6) = s
<1>1. SubSeq(s, 1, 3) \o SubSeq(s, 3 + 1, 6) = SubSeq(s, 1, 6)
  BY ConcatAdjacentSubSeq
<1>2. SubSeq(s, 1, Len(s)) = s
  BY SubSeqFull
<1> QED BY <1>1, <1>2

(* For whatever the server reports: a reading that is not its default is a whole  *)
(* answer of the right type and size, as it was reported.                          *)
THEOREM ReadingsAreTrue == Spec => []ReadingsAreReported
<1>1. ASSUME ClientInv, executed \in BOOLEAN /\ ok \in BOOLEAN PROVE ReadingsAreReported
  <2> SUFFICES ASSUME ReadingOver PROVE ReadingsAreReported
    BY DEF ReadingsAreReported
  <2> DEFINE value == OutValue
             variant == output[1]
             status == readStatus(Success, OutValue)
             wrench == readWrench(Success, OutValue)
             numbers == readNumbers(Success, OutValue)
  <2>1. CASE OutValue = NoValue
    <3>1. value.type = "bool" /\ value.numbers = <<0>>
      BY <2>1 DEF NoValue, Value
    <3>2. ~areBrakesOpen(Success, OutValue)
      BY <3>1 DEF areBrakesOpen, Is
    <3>3. status.has_error
      BY <3>1 DEF readStatus, Is, ErrorStatus, Status
    <3>4. numbers = <<>> /\ wrench = NoWrench /\ readCartesianPose(Success, OutValue) = {DefaultPose}
      BY <3>1 DEF readNumbers, readWrench, readCartesianPose, tryReadCartesianPose, Is
    <3> QED BY <3>2, <3>3, <3>4 DEF ReadingsAreReported
  <2>2. ASSUME Success, output # <<>>, IsVariant(output[1]), Readable(output[1]),
               OutValue = UaVariantToValue(output[1])
        PROVE  ReadingsAreReported
    <3>1. areBrakesOpen(Success, OutValue) => variant.type = "BOOLEAN" /\ variant.numbers[1] = 1
      BY <2>2, TypesTellVariants DEF areBrakesOpen, Is
    <3>2. ASSUME ~status.has_error
          PROVE  /\ Holds("EXECUTIONSTATUS", <<0, IF status.is_running THEN 1 ELSE 0>>)
                 /\ variant.texts = status.texts
      <4>1. value.type = "executionStatus"
        BY <3>2 DEF readStatus, Is, ErrorStatus, Status
      <4>2. /\ status.texts = value.texts /\ value.numbers[1] # 1
            /\ status.is_running = (value.numbers[2] = 1)
        BY <2>2, <3>2, <4>1 DEF readStatus, Is, Status
      <4>3. /\ variant.type = "EXECUTIONSTATUS"
            /\ value.numbers = variant.numbers /\ value.texts = variant.texts
            /\ variant.numbers \in Seq(Int) /\ Len(variant.numbers) = 2
            /\ variant.numbers[1] \in {0, 1} /\ variant.numbers[2] \in {0, 1}
            /\ variant.packing \in {"plainly", "decoded", "encoded"}
        BY <2>2, <4>1, TypesTellVariants
      <4>4. variant.numbers = <<variant.numbers[1], variant.numbers[2]>>
        BY <4>3
      <4>5. variant.numbers = <<0, IF status.is_running THEN 1 ELSE 0>>
        BY <4>2, <4>3, <4>4
      <4> QED BY <2>2, <4>2, <4>3, <4>5 DEF Holds
    <3>3. numbers # <<>> => Holds("DOUBLES", numbers)
      BY <2>2, TypesTellVariants DEF readNumbers, Is, Holds
    <3>4. wrench # NoWrench => Holds("DOUBLES", wrench.force \o wrench.torque)
      <4> SUFFICES ASSUME wrench # NoWrench PROVE Holds("DOUBLES", wrench.force \o wrench.torque)
        OBVIOUS
      <4>1. value.type = "vector" /\ Len(value.numbers) = 6
        BY DEF readWrench, Is
      <4>2. wrench.force = SubSeq(value.numbers, 1, 3) /\ wrench.torque = SubSeq(value.numbers, 4, 6)
        BY <2>2, <4>1 DEF readWrench, Is
      <4>3. /\ variant.type = "DOUBLES" /\ value.numbers = variant.numbers
            /\ variant.numbers \in Seq(Int) /\ variant.packing \in {"plainly", "decoded", "encoded"}
        BY <2>2, <4>1, TypesTellVariants
      <4>4. SubSeq(variant.numbers, 1, 3) \o SubSeq(variant.numbers, 4, 6) = variant.numbers
        BY <4>1, <4>3, SixNumbers
      <4> QED BY <2>2, <4>2, <4>3, <4>4 DEF Holds
    <3>5. (\E pose \in readCartesianPose(Success, OutValue) : pose # DefaultPose) =>
             variant.type = "DOUBLES" /\ Len(variant.numbers) = 16
      <4>1. ASSUME NEW pose \in readCartesianPose(Success, OutValue), pose # DefaultPose
            PROVE  value.type = "vector" /\ Len(value.numbers) = 16
        BY <4>1 DEF readCartesianPose, tryReadCartesianPose, Is
      <4> QED BY <2>2, <4>1, TypesTellVariants
    <3> QED BY <3>1, <3>2, <3>3, <3>4, <3>5 DEF ReadingsAreReported
  <2> QED BY <1>1, <2>1, <2>2, OutcomeOfReading
<1> QED BY <1>1, ClientInvCorrect, AnswersAreBooleans, PTL
-----------------------------------------------------------------------------
(* The matrix whose first two columns are x and y, and the right hand's third.  *)
Turn(x, y) ==
  << <<x[1], y[1], x[2] * y[3] - x[3] * y[2]>>,
     <<x[2], y[2], x[3] * y[1] - x[1] * y[3]>>,
     <<x[3], y[3], x[1] * y[2] - x[2] * y[1]>> >>

MatrixOf(w, x, y, z) ==
  LET n == w * w + x * x + y * y + z * z
      part(a) == (2 * a) \div n
  IN  << <<1 - part(y*y + z*z), part(x*y - w*z), part(x*z + w*y)>>,
         <<part(x*y + w*z), 1 - part(x*x + z*z), part(y*z - w*x)>>,
         <<part(x*z - w*y), part(y*z + w*x), 1 - part(x*x + y*y)>> >>

LEMMA MatricesAreRotations ==
  ASSUME NEW w \in -2..2, NEW x \in -2..2, NEW y \in -2..2, NEW z \in -2..2,
         w * w + x * x + y * y + z * z \in {4, 8}
  PROVE  \E q \in Quaternions : Rotation(q) = MatrixOf(w, x, y, z)
<1> DEFINE q == [k \in {"w", "x", "y", "z"} |->
                   CASE k = "w" -> w [] k = "x" -> x [] k = "y" -> y [] k = "z" -> z]
<1>1. q["w"] = w /\ q["x"] = x /\ q["y"] = y /\ q["z"] = z
  OBVIOUS
<1>2. q \in [{"w", "x", "y", "z"} -> -2..2]
  OBVIOUS
<1> HIDE DEF q
<1>3. Norm2(q) = w * w + x * x + y * y + z * z
  BY <1>1 DEF Norm2
<1>4. q \in Quaternions
  BY <1>2, <1>3 DEF Quaternions
<1>5. Rotation(q) = MatrixOf(w, x, y, z)
  BY <1>1, <1>3 DEF Rotation, MatrixOf
<1> QED BY <1>4, <1>5

Axes == {<<1, 0, 0>>, <<-1, 0, 0>>, <<0, 1, 0>>, <<0, -1, 0>>, <<0, 0, 1>>, <<0, 0, -1>>}

LEMMA UnitsAreAxes ==
  ASSUME NEW a \in Int, NEW b \in Int, NEW c \in Int, a * a + b * b + c * c = 1
  PROVE  <<a, b, c>> \in Axes
<1>1. a * a >= 0 /\ b * b >= 0 /\ c * c >= 0
  OBVIOUS
<1>2. a * a <= 1 /\ b * b <= 1 /\ c * c <= 1
  BY <1>1
<1>3. a \in {-1, 0, 1} /\ b \in {-1, 0, 1} /\ c \in {-1, 0, 1}
  BY <1>2
<1> QED BY <1>3 DEF Axes

LEMMA TurnsHaveAQuaternion ==
  ASSUME NEW x \in Axes, NEW y \in Axes, Product(x, y) = 0
  PROVE  \E q \in Quaternions : Rotation(q) = Turn(x, y)
<1> DEFINE Found(u, v) == \E q \in Quaternions : Rotation(q) = Turn(u, v)
<1>1. Found(<<1, 0, 0>>, <<0, 1, 0>>)
  BY MatricesAreRotations, MatrixOf(2, 0, 0, 0) = Turn(<<1, 0, 0>>, <<0, 1, 0>>) DEF MatrixOf, Turn
<1>2. Found(<<1, 0, 0>>, <<0, -1, 0>>)
  BY MatricesAreRotations, MatrixOf(0, 2, 0, 0) = Turn(<<1, 0, 0>>, <<0, -1, 0>>) DEF MatrixOf, Turn
<1>3. Found(<<1, 0, 0>>, <<0, 0, 1>>)
  BY MatricesAreRotations, MatrixOf(2, 2, 0, 0) = Turn(<<1, 0, 0>>, <<0, 0, 1>>) DEF MatrixOf, Turn
<1>4. Found(<<1, 0, 0>>, <<0, 0, -1>>)
  BY MatricesAreRotations, MatrixOf(2, -2, 0, 0) = Turn(<<1, 0, 0>>, <<0, 0, -1>>) DEF MatrixOf, Turn
<1>5. Found(<<-1, 0, 0>>, <<0, 1, 0>>)
  BY MatricesAreRotations, MatrixOf(0, 0, 2, 0) = Turn(<<-1, 0, 0>>, <<0, 1, 0>>) DEF MatrixOf, Turn
<1>6. Found(<<-1, 0, 0>>, <<0, -1, 0>>)
  BY MatricesAreRotations, MatrixOf(0, 0, 0, 2) = Turn(<<-1, 0, 0>>, <<0, -1, 0>>) DEF MatrixOf, Turn
<1>7. Found(<<-1, 0, 0>>, <<0, 0, 1>>)
  BY MatricesAreRotations, MatrixOf(0, 0, 2, 2) = Turn(<<-1, 0, 0>>, <<0, 0, 1>>) DEF MatrixOf, Turn
<1>8. Found(<<-1, 0, 0>>, <<0, 0, -1>>)
  BY MatricesAreRotations, MatrixOf(0, 0, 2, -2) = Turn(<<-1, 0, 0>>, <<0, 0, -1>>) DEF MatrixOf, Turn
<1>9. Found(<<0, 1, 0>>, <<1, 0, 0>>)
  BY MatricesAreRotations, MatrixOf(0, 2, 2, 0) = Turn(<<0, 1, 0>>, <<1, 0, 0>>) DEF MatrixOf, Turn
<1>10. Found(<<0, 1, 0>>, <<-1, 0, 0>>)
  BY MatricesAreRotations, MatrixOf(2, 0, 0, 2) = Turn(<<0, 1, 0>>, <<-1, 0, 0>>) DEF MatrixOf, Turn
<1>11. Found(<<0, 1, 0>>, <<0, 0, 1>>)
  BY MatricesAreRotations, MatrixOf(1, 1, 1, 1) = Turn(<<0, 1, 0>>, <<0, 0, 1>>) DEF MatrixOf, Turn
<1>12. Found(<<0, 1, 0>>, <<0, 0, -1>>)
  BY MatricesAreRotations, MatrixOf(1, -1, -1, 1) = Turn(<<0, 1, 0>>, <<0, 0, -1>>) DEF MatrixOf, Turn
<1>13. Found(<<0, -1, 0>>, <<1, 0, 0>>)
  BY MatricesAreRotations, MatrixOf(2, 0, 0, -2) = Turn(<<0, -1, 0>>, <<1, 0, 0>>) DEF MatrixOf, Turn
<1>14. Found(<<0, -1, 0>>, <<-1, 0, 0>>)
  BY MatricesAreRotations, MatrixOf(0, 2, -2, 0) = Turn(<<0, -1, 0>>, <<-1, 0, 0>>) DEF MatrixOf, Turn
<1>15. Found(<<0, -1, 0>>, <<0, 0, 1>>)
  BY MatricesAreRotations, MatrixOf(1, 1, -1, -1) = Turn(<<0, -1, 0>>, <<0, 0, 1>>) DEF MatrixOf, Turn
<1>16. Found(<<0, -1, 0>>, <<0, 0, -1>>)
  BY MatricesAreRotations, MatrixOf(1, -1, 1, -1) = Turn(<<0, -1, 0>>, <<0, 0, -1>>) DEF MatrixOf, Turn
<1>17. Found(<<0, 0, 1>>, <<1, 0, 0>>)
  BY MatricesAreRotations, MatrixOf(1, -1, -1, -1) = Turn(<<0, 0, 1>>, <<1, 0, 0>>) DEF MatrixOf, Turn
<1>18. Found(<<0, 0, 1>>, <<-1, 0, 0>>)
  BY MatricesAreRotations, MatrixOf(1, 1, -1, 1) = Turn(<<0, 0, 1>>, <<-1, 0, 0>>) DEF MatrixOf, Turn
<1>19. Found(<<0, 0, 1>>, <<0, 1, 0>>)
  BY MatricesAreRotations, MatrixOf(2, 0, -2, 0) = Turn(<<0, 0, 1>>, <<0, 1, 0>>) DEF MatrixOf, Turn
<1>20. Found(<<0, 0, 1>>, <<0, -1, 0>>)
  BY MatricesAreRotations, MatrixOf(0, 2, 0, 2) = Turn(<<0, 0, 1>>, <<0, -1, 0>>) DEF MatrixOf, Turn
<1>21. Found(<<0, 0, -1>>, <<1, 0, 0>>)
  BY MatricesAreRotations, MatrixOf(1, 1, 1, -1) = Turn(<<0, 0, -1>>, <<1, 0, 0>>) DEF MatrixOf, Turn
<1>22. Found(<<0, 0, -1>>, <<-1, 0, 0>>)
  BY MatricesAreRotations, MatrixOf(1, -1, 1, 1) = Turn(<<0, 0, -1>>, <<-1, 0, 0>>) DEF MatrixOf, Turn
<1>23. Found(<<0, 0, -1>>, <<0, 1, 0>>)
  BY MatricesAreRotations, MatrixOf(2, 0, 2, 0) = Turn(<<0, 0, -1>>, <<0, 1, 0>>) DEF MatrixOf, Turn
<1>24. Found(<<0, 0, -1>>, <<0, -1, 0>>)
  BY MatricesAreRotations, MatrixOf(0, 2, 0, -2) = Turn(<<0, 0, -1>>, <<0, -1, 0>>) DEF MatrixOf, Turn
<1> QED
  BY <1>1, <1>2, <1>3, <1>4, <1>5, <1>6, <1>7, <1>8, <1>9, <1>10, <1>11, <1>12, <1>13, <1>14,
     <1>15, <1>16, <1>17, <1>18, <1>19, <1>20, <1>21, <1>22, <1>23, <1>24
  DEF Axes, Product

LEMMA FourTuple == \A s \in Seq(Int) : Len(s) = 4 => s = <<s[1], s[2], s[3], s[4]>>
OBVIOUS

LEMMA ThreeAndOne ==
  ASSUME NEW a \in Int, NEW b \in Int, NEW c \in Int
  PROVE  <<a, b, c>> \o <<1>> = <<a, b, c, 1>>
<1> DEFINE s == <<a, b, c>>
           t == <<1>>
<1>1. s \in Seq(Int) /\ t \in Seq(Int) /\ Len(s) = 3 /\ Len(t) = 1
  OBVIOUS
<1>2. s \o t \in Seq(Int) /\ Len(s \o t) = 4
  BY <1>1
<1>3. (s \o t)[1] = a /\ (s \o t)[2] = b /\ (s \o t)[3] = c /\ (s \o t)[4] = 1
  BY <1>1
<1> HIDE DEF s, t
<1>4. s \o t = <<(s \o t)[1], (s \o t)[2], (s \o t)[3], (s \o t)[4]>>
  BY <1>2, FourTuple
<1>5. s \o t = <<a, b, c, 1>>
  BY <1>3, <1>4
<1> QED BY <1>5 DEF s, t

LEMMA FourNumbers ==
  ASSUME NEW n \in Seq(Int), NEW a \in 1..(Len(n) - 3)
  PROVE  SubSeq(n, a, a + 3) = <<n[a], n[a + 1], n[a + 2], n[a + 3]>>
<1>1. \A i \in a..(a + 3) : n[i] \in Int
  OBVIOUS
<1>2. Len(n) \in Nat /\ a \in Int /\ a + 3 \in Int /\ a + 3 - a + 1 = 4
  OBVIOUS
<1>3. /\ SubSeq(n, a, a + 3) \in Seq(Int)
      /\ Len(SubSeq(n, a, a + 3)) = 4
      /\ \A i \in 1..4 : SubSeq(n, a, a + 3)[i] = n[a + i - 1]
  BY <1>1, <1>2, SubSeqProperties
<1>4. a + 1 - 1 = a /\ a + 2 - 1 = a + 1 /\ a + 3 - 1 = a + 2 /\ a + 4 - 1 = a + 3
  BY <1>2
<1>5. /\ SubSeq(n, a, a + 3)[1] = n[a] /\ SubSeq(n, a, a + 3)[2] = n[a + 1]
      /\ SubSeq(n, a, a + 3)[3] = n[a + 2] /\ SubSeq(n, a, a + 3)[4] = n[a + 3]
  BY <1>3, <1>4
<1>6. SubSeq(n, a, a + 3) = <<SubSeq(n, a, a + 3)[1], SubSeq(n, a, a + 3)[2],
                             SubSeq(n, a, a + 3)[3], SubSeq(n, a, a + 3)[4]>>
  BY <1>3, FourTuple
<1> QED BY <1>5, <1>6

(* Sixteen numbers are their four columns one behind the other.  *)
LEMMA FourColumns ==
  ASSUME NEW n \in Seq(Int), Len(n) = 16
  PROVE  /\ \A k \in 1..16 : n[k] \in Int
         /\ Column(n, 1) = <<n[1], n[2], n[3], n[4]>> /\ Column(n, 2) = <<n[5], n[6], n[7], n[8]>>
         /\ Column(n, 3) = <<n[9], n[10], n[11], n[12]>>
         /\ Column(n, 4) = <<n[13], n[14], n[15], n[16]>>
         /\ Column(n, 1) \o Column(n, 2) \o Column(n, 3) \o Column(n, 4) = n
<1>1. \A k \in 1..16 : n[k] \in Int
  <2>1. \A k \in 1..Len(n) : n[k] \in Int
    BY ElementOfSeq
  <2> QED BY <2>1
<1>2. /\ SubSeq(n, 1, 4) = <<n[1], n[2], n[3], n[4]>>
      /\ SubSeq(n, 5, 8) = <<n[5], n[6], n[7], n[8]>>
      /\ SubSeq(n, 9, 12) = <<n[9], n[10], n[11], n[12]>>
      /\ SubSeq(n, 13, 16) = <<n[13], n[14], n[15], n[16]>>
  <2>1. \A a \in 1..13 : SubSeq(n, a, a + 3) = <<n[a], n[a + 1], n[a + 2], n[a + 3]>>
    <3>1. \A a \in 1..13 : a \in 1..(Len(n) - 3)
      OBVIOUS
    <3> QED BY <3>1, FourNumbers
  <2>2. /\ SubSeq(n, 1, 1 + 3) = <<n[1], n[1 + 1], n[1 + 2], n[1 + 3]>>
        /\ SubSeq(n, 5, 5 + 3) = <<n[5], n[5 + 1], n[5 + 2], n[5 + 3]>>
        /\ SubSeq(n, 9, 9 + 3) = <<n[9], n[9 + 1], n[9 + 2], n[9 + 3]>>
        /\ SubSeq(n, 13, 13 + 3) = <<n[13], n[13 + 1], n[13 + 2], n[13 + 3]>>
    BY <2>1
  <2> QED BY <2>2
<1>3. /\ SubSeq(n, 1, 4) \o SubSeq(n, 4 + 1, 8) = SubSeq(n, 1, 8)
      /\ SubSeq(n, 1, 8) \o SubSeq(n, 8 + 1, 12) = SubSeq(n, 1, 12)
      /\ SubSeq(n, 1, 12) \o SubSeq(n, 12 + 1, 16) = SubSeq(n, 1, 16)
  BY ConcatAdjacentSubSeq
<1>4. SubSeq(n, 1, 16) = n
  BY SubSeqFull
<1>5. /\ Column(n, 1) = SubSeq(n, 1, 4) /\ Column(n, 2) = SubSeq(n, 5, 8)
      /\ Column(n, 3) = SubSeq(n, 9, 12) /\ Column(n, 4) = SubSeq(n, 13, 16)
  BY DEF Column
<1>6. /\ SubSeq(n, 1, 4) \o SubSeq(n, 5, 8) = SubSeq(n, 1, 8)
      /\ SubSeq(n, 1, 8) \o SubSeq(n, 9, 12) = SubSeq(n, 1, 12)
      /\ SubSeq(n, 1, 12) \o SubSeq(n, 13, 16) = n
  BY <1>3, <1>4
<1>7. Column(n, 1) \o Column(n, 2) \o Column(n, 3) \o Column(n, 4) = n
  BY <1>5, <1>6, Zenon
<1> QED BY <1>1, <1>2, <1>5, <1>7

(* The matrix of a rigid transformation turns the axes.  *)
LEMMA RigidTurns ==
  ASSUME NEW n \in Seq(Int), Len(n) = 16, IsRigid(n)
  PROVE  LET x == <<n[1], n[2], n[3]>>  y == <<n[5], n[6], n[7]>>
         IN  /\ x \in Axes /\ y \in Axes /\ Product(x, y) = 0
             /\ RotationPart(n) = Turn(x, y)
             /\ n[4] = 0 /\ n[8] = 0 /\ n[12] = 0 /\ n[16] = 1
<1> DEFINE x == Column(n, 1)
           y == Column(n, 2)
           z == Column(n, 3)
<1>1. /\ x = <<n[1], n[2], n[3], n[4]>> /\ y = <<n[5], n[6], n[7], n[8]>>
      /\ z = <<n[9], n[10], n[11], n[12]>>
  BY FourColumns
<1>2. \A k \in 1..16 : n[k] \in Int
  BY FourColumns
<1>3. /\ n[4*1] = 0 /\ n[4*2] = 0 /\ n[4*3] = 0 /\ n[16] = 1
      /\ \A a, b \in {x, y, z} : Product(a, b) = (IF a = b THEN 1 ELSE 0)
      /\ z = <<x[2] * y[3] - x[3] * y[2], x[3] * y[1] - x[1] * y[3], x[1] * y[2] - x[2] * y[1], 0>>
  BY DEF IsRigid
<1>4. n[4] = 0 /\ n[8] = 0 /\ n[12] = 0 /\ n[16] = 1
  BY <1>3
<1>5. /\ n[9] = n[2] * n[7] - n[3] * n[6]
      /\ n[10] = n[3] * n[5] - n[1] * n[7]
      /\ n[11] = n[1] * n[6] - n[2] * n[5]
  BY <1>1, <1>3
<1>6. /\ n[1] * n[1] + n[2] * n[2] + n[3] * n[3] = 1
      /\ n[5] * n[5] + n[6] * n[6] + n[7] * n[7] = 1
      /\ n[9] * n[9] + n[10] * n[10] + n[11] * n[11] = 1
  <2>1. Product(x, x) = 1 /\ Product(y, y) = 1 /\ Product(z, z) = 1
    BY <1>3
  <2> QED BY <1>1, <2>1 DEF Product
<1>7. /\ n[1] \in Int /\ n[2] \in Int /\ n[3] \in Int /\ n[5] \in Int /\ n[6] \in Int /\ n[7] \in Int
      /\ n[9] \in Int /\ n[10] \in Int /\ n[11] \in Int
  BY <1>2
<1>8. <<n[1], n[2], n[3]>> \in Axes /\ <<n[5], n[6], n[7]>> \in Axes
  BY <1>6, <1>7, UnitsAreAxes
<1>9. x # y
  <2> SUFFICES ASSUME x = y PROVE FALSE
    OBVIOUS
  <2>1. n[1] = n[5] /\ n[2] = n[6] /\ n[3] = n[7]
    BY <1>1
  <2>2. \A a, b \in Int : a * b - b * a = 0
    OBVIOUS
  <2>3. n[9] = 0 /\ n[10] = 0 /\ n[11] = 0
    BY <1>5, <1>7, <2>1, <2>2
  <2> QED BY <1>6, <2>3
<1>10. Product(x, y) = 0
  BY <1>3, <1>9
<1>11. Product(<<n[1], n[2], n[3]>>, <<n[5], n[6], n[7]>>) = 0
  BY <1>1, <1>10 DEF Product
<1>12. RotationPart(n) = Turn(<<n[1], n[2], n[3]>>, <<n[5], n[6], n[7]>>)
  BY <1>5 DEF RotationPart, Entry, Turn
<1> QED BY <1>4, <1>8, <1>11, <1>12

(* Whatever rigid pose the server reports: saving the current pose stores the    *)
(* same sixteen numbers, or refuses those that are not finite.                     *)
THEOREM SavedIsReported == Spec => []SavedAsReported
<1>1. ASSUME ClientInv, executed \in BOOLEAN /\ ok \in BOOLEAN PROVE SavedAsReported
  <2> DEFINE n == output[1].numbers
             finite == \A k \in 13..15 : n[k] # NotFinite
  <2> SUFFICES ASSUME ReadingOver, NEW pose \in tryReadCartesianPose(Success, OutValue), IsRigid(n)
               PROVE  fromPoseToVector(pose) = IF finite THEN n ELSE <<>>
    BY DEF SavedAsReported
  <2>1. OutValue.type = "vector" /\ Len(OutValue.numbers) = 16
    BY DEF tryReadCartesianPose, Is
  <2>2. OutValue # NoValue
    BY <2>1 DEF NoValue, Value
  <2>3. n \in Seq(Int) /\ Len(n) = 16 /\ OutValue.numbers = n
    BY <1>1, <2>1, <2>2, OutcomeOfReading, TypesTellVariants
  <2>4. PICK orientation \in Orientations(RotationPart(n)) : pose = Pose(<<n[13], n[14], n[15]>>, orientation)
    <3>1. /\ Entry(OutValue.numbers, 0, 3) = n[13] /\ Entry(OutValue.numbers, 1, 3) = n[14]
          /\ Entry(OutValue.numbers, 2, 3) = n[15]
      BY <2>3 DEF Entry
    <3> HIDE DEF n
    <3>2. tryReadCartesianPose(Success, OutValue) =
            {Pose(<<Entry(n, 0, 3), Entry(n, 1, 3), Entry(n, 2, 3)>>, orientation) :
               orientation \in Orientations(RotationPart(n))}
      <4>1. Is(Success, OutValue, "vector")
        BY DEF tryReadCartesianPose
      <4> QED BY <2>1, <2>3, <4>1, Zenon DEF tryReadCartesianPose
    <3> QED BY <2>3, <3>1, <3>2
  <2>5. PICK q \in Quaternions : Rotation(q) = RotationPart(n) /\ orientation = Orientation(q, TRUE)
    <3> DEFINE x == <<n[1], n[2], n[3]>>
               y == <<n[5], n[6], n[7]>>
    <3>1. x \in Axes /\ y \in Axes /\ Product(x, y) = 0 /\ RotationPart(n) = Turn(x, y)
      BY <2>3, RigidTurns
    <3>2. \E q \in Quaternions : Rotation(q) = RotationPart(n)
      BY <3>1, TurnsHaveAQuaternion
    <3>3. /\ orientation \in [quaternion : Quaternions, unit : BOOLEAN]
          /\ orientation.unit /\ Rotation(orientation.quaternion) = RotationPart(n)
      BY <3>2 DEF Orientations
    <3>4. orientation = Orientation(orientation.quaternion, TRUE)
      BY <3>3 DEF Orientation
    <3> QED BY <3>3, <3>4
  <2>6. /\ pose.position = <<n[13], n[14], n[15]>> /\ pose.orientation.unit = TRUE
        /\ pose.orientation.quaternion = q
    BY <2>4, <2>5 DEF Pose, Orientation
  <2>7. (\E k \in 1..3 : pose.position[k] = NotFinite) <=> ~finite
    BY <2>6
  <2>8. CASE ~finite
    BY <2>7, <2>8 DEF fromPoseToVector
  <2>9. CASE finite
    <3> DEFINE rotation == Rotation(pose.orientation.quaternion)
               column(c) == IF c = 4 THEN pose.position \o <<1>>
                            ELSE <<rotation[1][c], rotation[2][c], rotation[3][c], 0>>
    <3>1. fromPoseToVector(pose) = column(1) \o column(2) \o column(3) \o column(4)
      BY <2>6, <2>7, <2>9 DEF fromPoseToVector
    <3>2. n[4] = 0 /\ n[8] = 0 /\ n[12] = 0 /\ n[16] = 1
      BY <2>3, RigidTurns
    <3>3. /\ Column(n, 1) = <<n[1], n[2], n[3], n[4]>> /\ Column(n, 2) = <<n[5], n[6], n[7], n[8]>>
          /\ Column(n, 3) = <<n[9], n[10], n[11], n[12]>>
          /\ Column(n, 4) = <<n[13], n[14], n[15], n[16]>>
          /\ Column(n, 1) \o Column(n, 2) \o Column(n, 3) \o Column(n, 4) = n
      BY <2>3, FourColumns
    <3>4. rotation = RotationPart(n)
      BY <2>5, <2>6
    <3>5. column(1) = Column(n, 1) /\ column(2) = Column(n, 2) /\ column(3) = Column(n, 3)
      BY <3>2, <3>3, <3>4 DEF RotationPart, Entry
    <3>6. column(4) = Column(n, 4)
      <4>1. n[13] \in Int /\ n[14] \in Int /\ n[15] \in Int
        <5>1. \A k \in 1..16 : n[k] \in Int
          BY <2>3, FourColumns
        <5> HIDE DEF n
        <5> QED BY <5>1
      <4>2. pose.position \o <<1>> = <<n[13], n[14], n[15], 1>>
        BY <2>6, <4>1, ThreeAndOne
      <4> QED BY <3>2, <3>3, <4>2
    <3> HIDE DEF column, rotation
    <3>7. fromPoseToVector(pose) = n
      BY <3>1, <3>3, <3>5, <3>6
    <3> QED BY <2>9, <3>7
  <2> QED BY <2>8, <2>9
<1> QED BY <1>1, ClientInvCorrect, AnswersAreBooleans, PTL
=============================================================================
