--------------------------- MODULE ClientReadings ---------------------------
(***************************************************************************)
(* The readings of FrankaRobot on top of OpcuaClient: what a caller of       *)
(* areBrakesOpen, readStatus and the like is told when readValue comes back. *)
(***************************************************************************)
EXTENDS OpcuaClient, RobotReadings

Success == op = "readValue" /\ ok
ReadingOver == op = "readValue" /\ at = "back"

(* out_value, untouched by a readValue that failed  *)
OutValue == IF values = <<>> THEN NoValue ELSE values[1]

(* What the variable's value is in truth: the variant, if it is whole and of   *)
(* the type.                                                                    *)
Holds(type, numbers) ==
  /\ output # <<>>
  /\ output[1].type = type
  /\ output[1].packing \in {"plainly", "decoded", "encoded"}
  /\ output[1].numbers = numbers

(* A reading that is not its default is what the server has reported, from a    *)
(* variable of the right type and size: an answer that failed, or is of another *)
(* type, or too short or long, never shows as open brakes, as a status without  *)
(* error or as a wrench or pose put together from something else.                *)
ReadingsAreReported ==
  ReadingOver =>
    LET status == readStatus(Success, OutValue)
        wrench == readWrench(Success, OutValue)
        numbers == readNumbers(Success, OutValue)
    IN  /\ areBrakesOpen(Success, OutValue) =>
             output[1].type = "BOOLEAN" /\ output[1].numbers[1] = 1
        /\ ~status.has_error =>
             /\ Holds("EXECUTIONSTATUS", <<0, IF status.is_running THEN 1 ELSE 0>>)
             /\ output[1].texts = status.texts
        /\ numbers # <<>> => Holds("DOUBLES", numbers)
        /\ wrench # NoWrench => Holds("DOUBLES", wrench.force \o wrench.torque)
        /\ (\E pose \in readCartesianPose(Success, OutValue) : pose # DefaultPose) =>
             output[1].type = "DOUBLES" /\ Len(output[1].numbers) = 16

(* Column c of the matrix that sixteen numbers are.  *)
Column(numbers, c) == SubSeq(numbers, 4 * c - 3, 4 * c)

Product(v, w) == v[1] * w[1] + v[2] * w[2] + v[3] * w[3]

(* The matrix of a robot's pose: axes of length one, at right angles, the third *)
(* one where the right hand has it; the position; and 0 0 0 1 below.             *)
IsRigid(numbers) ==
  LET x == Column(numbers, 1)  y == Column(numbers, 2)  z == Column(numbers, 3)
  IN  /\ \A c \in 1..3 : numbers[4 * c] = 0
      /\ numbers[16] = 1
      /\ \A a, b \in {x, y, z} : Product(a, b) = (IF a = b THEN 1 ELSE 0)
      /\ z = <<x[2] * y[3] - x[3] * y[2], x[3] * y[1] - x[1] * y[3], x[1] * y[2] - x[2] * y[1], 0>>

(* Saving the current pose stores the very matrix the server has reported: the   *)
(* way through quaternion and position, by columns and back, changes nothing; a   *)
(* position that is not finite is refused, and so is what is not a matrix.        *)
SavedAsReported ==
  ReadingOver =>
    \A pose \in tryReadCartesianPose(Success, OutValue) :
      LET numbers == output[1].numbers
          finite == \A k \in 13..15 : numbers[k] # NotFinite
      IN  IsRigid(numbers) => fromPoseToVector(pose) = IF finite THEN numbers ELSE <<>>
=============================================================================
