--------------------------- MODULE RobotReadings ---------------------------
(***************************************************************************)
(* The operations of FrankaRobot that only read.  Each is one readValue and  *)
(* what is made of its two answers: success, and the value read.  A value    *)
(* that is missing or of another type becomes a default.                     *)
(*                                                                          *)
(* A pose is a position and a quaternion.  A quaternion is given by integers *)
(* in proportion to its coordinates, and by whether its norm is 1.  Those     *)
(* here are all that turn the axes into each other, the rotations whose       *)
(* matrix has integers only.                                                  *)
(***************************************************************************)
EXTENDS ValueConversion, Integers

CONSTANT NotFinite    \* stands for the numbers that are infinite or none

Is(success, value, type) == success /\ value.type = type

areBrakesOpen(success, value) == Is(success, value, "bool") /\ value.numbers[1] = 1

Status(has_error, is_running, texts) ==
  [has_error |-> has_error, is_running |-> is_running, texts |-> texts]

(* The texts are error_message, active_task_name and active_task_id.  *)
ErrorStatus == Status(TRUE, FALSE, <<Text("Struttura di default", FALSE), EmptyText, EmptyText>>)

readStatus(success, value) ==
  IF Is(success, value, "executionStatus")
  THEN Status(value.numbers[1] = 1, value.numbers[2] = 1, value.texts)
  ELSE ErrorStatus

(* readJointAngles and readTorque: as many numbers as the server has sent.   *)
readNumbers(success, value) == IF Is(success, value, "vector") THEN value.numbers ELSE <<>>

NoWrench == [force |-> <<0, 0, 0>>, torque |-> <<0, 0, 0>>]

(* Mutant of readWrench: more than six numbers will do.  *)
readWrenchOrLonger(success, value) ==
  IF Is(success, value, "vector") /\ Len(value.numbers) >= 6
  THEN [force |-> SubSeq(value.numbers, 1, 3), torque |-> SubSeq(value.numbers, 4, 6)]
  ELSE NoWrench

readWrench(success, value) ==
  IF Is(success, value, "vector") /\ Len(value.numbers) = 6
  THEN [force |-> SubSeq(value.numbers, 1, 3), torque |-> SubSeq(value.numbers, 4, 6)]
  ELSE NoWrench

-----------------------------------------------------------------------------
(* Poses and 4x4 matrices.  *)

Pose(position, orientation) == [position |-> position, orientation |-> orientation]

Norm2(q) == q["w"] * q["w"] + q["x"] * q["x"] + q["y"] * q["y"] + q["z"] * q["z"]

Quaternions == {q \in [{"w", "x", "y", "z"} -> -2..2] : Norm2(q) \in {4, 8}}

Orientation(q, unit) == [quaternion |-> q, unit |-> unit]

(* toRotationMatrix, external: the rows of the matrix of a quaternion of norm 1. *)
Rotation(q) ==
  LET w == q["w"]  x == q["x"]  y == q["y"]  z == q["z"]
      n == Norm2(q)
      part(a) == (2 * a) \div n
  IN  << <<1 - part(y*y + z*z), part(x*y - w*z), part(x*z + w*y)>>,
         <<part(x*y + w*z), 1 - part(x*x + z*z), part(y*z - w*x)>>,
         <<part(x*z - w*y), part(y*z + w*x), 1 - part(x*x + y*y)>> >>

(* Mutant of Entry: row by row.  *)
EntryByRows(numbers, r, c) == numbers[4 * r + c + 1]

(* Sixteen numbers, column by column: number 4c + r + 1 is row r, column c.  *)
Entry(numbers, r, c) == numbers[4 * c + r + 1]

RotationPart(numbers) ==
  LET row(r) == <<Entry(numbers, r, 0), Entry(numbers, r, 1), Entry(numbers, r, 2)>>
  IN  <<row(0), row(1), row(2)>>

(* Quaterniond(rotation), external: a quaternion of the rotation.  What Eigen  *)
(* makes of a matrix that is none is not said.                                  *)
Orientations(matrix) ==
  LET fits(q) == Rotation(q) = matrix
  IN  {orientation \in [quaternion : Quaternions, unit : BOOLEAN] :
         (\E q \in Quaternions : fits(q)) => orientation.unit /\ fits(orientation.quaternion)}

(* What tryReadCartesianPose may answer, nothing for std::nullopt.  *)
tryReadCartesianPose(success, value) ==
  IF Is(success, value, "vector") /\ Len(value.numbers) = 16
  THEN {Pose(<<Entry(value.numbers, 0, 3), Entry(value.numbers, 1, 3), Entry(value.numbers, 2, 3)>>,
             orientation) :
          orientation \in Orientations(RotationPart(value.numbers))}
  ELSE {}

DefaultPose == Pose(<<0, 0, 0>>, Orientation([w |-> 2, x |-> 0, y |-> 0, z |-> 0], TRUE))

readCartesianPose(success, value) ==
  LET poses == tryReadCartesianPose(success, value)
  IN  IF poses = {} THEN {DefaultPose} ELSE poses

(* savePose's numbers for a pose, none for one it refuses.  *)
fromPoseToVector(pose) ==
  IF (\E k \in 1..3 : pose.position[k] = NotFinite) \/ ~pose.orientation.unit
  THEN <<>>
  ELSE LET rotation == Rotation(pose.orientation.quaternion)
           column(c) == IF c = 4 THEN pose.position \o <<1>>
                        ELSE <<rotation[1][c], rotation[2][c], rotation[3][c], 0>>
       IN  column(1) \o column(2) \o column(3) \o column(4)
=============================================================================
