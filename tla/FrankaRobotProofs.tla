------------------------- MODULE FrankaRobotProofs -------------------------
(***************************************************************************)
(* A successful move has reached its pose, for all names, poses and numbers *)
(* of attempts.                                                             *)
(***************************************************************************)
EXTENDS FrankaRobot, TLAPS

(* The values the actions assign, as members of their types.  *)
LEMMA Members ==
  /\ "idle" \in Places /\ "call" \in Places /\ "requestToken" \in Places
  /\ "lookAtToken" \in Places /\ "readPose" \in Places /\ "replaceTarget" \in Places
  /\ "startTask" \in Places /\ "poll" \in Places /\ "status" \in Places
  /\ "stopLate" \in Places /\ "stopAborted" \in Places /\ "readCurrent" \in Places
  /\ "convert" \in Places /\ "replace" \in Places /\ "back" \in Places
  /\ "none" \in Operations /\ "requestControl" \in Operations /\ "move" \in Operations
  /\ "save" \in Operations /\ OneCall \subseteq Operations
  /\ "free" \in TokenStates /\ "asked" \in TokenStates /\ "ours" \in TokenStates
  /\ "theirs" \in TokenStates
  /\ "none" \in TaskStates /\ "starting" \in TaskStates /\ "running" \in TaskStates
BY DEF Places, Operations, TokenStates, TaskStates

LEMMA TypeInit == Init => TypeOK
<1> SUFFICES ASSUME Init PROVE TypeOK
  OBVIOUS
<1>1. attempt \in 0..LastAttempt
  BY LastAttemptAssumption DEF Init
<1>2. token \in TokenStates
  BY Members DEF Init
<1> QED
  BY <1>1, <1>2, Members, TargetAssumption DEF Init, TypeOK

LEMMA TypeStep == ASSUME TypeOK, [Next]_vars PROVE TypeOK'
<1> USE Members, TargetAssumption
        DEF TypeOK, opVars, loopVars, taskVars, serverVars, Goto, Back, CallMethod
<1>1. ASSUME NEW o \in OneCall, BeginCall(o) PROVE TypeOK'
  BY <1>1 DEF BeginCall
<1>2. CASE BeginRequestControl
  BY <1>2 DEF BeginRequestControl
<1>3. ASSUME NEW n \in Names, BeginMove(n) \/ BeginSaveCurrent(n) PROVE TypeOK'
  BY <1>3 DEF BeginMove, BeginSaveCurrent
<1>4. ASSUME NEW n \in Names, NEW pose \in Poses \cup {NoPose}, BeginSaveExplicit(n, pose)
      PROVE  TypeOK'
  BY <1>4 DEF BeginSaveExplicit
<1>5. CASE CallOnce
  BY <1>5 DEF CallOnce, StopTask, TaskStarted, FreeToken
<1>6. CASE RequestToken
  BY <1>6 DEF RequestToken
<1>7. CASE LookAtToken
  <2>1. attempt' \in 0..LastAttempt
    BY <1>7, LastAttemptAssumption DEF LookAtToken
  <2>2. at' \in Places /\ answer' \in BOOLEAN
    BY <1>7 DEF LookAtToken
  <2>3. UNCHANGED <<opVars, task_started, late, abort, serverVars>>
    BY <1>7 DEF LookAtToken
  <2> QED
    BY <2>1, <2>2, <2>3
<1>8. CASE ReadPose
  BY <1>8 DEF ReadPose
<1>9. CASE ReplaceTarget
  BY <1>9 DEF ReplaceTarget
<1>10. CASE StartTask
  BY <1>10 DEF StartTask, TaskStarted
<1>11. CASE PollDeadline \/ PollAbort
  BY <1>11 DEF PollDeadline, PollAbort
<1>12. CASE PollStatus
  <2>1. at' \in Places /\ answer' \in BOOLEAN
    BY <1>12 DEF PollStatus
  <2>2. task_started' \in BOOLEAN
    BY <1>12 DEF PollStatus
  <2>3. UNCHANGED <<opVars, attempt, late, abort, serverVars>>
    BY <1>12 DEF PollStatus
  <2> QED
    BY <2>1, <2>2, <2>3
<1>13. CASE StopMove
  BY <1>13 DEF StopMove, StopTask
<1>14. CASE ReadCurrent
  BY <1>14 DEF ReadCurrent
<1>15. CASE Convert
  BY <1>15 DEF Convert
<1>16. CASE Replace
  BY <1>16 DEF Replace
<1>17. CASE Return
  <2>1. attempt' \in 0..LastAttempt
    BY <1>17, LastAttemptAssumption DEF Return
  <2> QED
    BY <1>17, <2>1 DEF Return
<1>18. CASE TokenChanges \/ TaskRuns
  BY <1>18 DEF TokenChanges, TaskRuns
<1>19. CASE TaskEnds \/ TaskFails
  BY <1>19 DEF TaskEnds, TaskFails
<1>20. CASE DeadlinePasses \/ AbortChanges
  BY <1>20 DEF DeadlinePasses, AbortChanges
<1>21. CASE UNCHANGED vars
  BY <1>21 DEF vars
<1> QED
  BY <1>1, <1>2, <1>3, <1>4, <1>5, <1>6, <1>7, <1>8, <1>9, <1>10, <1>11, <1>12,
     <1>13, <1>14, <1>15, <1>16, <1>17, <1>18, <1>19, <1>20, <1>21
     DEF Next, Begin, Continue, Server

(* Types, and the bound on the looks at the token.  *)
THEOREM TypeCorrect == Spec => []TypeOK
<1>1. Init => TypeOK
  BY TypeInit
<1>2. TypeOK /\ [Next]_vars => TypeOK'
  BY TypeStep
<1> QED BY <1>1, <1>2, PTL DEF Spec

-----------------------------------------------------------------------------
(* Why a successful move has reached its pose: from the moment the target was *)
(* replaced it stays the move's own, so the task drives there; and a task     *)
(* that was seen and is not active any more has either ended or failed, in    *)
(* which case the fault shows.                                                *)

InMove == at \in {"poll", "status", "stopLate", "stopAborted"}

TargetIsOurs == at = "startTask" \/ InMove => poseMap[Target] = value

TaskIsOurs ==
  InMove => /\ task = "running" => destination = value
            /\ completed => position = value
            /\ task_started => task # "starting"
            /\ task_started /\ task = "none" => completed \/ fault

SeenInMove == task_started => InMove \/ at = "back"

OtherOperations ==
  at \in {"call", "requestToken", "lookAtToken", "readCurrent", "convert", "replace"}
    => op # "move"

Arrived == op = "move" /\ at = "back" /\ answer => task = "none" /\ completed /\ position = value

MoveInv == TargetIsOurs /\ TaskIsOurs /\ SeenInMove /\ OtherOperations /\ Arrived

LEMMA MoveInit == Init => MoveInv
BY DEF Init, MoveInv, InMove, TargetIsOurs, TaskIsOurs, SeenInMove, OtherOperations, Arrived

LEMMA MoveStep == ASSUME TypeOK, MoveInv, [Next]_vars PROVE MoveInv'
<1> USE DEF MoveInv, InMove, TargetIsOurs, TaskIsOurs, SeenInMove, OtherOperations, Arrived,
            opVars, loopVars, taskVars, serverVars, Goto, Back, CallMethod
<1>1. ASSUME NEW o \in OneCall, BeginCall(o) PROVE MoveInv'
  BY <1>1 DEF BeginCall, OneCall
<1>2. CASE BeginRequestControl
  BY <1>2 DEF BeginRequestControl
<1>3. ASSUME NEW n \in Names, BeginMove(n) \/ BeginSaveCurrent(n) PROVE MoveInv'
  BY <1>3 DEF BeginMove, BeginSaveCurrent
<1>4. ASSUME NEW n \in Names, NEW pose \in Poses \cup {NoPose}, BeginSaveExplicit(n, pose)
      PROVE  MoveInv'
  BY <1>4 DEF BeginSaveExplicit
<1>5. CASE CallOnce
  BY <1>5 DEF CallOnce, StopTask, TaskStarted, FreeToken
<1>6. CASE RequestToken
  BY <1>6 DEF RequestToken
<1>7. CASE LookAtToken
  BY <1>7 DEF LookAtToken
<1>8. CASE ReadPose
  BY <1>8 DEF ReadPose
<1>9. CASE ReplaceTarget
  BY <1>9, TargetAssumption DEF ReplaceTarget, TypeOK
<1>10. CASE StartTask
  BY <1>10 DEF StartTask, TaskStarted
<1>11. CASE PollDeadline \/ PollAbort
  BY <1>11 DEF PollDeadline, PollAbort
<1>12. CASE PollStatus
  BY <1>12 DEF PollStatus, Active, TypeOK, TaskStates
<1>13. CASE StopMove
  BY <1>13 DEF StopMove, StopTask
<1>14. CASE ReadCurrent
  BY <1>14 DEF ReadCurrent
<1>15. CASE Convert
  BY <1>15 DEF Convert
<1>16. CASE Replace
  BY <1>16 DEF Replace
<1>17. CASE Return
  BY <1>17 DEF Return
<1>18. CASE TokenChanges \/ TaskRuns
  BY <1>18 DEF TokenChanges, TaskRuns
<1>19. CASE TaskEnds \/ TaskFails
  BY <1>19 DEF TaskEnds, TaskFails
<1>20. CASE DeadlinePasses \/ AbortChanges
  BY <1>20 DEF DeadlinePasses, AbortChanges
<1>21. CASE UNCHANGED vars
  BY <1>21 DEF vars
<1> QED
  BY <1>1, <1>2, <1>3, <1>4, <1>5, <1>6, <1>7, <1>8, <1>9, <1>10, <1>11, <1>12,
     <1>13, <1>14, <1>15, <1>16, <1>17, <1>18, <1>19, <1>20, <1>21
     DEF Next, Begin, Continue, Server

(* For every set of names and poses and every number of looks at the token a  *)
(* move that answers true has reached the pose stored under its name.         *)
THEOREM MoveCorrect == Spec => []MoveReachesThePose
<1>1. Init => TypeOK /\ MoveInv
  BY TypeInit, MoveInit
<1>2. TypeOK /\ MoveInv /\ [Next]_vars => (TypeOK /\ MoveInv)'
  BY TypeStep, MoveStep
<1>3. MoveInv => MoveReachesThePose
  BY DEF MoveInv, Arrived, MoveReachesThePose
<1> QED BY <1>1, <1>2, <1>3, PTL DEF Spec

-----------------------------------------------------------------------------
(* The contract: in which of its phases each place of an operation is, and    *)
(* the answer it will return.                                                 *)
Phase(place) ==
  CASE place = "idle" -> "none"
    [] place \in {"stopLate", "stopAborted", "back"} -> "back"
    [] place = "status" -> "read"
    [] place \in {"readPose", "replaceTarget", "startTask", "poll"} -> "poll"
    [] OTHER -> "call"

Answered == IF at \in {"stopLate", "stopAborted"} THEN FALSE ELSE answer

LEMMA PhaseOf ==
  /\ Phase("idle") = "none"
  /\ Phase("stopLate") = "back" /\ Phase("stopAborted") = "back" /\ Phase("back") = "back"
  /\ Phase("status") = "read"
  /\ Phase("readPose") = "poll" /\ Phase("replaceTarget") = "poll"
  /\ Phase("startTask") = "poll" /\ Phase("poll") = "poll"
  /\ Phase("call") = "call" /\ Phase("requestToken") = "call" /\ Phase("lookAtToken") = "call"
  /\ Phase("readCurrent") = "call" /\ Phase("convert") = "call" /\ Phase("replace") = "call"
BY DEF Phase

(* The contract's actions in these terms.  *)
LEMMA ContractActions ==
  LET Comes(from, to) == Phase(at) = from /\ Phase(at') = to
      Same == abort' = abort /\ Answered' = Answered
  IN  /\ Comes("none", "call") /\ Same => Contract!Next
      /\ Comes("none", "poll") /\ Same => Contract!Next
      /\ Comes("call", "back") /\ Answered' \in BOOLEAN /\ abort' = abort => Contract!Next
      /\ Comes("poll", "back") /\ Answered' = FALSE /\ abort' = abort => Contract!Next
      /\ Comes("poll", "read") /\ ~abort /\ Same => Contract!Next
      /\ Comes("read", "back") /\ Answered' \in BOOLEAN /\ abort' = abort => Contract!Next
      /\ Comes("read", "poll") /\ Same => Contract!Next
      /\ Comes("back", "none") /\ Same => Contract!Next
      /\ Phase(at') = Phase(at) /\ Answered' = Answered /\ abort' = ~abort => Contract!Next
      /\ Phase(at') = Phase(at) /\ Same => UNCHANGED Contract!vars
BY DEF Phase, Answered, Contract!Next, Contract!Call, Contract!Move, Contract!Answer, Contract!Ask,
  Contract!Look, Contract!GiveUp, Contract!Return, Contract!Toggle, Contract!Comes, Contract!vars

LEMMA ContractStep == ASSUME TypeOK, TypeOK', [Next]_vars PROVE [Contract!Next]_(Contract!vars)
<1> USE PhaseOf, ContractActions
        DEF Answered, opVars, loopVars, taskVars, serverVars, Goto, Back, CallMethod
<1>1. ASSUME NEW o \in OneCall, BeginCall(o) PROVE Contract!Next
  BY <1>1 DEF BeginCall
<1>2. CASE BeginRequestControl
  BY <1>2 DEF BeginRequestControl
<1>3. ASSUME NEW n \in Names, BeginMove(n) \/ BeginSaveCurrent(n) PROVE Contract!Next
  BY <1>3 DEF BeginMove, BeginSaveCurrent
<1>4. ASSUME NEW n \in Names, NEW pose \in Poses \cup {NoPose}, BeginSaveExplicit(n, pose)
      PROVE  Contract!Next
  BY <1>4 DEF BeginSaveExplicit
<1>5. CASE CallOnce
  BY <1>5 DEF CallOnce
<1>6. CASE RequestToken
  BY <1>6 DEF RequestToken
<1>7. CASE LookAtToken
  BY <1>7 DEF LookAtToken
<1>8. CASE ReadPose
  BY <1>8 DEF ReadPose
<1>9. CASE ReplaceTarget
  BY <1>9 DEF ReplaceTarget
<1>10. CASE StartTask
  BY <1>10 DEF StartTask
<1>11. CASE PollDeadline
  BY <1>11 DEF PollDeadline
<1>12. CASE PollAbort
  BY <1>12 DEF PollAbort
<1>13. CASE PollStatus
  BY <1>13 DEF PollStatus
<1>14. CASE StopMove
  BY <1>14 DEF StopMove
<1>15. CASE ReadCurrent
  BY <1>15 DEF ReadCurrent
<1>16. CASE Convert
  BY <1>16 DEF Convert
<1>17. CASE Replace
  BY <1>17 DEF Replace
<1>18. CASE Return
  BY <1>18 DEF Return
<1>19. CASE Server \/ DeadlinePasses \/ UNCHANGED vars
  BY <1>19 DEF Server, TokenChanges, TaskRuns, TaskEnds, TaskFails, DeadlinePasses, vars
<1>20. CASE AbortChanges
  BY <1>20 DEF AbortChanges
<1> QED
  BY <1>1, <1>2, <1>3, <1>4, <1>5, <1>6, <1>7, <1>8, <1>9, <1>10, <1>11, <1>12,
     <1>13, <1>14, <1>15, <1>16, <1>17, <1>18, <1>19, <1>20
     DEF Next, Begin, Continue

(* Every operation of the robot is a call of the contract the worker relies on:  *)
(* a move asks should_abort before every look, and returns false once it was      *)
(* told yes - the safety half of KeepsContract.                                    *)
THEOREM KeepsContractSafely == Spec => Contract!Safe
<1>1. Init => Contract!Init
  BY DEF Init, Contract!Init
<1>2. TypeOK /\ TypeOK' /\ [Next]_vars => [Contract!Next]_(Contract!vars)
  BY ContractStep
<1> QED
  BY <1>1, <1>2, TypeCorrect, PTL DEF Spec, Contract!Safe
=============================================================================
