------------------------------ MODULE Movement ------------------------------
(* A player of the fighter server on the field: the frames move it, and the    *)
(* positions its client claims with MOVE_START and MOVE_STOP are taken over    *)
(* when they are near enough to the server's.                                 *)
EXTENDS Integers

CONSTANTS dfRANGE_MOVE_LEFT, dfRANGE_MOVE_RIGHT, dfRANGE_MOVE_TOP, dfRANGE_MOVE_BOTTOM,
          FP_X, FP_Y,        \* how far a frame moves a player
          dfERROR_RANGE,     \* how far a claim may be off
          Claims             \* the positions clients claim

Claim == [x : Int, y : Int]

ASSUME FieldAssumption ==
  /\ {dfRANGE_MOVE_LEFT, dfRANGE_MOVE_RIGHT, dfRANGE_MOVE_TOP, dfRANGE_MOVE_BOTTOM} \subseteq Int
  /\ FP_X \in Nat /\ FP_Y \in Nat /\ dfERROR_RANGE \in Nat /\ Claims \subseteq Claim

VARIABLES xPos, yPos,
          action,            \* where the player walks, "STOP", or a number that is none
          direction,         \* where it looks
          connected,
          honest             \* every claim taken over so far was on the field

moveVars == <<xPos, yPos, action, direction, connected, honest>>

Walks == {"LL", "LU", "UU", "RU", "RR", "RD", "DD", "LD"}
Actions == Walks \cup {"STOP", "OTHER"}

\* acceptProc: half a width and half a height, which is a place on the field.
MoveInit == /\ xPos = (dfRANGE_MOVE_RIGHT - dfRANGE_MOVE_LEFT) \div 2
            /\ yPos = (dfRANGE_MOVE_BOTTOM - dfRANGE_MOVE_TOP) \div 2
            /\ action = "STOP" /\ direction = "RR" /\ connected = TRUE /\ honest = TRUE

Larger(a, b) == IF a > b THEN a ELSE b
Smaller(a, b) == IF a < b THEN a ELSE b

moveLeft(x) == Larger(x - FP_X, dfRANGE_MOVE_LEFT)
moveRight(x) == Smaller(x + FP_X, dfRANGE_MOVE_RIGHT)
moveUp(y) == Larger(y - FP_Y, dfRANGE_MOVE_TOP)
moveDown(y) == Smaller(y + FP_Y, dfRANGE_MOVE_BOTTOM)

ToX(a, x) == IF a \in {"LL", "LU", "LD"} THEN moveLeft(x)
             ELSE IF a \in {"RR", "RU", "RD"} THEN moveRight(x) ELSE x
ToY(a, y) == IF a \in {"UU", "LU", "RU"} THEN moveUp(y)
             ELSE IF a \in {"DD", "LD", "RD"} THEN moveDown(y) ELSE y

\* A diagonal step that would end on a bound is not made at all.
Blocked(a, x, y) ==
  \/ a \in {"LU", "LD"} /\ ToX(a, x) = dfRANGE_MOVE_LEFT
  \/ a \in {"RU", "RD"} /\ ToX(a, x) = dfRANGE_MOVE_RIGHT
  \/ a \in {"LU", "RU"} /\ ToY(a, y) = dfRANGE_MOVE_TOP
  \/ a \in {"LD", "RD"} /\ ToY(a, y) = dfRANGE_MOVE_BOTTOM

\* One frame of update for a player that lives.
frame == /\ connected
         /\ ~Blocked(action, xPos, yPos)
         /\ xPos' = ToX(action, xPos) /\ yPos' = ToY(action, yPos)
         /\ UNCHANGED <<action, direction, connected, honest>>

Distant(c) == \/ xPos - c.x > dfERROR_RANGE \/ c.x - xPos > dfERROR_RANGE
              \/ yPos - c.y > dfERROR_RANGE \/ c.y - yPos > dfERROR_RANGE

OnField(x, y) == /\ dfRANGE_MOVE_LEFT <= x /\ x <= dfRANGE_MOVE_RIGHT
                 /\ dfRANGE_MOVE_TOP <= y /\ y <= dfRANGE_MOVE_BOTTOM

\* The claim is taken over as it is, on the field or not.
TakenOver(c) == /\ connected /\ ~Distant(c)
                /\ xPos' = c.x /\ yPos' = c.y
                /\ honest' = (honest /\ OnField(c.x, c.y))
                /\ UNCHANGED connected

packetProc_MOVE_START(a, c) ==
  /\ TakenOver(c)
  /\ action' = a
  /\ direction' = CASE a \in {"LL", "LU", "LD"} -> "LL"
                    [] a \in {"RR", "RU", "RD"} -> "RR"
                    [] OTHER -> direction

packetProc_MOVE_STOP(d, c) == TakenOver(c) /\ action' = "STOP" /\ direction' = d

\* Too far off: the player is disconnected.
packetProc_refused(c) == /\ connected /\ Distant(c) /\ connected' = FALSE
                         /\ UNCHANGED <<xPos, yPos, action, direction, honest>>

MoveNext == \/ frame
            \/ \E c \in Claims : \/ \E a \in Actions \ {"STOP"} : packetProc_MOVE_START(a, c)
                                 \/ \E d \in {"LL", "RR"} : packetProc_MOVE_STOP(d, c)
                                 \/ packetProc_refused(c)

MoveSpec == MoveInit /\ [][MoveNext]_moveVars
-----------------------------------------------------------------------------
\* The middle that acceptProc computes is on the field.
StartsOnField == OnField((dfRANGE_MOVE_RIGHT - dfRANGE_MOVE_LEFT) \div 2,
                         (dfRANGE_MOVE_BOTTOM - dfRANGE_MOVE_TOP) \div 2)

(* Contents.h's range of movement is kept by the server's own frames, in all   *)
(* eight directions: a player leaves it only if its client claims to be off    *)
(* it.                                                                        *)
FieldIsKept == honest => OnField(xPos, yPos)

(* No step jumps: while the claims were on the field, a frame moves a player   *)
(* by at most FP_X and FP_Y and a packet by at most dfERROR_RANGE, so that     *)
(* the server's position stays within reach of its client's.                  *)
NoJumps ==
  honest => /\ Larger(xPos' - xPos, xPos - xPos') <= Larger(FP_X, dfERROR_RANGE)
            /\ Larger(yPos' - yPos, yPos - yPos') <= Larger(FP_Y, dfERROR_RANGE)
=============================================================================
