----------------------------- MODULE PathFinder -----------------------------
(* The path finder: a grid on which the user places obstacles, a start and a   *)
(* goal, and a best-first search from one to the other.                        *)
EXTENDS Integers, Sequences

CONSTANTS GRID_WIDTH, GRID_HEIGHT,
          NoNode,      \* a pointer that is NULL
          MaxEvents    \* bound: window messages

\* The squares FindPath looks at, one column and one row more than the grid.
Square == [x : 0..GRID_WIDTH, y : 0..GRID_HEIGHT]

ASSUME PathAssumption == /\ GRID_WIDTH \in Nat \ {0} /\ GRID_HEIGHT \in Nat \ {0}
                         /\ NoNode \notin Square

InGrid(p) == p.x < GRID_WIDTH /\ p.y < GRID_HEIGHT

\* Where tile[p.y][p.x] is: rows follow each other, and what follows the last
\* row is other memory.
Address(p) == p.y * GRID_WIDTH + p.x
Memory == 0..(GRID_HEIGHT * GRID_WIDTH + GRID_WIDTH)
TileMemory == 0..(GRID_HEIGHT * GRID_WIDTH - 1)

VARIABLES
  tile,                 \* tile, and the memory after it that FindPath reads
  beginNode, endNode,   \* their squares, or NoNode
  beginExist, endExist, \* beginExist, endExist; when FALSE a node is freed memory
  isLDrag, isErase,
  phase,                \* "idle", "search", "paint" (the path), "broken"
  open, close,          \* OpenList and CloseList: the squares in them
  g, parent,            \* of the nodes; g in tenths
  node,                 \* the node FindPath works on
  path,                 \* the nodes painted as the path, the last one first
  events

pathVars == <<tile, beginNode, endNode, beginExist, endExist, isLDrag, isErase,
              phase, open, close, g, parent, node, path, events>>

userVars == <<beginNode, endNode, beginExist, endExist, isLDrag, isErase, events>>
searchVars == <<open, close, g, parent, node, path>>

\* A grid as the user has left it: obstacles, a start and a goal.
PathInit(obstacles, b, e, budget) ==
  /\ tile = [a \in Memory |-> IF a \in obstacles THEN "OBSTACLE" ELSE
               IF b # NoNode /\ a = Address(b) THEN "BEGIN" ELSE
               IF e # NoNode /\ a = Address(e) THEN "END" ELSE "BLANK"]
  /\ beginNode = b /\ endNode = e
  /\ beginExist = (b # NoNode) /\ endExist = (e # NoNode)
  /\ isLDrag = FALSE /\ isErase = FALSE
  /\ phase = "idle" /\ open = {} /\ close = {}
  /\ g = [p \in Square |-> 0] /\ parent = [p \in Square |-> NoNode]
  /\ node = NoNode /\ path = <<>>
  /\ events = MaxEvents - budget

Event == phase = "idle" /\ events < MaxEvents /\ events' = events + 1

\* The marks of the last search.
Cleared(t) == [a \in Memory |->
  IF a \in TileMemory /\ t[a] \notin {"BEGIN", "END", "OBSTACLE"} THEN "BLANK" ELSE t[a]]
-----------------------------------------------------------------------------
\* WM_LBUTTONDBLCLK: the start is made, moved or, where it is, deleted.  Off the
\* grid only the node is set.
placeBegin(p) ==
  /\ Event
  /\ IF ~InGrid(p)
     THEN UNCHANGED tile /\ beginNode' = p /\ beginExist' = TRUE
     ELSE IF ~beginExist
     THEN tile' = [tile EXCEPT ![Address(p)] = "BEGIN"] /\ beginNode' = p /\ beginExist' = TRUE
     ELSE LET without == [tile EXCEPT ![Address(beginNode)] = "BLANK"] IN
          IF p = beginNode
          THEN tile' = without /\ beginExist' = FALSE /\ UNCHANGED beginNode
          ELSE /\ tile' = [Cleared(without) EXCEPT ![Address(p)] = "BEGIN"]
               /\ beginNode' = p /\ UNCHANGED beginExist
  /\ UNCHANGED <<endNode, endExist, isLDrag, isErase, phase, searchVars>>

\* WM_RBUTTONDBLCLK: the same of the goal.
placeEnd(p) ==
  /\ Event
  /\ IF ~InGrid(p)
     THEN UNCHANGED tile /\ endNode' = p /\ endExist' = TRUE
     ELSE IF ~endExist
     THEN tile' = [tile EXCEPT ![Address(p)] = "END"] /\ endNode' = p /\ endExist' = TRUE
     ELSE LET without == [tile EXCEPT ![Address(endNode)] = "BLANK"] IN
          IF p = endNode
          THEN tile' = without /\ endExist' = FALSE /\ UNCHANGED endNode
          ELSE /\ tile' = [Cleared(without) EXCEPT ![Address(p)] = "END"]
               /\ endNode' = p /\ UNCHANGED endExist
  /\ UNCHANGED <<beginNode, beginExist, isLDrag, isErase, phase, searchVars>>

\* WM_LBUTTONDOWN: a drag draws obstacles, or erases if it starts on one.
startDrag(p) == /\ Event /\ isLDrag' = TRUE
                /\ isErase' = IF InGrid(p) THEN tile[Address(p)] = "OBSTACLE" ELSE isErase
                /\ UNCHANGED <<tile, beginNode, endNode, beginExist, endExist, phase, searchVars>>

\* WM_LBUTTONUP
endDrag == /\ Event /\ isLDrag' = FALSE
           /\ UNCHANGED <<tile, beginNode, endNode, beginExist, endExist, isErase, phase, searchVars>>

\* WM_MOUSEMOVE: start and goal are painted over like any other square.
drag(p) == /\ Event /\ isLDrag /\ InGrid(p)
           /\ tile' = [tile EXCEPT ![Address(p)] = IF isErase THEN "BLANK" ELSE "OBSTACLE"]
           /\ UNCHANGED <<beginNode, endNode, beginExist, endExist, isLDrag, isErase,
                          phase, searchVars>>

BeginIsFreed == beginNode # NoNode /\ ~beginExist
EndIsFreed == endNode # NoNode /\ ~endExist

\* VK_DELETE: both nodes are freed, their pointers kept; to free one again breaks.
deleteAll ==
  /\ Event
  /\ tile' = [a \in Memory |-> IF a \in TileMemory THEN "BLANK" ELSE tile[a]]
  /\ beginExist' = FALSE /\ endExist' = FALSE
  /\ phase' = IF BeginIsFreed \/ EndIsFreed THEN "broken" ELSE phase
  /\ UNCHANGED <<beginNode, endNode, isLDrag, isErase, searchVars>>

\* VK_RETURN, and FindPath up to its loop.  A freed node may still read as it was.
findPath ==
  /\ Event
  /\ tile' = Cleared(tile)
  /\ IF NoNode \in {beginNode, endNode}
     THEN UNCHANGED <<phase, searchVars>>
     ELSE /\ \/ phase' = "search"
             \/ (BeginIsFreed \/ EndIsFreed) /\ phase' = "broken"
          /\ open' = {beginNode} /\ close' = {} /\ path' = <<>>
          /\ g' = [p \in Square |-> 0] /\ parent' = [p \in Square |-> NoNode]
          /\ node' = NoNode
  /\ UNCHANGED <<beginNode, endNode, beginExist, endExist, isLDrag, isErase>>
-----------------------------------------------------------------------------
Distance(a, b) == IF a > b THEN a - b ELSE b - a
f(p) == g[p] + 10 * (Distance(p.x, endNode.x) + Distance(p.y, endNode.y))

Increase == <<[x |-> 1, y |-> 0], [x |-> 1, y |-> -1], [x |-> 0, y |-> -1], [x |-> -1, y |-> -1],
              [x |-> -1, y |-> 0], [x |-> -1, y |-> 1], [x |-> 0, y |-> 1], [x |-> 1, y |-> 1]>>

Towards(p, i) == [x |-> p.x + Increase[i].x, y |-> p.y + Increase[i].y]

\* Mutant: the first row is taken to be beyond the map.
LeadsBelowFirst(p, i) == Towards(p, i) \in [x : 0..GRID_WIDTH, y : 1..GRID_HEIGHT]

\* The i-th direction passes the test for the map's edge.
Leads(p, i) == Towards(p, i) \in Square

Passable(p) == tile[Address(p)] # "OBSTACLE"

Cost(p, q) == IF p.x = q.x \/ p.y = q.y THEN 10 ELSE 14

Mark(squares, colour) == LET at == {Address(p) : p \in squares} IN
  tile' = [a \in Memory |-> IF a \in at THEN colour ELSE tile[a]]

\* A round of the search: the node's free neighbours are put in OpenList, or made
\* cheaper there, in the order of the directions up to the goal, which ends it.
expand ==
  /\ phase = "search" /\ node # NoNode
  /\ LET free == {i \in 1..8 : Leads(node, i) /\ Passable(Towards(node, i))}
         goal == {i \in free : Towards(node, i) = endNode}
         next == {Towards(node, i) : i \in {j \in free : \A k \in goal : j < k}}
         new == next \ (open \cup close)
         better == {q \in next \cap open : g[q] > g[node] + Cost(node, q)} IN
     /\ open' = open \cup new
     /\ g' = [q \in Square |-> IF q \in new \cup better THEN g[node] + Cost(node, q) ELSE g[q]]
     /\ parent' = [q \in Square |-> IF q \in new \cup better THEN node ELSE parent[q]]
     /\ Mark(new, "OPEN")
     /\ \/ phase' = (IF goal # {} THEN "paint" ELSE "search")
        \/ \* beyond its arrays anything may be overwritten
           (\E q \in new : Address(q) \notin TileMemory) /\ phase' = "broken"
     /\ node' = IF goal # {} THEN node ELSE NoNode
  /\ UNCHANGED <<close, path, userVars>>

\* The node with the least f is taken, any of them when several have it.
take(p) ==
  /\ phase = "search" /\ node = NoNode /\ p \in open
  /\ \A q \in open : f(p) <= f(q)
  /\ open' = open \ {p} /\ close' = close \cup {p} /\ node' = p
  /\ IF p = beginNode THEN UNCHANGED tile ELSE Mark({p}, "CLOSE")
  /\ UNCHANGED <<g, parent, path, phase, userVars>>

\* The path, back along the parents.
paint == /\ phase = "paint" /\ node # beginNode
         /\ Mark({node}, "PATH")
         /\ path' = Append(path, node) /\ node' = parent[node]
         /\ UNCHANGED <<open, close, g, parent, phase, userVars>>

painted == /\ phase = "paint" /\ node = beginNode /\ phase' = "idle"
           /\ UNCHANGED <<tile, searchVars, userVars>>

noPath == /\ phase = "search" /\ node = NoNode /\ open = {}
          /\ phase' = "idle"
          /\ UNCHANGED <<tile, open, close, g, parent, node, path, userVars>>

PathNext == \/ \E p \in Square : placeBegin(p) \/ placeEnd(p) \/ startDrag(p) \/ drag(p)
            \/ endDrag \/ deleteAll \/ findPath
            \/ \E p \in open : take(p)
            \/ expand \/ paint \/ painted \/ noPath
-----------------------------------------------------------------------------
Near(p, q) == Distance(p.x, q.x) <= 1 /\ Distance(p.y, q.y) <= 1

\* A set with the start in it that no step to a free one of some squares leaves.
ClosedIn(S, squares) ==
  /\ beginNode \in S
  /\ \A p \in S : \A q \in squares : Passable(q) /\ Near(p, q) => q \in S

\* What can be reached from the start over the free ones of some squares: what is
\* in every set that cannot be left.
Reachable(squares) ==
  {q \in Square : \A S \in SUBSET Square : ClosedIn(S, squares) => q \in S}

(* The search finds a way if there is one on the grid, and what it then paints *)
(* is a way: from the start to the goal in single steps over free squares.     *)
(* (It may lead over the column and the row beyond the grid, which the search  *)
(* takes for squares.)                                                         *)
FindsAPath ==
  /\ (phase = "search" /\ node = NoNode /\ open = {}) =>
        endNode \notin Reachable({p \in Square : InGrid(p)}) \ {beginNode}
  /\ (phase = "paint" /\ node = beginNode) =>
        LET way == <<endNode>> \o path \o <<beginNode>> IN
        /\ \A i \in 1..Len(way) - 1 :
             /\ Passable(way[i])
             /\ \E k \in 1..8 : Leads(way[i + 1], k) /\ way[i] = Towards(way[i + 1], k)
        /\ endNode \in Reachable(Square)
=============================================================================
