------------------------------- MODULE MyList -------------------------------
(* myList: a doubly linked list between two sentinels, with a count.  The      *)
(* operations that walk the list, remove and clear, go node by node.           *)
EXTENDS Integers, Sequences, FiniteSets, SequencesExt

CONSTANTS Node,          \* the addresses new can return
          Data,          \* the values kept
          _head, _tail,   \* the sentinels _head and _tail
          MaxListCalls   \* bound: calls made

ASSUME ListAssumption == _head \notin Node /\ _tail \notin Node \cup {_head}

VARIABLES
  _next, _prev, _data,   \* the fields of the nodes
  _size,
  allocated,             \* the nodes that new returned and delete has not taken
  walk,                  \* the loop being run: "none", "remove" or "clear"
  cursor,                \* its iter or temp
  wanted,                \* the value remove looks for
  calls,
  order                  \* the nodes the list ought to hold, in order

listVars == <<_next, _prev, _data, _size, allocated, walk, cursor, wanted, calls, order>>

ListInit == /\ _next = [n \in Node \cup {_head} |-> _tail]
            /\ _prev = [n \in Node \cup {_tail} |-> _head]
            /\ _data = [n \in Node |-> CHOOSE d \in Data : TRUE]
            /\ _size = 0 /\ allocated = {}
            /\ walk = "none" /\ cursor = _tail /\ wanted = (CHOOSE d \in Data : TRUE)
            /\ calls = 0 /\ order = <<>>

Called == walk = "none" /\ calls < MaxListCalls /\ calls' = calls + 1

\* A new node n between its neighbours, whose links are set in this order.
LinkBetween(n, before, after) ==
  /\ _next' = [_next EXCEPT ![n] = after, ![before] = n]
  /\ _prev' = [_prev EXCEPT ![n] = before, ![after] = n]
  /\ allocated' = allocated \cup {n}
  /\ _size' = _size + 1

push_front(n, d) == /\ Called /\ n \notin allocated
                    /\ LinkBetween(n, _head, _next[_head])
                    /\ _data' = [_data EXCEPT ![n] = d]
                    /\ order' = <<n>> \o order
                    /\ UNCHANGED <<walk, cursor, wanted>>

push_back(n, d) == /\ Called /\ n \notin allocated
                   /\ LinkBetween(n, _prev[_tail], _tail)
                   /\ _data' = [_data EXCEPT ![n] = d]
                   /\ order' = Append(order, n)
                   /\ UNCHANGED <<walk, cursor, wanted>>

empty == _size = 0

\* Mutant: the node after n still points back at it.
UnlinkForward(n) ==
  /\ _next' = [_next EXCEPT ![_prev[n]] = _next[n]]
  /\ allocated' = allocated \ {n}
  /\ _size' = _size - 1
  /\ UNCHANGED _prev

\* A node taken out and deleted.
Unlink(n) ==
  /\ _next' = [_next EXCEPT ![_prev[n]] = _next[n]]
  /\ _prev' = [_prev EXCEPT ![_next[n]] = _prev[n]]
  /\ allocated' = allocated \ {n}
  /\ _size' = _size - 1

pop_front == /\ Called /\ ~empty
             /\ Unlink(_next[_head])
             /\ order' = Tail(order)
             /\ UNCHANGED <<_data, walk, cursor, wanted>>

pop_back == /\ Called /\ ~empty
            /\ Unlink(_prev[_tail])
            /\ order' = Front(order)
            /\ UNCHANGED <<_data, walk, cursor, wanted>>

\* erase at an iterator that stands on a node of the list.
erase(n) == /\ Called /\ n \in allocated
            /\ Unlink(n)
            /\ order' = RemoveAt(order, CHOOSE i \in DOMAIN order : order[i] = n)
            /\ UNCHANGED <<_data, walk, cursor, wanted>>

clear == /\ Called
         /\ cursor' = _next[_head]
         /\ _next' = [_next EXCEPT ![_head] = _tail]
         /\ _prev' = [_prev EXCEPT ![_tail] = _head]
         /\ walk' = "clear" /\ order' = <<>>
         /\ UNCHANGED <<_data, _size, allocated, wanted>>

clearStep == /\ walk = "clear" /\ cursor # _tail
             /\ cursor' = _next[cursor]
             /\ allocated' = allocated \ {cursor}
             /\ _size' = _size - 1
             /\ UNCHANGED <<_next, _prev, _data, walk, wanted, calls, order>>

\* What the list ought to keep of a node, after what it kept of those before.
Keep(d) == [n \in Node |-> [kept \in Seq(Node) |->
             IF _data[n] = d THEN kept ELSE Append(kept, n)]]

remove(d) == /\ Called /\ _size > 0
             /\ walk' = "remove" /\ cursor' = _next[_head] /\ wanted' = d
             /\ order' = FoldLeft(LAMBDA kept, n : Keep(d)[n][kept], <<>>, order)
             /\ UNCHANGED <<_next, _prev, _data, _size, allocated>>

\* iter = erase(iter), whose result is the node after, or iter++.
removeStep ==
  /\ walk = "remove" /\ cursor # _tail
  /\ IF _data[cursor] = wanted
     THEN Unlink(cursor) ELSE UNCHANGED <<_next, _prev, allocated, _size>>
  /\ cursor' = _next[cursor]
  /\ UNCHANGED <<_data, walk, wanted, calls, order>>

walkDone == /\ walk # "none" /\ cursor = _tail /\ walk' = "none"
            /\ UNCHANGED <<_next, _prev, _data, _size, allocated, cursor, wanted,
                           calls, order>>

ListNext == \/ \E n \in Node, d \in Data : push_front(n, d) \/ push_back(n, d)
            \/ pop_front \/ pop_back \/ clear \/ clearStep
            \/ \E n \in Node : erase(n)
            \/ \E d \in Data : remove(d)
            \/ removeStep \/ walkDone
-----------------------------------------------------------------------------
(* Between calls the list is the sequence its calls describe: read forwards    *)
(* from _head and backwards from _tail it is the same nodes, _size counts      *)
(* them, and every other node has been deleted, remove having taken every      *)
(* node with its value and no other.                                          *)
ListIsASequence ==
  walk = "none" =>
    LET chain == <<_head>> \o order \o <<_tail>> IN
    /\ \A i \in 1..Len(chain) - 1 : /\ _next[chain[i]] = chain[i + 1]
                                    /\ _prev[chain[i + 1]] = chain[i]
    /\ _size = Len(order)
    /\ allocated = ToSet(order) /\ Cardinality(allocated) = _size
=============================================================================
