----------------------------- MODULE ItemQueue ------------------------------
(***************************************************************************)
(* What a user of RTOSQueue relies on: a bounded first-in first-out queue  *)
(* of items.  An item whose Send succeeds is delivered to exactly one      *)
(* Receive, in the order the queue accepted them; a Send fails only when   *)
(* the queue is full or does not exist, a Receive only when it is empty or *)
(* does not exist; and the queue, once open, keeps what it has accepted    *)
(* until it is destroyed.                                                  *)
(***************************************************************************)
EXTENDS Integers, Sequences

CONSTANTS Threads, Items, None, MAX_ITEMS

VARIABLES open,      \* the queue exists
          contents,  \* the accepted items, oldest first
          offered,   \* [Threads -> Items or None]: the item of a Send in progress
          owned      \* [Threads -> Items or None]: the item a thread owns

vars == <<open, contents, offered, owned>>

Init == /\ ~open
        /\ contents = <<>>
        /\ offered = [p \in Threads |-> None]
        /\ owned = [p \in Threads |-> None]

Open == /\ ~open
        /\ open' = TRUE
        /\ UNCHANGED <<contents, offered, owned>>

\* Items come from elsewhere, and a thread may let go of one.
Own(p) == /\ \E x \in Items \cup {None} : owned' = [owned EXCEPT ![p] = x]
          /\ UNCHANGED <<open, contents, offered>>

Offer(p) == /\ owned[p] # None
            /\ offered' = [offered EXCEPT ![p] = owned[p]]
            /\ UNCHANGED <<open, contents, owned>>

Accept(p) == /\ offered[p] # None
             /\ open /\ Len(contents) < MAX_ITEMS
             /\ contents' = Append(contents, offered[p])
             /\ offered' = [offered EXCEPT ![p] = None]
             /\ UNCHANGED <<open, owned>>

Refuse(p) == /\ offered[p] # None
             /\ ~open \/ Len(contents) = MAX_ITEMS
             /\ offered' = [offered EXCEPT ![p] = None]
             /\ UNCHANGED <<open, contents, owned>>

Deliver(p) == /\ contents # <<>> /\ owned[p] = None
              /\ owned' = [owned EXCEPT ![p] = Head(contents)]
              /\ contents' = Tail(contents)
              /\ UNCHANGED <<open, offered>>

Destroy == /\ open' = FALSE
           /\ contents' = <<>>
           /\ UNCHANGED <<offered, owned>>

Next == \/ Open
        \/ Destroy
        \/ \E p \in Threads : \/ Own(p) \/ Offer(p) \/ Accept(p)
                              \/ Refuse(p) \/ Deliver(p)

Spec == Init /\ [][Next]_vars
=============================================================================
