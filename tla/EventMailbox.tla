---------------------------- MODULE EventMailbox ----------------------------
(***************************************************************************)
(* What a user of RTOSTask relies on: every task owns a mailbox of event   *)
(* bits.  A sender posts a bit; posting a bit that is already there is     *)
(* absorbed.  The task takes everything that was posted in one round and   *)
(* then serves each bit that has a handler exactly once, lowest bit first. *)
(* Nothing is served that was not posted, and nothing that was posted for  *)
(* a handler is dropped as long as the task exists.                        *)
(***************************************************************************)
EXTENDS Integers

CONSTANTS Tasks,     \* the tasks that own a mailbox
          EventBits  \* the event bits a sender can post

VARIABLES open,      \* [Tasks -> BOOLEAN]: the task has not been destroyed
          handlers,  \* [Tasks -> SUBSET EventBits]: the bits with a handler
          posted,    \* [Tasks -> SUBSET EventBits]: posted and not yet taken
          due,       \* [Tasks -> SUBSET EventBits]: taken, handler not yet run
          turn       \* [Tasks -> Nat]: in this round, every bit below it had its turn

vars == <<open, handlers, posted, due, turn>>

Init == /\ open = [t \in Tasks |-> TRUE]
        /\ handlers \in [Tasks -> SUBSET EventBits]
        /\ posted = [t \in Tasks |-> {}]
        /\ due = [t \in Tasks |-> {}]
        /\ turn = [t \in Tasks |-> 0]

\* Handlers are set while no event can be in the mailbox.
SetHandlers(t) == /\ posted[t] = {} /\ due[t] = {}
                  /\ \E H \in SUBSET EventBits :
                        handlers' = [handlers EXCEPT ![t] = H]
                  /\ UNCHANGED <<open, posted, due, turn>>

Post(t, b) == /\ open[t]
              /\ posted' = [posted EXCEPT ![t] = @ \cup {b}]
              /\ UNCHANGED <<open, handlers, due, turn>>

\* One round: all that was posted becomes due, except bits nobody handles.
Take(t) == /\ posted[t] # {} /\ due[t] = {}
           /\ posted' = [posted EXCEPT ![t] = {}]
           /\ due' = [due EXCEPT ![t] = posted[t] \cap handlers[t]]
           /\ turn' = [turn EXCEPT ![t] = 0]
           /\ UNCHANGED <<open, handlers>>

Serve(t, b) == /\ b \in due[t]
               /\ \A d \in due[t] : b <= d
               /\ due' = [due EXCEPT ![t] = @ \ {b}]
               /\ turn' = [turn EXCEPT ![t] = b + 1]
               /\ UNCHANGED <<open, handlers, posted>>

Close(t) == /\ open[t]
            /\ open' = [open EXCEPT ![t] = FALSE]
            /\ posted' = [posted EXCEPT ![t] = {}]
            /\ due' = [due EXCEPT ![t] = {}]
            /\ UNCHANGED <<handlers, turn>>

Next == \E t \in Tasks :
           \/ SetHandlers(t)
           \/ Take(t)
           \/ Close(t)
           \/ \E b \in EventBits : Post(t, b) \/ Serve(t, b)

Spec == Init /\ [][Next]_vars
=============================================================================
