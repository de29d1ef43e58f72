------------------------------ MODULE LedBank -------------------------------
(***************************************************************************)
(* What a user of an ILedNotifier relies on: each notifier is a light that *)
(* is on or off.  A call of On(), Off() or Toggle() takes effect once, at  *)
(* one moment between the call and its return, and nothing but the calls   *)
(* of a notifier changes its light.                                        *)
(***************************************************************************)
CONSTANTS Notifiers,
          Initial   \* [Notifiers -> {"on", "off"}]: the state of a light once it is known

VARIABLES light,  \* [Notifiers -> {"unknown", "on", "off"}]: the state reported
          call    \* [Notifiers -> ...]: the call in progress; "done": it took effect

vars == <<light, call>>

Init == /\ light = [n \in Notifiers |-> "unknown"]
        /\ call = [n \in Notifiers |-> "none"]

Initialize(n) == /\ light[n] = "unknown" /\ call[n] = "none"
                 /\ light' = [light EXCEPT ![n] = Initial[n]]
                 /\ UNCHANGED call

Call(n, op) == /\ light[n] # "unknown" /\ call[n] = "none"
               /\ call' = [call EXCEPT ![n] = op]
               /\ UNCHANGED light

Switched(op, state) == CASE op = "toggle" -> IF state = "on" THEN "off" ELSE "on"
                         [] OTHER -> op

TakeEffect(n) == /\ call[n] \in {"on", "off", "toggle"}
                 /\ light' = [light EXCEPT ![n] = Switched(call[n], @)]
                 /\ call' = [call EXCEPT ![n] = "done"]

Return(n) == /\ call[n] = "done"
             /\ call' = [call EXCEPT ![n] = "none"]
             /\ UNCHANGED light

Next == \E n \in Notifiers : \/ Initialize(n)
                             \/ \E op \in {"on", "off", "toggle"} : Call(n, op)
                             \/ TakeEffect(n) \/ Return(n)

Spec == Init /\ [][Next]_vars
=============================================================================
