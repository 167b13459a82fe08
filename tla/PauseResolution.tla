-------------------------- MODULE PauseResolution --------------------------
(***************************************************************************)
(* What a WaitForEvent or InvokeFunction opcode promises its run (spec.md  *)
(* 4.4, 4.5 and the scenarios of section 9): the step resolves exactly    *)
(* once, with the data of an event that satisfies the wait (for an invoke, *)
(* the finish of the invoked run) or, once the pause has expired, with    *)
(* nil; and it does resolve.                                               *)
(***************************************************************************)
CONSTANTS Kinds, Events, Matching, None

VARIABLES kind, expired, result

vars == <<kind, expired, result>>

(* The events that may resolve a step of kind k.                           *)
Accepting(k) == IF k = "wait" THEN Matching ELSE Events

Init == kind \in Kinds /\ expired = FALSE /\ result = None

Expire == ~expired /\ expired' = TRUE /\ UNCHANGED <<kind, result>>

Resolve(v) ==
    /\ result = None
    /\ v \in Accepting(kind) \/ (v = "nil" /\ expired)
    /\ result' = v
    /\ UNCHANGED <<kind, expired>>

Next == Expire \/ \E v \in Events \cup {"nil"} : Resolve(v)

Spec == Init /\ [][Next]_vars
             /\ WF_vars(Expire) /\ WF_vars(\E v \in Events \cup {"nil"} : Resolve(v))
=============================================================================
