----------------------------- MODULE SpendOnce -----------------------------
(***************************************************************************)
(* What the send flows promise, seen from the network.  No lock, row,      *)
(* proposal store, outbox, process or flow appears here: there are only    *)
(* payments, the notes each of them spends, the height after which it can  *)
(* no longer be mined, and the set of payments a node may know.            *)
(*                                                                         *)
(* A payment can be changed as long as no node can know it.  It may become *)
(* known only when no other known payment that can still be mined spends   *)
(* one of its notes.  From then on it is what it is; a definite rejection  *)
(* is the only way back.                                                   *)
(***************************************************************************)
EXTENDS Integers

CONSTANTS
    Payment,   \* what the user asked to send
    Note       \* the wallet's notes

VARIABLES
    height,    \* height of the chain
    inputs,    \* notes a payment spends
    deadline,  \* its expiry height
    known      \* payments the network may know

vars == <<height, inputs, deadline, known>>

Init ==
    /\ height = 1 /\ known = {}
    /\ inputs = [p \in Payment |-> {}]
    /\ deadline = [p \in Payment |-> 0]

Live(p) == height + 1 < deadline[p]

\* No known payment that can still be mined competes with p.
Unrivalled(p) ==
    \A q \in known \ {p} : Live(p) /\ Live(q) => inputs[p] \cap inputs[q] = {}

\* The payment is composed, or composed anew.
Compose(p) ==
    /\ p \notin known
    /\ inputs'[p] \subseteq Note /\ inputs' = [inputs EXCEPT ![p] = inputs'[p]]
    /\ deadline'[p] \in Nat /\ deadline' = [deadline EXCEPT ![p] = deadline'[p]]
    /\ UNCHANGED <<height, known>>

\* It reaches a node, or may have.
Send(p) ==
    /\ p \notin known /\ Unrivalled(p)
    /\ known' = known \cup {p}
    /\ UNCHANGED <<height, inputs, deadline>>

\* A node says that it does not take it.
Reject(p) ==
    /\ p \in known
    /\ known' = known \ {p}
    /\ UNCHANGED <<height, inputs, deadline>>

NewBlock ==
    /\ height' = height + 1
    /\ UNCHANGED <<inputs, deadline, known>>

Next == NewBlock \/ \E p \in Payment : Compose(p) \/ Send(p) \/ Reject(p)

Spec == Init /\ [][Next]_vars
============================================================================
