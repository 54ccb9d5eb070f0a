--------------------------- MODULE MessageChannel ---------------------------
(***************************************************************************)
(* What the server's connection to a client promises the parts of the      *)
(* server that write messages: while it is open the client gets every      *)
(* message once, in the order of writing; when it breaks, the client gets  *)
(* a first part of what was under way and nothing written later.           *)
(***************************************************************************)
EXTENDS Integers, Sequences

CONSTANT Messages  \* the messages the server writes

VARIABLES queue,  \* written, and not yet read by the client
          open    \* the connection is up

vars == <<queue, open>>

Init == queue = <<>> /\ open = TRUE

Put(m) == /\ open
          /\ queue' = Append(queue, m)
          /\ UNCHANGED open

Take == /\ queue # <<>>
        /\ queue' = Tail(queue)
        /\ UNCHANGED open

(* The tail is lost when the connection breaks, or later.                  *)
Lose == /\ ~open'
        /\ \E n \in 0..Len(queue) : queue' = SubSeq(queue, 1, n)

Next == (\E m \in Messages : Put(m)) \/ Take \/ Lose

Spec == Init /\ [][Next]_vars
=============================================================================
