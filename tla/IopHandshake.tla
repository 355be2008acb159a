---------------------------- MODULE IopHandshake ----------------------------
(***************************************************************************)
(* What the RTKit handshake promises the guest, whatever carries the       *)
(* messages: the coprocessor says HELLO at most once; only after that does *)
(* the guest learn of endpoints, only of endpoints that exist; the map is  *)
(* declared complete only when every existing endpoint has been offered;   *)
(* and an endpoint is opened only after the complete map offered it.       *)
(***************************************************************************)
EXTENDS Integers

CONSTANT Endpoints    \* the endpoints the coprocessor has

VARIABLES said_hello, \* the guest has been told HELLO
          offered,    \* endpoints the guest has been told of
          complete,   \* the guest has been told the map is complete
          opened      \* endpoints in use

vars == <<said_hello, offered, complete, opened>>

Init == /\ said_hello = FALSE
        /\ offered = {}
        /\ complete = FALSE
        /\ opened = {}

SayHello == /\ ~said_hello
            /\ said_hello' = TRUE
            /\ UNCHANGED <<offered, complete, opened>>

Offer(eps) == /\ said_hello
              /\ offered' = offered \cup eps
              /\ complete' \in {complete, offered' = Endpoints}
              /\ complete => complete'
              /\ UNCHANGED <<said_hello, opened>>

Open(e) == /\ complete
           /\ e \in offered
           /\ opened' = opened \cup {e}
           /\ UNCHANGED <<said_hello, offered, complete>>

Next == \/ SayHello
        \/ \E eps \in SUBSET Endpoints : Offer(eps)
        \/ \E e \in Endpoints : Open(e)

Spec == Init /\ [][Next]_vars
=============================================================================
