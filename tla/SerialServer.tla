--------------------------- MODULE SerialServer ---------------------------
(***************************************************************************)
(* What the JSONL loops promise to the programs on the other side of their *)
(* pipes: a client's requests are taken one at a time, each gets exactly   *)
(* one reply, the reply names the request it belongs to, replies come in   *)
(* the order of the requests, and a request that was taken is answered.    *)
(***************************************************************************)
EXTENDS Naturals, Sequences

CONSTANTS Client, Id
VARIABLES pending,   \* per client: the id being served, a sequence of at most one
          replied    \* per client: the ids of the replies written so far

vars == <<pending, replied>>

Init == pending = [c \in Client |-> <<>>] /\ replied = [c \in Client |-> <<>>]

\* Take the client's next request.
Take(c, i) ==
  /\ pending[c] = <<>>
  /\ pending' = [pending EXCEPT ![c] = <<i>>]
  /\ UNCHANGED replied

\* Write the reply of the request being served.
Answer(c) ==
  /\ pending[c] # <<>>
  /\ replied' = [replied EXCEPT ![c] = Append(@, Head(pending[c]))]
  /\ pending' = [pending EXCEPT ![c] = <<>>]

\* A line the loop refuses without serving it is answered at once.
Refuse(c, i) ==
  /\ pending[c] = <<>>
  /\ replied' = [replied EXCEPT ![c] = Append(@, i)]
  /\ UNCHANGED pending

Next == \E c \in Client : Answer(c) \/ \E i \in Id : Take(c, i) \/ Refuse(c, i)

\* What a server may do, and that it does answer.
Safety == Init /\ [][Next]_vars
Spec == Safety /\ \A c \in Client : WF_vars(Answer(c))
===========================================================================
