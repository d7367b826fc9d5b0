-------------------------------- MODULE LossyMap --------------------------------
(* What a cache promises its clients: a map that may forget any key at any *)
(* time, in which a put takes effect once, at some moment between its call *)
(* and its return, and nothing else ever gives a key a value.              *)
CONSTANTS
  Clients, Keys, Values,
  NoPut   \* a client that is not putting

VARIABLES
  map,      \* a partial function from keys to values
  putting   \* per client the key and value of its put, until it takes effect

vars == <<map, putting>>

Begin(c, k, v) ==
  /\ putting[c] = NoPut
  /\ putting' = [putting EXCEPT ![c] = <<k, v>>]
  /\ UNCHANGED map

TakeEffect(c) ==
  /\ putting[c] # NoPut
  /\ map' = [k \in DOMAIN map \cup {putting[c][1]} |->
               IF k = putting[c][1] THEN putting[c][2] ELSE map[k]]
  /\ putting' = [putting EXCEPT ![c] = NoPut]

Forget(S) ==
  /\ map' = [k \in DOMAIN map \ S |-> map[k]]
  /\ UNCHANGED putting

Init ==
  /\ map = [k \in {} |-> k]
  /\ putting = [c \in Clients |-> NoPut]

Next ==
  \/ \E c \in Clients : TakeEffect(c) \/ \E k \in Keys, v \in Values : Begin(c, k, v)
  \/ \E S \in SUBSET DOMAIN map : Forget(S)

Spec == Init /\ [][Next]_vars
=============================================================================
