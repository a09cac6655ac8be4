---------------------------- MODULE Reservations ----------------------------
(***************************************************************************)
(* What the coordinator promises about reservations: "Starting atomically  *)
(* reserves devices and the coordinator endpoint" (CLUSTER_CONSOLE.md).    *)
(* A client acquires all it needs in one step and only if none of it is    *)
(* held; afterwards its holdings only shrink, and it never acquires again. *)
(***************************************************************************)
CONSTANTS Clients, Resources

VARIABLES
  waiting,  \* the clients that may still acquire
  held      \* [Clients -> SUBSET Resources]

Init ==
  /\ waiting = Clients
  /\ held = [c \in Clients |-> {}]

Acquire(c) ==
  /\ c \in waiting
  /\ waiting' = waiting \ {c}
  /\ held'[c] \subseteq Resources
  /\ \A d \in Clients : held[d] \cap held'[c] = {}
  /\ held' = [held EXCEPT ![c] = held'[c]]

\* Any number of clients give something back, or give up waiting.
Release ==
  /\ waiting' \subseteq waiting
  /\ held' \in [Clients -> SUBSET Resources]
  /\ \A c \in Clients : held'[c] \subseteq held[c]

Next == (\E c \in Clients : Acquire(c)) \/ Release

Spec == Init /\ [][Next]_<<waiting, held>>

\* No resource is ever held by two clients.
Exclusive == \A c, d \in Clients : c # d => held[c] \cap held[d] = {}
=============================================================================
