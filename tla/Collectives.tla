----------------------------- MODULE Collectives -----------------------------
(****************************************************************************)
(* torch.distributed over Gloo as the training runners use it.  Every rank   *)
(* runs a program: the sequence of the calls it still has to make.  A call   *)
(* is a collective of a group, a send or a receive of a pair, or work of the *)
(* rank's own.                                                               *)
(*                                                                          *)
(* Nobody leaves a collective before all its members are in it, and members  *)
(* in different calls never leave.  A process that ends closes its            *)
(* connections, which fails the calls that need it.  Timeouts that have no   *)
(* ended process behind them are left out: a run that needs one is stuck.    *)
(****************************************************************************)
EXTENDS Naturals, Sequences

VARIABLES
  todo,     \* the calls a rank still has to make, in order
  raised,   \* the ranks that have raised an error
  wire,     \* what was sent and not yet received, by sender and receiver
  buffered  \* whether a send may return before it is received; never changes

channelVars == <<todo, raised, wire, buffered>>
------------------------------------------------------------------------------
Call(do, what, with, slot) == [do |-> do, what |-> what, with |-> with, slot |-> slot]
Together(what, group) == Call("meet", what, group, 0)
SendTo(q, what, i) == Call("send", what, {q}, i)
RecvFrom(q, what, i) == Call("recv", what, {q}, i)
Alone(what, i) == Call("local", what, {}, i)

Times(n, s) == [i \in 1 .. n |-> s]
Peers == DOMAIN todo

\* Rank r is at a call of this kind.
At(r, do) == todo[r] # <<>> /\ Head(todo[r]).do = do
Current(r) == Head(todo[r])
Popped(S) == [r \in Peers |-> IF r \in S THEN Tail(todo[r]) ELSE todo[r]]

NewChannels(P) ==
  /\ raised = {}
  /\ wire = [r \in P |-> [q \in P |-> <<>>]]
  /\ buffered \in BOOLEAN

\* All members of r's collective are in it.
Gathered(r) ==
  /\ At(r, "meet")
  /\ \A q \in Current(r).with : todo[q] # <<>> /\ Current(q) = Current(r)

Leave(S) == todo' = Popped(S) /\ UNCHANGED <<raised, wire, buffered>>

\* The members of S raise together.
Raise(S) ==
  /\ todo' = [r \in Peers |-> IF r \in S THEN <<>> ELSE todo[r]]
  /\ raised' = raised \cup S
  /\ UNCHANGED <<wire, buffered>>

\* Work of the rank's own.
Work(r, what) == At(r, "local") /\ Current(r).what = what

\* Sends and receives of a pair match in their order, whatever they carry.
Pass(r, q) ==
  /\ ~buffered
  /\ At(r, "send") /\ Current(r).with = {q}
  /\ At(q, "recv") /\ Current(q).with = {r}
  /\ Leave({r, q})

Post(r, q, payload) ==
  /\ buffered
  /\ At(r, "send") /\ Current(r).with = {q} /\ todo[q] # <<>>
  /\ todo' = Popped({r})
  /\ wire' = [wire EXCEPT ![r][q] = Append(@, payload)]
  /\ UNCHANGED <<raised, buffered>>

Arrives(r, q) == At(r, "recv") /\ Current(r).with = {q} /\ wire[q][r] # <<>>

Take(r, q) ==
  /\ Arrives(r, q)
  /\ todo' = Popped({r})
  /\ wire' = [wire EXCEPT ![q][r] = Tail(@)]
  /\ UNCHANGED <<raised, buffered>>

\* A rank raises in a call that needs one whose process is gone.
Gone == {q \in Peers : todo[q] = <<>>}
Desert(r) ==
  /\ At(r, "meet") \/ At(r, "send") \/ At(r, "recv")
  /\ Current(r).with \cap Gone # {}
  /\ At(r, "recv") => \A q \in Current(r).with : wire[q][r] = <<>>
  /\ Raise({r})
==============================================================================
