-------------------------- MODULE SessionLifecycle --------------------------
(***************************************************************************)
(* What the client registry promises (docs/client_lifecycle_and_task_queue *)
(* and src/src/client/lifecycle.rs, ClientState): a client has at most one *)
(* session at a time; a session goes from Active to Fenced and then away,  *)
(* or from Active directly away when its activation is rolled back; it is  *)
(* never active again, and no later session has its generation.            *)
(***************************************************************************)
EXTENDS Integers, FiniteSets

CONSTANTS Client, MaxClients

VARIABLES
  state,       \* "Absent", "Active" or "Fenced", per client
  generation,  \* the client's generation, 0 when it is Absent
  last         \* the highest generation handed out so far

vars == <<state, generation, last>>

Init ==
  /\ state = [c \in Client |-> "Absent"]
  /\ generation = [c \in Client |-> 0]
  /\ last = 0

\* A new session takes a generation above every earlier one.
Open(c) ==
  /\ state[c] = "Absent"
  /\ Cardinality({d \in Client : state[d] # "Absent"}) < MaxClients
  /\ last' = last + 1
  /\ state' = [state EXCEPT ![c] = "Active"]
  /\ generation' = [generation EXCEPT ![c] = last + 1]

Fence(c) ==
  /\ state[c] = "Active"
  /\ state' = [state EXCEPT ![c] = "Fenced"]
  /\ UNCHANGED <<generation, last>>

Leave(c, from) ==
  /\ state[c] = from
  /\ state' = [state EXCEPT ![c] = "Absent"]
  /\ generation' = [generation EXCEPT ![c] = 0]
  /\ UNCHANGED last

Rollback(c) == Leave(c, "Active")
Close(c) == Leave(c, "Fenced")

Next == \E c \in Client : Open(c) \/ Fence(c) \/ Rollback(c) \/ Close(c)

Spec == Init /\ [][Next]_vars
=============================================================================
