---------------------------- MODULE RunRegistry ----------------------------
(***************************************************************************)
(* What the manifest promises the processes that share it: one registry,   *)
(* changed one operation at a time, in which a run stays from its          *)
(* registration until it withdraws itself or, once it is dead, until       *)
(* another run has reaped it.  Manifest.tla is the code that keeps this    *)
(* promise with a file, a lock and a copy of the file in every process.    *)
(***************************************************************************)
CONSTANTS Runs, NoRun,
          Durable  (* a dying process cannot take the registry with it *)

VARIABLES alive, recorded, latest

registry == <<alive, recorded, latest>>

Init == alive = {} /\ recorded = {} /\ latest = NoRun

Join(r) ==
  /\ r \notin alive \cup recorded
  /\ alive' = alive \cup {r}
  /\ UNCHANGED <<recorded, latest>>

Register(r) ==
  /\ r \in alive \ recorded
  /\ recorded' = recorded \cup {r}
  /\ latest' = r
  /\ UNCHANGED alive

Withdraw(r) ==
  /\ r \in alive
  /\ recorded' = recorded \ {r}
  /\ UNCHANGED <<alive, latest>>

Reap(r) ==
  /\ r \in alive
  /\ \E dead \in SUBSET (recorded \ alive) : recorded' = recorded \ dead
  /\ UNCHANGED <<alive, latest>>

Stop(r) ==
  /\ r \in alive
  /\ alive' = alive \ {r}
  /\ \/ UNCHANGED <<recorded, latest>>
     \/ ~Durable /\ recorded' = {} /\ latest' = NoRun

Next == \E r \in Runs : Join(r) \/ Register(r) \/ Withdraw(r) \/ Reap(r) \/ Stop(r)

Spec == Init /\ [][Next]_registry
=============================================================================
