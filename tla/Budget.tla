------------------------------- MODULE Budget -------------------------------
(***************************************************************************)
(* The reservation file of serve/mlx_omarchy_serve/budget.py: who holds    *)
(* how much memory against future admissions.  Every operation is one      *)
(* transaction under the file's lock (_transaction), so each is one action *)
(* here; a transaction that raises changes nothing and is left out.        *)
(*                                                                         *)
(* Bytes are small numbers.  The safety reserve is taken off Memory once,  *)
(* so that `available` is MemAvailable less SAFETY_RESERVE_BYTES.          *)
(***************************************************************************)
EXTENDS Integers, FiniteSets, Functions

CONSTANTS Names,    \* names of reservations
          Tokens,   \* owner tokens (generate_owner); a batch shares one here, and
                    \* a launch's own, which nobody else presents, is Absent
          Children, \* process identities: pid and start time
          Absent    \* no record, no process

VARIABLE file       \* [Names -> record or Absent]: reservations.json

Held == {n \in Names : file[n] # Absent}
Owned(name, owner) == name \in Held /\ file[name].owner = owner

\* Mutant of Contribution: a pending record counts as if its weights were loaded.
ContributionAbovePending(r) == IF r.state = "pending" THEN 0 ELSE r.bytes - r.floor

\* What a record holds against others: everything while pending, what is not yet
\* materialized when resident (the floor is never above the total; a worker that
\* leaves it out is counted with all its bytes, as with the floor 0).
Contribution(r) == IF r.state = "pending" THEN r.bytes ELSE r.bytes - r.floor

\* The headroom of a request for `bytes` beside the records of S.
Headroom(available, S, bytes) ==
    available - SumFunction([n \in S |-> Contribution(file[n])]) - bytes

\* A new record.  `ours`: its parent identity is the assistant that runs now.
Pending(bytes, owner) ==
    [bytes |-> bytes, state |-> "pending", floor |-> 0, owner |-> owner,
     claimed |-> Absent, ours |-> TRUE]

Record == [bytes : Nat, state : {"pending", "resident"}, floor : Nat, owner : Tokens \cup {Absent},
           claimed : Children \cup {Absent}, ours : BOOLEAN]

AdmitAndReserve(name, bytes, owner, available) ==
    /\ name \notin Held
    /\ Headroom(available, Held, bytes) >= 0
    /\ file' = [file EXCEPT ![name] = Pending(bytes, owner)]

\* All of a pair's records, or none.
CanAdmitBatch(items, available) ==
    /\ DOMAIN items \cap Held = {}
    /\ Headroom(available, Held, SumFunction(items)) >= 0

AdmitBatch(items, owner, available) ==
    /\ CanAdmitBatch(items, available)
    /\ file' = [n \in Names |-> IF n \in DOMAIN items THEN Pending(items[n], owner)
                                                    ELSE file[n]]

CanResize(name, bytes, owner, available) ==
    /\ Owned(name, owner)
    /\ Headroom(available, Held \ {name}, bytes) >= 0

ResizeReservation(name, bytes, owner, available) ==
    /\ CanResize(name, bytes, owner, available)
    /\ file' = [file EXCEPT ![name].bytes = bytes]

\* Called in the worker: the token is the record's owner, the bytes are those
\* reserved, the worker's parent made the record and still runs, and no other
\* live worker holds the claim.
ClaimReservation(name, owner, bytes, process, parentRuns, alive) ==
    /\ Owned(name, owner)
    /\ file[name].bytes = bytes
    /\ file[name].ours /\ parentRuns
    /\ file[name].claimed \in {Absent, process} \cup (Children \ alive)
    /\ file' = [file EXCEPT ![name].claimed = process]

\* set_reservation_state: the weights are loaded.
SetResident(name, floor, owner) ==
    /\ Owned(name, owner)
    /\ file' = [file EXCEPT ![name].state = "resident", ![name].floor = floor]

\* clear_reservation of several names; the callers hold the owner tokens.
Without(S) == [n \in Names |-> IF n \in S THEN Absent ELSE file[n]]
============================================================================
