------------------------------ MODULE AneDevice ------------------------------
(***************************************************************************)
(* What the Neural Engine runtime promises about the device, seen from     *)
(* outside: one runtime (its host half, its worker process, or what is     *)
(* left of them) owns it at a time, only the owner runs a program on it,   *)
(* one program at a time, and once it is unknown whether a program         *)
(* completed nobody becomes the owner again before the machine reboots.    *)
(***************************************************************************)
CONSTANT Runtimes

VARIABLES owner,     \* the runtimes that own the device: none or one
          running,   \* the runtimes that have a program on the device
          spoiled    \* a completion became unknown since the last boot

TypeOK == /\ owner \in SUBSET Runtimes
          /\ running \in SUBSET Runtimes
          /\ spoiled \in BOOLEAN

Init == owner = {} /\ running = {} /\ spoiled = FALSE

Own(r) ==
    /\ owner = {} /\ ~spoiled
    /\ owner' = {r}
    /\ UNCHANGED <<running, spoiled>>

Run(r) ==
    /\ owner = {r} /\ running = {}
    /\ running' = {r}
    /\ UNCHANGED <<owner, spoiled>>

Complete ==
    /\ running # {}
    /\ running' = {}
    /\ UNCHANGED <<owner, spoiled>>

\* The program is lost, or the owner stops waiting for it, or for its own end.
Lose ==
    /\ owner # {}
    /\ spoiled' = TRUE
    /\ running' \in {running, {}}
    /\ owner' \in IF running' = {} THEN {owner, {}} ELSE {owner}

Leave ==
    /\ running = {}
    /\ owner' = {}
    /\ UNCHANGED <<running, spoiled>>

Reboot == owner' = {} /\ running' = {} /\ spoiled' = FALSE

Next == \/ \E r \in Runtimes : Own(r) \/ Run(r)
        \/ Complete \/ Lose \/ Leave \/ Reboot

Spec == Init /\ [][Next]_<<owner, running, spoiled>>
=============================================================================
