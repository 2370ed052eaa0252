----------------------------- MODULE YieldGate -----------------------------
(***************************************************************************)
(* The park/hold gate inside one chat worker (class YieldGate of           *)
(* serve/mlx_omarchy_serve/_mlxlm_server.py).  One decode thread runs      *)
(* BatchGenerator.next() between _before_step and _after_step; control     *)
(* requests from the assistant set and clear `desire`.  Every access is    *)
(* under the gate's condition, so each region is one action here.          *)
(*                                                                         *)
(* _in_step and _parked change together with the position of the decode    *)
(* thread, so they are read off `decode`:                                  *)
(*   "out"   not in next()        "park"  waiting inside _before_step      *)
(*   "step"  running the model on the GPU                                  *)
(* gate.close() has no caller in src/ outside the tests: a worker that     *)
(* stops is killed, which is WorkerReset.                                  *)
(***************************************************************************)
CONSTANTS Turns,   \* admitted chat turns; each has its own secret (a fresh uuid4)
          NoOne    \* no secret / no lock owner / no waiter

ASSUME NoOneAssumption == NoOne \notin Turns

VARIABLES secret,   \* the turn whose secret the gate bound, or NoOne
          desire,   \* a hold is wanted
          decode,   \* where the decode thread is
          streams   \* turns whose chat request is in the worker's batch

gateVars == <<secret, desire, decode, streams>>

InStep == decode # "out"
Parked == decode = "park"

\* "held": no decode step is running and none can start until desire clears.
Held == desire /\ decode # "step"

GateTypeOK ==
    /\ secret \in Turns \cup {NoOne}
    /\ desire \in BOOLEAN
    /\ decode \in {"out", "park", "step"}
    /\ streams \subseteq Turns

\* A worker that was just started: a fresh gate, nothing in its batch.
GateInit ==
    /\ secret = NoOne
    /\ desire = FALSE
    /\ decode = "out"
    /\ streams = {}

\* The worker is killed (manager.stop); the next one starts with a new gate.
WorkerReset ==
    /\ secret' = NoOne
    /\ desire' = FALSE
    /\ decode' = "out"
    /\ streams' = {}

----------------------------------------------------------------------------
(* The decode thread. *)

\* _before_step up to its wait: runs the step, or parks when a hold is wanted.
BeforeStep ==
    /\ decode = "out"
    /\ streams # {}
    /\ decode' = IF desire THEN "park" ELSE "step"
    /\ UNCHANGED <<secret, desire, streams>>

\* The parked thread wakes with desire clear; a hold that came first keeps it.
Unpark ==
    /\ decode = "park"
    /\ ~desire
    /\ decode' = "step"
    /\ UNCHANGED <<secret, desire, streams>>

\* Mutant of HoldExpires: no deadline.
HoldNeverExpires == FALSE

\* The hold_max_seconds deadline: the thread clears desire itself and goes on.
HoldExpires ==
    /\ decode = "park"
    /\ desire
    /\ desire' = FALSE
    /\ decode' = "step"
    /\ UNCHANGED <<secret, streams>>

\* next() returns; the requests in `finished` produced their last token.
AfterStep(finished) ==
    /\ decode = "step"
    /\ decode' = "out"
    /\ streams' = streams \ finished
    /\ UNCHANGED <<secret, desire>>

----------------------------------------------------------------------------
(* Control requests and the chat request, as they are carried out. *)

\* secret_ok of a probe's answer: the gate holds no secret yet, or this one.
SecretOk(t) == secret \in {NoOne, t}

\* "probe": an unbound gate binds the probing turn's secret.
ControlProbe(t) ==
    /\ secret' = IF secret = NoOne THEN t ELSE secret
    /\ UNCHANGED <<desire, decode, streams>>

\* "hold" up to its wait or its answer; a wrong secret is 403 and changes nothing.
ControlHold(t) ==
    /\ secret = t
    /\ desire' = TRUE
    /\ UNCHANGED <<secret, decode, streams>>

\* "hold" answers at once unless a step is running that has not parked.
HoldMustWait == InStep /\ ~Parked

\* The ack deadline of "hold": 409, and the wish is withdrawn.
ControlHoldTimeout ==
    /\ ~Parked
    /\ desire' = FALSE
    /\ UNCHANGED <<secret, decode, streams>>

\* "release"; a wrong secret is 403 and changes nothing.
ControlRelease(t) ==
    /\ desire' = IF secret = t THEN FALSE ELSE desire
    /\ UNCHANGED <<secret, decode, streams>>

\* The chat POST: do_POST binds the secret of its header, if it carries one.
ChatPost(t, withSecret) ==
    /\ secret' = IF withSecret THEN t ELSE secret
    /\ streams' = streams \cup {t}
    /\ UNCHANGED <<desire, decode>>
============================================================================
