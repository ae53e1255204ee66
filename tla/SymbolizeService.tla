-------------------------- MODULE SymbolizeService --------------------------
(***************************************************************************)
(* What the symbolizer promises its users, without the thread, the queue   *)
(* and the channels of crates/guest-agent/src/symbolize.rs: the public     *)
(* surface is spawn, Symbolizer::symbolize, shutdown and drop, and the     *)
(* errors of SymbolizeError.                                               *)
(*                                                                         *)
(*   - The backend serves one call at a time, each call at most once, and  *)
(*     only while the service is up.                                       *)
(*   - A call succeeds, or fails with the backend's own error, only if the *)
(*     backend served that very call.                                      *)
(*   - worker_stopped means that a stop was asked for or that no client is *)
(*     left; worker_panic means that the backend panicked.                 *)
(*   - shutdown returns Ok only once nothing executes and nothing will.    *)
(***************************************************************************)
CONSTANT Calls

VARIABLES
  mode,      \* "starting", "up", "stopping", "down" or "panicked"
  busy,      \* the call the backend is serving, as a set
  served,    \* the calls the backend has served to the end
  status,    \* of each call: "idle", "open", "closed" or "gone"
  outcome,   \* what each call returned
  owner,     \* of the handle: "starting", "holding", "stopping", "released"
  verdict    \* what the owner of the handle was told

vars == <<mode, busy, served, status, outcome, owner, verdict>>

EndError == IF mode = "panicked" THEN "worker_panic" ELSE "worker_stopped"

NoClientLeft == \A c \in Calls : status[c] = "gone"

Init ==
  /\ mode = "starting"
  /\ busy = {}
  /\ served = {}
  /\ status = [c \in Calls |-> "idle"]
  /\ outcome = [c \in Calls |-> "none"]
  /\ owner = "starting"
  /\ verdict = "none"

Start ==
  /\ mode = "starting"
  /\ mode' \in {"up", "down", "panicked"}
  /\ UNCHANGED <<busy, served, status, outcome, owner, verdict>>

(* A failed start is reported only after the service has come down. *)
StartReported ==
  /\ owner = "starting"
  /\ mode # "starting"
  /\ \/ owner' = "holding" /\ UNCHANGED verdict
     \/ /\ mode \in {"down", "panicked"}
        /\ owner' = "released"
        /\ verdict' = IF mode = "panicked" THEN "worker_panic" ELSE "init_error"
  /\ UNCHANGED <<mode, busy, served, status, outcome>>

Close(c, o) ==
  /\ status' = [status EXCEPT ![c] = "closed"]
  /\ outcome' = [outcome EXCEPT ![c] = o]
  /\ UNCHANGED <<mode, busy, served, owner, verdict>>

Open(c) ==
  /\ owner # "starting"
  /\ status[c] = "idle"
  /\ mode = "up"
  /\ status' = [status EXCEPT ![c] = "open"]
  /\ UNCHANGED <<mode, busy, served, outcome, owner, verdict>>

(* A call made after the end is told why, and never anything else. *)
Refuse(c) ==
  /\ owner # "starting"
  /\ status[c] = "idle"
  /\ mode \in {"stopping", "down", "panicked"}
  /\ Close(c, EndError)

Answer(c) ==
  /\ status[c] = "open"
  /\ \/ c \in served /\ \E o \in {"ok", "backend_error"} : Close(c, o)
     \/ \E o \in {"queue_full", "timeout"} : Close(c, o)
     \/ mode \in {"stopping", "down", "panicked"} /\ Close(c, EndError)

Leave(c) ==
  /\ owner # "starting"
  /\ status[c] \in {"idle", "closed"}
  /\ status' = [status EXCEPT ![c] = "gone"]
  /\ UNCHANGED <<mode, busy, served, outcome, owner, verdict>>

(* The caller may have given up in the meantime. *)
Serve(c) ==
  /\ mode = "up"
  /\ busy = {}
  /\ c \notin served
  /\ status[c] # "idle"
  /\ busy' = {c}
  /\ UNCHANGED <<mode, served, status, outcome, owner, verdict>>

Served ==
  /\ busy # {}
  /\ served' = served \union busy
  /\ busy' = {}
  /\ UNCHANGED <<mode, status, outcome, owner, verdict>>

Panic ==
  /\ busy # {}
  /\ mode' = "panicked"
  /\ busy' = {}
  /\ UNCHANGED <<served, status, outcome, owner, verdict>>

ModeAfterRequest == IF mode = "up" THEN "stopping" ELSE mode

RequestStop ==
  /\ owner = "holding"
  /\ owner' \in {"stopping", "released"} \* shutdown() or drop
  /\ mode' = ModeAfterRequest
  /\ UNCHANGED <<busy, served, status, outcome, verdict>>

Halt ==
  /\ busy = {}
  /\ mode = "stopping" \/ (mode = "up" /\ NoClientLeft)
  /\ mode' = "down"
  /\ UNCHANGED <<busy, served, status, outcome, owner, verdict>>

StopReported ==
  /\ owner = "stopping"
  /\ owner' = "released"
  /\ \/ verdict' = "shutdown_timeout"
     \/ mode = "panicked" /\ verdict' = "worker_panic"
     \/ mode = "down" /\ verdict' = "ok"
     \/ mode = "down" /\ NoClientLeft /\ verdict' = "worker_stopped"
  /\ UNCHANGED <<mode, busy, served, status, outcome>>

Next ==
  \/ Start \/ StartReported \/ Served \/ Panic \/ Halt
  \/ RequestStop \/ StopReported
  \/ \E c \in Calls : Open(c) \/ Refuse(c) \/ Answer(c) \/ Leave(c) \/ Serve(c)

Spec == Init /\ [][Next]_vars
=============================================================================
