----------------------------- MODULE QmpClient -----------------------------
(***************************************************************************)
(* scripts/m0/qmp-smoke.py: one client that negotiates QMP with QEMU, then *)
(* saves the VM under a name and loads it again, one command at a time.    *)
(*                                                                         *)
(* QEMU and what else writes to the connection is external.  It answers a  *)
(* request after it has executed it, as fast or as slowly as it likes, and *)
(* sends events at any time; a failed HMP command is a return with text.   *)
(* A message is a line, which may arrive in parts.  Its contents matter as *)
(* far as the client tells them apart.  Time is counted in ticks and only  *)
(* as far as it decides whether a wait ends.                               *)
(***************************************************************************)
EXTENDS Naturals, Sequences

CONSTANTS
  Timeout,    \* --timeout, in ticks
  MaxEvents,  \* MAX_RECORDED_EVENT_NAMES
  MaxParts,   \* bound: how many reads of a socket a line may take
  Room        \* bound: messages on their way to the client

ASSUME TimeoutAssumption == Timeout \in Nat \ {0}
ASSUME BoundsAssumption == MaxEvents \in Nat /\ MaxParts \in Nat \ {0} /\ Room \in Nat \ {0}

VARIABLES
  step,      \* what main() is at
  pc,        \* where the client is in it
  status,    \* the exit status
  nextId,    \* _next_id
  left,      \* time until the deadline
  budget,    \* the timeout of the socket, set by receive()
  timer,     \* what is left of it for the present recv
  part,      \* parts of the present line that were read
  events,    \* how many event names are recorded
  elapsed,   \* history: time since the deadline was set, up to Timeout + 1
  incoming,  \* lines QEMU has sent and the client has not read
  request,   \* the request QEMU has not answered
  up,        \* QEMU has the connection open
  snapshot,  \* what the disk has under the snapshot's name
  vm         \* what the VM was last loaded from

clientVars == <<step, pc, status, nextId, events>>
timeVars == <<left, budget, timer, part, elapsed>>
qemuVars == <<request, up, snapshot, vm>>
vars == <<clientVars, timeVars, incoming, qemuVars>>

Commands == {"qmp_capabilities", "savevm", "loadvm"}

NoRequest == [command |-> "none", id |-> 0]
Request == [command : Commands, id : 1..3]

Results == {"ok", "diagnostic", "error", "mistyped"}

(* A reply to no request of this client has id 0. *)
Line == [kind : {"greeting", "event", "malformed"}]
          \union [kind : {"reply"}, id : 0..3, result : Results]

Contents == {"none", "earlier", "this_run"}

TypeOK ==
  /\ step \in {"greeting", "done"} \union Commands
  /\ pc \in {"connect", "send", "receive", "readline", "closed"}
  /\ status \in {"running", "ok", "failed"}
  /\ nextId \in 1..4
  /\ left \in 0..Timeout /\ budget \in 0..Timeout /\ timer \in 0..Timeout
  /\ part \in 0..MaxParts - 1
  /\ events \in 0..MaxEvents
  /\ elapsed \in 0..Timeout + 1
  /\ incoming \in Seq(Line) /\ Len(incoming) <= Room
  /\ request \in Request \union {NoRequest}
  /\ up \in BOOLEAN
  /\ snapshot \in Contents
  /\ vm \in Contents

Init ==
  /\ step = "greeting"
  /\ pc = "connect"
  /\ status = "running"
  /\ nextId = 1
  /\ left = Timeout /\ budget = Timeout /\ timer = Timeout /\ elapsed = 0
  /\ part = 0
  /\ events = 0
  /\ incoming = << >>
  /\ request = NoRequest
  /\ up = TRUE
  /\ snapshot \in {"none", "earlier"}
  /\ vm = "none"

-----------------------------------------------------------------------------
(* main() ends, and closes the client. *)

Exit(s) ==
  /\ status' = s
  /\ pc' = "closed"

(* An OSError or a QmpError. *)
Fail == Exit("failed") /\ UNCHANGED step

NewDeadline == left' = Timeout /\ elapsed' = 0

Following ==
  [greeting |-> "qmp_capabilities", qmp_capabilities |-> "savevm", savevm |-> "loadvm",
   loadvm |-> "done"]

(* What the client waited for has come. *)
Proceed ==
  /\ step' = Following[step]
  /\ IF step = "loadvm" THEN Exit("ok") ELSE pc' = "send" /\ UNCHANGED status

-----------------------------------------------------------------------------
(* QmpClient.__init__, then negotiate() sets the deadline of the greeting. *)
Connect ==
  /\ pc = "connect"
  /\ \/ up /\ pc' = "receive" /\ UNCHANGED <<step, status>>
     \/ Fail
  /\ NewDeadline
  /\ UNCHANGED <<nextId, events, budget, timer, part, incoming, qemuVars>>

(* execute(), up to the wait.  sendall may fail or time out. *)
Send ==
  /\ pc = "send"
  /\ nextId' = nextId + 1
  /\ \/ /\ up
        /\ request' = [command |-> step, id |-> nextId]
        /\ pc' = "receive"
        /\ UNCHANGED <<step, status>>
     \/ Fail /\ UNCHANGED request
  /\ NewDeadline
  /\ UNCHANGED <<events, budget, timer, part, incoming, up, snapshot, vm>>

(* receive(), up to readline. *)
Receive ==
  /\ pc = "receive"
  /\ IF left = 0
       THEN Fail /\ UNCHANGED <<budget, timer>>
       ELSE /\ budget' = left /\ timer' = left
            /\ pc' = "readline"
            /\ UNCHANGED <<step, status>>
  /\ UNCHANGED <<nextId, events, left, part, elapsed, incoming, qemuVars>>

-----------------------------------------------------------------------------
(* readline *)

(* Some bytes and no newline: the next recv gets the whole timeout again.  *)
ReadPart ==
  /\ pc = "readline"
  /\ incoming # << >>
  /\ part + 1 < MaxParts
  /\ part' = part + 1
  /\ timer' = budget
  /\ UNCHANGED <<clientVars, left, budget, elapsed, incoming, qemuVars>>

(* A recv that waited for its whole timeout. *)
ReadTimesOut ==
  /\ pc = "readline"
  /\ timer = 0
  /\ Fail
  /\ UNCHANGED <<nextId, events, timeVars, incoming, qemuVars>>

(* The connection was closed, after a whole line or within one. *)
ReadEnds ==
  /\ pc = "readline"
  /\ ~up /\ (incoming = << >> \/ part > 0)
  /\ Fail
  /\ UNCHANGED <<nextId, events, timeVars, incoming, qemuVars>>

(* Mutant: text that HMP returns is taken for success after savevm. *)
AcceptsSaveDiagnostic(result) ==
  result = "ok" \/ (result = "diagnostic" /\ step = "savevm")

(* Mutant: the same after loadvm. *)
AcceptsLoadDiagnostic(result) ==
  result = "ok" \/ (result = "diagnostic" /\ step = "loadvm")

(* execute() and its caller: exactly one of return and error, no error, a  *)
(* value of the type the command returns, and no text but white space.     *)
Accepts(result) == result = "ok"

RecordEvent == events' = IF events < MaxEvents THEN events + 1 ELSE events

(* Mutant: each event gives the reply a new deadline. *)
HandleEventAnew ==
  /\ RecordEvent
  /\ pc' = "receive"
  /\ NewDeadline
  /\ UNCHANGED <<step, status>>

HandleEvent ==
  /\ RecordEvent
  /\ pc' = "receive"
  /\ UNCHANGED <<step, status, left, elapsed>>

(* The id of the request that waits is the last one given out. *)
Expected(line) ==
  \/ line.kind = "greeting" /\ step = "greeting"
  \/ /\ line.kind = "reply" /\ step \in Commands
     /\ line.id = nextId - 1
     /\ Accepts(line.result)

(* _wait_for_reply, or the validation of the greeting. *)
ReadLine ==
  /\ pc = "readline"
  /\ incoming # << >>
  /\ incoming' = Tail(incoming)
  /\ part' = 0
  /\ IF Head(incoming).kind = "event" /\ step # "greeting"
       THEN HandleEvent
       ELSE /\ IF Expected(Head(incoming)) THEN Proceed ELSE Fail
            /\ UNCHANGED <<events, left, elapsed>>
  /\ UNCHANGED <<nextId, budget, timer, qemuVars>>

(* Time passes, but a recv whose timeout is over returns. *)
Tick ==
  /\ pc # "closed"
  /\ pc = "readline" => timer > 0
  /\ left' = IF left > 0 THEN left - 1 ELSE 0
  /\ timer' = IF pc = "readline" THEN timer - 1 ELSE timer
  /\ elapsed' = IF elapsed <= Timeout THEN elapsed + 1 ELSE elapsed
  /\ UNCHANGED <<clientVars, budget, part, incoming, qemuVars>>

-----------------------------------------------------------------------------
(* QEMU, and whoever else writes to the connection. *)

Say(line) ==
  /\ up /\ pc # "connect"
  /\ Len(incoming) < Room
  /\ incoming' = Append(incoming, line)

(* A greeting, which a sound QEMU sends first; an event; a line that is    *)
(* none of them, too long, or not JSON; or a reply nobody asked for.       *)
Speak ==
  /\ \/ \E k \in {"greeting", "event", "malformed"} : Say([kind |-> k])
     \/ \E r \in Results : Say([kind |-> "reply", id |-> 0, result |-> r])
  /\ UNCHANGED <<clientVars, timeVars, qemuVars>>

Answer(result) ==
  /\ Say([kind |-> "reply", id |-> request.id, result |-> result])
  /\ request' = NoRequest

(* savevm replaces the snapshot of that name; when it fails the old one    *)
(* may be there or gone.                                                   *)
Execute ==
  /\ request # NoRequest
  /\ \/ /\ Answer("ok")
        /\ request.command = "loadvm" => snapshot # "none"
        /\ snapshot' = IF request.command = "savevm" THEN "this_run" ELSE snapshot
        /\ vm' = IF request.command = "loadvm" THEN snapshot ELSE vm
     \/ /\ \E r \in Results \ {"ok"} : Answer(r)
        /\ snapshot' \in IF request.command = "savevm" THEN {snapshot, "none"} ELSE {snapshot}
        /\ UNCHANGED vm
  /\ UNCHANGED <<clientVars, timeVars, up>>

HangUp ==
  /\ up
  /\ up' = FALSE
  /\ UNCHANGED <<clientVars, timeVars, incoming, request, snapshot, vm>>

Step ==
  \/ Connect \/ Send \/ Receive
  \/ ReadPart \/ ReadTimesOut \/ ReadEnds \/ ReadLine

Next == Step \/ Tick \/ Speak \/ Execute \/ HangUp

Spec == Init /\ [][Next]_vars

(* The client runs and time passes; QEMU promises nothing. *)
FairSpec == Spec /\ WF_vars(Step) /\ WF_vars(Tick)

-----------------------------------------------------------------------------
(* Properties. *)

(* Exit status 0 says that the VM was loaded from what this run saved.  A  *)
(* snapshot of an earlier run under the same name does not count, nor does *)
(* an HMP command that failed with a return.                               *)
OkMeansRoundTrip == status = "ok" => snapshot = "this_run" /\ vm = "this_run"

(* Whatever the client reports, it never has the VM thrown back to a       *)
(* snapshot that was on the disk before.                                   *)
LoadsOwnSnapshot == vm # "earlier"

(* The client ends, though events keep coming (docs/M0.md: "a sustained    *)
(* event flood therefore still reaches the deadline").                     *)
ClientEnds == <>(status # "running")

(* docs/M0.md: --timeout "bounds ... each complete greeting or             *)
(* command-reply wait".  It does not when a line comes in parts: the       *)
(* timeout of the socket is that of each recv.                             *)
WaitsWithinTimeout == pc = "readline" => elapsed <= Timeout
=============================================================================
