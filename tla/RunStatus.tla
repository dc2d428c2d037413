----------------------------- MODULE RunStatus -----------------------------
(***************************************************************************)
(* The status of one run: the handlers of init, heartbeat and end on any   *)
(* replica of the server (server/src/runtime.rs, http/runtime.rs), the     *)
(* sweep for silent runs (main.rs) and the statements they send to         *)
(* ClickHouse (run_repo.rs), against the daemon of the run's client        *)
(* (client/src/worker/execution.rs, transport.rs).                         *)
(*                                                                         *)
(* The table run_status only grows; the status is that of the row with the *)
(* latest timestamp.  A handler reads it, decides, and appends a row by    *)
(* INSERT ... SELECT, which ClickHouse evaluates (timestamp, condition)    *)
(* before the row can be seen by others.  Handlers outlive their request:  *)
(* the client may have gone, or have asked again elsewhere.                *)
(***************************************************************************)
EXTENDS Naturals, Sequences, FiniteSets, SequencesExt

CONSTANTS
    Handlers,     \* requests that can be handled at the same time (bound)
    Sweepers,     \* replicas, each with its task maintain
    MaxSessions,  \* how often the client starts (bound)
    MaxBreaks,    \* how many of its connections break (bound)
    Cancels       \* whether an operator may cancel the run

ASSUME RunStatusAssumption ==
    /\ Handlers \cap Sweepers = {} /\ 0 \notin Handlers \cup Sweepers
    /\ MaxSessions \in Nat /\ MaxBreaks \in Nat
    /\ Cancels \in BOOLEAN

VARIABLES
    latest,    \* the row with the latest timestamp: status, and whether it
               \* is older than two minutes
    pending,   \* who has a row later than latest to insert, by its timestamp
    handler,   \* per handler and sweeper: what it does, and its row
    client,    \* state, outcome, and the request it waits for
    sessions,  \* sessions begun so far
    breaks     \* connections broken so far

vars == <<latest, pending, handler, client, sessions, breaks>>

None == 0   \* no request

Status == latest.status

Statuses == {"queued", "running", "succeeded", "failed", "cancelled"}

(* What the client asks for, as long as it is in this state.               *)
Request ==
    CASE client.state = "starting" -> "init"
      [] client.state = "running" -> "heartbeat"
      [] client.state = "ending" -> "end"
      [] OTHER -> "none"

Requests == {"init", "heartbeat", "end"}

Idle == [op |-> "none", failed |-> FALSE, step |-> "free", status |-> "queued", old |-> FALSE]

TypeOK ==
    /\ latest \in [status : Statuses, old : BOOLEAN]
    /\ pending \in Seq(Handlers \cup Sweepers) /\ IsInjective(pending)
    /\ \A i \in DOMAIN pending : handler[pending[i]].step = "insert"
    /\ handler \in [Handlers \cup Sweepers ->
                     [op : Requests \cup {"sweep", "none"}, failed : BOOLEAN,
                      step : {"free", "get", "select", "insert"},
                      status : Statuses, old : BOOLEAN]]
    /\ client \in [state : {"off", "starting", "running", "ending", "ended"},
                   failed : BOOLEAN, waits : Handlers \cup {None}]
    /\ client.waits # None => handler[client.waits].op = Request
    /\ sessions \in 0 .. MaxSessions
    /\ breaks \in 0 .. MaxBreaks

(* RunRepo::create has queued the run.                                     *)
Init ==
    /\ latest = [status |-> "queued", old |-> FALSE]
    /\ pending = <<>>
    /\ handler = [h \in Handlers \cup Sweepers |-> Idle]
    /\ client = [state |-> "off", failed |-> FALSE, waits |-> None]
    /\ sessions = 0
    /\ breaks = 0

-----------------------------------------------------------------------------
(* The client.                                                             *)

Start ==
    /\ client.state \in {"off", "ended"}
    /\ sessions < MaxSessions
    /\ sessions' = sessions + 1
    /\ client' = [state |-> "starting", failed |-> FALSE, waits |-> None]
    /\ UNCHANGED <<latest, pending, handler, breaks>>

(* init, a heartbeat every 30 s, end; each is repeated until it is         *)
(* answered.                                                               *)
Send(h) ==
    /\ client.waits = None
    /\ Request # "none"
    /\ handler[h].step = "free"
    /\ handler' = [handler EXCEPT ![h] =
                     [Idle EXCEPT !.op = Request, !.failed = client.failed, !.step = "get"]]
    /\ client' = [client EXCEPT !.waits = h]
    /\ UNCHANGED <<latest, pending, sessions, breaks>>

(* supervise ends: the heartbeat task is aborted before end is sent.       *)
Finish(failed) ==
    /\ client.state = "running"
    /\ client' = [state |-> "ending", failed |-> failed, waits |-> None]
    /\ UNCHANGED <<latest, pending, handler, sessions, breaks>>

(* The process dies, or stops before init has been answered.               *)
Leave ==
    /\ client.state \in {"starting", "running", "ending"}
    /\ client' = [state |-> "off", failed |-> FALSE, waits |-> None]
    /\ UNCHANGED <<latest, pending, handler, sessions, breaks>>

(* A connection breaks; the handler goes on.                               *)
Break ==
    /\ client.waits # None
    /\ breaks < MaxBreaks
    /\ breaks' = breaks + 1
    /\ client' = [client EXCEPT !.waits = None]
    /\ UNCHANGED <<latest, pending, handler, sessions>>

(* A handler nobody waits for is dropped, or its replica is restarted,     *)
(* before its statement has reached the database.                          *)
Lose(h) ==
    /\ handler[h].step \in {"get", "select"}
    /\ client.waits # h
    /\ handler' = [handler EXCEPT ![h] = Idle]
    /\ UNCHANGED <<latest, pending, client, sessions, breaks>>

-----------------------------------------------------------------------------
(* The server.                                                             *)

Answered(h) ==
    IF client.waits # h THEN client
    ELSE [client EXCEPT !.waits = None,
                        !.state = CASE @ = "starting" -> "running"
                                    [] @ = "ending" -> "ended"
                                    [] OTHER -> @]

(* Nothing to write: the handler answers.                                  *)
Done(h) ==
    /\ handler' = [handler EXCEPT ![h] = Idle]
    /\ client' = Answered(h)

(* The status that needs no row.  A cancelled run refuses heartbeats.      *)
Settled(h) ==
    CASE handler[h].op = "init" -> {"running"}
      [] handler[h].op = "heartbeat" -> {"cancelled"}
      [] handler[h].op = "end" -> {"succeeded", "cancelled"}

(* RunRepo::get.                                                           *)
Get(h) ==
    /\ handler[h].step = "get"
    /\ IF Status \in Settled(h)
         THEN Done(h)
         ELSE /\ handler' = [handler EXCEPT ![h].step = "select"]
              /\ UNCHANGED client
    /\ UNCHANGED <<latest, pending, sessions, breaks>>

Outcome(h) == IF handler[h].failed THEN "failed" ELSE "succeeded"

NewStatus(h) == IF handler[h].op = "end" THEN Outcome(h) ELSE "running"

(* Mutants: a heartbeat revives any run; it never revives a failed one.    *)
Always == TRUE
NeverFailed == Status \notin {"succeeded", "cancelled", "failed"}
Revivable == Status \notin {"succeeded", "cancelled"}

(* INSERT ... SELECT: timestamp and condition.  touch has a condition,     *)
(* append_status has none.                                                 *)
Select(h) ==
    /\ handler[h].step = "select"
    /\ IF handler[h].op = "heartbeat" /\ ~Revivable
         THEN Done(h) /\ UNCHANGED pending
         ELSE /\ handler' = [handler EXCEPT ![h].step = "insert", ![h].status = NewStatus(h)]
              /\ pending' = Append(pending, h)
              /\ UNCHANGED client
    /\ UNCHANGED <<latest, sessions, breaks>>

(* The rows that are still later than this one.                            *)
After(h) ==
    SubSeq(pending, 1 + (CHOOSE i \in DOMAIN pending : pending[i] = h), Len(pending))

(* The row is there.  It is the latest unless a later one came first.      *)
Insert(h) ==
    /\ handler[h].step = "insert"
    /\ IF h \in ToSet(pending)
         THEN /\ latest' = [status |-> handler[h].status, old |-> handler[h].old]
              /\ pending' = After(h)
         ELSE UNCHANGED <<latest, pending>>
    /\ Done(h)
    /\ UNCHANGED <<sessions, breaks>>

(* Mutant: Failed and Running bound in the wrong order.                    *)
SweptQueued == Status = "failed" /\ latest.old
Silent == Status = "running" /\ latest.old

(* fail_silent_runs, once a minute.                                        *)
Sweep(s) ==
    /\ handler[s].step = "free"
    /\ Silent
    /\ handler' = [handler EXCEPT ![s] =
                     [Idle EXCEPT !.op = "sweep", !.step = "insert", !.status = "failed"]]
    /\ pending' = Append(pending, s)
    /\ UNCHANGED <<latest, client, sessions, breaks>>

(* Two minutes pass.                                                       *)
Tick ==
    /\ latest' = [latest EXCEPT !.old = TRUE]
    /\ handler' = [h \in DOMAIN handler |->
                     IF handler[h].step = "insert" THEN [handler[h] EXCEPT !.old = TRUE]
                     ELSE handler[h]]
    /\ UNCHANGED <<pending, client, sessions, breaks>>

(* An operator writes the row; no code here does.                          *)
Cancel ==
    /\ Cancels
    /\ Status # "cancelled"
    /\ latest' = [status |-> "cancelled", old |-> FALSE]
    /\ pending' = <<>>
    /\ UNCHANGED <<handler, client, sessions, breaks>>

-----------------------------------------------------------------------------

Handle(h) == Get(h) \/ Select(h) \/ Insert(h)

SendAny == \E h \in Handlers : Send(h)

Next ==
    \/ Start \/ SendAny \/ Leave \/ Break \/ Cancel \/ Tick
    \/ \E failed \in BOOLEAN : Finish(failed)
    \/ \E h \in Handlers : Handle(h) \/ Lose(h)
    \/ \E s \in Sweepers : Sweep(s) \/ Insert(s)

Spec == Init /\ [][Next]_vars

(* The database answers, the client repeats its requests, minutes pass and *)
(* every replica sweeps.                                                   *)
Fairness ==
    /\ \A h \in Handlers : WF_vars(Handle(h))
    /\ \A s \in Sweepers : WF_vars(Sweep(s)) /\ WF_vars(Insert(s))
    /\ WF_vars(SendAny)
    /\ WF_vars(Tick)

FairSpec == Spec /\ Fairness

-----------------------------------------------------------------------------

ByClient(op) == \E h \in Handlers : handler[h].op = op /\ Insert(h)

(* Heartbeats and sweeps leave a cancelled run cancelled, however long ago *)
(* they looked at it; only init and an end that had read an earlier status *)
(* do not.                                                                 *)
CancelOutlivesHeartbeats ==
    [][Status = "cancelled" /\ Status' # "cancelled" => ByClient("init") \/ ByClient("end")]_vars

(* "A run silent for 2 minutes [...] is marked failed" (docs/http.md):     *)
(* once its client has gone or has ended it, the run stops being shown as  *)
(* running, whatever is still on its way.                                  *)
GoneSettles ==
    <>[](client.state \in {"off", "ended"}) => <>[](Status # "running")

(* "... if its client comes back, its next heartbeat returns it to         *)
(* running" (docs/http.md): no run stays failed while its client is there. *)
Revived ==
    client.state = "running" /\ Status = "failed"
      ~> Status # "failed" \/ client.state # "running"

(* "Explicit run completion changes a run to succeeded or failed;          *)
(* initialization reopens it" (docs/http.md): a success is final for       *)
(* heartbeats and sweeps.                                                  *)
SuccessIsFinal ==
    [][Status = "succeeded" /\ Status' # "succeeded"
         => ByClient("init") \/ ByClient("end") \/ Cancel]_vars
=============================================================================
