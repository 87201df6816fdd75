--------------------------- MODULE AgentInvocation ---------------------------
(***************************************************************************)
(* POST /agent_invocations of the coder service (agent_invocation.py and   *)
(* agent_invoke in app.py): one synchronous call of Claude Code per        *)
(* request, in a slot of the semaphore that the verification jobs use too. *)
(*                                                                         *)
(* Three things race once the process runs: its output, the request's      *)
(* timeout, and the client going away, which a watcher turns into the      *)
(* cancel event.  CoderService composes these actions with the jobs and    *)
(* says when a slot is free.                                               *)
(***************************************************************************)
EXTENDS Naturals, FiniteSets

CONSTANT Invocations  \* the requests

ASSUME InvocationsAssumption == IsFiniteSet(Invocations)

VARIABLES
    ipc,     \* where the handler of a request is
    iproc,   \* its Claude Code process
    gone,    \* requests whose cancel_event is set
    answer   \* AgentInvocationResponse: the answer, or the fallback_reason

invocationVars == <<ipc, iproc, gone, answer>>

InSlot == {"spawning", "waiting", "terminating"}

\* What Claude Code leaves behind, and what _parse_and_validate makes of it.
Outputs == {"nonzero exit", "empty", "malformed", "no answer", "off schema",
            "on schema"}
ParseAndValidate(out) ==
    CASE out = "nonzero exit" -> "subprocess_exit"
      [] out = "off schema" -> "schema_validation_failed"
      [] out = "on schema" -> "final_answer"
      [] OTHER -> "no_final_answer"

Responses == {"subprocess_exit", "schema_validation_failed", "final_answer",
              "no_final_answer", "unknown_project", "invalid_response_schema",
              "subprocess_spawn_failed", "cancelled", "timeout",
              "orchestrator_crash"}

InvocationInit ==
    /\ ipc = [i \in Invocations |-> "idle"]
    /\ iproc = [i \in Invocations |-> "none"]
    /\ gone = {}
    /\ answer = [i \in Invocations |-> "none"]

Respond(i, a) ==
    /\ ipc' = [ipc EXCEPT ![i] = "answered"]
    /\ answer' = [answer EXCEPT ![i] = a]

-----------------------------------------------------------------------------
\* The request is read; its project is validated before a slot is asked for.
Invoke(i) ==
    /\ ipc[i] = "idle"
    /\ \/ Respond(i, "unknown_project")
       \/ ipc' = [ipc EXCEPT ![i] = "queued"] /\ UNCHANGED answer
    /\ UNCHANGED <<iproc, gone>>

\* _watch_disconnect sees that the client is gone; the handler goes on.
Disconnect(i) ==
    /\ ipc[i] \in {"queued"} \cup InSlot /\ i \notin gone
    /\ gone' = gone \cup {i}
    /\ UNCHANGED <<ipc, iproc, answer>>

\* The handler has its slot.  Unlike a job it does not look at the cancel
\* event here, only at the response schema.
Admit(i) ==
    /\ ipc[i] = "queued"
    /\ \/ Respond(i, "invalid_response_schema")
       \/ ipc' = [ipc EXCEPT ![i] = "spawning"] /\ UNCHANGED answer
    /\ UNCHANGED <<iproc, gone>>

\* create_subprocess_exec returned, or raised FileNotFoundError or OSError.
InvocationSpawn(i) ==
    /\ ipc[i] = "spawning"
    /\ \/ /\ ipc' = [ipc EXCEPT ![i] = "waiting"]
          /\ iproc' = [iproc EXCEPT ![i] = "running"]
          /\ UNCHANGED answer
       \/ Respond(i, "subprocess_spawn_failed") /\ UNCHANGED iproc
    /\ UNCHANGED gone

InvocationExits(i) ==
    /\ iproc[i] = "running"
    /\ iproc' = [iproc EXCEPT ![i] = "exited"]
    /\ UNCHANGED <<ipc, gone, answer>>

\* _wait_cancel_and_kill: SIGTERM, then SIGKILL.
InvocationCancelKills(i) ==
    /\ ipc[i] = "waiting" /\ i \in gone /\ iproc[i] = "running"
    /\ iproc' = [iproc EXCEPT ![i] = "killed"]
    /\ UNCHANGED <<ipc, gone, answer>>

\* asyncio.wait returned, for whatever reason, and the cancel event is set: it
\* is looked at first, so a process killed for it is no crash.
WakeGone(i) ==
    /\ ipc[i] = "waiting" /\ i \in gone /\ iproc[i] # "running"
    /\ Respond(i, "cancelled")
    /\ UNCHANGED <<iproc, gone>>

\* timeout_seconds are over and there is no output: the process is terminated
\* and what it wrote is dropped; the answer follows after the grace period.
InvocationTimeout(i) ==
    /\ ipc[i] = "waiting" /\ i \notin gone /\ iproc[i] = "running"
    /\ ipc' = [ipc EXCEPT ![i] = "terminating"]
    /\ iproc' = [iproc EXCEPT ![i] = "killed"]
    /\ UNCHANGED <<gone, answer>>

Terminated(i) ==
    /\ ipc[i] = "terminating"
    /\ Respond(i, "timeout")
    /\ UNCHANGED <<iproc, gone>>

\* The process came to its end by itself.
InvocationOutput(i) ==
    /\ ipc[i] = "waiting" /\ i \notin gone /\ iproc[i] # "running"
    /\ \E out \in Outputs : Respond(i, ParseAndValidate(out))
    /\ UNCHANGED <<iproc, gone>>

\* The last-resort except: communicate() raised or its output could not be
\* read.  A process that still runs is left to itself.
InvocationCrash(i) ==
    /\ ipc[i] = "waiting" /\ i \notin gone
    /\ Respond(i, "orchestrator_crash")
    /\ UNCHANGED <<iproc, gone>>

\* The service restarts: every open connection is lost.
DropInvocations ==
    /\ ipc' = [i \in Invocations |->
                 IF ipc[i] = "idle" THEN "idle" ELSE "answered"]
    /\ iproc' = [i \in Invocations |-> "none"]
    /\ gone' = {}
    /\ answer' = [i \in Invocations |-> "none"]

-----------------------------------------------------------------------------
HandlerStep(i) ==
    \/ InvocationSpawn(i) \/ InvocationCancelKills(i) \/ WakeGone(i)
    \/ InvocationTimeout(i) \/ Terminated(i) \/ InvocationOutput(i)
    \/ InvocationCrash(i)

InvocationTypeOK ==
    /\ ipc \in [Invocations -> {"idle", "queued", "answered"} \cup InSlot]
    /\ iproc \in [Invocations -> {"none", "running", "exited", "killed"}]
    /\ gone \subseteq Invocations
    /\ answer \in [Invocations -> {"none"} \cup Responses]

\* A cancelled run does not look like a subprocess crash: whoever killed the
\* process, the client's disconnect or the timeout, the response says so, and
\* no process runs on once the handler has answered, but for the one that the
\* last-resort except leaves behind.
KilledIsNotACrash ==
    \A i \in Invocations :
        /\ iproc[i] = "running"
             => ipc[i] = "waiting" \/ answer[i] = "orchestrator_crash"
        /\ iproc[i] = "killed" => answer[i] \in {"none", "cancelled", "timeout"}
        /\ (ipc[i] = "answered" /\ i \in gone)
             => answer[i] \notin {"final_answer", "subprocess_exit"}

=============================================================================
