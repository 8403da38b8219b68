------------------------------ MODULE Traffic -------------------------------
(***************************************************************************)
(* The load on a running fabric: traffic/generator.py, the background load *)
(* of the corpus runners (traffic/lab.py) and the smoke test that runs the *)
(* same plan in the foreground (scripts/traffic_smoke.py).                 *)
(*                                                                         *)
(* The processes are detached: they outlive the program that started them. *)
(* They are stopped host by host, and nobody looks whether that worked: a  *)
(* stop that fails, or times out and raises, leaves what the host runs.    *)
(*                                                                         *)
(* An iperf3 server is external; it serves one test at a time and refuses  *)
(* a second one, and a test ends with either of its ends.  Bit rates are   *)
(* left out.                                                               *)
(***************************************************************************)
EXTENDS Acceptance

CONSTANTS Profiles,   \* what configs/traffic-profiles.yaml offers
          MaxRuns     \* bound on the programs started

ASSUME TrafficAssumption == MaxRuns \in Nat /\ \A profile \in Profiles : profile.seed \in Int

VARIABLES
    phase,     \* "off", "starting", "serving", "running", "waiting", "cleanup" or "done"
    program,   \* "background" or "smoke"
    plan,      \* the flows of the profile, in order
    next,      \* the flow to start
    servers,   \* the <<host, port>> that listen
    clients,   \* the flows that transmit
    refused,   \* the clients whose server refused a flow of this background load (history)
    missed,    \* the hosts on which this program's stop failed (history)
    runs       \* programs started

tvars == <<phase, program, plan, next, servers, clients, refused, missed, runs>>
lvars == <<labVars, tvars>>

Hosts == DOMAIN fabric.hosts

FlowPairs(profile) ==
    {p \in Hosts \X (IF profile.pattern = "incast" THEN {profile.target} ELSE Hosts) : p[1] # p[2]}

FlowPort(profile, i) == 5200 + (profile.seed % 100) + i - 1

\* plan_flows: pairs in the order of the hosts, a port for each.
PlanFlows(profile) ==
    LET pairs == FlowPairs(profile)
        place(p) == Cardinality({q \in pairs : q[1] < p[1] \/ (q[1] = p[1] /\ q[2] <= p[2])})
        pair(i) == CHOOSE p \in pairs : place(p) = i
    IN [i \in 1 .. Cardinality(pairs) |-> [src |-> pair(i)[1], dst |-> pair(i)[2], port |-> FlowPort(profile, i)]]

Server(flow) == <<flow.dst, flow.port>>

TrafficInit ==
    /\ AcceptanceInit
    /\ phase = "off" /\ program = "background" /\ plan = <<>> /\ next = 1
    /\ servers = {} /\ clients = {} /\ refused = {} /\ missed = {} /\ runs = 0

\* The lab is loaded; the routes are followed no further.
Load ==
    /\ stage = "rendered" /\ check = "off" /\ flaps = 0
    /\ stage' = "loaded"
    /\ dest' = <<>> /\ up' = {} /\ config' = <<>> /\ heard' = <<>>
    /\ UNCHANGED <<fabric, flaps, avars, tvars>>

StartProgram ==
    /\ stage = "loaded" /\ phase \in {"off", "done"} /\ runs < MaxRuns
    /\ runs' = runs + 1
    /\ program' \in {"background", "smoke"}
    /\ \E profile \in Profiles : plan' = PlanFlows(profile)
    /\ phase' = "starting" /\ next' = 1 /\ refused' = {} /\ missed' = {}
    /\ UNCHANGED <<labVars, servers, clients>>

\* pkill on every host; the status of none is looked at.  One that times out ends the loop, and what
\* it leaves is also left when the stop fails on that host and on those after it.
StopOnHosts ==
    \E failed \in SUBSET Hosts :
        /\ servers' = {server \in servers : server[1] \in failed}
        /\ clients' = {c \in clients : {c.src, c.dst} \subseteq failed}
        /\ missed' = failed

\* Only the background load begins by stopping what runs; it goes on unless a stop has raised (Killed).
StopTraffic ==
    /\ phase = "starting" /\ program = "background"
    /\ phase' = "serving"
    /\ StopOnHosts
    /\ UNCHANGED <<labVars, program, plan, next, refused, runs>>

\* A port that is taken keeps its server.
StartServers ==
    /\ phase = IF program = "background" THEN "serving" ELSE "starting"
    /\ phase' = "running"
    /\ servers' = servers \cup {Server(plan[i]) : i \in DOMAIN plan}
    /\ UNCHANGED <<labVars, program, plan, next, clients, refused, missed, runs>>

\* The clients that keep the server of a flow busy.
Busy(flow) == {c \in clients : Server(c) = Server(flow)}

\* A client in the foreground is waited for, and the other one is not.
StartFlow ==
    /\ phase = "running" /\ next <= Len(plan)
    /\ IF Busy(plan[next]) # {}
       THEN /\ refused' = IF program = "background" THEN refused \cup Busy(plan[next]) ELSE refused
            /\ UNCHANGED clients
       ELSE clients' = clients \cup {plan[next]} /\ UNCHANGED refused
    /\ next' = next + 1
    /\ phase' = IF program = "smoke" /\ Busy(plan[next]) = {} THEN "waiting" ELSE "running"
    /\ UNCHANGED <<labVars, program, plan, servers, missed, runs>>

\* A test is over; the server of a smoke test ends with it.
FlowEnds ==
    /\ \E c \in clients :
          /\ clients' = clients \ {c}
          /\ IF phase = "waiting" /\ c = plan[next - 1]
             THEN phase' = "running" /\ servers' = servers \ {Server(c)}
             ELSE UNCHANGED <<phase, servers>>
    /\ UNCHANGED <<labVars, program, plan, next, refused, missed, runs>>

\* Mutant of ExecTimesOut: without the finally of main.
ExecTimesOutUncleaned ==
    /\ program = "smoke" /\ phase \in {"starting", "waiting"}
    /\ phase' = "done"
    /\ UNCHANGED <<labVars, program, plan, next, servers, clients, refused, missed, runs>>

\* docker exec times out in the smoke test: the exception is raised, and a client that was waited for
\* goes on in its container.  A background load ends there (Killed).
ExecTimesOut ==
    /\ program = "smoke" /\ phase \in {"starting", "waiting"}
    /\ phase' = "cleanup"
    /\ UNCHANGED <<labVars, program, plan, next, servers, clients, refused, missed, runs>>

Started ==
    /\ phase = "running" /\ next > Len(plan)
    /\ phase' = IF program = "smoke" THEN "cleanup" ELSE "done"
    /\ UNCHANGED <<labVars, program, plan, next, servers, clients, refused, missed, runs>>

Cleanup ==
    /\ phase = "cleanup"
    /\ phase' = "done"
    /\ StopOnHosts
    /\ UNCHANGED <<labVars, program, plan, next, refused, runs>>

Killed ==
    /\ phase \notin {"off", "done"}
    /\ phase' = "off"
    /\ UNCHANGED <<labVars, program, plan, next, servers, clients, refused, missed, runs>>

TrafficNext ==
    \/ AcceptanceNext /\ UNCHANGED tvars
    \/ Load \/ StartProgram \/ StopTraffic \/ StartServers \/ StartFlow
    \/ FlowEnds \/ ExecTimesOut \/ Started \/ Cleanup \/ Killed

TrafficSpec == TrafficInit /\ [][TrafficNext]_lvars /\ UnderlayFairness

-----------------------------------------------------------------------------
(* Properties. *)

\* A stop that fails is the only way for a load to outlive a smoke test or to spoil the next load.
\* What is left once a smoke test has ended by itself, although a flow may have timed out with its
\* client still running, is on the hosts whose stop failed; and a flow of a background load is turned
\* away by no flow of its own plan and by no leftover of an earlier program, finished or killed, but
\* one between two hosts whose stop failed (traffic/lab.py:28-74, generator.py:65-83,
\* traffic_smoke.py:42-54, 92-103).
ProgramsCleanUp ==
    /\ \A c \in refused : {c.src, c.dst} \subseteq missed
    /\ phase = "done" /\ program = "smoke" =>
          /\ \A server \in servers : server[1] \in missed
          /\ \A c \in clients : {c.src, c.dst} \subseteq missed
=============================================================================
