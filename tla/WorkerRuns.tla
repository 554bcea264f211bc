----------------------------- MODULE WorkerRuns -----------------------------
(***************************************************************************)
(* POST /run and POST /congestion on a deployed substrate worker:          *)
(* services/substrate-worker/src/substrate/main_local.py, and main_aws.py  *)
(* where the two differ (the Dockerfile starts one or the other).  /run    *)
(* shapes when it is given rates, sets the congestion control of the       *)
(* namespaces, runs the workflow's command with the cca_preload shim and   *)
(* watches the sockets of ns1 meanwhile.                                   *)
(*                                                                         *)
(* FastAPI runs the handlers in a thread pool, so requests interleave at   *)
(* every command they run.  One link's tc commands are one step (ShapeState*)
(* has them one by one).  The kernel is taken as set_congestion describes  *)
(* it, and cca_preload.c: there is one list of allowed algorithms, writable*)
(* from the host's own network namespace only, and any other namespace's   *)
(* default is chosen from it.  (_apply_cca_in_ns and setup_local.sh speak  *)
(* of a list for each namespace.)                                          *)
(***************************************************************************)
EXTENDS Integers, Sequences, SequencesExt, FiniteSets

CONSTANTS
  Requests,    \* the requests a history has
  May,         \* per request what it may ask, see Asked
  Whitelist,   \* CCANALYZER_CCAS
  Profiles,    \* the deployments: "local", a container on a bridge network;
               \* "hostLocal", the same code on the host's network; "aws", on
               \* the host's network; "awsWan", aws with an egress interface
  AtBoot,      \* the algorithms loaded when the worker starts
  Default,     \* those the kernel allows by itself
  Nobody,
  MaxFails     \* bound: sysctl, modprobe, tc and ss commands that fail

Namespaces == {"root", "ns1", "ns2"}

\* exact: the algorithm is written as the kernel does, without capitals or
\* blanks.  scope "all" is namespace = null.
Asked == [kind : {"run", "congestion"}, alg : STRING, exact : BOOLEAN,
          scope : Namespaces \cup {"all", "other"}, rated : BOOLEAN,
          runtime : {"shell", "browser"}, deadline : BOOLEAN]

ASSUME MayAssumption == \A r \in Requests : May[r] \subseteq Asked
ASSUME DefaultAssumption == Default \subseteq AtBoot

VARIABLES
  profile,   \* which of Profiles the worker runs
  req,       \* per request: what it asks
  loaded,    \* net.ipv4.tcp_available_congestion_control
  allowed,   \* net.ipv4.tcp_allowed_congestion_control
  current,   \* per namespace: tcp_congestion_control
  shaped,    \* per link: whose parameters its qdiscs have
  state,     \* CURRENT_BOTTLENECK_STATE
  pc, step,  \* per request: its phase, and its next command there
  seen,      \* per request: the available list it read last
  deferred,  \* per request: the namespaces in sysctl_errors
  leader,    \* per request: the workflow's command
  child,     \* per request: a process the command left behind
  cut,       \* per request: _SHELL_DEADLINE_TRIGGERED
  flows,     \* per request: its sockets, [shim, cca]
  observed,  \* per request: what its observer thread has counted
  out,       \* per request: the answer
  shared,    \* history: another request, or what it left, met this one
  fails

kernel == <<loaded, allowed, current, shaped>>
handler == <<state, pc, step, seen, deferred, out>>
work == <<leader, child, cut, flows, observed>>
vars == <<profile, req, kernel, handler, work, shared, fails>>

Alg(r) == req[r].alg
Running(r) == pc[r] = "workflow"
Active(r) == pc[r] \notin {"idle", "done"}
CountFail == fails < MaxFails /\ fails' = fails + 1
NoFail == UNCHANGED fails

\* Whether the worker's root namespace is the host's, and which code it runs.
HostNet == profile # "local"
LocalCode == profile \in {"local", "hostLocal"}

\* The interfaces apply_shaping goes through; main_aws adds the egress one.
Ifaces == IF profile = "awsWan" THEN <<"down", "up", "wan">> ELSE <<"down", "up">>

\* ... and the two that take the latency.
Links == Ifaces \o <<"veth1", "veth3">>

Init ==
  /\ profile \in Profiles
  /\ \E f \in [Requests -> UNION {May[r] : r \in Requests}] :
       req = f /\ \A r \in Requests : f[r] \in May[r]
  /\ loaded = AtBoot
  /\ allowed \in {Default, AtBoot} /\ (~HostNet => allowed = Default)
  /\ current = [n \in Namespaces |-> "cubic"]
  /\ shaped = [l \in {"down", "up", "wan", "veth1", "veth3"} |-> Nobody]
  /\ state = Nobody
  /\ pc = [r \in Requests |-> "idle"]
  /\ step = [r \in Requests |-> 1]
  /\ seen = [r \in Requests |-> {}]
  /\ deferred = [r \in Requests |-> {}]
  /\ leader = [r \in Requests |-> "none"]
  /\ child = [r \in Requests |-> "none"]
  /\ cut = [r \in Requests |-> FALSE]
  /\ flows = [r \in Requests |-> {}]
  /\ observed = [r \in Requests |-> {}]
  /\ out = [r \in Requests |-> "none"]
  /\ shared = [r \in Requests |-> FALSE]
  /\ fails = 0

Goto(r, p) == pc' = [pc EXCEPT ![r] = p] /\ step' = [step EXCEPT ![r] = 1]
Answer(r, o) == Goto(r, "done") /\ out' = [out EXCEPT ![r] = o]

-----------------------------------------------------------------------------
(* The handlers, up to the workflow *)

Alive(r) == leader[r] \in {"alive", "termed"} \/ child[r] \in {"piped", "free"}

\* A request arrives; /run with rates publishes its bottleneck first.
Begin(r) ==
  /\ pc[r] = "idle"
  /\ Goto(r, IF req[r].kind = "run" /\ req[r].rated THEN "shape" ELSE "load")
  /\ state' = IF req[r].kind = "run" /\ req[r].rated THEN r ELSE state
  /\ LET met == {q \in Requests \ {r} : Active(q) \/ Alive(q)}
     IN  shared' = [q \in Requests |->
           shared[q] \/ (q = r /\ met # {}) \/ (q \in met /\ Active(q))]
  /\ UNCHANGED <<profile, req, kernel, seen, deferred, out, work, fails>>

\* apply_shaping, one link: its qdiscs are deleted and added anew.  A tc
\* command that fails leaves the link bare and clears the global state.
ShapeLink(r) ==
  /\ pc[r] = "shape"
  /\ \/ /\ NoFail
        /\ shaped' = [shaped EXCEPT ![Links[step[r]]] = r]
        /\ IF step[r] = Len(Links)
             THEN Goto(r, "load")
             ELSE step' = [step EXCEPT ![r] = @ + 1] /\ UNCHANGED pc
        /\ UNCHANGED <<state, out>>
     \/ /\ CountFail
        /\ shaped' = [shaped EXCEPT ![Links[step[r]]] = Nobody]
        /\ state' = Nobody
        /\ Answer(r, "500")
  /\ UNCHANGED <<profile, req, loaded, allowed, current, seen, deferred, work, shared>>

\* set_congestion: the whitelist, _ensure_cca_loaded with its modprobe, then
\* the choice of the namespaces.
EnsureLoaded(r) ==
  /\ pc[r] = "load"
  /\ \/ /\ Alg(r) \in Whitelist
        /\ loaded' = loaded \cup {Alg(r)} /\ NoFail
        /\ IF req[r].scope = "other"
             THEN Answer(r, "400") ELSE Goto(r, "cca") /\ UNCHANGED out
     \/ /\ Alg(r) \notin Whitelist
        /\ NoFail /\ Answer(r, "400") /\ UNCHANGED loaded
     \/ /\ Alg(r) \in Whitelist \ loaded
        /\ CountFail /\ Answer(r, "400") /\ UNCHANGED loaded
  /\ UNCHANGED <<profile, req, allowed, current, shaped, state, seen, deferred, work, shared>>

Command(o, n) == <<[op |-> o, ns |-> n]>>

\* A slip: main_local widens the namespace itself only, as main_aws does.
NsCommands_OwnOnly(n) ==
  Command("read", n) \o Command("widen", n) \o Command("set", n)

\* _apply_cca_in_ns: what it runs for one namespace.  main_local widens
\* the list from the root namespace first.
NsCommands(n) ==
  (IF LocalCode THEN Command("read", "root") \o Command("widen", "root") ELSE <<>>)
  \o Command("read", n) \o Command("widen", n) \o Command("set", n)

Commands(r) ==
  IF req[r].scope = "all"
    THEN NsCommands("root") \o NsCommands("ns1") \o NsCommands("ns2")
    ELSE NsCommands(req[r].scope)

Next1(r) ==
  IF step[r] < Len(Commands(r))
    THEN step' = [step EXCEPT ![r] = @ + 1] /\ UNCHANGED <<pc, out>>
    ELSE IF req[r].kind = "run"
           THEN Goto(r, "start") /\ UNCHANGED out
           ELSE Answer(r, "ok")

Op(r, o) == pc[r] = "cca" /\ Commands(r)[step[r]].op = o
Ns(r) == Commands(r)[step[r]].ns

\* The namespace that may write the allowed list and set any default.
IsInit(n) == n = "root" /\ HostNet

\* What a write of list from n makes of the allowed list.
Widened(n, list) == IF IsInit(n) /\ list # {} THEN list ELSE allowed

ReadAvailable(r) ==
  /\ Op(r, "read")
  /\ \/ NoFail /\ seen' = [seen EXCEPT ![r] = loaded]
     \/ CountFail /\ seen' = [seen EXCEPT ![r] = {}]
  /\ Next1(r)
  /\ UNCHANGED <<profile, req, kernel, state, deferred, work, shared>>

\* The list is replaced by the one that was read; nobody looks whether the
\* write succeeded.
WidenAllowed(r) ==
  /\ Op(r, "widen")
  /\ \/ /\ NoFail
        /\ allowed' = Widened(Ns(r), seen[r])
     \/ CountFail /\ seen[r] # {} /\ UNCHANGED allowed
  /\ Next1(r)
  /\ UNCHANGED <<profile, req, loaded, current, shaped, state, seen, deferred, work, shared>>

\* A refused write is put down as deferred to the shim and the request goes
\* on.
SetCurrent(r) ==
  /\ Op(r, "set")
  /\ \/ /\ IsInit(Ns(r)) \/ Alg(r) \in allowed
        /\ NoFail
        /\ current' = [current EXCEPT ![Ns(r)] = Alg(r)]
        /\ UNCHANGED deferred
     \/ /\ \/ NoFail /\ ~IsInit(Ns(r)) /\ Alg(r) \notin allowed
           \/ CountFail
        /\ deferred' = [deferred EXCEPT ![r] = @ \cup {Ns(r)}]
        /\ UNCHANGED current
  /\ Next1(r)
  /\ UNCHANGED <<profile, req, loaded, allowed, shaped, state, seen, work, shared>>

-----------------------------------------------------------------------------
(* The workflow *)

\* The contextvars are set, the observer is started and NetGent spawns the
\* command.
StartWorkflow(r) ==
  /\ pc[r] = "start"
  /\ Goto(r, "workflow")
  /\ leader' = [leader EXCEPT ![r] = "alive"]
  /\ UNCHANGED <<profile, req, kernel, state, seen, deferred, out, child, cut, flows,
                 observed, shared, fails>>

\* The command opens a TCP socket.  cca_preload's setsockopt takes the name
\* /run was given, as it was given; a browser and a static binary are not
\* under the shim and get the default of ns1, as does a socket whose
\* setsockopt failed.
OpenSocket(r) ==
  /\ leader[r] = "alive" \/ child[r] \in {"piped", "free"}
  /\ \E shim \in BOOLEAN :
       /\ shim => req[r].runtime = "shell"
       /\ flows' = [flows EXCEPT ![r] = @ \cup
            {[shim |-> shim,
              cca |-> IF shim /\ req[r].exact THEN Alg(r) ELSE current["ns1"]]}]
  /\ UNCHANGED <<profile, req, kernel, handler, leader, child, cut, observed, shared, fails>>

\* The command forks: a child that keeps its stdout open, or one that does
\* not.
Fork(r) ==
  /\ leader[r] = "alive" /\ child[r] = "none" /\ req[r].runtime = "shell"
  /\ \E c \in {"piped", "free"} : child' = [child EXCEPT ![r] = c]
  /\ UNCHANGED <<profile, req, kernel, handler, leader, cut, flows, observed, shared, fails>>

\* It ends by itself, within the grace after SIGTERM, or by SIGKILL.
LeaderExits(r) ==
  /\ leader[r] \in {"alive", "termed"}
  /\ leader' = [leader EXCEPT ![r] = "gone"]
  /\ UNCHANGED <<profile, req, kernel, handler, child, cut, flows, observed, shared, fails>>

ChildExits(r) ==
  /\ child[r] \in {"piped", "free"}
  /\ child' = [child EXCEPT ![r] = "gone"]
  /\ UNCHANGED <<profile, req, kernel, handler, leader, cut, flows, observed, shared, fails>>

\* wait_for(proc.wait(), deadline) times out: only the command is signalled.
Deadline(r) ==
  /\ Running(r) /\ leader[r] = "alive"
  /\ req[r].deadline /\ req[r].runtime = "shell"
  /\ leader' = [leader EXCEPT ![r] = "termed"]
  /\ cut' = [cut EXCEPT ![r] = TRUE]
  /\ UNCHANGED <<profile, req, kernel, handler, child, flows, observed, shared, fails>>

\* One sample of ss -tin in ns1: every socket there, whoever's it is.
Observe(r) ==
  /\ Running(r)
  /\ observed' = [observed EXCEPT ![r] = @ \cup
       {f.cca : f \in UNION {flows[q] : q \in {p \in Requests : Alive(p)}}}]
  /\ UNCHANGED <<profile, req, kernel, handler, leader, child, cut, flows, shared, fails>>

\* The command is gone and its output at an end; the observer is joined for
\* two seconds, and its counts are lost when it is still in an ss.
Return(r) ==
  /\ Running(r)
  /\ leader[r] = "gone" /\ child[r] # "piped"
  /\ \/ Answer(r, "ok") /\ NoFail /\ UNCHANGED observed
     \/ Answer(r, "ok") /\ CountFail /\ observed' = [observed EXCEPT ![r] = {}]
     \/ Answer(r, "500") /\ CountFail /\ UNCHANGED observed
  /\ UNCHANGED <<profile, req, kernel, state, seen, deferred, leader, child, cut, flows, shared>>

-----------------------------------------------------------------------------
Handle(r) ==
  \/ Begin(r) \/ ShapeLink(r) \/ EnsureLoaded(r) \/ ReadAvailable(r)
  \/ WidenAllowed(r) \/ SetCurrent(r) \/ StartWorkflow(r) \/ Return(r)

Process(r) ==
  \/ OpenSocket(r) \/ Fork(r) \/ LeaderExits(r) \/ ChildExits(r)
  \/ Deadline(r) \/ Observe(r)

Next == \E r \in Requests : Handle(r) \/ Process(r)

Spec == Init /\ [][Next]_vars

-----------------------------------------------------------------------------
(* What must hold *)

Covers(r, n) == req[r].scope \in {"all", n}

\* Where the kernel lets the worker make r's algorithm the default of ns1: it
\* always allows it, or r's commands include one that widens the list from the
\* host's namespace.
Permitted(r) ==
  Alg(r) \in Default \/ (HostNet /\ (LocalCode \/ req[r].scope = "all"))

\* While the workflow of a request runs that met no other and nothing a
\* former one left, it has the network it asked for: the bottleneck on every
\* link, which GET /state shows; the default of ns1 is its algorithm, or that
\* was put down as deferred to the shim, which without a failed command
\* happens only where the kernel forbids it, whatever was loaded and allowed
\* before; its sockets use the algorithm, shim or not, unless it was deferred;
\* and its observer has counted no one else's.
SoloRunHasItsNetwork ==
  \A r \in Requests : Running(r) /\ ~shared[r] =>
    /\ req[r].rated =>
         state = r /\ \A l \in ToSet(Links) : shaped[l] = r
    /\ Covers(r, "ns1") =>
         /\ "ns1" \in deferred[r] \/ current["ns1"] = Alg(r)
         /\ fails = 0 /\ Permitted(r) => "ns1" \notin deferred[r]
         /\ "ns1" \notin deferred[r] => \A f \in flows[r] : f.cca = Alg(r)
    /\ observed[r] \subseteq {f.cca : f \in flows[r]}

\* What cca_preload.c says of a command under the shim: its TCP flow uses
\* the requested algorithm regardless of the namespace and of the allowed
\* list.
ShimSticks ==
  \A r \in Requests : \A f \in flows[r] : f.shim => f.cca = Alg(r)
=============================================================================
