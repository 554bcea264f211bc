----------------------------- MODULE ShapeState -----------------------------
(***************************************************************************)
(* POST /shape of a substrate worker                                       *)
(* (services/substrate-worker/src/substrate/main.py): shape, apply_shaping *)
(* and the two verifiers, run by any number of requests at once.           *)
(*                                                                         *)
(* FastAPI runs the handler on a thread pool; nothing orders the tc        *)
(* commands of two requests, nor their accesses to the module globals      *)
(* CURRENT_BOTTLENECK_STATE and CURRENT_INTERFACES, which are always set   *)
(* and cleared together.  A request for which _validate_qdisc_request      *)
(* raises changes nothing and is not modelled; POST /run with rates goes   *)
(* through the same steps.                                                 *)
(***************************************************************************)
EXTENDS Naturals

CONSTANTS
  Requests,  \* requests, no two of which ask for the same bottleneck
  N,         \* distinct interfaces in iface_rates: downstream, upstream, WAN
  Delayed,   \* per request: the namespaces it asks a delay in
  Verifying, \* the requests with verify=true
  Nobody     \* None

\* Devices are visited in order: the HTB interfaces, then veth1 and veth3.
Htb == 1..N
Netem == {N + 1, N + 2}

ASSUME NobodyAssumption == Nobody \notin Requests
ASSUME NAssumption == N \in Nat /\ N >= 2
ASSUME DelayedAssumption == Delayed \in [Requests -> SUBSET Netem]
ASSUME VerifyingAssumption == Verifying \subseteq Requests

VARIABLES
  at,        \* per request: the next command or access of its thread
  dev,       \* per request: the device its thread is at
  root,      \* interfaces with an HTB root
  class,     \* per interface: whose rate its HTB class has
  leaf,      \* per interface: whose qdisc is below the class
  delay,     \* per namespace: whose netem delay it has
  current,   \* CURRENT_BOTTLENECK_STATE
  verified,  \* requests whose BottleneckState says verified
  passed,    \* per request: what its running verifier found
  solo       \* history: the last request, if it never met another one

kernel == <<root, class, leaf, delay>>
vars == <<at, dev, kernel, current, verified, passed, solo>>

Answered == {"ok", "error"}
Steps == {"idle", "del", "root", "class", "leaf", "iperf", "record", "undelay",
          "delay", "ping", "recordPing", "raise"} \cup Answered

Owner == Requests \cup {Nobody}

TypeOK ==
  /\ at \in [Requests -> Steps]
  /\ dev \in [Requests -> 1..(N + 2)]
  /\ root \subseteq Htb
  /\ class \in [Htb -> Owner]
  /\ leaf \in [Htb -> Owner]
  /\ delay \in [Netem -> Owner]
  /\ current \in Owner
  /\ verified \subseteq Requests
  /\ passed \in [Requests -> BOOLEAN]
  /\ solo \in Owner

Init ==
  /\ at = [r \in Requests |-> "idle"]
  /\ dev = [r \in Requests |-> 1]
  /\ root = {}
  /\ class = [i \in Htb |-> Nobody]
  /\ leaf = [i \in Htb |-> Nobody]
  /\ delay = [n \in Netem |-> Nobody]
  /\ current = Nobody
  /\ verified = {}
  /\ passed = [r \in Requests |-> FALSE]
  /\ solo = Nobody

Active == {r \in Requests : at[r] \notin {"idle"} \cup Answered}

Goto(r, from, to) == at[r] = from /\ at' = [at EXCEPT ![r] = to]

-----------------------------------------------------------------------------
\* shape: the global is set before the first command.
Start(r) ==
  /\ Goto(r, "idle", "del")
  /\ current' = r
  /\ solo' = IF Active = {} THEN r ELSE Nobody
  /\ UNCHANGED <<dev, kernel, verified, passed>>

(* apply_shaping.  A command that finds what it adds already there, or what  *)
(* it adds to missing, fails; any command may fail for reasons of its own.   *)

\* A slip: the last interface, the WAN, is left out.
Advance_ForgetsWan(r, from) ==
  /\ dev' = [dev EXCEPT ![r] = IF @ = N - 1 THEN N + 1 ELSE @ + 1]
  /\ Goto(r, from, IF dev[r] < N - 1 THEN "del"
                   ELSE IF dev[r] > N THEN "undelay"
                   ELSE IF r \in Verifying THEN "iperf" ELSE "undelay")

\* The next device: the verifier runs between the HTB and the netem devices.
Advance(r, from) ==
  /\ dev' = [dev EXCEPT ![r] = @ + 1]
  /\ Goto(r, from, IF dev[r] < N THEN "del"
                   ELSE IF dev[r] > N THEN "undelay"
                   ELSE IF r \in Verifying THEN "iperf" ELSE "undelay")

DelRoot(r) ==
  /\ Goto(r, "del", "root")
  /\ root' = root \ {dev[r]}
  /\ class' = [class EXCEPT ![dev[r]] = Nobody]
  /\ leaf' = [leaf EXCEPT ![dev[r]] = Nobody]
  /\ UNCHANGED <<dev, delay, current, verified, passed, solo>>

AddRoot(r) ==
  /\ Goto(r, "root", "class")
  /\ dev[r] \notin root
  /\ root' = root \cup {dev[r]}
  /\ UNCHANGED <<dev, class, leaf, delay, current, verified, passed, solo>>

AddClass(r) ==
  /\ Goto(r, "class", "leaf")
  /\ dev[r] \in root /\ class[dev[r]] = Nobody
  /\ class' = [class EXCEPT ![dev[r]] = r]
  /\ UNCHANGED <<dev, root, leaf, delay, current, verified, passed, solo>>

AddLeaf(r) ==
  /\ Advance(r, "leaf")
  /\ class[dev[r]] # Nobody /\ leaf[dev[r]] = Nobody
  /\ leaf' = [leaf EXCEPT ![dev[r]] = r]
  /\ UNCHANGED <<root, class, delay, current, verified, passed, solo>>

\* The netem devices: delete, then add if the request asks for a delay there.
LastStep(r) == IF r \in Verifying THEN "ping" ELSE "ok"

NextDelay(r, from) ==
  IF dev[r] = N + 1
    THEN dev' = [dev EXCEPT ![r] = N + 2] /\ Goto(r, from, "undelay")
    ELSE UNCHANGED dev /\ Goto(r, from, LastStep(r))

DelDelay(r) ==
  /\ at[r] = "undelay"
  /\ delay' = [delay EXCEPT ![dev[r]] = Nobody]
  /\ \/ dev[r] \in Delayed[r] /\ Goto(r, "undelay", "delay") /\ UNCHANGED dev
     \/ dev[r] \notin Delayed[r] /\ NextDelay(r, "undelay")
  /\ UNCHANGED <<root, class, leaf, current, verified, passed, solo>>

AddDelay(r) ==
  /\ at[r] = "delay" /\ delay[dev[r]] = Nobody
  /\ NextDelay(r, "delay")
  /\ delay' = [delay EXCEPT ![dev[r]] = r]
  /\ UNCHANGED <<root, class, leaf, current, verified, passed, solo>>

\* A slip: the failure of a command passes the except clauses by.
CommandFails_Escapes(r) ==
  /\ \E step \in {"root", "class", "leaf", "delay"} : Goto(r, step, "error")
  /\ UNCHANGED <<dev, kernel, current, verified, passed, solo>>

CommandFails(r) ==
  /\ \E step \in {"root", "class", "leaf", "delay"} : Goto(r, step, "raise")
  /\ UNCHANGED <<dev, kernel, current, verified, passed, solo>>

-----------------------------------------------------------------------------
(* _verify_bottleneck_state and _verify_latency.  Each returns at once when  *)
(* the global is None, measures against what the global says, and then       *)
(* writes into whatever object the global is by then; None has no attribute  *)
(* to write to, which ends the request in the except clause of shape.        *)

RatesOf(r, i) == class[i] = r /\ leaf[i] = r
DelaysOf(r) == \A n \in Netem : delay[n] = IF n \in Delayed[r] THEN r ELSE Nobody

\* iperf3 goes over the downstream and the upstream interface only.
Measure(r, from, skip, to, good) ==
  /\ \/ current = Nobody /\ Goto(r, from, skip) /\ UNCHANGED passed
     \/ /\ current # Nobody /\ Goto(r, from, to)
        /\ \E found \in BOOLEAN : /\ found => good
                                  /\ passed' = [passed EXCEPT ![r] = found]
  /\ UNCHANGED <<dev, kernel, current, verified, solo>>

Iperf(r) ==
  Measure(r, "iperf", "undelay", "record", \A i \in {1, 2} : RatesOf(current, i))

Ping(r) == Measure(r, "ping", "ok", "recordPing", DelaysOf(current))

Record(r) ==
  /\ IF current = Nobody
       THEN Goto(r, "record", "raise") /\ UNCHANGED verified
       ELSE /\ Goto(r, "record", "undelay")
            /\ verified' = IF passed[r] THEN verified \cup {current}
                                        ELSE verified \ {current}
  /\ UNCHANGED <<dev, kernel, current, passed, solo>>

RecordPing(r) ==
  /\ IF current = Nobody
       THEN Goto(r, "recordPing", "raise") /\ UNCHANGED verified
       ELSE /\ Goto(r, "recordPing", "ok")
            /\ verified' = IF passed[r] THEN verified ELSE verified \ {current}
  /\ UNCHANGED <<dev, kernel, current, passed, solo>>

\* shape: the except clauses clear the globals, whoever set them.
Refuse(r) ==
  /\ Goto(r, "raise", "error")
  /\ current' = Nobody
  /\ UNCHANGED <<dev, kernel, verified, passed, solo>>

-----------------------------------------------------------------------------
Next ==
  \E r \in Requests :
    \/ Start(r) \/ DelRoot(r) \/ AddRoot(r) \/ AddClass(r) \/ AddLeaf(r)
    \/ DelDelay(r) \/ AddDelay(r) \/ CommandFails(r)
    \/ Iperf(r) \/ Record(r) \/ Ping(r) \/ RecordPing(r) \/ Refuse(r)

Spec == Init /\ [][Next]_vars

-----------------------------------------------------------------------------
(* Properties.                                                              *)

Applied(r) == (\A i \in Htb : RatesOf(r, i)) /\ DelaysOf(r)

\* A request that meets no other one and answers 200 leaves exactly its own
\* bottleneck on every interface and in GET /state, whatever earlier requests
\* that met or failed half way had left behind.
SoloShapes ==
  \A r \in Requests : solo = r /\ at[r] = "ok" => current = r /\ Applied(r)

\* GET /state answers "no_state" after a request that met no other one failed:
\* what is left on the interfaces is not presented as a bottleneck.
SoloFailureClears ==
  \A r \in Requests : solo = r /\ at[r] = "error" => current = Nobody

\* However requests interleave, GET /state never shows the bottleneck of a
\* request that was refused.
NeverARefusedState ==
  \A r \in Requests : at[r] = "error" => current # r
=============================================================================
