-------------------------- MODULE WorkerRunsProofs --------------------------
(***************************************************************************)
(* Proofs about WorkerRuns, for any requests, algorithms and profiles and  *)
(* any number of failed commands.                                          *)
(***************************************************************************)
EXTENDS WorkerRuns, TLAPS

Phases == {"idle", "shape", "load", "cca", "start", "workflow", "done"}
LinkNames == {"down", "up", "wan", "veth1", "veth3"}

\* As much of the types as the proofs need: what each phase and process can
\* be, and what every other variable is a function of.
TypeOK ==
  /\ fails \in Nat
  /\ pc \in [Requests -> Phases] /\ step \in [Requests -> Nat]
  /\ leader \in [Requests -> {"none", "alive", "termed", "gone"}]
  /\ child \in [Requests -> {"none", "piped", "free", "gone"}]
  /\ DOMAIN flows = Requests /\ DOMAIN observed = Requests /\ DOMAIN seen = Requests
  /\ DOMAIN deferred = Requests
  /\ DOMAIN shaped = LinkNames /\ DOMAIN current = Namespaces

\* What the kernel allows by itself stays allowed: a list that was read has it.
Defaults ==
  /\ Default \subseteq loaded /\ Default \subseteq allowed
  /\ \A q \in Requests : seen[q] = {} \/ Default \subseteq seen[q]

\* A request that met no other is the only one with a handler or a process.
Alone(r) ==
  Active(r) /\ ~shared[r] => \A q \in Requests \ {r} : ~Active(q) /\ ~Alive(q)

\* Before its workflow a request has no process and no socket.
Unborn(r) ==
  pc[r] \notin {"workflow", "done"} =>
    leader[r] = "none" /\ child[r] = "none" /\ flows[r] = {} /\ observed[r] = {}

\* Shaping goes link by link.
OnALink(r) == pc[r] = "shape" => step[r] \in DOMAIN Links

\* The links before the next one are the request's, and from then on all are.
ShapedSoFar(r) ==
  ~shared[r] /\ req[r].rated =>
    /\ pc[r] = "shape" => \A k \in 1 .. step[r] - 1 : shaped[Links[k]] = r
    /\ pc[r] \in {"shape", "load", "cca", "start", "workflow"} /\ req[r].kind = "run" =>
         state = r
    /\ pc[r] \in {"load", "cca", "start", "workflow"} /\ req[r].kind = "run" =>
         \A k \in DOMAIN Links : shaped[Links[k]] = r

\* /congestion has no workflow.
RunsOnly(r) == pc[r] \in {"shape", "start", "workflow"} => req[r].kind = "run"

\* Nothing is deferred before the first command.
Undeferred(r) == pc[r] \in {"idle", "shape", "load"} => deferred[r] = {}

\* The first commands of r widen the list from the host's namespace.
Lifted(r) == HostNet /\ (LocalCode \/ req[r].scope = "all")

Is(c, o, n) == c.op = o /\ c.ns = n

\* Of the commands before the k-th, the one that sets the default of ns1 has
\* done so or has put it down as deferred.
SetBefore(r, k) ==
  \A i \in 1 .. Len(Commands(r)) :
    i < k /\ Is(Commands(r)[i], "set", "ns1") =>
      current["ns1"] = Alg(r) \/ "ns1" \in deferred[r]

\* How far the lists have got before the k-th, when no command failed.
ListsBefore(r, k) ==
  fails = 0 =>
    /\ Permitted(r) => "ns1" \notin deferred[r]
    /\ Lifted(r) /\ k >= 2 => Alg(r) \in seen[r]
    /\ Lifted(r) /\ k >= 3 => Alg(r) \in allowed

\* A request that covers ns1 and met no other.
Sole(r) == ~shared[r] /\ Covers(r, "ns1")

CcaSoFar(r) ==
  Sole(r) =>
    /\ pc[r] = "cca" =>
         /\ step[r] \in 1 .. Len(Commands(r)) /\ Alg(r) \in loaded
         /\ SetBefore(r, step[r]) /\ ListsBefore(r, step[r])
    /\ pc[r] \in {"start", "workflow"} =>
         /\ current["ns1"] = Alg(r) \/ "ns1" \in deferred[r]
         /\ fails = 0 /\ Permitted(r) => "ns1" \notin deferred[r]

\* The sockets of such a request are of its algorithm when ns1 was not
\* deferred, and those of any that met no other are all its observer has seen.
FlowsOwn(r) ==
  Running(r) /\ ~shared[r] =>
    /\ Covers(r, "ns1") /\ "ns1" \notin deferred[r] => \A f \in flows[r] : f.cca = Alg(r)
    /\ observed[r] \subseteq {f.cca : f \in flows[r]}

Own(r) ==
  /\ Alone(r) /\ Unborn(r) /\ OnALink(r) /\ RunsOnly(r) /\ Undeferred(r)
  /\ ShapedSoFar(r) /\ CcaSoFar(r) /\ FlowsOwn(r)

RunsInv == TypeOK /\ Defaults /\ \A r \in Requests : Own(r)

-----------------------------------------------------------------------------
(* The sequences of the code: the links, and the commands for the namespaces *)

\* u is s followed by t.
Joins(S, u, s, t) ==
  /\ u \in Seq(S)
  /\ Len(u) = Len(s) + Len(t)
  /\ \A i \in 1 .. Len(s) : u[i] = s[i]
  /\ \A i \in 1 .. Len(t) : u[Len(s) + i] = t[i]

LEMMA Concatenation ==
  ASSUME NEW S, NEW s \in Seq(S), NEW t \in Seq(S)
  PROVE  Joins(S, s \o t, s, t)
BY DEF Joins

Steps == [op : {"read", "widen", "set"}, ns : Namespaces]

\* A sequence of commands whose last sets the default of n, and one whose
\* first two widen the list from the root namespace.
SetsLast(c, n) == c \in Seq(Steps) /\ Len(c) >= 3 /\ Is(c[Len(c)], "set", n)
Lifts(c) == Is(c[1], "read", "root") /\ Is(c[2], "widen", "root")

LEMMA OneNamespace ==
  ASSUME NEW n \in Namespaces
  PROVE  /\ SetsLast(NsCommands(n), n)
         /\ LocalCode \/ n = "root" => Lifts(NsCommands(n))
<1> DEFINE l1 == Command("read", "root")
           l2 == Command("widen", "root")
           p == IF LocalCode THEN l1 \o l2 ELSE <<>>
           a == Command("read", n)
           b == Command("widen", n)
           c == Command("set", n)
           u == p \o a
           v == u \o b
           w == v \o c
<1>1. \A o \in {"read", "widen", "set"} : \A m \in Namespaces :
        Command(o, m) \in Seq(Steps) /\ Len(Command(o, m)) = 1 /\ Is(Command(o, m)[1], o, m)
  BY DEF Command, Steps, Is
<1>2. "root" \in Namespaces  BY DEF Namespaces
<1>3. NsCommands(n) = w  BY DEF NsCommands
<1>4. l1 \in Seq(Steps) /\ Len(l1) = 1 /\ Is(l1[1], "read", "root")  BY <1>1, <1>2
<1>5. l2 \in Seq(Steps) /\ Len(l2) = 1 /\ Is(l2[1], "widen", "root")  BY <1>1, <1>2
<1>6. a \in Seq(Steps) /\ Len(a) = 1 /\ Is(a[1], "read", n)  BY <1>1
<1>7. b \in Seq(Steps) /\ Len(b) = 1 /\ Is(b[1], "widen", n)  BY <1>1
<1>8. c \in Seq(Steps) /\ Len(c) = 1 /\ Is(c[1], "set", n)  BY <1>1
<1> HIDE DEF l1, l2, a, b, c, Is
<1>9. /\ p \in Seq(Steps)
      /\ LocalCode => Len(p) = 2 /\ Lifts(p)
      /\ ~LocalCode => Len(p) = 0
  <2>1. CASE LocalCode
    <3>1. Joins(Steps, l1 \o l2, l1, l2)  BY <1>4, <1>5, Concatenation, Zenon
    <3>2. p = l1 \o l2  BY <2>1
    <3> HIDE DEF p
    <3>3. Joins(Steps, p, l1, l2)  BY <3>1, <3>2, Zenon
    <3>4. Len(p) = 2 /\ p[1] = l1[1] /\ p[2] = l2[1] /\ p \in Seq(Steps)
      BY <1>4, <1>5, <3>3 DEF Joins
    <3> QED  BY <1>4, <1>5, <2>1, <3>4 DEF Lifts
  <2>2. CASE ~LocalCode
    BY <2>2
  <2> QED  BY <2>1, <2>2
<1> HIDE DEF p
<1>10. Joins(Steps, u, p, a)  BY <1>6, <1>9, Concatenation, Zenon
<1> HIDE DEF u
<1>11. u \in Seq(Steps)  BY <1>10 DEF Joins
<1>12. Joins(Steps, v, u, b)  BY <1>7, <1>11, Concatenation, Zenon
<1> HIDE DEF v
<1>13. v \in Seq(Steps)  BY <1>12 DEF Joins
<1>14. Joins(Steps, w, v, c)  BY <1>8, <1>13, Concatenation, Zenon
<1> HIDE DEF w
<1>15. Len(p) \in {0, 2}  BY <1>9
<1>16. Len(u) = Len(p) + 1 /\ Len(v) = Len(p) + 2 /\ Len(w) = Len(p) + 3 /\ w \in Seq(Steps)
  BY <1>6, <1>7, <1>8, <1>10, <1>12, <1>14, <1>15 DEF Joins
<1>17. w[Len(w)] = c[1]  BY <1>8, <1>14, <1>15, <1>16 DEF Joins
<1>18. SetsLast(w, n)  BY <1>8, <1>15, <1>16, <1>17 DEF SetsLast
<1>19. w[1] = v[1] /\ w[2] = v[2]  BY <1>14, <1>15, <1>16 DEF Joins
<1>20. CASE LocalCode
  <2>1. Len(p) = 2  BY <1>9, <1>20
  <2>2. u[1] = p[1] /\ u[2] = p[2]  BY <1>10, <2>1 DEF Joins
  <2>3. v[1] = u[1] /\ v[2] = u[2]  BY <1>12, <1>16, <2>1 DEF Joins
  <2>4. Lifts(w)  BY <1>9, <1>19, <1>20, <2>2, <2>3 DEF Lifts
  <2> QED  BY <1>3, <1>18, <2>4
<1>21. CASE ~LocalCode
  <2>1. Len(p) = 0  BY <1>9, <1>21
  <2>2. u[1] = a[1]  BY <1>6, <1>10, <2>1 DEF Joins
  <2>3. v[1] = u[1] /\ v[2] = b[1]  BY <1>7, <1>12, <1>16, <2>1 DEF Joins
  <2>4. n = "root" => Lifts(w)  BY <1>6, <1>7, <1>19, <2>2, <2>3 DEF Lifts
  <2> QED  BY <1>3, <1>18, <1>21, <2>4
<1> QED  BY <1>20, <1>21

\* What the order of the commands is needed for.
Ordered(r) ==
  LET c == Commands(r)
  IN  /\ c \in Seq(Steps) /\ Len(c) >= 3
      /\ \E k \in 1 .. Len(c) : Is(c[k], "set", "ns1")
      /\ Lifted(r) => Lifts(c)

LEMMA CommandsOrdered ==
  ASSUME NEW r \in Requests, Covers(r, "ns1")
  PROVE  Ordered(r)
<1> USE DEF SetsLast
<1>1. CASE req[r].scope = "ns1"
  <2>1. Commands(r) = NsCommands("ns1")  BY <1>1 DEF Commands
  <2>2. "ns1" \in Namespaces  BY DEF Namespaces
  <2> DEFINE c == NsCommands("ns1")
  <2>3. SetsLast(c, "ns1") /\ (LocalCode => Lifts(c))  BY <2>2, OneNamespace
  <2> HIDE DEF c
  <2>4. Len(c) \in 1 .. Len(c)  BY <2>3
  <2> QED  BY <1>1, <2>1, <2>3, <2>4 DEF Ordered, Lifted, c
<1>2. CASE req[r].scope = "all"
  <2> DEFINE a == NsCommands("root")
             b == NsCommands("ns1")
             c == NsCommands("ns2")
             d == a \o b
             e == d \o c
  <2>1. SetsLast(a, "root") /\ Lifts(a) /\ SetsLast(b, "ns1") /\ SetsLast(c, "ns2")
    BY OneNamespace DEF Namespaces
  <2>2. Commands(r) = e  BY <1>2 DEF Commands
  <2> HIDE DEF a, b, c
  <2>3. Joins(Steps, d, a, b)  BY <2>1, Concatenation, Zenon
  <2> HIDE DEF d
  <2>4. d \in Seq(Steps)  BY <2>3 DEF Joins
  <2>5. Joins(Steps, e, d, c)  BY <2>1, <2>4, Concatenation, Zenon
  <2> HIDE DEF e
  <2>6. /\ Len(a) \in Nat /\ Len(b) \in Nat /\ Len(c) \in Nat /\ e \in Seq(Steps)
        /\ Len(d) = Len(a) + Len(b) /\ Len(e) = Len(d) + Len(c)
    BY <2>1, <2>3, <2>5 DEF Joins
  <2>7. d[Len(d)] = b[Len(b)] /\ d[1] = a[1] /\ d[2] = a[2]
    BY <2>1, <2>3, <2>6 DEF Joins
  <2>8. e[Len(d)] = d[Len(d)] /\ e[1] = d[1] /\ e[2] = d[2]
    BY <2>1, <2>5, <2>6 DEF Joins
  <2>9. Len(d) \in 1 .. Len(e) /\ Is(e[Len(d)], "set", "ns1")
    BY <2>1, <2>6, <2>7, <2>8
  <2>10. Lifts(e)  BY <2>1, <2>7, <2>8 DEF Lifts
  <2> QED  BY <2>1, <2>2, <2>6, <2>9, <2>10 DEF Ordered
<1> QED  BY <1>1, <1>2 DEF Covers

LEMMA LinksType ==
  /\ Links \in Seq(LinkNames) /\ Len(Links) \in Nat \ {0}
  /\ DOMAIN Links = 1 .. Len(Links)
  /\ \A k \in DOMAIN Links : Links[k] \in LinkNames
<1>1. Ifaces \in Seq(LinkNames)
  <2>1. CASE profile = "awsWan"  BY <2>1 DEF Ifaces, LinkNames
  <2>2. CASE profile # "awsWan"  BY <2>2 DEF Ifaces, LinkNames
  <2> QED  BY <2>1, <2>2
<1>2. <<"veth1", "veth3">> \in Seq(LinkNames) /\ Len(<<"veth1", "veth3">>) = 2
  BY DEF LinkNames
<1>3. Joins(LinkNames, Links, Ifaces, <<"veth1", "veth3">>)
  BY <1>1, <1>2, Concatenation, Zenon DEF Links
<1>4. Links \in Seq(LinkNames) /\ Len(Links) = Len(Ifaces) + 2  BY <1>2, <1>3 DEF Joins
<1>5. Len(Ifaces) \in Nat  BY <1>1
<1> QED  BY <1>4, <1>5

-----------------------------------------------------------------------------
(* What a step of one request leaves of the others *)

\* What belongs to r stays.
Kept(r) ==
  /\ pc'[r] = pc[r] /\ step'[r] = step[r] /\ seen'[r] = seen[r]
  /\ deferred'[r] = deferred[r]
  /\ leader'[r] = leader[r] /\ child'[r] = child[r]
  /\ flows'[r] = flows[r] /\ observed'[r] = observed[r]

\* What no step undoes.
Forward ==
  /\ profile' = profile /\ req' = req
  /\ fails' = 0 => fails = 0
  /\ \A r \in Requests : ~shared'[r] => ~shared[r]

LEMMA GoesForward ==
  ASSUME TypeOK, NEW q \in Requests, Handle(q) \/ Process(q)
  PROVE  Forward
<1>1. fails' = fails \/ CountFail
  BY DEF Handle, Process, Begin, ShapeLink, EnsureLoaded, ReadAvailable, WidenAllowed,
     SetCurrent, StartWorkflow, Return, OpenSocket, Fork, LeaderExits, ChildExits,
     Deadline, Observe, NoFail
<1>2. profile' = profile /\ req' = req
  BY DEF Handle, Process, Begin, ShapeLink, EnsureLoaded, ReadAvailable, WidenAllowed,
     SetCurrent, StartWorkflow, Return, OpenSocket, Fork, LeaderExits, ChildExits,
     Deadline, Observe
<1>3. shared' = shared \/ Begin(q)
  BY DEF Handle, Process, ShapeLink, EnsureLoaded, ReadAvailable, WidenAllowed,
     SetCurrent, StartWorkflow, Return, OpenSocket, Fork, LeaderExits, ChildExits,
     Deadline, Observe
<1>4. \A r \in Requests : ~shared'[r] => ~shared[r]
  BY <1>3, Zenon DEF Begin
<1>5. fails' = 0 => fails = 0  BY <1>1 DEF CountFail, TypeOK
<1> QED  BY <1>2, <1>4, <1>5 DEF Forward

LEMMA TypeStep ==
  ASSUME TypeOK, NEW q \in Requests, Handle(q) \/ Process(q)
  PROVE  TypeOK' /\ \A r \in Requests \ {q} : Kept(r)
<1> USE DEF TypeOK, Kept, Phases
<1> DEFINE PlaceOK == pc \in [Requests -> Phases] /\ step \in [Requests -> Nat]
<1>0. Next1(q) => PlaceOK' /\ \A r \in Requests \ {q} : pc'[r] = pc[r] /\ step'[r] = step[r]
  <2>1. Next1(q) => \/ step' = [step EXCEPT ![q] = @ + 1] /\ pc' = pc
                    \/ Goto(q, "start")
                    \/ Goto(q, "done")
    BY DEF Next1, Answer
  <2> QED  BY <2>1 DEF Goto
<1> HIDE DEF PlaceOK
<1>1. CASE Begin(q)
  BY <1>1 DEF Begin, Goto, kernel, work
<1>2. CASE ShapeLink(q)
  <2>1. \/ step' = [step EXCEPT ![q] = @ + 1] /\ pc' = pc
        \/ Goto(q, "load")
        \/ Goto(q, "done")
    BY <1>2 DEF ShapeLink, Answer
  <2>2. PlaceOK'  BY <2>1 DEF Goto, PlaceOK
  <2>3. fails' \in Nat  BY <1>2 DEF ShapeLink, NoFail, CountFail
  <2> QED  BY <1>2, <2>1, <2>2, <2>3 DEF ShapeLink, Goto, work, PlaceOK
<1>3. CASE EnsureLoaded(q)
  BY <1>3 DEF EnsureLoaded, Goto, Answer, work, NoFail, CountFail
<1>4. CASE ReadAvailable(q)
  <2>1. fails' \in Nat  BY <1>4 DEF ReadAvailable, NoFail, CountFail
  <2>2. DOMAIN seen' = Requests /\ \A r \in Requests \ {q} : seen'[r] = seen[r]
    BY <1>4 DEF ReadAvailable
  <2> QED  BY <1>4, <1>0, <2>1, <2>2 DEF ReadAvailable, kernel, work, PlaceOK
<1>5. CASE WidenAllowed(q)
  <2>1. fails' \in Nat  BY <1>5 DEF WidenAllowed, NoFail, CountFail
  <2> QED  BY <1>5, <1>0, <2>1 DEF WidenAllowed, work, PlaceOK
<1>6. CASE SetCurrent(q)
  <2>1. fails' \in Nat  BY <1>6 DEF SetCurrent, NoFail, CountFail
  <2>2. DOMAIN deferred' = Requests /\ \A r \in Requests \ {q} : deferred'[r] = deferred[r]
    BY <1>6 DEF SetCurrent
  <2>3. DOMAIN current' = Namespaces  BY <1>6 DEF SetCurrent
  <2> QED  BY <1>6, <1>0, <2>1, <2>2, <2>3 DEF SetCurrent, work, PlaceOK
<1>7. CASE StartWorkflow(q)
  BY <1>7 DEF StartWorkflow, Goto, kernel
<1>8. CASE Return(q)
  BY <1>8 DEF Return, Goto, Answer, kernel, NoFail, CountFail
<1>9. CASE OpenSocket(q)
  BY <1>9 DEF OpenSocket, kernel, handler
<1>10. CASE Fork(q)
  BY <1>10 DEF Fork, kernel, handler
<1>11. CASE LeaderExits(q)
  BY <1>11 DEF LeaderExits, kernel, handler
<1>12. CASE ChildExits(q)
  BY <1>12 DEF ChildExits, kernel, handler
<1>13. CASE Deadline(q)
  BY <1>13 DEF Deadline, kernel, handler
<1>14. CASE Observe(q)
  BY <1>14 DEF Observe, kernel, handler
<1> QED
  BY <1>1, <1>2, <1>3, <1>4, <1>5, <1>6, <1>7, <1>8, <1>9, <1>10, <1>11, <1>12, <1>13,
     <1>14 DEF Handle, Process

\* A step beside a request that had been alone is the arrival of another, and
\* it is alone no more.
LEMMA Disturbed ==
  ASSUME TypeOK, NEW q \in Requests, NEW r \in Requests \ {q}, Alone(r), Active(r),
         ~shared[r], Handle(q) \/ Process(q)
  PROVE  shared'[r]
<1>1. ~Active(q) /\ ~Alive(q)  BY DEF Alone
<1>2. Begin(q)
  BY <1>1 DEF Active, Alive, Running, Handle, Process, ShapeLink, EnsureLoaded,
     ReadAvailable, WidenAllowed, SetCurrent, Op, StartWorkflow, Return, OpenSocket, Fork,
     LeaderExits, ChildExits, Deadline, Observe
<1> QED  BY <1>2, Zenon DEF Begin

LEMMA OthersKeep ==
  ASSUME RunsInv, NEW q \in Requests, NEW r \in Requests \ {q}, Handle(q) \/ Process(q)
  PROVE  Own(r)'
<1>1. Kept(r) /\ Forward /\ TypeOK /\ Own(r)
  BY TypeStep, GoesForward DEF RunsInv
<1>2. Active(r)' => shared'[r]
  <2>1. Active(r)' => Active(r)  BY <1>1 DEF Active, Kept
  <2>2. Active(r) /\ ~shared[r] => shared'[r]  BY <1>1, Disturbed DEF Own
  <2> QED  BY <1>1, <2>1, <2>2 DEF Forward
<1>3. Unborn(r)' /\ OnALink(r)' /\ RunsOnly(r)' /\ Undeferred(r)'
  BY <1>1 DEF Own, Unborn, Undeferred, OnALink, RunsOnly, Kept, Forward, Links, Ifaces
<1>4. Alone(r)' /\ ShapedSoFar(r)'
  BY <1>2 DEF Alone, ShapedSoFar, Active
<1>5. CcaSoFar(r)' /\ FlowsOwn(r)'
  BY <1>2 DEF CcaSoFar, FlowsOwn, Sole, Running, Active
<1> QED  BY <1>3, <1>4, <1>5 DEF Own

-----------------------------------------------------------------------------
(* What a step does to the request that takes it *)

LEMMA KeepsAlone ==
  ASSUME RunsInv, NEW r \in Requests, Handle(r) \/ Process(r)
  PROVE  Alone(r)'
<1>1. \A q \in Requests \ {r} : Kept(q)  BY TypeStep DEF RunsInv
<1>2. \A q \in Requests \ {r} : (Active(q)' <=> Active(q)) /\ (Alive(q)' <=> Alive(q))
  BY <1>1 DEF Kept, Active, Alive
<1>3. CASE Begin(r)
  <2>1. ~shared'[r] => \A q \in Requests \ {r} : ~Active(q) /\ ~Alive(q)
    BY <1>3, Zenon DEF Begin
  <2> QED  BY <1>2, <2>1 DEF Alone
<1>4. CASE ~Begin(r)
  <2>1. shared' = shared
    BY <1>4 DEF Handle, Process, ShapeLink, EnsureLoaded, ReadAvailable, WidenAllowed,
       SetCurrent, StartWorkflow, Return, OpenSocket, Fork, LeaderExits, ChildExits,
       Deadline, Observe
  <2>2. Active(r) \/ pc' = pc
    BY <1>4 DEF Handle, Process, ShapeLink, EnsureLoaded, ReadAvailable, WidenAllowed,
       SetCurrent, Op, StartWorkflow, Return, Running, OpenSocket, Fork, LeaderExits,
       ChildExits, Deadline, Observe, Active, handler
  <2>3. Active(r)' => Active(r)  BY <2>2 DEF Active
  <2>4. Alone(r)  BY DEF RunsInv, Own
  <2> QED  BY <1>2, <2>1, <2>3, <2>4 DEF Alone
<1> QED  BY <1>3, <1>4

\* The moves of a handler from phase to phase.
Moves(r) ==
  \/ UNCHANGED <<pc, step>>
  \/ pc[r] = "idle" /\ Begin(r) /\ pc'[r] \in {"shape", "load"}
  \/ pc[r] = "shape" /\ pc'[r] \in {"shape", "load", "done"}
  \/ pc[r] = "load" /\ pc'[r] \in {"cca", "done"}
  \/ pc[r] = "cca" /\ (pc'[r] = "start" => req[r].kind = "run")
     /\ pc'[r] \in {"cca", "start", "done"}
  \/ pc[r] = "start" /\ pc'[r] = "workflow"
  \/ pc'[r] = "done"

LEMMA HandlerMoves ==
  ASSUME TypeOK, NEW r \in Requests, Handle(r) \/ Process(r)
  PROVE  Moves(r)
<1>1. CASE Process(r)
  BY <1>1 DEF Process, OpenSocket, Fork, LeaderExits, ChildExits, Deadline, Observe,
     handler, Moves
<1>2. CASE Begin(r)
  BY <1>2 DEF TypeOK, Begin, Goto, Moves
<1>3. CASE ShapeLink(r)
  <2>1. pc' = pc \/ Goto(r, "load") \/ Goto(r, "done")  BY <1>3 DEF ShapeLink, Answer
  <2>2. pc[r] = "shape"  BY <1>3 DEF ShapeLink
  <2> QED  BY <2>1, <2>2 DEF TypeOK, Goto, Moves
<1>4. CASE EnsureLoaded(r)
  BY <1>4 DEF TypeOK, EnsureLoaded, Goto, Answer, Moves
<1>5. CASE ReadAvailable(r) \/ WidenAllowed(r) \/ SetCurrent(r)
  <2>1. pc[r] = "cca" /\ Next1(r)
    BY <1>5 DEF ReadAvailable, WidenAllowed, SetCurrent, Op
  <2>2. \/ pc' = pc
        \/ Goto(r, "start") /\ req[r].kind = "run"
        \/ Goto(r, "done")
    BY <2>1 DEF Next1, Answer
  <2> QED  BY <2>1, <2>2 DEF TypeOK, Goto, Moves
<1>6. CASE StartWorkflow(r)
  BY <1>6 DEF TypeOK, StartWorkflow, Goto, Moves
<1>7. CASE Return(r)
  BY <1>7 DEF TypeOK, Return, Goto, Answer, Moves
<1> QED  BY <1>1, <1>2, <1>3, <1>4, <1>5, <1>6, <1>7 DEF Handle

LEMMA LaterPhases ==
  ASSUME NEW r \in Requests, Handle(r) \/ Process(r), ~Begin(r), ~ShapeLink(r)
  PROVE  UNCHANGED <<pc, step>> \/ pc[r] \in {"load", "cca", "start", "workflow"}
<1>1. CASE Process(r)
  BY <1>1 DEF Process, OpenSocket, Fork, LeaderExits, ChildExits, Deadline, Observe, handler
<1>2. CASE Handle(r)
  BY <1>2 DEF Handle, EnsureLoaded, ReadAvailable, WidenAllowed, SetCurrent, Op,
     StartWorkflow, Return, Running
<1> QED  BY <1>1, <1>2

LEMMA KeepsUnborn ==
  ASSUME RunsInv, NEW r \in Requests, Handle(r) \/ Process(r)
  PROVE  Unborn(r)'
<1>1. Unborn(r) /\ Moves(r) /\ TypeOK  BY HandlerMoves DEF RunsInv, Own
<1>2. CASE Begin(r) \/ ShapeLink(r) \/ EnsureLoaded(r) \/ ReadAvailable(r)
           \/ WidenAllowed(r) \/ SetCurrent(r)
  <2>1. UNCHANGED <<leader, child, flows, observed>>
    BY <1>2 DEF Begin, ShapeLink, EnsureLoaded, ReadAvailable, WidenAllowed, SetCurrent,
       work
  <2>2. pc[r] \notin {"workflow", "done"}
    BY <1>2 DEF Begin, ShapeLink, EnsureLoaded, ReadAvailable, WidenAllowed, SetCurrent, Op
  <2> QED  BY <1>1, <2>1, <2>2 DEF Unborn
<1>3. CASE StartWorkflow(r) \/ Return(r)
  <2>1. pc'[r] \in {"workflow", "done"}
    BY <1>1, <1>3 DEF StartWorkflow, Return, Goto, Answer, TypeOK
  <2> QED  BY <2>1 DEF Unborn
<1>4. CASE Process(r)
  <2>1. pc' = pc  BY <1>4 DEF Process, OpenSocket, Fork, LeaderExits, ChildExits, Deadline,
                            Observe, handler
  <2>2. pc[r] \in {"workflow", "done"}
    BY <1>1, <1>4 DEF Process, OpenSocket, Fork, LeaderExits, ChildExits, Deadline, Observe,
       Running, Unborn
  <2> QED  BY <2>1, <2>2 DEF Unborn
<1> QED  BY <1>2, <1>3, <1>4 DEF Handle

LEMMA KeepsOnALink ==
  ASSUME RunsInv, NEW r \in Requests, Handle(r) \/ Process(r)
  PROVE  OnALink(r)' /\ RunsOnly(r)'
<1>1. OnALink(r) /\ RunsOnly(r) /\ Moves(r) /\ TypeOK /\ Forward
  BY HandlerMoves, GoesForward DEF RunsInv, Own
<1>2. Links' = Links  BY <1>1 DEF Forward, Links, Ifaces
<1>3. CASE Begin(r)
  <2>1. step'[r] = 1 /\ (pc'[r] = "shape" => req[r].kind = "run") /\ pc'[r] \in {"shape", "load"}
    BY <1>1, <1>3 DEF Begin, Goto, TypeOK
  <2> QED  BY <1>1, <1>2, <2>1, LinksType DEF OnALink, RunsOnly, Forward
<1>4. CASE ShapeLink(r)
  <2>1. pc'[r] = "shape" => step[r] # Len(Links) /\ step'[r] = step[r] + 1
    BY <1>1, <1>4 DEF ShapeLink, Goto, Answer, TypeOK
  <2>2. OnALink(r)'
    BY <1>1, <1>2, <1>4, <2>1, LinksType DEF OnALink, ShapeLink, TypeOK
  <2>3. pc[r] = "shape"  BY <1>4 DEF ShapeLink
  <2> QED  BY <1>1, <2>2, <2>3 DEF RunsOnly, Forward
<1>5. CASE ~Begin(r) /\ ~ShapeLink(r)
  <2>1. pc'[r] = "shape" => UNCHANGED <<pc, step>>
    BY <1>1, <1>5, LaterPhases DEF Moves
  <2>2. OnALink(r)'  BY <1>1, <1>2, <2>1 DEF OnALink
  <2>3. RunsOnly(r)'  BY <1>1, <1>5, <2>1 DEF RunsOnly, Moves, Forward
  <2> QED  BY <2>2, <2>3
<1> QED  BY <1>3, <1>4, <1>5

LEMMA KeepsShaped ==
  ASSUME RunsInv, NEW r \in Requests, Handle(r) \/ Process(r)
  PROVE  ShapedSoFar(r)'
<1>1. ShapedSoFar(r) /\ Moves(r) /\ TypeOK /\ Forward /\ OnALink(r) /\ RunsOnly(r)
  BY HandlerMoves, GoesForward DEF RunsInv, Own
<1>2. Links' = Links /\ req' = req  BY <1>1 DEF Forward, Links, Ifaces
<1>3. CASE Begin(r)
  <2>1. step'[r] = 1 /\ pc'[r] \in {"shape", "load"}
    BY <1>1, <1>3 DEF Begin, Goto, TypeOK
  <2>2. req[r].kind = "run" /\ req[r].rated => state' = r /\ pc'[r] = "shape"
    BY <1>1, <1>3 DEF Begin, Goto, TypeOK
  <2> QED  BY <1>2, <2>1, <2>2 DEF ShapedSoFar
<1>4. CASE ShapeLink(r)
  <2>1. CASE shaped' = [shaped EXCEPT ![Links[step[r]]] = r] /\ state' = state
    <3>1. Links[step[r]] \in DOMAIN shaped
      BY <1>1, <1>4, LinksType DEF OnALink, ShapeLink, TypeOK
    <3>2. /\ shaped'[Links[step[r]]] = r
          /\ \A l \in LinkNames : shaped[l] = r => shaped'[l] = r
      BY <1>1, <2>1, <3>1 DEF TypeOK
    <3>3. \A k \in DOMAIN Links : shaped[Links[k]] = r => shaped'[Links[k]] = r
      BY <3>2, LinksType
    <3>4. \/ step[r] = Len(Links) /\ pc'[r] # "shape"
          \/ pc'[r] = "shape" /\ step'[r] = step[r] + 1 /\ step[r] # Len(Links)
          \/ pc'[r] = "done"
      BY <1>1, <1>4 DEF ShapeLink, Goto, Answer, TypeOK
    <3>5. step[r] \in 1 .. Len(Links) /\ pc[r] = "shape"
      BY <1>1, <1>4, LinksType DEF OnALink, ShapeLink
    <3>6. ~shared'[r] /\ req[r].rated => \A k \in 1 .. step[r] : shaped'[Links[k]] = r
      BY <1>1, <3>2, <3>3, <3>5, LinksType DEF ShapedSoFar, Forward
    <3>7. ~shared'[r] /\ req[r].rated => state' = r
      BY <1>1, <2>1, <3>5 DEF ShapedSoFar, Forward, RunsOnly
    <3> QED  BY <1>2, <3>4, <3>5, <3>6, <3>7, LinksType DEF ShapedSoFar
  <2>2. CASE Answer(r, "500")
    BY <1>1, <2>2 DEF Answer, Goto, ShapedSoFar, TypeOK
  <2> QED  BY <1>4, <2>1, <2>2 DEF ShapeLink
<1>5. CASE ~Begin(r) /\ ~ShapeLink(r)
  <2>1. UNCHANGED <<shaped, state>>
    BY <1>5 DEF Handle, Process, EnsureLoaded, ReadAvailable, WidenAllowed, SetCurrent,
       StartWorkflow, Return, OpenSocket, Fork, LeaderExits, ChildExits, Deadline, Observe,
       kernel, handler
  <2>2. \/ UNCHANGED <<pc, step>>
        \/ pc[r] \in {"load", "cca", "start"} /\ pc'[r] \in {"cca", "start", "workflow"}
        \/ pc'[r] = "done"
    BY <1>1, <1>5, LaterPhases DEF Moves
  <2> QED  BY <1>1, <1>2, <2>1, <2>2 DEF ShapedSoFar, Forward
<1> QED  BY <1>3, <1>4, <1>5

\* Where Next1 takes a request that still has commands, and one that has not.
LEMMA Advances ==
  ASSUME TypeOK, NEW r \in Requests, Next1(r)
  PROVE  \/ step[r] < Len(Commands(r)) /\ step'[r] = step[r] + 1 /\ pc' = pc
         \/ ~(step[r] < Len(Commands(r))) /\ pc'[r] \in {"start", "done"}
BY DEF TypeOK, Next1, Goto, Answer

LEMMA KeepsUndeferred ==
  ASSUME RunsInv, NEW r \in Requests, Handle(r) \/ Process(r)
  PROVE  Undeferred(r)'
<1>1. Undeferred(r) /\ Moves(r) /\ TypeOK  BY HandlerMoves DEF RunsInv, Own
<1>2. CASE SetCurrent(r)
  <2>1. pc[r] = "cca"  BY <1>2 DEF SetCurrent, Op
  <2> QED  BY <1>1, <2>1 DEF Moves, Undeferred
<1>3. CASE ~SetCurrent(r)
  <2>1. deferred' = deferred
    BY <1>3 DEF Handle, Process, Begin, ShapeLink, EnsureLoaded, ReadAvailable, WidenAllowed,
       StartWorkflow, Return, OpenSocket, Fork, LeaderExits, ChildExits, Deadline, Observe,
       handler
  <2>2. UNCHANGED <<pc, step>> \/ pc[r] \in {"idle", "shape", "load"}
        \/ pc'[r] \notin {"idle", "shape", "load"}
    BY <1>1 DEF Moves
  <2> QED  BY <1>1, <2>1, <2>2 DEF Undeferred
<1> QED  BY <1>2, <1>3

LEMMA KeepsDefaults ==
  ASSUME RunsInv, NEW q \in Requests, Handle(q) \/ Process(q)
  PROVE  Defaults'
<1>1. TypeOK /\ Defaults  BY DEF RunsInv
<1>2. CASE EnsureLoaded(q)
  <2>1. loaded \subseteq loaded' /\ UNCHANGED <<allowed, seen>>  BY <1>2 DEF EnsureLoaded
  <2> QED  BY <1>1, <2>1 DEF Defaults
<1>3. CASE ReadAvailable(q)
  <2>1. UNCHANGED <<loaded, allowed>>  BY <1>3 DEF ReadAvailable, kernel
  <2>2. \A p \in Requests : seen'[p] \in {seen[p], loaded, {}}
    BY <1>1, <1>3 DEF ReadAvailable, TypeOK
  <2> QED  BY <1>1, <2>1, <2>2 DEF Defaults
<1>4. CASE WidenAllowed(q)
  <2>1. UNCHANGED <<loaded, seen>>  BY <1>4 DEF WidenAllowed
  <2>2. allowed' = allowed \/ (allowed' = seen[q] /\ seen[q] # {})
    BY <1>4 DEF WidenAllowed, Widened
  <2> QED  BY <1>1, <2>1, <2>2 DEF Defaults
<1>5. CASE ~EnsureLoaded(q) /\ ~ReadAvailable(q) /\ ~WidenAllowed(q)
  <2>1. UNCHANGED <<loaded, allowed, seen>>
    BY <1>5 DEF Handle, Process, Begin, ShapeLink, SetCurrent, StartWorkflow, Return,
       OpenSocket, Fork, LeaderExits, ChildExits, Deadline, Observe, kernel, handler
  <2> QED  BY <1>1, <2>1 DEF Defaults
<1> QED  BY <1>2, <1>3, <1>4, <1>5

\* A request alone goes through its commands: the lists come before the
\* default, and the default of ns1 once set is not set to another.
LEMMA Commanded ==
  ASSUME TypeOK, Defaults, NEW r \in Requests, Sole(r), CcaSoFar(r),
         ReadAvailable(r) \/ WidenAllowed(r) \/ SetCurrent(r),
         NEW k, k = step[r] + 1
  PROVE  SetBefore(r, k)' /\ ListsBefore(r, k)' /\ loaded' = loaded
<1> DEFINE c == Commands(r)
           i == step[r]
<1>1. /\ pc[r] = "cca" /\ UNCHANGED <<profile, req, loaded>>
      /\ fails' \in Nat /\ (fails' = 0 => fails = 0 /\ NoFail /\ ~CountFail)
  BY DEF ReadAvailable, WidenAllowed, SetCurrent, Op, kernel, TypeOK, NoFail, CountFail
<1>2. i \in 1 .. Len(c) /\ Alg(r) \in loaded /\ SetBefore(r, i) /\ ListsBefore(r, i)
  BY <1>1 DEF CcaSoFar
<1>3. Ordered(r)  BY CommandsOrdered DEF Sole
<1>4. /\ Commands(r)' = c /\ Alg(r)' = Alg(r) /\ Lifted(r)' = Lifted(r)
      /\ Permitted(r)' = Permitted(r) /\ LocalCode' = LocalCode
  BY <1>1 DEF Commands, NsCommands, Alg, Lifted, Permitted, LocalCode, HostNet
<1>5. /\ c \in Seq(Steps) /\ Len(c) \in Nat /\ c[i] \in Steps /\ i \in Nat /\ i >= 1
      /\ Lifted(r) => Lifts(c)
  BY <1>2, <1>3 DEF Ordered
<1> HIDE DEF c
<1>6. CASE ReadAvailable(r)
  <2>1. c[i].op = "read" /\ UNCHANGED <<allowed, current, deferred>>
    BY <1>6 DEF ReadAvailable, Op, kernel, c
  <2>2. fails' = 0 => seen'[r] = loaded  BY <1>1, <1>6 DEF ReadAvailable, TypeOK
  <2>3. SetBefore(r, k)'
    BY <1>2, <1>4, <1>5, <2>1 DEF SetBefore, Is, c
  <2>4. Lifted(r) /\ k >= 3 => i >= 3
    BY <1>5, <2>1 DEF Lifts, Is
  <2>5. ListsBefore(r, k)'
    BY <1>1, <1>2, <1>4, <2>1, <2>2, <2>4 DEF ListsBefore
  <2> QED  BY <1>1, <2>3, <2>5
<1>7. CASE WidenAllowed(r)
  <2>1. c[i].op = "widen" /\ UNCHANGED <<seen, current, deferred>>
    BY <1>7 DEF WidenAllowed, Op, c
  <2>2. fails' = 0 => allowed' = Widened(c[i].ns, seen[r])
    BY <1>1, <1>7 DEF WidenAllowed, Ns, c
  <2>3. SetBefore(r, k)'
    BY <1>2, <1>4, <1>5, <2>1 DEF SetBefore, Is, c
  <2>4. Lifted(r) => i >= 2
    <3>1. Lifted(r) => i # 1  BY <1>5, <2>1 DEF Lifts, Is
    <3> QED  BY <1>5, <3>1
  <2>5. Lifted(r) /\ i = 2 => IsInit(c[i].ns)
    BY <1>5 DEF Lifts, Is, IsInit, Lifted
  <2>6. fails' = 0 /\ Lifted(r) => Alg(r) \in seen[r] /\ Alg(r) \in allowed'
    BY <1>1, <1>2, <1>5, <2>2, <2>4, <2>5 DEF ListsBefore, Widened
  <2>7. ListsBefore(r, k)'
    BY <1>1, <1>2, <1>4, <2>1, <2>6 DEF ListsBefore
  <2> QED  BY <1>1, <2>3, <2>7
<1>8. CASE SetCurrent(r)
  <2>1. c[i].op = "set" /\ UNCHANGED <<seen, allowed>>
    BY <1>8 DEF SetCurrent, Op, c
  <2>2. c[i].ns \in Namespaces  BY <1>5 DEF Steps
  <2>3. \/ current' = [current EXCEPT ![c[i].ns] = Alg(r)] /\ deferred' = deferred
        \/ /\ deferred' = [deferred EXCEPT ![r] = @ \cup {c[i].ns}] /\ current' = current
           /\ fails' = 0 => ~IsInit(c[i].ns) /\ Alg(r) \notin allowed
    BY <1>1, <1>8 DEF SetCurrent, Ns, c
  <2>4. /\ current["ns1"] = Alg(r) => current'["ns1"] = Alg(r)
        /\ "ns1" \in deferred[r] => "ns1" \in deferred'[r]
        /\ c[i].ns = "ns1" => current'["ns1"] = Alg(r) \/ "ns1" \in deferred'[r]
    BY <2>2, <2>3 DEF TypeOK, Namespaces
  <2>5. SetBefore(r, k)'
    BY <1>2, <1>4, <1>5, <2>4 DEF SetBefore, Is, c
  <2>6. Lifted(r) => i >= 3
    <3>1. Lifted(r) => i # 1 /\ i # 2  BY <1>5, <2>1 DEF Lifts, Is
    <3> QED  BY <1>5, <3>1
  <2>7. fails' = 0 /\ Permitted(r) => Alg(r) \in allowed
    BY <1>1, <1>2, <2>6 DEF ListsBefore, Permitted, Lifted, Defaults
  <2>8. fails' = 0 /\ Permitted(r) => deferred'[r] = deferred[r]
    BY <2>3, <2>7
  <2>9. ListsBefore(r, k)'
    BY <1>1, <1>2, <1>4, <2>1, <2>6, <2>8 DEF ListsBefore
  <2> QED  BY <1>1, <2>5, <2>9
<1> QED  BY <1>6, <1>7, <1>8

LEMMA KeepsCca ==
  ASSUME RunsInv, NEW r \in Requests, Handle(r) \/ Process(r)
  PROVE  CcaSoFar(r)'
<1>1. CcaSoFar(r) /\ Moves(r) /\ TypeOK /\ Forward /\ Defaults /\ Undeferred(r)
  BY HandlerMoves, GoesForward DEF RunsInv, Own
<1>2. /\ req' = req /\ profile' = profile /\ Alg(r)' = Alg(r) /\ Commands(r)' = Commands(r)
      /\ Permitted(r)' = Permitted(r) /\ Lifted(r)' = Lifted(r)
  BY <1>1 DEF Forward, Alg, Commands, NsCommands, Permitted, Lifted, LocalCode, HostNet
<1> SUFFICES ASSUME Sole(r)'
             PROVE  /\ pc'[r] = "cca" =>
                         /\ step'[r] \in 1 .. Len(Commands(r)) /\ Alg(r) \in loaded'
                         /\ SetBefore(r, step[r])' /\ ListsBefore(r, step[r])'
                    /\ pc'[r] \in {"start", "workflow"} =>
                         /\ current'["ns1"] = Alg(r) \/ "ns1" \in deferred'[r]
                         /\ fails' = 0 /\ Permitted(r) => "ns1" \notin deferred'[r]
  BY <1>2 DEF CcaSoFar
<1>3. Sole(r) /\ (fails' = 0 => fails = 0)
  BY <1>1, <1>2 DEF Sole, Forward, Covers
<1>4. Ordered(r)  BY <1>3, CommandsOrdered DEF Sole
<1>5. CASE Begin(r) \/ ShapeLink(r)
  <2>1. Begin(r) => pc'[r] \in {"shape", "load"}  BY <1>1 DEF Begin, Goto, TypeOK
  <2>2. ShapeLink(r) => pc[r] = "shape"  BY DEF ShapeLink
  <2>3. pc'[r] \in {"shape", "load", "done"}  BY <1>1, <1>5, <2>1, <2>2 DEF Moves
  <2> QED  BY <2>3
<1>6. CASE EnsureLoaded(r)
  <2>1. pc'[r] \in {"cca", "done"} /\ pc[r] = "load" /\ deferred' = deferred
    BY <1>1, <1>6 DEF EnsureLoaded, Goto, Answer, TypeOK
  <2>2. deferred'[r] = {}  BY <1>1, <2>1 DEF Undeferred
  <2>3. ASSUME pc'[r] = "cca"
        PROVE  step'[r] = 1 /\ Alg(r) \in loaded'
    BY <1>1, <1>6, <2>3 DEF EnsureLoaded, Goto, Answer, TypeOK
  <2>4. 1 \in 1 .. Len(Commands(r))  BY <1>4 DEF Ordered
  <2>5. ASSUME pc'[r] = "cca" PROVE SetBefore(r, step[r])'
    BY <2>3, <2>5 DEF SetBefore
  <2>6. ASSUME pc'[r] = "cca" PROVE ListsBefore(r, step[r])'
    BY <2>2, <2>3, <2>6 DEF ListsBefore
  <2> QED  BY <2>1, <2>3, <2>4, <2>5, <2>6
<1>7. CASE ReadAvailable(r) \/ WidenAllowed(r) \/ SetCurrent(r)
  <2>1. pc[r] = "cca" /\ Next1(r)
    BY <1>7 DEF ReadAvailable, WidenAllowed, SetCurrent, Op
  <2>2. step[r] \in 1 .. Len(Commands(r)) /\ Alg(r) \in loaded
    BY <1>1, <1>3, <2>1 DEF CcaSoFar
  <2>3. PICK k : k = step[r] + 1  OBVIOUS
  <2>4. SetBefore(r, k)' /\ ListsBefore(r, k)' /\ loaded' = loaded
    BY <1>1, <1>3, <1>7, <2>3, Commanded
  <2>5. CASE step[r] < Len(Commands(r)) /\ step'[r] = step[r] + 1 /\ pc' = pc
    <3>1. step'[r] = k /\ step'[r] \in 1 .. Len(Commands(r))  BY <2>2, <2>3, <2>5
    <3>2. SetBefore(r, step[r])' /\ ListsBefore(r, step[r])'
      BY <2>4, <3>1 DEF SetBefore, ListsBefore
    <3> QED  BY <2>1, <2>2, <2>4, <2>5, <3>1, <3>2
  <2>6. CASE ~(step[r] < Len(Commands(r))) /\ pc'[r] \in {"start", "done"}
    <3>1. Len(Commands(r)) \in Nat  BY <1>4 DEF Ordered
    <3>2. \A j \in 1 .. Len(Commands(r)) : j < k  BY <2>2, <2>3, <2>6, <3>1
    <3>3. PICK j \in 1 .. Len(Commands(r)) : Is(Commands(r)[j], "set", "ns1")
      BY <1>4 DEF Ordered
    <3>4. current'["ns1"] = Alg(r) \/ "ns1" \in deferred'[r]
      BY <1>2, <2>4, <3>2, <3>3 DEF SetBefore
    <3>5. fails' = 0 /\ Permitted(r) => "ns1" \notin deferred'[r]
      BY <1>2, <2>4 DEF ListsBefore
    <3> QED  BY <2>6, <3>4, <3>5
  <2> QED  BY <1>1, <2>1, <2>5, <2>6, Advances
<1>8. CASE StartWorkflow(r) \/ Return(r)
  <2>1. /\ pc[r] \in {"start", "workflow"} /\ pc'[r] \in {"workflow", "done"}
        /\ UNCHANGED <<current, deferred>>
    BY <1>1, <1>8 DEF StartWorkflow, Return, Running, Goto, Answer, kernel, TypeOK
  <2> QED  BY <1>1, <1>3, <2>1 DEF CcaSoFar
<1>9. CASE Process(r)
  <2>1. UNCHANGED <<pc, step, seen, deferred, loaded, allowed, current, fails>>
    BY <1>9 DEF Process, OpenSocket, Fork, LeaderExits, ChildExits, Deadline, Observe,
       kernel, handler
  <2> QED  BY <1>1, <1>2, <1>3, <2>1 DEF CcaSoFar, SetBefore, ListsBefore
<1> QED  BY <1>5, <1>6, <1>7, <1>8, <1>9 DEF Handle

LEMMA KeepsFlows ==
  ASSUME RunsInv, NEW r \in Requests, Handle(r) \/ Process(r)
  PROVE  FlowsOwn(r)'
<1>1. FlowsOwn(r) /\ CcaSoFar(r) /\ Unborn(r) /\ Alone(r) /\ Moves(r) /\ TypeOK /\ Forward
  BY HandlerMoves, GoesForward DEF RunsInv, Own
<1> SUFFICES ASSUME pc'[r] = "workflow", ~shared'[r]
             PROVE  /\ Covers(r, "ns1") /\ "ns1" \notin deferred'[r] =>
                         \A f \in flows'[r] : f.cca = Alg(r)
                    /\ observed'[r] \subseteq {f.cca : f \in flows'[r]}
  BY <1>1 DEF FlowsOwn, Running, Forward, Alg, Covers
<1>2. ~shared[r]  BY <1>1 DEF Forward
<1>3. CASE Handle(r)
  <2>1. pc[r] \notin {"workflow", "done"} /\ UNCHANGED <<flows, observed>>
    <3>1. ~Return(r)  BY <1>1 DEF Return, Answer, Goto, TypeOK
    <3> QED  BY <1>3, <3>1 DEF Handle, Begin, ShapeLink, EnsureLoaded, ReadAvailable,
                WidenAllowed, SetCurrent, Op, StartWorkflow, work
  <2> QED  BY <1>1, <2>1 DEF Unborn
<1>4. CASE Process(r)
  <2>1. pc[r] = "workflow" /\ deferred' = deferred
    BY <1>4 DEF Process, OpenSocket, Fork, LeaderExits, ChildExits, Deadline, Observe,
       handler
  <2>2. /\ Covers(r, "ns1") /\ "ns1" \notin deferred'[r] =>
             (\A f \in flows[r] : f.cca = Alg(r)) /\ current["ns1"] = Alg(r)
        /\ observed[r] \subseteq {f.cca : f \in flows[r]}
    BY <1>1, <1>2, <2>1 DEF FlowsOwn, Running, CcaSoFar, Sole
  <2>3. CASE OpenSocket(r)
    <3>1. observed' = observed  BY <2>3 DEF OpenSocket
    <3>2. PICK shim \in BOOLEAN : flows' = [flows EXCEPT ![r] = @ \cup
            {[shim |-> shim,
              cca |-> IF shim /\ req[r].exact THEN Alg(r) ELSE current["ns1"]]}]
      BY <2>3 DEF OpenSocket
    <3>3. flows'[r] = flows[r] \cup
            {[shim |-> shim,
              cca |-> IF shim /\ req[r].exact THEN Alg(r) ELSE current["ns1"]]}
      BY <1>1, <3>2 DEF TypeOK
    <3>4. Covers(r, "ns1") /\ "ns1" \notin deferred'[r] => \A f \in flows'[r] : f.cca = Alg(r)
      BY <2>2, <3>3
    <3> QED  BY <2>2, <3>1, <3>3, <3>4
  <2>4. CASE Observe(r)
    <3>1. flows' = flows  BY <2>4 DEF Observe
    <3>2. observed'[r] = observed[r] \cup
            {f.cca : f \in UNION {flows[q] : q \in {p \in Requests : Alive(p)}}}
      BY <1>1, <2>4 DEF Observe, TypeOK
    <3>3. \A p \in Requests : Alive(p) => p = r
      BY <1>1, <1>2, <2>1 DEF Alone, Active
    <3>4. UNION {flows[q] : q \in {p \in Requests : Alive(p)}} \subseteq flows[r]
      BY <3>3
    <3> QED  BY <2>2, <3>1, <3>2, <3>4
  <2>5. CASE ~OpenSocket(r) /\ ~Observe(r)
    <3>1. UNCHANGED <<flows, observed>>
      BY <1>4, <2>5 DEF Process, Fork, LeaderExits, ChildExits, Deadline
    <3> QED  BY <2>2, <3>1
  <2> QED  BY <2>3, <2>4, <2>5
<1> QED  BY <1>3, <1>4

-----------------------------------------------------------------------------
(* The theorems *)

LEMMA InitRunsInv ==
  ASSUME Init
  PROVE  RunsInv
<1>1. TypeOK  BY DEF Init, TypeOK, Phases, LinkNames
<1>2. ASSUME NEW r \in Requests PROVE Own(r)
  <2>1. pc[r] = "idle" /\ leader[r] = "none" /\ child[r] = "none" /\ flows[r] = {}
        /\ observed[r] = {} /\ deferred[r] = {}
    BY DEF Init
  <2> QED  BY <2>1 DEF Own, Alone, Unborn, Undeferred, OnALink, RunsOnly, ShapedSoFar, CcaSoFar,
                       FlowsOwn, Active, Running
<1>3. Defaults  BY DefaultAssumption DEF Init, Defaults
<1> QED  BY <1>1, <1>2, <1>3 DEF RunsInv

LEMMA StepRunsInv ==
  ASSUME RunsInv, NEW q \in Requests, Handle(q) \/ Process(q)
  PROVE  RunsInv'
<1>1. TypeOK'  BY TypeStep DEF RunsInv
<1>2. ASSUME NEW r \in Requests PROVE Own(r)'
  <2>1. CASE r = q
    BY <2>1, KeepsAlone, KeepsUnborn, KeepsOnALink, KeepsUndeferred, KeepsShaped, KeepsCca,
       KeepsFlows
       DEF Own
  <2>2. CASE r # q
    BY <2>2, OthersKeep
  <2> QED  BY <2>1, <2>2
<1>3. Defaults'  BY KeepsDefaults
<1> QED  BY <1>1, <1>2, <1>3 DEF RunsInv

\* The invariant: what the kernel allows by itself stays allowed, a request
\* that met no other is the only one there is, and the links, the lists and
\* the default of ns1 are as far as its next command says.
THEOREM Invariant == Spec => []RunsInv
<1>1. Init => RunsInv  BY InitRunsInv
<1>2. RunsInv /\ [Next]_vars => RunsInv'
  <2>1. ASSUME RunsInv, Next PROVE RunsInv'
    BY <2>1, StepRunsInv DEF Next
  <2>2. ASSUME RunsInv, UNCHANGED vars PROVE RunsInv'
    <3>1. TypeOK'  BY <2>2 DEF RunsInv, TypeOK, vars, kernel, handler, work
    <3>2. ASSUME NEW r \in Requests PROVE Own(r)'
      <4>1. Own(r)  BY <2>2 DEF RunsInv
      <4>2. /\ Links' = Links /\ Commands(r)' = Commands(r) /\ Active(r)' = Active(r)
            /\ Permitted(r)' = Permitted(r) /\ Lifted(r)' = Lifted(r) /\ Sole(r)' = Sole(r)
            /\ Covers(r, "ns1")' = Covers(r, "ns1")
        BY <2>2 DEF Links, Ifaces, Commands, NsCommands, Active, Permitted, Lifted, LocalCode,
                    HostNet, Alg, Sole, Covers, vars, kernel, handler, work
      <4>3. Alone(r)' /\ Unborn(r)' /\ OnALink(r)' /\ RunsOnly(r)' /\ ShapedSoFar(r)'
        BY <2>2, <4>1, <4>2 DEF Own, Alone, Unborn, OnALink, RunsOnly, ShapedSoFar, Active,
                                Alive, vars, kernel, handler, work
      <4>4. CcaSoFar(r)' /\ Undeferred(r)'
        BY <2>2, <4>1, <4>2 DEF Own, Undeferred, CcaSoFar, SetBefore, ListsBefore, Alg, vars,
                                kernel, handler, work
      <4>5. FlowsOwn(r)'
        BY <2>2, <4>1, <4>2 DEF Own, FlowsOwn, Running, Alg, vars, kernel, handler, work
      <4> QED  BY <4>3, <4>4, <4>5 DEF Own
    <3>3. Defaults'  BY <2>2 DEF RunsInv, Defaults, vars, kernel, handler
    <3> QED  BY <3>1, <3>2, <3>3 DEF RunsInv
  <2> QED  BY <2>1, <2>2
<1> QED  BY <1>1, <1>2, PTL DEF Spec

\* A run that met no other request and nothing one left has, while its
\* workflow runs, the bottleneck on every link; the default of ns1 is its
\* algorithm or was put down as deferred, which without a failed command
\* happens only where the kernel forbids it; its sockets are of that algorithm
\* unless it was deferred; and its observer counted no one else's: whatever
\* the requests before it asked for, and wherever they stopped.
THEOREM OwnNetwork == Spec => []SoloRunHasItsNetwork
<1>1. RunsInv => SoloRunHasItsNetwork
  <2> SUFFICES ASSUME RunsInv, NEW r \in Requests, Running(r), ~shared[r]
               PROVE  /\ req[r].rated =>
                           state = r /\ \A l \in ToSet(Links) : shaped[l] = r
                      /\ Covers(r, "ns1") =>
                           /\ "ns1" \in deferred[r] \/ current["ns1"] = Alg(r)
                           /\ fails = 0 /\ Permitted(r) => "ns1" \notin deferred[r]
                           /\ "ns1" \notin deferred[r] => \A f \in flows[r] : f.cca = Alg(r)
                      /\ observed[r] \subseteq {f.cca : f \in flows[r]}
    BY DEF SoloRunHasItsNetwork
  <2>1. Own(r) /\ pc[r] = "workflow" /\ req[r].kind = "run"
    BY DEF RunsInv, Own, RunsOnly, Running
  <2>2. req[r].rated => state = r /\ \A l \in ToSet(Links) : shaped[l] = r
    BY <2>1 DEF Own, ShapedSoFar, ToSet
  <2>3. Covers(r, "ns1") =>
          /\ "ns1" \in deferred[r] \/ current["ns1"] = Alg(r)
          /\ fails = 0 /\ Permitted(r) => "ns1" \notin deferred[r]
    BY <2>1 DEF Own, CcaSoFar, Sole
  <2>4. /\ Covers(r, "ns1") /\ "ns1" \notin deferred[r] => \A f \in flows[r] : f.cca = Alg(r)
        /\ observed[r] \subseteq {f.cca : f \in flows[r]}
    BY <2>1 DEF Own, FlowsOwn, Running
  <2> QED  BY <2>2, <2>3, <2>4
<1> QED  BY <1>1, Invariant, PTL
=============================================================================
