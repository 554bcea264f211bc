------------------------------ MODULE AwsCloud ------------------------------
(***************************************************************************)
(* Workers on EC2.  The workflow threads of one orchestrator share an      *)
(* AWSBackend: the first create_worker provisions what every worker needs  *)
(* (key pair, security group, IAM profile, repository with the image), and *)
(* nothing keeps a second thread from doing so at the same time.  The      *)
(* setup and teardown commands do the same from a process of their own.    *)
(* Resources have fixed names, except the security group, which has an id. *)
(* What exists in the account is in aws; an AWS call is one step.  A call  *)
(* that launches or terminates an instance may fail before or after it has *)
(* taken effect; any other that fails has changed nothing.                 *)
(***************************************************************************)
EXTENDS Naturals, Sequences, FiniteSets

CONSTANTS
  Threads,      \* workflow threads of the orchestrator
  Tools,        \* processes that run a setup or teardown command
  MaxWorkers,   \* bound: instances launched
  MaxTools,     \* bound: commands run
  MaxFails      \* bound: AWS and docker calls that fail

ASSUME CloudAssumption ==
  /\ Threads \cap Tools = {}
  /\ MaxWorkers \in Nat /\ MaxTools \in Nat /\ MaxFails \in Nat

Procs == Threads \cup Tools

VARIABLES
  aws,          \* key, sg, role, profile and repo of the account
  pem,          \* the private key on disk: the key pair it is of, 0 without
  cache,        \* the cache file: the security group's id, 0 without an entry
  config,       \* AWSBackend._config and _docker_ami_id, set or not
  provisioned,  \* AWSBackend._provisioned
  inst,         \* the instances, by id
  workers,      \* AWSBackend._workers: the instances of the registered workers
  pc,           \* per process: its next step
  newKey,       \* per process: the key pair it has made and not written, or 0
  group,        \* per process: the security group it has found or made, or 0
  hold,         \* per process: the instance it has launched, or 0
  tools,        \* how many commands were run
  fails,        \* how many calls failed
  scar,         \* a call failed that no later setup makes up for
  raced,        \* two of setup, teardown and provisioning overlapped
  keep          \* ORCH_KEEP_WORKER: workers are not destroyed after their run

cloudVars == <<aws, pem, cache, config, provisioned, inst, workers, pc, newKey,
               group, hold, tools, fails, scar, raced, keep>>
backend == <<config, provisioned>>
fleet == <<inst, workers, keep>>
trouble == <<fails, scar>>
held == <<newKey, group, hold>>

NoSg == [id |-> 0, open |-> FALSE]

CloudInit ==
  /\ aws = [key |-> 0, sg |-> NoSg, role |-> "none", profile |-> "none", repo |-> "none"]
  /\ pem = 0 /\ cache = 0
  /\ config = [ecr |-> FALSE, sg |-> 0, key |-> FALSE, profile |-> FALSE, ami |-> FALSE]
  /\ provisioned = FALSE
  /\ inst = <<>> /\ workers = {} /\ keep \in BOOLEAN
  /\ pc = [p \in Procs |-> "idle"]
  /\ newKey = [p \in Procs |-> 0] /\ group = [p \in Procs |-> 0] /\ hold = [p \in Procs |-> 0]
  /\ tools = 0 /\ fails = 0 /\ scar = FALSE /\ raced = FALSE

-----------------------------------------------------------------------------
At(p, step) == pc[p] = step
Step(p, next) == pc' = [pc EXCEPT ![p] = next]
Go(p, next) == Step(p, next) /\ UNCHANGED held
Raise(p) ==
  /\ Step(p, "idle")
  /\ newKey' = [newKey EXCEPT ![p] = 0]
  /\ group' = [group EXCEPT ![p] = 0]
  /\ hold' = [hold EXCEPT ![p] = 0]

Ensuring == {"validate", "key", "newKey", "pem", "sg", "newSg", "ingress", "profile",
             "role", "policy", "newProfile", "addRole", "repo", "push", "save"}
Tearing == {"tearRepo", "tearSg", "tearKey", "tearRole", "tearProfile",
            "tearPolicy", "tearIam", "tearCache"}
Provisioning == {p \in Procs : pc[p] \in Ensuring \cup Tearing}

\* A call fails and its exception ends the whole of ensure_infrastructure.
\* What was made stays; after some steps no later setup completes it, since it
\* takes what has the name for whole (lines 416, 489).
Fail(p) ==
  /\ pc[p] \in Ensuring \ {"validate"} /\ fails < MaxFails
  /\ fails' = fails + 1
  /\ scar' = (scar \/ pc[p] \in {"ingress", "addRole"})
  /\ Raise(p)
  /\ UNCHANGED <<aws, pem, cache, backend, fleet, tools, raced>>

(***************************************************************************)
(* ensure_infrastructure()                                                 *)
(***************************************************************************)

\* The provisioner loads the cache file; a cached entry whose repository and
\* security group are there is the result.  A look-up that fails is taken for
\* an entry gone stale.
Validate(p) ==
  /\ At(p, "validate")
  /\ \/ /\ UNCHANGED fails
        /\ IF cache = 0 \/ aws.repo = "none" \/ aws.sg.id # cache THEN Go(p, "key")
           ELSE IF p \in Tools THEN Raise(p)
           ELSE /\ Step(p, "setEcr") /\ group' = [group EXCEPT ![p] = cache]
                /\ UNCHANGED <<newKey, hold>>
     \/ cache # 0 /\ fails < MaxFails /\ fails' = fails + 1 /\ Go(p, "key")
  /\ UNCHANGED <<aws, pem, cache, backend, fleet, tools, scar, raced>>

\* _ensure_key_pair(): a key pair without its private key is deleted first.
EnsureKey(p) ==
  /\ At(p, "key")
  /\ IF aws.key # 0 /\ pem # 0 THEN Go(p, "sg") /\ UNCHANGED aws
     ELSE Go(p, "newKey") /\ aws' = [aws EXCEPT !.key = 0]
  /\ UNCHANGED <<pem, cache, backend, fleet, tools, trouble, raced>>

\* A key pair of that name, made by another in the meantime, is an error.
CreateKey(p) ==
  LET new == 1 + (IF pem = 1 \/ \E q \in Procs : newKey[q] = 1 THEN 1 ELSE 0)
  IN  /\ At(p, "newKey")
      /\ IF aws.key # 0 THEN Raise(p) /\ UNCHANGED aws
         ELSE /\ aws' = [aws EXCEPT !.key = new]
              /\ Step(p, "pem") /\ newKey' = [newKey EXCEPT ![p] = new]
              /\ UNCHANGED <<group, hold>>
      /\ UNCHANGED <<pem, cache, backend, fleet, tools, trouble, raced>>

WritePem(p) ==
  /\ At(p, "pem")
  /\ pem' = newKey[p]
  /\ Step(p, "sg") /\ newKey' = [newKey EXCEPT ![p] = 0]
  /\ UNCHANGED <<group, hold, aws, cache, backend, fleet, tools, trouble, raced>>

\* _ensure_security_group(): one of that name is taken as it is.
EnsureSg(p) ==
  /\ At(p, "sg")
  /\ Step(p, IF aws.sg.id # 0 THEN "profile" ELSE "newSg")
  /\ group' = [group EXCEPT ![p] = aws.sg.id]
  /\ UNCHANGED <<newKey, hold, aws, pem, cache, backend, fleet, tools, trouble, raced>>

CreateSg(p) ==
  LET new == 1 + (IF cache = 1 \/ config.sg = 1 \/ \E q \in Procs : group[q] = 1 THEN 1 ELSE 0)
  IN  /\ At(p, "newSg")
      /\ IF aws.sg.id # 0 THEN Raise(p) /\ UNCHANGED aws
         ELSE /\ aws' = [aws EXCEPT !.sg = [id |-> new, open |-> FALSE]]
              /\ Step(p, "ingress") /\ group' = [group EXCEPT ![p] = new]
              /\ UNCHANGED <<newKey, hold>>
      /\ UNCHANGED <<pem, cache, backend, fleet, tools, trouble, raced>>

AuthorizeIngress(p) ==
  /\ At(p, "ingress")
  /\ IF aws.sg.id = group[p] THEN Go(p, "profile") /\ aws' = [aws EXCEPT !.sg.open = TRUE]
     ELSE Raise(p) /\ UNCHANGED aws
  /\ UNCHANGED <<pem, cache, backend, fleet, tools, trouble, raced>>

\* _ensure_instance_profile(): one of that name is taken as it is; when the
\* look-up fails, or finds none, every part is made that is not there.
EnsureProfile(p) ==
  /\ At(p, "profile")
  /\ \/ aws.profile # "none" /\ Go(p, "repo") /\ UNCHANGED fails
     \/ aws.profile = "none" /\ Go(p, "role") /\ UNCHANGED fails
     \/ aws.profile # "none" /\ fails < MaxFails /\ fails' = fails + 1 /\ Go(p, "role")
  /\ UNCHANGED <<aws, pem, cache, backend, fleet, tools, scar, raced>>

CreateRole(p) ==
  /\ At(p, "role")
  /\ aws' = [aws EXCEPT !.role = IF @ = "none" THEN "bare" ELSE @]
  /\ Go(p, "policy")
  /\ UNCHANGED <<pem, cache, backend, fleet, tools, trouble, raced>>

\* A failure to attach is taken for "already attached".
AttachPolicy(p) ==
  /\ At(p, "policy")
  /\ Go(p, "newProfile")
  /\ \/ aws' = [aws EXCEPT !.role = IF @ = "none" THEN @ ELSE "reads"] /\ UNCHANGED trouble
     \/ /\ fails < MaxFails /\ fails' = fails + 1
        /\ scar' = TRUE /\ UNCHANGED aws
  /\ UNCHANGED <<pem, cache, backend, fleet, tools, raced>>

CreateProfile(p) ==
  /\ At(p, "newProfile")
  /\ aws' = [aws EXCEPT !.profile = IF @ = "none" THEN "bare" ELSE @]
  /\ Go(p, "addRole")
  /\ UNCHANGED <<pem, cache, backend, fleet, tools, trouble, raced>>

AddRole(p) ==
  /\ At(p, "addRole")
  /\ IF aws.role = "none" \/ aws.profile = "none" THEN Raise(p) /\ UNCHANGED aws
     ELSE Go(p, "repo") /\ aws' = [aws EXCEPT !.profile = "full"]
  /\ UNCHANGED <<pem, cache, backend, fleet, tools, trouble, raced>>

EnsureRepo(p) ==
  /\ At(p, "repo")
  /\ aws' = [aws EXCEPT !.repo = IF @ = "none" THEN "empty" ELSE @]
  /\ Go(p, "push")
  /\ UNCHANGED <<pem, cache, backend, fleet, tools, trouble, raced>>

\* A slip: the entry is saved before the image is built and pushed.
PushImage_Saves(p) ==
  /\ At(p, "push")
  /\ \/ cache # group[p] /\ cache' = group[p] /\ UNCHANGED <<aws, pc, held>>
     \/ /\ cache = group[p] /\ UNCHANGED cache
        /\ IF aws.repo = "none" THEN Raise(p) /\ UNCHANGED aws
           ELSE Go(p, "save") /\ aws' = [aws EXCEPT !.repo = "image"]
  /\ UNCHANGED <<pem, backend, fleet, tools, trouble, raced>>

\* Log in, build, push: done again whenever the entry is not in the cache.
PushImage(p) ==
  /\ At(p, "push")
  /\ IF aws.repo = "none" THEN Raise(p) /\ UNCHANGED aws
     ELSE Go(p, "save") /\ aws' = [aws EXCEPT !.repo = "image"]
  /\ UNCHANGED <<pem, cache, backend, fleet, tools, trouble, raced>>

Save(p) ==
  /\ At(p, "save")
  /\ cache' = group[p]
  /\ IF p \in Tools THEN Raise(p) ELSE Go(p, "setEcr")
  /\ UNCHANGED <<aws, pem, backend, fleet, tools, trouble, raced>>

(***************************************************************************)
(* teardown(): the deletions of what the cache file names, each of which   *)
(* may fail with a warning, and then the entry goes.  A security group in  *)
(* use cannot be deleted.                                                  *)
(***************************************************************************)
Deletes(p, step, then, new, harm) ==
  /\ At(p, step) /\ Go(p, then)
  /\ \/ aws' = new /\ UNCHANGED trouble
     \/ /\ fails < MaxFails /\ fails' = fails + 1
        /\ scar' = (scar \/ harm) /\ UNCHANGED aws
  /\ UNCHANGED <<cache, backend, fleet, tools, raced>>

InUse(sg) == \E i \in DOMAIN inst : inst[i].is = "up" /\ inst[i].sg = sg

TearRepo(p) == Deletes(p, "tearRepo", "tearSg", [aws EXCEPT !.repo = "none"], FALSE) /\ UNCHANGED pem
TearSg(p) ==
  /\ Deletes(p, "tearSg", "tearKey",
             [aws EXCEPT !.sg = IF @.id = group[p] /\ ~InUse(@.id) THEN NoSg ELSE @], FALSE)
  /\ UNCHANGED pem
TearKey(p) ==
  /\ Deletes(p, "tearKey", "tearRole", [aws EXCEPT !.key = 0], FALSE)
  /\ pem' = IF fails' = fails THEN 0 ELSE pem
TearRole(p) ==
  /\ Deletes(p, "tearRole", "tearProfile",
             [aws EXCEPT !.profile = IF @ = "full" THEN "bare" ELSE @], FALSE)
  /\ UNCHANGED pem

\* A profile that keeps its role cannot be deleted, and a profile that is not
\* deleted, or not there, ends the deletions of the role.
TearProfile(p) ==
  /\ At(p, "tearProfile")
  /\ \/ /\ aws.profile = "bare" /\ aws' = [aws EXCEPT !.profile = "none"]
        /\ Go(p, "tearPolicy") /\ UNCHANGED trouble
     \/ /\ aws.profile # "bare" /\ Go(p, "tearCache") /\ UNCHANGED <<aws, trouble>>
     \/ /\ fails < MaxFails /\ fails' = fails + 1 /\ scar' = TRUE
        /\ Go(p, "tearCache") /\ UNCHANGED aws
  /\ UNCHANGED <<pem, cache, backend, fleet, tools, raced>>

TearPolicy(p) ==
  /\ Deletes(p, "tearPolicy", "tearIam",
             [aws EXCEPT !.role = IF @ = "none" THEN @ ELSE "bare"], FALSE)
  /\ UNCHANGED pem
TearIam(p) ==
  /\ Deletes(p, "tearIam", "tearCache",
             [aws EXCEPT !.role = IF @ = "bare" THEN "none" ELSE @], FALSE)
  /\ UNCHANGED pem

TearCache(p) ==
  /\ At(p, "tearCache")
  /\ cache' = 0 /\ Raise(p)
  /\ UNCHANGED <<aws, pem, backend, fleet, tools, trouble, raced>>

\* The setup and teardown commands; without an entry there is nothing to tear
\* down.
Command(p, first) ==
  /\ At(p, "idle") /\ p \in Tools /\ tools < MaxTools
  /\ first \in {"validate", "tearRepo"} /\ (first = "tearRepo" => cache # 0)
  /\ tools' = tools + 1
  /\ raced' = (raced \/ Provisioning # {})
  /\ Step(p, first) /\ group' = [group EXCEPT ![p] = cache]
  /\ UNCHANGED <<newKey, hold, aws, pem, cache, backend, fleet, trouble>>

-----------------------------------------------------------------------------
(***************************************************************************)
(* create_worker() and destroy_worker() of a workflow thread.              *)
(***************************************************************************)
NeedsProvisioning == ~config.ecr \/ config.sg = 0

Begin(t) ==
  /\ At(t, "idle") /\ t \in Threads /\ Len(inst) < MaxWorkers
  /\ LET provision == NeedsProvisioning /\ ~provisioned
     IN  /\ Go(t, IF provision THEN "validate" ELSE "launch")
         /\ raced' = (raced \/ (provision /\ Provisioning # {}))
  /\ UNCHANGED <<aws, pem, cache, backend, fleet, tools, trouble>>

\* A slip: the image id goes first.
SetSteps_AmiFirst ==
  [step \in {"setEcr", "setSg", "setKey", "setProfile", "setAmi"} |->
     CASE step = "setEcr" -> "setAmi" [] step = "setAmi" -> "setSg"
       [] step = "setSg" -> "setKey"  [] step = "setKey" -> "setProfile"
       [] step = "setProfile" -> "setDone"]

\* _auto_provision() sets the fields one by one, in the sight of the others.
SetSteps ==
  [step \in {"setEcr", "setSg", "setKey", "setProfile", "setAmi"} |->
     CASE step = "setEcr" -> "setSg"  [] step = "setSg" -> "setKey"
       [] step = "setKey" -> "setProfile" [] step = "setProfile" -> "setAmi"
       [] step = "setAmi" -> "setDone"]

SetField(t) ==
  /\ pc[t] \in DOMAIN SetSteps
  /\ config' = CASE At(t, "setEcr") -> [config EXCEPT !.ecr = TRUE]
                 [] At(t, "setSg") -> [config EXCEPT !.sg = group[t]]
                 [] At(t, "setKey") -> [config EXCEPT !.key = TRUE]
                 [] At(t, "setProfile") -> [config EXCEPT !.profile = TRUE]
                 [] At(t, "setAmi") -> [config EXCEPT !.ami = TRUE]
  /\ Go(t, SetSteps[pc[t]])
  /\ UNCHANGED <<aws, pem, cache, provisioned, fleet, tools, trouble, raced>>

SetProvisioned(t) ==
  /\ At(t, "setDone")
  /\ provisioned' = TRUE
  /\ Step(t, "launch") /\ group' = [group EXCEPT ![t] = 0]
  /\ UNCHANGED <<newKey, hold, aws, pem, cache, config, fleet, tools, trouble, raced>>

\* run_instances() with the settings as they are; EC2 refuses a call without
\* an image, and names that do not exist.  create_worker reads the image
\* first, which is set last, so reading all of them is one step.
Accepted ==
  /\ config.ami /\ config.sg # 0 /\ config.sg = aws.sg.id
  /\ config.key => aws.key # 0
  /\ config.profile => aws.profile # "none"

Launched ==
  /\ Len(inst) < MaxWorkers /\ Accepted
  /\ inst' = Append(inst, [is |-> "up", sg |-> config.sg, key |-> config.key,
                           profile |-> config.profile, image |-> config.ecr])

Launch(t) ==
  /\ At(t, "launch") /\ Launched
  /\ Step(t, "boot") /\ hold' = [hold EXCEPT ![t] = Len(inst) + 1]
  /\ UNCHANGED <<newKey, group, aws, pem, cache, backend, workers, keep, tools, trouble, raced>>

\* The instance is launched and the answer with its id is lost: the exception
\* leaves create_worker, and nothing names the instance.
LaunchUnheard(t) ==
  /\ At(t, "launch") /\ Launched
  /\ fails < MaxFails /\ fails' = fails + 1
  /\ Raise(t)
  /\ UNCHANGED <<aws, pem, cache, backend, workers, keep, tools, scar, raced>>

\* No instance is launched: EC2 refuses, or the call fails on its way there.
Refused(t) ==
  /\ At(t, "launch")
  /\ \/ ~Accepted /\ UNCHANGED fails
     \/ fails < MaxFails /\ fails' = fails + 1
  /\ Raise(t)
  /\ UNCHANGED <<aws, pem, cache, backend, fleet, tools, scar, raced>>

\* _wait_for_instance(): running, with an address.
Running(t) ==
  /\ At(t, "boot") /\ Go(t, "health")
  /\ UNCHANGED <<aws, pem, cache, backend, fleet, tools, trouble, raced>>

\* What it takes for an instance's worker to come up and be reached.
Serves(i) ==
  /\ aws.sg = [id |-> inst[i].sg, open |-> TRUE]
  /\ inst[i].profile /\ aws.profile = "full" /\ aws.role = "reads"
  /\ inst[i].image /\ aws.repo = "image"

\* _wait_for_health(), and the worker is registered.
Register(t) ==
  /\ At(t, "health") /\ Serves(hold[t])
  /\ workers' = workers \cup {hold[t]}
  /\ Go(t, "serving")
  /\ UNCHANGED <<aws, pem, cache, backend, inst, keep, tools, trouble, raced>>

\* _terminate_instance() swallows a failure, after which the instance runs on,
\* or is gone all the same.
Terminate(i) ==
  \/ inst' = [inst EXCEPT ![i].is = "gone"] /\ UNCHANGED fails
  \/ /\ fails < MaxFails /\ fails' = fails + 1
     /\ UNCHANGED inst \/ inst' = [inst EXCEPT ![i].is = "gone"]

\* A slip: an instance that is up and not healthy is left running.
GivesUp_BootOnly(t) ==
  /\ IF At(t, "boot") THEN Terminate(hold[t]) ELSE UNCHANGED <<inst, fails>>
  /\ Raise(t)

GivesUp(t) == Terminate(hold[t]) /\ Raise(t)

\* Neither wait is certain to end before its deadline.
TimesOut(t) ==
  /\ pc[t] \in {"boot", "health"}
  /\ GivesUp(t)
  /\ UNCHANGED <<aws, pem, cache, backend, workers, keep, tools, scar, raced>>

\* The end of _dispatch_one(): the worker is destroyed, or kept to be looked at.
DestroyWorker(t) ==
  /\ At(t, "serving")
  /\ IF keep THEN UNCHANGED <<inst, workers, fails>>
     ELSE Terminate(hold[t]) /\ workers' = workers \ {hold[t]}
  /\ Raise(t)
  /\ UNCHANGED <<aws, pem, cache, backend, keep, tools, scar, raced>>

-----------------------------------------------------------------------------
Ensure(p) ==
  \/ Validate(p) \/ EnsureKey(p) \/ CreateKey(p) \/ WritePem(p)
  \/ EnsureSg(p) \/ CreateSg(p) \/ AuthorizeIngress(p)
  \/ EnsureProfile(p) \/ CreateRole(p) \/ AttachPolicy(p) \/ CreateProfile(p) \/ AddRole(p)
  \/ EnsureRepo(p) \/ PushImage(p) \/ Save(p) \/ Fail(p)

Teardown(p) ==
  \/ TearRepo(p) \/ TearSg(p) \/ TearKey(p) \/ TearRole(p) \/ TearProfile(p)
  \/ TearPolicy(p) \/ TearIam(p) \/ TearCache(p)

Create(t) ==
  \/ Begin(t) \/ SetField(t) \/ SetProvisioned(t)
  \/ Launch(t) \/ LaunchUnheard(t) \/ Refused(t)
  \/ Running(t) \/ Register(t) \/ TimesOut(t) \/ DestroyWorker(t)

CloudNext ==
  \/ \E p \in Procs : Ensure(p)
  \/ \E p \in Tools : Teardown(p) \/ Command(p, "validate") \/ Command(p, "tearRepo")
  \/ \E t \in Threads : Create(t)

CloudSpec == CloudInit /\ [][CloudNext]_cloudVars

-----------------------------------------------------------------------------
(***************************************************************************)
(* Properties.                                                             *)
(***************************************************************************)

\* The instances that run with no thread to terminate them and no entry by
\* which anyone could, kept ones apart.
Unheld ==
  {i \in DOMAIN inst :
     /\ inst[i].is = "up" /\ ~(keep /\ i \in workers)
     /\ \A t \in Threads : hold[t] # i}

\* Money: an instance that runs without anyone left to terminate it is the work
\* of a failed call, a launch unheard or a termination swallowed, and no call
\* leaves more than one.  No other failure, timeout or interleaving loses one.
\* What is registered runs, for a thread, or because workers are kept
\* (AWSBackend.create_worker, destroy_worker).
NoOrphans ==
  /\ Cardinality(Unheld) <= fails
  /\ \A i \in workers : inst[i].is = "up" /\ (keep \/ \E t \in Threads : hold[t] = i)

\* The fields that _auto_provision sets are read by threads that it does not
\* keep out: they may be refused by EC2 for want of an image, and never run an
\* instance that lacks the key, the profile or the repository.
LaunchedWhole ==
  \A i \in DOMAIN inst : inst[i].key /\ inst[i].profile /\ inst[i].image

\* Setup can be tried again: whatever call of an earlier setup or teardown has
\* failed, other than those behind which a resource stays half made under its
\* name, a setup that ends leaves what a worker needs to come up, and the
\* private key of the key pair; and the cache names nothing else
\* (ensure_infrastructure, one at a time).
SetupSuffices ==
  cache # 0 /\ Provisioning = {} /\ ~raced /\ ~scar =>
    /\ aws.sg = [id |-> cache, open |-> TRUE]
    /\ aws.profile = "full" /\ aws.role = "reads" /\ aws.repo = "image"
    /\ pem = aws.key /\ pem # 0
=============================================================================
