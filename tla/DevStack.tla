------------------------------ MODULE DevStack ------------------------------
(***************************************************************************)
(* Settings and the processes that read them: a developer edits the .env   *)
(* files, runs the local stack (scripts/dev-stack.mjs), installs            *)
(* certificates (scripts/install-kafka-pems.mjs) and seeds the secret of a *)
(* cluster (infra/local/minikube-overlay/seed-secrets.mjs), in any order.  *)
(* Every process keeps the environment it had when it started.             *)
(*                                                                         *)
(* dev-stack.mjs has two children: turbo, which runs the Nest services in  *)
(* watch mode (so that a Nest service that cannot boot does not end the    *)
(* child), and `dotnet run` for task-svc (where the process is the child). *)
(* Of the Nest services the model keeps shop-svc, the one that reads both  *)
(* the Kafka and the Redis settings, and in the cluster only its pod: one  *)
(* of task-svc cannot boot, for TASK_DATABASE_URL is not seeded.           *)
(***************************************************************************)
EXTENDS Settings, Naturals

CONSTANTS
  Templates,  \* what the root file may hold at first
  MaxEdits,   \* bound on the edits of the files
  MaxRuns     \* bound on the runs of the stack

ASSUME BoundsAssumption == MaxEdits \in Nat /\ MaxRuns \in Nat
ASSUME TemplatesAssumption == Templates \subseteq Environments

Files == {"root", "shop", "task"}
Children == {"node", "task"}
Processes == {"shop-svc", "task-svc", "shop-pod"}
Codes == {"ok", "failed"}  \* 0 (or a signal) and anything else
Down == [env |-> Nothing, root |-> Nothing, runs |-> FALSE]

VARIABLES
  file,    \* the root .env and those of shop-svc and task-svc
  secret,  \* shop-app-secrets: what it holds and the root file it was made from
  conf,    \* what each process read when it started, and the root file of that time
  phase,   \* dev-stack.mjs: "down", "up", "stopping", "crashed", "ended"
  child,   \* its children: "none", "up", "told" (sent SIGINT), "gone"
  code,    \* firstExitCode
  edits, runs

vars == <<file, secret, conf, phase, child, code, edits, runs>>
stack == <<phase, child, code, runs>>

Init ==
  /\ file \in {[f \in Files |-> IF f = "root" THEN t ELSE Nothing] : t \in Templates}
  /\ secret = Down
  /\ conf = [p \in Processes |-> Down]
  /\ phase = "down" /\ child = [c \in Children |-> "none"] /\ code = "none"
  /\ edits = 0 /\ runs = 0

-----------------------------------------------------------------------------
(* Settings change on disk; nothing that runs notices. *)

Edit(f, k, v) ==
  /\ edits < MaxEdits /\ v # file[f][k]
  /\ file' = [file EXCEPT ![f][k] = v]
  /\ edits' = edits + 1
  /\ UNCHANGED <<secret, conf, stack>>

(* install-kafka-pems.mjs replaces three quoted blocks in one write, or throws before it *)
InstallPems ==
  LET pems == {"CA", "CERT", "KEY"}
  IN  /\ \A k \in pems : file["root"][k] # Absent
      /\ \E k \in pems : file["root"][k] # "set"
      /\ file' = [file EXCEPT !["root"] = [k \in Keys |-> IF k \in pems THEN "set" ELSE @[k]]]
      /\ UNCHANGED <<secret, conf, edits, stack>>

-----------------------------------------------------------------------------
(* A process reads its environment as it starts, and dies of what it cannot use. *)

EnvOf(p) ==
  CASE p = "shop-svc" -> NestEnv(file["root"], file["shop"])
    [] p = "task-svc" -> TaskEnv(file["root"], file["task"])
    [] OTHER -> secret.env

RootOf(p) == IF p = "shop-pod" THEN secret.root ELSE file["root"]
Read(p) == [env |-> EnvOf(p), root |-> RootOf(p), runs |-> TRUE]

(* a Nest service in watch mode starts with its child, and again after each change of its source *)
BootShop ==
  /\ child["node"] = "up"
  /\ conf' = [conf EXCEPT !["shop-svc"] = IF Boots("shop-svc", EnvOf("shop-svc")) THEN Read("shop-svc") ELSE Down]
  /\ UNCHANGED <<file, secret, edits, stack>>

BootTask ==
  /\ child["task"] = "up" /\ ~ conf["task-svc"].runs
  /\ Boots("task-svc", EnvOf("task-svc"))
  /\ conf' = [conf EXCEPT !["task-svc"] = Read("task-svc")]
  /\ UNCHANGED <<file, secret, edits, stack>>

(* seed-secrets.mjs refuses a file without the required keys before it changes anything *)
Seed ==
  /\ IsSet(file["root"]["CORE"]) /\ IsSet(file["root"]["REDIS"])
  /\ secret' = [env |-> Forwarded(file["root"]), root |-> file["root"], runs |-> TRUE]
  /\ UNCHANGED <<file, conf, edits, stack>>

(* a pod starts, or restarts, with the secret of that moment *)
StartPod ==
  /\ secret.runs
  /\ conf' = [conf EXCEPT !["shop-pod"] = IF Boots("shop-pod", EnvOf("shop-pod")) THEN Read("shop-pod") ELSE Down]
  /\ UNCHANGED <<file, secret, edits, stack>>

-----------------------------------------------------------------------------
(* dev-stack.mjs *)

Dev ==
  /\ phase \in {"down", "ended"} /\ runs < MaxRuns
  /\ phase' = "up" /\ runs' = runs + 1
  /\ child' = [c \in Children |-> "up"] /\ code' = "none"
  /\ UNCHANGED <<file, secret, conf, edits>>

(* no 'error' listener: a spawn that fails throws in the orchestrator and orphans the other child *)
SpawnFails(c) ==
  /\ phase \in {"down", "ended"} /\ runs < MaxRuns
  /\ phase' = "crashed" /\ runs' = runs + 1
  /\ child' = [d \in Children |-> IF d = c THEN "none" ELSE "up"] /\ code' = "none"
  /\ UNCHANGED <<file, secret, conf, edits>>

Told == [c \in Children |-> IF child[c] = "up" THEN "told" ELSE child[c]]

CtrlC ==
  /\ phase = "up"
  /\ phase' = "stopping" /\ child' = Told
  /\ UNCHANGED <<file, secret, conf, code, edits, runs>>

(* the 'exit' listener: the first to leave (task-svc does, without a database) stops the *)
(* other, the last one ends the stack *)
LastGone(c) == \A d \in Children \ {c} : child[d] = "gone"
FirstCodeBug(x) == x
FirstCode(x) == IF code = "none" THEN x ELSE code
ExitNoStopBug(c, x) ==
  /\ child[c] \in {"up", "told"}
  /\ conf' = [conf EXCEPT ![IF c = "node" THEN "shop-svc" ELSE "task-svc"] = Down]
  /\ child' = [child EXCEPT ![c] = "gone"]
  /\ phase' = IF phase # "crashed" /\ LastGone(c) THEN "ended" ELSE phase
  /\ code' = IF phase = "crashed" THEN code ELSE FirstCode(x)
  /\ UNCHANGED <<file, secret, edits, runs>>
Exit(c, x) ==
  /\ child[c] \in {"up", "told"}
  /\ conf' = [conf EXCEPT ![IF c = "node" THEN "shop-svc" ELSE "task-svc"] = Down]
  /\ IF phase = "crashed" THEN child' = [child EXCEPT ![c] = "gone"] /\ UNCHANGED <<phase, code>>
     ELSE /\ code' = FirstCode(x)
          /\ child' = [(IF phase = "up" THEN Told ELSE child) EXCEPT ![c] = "gone"]
          /\ phase' = IF LastGone(c) THEN "ended" ELSE "stopping"
  /\ UNCHANGED <<file, secret, edits, runs>>

Next ==
  \/ \E f \in Files, k \in Keys : \E v \in Values(k) : Edit(f, k, v)
  \/ InstallPems \/ BootShop \/ BootTask \/ Seed \/ StartPod
  \/ Dev \/ CtrlC
  \/ \E c \in Children : SpawnFails(c) \/ \E x \in Codes : Exit(c, x)

(* turbo and `dotnet run` end once they have been sent SIGINT *)
Spec == Init /\ [][Next]_vars /\ \A c \in Children : WF_vars(child[c] = "told" /\ \E x \in Codes : Exit(c, x))

-----------------------------------------------------------------------------
(***************************************************************************)
(* Two programs given the same root file connect to Redis in the same way, *)
(* unless its REDIS_URL names an account or a database, which task-svc     *)
(* drops (CachingServiceCollectionExtensions.cs:73), there is a lone word  *)
(* before its @, or there is none (shop-svc has a default); and to Kafka,  *)
(* although three pieces of code decide it (KafkaConsumerConfiguration.cs:7 *)
(* promises "same semantics as packages/shared/src/kafka.ts"), unless one  *)
(* of these is so:                                                         *)
(*   - a service's own file adds a key to the root file (Nest) or changes  *)
(*     one (task-svc, whose files have the opposite priority);             *)
(*   - KAFKA_SSL is "false" in another case, which only task-svc accepts,  *)
(*     or there are credentials next to it, or one of the two does not see *)
(*     it (the topics script, a pod seeded without it);                    *)
(*   - client certificates and credentials are both there, or only one of  *)
(*     certificate and key is;                                             *)
(*   - there are credentials with another mechanism than scram-sha-256,    *)
(*     which a pod is not given (seed-secrets.mjs:39-49), or with one that *)
(*     only the topics script does not replace by it                       *)
(*     (ensure-kafka-topic.mjs:82);                                        *)
(*   - task-svc is told not to check the host of the broker                *)
(*     (KafkaConsumerConfiguration.cs:121-144);                            *)
(*   - the consumer of task-svc is switched off.                           *)
(***************************************************************************)
OwnFileDecides(p, S) ==
  LET c == conf[p]
  IN  \/ p = "shop-svc" /\ \E k \in S : c.root[k] = Absent /\ c.env[k] # Absent
      \/ p = "task-svc" /\ \E k \in S : c.env[k] # c.root[k]

Mixed(r) ==
  \/ r["SSL"] = "False"
  \/ r["SSL"] = "false" /\ IsSet(r["CRED"])
  \/ IsSet(r["CA"]) /\ IsSet(r["CERT"]) # IsSet(r["KEY"])
  \/ \A k \in {"CA", "CERT", "KEY", "CRED"} : IsSet(r[k])

Excused(p) ==
  \/ ~ conf[p].runs
  \/ OwnFileDecides(p, KafkaKeys)
  \/ p = "shop-pod" /\ LET r == conf[p].root
                       IN  r["SSL"] = "false" \/ (IsSet(r["CRED"]) /\ Known(r["MECH"]) # "scram-sha-256")
  \/ p = "task-svc" /\ (conf[p].env["CONSUMER"] = "false" \/ conf[p].env["ENDPOINT"] = "none")

ScriptExcused(r) == r["SSL"] = "false" \/ (IsSet(r["CRED"]) /\ r["MECH"] \in {"", "other"})

SameKafka ==
  \A p \in Processes :
    LET c == conf[p]
    IN  ~ Excused(p) /\ ~ Mixed(c.root) =>
          /\ \A q \in Processes :
               Excused(q) \/ conf[q].root # c.root \/ KafkaOf(q, conf[q].env) = KafkaOf(p, c.env)
          /\ ~ ScriptExcused(c.root) => ScriptKafka(c.root) = KafkaOf(p, c.env)

SameRedis ==
  \A p, q \in {r \in Processes : conf[r].runs /\ ~ OwnFileDecides(r, {"REDIS"})} :
    LET r == conf[p].root
    IN  conf[q].root = r /\ r["REDIS"] \in Values("REDIS") \ {Absent, "account url", "database url", "word url"}
          => RedisOf(p, conf[p].env) = RedisOf(q, conf[q].env)

OneConnection == SameKafka /\ SameRedis

(***************************************************************************)
(* The stack stops as a whole: once a child has gone, the other one goes   *)
(* too and dev-stack.mjs ends, with the code of the child that left first, *)
(* whatever the other one answers to SIGINT and whenever Ctrl-C comes. (A  *)
(* spawn that fails is not handled and leaves the other child behind.)     *)
(***************************************************************************)
StackStopsWhole ==
  /\ \A c \in Children : (child[c] = "gone" /\ phase # "crashed")
       ~> (phase = "ended" /\ \A d \in Children : child[d] = "gone")
  /\ \A x \in Codes : (code = x) ~> (phase = "ended" /\ code = x)
=============================================================================
