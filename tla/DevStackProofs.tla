--------------------------- MODULE DevStackProofs ---------------------------
(***************************************************************************)
(* Proof that two programs given the same root file connect in the same    *)
(* way, for any templates of the root file, any number of edits and any    *)
(* number of runs of the stack.                                            *)
(*                                                                         *)
(* The files change under the processes, so the property cannot be read    *)
(* off the files.  What survives is how an environment was made from the   *)
(* root file of its time (Derived), and that a process that could not boot *)
(* with it does not run.                                                   *)
(***************************************************************************)
EXTENDS DevStack, TLAPS

Readings == [env : Environments, root : Environments, runs : BOOLEAN]

TypeOK ==
  /\ file \in [Files -> Environments]
  /\ secret \in Readings
  /\ conf \in [Processes -> Readings]

(* an environment c.env that process p made from the root file c.root *)
Derived(p, c) ==
  /\ p = "shop-svc" => \A k \in Keys : c.root[k] # Absent => c.env[k] = c.root[k]
  /\ p = "shop-pod" => c.env = Forwarded(c.root) /\ IsSet(c.root["REDIS"])

(* the secret is fit for a pod, and what runs was made from its root file and could boot *)
SecretIsDerived == secret.runs => Derived("shop-pod", secret)
RunningIsDerived == \A p \in Processes : conf[p].runs => Derived(p, conf[p]) /\ Boots(p, conf[p].env)

DInv == TypeOK /\ SecretIsDerived /\ RunningIsDerived

-----------------------------------------------------------------------------
(* The environments. *)

LEMMA KeysExist == /\ KafkaKeys \subseteq Keys
                   /\ \A k \in {"CORE", "REDIS", "CONSUMER", "TASK_DB"} : k \in Keys
BY DEF Keys, KafkaKeys

(* Every key may be absent, and the three of a client certificate may be set. *)
LEMMA ValuesHold == /\ \A k \in Keys : Absent \in Values(k)
                    /\ \A k \in {"CA", "CERT", "KEY"} : "set" \in Values(k)
                    /\ Values("REDIS") = {Absent, "", "host"} \cup RedisURLs
                   /\ Values("MECH") = {Absent, "", "other"} \cup Mechanisms
<1>1. \A k \in Keys : Absent \in Values(k)
  BY Zenon DEF Values
<1>2. \A k \in {"CA", "CERT", "KEY"} : "set" \in Values(k)
  BY DEF Values
<1>3. Values("REDIS") = {Absent, ""} \cup RedisURLs \cup {"host"}
  BY Zenon DEF Values
<1>4. Values("MECH") = {Absent, "", "other"} \cup Mechanisms
  BY Zenon DEF Values
<1> QED
  BY <1>1, <1>2, <1>3, <1>4

LEMMA NothingIsAnEnvironment == Nothing \in Environments
BY ValuesHold DEF Nothing, Environments, Absent

(* Merging two files, or copying some keys of one, gives an environment. *)
LEMMA OverType ==
  ASSUME NEW a \in Environments, NEW b \in Environments
  PROVE  Over(a, b) \in Environments
BY DEF Over, Environments

LEMMA ForwardedType ==
  ASSUME NEW a \in Environments
  PROVE  Forwarded(a) \in Environments
BY ValuesHold DEF Forwarded, Environments

-----------------------------------------------------------------------------
(* The three readings of the KAFKA_* keys.  What each makes of an environment    *)
(* whose keys agree with the root file is what the Nest services make of the     *)
(* root file itself, unless Mixed.                                               *)

(* The client of a Nest service depends on whether KAFKA_SSL is "false", on which    *)
(* of the other keys have a value and, with credentials, on what their mechanism     *)
(* means.                                                                            *)
LEMMA SameNodeKafka ==
  ASSUME NEW r, NEW e, e["SSL"] = "false" <=> r["SSL"] = "false",
         \A k \in {"BROKERS", "CA", "CERT", "KEY", "CRED"} : IsSet(e[k]) <=> IsSet(r[k]),
         IsSet(r["CRED"]) => Known(e["MECH"]) = Known(r["MECH"])
  PROVE  NodeKafka(e) = NodeKafka(r)
<1>1. /\ (e["SSL"] = "false") = (r["SSL"] = "false")
      /\ IsSet(e["BROKERS"]) = IsSet(r["BROKERS"])
      /\ IsSet(e["CA"]) = IsSet(r["CA"])
      /\ IsSet(e["CERT"]) = IsSet(r["CERT"])
      /\ IsSet(e["KEY"]) = IsSet(r["KEY"])
      /\ IsSet(e["CRED"]) = IsSet(r["CRED"])
  BY DEF IsSet
<1>2. (IF IsSet(e["CRED"]) THEN Known(e["MECH"]) ELSE "none")
        = (IF IsSet(r["CRED"]) THEN Known(r["MECH"]) ELSE "none")
  BY <1>1
<1> QED
  BY <1>1, <1>2, Zenon DEF NodeKafka

(* A Nest service whose keys are those of the root file. *)
LEMMA NestAgrees ==
  ASSUME NEW r, NEW e, \A k \in KafkaKeys : e[k] = r[k]
  PROVE  NodeKafka(e) = NodeKafka(r)
BY SameNodeKafka DEF KafkaKeys

(* A pod, whose environment lacks KAFKA_SSL, the mechanism and every key without a   *)
(* value.                                                                            *)
LEMMA PodAgrees ==
  ASSUME NEW r, r["SSL"] # "false", IsSet(r["CRED"]) => Known(r["MECH"]) = "scram-sha-256"
  PROVE  NodeKafka(Forwarded(r)) = NodeKafka(r)
<1> DEFINE e == Forwarded(r)
<1>1. e["SSL"] # "false" /\ e["MECH"] = Absent
  BY DEF Forwarded, Seeded, Keys, KafkaKeys, Absent
<1>2. \A k \in {"BROKERS", "CA", "CERT", "KEY", "CRED"} : IsSet(e[k]) <=> IsSet(r[k])
  BY DEF Forwarded, Seeded, Keys, KafkaKeys, Absent, IsSet
<1> HIDE DEF e
<1>3. Known(e["MECH"]) = "scram-sha-256"
  BY <1>1 DEF Known, Mechanisms, Absent
<1>4. NodeKafka(e) = NodeKafka(r)
  BY <1>1, <1>2, <1>3, SameNodeKafka
<1> QED
  BY <1>4 DEF e

(* task-svc, which treats "False" as "false", drops credentials without TLS or next  *)
(* to client certificates, and can be told not to check the host.                    *)
LEMMA TaskAgrees ==
  ASSUME NEW r, NEW e, \A k \in KafkaKeys : e[k] = r[k],
         e["CONSUMER"] # "false", e["ENDPOINT"] # "none", ~ Mixed(r)
  PROVE  TaskKafka(e) = NodeKafka(r)
<1> DEFINE tls(x) == IF x["SSL"] = "false" THEN "none" ELSE IF IsSet(x["CA"]) THEN "ca" ELSE "system"
           pems == tls(r) = "ca" /\ IsSet(r["CERT"]) /\ IsSet(r["KEY"])
           mech(b) == IF b THEN Known(r["MECH"]) ELSE "none"
<1>0. /\ \A k \in {"SSL", "BROKERS", "CA", "CERT", "KEY", "CRED", "MECH"} : e[k] = r[k]
      /\ r["SSL"] # "False" /\ ~ (r["SSL"] = "false" /\ IsSet(r["CRED"]))
      /\ IsSet(r["CA"]) => (IsSet(r["CERT"]) <=> IsSet(r["KEY"]))
      /\ ~ (IsSet(r["CA"]) /\ IsSet(r["CERT"]) /\ IsSet(r["KEY"]) /\ IsSet(r["CRED"]))
  BY DEF KafkaKeys, Mixed
<1>1. /\ IsSet(e["BROKERS"]) = IsSet(r["BROKERS"])
      /\ (e["SSL"] \in {"false", "False"}) = (r["SSL"] = "false")
      /\ IsSet(e["CA"]) = IsSet(r["CA"])
      /\ IsSet(e["CERT"]) = IsSet(r["CERT"])
      /\ IsSet(e["KEY"]) = IsSet(r["KEY"])
      /\ IsSet(e["CRED"]) = IsSet(r["CRED"])
      /\ Known(e["MECH"]) = Known(r["MECH"])
      /\ e["CONSUMER"] # "false"
      /\ (tls(r) # "none" /\ e["ENDPOINT"] # "none") = (tls(r) # "none")
  BY <1>0
<1>2. /\ (tls(r) = "ca" /\ IsSet(r["CERT"])) = pems
      /\ (tls(r) = "ca" /\ IsSet(r["KEY"])) = pems
      /\ (tls(r) # "none" /\ ~ pems /\ IsSet(r["CRED"])) = IsSet(r["CRED"])
  BY <1>0 DEF IsSet
<1> DEFINE task == [tls |-> tls(r), host |-> tls(r) # "none", cert |-> pems, key |-> pems,
                    sasl |-> mech(tls(r) # "none" /\ ~ pems /\ IsSet(r["CRED"]))]
           node == [tls |-> tls(r), host |-> tls(r) # "none", cert |-> tls(r) = "ca" /\ IsSet(r["CERT"]),
                    key |-> tls(r) = "ca" /\ IsSet(r["KEY"]), sasl |-> mech(IsSet(r["CRED"]))]
<1>3. TaskKafka(e) = IF ~ IsSet(r["BROKERS"]) THEN Off ELSE task
  BY <1>1, Zenon DEF TaskKafka
<1>4. NodeKafka(r) = IF ~ IsSet(r["BROKERS"]) THEN Off ELSE node
  BY Zenon DEF NodeKafka
<1>5. node = task
  <2> HIDE DEF tls, pems, mech
  <2> QED
    BY <1>2, Zenon
<1> HIDE DEF node, task
<1> QED
  BY <1>3, <1>4, <1>5

(* The topics script, which does not look at KAFKA_SSL and checks no mechanism. *)
LEMMA ScriptAgrees ==
  ASSUME NEW r, r["MECH"] \in Values("MECH"), ~ ScriptExcused(r)
  PROVE  ScriptKafka(r) = NodeKafka(r)
<1>1. ASSUME IsSet(r["CRED"])
      PROVE  Known(r["MECH"]) = IF r["MECH"] = Absent THEN "scram-sha-256" ELSE r["MECH"]
  BY <1>1, ValuesHold DEF ScriptExcused, Known, Mechanisms, Absent
<1> QED
  BY <1>1 DEF ScriptExcused, ScriptKafka, NodeKafka

(* The three together: a process that runs, excused by nothing. *)
LEMMA KafkaOfRoot ==
  ASSUME DInv, NEW p \in Processes, ~ Excused(p), ~ Mixed(conf[p].root)
  PROVE  KafkaOf(p, conf[p].env) = NodeKafka(conf[p].root)
<1> DEFINE e == conf[p].env
           r == conf[p].root
<1>0. /\ conf[p].runs /\ Derived(p, conf[p])
      /\ ~ OwnFileDecides(p, KafkaKeys)
  BY DEF DInv, RunningIsDerived, Excused
<1>1. CASE p = "shop-svc"
  <2>1. \A k \in KafkaKeys : e[k] = r[k]
    BY <1>0, <1>1, KeysExist DEF Derived, OwnFileDecides
  <2>2. NodeKafka(e) = NodeKafka(r)
    BY <2>1, NestAgrees
  <2> QED
    BY <1>1, <2>2 DEF KafkaOf
<1>2. CASE p = "task-svc"
  <2>1. \A k \in KafkaKeys : e[k] = r[k]
    BY <1>0, <1>2 DEF OwnFileDecides
  <2>2. e["CONSUMER"] # "false" /\ e["ENDPOINT"] # "none"
    BY <1>0, <1>2 DEF Excused
  <2>3. TaskKafka(e) = NodeKafka(r)
    BY <2>1, <2>2, TaskAgrees
  <2> QED
    BY <1>2, <2>3 DEF KafkaOf
<1>3. CASE p = "shop-pod"
  <2>1. /\ e = Forwarded(r) /\ r["SSL"] # "false"
        /\ IsSet(r["CRED"]) => Known(r["MECH"]) = "scram-sha-256"
    BY <1>0, <1>3 DEF Derived, Excused
  <2>2. NodeKafka(e) = NodeKafka(r)
    BY <2>1, PodAgrees
  <2> QED
    BY <1>3, <2>2 DEF KafkaOf
<1> QED
  BY <1>1, <1>2, <1>3 DEF Processes

(* Redis: where the root file has a value of one of the other forms, a process of    *)
(* shop-svc runs only with a URL that names at most a password.                      *)
LEMMA RedisOfRoot ==
  ASSUME DInv, NEW p \in Processes, conf[p].runs, ~ OwnFileDecides(p, {"REDIS"}),
         conf[p].root["REDIS"] \in {"", "url", "host"}, p # "task-svc"
  PROVE  conf[p].env["REDIS"] = "url" /\ conf[p].root["REDIS"] = "url"
<1> DEFINE e == conf[p].env
           r == conf[p].root
<1>0. Derived(p, conf[p]) /\ e["REDIS"] \in {Absent} \cup RedisURLs
  BY DEF DInv, RunningIsDerived, Boots, ShopBoots
<1>1. CASE p = "shop-svc"
  <2>1. e["REDIS"] = r["REDIS"]
    BY <1>0, <1>1, KeysExist DEF Derived, Absent
  <2> QED
    BY <1>0, <2>1 DEF RedisURLs, Absent
<1>2. CASE p = "shop-pod"
  <2>1. e = Forwarded(r) /\ IsSet(r["REDIS"])
    BY <1>0, <1>2 DEF Derived
  <2>2. e["REDIS"] = r["REDIS"]
    BY <2>1, KeysExist DEF Forwarded, Seeded
  <2> QED
    BY <1>0, <2>1, <2>2 DEF RedisURLs, Absent, IsSet
<1> QED
  BY <1>1, <1>2 DEF Processes

(* What either program makes of such a URL. *)
LEMMA PlainRedis ==
  ASSUME NEW e, e["REDIS"] = "url"
  PROVE  ShopRedis(e) = TaskRedis(e)
<1>1. ShopRedis(e) = [at |-> "there", account |-> "default", password |-> TRUE, db |-> "first"]
  BY Zenon DEF ShopRedis, Absent
<1>2. TaskRedis(e) = [at |-> "there", account |-> "default", password |-> TRUE, db |-> "first"]
  BY DEF TaskRedis, IsSet, Absent
<1> QED
  BY <1>1, <1>2

-----------------------------------------------------------------------------
(* The invariant says enough. *)
LEMMA DInvImpliesOneConnection == DInv => OneConnection
<1> SUFFICES ASSUME DInv PROVE OneConnection
  OBVIOUS
<1>1. SameKafka
  <2> SUFFICES ASSUME NEW p \in Processes, ~ Excused(p), ~ Mixed(conf[p].root)
               PROVE  /\ \A q \in Processes :
                           Excused(q) \/ conf[q].root # conf[p].root
                             \/ KafkaOf(q, conf[q].env) = KafkaOf(p, conf[p].env)
                      /\ ~ ScriptExcused(conf[p].root)
                           => ScriptKafka(conf[p].root) = KafkaOf(p, conf[p].env)
    BY DEF SameKafka
  <2>1. KafkaOf(p, conf[p].env) = NodeKafka(conf[p].root)
    BY KafkaOfRoot
  <2>2. ASSUME NEW q \in Processes, ~ Excused(q), conf[q].root = conf[p].root
        PROVE  KafkaOf(q, conf[q].env) = KafkaOf(p, conf[p].env)
    <3>1. KafkaOf(q, conf[q].env) = NodeKafka(conf[q].root)
      BY <2>2, KafkaOfRoot
    <3> QED
      BY <2>1, <2>2, <3>1
  <2>3. ASSUME ~ ScriptExcused(conf[p].root)
        PROVE  ScriptKafka(conf[p].root) = KafkaOf(p, conf[p].env)
    <3>1. conf[p].root \in Environments
      BY DEF DInv, TypeOK, Readings
    <3>2. conf[p].root["MECH"] \in Values("MECH")
      BY <3>1 DEF Environments, Keys, KafkaKeys
    <3> QED
      BY <2>1, <2>3, <3>2, ScriptAgrees
  <2> QED
    BY <2>2, <2>3
<1>2. SameRedis
  <2> SUFFICES ASSUME NEW p \in Processes, conf[p].runs, ~ OwnFileDecides(p, {"REDIS"}),
                      NEW q \in Processes, conf[q].runs, ~ OwnFileDecides(q, {"REDIS"}),
                      conf[q].root = conf[p].root, conf[p].root["REDIS"] \in {"", "url", "host"}
               PROVE  RedisOf(p, conf[p].env) = RedisOf(q, conf[q].env)
    BY ValuesHold DEF SameRedis, RedisURLs, Absent
  <2>1. CASE p = "task-svc" /\ q = "task-svc"
    BY <2>1
  <2>2. CASE p # "task-svc" \/ q # "task-svc"
    <3>1. conf[p].root["REDIS"] = "url" /\ conf[q].root["REDIS"] = "url"
      BY <2>2, RedisOfRoot
    <3>2. \A s \in {p, q} : conf[s].env["REDIS"] = "url"
      <4>1. ASSUME NEW s \in {p, q} PROVE conf[s].env["REDIS"] = "url"
        <5>1. CASE s = "task-svc"
          BY <3>1, <5>1 DEF OwnFileDecides
        <5>2. CASE s # "task-svc"
          BY <3>1, <5>2, RedisOfRoot
        <5> QED
          BY <5>1, <5>2
      <4> QED
        BY <4>1
    <3>3. ASSUME NEW s \in {p, q}
          PROVE  RedisOf(s, conf[s].env) = TaskRedis(conf[s].env)
      BY <3>2, PlainRedis DEF RedisOf
    <3>4. TaskRedis(conf[p].env) = TaskRedis(conf[q].env)
      BY <3>2 DEF TaskRedis
    <3> QED
      BY <3>3, <3>4
  <2> QED
    BY <2>1, <2>2
<1> QED
  BY <1>1, <1>2 DEF OneConnection

-----------------------------------------------------------------------------
(* What a process reads as it starts. *)
LEMMA EnvOfEach == /\ EnvOf("shop-svc") = NestEnv(file["root"], file["shop"])
                   /\ EnvOf("task-svc") = TaskEnv(file["root"], file["task"])
                   /\ EnvOf("shop-pod") = secret.env
<1>1. EnvOf("shop-svc") = NestEnv(file["root"], file["shop"])
  BY Zenon DEF EnvOf
<1>2. EnvOf("task-svc") = TaskEnv(file["root"], file["task"])
  BY Zenon DEF EnvOf
<1>3. EnvOf("shop-pod") = secret.env
  BY Zenon DEF EnvOf
<1> QED
  BY <1>1, <1>2, <1>3

LEMMA ReadType ==
  ASSUME TypeOK, NEW p \in Processes
  PROVE  Read(p) \in Readings
<1>1. EnvOf(p) \in Environments
  BY EnvOfEach, OverType DEF Processes, NestEnv, TaskEnv, TypeOK, Files, Readings
<1>2. RootOf(p) \in Environments
  BY DEF RootOf, TypeOK, Files, Readings
<1> QED
  BY <1>1, <1>2 DEF Read, Readings

(* What it reads is derived from the root file of that time. *)
LEMMA ReadIsDerived ==
  ASSUME TypeOK, SecretIsDerived, NEW p \in Processes, p = "shop-pod" => secret.runs
  PROVE  Derived(p, Read(p))
<1>1. CASE p = "shop-svc"
  <2>1. Read(p).env = Over(file["root"], file["shop"]) /\ Read(p).root = file["root"]
    BY <1>1, EnvOfEach DEF Read, RootOf, NestEnv
  <2> QED
    BY <1>1, <2>1 DEF Derived, Over
<1>2. CASE p = "shop-pod"
  <2>1. Read(p).env = secret.env /\ Read(p).root = secret.root
    BY <1>2, EnvOfEach DEF Read, RootOf
  <2> QED
    BY <1>2, <2>1 DEF Derived, SecretIsDerived
<1> QED
  BY <1>1, <1>2 DEF Derived

(* A process that starts keeps the invariant, whether it can boot or not. *)
LEMMA StartKeeps ==
  ASSUME DInv, NEW p \in Processes, p = "shop-pod" => secret.runs, UNCHANGED <<file, secret>>,
         conf' = [conf EXCEPT ![p] = IF Boots(p, EnvOf(p)) THEN Read(p) ELSE Down]
  PROVE  DInv'
<1> USE DEF DInv
<1>1. Down \in Readings
  BY NothingIsAnEnvironment DEF Down, Readings
<1>2. TypeOK'
  BY <1>1, ReadType DEF TypeOK
<1>3. SecretIsDerived'
  BY DEF SecretIsDerived, Derived
<1>4. ASSUME NEW q \in Processes, conf'[q].runs
      PROVE  Derived(q, conf'[q]) /\ Boots(q, conf'[q].env)
  <2>1. CASE q = p
    <3>1. Boots(p, EnvOf(p)) /\ conf'[p] = Read(p)
      BY <1>4, <2>1 DEF Down, TypeOK
    <3>2. Read(p).env = EnvOf(p)
      BY DEF Read
    <3> QED
      BY <2>1, <3>1, <3>2, ReadIsDerived
  <2>2. CASE q # p
    BY <1>4, <2>2 DEF TypeOK, RunningIsDerived
  <2> QED
    BY <2>1, <2>2
<1>5. RunningIsDerived'
  BY <1>4 DEF RunningIsDerived, Boots, Derived, ShopBoots, TaskBoots
<1> QED
  BY <1>2, <1>3, <1>5

(* A step that touches neither the secret nor what the processes have read. *)
LEMMA FilesOnly ==
  ASSUME DInv, UNCHANGED <<secret, conf>>, file' \in [Files -> Environments]
  PROVE  DInv'
BY DEF DInv, TypeOK, SecretIsDerived, RunningIsDerived

(* A process that goes away. *)
LEMMA ExitKeeps ==
  ASSUME DInv, NEW p \in Processes, UNCHANGED <<file, secret>>, conf' = [conf EXCEPT ![p] = Down]
  PROVE  DInv'
<1>1. Down \in Readings /\ ~ Down.runs
  BY NothingIsAnEnvironment DEF Down, Readings
<1>2. TypeOK'
  BY <1>1 DEF DInv, TypeOK
<1>3. \A q \in Processes : conf'[q].runs => conf'[q] = conf[q]
  BY <1>1 DEF DInv, TypeOK
<1> QED
  BY <1>2, <1>3 DEF DInv, SecretIsDerived, RunningIsDerived

LEMMA InitDInv == Init => DInv
<1> SUFFICES ASSUME Init PROVE DInv
  OBVIOUS
<1>1. Down \in Readings /\ ~ Down.runs
  BY NothingIsAnEnvironment DEF Down, Readings
<1>2. PICK t \in Templates : file = [f \in Files |-> IF f = "root" THEN t ELSE Nothing]
  BY DEF Init
<1>3. file \in [Files -> Environments]
  BY <1>2, TemplatesAssumption, NothingIsAnEnvironment
<1>4. secret = Down /\ conf = [p \in Processes |-> Down]
  BY DEF Init
<1> QED
  BY <1>1, <1>3, <1>4 DEF DInv, TypeOK, SecretIsDerived, RunningIsDerived

LEMMA NextDInv == DInv /\ [Next]_vars => DInv'
<1> SUFFICES ASSUME DInv, [Next]_vars PROVE DInv'
  OBVIOUS
<1>0. file \in [Files -> Environments] /\ "root" \in Files
  BY DEF DInv, TypeOK, Files
<1>1. ASSUME NEW f \in Files, NEW k \in Keys, NEW v \in Values(k), Edit(f, k, v) PROVE DInv'
  <2>1. [file[f] EXCEPT ![k] = v] \in Environments
    BY <1>0 DEF Environments
  <2>2. file' \in [Files -> Environments]
    BY <1>0, <1>1, <2>1 DEF Edit
  <2> QED
    BY <1>1, <2>2, FilesOnly DEF Edit
<1>2. ASSUME InstallPems PROVE DInv'
  <2> DEFINE new == [k \in Keys |-> IF k \in {"CA", "CERT", "KEY"} THEN "set" ELSE file["root"][k]]
  <2>1. new \in Environments
    BY <1>0, ValuesHold DEF Environments
  <2>2. file' = [file EXCEPT !["root"] = new]
    BY <1>2 DEF InstallPems
  <2>3. file' \in [Files -> Environments]
    BY <1>0, <2>1, <2>2
  <2> QED
    BY <1>2, <2>3, FilesOnly DEF InstallPems
<1>3. ASSUME BootShop PROVE DInv'
  BY <1>3, StartKeeps DEF BootShop, Processes
<1>4. ASSUME BootTask PROVE DInv'
  <2>1. conf' = [conf EXCEPT !["task-svc"] =
                   IF Boots("task-svc", EnvOf("task-svc")) THEN Read("task-svc") ELSE Down]
    BY <1>4 DEF BootTask
  <2> QED
    BY <1>4, <2>1, StartKeeps DEF BootTask, Processes
<1>5. ASSUME Seed PROVE DInv'
  <2>1. secret' \in Readings
    BY <1>0, <1>5, ForwardedType DEF Seed, Readings
  <2>2. TypeOK'
    BY <1>5, <2>1 DEF DInv, TypeOK, Seed
  <2>3. SecretIsDerived'
    BY <1>5 DEF Seed, SecretIsDerived, Derived
  <2>4. RunningIsDerived'
    BY <1>5 DEF DInv, Seed, RunningIsDerived
  <2> QED
    BY <2>2, <2>3, <2>4 DEF DInv
<1>6. ASSUME StartPod PROVE DInv'
  BY <1>6, StartKeeps DEF StartPod, Processes
<1>7. ASSUME Dev \/ CtrlC \/ \E c \in Children : SpawnFails(c) PROVE DInv'
  BY <1>0, <1>7, FilesOnly DEF Dev, CtrlC, SpawnFails
<1>8. ASSUME NEW c \in Children, NEW x \in Codes, Exit(c, x) PROVE DInv'
  <2>1. \E p \in Processes : conf' = [conf EXCEPT ![p] = Down]
    BY <1>8 DEF Exit, Processes
  <2>2. UNCHANGED <<file, secret>>
    BY <1>8 DEF Exit
  <2> QED
    BY <2>1, <2>2, ExitKeeps
<1>9. CASE UNCHANGED vars
  BY <1>0, <1>9, FilesOnly DEF vars
<1> QED
  BY <1>1, <1>2, <1>3, <1>4, <1>5, <1>6, <1>7, <1>8, <1>9 DEF Next

(***************************************************************************)
(* Whatever is edited, installed, seeded, started and stopped, two         *)
(* programs that read the same root file connect to Kafka and to Redis in  *)
(* the same way, unless one of the causes Excused, Mixed and SameRedis     *)
(* list is at work (buildKafkaClient, TryCreate, ensure-kafka-topic.mjs,   *)
(* createClient and NormalizeRedisUri agree everywhere else).              *)
(***************************************************************************)
THEOREM OneConnectionHolds == Spec => []OneConnection
<1>1. Init => DInv
  BY InitDInv
<1>2. DInv /\ [Next]_vars => DInv'
  BY NextDInv
<1>3. DInv => OneConnection
  BY DInvImpliesOneConnection
<1> QED
  BY <1>1, <1>2, <1>3, PTL DEF Spec

-----------------------------------------------------------------------------
(***************************************************************************)
(* The orchestrator.  What StackStopsWhole says of the end of a run rests  *)
(* on two facts of safety: whoever is left has been told, and the code is  *)
(* that of the first child.                                                *)
(***************************************************************************)
PhaseType ==
  /\ phase \in {"down", "up", "stopping", "crashed", "ended"}
  /\ child \in [Children -> {"none", "up", "told", "gone"}]
  /\ code \in Codes \cup {"none"}

(* what the children and the code can be in each phase *)
PhaseHolds ==
  /\ phase = "down" => code = "none" /\ \A c \in Children : child[c] = "none"
  /\ phase = "up" => code = "none" /\ \A c \in Children : child[c] = "up"
  /\ phase = "stopping" => /\ \A c \in Children : child[c] \in {"told", "gone"}
                           /\ \E c \in Children : child[c] = "told"
                           /\ code = "none" <=> \A c \in Children : child[c] = "told"
  /\ phase = "crashed" => code = "none"
  /\ phase = "ended" => code # "none" /\ \A c \in Children : child[c] = "gone"

PInv == PhaseType /\ PhaseHolds

(* Once a child has gone, the other one has been told or is gone too, and the stack  *)
(* has ended exactly when both are (dev-stack.mjs:114-140), unless a spawn failed.   *)
StopsTogether ==
  phase # "crashed" =>
    /\ (\E c \in Children : child[c] = "gone") => \A d \in Children : child[d] \in {"told", "gone"}
    /\ phase = "ended" <=> \A c \in Children : child[c] = "gone"

(* A code is written when no child has gone yet, and stays until the next run        *)
(* (dev-stack.mjs:134).                                                              *)
FirstCodeStays ==
  [][/\ code # "none" => code' = code \/ (phase = "ended" /\ phase' # "ended")
     /\ code' \notin {code, "none"} => \A c \in Children : child[c] # "gone"]_vars

LEMMA InitPInv == Init => PInv
BY DEF Init, PInv, PhaseType, PhaseHolds

LEMMA NextPInv == PInv /\ [Next]_vars => PInv'
<1> SUFFICES ASSUME PInv, [Next]_vars PROVE PInv'
  OBVIOUS
<1> USE DEF PInv, PhaseType
<1>1. CASE UNCHANGED stack
  BY <1>1 DEF stack, PhaseHolds
<1>2. ASSUME Dev \/ \E c \in Children : SpawnFails(c) PROVE PInv'
  BY <1>2 DEF Dev, SpawnFails, PhaseHolds
<1>3. ASSUME CtrlC PROVE PInv'
  BY <1>3 DEF CtrlC, Told, PhaseHolds, Children
<1>4. ASSUME NEW c \in Children, NEW x \in Codes, Exit(c, x) PROVE PInv'
  <2>1. CASE phase = "crashed"
    BY <1>4, <2>1 DEF Exit, PhaseHolds
  <2>2. CASE phase = "up"
    <3>1. child' = [d \in Children |-> IF d = c THEN "gone" ELSE "told"]
      BY <1>4, <2>2 DEF Exit, Told, PhaseHolds
    <3>2. phase' = "stopping" /\ code' = x /\ x # "none"
      BY <1>4, <2>2 DEF Exit, LastGone, PhaseHolds, Children, FirstCode, Codes
    <3> QED
      BY <3>1, <3>2 DEF PhaseHolds, Children
  <2>3. CASE phase = "stopping"
    <3>1. child' = [child EXCEPT ![c] = "gone"]
      BY <1>4, <2>3 DEF Exit
    <3>2. code' \in Codes /\ code' # "none"
      BY <1>4, <2>3 DEF Exit, FirstCode, Codes
    <3>3. CASE LastGone(c)
      <4>1. phase' = "ended"
        BY <1>4, <2>3, <3>3 DEF Exit
      <4> QED
        BY <3>1, <3>2, <3>3, <4>1 DEF PhaseHolds, LastGone
    <3>4. CASE ~ LastGone(c)
      <4>1. phase' = "stopping"
        BY <1>4, <2>3, <3>4 DEF Exit
      <4> QED
        BY <2>3, <3>1, <3>2, <3>4, <4>1 DEF PhaseHolds, LastGone
    <3> QED
      BY <3>3, <3>4
  <2>4. CASE phase \in {"down", "ended"}
    BY <1>4, <2>4 DEF Exit, PhaseHolds
  <2> QED
    BY <2>1, <2>2, <2>3, <2>4
<1>5. ASSUME BootShop \/ BootTask \/ Seed \/ StartPod \/ InstallPems
              \/ \E f \in Files, k \in Keys : \E v \in Values(k) : Edit(f, k, v)
      PROVE  UNCHANGED stack
  BY <1>5 DEF BootShop, BootTask, Seed, StartPod, InstallPems, Edit, stack
<1> QED
  BY <1>1, <1>2, <1>3, <1>4, <1>5 DEF Next, vars, stack

(* Nobody is left behind, and the end waits for the last. *)
THEOREM StopsTogetherHolds == Spec => []StopsTogether
<1>1. PInv => StopsTogether
  BY DEF PInv, PhaseType, PhaseHolds, StopsTogether, Children
<1> QED
  BY <1>1, InitPInv, NextPInv, PTL DEF Spec

(* The code with which dev-stack.mjs ends is that of the child that left first.      *)
THEOREM FirstCodeStaysHolds == Spec => FirstCodeStays
<1> DEFINE First == /\ code # "none" => code' = code \/ (phase = "ended" /\ phase' # "ended")
                    /\ code' \notin {code, "none"} => \A c \in Children : child[c] # "gone"
<1>1. ASSUME PInv, [Next]_vars PROVE First \/ UNCHANGED vars
  <2> USE DEF PInv, PhaseType, PhaseHolds
  <2>1. CASE code' = code
    BY <2>1
  <2>2. ASSUME Dev \/ CtrlC \/ \E c \in Children : SpawnFails(c) PROVE First
    BY <1>1, <2>2 DEF Dev, CtrlC, SpawnFails
  <2>3. ASSUME NEW c \in Children, NEW x \in Codes, Exit(c, x) PROVE First
    BY <1>1, <2>3 DEF Exit, FirstCode
  <2>4. ASSUME BootShop \/ BootTask \/ Seed \/ StartPod \/ InstallPems
                \/ \E f \in Files, k \in Keys : \E v \in Values(k) : Edit(f, k, v)
        PROVE  code' = code
    BY <2>4 DEF BootShop, BootTask, Seed, StartPod, InstallPems, Edit, stack
  <2> QED
    BY <1>1, <2>1, <2>2, <2>3, <2>4 DEF Next
<1>2. PInv /\ [Next]_vars => [First]_vars
  BY <1>1
<1> QED
  BY <1>2, InitPInv, NextPInv, PTL DEF Spec, FirstCodeStays

=============================================================================
