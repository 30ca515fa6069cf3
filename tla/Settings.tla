------------------------------ MODULE Settings ------------------------------
(***************************************************************************)
(* How the programs of the monorepo turn their settings into connections.  *)
(* Three programs read the same KAFKA_* keys, each with code of its own:   *)
(* the Nest services (packages/shared/src/kafka.ts), task-svc              *)
(* (Messaging/KafkaConsumerConfiguration.cs) and the script that creates   *)
(* the topics (scripts/ensure-kafka-topic.mjs).                            *)
(*                                                                         *)
(* An environment gives every key a value: "absent", "" for a key that is  *)
(* there without a value, or what distinguishes the values the code tests. *)
(* The contents of certificates, URLs and passwords are abstracted to      *)
(* "set"; KAFKA_USERNAME and KAFKA_PASSWORD are the one key CRED; CORE     *)
(* stands for DATABASE_URL, MONGO_URI and JWT_SECRET; MECH is              *)
(* KAFKA_SASL_MECHANISM and ENDPOINT the name of the algorithm that checks *)
(* the host of a certificate (KAFKA_SSL_ENDPOINT_IDENTIFICATION_ALGORITHM),*)
(* in lower case, as all programs make them.  REDIS_URL is a URL           *)
(* that names at most a password, or also an account or a database, or has *)
(* a word without a colon before its @, or is not a URL but the host and   *)
(* options that StackExchange.Redis reads.                                 *)
(***************************************************************************)
EXTENDS FiniteSets

KafkaKeys == {"BROKERS", "SSL", "CA", "CERT", "KEY", "CRED", "MECH", "ENDPOINT"}
Keys == KafkaKeys \cup {"CONSUMER", "REDIS", "TASK_DB", "CORE"}
Absent == "absent"

Mechanisms == {"scram-sha-256", "scram-sha-512", "plain"}
RedisURLs == {"url", "account url", "database url", "word url"}

Values(k) ==
  CASE k = "SSL" -> {Absent, "false", "False"}
    [] k = "MECH" -> {Absent, "", "other"} \cup Mechanisms
    [] k = "ENDPOINT" -> {Absent, "", "none", "https"}
    [] k = "CONSUMER" -> {Absent, "false"}
    [] k = "REDIS" -> {Absent, ""} \cup RedisURLs \cup {"host"}
    [] OTHER -> {Absent, "", "set"}

Environments == {e \in [Keys -> UNION {Values(k) : k \in Keys}] : \A k \in Keys : e[k] \in Values(k)}

IsSet(v) == v \notin {Absent, ""}
Nothing == [k \in Keys |-> Absent]

(***************************************************************************)
(* Where the first file that names a key, even without a value, decides.   *)
(***************************************************************************)
Over(first, second) == [k \in Keys |-> IF first[k] # Absent THEN first[k] ELSE second[k]]

(* resolveServiceEnvFiles lists the root file before the service's own *)
NestEnvBug(root, own) == Over(own, root)
NestEnv(root, own) == Over(root, own)

(* EnvFileLoader loads the service's own file first and never overwrites *)
TaskEnv(root, own) == Over(own, root)

(* what seed-secrets.mjs copies into shop-app-secrets: the listed keys that have a value *)
Seeded == (KafkaKeys \ {"SSL", "MECH", "ENDPOINT"}) \cup {"REDIS", "CORE"}
Forwarded(root) == [k \in Keys |-> IF k \in Seeded /\ IsSet(root[k]) THEN root[k] ELSE Absent]

(* A connection: where its trust comes from, whether the broker's host is checked against its *)
(* certificate, the parts of a client certificate, and the mechanism of the credentials.      *)
Off == [tls |-> "off", host |-> FALSE, cert |-> FALSE, key |-> FALSE, sasl |-> "none"]

(* the same switch in buildSasl and TryCreate: what it does not know is the default *)
Known(v) == IF v \in Mechanisms THEN v ELSE "scram-sha-256"

(* buildKafkaClient, buildSsl and buildSasl *)
NodeKafka(e) ==
  LET tls == IF e["SSL"] = "false" THEN "none" ELSE IF IsSet(e["CA"]) THEN "ca" ELSE "system"
  IN  IF ~ IsSet(e["BROKERS"]) THEN Off
      ELSE [tls |-> tls, host |-> tls # "none",
            cert |-> tls = "ca" /\ IsSet(e["CERT"]), key |-> tls = "ca" /\ IsSet(e["KEY"]),
            sasl |-> IF IsSet(e["CRED"]) THEN Known(e["MECH"]) ELSE "none"]

(* TryCreate, whose branch for client certificates comes before the one for SASL, and the *)
(* one program that can be told not to check the host                                     *)
TaskKafkaBug(e) ==
  LET tls == IF IsSet(e["CA"]) THEN "ca" ELSE "system"
      pems == \A k \in {"CA", "CERT", "KEY"} : IsSet(e[k])
  IN  IF ~ IsSet(e["BROKERS"]) \/ e["CONSUMER"] = "false" THEN Off
      ELSE [tls |-> tls, host |-> e["ENDPOINT"] # "none", cert |-> pems, key |-> pems,
            sasl |-> IF ~ pems /\ IsSet(e["CRED"]) THEN Known(e["MECH"]) ELSE "none"]
TaskKafka(e) ==
  LET tls == IF e["SSL"] \in {"false", "False"} THEN "none" ELSE IF IsSet(e["CA"]) THEN "ca" ELSE "system"
      pems == tls = "ca" /\ IsSet(e["CERT"]) /\ IsSet(e["KEY"])
  IN  IF ~ IsSet(e["BROKERS"]) \/ e["CONSUMER"] = "false" THEN Off
      ELSE [tls |-> tls, host |-> tls # "none" /\ e["ENDPOINT"] # "none", cert |-> pems, key |-> pems,
            sasl |-> IF tls # "none" /\ ~ pems /\ IsSet(e["CRED"]) THEN Known(e["MECH"]) ELSE "none"]

(* ensure-kafka-topic.mjs, which does not look at KAFKA_SSL and hands any mechanism to kafkajs *)
ScriptKafka(e) ==
  IF ~ IsSet(e["BROKERS"]) THEN Off
  ELSE [tls |-> IF IsSet(e["CA"]) THEN "ca" ELSE "system", host |-> TRUE,
        cert |-> IsSet(e["CA"]) /\ IsSet(e["CERT"]), key |-> IsSet(e["CA"]) /\ IsSet(e["KEY"]),
        sasl |-> IF ~ IsSet(e["CRED"]) THEN "none" ELSE IF e["MECH"] = Absent THEN "scram-sha-256" ELSE e["MECH"]]

(* the Redis client of shop-svc throws on what validateRedisUrl refuses; its default is a URL *)
ShopBoots(e) == e["REDIS"] \in {Absent} \cup RedisURLs

(* createClient hands the URL to ioredis, for which a lone word is an account without password *)
ShopRedis(e) ==
  LET v == e["REDIS"]
  IN  [at |-> IF v = Absent THEN "local" ELSE "there",
       account |-> CASE v = "account url" -> "named" [] v = "word url" -> "word" [] OTHER -> "default",
       password |-> v # "word url", db |-> IF v = "database url" THEN "named" ELSE "first"]

(* AddTaskCache: in memory without a value; NormalizeRedisUri keeps host, port, password and TLS, *)
(* and for it a lone word is a password *)
TaskRedis(e) ==
  [at |-> IF IsSet(e["REDIS"]) THEN "there" ELSE "memory",
   account |-> "default", password |-> TRUE, db |-> "first"]

(* task-svc takes the address of Redis in any form, or none; it throws without a database *)
TaskBoots(e) == IsSet(e["TASK_DB"])

Boots(p, e) == IF p = "task-svc" THEN TaskBoots(e) ELSE ShopBoots(e)
RedisOf(p, e) == IF p = "task-svc" THEN TaskRedis(e) ELSE ShopRedis(e)
KafkaOf(p, e) == IF p = "task-svc" THEN TaskKafka(e) ELSE NodeKafka(e)
=============================================================================
