----------------------------- MODULE MCDevStack -----------------------------
(* The four root files the documentation describes: nothing yet, client    *)
(* certificates, SASL with a mechanism of its own, a plaintext local       *)
(* broker.                                                                 *)
EXTENDS DevStack

With(e) == [k \in Keys |-> IF k \in DOMAIN e THEN e[k]
                           ELSE IF k \in {"CORE", "TASK_DB"} THEN "set" ELSE IF k = "REDIS" THEN "url" ELSE Absent]
MCTemplates == {Nothing,
                With([BROKERS |-> "set", CA |-> "set", CERT |-> "set", KEY |-> "set", CRED |-> ""]),
                With([BROKERS |-> "set", CA |-> "set", CRED |-> "set", MECH |-> "scram-sha-512",
                      CERT |-> "", KEY |-> ""]),
                With([BROKERS |-> "set", SSL |-> "false"])}
=============================================================================
