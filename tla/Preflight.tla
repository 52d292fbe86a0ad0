------------------------------ MODULE Preflight ------------------------------
(***************************************************************************)
(* What decides whether a runtime starts: the schemas of the environment   *)
(* (config/env.ts), the operator's preflight (app/opsPreflight.ts) and the *)
(* checks of the two runtimes themselves (app/openwaSmoke.ts,              *)
(* app/whatsappCloudRuntime.ts).                                           *)
(*                                                                         *)
(* A setup is what they look at:                                           *)
(*   env       the environment variables                                   *)
(*   node22    the version of Node.js is 22                                *)
(*   database  the file: missing, pending migrations, migrated, or migrated *)
(*             with something business:check or case:doctor alarms about   *)
(*   ignored, creatable, writable   the directories of the runtime         *)
(*   docker    docker, its compose plugin and the compose service are there *)
(* A variable is unset, empty (no character), blank (white space), bad (its *)
(* schema refuses it) or one of its good values.                           *)
(***************************************************************************)
EXTENDS TLC

Secrets == {"WHATSAPP_CLOUD_API_VERSION", "WHATSAPP_CLOUD_PHONE_NUMBER_ID",
            "WHATSAPP_CLOUD_VERIFY_TOKEN", "WHATSAPP_CLOUD_ACCESS_TOKEN"}

Switches == {"DATABASE_MIGRATIONS_ENABLED", "BUSINESS_PERSISTENCE_ENABLED",
             "TECHNICAL_PERSISTENCE_ENABLED"}

(* The values a variable may have.  OPENWA and WEBHOOK stand for the other *)
(* OPENWA_ variables and for the host and port of the webhook.             *)
Values ==
  [v \in Secrets \cup {"WHATSAPP_CLOUD_APP_SECRET"} |-> {"unset", "empty", "blank", "set"}] @@
  [v \in Switches |-> {"unset", "true", "false", "bad"}] @@
  [NODE_ENV |-> {"unset", "development", "production", "bad"},
   WHATSAPP_TRANSPORT |-> {"unset", "openwa", "cloud", "bad"},
   DATABASE_URL |-> {"unset", "empty", "set"},
   LAWYER_PHONE_E164 |-> {"unset", "blank", "bad", "set"},
   OPENWA |-> {"unset", "bad", "set"},
   WEBHOOK |-> {"unset", "bad", "blank", "set"}]

-----------------------------------------------------------------------------
(* The schemas *)

On(env, switch) == env[switch] \in {"unset", "true"}

(* EnvSchema                                                               *)
LoadsEnv(env) ==
  /\ env.NODE_ENV # "bad" /\ env.WHATSAPP_TRANSPORT # "bad"
  /\ env.DATABASE_URL # "empty"
  /\ \A s \in Switches : env[s] # "bad"

(* SmokeRuntimeEnvSchema                                                   *)
LoadsSmokeEnv(env) ==
  /\ LoadsEnv(env)
  /\ env.WHATSAPP_TRANSPORT # "cloud"
  /\ env.LAWYER_PHONE_E164 = "set"
  /\ env.OPENWA # "bad"

(* WhatsAppCloudRuntimeEnvSchema                                           *)
LoadsCloudEnv(env) ==
  /\ LoadsEnv(env)
  /\ env.WHATSAPP_TRANSPORT = "cloud"
  /\ env.LAWYER_PHONE_E164 = "set"
  /\ \A s \in Secrets : env[s] \in {"blank", "set"}
  /\ env.WHATSAPP_CLOUD_APP_SECRET # "empty"
  /\ env.WEBHOOK # "bad"

-----------------------------------------------------------------------------
(* ops:preflight *)

(* inferTransport                                                          *)
Transport(env) == IF env.WHATSAPP_TRANSPORT = "cloud" THEN "cloud" ELSE "openwa"

(* hasConfiguredValue                                                      *)
Configured(env, v) == env[v] \in {"bad", "set"}

IsMigrated(setup) == setup.database \in {"healthy", "alarming"}

(* The runs of business:check and of case:doctor.                          *)
ChecksPass(setup) == LoadsEnv(setup.env) /\ setup.database = "healthy"

OpenWaUnblocked(setup) == LoadsSmokeEnv(setup.env)

(* Mutant: the secret is not asked for in production.                      *)
CloudUnblockedBySecrets(setup) ==
  /\ Configured(setup.env, "LAWYER_PHONE_E164")
  /\ \A s \in Secrets : Configured(setup.env, s)
  /\ LoadsCloudEnv(setup.env)
  /\ setup.docker

CloudUnblocked(setup) ==
  /\ Configured(setup.env, "LAWYER_PHONE_E164")
  /\ \A s \in Secrets : Configured(setup.env, s)
  /\ setup.env.NODE_ENV = "production" => Configured(setup.env, "WHATSAPP_CLOUD_APP_SECRET")
  /\ LoadsCloudEnv(setup.env)
  /\ setup.docker

(* No blocker: the report says "ready".                                    *)
PreflightReady(setup) ==
  /\ setup.node22
  /\ LoadsEnv(setup.env)
  /\ setup.env.DATABASE_MIGRATIONS_ENABLED # "unset"
  /\ On(setup.env, "BUSINESS_PERSISTENCE_ENABLED")
  /\ IF Transport(setup.env) = "cloud" THEN CloudUnblocked(setup) ELSE OpenWaUnblocked(setup)
  /\ IsMigrated(setup)
  /\ ChecksPass(setup)
  /\ setup.ignored /\ setup.creatable /\ setup.writable

-----------------------------------------------------------------------------
(* The checks of a start *)

(* startOpenWaSmokeApp up to the status server.                            *)
OpenWaStarts(setup) ==
  /\ LoadsSmokeEnv(setup.env)
  /\ On(setup.env, "BUSINESS_PERSISTENCE_ENABLED")
  /\ IsMigrated(setup)

(* startWhatsAppCloudRuntime up to its server.                             *)
CloudStarts(setup) ==
  /\ LoadsCloudEnv(setup.env)
  /\ setup.env.NODE_ENV = "production" => setup.env.WHATSAPP_CLOUD_APP_SECRET # "unset"
  /\ On(setup.env, "BUSINESS_PERSISTENCE_ENABLED")
  /\ IsMigrated(setup)
=============================================================================
