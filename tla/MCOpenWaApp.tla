----------------------------- MODULE MCOpenWaApp -----------------------------
(* The setups an operator may have: a good one of each kind, and those that *)
(* differ from it in one point.                                            *)
EXTENDS OpenWaApp

CONSTANTS m1, h1, h2

Variables == DOMAIN Values

OpenWaEnv ==
  [v \in Variables |->
     CASE v = "NODE_ENV" -> "development"
       [] v = "WHATSAPP_TRANSPORT" -> "openwa"
       [] v \in Switches -> "true"
       [] v \in {"DATABASE_URL", "LAWYER_PHONE_E164"} -> "set"
       [] OTHER -> "unset"]

CloudEnv ==
  [v \in Variables |->
     CASE v \in Secrets -> "set"
       [] v = "WHATSAPP_TRANSPORT" -> "cloud"
       [] OTHER -> OpenWaEnv[v]]

ProductionEnv ==
  [CloudEnv EXCEPT !.NODE_ENV = "production", !.WHATSAPP_CLOUD_APP_SECRET = "set"]

Good(env) ==
  [env |-> env, node22 |-> TRUE, database |-> "healthy",
   ignored |-> TRUE, creatable |-> TRUE, writable |-> TRUE, docker |-> TRUE]

Environments ==
  UNION {{[env EXCEPT ![v] = value] : value \in Values[v]} :
           env \in {OpenWaEnv, CloudEnv, ProductionEnv}, v \in Variables}

MCSetups ==
  LET good == {Good(env) : env \in {OpenWaEnv, CloudEnv, ProductionEnv}} IN
  {Good(env) : env \in Environments}
    \cup {[s EXCEPT !.database = d] :
            s \in good, d \in {"missing", "pending", "healthy", "alarming"}}
    \cup {[s EXCEPT ![check] = FALSE] :
            s \in good, check \in {"node22", "ignored", "creatable", "writable", "docker"}}
=============================================================================
