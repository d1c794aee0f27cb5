-------------------------- MODULE MCScriptService --------------------------
(***************************************************************************)
(* Instances of ScriptService for TLC.                                     *)
(***************************************************************************)
EXTENDS ScriptService, TLC

CONSTANTS r1, r2

\* A script of two effects, one that may never end, one that is not on the
\* whitelist, and one that is but has a name that the directory refuses.
Programs ==
  ("report.abc" :> <<"cacheSet", "publish">>) @@ ("loop.abc" :> <<>>)
    @@ ("secret.abc" :> <<"abcExec">>) @@ ("../up.abc" :> <<"getItem">>)

Http(token, parses, script) ==
  [from |-> "http", token |-> token, parses |-> parses, script |-> script]
Command(script) ==
  [from |-> "command", token |-> FALSE, parses |-> TRUE, script |-> script]

\* Every way to be turned down, and the scripts that run from either side.
SomeAsks ==
  {Http(TRUE, TRUE, s) : s \in DOMAIN Programs}
    \cup {Http(FALSE, TRUE, "report.abc"), Http(TRUE, FALSE, "report.abc")}
    \cup {Command("report.abc"), Command("loop.abc"), Command("secret.abc")}

Env(jwt, env, publisher, consumer) ==
  [jwt |-> jwt, env |-> env, publisher |-> publisher, consumer |-> consumer]

\* Every adapter alone and all of them together, and every way in which the
\* consumer and the publisher meet: apart, nested, and nested under a lock.
Optionals == {"abc", "store", "lambda", "email"}
SomeSettings ==
  {Env(TRUE, {p}, "none", "none") : p \in Optionals}
    \cup {Env(TRUE, {}, "kafka", "rabbit"), Env(TRUE, Optionals, "tokio", "rabbit"),
          Env(FALSE, Optionals, "rabbit", "rabbit")}

=============================================================================
