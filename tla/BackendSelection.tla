---------------------------- MODULE BackendSelection ----------------------------
(***************************************************************************)
(* Which backends a server runs with: load_config (config.py) on the YAML  *)
(* file and the environment, and _build_pipeline (server.py), over runs of *)
(* the server between which the environment changes.                       *)
(*                                                                         *)
(* A pair of credentials (access and secret key, user name and password)   *)
(* counts as one; half a pair is worth what none is.  The variables        *)
(* TIO_* are those of "tvm" and TSC_* those of "sc".                       *)
(***************************************************************************)
EXTENDS Integers, FiniteSets

CONSTANTS
    NullAuth,   \* "auth:" with nothing under it: null in YAML
    NoBlock,    \* no "secondary:"
    Single      \* scan.policy_template_id is one value, not a mapping

Type == {"tvm", "sc"}

ASSUME NullAuthAssumption == NullAuth # {}

\* A variable that is set, not set, or set to "${user_config...}", the text
\* Claude Desktop passes on for a field that was left blank.
EnvValue == {"real", "unset", "template"}

\* The credentials in the environment, and KEVPULSE_BACKEND_TYPE.
Env == [keys : [Type -> EnvValue], override : Type \cup {"", "template"}]

\* "auth" is the set of credentials the block takes from the environment.
Block == [type : Type \cup {"other"}, auth : SUBSET Type \cup {NullAuth}]

File ==
    [backend : Block, secondary : Block \cup {NoBlock},
     feed_auth : {"none", "env", "literal", "null"},
     policy : {Single} \cup SUBSET Type]

(* config.example.yaml with "secondary:" filled in.                        *)
Shipped ==
    [backend |-> [type |-> "tvm", auth |-> {"tvm"}],
     secondary |-> [type |-> "sc", auth |-> {"sc"}],
     feed_auth |-> "env", policy |-> Single]

-----------------------------------------------------------------------------
(* load_config                                                             *)

\* _resolve_env does not raise.
Resolves(auth, env) == \A var \in auth : env.keys[var] # "unset"

\* _parse_backend_config returns a backend.
Usable(block, env) ==
    /\ block # NoBlock
    /\ block.type \in Type
    /\ block.auth # NullAuth
    /\ Resolves(block.auth, env)
    /\ block.type \in block.auth

\* It raises an AttributeError, which no one catches: "auth" has no get.
Breaks(block) ==
    block # NoBlock /\ block.type \in Type /\ block.auth = NullAuth

Blocks(file) == {file.backend, file.secondary}

\* Mutant: a backend whose block has an error counts.
DeclaredTypes(file, env) ==
    {block.type : block \in {b \in Blocks(file) : b # NoBlock /\ b.type \in Type}}

\* The dict "available": a second block of the same type adds nothing.
Available(file, env) ==
    {block.type : block \in {b \in Blocks(file) : Usable(b, env)}}

\* Mutant: any text is taken for the name of a backend.
AnyText(env) == env.override # ""

\* "any value that isn't exactly tvm or sc" is no override.
Overridden(env) == env.override \in Type

\* Mutant: the type of the first block, whether or not it is usable.
FirstBlock(file, env) ==
    IF Overridden(env) THEN env.override
    ELSE IF file.backend.type \in Type THEN file.backend.type ELSE "tvm"

PrimaryType(file, env) ==
    IF Overridden(env) THEN env.override
    ELSE IF Cardinality(Available(file, env)) = 1
         THEN CHOOSE t \in Available(file, env) : TRUE
         ELSE file.backend.type

\* Mutant: an error in either block is fatal.
EveryBlockUsable(file, env) ==
    /\ \A block \in Blocks(file) : block # NoBlock => Usable(block, env)
    /\ Overridden(env) => env.override \in Available(file, env)

\* At least one backend is there, and the one the override names.
BackendsLoad(file, env) ==
    /\ \A block \in Blocks(file) : ~ Breaks(block)
    /\ Available(file, env) # {}
    /\ Overridden(env) => env.override \in Available(file, env)

FeedLoads(file, env) ==
    /\ file.feed_auth # "null"
    /\ file.feed_auth = "env" => Resolves({"tvm"}, env)

\* One template id is refused when there are two backends.
PolicyLoads(file, env) ==
    file.policy = Single => Cardinality(Available(file, env)) = 1

Loads(file, env) ==
    BackendsLoad(file, env) /\ FeedLoads(file, env) /\ PolicyLoads(file, env)

\* Mutant: only the primary backend's keys are looked at.
PrimaryHasKeys(file, env) == PrimaryType(file, env) = "tvm"

\* _tvm_like: whichever backend is TVM's.
TvmHasKeys(file, env) == "tvm" \in Available(file, env)

\* What the Pipeline object is built with.
Settings(file, env) ==
    [primary |-> PrimaryType(file, env),
     adapters |-> Available(file, env),
     feed_keys |-> file.feed_auth # "none" \/ TvmHasKeys(file, env),
     policy |-> IF file.policy = Single THEN {PrimaryType(file, env)}
                                        ELSE file.policy]

-----------------------------------------------------------------------------
VARIABLES
    file,      \* config.yaml
    env,       \* the environment of the server's next, or present, run
    state,     \* the server is down, up, or load_config has raised
    server     \* the Pipeline object of the last run

vars == <<file, env, state, server>>

Server ==
    [primary : Type, adapters : (SUBSET Type) \ {{}}, feed_keys : BOOLEAN,
     policy : SUBSET Type]

NoServer == [primary |-> "tvm", adapters |-> {"tvm"}, feed_keys |-> FALSE, policy |-> {}]

TypeOK ==
    /\ file \in File
    /\ env \in Env
    /\ state \in {"down", "up", "failed"}
    /\ server \in Server
    /\ state = "up" => server.primary \in server.adapters

Init ==
    /\ file \in File
    /\ env \in Env
    /\ state = "down"
    /\ server = NoServer

\* The user changes a setting between two runs.
ChangeSetting ==
    /\ state # "up"
    /\ \/ \E t \in Type, v \in EnvValue : env' = [env EXCEPT !.keys[t] = v]
       \/ \E o \in Type \cup {"", "template"} : env' = [env EXCEPT !.override = o]
    /\ state' = "down"
    /\ UNCHANGED <<file, server>>

\* main: load_config and _build_pipeline.
Start ==
    /\ state = "down"
    /\ Loads(file, env)
    /\ state' = "up"
    /\ server' = Settings(file, env)
    /\ UNCHANGED <<file, env>>

StartRaises ==
    /\ state = "down"
    /\ ~ Loads(file, env)
    /\ state' = "failed"
    /\ UNCHANGED <<file, env, server>>

Stop ==
    /\ state = "up"
    /\ state' = "down"
    /\ UNCHANGED <<file, env, server>>

Next == ChangeSetting \/ Start \/ StartRaises \/ Stop

Spec == Init /\ [][Next]_vars

-----------------------------------------------------------------------------
Usables == {t \in Type : \E block \in Blocks(file) : Usable(block, env) /\ block.type = t}

(* config.py:217-227 and 266-271: a running server's primary backend is    *)
(* the one the override names; without one, the only one with usable       *)
(* credentials, whichever block it is in; with two, the one of             *)
(* backend.type.  The plugin feed has keys whenever one of them is TVM's.  *)
SettingsAsDocumented ==
    state = "up" =>
        /\ server.adapters = Usables
        /\ server.primary \in Usables
        /\ Overridden(env) => server.primary = env.override
        /\ ~ Overridden(env) /\ Usables = Type => server.primary = file.backend.type
        /\ "tvm" \in Usables => server.feed_keys

(* config.py:236-237 "an unset optional field must never take down an      *)
(* otherwise-working install": with the template text of a blank field the *)
(* server starts when it would with no override, and with the same         *)
(* settings.                                                               *)
BlankFieldHarmless ==
    env.override = "template" =>
        LET blank == [env EXCEPT !.override = ""]
        IN  /\ state = "failed" => ~ Loads(file, blank)
            /\ state = "up" => Loads(file, blank) /\ server = Settings(file, blank)

\* The file in which the block with no credentials, or with another error, is
\* not filled in: no second block, and a first one without credentials.
WithoutUnusable ==
    [file EXCEPT
        !.secondary = IF Usable(@, env) THEN @ ELSE NoBlock,
        !.backend = IF Usable(@, env) THEN @
                    ELSE [type |-> "tvm", auth |-> {}]]

(* config.py:173-175 "one incomplete/misconfigured block must never take   *)
(* the other, working one down with it": whatever is wrong with a block,   *)
(* the server starts exactly when it would were that block not filled in,  *)
(* and with the same primary, adapters, keys and policies.  An empty auth  *)
(* entry is left out: it takes the other block down (config.py:146), which *)
(* is Breaks and contradicts the comment.                                  *)
BadBlockHarmless ==
    ~ (\E block \in Blocks(file) : Breaks(block)) =>
        /\ state = "failed" => ~ Loads(WithoutUnusable, env)
        /\ state = "up" => /\ Loads(WithoutUnusable, env)
                           /\ server = Settings(WithoutUnusable, env)

(* config.example.yaml:30-33 "a customer who only has Security Center can  *)
(* leave backend.type: tvm's auth fields blank above and just fill in      *)
(* backend.secondary below; it will be detected and used automatically, no *)
(* further edits needed": blank is a variable that is not set, or the      *)
(* template text.                                                          *)
SecurityCenterOnlyWorks ==
    ( /\ file = Shipped
      /\ env.keys["sc"] = "real" /\ env.keys["tvm"] # "real"
      /\ ~ Overridden(env) )
        => state # "failed"
===============================================================================
