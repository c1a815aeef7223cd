------------------------------- MODULE Startup --------------------------------
(***************************************************************************)
(* main (nvidia_nim_proxy/server.py) with load_pool_keys and the broker    *)
(* (credentials.py): from the environment and the command line to a server *)
(* that listens, with the catalog's worker beside it, and to the end of    *)
(* the process, which may come at any time.                                *)
(***************************************************************************)
EXTENDS Integers, SequencesExt

CONSTANTS
    Keys,     \* values of the keys, NVIDIA's and the proxy's own
    NoKey,    \* a variable that is unset or empty
    Blank,    \* one of white space only
    Settings  \* what the process may be started with

ASSUME StartupAssumption ==
    /\ NoKey \notin Keys /\ Blank \notin Keys /\ NoKey # Blank
    /\ \A s \in Settings : s.mode \in {"env", "client", "pool"} /\ s.loopback \in BOOLEAN

VARIABLES
    server,  \* down, built, bound or serving
    config,  \* ProxyConfig
    worker   \* the catalog: none, built or running

startupVars == <<server, config, worker>>

NoConfig ==
    [mode |-> "none", keys |-> {}, clientKey |-> NoKey, loopback |-> TRUE,
     diagnostic |-> TRUE]

Down ==
    /\ server = "down"
    /\ config = NoConfig
    /\ worker = "none"

-----------------------------------------------------------------------------
\* Reasons for not starting

\* load_pool_keys: no entry, an empty one, or the same key twice.
PoolKeysRejected(entries) ==
    \/ entries = <<>>
    \/ ToSet(entries) \cap {NoKey, Blank} # {}
    \/ ~IsInjective(entries)

\* Seeded fault: the proxy's own key may be one of the pool's.
KeysRejectedButShared(s) ==
    \/ s.mode = "env" /\ s.envKey = NoKey
    \/ s.mode = "pool" /\ (s.clientKey = NoKey \/ PoolKeysRejected(s.poolKeys))

KeysRejected(s) ==
    \/ s.mode = "env" /\ s.envKey = NoKey
    \/ /\ s.mode = "pool"
       /\ \/ s.clientKey = NoKey
          \/ PoolKeysRejected(s.poolKeys)
          \/ s.clientKey \in ToSet(s.poolKeys)

\* validate_bind_security
BindRejected(s) == ~s.loopback /\ (~s.allowRemote \/ s.mode = "env")

Discovers(s) == s.discovery # "off" /\ s.upstream = "public"

CatalogRejected(s) ==
    \/ s.sync # "off" /\ ~Discovers(s)
    \/ s.sync # "off" /\ ~s.loopback
    \/ s.sync = "not json"
    \/ Discovers(s) /\ s.discovery = "too often"

Rejected(s) ==
    \/ s.loop /\ s.mode # "pool"
    \/ KeysRejected(s)
    \/ BindRejected(s)
    \/ CatalogRejected(s)
    \/ s.upstream = "invalid"

\* What requests look at later on.
Kept(s) ==
    [mode |-> s.mode,
     keys |-> CASE s.mode = "env" -> {s.envKey}
                [] s.mode = "pool" -> ToSet(s.poolKeys)
                [] OTHER -> {},
     clientKey |-> IF s.mode = "pool" THEN s.clientKey ELSE NoKey,
     loopback |-> s.loopback,
     diagnostic |-> s.diagnostic]

-----------------------------------------------------------------------------
\* The process

\* A process with settings that are rejected exits and leaves no trace.
Build ==
    /\ server = "down"
    /\ \E s \in {t \in Settings : ~Rejected(t)} :
           /\ config' = Kept(s)
           /\ worker' = IF Discovers(s) THEN "built" ELSE "none"
    /\ server' = "built"

\* build_server; when the port is taken the process exits.
Listen ==
    /\ server = "built"
    /\ server' = "bound"
    /\ UNCHANGED <<config, worker>>

StartWorker ==
    /\ server = "bound"
    /\ server' = "serving"
    /\ worker' = IF worker = "built" THEN "running" ELSE worker
    /\ UNCHANGED config

\* An interrupt, a kill, or no port.
Exit ==
    /\ server # "down"
    /\ server' = "down"
    /\ config' = NoConfig
    /\ worker' = "none"

-----------------------------------------------------------------------------
\* Properties

\* A process that does not get its port has no worker that would change the
\* cache or OpenCode's configuration behind the back of the one that has it.
PortFirst == worker = "running" => server \in {"bound", "serving"}
=============================================================================
