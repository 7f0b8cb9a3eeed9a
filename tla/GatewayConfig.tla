---------------------------- MODULE GatewayConfig ----------------------------
(***************************************************************************)
(* What an instance is told and what it makes of it (cli/src/config.ts):   *)
(* options on the command line, the environment and a configuration file,  *)
(* the narrower one winning, resolved into where the instance listens, how *)
(* it lets clients in and where it keeps its state.  An option stands with *)
(* its value; a value or a host is a name, Unset when it is left out.      *)
(***************************************************************************)
EXTENDS Integers, Sequences, FiniteSets

CONSTANTS LoopbackHosts,   \* the names isLoopback knows, DefaultHost among them
          DefaultHost,
          Endpoints,       \* what names a port with its host
          Invalid,         \* a port out of range, a profile without a directory
          Unset            \* no value given

AnyHost == "any host"
NoDir == "none"
NoKey == 0

ValueOptions == {"--config", "--port", "--host", "--auth-key", "--profile", "--cwd-root",
                 "--allowed-origin", "--allowed-host", "--insecure-host", "--state-dir"}
Switches == {"--help", "--version", "--trust-proxy", "--no-parking-store", "--insecure", "--open"}
Arg(option, value) == [option |-> option, value |-> value]

\* an unknown option, a value left out or invalid ends the process
Malformed(argv) ==
    \E i \in DOMAIN argv :
        \/ argv[i].option \notin ValueOptions \cup Switches
        \/ argv[i].option \in ValueOptions /\ argv[i].value = Unset
        \/ argv[i].option \in {"--port", "--profile"} /\ argv[i].value = Invalid

\* the last one wins, but for the options that may be repeated
parseArgs(argv) ==
    LET At(option) == {i \in DOMAIN argv : argv[i].option = option}
        Final(option) == IF At(option) = {} THEN Unset
                         ELSE argv[CHOOSE i \in At(option) : \A j \in At(option) : j <= i].value
        Every(option) == {argv[i].value : i \in At(option)}
        Said(option) == At(option) # {}
    IN  [config |-> Final("--config"), host |-> Final("--host"),
         authKey |-> Final("--auth-key"), stateDir |-> Final("--state-dir"),
         allowedOrigins |-> Every("--allowed-origin"), allowedHosts |-> Every("--allowed-host"),
         insecureHosts |-> Every("--insecure-host"), trustProxy |-> Said("--trust-proxy"),
         parking |-> ~Said("--no-parking-store"), insecure |-> Said("--insecure"),
         informs |-> Said("--help") \/ Said("--version")]

\* a named file must be there; the one looked up where the process runs need not
NoFile == [path |-> Unset, host |-> Unset, secret |-> Unset, stateDir |-> Unset, trustProxy |-> FALSE,
           allowedOrigins |-> {}, allowedHosts |-> {}, insecureHosts |-> {},
           authenticate |-> FALSE, allowUnauthenticated |-> FALSE]
Path(flags) == IF flags.config # Unset THEN flags.config ELSE "claude-worker.config.mjs"
Missing(flags, files) == flags.config # Unset /\ Path(flags) \notin DOMAIN files
loadConfigFile(flags, files) ==
    IF Path(flags) \in DOMAIN files THEN [files[Path(flags)] EXCEPT !.path = Path(flags)] ELSE NoFile
defaultStateDir(path) == IF path = Unset THEN "home" ELSE "beside"

First(candidates, default) ==
    LET given == {i \in DOMAIN candidates : candidates[i] # Unset}
    IN  IF given = {} THEN default
        ELSE candidates[CHOOSE i \in given : \A j \in given : i <= j]

isLoopback(host) == host \in LoopbackHosts

\* insecureHosts are compared without a port; an entry with one is refused
normalizeInsecureHost(entries) == entries \ Endpoints
Unparseable(flags, file) == (flags.insecureHosts \cup file.insecureHosts) \cap Endpoints # {}

resolveInstanceConfig(flags, file, env) ==
    LET host == First(<<flags.host, env.host, file.host>>, DefaultHost)
        authKey == First(<<flags.authKey, env.authKey, file.secret>>, NoKey)
        insecureHosts == normalizeInsecureHost(flags.insecureHosts \cup file.insecureHosts)
        generateAuthKey == /\ authKey = NoKey
                           /\ ~file.authenticate /\ ~file.allowUnauthenticated
                           /\ ~isLoopback(host) /\ ~flags.insecure
                           /\ host \notin insecureHosts
        authEnabled == authKey # NoKey \/ file.authenticate \/ generateAuthKey
    IN  [host |-> host, authKey |-> authKey,
         hostAuthenticates |-> file.authenticate,
         generateAuthKey |-> generateAuthKey,
         trustProxy |-> flags.trustProxy \/ file.trustProxy,
         allowedOrigins |-> flags.allowedOrigins \cup file.allowedOrigins,
         stateDir |-> IF ~flags.parking \/ file.stateDir = NoDir THEN NoDir
                      ELSE First(<<flags.stateDir, env.stateDir, file.stateDir>>, defaultStateDir(file.path)),
         allowedHosts |-> IF authEnabled THEN {AnyHost}
                          ELSE LoopbackHosts \cup insecureHosts
                               \cup flags.allowedHosts \cup file.allowedHosts]
=============================================================================
