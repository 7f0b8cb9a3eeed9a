------------------------------- MODULE Gateway -------------------------------
(***************************************************************************)
(* An instance of the command line from its start to its stop, and again:  *)
(* what it resolves (config.ts), the key it makes or finds (auth-key.ts),  *)
(* the guard it serves behind (instance.ts), and whom it lets in (auth.ts).*)
(* Reading and writing the key file are steps of their own, and the        *)
(* process may die between any two.  A login's body arrives after its      *)
(* sender was checked, and nothing keeps a client from having several on   *)
(* their way.  Nothing but the key file outlives the process.              *)
(*                                                                         *)
(* A definition that directly precedes the one it resembles is a faulty    *)
(* variant, used to show that a check can fail.                            *)
(***************************************************************************)
EXTENDS GatewayConfig, SequencesExt

CONSTANTS Told,            \* what a start may be told: argv, env and files
          Dirs,            \* state directories
          Client,
          Proxied,         \* the clients that come through a reverse proxy
          Proxy,           \* its own address
          Host,            \* what a Host header may name
          ShortKeys,       \* keys createCliAuth finds too short
          MaxSessions, TTL, Window, MaxPerIp, MaxGlobal,
          ReadMayFail,     \* a key file that is there may be unreadable
          Slot,            \* bound: room for the logins that are on their way at once
          MaxStarts, MaxLogins, LastInstant    \* bounds

ASSUME GatewayAssumption ==
    /\ {MaxSessions, TTL, Window, MaxPerIp, MaxGlobal} \subseteq Nat \ {0}
    /\ IsFiniteSet(Client) /\ IsFiniteSet(Slot)
    /\ {MaxStarts, MaxLogins, LastInstant} \subseteq Nat
    /\ DefaultHost \in LoopbackHosts /\ AnyHost \notin LoopbackHosts
    /\ NoDir \notin Dirs /\ Unset \notin Host
    /\ Proxied \subseteq Client /\ Proxy \notin Client /\ ReadMayFail \in BOOLEAN

Resolved(told) ==
    LET flags == parseArgs(told.argv)
    IN  resolveInstanceConfig(flags, loadConfigFile(flags, told.files), told.env)
ASSUME ToldAssumption ==
    \A told \in Told : /\ Resolved(told).stateDir \in Dirs \cup {NoDir}
                       /\ Resolved(told).authKey \in Nat

VARIABLES
    phase,      \* of the process: down, reading, writing, written, arming, up
    config,     \* the resolved configuration
    keyFile,    \* by directory: none, corrupt, or the key it holds
    secret,     \* the key the instance was armed with, if any
    sessions,   \* the table of browser sessions, oldest first
    cookie,     \* by client: the token its browser holds
    login,      \* by slot: a login whose body is being read, whose and with what
    failures,   \* by address: wrong answers and the start of their window
    globalFailures,
    now,
    starts, minted, answered,   \* counters: of starts, generated keys, logins
    issued,     \* history: the sessions this process issued, and when
    out,        \* history: the tokens logged out of
    wrong,      \* history: the wrong answers this process was given
    most,       \* history: by address, the most logins it had on their way at once
    globalMost, \* history: the most there were of all
    kept        \* history: by directory, the key an instance served with

process == <<phase, config, secret>>
table == <<sessions, issued, out>>
throttle == <<failures, globalFailures, wrong>>
reading == <<login, most, globalMost>>
vars == <<process, keyFile, table, cookie, reading, throttle, now, starts, minted, answered, kept>>

NoFileYet == 0
Corrupt == -1
Usable(content) == content > 0
NoToken == 0
NoConfig == [generateAuthKey |-> FALSE, hostAuthenticates |-> FALSE, allowedHosts |-> {}]
NoFailures == [count |-> 0, windowStart |-> 0]
Addresses == Client \cup {Proxy}
NoLogin == [client |-> Proxy, candidate |-> "none"]
Posted == [client : Client, candidate : {"right", "wrong", "malformed"}]
NoLogins == [a \in Slot |-> NoLogin]
Nobody == [ip \in Addresses |-> 0]

enabled == secret # NoKey
Up == phase = "up"

Init ==
    /\ phase = "down" /\ config = NoConfig /\ secret = NoKey
    /\ keyFile \in [Dirs -> {NoFileYet, Corrupt}]
    /\ sessions = <<>> /\ issued = {} /\ out = {}
    /\ cookie = [c \in Client |-> NoToken]
    /\ login = NoLogins /\ most = Nobody /\ globalMost = 0
    /\ failures = [ip \in Addresses |-> NoFailures] /\ globalFailures = NoFailures
    /\ wrong = {} /\ now = Window
    /\ starts = 0 /\ minted = 0 /\ answered = 0
    /\ kept = [d \in Dirs |-> NoKey]

-----------------------------------------------------------------------------
(* The process.                                                            *)
Serving == UNCHANGED <<table, cookie, reading, throttle>>

\* main: parse, load, resolve; what the key promised to be there comes next
Runnable(told) ==
    LET flags == parseArgs(told.argv)
    IN  /\ ~Malformed(told.argv) /\ ~flags.informs
        /\ ~Missing(flags, told.files) /\ ~Unparseable(flags, loadConfigFile(flags, told.files))
Start(told) ==
    /\ phase = "down" /\ starts < MaxStarts
    /\ Runnable(told)
    /\ starts' = starts + 1
    /\ config' = Resolved(told)
    /\ phase' = IF config'.generateAuthKey /\ ~config'.hostAuthenticates
                THEN "reading" ELSE "arming"
    /\ secret' = IF config'.hostAuthenticates THEN NoKey ELSE config'.authKey
    /\ UNCHANGED <<keyFile, now, minted, answered, kept>> /\ Serving

\* keys the operator gives are below, keys that are generated above
Generated(n) == 10 + n

\* materializeAuthKey, without a directory: a key for this run
MintUnarmed ==
    /\ phase = "reading" /\ config.stateDir = NoDir
    /\ minted' = minted + 1 /\ phase' = "arming"
    /\ UNCHANGED <<config, keyFile, secret, now, starts, answered, kept>> /\ Serving
MintEphemeral ==
    /\ phase = "reading" /\ config.stateDir = NoDir
    /\ minted' = minted + 1 /\ secret' = Generated(minted')
    /\ phase' = "arming"
    /\ UNCHANGED <<config, keyFile, now, starts, answered, kept>> /\ Serving

\* ... with one: a usable key is reused, anything else replaced
ReadKeyNever ==
    /\ phase = "reading" /\ config.stateDir # NoDir
    /\ minted' = minted + 1 /\ secret' = Generated(minted') /\ phase' = "writing"
    /\ UNCHANGED <<config, keyFile, now, starts, answered, kept>> /\ Serving
ReadKey ==
    LET content == keyFile[config.stateDir]
    IN  /\ phase = "reading" /\ config.stateDir # NoDir
        /\ \/ /\ Usable(content)
              /\ secret' = content /\ phase' = "arming"
              /\ UNCHANGED minted
           \/ /\ ~Usable(content) \/ ReadMayFail
              /\ minted' = minted + 1 /\ secret' = Generated(minted') /\ phase' = "writing"
        /\ UNCHANGED <<config, keyFile, now, starts, answered, kept>> /\ Serving

\* writeFile truncates before it writes
WriteKey ==
    /\ \/ /\ phase = "writing" /\ phase' = "written"
          /\ keyFile' = [keyFile EXCEPT ![config.stateDir] = Corrupt]
       \/ /\ phase = "written" /\ phase' = "arming"
          /\ keyFile' = [keyFile EXCEPT ![config.stateDir] = secret]
    /\ UNCHANGED <<config, secret, now, starts, minted, answered, kept>> /\ Serving

\* the last look before serving: a guard that stood down needs a key or a host
\* that authenticates
Refuses == config.allowedHosts = {AnyHost} /\ ~config.hostAuthenticates /\ ~enabled
TooShort == secret \in ShortKeys
Arm ==
    /\ phase = "arming" /\ ~Refuses /\ ~TooShort
    /\ phase' = "up"
    /\ kept' = IF config.generateAuthKey /\ config.stateDir # NoDir
               THEN [kept EXCEPT ![config.stateDir] = secret] ELSE kept
    /\ UNCHANGED <<config, keyFile, secret, now, starts, minted, answered>> /\ Serving

\* a signal, a crash, a key too short, or a port that cannot be listened on
Stop ==
    /\ phase # "down" /\ phase' = "down"
    /\ config' = NoConfig /\ secret' = NoKey
    /\ sessions' = <<>> /\ issued' = {} /\ out' = {}
    /\ login' = NoLogins /\ most' = Nobody /\ globalMost' = 0
    /\ failures' = [ip \in Addresses |-> NoFailures] /\ globalFailures' = NoFailures /\ wrong' = {}
    /\ UNCHANGED <<keyFile, cookie, now, starts, minted, answered, kept>>

\* time is of no account to a process that serves nobody
Tick ==
    /\ Up /\ now < LastInstant /\ now' = now + 1
    /\ UNCHANGED <<process, keyFile, starts, minted, answered, kept>> /\ Serving

-----------------------------------------------------------------------------
(* Who is who.                                                             *)
clientIp(c) == IF c \in Proxied /\ ~config.trustProxy THEN Proxy ELSE c

\* a proxied page knows the instance by the name the proxy gives it
OwnOrigin(c) == IF c \in Proxied THEN "outer" ELSE "inner"
expectedOrigin(c) == IF c \in Proxied /\ config.trustProxy THEN "outer" ELSE "inner"
originVerdict(c, origin) ==
    IF origin = "absent" THEN "absent"
    ELSE IF origin \in config.allowedOrigins \cup {expectedOrigin(c)} THEN "ok" ELSE "foreign"

Entry(token) == {i \in DOMAIN sessions : sessions[i].token = token}
hasSession(token) == \E i \in Entry(token) : sessions[i].expiresAt > now

\* a key in a header decides; a cookie needs the page's own origin, and one
\* that is stated if anything is to change
authenticate(c, req) ==
    LET verdict == originVerdict(c, req.origin)
    IN  IF ~enabled THEN "open"
        ELSE IF req.key # NoKey THEN (IF req.key = secret THEN "header" ELSE "refused")
        ELSE IF /\ hasSession(req.token) /\ verdict # "foreign"
                /\ req.unsafe => verdict = "ok"
             THEN "cookie" ELSE "refused"

hostAllowed(host) ==
    \/ config.allowedHosts = {AnyHost}
    \/ host = Unset
    \/ isLoopback(host) \/ host \in config.allowedHosts
Admits(c, req) == hostAllowed(req.host) /\ authenticate(c, req) # "refused"

\* the document a page is served outside the API
Document(token) == IF enabled /\ ~hasSession(token) THEN "login page" ELSE "application"

-----------------------------------------------------------------------------
(* The routes.                                                             *)
Without(token) ==
    IF Entry(token) = {} THEN sessions
    ELSE RemoveAt(sessions, CHOOSE i \in Entry(token) : TRUE)

\* whatever asks for a session drops it once it is expired
Presents(c) ==
    /\ Up /\ enabled /\ Entry(cookie[c]) # {} /\ ~hasSession(cookie[c])
    /\ sessions' = Without(cookie[c])
    /\ UNCHANGED <<process, keyFile, issued, out, cookie, reading, throttle, now, starts, minted, answered, kept>>

createSession ==
    Append(IF Len(sessions) >= MaxSessions THEN Tail(sessions) ELSE sessions,
           [token |-> answered + 1, expiresAt |-> now + TTL])

blocked(entry, max) == entry.count >= max /\ now - entry.windowStart < Window
loginBlocked(ip) == blocked(failures[ip], MaxPerIp) \/ blocked(globalFailures, MaxGlobal)
OneMoreSliding(entry) == [count |-> entry.count + 1, windowStart |-> now]
\* a window is fixed: it begins with the first wrong answer
OneMore(entry) ==
    IF entry = NoFailures \/ now - entry.windowStart >= Window
    THEN [count |-> 1, windowStart |-> now]
    ELSE [entry EXCEPT !.count = @ + 1]
recordFailure(ip) ==
    /\ failures' = [failures EXCEPT ![ip] = OneMore(@)]
    /\ globalFailures' = OneMore(globalFailures)
    /\ wrong' = wrong \cup {[ip |-> ip, at |-> now, nth |-> answered]}

\* POST /auth/login up to its body: it is checked against the wrong answers there
\* were by then, whatever other logins of the client are still being read
Reading == {a \in Slot : login[a] # NoLogin}
ReadingFrom(ip) == {a \in Reading : clientIp(login[a].client) = ip}
Larger(m, n) == IF m < n THEN n ELSE m
Login(a, post, origin) ==
    LET ip == clientIp(post.client)
    IN  /\ Up /\ enabled /\ login[a] = NoLogin /\ answered < MaxLogins
        /\ originVerdict(post.client, origin) # "foreign"
        /\ ~loginBlocked(ip)
        /\ login' = [login EXCEPT ![a] = post]
        /\ most' = [most EXCEPT ![ip] = Larger(@, Cardinality(ReadingFrom(ip)) + 1)]
        /\ globalMost' = Larger(globalMost, Cardinality(Reading) + 1)
        /\ UNCHANGED <<process, keyFile, table, cookie, throttle, now, starts, minted, answered, kept>>

\* ... and with it; a malformed one is answered and forgotten
LoginRead(a) ==
    LET c == login[a].client
        candidate == login[a].candidate
    IN  /\ Up /\ a \in Reading
        /\ login' = [login EXCEPT ![a] = NoLogin]
        /\ \/ /\ candidate = "malformed"
              /\ UNCHANGED <<table, cookie, throttle, answered>>
           \/ /\ candidate = "wrong" /\ recordFailure(clientIp(c))
              /\ answered' = answered + 1
              /\ UNCHANGED <<table, cookie>>
           \/ /\ candidate = "right"
              /\ failures' = [failures EXCEPT ![clientIp(c)] = NoFailures]
              /\ sessions' = createSession
              /\ answered' = answered + 1
              /\ issued' = issued \cup {[token |-> answered', at |-> now]}
              /\ cookie' = [cookie EXCEPT ![c] = answered']
              /\ UNCHANGED <<out, globalFailures, wrong>>
        /\ UNCHANGED <<process, keyFile, most, globalMost, now, starts, minted, kept>>

\* POST /auth/logout
handleLogoutOfPage(c, origin) ==
    /\ Up /\ cookie[c] # NoToken
    /\ enabled => originVerdict(c, origin) # "foreign"
    /\ out' = IF enabled THEN out \cup {cookie[c]} ELSE out
    /\ cookie' = [cookie EXCEPT ![c] = NoToken]
    /\ UNCHANGED <<process, keyFile, sessions, issued, reading, throttle, now, starts, minted, answered, kept>>
handleLogout(c, origin) ==
    /\ Up /\ cookie[c] # NoToken
    /\ enabled => originVerdict(c, origin) # "foreign"
    /\ IF enabled THEN sessions' = Without(cookie[c]) /\ out' = out \cup {cookie[c]}
                  ELSE UNCHANGED <<sessions, out>>
    /\ cookie' = [cookie EXCEPT ![c] = NoToken]
    /\ UNCHANGED <<process, keyFile, issued, reading, throttle, now, starts, minted, answered, kept>>

Next ==
    \/ \E told \in Told : Start(told)
    \/ MintEphemeral \/ ReadKey \/ WriteKey \/ Arm \/ Stop \/ Tick
    \/ \E c \in Client :
          \/ Presents(c)
          \/ \E origin \in {"absent", OwnOrigin(c), "elsewhere"} : handleLogout(c, origin)
    \/ \E a \in Slot :
          \/ LoginRead(a)
          \/ \E post \in Posted :
                \E origin \in {"absent", OwnOrigin(post.client), "elsewhere"} : Login(a, post, origin)

Spec == Init /\ [][Next]_vars

-----------------------------------------------------------------------------
(* Properties.                                                             *)

TypeOK ==
    /\ phase \in {"down", "reading", "writing", "written", "arming", "up"}
    /\ keyFile \in [Dirs -> Int] /\ kept \in [Dirs -> Nat] /\ secret \in Nat
    /\ cookie \in [Client -> 0..answered]
    /\ login \in [Slot -> Posted \cup {NoLogin}]

\* The tables keep to what they are for.  Sessions keep their cap, oldest first;
\* the wrong answers of a window keep the throttle's limit, but for as many as
\* there were logins on their way at once, which nothing limits (auth.ts:399-407);
\* and a login is turned away only after enough wrong answers within the window,
\* from its address or from all.
InWindow(entry) == now - entry.windowStart < Window
Recent == {w \in wrong : w.at > now - Window}
TablesTell ==
    /\ Len(sessions) <= MaxSessions
    /\ \A i, j \in DOMAIN sessions : i < j => sessions[i].token < sessions[j].token
    /\ Up => \A c \in Client :
         LET ip == clientIp(c) IN
         /\ InWindow(failures[ip]) => failures[ip].count < MaxPerIp + most[ip]
         /\ InWindow(globalFailures) => globalFailures.count < MaxGlobal + globalMost
         /\ loginBlocked(ip) =>
              \/ Cardinality({w \in Recent : w.ip = ip}) >= MaxPerIp
              \/ Cardinality(Recent) >= MaxGlobal

\* The two halves of the seam agree: a configuration that stands the host guard
\* down always comes with a key or a host that authenticates, so that the last
\* look of startInstance refuses no start (config.ts:406, instance.ts:146).  A bind
\* beyond loopback without a key is given one; auth.ts:25 and packages/cli/
\* README.md:36 still say that it is refused.  And who brings neither key nor
\* session gets in only where no key is kept, under a name of the machine's own,
\* one the instance was told to expect, or no name at all (instance.ts:52).
Bare(host) == [host |-> host, origin |-> "absent", key |-> NoKey, token |-> NoToken, unsafe |-> TRUE]
SeamHolds ==
    /\ phase = "arming" => ~Refuses
    /\ Up /\ ~config.hostAuthenticates => \A c \in Client, host \in Host \cup {Unset} :
         Admits(c, Bare(host)) =>
             /\ ~enabled
             /\ host = Unset \/ isLoopback(host) \/ host \in config.allowedHosts

\* A session is good for the page and for the API alike from its login until its
\* logout or its end, for whatever copy of its cookie, whatever logins, logouts
\* and restarts come between, unless MaxSessions later logins took its place
\* (auth.ts:153, 173); a cookie of an earlier process is good for nothing.
Good(s) == s.token \notin out /\ s.at + TTL > now
Later(s) == {t \in issued : t.token > s.token}
ByCookie(c, token, unsafe) ==
    [host |-> Unset, origin |-> OwnOrigin(c), key |-> NoKey, token |-> token, unsafe |-> unsafe]
SessionsTell ==
    Up /\ enabled => \A token \in 1..answered :
        LET mine == {s \in issued : s.token = token}
            in == Document(token) = "application"
        IN  /\ in => \E s \in mine : Good(s)
            /\ ~in => \A s \in mine : Good(s) => Cardinality(Later(s)) >= MaxSessions
            /\ \A c \in Client, unsafe \in BOOLEAN :
                 originVerdict(c, OwnOrigin(c)) = "ok" =>
                     (Admits(c, ByCookie(c, token, unsafe)) <=> in)

\* "a restart does not un-pair every client" (auth-key.ts:16): the key an instance
\* once served with from a state directory is the one every later start that
\* generates its key there serves with, whenever the process died.
KeyKept ==
    [][\A d \in Dirs : kept[d] # NoKey => kept'[d] = kept[d]]_vars
=============================================================================
