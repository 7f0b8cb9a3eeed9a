---------------------------- MODULE GatewayProofs ----------------------------
(***************************************************************************)
(* What the runs of Gateway check on a small instance, for any number of   *)
(* clients, state directories, starts and keys, and anything an instance   *)
(* may be told: the guard and the key agree (SeamHolds), a key that was    *)
(* served with is kept (KeyKept), the throttle and the table of sessions   *)
(* keep to what they are for (TablesTell), and a session is good for the   *)
(* page and for the API alike, and as long as it should be (SessionsTell). *)
(***************************************************************************)
EXTENDS Gateway, FiniteSetTheorems, CollectionLemmas, TLAPS

-----------------------------------------------------------------------------
(* The seam.  Nothing but Start touches the configuration, and it leaves   *)
(* the promise either kept already or still to be kept by reading.         *)

StoodDown == config.allowedHosts = {AnyHost} /\ ~config.hostAuthenticates
Promise ==
    /\ phase = "reading" => config.generateAuthKey
    /\ phase \in {"arming", "up"} /\ StoodDown => enabled
    /\ phase \in {"writing", "written"} => enabled
Numbers ==
    /\ keyFile \in [Dirs -> Int] /\ minted \in Nat /\ secret \in Nat
    /\ phase # "down" => config.stateDir \in Dirs \cup {NoDir}
SInv == Numbers /\ Promise

\* The guard stands down only for a key given, a host that authenticates or a
\* key to be generated, and then for nothing less.
LEMMA StandsDownForAKey ==
  ASSUME NEW told \in Told
  PROVE  LET r == Resolved(told)
         IN  /\ r.allowedHosts = {AnyHost}
                  => r.authKey # NoKey \/ r.hostAuthenticates \/ r.generateAuthKey
             /\ r.generateAuthKey => ~r.hostAuthenticates
<1> DEFINE flags == parseArgs(told.argv)
           file == loadConfigFile(flags, told.files)
           host == First(<<flags.host, told.env.host, file.host>>, DefaultHost)
           authKey == First(<<flags.authKey, told.env.authKey, file.secret>>, NoKey)
           insecureHosts == normalizeInsecureHost(flags.insecureHosts \cup file.insecureHosts)
           generate == /\ authKey = NoKey
                       /\ ~file.authenticate /\ ~file.allowUnauthenticated
                       /\ ~isLoopback(host) /\ ~flags.insecure
                       /\ host \notin insecureHosts
           hosts == LoopbackHosts \cup insecureHosts \cup flags.allowedHosts \cup file.allowedHosts
           on == authKey # NoKey \/ file.authenticate \/ generate
<1> DEFINE r == Resolved(told)
<1>1. /\ r.authKey = authKey /\ r.hostAuthenticates = file.authenticate
      /\ r.generateAuthKey = generate
      /\ r.allowedHosts = IF on THEN {AnyHost} ELSE hosts
  BY DEF Resolved, resolveInstanceConfig
<1>2. hosts # {AnyHost}
  BY GatewayAssumption
<1> HIDE DEF hosts, authKey, r
<1>3. on \/ r.allowedHosts # {AnyHost}
  BY <1>1, <1>2
<1>4. QED
  BY <1>1, <1>3 DEF r

LEMMA SInit == Init => SInv
<1> SUFFICES ASSUME Init PROVE SInv
  OBVIOUS
<1>1. keyFile \in [Dirs -> Int] /\ minted \in Nat /\ secret \in Nat
  BY DEF Init, NoFileYet, Corrupt, NoKey
<1>2. QED
  BY <1>1 DEF Init, SInv, Numbers, Promise

LEMMA SNext == SInv /\ [Next]_vars => SInv'
<1> SUFFICES ASSUME SInv, [Next]_vars PROVE SInv'
  OBVIOUS
<1> USE DEF SInv, Numbers, NoKey, enabled, Serving, process
<1>1. ASSUME NEW told \in Told, Start(told) PROVE SInv'
  <2>1. config' = Resolved(told)
    BY <1>1 DEF Start
  <2>2. /\ config'.allowedHosts = {AnyHost}
             => config'.authKey # NoKey \/ config'.hostAuthenticates \/ config'.generateAuthKey
        /\ config'.generateAuthKey => ~config'.hostAuthenticates
    BY <2>1, StandsDownForAKey
  <2>3. config'.stateDir \in Dirs \cup {NoDir} /\ config'.authKey \in Nat
    BY <2>1, ToldAssumption
  <2>4. /\ secret' = IF config'.hostAuthenticates THEN 0 ELSE config'.authKey
        /\ phase' = IF config'.generateAuthKey /\ ~config'.hostAuthenticates
                    THEN "reading" ELSE "arming"
        /\ UNCHANGED <<keyFile, minted>>
    BY <1>1 DEF Start
  <2>5. Numbers'
    BY <2>3, <2>4
  <2>6. CASE config'.generateAuthKey
    BY <2>2, <2>4, <2>5, <2>6 DEF Promise
  <2>7. CASE ~config'.generateAuthKey
    BY <2>2, <2>4, <2>5, <2>7 DEF Promise, StoodDown
  <2>8. QED
    BY <2>6, <2>7
<1>2. ASSUME MintEphemeral PROVE SInv'
  BY <1>2 DEF MintEphemeral, Generated, Promise
<1>3. ASSUME ReadKey PROVE SInv'
  <2>1. phase = "reading" /\ config.stateDir \in Dirs /\ UNCHANGED <<config, keyFile>>
    BY <1>3 DEF ReadKey
  <2>2. CASE Usable(keyFile[config.stateDir]) /\ secret' = keyFile[config.stateDir]
             /\ phase' = "arming" /\ UNCHANGED minted
    BY <2>1, <2>2 DEF Usable, Promise
  <2>3. CASE minted' = minted + 1 /\ secret' = Generated(minted') /\ phase' = "writing"
    BY <2>1, <2>3 DEF Generated, Promise
  <2>4. QED
    BY <1>3, <2>2, <2>3 DEF ReadKey
<1>4. ASSUME WriteKey PROVE SInv'
  <2>1. /\ config' = config /\ secret' = secret /\ minted' = minted
        /\ phase \in {"writing", "written"} /\ phase' \in {"written", "arming"}
    BY <1>4 DEF WriteKey
  <2>2. \E content \in Int : keyFile' = [keyFile EXCEPT ![config.stateDir] = content]
    BY <1>4 DEF WriteKey, Corrupt
  <2>3. keyFile' \in [Dirs -> Int]
    BY <2>2
  <2>4. Promise'
    BY <2>1 DEF Promise
  <2>5. QED
    BY <2>1, <2>3, <2>4
<1>5. ASSUME Arm PROVE SInv'
  BY <1>5 DEF Arm, Promise, StoodDown
<1>6. ASSUME Stop PROVE SInv'
  BY <1>6 DEF Stop, Promise
<1>7. ASSUME UNCHANGED <<process, keyFile, minted>> PROVE SInv'
  BY <1>7 DEF Promise, StoodDown
<1>8. CASE Tick
  BY <1>7, <1>8 DEF Tick
<1>9. CASE (\E c \in Client : Presents(c)) \/ (\E a \in Slot : LoginRead(a))
  BY <1>7, <1>9 DEF Presents, LoginRead
<1>10. ASSUME NEW origin, \/ \E c \in Client : handleLogout(c, origin)
                          \/ \E a \in Slot, post \in Posted : Login(a, post, origin)
       PROVE SInv'
  BY <1>7, <1>10 DEF handleLogout, Login
<1>11. CASE UNCHANGED vars
  BY <1>7, <1>11 DEF vars
<1>12. QED
  BY <1>1, <1>2, <1>3, <1>4, <1>5, <1>6, <1>8, <1>9, <1>10, <1>11 DEF Next

\* Who brings neither key nor session is let in only where no key is kept.
LEMMA BareIsRefused ==
  ASSUME NEW c, NEW host, enabled
  PROVE  ~Admits(c, Bare(host))
<1>1. originVerdict(c, "absent") # "ok"
  BY DEF originVerdict
<1>2. authenticate(c, Bare(host)) = "refused"
  BY <1>1 DEF authenticate, Bare
<1>3. QED
  BY <1>2 DEF Admits

LEMMA SeamFromInvariant == SInv => SeamHolds
<1> SUFFICES ASSUME SInv PROVE SeamHolds
  OBVIOUS
<1>1. phase = "arming" => ~Refuses
  BY DEF SInv, Promise, StoodDown, Refuses
<1>2. ASSUME Up, ~config.hostAuthenticates, NEW c \in Client, NEW host, Admits(c, Bare(host))
      PROVE  ~enabled /\ (host = Unset \/ isLoopback(host) \/ host \in config.allowedHosts)
  <2>1. ~enabled
    BY <1>2, BareIsRefused
  <2>2. config.allowedHosts # {AnyHost}
    BY <1>2, <2>1 DEF SInv, Promise, StoodDown, Up
  <2>3. hostAllowed(host)
    BY <1>2 DEF Admits, Bare
  <2>4. QED
    BY <2>1, <2>2, <2>3 DEF hostAllowed
<1>3. QED
  BY <1>1, <1>2 DEF SeamHolds

\* The guard and the key agree, whatever an instance is told and whenever it
\* dies: no start is refused at the last look, and a guard that stood down has a
\* key or the host's own check behind it.
THEOREM SeamAlways == Spec => []SeamHolds
<1>1. Spec => []SInv
  BY SInit, SNext, PTL DEF Spec
<1>2. QED
  BY <1>1, SeamFromInvariant, PTL

-----------------------------------------------------------------------------
(* The key.  A key served with is the one on the file, until another start *)
(* reads it: what is not usable is replaced, so what is kept is never.     *)

Persists == config.generateAuthKey /\ config.stateDir # NoDir
KeyOnFile ==
    /\ kept \in [Dirs -> Nat]
    /\ \A d \in Dirs : kept[d] # NoKey => keyFile[d] = kept[d]
    /\ phase \in {"writing", "written"} =>
         config.stateDir \in Dirs /\ kept[config.stateDir] = NoKey
    /\ phase = "arming" /\ Persists => keyFile[config.stateDir] = secret
KInv == SInv /\ KeyOnFile
KeyStep == \A d \in Dirs : kept[d] # NoKey => kept'[d] = kept[d]

LEMMA KInit == Init => KInv
<1> SUFFICES ASSUME Init PROVE KInv
  OBVIOUS
<1>1. SInv
  BY SInit
<1>2. KeyOnFile
  BY DEF Init, KeyOnFile, NoKey
<1>3. QED
  BY <1>1, <1>2 DEF KInv

LEMMA KNext == ~ReadMayFail /\ KInv /\ [Next]_vars => KInv' /\ KeyStep
<1> SUFFICES ASSUME ~ReadMayFail, KInv, [Next]_vars PROVE KeyOnFile' /\ KeyStep
  BY SNext DEF KInv
<1> USE DEF KInv, KeyOnFile, Persists, NoKey, process
<1>1. ASSUME NEW told \in Told, Start(told) PROVE KeyOnFile' /\ KeyStep
  <2>1. config'.generateAuthKey => ~config'.hostAuthenticates
    BY <1>1, StandsDownForAKey DEF Start
  <2>2. UNCHANGED <<keyFile, kept>> /\ phase' \in {"reading", "arming"}
    BY <1>1 DEF Start
  <2>3. phase' = "arming" => ~config'.generateAuthKey
    BY <1>1, <2>1 DEF Start
  <2>4. QED
    BY <2>2, <2>3 DEF KeyStep
<1>2. ASSUME MintEphemeral PROVE KeyOnFile' /\ KeyStep
  BY <1>2 DEF MintEphemeral, KeyStep
<1>3. ASSUME ReadKey PROVE KeyOnFile' /\ KeyStep
  <2>1. /\ config' = config /\ keyFile' = keyFile /\ kept' = kept
        /\ config.stateDir \in Dirs
    BY <1>3 DEF ReadKey, SInv, Numbers
  <2>2. CASE secret' = keyFile[config.stateDir] /\ phase' = "arming"
    BY <2>1, <2>2 DEF KeyStep
  <2>3. CASE ~Usable(keyFile[config.stateDir]) /\ phase' = "writing"
    <3>1. kept[config.stateDir] \in Nat /\ ~(keyFile[config.stateDir] > 0)
      BY <2>1, <2>3 DEF Usable
    <3>2. kept[config.stateDir] = 0
      BY <2>1, <3>1
    <3>3. QED
      BY <2>1, <2>3, <3>2 DEF KeyStep
  <2>4. QED
    BY <1>3, <2>2, <2>3 DEF ReadKey
<1>4. ASSUME WriteKey PROVE KeyOnFile' /\ KeyStep
  <2>1. /\ config' = config /\ secret' = secret /\ kept' = kept
        /\ config.stateDir \in Dirs /\ kept[config.stateDir] = 0
        /\ phase' \in {"written", "arming"}
    BY <1>4 DEF WriteKey
  <2>2. \A d \in Dirs : d # config.stateDir => keyFile'[d] = keyFile[d]
    BY <1>4 DEF WriteKey, SInv, Numbers
  <2>3. phase' = "arming" => keyFile'[config.stateDir] = secret
    BY <1>4, <2>1 DEF WriteKey, SInv, Numbers
  <2>4. QED
    BY <2>1, <2>2, <2>3 DEF KeyStep
<1>5. ASSUME Arm PROVE KeyOnFile' /\ KeyStep
  <2>1. /\ config' = config /\ secret' = secret /\ keyFile' = keyFile
        /\ phase = "arming" /\ phase' = "up" /\ secret \in Nat
        /\ kept' = IF Persists THEN [kept EXCEPT ![config.stateDir] = secret] ELSE kept
    BY <1>5 DEF Arm, SInv, Numbers
  <2>2. CASE ~Persists
    BY <2>1, <2>2 DEF KeyStep
  <2>3. CASE Persists
    <3>1. keyFile[config.stateDir] = secret /\ kept' = [kept EXCEPT ![config.stateDir] = secret]
      BY <2>1, <2>3
    <3>2. \A d \in Dirs : kept'[d] = IF d = config.stateDir THEN keyFile[d] ELSE kept[d]
      BY <3>1
    <3>3. kept' \in [Dirs -> Nat]
      BY <2>1, <3>1
    <3>4. QED
      BY <2>1, <3>2, <3>3 DEF KeyStep
  <2>4. QED
    BY <2>2, <2>3
<1>6. ASSUME Stop PROVE KeyOnFile' /\ KeyStep
  BY <1>6 DEF Stop, KeyStep
<1>7. ASSUME UNCHANGED <<process, keyFile, kept>> PROVE KeyOnFile' /\ KeyStep
  BY <1>7 DEF KeyStep
<1>8. CASE Tick
  BY <1>7, <1>8 DEF Tick
<1>9. CASE (\E c \in Client : Presents(c)) \/ (\E a \in Slot : LoginRead(a))
  BY <1>7, <1>9 DEF Presents, LoginRead
<1>10. ASSUME NEW origin, \/ \E c \in Client : handleLogout(c, origin)
                          \/ \E a \in Slot, post \in Posted : Login(a, post, origin)
       PROVE KeyOnFile' /\ KeyStep
  BY <1>7, <1>10 DEF handleLogout, Login
<1>11. CASE UNCHANGED vars
  BY <1>7, <1>11 DEF vars
<1>12. QED
  BY <1>1, <1>2, <1>3, <1>4, <1>5, <1>6, <1>8, <1>9, <1>10, <1>11 DEF Next

\* While the key file can be read, a key that was served with is kept by every
\* later start from its directory, whenever a process died in between.
THEOREM KeyKeptAlways == ~ReadMayFail => (Spec => KeyKept)
<1>1. ~ReadMayFail /\ KInv /\ [Next]_vars => KInv'
  BY KNext
<1>2. ~ReadMayFail /\ KInv /\ [Next]_vars => [KeyStep]_vars
  BY KNext
<1>3. ASSUME ~ReadMayFail PROVE Spec => [][KeyStep]_vars
  <2>1. KInv /\ [Next]_vars => KInv'
    BY <1>1, <1>3
  <2>2. KInv /\ [Next]_vars => [KeyStep]_vars
    BY <1>2, <1>3
  <2>3. QED
    BY <2>1, <2>2, KInit, PTL DEF Spec
<1>4. QED
  BY <1>3 DEF KeyKept, KeyStep

-----------------------------------------------------------------------------
(* The throttle.  An entry counts the wrong answers of its window, and     *)
(* with the logins still being read it stays below its limit and the most  *)
(* logins there ever were on their way at once.                            *)

Entries == [count : Nat, windowStart : Nat]
InWindowAt(entry, t) == t - entry.windowStart < Window
Since(answers, start) == {w \in answers : w.at >= start}
Fits(entry, answers, pending, max, all, t) ==
    /\ entry \in Entries /\ entry.windowStart <= t
    /\ Cardinality(pending) <= all
    /\ InWindowAt(entry, t) =>
         /\ entry.count + Cardinality(pending) < max + all
         /\ Cardinality(Since(answers, entry.windowStart)) >= entry.count

\* The parameters of one table entry.
Entry0(answers, pending, max, all, t) ==
    /\ IsFiniteSet(answers) /\ \A w \in answers : w.at \in Nat
    /\ IsFiniteSet(pending) /\ all \in Nat
    /\ max \in Nat \ {0} /\ t \in Nat /\ t >= Window

LEMMA Sizes ==
  ASSUME NEW answers, NEW pending, NEW max, NEW all, NEW t, Entry0(answers, pending, max, all, t)
  PROVE  /\ IsFiniteSet(pending)
         /\ Cardinality(pending) \in Nat /\ all \in Nat
         /\ \A start : /\ IsFiniteSet(Since(answers, start))
                       /\ Cardinality(Since(answers, start)) \in Nat
<1>1. IsFiniteSet(pending) /\ all \in Nat
  BY DEF Entry0
<1>2. \A start : IsFiniteSet(Since(answers, start))
  BY FS_Subset DEF Entry0, Since
<1>3. QED
  BY <1>1, <1>2, FS_CardinalityType DEF Entry0

\* A login is let in when its entry is not blocked.
LEMMA OneMoreLogin ==
  ASSUME NEW entry, NEW answers, NEW pending, NEW max, NEW all, NEW t, NEW c, c \notin pending,
         Entry0(answers, pending, max, all, t), Fits(entry, answers, pending, max, all, t),
         ~(entry.count >= max /\ t - entry.windowStart < Window)
  PROVE  LET more == Larger(all, Cardinality(pending) + 1)
         IN  /\ more \in Nat
             /\ Fits(entry, answers, pending \cup {c}, max, more, t)
<1> DEFINE more == Larger(all, Cardinality(pending) + 1)
<1>1. IsFiniteSet(pending) /\ Cardinality(pending) \in Nat /\ all \in Nat
  BY Sizes
<1>2. /\ Cardinality(pending \cup {c}) = Cardinality(pending) + 1
      /\ more \in Nat /\ Cardinality(pending) + 1 <= more
  BY <1>1, FS_AddElement DEF Larger
<1> HIDE DEF more
<1>3. entry.count \in Nat /\ max \in Nat /\ entry.windowStart \in Nat /\ t \in Nat /\ Window \in Nat
  BY GatewayAssumption DEF Fits, Entry0, Entries
<1>4. Fits(entry, answers, pending \cup {c}, max, more, t)
  BY <1>1, <1>2, <1>3 DEF Fits, InWindowAt
<1>5. QED
  BY <1>1, <1>2, <1>4 DEF more

\* A wrong answer counts, and is no longer being read.
LEMMA OneMoreAnswer ==
  ASSUME NEW entry, NEW answers, NEW pending, NEW max, NEW all, NEW c \in pending, NEW w,
         Entry0(answers, pending, max, all, now), Fits(entry, answers, pending, max, all, now),
         w.at = now, w \notin answers
  PROVE  Fits(OneMore(entry), answers \cup {w}, pending \ {c}, max, all, now)
<1>1. /\ IsFiniteSet(pending) /\ Cardinality(pending) \in Nat /\ all \in Nat
      /\ Cardinality(pending) <= all
      /\ \A start : /\ IsFiniteSet(Since(answers, start))
                    /\ Cardinality(Since(answers, start)) \in Nat
  BY Sizes DEF Fits
<1>2. Cardinality(pending \ {c}) = Cardinality(pending) - 1
  BY <1>1, FS_RemoveElement
<1>3. /\ entry \in Entries /\ entry.count \in Nat /\ entry.windowStart \in Nat
      /\ entry.windowStart <= now /\ now \in Nat /\ Window \in Nat \ {0} /\ max \in Nat \ {0}
  BY GatewayAssumption DEF Fits, Entry0, Entries
<1>4. ASSUME NEW start, start <= now
      PROVE  /\ Since(answers \cup {w}, start) = Since(answers, start) \cup {w}
             /\ Cardinality(Since(answers \cup {w}, start)) = Cardinality(Since(answers, start)) + 1
  <2>1. Since(answers \cup {w}, start) = Since(answers, start) \cup {w}
    BY <1>3, <1>4 DEF Since
  <2>2. w \notin Since(answers, start)
    BY DEF Since
  <2>3. QED
    BY <1>1, <2>1, <2>2, FS_AddElement
<1>5. CASE entry = NoFailures \/ now - entry.windowStart >= Window
  <2>1. OneMore(entry) = [count |-> 1, windowStart |-> now]
    BY <1>5 DEF OneMore
  <2>2. OneMore(entry).count = 1 /\ OneMore(entry).windowStart = now /\ OneMore(entry) \in Entries
    BY <1>3, <2>1 DEF Entries
  <2>3. Cardinality(Since(answers \cup {w}, now)) >= 1
    BY <1>1, <1>3, <1>4
  <2>4. QED
    BY <1>1, <1>2, <1>3, <2>2, <2>3 DEF Fits
<1>6. CASE ~(entry = NoFailures \/ now - entry.windowStart >= Window)
  <2>1. OneMore(entry) = [entry EXCEPT !.count = @ + 1]
    BY <1>6 DEF OneMore
  <2>2. /\ OneMore(entry).count = entry.count + 1
        /\ OneMore(entry).windowStart = entry.windowStart
        /\ OneMore(entry) \in Entries
    BY <1>3, <2>1 DEF Entries
  <2>3. InWindowAt(entry, now)
    BY <1>3, <1>6 DEF InWindowAt
  <2>4. /\ entry.count + Cardinality(pending) < max + all
        /\ Cardinality(Since(answers, entry.windowStart)) >= entry.count
    BY <2>3 DEF Fits
  <2>5. Cardinality(Since(answers \cup {w}, entry.windowStart)) >= entry.count + 1
    <3>1. /\ Cardinality(Since(answers \cup {w}, entry.windowStart))
               = Cardinality(Since(answers, entry.windowStart)) + 1
          /\ Cardinality(Since(answers, entry.windowStart)) \in Nat
      BY <1>1, <1>3, <1>4
    <3>2. QED
      BY ONLY <1>3, <2>4, <3>1
  <2>6. QED
    BY <1>1, <1>2, <1>3, <2>2, <2>4, <2>5 DEF Fits
<1>7. QED
  BY <1>5, <1>6

\* A cleared entry is in no window.
LEMMA ClearedFits ==
  ASSUME NEW answers, NEW pending, NEW max, NEW all, NEW t \in Nat, t >= Window,
         Cardinality(pending) <= all
  PROVE  Fits(NoFailures, answers, pending, max, all, t)
<1>1. NoFailures.windowStart = 0 /\ NoFailures \in Entries /\ Window \in Nat
  BY GatewayAssumption DEF NoFailures, Entries
<1>2. QED
  BY <1>1 DEF Fits, InWindowAt

\* Time passes and logins are given up, but nothing else.
LEMMA StillFits ==
  ASSUME NEW entry, NEW answers, NEW pending, NEW max, NEW all, NEW t,
         Entry0(answers, pending, max, all, t), Fits(entry, answers, pending, max, all, t),
         NEW later \in Nat, t <= later, NEW fewer \in SUBSET pending
  PROVE  Fits(entry, answers, fewer, max, all, later)
<1>1. /\ IsFiniteSet(pending) /\ Cardinality(pending) \in Nat /\ all \in Nat
  BY Sizes
<1>2. Cardinality(fewer) \in Nat /\ Cardinality(fewer) <= Cardinality(pending)
  BY <1>1, FS_Subset, FS_CardinalityType
<1>3. /\ entry.count \in Nat /\ entry.windowStart \in Nat /\ t \in Nat /\ Window \in Nat
      /\ max \in Nat
  BY GatewayAssumption DEF Fits, Entry0, Entries
<1>4. QED
  BY <1>1, <1>2, <1>3 DEF Fits, InWindowAt

WrongFrom(ip) == {w \in wrong : w.ip = ip}

ThrottleTypes ==
    /\ now \in Nat /\ now >= Window /\ answered \in Nat
    /\ failures \in [Addresses -> Entries] /\ globalFailures \in Entries
    /\ login \in [Slot -> Posted \cup {NoLogin}]
    /\ most \in [Addresses -> Nat] /\ globalMost \in Nat
    /\ IsFiniteSet(wrong)
    /\ \A w \in wrong : w.at \in Nat /\ w.nth \in Nat /\ w.nth < answered
Idle ==
    /\ login = NoLogins /\ most = Nobody /\ globalMost = 0 /\ wrong = {}
    /\ failures = [ip \in Addresses |-> NoFailures] /\ globalFailures = NoFailures
AllFit ==
    /\ \A ip \in Addresses :
         Fits(failures[ip], WrongFrom(ip), ReadingFrom(ip), MaxPerIp, most[ip], now)
    /\ Fits(globalFailures, wrong, Reading, MaxGlobal, globalMost, now)
TInv == ThrottleTypes /\ (~Up => Idle) /\ AllFit

LEMMA AddressKnown == \A c \in Client : clientIp(c) \in Addresses
BY DEF clientIp, Addresses

LEMMA EntriesOf ==
  ASSUME ThrottleTypes
  PROVE  /\ \A ip \in Addresses : Entry0(WrongFrom(ip), ReadingFrom(ip), MaxPerIp, most[ip], now)
         /\ Entry0(wrong, Reading, MaxGlobal, globalMost, now)
<1>1. IsFiniteSet(Slot) /\ {MaxPerIp, MaxGlobal} \subseteq Nat \ {0}
  BY GatewayAssumption
<1>2. IsFiniteSet(Reading) /\ \A ip : IsFiniteSet(WrongFrom(ip)) /\ IsFiniteSet(ReadingFrom(ip))
  BY <1>1, FS_Subset DEF ThrottleTypes, WrongFrom, Reading, ReadingFrom
<1>3. QED
  BY <1>1, <1>2 DEF ThrottleTypes, Entry0, WrongFrom

\* Nothing is on its way.
LEMMA NobodyReading ==
  ASSUME login = NoLogins
  PROVE  Reading = {} /\ \A ip : ReadingFrom(ip) = {}
BY DEF NoLogins, Reading, ReadingFrom

LEMMA IdleFits == ASSUME ThrottleTypes, Idle PROVE AllFit
<1>1. \A ip \in Addresses : failures[ip] = NoFailures /\ most[ip] = 0
  BY DEF Idle, Nobody
<1>2. /\ Cardinality(Reading) <= globalMost
      /\ \A ip \in Addresses : Cardinality(ReadingFrom(ip)) <= most[ip]
  BY <1>1, NobodyReading, FS_EmptySet DEF Idle
<1>3. QED
  BY <1>1, <1>2, ClearedFits DEF Idle, AllFit, ThrottleTypes

LEMMA TInit == Init => TInv
<1> SUFFICES ASSUME Init PROVE TInv
  OBVIOUS
<1>1. NoFailures \in Entries /\ Window \in Nat
  BY GatewayAssumption DEF NoFailures, Entries
<1>2. ThrottleTypes
  BY <1>1, FS_EmptySet DEF Init, ThrottleTypes, NoLogins, Nobody
<1>3. Idle
  BY DEF Init, Idle
<1>4. QED
  BY <1>2, <1>3, IdleFits DEF TInv

\* What leaves the throttle's entries and the logins alone.
LEMMA TUntouched ==
  ASSUME TInv, UNCHANGED <<throttle, reading, answered>>, Up' <=> Up, Up => config' = config,
         now' = now \/ now' = now + 1
  PROVE  TInv'
<1>1. ThrottleTypes' /\ (~Up' => Idle')
  BY GatewayAssumption DEF TInv, ThrottleTypes, Idle, throttle, reading
<1>2. CASE ~Up
  <2>1. Idle'
    BY <1>1, <1>2
  <2>2. (ThrottleTypes /\ Idle => AllFit)'
    BY IdleFits, PTL
  <2>3. QED
    BY <1>1, <2>1, <2>2 DEF TInv
<1>3. CASE Up
  <2>1. \A ip \in Addresses :
          /\ failures'[ip] = failures[ip] /\ WrongFrom(ip)' = WrongFrom(ip)
          /\ ReadingFrom(ip)' = ReadingFrom(ip) /\ most'[ip] = most[ip]
    BY <1>3 DEF throttle, reading, WrongFrom, ReadingFrom, Reading, clientIp
  <2>2. /\ globalFailures' = globalFailures /\ wrong' = wrong
        /\ Reading' = Reading /\ globalMost' = globalMost
    BY DEF throttle, reading, Reading
  <2>3. now' \in Nat /\ now <= now'
    BY DEF TInv, ThrottleTypes
  <2>4. \A ip \in Addresses :
          Fits(failures[ip], WrongFrom(ip), ReadingFrom(ip), MaxPerIp, most[ip], now')
    BY <2>3, EntriesOf, StillFits DEF TInv, AllFit
  <2>5. Fits(globalFailures, wrong, Reading, MaxGlobal, globalMost, now')
    BY <2>3, EntriesOf, StillFits DEF TInv, AllFit
  <2>6. QED
    BY <1>1, <2>1, <2>2, <2>4, <2>5 DEF TInv, AllFit
<1>4. QED
  BY <1>2, <1>3

KeepsAddress(i) ==
    /\ failures'[i] = failures[i] /\ WrongFrom(i)' = WrongFrom(i)
    /\ ReadingFrom(i)' = ReadingFrom(i) /\ most'[i] = most[i]
SetsAddress(i, entry, answers, pending, all) ==
    /\ failures'[i] = entry /\ WrongFrom(i)' = answers
    /\ ReadingFrom(i)' = pending /\ most'[i] = all

\* A step of one address is judged by its entry and by the global one.
LEMMA OneAddress ==
  ASSUME AllFit, NEW ip \in Addresses, now' = now,
         \A i \in Addresses \ {ip} : KeepsAddress(i),
         NEW entry, NEW answers, NEW pending, NEW all,
         Fits(entry, answers, pending, MaxPerIp, all, now),
         \A i \in Addresses : i = ip => SetsAddress(i, entry, answers, pending, all),
         Fits(globalFailures', wrong', Reading', MaxGlobal, globalMost', now)
  PROVE  AllFit'
<1>1. ASSUME NEW i \in Addresses
      PROVE  Fits(failures'[i], WrongFrom(i)', ReadingFrom(i)', MaxPerIp, most'[i], now)
  <2>1. CASE i = ip
    <3>1. /\ failures'[i] = entry /\ WrongFrom(i)' = answers
          /\ ReadingFrom(i)' = pending /\ most'[i] = all
      BY <2>1 DEF SetsAddress
    <3>2. QED
      BY <3>1
  <2>2. CASE i # ip
    <3>1. /\ failures'[i] = failures[i] /\ WrongFrom(i)' = WrongFrom(i)
          /\ ReadingFrom(i)' = ReadingFrom(i) /\ most'[i] = most[i]
      BY <2>2 DEF KeepsAddress
    <3>2. Fits(failures[i], WrongFrom(i), ReadingFrom(i), MaxPerIp, most[i], now)
      BY DEF AllFit
    <3>3. QED
      BY <3>1, <3>2
  <2>3. QED
    BY <2>1, <2>2
<1>2. QED
  BY <1>1 DEF AllFit

LEMMA TLogin ==
  ASSUME TInv, NEW a \in Slot, NEW post \in Posted, NEW origin, Login(a, post, origin)
  PROVE  TInv'
<1> DEFINE ip == clientIp(post.client)
           more == Larger(most[ip], Cardinality(ReadingFrom(ip)) + 1)
           globalMore == Larger(globalMost, Cardinality(Reading) + 1)
<1>0. ip \in Addresses
  BY AddressKnown DEF Posted
<1>1. /\ UNCHANGED <<throttle, answered, now, config, phase>> /\ Up
      /\ login' = [login EXCEPT ![a] = post] /\ login[a] = NoLogin
      /\ most' = [most EXCEPT ![ip] = more] /\ globalMost' = globalMore
      /\ ~blocked(failures[ip], MaxPerIp) /\ ~blocked(globalFailures, MaxGlobal)
  BY DEF Login, process, loginBlocked
<1>2. post # NoLogin
  BY DEF Posted, NoLogin
<1>3. \A i \in Addresses : WrongFrom(i)' = WrongFrom(i)
  BY <1>1 DEF WrongFrom, throttle
<1>4. Reading' = Reading \cup {a} /\ a \notin Reading
  BY <1>1, <1>2 DEF TInv, ThrottleTypes, Reading
<1>5. /\ a \notin ReadingFrom(ip)
      /\ \A i \in Addresses : /\ i = ip => ReadingFrom(i)' = ReadingFrom(i) \cup {a}
                              /\ i # ip => ReadingFrom(i)' = ReadingFrom(i)
  <2> SUFFICES ASSUME NEW i \in Addresses
               PROVE  /\ i = ip => ReadingFrom(i)' = ReadingFrom(i) \cup {a}
                      /\ i # ip => ReadingFrom(i)' = ReadingFrom(i)
    BY <1>4 DEF ReadingFrom
  <2>1. \A b \in Slot : b # a => login'[b] = login[b]
    BY <1>1 DEF TInv, ThrottleTypes
  <2>2. login'[a] = post
    BY <1>1 DEF TInv, ThrottleTypes
  <2>3. \A d : clientIp(d)' = clientIp(d)
    BY <1>1 DEF clientIp
  <2>4. ReadingFrom(i)' = {b \in Reading' : clientIp(login'[b].client) = i}
    BY <2>3 DEF ReadingFrom
  <2>5. Reading \subseteq Slot /\ a \notin Reading
    BY <1>4 DEF Reading
  <2>6. QED
    BY <1>4, <2>1, <2>2, <2>4, <2>5 DEF ReadingFrom
<1>6. /\ more \in Nat
      /\ Fits(failures[ip], WrongFrom(ip), ReadingFrom(ip) \cup {a}, MaxPerIp, more, now)
  <2>1. Fits(failures[ip], WrongFrom(ip), ReadingFrom(ip), MaxPerIp, most[ip], now)
    BY <1>0 DEF TInv, AllFit
  <2>2. Entry0(WrongFrom(ip), ReadingFrom(ip), MaxPerIp, most[ip], now)
    BY <1>0, EntriesOf DEF TInv
  <2>3. ~(failures[ip].count >= MaxPerIp /\ now - failures[ip].windowStart < Window)
    BY <1>1 DEF blocked
  <2>4. a \notin ReadingFrom(ip)
    BY <1>5
  <2> HIDE DEF ip
  <2>5. QED
    BY <2>1, <2>2, <2>3, <2>4, OneMoreLogin
<1>7. /\ globalMore \in Nat
      /\ Fits(globalFailures, wrong, Reading \cup {a}, MaxGlobal, globalMore, now)
  <2>1. Fits(globalFailures, wrong, Reading, MaxGlobal, globalMost, now)
    BY DEF TInv, AllFit
  <2>2. Entry0(wrong, Reading, MaxGlobal, globalMost, now)
    BY EntriesOf DEF TInv
  <2>3. ~(globalFailures.count >= MaxGlobal /\ now - globalFailures.windowStart < Window)
    BY <1>1 DEF blocked
  <2>4. QED
    BY <1>4, <2>1, <2>2, <2>3, OneMoreLogin
<1> HIDE DEF ip, more, globalMore
<1>8. most'[ip] = more /\ \A i \in Addresses \ {ip} : most'[i] = most[i]
  BY <1>0, <1>1 DEF TInv, ThrottleTypes
<1>9. ThrottleTypes' /\ Up'
  BY <1>1, <1>6, <1>7 DEF TInv, ThrottleTypes, throttle, Up
<1>10. AllFit'
  <2>1. failures' = failures /\ globalFailures' = globalFailures /\ wrong' = wrong
    BY <1>1 DEF throttle
  <2>2. Fits(globalFailures', wrong', Reading', MaxGlobal, globalMost', now)
    BY <1>1, <1>4, <1>7, <2>1
  <2>3. AllFit
    BY DEF TInv
  <2>4. \A i \in Addresses \ {ip} : KeepsAddress(i)
    BY <1>3, <1>5, <1>8, <2>1 DEF KeepsAddress
  <2>5. \A i \in Addresses : i = ip =>
          SetsAddress(i, failures[ip], WrongFrom(ip), ReadingFrom(ip) \cup {a}, more)
    <3> SUFFICES ASSUME NEW i \in Addresses, i = ip
                 PROVE  SetsAddress(i, failures[ip], WrongFrom(ip), ReadingFrom(ip) \cup {a}, more)
      OBVIOUS
    <3>1. WrongFrom(i) = WrongFrom(ip) /\ ReadingFrom(i) = ReadingFrom(ip)
      BY DEF WrongFrom, ReadingFrom
    <3>2. WrongFrom(i)' = WrongFrom(i)
      BY <1>3
    <3>3. ReadingFrom(i)' = ReadingFrom(i) \cup {a}
      BY <1>5
    <3>4. failures'[i] = failures[ip] /\ most'[i] = more
      BY <1>8, <2>1
    <3>5. QED
      BY <3>1, <3>2, <3>3, <3>4 DEF SetsAddress
  <2>6. QED
    BY <1>0, <1>1, <1>6, <2>2, <2>3, <2>4, <2>5, OneAddress
<1>11. QED
  BY <1>9, <1>10 DEF TInv

LEMMA TLoginRead ==
  ASSUME TInv, NEW a \in Slot, LoginRead(a)
  PROVE  TInv'
<1> DEFINE c == login[a].client
           ip == clientIp(c)
<1>0. /\ a \in Reading /\ login[a] \in Posted /\ c \in Client
      /\ ip \in Addresses /\ a \in ReadingFrom(ip)
  <2>1. a \in Reading
    BY DEF LoginRead
  <2>2. login[a] \in Posted
    BY <2>1 DEF Reading, TInv, ThrottleTypes
  <2>3. QED
    BY <2>1, <2>2, AddressKnown DEF Posted, ReadingFrom
<1>1. /\ UNCHANGED <<now, config, phase, most, globalMost>> /\ Up /\ Up'
      /\ login' = [login EXCEPT ![a] = NoLogin]
  BY DEF LoginRead, process, Up
<1>2. \A i \in Addresses : most'[i] = most[i]
  BY <1>1
<1>3. Reading' = Reading \ {a}
  BY <1>1 DEF TInv, ThrottleTypes, Reading
<1>4. \A i \in Addresses : /\ i = ip => ReadingFrom(i)' = ReadingFrom(i) \ {a}
                           /\ i # ip => ReadingFrom(i)' = ReadingFrom(i)
  <2> SUFFICES ASSUME NEW i \in Addresses
               PROVE  /\ i = ip => ReadingFrom(i)' = ReadingFrom(i) \ {a}
                      /\ i # ip => ReadingFrom(i)' = ReadingFrom(i)
    OBVIOUS
  <2>1. \A b \in Slot : b # a => login'[b] = login[b]
    BY <1>1 DEF TInv, ThrottleTypes
  <2>2. \A d : clientIp(d)' = clientIp(d)
    BY <1>1 DEF clientIp
  <2>3. ReadingFrom(i)' = {b \in Reading' : clientIp(login'[b].client) = i}
    BY <2>2 DEF ReadingFrom
  <2>4. Reading \subseteq Slot
    BY DEF Reading
  <2>5. QED
    BY <1>3, <2>1, <2>3, <2>4 DEF ReadingFrom
<1>5. /\ \A i \in Addresses :
           /\ Entry0(WrongFrom(i), ReadingFrom(i), MaxPerIp, most[i], now)
           /\ Fits(failures[i], WrongFrom(i), ReadingFrom(i), MaxPerIp, most[i], now)
      /\ Entry0(wrong, Reading, MaxGlobal, globalMost, now)
      /\ Fits(globalFailures, wrong, Reading, MaxGlobal, globalMost, now)
  BY EntriesOf DEF TInv, AllFit
<1>6. now \in Nat /\ now <= now
  BY DEF TInv, ThrottleTypes
<1>7. /\ Fits(globalFailures, wrong, Reading \ {a}, MaxGlobal, globalMost, now)
      /\ Fits(failures[ip], WrongFrom(ip), ReadingFrom(ip) \ {a}, MaxPerIp, most[ip], now)
  <2>1. Reading \ {a} \in SUBSET Reading /\ ReadingFrom(ip) \ {a} \in SUBSET ReadingFrom(ip)
    OBVIOUS
  <2> HIDE DEF ip, c
  <2>2. QED
    BY <1>0, <1>5, <1>6, <2>1, StillFits
<1>8. CASE login[a].candidate = "malformed"
  <2>1. UNCHANGED <<failures, globalFailures, wrong, answered>>
    BY <1>8 DEF LoginRead, throttle
  <2>2. \A i \in Addresses : WrongFrom(i)' = WrongFrom(i)
    BY <2>1 DEF WrongFrom
  <2>3. ThrottleTypes'
    BY <1>1, <2>1 DEF TInv, ThrottleTypes
  <2> HIDE DEF ip, c
  <2>4. AllFit'
    <3>1. Fits(globalFailures', wrong', Reading', MaxGlobal, globalMost', now)
      BY <1>1, <1>3, <1>7, <2>1
    <3>2. AllFit
      BY DEF TInv
    <3>3. \A i \in Addresses \ {ip} : KeepsAddress(i)
      BY <1>2, <1>4, <2>1, <2>2 DEF KeepsAddress
    <3>4. \A i \in Addresses : i = ip =>
            SetsAddress(i, failures[ip], WrongFrom(ip), ReadingFrom(ip) \ {a}, most[ip])
      <4> SUFFICES ASSUME NEW i \in Addresses, i = ip
                   PROVE  SetsAddress(i, failures[ip], WrongFrom(ip), ReadingFrom(ip) \ {a}, most[ip])
        OBVIOUS
      <4>1. WrongFrom(i) = WrongFrom(ip) /\ ReadingFrom(i) = ReadingFrom(ip)
        BY DEF WrongFrom, ReadingFrom
      <4>2. QED
        BY <1>2, <1>4, <2>1, <2>2, <4>1 DEF SetsAddress
    <3>5. QED
      BY <1>0, <1>1, <1>7, <3>1, <3>2, <3>3, <3>4, OneAddress
  <2>5. QED
    BY <1>1, <2>3, <2>4 DEF TInv
<1>9. CASE login[a].candidate = "wrong"
  <2> DEFINE w == [ip |-> ip, at |-> now, nth |-> answered]
  <2>1. /\ failures' = [failures EXCEPT ![ip] = OneMore(@)]
        /\ globalFailures' = OneMore(globalFailures)
        /\ wrong' = wrong \cup {w} /\ answered' = answered + 1
    BY <1>9 DEF LoginRead, recordFailure
  <2>2. w.ip = ip /\ w.at = now /\ w.nth = answered
    OBVIOUS
  <2>3. w \notin wrong /\ w \notin WrongFrom(ip)
    BY <2>2 DEF TInv, ThrottleTypes, WrongFrom
  <2> HIDE DEF w, ip, c
  <2>4. \A i \in Addresses : /\ i = ip => WrongFrom(i)' = WrongFrom(i) \cup {w}
                             /\ i # ip => WrongFrom(i)' = WrongFrom(i)
    BY <2>1, <2>2 DEF WrongFrom
  <2>5. Fits(OneMore(globalFailures), wrong \cup {w}, Reading \ {a}, MaxGlobal, globalMost, now)
    BY <1>0, <1>5, <2>2, <2>3, OneMoreAnswer
  <2>6. Fits(OneMore(failures[ip]), WrongFrom(ip) \cup {w}, ReadingFrom(ip) \ {a}, MaxPerIp,
             most[ip], now)
    BY <1>0, <1>5, <2>2, <2>3, OneMoreAnswer
  <2>7. /\ failures'[ip] = OneMore(failures[ip])
        /\ \A i \in Addresses \ {ip} : failures'[i] = failures[i]
    BY <1>0, <2>1 DEF TInv, ThrottleTypes
  <2>8. AllFit'
    <3>1. Fits(globalFailures', wrong', Reading', MaxGlobal, globalMost', now)
      BY <1>1, <1>3, <2>1, <2>5
    <3>2. AllFit
      BY DEF TInv
    <3>3. \A i \in Addresses \ {ip} : KeepsAddress(i)
      BY <1>2, <1>4, <2>4, <2>7 DEF KeepsAddress
    <3>4. \A i \in Addresses : i = ip =>
            SetsAddress(i, OneMore(failures[ip]), WrongFrom(ip) \cup {w}, ReadingFrom(ip) \ {a}, most[ip])
      <4> SUFFICES ASSUME NEW i \in Addresses, i = ip
                   PROVE  SetsAddress(i, OneMore(failures[ip]), WrongFrom(ip) \cup {w}, ReadingFrom(ip) \ {a}, most[ip])
        OBVIOUS
      <4>1. WrongFrom(i) = WrongFrom(ip) /\ ReadingFrom(i) = ReadingFrom(ip)
        BY DEF WrongFrom, ReadingFrom
      <4>2. QED
        BY <1>2, <1>4, <2>4, <2>7, <4>1 DEF SetsAddress
    <3>5. QED
      BY <1>0, <1>1, <2>6, <3>1, <3>2, <3>3, <3>4, OneAddress
  <2>9. ThrottleTypes'
    <3>1. OneMore(failures[ip]) \in Entries /\ OneMore(globalFailures) \in Entries
      BY <2>5, <2>6 DEF Fits
    <3>2. failures' \in [Addresses -> Entries]
      BY <1>0, <2>1, <3>1 DEF TInv, ThrottleTypes
    <3>3. IsFiniteSet(wrong')
      BY <2>1, FS_AddElement DEF TInv, ThrottleTypes
    <3>4. \A v \in wrong' : v.at \in Nat /\ v.nth \in Nat /\ v.nth < answered'
      BY <1>6, <2>1, <2>2 DEF TInv, ThrottleTypes
    <3>5. QED
      BY <1>1, <2>1, <3>1, <3>2, <3>3, <3>4 DEF TInv, ThrottleTypes
  <2>10. QED
    BY <1>1, <2>8, <2>9 DEF TInv
<1>10. CASE login[a].candidate = "right"
  <2>1. /\ failures' = [failures EXCEPT ![ip] = NoFailures]
        /\ UNCHANGED <<globalFailures, wrong>> /\ answered' = answered + 1
    BY <1>10 DEF LoginRead
  <2> HIDE DEF ip, c
  <2>2. \A i \in Addresses : WrongFrom(i)' = WrongFrom(i)
    BY <2>1 DEF WrongFrom
  <2>3. /\ failures'[ip] = NoFailures
        /\ \A i \in Addresses \ {ip} : failures'[i] = failures[i]
    BY <1>0, <2>1 DEF TInv, ThrottleTypes
  <2>4. Fits(NoFailures, WrongFrom(ip), ReadingFrom(ip) \ {a}, MaxPerIp, most[ip], now)
    BY <1>6, <1>7, ClearedFits DEF TInv, ThrottleTypes, Fits
  <2>5. AllFit'
    <3>1. Fits(globalFailures', wrong', Reading', MaxGlobal, globalMost', now)
      BY <1>1, <1>3, <1>7, <2>1
    <3>2. AllFit
      BY DEF TInv
    <3>3. \A i \in Addresses \ {ip} : KeepsAddress(i)
      BY <1>2, <1>4, <2>2, <2>3 DEF KeepsAddress
    <3>4. \A i \in Addresses : i = ip =>
            SetsAddress(i, NoFailures, WrongFrom(ip), ReadingFrom(ip) \ {a}, most[ip])
      <4> SUFFICES ASSUME NEW i \in Addresses, i = ip
                   PROVE  SetsAddress(i, NoFailures, WrongFrom(ip), ReadingFrom(ip) \ {a}, most[ip])
        OBVIOUS
      <4>1. WrongFrom(i) = WrongFrom(ip) /\ ReadingFrom(i) = ReadingFrom(ip)
        BY DEF WrongFrom, ReadingFrom
      <4>2. QED
        BY <1>2, <1>4, <2>2, <2>3, <4>1 DEF SetsAddress
    <3>5. QED
      BY <1>0, <1>1, <2>4, <3>1, <3>2, <3>3, <3>4, OneAddress
  <2>6. ThrottleTypes'
    <3>1. NoFailures \in Entries
      BY DEF NoFailures, Entries
    <3>2. failures' \in [Addresses -> Entries]
      BY <1>0, <2>1, <3>1 DEF TInv, ThrottleTypes
    <3>3. \A v \in wrong : v.nth < answered + 1
      BY DEF TInv, ThrottleTypes
    <3>4. QED
      BY <1>1, <2>1, <3>2, <3>3 DEF TInv, ThrottleTypes
  <2>7. QED
    BY <1>1, <2>5, <2>6 DEF TInv
<1>11. QED
  BY <1>8, <1>9, <1>10 DEF LoginRead

LEMMA TNext == TInv /\ [Next]_vars => TInv'
<1> SUFFICES ASSUME TInv, [Next]_vars PROVE TInv'
  OBVIOUS
<1> USE DEF Serving, process, Up
<1>1. ASSUME NEW told \in Told, Start(told) PROVE TInv'
  BY <1>1, TUntouched DEF Start
<1>2. CASE MintEphemeral \/ ReadKey \/ WriteKey
  BY <1>2, TUntouched DEF MintEphemeral, ReadKey, WriteKey
<1>3. CASE Arm
  <2>1. UNCHANGED <<throttle, reading, answered, now, config>> /\ ~Up
    BY <1>3 DEF Arm
  <2>2. Idle' /\ ThrottleTypes'
    BY <2>1 DEF TInv, ThrottleTypes, Idle, throttle, reading
  <2>3. (ThrottleTypes /\ Idle => AllFit)'
    BY IdleFits, PTL
  <2>4. QED
    BY <2>2, <2>3 DEF TInv
<1>4. CASE Stop
  <2>1. NoFailures \in Entries
    BY DEF NoFailures, Entries
  <2>2. Idle' /\ ThrottleTypes'
    BY <1>4, <2>1, FS_EmptySet DEF Stop, TInv, ThrottleTypes, Idle, NoLogins, Nobody
  <2>3. (ThrottleTypes /\ Idle => AllFit)'
    BY IdleFits, PTL
  <2>4. QED
    BY <2>2, <2>3 DEF TInv
<1>5. CASE Tick
  BY <1>5, TUntouched DEF Tick
<1>6. ASSUME NEW c \in Client, Presents(c) PROVE TInv'
  BY <1>6, TUntouched DEF Presents
<1>7. ASSUME NEW c \in Client, NEW origin, handleLogout(c, origin) PROVE TInv'
  BY <1>7, TUntouched DEF handleLogout
<1>8. CASE UNCHANGED vars
  BY <1>8, TUntouched DEF vars
<1>9. QED
  BY <1>1, <1>2, <1>3, <1>4, <1>5, <1>6, <1>7, <1>8, TLogin, TLoginRead DEF Next

-----------------------------------------------------------------------------
(* The sessions.  The table is what is left of the sessions issued: each   *)
(* entry stands for one that was not logged out of, and one that is still  *)
(* good lost its entry only to MaxSessions later ones.                     *)

Session == [token : Nat, expiresAt : Nat]
Ordered(table_) == \A i, j \in DOMAIN table_ : i < j => table_[i].token < table_[j].token
StandsFor(entry, s) == s.token = entry.token /\ s.at + TTL = entry.expiresAt
InTable(s) == \E i \in DOMAIN sessions : StandsFor(sessions[i], s)

SessionTypes ==
    /\ sessions \in Seq(Session) /\ answered \in Nat /\ now \in Nat
    /\ IsFiniteSet(issued)
    /\ \A s \in issued : s.token \in Nat /\ s.at \in Nat /\ s.token <= answered
    /\ cookie \in [Client -> 0..answered] /\ out \subseteq 0..answered
TableTypes ==
    /\ Len(sessions) <= MaxSessions /\ Ordered(sessions)
    /\ \A i \in DOMAIN sessions : sessions[i].token \notin out
    /\ \A i \in DOMAIN sessions : \E s \in issued : StandsFor(sessions[i], s)
Displaced == \A s \in issued : Good(s) => InTable(s) \/ Cardinality(Later(s)) >= MaxSessions
TableInv == SessionTypes /\ TableTypes /\ Displaced

\* A table without a token: what is left of it, in the same order.
Drops(before, after, token) ==
    /\ after \in Seq(Session) /\ Len(after) <= Len(before) /\ Ordered(after)
    /\ \A k \in DOMAIN after : \E i \in DOMAIN before :
         after[k] = before[i] /\ before[i].token # token
    /\ \A i \in DOMAIN before : before[i].token # token =>
         \E k \in DOMAIN after : after[k] = before[i]

LEMMA WithoutProperties ==
  ASSUME sessions \in Seq(Session), Ordered(sessions), NEW token
  PROVE  Drops(sessions, Without(token), token)
<1> DEFINE left == Without(token)
<1>1. CASE Entry(token) = {}
  <2>1. left = sessions
    BY <1>1 DEF Without
  <2>2. \A i \in DOMAIN sessions : sessions[i].token # token
    BY <1>1 DEF Entry
  <2>3. Len(sessions) <= Len(sessions)
    OBVIOUS
  <2>4. QED
    BY <2>1, <2>2, <2>3 DEF Drops
<1>2. CASE Entry(token) # {}
  <2>1. PICK at \in Entry(token) : left = RemoveAt(sessions, at)
    BY <1>2 DEF Without
  <2>2. at \in 1..Len(sessions) /\ sessions[at].token = token
    BY DEF Entry
  <2>3. /\ left \in Seq(Session) /\ Len(left) = Len(sessions) - 1
        /\ \A k \in 1..(Len(sessions) - 1) :
             left[k] = IF k < at THEN sessions[k] ELSE sessions[k + 1]
    BY <2>1, <2>2, RemoveAtProperties
  <2> HIDE DEF left
  <2>4. DOMAIN left = 1..(Len(sessions) - 1) /\ DOMAIN sessions = 1..Len(sessions)
        /\ Len(sessions) \in Nat /\ Len(left) <= Len(sessions)
    BY <2>3
  <2>5. \A i \in DOMAIN sessions : sessions[i].token \in Nat
    <3>1. \A i \in DOMAIN sessions : sessions[i] \in Session
      OBVIOUS
    <3>2. QED
      BY <3>1 DEF Session
  <2>6. \A i \in DOMAIN sessions : i # at => sessions[i].token # token
    BY <2>2, <2>4, <2>5 DEF Ordered
  <2>7. Ordered(left)
    <3> SUFFICES ASSUME NEW i \in DOMAIN left, NEW j \in DOMAIN left, i < j
                 PROVE  left[i].token < left[j].token
      BY DEF Ordered
    <3>1. /\ left[i] = sessions[IF i < at THEN i ELSE i + 1]
          /\ left[j] = sessions[IF j < at THEN j ELSE j + 1]
      BY <2>3, <2>4
    <3>2. /\ (IF i < at THEN i ELSE i + 1) \in DOMAIN sessions
          /\ (IF j < at THEN j ELSE j + 1) \in DOMAIN sessions
          /\ (IF i < at THEN i ELSE i + 1) < (IF j < at THEN j ELSE j + 1)
      BY <2>2, <2>4
    <3>3. QED
      BY <3>1, <3>2 DEF Ordered
  <2>8. ASSUME NEW k \in DOMAIN left
        PROVE  \E i \in DOMAIN sessions : left[k] = sessions[i] /\ sessions[i].token # token
    <3>1. left[k] = sessions[IF k < at THEN k ELSE k + 1]
      BY <2>3, <2>4
    <3>2. /\ (IF k < at THEN k ELSE k + 1) \in DOMAIN sessions
          /\ (IF k < at THEN k ELSE k + 1) # at
      BY <2>2, <2>4
    <3>3. QED
      BY <2>6, <3>1, <3>2
  <2>9. ASSUME NEW i \in DOMAIN sessions, sessions[i].token # token
        PROVE  \E k \in DOMAIN left : left[k] = sessions[i]
    <3>1. i # at
      BY <2>2, <2>9
    <3>2. CASE i < at
      <4>1. i \in DOMAIN left /\ left[i] = sessions[i]
        BY <2>2, <2>3, <2>4, <3>2
      <4>2. QED
        BY <4>1
    <3>3. CASE i > at
      <4>1. i - 1 \in DOMAIN left /\ left[i - 1] = sessions[i]
        BY <2>2, <2>3, <2>4, <3>3
      <4>2. QED
        BY <4>1
    <3>4. QED
      BY <2>2, <2>4, <3>1, <3>2, <3>3
  <2>10. QED
    BY <2>3, <2>4, <2>7, <2>8, <2>9 DEF Drops, left
<1>3. QED
  BY <1>1, <1>2

\* A table of so many entries stands for as many sessions.
LEMMA AsManySessions ==
  ASSUME NEW tbl \in Seq(Session), Ordered(tbl), NEW S, IsFiniteSet(S),
         \A k \in DOMAIN tbl : \E s \in S : s.token = tbl[k].token
  PROVE  Cardinality(S) >= Len(tbl)
<1> DEFINE f == [k \in 1..Len(tbl) |-> CHOOSE s \in S : s.token = tbl[k].token]
<1>1. \A k \in 1..Len(tbl) : f[k] \in S /\ f[k].token = tbl[k].token
  OBVIOUS
<1>2. \A k \in 1..Len(tbl) : tbl[k].token \in Nat
  <2>1. \A k \in 1..Len(tbl) : tbl[k] \in Session
    OBVIOUS
  <2>2. QED
    BY <2>1 DEF Session
<1>3. \A j, k \in 1..Len(tbl) : j # k => tbl[j].token # tbl[k].token
  BY <1>2 DEF Ordered
<1>4. f \in [1..Len(tbl) -> S]
  BY <1>1
<1> HIDE DEF f
<1>5. f \in Injection(1..Len(tbl), S)
  BY <1>1, <1>3, <1>4 DEF Injection, IsInjective
<1>6. Cardinality(1..Len(tbl)) <= Cardinality(S)
  BY <1>5, FS_Injection
<1>7. Cardinality(1..Len(tbl)) = Len(tbl)
  <2>1. Len(tbl) \in Nat
    OBVIOUS
  <2> SUFFICES ASSUME NEW n \in Nat PROVE Cardinality(1..n) = n
    BY <2>1
  <2>2. 1 \in Int /\ n \in Int
    OBVIOUS
  <2>3. QED
    BY ONLY <2>2, FS_Interval, n \in Nat
<1>8. QED
  BY <1>6, <1>7

LEMMA TableInit == Init => TableInv
<1> SUFFICES ASSUME Init PROVE TableInv
  OBVIOUS
<1>1. SessionTypes
  BY FS_EmptySet, GatewayAssumption DEF Init, SessionTypes, NoToken
<1>2. TableTypes /\ Displaced
  BY GatewayAssumption DEF Init, TableTypes, Ordered, Displaced
<1>3. QED
  BY <1>1, <1>2 DEF TableInv

\* What leaves the table alone; time only ends sessions.
LEMMA TableUntouched ==
  ASSUME TableInv, UNCHANGED <<table, cookie, answered>>, now' = now \/ now' = now + 1
  PROVE  TableInv'
<1>1. UNCHANGED <<sessions, issued, out>> /\ now' \in Nat /\ now' >= now
  BY DEF table, TableInv, SessionTypes
<1>2. SessionTypes' /\ TableTypes'
  BY <1>1 DEF TableInv, SessionTypes, TableTypes
<1>3. \A s \in issued : Good(s)' => Good(s)
  BY <1>1, GatewayAssumption DEF Good, TableInv, SessionTypes
<1>4. \A s \in issued : (InTable(s)' <=> InTable(s)) /\ Later(s)' = Later(s)
  BY <1>1 DEF InTable, Later
<1>5. QED
  BY <1>1, <1>2, <1>3, <1>4 DEF TableInv, Displaced

\* An entry goes when its session is over: logged out of, or expired.
LEMMA TableDrops ==
  ASSUME TableInv, NEW token \in 0..answered, Drops(sessions, sessions', token),
         UNCHANGED <<issued, answered, now>>, out' = out \/ out' = out \cup {token},
         cookie' \in [Client -> 0..answered],
         \A s \in issued : s.token = token /\ Good(s)' => ~InTable(s)
  PROVE  TableInv'
<1>1. SessionTypes'
  BY DEF TableInv, SessionTypes, Drops
<1>2. TableTypes'
  <2>1. Len(sessions') <= MaxSessions /\ Ordered(sessions')
    BY GatewayAssumption DEF TableInv, TableTypes, Drops, SessionTypes
  <2>2. ASSUME NEW k \in DOMAIN sessions'
        PROVE  /\ sessions'[k].token \notin out'
               /\ \E s \in issued : StandsFor(sessions'[k], s)
    <3>1. PICK i \in DOMAIN sessions : sessions'[k] = sessions[i] /\ sessions[i].token # token
      BY DEF Drops
    <3>2. sessions[i].token \notin out /\ \E s \in issued : StandsFor(sessions[i], s)
      BY DEF TableInv, TableTypes
    <3>3. QED
      BY <3>1, <3>2
  <2>3. QED
    BY <2>1, <2>2 DEF TableTypes
<1>3. ASSUME NEW s \in issued, Good(s)'
      PROVE  InTable(s)' \/ Cardinality(Later(s)') >= MaxSessions
  <2>1. Good(s) /\ Later(s)' = Later(s)
    BY <1>3 DEF Good, Later
  <2>2. CASE InTable(s)
    <3>1. PICK i \in DOMAIN sessions : StandsFor(sessions[i], s)
      BY <2>2 DEF InTable
    <3>2. sessions[i].token # token
      BY <1>3, <2>2, <3>1 DEF StandsFor
    <3>3. PICK k \in DOMAIN sessions' : sessions'[k] = sessions[i]
      BY <3>2 DEF Drops
    <3>4. QED
      BY <3>1, <3>3 DEF InTable
  <2>3. CASE Cardinality(Later(s)) >= MaxSessions
    BY <2>1, <2>3
  <2>4. QED
    BY <2>1, <2>2, <2>3 DEF TableInv, Displaced
<1>4. QED
  BY <1>1, <1>2, <1>3 DEF TableInv, Displaced

LEMMA TablePresents ==
  ASSUME TableInv, NEW c \in Client, Presents(c)
  PROVE  TableInv'
<1>1. /\ sessions' = Without(cookie[c]) /\ ~hasSession(cookie[c])
      /\ UNCHANGED <<issued, out, answered, now, cookie>>
  BY DEF Presents
<1>2. cookie[c] \in 0..answered
  BY DEF TableInv, SessionTypes
<1>3. Drops(sessions, sessions', cookie[c])
  BY <1>1, WithoutProperties DEF TableInv, SessionTypes, TableTypes
<1>4. ASSUME NEW s \in issued, s.token = cookie[c], InTable(s) PROVE ~Good(s)'
  <2>1. PICK i \in DOMAIN sessions : StandsFor(sessions[i], s)
    BY <1>4 DEF InTable
  <2>2. sessions[i].token = cookie[c] /\ sessions[i].expiresAt = s.at + TTL
    BY <1>4, <2>1 DEF StandsFor
  <2>3. i \in Entry(cookie[c])
    BY <2>2 DEF Entry
  <2>4. ~(s.at + TTL > now)
    BY <1>1, <2>2, <2>3 DEF hasSession
  <2>5. QED
    BY <1>1, <2>4 DEF Good
<1>5. QED
  BY <1>1, <1>2, <1>3, <1>4, TableDrops DEF TableInv, SessionTypes

LEMMA TableLogout ==
  ASSUME TableInv, NEW c \in Client, NEW origin, handleLogout(c, origin)
  PROVE  TableInv'
<1>1. /\ UNCHANGED <<issued, answered, now>>
      /\ cookie' = [cookie EXCEPT ![c] = NoToken] /\ NoToken \in 0..answered
      /\ cookie[c] \in 0..answered /\ cookie' \in [Client -> 0..answered]
  BY DEF handleLogout, TableInv, SessionTypes, NoToken
<1>2. CASE enabled
  <2>1. sessions' = Without(cookie[c]) /\ out' = out \cup {cookie[c]}
    BY <1>2 DEF handleLogout
  <2>2. Drops(sessions, sessions', cookie[c])
    BY <2>1, WithoutProperties DEF TableInv, SessionTypes, TableTypes
  <2>3. \A s \in issued : s.token = cookie[c] => ~Good(s)'
    BY <2>1 DEF Good
  <2>4. QED
    BY <1>1, <2>1, <2>2, <2>3, TableDrops
<1>3. CASE ~enabled
  <2>1. UNCHANGED <<sessions, out>>
    BY <1>3 DEF handleLogout
  <2>2. SessionTypes' /\ TableTypes'
    BY <1>1, <2>1 DEF TableInv, SessionTypes, TableTypes
  <2>3. \A s \in issued : /\ Good(s)' <=> Good(s)
                          /\ InTable(s)' <=> InTable(s)
                          /\ Later(s)' = Later(s)
    BY <1>1, <2>1 DEF Good, InTable, Later
  <2>4. QED
    BY <1>1, <2>2, <2>3 DEF TableInv, Displaced
<1>4. QED
  BY <1>2, <1>3

\* A login takes its place at the end, of the oldest entry when the table is full.
LEMMA TableLogin ==
  ASSUME TableInv, NEW a \in Slot, LoginRead(a), login[a].candidate = "right"
  PROVE  TableInv'
<1> DEFINE c == login[a].client
           n == answered + 1
           entry == [token |-> n, expiresAt |-> now + TTL]
           fresh == [token |-> n, at |-> now]
           full == Len(sessions) >= MaxSessions
           old == IF full THEN Tail(sessions) ELSE sessions
<1>1. /\ sessions' = Append(old, entry) /\ issued' = issued \cup {fresh}
      /\ answered' = n /\ now' = now /\ out' = out
      /\ cookie' = [cookie EXCEPT ![c] = n]
  BY DEF LoginRead, createSession
<1>2. /\ answered \in Nat /\ now \in Nat /\ n \in Nat /\ TTL \in Nat \ {0} /\ MaxSessions \in Nat \ {0}
      /\ entry \in Session /\ entry.token = n /\ entry.expiresAt = now + TTL
      /\ fresh.token = n /\ fresh.at = now
  BY GatewayAssumption DEF TableInv, SessionTypes, Session
<1>3. /\ sessions \in Seq(Session) /\ Ordered(sessions) /\ Len(sessions) <= MaxSessions
      /\ \A i \in DOMAIN sessions : sessions[i] \in Session
  BY DEF TableInv, SessionTypes, TableTypes
<1> DEFINE shift == IF full THEN 1 ELSE 0
<1>4. /\ old \in Seq(Session) /\ Len(old) = Len(sessions) - shift
      /\ \A k \in 1..Len(old) : k + shift \in DOMAIN sessions /\ old[k] = sessions[k + shift]
  <2>1. CASE full
    <3>1. Len(sessions) \in Nat /\ Len(sessions) >= 1
      BY <1>2, <1>3, <2>1
    <3>2. /\ Tail(sessions) \in Seq(Session) /\ Len(Tail(sessions)) = Len(sessions) - 1
          /\ \A k \in 1..(Len(sessions) - 1) : Tail(sessions)[k] = sessions[k + 1]
      BY <1>3, <3>1
    <3>3. QED
      BY <1>3, <2>1, <3>1, <3>2
  <2>2. CASE ~full
    BY <1>3, <2>2
  <2>3. QED
    BY <2>1, <2>2
<1>5. shift \in Nat /\ Len(old) \in Nat /\ Len(old) < MaxSessions
  BY <1>2, <1>3, <1>4
<1> HIDE DEF old, shift, entry, fresh, n, c
<1>6. /\ sessions' \in Seq(Session) /\ Len(sessions') = Len(old) + 1
      /\ \A k \in 1..Len(old) : sessions'[k] = old[k]
      /\ sessions'[Len(old) + 1] = entry
  BY <1>1, <1>2, <1>4
<1>7. \A k \in DOMAIN sessions' :
        \/ k = Len(old) + 1 /\ sessions'[k] = entry
        \/ /\ k \in 1..Len(old) /\ k + shift \in DOMAIN sessions
           /\ sessions'[k] = sessions[k + shift]
  <2> SUFFICES ASSUME NEW k \in DOMAIN sessions'
               PROVE  \/ k = Len(old) + 1 /\ sessions'[k] = entry
                      \/ /\ k \in 1..Len(old) /\ k + shift \in DOMAIN sessions
                         /\ sessions'[k] = sessions[k + shift]
    OBVIOUS
  <2>1. DOMAIN sessions' = 1..(Len(old) + 1)
    BY <1>6
  <2>2. k = Len(old) + 1 \/ k \in 1..Len(old)
    BY <1>5, <2>1
  <2>3. CASE k = Len(old) + 1
    BY <1>6, <2>3
  <2>4. CASE k \in 1..Len(old)
    <3>1. sessions'[k] = old[k]
      BY <1>6, <2>4
    <3>2. k + shift \in DOMAIN sessions /\ old[k] = sessions[k + shift]
      BY <1>4, <2>4
    <3>3. QED
      BY <2>4, <3>1, <3>2
  <2>5. QED
    BY <2>2, <2>3, <2>4
<1>8. \A i \in DOMAIN sessions : sessions[i].token \in Nat /\ sessions[i].token < n
  <2> SUFFICES ASSUME NEW i \in DOMAIN sessions
               PROVE  sessions[i].token \in Nat /\ sessions[i].token < n
    OBVIOUS
  <2>1. PICK s \in issued : s.token = sessions[i].token
    BY DEF TableInv, TableTypes, StandsFor
  <2>2. s.token <= answered /\ s.token \in Nat
    BY DEF TableInv, SessionTypes
  <2>3. QED
    BY <1>2, <2>1, <2>2 DEF n
<1>9. Ordered(sessions')
  <2> SUFFICES ASSUME NEW i \in DOMAIN sessions', NEW j \in DOMAIN sessions', i < j
               PROVE  sessions'[i].token < sessions'[j].token
    BY DEF Ordered
  <2>1. i \in Nat /\ j \in Nat /\ i <= Len(old) + 1 /\ j <= Len(old) + 1
    BY <1>5, <1>6
  <2>2. i # Len(old) + 1
    BY <1>5, <2>1
  <2>3. i + shift \in DOMAIN sessions /\ sessions'[i] = sessions[i + shift]
    BY <1>7, <2>2
  <2>4. CASE j = Len(old) + 1 /\ sessions'[j] = entry
    BY <1>2, <1>8, <2>3, <2>4
  <2>5. CASE j + shift \in DOMAIN sessions /\ sessions'[j] = sessions[j + shift]
    <3>1. i + shift < j + shift
      BY <1>5, <2>1
    <3>2. QED
      BY <1>3, <2>3, <2>5, <3>1 DEF Ordered
  <2>6. QED
    BY <1>7, <2>4, <2>5
<1>10. SessionTypes'
  <2>1. IsFiniteSet(issued')
    BY <1>1, FS_AddElement DEF TableInv, SessionTypes
  <2>2. \A s \in issued' : s.token \in Nat /\ s.at \in Nat /\ s.token <= n
    BY <1>1, <1>2 DEF TableInv, SessionTypes, n
  <2>3. cookie' \in [Client -> 0..n] /\ out \subseteq 0..n
    <3>1. cookie \in [Client -> 0..n] /\ out \subseteq 0..n /\ n \in 0..n
      BY <1>2 DEF TableInv, SessionTypes, n
    <3>2. cookie' = [d \in Client |-> IF d = c THEN n ELSE cookie[d]]
      BY <1>1, <3>1
    <3>3. QED
      BY <3>1, <3>2
  <2>4. QED
    BY <1>1, <1>2, <1>6, <2>1, <2>2, <2>3 DEF SessionTypes
<1>11. TableTypes'
  <2>1. ASSUME NEW k \in DOMAIN sessions'
        PROVE  /\ sessions'[k].token \notin out'
               /\ \E s \in issued' : StandsFor(sessions'[k], s)
    <3>1. CASE sessions'[k] = entry
      <4>1. n \notin out
        BY <1>2 DEF TableInv, SessionTypes, n
      <4>2. StandsFor(entry, fresh) /\ fresh \in issued'
        BY <1>1, <1>2 DEF StandsFor
      <4>3. QED
        BY <1>1, <1>2, <3>1, <4>1, <4>2
    <3>2. CASE k + shift \in DOMAIN sessions /\ sessions'[k] = sessions[k + shift]
      BY <1>1, <3>2 DEF TableInv, TableTypes
    <3>3. QED
      BY <1>7, <3>1, <3>2
  <2>2. Len(sessions') <= MaxSessions
    BY <1>2, <1>5, <1>6
  <2>3. QED
    BY <1>9, <2>1, <2>2 DEF TableTypes
<1>12. ASSUME NEW s \in issued', Good(s)'
       PROVE  InTable(s)' \/ Cardinality(Later(s)') >= MaxSessions
  <2>1. CASE s = fresh
    <3>1. StandsFor(sessions'[Len(old) + 1], s) /\ Len(old) + 1 \in DOMAIN sessions'
      BY <1>2, <1>5, <1>6, <2>1 DEF StandsFor
    <3>2. QED
      BY <3>1 DEF InTable
  <2>2. CASE s \in issued
    <3>1. Good(s)
      BY <1>1, <1>12 DEF Good
    <3>2. IsFiniteSet(Later(s)') /\ Later(s) \subseteq Later(s)'
      BY <1>1, <1>10, FS_Subset DEF Later, SessionTypes
    <3>3. CASE Cardinality(Later(s)) >= MaxSessions
      <4>1. Cardinality(Later(s)) <= Cardinality(Later(s)')
        BY <3>2, FS_Subset
      <4>2. Cardinality(Later(s)) \in Nat /\ Cardinality(Later(s)') \in Nat
        BY <3>2, FS_Subset, FS_CardinalityType
      <4>3. QED
        BY <1>2, <3>3, <4>1, <4>2
    <3>4. CASE InTable(s)
      <4>1. PICK i \in DOMAIN sessions : StandsFor(sessions[i], s)
        BY <3>4 DEF InTable
      <4>2. CASE i > shift
        <5>1. i - shift \in 1..Len(old) /\ (i - shift) + shift = i
          BY <1>3, <1>4, <1>5, <4>2
        <5>2. sessions'[i - shift] = sessions[i] /\ i - shift \in DOMAIN sessions'
          <6>1. sessions'[i - shift] = old[i - shift]
            BY <1>6, <5>1
          <6>2. old[i - shift] = sessions[(i - shift) + shift]
            BY <1>4, <5>1
          <6>3. DOMAIN sessions' = 1..(Len(old) + 1)
            BY <1>6
          <6>4. i - shift \in DOMAIN sessions'
            BY <1>5, <5>1, <6>3
          <6>5. QED
            BY <5>1, <6>1, <6>2, <6>4
        <5>3. QED
          BY <4>1, <5>2 DEF InTable
      <4>3. CASE ~(i > shift)
        <5>1. full /\ i = 1
          BY <1>3, <1>5, <4>3 DEF shift
        <5>2. Len(sessions') = MaxSessions
          BY <1>2, <1>3, <1>4, <1>6, <5>1 DEF shift
        <5>3. ASSUME NEW k \in DOMAIN sessions'
              PROVE  \E t \in Later(s)' : t.token = sessions'[k].token
          <6>1. sessions'[k].token > s.token
            <7>1. CASE sessions'[k] = entry
              BY <1>2, <1>8, <4>1, <7>1 DEF StandsFor
            <7>2. CASE k \in 1..Len(old) /\ k + shift \in DOMAIN sessions
                       /\ sessions'[k] = sessions[k + shift]
              <8>1. i < k + shift
                BY <1>5, <5>1, <7>2 DEF shift
              <8>2. sessions[i].token < sessions[k + shift].token
                BY <1>3, <7>2, <8>1 DEF Ordered
              <8>3. QED
                BY <1>8, <4>1, <7>2, <8>2 DEF StandsFor
            <7>3. QED
              BY <1>7, <7>1, <7>2
          <6>2. PICK t \in issued' : t.token = sessions'[k].token
            BY <1>11 DEF TableTypes, StandsFor
          <6>3. t \in Later(s)'
            BY <6>1, <6>2 DEF Later
          <6>4. QED
            BY <6>2, <6>3
        <5>4. Cardinality(Later(s)') >= Len(sessions')
          BY <1>6, <1>9, <3>2, <5>3, AsManySessions
        <5>5. QED
          BY <5>2, <5>4
      <4>4. QED
        BY <4>2, <4>3
    <3>5. QED
      BY <3>1, <3>3, <3>4, <2>2 DEF TableInv, Displaced
  <2>3. QED
    BY <1>1, <2>1, <2>2
<1>13. QED
  BY <1>10, <1>11, <1>12 DEF TableInv, Displaced

LEMMA TableNext == TableInv /\ [Next]_vars => TableInv'
<1> SUFFICES ASSUME TableInv, [Next]_vars PROVE TableInv'
  OBVIOUS
<1>1. CASE \/ \E told \in Told : Start(told)
           \/ MintEphemeral \/ ReadKey \/ WriteKey \/ Arm \/ Tick
  BY <1>1, TableUntouched DEF Start, MintEphemeral, ReadKey, WriteKey, Arm, Tick, Serving
<1>2. CASE Stop
  <2>1. /\ sessions' = <<>> /\ issued' = {} /\ out' = {}
        /\ UNCHANGED <<cookie, answered, now>>
    BY <1>2 DEF Stop
  <2>2. SessionTypes'
    BY <2>1, FS_EmptySet DEF TableInv, SessionTypes
  <2>3. TableTypes' /\ Displaced'
    BY <2>1, GatewayAssumption DEF TableTypes, Ordered, Displaced
  <2>4. QED
    BY <2>2, <2>3 DEF TableInv
<1>3. ASSUME NEW a \in Slot, LoginRead(a) PROVE TableInv'
  <2>1. CASE login[a].candidate = "right"
    BY <1>3, <2>1, TableLogin
  <2>2. CASE login[a].candidate = "malformed"
    BY <1>3, <2>2, TableUntouched DEF LoginRead
  <2>3. CASE login[a].candidate = "wrong"
    <3>1. /\ UNCHANGED <<sessions, issued, out, cookie, now>> /\ answered' = answered + 1
      BY <1>3, <2>3 DEF LoginRead, table
    <3>2. /\ cookie \in [Client -> 0..(answered + 1)] /\ out \subseteq 0..(answered + 1)
          /\ \A s \in issued : s.token <= answered + 1
      BY DEF TableInv, SessionTypes
    <3>3. SessionTypes' /\ TableTypes'
      BY <3>1, <3>2 DEF TableInv, SessionTypes, TableTypes
    <3>4. \A s \in issued : /\ Good(s)' <=> Good(s)
                            /\ InTable(s)' <=> InTable(s)
                            /\ Later(s)' = Later(s)
      BY <3>1 DEF Good, InTable, Later
    <3>5. QED
      BY <3>1, <3>3, <3>4 DEF TableInv, Displaced
  <2>4. QED
    BY <1>3, <2>1, <2>2, <2>3 DEF LoginRead
<1>4. ASSUME NEW a \in Slot, NEW post \in Posted, NEW origin, Login(a, post, origin)
      PROVE  TableInv'
  BY <1>4, TableUntouched DEF Login
<1>5. CASE UNCHANGED vars
  BY <1>5, TableUntouched DEF vars
<1>6. QED
  BY <1>1, <1>2, <1>3, <1>4, <1>5, TablePresents, TableLogout DEF Next

-----------------------------------------------------------------------------
(* What the tables tell.                                                   *)

\* A blocked entry has its wrong answers within the window, and they are in
\* any set of answers that has those of the window.
LEMMA BlockedHasItsAnswers ==
  ASSUME NEW entry, NEW answers, NEW pending, NEW max, NEW all,
         Entry0(answers, pending, max, all, now), Fits(entry, answers, pending, max, all, now),
         blocked(entry, max),
         NEW seen \in SUBSET answers, \A w \in answers : w.at > now - Window => w \in seen
  PROVE  Cardinality(seen) >= max
<1>1. /\ entry.count \in Nat /\ entry.windowStart \in Nat /\ now \in Nat /\ max \in Nat
      /\ Window \in Nat /\ \A w \in answers : w.at \in Nat
  BY GatewayAssumption DEF Fits, Entry0, Entries
<1>2. entry.count >= max /\ now - entry.windowStart < Window
  BY DEF blocked
<1>3. Cardinality(Since(answers, entry.windowStart)) >= entry.count
  BY <1>2 DEF Fits, InWindowAt
<1>4. Since(answers, entry.windowStart) \subseteq seen
  BY <1>1, <1>2 DEF Since
<1>5. IsFiniteSet(seen)
  BY FS_Subset DEF Entry0
<1>6. /\ Cardinality(Since(answers, entry.windowStart)) <= Cardinality(seen)
      /\ Cardinality(Since(answers, entry.windowStart)) \in Nat /\ Cardinality(seen) \in Nat
  BY <1>4, <1>5, FS_Subset, FS_CardinalityType
<1>7. QED
  BY <1>1, <1>2, <1>3, <1>6

\* An entry that fits is below its limit by the logins being read.
LEMMA FitsBelow ==
  ASSUME NEW entry, NEW answers, NEW pending, NEW max, NEW all,
         Entry0(answers, pending, max, all, now), Fits(entry, answers, pending, max, all, now)
  PROVE  InWindow(entry) => entry.count < max + all
<1>1. Cardinality(pending) \in Nat /\ all \in Nat
  BY Sizes
<1>2. entry.count \in Nat /\ max \in Nat
  BY DEF Fits, Entry0, Entries
<1>3. QED
  BY <1>1, <1>2 DEF Fits, InWindow, InWindowAt

LEMMA TablesFromInvariants ==
  ASSUME TInv, TableInv
  PROVE  TablesTell
<1>1. /\ Len(sessions) <= MaxSessions
      /\ \A i, j \in DOMAIN sessions : i < j => sessions[i].token < sessions[j].token
  BY DEF TableInv, TableTypes, Ordered
<1>2. ASSUME NEW c \in Client
      PROVE  /\ InWindow(failures[clientIp(c)])
                  => failures[clientIp(c)].count < MaxPerIp + most[clientIp(c)]
             /\ InWindow(globalFailures) => globalFailures.count < MaxGlobal + globalMost
             /\ loginBlocked(clientIp(c)) =>
                  \/ Cardinality({w \in Recent : w.ip = clientIp(c)}) >= MaxPerIp
                  \/ Cardinality(Recent) >= MaxGlobal
  <2> DEFINE ip == clientIp(c)
  <2>1. ip \in Addresses
    BY AddressKnown
  <2> HIDE DEF ip
  <2>3. /\ Entry0(WrongFrom(ip), ReadingFrom(ip), MaxPerIp, most[ip], now)
        /\ Entry0(wrong, Reading, MaxGlobal, globalMost, now)
    BY <2>1, EntriesOf DEF TInv
  <2>4. /\ Fits(failures[ip], WrongFrom(ip), ReadingFrom(ip), MaxPerIp, most[ip], now)
        /\ Fits(globalFailures, wrong, Reading, MaxGlobal, globalMost, now)
    BY <2>1 DEF TInv, AllFit
  <2>5. /\ InWindow(failures[ip]) => failures[ip].count < MaxPerIp + most[ip]
        /\ InWindow(globalFailures) => globalFailures.count < MaxGlobal + globalMost
    BY <2>3, <2>4, FitsBelow
  <2>6. ASSUME blocked(failures[ip], MaxPerIp)
        PROVE  Cardinality({w \in Recent : w.ip = ip}) >= MaxPerIp
    <3>1. {w \in Recent : w.ip = ip} \in SUBSET WrongFrom(ip)
      BY DEF Recent, WrongFrom
    <3>2. \A w \in WrongFrom(ip) : w.at > now - Window => w \in {v \in Recent : v.ip = ip}
      BY DEF Recent, WrongFrom
    <3>3. QED
      BY <2>3, <2>4, <2>6, <3>1, <3>2, BlockedHasItsAnswers
  <2>7. ASSUME blocked(globalFailures, MaxGlobal)
        PROVE  Cardinality(Recent) >= MaxGlobal
    <3>1. Recent \in SUBSET wrong /\ \A w \in wrong : w.at > now - Window => w \in Recent
      BY DEF Recent
    <3>2. QED
      BY <2>3, <2>4, <2>7, <3>1, BlockedHasItsAnswers
  <2>8. loginBlocked(ip) =>
          \/ Cardinality({w \in Recent : w.ip = ip}) >= MaxPerIp
          \/ Cardinality(Recent) >= MaxGlobal
    BY <2>6, <2>7 DEF loginBlocked
  <2>9. QED
    BY <2>5, <2>8 DEF ip
<1>3. QED
  BY <1>1, <1>2 DEF TablesTell

\* The tables keep to what they are for: the sessions their cap and order, the
\* throttle its limits but for the most logins that were on their way at once, and
\* no login is turned away that the wrong answers of the window do not account
\* for (auth.ts:153, 296-322, 399-407).
THEOREM TablesTellAlways == Spec => []TablesTell
<1>1. TInv /\ TableInv => TablesTell
  BY TablesFromInvariants
<1>2. QED
  BY <1>1, TInit, TNext, TableInit, TableNext, PTL DEF Spec

LEMMA SessionsFromInvariant ==
  ASSUME TableInv
  PROVE  SessionsTell
<1> SUFFICES ASSUME Up, enabled, NEW token \in 1..answered
             PROVE  LET mine == {s \in issued : s.token = token}
                        in == Document(token) = "application"
                    IN  /\ in => \E s \in mine : Good(s)
                        /\ ~in => \A s \in mine : Good(s) => Cardinality(Later(s)) >= MaxSessions
                        /\ \A c \in Client, unsafe \in BOOLEAN :
                             originVerdict(c, OwnOrigin(c)) = "ok" =>
                                 (Admits(c, ByCookie(c, token, unsafe)) <=> in)
  BY DEF SessionsTell
<1>1. (Document(token) = "application") <=> hasSession(token)
  BY DEF Document
<1>2. ASSUME hasSession(token)
      PROVE  \E s \in issued : s.token = token /\ Good(s)
  <2>1. PICK i \in DOMAIN sessions : sessions[i].token = token /\ sessions[i].expiresAt > now
    BY <1>2 DEF hasSession, Entry
  <2>2. PICK s \in issued : StandsFor(sessions[i], s)
    BY <2>1 DEF TableInv, TableTypes
  <2>3. s.token = token /\ s.token \notin out
    BY <2>1, <2>2 DEF TableInv, TableTypes, StandsFor
  <2>4. s.at + TTL > now
    BY <2>1, <2>2 DEF StandsFor
  <2>5. QED
    BY <2>3, <2>4 DEF Good
<1>3. ASSUME ~hasSession(token), NEW s \in issued, s.token = token, Good(s)
      PROVE  Cardinality(Later(s)) >= MaxSessions
  <2>1. ASSUME InTable(s)
        PROVE  FALSE
    <3>1. PICK i \in DOMAIN sessions : StandsFor(sessions[i], s)
      BY <2>1 DEF InTable
    <3>2. sessions[i].token = token /\ sessions[i].expiresAt > now
      BY <1>3, <3>1 DEF StandsFor, Good
    <3>3. QED
      BY <1>3, <3>2 DEF hasSession, Entry
  <2>2. QED
    BY <1>3, <2>1 DEF TableInv, Displaced
<1>4. ASSUME NEW c \in Client, NEW unsafe \in BOOLEAN, originVerdict(c, OwnOrigin(c)) = "ok"
      PROVE  Admits(c, ByCookie(c, token, unsafe)) <=> hasSession(token)
  <2>1. /\ ByCookie(c, token, unsafe).host = Unset /\ ByCookie(c, token, unsafe).key = NoKey
        /\ ByCookie(c, token, unsafe).origin = OwnOrigin(c)
        /\ ByCookie(c, token, unsafe).token = token
        /\ ByCookie(c, token, unsafe).unsafe = unsafe
    BY DEF ByCookie
  <2>2. authenticate(c, ByCookie(c, token, unsafe)) =
          IF hasSession(token) THEN "cookie" ELSE "refused"
    BY <1>4, <2>1 DEF authenticate
  <2>3. QED
    BY <2>1, <2>2 DEF Admits, hostAllowed
<1>5. QED
  BY <1>1, <1>2, <1>3, <1>4

\* A session is good, for the page and for the API alike, from its login until
\* its logout or its end, unless MaxSessions later logins took its place
\* (auth.ts:153, 173), whatever else the process did in between.
THEOREM SessionsTellAlways == Spec => []SessionsTell
<1>1. TableInv => SessionsTell
  BY SessionsFromInvariant
<1>2. QED
  BY <1>1, TableInit, TableNext, PTL DEF Spec

=============================================================================
