---------------------------- MODULE SessionsProofs ----------------------------
(* Proofs about Sessions, for any processes, names, hosts, ports and keys.   *)
EXTENDS Sessions, TLAPS

-----------------------------------------------------------------------------
(* What the assumption says of the values.                                  *)

LEMMA Values ==
    /\ Default \in Settings
    /\ \A o \in Invocations : o \in Opts
    /\ \A e \in Edits, v \in Settings : Over(e, v) \in Settings
    /\ \A l \in LegacyFiles : Over(l, Default) \in Settings
    /\ \A e \in Edits \cup LegacyFiles : DOMAIN e \subseteq Fields
    /\ Absent # Torn
    /\ \A v \in Settings : v # Absent /\ v # Torn /\ v # None
    /\ \A v \in SessionConfig : v # Absent /\ v # Torn /\ v # None
    /\ \A v \in Config \cup Opts : v # None
    /\ \A n \in Names : n # "config" /\ n # "last" /\ n # None
    /\ None # "config" /\ None # "last"
  BY SessionAssumption DEF Fields

\* The paths are told apart.
LEMMA PathFacts ==
    /\ "config" \in Paths /\ "last" \in Paths /\ "config" # "last"
    /\ \A n \in Names : n \in Paths
    /\ \A p \in Paths : p # None
    /\ \A p \in Paths \ {"config"} : p = "last" \/ p \in Names
  BY Values DEF Paths

\* The settings a process loads, and the first of two options.
LEMMA Loaded ==
  ASSUME TypeOK
  PROVE  LoadConfig \in Settings
<1>1. file["config"] \in Settings \cup {Absent, Torn}
  BY DEF TypeOK
<1> QED
  BY <1>1, Values DEF LoadConfig, Readable

\* The first of two options.
LEMMA Either ==
  ASSUME NEW S, NEW a \in Option(S), NEW b
  PROVE  /\ b \in S => OrElse(a, b) \in S
         /\ b \in Option(S) => OrElse(a, b) \in Option(S)
         /\ a = None => OrElse(a, b) = b
         /\ a # None => OrElse(a, b) = a
  BY DEF OrElse, Option

\* What is typed into every setting.
LEMMA Typed ==
  ASSUME NEW e \in Edits, NEW f \in Edits
  PROVE  [Over(e, Over(f, Default)) EXCEPT !.port = DefaultPort] \in Settings
<1>1. Default \in Settings /\ Over(e, Over(f, Default)) \in Settings
  BY Values
<1>2. DefaultPort \in Ports
  BY <1>1 DEF Settings, Default
<1>3. \A v \in Settings : [v EXCEPT !.port = DefaultPort] \in Settings
  BY <1>2 DEF Settings
<1> QED
  BY <1>1, <1>3

-----------------------------------------------------------------------------
(* How the configuration of a tunnel is resolved.                           *)

\* A tunnel resolved from options, perhaps a session, and settings.
LEMMA Resolved ==
  ASSUME NEW o \in Opts, NEW s \in Option(SessionConfig), NEW v \in Settings
  PROVE  from_opts_and_session(o, s, v) \in Config
<1>1. /\ v.host \in Hosts /\ v.ctrl_host \in Option(CtrlHosts)
      /\ v.ctrl_port \in CtrlPorts /\ v.tls \in BOOLEAN /\ v.port \in Ports
      /\ v.key \in Option(Keys)
  BY DEF Settings
<1>2. /\ o.port \in Option(Ports) /\ o.sub_domain \in Option(Subs)
      /\ o.domain \in Option(Hosts) /\ o.key \in Option(Keys)
      /\ o.wildcard \in BOOLEAN
  BY DEF Opts
<1>3. wormhole(v.host) \in {wormhole(h) : h \in Hosts}
  BY <1>1
<1>4. CASE s = None
  <2>1. from_opts_and_session(o, s, v) =
          [ctrl_host |-> OrElse(v.ctrl_host, wormhole(v.host)),
           ctrl_port |-> v.ctrl_port, tls |-> v.tls, host |-> v.host,
           port |-> OrElse(o.port, v.port),
           sub_domain |-> OrElse(o.sub_domain, None),
           domain |-> OrElse(o.domain, None),
           key |-> OrElse(o.key, OrElse(None, v.key)),
           wildcard |-> o.wildcard]
    BY <1>4, <1>2 DEF from_opts_and_session, LocalPort
  <2> QED
    BY <1>1, <1>2, <1>3, <2>1 DEF Config, OrElse, Option
<1>5. CASE s # None
  <2>1. s \in SessionConfig
    BY <1>5 DEF Option
  <2>2. /\ s.port \in Ports /\ s.sub_domain \in Option(Subs) /\ s.domain \in Hosts
        /\ s.key \in Option(Keys) /\ s.wildcard \in BOOLEAN
        /\ s.ctrl_host \in Option(CtrlHosts) /\ s.ctrl_port \in CtrlPorts \cup {0}
        /\ s.tls \in BOOLEAN
    BY <2>1 DEF SessionConfig
  <2>3. from_opts_and_session(o, s, v) =
          [ctrl_host |-> OrElse(s.ctrl_host, wormhole(v.host)),
           ctrl_port |-> s.ctrl_port, tls |-> s.tls, host |-> v.host,
           port |-> OrElse(o.port, s.port),
           sub_domain |-> OrElse(o.sub_domain, s.sub_domain),
           domain |-> OrElse(o.domain, s.domain),
           key |-> OrElse(o.key, OrElse(s.key, v.key)),
           wildcard |-> o.wildcard \/ s.wildcard]
    BY <1>5 DEF from_opts_and_session, LocalPort
  <2> QED
    BY <1>1, <1>2, <1>3, <2>2, <2>3 DEF Config, OrElse, Option
<1> QED
  BY <1>4, <1>5

\* The session of a tunnel is one.
LEMMA SessionTyped ==
  ASSUME NEW t \in Config
  PROVE  SessionOf(t) \in SessionConfig
  BY DEF SessionOf, SessionConfig, Config, OrElse, Option

\* The heart of restoring: options, settings and what the session was saved
\* from go into the new tunnel as they should.
LEMMA ResolvedKeeps ==
  ASSUME NEW o \in Opts, NEW was \in Config, NEW v \in Settings
  PROVE  Keeps(from_opts_and_session(o, SessionOf(was), v), o, was)
<1> DEFINE s == SessionOf(was)
           t == from_opts_and_session(o, s, v)
<1>1. s # None
  BY SessionTyped, Values
<1>2. /\ s.port = was.port /\ s.sub_domain = was.sub_domain
      /\ s.domain = OrElse(was.domain, was.host) /\ s.key = was.key
  BY DEF SessionOf
<1>3. s.wildcard = was.wildcard
  BY DEF SessionOf
<1> HIDE DEF s
<1>4. /\ t.port = OrElse(o.port, s.port)
      /\ t.sub_domain = OrElse(o.sub_domain, s.sub_domain)
      /\ t.domain = OrElse(o.domain, s.domain)
      /\ t.key = OrElse(o.key, OrElse(s.key, v.key))
  BY <1>1 DEF from_opts_and_session, LocalPort
<1>5. t.wildcard = (o.wildcard \/ s.wildcard)
  BY <1>1 DEF from_opts_and_session
<1>6. o.wildcard \/ t.wildcard = was.wildcard
  <2>1. o.wildcard \in BOOLEAN /\ was.wildcard \in BOOLEAN
    BY DEF Opts, Config
  <2> HIDE DEF t
  <2> QED
    BY <1>3, <1>5, <2>1
<1> HIDE DEF t
<1>7. Keeps(t, o, was)
  BY <1>2, <1>4, <1>6 DEF Keeps, OrElse
<1> QED
  BY <1>7 DEF t, s

\* What is typed at the prompts of a menu.
LEMMA PromptTyped ==
  ASSUME NEW o \in Opts, NEW seen \in Settings, NEW v \in Settings
  PROVE  LET params == [o EXCEPT
                          !.port   = OrElse(o.port, seen.port),
                          !.domain = IF o.domain = seen.host THEN None ELSE @,
                          !.key    = OrElse(o.key, seen.key)]
         IN  Interactively(params, v) \in Config
  BY DEF Interactively, Config, Opts, Settings, OrElse, Option

-----------------------------------------------------------------------------
(* The steps, and what they leave alone.                                    *)

Step(c) ==
    \/ Truncate(c) \/ Write(c)
    \/ ConfigSet(c) \/ ConfigOnboard(c)
    \/ Direct(c) \/ Restore(c) \/ Resolve(c)
    \/ Interactive(c) \/ Panics(c) \/ Menu(c) \/ MenuRestore(c) \/ Prompt(c)
    \/ Connects(c) \/ Reconnects(c)
    \/ SavesAdd(c) \/ SavesRm(c) \/ Stopped(c)

\* Every step is one of a process.
LEMMA NextSteps == Next <=> \E c \in Procs : Step(c)
  BY Zenon DEF Next, Step

\* Where a process may stand.
Places == {"idle", "truncate", "write", "menu", "prompt", "resolve", "dial", "up"}

\* The memory of the process d.
Same(d) ==
    /\ pc'[d] = pc[d] /\ out'[d] = out[d] /\ buffer'[d] = buffer[d]
    /\ opts'[d] = opts[d] /\ session'[d] = session[d] /\ shown'[d] = shown[d]
    /\ tunnel'[d] = tunnel[d] /\ from'[d] = from[d]

\* How one process may change a variable.
At1(f, g, c) == g = f \/ \E x : g = [f EXCEPT ![c] = x]

\* A function changed at one argument is the same at the others.
LEMMA OtherSame ==
  ASSUME NEW S, NEW T, NEW f \in [S -> T], NEW g, NEW c, At1(f, g, c),
         NEW d \in S, d # c
  PROVE  g[d] = f[d]
  BY DEF At1

\* A step changes the memory of no process but its own.
LEMMA Alone ==
  ASSUME NEW c \in Procs, Step(c)
  PROVE  /\ At1(pc, pc', c) /\ At1(out, out', c) /\ At1(buffer, buffer', c)
         /\ At1(opts, opts', c) /\ At1(session, session', c)
         /\ At1(shown, shown', c) /\ At1(tunnel, tunnel', c)
         /\ At1(from, from', c)
<1> USE DEF At1, Ends, Goto, Save, SaveSettings, local, history
<1>1. CASE Truncate(c)
  BY <1>1, Zenon DEF Truncate
<1>2. CASE Write(c)
  BY <1>2, Zenon DEF Write, AfterWrite
<1>3. CASE ConfigSet(c)
  BY <1>3, Zenon DEF ConfigSet
<1>4. CASE ConfigOnboard(c)
  BY <1>4, Zenon DEF ConfigOnboard, Onboard
<1>5. CASE Direct(c)
  BY <1>5, Zenon DEF Direct
<1>6. CASE Restore(c)
  BY <1>6, Zenon DEF Restore
<1>7. CASE Resolve(c)
  BY <1>7, Zenon DEF Resolve
<1>8. CASE Interactive(c)
  BY <1>8, Zenon DEF Interactive, Onboard, Migrate
<1>9. CASE Panics(c)
  BY <1>9, Zenon DEF Panics
<1>10. CASE Menu(c)
  BY <1>10, Zenon DEF Menu
<1>11. CASE MenuRestore(c)
  BY <1>11, Zenon DEF MenuRestore
<1>12. CASE Prompt(c)
  BY <1>12, Zenon DEF Prompt
<1>13. CASE Connects(c)
  BY <1>13, Zenon DEF Connects
<1>14. CASE Reconnects(c)
  BY <1>14, Zenon DEF Reconnects
<1>15. CASE SavesAdd(c)
  BY <1>15, Zenon DEF SavesAdd
<1>16. CASE SavesRm(c)
  BY <1>16, Zenon DEF SavesRm
<1>17. CASE Stopped(c)
  BY <1>17, Zenon DEF Stopped
<1> QED
  BY <1>1, <1>2, <1>3, <1>4, <1>5, <1>6, <1>7, <1>8, <1>9, <1>10, <1>11, <1>12,
     <1>13, <1>14, <1>15, <1>16, <1>17 DEF Step

\* So the memory of the others is the same.
LEMMA Elsewhere ==
  ASSUME TypeOK, HistoryOK, NEW c \in Procs, Step(c), NEW d \in Procs, d # c
  PROVE  Same(d)
<1>1. pc'[d] = pc[d]
  <2>1. pc \in [Procs -> Places]
    BY DEF TypeOK, Places
  <2>2. At1(pc, pc', c)
    BY Alone
  <2> QED
    BY <2>1, <2>2, OtherSame
<1>2. out'[d] = out[d]
  <2>1. out \in [Procs -> Option(Paths)]
    BY DEF TypeOK
  <2>2. At1(out, out', c)
    BY Alone
  <2> QED
    BY <2>1, <2>2, OtherSame
<1>3. buffer'[d] = buffer[d]
  <2>1. buffer \in [Procs -> Option(Settings \cup SessionConfig)]
    BY DEF TypeOK
  <2>2. At1(buffer, buffer', c)
    BY Alone
  <2> QED
    BY <2>1, <2>2, OtherSame
<1>4. opts'[d] = opts[d]
  <2>1. opts \in [Procs -> Option(Opts)]
    BY DEF TypeOK
  <2>2. At1(opts, opts', c)
    BY Alone
  <2> QED
    BY <2>1, <2>2, OtherSame
<1>5. session'[d] = session[d]
  <2>1. session \in [Procs -> Option(SessionConfig)]
    BY DEF TypeOK
  <2>2. At1(session, session', c)
    BY Alone
  <2> QED
    BY <2>1, <2>2, OtherSame
<1>6. shown'[d] = shown[d]
  <2>1. shown \in [Procs -> Option(Settings)]
    BY DEF TypeOK
  <2>2. At1(shown, shown', c)
    BY Alone
  <2> QED
    BY <2>1, <2>2, OtherSame
<1>7. tunnel'[d] = tunnel[d]
  <2>1. tunnel \in [Procs -> Option(Config)]
    BY DEF TypeOK
  <2>2. At1(tunnel, tunnel', c)
    BY Alone
  <2> QED
    BY <2>1, <2>2, OtherSame
<1>8. from'[d] = from[d]
  <2>1. from \in [Procs -> Option(Config)]
    BY DEF HistoryOK
  <2>2. At1(from, from', c)
    BY Alone
  <2> QED
    BY <2>1, <2>2, OtherSame
<1> QED
  BY <1>1, <1>2, <1>3, <1>4, <1>5, <1>6, <1>7, <1>8 DEF Same

-----------------------------------------------------------------------------
(* Type correctness.                                                        *)

\* The variables of a process that ends.
LEMMA EndTyped ==
  ASSUME TypeOK, HistoryOK, NEW c \in Procs, Ends(c)
  PROVE  /\ pc' \in [Procs -> Places]
         /\ out' \in [Procs -> Option(Paths)]
         /\ buffer' \in [Procs -> Option(Settings \cup SessionConfig)]
         /\ opts' \in [Procs -> Option(Opts)]
         /\ session' \in [Procs -> Option(SessionConfig)]
         /\ shown' \in [Procs -> Option(Settings)]
         /\ tunnel' \in [Procs -> Option(Config)]
         /\ from' \in [Procs -> Option(Config)]
  BY DEF TypeOK, HistoryOK, Ends, Goto, Option, Places

\* The variables of a process that begins to write a file.
LEMMA SaveTyped ==
  ASSUME TypeOK, NEW c \in Procs, NEW p \in Paths,
         NEW v \in Settings \cup SessionConfig, Save(c, p, v)
  PROVE  /\ pc' \in [Procs -> Places]
         /\ out' \in [Procs -> Option(Paths)]
         /\ buffer' \in [Procs -> Option(Settings \cup SessionConfig)]
         /\ pc'[c] = "truncate" /\ out'[c] = p /\ buffer'[c] = v
  BY DEF TypeOK, Save, Goto, Option, Places

\* The same for one that begins to write the settings.
LEMMA SettingsTyped ==
  ASSUME TypeOK, HistoryOK, NEW c \in Procs, NEW v \in Settings,
         NEW fields \in SUBSET Fields, SaveSettings(c, v, fields),
         UNCHANGED <<file, legacy>>, commands' \in 0 .. MaxCommands,
         opts' \in [Procs -> Option(Opts)]
  PROVE  TypeOK' /\ HistoryOK'
<1>1. /\ pc' \in [Procs -> Places]
      /\ out' \in [Procs -> Option(Paths)]
      /\ buffer' \in [Procs -> Option(Settings \cup SessionConfig)]
  BY SaveTyped, PathFacts DEF SaveSettings
<1>2. UNCHANGED <<session, shown, tunnel, saved, from, whole>>
  BY DEF SaveSettings
<1>3. may' \in [Procs -> SUBSET Fields]
  BY DEF SaveSettings, HistoryOK
<1>4. TypeOK'
  BY <1>1, <1>2 DEF TypeOK, Places
<1> QED
  BY <1>2, <1>3, <1>4 DEF HistoryOK, Option

\* A command is begun only below the bound.
LEMMA Begun ==
  ASSUME TypeOK, NEW c \in Procs, Begin(c)
  PROVE  commands' \in 0 .. MaxCommands /\ pc[c] = "idle"
  BY SessionAssumption DEF TypeOK, Begin, At

\* Setting one field type-checks.
LEMMA EditsTyped ==
  ASSUME TypeOK, HistoryOK, NEW e \in Edits
  PROVE  Over(e, LoadConfig) \in Settings /\ DOMAIN e \in SUBSET Fields
  BY Loaded, Values

\* What a write may meet: the file is one of the three kinds, with a value of
\* its kind in the buffer.
LEMMA WriteFacts ==
  ASSUME TypeOK, NEW c \in Procs, Memory(c), Writes(c)
  PROVE  /\ out[c] \in Paths
         /\ out[c] = "config" => buffer[c] \in Settings
         /\ out[c] # "config" => buffer[c] \in SessionConfig
  BY PathFacts, Values DEF Memory

\* A file that is written with a value of its kind.
LEMMA FilesTyped ==
  ASSUME TypeOK, NEW q \in Paths, NEW v,
         v = Torn \/ (IF q = "config" THEN v \in Settings ELSE v \in SessionConfig),
         file' = [file EXCEPT ![q] = v]
  PROVE  /\ file' \in [Paths -> Settings \cup SessionConfig \cup {Absent, Torn}]
         /\ file'["config"] \in Settings \cup {Absent, Torn}
         /\ \A p \in Paths \ {"config"} : file'[p] \in SessionConfig \cup {Absent, Torn}
<1>1. /\ file \in [Paths -> Settings \cup SessionConfig \cup {Absent, Torn}]
      /\ file["config"] \in Settings \cup {Absent, Torn}
      /\ \A p \in Paths \ {"config"} : file[p] \in SessionConfig \cup {Absent, Torn}
  BY DEF TypeOK
<1>2. v \in Settings \cup SessionConfig \cup {Absent, Torn}
  OBVIOUS
<1>3. \A p \in Paths : file'[p] = IF p = q THEN v ELSE file[p]
  BY <1>1
<1> QED
  BY <1>1, <1>2, <1>3, PathFacts

\* Every step keeps every variable in its range.
LEMMA TypeStep ==
  ASSUME TypeOK, HistoryOK, NEW c \in Procs, Memory(c), Step(c)
  PROVE  TypeOK' /\ HistoryOK'
<1>1. CASE Truncate(c)
  <2>1. Writes(c) /\ file' = [file EXCEPT ![out[c]] = Torn] /\ Goto(c, "write")
    BY <1>1 DEF Truncate, At, Writes
  <2>2. pc' \in [Procs -> Places]
    BY <2>1 DEF TypeOK, Goto, Places
  <2>3. /\ file' \in [Paths -> Settings \cup SessionConfig \cup {Absent, Torn}]
        /\ file'["config"] \in Settings \cup {Absent, Torn}
        /\ \A p \in Paths \ {"config"} : file'[p] \in SessionConfig \cup {Absent, Torn}
    BY <2>1, WriteFacts, FilesTyped
  <2>4. UNCHANGED <<legacy, local, commands, saved, from, whole>>
    BY <1>1 DEF Truncate
  <2>5. may' \in [Procs -> SUBSET Fields]
    BY <1>1 DEF Truncate, Overtaken, HistoryOK
  <2> QED
    BY <2>2, <2>3, <2>4, <2>5 DEF TypeOK, HistoryOK, Places, local
<1>2. CASE Write(c)
  <2>1. Writes(c) /\ AfterWrite(c) /\ UNCHANGED <<legacy, commands>>
    BY <1>2 DEF Write, At, Writes
  <2>2. /\ file' \in [Paths -> Settings \cup SessionConfig \cup {Absent, Torn}]
        /\ file'["config"] \in Settings \cup {Absent, Torn}
        /\ \A p \in Paths \ {"config"} : file'[p] \in SessionConfig \cup {Absent, Torn}
    <3>1. \/ file' = [file EXCEPT ![out[c]] = buffer[c]]
          \/ file' = [file EXCEPT ![out[c]] = Torn]
      BY <1>2 DEF Write
    <3>2. CASE file' = [file EXCEPT ![out[c]] = buffer[c]]
      BY <2>1, <3>2, WriteFacts, FilesTyped
    <3>3. CASE file' = [file EXCEPT ![out[c]] = Torn]
      BY <2>1, <3>3, WriteFacts, FilesTyped
    <3> QED
      BY <3>1, <3>2, <3>3
  <2>3. saved' \in [Paths -> Option(Config)]
    <3>1. \E x \in {tunnel[c], from[c]} : saved' = [saved EXCEPT ![out[c]] = x]
      BY <1>2 DEF Write
    <3>2. tunnel[c] \in Option(Config) /\ from[c] \in Option(Config)
      BY DEF TypeOK, HistoryOK
    <3> QED
      BY <3>1, <3>2 DEF HistoryOK
  <2>4. /\ pc' \in [Procs -> Places] /\ out' \in [Procs -> Option(Paths)]
        /\ buffer' \in [Procs -> Option(Settings \cup SessionConfig)]
        /\ opts' \in [Procs -> Option(Opts)]
        /\ session' \in [Procs -> Option(SessionConfig)]
        /\ shown' \in [Procs -> Option(Settings)]
        /\ tunnel' \in [Procs -> Option(Config)]
        /\ from' \in [Procs -> Option(Config)]
    <3>1. CASE tunnel[c] # None \/ opts[c] # None
      <4>1. /\ Goto(c, IF tunnel[c] # None THEN "up" ELSE "menu")
            /\ out' = [out EXCEPT ![c] = None]
            /\ buffer' = [buffer EXCEPT ![c] = None]
            /\ UNCHANGED <<opts, session, shown, tunnel, from>>
        BY <2>1, <3>1 DEF AfterWrite
      <4> QED
        BY <4>1 DEF TypeOK, HistoryOK, Goto, Option, Places
    <3>2. CASE ~(tunnel[c] # None \/ opts[c] # None)
      BY <2>1, <3>2, EndTyped DEF AfterWrite
    <3> QED
      BY <3>1, <3>2
  <2>5. may' \in [Procs -> SUBSET Fields]
    BY <1>2 DEF Write, Overtaken, HistoryOK
  <2>6. whole' \in Option(Settings)
    BY <1>2, <2>1, WriteFacts DEF Write, HistoryOK, Option
  <2> QED
    BY <2>1, <2>2, <2>3, <2>4, <2>5, <2>6 DEF TypeOK, HistoryOK, Places
<1>3. CASE ConfigSet(c)
  <2>1. PICK e \in Edits : SaveSettings(c, Over(e, LoadConfig), DOMAIN e)
    BY <1>3 DEF ConfigSet
  <2>2. UNCHANGED <<file, legacy, opts>> /\ Begin(c)
    BY <1>3 DEF ConfigSet
  <2>3. opts' \in [Procs -> Option(Opts)]
    BY <2>2 DEF TypeOK
  <2> QED
    BY <2>1, <2>2, <2>3, EditsTyped, Begun, SettingsTyped
<1>4. CASE ConfigOnboard(c)
  <2>1. Onboard(c) /\ Begin(c) /\ UNCHANGED <<file, legacy, opts>>
    BY <1>4 DEF ConfigOnboard
  <2>2. PICK v \in Settings : SaveSettings(c, v, Fields)
    BY <2>1, Typed DEF Onboard
  <2>3. opts' \in [Procs -> Option(Opts)]
    BY <2>1 DEF TypeOK
  <2> QED
    BY <2>1, <2>2, <2>3, Begun, SettingsTyped
<1>5. CASE Direct(c)
  <2>1. PICK o \in Invocations :
          /\ opts' = [opts EXCEPT ![c] = o]
          /\ tunnel' = [tunnel EXCEPT ![c] =
                          from_opts_and_session(o, None, LoadConfig)]
    BY <1>5 DEF Direct
  <2>2. o \in Opts /\ from_opts_and_session(o, None, LoadConfig) \in Config
    BY Values, Loaded, Resolved DEF Option
  <2>3. /\ Begin(c) /\ Goto(c, "dial")
        /\ UNCHANGED <<file, legacy, out, buffer, session, shown, history>>
    BY <1>5 DEF Direct
  <2>4. opts' \in [Procs -> Option(Opts)] /\ tunnel' \in [Procs -> Option(Config)]
    BY <2>1, <2>2 DEF TypeOK, Option
  <2>5. pc' \in [Procs -> Places] /\ commands' \in 0 .. MaxCommands
    BY <2>3, Begun DEF TypeOK, Goto, Places
  <2> QED
    BY <2>3, <2>4, <2>5 DEF TypeOK, HistoryOK, history, Places
<1>6. CASE Restore(c)
  <2>1. PICK n \in Names, o \in Invocations :
          /\ Readable(n)
          /\ opts' = [opts EXCEPT ![c] = o]
          /\ session' = [session EXCEPT ![c] = file[n]]
          /\ from' = [from EXCEPT ![c] = saved[n]]
    BY <1>6 DEF Restore
  <2>2. file[n] \in SessionConfig /\ saved[n] \in Option(Config) /\ o \in Opts
    BY <2>1, PathFacts, Values DEF TypeOK, HistoryOK, Readable
  <2>3. /\ Begin(c) /\ Goto(c, "resolve")
        /\ UNCHANGED <<file, legacy, out, buffer, shown, tunnel, saved, whole, may>>
    BY <1>6 DEF Restore
  <2>4. /\ opts' \in [Procs -> Option(Opts)]
        /\ session' \in [Procs -> Option(SessionConfig)]
    BY <2>1, <2>2 DEF TypeOK, Option
  <2>5. from' \in [Procs -> Option(Config)]
    BY <2>1, <2>2 DEF HistoryOK
  <2>6. pc' \in [Procs -> Places] /\ commands' \in 0 .. MaxCommands
    BY <2>3, Begun DEF TypeOK, Goto, Places
  <2> QED
    BY <2>3, <2>4, <2>5, <2>6 DEF TypeOK, HistoryOK, Places
<1>7. CASE Resolve(c)
  <2>1. /\ pc[c] = "resolve" /\ Goto(c, "dial")
        /\ tunnel' = [tunnel EXCEPT ![c] =
                        from_opts_and_session(opts[c], session[c], LoadConfig)]
        /\ UNCHANGED <<file, legacy, out, buffer, opts, session, shown, commands,
                       history>>
    BY <1>7 DEF Resolve, At
  <2>2. opts[c] \in Opts /\ session[c] \in Option(SessionConfig)
    BY <2>1 DEF TypeOK, Memory, Option
  <2>3. tunnel' \in [Procs -> Option(Config)]
    BY <2>1, <2>2, Loaded, Resolved DEF TypeOK, Option
  <2>4. pc' \in [Procs -> Places]
    BY <2>1 DEF TypeOK, Goto, Places
  <2> QED
    BY <2>1, <2>3, <2>4 DEF TypeOK, HistoryOK, history, Places
<1>8. CASE Interactive(c)
  <2>1. PICK o \in Invocations :
          \/ /\ opts' = [opts EXCEPT ![c] = o]
             /\ Goto(c, "menu")
             /\ UNCHANGED <<out, buffer, session, shown, tunnel, history>>
          \/ opts' = [opts EXCEPT ![c] = o] /\ Migrate(c)
          \/ Onboard(c) /\ UNCHANGED opts
    BY <1>8 DEF Interactive
  <2>2. Begin(c) /\ UNCHANGED <<file, legacy>> /\ o \in Opts
    BY <1>8, Values DEF Interactive
  <2>3. opts' \in [Procs -> Option(Opts)]
    <3>1. opts' = opts \/ opts' = [opts EXCEPT ![c] = o]
      BY <2>1
    <3> QED
      BY <2>2, <3>1 DEF TypeOK, Option
  <2>4. CASE Goto(c, "menu") /\ UNCHANGED <<out, buffer, session, shown, tunnel, history>>
    <3>1. pc' \in [Procs -> Places] /\ commands' \in 0 .. MaxCommands
      BY <2>2, <2>4, Begun DEF TypeOK, Goto, Places
    <3> QED
      BY <2>2, <2>3, <2>4, <3>1 DEF TypeOK, HistoryOK, history, Places
  <2>5. CASE Migrate(c)
    <3>1. Over(legacy, Default) \in Settings
      BY Values DEF TypeOK
    <3>2. DOMAIN legacy \in SUBSET Fields
      BY Values DEF TypeOK
    <3> QED
      BY <2>2, <2>3, <2>5, <3>1, <3>2, Begun, SettingsTyped DEF Migrate
  <2>6. CASE Onboard(c)
    <3>1. PICK v \in Settings : SaveSettings(c, v, Fields)
      BY <2>6, Typed DEF Onboard
    <3> QED
      BY <2>2, <2>3, <3>1, Begun, SettingsTyped
  <2> QED
    BY <2>1, <2>4, <2>5, <2>6
<1>9. CASE Panics(c)
  BY <1>9, EndTyped DEF Panics, TypeOK, HistoryOK, Places
<1>10. CASE Menu(c)
  <2>1. /\ Readable("config") /\ Goto(c, "prompt")
        /\ shown' = [shown EXCEPT ![c] = file["config"]]
        /\ UNCHANGED <<file, legacy, out, buffer, opts, session, tunnel, commands,
                       history>>
    BY <1>10 DEF Menu
  <2>2. shown' \in [Procs -> Option(Settings)]
    BY <2>1 DEF TypeOK, Readable, Option
  <2>3. pc' \in [Procs -> Places]
    BY <2>1 DEF TypeOK, Goto, Places
  <2> QED
    BY <2>1, <2>2, <2>3 DEF TypeOK, HistoryOK, history, Places
<1>11. CASE MenuRestore(c)
  <2>1. PICK n \in Names :
          /\ Readable(n)
          /\ session' = [session EXCEPT ![c] = file[n]]
          /\ from' = [from EXCEPT ![c] = saved[n]]
    BY <1>11 DEF MenuRestore
  <2>2. file[n] \in SessionConfig /\ saved[n] \in Option(Config)
    BY <2>1, PathFacts, Values DEF TypeOK, HistoryOK, Readable
  <2>3. /\ Goto(c, "resolve")
        /\ UNCHANGED <<file, legacy, out, buffer, opts, shown, tunnel, commands,
                       saved, whole, may>>
    BY <1>11 DEF MenuRestore
  <2>4. session' \in [Procs -> Option(SessionConfig)]
    BY <2>1, <2>2 DEF TypeOK, Option
  <2>5. from' \in [Procs -> Option(Config)]
    BY <2>1, <2>2 DEF HistoryOK
  <2>6. pc' \in [Procs -> Places]
    BY <2>3 DEF TypeOK, Goto, Places
  <2> QED
    BY <2>3, <2>4, <2>5, <2>6 DEF TypeOK, HistoryOK, Places
<1>12. CASE Prompt(c)
  <2>1. pc[c] = "prompt" /\ shown[c] \in Settings
    BY <1>12 DEF Prompt, At, TypeOK, Memory, Option
  <2>2. PICK t \in Config : tunnel' = [tunnel EXCEPT ![c] = t]
    BY <1>12, <2>1, Values, Loaded, PromptTyped DEF Prompt
  <2>3. /\ Goto(c, "dial")
        /\ UNCHANGED <<file, legacy, out, buffer, opts, session, shown, commands,
                       history>>
    BY <1>12 DEF Prompt
  <2>4. tunnel' \in [Procs -> Option(Config)]
    BY <2>2 DEF TypeOK, Option
  <2>5. pc' \in [Procs -> Places]
    BY <2>3 DEF TypeOK, Goto, Places
  <2> QED
    BY <2>3, <2>4, <2>5 DEF TypeOK, HistoryOK, history, Places
<1>13. CASE Connects(c)
  <2>1. /\ pc[c] = "dial" /\ Save(c, "last", SessionOf(tunnel[c]))
        /\ UNCHANGED <<file, legacy, opts, session, shown, tunnel, commands, history>>
    BY <1>13 DEF Connects, At
  <2>2. tunnel[c] \in Config
    BY <2>1 DEF TypeOK, Memory, Option
  <2>3. /\ pc' \in [Procs -> Places] /\ out' \in [Procs -> Option(Paths)]
        /\ buffer' \in [Procs -> Option(Settings \cup SessionConfig)]
    BY <2>1, <2>2, SessionTyped, PathFacts, SaveTyped
  <2> QED
    BY <2>1, <2>3 DEF TypeOK, HistoryOK, history, Places
<1>14. CASE Reconnects(c)
  <2>1. Goto(c, "dial") /\ UNCHANGED <<file, legacy, local, commands, history>>
    BY <1>14 DEF Reconnects
  <2> QED
    BY <2>1 DEF TypeOK, HistoryOK, local, history, Goto
<1>15. CASE SavesAdd(c)
  <2>1. PICK n \in Names : Save(c, n, file["last"])
    BY <1>15 DEF SavesAdd
  <2>2. /\ Begin(c) /\ Readable("last") /\ from' = [from EXCEPT ![c] = saved["last"]]
        /\ UNCHANGED <<file, legacy, opts, session, shown, tunnel, saved, whole, may>>
    BY <1>15 DEF SavesAdd
  <2>3. file["last"] \in SessionConfig /\ saved["last"] \in Option(Config)
    BY <2>2, PathFacts DEF TypeOK, HistoryOK, Readable
  <2>4. /\ pc' \in [Procs -> Places] /\ out' \in [Procs -> Option(Paths)]
        /\ buffer' \in [Procs -> Option(Settings \cup SessionConfig)]
    BY <2>1, <2>3, PathFacts, SaveTyped
  <2>5. from' \in [Procs -> Option(Config)] /\ commands' \in 0 .. MaxCommands
    BY <2>2, <2>3, Begun DEF HistoryOK
  <2> QED
    BY <2>2, <2>4, <2>5 DEF TypeOK, HistoryOK, Places
<1>16. CASE SavesRm(c)
  <2>1. PICK n \in Names : file' = [file EXCEPT ![n] = Absent]
    BY <1>16 DEF SavesRm
  <2>2. Begin(c) /\ UNCHANGED <<legacy, pc, local, history>>
    BY <1>16 DEF SavesRm
  <2>3. /\ file' \in [Paths -> Settings \cup SessionConfig \cup {Absent, Torn}]
        /\ file'["config"] = file["config"]
        /\ \A p \in Paths \ {"config"} : file'[p] \in {file[p], Absent}
    BY <2>1, PathFacts, Values DEF TypeOK
  <2>4. commands' \in 0 .. MaxCommands
    BY <2>2, Begun
  <2> QED
    BY <2>2, <2>3, <2>4 DEF TypeOK, HistoryOK, local, history
<1>17. CASE Stopped(c)
  BY <1>17, EndTyped DEF Stopped, TypeOK, HistoryOK, Places
<1> QED
  BY <1>1, <1>2, <1>3, <1>4, <1>5, <1>6, <1>7, <1>8, <1>9, <1>10, <1>11, <1>12,
     <1>13, <1>14, <1>15, <1>16, <1>17 DEF Step

-----------------------------------------------------------------------------
(* What the processes have in memory.                                       *)

\* The settings, once there, are never removed.
LEMMA SettingsStay ==
  ASSUME TypeOK, NEW c \in Procs, Memory(c), Step(c)
  PROVE  file'["config"] = Absent => file["config"] = Absent
<1>1. CASE Truncate(c) \/ Write(c)
  <2>1. \/ file' = [file EXCEPT ![out[c]] = buffer[c]]
        \/ file' = [file EXCEPT ![out[c]] = Torn]
    BY <1>1 DEF Truncate, Write
  <2>2. Writes(c)
    BY <1>1 DEF Truncate, Write, At, Writes
  <2>3. CASE out[c] = "config"
    BY <2>1, <2>2, <2>3, WriteFacts, Values, PathFacts DEF TypeOK
  <2>4. CASE out[c] # "config"
    BY <2>1, <2>4, PathFacts DEF TypeOK
  <2> QED
    BY <2>3, <2>4
<1>2. CASE SavesRm(c)
  BY <1>2, Values, PathFacts DEF SavesRm, TypeOK
<1>3. CASE ~(Truncate(c) \/ Write(c) \/ SavesRm(c))
  <2>1. file' = file
    BY <1>3 DEF Step, ConfigSet, ConfigOnboard, Direct, Restore, Resolve,
       Interactive, Panics, Menu, MenuRestore, Prompt, Connects, Reconnects,
       SavesAdd, Stopped
  <2> QED
    BY <2>1
<1> QED
  BY <1>1, <1>2, <1>3

\* What is known of a process outlasts the steps of the others.
LEMMA OthersKeep ==
  ASSUME NEW d \in Procs, Same(d), Memory(d), Copied(d),
         file'["config"] = Absent => file["config"] = Absent
  PROVE  Memory(d)' /\ Copied(d)'
<1>1. Memory(d)'
  BY DEF Memory, Same, Writes
<1>2. Copied(d)'
  BY DEF Copied, Same, Writes
<1> QED
  BY <1>1, <1>2

\* A process that has ended has nothing in memory.
LEMMA EndedKeeps ==
  ASSUME TypeOK, HistoryOK, NEW c \in Procs, Ends(c)
  PROVE  Memory(c)' /\ Copied(c)' /\ ~Writes(c)'
<1>1. /\ pc'[c] = "idle" /\ opts'[c] = None /\ session'[c] = None
      /\ tunnel'[c] = None /\ from'[c] = None
  BY DEF Ends, Goto, TypeOK, HistoryOK
<1> QED
  BY <1>1 DEF Memory, Copied, Writes

\* A process that begins to write the settings has no tunnel and no session.
LEMMA SettingsKeep ==
  ASSUME TypeOK, HistoryOK, NEW c \in Procs, Memory(c), pc[c] = "idle",
         NEW v \in Settings, NEW fields, SaveSettings(c, v, fields)
  PROVE  Memory(c)' /\ Copied(c)'
<1>1. /\ pc'[c] = "truncate" /\ out'[c] = "config" /\ buffer'[c] = v
      /\ tunnel' = tunnel /\ from' = from
  BY PathFacts, SaveTyped DEF SaveSettings
<1>2. tunnel[c] = None /\ from[c] = None
  BY DEF Memory
<1> QED
  BY <1>1, <1>2, Values DEF Memory, Copied, Writes

\* It outlasts its own steps.
LEMMA MemoryStep ==
  ASSUME TypeOK, HistoryOK, NEW c \in Procs, Memory(c), Copied(c), Step(c),
         \A p \in Paths \ {"config"} : Kept(p)
  PROVE  Memory(c)' /\ Copied(c)'
<1>1. CASE Truncate(c)
  <2>1. /\ pc[c] = "truncate" /\ pc'[c] = "write"
        /\ UNCHANGED <<local, from>>
    BY <1>1 DEF Truncate, At, Goto, TypeOK
  <2> QED
    BY <2>1 DEF Memory, Copied, Writes, local
<1>2. CASE Write(c)
  <2>1. Writes(c) /\ AfterWrite(c)
    BY <1>2 DEF Write, At, Writes
  <2>2. CASE tunnel[c] # None
    <3>1. /\ pc'[c] = "up" /\ UNCHANGED <<opts, session, shown, tunnel, from>>
      BY <2>1, <2>2 DEF AfterWrite, Goto, TypeOK
    <3> QED
      BY <2>2, <3>1 DEF Memory, Copied, Writes
  <2>3. CASE tunnel[c] = None /\ opts[c] # None
    <3>1. /\ pc'[c] = "menu" /\ UNCHANGED <<opts, session, shown, tunnel, from>>
      BY <2>1, <2>3 DEF AfterWrite, Goto, TypeOK
    <3>2. out[c] = "config" /\ buffer[c] \in Settings /\ from[c] = None
      BY <2>1, <2>3, Values DEF Memory
    <3>3. file'["config"] # Absent
      BY <1>2, <3>2, Values, PathFacts DEF Write, TypeOK
    <3> QED
      BY <2>3, <3>1, <3>2, <3>3 DEF Memory, Copied, Writes
  <2>4. CASE tunnel[c] = None /\ opts[c] = None
    BY <2>1, <2>4, EndedKeeps DEF AfterWrite
  <2> QED
    BY <2>2, <2>3, <2>4
<1>3. CASE ConfigSet(c)
  <2>1. PICK e \in Edits : SaveSettings(c, Over(e, LoadConfig), DOMAIN e)
    BY <1>3 DEF ConfigSet
  <2>2. pc[c] = "idle"
    BY <1>3 DEF ConfigSet, Begin, At
  <2> QED
    BY <2>1, <2>2, EditsTyped, SettingsKeep
<1>4. CASE ConfigOnboard(c)
  <2>1. Onboard(c) /\ pc[c] = "idle"
    BY <1>4 DEF ConfigOnboard, Begin, At
  <2>2. PICK v \in Settings : SaveSettings(c, v, Fields)
    BY <2>1, Typed DEF Onboard
  <2> QED
    BY <2>1, <2>2, SettingsKeep
<1>5. CASE Direct(c)
  <2>1. PICK o \in Invocations :
          tunnel' = [tunnel EXCEPT ![c] = from_opts_and_session(o, None, LoadConfig)]
    BY <1>5 DEF Direct
  <2>2. from_opts_and_session(o, None, LoadConfig) # None
    BY Values, Loaded, Resolved DEF Option
  <2>3. pc[c] = "idle" /\ pc'[c] = "dial" /\ from' = from
    BY <1>5 DEF Direct, Begin, At, Goto, TypeOK, history
  <2>4. from[c] = None
    BY <2>3 DEF Memory
  <2>5. tunnel'[c] # None
    BY <2>1, <2>2 DEF TypeOK
  <2> QED
    BY <2>3, <2>4, <2>5 DEF Memory, Copied, Writes
<1>6. CASE Restore(c)
  <2>1. PICK n \in Names, o \in Invocations :
          /\ Readable(n)
          /\ opts' = [opts EXCEPT ![c] = o]
          /\ session' = [session EXCEPT ![c] = file[n]]
          /\ from' = [from EXCEPT ![c] = saved[n]]
    BY <1>6 DEF Restore
  <2>2. /\ pc[c] = "idle" /\ pc'[c] = "resolve" /\ tunnel' = tunnel
    BY <1>6 DEF Restore, Begin, At, Goto, TypeOK
  <2>3. opts'[c] = o /\ session'[c] = file[n] /\ from'[c] = saved[n]
    BY <2>1 DEF TypeOK, HistoryOK
  <2>4. file[n] \in SessionConfig /\ o \in Opts /\ n \in Paths \ {"config"}
    BY <2>1, PathFacts, Values DEF TypeOK, Readable
  <2>5. saved[n] # None => file[n] = SessionOf(saved[n])
    BY <2>1, <2>4 DEF Kept
  <2>6. tunnel[c] = None
    BY <2>2 DEF Memory
  <2> QED
    BY <2>2, <2>3, <2>4, <2>5, <2>6, Values DEF Memory, Copied, Writes
<1>7. CASE Resolve(c)
  <2> DEFINE t == from_opts_and_session(opts[c], session[c], LoadConfig)
  <2>1. /\ pc[c] = "resolve" /\ pc'[c] = "dial" /\ tunnel'[c] = t
        /\ UNCHANGED <<opts, from>>
    BY <1>7 DEF Resolve, At, Goto, TypeOK, history
  <2>2. /\ opts[c] \in Opts /\ session[c] \in Option(SessionConfig)
        /\ from[c] \in Option(Config)
    BY <2>1 DEF TypeOK, HistoryOK, Memory, Option
  <2>3. t \in Config
    BY <2>2, Loaded, Resolved
  <2>4. from[c] # None => Keeps(t, opts[c], from[c])
    <3>1. SUFFICES ASSUME from[c] # None
                   PROVE  Keeps(t, opts[c], from[c])
      OBVIOUS
    <3>2. session[c] = SessionOf(from[c])
      BY <2>1, <3>1 DEF Copied
    <3>3. from[c] \in Config
      BY <2>2, <3>1 DEF Option
    <3> QED
      BY <2>2, <3>2, <3>3, Loaded, ResolvedKeeps
  <2> HIDE DEF t
  <2> QED
    BY <2>1, <2>3, <2>4, Values DEF Memory, Copied, Writes
<1>8. CASE Interactive(c)
  <2>1. PICK o \in Invocations :
          \/ /\ file["config"] # Absent
             /\ opts' = [opts EXCEPT ![c] = o]
             /\ Goto(c, "menu")
             /\ UNCHANGED <<out, buffer, session, shown, tunnel, history>>
          \/ Migrate(c)
          \/ Onboard(c)
    BY <1>8 DEF Interactive
  <2>2. pc[c] = "idle" /\ file' = file
    BY <1>8 DEF Interactive, Begin, At
  <2>3. CASE /\ file["config"] # Absent
             /\ opts' = [opts EXCEPT ![c] = o]
             /\ Goto(c, "menu")
             /\ UNCHANGED <<out, buffer, session, shown, tunnel, history>>
    <3>1. /\ pc'[c] = "menu" /\ opts'[c] = o /\ tunnel' = tunnel /\ from' = from
      BY <2>3 DEF Goto, TypeOK, history
    <3>2. tunnel[c] = None /\ from[c] = None /\ o # None
      BY <2>2, Values DEF Memory
    <3> QED
      BY <2>2, <2>3, <3>1, <3>2 DEF Memory, Copied, Writes
  <2>4. CASE Migrate(c)
    <3>1. Over(legacy, Default) \in Settings
      BY Values DEF TypeOK
    <3> QED
      BY <2>2, <2>4, <3>1, SettingsKeep DEF Migrate
  <2>5. CASE Onboard(c)
    <3>1. PICK v \in Settings : SaveSettings(c, v, Fields)
      BY <2>5, Typed DEF Onboard
    <3> QED
      BY <2>2, <3>1, SettingsKeep
  <2> QED
    BY <2>1, <2>3, <2>4, <2>5
<1>9. CASE Panics(c) \/ Stopped(c)
  BY <1>9, EndedKeeps DEF Panics, Stopped
<1>10. CASE Menu(c)
  <2>1. /\ pc[c] = "menu" /\ pc'[c] = "prompt" /\ shown'[c] = file["config"]
        /\ file["config"] \in Settings
        /\ UNCHANGED <<opts, tunnel, from>>
    BY <1>10 DEF Menu, At, Goto, TypeOK, history, Readable
  <2> QED
    BY <2>1, Values DEF Memory, Copied, Writes
<1>11. CASE MenuRestore(c)
  <2>1. PICK n \in Names :
          /\ Readable(n)
          /\ session' = [session EXCEPT ![c] = file[n]]
          /\ from' = [from EXCEPT ![c] = saved[n]]
    BY <1>11 DEF MenuRestore
  <2>2. /\ pc[c] = "menu" /\ pc'[c] = "resolve" /\ UNCHANGED <<opts, tunnel>>
    BY <1>11 DEF MenuRestore, At, Goto, TypeOK
  <2>3. session'[c] = file[n] /\ from'[c] = saved[n]
    BY <2>1 DEF TypeOK, HistoryOK
  <2>4. file[n] \in SessionConfig /\ n \in Paths \ {"config"}
    BY <2>1, PathFacts, Values DEF TypeOK, Readable
  <2>5. saved[n] # None => file[n] = SessionOf(saved[n])
    BY <2>1, <2>4 DEF Kept
  <2> QED
    BY <2>2, <2>3, <2>4, <2>5, Values DEF Memory, Copied, Writes
<1>12. CASE Prompt(c)
  <2>1. pc[c] = "prompt" /\ shown[c] \in Settings
    BY <1>12 DEF Prompt, At, TypeOK, Memory, Option
  <2>2. PICK t \in Config : tunnel' = [tunnel EXCEPT ![c] = t]
    BY <1>12, <2>1, Values, Loaded, PromptTyped DEF Prompt
  <2>3. pc'[c] = "dial" /\ from' = from /\ tunnel'[c] = t
    BY <1>12, <2>2 DEF Prompt, Goto, TypeOK, history
  <2>4. from[c] = None
    BY <2>1 DEF Memory
  <2> QED
    BY <2>3, <2>4, Values DEF Memory, Copied, Writes
<1>13. CASE Connects(c)
  <2>1. /\ pc[c] = "dial" /\ Save(c, "last", SessionOf(tunnel[c]))
        /\ UNCHANGED <<opts, tunnel, from>>
    BY <1>13 DEF Connects, At, history
  <2>2. tunnel[c] \in Config
    BY <2>1 DEF TypeOK, Memory, Option
  <2>3. SessionOf(tunnel[c]) \in SessionConfig
    BY <2>2, SessionTyped
  <2>4. pc'[c] = "truncate" /\ out'[c] = "last" /\ buffer'[c] = SessionOf(tunnel[c])
    BY <2>1, <2>3, PathFacts, SaveTyped
  <2> QED
    BY <2>1, <2>2, <2>3, <2>4, Values DEF Memory, Copied, Writes
<1>14. CASE Reconnects(c)
  <2>1. /\ pc[c] = "up" /\ pc'[c] = "dial" /\ UNCHANGED <<opts, tunnel, from>>
    BY <1>14 DEF Reconnects, At, Goto, TypeOK, local, history
  <2> QED
    BY <2>1 DEF Memory, Copied, Writes
<1>15. CASE SavesAdd(c)
  <2>1. PICK n \in Names : Save(c, n, file["last"])
    BY <1>15 DEF SavesAdd
  <2>2. /\ pc[c] = "idle" /\ Readable("last")
        /\ from'[c] = saved["last"] /\ UNCHANGED <<opts, tunnel>>
    BY <1>15 DEF SavesAdd, Begin, At, HistoryOK
  <2>3. file["last"] \in SessionConfig /\ "last" \in Paths \ {"config"}
    BY <2>2, PathFacts DEF TypeOK, Readable
  <2>4. pc'[c] = "truncate" /\ out'[c] = n /\ buffer'[c] = file["last"]
    BY <2>1, <2>3, PathFacts, SaveTyped
  <2>5. saved["last"] # None => file["last"] = SessionOf(saved["last"])
    BY <2>2, <2>3 DEF Kept
  <2> QED
    BY <2>2, <2>3, <2>4, <2>5, Values DEF Memory, Copied, Writes
<1>16. CASE SavesRm(c)
  <2>1. pc[c] = "idle" /\ UNCHANGED <<pc, local, history>>
    BY <1>16 DEF SavesRm, Begin, At
  <2> QED
    BY <2>1 DEF Memory, Copied, Writes, local, history
<1> QED
  BY <1>1, <1>2, <1>3, <1>4, <1>5, <1>6, <1>7, <1>8, <1>9, <1>10, <1>11, <1>12,
     <1>13, <1>14, <1>15, <1>16 DEF Step

-----------------------------------------------------------------------------
(* The files.                                                               *)

\* A file that can be read holds the session of the tunnel it was saved from.
LEMMA KeptStep ==
  ASSUME TypeOK, HistoryOK, NEW c \in Procs, Memory(c), Copied(c), Step(c),
         NEW p \in Paths \ {"config"}, Kept(p)
  PROVE  Kept(p)'
<1>1. CASE Truncate(c)
  <2>1. saved' = saved /\ file'[p] \in {file[p], Torn}
    BY <1>1 DEF Truncate, TypeOK
  <2> QED
    BY <2>1 DEF Kept, Readable
<1>2. CASE Write(c)
  <2>1. Writes(c) /\ out[c] \in Paths
    BY <1>2, WriteFacts DEF Write, At, Writes
  <2>2. CASE out[c] # p
    <3>1. file'[p] = file[p] /\ saved'[p] = saved[p]
      BY <1>2, <2>1, <2>2 DEF Write, TypeOK, HistoryOK
    <3> QED
      BY <3>1 DEF Kept, Readable
  <2>3. CASE out[c] = p
    <3>1. /\ file'[p] = buffer[c] \/ file'[p] = Torn
          /\ saved'[p] = IF out[c] = "last" THEN tunnel[c] ELSE from[c]
      BY <1>2, <2>1, <2>3 DEF Write, TypeOK, HistoryOK
    <3>2. saved'[p] # None => buffer[c] = SessionOf(saved'[p])
      BY <2>1, <2>3, <3>1, PathFacts DEF Copied
    <3> QED
      BY <3>1, <3>2 DEF Kept, Readable
  <2> QED
    BY <2>2, <2>3
<1>3. CASE SavesRm(c)
  <2>1. saved' = saved /\ file'[p] \in {file[p], Absent}
    BY <1>3 DEF SavesRm, history, TypeOK
  <2> QED
    BY <2>1 DEF Kept, Readable
<1>4. CASE ~(Truncate(c) \/ Write(c) \/ SavesRm(c))
  <2>1. file' = file /\ saved' = saved
    BY <1>4 DEF Step, ConfigSet, ConfigOnboard, Onboard, Migrate, SaveSettings,
       Direct, Restore, Resolve, Interactive, Panics, Menu, MenuRestore, Prompt,
       Connects, Reconnects, SavesAdd, Stopped, local, history
  <2> QED
    BY <2>1 DEF Kept, Readable
<1> QED
  BY <1>1, <1>2, <1>3, <1>4

-----------------------------------------------------------------------------
(* The settings.                                                            *)

\* Unless they are cut off, the settings that are loaded were last written.
LEMMA LoadsLast ==
  ASSUME TypeOK, HistoryOK, LastWritten, file["config"] # Torn
  PROVE  LoadConfig = OrElse(whole, Default)
<1>1. file["config"] = OrElse(whole, Absent)
  BY DEF LastWritten
<1>2. CASE whole = None
  BY <1>1, <1>2 DEF LoadConfig, Readable, OrElse
<1>3. CASE whole # None
  <2>1. whole \in Settings
    BY <1>3 DEF HistoryOK, Option
  <2> QED
    BY <1>1, <1>3, <2>1, Values DEF LoadConfig, Readable, OrElse
<1> QED
  BY <1>2, <1>3

\* What is not typed is as before.
LEMMA Merged ==
  ASSUME NEW e, NEW v \in Settings, NEW f \in Fields \ DOMAIN e
  PROVE  Over(e, v)[f] = v[f]
<1>1. DOMAIN v = Fields
  BY DEF Settings, Fields, Default
<1> QED
  BY <1>1 DEF Over

\* A command leaves the settings themselves alone until it truncates them.
LEMMA FileKept ==
  ASSUME TypeOK, HistoryOK, NEW c \in Procs, Step(c), ~Truncate(c), ~Write(c)
  PROVE  file'["config"] = file["config"] /\ whole' = whole
<1>1. CASE SavesRm(c)
  BY <1>1, Values, PathFacts DEF SavesRm, TypeOK, history
<1>2. CASE ~SavesRm(c)
  BY <1>2 DEF Step, ConfigSet, ConfigOnboard, Onboard, Migrate, SaveSettings,
     Direct, Restore, Resolve, Interactive, Panics, Menu, MenuRestore, Prompt,
     Connects, Reconnects, SavesAdd, Stopped, history
<1> QED
  BY <1>1, <1>2

\* A write of another file has nothing to do with the settings.
LEMMA OtherFile ==
  ASSUME TypeOK, HistoryOK, NEW c \in Procs, Truncate(c) \/ Write(c),
         out[c] # "config"
  PROVE  UNCHANGED <<whole, may>> /\ file'["config"] = file["config"]
  BY PathFacts DEF Truncate, Write, TypeOK, HistoryOK

\* A write of the settings leaves them cut off, or whole.
LEMMA SettingsFile ==
  ASSUME TypeOK, HistoryOK, NEW c \in Procs, Memory(c),
         Truncate(c) \/ Write(c), out[c] = "config"
  PROVE  /\ may' = Overtaken(c)
         /\ \/ file'["config"] = Torn
            \/ /\ file'["config"] = buffer[c] /\ buffer[c] \in Settings
               /\ whole' = buffer[c]
<1>1. CASE Truncate(c)
  BY <1>1, PathFacts DEF Truncate, TypeOK
<1>2. CASE Write(c)
  <2>1. buffer[c] \in Settings
    BY <1>2, WriteFacts DEF Write, At, Writes
  <2>2. file'["config"] = buffer[c] \/ file'["config"] = Torn
    BY <1>2, PathFacts DEF Write, TypeOK
  <2>3. file'["config"] = buffer[c] => whole' = buffer[c]
    BY <1>2, <2>1, Values DEF Write
  <2>4. may' = Overtaken(c)
    BY <1>2 DEF Write
  <2> QED
    BY <2>1, <2>2, <2>3, <2>4
<1> QED
  BY <1>1, <1>2

\* The settings that are there are still the ones last written.
LEMMA LastWrittenStep ==
  ASSUME TypeOK, HistoryOK, NEW c \in Procs, Memory(c), Step(c), LastWritten
  PROVE  LastWritten'
<1>1. CASE ~Truncate(c) /\ ~Write(c)
  BY <1>1, FileKept DEF LastWritten
<1>2. CASE (Truncate(c) \/ Write(c)) /\ out[c] # "config"
  BY <1>2, OtherFile DEF LastWritten
<1>3. CASE (Truncate(c) \/ Write(c)) /\ out[c] = "config"
  BY <1>3, SettingsFile, Values DEF LastWritten, OrElse
<1> QED
  BY <1>1, <1>2, <1>3

\* Whoever is overtaken may change everything.
LEMMA OvertakenInformed ==
  ASSUME NEW c \in Procs, NEW d \in Procs, d # c, may' = Overtaken(c)
  PROVE  Informed(d)'
<1>1. may'[d] = Fields
  BY DEF Overtaken
<1> QED
  BY <1>1 DEF Informed

\* As long as nobody writes them, a writer knows the settings.
LEMMA OtherInformed ==
  ASSUME NEW d \in Procs, Same(d), Informed(d), may'[d] = may[d],
         whole' = whole, file'["config"] = file["config"]
  PROVE  Informed(d)'
  BY DEF Informed, Same, Writes, At

\* A command that read the settings has the last ones in hand.
LEMMA SettingsBegun ==
  ASSUME TypeOK, HistoryOK, LastWritten, NEW c \in Procs,
         NEW v \in Settings, NEW fields, SaveSettings(c, v, fields),
         file' = file,
         file["config"] # Torn =>
            \A f \in Fields \ fields : v[f] = OrElse(whole, Default)[f]
  PROVE  Informed(c)'
<1>1. /\ pc'[c] = "truncate" /\ buffer'[c] = v /\ whole' = whole
      /\ may'[c] = IF file["config"] = Torn THEN Fields ELSE fields
  BY PathFacts, SaveTyped DEF SaveSettings, HistoryOK
<1>2. CASE file["config"] = Torn
  BY <1>1, <1>2 DEF Informed
<1>3. CASE file["config"] # Torn
  <2>1. file'["config"] = OrElse(whole', Absent)
    BY <1>1, <1>3 DEF LastWritten
  <2>2. \A f \in Fields \ may'[c] : buffer'[c][f] = OrElse(whole', Default)[f]
    BY <1>1, <1>3
  <2> QED
    BY <1>1, <2>1, <2>2 DEF Informed, At
<1> QED
  BY <1>2, <1>3

\* A command touches its own leave to change settings, and no other's.
LEMMA MayKept ==
  ASSUME HistoryOK, NEW c \in Procs, Step(c), ~Truncate(c), ~Write(c),
         NEW d \in Procs, d # c
  PROVE  may'[d] = may[d]
<1>1. may' = may \/ \E x : may' = [may EXCEPT ![c] = x]
  BY Zenon DEF Step, ConfigSet, ConfigOnboard, Onboard, Migrate, SaveSettings,
     Direct, Restore, Resolve, Interactive, Panics, Menu, MenuRestore, Prompt,
     Connects, Reconnects, SavesAdd, SavesRm, Stopped, history
<1> QED
  BY <1>1 DEF HistoryOK

\* The process that steps is still informed.
LEMMA OwnInformed ==
  ASSUME TypeOK, HistoryOK, NEW c \in Procs, Memory(c), Step(c), LastWritten,
         Informed(c)
  PROVE  Informed(c)'
<1>1. CASE Truncate(c)
  <2>1. /\ pc[c] = "truncate" /\ pc'[c] = "write" /\ UNCHANGED <<out, buffer, whole>>
    BY <1>1 DEF Truncate, At, Goto, TypeOK, local
  <2>2. CASE out[c] # "config"
    BY <2>1, <2>2 DEF Informed
  <2>3. CASE out[c] = "config"
    <3>1. file'["config"] = Torn /\ may'[c] = may[c]
      BY <1>1, <2>3, PathFacts DEF Truncate, Overtaken, TypeOK
    <3>2. \A f \in Fields \ may[c] : buffer[c][f] = OrElse(whole, Default)[f]
      BY <2>1, <2>3 DEF Informed, Writes
    <3> QED
      BY <2>1, <3>1, <3>2 DEF Informed, At
  <2> QED
    BY <2>2, <2>3
<1>2. CASE Write(c) \/ Panics(c) \/ Stopped(c)
  <2>1. pc'[c] \notin {"truncate", "write"}
    BY <1>2 DEF Write, AfterWrite, Panics, Stopped, Ends, Goto, TypeOK
  <2> QED
    BY <2>1 DEF Informed, Writes
<1>3. CASE ConfigSet(c)
  <2>1. PICK e \in Edits : SaveSettings(c, Over(e, LoadConfig), DOMAIN e)
    BY <1>3 DEF ConfigSet
  <2>2. file' = file
    BY <1>3 DEF ConfigSet
  <2>3. Over(e, LoadConfig) \in Settings
    BY EditsTyped
  <2>4. file["config"] # Torn =>
           \A f \in Fields \ DOMAIN e :
              Over(e, LoadConfig)[f] = OrElse(whole, Default)[f]
    BY Loaded, LoadsLast, Merged
  <2> QED
    BY <2>1, <2>2, <2>3, <2>4, SettingsBegun
<1>4. CASE ConfigOnboard(c)
  <2>1. Onboard(c) /\ file' = file
    BY <1>4 DEF ConfigOnboard
  <2>2. PICK v \in Settings : SaveSettings(c, v, Fields)
    BY <2>1, Typed DEF Onboard
  <2> QED
    BY <2>1, <2>2, SettingsBegun
<1>5. CASE Interactive(c)
  <2>1. file' = file
    BY <1>5 DEF Interactive
  <2>2. CASE Migrate(c) /\ file["config"] = Absent
    <3>1. Over(legacy, Default) \in Settings
      BY Values DEF TypeOK
    <3>2. OrElse(whole, Default) = Default
      BY <2>2, LoadsLast, Values DEF LoadConfig, Readable
    <3>3. \A f \in Fields \ DOMAIN legacy :
             Over(legacy, Default)[f] = OrElse(whole, Default)[f]
      BY <3>2, Merged, Values
    <3> QED
      BY <2>1, <2>2, <3>1, <3>3, SettingsBegun DEF Migrate
  <2>3. CASE Onboard(c)
    <3>1. PICK v \in Settings : SaveSettings(c, v, Fields)
      BY <2>3, Typed DEF Onboard
    <3> QED
      BY <2>1, <3>1, SettingsBegun
  <2>4. CASE Goto(c, "menu")
    BY <2>4 DEF Goto, Informed, Writes, TypeOK
  <2> QED
    BY <1>5, <2>2, <2>3, <2>4 DEF Interactive
<1>6. CASE Direct(c) \/ Restore(c) \/ Resolve(c) \/ Menu(c) \/ MenuRestore(c)
            \/ Prompt(c) \/ Reconnects(c)
  <2>1. pc'[c] \notin {"truncate", "write"}
    BY <1>6 DEF Direct, Restore, Resolve, Menu, MenuRestore, Prompt,
       Reconnects, Goto, TypeOK
  <2> QED
    BY <2>1 DEF Informed, Writes
<1>7. CASE Connects(c) \/ SavesAdd(c)
  <2>1. out'[c] # "config"
    BY <1>7, PathFacts, Values DEF Connects, SavesAdd, Save, TypeOK
  <2> QED
    BY <2>1 DEF Informed
<1>8. CASE SavesRm(c)
  <2>1. pc'[c] = "idle"
    BY <1>8 DEF SavesRm, Begin, At
  <2> QED
    BY <2>1 DEF Informed, Writes
<1> QED
  BY <1>1, <1>2, <1>3, <1>4, <1>5, <1>6, <1>7, <1>8 DEF Step

\* Every step keeps the writers informed.
LEMMA InformedStep ==
  ASSUME TypeOK, HistoryOK, NEW c \in Procs, Memory(c), Step(c), LastWritten,
         \A d \in Procs : Informed(d),
         \A d \in Procs \ {c} : Same(d),
         NEW d \in Procs
  PROVE  Informed(d)'
<1>1. CASE d = c
  BY <1>1, OwnInformed
<1>2. CASE d # c /\ ~Truncate(c) /\ ~Write(c)
  BY <1>2, FileKept, MayKept, OtherInformed
<1>3. CASE d # c /\ (Truncate(c) \/ Write(c)) /\ out[c] # "config"
  BY <1>3, OtherFile, OtherInformed
<1>4. CASE d # c /\ (Truncate(c) \/ Write(c)) /\ out[c] = "config"
  BY <1>4, SettingsFile, OvertakenInformed
<1> QED
  BY <1>1, <1>2, <1>3, <1>4

-----------------------------------------------------------------------------
(* The invariant.                                                           *)

\* At the start there are no files but the legacy ones, and no processes.
THEOREM InitIInv == Init => IInv
<1> SUFFICES ASSUME Init PROVE IInv
  OBVIOUS
<1>1. TypeOK
  <2>1. /\ file \in [Paths -> Settings \cup SessionConfig \cup {Absent, Torn}]
        /\ \A p \in Paths : file[p] = Absent
    BY DEF Init
  <2>2. commands \in 0 .. MaxCommands
    BY SessionAssumption DEF Init
  <2>3. /\ legacy \in LegacyFiles
        /\ pc \in [Procs -> Places]
        /\ out \in [Procs -> Option(Paths)]
        /\ buffer \in [Procs -> Option(Settings \cup SessionConfig)]
        /\ opts \in [Procs -> Option(Opts)]
        /\ session \in [Procs -> Option(SessionConfig)]
        /\ shown \in [Procs -> Option(Settings)]
        /\ tunnel \in [Procs -> Option(Config)]
    BY Zenon DEF Init, Option, Places
  <2> QED
    BY <2>1, <2>2, <2>3, PathFacts DEF TypeOK, Places
<1>6. HistoryOK
  BY DEF Init, HistoryOK, Option
<1>2. \A c \in Procs : Memory(c) /\ Copied(c)
  BY DEF Init, Memory, Copied, Writes
<1>3. \A p \in Paths \ {"config"} : Kept(p)
  BY DEF Init, Kept
<1>4. LastWritten
  BY PathFacts DEF Init, LastWritten, OrElse
<1>5. \A c \in Procs : Informed(c)
  BY DEF Init, Informed, Writes
<1> QED
  BY <1>1, <1>2, <1>3, <1>4, <1>5, <1>6 DEF IInv

\* Every step, of whichever process, preserves it.
THEOREM StepIInv == IInv /\ [Next]_vars => IInv'
<1> SUFFICES ASSUME IInv, [Next]_vars PROVE IInv'
  OBVIOUS
<1>1. /\ TypeOK /\ HistoryOK /\ \A c \in Procs : Memory(c) /\ Copied(c)
      /\ \A p \in Paths \ {"config"} : Kept(p)
      /\ LastWritten /\ \A c \in Procs : Informed(c)
  BY DEF IInv
<1>2. CASE Next
  <2>1. PICK c \in Procs : Step(c)
    BY <1>2, NextSteps
  <2>2. TypeOK' /\ HistoryOK'
    BY <1>1, <2>1, TypeStep
  <2>3. \A d \in Procs \ {c} : Same(d)
    BY <1>1, <2>1, Elsewhere
  <2>4. file'["config"] = Absent => file["config"] = Absent
    BY <1>1, <2>1, SettingsStay
  <2>5. \A d \in Procs : Memory(d)' /\ Copied(d)'
    <3>1. Memory(c)' /\ Copied(c)'
      BY <1>1, <2>1, MemoryStep
    <3>2. ASSUME NEW d \in Procs \ {c} PROVE Memory(d)' /\ Copied(d)'
      BY <1>1, <2>3, <2>4, OthersKeep
    <3> QED
      BY <3>1, <3>2
  <2>6. \A p \in Paths \ {"config"} : Kept(p)'
    BY <1>1, <2>1, KeptStep
  <2>7. LastWritten'
    BY <1>1, <2>1, LastWrittenStep
  <2>8. \A d \in Procs : Informed(d)'
    BY <1>1, <2>1, <2>3, InformedStep
  <2> QED
    BY <2>2, <2>5, <2>6, <2>7, <2>8 DEF IInv
<1>3. CASE UNCHANGED vars
  <2>1. /\ UNCHANGED <<file, legacy, pc, out, buffer, opts, session, shown, tunnel>>
        /\ UNCHANGED <<commands, saved, from, whole, may>>
    BY <1>3 DEF vars, local, history
  <2>2. TypeOK' /\ HistoryOK'
    BY <1>1, <2>1 DEF TypeOK, HistoryOK
  <2>3. \A c \in Procs : Memory(c)' /\ Copied(c)'
    BY <1>1, <2>1 DEF Memory, Copied, Writes
  <2>4. \A p \in Paths \ {"config"} : Kept(p)'
    BY <1>1, <2>1 DEF Kept, Readable
  <2>5. LastWritten'
    BY <1>1, <2>1 DEF LastWritten
  <2>6. \A c \in Procs : Informed(c)'
    BY <1>1, <2>1 DEF Informed, Writes, At
  <2> QED
    BY <2>2, <2>3, <2>4, <2>5, <2>6 DEF IInv
<1> QED
  BY <1>2, <1>3

\* The inductive invariant holds in every reachable state.
THEOREM InductiveInvariant == Spec => []IInv
<1> QED
  BY InitIInv, StepIInv, PTL DEF Spec

\* Every variable keeps its type, whatever is typed and stopped when.
THEOREM TypeCorrect == Spec => []TypeOK
<1>1. IInv => TypeOK
  BY DEF IInv
<1> QED
  BY <1>1, InductiveInvariant, PTL

\* A restored tunnel is the one its session was saved from.
THEOREM RestoredFaithfully == Spec => []RestoreKeepsTunnel
<1>1. IInv => RestoreKeepsTunnel
  BY DEF IInv, Copied, RestoreKeepsTunnel
<1> QED
  BY <1>1, InductiveInvariant, PTL

\* What no command was asked to change stays as it was last written, unless
\* writers overtake one another or meet settings that are cut off.
THEOREM SettingsChangeAsAsked == Spec => OnlyAskedChanges
<1>1. IInv /\ [Next]_vars =>
        [\A c \in Procs : Write(c) /\ out[c] = "config" =>
            \A f \in Fields \ may[c] :
               /\ file'["config"] # Torn
               /\ file'["config"][f] = OrElse(whole, Default)[f]]_vars
  <2>1. SUFFICES ASSUME IInv, NEW c \in Procs, Write(c), out[c] = "config",
                        NEW f \in Fields \ may[c]
                 PROVE  /\ file'["config"] # Torn
                        /\ file'["config"][f] = OrElse(whole, Default)[f]
    OBVIOUS
  <2>2. TypeOK /\ Memory(c) /\ Informed(c)
    BY <2>1 DEF IInv
  <2>3. Writes(c) /\ ~At(c, "truncate")
    BY <2>1 DEF Write, At, Writes
  <2>4. /\ buffer[c][f] = OrElse(whole, Default)[f]
        /\ file["config"] = Torn
    BY <2>1, <2>2, <2>3 DEF Informed
  <2>5. file'["config"] = buffer[c]
    BY <2>1, <2>2, <2>4, PathFacts DEF Write, Readable, TypeOK
  <2>6. buffer[c] # Torn
    BY <2>1, <2>2, <2>3, WriteFacts, Values
  <2> QED
    BY <2>4, <2>5, <2>6
<1> QED
  BY <1>1, InductiveInvariant, PTL DEF Spec, OnlyAskedChanges

\* The panic of the menu is met by settings cut off in a write, never by none.
THEOREM PanicMeansTorn == Spec => PanicsOnlyTorn
<1>1. IInv /\ [Next]_vars => [\A c \in Procs : Panics(c) => file["config"] = Torn]_vars
  <2>1. SUFFICES ASSUME IInv, NEW c \in Procs, Panics(c)
                 PROVE  file["config"] = Torn
    OBVIOUS
  <2>2. pc[c] = "menu" /\ ~Readable("config")
    BY <2>1 DEF Panics, At
  <2>3. file["config"] # Absent
    BY <2>1, <2>2 DEF IInv, Memory
  <2> QED
    BY <2>2, <2>3 DEF Readable
<1> QED
  BY <1>1, InductiveInvariant, PTL DEF Spec, PanicsOnlyTorn

-----------------------------------------------------------------------------
(* What becomes of the control server in a saved session.                   *)

\* What process c restores, runs with or saves has no control server.
Unaddressed(c) ==
    /\ session[c] # None =>
          session[c].ctrl_port = 0 /\ pc[c] \in {"resolve", "dial"}
    /\ session[c] # None /\ tunnel[c] # None => tunnel[c].ctrl_port = 0
    /\ Writes(c) /\ out[c] # "config" => buffer[c].ctrl_port = 0

\* No saved session tells the port of a control server, nor does any that is
\* read or written.
NoServerSaved ==
    /\ \A p \in Paths \ {"config"} : Readable(p) => file[p].ctrl_port = 0
    /\ \A c \in Procs : Unaddressed(c)

\* The files of sessions, and the memory of who steps, stay without a server.
LEMMA FilesUnaddressed ==
  ASSUME IInv, NoServerSaved, NEW c \in Procs, Step(c),
         NEW p \in Paths \ {"config"}
  PROVE  Readable(p)' => file'[p].ctrl_port = 0
<1>1. TypeOK /\ Memory(c) /\ Unaddressed(c) /\ (Readable(p) => file[p].ctrl_port = 0)
  BY DEF IInv, NoServerSaved
<1>2. CASE Truncate(c)
  <2>1. file'[p] \in {file[p], Torn}
    BY <1>1, <1>2 DEF Truncate, TypeOK
  <2> QED
    BY <1>1, <2>1 DEF Readable
<1>3. CASE Write(c)
  <2>1. Writes(c) /\ file'[p] \in {file[p], Torn} \cup (IF out[c] = p THEN {buffer[c]} ELSE {})
    BY <1>1, <1>3 DEF Write, TypeOK, At, Writes
  <2> QED
    BY <1>1, <2>1 DEF Readable, Unaddressed
<1>4. CASE SavesRm(c)
  <2>1. file'[p] \in {file[p], Absent}
    BY <1>1, <1>4 DEF SavesRm, TypeOK
  <2> QED
    BY <1>1, <2>1 DEF Readable
<1>5. CASE file' = file
  BY <1>1, <1>5 DEF Readable
<1> QED
  BY <1>2, <1>3, <1>4, <1>5
  DEF Step, ConfigSet, ConfigOnboard, Direct, Restore, Resolve, Interactive,
      Panics, Menu, MenuRestore, Prompt, Connects, Reconnects, SavesAdd, Stopped

\* from_opts_and_session takes the control port from the session alone.
LEMMA ResolvedUnaddressed ==
  ASSUME NEW o, NEW s, s # None, NEW v
  PROVE  from_opts_and_session(o, s, v).ctrl_port = s.ctrl_port
  BY DEF from_opts_and_session

\* Restoring reads a saved session, saving a tunnel writes port 0, and a tunnel
\* that was restored gets nowhere.
LEMMA MemoryUnaddressed ==
  ASSUME IInv, NoServerSaved, NEW c \in Procs, Step(c)
  PROVE  Unaddressed(c)'
<1>1. /\ TypeOK /\ HistoryOK /\ Memory(c) /\ Unaddressed(c)
      /\ \A p \in Paths \ {"config"} : Readable(p) => file[p].ctrl_port = 0
  BY DEF IInv, NoServerSaved
<1>2. CASE Truncate(c)
  BY <1>1, <1>2 DEF Truncate, Goto, At, local, TypeOK, Unaddressed, Writes
<1>e. ASSUME Ends(c) PROVE Unaddressed(c)'
  BY <1>1, <1>e DEF Ends, Goto, TypeOK, Unaddressed, Writes
<1>3. CASE Write(c)
  <2>1. session[c] = None
    BY <1>1, <1>3 DEF Write, At, Unaddressed
  <2>2. CASE ~Ends(c)
    <3>1. session' = session /\ pc'[c] \in {"up", "menu"}
      BY <1>1, <1>3, <2>2 DEF Write, AfterWrite, Goto, TypeOK
    <3> QED
      BY <2>1, <3>1 DEF Unaddressed, Writes
  <2> QED
    BY <1>e, <2>2
<1>s. ASSUME NEW v, NEW fields, SaveSettings(c, v, fields), pc[c] = "idle"
      PROVE  Unaddressed(c)'
  <2>1. session' = session /\ session[c] = None /\ out'[c] = "config"
    BY <1>1, <1>s DEF SaveSettings, Save, TypeOK, Memory
  <2> QED
    BY <2>1 DEF Unaddressed
<1>4. CASE ConfigSet(c)
  BY <1>4, <1>s DEF ConfigSet, Begin, At
<1>5. CASE ConfigOnboard(c)
  BY <1>5, <1>s DEF ConfigOnboard, Onboard, Begin, At
<1>6. CASE Direct(c)
  <2>1. session' = session /\ session[c] = None /\ pc'[c] = "dial"
    BY <1>1, <1>6 DEF Direct, Begin, At, Goto, TypeOK, Memory
  <2> QED
    BY <2>1 DEF Unaddressed, Writes
<1>7. CASE Restore(c) \/ MenuRestore(c)
  <2>1. PICK n \in Names : Readable(n) /\ session' = [session EXCEPT ![c] = file[n]]
    BY <1>7 DEF Restore, MenuRestore
  <2>2. tunnel' = tunnel /\ tunnel[c] = None /\ pc'[c] = "resolve"
    BY <1>1, <1>7 DEF Restore, MenuRestore, Begin, At, Goto, TypeOK, Memory
  <2>3. n \in Paths \ {"config"}
    BY PathFacts, Values
  <2>4. session'[c].ctrl_port = 0
    BY <1>1, <2>1, <2>3 DEF TypeOK
  <2> QED
    BY <2>2, <2>4 DEF Unaddressed, Writes
<1>8. CASE Resolve(c)
  <2>1. /\ session' = session /\ session[c] # None /\ pc'[c] = "dial"
        /\ tunnel'[c] = from_opts_and_session(opts[c], session[c], LoadConfig)
    BY <1>1, <1>8 DEF Resolve, At, Goto, TypeOK, Memory
  <2>2. session[c].ctrl_port = 0
    BY <1>1, <2>1 DEF Unaddressed
  <2> QED
    BY <2>1, <2>2, ResolvedUnaddressed DEF Unaddressed, Writes
<1>9. CASE Interactive(c)
  <2>1. pc[c] = "idle" /\ session[c] = None
    BY <1>1, <1>9 DEF Interactive, Begin, At, Memory
  <2>2. CASE session' = session /\ pc'[c] = "menu"
    BY <2>1, <2>2 DEF Unaddressed, Writes
  <2>3. \/ \E v, fields : SaveSettings(c, v, fields)
        \/ session' = session /\ Goto(c, "menu")
    BY <1>9, Zenon DEF Interactive, Onboard, Migrate
  <2> QED
    BY <1>1, <1>s, <2>1, <2>2, <2>3 DEF Goto, TypeOK
<1>10. CASE Panics(c) \/ Stopped(c)
  BY <1>10, <1>e DEF Panics, Stopped
<1>11. CASE Menu(c) \/ Prompt(c)
  <2>1. session' = session /\ session[c] = None /\ pc'[c] \in {"prompt", "dial"}
    BY <1>1, <1>11 DEF Menu, Prompt, At, Goto, TypeOK, Unaddressed
  <2> QED
    BY <2>1 DEF Unaddressed, Writes
<1>12. CASE Connects(c)
  <2>1. /\ session' = session /\ tunnel' = tunnel /\ pc[c] = "dial"
        /\ tunnel[c].ctrl_port # 0 /\ tunnel[c] # None
        /\ buffer'[c] = SessionOf(tunnel[c])
    BY <1>1, <1>12 DEF Connects, Save, At, TypeOK, Memory
  <2>2. session[c] = None
    BY <1>1, <2>1 DEF Unaddressed
  <2> QED
    BY <2>1, <2>2 DEF Unaddressed, SessionOf
<1>13. CASE Reconnects(c)
  <2>1. UNCHANGED <<session, tunnel>> /\ pc'[c] = "dial" /\ session[c] = None
    BY <1>1, <1>13 DEF Reconnects, At, Goto, local, TypeOK, Unaddressed
  <2> QED
    BY <2>1 DEF Unaddressed, Writes
<1>14. CASE SavesAdd(c)
  <2>1. session' = session /\ session[c] = None /\ Readable("last")
        /\ buffer'[c] = file["last"]
    BY <1>1, <1>14 DEF SavesAdd, Save, Begin, At, TypeOK, Memory
  <2>2. buffer'[c].ctrl_port = 0
    BY <1>1, <2>1, PathFacts
  <2> QED
    BY <2>1, <2>2 DEF Unaddressed
<1>15. CASE SavesRm(c)
  BY <1>1, <1>15 DEF SavesRm, local, Unaddressed, Writes
<1> QED
  BY <1>2, <1>3, <1>4, <1>5, <1>6, <1>7, <1>8, <1>9, <1>10, <1>11, <1>12, <1>13,
     <1>14, <1>15 DEF Step

\* Every step leaves the sessions without a control server.
LEMMA StepUnaddressed == IInv /\ NoServerSaved /\ [Next]_vars => NoServerSaved'
<1> SUFFICES ASSUME IInv, NoServerSaved, [Next]_vars PROVE NoServerSaved'
  OBVIOUS
<1>1. ASSUME NEW c \in Procs, Step(c) PROVE NoServerSaved'
  <2>1. ASSUME NEW d \in Procs, d # c PROVE Unaddressed(d)'
    <3>1. Same(d)
      BY <1>1, <2>1, Elsewhere DEF IInv
    <3> QED
      BY <3>1 DEF Same, NoServerSaved, Unaddressed, Writes
  <2>2. Unaddressed(c)'
    BY <1>1, MemoryUnaddressed
  <2>3. \A p \in Paths \ {"config"} : Readable(p)' => file'[p].ctrl_port = 0
    BY <1>1, FilesUnaddressed
  <2> QED
    BY <2>1, <2>2, <2>3 DEF NoServerSaved
<1>2. CASE UNCHANGED vars
  BY <1>2 DEF vars, local, NoServerSaved, Unaddressed, Readable, Writes
<1> QED
  BY <1>1, <1>2, NextSteps

\* A tunnel that is restored, from whatever file, by whatever command and with
\* whatever options, dials port 0 and never comes up: run_wormhole writes 0 into
\* every session, and from_opts_and_session has no other source for a port.
THEOREM RestoredNeverUp ==
    Spec => [](\A c \in Procs : session[c] # None =>
                 /\ pc[c] \in {"resolve", "dial"}
                 /\ tunnel[c] # None => tunnel[c].ctrl_port = 0)
<1>1. Init => NoServerSaved
  BY DEF Init, NoServerSaved, Unaddressed, Readable, Writes
<1>2. NoServerSaved => \A c \in Procs : session[c] # None =>
                          /\ pc[c] \in {"resolve", "dial"}
                          /\ tunnel[c] # None => tunnel[c].ctrl_port = 0
  BY DEF NoServerSaved, Unaddressed
<1> QED
  BY <1>1, <1>2, StepUnaddressed, InductiveInvariant, PTL DEF Spec
=============================================================================
