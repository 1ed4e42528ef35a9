------------------------------ MODULE Sessions ------------------------------
(***************************************************************************)
(* The client's settings and saved sessions: saved_config.rs, and what     *)
(* config.rs, interactive.rs and main.rs do with them.                     *)
(*                                                                         *)
(* Every neutun command is a process; the files under ~/.neutun are shared *)
(* and nothing locks them.  A step reads one file, or is one half of       *)
(* fs::write, which truncates and then writes.  A tunnel is followed from  *)
(* the command that starts it to the dial of its control server.           *)
(***************************************************************************)
EXTENDS Naturals

CONSTANTS
    Procs,          \* neutun processes at one time
    Names,          \* names of saved sessions
    Hosts,          \* domains
    CtrlHosts,      \* control servers named in the settings
    Ports,          \* local ports
    CtrlPorts,      \* ports of control servers
    Keys,           \* API keys
    Subs,           \* sub-domains
    None,           \* Option::None
    Absent,         \* there is no such file
    Torn,           \* the file is there and does not parse
    DefaultHost, DefaultPort, DefaultCtrlPort,
    Invocations,    \* the tunnel options users type
    Edits,          \* the settings users type, as functions of field names
    LegacyFiles,    \* what key.token, domain.txt and port.txt may hold
    MaxCommands     \* bound: commands begun

Option(S) == S \cup {None}

Settings == [host: Hosts, ctrl_host: Option(CtrlHosts), ctrl_port: CtrlPorts,
             tls: BOOLEAN, port: Ports, key: Option(Keys)]

\* local_host and dashboard_port are resolved and saved as sub_domain is, and
\* use_tls as wildcard is: one of each kind is kept.
Opts == [port: Option(Ports), sub_domain: Option(Subs), domain: Option(Hosts),
         key: Option(Keys), wildcard: BOOLEAN]

SessionConfig ==
    [port: Ports, sub_domain: Option(Subs), domain: Hosts,
     key: Option(Keys), wildcard: BOOLEAN,
     ctrl_host: Option(CtrlHosts), ctrl_port: CtrlPorts \cup {0}, tls: BOOLEAN]

\* effective_ctrl_host: the named control server, or wormhole.<host>.
wormhole(host) == <<"wormhole", host>>

Config ==
    [ctrl_host: CtrlHosts \cup {wormhole(h) : h \in Hosts},
     ctrl_port: CtrlPorts \cup {0}, tls: BOOLEAN,
     host: Hosts, port: Ports, sub_domain: Option(Subs),
     domain: Option(Hosts), key: Option(Keys), wildcard: BOOLEAN]

Default == [host |-> DefaultHost, ctrl_host |-> None,
            ctrl_port |-> DefaultCtrlPort, tls |-> TRUE,
            port |-> DefaultPort, key |-> None]

\* The settings v with what e sets in them.
Over(e, v) == [f \in DOMAIN v |-> IF f \in DOMAIN e THEN e[f] ELSE v[f]]

ASSUME SessionAssumption ==
    /\ Default \in Settings /\ 0 \notin CtrlPorts
    /\ MaxCommands \in Nat
    /\ Invocations \subseteq Opts
    /\ \A e \in Edits \cup LegacyFiles :
          /\ DOMAIN e \subseteq DOMAIN Default
          /\ \A v \in Settings : Over(e, v) \in Settings
    /\ Absent # Torn
    /\ {Absent, Torn, None} \cap
          (Settings \cup SessionConfig \cup Config \cup Opts) = {}
    /\ Names \cap {"config", "last", None} = {} /\ None \notin {"config", "last"}

Paths == {"config", "last"} \cup Names

VARIABLES
    file,       \* file[path]: its contents, Absent or Torn
    legacy,     \* the legacy files, as a function of the fields they set
    pc,         \* pc[c]: where process c stands
    out,        \* out[c]: the file c is writing
    buffer,     \* buffer[c]: what it writes there
    opts,       \* opts[c]: its command line
    session,    \* session[c]: the session it read
    shown,      \* shown[c]: the settings behind the prompts of its menu
    tunnel,     \* tunnel[c]: the Config its tunnel runs with
    commands,   \* commands begun
    saved,      \* history: the tunnel whose session a file holds
    from,       \* history: the tunnel whose session c restores or copies
    whole,      \* history: the settings last written to their end
    may         \* history: the fields c's write of the settings may change, all
                \* when c has not read the last settings or was overtaken

local   == <<out, buffer, opts, session, shown, tunnel>>
history == <<saved, from, whole, may>>
vars    == <<file, legacy, pc, local, commands, history>>

TypeOK ==
    /\ file \in [Paths -> Settings \cup SessionConfig \cup {Absent, Torn}]
    /\ file["config"] \in Settings \cup {Absent, Torn}
    /\ \A p \in Paths \ {"config"} : file[p] \in SessionConfig \cup {Absent, Torn}
    /\ legacy \in LegacyFiles
    /\ pc \in [Procs -> {"idle", "truncate", "write", "menu", "prompt",
                         "resolve", "dial", "up"}]
    /\ out \in [Procs -> Option(Paths)]
    /\ buffer \in [Procs -> Option(Settings \cup SessionConfig)]
    /\ opts \in [Procs -> Option(Opts)]
    /\ session \in [Procs -> Option(SessionConfig)]
    /\ shown \in [Procs -> Option(Settings)]
    /\ tunnel \in [Procs -> Option(Config)]
    /\ commands \in 0..MaxCommands

Init ==
    /\ file \in [Paths -> {Absent}]
    /\ legacy \in LegacyFiles
    /\ pc = [c \in Procs |-> "idle"]
    /\ out = [c \in Procs |-> None]
    /\ buffer = [c \in Procs |-> None]
    /\ opts = [c \in Procs |-> None]
    /\ session = [c \in Procs |-> None]
    /\ shown = [c \in Procs |-> None]
    /\ tunnel = [c \in Procs |-> None]
    /\ commands = 0
    /\ saved = [p \in Paths |-> None]
    /\ from = [c \in Procs |-> None]
    /\ whole = None
    /\ may = [c \in Procs |-> {}]

At(c, l)   == pc[c] = l
Goto(c, l) == pc' = [pc EXCEPT ![c] = l]

Begin(c) ==
    /\ At(c, "idle") /\ commands < MaxCommands
    /\ commands' = commands + 1

\* The process ends and its memory with it.
Ends(c) ==
    /\ Goto(c, "idle")
    /\ out' = [out EXCEPT ![c] = None]
    /\ buffer' = [buffer EXCEPT ![c] = None]
    /\ opts' = [opts EXCEPT ![c] = None]
    /\ session' = [session EXCEPT ![c] = None]
    /\ shown' = [shown EXCEPT ![c] = None]
    /\ tunnel' = [tunnel EXCEPT ![c] = None]
    /\ from' = [from EXCEPT ![c] = None]

(***************************************************************************)
(* Files.                                                                  *)
(***************************************************************************)

Readable(path) == file[path] \notin {Absent, Torn}

OrElse(a, b) == IF a # None THEN a ELSE b

\* load_config().unwrap_or_default()
LoadConfig == IF Readable("config") THEN file["config"] ELSE Default

\* save_config, save_session and save_last_session begin.
Save(c, path, value) ==
    /\ Goto(c, "truncate")
    /\ out' = [out EXCEPT ![c] = path]
    /\ buffer' = [buffer EXCEPT ![c] = value]

Fields == DOMAIN Default

\* Whatever the others hold of the settings is out of date.
Overtaken(c) == [d \in Procs |-> IF d = c THEN may[d] ELSE Fields]

Truncate(c) ==
    /\ At(c, "truncate")
    /\ file' = [file EXCEPT ![out[c]] = Torn]
    /\ may' = IF out[c] = "config" THEN Overtaken(c) ELSE may
    /\ Goto(c, "write")
    /\ UNCHANGED <<legacy, local, commands, saved, from, whole>>

\* After the write: a tunnel is up, a bare neutun (it keeps its command line)
\* that migrated goes on to its menu, and every other command is done.
AfterWrite(c) ==
    IF tunnel[c] # None \/ opts[c] # None
       THEN /\ Goto(c, IF tunnel[c] # None THEN "up" ELSE "menu")
            /\ out' = [out EXCEPT ![c] = None]
            /\ buffer' = [buffer EXCEPT ![c] = None]
            /\ UNCHANGED <<opts, session, shown, tunnel, from>>
       ELSE Ends(c)

\* What another process wrote since the truncation is overwritten from the
\* start; if it was longer its end remains and the file does not parse.
Write(c) ==
    /\ At(c, "write")
    /\ \/ file' = [file EXCEPT ![out[c]] = buffer[c]]
       \/ /\ Readable(out[c]) /\ file[out[c]] # buffer[c]
          /\ file' = [file EXCEPT ![out[c]] = Torn]
    /\ saved' = [saved EXCEPT ![out[c]] =
                   IF out[c] = "last" THEN tunnel[c] ELSE from[c]]
    /\ may' = IF out[c] = "config" THEN Overtaken(c) ELSE may
    /\ whole' = IF out[c] = "config" /\ file'["config"] # Torn
                   THEN buffer[c] ELSE whole
    /\ AfterWrite(c)
    /\ UNCHANGED <<legacy, commands>>

(***************************************************************************)
(* The settings: neutun config, onboarding and migration.                  *)
(***************************************************************************)

SaveSettings(c, value, fields) ==
    /\ Save(c, "config", value)
    /\ may' = [may EXCEPT ![c] =
                 IF file["config"] = Torn THEN Fields ELSE fields]
    /\ UNCHANGED <<session, shown, tunnel, saved, from, whole>>

\* Mutant: the settings of before are not read.
ConfigSetOver(c) ==
    /\ Begin(c)
    /\ \E e \in Edits : SaveSettings(c, Over(e, Default), DOMAIN e)
    /\ UNCHANGED <<file, legacy, opts>>

\* handle_config_action: one field is changed.
ConfigSet(c) ==
    /\ Begin(c)
    /\ \E e \in Edits : SaveSettings(c, Over(e, LoadConfig), DOMAIN e)
    /\ UNCHANGED <<file, legacy, opts>>

\* run_onboarding: every field is asked for, except the local port, which becomes
\* the default again.
Onboard(c) ==
    \E e, f \in Edits :
       LET typed == [Over(e, Over(f, Default)) EXCEPT !.port = DefaultPort]
       IN  SaveSettings(c, typed, Fields)

ConfigOnboard(c) ==
    /\ Begin(c)
    /\ Onboard(c)
    /\ UNCHANGED <<file, legacy, opts>>

\* migrate_legacy_config, past the question whether there is any such file.
Migrate(c) == SaveSettings(c, Over(legacy, Default), DOMAIN legacy)

(***************************************************************************)
(* Starting a tunnel.                                                      *)
(***************************************************************************)

\* Mutant: the session is passed over.
LocalPortOfSettings(o, s, config) == OrElse(o.port, config.port)

LocalPort(o, s, config) ==
    OrElse(o.port, IF s # None THEN s.port ELSE config.port)

from_opts_and_session(o, s, config) ==
    LET of(f) == IF s = None THEN None ELSE s[f]
        ctrl  == IF s = None THEN config ELSE s
    IN  [ctrl_host |-> OrElse(ctrl.ctrl_host, wormhole(config.host)),
         ctrl_port |-> ctrl.ctrl_port,
         tls       |-> ctrl.tls,
         host      |-> config.host,
         port      |-> LocalPort(o, s, config),
         sub_domain |-> OrElse(o.sub_domain, of("sub_domain")),
         domain    |-> OrElse(o.domain, of("domain")),
         key       |-> OrElse(o.key, OrElse(of("key"), config.key)),
         wildcard  |-> o.wildcard \/ (s # None /\ s.wildcard)]

\* neutun -p <port>
Direct(c) ==
    /\ Begin(c)
    /\ \E o \in Invocations :
          /\ o.port # None
          /\ opts' = [opts EXCEPT ![c] = o]
          /\ tunnel' = [tunnel EXCEPT ![c] =
                          from_opts_and_session(o, None, LoadConfig)]
    /\ Goto(c, "dial")
    /\ UNCHANGED <<file, legacy, out, buffer, session, shown, history>>

\* neutun saves restore <name>, up to the reading of the session.
Restore(c) ==
    /\ Begin(c)
    /\ \E n \in Names, o \in Invocations :
          /\ Readable(n)
          /\ opts' = [opts EXCEPT ![c] = o]
          /\ session' = [session EXCEPT ![c] = file[n]]
          /\ from' = [from EXCEPT ![c] = saved[n]]
    /\ Goto(c, "resolve")
    /\ UNCHANGED <<file, legacy, out, buffer, shown, tunnel, saved, whole, may>>

Resolve(c) ==
    /\ At(c, "resolve")
    /\ tunnel' = [tunnel EXCEPT ![c] =
                    from_opts_and_session(opts[c], session[c], LoadConfig)]
    /\ Goto(c, "dial")
    /\ UNCHANGED <<file, legacy, out, buffer, opts, session, shown, commands,
                   history>>

\* Mutant: whoever has no settings gets a menu.
InteractiveUnasked(c) ==
    /\ Begin(c)
    /\ \E o \in Invocations :
          /\ o.port = None
          /\ opts' = [opts EXCEPT ![c] = o]
    /\ Goto(c, "menu")
    /\ UNCHANGED <<file, legacy, out, buffer, session, shown, tunnel, history>>

\* neutun without a port: run_interactive, up to the loading of the settings.
Interactive(c) ==
    /\ Begin(c)
    /\ \E o \in Invocations :
          /\ o.port = None
          /\ \/ /\ file["config"] # Absent
                /\ opts' = [opts EXCEPT ![c] = o]
                /\ Goto(c, "menu")
                /\ UNCHANGED <<out, buffer, session, shown, tunnel, history>>
             \/ /\ file["config"] = Absent /\ legacy # <<>>
                /\ opts' = [opts EXCEPT ![c] = o]
                /\ Migrate(c)
             \/ /\ file["config"] = Absent /\ legacy = <<>>
                /\ Onboard(c)
                /\ UNCHANGED opts
    /\ UNCHANGED <<file, legacy>>

\* load_config().expect(...) of settings that do not parse.
Panics(c) ==
    /\ At(c, "menu") /\ ~Readable("config")
    /\ Ends(c)
    /\ UNCHANGED <<file, legacy, commands, saved, whole, may>>

\* Quick start and customize.
Menu(c) ==
    /\ At(c, "menu") /\ Readable("config")
    /\ shown' = [shown EXCEPT ![c] = file["config"]]
    /\ Goto(c, "prompt")
    /\ UNCHANGED <<file, legacy, out, buffer, opts, session, tunnel, commands,
                   history>>

\* Restore saved session.
MenuRestore(c) ==
    /\ At(c, "menu") /\ Readable("config")
    /\ \E n \in Names :
          /\ Readable(n)
          /\ session' = [session EXCEPT ![c] = file[n]]
          /\ from' = [from EXCEPT ![c] = saved[n]]
    /\ Goto(c, "resolve")
    /\ UNCHANGED <<file, legacy, out, buffer, opts, shown, tunnel, commands,
                   saved, whole, may>>

\* build_config_from_interactive.
Interactively(params, config) ==
    [ctrl_host  |-> OrElse(config.ctrl_host, wormhole(config.host)),
     ctrl_port  |-> config.ctrl_port,
     tls        |-> config.tls,
     host       |-> config.host,
     port       |-> params.port,
     sub_domain |-> params.sub_domain,
     domain     |-> OrElse(params.domain, config.host),
     key        |-> params.key,
     wildcard   |-> params.wildcard]

\* run_quick_start and run_customize.  What is typed at the prompts is a member
\* of Invocations, Enter is None.  The settings are read again behind them.
Prompt(c) ==
    /\ At(c, "prompt")
    /\ \E o \in Invocations :
          LET params == [o EXCEPT
                           !.port   = OrElse(o.port, shown[c].port),
                           !.domain = IF o.domain = shown[c].host THEN None ELSE @,
                           !.key    = OrElse(o.key, shown[c].key)]
          IN  tunnel' = [tunnel EXCEPT ![c] = Interactively(params, LoadConfig)]
    /\ Goto(c, "dial")
    /\ UNCHANGED <<file, legacy, out, buffer, opts, session, shown, commands,
                   history>>

(***************************************************************************)
(* A tunnel, and its session.                                              *)
(***************************************************************************)

\* Mutant: a tunnel without a domain is saved without one.
SessionWithoutDomain(t) ==
    [port |-> t.port, sub_domain |-> t.sub_domain,
     domain |-> t.domain, key |-> t.key,
     wildcard |-> t.wildcard, ctrl_host |-> None, ctrl_port |-> 0,
     tls |-> t.tls]

SessionOf(t) ==
    [port |-> t.port, sub_domain |-> t.sub_domain,
     domain |-> OrElse(t.domain, t.host), key |-> t.key,
     wildcard |-> t.wildcard, ctrl_host |-> None, ctrl_port |-> 0,
     tls |-> t.tls]

\* The control server accepts; no server can be dialled at port 0.
Connects(c) ==
    /\ At(c, "dial") /\ tunnel[c].ctrl_port # 0
    /\ Save(c, "last", SessionOf(tunnel[c]))
    /\ UNCHANGED <<file, legacy, opts, session, shown, tunnel, commands, history>>

Reconnects(c) ==
    /\ At(c, "up")
    /\ Goto(c, "dial")
    /\ UNCHANGED <<file, legacy, local, commands, history>>

\* neutun saves add <name>
SavesAdd(c) ==
    /\ Begin(c)
    /\ Readable("last")
    /\ \E n \in Names : Save(c, n, file["last"])
    /\ from' = [from EXCEPT ![c] = saved["last"]]
    /\ UNCHANGED <<file, legacy, opts, session, shown, tunnel, saved, whole, may>>

\* neutun saves rm <name>
SavesRm(c) ==
    /\ Begin(c)
    /\ \E n \in Names : /\ file[n] # Absent
                        /\ file' = [file EXCEPT ![n] = Absent]
    /\ UNCHANGED <<legacy, pc, local, history>>

\* The process is stopped, ends of a fatal error, or leaves its menu.
Stopped(c) ==
    /\ ~At(c, "idle")
    /\ Ends(c)
    /\ UNCHANGED <<file, legacy, commands, saved, whole, may>>

Next ==
    \E c \in Procs :
       \/ Truncate(c) \/ Write(c)
       \/ ConfigSet(c) \/ ConfigOnboard(c)
       \/ Direct(c) \/ Restore(c) \/ Resolve(c)
       \/ Interactive(c) \/ Panics(c) \/ Menu(c) \/ MenuRestore(c) \/ Prompt(c)
       \/ Connects(c) \/ Reconnects(c)
       \/ SavesAdd(c) \/ SavesRm(c) \/ Stopped(c)

Spec == Init /\ [][Next]_vars

(***************************************************************************)
(* Properties.                                                             *)
(***************************************************************************)

\* Tunnel t, started with the options o, is like the tunnel was.
Keeps(t, o, was) ==
    /\ o.port = None => t.port = was.port
    /\ o.sub_domain = None => t.sub_domain = was.sub_domain
    /\ o.domain = None => t.domain = OrElse(was.domain, was.host)
    /\ o.key = None /\ was.key # None => t.key = was.key
    /\ o.wildcard \/ t.wildcard = was.wildcard

\* A restored tunnel is the one its session was saved from, as far as its user
\* does not override it on the command line: same local service, names and
\* key, whatever was done to the settings and to last_session.json meanwhile
\* and whichever tunnels were connecting.  A tunnel that had no key takes the
\* one of the settings.
RestoreKeepsTunnel ==
    \A c \in Procs : tunnel[c] # None /\ from[c] # None =>
        Keeps(tunnel[c], opts[c], from[c])

\* A write of the settings changes the fields its command was asked to change
\* and no others: each of the others stays as in the settings that were last
\* written to their end, by whichever process, or as in the defaults when none
\* were.  A writer is excused when it found settings that do not parse, or when
\* another has touched them since it read them, and for that write only: the
\* code can keep neither an update that another overtakes nor settings that are
\* cut off in a write.
OnlyAskedChanges ==
    [][\A c \in Procs : Write(c) /\ out[c] = "config" =>
          \A f \in Fields \ may[c] :
             /\ file'["config"] # Torn
             /\ file'["config"][f] = OrElse(whole, Default)[f]]_vars

\* "Config should exist after onboarding/migration" (interactive.rs:154): the
\* process that relies on it can only meet settings in the middle of a write,
\* or left there.
PanicsOnlyTorn ==
    [][\A c \in Procs : Panics(c) => file["config"] = Torn]_vars

(* A statement of the repository that the code does not keep. *)

\* "everything from save file": a restored tunnel dials the control server of
\* the tunnel it was saved from.
RestoreKeepsServer ==
    \A c \in Procs : tunnel[c] # None /\ from[c] # None =>
        /\ tunnel[c].ctrl_host = from[c].ctrl_host
        /\ tunnel[c].ctrl_port = from[c].ctrl_port
        /\ tunnel[c].tls = from[c].tls

(***************************************************************************)
(* The inductive invariant behind the safety properties.                   *)
(***************************************************************************)

HistoryOK ==
    /\ saved \in [Paths -> Option(Config)]
    /\ from \in [Procs -> Option(Config)]
    /\ whole \in Option(Settings)
    /\ may \in [Procs -> SUBSET Fields]

Writes(c) == pc[c] \in {"truncate", "write"}

\* What a process has in memory where it stands.
Memory(c) ==
    /\ pc[c] = "idle" =>
          opts[c] = None /\ session[c] = None /\ tunnel[c] = None /\ from[c] = None
    /\ pc[c] \in {"menu", "prompt", "resolve"} => opts[c] # None /\ tunnel[c] = None
    /\ pc[c] \in {"menu", "prompt"} => from[c] = None
    /\ pc[c] = "menu" => file["config"] # Absent
    /\ pc[c] = "prompt" => shown[c] # None
    /\ pc[c] = "resolve" => session[c] # None
    /\ pc[c] \in {"dial", "up"} => tunnel[c] # None
    /\ Writes(c) =>
          \/ /\ out[c] = "config" /\ buffer[c] \in Settings
             /\ tunnel[c] = None /\ from[c] = None
          \/ out[c] = "last" /\ buffer[c] \in SessionConfig /\ tunnel[c] # None
          \/ /\ out[c] \in Names /\ buffer[c] \in SessionConfig
             /\ tunnel[c] = None /\ opts[c] = None

\* A session on its way is that of the tunnel it was saved from, and so is one
\* that arrived.
Copied(c) ==
    /\ Writes(c) /\ out[c] = "last" => buffer[c] = SessionOf(tunnel[c])
    /\ Writes(c) /\ out[c] \in Names /\ from[c] # None =>
          buffer[c] = SessionOf(from[c])
    /\ pc[c] = "resolve" /\ from[c] # None => session[c] = SessionOf(from[c])
    /\ tunnel[c] # None /\ from[c] # None => Keeps(tunnel[c], opts[c], from[c])

Kept(p) == Readable(p) /\ saved[p] # None => file[p] = SessionOf(saved[p])

\* What is in config.json, unless it was cut off, is what was last written.
LastWritten ==
    file["config"] # Torn => file["config"] = OrElse(whole, Absent)

\* A writer has the last settings in hand, but for what it may change, and
\* nobody has touched them since it read them.
Informed(c) ==
    Writes(c) /\ out[c] = "config" =>
        \A f \in Fields \ may[c] :
           /\ buffer[c][f] = OrElse(whole, Default)[f]
           /\ file["config"] =
                 IF At(c, "truncate") THEN OrElse(whole, Absent) ELSE Torn

IInv ==
    /\ TypeOK /\ HistoryOK
    /\ \A c \in Procs : Memory(c) /\ Copied(c)
    /\ \A p \in Paths \ {"config"} : Kept(p)
    /\ LastWritten
    /\ \A c \in Procs : Informed(c)
=============================================================================
