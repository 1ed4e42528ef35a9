------------------------------- MODULE Daemons -------------------------------
(***************************************************************************)
(* Background tunnels: daemon.rs with the tracking files of saved_config.rs *)
(* (the branches for Unix).                                                *)
(*                                                                         *)
(* Every neutun command that deals with daemons is a process of its own,   *)
(* and the directory of tracking files, daemons/<pid>.json, is all they    *)
(* share.  One step is one access to that directory or one question to, or *)
(* order for, the operating system; commands interleave, and any of them   *)
(* may be interrupted between two steps.                                   *)
(***************************************************************************)
EXTENDS Naturals

CONSTANTS
    Cmds,       \* neutun processes that run a daemon command
    Keys,       \* what a collision is judged by: port and sub-domain
    Pids,       \* process ids
    Recycled,   \* the pids the kernel may give out more than once
    NoProc,     \* no process has the pid
    Foreign,    \* the pid is another program's, of the same user
    NoFile,     \* there is no tracking file for the pid
    Torn        \* its file was created and not written yet

ASSUME DaemonAssumption ==
    /\ Recycled \subseteq Pids /\ Pids # {}
    /\ {NoProc, Foreign, NoFile, Torn} \cap Keys = {}
    /\ NoProc # Foreign /\ NoFile # Torn

VARIABLES
    proc,       \* proc[p]: the key of a daemon, Foreign or NoProc
    dying,      \* processes that were sent a signal and have not ended
    used,       \* pids given out so far
    file,       \* file[p]: the key in p's tracking file, Torn or NoFile
    pc,         \* pc[c]: where command c stands
    op,         \* op[c]: "start", "ls", "stop" or "stopall"
    key,        \* key[c]: the tunnel a start is for
    todo,       \* todo[c]: pids whose file c has yet to read
    found,      \* found[c]: entries read, pairs of pid and key
    live,       \* live[c]: entries whose process was alive
    target,     \* target[c]: the pid c is about to unlink, or its child
    astray,     \* history: running processes whose entry may go all the same
    tracked,    \* history: daemons that ran and were tracked when c began
    stale       \* history: dead pids with a file when c began

os      == <<proc, dying, used>>
scan    == <<todo, found, live>>
command == <<op, key>>
history == <<astray, tracked, stale>>
vars    == <<os, file, pc, command, scan, target, history>>

Entries == Pids \X Keys

TypeOK ==
    /\ proc \in [Pids -> Keys \cup {NoProc, Foreign}]
    /\ dying \in SUBSET Pids
    /\ used \in SUBSET Pids
    /\ file \in [Pids -> Keys \cup {NoFile, Torn}]
    /\ pc \in [Cmds -> {"idle", "read", "check", "unlink", "spawn", "create",
                        "write", "probe", "kill", "forget", "done", "cut",
                        "lost"}]
    /\ op \in [Cmds -> {"start", "ls", "stop", "stopall"}]
    /\ key \in [Cmds -> Keys]
    /\ todo \in [Cmds -> SUBSET Pids]
    /\ found \in [Cmds -> SUBSET Entries]
    /\ live \in [Cmds -> SUBSET Entries]
    /\ target \in [Cmds -> Pids]
    /\ astray \in SUBSET Pids
    /\ tracked \in [Cmds -> SUBSET Pids]
    /\ stale \in [Cmds -> SUBSET Pids]

\* What a command is asked to do is fixed from the start.
Init ==
    /\ proc = [p \in Pids |-> NoProc]
    /\ dying = {}
    /\ used = {}
    /\ file = [p \in Pids |-> NoFile]
    /\ pc = [c \in Cmds |-> "idle"]
    /\ op \in [Cmds -> {"start", "ls", "stop", "stopall"}]
    /\ key \in [Cmds -> Keys]
    /\ todo = [c \in Cmds |-> {}]
    /\ found = [c \in Cmds |-> {}]
    /\ live = [c \in Cmds |-> {}]
    /\ target = [c \in Cmds |-> CHOOSE p \in Pids : TRUE]
    /\ astray = {}
    /\ tracked = [c \in Cmds |-> {}]
    /\ stale = [c \in Cmds |-> {}]

At(c, l)   == pc[c] = l
Goto(c, l) == pc' = [pc EXCEPT ![c] = l]

\* The entry of the running process p may go from now on, and no command can
\* rely on it any more.
Astray(p) ==
    /\ astray' = astray \cup {p}
    /\ tracked' = [c \in Cmds |-> tracked[c] \ {p}]
    /\ UNCHANGED stale

\* is_pid_alive: kill -0 finds any process of the user; one it may not signal,
\* and any at all when kill cannot be run, is taken for dead.
FoundAlive(p) == proc[p] # NoProc /\ UNCHANGED history
FoundDead(p)  == IF proc[p] # NoProc THEN Astray(p) ELSE UNCHANGED history

\* kill_process does not wait for the process to end, nor does it look whether
\* a signal was sent.
kill_process(p) ==
    \/ /\ proc[p] = NoProc
       /\ UNCHANGED <<dying, history>>
    \/ /\ proc[p] # NoProc
       /\ dying' = dying \cup {p}
       /\ UNCHANGED history
    \/ /\ proc[p] # NoProc
       /\ Astray(p)
       /\ UNCHANGED dying

\* remove_daemon_entry does not look whether the file was removed.
remove_daemon_entry(p) == file' = [file EXCEPT ![p] = NoFile]

(***************************************************************************)
(* The operating system.                                                   *)
(***************************************************************************)

\* A process ends, of a signal or otherwise (a refused tunnel, a crash), and is
\* reaped; kill -0 finds it until then.  Its tracking file stays.
Dies(p) ==
    /\ proc[p] # NoProc
    /\ proc' = [proc EXCEPT ![p] = NoProc]
    /\ dying' = dying \ {p}
    /\ UNCHANGED <<used, file, pc, command, scan, target, history>>

Free(p) == proc[p] = NoProc /\ (p \in used => p \in Recycled)

\* A pid goes to another program, the first time or after a daemon has died.
Taken(p) ==
    /\ Free(p)
    /\ proc' = [proc EXCEPT ![p] = Foreign]
    /\ used' = used \cup {p}
    /\ UNCHANGED <<dying, file, pc, command, scan, target, history>>

\* Start c has spawned its daemon and has not saved the entry.
Saving(c) == pc[c] \in {"create", "write"}

\* A command is interrupted, or the machine goes down under it, or a save of an
\* entry panics.
Interrupted(c) ==
    /\ pc[c] \notin {"idle", "done", "cut", "lost"}
    /\ Goto(c, IF Saving(c) THEN "lost" ELSE "cut")
    /\ UNCHANGED <<os, file, command, scan, target, history>>

(***************************************************************************)
(* cleanup_and_list_daemons, the beginning of start, ls and stop-all.      *)
(***************************************************************************)

BeginScan(c) ==
    /\ At(c, "idle") /\ op[c] # "stop"
    /\ Goto(c, "read")
    /\ todo' = [todo EXCEPT ![c] = Pids]
    /\ tracked' = [tracked EXCEPT ![c] =
                     {p \in Pids \ astray :
                         proc[p] \in Keys /\ file[p] = proc[p]}]
    /\ stale' = [stale EXCEPT ![c] =
                   {p \in Pids : proc[p] = NoProc /\ file[p] \in Keys}]
    /\ UNCHANGED <<os, file, command, found, live, target, astray>>

\* list_daemon_entries: a file that cannot be read or does not parse is skipped.
ReadEntry(c) ==
    /\ At(c, "read")
    /\ \E p \in todo[c] :
          /\ todo' = [todo EXCEPT ![c] = @ \ {p}]
          /\ \/ /\ file[p] \in Keys
                /\ found' = [found EXCEPT ![c] = @ \cup {<<p, file[p]>>}]
                /\ UNCHANGED history
             \/ /\ file[p] \notin Keys
                /\ UNCHANGED <<found, history>>
             \/ /\ file[p] \in Keys
                /\ tracked' = [tracked EXCEPT ![c] = @ \ {p}]
                /\ stale' = [stale EXCEPT ![c] = @ \ {p}]
                /\ UNCHANGED <<found, astray>>
    /\ Goto(c, IF todo'[c] = {} THEN "check" ELSE "read")
    /\ UNCHANGED <<os, file, command, live, target>>

\* Mutant: what was read is listed without asking.
CheckNothing(c) ==
    /\ At(c, "check")
    /\ \E e \in found[c] :
          /\ found' = [found EXCEPT ![c] = @ \ {e}]
          /\ live' = [live EXCEPT ![c] = @ \cup {e}]
    /\ UNCHANGED <<os, file, pc, command, todo, target, history>>

CheckAlive(c) ==
    /\ At(c, "check")
    /\ \E e \in found[c] :
          /\ found' = [found EXCEPT ![c] = @ \ {e}]
          /\ \/ /\ FoundAlive(e[1])
                /\ live' = [live EXCEPT ![c] = @ \cup {e}]
                /\ UNCHANGED <<pc, target>>
             \/ /\ FoundDead(e[1])
                /\ Goto(c, "unlink")
                /\ target' = [target EXCEPT ![c] = e[1]]
                /\ UNCHANGED live
    /\ UNCHANGED <<os, file, command, todo>>

\* remove_daemon_entry of a stale entry.
Unlink(c) ==
    /\ At(c, "unlink")
    /\ \/ /\ remove_daemon_entry(target[c])
          /\ UNCHANGED history
       \/ /\ stale' = [stale EXCEPT ![c] = @ \ {target[c]}]
          /\ UNCHANGED <<file, astray, tracked>>
    /\ Goto(c, "check")
    /\ UNCHANGED <<os, command, scan, target>>

\* Mutant: collisions are not looked for.
ScannedBlind(c) ==
    /\ At(c, "check") /\ found[c] = {}
    /\ Goto(c, CASE op[c] = "ls"      -> "done"
                 [] op[c] = "stopall" -> "kill"
                 [] OTHER             -> "spawn")
    /\ UNCHANGED <<os, file, command, scan, target, history>>

\* check_daemon_collision ends a start.
Scanned(c) ==
    /\ At(c, "check") /\ found[c] = {}
    /\ Goto(c, CASE op[c] = "ls"      -> "done"
                 [] op[c] = "stopall" -> "kill"
                 [] OTHER             -> IF \E e \in live[c] : e[2] = key[c]
                                            THEN "done" ELSE "spawn")
    /\ UNCHANGED <<os, file, command, scan, target, history>>

(***************************************************************************)
(* start_daemon.                                                           *)
(***************************************************************************)

\* A command has found p dead, or has signalled it, and removes its entry next.
Doomed(p) == \E d \in Cmds : pc[d] \in {"unlink", "forget"} /\ target[d] = p

\* spawn_detached.
Spawn(c) ==
    /\ At(c, "spawn")
    /\ \E p \in Pids :
          /\ Free(p)
          /\ proc' = [proc EXCEPT ![p] = key[c]]
          /\ used' = used \cup {p}
          /\ target' = [target EXCEPT ![c] = p]
          /\ IF Doomed(p) THEN Astray(p) ELSE UNCHANGED history
    /\ Goto(c, "create")
    /\ UNCHANGED <<dying, file, command, scan>>

SpawnFails(c) ==
    /\ At(c, "spawn")
    /\ Goto(c, "done")
    /\ UNCHANGED <<os, file, command, scan, target, history>>

\* save_daemon_entry: fs::write creates or truncates, then writes.
Create(c) ==
    /\ At(c, "create")
    /\ file' = [file EXCEPT ![target[c]] = Torn]
    /\ Goto(c, "write")
    /\ UNCHANGED <<os, command, scan, target, history>>

Write(c) ==
    /\ At(c, "write")
    /\ file' = [file EXCEPT ![target[c]] = key[c]]
    /\ Goto(c, "done")
    /\ UNCHANGED <<os, command, scan, target, history>>

(***************************************************************************)
(* stop_daemon and stop_all_daemons.                                       *)
(***************************************************************************)

\* A user may type any pid.
BeginStop(c) ==
    /\ At(c, "idle") /\ op[c] = "stop"
    /\ \E p \in Pids : target' = [target EXCEPT ![c] = p]
    /\ Goto(c, "probe")
    /\ UNCHANGED <<os, file, command, scan, history>>

\* Mutant: the entry is removed as stale without asking.
ProbeNothing(c) ==
    /\ At(c, "probe")
    /\ Goto(c, "forget")
    /\ UNCHANGED <<os, file, command, scan, target, history>>

Probe(c) ==
    /\ At(c, "probe")
    /\ \/ FoundAlive(target[c]) /\ Goto(c, "kill")
       \/ FoundDead(target[c]) /\ Goto(c, "forget")
    /\ UNCHANGED <<os, file, command, scan, target>>

\* Mutant: the entry is removed and the signal is not sent.
KillNothing(c) ==
    /\ At(c, "kill") /\ op[c] = "stop"
    /\ Goto(c, "forget")
    /\ UNCHANGED <<os, file, command, scan, target, history>>

Kill(c) ==
    /\ At(c, "kill") /\ op[c] = "stop"
    /\ kill_process(target[c])
    /\ Goto(c, "forget")
    /\ UNCHANGED <<proc, used, file, command, scan, target>>

KillNext(c) ==
    /\ At(c, "kill") /\ op[c] = "stopall"
    /\ \E e \in live[c] :
          /\ live' = [live EXCEPT ![c] = @ \ {e}]
          /\ target' = [target EXCEPT ![c] = e[1]]
          /\ kill_process(e[1])
    /\ Goto(c, "forget")
    /\ UNCHANGED <<proc, used, file, command, todo, found>>

Forget(c) ==
    /\ At(c, "forget")
    /\ remove_daemon_entry(target[c]) \/ UNCHANGED file
    /\ Goto(c, IF op[c] = "stop" THEN "done" ELSE "kill")
    /\ UNCHANGED <<os, command, scan, target, history>>

StoppedAll(c) ==
    /\ At(c, "kill") /\ op[c] = "stopall" /\ live[c] = {}
    /\ Goto(c, "done")
    /\ UNCHANGED <<os, file, command, scan, target, history>>

Command(c) ==
    \/ BeginScan(c) \/ ReadEntry(c) \/ CheckAlive(c) \/ Unlink(c) \/ Scanned(c)
    \/ Spawn(c) \/ SpawnFails(c) \/ Create(c) \/ Write(c)
    \/ BeginStop(c) \/ Probe(c) \/ Kill(c)
    \/ KillNext(c) \/ Forget(c) \/ StoppedAll(c)

Next ==
    \/ \E p \in Pids : Dies(p) \/ Taken(p)
    \/ \E c \in Cmds : Command(c) \/ Interrupted(c)

Spec == Init /\ [][Next]_vars

(***************************************************************************)
(* Properties.                                                             *)
(***************************************************************************)

\* The start that spawned the daemon p has not saved its entry, or never will.
Unsaved(p) ==
    \E c \in Cmds : target[c] = p /\ (Saving(c) \/ At(c, "lost"))

\* A daemon is tracked from the end of its start until it is told to stop,
\* unless the start was interrupted: concurrent listings, starts and stops
\* remove no entry of a running daemon.  The exceptions are those of the code:
\* is_pid_alive may call the daemon dead, kill may fail to signal it, and a pid
\* may be given out while an entry of that pid is about to go (astray), or be
\* given out twice.
RunningIsTracked ==
    \A p \in Pids \ (Recycled \cup astray) :
        proc[p] \in Keys /\ p \notin dying => file[p] = proc[p] \/ Unsaved(p)

\* A start spawns no second daemon for a tunnel whose daemon was tracked when
\* it began to scan and is still running: a scan that races with other
\* commands misses no entry that stays.  A daemon that goes astray meanwhile,
\* or whose file the start cannot read, is not counted as tracked.
CollisionSeen ==
    \A c \in Cmds : At(c, "spawn") =>
        \A p \in tracked[c] \ Recycled :
            proc[p] = key[c] => p \in dying

\* A listing, a start or a stop-all that ran to its end has removed every
\* entry that was stale when it began, those it could not read or remove
\* excepted.
StaleRemoved ==
    \A c \in Cmds : At(c, "done") /\ op[c] # "stop" =>
        \A p \in stale[c] \ Recycled : file[p] = NoFile

(***************************************************************************)
(* The inductive invariant, for the pids that are given out once.          *)
(***************************************************************************)

Once == Pids \ Recycled

\* Whatever is known of a pid, it was given out.
Given ==
    /\ \A p \in Once : proc[p] # NoProc \/ file[p] # NoFile => p \in used
    /\ \A c \in Cmds : \A e \in found[c] \cup live[c] :
          e[1] \in Once => e[1] \in used

\* A file is removed only when its daemon has ended, is about to or is astray.
Removes(c) ==
    target[c] \in Once \ astray =>
        /\ At(c, "unlink") => proc[target[c]] \notin Keys
        /\ At(c, "forget") =>
              proc[target[c]] \notin Keys \/ target[c] \in dying

\* The pid a start is saving is its own and nobody has seen a file of it.
Fresh(c) ==
    Saving(c) /\ target[c] \in Once =>
        /\ target[c] \in used
        /\ proc[target[c]] \in {NoProc, key[c]}
        /\ file[target[c]] \notin Keys
        /\ \A d \in Cmds : /\ Saving(d) /\ target[d] = target[c] => d = c
                           /\ target[c] \notin tracked[d] \cup stale[d]

\* A scan has still to read, or has read, the entry of a tracked daemon.
TrackedStays(c, p) ==
    /\ p \in used \ astray
    /\ proc[p] \in Keys /\ p \notin dying =>
          /\ file[p] = proc[p]
          /\ At(c, "read") => p \in todo[c] \/ <<p, proc[p]>> \in found[c]
          /\ pc[c] \in {"check", "unlink"} =>
                <<p, proc[p]>> \in found[c] \cup live[c]
          /\ At(c, "spawn") => proc[p] # key[c]

\* A scan has still to read, or to remove, an entry that was stale.
StaleStays(c, p) ==
    /\ p \in used /\ proc[p] = NoProc
    /\ file[p] # NoFile =>
          /\ file[p] \in Keys
          /\ \/ At(c, "read") /\ p \in todo[c]
             \/ pc[c] \in {"read", "check", "unlink"}
                   /\ <<p, file[p]>> \in found[c]
             \/ At(c, "unlink") /\ target[c] = p
             \/ pc[c] \in {"cut", "lost"}

\* Nothing was tracked or stale to a command that has not begun to scan.
NothingYet(c) ==
    At(c, "idle") \/ op[c] = "stop" => tracked[c] = {} /\ stale[c] = {}

CommandInv(c) ==
    /\ Removes(c)
    /\ Fresh(c)
    /\ NothingYet(c)
    /\ \A p \in tracked[c] \cap Once : TrackedStays(c, p)
    /\ \A p \in stale[c] \cap Once : StaleStays(c, p)

IInv ==
    /\ TypeOK
    /\ Given
    /\ RunningIsTracked
    /\ \A c \in Cmds : CommandInv(c)
=============================================================================
