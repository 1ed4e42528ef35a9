---------------------------- MODULE DaemonsProofs ----------------------------
(* Proofs about Daemons, for any commands, tunnels and pids.                *)
EXTENDS Daemons, TLAPS

\* The processes and tracking files the commands find satisfy the inductive invariant.
THEOREM InitIInv == Init => IInv
BY DaemonAssumption
DEF Init, IInv, TypeOK, Given, RunningIsTracked, Once, CommandInv, Removes,
    Fresh, Saving, At, NothingYet

\* The start of a directory scan keeps the invariant.
LEMMA BeginScanKept ==
    ASSUME IInv, NEW c \in Cmds, BeginScan(c)
    PROVE  IInv'
<1> USE DaemonAssumption DEF os, scan, command, history, At, Goto, Once, Entries
<1>1. TypeOK'
  BY DEF BeginScan, IInv, TypeOK
<1>2. Given'
  BY DEF BeginScan, IInv, Given
<1>3. RunningIsTracked'
  BY DEF BeginScan, IInv, RunningIsTracked, Unsaved, Saving
<1>4. ASSUME NEW d \in Cmds PROVE Removes(d)'
  BY DEF BeginScan, IInv, CommandInv, Removes
<1>5. ASSUME NEW d \in Cmds PROVE Fresh(d)'
  BY DEF BeginScan, IInv, CommandInv, Fresh, Saving
<1>6. ASSUME NEW d \in Cmds PROVE NothingYet(d)'
  BY DEF BeginScan, IInv, TypeOK, CommandInv, NothingYet
<1>7. ASSUME NEW d \in Cmds, NEW p \in tracked'[d] \cap Once
      PROVE  TrackedStays(d, p)'
  BY DEF BeginScan, IInv, TypeOK, Given, CommandInv, TrackedStays
<1>8. ASSUME NEW d \in Cmds, NEW p \in stale'[d] \cap Once
      PROVE  StaleStays(d, p)'
  BY DEF BeginScan, IInv, TypeOK, Given, CommandInv, StaleStays
<1> QED
  BY <1>1, <1>2, <1>3, <1>4, <1>5, <1>6, <1>7, <1>8 DEF IInv, CommandInv

\* Reading one tracking file, skipped when it does not parse, keeps the
\* invariant.
LEMMA ReadEntryKept ==
    ASSUME IInv, NEW c \in Cmds, ReadEntry(c)
    PROVE  IInv'
<1> USE DaemonAssumption DEF os, scan, command, history, At, Goto, Once, Entries
<1>1. TypeOK'
  BY DEF ReadEntry, IInv, TypeOK
<1>2. Given'
  BY DEF ReadEntry, IInv, TypeOK, Given
<1>3. RunningIsTracked'
  BY DEF ReadEntry, IInv, TypeOK, RunningIsTracked, Unsaved, Saving
<1>4. ASSUME NEW d \in Cmds PROVE Removes(d)'
  BY DEF ReadEntry, IInv, TypeOK, CommandInv, Removes
<1>5. ASSUME NEW d \in Cmds PROVE Fresh(d)'
  BY DEF ReadEntry, IInv, TypeOK, CommandInv, Fresh, Saving
<1>6. ASSUME NEW d \in Cmds PROVE NothingYet(d)'
  BY DEF ReadEntry, IInv, TypeOK, CommandInv, NothingYet
<1>7. ASSUME NEW d \in Cmds, NEW p \in tracked'[d] \cap Once
      PROVE  TrackedStays(d, p)'
  BY DEF ReadEntry, IInv, TypeOK, CommandInv, TrackedStays
<1>8. ASSUME NEW d \in Cmds, NEW p \in stale'[d] \cap Once
      PROVE  StaleStays(d, p)'
  BY DEF ReadEntry, IInv, TypeOK, CommandInv, StaleStays
<1> QED
  BY <1>1, <1>2, <1>3, <1>4, <1>5, <1>6, <1>7, <1>8 DEF IInv, CommandInv

\* Asking whether a read pid is alive keeps the invariant.
LEMMA CheckAliveKept ==
    ASSUME IInv, NEW c \in Cmds, CheckAlive(c)
    PROVE  IInv'
<1> USE DaemonAssumption DEF os, scan, command, history, At, Goto, Once, Entries
<1>1. TypeOK'
  BY DEF CheckAlive, FoundAlive, FoundDead, Astray, IInv, TypeOK
<1>2. Given'
  BY DEF CheckAlive, FoundAlive, FoundDead, Astray, IInv, TypeOK, Given
<1>3. RunningIsTracked'
  <2>1. UNCHANGED <<proc, dying, file>> /\ astray \subseteq astray'
    BY DEF CheckAlive, FoundAlive, FoundDead, Astray
  <2>2. ASSUME NEW p \in Pids, Unsaved(p) PROVE Unsaved(p)'
    BY <2>2 DEF CheckAlive, Unsaved, Saving, IInv, TypeOK
  <2> QED
    BY <2>1, <2>2 DEF IInv, RunningIsTracked
<1>4. ASSUME NEW d \in Cmds PROVE Removes(d)'
  BY DEF CheckAlive, FoundAlive, FoundDead, Astray, IInv, TypeOK, Given,
     CommandInv, Removes
<1>5. ASSUME NEW d \in Cmds PROVE Fresh(d)'
  BY DEF CheckAlive, FoundAlive, FoundDead, Astray, IInv, TypeOK, CommandInv,
     Fresh, Saving
<1>6. ASSUME NEW d \in Cmds PROVE NothingYet(d)'
  BY DEF CheckAlive, FoundAlive, FoundDead, Astray, IInv, TypeOK, CommandInv,
     NothingYet
<1>7. ASSUME NEW d \in Cmds, NEW p \in tracked'[d] \cap Once
      PROVE  TrackedStays(d, p)'
  BY DEF CheckAlive, FoundAlive, FoundDead, Astray, IInv, TypeOK, CommandInv,
     TrackedStays
<1>8. ASSUME NEW d \in Cmds, NEW p \in stale'[d] \cap Once
      PROVE  StaleStays(d, p)'
  BY DEF CheckAlive, FoundAlive, FoundDead, Astray, IInv, TypeOK, CommandInv,
     StaleStays
<1> QED
  BY <1>1, <1>2, <1>3, <1>4, <1>5, <1>6, <1>7, <1>8 DEF IInv, CommandInv

\* Removing the file of a dead pid keeps the invariant.
LEMMA UnlinkKept ==
    ASSUME IInv, NEW c \in Cmds, Unlink(c)
    PROVE  IInv'
<1> USE DaemonAssumption DEF os, scan, command, history, At, Goto, Once, Entries
<1>1. TypeOK'
  BY DEF Unlink, remove_daemon_entry, IInv, TypeOK
<1>2. Given'
  BY DEF Unlink, remove_daemon_entry, IInv, TypeOK, Given
<1>3. RunningIsTracked'
  BY DEF Unlink, remove_daemon_entry, IInv, TypeOK, RunningIsTracked, Unsaved,
     Saving, CommandInv, Removes
<1>4. ASSUME NEW d \in Cmds PROVE Removes(d)'
  BY DEF Unlink, remove_daemon_entry, IInv, TypeOK, CommandInv, Removes
<1>5. ASSUME NEW d \in Cmds PROVE Fresh(d)'
  BY DEF Unlink, remove_daemon_entry, IInv, TypeOK, CommandInv, Fresh, Saving
<1>6. ASSUME NEW d \in Cmds PROVE NothingYet(d)'
  BY DEF Unlink, remove_daemon_entry, IInv, TypeOK, CommandInv, NothingYet
<1>7. ASSUME NEW d \in Cmds, NEW p \in tracked'[d] \cap Once
      PROVE  TrackedStays(d, p)'
  BY DEF Unlink, remove_daemon_entry, IInv, TypeOK, CommandInv, TrackedStays,
     Removes
<1>8. ASSUME NEW d \in Cmds, NEW p \in stale'[d] \cap Once
      PROVE  StaleStays(d, p)'
  <2>1. p \in stale[d] /\ StaleStays(d, p)
    BY DEF Unlink, IInv, TypeOK, CommandInv
  <2>2. UNCHANGED <<used, proc, todo, found, target>>
    BY DEF Unlink
  <2>3. file'[p] \in {NoFile, file[p]}
    BY DEF Unlink, remove_daemon_entry, IInv, TypeOK
  <2>4. c = d /\ target[c] = p => file'[p] = NoFile
    BY DEF Unlink, remove_daemon_entry, IInv, TypeOK
  <2>5. pc[c] = "unlink" /\ pc'[d] = IF d = c THEN "check" ELSE pc[d]
    BY DEF Unlink, IInv, TypeOK
  <2> QED
    BY <2>1, <2>2, <2>3, <2>4, <2>5 DEF StaleStays
<1> QED
  BY <1>1, <1>2, <1>3, <1>4, <1>5, <1>6, <1>7, <1>8 DEF IInv, CommandInv

\* The end of a scan, with its collision check or its listing, keeps the
\* invariant.
LEMMA ScannedKept ==
    ASSUME IInv, NEW c \in Cmds, Scanned(c)
    PROVE  IInv'
<1> USE DaemonAssumption DEF os, scan, command, history, At, Goto, Once, Entries
<1>1. TypeOK'
  BY DEF Scanned, IInv, TypeOK
<1>2. Given'
  BY DEF Scanned, IInv, Given
<1>3. RunningIsTracked'
  BY DEF Scanned, IInv, RunningIsTracked, Unsaved, Saving
<1>4. ASSUME NEW d \in Cmds PROVE Removes(d)'
  BY DEF Scanned, IInv, CommandInv, Removes
<1>5. ASSUME NEW d \in Cmds PROVE Fresh(d)'
  BY DEF Scanned, IInv, CommandInv, Fresh, Saving
<1>6. ASSUME NEW d \in Cmds PROVE NothingYet(d)'
  BY DEF Scanned, IInv, CommandInv, NothingYet
<1>7. ASSUME NEW d \in Cmds, NEW p \in tracked'[d] \cap Once
      PROVE  TrackedStays(d, p)'
  BY DEF Scanned, IInv, CommandInv, TrackedStays
<1>8. ASSUME NEW d \in Cmds, NEW p \in stale'[d] \cap Once
      PROVE  StaleStays(d, p)'
  BY DEF Scanned, IInv, CommandInv, StaleStays
<1> QED
  BY <1>1, <1>2, <1>3, <1>4, <1>5, <1>6, <1>7, <1>8 DEF IInv, CommandInv

\* Spawning the detached process keeps the invariant: its file is still to come.
LEMMA SpawnKept ==
    ASSUME IInv, NEW c \in Cmds, Spawn(c)
    PROVE  IInv'
<1> USE DaemonAssumption DEF os, scan, command, history, At, Goto, Once, Entries
<1> PICK p \in Pids : /\ Free(p)
                      /\ proc' = [proc EXCEPT ![p] = key[c]]
                      /\ used' = used \cup {p}
                      /\ target' = [target EXCEPT ![c] = p]
                      /\ IF Doomed(p) THEN Astray(p) ELSE UNCHANGED history
  BY DEF Spawn
<1>1. TypeOK'
  BY DEF Spawn, Astray, IInv, TypeOK
<1>2. Given'
  BY DEF Spawn, Astray, IInv, Given
<1>3. RunningIsTracked'
  BY DEF Spawn, Astray, IInv, TypeOK, RunningIsTracked, Unsaved, Saving
<1>4. ASSUME NEW d \in Cmds PROVE Removes(d)'
  BY DEF Spawn, Free, Doomed, Astray, IInv, TypeOK, CommandInv, Removes
<1>5. ASSUME NEW d \in Cmds PROVE Fresh(d)'
  <2>1. p \in Once => p \notin used
    BY DEF Free
  <2>2. ASSUME NEW e \in Cmds, p \in Once
        PROVE  /\ ~(Saving(e) /\ target[e] = p)
               /\ p \notin tracked[e] \cup stale[e]
    <3>1. Fresh(e) /\ (Saving(e) /\ target[e] = p => p \in used)
      BY <2>2 DEF IInv, CommandInv, Fresh
    <3>2. /\ p \in tracked[e] => TrackedStays(e, p)
          /\ p \in stale[e] => StaleStays(e, p)
      BY <2>2 DEF IInv, CommandInv
    <3> QED
      BY <2>1, <2>2, <3>1, <3>2 DEF TrackedStays, StaleStays
  <2>3. p \in Once => file[p] = NoFile
    BY <2>1 DEF IInv, Given
  <2>4. CASE d = c
    BY <2>2, <2>3, <2>4 DEF Spawn, Astray, IInv, TypeOK, Fresh, Saving
  <2>5. CASE d # c
    BY <2>2, <2>5 DEF Spawn, Astray, IInv, TypeOK, CommandInv, Fresh, Saving
  <2> QED
    BY <2>4, <2>5
<1>6. ASSUME NEW d \in Cmds PROVE NothingYet(d)'
  BY DEF Spawn, Astray, IInv, CommandInv, NothingYet
<1>7. ASSUME NEW d \in Cmds, NEW q \in tracked'[d] \cap Once
      PROVE  TrackedStays(d, q)'
  <2>1. TrackedStays(d, q)
    BY DEF Spawn, Astray, IInv, CommandInv
  <2>2. q # p
    BY <2>1 DEF Free, TrackedStays
  <2> QED
    BY <2>1, <2>2 DEF Spawn, Astray, IInv, TypeOK, TrackedStays
<1>8. ASSUME NEW d \in Cmds, NEW q \in stale'[d] \cap Once
      PROVE  StaleStays(d, q)'
  BY DEF Spawn, Free, Astray, IInv, CommandInv, StaleStays
<1> QED
  BY <1>1, <1>2, <1>3, <1>4, <1>5, <1>6, <1>7, <1>8 DEF IInv, CommandInv

\* A spawn that fails keeps the invariant: nothing runs and nothing is tracked.
LEMMA SpawnFailsKept ==
    ASSUME IInv, NEW c \in Cmds, SpawnFails(c)
    PROVE  IInv'
<1> USE DaemonAssumption DEF os, scan, command, history, At, Goto, Once, Entries
<1>1. TypeOK'
  BY DEF SpawnFails, IInv, TypeOK
<1>2. Given'
  BY DEF SpawnFails, IInv, Given
<1>3. RunningIsTracked'
  BY DEF SpawnFails, IInv, RunningIsTracked, Unsaved, Saving
<1>4. ASSUME NEW d \in Cmds PROVE Removes(d)'
  BY DEF SpawnFails, IInv, CommandInv, Removes
<1>5. ASSUME NEW d \in Cmds PROVE Fresh(d)'
  BY DEF SpawnFails, IInv, CommandInv, Fresh, Saving
<1>6. ASSUME NEW d \in Cmds PROVE NothingYet(d)'
  BY DEF SpawnFails, IInv, CommandInv, NothingYet
<1>7. ASSUME NEW d \in Cmds, NEW p \in tracked'[d] \cap Once
      PROVE  TrackedStays(d, p)'
  BY DEF SpawnFails, IInv, CommandInv, TrackedStays
<1>8. ASSUME NEW d \in Cmds, NEW p \in stale'[d] \cap Once
      PROVE  StaleStays(d, p)'
  BY DEF SpawnFails, IInv, CommandInv, StaleStays
<1> QED
  BY <1>1, <1>2, <1>3, <1>4, <1>5, <1>6, <1>7, <1>8 DEF IInv, CommandInv

\* Opening and truncating the tracking file keeps the invariant.
LEMMA CreateKept ==
    ASSUME IInv, NEW c \in Cmds, Create(c)
    PROVE  IInv'
<1> USE DaemonAssumption DEF os, scan, command, history, At, Goto, Once, Entries
<1>1. TypeOK'
  BY DEF Create, IInv, TypeOK
<1>2. Given'
  BY DEF Create, IInv, Given, CommandInv, Fresh, Saving
<1>3. RunningIsTracked'
  BY DEF Create, IInv, RunningIsTracked, Unsaved, Saving
<1>4. ASSUME NEW d \in Cmds PROVE Removes(d)'
  BY DEF Create, IInv, CommandInv, Removes
<1>5. ASSUME NEW d \in Cmds PROVE Fresh(d)'
  BY DEF Create, IInv, CommandInv, Fresh, Saving
<1>6. ASSUME NEW d \in Cmds PROVE NothingYet(d)'
  BY DEF Create, IInv, CommandInv, NothingYet
<1>7. ASSUME NEW d \in Cmds, NEW p \in tracked'[d] \cap Once
      PROVE  TrackedStays(d, p)'
  BY DEF Create, IInv, CommandInv, TrackedStays, Fresh, Saving
<1>8. ASSUME NEW d \in Cmds, NEW p \in stale'[d] \cap Once
      PROVE  StaleStays(d, p)'
  BY DEF Create, IInv, CommandInv, StaleStays, Fresh, Saving
<1> QED
  BY <1>1, <1>2, <1>3, <1>4, <1>5, <1>6, <1>7, <1>8 DEF IInv, CommandInv

\* Writing the tracking file keeps the invariant.
LEMMA WriteKept ==
    ASSUME IInv, NEW c \in Cmds, Write(c)
    PROVE  IInv'
<1> USE DaemonAssumption DEF os, scan, command, history, At, Goto, Once, Entries
<1>1. TypeOK'
  BY DEF Write, IInv, TypeOK
<1>2. Given'
  BY DEF Write, IInv, Given, CommandInv, Fresh, Saving
<1>3. RunningIsTracked'
  BY DEF Write, IInv, TypeOK, RunningIsTracked, Unsaved, Saving, CommandInv,
         Fresh
<1>4. ASSUME NEW d \in Cmds PROVE Removes(d)'
  BY DEF Write, IInv, CommandInv, Removes
<1>5. ASSUME NEW d \in Cmds PROVE Fresh(d)'
  BY DEF Write, IInv, TypeOK, CommandInv, Fresh, Saving
<1>6. ASSUME NEW d \in Cmds PROVE NothingYet(d)'
  BY DEF Write, IInv, CommandInv, NothingYet
<1>7. ASSUME NEW d \in Cmds, NEW p \in tracked'[d] \cap Once
      PROVE  TrackedStays(d, p)'
  BY DEF Write, IInv, CommandInv, TrackedStays, Fresh, Saving
<1>8. ASSUME NEW d \in Cmds, NEW p \in stale'[d] \cap Once
      PROVE  StaleStays(d, p)'
  BY DEF Write, IInv, CommandInv, StaleStays, Fresh, Saving
<1> QED
  BY <1>1, <1>2, <1>3, <1>4, <1>5, <1>6, <1>7, <1>8 DEF IInv, CommandInv

\* The start of a stop command keeps the invariant.
LEMMA BeginStopKept ==
    ASSUME IInv, NEW c \in Cmds, BeginStop(c)
    PROVE  IInv'
<1> USE DaemonAssumption DEF os, scan, command, history, At, Goto, Once, Entries
<1>1. TypeOK'
  BY DEF BeginStop, IInv, TypeOK
<1>2. Given'
  BY DEF BeginStop, IInv, Given
<1>3. RunningIsTracked'
  BY DEF BeginStop, IInv, RunningIsTracked, Unsaved, Saving
<1>4. ASSUME NEW d \in Cmds PROVE Removes(d)'
  BY DEF BeginStop, IInv, TypeOK, CommandInv, Removes
<1>5. ASSUME NEW d \in Cmds PROVE Fresh(d)'
  BY DEF BeginStop, IInv, CommandInv, Fresh, Saving
<1>6. ASSUME NEW d \in Cmds PROVE NothingYet(d)'
  BY DEF BeginStop, IInv, CommandInv, NothingYet
<1>7. ASSUME NEW d \in Cmds, NEW p \in tracked'[d] \cap Once
      PROVE  TrackedStays(d, p)'
  BY DEF BeginStop, IInv, CommandInv, TrackedStays
<1>8. ASSUME NEW d \in Cmds, NEW p \in stale'[d] \cap Once
      PROVE  StaleStays(d, p)'
  BY DEF BeginStop, IInv, CommandInv, StaleStays
<1> QED
  BY <1>1, <1>2, <1>3, <1>4, <1>5, <1>6, <1>7, <1>8 DEF IInv, CommandInv

\* Asking whether the pid to stop is alive keeps the invariant.
LEMMA ProbeKept ==
    ASSUME IInv, NEW c \in Cmds, Probe(c)
    PROVE  IInv'
<1> USE DaemonAssumption DEF os, scan, command, history, At, Goto, Once, Entries
<1>1. TypeOK'
  BY DEF Probe, FoundAlive, FoundDead, Astray, IInv, TypeOK
<1>2. Given'
  BY DEF Probe, FoundAlive, FoundDead, Astray, IInv, TypeOK, Given
<1>3. RunningIsTracked'
  BY DEF Probe, FoundAlive, FoundDead, Astray, IInv, TypeOK, RunningIsTracked,
     Unsaved, Saving
<1>4. ASSUME NEW d \in Cmds PROVE Removes(d)'
  BY DEF Probe, FoundAlive, FoundDead, Astray, IInv, TypeOK, CommandInv, Removes
<1>5. ASSUME NEW d \in Cmds PROVE Fresh(d)'
  BY DEF Probe, FoundAlive, FoundDead, Astray, IInv, TypeOK, CommandInv, Fresh,
     Saving
<1>6. ASSUME NEW d \in Cmds PROVE NothingYet(d)'
  BY DEF Probe, FoundAlive, FoundDead, Astray, IInv, TypeOK, CommandInv,
     NothingYet
<1>7. ASSUME NEW d \in Cmds, NEW p \in tracked'[d] \cap Once
      PROVE  TrackedStays(d, p)'
  BY DEF Probe, FoundAlive, FoundDead, Astray, IInv, TypeOK, CommandInv,
     TrackedStays
<1>8. ASSUME NEW d \in Cmds, NEW p \in stale'[d] \cap Once
      PROVE  StaleStays(d, p)'
  BY DEF Probe, FoundAlive, FoundDead, Astray, IInv, TypeOK, CommandInv,
     StaleStays
<1> QED
  BY <1>1, <1>2, <1>3, <1>4, <1>5, <1>6, <1>7, <1>8 DEF IInv, CommandInv

\* Killing the process of a pid keeps the invariant.
LEMMA KillKept ==
    ASSUME IInv, NEW c \in Cmds, Kill(c)
    PROVE  IInv'
<1> USE DaemonAssumption DEF os, scan, command, history, At, Goto, Once, Entries
<1>1. TypeOK'
  BY DEF Kill, kill_process, Astray, IInv, TypeOK
<1>2. Given'
  BY DEF Kill, kill_process, Astray, IInv, Given
<1>3. RunningIsTracked'
  BY DEF Kill, kill_process, Astray, IInv, RunningIsTracked, Unsaved, Saving
<1>4. ASSUME NEW d \in Cmds PROVE Removes(d)'
  BY DEF Kill, kill_process, Astray, IInv, CommandInv, Removes
<1>5. ASSUME NEW d \in Cmds PROVE Fresh(d)'
  BY DEF Kill, kill_process, Astray, IInv, CommandInv, Fresh, Saving
<1>6. ASSUME NEW d \in Cmds PROVE NothingYet(d)'
  BY DEF Kill, kill_process, Astray, IInv, CommandInv, NothingYet
<1>7. ASSUME NEW d \in Cmds, NEW p \in tracked'[d] \cap Once
      PROVE  TrackedStays(d, p)'
  BY DEF Kill, kill_process, Astray, IInv, CommandInv, TrackedStays
<1>8. ASSUME NEW d \in Cmds, NEW p \in stale'[d] \cap Once
      PROVE  StaleStays(d, p)'
  BY DEF Kill, kill_process, Astray, IInv, CommandInv, StaleStays
<1> QED
  BY <1>1, <1>2, <1>3, <1>4, <1>5, <1>6, <1>7, <1>8 DEF IInv, CommandInv

\* Signalling the next of the daemons listed to stop-all keeps the invariant.
LEMMA KillNextKept ==
    ASSUME IInv, NEW c \in Cmds, KillNext(c)
    PROVE  IInv'
<1> USE DaemonAssumption DEF os, scan, command, history, At, Goto, Once, Entries
<1>1. TypeOK'
  BY DEF KillNext, kill_process, Astray, IInv, TypeOK
<1>2. Given'
  BY DEF KillNext, kill_process, Astray, IInv, Given
<1>3. RunningIsTracked'
  BY DEF KillNext, kill_process, Astray, IInv, RunningIsTracked, Unsaved, Saving
<1>4. ASSUME NEW d \in Cmds PROVE Removes(d)'
  BY DEF KillNext, kill_process, Astray, IInv, TypeOK, Given, CommandInv,
     Removes
<1>5. ASSUME NEW d \in Cmds PROVE Fresh(d)'
  BY DEF KillNext, kill_process, Astray, IInv, CommandInv, Fresh, Saving
<1>6. ASSUME NEW d \in Cmds PROVE NothingYet(d)'
  BY DEF KillNext, kill_process, Astray, IInv, CommandInv, NothingYet
<1>7. ASSUME NEW d \in Cmds, NEW p \in tracked'[d] \cap Once
      PROVE  TrackedStays(d, p)'
  BY DEF KillNext, kill_process, Astray, IInv, CommandInv, TrackedStays
<1>8. ASSUME NEW d \in Cmds, NEW p \in stale'[d] \cap Once
      PROVE  StaleStays(d, p)'
  BY DEF KillNext, kill_process, Astray, IInv, CommandInv, StaleStays
<1> QED
  BY <1>1, <1>2, <1>3, <1>4, <1>5, <1>6, <1>7, <1>8 DEF IInv, CommandInv

\* Removing the file of a signalled or stale pid keeps the invariant.
LEMMA ForgetKept ==
    ASSUME IInv, NEW c \in Cmds, Forget(c)
    PROVE  IInv'
<1> USE DaemonAssumption DEF os, scan, command, history, At, Goto, Once, Entries
<1>1. TypeOK'
  BY DEF Forget, remove_daemon_entry, IInv, TypeOK
<1>2. Given'
  BY DEF Forget, remove_daemon_entry, IInv, TypeOK, Given
<1>3. RunningIsTracked'
  BY DEF Forget, remove_daemon_entry, IInv, TypeOK, RunningIsTracked, Unsaved,
     Saving, CommandInv, Removes
<1>4. ASSUME NEW d \in Cmds PROVE Removes(d)'
  BY DEF Forget, remove_daemon_entry, IInv, TypeOK, CommandInv, Removes
<1>5. ASSUME NEW d \in Cmds PROVE Fresh(d)'
  BY DEF Forget, remove_daemon_entry, IInv, TypeOK, CommandInv, Fresh, Saving
<1>6. ASSUME NEW d \in Cmds PROVE NothingYet(d)'
  BY DEF Forget, remove_daemon_entry, IInv, TypeOK, CommandInv, NothingYet
<1>7. ASSUME NEW d \in Cmds, NEW p \in tracked'[d] \cap Once
      PROVE  TrackedStays(d, p)'
  BY DEF Forget, remove_daemon_entry, IInv, TypeOK, CommandInv, TrackedStays,
     Removes
<1>8. ASSUME NEW d \in Cmds, NEW p \in stale'[d] \cap Once
      PROVE  StaleStays(d, p)'
  <2>1. p \in stale[d] /\ StaleStays(d, p)
    BY DEF Forget, IInv, TypeOK, CommandInv
  <2>2. UNCHANGED <<used, proc, todo, found, target>>
    BY DEF Forget
  <2>3. file'[p] \in {NoFile, file[p]}
    BY DEF Forget, remove_daemon_entry, IInv, TypeOK
  <2>4. pc[c] = "forget" /\ (d # c => pc'[d] = pc[d])
    BY DEF Forget, IInv, TypeOK
  <2> QED
    BY <2>1, <2>2, <2>3, <2>4 DEF StaleStays
<1> QED
  BY <1>1, <1>2, <1>3, <1>4, <1>5, <1>6, <1>7, <1>8 DEF IInv, CommandInv

\* The end of a stop command keeps the invariant.
LEMMA StoppedAllKept ==
    ASSUME IInv, NEW c \in Cmds, StoppedAll(c)
    PROVE  IInv'
<1> USE DaemonAssumption DEF os, scan, command, history, At, Goto, Once, Entries
<1>1. TypeOK'
  BY DEF StoppedAll, IInv, TypeOK
<1>2. Given'
  BY DEF StoppedAll, IInv, Given
<1>3. RunningIsTracked'
  BY DEF StoppedAll, IInv, RunningIsTracked, Unsaved, Saving
<1>4. ASSUME NEW d \in Cmds PROVE Removes(d)'
  BY DEF StoppedAll, IInv, CommandInv, Removes
<1>5. ASSUME NEW d \in Cmds PROVE Fresh(d)'
  BY DEF StoppedAll, IInv, CommandInv, Fresh, Saving
<1>6. ASSUME NEW d \in Cmds PROVE NothingYet(d)'
  BY DEF StoppedAll, IInv, CommandInv, NothingYet
<1>7. ASSUME NEW d \in Cmds, NEW p \in tracked'[d] \cap Once
      PROVE  TrackedStays(d, p)'
  BY DEF StoppedAll, IInv, CommandInv, TrackedStays
<1>8. ASSUME NEW d \in Cmds, NEW p \in stale'[d] \cap Once
      PROVE  StaleStays(d, p)'
  BY DEF StoppedAll, IInv, CommandInv, StaleStays
<1> QED
  BY <1>1, <1>2, <1>3, <1>4, <1>5, <1>6, <1>7, <1>8 DEF IInv, CommandInv

\* A command that is interrupted keeps the invariant.
LEMMA InterruptedKept ==
    ASSUME IInv, NEW c \in Cmds, Interrupted(c)
    PROVE  IInv'
<1> USE DaemonAssumption DEF os, scan, command, history, At, Goto, Once, Entries
<1>1. TypeOK'
  BY DEF Interrupted, IInv, TypeOK
<1>2. Given'
  BY DEF Interrupted, IInv, Given
<1>3. RunningIsTracked'
  BY DEF Interrupted, IInv, RunningIsTracked, Unsaved, Saving
<1>4. ASSUME NEW d \in Cmds PROVE Removes(d)'
  BY DEF Interrupted, IInv, CommandInv, Removes
<1>5. ASSUME NEW d \in Cmds PROVE Fresh(d)'
  BY DEF Interrupted, IInv, CommandInv, Fresh, Saving
<1>6. ASSUME NEW d \in Cmds PROVE NothingYet(d)'
  BY DEF Interrupted, IInv, CommandInv, NothingYet
<1>7. ASSUME NEW d \in Cmds, NEW p \in tracked'[d] \cap Once
      PROVE  TrackedStays(d, p)'
  BY DEF Interrupted, IInv, CommandInv, TrackedStays
<1>8. ASSUME NEW d \in Cmds, NEW p \in stale'[d] \cap Once
      PROVE  StaleStays(d, p)'
  BY DEF Interrupted, IInv, CommandInv, StaleStays
<1> QED
  BY <1>1, <1>2, <1>3, <1>4, <1>5, <1>6, <1>7, <1>8 DEF IInv, CommandInv

\* A process that ends, leaving its file, keeps the invariant.
LEMMA DiesKept ==
    ASSUME IInv, NEW c \in Pids, Dies(c)
    PROVE  IInv'
<1> USE DaemonAssumption DEF os, scan, command, history, At, Goto, Once, Entries
<1>1. TypeOK'
  BY DEF Dies, IInv, TypeOK
<1>2. Given'
  BY DEF Dies, IInv, Given
<1>3. RunningIsTracked'
  BY DEF Dies, IInv, TypeOK, RunningIsTracked, Unsaved, Saving
<1>4. ASSUME NEW d \in Cmds PROVE Removes(d)'
  BY DEF Dies, IInv, TypeOK, CommandInv, Removes
<1>5. ASSUME NEW d \in Cmds PROVE Fresh(d)'
  BY DEF Dies, IInv, CommandInv, Fresh, Saving
<1>6. ASSUME NEW d \in Cmds PROVE NothingYet(d)'
  BY DEF Dies, IInv, CommandInv, NothingYet
<1>7. ASSUME NEW d \in Cmds, NEW p \in tracked'[d] \cap Once
      PROVE  TrackedStays(d, p)'
  BY DEF Dies, IInv, TypeOK, CommandInv, TrackedStays
<1>8. ASSUME NEW d \in Cmds, NEW p \in stale'[d] \cap Once
      PROVE  StaleStays(d, p)'
  BY DEF Dies, IInv, CommandInv, StaleStays
<1> QED
  BY <1>1, <1>2, <1>3, <1>4, <1>5, <1>6, <1>7, <1>8 DEF IInv, CommandInv

\* A pid the system gives to another program keeps the invariant.
LEMMA TakenKept ==
    ASSUME IInv, NEW c \in Pids, Taken(c)
    PROVE  IInv'
<1> USE DaemonAssumption DEF os, scan, command, history, At, Goto, Once, Entries
<1>1. TypeOK'
  BY DEF Taken, Free, IInv, TypeOK
<1>2. Given'
  BY DEF Taken, Free, IInv, Given
<1>3. RunningIsTracked'
  BY DEF Taken, Free, IInv, RunningIsTracked, Unsaved, Saving
<1>4. ASSUME NEW d \in Cmds PROVE Removes(d)'
  BY DEF Taken, Free, IInv, CommandInv, Removes
<1>5. ASSUME NEW d \in Cmds PROVE Fresh(d)'
  BY DEF Taken, Free, IInv, CommandInv, Fresh, Saving
<1>6. ASSUME NEW d \in Cmds PROVE NothingYet(d)'
  BY DEF Taken, Free, IInv, CommandInv, NothingYet
<1>7. ASSUME NEW d \in Cmds, NEW p \in tracked'[d] \cap Once
      PROVE  TrackedStays(d, p)'
  BY DEF Taken, Free, IInv, TypeOK, CommandInv, TrackedStays
<1>8. ASSUME NEW d \in Cmds, NEW p \in stale'[d] \cap Once
      PROVE  StaleStays(d, p)'
  BY DEF Taken, Free, IInv, CommandInv, StaleStays
<1> QED
  BY <1>1, <1>2, <1>3, <1>4, <1>5, <1>6, <1>7, <1>8 DEF IInv, CommandInv

-----------------------------------------------------------------------------
(* The invariant of the specification and what follows from it.              *)

\* Every step keeps the invariant.
THEOREM StepIInv == IInv /\ [Next]_vars => IInv'
<1> SUFFICES ASSUME IInv, [Next]_vars PROVE IInv'
  OBVIOUS
<1>1. CASE UNCHANGED vars
  BY <1>1
  DEF vars, os, scan, command, history, IInv, TypeOK, Given, RunningIsTracked,
      Unsaved, CommandInv, Removes, Fresh, Saving, NothingYet, TrackedStays,
      StaleStays, At, Once, Entries
<1>2. ASSUME NEW p \in Pids, Dies(p) \/ Taken(p)
      PROVE  IInv'
  BY <1>2, DiesKept, TakenKept
<1>3. ASSUME NEW c \in Cmds, Command(c)
      PROVE  IInv'
  BY <1>3, BeginScanKept, ReadEntryKept, CheckAliveKept, UnlinkKept,
     ScannedKept,
     SpawnKept, SpawnFailsKept, CreateKept, WriteKept, BeginStopKept, ProbeKept,
     KillKept, KillNextKept, ForgetKept, StoppedAllKept DEF Command
<1>4. ASSUME NEW c \in Cmds, Interrupted(c)
      PROVE  IInv'
  BY <1>4, InterruptedKept
<1> QED
  BY <1>1, <1>2, <1>3, <1>4 DEF Next

\* The inductive invariant holds in every reachable state.
THEOREM InductiveInvariant == Spec => []IInv
BY InitIInv, StepIInv, PTL DEF Spec

\* Every reachable state of the commands and the tracking files is type correct.
THEOREM TypeCorrect == Spec => []TypeOK
<1>1. IInv => TypeOK
  BY DEF IInv
<1> QED
  BY <1>1, InductiveInvariant, PTL

\* A running daemon keeps its tracking file, however commands interleave with
\* its start and with each other.
THEOREM RunningTracked == Spec => []RunningIsTracked
<1>1. IInv => RunningIsTracked
  BY DEF IInv
<1> QED
  BY <1>1, InductiveInvariant, PTL

\* A start sees every daemon that was tracked when it began.
THEOREM CollisionsSeen == Spec => []CollisionSeen
<1>1. IInv => CollisionSeen
  <2> SUFFICES ASSUME IInv, NEW c \in Cmds, At(c, "spawn"),
                      NEW p \in tracked[c] \ Recycled, proc[p] = key[c]
               PROVE  p \in dying
    BY DEF CollisionSeen
  <2>1. p \in Once /\ key[c] \in Keys
    BY DEF IInv, TypeOK, Once
  <2>2. TrackedStays(c, p)
    BY <2>1 DEF IInv, CommandInv
  <2> QED
    BY <2>1, <2>2 DEF TrackedStays
<1> QED
  BY <1>1, InductiveInvariant, PTL

\* A scan that ran to its end has removed what was stale when it began.
THEOREM StaleGone == Spec => []StaleRemoved
<1>1. IInv => StaleRemoved
  <2> SUFFICES ASSUME IInv, NEW c \in Cmds, At(c, "done"),
                      NEW p \in stale[c] \ Recycled
               PROVE  file[p] = NoFile
    BY DEF StaleRemoved
  <2>1. p \in Once
    BY DEF IInv, TypeOK, Once
  <2>2. StaleStays(c, p)
    BY <2>1 DEF IInv, CommandInv
  <2> QED
    BY <2>2 DEF StaleStays, At
<1> QED
  BY <1>1, InductiveInvariant, PTL

-----------------------------------------------------------------------------
(* What the tracking files say, and what is done on their word.             *)

\* The process that has pid p, if there is one, is the daemon of tunnel k.
TellsTrue(p, k) == p \in Once => proc[p] \in {NoProc, k}

\* A tracking file, and an entry that a scan has read, at whatever time, name the
\* tunnel that the process runs, or a process that has ended.
EntriesTrue ==
    /\ \A p \in Pids : file[p] \in Keys => TellsTrue(p, file[p])
    /\ \A c \in Cmds : \A e \in found[c] \cup live[c] : TellsTrue(e[1], e[2])

\* A process that ends, or a program that gets a pid, makes no entry wrong: a pid
\* that is given out once has no entry before.
LEMMA ProcessesTellTrue ==
    ASSUME IInv, EntriesTrue,
           \E p \in Pids : Dies(p) \/ Taken(p)
    PROVE  EntriesTrue'
<1> USE DEF EntriesTrue, TellsTrue, Once, IInv, TypeOK, scan
<1>1. ASSUME NEW p \in Pids, Dies(p) PROVE EntriesTrue'
  BY <1>1, DaemonAssumption DEF Dies
<1>2. ASSUME NEW p \in Pids, Taken(p) PROVE EntriesTrue'
  BY <1>2, DaemonAssumption DEF Taken, Free, Given
<1> QED
  BY <1>1, <1>2

\* A pid that is handed to a daemon has, if it is given out once, no entry yet.
LEMMA SpawnTellsTrue ==
    ASSUME IInv, EntriesTrue, NEW c \in Cmds, Spawn(c)
    PROVE  EntriesTrue'
<1>1. PICK p \in Pids : Free(p) /\ proc' = [proc EXCEPT ![p] = key[c]]
  BY DEF Spawn
<1>2. key[c] \in Keys /\ key[c] # Foreign /\ proc \in [Pids -> Keys \cup {NoProc, Foreign}]
  BY DaemonAssumption DEF IInv, TypeOK
<1>3. p \in Once =>
        /\ file[p] = NoFile
        /\ \A d \in Cmds : \A e \in found[d] \cup live[d] : e[1] # p
  <2>1. p \in Once => p \notin used
    BY <1>1 DEF Free, Once
  <2> QED
    BY <2>1 DEF IInv, Given
<1>4. UNCHANGED <<file, found, live>>
  BY DEF Spawn, scan
<1>5. NoFile \notin Keys
  BY DaemonAssumption
<1>6. \A q \in Pids : q # p => proc'[q] = proc[q]
  BY <1>1, <1>2
<1>7. proc'[p] = key[c]
  BY <1>1, <1>2
<1>8. Once \subseteq Pids
  BY DEF Once
<1>9. ASSUME NEW q \in Pids, file[q] \in Keys, q \in Once
       PROVE  proc'[q] \in {NoProc, file[q]}
  BY <1>3, <1>5, <1>6, <1>9 DEF EntriesTrue, TellsTrue
<1>10. ASSUME NEW d \in Cmds, NEW e \in found[d] \cup live[d], e[1] \in Once
       PROVE  proc'[e[1]] \in {NoProc, e[2]}
  BY <1>3, <1>6, <1>8, <1>10 DEF EntriesTrue, TellsTrue
<1> QED
  BY <1>4, <1>9, <1>10 DEF EntriesTrue, TellsTrue, Once

\* What a start saves is its own daemon, and what a scan reads is a file.
LEMMA CommandTellsTrue ==
    ASSUME IInv, EntriesTrue, NEW c \in Cmds, Command(c), ~Spawn(c)
    PROVE  EntriesTrue'
<1> USE DEF EntriesTrue, TellsTrue, Once
<1>1. CASE ReadEntry(c)
  <2>1. PICK p \in todo[c] :
          \/ found' = found
          \/ /\ file[p] \in Keys
             /\ found' = [found EXCEPT ![c] = @ \cup {<<p, file[p]>>}]
    BY <1>1 DEF ReadEntry
  <2>2. p \in Pids /\ found \in [Cmds -> SUBSET Entries]
    BY DEF IInv, TypeOK
  <2>3. UNCHANGED <<proc, file, live>>
    BY <1>1 DEF ReadEntry, os
  <2>4. ASSUME NEW d \in Cmds, NEW e \in found'[d]
        PROVE  e \in found[d] \/ (e = <<p, file[p]>> /\ file[p] \in Keys)
    BY <2>1, <2>2
  <2>5. ASSUME NEW d \in Cmds, NEW e \in found'[d] \cup live'[d]
        PROVE  e[1] \in Once => proc'[e[1]] \in {NoProc, e[2]}
    BY <2>2, <2>3, <2>4
  <2> QED
    BY <2>3, <2>5
<1>2. CASE Write(c)
  <2>1. Fresh(c) /\ target[c] \in Pids /\ Saving(c)
    BY <1>2 DEF Write, At, Saving, IInv, TypeOK, CommandInv
  <2>2. file' = [file EXCEPT ![target[c]] = key[c]] /\ UNCHANGED <<proc, found, live>>
    BY <1>2 DEF Write, os, scan
  <2> QED
    BY <2>1, <2>2 DEF Fresh, IInv, TypeOK
<1>3. CASE UNCHANGED <<proc, found, live>> /\ ~ReadEntry(c) /\ ~Write(c)
  <2>1. \A p \in Pids : file'[p] = file[p] \/ file'[p] \notin Keys
    BY <1>3, DaemonAssumption
    DEF Command, BeginScan, CheckAlive, Unlink, Scanned, Spawn, SpawnFails,
        Create, BeginStop, Probe, Kill, KillNext, Forget, StoppedAll,
        remove_daemon_entry, IInv, TypeOK
  <2> QED
    BY <1>3, <2>1
<1>4. CASE CheckAlive(c)
  <2>1. PICK e \in found[c] :
          /\ found' = [found EXCEPT ![c] = @ \ {e}]
          /\ live' \in {live, [live EXCEPT ![c] = @ \cup {e}]}
    BY <1>4 DEF CheckAlive
  <2>2. found \in [Cmds -> SUBSET Entries] /\ live \in [Cmds -> SUBSET Entries]
    BY DEF IInv, TypeOK
  <2>3. UNCHANGED <<proc, file>>
    BY <1>4 DEF CheckAlive, os
  <2>4. ASSUME NEW d \in Cmds, NEW f \in found'[d] \cup live'[d]
        PROVE  f \in found[d] \cup live[d]
    BY <2>1, <2>2
  <2> QED
    BY <2>3, <2>4
<1>5. CASE KillNext(c)
  <2>1. PICK e \in live[c] : live' = [live EXCEPT ![c] = @ \ {e}]
    BY <1>5 DEF KillNext
  <2>2. live \in [Cmds -> SUBSET Entries]
    BY DEF IInv, TypeOK
  <2>3. UNCHANGED <<proc, file, found>>
    BY <1>5 DEF KillNext
  <2>4. ASSUME NEW d \in Cmds, NEW f \in live'[d]
        PROVE  f \in live[d]
    BY <2>1, <2>2
  <2> QED
    BY <2>3, <2>4
<1>6. ReadEntry(c) \/ Write(c) \/ CheckAlive(c) \/ KillNext(c)
        \/ UNCHANGED <<proc, found, live>>
  BY DEF Command, BeginScan, Unlink, Scanned, SpawnFails, Create, BeginStop,
    Probe, Kill, Forget, StoppedAll, os, scan
<1> QED
  BY <1>1, <1>2, <1>3, <1>4, <1>5, <1>6

\* Every step keeps the entries true.
LEMMA StepTellsTrue == IInv /\ EntriesTrue /\ [Next]_vars => EntriesTrue'
<1> SUFFICES ASSUME IInv, EntriesTrue, [Next]_vars PROVE EntriesTrue'
  OBVIOUS
<1>1. CASE \E p \in Pids : Dies(p) \/ Taken(p)
  BY <1>1, ProcessesTellTrue
<1>2. ASSUME NEW c \in Cmds, Command(c) PROVE EntriesTrue'
  BY <1>2, SpawnTellsTrue, CommandTellsTrue
<1>3. ASSUME NEW c \in Cmds, Interrupted(c) PROVE EntriesTrue'
  BY <1>3 DEF Interrupted, EntriesTrue, TellsTrue, Once, os, scan
<1>4. CASE UNCHANGED vars
  BY <1>4 DEF vars, EntriesTrue, TellsTrue, Once, os, scan
<1> QED
  BY <1>1, <1>2, <1>3, <1>4 DEF Next

\* However old an entry is when a command acts on it, it tells no lie about a
\* process that runs, if its pid is given out once.
THEOREM EntriesStayTrue == Spec => []EntriesTrue
<1>1. Init => EntriesTrue
  BY DaemonAssumption DEF Init, EntriesTrue, TellsTrue, Once
<1> QED
  BY <1>1, StepTellsTrue, InductiveInvariant, PTL DEF Spec

\* What ls prints, and what turns a start down as a collision, was the daemon of
\* that tunnel and running when it was asked for.
ListsWhatRuns ==
    [][\A c \in Cmds : \A e \in live'[c] \ live[c] :
          e[1] \in Once => proc[e[1]] = e[2]]_vars

\* A process is signalled only by a stop that holds its pid, or by a stop-all
\* that has it on its list.  What stop-all signals is the daemon of the tunnel it
\* has listed, although it acts long after it read the entry and asked.
SignalsWhatIsAsked ==
    [][\A p \in dying' \ dying : \E c \in Cmds :
          \/ op[c] = "stop" /\ target[c] = p
          \/ /\ op[c] = "stopall"
             /\ \E k \in Keys : /\ <<p, k>> \in live[c]
                                /\ p \in Once => proc[p] = k]_vars

\* The steps that list an entry ask for its process.
LEMMA ListedRuns ==
    ASSUME IInv, EntriesTrue, [Next]_vars,
           NEW c \in Cmds, NEW e \in live'[c] \ live[c], e[1] \in Once
    PROVE  proc[e[1]] = e[2]
<1>1. CheckAlive(c)
  BY DEF Next, vars, scan, os, Command, BeginScan, ReadEntry, CheckAlive,
     Unlink,
    Scanned, Spawn, SpawnFails, Create, Write, BeginStop, Probe, Kill, KillNext,
    Forget, StoppedAll, Dies, Taken, Interrupted, IInv, TypeOK
<1>2. e \in found[c] /\ FoundAlive(e[1])
  BY <1>1 DEF CheckAlive, IInv, TypeOK
<1> QED
  BY <1>2 DEF EntriesTrue, TellsTrue, FoundAlive

\* A signal goes to a process that runs, and by stop-all to one it has listed.
LEMMA SignalledIsAsked ==
    ASSUME IInv, EntriesTrue, [Next]_vars, NEW p \in dying' \ dying
    PROVE  \E c \in Cmds :
              \/ op[c] = "stop" /\ target[c] = p
              \/ /\ op[c] = "stopall"
                 /\ \E k \in Keys : /\ <<p, k>> \in live[c]
                                    /\ p \in Once => proc[p] = k
<1>1. \E c \in Cmds : Kill(c) \/ KillNext(c)
  BY DEF Next, vars, os, Command, BeginScan, ReadEntry, CheckAlive, Unlink,
    Scanned, Spawn, SpawnFails, Create, Write, BeginStop, Probe, Kill, KillNext,
    Forget, StoppedAll, Dies, Taken, Interrupted
<1>2. PICK c \in Cmds : Kill(c) \/ KillNext(c)
  BY <1>1
<1>3. CASE Kill(c)
  BY <1>3 DEF Kill, kill_process
<1>4. CASE KillNext(c)
  <2>1. PICK e \in live[c] : kill_process(e[1])
    BY <1>4 DEF KillNext
  <2>2. e[1] = p /\ proc[p] # NoProc
    BY <2>1 DEF kill_process
  <2>3. e = <<p, e[2]>> /\ e[2] \in Keys /\ p \in Pids
    BY <2>2 DEF IInv, TypeOK, Entries
  <2>4. p \in Once => proc[p] = e[2]
    BY <2>1, <2>2 DEF EntriesTrue, TellsTrue
  <2> QED
    BY <1>4, <2>3, <2>4 DEF KillNext
<1> QED
  BY <1>2, <1>3, <1>4

\* A listing shows, and a start is turned down for, running daemons only, and
\* stop-all signals nothing but the daemons it lists: the danger in tracking
\* daemons by pid is that of a pid given out again.
THEOREM ActsAsListed == Spec => ListsWhatRuns /\ SignalsWhatIsAsked
<1>1. IInv /\ EntriesTrue /\ [Next]_vars =>
        [\A c \in Cmds : \A e \in live'[c] \ live[c] :
           e[1] \in Once => proc[e[1]] = e[2]]_vars
  BY ListedRuns
<1>2. IInv /\ EntriesTrue /\ [Next]_vars =>
        [\A p \in dying' \ dying : \E c \in Cmds :
           \/ op[c] = "stop" /\ target[c] = p
           \/ /\ op[c] = "stopall"
              /\ \E k \in Keys : /\ <<p, k>> \in live[c]
                                 /\ p \in Once => proc[p] = k]_vars
  BY SignalledIsAsked
<1> QED
  BY <1>1, <1>2, EntriesStayTrue, InductiveInvariant, PTL
    DEF Spec, ListsWhatRuns, SignalsWhatIsAsked
==============================================================================
